------------------------------- MODULE OtgSet -------------------------------
(***************************************************************************)
(* `otgimg set' on an image that was built or that came from a factory.    *)
(* It writes a field with one pwrite and then, in another, the CRC of the  *)
(* manufacturing section the field is in, but only if that CRC was good    *)
(* before.  A run may be killed in between, runs may overlap, and the      *)
(* image may be damaged where it lies.                                     *)
(***************************************************************************)
EXTENDS OtgBuild

CONSTANTS
    Runs,       \* processes that run otgimg set
    Params,     \* the parameters that each of them sets
    Macs,       \* MAC addresses
    Vpds,       \* contents of VPD files
    Factory,    \* images made elsewhere
    Fragile,    \* words of the manufacturing sections that may be damaged
    MaxDamage   \* bound on the words damaged

ASSUME SetAssumption ==
    /\ MaxDamage \in Nat
    /\ \A f \in Factory : CleanFile(f)
    /\ Fragile \subseteq DIR_CRC..MFR_CRC \union MFR2_LEN..MFR2_CRC

\* What an image's own header has to say of it for set to find its way: the code
\* begins behind the header, and the extended VPD is in the file and not in code
\* that a CRC is of.
Laid(f) ==
    LET s2 == L32(f, S2Offset(f)) = Magic
    IN  /\ IsFile(f) /\ HEADER <= Len(f)
        /\ S1Offset(f) \in Nat /\ HEADER <= S1Offset(f) /\ S1Size(f) \in Nat \ {0}
        /\ s2 => S2Size(f) \in Nat
        /\ \A i \in KnownExt(f) :
              /\ Offset(f, i) \in HEADER..Len(f)-1 /\ Size(f, i) \in Nat
              /\ Offset(f, i) \notin S1Offset(f)..S1CrcAt(f)
              /\ s2 => Offset(f, i) \notin S2Offset(f)..S2CrcAt(f)

ASSUME FactoryAssumption == \A f \in Factory : Laid(f)

VARIABLES
    img,        \* the image
    spc,        \* where each run is
    param,      \* the parameter it sets
    value,      \* and to what
    good,       \* whether the CRC of the field's section was good
    crc,        \* the CRC it has computed
    damage,     \* how many words were damaged so far
    meant,      \* history: the image as it would be undamaged
    before      \* history: the image when the run began, None once another run
                \* was active as well

runVars == <<spc, param, value, good, crc, before>>
setVars == <<img, runVars, damage, meant>>

MacParams == {"mac0", "mac1", "mac2", "mac3"}
VpdParams == {"vpd", "vpdstd", "vpdext"}

\* _params.
FieldOffset(p) ==
    CASE p = "mac0" -> MAC0 [] p = "mac1" -> MAC1
      [] p = "mac2" -> MAC2 [] p = "mac3" -> MAC3
      [] OTHER -> VPD

\* Faulty variant: the section ends before the last field of it.
InMfrShort(o) == DIR_CRC <= o /\ o < MFR_CRC - 2

\* The section a change touches: none for the VPD, wherever it is.
InMfr(o)  == DIR_CRC <= o /\ o < MFR_CRC
InMfr2(o) == MFR2_LEN <= o /\ o < MFR2_CRC
Touches(p) == InMfr(FieldOffset(p)) \/ InMfr2(FieldOffset(p))
CrcOffset(p) == IF InMfr(FieldOffset(p)) THEN MFR_CRC ELSE MFR2_CRC
SectionCrc(f, p) == IF InMfr(FieldOffset(p)) THEN MfrCrc(f) ELSE Mfr2Crc(f)

\* Faulty variant: only vpdext goes to the extended region.
TargetStandard(f, p) ==
    CASE p \in MacParams -> FieldOffset(p)
      [] p # "vpdext"     -> VPD
      [] OTHER            -> Offset(f, ExtEntry(f))

\* Where the value goes, and how much there is room for.
Target(f, p) ==
    CASE p \in MacParams -> FieldOffset(p)
      [] p = "vpdstd" \/ (p = "vpd" /\ KnownExt(f) = {}) -> VPD
      [] OTHER -> Offset(f, ExtEntry(f))

Room(f, p) == IF Target(f, p) = VPD THEN 1 ELSE Size(f, ExtEntry(f))

Idle == {r \in Runs : spc[r] = "off"}

SetInit ==
    /\ img = None /\ meant = None
    /\ spc = [r \in Runs |-> "off"]
    /\ param = [r \in Runs |-> "mac0"] /\ value = [r \in Runs |-> Zero]
    /\ good = [r \in Runs |-> FALSE] /\ crc = [r \in Runs |-> Zero]
    /\ before = [r \in Runs |-> None]
    /\ damage = 0

\* The user takes an image that was built, or one from a factory; what make
\* left is of no further interest.
Take(f) ==
    /\ img = None /\ f # None
    /\ img' = f /\ meant' = f
    /\ tmp' = None /\ files' = [t \in Targets |-> None]
    /\ goal' = "otg.bin" /\ nth' = 1
    /\ UNCHANGED <<mpc, runVars, damage>>

\* The checks that end a run before it has written anything leave it where it
\* was: the image is not one, a section has another length, there is no
\* extended VPD, or the value is too large for the region it is for.
Refuses(f, p, v) ==
    \/ L32(f, MAGIC) # Magic
    \/ L32(f, MFR_LEN) # Num(140) \/ L32(f, MFR2_LEN) # Num(140)
    \/ p = "vpdext" /\ KnownExt(f) = {}
    \/ p \in VpdParams /\ v[2].size > Room(f, p)

Begin(r, p, v) ==
    /\ img # None /\ spc[r] = "off" /\ ~Refuses(img, p, v)
    /\ spc' = [spc EXCEPT ![r] = "value"]
    /\ param' = [param EXCEPT ![r] = p] /\ value' = [value EXCEPT ![r] = v]
    /\ good' = [good EXCEPT ![r] = L32(img, CrcOffset(p)) = SectionCrc(img, p)]
    /\ before' = [s \in Runs |-> IF s = r /\ Idle = Runs THEN img ELSE None]
    /\ UNCHANGED <<img, crc, damage, meant>>

WriteValue(r) ==
    /\ spc[r] = "value"
    /\ img' = PWrite(img, Target(img, param[r]), value[r])
    /\ meant' = PWrite(meant, Target(img, param[r]), value[r])
    /\ spc' = [spc EXCEPT ![r] = "sum"]
    /\ UNCHANGED <<param, value, good, crc, damage, before>>

\* Faulty variant: the CRC is made good whatever it was.
SumSectionAlways(r) ==
    /\ spc[r] = "sum"
    /\ IF Touches(param[r])
       THEN /\ crc' = [crc EXCEPT ![r] = SectionCrc(img, param[r])]
            /\ spc' = [spc EXCEPT ![r] = "crc"]
            /\ UNCHANGED <<param, value, good, before>>
       ELSE /\ spc' = [spc EXCEPT ![r] = "done"]
            /\ UNCHANGED <<param, value, good, crc, before>>
    /\ UNCHANGED <<img, damage, meant>>

\* A section whose CRC was not good keeps it, with a warning.
SumSection(r) ==
    /\ spc[r] = "sum"
    /\ IF Touches(param[r]) /\ good[r]
       THEN /\ crc' = [crc EXCEPT ![r] = SectionCrc(img, param[r])]
            /\ spc' = [spc EXCEPT ![r] = "crc"]
            /\ UNCHANGED <<param, value, good, before>>
       ELSE /\ spc' = [spc EXCEPT ![r] = "done"]
            /\ UNCHANGED <<param, value, good, crc, before>>
    /\ UNCHANGED <<img, damage, meant>>

WriteCrc(r) ==
    /\ spc[r] = "crc"
    /\ img' = PWrite(img, CrcOffset(param[r]), crc[r])
    /\ spc' = [spc EXCEPT ![r] = "done"]
    /\ UNCHANGED <<param, value, good, crc, before, damage, meant>>

\* Locals end with their function.
Forget(r) ==
    /\ param' = [param EXCEPT ![r] = "mac0"] /\ value' = [value EXCEPT ![r] = Zero]
    /\ good' = [good EXCEPT ![r] = FALSE] /\ crc' = [crc EXCEPT ![r] = Zero]
    /\ before' = [before EXCEPT ![r] = None]

\* It returns, or is killed before.
End(r) ==
    /\ spc[r] # "off"
    /\ Forget(r) /\ spc' = [spc EXCEPT ![r] = "off"]
    /\ UNCHANGED <<img, damage, meant>>

\* A word of the manufacturing sections goes bad while no run is active.
Damage(o) ==
    /\ img # None /\ Idle = Runs /\ damage < MaxDamage
    /\ img' = PWrite(img, o, Junk)
    /\ damage' = damage + 1
    /\ UNCHANGED <<runVars, meant>>

-----------------------------------------------------------------------------
Init == BuildInit /\ SetInit

\* Bound: one image, which is taken when make is done with.
Next ==
    \/ img = None /\ Make /\ UNCHANGED setVars
    \/ mpc = "idle" /\ \E f \in Factory \union {files["otg.bin"]} : Take(f)
    \/ /\ \/ \E r \in Runs :
                \/ \E p \in Params[r] \intersect MacParams, m \in Macs : Begin(r, p, Mac(m))
                \/ \E p \in Params[r] \intersect VpdParams, v \in Vpds : Begin(r, p, Vpd(v))
                \/ WriteValue(r) \/ SumSection(r) \/ WriteCrc(r) \/ End(r)
          \/ \E o \in Fragile : Damage(o)
       /\ UNCHANGED buildVars

vars == <<buildVars, setVars>>

Spec == Init /\ [][Next]_vars

-----------------------------------------------------------------------------
TypeOK ==
    /\ mpc \in MakePc /\ goal \in Targets /\ nth \in 1..5
    /\ spc \in [Runs -> {"off", "value", "sum", "crc", "done"}]
    /\ param \in [Runs -> MacParams \union VpdParams]
    /\ good \in [Runs -> BOOLEAN]
    /\ damage \in 0..MaxDamage
    /\ img = None <=> meant = None
    /\ img # None => Len(img) = Len(meant)

\* A CRC that is good vouches for its section: what it covers is what was
\* built and set, never a damaged word.  otgimg.c:803-807: set must not `give
\* a correct CRC to data which has in fact been corrupted'.
GoodCrcVouches ==
    img # None =>
        /\ L32(img, MFR_CRC) = MfrCrc(img) => MfrCrc(img) = MfrCrc(meant)
        /\ L32(img, MFR2_CRC) = Mfr2Crc(img) => Mfr2Crc(img) = Mfr2Crc(meant)

\* A run that overlaps no other changes its field and, if it was good, the CRC
\* of that field's section, which is good again; nothing else changes, and
\* info says of the image what it said before.
SetIsExact ==
    \A r \in Runs : spc[r] = "done" /\ before[r] # None =>
        LET old == before[r]
            at  == Target(old, param[r])
            sum == IF Touches(param[r]) /\ good[r] THEN {CrcOffset(param[r])} ELSE {}
        IN  /\ \A i \in DOMAIN img : i - 1 \notin {at} \union sum => img[i] = old[i]
            /\ L32(img, at) = value[r]
            /\ L32(old, MFR_CRC) = MfrCrc(old) => L32(img, MFR_CRC) = MfrCrc(img)
            /\ L32(old, MFR2_CRC) = Mfr2Crc(old) => L32(img, MFR2_CRC) = Mfr2Crc(img)
            /\ InfoIsClean(old) => InfoIsClean(img)

=============================================================================
