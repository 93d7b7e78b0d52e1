------------------------------ MODULE OtgBuild ------------------------------
(***************************************************************************)
(* Building images: the Makefile's rules for otg_stage2.bin, otg.bin and   *)
(* otg_dummy.bin with s2stamp and s1stamp, which check what the linker     *)
(* has made of its script and then write the CRCs into the file.           *)
(*                                                                         *)
(* The linker may pad where the scripts do not say so, in which case what  *)
(* it believes of offsets and sizes differs from the file.  Each pwrite is *)
(* a step; make may be killed after any.                                   *)
(***************************************************************************)
EXTENDS OtgImage

CONSTANTS
    Layouts1,   \* how the linker may lay out stage 1 and its header
    Layouts2    \* how it may lay out stage 2

ASSUME LayoutAssumption ==
    /\ \A l \in Layouts1 : {l.pad, l.start, l.mid, l.gap} \subseteq Nat
    /\ \A l \in Layouts1 : l.offset \in Nat /\ l.size \in Nat \ {0}
    /\ \A l \in Layouts2 : l.tail \in Nat /\ l.size \in Nat

VARIABLES
    tmp,        \* the target's .tmp file
    files,      \* the targets
    goal,       \* the target being made
    mpc,        \* what make does
    nth         \* the next pwrite

buildVars == <<tmp, files, goal, mpc, nth>>

Targets == {"otg_stage2.bin", "otg.bin", "otg_dummy.bin"}

-----------------------------------------------------------------------------
(* What the linker puts together.                                          *)

Pad(n) == [i \in 1..n |-> Zero]

\* gS2_otgHeader, code and gS2_crc.  The script says the size is l.size; there
\* may be padding at the end.
Link2(l) ==
    <<Magic, Num(l.size), Nop, Op("b"), Op("sp"), Deadbeef>> \o Pad(l.tail)

\* gS1_otgHeader; the script says that stage 1 begins at l.offset and has
\* l.size words.
Header(l) ==
    <<Magic, Num(S1_ENTRYPOINT), Num(l.size), Num(l.offset), Deadbeef,
      Entry("APE", 1, l.offset), Entry("none", 0, 0),
      Zero, Num(140), Mac("built"), Mac("built"), Zero, Vpd([name |-> "built", size |-> 1]),
      Num(140), Mac("built"), Mac("built"), Zero>>

\* The code, the version string, which the code points to by its virtual
\* address, the CRC and what the target includes after it.  There may be
\* padding before the code, after its start, before the string and after the
\* CRC.
Link1(l, version, included) ==
    Header(l) \o Pad(l.pad)
    \o <<Op("j"), Nop, Num(S1_ENTRYPOINT + 4)>> \o Pad(l.start)
    \o <<Op("sp")>> \o Pad(l.mid)
    \o <<version, Deadbeef>> \o Pad(l.gap) \o included

LinkerOutput(target) ==
    CASE target = "otg_stage2.bin" -> {Link2(l) : l \in Layouts2}
      [] target = "otg.bin" ->
             {Link1(l, <<"version", "OTG">>, files["otg_stage2.bin"]) : l \in Layouts1}
      [] target = "otg_dummy.bin" ->
             {Link1(l, <<"version", "Dummy">>, << >>) : l \in Layouts1}

-----------------------------------------------------------------------------
(* s2stamp.                                                                *)

S2Accepts(f) ==
    /\ L32(f, 0) = Magic
    /\ L32(f, 2) = Nop /\ L32(f, 3) = Op("b") /\ L32(f, 4) = Op("sp")
    /\ L32(f, L32(f, 1)[2] + 2 - 1) = Deadbeef

\* The CRC goes to the end of the file.
S2Write(f, i) == PWrite(f, Len(f) - 1, Crc(f, 2, Len(f) - 1 - 2))

-----------------------------------------------------------------------------
(* s1stamp.                                                                *)

\* The version string as the loaded code sees it.
VersionAt(f) == (L32(f, S1Offset(f) + 2)[2] - S1_ENTRYPOINT) + S1Offset(f)
IsDummy(f)   == L32(f, VersionAt(f)) = <<"version", "Dummy">>

\* Faulty variant: the version string is not followed.
S1AcceptsAnyVersion(f) ==
    /\ L32(f, MAGIC) = Magic /\ L32(f, S1_ENTRY) = Num(S1_ENTRYPOINT)
    /\ S1Offset(f) \in HEADER..HEADER+1
    /\ L32(f, S1Offset(f)) = Op("j") /\ L32(f, S1Offset(f) + 1) = Nop
    /\ L32(f, S1Offset(f) + 3) = Op("sp")
    /\ IsDummy(f) \/ L32(f, S2Offset(f)) = Magic
    /\ L32(f, BOOT_CRC) = Deadbeef /\ L32(f, S1CrcAt(f)) = Deadbeef

\* The header may be padded by at most 16 bytes, here a word.
S1Accepts(f) ==
    /\ L32(f, MAGIC) = Magic /\ L32(f, S1_ENTRY) = Num(S1_ENTRYPOINT)
    /\ S1Offset(f) \in HEADER..HEADER+1
    /\ L32(f, S1Offset(f)) = Op("j") /\ L32(f, S1Offset(f) + 1) = Nop
    /\ L32(f, S1Offset(f) + 2)[1] = "num"
    /\ IsDummy(f) \/ L32(f, VersionAt(f)) = <<"version", "OTG">>
    /\ L32(f, S1Offset(f) + 3) = Op("sp")
    /\ IsDummy(f) \/ L32(f, S2Offset(f)) = Magic
    /\ L32(f, BOOT_CRC) = Deadbeef /\ L32(f, S1CrcAt(f)) = Deadbeef

\* Faulty variant: the manufacturing section is summed before the directory.
S1WriteMfrFirst(f, i) ==
    CASE i = 1 -> PWrite(f, BOOT_CRC, BootCrc(f))
      [] i = 2 -> PWrite(f, MFR_CRC, MfrCrc(f))
      [] i = 3 -> PWrite(f, DIR_CRC, DirSum(f))
      [] i = 4 -> PWrite(f, MFR2_CRC, Mfr2Crc(f))
      [] i = 5 -> PWrite(f, S1CrcAt(f), S1Crc(f))

\* The pwrites, in their order.
S1Write(f, i) ==
    CASE i = 1 -> PWrite(f, BOOT_CRC, BootCrc(f))
      [] i = 2 -> PWrite(f, DIR_CRC, DirSum(f))
      [] i = 3 -> PWrite(f, MFR_CRC, MfrCrc(f))
      [] i = 4 -> PWrite(f, MFR2_CRC, Mfr2Crc(f))
      [] i = 5 -> PWrite(f, S1CrcAt(f), S1Crc(f))

-----------------------------------------------------------------------------
(* make.  A failed command ends it; a .tmp file stays behind.              *)

Pwrites(target) == IF target = "otg_stage2.bin" THEN 1 ELSE 5
MakePc == {"idle", "check", "stamp", "info", "install"}

BuildInit ==
    /\ tmp = None /\ files = [t \in Targets |-> None]
    /\ goal = "otg.bin" /\ mpc = "idle" /\ nth = 1

Link(target) ==
    /\ mpc = "idle"
    /\ target = "otg.bin" => files["otg_stage2.bin"] # None
    /\ goal' = target
    /\ tmp' \in LinkerOutput(target)
    /\ mpc' = "check" /\ nth' = 1
    /\ UNCHANGED files

Check ==
    /\ mpc = "check"
    /\ mpc' = IF IF goal = "otg_stage2.bin" THEN S2Accepts(tmp) ELSE S1Accepts(tmp)
              THEN "stamp" ELSE "idle"
    /\ UNCHANGED <<tmp, files, goal, nth>>

Stamp ==
    /\ mpc = "stamp"
    /\ tmp' = IF goal = "otg_stage2.bin" THEN S2Write(tmp, nth) ELSE S1Write(tmp, nth)
    /\ nth' = IF nth < Pwrites(goal) THEN nth + 1 ELSE 1
    /\ mpc' = IF nth < Pwrites(goal) THEN "stamp"
              ELSE IF goal = "otg.bin" THEN "info" ELSE "install"
    /\ UNCHANGED <<files, goal>>

\* Only for otg.bin does the rule ask otgimg info.
Info ==
    /\ mpc = "info"
    /\ mpc' = IF InfoIsClean(tmp) THEN "install" ELSE "idle"
    /\ UNCHANGED <<tmp, files, goal, nth>>

Install ==
    /\ mpc = "install"
    /\ files' = [files EXCEPT ![goal] = tmp]
    /\ tmp' = None
    /\ mpc' = "idle"
    /\ UNCHANGED <<goal, nth>>

KillMake ==
    /\ mpc # "idle"
    /\ mpc' = "idle"
    /\ UNCHANGED <<tmp, files, goal, nth>>

Make == \/ \E t \in Targets : Link(t)
        \/ Check \/ Stamp \/ Info \/ Install \/ KillMake

-----------------------------------------------------------------------------
\* otg.h:3866-3890 and the comment of s1stamp.c:47-85: what the ROM loader and
\* stage 1 find where the header says.
StartsAsLinked(f) ==
    /\ L32(f, S1Offset(f)) = Op("j")
    /\ L32(f, VersionAt(f))[1] = "version"

\* However the linker pads and wherever make is killed, an otg.bin that has
\* been installed can be started, its string addresses are right, stage 2 is
\* where stage 1 ends, and every CRC is that of what it covers.
BuiltIsSound ==
    files["otg.bin"] # None =>
        LET f == files["otg.bin"] IN
        /\ StartsAsLinked(f) /\ HeaderGood(f) /\ S1Good(f)
        /\ L32(f, S2Offset(f)) = Magic /\ L32(f, S2Offset(f) + 3) = Op("b")
        /\ S2Good(f)

\* otg_dummy.bin, which is not shown to info, is right by its stamp alone.
DummyIsSound ==
    files["otg_dummy.bin"] # None =>
        LET f == files["otg_dummy.bin"] IN
        StartsAsLinked(f) /\ HeaderGood(f) /\ S1Good(f)

=============================================================================
