---------------------------- MODULE OtgSetProofs ----------------------------
(* A good CRC vouches for its section, what make builds is sound, and a run *)
(* of otgimg set changes what it is to change, for all constants.           *)
EXTENDS OtgSet, TLAPS

Covered == DIR_CRC..MFR_CRC-1 \union MFR2_LEN..MFR2_CRC-1

\* The words from offset are undamaged.
Whole(f, offset, n) == \A i \in 0..n-1 : L32(f, offset + i) # Junk

BuildInv ==
    /\ goal \in Targets /\ nth \in 1..5
    /\ mpc # "idle" => CleanFile(tmp)
    /\ files = [t \in Targets |-> files[t]]
    /\ \A t \in Targets : files[t] # None => CleanFile(files[t])

SameWhereWhole(f, g) ==
    /\ IsFile(f) /\ IsFile(g) /\ Len(f) = Len(g)
    /\ \A i \in 1..Len(f) : f[i] = Junk \/ Clean(f[i])
    /\ \A i \in 1..Len(f) : i - 1 \in Covered /\ f[i] # Junk => f[i] = g[i]

ImageInv == img # None => SameWhereWhole(img, meant)

\* A run that found the section good may count on it.
RunInv ==
    \A r \in Runs :
        /\ spc[r] # "off" => img # None
        /\ spc[r] # "off" => param[r] \in MacParams \union VpdParams
        /\ spc[r] # "off" => Clean(value[r])
        /\ spc[r] \in {"value", "sum"} /\ Touches(param[r]) /\ good[r] =>
               IF InMfr(FieldOffset(param[r])) THEN Whole(img, DIR_CRC, MFR_CRC - DIR_CRC)
                                               ELSE Whole(img, MFR2_LEN, MFR2_CRC - MFR2_LEN)
        /\ spc[r] = "crc" => Clean(crc[r])

Shape ==
    /\ spc \in [Runs -> {"off", "value", "sum", "crc", "done"}]
    /\ param = [r \in Runs |-> param[r]] /\ value = [r \in Runs |-> value[r]]
    /\ good = [r \in Runs |-> good[r]] /\ crc = [r \in Runs |-> crc[r]]

SetInv == ImageInv /\ RunInv /\ Shape

IInv == BuildInv /\ SetInv

-----------------------------------------------------------------------------
(* Files and CRCs.                                                          *)

LEMMA Offsets ==
    /\ MAGIC = 0 /\ BOOT_CRC = 4 /\ DIR_CRC = 7 /\ MAC0 = 9 /\ MAC1 = 10 /\ MFR_CRC = 11 /\ VPD = 12
    /\ MFR2_LEN = 13 /\ MAC2 = 14 /\ MAC3 = 15 /\ MFR2_CRC = 16
BY DEF MAGIC, BOOT_CRC, DIR_CRC, MAC0, MAC1, MFR_CRC, VPD, MFR2_LEN, MAC2, MAC3, MFR2_CRC

\* A CRC is clean exactly if it is of undamaged words.
LEMMA CrcClean ==
    ASSUME NEW f, NEW offset, NEW n
    PROVE  Clean(Crc(f, offset, n)) <=> Whole(f, offset, n)
<1> DEFINE g == [i \in 0..n-1 |-> L32(f, offset + i)]
<1>1. Crc(f, offset, n) = <<"crc", g>>
  BY DEF Crc
<1>2. <<"crc", g>> # Junk
  BY DEF Junk
<1>3. <<"crc", g>>[1] = "crc" /\ <<"crc", g>>[2] = g
  OBVIOUS
<1>4. DOMAIN g = 0..n-1 /\ \A i \in 0..n-1 : g[i] = L32(f, offset + i)
  OBVIOUS
<1> HIDE DEF g
<1> QED
  BY <1>1, <1>2, <1>3, <1>4 DEF Clean, Whole

\* What is read from a clean file is clean, also beyond its end.
LEMMA ZeroClean == Clean(Zero) /\ Zero # Junk
BY DEF Clean, Zero, Junk

LEMMA CleanWhole ==
    ASSUME NEW f, CleanFile(f), NEW offset, NEW n
    PROVE  Whole(f, offset, n)
BY ZeroClean DEF Whole, CleanFile, IsFile, L32, Clean

\* pwrite keeps a file a file, and puts nothing else into it.
LEMMA PWriteFile ==
    ASSUME NEW f, IsFile(f), NEW offset, NEW w
    PROVE  /\ IsFile(PWrite(f, offset, w)) /\ Len(PWrite(f, offset, w)) = Len(f)
           /\ \A i \in 1..Len(f) :
                  PWrite(f, offset, w)[i] = IF i = offset + 1 THEN w ELSE f[i]
<1> DEFINE g == PWrite(f, offset, w)
<1>1. DOMAIN f = 1..Len(f) /\ Len(f) \in Nat
  BY DEF IsFile
<1>2. g = [i \in 1..Len(f) |-> IF i = offset + 1 THEN w ELSE f[i]]
  BY <1>1 DEF PWrite
<1>3. Len(g) = Len(f)
  BY <1>1, <1>2
<1> QED
  BY <1>1, <1>2, <1>3 DEF IsFile

LEMMA PWriteClean ==
    ASSUME NEW f, CleanFile(f), NEW offset, NEW w, Clean(w)
    PROVE  CleanFile(PWrite(f, offset, w))
BY PWriteFile DEF CleanFile

LEMMA SeqClean ==
    ASSUME NEW U, \A u \in U : Clean(u), NEW f \in Seq(U)
    PROVE  CleanFile(f)
<1>1. Len(f) \in Nat /\ f \in [1..Len(f) -> U]
  OBVIOUS
<1> QED
  BY <1>1 DEF CleanFile, IsFile

LEMMA ConcatClean ==
    ASSUME NEW f, CleanFile(f), NEW g, CleanFile(g)
    PROVE  CleanFile(f \o g)
<1> DEFINE U == {f[i] : i \in 1..Len(f)} \union {g[i] : i \in 1..Len(g)}
<1>1. f \in Seq(U) /\ g \in Seq(U)
  BY DEF CleanFile, IsFile
<1>2. \A u \in U : Clean(u)
  BY DEF CleanFile
<1> HIDE DEF U
<1>3. f \o g \in Seq(U)
  BY <1>1
<1> QED
  BY <1>2, <1>3, SeqClean

LEMMA PadClean == ASSUME NEW n \in Nat PROVE CleanFile(Pad(n))
BY ZeroClean DEF CleanFile, IsFile, Pad

\* Every word but a CRC is clean, unless it is Junk.
LEMMA WordsClean ==
    /\ Clean(Magic) /\ Clean(Nop) /\ Clean(Deadbeef)
    /\ \A n : Clean(Num(n)) /\ Clean(Op(n)) /\ Clean(Mac(n)) /\ Clean(Vpd(n))
    /\ \A n : Clean(<<"version", n>>)
    /\ \A t, n, o : Clean(Entry(t, n, o))
BY DEF Clean, Magic, Nop, Zero, Deadbeef, Num, Op, Mac, Vpd, Entry, Junk

LEMMA LinkClean ==
    ASSUME NEW target \in Targets, \A t \in Targets : files[t] # None => CleanFile(files[t]),
           target = "otg.bin" => files["otg_stage2.bin"] # None,
           NEW f \in LinkerOutput(target)
    PROVE  CleanFile(f)
<1> USE WordsClean, ZeroClean
<1>1. ASSUME NEW l \in Layouts2 PROVE CleanFile(Link2(l))
  <2> DEFINE g == <<Magic, Num(l.size), Nop, Op("b"), Op("sp"), Deadbeef>>
  <2>1. CleanFile(g)
    BY DEF CleanFile, IsFile
  <2>2. CleanFile(Pad(l.tail))
    BY LayoutAssumption, PadClean
  <2> HIDE DEF g
  <2>3. CleanFile(g \o Pad(l.tail))
    BY <2>1, <2>2, ConcatClean
  <2> QED
    BY <2>3 DEF Link2, g
<1>2. ASSUME NEW l \in Layouts1, NEW version, Clean(version),
             NEW included, CleanFile(included)
      PROVE  CleanFile(Link1(l, version, included))
  <2> DEFINE g == <<Op("j"), Nop, Num(S1_ENTRYPOINT + 4)>>
             h == <<Op("sp")>>
             k == <<version, Deadbeef>>
  <2>1. CleanFile(Header(l))
    BY DEF CleanFile, IsFile, Header
  <2>2. CleanFile(g) /\ CleanFile(h) /\ CleanFile(k)
    BY <1>2 DEF CleanFile, IsFile
  <2>3. /\ CleanFile(Pad(l.pad)) /\ CleanFile(Pad(l.start))
        /\ CleanFile(Pad(l.mid)) /\ CleanFile(Pad(l.gap))
    BY LayoutAssumption, PadClean
  <2> HIDE DEF g, h, k
  <2>4. CleanFile(Header(l) \o Pad(l.pad) \o g \o Pad(l.start))
    BY <2>1, <2>2, <2>3, ConcatClean
  <2>5. CleanFile(Header(l) \o Pad(l.pad) \o g \o Pad(l.start) \o h \o Pad(l.mid))
    BY <2>2, <2>3, <2>4, ConcatClean
  <2>6. CleanFile(Header(l) \o Pad(l.pad) \o g \o Pad(l.start) \o h \o Pad(l.mid)
                  \o k \o Pad(l.gap) \o included)
    BY <1>2, <2>2, <2>3, <2>5, ConcatClean
  <2> QED
    BY <2>6 DEF Link1, g, h, k
<1>3. CleanFile(<< >>)
  BY DEF CleanFile, IsFile
<1>4. CASE target = "otg_stage2.bin"
  BY <1>1, <1>4 DEF LinkerOutput
<1>5. CASE target = "otg.bin"
  BY <1>2, <1>5 DEF LinkerOutput, Targets
<1>6. CASE target = "otg_dummy.bin"
  BY <1>2, <1>3, <1>6 DEF LinkerOutput
<1> QED
  BY <1>4, <1>5, <1>6 DEF Targets

LEMMA StampClean ==
    ASSUME NEW f, CleanFile(f), NEW i \in 1..5
    PROVE  CleanFile(S1Write(f, i))
<1>1. /\ Clean(BootCrc(f)) /\ Clean(DirSum(f)) /\ Clean(MfrCrc(f)) /\ Clean(Mfr2Crc(f))
  BY Offsets, CleanWhole, CrcClean DEF BootCrc, DirSum, MfrCrc, Mfr2Crc
<1>2. Clean(S1Crc(f))
  BY CleanWhole, CrcClean DEF S1Crc
<1> QED
  BY <1>1, <1>2, PWriteClean DEF S1Write

-----------------------------------------------------------------------------
(* The steps of make.                                                       *)

LEMMA BuildInitInv == BuildInit => BuildInv
BY DEF BuildInit, BuildInv, Targets

LEMMA MakeInv ==
    ASSUME BuildInv, Make PROVE BuildInv'
<1> USE DEF BuildInv
<1>1. ASSUME NEW t \in Targets, Link(t) PROVE BuildInv'
  BY <1>1, LinkClean DEF Link
<1>2. CASE Check
  BY <1>2 DEF Check
<1>3. CASE Stamp
  <2>1. CleanFile(tmp)
    BY <1>3 DEF Stamp
  <2>2. CleanFile(S2Write(tmp, nth)) /\ CleanFile(S1Write(tmp, nth))
    BY <2>1, StampClean, CleanWhole, CrcClean, PWriteClean DEF S2Write
  <2>3. CleanFile(tmp') /\ UNCHANGED <<files, goal>>
    BY <1>3, <2>2 DEF Stamp
  <2>4. nth' \in 1..5
    BY <1>3 DEF Stamp, Pwrites
  <2> QED
    BY <2>3, <2>4
<1>4. CASE Info
  BY <1>4 DEF Info
<1>5. CASE Install
  BY <1>5 DEF Install
<1>6. CASE KillMake
  BY <1>6 DEF KillMake
<1> QED
  BY <1>1, <1>2, <1>3, <1>4, <1>5, <1>6 DEF Make

-----------------------------------------------------------------------------
(* The steps of set.                                                        *)

\* What a write does to the words that something relies on.
LEMMA WholePWrite ==
    ASSUME NEW f, IsFile(f), NEW at, NEW w, w # Junk, NEW offset, NEW n, Whole(f, offset, n)
    PROVE  Whole(PWrite(f, at, w), offset, n)
BY PWriteFile DEF Whole, L32, IsFile

LEMMA SameWrite ==
    ASSUME NEW f, NEW g, SameWhereWhole(f, g), NEW at, NEW w, Clean(w)
    PROVE  SameWhereWhole(PWrite(f, at, w), PWrite(g, at, w))
BY PWriteFile DEF SameWhereWhole

LEMMA CrcWrite ==
    ASSUME NEW f, NEW g, SameWhereWhole(f, g), NEW w, Clean(w) \/ w = Junk,
           NEW at \in Nat, w = Junk \/ at \notin Covered
    PROVE  SameWhereWhole(PWrite(f, at, w), g)
BY PWriteFile DEF SameWhereWhole

LEMMA CleanSame == ASSUME NEW f, CleanFile(f) PROVE SameWhereWhole(f, f)
BY DEF CleanFile, SameWhereWhole

\* A good CRC is one of undamaged words.
LEMMA GoodIsWhole ==
    ASSUME NEW f, NEW g, SameWhereWhole(f, g), NEW at, NEW offset, NEW n,
           L32(f, at) = Crc(f, offset, n)
    PROVE  Whole(f, offset, n)
<1>1. Crc(f, offset, n) # Junk
  BY DEF Crc, Junk
<1>2. L32(f, at) = Junk \/ Clean(L32(f, at))
  BY ZeroClean DEF L32, SameWhereWhole, IsFile
<1> QED
  BY <1>1, <1>2, CrcClean

LEMMA TakeInv ==
    ASSUME IInv, NEW f \in Factory \union {files["otg.bin"]}, mpc = "idle", Take(f)
    PROVE  IInv'
<1> USE DEF Take, IInv, SetInv
<1>1. CleanFile(f)
  BY SetAssumption DEF BuildInv, Targets
<1>2. BuildInv'
  BY DEF BuildInv, Targets
<1>3. ImageInv'
  BY <1>1, CleanSame DEF ImageInv
<1>4. \A r \in Runs : spc[r] = "off"
  BY DEF RunInv
<1>5. RunInv' /\ Shape'
  BY <1>4 DEF RunInv, Shape, runVars
<1> QED
  BY <1>2, <1>3, <1>5

\* A write to the image of clean words keeps it a file, and not an empty one.
LEMMA StillThere ==
    ASSUME NEW f, IsFile(f), f # None, NEW at, NEW w
    PROVE  PWrite(f, at, w) # None
BY PWriteFile DEF None, IsFile

\* What the run relies on when it has found the CRC good.
SectionWhole(f, p) ==
    IF InMfr(FieldOffset(p)) THEN Whole(f, DIR_CRC, MFR_CRC - DIR_CRC)
                             ELSE Whole(f, MFR2_LEN, MFR2_CRC - MFR2_LEN)

LEMMA SectionGood ==
    ASSUME NEW f, NEW g, SameWhereWhole(f, g), NEW p
    PROVE  /\ L32(f, CrcOffset(p)) = SectionCrc(f, p) => SectionWhole(f, p)
           /\ SectionWhole(f, p) => Clean(SectionCrc(f, p))
BY GoodIsWhole, CrcClean DEF CrcOffset, SectionCrc, SectionWhole, MfrCrc, Mfr2Crc

LEMMA BeginInv ==
    ASSUME IInv, NEW r \in Runs, NEW p \in MacParams \union VpdParams,
           NEW v, Clean(v), Begin(r, p, v)
    PROVE  SetInv'
<1> USE DEF Begin, IInv, SetInv
<1>1. ImageInv'
  BY DEF ImageInv
<1>2. Shape'
  BY DEF Shape
<1>3. L32(img, CrcOffset(p)) = SectionCrc(img, p) => SectionWhole(img, p)
  BY SectionGood DEF ImageInv
<1>4. RunInv'
  BY <1>3 DEF RunInv, Shape, SectionWhole
<1> QED
  BY <1>1, <1>2, <1>4 DEF SetInv

LEMMA WriteValueInv ==
    ASSUME IInv, NEW r \in Runs, WriteValue(r)
    PROVE  SetInv'
<1> USE DEF WriteValue, IInv, SetInv
<1>1. img # None /\ Clean(value[r]) /\ SameWhereWhole(img, meant)
  BY DEF RunInv, ImageInv
<1>2. img' # None
  BY <1>1, StillThere DEF SameWhereWhole
<1>3. ImageInv'
  BY <1>1, SameWrite DEF ImageInv
<1>4. Shape'
  BY DEF Shape
<1>5. ASSUME NEW offset, NEW n, Whole(img, offset, n) PROVE Whole(img', offset, n)
  BY <1>1, <1>5, WholePWrite DEF SameWhereWhole, Clean
<1>6. RunInv'
  BY <1>2, <1>5 DEF RunInv, Shape
<1> QED
  BY <1>3, <1>4, <1>6 DEF SetInv

LEMMA SumInv ==
    ASSUME IInv, NEW r \in Runs, SumSection(r)
    PROVE  SetInv'
<1> USE DEF SumSection, IInv, SetInv
<1>1. ImageInv'
  BY DEF ImageInv
<1>2. Shape'
  BY DEF Shape
<1>3. Touches(param[r]) /\ good[r] => Clean(SectionCrc(img, param[r]))
  BY SectionGood DEF RunInv, ImageInv, SectionWhole
<1>4. RunInv'
  BY <1>3 DEF RunInv, Shape
<1> QED
  BY <1>1, <1>2, <1>4 DEF SetInv

LEMMA WriteCrcInv ==
    ASSUME IInv, NEW r \in Runs, WriteCrc(r)
    PROVE  SetInv'
<1> USE DEF WriteCrc, IInv, SetInv
<1>1. img # None /\ Clean(crc[r]) /\ SameWhereWhole(img, meant)
  BY DEF RunInv, ImageInv
<1>2. img' # None
  BY <1>1, StillThere DEF SameWhereWhole
<1>3. CrcOffset(param[r]) \in Nat /\ CrcOffset(param[r]) \notin Covered
  BY Offsets DEF CrcOffset, Covered
<1>4. ImageInv'
  BY <1>1, <1>3, CrcWrite DEF ImageInv
<1>5. Shape'
  BY DEF Shape
<1>6. ASSUME NEW offset, NEW n, Whole(img, offset, n) PROVE Whole(img', offset, n)
  BY <1>1, <1>6, WholePWrite DEF SameWhereWhole, Clean
<1>7. RunInv'
  BY <1>2, <1>6 DEF RunInv, Shape
<1> QED
  BY <1>4, <1>5, <1>7 DEF SetInv

LEMMA EndInv ==
    ASSUME IInv, NEW r \in Runs, End(r)
    PROVE  SetInv'
<1> USE DEF End, Forget, IInv, SetInv
<1>1. ImageInv'
  BY DEF ImageInv
<1>2. Shape'
  BY DEF Shape
<1>3. RunInv'
  BY DEF RunInv, Shape
<1> QED
  BY <1>1, <1>2, <1>3 DEF SetInv

LEMMA DamageInv ==
    ASSUME IInv, NEW o \in Fragile, Damage(o)
    PROVE  SetInv'
<1> USE DEF Damage, IInv, SetInv
<1>1. o \in Nat
  BY SetAssumption, Offsets
<1>2. ImageInv'
  BY <1>1, CrcWrite DEF ImageInv
<1>3. Shape'
  BY DEF Shape, runVars
<1>4. \A r \in Runs : spc'[r] = "off"
  BY DEF Idle, runVars
<1>5. RunInv'
  BY <1>4 DEF RunInv
<1> QED
  BY <1>2, <1>3, <1>5 DEF SetInv

LEMMA IInvInit == Init => IInv
<1> SUFFICES ASSUME Init PROVE IInv
  OBVIOUS
<1>1. BuildInv
  BY BuildInitInv DEF Init
<1>2. ImageInv /\ RunInv /\ Shape
  BY DEF Init, SetInit, ImageInv, RunInv, Shape
<1> QED
  BY <1>1, <1>2 DEF IInv, SetInv

LEMMA IInvStep == IInv /\ [Next]_vars => IInv'
<1> SUFFICES ASSUME IInv, [Next]_vars PROVE IInv'
  OBVIOUS
<1>1. CASE img = None /\ Make /\ UNCHANGED setVars
  <2>1. BuildInv'
    BY <1>1, MakeInv DEF IInv
  <2>2. SetInv'
    BY <1>1 DEF IInv, SetInv, ImageInv, RunInv, Shape, setVars, runVars
  <2> QED
    BY <2>1, <2>2 DEF IInv
<1>2. ASSUME NEW f \in Factory \union {files["otg.bin"]}, mpc = "idle", Take(f)
      PROVE  IInv'
  BY <1>2, TakeInv
<1>3. ASSUME UNCHANGED buildVars PROVE BuildInv'
  BY <1>3 DEF IInv, BuildInv, buildVars
<1>4. ASSUME NEW r \in Runs, NEW p \in MacParams, NEW m, Begin(r, p, Mac(m))
      PROVE  SetInv'
  BY <1>4, WordsClean, BeginInv
<1>5. ASSUME NEW r \in Runs, NEW p \in VpdParams, NEW v, Begin(r, p, Vpd(v))
      PROVE  SetInv'
  BY <1>5, WordsClean, BeginInv
<1>6. ASSUME NEW r \in Runs, WriteValue(r) \/ SumSection(r) \/ WriteCrc(r) \/ End(r)
      PROVE  SetInv'
  BY <1>6, WriteValueInv, SumInv, WriteCrcInv, EndInv
<1>7. ASSUME NEW o \in Fragile, Damage(o) PROVE SetInv'
  BY <1>7, DamageInv
<1>8. CASE UNCHANGED vars
  BY <1>8 DEF vars, buildVars, setVars, runVars, IInv, SetInv, BuildInv, ImageInv, RunInv, Shape
<1> QED
  BY <1>1, <1>2, <1>3, <1>4, <1>5, <1>6, <1>7, <1>8 DEF Next, IInv

\* Two files that agree where neither is damaged have the same CRC where the
\* first is whole.
LEMMA SameCrc ==
    ASSUME NEW f, NEW g, SameWhereWhole(f, g), NEW offset \in Nat, NEW n \in Nat,
           offset..offset+n-1 \subseteq Covered, Whole(f, offset, n)
    PROVE  Crc(f, offset, n) = Crc(g, offset, n)
<1>1. \A i \in 0..n-1 : L32(f, offset + i) = L32(g, offset + i)
  <2> TAKE i \in 0..n-1
  <2>1. offset + i \in Covered
    OBVIOUS
  <2>2. L32(f, offset + i) # Junk
    BY DEF Whole
  <2> QED
    BY <2>1, <2>2 DEF L32, SameWhereWhole, IsFile
<1> QED
  BY <1>1 DEF Crc

-----------------------------------------------------------------------------
(* Whatever is built, set, killed and damaged, a CRC of a manufacturing     *)
(* section that is good is that of what was built and set (otgimg.c:790-826).*)
THEOREM Vouches == Spec => []GoodCrcVouches
<1>1. IInv => GoodCrcVouches
  <2> SUFFICES ASSUME IInv, img # None PROVE
          /\ L32(img, MFR_CRC) = MfrCrc(img) => MfrCrc(img) = MfrCrc(meant)
          /\ L32(img, MFR2_CRC) = Mfr2Crc(img) => Mfr2Crc(img) = Mfr2Crc(meant)
    BY DEF GoodCrcVouches
  <2>1. SameWhereWhole(img, meant)
    BY DEF IInv, SetInv, ImageInv
  <2>2. DIR_CRC..DIR_CRC+(MFR_CRC-DIR_CRC)-1 \subseteq Covered
    BY Offsets DEF Covered
  <2>3. MFR2_LEN..MFR2_LEN+(MFR2_CRC-MFR2_LEN)-1 \subseteq Covered
    BY Offsets DEF Covered
  <2>4. DIR_CRC \in Nat /\ MFR_CRC - DIR_CRC \in Nat /\ MFR2_LEN \in Nat /\ MFR2_CRC - MFR2_LEN \in Nat
    BY Offsets
  <2>5. ASSUME L32(img, MFR_CRC) = MfrCrc(img) PROVE MfrCrc(img) = MfrCrc(meant)
    BY <2>1, <2>2, <2>4, <2>5, GoodIsWhole, SameCrc DEF MfrCrc
  <2>6. ASSUME L32(img, MFR2_CRC) = Mfr2Crc(img) PROVE Mfr2Crc(img) = Mfr2Crc(meant)
    BY <2>1, <2>3, <2>4, <2>6, GoodIsWhole, SameCrc DEF Mfr2Crc
  <2> QED
    BY <2>5, <2>6
<1> QED
  BY IInvInit, IInvStep, <1>1, PTL DEF Spec

-----------------------------------------------------------------------------
(* What is built, and what a run has done.                                  *)

\* The image after the field was written, and after the run.
Mid(old, p, v)      == PWrite(old, Target(old, p), v)
After(old, p, v, g) ==
    IF Touches(p) /\ g THEN PWrite(Mid(old, p, v), CrcOffset(p), SectionCrc(Mid(old, p, v), p))
                       ELSE Mid(old, p, v)

Settable(f, p) == p \in MacParams \union VpdParams /\ (p = "vpdext" => KnownExt(f) # {})

\* The directory has the same entries.
SameEntries(f, g) == \A i \in DIR : L32(g, i) = L32(f, i)

\* A magic number is followed by a size.
Sized(f) ==
    \A i \in 1..Len(f) : f[i] = Magic => i < Len(f) /\ \E n \in Nat : f[i+1] = Num(n)

Stage2File(f) == IsFile(f) /\ Sized(f) /\ 6 <= Len(f) /\ L32(f, Len(f) - 2) # Magic

\* There is no extended VPD region.
NoExt(f) == \A i \in DIR : Type(f, i) # "extVPD"

Stage1File(f) ==
    /\ IsFile(f) /\ Sized(f) /\ HEADER <= Len(f)
    /\ \E n \in Nat \ {0} : L32(f, S1_SIZE) = Num(n)
    /\ \E n \in Nat : L32(f, S1_OFFSET) = Num(n)
    /\ NoExt(f)
    /\ \A j \in {6, 10, 15} : L32(f, j) # Magic

\* What make builds is laid out as its header says once it has been checked.
BuiltInv ==
    /\ files["otg_stage2.bin"] # None => IsFile(files["otg_stage2.bin"]) /\ Sized(files["otg_stage2.bin"])
    /\ files["otg.bin"] # None => Laid(files["otg.bin"]) /\ NoExt(files["otg.bin"])
    /\ mpc # "idle" => IF goal = "otg_stage2.bin" THEN Stage2File(tmp) ELSE Stage1File(tmp)
    /\ mpc \in {"stamp", "info", "install"} /\ goal # "otg_stage2.bin" =>
           HEADER <= S1Offset(tmp) /\ L32(tmp, S1CrcAt(tmp) - 1) # Magic

\* Numbers are numbers, and after a magic number behind the k-th word is code.
Kinds(f, k) ==
    \A i \in 1..Len(f) :
        /\ f[i][1] = "num" => f[i][2] \in Int
        /\ k < i /\ f[i] = Magic => i + 3 <= Len(f) /\ f[i+3] = Op("b")

OneMagic(f) == Kinds(f, 0) /\ \A i \in 2..Len(f) : f[i] # Magic

\* Where a CRC is going to be there is no version string.
Stampable(f) == Kinds(f, 17) /\ \A j \in {4, 7, 11, 16} : L32(f, j)[1] # "version"

\* s1stamp has found what it looks for.
Checked(f) ==
    /\ L32(f, S1Offset(f)) = Op("j") /\ L32(f, S1Offset(f) + 2)[1] = "num"
    /\ L32(f, VersionAt(f))[1] = "version"
    /\ L32(f, S1CrcAt(f))[1] \in {"deadbeef", "crc"}

\* It has stamped the first n CRCs.
Stamped(f, n) ==
    /\ n >= 1 => L32(f, BOOT_CRC) = BootCrc(f)
    /\ n >= 2 => L32(f, DIR_CRC) = DirSum(f)
    /\ n >= 3 => L32(f, MFR_CRC) = MfrCrc(f)
    /\ n >= 4 => L32(f, MFR2_CRC) = Mfr2Crc(f)
    /\ n >= 5 => S1Good(f)

SoundInv ==
    /\ files["otg_stage2.bin"] # None => Kinds(files["otg_stage2.bin"], 0)
    /\ BuiltIsSound /\ DummyIsSound
    /\ mpc # "idle" => IF goal = "otg_stage2.bin" THEN OneMagic(tmp) ELSE Stampable(tmp)
    /\ goal # "otg_stage2.bin" =>
        /\ mpc \in {"stamp", "info", "install"} => Checked(tmp)
        /\ mpc = "check" => nth = 1
        /\ mpc = "stamp" => Stamped(tmp, nth - 1)
        /\ mpc \in {"info", "install"} => Stamped(tmp, 5)
    /\ mpc = "install" /\ goal = "otg.bin" => InfoIsClean(tmp)

\* The image is, whatever runs and damage have done to it.
LaidInv ==
    /\ img # None => Laid(img)
    /\ \A r \in Runs : spc[r] # "off" => value[r] # Magic /\ Settable(img, param[r])

\* What a run that is alone has done.
DoneInv(r) ==
    LET old == before[r]
    IN  /\ Laid(old) /\ Settable(old, param[r])
        /\ good[r] = (L32(old, CrcOffset(param[r])) = SectionCrc(old, param[r]))
        /\ spc[r] = "value" => img = old
        /\ spc[r] = "sum"   => img = Mid(old, param[r], value[r])
        /\ spc[r] = "crc"   => /\ img = Mid(old, param[r], value[r])
                               /\ Touches(param[r]) /\ good[r]
                               /\ crc[r] = SectionCrc(img, param[r])
        /\ spc[r] = "done"  => img = After(old, param[r], value[r], good[r])

AloneInv ==
    \A r \in Runs : spc[r] # "off" /\ before[r] # None =>
        DoneInv(r) /\ \A s \in Runs : s # r => spc[s] = "off"

ExactInv == BuiltInv /\ LaidInv /\ AloneInv /\ before = [r \in Runs |-> before[r]]

-----------------------------------------------------------------------------
(* Reading what was written.                                                *)

LEMMA Words ==
    /\ S1_SIZE = 2 /\ S1_OFFSET = 3 /\ DIR = 5..6 /\ HEADER = 17
BY DEF S1_SIZE, S1_OFFSET, DIR, HEADER

LEMMA ReadWrite ==
    ASSUME NEW f, IsFile(f), NEW at \in Nat, NEW w, NEW j \in Int
    PROVE  L32(PWrite(f, at, w), j) = IF j = at /\ at < Len(f) THEN w ELSE L32(f, j)
BY PWriteFile DEF L32, IsFile

LEMMA CrcOfSame ==
    ASSUME NEW f, NEW g, NEW offset \in Int, NEW n \in Int,
           \A j \in offset..offset+n-1 : L32(f, j) = L32(g, j)
    PROVE  Crc(f, offset, n) = Crc(g, offset, n)
<1>1. \A i \in 0..n-1 : L32(f, offset + i) = L32(g, offset + i)
  <2> TAKE i \in 0..n-1
  <2>1. offset + i \in offset..offset+n-1
    OBVIOUS
  <2> QED
    BY <2>1
<1> QED
  BY <1>1 DEF Crc

\* Where the fields are.
LEMMA Fields ==
    ASSUME NEW p \in MacParams \union VpdParams
    PROVE  /\ FieldOffset(p) \in {9, 10, 12, 14, 15}
           /\ p \in VpdParams => FieldOffset(p) = 12 /\ ~Touches(p)
           /\ p \in MacParams => p \notin VpdParams
           /\ FieldOffset(p) \in {9, 10} => InMfr(FieldOffset(p))
           /\ FieldOffset(p) \in {14, 15} => ~InMfr(FieldOffset(p)) /\ InMfr2(FieldOffset(p))
           /\ p \in MacParams => FieldOffset(p) # 12
           /\ CrcOffset(p) \in {11, 16}
<1>1. p \in {"mac0", "mac1", "mac2", "mac3", "vpd", "vpdstd", "vpdext"}
  BY DEF MacParams, VpdParams
<1>2. /\ p = "mac0" => FieldOffset(p) = 9
      /\ p = "mac1" => FieldOffset(p) = 10
      /\ p = "mac2" => FieldOffset(p) = 14
      /\ p = "mac3" => FieldOffset(p) = 15
      /\ p \in VpdParams => FieldOffset(p) = 12
  BY Offsets DEF FieldOffset, VpdParams
<1>3. p \in MacParams => p \notin VpdParams
  BY DEF MacParams, VpdParams
<1>4. FieldOffset(p) \in {9, 10, 12, 14, 15}
  BY <1>1, <1>2 DEF VpdParams
<1>5. p \in MacParams => FieldOffset(p) # 12
  BY <1>2 DEF MacParams
<1> QED
  BY <1>2, <1>3, <1>4, <1>5, Offsets DEF Touches, InMfr, InMfr2, CrcOffset

\* Where the value goes.
LEMMA TargetIs ==
    ASSUME NEW f, Laid(f), NEW p, Settable(f, p)
    PROVE  /\ Target(f, p) \in Nat /\ Target(f, p) < Len(f)
           /\ p \in MacParams => Target(f, p) = FieldOffset(p)
           /\ p \in VpdParams => \/ Target(f, p) = 12
                                 \/ \E i \in KnownExt(f) : Target(f, p) = Offset(f, i)
<1>1. KnownExt(f) # {} => ExtEntry(f) \in KnownExt(f)
  <2> SUFFICES ASSUME KnownExt(f) # {} PROVE ExtEntry(f) \in KnownExt(f)
    OBVIOUS
  <2>1. KnownExt(f) \subseteq 5..6
    BY Words DEF KnownExt
  <2>2. \E i \in KnownExt(f) : \A j \in KnownExt(f) : i <= j
    BY <2>1
  <2> QED
    BY <2>2 DEF ExtEntry
<1>2. \A i \in KnownExt(f) : Offset(f, i) \in Nat /\ Offset(f, i) < Len(f)
  BY Words DEF Laid, IsFile
<1>3. CASE p \in MacParams
  <2>1. Target(f, p) = FieldOffset(p) /\ p \notin VpdParams
    BY <1>3, Fields DEF Target, VpdParams
  <2>2. FieldOffset(p) \in Nat /\ FieldOffset(p) < Len(f)
    BY <1>3, Fields, Words DEF Laid, IsFile
  <2> QED
    BY <2>1, <2>2
<1>4. CASE p \in VpdParams
  <2>1. p \notin MacParams
    BY <1>4, Fields
  <2>2. Target(f, p) = VPD \/ (KnownExt(f) # {} /\ Target(f, p) = Offset(f, ExtEntry(f)))
    BY <1>4, <2>1 DEF Target, Settable, VpdParams
  <2> QED
    BY SMTT(30), <1>1, <1>2, <1>4, <2>1, <2>2, Offsets, Words DEF Laid, IsFile
<1> QED
  BY <1>3, <1>4 DEF Settable

\* A write that leaves alone what the header says of the code, and does not make
\* or change the header of stage 2, leaves an image laid out as it is.
LEMMA LaidSame ==
    ASSUME NEW f, Laid(f), NEW g, IsFile(g), Len(g) = Len(f),
           \A j \in {2, 3, 5, 6} : L32(g, j) = L32(f, j),
           L32(g, S2Offset(f)) = Magic =>
               L32(f, S2Offset(f)) = Magic /\ L32(g, S2Offset(f) + 1) = L32(f, S2Offset(f) + 1)
    PROVE  Laid(g) /\ KnownExt(g) = KnownExt(f) /\ \A i \in DIR : Offset(g, i) = Offset(f, i)
<1>1. S1Offset(g) = S1Offset(f) /\ S1Size(g) = S1Size(f)
  BY Words DEF S1Offset, S1Size
<1>2. S2Offset(g) = S2Offset(f) /\ S1CrcAt(g) = S1CrcAt(f)
  BY <1>1 DEF S2Offset, S1CrcAt
<1>3. L32(g, S2Offset(f)) = Magic => S2Size(g) = S2Size(f)
  BY <1>2 DEF S2Size
<1>4. L32(g, S2Offset(f)) = Magic => S2CrcAt(g) = S2CrcAt(f)
  BY <1>2, <1>3 DEF S2CrcAt
<1>5. \A i \in DIR : L32(g, i) = L32(f, i)
  BY Words
<1>6. \A i \in DIR : Offset(g, i) = Offset(f, i)
  BY <1>5 DEF Offset
<1>7. KnownExt(g) = KnownExt(f)
  BY <1>5 DEF KnownExt, Offset, Type
<1>8. \A i \in KnownExt(g) : i \in DIR
  BY DEF KnownExt
<1>9. \A i \in DIR : Size(g, i) = Size(f, i)
  BY <1>5 DEF Size
<1> QED
  BY <1>1, <1>2, <1>3, <1>4, <1>6, <1>7, <1>8, <1>9 DEF Laid

\* The numbers in the layout.
LEMMA LaidNumbers ==
    ASSUME NEW f, Laid(f)
    PROVE  /\ S1Offset(f) \in Nat /\ S1Offset(f) >= 17 /\ S1Size(f) \in Nat /\ S1Size(f) >= 1
           /\ S2Offset(f) = S1Offset(f) + S1Size(f) /\ S1CrcAt(f) = S2Offset(f) - 1
           /\ S2Offset(f) >= 18 /\ S1CrcAt(f) >= 17
           /\ L32(f, S2Offset(f)) = Magic =>
                  S2Size(f) \in Nat /\ S2CrcAt(f) = S2Offset(f) + 1 + S2Size(f)
           /\ Len(f) \in Nat /\ 17 <= Len(f)
<1>1. S1Offset(f) \in Nat /\ S1Offset(f) >= 17 /\ S1Size(f) \in Nat /\ S1Size(f) >= 1
  BY Words DEF Laid
<1>2. S2Offset(f) = S1Offset(f) + S1Size(f) /\ S1CrcAt(f) = S2Offset(f) - 1
  BY DEF S2Offset, S1CrcAt
<1>3. L32(f, S2Offset(f)) = Magic => S2Size(f) \in Nat
  BY DEF Laid
<1>4. L32(f, S2Offset(f)) = Magic => S2CrcAt(f) = S2Offset(f) + 1 + S2Size(f)
  BY <1>1, <1>2, <1>3 DEF S2CrcAt
<1> QED
  BY <1>1, <1>2, <1>3, <1>4, Words DEF Laid, IsFile

\* Writes to the manufacturing sections and to the VPD are of that kind.
LEMMA LaidWrite ==
    ASSUME NEW f, Laid(f), NEW at \in Nat, NEW w,
           at \in {7, 8, 9, 10, 11, 12, 13, 14, 15, 16}
             \/ (w # Magic /\ \E i \in KnownExt(f) : at = Offset(f, i))
    PROVE  /\ Laid(PWrite(f, at, w)) /\ KnownExt(PWrite(f, at, w)) = KnownExt(f)
           /\ Len(PWrite(f, at, w)) = Len(f) /\ IsFile(PWrite(f, at, w))
           /\ \A i \in DIR : Offset(PWrite(f, at, w), i) = Offset(f, i)
           /\ SameEntries(f, PWrite(f, at, w))
<1> DEFINE g == PWrite(f, at, w)
<1>1. IsFile(f)
  BY DEF Laid
<1>2. IsFile(g) /\ Len(g) = Len(f)
  BY <1>1, PWriteFile
<1>3. at >= 7
  BY Words DEF Laid, IsFile
<1>4. \A j \in {2, 3, 5, 6} : L32(g, j) = L32(f, j)
  BY <1>1, <1>3, ReadWrite
<1>5. \A j \in Int : L32(g, j) = L32(f, j) \/ (j = at /\ L32(g, j) = w)
  BY <1>1, ReadWrite
<1>6. L32(g, S2Offset(f)) = Magic => L32(f, S2Offset(f)) = Magic
  <2>1. CASE at <= 16
    BY <1>5, <2>1, LaidNumbers
  <2>2. CASE w # Magic
    BY <1>5, <2>2, LaidNumbers
  <2> QED
    BY <2>1, <2>2
<1>7. L32(f, S2Offset(f)) = Magic => L32(g, S2Offset(f) + 1) = L32(f, S2Offset(f) + 1)
  <2>1. CASE at <= 16
    BY <1>5, <2>1, LaidNumbers
  <2>2. CASE \E i \in KnownExt(f) : at = Offset(f, i)
    <3> SUFFICES ASSUME L32(f, S2Offset(f)) = Magic PROVE at # S2Offset(f) + 1
      BY <1>5, LaidNumbers
    <3>1. at \notin S2Offset(f)..S2CrcAt(f)
      BY <2>2 DEF Laid
    <3> QED
      BY <3>1, LaidNumbers
  <2> QED
    BY <2>1, <2>2
<1> HIDE DEF g
<1>8. Laid(g) /\ KnownExt(g) = KnownExt(f) /\ \A i \in DIR : Offset(g, i) = Offset(f, i)
  BY <1>2, <1>4, <1>6, <1>7, LaidSame
<1>9. SameEntries(f, g)
  BY <1>4, Words DEF SameEntries
<1> QED
  BY <1>2, <1>8, <1>9 DEF g

-----------------------------------------------------------------------------
(* What a whole run has done.                                               *)

\* What is read from the image after the run.
LEMMA ReadAfter ==
    ASSUME NEW old, Laid(old), NEW p, Settable(old, p), NEW v, NEW g
    PROVE  LET at == Target(old, p)
               f  == After(old, p, v, g)
           IN  /\ IsFile(f) /\ Len(f) = Len(old)
               /\ at # CrcOffset(p) \/ ~Touches(p)
               /\ L32(f, at) = v
               /\ \A j \in Int : j # at /\ (j # CrcOffset(p) \/ ~Touches(p) \/ ~g) =>
                      L32(f, j) = L32(old, j)
               /\ Touches(p) /\ g => L32(f, CrcOffset(p)) = SectionCrc(Mid(old, p, v), p)
<1> DEFINE at  == Target(old, p)
           mid == Mid(old, p, v)
           c   == SectionCrc(mid, p)
           f   == After(old, p, v, g)
<1>1. IsFile(old) /\ at \in Nat /\ at < Len(old) /\ Len(old) \in Nat /\ 17 <= Len(old)
  BY TargetIs, LaidNumbers DEF Laid
<1>2. p \in MacParams \union VpdParams
  BY DEF Settable
<1>3. CrcOffset(p) \in {11, 16}
  BY <1>2, Fields
<1>4. at # CrcOffset(p) \/ ~Touches(p)
  <2>1. CASE p \in MacParams
    BY <2>1, <1>2, <1>3, Fields, TargetIs
  <2>2. CASE p \in VpdParams
    BY <2>2, Fields
  <2> QED
    BY <1>2, <2>1, <2>2
<1>5. mid = PWrite(old, at, v) /\ IsFile(mid) /\ Len(mid) = Len(old)
  BY <1>1, PWriteFile DEF Mid
<1>6. L32(mid, at) = v /\ \A j \in Int : j # at => L32(mid, j) = L32(old, j)
  BY <1>1, <1>5, ReadWrite
<1>7. f = IF Touches(p) /\ g THEN PWrite(mid, CrcOffset(p), c) ELSE mid
  BY DEF After
<1> HIDE DEF at, mid, c, f
<1>8. CASE Touches(p) /\ g
  <2>1. f = PWrite(mid, CrcOffset(p), c) /\ CrcOffset(p) \in Nat
    BY <1>3, <1>7, <1>8
  <2>2. IsFile(f) /\ Len(f) = Len(old)
    BY <1>5, <2>1, PWriteFile
  <2>3. \A j \in Int : L32(f, j) = IF j = CrcOffset(p) THEN c ELSE L32(mid, j)
    BY <1>1, <1>3, <1>5, <2>1, ReadWrite
  <2>4. L32(f, CrcOffset(p)) = c
    BY <1>3, <2>3
  <2>5. \A j \in Int : j # at /\ j # CrcOffset(p) => L32(f, j) = L32(old, j)
    BY <1>6, <2>3
  <2>6. L32(f, at) = v
    BY <1>1, <1>4, <1>6, <1>8, <2>3
  <2> QED
    BY <1>4, <1>8, <2>2, <2>4, <2>5, <2>6 DEF c, mid, at, f
<1>9. CASE ~(Touches(p) /\ g)
  BY <1>1, <1>4, <1>5, <1>6, <1>7, <1>9 DEF at, f
<1> QED
  BY <1>8, <1>9

\* Its section's CRC is good if it was, and the other one's.
LEMMA SumsAfter ==
    ASSUME NEW old, Laid(old), NEW p, Settable(old, p), NEW v,
           NEW g, g = (L32(old, CrcOffset(p)) = SectionCrc(old, p))
    PROVE  LET f == After(old, p, v, g)
           IN  /\ L32(old, MFR_CRC) = MfrCrc(old) => L32(f, MFR_CRC) = MfrCrc(f)
               /\ L32(old, MFR2_CRC) = Mfr2Crc(old) => L32(f, MFR2_CRC) = Mfr2Crc(f)
<1> DEFINE at  == Target(old, p)
           mid == Mid(old, p, v)
           f   == After(old, p, v, g)
<1>1. p \in MacParams \union VpdParams
  BY DEF Settable
<1>2. /\ \A j \in Int : j # at /\ (j # CrcOffset(p) \/ ~Touches(p) \/ ~g) => L32(f, j) = L32(old, j)
      /\ L32(f, at) = v
      /\ Touches(p) /\ g => L32(f, CrcOffset(p)) = SectionCrc(mid, p)
  BY ReadAfter
<1>3. \A j \in Int : j # at => L32(mid, j) = L32(old, j)
  BY TargetIs, ReadWrite DEF Laid, Mid
<1>4. L32(mid, at) = v
  BY TargetIs, ReadWrite DEF Laid, Mid
<1>5. at \in Nat /\ (p \in MacParams => at = FieldOffset(p)) /\ (p \in VpdParams => at = 12 \/ at >= 17)
  <2>1. \A i \in KnownExt(old) : Offset(old, i) >= 17
    BY Words DEF Laid, IsFile
  <2> QED
    BY <2>1, TargetIs
<1> HIDE DEF at, mid, f
<1>6. MfrCrc(f) = MfrCrc(mid) /\ Mfr2Crc(f) = Mfr2Crc(mid)
  <2>1. \A j \in 7..10 \union 13..15 : L32(f, j) = L32(mid, j)
    BY <1>1, <1>2, <1>3, <1>4, Fields
  <2>2. Crc(f, 7, 4) = Crc(mid, 7, 4) /\ Crc(f, 13, 3) = Crc(mid, 13, 3)
    BY <2>1, CrcOfSame
  <2> QED
    BY <2>2, Offsets DEF MfrCrc, Mfr2Crc
<1>7. CASE p \in VpdParams
  <2>1. \A j \in 7..11 \union 13..16 : L32(f, j) = L32(old, j)
    BY <1>1, <1>2, <1>5, <1>7, Fields
  <2>2. Crc(f, 7, 4) = Crc(old, 7, 4) /\ Crc(f, 13, 3) = Crc(old, 13, 3)
    BY <2>1, CrcOfSame
  <2> QED
    BY <2>1, <2>2, Offsets DEF MfrCrc, Mfr2Crc, f
<1>8. CASE p \in MacParams /\ FieldOffset(p) \in {9, 10}
  <2>1. InMfr(FieldOffset(p)) /\ Touches(p) /\ CrcOffset(p) = 11
    BY <1>1, <1>8, Fields, Offsets DEF Touches, CrcOffset
  <2>2. SectionCrc(mid, p) = MfrCrc(mid) /\ SectionCrc(old, p) = MfrCrc(old)
    BY <2>1 DEF SectionCrc
  <2>3. \A j \in 13..16 : L32(f, j) = L32(old, j)
    BY <1>2, <1>5, <1>8, <2>1
  <2>4. Crc(f, 13, 3) = Crc(old, 13, 3)
    BY <2>3, CrcOfSame
  <2>5. L32(old, 11) = MfrCrc(old) => L32(f, 11) = MfrCrc(f)
    BY <1>2, <1>6, <2>1, <2>2
  <2> QED
    BY <2>3, <2>4, <2>5, Offsets DEF Mfr2Crc, f
<1>9. CASE p \in MacParams /\ FieldOffset(p) \in {14, 15}
  <2>1. ~InMfr(FieldOffset(p)) /\ Touches(p) /\ CrcOffset(p) = 16
    BY <1>1, <1>9, Fields, Offsets DEF Touches, CrcOffset
  <2>2. SectionCrc(mid, p) = Mfr2Crc(mid) /\ SectionCrc(old, p) = Mfr2Crc(old)
    BY <2>1 DEF SectionCrc
  <2>3. \A j \in 7..11 : L32(f, j) = L32(old, j)
    BY <1>2, <1>5, <1>9, <2>1
  <2>4. Crc(f, 7, 4) = Crc(old, 7, 4)
    BY <2>3, CrcOfSame
  <2>5. L32(old, 16) = Mfr2Crc(old) => L32(f, 16) = Mfr2Crc(f)
    BY <1>2, <1>6, <2>1, <2>2
  <2> QED
    BY <2>3, <2>4, <2>5, Offsets DEF MfrCrc, f
<1> QED
  BY <1>1, <1>7, <1>8, <1>9, Fields

\* info says what it said.
LEMMA InfoAfter ==
    ASSUME NEW old, Laid(old), NEW p, Settable(old, p), NEW v, v # Magic,
           NEW g, g = (L32(old, CrcOffset(p)) = SectionCrc(old, p)),
           InfoIsClean(old)
    PROVE  InfoIsClean(After(old, p, v, g))
<1> DEFINE at == Target(old, p)
           f  == After(old, p, v, g)
<1>1. p \in MacParams \union VpdParams
  BY DEF Settable
<1>2. /\ \A j \in Int : j # at /\ (j # CrcOffset(p) \/ ~Touches(p) \/ ~g) => L32(f, j) = L32(old, j)
      /\ Len(f) = Len(old)
  BY ReadAfter
<1>3. /\ L32(old, MFR_CRC) = MfrCrc(old) => L32(f, MFR_CRC) = MfrCrc(f)
      /\ L32(old, MFR2_CRC) = Mfr2Crc(old) => L32(f, MFR2_CRC) = Mfr2Crc(f)
  BY SumsAfter
<1>4. /\ L32(old, S2Offset(old)) = Magic
      /\ S2Offset(old) + S2_PROBE <= Len(old) /\ S2Offset(old) + S2Size(old) <= Len(old)
  BY DEF InfoIsClean, S2Present
<1>5. /\ at \in Nat /\ at \notin 0..8
      /\ at >= 17 => at \notin S1Offset(old)..S2CrcAt(old)
  <2>1. \A i \in KnownExt(old) :
           /\ Offset(old, i) >= 17
           /\ Offset(old, i) \notin S1Offset(old)..S1CrcAt(old)
           /\ Offset(old, i) \notin S2Offset(old)..S2CrcAt(old)
    BY <1>4, Words DEF Laid, IsFile
  <2>2. \A i \in KnownExt(old) : Offset(old, i) \in Nat
    BY Words DEF Laid, IsFile
  <2>3. \A i \in KnownExt(old) : Offset(old, i) \notin S1Offset(old)..S2CrcAt(old)
    BY <1>4, <2>1, <2>2, LaidNumbers
  <2> QED
    BY <1>1, <2>1, <2>3, Fields, TargetIs
<1> HIDE DEF at, f
<1>6. /\ \A j \in 0..7 : L32(f, j) = L32(old, j)
      /\ \A j \in S1Offset(old)..S2CrcAt(old) : L32(f, j) = L32(old, j)
  <2>1. S1Offset(old) \in Nat /\ S1Offset(old) >= 17 /\ S2CrcAt(old) \in Nat
    BY <1>4, LaidNumbers
  <2> QED
    BY <1>1, <1>2, <1>5, <2>1, Fields
<1>7. S1Offset(f) = S1Offset(old) /\ S1Size(f) = S1Size(old)
  BY <1>6, Words DEF S1Offset, S1Size
<1>8. S2Offset(f) = S2Offset(old) /\ S1CrcAt(f) = S1CrcAt(old)
  BY <1>7 DEF S2Offset, S1CrcAt
<1>9. /\ S1Offset(old) \in Nat /\ S1Size(old) \in Nat /\ S1Size(old) >= 1
      /\ S2Offset(old) = S1Offset(old) + S1Size(old) /\ S1CrcAt(old) = S2Offset(old) - 1
      /\ S2Size(old) \in Nat /\ S2CrcAt(old) = S2Offset(old) + 1 + S2Size(old)
  BY <1>4, LaidNumbers
<1>10. /\ L32(f, S2Offset(old)) = Magic /\ L32(f, S2Offset(old) + 1) = L32(old, S2Offset(old) + 1)
       /\ L32(f, S1CrcAt(old)) = L32(old, S1CrcAt(old))
       /\ L32(f, S2CrcAt(old)) = L32(old, S2CrcAt(old))
  <2>1. {S2Offset(old), S2Offset(old) + 1, S1CrcAt(old), S2CrcAt(old)} \subseteq S1Offset(old)..S2CrcAt(old)
    BY <1>9
  <2> QED
    BY <1>4, <1>6, <2>1
<1>11. S2Size(f) = S2Size(old)
  BY <1>8, <1>10 DEF S2Size
<1>12. S2CrcAt(f) = S2CrcAt(old)
  BY <1>8, <1>11 DEF S2CrcAt
<1>13. HeaderGood(f)
  <2>1. Crc(f, 0, 4) = Crc(old, 0, 4) /\ Crc(f, 5, 2) = Crc(old, 5, 2)
    BY <1>6, CrcOfSame
  <2>2. BootCrc(f) = BootCrc(old) /\ DirSum(f) = DirSum(old)
    BY <2>1, Offsets DEF BootCrc, DirSum
  <2> QED
    BY <1>3, <1>6, <2>2, Offsets DEF HeaderGood, InfoIsClean, f
<1>14. S1Good(f)
  <2>1. \A j \in S1Offset(old)..S1Offset(old)+(S1Size(old)-1)-1 : L32(f, j) = L32(old, j)
    BY <1>6, <1>9
  <2>2. Crc(f, S1Offset(old), S1Size(old) - 1) = Crc(old, S1Offset(old), S1Size(old) - 1)
    BY <1>9, <2>1, CrcOfSame
  <2>3. S1Crc(f) = S1Crc(old)
    BY <1>7, <2>2 DEF S1Crc
  <2> QED
    BY <1>8, <1>10, <2>3 DEF S1Good, InfoIsClean
<1>15. S2Good(f)
  <2>1. \A j \in S2Offset(old)+2..(S2Offset(old)+2)+(S2Size(old)-1)-1 : L32(f, j) = L32(old, j)
    BY <1>6, <1>9
  <2>2. S2Offset(old) + 2 \in Int /\ S2Size(old) - 1 \in Int
    BY <1>9
  <2>3. Crc(f, S2Offset(old) + 2, S2Size(old) - 1) = Crc(old, S2Offset(old) + 2, S2Size(old) - 1)
    BY <2>1, <2>2, CrcOfSame
  <2>4. S2Crc(f) = S2Crc(old)
    BY <1>8, <1>11, <2>3 DEF S2Crc
  <2> QED
    BY <1>10, <1>12, <2>4 DEF S2Good, InfoIsClean
<1>16. S2Present(f)
  BY <1>2, <1>4, <1>8, <1>10, <1>11 DEF S2Present, f
<1>17. Len(f) >= HEADER /\ L32(f, MAGIC) = Magic
  BY <1>2, <1>6, Offsets DEF InfoIsClean, f
<1>18. ExtInFile(f)
  <2>1. \A i \in DIR : L32(f, i) = L32(old, i)
    BY <1>6, Words
  <2>2. ShownExt(f) = ShownExt(old)
    BY <2>1 DEF ShownExt, Type, Size
  <2>3. ShownEntry(f) = ShownEntry(old)
    BY <2>2 DEF ShownEntry
  <2>4. ShownExt(old) # {} => ShownEntry(old) \in DIR
    <3>1. ShownExt(old) \subseteq 5..6
      BY Words DEF ShownExt
    <3>2. ShownExt(old) # {} => \E i \in ShownExt(old) : \A j \in ShownExt(old) : j <= i
      BY <3>1
    <3>3. ShownExt(old) # {} => ShownEntry(old) \in ShownExt(old)
      BY <3>2 DEF ShownEntry
    <3> QED
      BY <3>3 DEF ShownExt
  <2>5. ShownExt(old) # {} => Offset(f, ShownEntry(old)) = Offset(old, ShownEntry(old))
    BY <2>1, <2>4 DEF Offset
  <2> QED
    BY <1>2, <2>2, <2>3, <2>5 DEF ExtInFile, InfoIsClean, f
<1> QED
  BY <1>13, <1>14, <1>15, <1>16, <1>17, <1>18 DEF InfoIsClean, f

-----------------------------------------------------------------------------
(* What make builds.                                                        *)

\* No word that is written or linked is a magic number but the two.
LEMMA NotMagic ==
    /\ Nop # Magic /\ Zero # Magic /\ Deadbeef # Magic
    /\ \A n : Num(n) # Magic /\ Op(n) # Magic /\ Mac(n) # Magic /\ Vpd(n) # Magic
    /\ \A n : <<"version", n>> # Magic
    /\ \A t, n, o : Entry(t, n, o) # Magic
    /\ \A f, o, n : Crc(f, o, n) # Magic
    /\ \A n : Num(n) # Deadbeef
BY DEF Magic, Nop, Zero, Deadbeef, Num, Op, Mac, Vpd, Entry, Crc

LEMMA SizedWrite ==
    ASSUME NEW f, IsFile(f), Sized(f), NEW at \in Nat, NEW w, w # Magic,
           at >= 1, L32(f, at - 1) # Magic
    PROVE  Sized(PWrite(f, at, w))
<1> DEFINE g == PWrite(f, at, w)
<1>1. Len(g) = Len(f) /\ \A i \in 1..Len(f) : g[i] = IF i = at + 1 THEN w ELSE f[i]
  BY PWriteFile
<1>2. at \in 1..Len(f) => f[at] # Magic
  BY DEF L32, IsFile
<1> HIDE DEF g
<1>3. ASSUME NEW i \in 1..Len(g), g[i] = Magic
      PROVE  i < Len(g) /\ \E n \in Nat : g[i+1] = Num(n)
  <2>1. f[i] = Magic /\ i # at + 1
    BY <1>1, <1>3
  <2>2. i # at
    BY <1>1, <1>2, <2>1
  <2>3. i < Len(f) /\ \E n \in Nat : f[i+1] = Num(n)
    BY <1>1, <2>1 DEF Sized
  <2>4. i + 1 \in 1..Len(f) /\ i + 1 # at + 1
    BY <1>1, <2>2, <2>3 DEF IsFile
  <2> QED
    BY <1>1, <2>3, <2>4
<1> QED
  BY <1>3 DEF Sized, g

\* Files are put together.
LEMMA SeqFile == ASSUME NEW U, NEW f \in Seq(U) PROVE IsFile(f)
<1>1. Len(f) \in Nat /\ f \in [1..Len(f) -> U]
  OBVIOUS
<1> QED
  BY <1>1 DEF IsFile

LEMMA Joined ==
    ASSUME NEW f, IsFile(f), NEW g, IsFile(g)
    PROVE  /\ IsFile(f \o g) /\ Len(f \o g) = Len(f) + Len(g)
           /\ \A i \in 1..Len(f) : (f \o g)[i] = f[i]
           /\ \A i \in 1..Len(g) : (f \o g)[Len(f) + i] = g[i]
<1> DEFINE U == {f[i] : i \in 1..Len(f)} \union {g[i] : i \in 1..Len(g)}
<1>1. f \in Seq(U) /\ g \in Seq(U)
  BY DEF IsFile
<1> HIDE DEF U
<1>2. f \o g \in Seq(U)
  BY <1>1
<1>3. IsFile(f \o g)
  BY <1>2, SeqFile
<1>4. Len(f \o g) = Len(f) + Len(g)
  BY <1>1
<1>5. \A i \in 1..Len(f) : (f \o g)[i] = f[i]
  BY <1>1
<1>6. \A i \in 1..Len(g) : (f \o g)[Len(f) + i] = g[i]
  BY <1>1
<1> QED
  BY <1>3, <1>4, <1>5, <1>6

LEMMA SizedJoined ==
    ASSUME NEW f, IsFile(f), Sized(f), NEW g, IsFile(g), Sized(g)
    PROVE  IsFile(f \o g) /\ Sized(f \o g)
<1> DEFINE h == f \o g
<1>1. /\ IsFile(h) /\ Len(h) = Len(f) + Len(g) /\ Len(f) \in Nat /\ Len(g) \in Nat
      /\ \A i \in 1..Len(f) : h[i] = f[i]
      /\ \A i \in 1..Len(g) : h[Len(f) + i] = g[i]
  BY SMTT(30), Joined DEF IsFile
<1> HIDE DEF h
<1>2. ASSUME NEW i \in 1..Len(h), h[i] = Magic
      PROVE  i < Len(h) /\ \E n \in Nat : h[i+1] = Num(n)
  <2>1. CASE i <= Len(f)
    <3>1. i \in 1..Len(f) /\ f[i] = Magic
      BY <1>1, <1>2, <2>1
    <3>2. i < Len(f) /\ \E n \in Nat : f[i+1] = Num(n)
      BY <3>1 DEF Sized
    <3>3. i + 1 \in 1..Len(f)
      BY <1>1, <3>2
    <3> QED
      BY <1>1, <3>2, <3>3
  <2>2. CASE i > Len(f)
    <3> DEFINE j == i - Len(f)
    <3>1. j \in 1..Len(g) /\ i = Len(f) + j
      BY <1>1, <2>2
    <3>2. g[j] = Magic
      BY <1>1, <1>2, <3>1
    <3>3. j < Len(g) /\ \E n \in Nat : g[j+1] = Num(n)
      BY <3>1, <3>2 DEF Sized
    <3>4. j + 1 \in 1..Len(g) /\ Len(f) + (j + 1) = i + 1
      BY <1>1, <3>1, <3>3
    <3>5. h[i + 1] = g[j + 1]
      BY SMTT(30), <1>1, <3>4
    <3> QED
      BY <1>1, <3>1, <3>3, <3>5
  <2> QED
    BY <1>1, <2>1, <2>2
<1> QED
  BY <1>1, <1>2 DEF Sized, h

LEMMA PadSized ==
    ASSUME NEW n \in Nat
    PROVE  IsFile(Pad(n)) /\ Sized(Pad(n)) /\ Len(Pad(n)) = n /\ \A i \in 1..n : Pad(n)[i] # Magic
BY NotMagic DEF IsFile, Sized, Pad

LEMMA LinkStage2 ==
    ASSUME NEW l \in Layouts2 PROVE Stage2File(Link2(l))
<1> DEFINE g == <<Magic, Num(l.size), Nop, Op("b"), Op("sp"), Deadbeef>>
           f == Link2(l)
<1>1. l.size \in Nat /\ l.tail \in Nat
  BY LayoutAssumption
<1>2. /\ IsFile(g) /\ Len(g) = 6
      /\ g[1] = Magic /\ g[2] = Num(l.size) /\ \A i \in 2..6 : g[i] # Magic
  BY NotMagic DEF IsFile
<1>3. f = g \o Pad(l.tail)
  BY DEF Link2
<1> HIDE DEF g, f
<1>4. Sized(g)
  BY <1>1, <1>2 DEF Sized
<1>5. IsFile(f) /\ Sized(f)
  BY <1>1, <1>2, <1>3, <1>4, PadSized, SizedJoined
<1>6. IsFile(Pad(l.tail)) /\ Len(Pad(l.tail)) = l.tail /\ \A i \in 1..l.tail : Pad(l.tail)[i] # Magic
  BY <1>1, PadSized
<1>7. /\ Len(f) = 6 + l.tail
      /\ \A i \in 1..6 : f[i] = g[i]
      /\ \A i \in 1..l.tail : f[6 + i] = Pad(l.tail)[i]
  <2> DEFINE q == Pad(l.tail)
  <2>1. IsFile(q) /\ Len(q) = l.tail
    BY <1>6
  <2> HIDE DEF q
  <2>2. /\ Len(g \o q) = Len(g) + Len(q)
        /\ \A i \in 1..Len(g) : (g \o q)[i] = g[i]
        /\ \A i \in 1..Len(q) : (g \o q)[Len(g) + i] = q[i]
    <3>1. IsFile(g) /\ IsFile(q)
      BY <1>2, <2>1
    <3> QED
      BY <3>1, Joined
  <2>3. f = g \o q
    BY <1>3 DEF q
  <2> QED
    BY <1>2, <2>1, <2>2, <2>3 DEF q
<1>8. f[Len(f) - 1] # Magic
  <2>1. CASE l.tail < 2
    BY <1>1, <1>2, <1>7, <2>1
  <2>2. CASE l.tail >= 2
    <3>1. Len(f) - 1 = 6 + (l.tail - 1) /\ l.tail - 1 \in 1..l.tail
      BY SMTT(30), <1>1, <1>7, <2>2
    <3> QED
      BY SMTT(30), <1>1, <1>6, <1>7, <3>1
  <2> QED
    BY <1>1, <2>1, <2>2
<1>9. Len(f) - 1 \in DOMAIN f /\ (Len(f) - 2) + 1 = Len(f) - 1 /\ 6 <= Len(f)
  BY <1>1, <1>5, <1>7 DEF IsFile
<1>10. L32(f, Len(f) - 2) # Magic
  BY <1>8, <1>9 DEF L32
<1> QED
  BY <1>5, <1>9, <1>10 DEF Stage2File, f

\* The header, whatever comes after it.
LEMMA HeaderStage1 ==
    ASSUME NEW l \in Layouts1 PROVE Stage1File(Header(l))
<1> DEFINE h == Header(l)
<1>1. l.size \in Nat \ {0} /\ l.offset \in Nat
  BY LayoutAssumption
<1>2. /\ IsFile(h) /\ Len(h) = 17 /\ h[1] = Magic /\ h[2] = Num(S1_ENTRYPOINT)
      /\ h[3] = Num(l.size) /\ h[4] = Num(l.offset)
      /\ h[6] = Entry("APE", 1, l.offset) /\ h[7] = Entry("none", 0, 0)
      /\ \A i \in 2..17 : h[i] # Magic
  BY NotMagic DEF IsFile, Header
<1> HIDE DEF h
<1>3. S1_ENTRYPOINT \in Nat
  BY DEF S1_ENTRYPOINT
<1>4. Sized(h)
  BY <1>2, <1>3 DEF Sized
<1>5. \A j \in 0..16 : L32(h, j) = h[j + 1]
  BY <1>2 DEF L32, IsFile
<1>6. NoExt(h)
  <2>1. L32(h, 5) = Entry("APE", 1, l.offset) /\ L32(h, 6) = Entry("none", 0, 0)
    BY <1>2, <1>5
  <2>2. Type(h, 5) = "APE" /\ Type(h, 6) = "none"
    BY <2>1 DEF Type, Entry
  <2>3. \A i \in 5..6 : i = 5 \/ i = 6
    OBVIOUS
  <2>4. "APE" # "extVPD" /\ "none" # "extVPD"
    OBVIOUS
  <2> QED
    BY <2>2, <2>3, <2>4, Words DEF NoExt
<1>7. L32(h, 2) = Num(l.size) /\ L32(h, 3) = Num(l.offset)
  BY <1>2, <1>5
<1>8. \A j \in {6, 10, 15} : L32(h, j) # Magic
  BY <1>2, <1>5
<1>9. HEADER <= Len(h)
  BY <1>2, Words
<1>10. \E n \in Nat \ {0} : L32(h, S1_SIZE) = Num(n)
  BY <1>1, <1>7, Words
<1>11. \E n \in Nat : L32(h, S1_OFFSET) = Num(n)
  BY <1>1, <1>7, Words
<1> QED
  BY <1>2, <1>4, <1>6, <1>8, <1>9, <1>10, <1>11 DEF Stage1File, h

LEMMA Stage1Joined ==
    ASSUME NEW f, Stage1File(f), NEW g, IsFile(g), Sized(g)
    PROVE  Stage1File(f \o g)
<1> DEFINE h == f \o g
<1>1. IsFile(f) /\ Sized(f) /\ 17 <= Len(f) /\ Len(f) \in Nat /\ Len(g) \in Nat
  BY Words DEF Stage1File, IsFile
<1>2. /\ IsFile(h) /\ Len(h) = Len(f) + Len(g)
      /\ \A i \in 1..Len(f) : h[i] = f[i]
  BY <1>1, Joined
<1>3. Sized(h)
  BY <1>1, SizedJoined
<1> HIDE DEF h
<1>4. \A j \in 0..16 : L32(h, j) = L32(f, j)
  BY SMTT(30), <1>1, <1>2 DEF L32, IsFile
<1>5. \A i \in DIR : L32(h, i) = L32(f, i)
  BY <1>4, Words
<1>6. NoExt(h)
  BY <1>5 DEF NoExt, Type, Stage1File
<1>7. L32(h, S1_SIZE) = L32(f, S1_SIZE) /\ L32(h, S1_OFFSET) = L32(f, S1_OFFSET)
  BY <1>4, Words
<1> QED
  BY SMTT(30), <1>1, <1>2, <1>3, <1>4, <1>6, <1>7, Words DEF Stage1File, h

LEMMA LinkStage1 ==
    ASSUME NEW l \in Layouts1, NEW version, version # Magic,
           NEW included, IsFile(included), Sized(included)
    PROVE  Stage1File(Link1(l, version, included))
<1> DEFINE g == <<Op("j"), Nop, Num(S1_ENTRYPOINT + 4)>>
           h == <<Op("sp")>>
           k == <<version, Deadbeef>>
<1>1. IsFile(g) /\ Sized(g) /\ IsFile(h) /\ Sized(h) /\ IsFile(k) /\ Sized(k)
  BY NotMagic DEF IsFile, Sized
<1>2. /\ IsFile(Pad(l.pad)) /\ Sized(Pad(l.pad)) /\ IsFile(Pad(l.start)) /\ Sized(Pad(l.start))
      /\ IsFile(Pad(l.mid)) /\ Sized(Pad(l.mid)) /\ IsFile(Pad(l.gap)) /\ Sized(Pad(l.gap))
  BY LayoutAssumption, PadSized
<1> HIDE DEF g, h, k
<1>3. Stage1File(Header(l) \o Pad(l.pad) \o g \o Pad(l.start))
  BY <1>1, <1>2, HeaderStage1, Stage1Joined
<1>4. Stage1File(Header(l) \o Pad(l.pad) \o g \o Pad(l.start) \o h \o Pad(l.mid))
  BY <1>1, <1>2, <1>3, Stage1Joined
<1>5. Stage1File(Header(l) \o Pad(l.pad) \o g \o Pad(l.start) \o h \o Pad(l.mid)
                 \o k \o Pad(l.gap) \o included)
  BY <1>1, <1>2, <1>4, Stage1Joined
<1> QED
  BY <1>5 DEF Link1, g, h, k

\* The checks find the code behind the header, and no magic number before its CRC.
LEMMA Accepted ==
    ASSUME NEW f, Stage1File(f), S1Accepts(f)
    PROVE  HEADER <= S1Offset(f) /\ L32(f, S1CrcAt(f) - 1) # Magic
<1>1. HEADER <= S1Offset(f) /\ S1Offset(f) \in Nat
  BY Words DEF S1Accepts
<1>2. S1Size(f) \in Nat \ {0}
  BY DEF Stage1File, S1Size, Num
<1>3. S1CrcAt(f) \in Nat /\ S1CrcAt(f) >= 17
  BY <1>1, <1>2, Words DEF S1CrcAt, S2Offset
<1>4. L32(f, S1CrcAt(f)) = Deadbeef
  BY DEF S1Accepts
<1>5. ASSUME L32(f, S1CrcAt(f) - 1) = Magic PROVE FALSE
  <2> DEFINE i == S1CrcAt(f)
  <2>1. i \in 1..Len(f) /\ f[i] = Magic
    BY <1>3, <1>5, NotMagic DEF L32, Stage1File, IsFile
  <2>2. i < Len(f) /\ \E n \in Nat : f[i+1] = Num(n)
    BY <2>1 DEF Stage1File, Sized
  <2>3. L32(f, i) = f[i+1]
    BY <1>3, <2>2 DEF L32, Stage1File, IsFile
  <2> QED
    BY <1>4, <2>2, <2>3, NotMagic
<1> QED
  BY <1>1, <1>5

\* A file that has been checked is as Laid wants it.
LEMMA CheckedLaid ==
    ASSUME NEW f, Stage1File(f), HEADER <= S1Offset(f)
    PROVE  Laid(f)
<1>1. S1Offset(f) \in Nat /\ S1Size(f) \in Nat \ {0}
  BY DEF Stage1File, S1Offset, S1Size, Num
<1>2. S2Offset(f) \in Nat
  BY <1>1 DEF S2Offset
<1>3. ASSUME L32(f, S2Offset(f)) = Magic PROVE S2Size(f) \in Nat
  <2> DEFINE i == S2Offset(f) + 1
  <2>1. i \in 1..Len(f) /\ f[i] = Magic
    BY <1>2, <1>3, NotMagic DEF L32, Stage1File, IsFile
  <2>2. i < Len(f) /\ \E n \in Nat : f[i+1] = Num(n)
    BY <2>1 DEF Stage1File, Sized
  <2>3. L32(f, i) = f[i+1]
    BY <1>2, <2>2 DEF L32, Stage1File, IsFile
  <2> QED
    BY <2>2, <2>3 DEF S2Size, Num
<1>4. KnownExt(f) = {}
  BY DEF Stage1File, NoExt, KnownExt
<1> QED
  BY <1>1, <1>3, <1>4 DEF Laid, Stage1File

\* The stamps leave it so.
LEMMA StampWrite ==
    ASSUME NEW f, Stage1File(f), HEADER <= S1Offset(f), L32(f, S1CrcAt(f) - 1) # Magic,
           NEW at \in Nat, at \in {4, 7, 11, 16} \/ at = S1CrcAt(f), NEW w, w # Magic
    PROVE  LET g == PWrite(f, at, w)
           IN  Stage1File(g) /\ HEADER <= S1Offset(g) /\ L32(g, S1CrcAt(g) - 1) # Magic
<1> DEFINE g == PWrite(f, at, w)
<1>1. IsFile(f) /\ Sized(f) /\ 17 <= Len(f)
  BY Words DEF Stage1File
<1>2. IsFile(g) /\ Len(g) = Len(f)
  BY <1>1, PWriteFile
<1>3. S1Offset(f) \in Nat /\ S1Size(f) \in Nat \ {0}
  BY DEF Stage1File, S1Offset, S1Size, Num
<1>4. S1CrcAt(f) \in Nat /\ S1CrcAt(f) >= 17
  BY <1>3, Words DEF S1CrcAt, S2Offset
<1>5. L32(f, 3) # Magic
  BY NotMagic, Words DEF Stage1File
<1>6. L32(f, at - 1) # Magic
  <2>1. \A j \in {6, 10, 15} : L32(f, j) # Magic
    BY DEF Stage1File
  <2>2. CASE at \in {4, 7, 11, 16}
    BY <1>5, <2>1, <2>2
  <2>3. CASE at = S1CrcAt(f)
    BY <2>3
  <2> QED
    BY <2>2, <2>3
<1>7. Sized(g)
  <2>1. at >= 1
    BY <1>4
  <2> QED
    BY <1>1, <1>6, <2>1, SizedWrite
<1>8. \A j \in Int : L32(g, j) = L32(f, j) \/ (j = at /\ L32(g, j) = w)
  BY <1>1, ReadWrite
<1> HIDE DEF g
<1>9. \A j \in {2, 3, 5, 6} : L32(g, j) = L32(f, j)
  BY <1>4, <1>8
<1>10. \A j \in {6, 10, 15} : L32(g, j) # Magic
  BY <1>8 DEF Stage1File
<1>11. NoExt(g)
  <2>1. \A i \in DIR : L32(g, i) = L32(f, i)
    BY <1>9, Words
  <2> QED
    BY <2>1 DEF NoExt, Type, Stage1File
<1>12. Stage1File(g)
  <2>1. L32(g, S1_SIZE) = L32(f, S1_SIZE) /\ L32(g, S1_OFFSET) = L32(f, S1_OFFSET)
    BY <1>9, Words
  <2> QED
    BY <1>2, <1>7, <1>10, <1>11, <2>1 DEF Stage1File
<1>13. S1Offset(g) = S1Offset(f) /\ S1Size(g) = S1Size(f)
  BY <1>9, Words DEF S1Offset, S1Size
<1>14. S1CrcAt(g) = S1CrcAt(f)
  BY <1>13 DEF S1CrcAt, S2Offset
<1>15. L32(g, S1CrcAt(g) - 1) # Magic
  BY <1>4, <1>8, <1>14
<1> QED
  BY <1>12, <1>13, <1>15 DEF g

LEMMA StampStage2 ==
    ASSUME NEW f, Stage2File(f), NEW i PROVE Stage2File(S2Write(f, i))
<1> DEFINE at == Len(f) - 1
           w  == Crc(f, 2, Len(f) - 1 - 2)
           g  == PWrite(f, at, w)
<1>1. IsFile(f) /\ Sized(f) /\ 6 <= Len(f) /\ L32(f, Len(f) - 2) # Magic /\ Len(f) \in Nat
  BY DEF Stage2File, IsFile
<1>2. at \in Nat /\ at >= 1 /\ at - 1 = Len(f) - 2
  BY <1>1
<1>3. w # Magic
  BY NotMagic
<1> HIDE DEF at, w, g
<1>4. IsFile(g) /\ Len(g) = Len(f)
  BY <1>1, PWriteFile DEF g
<1>5. Sized(g)
  BY <1>1, <1>2, <1>3, SizedWrite DEF g
<1>6. L32(g, Len(f) - 2) # Magic
  BY <1>1, <1>2, <1>3, ReadWrite DEF g
<1> QED
  BY <1>1, <1>4, <1>5, <1>6 DEF Stage2File, S2Write, g, at, w

LEMMA StampStage1 ==
    ASSUME NEW f, Stage1File(f), HEADER <= S1Offset(f), L32(f, S1CrcAt(f) - 1) # Magic,
           NEW i \in 1..5
    PROVE  LET g == S1Write(f, i)
           IN  Stage1File(g) /\ HEADER <= S1Offset(g) /\ L32(g, S1CrcAt(g) - 1) # Magic
<1>1. S1CrcAt(f) \in Nat
  <2>1. S1Offset(f) \in Nat /\ S1Size(f) \in Nat \ {0}
    BY DEF Stage1File, S1Offset, S1Size, Num
  <2> QED
    BY <2>1, Words DEF S1CrcAt, S2Offset
<1>2. /\ BootCrc(f) # Magic /\ DirSum(f) # Magic /\ MfrCrc(f) # Magic
      /\ Mfr2Crc(f) # Magic /\ S1Crc(f) # Magic
  BY NotMagic DEF BootCrc, DirSum, MfrCrc, Mfr2Crc, S1Crc
<1>3. \E at \in Nat : \E w : /\ at \in {4, 7, 11, 16} \/ at = S1CrcAt(f)
                             /\ w # Magic /\ S1Write(f, i) = PWrite(f, at, w)
  BY <1>1, <1>2, Offsets DEF S1Write
<1> QED
  BY <1>3, StampWrite

LEMMA BuiltStep ==
    ASSUME BuildInv, BuiltInv, Make PROVE BuiltInv'
<1> USE DEF BuiltInv
<1>1. ASSUME NEW t \in Targets, Link(t) PROVE BuiltInv'
  <2>1. mpc' = "check" /\ goal' = t /\ UNCHANGED files /\ tmp' \in LinkerOutput(t)
    BY <1>1 DEF Link
  <2>2. CASE t = "otg_stage2.bin"
    <3>1. Stage2File(tmp')
      BY <2>1, <2>2, LinkStage2 DEF LinkerOutput
    <3> QED
      BY <2>1, <2>2, <3>1
  <2>3. CASE t = "otg.bin"
    <3>1. IsFile(files["otg_stage2.bin"]) /\ Sized(files["otg_stage2.bin"])
      BY <1>1, <2>3 DEF Link
    <3>2. Stage1File(tmp')
      BY <2>1, <2>3, <3>1, NotMagic, LinkStage1 DEF LinkerOutput
    <3> QED
      BY <2>1, <2>3, <3>2
  <2>4. CASE t = "otg_dummy.bin"
    <3>1. IsFile(<< >>) /\ Sized(<< >>)
      BY DEF IsFile, Sized
    <3>2. Stage1File(tmp')
      BY <2>1, <2>4, <3>1, NotMagic, LinkStage1 DEF LinkerOutput
    <3> QED
      BY <2>1, <2>4, <3>2
  <2> QED
    BY <2>2, <2>3, <2>4 DEF Targets
<1>2. CASE Check
  BY <1>2, Accepted DEF Check
<1>3. CASE Stamp
  <2>1. UNCHANGED <<files, goal>> /\ mpc = "stamp" /\ nth \in 1..5
    BY <1>3 DEF Stamp, BuildInv
  <2>2. CASE goal = "otg_stage2.bin"
    BY <1>3, <2>1, <2>2, StampStage2 DEF Stamp
  <2>3. CASE goal # "otg_stage2.bin"
    <3>1. /\ Stage1File(tmp') /\ HEADER <= S1Offset(tmp')
          /\ L32(tmp', S1CrcAt(tmp') - 1) # Magic
      BY <1>3, <2>1, <2>3, StampStage1 DEF Stamp
    <3> QED
      BY <2>1, <2>3, <3>1
  <2> QED
    BY <2>2, <2>3
<1>4. CASE Info
  BY <1>4 DEF Info
<1>5. CASE Install
  <2>1. /\ files' = [files EXCEPT ![goal] = tmp] /\ mpc = "install" /\ mpc' = "idle"
        /\ files = [t \in Targets |-> files[t]] /\ goal \in Targets
    BY <1>5 DEF Install, BuildInv
  <2>2. \A t \in Targets : files'[t] = IF t = goal THEN tmp ELSE files[t]
    BY <2>1
  <2>3. goal = "otg.bin" => Laid(tmp) /\ NoExt(tmp)
    BY <2>1, CheckedLaid DEF Stage1File
  <2>4. goal = "otg_stage2.bin" => IsFile(tmp) /\ Sized(tmp)
    BY <2>1 DEF Stage2File
  <2> QED
    BY <2>1, <2>2, <2>3, <2>4 DEF Targets
<1>6. CASE KillMake
  BY <1>6 DEF KillMake
<1> QED
  BY <1>1, <1>2, <1>3, <1>4, <1>5, <1>6 DEF Make

-----------------------------------------------------------------------------
(* What is in it.                                                           *)

LEMMA KindOf ==
    /\ Magic[1] = "magic" /\ Nop[1] = "zero" /\ Zero[1] = "zero" /\ Deadbeef[1] = "deadbeef"
    /\ \A n : Num(n)[1] = "num" /\ Num(n)[2] = n /\ Op(n)[1] = "op" /\ Mac(n)[1] = "mac" /\ Vpd(n)[1] = "vpd"
    /\ \A n : <<"version", n>>[1] = "version"
    /\ \A t, n, o : Entry(t, n, o)[1] = "entry"
    /\ \A f, o, n : Crc(f, o, n)[1] = "crc"
BY DEF Magic, Nop, Zero, Deadbeef, Num, Op, Mac, Vpd, Entry, Crc

\* A piece of a file without a magic number, and with numbers that are.
LEMMA PieceKinds ==
    ASSUME NEW f, \A i \in 1..Len(f) : f[i] # Magic /\ (f[i][1] = "num" => f[i][2] \in Int)
    PROVE  Kinds(f, 0)
BY DEF Kinds

LEMMA PadKinds ==
    ASSUME NEW n \in Nat PROVE Kinds(Pad(n), 0)
<1>1. Len(Pad(n)) = n /\ \A i \in 1..n : Pad(n)[i] = Zero
  BY DEF Pad
<1> QED
  BY <1>1, NotMagic, KindOf, PieceKinds

LEMMA KindsJoined ==
    ASSUME NEW f, IsFile(f), NEW g, IsFile(g), NEW k \in Nat, k <= Len(f),
           Kinds(f, k), Kinds(g, 0)
    PROVE  IsFile(f \o g) /\ k <= Len(f \o g) /\ Kinds(f \o g, k)
<1> DEFINE h == f \o g
<1>1. /\ IsFile(h) /\ Len(h) = Len(f) + Len(g) /\ Len(f) \in Nat /\ Len(g) \in Nat
      /\ \A i \in 1..Len(f) : h[i] = f[i]
      /\ \A i \in 1..Len(g) : h[Len(f) + i] = g[i]
  BY SMTT(30), Joined DEF IsFile
<1> HIDE DEF h
<1>2. ASSUME NEW i \in 1..Len(h)
      PROVE  /\ h[i][1] = "num" => h[i][2] \in Int
             /\ k < i /\ h[i] = Magic => i + 3 <= Len(h) /\ h[i+3] = Op("b")
  <2>1. CASE i <= Len(f)
    <3>1. i \in 1..Len(f) /\ h[i] = f[i]
      BY <1>1, <2>1
    <3>2. k < i /\ f[i] = Magic => i + 3 <= Len(f) /\ f[i+3] = Op("b")
      BY <3>1 DEF Kinds
    <3>3. i + 3 <= Len(f) => h[i+3] = f[i+3] /\ i + 3 <= Len(h)
      BY <1>1, <3>1
    <3> QED
      BY <3>1, <3>2, <3>3 DEF Kinds
  <2>2. CASE i > Len(f)
    <3> DEFINE j == i - Len(f)
    <3>1. j \in 1..Len(g) /\ i = Len(f) + j
      BY <1>1, <2>2
    <3>2. h[i] = g[j]
      BY <1>1, <3>1
    <3>3. g[j] = Magic => j + 3 <= Len(g) /\ g[j+3] = Op("b")
      BY <3>1 DEF Kinds
    <3>4. j + 3 <= Len(g) => h[i+3] = g[j+3] /\ i + 3 <= Len(h)
      <4>1. j + 3 <= Len(g) => j + 3 \in 1..Len(g) /\ i + 3 = Len(f) + (j + 3)
        BY <1>1, <3>1
      <4> QED
        BY <1>1, <3>1, <4>1
    <3>5. g[j][1] = "num" => g[j][2] \in Int
      BY <3>1 DEF Kinds
    <3> QED
      BY <3>2, <3>3, <3>4, <3>5
  <2> QED
    BY <1>1, <2>1, <2>2
<1> QED
  BY <1>1, <1>2 DEF Kinds, h

LEMMA KindsWrite ==
    ASSUME NEW f, IsFile(f), NEW k \in Nat, Kinds(f, k), NEW at \in Nat, NEW w, w[1] = "crc",
           \A i \in 1..Len(f) : k < i /\ f[i] = Magic => at # i + 2
    PROVE  Kinds(PWrite(f, at, w), k)
<1> DEFINE g == PWrite(f, at, w)
<1>1. Len(g) = Len(f) /\ \A i \in 1..Len(f) : g[i] = IF i = at + 1 THEN w ELSE f[i]
  BY PWriteFile
<1> HIDE DEF g
<1>2. w # Magic
  BY KindOf
<1>3. ASSUME NEW i \in 1..Len(g)
      PROVE  /\ g[i][1] = "num" => g[i][2] \in Int
             /\ k < i /\ g[i] = Magic => i + 3 <= Len(g) /\ g[i+3] = Op("b")
  <2>1. g[i][1] = "num" => g[i][2] \in Int
    BY <1>1, <1>3 DEF Kinds
  <2>2. ASSUME k < i, g[i] = Magic PROVE i + 3 <= Len(g) /\ g[i+3] = Op("b")
    <3>1. f[i] = Magic
      BY <1>1, <1>2, <2>2
    <3>2. i + 3 <= Len(f) /\ f[i+3] = Op("b") /\ at # i + 2
      BY <1>1, <2>2, <3>1 DEF Kinds
    <3>3. i + 3 \in 1..Len(f) /\ i + 3 # at + 1
      BY <1>1, <3>2 DEF IsFile
    <3> QED
      BY <1>1, <3>2, <3>3
  <2> QED
    BY <2>1, <2>2
<1> QED
  BY <1>3 DEF Kinds, g

LEMMA LinkKinds2 ==
    ASSUME NEW l \in Layouts2 PROVE OneMagic(Link2(l))
<1> DEFINE g == <<Magic, Num(l.size), Nop, Op("b"), Op("sp"), Deadbeef>>
           q == Pad(l.tail)
<1>1. l.size \in Nat /\ l.tail \in Nat
  BY LayoutAssumption
<1>2. /\ IsFile(g) /\ Len(g) = 6 /\ g[4] = Op("b")
      /\ \A i \in 2..6 : g[i] # Magic
  BY NotMagic DEF IsFile
<1>3. \A i \in 1..6 : g[i][1] = "num" => g[i][2] \in Int
  BY <1>1, KindOf
<1>4. IsFile(q) /\ Len(q) = l.tail /\ Kinds(q, 0) /\ \A i \in 1..l.tail : q[i] # Magic
  BY <1>1, PadSized, PadKinds
<1>5. Link2(l) = g \o q
  BY DEF Link2
<1> HIDE DEF g, q
<1>6. Kinds(g, 0)
  BY <1>2, <1>3 DEF Kinds
<1>7. Kinds(g \o q, 0)
  BY <1>2, <1>4, <1>6, KindsJoined
<1>8. ASSUME NEW i \in 2..Len(g \o q) PROVE (g \o q)[i] # Magic
  <2>1. /\ Len(g \o q) = 6 + Len(q) /\ Len(q) \in Nat
        /\ \A j \in 1..Len(g) : (g \o q)[j] = g[j]
        /\ \A j \in 1..Len(q) : (g \o q)[Len(g) + j] = q[j]
    <3>1. IsFile(g) /\ IsFile(q)
      BY <1>2, <1>4
    <3>2. /\ Len(g \o q) = Len(g) + Len(q)
          /\ \A j \in 1..Len(g) : (g \o q)[j] = g[j]
          /\ \A j \in 1..Len(q) : (g \o q)[Len(g) + j] = q[j]
      BY <3>1, Joined
    <3>3. Len(q) \in Nat
      BY <3>1 DEF IsFile
    <3> QED
      BY <1>2, <3>2, <3>3
  <2>2. CASE i <= 6
    BY <1>2, <2>1, <2>2
  <2>3. CASE i > 6
    <3>1. i = Len(g) + (i - 6) /\ i - 6 \in 1..Len(q)
      BY <1>2, <2>1, <2>3
    <3> QED
      BY <1>4, <2>1, <3>1
  <2> QED
    BY <2>1, <2>2, <2>3
<1> QED
  BY <1>5, <1>7, <1>8 DEF OneMagic

LEMMA LinkKinds1 ==
    ASSUME NEW l \in Layouts1, NEW version, version # Magic, version[1] = "version",
           NEW included, IsFile(included), Kinds(included, 0)
    PROVE  Stampable(Link1(l, version, included))
<1> DEFINE e == Header(l)
           g == <<Op("j"), Nop, Num(S1_ENTRYPOINT + 4)>>
           h == <<Op("sp")>>
           k == <<version, Deadbeef>>
           File(f) == IsFile(f) /\ 17 <= Len(f) /\ Kinds(f, 17)
                      /\ \A j \in {4, 7, 11, 16} : L32(f, j)[1] # "version"
           Piece(f) == IsFile(f) /\ Kinds(f, 0)
<1>1. l.size \in Nat /\ l.offset \in Nat /\ S1_ENTRYPOINT \in Nat
  BY LayoutAssumption DEF S1_ENTRYPOINT
<1>2. Piece(g) /\ Piece(h) /\ Piece(k)
  <2>1. IsFile(g) /\ IsFile(h) /\ IsFile(k)
    BY DEF IsFile
  <2>2. Kinds(g, 0)
    BY <1>1, NotMagic, KindOf, PieceKinds
  <2>3. Kinds(h, 0)
    BY NotMagic, KindOf, PieceKinds
  <2>4. Kinds(k, 0)
    BY NotMagic, KindOf, PieceKinds
  <2> QED
    BY <2>1, <2>2, <2>3, <2>4
<1>3. Piece(Pad(l.pad)) /\ Piece(Pad(l.start)) /\ Piece(Pad(l.mid)) /\ Piece(Pad(l.gap))
  BY LayoutAssumption, PadSized, PadKinds
<1>4. File(e)
  <2>1. IsFile(e) /\ Len(e) = 17
    BY DEF IsFile, Header
  <2>2. \A i \in 1..17 : e[i][1] = "num" => e[i][2] \in Int
    BY <1>1, KindOf DEF Header
  <2>3. e[5] = Deadbeef /\ e[8] = Zero /\ e[12] = Zero /\ e[17] = Zero
    BY DEF Header
  <2> HIDE DEF e
  <2>4. \A j \in {4, 7, 11, 16} : L32(e, j) = e[j + 1]
    BY <2>1 DEF L32, IsFile
  <2>5. \A j \in {4, 7, 11, 16} : L32(e, j)[1] # "version"
    BY <2>3, <2>4, KindOf
  <2>6. Kinds(e, 17)
    BY <2>1, <2>2 DEF Kinds
  <2> QED
    BY <2>1, <2>5, <2>6
<1>5. ASSUME NEW f, NEW q, File(f), Piece(q) PROVE File(f \o q)
  <2>1. IsFile(f \o q) /\ 17 <= Len(f \o q) /\ Kinds(f \o q, 17)
    BY <1>5, KindsJoined
  <2>2. \A i \in 1..Len(f) : (f \o q)[i] = f[i]
    BY <1>5, Joined
  <2> DEFINE r == f \o q
  <2> HIDE DEF r
  <2>3. IsFile(r) /\ 17 <= Len(r) /\ \A i \in 1..Len(f) : r[i] = f[i]
    BY <2>1, <2>2 DEF r
  <2>4. \A j \in {4, 7, 11, 16} : L32(r, j) = L32(f, j)
    BY <1>5, <2>3 DEF L32, IsFile
  <2>5. \A j \in {4, 7, 11, 16} : L32(r, j)[1] # "version"
    BY <1>5, <2>4
  <2> QED
    BY <2>1, <2>5 DEF r
<1> HIDE DEF e, g, h, k, File, Piece
<1>6. File(e \o Pad(l.pad) \o g \o Pad(l.start))
  BY <1>2, <1>3, <1>4, <1>5
<1>7. File(e \o Pad(l.pad) \o g \o Pad(l.start) \o h \o Pad(l.mid))
  BY <1>2, <1>3, <1>5, <1>6
<1>8. Piece(included)
  BY DEF Piece
<1>9. File(e \o Pad(l.pad) \o g \o Pad(l.start) \o h \o Pad(l.mid) \o k \o Pad(l.gap) \o included)
  BY <1>2, <1>3, <1>5, <1>7, <1>8
<1> QED
  BY <1>9 DEF Link1, Stampable, File, e, g, h, k

-----------------------------------------------------------------------------
(* What the stamps make of it.                                              *)

LEMMA StageNumbers ==
    ASSUME NEW f, Stage1File(f), HEADER <= S1Offset(f)
    PROVE  /\ S1Offset(f) \in Nat /\ S1Offset(f) >= 17 /\ S1Size(f) \in Nat /\ S1Size(f) >= 1
           /\ S2Offset(f) = S1Offset(f) + S1Size(f) /\ S1CrcAt(f) = S2Offset(f) - 1
           /\ S1CrcAt(f) \in Nat /\ S1CrcAt(f) >= 17
<1>1. S1Offset(f) \in Nat /\ S1Size(f) \in Nat \ {0}
  BY DEF Stage1File, S1Offset, S1Size, Num
<1> QED
  BY <1>1, Words DEF S2Offset, S1CrcAt

\* A number is in the file, and is one.
LEMMA NumRead ==
    ASSUME NEW f, IsFile(f), NEW k, Kinds(f, k), NEW j \in Int, L32(f, j)[1] = "num"
    PROVE  L32(f, j)[2] \in Int
<1>1. j + 1 \in 1..Len(f) /\ L32(f, j) = f[j + 1]
  BY KindOf DEF L32, IsFile
<1> QED
  BY <1>1 DEF Kinds

\* Any one of them.
LEMMA CrcWritten ==
    ASSUME NEW f, Stage1File(f), HEADER <= S1Offset(f), Stampable(f), Checked(f),
           NEW at \in Nat, at \in {4, 7, 11, 16} \/ at = S1CrcAt(f), NEW w, w[1] = "crc"
    PROVE  LET g == PWrite(f, at, w)
           IN  /\ Stampable(g) /\ Checked(g) /\ S1CrcAt(g) = S1CrcAt(f)
               /\ S1Offset(g) = S1Offset(f) /\ S1Size(g) = S1Size(f)
               /\ L32(g, at) = w /\ \A j \in Int : j # at => L32(g, j) = L32(f, j)
<1> DEFINE g == PWrite(f, at, w)
<1>1. IsFile(f) /\ 17 <= Len(f) /\ Len(f) \in Nat
  BY Words DEF Stage1File, IsFile
<1>2. /\ S1Offset(f) \in Nat /\ S1Offset(f) >= 17 /\ S1Size(f) \in Nat /\ S1Size(f) >= 1
      /\ S2Offset(f) = S1Offset(f) + S1Size(f) /\ S1CrcAt(f) = S2Offset(f) - 1
      /\ S1CrcAt(f) \in Nat /\ S1CrcAt(f) >= 17
  BY StageNumbers
<1>3. L32(f, S1CrcAt(f))[1] \in {"deadbeef", "crc"}
  BY DEF Checked
<1>4. at < Len(f)
  <2>1. at = S1CrcAt(f) => at + 1 \in DOMAIN f
    BY <1>3, KindOf DEF L32
  <2> QED
    BY <1>1, <2>1 DEF IsFile
<1>5. L32(g, at) = w /\ \A j \in Int : j # at => L32(g, j) = L32(f, j)
  BY <1>1, <1>4, ReadWrite
<1>6. Kinds(f, 17)
  BY DEF Stampable
<1>7. Kinds(g, 17)
  <2>1. ASSUME NEW i \in 1..Len(f), 17 < i, f[i] = Magic PROVE at # i + 2
    <3>1. i + 3 <= Len(f) /\ f[i + 3] = Op("b")
      BY <1>6, <2>1 DEF Kinds
    <3>2. i + 2 \in Nat /\ (i + 2) + 1 = i + 3 /\ i + 3 \in DOMAIN f
      BY <1>1, <3>1 DEF IsFile
    <3>3. L32(f, i + 2) = Op("b")
      BY <3>1, <3>2 DEF L32
    <3>4. Op("b")[1] = "op"
      BY KindOf
    <3>5. S1CrcAt(f) # i + 2
      BY <1>3, <3>3, <3>4
    <3> QED
      BY <2>1, <3>5
  <2> QED
    BY <1>1, <1>6, <2>1, KindsWrite
<1> HIDE DEF g
<1>8. \A j \in {4, 7, 11, 16} : L32(g, j)[1] # "version"
  BY <1>5 DEF Stampable
<1>9. S1Offset(g) = S1Offset(f) /\ S1Size(g) = S1Size(f)
  <2>1. L32(g, 2) = L32(f, 2) /\ L32(g, 3) = L32(f, 3)
    BY <1>2, <1>5
  <2> QED
    BY <2>1, Words DEF S1Offset, S1Size
<1>10. S1CrcAt(g) = S1CrcAt(f)
  BY <1>9 DEF S1CrcAt, S2Offset
<1>11. Checked(g)
  <2>1. L32(f, S1Offset(f)) = Op("j") /\ L32(f, S1Offset(f) + 2)[1] = "num"
        /\ L32(f, VersionAt(f))[1] = "version" /\ Op("j")[1] = "op"
    BY KindOf DEF Checked
  <2>2. at # S1Offset(f) /\ at # S1Offset(f) + 2
    BY <1>2, <1>3, <2>1
  <2>3. L32(g, S1Offset(f)) = L32(f, S1Offset(f)) /\ L32(g, S1Offset(f) + 2) = L32(f, S1Offset(f) + 2)
    BY <1>2, <1>5, <2>2
  <2>4. VersionAt(g) = VersionAt(f)
    BY <1>9, <2>3 DEF VersionAt
  <2>5. L32(f, S1Offset(f) + 2)[2] \in Int
    BY <1>1, <1>2, <1>6, <2>1, NumRead
  <2>6. VersionAt(f) \in Int
    BY <1>2, <2>5 DEF VersionAt, S1_ENTRYPOINT
  <2>7. at # VersionAt(f)
    BY <1>3, <2>1 DEF Stampable
  <2>8. L32(g, VersionAt(f)) = L32(f, VersionAt(f))
    BY <1>5, <2>6, <2>7
  <2>9. L32(g, S1CrcAt(f))[1] \in {"deadbeef", "crc"}
    BY <1>2, <1>3, <1>5
  <2> QED
    BY <1>9, <1>10, <2>1, <2>3, <2>4, <2>8, <2>9 DEF Checked
<1> QED
  BY <1>5, <1>7, <1>8, <1>9, <1>10, <1>11 DEF Stampable, g

\* Each of them in its order.
LEMMA StampSound ==
    ASSUME NEW f, Stage1File(f), HEADER <= S1Offset(f), Stampable(f), Checked(f),
           NEW i \in 1..5, Stamped(f, i - 1)
    PROVE  LET g == S1Write(f, i) IN Stampable(g) /\ Checked(g) /\ Stamped(g, i)
<1> DEFINE g == S1Write(f, i)
           at == CASE i = 1 -> 4 [] i = 2 -> 7 [] i = 3 -> 11 [] i = 4 -> 16 [] i = 5 -> S1CrcAt(f)
           w  == CASE i = 1 -> BootCrc(f) [] i = 2 -> DirSum(f) [] i = 3 -> MfrCrc(f)
                   [] i = 4 -> Mfr2Crc(f) [] i = 5 -> S1Crc(f)
<1>1. g = PWrite(f, at, w)
  BY Offsets DEF S1Write
<1>2. w[1] = "crc"
  BY KindOf DEF BootCrc, DirSum, MfrCrc, Mfr2Crc, S1Crc
<1>3. /\ S1Offset(f) \in Nat /\ S1Offset(f) >= 17 /\ S1Size(f) \in Nat /\ S1Size(f) >= 1
      /\ S1CrcAt(f) = S1Offset(f) + S1Size(f) - 1 /\ S1CrcAt(f) \in Nat /\ S1CrcAt(f) >= 17
  BY StageNumbers
<1>4. at \in Nat /\ (at \in {4, 7, 11, 16} \/ at = S1CrcAt(f))
  BY <1>3
<1>5. /\ i = 1 => at = 4 /\ w = BootCrc(f)
      /\ i = 2 => at = 7 /\ w = DirSum(f)
      /\ i = 3 => at = 11 /\ w = MfrCrc(f)
      /\ i = 4 => at = 16 /\ w = Mfr2Crc(f)
      /\ i = 5 => at = S1CrcAt(f) /\ w = S1Crc(f)
  OBVIOUS
<1> HIDE DEF g, at, w
<1>6. /\ Stampable(g) /\ Checked(g) /\ S1CrcAt(g) = S1CrcAt(f)
      /\ S1Offset(g) = S1Offset(f) /\ S1Size(g) = S1Size(f)
      /\ L32(g, at) = w /\ \A j \in Int : j # at => L32(g, j) = L32(f, j)
  BY <1>1, <1>2, <1>4, CrcWritten
<1>7. i >= 1 => L32(g, BOOT_CRC) = BootCrc(g)
  <2>1. \A j \in 0..3 : L32(g, j) = L32(f, j)
    BY <1>3, <1>4, <1>6
  <2>2. Crc(g, 0, 4) = Crc(f, 0, 4)
    BY <2>1, CrcOfSame
  <2>3. BootCrc(g) = BootCrc(f)
    BY <2>2, Offsets DEF BootCrc
  <2>4. i > 1 => at # 4
    BY <1>3, <1>5
  <2> QED
    BY <1>5, <1>6, <2>3, <2>4, Offsets DEF Stamped
<1>8. i >= 2 => L32(g, DIR_CRC) = DirSum(g)
  <2>1. \A j \in 5..6 : L32(g, j) = L32(f, j)
    BY <1>3, <1>4, <1>6
  <2>2. Crc(g, 5, 2) = Crc(f, 5, 2)
    BY <2>1, CrcOfSame
  <2>3. DirSum(g) = DirSum(f)
    BY <2>2, Offsets DEF DirSum
  <2>4. i > 2 => at # 7
    BY <1>3, <1>5
  <2> QED
    BY <1>5, <1>6, <2>3, <2>4, Offsets DEF Stamped
<1>9. i >= 3 => L32(g, MFR_CRC) = MfrCrc(g)
  <2> SUFFICES ASSUME i >= 3 PROVE L32(g, MFR_CRC) = MfrCrc(g)
    OBVIOUS
  <2>1. at >= 11
    BY <1>3, <1>5
  <2>2. \A j \in 7..10 : L32(g, j) = L32(f, j)
    BY <1>6, <2>1
  <2>3. Crc(g, 7, 4) = Crc(f, 7, 4)
    BY <2>2, CrcOfSame
  <2>4. MfrCrc(g) = MfrCrc(f)
    BY <2>3, Offsets DEF MfrCrc
  <2>5. i > 3 => at # 11
    BY <1>3, <1>5
  <2> QED
    BY <1>5, <1>6, <2>4, <2>5, Offsets DEF Stamped
<1>10. i >= 4 => L32(g, MFR2_CRC) = Mfr2Crc(g)
  <2> SUFFICES ASSUME i >= 4 PROVE L32(g, MFR2_CRC) = Mfr2Crc(g)
    OBVIOUS
  <2>1. at >= 16
    BY <1>3, <1>5
  <2>2. \A j \in 13..15 : L32(g, j) = L32(f, j)
    BY <1>6, <2>1
  <2>3. Crc(g, 13, 3) = Crc(f, 13, 3)
    BY <2>2, CrcOfSame
  <2>4. Mfr2Crc(g) = Mfr2Crc(f)
    BY <2>3, Offsets DEF Mfr2Crc
  <2>5. i > 4 => at # 16
    BY <1>3, <1>5
  <2> QED
    BY <1>5, <1>6, <2>4, <2>5, Offsets DEF Stamped
<1>11. i >= 5 => S1Good(g)
  <2> SUFFICES ASSUME i = 5 PROVE S1Good(g)
    OBVIOUS
  <2>1. \A j \in S1Offset(f)..S1Offset(f)+(S1Size(f)-1)-1 : L32(g, j) = L32(f, j)
    BY <1>3, <1>5, <1>6
  <2>2. Crc(g, S1Offset(f), S1Size(f) - 1) = Crc(f, S1Offset(f), S1Size(f) - 1)
    BY <1>3, <2>1, CrcOfSame
  <2>3. S1Crc(g) = S1Crc(f)
    BY <1>6, <2>2 DEF S1Crc
  <2> QED
    BY <1>5, <1>6, <2>3 DEF S1Good
<1>12. Stamped(g, i)
  BY <1>7, <1>8, <1>9, <1>10, <1>11 DEF Stamped
<1> QED
  BY <1>6, <1>12 DEF g

LEMMA StampOneMagic ==
    ASSUME NEW f, Stage2File(f), OneMagic(f), NEW i PROVE OneMagic(S2Write(f, i))
<1> DEFINE at == Len(f) - 1
           w  == Crc(f, 2, Len(f) - 1 - 2)
           g  == PWrite(f, at, w)
<1>1. IsFile(f) /\ 6 <= Len(f) /\ at \in Nat /\ Kinds(f, 0)
  BY DEF Stage2File, IsFile, OneMagic
<1>2. w[1] = "crc" /\ w # Magic
  BY KindOf, NotMagic
<1> HIDE DEF w, g
<1>3. \A j \in 1..Len(f) : f[j] = Magic => j = 1
  BY <1>1 DEF OneMagic, IsFile
<1>4. \A j \in 1..Len(f) : 0 < j /\ f[j] = Magic => at # j + 2
  BY <1>1, <1>3
<1>5. Kinds(g, 0)
  BY <1>1, <1>2, <1>4, KindsWrite DEF g
<1>6. Len(g) = Len(f) /\ \A j \in 1..Len(f) : g[j] = IF j = at + 1 THEN w ELSE f[j]
  BY <1>1, PWriteFile DEF g
<1>7. \A j \in 2..Len(g) : g[j] # Magic
  BY <1>1, <1>2, <1>6 DEF OneMagic, IsFile
<1> QED
  BY <1>5, <1>7 DEF OneMagic, S2Write, g, w

\* What is installed.
LEMMA InstallSound ==
    ASSUME NEW f, Stage1File(f), HEADER <= S1Offset(f), Stampable(f), Checked(f)
    PROVE  /\ StartsAsLinked(f)
           /\ Stamped(f, 5) => HeaderGood(f) /\ S1Good(f)
           /\ InfoIsClean(f) => L32(f, S2Offset(f)) = Magic /\ L32(f, S2Offset(f) + 3) = Op("b")
<1>1. StartsAsLinked(f)
  BY DEF StartsAsLinked, Checked
<1>2. Stamped(f, 5) => HeaderGood(f) /\ S1Good(f)
  BY DEF Stamped, HeaderGood
<1>3. ASSUME InfoIsClean(f)
      PROVE  L32(f, S2Offset(f)) = Magic /\ L32(f, S2Offset(f) + 3) = Op("b")
  <2>1. L32(f, S2Offset(f)) = Magic
    BY <1>3 DEF InfoIsClean, S2Present
  <2> DEFINE j == S2Offset(f) + 1
  <2>2. S2Offset(f) \in Nat /\ j > 17
    BY StageNumbers
  <2>3. j \in 1..Len(f) /\ f[j] = Magic
    BY <2>1, <2>2, NotMagic DEF L32, Stage1File, IsFile
  <2>4. j + 3 <= Len(f) /\ f[j + 3] = Op("b")
    BY <2>2, <2>3 DEF Stampable, Kinds
  <2>5. (S2Offset(f) + 3) + 1 = j + 3 /\ j + 3 \in DOMAIN f
    BY <2>2, <2>4 DEF Stage1File, IsFile
  <2>6. L32(f, S2Offset(f) + 3) = Op("b")
    BY <2>4, <2>5 DEF L32
  <2> QED
    BY <2>1, <2>6
<1> QED
  BY <1>1, <1>2, <1>3

LEMMA SoundInit == BuildInit => SoundInv
BY DEF BuildInit, SoundInv, BuiltIsSound, DummyIsSound, Targets

LEMMA SoundStep ==
    ASSUME BuildInv, BuiltInv, SoundInv, Make PROVE SoundInv'
<1>1. ASSUME NEW t \in Targets, Link(t) PROVE SoundInv'
  <2>1. /\ mpc' = "check" /\ goal' = t /\ nth' = 1 /\ UNCHANGED files /\ tmp' \in LinkerOutput(t)
        /\ BuiltIsSound' /\ DummyIsSound'
    BY <1>1 DEF Link, SoundInv, BuiltIsSound, DummyIsSound
  <2>2. IF t = "otg_stage2.bin" THEN OneMagic(tmp') ELSE Stampable(tmp')
    <3>1. CASE t = "otg_stage2.bin"
      BY <2>1, <3>1, LinkKinds2 DEF LinkerOutput
    <3>2. CASE t = "otg.bin"
      <4>1. IsFile(files["otg_stage2.bin"]) /\ Kinds(files["otg_stage2.bin"], 0)
        BY <1>1, <3>2 DEF Link, BuiltInv, SoundInv
      <4> QED
        BY <2>1, <3>2, <4>1, NotMagic, KindOf, LinkKinds1 DEF LinkerOutput
    <3>3. CASE t = "otg_dummy.bin"
      <4>1. IsFile(<< >>) /\ Kinds(<< >>, 0)
        BY DEF IsFile, Kinds
      <4> QED
        BY <2>1, <3>3, <4>1, NotMagic, KindOf, LinkKinds1 DEF LinkerOutput
    <3> QED
      BY <3>1, <3>2, <3>3 DEF Targets
  <2> QED
    BY <2>1, <2>2 DEF SoundInv
<1>2. CASE Check
  <2>1. UNCHANGED <<tmp, files, goal, nth>> /\ mpc = "check" /\ mpc' \in {"stamp", "idle"}
    BY <1>2 DEF Check
  <2>2. mpc' = "stamp" /\ goal # "otg_stage2.bin" => S1Accepts(tmp)
    BY <1>2 DEF Check
  <2>3. S1Accepts(tmp) => Checked(tmp)
    BY KindOf DEF S1Accepts, IsDummy, Checked
  <2>4. BuiltIsSound' /\ DummyIsSound'
    BY <2>1 DEF SoundInv, BuiltIsSound, DummyIsSound
  <2>5. Stamped(tmp, 0) /\ (goal # "otg_stage2.bin" => nth - 1 = 0)
    BY <2>1 DEF Stamped, SoundInv
  <2> QED
    BY <2>1, <2>2, <2>3, <2>4, <2>5 DEF SoundInv
<1>3. CASE Stamp
  <2>1. UNCHANGED <<files, goal>> /\ mpc = "stamp" /\ nth \in 1..5 /\ goal \in Targets
    BY <1>3 DEF Stamp, BuildInv
  <2>2. BuiltIsSound' /\ DummyIsSound'
    BY <2>1 DEF SoundInv, BuiltIsSound, DummyIsSound
  <2>3. CASE goal = "otg_stage2.bin"
    <3>1. OneMagic(tmp')
      BY <1>3, <2>1, <2>3, StampOneMagic DEF Stamp, BuiltInv, SoundInv
    <3>2. mpc' # "info" /\ goal' = "otg_stage2.bin"
      BY <1>3, <2>1, <2>3 DEF Stamp
    <3> QED
      BY <2>1, <2>2, <2>3, <3>1, <3>2 DEF SoundInv
  <2>4. CASE goal # "otg_stage2.bin"
    <3>1. tmp' = S1Write(tmp, nth) /\ Stage1File(tmp) /\ HEADER <= S1Offset(tmp)
          /\ Stampable(tmp) /\ Checked(tmp) /\ Stamped(tmp, nth - 1)
      BY <1>3, <2>1, <2>4 DEF Stamp, BuiltInv, SoundInv
    <3>2. Stampable(tmp') /\ Checked(tmp') /\ Stamped(tmp', nth)
      BY <2>1, <3>1, StampSound
    <3>3. Pwrites(goal) = 5
      BY <2>4 DEF Pwrites
    <3>4. CASE nth < 5
      <4>1. nth' = nth + 1 /\ mpc' = "stamp"
        BY <1>3, <2>1, <3>3, <3>4 DEF Stamp
      <4>2. Stamped(tmp', nth' - 1)
        BY <2>1, <3>2, <4>1
      <4> QED
        BY <2>1, <2>2, <2>4, <3>2, <4>1, <4>2 DEF SoundInv
    <3>5. CASE nth = 5
      <4>1. mpc' = IF goal = "otg.bin" THEN "info" ELSE "install"
        BY <1>3, <2>1, <3>3, <3>5 DEF Stamp
      <4> QED
        BY <2>1, <2>2, <2>4, <3>2, <3>5, <4>1 DEF SoundInv
    <3> QED
      BY <2>1, <3>4, <3>5
  <2> QED
    BY <2>3, <2>4
<1>4. CASE Info
  <2>1. UNCHANGED <<tmp, files, goal, nth>> /\ mpc = "info" /\ mpc' \in {"install", "idle"}
        /\ (mpc' = "install" => InfoIsClean(tmp))
    BY <1>4 DEF Info
  <2>2. BuiltIsSound' /\ DummyIsSound'
    BY <2>1 DEF SoundInv, BuiltIsSound, DummyIsSound
  <2> QED
    BY <2>1, <2>2 DEF SoundInv
<1>5. CASE Install
  <2>1. /\ files' = [files EXCEPT ![goal] = tmp] /\ mpc = "install" /\ mpc' = "idle" /\ goal' = goal
        /\ files = [t \in Targets |-> files[t]] /\ goal \in Targets
    BY <1>5 DEF Install, BuildInv
  <2>2. \A t \in Targets : files'[t] = IF t = goal THEN tmp ELSE files[t]
    BY <2>1
  <2>3. goal # "otg_stage2.bin" =>
            /\ StartsAsLinked(tmp) /\ HeaderGood(tmp) /\ S1Good(tmp)
            /\ InfoIsClean(tmp) => L32(tmp, S2Offset(tmp)) = Magic /\ L32(tmp, S2Offset(tmp) + 3) = Op("b")
    BY <2>1, InstallSound DEF BuiltInv, SoundInv
  <2>4. goal = "otg.bin" => InfoIsClean(tmp)
    BY <2>1 DEF SoundInv
  <2>5. BuiltIsSound'
    <3>1. CASE goal = "otg.bin"
      <4>1. files'["otg.bin"] = tmp
        BY <2>2, <3>1 DEF Targets
      <4>2. S2Good(tmp)
        BY <2>4, <3>1 DEF InfoIsClean
      <4> QED
        BY <2>3, <2>4, <3>1, <4>1, <4>2 DEF BuiltIsSound
    <3>2. CASE goal # "otg.bin"
      <4>1. files'["otg.bin"] = files["otg.bin"]
        BY <2>2, <3>2 DEF Targets
      <4> QED
        BY <4>1 DEF BuiltIsSound, SoundInv
    <3> QED
      BY <3>1, <3>2
  <2>6. DummyIsSound'
    <3>1. CASE goal = "otg_dummy.bin"
      <4>1. files'["otg_dummy.bin"] = tmp
        BY <2>2, <3>1 DEF Targets
      <4> QED
        BY <2>3, <3>1, <4>1 DEF DummyIsSound
    <3>2. CASE goal # "otg_dummy.bin"
      <4>1. files'["otg_dummy.bin"] = files["otg_dummy.bin"]
        BY <2>2, <3>2 DEF Targets
      <4> QED
        BY <4>1 DEF DummyIsSound, SoundInv
    <3> QED
      BY <3>1, <3>2
  <2>7. files'["otg_stage2.bin"] # None => Kinds(files'["otg_stage2.bin"], 0)
    BY <2>1, <2>2 DEF SoundInv, OneMagic, Targets
  <2> QED
    BY <2>1, <2>5, <2>6, <2>7 DEF SoundInv
<1>6. CASE KillMake
  BY <1>6 DEF KillMake, SoundInv, BuiltIsSound, DummyIsSound
<1> QED
  BY <1>1, <1>2, <1>3, <1>4, <1>5, <1>6 DEF Make

-----------------------------------------------------------------------------
(* The steps of set.                                                        *)

LEMMA NoneLaid == ASSUME NEW f, Laid(f) PROVE f # None
BY Words DEF Laid, IsFile, None

\* What a write that keeps an image laid out does to the runs' parameters.
LEMMA SettableSame ==
    ASSUME NEW f, NEW g, KnownExt(g) = KnownExt(f), NEW p, Settable(f, p)
    PROVE  Settable(g, p)
BY DEF Settable

\* A field, as any write that a run makes to it.
LEMMA MidLaid ==
    ASSUME NEW f, Laid(f), NEW p, Settable(f, p), NEW v, v # Magic
    PROVE  /\ Laid(Mid(f, p, v)) /\ KnownExt(Mid(f, p, v)) = KnownExt(f)
           /\ SameEntries(f, Mid(f, p, v))
<1>1. Target(f, p) \in Nat
  BY TargetIs
<1>2. \/ Target(f, p) \in {9, 10, 12, 14, 15}
      \/ \E i \in KnownExt(f) : Target(f, p) = Offset(f, i)
  BY TargetIs, Fields DEF Settable
<1> QED
  BY <1>1, <1>2, LaidWrite DEF Mid

LEMMA TakeExact ==
    ASSUME IInv, ExactInv, NEW f \in Factory \union {files["otg.bin"]}, mpc = "idle", Take(f)
    PROVE  ExactInv'
<1> USE DEF Take, ExactInv
<1>1. Laid(f)
  BY FactoryAssumption DEF BuiltInv
<1>2. BuiltInv'
  BY DEF BuiltInv, Targets
<1>3. \A r \in Runs : spc[r] = "off"
  BY DEF IInv, SetInv, RunInv
<1>4. LaidInv' /\ AloneInv'
  BY <1>1, <1>3 DEF LaidInv, AloneInv, runVars
<1> QED
  BY <1>2, <1>4 DEF runVars

LEMMA BeginExact ==
    ASSUME IInv, ExactInv, NEW r \in Runs, NEW p \in MacParams \union VpdParams,
           NEW v, v # Magic, Begin(r, p, v)
    PROVE  LaidInv' /\ AloneInv' /\ before' = [s \in Runs |-> before'[s]]
<1> USE DEF Begin, ExactInv
<1>1. Settable(img, p) /\ Laid(img)
  BY DEF Refuses, Settable, LaidInv
<1>2. /\ param' = [s \in Runs |-> IF s = r THEN p ELSE param[s]]
      /\ value' = [s \in Runs |-> IF s = r THEN v ELSE value[s]]
      /\ spc' = [s \in Runs |-> IF s = r THEN "value" ELSE spc[s]]
      /\ good' = [s \in Runs |-> IF s = r THEN L32(img, CrcOffset(p)) = SectionCrc(img, p)
                                          ELSE good[s]]
  BY DEF IInv, SetInv, Shape
<1>3. LaidInv'
  BY <1>1, <1>2 DEF LaidInv
<1>4. ASSUME NEW s \in Runs, spc'[s] # "off", before'[s] # None
      PROVE  DoneInv(s)' /\ \A t \in Runs : t # s => spc'[t] = "off"
  <2>1. s = r /\ Idle = Runs /\ before'[r] = img
    BY <1>4
  <2>2. \A t \in Runs : t # s => spc'[t] = "off"
    BY <1>2, <2>1 DEF Idle
  <2>3. DoneInv(s)'
    BY <1>1, <1>2, <2>1 DEF DoneInv
  <2> QED
    BY <2>2, <2>3
<1>5. AloneInv'
  BY <1>4 DEF AloneInv
<1> QED
  BY <1>3, <1>5

LEMMA WriteValueExact ==
    ASSUME IInv, ExactInv, NEW r \in Runs, WriteValue(r)
    PROVE  LaidInv' /\ AloneInv'
<1> USE DEF WriteValue, ExactInv
<1>1. img' = Mid(img, param[r], value[r]) /\ img # None
  BY DEF Mid, IInv, SetInv, RunInv
<1>2. Laid(img) /\ Settable(img, param[r]) /\ value[r] # Magic
  BY <1>1 DEF LaidInv
<1>3. Laid(img') /\ KnownExt(img') = KnownExt(img)
  BY <1>1, <1>2, MidLaid
<1>4. spc' = [s \in Runs |-> IF s = r THEN "sum" ELSE spc[s]]
  BY DEF IInv, SetInv, Shape
<1>5. LaidInv'
  BY <1>3, <1>4, SettableSame DEF LaidInv
<1>6. ASSUME NEW s \in Runs, spc'[s] # "off", before'[s] # None
      PROVE  DoneInv(s)' /\ \A t \in Runs : t # s => spc'[t] = "off"
  <2>1. DoneInv(s) /\ \A t \in Runs : t # s => spc[t] = "off"
    BY <1>4, <1>6 DEF AloneInv
  <2>2. s = r
    BY <2>1
  <2>3. DoneInv(s)'
    BY <1>1, <1>4, <2>1, <2>2 DEF DoneInv
  <2> QED
    BY <1>4, <2>1, <2>2, <2>3
<1>7. AloneInv'
  BY <1>6 DEF AloneInv
<1> QED
  BY <1>5, <1>7

LEMMA SumExact ==
    ASSUME IInv, ExactInv, NEW r \in Runs, SumSection(r)
    PROVE  LaidInv' /\ AloneInv'
<1> USE DEF SumSection, ExactInv
<1> DEFINE sums == Touches(param[r]) /\ good[r]
<1>1. /\ spc' = [s \in Runs |-> IF s = r THEN IF sums THEN "crc" ELSE "done" ELSE spc[s]]
      /\ crc' = [s \in Runs |-> IF s = r /\ sums THEN SectionCrc(img, param[r]) ELSE crc[s]]
      /\ UNCHANGED <<img, param, value, good, before>>
  BY DEF IInv, SetInv, Shape
<1>2. LaidInv'
  BY <1>1 DEF LaidInv
<1>3. ASSUME NEW s \in Runs, spc'[s] # "off", before'[s] # None
      PROVE  DoneInv(s)' /\ \A t \in Runs : t # s => spc'[t] = "off"
  <2>1. DoneInv(s) /\ \A t \in Runs : t # s => spc[t] = "off"
    BY <1>1, <1>3 DEF AloneInv
  <2>2. s = r
    BY <2>1
  <2>3. img = Mid(before[r], param[r], value[r])
    BY <2>1, <2>2 DEF DoneInv
  <2>4. CASE sums
    BY <1>1, <2>1, <2>2, <2>3, <2>4 DEF DoneInv
  <2>5. CASE ~sums
    <3>1. img = After(before[r], param[r], value[r], good[r])
      BY <2>3, <2>5 DEF After
    <3> QED
      BY <1>1, <2>1, <2>2, <2>5, <3>1 DEF DoneInv
  <2> QED
    BY <2>4, <2>5
<1>4. AloneInv'
  BY <1>3 DEF AloneInv
<1> QED
  BY <1>2, <1>4

LEMMA WriteCrcExact ==
    ASSUME IInv, ExactInv, NEW r \in Runs, WriteCrc(r)
    PROVE  LaidInv' /\ AloneInv'
<1> USE DEF WriteCrc, ExactInv
<1>1. img # None /\ Laid(img) /\ Settable(img, param[r])
  BY DEF LaidInv, IInv, SetInv, RunInv
<1>2. CrcOffset(param[r]) \in {11, 16}
  BY <1>1, Fields DEF Settable
<1>3. Laid(img') /\ KnownExt(img') = KnownExt(img)
  <2>1. CrcOffset(param[r]) \in Nat /\ CrcOffset(param[r]) \in {7, 8, 9, 10, 11, 12, 13, 14, 15, 16}
    BY <1>2
  <2>2. img' = PWrite(img, CrcOffset(param[r]), crc[r])
    OBVIOUS
  <2> QED
    BY <1>1, <2>1, <2>2, LaidWrite
<1>4. spc' = [s \in Runs |-> IF s = r THEN "done" ELSE spc[s]]
  BY DEF IInv, SetInv, Shape
<1>5. LaidInv'
  BY <1>3, <1>4, SettableSame DEF LaidInv
<1>6. ASSUME NEW s \in Runs, spc'[s] # "off", before'[s] # None
      PROVE  DoneInv(s)' /\ \A t \in Runs : t # s => spc'[t] = "off"
  <2>1. DoneInv(s) /\ \A t \in Runs : t # s => spc[t] = "off"
    BY <1>4, <1>6 DEF AloneInv
  <2>2. s = r
    BY <2>1
  <2>3. img' = After(before[r], param[r], value[r], good[r])
    BY <2>1, <2>2 DEF DoneInv, After
  <2>4. DoneInv(s)'
    BY <1>4, <2>1, <2>2, <2>3 DEF DoneInv
  <2> QED
    BY <1>4, <2>1, <2>2, <2>4
<1>7. AloneInv'
  BY <1>6 DEF AloneInv
<1> QED
  BY <1>5, <1>7

LEMMA EndExact ==
    ASSUME IInv, ExactInv, NEW r \in Runs, End(r)
    PROVE  LaidInv' /\ AloneInv' /\ before' = [s \in Runs |-> before'[s]]
<1> USE DEF End, Forget, ExactInv
<1>1. /\ spc' = [s \in Runs |-> IF s = r THEN "off" ELSE spc[s]]
      /\ img' = img /\ \A s \in Runs : s # r =>
            /\ param'[s] = param[s] /\ value'[s] = value[s] /\ good'[s] = good[s]
            /\ crc'[s] = crc[s] /\ before'[s] = before[s]
  BY DEF IInv, SetInv, Shape
<1>2. LaidInv'
  BY <1>1 DEF LaidInv
<1>3. AloneInv'
  BY <1>1 DEF AloneInv
<1> QED
  BY <1>2, <1>3

LEMMA DamageExact ==
    ASSUME IInv, ExactInv, NEW o \in Fragile, Damage(o)
    PROVE  LaidInv' /\ AloneInv'
<1> USE DEF Damage, ExactInv, runVars
<1>1. o \in {7, 8, 9, 10, 11, 12, 13, 14, 15, 16} /\ o \in Nat
  BY SetAssumption, Offsets
<1>2. Laid(img')
  BY <1>1, LaidWrite DEF LaidInv
<1>3. \A r \in Runs : spc'[r] = "off"
  BY DEF Idle
<1> QED
  BY <1>2, <1>3 DEF LaidInv, AloneInv

LEMMA ExactInit == Init => ExactInv
<1> SUFFICES ASSUME Init PROVE ExactInv
  OBVIOUS
<1>1. BuiltInv
  BY DEF Init, BuildInit, BuiltInv, Targets
<1>2. LaidInv /\ AloneInv /\ before = [r \in Runs |-> before[r]]
  BY DEF Init, SetInit, LaidInv, AloneInv
<1> QED
  BY <1>1, <1>2 DEF ExactInv

LEMMA ExactStep == IInv /\ ExactInv /\ [Next]_vars => ExactInv'
<1> SUFFICES ASSUME IInv, ExactInv, [Next]_vars PROVE ExactInv'
  OBVIOUS
<1> DEFINE Rest == LaidInv /\ AloneInv /\ before = [r \in Runs |-> before[r]]
<1>1. CASE img = None /\ Make /\ UNCHANGED setVars
  <2>1. BuiltInv'
    BY <1>1, BuiltStep DEF IInv, ExactInv
  <2>2. LaidInv' /\ AloneInv' /\ before' = [r \in Runs |-> before'[r]]
    BY <1>1 DEF ExactInv, LaidInv, AloneInv, DoneInv, setVars, runVars
  <2> QED
    BY <2>1, <2>2 DEF ExactInv
<1>2. ASSUME NEW f \in Factory \union {files["otg.bin"]}, mpc = "idle", Take(f)
      PROVE  ExactInv'
  BY <1>2, TakeExact
<1>3. ASSUME UNCHANGED buildVars PROVE BuiltInv'
  BY <1>3 DEF ExactInv, BuiltInv, buildVars
<1>4. ASSUME NEW r \in Runs, NEW p \in MacParams, NEW m, Begin(r, p, Mac(m))
      PROVE  Rest'
  BY <1>4, NotMagic, BeginExact
<1>5. ASSUME NEW r \in Runs, NEW p \in VpdParams, NEW v, Begin(r, p, Vpd(v))
      PROVE  Rest'
  BY <1>5, NotMagic, BeginExact
<1>6. ASSUME NEW r \in Runs, WriteValue(r) \/ SumSection(r) \/ WriteCrc(r)
      PROVE  Rest'
  <2>1. before' = before
    BY <1>6 DEF WriteValue, SumSection, WriteCrc
  <2> QED
    BY <1>6, <2>1, WriteValueExact, SumExact, WriteCrcExact DEF ExactInv
<1>7. ASSUME NEW r \in Runs, End(r) PROVE Rest'
  BY <1>7, EndExact
<1>8. ASSUME NEW o \in Fragile, Damage(o) PROVE Rest'
  <2>1. before' = before
    BY <1>8 DEF Damage, runVars
  <2> QED
    BY <1>8, <2>1, DamageExact DEF ExactInv
<1>9. CASE UNCHANGED vars
  <2>1. LaidInv' /\ AloneInv' /\ before' = [r \in Runs |-> before'[r]]
    BY <1>9 DEF ExactInv, LaidInv, AloneInv, DoneInv, vars, setVars, runVars
  <2> QED
    BY <1>3, <1>9, <2>1 DEF ExactInv, vars
<1> QED
  BY <1>1, <1>2, <1>3, <1>4, <1>5, <1>6, <1>7, <1>8, <1>9 DEF Next, ExactInv

-----------------------------------------------------------------------------
\* What After is, in one statement.
LEMMA AfterIsExact ==
    ASSUME NEW old, Laid(old), NEW p, Settable(old, p), NEW v, v # Magic,
           NEW g, g = (L32(old, CrcOffset(p)) = SectionCrc(old, p)),
           NEW f, f = After(old, p, v, g)
    PROVE  /\ \A i \in DOMAIN f :
                  i - 1 # Target(old, p) /\ (i - 1 # CrcOffset(p) \/ ~Touches(p) \/ ~g)
                      => f[i] = old[i]
           /\ L32(f, Target(old, p)) = v
           /\ L32(old, MFR_CRC) = MfrCrc(old) => L32(f, MFR_CRC) = MfrCrc(f)
           /\ L32(old, MFR2_CRC) = Mfr2Crc(old) => L32(f, MFR2_CRC) = Mfr2Crc(f)
           /\ InfoIsClean(old) => InfoIsClean(f)
<1> DEFINE at == Target(old, p)
           h  == After(old, p, v, g)
<1>1. /\ IsFile(h) /\ Len(h) = Len(old) /\ L32(h, at) = v
      /\ \A j \in Int : j # at /\ (j # CrcOffset(p) \/ ~Touches(p) \/ ~g) => L32(h, j) = L32(old, j)
  BY ReadAfter
<1>2. /\ L32(old, MFR_CRC) = MfrCrc(old) => L32(h, MFR_CRC) = MfrCrc(h)
      /\ L32(old, MFR2_CRC) = Mfr2Crc(old) => L32(h, MFR2_CRC) = Mfr2Crc(h)
  BY SumsAfter
<1>3. InfoIsClean(old) => InfoIsClean(h)
  BY InfoAfter
<1> HIDE DEF at, h
<1>4. ASSUME NEW i \in DOMAIN h, i - 1 # at, i - 1 # CrcOffset(p) \/ ~Touches(p) \/ ~g
      PROVE  h[i] = old[i]
  <2>1. i \in 1..Len(h) /\ i \in DOMAIN old
    BY <1>1 DEF IsFile, Laid
  <2>2. L32(h, i - 1) = L32(old, i - 1)
    BY <1>1, <1>4, <2>1
  <2>3. L32(h, i - 1) = h[i] /\ L32(old, i - 1) = old[i]
    BY <2>1 DEF L32
  <2> QED
    BY <2>2, <2>3
<1>5. f = h
  BY DEF h
<1> QED
  BY <1>1, <1>2, <1>3, <1>4, <1>5 DEF at

(* A run of set that overlaps no other changes its field and the CRC over   *)
(* it, and otgimg info says what it said before (otgimg.c:790-826).         *)
THEOREM Exact == Spec => []SetIsExact
<1>1. ExactInv => SetIsExact
  <2> SUFFICES ASSUME ExactInv, NEW r \in Runs, spc[r] = "done", before[r] # None
               PROVE  LET old == before[r]
                          at  == Target(old, param[r])
                          sum == IF Touches(param[r]) /\ good[r] THEN {CrcOffset(param[r])} ELSE {}
                      IN  /\ \A i \in DOMAIN img : i - 1 \notin {at} \union sum => img[i] = old[i]
                          /\ L32(img, at) = value[r]
                          /\ L32(old, MFR_CRC) = MfrCrc(old) => L32(img, MFR_CRC) = MfrCrc(img)
                          /\ L32(old, MFR2_CRC) = Mfr2Crc(old) => L32(img, MFR2_CRC) = Mfr2Crc(img)
                          /\ InfoIsClean(old) => InfoIsClean(img)
    BY DEF SetIsExact
  <2>1. /\ Laid(before[r]) /\ Settable(before[r], param[r]) /\ value[r] # Magic
        /\ good[r] = (L32(before[r], CrcOffset(param[r])) = SectionCrc(before[r], param[r]))
        /\ img = After(before[r], param[r], value[r], good[r])
    BY DEF ExactInv, AloneInv, DoneInv, LaidInv
  <2> DEFINE old == before[r]
             p   == param[r]
             v   == value[r]
             g   == good[r]
  <2>3. /\ Laid(old) /\ Settable(old, p) /\ v # Magic /\ img = After(old, p, v, g)
        /\ g = (L32(old, CrcOffset(p)) = SectionCrc(old, p))
    BY <2>1
  <2> HIDE DEF old, p, v, g
  <2>4. /\ \A i \in DOMAIN img :
               i - 1 # Target(old, p) /\ (i - 1 # CrcOffset(p) \/ ~Touches(p) \/ ~g)
                   => img[i] = old[i]
        /\ L32(img, Target(old, p)) = v
        /\ L32(old, MFR_CRC) = MfrCrc(old) => L32(img, MFR_CRC) = MfrCrc(img)
        /\ L32(old, MFR2_CRC) = Mfr2Crc(old) => L32(img, MFR2_CRC) = Mfr2Crc(img)
        /\ InfoIsClean(old) => InfoIsClean(img)
    BY <2>3, AfterIsExact
  <2> QED
    BY <2>4 DEF old, p, v, g
<1> QED
  BY IInvInit, IInvStep, ExactInit, ExactStep, <1>1, PTL DEF Spec

-----------------------------------------------------------------------------
LEMMA SoundNext == IInv /\ ExactInv /\ SoundInv /\ [Next]_vars => SoundInv'
<1> SUFFICES ASSUME IInv, ExactInv, SoundInv, [Next]_vars PROVE SoundInv'
  OBVIOUS
<1>1. CASE Make
  BY <1>1, SoundStep DEF IInv, ExactInv
<1>2. ASSUME NEW f, mpc = "idle", Take(f) PROVE SoundInv'
  BY <1>2 DEF Take, SoundInv, BuiltIsSound, DummyIsSound, Targets
<1>3. CASE UNCHANGED buildVars
  BY <1>3 DEF buildVars, SoundInv, BuiltIsSound, DummyIsSound
<1> QED
  BY <1>1, <1>2, <1>3 DEF Next, vars

(* However the linker pads and wherever make is killed, an installed otg.bin *)
(* starts, has stage 2 where stage 1 ends and all its CRCs right            *)
(* (s1stamp.c:47-85, Makefile).                                             *)
THEOREM Built == Spec => []BuiltIsSound
<1>1. Init => SoundInv
  BY SoundInit DEF Init
<1>2. SoundInv => BuiltIsSound
  BY DEF SoundInv
<1> QED
  BY IInvInit, IInvStep, ExactInit, ExactStep, SoundNext, <1>1, <1>2, PTL DEF Spec

(* So does otg_dummy.bin, though nobody but s1stamp has looked at it.        *)
THEOREM Dummy == Spec => []DummyIsSound
<1>1. Init => SoundInv
  BY SoundInit DEF Init
<1>2. SoundInv => DummyIsSound
  BY DEF SoundInv
<1> QED
  BY IInvInit, IInvStep, ExactInit, ExactStep, SoundNext, <1>1, <1>2, PTL DEF Spec

=============================================================================
