------------------------------ MODULE OtgImage ------------------------------
(***************************************************************************)
(* The flash image of the RX CPU: its layout (otg.h), what `otgimg info'   *)
(* says of it and how the tools read and write it.                         *)
(*                                                                         *)
(* An image is a sequence of words.  A word is a pair of a kind and a      *)
(* value; a field, or a run of bytes that nothing here tells apart, is one *)
(* word, so that the header is 17 words long.  A CRC, or the directory's   *)
(* sum of bytes, is the data it was computed over: two of them are equal   *)
(* exactly if their data are.                                              *)
(***************************************************************************)
EXTENDS Integers, Sequences

None      == << >>                  \* no file
Zero      == <<"zero", 0>>
Num(n)    == <<"num", n>>
Nop       == Zero
Op(i)     == <<"op", i>>
Magic     == <<"magic", 0>>         \* HEADER_MAGIC
Deadbeef  == <<"deadbeef", 0>>      \* the placeholder for a CRC
Junk      == <<"junk", 0>>          \* what a damaged word holds
Mac(m)    == <<"mac", m>>
Vpd(v)    == <<"vpd", v>>
Entry(type, size, offset) == <<"entry", <<type, size, offset>>>>

\* otg_header, as offsets in words.
MAGIC     == 0
S1_ENTRY  == 1
S1_SIZE   == 2
S1_OFFSET == 3
BOOT_CRC  == 4
DIR       == 5..6
DIR_CRC   == 7      \* begins the manufacturing section
MFR_LEN   == 8
MAC0      == 9
MAC1      == 10
MFR_CRC   == 11
VPD       == 12
MFR2_LEN  == 13
MAC2      == 14
MAC3      == 15
MFR2_CRC  == 16
HEADER    == 17

S1_ENTRYPOINT == 100        \* 0x08003800

L32(f, offset)       == IF offset + 1 \in DOMAIN f THEN f[offset + 1] ELSE Zero
PWrite(f, offset, w) == [f EXCEPT ![offset + 1] = w]

\* ComputeCRC over the n words from offset.
Crc(f, offset, n) == <<"crc", [i \in 0..n-1 |-> L32(f, offset + i)]>>

\* What each check word of the header covers.
BootCrc(f) == Crc(f, MAGIC, BOOT_CRC)
DirSum(f)  == Crc(f, 5, DIR_CRC - 5)
MfrCrc(f)  == Crc(f, DIR_CRC, MFR_CRC - DIR_CRC)
Mfr2Crc(f) == Crc(f, MFR2_LEN, MFR2_CRC - MFR2_LEN)

\* Stage 1 is followed by stage 2: its magic number, its size and its code,
\* whose last word is a CRC.
S1Offset(f) == L32(f, S1_OFFSET)[2]
S1Size(f)   == L32(f, S1_SIZE)[2]
S2Offset(f) == S1Offset(f) + S1Size(f)
S1CrcAt(f)  == S2Offset(f) - 1
S1Crc(f)    == Crc(f, S1Offset(f), S1Size(f) - 1)
S2Size(f)   == L32(f, S2Offset(f) + 1)[2]
S2CrcAt(f)  == S2Offset(f) + 2 + S2Size(f) - 1
S2Crc(f)    == Crc(f, S2Offset(f) + 2, S2Size(f) - 1)

\* An image no word of which is damaged, nor was when a CRC was taken of it.
Clean(w)      == w # Junk /\ (w[1] = "crc" => \A i \in DOMAIN w[2] : w[2][i] # Junk)
IsFile(f)     == Len(f) \in Nat /\ f = [i \in 1..Len(f) |-> f[i]]
CleanFile(f)  == IsFile(f) /\ \A i \in 1..Len(f) : Clean(f[i])

-----------------------------------------------------------------------------
(* otgimg info.                                                            *)

\* The stage 2 header counts only if as many headers as it has bytes fit into
\* the file after it (otgimg.c:424 adds to a typed pointer), here S2_PROBE
\* words, and if its size, to which the header is not added, does.
S2_PROBE == 4
S2Present(f) ==
    /\ S2Offset(f) + S2_PROBE <= Len(f)
    /\ L32(f, S2Offset(f)) = Magic
    /\ S2Offset(f) + S2Size(f) <= Len(f)

HeaderGood(f) ==
    /\ L32(f, BOOT_CRC) = BootCrc(f)
    /\ L32(f, DIR_CRC) = DirSum(f)
    /\ L32(f, MFR_CRC) = MfrCrc(f)
    /\ L32(f, MFR2_CRC) = Mfr2Crc(f)
S1Good(f) == L32(f, S1CrcAt(f)) = S1Crc(f)
S2Good(f) == L32(f, S2CrcAt(f)) = S2Crc(f)

\* The extended VPD that info shows is in the last directory entry for one that
\* has a size.
Type(f, i)   == L32(f, i)[2][1]
Size(f, i)   == L32(f, i)[2][2]
Offset(f, i) == L32(f, i)[2][3]
ShownExt(f)  == {i \in DIR : Type(f, i) = "extVPD" /\ Size(f, i) # 0}
ShownEntry(f) == CHOOSE i \in ShownExt(f) : \A j \in ShownExt(f) : j <= i
ExtVpd(f)    == L32(f, Offset(f, ShownEntry(f)))

\* Past the end of the file info returns at once, without its last word on the
\* image.
ExtInFile(f) == ShownExt(f) # {} => Offset(f, ShownEntry(f)) < Len(f)

\* The one that set writes: the first entry for one that has an offset.
KnownExt(f)  == {i \in DIR : Type(f, i) = "extVPD" /\ Offset(f, i) # 0}

\* Faulty variant: the last of them.
ExtEntryLast(f) == CHOOSE i \in KnownExt(f) : \A j \in KnownExt(f) : j <= i

ExtEntry(f)  == CHOOSE i \in KnownExt(f) : \A j \in KnownExt(f) : i <= j

\* "Defects: none".  The verdict on the VPD is not part of it (otgimg.c:581).
InfoIsClean(f) ==
    /\ Len(f) >= HEADER /\ L32(f, MAGIC) = Magic
    /\ HeaderGood(f) /\ S1Good(f)
    /\ S2Present(f) /\ S2Good(f)
    /\ ExtInFile(f)

=============================================================================
