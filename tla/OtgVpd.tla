------------------------------- MODULE OtgVpd -------------------------------
(***************************************************************************)
(* The VPD blocks of an image, byte by byte: what a block in the format of *)
(* the PCI specification looks like, how `otgimg info' scans one, and what *)
(* it shows of an image's two blocks.                                      *)
(*                                                                         *)
(* The scanner's terminating zeros that fall behind its buffer, as those   *)
(* of the padding after a block without end do, are taken to hit nothing   *)
(* that is used.                                                           *)
(***************************************************************************)
EXTENDS OtgSet, SequencesExt

CONSTANTS
    Contents,   \* what the VPD with a given name contains
    UNIT        \* bytes in a unit of a VPD's size and of the room for it

-----------------------------------------------------------------------------
(* The format: an identifier, a read-only area that ends with a checksum   *)
(* and zeros to fill it up, a read-write area and an end tag.              *)

PN == <<80, 78>>
SN == <<83, 78>>
RV == <<82, 86>>
RW == <<82, 87>>
YA == <<89, 65>>
TextKeywords == {PN, SN, YA}

Blank(n)        == [i \in 1..n |-> 0]
Field(kw, data) == kw \o <<Len(data)>> \o data
FieldsOf(seq)   == FlattenSeq([i \in DOMAIN seq |-> Field(seq[i].kw, seq[i].data)])
Large(tag, b)   == <<128 + tag, Len(b) % 256, Len(b) \div 256>> \o b
Sum8(b) ==
    LET sum[i \in 0..Len(b)] == IF i = 0 THEN 0 ELSE (sum[i-1] + b[i]) % 256
    IN  sum[Len(b)]

\* The checksum makes the sum of all bytes up to its own zero.
Block(v) ==
    LET ro(ck) == FieldsOf(v.ro) \o Field(RV, <<ck>> \o Blank(v.fill))
        head   == Large(2, v.id) \o SubSeq(Large(16, ro(0)), 1, 3 + Len(ro(0)) - v.fill)
    IN  Large(2, v.id) \o Large(16, ro((256 - Sum8(head)) % 256))
        \o Large(17, FieldsOf(v.rw)) \o (IF v.ended THEN <<120>> ELSE << >>)

\* What a reader of the block wants to see.
Text(x) == IF x.kw \in TextKeywords THEN x.data ELSE << >>
Lines(v) ==
    LET show(seq) == [i \in DOMAIN seq |-> <<seq[i].kw, Text(seq[i])>>]
    IN  <<<<"id", v.id>>>> \o show(v.ro) \o <<<<RV, << >>>>>> \o show(v.rw)

\* Contents that fit the format: every length in the bytes there are for it, no
\* zero in a text, and nothing empty where info would terminate a string through
\* a null pointer.
Byte == 0..255
Area(fields) ==
    /\ fields \in Seq([kw : Byte \X Byte, data : Seq(Byte)])
    /\ \A i \in DOMAIN fields :
          /\ Len(fields[i].data) \in Byte
          /\ i = 1 => fields[i].data # << >>
          /\ \A j \in DOMAIN Text(fields[i]) : Text(fields[i])[j] # 0
Short(n) == n < 65536
Fits(v) ==
    /\ v.id \in Seq(1..255) /\ v.id # << >> /\ Short(Len(v.id))
    /\ v.fill \in 0..254 /\ v.ended \in BOOLEAN
    /\ Area(v.ro) /\ Short(Len(FieldsOf(v.ro)) + 4 + v.fill)
    /\ Area(v.rw) /\ Short(Len(FieldsOf(v.rw)))

ASSUME VpdAssumption ==
    /\ UNIT \in Nat \ {0}
    /\ \A v \in Vpds :
          /\ v.size \in Nat \ {0} /\ Fits(Contents[v.name])
          /\ Len(Block(Contents[v.name])) <= v.size * UNIT

-----------------------------------------------------------------------------
(* The scanner.                                                            *)

\* Faulty variant: the loop ends with the bytes, before the last field is shown.
ScanShort(b) ==
    LET scan[p \in 1..Len(b) + 1] ==
            IF p + 2 > Len(b) THEN << >>
            ELSE LET last == p + 2 + b[p + 2] IN
                 IF last >= Len(b) THEN << >>
                 ELSE <<[kw |-> <<b[p], b[p + 1]>>, data |-> SubSeq(b, p + 3, last),
                         after |-> last]>> \o scan[last + 1]
    IN  scan[1]

\* _DumpVPDInner: the fields from the p-th byte on.  `after' is the offset of
\* the byte behind a field's data.
Scan(b) ==
    LET scan[p \in 1..Len(b) + 1] ==
            IF p + 2 > Len(b) THEN << >>
            ELSE LET last == p + 2 + b[p + 2] IN
                 IF last > Len(b) THEN << >>
                 ELSE <<[kw |-> <<b[p], b[p + 1]>>, data |-> SubSeq(b, p + 3, last),
                         after |-> last]>> \o scan[last + 1]
    IN  scan[1]

\* _DumpVPD: the resources, up to the end tag.
END_TAG == 15
Resources(b) ==
    LET scan[p \in 1..Len(b) + 1] ==
            IF p > Len(b) \/ (b[p] >= 128 /\ p + 2 > Len(b)) THEN << >>
            ELSE LET large == b[p] >= 128
                     type  == IF large THEN b[p] - 128 ELSE b[p] \div 8
                     len   == IF large THEN b[p + 1] + 256 * b[p + 2] ELSE b[p] % 8
                     first == IF large THEN p + 3 ELSE p + 1
                 IN  IF first + len - 1 > Len(b) THEN << >>
                     ELSE <<[type |-> type, large |-> large,
                             data |-> SubSeq(b, first, first + len - 1)]>>
                          \o (IF type = END_TAG THEN << >> ELSE scan[first + len])
    IN  scan[1]

\* Nothing is allocated before there is data: an empty large resource that no
\* data precede, or an empty field at the beginning of an area, is terminated
\* through a null pointer.
NullWrite(r, i) ==
    \/ r[i].large /\ \A j \in 1..i : r[j].data = << >>
    \/ /\ r[i].type \in {16, 17}
       /\ Scan(r[i].data) # << >> /\ Scan(r[i].data)[1].data = << >>

\* What is printed is a string, up to its first zero.
AsString(data) ==
    LET zeros == {i \in DOMAIN data : data[i] = 0}
    IN  IF zeros = {} THEN data ELSE SubSeq(data, 1, Min(zeros) - 1)

Printed(x) ==
    CASE x.type = 2 -> <<<<"id", AsString(x.data)>>>>
      [] x.type \in {16, 17} ->
            LET fields == Scan(x.data)
            IN  [i \in DOMAIN fields |->
                    <<fields[i].kw, IF fields[i].kw \in TextKeywords
                                    THEN AsString(fields[i].data) ELSE << >>>>]
      [] OTHER -> << >>

\* The last RV field of a read-only area says how much is summed, by its offset
\* in that area but from the beginning of the block.
ChecksumIsOff(b, r) ==
    LET places == {x.after : x \in {y \in UNION {ToSet(Scan(r[i].data)) :
                        i \in {j \in DOMAIN r : r[j].type = 16}} : y.kw = RV}}
    IN  places # {} /\ Sum8(SubSeq(b, 1, Max(places) + 1)) # 0

DumpVPD(b) ==
    LET r    == Resources(b)
        dies == {i \in DOMAIN r : NullWrite(r, i)}
        ends == r # << >> /\ Last(r).type = END_TAG
        seen == IF dies = {} THEN r ELSE SubSeq(r, 1, Min(dies) - 1)
    IN  [lines  |-> FlattenSeq([i \in DOMAIN seen |-> Printed(seen[i])]),
         result |-> CASE dies # {} -> "crash"
                      [] dies = {} /\ (~ends \/ ChecksumIsOff(b, r)) -> "fault"
                      [] OTHER -> "ok"]

\* The bytes of a VPD word of the image: set writes all of the region, in which
\* zeros follow the block.
Bytes(w, room) ==
    LET b == Block(Contents[w[2].name]) IN b \o Blank(room * UNIT - Len(b))

\* The blocks that info shows.  One that it finds fault with keeps it from the
\* next (otgimg.c:549), as does a region past the end of the file.
StdVpd(f)     == DumpVPD(Bytes(L32(f, VPD), 1))
ReachesExt(f) == ShownExt(f) # {} /\ ExtInFile(f) /\ StdVpd(f).result = "ok"
InfoExtVpd(f) == DumpVPD(Bytes(ExtVpd(f), Size(f, ShownEntry(f))))

-----------------------------------------------------------------------------
\* "The data is copied to the extended VPD region if present; otherwise it is
\* copied to the standard VPD region": after `set vpd' info shows the lines of
\* that VPD, in the extended region only if it has found no fault with the
\* standard block first.  Its verdict is right on a block whose checksum is
\* followed by enough zeros, and on one that has no end.  But set takes the
\* first directory entry that has an offset, info the last one that has a size:
\* where these are two regions, info goes on showing what it showed before.
InfoShowsVpd ==
    \A r \in Runs : spc[r] = "done" /\ before[r] # None /\ param[r] = "vpd" =>
        LET old   == before[r]
            first == Min(KnownExt(old))
            last  == Max(ShownExt(old))
            set   == Contents[value[r][2].name]
            shows(dump) ==
                /\ dump.lines = Lines(set)
                /\ set.ended /\ set.fill >= Len(set.id) + 5 => dump.result = "ok"
                /\ ~set.ended => dump.result = "fault"
        IN  IF KnownExt(old) = {} THEN shows(StdVpd(img))
            ELSE /\ last = first /\ ReachesExt(img) => shows(InfoExtVpd(img))
                 /\ Offset(old, last) # Offset(old, first) => ExtVpd(img) = ExtVpd(old)

=============================================================================
