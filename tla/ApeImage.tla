------------------------------ MODULE ApeImage ------------------------------
(***************************************************************************)
(* The tools that make and read APE images: apestamp compresses and sums    *)
(* the sections of what the linker has put out, apebyteswap turns the words *)
(* of an image round in place, byteswap turns those of any file into        *)
(* another, and apeimg says what is wrong with an image and extracts its    *)
(* sections.  Any of them may be killed at any point.                       *)
(*                                                                          *)
(* A file is a sequence of words: the header, the words of the sections,    *)
(* the filler and the trailing CRC, each of the four counted as one word of *)
(* W bytes.  A word of a section has its bytes, any other what it stands    *)
(* for and whether it has been turned.  A CRC is what it is the CRC of.     *)
(***************************************************************************)
EXTENDS Lzss, FiniteSets

CONSTANTS
    W,            \* bytes in a word, 4 in the code
    NumSections,  \* sections of an image, 4
    Checks,       \* what apestamp checks of a header before it opens its output
    Images,       \* what the linker may put out
    Garbage       \* what uninitialised memory may hold

\* A header has flags and lengths of the sections.
ASSUME ImageAssumption ==
    /\ W \in Nat \ {0} /\ NumSections \in Nat /\ Garbage \subseteq Nat
    /\ \A m \in Images :
        /\ m.body \in Seq(Char) /\ DOMAIN m.sections = 1..Len(m.sections)
        /\ \A i \in DOMAIN m.sections :
            LET x == m.sections[i] IN
            /\ DOMAIN x = {"zero", "comp", "crc32", "offset", "usize", "csize", "sum"}
            /\ x.zero \in {0, 1} /\ {x.offset, x.usize} \subseteq Nat

VARIABLES
    img,        \* what the linker has put out
    file,       \* its output, which the other tools work on
    tool,       \* what is running, and where it is
    sec,        \* apestamp: the section it is at
    hdr,        \* the sections of the header it will write
    body,       \* the sections it has written
    lz,         \* the compressor
    k,          \* apebyteswap: the word it is at
    whole       \* history: the output of the last apestamp that has ended

vars == <<img, file, tool, sec, hdr, body, lz, k, whole>>

Placeholder == <<"DEADBEEF">>
Zero  == << >>
NoLz  == [out |-> << >>]
HdrSum(sections) == <<sections>>
CRC(f) == <<"crc", f, 0>>

SwapEndian32(w) == IF w[1] = "code" THEN <<"code", Reverse(w[2]), 0>> ELSE <<w[1], w[2], 1 - w[3]>>
SwapAll(f) == [i \in DOMAIN f |-> SwapEndian32(f[i])]

\* What the linker puts out: the sections one behind the other, the last of them
\* with the placeholder of the trailing CRC at its end, and a BSS without contents.
Raw(offset, usize) ==
    [zero |-> 0, comp |-> 0, crc32 |-> 1, offset |-> offset, usize |-> usize, csize |-> 0,
     sum |-> Placeholder]
Bss(offset, usize) == [Raw(offset, usize) EXCEPT !.zero = 1, !.crc32 = 0, !.sum = Zero]
Linked(contents, bss) ==
    LET end(i) == W + Len(FlattenSeq(SubSeq(contents, 1, i)))
    IN  [right |-> Checks, body |-> FlattenSeq(contents),
         sections |-> Append([i \in DOMAIN contents |-> Raw(end(i - 1), Len(contents[i]))],
                             Bss(end(Len(contents)), bss))]

\* The section i of the linker's output.
Content(m, i) == SubSeq(m.body, m.sections[i].offset - W + 1,
                        m.sections[i].offset - W + m.sections[i].usize)

\* A program ends, or is killed.
Exit == tool' = "idle" /\ sec' = 1 /\ hdr' = << >> /\ body' = << >> /\ lz' = NoLz /\ k' = 1

-----------------------------------------------------------------------------
(* apestamp.                                                               *)

\* Where the section i has to be, if there is no gap.
Start(m, i) ==
    LET at[j \in 1..i] ==
            IF j = 1 THEN W
            ELSE at[j - 1] + IF m.sections[j - 1].zero = 1 THEN 0 ELSE m.sections[j - 1].usize
    IN  at[i]

SectionFits(m, i) ==
    LET x == m.sections[i] IN
    IF x.zero = 1 THEN x.comp = 0 /\ x.csize = 0 /\ x.sum = Zero /\ x.crc32 = 0
    ELSE /\ x.comp = 0 /\ x.csize = 0 /\ x.offset = Start(m, i)
         /\ x.usize % W = 0 /\ x.offset + x.usize <= W + Len(m.body)

\* What it checks before it opens its output.
HeaderFits(m) ==
    /\ m.right = Checks /\ Len(m.sections) = NumSections
    /\ \A i \in 1..NumSections : m.sections[i].zero = 1 \/ m.sections[i].sum = Placeholder

\* The output is emptied before the sections are checked.
Stamp ==
    /\ tool = "idle"
    /\ IF ~HeaderFits(img) THEN UNCHANGED <<file, whole, tool, hdr, sec, body, lz, k>>
       ELSE /\ file' = << >> /\ whole' = << >>
            /\ IF \A i \in 1..NumSections : SectionFits(img, i)
               THEN tool' = "section" /\ hdr' = img.sections /\ UNCHANGED <<sec, body, lz, k>>
               ELSE Exit
    /\ UNCHANGED img

\* The header, or the next section: one that is zeroed at boot or is empty is
\* not compressed.
Section ==
    /\ tool = "section"
    /\ IF sec > NumSections THEN tool' = "header" /\ UNCHANGED <<sec, hdr, lz>>
       ELSE IF hdr[sec].zero = 1
       THEN tool' = "section" /\ sec' = sec + 1 /\ hdr' = [hdr EXCEPT ![sec].offset = 0] /\ UNCHANGED lz
       ELSE /\ IF Content(img, sec) = << >> THEN lz' = NoLz /\ tool' = "verify"
               ELSE /\ \E g \in [Unset(Content(img, sec)) -> Garbage] : lz' = Compress(Content(img, sec), g)
                    /\ tool' = "fill"
            /\ UNCHANGED <<sec, hdr>>
    /\ UNCHANGED <<img, file, body, k, whole>>

FillSection ==
    /\ tool = "fill"
    /\ \E way \in {Way(lz, ToFill(lz))} :
        lz' = [InsertNode(lz, ToFill(lz), way) EXCEPT !.todo = @ - 1]
    /\ tool' = IF lz.todo = 1 THEN "code" ELSE "fill"
    /\ UNCHANGED <<img, file, sec, hdr, body, k, whole>>

CodeSection ==
    /\ tool = "code"
    /\ lz' = Code(lz)
    /\ tool' = "move"
    /\ UNCHANGED <<img, file, sec, hdr, body, k, whole>>

MoveSection ==
    /\ tool = "move"
    /\ \E z \in {Move(lz, Content(img, sec))} :
        /\ IF z.len = 0 THEN lz' = Finish(z)
           ELSE \E way \in {Way(z, z.r)} : lz' = InsertNode(z, z.r, way)
        /\ tool' = IF z.todo > 0 THEN "move" ELSE IF z.len > 0 THEN "code" ELSE "verify"
    /\ UNCHANGED <<img, file, sec, hdr, body, k, whole>>

\* Faulty variant: it ends where the compressor does.
PaddedNot(code) == code

Padded(code) == code \o [i \in 1..(W - (Len(code) % W)) % W |-> 0]

\* What was written is read back.  A section that is not what it was ends it.
Verify ==
    /\ tool = "verify"
    /\ LET code == Padded(lz.out)
           was  == Content(img, sec)
       IN  IF Decompress(code, Len(was)) = was
           THEN /\ hdr' = [hdr EXCEPT ![sec] =
                      [@ EXCEPT !.offset = W + Len(body), !.comp = 1, !.crc32 = 1,
                                !.csize = Len(code), !.sum = was]]
                /\ body' = body \o code /\ sec' = sec + 1 /\ tool' = "section" /\ lz' = NoLz
                /\ UNCHANGED k
           ELSE Exit
    /\ UNCHANGED <<img, file, whole>>

\* Until here the file begins with a hole, and nothing takes it: an empty file
\* stands for it.
WriteHeader ==
    /\ tool = "header"
    /\ file' = << <<"hdr", [sections |-> hdr, sum |-> HdrSum(hdr)], 0>> >>
               \o [i \in 1..Len(body) \div W |-> <<"code", SubSeq(body, W * (i - 1) + 1, W * i), 0>>]
    /\ tool' = "filler"
    /\ UNCHANGED <<img, sec, hdr, body, lz, k, whole>>

WriteFiller ==
    /\ tool = "filler"
    /\ file' = Append(file, <<"filler", 0, 0>>)
    /\ tool' = "tail"
    /\ UNCHANGED <<img, sec, hdr, body, lz, k, whole>>

WriteTail ==
    /\ tool = "tail"
    /\ file' = Append(file, CRC(file)) /\ whole' = file'
    /\ Exit
    /\ UNCHANGED img

-----------------------------------------------------------------------------
(* apebyteswap and byteswap.                                               *)

SwapAccepts(f) == f # << >> /\ CRC(Front(f)) = Last(f)

StartSwap ==
    /\ tool = "idle" /\ SwapAccepts(file)
    /\ tool' = "swap" /\ k' = 1
    /\ UNCHANGED <<img, file, sec, hdr, body, lz, whole>>

\* Faulty variant: the CRC is kept right all the time.
SwapWordAndSum ==
    /\ tool = "swap" /\ k < Len(file)
    /\ LET f == [Front(file) EXCEPT ![k] = SwapEndian32(@)] IN file' = Append(f, CRC(f))
    /\ k' = k + 1
    /\ UNCHANGED <<img, tool, sec, hdr, body, lz, whole>>

SwapWord ==
    /\ tool = "swap" /\ k < Len(file)
    /\ file' = [file EXCEPT ![k] = SwapEndian32(@)]
    /\ k' = k + 1
    /\ UNCHANGED <<img, tool, sec, hdr, body, lz, whole>>

EndSwap ==
    /\ tool = "swap" /\ k = Len(file)
    /\ file' = [file EXCEPT ![k] = CRC(Front(file))]
    /\ Exit
    /\ UNCHANGED <<img, whole>>

\* byteswap puts out another file, which takes the place of the one it has read; killed
\* before its end it leaves the first words of it, or none.
ByteSwap ==
    /\ tool = "idle" /\ file # << >>
    /\ \E n \in 0..Len(file) : file' = SubSeq(SwapAll(file), 1, n)
    /\ UNCHANGED <<img, tool, sec, hdr, body, lz, k, whole>>

Kill ==
    /\ tool # "idle"
    /\ Exit
    /\ UNCHANGED <<img, file, whole>>

-----------------------------------------------------------------------------
(* apeimg, of images that apestamp has written.                            *)

\* _OpenImage takes it.  What the commands do with a file that it does not is
\* undefined: it returns 1, and they take only what is negative for a failure.
OpenImage(f) == f # << >> /\ f[1][1] = "hdr" /\ f[1][3] = 0

\* The bytes that follow the header.
Bytes(f) == FlattenSeq([i \in 1..Len(f)-1 |->
                IF f[i+1][1] = "code" THEN f[i+1][2] ELSE [j \in 1..W |-> 0]])

Extract(f, i) ==
    LET x == f[1][2].sections[i] IN
    IF x.zero = 1 THEN [j \in 1..x.usize |-> 0]
    ELSE IF x.offset + x.csize > W * Len(f) THEN << >>
    ELSE Decompress(SubSeq(Bytes(f), x.offset - W + 1, x.offset - W + x.csize), x.usize)

Info(f) ==
    LET h    == f[1][2]
        used == {i \in DOMAIN h.sections : h.sections[i].zero = 0}
        tail == CRC(Front(f)) = Last(f)
        back == CRC(SwapAll(Front(f))) = SwapEndian32(Last(f))
        hwm  == Max({W} \union {h.sections[i].offset + h.sections[i].csize : i \in used})
    IN  {d \in {"crc", "crcswap", "slack"} :
            \/ d = "crc" /\ \/ h.sum # Zero /\ h.sum # HdrSum(h.sections)
                            \/ ~tail /\ ~back
                            \/ \E i \in used : Extract(f, i) # h.sections[i].sum
            \/ d = "crcswap" /\ ~tail /\ back
            \/ d = "slack" /\ (W * Len(f)) - W - hwm # W}

-----------------------------------------------------------------------------
Init ==
    /\ img \in Images /\ file = << >> /\ tool = "idle" /\ sec = 1 /\ hdr = << >>
    /\ body = << >> /\ lz = NoLz /\ k = 1 /\ whole = << >>

Run == Section \/ FillSection \/ CodeSection \/ MoveSection \/ Verify \/ WriteHeader \/ WriteFiller \/ WriteTail
       \/ SwapWord \/ EndSwap

Next == Stamp \/ StartSwap \/ ByteSwap \/ Run \/ Kill

\* A program that runs goes on running.
Spec == Init /\ [][Next]_vars /\ WF_vars(Run)

-----------------------------------------------------------------------------
Tools == {"idle", "section", "fill", "code", "move", "verify", "header", "filler", "tail", "swap"}

TypeOK ==
    /\ img \in Images /\ tool \in Tools /\ sec \in 1..NumSections+1 /\ k \in 1..Len(file)+1
    /\ tool \in {"code", "move"} =>
        /\ lz.matchLen \in 0..F /\ lz.matchPos \in 0..N-1 /\ lz.r = (lz.s + N - F) % N
        /\ lz.len \in 0..F /\ lz.todo \in 0..F /\ lz.mask \in 0..Group-1
        /\ \A x \in 0..N-1 : lz.lson[x] \in 0..N /\ lz.rson[x] \in 0..N
        /\ \A i \in 1..Len(lz.buf) : lz.buf[i] \in 0..Low-1
    /\ \A i \in 1..Len(body) : body[i] \in 0..Low-1

\* What has been coded stands for what has been read and is not ahead any more,
\* no more and no less (apestamp.c:178-247).
RoundTrip ==
    tool = "code" =>
        Decompress(lz.out \o (IF lz.mask = 0 THEN << >> ELSE lz.buf), Len(Content(img, sec)) + F)
            = SubSeq(Content(img, sec), 1, lz.next - lz.len)

\* The match is one, and no string in the window agrees with what is ahead in more
\* bytes: none that begins in what has been read, and none that begins in the spaces
\* while the first of the strings of spaces that were put in (169-176) is there.  Of
\* these the one put in last stands for all that equal it, and although "the old one
\* will be deleted sooner" (apestamp.c:34-38) it is the first to be deleted.
MatchIsLongest ==
    tool = "code" =>
        /\ \A d \in 1..N-F :
            LET p == (lz.r + N - d) % N IN
            d <= lz.next - lz.len \/ lz.next - lz.len <= N - 2 * F =>
                \E i \in 0..lz.matchLen : i < F => lz.dict[p + i] # lz.dict[lz.r + i]
        /\ \A i \in 0..lz.matchLen-1 : lz.dict[lz.matchPos + i] = lz.dict[lz.r + i]

\* An image as apebyteswap leaves it.
Turned(f) == Append(SwapAll(Front(f)), CRC(SwapAll(Front(f))))

\* apeimg finds an image that apestamp has finished without defects, as the build
\* requires (Makefile:114), and its sections are the linker's.  It finds a defect
\* in any other file that it opens: one that was not finished, that is turned in part,
\* or that has lost its end to a byteswap that was killed; in one that apebyteswap has
\* turned and byteswap has turned back it finds "crcswap" (apeimg.c:62-259).
InfoTells ==
    tool = "idle" /\ OpenImage(file) =>
        /\ (Info(file) = {}) <=> (file = whole)
        /\ file = whole => \A i \in 1..NumSections :
                img.sections[i].zero = 1 \/ Extract(file, i) = Content(img, i)
        /\ whole # << >> /\ file = SwapAll(Turned(whole)) => Info(file) = {"crcswap"}

\* apebyteswap takes an image as it was stamped, or one that it has turned as a
\* whole, and nothing that it has left half done (apebyteswap.c:28-40).
SwapIsSafe ==
    tool = "idle" /\ SwapAccepts(file) => file \in {whole, Turned(whole)}

\* apestamp and apebyteswap come to an end.
ToolsEnd == tool # "idle" ~> tool = "idle"

=============================================================================
