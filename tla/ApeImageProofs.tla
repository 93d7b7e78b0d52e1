--------------------------- MODULE ApeImageProofs ---------------------------
(***************************************************************************)
(* What apestamp, apebyteswap and apeimg do with images, for all constants: *)
(* the compressor's state is the one that LzssProofs reasons about, so what *)
(* is read back is the section; apebyteswap takes only whole images; and    *)
(* apeimg tells a finished image from any other file.                       *)
(***************************************************************************)
EXTENDS ApeImage, LzssProofs

\* A sequence.
IsSeq(s) == Len(s) \in Nat /\ s = [i \in 1..Len(s) |-> s[i]]

\* A word of a file, and a file.
IsWord(w) ==
    /\ w = <<w[1], w[2], w[3]>>
    /\ w[1] = "code" => w[3] = 0 /\ IsSeq(w[2])
    /\ w[1] # "code" => w[3] \in {0, 1}

IsFile(f) == IsSeq(f) /\ \A i \in 1..Len(f) : IsWord(f[i])

\* A file that has no CRC: it is not finished, or its end is missing.
NoCrc(f) == IsFile(f) /\ \A i \in 1..Len(f) : f[i][1] # "crc"

\* A finished image, in either order of bytes.
IsImage(f) ==
    /\ IsFile(f) /\ Len(f) >= 2
    /\ f[1][1] = "hdr" /\ f[Len(f)] = CRC(Front(f))

\* The image f when apebyteswap is at word n.
Half(f, n) == [i \in 1..Len(f) |-> IF i < n THEN SwapEndian32(f[i]) ELSE f[i]]

\* The image in both orders of bytes, and what apebyteswap may leave of it.
Bases  == {whole, Turned(whole)}
Halves == {Half(f, n) : f \in Bases, n \in 1..Len(whole)}

-----------------------------------------------------------------------------
(* Sequences.                                                               *)

\* A sequence, without a set of what it may have.
LEMMA SeqIs == ASSUME NEW s, IsSeq(s) PROVE s \in Seq({s[i] : i \in 1..Len(s)})
BY DEF IsSeq

\* The other way round.
LEMMA SeqInSeq == ASSUME NEW S, NEW s \in Seq(S) PROVE IsSeq(s)
<1>1. Len(s) \in Nat /\ s \in [1..Len(s) -> S]
  OBVIOUS
<1> QED
  BY <1>1 DEF IsSeq

\* Front, word by word.
LEMMA FrontIs ==
    ASSUME NEW f, IsSeq(f), Len(f) >= 1
    PROVE  Front(f) = [i \in 1..Len(f)-1 |-> f[i]]
<1> DEFINE S == {f[i] : i \in 1..Len(f)}
<1>1. f \in Seq(S) /\ Len(f) \in Nat
  BY SeqIs DEF IsSeq
<1> HIDE DEF S
<1> QED
  BY <1>1 DEF Front

\* Append, word by word.
LEMMA AppendIs ==
    ASSUME NEW f, IsSeq(f), NEW w
    PROVE  /\ IsSeq(Append(f, w)) /\ Len(Append(f, w)) = Len(f) + 1
           /\ Append(f, w) = [i \in 1..Len(f)+1 |-> IF i <= Len(f) THEN f[i] ELSE w]
<1> DEFINE S == {f[i] : i \in 1..Len(f)} \union {w}
<1>1. f \in Seq(S) /\ w \in S
  BY DEF IsSeq
<1> HIDE DEF S
<1>2. Append(f, w) \in Seq(S) /\ Len(Append(f, w)) = Len(f) + 1
  BY <1>1
<1>3. IsSeq(Append(f, w))
  BY <1>2, SeqInSeq
<1>4. \A i \in 1..Len(f)+1 : Append(f, w)[i] = IF i <= Len(f) THEN f[i] ELSE w
  BY <1>1
<1>5. Append(f, w) = [i \in 1..Len(f)+1 |-> Append(f, w)[i]]
  BY <1>2, <1>3 DEF IsSeq
<1>6. Append(f, w) = [i \in 1..Len(f)+1 |-> IF i <= Len(f) THEN f[i] ELSE w]
  BY <1>4, <1>5
<1> QED
  BY <1>2, <1>3, <1>6

-----------------------------------------------------------------------------
(* Words and files.                                                         *)

\* What is reversed twice is as it was.
LEMMA ReverseTwice == ASSUME NEW s, IsSeq(s) PROVE IsSeq(Reverse(s)) /\ Reverse(Reverse(s)) = s
<1> DEFINE t == Reverse(s)
<1>1. t = [i \in 1..Len(s) |-> s[(Len(s) - i) + 1]] /\ Len(s) \in Nat
  BY DEF Reverse, IsSeq
<1>2. Len(t) = Len(s) /\ IsSeq(t)
  BY <1>1 DEF IsSeq
<1>3. Reverse(t) = [i \in 1..Len(s) |-> t[(Len(s) - i) + 1]]
  BY <1>2 DEF Reverse
<1> HIDE DEF t
<1>4. Reverse(t) = [i \in 1..Len(s) |-> s[i]]
  BY <1>1, <1>3
<1>5. Reverse(t) = s
  BY <1>4 DEF IsSeq
<1> QED
  BY <1>2, <1>5 DEF t

\* A word is turned back when it is turned again; only code may be as it was.
LEMMA SwapWordTwice ==
    ASSUME NEW w, IsWord(w)
    PROVE  /\ IsWord(SwapEndian32(w)) /\ SwapEndian32(w)[1] = w[1]
           /\ SwapEndian32(SwapEndian32(w)) = w
           /\ w[1] # "code" => SwapEndian32(w)[3] # w[3]
<1>1. CASE w[1] = "code"
  BY <1>1, ReverseTwice DEF IsWord, SwapEndian32
<1>2. CASE w[1] # "code"
  BY <1>2 DEF IsWord, SwapEndian32
<1> QED
  BY <1>1, <1>2

\* SwapAll, word by word.
LEMMA SwapAllIs ==
    ASSUME NEW f, IsFile(f)
    PROVE  /\ SwapAll(f) = [i \in 1..Len(f) |-> SwapEndian32(f[i])]
           /\ IsFile(SwapAll(f)) /\ Len(SwapAll(f)) = Len(f) /\ SwapAll(SwapAll(f)) = f
<1>1. SwapAll(f) = [i \in 1..Len(f) |-> SwapEndian32(f[i])] /\ Len(f) \in Nat
  BY DEF SwapAll, IsFile, IsSeq
<1>2. Len(SwapAll(f)) = Len(f) /\ IsSeq(SwapAll(f))
  BY <1>1 DEF IsSeq
<1>3. IsFile(SwapAll(f))
  BY <1>1, <1>2, SwapWordTwice DEF IsFile
<1>4. SwapAll(SwapAll(f)) = [i \in 1..Len(f) |-> SwapEndian32(SwapEndian32(f[i]))]
  BY <1>1 DEF SwapAll
<1>5. SwapAll(SwapAll(f)) = [i \in 1..Len(f) |-> f[i]]
  BY <1>4, SwapWordTwice DEF IsFile
<1> QED
  BY <1>1, <1>2, <1>3, <1>5 DEF IsFile, IsSeq

\* A CRC is a word, and says what it is the CRC of.
LEMMA CrcWord ==
    \A f : IsWord(CRC(f)) /\ CRC(f)[1] = "crc" /\ CRC(f)[2] = f /\ CRC(f)[3] = 0
BY DEF CRC, IsWord

\* A file without its last word.
LEMMA FrontFile ==
    ASSUME NEW f, IsFile(f), Len(f) >= 1
    PROVE  /\ IsFile(Front(f)) /\ Len(Front(f)) = Len(f) - 1
           /\ Front(f) = [i \in 1..Len(f)-1 |-> f[i]]
<1>1. Front(f) = [i \in 1..Len(f)-1 |-> f[i]] /\ Len(f) - 1 \in Nat
  BY FrontIs DEF IsFile, IsSeq
<1> QED
  BY <1>1 DEF IsFile, IsSeq

\* A file with a word more.
LEMMA AppendFile ==
    ASSUME NEW f, IsFile(f), NEW w, IsWord(w)
    PROVE  /\ IsFile(Append(f, w)) /\ Len(Append(f, w)) = Len(f) + 1
           /\ Append(f, w) = [i \in 1..Len(f)+1 |-> IF i <= Len(f) THEN f[i] ELSE w]
<1>1. /\ IsSeq(Append(f, w)) /\ Len(Append(f, w)) = Len(f) + 1
      /\ Append(f, w) = [i \in 1..Len(f)+1 |-> IF i <= Len(f) THEN f[i] ELSE w]
  BY AppendIs DEF IsFile
<1> HIDE DEF IsFile
<1>2. \A i \in 1..Len(f)+1 : IsWord(Append(f, w)[i])
  BY <1>1 DEF IsFile, IsSeq
<1> QED
  BY <1>1, <1>2 DEF IsFile

\* All of a file is the file.
LEMMA AllOf == ASSUME NEW f, IsFile(f) PROVE SubSeq(f, 1, Len(f)) = f
<1> DEFINE S == {f[i] : i \in 1..Len(f)}
<1>1. f \in Seq(S) /\ Len(f) \in Nat /\ f = [i \in 1..Len(f) |-> f[i]]
  BY SeqIs DEF IsFile, IsSeq
<1> HIDE DEF S
<1>2. SubSeq(f, 1, Len(f)) = [i \in 1..Len(f) |-> f[i]]
  BY <1>1
<1> QED
  BY <1>1, <1>2

\* The first words of a file, turned, have a CRC only if those words have.
LEMMA TornFile ==
    ASSUME NEW f, IsFile(f), NEW n \in 0..Len(f), \A i \in 1..n : f[i][1] # "crc"
    PROVE  NoCrc(SubSeq(SwapAll(f), 1, n))
<1> DEFINE g == SwapAll(f)
           S == {g[i] : i \in 1..Len(g)}
           t == SubSeq(g, 1, n)
<1>1. /\ IsFile(g) /\ Len(g) = Len(f) /\ Len(f) \in Nat
      /\ \A i \in 1..Len(f) : g[i] = SwapEndian32(f[i])
  <2>1. /\ IsFile(g) /\ Len(g) = Len(f) /\ g = [i \in 1..Len(f) |-> SwapEndian32(f[i])]
    BY SwapAllIs
  <2>2. \A i \in 1..Len(f) : g[i] = SwapEndian32(f[i])
    BY <2>1
  <2> HIDE DEF g
  <2> QED
    BY <2>1, <2>2 DEF IsFile, IsSeq
<1> HIDE DEF g
<1>2. g \in Seq(S)
  BY <1>1, SeqIs DEF IsFile
<1> HIDE DEF S
<1>3. n \in Nat /\ n <= Len(g)
  BY <1>1
<1>4. t \in Seq(S) /\ Len(t) = n /\ \A i \in 1..n : t[i] = g[i]
  BY <1>2, <1>3
<1>5. IsSeq(t)
  BY <1>4, SeqInSeq
<1> HIDE DEF t
<1>6. ASSUME NEW i \in 1..n PROVE IsWord(t[i]) /\ t[i][1] # "crc"
  <2>1. i \in 1..Len(f) /\ IsWord(f[i]) /\ f[i][1] # "crc"
    BY <1>1, <1>3 DEF IsFile
  <2>2. IsWord(SwapEndian32(f[i])) /\ SwapEndian32(f[i])[1] = f[i][1]
    BY <2>1, SwapWordTwice
  <2> QED
    BY <1>1, <1>4, <2>1, <2>2
<1>7. NoCrc(t)
  BY <1>4, <1>5, <1>6 DEF NoCrc, IsFile
<1> QED
  BY <1>7 DEF g, t

\* The last word of a file that has no CRC.
LEMMA NoCrcAtEnd ==
    ASSUME NEW f, NoCrc(f), f # << >>
    PROVE  Last(f) = f[Len(f)] /\ IsWord(Last(f)) /\ Last(f)[1] # "crc" /\ ~SwapAccepts(f)
<1>1. Len(f) \in 1..Len(f)
  BY DEF NoCrc, IsFile, IsSeq
<1>2. Last(f) = f[Len(f)] /\ IsWord(Last(f)) /\ Last(f)[1] # "crc"
  BY <1>1 DEF NoCrc, IsFile, Last
<1> QED
  BY <1>2, CrcWord DEF SwapAccepts

-----------------------------------------------------------------------------
(* Images that are turned in part.                                          *)

\* A turned image is an image, and is turned back when it is turned again.
LEMMA TurnedImage ==
    ASSUME NEW f, IsImage(f)
    PROVE  /\ IsImage(Turned(f)) /\ Len(Turned(f)) = Len(f)
           /\ Front(Turned(f)) = SwapAll(Front(f)) /\ Turned(Turned(f)) = f
<1> DEFINE g == Front(f)
           h == SwapAll(g)
<1>1. IsFile(f) /\ Len(f) \in Nat /\ Len(f) >= 2 /\ Len(f) >= 1
  BY DEF IsImage, IsFile, IsSeq
<1>2. IsFile(g) /\ Len(g) = Len(f) - 1 /\ g = [i \in 1..Len(f)-1 |-> f[i]]
  BY <1>1, FrontFile
<1>3. /\ IsFile(h) /\ Len(h) = Len(f) - 1 /\ SwapAll(h) = g
      /\ h = [i \in 1..Len(f)-1 |-> SwapEndian32(g[i])]
  BY <1>2, SwapAllIs
<1>4. f[1][1] = "hdr" /\ f[Len(f)] = CRC(g)
  BY DEF IsImage
<1> HIDE DEF g, h
<1>5. /\ IsFile(Append(h, CRC(h))) /\ Len(Append(h, CRC(h))) = Len(f)
      /\ Append(h, CRC(h)) = [i \in 1..Len(f) |-> IF i <= Len(f) - 1 THEN h[i] ELSE CRC(h)]
  BY <1>1, <1>3, CrcWord, AppendFile
<1>6. Front(Append(h, CRC(h))) = h
  <2>1. Front(Append(h, CRC(h))) = [i \in 1..Len(f)-1 |-> Append(h, CRC(h))[i]]
    BY <1>1, <1>5, FrontFile
  <2>2. h = [i \in 1..Len(f)-1 |-> h[i]]
    BY <1>3 DEF IsFile, IsSeq
  <2>3. ASSUME NEW i \in 1..Len(f)-1 PROVE Append(h, CRC(h))[i] = h[i]
    <3>1. i \in 1..Len(f) /\ i <= Len(f) - 1
      BY <1>1
    <3> QED
      BY <1>5, <3>1
  <2> QED
    BY <2>1, <2>2, <2>3
<1>7. Append(h, CRC(h))[1][1] = "hdr"
  <2>1. IsWord(g[1]) /\ g[1] = f[1] /\ h[1] = SwapEndian32(g[1]) /\ Append(h, CRC(h))[1] = h[1]
    BY <1>1, <1>2, <1>3, <1>5 DEF IsFile
  <2> QED
    BY <1>4, <2>1, SwapWordTwice
<1>8. Append(h, CRC(h))[Len(f)] = CRC(h)
  <2>1. Len(f) \in 1..Len(f) /\ ~(Len(f) <= Len(f) - 1)
    BY <1>1
  <2> QED
    BY <1>5, <2>1
<1>9. Turned(f) = Append(h, CRC(h))
  BY DEF Turned, g, h
<1>10. Append(g, CRC(g)) = f
  <2>1. Append(g, CRC(g)) = [i \in 1..Len(f) |-> IF i <= Len(f) - 1 THEN g[i] ELSE CRC(g)]
    BY <1>1, <1>2, CrcWord, AppendFile
  <2>2. \A i \in 1..Len(f) : (IF i <= Len(f) - 1 THEN g[i] ELSE CRC(g)) = f[i]
    BY <1>1, <1>2, <1>4
  <2>3. f = [i \in 1..Len(f) |-> f[i]]
    BY <1>1 DEF IsFile, IsSeq
  <2> QED
    BY <2>1, <2>2, <2>3
<1>11. Turned(Turned(f)) = Append(g, CRC(g))
  BY <1>3, <1>6, <1>9 DEF Turned
<1> QED
  BY <1>1, <1>5, <1>6, <1>7, <1>8, <1>9, <1>10, <1>11 DEF IsImage, h, g

\* A file that is turned in part is one, and has the same length.
LEMMA HalfFile ==
    ASSUME NEW f, IsFile(f), NEW n \in 1..Len(f)
    PROVE  /\ IsFile(Half(f, n)) /\ Len(Half(f, n)) = Len(f)
           /\ \A i \in 1..Len(f) : Half(f, n)[i] = IF i < n THEN SwapEndian32(f[i]) ELSE f[i]
           /\ Half(f, 1) = f
<1>1. Len(f) \in Nat /\ f = [i \in 1..Len(f) |-> f[i]] /\ \A i \in 1..Len(f) : IsWord(f[i])
  BY DEF IsFile, IsSeq
<1>2. Len(Half(f, n)) = Len(f) /\ IsSeq(Half(f, n))
  BY <1>1 DEF Half, IsSeq
<1>3. \A i \in 1..Len(f) : Half(f, n)[i] = IF i < n THEN SwapEndian32(f[i]) ELSE f[i]
  BY DEF Half
<1>4. IsFile(Half(f, n))
  BY <1>1, <1>2, <1>3, SwapWordTwice DEF IsFile
<1>5. Half(f, 1) = [i \in 1..Len(f) |-> f[i]]
  BY <1>1 DEF Half
<1> QED
  BY <1>1, <1>2, <1>3, <1>4, <1>5

\* apebyteswap turns the next word.
LEMMA HalfNext ==
    ASSUME NEW f, IsFile(f), NEW n \in 1..Len(f), n < Len(f)
    PROVE  [Half(f, n) EXCEPT ![n] = SwapEndian32(@)] = Half(f, n + 1)
<1> DEFINE g == [Half(f, n) EXCEPT ![n] = SwapEndian32(@)]
<1>1. Len(f) \in Nat
  BY DEF IsFile, IsSeq
<1>2. g = [i \in 1..Len(f) |-> IF i = n THEN SwapEndian32(Half(f, n)[n]) ELSE Half(f, n)[i]]
  BY DEF Half
<1>3. \A i \in 1..Len(f) : Half(f, n)[i] = IF i < n THEN SwapEndian32(f[i]) ELSE f[i]
  BY DEF Half
<1>4. \A i \in 1..Len(f) :
        (IF i = n THEN SwapEndian32(Half(f, n)[n]) ELSE Half(f, n)[i])
            = (IF i < n + 1 THEN SwapEndian32(f[i]) ELSE f[i])
  BY <1>1, <1>3
<1> QED
  BY <1>2, <1>4 DEF Half

\* It ends with the CRC of what it has turned.
LEMMA HalfEnd ==
    ASSUME NEW f, IsImage(f), NEW g, g = Half(f, Len(f))
    PROVE  [g EXCEPT ![Len(f)] = CRC(Front(g))] = Turned(f)
<1>1. IsFile(f) /\ Len(f) \in Nat /\ Len(f) >= 2 /\ Len(f) >= 1
  BY DEF IsImage, IsFile, IsSeq
<1>2. /\ IsFile(g) /\ Len(g) = Len(f)
      /\ \A i \in 1..Len(f) : g[i] = IF i < Len(f) THEN SwapEndian32(f[i]) ELSE f[i]
  BY <1>1, HalfFile DEF IsFile, IsSeq
<1>3. Front(g) = SwapAll(Front(f))
  <2>1. Front(g) = [i \in 1..Len(f)-1 |-> g[i]]
    BY <1>1, <1>2, FrontFile
  <2>2. /\ Front(f) = [i \in 1..Len(f)-1 |-> f[i]]
        /\ SwapAll(Front(f)) = [i \in 1..Len(f)-1 |-> SwapEndian32(Front(f)[i])]
    BY <1>1, FrontFile, SwapAllIs
  <2> QED
    BY <1>1, <1>2, <2>1, <2>2
<1>4. IsFile(SwapAll(Front(f))) /\ Len(SwapAll(Front(f))) = Len(f) - 1
  BY <1>1, FrontFile, SwapAllIs
<1>5. Turned(f) = [i \in 1..Len(f) |-> IF i <= Len(f) - 1 THEN SwapAll(Front(f))[i]
                                       ELSE CRC(SwapAll(Front(f)))]
  BY <1>1, <1>4, CrcWord, AppendFile DEF Turned
<1>6. \A i \in 1..Len(f)-1 : g[i] = SwapAll(Front(f))[i]
  BY <1>1, <1>2, <1>3, FrontFile
<1>7. [g EXCEPT ![Len(f)] = CRC(Front(g))]
        = [i \in 1..Len(f) |-> IF i = Len(f) THEN CRC(Front(g)) ELSE g[i]]
  BY <1>1, <1>2 DEF IsFile, IsSeq
<1> QED
  BY <1>1, <1>3, <1>5, <1>6, <1>7

\* The CRC tells an image from one that is turned in part.
LEMMA HalfRefused ==
    ASSUME NEW f, IsImage(f), NEW n \in 1..Len(f)
    PROVE  /\ SwapAccepts(Half(f, n)) => n = 1
           /\ ~SwapAccepts(SwapAll(Half(f, n)))
<1> DEFINE g == Half(f, n)
<1>1. IsFile(f) /\ Len(f) \in Nat /\ Len(f) >= 2 /\ f[1][1] = "hdr" /\ f[Len(f)] = CRC(Front(f))
  BY DEF IsImage, IsFile, IsSeq
<1>2. /\ IsFile(g) /\ Len(g) = Len(f)
      /\ \A i \in 1..Len(f) : g[i] = IF i < n THEN SwapEndian32(f[i]) ELSE f[i]
  BY <1>1, HalfFile
<1> HIDE DEF g
<1>3. g[Len(f)] = CRC(Front(f))
  BY <1>1, <1>2
<1>4. ASSUME SwapAccepts(g) PROVE n = 1
  <2>1. CRC(Front(g)) = CRC(Front(f))
    BY <1>2, <1>3, <1>4 DEF SwapAccepts, Last
  <2>2. Front(g) = Front(f)
    BY <2>1, CrcWord
  <2>3. g[1] = f[1]
    BY <1>1, <1>2, <2>2, FrontFile
  <2>4. IsWord(f[1]) /\ f[1][1] # "code"
    BY <1>1 DEF IsFile
  <2>5. SwapEndian32(f[1]) # f[1]
    BY <2>4, SwapWordTwice
  <2> QED
    BY <1>1, <1>2, <2>3, <2>5
<1>5. ASSUME SwapAccepts(SwapAll(g)) PROVE FALSE
  <2>1. Len(SwapAll(g)) = Len(f) /\ SwapAll(g)[Len(f)] = SwapEndian32(g[Len(f)])
    BY <1>1, <1>2, SwapAllIs
  <2>2. CRC(Front(SwapAll(g))) = SwapEndian32(CRC(Front(f)))
    BY <1>3, <1>5, <2>1 DEF SwapAccepts, Last
  <2>3. SwapEndian32(CRC(Front(f)))[3] # CRC(Front(f))[3]
    BY CrcWord, SwapWordTwice
  <2> QED
    BY <2>2, <2>3, CrcWord
<1> QED
  BY <1>4, <1>5 DEF g

\* apestamp finds nothing wrong with it.
Fits(m) == HeaderFits(m) /\ \A i \in 1..NumSections : SectionFits(m, i)

\* What is assumed of the constants, one by one.
LEMMA ImagesAre ==
    /\ W \in Nat /\ W > 0 /\ NumSections \in Nat /\ Garbage \subseteq Nat
    /\ \A m \in Images : m.body \in Seq(Char) /\ DOMAIN m.sections = 1..Len(m.sections)
    /\ \A m \in Images : \A i \in DOMAIN m.sections :
        /\ DOMAIN m.sections[i] = {"zero", "comp", "crc32", "offset", "usize", "csize", "sum"}
        /\ m.sections[i].zero \in {0, 1} /\ m.sections[i].offset \in Nat /\ m.sections[i].usize \in Nat
BY ImageAssumption

\* A step of the recursion of Start.
StartStep(m, i, f) ==
    [j \in 1..i |-> IF j = 1 THEN W
                    ELSE f[j - 1] + IF m.sections[j - 1].zero = 1 THEN 0 ELSE m.sections[j - 1].usize]

\* Start is that recursion.
LEMMA StartChoice ==
    ASSUME NEW m, NEW i, NEW g, g = StartStep(m, i, g)
    PROVE \E f : f = StartStep(m, i, f) /\ Start(m, i) = f[i]
<1> DEFINE f == CHOOSE h : h = StartStep(m, i, h)
<1>1. f = StartStep(m, i, f)
  OBVIOUS
<1>2. Start(m, i) = f[i]
  BY Zenon DEF Start, StartStep
<1> QED BY <1>1, <1>2

\* No section has to be in the header.
LEMMA StartIs ==
    ASSUME NEW m \in Images, Len(m.sections) = NumSections, NEW i \in 1..NumSections
    PROVE  Start(m, i) \in Nat /\ Start(m, i) >= W
<1> DEFINE D == 1..i
           V == {n \in Nat : n >= W}
           d == [j \in D |-> IF j = 1 THEN 0
                             ELSE IF m.sections[j - 1].zero = 1 THEN 0 ELSE m.sections[j - 1].usize]
           rank == [j \in D |-> j]
           base == [j \in D |-> W]
           nx == [j \in D |-> IF j = 1 THEN 1 ELSE j - 1]
           h == [t \in D \X V |-> t[2] + d[t[1]]]
<1>1. W \in Nat /\ i \in Nat /\ i >= 1 /\ i <= NumSections /\ NumSections \in Nat
  BY ImagesAre
<1>2. d \in [D -> Nat]
  <2>1. ASSUME NEW j \in D, j # 1 PROVE m.sections[j - 1].usize \in Nat
    <3>1. j - 1 \in 1..NumSections
      BY <1>1, <2>1
    <3> QED
      BY <3>1, ImagesAre
  <2> QED
    BY <2>1
<1>3. V \subseteq Nat /\ W \in V /\ \A v \in V, n \in Nat : v + n \in V
  BY <1>1
<1>4. i \in D /\ \A j \in D : j # 1 => j - 1 \in D
  BY <1>1
<1>5. Descends(D, V, i, rank, {1}, base, nx, h)
  <2>1. rank \in [D -> 0..i] /\ base \in [D -> V] /\ nx \in [D -> D]
    BY <1>1, <1>3
  <2>2. h \in [D \X V -> V]
    BY <1>2, <1>3
  <2>3. \A x \in D \ {1} : rank[nx[x]] < rank[x]
    BY <1>1
  <2> QED
    BY <1>1, <2>1, <2>2, <2>3 DEF Descends
<1> HIDE DEF V, d
<1>6. PICK f \in [D -> V] : \A x \in D : f[x] = IF x \in {1} THEN base[x] ELSE h[<<x, f[nx[x]]>>]
  <2> HIDE DEF D, rank, base, nx, h
  <2> QED
    BY <1>5, Recursion
<1>7. \A x \in D : f[x] = IF x = 1 THEN W ELSE f[x - 1] + d[x]
  <2> SUFFICES ASSUME NEW x \in D PROVE f[x] = IF x = 1 THEN W ELSE f[x - 1] + d[x]
    OBVIOUS
  <2>1. CASE x = 1
    BY <1>6, <2>1
  <2>2. CASE x # 1
    <3>1. x - 1 \in D /\ nx[x] = x - 1 /\ f[x - 1] \in V
      BY <1>4, <1>6, <2>2
    <3>2. h[<<x, f[x - 1]>>] = f[x - 1] + d[x]
      BY <3>1
    <3> QED
      BY <1>6, <2>2, <3>1, <3>2
  <2> QED
    BY <2>1, <2>2
<1>8. f = StartStep(m, i, f)
  <2>1. f = [j \in D |-> f[j]]
    BY <1>6
  <2>2. \A j \in D : f[j] = IF j = 1 THEN W
                           ELSE f[j - 1] + IF m.sections[j - 1].zero = 1 THEN 0 ELSE m.sections[j - 1].usize
    BY <1>7 DEF d
  <2> QED
    BY <2>1, <2>2 DEF StartStep
<1>9. PICK g : g = StartStep(m, i, g) /\ Start(m, i) = g[i]
  BY <1>8, StartChoice
<1>10. \A j \in D : g[j] = IF j = 1 THEN W ELSE g[j - 1] + d[j]
  <2>1. \A j \in D : StartStep(m, i, g)[j] = IF j = 1 THEN W
                           ELSE g[j - 1] + IF m.sections[j - 1].zero = 1 THEN 0 ELSE m.sections[j - 1].usize
    BY DEF StartStep
  <2>2. \A j \in D : StartStep(m, i, g)[j] = IF j = 1 THEN W ELSE g[j - 1] + d[j]
    BY <2>1 DEF d
  <2> QED
    BY <1>9, <2>2, Zenon
<1> DEFINE S == {n \in Nat : n + 1 <= i => g[n + 1] \in V}
<1>11. 0 \in S
  BY <1>1, <1>3, <1>4, <1>10
<1>12. ASSUME NEW n \in S PROVE n + 1 \in S
  <2>1. ASSUME n + 2 <= i PROVE g[n + 2] \in V
    <3>1. n + 2 \in D /\ n + 2 # 1 /\ (n + 2) - 1 = n + 1 /\ n + 1 <= i
      BY <1>1, <2>1
    <3>2. g[n + 2] = g[n + 1] + d[n + 2] /\ d[n + 2] \in Nat /\ g[n + 1] \in V
      BY <1>2, <1>10, <3>1
    <3> QED
      BY <1>3, <3>2
  <2>2. n \in Nat /\ (n + 1) + 1 = n + 2
    OBVIOUS
  <2> QED
    BY <2>1, <2>2
<1>13. S \subseteq Nat
  OBVIOUS
<1> HIDE DEF S
<1>14. S = Nat
  BY <1>11, <1>12, <1>13, Induct
<1>15. i - 1 \in Nat /\ (i - 1) + 1 = i
  BY <1>1
<1>16. g[i] \in V
  <2> DEFINE n == i - 1
  <2>1. n \in Nat /\ n + 1 = i
    BY <1>15
  <2> HIDE DEF n
  <2>2. n \in S
    BY <1>14, <2>1
  <2>3. n + 1 <= i => g[n + 1] \in V
    BY <2>2 DEF S
  <2> QED
    BY <1>1, <2>1, <2>3
<1> QED
  BY <1>9, <1>16 DEF V

\* The section that is compressed, and where it is.
LEMMA ContentIs ==
    ASSUME NEW m \in Images, Fits(m), NEW i \in 1..NumSections, m.sections[i].zero # 1
    PROVE  Content(m, i) \in Seq(Char) /\ Len(Content(m, i)) = m.sections[i].usize
<1> DEFINE x == m.sections[i]
<1>1. /\ Len(m.sections) = NumSections /\ x.offset = Start(m, i) /\ x.offset + x.usize <= W + Len(m.body)
  BY DEF Fits, HeaderFits, SectionFits
<1>2. m.body \in Seq(Char) /\ x.offset \in Nat /\ x.usize \in Nat /\ W \in Nat
  BY <1>1, ImagesAre
<1>3. x.offset >= W
  BY <1>1, StartIs
<1> DEFINE a == x.offset - W
           u == x.usize
<1>4. a \in Nat /\ u \in Nat /\ a + u <= Len(m.body) /\ Len(m.body) \in Nat
  BY SMTT(30), <1>1, <1>2, <1>3
<1>5. Content(m, i) = SubSeq(m.body, a + 1, a + u)
  BY DEF Content
<1> HIDE DEF x, a, u
<1>6. SubSeq(m.body, a + 1, a + u) \in Seq(Char) /\ Len(SubSeq(m.body, a + 1, a + u)) = u
  <2>1. \A j \in (a + 1)..(a + u) : m.body[j] \in Char
    BY <1>2, <1>4
  <2>2. /\ a + 1 \in Nat /\ a + u \in Nat /\ a + 1 >= 1 /\ a + u <= Len(m.body)
        /\ IF a + 1 <= a + u THEN (a + u) - (a + 1) + 1 = u ELSE u = 0
    BY <1>4
  <2> QED
    BY <1>2, <2>1, <2>2
<1> QED
  BY <1>5, <1>6 DEF u, x

-----------------------------------------------------------------------------
(* What apestamp has written of the sections.                               *)

\* The header x has of a section what apestamp has written of it.
IsStamped(x, m, i, b) ==
    IF m.sections[i].zero = 1 THEN x.zero = 1
    ELSE /\ x.zero = 0 /\ x.usize = m.sections[i].usize /\ x.sum = Content(m, i)
         /\ x.offset \in Nat /\ x.csize \in Nat /\ x.offset >= W /\ x.offset + x.csize <= W + Len(b)
         /\ Decompress(SubSeq(b, x.offset - W + 1, x.offset - W + x.csize), x.usize) = Content(m, i)

\* The last of the sections ends where b does.
EndsWith(h, b, n) == b = << >> \/ \E i \in 1..n : h[i].zero = 0 /\ h[i].offset + h[i].csize = W + Len(b)

\* The first n sections have been stamped, and b has no more than they.
StampedTo(h, m, b, n) ==
    /\ DOMAIN h = 1..NumSections
    /\ \A i \in 1..n : IsStamped(h[i], m, i, b)
    /\ EndsWith(h, b, n)
    /\ b \in Seq(0..Low-1) /\ Len(b) % W = 0

\* The filler of a section makes it whole words, and is zero.
LEMMA PaddedIs ==
    ASSUME NEW s \in Seq(0..Low-1)
    PROVE  /\ Padded(s) \in Seq(0..Low-1) /\ Len(Padded(s)) % W = 0
           /\ \E n \in Nat : Padded(s) = s \o [i \in 1..n |-> 0]
<1> DEFINE r == Len(s) % W
           n == (W - r) % W
           S == 0..Low-1
           t == [i \in 1..n |-> 0]
<1>1. W \in Nat \ {0} /\ Len(s) \in Nat /\ 0 \in S
  BY ImagesAre, Numbers
<1>2. r \in 0..W-1
  BY <1>1, ModRange
<1>3. n \in 0..W-1 /\ (Len(s) + n) % W = 0
  <2>1. ((Len(s) % W) + n) % W = (Len(s) + n) % W /\ n \in 0..W-1
    <3>1. W - r \in Nat
      BY <1>1, <1>2
    <3> HIDE DEF r
    <3>2. n \in 0..W-1
      BY <1>1, <3>1, ModRange
    <3> HIDE DEF n
    <3> QED
      BY <1>1, <3>2, ModAdd
  <2>2. (r + n) % W = 0
    <3> HIDE DEF r
    <3>0. 0 % W = 0 /\ W % W = 0
      <4>1. 0 % W = 0
        BY <1>1, ModSmall
      <4>2. (0 + W) % W = 0 % W
        BY <1>1, ModPeriod
      <4> QED
        BY <1>1, <4>1, <4>2
    <3>1. CASE r = 0
      BY <1>1, <3>0, <3>1
    <3>2. CASE r # 0
      <4>1. W - r \in 0..W-1 /\ r + (W - r) = W
        BY <1>1, <1>2, <3>2
      <4>2. n = W - r
        BY <1>1, <4>1, ModSmall
      <4> QED
        BY <3>0, <4>1, <4>2
    <3> QED
      BY <3>1, <3>2
  <2> HIDE DEF n
  <2>3. ((Len(s) % W) + n) % W = 0
    BY <2>2 DEF r
  <2> QED
    BY <2>1, <2>3
<1>4. Padded(s) = s \o t
  BY DEF Padded
<1> HIDE DEF n, r
<1>5. s \in Seq(S) /\ n \in Nat
  BY <1>1, <1>3
<1> HIDE DEF S
<1>6. t \in Seq(S) /\ Len(t) = n
  <2>1. t = [i \in 1..n |-> t[i]] /\ \A i \in 1..n : t[i] \in S
    BY <1>1
  <2> HIDE DEF t
  <2> QED
    BY <1>5, <2>1, ASequence
<1>7. s \o t \in Seq(S) /\ Len(s \o t) = Len(s) + n
  <2> HIDE DEF t
  <2> QED
    BY <1>5, <1>6
<1> QED
  BY <1>3, <1>4, <1>5, <1>7 DEF S

\* What is written behind leaves what was there.
LEMMA SubSeqBefore ==
    ASSUME NEW S, NEW b \in Seq(S), NEW c \in Seq(S), NEW a \in Nat, NEW u \in Nat, a + u <= Len(b)
    PROVE  SubSeq(b \o c, a + 1, a + u) = SubSeq(b, a + 1, a + u)
<1>1. b \o c \in Seq(S) /\ Len(b \o c) = Len(b) + Len(c) /\ Len(b) \in Nat /\ Len(c) \in Nat
  OBVIOUS
<1>2. \A j \in (a + 1)..(a + u) : (b \o c)[j] = b[j]
  BY <1>1
<1>3. SubSeq(b \o c, a + 1, a + u) = [j \in 1..u |-> (b \o c)[a + j]]
  BY <1>1
<1>4. SubSeq(b, a + 1, a + u) = [j \in 1..u |-> b[a + j]]
  BY <1>1
<1>5. \A j \in 1..u : (b \o c)[a + j] = b[a + j]
  BY <1>1, <1>2
<1> QED
  BY <1>3, <1>4, <1>5

\* What is written behind is there.
LEMMA SubSeqBehind ==
    ASSUME NEW S, NEW b \in Seq(S), NEW c \in Seq(S)
    PROVE  SubSeq(b \o c, Len(b) + 1, Len(b) + Len(c)) = c
<1>1. b \o c \in Seq(S) /\ Len(b \o c) = Len(b) + Len(c) /\ Len(b) \in Nat /\ Len(c) \in Nat
  OBVIOUS
<1>2. SubSeq(b \o c, Len(b) + 1, Len(b) + Len(c)) = [j \in 1..Len(c) |-> (b \o c)[Len(b) + j]]
  BY <1>1
<1>3. \A j \in 1..Len(c) : (b \o c)[Len(b) + j] = c[j]
  BY <1>1
<1>4. c = [j \in 1..Len(c) |-> c[j]]
  OBVIOUS
<1> QED
  BY <1>2, <1>3, <1>4

\* What is written behind does not touch a section.
LEMMA StillStamped ==
    ASSUME NEW x, NEW m, NEW i, NEW b \in Seq(0..Low-1), IsStamped(x, m, i, b), NEW c \in Seq(0..Low-1)
    PROVE  IsStamped(x, m, i, b \o c)
<1> DEFINE S == 0..Low-1
<1>1. CASE m.sections[i].zero = 1
  BY <1>1 DEF IsStamped
<1>2. CASE m.sections[i].zero # 1
  <2>1. /\ x.zero = 0 /\ x.usize = m.sections[i].usize /\ x.sum = Content(m, i)
        /\ x.offset \in Nat /\ x.csize \in Nat /\ x.offset >= W /\ x.offset + x.csize <= W + Len(b)
        /\ Decompress(SubSeq(b, x.offset - W + 1, x.offset - W + x.csize), x.usize) = Content(m, i)
    BY <1>2 DEF IsStamped
  <2> DEFINE off == x.offset
             u == x.csize
             a == off - W
  <2>2. W \in Nat /\ off \in Nat /\ u \in Nat /\ off >= W /\ off + u <= W + Len(b)
    BY <2>1, ImagesAre
  <2>3. b \in Seq(S) /\ c \in Seq(S)
    OBVIOUS
  <2> HIDE DEF off, u, S
  <2>4. Len(b \o c) = Len(b) + Len(c) /\ Len(b) \in Nat /\ Len(c) \in Nat
    BY <2>3
  <2>5. off + u <= W + Len(b \o c) /\ a \in Nat /\ a + u <= Len(b)
    BY <2>2, <2>4
  <2> HIDE DEF a
  <2>6. SubSeq(b \o c, a + 1, a + u) = SubSeq(b, a + 1, a + u)
    BY <2>2, <2>3, <2>5, SubSeqBefore
  <2>7. SubSeq(b \o c, x.offset - W + 1, x.offset - W + x.csize)
          = SubSeq(b, x.offset - W + 1, x.offset - W + x.csize)
    BY <2>6, Zenon DEF a, off, u
  <2>8. x.offset + x.csize <= W + Len(b \o c)
    BY <2>5 DEF off, u
  <2> QED
    BY <1>2, <2>1, <2>7, <2>8, Zenon DEF IsStamped
<1> QED
  BY <1>1, <1>2

\* A section without contents.
Zeroed(h, i) == [h EXCEPT ![i].offset = 0]

\* A section that is zeroed at boot is passed over.
LEMMA SkipStamped ==
    ASSUME NEW m \in Images, NEW h, NEW b, NEW n \in 0..NumSections-1, StampedTo(h, m, b, n),
           h[n + 1] = m.sections[n + 1], h[n + 1].zero = 1, Fits(m)
    PROVE  /\ StampedTo(Zeroed(h, n + 1), m, b, n + 1)
           /\ \A i \in n+2..NumSections : Zeroed(h, n + 1)[i] = h[i]
<1> DEFINE g == Zeroed(h, n + 1)
<1>1. /\ DOMAIN h = 1..NumSections /\ (\A i \in 1..n : IsStamped(h[i], m, i, b))
      /\ EndsWith(h, b, n) /\ b \in Seq(0..Low-1) /\ Len(b) % W = 0
  BY DEF StampedTo
<1>2. NumSections \in Nat /\ n \in Nat /\ n + 1 \in 1..NumSections /\ n + 1 \in Nat
  BY ImagesAre
<1>3. "zero" \in DOMAIN h[n + 1]
  <2>1. n + 1 \in DOMAIN m.sections
    BY <1>2, ImagesAre DEF Fits, HeaderFits
  <2> QED
    BY <2>1, ImagesAre
<1>4. /\ DOMAIN g = 1..NumSections /\ g[n + 1].zero = 1
      /\ \A i \in 1..NumSections : i # n + 1 => g[i] = h[i]
  BY <1>1, <1>2, <1>3 DEF Zeroed
<1> HIDE DEF g
<1>5. ASSUME NEW i \in 1..n+1 PROVE IsStamped(g[i], m, i, b)
  <2>1. CASE i = n + 1
    BY <1>4, <2>1 DEF IsStamped
  <2>2. CASE i # n + 1
    <3>1. i \in 1..n /\ i \in 1..NumSections
      BY <1>2, <2>2
    <3> QED
      BY <1>1, <1>4, <2>2, <3>1
  <2> QED
    BY <2>1, <2>2
<1>6. EndsWith(g, b, n + 1)
  <2>1. ASSUME NEW i \in 1..n, h[i].zero = 0 /\ h[i].offset + h[i].csize = W + Len(b)
        PROVE  i \in 1..n+1 /\ g[i].zero = 0 /\ g[i].offset + g[i].csize = W + Len(b)
    <3>1. i \in 1..n+1 /\ i \in 1..NumSections /\ i # n + 1
      BY <1>2
    <3> QED
      BY <1>4, <2>1, <3>1
  <2> QED
    BY <1>1, <2>1 DEF EndsWith
<1>7. StampedTo(g, m, b, n + 1)
  BY <1>1, <1>4, <1>5, <1>6 DEF StampedTo
<1>8. \A i \in n+2..NumSections : i \in 1..NumSections /\ i # n + 1
  BY <1>2
<1> QED
  BY <1>4, <1>7, <1>8 DEF g

\* One that has been compressed.
Entered(h, i, off, size, was) ==
    [h EXCEPT ![i] = [@ EXCEPT !.offset = off, !.comp = 1, !.crc32 = 1, !.csize = size, !.sum = was]]

\* The same, field by field.
LEMMA EnteredIs ==
    ASSUME NEW h, NEW i \in DOMAIN h, NEW off, NEW size, NEW was,
           DOMAIN h[i] = {"zero", "comp", "crc32", "offset", "usize", "csize", "sum"},
           NEW g, g = Entered(h, i, off, size, was)
    PROVE  /\ DOMAIN g = DOMAIN h /\ \A j \in DOMAIN h : j # i => g[j] = h[j]
           /\ g[i].zero = h[i].zero /\ g[i].usize = h[i].usize
           /\ g[i].offset = off /\ g[i].csize = size /\ g[i].sum = was
BY DEF Entered

\* The section that has been verified is entered, and its code written.
LEMMA StampNext ==
    ASSUME NEW m \in Images, NEW h, NEW b, NEW n \in 0..NumSections-1, StampedTo(h, m, b, n), Fits(m),
           h[n + 1] = m.sections[n + 1], m.sections[n + 1].zero = 0,
           NEW was, was = Content(m, n + 1),
           NEW code \in Seq(0..Low-1), Len(code) % W = 0, Decompress(code, Len(was)) = was,
           NEW g, g = Entered(h, n + 1, W + Len(b), Len(code), was)
    PROVE  /\ StampedTo(g, m, b \o code, n + 1)
           /\ \A i \in n+2..NumSections : g[i] = h[i]
<1> DEFINE S == 0..Low-1
           c == b \o code
<1>1. /\ DOMAIN h = 1..NumSections /\ (\A i \in 1..n : IsStamped(h[i], m, i, b))
      /\ EndsWith(h, b, n) /\ b \in Seq(S) /\ Len(b) % W = 0
  BY DEF StampedTo
<1>2. NumSections \in Nat /\ n \in Nat /\ n + 1 \in 1..NumSections /\ n + 1 \in Nat /\ W \in Nat \ {0}
  BY ImagesAre
<1>3. DOMAIN h[n + 1] = {"zero", "comp", "crc32", "offset", "usize", "csize", "sum"}
  <2>1. n + 1 \in DOMAIN m.sections
    BY <1>2, ImagesAre DEF Fits, HeaderFits
  <2> QED
    BY <2>1, ImagesAre
<1>4. /\ DOMAIN g = 1..NumSections /\ (\A j \in 1..NumSections : j # n + 1 => g[j] = h[j])
      /\ g[n + 1].zero = 0 /\ g[n + 1].usize = m.sections[n + 1].usize
      /\ g[n + 1].offset = W + Len(b) /\ g[n + 1].csize = Len(code) /\ g[n + 1].sum = was
  <2>1. n + 1 \in DOMAIN h
    BY <1>1, <1>2
  <2> DEFINE j0 == n + 1
             off == W + Len(b)
             size == Len(code)
  <2>2. DOMAIN h[j0] = {"zero", "comp", "crc32", "offset", "usize", "csize", "sum"} /\ j0 \in DOMAIN h
        /\ g = Entered(h, j0, off, size, was) /\ h[j0].zero = 0 /\ h[j0].usize = m.sections[j0].usize
    BY <1>3, <2>1
  <2> HIDE DEF j0, off, size
  <2>3. /\ DOMAIN g = DOMAIN h /\ \A j \in DOMAIN h : j # j0 => g[j] = h[j]
        /\ g[j0].zero = h[j0].zero /\ g[j0].usize = h[j0].usize
        /\ g[j0].offset = off /\ g[j0].csize = size /\ g[j0].sum = was
    BY <2>2, EnteredIs
  <2> QED
    BY <1>1, <2>2, <2>3 DEF j0, off, size
<1>5. code \in Seq(S)
  OBVIOUS
<1> HIDE DEF S
<1>6. c \in Seq(S) /\ Len(c) = Len(b) + Len(code) /\ Len(b) \in Nat /\ Len(code) \in Nat
  BY <1>1, <1>5
<1>7. SubSeq(c, Len(b) + 1, Len(b) + Len(code)) = code
  BY <1>1, <1>5, SubSeqBehind
<1>8. Len(c) % W = 0
  <2> DEFINE p == Len(b)
             q == Len(code)
  <2>1. p \in Nat /\ q \in Nat /\ p % W = 0 /\ q % W = 0
    BY <1>1, <1>6
  <2> HIDE DEF p, q
  <2>2. PICK s \in Nat, t \in 0..W-1 : p = s * W + t
    BY <1>2, <2>1, ModParts
  <2>3. PICK u \in Nat, v \in 0..W-1 : q = u * W + v
    BY <1>2, <2>1, ModParts
  <2>4. t = 0 /\ v = 0
    <3>1. (s * W + t) % W = t
      BY <1>2, ModOf
    <3>2. (u * W + v) % W = v
      BY <1>2, ModOf
    <3> QED
      BY <2>1, <2>2, <2>3, <3>1, <3>2
  <2>5. p + q = (s + u) * W + 0 /\ s + u \in Nat /\ 0 \in 0..W-1
    <3>1. s * W \in Nat /\ u * W \in Nat /\ (s + u) * W = (s * W) + (u * W)
      BY <1>2
    <3> QED
      BY <1>2, <2>2, <2>3, <2>4, <3>1
  <2>6. ((s + u) * W + 0) % W = 0
    BY <1>2, <2>5, ModOf
  <2>7. (p + q) % W = 0
    BY <2>5, <2>6
  <2> QED
    BY <1>6, <2>7 DEF p, q
<1> HIDE DEF c
<1>9. IsStamped(g[n + 1], m, n + 1, c)
  <2>1. Len(was) = m.sections[n + 1].usize
    BY <1>2, ContentIs
  <2> DEFINE x == g[n + 1]
  <2>2. x.offset \in Nat /\ x.csize \in Nat /\ x.offset >= W /\ x.offset + x.csize <= W + Len(c)
        /\ x.offset - W = Len(b)
    BY SMTT(30), <1>2, <1>4, <1>6
  <2>3. SubSeq(c, x.offset - W + 1, x.offset - W + x.csize) = code
    BY <1>4, <1>7, <2>2
  <2>4. Decompress(SubSeq(c, x.offset - W + 1, x.offset - W + x.csize), x.usize) = Content(m, n + 1)
    BY <1>4, <2>1, <2>3
  <2>5. x.zero = 0 /\ x.usize = m.sections[n + 1].usize /\ x.sum = Content(m, n + 1)
    BY <1>4
  <2> HIDE DEF x
  <2>6. IsStamped(x, m, n + 1, c)
    BY <2>2, <2>4, <2>5, Zenon DEF IsStamped
  <2> QED
    BY <2>6 DEF x
<1>10. ASSUME NEW i \in 1..n+1 PROVE IsStamped(g[i], m, i, c)
  <2>1. CASE i = n + 1
    BY <1>9, <2>1
  <2>2. CASE i # n + 1
    <3>1. i \in 1..n /\ i \in 1..NumSections
      BY <1>2, <2>2
    <3>2. IsStamped(h[i], m, i, b) /\ g[i] = h[i]
      BY <1>1, <1>4, <2>2, <3>1
    <3>3. b \in Seq(0..Low-1) /\ code \in Seq(0..Low-1)
      BY <1>1 DEF S
    <3>4. IsStamped(h[i], m, i, b \o code)
      BY <3>2, <3>3, StillStamped
    <3> QED
      BY <3>2, <3>4 DEF c
  <2> QED
    BY <2>1, <2>2
<1>11. EndsWith(g, c, n + 1)
  <2>1. n + 1 \in 1..n+1 /\ g[n + 1].offset + g[n + 1].csize = W + Len(c)
    BY <1>2, <1>4, <1>6
  <2> QED
    BY <1>4, <2>1 DEF EndsWith
<1>12. StampedTo(g, m, c, n + 1)
  BY <1>4, <1>6, <1>8, <1>10, <1>11 DEF StampedTo, S
<1>13. \A i \in n+2..NumSections : i \in 1..NumSections /\ i # n + 1
  BY <1>2
<1> QED
  BY <1>4, <1>12, <1>13 DEF c

-----------------------------------------------------------------------------
(* What the tools are doing.                                                *)

\* Where apestamp is in its compressor, and where it has opened its output.
Compressing == {"fill", "code", "move", "verify"}
Stamping    == {"section", "header", "filler", "tail"} \union Compressing

\* The file with the header, with the filler, and with the CRC.
Written(h, b) ==
    << <<"hdr", [sections |-> h, sum |-> HdrSum(h)], 0>> >>
        \o [i \in 1..Len(b) \div W |-> <<"code", SubSeq(b, W * (i - 1) + 1, W * i), 0>>]
Filled(h, b) == Append(Written(h, b), <<"filler", 0, 0>>)
Sealed(h, b) == Append(Filled(h, b), CRC(Filled(h, b)))

\* A tool that runs, and one that has ended.
PlaceInv ==
    /\ img \in Images /\ tool \in Tools /\ sec \in 1..NumSections+1 /\ body \in Seq(0..Low-1)
    /\ tool # "swap" => k = 1
    /\ tool \in {"idle", "swap"} => sec = 1 /\ body = << >>

\* The compressor, of the section.
CoderInv ==
    /\ tool = "fill" => Filling(lz, Content(img, sec))
    /\ tool = "code" => Coding(lz, Content(img, sec))
    /\ tool = "move" => Moving(lz, Content(img, sec))
    /\ tool = "verify" => Ended(lz, Content(img, sec))

\* The sections that have been written, and those that are left.
StampInv ==
    /\ tool \in Stamping => /\ Fits(img) /\ StampedTo(hdr, img, body, sec - 1)
                            /\ \A i \in sec..NumSections : hdr[i] = img.sections[i]
    /\ tool \in Compressing => sec \in 1..NumSections /\ img.sections[sec].zero = 0
    /\ tool \in {"header", "filler", "tail"} => sec = NumSections + 1
    /\ tool = "filler" => file = Written(hdr, body)
    /\ tool = "tail" => file = Filled(hdr, body)

\* All of that.
ToolInv == PlaceInv /\ CoderInv /\ StampInv

\* A program ends, or is killed.
LEMMA ExitKeeps == ASSUME ToolInv, Exit, UNCHANGED img PROVE ToolInv'
<1>1. 1 \in 1..NumSections+1 /\ << >> \in Seq(0..Low-1)
  <2>1. NumSections \in Nat
    BY ImagesAre
  <2> QED
    BY <2>1
<1>2. PlaceInv'
  BY <1>1 DEF ToolInv, PlaceInv, Exit, Tools
<1>3. CoderInv'
  BY DEF CoderInv, Exit
<1>4. StampInv'
  BY DEF StampInv, Exit, Stamping, Compressing
<1> QED
  BY <1>2, <1>3, <1>4 DEF ToolInv

\* What leaves apestamp alone.
LEMMA ApartKeeps ==
    ASSUME ToolInv, UNCHANGED <<img, sec, body>>, tool \in {"idle", "swap"}, tool' \in {"idle", "swap"},
           tool' = "idle" => k' = 1
    PROVE  ToolInv'
<1>1. PlaceInv'
  BY DEF ToolInv, PlaceInv, Tools
<1>2. CoderInv'
  BY DEF CoderInv
<1>3. StampInv'
  BY DEF StampInv, Stamping, Compressing
<1> QED
  BY <1>1, <1>2, <1>3 DEF ToolInv

\* apestamp starts.
LEMMA StampKeeps == ASSUME ToolInv, Stamp PROVE ToolInv'
<1>1. tool = "idle" /\ UNCHANGED img /\ img \in Images /\ sec = 1 /\ body = << >> /\ k = 1
  BY DEF Stamp, ToolInv, PlaceInv
<1>2. CASE UNCHANGED <<tool, sec, body, k>>
  BY <1>1, <1>2, ApartKeeps
<1>3. CASE Exit
  BY <1>1, <1>3, ExitKeeps
<1>4. CASE /\ HeaderFits(img) /\ \A i \in 1..NumSections : SectionFits(img, i)
           /\ tool' = "section" /\ hdr' = img.sections /\ UNCHANGED <<sec, body, lz, k>>
  <2>1. Fits(img) /\ DOMAIN img.sections = 1..NumSections
    BY <1>1, <1>4, ImagesAre DEF Fits, HeaderFits
  <2>2. W \in Nat \ {0} /\ NumSections \in Nat
    BY ImagesAre
  <2>3. 0 % W = 0
    BY <2>2, ModSmall
  <2>4. /\ Len(<< >>) = 0 /\ << >> \in Seq(0..Low-1) /\ 1..0 = {}
        /\ EndsWith(img.sections, << >>, 0)
    BY DEF EndsWith
  <2>5. StampedTo(img.sections, img, << >>, 0)
    BY <2>1, <2>3, <2>4 DEF StampedTo
  <2>6. StampInv'
    BY <1>1, <1>4, <2>1, <2>5 DEF StampInv, Stamping, Compressing
  <2>7. PlaceInv'
    BY <1>1, <1>4 DEF ToolInv, PlaceInv, Tools
  <2>8. CoderInv'
    BY <1>4 DEF CoderInv
  <2> QED
    BY <2>6, <2>7, <2>8 DEF ToolInv
<1> QED
  BY <1>2, <1>3, <1>4 DEF Stamp

\* What is said of the sections in a step of the compressor.
LEMMA StampedStays ==
    ASSUME ToolInv, UNCHANGED <<img, sec, hdr, body, k>>, tool \in Compressing, tool' \in Compressing
    PROVE  PlaceInv' /\ StampInv'
<1>1. PlaceInv'
  BY DEF ToolInv, PlaceInv, Tools, Compressing
<1>2. StampInv'
  BY DEF ToolInv, StampInv, Stamping, Compressing
<1> QED
  BY <1>1, <1>2

\* An empty section is coded by nothing.
LEMMA EmptyEnds == ASSUME Content(img, sec) = << >> PROVE Ended(NoLz, Content(img, sec))
<1>1. << >> \in Seq(Char) /\ << >> \in Seq(0..Low-1) /\ NoLz.out = << >> /\ Len(<< >>) = 0
  BY DEF NoLz
<1>2. Explains(<< >>, << >>)
  BY DEF Explains
<1>3. After(<< >>).from = << >>
  BY AfterNone DEF Fresh
<1> QED
  BY <1>1, <1>2, <1>3 DEF Ended

\* It passes over a section, or starts to compress it.
LEMMA SectionKeeps == ASSUME ToolInv, Section PROVE ToolInv'
<1>1. /\ tool = "section" /\ UNCHANGED <<img, file, body, k>> /\ img \in Images /\ sec \in 1..NumSections+1
      /\ body \in Seq(0..Low-1) /\ k = 1 /\ Fits(img) /\ StampedTo(hdr, img, body, sec - 1)
      /\ \A i \in sec..NumSections : hdr[i] = img.sections[i]
  BY DEF Section, ToolInv, PlaceInv, StampInv, Stamping
<1>2. NumSections \in Nat /\ Garbage \subseteq Nat
  BY ImagesAre
<1>3. CASE sec > NumSections
  <2>1. tool' = "header" /\ UNCHANGED <<sec, hdr, lz>> /\ sec = NumSections + 1
    BY <1>1, <1>2, <1>3 DEF Section
  <2>2. PlaceInv'
    BY <1>1, <2>1 DEF PlaceInv, Tools
  <2>3. CoderInv'
    BY <2>1 DEF CoderInv
  <2>4. StampInv'
    BY <1>1, <2>1 DEF StampInv, Stamping, Compressing
  <2> QED
    BY <2>2, <2>3, <2>4 DEF ToolInv
<1>4. CASE ~(sec > NumSections) /\ hdr[sec].zero = 1
  <2> DEFINE n == sec - 1
  <2>1. tool' = "section" /\ sec' = sec + 1 /\ hdr' = Zeroed(hdr, sec) /\ UNCHANGED lz
    BY <1>4 DEF Section, Zeroed
  <2>2. n \in 0..NumSections-1 /\ n + 1 = sec /\ n + 2 = sec + 1 /\ sec' - 1 = n + 1 /\ sec \in sec..NumSections
        /\ sec + 1 \in 1..NumSections+1
    BY <1>1, <1>2, <1>4, <2>1
  <2>3. StampedTo(hdr, img, body, n) /\ hdr[n + 1] = img.sections[n + 1] /\ hdr[n + 1].zero = 1
        /\ hdr' = Zeroed(hdr, n + 1)
    BY <1>1, <1>4, <2>1, <2>2
  <2>4. /\ \A i \in (n+2)..NumSections : i \in sec..NumSections
    BY <1>1, <1>2, <2>2
  <2> HIDE DEF n
  <2>5. /\ StampedTo(hdr', img, body, n + 1)
        /\ \A i \in (n+2)..NumSections : hdr'[i] = hdr[i]
    BY <1>1, <2>2, <2>3, SkipStamped
  <2>6. \A i \in sec'..NumSections : hdr'[i] = img.sections[i]
    BY <1>1, <2>1, <2>2, <2>4, <2>5
  <2>7. PlaceInv'
    BY <1>1, <2>1, <2>2 DEF PlaceInv, Tools
  <2>8. CoderInv'
    BY <2>1 DEF CoderInv
  <2>9. StampInv'
    BY <1>1, <2>1, <2>2, <2>5, <2>6 DEF StampInv, Stamping, Compressing
  <2> QED
    BY <2>7, <2>8, <2>9 DEF ToolInv
<1>5. CASE ~(sec > NumSections) /\ hdr[sec].zero # 1
  <2>1. UNCHANGED <<sec, hdr>>
    BY <1>5 DEF Section
  <2>2. sec \in 1..NumSections /\ hdr[sec] = img.sections[sec]
    <3>1. sec \in 1..NumSections /\ sec \in sec..NumSections
      BY <1>1, <1>2, <1>5
    <3> QED
      BY <1>1, <3>1
  <2>3. img.sections[sec].zero # 1
    BY <1>5, <2>2
  <2>4. img.sections[sec].zero = 0
    <3>1. sec \in DOMAIN img.sections
      BY <1>1, <2>2, ImagesAre DEF Fits, HeaderFits
    <3> QED
      BY <1>1, <2>3, <3>1, ImagesAre
  <2>5. Content(img, sec) \in Seq(Char)
    BY <1>1, <2>2, <2>3, ContentIs
  <2>6. PlaceInv' /\ StampInv' /\ CoderInv'
    <3>1. CASE Content(img, sec) = << >>
      <4>1. lz' = NoLz /\ tool' = "verify"
        BY <1>5, <3>1 DEF Section
      <4>2. PlaceInv'
        BY <1>1, <2>1, <4>1 DEF PlaceInv, Tools
      <4>3. StampInv'
        BY <1>1, <2>1, <2>2, <2>4, <4>1 DEF StampInv, Stamping, Compressing
      <4>4. CoderInv'
        BY <1>1, <2>1, <3>1, <4>1, EmptyEnds DEF CoderInv
      <4> QED
        BY <4>2, <4>3, <4>4
    <3>2. CASE Content(img, sec) # << >>
      <4>1. tool' = "fill"
        BY <1>5, <3>2 DEF Section
      <4>2. PICK g \in [Unset(Content(img, sec)) -> Garbage] : lz' = Compress(Content(img, sec), g)
        BY <1>5, <3>2 DEF Section
      <4>3. g \in [Unset(Content(img, sec)) -> Nat]
        BY <1>2, <4>2
      <4>4. Filling(lz', Content(img, sec))
        BY <2>5, <3>2, <4>2, <4>3, CompressIs
      <4>5. PlaceInv'
        BY <1>1, <2>1, <4>1 DEF PlaceInv, Tools
      <4>6. StampInv'
        BY <1>1, <2>1, <2>2, <2>4, <4>1 DEF StampInv, Stamping, Compressing
      <4>7. CoderInv'
        BY <1>1, <2>1, <4>1, <4>4 DEF CoderInv
      <4> QED
        BY <4>5, <4>6, <4>7
    <3> QED
      BY <3>1, <3>2
  <2> QED
    BY <2>6 DEF ToolInv
<1> QED
  BY <1>3, <1>4, <1>5

\* A string that is put in leaves the steps that are left.
LEMMA InsertTodo == ASSUME NEW z \in Compressor, NEW r, NEW way PROVE InsertNode(z, r, way).todo = z.todo
<1> DEFINE Has(y) == "todo" \in DOMAIN y /\ y.todo = z.todo
<1>1. Has(z)
  BY DEF Compressor
<1>2. ASSUME NEW p, NEW left PROVE Has(Hang(z, p, r, left))
  BY <1>1 DEF Hang
<1>3. ASSUME NEW p PROVE Has(Replace(z, p, r))
  BY <1>1 DEF Replace
<1>4. ASSUME NEW y, Has(y), NEW a, NEW b PROVE
        Has([y EXCEPT !.matchLen = a]) /\ Has([y EXCEPT !.matchPos = a, !.matchLen = b])
  BY <1>4
<1> HIDE DEF Has
<1>5. Has(InsertNode(z, r, way))
  BY <1>2, <1>3, <1>4 DEF InsertNode
<1> QED
  BY <1>5 DEF Has

\* The strings before the first code are put in.
LEMMA FillKeeps == ASSUME ToolInv, FillSection PROVE ToolInv'
<1> DEFINE in == Content(img, sec)
           y  == InsertNode(lz, ToFill(lz), Way(lz, ToFill(lz)))
<1>1. /\ tool = "fill" /\ Filling(lz, in) /\ lz' = [y EXCEPT !.todo = @ - 1]
      /\ tool' = IF lz.todo = 1 THEN "code" ELSE "fill"
      /\ UNCHANGED <<img, file, sec, hdr, body, k>> /\ in' = in
  BY DEF FillSection, ToolInv, CoderInv
<1>2. PlaceInv' /\ StampInv'
  BY <1>1, StampedStays DEF Compressing
<1>3. lz \in Compressor /\ lz.todo \in 1..F+1
  BY <1>1 DEF Filling, Base
<1>4. y.todo = lz.todo
  BY <1>3, InsertTodo
<1>5. lz' = WithTodo(y, lz.todo - 1)
  <2> HIDE DEF y
  <2> QED
    BY <1>1, <1>4, Zenon DEF WithTodo
<1>6. CASE lz.todo = 1
  <2>1. ToFill(lz) = lz.r /\ lz.todo - 1 = 0
    BY <1>6 DEF ToFill
  <2>2. lz' = WithTodo(InsertNode(lz, lz.r, Way(lz, lz.r)), 0)
    BY <1>5, <2>1
  <2> HIDE DEF in
  <2>3. Coding(lz', in)
    BY <1>1, <1>6, <2>2, FillLast
  <2>4. tool' = "code" /\ Coding(lz', in')
    BY <1>1, <1>6, <2>3
  <2> QED
    BY <1>2, <2>4 DEF ToolInv, CoderInv, in
<1>7. CASE lz.todo # 1
  <2>1. lz.todo > 1
    BY <1>3, <1>7, Numbers
  <2>2. Filling(lz', in)
    <3> DEFINE t == ToFill(lz)
    <3>1. lz' = WithTodo(InsertNode(lz, t, Way(lz, t)), lz.todo - 1) /\ t = ToFill(lz)
      BY <1>5
    <3> HIDE DEF t, in
    <3> QED
      BY <1>1, <2>1, <3>1, FillSpace
  <2>3. tool' = "fill" /\ Filling(lz', in')
    BY <1>1, <1>7, <2>2
  <2> QED
    BY <1>2, <2>3 DEF ToolInv, CoderInv, in
<1> QED
  BY <1>6, <1>7

\* A code is made.
LEMMA CodeKeeps == ASSUME ToolInv, CodeSection PROVE ToolInv'
<1>1. /\ tool = "code" /\ Coding(lz, Content(img, sec)) /\ lz' = Code(lz) /\ tool' = "move"
      /\ UNCHANGED <<img, file, sec, hdr, body, k>>
  BY DEF CodeSection, ToolInv, CoderInv
<1>2. PlaceInv' /\ StampInv'
  BY <1>1, StampedStays DEF Compressing
<1>3. Moving(lz', Content(img, sec))
  BY <1>1, CodeIs
<1> QED
  BY <1>1, <1>2, <1>3 DEF ToolInv, CoderInv

\* The window moves, and the compressor ends with the input.
LEMMA MoveKeeps == ASSUME ToolInv, MoveSection PROVE ToolInv'
<1> DEFINE in == Content(img, sec)
           z  == Move(lz, in)
<1>1. /\ tool = "move" /\ Moving(lz, in) /\ UNCHANGED <<img, file, sec, hdr, body, k>> /\ in' = in
      /\ IF z.len = 0 THEN lz' = Finish(z) ELSE lz' = InsertNode(z, z.r, Way(z, z.r))
      /\ tool' = IF z.todo > 0 THEN "move" ELSE IF z.len > 0 THEN "code" ELSE "verify"
  BY DEF MoveSection, ToolInv, CoderInv
<1>2. tool \in Compressing /\ tool' \in Compressing
  BY <1>1 DEF Compressing
<1>3. PlaceInv' /\ StampInv'
  BY <1>1, <1>2, StampedStays
<1>4. z = Move(lz, in)
  OBVIOUS
<1> HIDE DEF z, in
<1>5. z.len \in Nat
  <2>1. Counted(z, in)
    BY <1>1, <1>4, MovedOn DEF Stepped, Base
  <2> QED
    BY <2>1, CountedIs
<1>6. CASE z.len = 0
  <2>1. ~(z.todo > 0) /\ Ended(Finish(z), in)
    BY <1>1, <1>4, <1>6, MoveToEnd
  <2>2. tool' = "verify" /\ Ended(lz', in')
    BY <1>1, <1>6, <2>1
  <2> QED
    BY <1>3, <2>2 DEF ToolInv, CoderInv, in
<1>7. CASE z.len # 0
  <2>1. lz' = InsertNode(z, z.r, Way(z, z.r))
    BY <1>1, <1>7
  <2>2. /\ z.todo > 0 => Moving(lz', in)
        /\ ~(z.todo > 0) => Coding(lz', in)
    BY <1>1, <1>4, <1>7, <2>1, MoveOn
  <2>3. z.len > 0
    BY <1>5, <1>7
  <2>4. CASE z.todo > 0
    <3>1. tool' = "move" /\ Moving(lz', in')
      BY <1>1, <2>2, <2>4
    <3> QED
      BY <1>3, <3>1 DEF ToolInv, CoderInv, in
  <2>5. CASE ~(z.todo > 0)
    <3>1. tool' = "code" /\ Coding(lz', in')
      BY <1>1, <2>2, <2>3, <2>5
    <3> QED
      BY <1>3, <3>1 DEF ToolInv, CoderInv, in
  <2> QED
    BY <2>4, <2>5
<1> QED
  BY <1>6, <1>7

\* The compressor's output says what the section was, as it is padded.
LEMMA Verified ==
    ASSUME ToolInv, tool = "verify"
    PROVE  Decompress(Padded(lz.out), Len(Content(img, sec))) = Content(img, sec)
<1>1. Ended(lz, Content(img, sec))
  BY DEF ToolInv, CoderInv
<1>2. lz.out \in Seq(0..Low-1)
  BY <1>1 DEF Ended
<1>3. PICK n \in Nat : Padded(lz.out) = lz.out \o [i \in 1..n |-> 0]
  BY <1>2, PaddedIs
<1> QED
  BY <1>1, <1>3, EndedDecodes

\* The section has been read back.
LEMMA VerifyKeeps == ASSUME ToolInv, Verify PROVE ToolInv'
<1> DEFINE code == Padded(lz.out)
           was  == Content(img, sec)
           n    == sec - 1
<1>1. /\ tool = "verify" /\ UNCHANGED <<img, file>> /\ img \in Images /\ sec \in 1..NumSections
      /\ body \in Seq(0..Low-1) /\ k = 1 /\ Fits(img) /\ StampedTo(hdr, img, body, n)
      /\ \A i \in sec..NumSections : hdr[i] = img.sections[i]
      /\ img.sections[sec].zero = 0 /\ Ended(lz, was)
  BY DEF Verify, ToolInv, PlaceInv, StampInv, CoderInv, Stamping, Compressing
<1>2. Decompress(code, Len(was)) = was
  BY <1>1, Verified
<1>3. code \in Seq(0..Low-1) /\ Len(code) % W = 0
  BY <1>1, PaddedIs DEF Ended
<1>4. /\ hdr' = Entered(hdr, sec, W + Len(body), Len(code), was)
      /\ body' = body \o code /\ sec' = sec + 1 /\ tool' = "section" /\ lz' = NoLz /\ UNCHANGED k
  <2>1. /\ hdr' = [hdr EXCEPT ![sec] =
                      [@ EXCEPT !.offset = W + Len(body), !.comp = 1, !.crc32 = 1,
                                !.csize = Len(code), !.sum = was]]
        /\ body' = body \o code /\ sec' = sec + 1 /\ tool' = "section" /\ lz' = NoLz /\ UNCHANGED k
    BY <1>2 DEF Verify
  <2> QED
    BY <2>1, Zenon DEF Entered
<1>5. was = Content(img, sec)
  OBVIOUS
<1> HIDE DEF code, was
<1>6. NumSections \in Nat
  BY ImagesAre
<1>7. /\ n \in 0..NumSections-1 /\ n + 1 = sec /\ n + 2 = sec + 1 /\ sec' - 1 = n + 1
      /\ sec \in sec..NumSections /\ sec + 1 \in 1..NumSections+1
      /\ \A i \in (n+2)..NumSections : i \in sec..NumSections
  BY <1>1, <1>4, <1>6
<1> HIDE DEF n
<1>8. /\ StampedTo(hdr, img, body, n) /\ hdr[n + 1] = img.sections[n + 1] /\ img.sections[n + 1].zero = 0
      /\ was = Content(img, n + 1) /\ hdr' = Entered(hdr, n + 1, W + Len(body), Len(code), was)
  BY <1>1, <1>4, <1>5, <1>7
<1>9. /\ StampedTo(hdr', img, body \o code, n + 1)
      /\ \A i \in (n+2)..NumSections : hdr'[i] = hdr[i]
  BY <1>1, <1>2, <1>3, <1>7, <1>8, StampNext
<1>10. \A i \in sec'..NumSections : hdr'[i] = img.sections[i]
  BY <1>1, <1>4, <1>7, <1>9
<1>11. body' \in Seq(0..Low-1)
  BY <1>4, <1>9 DEF StampedTo
<1>12. PlaceInv'
  BY <1>1, <1>4, <1>7, <1>11 DEF PlaceInv, Tools
<1>13. CoderInv'
  BY <1>4 DEF CoderInv
<1>14. StampInv'
  BY <1>1, <1>4, <1>7, <1>9, <1>10 DEF StampInv, Stamping, Compressing
<1> QED
  BY <1>12, <1>13, <1>14 DEF ToolInv

\* The header, the filler and the CRC are written.
LEMMA WritesKeep == ASSUME ToolInv, WriteHeader \/ WriteFiller \/ WriteTail PROVE ToolInv'
<1>1. CASE WriteTail
  BY <1>1, ExitKeeps DEF WriteTail
<1>2. CASE WriteHeader
  <2>1. /\ tool = "header" /\ tool' = "filler" /\ file' = Written(hdr, body)
        /\ UNCHANGED <<img, sec, hdr, body, lz, k>>
    BY <1>2 DEF WriteHeader, Written
  <2>2. PlaceInv'
    BY <2>1 DEF ToolInv, PlaceInv, Tools
  <2>3. CoderInv'
    BY <2>1 DEF CoderInv
  <2>4. Written(hdr, body)' = Written(hdr, body)
    BY <2>1
  <2>5. StampInv'
    BY <2>1, <2>4 DEF ToolInv, StampInv, Stamping, Compressing
  <2> QED
    BY <2>2, <2>3, <2>5 DEF ToolInv
<1>3. CASE WriteFiller
  <2>1. /\ tool = "filler" /\ tool' = "tail" /\ file' = Filled(hdr, body)
        /\ UNCHANGED <<img, sec, hdr, body, lz, k>>
    BY <1>3 DEF WriteFiller, ToolInv, StampInv, Filled
  <2>2. PlaceInv'
    BY <2>1 DEF ToolInv, PlaceInv, Tools
  <2>3. CoderInv'
    BY <2>1 DEF CoderInv
  <2>4. Filled(hdr, body)' = Filled(hdr, body)
    BY <2>1
  <2>5. StampInv'
    BY <2>1, <2>4 DEF ToolInv, StampInv, Stamping, Compressing
  <2> QED
    BY <2>2, <2>3, <2>5 DEF ToolInv
<1> QED
  BY <1>1, <1>2, <1>3

\* The other tools leave alone what apestamp has.
LEMMA SwapsKeep == ASSUME ToolInv, StartSwap \/ SwapWord \/ EndSwap \/ ByteSwap PROVE ToolInv'
<1>1. CASE EndSwap
  BY <1>1, ExitKeeps DEF EndSwap
<1>2. CASE StartSwap \/ SwapWord \/ ByteSwap
  <2>1. tool = "idle" => k = 1
    BY DEF ToolInv, PlaceInv
  <2>2. /\ UNCHANGED <<img, sec, body>> /\ tool \in {"idle", "swap"} /\ tool' \in {"idle", "swap"}
        /\ tool' = "idle" => k' = 1
    BY <1>2, <2>1 DEF StartSwap, SwapWord, ByteSwap
  <2> QED
    BY <2>2, ApartKeeps
<1> QED
  BY <1>1, <1>2

\* Every step keeps what the tools have.
LEMMA ToolKeeps == ASSUME ToolInv, [Next]_vars PROVE ToolInv'
<1>1. CASE Kill
  BY <1>1, ExitKeeps DEF Kill
<1>2. CASE UNCHANGED vars
  BY <1>2 DEF vars, ToolInv, PlaceInv, CoderInv, StampInv
<1> QED
  BY <1>1, <1>2, StampKeeps, SectionKeeps, FillKeeps, CodeKeeps, MoveKeeps, VerifyKeeps, WritesKeep,
     SwapsKeep DEF Next, Run

\* An unfinished file has no CRC.
UnfinishedInv ==
    whole = << >> =>
        /\ NoCrc(file)
        /\ tool # "swap"
        /\ tool \in {"filler", "tail"} => file # << >> /\ file[1][1] = "hdr"

\* A finished one is turned up to where apebyteswap is, or was when it died, or it has
\* lost its end, and the CRC with it, to a byteswap that was killed.
FinishedInv ==
    whole # << >> =>
        /\ IsImage(whole) /\ NoCrc(Front(whole))
        /\ tool \in {"idle", "swap"}
        /\ file \in Halves \union {SwapAll(f) : f \in Halves} \/ NoCrc(file)
        /\ tool = "swap" => k \in 1..Len(whole) /\ \E f \in Bases : file = Half(f, k)

\* It is made of the sections of the linker's output.
WholeInv ==
    whole # << >> =>
        Fits(img) /\ \E h, b : StampedTo(h, img, b, NumSections) /\ whole = Sealed(h, b)

\* The invariant.
IInv == ToolInv /\ UnfinishedInv /\ FinishedInv /\ WholeInv

-----------------------------------------------------------------------------
(* The files.                                                               *)

\* Both orders of bytes make an image of the same length.
LEMMA BasesAre ==
    ASSUME FinishedInv, whole # << >>, NEW f \in Bases
    PROVE  IsImage(f) /\ IsFile(f) /\ Len(f) = Len(whole) /\ Len(f) \in Nat /\ Len(f) >= 2
           /\ Turned(f) \in Bases /\ f = Half(f, 1)
<1>1. IsImage(whole)
  BY DEF FinishedInv
<1>2. IsImage(f) /\ Len(f) = Len(whole) /\ Turned(f) \in Bases
  BY <1>1, TurnedImage DEF Bases
<1>3. IsFile(f) /\ Len(f) \in Nat /\ Len(f) >= 2
  BY <1>2 DEF IsImage, IsFile, IsSeq
<1>4. f = Half(f, 1)
  <2>1. 1 \in 1..Len(f)
    BY <1>3
  <2> QED
    BY <1>3, <2>1, HalfFile
<1> QED
  BY <1>2, <1>3, <1>4

\* byteswap undoes itself.
LEMMA HalvesTwice ==
    ASSUME FinishedInv, whole # << >>, NEW f \in Halves
    PROVE  SwapAll(SwapAll(f)) = f
<1>1. PICK b \in Bases, n \in 1..Len(whole) : f = Half(b, n)
  BY DEF Halves
<1>2. IsFile(f)
  BY <1>1, BasesAre, HalfFile
<1> QED
  BY <1>2, SwapAllIs

\* Turned as it may be, a finished image has a CRC as its last word alone.
LEMMA HalvesAre ==
    ASSUME FinishedInv, whole # << >>, NEW f \in Halves \union {SwapAll(g) : g \in Halves}
    PROVE  IsFile(f) /\ Len(f) = Len(whole) /\ \A i \in 1..Len(f)-1 : f[i][1] # "crc"
<1>1. PICK b \in Bases, n \in 1..Len(whole) : f = Half(b, n) \/ f = SwapAll(Half(b, n))
  BY DEF Halves
<1>2. /\ IsFile(b) /\ Len(b) = Len(whole) /\ Len(whole) \in Nat /\ Len(whole) >= 2
      /\ n \in 1..Len(b)
  BY <1>1, BasesAre
<1>3. IsImage(whole) /\ IsFile(whole) /\ NoCrc(Front(whole))
  BY DEF FinishedInv, IsImage
<1>4. \A i \in 1..Len(whole)-1 : whole[i][1] # "crc" /\ Front(whole)[i] = whole[i]
  <2>1. Len(Front(whole)) = Len(whole) - 1 /\ Front(whole) = [i \in 1..Len(whole)-1 |-> whole[i]]
    BY <1>2, <1>3, FrontFile
  <2> QED
    BY <1>3, <2>1 DEF NoCrc
<1>5. \A i \in 1..Len(whole)-1 : b[i][1] # "crc"
  <2>1. CASE b = whole
    BY <1>4, <2>1
  <2>2. CASE b = Turned(whole)
    <3> DEFINE u == SwapAll(Front(whole))
    <3>1. IsFile(Front(whole)) /\ Len(Front(whole)) = Len(whole) - 1
      BY <1>2, <1>3, FrontFile
    <3>2. /\ IsFile(u) /\ Len(u) = Len(whole) - 1
          /\ \A i \in 1..Len(whole)-1 : u[i] = SwapEndian32(Front(whole)[i])
      BY <3>1, SwapAllIs
    <3>3. IsWord(CRC(u))
      BY CrcWord
    <3>4. b = Append(u, CRC(u))
      BY <2>2 DEF Turned
    <3> HIDE DEF u
    <3>5. \A i \in 1..Len(whole)-1 : b[i] = u[i]
      BY <1>2, <3>2, <3>3, <3>4, AppendFile
    <3>6. ASSUME NEW i \in 1..Len(whole)-1 PROVE b[i][1] # "crc"
      <4>1. i \in 1..Len(whole) /\ IsWord(whole[i]) /\ whole[i][1] # "crc"
        BY <1>2, <1>3, <1>4 DEF IsFile
      <4>2. SwapEndian32(whole[i])[1] = whole[i][1]
        BY <4>1, SwapWordTwice
      <4> QED
        BY <1>4, <3>2, <3>5, <4>1, <4>2
    <3> QED
      BY <3>6
  <2> QED
    BY <2>1, <2>2 DEF Bases
<1>6. /\ IsFile(Half(b, n)) /\ Len(Half(b, n)) = Len(whole)
      /\ \A i \in 1..Len(whole)-1 : Half(b, n)[i][1] # "crc"
  <2>1. /\ IsFile(Half(b, n)) /\ Len(Half(b, n)) = Len(whole)
        /\ \A i \in 1..Len(whole) : Half(b, n)[i] = IF i < n THEN SwapEndian32(b[i]) ELSE b[i]
    BY <1>2, HalfFile
  <2>2. ASSUME NEW i \in 1..Len(whole)-1 PROVE Half(b, n)[i][1] # "crc"
    <3>1. i \in 1..Len(whole) /\ IsWord(b[i]) /\ b[i][1] # "crc"
      BY <1>2, <1>5 DEF IsFile
    <3>2. SwapEndian32(b[i])[1] = b[i][1]
      BY <3>1, SwapWordTwice
    <3> QED
      BY <2>1, <3>1, <3>2
  <2> QED
    BY <2>1, <2>2
<1> DEFINE h == Half(b, n)
           g == SwapAll(h)
<1>7. /\ IsFile(g) /\ Len(g) = Len(whole) /\ \A i \in 1..Len(whole)-1 : g[i][1] # "crc"
  <2>1. IsFile(h) /\ Len(h) = Len(whole)
    BY <1>6
  <2>2. /\ IsFile(g) /\ Len(g) = Len(whole) /\ \A i \in 1..Len(whole) : g[i] = SwapEndian32(h[i])
    <3> HIDE DEF h
    <3> QED
      BY <2>1, SwapAllIs
  <2>3. ASSUME NEW i \in 1..Len(whole)-1 PROVE g[i][1] # "crc"
    <3>1. i \in 1..Len(whole) /\ IsWord(h[i]) /\ h[i][1] # "crc"
      BY <1>2, <1>6, <2>1 DEF IsFile
    <3> HIDE DEF h
    <3>2. SwapEndian32(h[i])[1] = h[i][1]
      BY <3>1, SwapWordTwice
    <3> QED
      BY <2>2, <3>1, <3>2
  <2> QED
    BY <2>2, <2>3
<1> HIDE DEF g
<1>8. f = h \/ f = g
  BY <1>1 DEF g
<1> QED
  BY <1>6, <1>7, <1>8

\* What apebyteswap takes, while nothing runs.
LEMMA Accepted ==
    ASSUME UnfinishedInv, FinishedInv, SwapAccepts(file)
    PROVE  whole # << >> /\ file \in Bases
<1>1. ~NoCrc(file) /\ whole # << >>
  BY NoCrcAtEnd DEF SwapAccepts, UnfinishedInv
<1>2. PICK f \in Bases, n \in 1..Len(whole) : file = Half(f, n) \/ file = SwapAll(Half(f, n))
  BY <1>1 DEF FinishedInv, Halves
<1>3. IsImage(f) /\ n \in 1..Len(f) /\ f = Half(f, 1)
  BY <1>1, <1>2, BasesAre
<1>4. n = 1 /\ file = Half(f, n)
  BY <1>2, <1>3, HalfRefused
<1> QED
  BY <1>1, <1>3, <1>4

\* While apestamp runs there is no finished file.
LEMMA StampingKeeps ==
    ASSUME UnfinishedInv, FinishedInv, tool \in Stamping, tool' \in {"section", "header", "idle"} \union Compressing,
           UNCHANGED <<file, whole>>
    PROVE  UnfinishedInv' /\ FinishedInv'
BY DEF UnfinishedInv, FinishedInv, Stamping, Compressing

\* The header and the sections make a file without a CRC.
LEMMA HeaderWritten ==
    ASSUME IInv, WriteHeader
    PROVE  UnfinishedInv' /\ FinishedInv'
<1> DEFINE h == <<"hdr", [sections |-> hdr, sum |-> HdrSum(hdr)], 0>>
           n == Len(body) \div W
           c == [i \in 1..n |-> <<"code", SubSeq(body, (W * (i - 1)) + 1, W * i), 0>>]
<1>1. IsSeq(body) /\ whole = << >> /\ whole' = << >> /\ tool' = "filler"
  <2>1. body \in Seq(0..Low-1)
    BY DEF IInv, ToolInv, PlaceInv
  <2>2. IsSeq(body)
    BY <2>1, SeqInSeq
  <2> QED
    BY <2>2 DEF IInv, FinishedInv, WriteHeader
<1>2. n \in Nat
  <2>1. Len(body) \in Nat /\ W \in Nat \ {0}
    BY <1>1, ImagesAre DEF IsSeq
  <2> QED
    BY <2>1, ModRange
<1>3. ASSUME NEW i \in 1..n PROVE IsSeq(SubSeq(body, (W * (i - 1)) + 1, W * i))
  <2> DEFINE S == {body[j] : j \in 1..Len(body)}
             a == (W * (i - 1)) + 1
             b == W * i
  <2>1. body \in Seq(S)
    BY <1>1, SeqIs
  <2>2. a \in Nat /\ b \in Nat /\ a >= 1 /\ b <= Len(body)
    <3>1. W \in Nat /\ W >= 1 /\ Len(body) \in Nat /\ i \in Nat /\ i >= 1 /\ i <= n
      BY <1>1, <1>2, ImagesAre DEF IsSeq
    <3>2. ASSUME NEW x \in Nat, NEW y \in Nat, x >= 1 PROVE x * (y \div x) <= y
      BY <3>2
    <3>3. ASSUME NEW x \in Nat, NEW y \in Nat, NEW z \in Nat, y <= z PROVE x * y <= x * z
      BY <3>3
    <3>4. ASSUME NEW x \in Nat, NEW y \in Nat PROVE x * y \in Nat
      BY <3>4
    <3>5. W * i <= W * n /\ W * n <= Len(body)
      BY <1>2, <3>1, <3>2, <3>3
    <3>6. W * i \in Nat /\ W * n \in Nat /\ W * (i - 1) \in Nat
      BY <1>2, <3>1, <3>4
    <3> QED
      BY <3>1, <3>5, <3>6
  <2> HIDE DEF S, a, b
  <2>3. SubSeq(body, a, b) \in Seq(S)
    BY <2>1, <2>2
  <2>4. IsSeq(SubSeq(body, a, b))
    BY <2>3, SeqInSeq
  <2> QED
    BY <2>4 DEF a, b
<1>4. IsWord(h) /\ h[1] = "hdr"
  BY DEF IsWord
<1>5. ASSUME NEW i \in 1..n PROVE IsWord(c[i]) /\ c[i][1] = "code"
  BY <1>3 DEF IsWord
<1>6. IsSeq(c) /\ Len(c) = n
  BY <1>2 DEF IsSeq
<1>7. file' = <<h>> \o c
  BY DEF WriteHeader
<1> HIDE DEF h, n, c
<1>8. IsSeq(<<h>>) /\ Len(<<h>>) = 1 /\ <<h>>[1] = h
  BY DEF IsSeq
<1>9. /\ IsSeq(file') /\ Len(file') = n + 1 /\ file'[1] = h
      /\ \A i \in 2..n+1 : file'[i] = c[i - 1]
  <2> DEFINE S == {h} \union {c[i] : i \in 1..n}
  <2>1. <<h>> \in Seq(S) /\ c \in Seq(S)
    BY <1>2, <1>6 DEF IsSeq
  <2> HIDE DEF S
  <2>2. /\ <<h>> \o c \in Seq(S) /\ Len(<<h>> \o c) = n + 1 /\ (<<h>> \o c)[1] = h
        /\ \A i \in 2..n+1 : (<<h>> \o c)[i] = c[i - 1]
    BY <1>2, <1>6, <1>8, <2>1
  <2> QED
    BY <1>7, <2>2, SeqInSeq
<1>10. \A i \in 1..n+1 : IsWord(file'[i]) /\ file'[i][1] # "crc"
  <2> SUFFICES ASSUME NEW i \in 1..n+1 PROVE IsWord(file'[i]) /\ file'[i][1] # "crc"
    OBVIOUS
  <2>1. CASE i = 1
    BY <1>4, <1>9, <2>1
  <2>2. CASE i # 1
    <3>1. i \in 2..n+1 /\ i - 1 \in 1..n
      BY <1>2, <2>2
    <3> QED
      BY <1>5, <1>9, <3>1
  <2> QED
    BY <2>1, <2>2
<1>11. NoCrc(file') /\ file' # << >>
  BY <1>2, <1>9, <1>10 DEF NoCrc, IsFile
<1> QED
  BY <1>1, <1>4, <1>9, <1>10, <1>11 DEF UnfinishedInv, FinishedInv

\* So does the filler.
LEMMA FillerWritten ==
    ASSUME IInv, WriteFiller
    PROVE  UnfinishedInv' /\ FinishedInv'
<1> DEFINE w == <<"filler", 0, 0>>
<1>1. /\ whole = << >> /\ whole' = << >> /\ tool' = "tail" /\ file' = Append(file, w)
      /\ NoCrc(file) /\ IsFile(file) /\ file # << >> /\ file[1][1] = "hdr"
  BY DEF IInv, UnfinishedInv, FinishedInv, WriteFiller, NoCrc
<1>2. IsWord(w) /\ w[1] # "crc"
  BY DEF IsWord
<1> HIDE DEF w
<1>3. Len(file) \in Nat /\ Len(file) >= 1
  BY <1>1 DEF IsFile, IsSeq
<1>4. /\ IsFile(file') /\ Len(file') = Len(file) + 1
      /\ file' = [i \in 1..Len(file)+1 |-> IF i <= Len(file) THEN file[i] ELSE w]
  BY <1>1, <1>2, AppendFile
<1>5. file'[1] = file[1] /\ file' # << >>
  BY <1>3, <1>4
<1>6. NoCrc(file')
  BY <1>1, <1>2, <1>4 DEF NoCrc
<1> QED
  BY <1>1, <1>5, <1>6 DEF UnfinishedInv, FinishedInv

\* The CRC makes it an image.
LEMMA TailWritten ==
    ASSUME IInv, WriteTail
    PROVE  UnfinishedInv' /\ FinishedInv'
<1> DEFINE g == Append(file, CRC(file))
<1>1. /\ whole = << >> /\ whole' = g /\ tool' = "idle" /\ file' = g
      /\ NoCrc(file) /\ IsFile(file) /\ file # << >> /\ file[1][1] = "hdr"
  BY DEF IInv, UnfinishedInv, FinishedInv, WriteTail, Exit, NoCrc
<1>2. Len(file) \in Nat /\ Len(file) >= 1
  BY <1>1 DEF IsFile, IsSeq
<1>3. /\ IsFile(g) /\ Len(g) = Len(file) + 1
      /\ g = [i \in 1..Len(file)+1 |-> IF i <= Len(file) THEN file[i] ELSE CRC(file)]
  BY <1>1, CrcWord, AppendFile
<1> HIDE DEF g
<1>4. g[1] = file[1] /\ g[Len(g)] = CRC(file) /\ Len(g) >= 2 /\ Len(g) >= 1 /\ g # << >>
  BY <1>2, <1>3
<1>5. Front(g) = file
  <2>1. Front(g) = [i \in 1..Len(file) |-> g[i]]
    <3>1. IsFile(g) /\ Len(g) >= 1 /\ Len(g) - 1 = Len(file)
      BY <1>2, <1>3, <1>4
    <3>2. Front(g) = [i \in 1..Len(g)-1 |-> g[i]]
      BY <3>1, FrontFile
    <3> QED
      BY <3>1, <3>2
  <2>2. \A i \in 1..Len(file) : g[i] = file[i]
    BY <1>2, <1>3
  <2>3. file = [i \in 1..Len(file) |-> file[i]]
    BY <1>1 DEF IsFile, IsSeq
  <2> QED
    BY <2>1, <2>2, <2>3
<1>6. IsImage(g)
  BY <1>1, <1>3, <1>4, <1>5 DEF IsImage
<1>7. 1 \in 1..Len(g) /\ g = Half(g, 1)
  BY <1>2, <1>3, HalfFile
<1>8. g \in {Half(f, n) : f \in {g, Turned(g)}, n \in 1..Len(g)}
  BY <1>7
<1>9. file' \in Halves'
  BY <1>1, <1>8 DEF Halves, Bases
<1> QED
  BY <1>1, <1>4, <1>5, <1>6, <1>9 DEF UnfinishedInv, FinishedInv

\* apebyteswap turns an image word by word, and byteswap all of it.
LEMMA SwapKeeps ==
    ASSUME IInv, StartSwap \/ SwapWord \/ EndSwap \/ ByteSwap
    PROVE  UnfinishedInv' /\ FinishedInv'
<1>1. UNCHANGED whole /\ UnfinishedInv /\ FinishedInv
  BY DEF IInv, StartSwap, SwapWord, EndSwap, ByteSwap
<1>2. Bases' = Bases /\ Halves' = Halves
  BY <1>1 DEF Bases, Halves
<1>3. CASE StartSwap
  <2>1. whole # << >> /\ file \in Bases
    BY <1>1, <1>3, Accepted DEF StartSwap
  <2>2. file = Half(file, 1) /\ 1 \in 1..Len(whole)
    BY <1>1, <2>1, BasesAre
  <2> QED
    BY <1>1, <1>2, <1>3, <2>1, <2>2 DEF StartSwap, UnfinishedInv, FinishedInv
<1>4. CASE SwapWord
  <2>1. whole # << >> /\ k \in 1..Len(whole) /\ k < Len(file)
    BY <1>1, <1>4 DEF SwapWord, UnfinishedInv, FinishedInv
  <2>2. PICK f \in Bases : file = Half(f, k)
    BY <1>1, <1>4, <2>1 DEF SwapWord, FinishedInv
  <2>3. IsFile(f) /\ Len(f) = Len(whole) /\ Len(f) \in Nat /\ Len(file) = Len(f)
    BY <1>1, <2>1, <2>2, BasesAre, HalfFile
  <2>4. file' = Half(f, k + 1) /\ k + 1 \in 1..Len(whole)
    <3>1. k \in 1..Len(f) /\ k < Len(f) /\ k + 1 \in 1..Len(whole)
      BY <2>1, <2>3
    <3>2. file' = [Half(f, k) EXCEPT ![k] = SwapEndian32(@)]
      BY <1>4, <2>2 DEF SwapWord
    <3> QED
      BY <2>3, <3>1, <3>2, HalfNext
  <2>5. file' \in Halves
    BY <2>4 DEF Halves
  <2> QED
    BY <1>1, <1>2, <1>4, <2>1, <2>4, <2>5 DEF SwapWord, UnfinishedInv, FinishedInv
<1>5. CASE EndSwap
  <2>1. whole # << >> /\ k = Len(file)
    BY <1>1, <1>5 DEF EndSwap, UnfinishedInv
  <2>2. PICK f \in Bases : file = Half(f, k) /\ k \in 1..Len(whole)
    BY <1>1, <1>5, <2>1 DEF EndSwap, FinishedInv
  <2>3. IsImage(f) /\ Len(f) = Len(whole) /\ Len(file) = Len(f) /\ Turned(f) \in Bases
    BY <1>1, <2>1, <2>2, BasesAre, HalfFile
  <2>4. file' = Turned(f)
    BY <1>5, <2>1, <2>2, <2>3, HalfEnd DEF EndSwap
  <2>5. file' = Half(file', 1) /\ 1 \in 1..Len(whole)
    BY <1>1, <2>1, <2>3, <2>4, BasesAre
  <2>6. file' \in Halves
    BY <2>3, <2>4, <2>5 DEF Halves
  <2> QED
    BY <1>1, <1>2, <1>5, <2>1, <2>6 DEF EndSwap, Exit, UnfinishedInv, FinishedInv
<1>6. CASE ByteSwap
  <2>1. PICK n \in 0..Len(file) : file' = SubSeq(SwapAll(file), 1, n)
    BY <1>6 DEF ByteSwap
  <2>2. CASE NoCrc(file)
    <3>1. NoCrc(file')
      BY <2>1, <2>2, TornFile DEF NoCrc
    <3> QED
      BY <1>1, <1>6, <3>1 DEF ByteSwap, UnfinishedInv, FinishedInv
  <2>3. CASE ~NoCrc(file)
    <3>1. whole # << >> /\ file \in Halves \union {SwapAll(f) : f \in Halves}
      BY <1>1, <2>3 DEF UnfinishedInv, FinishedInv
    <3>2. IsFile(file) /\ \A i \in 1..Len(file)-1 : file[i][1] # "crc"
      BY <1>1, <3>1, HalvesAre
    <3>3. Len(file) \in Nat
      BY <3>2 DEF IsFile, IsSeq
    <3>4. file' \in Halves \union {SwapAll(f) : f \in Halves} \/ NoCrc(file')
      <4>1. CASE n = Len(file)
        <5>1. IsFile(SwapAll(file)) /\ Len(SwapAll(file)) = Len(file)
          BY <3>2, SwapAllIs
        <5>2. file' = SwapAll(file)
          BY <2>1, <4>1, <5>1, AllOf
        <5> QED
          BY <1>1, <3>1, <5>2, HalvesTwice
      <4>2. CASE n # Len(file)
        <5>1. \A i \in 1..n : i \in 1..Len(file)-1
          BY <3>3, <4>2
        <5> QED
          BY <2>1, <3>2, <5>1, TornFile
      <4> QED
        BY <4>1, <4>2
    <3> QED
      BY <1>1, <1>2, <1>6, <3>1, <3>4 DEF ByteSwap, UnfinishedInv, FinishedInv
  <2> QED
    BY <2>2, <2>3
<1> QED
  BY <1>3, <1>4, <1>5, <1>6

\* Every step keeps what the files are.
LEMMA FilesKeep ==
    ASSUME IInv, [Next]_vars
    PROVE  UnfinishedInv' /\ FinishedInv'
<1>1. UnfinishedInv /\ FinishedInv /\ tool \in Tools
  BY DEF IInv, ToolInv, PlaceInv
<1>2. CASE Stamp
  <2>1. CASE UNCHANGED <<file, whole, tool, k>>
    BY <1>1, <2>1 DEF UnfinishedInv, FinishedInv, Halves, Bases
  <2>2. CASE file' = << >> /\ whole' = << >> /\ tool' \in {"section", "idle"}
    <3>1. NoCrc(<< >>)
      BY DEF NoCrc, IsFile, IsSeq
    <3> QED
      BY <2>2, <3>1 DEF UnfinishedInv, FinishedInv
  <2> QED
    BY <1>2, <2>1, <2>2 DEF Stamp, Exit
<1>3. CASE Section \/ FillSection \/ CodeSection \/ MoveSection \/ Verify
  <2>1. /\ tool \in Stamping /\ tool' \in {"section", "header", "idle"} \union Compressing
        /\ UNCHANGED <<file, whole>>
    BY <1>3 DEF Section, FillSection, CodeSection, MoveSection, Verify, Exit, Stamping, Compressing
  <2> QED
    BY <1>1, <2>1, StampingKeeps
<1>4. CASE WriteHeader \/ WriteFiller \/ WriteTail
  BY <1>4, HeaderWritten, FillerWritten, TailWritten
<1>5. CASE StartSwap \/ SwapWord \/ EndSwap \/ ByteSwap
  BY <1>5, SwapKeeps
<1>6. CASE Kill
  BY <1>1, <1>6 DEF Kill, Exit, UnfinishedInv, FinishedInv, Halves, Bases
<1>7. CASE UNCHANGED vars
  BY <1>1, <1>7 DEF vars, UnfinishedInv, FinishedInv, Halves, Bases
<1> QED
  BY <1>2, <1>3, <1>4, <1>5, <1>6, <1>7 DEF Next, Run

\* The last word is written behind the sections.
LEMMA WholeKeeps ==
    ASSUME IInv, [Next]_vars
    PROVE  WholeInv'
<1>1. CASE WriteTail
  <2>1. /\ tool = "tail" /\ UNCHANGED img /\ whole' = Append(file, CRC(file))
    BY <1>1 DEF WriteTail
  <2>2. /\ Fits(img) /\ sec = NumSections + 1 /\ StampedTo(hdr, img, body, sec - 1)
        /\ file = Filled(hdr, body)
    BY <2>1 DEF IInv, ToolInv, StampInv, Stamping
  <2>3. sec - 1 = NumSections
    BY <2>2, ImagesAre
  <2>4. StampedTo(hdr, img, body, NumSections) /\ whole' = Sealed(hdr, body)
    BY <2>1, <2>2, <2>3 DEF Sealed
  <2> QED
    BY <2>1, <2>2, <2>4 DEF WholeInv
<1>2. CASE Stamp
  <2>1. UNCHANGED img /\ (UNCHANGED whole \/ whole' = << >>)
    BY <1>2 DEF Stamp
  <2> QED
    BY <2>1 DEF IInv, WholeInv
<1>3. CASE UNCHANGED <<img, whole>>
  BY <1>3 DEF IInv, WholeInv
<1>4. [Next]_vars => WriteTail \/ Stamp \/ UNCHANGED <<img, whole>>
  BY DEF Next, Run, vars, StartSwap, ByteSwap, Section, FillSection, CodeSection, MoveSection, Verify,
         WriteHeader, WriteFiller, SwapWord, EndSwap, Kill
<1> QED
  BY <1>1, <1>2, <1>3, <1>4

-----------------------------------------------------------------------------
(* The invariant.                                                           *)

\* What the tools keep, and what a file is, from the first state on.
THEOREM ImageInductive == Spec => []IInv
<1>1. Init => IInv
  <2> SUFFICES ASSUME Init PROVE IInv
    OBVIOUS
  <2>1. 1 \in 1..NumSections+1 /\ << >> \in Seq(0..Low-1)
    <3>1. NumSections \in Nat
      BY ImagesAre
    <3> QED
      BY <3>1
  <2>2. PlaceInv
    BY <2>1 DEF Init, PlaceInv, Tools
  <2>3. CoderInv /\ StampInv
    BY DEF Init, CoderInv, StampInv, Stamping, Compressing
  <2>4. UnfinishedInv
    BY DEF Init, UnfinishedInv, NoCrc, IsFile, IsSeq
  <2>5. FinishedInv /\ WholeInv
    BY DEF Init, FinishedInv, WholeInv
  <2> QED
    BY <2>2, <2>3, <2>4, <2>5 DEF IInv, ToolInv
<1>2. IInv /\ [Next]_vars => IInv'
  BY ToolKeeps, FilesKeep, WholeKeeps DEF IInv
<1>3. Init /\ [][Next]_vars => []IInv
  BY <1>1, <1>2, PTL
<1> QED
  BY <1>3, PTL DEF Spec

\* apebyteswap never takes a file that it, or apestamp, has left half done.
THEOREM SwapSafe == Spec => []SwapIsSafe
<1>1. IInv => SwapIsSafe
  BY Accepted DEF IInv, SwapIsSafe, Bases
<1> QED
  BY <1>1, ImageInductive, PTL

\* The word that apebyteswap is at is in the file.
LEMMA FileIs == ASSUME IInv PROVE Len(file) \in Nat /\ (tool = "swap" => k \in 1..Len(file))
<1>1. CASE whole = << >>
  BY <1>1 DEF IInv, UnfinishedInv, NoCrc, IsFile, IsSeq
<1>2. CASE whole # << >>
  <2>1. FinishedInv
    BY DEF IInv
  <2>2. Len(file) \in Nat
    <3>1. IsFile(file)
      BY <1>2, <2>1, HalvesAre DEF FinishedInv, NoCrc
    <3> QED
      BY <3>1 DEF IsFile, IsSeq
  <2>3. ASSUME tool = "swap" PROVE k \in 1..Len(file)
    <3>1. PICK f \in Bases : file = Half(f, k) /\ k \in 1..Len(whole)
      BY <1>2, <2>1, <2>3 DEF FinishedInv
    <3>2. IsFile(f) /\ Len(f) = Len(whole)
      BY <1>2, <2>1, BasesAre
    <3>3. Len(file) = Len(whole)
      BY <3>1, <3>2, HalfFile
    <3> QED
      BY <3>1, <3>3
  <2> QED
    BY <2>2, <2>3
<1> QED
  BY <1>1, <1>2

\* The elements of a sequence of bytes.
LEMMA ByteOf == ASSUME NEW s \in Seq(0..Low-1) PROVE \A i \in 1..Len(s) : s[i] \in 0..Low-1
<1> DEFINE S == 0..Low-1
<1>1. s \in Seq(S)
  OBVIOUS
<1> HIDE DEF S
<1>2. \A i \in 1..Len(s) : s[i] \in S
  BY <1>1
<1> QED
  BY <1>2 DEF S

\* What the compressor has, when it codes and when it moves.
LEMMA CoderTypes ==
    ASSUME NEW z, NEW in, Coding(z, in) \/ Moving(z, in)
    PROVE  /\ z.matchLen \in 0..F /\ z.matchPos \in 0..N-1 /\ z.r = (z.s + N - F) % N
           /\ z.len \in 0..F /\ z.todo \in 0..F /\ z.mask \in 0..Group-1
           /\ \A x \in 0..N-1 : z.lson[x] \in 0..N /\ z.rson[x] \in 0..N
           /\ \A i \in 1..Len(z.buf) : z.buf[i] \in 0..Low-1
<1>1. z \in Compressor /\ Counted(z, in) /\ (z.todo = 0 \/ z.todo \in 1..z.len)
  BY DEF Coding, Moving, Base
<1>2. /\ Moved(z) \in Nat /\ N \in Nat \ {0} /\ F \in Nat /\ F > 0 /\ F + F <= N /\ N - F \in Nat
      /\ z.s = Moved(z) % N /\ z.r = (Moved(z) + (N - F)) % N /\ z.len \in Nat /\ z.len <= F
  BY <1>1, CountedIs
<1>3. z.r = (z.s + N - F) % N
  <2> DEFINE m == Moved(z)
             j == N - F
  <2>1. m \in Nat /\ j \in 0..N-1
    BY <1>2
  <2>2. z.s \in Nat /\ z.s + N - F = z.s + j
    <3>1. z.s \in Nat
      BY <1>1 DEF Compressor, Strings
    <3> QED
      BY <1>2, <3>1
  <2>3. z.s = m % N /\ z.r = (m + j) % N
    BY <1>2
  <2> HIDE DEF m, j
  <2>4. ((m % N) + j) % N = (m + j) % N
    BY <1>2, <2>1, ModAdd
  <2> QED
    BY <2>2, <2>3, <2>4
<1>4. /\ z.matchLen \in 0..F /\ z.matchPos \in 0..N-1 /\ z.mask \in 0..Group-1 /\ z.buf \in Seq(0..Low-1)
      /\ \A x \in 0..N-1 : z.lson[x] \in (0..N-1) \union {N} /\ z.rson[x] \in (0..N-1) \union {N}
  BY <1>1 DEF Compressor, Strings, NIL
<1>5. \A x \in 0..N-1 : z.lson[x] \in 0..N /\ z.rson[x] \in 0..N
  <2>1. (0..N-1) \union {N} \subseteq 0..N
    BY <1>2
  <2> QED
    BY <1>4, <2>1
<1>6. z.len \in 0..F /\ z.todo \in 0..F
  BY <1>1, <1>2
<1>7. \A i \in 1..Len(z.buf) : z.buf[i] \in 0..Low-1
  BY <1>4, ByteOf
<1> QED
  BY <1>3, <1>4, <1>5, <1>6, <1>7

\* The trees, the match, the window and what is put out stay in their ranges, and r
\* stays where it is from s, in every image that is compressed.
THEOREM TypeCorrect == Spec => []TypeOK
<1>1. IInv => TypeOK
  <2> SUFFICES ASSUME IInv PROVE TypeOK
    OBVIOUS
  <2>1. PlaceInv /\ CoderInv
    BY DEF IInv, ToolInv
  <2>2. Len(file) \in Nat /\ (tool = "swap" => k \in 1..Len(file))
    BY FileIs
  <2>3. k \in 1..Len(file)+1
    BY <2>1, <2>2 DEF PlaceInv
  <2>4. img \in Images /\ tool \in Tools /\ sec \in 1..NumSections+1 /\ body \in Seq(0..Low-1)
    BY <2>1 DEF PlaceInv
  <2>5. \A i \in 1..Len(body) : body[i] \in 0..Low-1
    BY <2>4, ByteOf
  <2>6. tool \in {"code", "move"} => Coding(lz, Content(img, sec)) \/ Moving(lz, Content(img, sec))
    BY <2>1 DEF CoderInv
  <2>7. tool \in {"code", "move"} =>
          /\ lz.matchLen \in 0..F /\ lz.matchPos \in 0..N-1 /\ lz.r = (lz.s + N - F) % N
          /\ lz.len \in 0..F /\ lz.todo \in 0..F /\ lz.mask \in 0..Group-1
          /\ \A x \in 0..N-1 : lz.lson[x] \in 0..N /\ lz.rson[x] \in 0..N
          /\ \A i \in 1..Len(lz.buf) : lz.buf[i] \in 0..Low-1
    BY <2>6, CoderTypes
  <2> QED
    BY <2>3, <2>4, <2>5, <2>7 DEF TypeOK
<1> QED
  BY <1>1, ImageInductive, PTL

\* What apestamp has coded stands for what it has read and is not ahead any more.
THEOREM RoundTrips == Spec => []RoundTrip
<1>1. IInv => RoundTrip
  <2> SUFFICES ASSUME IInv, tool = "code"
               PROVE  Decompress(lz.out \o (IF lz.mask = 0 THEN << >> ELSE lz.buf), Len(Content(img, sec)) + F)
                        = SubSeq(Content(img, sec), 1, lz.next - lz.len)
    BY DEF RoundTrip
  <2> DEFINE in == Content(img, sec)
             code == lz.out \o (IF lz.mask = 0 THEN << >> ELSE lz.buf)
             size == Len(in) + F
  <2>1. Coding(lz, in)
    BY DEF IInv, ToolInv, CoderInv
  <2>2. in \in Seq(Char)
    BY <2>1 DEF Coding, Base, Counted
  <2>3. Len(in) \in Nat /\ F \in Nat
    BY <2>2, Numbers
  <2>4. size \in Nat /\ size >= Len(in)
    BY <2>3
  <2>5. code = lz.out \o (IF lz.mask = 0 THEN << >> ELSE lz.buf)
    OBVIOUS
  <2> HIDE DEF code, size, in
  <2>6. Decompress(code, size) = SubSeq(in, 1, Moved(lz))
    BY <2>1, <2>4, <2>5, CodingDecodes
  <2> QED
    BY <2>6 DEF code, size, in, Moved
<1> QED
  BY <1>1, ImageInductive, PTL

\* What apestamp reads back is the section.
VerifyHolds ==
    tool = "verify" => Decompress(Padded(lz.out), Len(Content(img, sec))) = Content(img, sec)

\* No string of the window that is all input, and while the spaces before the input are in
\* the window none of theirs, agrees with the string that is coded next in more bytes than
\* the match that InsertNode leaves, and the match is one.
THEOREM LongestMatches == Spec => []MatchIsLongest
<1>1. IInv => MatchIsLongest
  <2> SUFFICES ASSUME IInv, tool = "code" PROVE MatchIsLongest
    BY DEF MatchIsLongest
  <2>1. Coding(lz, Content(img, sec))
    BY DEF IInv, ToolInv, CoderInv
  <2> QED
    BY <2>1, CodingLongest DEF MatchIsLongest, Moved
<1> QED
  BY <1>1, ImageInductive, PTL

\* apestamp never ends because a section is not what it was (apestamp.c:486-500).
THEOREM NeverRefused == Spec => []VerifyHolds
<1>1. IInv => VerifyHolds
  BY Verified DEF IInv, VerifyHolds
<1> QED
  BY <1>1, ImageInductive, PTL

-----------------------------------------------------------------------------
(* The bytes of a file.                                                     *)

\* Products with the number of bytes in a word.
LEMMA Times ==
    ASSUME NEW w \in Nat, NEW i \in Nat, NEW c \in Nat, 1 <= i, i <= c
    PROVE  /\ w * (i - 1) \in Nat /\ w * i = (w * (i - 1)) + w /\ w * i \in Nat
           /\ w * i <= w * c /\ w * c \in Nat
<1>1. \A x, y \in Nat : x * y \in Nat
  OBVIOUS
<1>2. \A x, y, z \in Nat : y <= z => x * y <= x * z
  OBVIOUS
<1>3. \A x, y \in Nat : x * (y + 1) = (x * y) + x
  OBVIOUS
<1>4. i - 1 \in Nat /\ (i - 1) + 1 = i
  OBVIOUS
<1> QED
  BY <1>1, <1>2, <1>3, <1>4

\* Two pieces, one behind the other.
LEMMA SubSeqJoin ==
    ASSUME NEW S, NEW b \in Seq(S), NEW p \in Nat, NEW q \in Nat, p <= q, q <= Len(b)
    PROVE  SubSeq(b, 1, p) \o SubSeq(b, p + 1, q) = SubSeq(b, 1, q)
<1> DEFINE s == SubSeq(b, 1, p)
           t == SubSeq(b, p + 1, q)
           u == SubSeq(b, 1, q)
<1>1. s \in Seq(S) /\ Len(s) = p /\ \A j \in 1..p : s[j] = b[j]
  OBVIOUS
<1>2. t \in Seq(S) /\ Len(t) = q - p /\ \A j \in 1..(q - p) : t[j] = b[p + j]
  <2>1. t = [j \in 1..(q - p) |-> b[p + j]]
    OBVIOUS
  <2>2. \A j \in 1..(q - p) : b[p + j] \in S
    OBVIOUS
  <2>3. q - p \in Nat
    OBVIOUS
  <2> HIDE DEF t
  <2>4. t \in Seq(S) /\ Len(t) = q - p
    BY <2>1, <2>2, <2>3, ASequence
  <2> QED
    BY <2>1, <2>4
<1>3. u \in Seq(S) /\ Len(u) = q /\ \A j \in 1..q : u[j] = b[j]
  OBVIOUS
<1> HIDE DEF s, t, u
<1>4. s \o t \in Seq(S) /\ Len(s \o t) = q
  BY <1>1, <1>2
<1>5. ASSUME NEW j \in 1..q PROVE (s \o t)[j] = u[j]
  <2>1. CASE j <= p
    <3>1. j \in 1..p /\ j \in 1..Len(s)
      BY <1>1, <2>1
    <3>2. (s \o t)[j] = s[j]
      BY <1>1, <1>2, <3>1
    <3> QED
      BY <1>1, <1>3, <3>1, <3>2
  <2>2. CASE ~(j <= p)
    <3>1. j - p \in 1..(q - p) /\ p + (j - p) = j
      BY <2>2
    <3>2. (s \o t)[j] = t[j - p]
      BY <1>1, <1>2, <2>2, <3>1
    <3> QED
      BY <1>2, <1>3, <3>1, <3>2
  <2> QED
    BY <2>1, <2>2
<1>6. s \o t = u
  <2> DEFINE v == s \o t
  <2>1. v \in Seq(S) /\ u \in Seq(S) /\ Len(v) = Len(u) /\ \A j \in 1..Len(v) : v[j] = u[j]
    BY <1>3, <1>4, <1>5
  <2> HIDE DEF v
  <2>2. v = u
    BY <2>1
  <2> QED
    BY <2>2 DEF v
<1> QED
  BY <1>6 DEF s, t, u

\* A step of the recursion of FlattenSeq.
FlattenStep(seqs, f) == [i \in 1..Len(seqs) |-> IF i = 1 THEN seqs[i] ELSE f[i - 1] \o seqs[i]]

\* FlattenSeq is that recursion.
LEMMA FlattenChoice ==
    ASSUME NEW seqs, Len(seqs) # 0, NEW g, g = FlattenStep(seqs, g)
    PROVE  \E f : f = FlattenStep(seqs, f) /\ FlattenSeq(seqs) = f[Len(seqs)]
<1> DEFINE f == CHOOSE h : h = FlattenStep(seqs, h)
<1>1. f = FlattenStep(seqs, f)
  OBVIOUS
<1>2. FlattenSeq(seqs) = f[Len(seqs)]
  BY Zenon DEF FlattenSeq, FlattenStep
<1> QED
  BY <1>1, <1>2

\* The sequence b in pieces of w.
Pieces(b, w, n) == [i \in 1..n |-> SubSeq(b, (w * (i - 1)) + 1, w * i)]

\* The pieces of a sequence are put together again.
LEMMA FlattenIs ==
    ASSUME NEW S, NEW b \in Seq(S), NEW n \in Nat, n >= 1, NEW w \in Nat, Len(b) = w * n
    PROVE  FlattenSeq(Pieces(b, w, n)) = b
<1> DEFINE seqs == Pieces(b, w, n)
           g == [i \in 1..n |-> SubSeq(b, 1, w * i)]
<1>0. seqs = [i \in 1..n |-> SubSeq(b, (w * (i - 1)) + 1, w * i)]
  BY DEF Pieces
<1> HIDE DEF seqs
<1>1. Len(seqs) = n
  BY <1>0
<1>2. ASSUME NEW i \in 1..n
      PROVE  SubSeq(b, 1, w * (i - 1)) \o SubSeq(b, (w * (i - 1)) + 1, w * i) = SubSeq(b, 1, w * i)
  <2> DEFINE p == w * (i - 1)
             q == w * i
  <2>1. p \in Nat /\ q \in Nat /\ p <= q /\ q <= Len(b)
    <3>1. i \in Nat /\ 1 <= i /\ i <= n
      OBVIOUS
    <3>2. w * (i - 1) \in Nat /\ w * i = (w * (i - 1)) + w /\ w * i \in Nat /\ w * i <= w * n
      BY <3>1, Times
    <3> HIDE DEF p, q
    <3>3. p \in Nat /\ q = p + w /\ q \in Nat /\ q <= Len(b)
      BY <3>2 DEF p, q
    <3> QED
      BY <3>3
  <2> HIDE DEF p, q
  <2>2. SubSeq(b, 1, p) \o SubSeq(b, p + 1, q) = SubSeq(b, 1, q)
    BY <2>1, SubSeqJoin
  <2> QED
    BY <2>2 DEF p, q
<1>3. \A i \in 1..n : seqs[i] = SubSeq(b, (w * (i - 1)) + 1, w * i)
  BY <1>0
<1>4. SubSeq(b, 1, w * 0) = << >> /\ SubSeq(b, 1, w * n) = b
  <2>1. w * 0 = 0 /\ SubSeq(b, 1, 0) = << >>
    OBVIOUS
  <2>2. SubSeq(b, 1, Len(b)) = b
    OBVIOUS
  <2> QED
    BY <2>1, <2>2
<1>5. seqs[1] = g[1]
  <2>1. 1 \in 1..n /\ w * (1 - 1) = 0 /\ w * 1 = w
    OBVIOUS
  <2>2. seqs[1] = SubSeq(b, 1, w)
    BY <1>3, <2>1
  <2> QED
    BY <2>1, <2>2
<1>6. \A i \in 1..n : i # 1 => i - 1 \in 1..n /\ g[i] = g[i - 1] \o seqs[i]
  <2> SUFFICES ASSUME NEW i \in 1..n, i # 1 PROVE i - 1 \in 1..n /\ g[i] = g[i - 1] \o seqs[i]
    OBVIOUS
  <2>1. i - 1 \in 1..n
    OBVIOUS
  <2>2. g[i] = SubSeq(b, 1, w * i) /\ g[i - 1] = SubSeq(b, 1, w * (i - 1))
    BY <2>1
  <2> HIDE DEF g
  <2> QED
    BY <1>2, <1>3, <2>1, <2>2
<1>7. g = FlattenStep(seqs, g)
  <2>1. g = [i \in 1..n |-> g[i]]
    OBVIOUS
  <2> HIDE DEF g
  <2>2. \A i \in 1..n : g[i] = IF i = 1 THEN seqs[i] ELSE g[i - 1] \o seqs[i]
    BY <1>5, <1>6
  <2> QED
    BY <1>1, <2>1, <2>2 DEF FlattenStep
<1>8. g[n] = b
  <2>1. n \in 1..n
    OBVIOUS
  <2> QED
    BY <1>4, <2>1
<1> HIDE DEF g
<1>9. PICK f : f = FlattenStep(seqs, f) /\ FlattenSeq(seqs) = f[Len(seqs)]
  <2>1. Len(seqs) # 0
    BY <1>1
  <2> QED
    BY <1>7, <2>1, FlattenChoice
<1>10. \A i \in 1..n : f[i] = IF i = 1 THEN seqs[i] ELSE f[i - 1] \o seqs[i]
  <2>1. \A i \in 1..n : FlattenStep(seqs, f)[i] = IF i = 1 THEN seqs[i] ELSE f[i - 1] \o seqs[i]
    BY <1>1 DEF FlattenStep
  <2> QED
    BY <1>9, <2>1, Zenon
<1> DEFINE T == {k0 \in Nat : k0 + 1 <= n => f[k0 + 1] = g[k0 + 1]}
<1>11. 0 \in T
  <2>1. 1 \in 1..n /\ 0 + 1 = 1
    OBVIOUS
  <2>2. f[1] = g[1]
    BY <1>5, <1>10, <2>1
  <2> QED
    BY <2>1, <2>2
<1>12. ASSUME NEW j \in T PROVE j + 1 \in T
  <2>1. j \in Nat /\ (j + 1 <= n => f[j + 1] = g[j + 1]) /\ (j + 1) + 1 = j + 2
    OBVIOUS
  <2>2. ASSUME j + 2 <= n PROVE f[j + 2] = g[j + 2]
    <3>1. j + 2 \in 1..n /\ j + 2 # 1 /\ (j + 2) - 1 = j + 1 /\ j + 1 <= n
      BY <2>1, <2>2
    <3>2. f[j + 2] = f[(j + 2) - 1] \o seqs[j + 2] /\ g[j + 2] = g[(j + 2) - 1] \o seqs[j + 2]
      BY <1>6, <1>10, <3>1
    <3> QED
      BY <2>1, <3>1, <3>2
  <2> QED
    BY <2>1, <2>2
<1>13. T \subseteq Nat
  OBVIOUS
<1> HIDE DEF T
<1>14. T = Nat
  BY <1>11, <1>12, <1>13, Induct
<1>15. f[n] = g[n]
  <2> DEFINE j == n - 1
  <2>1. j \in Nat /\ j + 1 = n
    OBVIOUS
  <2> HIDE DEF j
  <2>2. j \in T
    BY <1>14, <2>1
  <2>3. j + 1 <= n => f[j + 1] = g[j + 1]
    BY <2>2 DEF T
  <2> QED
    BY <2>1, <2>3
<1> QED
  BY <1>1, <1>8, <1>9, <1>15 DEF seqs

\* The words of a stamped file, in the order of bytes that apeimg opens.
HeaderWord(h)  == <<"hdr", [sections |-> h, sum |-> HdrSum(h)], 0>>
CodeWord(b, i) == <<"code", SubSeq(b, (W * (i - 1)) + 1, W * i), 0>>

\* The bytes of such a word.
LEMMA CodeWordIs ==
    ASSUME NEW b, NEW i
    PROVE  CodeWord(b, i)[1] = "code" /\ CodeWord(b, i)[2] = SubSeq(b, (W * (i - 1)) + 1, W * i)
<1> DEFINE s == SubSeq(b, (W * (i - 1)) + 1, W * i)
<1>1. CodeWord(b, i) = <<"code", s, 0>>
  BY DEF CodeWord
<1> HIDE DEF s
<1>2. CodeWord(b, i)[1] = "code" /\ CodeWord(b, i)[2] = s
  BY <1>1
<1> QED
  BY <1>2 DEF s

\* n zeros.
Zeros(n) == [j \in 1..n |-> 0]

\* A file with the sections of b, in the order of bytes they are stamped in.
Carries(f, h, b) ==
    LET c == Len(b) \div W IN
    /\ Len(f) = c + 3 /\ f[1] = HeaderWord(h)
    /\ \A i \in 1..c : f[i + 1] = CodeWord(b, i)
    /\ f[c + 2][1] # "code" /\ f[c + 3][1] # "code"

\* How many bytes whole words have.
LEMMA WordsIn ==
    ASSUME NEW n \in Nat, n % W = 0
    PROVE  /\ W \in Nat /\ W >= 1 /\ n \div W \in Nat /\ W * (n \div W) = n
           /\ W * ((n \div W) + 2) = n + (2 * W) /\ W * ((n \div W) + 3) = n + (3 * W)
<1>1. W \in Nat \ {0}
  BY ImagesAre
<1> DEFINE c == n \div W
<1>2. c \in Nat /\ n = (c * W) + (n % W) /\ c * W \in Nat
  BY <1>1, ModRange
<1> HIDE DEF c
<1>3. W * c = n
  BY <1>1, <1>2
<1>4. W * (c + 2) = (W * c) + (2 * W) /\ W * (c + 3) = (W * c) + (3 * W)
  BY <1>1, <1>2
<1>5. W \in Nat /\ W >= 1 /\ W * (c + 2) = n + (2 * W) /\ W * (c + 3) = n + (3 * W)
  BY <1>1, <1>3, <1>4
<1> QED
  BY <1>2, <1>3, <1>5 DEF c

\* Zeros are bytes.
LEMMA ZerosAre ==
    ASSUME NEW n \in Nat
    PROVE  Zeros(n) \in Seq(0..Low-1) /\ Len(Zeros(n)) = n /\ \A j \in 1..n : Zeros(n)[j] = 0
<1> DEFINE S == 0..Low-1
           t == Zeros(n)
<1>1. t = [j \in 1..n |-> t[j]] /\ (\A j \in 1..n : t[j] = 0) /\ 0 \in S
  BY Numbers DEF Zeros
<1> HIDE DEF S, t
<1>2. t \in Seq(S) /\ Len(t) = n
  BY <1>1, ASequence
<1> QED
  BY <1>1, <1>2 DEF S, t

\* What is behind the sections is zero.
LEMMA BehindIs ==
    ASSUME NEW b \in Seq(0..Low-1), NEW p \in Nat, NEW n \in Nat, NEW w \in Nat,
           Len(b) <= p, p + w <= Len(b) + n
    PROVE  SubSeq(b \o Zeros(n), p + 1, p + w) = Zeros(w)
<1> DEFINE S == 0..Low-1
           z == Zeros(n)
           big == b \o z
<1>1. b \in Seq(S) /\ z \in Seq(S) /\ Len(z) = n /\ \A j \in 1..n : z[j] = 0
  BY ZerosAre
<1> HIDE DEF S, z
<1>2. big \in Seq(S) /\ Len(big) = Len(b) + n /\ Len(b) \in Nat
  BY <1>1
<1>3. SubSeq(big, p + 1, p + w) = [j \in 1..w |-> big[p + j]]
  <2> HIDE DEF big
  <2> QED
    BY <1>2
<1>4. \A j \in 1..w : big[p + j] = 0
  <2> SUFFICES ASSUME NEW j \in 1..w PROVE big[p + j] = 0
    OBVIOUS
  <2>1. (p + j) - Len(b) \in 1..n /\ p + j > Len(b) /\ p + j \in 1..Len(b)+n
    BY <1>2
  <2>2. big[p + j] = z[(p + j) - Len(b)]
    BY <1>1, <2>1
  <2> QED
    BY <1>1, <2>1, <2>2
<1>5. SubSeq(big, p + 1, p + w) = Zeros(w)
  BY <1>3, <1>4 DEF Zeros
<1> QED
  BY <1>5 DEF z

\* The bytes behind the header are those of the sections, and zeros.
LEMMA BytesIs ==
    ASSUME NEW f, NEW h, NEW b \in Seq(0..Low-1), Len(b) % W = 0, Carries(f, h, b)
    PROVE  Bytes(f) = b \o Zeros(2 * W)
<1> DEFINE S == 0..Low-1
           n == Len(b)
           c == n \div W
           z == Zeros(2 * W)
           big == b \o z
           seqs == [i \in 1..Len(f)-1 |-> IF f[i+1][1] = "code" THEN f[i+1][2] ELSE [j \in 1..W |-> 0]]
<1>0. b \in Seq(S) /\ n \in Nat /\ n % W = 0
  OBVIOUS
<1>1. /\ W \in Nat /\ W >= 1 /\ c \in Nat /\ W * c = n /\ W * (c + 2) = n + (2 * W) /\ 2 * W \in Nat
  <2> HIDE DEF n
  <2>1. /\ W \in Nat /\ W >= 1 /\ c \in Nat /\ W * c = n /\ W * (c + 2) = n + (2 * W)
    BY <1>0, WordsIn
  <2> QED
    BY <2>1
<1>2. /\ Len(f) = c + 3 /\ \A i \in 1..c : f[i + 1] = CodeWord(b, i)
      /\ f[c + 2][1] # "code" /\ f[c + 3][1] # "code"
  BY DEF Carries
<1>3. Bytes(f) = FlattenSeq(seqs)
  BY DEF Bytes
<1>4. z \in Seq(S) /\ Len(z) = 2 * W
  BY <1>1, ZerosAre
<1> HIDE DEF c, z
<1>5. big \in Seq(S) /\ Len(big) = W * (c + 2)
  <2> HIDE DEF S
  <2>1. big \in Seq(S) /\ Len(big) = n + (2 * W)
    BY <1>0, <1>4
  <2> QED
    BY <1>1, <2>1
<1>6. seqs = [i \in 1..c+2 |-> IF f[i+1][1] = "code" THEN f[i+1][2] ELSE [j \in 1..W |-> 0]]
  <2>1. Len(f) - 1 = c + 2
    BY <1>1, <1>2
  <2> QED
    BY <2>1
<1> HIDE DEF seqs, n
<1>7. ASSUME NEW i \in 1..c+2
      PROVE  (IF f[i+1][1] = "code" THEN f[i+1][2] ELSE [j \in 1..W |-> 0])
                = SubSeq(big, (W * (i - 1)) + 1, W * i)
  <2> DEFINE p == W * (i - 1)
  <2>1. p \in Nat /\ W * i = p + W /\ p + W <= n + (2 * W)
    <3>1. i \in Nat /\ c + 2 \in Nat /\ 1 <= i /\ i <= c + 2
      BY <1>1
    <3>2. W * (i - 1) \in Nat /\ W * i = (W * (i - 1)) + W /\ W * i <= W * (c + 2)
      BY <1>1, <3>1, Times
    <3> QED
      BY <1>1, <3>2
  <2>2. CASE i \in 1..c
    <3>1. p + W <= n
      <4>1. i \in Nat /\ 1 <= i /\ i <= c
        BY <1>1, <2>2
      <4>2. W * i <= W * c
        BY <1>1, <4>1, Times
      <4> QED
        BY <1>1, <2>1, <4>2
    <3>2. f[i + 1] = CodeWord(b, i)
      BY <1>2, <2>2
    <3>3. f[i + 1][1] = "code" /\ f[i + 1][2] = SubSeq(b, p + 1, p + W)
      <4>1. f[i + 1][1] = "code" /\ f[i + 1][2] = SubSeq(b, p + 1, W * i)
        BY <3>2, CodeWordIs
      <4>2. W * i = p + W
        BY <2>1
      <4> HIDE DEF p
      <4> QED
        BY <4>1, <4>2
    <3> HIDE DEF p, S
    <3>4. SubSeq(big, p + 1, p + W) = SubSeq(b, p + 1, p + W)
      BY <1>0, <1>1, <1>4, <2>1, <3>1, SubSeqBefore DEF n
    <3> QED
      BY <2>1, <3>3, <3>4 DEF p
  <2>3. CASE i \notin 1..c
    <3>1. f[i + 1][1] # "code"
      <4>1. i = c + 1 \/ i = c + 2
        BY <1>1, <2>3
      <4>2. (c + 1) + 1 = c + 2 /\ (c + 2) + 1 = c + 3
        BY <1>1
      <4> QED
        BY <1>2, <4>1, <4>2
    <3>2. n <= p
      <4>1. c + 1 \in Nat /\ i \in Nat /\ c + 1 <= i /\ i - 1 \in Nat /\ c <= i - 1
        BY <1>1, <2>3
      <4>2. \A x, y \in Nat : x <= y => W * x <= W * y
        BY <1>1
      <4>3. W * c <= W * (i - 1)
        BY <1>1, <4>1, <4>2
      <4> QED
        BY <1>1, <4>3
    <3> HIDE DEF p
    <3>3. SubSeq(big, p + 1, p + W) = Zeros(W)
      <4>1. Len(b) <= p /\ p + W <= Len(b) + (2 * W)
        BY <2>1, <3>2 DEF n
      <4>2. SubSeq(b \o Zeros(2 * W), p + 1, p + W) = Zeros(W)
        <5> DEFINE tail == 2 * W
        <5>1. tail \in Nat /\ Len(b) <= p /\ p + W <= Len(b) + tail /\ p \in Nat /\ W \in Nat
          BY <1>1, <2>1, <4>1
        <5> HIDE DEF tail
        <5>2. SubSeq(b \o Zeros(tail), p + 1, p + W) = Zeros(W)
          BY ZenonT(30), <5>1, BehindIs
        <5> QED
          BY <5>2 DEF tail
      <4> QED
        BY <4>2 DEF z
    <3> QED
      BY <2>1, <3>1, <3>3 DEF p, Zeros
  <2> QED
    BY <2>2, <2>3
<1> HIDE DEF big, S
<1>8. seqs = [i \in 1..c+2 |-> SubSeq(big, (W * (i - 1)) + 1, W * i)]
  BY <1>6, <1>7
<1>9. FlattenSeq(seqs) = big
  <2> DEFINE e == c + 2
  <2>1. e \in Nat /\ e >= 1 /\ Len(big) = W * e /\ W \in Nat
    BY <1>1, <1>5
  <2>2. seqs = Pieces(big, W, e)
    BY <1>8, Zenon DEF Pieces
  <2> HIDE DEF e
  <2> QED
    BY <1>5, <2>1, <2>2, FlattenIs
<1> QED
  BY <1>3, <1>9 DEF big, z

-----------------------------------------------------------------------------
(* What apeimg says of a file.                                              *)

\* The CRC is right, and right when all is turned.
TailFits(f) == CRC(Front(f)) = Last(f)
BackFits(f) == CRC(SwapAll(Front(f))) = SwapEndian32(Last(f))

\* The greatest of a set of numbers.
LEMMA MaxIs ==
    ASSUME NEW S, S \subseteq Nat, NEW x \in S, \A y \in S : y <= x
    PROVE  Max(S) = x
<1>1. \E z \in S : \A y \in S : z >= y
  OBVIOUS
<1>2. Max(S) \in S /\ \A y \in S : Max(S) >= y
  BY <1>1, Zenon DEF Max
<1> DEFINE t == Max(S)
<1>3. t \in Nat /\ x \in Nat /\ t >= x /\ t <= x
  BY <1>2
<1> HIDE DEF t
<1>4. t = x
  BY <1>3
<1> QED
  BY <1>4 DEF t

\* A file whose CRC is right in neither order has a defect.
LEMMA InfoCrc == ASSUME NEW f, ~TailFits(f), ~BackFits(f) PROVE Info(f) # {}
<1>1. "crc" \in Info(f)
  BY DEF Info, TailFits, BackFits
<1> QED
  BY <1>1

\* The sections come out as they were.
LEMMA ExtractIs ==
    ASSUME NEW m, NEW h, NEW b, StampedTo(h, m, b, NumSections), NEW f, Carries(f, h, b),
           NEW i \in 1..NumSections, m.sections[i].zero # 1
    PROVE  Extract(f, i) = Content(m, i)
<1> DEFINE x == h[i]
           off == x.offset
           u == x.csize
<1>1. b \in Seq(0..Low-1) /\ Len(b) % W = 0 /\ IsStamped(x, m, i, b)
  BY DEF StampedTo
<1>2. /\ x.zero = 0 /\ x.usize = m.sections[i].usize /\ off \in Nat /\ u \in Nat /\ off >= W
      /\ off + u <= W + Len(b)
      /\ Decompress(SubSeq(b, off - W + 1, off - W + u), x.usize) = Content(m, i)
  BY <1>1 DEF IsStamped
<1>3. Len(b) \in Nat
  BY <1>1
<1>4. W \in Nat /\ W >= 1 /\ W * ((Len(b) \div W) + 3) = Len(b) + (3 * W)
  <2> DEFINE n == Len(b)
  <2>1. n \in Nat /\ n % W = 0
    BY <1>1, <1>3
  <2> HIDE DEF n
  <2>2. W \in Nat /\ W >= 1 /\ W * ((n \div W) + 3) = n + (3 * W)
    BY <2>1, WordsIn
  <2> QED
    BY <2>2 DEF n
<1>5. Len(f) = (Len(b) \div W) + 3 /\ f[1] = HeaderWord(h)
  BY DEF Carries
<1>6. f[1][2].sections[i] = x
  BY <1>5 DEF HeaderWord
<1> HIDE DEF x, off, u
<1>7. ~(off + u > W * Len(f))
  <2>1. W * Len(f) = Len(b) + (3 * W)
    BY <1>4, <1>5
  <2> QED
    BY <1>2, <1>3, <1>4, <2>1
<1>8. SubSeq(Bytes(f), off - W + 1, off - W + u) = SubSeq(b, off - W + 1, off - W + u)
  <2> DEFINE a == off - W
             S == 0..Low-1
             z == Zeros(2 * W)
  <2>1. a \in Nat /\ a + u <= Len(b)
    BY <1>2, <1>3, <1>4
  <2>2. Bytes(f) = b \o z
    BY <1>1, BytesIs
  <2>3. b \in Seq(S) /\ z \in Seq(S)
    BY <1>1, <1>4, ZerosAre
  <2> HIDE DEF a, S, z
  <2>4. SubSeq(b \o z, a + 1, a + u) = SubSeq(b, a + 1, a + u)
    BY <1>2, <2>1, <2>3, SubSeqBefore
  <2> QED
    BY <2>2, <2>4 DEF a
<1>9. Extract(f, i) = Decompress(SubSeq(Bytes(f), off - W + 1, off - W + u), x.usize)
  <2>1. ~(x.zero = 1) /\ x.offset = off /\ x.csize = u
    BY <1>2 DEF off, u
  <2> QED
    BY <1>6, <1>7, <2>1 DEF Extract
<1> QED
  BY <1>2, <1>8, <1>9

\* Nothing else is found in it.
LEMMA InfoIs ==
    ASSUME NEW m, NEW h, NEW b, StampedTo(h, m, b, NumSections), NEW f, Carries(f, h, b)
    PROVE  /\ TailFits(f) => Info(f) = {}
           /\ ~TailFits(f) /\ BackFits(f) => Info(f) = {"crcswap"}
<1> DEFINE g    == f[1][2]
           used == {i \in DOMAIN g.sections : g.sections[i].zero = 0}
           ends == {W} \union {g.sections[i].offset + g.sections[i].csize : i \in used}
           hwm  == Max(ends)
           slack == (W * Len(f)) - W - hwm # W
           sums == \E i \in used : Extract(f, i) # g.sections[i].sum
           top  == g.sum # Zero /\ g.sum # HdrSum(g.sections)
<1>1. /\ DOMAIN h = 1..NumSections /\ b \in Seq(0..Low-1) /\ Len(b) % W = 0 /\ EndsWith(h, b, NumSections)
      /\ \A i \in 1..NumSections : IsStamped(h[i], m, i, b)
  BY DEF StampedTo
<1>2. f[1] = HeaderWord(h) /\ Len(f) = (Len(b) \div W) + 3
  BY DEF Carries
<1>3. g = [sections |-> h, sum |-> HdrSum(h)]
  BY <1>2 DEF HeaderWord
<1>4. g.sections = h /\ g.sum = HdrSum(g.sections)
  BY <1>3
<1> HIDE DEF g
<1>5. ~top
  BY <1>4
<1>6. used \subseteq 1..NumSections
  BY <1>1, <1>4
<1>7. ASSUME NEW i \in used
      PROVE  /\ m.sections[i].zero # 1 /\ i \in 1..NumSections /\ g.sections[i] = h[i]
             /\ h[i].sum = Content(m, i) /\ h[i].offset + h[i].csize \in Nat
             /\ h[i].offset + h[i].csize <= W + Len(b)
  <2>1. i \in 1..NumSections /\ h[i].zero = 0 /\ g.sections[i] = h[i]
    BY <1>1, <1>4
  <2>2. IsStamped(h[i], m, i, b)
    BY <1>1, <2>1
  <2>3. m.sections[i].zero # 1
    BY <2>1, <2>2 DEF IsStamped
  <2>4. /\ h[i].sum = Content(m, i) /\ h[i].offset \in Nat /\ h[i].csize \in Nat
        /\ h[i].offset + h[i].csize <= W + Len(b)
    BY <2>2, <2>3 DEF IsStamped
  <2> QED
    BY <2>1, <2>3, <2>4
<1>8. ~sums
  BY <1>7, ExtractIs
<1>9. Len(b) \in Nat
  BY <1>1
<1>10. W \in Nat /\ W >= 1 /\ W * ((Len(b) \div W) + 3) = Len(b) + (3 * W)
  <2> DEFINE n == Len(b)
  <2>1. n \in Nat /\ n % W = 0
    BY <1>1, <1>9
  <2> HIDE DEF n
  <2>2. W \in Nat /\ W >= 1 /\ W * ((n \div W) + 3) = n + (3 * W)
    BY <2>1, WordsIn
  <2> QED
    BY <2>2 DEF n
<1>11. hwm = W + Len(b)
  <2> DEFINE top0 == W + Len(b)
  <2>1. ends \subseteq Nat
    BY <1>7, <1>10
  <2>2. top0 \in ends
    <3>1. CASE b = << >>
      BY <1>10, <3>1
    <3>2. ASSUME NEW i \in 1..NumSections, h[i].zero = 0 /\ h[i].offset + h[i].csize = W + Len(b)
          PROVE  top0 \in ends
      <4>1. i \in used /\ g.sections[i].offset + g.sections[i].csize = top0
        BY <1>1, <1>4, <3>2
      <4> QED
        BY <4>1
    <3> QED
      BY <1>1, <3>1, <3>2 DEF EndsWith
  <2>3. \A y \in ends : y <= top0
    BY <1>7, <1>9, <1>10
  <2> HIDE DEF ends, top0
  <2>4. Max(ends) = top0
    BY <2>1, <2>2, <2>3, MaxIs
  <2> QED
    BY <2>4 DEF top0
<1>12. ~slack
  <2>1. W * Len(f) = Len(b) + (3 * W)
    BY <1>2, <1>10
  <2> HIDE DEF hwm
  <2> QED
    BY <1>9, <1>10, <1>11, <2>1
<1>13. Info(f) = {d \in {"crc", "crcswap", "slack"} :
            \/ d = "crc" /\ \/ top
                            \/ ~TailFits(f) /\ ~BackFits(f)
                            \/ sums
            \/ d = "crcswap" /\ ~TailFits(f) /\ BackFits(f)
            \/ d = "slack" /\ slack}
  BY Zenon DEF Info, TailFits, BackFits, g
<1> HIDE DEF top, sums, slack
<1> QED
  BY <1>5, <1>8, <1>12, <1>13

\* What apestamp writes carries the sections.
LEMMA SealedIs ==
    ASSUME NEW h, NEW b \in Seq(0..Low-1), Len(b) % W = 0, NEW f, f = Sealed(h, b)
    PROVE  Carries(f, h, b)
<1> DEFINE c == Len(b) \div W
           hw == HeaderWord(h)
           codes == [i \in 1..c |-> CodeWord(b, i)]
           w == Written(h, b)
           fill == <<"filler", 0, 0>>
           v == Filled(h, b)
<1>1. c \in Nat
  <2>1. Len(b) \in Nat /\ W \in Nat \ {0}
    BY ImagesAre
  <2> QED
    BY <2>1, ModRange
<1>2. w = <<hw>> \o codes
  BY DEF Written, HeaderWord, CodeWord
<1>3. \A i \in 1..c : codes[i] = CodeWord(b, i)
  OBVIOUS
<1> HIDE DEF w, hw, c
<1>4. IsSeq(<<hw>>) /\ Len(<<hw>>) = 1 /\ <<hw>>[1] = hw /\ IsSeq(codes) /\ Len(codes) = c
  BY <1>1 DEF IsSeq
<1> HIDE DEF codes
<1>5. /\ IsSeq(w) /\ Len(w) = c + 1 /\ w[1] = hw
      /\ \A i \in 1..c : w[i + 1] = codes[i]
  <2> DEFINE S == {hw} \union {codes[i] : i \in 1..c}
  <2>1. <<hw>> \in Seq(S) /\ codes \in Seq(S)
    BY <1>1, <1>4 DEF IsSeq
  <2> HIDE DEF S
  <2>2. /\ <<hw>> \o codes \in Seq(S) /\ Len(<<hw>> \o codes) = c + 1 /\ (<<hw>> \o codes)[1] = hw
        /\ \A i \in 1..c : (<<hw>> \o codes)[i + 1] = codes[i]
    BY <1>1, <1>4, <2>1
  <2> QED
    BY <1>2, <2>2, SeqInSeq
<1>6. v = Append(w, fill)
  BY DEF Filled, w
<1> HIDE DEF v, fill
<1>7. /\ IsSeq(v) /\ Len(v) = c + 2 /\ \A i \in 1..c+2 : v[i] = IF i <= c + 1 THEN w[i] ELSE fill
  <2>1. /\ IsSeq(v) /\ Len(v) = Len(w) + 1
        /\ v = [i \in 1..Len(w)+1 |-> IF i <= Len(w) THEN w[i] ELSE fill]
    BY <1>5, <1>6, AppendIs
  <2>2. Len(w) + 1 = c + 2 /\ Len(w) = c + 1
    BY <1>1, <1>5
  <2> QED
    BY <2>1, <2>2
<1>8. f = Append(v, CRC(v))
  BY DEF Sealed, v
<1>9. /\ Len(f) = c + 3 /\ \A i \in 1..c+3 : f[i] = IF i <= c + 2 THEN v[i] ELSE CRC(v)
  <2>1. /\ Len(f) = Len(v) + 1
        /\ f = [i \in 1..Len(v)+1 |-> IF i <= Len(v) THEN v[i] ELSE CRC(v)]
    BY <1>7, <1>8, AppendIs
  <2>2. Len(v) + 1 = c + 3 /\ Len(v) = c + 2
    BY <1>1, <1>7
  <2> QED
    BY <2>1, <2>2
<1>10. f[1] = hw
  BY <1>1, <1>5, <1>7, <1>9
<1>11. ASSUME NEW i \in 1..c PROVE f[i + 1] = CodeWord(b, i)
  <2>1. i + 1 \in 1..c+3 /\ i + 1 \in 1..c+2 /\ i + 1 <= c + 1 /\ i + 1 <= c + 2
    BY <1>1
  <2> QED
    BY <1>3, <1>5, <1>7, <1>9, <2>1
<1>12. f[c + 2] = fill /\ f[c + 3] = CRC(v)
  BY <1>1, <1>7, <1>9
<1>13. fill[1] # "code" /\ CRC(v)[1] # "code"
  BY CrcWord DEF fill
<1> QED
  BY <1>9, <1>10, <1>11, <1>12, <1>13 DEF Carries, c, hw

\* The last word does not matter to them.
LEMMA CarriesToo ==
    ASSUME NEW f, NEW g, NEW h, NEW b \in Seq(0..Low-1), Len(b) % W = 0, Carries(f, h, b),
           Len(g) = Len(f), \A i \in 1..Len(f)-1 : g[i] = f[i], g[Len(f)][1] # "code"
    PROVE  Carries(g, h, b)
<1> DEFINE c == Len(b) \div W
<1>1. c \in Nat
  <2>1. Len(b) \in Nat /\ W \in Nat \ {0}
    BY ImagesAre
  <2> QED
    BY <2>1, ModRange
<1>2. /\ Len(f) = c + 3 /\ f[1] = HeaderWord(h)
      /\ \A i \in 1..c : f[i + 1] = CodeWord(b, i)
      /\ f[c + 2][1] # "code"
  BY DEF Carries
<1> HIDE DEF c
<1>3. Len(f) - 1 = c + 2 /\ \A i \in 1..c+2 : g[i] = f[i]
  BY <1>1, <1>2
<1>4. g[1] = f[1] /\ g[c + 2] = f[c + 2] /\ \A i \in 1..c : g[i + 1] = f[i + 1]
  BY <1>1, <1>3
<1> QED
  BY <1>2, <1>4 DEF Carries, c

\* apebyteswap checks the same CRC.
LEMMA TailIs == \A f : f # << >> => (TailFits(f) <=> SwapAccepts(f))
BY DEF TailFits, SwapAccepts

\* A file that has no CRC has none that is right, in either order.
LEMMA NoCrcFits == ASSUME NEW f, NoCrc(f), f # << >> PROVE ~TailFits(f) /\ ~BackFits(f)
<1>1. IsWord(Last(f)) /\ Last(f)[1] # "crc"
  BY NoCrcAtEnd
<1>2. SwapEndian32(Last(f))[1] # "crc"
  BY <1>1, SwapWordTwice
<1> QED
  BY <1>1, <1>2, CrcWord DEF TailFits, BackFits

\* An image that is turned in part has no CRC that is right, in either order.
LEMMA HalfHasNoCrc ==
    ASSUME NEW g, IsImage(g), NEW n \in 1..Len(g), n # 1, NEW f, f = Half(g, n) \/ f = SwapAll(Half(g, n))
    PROVE  ~TailFits(f) /\ ~BackFits(f)
<1> DEFINE x == Half(g, n)
           y == SwapAll(x)
           e == Len(g)
           crc == CRC(Front(g))
<1>1. IsFile(g) /\ e \in Nat /\ e >= 2 /\ e - 1 \in Nat /\ g[1][1] = "hdr" /\ g[e] = crc
  BY DEF IsImage, IsFile, IsSeq
<1>2. /\ IsFile(x) /\ Len(x) = e
      /\ \A i \in 1..e : x[i] = IF i < n THEN SwapEndian32(g[i]) ELSE g[i]
  BY <1>1, HalfFile
<1> HIDE DEF x
<1>3. /\ IsFile(y) /\ Len(y) = e /\ \A i \in 1..e : y[i] = SwapEndian32(x[i])
  BY <1>2, SwapAllIs
<1> HIDE DEF y
<1>4. x # << >> /\ y # << >>
  BY <1>1, <1>2, <1>3
<1>5. ~TailFits(x) /\ ~TailFits(y)
  <2>1. ~SwapAccepts(x) /\ ~SwapAccepts(y)
    BY HalfRefused DEF x, y
  <2> QED
    BY <1>4, <2>1, TailIs
<1>6. x[e] = crc /\ y[e] = SwapEndian32(crc)
  <2>1. e \in 1..e /\ ~(e < n)
    BY <1>1
  <2> QED
    BY <1>1, <1>2, <1>3, <2>1
<1>7. IsWord(crc) /\ crc[1] # "code" /\ crc[3] = 0 /\ SwapEndian32(crc)[3] # 0 /\ SwapEndian32(SwapEndian32(crc)) = crc
  BY CrcWord, SwapWordTwice
<1>8. ~BackFits(x)
  <2>1. ASSUME BackFits(x) PROVE FALSE
    <3>1. CRC(SwapAll(Front(x))) = SwapEndian32(crc)
      BY <1>2, <1>6, <2>1 DEF BackFits, Last
    <3> QED
      BY <1>7, <3>1, CrcWord
  <2> QED
    BY <2>1
<1>9. ~BackFits(y)
  <2>1. ASSUME BackFits(y) PROVE FALSE
    <3>1. CRC(SwapAll(Front(y))) = crc
      BY <1>3, <1>6, <1>7, <2>1 DEF BackFits, Last
    <3>2. SwapAll(Front(y)) = Front(g)
      BY <3>1, CrcWord
    <3>3. IsFile(Front(y)) /\ Len(Front(y)) = e - 1 /\ Front(y) = [i \in 1..e-1 |-> y[i]]
      BY <1>1, <1>3, FrontFile
    <3>4. Front(g) = [i \in 1..e-1 |-> g[i]]
      BY <1>1, FrontFile
    <3>5. SwapAll(Front(y)) = [i \in 1..e-1 |-> SwapEndian32(Front(y)[i])]
      BY <3>3, SwapAllIs
    <3>6. 1 \in 1..e-1 /\ 1 \in 1..e /\ 1 < n
      BY <1>1
    <3>7. SwapEndian32(y[1]) = g[1]
      <4>1. SwapAll(Front(y))[1] = SwapEndian32(y[1])
        BY <3>3, <3>5, <3>6
      <4>2. Front(g)[1] = g[1]
        BY <3>4, <3>6
      <4> QED
        BY <3>2, <4>1, <4>2
    <3>8. y[1] = SwapEndian32(x[1]) /\ x[1] = SwapEndian32(g[1]) /\ IsWord(x[1]) /\ IsWord(g[1])
      BY <1>1, <1>2, <1>3, <3>6 DEF IsFile
    <3>9. SwapEndian32(y[1]) = x[1]
      BY <3>8, SwapWordTwice
    <3>10. SwapEndian32(g[1])[3] # g[1][3]
      BY <1>1, <3>8, SwapWordTwice
    <3> QED
      BY <3>7, <3>8, <3>9, <3>10
  <2> QED
    BY <2>1
<1> QED
  BY <1>5, <1>8, <1>9 DEF x, y

\* One that has been turned, and turned back without its CRC.
LEMMA TurnedBack ==
    ASSUME NEW g, IsImage(g), NEW f, f = SwapAll(Turned(g))
    PROVE  /\ Len(f) = Len(g) /\ (\A i \in 1..Len(g)-1 : f[i] = g[i]) /\ f[Len(g)][1] # "code"
           /\ ~TailFits(f) /\ BackFits(f)
<1> DEFINE t == Turned(g)
           e == Len(g)
           u == SwapAll(Front(g))
<1>1. IsFile(g) /\ e \in Nat /\ e >= 2 /\ e >= 1 /\ e - 1 \in Nat
  BY DEF IsImage, IsFile, IsSeq
<1>2. IsImage(t) /\ IsFile(t) /\ Len(t) = e /\ Front(t) = u /\ t[e] = CRC(u)
  BY TurnedImage DEF IsImage
<1>3. IsFile(Front(g)) /\ Len(Front(g)) = e - 1 /\ Front(g) = [i \in 1..e-1 |-> g[i]]
  BY <1>1, FrontFile
<1>4. /\ IsFile(u) /\ Len(u) = e - 1 /\ SwapAll(u) = Front(g)
      /\ SwapAll(u) = [i \in 1..e-1 |-> SwapEndian32(u[i])]
  <2>1. /\ IsFile(u) /\ Len(u) = e - 1 /\ SwapAll(u) = Front(g)
    BY <1>3, SwapAllIs
  <2> HIDE DEF u
  <2> QED
    BY <2>1, SwapAllIs
<1> HIDE DEF t, u
<1>5. Len(f) = e /\ IsFile(f) /\ \A i \in 1..e : f[i] = SwapEndian32(t[i])
  BY <1>2, SwapAllIs DEF t
<1>6. \A i \in 1..e-1 : t[i] = u[i]
  <2>1. Front(t) = [i \in 1..e-1 |-> t[i]]
    BY <1>1, <1>2, FrontFile
  <2> QED
    BY <1>2, <2>1
<1>7. \A i \in 1..e-1 : f[i] = g[i]
  <2> SUFFICES ASSUME NEW i \in 1..e-1 PROVE f[i] = g[i]
    OBVIOUS
  <2>1. i \in 1..e /\ f[i] = SwapEndian32(u[i])
    BY <1>1, <1>5, <1>6
  <2>2. SwapAll(u)[i] = SwapEndian32(u[i]) /\ Front(g)[i] = g[i]
    BY <1>3, <1>4
  <2> QED
    BY <1>4, <2>1, <2>2
<1>8. Front(f) = Front(g)
  <2>1. Front(f) = [i \in 1..e-1 |-> f[i]]
    BY <1>1, <1>5, FrontFile
  <2> QED
    BY <1>3, <1>7, <2>1
<1>9. f[e] = SwapEndian32(CRC(u)) /\ Last(f) = f[e]
  BY <1>1, <1>2, <1>5 DEF Last
<1>10. /\ IsWord(CRC(u)) /\ CRC(u)[1] = "crc" /\ SwapEndian32(CRC(u))[3] # 0
       /\ SwapEndian32(CRC(u))[1] = "crc" /\ SwapEndian32(SwapEndian32(CRC(u))) = CRC(u)
  BY CrcWord, SwapWordTwice
<1>11. ~TailFits(f)
  BY <1>9, <1>10, CrcWord DEF TailFits
<1>12. BackFits(f)
  <2>1. SwapAll(Front(f)) = u
    BY <1>8 DEF u
  <2> QED
    BY <1>9, <1>10, <2>1 DEF BackFits
<1> QED
  BY <1>5, <1>7, <1>9, <1>10, <1>11, <1>12

\* Every file that apeimg opens has a right CRC in one order at most, if it is not
\* the image.
LEMMA Opened ==
    ASSUME IInv, whole # << >>, OpenImage(file), whole[1][3] = 0
    PROVE  \/ file = whole \/ file = SwapAll(Turned(whole))
           \/ ~TailFits(file) /\ ~BackFits(file)
<1>1. FinishedInv /\ IsImage(whole)
  BY DEF IInv, FinishedInv
<1> SUFFICES ASSUME ~NoCrc(file)
             PROVE  \/ file = whole \/ file = SwapAll(Turned(whole))
                    \/ ~TailFits(file) /\ ~BackFits(file)
  BY NoCrcFits DEF OpenImage
<1>2. PICK g \in Bases, n \in 1..Len(whole) : file = Half(g, n) \/ file = SwapAll(Half(g, n))
  BY <1>1 DEF FinishedInv, Halves
<1>3. IsImage(g) /\ IsFile(g) /\ n \in 1..Len(g) /\ g = Half(g, 1) /\ Len(g) >= 2 /\ Len(g) \in Nat
  BY <1>1, <1>2, BasesAre
<1>4. CASE n # 1
  BY <1>2, <1>3, <1>4, HalfHasNoCrc
<1>5. CASE n = 1
  <2>1. file \in {whole, Turned(whole), SwapAll(whole), SwapAll(Turned(whole))}
    BY <1>2, <1>3, <1>5 DEF Bases
  <2>2. IsFile(whole) /\ 1 \in 1..Len(whole) /\ 1 \in 1..Len(whole)-1 /\ IsWord(whole[1]) /\ whole[1][1] = "hdr"
    <3>1. IsFile(whole) /\ Len(whole) >= 2 /\ Len(whole) \in Nat /\ whole[1][1] = "hdr"
      BY <1>1 DEF IsImage, IsFile, IsSeq
    <3>2. 1 \in 1..Len(whole) /\ 1 \in 1..Len(whole)-1
      BY <3>1
    <3> QED
      BY <3>1, <3>2 DEF IsFile
  <2>3. SwapEndian32(whole[1])[3] # 0
    BY <2>2, SwapWordTwice
  <2>4. SwapAll(whole)[1] = SwapEndian32(whole[1])
    BY <2>2, SwapAllIs
  <2>5. Turned(whole)[1] = SwapEndian32(whole[1])
    <3> DEFINE t == Turned(whole)
    <3>1. IsFile(t) /\ Len(t) = Len(whole) /\ IsWord(t[1])
      BY <1>1, <2>2, TurnedImage DEF IsImage, IsFile
    <3> HIDE DEF t
    <3>2. SwapAll(t)[1] = SwapEndian32(t[1])
      BY <2>2, <3>1, SwapAllIs
    <3>3. SwapAll(t)[1] = whole[1]
      BY <1>1, <2>2, TurnedBack DEF t
    <3>4. SwapEndian32(SwapEndian32(t[1])) = t[1]
      BY <3>1, SwapWordTwice
    <3> QED
      BY <3>2, <3>3, <3>4 DEF t
  <2>6. file # SwapAll(whole) /\ file # Turned(whole)
    BY <2>3, <2>4, <2>5 DEF OpenImage
  <2> QED
    BY <2>1, <2>6
<1> QED
  BY <1>4, <1>5

\* apeimg tells a finished image from any other file, and finds the linker's sections
\* in it.
THEOREM InfoRight == Spec => []InfoTells
<1>1. IInv => InfoTells
  <2> SUFFICES ASSUME IInv, OpenImage(file)
               PROVE  /\ (Info(file) = {}) <=> (file = whole)
                      /\ file = whole => \A i \in 1..NumSections :
                            img.sections[i].zero = 1 \/ Extract(file, i) = Content(img, i)
                      /\ whole # << >> /\ file = SwapAll(Turned(whole)) => Info(file) = {"crcswap"}
    BY DEF InfoTells
  <2>1. file # << >>
    BY DEF OpenImage
  <2>2. CASE whole = << >>
    <3>1. ~TailFits(file) /\ ~BackFits(file)
      BY <2>1, <2>2, NoCrcFits DEF IInv, UnfinishedInv
    <3>2. Info(file) # {}
      BY <3>1, InfoCrc
    <3> QED
      BY <2>1, <2>2, <3>2
  <2>3. CASE whole # << >>
    <3>1. PICK h, b : StampedTo(h, img, b, NumSections) /\ whole = Sealed(h, b)
      BY <2>3 DEF IInv, WholeInv
    <3>2. b \in Seq(0..Low-1) /\ Len(b) % W = 0
      BY <3>1 DEF StampedTo
    <3>3. Carries(whole, h, b) /\ IsImage(whole)
      BY <2>3, <3>1, <3>2, SealedIs DEF IInv, FinishedInv
    <3>4. whole[1][3] = 0
      BY <3>3 DEF Carries, HeaderWord
    <3>5. TailFits(whole)
      BY <3>3 DEF IsImage, TailFits, Last
    <3>6. Info(whole) = {}
      BY <3>1, <3>3, <3>5, InfoIs
    <3>7. Info(SwapAll(Turned(whole))) = {"crcswap"}
      <4> DEFINE g == SwapAll(Turned(whole))
      <4>1. /\ Len(g) = Len(whole) /\ (\A i \in 1..Len(whole)-1 : g[i] = whole[i])
            /\ g[Len(whole)][1] # "code" /\ ~TailFits(g) /\ BackFits(g)
        BY <3>3, TurnedBack
      <4> HIDE DEF g
      <4>2. Carries(g, h, b)
        BY <3>2, <3>3, <4>1, CarriesToo
      <4>3. Info(g) = {"crcswap"}
        BY <3>1, <4>1, <4>2, InfoIs
      <4> QED
        BY <4>3 DEF g
    <3>8. /\ file = whole \/ file = SwapAll(Turned(whole)) \/ Info(file) # {}
      BY <2>3, <3>4, Opened, InfoCrc
    <3>9. (Info(file) = {}) <=> (file = whole)
      BY <3>6, <3>7, <3>8
    <3>10. \A i \in 1..NumSections : img.sections[i].zero = 1 \/ Extract(whole, i) = Content(img, i)
      BY <3>1, <3>3, ExtractIs
    <3> QED
      BY <3>7, <3>9, <3>10
  <2> QED
    BY <2>2, <2>3
<1> QED
  BY <1>1, ImageInductive, PTL

=============================================================================
