---------------------------- MODULE OtgVpdProofs ----------------------------
(* After otgimg set has set the VPD, otgimg info shows the lines of that VPD *)
(* and gives the right verdict on it, in the region that it went to, as far  *)
(* as info looks there, for all constants.                                   *)
EXTENDS OtgVpd, OtgSetProofs, SequenceTheorems, WellFoundedInduction

-----------------------------------------------------------------------------
(* What is in the image.                                                    *)

\* What a run sets the VPD to is a VPD, and there was room for it.
Chosen(f, p, w) == \E v \in Vpds : w = Vpd(v) /\ ~(v.size > Room(f, p))

VpdInv ==
    \A r \in Runs : spc[r] # "off" /\ before[r] # None /\ param[r] \in VpdParams =>
        Chosen(before[r], param[r], value[r])

\* The regions are those of the entries.
LEMMA SameRegions ==
    ASSUME NEW f, NEW g, SameEntries(f, g)
    PROVE  /\ ShownExt(g) = ShownExt(f) /\ KnownExt(g) = KnownExt(f)
           /\ \A i \in 5..6 : Size(g, i) = Size(f, i) /\ Offset(g, i) = Offset(f, i)
<1>1. ShownExt(g) = ShownExt(f)
  BY DEF SameEntries, ShownExt, Type, Size
<1>2. KnownExt(g) = KnownExt(f)
  BY DEF SameEntries, KnownExt, Type, Offset
<1>3. \A i \in 5..6 : Size(g, i) = Size(f, i) /\ Offset(g, i) = Offset(f, i)
  BY Words DEF SameEntries, Size, Offset
<1> QED
  BY <1>1, <1>2, <1>3

\* At first no run is active.
LEMMA VpdInit == Init => VpdInv
BY DEF Init, BuildInit, SetInit, VpdInv, Targets

\* A run begins.
LEMMA VpdBegin ==
    ASSUME IInv, NEW r \in Runs, NEW p \in MacParams \union VpdParams, NEW w,
           Begin(r, p, w), p \in VpdParams => Chosen(img, p, w)
    PROVE  VpdInv'
<1>1. /\ img # None /\ img' = img
      /\ before' = [s \in Runs |-> IF s = r /\ Idle = Runs THEN img ELSE None]
  BY DEF Begin
<1>2. param'[r] = p /\ value'[r] = w
  BY DEF Begin, IInv, SetInv, Shape
<1>3. ASSUME NEW s \in Runs, before'[s] # None, param'[s] \in VpdParams
      PROVE  Chosen(before'[s], param'[s], value'[s])
  <2>1. s = r /\ before'[r] = img
    BY <1>1, <1>3
  <2> QED
    BY <1>2, <1>3, <2>1
<1> QED
  BY <1>3 DEF VpdInv

\* A step in which no run begins keeps what is remembered of them.
LEMMA VpdKeep ==
    ASSUME VpdInv, UNCHANGED <<param, value, before>>,
           \A r \in Runs : spc'[r] # "off" => spc[r] # "off"
    PROVE  VpdInv'
BY DEF VpdInv

\* Every step leaves what the runs set.
LEMMA VpdStep == IInv /\ ExactInv /\ VpdInv /\ [Next]_vars => VpdInv'
<1> SUFFICES ASSUME IInv, ExactInv, VpdInv, [Next]_vars PROVE VpdInv'
  OBVIOUS
<1>1. ASSUME UNCHANGED setVars PROVE VpdInv'
  BY <1>1 DEF VpdInv, setVars, runVars
<1>2. ASSUME NEW f \in Factory \union {files["otg.bin"]}, Take(f) PROVE VpdInv'
  <2>1. UNCHANGED runVars
    BY <1>2 DEF Take
  <2> QED
    BY <2>1 DEF VpdInv, runVars
<1>3. ASSUME NEW r \in Runs, NEW p \in MacParams, NEW m, Begin(r, p, Mac(m)) PROVE VpdInv'
  <2>1. p \notin VpdParams
    BY Fields
  <2> QED
    BY <1>3, <2>1, VpdBegin
<1>4. ASSUME NEW r \in Runs, NEW p \in VpdParams, NEW v \in Vpds, Begin(r, p, Vpd(v)) PROVE VpdInv'
  <2>1. ~(v.size > Room(img, p))
    BY <1>4 DEF Begin, Refuses, Vpd
  <2>2. Chosen(img, p, Vpd(v))
    BY <2>1 DEF Chosen
  <2> QED
    BY <1>4, <2>2, VpdBegin
<1>5. ASSUME NEW r \in Runs, WriteValue(r) PROVE VpdInv'
  <2>1. UNCHANGED <<param, value, before>> /\ \A s \in Runs : spc'[s] # "off" => spc[s] # "off"
    BY <1>5 DEF WriteValue, IInv, SetInv, Shape
  <2> QED
    BY <2>1, VpdKeep
<1>6. ASSUME NEW r \in Runs, SumSection(r) PROVE VpdInv'
  <2>1. UNCHANGED <<param, value, before>> /\ spc[r] # "off"
    <3>1. CASE Touches(param[r]) /\ good[r]
      BY <1>6, <3>1 DEF SumSection
    <3>2. CASE ~(Touches(param[r]) /\ good[r])
      BY <1>6, <3>2 DEF SumSection
    <3> QED
      BY <3>1, <3>2
  <2>2. \A s \in Runs : spc'[s] # "off" => spc[s] # "off"
    <3>1. \E w : spc' = [spc EXCEPT ![r] = w]
      BY <1>6 DEF SumSection
    <3> QED
      BY <2>1, <3>1 DEF IInv, SetInv, Shape
  <2> QED
    BY <2>1, <2>2, VpdKeep
<1>7. ASSUME NEW r \in Runs, WriteCrc(r) PROVE VpdInv'
  <2>1. UNCHANGED <<param, value, before>> /\ \A s \in Runs : spc'[s] # "off" => spc[s] # "off"
    BY <1>7 DEF WriteCrc, IInv, SetInv, Shape
  <2> QED
    BY <2>1, VpdKeep
<1>8. ASSUME NEW r \in Runs, End(r) PROVE VpdInv'
  <2>1. spc'[r] = "off"
    BY <1>8 DEF End, IInv, SetInv, Shape
  <2>2. \A s \in Runs : s # r =>
           spc'[s] = spc[s] /\ before'[s] = before[s] /\ param'[s] = param[s] /\ value'[s] = value[s]
    BY <1>8 DEF End, Forget, IInv, SetInv, Shape, ExactInv
  <2> QED
    BY <2>1, <2>2 DEF VpdInv
<1>9. ASSUME NEW o \in Fragile, Damage(o) PROVE VpdInv'
  BY <1>9 DEF Damage, runVars, VpdInv
<1>10. ASSUME UNCHANGED vars PROVE VpdInv'
  <2>1. UNCHANGED setVars
    BY <1>10 DEF vars
  <2> QED
    BY <1>1, <2>1
<1> QED
  BY <1>1, <1>2, <1>3, <1>4, <1>5, <1>6, <1>7, <1>8, <1>9, <1>10 DEF Next

-----------------------------------------------------------------------------
(* Where the VPD went, and what info takes for it.                          *)

\* An image old in which the VPD v, for which there is room, was set.
IsSet(old, v, f) ==
    /\ Laid(old) /\ v.size \in Nat \ {0} /\ ~(v.size > Room(old, "vpd"))
    /\ \E g : f = After(old, "vpd", Vpd(v), g)

\* Only the word that the VPD goes to is another, and that is not in the directory.
LEMMA SetWord ==
    ASSUME NEW old, NEW v, NEW f, IsSet(old, v, f), NEW at, at = Target(old, "vpd")
    PROVE  /\ L32(f, at) = Vpd(v) /\ \A j \in Int : j # at => L32(f, j) = L32(old, j)
           /\ at = 12 \/ \E i \in KnownExt(old) : at = Offset(old, i)
           /\ KnownExt(old) \subseteq 5..6
           /\ \A i \in KnownExt(old) : /\ Offset(old, i) >= 17 /\ Offset(old, i) \in Nat
                                       /\ Size(old, i) \in Nat
           /\ SameEntries(old, f)
<1>1. Settable(old, "vpd") /\ "vpd" \in VpdParams /\ ~("vpd" \in MacParams) /\ Laid(old)
  BY DEF Settable, VpdParams, MacParams, IsSet
<1>2. ~Touches("vpd")
  BY <1>1, Fields
<1>3. L32(f, at) = Vpd(v) /\ \A j \in Int : j # at => L32(f, j) = L32(old, j)
  BY <1>1, <1>2, ReadAfter DEF IsSet
<1>4. at = 12 \/ \E i \in KnownExt(old) : at = Offset(old, i)
  BY <1>1, TargetIs
<1>5. \A i \in KnownExt(old) : Offset(old, i) >= 17 /\ Offset(old, i) \in Nat
  BY <1>1, Words DEF Laid, IsFile
<1>6. \A i \in KnownExt(old) : Size(old, i) \in Nat
  BY <1>1 DEF Laid
<1>7. SameEntries(old, f)
  BY <1>3, <1>4, <1>5, Words DEF SameEntries
<1>8. KnownExt(old) \subseteq 5..6
  BY Words DEF KnownExt
<1> QED
  BY <1>3, <1>4, <1>5, <1>6, <1>7, <1>8

\* The least and the greatest of some entries of the directory.
LEMMA FirstEntry ==
    ASSUME NEW T, T \subseteq 5..6, T # {}
    PROVE  /\ Min(T) \in T /\ \A j \in T : Min(T) <= j
           /\ (CHOOSE i \in T : \A j \in T : i <= j) = Min(T)
           /\ Max(T) \in T /\ \A j \in T : j <= Max(T)
           /\ (CHOOSE i \in T : \A j \in T : j <= i) = Max(T)
<1>0. T = {5} \/ T = {6} \/ T = {5, 6}
  <2>1. \A x : x \in T => x = 5 \/ x = 6
    OBVIOUS
  <2>2. 5 \in T \/ 6 \in T
    BY <2>1
  <2> QED
    BY <2>1, <2>2
<1>1. \E i \in T : \A j \in T : i <= j
  BY <1>0
<1>2. \E i \in T : \A j \in T : j <= i
  BY <1>0
<1>3. \E i \in T : \A j \in T : i >= j
  BY <1>0
<1>4. Min(T) \in T /\ \A j \in T : Min(T) <= j
  BY <1>1, Zenon DEF Min
<1>5. Max(T) \in T /\ \A j \in T : Max(T) >= j
  BY <1>3, Zenon DEF Max
<1>6. \A j \in T : j <= Max(T)
  BY <1>5
<1>7. (CHOOSE i \in T : \A j \in T : i <= j) = Min(T)
  BY Zenon DEF Min
<1>8. (CHOOSE i \in T : \A j \in T : j <= i) = Max(T)
  <2> DEFINE x == CHOOSE i \in T : \A j \in T : j <= i
             y == Max(T)
  <2>1. x \in T /\ \A j \in T : j <= x
    BY <1>2, Zenon
  <2>2. y \in T /\ \A j \in T : j <= y
    BY <1>5, <1>6
  <2> HIDE DEF x, y
  <2>3. x \in Int /\ y \in Int /\ x <= y /\ y <= x
    BY <2>1, <2>2
  <2>4. x = y
    BY <2>3
  <2> QED
    BY <2>4 DEF x, y
<1> QED
  BY <1>4, <1>5, <1>6, <1>7, <1>8

\* A set of numbers has a least one.
LEMMA LeastNat ==
    ASSUME NEW T, T \subseteq Nat, T # {}
    PROVE  \E x \in T : \A y \in T : x <= y
<1> DEFINE R == OpToRel(<, Nat)
<1>1. IsWellFoundedOn(R, Nat)
  BY NatLessThanWellFounded
<1>2. \A a, b \in Nat : <<a, b>> \in R <=> a < b
  BY DEF OpToRel
<1> HIDE DEF R
<1>3. \E x \in T : \A y \in T : ~(<<y, x>> \in R)
  BY <1>1, WFMin
<1>4. PICK x \in T : \A y \in T : ~(<<y, x>> \in R)
  BY <1>3
<1>5. \A y \in T : ~(y < x)
  BY <1>2, <1>4
<1>6. \A y \in T : x <= y
  BY <1>5, x \in Nat, \A y \in T : y \in Nat
<1> QED
  BY <1>6

\* Induction: a set of numbers that has 0, and with a number the next, has them all.
LEMMA Induct ==
    ASSUME NEW S, S \subseteq Nat, 0 \in S, \A n \in S : n + 1 \in S
    PROVE  S = Nat
<1> SUFFICES ASSUME Nat \ S # {} PROVE FALSE
  OBVIOUS
<1>1. PICK x \in Nat \ S : \A y \in Nat \ S : x <= y
  BY LeastNat
<1>2. x # 0
  BY <1>1
<1>3. x - 1 \in Nat /\ x - 1 < x
  BY <1>2
<1>4. x - 1 \in S
  BY <1>1, <1>3
<1>5. (x - 1) + 1 \in S
  BY <1>4
<1> QED
  BY <1>1, <1>5

\* A function whose value at x is found from its value at nx[x], of smaller rank.
Descends(D, V, m, rank, stop, base, nx, h) ==
    /\ m \in Nat /\ rank \in [D -> 0..m]
    /\ base \in [D -> V] /\ nx \in [D -> D] /\ h \in [D \X V -> V]
    /\ \A x \in D \ stop : rank[nx[x]] < rank[x]

\* There is one.
LEMMA Recursion ==
    ASSUME NEW D, NEW V, NEW m, NEW rank, NEW stop, NEW base, NEW nx, NEW h,
           Descends(D, V, m, rank, stop, base, nx, h)
    PROVE  \E f \in [D -> V] : \A x \in D : f[x] = IF x \in stop THEN base[x] ELSE h[<<x, f[nx[x]]>>]
<1>0. /\ m \in Nat /\ rank \in [D -> 0..m]
      /\ base \in [D -> V] /\ nx \in [D -> D] /\ h \in [D \X V -> V]
      /\ \A x \in D \ stop : rank[nx[x]] < rank[x]
  BY DEF Descends
<1> DEFINE E(n) == {x \in D : rank[x] < n}
           Good(f, n) == \A x \in E(n) : f[x] = IF x \in stop THEN base[x] ELSE h[<<x, f[nx[x]]>>]
           S == {n \in Nat : \E f \in [E(n) -> V] : Good(f, n)}
<1>1. 0 \in S
  <2>1. E(0) = {}
    BY <1>0
  <2>2. [x \in {} |-> x] \in [E(0) -> V] /\ Good([x \in {} |-> x], 0)
    BY <2>1
  <2> QED
    BY <2>2
<1>2. ASSUME NEW n \in S PROVE n + 1 \in S
  <2>1. PICK f \in [E(n) -> V] : Good(f, n)
    OBVIOUS
  <2> DEFINE g == [x \in E(n + 1) |-> IF x \in stop THEN base[x] ELSE h[<<x, f[nx[x]]>>]]
  <2>2. ASSUME NEW x \in E(n + 1), x \notin stop PROVE nx[x] \in E(n)
    BY <1>0, <2>2
  <2>3. g \in [E(n + 1) -> V]
    <3> SUFFICES ASSUME NEW x \in E(n + 1) PROVE g[x] \in V
      OBVIOUS
    <3>1. x \notin stop => f[nx[x]] \in V /\ <<x, f[nx[x]]>> \in D \X V
      BY <2>1, <2>2
    <3> QED
      BY <1>0, <3>1
  <2>4. ASSUME NEW x \in E(n + 1), x \notin stop PROVE g[nx[x]] = f[nx[x]]
    <3>1. nx[x] \in E(n) /\ nx[x] \in E(n + 1)
      BY <1>0, <2>2, <2>4
    <3> QED
      BY <2>1, <3>1
  <2>5. Good(g, n + 1)
    BY <2>4
  <2>6. n + 1 \in Nat
    OBVIOUS
  <2> HIDE DEF Good, E, g
  <2> QED
    BY <2>3, <2>5, <2>6
<1>3. S = Nat
  <2> HIDE DEF Good, E
  <2>1. S \subseteq Nat
    OBVIOUS
  <2> HIDE DEF S
  <2> QED
    BY <1>1, <1>2, <2>1, Induct
<1>4. m + 1 \in S
  <2>1. m + 1 \in Nat
    BY <1>0
  <2> HIDE DEF S
  <2> QED
    BY <1>3, <2>1
<1>5. \A x \in D : rank[x] \in 0..m /\ rank[x] < m + 1
  BY <1>0
<1>6. E(m + 1) = D
  BY <1>5
<1>7. PICK f \in [E(m + 1) -> V] : Good(f, m + 1)
  BY <1>4
<1> QED
  BY <1>6, <1>7


\* Induction up to a bound, and down from it.
LEMMA Upto ==
    ASSUME NEW n \in Nat, NEW S, S \subseteq 0..n, 0 \in S, \A i \in S : i < n => i + 1 \in S
    PROVE  S = 0..n
<1> DEFINE T == {i \in Nat : i <= n => i \in S}
<1>1. 0 \in T
  OBVIOUS
<1>2. ASSUME NEW i \in T PROVE i + 1 \in T
  <2>1. i \in Nat /\ i + 1 \in Nat
    OBVIOUS
  <2> QED
    BY <2>1
<1>3. T \subseteq Nat
  OBVIOUS
<1> HIDE DEF T
<1>4. T = Nat
  BY <1>1, <1>2, <1>3, Induct
<1>5. \A i \in 0..n : i \in S
  BY <1>4 DEF T
<1> QED
  BY <1>5

\* A number that gets less comes to its end.
LEMMA Downto ==
    ASSUME NEW n \in Nat, NEW S, S \subseteq 0..n, n \in S, \A i \in S : i > 0 => i - 1 \in S
    PROVE  S = 0..n
<1> DEFINE T == {i \in 0..n : n - i \in S}
<1>1. T \subseteq 0..n /\ 0 \in T
  OBVIOUS
<1>2. \A i \in T : i < n => i + 1 \in T
  <2> SUFFICES ASSUME NEW i \in T, i < n PROVE i + 1 \in T
    OBVIOUS
  <2>1. i \in 0..n /\ n - i \in S /\ n - i > 0
    OBVIOUS
  <2>2. (n - i) - 1 \in S /\ (n - i) - 1 = n - (i + 1)
    BY <2>1
  <2> QED
    BY <2>1, <2>2
<1> HIDE DEF T
<1>3. T = 0..n
  BY <1>1, <1>2, Upto
<1>4. \A i \in 0..n : i \in S
  <2> SUFFICES ASSUME NEW i \in 0..n PROVE i \in S
    OBVIOUS
  <2>1. n - i \in T /\ n - (n - i) = i
    BY <1>3
  <2> QED
    BY <2>1 DEF T
<1> QED
  BY <1>4

-----------------------------------------------------------------------------
(* Sequences.                                                               *)

\* Two sequences are the same if they have the same items.
LEMMA SameItems ==
    ASSUME NEW V, NEW s \in Seq(V), NEW W, NEW t \in Seq(W), Len(s) = Len(t),
           \A i \in 1..Len(s) : s[i] = t[i]
    PROVE  s = t
OBVIOUS

\* The items of a sequence put together from two.
LEMMA Concat ==
    ASSUME NEW V, NEW s \in Seq(V), NEW t \in Seq(V)
    PROVE  /\ s \o t \in Seq(V) /\ Len(s \o t) = Len(s) + Len(t)
           /\ \A i \in 1..Len(s) : (s \o t)[i] = s[i]
           /\ \A i \in 1..Len(t) : (s \o t)[Len(s) + i] = t[i]
OBVIOUS

\* A step of the recursion of FlattenSeq.
FlattenStep(seqs, f) == [i \in 1..Len(seqs) |-> IF i = 1 THEN seqs[i] ELSE f[i - 1] \o seqs[i]]

\* FlattenSeq is that recursion.
LEMMA FlattenChoice ==
    ASSUME NEW seqs, Len(seqs) # 0, NEW g, g = FlattenStep(seqs, g)
    PROVE  \E f : f = FlattenStep(seqs, f) /\ FlattenSeq(seqs) = f[Len(seqs)]
<1> DEFINE f == CHOOSE h : h = FlattenStep(seqs, h)
<1>1. f = FlattenStep(seqs, f)
  OBVIOUS
<1>2. FlattenSeq(seqs) = f[Len(seqs)]
  BY Zenon DEF FlattenSeq, FlattenStep
<1> QED
  BY <1>1, <1>2

\* The sequences up to the i-th, put together.
Growing(V, seqs, n, f) ==
    /\ f \in [1..n -> Seq(V)] /\ f[1] = seqs[1]
    /\ \A i \in 2..n : f[i] = f[i - 1] \o seqs[i]

\* The n sequences together are the last of n that grow by one each.
LEMMA FlattenIs ==
    ASSUME NEW V, NEW n \in Nat, n >= 1, NEW seqs \in [1..n -> Seq(V)]
    PROVE  \E f : Growing(V, seqs, n, f) /\ FlattenSeq(seqs) = f[n]
<1> DEFINE D    == 1..n
           W    == Seq(V)
           stop == {1}
           rank == [x \in D |-> x]
           nx   == [x \in D |-> IF x = 1 THEN 1 ELSE x - 1]
           h    == [z \in D \X W |-> z[2] \o seqs[z[1]]]
<1>0. Len(seqs) = n
  OBVIOUS
<1>1. Descends(D, W, n, rank, stop, seqs, nx, h)
  <2>1. rank \in [D -> 0..n] /\ nx \in [D -> D]
    OBVIOUS
  <2>2. h \in [D \X W -> W]
    <3> SUFFICES ASSUME NEW z \in D \X W PROVE z[2] \o seqs[z[1]] \in W
      OBVIOUS
    <3>1. z[1] \in D /\ z[2] \in Seq(V) /\ seqs[z[1]] \in Seq(V)
      OBVIOUS
    <3> QED
      BY <3>1
  <2>3. \A x \in D \ stop : rank[nx[x]] < rank[x]
    OBVIOUS
  <2> HIDE DEF rank, nx, h, stop
  <2> QED
    BY <2>1, <2>2, <2>3 DEF Descends
<1>2. PICK g \in [D -> W] : \A x \in D : g[x] = IF x \in stop THEN seqs[x] ELSE h[<<x, g[nx[x]]>>]
  <2> HIDE DEF D, W, rank, nx, h, stop
  <2> QED
    BY <1>1, Recursion
<1>3. g = FlattenStep(seqs, g)
  <2>1. \A x \in D : g[x] = IF x = 1 THEN seqs[x] ELSE g[x - 1] \o seqs[x]
    <3> SUFFICES ASSUME NEW x \in D, x # 1 PROVE g[x] = g[x - 1] \o seqs[x]
      BY <1>2
    <3>1. x - 1 \in D /\ nx[x] = x - 1 /\ g[x - 1] \in W
      OBVIOUS
    <3>2. h[<<x, g[x - 1]>>] = g[x - 1] \o seqs[x]
      BY <3>1
    <3> QED
      BY <1>2, <3>1, <3>2
  <2>2. g = [x \in D |-> g[x]]
    OBVIOUS
  <2> QED
    BY <1>0, <2>1, <2>2 DEF FlattenStep
<1> HIDE DEF rank, nx, h, D, W, stop
<1>4. PICK f : f = FlattenStep(seqs, f) /\ FlattenSeq(seqs) = f[n]
  BY <1>0, <1>3, FlattenChoice
<1>5. \A i \in 1..n : f[i] = IF i = 1 THEN seqs[i] ELSE f[i - 1] \o seqs[i]
  <2>1. \A i \in 1..n : FlattenStep(seqs, f)[i] = IF i = 1 THEN seqs[i] ELSE f[i - 1] \o seqs[i]
    BY <1>0 DEF FlattenStep
  <2> QED
    BY <1>4, <2>1, Zenon
<1> DEFINE S == {k \in 0..n-1 : f[k + 1] \in Seq(V)}
<1>6. S \subseteq 0..n-1 /\ 0 \in S
  BY <1>5
<1>7. \A k \in S : k < n - 1 => k + 1 \in S
  <2> SUFFICES ASSUME NEW k \in S, k < n - 1 PROVE k + 1 \in S
    OBVIOUS
  <2>1. k + 2 \in 1..n /\ k + 2 # 1 /\ (k + 2) - 1 = k + 1 /\ (k + 1) + 1 = k + 2 /\ k + 1 \in 0..n-1
    OBVIOUS
  <2>2. f[k + 2] = f[k + 1] \o seqs[k + 2]
    BY <1>5, <2>1
  <2>3. f[k + 1] \in Seq(V) /\ seqs[k + 2] \in Seq(V)
    BY <2>1
  <2>4. f[k + 2] \in Seq(V)
    BY <2>2, <2>3
  <2> QED
    BY <2>1, <2>4
<1>8. n - 1 \in Nat
  OBVIOUS
<1> HIDE DEF S
<1>9. S = 0..n-1
  BY <1>6, <1>7, <1>8, Upto
<1>10. \A i \in 1..n : f[i] \in Seq(V)
  <2> SUFFICES ASSUME NEW i \in 1..n PROVE f[i] \in Seq(V)
    OBVIOUS
  <2>1. i - 1 \in 0..n-1 /\ (i - 1) + 1 = i
    OBVIOUS
  <2> QED
    BY <1>9, <2>1 DEF S
<1>11. f = [i \in 1..n |-> f[i]]
  <2>1. FlattenStep(seqs, f) = [i \in 1..n |-> IF i = 1 THEN seqs[i] ELSE f[i - 1] \o seqs[i]]
    BY <1>0 DEF FlattenStep
  <2> HIDE DEF S
  <2> QED
    BY <1>4, <2>1
<1>12. f \in [1..n -> Seq(V)]
  BY <1>10, <1>11
<1>13. f[1] = seqs[1] /\ \A i \in 2..n : f[i] = f[i - 1] \o seqs[i]
  <2>1. 1 \in 1..n /\ \A i \in 2..n : i \in 1..n /\ i # 1
    OBVIOUS
  <2> QED
    BY <1>5, <2>1
<1> QED
  BY <1>4, <1>12, <1>13 DEF Growing

\* Two items are a sequence.
LEMMA TwoItems == ASSUME NEW V, NEW x \in V, NEW y \in V PROVE <<x, y>> \in Seq(V) /\ Len(<<x, y>>) = 2
OBVIOUS

\* A sequence stands in another after the first o items.
Within(b, o, c) ==
    /\ o + Len(c) <= Len(b)
    /\ \A k \in 1..Len(c) : b[o + k] = c[k]

\* A sequence is its n pieces, which end at the places that at says.
Pieces(V, b, s, n, at) ==
    /\ b \in Seq(V)
    /\ at \in [0..n -> Nat] /\ at[0] = 0 /\ at[n] = Len(b)
    /\ \A i \in 1..n : /\ s[i] \in Seq(V) /\ at[i] = at[i - 1] + Len(s[i])
                       /\ Within(b, at[i - 1], s[i])

\* It stays where it is, whatever is appended, and is where it is appended.
LEMMA WithinBefore ==
    ASSUME NEW V, NEW b \in Seq(V), NEW c \in Seq(V), NEW o \in Nat, NEW d \in Seq(V),
           Within(b, o, d)
    PROVE  Within(b \o c, o, d)
<1>1. Len(b) \in Nat /\ Len(c) \in Nat /\ Len(d) \in Nat
  OBVIOUS
<1>2. /\ Len(b \o c) = Len(b) + Len(c)
      /\ \A i \in 1..Len(b) : (b \o c)[i] = b[i]
  BY Concat
<1>3. o + Len(d) <= Len(b) /\ \A k \in 1..Len(d) : b[o + k] = d[k]
  BY DEF Within
<1>4. \A k \in 1..Len(d) : o + k \in 1..Len(b)
  BY <1>1, <1>3
<1>5. o + Len(d) <= Len(b \o c)
  BY <1>1, <1>2, <1>3
<1> DEFINE e == b \o c
<1> HIDE DEF e
<1> QED
  BY <1>2, <1>3, <1>4, <1>5 DEF Within, e

\* And one that is appended stands after what was there.
LEMMA WithinAfter ==
    ASSUME NEW V, NEW b \in Seq(V), NEW c \in Seq(V)
    PROVE  Within(b \o c, Len(b), c)
BY Concat DEF Within

\* A sequence and one piece more.
LEMMA PiecesMore ==
    ASSUME NEW V, NEW b, NEW n \in Nat, NEW s, NEW at, Pieces(V, b, s, n, at),
           NEW t, \A i \in 1..n : t[i] = s[i], NEW c \in Seq(V), t[n + 1] = c
    PROVE  \E to : Pieces(V, b \o c, t, n + 1, to)
<1> DEFINE d  == b \o c
           to == [i \in 0..n+1 |-> IF i = n + 1 THEN Len(d) ELSE at[i]]
<1>1. /\ b \in Seq(V) /\ at \in [0..n -> Nat] /\ at[0] = 0 /\ at[n] = Len(b)
      /\ \A i \in 1..n : /\ s[i] \in Seq(V) /\ at[i] = at[i - 1] + Len(s[i])
                         /\ Within(b, at[i - 1], s[i])
  BY DEF Pieces
<1>2. d \in Seq(V) /\ Len(d) = Len(b) + Len(c)
  BY <1>1, Concat
<1>3. Within(d, Len(b), c)
  BY <1>1, WithinAfter
<1>4. \A i \in 1..n : Within(d, at[i - 1], s[i])
  <2> SUFFICES ASSUME NEW i \in 1..n PROVE Within(d, at[i - 1], s[i])
    OBVIOUS
  <2>1. i \in 1..n /\ i - 1 \in 0..n
    OBVIOUS
  <2>2. at[i - 1] \in Nat /\ s[i] \in Seq(V) /\ Within(b, at[i - 1], s[i])
    BY <1>1, <2>1
  <2> QED
    BY <1>1, <2>2, WithinBefore
<1> HIDE DEF d
<1>5. Len(d) \in Nat /\ Len(b) \in Nat
  BY <1>1, <1>2
<1>6. \A i \in 0..n : to[i] = at[i]
  OBVIOUS
<1>7. to \in [0..n+1 -> Nat] /\ to[n + 1] = Len(d) /\ to[0] = 0
  BY <1>1, <1>5, <1>6
<1> HIDE DEF to
<1>8. ASSUME NEW i \in 1..n+1
      PROVE  /\ t[i] \in Seq(V) /\ to[i] = to[i - 1] + Len(t[i])
             /\ Within(d, to[i - 1], t[i])
  <2>1. CASE i = n + 1
    <3>1. i - 1 = n /\ to[i - 1] = Len(b) /\ t[i] = c /\ to[i] = Len(d)
      BY <1>1, <1>6, <1>7, <2>1
    <3> QED
      BY <1>2, <1>3, <3>1
  <2>2. CASE i # n + 1
    <3>1. i \in 1..n /\ i - 1 \in 0..n /\ i \in 0..n
      BY <2>2
    <3>2. t[i] = s[i] /\ to[i] = at[i] /\ to[i - 1] = at[i - 1]
      BY <1>6, <3>1
    <3> QED
      BY <1>1, <1>4, <3>1, <3>2
  <2> QED
    BY <2>1, <2>2
<1>9. Pieces(V, d, t, n + 1, to)
  BY <1>2, <1>7, <1>8 DEF Pieces
<1> QED
  BY <1>9 DEF d

\* FlattenSeq puts its pieces together.
LEMMA FlattenPieces ==
    ASSUME NEW V, NEW n \in Nat, NEW seqs \in [1..n -> Seq(V)]
    PROVE  \E at : Pieces(V, FlattenSeq(seqs), seqs, n, at)
<1>1. Pieces(V, << >>, seqs, 0, [i \in 0..0 |-> 0])
  <2>1. << >> \in Seq(V) /\ Len(<< >>) = 0 /\ [i \in 0..0 |-> 0] \in [0..0 -> Nat]
    OBVIOUS
  <2>2. [i \in 0..0 |-> 0][0] = 0
    OBVIOUS
  <2>3. 1..0 = {}
    OBVIOUS
  <2> QED
    BY <2>1, <2>2, <2>3 DEF Pieces
<1>2. CASE n = 0
  <2>1. seqs = << >>
    BY <1>2
  <2>2. FlattenSeq(seqs) = << >>
    BY <2>1 DEF FlattenSeq
  <2> QED
    BY <1>1, <1>2, <2>2
<1>3. CASE n # 0
  <2>1. n >= 1
    BY <1>3
  <2>2. PICK f : Growing(V, seqs, n, f) /\ FlattenSeq(seqs) = f[n]
    BY <2>1, FlattenIs
  <2>3. /\ f \in [1..n -> Seq(V)] /\ f[1] = seqs[1]
        /\ \A i \in 2..n : f[i] = f[i - 1] \o seqs[i]
    BY <2>2 DEF Growing
  <2> DEFINE P(i) == IF i = 0 THEN << >> ELSE f[i]
             S == {i \in 0..n : \E at : Pieces(V, P(i), seqs, i, at)}
  <2>4. S \subseteq 0..n /\ 0 \in S
    BY <1>1
  <2>5. ASSUME NEW i \in S, i < n PROVE i + 1 \in S
    <3>1. i \in 0..n /\ i \in Nat /\ i + 1 \in 1..n /\ i + 1 \in 0..n /\ i + 1 # 0
      BY <2>5
    <3>2. PICK at : Pieces(V, P(i), seqs, i, at)
      OBVIOUS
    <3> DEFINE c == seqs[i + 1]
    <3>3. c \in Seq(V)
      BY <3>1
    <3>4. f[i + 1] = P(i) \o c
      <4>1. CASE i = 0
        <5>1. f[1] = c
          BY <2>3, <4>1
        <5> HIDE DEF c
        <5>2. << >> \o c = c
          BY <3>3
        <5> QED
          BY <4>1, <5>1, <5>2
      <4>2. CASE i # 0
        <5>1. i + 1 \in 2..n /\ (i + 1) - 1 = i
          BY <3>1, <4>2
        <5> QED
          BY <2>3, <4>2, <5>1
      <4> QED
        BY <4>1, <4>2
    <3>5. P(i + 1) = f[i + 1]
      BY <3>1
    <3> HIDE DEF P, c
    <3>6. \E to : Pieces(V, P(i) \o c, seqs, i + 1, to)
      <4>1. seqs[i + 1] = c
        BY DEF c
      <4> QED
        BY <3>1, <3>2, <3>3, <4>1, PiecesMore
    <3> QED
      BY <3>1, <3>4, <3>5, <3>6
  <2> HIDE DEF S
  <2>6. S = 0..n
    BY <2>4, <2>5, Upto
  <2>7. n \in S
    BY <2>6
  <2> QED
    BY <1>3, <2>2, <2>7 DEF S
<1> QED
  BY <1>2, <1>3

-----------------------------------------------------------------------------
(* The fields of an area.                                                   *)

\* The bytes of a field.
LEMMA FieldBytes ==
    ASSUME NEW kw \in Byte \X Byte, NEW data \in Seq(Byte), Len(data) \in Byte,
           NEW c, c = Field(kw, data)
    PROVE  /\ c \in Seq(Byte) /\ Len(c) = 3 + Len(data)
           /\ c[1] = kw[1] /\ c[2] = kw[2] /\ c[3] = Len(data)
           /\ \A k \in 1..Len(data) : c[3 + k] = data[k]
<1> DEFINE e  == <<Len(data)>>
           ue == kw \o e
<1>1. kw \in Seq(Byte) /\ Len(kw) = 2
  <2>1. kw[1] \in Byte /\ kw[2] \in Byte /\ kw = <<kw[1], kw[2]>>
    OBVIOUS
  <2>2. <<kw[1], kw[2]>> \in Seq(Byte) /\ Len(<<kw[1], kw[2]>>) = 2
    BY <2>1, TwoItems
  <2> QED
    BY <2>1, <2>2
<1>2. e \in Seq(Byte) /\ Len(e) = 1 /\ e[1] = Len(data)
  OBVIOUS
<1>3. Len(data) \in Nat
  OBVIOUS
<1>4. c = ue \o data
  BY DEF Field
<1> HIDE DEF e
<1>5. /\ ue \in Seq(Byte) /\ Len(ue) = Len(kw) + Len(e)
      /\ \A i \in 1..Len(kw) : ue[i] = kw[i]
      /\ \A i \in 1..Len(e) : ue[Len(kw) + i] = e[i]
  <2>1. kw \in Seq(Byte) /\ e \in Seq(Byte)
    BY <1>1, <1>2
  <2> QED
    BY <2>1, Concat
<1> HIDE DEF ue
<1>6. ue[1] = kw[1] /\ ue[2] = kw[2] /\ ue[3] = Len(data) /\ Len(ue) = 3
  <2>1. ue[2 + 1] = e[1]
    BY <1>1, <1>2, <1>5
  <2> QED
    BY <1>1, <1>2, <1>5, <2>1
<1>7. /\ c \in Seq(Byte) /\ Len(c) = Len(ue) + Len(data)
      /\ \A i \in 1..Len(ue) : c[i] = ue[i]
      /\ \A i \in 1..Len(data) : c[Len(ue) + i] = data[i]
  <2>1. ue \in Seq(Byte) /\ data \in Seq(Byte)
    BY <1>5
  <2> QED
    BY <1>4, <2>1, Concat
<1> QED
  BY <1>3, <1>6, <1>7

\* A step of the recursion of Scan.
ScanStep(b, f) ==
    [p \in 1..Len(b) + 1 |->
        IF p + 2 > Len(b) THEN << >>
        ELSE LET last == p + 2 + b[p + 2] IN
             IF last > Len(b) THEN << >>
             ELSE <<[kw |-> <<b[p], b[p + 1]>>, data |-> SubSeq(b, p + 3, last),
                     after |-> last]>> \o f[last + 1]]

\* Scan is that recursion.
LEMMA ScanChoice ==
    ASSUME NEW b, NEW g, g = ScanStep(b, g)
    PROVE  \E f : f = ScanStep(b, f) /\ Scan(b) = f[1]
<1> DEFINE f == CHOOSE h : h = ScanStep(b, h)
<1>1. f = ScanStep(b, f)
  OBVIOUS
<1>2. Scan(b) = f[1]
  BY Zenon DEF Scan, ScanStep
<1> QED
  BY <1>1, <1>2

\* What the scanner makes of a field.
Found(kw, data, after) == [kw |-> kw, data |-> data, after |-> after]
Item == [kw : Byte \X Byte, data : Seq(Byte), after : Nat]

\* It comes to an end.
LEMMA ScanFunction ==
    ASSUME NEW b \in Seq(Byte)
    PROVE  \E f : f = ScanStep(b, f)
<1> DEFINE m    == Len(b) + 1
           D    == 1..m
           W    == Seq(Item)
           last == [p \in D |-> p + 2 + b[p + 2]]
           stop == {p \in D : p + 2 > Len(b) \/ last[p] > Len(b)}
           item == [p \in D |-> [kw |-> <<b[p], b[p + 1]>>, data |-> SubSeq(b, p + 3, last[p]),
                                 after |-> last[p]]]
           base == [p \in D |-> << >>]
           nx   == [p \in D |-> IF p \in stop THEN p ELSE last[p] + 1]
           h    == [z \in D \X W |-> IF z[1] \in stop THEN << >> ELSE <<item[z[1]]>> \o z[2]]
           rank == [p \in D |-> m - p]
<1>1. Len(b) \in Nat /\ m \in Nat /\ \A i \in 1..Len(b) : b[i] \in 0..255
  <2>1. \A i \in 1..Len(b) : b[i] \in Byte
    OBVIOUS
  <2>2. Byte = 0..255
    BY DEF Byte
  <2> HIDE DEF m
  <2>3. Len(b) \in Nat /\ m \in Nat
    BY DEF m
  <2> QED
    BY <2>1, <2>2, <2>3
<1>2. ASSUME NEW p \in D, p \notin stop
      PROVE  last[p] \in Nat /\ p + 2 <= last[p] /\ last[p] <= Len(b) /\ p \in 1..Len(b)
             /\ p + 1 \in 1..Len(b) /\ last[p] + 1 \in D
  <2>1. p \in Nat /\ 1 <= p /\ p + 2 <= Len(b)
    BY <1>1, <1>2
  <2>2. b[p + 2] \in 0..255
    BY <1>1, <2>1
  <2>3. last[p] = p + 2 + b[p + 2]
    OBVIOUS
  <2>4. ~(last[p] > Len(b))
    BY <1>2
  <2> DEFINE l == last[p]
             v == b[p + 2]
  <2>5. l = p + 2 + v /\ ~(l > Len(b)) /\ v \in 0..255
    BY <2>2, <2>3, <2>4
  <2> HIDE DEF l, v
  <2>6. l \in Nat /\ p + 2 <= l /\ l <= Len(b) /\ p \in 1..Len(b)
        /\ p + 1 \in 1..Len(b) /\ l + 1 \in D
    BY <1>1, <2>1, <2>5
  <2> QED
    BY <2>6 DEF l
<1> HIDE DEF last
<1>3. ASSUME NEW p \in D, p \notin stop PROVE item[p] \in Item
  <2>1. last[p] \in Nat /\ p + 2 <= last[p] /\ last[p] <= Len(b)
    BY <1>2, <1>3
  <2>2. b[p] \in Byte /\ b[p + 1] \in Byte
    BY <1>2, <1>3
  <2>3. SubSeq(b, p + 3, last[p]) \in Seq(Byte)
    BY <1>1, <2>1
  <2> QED
    BY <2>1, <2>2, <2>3 DEF Item
<1> HIDE DEF item, stop
<1>4. base \in [D -> W] /\ nx \in [D -> D] /\ rank \in [D -> 0..m]
  BY <1>1, <1>2
<1>5. h \in [D \X W -> W]
  <2> SUFFICES ASSUME NEW z \in D \X W, z[1] \notin stop PROVE <<item[z[1]]>> \o z[2] \in W
    OBVIOUS
  <2>1. z[1] \in D /\ z[2] \in Seq(Item) /\ item[z[1]] \in Item
    BY <1>3
  <2> QED
    BY <2>1
<1>6. \A p \in D \ stop : rank[nx[p]] < rank[p]
  <2> SUFFICES ASSUME NEW p \in D, p \notin stop PROVE rank[nx[p]] < rank[p]
    OBVIOUS
  <2>1. nx[p] = last[p] + 1 /\ last[p] \in Nat /\ p + 2 <= last[p] /\ last[p] + 1 \in D
    BY <1>2
  <2> QED
    BY <1>1, <2>1
<1>7. Descends(D, W, m, rank, stop, base, nx, h)
  <2> HIDE DEF D, W, rank, base, nx, h, m
  <2> QED
    BY <1>1, <1>4, <1>5, <1>6 DEF Descends
<1>8. PICK f \in [D -> W] : \A p \in D : f[p] = IF p \in stop THEN base[p] ELSE h[<<p, f[nx[p]]>>]
  <2> HIDE DEF D, W, rank, base, nx, h, m
  <2> QED
    BY <1>7, Recursion
<1>9. ASSUME NEW p \in D PROVE f[p] = ScanStep(b, f)[p]
  <2>1. CASE p \in stop
    <3>1. f[p] = << >>
      BY <1>8, <2>1
    <3>2. p + 2 > Len(b) \/ p + 2 + b[p + 2] > Len(b)
      BY <2>1 DEF stop, last
    <3> QED
      BY <3>1, <3>2 DEF ScanStep
  <2>2. CASE p \notin stop
    <3>1. nx[p] = last[p] + 1 /\ last[p] + 1 \in D
      BY <1>2, <2>2
    <3>2. f[last[p] + 1] \in W
      BY <3>1
    <3>3. h[<<p, f[last[p] + 1]>>] = <<item[p]>> \o f[last[p] + 1]
      BY <2>2, <3>2
    <3>4. f[p] = <<item[p]>> \o f[last[p] + 1]
      BY <1>8, <2>2, <3>1, <3>3
    <3>5. ~(p + 2 > Len(b)) /\ ~(p + 2 + b[p + 2] > Len(b)) /\ last[p] = p + 2 + b[p + 2]
      BY <2>2 DEF stop, last
    <3>6. item[p] = [kw |-> <<b[p], b[p + 1]>>, data |-> SubSeq(b, p + 3, p + 2 + b[p + 2]),
                     after |-> p + 2 + b[p + 2]]
      BY <3>5 DEF item
    <3> QED
      BY <3>4, <3>5, <3>6 DEF ScanStep
  <2> QED
    BY <2>1, <2>2
<1>10. f = [p \in D |-> f[p]] /\ ScanStep(b, f) = [p \in D |-> ScanStep(b, f)[p]]
  BY DEF ScanStep
<1>11. f = ScanStep(b, f)
  BY <1>9, <1>10
<1> QED
  BY <1>11

\* The scanner finds a field where there is one.
LEMMA ScanField ==
    ASSUME NEW b \in Seq(Byte), NEW f, f = ScanStep(b, f), NEW o \in Nat,
           NEW kw \in Byte \X Byte, NEW data \in Seq(Byte), Len(data) \in Byte,
           NEW c \in Seq(Byte), c = Field(kw, data), Within(b, o, c),
           NEW last \in Nat, last = o + Len(c)
    PROVE  f[o + 1] = Cons(Found(kw, data, last), f[last + 1])
<1>1. /\ Len(c) = 3 + Len(data) /\ c[1] = kw[1] /\ c[2] = kw[2] /\ c[3] = Len(data)
      /\ \A k \in 1..Len(data) : c[3 + k] = data[k]
  BY FieldBytes
<1>2. Len(b) \in Nat /\ Len(data) \in Nat
  OBVIOUS
<1>3. o + Len(c) <= Len(b) /\ \A k \in 1..Len(c) : b[o + k] = c[k]
  BY DEF Within
<1>4. o + 3 + Len(data) <= Len(b)
  BY <1>1, <1>2, <1>3
<1>5. b[o + 1] = kw[1] /\ b[o + 2] = kw[2] /\ b[o + 3] = Len(data)
  BY <1>1, <1>2, <1>3
<1>l. last = o + 3 + Len(data)
  BY <1>1, <1>2
<1> DEFINE p == o + 1
<1>6. p \in 1..Len(b) + 1 /\ ~(p + 2 > Len(b)) /\ p + 2 = o + 3 /\ p + 1 = o + 2 /\ p + 3 = o + 4
  BY <1>2, <1>4, <1>l
<1>7. p + 2 + b[p + 2] = last /\ ~(last > Len(b))
  <2>1. b[p + 2] = Len(data)
    BY <1>5, <1>6
  <2>2. p + 2 + Len(data) = last /\ ~(last > Len(b))
    BY <1>2, <1>4, <1>l
  <2> QED
    BY <2>1, <2>2
<1>8. SubSeq(b, p + 3, last) = data
  <2> DEFINE s == SubSeq(b, p + 3, last)
  <2>0. p + 3 \in Nat /\ 1 <= p + 3 /\ last <= Len(b) /\ p + 3 <= last + 1 /\ last - (p + 3) + 1 = Len(data)
    BY <1>2, <1>4, <1>l
  <2>1. s \in Seq(Byte) /\ Len(s) = Len(data) /\ \A k \in 1..Len(s) : s[k] = b[p + 3 + k - 1]
    <3> DEFINE q == p + 3
    <3>1. q \in Nat /\ 1 <= q /\ last <= Len(b) /\ q <= last + 1 /\ last - q + 1 = Len(data)
      BY <2>0
    <3>2. \A k \in Nat : p + 3 + k - 1 = q + k - 1
      OBVIOUS
    <3> HIDE DEF q
    <3>3. SubSeq(b, q, last) \in Seq(Byte) /\ Len(SubSeq(b, q, last)) = Len(data)
          /\ \A k \in 1..Len(data) : SubSeq(b, q, last)[k] = b[q + k - 1]
      BY <1>2, <3>1
    <3> QED
      BY <1>2, <3>2, <3>3 DEF q
  <2>2. ASSUME NEW k \in 1..Len(data) PROVE s[k] = data[k]
    <3>1. 3 + k \in 1..Len(c) /\ p + 3 + k - 1 = o + (3 + k)
      <4>1. k \in Nat /\ 1 <= k /\ k <= Len(data) /\ Len(c) = 3 + Len(data)
        BY <1>1, <1>2
      <4>2. p + 3 + k - 1 = o + (3 + k)
        BY <4>1
      <4> HIDE DEF p
      <4> QED
        BY <1>2, <4>1, <4>2
    <3>2. b[o + (3 + k)] = c[3 + k]
      BY <1>3, <3>1
    <3> HIDE DEF s
    <3> QED
      BY <1>1, <2>1, <3>1, <3>2
  <2> HIDE DEF s
  <2>3. s = data
    BY <2>1, <2>2, SameItems
  <2> QED
    BY <2>3 DEF s
<1>9. <<b[p], b[p + 1]>> = kw
  BY <1>5, <1>6
<1>10. f[p] = <<[kw |-> <<b[p], b[p + 1]>>, data |-> SubSeq(b, p + 3, last), after |-> last]>> \o f[last + 1]
  <2> HIDE DEF p
  <2>1. ScanStep(b, f)[p] = <<[kw |-> <<b[p], b[p + 1]>>, data |-> SubSeq(b, p + 3, last), after |-> last]>> \o f[last + 1]
    BY <1>6, <1>7 DEF ScanStep
  <2> QED
    BY <2>1
<1> QED
  BY <1>8, <1>9, <1>10 DEF Cons, Found


\* What comes after the i-th of n items.
Rest(it, n, i) == [j \in 1..n-i |-> it[i + j]]

\* The end of a list, with the item before it.
LEMMA RestMore ==
    ASSUME NEW V, NEW n \in Nat, NEW it \in [1..n -> V], NEW i \in 1..n
    PROVE  Cons(it[i], Rest(it, n, i)) = Rest(it, n, i - 1)
<1> DEFINE x == it[i]
           t == [j \in 1..n-i |-> it[i + j]]
           u == [j \in 1..n-(i-1) |-> it[(i - 1) + j]]
           e == <<x>>
           c == e \o t
<1>1. x \in V /\ n - i \in Nat /\ n - (i - 1) \in Nat /\ n - (i - 1) = 1 + (n - i)
  OBVIOUS
<1>2. t \in [1..n-i -> V] /\ u \in [1..n-(i-1) -> V]
  <2>1. \A j \in 1..n-i : i + j \in 1..n
    OBVIOUS
  <2>2. \A j \in 1..n-(i-1) : (i - 1) + j \in 1..n
    OBVIOUS
  <2> QED
    BY <2>1, <2>2
<1>3. t \in Seq(V) /\ Len(t) = n - i /\ u \in Seq(V) /\ Len(u) = n - (i - 1)
  <2> HIDE DEF t, u
  <2> QED
    BY <1>1, <1>2
<1>4. e \in Seq(V) /\ Len(e) = 1 /\ e[1] = x
  BY <1>1
<1> HIDE DEF e
<1>5. /\ c \in Seq(V) /\ Len(c) = Len(e) + Len(t)
      /\ \A k \in 1..Len(e) : c[k] = e[k]
      /\ \A k \in 1..Len(t) : c[Len(e) + k] = t[k]
  <2> HIDE DEF t
  <2> QED
    <3>1. e \in Seq(V) /\ t \in Seq(V)
      BY <1>3, <1>4
    <3> QED
      BY <3>1, Concat
<1> HIDE DEF c
<1>6. ASSUME NEW k \in 1..Len(c) PROVE c[k] = u[k]
  <2>0. Len(c) = n - (i - 1) /\ k \in 1..n-(i-1)
    BY <1>1, <1>3, <1>4, <1>5
  <2>1. u[k] = it[(i - 1) + k]
    BY <2>0
  <2>2. CASE k = 1
    <3>1. c[k] = x
      BY <1>4, <1>5, <2>2
    <3>2. (i - 1) + k = i
      BY <2>2
    <3> QED
      BY <2>1, <3>1, <3>2
  <2>3. CASE k # 1
    <3>1. k - 1 \in 1..n-i /\ 1 + (k - 1) = k /\ i + (k - 1) = (i - 1) + k
      BY <1>1, <2>0, <2>3
    <3>2. t[k - 1] = it[(i - 1) + k]
      BY <3>1
    <3>3. c[k] = t[k - 1]
      <4> HIDE DEF t, u
      <4> QED
        BY <1>3, <1>4, <1>5, <3>1
    <3> QED
      BY <2>1, <3>2, <3>3
  <2> QED
    BY <2>2, <2>3
<1>7. Len(c) = Len(u)
  BY <1>1, <1>3, <1>4, <1>5
<1> HIDE DEF t, u
<1>8. c = u
  BY <1>3, <1>5, <1>6, <1>7, SameItems
<1> QED
  BY <1>8 DEF c, e, t, u, Rest, Cons

\* What the scanner makes of n fields.
Items(n, kw, data, at) == [i \in 1..n |-> Found(kw[i], data[i], at[i])]

\* An area of n fields, each with its bytes in their place.
IsArea(n, kw, data, b, s, at) ==
    /\ n \in Nat /\ kw \in [1..n -> Byte \X Byte] /\ data \in [1..n -> Seq(Byte)]
    /\ \A i \in 1..n : Len(data[i]) \in Byte
    /\ Pieces(Byte, b, s, n, at)
    /\ \A i \in 1..n : s[i] = Field(kw[i], data[i])

\* The scanner finds the fields that an area is made of.
LEMMA ScanOf ==
    ASSUME NEW n, NEW kw, NEW data, NEW b, NEW s, NEW at, IsArea(n, kw, data, b, s, at)
    PROVE  Scan(b) = Items(n, kw, data, at)
<1>a. /\ n \in Nat /\ kw \in [1..n -> Byte \X Byte] /\ data \in [1..n -> Seq(Byte)]
      /\ \A i \in 1..n : Len(data[i]) \in Byte
      /\ Pieces(Byte, b, s, n, at)
      /\ \A i \in 1..n : s[i] = Field(kw[i], data[i])
  BY DEF IsArea
<1> USE <1>a
<1> DEFINE it == [i \in 1..n |-> Found(kw[i], data[i], at[i])]
<1>1. /\ b \in Seq(Byte)
      /\ at \in [0..n -> Nat] /\ at[0] = 0 /\ at[n] = Len(b)
      /\ \A i \in 1..n : /\ s[i] \in Seq(Byte) /\ at[i] = at[i - 1] + Len(s[i])
                         /\ Within(b, at[i - 1], s[i])
  BY DEF Pieces
<1>2. PICK f : f = ScanStep(b, f) /\ Scan(b) = f[1]
  BY <1>1, ScanFunction, ScanChoice
<1>3. it \in [1..n -> Item]
  BY <1>1 DEF Item, Found
<1> DEFINE S == {i \in 0..n : f[at[i] + 1] = Rest(it, n, i)}
<1>4. n \in S
  <2>1. Len(b) \in Nat
    BY <1>1
  <2>2. ScanStep(b, f)[Len(b) + 1] = << >>
    BY <2>1 DEF ScanStep
  <2>3. f[at[n] + 1] = << >>
    BY <1>1, <1>2, <2>2
  <2>4. n - n = 0 /\ 1..0 = {}
    OBVIOUS
  <2>5. Rest(it, n, n) = << >>
    <3> HIDE DEF it
    <3> QED
      BY <2>4 DEF Rest
  <2> HIDE DEF it
  <2> QED
    BY <2>3, <2>5
<1>5. ASSUME NEW i \in S, i > 0 PROVE i - 1 \in S
  <2>1. i \in 1..n /\ i - 1 \in 0..n
    BY <1>5
  <2> DEFINE c == s[i]
             w == kw[i]
             d == data[i]
             o == at[i - 1]
  <2>0. b \in Seq(Byte) /\ f = ScanStep(b, f)
    BY <1>1, <1>2
  <2>2. w \in Byte \X Byte /\ d \in Seq(Byte) /\ Len(d) \in Byte /\ c = Field(w, d) /\ o \in Nat
    BY <1>1, <2>1
  <2>3. Within(b, o, c) /\ at[i] = o + Len(c)
    BY <1>1, <2>1
  <2>4. it[i] = Found(w, d, at[i])
    BY <2>1
  <2> HIDE DEF c, w, d, o
  <2>5. f[o + 1] = Cons(Found(w, d, at[i]), f[at[i] + 1])
    <3> HIDE DEF it, S
    <3> QED
      <4>1. c \in Seq(Byte) /\ at[i] \in Nat
        BY <1>1, <2>1 DEF c
      <4> DEFINE last == at[i]
      <4>2. last \in Nat /\ last = o + Len(c) /\ Within(b, o, c)
        BY <2>3, <4>1
      <4> HIDE DEF last
      <4>3. f[o + 1] = Cons(Found(w, d, last), f[last + 1])
        BY <2>0, <2>2, <4>1, <4>2, ScanField
      <4> QED
        BY <4>3 DEF last
  <2>6. f[at[i] + 1] = Rest(it, n, i)
    OBVIOUS
  <2>7. f[o + 1] = Cons(it[i], Rest(it, n, i))
    <3> HIDE DEF it, S
    <3> QED
      BY <2>3, <2>4, <2>5, <2>6
  <2>8. f[o + 1] = Rest(it, n, i - 1)
    <3> HIDE DEF it, S
    <3>1. Cons(it[i], Rest(it, n, i)) = Rest(it, n, i - 1)
      BY <1>3, <2>1, RestMore
    <3> QED
      BY <2>7, <3>1
  <2> HIDE DEF it
  <2> QED
    BY <2>1, <2>8 DEF o
<1>6. S \subseteq 0..n
  OBVIOUS
<1> HIDE DEF S
<1>7. S = 0..n
  BY <1>4, <1>5, <1>6, Downto
<1>8. f[1] = Rest(it, n, 0)
  <2> HIDE DEF it
  <2>1. 0 \in S
    BY <1>7
  <2>2. f[at[0] + 1] = Rest(it, n, 0)
    BY <2>1 DEF S
  <2> QED
    BY <1>1, <2>2
<1>9. Rest(it, n, 0) = it
  <2>1. n - 0 = n /\ \A j \in 1..n : 0 + j = j
    OBVIOUS
  <2> QED
    BY <1>3, <2>1 DEF Rest
<1> QED
  BY <1>2, <1>8, <1>9 DEF Items

-----------------------------------------------------------------------------
(* The resources of a block.                                                *)

\* A step of the recursion of Resources.
ResStep(b, f) ==
    [p \in 1..Len(b) + 1 |->
        IF p > Len(b) \/ (b[p] >= 128 /\ p + 2 > Len(b)) THEN << >>
        ELSE LET large == b[p] >= 128
                 type  == IF large THEN b[p] - 128 ELSE b[p] \div 8
                 len   == IF large THEN b[p + 1] + 256 * b[p + 2] ELSE b[p] % 8
                 first == IF large THEN p + 3 ELSE p + 1
             IN  IF first + len - 1 > Len(b) THEN << >>
                 ELSE <<[type |-> type, large |-> large,
                         data |-> SubSeq(b, first, first + len - 1)]>>
                      \o (IF type = END_TAG THEN << >> ELSE f[first + len])]

\* Resources is that recursion.
LEMMA ResChoice ==
    ASSUME NEW b, NEW g, g = ResStep(b, g)
    PROVE  \E f : f = ResStep(b, f) /\ Resources(b) = f[1]
<1> DEFINE f == CHOOSE h : h = ResStep(b, h)
<1>1. f = ResStep(b, f)
  OBVIOUS
<1>2. Resources(b) = f[1]
  BY Zenon DEF Resources, ResStep
<1> QED
  BY <1>1, <1>2

\* What info makes of a resource.
Res(type, large, data) == [type |-> type, large |-> large, data |-> data]
ResItem == [type : Int, large : BOOLEAN, data : Seq(Byte)]

\* A resource begins at p: its tag, its length and where its data begins, if the
\* bytes are there.
IsLarge(b, p)  == b[p] >= 128
ResType(b, p)  == IF IsLarge(b, p) THEN b[p] - 128 ELSE b[p] \div 8
ResLen(b, p)   == IF IsLarge(b, p) THEN b[p + 1] + 256 * b[p + 2] ELSE b[p] % 8
ResFirst(b, p) == IF IsLarge(b, p) THEN p + 3 ELSE p + 1
NoRes(b, p) ==
    \/ p > Len(b) \/ (IsLarge(b, p) /\ p + 2 > Len(b))
    \/ ResFirst(b, p) + ResLen(b, p) - 1 > Len(b)

\* The numbers of a resource are numbers.
LEMMA ResNumbers ==
    ASSUME NEW b \in Seq(Byte), NEW p \in Nat, 1 <= p, ~NoRes(b, p)
    PROVE  /\ p \in 1..Len(b) /\ ResType(b, p) \in Int /\ ResLen(b, p) \in Nat
           /\ ResFirst(b, p) \in Nat /\ p < ResFirst(b, p)
           /\ ResFirst(b, p) + ResLen(b, p) - 1 <= Len(b)
           /\ ResFirst(b, p) + ResLen(b, p) \in 1..Len(b) + 1
           /\ p < ResFirst(b, p) + ResLen(b, p)
<1>1. Len(b) \in Nat /\ \A i \in 1..Len(b) : b[i] \in 0..255
  <2>1. \A i \in 1..Len(b) : b[i] \in Byte
    OBVIOUS
  <2>2. Byte = 0..255
    BY DEF Byte
  <2> QED
    BY <2>1, <2>2
<1>2. p <= Len(b) /\ ~(IsLarge(b, p) /\ p + 2 > Len(b))
      /\ ~(ResFirst(b, p) + ResLen(b, p) - 1 > Len(b))
  BY <1>1 DEF NoRes
<1>3. b[p] \in 0..255
  BY <1>1, <1>2
<1>4. ResType(b, p) \in Int /\ ResLen(b, p) \in Nat /\ ResFirst(b, p) \in Nat /\ p < ResFirst(b, p)
  <2>1. CASE IsLarge(b, p)
    <3>1. p + 1 \in 1..Len(b) /\ p + 2 \in 1..Len(b)
      BY <1>1, <1>2, <2>1
    <3>2. b[p + 1] \in 0..255 /\ b[p + 2] \in 0..255
      BY <1>1, <3>1
    <3> DEFINE x == b[p + 1]
               y == b[p + 2]
    <3>3. ResType(b, p) = b[p] - 128 /\ ResLen(b, p) = x + 256 * y /\ ResFirst(b, p) = p + 3
      BY <2>1 DEF ResType, ResLen, ResFirst
    <3>4. x \in 0..255 /\ y \in 0..255 /\ b[p] \in 0..255
      BY <1>3, <3>2
    <3> HIDE DEF x, y
    <3>5. x + 256 * y \in Nat
      BY <3>4
    <3> DEFINE z == b[p]
    <3>6. z - 128 \in Int
      <4>1. z \in 0..255
        BY <3>4
      <4> HIDE DEF z
      <4> QED
        BY <4>1
    <3>7. p + 3 \in Nat /\ p < p + 3
      OBVIOUS
    <3> QED
      BY <3>3, <3>5, <3>6, <3>7
  <2>2. CASE ~IsLarge(b, p)
    <3>1. ResType(b, p) = b[p] \div 8 /\ ResLen(b, p) = b[p] % 8 /\ ResFirst(b, p) = p + 1
      BY <2>2 DEF ResType, ResLen, ResFirst
    <3> DEFINE x == b[p]
    <3> HIDE DEF x
    <3>2. x \in 0..255
      BY <1>3 DEF x
    <3>3. x \div 8 \in Int /\ x % 8 \in Nat
      BY <3>2
    <3> QED
      BY <3>1, <3>3 DEF x
  <2> QED
    BY <2>1, <2>2
<1> DEFINE l == ResLen(b, p)
           a == ResFirst(b, p)
<1> HIDE DEF l, a
<1>5. l \in Nat /\ a \in Nat /\ p < a /\ ~(a + l - 1 > Len(b))
  BY <1>2, <1>4 DEF l, a
<1>6. a + l - 1 <= Len(b) /\ a + l \in 1..Len(b) + 1 /\ p < a + l
  BY <1>1, <1>5
<1>7. p \in 1..Len(b)
  BY <1>1, <1>2
<1> QED
  BY <1>4, <1>6, <1>7 DEF l, a

\* A step of the recursion, in these words.
LEMMA ResStepIs ==
    ASSUME NEW b, NEW f, NEW p \in 1..Len(b) + 1
    PROVE  ResStep(b, f)[p] =
              IF NoRes(b, p) THEN << >>
              ELSE <<Res(ResType(b, p), IsLarge(b, p),
                         SubSeq(b, ResFirst(b, p), ResFirst(b, p) + ResLen(b, p) - 1))>>
                   \o (IF ResType(b, p) = END_TAG THEN << >> ELSE f[ResFirst(b, p) + ResLen(b, p)])
BY DEF ResStep, NoRes, ResType, IsLarge, ResFirst, ResLen, Res

\* It comes to an end.
LEMMA ResFunction ==
    ASSUME NEW b \in Seq(Byte)
    PROVE  \E f : f = ResStep(b, f)
<1> DEFINE m    == Len(b) + 1
           D    == 1..m
           W    == Seq(ResItem)
           dead == {p \in D : NoRes(b, p)}
           ends == {p \in D : ResType(b, p) = END_TAG}
           stop == dead \cup ends
           next == [p \in D |-> ResFirst(b, p) + ResLen(b, p)]
           item == [p \in D |-> Res(ResType(b, p), IsLarge(b, p),
                         SubSeq(b, ResFirst(b, p), ResFirst(b, p) + ResLen(b, p) - 1))]
           base == [p \in D |-> IF p \in dead \/ p \notin ends THEN << >> ELSE <<item[p]>>]
           nx   == [p \in D |-> IF p \in stop THEN p ELSE next[p]]
           h    == [z \in D \X W |-> IF z[1] \in stop THEN << >> ELSE <<item[z[1]]>> \o z[2]]
           rank == [p \in D |-> m - p]
<1>1. Len(b) \in Nat /\ m \in Nat
  OBVIOUS
<1>2. ASSUME NEW p \in D, p \notin dead
      PROVE  /\ next[p] \in D /\ p < next[p] /\ item[p] \in ResItem
  <2>1. p \in Nat /\ 1 <= p /\ ~NoRes(b, p)
    BY <1>1, <1>2
  <2> DEFINE l == ResLen(b, p)
             a == ResFirst(b, p)
             y == ResType(b, p)
             g == IsLarge(b, p)
  <2>2. y \in Int /\ l \in Nat /\ a \in Nat /\ p < a /\ a + l - 1 <= Len(b)
        /\ a + l \in D /\ p < a + l
    BY <2>1, ResNumbers
  <2>3. g \in BOOLEAN
    BY DEF IsLarge
  <2>4. next[p] = a + l /\ item[p] = Res(y, g, SubSeq(b, a, a + l - 1))
    OBVIOUS
  <2> HIDE DEF l, a, y, g
  <2>5. SubSeq(b, a, a + l - 1) \in Seq(Byte)
    <3> DEFINE e == a + l - 1
    <3>1. e \in Int /\ e <= Len(b) /\ 1 <= a
      BY <1>1, <2>1, <2>2
    <3> HIDE DEF e
    <3>2. SubSeq(b, a, e) \in Seq(Byte)
      BY <1>1, <2>2, <3>1
    <3> QED
      BY <3>2 DEF e
  <2> DEFINE d == SubSeq(b, a, a + l - 1)
  <2> HIDE DEF d
  <2>6. Res(y, g, d) \in ResItem
    BY <2>2, <2>3, <2>5 DEF Res, ResItem, d
  <2> HIDE DEF next, item
  <2> QED
    BY <2>2, <2>4, <2>6 DEF d
<1> HIDE DEF next, item, dead, ends
<1>3. base \in [D -> W] /\ nx \in [D -> D] /\ rank \in [D -> 0..m]
  <2>1. ASSUME NEW p \in D PROVE base[p] \in W
    BY <1>2
  <2>2. ASSUME NEW p \in D PROVE nx[p] \in D
    BY <1>2
  <2>3. ASSUME NEW p \in D PROVE rank[p] \in 0..m
    BY <1>1
  <2> QED
    BY <2>1, <2>2, <2>3
<1>4. h \in [D \X W -> W]
  <2> SUFFICES ASSUME NEW z \in D \X W, z[1] \notin stop PROVE <<item[z[1]]>> \o z[2] \in W
    OBVIOUS
  <2>1. z[1] \in D /\ z[2] \in Seq(ResItem) /\ item[z[1]] \in ResItem
    BY <1>2
  <2> QED
    BY <2>1
<1>5. \A p \in D \ stop : rank[nx[p]] < rank[p]
  <2> SUFFICES ASSUME NEW p \in D, p \notin stop PROVE rank[nx[p]] < rank[p]
    OBVIOUS
  <2>1. nx[p] = next[p] /\ next[p] \in D /\ p < next[p]
    BY <1>2
  <2> QED
    BY <1>1, <2>1
<1>6. Descends(D, W, m, rank, stop, base, nx, h)
  <2> HIDE DEF D, W, rank, base, nx, h, m, stop
  <2> QED
    BY <1>1, <1>3, <1>4, <1>5 DEF Descends
<1>7. PICK f \in [D -> W] : \A p \in D : f[p] = IF p \in stop THEN base[p] ELSE h[<<p, f[nx[p]]>>]
  <2> HIDE DEF D, W, rank, base, nx, h, m, stop
  <2> QED
    BY <1>6, Recursion
<1>8. ASSUME NEW p \in D PROVE f[p] = ResStep(b, f)[p]
  <2> DEFINE rest == IF ResType(b, p) = END_TAG THEN << >> ELSE f[ResFirst(b, p) + ResLen(b, p)]
  <2>1. ResStep(b, f)[p] = IF NoRes(b, p) THEN << >> ELSE <<item[p]>> \o rest
    <3>1. p \in 1..Len(b) + 1
      OBVIOUS
    <3>2. item[p] = Res(ResType(b, p), IsLarge(b, p),
                         SubSeq(b, ResFirst(b, p), ResFirst(b, p) + ResLen(b, p) - 1))
      BY DEF item
    <3> HIDE DEF D, W, rank, base, nx, h, m, stop
    <3> QED
      BY <3>1, <3>2, ResStepIs
  <2>2. CASE p \in dead
    <3>1. f[p] = << >>
      BY <1>7, <2>2
    <3>2. NoRes(b, p)
      BY <2>2 DEF dead
    <3> HIDE DEF rest, D, W, rank, base, nx, h, m, stop
    <3> QED
      BY <2>1, <3>1, <3>2
  <2>3. CASE p \notin dead /\ p \in ends
    <3>1. f[p] = <<item[p]>>
      BY <1>7, <2>3
    <3>2. ~NoRes(b, p) /\ rest = << >>
      BY <2>3 DEF dead, ends
    <3>3. <<item[p]>> \o << >> = <<item[p]>>
      BY <1>2, <2>3
    <3> HIDE DEF rest, D, W, rank, base, nx, h, m, stop
    <3> QED
      BY <2>1, <3>1, <3>2, <3>3
  <2>4. CASE p \notin stop
    <3>1. nx[p] = next[p] /\ next[p] \in D
      BY <1>2, <2>4
    <3>2. f[next[p]] \in W
      BY <3>1
    <3>3. h[<<p, f[next[p]]>>] = <<item[p]>> \o f[next[p]]
      BY <2>4, <3>2
    <3>4. f[p] = <<item[p]>> \o f[next[p]]
      BY <1>7, <2>4, <3>1, <3>3
    <3>5. ~NoRes(b, p) /\ rest = f[next[p]]
      BY <2>4 DEF dead, ends, next
    <3> HIDE DEF rest, D, W, rank, base, nx, h, m, stop
    <3> QED
      BY <2>1, <3>4, <3>5
  <2> QED
    BY <2>2, <2>3, <2>4
<1>9. f = [p \in D |-> f[p]] /\ ResStep(b, f) = [p \in D |-> ResStep(b, f)[p]]
  BY DEF ResStep
<1>10. f = ResStep(b, f)
  BY <1>8, <1>9
<1> QED
  BY <1>10

\* A step that finds a resource: the resource, and what comes after it.
ResHere(b, p) ==
    Res(ResType(b, p), IsLarge(b, p), SubSeq(b, ResFirst(b, p), ResFirst(b, p) + ResLen(b, p) - 1))
ResAfter(b, f, p) == IF ResType(b, p) = END_TAG THEN << >> ELSE f[ResFirst(b, p) + ResLen(b, p)]

\* A step finds the resource and goes on behind it.
LEMMA ResStepItem ==
    ASSUME NEW b, NEW f, f = ResStep(b, f), NEW p \in 1..Len(b) + 1, ~NoRes(b, p)
    PROVE  f[p] = Cons(ResHere(b, p), ResAfter(b, f, p))
<1>1. ResStep(b, f)[p] =
              <<Res(ResType(b, p), IsLarge(b, p),
                         SubSeq(b, ResFirst(b, p), ResFirst(b, p) + ResLen(b, p) - 1))>>
                   \o (IF ResType(b, p) = END_TAG THEN << >> ELSE f[ResFirst(b, p) + ResLen(b, p)])
  BY DEF ResStep, NoRes, ResType, IsLarge, ResFirst, ResLen, Res
<1> QED
  BY <1>1 DEF Cons, ResHere, ResAfter

\* A length in two bytes.
Low(n)     == n % 256
High(n)    == n \div 256
Word(x, y) == x + 256 * y

\* A number of two bytes is its bytes.
LEMMA TwoBytes ==
    ASSUME NEW n \in Nat, Short(n)
    PROVE  Low(n) \in 0..255 /\ High(n) \in 0..255 /\ Word(Low(n), High(n)) = n
<1>1. n % 256 \in 0..255
  OBVIOUS
<1>2. n \div 256 \in 0..255
  BY SMT DEF Short
<1>3. (n % 256) + 256 * (n \div 256) = n
  OBVIOUS
<1> QED
  BY <1>1, <1>2, <1>3 DEF Low, High, Word

\* The bytes of a large resource.
LargeIs(c, tag, data, n) ==
    /\ c \in Seq(Byte) /\ Len(c) = 3 + n
    /\ c[1] = 128 + tag /\ c[2] = Low(n) /\ c[3] = High(n) /\ Word(c[2], c[3]) = n
    /\ \A k \in 1..n : c[3 + k] = data[k]

\* The bytes of a large resource are those.
LEMMA LargeBytes ==
    ASSUME NEW tag \in 0..127, NEW data \in Seq(Byte), NEW n \in Nat, n = Len(data), Short(n),
           NEW c, c = Large(tag, data)
    PROVE  LargeIs(c, tag, data, n)
<1> DEFINE x == 128 + tag
           y == Low(n)
           z == High(n)
           e == <<x, y, z>>
<1>1. Byte = 0..255
  BY DEF Byte
<1>2. x \in 0..255 /\ y \in 0..255 /\ z \in 0..255 /\ Word(y, z) = n
  BY TwoBytes
<1>3. c = e \o data
  BY DEF Large, Low, High
<1> HIDE DEF x, y, z
<1>4. e \in Seq(Byte) /\ Len(e) = 3 /\ e[1] = x /\ e[2] = y /\ e[3] = z
  BY <1>1, <1>2
<1> HIDE DEF e
<1>5. /\ c \in Seq(Byte) /\ Len(c) = Len(e) + Len(data)
      /\ \A i \in 1..Len(e) : c[i] = e[i]
      /\ \A i \in 1..Len(data) : c[Len(e) + i] = data[i]
  <2>1. e \in Seq(Byte)
    BY <1>4
  <2> QED
    BY <1>3, <2>1, Concat
<1>6. c[1] = x /\ c[2] = y /\ c[3] = z /\ \A k \in 1..n : c[3 + k] = data[k]
  BY <1>4, <1>5
<1>7. Len(c) = 3 + n
  BY <1>4, <1>5
<1> QED
  BY <1>2, <1>5, <1>6, <1>7 DEF x, y, z, LargeIs

\* The last of it is where its data is.
LEMMA SubSeqIs ==
    ASSUME NEW V, NEW b \in Seq(V), NEW d \in Seq(V), NEW q \in Nat, 1 <= q, NEW last \in Nat, last <= Len(b),
           last = q + Len(d) - 1, \A k \in 1..Len(d) : b[q + k - 1] = d[k]
    PROVE  SubSeq(b, q, last) = d
<1> DEFINE s == SubSeq(b, q, last)
           n == Len(d)
<1>1. Len(b) \in Nat /\ n \in Nat /\ q <= last + 1 /\ last - q + 1 = n
  OBVIOUS
<1>2. s \in Seq(V) /\ Len(s) = n /\ \A k \in 1..n : s[k] = b[q + k - 1]
  <2> HIDE DEF n
  <2> QED
    BY <1>1
<1> HIDE DEF s
<1>3. s = d
  BY <1>2, SameItems
<1> QED
  BY <1>3 DEF s

\* The scanner of a block comes to the bytes c after the first o.
Reaches(b, f, o, c, next) ==
    /\ b \in Seq(Byte) /\ f = ResStep(b, f) /\ o \in Nat
    /\ c \in Seq(Byte) /\ Within(b, o, c) /\ next = o + Len(c) + 1

\* It takes them for the resource r, and goes on behind it unless it is the end.
Gives(f, o, r, next) ==
    /\ r.type = END_TAG => f[o + 1] = Cons(r, << >>)
    /\ r.type # END_TAG => f[o + 1] = Cons(r, f[next])

\* The bytes of a large resource that is short enough.
LargeRes(tag, data) == Res(tag, TRUE, data)
IsLargeRes(c, tag, data) ==
    tag \in 0..127 /\ data \in Seq(Byte) /\ Short(Len(data)) /\ c = Large(tag, data)

\* Info finds a large resource where there is one.
LEMMA ResLarge ==
    ASSUME NEW b, NEW f, NEW o, NEW c, NEW next, Reaches(b, f, o, c, next),
           NEW tag, NEW data, IsLargeRes(c, tag, data)
    PROVE  Gives(f, o, LargeRes(tag, data), next)
<1>a. /\ b \in Seq(Byte) /\ f = ResStep(b, f) /\ o \in Nat
      /\ c \in Seq(Byte) /\ Within(b, o, c) /\ next = o + Len(c) + 1
  BY DEF Reaches
<1>b. tag \in 0..127 /\ data \in Seq(Byte) /\ Short(Len(data)) /\ c = Large(tag, data)
  BY DEF IsLargeRes
<1> USE <1>a, <1>b
<1> DEFINE n == Len(data)
           p == o + 1
           q == o + 4
           last == o + 3 + n
<1>1. n \in Nat /\ n = Len(data) /\ Short(n) /\ Len(b) \in Nat
  OBVIOUS
<1> HIDE DEF n
<1>0. LargeIs(c, tag, data, n)
  BY <1>1, LargeBytes, Zenon
<1>2. Len(c) = 3 + n /\ c[1] = 128 + tag /\ Word(c[2], c[3]) = n
  BY <1>0 DEF LargeIs
<1>3. \A k \in 1..n : c[3 + k] = data[k]
  BY <1>0 DEF LargeIs
<1>4. o + Len(c) <= Len(b)
  BY DEF Within
<1>5. \A k \in 1..Len(c) : b[o + k] = c[k]
  BY DEF Within
<1>6. last <= Len(b) /\ last \in Nat /\ last = q + n - 1
  BY <1>1, <1>2, <1>4
<1>7. b[o + 1] = 128 + tag
  <2>1. 1 \in 1..Len(c)
    BY <1>1, <1>2
  <2> QED
    BY <1>2, <1>5, <2>1
<1>8. b[o + 2] = c[2] /\ b[o + 3] = c[3]
  <2>1. 2 \in 1..Len(c) /\ 3 \in 1..Len(c)
    BY <1>1, <1>2
  <2> QED
    BY <1>5, <2>1
<1>9. p \in 1..Len(b) + 1 /\ ~(p > Len(b)) /\ ~(p + 2 > Len(b))
  BY <1>1, <1>6
<1>10. p + 1 = o + 2 /\ p + 2 = o + 3 /\ p + 3 = q /\ q \in Nat /\ 1 <= q
  OBVIOUS
<1>11. ASSUME NEW k \in 1..n PROVE b[q + k - 1] = data[k]
  <2>1. k \in Nat /\ 3 + k \in 1..Len(c) /\ o + (3 + k) = q + k - 1
    BY <1>1, <1>2
  <2>2. b[o + (3 + k)] = c[3 + k]
    BY <1>5, <2>1
  <2>3. c[3 + k] = data[k]
    BY <1>3
  <2> QED
    BY <2>1, <2>2, <2>3
<1> HIDE DEF p, q, last
<1>12. SubSeq(b, q, last) = data
  BY <1>1, <1>6, <1>10, <1>11, SubSeqIs
<1>13. IsLarge(b, p)
  BY <1>7 DEF IsLarge, p
<1>14. ResType(b, p) = tag
  <2>1. 128 + tag - 128 = tag
    OBVIOUS
  <2> QED
    BY <1>7, <1>13, <2>1 DEF ResType, p
<1>15. ResLen(b, p) = n
  <2>1. ResLen(b, p) = Word(b[p + 1], b[p + 2])
    BY <1>13 DEF ResLen, Word
  <2> QED
    BY <1>2, <1>8, <1>10, <2>1
<1>16. ResFirst(b, p) = q
  BY <1>10, <1>13 DEF ResFirst
<1>17. q + n - 1 = last /\ ~(last > Len(b))
  BY <1>1, <1>6
<1>18. ~NoRes(b, p)
  BY <1>9, <1>13, <1>15, <1>16, <1>17 DEF NoRes
<1>19. next = q + n
  BY <1>1, <1>2 DEF q
<1>20. IsLarge(b, p) = TRUE
  BY <1>13 DEF IsLarge
<1>21. ResHere(b, p) = LargeRes(tag, data)
  BY <1>12, <1>14, <1>15, <1>16, <1>17, <1>20 DEF ResHere, LargeRes
<1>22. (tag = END_TAG => ResAfter(b, f, p) = << >>) /\ (tag # END_TAG => ResAfter(b, f, p) = f[next])
  BY <1>14, <1>15, <1>16, <1>19 DEF ResAfter
<1>23. f[p] = Cons(ResHere(b, p), ResAfter(b, f, p))
  BY <1>9, <1>18, ResStepItem
<1>24. LargeRes(tag, data).type = tag
  BY DEF LargeRes, Res
<1>25. /\ tag = END_TAG => f[o + 1] = Cons(LargeRes(tag, data), << >>)
       /\ tag # END_TAG => f[o + 1] = Cons(LargeRes(tag, data), f[next])
  BY <1>21, <1>22, <1>23, Zenon DEF p
<1> QED
  BY <1>24, <1>25 DEF Gives

\* And the end tag.
LEMMA ResEnd ==
    ASSUME NEW b \in Seq(Byte), NEW f, f = ResStep(b, f), NEW o \in Nat, Within(b, o, << 120 >>)
    PROVE  f[o + 1] = Cons(Res(END_TAG, FALSE, << >>), << >>)
<1> DEFINE p == o + 1
           q == o + 2
<1>1. Len(<<120>>) = 1 /\ <<120>>[1] = 120
  OBVIOUS
<1>2. o + 1 <= Len(b) /\ b[o + 1] = 120 /\ Len(b) \in Nat
  BY <1>1 DEF Within
<1>3. p \in 1..Len(b) + 1 /\ ~(p > Len(b)) /\ q = p + 1 /\ q + 0 - 1 = p
  BY <1>2
<1>4. ~IsLarge(b, p)
  BY <1>2 DEF IsLarge
<1>5. ResType(b, p) = END_TAG /\ ResLen(b, p) = 0 /\ ResFirst(b, p) = q
  <2>1. 120 \div 8 = 15 /\ 120 % 8 = 0
    OBVIOUS
  <2> QED
    BY <1>2, <1>4, <2>1 DEF ResType, ResLen, ResFirst, END_TAG
<1>6. SubSeq(b, q, p) = << >>
  BY <1>2
<1> HIDE DEF p, q
<1>7. ~NoRes(b, p)
  BY <1>3, <1>4, <1>5 DEF NoRes
<1>8. IsLarge(b, p) = FALSE
  BY <1>4 DEF IsLarge
<1>9. ResHere(b, p) = Res(END_TAG, FALSE, << >>)
  BY <1>3, <1>5, <1>6, <1>8 DEF ResHere
<1>10. ResAfter(b, f, p) = << >>
  BY <1>5 DEF ResAfter
<1>11. f[p] = Cons(ResHere(b, p), ResAfter(b, f, p))
  BY <1>3, <1>7, ResStepItem
<1> QED
  BY <1>9, <1>10, <1>11 DEF p

\* And a zero.
LEMMA ResZero ==
    ASSUME NEW b \in Seq(Byte), NEW f, f = ResStep(b, f), NEW o \in Nat, Within(b, o, << 0 >>)
    PROVE  f[o + 1] = Cons(Res(0, FALSE, << >>), f[o + 2])
<1> DEFINE p == o + 1
           q == o + 2
<1>1. Len(<<0>>) = 1 /\ <<0>>[1] = 0
  OBVIOUS
<1>2. o + 1 <= Len(b) /\ b[o + 1] = 0 /\ Len(b) \in Nat
  BY <1>1 DEF Within
<1>3. p \in 1..Len(b) + 1 /\ ~(p > Len(b)) /\ q = p + 1 /\ q + 0 = q /\ q + 0 - 1 = p
  BY <1>2
<1>4. ~IsLarge(b, p)
  BY <1>2 DEF IsLarge
<1>5. ResType(b, p) = 0 /\ ResLen(b, p) = 0 /\ ResFirst(b, p) = q
  <2>1. 0 \div 8 = 0 /\ 0 % 8 = 0
    OBVIOUS
  <2> QED
    BY <1>2, <1>4, <2>1 DEF ResType, ResLen, ResFirst
<1>6. SubSeq(b, q, p) = << >>
  BY <1>2
<1> HIDE DEF p, q
<1>7. ~NoRes(b, p)
  BY <1>3, <1>4, <1>5 DEF NoRes
<1>8. IsLarge(b, p) = FALSE
  BY <1>4 DEF IsLarge
<1>9. ResHere(b, p) = Res(0, FALSE, << >>)
  BY <1>3, <1>5, <1>6, <1>8 DEF ResHere
<1>10. ResAfter(b, f, p) = f[q]
  BY <1>3, <1>5 DEF ResAfter, END_TAG
<1>11. f[p] = Cons(ResHere(b, p), ResAfter(b, f, p))
  BY <1>3, <1>7, ResStepItem
<1> QED
  BY <1>9, <1>10, <1>11 DEF p, q

\* The bytes c are those of the resource r.
IsRes(c, r) ==
    \/ \E tag, data : IsLargeRes(c, tag, data) /\ r = LargeRes(tag, data)
    \/ c = <<120>> /\ r = Res(END_TAG, FALSE, << >>)
    \/ c = <<0>> /\ r = Res(0, FALSE, << >>)

\* What is found is a resource.
LEMMA IsResItem == ASSUME NEW c, NEW r, IsRes(c, r) PROVE r \in ResItem
<1>1. \A t \in Int : Res(t, FALSE, << >>) \in ResItem
  <2>1. << >> \in Seq(Byte)
    OBVIOUS
  <2> QED
    BY <2>1 DEF Res, ResItem
<1>2. END_TAG \in Int /\ 0 \in Int
  BY DEF END_TAG
<1>3. ASSUME NEW tag, NEW data, IsLargeRes(c, tag, data), r = LargeRes(tag, data) PROVE r \in ResItem
  <2>1. tag \in Int /\ TRUE \in BOOLEAN /\ data \in Seq(Byte)
    BY <1>3 DEF IsLargeRes
  <2>2. LargeRes(tag, data) \in ResItem
    BY <2>1 DEF Res, ResItem, LargeRes
  <2> QED
    BY <1>3, <2>2
<1> QED
  BY <1>1, <1>2, <1>3 DEF IsRes

\* Info finds a resource where there is one.
LEMMA ResAt ==
    ASSUME NEW b, NEW f, NEW o, NEW c, NEW next, Reaches(b, f, o, c, next), NEW r, IsRes(c, r)
    PROVE  Gives(f, o, r, next)
<1>a. b \in Seq(Byte) /\ f = ResStep(b, f) /\ o \in Nat /\ Within(b, o, c) /\ next = o + Len(c) + 1
  BY DEF Reaches
<1>1. CASE c = <<120>> /\ r = Res(END_TAG, FALSE, << >>)
  <2>1. r.type = END_TAG
    BY <1>1 DEF Res
  <2>2. Within(b, o, <<120>>)
    BY <1>a, <1>1
  <2>3. f[o + 1] = Cons(Res(END_TAG, FALSE, << >>), << >>)
    BY <1>a, <2>2, ResEnd
  <2> QED
    BY <1>1, <2>1, <2>3 DEF Gives
<1>2. CASE c = <<0>> /\ r = Res(0, FALSE, << >>)
  <2>1. r.type # END_TAG
    BY <1>2 DEF Res, END_TAG
  <2>2. Within(b, o, <<0>>)
    BY <1>a, <1>2
  <2>3. f[o + 1] = Cons(Res(0, FALSE, << >>), f[o + 2])
    BY <1>a, <2>2, ResZero
  <2>4. next = o + 2
    <3>1. Len(c) = 1
      BY <1>2
    <3> QED
      BY <1>a, <3>1
  <2> QED
    BY <1>2, <2>1, <2>3, <2>4 DEF Gives
<1>3. ASSUME NEW tag, NEW data, IsLargeRes(c, tag, data), r = LargeRes(tag, data)
      PROVE  Gives(f, o, r, next)
  <2>1. Gives(f, o, LargeRes(tag, data), next)
    BY <1>3, ResLarge
  <2> QED
    BY <1>3, <2>1
<1> QED
  BY <1>1, <1>2, <1>3 DEF IsRes

\* Of n pieces that are resources the m-th is the last or the first that ends the
\* block.
EndsAt(n, m, s, it) ==
    /\ n \in Nat /\ m \in 1..n
    /\ \A i \in 1..n : IsRes(s[i], it[i])
    /\ \A i \in 1..m : i # m => it[i].type # END_TAG
    /\ m = n \/ it[m].type = END_TAG

\* Info finds the first m of them.
LEMMA ResourcesOf ==
    ASSUME NEW n, NEW m, NEW it, NEW b, NEW s, NEW at, Pieces(Byte, b, s, n, at), EndsAt(n, m, s, it)
    PROVE  Resources(b) = [i \in 1..m |-> it[i]]
<1> DEFINE e == [i \in 1..m |-> it[i]]
<1>a. /\ n \in Nat /\ m \in 1..n
      /\ \A i \in 1..n : IsRes(s[i], it[i])
      /\ \A i \in 1..m : i # m => it[i].type # END_TAG
      /\ m = n \/ it[m].type = END_TAG
  BY DEF EndsAt
<1>0. m \in Nat /\ 0 # m /\ \A i \in 1..m : i \in 1..n /\ i - 1 \in 0..m
  BY <1>a
<1>1. /\ b \in Seq(Byte)
      /\ at \in [0..n -> Nat] /\ at[0] = 0 /\ at[n] = Len(b)
      /\ \A i \in 1..n : /\ s[i] \in Seq(Byte) /\ at[i] = at[i - 1] + Len(s[i])
                         /\ Within(b, at[i - 1], s[i])
  BY DEF Pieces
<1>2. PICK f : f = ResStep(b, f) /\ Resources(b) = f[1]
  BY <1>1, ResFunction, ResChoice
<1>3. e \in [1..m -> ResItem]
  BY <1>0, <1>a, IsResItem
<1>4. \A i \in 1..m : e[i] = it[i]
  OBVIOUS
<1> HIDE DEF e
<1> DEFINE S == {i \in 0..m : i # m => f[at[i] + 1] = Rest(e, m, i)}
<1>5. Rest(e, m, m) = << >>
  <2>1. m - m = 0 /\ 1..0 = {}
    BY <1>0
  <2> QED
    BY <2>1 DEF Rest
<1>6. f[at[n] + 1] = << >>
  <2>1. Len(b) \in Nat
    BY <1>1
  <2>2. Len(b) + 1 \in 1..Len(b) + 1 /\ Len(b) + 1 > Len(b)
    BY <2>1
  <2>3. ResStep(b, f)[Len(b) + 1] = << >>
    BY <2>2 DEF ResStep
  <2> QED
    BY <1>1, <1>2, <2>3
<1>7. ASSUME NEW i \in S, i > 0 PROVE i - 1 \in S
  <2>1. i \in 1..m /\ i \in 1..n /\ i - 1 \in 0..m
    BY <1>7, <1>a
  <2>2. i # m => f[at[i] + 1] = Rest(e, m, i)
    OBVIOUS
  <2> DEFINE c    == s[i]
             r    == it[i]
             o    == at[i - 1]
             next == at[i] + 1
  <2>3. b \in Seq(Byte) /\ f = ResStep(b, f)
    BY <1>1, <1>2
  <2>4. o \in Nat /\ c \in Seq(Byte) /\ IsRes(c, r) /\ Within(b, o, c)
    BY <1>1, <1>a, <2>1
  <2>5. next = o + Len(c) + 1
    BY <1>1, <2>1
  <2>6. e[i] = r /\ (i # m => r.type # END_TAG) /\ (i = m => i = n \/ r.type = END_TAG)
    BY <1>4, <1>a, <2>1
  <2>7. /\ i # m => f[next] = Rest(e, m, i)
        /\ i = n => f[next] = << >>
    BY <1>6, <2>2
  <2>a. Reaches(b, f, o, c, next) /\ IsRes(c, r)
    BY <2>3, <2>4, <2>5 DEF Reaches
  <2> HIDE DEF c, r, o, next, S
  <2>b. Gives(f, o, r, next)
    BY <2>a, ResAt
  <2>8. /\ r.type = END_TAG => f[o + 1] = Cons(r, << >>)
        /\ r.type # END_TAG => f[o + 1] = Cons(r, f[next])
    BY <2>b DEF Gives
  <2>9. f[o + 1] = Cons(e[i], Rest(e, m, i))
    <3>1. CASE i = m
      <4>1. f[o + 1] = Cons(r, << >>)
        BY <2>6, <2>7, <2>8, <3>1, Zenon
      <4> QED
        BY <1>5, <2>6, <3>1, <4>1, Zenon
    <3>2. CASE i # m
      BY <2>6, <2>7, <2>8, <3>2, Zenon
    <3> QED
      BY <3>1, <3>2
  <2>10. Cons(e[i], Rest(e, m, i)) = Rest(e, m, i - 1)
    BY <1>0, <1>3, <2>1, RestMore
  <2> QED
    BY <2>1, <2>9, <2>10 DEF S, o
<1>8. S \subseteq 0..m /\ m \in S
  BY <1>0
<1> HIDE DEF S
<1>9. S = 0..m
  BY <1>0, <1>7, <1>8, Downto
<1>10. f[1] = Rest(e, m, 0)
  <2>1. 0 \in S
    BY <1>0, <1>9
  <2>2. f[at[0] + 1] = Rest(e, m, 0)
    BY <1>0, <2>1 DEF S
  <2> QED
    BY <1>1, <2>2
<1>11. Rest(e, m, 0) = e
  <2>1. m - 0 = m /\ \A j \in 1..m : 0 + j = j
    BY <1>0
  <2> QED
    BY <1>3, <2>1 DEF Rest
<1> QED
  BY <1>2, <1>10, <1>11 DEF e

-----------------------------------------------------------------------------
(* The areas of a block.                                                    *)

\* A field that the format can hold.
IsField(kw, data) == kw \in Byte \X Byte /\ data \in Seq(Byte) /\ Len(data) \in Byte

\* What an area is made of: its fields, in their places.
AreaOf(b, n, kw, data, at) ==
    /\ \A i \in 1..n : IsField(kw[i], data[i])
    /\ Pieces(Byte, b, [i \in 1..n |-> Field(kw[i], data[i])], n, at)

\* What the scanner finds in an area.
Finds(b, n, kw, data, at) ==
    /\ b \in Seq(Byte) /\ n \in Nat
    /\ \A i \in 1..n : at[i] \in Nat /\ at[i] <= Len(b)
    /\ n # 0 => at[n] = Len(b)
    /\ Scan(b) = Items(n, kw, data, at)

\* The scanner finds the fields of an area.
LEMMA AreaFinds ==
    ASSUME NEW n, n \in Nat, NEW b, NEW kw, NEW data, NEW at, AreaOf(b, n, kw, data, at)
    PROVE  Finds(b, n, kw, data, at)
<1> DEFINE s == [i \in 1..n |-> Field(kw[i], data[i])]
           k == [i \in 1..n |-> kw[i]]
           d == [i \in 1..n |-> data[i]]
<1>1. \A i \in 1..n : kw[i] \in Byte \X Byte /\ data[i] \in Seq(Byte) /\ Len(data[i]) \in Byte
  BY DEF AreaOf, IsField
<1>2. Pieces(Byte, b, s, n, at)
  BY DEF AreaOf
<1>3. \A i \in 1..n : k[i] = kw[i] /\ d[i] = data[i] /\ s[i] = Field(kw[i], data[i])
  OBVIOUS
<1>4. k \in [1..n -> Byte \X Byte] /\ d \in [1..n -> Seq(Byte)]
  BY <1>1
<1> HIDE DEF s, k, d
<1>5. \A i \in 1..n : Len(d[i]) \in Byte
  BY <1>1, <1>3
<1>6. \A i \in 1..n : s[i] = Field(k[i], d[i])
  BY <1>3
<1>7. Scan(b) = Items(n, k, d, at)
  <2>1. IsArea(n, k, d, b, s, at)
    BY <1>2, <1>4, <1>5, <1>6 DEF IsArea
  <2> QED
    BY <2>1, ScanOf
<1>8. Items(n, k, d, at) = Items(n, kw, data, at)
  BY <1>3 DEF Items
<1>9. b \in Seq(Byte) /\ at \in [0..n -> Nat] /\ at[n] = Len(b)
  BY <1>2 DEF Pieces
<1>10. \A i \in 1..n : at[i] \in Nat /\ at[i] <= Len(b)
  <2> SUFFICES ASSUME NEW i \in 1..n PROVE at[i] \in Nat /\ at[i] <= Len(b)
    OBVIOUS
  <2>1. at[i] = at[i - 1] + Len(s[i]) /\ Within(b, at[i - 1], s[i])
    BY <1>2 DEF Pieces
  <2>2. at[i - 1] + Len(s[i]) <= Len(b)
    BY <2>1 DEF Within
  <2>3. at[i] \in Nat
    BY <1>9
  <2> QED
    BY <2>1, <2>2, <2>3
<1> QED
  BY <1>7, <1>8, <1>9, <1>10 DEF Finds

\* The keyword and the data of the i-th field.
Kw(fs)   == [i \in 1..Len(fs) |-> fs[i].kw]
Data(fs) == [i \in 1..Len(fs) |-> fs[i].data]

\* Fields that are put together are an area.
LEMMA FieldsArea ==
    ASSUME NEW fs, Area(fs)
    PROVE  Len(fs) \in Nat /\ \E at : AreaOf(FieldsOf(fs), Len(fs), Kw(fs), Data(fs), at)
<1> DEFINE n == Len(fs)
           s == [i \in 1..n |-> Field(fs[i].kw, fs[i].data)]
           t == [i \in 1..n |-> Field(Kw(fs)[i], Data(fs)[i])]
<1>1. fs \in Seq([kw : Byte \X Byte, data : Seq(Byte)])
  BY DEF Area
<1>2. n \in Nat /\ DOMAIN fs = 1..n
  BY <1>1
<1>3. ASSUME NEW i \in 1..n PROVE IsField(Kw(fs)[i], Data(fs)[i])
  <2>1. fs[i] \in [kw : Byte \X Byte, data : Seq(Byte)]
    <3> DEFINE V == [kw : Byte \X Byte, data : Seq(Byte)]
    <3>1. fs \in Seq(V) /\ i \in 1..Len(fs)
      BY <1>1
    <3> HIDE DEF V
    <3>2. fs[i] \in V
      BY <3>1
    <3> QED
      BY <3>2 DEF V
  <2>2. Len(fs[i].data) \in Byte
    BY <1>2 DEF Area
  <2>3. Kw(fs)[i] = fs[i].kw /\ Data(fs)[i] = fs[i].data
    BY DEF Kw, Data
  <2> QED
    BY <2>1, <2>2, <2>3 DEF IsField
<1>4. s = t
  <2>1. \A i \in 1..n : Kw(fs)[i] = fs[i].kw /\ Data(fs)[i] = fs[i].data
    BY DEF Kw, Data
  <2> HIDE DEF n
  <2> QED
    BY <2>1
<1>5. FieldsOf(fs) = FlattenSeq(s)
  BY <1>2 DEF FieldsOf
<1> HIDE DEF s
<1>6. t \in [1..n -> Seq(Byte)]
  <2> SUFFICES ASSUME NEW i \in 1..n PROVE Field(Kw(fs)[i], Data(fs)[i]) \in Seq(Byte)
    OBVIOUS
  <2> DEFINE w == Kw(fs)[i]
             d == Data(fs)[i]
  <2>1. w \in Byte \X Byte /\ d \in Seq(Byte) /\ Len(d) \in Byte
    BY <1>3 DEF IsField
  <2> HIDE DEF w, d
  <2>2. Field(w, d) \in Seq(Byte)
    BY <2>1, FieldBytes
  <2> QED
    BY <2>2 DEF w, d
<1>7. \E at : Pieces(Byte, FlattenSeq(t), t, n, at)
  <2> HIDE DEF t, n
  <2> QED
    BY <1>2, <1>6, FlattenPieces
<1>8. PICK at : Pieces(Byte, FieldsOf(fs), t, n, at)
  BY <1>4, <1>5, <1>7
<1>9. AreaOf(FieldsOf(fs), n, Kw(fs), Data(fs), at)
  <2>1. \A i \in 1..n : IsField(Kw(fs)[i], Data(fs)[i])
    BY <1>3
  <2> QED
    BY <1>8, <2>1 DEF AreaOf
<1> QED
  BY <1>2, <1>9

\* The data of the last field of a read-only area: the checksum, and zeros.
Filled(fill, ck) == <<ck>> \o Blank(fill)
Ro(fs, fill, ck) == FieldsOf(fs) \o Field(RV, Filled(fill, ck))

\* The space that is left for it.
IsFill(fill, ck) == fill \in Nat /\ fill + 1 \in 1..255 /\ ck \in Byte

\* The last field has room for the checksum and the zeros.
LEMMA FilledIs ==
    ASSUME NEW fill, NEW ck, IsFill(fill, ck)
    PROVE  /\ IsField(RV, Filled(fill, ck)) /\ Len(Filled(fill, ck)) = fill + 1
           /\ Filled(fill, ck)[1] = ck /\ \A k \in 1..fill : Filled(fill, ck)[1 + k] = 0
<1> DEFINE e == <<ck>>
           z == Blank(fill)
           x == e \o z
<1>0. fill \in Nat /\ fill + 1 \in 1..255 /\ ck \in Byte
  BY DEF IsFill
<1>1. Byte = 0..255
  BY DEF Byte
<1>2. e \in Seq(Byte) /\ Len(e) = 1 /\ e[1] = ck
  BY <1>0
<1>3. z \in Seq(Byte) /\ Len(z) = fill /\ \A k \in 1..fill : z[k] = 0
  <2>1. 0 \in Byte
    BY <1>1
  <2>2. z \in [1..fill -> Byte] /\ \A k \in 1..fill : z[k] = 0
    BY <2>1 DEF Blank
  <2> HIDE DEF z
  <2> QED
    BY <1>0, <2>2
<1> HIDE DEF e, z
<1>4. /\ x \in Seq(Byte) /\ Len(x) = Len(e) + Len(z)
      /\ \A i \in 1..Len(e) : x[i] = e[i]
      /\ \A i \in 1..Len(z) : x[Len(e) + i] = z[i]
  <2>1. e \in Seq(Byte) /\ z \in Seq(Byte)
    BY <1>2, <1>3
  <2> QED
    BY <2>1, Concat
<1> HIDE DEF x
<1>5. Len(x) = fill + 1 /\ x[1] = ck /\ \A k \in 1..fill : x[1 + k] = 0
  <2>1. Len(x) = fill + 1 /\ x[1] = ck
    BY <1>0, <1>2, <1>3, <1>4
  <2>2. \A k \in 1..fill : x[1 + k] = z[k] /\ z[k] = 0
    BY <1>2, <1>3, <1>4
  <2> QED
    BY <2>1, <2>2
<1>6. RV \in Byte \X Byte
  BY <1>1 DEF RV
<1>7. Len(x) \in Byte
  BY <1>0, <1>1, <1>5
<1>8. x = Filled(fill, ck)
  BY DEF x, e, z, Filled
<1> QED
  BY <1>4, <1>5, <1>6, <1>7, <1>8 DEF IsField

\* The keywords and the data of a read-only area.
RoKw(fs)             == [i \in 1..Len(fs) + 1 |-> IF i = Len(fs) + 1 THEN RV ELSE Kw(fs)[i]]
RoData(fs, fill, ck) == [i \in 1..Len(fs) + 1 |-> IF i = Len(fs) + 1 THEN Filled(fill, ck) ELSE Data(fs)[i]]

\* A read-only area is one.
LEMMA RoArea ==
    ASSUME NEW fs, Area(fs), NEW fill, NEW ck, IsFill(fill, ck)
    PROVE  \E at : AreaOf(Ro(fs, fill, ck), Len(fs) + 1, RoKw(fs), RoData(fs, fill, ck), at)
<1> DEFINE n == Len(fs)
           w == RoKw(fs)
           d == RoData(fs, fill, ck)
           s == [i \in 1..n |-> Field(Kw(fs)[i], Data(fs)[i])]
           t == [i \in 1..n + 1 |-> Field(w[i], d[i])]
           c == Field(RV, Filled(fill, ck))
           b == FieldsOf(fs)
<1>1. n \in Nat
  BY FieldsArea
<1>2. PICK at : AreaOf(b, n, Kw(fs), Data(fs), at)
  BY FieldsArea
<1>3. IsField(RV, Filled(fill, ck))
  BY FilledIs
<1>4. w[n + 1] = RV /\ d[n + 1] = Filled(fill, ck)
  BY <1>1 DEF RoKw, RoData
<1>5. ASSUME NEW i \in 1..n PROVE w[i] = Kw(fs)[i] /\ d[i] = Data(fs)[i]
  <2>1. i \in 1..n + 1 /\ i # n + 1
    BY <1>1
  <2> QED
    BY <2>1 DEF RoKw, RoData
<1>6. \A i \in 1..n : IsField(Kw(fs)[i], Data(fs)[i])
  BY <1>2 DEF AreaOf
<1>7. Pieces(Byte, b, s, n, at)
  BY <1>2 DEF AreaOf
<1> HIDE DEF w, d, n, b
<1>8. \A i \in 1..n + 1 : IsField(w[i], d[i])
  <2> SUFFICES ASSUME NEW i \in 1..n + 1 PROVE IsField(w[i], d[i])
    OBVIOUS
  <2>1. CASE i = n + 1
    BY <1>3, <1>4, <2>1
  <2>2. CASE i # n + 1
    <3>1. i \in 1..n
      BY <1>1, <2>2
    <3> QED
      BY <1>5, <1>6, <3>1
  <2> QED
    BY <2>1, <2>2
<1>9. \A i \in 1..n : t[i] = s[i]
  <2> SUFFICES ASSUME NEW i \in 1..n PROVE t[i] = s[i]
    OBVIOUS
  <2>1. i \in 1..n + 1
    BY <1>1
  <2> QED
    BY <1>5, <2>1
<1>10. t[n + 1] = c
  <2>1. n + 1 \in 1..n + 1
    BY <1>1
  <2> QED
    BY <1>4, <2>1
<1> HIDE DEF t, s
<1>11. c \in Seq(Byte)
  <2> DEFINE kw   == RV
             data == Filled(fill, ck)
  <2>1. kw \in Byte \X Byte /\ data \in Seq(Byte) /\ Len(data) \in Byte
    BY <1>3 DEF IsField
  <2> HIDE DEF kw, data
  <2>2. Field(kw, data) \in Seq(Byte)
    BY <2>1, FieldBytes
  <2> QED
    BY <2>2 DEF kw, data
<1> HIDE DEF c
<1>12. PICK to : Pieces(Byte, b \o c, t, n + 1, to)
  BY <1>1, <1>7, <1>9, <1>10, <1>11, PiecesMore
<1>13. AreaOf(b \o c, n + 1, w, d, to)
  BY <1>8, <1>12 DEF AreaOf, t
<1>14. Ro(fs, fill, ck) = b \o c
  BY DEF Ro, b, c
<1> QED
  BY <1>13, <1>14 DEF n, w, d

\* The bytes of a read-only area: F of fields, the keyword, the length, the
\* checksum and the zeros.
RoIs(r, F, fill, ck) ==
    /\ r \in Seq(Byte) /\ Len(r) = Len(F) + 4 + fill
    /\ \A j \in 1..Len(F) : r[j] = F[j]
    /\ r[Len(F) + 1] = 82 /\ r[Len(F) + 2] = 86 /\ r[Len(F) + 3] = fill + 1 /\ r[Len(F) + 4] = ck
    /\ \A k \in 1..fill : r[Len(F) + 4 + k] = 0

\* They are those of a read-only area.
LEMMA RoBytes ==
    ASSUME NEW fs, Area(fs), NEW fill, NEW ck, IsFill(fill, ck)
    PROVE  FieldsOf(fs) \in Seq(Byte) /\ RoIs(Ro(fs, fill, ck), FieldsOf(fs), fill, ck)
<1> DEFINE F == FieldsOf(fs)
           x == Filled(fill, ck)
           c == Field(RV, x)
           r == F \o c
<1>1. F \in Seq(Byte)
  BY FieldsArea DEF AreaOf, Pieces
<1>2. IsField(RV, x) /\ Len(x) = fill + 1 /\ x[1] = ck /\ \A k \in 1..fill : x[1 + k] = 0
  BY FilledIs
<1>3. /\ c \in Seq(Byte) /\ Len(c) = 3 + Len(x)
      /\ c[1] = 82 /\ c[2] = 86 /\ c[3] = Len(x)
      /\ \A k \in 1..Len(x) : c[3 + k] = x[k]
  <2> DEFINE kw == RV
  <2>1. kw \in Byte \X Byte /\ x \in Seq(Byte) /\ Len(x) \in Byte /\ c = Field(kw, x)
    BY <1>2 DEF IsField
  <2>2. kw[1] = 82 /\ kw[2] = 86
    BY DEF RV
  <2> HIDE DEF kw, x, c
  <2>3. /\ c \in Seq(Byte) /\ Len(c) = 3 + Len(x)
        /\ c[1] = kw[1] /\ c[2] = kw[2] /\ c[3] = Len(x)
        /\ \A k \in 1..Len(x) : c[3 + k] = x[k]
    BY <2>1, FieldBytes
  <2> QED
    BY <2>2, <2>3
<1> HIDE DEF F, x, c
<1>4. /\ r \in Seq(Byte) /\ Len(r) = Len(F) + Len(c)
      /\ \A j \in 1..Len(F) : r[j] = F[j]
      /\ \A j \in 1..Len(c) : r[Len(F) + j] = c[j]
  <2>1. c \in Seq(Byte)
    BY <1>3
  <2> QED
    BY <1>1, <2>1, Concat
<1> HIDE DEF r
<1>5. fill \in Nat /\ Len(F) \in Nat
  BY <1>1 DEF IsFill
<1>6. Len(c) = 4 + fill /\ Len(x) = 1 + fill
  BY <1>2, <1>3, <1>5
<1>7. c[1] = 82 /\ c[2] = 86 /\ c[3] = fill + 1 /\ c[4] = ck
  <2>1. 1 \in 1..Len(x)
    BY <1>5, <1>6
  <2>2. c[3 + 1] = x[1]
    BY <1>3, <2>1
  <2> QED
    BY <1>2, <1>3, <2>2
<1>8. ASSUME NEW j \in 1..4 PROVE r[Len(F) + j] = c[j]
  BY <1>4, <1>5, <1>6
<1>9. r[Len(F) + 1] = 82 /\ r[Len(F) + 2] = 86 /\ r[Len(F) + 3] = fill + 1 /\ r[Len(F) + 4] = ck
  BY <1>7, <1>8
<1>10. ASSUME NEW k \in 1..fill PROVE r[Len(F) + 4 + k] = 0
  <2>1. 1 + k \in 1..Len(x) /\ 3 + (1 + k) \in 1..Len(c) /\ Len(F) + (3 + (1 + k)) = Len(F) + 4 + k
    BY <1>5, <1>6
  <2>2. c[3 + (1 + k)] = x[1 + k] /\ x[1 + k] = 0
    BY <1>2, <1>3, <2>1
  <2>3. r[Len(F) + (3 + (1 + k))] = c[3 + (1 + k)]
    BY <1>4, <2>1
  <2> QED
    BY <2>1, <2>2, <2>3
<1>11. Len(r) = Len(F) + 4 + fill
  BY <1>4, <1>5, <1>6
<1>12. RoIs(r, F, fill, ck)
  <2>1. r \in Seq(Byte) /\ \A j \in 1..Len(F) : r[j] = F[j]
    BY <1>4
  <2> QED
    BY <1>9, <1>10, <1>11, <2>1 DEF RoIs
<1>13. Ro(fs, fill, ck) = r
  BY DEF Ro, r, F, c, x
<1> QED
  BY <1>1, <1>12, <1>13 DEF F

-----------------------------------------------------------------------------
(* The sum of all bytes.                                                    *)

\* A step of the recursion of Sum8, which Sum8 is.
SumStep(b, f) == [i \in 0..Len(b) |-> IF i = 0 THEN 0 ELSE (f[i - 1] + b[i]) % 256]

\* The sum is the one that its steps lead to.
LEMMA SumChoice ==
    ASSUME NEW b, NEW g, g = SumStep(b, g)
    PROVE  \E f : f = SumStep(b, f) /\ Sum8(b) = f[Len(b)]
<1> DEFINE f == CHOOSE h : h = SumStep(b, h)
<1>1. f = SumStep(b, f)
  OBVIOUS
<1>2. Sum8(b) = f[Len(b)]
  BY Zenon DEF Sum8, SumStep
<1> QED
  BY <1>1, <1>2

\* The sum of two bytes.
Add8(x, y) == (x + y) % 256

\* It is a byte.
LEMMA Add8Byte == ASSUME NEW x \in Byte, NEW y \in Byte PROVE Add8(x, y) \in Byte
BY DEF Add8, Byte

\* Nothing is added by a zero, and a sum and what is missing from it are nothing.
LEMMA Add8Zero == ASSUME NEW x \in Byte PROVE Add8(x, 0) = x
BY DEF Add8, Byte

Missing(x) == (256 - x) % 256

\* With what is missing the sum is zero.
LEMMA Add8Missing == ASSUME NEW x \in Byte PROVE Missing(x) \in Byte /\ Add8(x, Missing(x)) = 0
<1>1. Missing(x) \in Byte
  BY DEF Missing, Byte
<1>2. Add8(x, Missing(x)) = 0
  BY DEF Missing, Add8, Byte
<1> QED
  BY <1>1, <1>2

\* The sums of the first bytes, 0 to n of them.
Sums(b, n, f) ==
    /\ n \in Nat /\ f[0] = 0
    /\ \A i \in 0..n : f[i] \in Byte
    /\ \A i \in 1..n : f[i] = Add8(f[i - 1], b[i])

\* Sum8 is the last of them.
LEMMA Sum8Is ==
    ASSUME NEW b \in Seq(Byte)
    PROVE  \E f : Sums(b, Len(b), f) /\ Sum8(b) = f[Len(b)]
<1> DEFINE m    == Len(b)
           D    == 0..m
           W    == Byte
           stop == {0}
           base == [x \in D |-> 0]
           rank == [x \in D |-> x]
           nx   == [x \in D |-> IF x = 0 THEN 0 ELSE x - 1]
           h    == [z \in D \X W |-> IF z[1] = 0 THEN 0 ELSE Add8(z[2], b[z[1]])]
<1>1. m \in Nat /\ (\A i \in 1..m : b[i] \in Byte) /\ 0 \in Byte
  <2>1. 0 \in Byte
    BY DEF Byte
  <2> QED
    BY <2>1
<1>2. Descends(D, W, m, rank, stop, base, nx, h)
  <2>1. rank \in [D -> 0..m] /\ nx \in [D -> D] /\ base \in [D -> W]
    BY <1>1
  <2>2. h \in [D \X W -> W]
    <3> SUFFICES ASSUME NEW z \in D \X W, z[1] # 0 PROVE Add8(z[2], b[z[1]]) \in W
      BY <1>1
    <3>1. z[1] \in 1..m /\ z[2] \in W
      BY <1>1
    <3>2. b[z[1]] \in W
      BY <1>1, <3>1
    <3> DEFINE y == b[z[1]]
               x == z[2]
    <3>3. x \in Byte /\ y \in Byte
      BY <3>1, <3>2
    <3> HIDE DEF x, y
    <3>4. Add8(x, y) \in Byte
      BY <3>3, Add8Byte
    <3> QED
      BY <3>4 DEF x, y
  <2>3. \A x \in D \ stop : rank[nx[x]] < rank[x]
    BY <1>1
  <2> HIDE DEF rank, nx, h, stop, base, W, D, m
  <2> QED
    BY <1>1, <2>1, <2>2, <2>3 DEF Descends
<1>3. PICK f \in [D -> W] : \A x \in D : f[x] = IF x \in stop THEN base[x] ELSE h[<<x, f[nx[x]]>>]
  <2> HIDE DEF D, W, rank, base, nx, h, m, stop
  <2> QED
    BY <1>2, Recursion
<1>4. ASSUME NEW x \in D PROVE f[x] = IF x = 0 THEN 0 ELSE Add8(f[x - 1], b[x])
  <2>1. CASE x = 0
    BY <1>3, <2>1
  <2>2. CASE x # 0
    <3>1. x - 1 \in D /\ nx[x] = x - 1
      BY <1>1, <2>2
    <3>a. f[x - 1] \in W
      BY <1>3, <3>1
    <3>2. h[<<x, f[x - 1]>>] = Add8(f[x - 1], b[x])
      BY <2>2, <3>a, <3>1
    <3> QED
      BY <1>3, <2>2, <3>1, <3>2
  <2> QED
    BY <2>1, <2>2
<1>5. f = SumStep(b, f)
  <2>1. f = [x \in D |-> f[x]]
    OBVIOUS
  <2>2. SumStep(b, f) = [x \in D |-> IF x = 0 THEN 0 ELSE Add8(f[x - 1], b[x])]
    BY DEF SumStep, Add8
  <2> QED
    BY <1>4, <2>1, <2>2
<1>6. PICK g : g = SumStep(b, g) /\ Sum8(b) = g[Len(b)]
  BY <1>5, SumChoice
<1>7. \A i \in 0..m : g[i] = IF i = 0 THEN 0 ELSE Add8(g[i - 1], b[i])
  <2>1. \A i \in 0..m : SumStep(b, g)[i] = IF i = 0 THEN 0 ELSE Add8(g[i - 1], b[i])
    BY DEF SumStep, Add8
  <2> QED
    BY <1>6, <2>1, Zenon
<1> DEFINE S == {i \in 0..m : g[i] \in Byte}
<1>8. S \subseteq 0..m /\ 0 \in S
  <2>1. 0 \in 0..m
    BY <1>1
  <2>2. g[0] = 0
    BY <1>7, <2>1
  <2> QED
    BY <1>1, <2>1, <2>2
<1>9. \A i \in S : i < m => i + 1 \in S
  <2> SUFFICES ASSUME NEW i \in S, i < m PROVE i + 1 \in S
    OBVIOUS
  <2>1. i + 1 \in 0..m /\ i + 1 # 0 /\ (i + 1) - 1 = i /\ i + 1 \in 1..m
    BY <1>1
  <2> DEFINE y == b[i + 1]
             x == g[i]
  <2>2. x \in Byte /\ y \in Byte
    BY <1>1, <2>1
  <2>3. g[i + 1] = Add8(x, y)
    BY <1>7, <2>1
  <2> HIDE DEF x, y
  <2>4. Add8(x, y) \in Byte
    BY <2>2, Add8Byte
  <2> QED
    BY <2>1, <2>3, <2>4
<1> HIDE DEF S
<1>10. S = 0..m
  <2> HIDE DEF m
  <2> QED
    BY <1>1, <1>8, <1>9, Upto
<1>11. Sums(b, m, g)
  <2>1. \A i \in 0..m : g[i] \in Byte
    BY <1>10 DEF S
  <2>2. g[0] = 0
    BY <1>1, <1>7
  <2>3. \A i \in 1..m : g[i] = Add8(g[i - 1], b[i])
    BY <1>1, <1>7
  <2> QED
    BY <1>1, <2>1, <2>2, <2>3 DEF Sums
<1> QED
  BY <1>6, <1>11

\* The same bytes make the same sums.
LEMMA SumsAgree ==
    ASSUME NEW b, NEW n, NEW f, Sums(b, n, f), NEW c, NEW m, NEW g, Sums(c, m, g),
           NEW k \in Nat, k <= n, k <= m, \A i \in 1..k : b[i] = c[i]
    PROVE  f[k] = g[k]
<1>1. n \in Nat /\ f[0] = 0 /\ \A i \in 1..n : f[i] = Add8(f[i - 1], b[i])
  BY DEF Sums
<1>2. m \in Nat /\ g[0] = 0 /\ \A i \in 1..m : g[i] = Add8(g[i - 1], c[i])
  BY DEF Sums
<1> DEFINE S == {i \in 0..k : f[i] = g[i]}
<1>3. S \subseteq 0..k /\ 0 \in S
  BY <1>1, <1>2
<1>4. \A i \in S : i < k => i + 1 \in S
  <2> SUFFICES ASSUME NEW i \in S, i < k PROVE i + 1 \in S
    OBVIOUS
  <2>1. i + 1 \in 0..k /\ (i + 1) - 1 = i /\ i + 1 \in 1..n /\ i + 1 \in 1..m /\ i + 1 \in 1..k
    BY <1>1, <1>2
  <2>2. f[i + 1] = Add8(f[i], b[i + 1])
    BY <1>1, <2>1
  <2>3. g[i + 1] = Add8(g[i], c[i + 1])
    BY <1>2, <2>1
  <2>4. b[i + 1] = c[i + 1] /\ f[i] = g[i]
    BY <2>1
  <2> QED
    BY <2>1, <2>2, <2>3, <2>4
<1> HIDE DEF S
<1>5. S = 0..k
  BY <1>3, <1>4, Upto
<1>6. k \in S
  BY <1>5
<1> QED
  BY <1>6 DEF S

\* Nothing but zeros leaves a sum of nothing.
LEMMA SumsZero ==
    ASSUME NEW b, NEW n, NEW f, Sums(b, n, f), NEW k \in Nat, k <= n, f[k] = 0,
           \A i \in 1..n : k < i => b[i] = 0
    PROVE  f[n] = 0
<1>1. n \in Nat /\ \A i \in 1..n : f[i] = Add8(f[i - 1], b[i])
  BY DEF Sums
<1> DEFINE d == n - k
           S == {j \in 0..d : f[k + j] = 0}
<1>2. d \in Nat
  BY <1>1
<1>3. S \subseteq 0..d /\ 0 \in S
  BY <1>1
<1>4. \A j \in S : j < d => j + 1 \in S
  <2> SUFFICES ASSUME NEW j \in S, j < d PROVE j + 1 \in S
    OBVIOUS
  <2>1. j + 1 \in 0..d /\ (k + (j + 1)) - 1 = k + j /\ k + (j + 1) \in 1..n /\ k < k + (j + 1)
    BY <1>1
  <2>2. f[k + (j + 1)] = Add8(f[k + j], b[k + (j + 1)])
    BY <1>1, <2>1
  <2>3. b[k + (j + 1)] = 0 /\ f[k + j] = 0
    BY <2>1
  <2>4. Add8(0, 0) = 0
    <3>1. 0 \in Byte
      BY DEF Byte
    <3> QED
      BY <3>1, Add8Zero
  <2> QED
    BY <2>1, <2>2, <2>3, <2>4
<1> HIDE DEF S
<1>5. S = 0..d
  <2> HIDE DEF d
  <2> QED
    BY <1>2, <1>3, <1>4, Upto
<1>6. d \in S
  BY <1>2, <1>5
<1>7. f[k + d] = 0
  BY <1>6 DEF S
<1> QED
  BY <1>1, <1>7

\* What comes before the checksum, up to a zero in its place, and the checksum.
HeaderOf(id, ro, fill) ==
    Large(2, id) \o SubSeq(Large(16, Ro(ro, fill, 0)), 1, 3 + Len(Ro(ro, fill, 0)) - fill)
Checksum(id, ro, fill) == Missing(Sum8(HeaderOf(id, ro, fill)))

\* The contents of a block before its read-write area.
IsHead(id, ro, fill) ==
    /\ id \in Seq(Byte) /\ Short(Len(id)) /\ Area(ro) /\ fill \in Nat /\ fill + 1 \in 1..255
    /\ Short(Len(FieldsOf(ro)) + 4 + fill)

\* The two first resources, with any checksum.
LEMMA HeadBytes ==
    ASSUME NEW id, NEW ro, NEW fill, IsHead(id, ro, fill), NEW ck \in Byte
    PROVE  /\ LargeIs(Large(2, id), 2, id, Len(id))
           /\ RoIs(Ro(ro, fill, ck), FieldsOf(ro), fill, ck)
           /\ LargeIs(Large(16, Ro(ro, fill, ck)), 16, Ro(ro, fill, ck), Len(FieldsOf(ro)) + 4 + fill)
<1> DEFINE F == FieldsOf(ro)
           r == Ro(ro, fill, ck)
           m == Len(F) + 4 + fill
<1>1. id \in Seq(Byte) /\ Short(Len(id)) /\ Area(ro) /\ IsFill(fill, ck) /\ Short(m)
  BY DEF IsHead, IsFill
<1>2. F \in Seq(Byte) /\ RoIs(r, F, fill, ck)
  BY <1>1, RoBytes
<1>3. r \in Seq(Byte) /\ Len(r) = m
  BY <1>2 DEF RoIs
<1>4. 2 \in 0..127 /\ 16 \in 0..127
  OBVIOUS
<1> DEFINE a == Large(2, id)
           b == Large(16, r)
           n == Len(id)
           x == 2
           y == 16
<1>5. a = Large(x, id) /\ b = Large(y, r) /\ n = Len(id) /\ n \in Nat /\ m \in Nat
  BY <1>1, <1>3
<1>6. x \in 0..127 /\ y \in 0..127 /\ Short(n)
  BY <1>1
<1> HIDE DEF F, r, m, a, b, n, x, y
<1>7. LargeIs(a, x, id, n)
  BY <1>1, <1>5, <1>6, LargeBytes
<1>8. LargeIs(b, y, r, m)
  BY <1>1, <1>3, <1>5, <1>6, LargeBytes
<1> QED
  BY <1>2, <1>7, <1>8 DEF a, b, n, x, y, r, m, F

\* A block starts with these two resources.
Starts(b, id, ro, fill, ck) ==
    /\ b \in Seq(Byte) /\ Within(b, 0, Large(2, id))
    /\ Within(b, 3 + Len(id), Large(16, Ro(ro, fill, ck)))

\* The header h is what stands in a block up to the K-th byte, the checksum, which
\* is followed by zeros.
HeaderIs(h, b, K, fill, ck) ==
    /\ h \in Seq(Byte) /\ Len(h) = K /\ h[K] = 0
    /\ K + fill <= Len(b) /\ b[K] = ck
    /\ \A i \in 1..K-1 : h[i] = b[i]
    /\ \A k \in 1..fill : b[K + k] = 0

\* The bytes that are summed for the checksum are the first of the block, but for the checksum.
LEMMA HeaderBytes ==
    ASSUME NEW id, NEW ro, NEW fill, IsHead(id, ro, fill), NEW ck \in Byte, NEW b,
           Starts(b, id, ro, fill, ck)
    PROVE  HeaderIs(HeaderOf(id, ro, fill), b, Len(id) + Len(FieldsOf(ro)) + 10, fill, ck)
<1> DEFINE I  == Len(id)
           F  == FieldsOf(ro)
           E  == Len(F)
           K  == I + E + 10
           r0 == Ro(ro, fill, 0)
           rc == Ro(ro, fill, ck)
           m  == E + 4 + fill
           a  == Large(2, id)
           c0 == Large(16, r0)
           cc == Large(16, rc)
           t  == SubSeq(c0, 1, E + 7)
           h  == a \o t
<1>1. fill \in Nat /\ I \in Nat /\ E \in Nat /\ b \in Seq(Byte) /\ Len(b) \in Nat
  <2>1. fill \in Nat /\ Area(ro) /\ id \in Seq(Byte)
    BY DEF IsHead
  <2>2. F \in Seq(Byte)
    BY <2>1, FieldsArea DEF AreaOf, Pieces
  <2>3. b \in Seq(Byte)
    BY DEF Starts
  <2> HIDE DEF F
  <2> QED
    BY <2>1, <2>2, <2>3
<1>2. 0 \in Byte
  BY DEF Byte
<1>3. LargeIs(a, 2, id, I) /\ RoIs(r0, F, fill, 0) /\ LargeIs(c0, 16, r0, m)
  BY <1>2, HeadBytes
<1>4. RoIs(rc, F, fill, ck) /\ LargeIs(cc, 16, rc, m)
  BY HeadBytes
<1>5. Within(b, 0, a) /\ Within(b, 3 + I, cc)
  BY DEF Starts
<1>6. HeaderOf(id, ro, fill) = a \o SubSeq(c0, 1, 3 + Len(r0) - fill)
  BY DEF HeaderOf
<1> HIDE DEF I, F, r0, rc, a, c0, cc, t, h
<1>7. a \in Seq(Byte) /\ Len(a) = 3 + I
  BY <1>3 DEF LargeIs
<1>8. c0 \in Seq(Byte) /\ Len(c0) = 3 + m /\ c0[1] = 144 /\ c0[2] = Low(m) /\ c0[3] = High(m)
  <2>1. 128 + 16 = 144
    OBVIOUS
  <2> HIDE DEF m
  <2> QED
    BY <1>3, <2>1 DEF LargeIs
<1>9. cc \in Seq(Byte) /\ Len(cc) = 3 + m /\ cc[1] = 144 /\ cc[2] = Low(m) /\ cc[3] = High(m)
  <2>1. 128 + 16 = 144
    OBVIOUS
  <2> HIDE DEF m
  <2> QED
    BY <1>4, <2>1 DEF LargeIs
<1>10. (\A k \in 1..m : c0[3 + k] = r0[k]) /\ (\A k \in 1..m : cc[3 + k] = rc[k])
  <2> HIDE DEF m
  <2> QED
    BY <1>3, <1>4 DEF LargeIs
<1>11. /\ Len(r0) = E + 4 + fill
       /\ \A j \in 1..E : r0[j] = F[j]
       /\ r0[E + 1] = 82 /\ r0[E + 2] = 86 /\ r0[E + 3] = fill + 1 /\ r0[E + 4] = 0
  BY <1>3 DEF RoIs
<1>12. /\ \A j \in 1..E : rc[j] = F[j]
       /\ rc[E + 1] = 82 /\ rc[E + 2] = 86 /\ rc[E + 3] = fill + 1 /\ rc[E + 4] = ck
       /\ \A k \in 1..fill : rc[E + 4 + k] = 0
  BY <1>4 DEF RoIs
<1> HIDE DEF E
<1>13. 3 + Len(r0) - fill = E + 7
  BY <1>1, <1>11
<1>14. HeaderOf(id, ro, fill) = h
  BY <1>6, <1>13 DEF h, t
<1>15. t \in Seq(Byte) /\ Len(t) = E + 7 /\ \A j \in 1..E+7 : t[j] = c0[j]
  <2> DEFINE e == E + 7
  <2>1. e \in Nat /\ e <= Len(c0) /\ Len(c0) \in Nat
    BY <1>1, <1>8
  <2> HIDE DEF e
  <2>2. SubSeq(c0, 1, e) \in Seq(Byte) /\ Len(SubSeq(c0, 1, e)) = e /\ \A j \in 1..e : SubSeq(c0, 1, e)[j] = c0[j]
    BY <1>8, <2>1
  <2> QED
    BY <2>2 DEF e, t
<1>16. /\ h \in Seq(Byte) /\ Len(h) = Len(a) + Len(t)
       /\ \A i \in 1..Len(a) : h[i] = a[i]
       /\ \A i \in 1..Len(t) : h[Len(a) + i] = t[i]
  <2>1. a \in Seq(Byte) /\ t \in Seq(Byte)
    BY <1>7, <1>15
  <2> QED
    BY <2>1, Concat DEF h
<1>17. Len(h) = K
  BY <1>1, <1>7, <1>15, <1>16
<1>18. \A i \in 1..3+I : b[i] = a[i]
  <2>1. \A i \in 1..Len(a) : b[0 + i] = a[i]
    BY <1>5 DEF Within
  <2>2. \A i \in 1..3+I : 0 + i = i /\ i \in 1..Len(a)
    BY <1>7
  <2> QED
    BY <2>1, <2>2
<1>19. 3 + I + 3 + m <= Len(b) /\ \A k \in 1..3+m : b[3 + I + k] = cc[k]
  <2>1. (3 + I) + Len(cc) <= Len(b) /\ \A k \in 1..Len(cc) : b[(3 + I) + k] = cc[k]
    BY <1>5 DEF Within
  <2>2. m \in Nat
    BY <1>1
  <2> DEFINE e == 3 + m
  <2>3. e = Len(cc) /\ (3 + I) + e = 3 + I + 3 + m
    BY <1>1, <1>9
  <2> HIDE DEF e, m
  <2>4. (3 + I) + e <= Len(b) /\ \A k \in 1..e : b[3 + I + k] = cc[k]
    BY <2>1, <2>3
  <2> QED
    BY <2>3, <2>4 DEF e
<1>20. K + fill <= Len(b)
  BY <1>1, <1>19
<1>21. ASSUME NEW j \in 1..E+6 PROVE c0[j] = cc[j]
  <2>1. CASE j <= 3
    BY <1>8, <1>9, <2>1
  <2>2. CASE j > 3
    <3>1. j - 3 \in 1..E+3 /\ j - 3 \in 1..m /\ 3 + (j - 3) = j
      BY <1>1, <2>2
    <3>2. c0[j] = r0[j - 3] /\ cc[j] = rc[j - 3]
      BY <1>10, <3>1
    <3>3. r0[j - 3] = rc[j - 3]
      <4>1. j - 3 \in 1..E \/ j - 3 = E + 1 \/ j - 3 = E + 2 \/ j - 3 = E + 3
        BY <1>1, <3>1
      <4> DEFINE i == j - 3
      <4> HIDE DEF i
      <4>2. i \in 1..E \/ i = E + 1 \/ i = E + 2 \/ i = E + 3
        BY <4>1 DEF i
      <4>3. r0[i] = rc[i]
        BY <1>11, <1>12, <4>2
      <4> QED
        BY <4>3 DEF i
    <3> QED
      BY <3>2, <3>3
  <2> QED
    BY <2>1, <2>2
<1>22. ASSUME NEW i \in 1..K-1 PROVE h[i] = b[i]
  <2>1. CASE i <= 3 + I
    <3>1. i \in 1..3+I /\ i \in 1..Len(a)
      BY <1>1, <1>7, <2>1
    <3> QED
      BY <1>16, <1>18, <3>1
  <2>2. CASE i > 3 + I
    <3> DEFINE j == i - (3 + I)
    <3>1. j \in 1..E+6 /\ j \in 1..E+7 /\ j \in 1..Len(t) /\ j \in 1..3+m /\ Len(a) + j = i /\ 3 + I + j = i
      BY <1>1, <1>7, <1>15, <2>2
    <3> HIDE DEF j
    <3>2. h[i] = t[j] /\ t[j] = c0[j]
      BY <1>15, <1>16, <3>1
    <3>3. b[i] = cc[j]
      BY <1>19, <3>1
    <3>4. c0[j] = cc[j]
      BY <1>21, <3>1
    <3> QED
      BY <3>2, <3>3, <3>4
  <2> QED
    BY <1>1, <2>1, <2>2
<1>23. h[K] = 0
  <2>1. E + 7 \in 1..Len(t) /\ Len(a) + (E + 7) = K /\ E + 7 \in 1..E+7 /\ E + 4 \in 1..m /\ 3 + (E + 4) = E + 7
    BY <1>1, <1>7, <1>15
  <2>2. h[K] = t[E + 7] /\ t[E + 7] = c0[E + 7]
    BY <1>15, <1>16, <2>1
  <2>3. c0[E + 7] = r0[E + 4]
    BY <1>10, <2>1
  <2> QED
    BY <1>11, <2>2, <2>3
<1>24. b[K] = ck
  <2>1. E + 7 \in 1..3+m /\ 3 + I + (E + 7) = K /\ E + 4 \in 1..m /\ 3 + (E + 4) = E + 7
    BY <1>1
  <2>2. b[K] = cc[E + 7]
    BY <1>19, <2>1
  <2>3. cc[E + 7] = rc[E + 4]
    BY <1>10, <2>1
  <2> QED
    BY <1>12, <2>2, <2>3
<1>25. ASSUME NEW k \in 1..fill PROVE b[K + k] = 0
  <2> DEFINE j == E + 4 + k
  <2>1. 3 + j \in 1..3+m /\ 3 + I + (3 + j) = K + k /\ j \in 1..m
    BY <1>1
  <2>2. b[K + k] = cc[3 + j]
    BY <1>19, <2>1
  <2>3. cc[3 + j] = rc[j]
    BY <1>10, <2>1
  <2>4. rc[j] = 0
    BY <1>12
  <2> QED
    BY <2>2, <2>3, <2>4
<1>26. HeaderIs(h, b, K, fill, ck)
  <2>1. h \in Seq(Byte)
    BY <1>16
  <2> HIDE DEF K
  <2> QED
    BY <1>17, <1>20, <1>22, <1>23, <1>24, <1>25, <2>1 DEF HeaderIs
<1> QED
  BY <1>14, <1>26 DEF I, F, E

\* The header has a sum, and the checksum is what is missing from it.
LEMMA CheckByte ==
    ASSUME NEW id, NEW ro, NEW fill, IsHead(id, ro, fill)
    PROVE  Checksum(id, ro, fill) \in Byte
<1> DEFINE h == HeaderOf(id, ro, fill)
           r == Ro(ro, fill, 0)
           c == Large(16, r)
           a == Large(2, id)
           e == 3 + Len(r) - fill
<1>1. 0 \in Byte
  BY DEF Byte
<1>2. LargeIs(a, 2, id, Len(id)) /\ RoIs(r, FieldsOf(ro), fill, 0)
      /\ LargeIs(c, 16, r, Len(FieldsOf(ro)) + 4 + fill)
  BY <1>1, HeadBytes
<1>3. a \in Seq(Byte) /\ c \in Seq(Byte)
  BY <1>2 DEF LargeIs
<1>4. Len(c) = 3 + (Len(FieldsOf(ro)) + 4 + fill) /\ Len(r) = Len(FieldsOf(ro)) + 4 + fill
  BY <1>2 DEF LargeIs, RoIs
<1>5. fill \in Nat /\ FieldsOf(ro) \in Seq(Byte)
  <2>1. fill \in Nat /\ Area(ro)
    BY DEF IsHead
  <2> QED
    BY <2>1, FieldsArea DEF AreaOf, Pieces
<1> DEFINE E == Len(FieldsOf(ro))
<1>6. E \in Nat /\ Len(c) = 3 + (E + 4 + fill) /\ Len(r) = E + 4 + fill
  BY <1>4, <1>5
<1> HIDE DEF E, c, r, a
<1>7. e \in Nat /\ e <= Len(c) /\ Len(c) \in Nat
  BY <1>5, <1>6
<1> HIDE DEF e
<1>8. SubSeq(c, 1, e) \in Seq(Byte)
  BY <1>3, <1>7
<1>9. h = a \o SubSeq(c, 1, e)
  BY DEF HeaderOf, a, c, e, r
<1> HIDE DEF h
<1>10. h \in Seq(Byte)
  <2> DEFINE t == SubSeq(c, 1, e)
  <2>1. t \in Seq(Byte) /\ h = a \o t
    BY <1>8, <1>9
  <2> HIDE DEF t
  <2> QED
    BY <1>3, <2>1, Concat
<1>11. PICK f : Sums(h, Len(h), f) /\ Sum8(h) = f[Len(h)]
  BY <1>10, Sum8Is
<1>12. Sum8(h) \in Byte
  <2>1. Len(h) \in 0..Len(h)
    BY <1>10
  <2> QED
    BY <1>11, <2>1 DEF Sums
<1>13. Missing(Sum8(h)) \in Byte
  BY <1>12, Add8Missing
<1> QED
  BY <1>13 DEF Checksum, h

\* The sum that info takes is nothing, if there are zeros enough behind the checksum.
LEMMA BlockSum ==
    ASSUME NEW id, NEW ro, NEW fill, IsHead(id, ro, fill), fill >= Len(id) + 5,
           NEW b, Starts(b, id, ro, fill, Checksum(id, ro, fill)),
           NEW n, n = Len(FieldsOf(ro)) + 4 + fill + 1
    PROVE  Sum8(SubSeq(b, 1, n)) = 0
<1> DEFINE ck == Checksum(id, ro, fill)
           h  == HeaderOf(id, ro, fill)
           I  == Len(id)
           E  == Len(FieldsOf(ro))
           K  == I + E + 10
           c  == SubSeq(b, 1, n)
<1>1. fill \in Nat /\ I \in Nat /\ E \in Nat /\ b \in Seq(Byte) /\ Len(b) \in Nat
  <2>1. fill \in Nat /\ Area(ro) /\ id \in Seq(Byte)
    BY DEF IsHead
  <2>2. FieldsOf(ro) \in Seq(Byte)
    BY <2>1, FieldsArea DEF AreaOf, Pieces
  <2>3. b \in Seq(Byte)
    BY DEF Starts
  <2> QED
    BY <2>1, <2>2, <2>3
<1>2. ck \in Byte
  BY CheckByte
<1>3. HeaderIs(h, b, K, fill, ck)
  <2> HIDE DEF ck
  <2>1. Starts(b, id, ro, fill, ck)
    BY DEF ck
  <2> QED
    BY <1>2, <2>1, HeaderBytes
<1>4. /\ h \in Seq(Byte) /\ Len(h) = K /\ h[K] = 0
      /\ K + fill <= Len(b) /\ b[K] = ck
      /\ \A i \in 1..K-1 : h[i] = b[i]
      /\ \A k \in 1..fill : b[K + k] = 0
  <2> HIDE DEF K, h, ck
  <2> QED
    BY <1>3 DEF HeaderIs
<1>5. ck = Missing(Sum8(h))
  BY DEF Checksum
<1>6. n = E + 4 + fill + 1 /\ fill >= I + 5
  OBVIOUS
<1> HIDE DEF ck, h, I, E
<1>7. K \in Nat /\ K - 1 \in Nat /\ n \in Nat /\ K <= n /\ n <= K + fill /\ n <= Len(b)
  BY <1>1, <1>4, <1>6
<1> HIDE DEF K
<1>8. c \in Seq(Byte) /\ Len(c) = n /\ \A i \in 1..n : c[i] = b[i]
  BY <1>1, <1>7
<1> HIDE DEF c
<1>9. PICK f : Sums(h, K, f) /\ Sum8(h) = f[K]
  <2>1. \E f : Sums(h, Len(h), f) /\ Sum8(h) = f[Len(h)]
    BY <1>4, Sum8Is
  <2>2. Len(h) = K
    BY <1>4
  <2> QED
    BY <2>1, <2>2
<1>10. PICK g : Sums(c, n, g) /\ Sum8(c) = g[n]
  <2>1. \E g : Sums(c, Len(c), g) /\ Sum8(c) = g[Len(c)]
    BY <1>8, Sum8Is
  <2>2. Len(c) = n
    BY <1>8
  <2> QED
    BY <2>1, <2>2
<1>11. f[K - 1] = g[K - 1]
  <2> DEFINE k == K - 1
  <2>1. k \in Nat /\ k <= K /\ k <= n
    BY <1>7
  <2>2. \A i \in 1..k : i \in 1..n
    BY <1>7
  <2>3. \A i \in 1..k : h[i] = c[i]
    BY <1>4, <1>8, <2>2
  <2> HIDE DEF k
  <2>4. f[k] = g[k]
    BY <1>9, <1>10, <2>1, <2>3, SumsAgree
  <2> QED
    BY <2>4 DEF k
<1> DEFINE x == f[K - 1]
<1>12. x \in Byte
  <2>1. K - 1 \in 0..K
    BY <1>7
  <2> QED
    BY <1>9, <2>1 DEF Sums
<1>13. f[K] = x
  <2>1. K \in 1..K
    BY <1>7
  <2>2. f[K] = Add8(x, h[K])
    BY <1>9, <2>1 DEF Sums
  <2> HIDE DEF x
  <2> QED
    BY <1>4, <1>12, <2>2, Add8Zero
<1>14. g[K] = 0
  <2>1. K \in 1..n
    BY <1>7
  <2>2. g[K] = Add8(g[K - 1], c[K])
    BY <1>10, <2>1 DEF Sums
  <2>3. c[K] = ck
    BY <1>4, <1>8, <2>1
  <2>4. ck = Missing(x)
    BY <1>5, <1>9, <1>13
  <2>5. g[K] = Add8(x, Missing(x))
    BY <1>11, <2>2, <2>3, <2>4
  <2> HIDE DEF x
  <2> QED
    BY <1>12, <2>5, Add8Missing
<1>15. ASSUME NEW i \in 1..n, K < i PROVE c[i] = 0
  <2> DEFINE k == i - K
  <2>1. k \in 1..fill /\ K + k = i
    BY <1>1, <1>7, <1>15
  <2> HIDE DEF k
  <2>2. b[i] = 0
    BY <1>4, <2>1
  <2> QED
    BY <1>8, <2>2
<1>16. g[n] = 0
  <2>1. K \in Nat /\ K <= n /\ Sums(c, n, g)
    BY <1>7, <1>10
  <2> QED
    BY <1>14, <1>15, <2>1, SumsZero
<1> QED
  BY <1>10, <1>16 DEF c

-----------------------------------------------------------------------------
(* The resources of a block that fits.                                      *)

BlockRo(v)    == Ro(v.ro, v.fill, Checksum(v.id, v.ro, v.fill))
BlockParts(v) == <<Large(2, v.id), Large(16, BlockRo(v)), Large(17, FieldsOf(v.rw)), <<120>>>>
BlockItems(v) == <<LargeRes(2, v.id), LargeRes(16, BlockRo(v)), LargeRes(17, FieldsOf(v.rw)),
                   Res(END_TAG, FALSE, << >>)>>
Count(v)      == IF v.ended THEN 4 ELSE 3

\* What fits, in parts.
LEMMA FitsParts ==
    ASSUME NEW v, Fits(v)
    PROVE  /\ IsHead(v.id, v.ro, v.fill) /\ Area(v.rw) /\ Short(Len(FieldsOf(v.rw)))
           /\ v.ended \in BOOLEAN /\ v.id \in Seq(1..255) /\ v.id # << >>
<1>1. /\ v.id \in Seq(1..255) /\ v.id # << >> /\ Short(Len(v.id))
      /\ v.fill \in 0..254 /\ v.ended \in BOOLEAN
      /\ Area(v.ro) /\ Short(Len(FieldsOf(v.ro)) + 4 + v.fill)
      /\ Area(v.rw) /\ Short(Len(FieldsOf(v.rw)))
  BY DEF Fits
<1> DEFINE id == v.id
           fill == v.fill
<1>2. id \in Seq(1..255) /\ fill \in 0..254
  BY <1>1
<1> HIDE DEF id, fill
<1>3. id \in Seq(Byte)
  <2> DEFINE V == 1..255
  <2>1. V \subseteq Byte
    BY DEF Byte
  <2>2. id \in Seq(V)
    BY <1>2
  <2> HIDE DEF V
  <2> QED
    BY <2>1, <2>2
<1>4. fill \in Nat /\ fill + 1 \in 1..255
  BY <1>2
<1>5. IsHead(v.id, v.ro, v.fill)
  BY <1>1, <1>3, <1>4 DEF IsHead, id, fill
<1> QED
  BY <1>1, <1>5

\* The bytes of a block, in parts, of which the fourth may be missing.
IsBlock(b, p, ended) ==
    /\ ended => b = ((p[1] \o p[2]) \o p[3]) \o p[4]
    /\ ~ended => b = ((p[1] \o p[2]) \o p[3]) \o << >>

\* The bytes of a block are its parts.
LEMMA BlockIs ==
    ASSUME NEW v, v.ended \in BOOLEAN
    PROVE  IsBlock(Block(v), BlockParts(v), v.ended)
<1>1. Block(v) = ((Large(2, v.id) \o Large(16, BlockRo(v))) \o Large(17, FieldsOf(v.rw)))
                 \o (IF v.ended THEN <<120>> ELSE << >>)
  BY Zenon DEF Block, BlockRo, Checksum, Missing, HeaderOf, Ro, Filled
<1>2. BlockParts(v)[1] = Large(2, v.id) /\ BlockParts(v)[2] = Large(16, BlockRo(v))
      /\ BlockParts(v)[3] = Large(17, FieldsOf(v.rw)) /\ BlockParts(v)[4] = <<120>>
  BY DEF BlockParts
<1> QED
  BY <1>1, <1>2, Zenon DEF IsBlock

\* Each of the parts is the bytes of a resource, and only the fourth ends a block.
LEMMA PartsAre ==
    ASSUME NEW v, Fits(v)
    PROVE  /\ \A i \in 1..4 : /\ BlockParts(v)[i] \in Seq(Byte)
                              /\ IsRes(BlockParts(v)[i], BlockItems(v)[i])
                              /\ i # 4 => BlockItems(v)[i].type # END_TAG
           /\ Len(BlockParts(v)[1]) = 3 + Len(v.id)
<1> DEFINE id == v.id
           r  == BlockRo(v)
           W  == FieldsOf(v.rw)
           E  == Len(FieldsOf(v.ro))
           m  == E + 4 + v.fill
           ck == Checksum(v.id, v.ro, v.fill)
           p  == BlockParts(v)
           it == BlockItems(v)
<1>1. /\ IsHead(v.id, v.ro, v.fill) /\ Area(v.rw) /\ Short(Len(W))
      /\ v.ended \in BOOLEAN /\ v.id \in Seq(1..255) /\ v.id # << >>
  BY FitsParts
<1>2. id \in Seq(Byte) /\ Short(Len(id)) /\ Short(m)
  BY <1>1 DEF IsHead
<1>3. ck \in Byte
  BY <1>1, CheckByte
<1>4. /\ LargeIs(Large(2, id), 2, id, Len(id))
      /\ RoIs(r, FieldsOf(v.ro), v.fill, ck)
      /\ LargeIs(Large(16, r), 16, r, m)
  <2> HIDE DEF ck
  <2>1. /\ LargeIs(Large(2, id), 2, id, Len(id))
        /\ RoIs(Ro(v.ro, v.fill, ck), FieldsOf(v.ro), v.fill, ck)
        /\ LargeIs(Large(16, Ro(v.ro, v.fill, ck)), 16, Ro(v.ro, v.fill, ck), m)
    BY <1>1, <1>3, HeadBytes
  <2>2. r = Ro(v.ro, v.fill, ck)
    BY DEF BlockRo, ck
  <2> QED
    BY <2>1, <2>2
<1>5. W \in Seq(Byte)
  BY <1>1, FieldsArea DEF AreaOf, Pieces
<1>6. r \in Seq(Byte) /\ Short(Len(r))
  BY <1>2, <1>4 DEF RoIs
<1>7. LargeIs(Large(17, W), 17, W, Len(W))
  <2> DEFINE n   == Len(W)
             tag == 17
             c   == Large(tag, W)
  <2>1. n \in Nat /\ n = Len(W) /\ Short(n) /\ tag \in 0..127 /\ c = Large(tag, W)
    BY <1>1, <1>5
  <2> HIDE DEF n, tag, c, W
  <2>2. LargeIs(c, tag, W, n)
    BY <1>5, <2>1, LargeBytes
  <2> QED
    BY <2>2 DEF c, n, tag
<1>8. p[1] = Large(2, id) /\ p[2] = Large(16, r) /\ p[3] = Large(17, W) /\ p[4] = <<120>>
  BY DEF BlockParts
<1>9. it[1] = LargeRes(2, id) /\ it[2] = LargeRes(16, r) /\ it[3] = LargeRes(17, W)
      /\ it[4] = Res(END_TAG, FALSE, << >>)
  BY DEF BlockItems
<1> HIDE DEF id, r, W, m, ck, p, it
<1>10. p[1] \in Seq(Byte) /\ p[2] \in Seq(Byte) /\ p[3] \in Seq(Byte) /\ Len(p[1]) = 3 + Len(id)
  BY <1>4, <1>7, <1>8 DEF LargeIs
<1>11. p[4] \in Seq(Byte)
  <2>1. 120 \in Byte
    BY DEF Byte
  <2> QED
    BY <1>8, <2>1
<1>12. IsLargeRes(p[1], 2, id) /\ IsLargeRes(p[2], 16, r) /\ IsLargeRes(p[3], 17, W)
  <2>1. 2 \in 0..127 /\ 16 \in 0..127 /\ 17 \in 0..127
    OBVIOUS
  <2>2. Short(Len(W))
    BY <1>1 DEF W
  <2> QED
    BY <1>2, <1>5, <1>6, <1>8, <2>1, <2>2 DEF IsLargeRes
<1>13. IsRes(p[1], it[1]) /\ IsRes(p[2], it[2]) /\ IsRes(p[3], it[3]) /\ IsRes(p[4], it[4])
  BY <1>8, <1>9, <1>12 DEF IsRes
<1>14. it[1].type # END_TAG /\ it[2].type # END_TAG /\ it[3].type # END_TAG
  BY <1>9 DEF LargeRes, Res, END_TAG
<1>15. \A i \in 1..4 : i = 1 \/ i = 2 \/ i = 3 \/ i = 4
  OBVIOUS
<1>16. \A i \in 1..4 : p[i] \in Seq(Byte) /\ IsRes(p[i], it[i]) /\ (i # 4 => it[i].type # END_TAG)
  BY <1>10, <1>11, <1>13, <1>14, <1>15
<1> QED
  BY <1>10, <1>16 DEF id, p, it

\* A block is its parts, three or four of them.
LEMMA BlockPieces ==
    ASSUME NEW v, Fits(v)
    PROVE  \E at : Pieces(Byte, Block(v), BlockParts(v), Count(v), at)
<1> DEFINE p  == BlockParts(v)
           b1 == p[1]
           b2 == b1 \o p[2]
           b3 == b2 \o p[3]
           b4 == b3 \o p[4]
<1>1. p[1] \in Seq(Byte) /\ p[2] \in Seq(Byte) /\ p[3] \in Seq(Byte) /\ p[4] \in Seq(Byte)
  BY PartsAre
<1>2. v.ended \in BOOLEAN
  BY FitsParts
<1>3. (v.ended => Block(v) = b4) /\ (~v.ended => Block(v) = b3 \o << >>)
  <2>1. IsBlock(Block(v), p, v.ended)
    BY <1>2, BlockIs
  <2> HIDE DEF p
  <2> QED
    BY <2>1 DEF IsBlock
<1> HIDE DEF p
<1>4. \E at : Pieces(Byte, b1, p, 1, at)
  <2>1. << >> \in Seq(Byte) /\ Len(<< >>) = 0 /\ [i \in 0..0 |-> 0] \in [0..0 -> Nat] /\ [i \in 0..0 |-> 0][0] = 0
    OBVIOUS
  <2>2. 1..0 = {}
    OBVIOUS
  <2>3. Pieces(Byte, << >>, p, 0, [i \in 0..0 |-> 0])
    BY <2>1, <2>2 DEF Pieces
  <2>4. \A i \in 1..0 : p[i] = p[i]
    OBVIOUS
  <2>5. 0 \in Nat /\ 0 + 1 = 1
    OBVIOUS
  <2> DEFINE c == p[1]
             z == 0
             e == << >>
             a == [i \in 0..0 |-> 0]
  <2>6. c \in Seq(Byte) /\ p[z + 1] = c /\ z \in Nat /\ Pieces(Byte, e, p, z, a)
    BY <1>1, <2>3, <2>5
  <2> HIDE DEF c, z, e, a
  <2>7. \E to : Pieces(Byte, e \o c, p, z + 1, to)
    BY <2>6, PiecesMore
  <2>8. e \o c = c
    BY <2>6 DEF e
  <2> QED
    BY <2>5, <2>7, <2>8 DEF c, z
<1>5. ASSUME NEW n \in Nat, NEW b, NEW at, Pieces(Byte, b, p, n, at), p[n + 1] \in Seq(Byte)
      PROVE  \E to : Pieces(Byte, b \o p[n + 1], p, n + 1, to)
  <2> DEFINE c == p[n + 1]
  <2>1. c \in Seq(Byte) /\ p[n + 1] = c
    BY <1>5
  <2> HIDE DEF c
  <2>2. \E to : Pieces(Byte, b \o c, p, n + 1, to)
    BY <1>5, <2>1, PiecesMore
  <2> QED
    BY <2>2 DEF c
<1>6. \E at : Pieces(Byte, b2, p, 2, at)
  <2> HIDE DEF b1
  <2>1. 1 \in Nat /\ 1 + 1 = 2
    OBVIOUS
  <2> QED
    BY <1>1, <1>4, <1>5, <2>1
<1>7. \E at : Pieces(Byte, b3, p, 3, at)
  <2> HIDE DEF b2
  <2>1. 2 \in Nat /\ 2 + 1 = 3
    OBVIOUS
  <2> QED
    BY <1>1, <1>5, <1>6, <2>1
<1>8. \E at : Pieces(Byte, b4, p, 4, at)
  <2> HIDE DEF b3
  <2>1. 3 \in Nat /\ 3 + 1 = 4
    OBVIOUS
  <2> QED
    BY <1>1, <1>5, <1>7, <2>1
<1>9. b3 \o << >> = b3
  <2>1. b3 \in Seq(Byte)
    <3> HIDE DEF b3
    <3> QED
      BY <1>7 DEF Pieces
  <2> HIDE DEF b3
  <2> QED
    BY <2>1
<1> HIDE DEF b3, b4
<1>10. CASE v.ended
  <2>1. Count(v) = 4
    BY <1>10 DEF Count
  <2> QED
    BY <1>3, <1>8, <1>10, <2>1 DEF p
<1>11. CASE ~v.ended
  <2>1. Count(v) = 3
    BY <1>11 DEF Count
  <2> QED
    BY <1>3, <1>7, <1>9, <1>11, <2>1 DEF p
<1> QED
  BY <1>10, <1>11

\* A block in a region that is larger than it: zeros follow.
Padded(v, z) == Block(v) \o Blank(z)

\* Its parts and what info makes of each.
Part(v, i) == IF i \in 1..Count(v) THEN BlockParts(v)[i] ELSE << 0 >>
ItemAt(v, i) == IF i \in 1..Count(v) THEN BlockItems(v)[i] ELSE Res(0, FALSE, << >>)

\* Zeros, and one more.
LEMMA BlankMore ==
    ASSUME NEW z \in Nat
    PROVE  /\ Blank(z) \in Seq(Byte) /\ Len(Blank(z)) = z
           /\ Blank(z) \o << 0 >> = Blank(z + 1) /\ Blank(0) = << >>
<1>1. \A n \in Nat : Blank(n) \in Seq({0}) /\ Len(Blank(n)) = n
  BY DEF Blank
<1>2. Blank(z) \in Seq(Byte)
  <2>1. Blank(z) = [i \in 1..z |-> 0] /\ 0 \in Byte
    BY DEF Blank, Byte
  <2> HIDE DEF Blank
  <2>2. [i \in 1..z |-> 0] \in Seq(Byte)
    BY <2>1
  <2> QED
    BY <2>1, <2>2
<1>3. Blank(z) \o << 0 >> = Blank(z + 1)
  <2>1. << 0 >> \in Seq({0}) /\ Len(<< 0 >>) = 1
    OBVIOUS
  <2> DEFINE x == Blank(z) \o << 0 >>
             y == Blank(z + 1)
  <2>2. x \in Seq({0}) /\ Len(x) = z + 1
    BY <1>1, <2>1
  <2>3. y \in Seq({0}) /\ Len(y) = z + 1
    BY <1>1
  <2> HIDE DEF x, y
  <2>4. \A i \in 1..z+1 : x[i] = 0 /\ y[i] = 0
    BY <2>2, <2>3
  <2>5. x = y
    BY <2>2, <2>3, <2>4, SameItems
  <2> QED
    BY <2>5 DEF x, y
<1>4. Blank(0) = << >>
  BY DEF Blank
<1> QED
  BY <1>1, <1>2, <1>3, <1>4

\* A padded block is its parts, and a part for each zero.
LEMMA PaddedPieces ==
    ASSUME NEW v, Fits(v), NEW z \in Nat
    PROVE  \E at : Pieces(Byte, Padded(v, z), [i \in 1..Count(v)+z |-> Part(v, i)], Count(v) + z, at)
<1> DEFINE n == Count(v)
           p == BlockParts(v)
           t == [i \in 1..n+z |-> Part(v, i)]
           b == Block(v)
           Has(k) == \E at : Pieces(Byte, b \o Blank(k), t, n + k, at)
           S == {k \in 0..z : Has(k)}
<1>1. n \in Nat /\ n >= 1
  BY DEF Count
<1>2. \A i \in 1..n : t[i] = p[i]
  BY <1>1 DEF Part
<1>3. \A i \in 1..n+z : i > n => t[i] = << 0 >>
  BY <1>1 DEF Part
<1>4. PICK a : Pieces(Byte, b, p, n, a)
  BY BlockPieces
<1> HIDE DEF n, p, t, b
<1>5. b \in Seq(Byte)
  BY <1>4 DEF Pieces
<1>6. Pieces(Byte, b, t, n, a)
  BY <1>2, <1>4 DEF Pieces
<1>7. 0 \in S
  <2>1. b \o Blank(0) = b
    <3>1. 0 \in Nat
      OBVIOUS
    <3>2. Blank(0) = << >>
      BY <3>1, BlankMore
    <3> QED
      BY <1>5, <3>2
  <2>2. n + 0 = n /\ 0 \in 0..z
    BY <1>1
  <2>3. Has(0)
    BY <1>6, <2>1, <2>2, Zenon
  <2> HIDE DEF Has
  <2> QED
    BY <2>2, <2>3
<1>8. ASSUME NEW k \in S, k < z PROVE k + 1 \in S
  <2>1. k \in Nat /\ k + 1 \in 0..z
    BY <1>8
  <2>2. PICK at : Pieces(Byte, b \o Blank(k), t, n + k, at)
    OBVIOUS
  <2> DEFINE c == << 0 >>
             w == Blank(k)
             m == n + k
             x == b \o w
  <2>3. m \in Nat /\ m + 1 = n + (k + 1)
    BY <1>1, <2>1
  <2>4. c \in Seq(Byte) /\ t[m + 1] = c
    <3>1. m + 1 \in 1..n+z /\ m + 1 > n
      BY <1>1, <1>8, <2>1
    <3>2. 0 \in Byte
      BY DEF Byte
    <3> QED
      BY <1>3, <3>1, <3>2
  <2>5. w \in Seq(Byte) /\ w \o c = Blank(k + 1)
    BY <2>1, BlankMore
  <2>6. Pieces(Byte, x, t, m, at)
    BY <2>2
  <2> HIDE DEF c, w, m, S
  <2>7. x \o c = b \o (w \o c)
    <3>1. b \in Seq(Byte) /\ w \in Seq(Byte) /\ c \in Seq(Byte)
      BY <1>5, <2>4, <2>5
    <3>2. (b \o w) \o c = b \o (w \o c)
      BY <3>1, ConcatAssociative
    <3> QED
      BY <3>2
  <2> HIDE DEF x
  <2>8. \E to : Pieces(Byte, x \o c, t, m + 1, to)
    BY <2>3, <2>4, <2>6, PiecesMore
  <2>9. Has(k + 1)
    BY <2>3, <2>5, <2>7, <2>8
  <2> HIDE DEF Has
  <2> QED
    BY <2>1, <2>9 DEF S
<1>9. S \subseteq 0..z /\ z \in 0..z
  OBVIOUS
<1> HIDE DEF S
<1>a. S = 0..z
  BY <1>7, <1>8, <1>9, Upto
<1>10. z \in S
  BY <1>9, <1>a
<1>11. Has(z)
  BY <1>10 DEF S
<1> QED
  BY <1>11 DEF Padded, n, t, b

\* What info finds in a padded block: the resources of the block and, if it has
\* no end, one for each zero.
Sees(v, m, r) ==
    /\ m \in Nat /\ m >= 3 /\ r = [i \in 1..m |-> r[i]] /\ Len(r) = m
    /\ r[1] = LargeRes(2, v.id) /\ r[2] = LargeRes(16, BlockRo(v))
    /\ r[3] = LargeRes(17, FieldsOf(v.rw))
    /\ \A i \in 4..m : r[i] = Res(IF v.ended THEN END_TAG ELSE 0, FALSE, << >>)
    /\ v.ended => m = 4

\* What info finds behind the areas is the end or nothing.
LEMMA SeesRest ==
    ASSUME NEW v, NEW m, NEW r, Sees(v, m, r), NEW i \in 4..m
    PROVE  (v.ended => r[i].type = 15) /\ (~v.ended => r[i].type = 0)
<1>1. r[i] = Res(IF v.ended THEN END_TAG ELSE 0, FALSE, << >>)
  BY DEF Sees
<1> DEFINE t == IF v.ended THEN END_TAG ELSE 0
<1>2. (v.ended => t = 15) /\ (~v.ended => t = 0)
  BY DEF END_TAG
<1>3. r[i] = Res(t, FALSE, << >>)
  BY <1>1
<1> HIDE DEF t
<1>4. r[i].type = t
  BY <1>3 DEF Res
<1> QED
  BY <1>2, <1>4

\* The first resources of a padded block.
LEMMA PaddedStarts ==
    ASSUME NEW v, Fits(v), NEW z \in Nat
    PROVE  Starts(Padded(v, z), v.id, v.ro, v.fill, Checksum(v.id, v.ro, v.fill))
<1> DEFINE p  == BlockParts(v)
           n  == Count(v) + z
           t  == [i \in 1..n |-> Part(v, i)]
           b  == Padded(v, z)
<1>1. Len(p[1]) = 3 + Len(v.id) /\ p[1] \in Seq(Byte)
  BY PartsAre
<1>2. PICK at : Pieces(Byte, b, t, n, at)
  BY PaddedPieces
<1>3. p[2] = Large(16, Ro(v.ro, v.fill, Checksum(v.id, v.ro, v.fill))) /\ p[1] = Large(2, v.id)
  BY DEF BlockParts, BlockRo
<1>4. n \in Nat /\ 1 \in 1..n /\ 2 \in 1..n /\ 1 \in 1..Count(v) /\ 2 \in 1..Count(v)
  BY DEF Count
<1>5. t[1] = p[1] /\ t[2] = p[2]
  BY <1>4 DEF Part
<1> HIDE DEF p, n, b, t
<1>6. /\ b \in Seq(Byte) /\ at[0] = 0
      /\ at[1] = at[0] + Len(t[1]) /\ Within(b, at[0], t[1]) /\ Within(b, at[1], t[2])
  <2>1. /\ b \in Seq(Byte) /\ at[0] = 0
        /\ \A i \in 1..n : at[i] = at[i - 1] + Len(t[i]) /\ Within(b, at[i - 1], t[i])
    BY <1>2 DEF Pieces
  <2>2. 1 - 1 = 0 /\ 2 - 1 = 1
    OBVIOUS
  <2> QED
    BY <1>4, <2>1, <2>2
<1>7. at[1] = 3 + Len(v.id)
  <2>1. Len(p[1]) \in Nat
    BY <1>1
  <2> QED
    BY <1>1, <1>5, <1>6, <2>1
<1> QED
  BY <1>3, <1>5, <1>6, <1>7 DEF Starts, b

\* What info finds in it.
LEMMA PaddedScan ==
    ASSUME NEW v, Fits(v), NEW z \in Nat
    PROVE  \E m : Sees(v, m, Resources(Padded(v, z)))
<1> DEFINE c  == Count(v)
           n  == c + z
           m  == IF v.ended THEN 4 ELSE n
           t  == [i \in 1..n |-> Part(v, i)]
           it == [i \in 1..n |-> ItemAt(v, i)]
           b  == Padded(v, z)
           r  == Resources(b)
<1>1. \A i \in 1..4 : /\ BlockParts(v)[i] \in Seq(Byte)
                      /\ IsRes(BlockParts(v)[i], BlockItems(v)[i])
                      /\ i # 4 => BlockItems(v)[i].type # END_TAG
  BY PartsAre
<1>2. PICK at : Pieces(Byte, b, t, n, at)
  BY PaddedPieces
<1> HIDE DEF b
<1>3. v.ended \in BOOLEAN
  BY FitsParts
<1>4. (v.ended => c = 4) /\ (~v.ended => c = 3)
  BY DEF Count
<1> HIDE DEF c
<1>5. /\ n \in Nat /\ m \in 1..n /\ m >= 3 /\ c \in 3..4 /\ c <= n
      /\ v.ended => m = 4
      /\ ~v.ended => m = n
  BY <1>3, <1>4
<1>6. \A i \in 1..n : /\ i <= c => i \in 1..4 /\ t[i] = BlockParts(v)[i] /\ it[i] = BlockItems(v)[i]
                      /\ ~(i <= c) => t[i] = << 0 >> /\ it[i] = Res(0, FALSE, << >>)
  <2> SUFFICES ASSUME NEW i \in 1..n
               PROVE  /\ i <= c => i \in 1..4 /\ t[i] = BlockParts(v)[i] /\ it[i] = BlockItems(v)[i]
                      /\ ~(i <= c) => t[i] = << 0 >> /\ it[i] = Res(0, FALSE, << >>)
    OBVIOUS
  <2>1. t[i] = Part(v, i) /\ it[i] = ItemAt(v, i)
    OBVIOUS
  <2> HIDE DEF t, it, n, m
  <2>2. i \in Nat /\ (i <= c => i \in 1..4 /\ i \in 1..c) /\ (~(i <= c) => i \notin 1..c)
    BY <1>5
  <2>3. CASE i <= c
    <3>1. Part(v, i) = BlockParts(v)[i] /\ ItemAt(v, i) = BlockItems(v)[i]
      BY <2>2, <2>3, Zenon DEF Part, ItemAt, c
    <3> QED
      BY <2>1, <2>2, <2>3, <3>1
  <2>4. CASE ~(i <= c)
    <3>1. Part(v, i) = << 0 >> /\ ItemAt(v, i) = Res(0, FALSE, << >>)
      BY <2>2, <2>4, Zenon DEF Part, ItemAt, c
    <3> QED
      BY <2>1, <2>4, <3>1
  <2> QED
    BY <2>3, <2>4
<1> HIDE DEF t, it, n, m
<1>7. \A i \in 1..n : IsRes(t[i], it[i])
  BY <1>1, <1>6 DEF IsRes
<1>8. BlockItems(v)[4] = Res(END_TAG, FALSE, << >>) /\ BlockItems(v)[4].type = END_TAG
  BY DEF BlockItems, Res
<1>9. \A i \in 1..m : i # m => it[i].type # END_TAG
  <2> SUFFICES ASSUME NEW i \in 1..m, i # m PROVE it[i].type # END_TAG
    OBVIOUS
  <2>1. i \in 1..n /\ (i <= c => i # 4)
    BY <1>3, <1>4, <1>5
  <2>2. Res(0, FALSE, << >>).type # END_TAG
    BY DEF Res, END_TAG
  <2> QED
    BY <1>1, <1>6, <2>1, <2>2
<1>10. m = n \/ it[m].type = END_TAG
  <2>1. v.ended => m \in 1..n /\ m = 4 /\ m <= c
    BY <1>4, <1>5
  <2> QED
    BY <1>3, <1>5, <1>6, <1>8, <2>1
<1>11. r = [i \in 1..m |-> it[i]]
  <2>1. EndsAt(n, m, t, it)
    BY <1>5, <1>7, <1>9, <1>10 DEF EndsAt
  <2> QED
    BY <1>2, <2>1, ResourcesOf
<1> HIDE DEF r
<1>12. r = [i \in 1..m |-> r[i]] /\ Len(r) = m /\ \A i \in 1..m : r[i] = it[i]
  BY <1>5, <1>11
<1>13. 1 \in 1..n /\ 2 \in 1..n /\ 3 \in 1..n /\ 1 \in 1..m /\ 2 \in 1..m /\ 3 \in 1..m
  BY <1>5
<1>14. r[1] = BlockItems(v)[1] /\ r[2] = BlockItems(v)[2] /\ r[3] = BlockItems(v)[3]
  <2>1. 1 <= c /\ 2 <= c /\ 3 <= c
    BY <1>5
  <2>2. it[1] = BlockItems(v)[1] /\ it[2] = BlockItems(v)[2] /\ it[3] = BlockItems(v)[3]
    BY <1>6, <1>13, <2>1
  <2>3. r[1] = it[1] /\ r[2] = it[2] /\ r[3] = it[3]
    BY <1>12, <1>13
  <2> QED
    BY <2>2, <2>3
<1>15. r[1] = LargeRes(2, v.id) /\ r[2] = LargeRes(16, BlockRo(v)) /\ r[3] = LargeRes(17, FieldsOf(v.rw))
  BY <1>14 DEF BlockItems
<1>16. ASSUME NEW i \in 4..m PROVE r[i] = Res(IF v.ended THEN END_TAG ELSE 0, FALSE, << >>)
  <2>1. i \in 1..n /\ i \in 1..m
    BY <1>5
  <2>2. CASE v.ended
    <3>1. i = 4 /\ i <= c
      BY <1>4, <1>5, <2>2
    <3> QED
      BY <1>6, <1>8, <1>12, <2>1, <2>2, <3>1
  <2>3. CASE ~v.ended
    <3>1. ~(i <= c)
      BY <1>4, <2>3
    <3> QED
      BY <1>6, <1>12, <2>1, <2>3, <3>1
  <2> QED
    BY <1>3, <2>2, <2>3
<1>17. m \in Nat
  BY <1>5
<1>18. Sees(v, m, r)
  BY <1>5, <1>12, <1>15, <1>16, <1>17 DEF Sees
<1> QED
  BY <1>18 DEF r, b

-----------------------------------------------------------------------------
(* What info prints of a block that fits.                                   *)

\* The lines.
Line == ({"id"} \cup (Byte \X Byte)) \X Seq(Byte)

\* No text has a zero.
IsClean(data) == \A j \in DOMAIN data : data[j] # 0
CleanTexts(n, kw, data) == \A i \in 1..n : kw[i] \in TextKeywords => IsClean(data[i])

\* A text without a zero is printed as it is.
LEMMA CleanString == ASSUME NEW data, IsClean(data) PROVE AsString(data) = data
<1> DEFINE zeros == {i \in DOMAIN data : data[i] = 0}
<1>1. zeros = {}
  BY DEF IsClean
<1>2. AsString(data) = IF zeros = {} THEN data ELSE SubSeq(data, 1, Min(zeros) - 1)
  BY Zenon DEF AsString
<1> QED
  BY <1>1, <1>2

\* The lines of the fields of an area.
LineOf(kw, data)   == <<kw, IF kw \in TextKeywords THEN data ELSE << >>>>
Shown(n, kw, data) == [i \in 1..n |-> LineOf(kw[i], data[i])]

\* An area is printed field by field.
LEMMA PrintedArea ==
    ASSUME NEW b, NEW n, NEW kw, NEW data, NEW at, Finds(b, n, kw, data, at),
           CleanTexts(n, kw, data), NEW tag, tag \in {16, 17}
    PROVE  Printed(LargeRes(tag, b)) = Shown(n, kw, data)
<1> DEFINE x  == LargeRes(tag, b)
           fs == Scan(b)
<1>1. x.type = tag /\ x.data = b
  BY DEF LargeRes, Res
<1>2. fs = Items(n, kw, data, at) /\ n \in Nat
  BY DEF Finds
<1>3. DOMAIN fs = 1..n /\ \A i \in 1..n : fs[i].kw = kw[i] /\ fs[i].data = data[i]
  BY <1>2 DEF Items, Found
<1> HIDE DEF x
<1>4. Printed(x) = [i \in DOMAIN fs |-> <<fs[i].kw, IF fs[i].kw \in TextKeywords
                                                    THEN AsString(fs[i].data) ELSE << >>>>]
  <2>1. x.type \in {16, 17} /\ x.type # 2
    BY <1>1
  <2>2. Printed(x) = [i \in DOMAIN Scan(x.data) |->
            <<Scan(x.data)[i].kw, IF Scan(x.data)[i].kw \in TextKeywords
                                  THEN AsString(Scan(x.data)[i].data) ELSE << >>>>]
    BY <2>1 DEF Printed
  <2> QED
    BY <1>1, <2>2
<1> HIDE DEF fs
<1>5. ASSUME NEW i \in 1..n
      PROVE  <<fs[i].kw, IF fs[i].kw \in TextKeywords THEN AsString(fs[i].data) ELSE << >>>>
             = LineOf(kw[i], data[i])
  <2>1. fs[i].kw = kw[i] /\ fs[i].data = data[i]
    BY <1>3
  <2>2. kw[i] \in TextKeywords => AsString(data[i]) = data[i]
    BY CleanString DEF CleanTexts
  <2> QED
    BY <2>1, <2>2 DEF LineOf
<1> QED
  BY <1>3, <1>4, <1>5 DEF Shown, x

\* The lines of an area that there should be.
Show(fs) == [i \in DOMAIN fs |-> <<fs[i].kw, Text(fs[i])>>]

\* Those of a sequence of fields.
LEMMA ShownArea ==
    ASSUME NEW fs, Area(fs)
    PROVE  /\ CleanTexts(Len(fs), Kw(fs), Data(fs))
           /\ Shown(Len(fs), Kw(fs), Data(fs)) = Show(fs)
           /\ Show(fs) \in Seq(Line) /\ Len(Show(fs)) = Len(fs)
<1> DEFINE n == Len(fs)
<1>1. fs \in Seq([kw : Byte \X Byte, data : Seq(Byte)])
  BY DEF Area
<1>2. n \in Nat /\ DOMAIN fs = 1..n
  BY <1>1
<1>3. \A i \in 1..n : Kw(fs)[i] = fs[i].kw /\ Data(fs)[i] = fs[i].data
  BY DEF Kw, Data
<1>4. CleanTexts(n, Kw(fs), Data(fs))
  <2> SUFFICES ASSUME NEW i \in 1..n, Kw(fs)[i] \in TextKeywords PROVE IsClean(Data(fs)[i])
    BY DEF CleanTexts
  <2>1. \A j \in DOMAIN Text(fs[i]) : Text(fs[i])[j] # 0
    BY <1>2 DEF Area
  <2>2. Text(fs[i]) = Data(fs)[i]
    BY <1>3 DEF Text
  <2> QED
    BY <2>1, <2>2 DEF IsClean
<1>5. \A i \in 1..n : LineOf(Kw(fs)[i], Data(fs)[i]) = <<fs[i].kw, Text(fs[i])>>
  BY <1>3 DEF LineOf, Text
<1>6. Shown(n, Kw(fs), Data(fs)) = Show(fs)
  BY <1>2, <1>5 DEF Shown, Show
<1>7. ASSUME NEW i \in 1..n PROVE <<fs[i].kw, Text(fs[i])>> \in Line
  <2> DEFINE V == [kw : Byte \X Byte, data : Seq(Byte)]
  <2>1. fs \in Seq(V) /\ i \in 1..Len(fs)
    BY <1>1
  <2> HIDE DEF V
  <2>2. fs[i] \in V
    BY <2>1
  <2>3. fs[i].kw \in Byte \X Byte /\ fs[i].data \in Seq(Byte)
    BY <2>2 DEF V
  <2>4. << >> \in Seq(Byte)
    OBVIOUS
  <2>5. Text(fs[i]) \in Seq(Byte)
    BY <2>3, <2>4 DEF Text
  <2> QED
    BY <2>3, <2>5 DEF Line
<1>8. Show(fs) \in [1..n -> Line]
  BY <1>2, <1>7 DEF Show
<1> HIDE DEF n
<1>9. Show(fs) \in Seq(Line) /\ Len(Show(fs)) = n
  BY <1>2, <1>8
<1> QED
  BY <1>4, <1>6, <1>9 DEF n

\* A read-only area ends with the line of its checksum.
RvLine == <<<<RV, << >>>>>>

\* They are those of its fields, and that of the checksum.
LEMMA ShownRo ==
    ASSUME NEW fs, Area(fs), NEW fill, NEW ck
    PROVE  /\ CleanTexts(Len(fs) + 1, RoKw(fs), RoData(fs, fill, ck))
           /\ Shown(Len(fs) + 1, RoKw(fs), RoData(fs, fill, ck)) = Show(fs) \o RvLine
           /\ RvLine \in Seq(Line)
<1> DEFINE n == Len(fs)
           w == RoKw(fs)
           d == RoData(fs, fill, ck)
           a == Show(fs)
           l == <<RV, << >>>>
           s == Shown(n + 1, w, d)
<1>1. /\ CleanTexts(n, Kw(fs), Data(fs)) /\ Shown(n, Kw(fs), Data(fs)) = a
      /\ a \in Seq(Line) /\ Len(a) = n
  BY ShownArea
<1>2. n \in Nat
  BY FieldsArea
<1>3. w[n + 1] = RV /\ d[n + 1] = Filled(fill, ck)
  BY <1>2 DEF RoKw, RoData
<1>4. \A i \in 1..n : w[i] = Kw(fs)[i] /\ d[i] = Data(fs)[i]
  <2> SUFFICES ASSUME NEW i \in 1..n PROVE w[i] = Kw(fs)[i] /\ d[i] = Data(fs)[i]
    OBVIOUS
  <2>1. i \in 1..n + 1 /\ i # n + 1
    BY <1>2
  <2> QED
    BY <2>1 DEF RoKw, RoData
<1>5. RV \notin TextKeywords
  BY DEF RV, TextKeywords, PN, SN, YA
<1>6. l \in Line
  <2>1. RV \in Byte \X Byte
    BY DEF RV, Byte
  <2>2. << >> \in Seq(Byte)
    OBVIOUS
  <2> QED
    BY <2>1, <2>2 DEF Line
<1>7. LineOf(RV, Filled(fill, ck)) = l
  BY <1>5 DEF LineOf
<1> HIDE DEF n, w, d, a, l
<1>8. \A i \in 1..n + 1 : i \in 1..n \/ i = n + 1
  BY <1>2
<1>9. CleanTexts(n + 1, w, d)
  BY <1>1, <1>3, <1>4, <1>5, <1>8 DEF CleanTexts
<1>10. s[n + 1] = l
  <2>1. n + 1 \in 1..n + 1
    BY <1>2
  <2> QED
    BY <1>3, <1>7, <2>1 DEF Shown
<1>11. \A i \in 1..n : s[i] = a[i]
  <2> SUFFICES ASSUME NEW i \in 1..n PROVE s[i] = a[i]
    OBVIOUS
  <2>1. i \in 1..n + 1
    BY <1>2
  <2>2. s[i] = LineOf(w[i], d[i])
    BY <2>1 DEF Shown
  <2>3. a[i] = LineOf(Kw(fs)[i], Data(fs)[i])
    BY <1>1 DEF Shown
  <2> QED
    BY <1>4, <2>2, <2>3
<1>12. DOMAIN s = 1..n + 1
  BY DEF Shown
<1>13. s = a \o <<l>>
  <2>1. \A i \in 1..n : a[i] \in Line
    BY <1>1
  <2>2. s \in [1..n + 1 -> Line]
    <3>1. \A i \in 1..n + 1 : s[i] \in Line
      BY <1>6, <1>8, <1>10, <1>11, <2>1
    <3>2. s = [i \in 1..n + 1 |-> s[i]]
      BY DEF Shown
    <3> HIDE DEF s
    <3> QED
      BY <3>1, <3>2
  <2> HIDE DEF s
  <2> DEFINE t == <<l>>
             u == a \o t
  <2>3. t \in Seq(Line) /\ Len(t) = 1 /\ t[1] = l
    BY <1>6
  <2> HIDE DEF t
  <2>4. /\ u \in Seq(Line) /\ Len(u) = Len(a) + Len(t)
        /\ \A i \in 1..Len(a) : u[i] = a[i]
        /\ \A i \in 1..Len(t) : u[Len(a) + i] = t[i]
    <3>1. a \in Seq(Line) /\ t \in Seq(Line)
      BY <1>1, <2>3
    <3> QED
      BY <3>1, Concat
  <2> HIDE DEF u
  <2>5. s \in Seq(Line) /\ Len(s) = n + 1
    BY <1>2, <2>2
  <2>6. Len(u) = n + 1 /\ u[n + 1] = l
    BY <1>1, <1>2, <2>3, <2>4
  <2>7. \A i \in 1..n : u[i] = a[i]
    BY <1>1, <2>4
  <2>8. \A i \in 1..n + 1 : s[i] = u[i]
    BY <1>8, <1>10, <1>11, <2>6, <2>7
  <2>9. Len(s) = Len(u) /\ \A i \in 1..Len(s) : s[i] = u[i]
    BY <2>5, <2>6, <2>8
  <2>10. s = u
    BY <2>4, <2>5, <2>9, SameItems
  <2> QED
    BY <2>10 DEF u, t
<1>14. RvLine \in Seq(Line)
  BY <1>6 DEF RvLine, l
<1> QED
  BY <1>9, <1>13, <1>14 DEF n, w, d, a, l, RvLine

\* Info does not terminate a string through a null pointer in an area whose first
\* field has data.
NoNull(b) == ~(Scan(b) # << >> /\ Scan(b)[1].data = << >>)

\* The first field that the scanner finds is the first one.
LEMMA FindsNoNull ==
    ASSUME NEW b, NEW n, NEW kw, NEW data, NEW at, Finds(b, n, kw, data, at),
           n = 0 \/ data[1] # << >>
    PROVE  NoNull(b)
<1>1. Scan(b) = Items(n, kw, data, at) /\ n \in Nat
  BY DEF Finds
<1>2. CASE n = 0
  <2>1. 1..n = {}
    BY <1>2
  <2>2. Items(n, kw, data, at) = << >>
    BY <2>1 DEF Items
  <2> QED
    BY <1>1, <2>2 DEF NoNull
<1>3. CASE n # 0
  <2>1. 1 \in 1..n
    BY <1>1, <1>3
  <2>2. Items(n, kw, data, at)[1] = Found(kw[1], data[1], at[1])
    BY <2>1 DEF Items
  <2>3. Items(n, kw, data, at)[1].data = data[1]
    BY <2>2 DEF Found
  <2> QED
    BY <1>1, <1>3, <2>3 DEF NoNull
<1> QED
  BY <1>2, <1>3

\* The checksum of v, and the space that is left after it.
CheckOf(v) == Checksum(v.id, v.ro, v.fill)

\* There is room for it.
LEMMA CheckFits == ASSUME NEW v, Fits(v) PROVE IsFill(v.fill, CheckOf(v))
<1>1. IsHead(v.id, v.ro, v.fill)
  BY FitsParts
<1>2. Checksum(v.id, v.ro, v.fill) \in Byte
  BY <1>1, CheckByte
<1> QED
  BY <1>1, <1>2 DEF IsHead, IsFill, CheckOf

\* The fields of the two areas of a block that fits.
RoFound(v, at) == Finds(BlockRo(v), Len(v.ro) + 1, RoKw(v.ro), RoData(v.ro, v.fill, CheckOf(v)), at)
RwFound(v, at) == Finds(FieldsOf(v.rw), Len(v.rw), Kw(v.rw), Data(v.rw), at)

\* The scanner finds them.
LEMMA AreasFound ==
    ASSUME NEW v, Fits(v)
    PROVE  (\E at : RoFound(v, at)) /\ (\E at : RwFound(v, at))
<1>1. Area(v.ro) /\ Area(v.rw) /\ IsFill(v.fill, CheckOf(v))
  BY FitsParts, CheckFits DEF IsHead
<1>2. Len(v.ro) + 1 \in Nat /\ Len(v.rw) \in Nat
  <2>1. Len(v.ro) \in Nat /\ Len(v.rw) \in Nat
    BY <1>1, FieldsArea
  <2> QED
    BY <2>1
<1>3. \E at : RoFound(v, at)
  <2>1. PICK at : AreaOf(Ro(v.ro, v.fill, CheckOf(v)), Len(v.ro) + 1, RoKw(v.ro),
                         RoData(v.ro, v.fill, CheckOf(v)), at)
    BY <1>1, RoArea
  <2>2. Finds(Ro(v.ro, v.fill, CheckOf(v)), Len(v.ro) + 1, RoKw(v.ro),
              RoData(v.ro, v.fill, CheckOf(v)), at)
    <3> DEFINE n == Len(v.ro) + 1
    <3>1. n \in Nat
      BY <1>2
    <3> HIDE DEF n
    <3>2. Finds(Ro(v.ro, v.fill, CheckOf(v)), n, RoKw(v.ro),
                RoData(v.ro, v.fill, CheckOf(v)), at)
      <4>1. AreaOf(Ro(v.ro, v.fill, CheckOf(v)), n, RoKw(v.ro),
                   RoData(v.ro, v.fill, CheckOf(v)), at)
        BY <2>1 DEF n
      <4> QED
        BY <3>1, <4>1, AreaFinds
    <3> QED
      BY <3>2 DEF n
  <2> QED
    BY <2>2 DEF RoFound, BlockRo, CheckOf
<1>4. \E at : RwFound(v, at)
  <2>1. PICK at : AreaOf(FieldsOf(v.rw), Len(v.rw), Kw(v.rw), Data(v.rw), at)
    BY <1>1, FieldsArea
  <2>2. Finds(FieldsOf(v.rw), Len(v.rw), Kw(v.rw), Data(v.rw), at)
    BY <1>2, <2>1, AreaFinds
  <2> QED
    BY <2>2 DEF RwFound
<1> QED
  BY <1>3, <1>4

\* The first field of an area has data.
LEMMA FirstData ==
    ASSUME NEW v, Fits(v)
    PROVE  /\ RoData(v.ro, v.fill, CheckOf(v))[1] # << >>
           /\ Len(v.rw) = 0 \/ Data(v.rw)[1] # << >>
<1>1. Area(v.ro) /\ Area(v.rw) /\ IsFill(v.fill, CheckOf(v))
  BY FitsParts, CheckFits DEF IsHead
<1>2. ASSUME NEW fs, Area(fs), Len(fs) # 0 PROVE 1 \in 1..Len(fs) /\ Data(fs)[1] # << >>
  <2>1. fs \in Seq([kw : Byte \X Byte, data : Seq(Byte)])
    BY <1>2 DEF Area
  <2>2. 1 \in 1..Len(fs) /\ 1 \in DOMAIN fs
    BY <1>2, <2>1
  <2>3. fs[1].data # << >>
    BY <1>2, <2>2 DEF Area
  <2> QED
    BY <2>2, <2>3 DEF Data
<1>3. Len(v.rw) = 0 \/ Data(v.rw)[1] # << >>
  BY <1>1, <1>2
<1>4. CASE Len(v.ro) = 0
  <2> DEFINE x == Filled(v.fill, CheckOf(v))
             d == RoData(v.ro, v.fill, CheckOf(v))
  <2>1. x \in Seq(Byte) /\ Len(x) = v.fill + 1
    BY <1>1, FilledIs DEF IsField
  <2>2. d[1] = x
    BY <1>4 DEF RoData
  <2>3. v.fill + 1 \in 1..255
    BY <1>1 DEF IsFill
  <2> HIDE DEF x, d
  <2>4. x # << >>
    <3> DEFINE m == v.fill + 1
    <3>3. Len(x) = m /\ m \in 1..255
      BY <2>1, <2>3
    <3> HIDE DEF m
    <3>1. Len(x) # 0
      BY <3>3
    <3>2. Len(<< >>) = 0
      OBVIOUS
    <3> QED
      BY <3>1, <3>2, Zenon
  <2> QED
    BY <1>3, <2>2, <2>4 DEF d
<1>5. CASE Len(v.ro) # 0
  <2>1. Len(v.ro) \in Nat
    BY <1>1, FieldsArea
  <2>2. 1 \in 1..Len(v.ro) + 1 /\ 1 # Len(v.ro) + 1
    BY <1>5, <2>1
  <2>3. RoData(v.ro, v.fill, CheckOf(v))[1] = Data(v.ro)[1]
    BY <2>2 DEF RoData
  <2> QED
    BY <1>1, <1>2, <1>3, <1>5, <2>3
<1> QED
  BY <1>4, <1>5

\* What the four resources of a block that fits are.
LEMMA BlockItem ==
    ASSUME NEW v
    PROVE  /\ BlockItems(v)[1] = LargeRes(2, v.id)
           /\ BlockItems(v)[2] = LargeRes(16, BlockRo(v))
           /\ BlockItems(v)[3] = LargeRes(17, FieldsOf(v.rw))
           /\ BlockItems(v)[4] = Res(END_TAG, FALSE, << >>)
           /\ BlockItems(v)[1].type = 2 /\ BlockItems(v)[1].data = v.id
           /\ BlockItems(v)[2].type = 16 /\ BlockItems(v)[2].data = BlockRo(v)
           /\ BlockItems(v)[3].type = 17 /\ BlockItems(v)[3].data = FieldsOf(v.rw)
           /\ BlockItems(v)[4].type = 15
BY DEF BlockItems, LargeRes, Res, END_TAG

\* Info does not die of a block that fits.
LEMMA BlockNoNull ==
    ASSUME NEW v, Fits(v), NEW m, NEW r, Sees(v, m, r), NEW i \in 1..m
    PROVE  ~NullWrite(r, i)
<1>1. NoNull(BlockRo(v)) /\ NoNull(FieldsOf(v.rw))
  <2>1. RoData(v.ro, v.fill, CheckOf(v))[1] # << >> /\ (Len(v.rw) = 0 \/ Data(v.rw)[1] # << >>)
    BY FirstData
  <2>2. NoNull(BlockRo(v))
    <3>1. PICK at : RoFound(v, at)
      BY AreasFound
    <3> DEFINE n == Len(v.ro) + 1
    <3>2. Finds(BlockRo(v), n, RoKw(v.ro), RoData(v.ro, v.fill, CheckOf(v)), at)
      BY <3>1 DEF RoFound
    <3> HIDE DEF n
    <3> QED
      BY <2>1, <3>2, FindsNoNull
  <2>3. NoNull(FieldsOf(v.rw))
    <3>1. PICK at : RwFound(v, at)
      BY AreasFound
    <3>2. Finds(FieldsOf(v.rw), Len(v.rw), Kw(v.rw), Data(v.rw), at)
      BY <3>1 DEF RwFound
    <3> QED
      BY <2>1, <3>2, FindsNoNull
  <2> QED
    BY <2>2, <2>3
<1>2. v.id # << >>
  BY FitsParts
<1>3. m \in Nat /\ r[1].data = v.id /\ r[1].type = 2
  BY DEF Sees, LargeRes, Res
<1>4. 1 \in 1..i
  OBVIOUS
<1>5. ~(r[i].large /\ \A j \in 1..i : r[j].data = << >>)
  BY <1>2, <1>3, <1>4
<1>6. r[i].type \in {16, 17} => NoNull(r[i].data)
  <2>1. CASE i = 1
    BY <1>3, <2>1
  <2>2. CASE i = 2
    <3>1. r[2].data = BlockRo(v)
      BY DEF Sees, LargeRes, Res
    <3> QED
      BY <1>1, <2>2, <3>1
  <2>3. CASE i = 3
    <3>1. r[3].data = FieldsOf(v.rw)
      BY DEF Sees, LargeRes, Res
    <3> QED
      BY <1>1, <2>3, <3>1
  <2>4. CASE i \in 4..m
    <3>1. r[i].type = 15 \/ r[i].type = 0
      BY <2>4, SeesRest
    <3> QED
      BY <3>1
  <2> QED
    BY <1>3, <2>1, <2>2, <2>3, <2>4
<1> QED
  BY <1>5, <1>6 DEF NullWrite, NoNull

\* Info sums a block up to the zero behind its read-only area, and is content.
LEMMA SumsTo ==
    ASSUME NEW b, NEW n, NEW kw, NEW data, NEW at, Finds(b, n, kw, data, at),
           n # 0, kw[n] = RV,
           NEW r, NEW k, k \in DOMAIN r, r[k].data = b, \A j \in DOMAIN r : r[j].type = 16 <=> j = k,
           NEW c, Sum8(SubSeq(c, 1, Len(b) + 1)) = 0
    PROVE  ~ChecksumIsOff(c, r)
<1> DEFINE fs     == Scan(b)
           areas  == {j \in DOMAIN r : r[j].type = 16}
           all    == UNION {ToSet(Scan(r[i].data)) : i \in areas}
           places == {x.after : x \in {y \in all : y.kw = RV}}
<1>1. /\ b \in Seq(Byte) /\ n \in Nat /\ at[n] = Len(b) /\ fs = Items(n, kw, data, at)
      /\ \A i \in 1..n : at[i] \in Nat /\ at[i] <= Len(b)
  BY DEF Finds
<1>2. areas = {k}
  OBVIOUS
<1>3. all = ToSet(fs)
  <2> HIDE DEF areas, fs
  <2>1. all = ToSet(Scan(r[k].data))
    BY <1>2
  <2> QED
    BY <2>1 DEF fs
<1>4. DOMAIN fs = 1..n /\ \A i \in 1..n : fs[i].kw = kw[i] /\ fs[i].after = at[i]
  BY <1>1 DEF Items, Found
<1> HIDE DEF fs
<1>5. ToSet(fs) = {fs[i] : i \in 1..n}
  BY <1>4 DEF ToSet
<1> HIDE DEF all
<1>6. Len(b) \in places
  <2>1. n \in 1..n
    BY <1>1
  <2>2. fs[n] \in all /\ fs[n].kw = RV /\ fs[n].after = Len(b)
    BY <1>1, <1>3, <1>4, <1>5, <2>1
  <2> QED
    BY <2>2
<1>7. ASSUME NEW p \in places PROVE p \in Nat /\ p <= Len(b)
  <2>1. PICK x \in all : p = x.after
    OBVIOUS
  <2>2. PICK i \in 1..n : x = fs[i]
    BY <1>3, <1>5
  <2> QED
    BY <1>1, <1>4, <2>1, <2>2
<1> HIDE DEF places
<1>8. Max(places) = Len(b)
  <2> DEFINE L == Len(b)
  <2>1. L \in Nat /\ L \in places /\ \A p \in places : p \in Nat /\ p <= L
    BY <1>1, <1>6, <1>7
  <2> HIDE DEF L
  <2>2. \A m \in places : (\A p \in places : m >= p) => m = L
    BY <2>1
  <2>3. \A p \in places : L >= p
    BY <2>1
  <2>4. Max(places) = L
    BY <2>1, <2>2, <2>3 DEF Max
  <2> QED
    BY <2>4 DEF L
<1>9. ChecksumIsOff(c, r) <=> places # {} /\ Sum8(SubSeq(c, 1, Max(places) + 1)) # 0
  BY Zenon DEF ChecksumIsOff, places, all, areas
<1> QED
  BY <1>8, <1>9

\* The verdict of the checksum on a block that fits and has zeros enough.
LEMMA BlockChecks ==
    ASSUME NEW v, Fits(v), v.fill >= Len(v.id) + 5, NEW x \in Nat, NEW n, NEW r, Sees(v, n, r)
    PROVE  ~ChecksumIsOff(Padded(v, x), r)
<1> DEFINE ro == BlockRo(v)
           kw == RoKw(v.ro)
           d  == RoData(v.ro, v.fill, CheckOf(v))
           k  == Len(v.ro) + 1
           z  == Len(FieldsOf(v.ro)) + 4 + v.fill + 1
           c  == Padded(v, x)
           t  == 2
<1>1. IsHead(v.id, v.ro, v.fill) /\ Area(v.ro) /\ IsFill(v.fill, CheckOf(v))
  BY FitsParts, CheckFits DEF IsHead
<1>2. PICK at : Finds(ro, k, kw, d, at)
  BY AreasFound DEF RoFound
<1>3. k # 0 /\ kw[k] = RV
  <2>1. Len(v.ro) \in Nat
    BY <1>1, FieldsArea
  <2> QED
    BY <2>1 DEF RoKw
<1>4. Len(ro) + 1 = z
  <2> DEFINE ck == CheckOf(v)
             F  == FieldsOf(v.ro)
  <2>1. RoIs(Ro(v.ro, v.fill, ck), F, v.fill, ck)
    BY <1>1, RoBytes
  <2>2. ro = Ro(v.ro, v.fill, ck)
    BY DEF BlockRo, CheckOf
  <2> HIDE DEF ck, F, ro
  <2>3. Len(ro) = Len(F) + 4 + v.fill
    BY <2>1, <2>2 DEF RoIs
  <2> QED
    BY <2>3 DEF F
<1>5. Sum8(SubSeq(c, 1, z)) = 0
  <2>1. Starts(c, v.id, v.ro, v.fill, Checksum(v.id, v.ro, v.fill))
    BY PaddedStarts
  <2> DEFINE id == v.id
             fs == v.ro
             fill == v.fill
  <2>2. /\ Starts(c, id, fs, fill, Checksum(id, fs, fill)) /\ IsHead(id, fs, fill)
        /\ fill >= Len(id) + 5 /\ z = Len(FieldsOf(fs)) + 4 + fill + 1
    BY <1>1, <2>1
  <2> HIDE DEF c, z, id, fs, fill
  <2> QED
    BY <2>2, BlockSum
<1>6. r[1].type = 2 /\ r[2].type = 16 /\ r[2].data = ro /\ r[3].type = 17
  BY DEF Sees, LargeRes, Res
<1>7. n \in Nat /\ n >= 3 /\ DOMAIN r = 1..n /\ \A i \in 4..n : r[i].type # 16
  <2>1. n \in Nat /\ n >= 3 /\ r = [i \in 1..n |-> r[i]]
    BY DEF Sees
  <2>2. ASSUME NEW i \in 4..n PROVE r[i].type # 16
    <3>1. r[i].type = 15 \/ r[i].type = 0
      BY <2>2, SeesRest
    <3> QED
      BY <3>1
  <2>3. DOMAIN r = 1..n
    BY <2>1
  <2> QED
    BY <2>1, <2>2, <2>3
<1> HIDE DEF ro, kw, d, k, z, c
<1>8. \A i \in 1..n : i = 1 \/ i = 2 \/ i = 3 \/ i \in 4..n
  BY <1>7
<1>9. \A j \in DOMAIN r : r[j].type = 16 <=> j = t
  BY <1>6, <1>7, <1>8
<1>10. t \in DOMAIN r /\ r[t].data = ro
  BY <1>6, <1>7
<1>11. Sum8(SubSeq(c, 1, Len(ro) + 1)) = 0
  BY <1>4, <1>5
<1> HIDE DEF t
<1>12. ~ChecksumIsOff(c, r)
  BY <1>2, <1>3, <1>9, <1>10, <1>11, SumsTo
<1> QED
  BY <1>12 DEF c

\* The lines of the resources of a block that fits.
LEMMA BlockPrinted ==
    ASSUME NEW v, Fits(v)
    PROVE  /\ Printed(BlockItems(v)[1]) = <<<<"id", v.id>>>>
           /\ Printed(BlockItems(v)[2]) = Show(v.ro) \o RvLine
           /\ Printed(BlockItems(v)[3]) = Show(v.rw)
           /\ Printed(BlockItems(v)[4]) = << >>
           /\ <<<<"id", v.id>>>> \in Seq(Line) /\ Show(v.ro) \in Seq(Line)
           /\ RvLine \in Seq(Line) /\ Show(v.rw) \in Seq(Line)
<1>1. /\ IsHead(v.id, v.ro, v.fill) /\ Area(v.rw) /\ Area(v.ro)
      /\ v.id \in Seq(1..255)
  BY FitsParts DEF IsHead
<1> DEFINE id == v.id
           it == BlockItems(v)
<1>2. /\ it[1] = LargeRes(2, v.id) /\ it[2] = LargeRes(16, BlockRo(v))
      /\ it[3] = LargeRes(17, FieldsOf(v.rw))
      /\ it[1].type = 2 /\ it[1].data = v.id /\ it[4].type = 15
  BY BlockItem
<1> HIDE DEF it
<1>3. Printed(it[1]) = <<<<"id", id>>>> /\ <<<<"id", id>>>> \in Seq(Line)
  <2>1. id \in Seq(1..255) /\ id \in Seq(Byte)
    BY <1>1 DEF IsHead
  <2> HIDE DEF id
  <2>2. \A j \in DOMAIN id : id[j] # 0
    <3> DEFINE V == 1..255
    <3>1. id \in Seq(V) /\ \A x \in V : x # 0
      BY <2>1
    <3> HIDE DEF V
    <3>2. \A j \in DOMAIN id : id[j] \in V
      BY <3>1
    <3> QED
      BY <3>1, <3>2
  <2>3. AsString(id) = id
    BY <2>2, CleanString DEF IsClean
  <2>4. <<"id", id>> \in Line
    BY <2>1 DEF Line
  <2>5. it[1].data = id
    BY <1>2 DEF id
  <2>6. Printed(it[1]) = <<<<"id", AsString(it[1].data)>>>>
    BY <1>2 DEF Printed
  <2> QED
    BY <2>3, <2>4, <2>5, <2>6
<1>4. Printed(it[2]) = Show(v.ro) \o RvLine
  <2> DEFINE n  == Len(v.ro) + 1
             kw == RoKw(v.ro)
             d  == RoData(v.ro, v.fill, CheckOf(v))
             b  == BlockRo(v)
             t  == 16
  <2>1. PICK at : Finds(b, n, kw, d, at)
    BY AreasFound DEF RoFound
  <2>2. CleanTexts(n, kw, d) /\ Shown(n, kw, d) = Show(v.ro) \o RvLine
    BY <1>1, ShownRo
  <2>3. t \in {16, 17}
    OBVIOUS
  <2> HIDE DEF n, kw, d, b, t
  <2>4. Printed(LargeRes(t, b)) = Shown(n, kw, d)
    BY <2>1, <2>2, <2>3, PrintedArea
  <2>5. it[2] = LargeRes(t, b)
    BY <1>2 DEF t, b
  <2> QED
    BY <2>2, <2>4, <2>5
<1>5. Printed(it[3]) = Show(v.rw)
  <2> DEFINE n  == Len(v.rw)
             kw == Kw(v.rw)
             d  == Data(v.rw)
             b  == FieldsOf(v.rw)
             t  == 17
  <2>1. PICK at : Finds(b, n, kw, d, at)
    BY AreasFound DEF RwFound
  <2>2. CleanTexts(n, kw, d) /\ Shown(n, kw, d) = Show(v.rw)
    BY <1>1, ShownArea
  <2>3. t \in {16, 17}
    OBVIOUS
  <2> HIDE DEF n, kw, d, b, t
  <2>4. Printed(LargeRes(t, b)) = Shown(n, kw, d)
    BY <2>1, <2>2, <2>3, PrintedArea
  <2>5. it[3] = LargeRes(t, b)
    BY <1>2 DEF t, b
  <2> QED
    BY <2>2, <2>4, <2>5
<1>6. Printed(it[4]) = << >>
  BY <1>2 DEF Printed
<1>7. Show(v.ro) \in Seq(Line) /\ RvLine \in Seq(Line) /\ Show(v.rw) \in Seq(Line)
  <2>1. Show(v.ro) \in Seq(Line) /\ Show(v.rw) \in Seq(Line)
    BY <1>1, ShownArea
  <2>2. RvLine \in Seq(Line)
    BY <1>1, ShownRo
  <2> QED
    BY <2>1, <2>2
<1> QED
  BY <1>3, <1>4, <1>5, <1>6, <1>7 DEF it, id

\* Together they are the lines there should be.
LEMMA BlockLines ==
    ASSUME NEW v, Fits(v), NEW n, NEW r, Sees(v, n, r), NEW q, q = [i \in 1..n |-> Printed(r[i])]
    PROVE  FlattenSeq(q) = Lines(v)
<1> DEFINE a  == <<<<"id", v.id>>>>
           s  == Show(v.ro)
           z  == RvLine
           w  == Show(v.rw)
           it == BlockItems(v)
           e  == << >>
<1>1. /\ Printed(it[1]) = a /\ Printed(it[2]) = s \o z /\ Printed(it[3]) = w
      /\ a \in Seq(Line) /\ s \in Seq(Line) /\ z \in Seq(Line) /\ w \in Seq(Line)
  BY BlockPrinted
<1>2. Lines(v) = ((a \o s) \o z) \o w
  BY Zenon DEF Lines, Show, RvLine
<1>3. e \in Seq(Line) /\ \A x \in Seq(Line) : x \o e = x
  OBVIOUS
<1>a. r[1] = it[1] /\ r[2] = it[2] /\ r[3] = it[3]
  BY DEF BlockItems, Sees
<1>b. ASSUME NEW i \in 4..n PROVE Printed(r[i]) = e
  <2>1. r[i].type = 15 \/ r[i].type = 0
    BY <1>b, SeesRest
  <2> QED
    BY <2>1 DEF Printed
<1>9. n \in Nat /\ n >= 3 /\ 3 \in 0..n
  BY DEF Sees
<1> HIDE DEF a, s, z, w, it, e
<1> DEFINE sz == s \o z
           as == a \o s
           b  == a \o sz
           m  == b \o w
<1>4. sz \in Seq(Line) /\ b \in Seq(Line) /\ m \in Seq(Line)
  <2>1. sz \in Seq(Line)
    BY <1>1
  <2> HIDE DEF sz
  <2>2. b \in Seq(Line)
    BY <1>1, <2>1
  <2> HIDE DEF b
  <2>3. m \in Seq(Line)
    BY <1>1, <2>2
  <2> QED
    BY <2>1, <2>2, <2>3
<1>5. b = (a \o s) \o z
  <2>1. a \in Seq(Line) /\ s \in Seq(Line) /\ z \in Seq(Line)
    BY <1>1
  <2> QED
    BY <2>1, ConcatAssociative
<1>6. Lines(v) = m
  <2> HIDE DEF b
  <2> QED
    BY <1>2, <1>5
<1>7. q[1] = a /\ q[2] = sz /\ q[3] = w /\ \A i \in 4..n : q[i] = e
  <2>1. 1 \in 1..n /\ 2 \in 1..n /\ 3 \in 1..n /\ 4..n \subseteq 1..n
    BY <1>9
  <2>2. \A i \in 1..n : q[i] = Printed(r[i])
    OBVIOUS
  <2>3. q[1] = a /\ q[2] = s \o z /\ q[3] = w
    BY <1>1, <1>a, <2>1, <2>2, Zenon
  <2>4. \A i \in 4..n : q[i] = e
    BY <1>b, <2>1, <2>2
  <2> QED
    BY <2>3, <2>4
<1> HIDE DEF sz, b, m
<1>8. q \in [1..n -> Seq(Line)]
  <2>1. \A i \in 1..n : i = 1 \/ i = 2 \/ i = 3 \/ i \in 4..n
    BY <1>9
  <2>2. q = [i \in 1..n |-> q[i]]
    OBVIOUS
  <2>3. \A i \in 1..n : q[i] \in Seq(Line)
    BY <1>1, <1>3, <1>4, <1>7, <2>1
  <2> QED
    BY <2>2, <2>3
<1>10. PICK f : Growing(Line, q, n, f) /\ FlattenSeq(q) = f[n]
  <2>1. n >= 1
    BY <1>9
  <2> QED
    BY <1>8, <1>9, <2>1, FlattenIs
<1>11. f[1] = a /\ f[2] = b /\ f[3] = m
  <2>1. f[1] = q[1] /\ \A i \in 2..n : f[i] = f[i - 1] \o q[i]
    BY <1>10 DEF Growing
  <2>2. f[1] = a
    BY <1>7, <2>1
  <2>3. f[2] = f[1] \o q[2]
    <3>1. 2 \in 2..n /\ 2 - 1 = 1
      BY <1>9
    <3> QED
      BY <2>1, <3>1
  <2>4. f[3] = f[2] \o q[3]
    <3>1. 3 \in 2..n /\ 3 - 1 = 2
      BY <1>9
    <3> QED
      BY <2>1, <3>1
  <2>5. f[2] = b
    BY <1>7, <2>2, <2>3 DEF b
  <2>6. f[3] = m
    BY <1>7, <2>4, <2>5 DEF m
  <2> QED
    BY <2>2, <2>5, <2>6
<1> DEFINE S == {i \in 0..n : i >= 3 => f[i] = m}
<1>12. 0 \in S
  BY <1>9
<1>13. ASSUME NEW i \in S, i < n PROVE i + 1 \in S
  <2>1. i + 1 \in 0..n
    BY <1>9, <1>13
  <2>2. CASE i + 1 = 3
    BY <1>11, <2>1, <2>2
  <2>3. CASE i >= 3
    <3>1. i + 1 \in 2..n /\ i + 1 \in 4..n /\ (i + 1) - 1 = i
      BY <1>9, <1>13, <2>3
    <3>2. f[i + 1] = f[i] \o q[i + 1]
      BY <1>10, <3>1 DEF Growing
    <3>3. f[i] = m /\ q[i + 1] = e
      BY <1>7, <2>3, <3>1
    <3>4. f[i + 1] = m
      BY <1>3, <1>4, <3>2, <3>3
    <3> QED
      BY <2>1, <3>4
  <2> QED
    BY <2>1, <2>2, <2>3
<1>14. S \subseteq 0..n
  OBVIOUS
<1> HIDE DEF S
<1>15. S = 0..n
  BY <1>9, <1>12, <1>13, <1>14, Upto
<1>16. f[n] = m
  <2>1. n \in S
    BY <1>9, <1>15
  <2> QED
    BY <1>9, <2>1 DEF S
<1> QED
  BY <1>6, <1>10, <1>16

\* What info shows if it shows the lines of v, with the right verdict.
ShowsIt(v, dump) ==
    /\ dump.lines = Lines(v)
    /\ v.ended /\ v.fill >= Len(v.id) + 5 => dump.result = "ok"
    /\ ~v.ended => dump.result = "fault"

\* That is so of every block that fits, whatever room there is.
LEMMA BlockShown == ASSUME NEW v, Fits(v), NEW z \in Nat PROVE ShowsIt(v, DumpVPD(Padded(v, z)))
<1> DEFINE b    == Padded(v, z)
           r    == Resources(b)
           q    == [i \in DOMAIN r |-> Printed(r[i])]
           dies == {i \in DOMAIN r : NullWrite(r, i)}
           ends == r # << >> /\ Last(r).type = END_TAG
           seen == IF dies = {} THEN r ELSE SubSeq(r, 1, Min(dies) - 1)
<1>1. PICK n : Sees(v, n, r)
  BY PaddedScan
<1> HIDE DEF r
<1>2. n \in Nat /\ n >= 3 /\ n \in 1..n /\ Len(r) = n
  BY <1>1 DEF Sees
<1>3. DOMAIN r = 1..n
  <2>1. r = [i \in 1..n |-> r[i]]
    BY <1>1 DEF Sees
  <2> QED
    BY <2>1
<1>4. dies = {}
  <2>1. \A i \in 1..n : ~NullWrite(r, i)
    BY <1>1, BlockNoNull
  <2> QED
    BY <1>3, <2>1
<1>5. DumpVPD(b) = [lines  |-> FlattenSeq([i \in DOMAIN seen |-> Printed(seen[i])]),
                    result |-> CASE dies # {} -> "crash"
                                 [] dies = {} /\ (~ends \/ ChecksumIsOff(b, r)) -> "fault"
                                 [] OTHER -> "ok"]
  BY Zenon DEF DumpVPD, r
<1> DEFINE printed == FlattenSeq([i \in DOMAIN seen |-> Printed(seen[i])])
           result  == CASE dies # {} -> "crash"
                        [] dies = {} /\ (~ends \/ ChecksumIsOff(b, r)) -> "fault"
                        [] OTHER -> "ok"
<1> HIDE DEF printed, result
<1>6. DumpVPD(b) = [lines |-> printed, result |-> result]
  BY <1>5, Zenon DEF printed, result
<1>7. DumpVPD(b).lines = printed /\ DumpVPD(b).result = result
  BY <1>6
<1> HIDE DEF dies
<1>8. seen = r
  BY <1>4
<1>9. DumpVPD(b).lines = FlattenSeq(q)
  BY <1>7, <1>8, Zenon DEF printed
<1>10. FlattenSeq(q) = Lines(v)
  <2>1. q = [i \in 1..n |-> Printed(r[i])]
    BY <1>3
  <2> HIDE DEF q
  <2> QED
    BY <1>1, <2>1, BlockLines
<1>11. r # << >> /\ Last(r) = r[n]
  <2>1. r # << >>
    BY <1>2
  <2> QED
    BY <1>2, <2>1 DEF Last
<1>12. n = 3 \/ n \in 4..n
  BY <1>2
<1>13. CASE v.ended
  <2>1. n \in 4..n
    BY <1>1, <1>13 DEF Sees
  <2>2. r[n].type = END_TAG
    BY <1>1, <1>13, <2>1, SeesRest DEF END_TAG
  <2>3. ends
    BY <1>11, <2>2
  <2>4. v.fill >= Len(v.id) + 5 => ~ChecksumIsOff(b, r)
    BY <1>1, BlockChecks
  <2> HIDE DEF ends, b
  <2>5. v.fill >= Len(v.id) + 5 => DumpVPD(b).result = "ok"
    BY <1>4, <1>7, <2>3, <2>4 DEF result
  <2> QED
    BY <1>9, <1>10, <1>13, <2>5 DEF ShowsIt, b
<1>14. CASE ~v.ended
  <2>1. r[n].type # END_TAG
    <3>1. CASE n = 3
      <4>1. r[3].type = 17
        BY <1>1 DEF Sees, LargeRes, Res
      <4> QED
        BY <3>1, <4>1 DEF END_TAG
    <3>2. CASE n \in 4..n
      <4>1. r[n].type = 0
        BY <1>1, <1>14, <3>2, SeesRest
      <4> QED
        BY <4>1 DEF END_TAG
    <3> QED
      BY <1>12, <3>1, <3>2
  <2>2. ~ends
    BY <1>11, <2>1
  <2> HIDE DEF ends, b
  <2>3. DumpVPD(b).result = "fault"
    BY <1>4, <1>7, <2>2 DEF result
  <2> QED
    BY <1>9, <1>10, <1>14, <2>3 DEF ShowsIt, b
<1>15. v.ended \in BOOLEAN
  BY FitsParts
<1> QED
  BY <1>13, <1>14, <1>15

\* A VPD in a region that is as large as it or larger is its block and zeros.
LEMMA BytesAre ==
    ASSUME NEW v \in Vpds, NEW room \in Nat, ~(v.size > room)
    PROVE  \E z \in Nat : Bytes(Vpd(v), room) = Padded(Contents[v.name], z)
<1> DEFINE b == Block(Contents[v.name])
           n == v.size
           l == Len(b)
           z == room * UNIT - l
<1>1. UNIT \in Nat /\ n \in Nat /\ l <= n * UNIT /\ Fits(Contents[v.name])
  BY VpdAssumption
<1>2. l \in Nat
  <2>1. b \in Seq(Byte)
    BY <1>1, BlockPieces DEF Pieces
  <2> HIDE DEF b
  <2> QED
    BY <2>1
<1>3. Bytes(Vpd(v), room) = b \o Blank(z)
  BY DEF Bytes, Vpd
<1> HIDE DEF b, l
<1>4. n * UNIT <= room * UNIT
  <2>1. \E d \in Nat : room = n + d
    <3>1. room - n \in Nat /\ room = n + (room - n)
      BY <1>1
    <3> QED
      BY <3>1
  <2>2. PICK d \in Nat : room = n + d
    BY <2>1
  <2> DEFINE u == UNIT
  <2>3. u \in Nat /\ n \in Nat
    BY <1>1
  <2> HIDE DEF u, n
  <2>4. room * u = n * u + d * u
    BY <2>2, <2>3
  <2>5. d * u \in Nat /\ n * u \in Nat
    BY <2>3
  <2> QED
    BY <2>4, <2>5 DEF u
<1>5. room * UNIT \in Nat /\ n * UNIT \in Nat
  BY <1>1
<1>6. z \in Nat
  BY <1>1, <1>2, <1>4, <1>5
<1> QED
  BY <1>3, <1>6 DEF Padded, b

\* So it is of a VPD in a region that has room for it.
LEMMA RegionShown ==
    ASSUME NEW v \in Vpds, NEW room \in Nat, ~(v.size > room)
    PROVE  ShowsIt(Contents[v.name], DumpVPD(Bytes(Vpd(v), room)))
<1>1. PICK z \in Nat : Bytes(Vpd(v), room) = Padded(Contents[v.name], z)
  BY BytesAre
<1>2. Fits(Contents[v.name])
  BY VpdAssumption
<1> QED
  BY <1>1, <1>2, BlockShown

\* Where there is no extended region, the standard one is shown.
LEMMA StdShown ==
    ASSUME NEW old, NEW v \in Vpds, NEW f, IsSet(old, v, f), KnownExt(old) = {}
    PROVE  ShowsIt(Contents[v.name], StdVpd(f))
<1>1. Target(old, "vpd") = VPD
  BY DEF Target, MacParams
<1>2. L32(f, VPD) = Vpd(v)
  BY <1>1, SetWord
<1>3. Room(old, "vpd") = 1
  BY <1>1 DEF Room
<1>4. ~(v.size > 1)
  BY <1>3 DEF IsSet
<1>5. ShowsIt(Contents[v.name], DumpVPD(Bytes(Vpd(v), 1)))
  BY <1>4, RegionShown
<1> QED
  BY <1>2, <1>5 DEF StdVpd

\* Where set and info take the same one, that is shown.
LEMMA ExtShown ==
    ASSUME NEW old, NEW v \in Vpds, NEW f, IsSet(old, v, f), KnownExt(old) # {},
           ShownExt(f) # {}, Max(ShownExt(old)) = Min(KnownExt(old))
    PROVE  ShowsIt(Contents[v.name], InfoExtVpd(f))
<1> DEFINE at == Target(old, "vpd")
           e  == Min(KnownExt(old))
<1>1. /\ L32(f, at) = Vpd(v)
      /\ KnownExt(old) \subseteq 5..6
      /\ \A i \in KnownExt(old) : /\ Offset(old, i) >= 17 /\ Offset(old, i) \in Nat
                                  /\ Size(old, i) \in Nat
      /\ SameEntries(old, f)
  BY SetWord
<1>2. e \in KnownExt(old) /\ ExtEntry(old) = e
  BY <1>1, FirstEntry DEF ExtEntry
<1>3. e \in 5..6 /\ Offset(old, e) >= 17 /\ Offset(old, e) \in Nat /\ Size(old, e) \in Nat
  BY <1>1, <1>2
<1>4. at = Offset(old, e)
  BY <1>2 DEF Target, MacParams
<1>5. Room(old, "vpd") = Size(old, e)
  BY <1>2, <1>3, <1>4, Offsets DEF Room
<1>6. ShownExt(f) = ShownExt(old) /\ Size(f, e) = Size(old, e) /\ Offset(f, e) = Offset(old, e)
  BY <1>1, <1>3, SameRegions
<1>7. ShownExt(f) \subseteq 5..6
  BY Words DEF ShownExt
<1>8. ShownEntry(f) = e
  BY <1>6, <1>7, FirstEntry DEF ShownEntry
<1> HIDE DEF e
<1>9. ExtVpd(f) = Vpd(v)
  BY <1>1, <1>4, <1>6, <1>8 DEF ExtVpd
<1> DEFINE room == Size(old, e)
<1>10. room \in Nat /\ ~(v.size > room)
  BY <1>3, <1>5 DEF IsSet
<1>11. InfoExtVpd(f) = DumpVPD(Bytes(Vpd(v), room))
  BY <1>6, <1>8, <1>9 DEF InfoExtVpd
<1> HIDE DEF room
<1> QED
  BY <1>10, <1>11, RegionShown

\* Where these are two regions, info shows what it showed before.
LEMMA ExtKept ==
    ASSUME NEW old, NEW v, NEW f, IsSet(old, v, f), KnownExt(old) # {},
           Offset(old, Max(ShownExt(old))) # Offset(old, Min(KnownExt(old)))
    PROVE  ExtVpd(f) = ExtVpd(old)
<1> DEFINE at == Target(old, "vpd")
           e  == Min(KnownExt(old))
           s  == Max(ShownExt(old))
<1>1. /\ \A j \in Int : j # at => L32(f, j) = L32(old, j)
      /\ KnownExt(old) \subseteq 5..6
      /\ \A i \in KnownExt(old) : /\ Offset(old, i) >= 17 /\ Offset(old, i) \in Nat
                                  /\ Size(old, i) \in Nat
      /\ SameEntries(old, f)
  BY SetWord
<1>2. e \in KnownExt(old) /\ ExtEntry(old) = e
  BY <1>1, FirstEntry DEF ExtEntry
<1>3. at = Offset(old, e)
  BY <1>2 DEF Target, MacParams
<1>4. ShownExt(old) \subseteq 5..6 /\ ShownExt(old) # {}
  <2>1. Offset(old, e) >= 17 /\ Size(old, e) \in Nat
    BY <1>1, <1>2
  <2>2. Room(old, "vpd") = Size(old, e)
    BY <1>2, <1>3, <2>1, Offsets DEF Room
  <2>3. Size(old, e) # 0
    BY <2>1, <2>2 DEF IsSet
  <2>4. e \in ShownExt(old)
    BY <1>2, <2>3 DEF KnownExt, ShownExt
  <2>5. ShownExt(old) \subseteq 5..6
    BY Words DEF ShownExt
  <2> QED
    BY <2>4, <2>5
<1>5. s \in 5..6 /\ s \in ShownExt(old) /\ ShownEntry(old) = s
  BY <1>4, FirstEntry DEF ShownEntry
<1>6. ShownExt(f) = ShownExt(old) /\ Offset(f, s) = Offset(old, s)
  BY <1>1, <1>5, SameRegions
<1>7. ShownEntry(f) = s
  BY <1>4, <1>6, FirstEntry DEF ShownEntry
<1>8. Offset(old, s) \in Int
  <2>1. s \in KnownExt(old) => Offset(old, s) \in Nat
    BY <1>1
  <2>2. s \in KnownExt(old) \/ Offset(old, s) = 0
    BY <1>5 DEF KnownExt, ShownExt
  <2> QED
    BY <2>1, <2>2
<1>9. L32(f, Offset(old, s)) = L32(old, Offset(old, s))
  <2>1. Offset(old, s) # at
    BY <1>3
  <2> QED
    BY <1>1, <1>8, <2>1
<1> QED
  BY <1>5, <1>6, <1>7, <1>9 DEF ExtVpd

-----------------------------------------------------------------------------
(* The theorem.                                                             *)

(* After `otgimg set' has set the VPD, `otgimg info' shows the lines of that *)
(* VPD, and its verdict on it is right: in the standard region, if there is  *)
(* no other, and in the extended one, if both take the same directory entry  *)
(* and info has found no fault before.  Where the first entry that has an    *)
(* offset and the last one that has a size are of two regions, info shows    *)
(* what it showed before.                                                    *)
THEOREM Shows == Spec => []InfoShowsVpd
<1>1. ExactInv /\ VpdInv => InfoShowsVpd
  <2> SUFFICES ASSUME ExactInv, VpdInv, NEW r \in Runs, spc[r] = "done", before[r] # None,
                      param[r] = "vpd"
               PROVE  LET old   == before[r]
                          first == Min(KnownExt(old))
                          last  == Max(ShownExt(old))
                          set   == Contents[value[r][2].name]
                          shows(dump) ==
                              /\ dump.lines = Lines(set)
                              /\ set.ended /\ set.fill >= Len(set.id) + 5 => dump.result = "ok"
                              /\ ~set.ended => dump.result = "fault"
                      IN  IF KnownExt(old) = {} THEN shows(StdVpd(img))
                          ELSE /\ last = first /\ ReachesExt(img) => shows(InfoExtVpd(img))
                               /\ Offset(old, last) # Offset(old, first) => ExtVpd(img) = ExtVpd(old)
    BY Zenon DEF InfoShowsVpd
  <2>1. spc[r] # "off" /\ "vpd" \in VpdParams
    BY DEF VpdParams
  <2>2. DoneInv(r)
    BY <2>1 DEF ExactInv, AloneInv
  <2>3. Laid(before[r]) /\ img = After(before[r], "vpd", value[r], good[r])
    BY <2>2 DEF DoneInv
  <2>4. Chosen(before[r], "vpd", value[r])
    BY <2>1 DEF VpdInv
  <2>5. PICK v \in Vpds : value[r] = Vpd(v) /\ ~(v.size > Room(before[r], "vpd"))
    BY <2>4 DEF Chosen
  <2>6. v.size \in Nat \ {0}
    BY VpdAssumption
  <2> DEFINE old == before[r]
             f   == img
  <2>7. IsSet(old, v, f)
    BY <2>3, <2>5, <2>6 DEF IsSet
  <2>8. value[r][2].name = v.name
    BY <2>5 DEF Vpd
  <2> HIDE DEF old, f
  <2>9. KnownExt(old) = {} => ShowsIt(Contents[v.name], StdVpd(f))
    BY <2>7, StdShown
  <2>10. KnownExt(old) # {} /\ Max(ShownExt(old)) = Min(KnownExt(old)) /\ ReachesExt(f)
           => ShowsIt(Contents[v.name], InfoExtVpd(f))
    <3>1. ReachesExt(f) => ShownExt(f) # {}
      BY DEF ReachesExt
    <3> QED
      BY <2>7, <3>1, ExtShown
  <2>11. KnownExt(old) # {} /\ Offset(old, Max(ShownExt(old))) # Offset(old, Min(KnownExt(old)))
           => ExtVpd(f) = ExtVpd(old)
    BY <2>7, ExtKept
  <2> QED
    BY <2>8, <2>9, <2>10, <2>11, Zenon DEF ShowsIt, old, f
<1> QED
  BY IInvInit, IInvStep, ExactInit, ExactStep, VpdInit, VpdStep, <1>1, PTL DEF Spec

=============================================================================
