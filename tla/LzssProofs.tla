---------------------------- MODULE LzssProofs ----------------------------
(* The compressor keeps its trees and their order, finds matches that are  *)
(* matches, and the longest, and what it puts out decodes to what it has   *)
(* read, for all constants.                                                *)
EXTENDS Lzss, SequenceTheorems, WellFoundedInduction, TLAPS

-----------------------------------------------------------------------------
(* Numbers and recursive functions.                                       *)

(* Induction and recursion over the naturals, in terms of sets.             *)

\* A set of numbers has a least one.
LEMMA LeastNat ==
    ASSUME NEW T, T \subseteq Nat, T # {}
    PROVE  \E x \in T : \A y \in T : x <= y
<1> DEFINE R == OpToRel(<, Nat)
<1>1. IsWellFoundedOn(R, Nat)
  BY NatLessThanWellFounded
<1>2. \A a, b \in Nat : <<a, b>> \in R <=> a < b
  BY DEF OpToRel
<1> HIDE DEF R
<1>3. \E x \in T : \A y \in T : ~(<<y, x>> \in R)
  BY <1>1, WFMin
<1>4. PICK x \in T : \A y \in T : ~(<<y, x>> \in R)
  BY <1>3
<1>5. \A y \in T : ~(y < x)
  BY <1>2, <1>4
<1>6. \A y \in T : x <= y
  BY <1>5, x \in Nat, \A y \in T : y \in Nat
<1> QED
  BY <1>6

\* Induction: a set of numbers that has 0, and with a number the next, has them all.
LEMMA Induct ==
    ASSUME NEW S, S \subseteq Nat, 0 \in S, \A n \in S : n + 1 \in S
    PROVE  S = Nat
<1> SUFFICES ASSUME Nat \ S # {} PROVE FALSE
  OBVIOUS
<1>1. PICK x \in Nat \ S : \A y \in Nat \ S : x <= y
  BY LeastNat
<1>2. x # 0
  BY <1>1
<1>3. x - 1 \in Nat /\ x - 1 < x
  BY <1>2
<1>4. x - 1 \in S
  BY <1>1, <1>3
<1>5. (x - 1) + 1 \in S
  BY <1>4
<1> QED
  BY <1>1, <1>5

\* A function whose value at x is found from its value at nx[x], of smaller rank.
Descends(D, V, m, rank, stop, base, nx, h) ==
    /\ m \in Nat /\ rank \in [D -> 0..m]
    /\ base \in [D -> V] /\ nx \in [D -> D] /\ h \in [D \X V -> V]
    /\ \A x \in D \ stop : rank[nx[x]] < rank[x]

\* There is one.
LEMMA Recursion ==
    ASSUME NEW D, NEW V, NEW m, NEW rank, NEW stop, NEW base, NEW nx, NEW h,
           Descends(D, V, m, rank, stop, base, nx, h)
    PROVE  \E f \in [D -> V] : \A x \in D : f[x] = IF x \in stop THEN base[x] ELSE h[<<x, f[nx[x]]>>]
<1>0. /\ m \in Nat /\ rank \in [D -> 0..m]
      /\ base \in [D -> V] /\ nx \in [D -> D] /\ h \in [D \X V -> V]
      /\ \A x \in D \ stop : rank[nx[x]] < rank[x]
  BY DEF Descends
<1> DEFINE E(n) == {x \in D : rank[x] < n}
           Good(f, n) == \A x \in E(n) : f[x] = IF x \in stop THEN base[x] ELSE h[<<x, f[nx[x]]>>]
           S == {n \in Nat : \E f \in [E(n) -> V] : Good(f, n)}
<1>1. 0 \in S
  <2>1. E(0) = {}
    BY <1>0
  <2>2. [x \in {} |-> x] \in [E(0) -> V] /\ Good([x \in {} |-> x], 0)
    BY <2>1
  <2> QED
    BY <2>2
<1>2. ASSUME NEW n \in S PROVE n + 1 \in S
  <2>1. PICK f \in [E(n) -> V] : Good(f, n)
    OBVIOUS
  <2> DEFINE g == [x \in E(n + 1) |-> IF x \in stop THEN base[x] ELSE h[<<x, f[nx[x]]>>]]
  <2>2. ASSUME NEW x \in E(n + 1), x \notin stop PROVE nx[x] \in E(n)
    BY <1>0, <2>2
  <2>3. g \in [E(n + 1) -> V]
    <3> SUFFICES ASSUME NEW x \in E(n + 1) PROVE g[x] \in V
      OBVIOUS
    <3>1. x \notin stop => f[nx[x]] \in V /\ <<x, f[nx[x]]>> \in D \X V
      BY <2>1, <2>2
    <3> QED
      BY <1>0, <3>1
  <2>4. ASSUME NEW x \in E(n + 1), x \notin stop PROVE g[nx[x]] = f[nx[x]]
    <3>1. nx[x] \in E(n) /\ nx[x] \in E(n + 1)
      BY <1>0, <2>2, <2>4
    <3> QED
      BY <2>1, <3>1
  <2>5. Good(g, n + 1)
    BY <2>4
  <2>6. n + 1 \in Nat
    OBVIOUS
  <2> HIDE DEF Good, E, g
  <2> QED
    BY <2>3, <2>5, <2>6
<1>3. S = Nat
  <2> HIDE DEF Good, E
  <2>1. S \subseteq Nat
    OBVIOUS
  <2> HIDE DEF S
  <2> QED
    BY <1>1, <1>2, <2>1, Induct
<1>4. m + 1 \in S
  <2>1. m + 1 \in Nat
    BY <1>0
  <2> HIDE DEF S
  <2> QED
    BY <1>3, <2>1
<1>5. \A x \in D : rank[x] \in 0..m /\ rank[x] < m + 1
  BY <1>0
<1>6. E(m + 1) = D
  BY <1>5
<1>7. PICK f \in [E(m + 1) -> V] : Good(f, m + 1)
  BY <1>4
<1> QED
  BY <1>6, <1>7

(* Remainders.                                                              *)

\* Quotients and remainders.
LEMMA ModOf ==
    ASSUME NEW m \in Nat \ {0}, NEW q \in Nat, NEW t \in 0..m-1
    PROVE  (q * m + t) % m = t /\ (q * m + t) \div m = q
OBVIOUS

\* Every number has a quotient and a remainder.
LEMMA ModParts ==
    ASSUME NEW m \in Nat \ {0}, NEW a \in Nat
    PROVE  \E q \in Nat : \E t \in 0..m-1 : a = q * m + t
<1> DEFINE S == {n \in Nat : \E q \in Nat : \E t \in 0..m-1 : n = q * m + t}
<1>1. 0 \in S
  <2>1. 0 = 0 * m + 0 /\ 0 \in 0..m-1
    OBVIOUS
  <2> QED
    BY <2>1
<1>2. ASSUME NEW n \in S PROVE n + 1 \in S
  <2>1. PICK q \in Nat, t \in 0..m-1 : n = q * m + t
    OBVIOUS
  <2>2. q * m \in Nat /\ (q + 1) * m = q * m + m /\ q + 1 \in Nat
    OBVIOUS
  <2>3. CASE t < m - 1
    <3>1. t + 1 \in 0..m-1 /\ n + 1 = q * m + (t + 1) /\ n + 1 \in Nat
      BY <2>1, <2>2, <2>3
    <3> QED
      BY <3>1, Zenon
  <2>4. CASE t = m - 1
    <3>1. 0 \in 0..m-1 /\ n + 1 = (q + 1) * m + 0
      BY <2>1, <2>2, <2>4
    <3>2. n + 1 \in Nat
      OBVIOUS
    <3> QED
      BY <2>2, <3>1, <3>2, Zenon
  <2> QED
    BY <2>3, <2>4
<1>3. S \subseteq Nat
  OBVIOUS
<1> HIDE DEF S
<1>4. S = Nat
  BY <1>1, <1>2, <1>3, Induct
<1>5. a \in S
  BY <1>4
<1> QED
  BY <1>5 DEF S

\* They are numbers, and make up the number.
LEMMA ModRange ==
    ASSUME NEW m \in Nat \ {0}, NEW a \in Nat
    PROVE  /\ a % m \in 0..m-1 /\ a \div m \in Nat
           /\ (a \div m) * m \in Nat /\ a = ((a \div m) * m) + (a % m)
<1>1. PICK q \in Nat, t \in 0..m-1 : a = q * m + t
  BY ModParts
<1>2. (q * m + t) % m = t /\ (q * m + t) \div m = q
  BY ModOf
<1>3. a % m = t /\ a \div m = q
  BY <1>1, <1>2
<1>4. q * m \in Nat
  OBVIOUS
<1> QED
  BY <1>1, <1>3, <1>4

\* What is less than the divisor is its own remainder.
LEMMA ModSmall ==
    ASSUME NEW m \in Nat \ {0}, NEW a \in 0..m-1
    PROVE  a % m = a
<1>1. (0 * m + a) % m = a
  BY ModOf
<1> QED
  BY <1>1

\* A turn more leaves the remainder.
LEMMA ModPeriod ==
    ASSUME NEW m \in Nat \ {0}, NEW a \in Nat
    PROVE  (a + m) % m = a % m
<1>1. PICK q \in Nat, t \in 0..m-1 : a = q * m + t
  BY ModParts
<1>2. q * m \in Nat /\ (q + 1) * m = q * m + m /\ q + 1 \in Nat
  OBVIOUS
<1>3. a + m = (q + 1) * m + t
  BY <1>1, <1>2
<1>4. ((q + 1) * m + t) % m = t /\ (q * m + t) % m = t
  BY <1>2, ModOf
<1> QED
  BY <1>1, <1>3, <1>4

\* Two numbers less than a turn apart have remainders of their own.
LEMMA ModUnique ==
    ASSUME NEW m \in Nat \ {0}, NEW a \in Nat, NEW b \in Nat, a <= b, b < a + m, a % m = b % m
    PROVE  a = b
<1>1. PICK q \in Nat, t \in 0..m-1 : a = q * m + t
  BY ModParts
<1>2. PICK p \in Nat, u \in 0..m-1 : b = p * m + u
  BY ModParts
<1>3. t = u
  <2>1. (q * m + t) % m = t /\ (p * m + u) % m = u
    BY ModOf
  <2> QED
    BY <1>1, <1>2, <2>1
<1>4. \A x \in Nat, y \in Nat : x < y => x * m + m <= y * m
  <2> SUFFICES ASSUME NEW x \in Nat, NEW y \in Nat, x < y PROVE x * m + m <= y * m
    OBVIOUS
  <2>1. PICK e \in Nat : y = x + 1 + e
    <3>1. y - x - 1 \in Nat /\ y = x + 1 + (y - x - 1)
      OBVIOUS
    <3> QED
      BY <3>1
  <2>2. y * m = x * m + m + e * m /\ e * m \in Nat /\ x * m \in Nat
    BY <2>1
  <2> QED
    BY <2>2
<1>5. q * m \in Nat /\ p * m \in Nat
  OBVIOUS
<1>6. ~(q < p) /\ ~(p < q)
  BY <1>1, <1>2, <1>3, <1>4, <1>5
<1> QED
  BY <1>1, <1>2, <1>3, <1>6

\* A remainder and what is added to it go round at most once.
LEMMA ModPlus ==
    ASSUME NEW m \in Nat \ {0}, NEW a \in Nat, NEW j \in 0..m-1
    PROVE  /\ (a % m) + j < m => (a + j) % m = (a % m) + j
           /\ (a % m) + j >= m => (a + j) % m = ((a % m) + j) - m /\ a + j >= m
<1>1. PICK q \in Nat, t \in 0..m-1 : a = q * m + t
  BY ModParts
<1>2. a % m = t
  <2>1. (q * m + t) % m = t
    BY ModOf
  <2> QED
    BY <1>1, <2>1
<1>3. q * m \in Nat /\ (q + 1) * m = q * m + m /\ q + 1 \in Nat
  OBVIOUS
<1>4. ASSUME t + j < m PROVE (a + j) % m = t + j
  <2>1. t + j \in 0..m-1 /\ a + j = q * m + (t + j)
    BY <1>1, <1>3, <1>4
  <2>2. (q * m + (t + j)) % m = t + j
    BY <2>1, ModOf
  <2> QED
    BY <2>1, <2>2
<1>5. ASSUME t + j >= m PROVE (a + j) % m = (t + j) - m /\ a + j >= m
  <2>1. (t + j) - m \in 0..m-1 /\ a + j = (q + 1) * m + ((t + j) - m)
    BY <1>1, <1>3, <1>5
  <2>2. a + j >= m
    BY <1>1, <1>3, <1>5
  <2>3. ((q + 1) * m + ((t + j) - m)) % m = (t + j) - m
    BY <1>3, <2>1, ModOf
  <2> QED
    BY <2>1, <2>2, <2>3
<1> QED
  BY <1>2, <1>4, <1>5

\* The next remainder is that of the next number.
LEMMA ModNext ==
    ASSUME NEW m \in Nat \ {0}, NEW a \in Nat
    PROVE  ((a % m) + 1) % m = (a + 1) % m
<1>1. PICK q \in Nat, t \in 0..m-1 : a = q * m + t
  BY ModParts
<1>2. a % m = t
  <2>1. (q * m + t) % m = t
    BY ModOf
  <2> QED
    BY <1>1, <2>1
<1>3. q * m \in Nat /\ (q + 1) * m = q * m + m /\ q + 1 \in Nat
  OBVIOUS
<1>4. CASE t < m - 1
  <2>1. t + 1 \in 0..m-1 /\ a + 1 = q * m + (t + 1)
    BY <1>1, <1>3, <1>4
  <2>2. (q * m + (t + 1)) % m = t + 1 /\ (t + 1) % m = t + 1
    BY <2>1, ModOf, ModSmall
  <2> QED
    BY <1>2, <2>1, <2>2
<1>5. CASE t = m - 1
  <2>1. 0 \in 0..m-1 /\ a + 1 = (q + 1) * m + 0 /\ t + 1 = 1 * m + 0
    BY <1>1, <1>3, <1>5
  <2>2. ((q + 1) * m + 0) % m = 0 /\ (1 * m + 0) % m = 0
    BY <1>3, <2>1, ModOf
  <2> QED
    BY <1>2, <2>1, <2>2
<1> QED
  BY <1>4, <1>5

\* What is assumed of the constants, one by one.
LEMMA Numbers ==
    /\ N \in Nat /\ N > 0 /\ F \in Nat /\ F > 0 /\ Threshold \in Nat /\ Threshold > 0
    /\ Low \in Nat /\ Low > 0 /\ Group \in Nat /\ Group > 0
    /\ F + F <= N /\ Threshold < F /\ N % Low = 0 /\ Space \in Char /\ Char \subseteq 0..Low-1
    /\ Refs \in Nat /\ Refs > 0 /\ Refs = F - Threshold
BY LzssAssumption DEF Refs

-----------------------------------------------------------------------------
(* The links of the search trees.                                         *)

\* The strings are named by where they begin, and the links have no other nodes.
Strings == 0..N-1
Roots   == {Root(c) : c \in Char}
Att(P)  == {x \in Strings : P[x] # NIL}

\* Nodes link to nodes.
LinkTypes(L, R, P) ==
    /\ L \in [Strings -> Strings \union {NIL}]
    /\ R \in [Strings \union Roots -> Strings \union {NIL}]
    /\ P \in [Strings \union {NIL} -> Strings \union {NIL} \union Roots]
UpInv(P)          == \A x \in Att(P) : P[x] \in Att(P) \union Roots
RootInv(d, R, P)  == \A x \in Att(P) : P[x] \in Roots => P[x] = Root(d[x]) /\ R[P[x]] = x
ChildInv(d, L, R, P) ==
    \A x \in Att(P) : P[x] \notin Roots => d[P[x]] = d[x] /\ (L[P[x]] = x \/ R[P[x]] = x)
LeftInv(L, P)     == \A x \in Att(P) : L[x] # NIL => L[x] \in Att(P) /\ P[L[x]] = x
RightInv(R, P)    == \A x \in Att(P) \union Roots : R[x] # NIL => R[x] \in Att(P) /\ P[R[x]] = x
TwoInv(L, R, P)   == \A x \in Att(P) : L[x] # NIL => L[x] # R[x]

\* Parents and children know each other, and a tree has strings of one first byte.
Links(d, L, R, P) ==
    /\ LinkTypes(L, R, P) /\ UpInv(P) /\ RootInv(d, R, P) /\ ChildInv(d, L, R, P)
    /\ LeftInv(L, P) /\ RightInv(R, P) /\ TwoInv(L, R, P)

\* Nobody is his own ancestor: a rank grows on the way down.
Ranked(P, rk, B) ==
    /\ B \in Nat /\ rk \in [Strings -> 0..B]
    /\ \A x \in Att(P) : P[x] \notin Roots => rk[P[x]] < rk[x]

\* No root is a string, and every first byte has one of its own.
LEMMA RootsAre ==
    /\ NIL \notin Strings /\ NIL \notin Roots
    /\ \A x \in Roots : x \notin Strings
    /\ \A c \in Char : Root(c) \in Roots
    /\ \A b, c \in Char : Root(b) = Root(c) => b = c
BY LzssAssumption DEF Strings, Roots, NIL, Root

\* r is put below p, where nothing hangs.
LEMMA HangLinks ==
    ASSUME NEW d, NEW L, NEW R, NEW P, Links(d, L, R, P),
           NEW r \in Strings, r \notin Att(P), NEW p \in Att(P) \union Roots,
           p \in Roots => p = Root(d[r]),
           p \in Strings => d[p] = d[r],
           NEW L2, NEW R2, NEW P2, LinkTypes(L2, R2, P2),
           \A x \in Strings : P2[x] = IF x = r THEN p ELSE P[x],
           \/ /\ p \in Strings /\ L[p] = NIL
              /\ \A x \in Strings : L2[x] = IF x = r THEN NIL ELSE IF x = p THEN r ELSE L[x]
              /\ \A x \in Strings \union Roots : R2[x] = IF x = r THEN NIL ELSE R[x]
           \/ /\ R[p] = NIL
              /\ \A x \in Strings : L2[x] = IF x = r THEN NIL ELSE L[x]
              /\ \A x \in Strings \union Roots : R2[x] = IF x = r THEN NIL ELSE IF x = p THEN r ELSE R[x]
    PROVE  Links(d, L2, R2, P2) /\ Att(P2) = Att(P) \union {r}
<1>0. /\ p # NIL /\ p # r /\ r \notin Roots /\ NIL \notin Strings /\ Att(P) \subseteq Strings
      /\ \A x \in Roots : x \notin Strings
  BY RootsAre DEF Att
<1>1. Att(P2) = Att(P) \union {r}
  BY <1>0 DEF Att
<1>u. UpInv(P) /\ RootInv(d, R, P) /\ ChildInv(d, L, R, P) /\ LeftInv(L, P) /\ RightInv(R, P) /\ TwoInv(L, R, P)
  BY DEF Links
<1>4. UpInv(P2)
  BY <1>0, <1>1, <1>u DEF UpInv
<1>5. RootInv(d, R2, P2)
  BY <1>0, <1>1, <1>u DEF RootInv, UpInv
<1>6. ChildInv(d, L2, R2, P2)
  BY <1>0, <1>1, <1>u DEF ChildInv, UpInv
<1>7. LeftInv(L2, P2)
  BY <1>0, <1>1, <1>u DEF LeftInv
<1>8. RightInv(R2, P2)
  BY <1>0, <1>1, <1>u DEF RightInv
<1>9. TwoInv(L2, R2, P2)
  BY <1>0, <1>1, <1>u DEF TwoInv, RightInv, LeftInv
<1> QED
  BY <1>1, <1>4, <1>5, <1>6, <1>7, <1>8, <1>9 DEF Links

\* It gets a rank above all others.
LEMMA HangRanked ==
    ASSUME NEW d, NEW L, NEW R, NEW P, Links(d, L, R, P), NEW rk, NEW B, Ranked(P, rk, B),
           NEW r \in Strings, r \notin Att(P), NEW p \in Att(P) \union Roots
    PROVE  Ranked([P EXCEPT ![r] = p], [rk EXCEPT ![r] = B + 1], B + 1)
<1> DEFINE P2 == [P EXCEPT ![r] = p]
           k2 == [rk EXCEPT ![r] = B + 1]
<1>0. /\ p # NIL /\ p # r /\ r \notin Roots /\ NIL \notin Strings /\ Att(P) \subseteq Strings
      /\ \A x \in Roots : x \notin Strings
  BY RootsAre DEF Att
<1>1. Att(P2) = Att(P) \union {r} /\ \A x \in Att(P2) : P2[x] = IF x = r THEN p ELSE P[x]
  BY <1>0 DEF Links, LinkTypes, Att
<1>2. \A x \in Att(P) : P[x] \in Att(P) \union Roots
  BY DEF Links, UpInv
<1>3. B \in Nat /\ rk \in [Strings -> 0..B] /\ \A x \in Att(P) : P[x] \notin Roots => rk[P[x]] < rk[x]
  BY DEF Ranked
<1>4. k2 \in [Strings -> 0..B+1] /\ \A x \in Strings : k2[x] = IF x = r THEN B + 1 ELSE rk[x]
  BY <1>3
<1> HIDE DEF P2, k2
<1>5. ASSUME NEW x \in Att(P2), P2[x] \notin Roots PROVE k2[P2[x]] < k2[x]
  <2>1. CASE x = r
    <3>1. P2[x] = p /\ p \in Strings /\ rk[p] \in 0..B
      BY <1>0, <1>1, <1>3, <1>5, <2>1
    <3> QED
      BY <1>0, <1>3, <1>4, <2>1, <3>1
  <2>2. CASE x # r
    <3>1. x \in Att(P) /\ P2[x] = P[x] /\ P[x] \in Att(P) /\ P[x] # r
      BY <1>1, <1>2, <1>5, <2>2
    <3> QED
      BY <1>0, <1>3, <1>4, <1>5, <2>2, <3>1
  <2> QED
    BY <2>1, <2>2
<1>6. B + 1 \in Nat
  BY <1>3
<1>7. Ranked(P2, k2, B + 1)
  BY <1>4, <1>5, <1>6 DEF Ranked
<1> QED
  BY <1>7 DEF P2, k2

\* What hangs at the place of p hangs at r.
LEMMA ReplaceLinks ==
    ASSUME NEW d, NEW L, NEW R, NEW P, Links(d, L, R, P),
           NEW r \in Strings, r \notin Att(P), NEW p \in Att(P), d[p] = d[r],
           NEW up, up = P[p], up # p, L[p] # p, R[p] # p,
           NEW L2, NEW R2, NEW P2, LinkTypes(L2, R2, P2),
           \A x \in Strings :
               P2[x] = IF x = p THEN NIL ELSE IF x = r THEN up ELSE IF x \in {L[p], R[p]} THEN r ELSE P[x],
           \A x \in Strings :
               L2[x] = IF x = r THEN L[p] ELSE IF R[up] # p /\ x = up THEN r ELSE L[x],
           \A x \in Strings \union Roots :
               R2[x] = IF x = r THEN R[p] ELSE IF R[up] = p /\ x = up THEN r ELSE R[x]
    PROVE  Links(d, L2, R2, P2) /\ Att(P2) = (Att(P) \ {p}) \union {r}
<1>0. /\ p # r /\ r \notin Roots /\ NIL \notin Strings /\ NIL \notin Roots /\ Att(P) \subseteq Strings
      /\ \A x \in Roots : x \notin Strings
  BY RootsAre DEF Att
<1>u. /\ UpInv(P) /\ RootInv(d, R, P) /\ ChildInv(d, L, R, P) /\ LeftInv(L, P) /\ RightInv(R, P)
      /\ TwoInv(L, R, P) /\ LinkTypes(L, R, P)
  BY DEF Links
<1>v. /\ up \in Att(P) \union Roots /\ up # r /\ up # NIL
      /\ L[p] # NIL => L[p] \in Att(P) /\ P[L[p]] = p
      /\ R[p] # NIL => R[p] \in Att(P) /\ P[R[p]] = p
  BY <1>0, <1>u DEF UpInv, LeftInv, RightInv
<1>1. Att(P2) = (Att(P) \ {p}) \union {r}
  BY <1>0, <1>v DEF Att
<1>4. UpInv(P2)
  BY <1>0, <1>1, <1>u, <1>v DEF UpInv, LeftInv, RightInv, ChildInv
<1>5. RootInv(d, R2, P2)
  BY <1>0, <1>1, <1>u, <1>v DEF RootInv
<1>6. ChildInv(d, L2, R2, P2)
  BY <1>0, <1>1, <1>u, <1>v DEF ChildInv, UpInv
<1>7. LeftInv(L2, P2)
  BY <1>0, <1>1, <1>u, <1>v DEF LeftInv, ChildInv, RootInv, TwoInv
<1>8. RightInv(R2, P2)
  BY <1>0, <1>1, <1>u, <1>v DEF RightInv
<1>9. TwoInv(L2, R2, P2)
  BY <1>0, <1>1, <1>u, <1>v DEF TwoInv, RightInv, LeftInv
<1> QED
  BY <1>1, <1>4, <1>5, <1>6, <1>7, <1>8, <1>9 DEF Links

\* p has one child q at most, which takes its place.
LEMMA SpliceLinks ==
    ASSUME NEW d, NEW L, NEW R, NEW P, Links(d, L, R, P), NEW p \in Att(P),
           NEW up, up = P[p], up # p, NEW q, q # p, q # up,
           \/ q = L[p] /\ R[p] = NIL
           \/ q = R[p] /\ L[p] = NIL,
           NEW L2, NEW R2, NEW P2, LinkTypes(L2, R2, P2),
           \A x \in Strings : P2[x] = IF x = p THEN NIL ELSE IF x = q THEN up ELSE P[x],
           \A x \in Strings : L2[x] = IF R[up] # p /\ x = up THEN q ELSE L[x],
           \A x \in Strings \union Roots : R2[x] = IF R[up] = p /\ x = up THEN q ELSE R[x]
    PROVE  Links(d, L2, R2, P2) /\ Att(P2) = Att(P) \ {p}
<1>0. /\ NIL \notin Strings /\ NIL \notin Roots /\ Att(P) \subseteq Strings
      /\ \A x \in Roots : x \notin Strings
  BY RootsAre DEF Att
<1>u. /\ UpInv(P) /\ RootInv(d, R, P) /\ ChildInv(d, L, R, P) /\ LeftInv(L, P) /\ RightInv(R, P)
      /\ TwoInv(L, R, P) /\ LinkTypes(L, R, P)
  BY DEF Links
<1>v. /\ up \in Att(P) \union Roots /\ up # NIL
      /\ q # NIL => q \in Att(P) /\ P[q] = p /\ d[q] = d[p]
  BY <1>0, <1>u DEF UpInv, LeftInv, RightInv, ChildInv
<1>w. \A x \in Att(P) : P[x] = p => x = q
  BY <1>0, <1>u DEF ChildInv
<1>1. Att(P2) = Att(P) \ {p}
  BY <1>0, <1>v DEF Att
<1>4. UpInv(P2)
  BY <1>0, <1>1, <1>u, <1>v, <1>w DEF UpInv
<1>5. RootInv(d, R2, P2)
  BY <1>0, <1>1, <1>u, <1>v DEF RootInv
<1>6. ChildInv(d, L2, R2, P2)
  BY <1>0, <1>1, <1>u, <1>v DEF ChildInv, UpInv
<1>7. LeftInv(L2, P2)
  BY <1>0, <1>1, <1>u, <1>v DEF LeftInv, ChildInv, RootInv, TwoInv
<1>8. RightInv(R2, P2)
  BY <1>0, <1>1, <1>u, <1>v DEF RightInv
<1>9. TwoInv(L2, R2, P2)
  BY <1>0, <1>1, <1>u, <1>v DEF TwoInv, RightInv, LeftInv
<1> QED
  BY <1>1, <1>4, <1>5, <1>6, <1>7, <1>8, <1>9 DEF Links

\* The left child q of p takes its place below up.
ChildPlaces(L, R, P, p, up, q) ==
    /\ up = P[p] /\ up # p /\ q \in Strings /\ q # p /\ q # up
    /\ q = L[p] /\ R[p] # NIL /\ R[p] # p /\ R[p] # up /\ R[q] = NIL

ChildMoves(L, R, P, L2, R2, P2, p, up, q) ==
    /\ \A x \in Strings :
          P2[x] = IF x = p THEN NIL ELSE IF x = q THEN up ELSE IF x = R[p] THEN q ELSE P[x]
    /\ \A x \in Strings : L2[x] = IF R[up] # p /\ x = up THEN q ELSE L[x]
    /\ \A x \in Strings \union Roots :
          R2[x] = IF R[up] = p /\ x = up THEN q ELSE IF x = q THEN R[p] ELSE R[x]

\* p's right child hangs at q then.
LEMMA ChildLinks ==
    ASSUME NEW d, NEW L, NEW R, NEW P, Links(d, L, R, P), NEW p \in Att(P),
           NEW up, NEW q, ChildPlaces(L, R, P, p, up, q),
           NEW L2, NEW R2, NEW P2, LinkTypes(L2, R2, P2), ChildMoves(L, R, P, L2, R2, P2, p, up, q)
    PROVE  Links(d, L2, R2, P2) /\ Att(P2) = Att(P) \ {p}
<1>p. /\ up = P[p] /\ up # p /\ q \in Strings /\ q # p /\ q # up
      /\ q = L[p] /\ R[p] # NIL /\ R[p] # p /\ R[p] # up /\ R[q] = NIL
  BY DEF ChildPlaces
<1>m. /\ \A x \in Strings :
            P2[x] = IF x = p THEN NIL ELSE IF x = q THEN up ELSE IF x = R[p] THEN q ELSE P[x]
      /\ \A x \in Strings : L2[x] = IF R[up] # p /\ x = up THEN q ELSE L[x]
      /\ \A x \in Strings \union Roots :
            R2[x] = IF R[up] = p /\ x = up THEN q ELSE IF x = q THEN R[p] ELSE R[x]
  BY DEF ChildMoves
<1>0. /\ NIL \notin Strings /\ NIL \notin Roots /\ Att(P) \subseteq Strings
      /\ \A x \in Roots : x \notin Strings
  BY RootsAre DEF Att
<1>u. /\ UpInv(P) /\ RootInv(d, R, P) /\ ChildInv(d, L, R, P) /\ LeftInv(L, P) /\ RightInv(R, P)
      /\ TwoInv(L, R, P) /\ LinkTypes(L, R, P)
  BY DEF Links
<1>v. /\ up \in Att(P) \union Roots /\ up # NIL
      /\ q \in Att(P) /\ P[q] = p /\ d[q] = d[p] /\ q # NIL
      /\ R[p] \in Att(P) /\ P[R[p]] = p /\ d[R[p]] = d[p] /\ R[p] # q
  BY <1>0, <1>p, <1>u DEF UpInv, LeftInv, RightInv, ChildInv, TwoInv
<1>w. \A x \in Att(P) : P[x] = p => x \in {q, R[p]}
  BY <1>0, <1>p, <1>u DEF ChildInv
<1>1. Att(P2) = Att(P) \ {p}
  BY <1>0, <1>p, <1>m, <1>v DEF Att
<1>4. UpInv(P2)
  BY <1>0, <1>1, <1>p, <1>m, <1>u, <1>v, <1>w DEF UpInv
<1>5. RootInv(d, R2, P2)
  BY <1>0, <1>1, <1>p, <1>m, <1>u, <1>v DEF RootInv
<1>6. ChildInv(d, L2, R2, P2)
  BY <1>0, <1>1, <1>p, <1>m, <1>u, <1>v DEF ChildInv, UpInv
<1>7. LeftInv(L2, P2)
  BY <1>0, <1>1, <1>p, <1>m, <1>u, <1>v DEF LeftInv, ChildInv, RootInv, TwoInv
<1>8. RightInv(R2, P2)
  BY <1>0, <1>1, <1>p, <1>m, <1>u, <1>v DEF RightInv
<1>9. TwoInv(L2, R2, P2)
  BY <1>0, <1>1, <1>p, <1>m, <1>u, <1>v DEF TwoInv, RightInv, LeftInv
<1> QED
  BY <1>1, <1>4, <1>5, <1>6, <1>7, <1>8, <1>9 DEF Links

\* q, the right child of m and below p's left child, is to take the place of p at up.
HeirPlaces(L, R, P, p, up, q, m) ==
    /\ up = P[p] /\ up # p /\ q # p /\ q # up
    /\ m = P[q] /\ R[m] = q /\ R[q] = NIL /\ m # q /\ m # p /\ m # up
    /\ L[p] # NIL /\ R[p] # NIL /\ L[p] # q /\ R[p] # q /\ L[p] # up /\ R[p] # up /\ L[p] # p /\ R[p] # p
    /\ L[q] # up /\ L[q] # p /\ L[q] # q /\ L[q] # m

\* It has taken it, and its left child its own.
HeirMoves(L, R, P, L2, R2, P2, p, up, q, m) ==
    /\ \A x \in Strings :
          P2[x] = IF x = p THEN NIL ELSE IF x = q THEN up ELSE IF x \in {L[p], R[p]} THEN q
                  ELSE IF x = L[q] THEN m ELSE P[x]
    /\ \A x \in Strings : L2[x] = IF R[up] # p /\ x = up THEN q ELSE IF x = q THEN L[p] ELSE L[x]
    /\ \A x \in Strings \union Roots :
          R2[x] = IF R[up] = p /\ x = up THEN q ELSE IF x = q THEN R[p] ELSE IF x = m THEN L[q] ELSE R[x]

\* The links are right then.
LEMMA HeirLinks ==
    ASSUME NEW d, NEW L, NEW R, NEW P, Links(d, L, R, P), NEW p \in Att(P),
           NEW q \in Att(P), d[q] = d[p], NEW m \in Att(P), NEW up, HeirPlaces(L, R, P, p, up, q, m),
           NEW L2, NEW R2, NEW P2, LinkTypes(L2, R2, P2), HeirMoves(L, R, P, L2, R2, P2, p, up, q, m)
    PROVE  Links(d, L2, R2, P2) /\ Att(P2) = Att(P) \ {p}
<1> USE DEF HeirPlaces, HeirMoves
<1>0. /\ NIL \notin Strings /\ NIL \notin Roots /\ Att(P) \subseteq Strings
      /\ \A x \in Roots : x \notin Strings
  BY RootsAre DEF Att
<1>u. /\ UpInv(P) /\ RootInv(d, R, P) /\ ChildInv(d, L, R, P) /\ LeftInv(L, P) /\ RightInv(R, P)
      /\ TwoInv(L, R, P) /\ LinkTypes(L, R, P)
  BY DEF Links
<1>v. /\ up \in Att(P) \union Roots /\ up # NIL /\ q # NIL /\ m # NIL
      /\ L[p] \in Att(P) /\ P[L[p]] = p /\ d[L[p]] = d[p]
      /\ R[p] \in Att(P) /\ P[R[p]] = p /\ d[R[p]] = d[p] /\ R[p] # L[p]
      /\ d[m] = d[q] /\ m \in Strings
      /\ L[q] # NIL => L[q] \in Att(P) /\ P[L[q]] = q /\ d[L[q]] = d[q] /\ L[q] \notin {L[p], R[p]}
  BY <1>0, <1>u DEF UpInv, LeftInv, RightInv, ChildInv, TwoInv
<1>w. \A x \in Att(P) : (P[x] = p => x \in {L[p], R[p]}) /\ (P[x] = q => x = L[q])
  BY <1>0, <1>u DEF ChildInv
<1>1. Att(P2) = Att(P) \ {p}
  BY <1>0, <1>v DEF Att
<1>4. UpInv(P2)
  BY <1>0, <1>1, <1>u, <1>v, <1>w DEF UpInv
<1>5. RootInv(d, R2, P2)
  BY <1>0, <1>1, <1>u, <1>v DEF RootInv
<1>6. ChildInv(d, L2, R2, P2)
  BY <1>0, <1>1, <1>u, <1>v, <1>w DEF ChildInv, UpInv
<1>7. LeftInv(L2, P2)
  BY <1>0, <1>1, <1>u, <1>v DEF LeftInv, ChildInv, RootInv, TwoInv
<1>8. RightInv(R2, P2)
  BY <1>0, <1>1, <1>u, <1>v DEF RightInv
<1>9. TwoInv(L2, R2, P2)
  BY <1>0, <1>1, <1>u, <1>v DEF TwoInv, RightInv, LeftInv
<1> QED
  BY <1>1, <1>4, <1>5, <1>6, <1>7, <1>8, <1>9 DEF Links

\* A string that is out of the trees leaves the ranks.
LEMMA DropRanked ==
    ASSUME NEW P, NEW rk, NEW B, Ranked(P, rk, B),
           NEW P2, \A x \in Att(P2) : x \in Att(P) /\ P2[x] = P[x]
    PROVE  Ranked(P2, rk, B)
BY DEF Ranked

\* q takes the place of p; of the others, p's children hang at q, and q's where q did.
TakesOver(P, P2, p, q) ==
    \A x \in Att(P2) \ {q} :
        /\ x \in Att(P) /\ x # p
        /\ \/ P2[x] = P[x] /\ P[x] # p
           \/ P[x] = p /\ P2[x] = q
           \/ P[x] = q /\ P2[x] = P[q] /\ q \in Att(P)

\* One that takes the place of another takes its rank.
LEMMA TakeOverRanked ==
    ASSUME NEW d, NEW L, NEW R, NEW P, Links(d, L, R, P), NEW rk, NEW B, Ranked(P, rk, B),
           NEW p \in Att(P), NEW q \in Strings, q # p, q \in Att(P) => rk[p] < rk[q],
           NEW P2, P2[q] = P[p], TakesOver(P, P2, p, q)
    PROVE  Ranked(P2, [rk EXCEPT ![q] = rk[p]], B)
<1> USE DEF TakesOver
<1> DEFINE k2 == [rk EXCEPT ![q] = rk[p]]
<1>0. NIL \notin Strings /\ NIL \notin Roots /\ Att(P) \subseteq Strings /\ \A x \in Roots : x \notin Strings
  BY RootsAre DEF Att
<1>1. \A x \in Att(P) : P[x] \in Att(P) \union Roots
  BY DEF Links, UpInv
<1>2. B \in Nat /\ rk \in [Strings -> 0..B] /\ \A x \in Att(P) : P[x] \notin Roots => rk[P[x]] < rk[x]
  BY DEF Ranked
<1>3. k2 \in [Strings -> 0..B] /\ \A x \in Strings : k2[x] = IF x = q THEN rk[p] ELSE rk[x]
  BY <1>0, <1>2
<1>4. \A x \in Strings : rk[x] \in Int /\ k2[x] \in Int
  BY <1>2, <1>3
<1> HIDE DEF k2
<1>5. ASSUME NEW x \in Att(P2), P2[x] \notin Roots PROVE k2[P2[x]] < k2[x]
  <2>1. CASE x = q
    <3>1. P2[x] = P[p] /\ P[p] \in Att(P) /\ rk[P[p]] < rk[p]
      BY <1>1, <1>2, <1>5, <2>1
    <3>2. P[p] # q
      BY <1>0, <1>4, <3>1
    <3> QED
      BY <1>0, <1>3, <2>1, <3>1, <3>2
  <2>2. CASE x # q
    <3>1. x \in Att(P) /\ k2[x] = rk[x] /\ x \in Strings
      BY <1>0, <1>3, <2>2
    <3>2. CASE P2[x] = P[x]
      <4>1. P[x] \in Att(P) /\ rk[P[x]] < rk[x] /\ P[x] \in Strings
        BY <1>0, <1>1, <1>2, <1>5, <3>1, <3>2
      <4>2. k2[P[x]] = IF P[x] = q THEN rk[p] ELSE rk[P[x]]
        BY <1>3, <4>1
      <4>3. P[x] = q => rk[p] < rk[x]
        BY <1>0, <1>4, <3>1, <4>1
      <4> QED
        BY <3>1, <3>2, <4>1, <4>2, <4>3
    <3>3. CASE P[x] = p /\ P2[x] = q
      <4>1. rk[p] < rk[x]
        BY <1>0, <1>2, <3>1, <3>3
      <4> QED
        BY <1>3, <3>1, <3>3, <4>1
    <3>4. CASE P[x] = q /\ P2[x] = P[q] /\ q \in Att(P)
      <4>1. rk[q] < rk[x] /\ P[q] \in Att(P) /\ rk[P[q]] < rk[q] /\ P[q] \in Strings
        BY <1>0, <1>1, <1>2, <1>5, <3>1, <3>4
      <4>2. k2[P[q]] = IF P[q] = q THEN rk[p] ELSE rk[P[q]]
        BY <1>3, <4>1
      <4> QED
        BY <1>0, <1>4, <3>1, <3>4, <4>1, <4>2
    <3> QED
      BY <2>2, <3>2, <3>3, <3>4
  <2> QED
    BY <2>1, <2>2
<1>6. Ranked(P2, k2, B)
  BY <1>2, <1>3, <1>5 DEF Ranked
<1> QED
  BY <1>6 DEF k2

-----------------------------------------------------------------------------
(* A string is put in: the way down, and the links.                       *)

\* A step of the recursion of Way.
WayStep(z, r, f) ==
    [p \in InTree(z) \union {NIL} |->
        IF p = NIL THEN << >>
        ELSE LET i == Shared(z, p, r) IN
             <<[node |-> p, len |-> i]>> \o
                (IF i = F THEN << >>
                 ELSE f[IF z.dict[r + i] < z.dict[p + i] THEN z.lson[p] ELSE z.rson[p]])]

\* Way is that recursion, from the root of the first byte.
LEMMA WayChoice ==
    ASSUME NEW z, NEW r, NEW g, g = WayStep(z, r, g)
    PROVE \E f : f = WayStep(z, r, f) /\ Way(z, r) = f[z.rson[Root(z.dict[r])]]
<1> DEFINE f == CHOOSE h : h = WayStep(z, r, h)
<1>1. f = WayStep(z, r, f)
  OBVIOUS
<1>2. Way(z, r) = f[z.rson[Root(z.dict[r])]]
  BY Zenon DEF Way, WayStep
<1> QED BY <1>1, <1>2

\* The type of a compressor.
Compressor ==
    [dict : [0..N+F-2 -> Nat], lson : [Strings -> Strings \union {NIL}],
     rson : [Strings \union Roots -> Strings \union {NIL}],
     parent : [Strings \union {NIL} -> Strings \union {NIL} \union Roots],
     matchPos : Strings, matchLen : 0..F, r : Strings, s : Strings, len : 0..F, next : Nat,
     buf : Seq(0..Low-1), mask : 0..Group-1, out : Seq(0..Low-1), todo : Nat]

\* Only the trees and the match are others.
SameText(y, z) ==
    /\ y.dict = z.dict /\ y.r = z.r /\ y.s = z.s /\ y.len = z.len /\ y.next = z.next
    /\ y.buf = z.buf /\ y.mask = z.mask /\ y.out = z.out /\ y.todo = z.todo

\* Every byte of a string is in the window.
LEMMA TextTypes ==
    ASSUME NEW z \in Compressor
    PROVE  /\ \A x \in Strings : z.dict[x] \in Nat
           /\ \A x \in Strings, j \in 0..F-1 : x + j \in DOMAIN z.dict /\ z.dict[x + j] \in Nat
<1>1. z.dict \in [0..N+F-2 -> Nat]
  BY DEF Compressor
<1>2. \A x \in Strings : x \in 0..N+F-2 /\ \A j \in 0..F-1 : x + j \in 0..N+F-2
  BY Numbers DEF Strings
<1> QED
  BY <1>1, <1>2

\* Hang, link by link.
LEMMA HangIs ==
    ASSUME NEW z \in Compressor, NEW p \in Strings \union Roots, NEW r \in Strings,
           NEW left \in BOOLEAN, left => p \in Strings,
           NEW y, y = Hang(z, p, r, left)
    PROVE  /\ y \in Compressor /\ SameText(y, z)
           /\ y.matchPos = z.matchPos /\ y.matchLen = z.matchLen
           /\ \A x \in Strings : y.parent[x] = IF x = r THEN p ELSE z.parent[x]
           /\ \A x \in Strings : y.lson[x] = IF x = r THEN NIL ELSE IF left /\ x = p THEN r ELSE z.lson[x]
           /\ \A x \in Strings \union Roots :
                y.rson[x] = IF x = r THEN NIL ELSE IF ~left /\ x = p THEN r ELSE z.rson[x]
<1>1. y \in Compressor
  BY DEF Hang, Compressor
<1>2. SameText(y, z) /\ y.matchPos = z.matchPos /\ y.matchLen = z.matchLen
  BY DEF Hang, Compressor, SameText
<1>3. \A x \in Strings : y.parent[x] = IF x = r THEN p ELSE z.parent[x]
  BY DEF Hang, Compressor
<1>4. \A x \in Strings : y.lson[x] = IF x = r THEN NIL ELSE IF left /\ x = p THEN r ELSE z.lson[x]
  BY DEF Hang, Compressor
<1>5. \A x \in Strings \union Roots :
                y.rson[x] = IF x = r THEN NIL ELSE IF ~left /\ x = p THEN r ELSE z.rson[x]
  BY DEF Hang, Compressor
<1> QED BY <1>1, <1>2, <1>3, <1>4, <1>5

\* The first string of its byte is put below the root.
AtRoot(z, p, r) == Hang(z, p, r, FALSE)

\* The same, link by link.
LEMMA HangAtRoot ==
    ASSUME NEW z \in Compressor, NEW p \in Roots, NEW r \in Strings, NEW y, y = AtRoot(z, p, r)
    PROVE  /\ y \in Compressor /\ SameText(y, z)
           /\ \A x \in Strings : y.parent[x] = IF x = r THEN p ELSE z.parent[x]
           /\ \A x \in Strings : y.lson[x] = IF x = r THEN NIL ELSE z.lson[x]
           /\ \A x \in Strings \union Roots : y.rson[x] = IF x = r THEN NIL ELSE IF x = p THEN r ELSE z.rson[x]
<1>1. y \in Compressor
  BY DEF AtRoot, Hang, Compressor
<1>2. SameText(y, z)
  BY DEF AtRoot, Hang, Compressor, SameText
<1>3. \A x \in Strings : y.parent[x] = IF x = r THEN p ELSE z.parent[x]
  BY DEF AtRoot, Hang, Compressor
<1>4. \A x \in Strings : y.lson[x] = IF x = r THEN NIL ELSE z.lson[x]
  BY DEF AtRoot, Hang, Compressor
<1>5. \A x \in Strings \union Roots : y.rson[x] = IF x = r THEN NIL ELSE IF x = p THEN r ELSE z.rson[x]
  BY DEF AtRoot, Hang, Compressor
<1> QED BY <1>1, <1>2, <1>3, <1>4, <1>5

\* Replace, link by link.
LEMMA ReplaceIs ==
    ASSUME NEW z \in Compressor, NEW p \in InTree(z), NEW r \in Strings, z.parent[p] # p,
           z.lson[p] # p, z.rson[p] # p, r # p, z.lson[p] # r, z.rson[p] # r,
           NEW y, y = Replace(z, p, r)
    PROVE  /\ y \in Compressor /\ SameText(y, z)
           /\ y.matchPos = z.matchPos /\ y.matchLen = z.matchLen
           /\ \A x \in Strings :
                y.parent[x] = IF x = p THEN NIL ELSE IF x = r THEN z.parent[p]
                              ELSE IF x \in {z.lson[p], z.rson[p]} THEN r ELSE z.parent[x]
           /\ \A x \in Strings :
                y.lson[x] = IF x = r THEN z.lson[p]
                            ELSE IF z.rson[z.parent[p]] # p /\ x = z.parent[p] THEN r ELSE z.lson[x]
           /\ \A x \in Strings \union Roots :
                y.rson[x] = IF x = r THEN z.rson[p]
                            ELSE IF z.rson[z.parent[p]] = p /\ x = z.parent[p] THEN r ELSE z.rson[x]
<1>0. p \in Strings /\ p # NIL /\ r # NIL
  BY RootsAre DEF InTree, Strings
<1>1. y \in Compressor
  BY <1>0 DEF Replace, Compressor
<1>2. SameText(y, z) /\ y.matchPos = z.matchPos /\ y.matchLen = z.matchLen
  BY DEF Replace, Compressor, SameText
<1>3. \A x \in Strings :
                y.parent[x] = IF x = p THEN NIL ELSE IF x = r THEN z.parent[p]
                              ELSE IF x \in {z.lson[p], z.rson[p]} THEN r ELSE z.parent[x]
  BY <1>0 DEF Replace, Compressor
<1>4. \A x \in Strings :
                y.lson[x] = IF x = r THEN z.lson[p]
                            ELSE IF z.rson[z.parent[p]] # p /\ x = z.parent[p] THEN r ELSE z.lson[x]
  BY <1>0 DEF Replace, Compressor
<1>5. \A x \in Strings \union Roots :
                y.rson[x] = IF x = r THEN z.rson[p]
                            ELSE IF z.rson[z.parent[p]] = p /\ x = z.parent[p] THEN r ELSE z.rson[x]
  BY <1>0 DEF Replace, Compressor
<1> QED BY <1>1, <1>2, <1>3, <1>4, <1>5

\* Two strings agree up to where they differ, or in F bytes.
LEMMA SharedIs ==
    ASSUME NEW z, NEW p, NEW r, NEW i, i = Shared(z, p, r)
    PROVE  /\ i \in 1..F
           /\ \A j \in 1..i-1 : z.dict[r + j] = z.dict[p + j]
           /\ i < F => z.dict[r + i] # z.dict[p + i]
<1> DEFINE T == {j \in 1..F : j = F \/ z.dict[r + j] # z.dict[p + j]}
<1>1. F \in Nat /\ F >= 1
  BY LzssAssumption
<1>2. F \in T /\ T \subseteq Nat
  BY <1>1
<1>3. PICK j \in T : \A x \in T : j <= x
  <2> HIDE DEF T
  <2> QED
    BY <1>2, LeastNat
<1>4. \A x \in 1..j-1 : z.dict[r + x] = z.dict[p + x]
  BY <1>1, <1>3
<1>5. /\ j \in 1..F /\ \A x \in 1..j-1 : z.dict[r + x] = z.dict[p + x]
      /\ j < F => z.dict[r + j] # z.dict[p + j]
  BY <1>1, <1>3, <1>4
<1> QED
  BY <1>5 DEF Shared

\* Where the way goes on from p.
Side(z, r, p) ==
    IF z.dict[r + Shared(z, p, r)] < z.dict[p + Shared(z, p, r)] THEN z.lson[p] ELSE z.rson[p]

\* A node of the way, and in how many bytes it agrees.
Stage == [node : Strings, len : 1..F]

\* w is the way of r down from a node.
IsWay(z, r, from, w) ==
    /\ w \in Seq(Stage)
    /\ \A i \in 1..Len(w) :
        /\ w[i].node \in InTree(z) /\ z.dict[w[i].node] = z.dict[r]
        /\ w[i].len = Shared(z, w[i].node, r)
    /\ \A i \in 1..Len(w)-1 : w[i].len # F /\ w[i+1].node = Side(z, r, w[i].node)
    /\ from = NIL => Len(w) = 0
    /\ from # NIL => /\ Len(w) >= 1 /\ w[1].node = from
                     /\ w[Len(w)].len = F \/ Side(z, r, w[Len(w)].node) = NIL

\* The links of a compressor are those of search trees.
Tree(z, rk, B) ==
    /\ Links(z.dict, z.lson, z.rson, z.parent) /\ Ranked(z.parent, rk, B)

\* Down from p there is another node of the same first byte, or none.
LEMMA SideIs ==
    ASSUME NEW z, NEW rk, NEW B, Tree(z, rk, B), NEW r, NEW p \in InTree(z), Side(z, r, p) # NIL
    PROVE  /\ Side(z, r, p) \in InTree(z) /\ z.dict[Side(z, r, p)] = z.dict[p]
           /\ z.parent[Side(z, r, p)] = p /\ rk[p] < rk[Side(z, r, p)]
<1>0. InTree(z) = Att(z.parent)
  BY DEF InTree, Att, Strings
<1>1. Side(z, r, p) \in {z.lson[p], z.rson[p]}
  BY DEF Side
<1> DEFINE q == Side(z, r, p)
<1> HIDE DEF q
<1>2. q \in Att(z.parent) /\ z.parent[q] = p
  BY <1>0, <1>1 DEF Tree, Links, LeftInv, RightInv, q
<1>3. p \notin Roots
  BY RootsAre DEF InTree, Strings
<1>4. z.dict[q] = z.dict[p] /\ rk[p] < rk[q]
  BY <1>2, <1>3 DEF Tree, Links, ChildInv, Ranked
<1> QED
  BY <1>0, <1>2, <1>4 DEF q

\* The recursion of Way comes to an end, as ranks are bounded.
LEMMA WayFunction ==
    ASSUME NEW z \in Compressor, NEW rk, NEW B, Tree(z, rk, B), NEW r \in Strings
    PROVE  \E f \in [InTree(z) \union {NIL} -> Seq(Stage)] : f = WayStep(z, r, f)
<1> DEFINE D == InTree(z) \union {NIL}
           V == Seq(Stage)
           stop == {p \in D : p = NIL \/ Shared(z, p, r) = F}
           base == [p \in D |-> IF p = NIL THEN << >> ELSE <<[node |-> p, len |-> Shared(z, p, r)]>>]
           nx   == [p \in D |-> IF p \in stop THEN p ELSE Side(z, r, p)]
           h    == [t \in D \X V |-> IF t[1] = NIL THEN << >>
                                     ELSE <<[node |-> t[1], len |-> Shared(z, t[1], r)]>> \o t[2]]
           rank == [p \in D |-> IF p = NIL THEN 0 ELSE 1 + (B - rk[p])]
<1>1. B \in Nat /\ rk \in [Strings -> 0..B] /\ B + 1 \in Nat
  BY DEF Tree, Ranked
<1>2. InTree(z) \subseteq Strings /\ NIL \notin Strings
  BY RootsAre DEF InTree, Strings
<1>3. ASSUME NEW p \in InTree(z) PROVE [node |-> p, len |-> Shared(z, p, r)] \in Stage /\ p # NIL
  BY <1>2, SharedIs DEF Stage
<1>4. base \in [D -> V]
  BY <1>3
<1>5. nx \in [D -> D]
  BY SideIs
<1>6. h \in [D \X V -> V]
  <2> SUFFICES ASSUME NEW p \in D, NEW v \in V PROVE h[<<p, v>>] \in V
    OBVIOUS
  <2>1. CASE p = NIL
    BY <2>1
  <2>2. CASE p # NIL
    <3>1. [node |-> p, len |-> Shared(z, p, r)] \in Stage
      BY <1>3, <2>2
    <3> QED
      BY <2>2, <3>1
  <2> QED
    BY <2>1, <2>2
<1>7. rank \in [D -> 0..B+1]
  BY <1>1, <1>2
<1>8. ASSUME NEW p \in D \ stop PROVE rank[nx[p]] < rank[p]
  <2>1. p \in InTree(z) /\ nx[p] = Side(z, r, p) /\ rk[p] \in 0..B /\ p # NIL
    BY <1>1, <1>2
  <2>2. rank[p] = 1 + (B - rk[p])
    BY <2>1
  <2>3. CASE Side(z, r, p) = NIL
    BY <1>1, <2>1, <2>2, <2>3
  <2>4. CASE Side(z, r, p) # NIL
    <3>1. Side(z, r, p) \in InTree(z) /\ rk[p] < rk[Side(z, r, p)] /\ rk[Side(z, r, p)] \in 0..B
      BY <1>1, <1>2, <2>1, <2>4, SideIs
    <3>2. rank[Side(z, r, p)] = 1 + (B - rk[Side(z, r, p)])
      BY <2>4, <3>1
    <3> QED
      BY <1>1, <2>1, <2>2, <3>1, <3>2
  <2> QED
    BY <2>3, <2>4
<1> HIDE DEF stop, base, nx, h, rank, V, D
<1>a. \A p \in D \ stop : rank[nx[p]] < rank[p]
  BY <1>8
<1> DEFINE m == B + 1
<1>b. m \in Nat /\ rank \in [D -> 0..m]
  BY <1>1, <1>7
<1> HIDE DEF m
<1>9. PICK f \in [D -> V] : \A p \in D : f[p] = IF p \in stop THEN base[p] ELSE h[<<p, f[nx[p]]>>]
  <2>1. Descends(D, V, m, rank, stop, base, nx, h)
    BY <1>4, <1>5, <1>6, <1>a, <1>b DEF Descends
  <2> QED
    BY <2>1, Recursion
<1>10. ASSUME NEW p \in D PROVE f[p] = WayStep(z, r, f)[p]
  <2>1. CASE p = NIL
    BY <1>9, <2>1 DEF stop, base, WayStep, D
  <2>2. CASE p # NIL /\ Shared(z, p, r) = F
    <3>1. p \in stop /\ base[p] = <<[node |-> p, len |-> F]>>
      BY <2>2 DEF stop, base
    <3>2. WayStep(z, r, f)[p] = <<[node |-> p, len |-> F]>> \o << >>
      BY <2>2 DEF WayStep, D
    <3>3. <<[node |-> p, len |-> F]>> \o << >> = <<[node |-> p, len |-> F]>>
      OBVIOUS
    <3> QED
      BY <1>9, <3>1, <3>2, <3>3
  <2>3. CASE p # NIL /\ Shared(z, p, r) # F
    <3>1. p \notin stop /\ nx[p] = Side(z, r, p) /\ nx[p] \in D
      BY <1>5, <2>3 DEF stop, nx, D
    <3>2. f[nx[p]] \in V /\ <<p, f[nx[p]]>> \in D \X V
      BY <1>9, <3>1
    <3>3. h[<<p, f[nx[p]]>>] = <<[node |-> p, len |-> Shared(z, p, r)]>> \o f[nx[p]]
      BY <2>3, <3>2 DEF h
    <3>4. WayStep(z, r, f)[p] = <<[node |-> p, len |-> Shared(z, p, r)]>> \o f[Side(z, r, p)]
      BY <2>3 DEF WayStep, Side, D
    <3> QED
      BY <1>9, <3>1, <3>3, <3>4
  <2> QED
    BY <2>1, <2>2, <2>3
<1>11. f = [p \in D |-> f[p]] /\ WayStep(z, r, f) = [p \in D |-> WayStep(z, r, f)[p]]
  BY <1>9 DEF WayStep, D
<1>12. f = WayStep(z, r, f)
  BY <1>10, <1>11
<1> QED
  BY <1>9, <1>12 DEF D, V

\* The way goes on.
LEMMA ConsWay ==
    ASSUME NEW z, NEW r, NEW p \in InTree(z), z.dict[p] = z.dict[r], p \in Strings, p # NIL,
           Shared(z, p, r) # F, NEW v, IsWay(z, r, Side(z, r, p), v)
    PROVE  IsWay(z, r, p, <<[node |-> p, len |-> Shared(z, p, r)]>> \o v)
<1> DEFINE a == [node |-> p, len |-> Shared(z, p, r)]
           w == <<a>> \o v
<1>1. a \in Stage /\ a.node = p /\ a.len = Shared(z, p, r)
  BY SharedIs DEF Stage
<1>2. v \in Seq(Stage) /\ Len(v) \in Nat
  BY DEF IsWay
<1> HIDE DEF a
<1>3. /\ w \in Seq(Stage) /\ Len(w) = Len(v) + 1 /\ w[1] = a
      /\ \A i \in 1..Len(v) : w[i + 1] = v[i]
  BY <1>1, <1>2
<1> HIDE DEF w
<1>4. ASSUME NEW i \in 1..Len(w) PROVE
        /\ w[i].node \in InTree(z) /\ z.dict[w[i].node] = z.dict[r]
        /\ w[i].len = Shared(z, w[i].node, r)
  <2>1. CASE i = 1
    BY <1>1, <1>3, <2>1
  <2>2. CASE i # 1
    <3>1. i - 1 \in 1..Len(v) /\ w[(i - 1) + 1] = v[i - 1] /\ (i - 1) + 1 = i
      BY <1>2, <1>3, <2>2
    <3> QED
      BY <3>1 DEF IsWay
  <2> QED
    BY <2>1, <2>2
<1>5. ASSUME NEW i \in 1..Len(w)-1 PROVE w[i].len # F /\ w[i+1].node = Side(z, r, w[i].node)
  <2>1. CASE i = 1
    <3>1. Len(v) >= 1 /\ w[2] = v[1]
      BY <1>2, <1>3, <2>1
    <3>2. v[1].node = Side(z, r, p)
      BY <1>2, <3>1 DEF IsWay
    <3> QED
      BY <1>1, <1>3, <2>1, <3>1, <3>2
  <2>2. CASE i # 1
    <3>1. i - 1 \in 1..Len(v)-1 /\ w[i] = v[i - 1] /\ w[i + 1] = v[(i - 1) + 1]
      <4>1. i - 1 \in 1..Len(v) /\ (i - 1) + 1 = i /\ i \in 1..Len(v) /\ i - 1 \in 1..Len(v)-1
        BY <1>2, <1>3, <2>2
      <4> QED
        BY <1>3, <4>1
    <3> QED
      BY <3>1 DEF IsWay
  <2> QED
    BY <2>1, <2>2
<1>6. w[Len(w)].len = F \/ Side(z, r, w[Len(w)].node) = NIL
  <2>1. CASE Len(v) = 0
    <3>1. Side(z, r, p) = NIL
      BY <2>1 DEF IsWay
    <3> QED
      BY <1>1, <1>3, <2>1, <3>1
  <2>2. CASE Len(v) # 0
    <3>1. w[Len(w)] = v[Len(v)]
      BY <1>2, <1>3, <2>2
    <3>2. Side(z, r, p) # NIL
      BY <2>2 DEF IsWay
    <3> QED
      BY <3>1, <3>2 DEF IsWay
  <2> QED
    BY <2>1, <2>2
<1>7. Len(w) >= 1 /\ w[1].node = p
  BY <1>1, <1>2, <1>3
<1>8. IsWay(z, r, p, w)
  BY <1>3, <1>4, <1>5, <1>6, <1>7 DEF IsWay
<1> QED
  BY <1>8 DEF w, a

\* The way ends at a string that agrees in F bytes.
LEMMA EndWay ==
    ASSUME NEW z, NEW r, NEW p \in InTree(z), z.dict[p] = z.dict[r], p \in Strings, p # NIL,
           Shared(z, p, r) = F
    PROVE  IsWay(z, r, p, <<[node |-> p, len |-> F]>>)
<1> DEFINE a == [node |-> p, len |-> F]
           w == <<a>>
<1>1. a \in Stage /\ a.node = p /\ a.len = Shared(z, p, r) /\ a.len = F
  BY LzssAssumption DEF Stage
<1> HIDE DEF a
<1>2. w \in Seq(Stage) /\ Len(w) = 1 /\ w[1] = a
  BY <1>1
<1> HIDE DEF w
<1>3. IsWay(z, r, p, w)
  BY <1>1, <1>2 DEF IsWay
<1> QED
  BY <1>3 DEF w, a

\* The way is as the code goes it.
LEMMA WayIs ==
    ASSUME NEW z \in Compressor, NEW rk, NEW B, Tree(z, rk, B), NEW r \in Strings, z.dict[r] \in Char
    PROVE  IsWay(z, r, z.rson[Root(z.dict[r])], Way(z, r))
<1>1. PICK f : f = WayStep(z, r, f) /\ Way(z, r) = f[z.rson[Root(z.dict[r])]]
  BY WayFunction, WayChoice
<1>2. InTree(z) \subseteq Strings /\ NIL \notin Strings /\ InTree(z) = Att(z.parent)
  BY RootsAre DEF InTree, Strings, Att
<1>3. f[NIL] = << >> /\ IsWay(z, r, NIL, << >>)
  <2>1. WayStep(z, r, f)[NIL] = << >>
    BY DEF WayStep
  <2>2. IsWay(z, r, NIL, << >>)
    BY DEF IsWay
  <2> QED
    BY <1>1, <2>1, <2>2
<1>4. ASSUME NEW p \in InTree(z), Shared(z, p, r) = F PROVE f[p] = <<[node |-> p, len |-> F]>>
  <2>1. WayStep(z, r, f)[p] = <<[node |-> p, len |-> F]>> \o << >>
    BY <1>2, <1>4 DEF WayStep
  <2>2. <<[node |-> p, len |-> F]>> \o << >> = <<[node |-> p, len |-> F]>>
    OBVIOUS
  <2> QED
    BY <1>1, <2>1, <2>2
<1>5. ASSUME NEW p \in InTree(z), Shared(z, p, r) # F
      PROVE  f[p] = <<[node |-> p, len |-> Shared(z, p, r)]>> \o f[Side(z, r, p)]
  <2>1. WayStep(z, r, f)[p] = <<[node |-> p, len |-> Shared(z, p, r)]>> \o f[Side(z, r, p)]
    BY <1>2, <1>5 DEF WayStep, Side
  <2> QED
    BY <1>1, <2>1
<1>6. B \in Nat /\ rk \in [Strings -> 0..B]
  BY DEF Tree, Ranked
<1> DEFINE Near(n) == {p \in InTree(z) : z.dict[p] = z.dict[r] /\ B - rk[p] < n}
           S == {n \in Nat : \A p \in Near(n) : IsWay(z, r, p, f[p])}
<1>7. 0 \in S
  BY <1>2, <1>6
<1>8. ASSUME NEW n \in S PROVE n + 1 \in S
  <2>1. ASSUME NEW p \in Near(n + 1) PROVE IsWay(z, r, p, f[p])
    <3>0. p \in Strings /\ p # NIL /\ p \in InTree(z) /\ z.dict[p] = z.dict[r] /\ B - rk[p] < n + 1
      BY <1>2
    <3>1. CASE Shared(z, p, r) = F
      BY <1>4, <3>0, <3>1, EndWay
    <3>2. CASE Shared(z, p, r) # F
      <4>1. IsWay(z, r, Side(z, r, p), f[Side(z, r, p)])
        <5>1. CASE Side(z, r, p) = NIL
          BY <1>3, <5>1
        <5>2. CASE Side(z, r, p) # NIL
          <6>1. /\ Side(z, r, p) \in InTree(z) /\ z.dict[Side(z, r, p)] = z.dict[r]
                /\ rk[p] < rk[Side(z, r, p)]
            BY <3>0, <5>2, SideIs
          <6>2. rk[p] \in 0..B /\ rk[Side(z, r, p)] \in 0..B
            BY <1>2, <1>6, <3>0, <6>1
          <6>3. Side(z, r, p) \in Near(n)
            BY <1>6, <3>0, <6>1, <6>2
          <6> QED
            BY <6>3
        <5> QED
          BY <5>1, <5>2
      <4>2. f[p] = <<[node |-> p, len |-> Shared(z, p, r)]>> \o f[Side(z, r, p)]
        BY <1>5, <3>0, <3>2
      <4>3. IsWay(z, r, p, <<[node |-> p, len |-> Shared(z, p, r)]>> \o f[Side(z, r, p)])
        BY <3>0, <3>2, <4>1, ConsWay
      <4> QED
        BY <4>2, <4>3
    <3> QED
      BY <3>1, <3>2
  <2> HIDE DEF Near
  <2> QED
    BY <2>1
<1>9. S \subseteq Nat
  OBVIOUS
<1> HIDE DEF S
<1>10. S = Nat
  BY <1>7, <1>8, <1>9, Induct
<1>11. B + 1 \in S
  BY <1>6, <1>10
<1> DEFINE q == z.rson[Root(z.dict[r])]
<1>12. IsWay(z, r, q, f[q])
  <2>1. CASE q = NIL
    BY <1>3, <2>1
  <2>2. CASE q # NIL
    <3>1. Root(z.dict[r]) \in Roots
      BY RootsAre
    <3>2. q \in InTree(z) /\ z.parent[q] = Root(z.dict[r])
      BY <1>2, <2>2, <3>1 DEF Tree, Links, RightInv
    <3>3. z.parent[q] = Root(z.dict[q]) /\ z.dict[q] \in Nat /\ z.dict[r] \in Nat
      <4>1. z.parent[q] = Root(z.dict[q])
        BY <1>2, <3>1, <3>2 DEF Tree, Links, RootInv
      <4>2. \A x \in Strings : z.dict[x] \in Nat
        BY TextTypes
      <4> QED
        BY <1>2, <3>2, <4>1, <4>2
    <3>4. z.dict[q] = z.dict[r]
      BY <3>2, <3>3, LzssAssumption DEF Root
    <3>5. rk[q] \in 0..B
      BY <1>2, <1>6, <3>2
    <3>6. q \in Near(B + 1)
      BY <1>6, <3>2, <3>4, <3>5
    <3> HIDE DEF q, Near
    <3> QED
      BY <1>11, <3>6 DEF S
  <2> QED
    BY <2>1, <2>2
<1> QED
  BY <1>1, <1>12

\* What the links of a node are.
LEMMA TreeIs ==
    ASSUME NEW z, NEW rk, NEW B, Tree(z, rk, B), z \in Compressor
    PROVE  /\ InTree(z) = Att(z.parent) /\ InTree(z) \subseteq Strings
           /\ NIL \notin Strings /\ NIL \notin Roots /\ (\A x \in Roots : x \notin Strings)
           /\ LinkTypes(z.lson, z.rson, z.parent)
           /\ B \in Nat /\ \A x \in Strings : rk[x] \in 0..B
           /\ \A p \in InTree(z) :
                /\ z.parent[p] \in InTree(z) \union Roots /\ z.parent[p] # p
                /\ z.parent[p] \notin Roots =>
                     rk[z.parent[p]] < rk[p] /\ z.dict[z.parent[p]] = z.dict[p]
                /\ \A q \in {z.lson[p], z.rson[p]} : q # NIL =>
                     /\ q \in InTree(z) /\ z.parent[q] = p /\ rk[p] < rk[q] /\ z.dict[q] = z.dict[p]
                     /\ q # p /\ q # z.parent[p]
<1>1. /\ InTree(z) = Att(z.parent) /\ InTree(z) \subseteq Strings
      /\ NIL \notin Strings /\ NIL \notin Roots /\ (\A x \in Roots : x \notin Strings)
  BY RootsAre DEF InTree, Att, Strings
<1>2. /\ UpInv(z.parent) /\ ChildInv(z.dict, z.lson, z.rson, z.parent) /\ LeftInv(z.lson, z.parent)
      /\ RightInv(z.rson, z.parent) /\ LinkTypes(z.lson, z.rson, z.parent)
  BY DEF Tree, Links
<1>3. /\ B \in Nat /\ rk \in [Strings -> 0..B]
      /\ \A x \in InTree(z) : z.parent[x] \notin Roots => rk[z.parent[x]] < rk[x]
  BY <1>1 DEF Tree, Ranked
<1>4. \A x \in Strings : rk[x] \in 0..B /\ rk[x] \in Int
  BY <1>3
<1>5. ASSUME NEW p \in InTree(z) PROVE
        /\ z.parent[p] \in InTree(z) \union Roots /\ z.parent[p] # p
        /\ z.parent[p] \notin Roots => rk[z.parent[p]] < rk[p] /\ z.dict[z.parent[p]] = z.dict[p]
  <2>1. z.parent[p] \in InTree(z) \union Roots
    BY <1>1, <1>2 DEF UpInv
  <2>2. z.parent[p] \notin Roots => rk[z.parent[p]] < rk[p] /\ z.dict[z.parent[p]] = z.dict[p]
    BY <1>1, <1>2, <1>3 DEF ChildInv
  <2> QED
    BY <1>1, <1>4, <2>1, <2>2
<1>6. ASSUME NEW p \in InTree(z), NEW q \in {z.lson[p], z.rson[p]}, q # NIL PROVE
        /\ q \in InTree(z) /\ z.parent[q] = p /\ rk[p] < rk[q] /\ z.dict[q] = z.dict[p]
        /\ q # p /\ q # z.parent[p]
  <2>1. q \in InTree(z) /\ z.parent[q] = p
    BY <1>1, <1>2, <1>6 DEF LeftInv, RightInv
  <2>2. rk[p] < rk[q] /\ z.dict[q] = z.dict[p]
    BY <1>1, <1>2, <1>3, <2>1 DEF ChildInv
  <2>3. q # p
    BY <1>1, <1>4, <2>1, <2>2
  <2>4. q # z.parent[p]
    <3> SUFFICES ASSUME q = z.parent[p] PROVE FALSE
      OBVIOUS
    <3>1. rk[q] < rk[p]
      BY <1>1, <1>5, <2>1
    <3> QED
      BY <1>1, <1>4, <2>1, <2>2, <3>1
  <2> QED
    BY <2>1, <2>2, <2>3, <2>4
<1> QED
  BY <1>1, <1>2, <1>3, <1>4, <1>5, <1>6

\* The longest match on the way.
Best(way) ==
    CHOOSE b \in ToSet(way) : \A i \in DOMAIN way :
       way[i].len < b.len \/ (way[i].len = b.len /\ \E j \in 1..i : way[j] = b)

\* It is on the way, and none is longer.
LEMMA BestIs ==
    ASSUME NEW way \in Seq(Stage), Len(way) >= 1
    PROVE  /\ \E i \in 1..Len(way) : Best(way) = way[i]
           /\ \A i \in 1..Len(way) : way[i].len <= Best(way).len
<1>1. DOMAIN way = 1..Len(way) /\ Len(way) \in Nat /\ \A i \in 1..Len(way) : way[i] \in Stage
  OBVIOUS
<1>2. F \in Nat /\ \A i \in 1..Len(way) : way[i].len \in 1..F
  BY <1>1, Numbers DEF Stage
<1> DEFINE T == {F - way[i].len : i \in 1..Len(way)}
<1>3. T \subseteq Nat /\ T # {}
  BY <1>1, <1>2
<1>4. PICK t \in T : \A u \in T : t <= u
  <2> HIDE DEF T
  <2> QED
    BY <1>3, LeastNat
<1>5. PICK m \in 1..Len(way) : t = F - way[m].len
  OBVIOUS
<1>6. \A i \in 1..Len(way) : way[i].len <= way[m].len
  <2> SUFFICES ASSUME NEW i \in 1..Len(way) PROVE way[i].len <= way[m].len
    OBVIOUS
  <2>1. F - way[i].len \in T
    OBVIOUS
  <2>2. F - way[m].len <= F - way[i].len
    BY <1>4, <1>5, <2>1
  <2> QED
    BY <1>2, <2>2
<1> DEFINE U == {i \in 1..Len(way) : way[i].len = way[m].len}
<1>7. U \subseteq Nat /\ U # {}
  OBVIOUS
<1>8. PICK n \in U : \A u \in U : n <= u
  <2> HIDE DEF U
  <2> QED
    BY <1>7, LeastNat
<1>9. ASSUME NEW i \in 1..Len(way)
      PROVE  way[i].len < way[n].len \/ (way[i].len = way[n].len /\ \E j \in 1..i : way[j] = way[n])
  <2>1. way[i].len <= way[n].len /\ way[i].len \in Int /\ way[n].len \in Int
    BY <1>2, <1>6, <1>8
  <2>2. CASE way[i].len = way[n].len
    <3>1. i \in U
      BY <1>8, <2>2
    <3>2. n \in 1..i
      BY <1>8, <3>1
    <3> QED
      BY <2>2, <3>2
  <2> QED
    BY <2>1, <2>2
<1>10. way[n] \in ToSet(way)
  BY <1>1, <1>8 DEF ToSet
<1>11. /\ Best(way) \in ToSet(way)
       /\ \A i \in DOMAIN way :
            way[i].len < Best(way).len \/ (way[i].len = Best(way).len /\ \E j \in 1..i : way[j] = Best(way))
  <2> HIDE DEF T, U
  <2> QED
    BY <1>1, <1>9, <1>10, Zenon DEF Best
<1>12. PICK k \in 1..Len(way) : Best(way) = way[k]
  BY <1>1, <1>11 DEF ToSet
<1>13. ASSUME NEW i \in 1..Len(way) PROVE way[i].len <= way[k].len
  <2>1. way[i].len < Best(way).len \/ way[i].len = Best(way).len
    BY <1>1, <1>11
  <2>2. way[i].len < way[k].len \/ way[i].len = way[k].len
    BY <1>12, <2>1
  <2> QED
    BY <1>2, <2>2
<1> QED
  BY <1>12, <1>13

\* Only the match is another.
WithMatch(y, a, b) == [y EXCEPT !.matchPos = a, !.matchLen = b]

\* The same, field by field.
LEMMA MatchSet ==
    ASSUME NEW y \in Compressor, NEW a \in Strings, NEW b \in 0..F, NEW z, SameText(y, z),
           NEW x, x = WithMatch(y, a, b)
    PROVE  /\ x \in Compressor /\ SameText(x, z) /\ x.matchPos = a /\ x.matchLen = b
           /\ x.dict = y.dict /\ x.lson = y.lson /\ x.rson = y.rson /\ x.parent = y.parent
BY DEF Compressor, SameText, WithMatch

\* There is no match.
LEMMA MatchNone ==
    ASSUME NEW y \in Compressor, NEW z, SameText(y, z), NEW x, x = [y EXCEPT !.matchLen = 0]
    PROVE  /\ x \in Compressor /\ SameText(x, z) /\ x.matchLen = 0
           /\ x.dict = y.dict /\ x.lson = y.lson /\ x.rson = y.rson /\ x.parent = y.parent
<1>1. 0 \in 0..F
  BY Numbers
<1> QED
  BY <1>1 DEF Compressor, SameText

\* The string at r agrees with one that was in the tree in as many bytes as the match says.
Matched(y, z, r) ==
    y.matchLen # 0 =>
        /\ y.matchPos \in InTree(z)
        /\ \A j \in 0..y.matchLen-1 : z.dict[r + j] = z.dict[y.matchPos + j]

\* The links with r in: below its root, in the place of p, or below p.
AtRootMoves(y, z, r) ==
    /\ z.rson[Root(z.dict[r])] = NIL /\ Att(y.parent) = Att(z.parent) \union {r}
    /\ \A x \in Strings : y.lson[x] = IF x = r THEN NIL ELSE z.lson[x]
    /\ \A x \in Strings \union Roots :
          y.rson[x] = IF x = r THEN NIL ELSE IF x = Root(z.dict[r]) THEN r ELSE z.rson[x]
ReplaceMoves(y, z, r, p, up) ==
    /\ Att(y.parent) = (Att(z.parent) \ {p}) \union {r}
    /\ up = z.parent[p] /\ up # p /\ z.lson[p] # p /\ z.rson[p] # p
    /\ \A x \in Strings :
          y.lson[x] = IF x = r THEN z.lson[p] ELSE IF z.rson[up] # p /\ x = up THEN r ELSE z.lson[x]
    /\ \A x \in Strings \union Roots :
          y.rson[x] = IF x = r THEN z.rson[p] ELSE IF z.rson[up] = p /\ x = up THEN r ELSE z.rson[x]
HangMoves(y, z, r, p, left) ==
    /\ Att(y.parent) = Att(z.parent) \union {r}
    /\ \A x \in Strings : y.lson[x] = IF x = r THEN NIL ELSE IF left /\ x = p THEN r ELSE z.lson[x]
    /\ \A x \in Strings \union Roots :
          y.rson[x] = IF x = r THEN NIL ELSE IF ~left /\ x = p THEN r ELSE z.rson[x]

\* What InsertNode does at the end of the way.
Inserted(y, z, r, way) ==
    \/ way = << >> /\ y.matchLen = 0 /\ AtRootMoves(y, z, r)
    \/ /\ way # << >> /\ y.matchLen = Best(way).len
       /\ LET p == way[Len(way)].node
              i == way[Len(way)].len
          IN  IF i = F THEN ReplaceMoves(y, z, r, p, z.parent[p])
              ELSE HangMoves(y, z, r, p, z.dict[r + i] < z.dict[p + i])

\* This depends on the links alone.
LEMMA SameLinksMove ==
    ASSUME NEW z, NEW x, NEW y, y.lson = x.lson, y.rson = x.rson, y.parent = x.parent,
           NEW r, NEW p, NEW up, NEW left
    PROVE  /\ ReplaceMoves(x, z, r, p, up) => ReplaceMoves(y, z, r, p, up)
           /\ HangMoves(x, z, r, p, left) => HangMoves(y, z, r, p, left)
<1>1. ReplaceMoves(x, z, r, p, up) => ReplaceMoves(y, z, r, p, up)
  BY Zenon DEF ReplaceMoves
<1>2. HangMoves(x, z, r, p, left) => HangMoves(y, z, r, p, left)
  BY Zenon DEF HangMoves
<1> QED
  BY <1>1, <1>2

\* InsertNode keeps the trees, puts r in, and finds a string that agrees.
LEMMA InsertIs ==
    ASSUME NEW z \in Compressor, NEW rk, NEW B, Tree(z, rk, B), NEW r \in Strings,
           r \notin InTree(z), z.dict[r] \in Char,
           NEW way, way = Way(z, r), NEW y, y = InsertNode(z, r, way)
    PROVE  /\ y \in Compressor /\ SameText(y, z)
           /\ \E k2, B2 : Tree(y, k2, B2)
           /\ r \in InTree(y) /\ InTree(y) \subseteq InTree(z) \union {r}
           /\ Matched(y, z, r) /\ Inserted(y, z, r, way)
<1> DEFINE c == Root(z.dict[r])
           end == way[Len(way)]
           p == end.node
           left == z.dict[r + end.len] < z.dict[p + end.len]
<1>t. /\ InTree(z) = Att(z.parent) /\ InTree(z) \subseteq Strings
      /\ NIL \notin Strings /\ NIL \notin Roots /\ (\A x \in Roots : x \notin Strings)
      /\ LinkTypes(z.lson, z.rson, z.parent) /\ Links(z.dict, z.lson, z.rson, z.parent)
      /\ Ranked(z.parent, rk, B)
  BY TreeIs DEF Tree
<1>w. IsWay(z, r, z.rson[c], way)
  BY WayIs
<1>c. c \in Roots
  BY RootsAre
<1>l. Len(way) \in Nat /\ way \in Seq(Stage)
  BY <1>w DEF IsWay
<1>1. CASE way = << >>
  <2>1. z.rson[c] = NIL
    BY <1>1, <1>w DEF IsWay
  <2> DEFINE x == AtRoot(z, c, r)
  <2>2. /\ x \in Compressor /\ SameText(x, z)
        /\ \A a \in Strings : x.parent[a] = IF a = r THEN c ELSE z.parent[a]
        /\ \A a \in Strings : x.lson[a] = IF a = r THEN NIL ELSE z.lson[a]
        /\ \A a \in Strings \union Roots : x.rson[a] = IF a = r THEN NIL ELSE IF a = c THEN r ELSE z.rson[a]
    <3>1. x = AtRoot(z, c, r)
      OBVIOUS
    <3> HIDE DEF x, c
    <3> QED
      BY <1>c, <3>1, HangAtRoot
  <2>3. y = [x EXCEPT !.matchLen = 0]
    BY <1>1 DEF InsertNode, AtRoot
  <2> HIDE DEF x
  <2>4. /\ y \in Compressor /\ SameText(y, z) /\ y.matchLen = 0
        /\ y.dict = z.dict /\ y.lson = x.lson /\ y.rson = x.rson /\ y.parent = x.parent
    BY <2>2, <2>3, MatchNone DEF SameText
  <2>5. LinkTypes(y.lson, y.rson, y.parent)
    BY <2>4 DEF Compressor, LinkTypes
  <2>6. /\ Links(z.dict, y.lson, y.rson, y.parent) /\ Att(y.parent) = Att(z.parent) \union {r}
    <3> HIDE DEF c
    <3>1. c \in Roots => c = Root(z.dict[r])
      BY DEF c
    <3> QED
      BY <1>t, <1>c, <2>1, <2>2, <2>4, <2>5, <3>1, HangLinks
  <2>7. \E k2, B2 : Ranked(y.parent, k2, B2)
    <3>1. Ranked([z.parent EXCEPT ![r] = c], [rk EXCEPT ![r] = B + 1], B + 1)
      BY <1>t, <1>c, HangRanked
    <3>2. y.parent = [z.parent EXCEPT ![r] = c]
      BY <2>4 DEF x, AtRoot, Hang, Compressor
    <3> QED
      BY <3>1, <3>2
  <2>8. InTree(y) = Att(y.parent)
    BY DEF InTree, Att, Strings
  <2>9. AtRootMoves(y, z, r)
    BY <2>1, <2>2, <2>4, <2>6 DEF AtRootMoves
  <2> QED
    BY <1>1, <1>t, <2>4, <2>6, <2>7, <2>8, <2>9 DEF Tree, Matched, Inserted
<1>2. CASE way # << >>
  <2>1. /\ Len(way) >= 1 /\ end \in Stage /\ p \in InTree(z) /\ p \in Strings /\ z.dict[p] = z.dict[r]
        /\ end.len = Shared(z, p, r) /\ (end.len = F \/ Side(z, r, p) = NIL)
    <3>1. Len(way) >= 1
      BY <1>2, <1>l
    <3>2. z.rson[c] # NIL
      BY <3>1, <1>w DEF IsWay
    <3> QED
      BY <1>t, <1>l, <1>w, <3>1, <3>2 DEF IsWay
  <2> DEFINE x == IF end.len = F THEN Replace(z, p, r) ELSE Hang(z, p, r, left)
  <2>2. y = WithMatch(x, Best(way).node, Best(way).len)
    BY <1>2, Zenon DEF InsertNode, Best, Last, WithMatch
  <2>3. PICK i \in 1..Len(way) : Best(way) = way[i]
    BY <1>l, <2>1, BestIs
  <2>4. /\ Best(way).node \in InTree(z) /\ Best(way).len \in 1..F
        /\ Best(way).len = Shared(z, Best(way).node, r)
        /\ z.dict[Best(way).node] = z.dict[r]
    <3>1. /\ way[i].node \in InTree(z) /\ z.dict[way[i].node] = z.dict[r]
          /\ way[i].len = Shared(z, way[i].node, r)
      BY <1>w DEF IsWay
    <3>2. way[i] \in Stage
      BY <1>l, <2>3
    <3>3. way[i].len \in 1..F
      BY <3>2 DEF Stage
    <3> QED
      BY <2>3, <3>1, <3>3
  <2>5. ASSUME NEW j \in 0..Best(way).len-1 PROVE z.dict[r + j] = z.dict[Best(way).node + j]
    <3>1. CASE j = 0
      BY <1>t, <2>4, <3>1 DEF Strings
    <3>2. CASE j # 0
      BY <2>4, <3>2, SharedIs
    <3> QED
      BY <3>1, <3>2
  <2>6. /\ x \in Compressor /\ SameText(x, z)
        /\ Links(z.dict, x.lson, x.rson, x.parent)
        /\ r \in Att(x.parent) /\ Att(x.parent) \subseteq Att(z.parent) \union {r}
        /\ \E k2, B2 : Ranked(x.parent, k2, B2)
        /\ IF end.len = F THEN ReplaceMoves(x, z, r, p, z.parent[p]) ELSE HangMoves(x, z, r, p, left)
    <3>1. CASE end.len = F
      <4>0. x = Replace(z, p, r)
        BY <3>1
      <4> HIDE DEF p, x
      <4> DEFINE up == z.parent[p]
      <4>1. /\ up # p /\ z.lson[p] # p /\ z.rson[p] # p /\ r # p /\ z.lson[p] # r /\ z.rson[p] # r
        BY <1>t, <2>1, TreeIs
      <4>2. /\ x \in Compressor /\ SameText(x, z)
            /\ \A a \in Strings :
                 x.parent[a] = IF a = p THEN NIL ELSE IF a = r THEN up
                               ELSE IF a \in {z.lson[p], z.rson[p]} THEN r ELSE z.parent[a]
            /\ \A a \in Strings :
                 x.lson[a] = IF a = r THEN z.lson[p]
                             ELSE IF z.rson[up] # p /\ a = up THEN r ELSE z.lson[a]
            /\ \A a \in Strings \union Roots :
                 x.rson[a] = IF a = r THEN z.rson[p]
                             ELSE IF z.rson[up] = p /\ a = up THEN r ELSE z.rson[a]
        BY <2>1, <4>0, <4>1, ReplaceIs
      <4>3. LinkTypes(x.lson, x.rson, x.parent)
        BY <4>2 DEF Compressor, LinkTypes
      <4>4. /\ Links(z.dict, x.lson, x.rson, x.parent)
            /\ Att(x.parent) = (Att(z.parent) \ {p}) \union {r}
        <5>1. p \in Att(z.parent) /\ r \notin Att(z.parent)
          BY <1>t, <2>1
        <5>2. up = z.parent[p]
          OBVIOUS
        <5> HIDE DEF up
        <5> QED
          BY <1>t, <2>1, <4>1, <4>2, <4>3, <5>1, <5>2, ReplaceLinks
      <4>5. Ranked(x.parent, [rk EXCEPT ![r] = rk[p]], B)
        <5>1. p \in Att(z.parent) /\ r \notin Att(z.parent) /\ r # p /\ x.parent[r] = z.parent[p]
          BY <1>t, <2>1, <4>1, <4>2
        <5>2. ASSUME NEW a \in Att(x.parent) \ {r} PROVE
                /\ a \in Att(z.parent) /\ a # p
                /\ \/ x.parent[a] = z.parent[a] /\ z.parent[a] # p
                   \/ z.parent[a] = p /\ x.parent[a] = r
          <6>1. a \in Att(z.parent) /\ a # p /\ a # r
            BY <4>4
          <6>2. CASE a \in {z.lson[p], z.rson[p]}
            BY <1>t, <2>1, <4>2, <6>1, <6>2, TreeIs
          <6>3. CASE a \notin {z.lson[p], z.rson[p]}
            <7>1. x.parent[a] = z.parent[a]
              BY <1>t, <4>2, <6>1, <6>3
            <7>2. z.parent[a] # p
              BY <1>t, <2>1, <6>1, <6>3 DEF Links, ChildInv
            <7> QED
              BY <6>1, <7>1, <7>2
          <6> QED
            BY <6>2, <6>3
        <5>3. TakesOver(z.parent, x.parent, p, r)
          BY <5>2 DEF TakesOver
        <5> QED
          BY <1>t, <5>1, <5>3, TakeOverRanked
      <4>6. ReplaceMoves(x, z, r, p, up)
        BY <4>1, <4>2, <4>4 DEF ReplaceMoves
      <4> QED
        BY <1>t, <2>1, <3>1, <4>2, <4>4, <4>5, <4>6
    <3>2. CASE end.len # F
      <4>0. x = Hang(z, p, r, left)
        BY <3>2
      <4>1. left \in BOOLEAN /\ Side(z, r, p) = NIL
        BY <2>1, <3>2
      <4>2. IF left THEN z.lson[p] = NIL ELSE z.rson[p] = NIL
        BY <2>1, <4>1 DEF Side
      <4> HIDE DEF p, left, x
      <4>3. /\ x \in Compressor /\ SameText(x, z)
            /\ \A a \in Strings : x.parent[a] = IF a = r THEN p ELSE z.parent[a]
            /\ \A a \in Strings : x.lson[a] = IF a = r THEN NIL ELSE IF left /\ a = p THEN r ELSE z.lson[a]
            /\ \A a \in Strings \union Roots :
                  x.rson[a] = IF a = r THEN NIL ELSE IF ~left /\ a = p THEN r ELSE z.rson[a]
        BY SMTT(30), <2>1, <4>0, <4>1, HangIs
      <4>4. LinkTypes(x.lson, x.rson, x.parent)
        BY <4>3 DEF Compressor, LinkTypes
      <4>5. p \in Att(z.parent) /\ r \notin Att(z.parent) /\ p \notin Roots
        BY <1>t, <2>1
      <4>6. /\ Links(z.dict, x.lson, x.rson, x.parent)
            /\ Att(x.parent) = Att(z.parent) \union {r}
        <5>1. CASE left
          <6>1. /\ \A a \in Strings : x.lson[a] = IF a = r THEN NIL ELSE IF a = p THEN r ELSE z.lson[a]
                /\ \A a \in Strings \union Roots : x.rson[a] = IF a = r THEN NIL ELSE z.rson[a]
                /\ z.lson[p] = NIL /\ p \in Strings
            BY <2>1, <4>2, <4>3, <5>1
          <6> QED
            BY <1>t, <2>1, <4>3, <4>4, <4>5, <6>1, HangLinks
        <5>2. CASE ~left
          <6>1. /\ \A a \in Strings : x.lson[a] = IF a = r THEN NIL ELSE z.lson[a]
                /\ \A a \in Strings \union Roots : x.rson[a] = IF a = r THEN NIL ELSE IF a = p THEN r ELSE z.rson[a]
                /\ z.rson[p] = NIL
            BY <2>1, <4>2, <4>3, <5>2
          <6> QED
            BY <1>t, <2>1, <4>3, <4>4, <4>5, <6>1, HangLinks
        <5> QED
          BY <5>1, <5>2
      <4>7. \E k2, B2 : Ranked(x.parent, k2, B2)
        <5>1. Ranked([z.parent EXCEPT ![r] = p], [rk EXCEPT ![r] = B + 1], B + 1)
          BY <1>t, <4>5, HangRanked
        <5>2. x.parent = [z.parent EXCEPT ![r] = p]
          BY <4>0 DEF Hang, Compressor
        <5> QED
          BY <5>1, <5>2
      <4>8. HangMoves(x, z, r, p, left)
        BY <4>3, <4>6 DEF HangMoves
      <4> QED
        BY <3>2, <4>3, <4>6, <4>7, <4>8
    <3> QED
      BY <3>1, <3>2
  <2> HIDE DEF x
  <2>7. /\ y \in Compressor /\ SameText(y, z) /\ y.matchPos = Best(way).node /\ y.matchLen = Best(way).len
        /\ y.dict = z.dict /\ y.lson = x.lson /\ y.rson = x.rson /\ y.parent = x.parent
    <3>1. Best(way).node \in Strings /\ Best(way).len \in 0..F
      BY <1>t, <2>4
    <3>2. x.dict = z.dict
      BY <2>6 DEF SameText
    <3> QED
      BY <2>2, <2>6, <3>1, <3>2, MatchSet
  <2>8. InTree(y) = Att(y.parent)
    BY DEF InTree, Att, Strings
  <2>9. \E k2, B2 : Tree(y, k2, B2)
    BY <2>6, <2>7 DEF Tree
  <2>10. Matched(y, z, r)
    BY <2>4, <2>5, <2>7 DEF Matched
  <2>11. Inserted(y, z, r, way)
    <3>1. CASE end.len = F
      <4>1. ReplaceMoves(y, z, r, p, z.parent[p])
        BY <2>6, <2>7, <3>1, SameLinksMove
      <4> QED
        BY <1>2, <2>7, <3>1, <4>1 DEF Inserted
    <3>2. CASE end.len # F
      <4>1. HangMoves(y, z, r, p, left)
        BY <2>6, <2>7, <3>2, SameLinksMove
      <4> QED
        BY <1>2, <2>7, <3>2, <4>1 DEF Inserted
    <3> QED
      BY <3>1, <3>2
  <2> QED
    BY <1>t, <2>6, <2>7, <2>8, <2>9, <2>10, <2>11
<1> QED
  BY <1>1, <1>2

-----------------------------------------------------------------------------
(* A string is deleted.                                                   *)

\* A step of the way to the right.
RightStep(z, f) == [x \in InTree(z) |-> IF z.rson[x] = NIL THEN x ELSE f[z.rson[x]]]

\* The end of the way to the right from x.
RightmostOf(z, x) ==
    LET rightmost[y \in InTree(z)] == IF z.rson[y] = NIL THEN y ELSE rightmost[z.rson[y]] IN rightmost[x]

\* It is that recursion.
LEMMA RightChoice ==
    ASSUME NEW z, NEW x, NEW g, g = RightStep(z, g)
    PROVE  \E f : f = RightStep(z, f) /\ RightmostOf(z, x) = f[x]
<1> DEFINE f == CHOOSE h : h = RightStep(z, h)
<1>1. f = RightStep(z, f)
  OBVIOUS
<1>2. RightmostOf(z, x) = f[x]
  BY Zenon DEF RightmostOf, RightStep
<1> QED BY <1>1, <1>2

\* Which comes to an end.
LEMMA RightFunction ==
    ASSUME NEW z \in Compressor, NEW rk, NEW B, Tree(z, rk, B)
    PROVE  \E f : f = RightStep(z, f)
<1> DEFINE D == InTree(z)
           stop == {x \in D : z.rson[x] = NIL}
           base == [x \in D |-> x]
           nx   == [x \in D |-> IF x \in stop THEN x ELSE z.rson[x]]
           h    == [t \in D \X D |-> t[2]]
           rank == [x \in D |-> B - rk[x]]
<1>1. B \in Nat /\ D \subseteq Strings /\ \A x \in D : rk[x] \in 0..B
  BY TreeIs
<1>2. base \in [D -> D] /\ h \in [D \X D -> D]
  OBVIOUS
<1>3. \A x \in D \ stop : z.rson[x] \in D /\ rk[x] < rk[z.rson[x]]
  BY TreeIs
<1>4. nx \in [D -> D]
  BY <1>3
<1>5. rank \in [D -> 0..B]
  BY <1>1
<1>6. \A x \in D \ stop : rank[nx[x]] < rank[x]
  BY <1>1, <1>3
<1> HIDE DEF stop, base, nx, h, rank, D
<1>7. Descends(D, D, B, rank, stop, base, nx, h)
  BY <1>1, <1>2, <1>4, <1>5, <1>6 DEF Descends
<1>8. PICK f \in [D -> D] : \A x \in D : f[x] = IF x \in stop THEN base[x] ELSE h[<<x, f[nx[x]]>>]
  BY <1>7, Recursion
<1>9. ASSUME NEW x \in D PROVE f[x] = IF z.rson[x] = NIL THEN x ELSE f[z.rson[x]]
  <2>1. CASE z.rson[x] = NIL
    BY <1>8, <2>1 DEF stop, base
  <2>2. CASE z.rson[x] # NIL
    <3>1. x \notin stop /\ nx[x] = z.rson[x] /\ z.rson[x] \in D
      BY <1>3, <2>2 DEF stop, nx
    <3>2. h[<<x, f[nx[x]]>>] = f[nx[x]]
      BY <1>8, <3>1 DEF h
    <3> QED
      BY <1>8, <2>2, <3>1, <3>2
  <2> QED
    BY <2>1, <2>2
<1>10. f = [x \in D |-> f[x]]
  BY <1>8
<1>11. f = RightStep(z, f)
  BY <1>9, <1>10 DEF RightStep, D
<1> QED
  BY <1>11

\* q is at the end of the way to the right from x.
IsRightmost(z, rk, x, q) ==
    /\ q \in InTree(z) /\ z.rson[q] = NIL /\ z.dict[q] = z.dict[x] /\ rk[x] <= rk[q]
    /\ q # x => /\ z.parent[q] \in InTree(z) /\ z.rson[z.parent[q]] = q /\ rk[x] <= rk[z.parent[q]]

\* The way to the right ends there.
LEMMA RightmostIs ==
    ASSUME NEW z \in Compressor, NEW rk, NEW B, Tree(z, rk, B), NEW a \in InTree(z)
    PROVE  IsRightmost(z, rk, a, RightmostOf(z, a))
<1>1. PICK f : f = RightStep(z, f) /\ RightmostOf(z, a) = f[a]
  BY RightFunction, RightChoice
<1>2. ASSUME NEW x \in InTree(z) PROVE f[x] = IF z.rson[x] = NIL THEN x ELSE f[z.rson[x]]
  <2>1. RightStep(z, f)[x] = IF z.rson[x] = NIL THEN x ELSE f[z.rson[x]]
    BY DEF RightStep
  <2> QED
    BY <1>1, <2>1
<1>3. B \in Nat /\ InTree(z) \subseteq Strings /\ \A x \in InTree(z) : rk[x] \in 0..B /\ rk[x] \in Int
  BY TreeIs
<1> DEFINE Near(n) == {x \in InTree(z) : B - rk[x] < n}
           S == {n \in Nat : \A x \in Near(n) : IsRightmost(z, rk, x, f[x])}
<1>4. 0 \in S
  BY <1>3
<1>5. ASSUME NEW n \in S PROVE n + 1 \in S
  <2>1. ASSUME NEW x \in Near(n + 1) PROVE IsRightmost(z, rk, x, f[x])
    <3>1. CASE z.rson[x] = NIL
      BY <1>2, <1>3, <3>1 DEF IsRightmost
    <3>2. CASE z.rson[x] # NIL
      <4> DEFINE r == z.rson[x]
      <4>1. r \in InTree(z) /\ rk[x] < rk[r] /\ z.dict[r] = z.dict[x] /\ z.parent[r] = x
        BY <3>2, TreeIs
      <4>2. r \in Near(n) /\ f[x] = f[r]
        BY <1>2, <1>3, <3>2, <4>1
      <4>3. IsRightmost(z, rk, r, f[r])
        BY <4>2
      <4> HIDE DEF r
      <4>4. f[r] \in InTree(z) /\ rk[f[r]] \in Int /\ rk[r] <= rk[f[r]]
        BY <1>3, <4>3 DEF IsRightmost
      <4>5. rk[x] \in Int /\ rk[r] \in Int
        BY <1>3, <4>1
      <4>6. CASE f[r] = r
        BY <4>1, <4>2, <4>3, <4>4, <4>5, <4>6 DEF IsRightmost, r
      <4>7. CASE f[r] # r
        <5>1. /\ z.parent[f[r]] \in InTree(z) /\ z.rson[z.parent[f[r]]] = f[r] /\ rk[r] <= rk[z.parent[f[r]]]
              /\ rk[z.parent[f[r]]] \in Int
          BY <1>3, <4>3, <4>7 DEF IsRightmost
        <5> QED
          BY <4>1, <4>2, <4>3, <4>4, <4>5, <5>1 DEF IsRightmost
      <4> QED
        BY <4>6, <4>7
    <3> QED
      BY <3>1, <3>2
  <2> HIDE DEF Near
  <2> QED
    BY <2>1
<1>6. S \subseteq Nat
  OBVIOUS
<1> HIDE DEF S
<1>7. S = Nat
  BY <1>4, <1>5, <1>6, Induct
<1>8. B + 1 \in S /\ a \in Near(B + 1)
  BY <1>3, <1>7
<1> QED
  BY <1>1, <1>8 DEF S

\* Heir, case by case.
LEMMA HeirIs ==
    ASSUME NEW z, NEW p
    PROVE  /\ z.rson[p] = NIL => Heir(z, p) = z.lson[p]
           /\ z.rson[p] # NIL /\ z.lson[p] = NIL => Heir(z, p) = z.rson[p]
           /\ z.rson[p] # NIL /\ z.lson[p] # NIL => Heir(z, p) = RightmostOf(z, z.lson[p])
BY Zenon DEF Heir, RightmostOf

\* q is put where p was.
PutAt(y, p, q, up) ==
    [y EXCEPT
        !.rson = [x \in DOMAIN @ |-> IF y.rson[up] = p /\ x = up THEN q ELSE @[x]],
        !.lson = [x \in DOMAIN @ |-> IF ~(y.rson[up] = p) /\ x = up THEN q ELSE @[x]],
        !.parent = [@ EXCEPT ![q] = up, ![p] = NIL]]

\* DeleteNode has the heir inherit and puts it where p was.
LEMMA DeleteNodeIs ==
    ASSUME NEW z, NEW p, z.parent[p] # NIL
    PROVE  DeleteNode(z, p) = PutAt(Inherit(z, p, Heir(z, p)), p, Heir(z, p), z.parent[p])
BY DEF DeleteNode, PutAt

\* The match stays.
SameMatch(y, z) == y.matchPos = z.matchPos /\ y.matchLen = z.matchLen

\* PutAt, link by link.
IsPutAt(y, z, p, q, up) ==
    /\ y \in Compressor /\ SameText(y, z) /\ SameMatch(y, z)
    /\ \A x \in Strings : y.parent[x] = IF x = p THEN NIL ELSE IF x = q THEN up ELSE z.parent[x]
    /\ \A x \in Strings : y.lson[x] = IF z.rson[up] # p /\ x = up THEN q ELSE z.lson[x]
    /\ \A x \in Strings \union Roots : y.rson[x] = IF z.rson[up] = p /\ x = up THEN q ELSE z.rson[x]

\* It is.
LEMMA PutAtIs ==
    ASSUME NEW z \in Compressor, NEW p \in Strings, NEW q \in Strings \union {NIL}, q # p,
           NEW up \in Strings \union Roots, NEW y, y = PutAt(z, p, q, up)
    PROVE  IsPutAt(y, z, p, q, up)
<1>1. y \in Compressor
  BY DEF PutAt, Compressor
<1>2. SameText(y, z) /\ SameMatch(y, z)
  BY DEF PutAt, Compressor, SameText, SameMatch
<1>3. \A x \in Strings : y.parent[x] = IF x = p THEN NIL ELSE IF x = q THEN up ELSE z.parent[x]
  BY DEF PutAt, Compressor
<1>4. \A x \in Strings : y.lson[x] = IF z.rson[up] # p /\ x = up THEN q ELSE z.lson[x]
  BY DEF PutAt, Compressor
<1>5. \A x \in Strings \union Roots : y.rson[x] = IF z.rson[up] = p /\ x = up THEN q ELSE z.rson[x]
  BY DEF PutAt, Compressor
<1> QED BY <1>1, <1>2, <1>3, <1>4, <1>5 DEF IsPutAt

\* An heir that is the left child inherits the right one.
LEMMA InheritChild ==
    ASSUME NEW z \in Compressor, NEW p \in Strings, NEW q \in Strings, q = z.lson[p],
           NIL \notin {z.lson[p], z.rson[p]}, NEW y, y = Inherit(z, p, q)
    PROVE  /\ y \in Compressor /\ SameText(y, z) /\ SameMatch(y, z)
           /\ \A x \in Strings : y.parent[x] = IF x = z.rson[p] THEN q ELSE z.parent[x]
           /\ \A x \in Strings : y.lson[x] = z.lson[x]
           /\ \A x \in Strings \union Roots : y.rson[x] = IF x = q THEN z.rson[p] ELSE z.rson[x]
<1>0. z.rson[p] \in Strings
  BY DEF Compressor
<1>1. y \in Compressor
  BY <1>0 DEF Inherit, Compressor
<1>2. SameText(y, z) /\ SameMatch(y, z)
  BY DEF Inherit, Compressor, SameText, SameMatch
<1>3. \A x \in Strings : y.parent[x] = IF x = z.rson[p] THEN q ELSE z.parent[x]
  BY <1>0 DEF Inherit, Compressor
<1>4. \A x \in Strings : y.lson[x] = z.lson[x]
  BY DEF Inherit, Compressor
<1>5. \A x \in Strings \union Roots : y.rson[x] = IF x = q THEN z.rson[p] ELSE z.rson[x]
  BY DEF Inherit, Compressor
<1> QED BY <1>1, <1>2, <1>3, <1>4, <1>5

\* Any other inherits both, and leaves its left child to its parent.
LEMMA InheritHeir ==
    ASSUME NEW z \in Compressor, NEW p \in Strings, NEW q \in Strings, q # z.lson[p],
           NIL \notin {z.lson[p], z.rson[p]}, NEW m \in Strings, m = z.parent[q], m # q,
           z.lson[q] \notin {z.lson[p], z.rson[p]},
           NEW y, y = Inherit(z, p, q)
    PROVE  /\ y \in Compressor /\ SameText(y, z) /\ SameMatch(y, z)
           /\ \A x \in Strings : y.parent[x] = IF x \in {z.lson[p], z.rson[p]} THEN q
                                               ELSE IF x = z.lson[q] THEN m ELSE z.parent[x]
           /\ \A x \in Strings : y.lson[x] = IF x = q THEN z.lson[p] ELSE z.lson[x]
           /\ \A x \in Strings \union Roots :
                 y.rson[x] = IF x = q THEN z.rson[p] ELSE IF x = m THEN z.lson[q] ELSE z.rson[x]
<1>0. z.rson[p] \in Strings /\ z.lson[p] \in Strings /\ z.lson[q] \in Strings \union {NIL}
  BY DEF Compressor
<1>1. y \in Compressor
  BY <1>0 DEF Inherit, Compressor
<1>2. SameText(y, z) /\ SameMatch(y, z)
  BY DEF Inherit, Compressor, SameText, SameMatch
<1>3. \A x \in Strings : y.parent[x] = IF x \in {z.lson[p], z.rson[p]} THEN q
                                       ELSE IF x = z.lson[q] THEN m ELSE z.parent[x]
  BY <1>0 DEF Inherit, Compressor
<1>4. \A x \in Strings : y.lson[x] = IF x = q THEN z.lson[p] ELSE z.lson[x]
  BY DEF Inherit, Compressor
<1>5. \A x \in Strings \union Roots :
         y.rson[x] = IF x = q THEN z.rson[p] ELSE IF x = m THEN z.lson[q] ELSE z.rson[x]
  BY DEF Inherit, Compressor
<1> QED BY <1>1, <1>2, <1>3, <1>4, <1>5

\* A child q of p, if it has one at most, takes its place.
SpliceMoves(L, R, P, L2, R2, p, up, q) ==
    /\ up = P[p] /\ up # p /\ q # p
    /\ \/ q = L[p] /\ R[p] = NIL
       \/ q = R[p] /\ L[p] = NIL
    /\ \A x \in Strings : L2[x] = IF R[up] # p /\ x = up THEN q ELSE L[x]
    /\ \A x \in Strings \union Roots : R2[x] = IF R[up] = p /\ x = up THEN q ELSE R[x]

\* What DeleteNode does to the links.
LinksMoved(y, z, p, q) ==
    \/ SpliceMoves(z.lson, z.rson, z.parent, y.lson, y.rson, p, z.parent[p], q)
    \/ /\ ChildPlaces(z.lson, z.rson, z.parent, p, z.parent[p], q)
       /\ ChildMoves(z.lson, z.rson, z.parent, y.lson, y.rson, y.parent, p, z.parent[p], q)
    \/ /\ q = RightmostOf(z, z.lson[p]) /\ z.lson[p] \in InTree(z) /\ z.parent[q] \in Att(z.parent)
       /\ HeirPlaces(z.lson, z.rson, z.parent, p, z.parent[p], q, z.parent[q])
       /\ HeirMoves(z.lson, z.rson, z.parent, y.lson, y.rson, y.parent, p, z.parent[p], q, z.parent[q])

\* What is kept twice is kept.
LEMMA SameTextTwice ==
    ASSUME NEW y, NEW v, NEW z, SameText(y, v), SameMatch(y, v), SameText(v, z), SameMatch(v, z)
    PROVE  SameText(y, z) /\ SameMatch(y, z)
BY DEF SameText, SameMatch

\* What DeleteNode leaves, whatever children p has.
Deleted(y, z, p) ==
    /\ y \in Compressor /\ SameText(y, z) /\ SameMatch(y, z)
    /\ Links(z.dict, y.lson, y.rson, y.parent) /\ Att(y.parent) = Att(z.parent) \ {p}
    /\ \E k2, B2 : Ranked(y.parent, k2, B2)
    /\ \E q : LinksMoved(y, z, p, q)

\* A string with a child at most is deleted.
LEMMA SpliceDeleted ==
    ASSUME NEW z \in Compressor, NEW rk, NEW B, Tree(z, rk, B), NEW p \in InTree(z),
           NEW q, \/ z.rson[p] = NIL /\ q = z.lson[p]
                  \/ z.lson[p] = NIL /\ q = z.rson[p],
           NEW y, y = PutAt(z, p, q, z.parent[p])
    PROVE  Deleted(y, z, p)
<1> DEFINE up == z.parent[p]
<1>t. /\ InTree(z) = Att(z.parent) /\ InTree(z) \subseteq Strings
      /\ NIL \notin Strings /\ NIL \notin Roots /\ (\A x \in Roots : x \notin Strings)
      /\ LinkTypes(z.lson, z.rson, z.parent) /\ Links(z.dict, z.lson, z.rson, z.parent)
      /\ Ranked(z.parent, rk, B)
  BY TreeIs DEF Tree
<1>1. /\ up \in InTree(z) \union Roots /\ up # p
      /\ q # NIL => q \in InTree(z) /\ z.parent[q] = p /\ rk[p] < rk[q] /\ q # p /\ q # up
  BY TreeIs
<1>2. p \in Strings /\ p # NIL /\ q \in Strings \union {NIL} /\ q # p /\ q # up /\ up \in Strings \union Roots
  BY <1>t, <1>1
<1>3. up = z.parent[p] /\ y = PutAt(z, p, q, up)
  OBVIOUS
<1> HIDE DEF up
<1>4. /\ y \in Compressor /\ SameText(y, z) /\ SameMatch(y, z)
      /\ \A x \in Strings : y.parent[x] = IF x = p THEN NIL ELSE IF x = q THEN up ELSE z.parent[x]
      /\ \A x \in Strings : y.lson[x] = IF z.rson[up] # p /\ x = up THEN q ELSE z.lson[x]
      /\ \A x \in Strings \union Roots : y.rson[x] = IF z.rson[up] = p /\ x = up THEN q ELSE z.rson[x]
  <2>1. IsPutAt(y, z, p, q, up)
    BY <1>2, <1>3, PutAtIs
  <2> QED
    BY <2>1 DEF IsPutAt
<1>5. LinkTypes(y.lson, y.rson, y.parent)
  BY <1>4 DEF Compressor, LinkTypes
<1>6. Links(z.dict, y.lson, y.rson, y.parent) /\ Att(y.parent) = Att(z.parent) \ {p}
  <2>1. p \in Att(z.parent)
    BY <1>t
  <2> QED
    BY <1>t, <1>1, <1>2, <1>3, <1>4, <1>5, <2>1, SpliceLinks
<1>7. \E k2, B2 : Ranked(y.parent, k2, B2)
  <2>0. \A x \in Att(y.parent) : x \in Strings /\ x \in Att(z.parent) /\ x # p
    BY <1>t, <1>6
  <2>1. CASE q = NIL
    <3>1. \A x \in Att(y.parent) : x \in Att(z.parent) /\ y.parent[x] = z.parent[x]
      BY <1>t, <1>4, <2>0, <2>1
    <3> QED
      BY <1>t, <3>1, DropRanked
  <2>2. CASE q # NIL
    <3>1. p \in Att(z.parent) /\ q \in Strings /\ y.parent[q] = z.parent[p]
      BY <1>t, <1>1, <1>2, <1>3, <1>4, <2>2
    <3>2. \A x \in Att(y.parent) \ {q} : x \in Att(z.parent) /\ x # p /\ y.parent[x] = z.parent[x] /\ z.parent[x] # p
      BY <1>t, <1>4, <2>0 DEF Links, ChildInv
    <3>3. TakesOver(z.parent, y.parent, p, q)
      BY <3>2 DEF TakesOver
    <3>4. Ranked(y.parent, [rk EXCEPT ![q] = rk[p]], B)
      BY <1>t, <1>1, <1>2, <2>2, <3>1, <3>3, TakeOverRanked
    <3> QED
      BY <3>4
  <2> QED
    BY <2>1, <2>2
<1>8. SpliceMoves(z.lson, z.rson, z.parent, y.lson, y.rson, p, up, q)
  <2>1. /\ up = z.parent[p] /\ up # p /\ q # p
        /\ \/ q = z.lson[p] /\ z.rson[p] = NIL
           \/ q = z.rson[p] /\ z.lson[p] = NIL
    BY <1>1, <1>2, <1>3
  <2> QED
    BY <1>4, <2>1 DEF SpliceMoves
<1>9. LinksMoved(y, z, p, q)
  BY <1>3, <1>8 DEF LinksMoved
<1> QED
  BY <1>4, <1>6, <1>7, <1>9 DEF Deleted

\* One whose left child is the heir is.
LEMMA ChildDeleted ==
    ASSUME NEW z \in Compressor, NEW rk, NEW B, Tree(z, rk, B), NEW p \in InTree(z),
           z.lson[p] # NIL, z.rson[p] # NIL, NEW q, q = z.lson[p], z.rson[q] = NIL,
           NEW v, v = Inherit(z, p, q),
           NEW y, y = PutAt(v, p, q, z.parent[p])
    PROVE  Deleted(y, z, p)
<1> DEFINE up == z.parent[p]
<1>t. /\ InTree(z) = Att(z.parent) /\ InTree(z) \subseteq Strings
      /\ NIL \notin Strings /\ NIL \notin Roots /\ (\A x \in Roots : x \notin Strings)
      /\ LinkTypes(z.lson, z.rson, z.parent) /\ Links(z.dict, z.lson, z.rson, z.parent)
      /\ Ranked(z.parent, rk, B)
  BY TreeIs DEF Tree
<1>1. /\ up \in InTree(z) \union Roots /\ up # p
      /\ q \in InTree(z) /\ z.parent[q] = p /\ rk[p] < rk[q] /\ q # p /\ q # up
      /\ z.rson[p] \in InTree(z) /\ z.parent[z.rson[p]] = p /\ rk[p] < rk[z.rson[p]]
      /\ z.rson[p] # p /\ z.rson[p] # up
  BY TreeIs
<1>2. p \in Strings /\ p # NIL /\ q \in Strings /\ up \in Strings \union Roots
  BY <1>t, <1>1
<1>3. up = z.parent[p] /\ y = PutAt(v, p, q, up)
  OBVIOUS
<1> HIDE DEF up
<1>a. z.lson[p] # z.rson[p]
  BY <1>t DEF Links, TwoInv
<1>b. /\ v \in Compressor /\ SameText(v, z) /\ SameMatch(v, z)
      /\ \A x \in Strings : v.parent[x] = IF x = z.rson[p] THEN q ELSE z.parent[x]
      /\ \A x \in Strings : v.lson[x] = z.lson[x]
      /\ \A x \in Strings \union Roots : v.rson[x] = IF x = q THEN z.rson[p] ELSE z.rson[x]
  BY <1>2, InheritChild
<1>c. /\ y \in Compressor /\ SameText(y, v) /\ SameMatch(y, v)
      /\ \A x \in Strings : y.parent[x] = IF x = p THEN NIL ELSE IF x = q THEN up ELSE v.parent[x]
      /\ \A x \in Strings : y.lson[x] = IF v.rson[up] # p /\ x = up THEN q ELSE v.lson[x]
      /\ \A x \in Strings \union Roots : y.rson[x] = IF v.rson[up] = p /\ x = up THEN q ELSE v.rson[x]
  <2>1. v \in Compressor /\ q \in Strings \union {NIL} /\ q # p
    BY <1>1, <1>2, <1>b
  <2>2. IsPutAt(y, v, p, q, up)
    BY <1>2, <1>3, <2>1, PutAtIs
  <2> QED
    BY <2>2 DEF IsPutAt
<1>4. /\ y \in Compressor /\ SameText(y, z) /\ SameMatch(y, z)
      /\ \A x \in Strings :
           y.parent[x] = IF x = p THEN NIL ELSE IF x = q THEN up ELSE IF x = z.rson[p] THEN q ELSE z.parent[x]
      /\ \A x \in Strings : y.lson[x] = IF z.rson[up] # p /\ x = up THEN q ELSE z.lson[x]
      /\ \A x \in Strings \union Roots :
           y.rson[x] = IF z.rson[up] = p /\ x = up THEN q ELSE IF x = q THEN z.rson[p] ELSE z.rson[x]
  <2>1. v.rson[up] = z.rson[up]
    BY <1>1, <1>2, <1>b
  <2>0. SameText(v, z) /\ SameText(y, v) /\ SameMatch(v, z) /\ SameMatch(y, v)
    BY <1>b, <1>c
  <2>2. SameText(y, z)
    BY <2>0 DEF SameText
  <2>3. SameMatch(y, z)
    BY <2>0 DEF SameMatch
  <2>4. \A x \in Strings :
          y.parent[x] = IF x = p THEN NIL ELSE IF x = q THEN up ELSE IF x = z.rson[p] THEN q ELSE z.parent[x]
    BY <1>b, <1>c
  <2>5. \A x \in Strings : y.lson[x] = IF z.rson[up] # p /\ x = up THEN q ELSE z.lson[x]
    BY <1>b, <1>c, <2>1
  <2>6. \A x \in Strings \union Roots :
          y.rson[x] = IF z.rson[up] = p /\ x = up THEN q ELSE IF x = q THEN z.rson[p] ELSE z.rson[x]
    BY <1>b, <1>c, <2>1
  <2>7. y \in Compressor
    BY <1>c
  <2> QED
    BY <2>2, <2>3, <2>4, <2>5, <2>6, <2>7
<1>5. LinkTypes(y.lson, y.rson, y.parent)
  BY <1>4 DEF Compressor, LinkTypes
<1>6. /\ Links(z.dict, y.lson, y.rson, y.parent) /\ Att(y.parent) = Att(z.parent) \ {p}
      /\ LinksMoved(y, z, p, q)
  <2>1. p \in Att(z.parent) /\ Links(z.dict, z.lson, z.rson, z.parent)
    BY <1>t
  <2>2. ChildPlaces(z.lson, z.rson, z.parent, p, up, q)
    BY <1>1, <1>2, <1>3 DEF ChildPlaces
  <2>3. ChildMoves(z.lson, z.rson, z.parent, y.lson, y.rson, y.parent, p, up, q)
    BY <1>4 DEF ChildMoves
  <2>4. LinksMoved(y, z, p, q)
    BY <1>3, <2>2, <2>3 DEF LinksMoved
  <2> QED
    BY <1>5, <2>1, <2>2, <2>3, <2>4, ChildLinks
<1>7. Ranked(y.parent, [rk EXCEPT ![q] = rk[p]], B)
  <2>0. \A x \in Att(y.parent) : x \in Strings /\ x \in Att(z.parent) /\ x # p
    BY <1>t, <1>6
  <2>1. p \in Att(z.parent) /\ q \in Strings /\ y.parent[q] = z.parent[p]
    BY <1>t, <1>1, <1>2, <1>3, <1>4
  <2>2. ASSUME NEW x \in Att(y.parent) \ {q} PROVE
          /\ x \in Att(z.parent) /\ x # p
          /\ \/ y.parent[x] = z.parent[x] /\ z.parent[x] # p
             \/ z.parent[x] = p /\ y.parent[x] = q
    <3>1. CASE x = z.rson[p]
      BY <1>1, <1>4, <1>a, <2>0, <3>1
    <3>2. CASE x # z.rson[p]
      <4>1. x # q /\ x \in Att(z.parent) /\ x # p /\ x \in Strings
        BY <2>0
      <4>2. y.parent[x] = z.parent[x]
        BY <1>4, <3>2, <4>1
      <4>3. z.parent[x] # p
        <5>1. ChildInv(z.dict, z.lson, z.rson, z.parent) /\ p \notin Roots /\ z.lson[p] = q
          BY <1>t, <1>2 DEF Links
        <5> QED
          BY <3>2, <4>1, <5>1 DEF ChildInv
      <4> QED
        BY <4>1, <4>2, <4>3
    <3> QED
      BY <3>1, <3>2
  <2>3. /\ Links(z.dict, z.lson, z.rson, z.parent) /\ Ranked(z.parent, rk, B)
        /\ q # p /\ rk[p] < rk[q]
    BY <1>t, <1>1
  <2>4. TakesOver(z.parent, y.parent, p, q)
    BY <2>2 DEF TakesOver
  <2> QED
    BY <2>1, <2>3, <2>4, TakeOverRanked
<1> QED
  BY <1>4, <1>6, <1>7 DEF Deleted

\* One whose heir is further down is.
LEMMA HeirDeleted ==
    ASSUME NEW z \in Compressor, NEW rk, NEW B, Tree(z, rk, B), NEW p \in InTree(z),
           z.lson[p] # NIL, z.rson[p] # NIL, NEW q, IsRightmost(z, rk, z.lson[p], q), q # z.lson[p],
           q = RightmostOf(z, z.lson[p]),
           NEW v, v = Inherit(z, p, q),
           NEW y, y = PutAt(v, p, q, z.parent[p])
    PROVE  Deleted(y, z, p)
<1> DEFINE up == z.parent[p]
           m == z.parent[q]
           a == z.lson[p]
           b == z.rson[p]
           c == z.lson[q]
<1>t. /\ InTree(z) = Att(z.parent) /\ InTree(z) \subseteq Strings
      /\ NIL \notin Strings /\ NIL \notin Roots /\ (\A x \in Roots : x \notin Strings)
      /\ LinkTypes(z.lson, z.rson, z.parent) /\ Links(z.dict, z.lson, z.rson, z.parent)
      /\ Ranked(z.parent, rk, B)
  BY TreeIs DEF Tree
<1>r. B \in Nat /\ \A x \in Strings : rk[x] \in Int
  BY <1>t DEF Ranked
<1>1. /\ up \in InTree(z) \union Roots /\ up # p
      /\ up \notin Roots => rk[up] < rk[p]
      /\ a \in InTree(z) /\ z.parent[a] = p /\ rk[p] < rk[a] /\ a # p /\ a # up /\ z.dict[a] = z.dict[p]
      /\ b \in InTree(z) /\ z.parent[b] = p /\ rk[p] < rk[b] /\ b # p /\ b # up
  BY TreeIs
<1>2. /\ q \in InTree(z) /\ z.rson[q] = NIL /\ z.dict[q] = z.dict[a] /\ rk[a] <= rk[q]
      /\ m \in InTree(z) /\ z.rson[m] = q /\ rk[a] <= rk[m] /\ q # a
  BY DEF IsRightmost
<1>3. /\ m # q /\ rk[m] < rk[q]
      /\ c # NIL => c \in InTree(z) /\ z.parent[c] = q /\ rk[q] < rk[c] /\ c # q /\ c # m
  <2>1. /\ z.parent[q] # q
        /\ z.parent[q] \notin Roots => rk[z.parent[q]] < rk[q]
        /\ \A x \in {z.lson[q], z.rson[q]} : x # NIL =>
              /\ x \in InTree(z) /\ z.parent[x] = q /\ rk[q] < rk[x]
              /\ x # q /\ x # z.parent[q]
    <3>1. q \in InTree(z)
      BY <1>2
    <3> QED
      BY <3>1, TreeIs
  <2>2. m \notin Roots
    BY <1>t, <1>2
  <2> QED
    BY <2>1, <2>2
<1>4. /\ y = PutAt(v, p, q, up)
      /\ up = z.parent[p] /\ m = z.parent[q] /\ a = z.lson[p] /\ b = z.rson[p] /\ c = z.lson[q]
  OBVIOUS
<1> HIDE DEF up, m, a, b, c
<1>5. a # b
  BY <1>t, <1>1, <1>4 DEF Links, TwoInv
<1>6. /\ p \in Strings /\ p # NIL /\ q \in Strings /\ q # NIL /\ up \in Strings \union Roots
      /\ m \in Strings /\ a \in Strings /\ a # NIL /\ b \in Strings /\ b # NIL
      /\ c # NIL => c \in Strings
  BY <1>t, <1>1, <1>2, <1>3
<1>7. /\ q # p /\ q # up /\ m # p /\ m # up /\ q # b
      /\ c \notin {a, b} /\ c # up /\ c # p /\ c # q /\ c # m
  <2>1. rk[p] < rk[q] /\ rk[p] < rk[m]
    BY <1>t, <1>r, <1>1, <1>2, <1>6
  <2>2. q # p /\ m # p /\ q # up /\ m # up
    BY <1>t, <1>r, <1>1, <1>2, <1>6, <2>1
  <2>3. q # b
    BY <1>1, <1>2, <1>4, <2>2
  <2>4. c \notin {a, b}
    BY <1>1, <1>3, <1>6, <2>2
  <2>5. c # NIL => rk[p] < rk[c]
    BY <1>t, <1>r, <1>3, <1>6, <2>1
  <2>6. c # p /\ c # up
    BY <1>t, <1>r, <1>1, <1>6, <2>5
  <2>7. c # q /\ c # m
    BY <1>t, <1>3, <1>6
  <2> QED
    BY <1>2, <1>3, <1>6, <2>2, <2>3, <2>4, <2>6, <2>7
<1>b. /\ v \in Compressor /\ SameText(v, z) /\ SameMatch(v, z)
      /\ \A x \in Strings : v.parent[x] = IF x \in {a, b} THEN q ELSE IF x = c THEN m ELSE z.parent[x]
      /\ \A x \in Strings : v.lson[x] = IF x = q THEN a ELSE z.lson[x]
      /\ \A x \in Strings \union Roots : v.rson[x] = IF x = q THEN b ELSE IF x = m THEN c ELSE z.rson[x]
  <2>1. NIL \notin {z.lson[p], z.rson[p]} /\ m \in Strings /\ m = z.parent[q] /\ m # q /\ q # z.lson[p]
    BY <1>2, <1>3, <1>4, <1>6
  <2>2. z.lson[q] \notin {z.lson[p], z.rson[p]}
    BY <1>4, <1>7
  <2>3. /\ v \in Compressor /\ SameText(v, z) /\ SameMatch(v, z)
        /\ \A x \in Strings : v.parent[x] = IF x \in {z.lson[p], z.rson[p]} THEN q
                                            ELSE IF x = z.lson[q] THEN m ELSE z.parent[x]
        /\ \A x \in Strings : v.lson[x] = IF x = q THEN z.lson[p] ELSE z.lson[x]
        /\ \A x \in Strings \union Roots :
              v.rson[x] = IF x = q THEN z.rson[p] ELSE IF x = m THEN z.lson[q] ELSE z.rson[x]
    BY <1>6, <2>1, <2>2, InheritHeir
  <2> QED
    BY <1>4, <2>3, Zenon
<1>c. /\ y \in Compressor /\ SameText(y, v) /\ SameMatch(y, v)
      /\ \A x \in Strings : y.parent[x] = IF x = p THEN NIL ELSE IF x = q THEN up ELSE v.parent[x]
      /\ \A x \in Strings : y.lson[x] = IF v.rson[up] # p /\ x = up THEN q ELSE v.lson[x]
      /\ \A x \in Strings \union Roots : y.rson[x] = IF v.rson[up] = p /\ x = up THEN q ELSE v.rson[x]
  <2>1. v \in Compressor /\ q \in Strings \union {NIL} /\ q # p
    BY <1>6, <1>7, <1>b
  <2>2. IsPutAt(y, v, p, q, up)
    BY <1>4, <1>6, <2>1, PutAtIs
  <2> QED
    BY <2>2 DEF IsPutAt
<1>8. /\ y \in Compressor /\ SameText(y, z) /\ SameMatch(y, z)
      /\ \A x \in Strings :
           y.parent[x] = IF x = p THEN NIL ELSE IF x = q THEN up ELSE IF x \in {a, b} THEN q
                         ELSE IF x = c THEN m ELSE z.parent[x]
      /\ \A x \in Strings : y.lson[x] = IF z.rson[up] # p /\ x = up THEN q ELSE IF x = q THEN a ELSE z.lson[x]
      /\ \A x \in Strings \union Roots :
           y.rson[x] = IF z.rson[up] = p /\ x = up THEN q ELSE IF x = q THEN b ELSE IF x = m THEN c ELSE z.rson[x]
  <2>1. v.rson[up] = z.rson[up]
    <3>1. v.rson[up] = IF up = q THEN b ELSE IF up = m THEN c ELSE z.rson[up]
      BY <1>6, <1>b
    <3> QED
      BY <1>7, <3>1
  <2>2. SameText(y, z) /\ SameMatch(y, z)
    <3>1. SameText(y, v) /\ SameMatch(y, v) /\ SameText(v, z) /\ SameMatch(v, z)
      BY <1>b, <1>c
    <3> QED
      BY <3>1, SameTextTwice
  <2>3. ASSUME NEW x \in Strings
        PROVE  y.parent[x] = IF x = p THEN NIL ELSE IF x = q THEN up ELSE IF x \in {a, b} THEN q
                             ELSE IF x = c THEN m ELSE z.parent[x]
    <3>1. y.parent[x] = IF x = p THEN NIL ELSE IF x = q THEN up ELSE v.parent[x]
      BY <1>c
    <3>2. v.parent[x] = IF x \in {a, b} THEN q ELSE IF x = c THEN m ELSE z.parent[x]
      BY <1>b
    <3> QED
      BY <3>1, <3>2
  <2>4. ASSUME NEW x \in Strings
        PROVE  y.lson[x] = IF z.rson[up] # p /\ x = up THEN q ELSE IF x = q THEN a ELSE z.lson[x]
    <3>1. y.lson[x] = IF v.rson[up] # p /\ x = up THEN q ELSE v.lson[x]
      BY <1>c
    <3>2. v.lson[x] = IF x = q THEN a ELSE z.lson[x]
      BY <1>b
    <3> QED
      BY <2>1, <3>1, <3>2
  <2>5. ASSUME NEW x \in Strings \union Roots
        PROVE  y.rson[x] = IF z.rson[up] = p /\ x = up THEN q ELSE IF x = q THEN b
                           ELSE IF x = m THEN c ELSE z.rson[x]
    <3>1. y.rson[x] = IF v.rson[up] = p /\ x = up THEN q ELSE v.rson[x]
      BY <1>c
    <3>2. v.rson[x] = IF x = q THEN b ELSE IF x = m THEN c ELSE z.rson[x]
      BY <1>b
    <3> QED
      BY <2>1, <3>1, <3>2
  <2>6. y \in Compressor
    BY <1>c
  <2> QED
    BY <2>2, <2>3, <2>4, <2>5, <2>6
<1>9. LinkTypes(y.lson, y.rson, y.parent)
  BY <1>8 DEF Compressor, LinkTypes
<1>10. /\ Links(z.dict, y.lson, y.rson, y.parent) /\ Att(y.parent) = Att(z.parent) \ {p}
       /\ LinksMoved(y, z, p, q)
  <2>1. p \in Att(z.parent) /\ q \in Att(z.parent) /\ m \in Att(z.parent)
    BY <1>t, <1>2
  <2>2. z.dict[q] = z.dict[p]
    BY <1>1, <1>2
  <2> QED
    <3>1. /\ up = z.parent[p] /\ up # p /\ q # p /\ q # up /\ m = z.parent[q] /\ z.rson[m] = q
          /\ z.rson[q] = NIL /\ m # q /\ m # p /\ m # up
      BY <1>1, <1>2, <1>3, <1>4, <1>7
    <3>2. /\ z.lson[p] # NIL /\ z.rson[p] # NIL /\ z.lson[p] # q /\ z.rson[p] # q
          /\ z.lson[p] # up /\ z.rson[p] # up /\ z.lson[p] # p /\ z.rson[p] # p
      BY <1>1, <1>2, <1>4, <1>7
    <3>3. z.lson[q] # up /\ z.lson[q] # p /\ z.lson[q] # q /\ z.lson[q] # m
      BY <1>4, <1>7
    <3>4. \A x \in Strings :
             y.parent[x] = IF x = p THEN NIL ELSE IF x = q THEN up ELSE IF x \in {z.lson[p], z.rson[p]} THEN q
                           ELSE IF x = z.lson[q] THEN m ELSE z.parent[x]
      BY <1>4, <1>8
    <3>5. \A x \in Strings :
             y.lson[x] = IF z.rson[up] # p /\ x = up THEN q ELSE IF x = q THEN z.lson[p] ELSE z.lson[x]
      BY <1>4, <1>8
    <3>6. \A x \in Strings \union Roots :
             y.rson[x] = IF z.rson[up] = p /\ x = up THEN q ELSE IF x = q THEN z.rson[p]
                         ELSE IF x = m THEN z.lson[q] ELSE z.rson[x]
      BY <1>4, <1>8
    <3>7. HeirPlaces(z.lson, z.rson, z.parent, p, up, q, m)
      BY <3>1, <3>2, <3>3 DEF HeirPlaces
    <3>8. HeirMoves(z.lson, z.rson, z.parent, y.lson, y.rson, y.parent, p, up, q, m)
      BY <3>4, <3>5, <3>6 DEF HeirMoves
    <3>9. LinksMoved(y, z, p, q)
      BY <1>1, <1>4, <2>1, <3>7, <3>8 DEF LinksMoved
    <3>10. Links(z.dict, z.lson, z.rson, z.parent)
      BY <1>t
    <3>11. Links(z.dict, y.lson, y.rson, y.parent) /\ Att(y.parent) = Att(z.parent) \ {p}
      <4>1. /\ LinkTypes(y.lson, y.rson, y.parent)
            /\ p \in Att(z.parent) /\ q \in Att(z.parent) /\ m \in Att(z.parent)
            /\ z.dict[q] = z.dict[p]
        BY <1>9, <2>1, <2>2
      <4> QED
        BY SMTT(60), <3>7, <3>8, <3>10, <4>1, HeirLinks
    <3> QED
      BY <3>9, <3>11
<1>11. Ranked(y.parent, [rk EXCEPT ![q] = rk[p]], B)
  <2>0. \A x \in Att(y.parent) : x \in Strings /\ x \in Att(z.parent) /\ x # p
    BY <1>t, <1>10
  <2>1. p \in Att(z.parent) /\ q \in Strings /\ y.parent[q] = z.parent[p] /\ rk[p] < rk[q]
    <3>1. y.parent[q] = up
      BY <1>6, <1>7, <1>8
    <3>2. rk[p] < rk[q]
      BY <1>r, <1>1, <1>2, <1>6
    <3> QED
      BY <1>t, <1>4, <1>6, <3>1, <3>2
  <2>2. ASSUME NEW x \in Att(y.parent) \ {q} PROVE
          /\ x \in Att(z.parent) /\ x # p
          /\ \/ y.parent[x] = z.parent[x] /\ z.parent[x] # p
             \/ z.parent[x] = p /\ y.parent[x] = q
             \/ z.parent[x] = q /\ y.parent[x] = z.parent[q] /\ q \in Att(z.parent)
    <3>1. CASE x \in {a, b}
      BY <1>1, <1>8, <2>0, <3>1
    <3>2. CASE x = c /\ x \notin {a, b}
      BY <1>t, <1>2, <1>3, <1>4, <1>6, <1>8, <2>0, <3>2
    <3>3. CASE x \notin {a, b, c}
      <4>1. y.parent[x] = z.parent[x]
        BY <1>8, <2>0, <3>3
      <4>2. z.parent[x] # p
        BY <1>t, <1>4, <2>0, <3>3 DEF Links, ChildInv
      <4> QED
        BY <2>0, <4>1, <4>2
    <3> QED
      BY <3>1, <3>2, <3>3
  <2>3. TakesOver(z.parent, y.parent, p, q)
    BY <2>2 DEF TakesOver
  <2> QED
    BY <1>t, <1>7, <2>1, <2>3, TakeOverRanked
<1> QED
  BY <1>8, <1>10, <1>11 DEF Deleted

\* A string that is deleted is not in the trees, and the others are.
LEMMA DeleteIs ==
    ASSUME NEW z \in Compressor, NEW rk, NEW B, Tree(z, rk, B), NEW p \in Strings,
           NEW y, y = DeleteNode(z, p)
    PROVE  /\ y \in Compressor /\ SameText(y, z) /\ SameMatch(y, z)
           /\ \E k2, B2 : Tree(y, k2, B2)
           /\ InTree(y) = InTree(z) \ {p}
           /\ y = z \/ \E q : p \in InTree(z) /\ LinksMoved(y, z, p, q)
<1>1. CASE z.parent[p] = NIL
  <2>1. y = z
    BY <1>1 DEF DeleteNode
  <2>2. p \notin InTree(z)
    BY <1>1 DEF InTree
  <2> QED
    BY <2>1, <2>2 DEF SameText, SameMatch
<1>2. CASE z.parent[p] # NIL
  <2> DEFINE q == Heir(z, p)
             v == Inherit(z, p, q)
  <2>1. p \in InTree(z)
    BY <1>2 DEF InTree, Strings
  <2>2. y = PutAt(v, p, q, z.parent[p])
    BY <1>2, DeleteNodeIs
  <2>3. Deleted(y, z, p)
    <3>1. CASE NIL \in {z.lson[p], z.rson[p]}
      <4>1. v = z
        BY <3>1 DEF Inherit
      <4>2. \/ z.rson[p] = NIL /\ q = z.lson[p]
            \/ z.lson[p] = NIL /\ q = z.rson[p]
        BY <3>1, HeirIs
      <4> HIDE DEF q, v
      <4> QED
        BY <2>1, <2>2, <4>1, <4>2, SpliceDeleted
    <3>2. CASE z.lson[p] # NIL /\ z.rson[p] # NIL
      <4>1. z.lson[p] \in InTree(z)
        BY <2>1, <3>2, TreeIs
      <4>2. IsRightmost(z, rk, z.lson[p], q)
        BY <3>2, <4>1, HeirIs, RightmostIs
      <4>3. v = Inherit(z, p, q) /\ q = RightmostOf(z, z.lson[p])
        BY <3>2, HeirIs
      <4>4. z.rson[q] = NIL
        BY <4>2 DEF IsRightmost
      <4> HIDE DEF q, v
      <4>5. CASE q = z.lson[p]
        BY <2>1, <2>2, <3>2, <4>3, <4>4, <4>5, ChildDeleted
      <4>6. CASE q # z.lson[p]
        BY <2>1, <2>2, <3>2, <4>2, <4>3, <4>6, HeirDeleted
      <4> QED
        BY <4>5, <4>6
    <3> QED
      BY <3>1, <3>2
  <2>4. InTree(y) = Att(y.parent) /\ InTree(z) = Att(z.parent)
    BY DEF InTree, Att, Strings
  <2>5. y.dict = z.dict
    BY <2>3 DEF Deleted, SameText
  <2> QED
    BY <2>1, <2>3, <2>4, <2>5 DEF Deleted, Tree
<1> QED
  BY <1>1, <1>2

-----------------------------------------------------------------------------
(* The order of the strings in the trees.                                 *)

\* The strings at x and y are equal.
SameString(d, x, y) == \A j \in 0..F-1 : d[x + j] = d[y + j]

\* The string at x comes before the one at y.
Before(d, x, y) ==
    \E j \in 0..F-1 : (\A i \in 0..j-1 : d[x + i] = d[y + i]) /\ d[x + j] < d[y + j]

\* They agree in no more than n bytes.
Within(d, x, y, n) == \E i \in 0..n : i < F => d[x + i] # d[y + i]

\* The bytes of every string are numbers.
ByteText(d) == \A x \in Strings, j \in 0..F-1 : d[x + j] \in Nat

\* The order of strings is transitive.
LEMMA BeforeTwice ==
    ASSUME NEW d, ByteText(d), NEW x \in Strings, NEW y \in Strings, NEW w \in Strings,
           Before(d, x, y), Before(d, y, w)
    PROVE  Before(d, x, w)
<1>1. PICK j \in 0..F-1 : (\A i \in 0..j-1 : d[x + i] = d[y + i]) /\ d[x + j] < d[y + j]
  BY DEF Before
<1>2. PICK k \in 0..F-1 : (\A i \in 0..k-1 : d[y + i] = d[w + i]) /\ d[y + k] < d[w + k]
  BY DEF Before
<1>n. F \in Nat
  BY Numbers
<1>t. \A i \in 0..F-1 : d[x + i] \in Nat /\ d[y + i] \in Nat /\ d[w + i] \in Nat
  BY DEF ByteText
<1>3. CASE j < k
  <2>1. \A i \in 0..j-1 : d[x + i] = d[w + i]
    BY <1>1, <1>2, <1>3, <1>n
  <2>2. d[y + j] = d[w + j]
    BY <1>1, <1>2, <1>3, <1>n
  <2> QED
    BY <1>1, <2>1, <2>2 DEF Before
<1>4. CASE j = k
  <2>1. d[x + j] < d[w + j]
    BY <1>1, <1>2, <1>4, <1>t
  <2> QED
    BY <1>1, <1>2, <1>4, <2>1 DEF Before
<1>5. CASE j > k
  <2>1. \A i \in 0..k-1 : d[x + i] = d[w + i]
    BY <1>1, <1>2, <1>5, <1>n
  <2>2. d[x + k] = d[y + k]
    BY <1>1, <1>2, <1>5, <1>n
  <2> QED
    BY <1>2, <2>1, <2>2 DEF Before
<1> QED
  BY <1>n, <1>3, <1>4, <1>5

\* And irreflexive.
LEMMA NotBeforeItself ==
    ASSUME NEW d, ByteText(d), NEW x \in Strings PROVE ~Before(d, x, x)
BY DEF Before, ByteText

\* Equal strings have the same place in the order.
LEMMA SameBefore ==
    ASSUME NEW d, NEW x, NEW y, SameString(d, x, y), NEW w
    PROVE  (Before(d, x, w) => Before(d, y, w)) /\ (Before(d, w, x) => Before(d, w, y))
<1>n. F \in Nat
  BY Numbers
<1>1. ASSUME NEW j \in 0..F-1, NEW i \in 0..j-1 PROVE i \in 0..F-1
  BY <1>n
<1>2. Before(d, x, w) => Before(d, y, w)
  BY <1>1 DEF SameString, Before
<1>3. Before(d, w, x) => Before(d, w, y)
  BY <1>1 DEF SameString, Before
<1> QED
  BY <1>2, <1>3

\* A string on the far side of one that differs from r in the byte n differs there, too,
\* or before.
LEMMA Beyond ==
    ASSUME NEW d, ByteText(d), NEW x \in Strings, NEW w \in Strings, NEW r \in Strings,
           NEW n \in 0..F-1, \A i \in 0..n-1 : d[r + i] = d[w + i],
           \/ d[r + n] < d[w + n] /\ Before(d, w, x)
           \/ d[w + n] < d[r + n] /\ Before(d, x, w)
    PROVE  Within(d, x, r, n)
<1> SUFFICES ASSUME \A i \in 0..n : d[x + i] = d[r + i] PROVE FALSE
  BY DEF Within
<1>n. F \in Nat /\ n \in 0..n
  BY Numbers
<1>t. \A i \in 0..F-1 : d[x + i] \in Nat /\ d[w + i] \in Nat /\ d[r + i] \in Nat
  BY DEF ByteText
<1>1. \A i \in 0..n-1 : d[x + i] = d[w + i]
  BY <1>n
<1>2. d[x + n] = d[r + n]
  BY <1>n
<1>3. CASE d[r + n] < d[w + n] /\ Before(d, w, x)
  <2>1. Before(d, x, w)
    BY <1>1, <1>2, <1>3 DEF Before
  <2> QED
    BY <1>3, <2>1, BeforeTwice, NotBeforeItself
<1>4. CASE d[w + n] < d[r + n] /\ Before(d, x, w)
  <2>1. Before(d, w, x)
    BY <1>1, <1>2, <1>4 DEF Before
  <2> QED
    BY <1>4, <2>1, BeforeTwice, NotBeforeItself
<1> QED
  BY <1>3, <1>4

\* Strings that agree in no more than m bytes agree in no more than a larger n.
LEMMA WithinMore ==
    ASSUME NEW d, NEW x, NEW y, NEW m \in Nat, NEW n \in Nat, m <= n, Within(d, x, y, m)
    PROVE  Within(d, x, y, n)
<1>1. \A i \in 0..m : i \in 0..n
  OBVIOUS
<1> QED
  BY <1>1 DEF Within

\* An equal string agrees with r in as many bytes.
LEMMA SameWithin ==
    ASSUME NEW d, NEW x, NEW y, SameString(d, x, y), NEW r, NEW n \in Nat, Within(d, x, r, n)
    PROVE  Within(d, y, r, n)
<1>1. PICK i \in 0..n : i < F => d[x + i] # d[r + i]
  BY DEF Within
<1>2. i < F => i \in 0..F-1
  BY Numbers
<1> QED
  BY <1>1, <1>2 DEF Within, SameString

-----------------------------------------------------------------------------
\* D[x] are the strings in the subtree of x, and those on the left come before x and
\* x before those on the right.
UnderTypes(P, D) ==
    /\ D \in [Strings \union {NIL} -> SUBSET Strings] /\ D[NIL] = {}
    /\ \A x \in Att(P) : D[x] \subseteq Att(P)
UnderIs(L, R, P, D) == \A x \in Att(P) : D[x] = {x} \union D[L[x]] \union D[R[x]]
LeftBefore(d, L, P, D)  == \A x \in Att(P) : \A y \in D[L[x]] : Before(d, y, x)
RightBehind(d, R, P, D) == \A x \in Att(P) : \A y \in D[R[x]] : Before(d, x, y)
Reached(d, R, P, D) == \A x \in Att(P) : Root(d[x]) \in Roots /\ x \in D[R[Root(d[x])]]

IsOrder(d, L, R, P, D) ==
    /\ UnderTypes(P, D) /\ UnderIs(L, R, P, D) /\ LeftBefore(d, L, P, D) /\ RightBehind(d, R, P, D)
    /\ Reached(d, R, P, D)

\* Nobody's subtree has anything that is not below him.
LEMMA Nested ==
    ASSUME NEW d, NEW L, NEW R, NEW P, Links(d, L, R, P), NEW rk, NEW B, Ranked(P, rk, B),
           NEW D, IsOrder(d, L, R, P, D)
    PROVE  \A x \in Att(P) : \A y \in D[x] : D[y] \subseteq D[x] /\ (y # x => P[y] \in D[x])
<1>0. Att(P) \subseteq Strings /\ NIL \notin Strings
  BY RootsAre DEF Att
<1>1. B \in Nat /\ \A x \in Strings : rk[x] \in 0..B
  BY DEF Ranked
<1>2. \A x \in Att(P) : D[x] = {x} \union D[L[x]] \union D[R[x]]
  BY DEF IsOrder, UnderIs
<1>3. ASSUME NEW x \in Att(P), NEW c \in {L[x], R[x]}, c # NIL
      PROVE  c \in Att(P) /\ P[c] = x /\ rk[x] < rk[c]
  <2>1. c \in Att(P) /\ P[c] = x
    BY <1>3 DEF Links, LeftInv, RightInv
  <2>2. P[c] \notin Roots
    BY <1>0, <2>1, RootsAre
  <2> QED
    BY <2>1, <2>2 DEF Ranked
<1>4. D[NIL] = {}
  BY DEF IsOrder, UnderTypes
<1> DEFINE Fits(x) == \A y \in D[x] : D[y] \subseteq D[x] /\ (y # x => P[y] \in D[x])
           Near(n) == {x \in Att(P) : B - rk[x] < n}
           S == {n \in Nat : \A x \in Near(n) : Fits(x)}
<1>5. 0 \in S
  BY <1>0, <1>1
<1>6. ASSUME NEW n \in S PROVE n + 1 \in S
  <2>1. ASSUME NEW x \in Near(n + 1), NEW y \in D[x]
        PROVE  D[y] \subseteq D[x] /\ (y # x => P[y] \in D[x])
    <3>0. x \in Att(P) /\ B - rk[x] < n + 1 /\ rk[x] \in 0..B
      BY <1>0, <1>1
    <3>1. CASE y = x
      BY <3>1
    <3>2. ASSUME NEW c \in {L[x], R[x]}, y \in D[c] PROVE D[y] \subseteq D[x] /\ P[y] \in D[x]
      <4>1. c # NIL
        BY <1>4, <3>2
      <4>2. c \in Att(P) /\ P[c] = x /\ rk[x] < rk[c] /\ rk[c] \in 0..B
        BY <1>0, <1>1, <1>3, <3>0, <4>1
      <4>3. c \in Near(n)
        BY <1>1, <3>0, <4>2
      <4>4. D[y] \subseteq D[c] /\ (y # c => P[y] \in D[c])
        BY <3>2, <4>3
      <4>5. D[c] \subseteq D[x] /\ x \in D[x]
        BY <1>2, <3>0
      <4> QED
        BY <4>2, <4>4, <4>5
    <3> QED
      BY <1>2, <3>0, <3>1, <3>2
  <2> HIDE DEF Near
  <2> QED
    BY <2>1
<1>7. S \subseteq Nat
  OBVIOUS
<1> HIDE DEF S
<1>8. S = Nat
  BY <1>5, <1>6, <1>7, Induct
<1>9. B + 1 \in S
  BY <1>1, <1>8
<1> QED
  BY <1>0, <1>1, <1>9 DEF S

\* What a child is.
LEMMA ChildIs ==
    ASSUME NEW d, NEW L, NEW R, NEW P, Links(d, L, R, P)
    PROVE  /\ Att(P) \subseteq Strings /\ NIL \notin Strings /\ NIL \notin Roots
           /\ \A x \in Roots : x \notin Strings
           /\ \A x \in Att(P) : \A c \in {L[x], R[x]} : c # NIL => c \in Att(P) /\ P[c] = x
           /\ \A x \in Att(P) : L[x] # NIL => L[x] # R[x]
           /\ \A x \in Roots : R[x] # NIL => R[x] \in Att(P) /\ P[R[x]] = x
<1>1. Att(P) \subseteq Strings /\ NIL \notin Strings /\ NIL \notin Roots /\ \A x \in Roots : x \notin Strings
  BY RootsAre DEF Att
<1>2. LeftInv(L, P) /\ RightInv(R, P) /\ TwoInv(L, R, P)
  BY DEF Links
<1> QED
  BY <1>1, <1>2 DEF LeftInv, RightInv, TwoInv

\* What an order is, string by string.
LEMMA OrderIs ==
    ASSUME NEW d, NEW L, NEW R, NEW P, NEW D, IsOrder(d, L, R, P, D)
    PROVE  /\ D \in [Strings \union {NIL} -> SUBSET Strings] /\ D[NIL] = {}
           /\ \A x \in Att(P) : D[x] \subseteq Att(P)
           /\ \A x \in Att(P) : D[x] = {x} \union D[L[x]] \union D[R[x]]
           /\ \A x \in Att(P) : \A y \in D[L[x]] : Before(d, y, x)
           /\ \A x \in Att(P) : \A y \in D[R[x]] : Before(d, x, y)
           /\ \A x \in Att(P) : Root(d[x]) \in Roots /\ x \in D[R[Root(d[x])]]
BY DEF IsOrder, UnderTypes, UnderIs, LeftBefore, RightBehind, Reached

\* W are the nodes that r is compared with on the way down to p, below which it is hung.
OnWay(d, L, R, P, r, p, left, W) ==
    /\ W \subseteq Att(P) /\ p \in W /\ Root(d[r]) \in Roots /\ R[Root(d[r])] \in W
    /\ \A x \in W : x # p => L[x] \in W \/ R[x] \in W
    /\ \A x \in Att(P) : L[x] \in W => x \in W /\ Before(d, r, x)
    /\ \A x \in Att(P) : R[x] \in W => x \in W /\ Before(d, x, r)
    /\ IF left THEN L[p] = NIL /\ Before(d, r, p) ELSE R[p] = NIL /\ Before(d, p, r)

\* Where r is hung the order is right.
LEMMA HangOrder ==
    ASSUME NEW d, NEW L, NEW R, NEW P, Links(d, L, R, P), NEW D, IsOrder(d, L, R, P, D),
           NEW r \in Strings, r \notin Att(P), NEW p, NEW left \in BOOLEAN, NEW W,
           OnWay(d, L, R, P, r, p, left, W),
           NEW L2, NEW R2, NEW P2, Att(P2) = Att(P) \union {r},
           \A x \in Strings : L2[x] = IF x = r THEN NIL ELSE IF left /\ x = p THEN r ELSE L[x],
           \A x \in Strings \union Roots :
               R2[x] = IF x = r THEN NIL ELSE IF ~left /\ x = p THEN r ELSE R[x]
    PROVE  \E D2 : IsOrder(d, L2, R2, P2, D2)
<1>c. /\ Att(P) \subseteq Strings /\ NIL \notin Strings /\ NIL \notin Roots
      /\ \A x \in Roots : x \notin Strings
      /\ \A x \in Att(P) : \A c \in {L[x], R[x]} : c # NIL => c \in Att(P) /\ P[c] = x
      /\ \A x \in Roots : R[x] # NIL => R[x] \in Att(P) /\ P[R[x]] = x
  BY ChildIs
<1>o. /\ D \in [Strings \union {NIL} -> SUBSET Strings] /\ D[NIL] = {}
      /\ \A x \in Att(P) : D[x] \subseteq Att(P)
      /\ \A x \in Att(P) : D[x] = {x} \union D[L[x]] \union D[R[x]]
      /\ \A x \in Att(P) : \A y \in D[L[x]] : Before(d, y, x)
      /\ \A x \in Att(P) : \A y \in D[R[x]] : Before(d, x, y)
      /\ \A x \in Att(P) : Root(d[x]) \in Roots /\ x \in D[R[Root(d[x])]]
  BY OrderIs
<1>w. /\ W \subseteq Att(P) /\ p \in W /\ Root(d[r]) \in Roots /\ R[Root(d[r])] \in W
      /\ \A x \in W : x # p => L[x] \in W \/ R[x] \in W
      /\ \A x \in Att(P) : L[x] \in W => x \in W /\ Before(d, r, x)
      /\ \A x \in Att(P) : R[x] \in W => x \in W /\ Before(d, x, r)
      /\ IF left THEN L[p] = NIL /\ Before(d, r, p) ELSE R[p] = NIL /\ Before(d, p, r)
  BY DEF OnWay
<1> DEFINE D2 == [x \in Strings \union {NIL} |->
                    IF x = r THEN {r} ELSE IF x \in W THEN D[x] \union {r} ELSE D[x]]
<1>0. /\ D2 \in [Strings \union {NIL} -> SUBSET Strings] /\ D2[NIL] = {} /\ D2[r] = {r}
      /\ \A x \in Att(P) : D2[x] = IF x \in W THEN D[x] \union {r} ELSE D[x]
  BY <1>c, <1>o, <1>w
<1>k. \A x \in Att(P), c \in Att(P) \union {NIL} : c # r /\ x # r /\ x \in Strings
  BY <1>c
<1> HIDE DEF D2
<1>1. UnderTypes(P2, D2)
  <2>1. ASSUME NEW x \in Att(P2) PROVE D2[x] \subseteq Att(P2)
    <3>1. CASE x = r
      BY <1>0, <3>1
    <3>2. CASE x # r
      <4>1. x \in Att(P) /\ D[x] \subseteq Att(P)
        BY <1>o, <3>2
      <4>2. D2[x] \subseteq D[x] \union {r}
        BY <1>0, <4>1
      <4> QED
        BY <4>1, <4>2
    <3> QED
      BY <3>1, <3>2
  <2> QED
    BY <1>0, <2>1 DEF UnderTypes
<1>2. /\ \A x \in Att(P) : L2[x] = IF left /\ x = p THEN r ELSE L[x]
      /\ \A x \in Att(P) : R2[x] = IF ~left /\ x = p THEN r ELSE R[x]
      /\ L2[r] = NIL /\ R2[r] = NIL
      /\ \A x \in Roots : R2[x] = R[x]
  <2>1. \A x \in Att(P) : x \in Strings /\ x \in Strings \union Roots /\ x # r
    BY <1>c
  <2>2. \A x \in Roots : x \in Strings \union Roots /\ x # r /\ x # p
    BY <1>c, <1>w
  <2>3. r \in Strings \union Roots
    OBVIOUS
  <2> QED
    BY <2>1, <2>2, <2>3
<1>3. \A x \in Att(P) : /\ D2[L[x]] = IF L[x] \in W THEN D[L[x]] \union {r} ELSE D[L[x]]
                        /\ D2[R[x]] = IF R[x] \in W THEN D[R[x]] \union {r} ELSE D[R[x]]
  <2>1. ASSUME NEW c \in Att(P) \union {NIL}
        PROVE  D2[c] = IF c \in W THEN D[c] \union {r} ELSE D[c]
    BY <1>c, <1>o, <1>w, <1>0
  <2>2. \A x \in Att(P) : L[x] \in Att(P) \union {NIL} /\ R[x] \in Att(P) \union {NIL}
    BY <1>c
  <2> QED
    BY <2>1, <2>2
<1>4. UnderIs(L2, R2, P2, D2)
  <2>1. ASSUME NEW x \in Att(P) PROVE D2[x] = {x} \union D2[L2[x]] \union D2[R2[x]]
    <3>0. /\ D[x] = {x} \union D[L[x]] \union D[R[x]]
          /\ D2[x] = IF x \in W THEN D[x] \union {r} ELSE D[x]
          /\ D2[L[x]] = IF L[x] \in W THEN D[L[x]] \union {r} ELSE D[L[x]]
          /\ D2[R[x]] = IF R[x] \in W THEN D[R[x]] \union {r} ELSE D[R[x]]
          /\ L2[x] = IF left /\ x = p THEN r ELSE L[x]
          /\ R2[x] = IF ~left /\ x = p THEN r ELSE R[x]
          /\ L[x] \in W \/ R[x] \in W => x \in W
      BY <1>o, <1>w, <1>0, <1>2, <1>3
    <3>1. CASE x = p /\ left
      <4>1. x \in W /\ L2[x] = r /\ R2[x] = R[x] /\ D[L[x]] = {}
        BY <1>o, <1>w, <3>0, <3>1
      <4> QED
        BY <1>0, <3>0, <4>1
    <3>2. CASE x = p /\ ~left
      <4>1. x \in W /\ L2[x] = L[x] /\ R2[x] = r /\ D[R[x]] = {}
        BY <1>o, <1>w, <3>0, <3>2
      <4> QED
        BY <1>0, <3>0, <4>1
    <3>3. CASE x # p
      <4>1. L2[x] = L[x] /\ R2[x] = R[x] /\ (x \in W <=> L[x] \in W \/ R[x] \in W)
        BY <1>w, <3>0, <3>3
      <4>2. CASE x \in W
        BY <3>0, <4>1, <4>2
      <4>3. CASE x \notin W
        BY <3>0, <4>1, <4>3
      <4> QED
        BY <4>2, <4>3
    <3> QED
      BY <3>1, <3>2, <3>3
  <2>2. D2[r] = {r} \union D2[L2[r]] \union D2[R2[r]]
    BY <1>0, <1>2
  <2> QED
    BY <2>1, <2>2 DEF UnderIs
<1>5. LeftBefore(d, L2, P2, D2)
  <2>1. ASSUME NEW x \in Att(P), NEW y \in D2[L2[x]] PROVE Before(d, y, x)
    <3>1. CASE left /\ x = p
      <4>1. L2[x] = r
        BY <1>2, <3>1
      <4> QED
        BY <1>w, <1>0, <3>1, <4>1
    <3>2. CASE ~(left /\ x = p)
      <4>1. L2[x] = L[x]
        BY <1>2, <3>2
      <4>2. D2[L[x]] = IF L[x] \in W THEN D[L[x]] \union {r} ELSE D[L[x]]
        BY <1>3
      <4>3. y \in D2[L[x]]
        BY <4>1
      <4>4. y \in D[L[x]] \/ (y = r /\ L[x] \in W)
        BY <4>2, <4>3
      <4> QED
        BY <1>o, <1>w, <4>4
    <3> QED
      BY <3>1, <3>2
  <2> QED
    BY <1>0, <1>2, <2>1 DEF LeftBefore
<1>6. RightBehind(d, R2, P2, D2)
  <2>1. ASSUME NEW x \in Att(P), NEW y \in D2[R2[x]] PROVE Before(d, x, y)
    <3>1. CASE ~left /\ x = p
      <4>1. R2[x] = r
        BY <1>2, <3>1
      <4> QED
        BY <1>w, <1>0, <3>1, <4>1
    <3>2. CASE ~(~left /\ x = p)
      <4>1. R2[x] = R[x]
        BY <1>2, <3>2
      <4>2. D2[R[x]] = IF R[x] \in W THEN D[R[x]] \union {r} ELSE D[R[x]]
        BY <1>3
      <4>3. y \in D2[R[x]]
        BY <4>1
      <4>4. y \in D[R[x]] \/ (y = r /\ R[x] \in W)
        BY <4>2, <4>3
      <4> QED
        BY <1>o, <1>w, <4>4
    <3> QED
      BY <3>1, <3>2
  <2> QED
    BY <1>0, <1>2, <2>1 DEF RightBehind
<1>7. Reached(d, R2, P2, D2)
  <2>1. ASSUME NEW x \in Att(P) PROVE x \in D2[R2[Root(d[x])]]
    <3>1. Root(d[x]) \in Roots /\ x \in D[R[Root(d[x])]]
      BY <1>o
    <3>2. R[Root(d[x])] \in Att(P) /\ R2[Root(d[x])] = R[Root(d[x])]
      BY <1>c, <1>o, <1>2, <3>1
    <3> QED
      BY <1>0, <3>1, <3>2
  <2>2. r \in D2[R2[Root(d[r])]]
    <3>1. R2[Root(d[r])] = R[Root(d[r])] /\ R[Root(d[r])] \in W /\ R[Root(d[r])] \in Att(P)
      BY <1>w, <1>2
    <3>2. D2[R[Root(d[r])]] = D[R[Root(d[r])]] \union {r}
      BY <1>0, <3>1
    <3> QED
      BY <3>1, <3>2
  <2> QED
    BY <1>o, <1>w, <2>1, <2>2 DEF Reached
<1> QED
  BY <1>1, <1>4, <1>5, <1>6, <1>7 DEF IsOrder

\* So it is if the tree was empty.
LEMMA HangRootOrder ==
    ASSUME NEW d, NEW L, NEW R, NEW P, Links(d, L, R, P), NEW D, IsOrder(d, L, R, P, D),
           NEW r \in Strings, r \notin Att(P), Root(d[r]) \in Roots, R[Root(d[r])] = NIL,
           NEW L2, NEW R2, NEW P2, Att(P2) = Att(P) \union {r},
           \A x \in Strings : L2[x] = IF x = r THEN NIL ELSE L[x],
           \A x \in Strings \union Roots :
               R2[x] = IF x = r THEN NIL ELSE IF x = Root(d[r]) THEN r ELSE R[x]
    PROVE  \E D2 : IsOrder(d, L2, R2, P2, D2)
<1>c. /\ Att(P) \subseteq Strings /\ NIL \notin Strings /\ NIL \notin Roots
      /\ \A x \in Roots : x \notin Strings
      /\ \A x \in Att(P) : \A c \in {L[x], R[x]} : c # NIL => c \in Att(P) /\ P[c] = x
      /\ \A x \in Roots : R[x] # NIL => R[x] \in Att(P) /\ P[R[x]] = x
  BY ChildIs
<1>o. /\ D \in [Strings \union {NIL} -> SUBSET Strings] /\ D[NIL] = {}
      /\ \A x \in Att(P) : D[x] \subseteq Att(P)
      /\ \A x \in Att(P) : D[x] = {x} \union D[L[x]] \union D[R[x]]
      /\ \A x \in Att(P) : \A y \in D[L[x]] : Before(d, y, x)
      /\ \A x \in Att(P) : \A y \in D[R[x]] : Before(d, x, y)
      /\ \A x \in Att(P) : Root(d[x]) \in Roots /\ x \in D[R[Root(d[x])]]
  BY OrderIs
<1> DEFINE D2 == [D EXCEPT ![r] = {r}]
<1>0. /\ D2 \in [Strings \union {NIL} -> SUBSET Strings] /\ D2[NIL] = {} /\ D2[r] = {r}
      /\ \A x \in Strings \union {NIL} : x # r => D2[x] = D[x]
  BY <1>c, <1>o
<1> HIDE DEF D2
<1>1. UnderTypes(P2, D2)
  BY <1>c, <1>o, <1>0 DEF UnderTypes
<1>2. /\ \A x \in Att(P) : L2[x] = L[x] /\ R2[x] = R[x] /\ D2[x] = D[x] /\ x # r
      /\ \A x \in Att(P) : D2[L[x]] = D[L[x]] /\ D2[R[x]] = D[R[x]]
      /\ L2[r] = NIL /\ R2[r] = NIL
      /\ R2[Root(d[r])] = r
      /\ \A x \in Roots : x # Root(d[r]) => R2[x] = R[x]
  BY <1>c, <1>0
<1>4. UnderIs(L2, R2, P2, D2)
  BY <1>o, <1>0, <1>2 DEF UnderIs
<1>5. LeftBefore(d, L2, P2, D2)
  BY <1>o, <1>0, <1>2 DEF LeftBefore
<1>6. RightBehind(d, R2, P2, D2)
  BY <1>o, <1>0, <1>2 DEF RightBehind
<1>7. Reached(d, R2, P2, D2)
  <2>1. ASSUME NEW x \in Att(P) PROVE x \in D2[R2[Root(d[x])]]
    <3>1. Root(d[x]) \in Roots /\ x \in D[R[Root(d[x])]]
      BY <1>o
    <3>2. Root(d[x]) # Root(d[r])
      BY <1>o, <3>1
    <3>3. R2[Root(d[x])] = R[Root(d[x])] /\ R[Root(d[x])] \in Att(P)
      BY <1>c, <1>o, <1>2, <3>1, <3>2
    <3> QED
      BY <1>2, <3>1, <3>3
  <2>2. r \in D2[R2[Root(d[r])]]
    BY <1>0, <1>2
  <2> QED
    BY <1>o, <2>1, <2>2 DEF Reached
<1> QED
  BY <1>1, <1>4, <1>5, <1>6, <1>7 DEF IsOrder

\* The strings of T, but r for p.
Instead(T, p, r) == {IF y = p THEN r ELSE y : y \in T}

\* Where r takes the place of an equal string the order is right.
LEMMA ReplaceOrder ==
    ASSUME NEW d, NEW L, NEW R, NEW P, Links(d, L, R, P), NEW D, IsOrder(d, L, R, P, D),
           NEW r \in Strings, r \notin Att(P), NEW p \in Att(P), SameString(d, p, r),
           NEW up, up = P[p], up # p, L[p] # p, R[p] # p,
           NEW L2, NEW R2, NEW P2, Att(P2) = (Att(P) \ {p}) \union {r},
           \A x \in Strings : L2[x] = IF x = r THEN L[p] ELSE IF R[up] # p /\ x = up THEN r ELSE L[x],
           \A x \in Strings \union Roots :
               R2[x] = IF x = r THEN R[p] ELSE IF R[up] = p /\ x = up THEN r ELSE R[x]
    PROVE  \E D2 : IsOrder(d, L2, R2, P2, D2)
<1>c. /\ Att(P) \subseteq Strings /\ NIL \notin Strings /\ NIL \notin Roots
      /\ \A x \in Roots : x \notin Strings
      /\ \A x \in Att(P) : \A c \in {L[x], R[x]} : c # NIL => c \in Att(P) /\ P[c] = x
      /\ \A x \in Att(P) : L[x] # NIL => L[x] # R[x]
      /\ \A x \in Roots : R[x] # NIL => R[x] \in Att(P) /\ P[R[x]] = x
  BY ChildIs
<1>o. /\ D \in [Strings \union {NIL} -> SUBSET Strings] /\ D[NIL] = {}
      /\ \A x \in Att(P) : D[x] \subseteq Att(P)
      /\ \A x \in Att(P) : D[x] = {x} \union D[L[x]] \union D[R[x]]
      /\ \A x \in Att(P) : \A y \in D[L[x]] : Before(d, y, x)
      /\ \A x \in Att(P) : \A y \in D[R[x]] : Before(d, x, y)
      /\ \A x \in Att(P) : Root(d[x]) \in Roots /\ x \in D[R[Root(d[x])]]
  BY OrderIs
<1>u. /\ up \in Att(P) \union Roots
      /\ up \in Att(P) => up # r /\ (L[up] = p \/ R[up] = p)
      /\ up \in Roots => up # r /\ R[up] = p
  <2>1. UpInv(P) /\ ChildInv(d, L, R, P) /\ RootInv(d, R, P)
    BY DEF Links
  <2>2. up \in Att(P) \union Roots /\ (up \in Att(P) => up \notin Roots)
    BY <1>c, <2>1 DEF UpInv
  <2> QED
    BY <1>c, <2>1, <2>2 DEF ChildInv, RootInv
<1>d. d[p] = d[r]
  <2>1. 0 \in 0..F-1 /\ p + 0 = p /\ r + 0 = r
    BY <1>c, Numbers DEF Strings
  <2> QED
    BY <2>1 DEF SameString
<1> DEFINE S(T) == Instead(T, p, r)
           D2 == [x \in Strings \union {NIL} |-> IF x = r THEN S(D[p]) ELSE S(D[x])]
<1>0. /\ \A x \in Strings \union {NIL} : D[x] \subseteq Strings => S(D[x]) \subseteq Strings
      /\ p \in Strings /\ p # r /\ r # NIL
  BY <1>c DEF Instead
<1>1. /\ D2 \in [Strings \union {NIL} -> SUBSET Strings] /\ D2[r] = S(D[p])
      /\ \A x \in Att(P) \union {NIL} : D2[x] = S(D[x])
  BY <1>c, <1>o, <1>0
<1>2. S({}) = {}
  BY DEF Instead
<1> HIDE DEF D2
<1>3. UnderTypes(P2, D2)
  <2>1. ASSUME NEW x \in Att(P2) PROVE D2[x] \subseteq Att(P2)
    <3>1. PICK x0 \in Att(P) : D2[x] = S(D[x0])
      BY <1>1
    <3>2. D[x0] \subseteq Att(P)
      BY <1>o
    <3> QED
      BY <3>1, <3>2 DEF Instead
  <2>2. D2[NIL] = {}
    <3>1. D2[NIL] = S(D[NIL])
      BY <1>1
    <3>2. D[NIL] = {}
      BY <1>o
    <3> QED
      BY <3>1, <3>2, <1>2
  <2>3. D2 \in [Strings \union {NIL} -> SUBSET Strings]
    BY <1>1
  <2> QED
    BY <2>1, <2>2, <2>3 DEF UnderTypes
<1>4. ASSUME NEW x \in Att(P), x # p
      PROVE  D2[x] = S(D[x]) /\ D2[L2[x]] = S(D[L[x]]) /\ D2[R2[x]] = S(D[R[x]])
  <2>1. D2[x] = S(D[x]) /\ x # r /\ x \in Strings
    BY <1>c, <1>1
  <2>2. /\ L[x] # NIL => L[x] \in Att(P) /\ P[L[x]] = x
        /\ R[x] # NIL => R[x] \in Att(P) /\ P[R[x]] = x
        /\ L[x] # NIL => L[x] # R[x]
    BY <1>c
  <2>3. D2[L[x]] = S(D[L[x]]) /\ D2[R[x]] = S(D[R[x]])
    BY <1>1, <2>2
  <2>4. D2[L2[x]] = S(D[L[x]])
    <3>1. CASE R[up] # p /\ x = up
      <4>1. L2[x] = r /\ L[x] = p
        BY <1>u, <2>1, <3>1
      <4> QED
        BY <1>1, <4>1
    <3>2. CASE ~(R[up] # p /\ x = up)
      BY <2>1, <2>3, <3>2
    <3> QED
      BY <3>1, <3>2
  <2>5. D2[R2[x]] = S(D[R[x]])
    <3>1. CASE R[up] = p /\ x = up
      <4>1. R2[x] = r /\ R[x] = p
        BY <2>1, <3>1
      <4> QED
        BY <1>1, <4>1
    <3>2. CASE ~(R[up] = p /\ x = up)
      BY <2>1, <2>3, <3>2
    <3> QED
      BY <3>1, <3>2
  <2> QED
    BY <2>1, <2>4, <2>5
<1>5. D2[r] = S(D[p]) /\ D2[L2[r]] = S(D[L[p]]) /\ D2[R2[r]] = S(D[R[p]])
  <2>1. L2[r] = L[p] /\ R2[r] = R[p]
    OBVIOUS
  <2>2. L[p] \in Att(P) \union {NIL} /\ R[p] \in Att(P) \union {NIL}
    BY <1>c
  <2> QED
    BY <1>1, <2>1, <2>2
<1>6. ASSUME NEW x \in Att(P2)
      PROVE  \E x0 \in Att(P) : /\ x = IF x0 = p THEN r ELSE x0
                                /\ D2[x] = S(D[x0]) /\ D2[L2[x]] = S(D[L[x0]]) /\ D2[R2[x]] = S(D[R[x0]])
  <2>1. CASE x = r
    BY <1>5, <2>1
  <2>2. CASE x # r
    BY <1>4, <2>2
  <2> QED
    BY <2>1, <2>2
<1>7. UnderIs(L2, R2, P2, D2)
  <2>1. ASSUME NEW x \in Att(P2) PROVE D2[x] = {x} \union D2[L2[x]] \union D2[R2[x]]
    <3>1. PICK x0 \in Att(P) : /\ x = IF x0 = p THEN r ELSE x0
                               /\ D2[x] = S(D[x0]) /\ D2[L2[x]] = S(D[L[x0]]) /\ D2[R2[x]] = S(D[R[x0]])
      BY <1>6
    <3>2. D[x0] = {x0} \union D[L[x0]] \union D[R[x0]]
      BY <1>o
    <3> QED
      BY <3>1, <3>2 DEF Instead
  <2> QED
    BY <2>1 DEF UnderIs
<1>8. ASSUME NEW x, NEW y, NEW x0, NEW y0, x = IF x0 = p THEN r ELSE x0, y = IF y0 = p THEN r ELSE y0
      PROVE  (Before(d, y0, x0) => Before(d, y, x)) /\ (Before(d, x0, y0) => Before(d, x, y))
  <2>1. (Before(d, y0, x0) => Before(d, y0, x)) /\ (Before(d, x0, y0) => Before(d, x, y0))
    BY <1>8, SameBefore
  <2>2. (Before(d, y0, x) => Before(d, y, x)) /\ (Before(d, x, y0) => Before(d, x, y))
    BY <1>8, SameBefore
  <2> QED
    BY <2>1, <2>2
<1>9. LeftBefore(d, L2, P2, D2) /\ RightBehind(d, R2, P2, D2)
  <2>1. ASSUME NEW x \in Att(P2)
        PROVE  (\A y \in D2[L2[x]] : Before(d, y, x)) /\ (\A y \in D2[R2[x]] : Before(d, x, y))
    <3>1. PICK x0 \in Att(P) : /\ x = IF x0 = p THEN r ELSE x0
                               /\ D2[x] = S(D[x0]) /\ D2[L2[x]] = S(D[L[x0]]) /\ D2[R2[x]] = S(D[R[x0]])
      BY <1>6
    <3>2. ASSUME NEW y \in D2[L2[x]] PROVE Before(d, y, x)
      <4>1. PICK y0 \in D[L[x0]] : y = IF y0 = p THEN r ELSE y0
        BY <3>1 DEF Instead
      <4> QED
        BY <1>o, <1>8, <3>1, <4>1
    <3>3. ASSUME NEW y \in D2[R2[x]] PROVE Before(d, x, y)
      <4>1. PICK y0 \in D[R[x0]] : y = IF y0 = p THEN r ELSE y0
        BY <3>1 DEF Instead
      <4> QED
        BY <1>o, <1>8, <3>1, <4>1
    <3> QED
      BY <3>2, <3>3
  <2> QED
    BY <2>1 DEF LeftBefore, RightBehind
<1>10. Reached(d, R2, P2, D2)
  <2>1. ASSUME NEW x \in Att(P2) PROVE Root(d[x]) \in Roots /\ x \in D2[R2[Root(d[x])]]
    <3>1. PICK x0 \in Att(P) : x = IF x0 = p THEN r ELSE x0
      BY <1>6
    <3>2. d[x] = d[x0]
      BY <1>d, <3>1
    <3> DEFINE c == Root(d[x])
    <3>3. c \in Roots /\ x0 \in D[R[c]]
      BY <1>o, <3>2
    <3> HIDE DEF c
    <3>4. R[c] \in Att(P) /\ P[R[c]] = c /\ c # r
      BY <1>c, <1>o, <3>3
    <3>5. R2[c] = IF R[up] = p /\ c = up THEN r ELSE R[c]
      BY <3>3, <3>4
    <3>6. D2[R2[c]] = S(D[R[c]])
      BY <1>1, <3>4, <3>5
    <3> QED
      BY <3>1, <3>3, <3>6 DEF Instead, c
  <2> QED
    BY <2>1 DEF Reached
<1> QED
  BY <1>3, <1>7, <1>9, <1>10 DEF IsOrder

\* Where one with a child at most is out the order is right.
LEMMA SpliceOrder ==
    ASSUME NEW d, NEW L, NEW R, NEW P, Links(d, L, R, P), NEW D, IsOrder(d, L, R, P, D),
           NEW p \in Att(P), NEW up, up = P[p], up # p, NEW q, q # p,
           \/ q = L[p] /\ R[p] = NIL
           \/ q = R[p] /\ L[p] = NIL,
           NEW L2, NEW R2, NEW P2, Att(P2) = Att(P) \ {p},
           \A x \in Strings : L2[x] = IF R[up] # p /\ x = up THEN q ELSE L[x],
           \A x \in Strings \union Roots : R2[x] = IF R[up] = p /\ x = up THEN q ELSE R[x]
    PROVE  \E D2 : IsOrder(d, L2, R2, P2, D2)
<1>c. /\ Att(P) \subseteq Strings /\ NIL \notin Strings /\ NIL \notin Roots
      /\ \A x \in Roots : x \notin Strings
      /\ \A x \in Att(P) : \A c \in {L[x], R[x]} : c # NIL => c \in Att(P) /\ P[c] = x
      /\ \A x \in Roots : R[x] # NIL => R[x] \in Att(P) /\ P[R[x]] = x
  BY ChildIs
<1>o. /\ D \in [Strings \union {NIL} -> SUBSET Strings] /\ D[NIL] = {}
      /\ \A x \in Att(P) : D[x] \subseteq Att(P)
      /\ \A x \in Att(P) : D[x] = {x} \union D[L[x]] \union D[R[x]]
      /\ \A x \in Att(P) : \A y \in D[L[x]] : Before(d, y, x)
      /\ \A x \in Att(P) : \A y \in D[R[x]] : Before(d, x, y)
      /\ \A x \in Att(P) : Root(d[x]) \in Roots /\ x \in D[R[Root(d[x])]]
  BY OrderIs
<1>u. up \in Att(P) => L[up] = p \/ R[up] = p
  <2>1. ChildInv(d, L, R, P)
    BY DEF Links
  <2> QED
    BY <1>c, <2>1 DEF ChildInv
<1>q. D[p] \ {p} = D[q] \ {p} /\ q \in Att(P) \union {NIL}
  BY <1>c, <1>o
<1> DEFINE D2 == [x \in Strings \union {NIL} |-> D[x] \ {p}]
<1>1. /\ D2 \in [Strings \union {NIL} -> SUBSET Strings] /\ D2[NIL] = {}
      /\ \A x \in Att(P) \union {NIL} : D2[x] = D[x] \ {p}
  BY <1>c, <1>o
<1> HIDE DEF D2
<1>2. UnderTypes(P2, D2)
  <2>1. ASSUME NEW x \in Att(P2) PROVE D2[x] \subseteq Att(P2)
    BY <1>o, <1>1
  <2> QED
    BY <1>1, <2>1 DEF UnderTypes
<1>3. ASSUME NEW x \in Att(P2)
      PROVE  /\ x \in Att(P) /\ x # p
             /\ D2[x] = D[x] \ {p} /\ D2[L2[x]] = D[L[x]] \ {p} /\ D2[R2[x]] = D[R[x]] \ {p}
  <2>1. D2[x] = D[x] \ {p} /\ x \in Strings /\ x \in Att(P) /\ x # p
    BY <1>c, <1>1
  <2>2. L[x] \in Att(P) \union {NIL} /\ R[x] \in Att(P) \union {NIL}
    BY <1>c, <2>1
  <2>3. D2[L[x]] = D[L[x]] \ {p} /\ D2[R[x]] = D[R[x]] \ {p} /\ D2[q] = D[p] \ {p}
    BY <1>1, <1>q, <2>2
  <2>4. D2[L2[x]] = D[L[x]] \ {p}
    <3>1. CASE R[up] # p /\ x = up
      <4>1. L2[x] = q /\ L[x] = p
        BY <1>u, <2>1, <3>1
      <4> QED
        BY <2>3, <4>1
    <3>2. CASE ~(R[up] # p /\ x = up)
      BY <2>1, <2>3, <3>2
    <3> QED
      BY <3>1, <3>2
  <2>5. D2[R2[x]] = D[R[x]] \ {p}
    <3>1. CASE R[up] = p /\ x = up
      <4>1. R2[x] = q /\ R[x] = p
        BY <2>1, <3>1
      <4> QED
        BY <2>3, <4>1
    <3>2. CASE ~(R[up] = p /\ x = up)
      BY <2>1, <2>3, <3>2
    <3> QED
      BY <3>1, <3>2
  <2> QED
    BY <2>1, <2>4, <2>5
<1>4. UnderIs(L2, R2, P2, D2)
  <2>1. ASSUME NEW x \in Att(P2) PROVE D2[x] = {x} \union D2[L2[x]] \union D2[R2[x]]
    <3>1. D[x] = {x} \union D[L[x]] \union D[R[x]]
      BY <1>o, <1>3
    <3> QED
      BY <1>3, <3>1
  <2> QED
    BY <2>1 DEF UnderIs
<1>5. LeftBefore(d, L2, P2, D2) /\ RightBehind(d, R2, P2, D2)
  BY <1>o, <1>3 DEF LeftBefore, RightBehind
<1>6. Reached(d, R2, P2, D2)
  <2>1. ASSUME NEW x \in Att(P2) PROVE Root(d[x]) \in Roots /\ x \in D2[R2[Root(d[x])]]
    <3> DEFINE c == Root(d[x])
    <3>1. c \in Roots /\ x \in D[R[c]] /\ x # p
      BY <1>o, <1>3
    <3> HIDE DEF c
    <3>2. R[c] \in Att(P) /\ P[R[c]] = c
      BY <1>c, <1>o, <3>1
    <3>3. R2[c] = IF R[up] = p /\ c = up THEN q ELSE R[c]
      BY <3>1
    <3>4. D2[R2[c]] = D[R[c]] \ {p}
      BY <1>1, <1>q, <3>2, <3>3
    <3> QED
      BY <3>1, <3>4 DEF c
  <2> QED
    BY <2>1 DEF Reached
<1> QED
  BY <1>2, <1>4, <1>5, <1>6 DEF IsOrder

\* So it is where its left child takes its place.
LEMMA ChildOrder ==
    ASSUME NEW d, ByteText(d), NEW L, NEW R, NEW P, Links(d, L, R, P), NEW D, IsOrder(d, L, R, P, D),
           NEW p \in Att(P), NEW up, NEW q, ChildPlaces(L, R, P, p, up, q),
           NEW L2, NEW R2, NEW P2, Att(P2) = Att(P) \ {p}, ChildMoves(L, R, P, L2, R2, P2, p, up, q)
    PROVE  \E D2 : IsOrder(d, L2, R2, P2, D2)
<1>p. /\ up = P[p] /\ up # p /\ q \in Strings /\ q # p /\ q # up
      /\ q = L[p] /\ R[p] # NIL /\ R[p] # p /\ R[p] # up /\ R[q] = NIL
  BY DEF ChildPlaces
<1>m. /\ \A x \in Strings : L2[x] = IF R[up] # p /\ x = up THEN q ELSE L[x]
      /\ \A x \in Strings \union Roots :
            R2[x] = IF R[up] = p /\ x = up THEN q ELSE IF x = q THEN R[p] ELSE R[x]
  BY DEF ChildMoves
<1>c. /\ Att(P) \subseteq Strings /\ NIL \notin Strings /\ NIL \notin Roots
      /\ \A x \in Roots : x \notin Strings
      /\ \A x \in Att(P) : \A c \in {L[x], R[x]} : c # NIL => c \in Att(P) /\ P[c] = x
      /\ \A x \in Att(P) : L[x] # NIL => L[x] # R[x]
      /\ \A x \in Roots : R[x] # NIL => R[x] \in Att(P) /\ P[R[x]] = x
  BY ChildIs
<1>o. /\ D \in [Strings \union {NIL} -> SUBSET Strings] /\ D[NIL] = {}
      /\ \A x \in Att(P) : D[x] \subseteq Att(P)
      /\ \A x \in Att(P) : D[x] = {x} \union D[L[x]] \union D[R[x]]
      /\ \A x \in Att(P) : \A y \in D[L[x]] : Before(d, y, x)
      /\ \A x \in Att(P) : \A y \in D[R[x]] : Before(d, x, y)
      /\ \A x \in Att(P) : Root(d[x]) \in Roots /\ x \in D[R[Root(d[x])]]
  BY OrderIs
<1>u. up \in Att(P) => L[up] = p \/ R[up] = p
  <2>1. ChildInv(d, L, R, P)
    BY DEF Links
  <2> QED
    BY <1>c, <1>p, <2>1 DEF ChildInv
<1>q. /\ q \in Att(P) /\ P[q] = p /\ R[p] \in Att(P) /\ P[R[p]] = p /\ R[p] # q
      /\ D[p] = {p} \union D[q] \union D[R[p]] /\ D[q] = {q} \union D[L[q]]
      /\ L[q] \in Att(P) \union {NIL} /\ L[q] # q
  BY <1>c, <1>o, <1>p
<1> DEFINE D2 == [x \in Strings \union {NIL} |-> IF x = q THEN D[p] \ {p} ELSE D[x] \ {p}]
<1>1. /\ D2 \in [Strings \union {NIL} -> SUBSET Strings] /\ D2[NIL] = {}
      /\ D2[q] = D[p] \ {p}
      /\ \A x \in Att(P) \union {NIL} : x # q => D2[x] = D[x] \ {p}
  BY <1>c, <1>o, <1>q
<1> HIDE DEF D2
<1>2. UnderTypes(P2, D2)
  <2>1. ASSUME NEW x \in Att(P2) PROVE D2[x] \subseteq Att(P2)
    BY <1>o, <1>1
  <2> QED
    BY <1>1, <2>1 DEF UnderTypes
<1>3. ASSUME NEW x \in Att(P2), x # q
      PROVE  /\ x \in Att(P) /\ x # p
             /\ D2[x] = D[x] \ {p} /\ D2[L2[x]] = D[L[x]] \ {p} /\ D2[R2[x]] = D[R[x]] \ {p}
  <2>1. D2[x] = D[x] \ {p} /\ x \in Strings /\ x \in Att(P) /\ x # p
    BY <1>c, <1>1, <1>3
  <2>2. L[x] \in Att(P) \union {NIL} /\ R[x] \in Att(P) \union {NIL} /\ L[x] # q /\ R[x] # q
    BY <1>c, <1>q, <2>1
  <2>3. D2[L[x]] = D[L[x]] \ {p} /\ D2[R[x]] = D[R[x]] \ {p}
    BY <1>1, <2>2
  <2>4. D2[L2[x]] = D[L[x]] \ {p}
    <3>1. CASE R[up] # p /\ x = up
      <4>1. L2[x] = q /\ L[x] = p
        BY <1>m, <1>u, <2>1, <3>1
      <4> QED
        BY <1>1, <4>1
    <3>2. CASE ~(R[up] # p /\ x = up)
      BY <1>m, <2>1, <2>3, <3>2
    <3> QED
      BY <3>1, <3>2
  <2>5. D2[R2[x]] = D[R[x]] \ {p}
    <3>1. CASE R[up] = p /\ x = up
      <4>1. R2[x] = q /\ R[x] = p
        BY <1>m, <2>1, <3>1
      <4> QED
        BY <1>1, <4>1
    <3>2. CASE ~(R[up] = p /\ x = up)
      BY <1>3, <1>m, <2>1, <2>3, <3>2
    <3> QED
      BY <3>1, <3>2
  <2> QED
    BY <2>1, <2>4, <2>5
<1>4. D2[L2[q]] = D[L[q]] \ {p} /\ D2[R2[q]] = D[R[p]] \ {p}
  <2>1. L2[q] = L[q] /\ R2[q] = R[p]
    BY <1>m, <1>p
  <2> QED
    BY <1>1, <1>q, <2>1
<1>5. UnderIs(L2, R2, P2, D2)
  <2>1. ASSUME NEW x \in Att(P2) PROVE D2[x] = {x} \union D2[L2[x]] \union D2[R2[x]]
    <3>1. CASE x = q
      BY <1>1, <1>4, <1>p, <1>q, <3>1
    <3>2. CASE x # q
      <4>1. D[x] = {x} \union D[L[x]] \union D[R[x]]
        BY <1>o, <1>3, <3>2
      <4> QED
        BY <1>3, <3>2, <4>1
    <3> QED
      BY <3>1, <3>2
  <2> QED
    BY <2>1 DEF UnderIs
<1>6. ASSUME NEW y \in D[R[p]] PROVE Before(d, q, y)
  <2>1. Before(d, q, p) /\ Before(d, p, y)
    BY <1>o, <1>p, <1>q
  <2>2. q \in Strings /\ p \in Strings /\ y \in Strings
    BY <1>c, <1>o, <1>q
  <2> QED
    BY <2>1, <2>2, BeforeTwice
<1>7. LeftBefore(d, L2, P2, D2)
  <2>1. ASSUME NEW x \in Att(P2) PROVE x \in Att(P) /\ D2[L2[x]] \subseteq D[L[x]]
    BY <1>3, <1>4
  <2> QED
    BY <1>o, <2>1 DEF LeftBefore
<1>8. RightBehind(d, R2, P2, D2)
  BY <1>o, <1>3, <1>4, <1>6 DEF RightBehind
<1>9. Reached(d, R2, P2, D2)
  <2>1. ASSUME NEW x \in Att(P2) PROVE Root(d[x]) \in Roots /\ x \in D2[R2[Root(d[x])]]
    <3> DEFINE c == Root(d[x])
    <3>1. c \in Roots /\ x \in D[R[c]] /\ x # p
      BY <1>o
    <3> HIDE DEF c
    <3>2. R[c] \in Att(P) /\ P[R[c]] = c /\ c # q /\ R[c] # q
      BY <1>c, <1>o, <1>q, <3>1
    <3>3. R2[c] = IF R[up] = p /\ c = up THEN q ELSE R[c]
      BY <1>m, <3>1, <3>2
    <3>4. D2[R2[c]] = D[R[c]] \ {p}
      BY <1>1, <3>2, <3>3
    <3> QED
      BY <3>1, <3>4 DEF c
  <2> QED
    BY <2>1 DEF Reached
<1> QED
  BY <1>2, <1>5, <1>7, <1>8, <1>9 DEF IsOrder

\* So it is where the last string on its left takes its place.
LEMMA HeirOrder ==
    ASSUME NEW d, ByteText(d), NEW L, NEW R, NEW P, Links(d, L, R, P), NEW D, IsOrder(d, L, R, P, D),
           \A x \in Att(P) : \A y \in D[x] : D[y] \subseteq D[x] /\ (y # x => P[y] \in D[x]),
           NEW p \in Att(P), NEW q \in D[L[p]], \A y \in D[L[p]] : y = q \/ Before(d, y, q),
           NEW m \in Att(P), NEW up, HeirPlaces(L, R, P, p, up, q, m),
           NEW L2, NEW R2, NEW P2, Att(P2) = Att(P) \ {p}, HeirMoves(L, R, P, L2, R2, P2, p, up, q, m)
    PROVE  \E D2 : IsOrder(d, L2, R2, P2, D2)
<1> DEFINE a == L[p]
           b == R[p]
           e == L[q]
<1>p. /\ up = P[p] /\ up # p /\ q # p /\ q # up
      /\ m = P[q] /\ R[m] = q /\ R[q] = NIL /\ m # q /\ m # p /\ m # up
      /\ a # NIL /\ b # NIL /\ a # q /\ b # q /\ a # up /\ b # up /\ a # p /\ b # p
      /\ e # up /\ e # p /\ e # q /\ e # m
  BY DEF HeirPlaces
<1>m. /\ \A x \in Strings : L2[x] = IF R[up] # p /\ x = up THEN q ELSE IF x = q THEN a ELSE L[x]
      /\ \A x \in Strings \union Roots :
            R2[x] = IF R[up] = p /\ x = up THEN q ELSE IF x = q THEN b ELSE IF x = m THEN e ELSE R[x]
  BY DEF HeirMoves
<1>c. /\ Att(P) \subseteq Strings /\ NIL \notin Strings /\ NIL \notin Roots
      /\ \A x \in Roots : x \notin Strings
      /\ \A x \in Att(P) : \A c \in {L[x], R[x]} : c # NIL => c \in Att(P) /\ P[c] = x
      /\ \A x \in Att(P) : L[x] # NIL => L[x] # R[x]
      /\ \A x \in Roots : R[x] # NIL => R[x] \in Att(P) /\ P[R[x]] = x
  BY ChildIs
<1>o. /\ D \in [Strings \union {NIL} -> SUBSET Strings] /\ D[NIL] = {}
      /\ \A x \in Att(P) : D[x] \subseteq Att(P)
      /\ \A x \in Att(P) : D[x] = {x} \union D[L[x]] \union D[R[x]]
      /\ \A x \in Att(P) : \A y \in D[L[x]] : Before(d, y, x)
      /\ \A x \in Att(P) : \A y \in D[R[x]] : Before(d, x, y)
      /\ \A x \in Att(P) : Root(d[x]) \in Roots /\ x \in D[R[Root(d[x])]]
  BY OrderIs
<1>u. up \in Att(P) => L[up] = p \/ R[up] = p
  <2>1. ChildInv(d, L, R, P)
    BY DEF Links
  <2> QED
    BY <1>c, <1>p, <2>1 DEF ChildInv
<1>ab. /\ a \in Att(P) /\ P[a] = p /\ b \in Att(P) /\ P[b] = p
       /\ D[p] = {p} \union D[a] \union D[b] /\ a \in D[a] /\ b \in D[b]
       /\ D[a] \subseteq Att(P) /\ D[b] \subseteq Att(P)
  BY <1>c, <1>o, <1>p
<1>q. /\ q \in D[a] /\ q \in Att(P) /\ D[q] = {q} \union D[e] /\ D[m] = {m} \union D[L[m]] \union D[q]
      /\ e \in Att(P) \union {NIL}
      /\ e # NIL => P[e] = q /\ e \in D[e]
  BY <1>ab, <1>c, <1>o, <1>p
<1>i. \A y \in D[a] : D[y] \subseteq D[a] /\ (y # a => P[y] \in D[a])
  BY <1>ab
<1>h. \A y \in D[a] : y = q \/ Before(d, y, q)
  OBVIOUS
<1>x. \A y \in D[a] : ~Before(d, p, y)
  <2> SUFFICES ASSUME NEW y \in D[a], Before(d, p, y) PROVE FALSE
    OBVIOUS
  <2>1. Before(d, y, p) /\ y \in Strings /\ p \in Strings
    BY <1>ab, <1>c, <1>o
  <2> QED
    BY <2>1, BeforeTwice, NotBeforeItself
<1> HIDE DEF a, b, e
<1>k. /\ p \notin D[a] /\ b \notin D[a] /\ up \notin D[a] /\ m \in D[a]
      /\ e # NIL => e \in D[a]
  <2>1. p \notin D[a]
    <3> SUFFICES ASSUME p \in D[a] PROVE FALSE
      OBVIOUS
    <3>1. Before(d, p, p) /\ p \in Strings
      BY <1>o, <1>c DEF a
    <3> QED
      BY <3>1, NotBeforeItself
  <2>2. b \notin D[a]
    <3>1. Before(d, p, b)
      BY <1>ab, <1>o DEF b
    <3> QED
      BY <1>x, <3>1
  <2>3. up \notin D[a]
    <3> SUFFICES ASSUME up \in D[a] PROVE FALSE
      OBVIOUS
    <3>1. up \in Att(P) /\ D[up] \subseteq D[a]
      BY <1>ab, <1>i
    <3>2. p \in D[p] /\ D[up] = {up} \union D[L[up]] \union D[R[up]]
      BY <1>ab, <1>o, <3>1
    <3>3. p \in D[up]
      BY <1>u, <3>1, <3>2
    <3> QED
      BY <2>1, <3>1, <3>3
  <2>4. m \in D[a]
    BY <1>i, <1>p, <1>q
  <2>5. e # NIL => e \in D[a]
    BY <1>i, <1>q
  <2> QED
    BY <2>1, <2>2, <2>3, <2>4, <2>5
<1> DEFINE D2 == [x \in Strings \union {NIL} |-> IF x = q THEN D[p] \ {p}
                                                 ELSE IF x \in D[a] THEN D[x] \ {q} ELSE D[x] \ {p}]
<1>1. /\ D2 \in [Strings \union {NIL} -> SUBSET Strings] /\ D2[NIL] = {}
      /\ D2[q] = D[p] \ {p}
      /\ \A x \in Att(P) \union {NIL} : x # q => D2[x] = IF x \in D[a] THEN D[x] \ {q} ELSE D[x] \ {p}
  BY <1>c, <1>o, <1>q
<1> HIDE DEF D2
<1>2. UnderTypes(P2, D2)
  <2>1. ASSUME NEW x \in Att(P2) PROVE D2[x] \subseteq Att(P2)
    <3>0. x \in Att(P) /\ D[x] \subseteq Att(P) /\ D[p] \subseteq Att(P)
      BY <1>o
    <3>1. CASE x = q
      BY <1>1, <3>0, <3>1
    <3>2. CASE x # q /\ x \in D[a]
      <4>0. D2[x] = D[x] \ {q} /\ D[x] \subseteq D[a]
        BY <1>1, <1>i, <3>0, <3>2
      <4>1. D2[x] \subseteq D[a]
        BY <4>0
      <4> QED
        BY <1>ab, <1>k, <4>1
    <3>3. CASE x # q /\ x \notin D[a]
      <4>1. D2[x] = D[x] \ {p}
        BY <1>1, <3>0, <3>3
      <4> QED
        BY <3>0, <4>1
    <3> QED
      BY <3>1, <3>2, <3>3
  <2> QED
    BY <1>1, <2>1 DEF UnderTypes
\* q has p's children.
<1>3. D2[L2[q]] = D[a] \ {q} /\ D2[R2[q]] = D[b] \ {p}
  <2>1. L2[q] = a /\ R2[q] = b
    BY <1>ab, <1>c, <1>m, <1>p, <1>q
  <2> QED
    BY <1>1, <1>ab, <1>k, <1>p, <2>1
\* Those below a lose q.
<1>4. ASSUME NEW x \in D[a], x # q
      PROVE  /\ D2[x] = D[x] \ {q} /\ D2[L2[x]] = D[L[x]] \ {q} /\ D2[R2[x]] = D[R[x]] \ {q}
  <2>1. D2[x] = D[x] \ {q} /\ x \in Strings /\ x \in Att(P) /\ x # up
    BY <1>1, <1>4, <1>ab, <1>c, <1>k
  <2>2. D[x] = {x} \union D[L[x]] \union D[R[x]] /\ D[x] \subseteq D[a]
    BY <1>i, <1>o, <2>1
  <2>3. /\ L[x] # NIL => L[x] \in Att(P) /\ P[L[x]] = x /\ L[x] \in D[L[x]]
        /\ R[x] # NIL => R[x] \in Att(P) /\ P[R[x]] = x /\ R[x] \in D[R[x]]
        /\ L[x] # NIL => L[x] # R[x]
    BY <1>c, <1>o, <2>1
  <2>4. L[x] # q
    BY <1>c, <1>p, <1>q, <2>3
  <2>5. L[x] # NIL => L[x] \in D[a]
    BY <2>2, <2>3
  <2>6. D2[L[x]] = D[L[x]] \ {q}
    <3>1. CASE L[x] = NIL
      BY <1>1, <1>o, <3>1
    <3>2. CASE L[x] # NIL
      BY <1>1, <2>3, <2>4, <2>5, <3>2
    <3> QED
      BY <3>1, <3>2
  <2>7. L2[x] = L[x]
    BY <1>m, <1>4, <2>1
  <2>8. D2[R2[x]] = D[R[x]] \ {q}
    <3>1. CASE x = m
      <4>1. R2[x] = e /\ R[x] = q
        BY <1>m, <1>p, <2>1, <3>1
      <4>2. D2[e] = D[e] \ {q}
        BY <1>1, <1>k, <1>o, <1>p, <1>q
      <4> QED
        BY <1>q, <4>1, <4>2
    <3>2. CASE x # m
      <4>1. R2[x] = R[x] /\ R[x] # q
        BY <1>m, <1>4, <1>p, <1>q, <1>c, <2>1, <2>3, <3>2
      <4>2. R[x] # NIL => R[x] \in D[a]
        BY <2>2, <2>3
      <4>3. CASE R[x] = NIL
        BY <1>1, <1>o, <4>1, <4>3
      <4>4. CASE R[x] # NIL
        BY <1>1, <2>3, <4>1, <4>2, <4>4
      <4> QED
        BY <4>3, <4>4
    <3> QED
      BY <3>1, <3>2
  <2> QED
    BY <2>1, <2>6, <2>7, <2>8
\* The others lose p.
<1>5. ASSUME NEW x \in Att(P), x # p, x \notin D[a]
      PROVE  /\ D2[x] = D[x] \ {p} /\ D2[L2[x]] = D[L[x]] \ {p} /\ D2[R2[x]] = D[R[x]] \ {p}
  <2>0. x # q /\ x # m /\ x \in Strings
    BY <1>5, <1>c, <1>k, <1>q
  <2>1. D2[x] = D[x] \ {p}
    BY <1>1, <1>5, <2>0
  <2>2. ASSUME NEW y \in {L[x], R[x]}, y # NIL PROVE y \in Att(P) /\ y \notin D[a]
    <3>1. y \in Att(P) /\ P[y] = x
      BY <1>c, <2>2
    <3> QED
      BY <1>5, <1>ab, <1>i, <3>1
  <2>3. ASSUME NEW y \in {L[x], R[x]} PROVE D2[y] = D[y] \ {p}
    <3>1. CASE y = NIL
      BY <1>1, <1>o, <3>1
    <3>2. CASE y # NIL
      BY <1>1, <1>q, <2>2, <3>2
    <3> QED
      BY <3>1, <3>2
  <2>4. D2[L2[x]] = D[L[x]] \ {p}
    <3>1. CASE R[up] # p /\ x = up
      <4>1. L2[x] = q /\ L[x] = p
        BY <1>m, <1>u, <2>0, <3>1
      <4> QED
        BY <1>1, <4>1
    <3>2. CASE ~(R[up] # p /\ x = up)
      BY <1>m, <2>0, <2>3, <3>2
    <3> QED
      BY <3>1, <3>2
  <2>5. D2[R2[x]] = D[R[x]] \ {p}
    <3>1. CASE R[up] = p /\ x = up
      <4>1. R2[x] = q /\ R[x] = p
        BY <1>m, <2>0, <3>1
      <4> QED
        BY <1>1, <4>1
    <3>2. CASE ~(R[up] = p /\ x = up)
      BY <1>m, <2>0, <2>3, <3>2
    <3> QED
      BY <3>1, <3>2
  <2> QED
    BY <2>1, <2>4, <2>5
<1>6. UnderIs(L2, R2, P2, D2)
  <2>1. ASSUME NEW x \in Att(P2) PROVE D2[x] = {x} \union D2[L2[x]] \union D2[R2[x]]
    <3>0. x \in Att(P) /\ x # p /\ D[x] = {x} \union D[L[x]] \union D[R[x]]
      BY <1>o
    <3>1. CASE x = q
      BY <1>1, <1>3, <1>ab, <1>k, <1>p, <1>q, <3>1
    <3>2. CASE x # q /\ x \in D[a]
      BY <1>4, <3>0, <3>2
    <3>3. CASE x # q /\ x \notin D[a]
      BY <1>5, <3>0, <3>3
    <3> QED
      BY <3>1, <3>2, <3>3
  <2> QED
    BY <2>1 DEF UnderIs
<1>7. ASSUME NEW x \in Att(P2), x # q
      PROVE  x \in Att(P) /\ D2[L2[x]] \subseteq D[L[x]] /\ D2[R2[x]] \subseteq D[R[x]]
  BY <1>4, <1>5, <1>7
<1>8. LeftBefore(d, L2, P2, D2)
  <2>1. ASSUME NEW x \in Att(P2), NEW y \in D2[L2[x]] PROVE Before(d, y, x)
    <3>1. CASE x = q
      BY <1>3, <1>h, <3>1
    <3>2. CASE x # q
      BY <1>7, <1>o, <3>2
    <3> QED
      BY <3>1, <3>2
  <2> QED
    BY <2>1 DEF LeftBefore
<1>9. RightBehind(d, R2, P2, D2)
  <2>1. ASSUME NEW x \in Att(P2), NEW y \in D2[R2[x]] PROVE Before(d, x, y)
    <3>1. CASE x = q
      <4>1. y \in D[b]
        BY <1>3, <3>1
      <4>2. Before(d, q, p) /\ Before(d, p, y)
        BY <1>o, <1>q, <4>1 DEF a, b
      <4>3. q \in Strings /\ p \in Strings /\ y \in Strings
        BY <1>ab, <1>c, <1>q, <4>1
      <4> QED
        BY <3>1, <4>2, <4>3, BeforeTwice
    <3>2. CASE x # q
      BY <1>7, <1>o, <3>2
    <3> QED
      BY <3>1, <3>2
  <2> QED
    BY <2>1 DEF RightBehind
<1>10. Reached(d, R2, P2, D2)
  <2>1. ASSUME NEW x \in Att(P2) PROVE Root(d[x]) \in Roots /\ x \in D2[R2[Root(d[x])]]
    <3> DEFINE c == Root(d[x])
    <3>1. c \in Roots /\ x \in D[R[c]] /\ x # p
      BY <1>o
    <3> HIDE DEF c
    <3>2. R[c] \in Att(P) /\ P[R[c]] = c /\ c # q /\ c # m /\ c \notin Strings
      BY <1>c, <1>o, <1>q, <3>1
    <3>3. R2[c] = IF R[up] = p /\ c = up THEN q ELSE R[c]
      BY <1>m, <3>1, <3>2
    <3>4. R[c] \notin D[a] /\ R[c] # q
      <4>1. c # p /\ c \notin D[a]
        BY <1>ab, <1>c, <3>2
      <4> QED
        BY <1>ab, <1>i, <1>q, <3>2, <4>1
    <3>5. D2[R2[c]] = D[R[c]] \ {p}
      <4>1. CASE R[up] = p /\ c = up
        BY <1>1, <3>3, <4>1
      <4>2. CASE ~(R[up] = p /\ c = up)
        BY <1>1, <3>2, <3>3, <3>4, <4>2
      <4> QED
        BY <4>1, <4>2
    <3> QED
      BY <3>1, <3>5 DEF c
  <2> QED
    BY <2>1 DEF Reached
<1> QED
  BY <1>2, <1>6, <1>8, <1>9, <1>10 DEF IsOrder

\* The end of the way to the right is the last of the subtree.
LEMMA RightmostLast ==
    ASSUME NEW z \in Compressor, ByteText(z.dict), NEW rk, NEW B, Tree(z, rk, B), NEW D,
           IsOrder(z.dict, z.lson, z.rson, z.parent, D), NEW a \in InTree(z)
    PROVE  LET q == RightmostOf(z, a) IN q \in D[a] /\ \A y \in D[a] : y = q \/ Before(z.dict, y, q)
<1> DEFINE d == z.dict
           L == z.lson
           R == z.rson
           P == z.parent
<1>0. Links(d, L, R, P) /\ InTree(z) = Att(P)
  BY TreeIs DEF Tree
<1>t. ByteText(d) /\ IsOrder(d, L, R, P, D)
  OBVIOUS
<1>1. PICK f : f = RightStep(z, f) /\ RightmostOf(z, a) = f[a]
  BY RightFunction, RightChoice
<1>2. ASSUME NEW x \in InTree(z) PROVE f[x] = IF R[x] = NIL THEN x ELSE f[R[x]]
  <2>1. RightStep(z, f)[x] = IF z.rson[x] = NIL THEN x ELSE f[z.rson[x]]
    BY DEF RightStep
  <2> QED
    BY <1>1, <2>1
<1>3. B \in Nat /\ InTree(z) \subseteq Strings /\ \A x \in InTree(z) : rk[x] \in 0..B /\ rk[x] \in Int
  BY TreeIs
<1>4. \A x \in InTree(z) : R[x] # NIL => R[x] \in InTree(z) /\ rk[x] < rk[R[x]]
  BY TreeIs
<1> HIDE DEF d, L, R, P
<1>o. /\ D[NIL] = {}
      /\ \A x \in InTree(z) : D[x] \subseteq InTree(z)
      /\ \A x \in InTree(z) : D[x] = {x} \union D[L[x]] \union D[R[x]]
      /\ \A x \in InTree(z) : \A y \in D[L[x]] : Before(d, y, x)
      /\ \A x \in InTree(z) : \A y \in D[R[x]] : Before(d, x, y)
  BY <1>0, <1>t, OrderIs
<1> DEFINE Fits(x) == f[x] \in D[x] /\ \A y \in D[x] : y = f[x] \/ Before(d, y, f[x])
           Near(n) == {x \in InTree(z) : B - rk[x] < n}
           S == {n \in Nat : \A x \in Near(n) : Fits(x)}
<1>5. 0 \in S
  BY <1>3
<1>6. ASSUME NEW n \in S PROVE n + 1 \in S
  <2>1. ASSUME NEW x \in Near(n + 1) PROVE Fits(x)
    <3>0. D[x] = {x} \union D[L[x]] \union D[R[x]] /\ x \in InTree(z)
      BY <1>o
    <3>1. CASE R[x] = NIL
      <4>1. f[x] = x /\ D[R[x]] = {}
        BY <1>2, <1>o, <3>1
      <4> QED
        BY <1>o, <3>0, <4>1
    <3>2. CASE R[x] # NIL
      <4> DEFINE r == R[x]
      <4>1. r \in InTree(z) /\ rk[x] < rk[r] /\ f[x] = f[r]
        BY <1>2, <1>4, <3>2
      <4>2. r \in Near(n)
        BY <1>3, <3>0, <4>1
      <4>3. Fits(r)
        BY <4>2
      <4> DEFINE q == f[r]
      <4>4. q \in D[r] /\ \A y \in D[r] : y = q \/ Before(d, y, q)
        BY <4>3
      <4>5. Before(d, x, q)
        BY <1>o, <3>0, <4>4
      <4>6. ASSUME NEW y \in D[L[x]] PROVE Before(d, y, q)
        <5>1. Before(d, y, x)
          BY <1>o, <3>0
        <5>2. y \in Strings /\ x \in Strings /\ q \in Strings
          BY <1>3, <1>o, <3>0, <4>1, <4>4
        <5> QED
          BY <1>t, <4>5, <5>1, <5>2, BeforeTwice
      <4> QED
        BY <3>0, <4>1, <4>4, <4>5, <4>6
    <3> QED
      BY <3>1, <3>2
  <2> HIDE DEF Near, Fits
  <2> QED
    BY <2>1
<1>7. S \subseteq Nat
  OBVIOUS
<1> HIDE DEF S
<1>8. S = Nat
  BY <1>5, <1>6, <1>7, Induct
<1>9. B + 1 \in S /\ a \in Near(B + 1)
  BY <1>3, <1>8
<1> QED
  BY <1>1, <1>9 DEF S, d

\* Where the way goes on from x, r is on that side.
LEMMA SideBefore ==
    ASSUME NEW z \in Compressor, NEW r \in Strings, NEW x \in Strings, z.dict[x] = z.dict[r],
           NEW s, s = Shared(z, x, r), s # F
    PROVE  /\ s \in 1..F-1 /\ \A i \in 0..s-1 : z.dict[r + i] = z.dict[x + i]
           /\ \/ /\ z.dict[r + s] < z.dict[x + s] /\ Before(z.dict, r, x) /\ Side(z, r, x) = z.lson[x]
              \/ /\ z.dict[x + s] < z.dict[r + s] /\ Before(z.dict, x, r) /\ Side(z, r, x) = z.rson[x]
                 /\ ~(z.dict[r + s] < z.dict[x + s])
<1>n. F \in Nat
  BY Numbers
<1>1. /\ s \in 1..F /\ \A j \in 1..s-1 : z.dict[r + j] = z.dict[x + j]
      /\ s < F => z.dict[r + s] # z.dict[x + s]
  BY SharedIs
<1>2. s \in 1..F-1 /\ s \in 0..F-1 /\ s < F
  BY <1>1, <1>n
<1>3. ASSUME NEW i \in 0..s-1 PROVE z.dict[r + i] = z.dict[x + i]
  <2>1. CASE i = 0
    BY <2>1 DEF Strings
  <2>2. CASE i # 0
    BY <1>1, <1>2, <2>2
  <2> QED
    BY <2>1, <2>2
<1>4. z.dict[r + s] \in Nat /\ z.dict[x + s] \in Nat
  BY <1>2, TextTypes
<1>5. CASE z.dict[r + s] < z.dict[x + s]
  <2>1. Before(z.dict, r, x)
    BY <1>2, <1>3, <1>5 DEF Before
  <2>2. Side(z, r, x) = z.lson[x]
    BY <1>5 DEF Side
  <2> QED
    BY <1>2, <1>3, <1>5, <2>1, <2>2
<1>6. CASE ~(z.dict[r + s] < z.dict[x + s])
  <2>0. z.dict[x + s] < z.dict[r + s]
    BY <1>1, <1>2, <1>4, <1>6
  <2>1. Before(z.dict, x, r)
    BY <1>2, <1>3, <2>0 DEF Before
  <2>2. Side(z, r, x) = z.rson[x]
    BY <1>6 DEF Side
  <2> QED
    BY <1>2, <1>3, <1>6, <2>0, <2>1, <2>2
<1> QED
  BY <1>5, <1>6

\* The nodes of a way.
Nodes(w) == {w[i].node : i \in 1..Len(w)}

\* They are those that r is compared with.
LEMMA WayCompares ==
    ASSUME NEW z \in Compressor, NEW rk, NEW B, Tree(z, rk, B), NEW r \in Strings, z.dict[r] \in Char,
           NEW w, IsWay(z, r, z.rson[Root(z.dict[r])], w), Len(w) >= 1,
           NEW p, p = w[Len(w)].node, NEW s, s = w[Len(w)].len, s # F,
           NEW left, left = (z.dict[r + s] < z.dict[p + s])
    PROVE  left \in BOOLEAN /\ OnWay(z.dict, z.lson, z.rson, z.parent, r, p, left, Nodes(w))
<1> DEFINE d == z.dict
           L == z.lson
           R == z.rson
           P == z.parent
           W == Nodes(w)
           c == Root(d[r])
<1>t. /\ InTree(z) = Att(P) /\ InTree(z) \subseteq Strings /\ Links(d, L, R, P)
      /\ \A x \in Roots : x \notin Strings
  BY TreeIs DEF Tree
<1>c. /\ NIL \notin Strings
      /\ \A x \in Att(P) : \A q \in {L[x], R[x]} : q # NIL => q \in Att(P) /\ P[q] = x
      /\ \A x \in Att(P) : L[x] # NIL => L[x] # R[x]
      /\ \A x \in Roots : R[x] # NIL => R[x] \in Att(P) /\ P[R[x]] = x
  BY <1>t, ChildIs
<1>w. /\ w \in Seq(Stage) /\ Len(w) \in Nat
      /\ \A i \in 1..Len(w) : w[i].node \in InTree(z) /\ d[w[i].node] = d[r] /\ w[i].len = Shared(z, w[i].node, r)
      /\ \A i \in 1..Len(w)-1 : w[i].len # F /\ w[i+1].node = Side(z, r, w[i].node)
      /\ R[c] # NIL /\ w[1].node = R[c] /\ Side(z, r, p) = NIL
  BY DEF IsWay
<1>r. c \in Roots
  BY RootsAre
<1>1. W \subseteq Att(P) /\ p \in W /\ c \in Roots /\ R[c] \in W
  BY <1>r, <1>t, <1>w DEF Nodes
<1>2. ASSUME NEW x \in W, x # p PROVE L[x] \in W \/ R[x] \in W
  <2>1. PICK i \in 1..Len(w) : x = w[i].node
    BY DEF Nodes
  <2>2. i \in 1..Len(w)-1 /\ i + 1 \in 1..Len(w)
    BY <1>2, <1>w, <2>1
  <2>3. Side(z, r, x) \in W
    BY <1>w, <2>1, <2>2 DEF Nodes
  <2> QED
    BY <2>3 DEF Side
\* A child that is on the way is where the way goes on.
<1>3. ASSUME NEW x \in Att(P), NEW q \in {L[x], R[x]}, q \in W
      PROVE  x \in W /\ Shared(z, x, r) # F /\ d[x] = d[r] /\ q = Side(z, r, x)
  <2>1. PICK i \in 1..Len(w) : q = w[i].node
    BY <1>3 DEF Nodes
  <2>2. q \in Att(P) /\ q # NIL /\ P[q] = x
    BY <1>1, <1>3, <1>c, <1>t
  <2>3. i # 1
    BY <1>c, <1>r, <1>t, <1>w, <2>1, <2>2
  <2>4. i - 1 \in 1..Len(w)-1 /\ i - 1 \in 1..Len(w) /\ (i - 1) + 1 = i
    BY <1>w, <2>3
  <2>5. q = Side(z, r, w[i - 1].node) /\ w[i - 1].len # F /\ w[i - 1].node \in Att(P)
    BY <1>t, <1>w, <2>1, <2>4
  <2>6. Side(z, r, w[i - 1].node) \in {L[w[i - 1].node], R[w[i - 1].node]}
    BY DEF Side
  <2>7. w[i - 1].node = x
    BY <1>c, <2>2, <2>5, <2>6
  <2> QED
    BY <1>w, <2>4, <2>5, <2>7 DEF Nodes
<1>4. ASSUME NEW x \in Att(P), L[x] \in W PROVE x \in W /\ Before(d, r, x)
  <2>1. x \in W /\ Shared(z, x, r) # F /\ d[x] = d[r] /\ L[x] = Side(z, r, x) /\ L[x] # R[x] /\ x \in Strings
    BY <1>1, <1>3, <1>4, <1>c, <1>t
  <2> QED
    BY <2>1, SideBefore
<1>5. ASSUME NEW x \in Att(P), R[x] \in W PROVE x \in W /\ Before(d, x, r)
  <2>1. /\ x \in W /\ Shared(z, x, r) # F /\ d[x] = d[r] /\ R[x] = Side(z, r, x) /\ x \in Strings
        /\ R[x] # NIL /\ L[x] # R[x]
    BY <1>1, <1>3, <1>5, <1>c, <1>t
  <2> QED
    BY <2>1, SideBefore
<1>6. left \in BOOLEAN
  OBVIOUS
<1>7. IF left THEN L[p] = NIL /\ Before(d, r, p) ELSE R[p] = NIL /\ Before(d, p, r)
  <2>1. p \in Strings /\ d[p] = d[r] /\ s = Shared(z, p, r) /\ Side(z, r, p) = NIL
    BY <1>t, <1>w
  <2>2. d[r + s] \in Nat /\ d[p + s] \in Nat
    <3>1. s \in 1..F-1
      BY <2>1, SideBefore
    <3>2. s \in 0..F-1
      BY <3>1, Numbers
    <3> QED
      BY <2>1, <3>2, TextTypes
  <2>3. \/ d[r + s] < d[p + s] /\ Before(d, r, p) /\ Side(z, r, p) = L[p]
        \/ d[p + s] < d[r + s] /\ Before(d, p, r) /\ Side(z, r, p) = R[p]
    BY <2>1, SideBefore
  <2>4. left <=> d[r + s] < d[p + s]
    OBVIOUS
  <2> HIDE DEF d, L, R
  <2> QED
    BY <2>1, <2>2, <2>3, <2>4
<1> HIDE DEF d, L, R, P, W, c
<1>8. OnWay(d, L, R, P, r, p, left, W)
  BY <1>1, <1>2, <1>4, <1>5, <1>7 DEF OnWay, c
<1> QED
  BY <1>6, <1>8 DEF d, L, R, P, W

\* No string below the way agrees with r in more bytes than one on it.
LEMMA WayWithin ==
    ASSUME NEW z \in Compressor, ByteText(z.dict), NEW rk, NEW B, Tree(z, rk, B), NEW D,
           IsOrder(z.dict, z.lson, z.rson, z.parent, D), NEW r \in Strings,
           NEW from, NEW w, IsWay(z, r, from, w), Len(w) >= 1,
           NEW n \in Nat, \A i \in 1..Len(w) : w[i].len <= n
    PROVE  \A x \in D[from] : Within(z.dict, x, r, n)
<1> DEFINE d == z.dict
           L == z.lson
           R == z.rson
           P == z.parent
<1>0. ByteText(d) /\ F \in Nat /\ \A x \in InTree(z) : x \in Strings
  BY Numbers, TreeIs
<1>o. /\ D[NIL] = {}
      /\ \A x \in InTree(z) : D[x] \subseteq InTree(z)
      /\ \A x \in InTree(z) : D[x] = {x} \union D[L[x]] \union D[R[x]]
      /\ \A x \in InTree(z) : \A y \in D[L[x]] : Before(d, y, x)
      /\ \A x \in InTree(z) : \A y \in D[R[x]] : Before(d, x, y)
  <2>1. Links(d, L, R, P) /\ InTree(z) = Att(P)
    BY TreeIs DEF Tree
  <2> HIDE DEF d, L, R, P
  <2>2. IsOrder(d, L, R, P, D)
    BY DEF d, L, R, P
  <2> QED
    BY <2>1, <2>2, OrderIs
<1>w. /\ w \in Seq(Stage) /\ Len(w) \in Nat
      /\ \A i \in 1..Len(w) : w[i].node \in InTree(z) /\ d[w[i].node] = d[r] /\ w[i].len = Shared(z, w[i].node, r)
      /\ \A i \in 1..Len(w)-1 : w[i].len # F /\ w[i+1].node = Side(z, r, w[i].node)
      /\ w[1].node = from /\ (w[Len(w)].len = F \/ Side(z, r, w[Len(w)].node) = NIL)
  BY DEF IsWay
<1> DEFINE Fits(i) == \A x \in D[w[i].node] : Within(d, x, r, n)
           S == {k \in Nat : \A i \in 1..Len(w) : Len(w) - i < k => Fits(i)}
<1>1. 0 \in S
  BY <1>w
<1>2. ASSUME NEW k \in S PROVE k + 1 \in S
  <2>1. ASSUME NEW i \in 1..Len(w), Len(w) - i < k + 1, NEW x \in D[w[i].node] PROVE Within(d, x, r, n)
    <3> DEFINE p == w[i].node
               s == w[i].len
    <3>1. p \in InTree(z) /\ p \in Strings /\ d[p] = d[r] /\ s = Shared(z, p, r) /\ s <= n /\ s \in 1..F
      BY <1>0, <1>w, SharedIs
    <3>2. CASE s = F
      <4>1. F \in 0..n /\ ~(F < F)
        BY <1>0, <3>1, <3>2
      <4> QED
        BY <4>1 DEF Within
    <3>3. CASE s # F
      <4> DEFINE q == Side(z, r, p)
      <4>1. \A y \in D[q] : Within(d, y, r, n)
        <5>1. CASE i = Len(w)
          BY <1>o, <1>w, <3>3, <5>1
        <5>2. CASE i # Len(w)
          <6>1. i \in 1..Len(w)-1 /\ i + 1 \in 1..Len(w) /\ Len(w) - (i + 1) < k
            BY <1>w, <2>1, <5>2
          <6>2. Fits(i + 1)
            BY <6>1
          <6> QED
            BY <1>w, <6>1, <6>2
        <5> QED
          BY <5>1, <5>2
      <4>2. /\ s \in 1..F-1 /\ \A j \in 0..s-1 : d[r + j] = d[p + j]
            /\ \/ /\ d[r + s] < d[p + s] /\ Before(d, r, p) /\ q = L[p]
               \/ /\ d[p + s] < d[r + s] /\ Before(d, p, r) /\ q = R[p]
                  /\ ~(d[r + s] < d[p + s])
        BY <3>1, <3>3, SideBefore
      <4>3. D[p] = {p} \union D[L[p]] \union D[R[p]] /\ x \in D[p] /\ x \in Strings
        BY <1>0, <1>o, <3>1
      <4>4. s \in 0..n /\ s \in 0..F-1 /\ s \in Nat
        BY <1>0, <3>1, <4>2
      <4>5. d[p + s] # d[r + s]
        BY <1>0, <3>1, <4>2, <4>4, NotBeforeItself DEF ByteText
      <4> HIDE DEF p, s, q, d, L, R
      <4>6. CASE x = p
        BY <4>4, <4>5, <4>6 DEF Within
      <4>7. CASE x \in D[q]
        BY <4>1, <4>7
      <4>8. CASE x \notin D[q] /\ x # p
        <5>1. \/ d[r + s] < d[p + s] /\ Before(d, p, x)
              \/ d[p + s] < d[r + s] /\ Before(d, x, p)
          BY <1>o, <3>1, <4>2, <4>3, <4>8
        <5>2. Within(d, x, r, s)
          BY <1>0, <3>1, <4>2, <4>3, <4>4, <5>1, Beyond
        <5> QED
          BY <3>1, <4>4, <5>2, WithinMore
      <4> QED
        BY <4>6, <4>7, <4>8
    <3> QED
      BY <3>2, <3>3
  <2> QED
    BY <2>1
<1>3. S \subseteq Nat
  OBVIOUS
<1> HIDE DEF S
<1>4. S = Nat
  BY <1>1, <1>2, <1>3, Induct
<1>5. Len(w) \in S /\ Len(w) - 1 < Len(w)
  BY <1>4, <1>w
<1>6. Fits(1)
  BY <1>5, <1>w DEF S
<1> QED
  BY <1>6, <1>w

\* The trees of a compressor are in order.
Ordered(z) == \E D : IsOrder(z.dict, z.lson, z.rson, z.parent, D)

\* Every byte is a number.
LEMMA TextNumbers == ASSUME NEW z \in Compressor PROVE ByteText(z.dict)
BY TextTypes DEF ByteText

\* No string in the trees agrees with r in more bytes than the match that InsertNode
\* leaves has.
LEMMA InsertWithin ==
    ASSUME NEW z \in Compressor, NEW rk, NEW B, Tree(z, rk, B), Ordered(z), NEW r \in Strings,
           z.dict[r] \in Char, NEW way, IsWay(z, r, z.rson[Root(z.dict[r])], way),
           NEW n \in Nat, \A i \in 1..Len(way) : way[i].len <= n
    PROVE  \A x \in InTree(z) : Within(z.dict, x, r, n)
<1> DEFINE d == z.dict
           from == z.rson[Root(d[r])]
<1>t. /\ InTree(z) = Att(z.parent) /\ InTree(z) \subseteq Strings /\ Links(d, z.lson, z.rson, z.parent)
      /\ ByteText(d)
  BY TreeIs, TextNumbers DEF Tree
<1>1. PICK D : IsOrder(z.dict, z.lson, z.rson, z.parent, D)
  BY DEF Ordered
<1>2. D[NIL] = {} /\ \A x \in InTree(z) : x \in D[z.rson[Root(d[x])]]
  <2>1. \A x \in Att(z.parent) : x \in D[z.rson[Root(d[x])]]
    BY <1>1, <1>t, OrderIs
  <2>2. D[NIL] = {}
    BY <1>1, <1>t, OrderIs
  <2> QED
    BY <1>t, <2>1, <2>2
<1>3. SUFFICES ASSUME NEW x \in InTree(z) PROVE Within(d, x, r, n)
  OBVIOUS
<1>4. CASE d[x] = d[r]
  <2>1. x \in D[from]
    BY <1>2, <1>4
  <2>2. from # NIL
    BY <1>2, <2>1
  <2>3. Len(way) >= 1
    BY <2>2 DEF IsWay
  <2>4. \A y \in D[from] : Within(d, y, r, n)
    BY <1>1, <1>t, <2>3, WayWithin
  <2> QED
    BY <2>1, <2>4
<1>5. CASE d[x] # d[r]
  <2>1. 0 \in 0..n /\ x + 0 = x /\ r + 0 = r
    BY <1>t DEF Strings
  <2> QED
    BY <1>5, <2>1 DEF Within
<1> QED
  BY <1>4, <1>5

\* The way as a sequence has a last node, in the tree of r.
LEMMA WayEnds ==
    ASSUME NEW z, NEW r, NEW from, NEW w, IsWay(z, r, from, w), w # << >>
    PROVE  /\ Len(w) \in Nat /\ Len(w) >= 1 /\ w \in Seq(Stage) /\ from # NIL /\ w[1].node = from
           /\ w[Len(w)].node \in InTree(z) /\ z.dict[w[Len(w)].node] = z.dict[r]
           /\ w[Len(w)].len = Shared(z, w[Len(w)].node, r)
BY DEF IsWay

\* InsertNode keeps the order, and every string that was in the trees or an equal one in
\* them.
LEMMA InsertOrder ==
    ASSUME NEW z \in Compressor, NEW rk, NEW B, Tree(z, rk, B), Ordered(z), NEW r \in Strings,
           r \notin InTree(z), z.dict[r] \in Char,
           NEW way, way = Way(z, r), NEW y, y = InsertNode(z, r, way)
    PROVE  /\ Ordered(y)
           /\ \A x \in InTree(z) : x \in InTree(y) \/ SameString(z.dict, x, r)
           /\ \A x \in InTree(z) : Within(z.dict, x, r, y.matchLen)
<1> DEFINE d == z.dict
           L == z.lson
           R == z.rson
           P == z.parent
           c == Root(d[r])
           p == way[Len(way)].node
           s == way[Len(way)].len
           left == (d[r + s] < d[p + s])
<1>i. y.dict = d /\ Inserted(y, z, r, way)
  BY InsertIs DEF SameText
<1>t. /\ InTree(z) = Att(P) /\ InTree(z) \subseteq Strings /\ Links(d, L, R, P) /\ r \notin Att(P)
  <2>1. Links(d, L, R, P)
    BY DEF Tree
  <2>2. InTree(z) = Att(P) /\ InTree(z) \subseteq Strings
    BY TreeIs
  <2> QED
    BY <2>1, <2>2
<1>y. InTree(y) = Att(y.parent)
  BY DEF InTree, Att, Strings
<1>1. PICK D : IsOrder(d, L, R, P, D)
  BY DEF Ordered
<1>w. IsWay(z, r, R[c], way) /\ c \in Roots
  BY WayIs, RootsAre
<1>2. CASE way = << >>
  <2>1. y.matchLen = 0 /\ AtRootMoves(y, z, r)
    BY <1>2, <1>i DEF Inserted
  <2>2. \A i \in 1..Len(way) : way[i].len <= 0
    BY <1>2
  <2>3. \A x \in InTree(z) : Within(d, x, r, 0)
    BY <1>w, <2>2, InsertWithin
  <2>4. \E D2 : IsOrder(d, y.lson, y.rson, y.parent, D2)
    <3>1. /\ R[c] = NIL /\ Att(y.parent) = Att(P) \union {r}
          /\ \A x \in Strings : y.lson[x] = IF x = r THEN NIL ELSE L[x]
          /\ \A x \in Strings \union Roots :
                y.rson[x] = IF x = r THEN NIL ELSE IF x = Root(d[r]) THEN r ELSE R[x]
      BY <2>1 DEF AtRootMoves
    <3> HIDE DEF d, L, R, P
    <3> QED
      BY <1>1, <1>t, <1>w, <3>1, HangRootOrder
  <2>5. Att(y.parent) = Att(P) \union {r}
    BY <2>1 DEF AtRootMoves
  <2> QED
    BY <1>i, <1>t, <1>y, <2>1, <2>3, <2>4, <2>5 DEF Ordered
<1>3. CASE way # << >>
  <2>1. /\ Len(way) \in Nat /\ Len(way) >= 1 /\ way \in Seq(Stage) /\ R[c] # NIL /\ way[1].node = R[c]
        /\ p \in Att(P) /\ d[p] = d[r] /\ s = Shared(z, p, r) /\ p \in Strings
    <3>1. /\ Len(way) \in Nat /\ Len(way) >= 1 /\ way \in Seq(Stage) /\ R[c] # NIL /\ way[1].node = R[c]
          /\ p \in InTree(z) /\ d[p] = d[r] /\ s = Shared(z, p, r)
      BY <1>3, <1>w, WayEnds
    <3> QED
      BY <1>t, <3>1
  <2>2. /\ y.matchLen = Best(way).len
        /\ IF s = F THEN ReplaceMoves(y, z, r, p, P[p]) ELSE HangMoves(y, z, r, p, left)
    BY <1>3, <1>i DEF Inserted
  <2>3. Best(way).len \in Nat /\ \A i \in 1..Len(way) : way[i].len <= Best(way).len
    <3>1. PICK i \in 1..Len(way) : Best(way) = way[i]
      BY <2>1, BestIs
    <3>2. way[i] \in Stage
      BY <2>1
    <3>3. way[i].len \in 1..F
      BY <3>2 DEF Stage
    <3> QED
      BY <2>1, <3>1, <3>3, BestIs, Numbers
  <2>4. \A x \in InTree(z) : Within(d, x, r, Best(way).len)
    BY <1>w, <2>3, InsertWithin
  <2> HIDE DEF p, s, left, c
  <2>5. CASE s = F
    <3>1. ReplaceMoves(y, z, r, p, P[p])
      BY <2>2, <2>5
    <3>2. /\ Att(y.parent) = (Att(P) \ {p}) \union {r}
          /\ P[p] # p /\ L[p] # p /\ R[p] # p
          /\ \A x \in Strings :
                y.lson[x] = IF x = r THEN L[p] ELSE IF R[P[p]] # p /\ x = P[p] THEN r ELSE L[x]
          /\ \A x \in Strings \union Roots :
                y.rson[x] = IF x = r THEN R[p] ELSE IF R[P[p]] = p /\ x = P[p] THEN r ELSE R[x]
      BY <3>1 DEF ReplaceMoves
    <3>3. SameString(d, p, r)
      <4>1. \A j \in 1..F-1 : d[r + j] = d[p + j]
        <5>1. \A j \in 1..s-1 : d[r + j] = d[p + j]
          BY <2>1, SharedIs
        <5> QED
          BY <2>5, <5>1
      <4>2. ASSUME NEW j \in 0..F-1 PROVE d[p + j] = d[r + j]
        <5>1. CASE j = 0
          BY <2>1, <5>1 DEF Strings
        <5>2. CASE j # 0
          BY <4>1, <5>2, Numbers
        <5> QED
          BY <5>1, <5>2
      <4> QED
        BY <4>2 DEF SameString
    <3>4. \E D2 : IsOrder(d, y.lson, y.rson, y.parent, D2)
      <4> HIDE DEF d, L, R, P
      <4> QED
        BY <1>1, <1>t, <2>1, <3>2, <3>3, ReplaceOrder
    <3>5. \A x \in InTree(z) : x \in InTree(y) \/ SameString(d, x, r)
      BY <1>t, <1>y, <3>2, <3>3
    <3> QED
      BY <1>i, <2>2, <2>4, <3>4, <3>5 DEF Ordered
  <2>6. CASE s # F
    <3>1. HangMoves(y, z, r, p, left)
      BY <2>2, <2>6
    <3>2. /\ Att(y.parent) = Att(P) \union {r}
          /\ \A x \in Strings : y.lson[x] = IF x = r THEN NIL ELSE IF left /\ x = p THEN r ELSE L[x]
          /\ \A x \in Strings \union Roots :
                y.rson[x] = IF x = r THEN NIL ELSE IF ~left /\ x = p THEN r ELSE R[x]
      BY <3>1 DEF HangMoves
    <3>3. left \in BOOLEAN /\ OnWay(d, L, R, P, r, p, left, Nodes(way))
      <4>1. p = way[Len(way)].node /\ s = way[Len(way)].len /\ left = (d[r + s] < d[p + s])
        BY DEF p, s, left
      <4>2. IsWay(z, r, z.rson[Root(z.dict[r])], way)
        BY <1>w DEF c
      <4> QED
        BY <2>1, <2>6, <4>1, <4>2, WayCompares
    <3>4. \E D2 : IsOrder(d, y.lson, y.rson, y.parent, D2)
      <4> HIDE DEF d, L, R, P
      <4> QED
        BY <1>1, <1>t, <3>2, <3>3, HangOrder
    <3>5. \A x \in InTree(z) : x \in InTree(y)
      BY <1>t, <1>y, <3>2
    <3> QED
      BY <1>i, <2>2, <2>4, <3>4, <3>5 DEF Ordered
  <2> QED
    BY <2>5, <2>6
<1> QED
  BY <1>2, <1>3

\* DeleteNode keeps the order.
LEMMA DeleteOrder ==
    ASSUME NEW z \in Compressor, NEW rk, NEW B, Tree(z, rk, B), Ordered(z), NEW p \in Strings,
           NEW y, y = DeleteNode(z, p)
    PROVE  Ordered(y)
<1> DEFINE d == z.dict
           L == z.lson
           R == z.rson
           P == z.parent
           up == P[p]
<1>d. /\ y.dict = d /\ InTree(y) = InTree(z) \ {p}
      /\ y = z \/ \E q : p \in InTree(z) /\ LinksMoved(y, z, p, q)
  BY DeleteIs DEF SameText
<1>t. InTree(z) = Att(P) /\ Links(d, L, R, P) /\ ByteText(d) /\ Ranked(P, rk, B) /\ Att(P) \subseteq Strings
  <2>1. Links(d, L, R, P) /\ Ranked(P, rk, B)
    BY DEF Tree
  <2>2. InTree(z) = Att(P) /\ Att(P) \subseteq Strings
    BY TreeIs
  <2>3. ByteText(d)
    BY TextNumbers
  <2> QED
    BY <2>1, <2>2, <2>3
<1>y. InTree(y) = Att(y.parent)
  BY DEF InTree, Att, Strings
<1>1. CASE y = z
  BY <1>1
<1>2. ASSUME NEW q, p \in InTree(z), LinksMoved(y, z, p, q) PROVE Ordered(y)
  <2>1. PICK D : IsOrder(d, L, R, P, D)
    BY DEF Ordered
  <2>2. Att(y.parent) = Att(P) \ {p} /\ p \in Att(P)
    BY <1>2, <1>d, <1>t, <1>y
  <2>3. CASE SpliceMoves(L, R, P, y.lson, y.rson, p, up, q)
    <3>1. /\ up = P[p] /\ up # p /\ q # p
          /\ \/ q = L[p] /\ R[p] = NIL
             \/ q = R[p] /\ L[p] = NIL
          /\ \A x \in Strings : y.lson[x] = IF R[up] # p /\ x = up THEN q ELSE L[x]
          /\ \A x \in Strings \union Roots : y.rson[x] = IF R[up] = p /\ x = up THEN q ELSE R[x]
      BY <2>3 DEF SpliceMoves
    <3>2. \E D2 : IsOrder(d, y.lson, y.rson, y.parent, D2)
      <4> HIDE DEF d, L, R, P, up
      <4> QED
        BY <1>t, <2>1, <2>2, <3>1, SpliceOrder
    <3> QED
      BY <1>d, <3>2 DEF Ordered
  <2>4. CASE ChildPlaces(L, R, P, p, up, q) /\ ChildMoves(L, R, P, y.lson, y.rson, y.parent, p, up, q)
    <3>2. \E D2 : IsOrder(d, y.lson, y.rson, y.parent, D2)
      <4> HIDE DEF d, L, R, P, up
      <4> QED
        BY <1>t, <2>1, <2>2, <2>4, ChildOrder
    <3> QED
      BY <1>d, <3>2 DEF Ordered
  <2>5. CASE /\ q = RightmostOf(z, L[p]) /\ L[p] \in InTree(z) /\ P[q] \in Att(P)
             /\ HeirPlaces(L, R, P, p, up, q, P[q])
             /\ HeirMoves(L, R, P, y.lson, y.rson, y.parent, p, up, q, P[q])
    <3>1. q \in D[L[p]] /\ \A x \in D[L[p]] : x = q \/ Before(d, x, q)
      BY <1>t, <2>1, <2>5, RightmostLast
    <3>2. \E D2 : IsOrder(d, y.lson, y.rson, y.parent, D2)
      <4> DEFINE m == P[q]
      <4>1. /\ m \in Att(P) /\ HeirPlaces(L, R, P, p, up, q, m)
            /\ HeirMoves(L, R, P, y.lson, y.rson, y.parent, p, up, q, m)
        BY <2>5
      <4> HIDE DEF d, L, R, P, up, m
      <4>2. \A x \in Att(P) : \A w \in D[x] : D[w] \subseteq D[x] /\ (w # x => P[w] \in D[x])
        BY <1>t, <2>1, Nested
      <4> QED
        BY <1>t, <2>1, <2>2, <3>1, <4>1, <4>2, HeirOrder
    <3> QED
      BY <1>d, <3>2 DEF Ordered
  <2> QED
    BY <1>2, <2>3, <2>4, <2>5 DEF LinksMoved
<1> QED
  BY <1>1, <1>2, <1>d

\* The order does not depend on bytes that are in no string of the trees.
LEMMA OrderFrame ==
    ASSUME NEW d, NEW e, NEW L, NEW R, NEW P, NEW D, Links(d, L, R, P), IsOrder(d, L, R, P, D),
           \A x \in Att(P) : \A j \in 0..F-1 : e[x + j] = d[x + j]
    PROVE  IsOrder(e, L, R, P, D)
<1>1. /\ D \in [Strings \union {NIL} -> SUBSET Strings] /\ D[NIL] = {}
      /\ \A x \in Att(P) : D[x] \subseteq Att(P)
      /\ \A x \in Att(P) : \A y \in D[L[x]] : Before(d, y, x)
      /\ \A x \in Att(P) : \A y \in D[R[x]] : Before(d, x, y)
      /\ \A x \in Att(P) : Root(d[x]) \in Roots /\ x \in D[R[Root(d[x])]]
  BY OrderIs
<1>2. Att(P) \subseteq Strings /\ \A x \in Att(P) : \A c \in {L[x], R[x]} : c # NIL => c \in Att(P)
  BY ChildIs
<1>3. ASSUME NEW x \in Att(P), NEW y \in Att(P), Before(d, x, y) PROVE Before(e, x, y)
  <2>1. PICK j \in 0..F-1 : (\A i \in 0..j-1 : d[x + i] = d[y + i]) /\ d[x + j] < d[y + j]
    BY <1>3 DEF Before
  <2>2. \A i \in 0..j-1 : i \in 0..F-1
    BY Numbers
  <2>3. \A i \in 0..F-1 : e[x + i] = d[x + i] /\ e[y + i] = d[y + i]
    OBVIOUS
  <2> QED
    BY <2>1, <2>2, <2>3 DEF Before
<1>4. \A x \in Att(P) : D[L[x]] \subseteq Att(P) /\ D[R[x]] \subseteq Att(P)
  BY <1>1, <1>2
<1>5. LeftBefore(e, L, P, D) /\ RightBehind(e, R, P, D)
  BY <1>1, <1>3, <1>4 DEF LeftBefore, RightBehind
<1>6. \A x \in Att(P) : e[x] = d[x]
  <2> SUFFICES ASSUME NEW x \in Att(P) PROVE e[x] = d[x]
    OBVIOUS
  <2>1. 0 \in 0..F-1 /\ x + 0 = x
    BY <1>2, Numbers DEF Strings
  <2> QED
    BY <2>1
<1>7. Reached(e, R, P, D)
  BY <1>1, <1>6 DEF Reached
<1> QED
  BY <1>5, <1>7 DEF IsOrder

-----------------------------------------------------------------------------
(* The flags of a group, and a reference.                                 *)

\* A function whose value at i is found from its value at i - 1.
Counts(m, V, b, h) == m \in Nat /\ b \in V /\ h \in [(1..m) \X V -> V]

\* There is one.
LEMMA Counting ==
    ASSUME NEW m, NEW V, NEW b, NEW h, Counts(m, V, b, h)
    PROVE  \E f \in [0..m -> V] : f[0] = b /\ \A i \in 1..m : f[i] = h[<<i, f[i - 1]>>]
<1> DEFINE D    == 0..m
           stop == {0}
           rank == [x \in D |-> x]
           base == [x \in D |-> b]
           nx   == [x \in D |-> IF x = 0 THEN 0 ELSE x - 1]
           g    == [t \in D \X V |-> IF t[1] = 0 THEN t[2] ELSE h[t]]
<1>0. m \in Nat /\ b \in V /\ h \in [(1..m) \X V -> V]
  BY DEF Counts
<1>1. rank \in [D -> 0..m] /\ base \in [D -> V] /\ nx \in [D -> D]
  BY <1>0
<1>2. g \in [D \X V -> V]
  <2> SUFFICES ASSUME NEW x \in D, NEW v \in V PROVE g[<<x, v>>] \in V
    BY <1>0
  <2> QED
    BY <1>0
<1>3. \A x \in D \ stop : rank[nx[x]] < rank[x]
  BY <1>0
<1> HIDE DEF D, stop, rank, base, nx, g
<1>4. Descends(D, V, m, rank, stop, base, nx, g)
  BY <1>0, <1>1, <1>2, <1>3 DEF Descends
<1>5. PICK f \in [D -> V] : \A x \in D : f[x] = IF x \in stop THEN base[x] ELSE g[<<x, f[nx[x]]>>]
  BY <1>4, Recursion
<1>6. f[0] = b
  <2>1. 0 \in D /\ 0 \in stop /\ base[0] = b
    BY <1>0 DEF base, stop, D
  <2> QED
    BY <1>5, <2>1
<1>7. ASSUME NEW i \in 1..m PROVE f[i] = h[<<i, f[i - 1]>>]
  <2>1. i \in D /\ i # 0 /\ nx[i] = i - 1 /\ i - 1 \in D
    BY <1>0 DEF nx, D
  <2>2. g[<<i, f[i - 1]>>] = h[<<i, f[i - 1]>>]
    BY <1>5, <2>1 DEF g
  <2> QED
    BY <1>5, <2>1, <2>2 DEF stop
<1> QED
  BY <1>5, <1>6, <1>7 DEF D

(* Bytes and flags.                                                         *)

\* A step of the recursion of Bit.
BitStep(f) == [i \in 0..Group |-> IF i = 0 THEN 1 ELSE 2 * f[i - 1]]

\* Bit doubles with every code of the group.
LEMMA BitIs ==
    /\ Bit[0] = 1
    /\ \A i \in 1..Group : Bit[i] = 2 * Bit[i - 1]
    /\ \A i \in 0..Group : Bit[i] \in Nat /\ Bit[i] >= 1
<1> DEFINE c == CHOOSE f : f = BitStep(f)
           h == [t \in (1..Group) \X Nat |-> 2 * t[2]]
<1>1. Bit = c
  BY Zenon DEF Bit, BitStep
<1>2. Group \in Nat
  BY Numbers
<1>3. h \in [(1..Group) \X Nat -> Nat]
  OBVIOUS
<1> HIDE DEF h
<1>4. PICK f \in [0..Group -> Nat] : f[0] = 1 /\ \A i \in 1..Group : f[i] = h[<<i, f[i - 1]>>]
  <2>1. 1 \in Nat
    OBVIOUS
  <2>2. Counts(Group, Nat, 1, h)
    BY <1>2, <1>3, <2>1 DEF Counts
  <2> QED
    BY <2>2, Counting
<1>5. \A i \in 1..Group : i - 1 \in 0..Group /\ f[i - 1] \in Nat /\ h[<<i, f[i - 1]>>] = 2 * f[i - 1]
  BY <1>2, <1>4 DEF h
<1>6. f = BitStep(f)
  <2>1. \A i \in 0..Group : f[i] = IF i = 0 THEN 1 ELSE 2 * f[i - 1]
    <3> SUFFICES ASSUME NEW i \in 0..Group PROVE f[i] = IF i = 0 THEN 1 ELSE 2 * f[i - 1]
      OBVIOUS
    <3>1. i # 0 => i \in 1..Group
      BY <1>2
    <3> QED
      BY <1>4, <1>5, <3>1
  <2>2. f = [i \in 0..Group |-> f[i]]
    BY <1>4
  <2> QED
    BY <2>1, <2>2 DEF BitStep
<1>7. Bit = BitStep(Bit)
  BY <1>1, <1>6
<1>8. \A i \in 0..Group : Bit[i] = IF i = 0 THEN 1 ELSE 2 * Bit[i - 1]
  <2> SUFFICES ASSUME NEW i \in 0..Group PROVE Bit[i] = IF i = 0 THEN 1 ELSE 2 * Bit[i - 1]
    OBVIOUS
  <2>1. BitStep(Bit)[i] = IF i = 0 THEN 1 ELSE 2 * Bit[i - 1]
    BY DEF BitStep
  <2> QED
    BY <1>7, <2>1
<1> DEFINE S == {n \in Nat : n <= Group => Bit[n] \in Nat /\ Bit[n] >= 1}
<1>9. 0 \in S
  BY <1>2, <1>8
<1>10. ASSUME NEW n \in S PROVE n + 1 \in S
  <2>1. n + 1 <= Group => Bit[n + 1] = 2 * Bit[n] /\ Bit[n] \in Nat /\ Bit[n] >= 1
    <3> SUFFICES ASSUME n + 1 <= Group PROVE Bit[n + 1] = 2 * Bit[n] /\ Bit[n] \in Nat /\ Bit[n] >= 1
      OBVIOUS
    <3>1. n + 1 \in 0..Group /\ n + 1 # 0 /\ (n + 1) - 1 = n /\ n <= Group
      BY <1>2
    <3>2. Bit[n + 1] = 2 * Bit[(n + 1) - 1]
      BY <1>8, <3>1
    <3> QED
      BY <3>1, <3>2
  <2> QED
    BY <2>1
<1>11. S \subseteq Nat
  OBVIOUS
<1> HIDE DEF S
<1>12. S = Nat
  BY <1>9, <1>10, <1>11, Induct
<1>13. \A i \in 0..Group : Bit[i] \in Nat /\ Bit[i] >= 1
  BY <1>2, <1>12 DEF S
<1> QED
  BY <1>2, <1>8, <1>13

\* The flags of a group are a byte.
LEMMA BitsInByte == \A i \in 0..Group : Bit[i] <= Low
<1>1. Group \in Nat /\ Low \in Nat /\ Bit[Group] <= Low
  BY Numbers, BytesAssumption
<1> DEFINE S == {n \in Nat : n <= Group => Bit[Group - n] <= Low}
<1>2. 0 \in S
  BY <1>1
<1>3. ASSUME NEW n \in S PROVE n + 1 \in S
  <2>1. ASSUME n + 1 <= Group PROVE Bit[Group - (n + 1)] <= Low
    <3>1. /\ Group - n \in 1..Group /\ (Group - n) - 1 = Group - (n + 1)
          /\ Group - n \in 0..Group /\ Group - (n + 1) \in 0..Group
      BY <1>1, <2>1
    <3>2. /\ Bit[Group - n] = 2 * Bit[Group - (n + 1)] /\ Bit[Group - n] <= Low
          /\ Bit[Group - (n + 1)] \in Nat
      BY <1>1, <2>1, <3>1, BitIs
    <3> QED
      BY <1>1, <3>2
  <2> QED
    BY <2>1
<1>4. S \subseteq Nat
  OBVIOUS
<1> HIDE DEF S
<1>5. S = Nat
  BY <1>2, <1>3, <1>4, Induct
<1>6. ASSUME NEW i \in 0..Group PROVE Bit[i] <= Low
  <2>1. Group - i \in Nat /\ Group - i <= Group /\ Group - (Group - i) = i
    BY <1>1
  <2>2. Bit[Group - (Group - i)] <= Low
    BY <1>5, <2>1 DEF S
  <2> QED
    BY <2>1, <2>2
<1> QED
  BY <1>6

\* A multiple is a whole divisor below the next.
LEMMA MulStep == ASSUME NEW m \in Nat, NEW x \in Nat, NEW y \in Nat, x < y PROVE (x * m) + m <= y * m
<1>1. PICK e \in Nat : y = x + 1 + e
  <2>1. y - x - 1 \in Nat /\ y = x + 1 + (y - x - 1)
    OBVIOUS
  <2> QED
    BY <2>1
<1>2. y * m = x * m + m + e * m /\ e * m \in Nat /\ x * m \in Nat
  BY <1>1
<1> QED
  BY <1>2

\* The place and the length of a match make two bytes, which give them back.
LEMMA Packed ==
    ASSUME NEW p \in 0..N-1, NEW n \in Threshold+1..F,
           NEW b, b = ((p \div Low) * Refs) + n - (Threshold + 1)
    PROVE  /\ p % Low \in 0..Low-1 /\ b \in 0..Low-1
           /\ (b % Refs) + Threshold + 1 = n /\ (p % Low) + (Low * (b \div Refs)) = p
<1> DEFINE u == p \div Low
           v == N \div Low
           t == n - (Threshold + 1)
<1>1. p \in Nat /\ p < N /\ t \in 0..Refs-1 /\ Refs \in Nat \ {0} /\ Low \in Nat \ {0} /\ N \in Nat
  BY Numbers
<1>2. p % Low \in 0..Low-1 /\ u \in Nat /\ u * Low \in Nat /\ p = (u * Low) + (p % Low)
  BY <1>1, ModRange
<1>3. v \in Nat /\ N = (v * Low) + 0 /\ v * Low \in Nat
  <2>1. N % Low = 0
    BY Numbers
  <2> QED
    BY <1>1, <2>1, ModRange
<1>4. b = (u * Refs) + t
  <2>1. u * Refs \in Nat
    BY <1>1, <1>2
  <2> HIDE DEF u
  <2> QED
    BY <1>1, <2>1, Numbers DEF u
<1> HIDE DEF u, v, t
<1>5. b % Refs = t /\ b \div Refs = u
  <2>1. ((u * Refs) + t) % Refs = t /\ ((u * Refs) + t) \div Refs = u
    BY <1>1, <1>2, ModOf
  <2> QED
    BY <1>4, <2>1
<1>6. u < v
  <2> SUFFICES ASSUME v <= u PROVE FALSE
    BY <1>2, <1>3
  <2>1. CASE v = u
    BY <1>1, <1>2, <1>3, <2>1
  <2>2. CASE v < u
    <3>1. (v * Low) + Low <= u * Low
      BY <1>1, <1>2, <1>3, <2>2, MulStep
    <3> QED
      BY <1>1, <1>2, <1>3, <3>1
  <2> QED
    BY <1>2, <1>3, <2>1, <2>2
<1>7. (u * Refs) + Refs <= v * Refs
  BY <1>1, <1>2, <1>3, <1>6, MulStep
<1>8. v * Refs <= Low
  BY BytesAssumption DEF v
<1>9. b \in 0..Low-1
  <2>1. u * Refs \in Nat /\ v * Refs \in Nat
    BY <1>1, <1>2, <1>3
  <2> QED
    BY <1>1, <1>4, <1>7, <1>8, <2>1
<1>10. (b % Refs) + Threshold + 1 = n
  BY <1>5, Numbers DEF t
<1>11. (p % Low) + (Low * (b \div Refs)) = p
  <2>1. Low * u = u * Low
    BY <1>1, <1>2
  <2> QED
    BY <1>2, <1>5, <2>1
<1> QED
  BY <1>2, <1>9, <1>10, <1>11

-----------------------------------------------------------------------------
(* The decoder, byte by byte.                                             *)

\* A function on 1..n is a sequence.
LEMMA ASequence ==
    ASSUME NEW n \in Nat, NEW S, NEW t, t = [j \in 1..n |-> t[j]], \A j \in 1..n : t[j] \in S
    PROVE  t \in Seq(S) /\ Len(t) = n
<1>1. t \in [1..n -> S]
  OBVIOUS
<1> QED
  BY <1>1

\* A decoder that has the first byte of a reference is in a group.
Reading == {c \in Decoder : c.first # << >> => c.left > 0}
Fresh   == [from |-> << >>, flags |-> 0, left |-> 0, first |-> << >>]

\* Take, case by case: the second byte of a reference,
LEMMA TakeSecond ==
    ASSUME NEW c \in Reading, c.first # << >>, NEW b \in Nat
    PROVE  /\ Take[c][b] \in Reading
           /\ Take[c][b] = [from |-> c.from \o [j \in 1..(b % Refs) + Threshold + 1 |->
                                                    (c.first[1] + (Low * (b \div Refs)) + j - 1) % N],
                            flags |-> c.flags \div 2, left |-> c.left - 1, first |-> << >>]
<1> DEFINE m == (b % Refs) + Threshold + 1
           t == [j \in 1..m |-> (c.first[1] + (Low * (b \div Refs)) + j - 1) % N]
<1>1. c \in Decoder /\ c.from \in Seq(Nat) /\ c.flags \in Nat /\ c.left \in Nat /\ c.first \in Seq(Nat) /\ c.left > 0
  BY DEF Reading, Decoder
<1>2. b % Refs \in Nat /\ b \div Refs \in Nat /\ Threshold \in Nat /\ N \in Nat \ {0} /\ Low \in Nat
  <2>1. Refs \in Nat \ {0}
    BY Numbers
  <2>2. b % Refs \in 0..Refs-1 /\ b \div Refs \in Nat
    BY <2>1, ModRange
  <2> QED
    BY <2>1, <2>2, Numbers
<1>3. c.first[1] \in Nat
  BY <1>1
<1>4. m \in Nat
  BY <1>2
<1>5. \A j \in 1..m : t[j] \in Nat
  <2> SUFFICES ASSUME NEW j \in 1..m PROVE t[j] \in Nat
    OBVIOUS
  <2> DEFINE a == c.first[1] + (Low * (b \div Refs)) + j - 1
  <2>1. Low * (b \div Refs) \in Nat
    BY <1>2
  <2>2. a \in Nat
    BY <1>3, <1>4, <2>1
  <2>3. a % N \in 0..N-1
    BY <1>2, <2>2, ModRange
  <2> QED
    BY <1>2, <2>3
<1>6. t \in Seq(Nat)
  <2>1. t = [j \in 1..m |-> t[j]]
    OBVIOUS
  <2> HIDE DEF t, m
  <2> QED
    BY <1>4, <1>5, <2>1, ASequence
<1>7. c.from \o t \in Seq(Nat)
  BY <1>1, <1>6
<1>8. c.flags \div 2 \in Nat /\ c.left - 1 \in Nat
  BY <1>1
<1>9. Take[c][b] = [c EXCEPT !.from = @ \o t, !.flags = @ \div 2, !.left = @ - 1, !.first = << >>]
  BY <1>1 DEF Take
<1> HIDE DEF t
<1>10. Take[c][b] = [from |-> c.from \o t, flags |-> c.flags \div 2, left |-> c.left - 1, first |-> << >>]
  BY <1>1, <1>9 DEF Decoder
<1>11. Take[c][b] \in Reading
  BY <1>7, <1>8, <1>10 DEF Reading, Decoder
<1> QED
  BY <1>10, <1>11 DEF t

\* the flags of a group,
LEMMA TakeFlags ==
    ASSUME NEW c \in Reading, c.first = << >>, c.left = 0, NEW b \in Nat
    PROVE  /\ Take[c][b] \in Reading
           /\ Take[c][b] = [from |-> c.from, flags |-> b, left |-> Group, first |-> << >>]
<1>1. c \in Decoder
  BY DEF Reading
<1>2. Take[c][b] = [c EXCEPT !.flags = b, !.left = Group]
  BY <1>1 DEF Take
<1>3. Take[c][b] = [from |-> c.from, flags |-> b, left |-> Group, first |-> << >>]
  BY <1>1, <1>2 DEF Decoder
<1>4. Take[c][b] \in Reading
  BY <1>1, <1>3, Numbers DEF Reading, Decoder
<1> QED
  BY <1>3, <1>4

\* a byte as it is,
LEMMA TakeByte ==
    ASSUME NEW c \in Reading, c.first = << >>, c.left # 0, c.flags % 2 = 1, NEW b \in Nat
    PROVE  /\ Take[c][b] \in Reading
           /\ Take[c][b] = [from |-> Append(c.from, N + b), flags |-> c.flags \div 2, left |-> c.left - 1,
                            first |-> << >>]
<1>1. c \in Decoder
  BY DEF Reading
<1>2. Take[c][b] = [c EXCEPT !.from = Append(@, N + b), !.flags = @ \div 2, !.left = @ - 1]
  BY <1>1 DEF Take
<1>3. Take[c][b] = [from |-> Append(c.from, N + b), flags |-> c.flags \div 2, left |-> c.left - 1,
                    first |-> << >>]
  BY <1>1, <1>2 DEF Decoder
<1>4. N + b \in Nat /\ c.flags \div 2 \in Nat /\ c.left - 1 \in Nat
  BY <1>1, Numbers DEF Decoder
<1>5. Take[c][b] \in Reading
  BY <1>1, <1>3, <1>4 DEF Reading, Decoder
<1> QED
  BY <1>3, <1>5

\* the first byte of a reference.
LEMMA TakeFirst ==
    ASSUME NEW c \in Reading, c.first = << >>, c.left # 0, c.flags % 2 # 1, NEW b \in Nat
    PROVE  /\ Take[c][b] \in Reading
           /\ Take[c][b] = [from |-> c.from, flags |-> c.flags, left |-> c.left, first |-> <<b>>]
<1>1. c \in Decoder
  BY DEF Reading
<1>2. Take[c][b] = [c EXCEPT !.first = <<b>>]
  BY <1>1 DEF Take
<1>3. Take[c][b] = [from |-> c.from, flags |-> c.flags, left |-> c.left, first |-> <<b>>]
  BY <1>1, <1>2 DEF Decoder
<1>4. <<b>> \in Seq(Nat) /\ c.left > 0
  BY <1>1 DEF Decoder
<1>5. Take[c][b] \in Reading
  BY <1>1, <1>3, <1>4 DEF Reading, Decoder
<1> QED
  BY <1>3, <1>5

\* It only adds to what it has.
LEMMA TakeIs ==
    ASSUME NEW c \in Reading, NEW b \in Nat
    PROVE  Take[c][b] \in Reading /\ \E t \in Seq(Nat) : Take[c][b].from = c.from \o t
<1>1. Take[c][b] \in Reading
  BY TakeSecond, TakeFlags, TakeByte, TakeFirst
<1>2. c.from \in Seq(Nat)
  BY DEF Reading, Decoder
<1>3. CASE c.first # << >>
  <2> DEFINE t == [j \in 1..(b % Refs) + Threshold + 1 |-> (c.first[1] + (Low * (b \div Refs)) + j - 1) % N]
  <2>1. Take[c][b].from = c.from \o t
    <3>1. Take[c][b] = [from |-> c.from \o t, flags |-> c.flags \div 2, left |-> c.left - 1, first |-> << >>]
      BY <1>3, TakeSecond, Zenon
    <3> HIDE DEF t
    <3> QED
      BY <3>1
  <2>2. t \in Seq(Nat)
    <3>1. Take[c][b].from \in Seq(Nat)
      BY <1>1 DEF Reading, Decoder
    <3>2. (b % Refs) + Threshold + 1 \in Nat
      <4>1. b % Refs \in 0..Refs-1
        BY Numbers, ModRange
      <4> QED
        BY <4>1, Numbers
    <3>3. \A j \in 1..(b % Refs) + Threshold + 1 : t[j] \in Nat
      <4> SUFFICES ASSUME NEW j \in 1..(b % Refs) + Threshold + 1 PROVE t[j] \in Nat
        OBVIOUS
      <4>1. c.first[1] \in Nat
        BY <1>3 DEF Reading, Decoder
      <4>2. b \div Refs \in Nat /\ N \in Nat \ {0} /\ Low \in Nat
        <5>1. Refs \in Nat \ {0}
          BY Numbers
        <5>2. b \div Refs \in Nat
          BY <5>1, ModRange
        <5> QED
          BY <5>2, Numbers
      <4>3. Low * (b \div Refs) \in Nat
        BY <4>2
      <4>4. c.first[1] + (Low * (b \div Refs)) + j - 1 \in Nat
        BY <3>2, <4>1, <4>3
      <4>5. (c.first[1] + (Low * (b \div Refs)) + j - 1) % N \in 0..N-1
        BY <4>2, <4>4, ModRange
      <4> QED
        BY <4>2, <4>5
    <3>4. t = [j \in 1..(b % Refs) + Threshold + 1 |-> t[j]]
      OBVIOUS
    <3> HIDE DEF t
    <3> QED
      BY <3>2, <3>3, <3>4, ASequence
  <2> HIDE DEF t
  <2> QED
    BY <1>1, <2>1, <2>2
<1>4. CASE c.first = << >> /\ c.left # 0 /\ c.flags % 2 = 1
  <2>1. Take[c][b].from = Append(c.from, N + b)
    <3>1. Take[c][b] = [from |-> Append(c.from, N + b), flags |-> c.flags \div 2, left |-> c.left - 1,
                        first |-> << >>]
      BY <1>4, TakeByte
    <3> QED
      BY <3>1
  <2>2. N + b \in Nat
    BY Numbers
  <2>3. Append(c.from, N + b) = c.from \o <<N + b>> /\ <<N + b>> \in Seq(Nat)
    BY <1>2, <2>2
  <2> QED
    BY <1>1, <2>1, <2>3
<1>5. CASE c.first = << >> /\ (c.left = 0 \/ c.flags % 2 # 1)
  <2>1. Take[c][b].from = c.from
    <3>1. CASE c.left = 0
      <4>1. Take[c][b] = [from |-> c.from, flags |-> b, left |-> Group, first |-> << >>]
        BY <1>5, <3>1, TakeFlags
      <4> QED
        BY <4>1
    <3>2. CASE c.left # 0
      <4>1. Take[c][b] = [from |-> c.from, flags |-> c.flags, left |-> c.left, first |-> <<b>>]
        BY <1>5, <3>2, TakeFirst
      <4> QED
        BY <4>1
    <3> QED
      BY <3>1, <3>2
  <2>2. c.from = c.from \o << >> /\ << >> \in Seq(Nat)
    BY <1>2
  <2> QED
    BY <1>1, <2>1, <2>2
<1> QED
  BY <1>3, <1>4, <1>5

-----------------------------------------------------------------------------
(* The decoder, over a code.                                              *)

\* A step of the decoder.
ReadStep(code, f) == [i \in 0..Len(code) |-> IF i = 0 THEN Fresh ELSE Take[f[i - 1]][code[i]]]

\* The decoder when it has read the code.
After(code) ==
    LET at[i \in 0..Len(code)] ==
            IF i = 0 THEN [from |-> << >>, flags |-> 0, left |-> 0, first |-> << >>]
            ELSE Take[at[i - 1]][code[i]]
    IN  at[Len(code)]

\* What it has got then is what the code stands for.
LEMMA SourcesAre == \A code : Sources(code) = After(code).from
BY Zenon DEF Sources, After

\* After is the recursion of these steps.
LEMMA AfterChoice ==
    ASSUME NEW code, NEW g, g = ReadStep(code, g)
    PROVE  \E f : f = ReadStep(code, f) /\ After(code) = f[Len(code)]
<1> DEFINE f == CHOOSE h : h = ReadStep(code, h)
<1>1. f = ReadStep(code, f)
  OBVIOUS
<1>2. After(code) = f[Len(code)]
  BY Zenon DEF After, ReadStep, Fresh
<1> QED
  BY <1>1, <1>2

\* f is how the decoder goes through the code.
IsReader(code, f) ==
    /\ f \in [0..Len(code) -> Reading] /\ f[0] = Fresh
    /\ \A i \in 1..Len(code) : f[i] = Take[f[i - 1]][code[i]]

\* The decoder at first.
LEMMA FreshReads == Fresh \in Reading
BY DEF Fresh, Reading, Decoder

\* There is such an f.
LEMMA ReaderIs ==
    ASSUME NEW code \in Seq(Nat)
    PROVE  \E f : f = ReadStep(code, f)
<1> DEFINE m == Len(code)
           h == [t \in (1..m) \X Reading |-> Take[t[2]][code[t[1]]]]
<1>1. m \in Nat /\ \A i \in 1..m : code[i] \in Nat
  OBVIOUS
<1>2. h \in [(1..m) \X Reading -> Reading]
  <2> SUFFICES ASSUME NEW i \in 1..m, NEW c \in Reading PROVE h[<<i, c>>] \in Reading
    OBVIOUS
  <2>1. h[<<i, c>>] = Take[c][code[i]]
    OBVIOUS
  <2> HIDE DEF h
  <2> QED
    BY <1>1, <2>1, TakeIs
<1>3. ASSUME NEW i \in 1..m, NEW c \in Reading PROVE h[<<i, c>>] = Take[c][code[i]]
  OBVIOUS
<1> HIDE DEF h, m
<1>4. Counts(m, Reading, Fresh, h)
  BY <1>1, <1>2, FreshReads DEF Counts
<1>5. PICK f \in [0..m -> Reading] : f[0] = Fresh /\ \A i \in 1..m : f[i] = h[<<i, f[i - 1]>>]
  BY <1>4, Counting
<1>6. \A i \in 0..m : f[i] = IF i = 0 THEN Fresh ELSE Take[f[i - 1]][code[i]]
  <2> SUFFICES ASSUME NEW i \in 0..m PROVE f[i] = IF i = 0 THEN Fresh ELSE Take[f[i - 1]][code[i]]
    OBVIOUS
  <2>1. CASE i = 0
    BY <1>5, <2>1
  <2>2. CASE i # 0
    <3>1. i \in 1..m /\ i - 1 \in 0..m
      BY <1>1, <2>2
    <3>2. f[i] = h[<<i, f[i - 1]>>] /\ f[i - 1] \in Reading
      BY <1>5, <3>1
    <3> QED
      BY <1>3, <2>2, <3>1, <3>2
  <2> QED
    BY <2>1, <2>2
<1>7. f = [i \in 0..m |-> f[i]]
  BY <1>5
<1>8. f = ReadStep(code, f)
  BY <1>6, <1>7 DEF ReadStep, m
<1> QED
  BY <1>8

\* It is what the recursion chooses.
LEMMA ReaderOf ==
    ASSUME NEW code \in Seq(Nat), NEW f, f = ReadStep(code, f)
    PROVE  IsReader(code, f)
<1>1. Len(code) \in Nat /\ \A i \in 1..Len(code) : code[i] \in Nat
  OBVIOUS
<1>2. \A i \in 0..Len(code) : f[i] = IF i = 0 THEN Fresh ELSE Take[f[i - 1]][code[i]]
  <2> SUFFICES ASSUME NEW i \in 0..Len(code) PROVE f[i] = IF i = 0 THEN Fresh ELSE Take[f[i - 1]][code[i]]
    OBVIOUS
  <2>1. ReadStep(code, f)[i] = IF i = 0 THEN Fresh ELSE Take[f[i - 1]][code[i]]
    BY DEF ReadStep
  <2> QED
    BY <2>1
<1> DEFINE S == {n \in Nat : n <= Len(code) => f[n] \in Reading}
<1>3. 0 \in S
  BY <1>1, <1>2, FreshReads
<1>4. ASSUME NEW n \in S PROVE n + 1 \in S
  <2>1. ASSUME n + 1 <= Len(code) PROVE f[n + 1] \in Reading
    <3>1. n <= Len(code) /\ n + 1 \in 0..Len(code) /\ n + 1 \in 1..Len(code) /\ n + 1 # 0 /\ (n + 1) - 1 = n
      BY <1>1, <2>1
    <3>2. f[n] \in Reading /\ code[n + 1] \in Nat
      BY <1>1, <3>1
    <3>3. f[n + 1] = Take[f[n]][code[n + 1]]
      BY <1>2, <3>1
    <3> QED
      BY <3>2, <3>3, TakeIs
  <2> QED
    BY <2>1
<1>5. S \subseteq Nat
  OBVIOUS
<1> HIDE DEF S
<1>6. S = Nat
  BY <1>3, <1>4, <1>5, Induct
<1>7. \A i \in 0..Len(code) : f[i] \in Reading
  BY <1>1, <1>6 DEF S
<1>8. f = [i \in 0..Len(code) |-> f[i]]
  BY DEF ReadStep
<1>9. f \in [0..Len(code) -> Reading]
  BY <1>7, <1>8
<1>10. f[0] = Fresh /\ \A i \in 1..Len(code) : f[i] = Take[f[i - 1]][code[i]]
  BY <1>1, <1>2
<1> QED
  BY <1>9, <1>10 DEF IsReader

\* After is where it ends.
LEMMA AfterIs ==
    ASSUME NEW code \in Seq(Nat)
    PROVE  \E f : IsReader(code, f) /\ After(code) = f[Len(code)]
BY ReaderIs, AfterChoice, ReaderOf

\* The decoder stays one.
LEMMA AfterReads == ASSUME NEW code \in Seq(Nat) PROVE After(code) \in Reading
<1>1. PICK f : IsReader(code, f) /\ After(code) = f[Len(code)]
  BY AfterIs
<1>2. Len(code) \in 0..Len(code)
  OBVIOUS
<1> QED
  BY <1>1, <1>2 DEF IsReader

\* Nothing has been read at first.
LEMMA AfterNone == After(<< >>) = Fresh
<1>1. << >> \in Seq(Nat) /\ Len(<< >>) = 0
  OBVIOUS
<1>2. PICK f : IsReader(<< >>, f) /\ After(<< >>) = f[Len(<< >>)]
  BY <1>1, AfterIs
<1> QED
  BY <1>1, <1>2 DEF IsReader

\* A byte more is taken by what there was.
LEMMA AfterAppend ==
    ASSUME NEW code \in Seq(Nat), NEW b \in Nat
    PROVE  After(Append(code, b)) = Take[After(code)][b]
<1> DEFINE more == Append(code, b)
           m == Len(code)
<1>1. /\ more \in Seq(Nat) /\ Len(more) = m + 1 /\ more[m + 1] = b
      /\ \A i \in 1..m : more[i] = code[i]
  OBVIOUS
<1>2. PICK f : IsReader(code, f) /\ After(code) = f[m]
  BY AfterIs
<1>3. PICK g : IsReader(more, g) /\ After(more) = g[Len(more)]
  BY <1>1, AfterIs
<1>m. m \in Nat
  OBVIOUS
<1> HIDE DEF more, m
<1>4. /\ f[0] = Fresh /\ \A i \in 1..m : f[i] = Take[f[i - 1]][code[i]]
      /\ g[0] = Fresh /\ \A i \in 1..m+1 : g[i] = Take[g[i - 1]][more[i]]
  BY <1>1, <1>2, <1>3 DEF IsReader, m
<1> DEFINE S == {n \in Nat : n <= m => f[n] = g[n]}
<1>5. 0 \in S
  BY <1>4
<1>6. ASSUME NEW n \in S PROVE n + 1 \in S
  <2>1. ASSUME n + 1 <= m PROVE f[n + 1] = g[n + 1]
    <3>1. n <= m /\ n + 1 \in 1..m /\ n + 1 \in 1..m+1 /\ (n + 1) - 1 = n
      BY <1>m, <2>1
    <3>2. f[n] = g[n] /\ more[n + 1] = code[n + 1]
      BY <1>1, <3>1
    <3> QED
      BY <1>4, <3>1, <3>2
  <2> QED
    BY <2>1
<1>7. S \subseteq Nat
  OBVIOUS
<1> HIDE DEF S
<1>8. S = Nat
  BY <1>5, <1>6, <1>7, Induct
<1>9. f[m] = g[m]
  BY <1>m, <1>8 DEF S
<1>10. m + 1 \in 1..m+1 /\ (m + 1) - 1 = m
  BY <1>m
<1>11. g[m + 1] = Take[g[m]][b]
  BY <1>1, <1>4, <1>10
<1> QED
  BY <1>1, <1>2, <1>3, <1>9, <1>11 DEF more

-----------------------------------------------------------------------------
(* What a code stands for.                                                *)

\* How far back in the output the byte is that comes from x, when it is the i-th.
Back(x, i) == LET d == ((2 * N) - F + i - 1 - x) % N IN IF d = 0 THEN N ELSE d

\* A step of the recursion of Decompress.
ByteStep(from, f) ==
    [i \in 1..Len(from) |->
        IF from[i] >= N THEN from[i] - N
        ELSE LET d == ((2 * N) - F + i - 1 - from[i]) % N
                 back == IF d = 0 THEN N ELSE d
             IN  IF i <= back THEN Space ELSE f[i - back]]

\* Decompress is that recursion.
LEMMA DecompressChoice ==
    ASSUME NEW code, NEW size, NEW g, g = ByteStep(Sources(code), g)
    PROVE  \E f : /\ f = ByteStep(Sources(code), f)
                  /\ Decompress(code, size) = [i \in 1..Least(size, Len(Sources(code))) |-> f[i]]
<1> DEFINE f == CHOOSE h : h = ByteStep(Sources(code), h)
<1>1. f = ByteStep(Sources(code), f)
  OBVIOUS
<1>2. Decompress(code, size) = [i \in 1..Least(size, Len(Sources(code))) |-> f[i]]
  BY Zenon DEF Decompress, ByteStep
<1> QED
  BY <1>1, <1>2

\* It is a window back at most.
LEMMA BackIs ==
    ASSUME NEW x \in 0..N-1, NEW i \in Nat, i >= 1
    PROVE  Back(x, i) \in 1..N
<1>1. N \in Nat \ {0} /\ F \in Nat /\ F + F <= N
  BY Numbers
<1>2. (2 * N) - F + i - 1 - x \in Nat
  BY <1>1
<1>3. ((2 * N) - F + i - 1 - x) % N \in 0..N-1
  BY <1>1, <1>2, ModRange
<1> QED
  BY <1>1, <1>3 DEF Back

\* A place that is farther than b back.
LEMMA StepBack == ASSUME NEW i \in Nat, NEW b \in Nat, b >= 1, ~(i <= b) PROVE i - b \in 1..i-1
OBVIOUS

\* The recursion, byte by byte.
LEMMA ByteIs ==
    ASSUME NEW from, NEW f, f = ByteStep(from, f), NEW i \in 1..Len(from)
    PROVE  f[i] = IF from[i] >= N THEN from[i] - N
                  ELSE IF i <= Back(from[i], i) THEN Space ELSE f[i - Back(from[i], i)]
<1>1. ByteStep(from, f)[i] = IF from[i] >= N THEN from[i] - N
                             ELSE IF i <= Back(from[i], i) THEN Space ELSE f[i - Back(from[i], i)]
  BY DEF ByteStep, Back
<1> QED
  BY <1>1

\* It comes to an end, as it always goes back.
LEMMA BytesAre ==
    ASSUME NEW from \in Seq(Nat)
    PROVE  \E f : f = ByteStep(from, f)
<1> DEFINE m    == Len(from)
           D    == 1..m
           stop == {i \in D : from[i] >= N \/ i <= Back(from[i], i)}
           base == [i \in D |-> IF from[i] >= N THEN from[i] - N ELSE Space]
           nx   == [i \in D |-> IF i \in stop THEN i ELSE i - Back(from[i], i)]
           rank == [i \in D |-> i]
           h    == [t \in D \X Nat |-> t[2]]
<1>1. m \in Nat /\ (\A i \in D : from[i] \in Nat) /\ N \in Nat /\ Space \in Nat
  BY Numbers
<1>2. \A i \in D \ stop : Back(from[i], i) \in 1..N /\ i - Back(from[i], i) \in 1..i-1
  <2> SUFFICES ASSUME NEW i \in D, i \notin stop
               PROVE  Back(from[i], i) \in 1..N /\ i - Back(from[i], i) \in 1..i-1
    OBVIOUS
  <2>1. i \in Nat /\ i >= 1 /\ from[i] \in 0..N-1 /\ ~(i <= Back(from[i], i))
    <3>1. i \in Nat /\ i >= 1 /\ from[i] \in Nat
      BY <1>1
    <3>2. ~(from[i] >= N) /\ ~(i <= Back(from[i], i))
      OBVIOUS
    <3>3. from[i] \in 0..N-1
      BY <1>1, <3>1, <3>2
    <3> QED
      BY <3>1, <3>2, <3>3
  <2>2. Back(from[i], i) \in 1..N
    BY <2>1, BackIs
  <2>3. i - Back(from[i], i) \in 1..i-1
    <3> DEFINE b == Back(from[i], i)
    <3>1. b \in Nat /\ b >= 1 /\ i \in Nat /\ ~(i <= b)
      BY <1>1, <2>1, <2>2
    <3> HIDE DEF b
    <3>2. i - b \in 1..i-1
      BY <3>1, StepBack
    <3> QED
      BY <3>2 DEF b
  <2> QED
    BY <2>2, <2>3
<1>3. rank \in [D -> 0..m] /\ base \in [D -> Nat] /\ h \in [D \X Nat -> Nat]
  BY <1>1
<1>4. nx \in [D -> D] /\ \A i \in D \ stop : nx[i] = i - Back(from[i], i)
  <2>1. \A i \in D \ stop : i - Back(from[i], i) \in D
    BY <1>1, <1>2
  <2> HIDE DEF stop
  <2> QED
    BY <2>1
<1>5. \A i \in D \ stop : rank[nx[i]] < rank[i]
  <2> SUFFICES ASSUME NEW i \in D, i \notin stop PROVE rank[nx[i]] < rank[i]
    OBVIOUS
  <2>1. nx[i] \in D /\ nx[i] < i
    BY <1>1, <1>2, <1>4
  <2> HIDE DEF nx, stop
  <2> QED
    BY <2>1
<1>6. \A i \in D, b \in Nat : h[<<i, b>>] = b
  OBVIOUS
<1> HIDE DEF stop, base, nx, rank, h, D
<1>7. Descends(D, Nat, m, rank, stop, base, nx, h)
  BY <1>1, <1>3, <1>4, <1>5 DEF Descends
<1>8. PICK f \in [D -> Nat] : \A i \in D : f[i] = IF i \in stop THEN base[i] ELSE h[<<i, f[nx[i]]>>]
  BY <1>7, Recursion
<1>9. ASSUME NEW i \in D PROVE
        f[i] = IF from[i] >= N THEN from[i] - N
               ELSE IF i <= Back(from[i], i) THEN Space ELSE f[i - Back(from[i], i)]
  <2>1. CASE i \in stop
    BY <1>8, <2>1 DEF stop, base
  <2>2. CASE i \notin stop
    <3>1. f[i] = f[nx[i]]
      BY <1>4, <1>6, <1>8, <2>2
    <3> QED
      BY <1>4, <2>2, <3>1 DEF stop
  <2> QED
    BY <2>1, <2>2
<1>10. f = [i \in D |-> f[i]]
  BY <1>8
<1>11. f = ByteStep(from, f)
  <2>1. ByteStep(from, f) = [i \in D |-> IF from[i] >= N THEN from[i] - N
               ELSE IF i <= Back(from[i], i) THEN Space ELSE f[i - Back(from[i], i)]]
    BY DEF ByteStep, Back, D
  <2> QED
    BY <1>9, <1>10, <2>1
<1> QED
  BY <1>11

\* What comes from x stands for the i-th byte of the input.
Says(x, i, in) ==
    /\ x >= N => in[i] = x - N
    /\ x < N => IF i <= Back(x, i) THEN in[i] = Space ELSE in[i] = in[i - Back(x, i)]

\* What comes from these places is the beginning of the input.
Explains(from, in) ==
    /\ from \in Seq(Nat) /\ Len(from) <= Len(in)
    /\ \A i \in 1..Len(from) : Says(from[i], i, in)

\* The code stands for fr and what fills it up, and the decoder stops behind fr.
Covers(code, size, fr, t, in) ==
    /\ in \in Seq(Char) /\ Explains(fr, in) /\ t \in Seq(Nat) /\ code \in Seq(Nat)
    /\ After(code).from = fr \o t /\ size \in Nat /\ Least(size, Len(fr) + Len(t)) = Len(fr)

\* Then it decodes to the beginning of the input.
LEMMA Decompressed ==
    ASSUME NEW in, NEW fr, NEW t, NEW code, NEW size, Covers(code, size, fr, t, in)
    PROVE  Decompress(code, size) = SubSeq(in, 1, Len(fr))
<1>0. /\ in \in Seq(Char) /\ Explains(fr, in) /\ t \in Seq(Nat) /\ code \in Seq(Nat)
      /\ After(code).from = fr \o t /\ size \in Nat /\ Least(size, Len(fr) + Len(t)) = Len(fr)
  BY DEF Covers
<1> DEFINE from == Sources(code)
           m == Len(fr)
<1>1. /\ fr \in Seq(Nat) /\ m \in Nat /\ m <= Len(in) /\ N \in Nat
      /\ \A i \in 1..m : Says(fr[i], i, in) /\ fr[i] \in Nat
  BY <1>0, Numbers DEF Explains
<1>2. from = fr \o t
  BY <1>0, SourcesAre
<1> HIDE DEF from
<1>3. /\ from \in Seq(Nat) /\ Len(from) = m + Len(t)
      /\ \A i \in 1..m : from[i] = fr[i] /\ i \in 1..Len(from)
  BY <1>0, <1>1, <1>2
<1>4. PICK g : g = ByteStep(from, g)
  BY <1>3, BytesAre
<1>5. PICK f : f = ByteStep(from, f) /\ Decompress(code, size) = [i \in 1..Least(size, Len(from)) |-> f[i]]
  BY ZenonT(30), <1>0, <1>4, DecompressChoice DEF from
<1>6. \A i \in 1..m : f[i] = IF fr[i] >= N THEN fr[i] - N
                             ELSE IF i <= Back(fr[i], i) THEN Space ELSE f[i - Back(fr[i], i)]
  <2> SUFFICES ASSUME NEW i \in 1..m
               PROVE  f[i] = IF fr[i] >= N THEN fr[i] - N
                             ELSE IF i <= Back(fr[i], i) THEN Space ELSE f[i - Back(fr[i], i)]
    OBVIOUS
  <2>1. i \in 1..Len(from) /\ from[i] = fr[i]
    BY <1>3
  <2> QED
    BY <1>5, <2>1, ByteIs
<1> HIDE DEF m
<1> DEFINE S == {n \in Nat : \A i \in 1..m : i <= n => f[i] = in[i]}
<1>7. 0 \in S
  BY <1>1
<1>8. ASSUME NEW n \in S PROVE n + 1 \in S
  <2>1. ASSUME NEW i \in 1..m, i <= n + 1 PROVE f[i] = in[i]
    <3>1. CASE fr[i] >= N
      BY <1>1, <1>6, <3>1 DEF Says
    <3>2. CASE fr[i] < N
      <4>1. fr[i] \in 0..N-1 /\ i \in Nat /\ i >= 1
        BY <1>1, <3>2
      <4>2. Back(fr[i], i) \in 1..N
        BY <4>1, BackIs
      <4>3. CASE i <= Back(fr[i], i)
        BY <1>1, <1>6, <3>2, <4>3 DEF Says
      <4>4. CASE ~(i <= Back(fr[i], i))
        <5>1. i - Back(fr[i], i) \in 1..m /\ i - Back(fr[i], i) <= n
          <6>1. n \in Nat
            OBVIOUS
          <6> DEFINE b == Back(fr[i], i)
          <6>2. b \in 1..N /\ ~(i <= b)
            BY <4>2, <4>4
          <6> HIDE DEF S, b
          <6>3. i - b \in 1..m /\ i - b <= n
            BY <1>1, <2>1, <4>1, <6>1, <6>2
          <6> QED
            BY <6>3 DEF b
        <5>2. f[i - Back(fr[i], i)] = in[i - Back(fr[i], i)]
          BY <5>1
        <5> QED
          BY <1>1, <1>6, <3>2, <4>4, <5>2 DEF Says
      <4> QED
        BY <4>3, <4>4
    <3> QED
      BY <1>1, <3>1, <3>2
  <2> QED
    BY <2>1
<1>9. S \subseteq Nat
  OBVIOUS
<1> HIDE DEF S
<1>10. S = Nat
  BY <1>7, <1>8, <1>9, Induct
<1>11. \A i \in 1..m : f[i] = in[i]
  <2> SUFFICES ASSUME NEW i \in 1..m PROVE f[i] = in[i]
    OBVIOUS
  <2>1. i \in Nat /\ i <= i
    BY <1>1
  <2>2. i \in S
    BY <1>10, <2>1
  <2> QED
    BY <2>1, <2>2 DEF S
<1>12. Decompress(code, size) = [i \in 1..m |-> in[i]]
  BY <1>0, <1>3, <1>5, <1>11 DEF m
<1>13. SubSeq(in, 1, m) = [i \in 1..m |-> in[i]]
  BY <1>0, <1>1
<1> QED
  BY <1>12, <1>13 DEF m

\* What follows the code only adds to what it says.
LEMMA AfterMore ==
    ASSUME NEW code \in Seq(Nat), NEW n \in Nat
    PROVE  LET zeros == [i \in 1..n |-> 0]
           IN  code \o zeros \in Seq(Nat) /\ \E t \in Seq(Nat) : After(code \o zeros).from = After(code).from \o t
<1> DEFINE z(m) == code \o [i \in 1..m |-> 0]
           S == {m \in Nat : z(m) \in Seq(Nat) /\ \E t \in Seq(Nat) : After(z(m)).from = After(code).from \o t}
<1>0. After(code) \in Reading /\ After(code).from \in Seq(Nat)
  BY AfterReads DEF Reading, Decoder
<1>1. 0 \in S
  <2>1. z(0) = code
    OBVIOUS
  <2>2. After(code).from = After(code).from \o << >> /\ << >> \in Seq(Nat)
    BY <1>0
  <2> HIDE DEF z
  <2> QED
    BY <2>1, <2>2
<1>2. ASSUME NEW m \in S PROVE m + 1 \in S
  <2>1. z(m) \in Seq(Nat) /\ m \in Nat
    OBVIOUS
  <2>0. 0 \in Nat /\ m + 1 \in Nat
    BY <2>1
  <2>2. z(m + 1) = Append(z(m), 0)
    <3> DEFINE u == [i \in 1..m |-> 0]
    <3>1. u \in Seq(Nat) /\ [i \in 1..m+1 |-> 0] = Append(u, 0)
      BY <2>1
    <3> HIDE DEF u
    <3>2. code \o Append(u, 0) = Append(code \o u, 0)
      BY <3>1
    <3> QED
      BY <3>1, <3>2 DEF u
  <2> HIDE DEF z
  <2>3. PICK t \in Seq(Nat) : After(z(m)).from = After(code).from \o t
    OBVIOUS
  <2>4. After(z(m + 1)) = Take[After(z(m))][0] /\ After(z(m)) \in Reading /\ z(m + 1) \in Seq(Nat)
    <3>1. After(Append(z(m), 0)) = Take[After(z(m))][0] /\ After(z(m)) \in Reading
      BY <2>0, <2>1, AfterAppend, AfterReads
    <3>2. Append(z(m), 0) \in Seq(Nat)
      BY <2>0, <2>1
    <3> QED
      BY <2>2, <3>1, <3>2
  <2>5. PICK u \in Seq(Nat) : After(z(m + 1)).from = After(z(m)).from \o u
    BY <2>0, <2>4, TakeIs
  <2>6. (After(code).from \o t) \o u = After(code).from \o (t \o u) /\ t \o u \in Seq(Nat)
    <3>1. t \in Seq(Nat) /\ u \in Seq(Nat)
      OBVIOUS
    <3>2. t \o u \in Seq(Nat)
      BY <3>1, ConcatProperties
    <3> DEFINE a == After(code).from
    <3>3. a \in Seq(Nat)
      BY <1>0
    <3> HIDE DEF a, S
    <3>4. (a \o t) \o u = a \o (t \o u)
      BY <3>1, <3>3
    <3> QED
      BY <3>2, <3>4 DEF a
  <2> QED
    BY <2>0, <2>1, <2>3, <2>4, <2>5, <2>6
<1>3. S \subseteq Nat
  OBVIOUS
<1> HIDE DEF S
<1>4. S = Nat
  BY <1>1, <1>2, <1>3, Induct
<1> QED
  BY <1>4 DEF S

-----------------------------------------------------------------------------
(* A group of codes.                                                      *)

\* Flags are added to a group of codes.
AddFlags(buf, x) == [buf EXCEPT ![1] = @ + x]

\* They change the first byte only.
LEMMA AddFlagsIs ==
    ASSUME NEW buf \in Seq(Nat), Len(buf) >= 1, NEW x \in Nat
    PROVE  /\ AddFlags(buf, x) \in Seq(Nat) /\ Len(AddFlags(buf, x)) = Len(buf)
           /\ \A i \in 1..Len(buf) : AddFlags(buf, x)[i] = IF i = 1 THEN buf[1] + x ELSE buf[i]
<1>1. Len(buf) \in Nat /\ \A i \in 1..Len(buf) : buf[i] \in Nat
  OBVIOUS
<1> DEFINE t == AddFlags(buf, x)
<1>2. t = [i \in 1..Len(buf) |-> IF i = 1 THEN buf[1] + x ELSE buf[i]]
  BY <1>1 DEF AddFlags
<1>3. t = [i \in 1..Len(buf) |-> t[i]] /\ \A i \in 1..Len(buf) : t[i] \in Nat
  BY <1>1, <1>2
<1> HIDE DEF t
<1>4. t \in Seq(Nat) /\ Len(t) = Len(buf)
  BY <1>1, <1>3, ASequence
<1>5. \A i \in 1..Len(buf) : t[i] = IF i = 1 THEN buf[1] + x ELSE buf[i]
  BY <1>2
<1> QED
  BY <1>4, <1>5 DEF t

\* They can be added at once.
LEMMA AddFlagsTwice ==
    ASSUME NEW buf \in Seq(Nat), Len(buf) >= 1, NEW x \in Nat, NEW y \in Nat
    PROVE  AddFlags(AddFlags(buf, x), y) = AddFlags(buf, x + y)
<1> DEFINE t == AddFlags(buf, x)
           u == AddFlags(t, y)
           v == AddFlags(buf, x + y)
<1>1. Len(buf) \in Nat /\ \A i \in 1..Len(buf) : buf[i] \in Nat
  OBVIOUS
<1>2. /\ t \in Seq(Nat) /\ Len(t) = Len(buf)
      /\ \A i \in 1..Len(buf) : t[i] = IF i = 1 THEN buf[1] + x ELSE buf[i]
  BY AddFlagsIs
<1>3. x + y \in Nat
  OBVIOUS
<1>4. /\ v \in Seq(Nat) /\ Len(v) = Len(buf)
      /\ \A i \in 1..Len(buf) : v[i] = IF i = 1 THEN buf[1] + (x + y) ELSE buf[i]
  BY <1>3, AddFlagsIs
<1> HIDE DEF t
<1>5. /\ u \in Seq(Nat) /\ Len(u) = Len(buf)
      /\ \A i \in 1..Len(buf) : u[i] = IF i = 1 THEN t[1] + y ELSE t[i]
  BY <1>2, AddFlagsIs
<1> HIDE DEF u, v
<1>6. \A i \in 1..Len(u) : u[i] = v[i]
  <2> SUFFICES ASSUME NEW i \in 1..Len(buf) PROVE u[i] = v[i]
    BY <1>5
  <2>1. 1 \in 1..Len(buf) /\ buf[1] \in Nat
    BY <1>1
  <2>2. t[1] = buf[1] + x
    BY <1>2, <2>1
  <2>3. CASE i = 1
    BY <1>4, <1>5, <2>1, <2>2, <2>3
  <2>4. CASE i # 1
    BY <1>2, <1>4, <1>5, <2>4
  <2> QED
    BY <2>3, <2>4
<1>7. u = v
  BY <1>4, <1>5, <1>6, SeqEqual
<1> QED
  BY <1>7 DEF u, v, t

\* The bytes behind the flags stay where they are.
LEMMA AddFlagsAppend ==
    ASSUME NEW buf \in Seq(Nat), Len(buf) >= 1, NEW x \in Nat, NEW b \in Nat
    PROVE  AddFlags(Append(buf, b), x) = Append(AddFlags(buf, x), b)
<1> DEFINE more == Append(buf, b)
           u == AddFlags(more, x)
           t == AddFlags(buf, x)
           v == Append(t, b)
<1>1. /\ Len(buf) \in Nat /\ more \in Seq(Nat) /\ Len(more) = Len(buf) + 1 /\ Len(more) >= 1
      /\ \A i \in 1..Len(buf)+1 : more[i] = IF i <= Len(buf) THEN buf[i] ELSE b
  OBVIOUS
<1>2. /\ t \in Seq(Nat) /\ Len(t) = Len(buf)
      /\ \A i \in 1..Len(buf) : t[i] = IF i = 1 THEN buf[1] + x ELSE buf[i]
  BY AddFlagsIs
<1> HIDE DEF more, t
<1>3. /\ u \in Seq(Nat) /\ Len(u) = Len(buf) + 1
      /\ \A i \in 1..Len(buf)+1 : u[i] = IF i = 1 THEN more[1] + x ELSE more[i]
  BY <1>1, AddFlagsIs
<1>4. /\ v \in Seq(Nat) /\ Len(v) = Len(buf) + 1
      /\ \A i \in 1..Len(buf)+1 : v[i] = IF i <= Len(buf) THEN t[i] ELSE b
  BY <1>1, <1>2
<1> HIDE DEF u, v
<1>5. \A i \in 1..Len(u) : u[i] = v[i]
  <2> SUFFICES ASSUME NEW i \in 1..Len(buf)+1 PROVE u[i] = v[i]
    BY <1>3
  <2>1. 1 \in 1..Len(buf) /\ 1 \in 1..Len(buf)+1
    BY <1>1
  <2>2. CASE i <= Len(buf)
    <3>1. i \in 1..Len(buf)
      BY <1>1, <2>2
    <3> QED
      BY <1>1, <1>2, <1>3, <1>4, <2>1, <2>2, <3>1
  <2>3. CASE ~(i <= Len(buf))
    BY <1>1, <1>3, <1>4, <2>3
  <2> QED
    BY <2>2, <2>3
<1>6. u = v
  BY <1>3, <1>4, <1>5, SeqEqual
<1> QED
  BY <1>6 DEF u, v, t, more

\* What the decoder has when it has read the groups that are out and this one,
\* whatever flags are added for the codes that are still to come.
Holds(out, buf, mask, fr) ==
    /\ out \in Seq(0..Low-1) /\ buf \in Seq(0..Low-1) /\ Len(buf) >= 1
    /\ mask \in 0..Group /\ buf[1] < Bit[mask]
    /\ \A c \in Nat : After(out \o AddFlags(buf, c * Bit[mask])) =
                        [from |-> fr, flags |-> c, left |-> Group - mask, first |-> << >>]

\* Bytes are numbers.
LEMMA ByteSeq == ASSUME NEW s \in Seq(0..Low-1) PROVE s \in Seq(Nat)
<1>1. 0..Low-1 \subseteq Nat
  BY Numbers
<1> QED
  BY <1>1, SeqMonotonic

\* The codes that are out.
LEMMA HoldsOut ==
    ASSUME NEW out \in Seq(0..Low-1), NEW fr,
           After(out) = [from |-> fr, flags |-> 0, left |-> 0, first |-> << >>]
    PROVE  Holds(out, <<0>>, 0, fr)
<1>1. out \in Seq(Nat) /\ Group \in Nat /\ Low \in Nat /\ Low > 0 /\ Bit[0] = 1
  BY ByteSeq, Numbers, BitIs
<1>2. <<0>> \in Seq(0..Low-1) /\ Len(<<0>>) = 1 /\ <<0>>[1] = 0
  BY <1>1
<1>3. ASSUME NEW c \in Nat
      PROVE  After(out \o AddFlags(<<0>>, c * Bit[0])) =
                [from |-> fr, flags |-> c, left |-> Group - 0, first |-> << >>]
  <2>1. c * Bit[0] = c
    BY <1>1
  <2>2. AddFlags(<<0>>, c) = <<c>>
    BY DEF AddFlags
  <2>3. out \o <<c>> = Append(out, c)
    BY <1>1
  <2>4. After(out) \in Reading /\ After(Append(out, c)) = Take[After(out)][c]
    BY <1>1, AfterReads, AfterAppend
  <2>5. After(out).first = << >> /\ After(out).left = 0 /\ After(out).from = fr
    OBVIOUS
  <2>6. Take[After(out)][c] = [from |-> fr, flags |-> c, left |-> Group, first |-> << >>]
    BY <2>4, <2>5, TakeFlags
  <2>7. Group - 0 = Group
    BY <1>1
  <2>8. out \o AddFlags(<<0>>, c * Bit[0]) = Append(out, c)
    BY <2>1, <2>2, <2>3
  <2> QED
    BY <2>4, <2>6, <2>7, <2>8
<1> QED
  BY <1>1, <1>2, <1>3 DEF Holds

\* Nothing is coded at first.
LEMMA HoldsNone == Holds(<< >>, <<0>>, 0, << >>)
<1>1. << >> \in Seq(0..Low-1)
  OBVIOUS
<1>2. After(<< >>) = [from |-> << >>, flags |-> 0, left |-> 0, first |-> << >>]
  BY AfterNone DEF Fresh
<1> QED
  BY <1>1, <1>2, HoldsOut

\* No flags are added.
LEMMA HoldsNow ==
    ASSUME NEW out, NEW buf, NEW mask, NEW fr, Holds(out, buf, mask, fr)
    PROVE  /\ out \o buf \in Seq(0..Low-1)
           /\ After(out \o buf) = [from |-> fr, flags |-> 0, left |-> Group - mask, first |-> << >>]
<1>1. /\ out \in Seq(0..Low-1) /\ buf \in Seq(0..Low-1) /\ Len(buf) >= 1 /\ mask \in 0..Group
      /\ After(out \o AddFlags(buf, 0 * Bit[mask])) =
                        [from |-> fr, flags |-> 0, left |-> Group - mask, first |-> << >>]
  BY DEF Holds
<1>2. buf \in Seq(Nat) /\ Bit[mask] \in Nat
  BY <1>1, ByteSeq, BitIs
<1>3. 0 * Bit[mask] = 0
  BY <1>2
<1>4. AddFlags(buf, 0) = buf
  <2>1. /\ AddFlags(buf, 0) \in Seq(Nat) /\ Len(AddFlags(buf, 0)) = Len(buf)
        /\ \A i \in 1..Len(buf) : AddFlags(buf, 0)[i] = IF i = 1 THEN buf[1] + 0 ELSE buf[i]
    BY <1>1, <1>2, AddFlagsIs
  <2>2. \A i \in 1..Len(buf) : AddFlags(buf, 0)[i] = buf[i]
    BY <1>2, <2>1
  <2> QED
    BY <1>2, <2>1, <2>2, SeqEqual
<1> QED
  BY <1>1, <1>3, <1>4

\* The next code has the next flag.
LEMMA BitNext ==
    ASSUME NEW mask \in 0..Group, mask < Group
    PROVE  /\ mask + 1 \in 0..Group /\ Bit[mask + 1] = 2 * Bit[mask] /\ Bit[mask] \in Nat /\ Bit[mask] >= 1
           /\ Bit[mask + 1] \in Nat /\ Bit[mask + 1] <= Low /\ Group - mask \in Nat /\ Group - mask # 0
           /\ (Group - mask) - 1 = Group - (mask + 1)
<1>1. Group \in Nat
  BY Numbers
<1>2. mask + 1 \in 1..Group /\ (mask + 1) - 1 = mask /\ mask + 1 \in 0..Group
  BY <1>1
<1>3. Bit[mask + 1] = 2 * Bit[(mask + 1) - 1]
  BY <1>2, BitIs
<1>4. Bit[mask + 1] <= Low /\ Bit[mask + 1] \in Nat /\ Bit[mask] \in Nat /\ Bit[mask] >= 1
  BY <1>2, BitIs, BitsInByte
<1> QED
  BY <1>1, <1>2, <1>3, <1>4

\* A byte more at the end.
LEMMA ConcatAppend ==
    ASSUME NEW s \in Seq(Nat), NEW t \in Seq(Nat), NEW b \in Nat
    PROVE  /\ s \o Append(t, b) = Append(s \o t, b) /\ s \o t \in Seq(Nat) /\ Append(s \o t, b) \in Seq(Nat)
           /\ Append(t, b) \in Seq(Nat)
OBVIOUS

\* A byte as it is, and its flag.
LEMMA HoldsByte ==
    ASSUME NEW out, NEW buf, NEW mask, NEW fr, Holds(out, buf, mask, fr), mask < Group, NEW b \in 0..Low-1,
           NEW more, more = AddFlags(Append(buf, b), Bit[mask])
    PROVE  Holds(out, more, mask + 1, Append(fr, N + b)) /\ Len(more) > 1
<1> DEFINE e == Bit[mask]
           add == Append(buf, b)
<1>1. /\ out \in Seq(0..Low-1) /\ buf \in Seq(0..Low-1) /\ Len(buf) >= 1 /\ mask \in 0..Group /\ buf[1] < e
      /\ \A c \in Nat : After(out \o AddFlags(buf, c * e)) =
                        [from |-> fr, flags |-> c, left |-> Group - mask, first |-> << >>]
  BY DEF Holds
<1>2. out \in Seq(Nat) /\ buf \in Seq(Nat) /\ b \in Nat /\ Low \in Nat /\ Len(buf) \in Nat
  BY <1>1, ByteSeq, Numbers
<1>3. /\ mask + 1 \in 0..Group /\ Bit[mask + 1] = 2 * e /\ e \in Nat /\ e >= 1 /\ 2 * e \in Nat /\ 2 * e <= Low
      /\ Group - mask \in Nat /\ Group - mask # 0 /\ (Group - mask) - 1 = Group - (mask + 1)
  BY <1>1, BitNext
<1> HIDE DEF e
<1>4. /\ add \in Seq(Nat) /\ Len(add) = Len(buf) + 1 /\ Len(add) >= 1 /\ add[1] = buf[1]
      /\ \A i \in 1..Len(add) : add[i] \in 0..Low-1
  BY <1>1, <1>2
<1> HIDE DEF add
<1>5. /\ more \in Seq(Nat) /\ Len(more) = Len(buf) + 1
      /\ \A i \in 1..Len(add) : more[i] = IF i = 1 THEN add[1] + e ELSE add[i]
  BY <1>3, <1>4, AddFlagsIs DEF add, e
<1>6. buf[1] \in Nat /\ more[1] = buf[1] + e /\ more[1] < 2 * e
  <2>1. 1 \in 1..Len(buf) /\ 1 \in 1..Len(add)
    BY <1>1, <1>2, <1>4
  <2>2. buf[1] \in Nat
    BY <1>2, <2>1
  <2>3. more[1] = buf[1] + e
    BY <1>4, <1>5, <2>1
  <2> QED
    BY <1>1, <1>3, <2>2, <2>3
<1>7. more \in Seq(0..Low-1)
  <2>1. \A i \in 1..Len(add) : more[i] \in 0..Low-1
    <3> SUFFICES ASSUME NEW i \in 1..Len(add) PROVE more[i] \in 0..Low-1
      OBVIOUS
    <3>1. CASE i = 1
      BY SMTT(30), <1>2, <1>3, <1>6, <3>1
    <3>2. CASE i # 1
      BY <1>4, <1>5, <3>2
    <3> QED
      BY <3>1, <3>2
  <2>2. more = [i \in 1..Len(more) |-> more[i]]
    BY <1>5
  <2>3. Len(more) \in Nat /\ \A i \in 1..Len(more) : more[i] \in 0..Low-1
    BY <1>4, <1>5, <2>1
  <2> QED
    <3> DEFINE S == 0..Low-1
    <3>1. \A i \in 1..Len(more) : more[i] \in S
      BY <2>3
    <3> HIDE DEF S
    <3>2. more \in Seq(S)
      BY <2>2, <2>3, <3>1, ASequence
    <3> QED
      BY <3>2 DEF S
<1>8. ASSUME NEW c \in Nat
      PROVE  After(out \o AddFlags(more, c * Bit[mask + 1])) =
                [from |-> Append(fr, N + b), flags |-> c, left |-> Group - (mask + 1), first |-> << >>]
  <2> DEFINE x == (1 + (2 * c)) * e
             g == AddFlags(buf, x)
             d == After(out \o g)
  <2>1. x \in Nat /\ c * (2 * e) \in Nat /\ x = e + (c * (2 * e)) /\ 1 + (2 * c) \in Nat
    BY <1>3
  <2>2. AddFlags(more, c * (2 * e)) = AddFlags(add, x)
    <3>1. AddFlags(more, c * (2 * e)) = AddFlags(add, e + (c * (2 * e)))
      BY <1>3, <1>4, <2>1, AddFlagsTwice DEF add, e
    <3> QED
      BY <2>1, <3>1
  <2>3. d = [from |-> fr, flags |-> 1 + (2 * c), left |-> Group - mask, first |-> << >>]
    BY <1>1, <2>1
  <2> HIDE DEF x
  <2>4. AddFlags(add, x) = Append(g, b) /\ g \in Seq(Nat)
    BY <1>1, <1>2, <2>1, AddFlagsAppend, AddFlagsIs DEF add
  <2> HIDE DEF g
  <2>5. out \o Append(g, b) = Append(out \o g, b) /\ out \o g \in Seq(Nat)
    BY <1>2, <2>4, ConcatAppend
  <2>6. d \in Reading /\ After(Append(out \o g, b)) = Take[d][b]
    BY <1>2, <2>5, AfterReads, AfterAppend
  <2> HIDE DEF d
  <2>7. d.first = << >> /\ d.left = Group - mask /\ d.flags = 1 + (2 * c) /\ d.from = fr
    BY <2>3
  <2>8. d.flags % 2 = 1 /\ d.flags \div 2 = c
    BY <2>7
  <2>9. Take[d][b] = [from |-> Append(d.from, N + b), flags |-> d.flags \div 2, left |-> d.left - 1,
                      first |-> << >>]
    BY <1>2, <1>3, <2>6, <2>7, <2>8, TakeByte
  <2>10. Take[d][b] = [from |-> Append(fr, N + b), flags |-> c, left |-> Group - (mask + 1), first |-> << >>]
    BY <1>3, <2>7, <2>8, <2>9
  <2>11. AddFlags(more, c * Bit[mask + 1]) = Append(g, b)
    BY <1>3, <2>2, <2>4
  <2> QED
    BY <2>5, <2>6, <2>10, <2>11
<1>9. Len(more) > 1 /\ Len(more) >= 1
  BY <1>1, <1>2, <1>5
<1>10. more[1] < Bit[mask + 1]
  BY <1>3, <1>6
<1>11. Holds(out, more, mask + 1, Append(fr, N + b))
  <2>1. out \in Seq(0..Low-1) /\ mask + 1 \in 0..Group
    BY <1>1, <1>3
  <2> QED
    BY <2>1, <1>7, <1>8, <1>9, <1>10 DEF Holds
<1> QED
  BY <1>9, <1>11

\* The place and the length of a match, and no flag.
\* The two bytes of a match of n bytes with the string at p.
Refers(p, n, b1, b2) ==
    /\ p \in 0..N-1 /\ n \in Threshold+1..F
    /\ b1 = p % Low /\ b2 = ((p \div Low) * Refs) + n - (Threshold + 1)

\* Where the bytes of a match are from.
From(p, n) == [j \in 1..n |-> (p + j - 1) % N]

\* A reference, and no flag.
LEMMA HoldsMatch ==
    ASSUME NEW out, NEW buf, NEW mask, NEW fr, Holds(out, buf, mask, fr), mask < Group,
           NEW p, NEW n, NEW b1, NEW b2, Refers(p, n, b1, b2)
    PROVE  /\ Holds(out, buf \o <<b1, b2>>, mask + 1, fr \o From(p, n))
           /\ Len(buf \o <<b1, b2>>) > 1
<1> DEFINE e == Bit[mask]
           new == From(p, n)
           more == buf \o <<b1, b2>>
<1>n. new = [j \in 1..n |-> (p + j - 1) % N]
  BY DEF From
<1>1. /\ out \in Seq(0..Low-1) /\ buf \in Seq(0..Low-1) /\ Len(buf) >= 1 /\ mask \in 0..Group /\ buf[1] < e
      /\ \A c \in Nat : After(out \o AddFlags(buf, c * e)) =
                        [from |-> fr, flags |-> c, left |-> Group - mask, first |-> << >>]
  BY DEF Holds
<1>2. /\ b1 \in 0..Low-1 /\ b2 \in 0..Low-1
      /\ (b2 % Refs) + Threshold + 1 = n /\ b1 + (Low * (b2 \div Refs)) = p
  BY Packed DEF Refers
<1>3. out \in Seq(Nat) /\ buf \in Seq(Nat) /\ b1 \in Nat /\ b2 \in Nat /\ Low \in Nat /\ Len(buf) \in Nat
  BY <1>1, <1>2, ByteSeq, Numbers
<1>4. /\ mask + 1 \in 0..Group /\ Bit[mask + 1] = 2 * e /\ e \in Nat /\ e >= 1 /\ 2 * e \in Nat /\ 2 * e <= Low
      /\ Group - mask \in Nat /\ Group - mask # 0 /\ (Group - mask) - 1 = Group - (mask + 1)
  BY <1>1, BitNext
<1>m. more = buf \o <<b1, b2>>
  OBVIOUS
<1> HIDE DEF e, new, more
<1>5. more \in Seq(0..Low-1) /\ Len(more) = Len(buf) + 2 /\ more[1] = buf[1] /\ buf[1] \in Nat
  BY <1>m, <1>1, <1>2, <1>3
<1>6. more = Append(Append(buf, b1), b2)
  BY <1>m, <1>3
<1>7. ASSUME NEW c \in Nat
      PROVE  After(out \o AddFlags(more, c * Bit[mask + 1])) =
                [from |-> fr \o new, flags |-> c, left |-> Group - (mask + 1), first |-> << >>]
  <2> DEFINE x == (2 * c) * e
             g == AddFlags(buf, x)
             d == After(out \o g)
             h == Append(out \o g, b1)
  <2>1. x \in Nat /\ c * (2 * e) = x /\ 2 * c \in Nat
    BY <1>4
  <2>2. d = [from |-> fr, flags |-> 2 * c, left |-> Group - mask, first |-> << >>]
    BY <1>1, <2>1
  <2> HIDE DEF x
  <2>3. g \in Seq(Nat)
    BY <1>1, <1>3, <2>1, AddFlagsIs
  <2>4. AddFlags(more, x) = Append(Append(g, b1), b2)
    <3>1. AddFlags(Append(buf, b1), x) = Append(g, b1)
      BY <1>1, <1>3, <2>1, AddFlagsAppend
    <3>2. Append(buf, b1) \in Seq(Nat) /\ Len(Append(buf, b1)) >= 1
      BY <1>1, <1>3
    <3>3. AddFlags(Append(Append(buf, b1), b2), x) = Append(AddFlags(Append(buf, b1), x), b2)
      BY ZenonT(30), <1>3, <2>1, <3>2, AddFlagsAppend
    <3> QED
      BY <1>6, <3>1, <3>3
  <2> HIDE DEF g
  <2>5. out \o Append(g, b1) = h /\ out \o g \in Seq(Nat) /\ h \in Seq(Nat) /\ Append(g, b1) \in Seq(Nat)
    BY <1>3, <2>3, ConcatAppend
  <2>6. out \o Append(Append(g, b1), b2) = Append(h, b2)
    <3> DEFINE t == Append(g, b1)
    <3>1. t \in Seq(Nat)
      BY <2>5
    <3> HIDE DEF t
    <3>2. out \in Seq(Nat) /\ b2 \in Nat
      BY <1>3
    <3>3. out \o Append(t, b2) = Append(out \o t, b2)
      BY <3>1, <3>2, ConcatAppend
    <3> QED
      BY <2>5, <3>3 DEF t
  <2>7. d \in Reading /\ After(h) = Take[d][b1]
    BY <1>3, <2>5, AfterReads, AfterAppend
  <2> HIDE DEF h
  <2>8. After(Append(h, b2)) = Take[After(h)][b2] /\ After(h) \in Reading
    BY <1>3, <2>5, AfterReads, AfterAppend
  <2> HIDE DEF d
  <2>9. d.first = << >> /\ d.left = Group - mask /\ d.flags = 2 * c /\ d.from = fr
    BY <2>2
  <2>10. d.flags % 2 # 1 /\ d.flags \div 2 = c
    BY <2>9
  <2>11. Take[d][b1] = [from |-> d.from, flags |-> d.flags, left |-> d.left, first |-> <<b1>>]
    BY <1>3, <1>4, <2>7, <2>9, <2>10, TakeFirst
  <2> DEFINE w == Take[d][b1]
  <2>12. /\ w \in Reading /\ w.first = <<b1>> /\ w.first # << >> /\ w.first[1] = b1
         /\ w.from = fr /\ w.flags \div 2 = c /\ w.left - 1 = Group - (mask + 1)
    BY <1>4, <2>7, <2>8, <2>9, <2>10, <2>11
  <2> HIDE DEF w
  <2>13. Take[w][b2] = [from |-> w.from \o [j \in 1..(b2 % Refs) + Threshold + 1 |->
                                               (w.first[1] + (Low * (b2 \div Refs)) + j - 1) % N],
                        flags |-> w.flags \div 2, left |-> w.left - 1, first |-> << >>]
    BY <1>3, <2>12, TakeSecond, Zenon
  <2>14. [j \in 1..(b2 % Refs) + Threshold + 1 |-> (w.first[1] + (Low * (b2 \div Refs)) + j - 1) % N] = new
    BY <1>n, <1>2, <2>12
  <2>15. Take[w][b2] = [from |-> fr \o new, flags |-> c, left |-> Group - (mask + 1), first |-> << >>]
    BY <2>12, <2>13, <2>14
  <2>16. AddFlags(more, c * Bit[mask + 1]) = Append(Append(g, b1), b2)
    BY <1>4, <2>1, <2>4
  <2> QED
    BY <2>6, <2>7, <2>8, <2>15, <2>16 DEF w
<1>8. Len(more) > 1
  BY <1>1, <1>3, <1>5
<1>9. Len(more) >= 1 /\ more[1] < Bit[mask + 1]
  <2>1. buf[1] < e
    BY <1>1
  <2>2. buf[1] < 2 * e
    BY <1>4, <1>5, <2>1
  <2> QED
    BY <1>4, <1>5, <1>8, <2>2
<1>10. Holds(out, more, mask + 1, fr \o new)
  BY <1>1, <1>4, <1>5, <1>7, <1>9 DEF Holds
<1> QED
  BY <1>8, <1>10 DEF new, more

-----------------------------------------------------------------------------
(* The text and the window.                                               *)

\* A remainder may be taken before or after.
LEMMA ModAdd ==
    ASSUME NEW m \in Nat \ {0}, NEW a \in Nat, NEW j \in 0..m-1
    PROVE  ((a % m) + j) % m = (a + j) % m
<1> DEFINE b == a % m
<1>1. b \in 0..m-1
  BY ModRange
<1>2. /\ b + j < m => (a + j) % m = b + j
      /\ b + j >= m => (a + j) % m = (b + j) - m
  BY ModPlus
<1> HIDE DEF b
<1>3. CASE b + j < m
  <2>1. b + j \in 0..m-1
    BY <1>1, <1>3
  <2>2. (b + j) % m = b + j
    BY <2>1, ModSmall
  <2> QED
    BY <1>2, <1>3, <2>2 DEF b
<1>4. CASE b + j >= m
  <2>1. (b + j) - m \in 0..m-1 /\ (b + j) - m \in Nat /\ ((b + j) - m) + m = b + j
    BY <1>1, <1>4
  <2>2. (((b + j) - m) + m) % m = ((b + j) - m) % m
    BY <2>1, ModPeriod
  <2>3. ((b + j) - m) % m = (b + j) - m
    BY <2>1, ModSmall
  <2> QED
    BY <1>2, <1>4, <2>1, <2>2, <2>3 DEF b
<1> QED
  BY <1>1, <1>3, <1>4

\* The text: the window is full of spaces at first, and the input follows.
Text(in, a) == IF a < N - F THEN Space ELSE in[(a - (N - F)) + 1]

\* The window d holds the text from n up to e, and its end repeats its beginning.
Window(d, in, n, e) ==
    \A a \in n..e-1 :
        /\ d[a % N] = Text(in, a)
        /\ a >= N /\ a % N < F - 1 => d[N + (a % N)] = Text(in, a)

\* The byte j of the string that begins at a is in the window from n up to e, at x.
Lies(n, e, a, j, x) ==
    n \in Nat /\ e \in Nat /\ a \in Nat /\ n <= a /\ j \in 0..F-1 /\ a + j < e /\ x = (a % N) + j

\* A string that begins in the window is the text, also over the end.
LEMMA WindowString ==
    ASSUME NEW d, NEW in, NEW n, NEW e, Window(d, in, n, e), NEW a, NEW j, NEW x, Lies(n, e, a, j, x)
    PROVE  d[x] = Text(in, a + j)
<1>0. n \in Nat /\ e \in Nat /\ a \in Nat /\ n <= a /\ j \in 0..F-1 /\ a + j < e /\ x = (a % N) + j
  BY DEF Lies
<1>1. N \in Nat \ {0} /\ F \in Nat /\ F + F <= N /\ F > 0 /\ j \in 0..N-1
  BY <1>0, Numbers
<1>2. a % N \in 0..N-1
  BY <1>0, <1>1, ModRange
<1>3. a + j \in n..e-1
  BY <1>0, <1>1
<1>4. /\ d[(a + j) % N] = Text(in, a + j)
      /\ a + j >= N /\ (a + j) % N < F - 1 => d[N + ((a + j) % N)] = Text(in, a + j)
  BY <1>3 DEF Window
<1>5. CASE (a % N) + j < N
  <2>1. (a + j) % N = (a % N) + j
    BY <1>0, <1>1, <1>5, ModPlus
  <2> QED
    BY <1>0, <1>4, <2>1
<1>6. CASE (a % N) + j >= N
  <2>1. (a + j) % N = ((a % N) + j) - N /\ a + j >= N
    BY <1>0, <1>1, <1>6, ModPlus
  <2>2. (a + j) % N < F - 1 /\ N + ((a + j) % N) = (a % N) + j
    BY <1>0, <1>1, <1>2, <2>1
  <2> QED
    BY <1>0, <1>4, <2>1, <2>2
<1> QED
  BY <1>1, <1>2, <1>5, <1>6

\* A byte of the input stands for itself.
LEMMA ExplainsByte ==
    ASSUME NEW in \in Seq(Char), NEW fr, Explains(fr, in), Len(fr) < Len(in)
    PROVE  /\ in[Len(fr) + 1] \in 0..Low-1
           /\ Explains(Append(fr, N + in[Len(fr) + 1]), in)
           /\ Len(Append(fr, N + in[Len(fr) + 1])) = Len(fr) + 1
<1> DEFINE m == Len(fr)
           b == in[m + 1]
           more == Append(fr, N + b)
<1>1. fr \in Seq(Nat) /\ m \in Nat /\ Len(in) \in Nat /\ \A i \in 1..m : Says(fr[i], i, in)
  BY DEF Explains
<1>2. m + 1 \in 1..Len(in)
  BY <1>1
<1>3. b \in Char
  BY <1>2
<1>4. b \in 0..Low-1 /\ b \in Nat /\ N \in Nat
  <2> HIDE DEF b
  <2>1. Char \subseteq 0..Low-1 /\ N \in Nat /\ Low \in Nat
    BY Numbers
  <2>2. b \in 0..Low-1
    BY <1>3, <2>1
  <2> QED
    BY <2>1, <2>2
<1> HIDE DEF b, m
<1>5. /\ more \in Seq(Nat) /\ Len(more) = m + 1 /\ more[m + 1] = N + b
      /\ \A i \in 1..m : more[i] = fr[i]
  BY <1>1, <1>4 DEF m
<1>6. Says(N + b, m + 1, in)
  BY <1>4 DEF Says, b
<1>7. \A i \in 1..m+1 : Says(more[i], i, in)
  <2> SUFFICES ASSUME NEW i \in 1..m+1 PROVE Says(more[i], i, in)
    OBVIOUS
  <2>1. CASE i = m + 1
    BY <1>5, <1>6, <2>1
  <2>2. CASE i # m + 1
    <3>1. i \in 1..m
      BY <1>1, <2>2
    <3> QED
      BY <1>1, <1>5, <3>1
  <2> QED
    BY <2>1, <2>2
<1> HIDE DEF more
<1>8. Explains(more, in)
  BY <1>1, <1>2, <1>5, <1>7 DEF Explains
<1> QED
  BY <1>4, <1>5, <1>8 DEF more, b, m

\* The decoder finds the byte that the text has at a + j - 1 in its output.
LEMMA SaysMatch ==
    ASSUME NEW in, NEW m \in Nat, NEW a \in m..m+N-F-1, NEW j \in 1..F,
           Text(in, (a + j) - 1) = in[m + j]
    PROVE  ((a % N) + j - 1) % N \in Nat /\ Says(((a % N) + j - 1) % N, m + j, in)
<1> DEFINE A == (a + j) - 1
           x == ((a % N) + j - 1) % N
           b == (m + N) - F - a
<1>1. N \in Nat \ {0} /\ F \in Nat /\ F + F <= N /\ F > 0 /\ j - 1 \in 0..N-1 /\ a \in Nat /\ m \in Nat
  BY Numbers
<1>2. a % N \in 0..N-1 /\ ((a % N) + j) - 1 = (a % N) + (j - 1) /\ A = a + (j - 1) /\ A \in Nat
  BY <1>1, ModRange
<1>3. x = A % N
  <2>1. ((a % N) + (j - 1)) % N = (a + (j - 1)) % N
    BY <1>1, ModAdd
  <2> QED
    BY <1>2, <2>1
<1>4. b \in 1..N-F /\ b \in 0..N-1 /\ b # 0
  BY <1>1
<1>t. Text(in, A) = in[m + j]
  OBVIOUS
<1> HIDE DEF A, x, b
<1>5. PICK q \in Nat : A = (q * N) + x /\ x \in 0..N-1
  BY <1>1, <1>2, <1>3, ModRange
<1>6. q * N \in Nat /\ (q + 1) * N = (q * N) + N /\ q + 1 \in Nat
  BY <1>1
<1>7. ((2 * N) - F) + (m + j) - 1 - x = ((q + 1) * N) + b
  BY <1>1, <1>5, <1>6 DEF A, b
<1>8. (((2 * N) - F) + (m + j) - 1 - x) % N = b
  <2>1. (((q + 1) * N) + b) % N = b
    BY <1>1, <1>4, <1>6, ModOf
  <2> QED
    BY <1>7, <2>1
<1>9. Back(x, m + j) = b
  BY <1>4, <1>8 DEF Back
<1>10. x < N /\ x \in Nat /\ ~(x >= N)
  BY <1>1, <1>5
<1>11. CASE m + j <= b
  <2>1. A < N - F
    BY <1>1, <1>11 DEF A, b
  <2>2. Text(in, A) = Space
    BY <2>1 DEF Text
  <2> QED
    BY <1>t, <1>9, <1>10, <1>11, <2>2 DEF Says, x
<1>12. CASE ~(m + j <= b)
  <2>1. ~(A < N - F) /\ (A - (N - F)) + 1 = (m + j) - b
    BY <1>1, <1>12 DEF A, b
  <2>2. Text(in, A) = in[(m + j) - b]
    BY <2>1 DEF Text
  <2> QED
    BY <1>t, <1>9, <1>10, <1>12, <2>2 DEF Says, x
<1> QED
  BY <1>11, <1>12

\* The n bytes that are ahead of m bytes are also at a in the text.
Repeats(in, m, n, a) ==
    /\ in \in Seq(Char) /\ n \in 1..F /\ m + n <= Len(in) /\ a \in m..m+N-F-1
    /\ \A j \in 0..n-1 : Text(in, a + j) = in[m + j + 1]

\* A match stands for what it repeats.
LEMMA ExplainsMatch ==
    ASSUME NEW in, NEW fr, Explains(fr, in), NEW n, NEW a, Repeats(in, Len(fr), n, a), NEW p, p = a % N
    PROVE  Explains(fr \o From(p, n), in) /\ Len(fr \o From(p, n)) = Len(fr) + n
<1> DEFINE m == Len(fr)
           new == From(p, n)
           more == fr \o new
<1>0. /\ in \in Seq(Char) /\ n \in 1..F /\ Len(fr) + n <= Len(in) /\ a \in Len(fr)..Len(fr)+N-F-1
      /\ \A j \in 0..n-1 : Text(in, a + j) = in[Len(fr) + j + 1]
  BY DEF Repeats
<1>n. new = [j \in 1..n |-> (p + j - 1) % N]
  BY DEF From
<1>1. fr \in Seq(Nat) /\ m \in Nat /\ Len(in) \in Nat /\ n \in Nat /\ \A i \in 1..m : Says(fr[i], i, in)
  BY <1>0, Numbers DEF Explains
<1>2. ASSUME NEW j \in 1..n PROVE new[j] \in Nat /\ Says(new[j], m + j, in)
  <2>1. j - 1 \in 0..n-1 /\ a + (j - 1) = (a + j) - 1 /\ m + (j - 1) + 1 = m + j /\ j \in 1..F
    BY <1>0, <1>1, Numbers
  <2>2. Text(in, (a + j) - 1) = in[m + j]
    BY <1>0, <2>1
  <2>3. ((a % N) + j - 1) % N \in Nat /\ Says(((a % N) + j - 1) % N, m + j, in)
    BY <1>0, <1>1, <2>1, <2>2, SaysMatch
  <2> QED
    BY <1>n, <2>3
<1>3. new \in Seq(Nat) /\ Len(new) = n
  <2>1. new = [j \in 1..n |-> new[j]]
    BY <1>n
  <2> HIDE DEF new
  <2> QED
    BY <1>1, <1>2, <2>1, ASequence
<1>4. more = fr \o new
  OBVIOUS
<1> HIDE DEF new, more
<1>5. /\ more \in Seq(Nat) /\ Len(more) = m + n
      /\ \A i \in 1..m+n : more[i] = IF i <= m THEN fr[i] ELSE new[i - m]
  <2>1. more \in Seq(Nat)
    <3>1. fr \o new \in Seq(Nat)
      BY <1>1, <1>3, ConcatProperties
    <3> QED
      BY <1>4, <3>1, Zenon
  <2>2. Len(more) = m + n
    <3>1. Len(fr \o new) = Len(fr) + Len(new)
      BY <1>1, <1>3, ConcatProperties
    <3> QED
      BY <1>3, <1>4, <3>1
  <2>3. ASSUME NEW i \in 1..m+n PROVE more[i] = IF i <= m THEN fr[i] ELSE new[i - m]
    BY <1>1, <1>3, <1>4
  <2> QED
    BY <2>1, <2>2, <2>3
<1> HIDE DEF m
<1>6. \A i \in 1..m+n : Says(more[i], i, in)
  <2> SUFFICES ASSUME NEW i \in 1..m+n PROVE Says(more[i], i, in)
    OBVIOUS
  <2>1. CASE i <= m
    <3>1. i \in 1..m /\ more[i] = fr[i]
      BY <1>1, <1>5, <2>1
    <3> QED
      BY <1>1, <3>1
  <2>2. CASE ~(i <= m)
    <3>0. i - m \in 1..n /\ m + (i - m) = i
      BY <1>1, <2>2
    <3>1. more[i] = new[i - m]
      BY <1>5, <2>2
    <3>2. Says(new[i - m], m + (i - m), in)
      BY <1>2, <3>0
    <3> QED
      BY <3>0, <3>1, <3>2
  <2> QED
    BY <2>1, <2>2
<1> QED
  BY <1>0, <1>1, <1>5, <1>6 DEF Explains, m, more, new

-----------------------------------------------------------------------------
(* The states of a compressor.                                            *)

\* How many bytes the window has moved.
Moved(z) == z.next - z.len

\* How far the input is read, and where the window is.
Counted(z, in) ==
    /\ in \in Seq(Char)
    /\ z.next \in 0..Len(in) /\ z.len \in 0..F /\ z.len <= z.next /\ (z.next < Len(in) => z.len = F)
    /\ z.s = Moved(z) % N /\ z.r = (Moved(z) + N - F) % N
    /\ Window(z.dict, in, Moved(z), N - F + z.next)

\* The links are those of search trees, and the trees are in order.
Trees(z) == (\E rk, B : Tree(z, rk, B)) /\ Ordered(z)

\* What holds of a compressor all the time.
Base(z, in) == z \in Compressor /\ Counted(z, in) /\ Trees(z)

\* The strings in the trees begin in the window, before r or at it.
InWindow(z) == \A x \in InTree(z) : \E a \in Moved(z)..Moved(z)+N-F : x = a % N

\* The match is with a string that begins before r.
MatchInWindow(z) ==
    z.matchLen # 0 =>
        \E a \in Moved(z)..Moved(z)+N-F-1 :
            /\ z.matchPos = a % N
            /\ \A j \in 0..z.matchLen-1 : z.dict[z.r + j] = z.dict[z.matchPos + j]

\* The strings of the window that the trees stand for: those of the input, and those
\* before it while all that begin in the F bytes before it are in the window.
StoodFor(m, a) == a >= N - F \/ m <= N - (2 * F)

\* A string that lasts as long: it begins no sooner, or in these F bytes.
Lasts(a, b) == IF a < N - F THEN b >= N - (2 * F) ELSE b >= a

\* An equal string that lasts as long is among those at T.
Held(d, T, m, top) ==
    \A a \in m..top : StoodFor(m, a) =>
        \E b \in m..top : b % N \in T /\ SameString(d, a % N, b % N) /\ Lasts(a, b)

\* The strings before r.
HeldBehind(z) == Held(z.dict, InTree(z), Moved(z), Moved(z)+N-F-1)

\* And r.
HeldInWindow(z) == Held(z.dict, InTree(z), Moved(z), Moved(z)+N-F)

\* None of the strings before r agrees with it in more bytes than the match.
Longest(z) ==
    \A a \in Moved(z)..Moved(z)+N-F-1 :
        StoodFor(Moved(z), a) => Within(z.dict, a % N, z.r, z.matchLen)

\* Of the first n strings before the input each has an equal one in the trees.
HeldSpaces(z, n) ==
    \A i \in 1..n : \E k \in 1..n : N - F - k \in InTree(z) /\ SameString(z.dict, N - F - i, N - F - k)

\* What has been coded stands for the first m bytes of the input.
CodedUpTo(out, buf, mask, in, m) ==
    \E fr :
        /\ Explains(fr, in) /\ Len(fr) = m /\ Holds(out, buf, mask, fr) /\ mask < Group
        /\ mask = 0 => buf = <<0>> /\ After(out) = [from |-> fr, flags |-> 0, left |-> 0, first |-> << >>]
        /\ mask # 0 => Len(buf) > 1

\* The compressor before a string is put in, before a code and before a move.
Filling(z, in) ==
    /\ Base(z, in) /\ z.len > 0 /\ Moved(z) = 0
    /\ z.todo \in 1..F+1
    /\ \A x \in InTree(z) : \E i \in 1..F+1-z.todo : x = N - F - i
    /\ HeldSpaces(z, F + 1 - z.todo)
    /\ CodedUpTo(z.out, z.buf, z.mask, in, 0)

\* Before a code.
Coding(z, in) ==
    /\ Base(z, in) /\ z.len > 0 /\ z.todo = 0 /\ InWindow(z) /\ MatchInWindow(z)
    /\ HeldInWindow(z) /\ Longest(z)
    /\ CodedUpTo(z.out, z.buf, z.mask, in, Moved(z))

\* Before a move.
Moving(z, in) ==
    /\ Base(z, in) /\ InWindow(z) /\ HeldInWindow(z) /\ z.todo \in 1..z.len
    /\ CodedUpTo(z.out, z.buf, z.mask, in, Moved(z) + z.todo)

\* The code stands for the whole input.
Ended(z, in) ==
    /\ in \in Seq(Char) /\ z.out \in Seq(0..Low-1)
    /\ \E fr : Explains(fr, in) /\ Len(fr) = Len(in) /\ After(z.out).from = fr

\* The same, with the types.
LEMMA CountedIs ==
    ASSUME NEW z, NEW in, Counted(z, in)
    PROVE  /\ in \in Seq(Char) /\ Len(in) \in Nat /\ \A i \in 1..Len(in) : in[i] \in 0..Low-1
           /\ z.next \in Nat /\ z.len \in Nat /\ Moved(z) \in Nat /\ Moved(z) = z.next - z.len
           /\ z.next <= Len(in) /\ z.len <= F /\ z.len <= z.next /\ (z.next < Len(in) => z.len = F)
           /\ N \in Nat \ {0} /\ F \in Nat /\ F > 0 /\ F + F <= N /\ N - F \in Nat
           /\ z.s = Moved(z) % N /\ z.r = (Moved(z) + (N - F)) % N
           /\ Moved(z) + (N - F) \in Nat /\ N - F + z.next \in Nat
           /\ Window(z.dict, in, Moved(z), N - F + z.next)
<1>1. /\ in \in Seq(Char)
      /\ z.next \in 0..Len(in) /\ z.len \in 0..F /\ z.len <= z.next /\ (z.next < Len(in) => z.len = F)
      /\ z.s = Moved(z) % N /\ z.r = (Moved(z) + N - F) % N
      /\ Window(z.dict, in, Moved(z), N - F + z.next)
  BY DEF Counted
<1>2. Len(in) \in Nat /\ \A i \in 1..Len(in) : in[i] \in Char
  BY <1>1
<1>3. N \in Nat \ {0} /\ F \in Nat /\ F > 0 /\ F + F <= N /\ N - F \in Nat /\ Char \subseteq 0..Low-1
  BY Numbers
<1>4. z.next \in Nat /\ z.len \in Nat /\ Moved(z) \in Nat /\ Moved(z) = z.next - z.len
  <2>1. z.next \in Nat /\ z.len \in Nat
    BY <1>1, <1>2, <1>3
  <2>2. z.next - z.len \in Nat
    BY <1>1, <2>1
  <2> QED
    BY <2>1, <2>2 DEF Moved
<1>5. /\ Moved(z) + N - F = Moved(z) + (N - F) /\ Moved(z) + (N - F) \in Nat
      /\ N - F + z.next \in Nat
  BY <1>3, <1>4
<1>6. \A i \in 1..Len(in) : in[i] \in 0..Low-1
  BY <1>2, <1>3
<1> QED
  BY <1>1, <1>2, <1>3, <1>4, <1>5, <1>6

\* Only the steps that are left are others.
WithTodo(y, k) == [y EXCEPT !.todo = k]

\* The same, field by field.
LEMMA TodoIs ==
    ASSUME NEW y \in Compressor, NEW k \in Nat, NEW x, x = WithTodo(y, k)
    PROVE  /\ x \in Compressor /\ x.todo = k /\ x.dict = y.dict /\ x.r = y.r /\ x.s = y.s
           /\ x.len = y.len /\ x.next = y.next
           /\ x.buf = y.buf /\ x.mask = y.mask /\ x.out = y.out
           /\ x.lson = y.lson /\ x.rson = y.rson /\ x.parent = y.parent
           /\ x.matchPos = y.matchPos /\ x.matchLen = y.matchLen
BY DEF WithTodo, Compressor

\* What is said of the text holds of a compressor with the same text.
LEMMA SameTextKeeps ==
    ASSUME NEW y, NEW z, NEW in, Counted(z, in), y.dict = z.dict, y.r = z.r, y.s = z.s,
           y.len = z.len, y.next = z.next
    PROVE  Counted(y, in) /\ Moved(y) = Moved(z)
BY DEF Counted, Moved

\* What is said of the trees holds of a compressor with the same links.
LEMMA SameTreesKeep ==
    ASSUME NEW y, NEW z, Trees(z), y.dict = z.dict, y.lson = z.lson, y.rson = z.rson, y.parent = z.parent
    PROVE  Trees(y) /\ InTree(y) = InTree(z)
BY DEF Trees, Tree, InTree, Ordered

\* What is said of the strings that the trees stand for holds of a compressor with the same
\* text and the same links.
LEMMA SameHeldKeep ==
    ASSUME NEW y, NEW z, y.dict = z.dict, Moved(y) = Moved(z), InTree(y) = InTree(z)
    PROVE  HeldInWindow(z) => HeldInWindow(y)
BY DEF HeldInWindow

\* t is put in: it takes the place of an equal string at most, and no string agrees with
\* it in more bytes than the match.
TakenIn(y, z, t) ==
    /\ t \in InTree(y)
    /\ \A x \in InTree(z) : x \in InTree(y) \/ SameString(z.dict, x, t)
    /\ \A x \in InTree(z) : Within(z.dict, x, t, y.matchLen)

\* A string is put in: the trees have it, and the match is with another of them.
LEMMA PutIn ==
    ASSUME NEW z, NEW in, Base(z, in), NEW t \in Strings, t \notin InTree(z), z.dict[t] \in Char,
           NEW y, y = InsertNode(z, t, Way(z, t))
    PROVE  /\ Base(y, in) /\ SameText(y, z) /\ Moved(y) = Moved(z)
           /\ \A x \in InTree(y) : x \in InTree(z) \/ x = t
           /\ Matched(y, z, t) /\ TakenIn(y, z, t)
<1>1. z \in Compressor /\ Counted(z, in) /\ Trees(z)
  BY DEF Base
<1>2. PICK rk, B : Tree(z, rk, B)
  BY <1>1 DEF Trees
<1> DEFINE way == Way(z, t)
<1>3. way = Way(z, t) /\ y = InsertNode(z, t, way)
  OBVIOUS
<1> HIDE DEF way
<1>4. /\ y \in Compressor /\ SameText(y, z)
      /\ \E k2, B2 : Tree(y, k2, B2)
      /\ t \in InTree(y) /\ InTree(y) \subseteq InTree(z) \union {t}
      /\ Matched(y, z, t)
  BY <1>1, <1>2, <1>3, InsertIs
<1>5. Counted(y, in) /\ Moved(y) = Moved(z)
  BY <1>1, <1>4, SameTextKeeps DEF SameText
<1>6. Ordered(z)
  BY <1>1 DEF Trees
<1>7. /\ Ordered(y)
      /\ \A x \in InTree(z) : x \in InTree(y) \/ SameString(z.dict, x, t)
      /\ \A x \in InTree(z) : Within(z.dict, x, t, y.matchLen)
  BY <1>1, <1>2, <1>3, <1>6, InsertOrder
<1>8. TakenIn(y, z, t)
  BY <1>4, <1>7 DEF TakenIn
<1> QED
  BY <1>4, <1>5, <1>7, <1>8 DEF Base, Trees

\* A byte that the text has in the window.
LEMMA WindowByte ==
    ASSUME NEW d, NEW in, NEW n \in Nat, NEW e \in Nat, Window(d, in, n, e),
           NEW a \in Nat, n <= a, a < e
    PROVE  d[a % N] = Text(in, a)
<1>1. a \in n..e-1
  OBVIOUS
<1> QED
  BY <1>1 DEF Window

\* What is ahead is in the text.
LEMMA Ahead ==
    ASSUME NEW z, NEW in, Counted(z, in), z.len > 0
    PROVE  /\ z.dict[z.r] = in[Moved(z) + 1] /\ Moved(z) < Len(in) /\ Moved(z) + 1 \in 1..Len(in)
           /\ z.dict[z.r] \in Char /\ z.dict[z.r] \in 0..Low-1 /\ z.r \in Strings
<1>1. /\ in \in Seq(Char) /\ Len(in) \in Nat /\ \A i \in 1..Len(in) : in[i] \in 0..Low-1
      /\ z.next \in Nat /\ z.len \in Nat /\ Moved(z) \in Nat /\ Moved(z) = z.next - z.len
      /\ z.next <= Len(in) /\ z.len <= F /\ z.len <= z.next
      /\ N \in Nat \ {0} /\ F \in Nat /\ F > 0 /\ N - F \in Nat
      /\ z.r = (Moved(z) + (N - F)) % N
      /\ Moved(z) + (N - F) \in Nat /\ N - F + z.next \in Nat
      /\ Window(z.dict, in, Moved(z), N - F + z.next)
  BY CountedIs
<1> DEFINE m == Moved(z)
           a == m + (N - F)
<1> HIDE DEF m
<1>2. m \in Nat /\ a \in Nat /\ m <= a /\ a < N - F + z.next /\ m < Len(in) /\ m + 1 \in 1..Len(in)
  <2>1. m \in Nat /\ m = z.next - z.len /\ z.next \in Nat /\ z.len \in Nat /\ Len(in) \in Nat
        /\ z.next <= Len(in) /\ z.len > 0 /\ N - F \in Nat
    BY <1>1 DEF m
  <2>2. m < z.next
    BY <2>1
  <2>3. m < Len(in)
    BY <2>1, <2>2
  <2>4. m + 1 \in 1..Len(in)
    BY <2>1, <2>3
  <2>5. a \in Nat /\ m <= a /\ a < N - F + z.next
    BY <2>1, <2>2
  <2> QED
    BY <2>1, <2>3, <2>4, <2>5
<1>3. ~(a < N - F) /\ (a - (N - F)) + 1 = m + 1
  BY <1>1, <1>2
<1>4. z.dict[a % N] = Text(in, a)
  <2> HIDE DEF a
  <2>1. Window(z.dict, in, m, N - F + z.next) /\ N - F + z.next \in Nat
    BY <1>1 DEF m
  <2> QED
    BY <1>2, <2>1, WindowByte
<1>5. Text(in, a) = in[m + 1]
  BY <1>3 DEF Text
<1>6. a % N \in Strings
  BY <1>1, <1>2, ModRange DEF Strings
<1>7. in[m + 1] \in Char
  BY <1>1, <1>2
<1> QED
  BY <1>1, <1>2, <1>4, <1>5, <1>6, <1>7 DEF m

\* Where r is before the window moves.
LEMMA AtStart ==
    ASSUME NEW z, NEW in, Counted(z, in), Moved(z) = 0
    PROVE  z.r = N - F /\ N - F \in 0..N-1
<1>1. /\ N \in Nat \ {0} /\ F \in Nat /\ F > 0 /\ F + F <= N /\ N - F \in Nat
      /\ z.r = (Moved(z) + (N - F)) % N
  BY CountedIs
<1>2. N - F \in 0..N-1 /\ Moved(z) + (N - F) = N - F
  BY <1>1
<1>3. (N - F) % N = N - F
  BY <1>1, <1>2, ModSmall
<1> QED
  BY <1>1, <1>2, <1>3

\* Equal strings have the same equal strings.
LEMMA SameTwice ==
    ASSUME NEW d, NEW x, NEW y, NEW w, SameString(d, x, y), SameString(d, y, w)
    PROVE  SameString(d, x, w)
BY DEF SameString

\* When a string of spaces more is put in, an equal string is there for each.
LEMMA SpacesMore ==
    ASSUME NEW z, NEW y, y.dict = z.dict, NEW i \in Nat \ {0}, HeldSpaces(z, i - 1),
           NEW t, t = N - F - i, t \in InTree(y),
           \A x \in InTree(z) : x \in InTree(y) \/ SameString(z.dict, x, t)
    PROVE  HeldSpaces(y, i)
<1>1. SUFFICES ASSUME NEW g \in 1..i
               PROVE  \E k \in 1..i : N - F - k \in InTree(y) /\ SameString(y.dict, N - F - g, N - F - k)
  BY DEF HeldSpaces
<1>2. i \in 1..i
  OBVIOUS
<1>3. CASE g = i
  <2>1. SameString(y.dict, N - F - g, N - F - i)
    BY <1>3 DEF SameString
  <2> QED
    BY <1>2, <2>1
<1>4. CASE g # i
  <2>1. g \in 1..i-1
    BY <1>4
  <2>2. PICK k \in 1..i-1 : N - F - k \in InTree(z) /\ SameString(z.dict, N - F - g, N - F - k)
    BY <2>1 DEF HeldSpaces
  <2>3. CASE N - F - k \in InTree(y)
    <3>1. k \in 1..i
      OBVIOUS
    <3> QED
      BY <2>2, <2>3, <3>1
  <2>4. CASE SameString(z.dict, N - F - k, t)
    <3>1. SameString(z.dict, N - F - g, t)
      BY <2>2, <2>4, SameTwice
    <3> QED
      BY <1>2, <3>1
  <2> QED
    BY <2>2, <2>3, <2>4
<1> QED
  BY <1>3, <1>4

\* A string of spaces is put in.
LEMMA FillSpace ==
    ASSUME NEW z, NEW in, Filling(z, in), z.todo > 1,
           NEW t, t = ToFill(z), NEW y, y = WithTodo(InsertNode(z, t, Way(z, t)), z.todo - 1)
    PROVE  Filling(y, in)
<1>1. /\ Base(z, in) /\ z.len > 0 /\ Moved(z) = 0 /\ z.todo \in 1..F+1
      /\ \A x \in InTree(z) : \E i \in 1..F+1-z.todo : x = N - F - i
      /\ HeldSpaces(z, F + 1 - z.todo)
      /\ CodedUpTo(z.out, z.buf, z.mask, in, 0)
      /\ z \in Compressor /\ Counted(z, in)
  BY DEF Filling, Base
<1>2. /\ N \in Nat \ {0} /\ F \in Nat /\ F > 0 /\ F + F <= N /\ N - F \in Nat
      /\ z.next \in Nat /\ N - F + z.next \in Nat
      /\ Window(z.dict, in, Moved(z), N - F + z.next)
  BY <1>1, CountedIs
<1>3. z.r = N - F
  BY <1>1, AtStart
<1> DEFINE i == (F + 2) - z.todo
<1>4. i \in 1..F /\ z.todo - 1 \in 1..F+1 /\ z.todo - 1 \in Nat /\ (F + 1) - (z.todo - 1) = i
      /\ (F + 1) - z.todo = i - 1
  BY <1>1, <1>2
<1>5. t = (N - F) - i
  BY <1>1, <1>2, <1>3 DEF ToFill
<1> HIDE DEF i
<1>6. t \in 0..N-1 /\ t \in Nat /\ t < N - F
  BY <1>2, <1>4, <1>5
<1>7. z.dict[t] = Space
  <2>1. t % N = t
    BY <1>2, <1>6, ModSmall
  <2>2. t < N - F + z.next /\ 0 <= t
    BY <1>2, <1>6
  <2>3. z.dict[t % N] = Text(in, t)
    BY <1>1, <1>2, <1>6, <2>2, WindowByte
  <2> QED
    BY <1>6, <2>1, <2>3 DEF Text
<1>8. t \notin InTree(z)
  <2> SUFFICES ASSUME t \in InTree(z) PROVE FALSE
    OBVIOUS
  <2>1. PICK g \in 1..F+1-z.todo : t = N - F - g
    BY <1>1
  <2> QED
    BY <1>1, <1>2, <1>4, <1>5, <2>1
<1>9. t \in Strings /\ z.dict[t] \in Char
  BY <1>6, <1>7, Numbers DEF Strings
<1> DEFINE x == InsertNode(z, t, Way(z, t))
           k == z.todo - 1
<1>10. x = InsertNode(z, t, Way(z, t))
  OBVIOUS
<1>k. k \in Nat /\ k = z.todo - 1
  BY <1>4
<1> HIDE DEF x, k
<1>11. /\ Base(x, in) /\ SameText(x, z) /\ Moved(x) = Moved(z)
       /\ \A g \in InTree(x) : g \in InTree(z) \/ g = t
       /\ TakenIn(x, z, t)
  BY <1>1, <1>8, <1>9, <1>10, PutIn
<1>12. y = WithTodo(x, k) /\ x \in Compressor /\ Counted(x, in) /\ Trees(x)
  BY <1>10, <1>11, <1>k DEF Base
<1>13. /\ y \in Compressor /\ y.todo = k /\ y.dict = x.dict /\ y.r = x.r /\ y.s = x.s
       /\ y.len = x.len /\ y.next = x.next
       /\ y.buf = x.buf /\ y.mask = x.mask /\ y.out = x.out
       /\ y.lson = x.lson /\ y.rson = x.rson /\ y.parent = x.parent
  BY SMTT(30), <1>12, <1>k, TodoIs
<1>14. Counted(y, in) /\ Moved(y) = Moved(x)
  BY <1>12, <1>13, SameTextKeeps
<1>15. Trees(y) /\ InTree(y) = InTree(x)
  BY <1>12, <1>13, SameTreesKeep
<1>16. \A g \in InTree(y) : \E h \in 1..F+1-y.todo : g = N - F - h
  <2> SUFFICES ASSUME NEW g \in InTree(y) PROVE \E h \in 1..i : g = N - F - h
    <3>1. F + 1 - y.todo = i
      BY <1>1, <1>2, <1>4, <1>13, <1>k
    <3> QED
      BY <3>1
  <2>1. CASE g = t
    BY <1>2, <1>4, <1>5, <2>1
  <2>2. CASE g # t
    <3>1. g \in InTree(z)
      BY <1>11, <1>15, <2>2
    <3>2. PICK h \in 1..F+1-z.todo : g = N - F - h
      BY <1>1, <3>1
    <3>3. h \in 1..i
      BY <1>1, <1>2, <1>4, <3>2
    <3> QED
      BY <3>2, <3>3
  <2> QED
    BY <2>1, <2>2
<1>17. y.out = z.out /\ y.buf = z.buf /\ y.mask = z.mask /\ y.len = z.len
  BY <1>11, <1>13 DEF SameText
<1>18. CodedUpTo(y.out, y.buf, y.mask, in, 0)
  BY <1>1, <1>17
<1>19. Base(y, in)
  BY <1>13, <1>14, <1>15 DEF Base
<1>h. HeldSpaces(y, F + 1 - y.todo)
  <2>1. i \in Nat \ {0} /\ HeldSpaces(z, i - 1) /\ t = N - F - i
    BY <1>1, <1>2, <1>4, <1>5
  <2>2. y.dict = z.dict
    BY <1>11, <1>13 DEF SameText
  <2>3. /\ t \in InTree(y)
        /\ \A g \in InTree(z) : g \in InTree(y) \/ SameString(z.dict, g, t)
    BY <1>11, <1>15 DEF TakenIn
  <2>4. HeldSpaces(y, i)
    BY <2>1, <2>2, <2>3, SpacesMore
  <2>5. F + 1 - y.todo = i
    BY <1>1, <1>2, <1>4, <1>13, <1>k
  <2> QED
    BY <2>4, <2>5
<1>20. Filling(y, in)
  BY <1>h, <1>k, <1>1, <1>4, <1>11, <1>13, <1>14, <1>16, <1>17, <1>18, <1>19 DEF Filling
<1> QED
  BY <1>20

\* The strings in the trees begin in the window before r.
Behind(z) == \A x \in InTree(z) : \E a \in Moved(z)..Moved(z)+N-F-1 : x = a % N

\* When the string behind the others is put in, an equal string is still there for each.
LEMMA HeldMore ==
    ASSUME NEW d, NEW T, NEW m \in Nat, NEW a \in Nat, a = m + (N - F), Held(d, T, m, a - 1),
           NEW t, t = a % N, NEW U, t \in U, \A x \in T : x \in U \/ SameString(d, x, t)
    PROVE  Held(d, U, m, a)
<1>0. /\ N \in Nat /\ F \in Nat /\ F + F <= N
      /\ m <= a /\ a >= N - F /\ a >= N - (2 * F)
  BY Numbers
<1>1. SUFFICES ASSUME NEW b \in m..a, StoodFor(m, b)
               PROVE  \E c \in m..a : c % N \in U /\ SameString(d, b % N, c % N) /\ Lasts(b, c)
  BY DEF Held
<1>2. a \in m..a /\ b <= a
  BY <1>0
<1>3. Lasts(b, a)
  BY <1>0, <1>2 DEF Lasts
<1>4. CASE b = a
  <2>1. SameString(d, b % N, a % N)
    BY <1>4 DEF SameString
  <2> QED
    BY <1>2, <1>3, <2>1
<1>5. CASE b # a
  <2>1. b \in m..a-1
    BY <1>0, <1>5
  <2>2. PICK c \in m..a-1 : c % N \in T /\ SameString(d, b % N, c % N) /\ Lasts(b, c)
    BY <1>1, <2>1 DEF Held
  <2>3. CASE c % N \in U
    <3>1. c \in m..a
      BY <1>0
    <3> QED
      BY <2>2, <2>3, <3>1
  <2>4. CASE SameString(d, c % N, t)
    <3>1. SameString(d, b % N, a % N)
      BY <2>2, <2>4, SameTwice
    <3> QED
      BY <1>2, <1>3, <3>1
  <2> QED
    BY <2>2, <2>3, <2>4
<1> QED
  BY <1>4, <1>5

\* The bytes of the strings that begin behind m are the same in e.
SameBehind(d, e, m, top) ==
    \A a \in m+1..top : \A j \in 0..F-1 : e[(a % N) + j] = d[(a % N) + j]

\* When the window moves on, an equal string is still there for each that is behind m.
LEMMA HeldOn ==
    ASSUME NEW d, NEW e, NEW T, NEW m \in Nat, NEW top \in Nat, top < m + N, Held(d, T, m, top),
           SameBehind(d, e, m, top), NEW U, \A x \in T : x # m % N => x \in U
    PROVE  Held(e, U, m + 1, top)
<1>0. N \in Nat \ {0} /\ F \in Nat
  BY Numbers
<1>1. SUFFICES ASSUME NEW a \in m+1..top, StoodFor(m + 1, a)
               PROVE  \E b \in m+1..top : b % N \in U /\ SameString(e, a % N, b % N) /\ Lasts(a, b)
  BY DEF Held
<1>2. a \in m..top /\ a > m /\ a \in Nat
  OBVIOUS
<1>3. StoodFor(m, a) /\ (a < N - F => m + 1 <= N - (2 * F))
  BY <1>0, <1>1 DEF StoodFor
<1>4. PICK b \in m..top : b % N \in T /\ SameString(d, a % N, b % N) /\ Lasts(a, b)
  BY <1>2, <1>3 DEF Held
<1>5. b > m
  BY <1>0, <1>2, <1>3, <1>4 DEF Lasts
<1>6. b \in m+1..top /\ b \in Nat /\ m <= b /\ b < m + N /\ b # m
  BY <1>0, <1>5
<1>7. b % N # m % N
  BY <1>0, <1>6, ModUnique
<1>8. SameString(e, a % N, b % N)
  <2>1. \A j \in 0..F-1 : e[(a % N) + j] = d[(a % N) + j]
    BY DEF SameBehind
  <2>2. \A j \in 0..F-1 : e[(b % N) + j] = d[(b % N) + j]
    BY <1>6 DEF SameBehind
  <2> QED
    BY <1>4, <2>1, <2>2 DEF SameString
<1> QED
  BY <1>4, <1>6, <1>7, <1>8

\* A string that no string of the trees agrees with in more than n bytes has none among
\* those that they stand for.
LEMMA HeldWithin ==
    ASSUME NEW d, NEW T, NEW m, NEW top, Held(d, T, m, top), NEW r, NEW n \in Nat,
           \A x \in T : Within(d, x, r, n), NEW a \in m..top, StoodFor(m, a)
    PROVE  Within(d, a % N, r, n)
<1>1. PICK b \in m..top : b % N \in T /\ SameString(d, a % N, b % N)
  BY DEF Held
<1>2. SameString(d, b % N, a % N)
  BY <1>1 DEF SameString
<1> QED
  BY <1>1, <1>2, SameWithin

\* The string that is coded next is put in.
LEMMA PutAhead ==
    ASSUME NEW z, NEW in, Base(z, in), z.len > 0, z.r \notin InTree(z), Behind(z), HeldBehind(z),
           NEW y, y = InsertNode(z, z.r, Way(z, z.r))
    PROVE  /\ Base(y, in) /\ SameText(y, z) /\ Moved(y) = Moved(z)
           /\ InWindow(y) /\ MatchInWindow(y) /\ HeldInWindow(y) /\ Longest(y)
<1>1. z \in Compressor /\ Counted(z, in)
  BY DEF Base
<1>2. z.dict[z.r] \in Char /\ z.r \in Strings
  BY <1>1, Ahead
<1>3. /\ Base(y, in) /\ SameText(y, z) /\ Moved(y) = Moved(z)
      /\ \A x \in InTree(y) : x \in InTree(z) \/ x = z.r
      /\ Matched(y, z, z.r) /\ TakenIn(y, z, z.r)
  BY <1>2, PutIn
<1>4. /\ Moved(z) \in Nat /\ N - F \in Nat /\ F \in Nat /\ N \in Nat
      /\ z.r = (Moved(z) + (N - F)) % N
  BY <1>1, CountedIs
<1> DEFINE m == Moved(z)
<1>m. m \in Nat /\ Moved(y) = m /\ m = Moved(z) /\ z.r = (m + (N - F)) % N
  BY <1>3, <1>4
<1>b. \A x \in InTree(z) : \E a \in m..m+N-F-1 : x = a % N
  BY DEF Behind
<1> HIDE DEF m
<1>5. ASSUME NEW x \in InTree(y) PROVE \E a \in m..m+N-F : x = a % N
  <2>1. CASE x = z.r
    <3>1. m + (N - F) \in m..m+N-F
      BY <1>4, <1>m
    <3> QED
      BY <1>m, <2>1, <3>1
  <2>2. CASE x # z.r
    <3>1. PICK a \in m..m+N-F-1 : x = a % N
      BY <1>3, <1>b, <2>2
    <3>2. a \in m..m+N-F
      BY <1>4, <1>m
    <3> QED
      BY <3>1, <3>2
  <2> QED
    BY <2>1, <2>2
<1>6. InWindow(y)
  BY <1>5, <1>m DEF InWindow
<1>7. MatchInWindow(y)
  <2> SUFFICES ASSUME y.matchLen # 0
               PROVE  \E a \in m..m+N-F-1 :
                         /\ y.matchPos = a % N
                         /\ \A j \in 0..y.matchLen-1 : y.dict[y.r + j] = y.dict[y.matchPos + j]
    BY <1>m DEF MatchInWindow
  <2>1. y.matchPos \in InTree(z) /\ \A j \in 0..y.matchLen-1 : z.dict[z.r + j] = z.dict[y.matchPos + j]
    BY <1>3 DEF Matched
  <2>2. y.dict = z.dict /\ y.r = z.r
    BY <1>3 DEF SameText
  <2> QED
    BY <1>b, <2>1, <2>2
<1>h. Held(z.dict, InTree(z), m, m+N-F-1)
  BY <1>m DEF HeldBehind
<1>d. /\ y.dict = z.dict /\ y.r = z.r /\ y.matchLen \in Nat
      /\ z.r \in InTree(y)
      /\ \A x \in InTree(z) : x \in InTree(y) \/ SameString(z.dict, x, z.r)
      /\ \A x \in InTree(z) : Within(z.dict, x, z.r, y.matchLen)
  <2>1. y.matchLen \in Nat
    <3>1. y \in Compressor
      BY <1>3 DEF Base
    <3> QED
      BY <3>1, Numbers DEF Compressor
  <2> QED
    BY <1>3, <2>1 DEF SameText, TakenIn
<1>8. HeldInWindow(y)
  <2> DEFINE a == m + (N - F)
  <2>1. a \in Nat /\ a = m + (N - F) /\ m+N-F-1 = a - 1 /\ m+N-F = a
    BY <1>4, <1>m
  <2> HIDE DEF a
  <2>2. Held(z.dict, InTree(z), m, a - 1) /\ z.r = a % N
    BY <1>h, <1>m, <2>1
  <2>3. Held(z.dict, InTree(y), m, a)
    BY <1>d, <1>m, <2>1, <2>2, HeldMore
  <2> QED
    BY <1>d, <1>m, <2>1, <2>3 DEF HeldInWindow
<1>9. Longest(y)
  <2> SUFFICES ASSUME NEW a \in m..m+N-F-1, StoodFor(m, a) PROVE Within(z.dict, a % N, z.r, y.matchLen)
    BY <1>d, <1>m DEF Longest
  <2> QED
    BY <1>d, <1>h, HeldWithin
<1> QED
  BY <1>3, <1>6, <1>7, <1>8, <1>9

\* When all strings of spaces are put in, an equal string is there for each before the input.
LEMMA SpacesHeld ==
    ASSUME NEW z, NEW in, Counted(z, in), Moved(z) = 0, HeldSpaces(z, F)
    PROVE  HeldBehind(z)
<1>0. /\ N \in Nat \ {0} /\ F \in Nat /\ F > 0 /\ F + F <= N /\ N - F \in Nat
      /\ z.next \in Nat /\ N - F + z.next \in Nat
      /\ Window(z.dict, in, 0, N - F + z.next)
  BY CountedIs
<1>1. SUFFICES ASSUME NEW a \in 0..N-F-1
               PROVE  \E b \in 0..N-F-1 : /\ b % N \in InTree(z) /\ SameString(z.dict, a % N, b % N)
                                          /\ Lasts(a, b)
  <2>1. 0+N-F-1 = N-F-1
    BY <1>0
  <2> QED
    BY <1>1, <2>1 DEF HeldBehind, Held
<1>2. ASSUME NEW b \in 0..N-F-1 PROVE b % N = b /\ b \in 0..N-1
  <2>1. b \in 0..N-1
    BY <1>0
  <2> QED
    BY <1>0, <2>1, ModSmall
<1>3. \E i \in 1..F : SameString(z.dict, a, N - F - i)
  <2>1. CASE a >= N - (2 * F)
    <3>1. N - F - a \in 1..F /\ N - F - (N - F - a) = a
      BY <1>0, <2>1
    <3>2. SameString(z.dict, a, a)
      BY DEF SameString
    <3> QED
      BY <3>1, <3>2
  <2>2. CASE a < N - (2 * F)
    <3>1. F \in 1..F /\ N - F - F \in Nat /\ N - F - F + F = N - F
      BY <1>0
    <3>2. ASSUME NEW x \in 0..N-F-1 PROVE z.dict[x] = Space
      <4>1. x < N - F + z.next /\ x < N - F /\ x \in Nat /\ 0 <= x /\ x % N = x
        BY <1>0, <1>2
      <4>2. z.dict[x % N] = Text(in, x)
        BY <1>0, <4>1, WindowByte
      <4> QED
        BY <4>1, <4>2 DEF Text
    <3>3. ASSUME NEW j \in 0..F-1 PROVE z.dict[a + j] = z.dict[(N - F - F) + j]
      <4>1. a + j \in 0..N-F-1
        BY <1>0, <2>2
      <4>2. (N - F - F) + j \in 0..N-F-1
        BY <1>0, <3>1
      <4> QED
        BY <3>2, <4>1, <4>2
    <3>4. SameString(z.dict, a, N - F - F)
      BY <3>3 DEF SameString
    <3> QED
      BY <3>1, <3>4
  <2> QED
    BY <1>0, <2>1, <2>2
<1>4. PICK i \in 1..F : SameString(z.dict, a, N - F - i)
  BY <1>3
<1>5. PICK k \in 1..F : N - F - k \in InTree(z) /\ SameString(z.dict, N - F - i, N - F - k)
  BY DEF HeldSpaces
<1> DEFINE b == N - F - k
<1>6. b \in 0..N-F-1 /\ Lasts(a, b)
  BY <1>0 DEF Lasts
<1>7. b \in InTree(z) /\ SameString(z.dict, a, b)
  BY <1>4, <1>5, SameTwice
<1> HIDE DEF b
<1>8. a % N = a /\ b % N = b
  BY <1>2, <1>6
<1> QED
  BY <1>6, <1>7, <1>8

\* The string that is coded first is put in.
LEMMA FillLast ==
    ASSUME NEW z, NEW in, Filling(z, in), z.todo = 1,
           NEW y, y = WithTodo(InsertNode(z, z.r, Way(z, z.r)), 0)
    PROVE  Coding(y, in)
<1>1. /\ Base(z, in) /\ z.len > 0 /\ Moved(z) = 0 /\ z.todo \in 1..F+1
      /\ \A x \in InTree(z) : \E i \in 1..F+1-z.todo : x = N - F - i
      /\ HeldSpaces(z, F + 1 - z.todo)
      /\ CodedUpTo(z.out, z.buf, z.mask, in, 0)
      /\ z \in Compressor /\ Counted(z, in)
  BY DEF Filling, Base
<1>2. /\ N \in Nat \ {0} /\ F \in Nat /\ F > 0 /\ F + F <= N /\ N - F \in Nat
  BY <1>1, CountedIs
<1>3. z.r = N - F
  BY <1>1, AtStart
<1>4. \A x \in InTree(z) : \E i \in 1..F : x = N - F - i
  BY <1>1, <1>2
<1>5. z.r \notin InTree(z)
  BY <1>2, <1>3, <1>4
<1>6. Behind(z)
  <2> SUFFICES ASSUME NEW x \in InTree(z) PROVE \E a \in 0..0+N-F-1 : x = a % N
    BY <1>1 DEF Behind
  <2>1. PICK i \in 1..F : x = N - F - i
    BY <1>4
  <2>2. x \in 0..0+N-F-1 /\ x \in 0..N-1
    BY <1>2, <2>1
  <2>3. x % N = x
    BY <1>2, <2>2, ModSmall
  <2> QED
    BY <2>2, <2>3
<1>h. HeldBehind(z)
  <2>1. F + 1 - z.todo = F
    BY <1>2
  <2> QED
    BY <1>1, <2>1, SpacesHeld
<1> DEFINE x == InsertNode(z, z.r, Way(z, z.r))
<1>7. x = InsertNode(z, z.r, Way(z, z.r)) /\ y = WithTodo(x, 0)
  OBVIOUS
<1> HIDE DEF x
<1>8. /\ Base(x, in) /\ SameText(x, z) /\ Moved(x) = Moved(z) /\ InWindow(x) /\ MatchInWindow(x)
      /\ HeldInWindow(x) /\ Longest(x)
  BY <1>1, <1>5, <1>6, <1>7, <1>h, PutAhead
<1>9. x \in Compressor /\ Counted(x, in) /\ Trees(x)
  BY <1>8 DEF Base
<1>10. /\ y \in Compressor /\ y.todo = 0 /\ y.dict = x.dict /\ y.r = x.r /\ y.s = x.s
       /\ y.len = x.len /\ y.next = x.next
       /\ y.buf = x.buf /\ y.mask = x.mask /\ y.out = x.out
       /\ y.lson = x.lson /\ y.rson = x.rson /\ y.parent = x.parent
       /\ y.matchPos = x.matchPos /\ y.matchLen = x.matchLen
  BY <1>7, <1>9, TodoIs
<1>11. Counted(y, in) /\ Moved(y) = Moved(x)
  BY <1>9, <1>10, SameTextKeeps
<1>12. Trees(y) /\ InTree(y) = InTree(x)
  BY <1>9, <1>10, SameTreesKeep
<1>13. InWindow(y) /\ MatchInWindow(y)
  BY <1>8, <1>10, <1>11, <1>12 DEF InWindow, MatchInWindow
<1>k. HeldInWindow(y) /\ Longest(y)
  <2>1. HeldInWindow(y)
    BY <1>8, <1>10, <1>11, <1>12, SameHeldKeep
  <2>2. Longest(y)
    BY <1>8, <1>10, <1>11 DEF Longest
  <2> QED
    BY <2>1, <2>2
<1>14. y.out = z.out /\ y.buf = z.buf /\ y.mask = z.mask /\ y.len = z.len /\ Moved(y) = 0
  BY <1>1, <1>8, <1>10, <1>11 DEF SameText
<1> QED
  BY <1>1, <1>10, <1>11, <1>12, <1>13, <1>14, <1>k DEF Coding, Base

\* Nothing is coded and nothing is in the trees at first.
LEMMA CompressIs ==
    ASSUME NEW in \in Seq(Char), in # << >>, NEW g \in [Unset(in) -> Nat], NEW z, z = Compress(in, g)
    PROVE  Filling(z, in)
<1> DEFINE read == Least(F, Len(in))
           r == N - F
           dict == [x \in 0..N+F-2 |-> IF x < r THEN Space ELSE IF x < r + read THEN in[x - r + 1] ELSE g[x]]
           lson == [x \in 0..N-1 |-> NIL]
           rson == [x \in (0..N-1) \union {Root(c) : c \in Char} |-> NIL]
           parent == [x \in 0..N |-> NIL]
<1>0. /\ N \in Nat \ {0} /\ F \in Nat /\ F > 0 /\ F + F <= N /\ N - F \in Nat /\ N - F \in 0..N-1
      /\ Char \subseteq 0..Low-1 /\ Low \in Nat /\ Low > 0 /\ Group \in Nat /\ Group > 0 /\ Space \in Char
  BY Numbers
<1>1. Len(in) \in Nat /\ Len(in) > 0 /\ \A i \in 1..Len(in) : in[i] \in Char /\ in[i] \in Nat
  <2>1. Len(in) \in Nat /\ Len(in) > 0 /\ \A i \in 1..Len(in) : in[i] \in Char
    OBVIOUS
  <2>2. \A b \in Char : b \in Nat
    BY <1>0
  <2> QED
    BY <2>1, <2>2
<1>2. read \in 1..F /\ read \in 0..Len(in) /\ read <= Len(in) /\ (read < Len(in) => read = F) /\ read \in Nat
  BY <1>0, <1>1 DEF Least
<1>3. dict \in [0..N+F-2 -> Nat]
  <2> SUFFICES ASSUME NEW x \in 0..N+F-2 PROVE dict[x] \in Nat
    OBVIOUS
  <2>1. CASE x < r
    BY <1>0, <2>1
  <2>2. CASE ~(x < r) /\ x < r + read
    <3>1. x - r + 1 \in 1..Len(in)
      BY <1>0, <1>1, <1>2, <2>2
    <3> QED
      BY <1>1, <2>2, <3>1
  <2>3. CASE ~(x < r) /\ ~(x < r + read)
    <3>1. x \in Unset(in)
      BY <1>0, <1>2, <2>3 DEF Unset
    <3> QED
      BY <2>3, <3>1
  <2> QED
    BY <2>1, <2>2, <2>3
<1>4. ASSUME NEW a \in 0..N-F+read-1 PROVE dict[a] = Text(in, a) /\ a < N /\ a \in 0..N-1
  <2>1. a \in 0..N+F-2 /\ a < N /\ a \in 0..N-1 /\ a < r + read
    BY <1>0, <1>2
  <2> QED
    BY <2>1 DEF Text
<1>5. lson \in [Strings -> Strings \union {NIL}] /\ lson = [x \in Strings |-> NIL]
  BY DEF Strings
<1>6. /\ rson \in [Strings \union Roots -> Strings \union {NIL}]
      /\ rson = [x \in Strings \union Roots |-> NIL]
  BY DEF Strings, Roots
<1>7. /\ parent \in [Strings \union {NIL} -> Strings \union {NIL} \union Roots]
      /\ \A x \in Strings : parent[x] = NIL
  <2>1. Strings \union {NIL} = 0..N
    BY <1>0 DEF Strings, NIL
  <2> QED
    BY <2>1 DEF Strings
<1>8. /\ z.dict = dict /\ z.lson = lson /\ z.rson = rson /\ z.parent = parent
      /\ z.matchPos = 0 /\ z.matchLen = 0 /\ z.r = r /\ z.s = 0 /\ z.len = read /\ z.next = read
      /\ z.buf = <<0>> /\ z.mask = 0 /\ z.out = << >> /\ z.todo = F + 1
      /\ z = [dict |-> dict, lson |-> lson, rson |-> rson, parent |-> parent,
              matchPos |-> 0, matchLen |-> 0, r |-> r, s |-> 0, len |-> read, next |-> read,
              buf |-> <<0>>, mask |-> 0, out |-> << >>, todo |-> F + 1]
  <2>1. z = [dict |-> dict, lson |-> lson, rson |-> rson, parent |-> parent,
              matchPos |-> 0, matchLen |-> 0, r |-> r, s |-> 0, len |-> read, next |-> read,
              buf |-> <<0>>, mask |-> 0, out |-> << >>, todo |-> F + 1]
    BY Zenon DEF Compress
  <2> HIDE DEF dict, lson, rson, parent, r, read
  <2> QED
    BY <2>1
<1>9. \A x \in Strings : z.lson[x] = NIL /\ z.parent[x] = NIL
  BY <1>5, <1>7, <1>8
<1>10. \A x \in Strings \union Roots : z.rson[x] = NIL
  BY <1>6, <1>8
<1> HIDE DEF dict, lson, rson, parent, r, read
<1>11. z \in Compressor
  <2>1. 0 \in Strings /\ r \in Strings /\ 0 \in 0..F /\ read \in 0..F /\ 0 \in 0..Group-1 /\ F + 1 \in Nat
    BY <1>0, <1>2 DEF r, Strings
  <2>2. <<0>> \in Seq(0..Low-1) /\ << >> \in Seq(0..Low-1)
    BY <1>0
  <2> QED
    BY <1>2, <1>3, <1>5, <1>6, <1>7, <1>8, <2>1, <2>2 DEF Compressor
<1>12. Moved(z) = 0
  BY <1>2, <1>8 DEF Moved
<1>13. Counted(z, in)
  <2>1. 0 % N = 0 /\ (0 + N - F) % N = N - F
    <3>1. 0 \in 0..N-1 /\ 0 + N - F = N - F
      BY <1>0
    <3>2. 0 % N = 0 /\ (N - F) % N = N - F
      BY <1>0, <3>1, ModSmall
    <3> QED
      BY <3>1, <3>2
  <2>2. Window(z.dict, in, 0, N - F + read)
    <3> DEFINE e == N - F + read
    <3>e. \A a \in 0..e-1 : a \in 0..N-F+read-1
      BY <1>0, <1>2
    <3> HIDE DEF e
    <3>0. ASSUME NEW a \in 0..e-1
          PROVE  /\ z.dict[a % N] = Text(in, a)
                 /\ a >= N /\ a % N < F - 1 => z.dict[N + (a % N)] = Text(in, a)
      <4>1. a \in 0..N-1 /\ dict[a] = Text(in, a) /\ ~(a >= N)
        BY <1>0, <1>2, <1>4, <3>e
      <4>2. a % N = a
        BY <1>0, <4>1, ModSmall
      <4> QED
        BY <1>8, <4>1, <4>2
    <3>1. Window(z.dict, in, 0, e)
      BY <3>0 DEF Window
    <3> QED
      BY <3>1 DEF e
  <2> QED
    BY <1>2, <1>8, <1>12, <2>1, <2>2 DEF Counted, r
<1>14. InTree(z) = {} /\ Att(z.parent) = {}
  BY <1>9 DEF InTree, Att, Strings
<1>15. Trees(z)
  <2>1. Links(z.dict, z.lson, z.rson, z.parent)
    <3>1. LinkTypes(z.lson, z.rson, z.parent)
      BY <1>5, <1>6, <1>7, <1>8 DEF LinkTypes
    <3>2. UpInv(z.parent) /\ RootInv(z.dict, z.rson, z.parent)
      BY <1>14 DEF UpInv, RootInv
    <3>3. ChildInv(z.dict, z.lson, z.rson, z.parent) /\ LeftInv(z.lson, z.parent)
          /\ TwoInv(z.lson, z.rson, z.parent)
      BY <1>14 DEF ChildInv, LeftInv, TwoInv
    <3>4. RightInv(z.rson, z.parent)
      BY <1>10, <1>14 DEF RightInv
    <3> QED
      BY <3>1, <3>2, <3>3, <3>4 DEF Links
  <2>2. Ranked(z.parent, [x \in Strings |-> 0], 0)
    BY <1>14 DEF Ranked
  <2>3. Ordered(z)
    <3> DEFINE D == [x \in Strings \union {NIL} |-> {}]
    <3>1. D \in [Strings \union {NIL} -> SUBSET Strings] /\ D[NIL] = {}
      OBVIOUS
    <3> HIDE DEF D
    <3>2. IsOrder(z.dict, z.lson, z.rson, z.parent, D)
      BY <1>14, <3>1 DEF IsOrder, UnderTypes, UnderIs, LeftBefore, RightBehind, Reached
    <3> QED
      BY <3>2 DEF Ordered
  <2> QED
    BY <2>1, <2>2, <2>3 DEF Trees, Tree
<1>16. CodedUpTo(z.out, z.buf, z.mask, in, 0)
  <2>1. Explains(<< >>, in)
    BY <1>1 DEF Explains
  <2>2. Holds(<< >>, <<0>>, 0, << >>)
    BY HoldsNone
  <2>3. After(<< >>) = [from |-> << >>, flags |-> 0, left |-> 0, first |-> << >>]
    BY AfterNone DEF Fresh
  <2>4. Len(<< >>) = 0 /\ 0 < Group
    BY <1>0
  <2> QED
    BY <1>8, <2>1, <2>2, <2>3, <2>4 DEF CodedUpTo
<1>17. HeldSpaces(z, F + 1 - z.todo)
  <2>1. 1..F+1-z.todo = {}
    BY <1>0, <1>8
  <2> QED
    BY <2>1 DEF HeldSpaces
<1> QED
  BY <1>17, <1>0, <1>2, <1>8, <1>11, <1>12, <1>13, <1>14, <1>15, <1>16 DEF Filling, Base

-----------------------------------------------------------------------------
(* A code.                                                                *)

\* A code more.
Coded(z, in, n) ==
    \E fr : /\ Explains(fr, in) /\ Len(fr) = Moved(z) + n
            /\ Holds(z.out, Put(z), z.mask + 1, fr) /\ Len(Put(z)) > 1

\* A byte is coded as it is.
LEMMA PutByte ==
    ASSUME NEW z, NEW in, Coding(z, in), Match(z) = 1
    PROVE  Coded(z, in, 1)
<1>1. /\ z.len > 0 /\ CodedUpTo(z.out, z.buf, z.mask, in, Moved(z)) /\ Counted(z, in) /\ z \in Compressor
  BY DEF Coding, Base
<1>2. PICK fr : /\ Explains(fr, in) /\ Len(fr) = Moved(z) /\ Holds(z.out, z.buf, z.mask, fr) /\ z.mask < Group
  BY <1>1 DEF CodedUpTo
<1>3. in \in Seq(Char)
  BY <1>1, CountedIs
<1>4. z.dict[z.r] = in[Moved(z) + 1] /\ Moved(z) < Len(in) /\ z.dict[z.r] \in 0..Low-1
  BY <1>1, Ahead
<1> DEFINE b == z.dict[z.r]
           f2 == Append(fr, N + b)
<1>5. Explains(f2, in) /\ Len(f2) = Moved(z) + 1
  <2>1. Len(fr) < Len(in) /\ b = in[Len(fr) + 1]
    BY <1>2, <1>4
  <2> HIDE DEF b
  <2>2. /\ Explains(Append(fr, N + in[Len(fr) + 1]), in)
        /\ Len(Append(fr, N + in[Len(fr) + 1])) = Len(fr) + 1
    BY <1>2, <1>3, <2>1, ExplainsByte
  <2> QED
    BY <1>2, <2>1, <2>2
<1>6. Put(z) = AddFlags(Append(z.buf, b), Bit[z.mask])
  BY Zenon DEF Put, AddFlags
<1>7. b \in 0..Low-1
  BY <1>4
<1> HIDE DEF b
<1>8. Holds(z.out, Put(z), z.mask + 1, f2) /\ Len(Put(z)) > 1
  BY <1>2, <1>6, <1>7, HoldsByte
<1> QED
  BY <1>5, <1>8 DEF Coded

\* What the match agrees in is the text ahead.
LEMMA MatchText ==
    ASSUME NEW z, NEW in, Counted(z, in), z \in Compressor, NEW n \in 1..z.len, n <= z.matchLen,
           NEW a \in Moved(z)..Moved(z)+N-F-1, z.matchPos = a % N,
           \A j \in 0..z.matchLen-1 : z.dict[z.r + j] = z.dict[z.matchPos + j]
    PROVE  \A j \in 0..n-1 : Text(in, a + j) = in[Moved(z) + j + 1]
<1> SUFFICES ASSUME NEW j \in 0..n-1 PROVE Text(in, a + j) = in[Moved(z) + j + 1]
  OBVIOUS
<1>1. /\ z.next \in Nat /\ z.len \in Nat /\ Moved(z) \in Nat /\ Moved(z) = z.next - z.len
      /\ z.len <= F
      /\ N \in Nat \ {0} /\ F \in Nat /\ F > 0 /\ F + F <= N /\ N - F \in Nat
      /\ z.r = (Moved(z) + (N - F)) % N
      /\ Moved(z) + (N - F) \in Nat /\ N - F + z.next \in Nat
      /\ Window(z.dict, in, Moved(z), N - F + z.next)
  BY CountedIs
<1>2. z.matchLen \in 0..F
  BY DEF Compressor
<1> DEFINE m == Moved(z)
           e == N - F + z.next
           b == m + (N - F)
<1>3. /\ m \in Nat /\ z.len \in Nat /\ z.next = m + z.len /\ N - F \in Nat /\ F \in Nat /\ z.len <= F
      /\ a \in m..m+N-F-1
  BY <1>1
<1>4. a \in Nat /\ m <= a /\ j \in 0..F-1 /\ a + j < e /\ j \in 0..z.matchLen-1 /\ e \in Nat
  <2>1. N - F - 1 = (N - F) - 1
    BY <1>1
  <2> QED
    BY <1>2, <1>3
<1>5. b \in Nat /\ m <= b /\ b + j < e /\ ~(b + j < N - F) /\ ((b + j) - (N - F)) + 1 = m + j + 1
  BY <1>3
<1>6. Window(z.dict, in, m, e) /\ z.r = b % N
  BY <1>1
<1> HIDE DEF m, e, b
<1>7. z.dict[(a % N) + j] = Text(in, a + j)
  <2>1. Lies(m, e, a, j, (a % N) + j)
    BY <1>3, <1>4 DEF Lies
  <2> QED
    BY <1>6, <2>1, WindowString
<1>8. z.dict[(b % N) + j] = Text(in, b + j)
  <2>1. Lies(m, e, b, j, (b % N) + j)
    BY <1>3, <1>4, <1>5 DEF Lies
  <2> QED
    BY <1>6, <2>1, WindowString
<1>9. Text(in, b + j) = in[m + j + 1]
  BY <1>5 DEF Text
<1>10. z.dict[z.r + j] = z.dict[z.matchPos + j]
  BY <1>4
<1> QED
  BY <1>6, <1>7, <1>8, <1>9, <1>10 DEF m

\* A match is coded as a reference.
LEMMA PutMatch ==
    ASSUME NEW z, NEW in, Coding(z, in), NEW n, n = Match(z), n \in Threshold+1..F, n <= z.len, n <= z.matchLen
    PROVE  Coded(z, in, n)
<1>1. /\ z.len > 0 /\ CodedUpTo(z.out, z.buf, z.mask, in, Moved(z)) /\ Counted(z, in) /\ z \in Compressor
      /\ MatchInWindow(z)
  BY DEF Coding, Base
<1>2. PICK fr : /\ Explains(fr, in) /\ Len(fr) = Moved(z) /\ Holds(z.out, z.buf, z.mask, fr) /\ z.mask < Group
  BY <1>1 DEF CodedUpTo
<1>3. /\ in \in Seq(Char) /\ Len(in) \in Nat
      /\ z.next \in Nat /\ z.len \in Nat /\ Moved(z) \in Nat /\ Moved(z) = z.next - z.len
      /\ z.next <= Len(in)
  BY <1>1, CountedIs
<1>4. Threshold \in Nat /\ Threshold > 0 /\ F \in Nat
  BY Numbers
<1>5. n \in 1..F /\ n \in 1..z.len /\ n # 1 /\ z.matchLen # 0
  BY <1>3, <1>4
<1>6. PICK a \in Moved(z)..Moved(z)+N-F-1 :
         /\ z.matchPos = a % N
         /\ \A j \in 0..z.matchLen-1 : z.dict[z.r + j] = z.dict[z.matchPos + j]
  BY <1>1, <1>5 DEF MatchInWindow
<1>7. \A j \in 0..n-1 : Text(in, a + j) = in[Moved(z) + j + 1]
  BY <1>1, <1>5, <1>6, MatchText
<1> DEFINE p == z.matchPos
           b1 == p % Low
           b2 == ((p \div Low) * Refs) + n - (Threshold + 1)
<1>8. p \in 0..N-1 /\ p = a % N
  BY <1>1, <1>6 DEF Compressor, Strings
<1>9. Put(z) = z.buf \o <<b1, b2>>
  BY <1>5 DEF Put
<1>10. Repeats(in, Len(fr), n, a)
  BY <1>2, <1>3, <1>5, <1>6, <1>7 DEF Repeats
<1>11. Refers(p, n, b1, b2)
  BY <1>8 DEF Refers
<1> HIDE DEF p, b1, b2
<1>12. Explains(fr \o From(p, n), in) /\ Len(fr \o From(p, n)) = Len(fr) + n
  BY <1>2, <1>8, <1>10, ExplainsMatch
<1>13. Holds(z.out, Put(z), z.mask + 1, fr \o From(p, n)) /\ Len(Put(z)) > 1
  BY <1>2, <1>9, <1>11, HoldsMatch
<1> QED
  BY <1>2, <1>12, <1>13 DEF Coded

\* One of them is.
LEMMA PutIs ==
    ASSUME NEW z, NEW in, Coding(z, in)
    PROVE  Coded(z, in, Match(z)) /\ Match(z) \in 1..z.len
<1>1. z.len > 0 /\ z \in Compressor
  BY DEF Coding, Base
<1>2. z.len \in 0..F /\ z.matchLen \in 0..F /\ F \in Nat /\ Threshold \in Nat
  BY <1>1, Numbers DEF Compressor
<1> DEFINE k == Least(z.matchLen, z.len)
<1>3. k \in 0..F /\ k <= z.len /\ k <= z.matchLen
  BY <1>2 DEF Least
<1>4. Match(z) = IF k <= Threshold THEN 1 ELSE k
  BY DEF Match
<1> HIDE DEF k
<1>5. CASE k <= Threshold
  <2>1. Match(z) = 1 /\ 1 \in 1..z.len
    BY <1>1, <1>2, <1>4, <1>5
  <2> QED
    BY <2>1, PutByte
<1>6. CASE ~(k <= Threshold)
  <2>1. Match(z) = k /\ k \in Threshold+1..F /\ k \in 1..z.len
    BY <1>2, <1>3, <1>4, <1>6
  <2>2. Coded(z, in, k)
    BY <1>3, <2>1, PutMatch
  <2> QED
    BY <2>1, <2>2
<1> QED
  BY <1>5, <1>6

\* Only the codes are others.
WithCode(z, n, out, buf, mask) == [z EXCEPT !.todo = n, !.out = out, !.buf = buf, !.mask = mask]

\* The types of the codes.
CodeTypes(n, out, buf, mask) ==
    n \in Nat /\ out \in Seq(0..Low-1) /\ buf \in Seq(0..Low-1) /\ mask \in 0..Group-1

\* The same, field by field.
LEMMA CodeFields ==
    ASSUME NEW z \in Compressor, NEW n, NEW out, NEW buf, NEW mask, CodeTypes(n, out, buf, mask),
           NEW y, y = WithCode(z, n, out, buf, mask)
    PROVE  /\ y \in Compressor /\ y.todo = n /\ y.out = out /\ y.buf = buf /\ y.mask = mask
           /\ y.dict = z.dict /\ y.r = z.r /\ y.s = z.s /\ y.len = z.len /\ y.next = z.next
           /\ y.lson = z.lson /\ y.rson = z.rson /\ y.parent = z.parent
BY DEF WithCode, Compressor, CodeTypes

\* CodeSection leaves as many moves as the code stands for.
LEMMA CodeIs ==
    ASSUME NEW z, NEW in, Coding(z, in), NEW y, y = Code(z)
    PROVE  Moving(y, in)
<1>1. /\ z.len > 0 /\ CodedUpTo(z.out, z.buf, z.mask, in, Moved(z)) /\ Counted(z, in) /\ z \in Compressor
      /\ Trees(z) /\ InWindow(z) /\ HeldInWindow(z)
  BY DEF Coding, Base
<1> DEFINE n == Match(z)
           m == Moved(z)
<1>2. n \in 1..z.len /\ Coded(z, in, n)
  BY PutIs
<1>3. z.len \in Nat /\ z.mask \in 0..Group-1 /\ Group \in Nat /\ Group > 0 /\ n \in Nat
  BY <1>1, <1>2, Numbers DEF Compressor
<1>n. n = Match(z)
  OBVIOUS
<1> HIDE DEF n
<1>4. PICK fr : /\ Explains(fr, in) /\ Len(fr) = m + n
                /\ Holds(z.out, Put(z), z.mask + 1, fr) /\ Len(Put(z)) > 1
  BY <1>2 DEF Coded
<1>5. \E out \in Seq(0..Low-1), buf \in Seq(0..Low-1), mask \in 0..Group-1 :
         y = WithCode(z, n, out, buf, mask) /\ CodedUpTo(out, buf, mask, in, m + n)
  <2>1. CASE z.mask + 1 = Group
    <3> DEFINE out == z.out \o Put(z)
    <3>1. /\ out \in Seq(0..Low-1)
          /\ After(out) = [from |-> fr, flags |-> 0, left |-> 0, first |-> << >>]
      <4>1. /\ out \in Seq(0..Low-1)
            /\ After(out) = [from |-> fr, flags |-> 0, left |-> Group - (z.mask + 1), first |-> << >>]
        BY <1>4, HoldsNow
      <4>2. Group - (z.mask + 1) = 0
        BY <1>3, <2>1
      <4> QED
        BY <4>1, <4>2
    <3>2. y = WithCode(z, n, out, <<0>>, 0)
      BY <1>n, <2>1 DEF Code, WithCode
    <3> HIDE DEF out
    <3>3. Holds(out, <<0>>, 0, fr)
      BY <3>1, HoldsOut
    <3>4. <<0>> \in Seq(0..Low-1) /\ 0 \in 0..Group-1 /\ 0 < Group
      BY <1>3, <3>3 DEF Holds
    <3>5. CodedUpTo(out, <<0>>, 0, in, m + n)
      BY <1>4, <3>1, <3>3, <3>4 DEF CodedUpTo
    <3> QED
      BY <3>1, <3>2, <3>4, <3>5
  <2>2. CASE z.mask + 1 # Group
    <3>1. y = WithCode(z, n, z.out, Put(z), z.mask + 1)
      BY <1>n, <1>1, <2>2 DEF Code, WithCode, Compressor
    <3>2. z.out \in Seq(0..Low-1) /\ Put(z) \in Seq(0..Low-1)
      BY <1>4 DEF Holds
    <3>3. z.mask + 1 \in 0..Group-1 /\ z.mask + 1 < Group /\ z.mask + 1 # 0
      BY <1>3, <2>2
    <3>4. CodedUpTo(z.out, Put(z), z.mask + 1, in, m + n)
      BY <1>4, <3>3 DEF CodedUpTo
    <3> QED
      BY <3>1, <3>2, <3>3, <3>4
  <2> QED
    BY <2>1, <2>2
<1>6. PICK out \in Seq(0..Low-1), buf \in Seq(0..Low-1), mask \in 0..Group-1 :
         y = WithCode(z, n, out, buf, mask) /\ CodedUpTo(out, buf, mask, in, m + n)
  BY <1>5
<1>7. /\ y \in Compressor /\ y.todo = n /\ y.out = out /\ y.buf = buf /\ y.mask = mask
      /\ y.dict = z.dict /\ y.r = z.r /\ y.s = z.s /\ y.len = z.len /\ y.next = z.next
      /\ y.lson = z.lson /\ y.rson = z.rson /\ y.parent = z.parent
  <2>1. CodeTypes(n, out, buf, mask)
    BY <1>3 DEF CodeTypes
  <2> QED
    BY <1>1, <1>6, <2>1, CodeFields
<1>8. Counted(y, in) /\ Moved(y) = Moved(z)
  BY <1>1, <1>7, SameTextKeeps
<1>9. Trees(y) /\ InTree(y) = InTree(z)
  BY <1>1, <1>7, SameTreesKeep
<1>10. InWindow(y)
  BY <1>1, <1>8, <1>9 DEF InWindow
<1>11. HeldInWindow(y)
  BY <1>1, <1>7, <1>8, <1>9, SameHeldKeep
<1> QED
  BY <1>11, <1>2, <1>6, <1>7, <1>8, <1>9, <1>10 DEF Moving, Base

-----------------------------------------------------------------------------
(* A move.                                                                *)

\* The links do not depend on what no string in the trees begins with.
LEMMA LinksFrame ==
    ASSUME NEW d, NEW e, NEW L, NEW R, NEW P, Links(d, L, R, P), \A x \in Att(P) : e[x] = d[x]
    PROVE  Links(e, L, R, P)
<1>1. /\ LinkTypes(L, R, P) /\ UpInv(P) /\ RootInv(d, R, P) /\ ChildInv(d, L, R, P)
      /\ LeftInv(L, P) /\ RightInv(R, P) /\ TwoInv(L, R, P)
  BY DEF Links
<1>2. RootInv(e, R, P)
  BY <1>1 DEF RootInv
<1>3. ChildInv(e, L, R, P)
  BY <1>1 DEF ChildInv, UpInv
<1> QED
  BY <1>1, <1>2, <1>3 DEF Links

\* The window after a move.
Shifted(z, in) ==
    [x \in DOMAIN z.dict |->
        IF z.next < Len(in) /\ (x = z.s \/ (z.s < F - 1 /\ x = z.s + N)) THEN in[z.next + 1] ELSE z.dict[x]]

\* Only the window is another.
WithWindow(w, dict, s, r, next, len) ==
    [w EXCEPT !.s = s, !.r = r, !.todo = @ - 1, !.dict = dict, !.next = next, !.len = len]

\* Its types.
WindowTypes(dict, s, r, next, len) ==
    dict \in [0..N+F-2 -> Nat] /\ s \in Strings /\ r \in Strings /\ next \in Nat /\ len \in 0..F

\* The same, field by field.
LEMMA WindowFields ==
    ASSUME NEW w \in Compressor, w.todo > 0, NEW dict, NEW s, NEW r, NEW next, NEW len,
           WindowTypes(dict, s, r, next, len),
           NEW y, y = WithWindow(w, dict, s, r, next, len)
    PROVE  /\ y \in Compressor /\ y.dict = dict /\ y.s = s /\ y.r = r /\ y.next = next /\ y.len = len
           /\ y.todo = w.todo - 1 /\ y.out = w.out /\ y.buf = w.buf /\ y.mask = w.mask
           /\ y.lson = w.lson /\ y.rson = w.rson /\ y.parent = w.parent
<1>1. w.todo \in Nat
  BY DEF Compressor
<1>2. w.todo - 1 \in Nat
  BY <1>1
<1> QED
  BY <1>2 DEF WithWindow, WindowTypes, Compressor

\* The window, byte by byte.
LEMMA ShiftedIs ==
    ASSUME NEW z \in Compressor, NEW in, Counted(z, in)
    PROVE  /\ Shifted(z, in) \in [0..N+F-2 -> Nat]
           /\ \A x \in Strings : x # z.s => Shifted(z, in)[x] = z.dict[x]
           /\ \A x \in 0..F-2 : x # z.s => Shifted(z, in)[N + x] = z.dict[N + x]
           /\ z.next < Len(in) => /\ Shifted(z, in)[z.s] = in[z.next + 1]
                                  /\ z.s < F - 1 => Shifted(z, in)[N + z.s] = in[z.next + 1]
<1>1. /\ in \in Seq(Char) /\ Len(in) \in Nat /\ \A i \in 1..Len(in) : in[i] \in 0..Low-1
      /\ z.next \in Nat /\ N \in Nat \ {0} /\ F \in Nat /\ F > 0 /\ F + F <= N
  BY CountedIs
<1>2. z.dict \in [0..N+F-2 -> Nat] /\ z.s \in 0..N-1
  BY DEF Compressor, Strings
<1>3. z.next < Len(in) => in[z.next + 1] \in Nat
  <2> SUFFICES ASSUME z.next < Len(in) PROVE in[z.next + 1] \in Nat
    OBVIOUS
  <2>1. z.next + 1 \in 1..Len(in)
    BY <1>1
  <2>2. in[z.next + 1] \in 0..Low-1
    BY <1>1, <2>1
  <2> QED
    BY <2>2, Numbers
<1> DEFINE d == Shifted(z, in)
<1>4. d = [x \in 0..N+F-2 |->
             IF z.next < Len(in) /\ (x = z.s \/ (z.s < F - 1 /\ x = z.s + N)) THEN in[z.next + 1] ELSE z.dict[x]]
  BY <1>2 DEF Shifted
<1> HIDE DEF d
<1>5. d \in [0..N+F-2 -> Nat]
  BY <1>2, <1>3, <1>4
<1>6. ASSUME NEW x \in Strings, x # z.s PROVE d[x] = z.dict[x]
  <2>1. x \in 0..N+F-2 /\ x # z.s + N
    BY <1>1, <1>2 DEF Strings
  <2> QED
    BY <1>4, <1>6, <2>1
<1>7. ASSUME NEW x \in 0..F-2, x # z.s PROVE d[N + x] = z.dict[N + x]
  <2>1. N + x \in 0..N+F-2 /\ N + x # z.s + N /\ N + x # z.s
    BY SMTT(30), <1>1, <1>2, <1>7
  <2> QED
    BY <1>4, <2>1
<1>8. ASSUME z.next < Len(in) PROVE d[z.s] = in[z.next + 1] /\ (z.s < F - 1 => d[N + z.s] = in[z.next + 1])
  <2>1. z.s \in 0..N+F-2
    BY <1>1, <1>2
  <2>2. d[z.s] = in[z.next + 1]
    BY <1>4, <1>8, <2>1
  <2>3. z.s < F - 1 => N + z.s \in 0..N+F-2 /\ N + z.s = z.s + N
    BY SMTT(30), <1>1, <1>2
  <2> QED
    BY <1>4, <1>8, <2>2, <2>3
<1> QED
  BY <1>5, <1>6, <1>7, <1>8 DEF d

\* The place a in the text, between the old end of the window and the new one.
NearEnd(nx, ln, size, m, next, a) ==
    /\ nx \in Nat /\ ln \in Nat /\ ln > 0 /\ ln <= F /\ size \in Nat /\ (nx < size => ln = F)
    /\ m \in Nat /\ m = nx - ln /\ next = (IF nx < size THEN nx + 1 ELSE nx)
    /\ a \in Nat /\ m + 1 <= a /\ a <= (N - F + next) - 1

\* It is the old end, or behind it.
LEMMA NewEnd ==
    ASSUME NEW nx, NEW ln, NEW size, NEW m, NEW next, NEW a, NearEnd(nx, ln, size, m, next, a)
    PROVE  /\ m <= a /\ a # m
           /\ a < N - F + nx => a \in m..(N - F + nx)-1 /\ a < m + N
           /\ ~(a < N - F + nx) => /\ nx < size /\ a = N - F + nx /\ a = m + N /\ ~(a < N - F)
                                   /\ (a - (N - F)) + 1 = nx + 1
<1>1. N \in Nat /\ F \in Nat /\ F > 0 /\ F + F <= N
  BY Numbers
<1>2. CASE nx < size
  BY <1>1, <1>2 DEF NearEnd
<1>3. CASE ~(nx < size)
  BY <1>1, <1>3 DEF NearEnd
<1> QED
  BY <1>2, <1>3

\* The window holds the text a byte further on.
LEMMA ShiftedWindow ==
    ASSUME NEW z \in Compressor, NEW in, Counted(z, in), z.len > 0,
           NEW next, next = IF z.next < Len(in) THEN z.next + 1 ELSE z.next
    PROVE  Window(Shifted(z, in), in, Moved(z) + 1, N - F + next)
<1> DEFINE d == Shifted(z, in)
           m == Moved(z)
<1>1. /\ Len(in) \in Nat
      /\ z.next \in Nat /\ z.len \in Nat /\ m \in Nat /\ m = z.next - z.len
      /\ z.len <= F /\ (z.next < Len(in) => z.len = F)
      /\ N \in Nat \ {0} /\ F \in Nat /\ F > 0 /\ F + F <= N /\ N - F \in Nat
      /\ z.s = m % N
      /\ Window(z.dict, in, m, N - F + z.next)
  BY CountedIs
<1>2. /\ \A x \in Strings : x # z.s => d[x] = z.dict[x]
      /\ \A x \in 0..F-2 : x # z.s => d[N + x] = z.dict[N + x]
      /\ z.next < Len(in) => d[z.s] = in[z.next + 1] /\ (z.s < F - 1 => d[N + z.s] = in[z.next + 1])
  BY ShiftedIs
<1> HIDE DEF d, m
<1>n. m \in Nat /\ N - F \in Nat
  BY <1>1
<1>3. ASSUME NEW a \in (m+1)..(N - F + next)-1
      PROVE  /\ d[a % N] = Text(in, a)
             /\ a >= N /\ a % N < F - 1 => d[N + (a % N)] = Text(in, a)
  <2>1. a \in Nat /\ a % N \in 0..N-1 /\ a % N \in Strings
    <3>1. a \in Nat
      BY <1>1
    <3> QED
      BY <1>1, <3>1, ModRange DEF Strings
  <2>0. /\ m <= a /\ a # m
        /\ a < N - F + z.next => a \in m..(N - F + z.next)-1 /\ a < m + N
        /\ ~(a < N - F + z.next) => /\ z.next < Len(in) /\ a = N - F + z.next /\ a = m + N /\ ~(a < N - F)
                                   /\ (a - (N - F)) + 1 = z.next + 1
    <3> DEFINE nx == z.next
               ln == z.len
               size == Len(in)
    <3>1. /\ nx \in Nat /\ ln \in Nat /\ ln > 0 /\ ln <= F /\ size \in Nat /\ (nx < size => ln = F)
          /\ m \in Nat /\ m = nx - ln /\ next = (IF nx < size THEN nx + 1 ELSE nx)
      BY <1>1
    <3>2. next \in Nat /\ N - F + next \in Nat /\ m + 1 <= a /\ a <= (N - F + next) - 1
      <4> HIDE DEF nx, ln, size
      <4>1. next \in Nat
        BY <3>1
      <4>2. N - F \in Nat /\ N - F + next \in Nat
        BY SMTT(30), <1>1, <4>1
      <4>3. m + 1 \in Nat
        BY <1>n
      <4> DEFINE e == N - F + next
      <4>4. a \in (m+1)..e-1
        OBVIOUS
      <4> HIDE DEF e
      <4>5. e \in Nat
        BY <4>2 DEF e
      <4>6. m + 1 <= a /\ a <= e - 1
        BY <2>1, <4>3, <4>4, <4>5
      <4> QED
        BY <4>1, <4>2, <4>6 DEF e
    <3> HIDE DEF nx, ln, size
    <3>3. /\ m <= a /\ a # m
          /\ a < N - F + nx => a \in m..(N - F + nx)-1 /\ a < m + N
          /\ ~(a < N - F + nx) => /\ nx < size /\ a = N - F + nx /\ a = m + N /\ ~(a < N - F)
                                   /\ (a - (N - F)) + 1 = nx + 1
      <4>1. NearEnd(nx, ln, size, m, next, a)
        BY <2>1, <3>1, <3>2 DEF NearEnd
      <4> QED
        BY <4>1, NewEnd
    <3> QED
      BY <3>3 DEF nx, size
  <2>2. CASE a < N - F + z.next
    <3>1. a \in m..(N - F + z.next)-1 /\ m <= a /\ a < m + N /\ a # m
      BY <2>0, <2>2
    <3>2. a % N # z.s
      BY <1>1, <2>1, <3>1, ModUnique
    <3>3. /\ z.dict[a % N] = Text(in, a)
          /\ a >= N /\ a % N < F - 1 => z.dict[N + (a % N)] = Text(in, a)
      BY <1>1, <3>1 DEF Window
    <3>4. d[a % N] = z.dict[a % N]
      BY <1>2, <2>1, <3>2
    <3>5. a % N < F - 1 => d[N + (a % N)] = z.dict[N + (a % N)]
      <4>1. a % N < F - 1 => a % N \in 0..F-2
        BY <1>1, <2>1
      <4> QED
        BY <1>2, <3>2, <4>1
    <3> QED
      BY <3>3, <3>4, <3>5
  <2>3. CASE ~(a < N - F + z.next)
    <3>1. z.next < Len(in) /\ a = N - F + z.next
      BY <2>0, <2>3
    <3>2. a = m + N /\ ~(a < N - F) /\ (a - (N - F)) + 1 = z.next + 1
      BY <2>0, <2>3
    <3>3. a % N = z.s
      BY <1>1, <3>2, ModPeriod
    <3>4. Text(in, a) = in[z.next + 1]
      BY <3>2 DEF Text
    <3> QED
      BY <1>2, <3>1, <3>3, <3>4
  <2> QED
    BY <2>2, <2>3
<1> QED
  BY <1>3 DEF Window, d, m

\* The strings that begin behind the one that goes are not changed.
LEMMA ShiftedBehind ==
    ASSUME NEW z \in Compressor, NEW in, Counted(z, in)
    PROVE  SameBehind(z.dict, Shifted(z, in), Moved(z), Moved(z) + (N - F))
<1> DEFINE d == Shifted(z, in)
           m == Moved(z)
<1>1. m \in Nat /\ N \in Nat \ {0} /\ F \in Nat /\ F > 0 /\ F + F <= N /\ z.s = m % N
  BY CountedIs
<1>2. /\ \A x \in Strings : x # z.s => d[x] = z.dict[x]
      /\ \A x \in 0..F-2 : x # z.s => d[N + x] = z.dict[N + x]
  BY ShiftedIs
<1> HIDE DEF d, m
<1>3. SUFFICES ASSUME NEW a \in m+1..m+(N-F), NEW j \in 0..F-1 PROVE d[(a % N) + j] = z.dict[(a % N) + j]
  BY DEF SameBehind, d, m
<1>4. a \in Nat /\ j \in 0..N-1 /\ m <= a + j /\ a + j < m + N /\ a + j # m /\ a + j \in Nat
  BY <1>1
<1> DEFINE c == (a % N) + j
<1>5. a % N \in 0..N-1
  BY <1>1, <1>4, ModRange
<1>6. (a + j) % N # z.s
  BY <1>1, <1>4, ModUnique
<1>7. CASE c < N
  <2>1. (a + j) % N = c
    BY <1>1, <1>4, <1>7, ModPlus
  <2>2. c \in Strings
    BY <1>1, <1>5, <1>7 DEF Strings
  <2> QED
    BY <1>2, <1>6, <2>1, <2>2
<1>8. CASE c >= N
  <2>1. (a + j) % N = c - N
    BY <1>1, <1>4, <1>8, ModPlus
  <2>2. c - N \in 0..F-2 /\ N + (c - N) = c
    BY <1>1, <1>5, <1>8
  <2>3. d[N + (c - N)] = z.dict[N + (c - N)]
    BY <1>2, <1>6, <2>1, <2>2
  <2> QED
    BY <2>2, <2>3
<1> QED
  BY <1>1, <1>5, <1>7, <1>8

\* What a move leaves, before the string at r is put in.
Stepped(y, z, in) ==
    /\ Base(y, in) /\ Behind(y) /\ HeldBehind(y) /\ y.r \notin InTree(y)
    /\ Moved(y) = Moved(z) + 1 /\ y.todo = z.todo - 1 /\ y.todo <= y.len
    /\ y.out = z.out /\ y.buf = z.buf /\ y.mask = z.mask
    /\ y.len = 0 => y.next = Len(in)

\* How far the input is read, and how much of it is ahead.
Counts1(nx, ln, size) ==
    /\ nx \in Nat /\ ln \in Nat /\ ln > 0 /\ ln <= F /\ ln <= nx /\ size \in Nat /\ nx <= size
    /\ nx < size => ln = F

\* A move reads a byte, or there is one less ahead.
LEMMA CountsNext ==
    ASSUME NEW nx, NEW ln, NEW size, Counts1(nx, ln, size),
           NEW next, next = IF nx < size THEN nx + 1 ELSE nx,
           NEW len, len = IF nx < size THEN ln ELSE ln - 1
    PROVE  /\ next \in 0..size /\ len \in 0..F /\ len <= next /\ (next < size => len = F)
           /\ next - len = (nx - ln) + 1 /\ next \in Nat /\ len \in Nat /\ ln - 1 <= len
           /\ len = 0 => next = size
<1>1. F \in Nat /\ F > 0
  BY Numbers
<1>2. CASE nx < size
  BY <1>1, <1>2 DEF Counts1
<1>3. CASE ~(nx < size)
  BY <1>1, <1>3 DEF Counts1
<1> QED
  BY <1>2, <1>3

\* r is not one of the strings before it.
LEMMA AheadIsNew ==
    ASSUME NEW m \in Nat, NEW a \in m..m+N-F-1
    PROVE  a % N # (m + (N - F)) % N
<1>1. N \in Nat \ {0} /\ F \in Nat /\ F > 0 /\ F + F <= N
  BY Numbers
<1> DEFINE b == m + (N - F)
<1>2. a \in Nat /\ b \in Nat /\ a <= b /\ b < a + N /\ a # b
  BY <1>1
<1> HIDE DEF b
<1>3. a % N # b % N
  BY <1>1, <1>2, ModUnique
<1> QED
  BY <1>3 DEF b

\* Move, field by field.
LEMMA MoveFields ==
    ASSUME NEW z \in Compressor, NEW in, NEW w, w = DeleteNode(z, z.s), SameText(w, z)
    PROVE  Move(z, in) = WithWindow(w, Shifted(z, in), (z.s + 1) % N, (z.r + 1) % N,
                                    IF z.next < Len(in) THEN z.next + 1 ELSE z.next,
                                    IF z.next < Len(in) THEN z.len ELSE z.len - 1)
<1>1. w.dict = z.dict /\ w.s = z.s /\ w.r = z.r /\ w.next = z.next /\ w.len = z.len
  BY DEF SameText
<1>2. Move(z, in) = [w EXCEPT
        !.s = (w.s + 1) % N, !.r = (w.r + 1) % N, !.todo = w.todo - 1,
        !.dict = [x \in DOMAIN w.dict |->
                    IF z.next < Len(in) /\ (x = z.s \/ (z.s < F - 1 /\ x = z.s + N)) THEN in[z.next + 1] ELSE w.dict[x]],
        !.next = IF z.next < Len(in) THEN w.next + 1 ELSE w.next,
        !.len = IF z.next < Len(in) THEN w.len ELSE w.len - 1]
  BY Zenon DEF Move
<1>3. [x \in DOMAIN w.dict |->
         IF z.next < Len(in) /\ (x = z.s \/ (z.s < F - 1 /\ x = z.s + N)) THEN in[z.next + 1] ELSE w.dict[x]]
      = Shifted(z, in)
  BY <1>1, Zenon DEF Shifted
<1> QED
  BY <1>1, <1>2, <1>3, Zenon DEF WithWindow

\* A move keeps the text and the trees.
LEMMA MovedOn ==
    ASSUME NEW z, NEW in, Moving(z, in), NEW y, y = Move(z, in)
    PROVE  Stepped(y, z, in)
<1>1. /\ Counted(z, in) /\ z \in Compressor /\ Trees(z) /\ InWindow(z) /\ HeldInWindow(z)
      /\ z.todo \in 1..z.len
  BY DEF Moving, Base
<1>2. /\ in \in Seq(Char) /\ Len(in) \in Nat
      /\ z.next \in Nat /\ z.len \in Nat /\ Moved(z) \in Nat /\ Moved(z) = z.next - z.len
      /\ z.next <= Len(in) /\ z.len <= F /\ z.len <= z.next /\ (z.next < Len(in) => z.len = F)
  BY <1>1, CountedIs
<1>3. /\ N \in Nat \ {0} /\ F \in Nat /\ F > 0 /\ F + F <= N /\ N - F \in Nat
      /\ z.s = Moved(z) % N /\ z.r = (Moved(z) + (N - F)) % N /\ Moved(z) + (N - F) \in Nat
  BY <1>1, CountedIs
<1>4. PICK rk, B : Tree(z, rk, B)
  BY <1>1 DEF Trees
<1>5. z.s \in Strings /\ z.todo \in Nat /\ z.todo > 0 /\ z.len > 0
  BY <1>1, <1>2 DEF Compressor
<1> DEFINE w == DeleteNode(z, z.s)
           dict == Shifted(z, in)
           s == (z.s + 1) % N
           r == (z.r + 1) % N
           next == IF z.next < Len(in) THEN z.next + 1 ELSE z.next
           len == IF z.next < Len(in) THEN z.len ELSE z.len - 1
           m == Moved(z)
<1>w. w = DeleteNode(z, z.s)
  OBVIOUS
<1> HIDE DEF w
<1>6. /\ w \in Compressor /\ SameText(w, z)
      /\ \E k2, B2 : Tree(w, k2, B2)
      /\ InTree(w) = InTree(z) \ {z.s}
  BY <1>1, <1>4, <1>5, <1>w, DeleteIs
<1>7. y = WithWindow(w, dict, s, r, next, len)
  BY <1>1, <1>6, <1>w, MoveFields
<1>8. /\ next \in 0..Len(in) /\ len \in 0..F /\ len <= next /\ (next < Len(in) => len = F)
      /\ next - len = m + 1 /\ next \in Nat /\ len \in Nat /\ z.len - 1 <= len
      /\ len = 0 => next = Len(in)
  <2> DEFINE nx == z.next
             ln == z.len
             size == Len(in)
  <2>1. Counts1(nx, ln, size)
    BY <1>2, <1>5 DEF Counts1
  <2>2. next = (IF nx < size THEN nx + 1 ELSE nx) /\ len = (IF nx < size THEN ln ELSE ln - 1)
    OBVIOUS
  <2>3. m = nx - ln
    BY <1>2
  <2> HIDE DEF nx, ln, size, next, len, m
  <2>4. /\ next \in 0..size /\ len \in 0..F /\ len <= next /\ (next < size => len = F)
        /\ next - len = (nx - ln) + 1 /\ next \in Nat /\ len \in Nat /\ ln - 1 <= len
        /\ len = 0 => next = size
    BY <2>1, <2>2, CountsNext
  <2> QED
    BY <2>3, <2>4 DEF nx, ln, size
<1>9. Window(dict, in, m + 1, N - F + next)
  BY <1>1, <1>5, ShiftedWindow
<1>10. s = (m + 1) % N /\ r = (m + 1 + (N - F)) % N /\ s \in Strings /\ r \in Strings /\ m + 1 \in Nat
  <2> DEFINE c == m + (N - F)
  <2>m. m \in Nat /\ c \in Nat /\ N \in Nat \ {0} /\ N - F \in Nat
    BY <1>2, <1>3
  <2>e. s = ((m % N) + 1) % N /\ r = ((c % N) + 1) % N
    BY <1>3, Zenon
  <2> HIDE DEF m, c, s, r
  <2>1. s = (m + 1) % N /\ m + 1 \in Nat /\ m + 1 + (N - F) \in Nat
    <3>1. ((m % N) + 1) % N = (m + 1) % N
      BY <2>m, ModNext
    <3> QED
      BY <2>m, <2>e, <3>1
  <2>2. r = ((m + (N - F)) + 1) % N /\ (m + (N - F)) + 1 = m + 1 + (N - F)
    <3>1. ((c % N) + 1) % N = (c + 1) % N
      BY <2>m, ModNext
    <3>2. r = (c + 1) % N
      BY <2>e, <3>1
    <3>3. (m + (N - F)) + 1 = m + 1 + (N - F)
      BY <2>m
    <3> QED
      BY <3>2, <3>3 DEF c
  <2>3. r = (m + 1 + (N - F)) % N
    BY <2>2
  <2>4. (m + 1) % N \in Strings /\ (m + 1 + (N - F)) % N \in Strings
    BY <1>3, <2>1, ModRange DEF Strings
  <2> QED
    BY <2>1, <2>3, <2>4
<1>11. dict \in [0..N+F-2 -> Nat] /\ \A x \in Strings : x # z.s => dict[x] = z.dict[x]
  BY <1>1, ShiftedIs
<1>f. SameBehind(z.dict, dict, m, m + (N - F))
  BY <1>1, ShiftedBehind
<1> HIDE DEF dict, s, r, next, len, m
<1>12. w.todo > 0 /\ w.todo = z.todo /\ w.out = z.out /\ w.buf = z.buf /\ w.mask = z.mask /\ w.dict = z.dict
  BY <1>5, <1>6 DEF SameText
<1>13. /\ y \in Compressor /\ y.dict = dict /\ y.s = s /\ y.r = r /\ y.next = next /\ y.len = len
       /\ y.todo = w.todo - 1 /\ y.out = w.out /\ y.buf = w.buf /\ y.mask = w.mask
       /\ y.lson = w.lson /\ y.rson = w.rson /\ y.parent = w.parent
  <2>1. WindowTypes(dict, s, r, next, len)
    BY <1>8, <1>10, <1>11 DEF WindowTypes
  <2> QED
    BY <1>6, <1>7, <1>12, <2>1, WindowFields
<1>14. Moved(y) = m + 1
  BY <1>8, <1>13 DEF Moved
<1>15. Counted(y, in)
  <2>1. m + 1 + N - F = m + 1 + (N - F)
    BY <1>3, <1>10
  <2> QED
    BY <1>2, <1>8, <1>9, <1>10, <1>13, <1>14, <2>1 DEF Counted
<1>16. InTree(y) = InTree(z) \ {z.s} /\ InTree(y) = Att(y.parent)
  <2>1. InTree(y) = InTree(w)
    BY <1>13 DEF InTree
  <2> QED
    BY <1>6, <2>1 DEF InTree, Att, Strings
<1>18. ASSUME NEW x \in InTree(y) PROVE \E a \in m+1..(m+1)+N-F-1 : x = a % N
  <2>1. x \in InTree(z) /\ x # z.s
    BY <1>16
  <2>2. PICK a \in m..m+N-F : x = a % N
    BY <1>1, <2>1 DEF InWindow, m
  <2>3. a # m /\ m \in Nat
    BY <1>2, <1>3, <2>1, <2>2 DEF m
  <2>4. a \in m+1..(m+1)+N-F-1
    BY <1>3, <2>3
  <2> QED
    BY <2>2, <2>4
<1>17. Trees(y)
  <2>1. PICK k2, B2 : Tree(w, k2, B2)
    BY <1>6
  <2>o. Ordered(w)
    BY <1>1, <1>4, <1>5, <1>w, DeleteOrder DEF Trees
  <2>2. Links(z.dict, y.lson, y.rson, y.parent) /\ Ranked(y.parent, k2, B2)
    BY <1>12, <1>13, <2>1 DEF Tree
  <2>3. \A x \in Att(y.parent) : dict[x] = z.dict[x]
    BY <1>11, <1>16 DEF InTree, Strings
  <2>4. Links(dict, y.lson, y.rson, y.parent)
    BY <2>2, <2>3, LinksFrame
  <2>5. PICK D : IsOrder(z.dict, y.lson, y.rson, y.parent, D)
    BY <1>12, <1>13, <2>o DEF Ordered
  <2>6. ASSUME NEW x \in Att(y.parent), NEW j \in 0..F-1 PROVE dict[x + j] = z.dict[x + j]
    <3>1. PICK a \in m+1..(m+1)+N-F-1 : x = a % N
      BY <1>16, <1>18
    <3>2. a \in m+1..m+(N-F)
      <4>1. m \in Nat
        BY <1>2 DEF m
      <4>2. (m+1)+N-F-1 = m+(N-F)
        BY <1>3, <4>1
      <4> QED
        BY <4>2
    <3> QED
      BY <1>f, <3>1, <3>2 DEF SameBehind
  <2>7. IsOrder(dict, y.lson, y.rson, y.parent, D)
    BY <2>2, <2>5, <2>6, OrderFrame
  <2> QED
    BY <1>13, <2>2, <2>4, <2>7 DEF Trees, Tree, Ordered
<1>19. Behind(y)
  BY <1>14, <1>18 DEF Behind
<1>h. HeldBehind(y)
  <2> DEFINE top == m + (N - F)
  <2>1. /\ m \in Nat /\ top \in Nat /\ top < m + N /\ m+N-F = top /\ (m+1)+N-F-1 = top
        /\ z.s = m % N
    <3>1. m \in Nat /\ z.s = m % N
      BY <1>2, <1>3 DEF m
    <3>2. /\ top \in Nat /\ top < m + N /\ m+N-F = top /\ (m+1)+N-F-1 = top
      BY <1>3, <3>1
    <3> QED
      BY <3>1, <3>2
  <2>2. Held(z.dict, InTree(z), m, top)
    BY <1>1, <2>1 DEF HeldInWindow, m
  <2>3. SameBehind(z.dict, dict, m, top)
    BY <1>f
  <2> HIDE DEF top
  <2>4. \A x \in InTree(z) : x # m % N => x \in InTree(y)
    BY <1>16, <2>1
  <2>5. Held(dict, InTree(y), m + 1, top)
    BY <2>1, <2>2, <2>3, <2>4, HeldOn
  <2> QED
    BY <1>13, <1>14, <2>1, <2>5 DEF HeldBehind
<1>20. y.r \notin InTree(y)
  <2> SUFFICES ASSUME y.r \in InTree(y) PROVE FALSE
    OBVIOUS
  <2>1. PICK a \in m+1..(m+1)+N-F-1 : r = a % N
    BY <1>13, <1>18
  <2> QED
    BY <1>10, <2>1, AheadIsNew
<1>21. y.todo = z.todo - 1 /\ y.todo <= y.len
  BY <1>1, <1>2, <1>5, <1>8, <1>12, <1>13
<1> QED
  BY <1>8, <1>12, <1>13, <1>14, <1>15, <1>17, <1>h, <1>19, <1>20, <1>21 DEF Stepped, Base, m

\* The codes of a stage with the same text.
LEMMA MoveOn ==
    ASSUME NEW z, NEW in, Moving(z, in), NEW y, y = Move(z, in), y.len # 0,
           NEW x, x = InsertNode(y, y.r, Way(y, y.r))
    PROVE  /\ y.todo > 0 => Moving(x, in)
           /\ ~(y.todo > 0) => Coding(x, in)
<1>1. /\ Base(y, in) /\ Behind(y) /\ HeldBehind(y) /\ y.r \notin InTree(y)
      /\ Moved(y) = Moved(z) + 1 /\ y.todo = z.todo - 1 /\ y.todo <= y.len
      /\ y.out = z.out /\ y.buf = z.buf /\ y.mask = z.mask
  BY MovedOn DEF Stepped
<1>2. Counted(y, in) /\ y \in Compressor
  BY <1>1 DEF Base
<1>3. y.len \in Nat /\ y.len > 0 /\ y.todo \in Nat
  <2>1. y.len \in Nat
    BY <1>2, CountedIs
  <2>2. y.todo \in Nat
    BY <1>2 DEF Compressor
  <2> QED
    BY <2>1, <2>2
<1>4. /\ Base(x, in) /\ SameText(x, y) /\ Moved(x) = Moved(y) /\ InWindow(x) /\ MatchInWindow(x)
      /\ HeldInWindow(x) /\ Longest(x)
  BY <1>1, <1>3, PutAhead
<1>5. x.len = y.len /\ x.todo = y.todo /\ x.out = y.out /\ x.buf = y.buf /\ x.mask = y.mask
  BY <1>4 DEF SameText
<1>6. CodedUpTo(x.out, x.buf, x.mask, in, Moved(x) + x.todo)
  <2>1. CodedUpTo(z.out, z.buf, z.mask, in, Moved(z) + z.todo)
    BY DEF Moving
  <2>2. z.todo \in Nat /\ Moved(z) \in Nat
    <3>1. Counted(z, in) /\ z \in Compressor
      BY DEF Moving, Base
    <3>2. Moved(z) \in Nat
      BY <3>1, CountedIs
    <3> QED
      BY <3>1, <3>2 DEF Compressor
  <2>3. Moved(x) + x.todo = Moved(z) + z.todo
    BY <1>1, <1>4, <1>5, <2>2
  <2> QED
    BY <1>1, <1>5, <2>1, <2>3
<1>7. ASSUME y.todo > 0 PROVE Moving(x, in)
  <2>1. x.todo \in 1..x.len
    BY <1>1, <1>3, <1>5, <1>7
  <2> QED
    BY <1>4, <1>6, <2>1 DEF Moving
<1>8. ASSUME ~(y.todo > 0) PROVE Coding(x, in)
  <2>1. x.len > 0 /\ x.todo = 0
    BY <1>3, <1>5, <1>8
  <2>2. Moved(x) + x.todo = Moved(x)
    <3>1. y.todo = 0
      BY <1>3, <1>8
    <3>2. Moved(x) \in Nat
      BY <1>2, <1>4, CountedIs
    <3> QED
      BY <1>5, <3>1, <3>2
  <2> QED
    BY <1>4, <1>6, <2>1, <2>2 DEF Coding
<1> QED
  BY <1>7, <1>8

\* The last byte has been coded.
LEMMA MoveToEnd ==
    ASSUME NEW z, NEW in, Moving(z, in), NEW y, y = Move(z, in), y.len = 0
    PROVE  ~(y.todo > 0) /\ Ended(Finish(y), in)
<1>1. /\ Base(y, in) /\ Moved(y) = Moved(z) + 1 /\ y.todo = z.todo - 1 /\ y.todo <= y.len
      /\ y.out = z.out /\ y.buf = z.buf /\ y.mask = z.mask /\ y.next = Len(in)
  BY MovedOn DEF Stepped
<1>2. Counted(y, in) /\ y \in Compressor
  BY <1>1 DEF Base
<1>3. y.todo = 0
  <2>1. y.todo \in Nat
    BY <1>2 DEF Compressor
  <2>2. y.todo <= 0
    BY <1>1
  <2> QED
    BY <2>1, <2>2
<1>4. in \in Seq(Char) /\ Len(in) \in Nat /\ Moved(y) = Len(in)
  <2>1. in \in Seq(Char) /\ Len(in) \in Nat /\ Moved(y) = y.next - y.len
    BY <1>2, CountedIs
  <2> QED
    BY <1>1, <2>1
<1>5. CodedUpTo(y.out, y.buf, y.mask, in, Len(in))
  <2>1. CodedUpTo(z.out, z.buf, z.mask, in, Moved(z) + z.todo)
    BY DEF Moving
  <2>2. z.todo \in Nat /\ Moved(z) \in Nat
    <3>1. Counted(z, in) /\ z \in Compressor
      BY DEF Moving, Base
    <3>2. Moved(z) \in Nat
      BY <3>1, CountedIs
    <3> QED
      BY <3>1, <3>2 DEF Compressor
  <2>3. Moved(z) + z.todo = Len(in)
    BY <1>1, <1>3, <1>4, <2>2
  <2> QED
    BY <1>1, <2>1, <2>3
<1>6. PICK fr :
        /\ Explains(fr, in) /\ Len(fr) = Len(in) /\ Holds(y.out, y.buf, y.mask, fr)
        /\ y.mask = 0 => y.buf = <<0>> /\ After(y.out) = [from |-> fr, flags |-> 0, left |-> 0, first |-> << >>]
        /\ y.mask # 0 => Len(y.buf) > 1
  BY <1>5 DEF CodedUpTo
<1>7. y.out \in Seq(0..Low-1) /\ y.out \o y.buf \in Seq(0..Low-1)
      /\ After(y.out \o y.buf) = [from |-> fr, flags |-> 0, left |-> Group - y.mask, first |-> << >>]
  <2>1. y.out \in Seq(0..Low-1)
    BY <1>6 DEF Holds
  <2> QED
    BY <1>6, <2>1, HoldsNow
<1>8. CASE Len(y.buf) > 1
  <2>1. Finish(y) = [y EXCEPT !.out = y.out \o y.buf, !.buf = <<0>>]
    BY <1>8 DEF Finish
  <2>2. Finish(y).out = y.out \o y.buf
    BY <1>2, <2>1 DEF Compressor
  <2>3. After(Finish(y).out).from = fr
    BY <1>7, <2>2
  <2> QED
    BY <1>3, <1>4, <1>6, <1>7, <2>2, <2>3 DEF Ended
<1>9. CASE ~(Len(y.buf) > 1)
  <2>1. Finish(y) = y /\ y.mask = 0
    BY <1>6, <1>9 DEF Finish
  <2>2. After(Finish(y).out).from = fr
    BY <1>6, <2>1
  <2> QED
    BY <1>3, <1>4, <1>6, <1>7, <2>1, <2>2 DEF Ended
<1> QED
  BY <1>8, <1>9

\* What is put out decodes to the input, whatever fills it up.
LEMMA EndedDecodes ==
    ASSUME NEW z, NEW in, Ended(z, in), NEW n \in Nat
    PROVE  Decompress(z.out \o [i \in 1..n |-> 0], Len(in)) = in
<1>1. PICK fr : Explains(fr, in) /\ Len(fr) = Len(in) /\ After(z.out).from = fr
  BY DEF Ended
<1>2. in \in Seq(Char) /\ z.out \in Seq(Nat) /\ Len(in) \in Nat
  BY ByteSeq DEF Ended
<1> DEFINE code == z.out \o [i \in 1..n |-> 0]
<1>3. code \in Seq(Nat) /\ \E t \in Seq(Nat) : After(code).from = After(z.out).from \o t
  BY <1>2, AfterMore
<1>4. PICK t \in Seq(Nat) : After(code).from = fr \o t
  BY <1>1, <1>3
<1> HIDE DEF code
<1>5. Least(Len(in), Len(fr) + Len(t)) = Len(fr)
  <2>1. Len(t) \in Nat
    OBVIOUS
  <2> QED
    BY <1>1, <1>2, <2>1 DEF Least
<1>6. Decompress(code, Len(in)) = SubSeq(in, 1, Len(fr))
  <2>1. Covers(code, Len(in), fr, t, in)
    BY <1>1, <1>2, <1>3, <1>4, <1>5 DEF Covers
  <2> QED
    BY <2>1, Decompressed
<1>7. SubSeq(in, 1, Len(in)) = in
  BY <1>2
<1> QED
  BY <1>1, <1>6, <1>7 DEF code

\* What has been coded so far decodes to what is not ahead any more.
LEMMA CodingDecodes ==
    ASSUME NEW z, NEW in, Coding(z, in), NEW code, code = z.out \o (IF z.mask = 0 THEN << >> ELSE z.buf),
           NEW size \in Nat, size >= Len(in)
    PROVE  Decompress(code, size) = SubSeq(in, 1, Moved(z))
<1>1. Counted(z, in) /\ CodedUpTo(z.out, z.buf, z.mask, in, Moved(z))
  BY DEF Coding, Base
<1>2. in \in Seq(Char) /\ Len(in) \in Nat /\ Moved(z) \in Nat /\ Moved(z) <= Len(in)
  <2>1. /\ in \in Seq(Char) /\ Len(in) \in Nat
        /\ z.next \in Nat /\ z.len \in Nat /\ Moved(z) \in Nat /\ Moved(z) = z.next - z.len
        /\ z.next <= Len(in)
    BY <1>1, CountedIs
  <2> QED
    BY <2>1
<1>3. PICK fr :
        /\ Explains(fr, in) /\ Len(fr) = Moved(z) /\ Holds(z.out, z.buf, z.mask, fr)
        /\ z.mask = 0 => z.buf = <<0>> /\ After(z.out) = [from |-> fr, flags |-> 0, left |-> 0, first |-> << >>]
  BY <1>1 DEF CodedUpTo
<1>4. code \in Seq(0..Low-1) /\ After(code).from = fr
  <2>1. CASE z.mask = 0
    <3>1. z.out \in Seq(0..Low-1)
      BY <1>3 DEF Holds
    <3>2. code = z.out
      BY <2>1, <3>1
    <3> QED
      BY <1>3, <2>1, <3>1, <3>2
  <2>2. CASE z.mask # 0
    <3>1. code = z.out \o z.buf
      BY <2>2
    <3>2. z.out \o z.buf \in Seq(0..Low-1)
          /\ After(z.out \o z.buf) = [from |-> fr, flags |-> 0, left |-> Group - z.mask, first |-> << >>]
      BY <1>3, HoldsNow
    <3>3. After(z.out \o z.buf).from = fr
      BY <3>2
    <3> QED
      BY <3>1, <3>2, <3>3, Zenon
  <2> QED
    BY <2>1, <2>2
<1>5. code \in Seq(Nat) /\ fr \in Seq(Nat)
  BY <1>3, <1>4, ByteSeq DEF Explains
<1> DEFINE t == << >>
<1>6. t \in Seq(Nat) /\ After(code).from = fr \o t /\ Len(t) = 0
  BY <1>4, <1>5
<1>7. Least(size, Len(fr) + Len(t)) = Len(fr)
  BY <1>2, <1>3, <1>6 DEF Least
<1> HIDE DEF t
<1>8. Covers(code, size, fr, t, in)
  BY <1>2, <1>3, <1>5, <1>6, <1>7 DEF Covers
<1>9. Decompress(code, size) = SubSeq(in, 1, Len(fr))
  BY <1>8, Decompressed
<1> QED
  BY <1>3, <1>9

\* The match is a match, and no string of the window that is stood for, d bytes behind r,
\* agrees with r in more bytes.
LEMMA CodingLongest ==
    ASSUME NEW z, NEW in, Coding(z, in)
    PROVE  /\ \A d \in 1..N-F :
                d <= Moved(z) \/ Moved(z) <= N - 2*F =>
                    \E i \in 0..z.matchLen :
                        i < F => z.dict[((z.r + N - d) % N) + i] # z.dict[z.r + i]
           /\ \A j \in 0..z.matchLen-1 : z.dict[z.matchPos + j] = z.dict[z.r + j]
<1>1. z \in Compressor /\ Counted(z, in) /\ Longest(z) /\ MatchInWindow(z)
  BY DEF Coding, Base
<1> DEFINE m == Moved(z)
<1>2. /\ m \in Nat /\ N \in Nat \ {0} /\ F \in Nat /\ F > 0 /\ F + F <= N /\ N - F \in Nat
      /\ z.r = (m + (N - F)) % N /\ z.r \in 0..N-1
  BY <1>1, CountedIs DEF Compressor, Strings
<1> HIDE DEF m
<1>3. ASSUME NEW d \in 1..N-F, d <= m \/ m <= N - 2*F
      PROVE  \E i \in 0..z.matchLen : i < F => z.dict[((z.r + N - d) % N) + i] # z.dict[z.r + i]
  <2> DEFINE b == m + (N - F)
             a == b - d
  <2>1. b \in Nat /\ a \in m..m+N-F-1 /\ a \in Nat /\ a + N = b + (N - d) /\ N - d \in 0..N-1
    BY <1>2
  <2>2. StoodFor(m, a)
    BY <1>2, <1>3 DEF StoodFor
  <2>3. ((b % N) + (N - d)) % N = (b + (N - d)) % N
    <3> HIDE DEF b, a
    <3> QED
      BY <1>2, <2>1, ModAdd
  <2>4. (a + N) % N = a % N
    <3> HIDE DEF b, a
    <3> QED
      BY <1>2, <2>1, ModPeriod
  <2>5. z.r + N - d = (b % N) + (N - d)
    BY <1>2, <2>1
  <2>6. (z.r + N - d) % N = a % N
    <3> HIDE DEF b, a
    <3> QED
      BY <2>1, <2>3, <2>4, <2>5
  <2> HIDE DEF b, a
  <2>7. Within(z.dict, a % N, z.r, z.matchLen)
    BY <1>1, <2>1, <2>2 DEF Longest, m
  <2> QED
    BY <2>6, <2>7 DEF Within
<1>4. ASSUME NEW j \in 0..z.matchLen-1 PROVE z.dict[z.matchPos + j] = z.dict[z.r + j]
  <2>1. z.matchLen \in Nat
    BY <1>1, <1>2 DEF Compressor
  <2>2. z.matchLen # 0
    BY <2>1
  <2>3. \A i \in 0..z.matchLen-1 : z.dict[z.r + i] = z.dict[z.matchPos + i]
    BY <1>1, <2>2 DEF MatchInWindow
  <2> QED
    BY <2>3
<1> QED
  BY <1>3, <1>4 DEF m
=============================================================================
