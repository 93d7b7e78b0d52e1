-------------------------------- MODULE Lzss --------------------------------
(***************************************************************************)
(* apestamp's LZSS compressor, as operators on its state, and the format   *)
(* that it writes, as what a decoder reads from it.                        *)
(*                                                                         *)
(* A compressor z has the window z.dict, the search trees z.lson, z.rson   *)
(* and z.parent of the strings that begin in it, the match of the string   *)
(* at z.r, the number z.len of bytes that are not coded yet, the number    *)
(* z.next of bytes that have been read, the group of codes z.buf with      *)
(* z.mask codes in it, what has been put out, and the number z.todo of     *)
(* steps that a loop has left.                                             *)
(***************************************************************************)
EXTENDS Integers, SequencesExt

CONSTANTS
    N,          \* size of the window, 2048 in the code
    F,          \* longest match, 34
    Threshold,  \* longest match that is not worth a reference, 2
    Low,        \* values of the first byte of a reference, 256
    Group,      \* codes that share a byte of flags, 8
    Char,       \* bytes
    Space       \* what the window is full of at first

ASSUME LzssAssumption ==
    /\ {N, F, Threshold, Low, Group} \subseteq Nat \ {0}
    /\ 2 * F <= N /\ Threshold < F /\ N % Low = 0 /\ Space \in Char /\ Char \subseteq 0..Low-1

NIL     == N
Root(c) == N + 1 + c
Refs    == F - Threshold    \* lengths of a reference, 32
Bit[i \in 0..Group] == IF i = 0 THEN 1 ELSE 2 * Bit[i - 1]

\* The flags of a group are a byte, as is the second byte of a reference.
ASSUME BytesAssumption == Bit[Group] <= Low /\ (N \div Low) * Refs <= Low

Least(a, b) == IF a < b THEN a ELSE b

-----------------------------------------------------------------------------
(* The search trees.                                                       *)

\* How many bytes the strings at p and r share, which begin with the same byte.
Shared(z, p, r) ==
    CHOOSE i \in 1..F :
        /\ \A j \in 1..i-1 : z.dict[r + j] = z.dict[p + j]
        /\ i < F => z.dict[r + i] # z.dict[p + i]

Less(z, r, p) == z.dict[r + Shared(z, p, r)] < z.dict[p + Shared(z, p, r)]

\* The strings that are in the trees.
InTree(z) == {x \in 0..N-1 : z.parent[x] # NIL}

\* The nodes that r is compared with, and in how many bytes each agrees: down to
\* its parent, or to a node that agrees in F bytes.
Way(z, r) ==
    LET down[p \in InTree(z) \union {NIL}] ==
            IF p = NIL THEN << >>
            ELSE LET i == Shared(z, p, r) IN
                 <<[node |-> p, len |-> i]>> \o
                    (IF i = F THEN << >>
                     ELSE down[IF z.dict[r + i] < z.dict[p + i] THEN z.lson[p] ELSE z.rson[p]])
    IN  down[z.rson[Root(z.dict[r])]]

\* r takes the place of p, which would be deleted sooner.
Replace(z, p, r) ==
    LET up == z.parent[p]
        right == z.rson[up] = p
    IN  [z EXCEPT
           !.rson = [x \in DOMAIN @ |-> IF x = r THEN @[p] ELSE IF right /\ x = up THEN r ELSE @[x]],
           !.lson = [x \in DOMAIN @ |-> IF x = r THEN @[p] ELSE IF ~right /\ x = up THEN r ELSE @[x]],
           !.parent = [@ EXCEPT ![r] = up, ![z.lson[p]] = r, ![z.rson[p]] = r, ![p] = NIL]]

Hang(z, p, r, left) ==
    [z EXCEPT !.rson = [x \in DOMAIN @ |-> IF x = r THEN NIL ELSE IF ~left /\ x = p THEN r ELSE @[x]],
              !.lson = [x \in DOMAIN @ |-> IF x = r THEN NIL ELSE IF left /\ x = p THEN r ELSE @[x]],
              !.parent[r] = p]

\* r is put into the tree of its first byte, way down.  The match is the first of
\* the longest on the way.
InsertNode(z, r, way) ==
    LET end  == Last(way)
        left == z.dict[r + end.len] < z.dict[end.node + end.len]
        best == CHOOSE b \in ToSet(way) : \A i \in DOMAIN way :
                   way[i].len < b.len \/ (way[i].len = b.len /\ \E j \in 1..i : way[j] = b)
    IN  IF way = << >> THEN [Hang(z, Root(z.dict[r]), r, FALSE) EXCEPT !.matchLen = 0]
        ELSE [IF end.len = F THEN Replace(z, end.node, r) ELSE Hang(z, end.node, r, left)
              EXCEPT !.matchPos = best.node, !.matchLen = best.len]

\* The node that takes the place of p.
Heir(z, p) ==
    LET rightmost[x \in InTree(z)] == IF z.rson[x] = NIL THEN x ELSE rightmost[z.rson[x]]
    IN  IF z.rson[p] = NIL THEN z.lson[p]
        ELSE IF z.lson[p] = NIL THEN z.rson[p] ELSE rightmost[z.lson[p]]

\* Faulty variant: the subtree of q is lost.
InheritNot(z, p, q) ==
    IF NIL \in {z.lson[p], z.rson[p]} THEN z
    ELSE [z EXCEPT !.rson[q] = z.rson[p], !.parent[z.rson[p]] = q]

\* q has p's children, and its parent has q's.
Inherit(z, p, q) ==
    IF NIL \in {z.lson[p], z.rson[p]} THEN z
    ELSE IF q = z.lson[p] THEN [z EXCEPT !.rson[q] = z.rson[p], !.parent[z.rson[p]] = q]
    ELSE [z EXCEPT
            !.rson = [@ EXCEPT ![z.parent[q]] = z.lson[q], ![q] = z.rson[p]],
            !.lson[q] = z.lson[p],
            !.parent = [@ EXCEPT ![z.lson[q]] = z.parent[q], ![z.lson[p]] = q, ![z.rson[p]] = q]]

DeleteNode(z, p) ==
    LET q == Heir(z, p)
        y == Inherit(z, p, q)
        up == z.parent[p]
        right == y.rson[up] = p
    IN  IF up = NIL THEN z
        ELSE [y EXCEPT
                !.rson = [x \in DOMAIN @ |-> IF right /\ x = up THEN q ELSE @[x]],
                !.lson = [x \in DOMAIN @ |-> IF ~right /\ x = up THEN q ELSE @[x]],
                !.parent = [@ EXCEPT ![q] = up, ![p] = NIL]]

-----------------------------------------------------------------------------
(* The compressor.                                                         *)

\* The part of the window that is read though nothing was written to it: what is
\* behind a short input, and the end that repeats the beginning.
Unset(in) == N - F + Least(F, Len(in))..N + F - 2

\* Nothing is coded yet, and F + 1 strings are to be inserted.
Compress(in, garbage) ==
    LET read == Least(F, Len(in))
        r    == N - F
    IN  [dict   |-> [x \in 0..N+F-2 |-> IF x < r THEN Space
                                        ELSE IF x < r + read THEN in[x - r + 1] ELSE garbage[x]],
         lson   |-> [x \in 0..N-1 |-> NIL],
         rson   |-> [x \in (0..N-1) \union {Root(c) : c \in Char} |-> NIL],
         parent |-> [x \in 0..N |-> NIL],
         matchPos |-> 0, matchLen |-> 0, r |-> r, s |-> 0, len |-> read, next |-> read,
         buf |-> <<0>>, mask |-> 0, out |-> << >>, todo |-> F + 1]

\* What is inserted then: the strings of spaces first, and what is to be coded.
ToFill(z) == IF z.todo = 1 THEN z.r ELSE z.r - (F + 2 - z.todo)

\* Faulty variant: a match may be longer than what is left.
MatchUncapped(z) == IF z.matchLen <= Threshold THEN 1 ELSE z.matchLen

\* How many bytes the next code stands for.
Match(z) ==
    LET n == Least(z.matchLen, z.len) IN IF n <= Threshold THEN 1 ELSE n

\* A byte as it is, or the place and the length of a match in two bytes.
Put(z) ==
    LET n == Match(z) IN
    IF n = 1 THEN [Append(z.buf, z.dict[z.r]) EXCEPT ![1] = @ + Bit[z.mask]]
    ELSE z.buf \o <<z.matchPos % Low, ((z.matchPos \div Low) * Refs) + n - (Threshold + 1)>>

\* The next code.  A group that is full is put out.
Code(z) ==
    IF z.mask + 1 = Group
    THEN [z EXCEPT !.todo = Match(z), !.out = @ \o Put(z), !.buf = <<0>>, !.mask = 0]
    ELSE [z EXCEPT !.todo = Match(z), !.buf = Put(z), !.mask = @ + 1]

\* Faulty variant: the end of the window does not repeat its beginning.
MoveUnrepeated(z, in) ==
    LET more == z.next < Len(in) IN
    [DeleteNode(z, z.s) EXCEPT
        !.s = (@ + 1) % N, !.r = (@ + 1) % N, !.todo = @ - 1,
        !.dict = IF more THEN [@ EXCEPT ![z.s] = in[z.next + 1]] ELSE @,
        !.next = IF more THEN @ + 1 ELSE @, !.len = IF more THEN @ ELSE @ - 1]

\* Faulty variant: the moves behind the end of the input are not counted.
MoveUncounted(z, in) ==
    LET more == z.next < Len(in) IN
    [DeleteNode(z, z.s) EXCEPT
        !.s = (@ + 1) % N, !.r = (@ + 1) % N, !.todo = IF more THEN @ - 1 ELSE @,
        !.dict = [x \in DOMAIN @ |->
                    IF more /\ (x = z.s \/ (z.s < F - 1 /\ x = z.s + N)) THEN in[z.next + 1] ELSE @[x]],
        !.next = IF more THEN @ + 1 ELSE @]

\* The window moves on by a byte, over one that is read while there are any.
Move(z, in) ==
    LET more == z.next < Len(in) IN
    [DeleteNode(z, z.s) EXCEPT
        !.s = (@ + 1) % N, !.r = (@ + 1) % N, !.todo = @ - 1,
        !.dict = [x \in DOMAIN @ |->
                    IF more /\ (x = z.s \/ (z.s < F - 1 /\ x = z.s + N)) THEN in[z.next + 1] ELSE @[x]],
        !.next = IF more THEN @ + 1 ELSE @, !.len = IF more THEN @ ELSE @ - 1]

\* What is left of a group is put out after the last byte.
Finish(z) == IF Len(z.buf) > 1 THEN [z EXCEPT !.out = @ \o z.buf, !.buf = <<0>>] ELSE z

-----------------------------------------------------------------------------
(* The decoder.                                                            *)

\* Where the bytes come from that have been decoded: the place of each in the
\* window, or N plus the byte; the flags of the group, and how many codes it has
\* left; and the first byte of a reference.
Decoder == [from : Seq(Nat), flags : Nat, left : Nat, first : Seq(Nat)]

\* It takes a byte: the second of a reference, the flags of a group, a byte as it
\* is, or the first of a reference.
Take[c \in Decoder] == [b \in Nat |->
    IF c.first # << >>
    THEN [c EXCEPT !.from = @ \o [j \in 1..(b % Refs) + Threshold + 1 |->
                                    (c.first[1] + (Low * (b \div Refs)) + j - 1) % N],
                   !.flags = @ \div 2, !.left = @ - 1, !.first = << >>]
    ELSE IF c.left = 0 THEN [c EXCEPT !.flags = b, !.left = Group]
    ELSE IF c.flags % 2 = 1
    THEN [c EXCEPT !.from = Append(@, N + b), !.flags = @ \div 2, !.left = @ - 1]
    ELSE [c EXCEPT !.first = <<b>>]]

Sources(code) ==
    LET at[i \in 0..Len(code)] ==
            IF i = 0 THEN [from |-> << >>, flags |-> 0, left |-> 0, first |-> << >>]
            ELSE Take[at[i - 1]][code[i]]
    IN  at[Len(code)].from

\* The first size bytes of it.
Decompress(code, size) ==
    LET from == Sources(code)
        byte[i \in 1..Len(from)] ==
            IF from[i] >= N THEN from[i] - N
            ELSE LET d == ((2 * N) - F + i - 1 - from[i]) % N
                     back == IF d = 0 THEN N ELSE d
                 IN  IF i <= back THEN Space ELSE byte[i - back]
    IN  [i \in 1..Least(size, Len(from)) |-> byte[i]]

=============================================================================
