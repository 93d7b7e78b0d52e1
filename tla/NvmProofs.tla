----------------------------- MODULE NvmProofs ------------------------------
(* The properties of Nvm for all constants.                                 *)
EXTENDS Nvm, TLAPS

Restoring == {"fill", "read", "write", "report"}

\* Where a process is in its file and in NVM.
Place(p) ==
    /\ pc[p] \in {"fill", "read", "write", "dump"} =>
           offset[p] = first[p] + done[p] /\ done[p] <= goal[p]
    /\ pc[p] \in {"fill", "read", "write"} => goal[p] = Len(file[p])
    /\ pc[p] = "set" => offset[p] = first[p] /\ goal[p] = 1 /\ Len(file[p]) = 1
    /\ pc[p] = "dump" => Len(out[p]) = done[p]
    /\ pc[p] \in {"off", "set"} => done[p] = 0

\* What is left of its buffer is what comes next in the file.
Buffer(p) ==
    pc[p] \in {"read", "write"} =>
        /\ nth[p] <= Len(buf[p])
        /\ done[p] + (Len(buf[p]) - nth[p]) + 1 <= goal[p]
        /\ \A k \in nth[p]..Len(buf[p]) : buf[p][k] = file[p][done[p] + (k - nth[p]) + 1]

\* What it has read is still there.
Fresh(p) ==
    pc[p] = "write" =>
        cur[p] \in Word /\ (clash[p] = 0 /\ offset[p] \in Addr => cur[p] = nvm[offset[p]])

Written(p) ==
    pc[p] \in Restoring /\ clash[p] = 0 =>
        \A k \in 1..done[p] : first[p] + k - 1 \in Addr => nvm[first[p] + k - 1] = file[p][k]

Dumped(p) ==
    pc[p] = "dump" /\ clash[p] = 0 =>
        \A k \in 1..Len(out[p]) : first[p] + k - 1 \in Addr =>
            out[p][k] = nvm[first[p] + k - 1]

JobInv(p) == Place(p) /\ Buffer(p) /\ Fresh(p) /\ Written(p) /\ Dumped(p)

\* A restore that says it is done has no more set than there is in the file.
Within(p) == pc[p] = "report" => done[p] <= goal[p]

IInv == TypeOK /\ \A p \in Procs : JobInv(p) /\ Within(p)

-----------------------------------------------------------------------------
LEMMA SwapTwice == \A w \in Word : Swap(Swap(w)) = w /\ Swap(w) \in Word
BY NvmAssumption DEF Swap

LEMMA WordNotNone == NoWord \notin Word
<1> SUFFICES ASSUME << >> \in Word PROVE FALSE
  BY DEF NoWord
<1>1. << >> = << << >>[1], << >>[2] >>
  BY NvmAssumption
<1> QED
  BY <1>1

LEMMA Element == ASSUME NEW s \in Seq(Word), NEW k \in 1..Len(s) PROVE s[k] \in Word
OBVIOUS

LEMMA InitInv == Init => IInv
<1> SUFFICES ASSUME Init PROVE IInv
  OBVIOUS
<1>1. TypeOK
  BY NvmAssumption DEF Init, TypeOK, Pc
<1>2. ASSUME NEW p \in Procs PROVE JobInv(p) /\ Within(p)
  BY DEF Init, JobInv, Place, Buffer, Fresh, Written, Dumped, Within, Restoring
<1> QED
  BY <1>1, <1>2 DEF IInv

-----------------------------------------------------------------------------
(* A process's step and the other processes.                                *)

\* The locals of q are what they were.
Same(q) ==
    /\ pc'[q] = pc[q] /\ first'[q] = first[q] /\ file'[q] = file[q] /\ goal'[q] = goal[q]
    /\ buf'[q] = buf[q] /\ nth'[q] = nth[q] /\ offset'[q] = offset[q] /\ cur'[q] = cur[q]
    /\ done'[q] = done[q] /\ out'[q] = out[q]

\* Either what q is about is not written to, or q's history says so.
Spared(q) ==
    /\ clash'[q] = 0 /\ pc[q] # "off" => clash[q] = 0
    /\ clash'[q] = 0 /\ pc[q] # "off" => \A a \in Addr : a \in About(q) => nvm'[a] = nvm[a]

LEMMA OthersKeep ==
    ASSUME IInv, NEW q \in Procs, Same(q), Spared(q)
    PROVE  (JobInv(q) /\ Within(q))'
<1> USE DEF Same, IInv, TypeOK, Addr
<1>1. Place(q)' /\ Buffer(q)' /\ Within(q)'
  BY DEF JobInv, Place, Buffer, Within
<1>2. Fresh(q)'
  <2> SUFFICES ASSUME pc[q] = "write"
               PROVE  /\ cur[q] \in Word
                      /\ clash'[q] = 0 /\ offset[q] \in Addr => cur[q] = nvm'[offset[q]]
    BY DEF Fresh
  <2>1. offset[q] \in About(q)
    BY DEF JobInv, Place, Buffer, About
  <2> QED
    BY <2>1 DEF JobInv, Fresh, Spared
<1>3. Written(q)'
  <2> SUFFICES ASSUME pc[q] \in Restoring, clash'[q] = 0,
                      NEW k \in 1..done[q], first[q] + k - 1 \in Addr
               PROVE  nvm'[first[q] + k - 1] = file[q][k]
    BY DEF Written
  <2>1. clash[q] = 0 /\ done[q] <= goal[q]
    BY DEF Restoring, Spared, JobInv, Place, Within
  <2>2. nvm[first[q] + k - 1] = file[q][k]
    BY <2>1 DEF JobInv, Written
  <2>3. first[q] + k - 1 \in About(q)
    BY <2>1 DEF About
  <2> QED
    BY <2>2, <2>3 DEF Spared, Restoring
<1>4. Dumped(q)'
  <2> SUFFICES ASSUME pc[q] = "dump", clash'[q] = 0,
                      NEW k \in 1..Len(out[q]), first[q] + k - 1 \in Addr
               PROVE  out[q][k] = nvm'[first[q] + k - 1]
    BY DEF Dumped
  <2>1. clash[q] = 0 /\ Len(out[q]) <= goal[q]
    BY DEF Spared, JobInv, Place
  <2>2. out[q][k] = nvm[first[q] + k - 1]
    BY <2>1 DEF JobInv, Dumped
  <2>3. first[q] + k - 1 \in About(q)
    BY <2>1 DEF About
  <2> QED
    BY <2>2, <2>3 DEF Spared
<1> QED
  BY <1>1, <1>2, <1>3, <1>4 DEF JobInv

LEMMA WriteSpares ==
    ASSUME IInv, NEW p \in Procs, NEW a \in Nat, NEW w, NVMWrite32(p, a, w),
           NEW q \in Procs \ {p}
    PROVE  Spared(q)
BY DEF IInv, TypeOK, Spared, NVMWrite32, Active, About

\* A write of a word to NVM.
LEMMA WriteType ==
    ASSUME IInv, NEW p \in Procs, NEW a \in Nat, NEW w \in Word, NVMWrite32(p, a, w)
    PROVE  /\ nvm' \in [Addr -> Word] /\ clash' \in [Procs -> {0, 1}]
           /\ clash'[p] = clash[p]
           /\ \A b \in Addr : nvm'[b] = IF b = a THEN w ELSE nvm[b]
BY DEF IInv, TypeOK, NVMWrite32

-----------------------------------------------------------------------------
(* The steps.                                                               *)

LEMMA LocalsInv ==
    ASSUME IInv, NEW p \in Procs, NEW f \in Seq(Word), NEW n \in Nat, NEW s \in 0..Size,
           NEW command \in {"off", "fill", "dump", "set"},
           command = "fill" => n = Len(f), command = "set" => n = 1 /\ Len(f) = 1,
           pc' = [pc EXCEPT ![p] = command], Locals(p, f, n, s), UNCHANGED nvm
    PROVE  IInv'
<1> USE DEF Locals
<1>1. TypeOK'
  <2>1. << >> \in Seq(Word)
    OBVIOUS
  <2>2. /\ nvm' \in [Addr -> Word] /\ pc' \in [Procs -> Pc] /\ first' \in [Procs -> 0..Size]
        /\ offset' \in [Procs -> Nat] /\ nth' \in [Procs -> Nat \ {0}]
    BY SMTT(30), NvmAssumption DEF IInv, TypeOK, Pc
  <2>3. file' \in [Procs -> Seq(Word)] /\ buf' \in [Procs -> Seq(Word)] /\ out' \in [Procs -> Seq(Word)]
    BY <2>1 DEF IInv, TypeOK
  <2>4. /\ goal' \in [Procs -> Nat] /\ done' \in [Procs -> Nat] /\ written' \in [Procs -> Nat]
        /\ cur' \in [Procs -> Word \union {NoWord}] /\ clash' \in [Procs -> {0, 1}]
    BY DEF IInv, TypeOK
  <2> QED
    BY <2>2, <2>3, <2>4 DEF TypeOK
<1>2. (JobInv(p) /\ Within(p))'
  BY DEF IInv, TypeOK, JobInv, Place, Buffer, Fresh, Written, Dumped, Within, Restoring
<1>3. ASSUME NEW q \in Procs \ {p} PROVE Same(q) /\ Spared(q)
  BY DEF IInv, TypeOK, Same, Spared
<1> QED
  BY <1>1, <1>2, <1>3, OthersKeep DEF IInv

LEMMA FillInv ==
    ASSUME IInv, NEW p \in Procs, Fill(p) \/ FillFails(p)
    PROVE  IInv'
<1> DEFINE n == IF goal[p] - done[p] < Chunk THEN goal[p] - done[p] ELSE Chunk
<1>0. /\ n \in Nat /\ n <= goal[p] - done[p] /\ goal[p] = Len(file[p])
      /\ \A k \in 1..n : /\ htonl(FRead(file[p][done[p] + k])) = file[p][done[p] + k]
                         /\ file[p][done[p] + k] \in Word
  <2>1. /\ pc[p] = "fill" /\ file[p] \in Seq(Word)
        /\ goal[p] \in Nat /\ done[p] \in Nat /\ Chunk \in Nat \ {0}
    BY NvmAssumption DEF IInv, TypeOK, Fill, FillFails
  <2>2. done[p] <= goal[p] /\ goal[p] = Len(file[p])
    BY <2>1 DEF IInv, JobInv, Place
  <2>3. n \in Nat /\ n <= goal[p] - done[p]
    BY <2>1, <2>2
  <2>4. ASSUME NEW k \in 1..n
        PROVE  /\ htonl(FRead(file[p][done[p] + k])) = file[p][done[p] + k]
               /\ file[p][done[p] + k] \in Word
    <3> HIDE DEF n
    <3>1. done[p] + k \in 1..Len(file[p])
      BY <2>1, <2>2, <2>3
    <3>2. file[p][done[p] + k] \in Word
      BY <2>1, <3>1, Element
    <3> QED
      BY <3>2, SwapTwice DEF htonl, FRead
  <2> QED
    BY <2>2, <2>3, <2>4
<1>1. CASE Fill(p) /\ n # 0
  <2>1. /\ buf' = [buf EXCEPT ![p] = [k \in 1..n |-> htonl(FRead(file[p][done[p] + k]))]]
        /\ nth' = [nth EXCEPT ![p] = 1] /\ pc' = [pc EXCEPT ![p] = "read"]
        /\ UNCHANGED <<nvm, job, offset, cur, done, written, out, clash>>
    BY <1>1 DEF Fill
  <2>2. /\ buf'[p] = [k \in 1..n |-> file[p][done[p] + k]]
        /\ buf'[p] \in Seq(Word) /\ Len(buf'[p]) = n
    <3>1. buf'[p] = [k \in 1..n |-> htonl(FRead(file[p][done[p] + k]))]
      BY <2>1 DEF IInv, TypeOK
    <3>2. buf'[p] = [k \in 1..n |-> file[p][done[p] + k]]
      BY <1>0, <3>1
    <3> HIDE DEF n
    <3> QED
      BY <1>0, <3>2
  <2>3. TypeOK'
    <3> HIDE DEF n
    <3>1. buf' \in [Procs -> Seq(Word)]
      BY <2>1, <2>2 DEF IInv, TypeOK
    <3>2. pc' \in [Procs -> Pc] /\ nth' \in [Procs -> Nat \ {0}]
      BY <2>1 DEF IInv, TypeOK, Pc
    <3> QED
      BY <2>1, <3>1, <3>2 DEF IInv, TypeOK, job
  <2>4. (JobInv(p) /\ Within(p))'
    <3>1. /\ pc[p] = "fill" /\ pc'[p] = "read" /\ nth'[p] = 1
          /\ offset[p] = first[p] + done[p] /\ done[p] <= goal[p]
      BY <1>1, <2>1 DEF Fill, IInv, TypeOK, JobInv, Place
    <3>2. Place(p)' /\ Within(p)' /\ Fresh(p)' /\ Dumped(p)'
      BY <1>0, <2>1, <3>1 DEF job, Place, Within, Fresh, Dumped
    <3> HIDE DEF n
    <3>3. Buffer(p)'
      <4>1. goal'[p] = goal[p] /\ file'[p] = file[p] /\ done'[p] = done[p] /\ n \in Nat \ {0}
        BY <1>0, <1>1, <2>1 DEF job
      <4>2. nth'[p] <= Len(buf'[p]) /\ done'[p] + (Len(buf'[p]) - nth'[p]) + 1 <= goal'[p]
        BY <1>0, <2>2, <3>1, <4>1 DEF IInv, TypeOK
      <4>3. ASSUME NEW k \in 1..n PROVE buf'[p][k] = file[p][done[p] + (k - 1) + 1]
        <5>1. done[p] + (k - 1) + 1 = done[p] + k
          BY DEF IInv, TypeOK
        <5> QED
          BY <2>2, <5>1
      <4> QED
        BY <2>2, <3>1, <4>1, <4>2, <4>3 DEF Buffer
    <3>4. Written(p)'
      BY <2>1, <3>1 DEF IInv, JobInv, job, Written, Restoring
    <3> QED
      BY <3>2, <3>3, <3>4 DEF JobInv
  <2>5. ASSUME NEW q \in Procs \ {p} PROVE Same(q) /\ Spared(q)
    BY <2>1 DEF IInv, TypeOK, Same, Spared, job
  <2> QED
    BY <2>3, <2>4, <2>5, OthersKeep DEF IInv
<1>2. CASE FillFails(p) \/ (Fill(p) /\ n = 0)
  <2>1. /\ pc[p] = "fill" /\ pc' = [pc EXCEPT ![p] = "report"]
        /\ UNCHANGED <<nvm, job, buf, nth, offset, cur, done, written, out, clash>>
    BY <1>2 DEF Fill, FillFails
  <2>2. TypeOK'
    BY <2>1 DEF IInv, TypeOK, job, Pc
  <2>3. (JobInv(p) /\ Within(p))'
    BY <2>1 DEF IInv, TypeOK, job, JobInv, Place, Buffer, Fresh, Written, Dumped, Within,
                Restoring
  <2>4. ASSUME NEW q \in Procs \ {p} PROVE Same(q) /\ Spared(q)
    BY <2>1 DEF IInv, TypeOK, Same, Spared, job
  <2> QED
    BY <2>2, <2>3, <2>4, OthersKeep DEF IInv
<1> QED
  BY <1>1, <1>2

LEMMA ReadWordInv ==
    ASSUME IInv, NEW p \in Procs, ReadWord(p)
    PROVE  IInv'
<1> USE DEF ReadWord
<1>1. PICK w \in Word : NVMRead32(offset[p], w) /\ cur' = [cur EXCEPT ![p] = w]
  OBVIOUS
<1>2. TypeOK'
  BY <1>1 DEF IInv, TypeOK, job, Pc
<1>3. (JobInv(p) /\ Within(p))'
  BY <1>1 DEF IInv, TypeOK, job, JobInv, Place, Buffer, Fresh, Written, Dumped, Within,
              Restoring, NVMRead32
<1>4. ASSUME NEW q \in Procs \ {p} PROVE Same(q) /\ Spared(q)
  BY <1>1 DEF IInv, TypeOK, Same, Spared, job
<1> QED
  BY <1>2, <1>3, <1>4, OthersKeep DEF IInv

LEMMA WriteWordInv ==
    ASSUME IInv, NEW p \in Procs, WriteWord(p)
    PROVE  IInv'
<1> USE DEF WriteWord
<1>1. /\ pc[p] = "write" /\ nth[p] \in 1..Len(buf[p]) /\ buf[p][nth[p]] \in Word
      /\ offset[p] = first[p] + done[p] /\ offset[p] \in Nat
      /\ buf[p][nth[p]] = file[p][done[p] + 1]
      /\ done[p] + 1 <= goal[p]
  <2>1. pc[p] = "write" /\ nth[p] \in 1..Len(buf[p]) /\ buf[p] \in Seq(Word)
    BY DEF IInv, TypeOK, JobInv, Buffer
  <2>2. buf[p][nth[p]] = file[p][done[p] + (nth[p] - nth[p]) + 1]
    BY SMTT(30), <2>1 DEF IInv, JobInv, Buffer
  <2>3. offset[p] = first[p] + done[p] /\ offset[p] \in Nat
    BY <2>1 DEF IInv, TypeOK, JobInv, Place
  <2>4. done[p] + (Len(buf[p]) - nth[p]) + 1 <= goal[p]
    BY <2>1 DEF IInv, JobInv, Buffer
  <2>5. done[p] + (nth[p] - nth[p]) + 1 = done[p] + 1 /\ done[p] + 1 <= goal[p]
    <3> HIDE DEF WriteWord
    <3>1. done[p] \in Nat /\ goal[p] \in Nat /\ nth[p] \in Nat /\ Len(buf[p]) \in Nat
      BY <2>1 DEF IInv, TypeOK
    <3>2. nth[p] <= Len(buf[p])
      BY <2>1, <3>1
    <3> QED
      BY <2>4, <3>1, <3>2
  <2>6. buf[p][nth[p]] \in Word
    BY <2>1, Element
  <2> HIDE DEF WriteWord
  <2>7. buf[p][nth[p]] = file[p][done[p] + 1]
    BY <2>2, <2>5
  <2> QED
    BY <2>1, <2>3, <2>5, <2>6, <2>7
<1>2. /\ nvm' \in [Addr -> Word] /\ clash' \in [Procs -> {0, 1}] /\ clash'[p] = clash[p]
      /\ \A b \in Addr : b # offset[p] => nvm'[b] = nvm[b]
      /\ clash[p] = 0 /\ offset[p] \in Addr => nvm'[offset[p]] = file[p][done[p] + 1]
      /\ written' \in [Procs -> Nat]
  <2>1. CASE cur[p] # buf[p][nth[p]]
    <3>1. NVMWrite32(p, offset[p], buf[p][nth[p]]) /\ written' = [written EXCEPT ![p] = @ + 1]
      BY <2>1
    <3>2. written' \in [Procs -> Nat]
      BY SMTT(30), <3>1 DEF IInv, TypeOK
    <3> QED
      BY <1>1, <3>1, <3>2, WriteType
  <2>2. CASE cur[p] = buf[p][nth[p]]
    BY <1>1, <2>2 DEF IInv, TypeOK, JobInv, Fresh
  <2> QED
    BY <2>1, <2>2
<1>3. TypeOK'
  <2>1. pc' \in [Procs -> Pc] /\ cur' \in [Procs -> Word \union {NoWord}]
    BY DEF IInv, TypeOK, Pc
  <2>2. offset' \in [Procs -> Nat] /\ nth' \in [Procs -> Nat \ {0}] /\ done' \in [Procs -> Nat]
    BY SMTT(30) DEF IInv, TypeOK
  <2> QED
    BY <1>2, <2>1, <2>2 DEF IInv, TypeOK, job
<1>4. Place(p)' /\ Buffer(p)' /\ Within(p)' /\ Fresh(p)' /\ Dumped(p)'
  <2>1. /\ offset'[p] = offset[p] + 1 /\ done'[p] = done[p] + 1 /\ nth'[p] = nth[p] + 1
        /\ pc'[p] = IF nth[p] = Len(buf[p]) THEN "fill" ELSE "read"
        /\ UNCHANGED <<job, buf, out>>
    BY DEF IInv, TypeOK
  <2>2. Place(p)'
    BY <1>1, <2>1 DEF IInv, TypeOK, job, JobInv, Place
  <2>3. Buffer(p)'
    <3> SUFFICES ASSUME pc'[p] = "read" PROVE Buffer(p)'
      BY <2>1 DEF Buffer
    <3>1. /\ nth[p] # Len(buf[p]) /\ file'[p] = file[p] /\ buf'[p] = buf[p] /\ goal'[p] = goal[p]
          /\ done[p] \in Nat /\ Len(buf[p]) \in Nat /\ nth[p] \in 1..Len(buf[p]) /\ goal[p] \in Nat
          /\ done[p] + (Len(buf[p]) - nth[p]) + 1 <= goal[p]
      BY <1>1, <2>1 DEF IInv, TypeOK, job, JobInv, Buffer
    <3> HIDE DEF WriteWord
    <3>2. /\ nth[p] + 1 <= Len(buf[p])
          /\ done[p] + 1 + (Len(buf[p]) - (nth[p] + 1)) + 1 <= goal[p]
      BY SMTT(30), <3>1
    <3>3. ASSUME NEW k \in nth[p] + 1..Len(buf[p])
          PROVE  buf[p][k] = file[p][done[p] + 1 + (k - (nth[p] + 1)) + 1]
      <4>1. k \in nth[p]..Len(buf[p])
        BY <3>1
      <4>2. buf[p][k] = file[p][done[p] + (k - nth[p]) + 1]
        BY <1>1, <4>1 DEF IInv, JobInv, Buffer
      <4>3. done[p] + 1 + (k - (nth[p] + 1)) + 1 = done[p] + (k - nth[p]) + 1
        <5>1. \A d, x, y \in Nat : d + 1 + (x - (y + 1)) + 1 = d + (x - y) + 1
          OBVIOUS
        <5>2. k \in Nat /\ nth[p] \in Nat /\ done[p] \in Nat
          BY <3>1
        <5> QED
          BY <5>1, <5>2
      <4> QED
        BY <4>2, <4>3
    <3>4. done'[p] = done[p] + 1 /\ nth'[p] = nth[p] + 1 /\ buf'[p] = buf[p] /\ file'[p] = file[p]
          /\ goal'[p] = goal[p]
      BY <2>1, <3>1
    <3>5. (nth[p] <= Len(buf[p]) /\ done[p] + (Len(buf[p]) - nth[p]) + 1 <= goal[p])'
      BY <3>2, <3>4
    <3>6. (\A k \in nth[p]..Len(buf[p]) : buf[p][k] = file[p][done[p] + (k - nth[p]) + 1])'
      BY <3>3, <3>4
    <3> QED
      BY <3>5, <3>6 DEF Buffer
  <2> QED
    BY <2>1, <2>2, <2>3 DEF Within, Fresh, Dumped
<1>5. Written(p)'
  <2> SUFFICES ASSUME clash[p] = 0, NEW k \in 1..done[p] + 1, first[p] + k - 1 \in Addr
               PROVE  nvm'[first[p] + k - 1] = file[p][k]
    BY <1>2 DEF Written, IInv, TypeOK, job
  <2>0. first[p] \in Nat /\ done[p] \in Nat /\ offset[p] = first[p] + done[p]
    BY <1>1 DEF IInv, TypeOK
  <2> HIDE DEF WriteWord
  <2>1. CASE k = done[p] + 1
    <3>1. first[p] + k - 1 = offset[p]
      BY <2>0, <2>1
    <3> QED
      BY <1>2, <2>1, <3>1
  <2>2. CASE k \in 1..done[p]
    <3>1. nvm[first[p] + k - 1] = file[p][k]
      BY <1>1, <2>2 DEF IInv, JobInv, Written, Restoring
    <3>2. first[p] + k - 1 # offset[p]
      BY <2>0, <2>2
    <3> QED
      BY <1>2, <3>1, <3>2
  <2> QED
    BY <2>0, <2>1, <2>2
<1>6. ASSUME NEW q \in Procs \ {p} PROVE Same(q) /\ Spared(q)
  <2>1. Same(q)
    BY DEF IInv, TypeOK, Same, job
  <2>2. Spared(q)
    BY <1>1, WriteSpares DEF Spared, IInv, TypeOK
  <2> QED
    BY <2>1, <2>2
<1> QED
  BY <1>3, <1>4, <1>5, <1>6, OthersKeep DEF IInv, JobInv

LEMMA DumpWordInv ==
    ASSUME IInv, NEW p \in Procs, DumpWord(p)
    PROVE  IInv'
<1> USE DEF DumpWord
<1>1. PICK w \in Word : /\ NVMRead32(offset[p], w)
                        /\ out' = [out EXCEPT ![p] = Append(@, FWrite(htonl(w)))]
  OBVIOUS
<1>2. out' = [out EXCEPT ![p] = Append(out[p], w)]
  BY <1>1, SwapTwice DEF FWrite, htonl
<1>3. TypeOK'
  <2>1. out' \in [Procs -> Seq(Word)]
    BY <1>2 DEF IInv, TypeOK
  <2>2. offset' \in [Procs -> Nat] /\ done' \in [Procs -> Nat]
    BY SMTT(30) DEF IInv, TypeOK
  <2> QED
    BY <2>1, <2>2 DEF IInv, TypeOK, job
<1>4. (Place(p) /\ Buffer(p) /\ Within(p) /\ Fresh(p) /\ Written(p))'
  <2>1. Len(out'[p]) = Len(out[p]) + 1 /\ offset'[p] = offset[p] + 1 /\ done'[p] = done[p] + 1
    BY <1>2 DEF IInv, TypeOK
  <2>2. pc'[p] = "dump" /\ UNCHANGED <<first, goal>> /\ pc[p] = "dump" /\ done[p] < goal[p]
    BY DEF job
  <2> QED
    BY <2>1, <2>2 DEF IInv, TypeOK, JobInv, Place, Buffer, Fresh, Written, Within, Restoring
<1>5. Dumped(p)'
  <2> SUFFICES ASSUME clash[p] = 0, NEW k \in 1..Len(out[p]) + 1, first[p] + k - 1 \in Addr
               PROVE  Append(out[p], w)[k] = nvm[first[p] + k - 1]
    BY SMTT(30), <1>2 DEF Dumped, IInv, TypeOK, job
  <2>1. CASE k = Len(out[p]) + 1
    BY <1>1, <2>1 DEF IInv, TypeOK, JobInv, Place, NVMRead32
  <2>2. CASE k \in 1..Len(out[p])
    BY <2>2 DEF IInv, TypeOK, JobInv, Dumped
  <2> QED
    BY SMTT(30), <2>1, <2>2 DEF IInv, TypeOK
<1>6. ASSUME NEW q \in Procs \ {p} PROVE Same(q) /\ Spared(q)
  BY <1>2 DEF IInv, TypeOK, Same, Spared, job
<1> QED
  BY <1>3, <1>4, <1>5, <1>6, OthersKeep DEF IInv, JobInv

LEMMA SetWordInv ==
    ASSUME IInv, NEW p \in Procs, SetWord(p)
    PROVE  IInv'
<1> USE DEF SetWord
<1>1. file[p][1] \in Word /\ offset[p] \in Nat /\ done[p] = 0 /\ goal[p] = 1
  BY DEF IInv, TypeOK, JobInv, Place
<1>2. TypeOK'
  BY <1>1, WriteType DEF IInv, TypeOK, job, Pc
<1>3. (JobInv(p) /\ Within(p))'
  BY <1>1 DEF IInv, TypeOK, job, JobInv, Place, Buffer, Fresh, Written, Dumped, Within
<1>4. ASSUME NEW q \in Procs \ {p} PROVE Same(q) /\ Spared(q)
  BY <1>1, WriteSpares DEF IInv, TypeOK, Same, job
<1> QED
  BY <1>2, <1>3, <1>4, OthersKeep DEF IInv

LEMMA StepInv == IInv /\ [Next]_vars => IInv'
<1> SUFFICES ASSUME IInv, [Next]_vars PROVE IInv'
  OBVIOUS
<1>1. ASSUME NEW p \in Procs, NEW f \in Files, NEW s \in 0..Size, Begin(p, "fill", f, Len(f), s)
      PROVE  IInv'
  <2>1. f \in Seq(Word) /\ Len(f) \in Nat
    BY NvmAssumption
  <2>2. pc' = [pc EXCEPT ![p] = "fill"] /\ Locals(p, f, Len(f), s) /\ UNCHANGED nvm
    BY <1>1 DEF Begin
  <2> QED
    BY <2>1, <2>2, LocalsInv
<1>2. ASSUME NEW p \in Procs, NEW n \in 0..Size, NEW s \in 0..Size, Begin(p, "dump", << >>, n, s)
      PROVE  IInv'
  <2>1. << >> \in Seq(Word) /\ n \in Nat
    BY NvmAssumption
  <2>2. pc' = [pc EXCEPT ![p] = "dump"] /\ Locals(p, << >>, n, s) /\ UNCHANGED nvm
    BY <1>2 DEF Begin
  <2> QED
    BY <2>1, <2>2, LocalsInv
<1>3. ASSUME NEW p \in Procs, NEW w \in Word, NEW s \in 0..Size, Begin(p, "set", <<w>>, 1, s)
      PROVE  IInv'
  <2>1. <<w>> \in Seq(Word) /\ Len(<<w>>) = 1
    OBVIOUS
  <2>2. pc' = [pc EXCEPT ![p] = "set"] /\ Locals(p, <<w>>, 1, s) /\ UNCHANGED nvm
    BY <1>3 DEF Begin
  <2> QED
    BY <2>1, <2>2, LocalsInv
<1>4. ASSUME NEW p \in Procs, End(p) PROVE IInv'
  <2>1. << >> \in Seq(Word) /\ 0 \in 0..Size
    BY NvmAssumption
  <2> QED
    BY <1>4, <2>1, LocalsInv DEF End
<1>5. CASE UNCHANGED vars
  BY <1>5 DEF vars, job, IInv, TypeOK, JobInv, Place, Buffer, Fresh, Written, Dumped, Within
<1> QED
  BY <1>1, <1>2, <1>3, <1>4, <1>5, FillInv, ReadWordInv, WriteWordInv, DumpWordInv, SetWordInv
     DEF Next, RestoreNVM

-----------------------------------------------------------------------------
LEMMA Inductive == Spec => []IInv
BY InitInv, StepInv, PTL DEF Spec

\* The types of a process's locals and of NVM, for any number of processes, any
\* NVM and any files.
THEOREM TypeCorrect == Spec => []TypeOK
<1>1. IInv => TypeOK
  BY DEF IInv
<1> QED
  BY <1>1, Inductive, PTL

\* What restorenvm has counted as set is in NVM (otgdbg.c:903-940), whatever
\* processes run beside it or have been killed before it.
THEOREM Restored == Spec => []RestoreIsExact
<1>1. IInv => RestoreIsExact
  BY DEF IInv, JobInv, Written, Restoring, RestoreIsExact
<1> QED
  BY <1>1, Inductive, PTL

\* A dump is what a restore of it would put back (otgdbg.c:853-860).
THEOREM DumpExact == Spec => []DumpIsExact
<1>1. IInv => DumpIsExact
  BY DEF IInv, JobInv, Dumped, DumpIsExact
<1> QED
  BY <1>1, Inductive, PTL

-----------------------------------------------------------------------------
(* What a step writes.                                                      *)

\* Nothing, or a word, to where a process is asked to.
LEMMA StepWrites ==
    ASSUME IInv, [Next]_vars
    PROVE  \/ nvm' = nvm
           \/ \E p \in Procs, w \in Word :
                /\ pc[p] \in {"write", "set"} /\ offset[p] \in About(p)
                /\ NVMWrite32(p, offset[p], w)
<1>1. ASSUME NEW p \in Procs, WriteWord(p) PROVE
        \/ nvm' = nvm
        \/ \E w \in Word : /\ pc[p] \in {"write", "set"} /\ offset[p] \in About(p)
                           /\ NVMWrite32(p, offset[p], w)
  <2>1. pc[p] = "write" /\ nth[p] \in 1..Len(buf[p]) /\ buf[p] \in Seq(Word)
    BY <1>1 DEF WriteWord, IInv, TypeOK, JobInv, Buffer
  <2>2. buf[p][nth[p]] \in Word
    BY <2>1, Element
  <2>3. offset[p] = first[p] + done[p] /\ done[p] + 1 <= goal[p]
    <3>1. done[p] + (Len(buf[p]) - nth[p]) + 1 <= goal[p] /\ offset[p] = first[p] + done[p]
      BY <2>1 DEF IInv, JobInv, Buffer, Place
    <3>2. done[p] \in Nat /\ goal[p] \in Nat /\ nth[p] \in Nat /\ Len(buf[p]) \in Nat
          /\ nth[p] <= Len(buf[p])
      BY <2>1 DEF IInv, TypeOK
    <3> QED
      BY <3>1, <3>2
  <2>4. offset[p] \in About(p)
    BY <2>3 DEF IInv, TypeOK, About
  <2> QED
    BY <1>1, <2>1, <2>2, <2>4 DEF WriteWord
<1>2. ASSUME NEW p \in Procs, SetWord(p) PROVE
        \E w \in Word : /\ pc[p] \in {"write", "set"} /\ offset[p] \in About(p)
                        /\ NVMWrite32(p, offset[p], w)
  BY <1>2 DEF SetWord, IInv, TypeOK, JobInv, Place, About
<1> QED
  BY <1>1, <1>2 DEF Next, RestoreNVM, Begin, Fill, FillFails, ReadWord, DumpWord, End, vars

\* NVM changes word by word and only where a process is asked to change it, even
\* if a buffer is not full (otgdbg.c:921-940).
THEOREM Asked == Spec => OnlyWhereAsked
<1>1. IInv /\ [Next]_vars =>
        [\A a \in Addr : nvm'[a] # nvm[a] =>
            /\ \E p \in Procs : pc[p] \in {"write", "set"} /\ a \in About(p)
            /\ \A b \in Addr \ {a} : nvm'[b] = nvm[b]]_vars
  <2> SUFFICES ASSUME IInv, [Next]_vars, NEW a \in Addr, nvm'[a] # nvm[a]
               PROVE  /\ \E p \in Procs : pc[p] \in {"write", "set"} /\ a \in About(p)
                      /\ \A b \in Addr \ {a} : nvm'[b] = nvm[b]
    OBVIOUS
  <2>1. PICK p \in Procs, w \in Word :
          /\ pc[p] \in {"write", "set"} /\ offset[p] \in About(p)
          /\ NVMWrite32(p, offset[p], w)
    BY StepWrites
  <2>2. \A b \in Addr : nvm'[b] = IF b = offset[p] THEN w ELSE nvm[b]
    <3>1. offset[p] \in Nat
      BY DEF IInv, TypeOK
    <3> QED
      BY <2>1, <3>1, WriteType
  <2> QED
    BY <2>1, <2>2
<1> QED
  BY <1>1, Inductive, PTL DEF Spec, OnlyWhereAsked

\* A restore that nobody disturbs writes no word that is right already, as the
\* comment at otgdbg.c:929-930 promises.
THEOREM Wear == Spec => NoWear
<1>1. IInv /\ [Next]_vars =>
        [\A p \in Procs :
            clash[p] = 0 /\ written'[p] > written[p] /\ offset[p] \in Addr => nvm' # nvm]_vars
  <2> SUFFICES ASSUME IInv, [Next]_vars, NEW p \in Procs, clash[p] = 0,
                      written'[p] > written[p], offset[p] \in Addr
               PROVE  nvm' # nvm
    OBVIOUS
  <2>1. ASSUME NEW q \in Procs, NEW f, NEW n, NEW s, Locals(q, f, n, s) PROVE FALSE
    <3>1. written' = [written EXCEPT ![q] = 0]
      BY <2>1 DEF Locals
    <3>2. written \in [Procs -> Nat]
      BY DEF IInv, TypeOK
    <3>3. written'[p] = 0 \/ written'[p] = written[p]
      BY <3>1, <3>2
    <3>4. written[p] \in Nat
      BY <3>2
    <3> QED
      BY <3>3, <3>4
  <2>2. ASSUME NEW q \in Procs, WriteWord(q), q # p PROVE FALSE
    <3>1. written'[p] = written[p]
      BY <2>2 DEF WriteWord, IInv, TypeOK
    <3> QED
      BY <3>1 DEF IInv, TypeOK
  <2>3. ASSUME WriteWord(p) PROVE nvm' # nvm
    <3>1. cur[p] # buf[p][nth[p]] /\ NVMWrite32(p, offset[p], buf[p][nth[p]])
      BY <2>3 DEF WriteWord, IInv, TypeOK
    <3>2. cur[p] = nvm[offset[p]]
      BY <2>3 DEF WriteWord, IInv, JobInv, Fresh
    <3>3. nvm'[offset[p]] = buf[p][nth[p]]
      BY <3>1 DEF NVMWrite32, IInv, TypeOK
    <3> QED
      BY <3>1, <3>2, <3>3
  <2>4. written' # written
    BY DEF IInv, TypeOK
  <2> QED
    BY <2>1, <2>2, <2>3, <2>4
       DEF Next, RestoreNVM, Begin, Fill, FillFails, ReadWord, DumpWord, SetWord, End, vars
<1> QED
  BY <1>1, Inductive, PTL DEF Spec, NoWear

=============================================================================
