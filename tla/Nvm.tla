-------------------------------- MODULE Nvm ---------------------------------
(***************************************************************************)
(* otgdbg dumpnvm, restorenvm and setnvm, run by several processes on one  *)
(* device, each of which may be killed at any point.                       *)
(*                                                                         *)
(* Offsets and lengths are in words: restorenvm and setnvm refuse others,  *)
(* dumpnvm rounds a length up.  A word is a pair of bytes, two of the four,*)
(* the most significant first if it is a number and the first first if it  *)
(* is in a file.  NVMRead32 and NVMWrite32, whose code was removed from    *)
(* the repository, hold the device's arbitration from beginning to end     *)
(* here (ARB_ACQUIRE|ARB_RELEASE), so each of them is one step.            *)
(***************************************************************************)
EXTENDS Integers, Sequences

CONSTANTS
    Procs,      \* otgdbg processes
    Size,       \* words of NVM
    Word,       \* contents of a word
    Files,      \* files, as sequences of words
    Chunk       \* words that restorenvm reads at a time, 256 in the code

ASSUME NvmAssumption ==
    /\ Size \in Nat /\ Chunk \in Nat \ {0}
    /\ \A w \in Word : w = <<w[1], w[2]>> /\ <<w[2], w[1]>> \in Word
    /\ Files \subseteq Seq(Word)

VARIABLES
    nvm,        \* the device's memory
    pc,         \* where each process is
    first,      \* the offset it was given
    file,       \* restorenvm: the file's words
    goal,       \* how many words it is about, without a read error
    buf,        \* restorenvm: the words it has read from the file
    nth,        \* the index in buf
    offset,     \* the word it is at
    cur,        \* what it has read from NVM
    done,       \* bytesSet, or the words dumped
    written,    \* bytesWritten
    out,        \* dumpnvm: what it has output
    clash       \* history: 1 once another wrote to a word this one is about

job  == <<first, file, goal>>
vars == <<nvm, pc, job, buf, nth, offset, cur, done, written, out, clash>>

Addr == 0..Size-1

\* htonl and ntohl on a little-endian host, and what such a host makes of the
\* bytes of a file, or of a number that it writes to one.
Swap(w)  == <<w[2], w[1]>>
htonl(w) == Swap(w)
FRead(w) == Swap(w)
FWrite(w) == Swap(w)

NoWord   == << >>
Active   == {p \in Procs : pc[p] # "off"}
About(p) == first[p]..first[p]+goal[p]-1

\* A read beyond the end returns anything, a write there does nothing.
NVMRead32(a, w) == IF a \in Addr THEN w = nvm[a] ELSE w \in Word

NVMWrite32(p, a, w) ==
    /\ nvm' = IF a \in Addr THEN [nvm EXCEPT ![a] = w] ELSE nvm
    /\ clash' = [q \in Procs |-> IF q # p /\ q \in Active /\ a \in About(q) THEN 1 ELSE clash[q]]

Init ==
    /\ nvm \in [Addr -> Word]
    /\ pc = [p \in Procs |-> "off"]
    /\ first = [p \in Procs |-> 0] /\ file = [p \in Procs |-> << >>]
    /\ goal = [p \in Procs |-> 0]
    /\ buf = [p \in Procs |-> << >>] /\ nth = [p \in Procs |-> 1]
    /\ offset = [p \in Procs |-> 0] /\ cur = [p \in Procs |-> NoWord]
    /\ done = [p \in Procs |-> 0] /\ written = [p \in Procs |-> 0]
    /\ out = [p \in Procs |-> << >>] /\ clash = [p \in Procs |-> 0]

\* A process's locals before its command has done anything.
Locals(p, f, n, s) ==
    /\ file' = [file EXCEPT ![p] = f] /\ goal' = [goal EXCEPT ![p] = n]
    /\ first' = [first EXCEPT ![p] = s] /\ offset' = [offset EXCEPT ![p] = s]
    /\ buf' = [buf EXCEPT ![p] = << >>] /\ nth' = [nth EXCEPT ![p] = 1]
    /\ cur' = [cur EXCEPT ![p] = NoWord]
    /\ done' = [done EXCEPT ![p] = 0] /\ written' = [written EXCEPT ![p] = 0]
    /\ out' = [out EXCEPT ![p] = << >>] /\ clash' = [clash EXCEPT ![p] = 0]

Begin(p, command, f, n, s) ==
    /\ pc[p] = "off"
    /\ pc' = [pc EXCEPT ![p] = command]
    /\ Locals(p, f, n, s)
    /\ UNCHANGED nvm

-----------------------------------------------------------------------------
(* restorenvm.                                                             *)

\* Faulty variant: the words go to NVM as the host reads them.
FillUnswapped(p) ==
    /\ pc[p] = "fill"
    /\ LET n == IF goal[p] - done[p] < Chunk THEN goal[p] - done[p] ELSE Chunk IN
       IF n = 0 THEN UNCHANGED <<buf, nth>> /\ pc' = [pc EXCEPT ![p] = "report"]
       ELSE /\ buf' = [buf EXCEPT ![p] = [k \in 1..n |-> FRead(file[p][done[p] + k])]]
            /\ nth' = [nth EXCEPT ![p] = 1]
            /\ pc' = [pc EXCEPT ![p] = "read"]
    /\ UNCHANGED <<nvm, job, offset, cur, done, written, out, clash>>

\* Faulty variant: the buffer counts as full whatever was read.
FillWhole(p) ==
    /\ pc[p] = "fill"
    /\ IF done[p] >= goal[p] THEN UNCHANGED <<buf, nth>> /\ pc' = [pc EXCEPT ![p] = "report"]
       ELSE /\ buf' = [buf EXCEPT ![p] = [k \in 1..Chunk |->
                   htonl(FRead(file[p][IF done[p] + k <= goal[p] THEN done[p] + k ELSE 1]))]]
            /\ nth' = [nth EXCEPT ![p] = 1]
            /\ pc' = [pc EXCEPT ![p] = "read"]
    /\ UNCHANGED <<nvm, job, offset, cur, done, written, out, clash>>

\* The next words of the file.  When none is left only the report is.
Fill(p) ==
    /\ pc[p] = "fill"
    /\ LET n == IF goal[p] - done[p] < Chunk THEN goal[p] - done[p] ELSE Chunk IN
       IF n = 0 THEN UNCHANGED <<buf, nth>> /\ pc' = [pc EXCEPT ![p] = "report"]
       ELSE /\ buf' = [buf EXCEPT ![p] = [k \in 1..n |-> htonl(FRead(file[p][done[p] + k]))]]
            /\ nth' = [nth EXCEPT ![p] = 1]
            /\ pc' = [pc EXCEPT ![p] = "read"]
    /\ UNCHANGED <<nvm, job, offset, cur, done, written, out, clash>>

\* It also ends when the file cannot be read.
FillFails(p) ==
    /\ pc[p] = "fill"
    /\ pc' = [pc EXCEPT ![p] = "report"]
    /\ UNCHANGED <<nvm, job, buf, nth, offset, cur, done, written, out, clash>>

ReadWord(p) ==
    /\ pc[p] = "read"
    /\ \E w \in Word : NVMRead32(offset[p], w) /\ cur' = [cur EXCEPT ![p] = w]
    /\ pc' = [pc EXCEPT ![p] = "write"]
    /\ UNCHANGED <<nvm, job, buf, nth, offset, done, written, out, clash>>

\* Faulty variant: the word is written whether or not it is right.
WriteAnyWord(p) ==
    /\ pc[p] = "write"
    /\ NVMWrite32(p, offset[p], buf[p][nth[p]])
    /\ written' = [written EXCEPT ![p] = @ + 1]
    /\ done' = [done EXCEPT ![p] = @ + 1]
    /\ offset' = [offset EXCEPT ![p] = @ + 1]
    /\ nth' = [nth EXCEPT ![p] = @ + 1]
    /\ pc' = [pc EXCEPT ![p] = IF nth[p] = Len(buf[p]) THEN "fill" ELSE "read"]
    /\ cur' = [cur EXCEPT ![p] = NoWord]
    /\ UNCHANGED <<job, buf, out>>

\* What differs is written; the locals move on to the next word.
WriteWord(p) ==
    /\ pc[p] = "write"
    /\ IF cur[p] # buf[p][nth[p]]
       THEN /\ NVMWrite32(p, offset[p], buf[p][nth[p]])
            /\ written' = [written EXCEPT ![p] = @ + 1]
       ELSE UNCHANGED <<nvm, clash, written>>
    /\ done' = [done EXCEPT ![p] = @ + 1]
    /\ offset' = [offset EXCEPT ![p] = @ + 1]
    /\ nth' = [nth EXCEPT ![p] = @ + 1]
    /\ pc' = [pc EXCEPT ![p] = IF nth[p] = Len(buf[p]) THEN "fill" ELSE "read"]
    /\ cur' = [cur EXCEPT ![p] = NoWord]
    /\ UNCHANGED <<job, buf, out>>

-----------------------------------------------------------------------------
(* dumpnvm and setnvm.                                                     *)

\* Faulty variant: the words are output as the host has them.
DumpUnswapped(p) ==
    /\ pc[p] = "dump" /\ done[p] < goal[p]
    /\ \E w \in Word :
        /\ NVMRead32(offset[p], w)
        /\ out' = [out EXCEPT ![p] = Append(@, FWrite(w))]
    /\ done' = [done EXCEPT ![p] = @ + 1]
    /\ offset' = [offset EXCEPT ![p] = @ + 1]
    /\ UNCHANGED <<nvm, pc, job, buf, nth, cur, written, clash>>

DumpWord(p) ==
    /\ pc[p] = "dump" /\ done[p] < goal[p]
    /\ \E w \in Word :
        /\ NVMRead32(offset[p], w)
        /\ out' = [out EXCEPT ![p] = Append(@, FWrite(htonl(w)))]
    /\ done' = [done EXCEPT ![p] = @ + 1]
    /\ offset' = [offset EXCEPT ![p] = @ + 1]
    /\ UNCHANGED <<nvm, pc, job, buf, nth, cur, written, clash>>

\* A single word, a number, as it is.
SetWord(p) ==
    /\ pc[p] = "set"
    /\ NVMWrite32(p, offset[p], file[p][1])
    /\ pc' = [pc EXCEPT ![p] = "report"]
    /\ UNCHANGED <<job, buf, nth, offset, cur, done, written, out>>

\* The process returns, is killed before, cannot output a word, or divides by
\* the zero words set from an empty file (otgdbg.c:943).
End(p) ==
    /\ pc[p] # "off"
    /\ pc' = [pc EXCEPT ![p] = "off"]
    /\ Locals(p, << >>, 0, 0)
    /\ UNCHANGED nvm

-----------------------------------------------------------------------------
RestoreNVM(p) == Fill(p) \/ FillFails(p) \/ ReadWord(p) \/ WriteWord(p)

Next ==
    \E p \in Procs :
        \/ \E f \in Files, s \in 0..Size : Begin(p, "fill", f, Len(f), s)
        \/ \E n, s \in 0..Size : Begin(p, "dump", << >>, n, s)
        \/ \E w \in Word, s \in 0..Size : Begin(p, "set", <<w>>, 1, s)
        \/ RestoreNVM(p) \/ DumpWord(p) \/ SetWord(p) \/ End(p)

Spec == Init /\ [][Next]_vars

-----------------------------------------------------------------------------
Pc == {"off", "fill", "read", "write", "report", "dump", "set"}

TypeOK ==
    /\ nvm \in [Addr -> Word]
    /\ pc \in [Procs -> Pc] /\ first \in [Procs -> 0..Size]
    /\ file \in [Procs -> Seq(Word)] /\ goal \in [Procs -> Nat]
    /\ buf \in [Procs -> Seq(Word)] /\ nth \in [Procs -> Nat \ {0}]
    /\ offset \in [Procs -> Nat] /\ cur \in [Procs -> Word \union {NoWord}]
    /\ done \in [Procs -> Nat] /\ written \in [Procs -> Nat]
    /\ out \in [Procs -> Seq(Word)] /\ clash \in [Procs -> {0, 1}]

\* What restorenvm says it has set is in NVM, byte for byte as in the file, at
\* every moment until the process ends, unless another process wrote there:
\* whatever an earlier run, perhaps a killed one, has left, and whatever others
\* do elsewhere (otgdbg.c:869-874).
RestoreIsExact ==
    \A p \in Procs : pc[p] \in {"fill", "read", "write", "report"} /\ clash[p] = 0 =>
        \A k \in 1..done[p] : first[p] + k - 1 \in Addr =>
            nvm[first[p] + k - 1] = file[p][k]

\* What dumpnvm outputs is what restorenvm would have to be given to put it
\* back.
DumpIsExact ==
    \A p \in Procs : pc[p] = "dump" /\ clash[p] = 0 =>
        \A k \in 1..Len(out[p]) : first[p] + k - 1 \in Addr =>
            out[p][k] = nvm[first[p] + k - 1]

\* NVM changes only where a process is asked to change it, also past the end of
\* a buffer, and one word at a time.
OnlyWhereAsked ==
    [][\A a \in Addr : nvm'[a] # nvm[a] =>
        /\ \E p \in Procs : pc[p] \in {"write", "set"} /\ a \in About(p)
        /\ \A b \in Addr \ {a} : nvm'[b] = nvm[b]]_vars

\* "Avoid writing values which are already correct to avoid unnecessary wear":
\* a write of an undisturbed restorenvm changes a word (otgdbg.c:929-930).
NoWear ==
    [][\A p \in Procs :
        clash[p] = 0 /\ written'[p] > written[p] /\ offset[p] \in Addr => nvm' # nvm]_vars

=============================================================================
