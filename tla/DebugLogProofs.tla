--------------------------- MODULE DebugLogProofs ---------------------------
(***************************************************************************)
(* Proofs about DebugLog: LogInv is an inductive invariant for any number  *)
(* of chunks and whether or not tail may be killed, and it implies that    *)
(* the log loses nothing while it is solid.                                *)
(***************************************************************************)
EXTENDS DebugLog, TLAPS

USE LogAssumption

-----------------------------------------------------------------------------
\* Before anything happens the log is not solid, so LogInv asks for little.
LEMMA InitLogInv == Init => LogInv
  BY DEF Init, LogInv, TypeOK, Chunk, Many, DevicePc, TailPc, BootPc

\* The firmware emits a chunk only when the last one was taken, and then waits.
LEMMA DeviceKeeps == ASSUME LogInv, Device PROVE LogInv'
  <1> USE DEF LogInv, TypeOK, Chunk, Many, DevicePc, TailPc, BootPc,
              words, tail, bootmem, history
  <1>1. CASE StartMessage BY <1>1 DEF StartMessage
  <1>2. CASE PutData      BY <1>2 DEF PutData
  <1>3. CASE PutStatus    BY <1>3 DEF PutStatus
  <1>4. CASE PollStatus   BY <1>4 DEF PollStatus
  <1>5. CASE PollAttach   BY <1>5 DEF PollAttach
  <1>6. QED BY <1>1, <1>2, <1>3, <1>4, <1>5 DEF Device

\* tail takes the chunk whose status it saw, whose firmware is still waiting.
LEMMA TailKeeps ==
  ASSUME LogInv, StartTail \/ Tail \/ Interrupt \/ Kill PROVE LogInv'
  <1> USE DEF LogInv, TypeOK, Chunk, Many, DevicePc, TailPc, BootPc,
              words, device, bootmem, history
  <1>1. CASE StartTail        BY <1>1 DEF StartTail
  <1>2. CASE Attach           BY <1>2 DEF Attach
  <1>3. CASE InstallHandlers  BY <1>3 DEF InstallHandlers
  <1>4. CASE CheckStop        BY <1>4 DEF CheckStop
  <1>5. CASE TailPoll         BY <1>5 DEF TailPoll
  <1>6. CASE ReadData         BY <1>6 DEF ReadData
  <1>7. CASE Printing
    <2>1. CASE logData > printed       BY <1>7, <2>1 DEF Printing
    <2>2. CASE ~(logData > printed)    BY <1>7, <2>2 DEF Printing
    <2>3. QED BY <2>1, <2>2
  <1>8. CASE ClearStatus      BY <1>8 DEF ClearStatus
  <1>9. CASE Detach           BY <1>9 DEF Detach
  <1>10. CASE Interrupt       BY <1>10 DEF Interrupt
  <1>11. CASE Kill            BY <1>11 DEF Kill
  <1>12. QED
    BY <1>1, <1>2, <1>3, <1>4, <1>5, <1>6, <1>7, <1>8, <1>9, <1>10, <1>11 DEF Tail

\* bootmem ends a solid log by halting the CPU and starts one only when it
\* leaves the log attached with no tail in the middle of an old chunk.
LEMMA BootmemKeeps == ASSUME LogInv, Bootmem PROVE LogInv'
  <1> USE DEF LogInv, TypeOK, Chunk, Many, DevicePc, TailPc, BootPc,
              words, device, tail, history
  <1>1. CASE StartBootmem     BY <1>1 DEF StartBootmem
  <1>2. CASE Halt             BY <1>2 DEF Halt
  <1>3. CASE BootClearStatus  BY <1>3 DEF BootClearStatus
  <1>4. CASE BootSetAttach    BY <1>4 DEF BootSetAttach
  <1>5. CASE Unhalt           BY <1>5 DEF Unhalt
  <1>6. QED BY <1>1, <1>2, <1>3, <1>4, <1>5 DEF Bootmem

\* The protocol state of the debug log is always one LogInv allows: the three
\* words, the firmware, tail and bootmem agree on who holds the chunk.
THEOREM LogInductive == Spec => []LogInv
  <1>1. ASSUME LogInv, [Next]_vars PROVE LogInv'
    <2>1. CASE Device BY <1>1, <2>1, DeviceKeeps
    <2>2. CASE StartTail \/ Tail \/ Interrupt \/ Kill BY <1>1, <2>2, TailKeeps
    <2>3. CASE Bootmem BY <1>1, <2>3, BootmemKeeps
    <2>4. CASE UNCHANGED vars
      BY <1>1, <2>4 DEF vars, words, device, tail, bootmem, history, LogInv, TypeOK
    <2>5. QED BY <1>1, <2>1, <2>2, <2>3, <2>4 DEF Next
  <1>2. QED BY <1>1, InitLogInv, PTL DEF Spec

\* bootmem -w followed by tail misses no output, even when tail is killed and
\* started again at any point in between.
THEOREM NothingMissed == Spec => []NoMissedOutput
  <1>1. LogInv => NoMissedOutput
    BY DEF LogInv, NoMissedOutput, TypeOK, Chunk
  <1>2. QED BY <1>1, LogInductive, PTL

-----------------------------------------------------------------------------
(* What attaching late, or a kill, may cost.                               *)

Holding == tpc \in {"read", "print", "clear"}

\* The firmware waits for its chunk to be taken.
Taking ==
  /\ emitted = printed + 2 =>
        skipped = 0 /\ tpc # "clear" /\ (tpc = "print" => logData = emitted)
  /\ emitted = printed + 1 =>
        /\ tpc = "clear" => skipped = 0
        /\ tpc = "print" /\ logData < emitted => skipped = 0 /\ repeated <= kills
  /\ emitted = printed /\ tpc # "clear" => repeated <= kills

\* tail takes, or will take, a chunk that nobody waits for, or the one after it
\* before its status is set.
Late ==
  /\ emitted <= printed /\ skipped = 0
  /\ printed = emitted /\ tpc # "clear" => repeated <= kills
  /\ printed = emitted + 1 => repeated <= kills /\ (tpc # "clear" => repeated < kills)

\* There is nothing to take.
Between ==
  /\ emitted <= printed + 1
  /\ emitted = printed + 1 => skipped = 0
  /\ printed = emitted + 1 => skipped = 0 /\ repeated <= kills

\* The words, whoever is attached.
DataInv ==
  /\ data \in {emitted, emitted + 1} /\ logData <= data
  /\ Blocked => data = emitted
  /\ dpc = "put_status" => data = emitted + 1
  /\ Blocked /\ Holding => status = 1

CostInv ==
  attach = 1 /\ dpc # "halted" =>
    /\ skipped <= 1 /\ repeated <= 1 + kills
    /\ emitted <= printed + 2 /\ printed <= data
    /\ Blocked /\ status = 1 => Taking
    /\ ~Blocked /\ (status = 1 \/ Holding) => Late
    /\ status = 0 /\ ~Holding => Between

GlitchInv == LogInv /\ DataInv /\ CostInv

LEMMA InitGlitchInv == Init => GlitchInv
  BY InitLogInv DEF Init, GlitchInv, DataInv, CostInv, Holding, Blocked

\* A chunk that is put while tail holds an older one may be lost, but then none
\* was before.
LEMMA DeviceCosts == ASSUME GlitchInv, Device PROVE DataInv' /\ CostInv'
  <1> USE DEF GlitchInv, DataInv, CostInv, Taking, Late, Between, Holding, Blocked,
              LogInv, TypeOK, Chunk, Many, words, tail, bootmem, history
  <1>1. CASE StartMessage     BY <1>1 DEF StartMessage
  <1>2. CASE PutData          BY <1>2 DEF PutData
  <1>3. CASE PutStatus        BY <1>3 DEF PutStatus
  <1>4. CASE PollStatus       BY <1>4 DEF PollStatus
  <1>5. CASE PollAttach       BY <1>5 DEF PollAttach
  <1>6. QED BY <1>1, <1>2, <1>3, <1>4, <1>5 DEF Device

\* tail pays for what it prints out of order when it prints it.
LEMMA TailCosts ==
  ASSUME GlitchInv, StartTail \/ Tail \/ Interrupt \/ Kill PROVE DataInv' /\ CostInv'
  <1> USE DEF GlitchInv, DataInv, CostInv, Taking, Late, Between, Holding, Blocked,
              LogInv, TypeOK, Chunk, Many, words, device, bootmem, history
  <1>1. CASE StartTail        BY <1>1 DEF StartTail
  <1>2. CASE Attach           BY <1>2 DEF Attach
  <1>3. CASE InstallHandlers  BY <1>3 DEF InstallHandlers
  <1>4. CASE CheckStop        BY <1>4 DEF CheckStop
  <1>5. CASE TailPoll         BY <1>5 DEF TailPoll
  <1>6. CASE ReadData         BY <1>6 DEF ReadData
  <1>7. CASE Printing
    <2>1. CASE logData > printed       BY <1>7, <2>1 DEF Printing
    <2>2. CASE ~(logData > printed)    BY <1>7, <2>2 DEF Printing
    <2>3. QED BY <2>1, <2>2
  <1>8. CASE ClearStatus      BY <1>8 DEF ClearStatus
  <1>9. CASE Detach           BY <1>9 DEF Detach
  <1>10. CASE Interrupt       BY <1>10 DEF Interrupt
  <1>11. CASE Kill            BY <1>11 DEF Kill
  <1>12. QED
    BY <1>1, <1>2, <1>3, <1>4, <1>5, <1>6, <1>7, <1>8, <1>9, <1>10, <1>11 DEF Tail

\* While the CPU is halted nothing is claimed, and then the count starts afresh.
LEMMA BootmemCosts == ASSUME GlitchInv, Bootmem PROVE DataInv' /\ CostInv'
  <1> USE DEF GlitchInv, DataInv, CostInv, Taking, Late, Between, Holding, Blocked,
              LogInv, TypeOK, Chunk, Many, BootPc, words, device, tail, history
  <1>1. CASE StartBootmem     BY <1>1 DEF StartBootmem
  <1>2. CASE Halt             BY <1>2 DEF Halt
  <1>3. CASE BootClearStatus  BY <1>3 DEF BootClearStatus
  <1>4. CASE BootSetAttach    BY <1>4 DEF BootSetAttach
  <1>5. CASE Unhalt           BY <1>5 DEF Unhalt
  <1>6. QED BY <1>1, <1>2, <1>3, <1>4, <1>5 DEF Bootmem

\* A late attach costs at most one chunk lost and one printed late or twice, and
\* each kill of tail one more of the latter, for any number of chunks and kills.
THEOREM GlitchBounded == Spec => []AttachGlitchIsBounded
  <1>1. ASSUME GlitchInv, [Next]_vars PROVE DataInv' /\ CostInv'
    <2>1. CASE Device BY <1>1, <2>1, DeviceCosts
    <2>2. CASE StartTail \/ Tail \/ Interrupt \/ Kill BY <1>1, <2>2, TailCosts
    <2>3. CASE Bootmem BY <1>1, <2>3, BootmemCosts
    <2>4. CASE UNCHANGED vars
      BY <1>1, <2>4 DEF vars, words, device, tail, bootmem, history, GlitchInv, DataInv,
         CostInv, Taking, Late, Between, Holding, Blocked
    <2>5. QED BY <1>1, <2>1, <2>2, <2>3, <2>4 DEF Next
  <1>2. LogInv /\ DataInv /\ CostInv /\ [Next]_vars => DataInv' /\ CostInv'
    BY <1>1 DEF GlitchInv
  <1>3. Init => DataInv /\ CostInv
    BY InitGlitchInv DEF GlitchInv
  <1>4. CostInv => AttachGlitchIsBounded
    BY DEF CostInv, AttachGlitchIsBounded
  <1>5. QED BY <1>2, <1>3, <1>4, LogInductive, PTL DEF Spec

=============================================================================
