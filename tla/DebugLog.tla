------------------------------ MODULE DebugLog ------------------------------
(***************************************************************************)
(* The debug log of the RX CPU's firmware: DebugPrint (otg_common.c) on    *)
(* the device, `otgdbg tail' and `otgdbg bootmem' on the host.  Three      *)
(* words of general communication memory carry it: a chunk of up to four   *)
(* characters (0x360), a status word that says one is there (0x364) and    *)
(* an attach word (0x368) that says somebody is listening.                 *)
(*                                                                         *)
(* Characters are abstracted: a chunk is its serial number among the       *)
(* chunks the firmware emits.  Every access to one of the words is a step. *)
(***************************************************************************)
EXTENDS Naturals

CONSTANTS
    MaxChunk,   \* bound on the chunks emitted
    MaxKills    \* bound on the times a signal tail does not catch ends it

ASSUME LogAssumption == MaxChunk \in Nat /\ MaxKills \in Nat

VARIABLES
    data,       \* 0x360
    status,     \* 0x364, 0 or 1
    attach,     \* 0x368, 1 for 0xDECAFBAD
    dpc,        \* the firmware, "halted" when the RX CPU is
    emitted,    \* number of chunks emitted so far
    tpc,        \* the process running otgdbg tail, "off" when there is none
    stop,       \* its g_stopTail
    logData,    \* its local logData
    bpc,        \* the process running otgdbg bootmem
    attachLog   \* its -w flag

\* History: what the user of tail has seen.
VARIABLES
    printed,    \* the last chunk printed; older ones are gone
    skipped,    \* chunks passed over since the log was attached
    repeated,   \* chunks printed late or twice since then
    kills,      \* times tail was killed since then
    solid       \* the log has been attached since the firmware was booted

words    == <<data, status, attach>>
device   == <<dpc, emitted>>
tail     == <<tpc, stop, logData>>
bootmem  == <<bpc, attachLog>>
history  == <<printed, skipped, repeated, kills, solid>>
vars     == <<words, device, tail, bootmem, history>>

DevicePc == {"halted", "idle", "put_data", "put_status", "poll_status", "poll_attach"}
TailPc   == {"off", "attach", "signals", "check_stop", "poll", "read",
             "print", "clear", "detach"}
BootPc   == {"off", "halt", "clear_status", "set_attach", "unhalt"}
Chunk    == 0..MaxChunk
Many     == 2 + MaxKills    \* where the count of repetitions stops

TypeOK ==
    /\ data \in Chunk /\ status \in {0, 1} /\ attach \in {0, 1}
    /\ dpc \in DevicePc /\ emitted \in Chunk
    /\ tpc \in TailPc /\ stop \in {0, 1} /\ logData \in Chunk
    /\ bpc \in BootPc /\ attachLog \in {0, 1}
    /\ printed \in Chunk /\ skipped \in Nat /\ repeated \in 0..Many
    /\ kills \in 0..MaxKills /\ solid \in {0, 1}

\* Firmware booted from NVM; nobody cleared the status word.
Init ==
    /\ data = 0 /\ status \in {0, 1} /\ attach = 0
    /\ dpc = "idle" /\ emitted = 0
    /\ tpc = "off" /\ stop = 0 /\ logData = 0
    /\ bpc = "off" /\ attachLog = 0
    /\ printed = 0 /\ skipped = 0 /\ repeated = 0 /\ kills = 0 /\ solid = 0

-----------------------------------------------------------------------------
(* DebugPrint.  A message is one or more chunks; how many does not matter, *)
(* so whether another follows is left open.                                *)

StartMessage ==
    /\ dpc = "idle" /\ emitted < MaxChunk
    /\ dpc' = "put_data"
    /\ UNCHANGED <<words, emitted, tail, bootmem, history>>

PutData ==
    /\ dpc = "put_data"
    /\ data' = emitted + 1
    /\ dpc' = "put_status"
    /\ UNCHANGED <<status, attach, emitted, tail, bootmem, history>>

PutStatus ==
    /\ dpc = "put_status"
    /\ status' = 1
    /\ emitted' = emitted + 1
    /\ dpc' = "poll_status"
    /\ UNCHANGED <<data, attach, tail, bootmem, history>>

\* Faulty variant: the next chunk does not wait for the last.
PollStatusImpatient ==
    /\ dpc = "poll_status"
    /\ \/ status = 1 /\ dpc' = "poll_attach"
       \/ emitted < MaxChunk /\ dpc' = "put_data"
       \/ status = 0 /\ dpc' = "idle"
    /\ UNCHANGED <<words, emitted, tail, bootmem, history>>

PollStatus ==
    /\ dpc = "poll_status"
    /\ \/ status = 1 /\ dpc' = "poll_attach"
       \/ status = 0 /\ emitted < MaxChunk /\ dpc' = "put_data"
       \/ status = 0 /\ dpc' = "idle"
    /\ UNCHANGED <<words, emitted, tail, bootmem, history>>

\* Faulty variant: the comparison is the wrong way round.
PollAttachInverted ==
    /\ dpc = "poll_attach"
    /\ dpc' = IF attach = 0 THEN "poll_status" ELSE "idle"
    /\ UNCHANGED <<words, emitted, tail, bootmem, history>>

\* Faulty variant: the attach word is not looked at.
PollAttachBlind ==
    /\ dpc = "poll_attach"
    /\ dpc' = "poll_status"
    /\ UNCHANGED <<words, emitted, tail, bootmem, history>>

\* Nobody listens: the rest of the message is dropped, the status word stays.
PollAttach ==
    /\ dpc = "poll_attach"
    /\ dpc' = IF attach = 1 THEN "poll_status" ELSE "idle"
    /\ UNCHANGED <<words, emitted, tail, bootmem, history>>

Device == StartMessage \/ PutData \/ PutStatus \/ PollStatus \/ PollAttach

-----------------------------------------------------------------------------
(* _CmdTail.                                                               *)

StartTail ==
    /\ tpc = "off"
    /\ tpc' = "attach"
    /\ stop' = 0
    /\ UNCHANGED <<words, device, logData, bootmem, history>>

\* The history starts afresh when the log was not attached before.
Attach ==
    /\ tpc = "attach"
    /\ attach' = 1
    /\ tpc' = "signals"
    /\ IF attach = 1
       THEN UNCHANGED history
       ELSE /\ printed' = emitted /\ skipped' = 0 /\ repeated' = 0 /\ kills' = 0
            /\ UNCHANGED solid
    /\ UNCHANGED <<data, status, device, stop, logData, bootmem>>

InstallHandlers ==
    /\ tpc = "signals"
    /\ tpc' = "check_stop"
    /\ UNCHANGED <<words, device, stop, logData, bootmem, history>>

CheckStop ==
    /\ tpc = "check_stop"
    /\ tpc' = IF stop = 1 THEN "detach" ELSE "poll"
    /\ UNCHANGED <<words, device, stop, logData, bootmem, history>>

\* Faulty variant: the status word is not looked at.
TailPollBlind ==
    /\ tpc = "poll"
    /\ tpc' = "read"
    /\ UNCHANGED <<words, device, stop, logData, bootmem, history>>

TailPoll ==
    /\ tpc = "poll"
    /\ tpc' = IF status = 1 THEN "read" ELSE "check_stop"
    /\ UNCHANGED <<words, device, stop, logData, bootmem, history>>

ReadData ==
    /\ tpc = "read"
    /\ logData' = data
    /\ tpc' = "print"
    /\ UNCHANGED <<words, device, stop, bootmem, history>>

Printing ==
    /\ tpc = "print"
    /\ tpc' = "clear"
    /\ IF logData > printed
       THEN /\ printed' = logData
            /\ skipped' = skipped + (logData - printed - 1)
            /\ UNCHANGED repeated
       ELSE /\ repeated' = IF repeated < Many THEN repeated + 1 ELSE Many
            /\ UNCHANGED <<printed, skipped>>
    /\ UNCHANGED <<words, device, stop, logData, bootmem, kills, solid>>

\* Faulty variant: the status word is left set.
ClearStatusForgets ==
    /\ tpc = "clear"
    /\ tpc' = "check_stop"
    /\ UNCHANGED <<words, device, stop, logData, bootmem, history>>

ClearStatus ==
    /\ tpc = "clear"
    /\ status' = 0
    /\ tpc' = "check_stop"
    /\ UNCHANGED <<data, attach, device, stop, logData, bootmem, history>>

Detach ==
    /\ tpc = "detach"
    /\ attach' = 0
    /\ solid' = 0
    /\ tpc' = "off"
    /\ UNCHANGED <<data, status, device, stop, logData, bootmem,
                   printed, skipped, repeated, kills>>

Tail == \/ Attach \/ InstallHandlers \/ CheckStop \/ TailPoll \/ ReadData
        \/ Printing \/ ClearStatus \/ Detach

\* SIGINT, SIGHUP or SIGQUIT: noted once the handlers are installed, fatal
\* before.
Interrupt ==
    /\ tpc # "off"
    /\ IF tpc \in {"attach", "signals"}
       THEN tpc' = "off" /\ UNCHANGED stop
       ELSE stop' = 1 /\ UNCHANGED tpc
    /\ UNCHANGED <<words, device, logData, bootmem, history>>

\* SIGTERM, SIGPIPE or SIGKILL.
Kill ==
    /\ tpc # "off" /\ kills < MaxKills
    /\ tpc' = "off"
    /\ kills' = kills + 1
    /\ UNCHANGED <<words, device, stop, logData, bootmem, printed, skipped, repeated, solid>>

-----------------------------------------------------------------------------
(* _CmdBootmem, from the halt to the jump to the image's entry point.  The *)
(* image it writes meanwhile is not part of the protocol.                  *)

StartBootmem ==
    /\ bpc = "off"
    /\ bpc' = "halt"
    /\ attachLog' \in {0, 1}
    /\ UNCHANGED <<words, device, tail, history>>

\* The halted firmware's log ends here.
Halt ==
    /\ bpc = "halt"
    /\ dpc' = "halted"
    /\ solid' = 0
    /\ bpc' = "clear_status"
    /\ UNCHANGED <<words, emitted, tail, attachLog, printed, skipped, repeated, kills>>

BootClearStatus ==
    /\ bpc = "clear_status"
    /\ status' = 0
    /\ bpc' = "set_attach"
    /\ UNCHANGED <<data, attach, device, tail, attachLog, history>>

BootSetAttach ==
    /\ bpc = "set_attach"
    /\ attach' = attachLog
    /\ bpc' = "unhalt"
    /\ UNCHANGED <<data, status, device, tail, attachLog, history>>

\* What the halted firmware had to say is gone.  The new one's log is solid
\* when it starts attached and no tail is in the middle of an old chunk.
Unhalt ==
    /\ bpc = "unhalt"
    /\ dpc' = "idle"
    /\ bpc' = "off"
    /\ printed' = emitted /\ skipped' = 0 /\ repeated' = 0 /\ kills' = 0
    /\ solid' = IF attach = 1 /\ status = 0 /\ tpc \notin {"read", "print", "clear"}
                THEN 1 ELSE 0
    /\ UNCHANGED <<words, emitted, tail, attachLog>>

Bootmem == StartBootmem \/ Halt \/ BootClearStatus \/ BootSetAttach \/ Unhalt

-----------------------------------------------------------------------------
Next == Device \/ StartTail \/ Tail \/ Interrupt \/ Kill \/ Bootmem

Spec == Init /\ [][Next]_vars

\* The CPU runs unless halted, tail runs until it is killed and bootmem is
\* not stopped half-way; users and signals owe nothing.
FairSpec ==
    /\ Spec
    /\ WF_vars(PutData \/ PutStatus \/ PollStatus \/ PollAttach)
    /\ WF_vars(Tail)
    /\ WF_vars(Halt \/ BootClearStatus \/ BootSetAttach \/ Unhalt)

-----------------------------------------------------------------------------
\* `bootmem -w' then `tail' misses nothing (otgdbg.c:1154-1157): as long as the
\* log stays attached, at most one chunk is not printed yet, and that one is
\* still in the data word with its status set.
NoMissedOutput ==
    solid = 1 =>
        /\ skipped = 0
        /\ emitted <= printed + 1
        /\ printed < emitted => status = 1 /\ data = emitted

\* The invariant NoMissedOutput follows from: where the two sides and bootmem
\* may be while the log is solid.  A chunk with its status set keeps the
\* firmware waiting, so tail reads that chunk and clears that status.
LogInv ==
    /\ TypeOK
    /\ dpc = "halted" <=> bpc \in {"clear_status", "set_attach", "unhalt"}
    /\ dpc \in {"put_data", "put_status"} => emitted < MaxChunk
    /\ solid = 1 =>
        /\ attach = 1 /\ skipped = 0
        /\ dpc # "halted"
        /\ printed <= emitted /\ emitted <= printed + 1
        /\ dpc = "put_status" => data = emitted + 1
        /\ status = 0 => printed = emitted /\ tpc \notin {"read", "print", "clear"}
        /\ status = 1 => dpc \in {"poll_status", "poll_attach"} /\ data = emitted
        /\ tpc = "print" => logData = emitted
        /\ tpc = "clear" => printed = emitted

\* Attaching to firmware that is already running may catch it between any two
\* steps of a print.  At most one chunk is then lost and at most one is printed
\* late or twice, and one more for each time tail is killed over a chunk it has
\* printed and not yet cleared; after that the two sides are in step.
AttachGlitchIsBounded ==
    attach = 1 /\ dpc # "halted" => skipped <= 1 /\ repeated <= 1 + kills

Blocked == dpc \in {"poll_status", "poll_attach"}

\* A running tail, or an orderly exit from it, lets the firmware go on.
TailUnblocks == (Blocked /\ tpc # "off") ~> (~Blocked \/ tpc = "off")
DetachUnblocks == (Blocked /\ attach = 0) ~> (~Blocked \/ attach = 1)

\* otgdbg.c:1158-1160: `exiting otgdbg tail always detaches the debug output
\* protocol'.
ExitDetaches == [][tpc # "off" /\ tpc' = "off" => attach' = 0]_vars

=============================================================================
