--------------------------- MODULE ApeShellProofs ---------------------------
(***************************************************************************)
(* Proofs about ApeShell and ApeBoot, for any memory, any set of values    *)
(* and any number of processes.  The shell's promises assume Exclusive:    *)
(* processes follow one another.                                           *)
(*                                                                         *)
(* The first half is about the shell alone, the second about the shell     *)
(* that is booted, returned from, called away and reset: a ready mailbox   *)
(* has an agent behind it, an agent returns only to somebody, and the      *)
(* shell's promises hold through all of it.                                *)
(***************************************************************************)
EXTENDS ApeBoot, ApeShellInv, TLAPS


-----------------------------------------------------------------------------
(* Type correctness.                                                       *)

\* Every action of the agent keeps the types.
LEMMA AgentTypeStep ==
    ASSUME AgentTypeOK, AgentNext
    PROVE  AgentTypeOK'
<1> USE AgentAssumption DEF AgentTypeOK, AgentPc, StateWord, CmdWord, CmdType,
        NoCmd, Address, mailbox
<1>1. CASE StartFlags     BY <1>1 DEF StartFlags
<1>2. CASE StartCmd       BY <1>2 DEF StartCmd
<1>3. CASE Announce       BY <1>3 DEF Announce
<1>4. CASE Poll           BY <1>4 DEF Poll
<1>5. CASE AckRead        BY <1>5 DEF AckRead
<1>6. CASE AckWrite       BY <1>6 DEF AckWrite
<1>7. CASE Dispatch       BY <1>7 DEF Dispatch, Branch
<1>8. CASE Complete       BY <1>8 DEF Complete
<1>9. CASE GetAddr        BY <1>9 DEF GetAddr
<1>10. CASE GetLoad       BY <1>10 DEF GetLoad
<1>11. CASE GetReply      BY <1>11 DEF GetReply
<1>12. CASE SetAddr       BY <1>12 DEF SetAddr
<1>13. CASE SetVal        BY <1>13 DEF SetVal
<1>14. CASE SetStore      BY <1>14 DEF SetStore
<1>15. CASE CallAddr      BY <1>15 DEF CallAddr
<1>16. CASE CallZero      BY <1>16 DEF CallZero
<1>17. CASE CallReply     BY <1>17 DEF CallReply
<1>18. CASE ReturnClear   BY <1>18 DEF ReturnClear
<1>19. CASE ReturnExit    BY <1>19 DEF ReturnExit
<1>20. CASE HardFault     BY <1>20 DEF HardFault
<1>21. CASE CalleeReturns BY <1>21 DEF CalleeReturns
<1>22. CASE CalleeFaults  BY <1>22 DEF CalleeFaults
<1> QED
  BY <1>1, <1>2, <1>3, <1>4, <1>5, <1>6, <1>7, <1>8, <1>9, <1>10, <1>11,
     <1>12, <1>13, <1>14, <1>15, <1>16, <1>17, <1>18, <1>19, <1>20, <1>21,
     <1>22 DEF AgentNext, AgentCode, Callee

\* Every action of a process keeps the types.
LEMMA HostTypeStep ==
    ASSUME TypeOK, NEW c \in Client, Advance(c) \/ Choose(c)
    PROVE  TypeOK'
<1> USE AgentAssumption, ShellAssumption
    DEF TypeOK, HostPc, Program, Goto, Warn, agentSide, agentVars, mailbox,
        locals
<1>0. UNCHANGED <<mailbox, agentSide>> => AgentTypeOK'
  BY DEF AgentTypeOK
<1>1. CASE ChainReady(c)    BY <1>0, <1>1 DEF ChainReady
<1>2. CASE ChainTimesOut(c) BY <1>0, <1>2 DEF ChainTimesOut
<1>3. CASE CheckState(c)    BY <1>0, <1>3 DEF CheckState, Fail
<1>4. CASE WaitIdle(c)      BY <1>0, <1>4 DEF WaitIdle
<1>5. CASE WaitTimesOut(c)  BY <1>0, <1>5 DEF WaitTimesOut, Fail
<1>6. CASE PutArg0(c)       BY <1>6 DEF PutArg0, AgentTypeOK
<1>7. CASE PutArg1(c)       BY <1>7 DEF PutArg1, AgentTypeOK
<1>8. CASE Post(c)          BY <1>8 DEF Post, AgentTypeOK, Request, CmdWord, CmdType
<1>9. CASE AwaitDone(c)     BY <1>0, <1>9 DEF AwaitDone
<1>10. CASE AwaitTimesOut(c) BY ZenonT(30), <1>0, <1>10 DEF AwaitTimesOut, Fail
<1>11. CASE CheckFlags(c)   BY ZenonT(30), <1>0, <1>11 DEF CheckFlags, Fail
<1>12. CASE FetchArg1(c)    BY <1>0, <1>12 DEF FetchArg1, AgentTypeOK
<1>13. ASSUME NEW p \in Program, Launch(c, p) PROVE TypeOK'
  BY <1>0, <1>13 DEF Launch
<1>14. ASSUME NEW a \in Address, BeginGet(c, a) PROVE TypeOK'
  BY <1>0, <1>14 DEF BeginGet
<1>15. ASSUME NEW a \in Address, NEW v \in Word, BeginSet(c, a, v) PROVE TypeOK'
  BY <1>0, <1>15 DEF BeginSet
<1>16. ASSUME NEW a \in Address, BeginCall(c, a) PROVE TypeOK'
  BY <1>0, <1>16 DEF BeginCall
<1>17. CASE Quit(c)         BY <1>0, <1>17 DEF Quit, Address
<1> QED
  BY <1>1, <1>2, <1>3, <1>4, <1>5, <1>6, <1>7, <1>8, <1>9, <1>10,
     <1>11, <1>12, <1>13, <1>14, <1>15, <1>16, <1>17 DEF Advance, Choose

\* Hence every step does.
LEMMA TypeStep == TypeOK /\ [Next]_vars => TypeOK'
<1> SUFFICES ASSUME TypeOK, [Next]_vars PROVE TypeOK'
  OBVIOUS
<1>1. CASE AgentStep
  BY <1>1, AgentTypeStep DEF AgentStep, TypeOK, hostVars
<1>2. ASSUME NEW c \in Client, Advance(c) \/ Choose(c) PROVE TypeOK'
  BY <1>2, HostTypeStep
<1>3. CASE UNCHANGED vars
  BY <1>3 DEF vars, TypeOK, AgentTypeOK, mailbox, agentVars, hostVars
<1> QED
  BY <1>1, <1>2, <1>3 DEF Next

\* The initial states are well typed.
LEMMA TypeInit == Init => TypeOK
  BY AgentAssumption, ShellAssumption
  DEF Init, TypeOK, AgentTypeOK, AgentPc, StateWord, CmdWord, CmdType, NoCmd,
      Address, HostPc, Program

\* Every register and every variable of the agent and of the processes keeps
\* its range, whatever the processes do and however they overlap.
THEOREM TypeCorrect == Spec => []TypeOK
  BY TypeInit, TypeStep, PTL DEF Spec

-----------------------------------------------------------------------------
(* What one step of the agent does to the mailbox, in each situation a     *)
(* client can be in.                                                       *)

\* An idle agent only reads: everything but STATE stays.
LEMMA IdleStep ==
    ASSUME AgentNext, Idle
    PROVE  Idle' /\ UNCHANGED <<cmd, arg0, arg1, flags, mem>>
<1> USE DEF Idle, mailbox
<1>1. CASE Announce BY <1>1 DEF Announce
<1>2. CASE Poll     BY <1>2 DEF Poll, IsCommand, NoCmd
<1> QED
  BY <1>1, <1>2 DEF AgentNext, AgentCode, Callee, StartFlags, StartCmd, AckRead,
     AckWrite, Dispatch, Complete, GetAddr, GetLoad, GetReply, SetAddr, SetVal,
     SetStore, CallAddr, CallZero, CallReply, ReturnClear, ReturnExit, HardFault,
     CalleeReturns, CalleeFaults

\* While an access is served its arguments stay, memory changes only as a
\* MEM_SET asks, and CMD is cleared only once the answer is in place.
LEMMA ServeStep ==
    ASSUME TypeOK, MailboxInv, ServiceInv, AgentNext, cmd.type \in {"MEM_GET", "MEM_SET"}
    PROVE  /\ arg0' = arg0
           /\ cmd.type = "MEM_SET" => arg1' = arg1
           /\ \/ mem' = mem
              \/ /\ cmd.type = "MEM_SET" /\ arg0 \in Addr
                 /\ mem' = [mem EXCEPT ![arg0] = arg1]
           /\ IF cmd' = NoCmd THEN Idle' /\ Answered' ELSE cmd'.type = cmd.type
<1> USE DEF MailboxInv, ServiceInv, Idle, Answered, TypeOK, AgentTypeOK, AgentPc,
        NoCmd, Request, Accepted, BusyPcs, GetPcs, SetPcs, CallPcs, Shell, mailbox
<1>1. CASE Announce   BY <1>1 DEF Announce
<1>2. CASE Poll       BY <1>2 DEF Poll
<1>3. CASE AckRead    BY <1>3 DEF AckRead
<1>4. CASE AckWrite   BY <1>4 DEF AckWrite
<1>5. CASE Dispatch   BY <1>5 DEF Dispatch
<1>6. CASE Complete   BY <1>6 DEF Complete
<1>7. CASE GetAddr    BY <1>7 DEF GetAddr
<1>8. CASE GetLoad    BY <1>8 DEF GetLoad
<1>9. CASE GetReply   BY <1>9 DEF GetReply
<1>10. CASE SetAddr   BY <1>10 DEF SetAddr
<1>11. CASE SetVal    BY <1>11 DEF SetVal
<1>12. CASE SetStore  BY <1>12 DEF SetStore
<1>13. CASE HardFault BY <1>13 DEF HardFault
<1> QED
  BY <1>1, <1>2, <1>3, <1>4, <1>5, <1>6, <1>7, <1>8, <1>9, <1>10, <1>11, <1>12,
     <1>13 DEF AgentNext, AgentCode, Callee, StartFlags, StartCmd, CallAddr,
     CallZero, CallReply, ReturnClear, ReturnExit, CalleeReturns, CalleeFaults

\* In the situations MailboxInv allows, the agent never takes RUNNING back.
LEMMA StateStep ==
    ASSUME AgentNext, apc \notin {"ret_clear", "ret_exit"}
    PROVE  state' = state \/ state' = "RUNNING"
  BY DEF AgentNext, AgentCode, Callee, StartFlags, StartCmd, Announce, Poll,
     AckRead, AckWrite, Dispatch, Complete, GetAddr, GetLoad, GetReply, SetAddr,
     SetVal, SetStore, CallAddr, CallZero, CallReply, ReturnClear, ReturnExit,
     HardFault, CalleeReturns, CalleeFaults, mailbox

\* The agent keeps the two halves of the invariant that are about itself.
LEMMA AgentMailboxStep ==
    ASSUME TypeOK, MailboxInv, ServiceInv, AgentNext
    PROVE  MailboxInv' /\ ServiceInv'
<1> USE AgentAssumption
    DEF MailboxInv, ServiceInv, Answered, TypeOK, AgentTypeOK, AgentPc, Address,
        NoCmd, Request, Accepted, BusyPcs, GetPcs, SetPcs, CallPcs, Shell, mailbox
<1>1. CASE StartFlags     BY <1>1 DEF StartFlags
<1>2. CASE StartCmd       BY <1>2 DEF StartCmd
<1>3. CASE Announce       BY <1>3 DEF Announce
<1>4. CASE Poll           BY <1>4 DEF Poll, IsCommand
<1>5. CASE AckRead        BY <1>5 DEF AckRead
<1>6. CASE AckWrite       BY <1>6 DEF AckWrite
<1>7. CASE Dispatch       BY <1>7 DEF Dispatch, Branch
<1>8. CASE Complete       BY <1>8 DEF Complete
<1>9. CASE GetAddr        BY <1>9 DEF GetAddr
<1>10. CASE GetLoad       BY <1>10 DEF GetLoad
<1>11. CASE GetReply      BY <1>11 DEF GetReply
<1>12. CASE SetAddr       BY <1>12 DEF SetAddr
<1>13. CASE SetVal        BY <1>13 DEF SetVal
<1>14. CASE SetStore      BY <1>14 DEF SetStore
<1>15. CASE CallAddr      BY <1>15 DEF CallAddr
<1>16. CASE CallZero      BY <1>16 DEF CallZero
<1>17. CASE CallReply     BY <1>17 DEF CallReply
<1>18. CASE ReturnClear   BY <1>18 DEF ReturnClear
<1>19. CASE ReturnExit    BY <1>19 DEF ReturnExit
<1>20. CASE HardFault     BY <1>20 DEF HardFault
<1>21. CASE CalleeReturns BY <1>21 DEF CalleeReturns
<1>22. CASE CalleeFaults  BY <1>22 DEF CalleeFaults
<1> QED
  BY <1>1, <1>2, <1>3, <1>4, <1>5, <1>6, <1>7, <1>8, <1>9, <1>10, <1>11,
     <1>12, <1>13, <1>14, <1>15, <1>16, <1>17, <1>18, <1>19, <1>20, <1>21,
     <1>22 DEF AgentNext, AgentCode, Callee

-----------------------------------------------------------------------------
(* A step of the agent preserves what each client knows.                   *)

ClientInv(c) == FlowInv(c) /\ AccessInv(c) /\ StoredInv(c)

\* The agent keeps what each client knows: see the three lemmas above.
LEMMA AgentClientStep ==
    ASSUME TypeOK, MailboxInv, ServiceInv, AgentStep, NEW c \in Client, ClientInv(c)
    PROVE  ClientInv(c)'
<1> USE DEF AgentStep, hostVars, ClientInv
<1>1. FlowInv(c)'
  BY StateStep DEF FlowInv, MailboxInv
<1>2. CASE Idle
  BY <1>1, <1>2, IdleStep
  DEF AccessInv, StoredInv, HasAnswer, Answered, InFlight, Idle
<1>3. CASE cmd.type \in {"MEM_GET", "MEM_SET"}
  <2> USE <1>3, ServeStep
  <2>1. cmd # NoCmd /\ ~Idle
    BY DEF NoCmd, Idle
  <2>2. AccessInv(c)'
    BY <2>1 DEF AccessInv, FlowInv, HasAnswer
  <2>3. StoredInv(c)'
    <3> SUFFICES ASSUME c \notin warned, hpc[c] # "exit",
                        NEW a \in Address, wrote[c][a] # Unwritten, ~InFlight(c, a)
                 PROVE  a \in Addr /\ mem'[a] = wrote[c][a] /\ hpc[c] = "await"
      BY DEF StoredInv, InFlight
    <3>1. a \in Addr /\ mem[a] = wrote[c][a] /\ hpc[c] = "await"
      BY <2>1 DEF StoredInv
    <3>2. cmd.type = hop[c] /\ arg0 = haddr[c]
      BY <2>1, <3>1 DEF AccessInv
    <3>3. mem' # mem => arg0 # a
      BY <3>1, <3>2 DEF InFlight
    <3> QED
      BY <3>1, <3>3 DEF TypeOK, AgentTypeOK
  <2> QED
    BY <1>1, <2>2, <2>3
<1>4. CASE ~Idle /\ cmd.type \notin {"MEM_GET", "MEM_SET"}
  \* A call, or the agent has not started: no client depends on the mailbox.
  <2>1. hpc[c] # "await"
    BY <1>4 DEF AccessInv, FlowInv, HasAnswer
  <2> QED
    BY <1>1, <1>4, <2>1 DEF AccessInv, StoredInv, FlowInv, HasAnswer, InFlight
<1> QED
  BY <1>2, <1>3, <1>4

-----------------------------------------------------------------------------
(* Steps of the processes.                                                 *)

\* A step that leaves the mailbox and the agent alone.
LEMMA MailboxFrame ==
    ASSUME MailboxInv, ServiceInv, UNCHANGED <<mailbox, agentSide>>
    PROVE  MailboxInv' /\ ServiceInv' /\ (Idle <=> Idle') /\ (Answered <=> Answered')
  BY DEF MailboxInv, ServiceInv, Answered, Idle, mailbox, agentSide, agentVars

\* The agent polls, and a process writes its arguments or its command.
LEMMA PostFrame ==
    ASSUME TypeOK, MailboxInv, ServiceInv, Idle, UNCHANGED <<state, flags, agentSide>>,
           cmd' = cmd \/ \E type \in Shell : cmd' = Request(type)
    PROVE  MailboxInv' /\ ServiceInv'
  BY DEF MailboxInv, ServiceInv, Idle, agentSide, agentVars, Answered, BusyPcs,
     GetPcs, SetPcs, CallPcs, Shell, TypeOK, AgentTypeOK, AgentPc

\* A clear CMD under a RUNNING agent means that it polls.
LEMMA ClearMeansIdle ==
    ASSUME TypeOK, MailboxInv, state = "RUNNING", cmd = NoCmd
    PROVE  Idle
  BY DEF Idle, MailboxInv, TypeOK, AgentTypeOK, AgentPc, BusyPcs, GetPcs, SetPcs,
     CallPcs, Shell, Request, Accepted, NoCmd

\* While one process runs, the others are off and nothing is claimed of them.
LEMMA OffClient ==
    ASSUME NEW d \in Client, ClientInv(d), hpc[d] = "off",
           hpc'[d] = hpc[d], hop'[d] = hop[d], wrote'[d] = wrote[d]
    PROVE  ClientInv(d)'
  BY DEF ClientInv, FlowInv, AccessInv, StoredInv

\* A step of a process keeps the invariant, one action at a time.
LEMMA HostStep ==
    ASSUME IInv, Exclusive = TRUE, NEW c \in Client, Advance(c) \/ Choose(c)
    PROVE  IInv'
<1> USE DEF IInv, TypeOK, Goto, Warn, agentSide, locals
<1>1. /\ hpc' = [hpc EXCEPT ![c] = hpc'[c]]
      /\ hpc[c] = "off" => \A d \in Client : hpc[d] = "off"
      /\ \A d \in Client \ {c} : hop'[d] = hop[d] /\ wrote'[d] = wrote[d]
  BY DEF Advance, Choose, ChainReady, ChainTimesOut, CheckState, WaitIdle,
     WaitTimesOut, Fail, PutArg0, PutArg1, Post, AwaitDone, AwaitTimesOut,
     CheckFlags, FetchArg1, Launch, BeginGet, BeginSet, BeginCall, Quit
<1>2. \A d \in Client \ {c} : hpc[d] = "off"
  BY <1>1 DEF OneProcess
<1>3. OneProcess'
  BY <1>1, <1>2 DEF OneProcess
<1>4. \A d \in Client \ {c} : ClientInv(d)'
  BY <1>1, <1>2, OffClient DEF ClientInv
<1>5. TypeOK'
  BY HostTypeStep
<1>6. SUFFICES MailboxInv' /\ ServiceInv' /\ ClientInv(c)'
  BY <1>3, <1>4, <1>5 DEF ClientInv
<1> USE <1>5 DEF ClientInv
<1>11. CASE ChainReady(c)
  <2>1. MailboxInv' /\ ServiceInv' /\ (Idle <=> Idle') /\ (Answered <=> Answered')
    BY <1>11, MailboxFrame DEF ChainReady
  <2>2. FlowInv(c)'
    BY <1>11, <2>1 DEF ChainReady, FlowInv, mailbox, Shell
  <2>3. AccessInv(c)'
    BY <1>11, <2>1 DEF ChainReady, AccessInv, FlowInv, HasAnswer, mailbox
  <2>4. StoredInv(c)'
    BY <1>11, <2>1 DEF ChainReady, StoredInv, InFlight, FlowInv, AccessInv, HasAnswer
  <2> QED
    BY <2>1, <2>2, <2>3, <2>4
<1>12. CASE ChainTimesOut(c)
  <2>1. MailboxInv' /\ ServiceInv' /\ (Idle <=> Idle') /\ (Answered <=> Answered')
    BY <1>12, MailboxFrame DEF ChainTimesOut
  <2>2. FlowInv(c)'
    BY <1>12, <2>1 DEF ChainTimesOut, FlowInv, mailbox, Shell
  <2>3. AccessInv(c)'
    BY <1>12, <2>1 DEF ChainTimesOut, AccessInv, FlowInv, HasAnswer, mailbox
  <2>4. StoredInv(c)'
    BY <1>12, <2>1 DEF ChainTimesOut, StoredInv, InFlight, FlowInv, AccessInv, HasAnswer
  <2> QED
    BY <2>1, <2>2, <2>3, <2>4
<1>13. CASE CheckState(c)
  <2>1. MailboxInv' /\ ServiceInv' /\ (Idle <=> Idle') /\ (Answered <=> Answered')
    BY <1>13, MailboxFrame DEF CheckState, Fail
  <2>2. FlowInv(c)'
    BY <1>13, <2>1 DEF CheckState, Fail, FlowInv, mailbox, Shell
  <2>3. AccessInv(c)'
    BY <1>13, <2>1 DEF CheckState, Fail, AccessInv, FlowInv, HasAnswer, mailbox
  <2>4. StoredInv(c)'
    BY <1>13, <2>1 DEF CheckState, Fail, StoredInv, InFlight, FlowInv, AccessInv, HasAnswer
  <2> QED
    BY <2>1, <2>2, <2>3, <2>4
<1>14. CASE WaitIdle(c)
  <2>1. MailboxInv' /\ ServiceInv' /\ (Idle <=> Idle') /\ (Answered <=> Answered')
    BY <1>14, MailboxFrame DEF WaitIdle
  <2>2. FlowInv(c)'
    BY <1>14, <2>1 DEF WaitIdle, FlowInv, mailbox, Shell
  <2>3. AccessInv(c)'
    BY <1>14, <2>1, ClearMeansIdle DEF WaitIdle, AccessInv, FlowInv
  <2>4. StoredInv(c)'
    BY <1>14, <2>1 DEF WaitIdle, StoredInv, InFlight, FlowInv, AccessInv, HasAnswer
  <2> QED
    BY <2>1, <2>2, <2>3, <2>4
<1>15. CASE WaitTimesOut(c)
  <2>1. MailboxInv' /\ ServiceInv' /\ (Idle <=> Idle') /\ (Answered <=> Answered')
    BY <1>15, MailboxFrame DEF WaitTimesOut, Fail
  <2>2. FlowInv(c)'
    BY <1>15, <2>1 DEF WaitTimesOut, Fail, FlowInv, mailbox, Shell
  <2>3. AccessInv(c)'
    BY <1>15, <2>1 DEF WaitTimesOut, Fail, AccessInv, FlowInv, HasAnswer, mailbox
  <2>4. StoredInv(c)'
    BY <1>15, <2>1 DEF WaitTimesOut, Fail, StoredInv, InFlight, FlowInv, AccessInv, HasAnswer
  <2> QED
    BY <2>1, <2>2, <2>3, <2>4
<1>16. CASE PutArg0(c)
  <2>1. Idle
    BY <1>16 DEF PutArg0, AccessInv
  <2>2. MailboxInv' /\ ServiceInv' /\ Idle'
    BY <1>16, <2>1, PostFrame DEF PutArg0, Idle, agentSide, agentVars
  <2>3. FlowInv(c)'
    BY <1>16, <2>1, <2>2 DEF PutArg0, FlowInv, mailbox, Shell
  <2>4. AccessInv(c)'
    BY <1>16, <2>1, <2>2 DEF PutArg0, AccessInv, FlowInv, HasAnswer, mailbox
  <2>5. StoredInv(c)'
    BY <1>16, <2>1, <2>2 DEF PutArg0, StoredInv, InFlight, FlowInv, AccessInv, HasAnswer
  <2> QED
    BY <2>1, <2>2, <2>3, <2>4, <2>5
<1>17. CASE PutArg1(c)
  <2>1. Idle
    BY <1>17 DEF PutArg1, AccessInv
  <2>2. MailboxInv' /\ ServiceInv' /\ Idle'
    BY <1>17, <2>1, PostFrame DEF PutArg1, Idle, agentSide, agentVars
  <2>3. FlowInv(c)'
    BY <1>17, <2>1, <2>2 DEF PutArg1, FlowInv, mailbox, Shell
  <2>4. AccessInv(c)'
    BY <1>17, <2>1, <2>2 DEF PutArg1, AccessInv, FlowInv, HasAnswer, mailbox
  <2>5. StoredInv(c)'
    BY <1>17, <2>1, <2>2 DEF PutArg1, StoredInv, InFlight, FlowInv, AccessInv, HasAnswer
  <2> QED
    BY <2>1, <2>2, <2>3, <2>4, <2>5
<1>18. CASE Post(c)
  <2>1. Idle /\ hop[c] \in Shell
    BY <1>18 DEF Post, AccessInv, FlowInv
  <2>2. MailboxInv' /\ ServiceInv'
    BY <1>18, <2>1, PostFrame DEF Post
  <2>3. FlowInv(c)'
    BY <1>18, <2>1, <2>2 DEF Post, FlowInv, mailbox, Shell
  <2>4. AccessInv(c)'
    BY <1>18, <2>1, <2>2 DEF Post, AccessInv, FlowInv, Request, NoCmd
  <2>5. StoredInv(c)'
    BY <1>18, <2>1, <2>2 DEF Post, StoredInv, InFlight, FlowInv, AccessInv, HasAnswer
  <2> QED
    BY <2>1, <2>2, <2>3, <2>4, <2>5
<1>19. CASE AwaitDone(c)
  <2>1. MailboxInv' /\ ServiceInv' /\ (Idle <=> Idle') /\ (Answered <=> Answered')
    BY <1>19, MailboxFrame DEF AwaitDone
  <2>2. FlowInv(c)'
    BY <1>19, <2>1 DEF AwaitDone, FlowInv, mailbox, Shell
  <2>3. AccessInv(c)'
    BY <1>19, <2>1 DEF AwaitDone, AccessInv, FlowInv, HasAnswer, mailbox
  <2>4. StoredInv(c)'
    BY <1>19, <2>1 DEF AwaitDone, StoredInv, InFlight, FlowInv, AccessInv, HasAnswer
  <2> QED
    BY <2>1, <2>2, <2>3, <2>4
<1>20. CASE AwaitTimesOut(c)
  <2>1. MailboxInv' /\ ServiceInv' /\ (Idle <=> Idle') /\ (Answered <=> Answered')
    BY <1>20, MailboxFrame DEF AwaitTimesOut, Fail
  <2>2. FlowInv(c)'
    BY <1>20, <2>1 DEF AwaitTimesOut, Fail, FlowInv, mailbox, Shell
  <2>3. AccessInv(c)'
    BY <1>20, <2>1 DEF AwaitTimesOut, Fail, AccessInv, FlowInv, HasAnswer, mailbox
  <2>4. StoredInv(c)'
    BY <1>20, <2>1 DEF AwaitTimesOut, Fail, StoredInv, InFlight, FlowInv, AccessInv, HasAnswer
  <2> QED
    BY <2>1, <2>2, <2>3, <2>4
<1>21. CASE CheckFlags(c)
  <2>1. MailboxInv' /\ ServiceInv' /\ (Idle <=> Idle') /\ (Answered <=> Answered')
    BY <1>21, MailboxFrame DEF CheckFlags, Fail
  <2>2. FlowInv(c)'
    BY <1>21, <2>1 DEF CheckFlags, Fail, FlowInv, mailbox, Shell
  <2>3. AccessInv(c)'
    BY <1>21, <2>1 DEF CheckFlags, Fail, AccessInv, FlowInv, HasAnswer, mailbox
  <2>4. StoredInv(c)'
    BY <1>21, <2>1 DEF CheckFlags, Fail, StoredInv, InFlight, FlowInv, AccessInv, HasAnswer,
       Answered, AgentTypeOK
  <2> QED
    BY <2>1, <2>2, <2>3, <2>4
<1>22. CASE FetchArg1(c)
  <2>1. MailboxInv' /\ ServiceInv' /\ (Idle <=> Idle') /\ (Answered <=> Answered')
    BY <1>22, MailboxFrame DEF FetchArg1
  <2>2. FlowInv(c)'
    BY <1>22, <2>1 DEF FetchArg1, FlowInv, mailbox, Shell
  <2>3. AccessInv(c)'
    BY <1>22, <2>1 DEF FetchArg1, AccessInv, FlowInv, HasAnswer, Answered, mailbox
  <2>4. StoredInv(c)'
    BY <1>22, <2>1 DEF FetchArg1, StoredInv, InFlight, FlowInv, AccessInv, HasAnswer
  <2> QED
    BY <2>1, <2>2, <2>3, <2>4
<1>23. ASSUME NEW p \in Program, Launch(c, p)
      PROVE  MailboxInv' /\ ServiceInv' /\ ClientInv(c)'
  <2>1. MailboxInv' /\ ServiceInv' /\ (Idle <=> Idle') /\ (Answered <=> Answered')
    BY <1>23, MailboxFrame DEF Launch
  <2>2. FlowInv(c)'
    BY <1>23, <2>1 DEF Launch, FlowInv, mailbox, Shell
  <2>3. AccessInv(c)'
    BY <1>23, <2>1 DEF Launch, AccessInv, FlowInv, HasAnswer, mailbox
  <2>4. StoredInv(c)'
    BY <1>23, <2>1 DEF Launch, StoredInv, InFlight, FlowInv, AccessInv, HasAnswer
  <2> QED
    BY <2>1, <2>2, <2>3, <2>4
<1>24. ASSUME NEW a \in Address, BeginGet(c, a)
      PROVE  MailboxInv' /\ ServiceInv' /\ ClientInv(c)'
  <2>1. MailboxInv' /\ ServiceInv' /\ (Idle <=> Idle') /\ (Answered <=> Answered')
    BY <1>24, MailboxFrame DEF BeginGet
  <2>2. FlowInv(c)'
    BY <1>24, <2>1 DEF BeginGet, FlowInv, mailbox, Shell
  <2>3. AccessInv(c)'
    BY <1>24, <2>1 DEF BeginGet, AccessInv, FlowInv, HasAnswer, mailbox
  <2>4. StoredInv(c)'
    BY <1>24, <2>1 DEF BeginGet, StoredInv, InFlight, FlowInv, AccessInv, HasAnswer
  <2> QED
    BY <2>1, <2>2, <2>3, <2>4
<1>25. ASSUME NEW a \in Address, NEW v \in Word, BeginSet(c, a, v)
      PROVE  MailboxInv' /\ ServiceInv' /\ ClientInv(c)'
  <2>1. MailboxInv' /\ ServiceInv' /\ (Idle <=> Idle') /\ (Answered <=> Answered')
    BY <1>25, MailboxFrame DEF BeginSet
  <2>2. FlowInv(c)'
    BY <1>25, <2>1 DEF BeginSet, FlowInv, mailbox, Shell
  <2>3. AccessInv(c)'
    BY <1>25, <2>1 DEF BeginSet, AccessInv, FlowInv, HasAnswer, mailbox
  <2>4. StoredInv(c)'
    BY <1>25, <2>1 DEF BeginSet, StoredInv, InFlight, FlowInv, AccessInv, HasAnswer
  <2> QED
    BY <2>1, <2>2, <2>3, <2>4
<1>26. ASSUME NEW a \in Address, BeginCall(c, a)
      PROVE  MailboxInv' /\ ServiceInv' /\ ClientInv(c)'
  <2>1. MailboxInv' /\ ServiceInv' /\ (Idle <=> Idle') /\ (Answered <=> Answered')
    BY <1>26, MailboxFrame DEF BeginCall
  <2>2. FlowInv(c)'
    BY <1>26, <2>1 DEF BeginCall, FlowInv, mailbox, Shell
  <2>3. AccessInv(c)'
    BY <1>26, <2>1 DEF BeginCall, AccessInv, FlowInv, HasAnswer, mailbox
  <2>4. StoredInv(c)'
    BY <1>26, <2>1 DEF BeginCall, StoredInv, InFlight, FlowInv, AccessInv, HasAnswer
  <2> QED
    BY <2>1, <2>2, <2>3, <2>4
<1>27. CASE Quit(c)
  <2>1. MailboxInv' /\ ServiceInv' /\ (Idle <=> Idle') /\ (Answered <=> Answered')
    BY <1>27, MailboxFrame DEF Quit
  <2>2. FlowInv(c)'
    BY <1>27, <2>1 DEF Quit, FlowInv, mailbox, Shell
  <2>3. AccessInv(c)'
    BY <1>27, <2>1 DEF Quit, AccessInv, FlowInv, HasAnswer, mailbox
  <2>4. StoredInv(c)'
    BY <1>27, <2>1 DEF Quit, StoredInv, InFlight, FlowInv, AccessInv, HasAnswer
  <2> QED
    BY <2>1, <2>2, <2>3, <2>4
<1> QED
  BY <1>11, <1>12, <1>13, <1>14, <1>15, <1>16, <1>17, <1>18, <1>19, <1>20, <1>21, <1>22, <1>23, <1>24, <1>25, <1>26, <1>27 DEF Advance, Choose

-----------------------------------------------------------------------------
(* The invariant and what follows from it.                                 *)

\* The invariant holds in the initial states.
LEMMA InvInit == Init => IInv
<1> SUFFICES ASSUME Init PROVE IInv
  OBVIOUS
<1>1. MailboxInv /\ ServiceInv
  BY DEF Init, MailboxInv, ServiceInv, BusyPcs, GetPcs, SetPcs, CallPcs
<1>2. OneProcess
  BY DEF Init, OneProcess
<1>3. \A c \in Client : FlowInv(c) /\ AccessInv(c) /\ StoredInv(c)
  BY DEF Init, FlowInv, AccessInv, StoredInv
<1> QED
  BY <1>1, <1>2, <1>3, TypeInit DEF IInv

\* Every step keeps it.
LEMMA InvStep ==
    ASSUME Exclusive = TRUE
    PROVE  IInv /\ [Next]_vars => IInv'
<1> SUFFICES ASSUME IInv, [Next]_vars PROVE IInv'
  OBVIOUS
<1>1. CASE AgentStep
  <2>1. TypeOK'
    BY TypeStep DEF IInv
  <2>2. MailboxInv' /\ ServiceInv'
    BY <1>1, AgentMailboxStep DEF IInv, AgentStep
  <2>3. \A c \in Client : ClientInv(c)'
    BY <1>1, AgentClientStep DEF IInv, ClientInv
  <2>4. OneProcess'
    BY <1>1 DEF IInv, OneProcess, AgentStep, hostVars
  <2> QED
    BY <2>1, <2>2, <2>3, <2>4 DEF IInv, ClientInv
<1>2. ASSUME NEW c \in Client, Advance(c) \/ Choose(c) PROVE IInv'
  BY <1>2, HostStep
<1>3. CASE UNCHANGED vars
  <2>1. TypeOK'
    BY TypeStep DEF IInv
  <2>2. MailboxInv' /\ ServiceInv' /\ (Idle <=> Idle') /\ (Answered <=> Answered')
    BY <1>3, MailboxFrame DEF IInv, vars, agentSide
  <2>3. \A c \in Client : FlowInv(c)' /\ AccessInv(c)' /\ StoredInv(c)'
    BY <1>3, <2>2 DEF IInv, vars, hostVars, mailbox, FlowInv, AccessInv, StoredInv,
       HasAnswer, InFlight
  <2>4. OneProcess'
    BY <1>3 DEF IInv, OneProcess, vars, hostVars
  <2> QED
    BY <2>1, <2>2, <2>3, <2>4 DEF IInv
<1> QED
  BY <1>1, <1>2, <1>3 DEF Next

\* The mailbox protocol keeps IInv as long as processes follow one another:
\* agent, mailbox and client agree on whose command is being served, across
\* kills, time-outs and faults.
THEOREM Inductive ==
    ASSUME Exclusive = TRUE
    PROVE  Spec => []IInv
  BY InvInit, InvStep, PTL DEF Spec

\* A host read returns the current word or 0xFFFFFFFF with a warning, for
\* every memory, after any number of kills, time-outs and faults.
THEOREM ReadsCurrent ==
    ASSUME Exclusive = TRUE
    PROVE  Spec => []ReadsAreCurrent
<1>1. IInv => ReadsAreCurrent
  BY DEF IInv, AccessInv, ReadsAreCurrent
<1> QED
  BY <1>1, Inductive, PTL

\* A process that printed no warning has every word it wrote in memory, for an
\* image of any size.
THEOREM SilentStores ==
    ASSUME Exclusive = TRUE
    PROVE  Spec => []SilenceMeansStored
<1>1. IInv => SilenceMeansStored
  <2> SUFFICES ASSUME IInv, NEW c \in Client, c \notin warned,
                      hpc[c] = "ready" \/ (hop[c] = "CALL_0" /\ hpc[c] # "exit"),
                      NEW a \in Address, wrote[c][a] # Unwritten
               PROVE  a \in Addr /\ mem[a] = wrote[c][a]
    BY DEF SilenceMeansStored
  <2> QED
    BY DEF IInv, StoredInv, InFlight
<1> QED
  BY <1>1, Inductive, PTL

\* Outside called code the memory changes only as the command in the mailbox
\* says.
THEOREM AskedStores ==
    ASSUME Exclusive = TRUE
    PROVE  Spec => StoresAreAsked
<1> DEFINE Asked == \/ apc = "callee"
                    \/ /\ cmd.type = "MEM_SET"
                       /\ arg0 \in Addr
                       /\ mem' = [mem EXCEPT ![arg0] = arg1]
<1>1. IInv /\ [Next]_vars => [Asked]_mem
  <2> SUFFICES ASSUME IInv, Next PROVE Asked \/ UNCHANGED mem
    BY DEF vars
  <2>1. CASE AgentStep
    <3>1. CASE SetStore
      BY <3>1 DEF SetStore, IInv, MailboxInv, ServiceInv, BusyPcs, SetPcs, Accepted
    <3>2. CASE ~SetStore
      BY <2>1, <3>2 DEF AgentStep, AgentNext, AgentCode, Callee, StartFlags,
         StartCmd, Announce, Poll, AckRead, AckWrite, Dispatch, Complete, GetAddr,
         GetLoad, GetReply, SetAddr, SetVal, CallAddr, CallZero, CallReply,
         ReturnClear, ReturnExit, HardFault, CalleeReturns, CalleeFaults
    <3> QED
      BY <3>1, <3>2
  <2>2. ASSUME NEW c \in Client, Advance(c) \/ Choose(c) PROVE UNCHANGED mem
    BY <2>2 DEF Advance, Choose, ChainReady, ChainTimesOut, CheckState, WaitIdle,
       WaitTimesOut, PutArg0, PutArg1, Post, AwaitDone, AwaitTimesOut, CheckFlags,
       FetchArg1, Launch, BeginGet, BeginSet, BeginCall, Quit, agentSide
  <2> QED
    BY <2>1, <2>2 DEF Next
<1> QED
  BY <1>1, Inductive, PTL DEF Spec, StoresAreAsked

-----------------------------------------------------------------------------
(* Refinement: every step of the protocol is a step of ApeMemory or leaves *)
(* its variables alone.                                                    *)

\* Initial states map to initial states of ApeMemory.
LEMMA RefineInit == Init => Memory!Init
  BY DEF Init, Memory!Init, requestView, replyView, NoCmd, Memory!NoRequest,
     Memory!NoReply

\* The agent's load, store, fault handler, callee and clearing of CMD are the
\* abstract steps; its other steps are invisible.
LEMMA RefineAgent ==
    ASSUME IInv, AgentNext
    PROVE  Memory!Next \/ UNCHANGED Memory!vars
<1> USE AgentAssumption DEF IInv, TypeOK, AgentTypeOK, AgentPc, MailboxInv,
        ServiceInv, Answered, BusyPcs, GetPcs, SetPcs, CallPcs, Shell, Request,
        Accepted, NoCmd, Address, mailbox, requestView, replyView, target,
        Memory!vars, Memory!Next, Memory!Pending, Memory!NoRequest,
        Memory!NoReply, Memory!Fault, Memory!Ok, Memory!Value
<1>1. CASE StartFlags     BY <1>1 DEF StartFlags
<1>2. CASE StartCmd       BY <1>2 DEF StartCmd
<1>3. CASE Announce       BY <1>3 DEF Announce
<1>4. CASE Poll           BY <1>4 DEF Poll, IsCommand
<1>5. CASE AckRead        BY <1>5 DEF AckRead
<1>6. CASE AckWrite       BY <1>6 DEF AckWrite
<1>7. CASE Dispatch       BY <1>7 DEF Dispatch, Branch
<1>8. CASE Complete       BY <1>8 DEF Complete, Memory!Complete
<1>9. CASE GetAddr        BY <1>9 DEF GetAddr
<1>10. CASE GetLoad
  <2>1. requestView = [op |-> "MEM_GET", addr |-> arg0] /\ requestView' = requestView
    BY <1>10 DEF GetLoad
  <2>2. replyView = Memory!NoReply /\ addr = arg0
    BY <1>10 DEF GetLoad
  <2>3. CASE addr \in Addr
    <3>1. replyView' = Memory!Value(mem[arg0])
      BY <1>10, <2>2, <2>3 DEF GetLoad
    <3>2. Memory!Read
      BY <1>10, <2>1, <2>2, <2>3, <3>1 DEF GetLoad, Memory!Read
    <3> QED
      BY <3>2
  <2>4. CASE addr \notin Addr
    BY <1>10, <2>1, <2>4 DEF GetLoad
  <2> QED
    BY ONLY <2>3, <2>4
<1>11. CASE GetReply
  <2>1. replyView' = replyView
    <3>1. CASE flags = 0
      BY <1>11, <3>1 DEF GetReply
    <3>2. CASE flags # 0
      BY <1>11, <3>2 DEF GetReply
    <3> QED
      BY <3>1, <3>2
  <2>2. requestView' = requestView
    BY <1>11 DEF GetReply
  <2> QED
    BY <1>11, <2>1, <2>2 DEF GetReply
<1>12. CASE SetAddr       BY <1>12 DEF SetAddr
<1>13. CASE SetVal        BY <1>13 DEF SetVal
<1>14. CASE SetStore      BY <1>14 DEF SetStore, Memory!Write
<1>15. CASE CallAddr      BY <1>15 DEF CallAddr
<1>16. CASE CallZero      BY <1>16 DEF CallZero
<1>17. CASE CallReply     BY <1>17 DEF CallReply
<1>18. CASE ReturnClear   BY <1>18 DEF ReturnClear
<1>19. CASE ReturnExit    BY <1>19 DEF ReturnExit
<1>20. CASE HardFault
  <2>1. CASE curCmd = "CALL_0"
    <3>1. ignore = 0
      BY <1>20, <2>1 DEF HardFault
    <3> QED
      BY <1>20, <2>1, <3>1 DEF HardFault
  <2>2. CASE curCmd \in {"MEM_GET", "MEM_SET"}
    <3>0. apc = "fault" /\ ignore = 1 /\ flags' = 1
      BY <1>20, <2>2 DEF HardFault
    <3>1. replyView = Memory!NoReply /\ replyView' = Memory!Fault
      <4>1. replyView = Memory!NoReply
        BY <3>0
      <4>2. CASE apc' = "get_reply"
        BY <3>0, <4>1, <4>2
      <4>3. CASE apc' = "complete"
        BY <3>0, <4>1, <4>3
      <4> QED
        BY <1>20, <2>2, <3>0, <4>2, <4>3 DEF HardFault
    <3>2. /\ requestView.op = curCmd /\ requestView.addr = arg0
          /\ requestView' = requestView
          /\ mem' = mem
      BY <1>20, <2>2 DEF HardFault
    <3>3. requestView # Memory!NoRequest
      BY <2>2, <3>2
    <3>4. Memory!Refuse
      BY <1>20, <2>2, <3>1, <3>2, <3>3 DEF HardFault, Memory!Refuse
    <3> QED
      BY <3>4
  <2> QED
    BY <1>20, <2>1, <2>2 DEF HardFault
<1>21. CASE CalleeReturns BY <1>21 DEF CalleeReturns, Memory!RunCode
<1>22. CASE CalleeFaults  BY <1>22 DEF CalleeFaults
<1> QED
  BY <1>1, <1>2, <1>3, <1>4, <1>5, <1>6, <1>7, <1>8, <1>9, <1>10, <1>11,
     <1>12, <1>13, <1>14, <1>15, <1>16, <1>17, <1>18, <1>19, <1>20, <1>21,
     <1>22 DEF AgentNext, AgentCode, Callee

\* A process submits a request by writing CMD to an idle mailbox; nothing else
\* it does can be seen.
LEMMA RefineHost ==
    ASSUME IInv, NEW c \in Client, Advance(c) \/ Choose(c)
    PROVE  Memory!Next \/ UNCHANGED Memory!vars
<1> USE DEF IInv, mailbox, agentSide, agentVars
<1>1. CASE UNCHANGED <<mailbox, agentSide>>
  BY <1>1 DEF Memory!vars, requestView, replyView, target
<1>2. CASE PutArg0(c) \/ PutArg1(c)
  <2>1. Idle
    BY <1>2 DEF PutArg0, PutArg1, AccessInv
  <2> QED
    BY <1>2, <2>1 DEF PutArg0, PutArg1, Idle, NoCmd, Memory!vars, requestView,
       replyView, target
<1>3. CASE Post(c)
  <2>1. Idle /\ hop[c] \in Shell
    BY <1>3 DEF Post, AccessInv, FlowInv
  <2>2. requestView = Memory!NoRequest /\ UNCHANGED <<mem, replyView>>
    BY <1>3, <2>1 DEF Post, Idle, NoCmd, requestView, replyView, Memory!NoRequest
  <2>3. requestView' \in Memory!Access \union Memory!Call
    <3> USE DEF Post, Request, requestView, target, Memory!Access, Memory!Call,
            TypeOK, AgentTypeOK, Address, Idle
    <3>1. CASE hop[c] = "MEM_GET"
      BY <1>3, <2>1, <3>1
    <3>2. CASE hop[c] = "MEM_SET"
      BY <1>3, <2>1, <3>2
    <3>3. CASE hop[c] = "CALL_0"
      BY <1>3, <2>1, <3>3
    <3> QED
      BY <2>1, <3>1, <3>2, <3>3 DEF Shell
  <2> QED
    BY <2>2, <2>3 DEF Memory!Next, Memory!Submit
<1> QED
  BY <1>1, <1>2, <1>3 DEF Advance, Choose, ChainReady, ChainTimesOut, CheckState,
     WaitIdle, WaitTimesOut, AwaitDone, AwaitTimesOut, CheckFlags, FetchArg1,
     Launch, BeginGet, BeginSet, BeginCall, Quit

\* Each command takes effect exactly once and in one step between the write of
\* CMD and its clearing, whatever happens to the process that posted it.
THEOREM Refinement ==
    ASSUME Exclusive = TRUE
    PROVE  Spec => Memory!Spec
<1>1. IInv /\ [Next]_vars => [Memory!Next]_(Memory!vars)
  <2> SUFFICES ASSUME IInv, [Next]_vars
               PROVE  Memory!Next \/ UNCHANGED Memory!vars
    OBVIOUS
  <2>1. CASE AgentStep
    BY <2>1, RefineAgent DEF AgentStep
  <2>2. ASSUME NEW c \in Client, Advance(c) \/ Choose(c)
        PROVE  Memory!Next \/ UNCHANGED Memory!vars
    BY <2>2, RefineHost
  <2>3. CASE UNCHANGED vars
    BY <2>3 DEF vars, mailbox, agentVars, Memory!vars, requestView, replyView, target
  <2> QED
    BY <2>1, <2>2, <2>3 DEF Next
<1> QED
  BY <1>1, RefineInit, Inductive, PTL DEF Spec, Memory!Spec

-----------------------------------------------------------------------------
(* ApeBoot: what the APE and the boot commands have to do with the shell.  *)


\* The agent has taken the command that is in the register.
Busy == {"ack_read", "ack_write", "dispatch", "get_addr", "get_load", "get_reply",
         "set_addr", "set_val", "set_store", "call_addr", "call_zero", "callee",
         "call_reply", "ret_clear", "fault", "complete"}

Served ==
    /\ apc \in Busy => cmd.type # "NONE"
    /\ apc = "ack_write" => ackBuf.type # "NONE"

\* A running agent's command is in the register, and clients post commands.
CommandInv ==
    /\ apc = "off" <=> cpu # "shell"
    /\ Served
    /\ \A c \in Client :
           hpc[c] \in {"check", "wait", "put_arg0", "put_arg1", "post"} => hop[c] # "NONE"

\* Where a boot command is tells what the CPU is doing.
PlaceInv ==
    /\ bpc \in {"halt", "signature", "release"} => bprog # "bootapeshell"
    /\ bpc \in {"check", "vector", "inject", "send"} => bprog = "bootapeshell"
    /\ bprog # "bootapeshell" /\ bpc \in {"signature", "return", "state", "clear", "args", "release"}
           => cpu = "halted"
    /\ bprog = "bootapeshell" /\ bpc \in {"state", "clear", "args", "inject"}
           => cpu = "firmware" /\ patched = 0
    /\ bpc \in {"clear", "args", "inject", "release"} => state # "RUNNING"

\* RUNNING outlives the agent only behind the command that started a firmware.
RunningInv ==
    /\ cpu = "rom" => state # "RUNNING"
    /\ cpu = "firmware" /\ state = "RUNNING" => cmd.type # "NONE"

\* Past its start, the agent has no RETURN before it or in its hands.
Unreturned ==
    apc \notin {"start_flags", "start_cmd"} =>
        /\ cmd.type # "RETURN"
        /\ apc \in {"ack_read", "ack_write", "dispatch"} => curCmd # "RETURN"
        /\ apc = "ack_write" => ackBuf.type # "RETURN"
        /\ apc \notin {"ret_clear", "ret_exit"}

\* An agent the ROM started never sees RETURN, because bootapeshell posts it
\* only after it has seen the firmware's signature.
CallerInv ==
    /\ bprog # "bootapeshell" /\ bpc \in {"return", "state", "clear", "args", "release"}
           => ready = 0 /\ fastBoot = IF bprog = "apereset" THEN 0 ELSE 1
    /\ bprog # "bootapeshell" /\ bpc = "signature"
           => fastBoot = IF bprog = "apereset" THEN 0 ELSE 1
    /\ cpu = "rom" /\ fastBoot = 1 => ready = 0
    /\ cpu = "shell" /\ caller = "rom" => ready = 0
    /\ bprog = "bootapeshell" /\ bpc = "return" => ready = 1
    /\ cpu = "shell" /\ caller = "rom" => Unreturned

BootInv == BootTypeOK /\ CommandInv /\ PlaceInv /\ RunningInv /\ CallerInv

-----------------------------------------------------------------------------
(* Types.                                                                  *)

\* Leaving the registers, the agent and the clients alone keeps their types.
LEMMA TypeFrame ==
    ASSUME TypeOK, UNCHANGED hostVars, AgentTypeOK' PROVE TypeOK'
  BY DEF TypeOK, hostVars

\* Every step of the APE keeps the types.
LEMMA ApeTypeStep ==
    ASSUME BootTypeOK, Ape PROVE BootTypeOK'
<1> USE DEF BootTypeOK, mailbox, agentRest, agentVars, cmdVars, hostVars
<1>1. CASE BootAgent
  <2>1. TypeOK'
    BY <1>1, TypeStep DEF BootAgent, Next
  <2> QED
    BY <1>1, <2>1 DEF BootAgent
<1>2. CASE RomFastBoots
  <2>1. AgentTypeOK'
    BY <1>2 DEF RomFastBoots, StartAgent, TypeOK, AgentTypeOK, AgentPc
  <2> QED
    BY <1>2, <2>1, TypeFrame DEF RomFastBoots, StartAgent
<1>3. CASE RomLoadsFirmware
  <2>1. AgentTypeOK'
    BY <1>3 DEF RomLoadsFirmware, TypeOK, AgentTypeOK
  <2> QED
    BY <1>3, <2>1, TypeFrame DEF RomLoadsFirmware
<1>4. CASE FirmwareServes
  <2>1. AgentTypeOK'
    BY <1>4 DEF FirmwareServes, StartAgent, TypeOK, AgentTypeOK, AgentPc
  <2> QED
    BY <1>4, <2>1, TypeFrame DEF FirmwareServes, StartAgent
<1>5. CASE CalleeTakesOver
  <2>1. AgentTypeOK'
    BY <1>5 DEF CalleeTakesOver, TypeOK, AgentTypeOK, AgentPc
  <2> QED
    BY <1>5, <2>1, TypeFrame DEF CalleeTakesOver
<1> QED
  BY <1>1, <1>2, <1>3, <1>4, <1>5 DEF Ape

\* What a boot command does to the mailbox and the CPU keeps the agent's types.
LEMMA CommandAgentType ==
    ASSUME AgentTypeOK, BootCommand PROVE AgentTypeOK'
<1> USE AgentAssumption
    DEF AgentTypeOK, apeSide, mailbox, agentRest, agentVars
<1>1. CASE BootHalt      BY <1>1 DEF BootHalt, AgentPc
<1>2. CASE PostReturn    BY <1>2 DEF PostReturn, CmdWord, CmdType, Request
<1>3. CASE PutState      BY <1>3 DEF PutState, StateWord
<1>4. CASE ClearCmd      BY <1>4 DEF ClearCmd, CmdWord, CmdType, NoCmd
<1>5. CASE ClearArgs     BY <1>5 DEF ClearArgs, Address
<1>6. CASE BootSignature \/ CheckFirmware \/ FindVector \/ Inject
  BY <1>6 DEF BootSignature, CheckFirmware, FindVector, Inject
<1>7. CASE SendEvent \/ Release \/ KillBoot
  BY <1>7 DEF SendEvent, Release, KillBoot
<1>8. CASE \E p \in BootProgram : LaunchBoot(p)
  BY <1>8 DEF LaunchBoot
<1> QED
  BY <1>1, <1>2, <1>3, <1>4, <1>5, <1>6, <1>7, <1>8 DEF BootCommand, BootSteps

\* It keeps the types of the APE and of the commands ...
LEMMA CommandBootType ==
    ASSUME BootTypeOK, BootCommand PROVE TypeOK' => BootTypeOK'
<1> USE DEF BootTypeOK, BootPc, BootProgram, Step, apeSide, apeVars
<1>1. CASE BootHalt \/ BootSignature \/ CheckFirmware \/ PostReturn \/ FindVector
  BY <1>1 DEF BootHalt, BootSignature, CheckFirmware, PostReturn, FindVector
<1>2. CASE PutState \/ ClearCmd \/ ClearArgs \/ Inject \/ SendEvent
  BY <1>2 DEF PutState, ClearCmd, ClearArgs, Inject, SendEvent
<1>3. CASE Release \/ KillBoot
  BY <1>3 DEF Release, KillBoot
<1>4. CASE \E p \in BootProgram : LaunchBoot(p)
  BY <1>4 DEF LaunchBoot
<1> QED
  BY <1>1, <1>2, <1>3, <1>4 DEF BootCommand, BootSteps

\* ... and of the clients, of which only bootape moves one.
LEMMA CommandTypeStep ==
    ASSUME BootTypeOK, BootCommand PROVE BootTypeOK'
<1>1. AgentTypeOK'
  BY CommandAgentType DEF BootTypeOK, TypeOK
<1>2. CASE Release
  <2>1. hpc' \in [Client -> HostPc] /\ prog' \in [Client -> Program]
    BY <1>2 DEF Release, BootTypeOK, TypeOK, Goto, HostPc, Program
  <2>2. UNCHANGED <<hop, haddr, hval, res, warned, wrote>>
    BY <1>2 DEF Release
  <2> QED
    BY <1>1, <2>1, <2>2, CommandBootType DEF BootTypeOK, TypeOK
<1>3. CASE ~Release
  <2>1. UNCHANGED hostVars
    BY <1>3 DEF BootCommand, BootSteps, BootHalt, BootSignature, CheckFirmware,
       PostReturn, FindVector, PutState, ClearCmd, ClearArgs, Inject, SendEvent,
       KillBoot, LaunchBoot
  <2> QED
    BY <1>1, <2>1, TypeFrame, CommandBootType DEF BootTypeOK
<1> QED
  BY <1>2, <1>3

\* Hence every step does.
LEMMA BootTypeStep == BootTypeOK /\ [BootNext]_bootVars => BootTypeOK'
<1> SUFFICES ASSUME BootTypeOK, [BootNext]_bootVars PROVE BootTypeOK'
  OBVIOUS
<1>1. CASE UNCHANGED bootVars
  <2>1. TypeOK'
    BY <1>1, TypeStep DEF bootVars, BootTypeOK
  <2> QED
    BY <1>1, <2>1 DEF bootVars, BootTypeOK, apeVars, cmdVars
<1>2. ASSUME NEW c \in Client, ClientStep(c) PROVE BootTypeOK'
  <2>1. TypeOK'
    BY <1>2, HostTypeStep DEF ClientStep, BootTypeOK
  <2> QED
    BY <1>2, <2>1 DEF ClientStep, BootTypeOK, apeVars, cmdVars
<1> QED
  BY <1>1, <1>2, ApeTypeStep, CommandTypeStep DEF BootNext

-----------------------------------------------------------------------------
(* The invariant.                                                          *)

\* What a client's step does to the command register.
LEMMA ClientFrame ==
    ASSUME BootTypeOK, CommandInv, NEW c \in Client, ClientStep(c)
    PROVE  /\ UNCHANGED <<state, agentVars, apeVars, cmdVars>>
           /\ \/ cmd' = cmd
              \/ cmd'.type \in {"MEM_GET", "MEM_SET", "CALL_0"}
<1>1. CASE Post(c)
  BY <1>1 DEF ClientStep, Post, agentSide, Request, CommandInv, BootTypeOK, TypeOK
<1>2. CASE ~Post(c)
  BY <1>2 DEF ClientStep, Advance, Choose, ChainReady, ChainTimesOut, CheckState,
     WaitIdle, WaitTimesOut, PutArg0, PutArg1, AwaitDone, AwaitTimesOut,
     CheckFlags, FetchArg1, Launch, BeginGet, BeginSet, BeginCall, Quit,
     agentSide, mailbox
<1> QED
  BY <1>1, <1>2

\* The agent keeps its command in the register while it serves it.
LEMMA AgentServed ==
    ASSUME AgentTypeOK, Served, AgentNext
    PROVE  Served' /\ apc # "off" /\ (apc' = "off" => state' # "RUNNING")
<1> USE DEF Served, Busy, mailbox
<1>1. AgentTypeOK /\ Served
  OBVIOUS
<1> USE DEF AgentTypeOK, CmdWord, CmdType, NoCmd, IsCommand
<1>2. CASE StartFlags \/ StartCmd
  BY <1>1, <1>2 DEF StartFlags, StartCmd
<1>3. CASE Announce
  BY <1>1, <1>3 DEF Announce
<1>4. CASE Poll
  BY <1>1, <1>4 DEF Poll
<1>5. CASE AckRead \/ AckWrite
  BY <1>1, <1>5 DEF AckRead, AckWrite
<1>6. CASE Dispatch
  BY <1>1, <1>6 DEF Dispatch, Branch
<1>7. CASE Complete
  BY <1>1, <1>7 DEF Complete
<1>8. CASE GetAddr \/ GetLoad \/ GetReply
  BY <1>1, <1>8 DEF GetAddr, GetLoad, GetReply
<1>9. CASE SetAddr \/ SetVal \/ SetStore
  BY <1>1, <1>9 DEF SetAddr, SetVal, SetStore
<1>10. CASE CallAddr \/ CallZero \/ CallReply
  BY <1>1, <1>10 DEF CallAddr, CallZero, CallReply
<1>11. CASE ReturnClear
  BY <1>1, <1>11 DEF ReturnClear
<1>12. CASE ReturnExit
  BY <1>1, <1>12 DEF ReturnExit
<1>13. CASE HardFault
  BY <1>1, <1>13 DEF HardFault
<1>14. CASE CalleeReturns \/ CalleeFaults
  BY <1>1, <1>14 DEF CalleeReturns, CalleeFaults
<1> QED
  BY <1>1, <1>2, <1>3, <1>4, <1>5, <1>6, <1>7, <1>8, <1>9, <1>10, <1>11, <1>12, <1>13, <1>14
     DEF AgentNext, AgentCode, Callee

\* An agent that has no RETURN to execute does not find one by itself, nor leave.
LEMMA AgentUnreturned ==
    ASSUME AgentTypeOK, Unreturned, AgentNext
    PROVE  Unreturned' /\ apc' # "off"
<1> USE DEF Unreturned, mailbox
<1>1. AgentTypeOK /\ Unreturned
  OBVIOUS
<1> USE DEF AgentTypeOK, CmdWord, CmdType, NoCmd, IsCommand
<1>2. CASE StartFlags \/ StartCmd
  BY <1>1, <1>2 DEF StartFlags, StartCmd
<1>3. CASE Announce
  BY <1>1, <1>3 DEF Announce
<1>4. CASE Poll
  BY <1>1, <1>4 DEF Poll
<1>5. CASE AckRead \/ AckWrite
  BY <1>1, <1>5 DEF AckRead, AckWrite
<1>6. CASE Dispatch
  BY <1>1, <1>6 DEF Dispatch, Branch
<1>7. CASE Complete
  BY <1>1, <1>7 DEF Complete
<1>8. CASE GetAddr \/ GetLoad \/ GetReply
  BY <1>1, <1>8 DEF GetAddr, GetLoad, GetReply
<1>9. CASE SetAddr \/ SetVal \/ SetStore
  BY <1>1, <1>9 DEF SetAddr, SetVal, SetStore
<1>10. CASE CallAddr \/ CallZero \/ CallReply
  BY <1>1, <1>10 DEF CallAddr, CallZero, CallReply
<1>11. CASE ReturnClear
  BY <1>1, <1>11 DEF ReturnClear
<1>12. CASE ReturnExit
  BY <1>1, <1>12 DEF ReturnExit
<1>13. CASE HardFault
  BY <1>1, <1>13 DEF HardFault
<1>14. CASE CalleeReturns \/ CalleeFaults
  BY <1>1, <1>14 DEF CalleeReturns, CalleeFaults
<1> QED
  BY <1>1, <1>2, <1>3, <1>4, <1>5, <1>6, <1>7, <1>8, <1>9, <1>10, <1>11, <1>12, <1>13, <1>14
     DEF AgentNext, AgentCode, Callee

-----------------------------------------------------------------------------
(* The invariant is inductive.                                             *)

\* What the firmware from NVM comes up to.
LEMMA BootInvInit == BootInit => BootInv
<1> SUFFICES ASSUME BootInit PROVE BootInv
  OBVIOUS
<1>1. TypeOK
  BY AgentAssumption, ShellAssumption
     DEF BootInit, TypeOK, AgentTypeOK, AgentPc, StateWord, CmdWord, CmdType,
         NoCmd, Address, HostPc, Program
<1>2. BootTypeOK
  BY <1>1 DEF BootInit, BootTypeOK, BootPc, BootProgram
<1> QED
  BY <1>2 DEF BootInit, BootInv, CommandInv, Served, Busy, PlaceInv, RunningInv, CallerInv

\* The parts of the invariant but the types.
SafeInv == CommandInv /\ PlaceInv /\ RunningInv /\ CallerInv

\* A step of the APE.
LEMMA ApeSafeStep ==
    ASSUME BootInv, Ape PROVE SafeInv'
<1> USE DEF BootInv, SafeInv, CommandInv, PlaceInv, RunningInv, CallerInv,
        mailbox, agentRest, hostVars, cmdVars
<1>1. CASE BootAgent
  <2>1. Served' /\ apc # "off" /\ (apc' = "off" => state' # "RUNNING")
    BY <1>1, AgentServed DEF BootAgent, AgentStep, BootTypeOK, TypeOK
  <2>2. caller = "rom" => Unreturned' /\ apc' # "off"
    BY <1>1, AgentUnreturned DEF BootAgent, AgentStep, BootTypeOK, TypeOK
  <2> QED
    BY <1>1, <2>1, <2>2 DEF BootAgent, AgentStep, BootTypeOK
<1>2. CASE RomFastBoots
  BY <1>2 DEF RomFastBoots, StartAgent, Served, Busy, Unreturned
<1>3. CASE RomLoadsFirmware
  BY <1>3 DEF RomLoadsFirmware, agentVars, Served
<1>4. CASE FirmwareServes
  BY <1>4 DEF FirmwareServes, StartAgent, Served, Busy, Unreturned
<1>5. CASE CalleeTakesOver
  BY <1>5 DEF CalleeTakesOver, Served, Busy
<1> QED
  BY <1>1, <1>2, <1>3, <1>4, <1>5 DEF Ape

\* A step of a boot command.
LEMMA CommandSafeStep ==
    ASSUME BootInv, BootCommand PROVE SafeInv'
<1> USE DEF BootInv, SafeInv, CommandInv, PlaceInv, RunningInv, CallerInv,
        mailbox, agentRest, agentVars, hostVars, cmdVars, apeVars, apeSide, Step,
        Served, Busy, Unreturned, BootTypeOK, BootProgram
<1>1. CASE BootHalt      BY <1>1 DEF BootHalt
<1>2. CASE BootSignature BY <1>2 DEF BootSignature
<1>3. CASE CheckFirmware BY <1>3 DEF CheckFirmware
<1>4. CASE PostReturn    BY <1>4 DEF PostReturn, Request
<1>5. CASE FindVector    BY <1>5 DEF FindVector
<1>6. CASE PutState      BY <1>6 DEF PutState
<1>7. CASE ClearCmd      BY <1>7 DEF ClearCmd, NoCmd
<1>8. CASE ClearArgs     BY <1>8 DEF ClearArgs
<1>9. CASE Inject        BY <1>9 DEF Inject
<1>10. CASE SendEvent    BY <1>10 DEF SendEvent
<1>11. CASE Release      BY <1>11 DEF Release, Goto, TypeOK
<1>12. CASE KillBoot     BY <1>12 DEF KillBoot
<1>13. CASE \E p \in BootProgram : LaunchBoot(p)
  BY <1>13 DEF LaunchBoot
<1> QED
  BY <1>1, <1>2, <1>3, <1>4, <1>5, <1>6, <1>7, <1>8, <1>9, <1>10, <1>11,
     <1>12, <1>13 DEF BootCommand, BootSteps

\* A step of a client.
LEMMA ClientSafeStep ==
    ASSUME BootInv, NEW c \in Client, ClientStep(c) PROVE SafeInv'
<1> USE DEF BootInv, SafeInv
<1>1. /\ UNCHANGED <<state, agentVars, apeVars, cmdVars>>
      /\ \/ cmd' = cmd
         \/ cmd'.type \in {"MEM_GET", "MEM_SET", "CALL_0"}
  BY ClientFrame
<1>2. \A d \in Client :
          hpc'[d] \in {"check", "wait", "put_arg0", "put_arg1", "post"} => hop'[d] # "NONE"
  BY DEF CommandInv, BootTypeOK, TypeOK, ClientStep, Advance, Choose, Goto,
     ChainReady, ChainTimesOut, CheckState, WaitIdle, WaitTimesOut, PutArg0,
     PutArg1, Post, AwaitDone, AwaitTimesOut, CheckFlags, FetchArg1, Fail,
     Launch, BeginGet, BeginSet, BeginCall, Quit, locals
<1>3. CommandInv'
  BY <1>1, <1>2 DEF CommandInv, Served, agentVars, apeVars
<1>4. PlaceInv' /\ RunningInv'
  BY <1>1 DEF PlaceInv, RunningInv, apeVars, cmdVars
<1>5. CallerInv'
  BY <1>1 DEF CallerInv, Unreturned, agentVars, apeVars, cmdVars
<1> QED
  BY <1>3, <1>4, <1>5

\* Every step preserves the invariant.
LEMMA BootInvStep == BootInv /\ [BootNext]_bootVars => BootInv'
<1> SUFFICES ASSUME BootInv, [BootNext]_bootVars PROVE BootInv'
  OBVIOUS
<1>1. BootTypeOK'
  BY BootTypeStep DEF BootInv
<1>2. CASE UNCHANGED bootVars
  BY <1>1, <1>2 DEF BootInv, CommandInv, Served, PlaceInv, RunningInv, CallerInv,
     Unreturned, bootVars, vars, mailbox, agentVars, hostVars, apeVars, cmdVars
<1>3. CASE BootNext
  BY <1>1, <1>3, ApeSafeStep, CommandSafeStep, ClientSafeStep
     DEF BootNext, BootInv, SafeInv
<1> QED
  BY <1>2, <1>3

\* The inductive invariant of the composition, for any number of clients.
THEOREM BootInductive == BootSpec => []BootInv
<1> QED
  BY BootInvInit, BootInvStep, PTL DEF BootSpec

\* The APE, the commands and everything the shell has keep their ranges, through
\* any sequence of boots, calls, returns, resets and kills.
THEOREM BootTypeCorrect == BootSpec => []BootTypeOK
<1>1. BootInv => BootTypeOK
  BY DEF BootInv
<1> QED
  BY <1>1, BootInductive, PTL

\* Whoever sees RUNNING and a clear CMD has an agent to serve it, unless the
\* CPU has been left halted.
THEOREM ReadyServed == BootSpec => []ReadyMeansAgent
<1>1. BootInv => ReadyMeansAgent
  BY DEF BootInv, BootTypeOK, RunningInv, ReadyMeansAgent, NoCmd
<1> QED
  BY <1>1, BootInductive, PTL

\* No agent that the ROM jumped to executes RETURN.
THEOREM ReturnsToFirmware == BootSpec => []ReturnHasACaller
<1>1. BootInv => ReturnHasACaller
  BY DEF BootInv, BootTypeOK, CommandInv, CallerInv, Unreturned, ReturnHasACaller
<1> QED
  BY <1>1, BootInductive, PTL

-----------------------------------------------------------------------------
(* The shell's promises across reboots.  What IInv says of the mailbox     *)
(* holds here only while an agent serves it: RETURN may be posted over any *)
(* command, an agent may leave, and the APE may be halted under it.        *)

Commands == Shell \union {"RETURN"}

\* No agent runs, and none will start before the next boot command.
Frozen == cpu = "halted" \/ (cpu = "firmware" /\ event = 0)

\* A command that is posted now is not cleared by an agent that starts.
Up == state = "RUNNING" \/ Frozen

\* Nobody is being served and nothing but STATE will be touched.
Quiet == cmd = NoCmd /\ (apc \in {"announce", "poll", "ret_exit"} \/ Frozen)

\* An event starts an agent once, and only after STATE has been taken back.
EventInv ==
    /\ cpu = "shell" => event = 0
    /\ cpu = "firmware" /\ event = 1 => patched = 1
    /\ cpu = "firmware" /\ patched = 1 => state # "RUNNING"
    /\ bpc = "send" => cpu = "firmware" /\ event = 0 /\ patched = 1
    /\ cpu = "rom" /\ fastBoot = 0 => event = 0
    /\ bprog = "apereset" /\ bpc \in {"return", "state", "clear", "args", "release"} => event = 0

\* A RETURN may lie over the command that is being served.
RebootMailboxInv ==
    /\ apc \in {"start_flags", "start_cmd"} => state # "RUNNING"
    /\ apc \in {"announce", "poll", "ret_exit"} =>
           cmd = NoCmd \/ \E type \in Commands : cmd = Request(type)
    /\ apc \in {"ack_read", "ack_write"} =>
           curCmd \in Commands /\ cmd \in {Request(curCmd), Request("RETURN")}
    /\ apc = "ack_write" =>
           /\ ackBuf \in {Request(curCmd), Request("RETURN")}
           /\ ackBuf = cmd \/ cmd = Request("RETURN")
    /\ apc \in BusyPcs =>
           curCmd \in Commands /\ (cmd = Accepted(curCmd) \/ cmd.type = "RETURN")
    /\ apc = "ret_clear" => cmd.type = "RETURN"

\* As ServiceInv; the APE may have been halted with EXCEPTION_IGNORE set.
RebootServiceInv ==
    /\ apc \in GetPcs => curCmd = "MEM_GET"
    /\ apc \in SetPcs => curCmd = "MEM_SET"
    /\ apc \in CallPcs => curCmd = "CALL_0"
    /\ apc \in {"fault", "complete"} => curCmd \in Shell
    /\ apc \in {"get_addr", "get_load"} \union SetPcs \union CallPcs => flags = 0
    /\ apc \in {"get_load", "set_val", "set_store"} => addr = arg0 /\ ignore = 1
    /\ apc = "set_store" => val = arg1
    /\ apc = "fault" /\ curCmd # "CALL_0" => addr = arg0 /\ addr \in Hole /\ ignore = 1
    /\ apc = "get_reply" => IF arg0 \in Addr THEN flags = 0 /\ val = mem[arg0] ELSE flags = 1
    /\ apc = "complete" /\ curCmd # "CALL_0" => Answered
    /\ apc = "complete" /\ curCmd = "CALL_0" => flags = 0
    /\ apc = "call_zero" => addr = arg0
    /\ ignore = 1 =>
           \/ apc \in {"off", "start_flags", "get_load", "get_reply", "set_val", "set_store"}
           \/ apc = "fault" /\ curCmd # "CALL_0"

OneAtATime == OneProcess /\ (bpc # "off" => \A c \in Client : hpc[c] = "off")

RebootFlowInv(c) ==
    /\ hpc[c] \in {"check", "await", "flags"} => hop[c] \in {"MEM_GET", "MEM_SET"}
    /\ hpc[c] \in {"wait", "put_arg0", "post"} => hop[c] \in Shell
    /\ hpc[c] = "put_arg1" => hop[c] = "MEM_SET"
    /\ hpc[c] = "fetch" => hop[c] = "MEM_GET"
    /\ hop[c] = "CALL_0" => hpc[c] \in {"wait", "put_arg0", "post", "exit"}
    /\ hpc[c] \in {"wait", "put_arg0", "put_arg1", "post", "await"} => Up
    /\ prog[c] = "chain" /\ hpc[c] \notin {"off", "chain_wait", "exit"} => Up
    /\ hpc[c] \in {"off", "chain_wait"} =>
           hop[c] = "NONE" /\ \A a \in Address : wrote[c][a] = Unwritten

Replied(c) == Quiet /\ Answered /\ arg0 = haddr[c]

RebootAccessInv(c) ==
    /\ hpc[c] \in {"put_arg0", "put_arg1", "post"} => Quiet
    /\ hpc[c] \in {"put_arg1", "post"} => arg0 = haddr[c]
    /\ hpc[c] = "post" /\ hop[c] = "MEM_SET" => arg1 = hval[c]
    /\ hpc[c] = "await" =>
           /\ arg0 = haddr[c]
           /\ hop[c] = "MEM_SET" => arg1 = hval[c]
           /\ IF cmd = NoCmd THEN Replied(c) ELSE cmd.type = hop[c]
    /\ hpc[c] = "flags" =>
           \/ Replied(c) /\ (hop[c] = "MEM_SET" => arg1 = hval[c])
           \/ hop[c] = "MEM_SET" /\ c \in warned
    /\ hpc[c] = "fetch" => Replied(c) /\ flags = 0
    /\ hpc[c] = "ready" /\ hop[c] = "MEM_GET" =>
           \/ Quiet /\ haddr[c] \in Addr /\ res[c] = mem[haddr[c]]
           \/ res[c] = AllOnes /\ c \in warned

RebootStoredInv(c) ==
    c \notin warned /\ hpc[c] # "exit" =>
        /\ \A a \in Address :
               wrote[c][a] # Unwritten /\ ~InFlight(c, a) =>
                   /\ a \in Addr /\ mem[a] = wrote[c][a]
                   /\ hpc[c] # "await" => Quiet
        /\ hop[c] = "MEM_SET" => wrote[c][haddr[c]] = hval[c]

UserInv(c) == RebootFlowInv(c) /\ RebootAccessInv(c) /\ RebootStoredInv(c)

MachineInv == EventInv /\ RebootMailboxInv /\ RebootServiceInv

RebootInv == BootInv /\ MachineInv /\ OneAtATime /\ \A c \in Client : UserInv(c)

-----------------------------------------------------------------------------
(* Steps of the APE.                                                       *)

\* The agent keeps the mailbox and its own place together.
LEMMA RebootAgentStep ==
    ASSUME AgentTypeOK, RebootMailboxInv, RebootServiceInv, AgentNext
    PROVE  RebootMailboxInv' /\ RebootServiceInv'
<1> USE AgentAssumption
    DEF RebootMailboxInv, RebootServiceInv, Answered, AgentTypeOK, AgentPc, Address,
        NoCmd, Request, Accepted, BusyPcs, GetPcs, SetPcs, CallPcs, Shell, Commands,
        mailbox
<1>1. CASE StartFlags     BY <1>1 DEF StartFlags
<1>2. CASE StartCmd       BY <1>2 DEF StartCmd
<1>3. CASE Announce       BY <1>3 DEF Announce
<1>4. CASE Poll           BY <1>4 DEF Poll, IsCommand
<1>5. CASE AckRead        BY <1>5 DEF AckRead
<1>6. CASE AckWrite       BY <1>6 DEF AckWrite
<1>7. CASE Dispatch       BY <1>7 DEF Dispatch, Branch
<1>8. CASE Complete       BY <1>8 DEF Complete
<1>9. CASE GetAddr        BY <1>9 DEF GetAddr
<1>10. CASE GetLoad       BY <1>10 DEF GetLoad
<1>11. CASE GetReply      BY <1>11 DEF GetReply
<1>12. CASE SetAddr       BY <1>12 DEF SetAddr
<1>13. CASE SetVal        BY <1>13 DEF SetVal
<1>14. CASE SetStore      BY <1>14 DEF SetStore
<1>15. CASE CallAddr      BY <1>15 DEF CallAddr
<1>16. CASE CallZero      BY <1>16 DEF CallZero
<1>17. CASE CallReply     BY <1>17 DEF CallReply
<1>18. CASE ReturnClear   BY <1>18 DEF ReturnClear
<1>19. CASE ReturnExit    BY <1>19 DEF ReturnExit
<1>20. CASE HardFault     BY <1>20 DEF HardFault
<1>21. CASE CalleeReturns BY <1>21 DEF CalleeReturns
<1>22. CASE CalleeFaults  BY <1>22 DEF CalleeFaults
<1> QED
  BY <1>1, <1>2, <1>3, <1>4, <1>5, <1>6, <1>7, <1>8, <1>9, <1>10, <1>11,
     <1>12, <1>13, <1>14, <1>15, <1>16, <1>17, <1>18, <1>19, <1>20, <1>21,
     <1>22 DEF AgentNext, AgentCode, Callee

\* A RUNNING agent does not start, and one that leaves was called by the firmware,
\* which has no event left: what is posted stays.
LEMMA UpStep ==
    ASSUME BootInv, MachineInv, Up, Ape
    PROVE  Up'
<1> USE DEF BootInv, BootTypeOK, MachineInv, Up, Frozen, EventInv, CommandInv, mailbox
<1>1. CASE BootAgent
  <2>1. CASE ReturnExit
    BY <1>1, <2>1 DEF BootAgent, ReturnExit, CallerInv, Unreturned
  <2>2. CASE ~ReturnExit
    BY <1>1, <2>2 DEF BootAgent, AgentStep, AgentNext, AgentCode, Callee, StartFlags,
       StartCmd, Announce, Poll, AckRead, AckWrite, Dispatch, Complete, GetAddr,
       GetLoad, GetReply, SetAddr, SetVal, SetStore, CallAddr, CallZero, CallReply,
       ReturnClear, HardFault, CalleeReturns, CalleeFaults
  <2> QED
    BY <2>1, <2>2
<1>2. CASE RomFastBoots \/ RomLoadsFirmware
  BY <1>2 DEF RomFastBoots, RomLoadsFirmware, RunningInv
<1>3. CASE FirmwareServes
  BY <1>3 DEF FirmwareServes
<1>4. CASE CalleeTakesOver
  BY <1>4 DEF CalleeTakesOver
<1> QED
  BY <1>1, <1>2, <1>3, <1>4 DEF Ape

\* Where nobody is served, a step of the APE changes STATE and nothing else.
LEMMA QuietStep ==
    ASSUME BootInv, MachineInv, Quiet, Ape
    PROVE  Quiet' /\ UNCHANGED <<cmd, arg0, arg1, flags, mem>>
<1> USE DEF BootInv, BootTypeOK, MachineInv, Quiet, Frozen, EventInv, CommandInv, mailbox
<1>1. CASE BootAgent
  <2>1. CASE Announce
    BY <1>1, <2>1 DEF BootAgent, Announce
  <2>2. CASE Poll
    BY <1>1, <2>2 DEF BootAgent, Poll, IsCommand, NoCmd
  <2>3. CASE ReturnExit
    BY <1>1, <2>3 DEF BootAgent, ReturnExit, CallerInv, Unreturned
  <2> QED
    BY <1>1, <2>1, <2>2, <2>3 DEF BootAgent, AgentStep, AgentNext, AgentCode, Callee,
       StartFlags, StartCmd, AckRead, AckWrite, Dispatch, Complete, GetAddr, GetLoad,
       GetReply, SetAddr, SetVal, SetStore, CallAddr, CallZero, CallReply, ReturnClear,
       HardFault, CalleeReturns, CalleeFaults
<1>2. CASE RomFastBoots \/ RomLoadsFirmware \/ FirmwareServes \/ CalleeTakesOver
  BY <1>2 DEF RomFastBoots, RomLoadsFirmware, FirmwareServes, CalleeTakesOver
<1> QED
  BY <1>1, <1>2 DEF Ape

\* While an access is in the mailbox its arguments stay, memory changes only as a
\* MEM_SET asks, and CMD is cleared only once the answer is in place.
LEMMA RebootServeStep ==
    ASSUME BootInv, MachineInv, Up, Ape, cmd.type \in {"MEM_GET", "MEM_SET"}
    PROVE  /\ arg0' = arg0
           /\ cmd.type = "MEM_SET" => arg1' = arg1
           /\ \/ mem' = mem
              \/ /\ cmd.type = "MEM_SET" /\ arg0 \in Addr
                 /\ mem' = [mem EXCEPT ![arg0] = arg1]
           /\ IF cmd' = NoCmd THEN Quiet' /\ Answered' ELSE cmd'.type = cmd.type
<1>1. BootAgent
  BY DEF Ape, RomFastBoots, RomLoadsFirmware, FirmwareServes, CalleeTakesOver, Up,
     Frozen, BootInv, RunningInv, MachineInv, EventInv, RebootMailboxInv,
     RebootServiceInv, BusyPcs, CallPcs, Accepted, CommandInv
<1>2. AgentNext /\ cpu = "shell"
  BY <1>1 DEF BootAgent, AgentStep
<1>3. AgentTypeOK /\ RebootMailboxInv /\ RebootServiceInv /\ state = "RUNNING"
  BY <1>2 DEF BootInv, BootTypeOK, TypeOK, MachineInv, Up, Frozen
<1> HIDE DEF BootInv, MachineInv, Up
<1> USE <1>3 DEF RebootMailboxInv, RebootServiceInv, Quiet, Answered, AgentTypeOK, AgentPc,
        NoCmd, Request, Accepted, BusyPcs, GetPcs, SetPcs, CallPcs, Shell, Commands, mailbox
<1>11. CASE Announce   BY <1>11 DEF Announce
<1>12. CASE Poll       BY <1>12 DEF Poll
<1>13. CASE AckRead    BY <1>13 DEF AckRead
<1>14. CASE AckWrite   BY <1>14 DEF AckWrite
<1>15. CASE Dispatch   BY <1>15 DEF Dispatch
<1>16. CASE Complete   BY <1>16 DEF Complete
<1>17. CASE GetAddr    BY <1>17 DEF GetAddr
<1>18. CASE GetLoad    BY <1>18 DEF GetLoad
<1>19. CASE GetReply   BY <1>19 DEF GetReply
<1>20. CASE SetAddr    BY <1>20 DEF SetAddr
<1>21. CASE SetVal     BY <1>21 DEF SetVal
<1>22. CASE SetStore   BY <1>22 DEF SetStore
<1>23. CASE HardFault  BY <1>23 DEF HardFault
<1>24. CASE ReturnExit BY <1>24 DEF ReturnExit
<1> QED
  BY <1>2, <1>11, <1>12, <1>13, <1>14, <1>15, <1>16, <1>17, <1>18, <1>19, <1>20, <1>21,
     <1>22, <1>23, <1>24 DEF AgentNext, AgentCode, Callee, StartFlags, StartCmd, CallAddr,
     CallZero, CallReply, ReturnClear, CalleeReturns, CalleeFaults

\* A step of the APE keeps its side of the invariant.
LEMMA ApeMachineStep ==
    ASSUME BootInv, MachineInv, Ape
    PROVE  MachineInv'
<1> USE DEF BootInv, BootTypeOK, MachineInv, EventInv, CommandInv, mailbox
<1>1. CASE BootAgent
  <2>1. RebootMailboxInv' /\ RebootServiceInv'
    BY <1>1, RebootAgentStep DEF BootAgent, AgentStep, TypeOK
  <2>2. EventInv'
    <3>1. apc' = "off" => ReturnExit
      BY <1>1 DEF BootAgent, AgentStep, AgentNext, AgentCode, Callee, StartFlags,
         StartCmd, Announce, Poll, AckRead, AckWrite, Dispatch, Branch, Complete,
         GetAddr, GetLoad, GetReply, SetAddr, SetVal, SetStore, CallAddr, CallZero,
         CallReply, ReturnClear, HardFault, CalleeReturns, CalleeFaults
    <3>2. ReturnExit => state' = "EXITED" /\ caller = "firmware"
      BY <1>1 DEF BootAgent, ReturnExit, CallerInv, Unreturned
    <3> QED
      BY <1>1, <3>1, <3>2 DEF BootAgent, AgentStep, cmdVars
  <2> QED
    BY <2>1, <2>2
<1>2. CASE RomFastBoots
  <2>1. EventInv'
    BY <1>2 DEF RomFastBoots, StartAgent, cmdVars
  <2> QED
    BY <1>2, <2>1 DEF RomFastBoots, StartAgent, RebootMailboxInv, RebootServiceInv, RunningInv,
       BusyPcs, GetPcs, SetPcs, CallPcs, agentRest
<1>3. CASE RomLoadsFirmware
  <2>1. EventInv'
    BY <1>3 DEF RomLoadsFirmware, cmdVars
  <2>2. apc = "off"
    BY <1>3 DEF RomLoadsFirmware
  <2> QED
    BY <1>3, <2>1, <2>2 DEF RomLoadsFirmware, RebootMailboxInv, RebootServiceInv,
       BusyPcs, GetPcs, SetPcs, CallPcs, agentVars
<1>4. CASE FirmwareServes
  <2>1. EventInv'
    BY <1>4 DEF FirmwareServes, StartAgent, cmdVars
  <2> QED
    BY <1>4, <2>1 DEF FirmwareServes, StartAgent, RebootMailboxInv, RebootServiceInv,
       BusyPcs, GetPcs, SetPcs, CallPcs, agentRest
<1>5. CASE CalleeTakesOver
  <2>1. EventInv'
    BY <1>5 DEF CalleeTakesOver, cmdVars
  <2>2. RebootMailboxInv'
    BY <1>5 DEF CalleeTakesOver, RebootMailboxInv, BusyPcs, GetPcs, SetPcs, CallPcs
  <2>3. RebootServiceInv'
    BY <1>5 DEF CalleeTakesOver, RebootServiceInv, BusyPcs, GetPcs, SetPcs, CallPcs, agentRest
  <2> QED
    BY <2>1, <2>2, <2>3
<1> QED
  BY <1>1, <1>2, <1>3, <1>4, <1>5 DEF Ape

\* It keeps what each client knows: see the three lemmas above.
LEMMA ApeUserStep ==
    ASSUME BootInv, MachineInv, Ape, NEW c \in Client, UserInv(c)
    PROVE  UserInv(c)'
<1>1. UNCHANGED hostVars
  BY DEF Ape, BootAgent, AgentStep, RomFastBoots, StartAgent, RomLoadsFirmware,
     FirmwareServes, CalleeTakesOver
<1> USE <1>1 DEF hostVars, UserInv
<1>2. RebootFlowInv(c)'
  BY UpStep DEF RebootFlowInv
<1>3. CASE Quiet
  BY <1>2, <1>3, QuietStep
  DEF RebootAccessInv, RebootStoredInv, Replied, Answered, InFlight, Quiet
<1>4. CASE ~Quiet /\ hpc[c] = "await"
  <2>1. Up /\ cmd.type = hop[c] /\ arg0 = haddr[c] /\ hop[c] \in {"MEM_GET", "MEM_SET"}
    BY <1>4 DEF RebootFlowInv, RebootAccessInv, Replied
  <2>2. /\ arg0' = arg0
        /\ cmd.type = "MEM_SET" => arg1' = arg1
        /\ \/ mem' = mem
           \/ /\ cmd.type = "MEM_SET" /\ arg0 \in Addr
              /\ mem' = [mem EXCEPT ![arg0] = arg1]
        /\ IF cmd' = NoCmd THEN Quiet' /\ Answered' ELSE cmd'.type = cmd.type
    BY <2>1, RebootServeStep
  <2>3. cmd # NoCmd
    BY <2>1 DEF NoCmd
  <2>4. RebootAccessInv(c)'
    BY <1>4, <2>1, <2>2, <2>3 DEF RebootAccessInv, Replied
  <2>5. RebootStoredInv(c)'
    <3> SUFFICES ASSUME c \notin warned,
                        NEW a \in Address, wrote[c][a] # Unwritten, ~InFlight(c, a)
                 PROVE  a \in Addr /\ mem'[a] = wrote[c][a]
      BY <1>4 DEF RebootStoredInv, InFlight
    <3>1. a \in Addr /\ mem[a] = wrote[c][a]
      BY <1>4 DEF RebootStoredInv
    <3>2. mem' # mem => arg0 # a
      BY <1>4, <2>1, <2>2 DEF InFlight
    <3> QED
      BY <2>2, <3>1, <3>2 DEF BootInv, BootTypeOK, TypeOK, AgentTypeOK
  <2> QED
    BY <1>2, <2>4, <2>5
<1>5. CASE ~Quiet /\ hpc[c] # "await"
  BY <1>2, <1>5 DEF RebootAccessInv, RebootStoredInv, Replied, InFlight
<1> QED
  BY <1>3, <1>4, <1>5

-----------------------------------------------------------------------------
(* Steps of the boot commands: no client runs, and where a command writes   *)
(* more than CMD, no agent does.                                            *)

\* The commands keep the APE's side of the invariant.
LEMMA CommandMachineStep ==
    ASSUME BootInv, MachineInv, BootCommand
    PROVE  MachineInv'
<1> USE DEF BootInv, BootTypeOK, MachineInv, EventInv, CommandInv, PlaceInv, mailbox,
        agentRest, agentVars, hostVars, cmdVars, apeVars, apeSide, Step, BootProgram,
        RebootMailboxInv, RebootServiceInv, Answered, BusyPcs, GetPcs, SetPcs, CallPcs
<1>1. CASE BootHalt      BY <1>1 DEF BootHalt
<1>2. CASE BootSignature BY <1>2 DEF BootSignature
<1>3. CASE CheckFirmware BY <1>3 DEF CheckFirmware
<1>4. CASE PostReturn
  <2>1. cmd' = Request("RETURN") /\ cmd'.type = "RETURN"
    BY <1>4 DEF PostReturn, Request
  <2>2. EventInv'
    BY <1>4 DEF PostReturn
  <2>3. RebootMailboxInv'
    BY <1>4, <2>1 DEF PostReturn, Commands
  <2>4. RebootServiceInv'
    BY <1>4 DEF PostReturn
  <2> QED
    BY <2>2, <2>3, <2>4
<1>5. CASE FindVector    BY <1>5 DEF FindVector
<1>6. CASE PutState      BY <1>6 DEF PutState
<1>7. CASE ClearCmd      BY <1>7 DEF ClearCmd
<1>8. CASE ClearArgs
  <2>1. apc = "off"
    BY <1>8 DEF ClearArgs
  <2>2. EventInv'
    BY <1>8 DEF ClearArgs
  <2>3. RebootMailboxInv'
    BY <1>8, <2>1 DEF ClearArgs
  <2>4. RebootServiceInv'
    BY <1>8, <2>1 DEF ClearArgs
  <2> QED
    BY <2>2, <2>3, <2>4
<1>9. CASE Inject        BY <1>9 DEF Inject
<1>10. CASE SendEvent    BY <1>10 DEF SendEvent
<1>11. CASE Release      BY <1>11 DEF Release, CallerInv
<1>12. CASE KillBoot     BY <1>12 DEF KillBoot
<1>13. CASE \E p \in BootProgram : LaunchBoot(p)
  BY <1>13 DEF LaunchBoot
<1> QED
  BY <1>1, <1>2, <1>3, <1>4, <1>5, <1>6, <1>7, <1>8, <1>9, <1>10, <1>11,
     <1>12, <1>13 DEF BootCommand, BootSteps

\* Of a client that is off or about to load an image nothing is claimed.
LEMMA WaitingUser ==
    ASSUME NEW c \in Client, RebootFlowInv(c), hpc[c] = "off",
           hpc'[c] \in {"off", "chain_wait"}, hop'[c] = hop[c], wrote'[c] = wrote[c]
    PROVE  UserInv(c)'
  BY DEF UserInv, RebootFlowInv, RebootAccessInv, RebootStoredInv

\* bootape becomes the client that loads the image; the others leave all off.
LEMMA CommandUserStep ==
    ASSUME BootTypeOK, OneAtATime, \A c \in Client : UserInv(c), BootCommand
    PROVE  OneAtATime' /\ \A c \in Client : UserInv(c)'
<1>1. \A c \in Client : hpc[c] = "off"
  BY DEF OneAtATime, BootCommand, BootSteps, BootHalt, BootSignature, CheckFirmware,
     PostReturn, FindVector, PutState, ClearCmd, ClearArgs, Inject, SendEvent, Release,
     KillBoot, LaunchBoot
<1>2. UNCHANGED <<hop, wrote>>
  BY DEF BootCommand, BootSteps, BootHalt, BootSignature, CheckFirmware, PostReturn,
     FindVector, PutState, ClearCmd, ClearArgs, Inject, SendEvent, Release, KillBoot,
     LaunchBoot, hostVars
<1>3. CASE Release
  <2>1. bpc' = "off"
    BY <1>3 DEF Release, Step
  <2>2. \/ hpc' = hpc
        \/ \E d \in Client : hpc' = [hpc EXCEPT ![d] = "chain_wait"]
    BY <1>3 DEF Release, Goto
  <2>3. \A c \in Client : hpc'[c] \in {"off", "chain_wait"}
    BY <1>1, <2>2 DEF BootTypeOK, TypeOK
  <2>4. OneAtATime'
    BY <1>1, <2>1, <2>2 DEF OneAtATime, OneProcess, BootTypeOK, TypeOK
  <2> QED
    BY <1>1, <1>2, <2>3, <2>4, WaitingUser DEF UserInv
<1>4. CASE ~Release
  <2>1. UNCHANGED hpc
    BY <1>4 DEF BootCommand, BootSteps, BootHalt, BootSignature, CheckFirmware, PostReturn,
       FindVector, PutState, ClearCmd, ClearArgs, Inject, SendEvent, KillBoot,
       LaunchBoot, hostVars
  <2> QED
    BY <1>1, <1>2, <2>1, WaitingUser DEF UserInv, OneAtATime, OneProcess
<1> QED
  BY <1>3, <1>4

-----------------------------------------------------------------------------
(* Steps of the clients.                                                   *)

\* A client whose step is not a write of the mailbox leaves everything of the APE.
LEMMA UserFrame ==
    ASSUME MachineInv, UNCHANGED <<mailbox, agentSide, apeVars, cmdVars>>
    PROVE  MachineInv' /\ (Quiet' <=> Quiet) /\ (Up' <=> Up) /\ (Answered' <=> Answered)
  BY DEF MachineInv, EventInv, RebootMailboxInv, RebootServiceInv, Quiet, Up, Frozen,
     Answered, mailbox, agentSide, agentVars, apeVars, cmdVars

\* Nobody is served while it writes its arguments or posts its command.
LEMMA UserPostFrame ==
    ASSUME BootInv, MachineInv, Quiet,
           UNCHANGED <<state, flags, agentSide, apeVars, cmdVars>>,
           cmd' = cmd \/ \E type \in Shell : cmd' = Request(type)
    PROVE  MachineInv' /\ (Up' <=> Up)
<1>1. apc \in {"announce", "poll", "ret_exit", "off"}
  BY DEF Quiet, Frozen, BootInv, CommandInv
<1>2. EventInv' /\ (Up' <=> Up)
  BY DEF MachineInv, EventInv, Up, Frozen, apeVars, cmdVars
<1>3. RebootMailboxInv'
  BY <1>1 DEF MachineInv, RebootMailboxInv, agentSide, agentVars, BusyPcs, GetPcs, SetPcs,
     CallPcs, Commands
<1>4. RebootServiceInv'
  BY <1>1 DEF MachineInv, RebootServiceInv, agentSide, agentVars, BusyPcs, GetPcs, SetPcs,
     CallPcs
<1> QED
  BY <1>2, <1>3, <1>4 DEF MachineInv

\* A clear CMD before an agent that will not start anew means that nobody is served.
LEMMA ClearMeansQuiet ==
    ASSUME BootInv, MachineInv, Up, cmd = NoCmd
    PROVE  Quiet
<1>1. apc \notin Busy
  BY DEF BootInv, CommandInv, Served, NoCmd
<1>2. apc \notin {"start_flags", "start_cmd"}
  BY DEF Up, Frozen, MachineInv, RebootMailboxInv, BootInv, CommandInv
<1>3. apc = "off" => Frozen
  BY DEF Up, Frozen, BootInv, BootTypeOK, CommandInv, RunningInv, MachineInv, EventInv
<1> QED
  BY <1>1, <1>2, <1>3 DEF Quiet, Busy, BootInv, BootTypeOK, TypeOK, AgentTypeOK, AgentPc

\* While one client runs, the others are off and nothing is claimed of them.
LEMMA OffUser ==
    ASSUME NEW d \in Client, UserInv(d), hpc[d] = "off",
           hpc'[d] = hpc[d], hop'[d] = hop[d], wrote'[d] = wrote[d]
    PROVE  UserInv(d)'
  BY DEF UserInv, RebootFlowInv, RebootAccessInv, RebootStoredInv

\* A step of a client keeps the invariant, one action at a time.
LEMMA ClientPromiseStep ==
    ASSUME RebootInv, BootTypeOK', Exclusive = TRUE, NEW c \in Client, ClientStep(c)
    PROVE  MachineInv' /\ OneAtATime' /\ \A d \in Client : UserInv(d)'
<1> USE DEF RebootInv
<1>0. /\ TypeOK /\ TypeOK' /\ BootTypeOK
      /\ Advance(c) \/ Choose(c)
      /\ bpc = "off" /\ UNCHANGED <<apeVars, cmdVars>>
  BY DEF BootInv, BootTypeOK, ClientStep
<1> USE DEF TypeOK, Goto, Warn, locals
<1>1. /\ hpc' = [hpc EXCEPT ![c] = hpc'[c]]
      /\ hpc[c] = "off" => \A d \in Client : hpc[d] = "off"
      /\ \A d \in Client \ {c} : hop'[d] = hop[d] /\ wrote'[d] = wrote[d]
  BY <1>0 DEF Advance, Choose, ChainReady, ChainTimesOut, CheckState, WaitIdle,
     WaitTimesOut, Fail, PutArg0, PutArg1, Post, AwaitDone, AwaitTimesOut,
     CheckFlags, FetchArg1, Launch, BeginGet, BeginSet, BeginCall, Quit
<1>2. \A d \in Client \ {c} : hpc[d] = "off"
  BY <1>1 DEF OneAtATime, OneProcess
<1>3. OneAtATime'
  <2>1. bpc' = "off"
    BY <1>0 DEF cmdVars
  <2> QED
    BY <1>0, <1>1, <1>2, <2>1 DEF OneAtATime, OneProcess
<1>4. \A d \in Client \ {c} : UserInv(d)'
  <2> SUFFICES ASSUME NEW d \in Client \ {c} PROVE UserInv(d)'
    OBVIOUS
  <2>1. hpc[d] = "off" /\ hpc'[d] = hpc[d] /\ hop'[d] = hop[d] /\ wrote'[d] = wrote[d]
    BY <1>0, <1>1, <1>2
  <2> QED
    BY <2>1, OffUser
<1>5. UserInv(c)
  OBVIOUS
<1>6. SUFFICES MachineInv' /\ UserInv(c)'
  BY <1>3, <1>4
<1> USE <1>0, <1>5 DEF UserInv
<1>11. CASE ChainReady(c)
  <2>1. MachineInv' /\ (Quiet' <=> Quiet) /\ (Up' <=> Up) /\ (Answered' <=> Answered)
    BY <1>11, UserFrame DEF ChainReady
  <2>2. RebootFlowInv(c)'
    BY <1>11, <2>1 DEF ChainReady, RebootFlowInv, mailbox, Shell, Up
  <2>3. RebootAccessInv(c)'
    BY <1>11, <2>1 DEF ChainReady, RebootAccessInv, RebootFlowInv, Replied, mailbox
  <2>4. RebootStoredInv(c)'
    BY <1>11, <2>1 DEF ChainReady, RebootStoredInv, InFlight, RebootFlowInv, RebootAccessInv, Replied,
       agentSide
  <2> QED
    BY <2>1, <2>2, <2>3, <2>4
<1>12. CASE ChainTimesOut(c)
  <2>1. MachineInv' /\ (Quiet' <=> Quiet) /\ (Up' <=> Up) /\ (Answered' <=> Answered)
    BY <1>12, UserFrame DEF ChainTimesOut
  <2>2. RebootFlowInv(c)'
    BY <1>12, <2>1 DEF ChainTimesOut, RebootFlowInv, mailbox, Shell
  <2>3. RebootAccessInv(c)'
    BY <1>12, <2>1 DEF ChainTimesOut, RebootAccessInv, RebootFlowInv, Replied, mailbox
  <2>4. RebootStoredInv(c)'
    BY <1>12, <2>1 DEF ChainTimesOut, RebootStoredInv, InFlight, RebootFlowInv, RebootAccessInv, Replied,
       agentSide
  <2> QED
    BY <2>1, <2>2, <2>3, <2>4
<1>13. CASE CheckState(c)
  <2>1. MachineInv' /\ (Quiet' <=> Quiet) /\ (Up' <=> Up) /\ (Answered' <=> Answered)
    BY <1>13, UserFrame DEF CheckState, Fail
  <2>2. RebootFlowInv(c)'
    BY <1>13, <2>1 DEF CheckState, Fail, RebootFlowInv, mailbox, Shell, Up
  <2>3. RebootAccessInv(c)'
    BY <1>13, <2>1 DEF CheckState, Fail, RebootAccessInv, RebootFlowInv, Replied, mailbox
  <2>4. RebootStoredInv(c)'
    BY <1>13, <2>1 DEF CheckState, Fail, RebootStoredInv, InFlight, RebootFlowInv, RebootAccessInv, Replied,
       agentSide
  <2> QED
    BY <2>1, <2>2, <2>3, <2>4
<1>14. CASE WaitIdle(c)
  <2>1. MachineInv' /\ (Quiet' <=> Quiet) /\ (Up' <=> Up) /\ (Answered' <=> Answered)
    BY <1>14, UserFrame DEF WaitIdle
  <2>2. RebootFlowInv(c)'
    BY <1>14, <2>1 DEF WaitIdle, RebootFlowInv, mailbox, Shell
  <2>3. RebootAccessInv(c)'
    BY <1>14, <2>1, ClearMeansQuiet DEF WaitIdle, RebootAccessInv, RebootFlowInv, Replied, mailbox
  <2>4. RebootStoredInv(c)'
    BY <1>14, <2>1 DEF WaitIdle, RebootStoredInv, InFlight, RebootFlowInv, RebootAccessInv, Replied,
       agentSide
  <2> QED
    BY <2>1, <2>2, <2>3, <2>4
<1>15. CASE WaitTimesOut(c)
  <2>1. MachineInv' /\ (Quiet' <=> Quiet) /\ (Up' <=> Up) /\ (Answered' <=> Answered)
    BY <1>15, UserFrame DEF WaitTimesOut, Fail
  <2>2. RebootFlowInv(c)'
    BY <1>15, <2>1 DEF WaitTimesOut, Fail, RebootFlowInv, mailbox, Shell
  <2>3. RebootAccessInv(c)'
    BY <1>15, <2>1 DEF WaitTimesOut, Fail, RebootAccessInv, RebootFlowInv, Replied, mailbox
  <2>4. RebootStoredInv(c)'
    BY <1>15, <2>1 DEF WaitTimesOut, Fail, RebootStoredInv, InFlight, RebootFlowInv, RebootAccessInv, Replied,
       agentSide
  <2> QED
    BY <2>1, <2>2, <2>3, <2>4
<1>16. CASE AwaitDone(c)
  <2>1. MachineInv' /\ (Quiet' <=> Quiet) /\ (Up' <=> Up) /\ (Answered' <=> Answered)
    BY <1>16, UserFrame DEF AwaitDone
  <2>2. RebootFlowInv(c)'
    BY <1>16, <2>1 DEF AwaitDone, RebootFlowInv, mailbox, Shell
  <2>3. RebootAccessInv(c)'
    BY <1>16, <2>1 DEF AwaitDone, RebootAccessInv, RebootFlowInv, Replied, mailbox
  <2>4. RebootStoredInv(c)'
    BY <1>16, <2>1 DEF AwaitDone, RebootStoredInv, InFlight, RebootFlowInv, RebootAccessInv, Replied,
       agentSide
  <2> QED
    BY <2>1, <2>2, <2>3, <2>4
<1>17. CASE AwaitTimesOut(c)
  <2>1. MachineInv' /\ (Quiet' <=> Quiet) /\ (Up' <=> Up) /\ (Answered' <=> Answered)
    BY <1>17, UserFrame DEF AwaitTimesOut, Fail
  <2>2. RebootFlowInv(c)'
    BY <1>17, <2>1 DEF AwaitTimesOut, Fail, RebootFlowInv, mailbox, Shell
  <2>3. RebootAccessInv(c)'
    BY <1>17, <2>1 DEF AwaitTimesOut, Fail, RebootAccessInv, RebootFlowInv, Replied, mailbox
  <2>4. RebootStoredInv(c)'
    BY <1>17, <2>1 DEF AwaitTimesOut, Fail, RebootStoredInv, InFlight, RebootFlowInv, RebootAccessInv, Replied,
       agentSide
  <2> QED
    BY <2>1, <2>2, <2>3, <2>4
<1>18. CASE CheckFlags(c)
  <2>1. MachineInv' /\ (Quiet' <=> Quiet) /\ (Up' <=> Up) /\ (Answered' <=> Answered)
    BY <1>18, UserFrame DEF CheckFlags, Fail
  <2>2. RebootFlowInv(c)'
    BY <1>18, <2>1 DEF CheckFlags, Fail, RebootFlowInv, mailbox, Shell
  <2>3. RebootAccessInv(c)'
    BY <1>18, <2>1 DEF CheckFlags, Fail, RebootAccessInv, RebootFlowInv, Replied, mailbox
  <2>4. RebootStoredInv(c)'
    BY <1>18, <2>1 DEF CheckFlags, Fail, RebootStoredInv, InFlight, RebootFlowInv, RebootAccessInv, Replied,
       agentSide, Answered, AgentTypeOK
  <2> QED
    BY <2>1, <2>2, <2>3, <2>4
<1>19. CASE FetchArg1(c)
  <2>1. MachineInv' /\ (Quiet' <=> Quiet) /\ (Up' <=> Up) /\ (Answered' <=> Answered)
    BY <1>19, UserFrame DEF FetchArg1
  <2>2. RebootFlowInv(c)'
    BY <1>19, <2>1 DEF FetchArg1, RebootFlowInv, mailbox, Shell
  <2>3. RebootAccessInv(c)'
    BY <1>19, <2>1 DEF FetchArg1, RebootAccessInv, RebootFlowInv, Replied, mailbox, Answered, agentSide
  <2>4. RebootStoredInv(c)'
    BY <1>19, <2>1 DEF FetchArg1, RebootStoredInv, InFlight, RebootFlowInv, RebootAccessInv, Replied,
       agentSide
  <2> QED
    BY <2>1, <2>2, <2>3, <2>4
<1>20. CASE PutArg0(c)
  <2>1. Quiet /\ Up
    BY <1>20 DEF PutArg0, RebootAccessInv, RebootFlowInv
  <2>2. MachineInv' /\ (Up' <=> Up)
    BY <1>20, <2>1, UserPostFrame DEF PutArg0
  <2>3. Quiet'
    BY <1>20, <2>1 DEF PutArg0, Quiet, Frozen, agentSide, agentVars, apeVars
  <2>4. RebootFlowInv(c)'
    BY <1>20, <2>1, <2>2 DEF PutArg0, RebootFlowInv, Shell
  <2>5. RebootAccessInv(c)'
    BY <1>20, <2>1, <2>3 DEF PutArg0, RebootAccessInv, RebootFlowInv, Replied
  <2>6. RebootStoredInv(c)'
    BY <1>20, <2>1, <2>3 DEF PutArg0, RebootStoredInv, InFlight, RebootFlowInv, RebootAccessInv, agentSide
  <2> QED
    BY <2>2, <2>4, <2>5, <2>6
<1>21. CASE PutArg1(c)
  <2>1. Quiet /\ Up
    BY <1>21 DEF PutArg1, RebootAccessInv, RebootFlowInv
  <2>2. MachineInv' /\ (Up' <=> Up)
    BY <1>21, <2>1, UserPostFrame DEF PutArg1
  <2>3. Quiet'
    BY <1>21, <2>1 DEF PutArg1, Quiet, Frozen, agentSide, agentVars, apeVars
  <2>4. RebootFlowInv(c)'
    BY <1>21, <2>1, <2>2 DEF PutArg1, RebootFlowInv, Shell
  <2>5. RebootAccessInv(c)'
    BY <1>21, <2>1, <2>3 DEF PutArg1, RebootAccessInv, RebootFlowInv, Replied
  <2>6. RebootStoredInv(c)'
    BY <1>21, <2>1, <2>3 DEF PutArg1, RebootStoredInv, InFlight, RebootFlowInv, RebootAccessInv, agentSide
  <2> QED
    BY <2>2, <2>4, <2>5, <2>6
<1>22. CASE Post(c)
  <2>1. Quiet /\ Up
    BY <1>22 DEF Post, RebootAccessInv, RebootFlowInv
  <2>2. MachineInv' /\ (Up' <=> Up)
    BY <1>22, <2>1, UserPostFrame DEF Post, RebootFlowInv
  <2>3. cmd' # NoCmd /\ cmd'.type = hop[c]
    BY <1>22 DEF Post, Request, NoCmd, RebootFlowInv, Shell
  <2>4. RebootFlowInv(c)'
    BY <1>22, <2>1, <2>2 DEF Post, RebootFlowInv, Shell
  <2>5. RebootAccessInv(c)'
    BY <1>22, <2>1, <2>3 DEF Post, RebootAccessInv, RebootFlowInv, Replied
  <2>6. RebootStoredInv(c)'
    BY <1>22, <2>1, <2>3 DEF Post, RebootStoredInv, InFlight, RebootFlowInv, RebootAccessInv, agentSide
  <2> QED
    BY <2>2, <2>4, <2>5, <2>6
<1>23. ASSUME NEW p \in Program, Launch(c, p)
       PROVE  MachineInv' /\ UserInv(c)'
  <2>1. MachineInv' /\ (Quiet' <=> Quiet) /\ (Up' <=> Up) /\ (Answered' <=> Answered)
    BY <1>23, UserFrame DEF Launch
  <2>2. RebootFlowInv(c)'
    BY <1>23, <2>1 DEF Launch, RebootFlowInv, mailbox, Shell
  <2>3. RebootAccessInv(c)'
    BY <1>23, <2>1 DEF Launch, RebootAccessInv, RebootFlowInv, Replied, mailbox
  <2>4. RebootStoredInv(c)'
    BY <1>23, <2>1 DEF Launch, RebootStoredInv, InFlight, RebootFlowInv, RebootAccessInv, Replied,
       agentSide
  <2> QED
    BY <2>1, <2>2, <2>3, <2>4
<1>24. ASSUME NEW a \in Address, BeginGet(c, a)
       PROVE  MachineInv' /\ UserInv(c)'
  <2>1. MachineInv' /\ (Quiet' <=> Quiet) /\ (Up' <=> Up) /\ (Answered' <=> Answered)
    BY <1>24, UserFrame DEF BeginGet
  <2>2. RebootFlowInv(c)'
    BY <1>24, <2>1 DEF BeginGet, RebootFlowInv, mailbox, Shell
  <2>3. RebootAccessInv(c)'
    BY <1>24, <2>1 DEF BeginGet, RebootAccessInv, RebootFlowInv, Replied, mailbox
  <2>4. RebootStoredInv(c)'
    BY <1>24, <2>1 DEF BeginGet, RebootStoredInv, InFlight, RebootFlowInv, RebootAccessInv, Replied,
       agentSide
  <2> QED
    BY <2>1, <2>2, <2>3, <2>4
<1>25. ASSUME NEW a \in Address, NEW v \in Word, BeginSet(c, a, v)
       PROVE  MachineInv' /\ UserInv(c)'
  <2>1. MachineInv' /\ (Quiet' <=> Quiet) /\ (Up' <=> Up) /\ (Answered' <=> Answered)
    BY <1>25, UserFrame DEF BeginSet
  <2>2. RebootFlowInv(c)'
    BY <1>25, <2>1 DEF BeginSet, RebootFlowInv, mailbox, Shell
  <2>3. RebootAccessInv(c)'
    BY <1>25, <2>1 DEF BeginSet, RebootAccessInv, RebootFlowInv, Replied, mailbox
  <2>4. RebootStoredInv(c)'
    BY <1>25, <2>1 DEF BeginSet, RebootStoredInv, InFlight, RebootFlowInv, RebootAccessInv, Replied,
       agentSide
  <2> QED
    BY <2>1, <2>2, <2>3, <2>4
<1>26. ASSUME NEW a \in Address, BeginCall(c, a)
       PROVE  MachineInv' /\ UserInv(c)'
  <2>1. MachineInv' /\ (Quiet' <=> Quiet) /\ (Up' <=> Up) /\ (Answered' <=> Answered)
    BY <1>26, UserFrame DEF BeginCall
  <2>2. RebootFlowInv(c)'
    BY <1>26, <2>1 DEF BeginCall, RebootFlowInv, mailbox, Shell
  <2>3. RebootAccessInv(c)'
    BY <1>26, <2>1 DEF BeginCall, RebootAccessInv, RebootFlowInv, Replied, mailbox
  <2>4. RebootStoredInv(c)'
    BY <1>26, <2>1 DEF BeginCall, RebootStoredInv, InFlight, RebootFlowInv, RebootAccessInv, Replied,
       agentSide
  <2> QED
    BY <2>1, <2>2, <2>3, <2>4
<1>27. CASE Quit(c)
  <2>1. MachineInv' /\ (Quiet' <=> Quiet) /\ (Up' <=> Up) /\ (Answered' <=> Answered)
    BY <1>27, UserFrame DEF Quit
  <2>2. RebootFlowInv(c)'
    BY <1>27, <2>1 DEF Quit, RebootFlowInv, mailbox, Shell
  <2>3. RebootAccessInv(c)'
    BY <1>27, <2>1 DEF Quit, RebootAccessInv, RebootFlowInv, Replied, mailbox
  <2>4. RebootStoredInv(c)'
    BY <1>27, <2>1 DEF Quit, RebootStoredInv, InFlight, RebootFlowInv, RebootAccessInv, Replied,
       agentSide
  <2> QED
    BY <2>1, <2>2, <2>3, <2>4
<1> QED
  BY <1>11, <1>12, <1>13, <1>14, <1>15, <1>16, <1>17, <1>18, <1>19,
     <1>20, <1>21, <1>22, <1>23, <1>24, <1>25, <1>26, <1>27 DEF Advance, Choose

-----------------------------------------------------------------------------
(* The invariant and the promises.                                         *)

\* The firmware from NVM has come up, and no client has run.
LEMMA RebootInit == BootInit => RebootInv
<1> SUFFICES ASSUME BootInit PROVE RebootInv
  OBVIOUS
<1>1. BootInv
  BY BootInvInit
<1>2. MachineInv
  BY DEF BootInit, MachineInv, EventInv, RebootMailboxInv, RebootServiceInv, BusyPcs,
     GetPcs, SetPcs, CallPcs
<1>3. OneAtATime
  BY DEF BootInit, OneAtATime, OneProcess
<1>4. \A c \in Client : UserInv(c)
  BY DEF BootInit, UserInv, RebootFlowInv, RebootAccessInv, RebootStoredInv
<1> QED
  BY <1>1, <1>2, <1>3, <1>4 DEF RebootInv

\* Every step of the APE, of a boot command or of a client keeps the invariant.
LEMMA RebootStep ==
    ASSUME Exclusive = TRUE
    PROVE  RebootInv /\ [BootNext]_bootVars => RebootInv'
<1> SUFFICES ASSUME RebootInv, [BootNext]_bootVars PROVE RebootInv'
  OBVIOUS
<1>0. BootInv /\ BootInv'
  BY BootInvStep DEF RebootInv
<1>1. CASE Ape
  <2>1. MachineInv' /\ \A c \in Client : UserInv(c)'
    BY <1>1, ApeMachineStep, ApeUserStep DEF RebootInv
  <2>2. OneAtATime'
    BY <1>1 DEF RebootInv, OneAtATime, OneProcess, Ape, BootAgent, AgentStep, RomFastBoots,
       StartAgent, RomLoadsFirmware, FirmwareServes, CalleeTakesOver, hostVars, cmdVars
  <2> QED
    BY <1>0, <2>1, <2>2 DEF RebootInv
<1>2. CASE BootCommand
  <2>1. MachineInv'
    BY <1>2, CommandMachineStep DEF RebootInv
  <2>2. OneAtATime' /\ \A c \in Client : UserInv(c)'
    BY <1>2, CommandUserStep DEF RebootInv, BootInv
  <2> QED
    BY <1>0, <2>1, <2>2 DEF RebootInv
<1>3. ASSUME NEW c \in Client, ClientStep(c) PROVE RebootInv'
  BY <1>0, <1>3, ClientPromiseStep DEF RebootInv, BootInv
<1>4. CASE UNCHANGED bootVars
  <2>1. MachineInv' /\ (Quiet' <=> Quiet) /\ (Up' <=> Up) /\ (Answered' <=> Answered)
    BY <1>4, UserFrame DEF RebootInv, bootVars, vars, agentSide
  <2>2. OneAtATime'
    BY <1>4 DEF RebootInv, OneAtATime, OneProcess, bootVars, vars, hostVars, cmdVars
  <2>3. \A c \in Client : UserInv(c)'
    BY <1>4, <2>1 DEF RebootInv, UserInv, RebootFlowInv, RebootAccessInv, RebootStoredInv,
       Replied, InFlight, bootVars, vars, hostVars, mailbox
  <2> QED
    BY <1>0, <2>1, <2>2, <2>3 DEF RebootInv
<1> QED
  BY <1>1, <1>2, <1>3, <1>4 DEF BootNext

\* Agent, mailbox and client agree on whose command is being served, also when the
\* APE is halted under it, RETURN is posted over it, or a firmware takes over.
THEOREM RebootInductive ==
    ASSUME Exclusive = TRUE
    PROVE  BootSpec => []RebootInv
  BY RebootInit, RebootStep, PTL DEF BootSpec

\* GetAPEMemShell returns the current word or warns, through any sequence of boots,
\* calls, returns, resets and kills.
THEOREM ReadsCurrentAcrossBoots ==
    ASSUME Exclusive = TRUE
    PROVE  BootSpec => []ReadsAreCurrent
<1>1. RebootInv => ReadsAreCurrent
  BY DEF RebootInv, UserInv, RebootAccessInv, ReadsAreCurrent
<1> QED
  BY <1>1, RebootInductive, PTL

\* A process that has not warned has stored every word it was asked to, also when
\* the APE was booted under it or its agent returned to the firmware.
THEOREM SilentStoresAcrossBoots ==
    ASSUME Exclusive = TRUE
    PROVE  BootSpec => []SilenceMeansStored
<1>1. RebootInv => SilenceMeansStored
  <2> SUFFICES ASSUME RebootInv, NEW c \in Client, c \notin warned,
                      hpc[c] = "ready" \/ (hop[c] = "CALL_0" /\ hpc[c] # "exit"),
                      NEW a \in Address, wrote[c][a] # Unwritten
               PROVE  a \in Addr /\ mem[a] = wrote[c][a]
    BY DEF SilenceMeansStored
  <2> QED
    BY DEF RebootInv, UserInv, RebootStoredInv, InFlight
<1> QED
  BY <1>1, RebootInductive, PTL

=============================================================================
