------------------------------ MODULE ApeShell ------------------------------
(***************************************************************************)
(* The host's side of the APE shell: GetAPEMemShell and SetAPEMemShell of  *)
(* otg_common.c, and the last step of otgdbg's _ChainAPE, composed with    *)
(* the agent of module ApeAgent.                                           *)
(*                                                                         *)
(* A client is an otgdbg process.  It performs any number of accesses and  *)
(* then exits, or is killed between any two of its register accesses; the  *)
(* agent does not notice, and the next process finds the mailbox as the    *)
(* last one left it.  With Exclusive the processes follow one another, as  *)
(* the protocol needs (it has no lock); without it they overlap.           *)
(***************************************************************************)
EXTENDS ApeAgent

CONSTANTS
    Client,     \* processes of otgdbg
    Exclusive,  \* TRUE when at most one of them runs at a time
    Unwritten   \* marks an address the process has not asked to write

ASSUME ShellAssumption ==
    /\ Exclusive \in BOOLEAN
    /\ Unwritten \notin Word

VARIABLES
    hpc,        \* program counter of each client, "off" when it is not running
    prog,       \* which command line it runs
    hop,        \* its current shell command
    haddr,      \* its argument offset
    hval,       \* its argument v
    res,        \* the value GetAPEMemShell returned last
    warned,     \* processes that have printed _WarnAboutAPEState's warning
    wrote       \* history: the last value it asked to store at each address

hostVars == <<hpc, prog, hop, haddr, hval, res, warned, wrote>>
vars     == <<mailbox, mem, agentVars, hostVars>>

-----------------------------------------------------------------------------
Program == {"access", "chain"}
HostPc  == {"off", "chain_wait", "ready", "check", "wait",
            "put_arg0", "put_arg1", "post", "await", "flags", "fetch", "exit"}

TypeOK ==
    /\ AgentTypeOK
    /\ hpc \in [Client -> HostPc]
    /\ prog \in [Client -> Program]
    /\ hop \in [Client -> {"NONE", "MEM_GET", "MEM_SET", "CALL_0"}]
    /\ haddr \in [Client -> Address]
    /\ hval \in [Client -> Word]
    /\ res \in [Client -> Word]
    /\ warned \subseteq Client
    /\ wrote \in [Client -> [Address -> Word \union {Unwritten}]]

\* The registers as the boot commands leave them, with the agent about to
\* run; EXCEPTION_IGNORE and the APE's memory hold anything.
Init ==
    /\ state = "boot" /\ cmd = NoCmd /\ flags = 0
    /\ arg0 = NullAddr /\ arg1 = ZeroWord
    /\ ignore \in {0, 1}
    /\ mem \in [Addr -> Word]
    /\ apc = "start_flags" /\ curCmd = "NONE" /\ ackBuf = NoCmd
    /\ addr = NullAddr /\ val = ZeroWord
    /\ hpc = [c \in Client |-> "off"]
    /\ prog = [c \in Client |-> "access"]
    /\ hop = [c \in Client |-> "NONE"]
    /\ haddr = [c \in Client |-> NullAddr]
    /\ hval = [c \in Client |-> ZeroWord]
    /\ res = [c \in Client |-> AllOnes]
    /\ warned = {}
    /\ wrote = [c \in Client |-> [a \in Address |-> Unwritten]]

-----------------------------------------------------------------------------
(* The life of a process.                                                  *)

Goto(c, label) == hpc' = [hpc EXCEPT ![c] = label]
Warn(c)        == warned' = warned \union {c}
agentSide      == <<mem, agentVars>>
locals         == <<prog, hop, haddr, hval, wrote>>

Launch(c, p) ==
    /\ hpc[c] = "off"
    /\ Exclusive => \A d \in Client : hpc[d] = "off"
    /\ Goto(c, IF p = "chain" THEN "chain_wait" ELSE "ready")
    /\ prog' = [prog EXCEPT ![c] = p]
    /\ UNCHANGED <<mailbox, agentSide, hop, haddr, hval, res, warned, wrote>>

\* It returns from main, or a signal ends it wherever it is.  Its variables
\* go with it.
Quit(c) ==
    /\ hpc[c] # "off"
    /\ Goto(c, "off")
    /\ prog' = [prog EXCEPT ![c] = "access"]
    /\ hop' = [hop EXCEPT ![c] = "NONE"]
    /\ haddr' = [haddr EXCEPT ![c] = NullAddr]
    /\ hval' = [hval EXCEPT ![c] = ZeroWord]
    /\ res' = [res EXCEPT ![c] = AllOnes]
    /\ warned' = warned \ {c}
    /\ wrote' = [wrote EXCEPT ![c] = [a \in Address |-> Unwritten]]
    /\ UNCHANGED <<mailbox, agentSide>>

\* _WaitForAPEShell at the start of _ChainAPE.
ChainReady(c) ==
    /\ hpc[c] = "chain_wait" /\ state = "RUNNING"
    /\ Goto(c, "ready")
    /\ UNCHANGED <<mailbox, agentSide, locals, res, warned>>

ChainTimesOut(c) ==
    /\ hpc[c] = "chain_wait" /\ state # "RUNNING"
    /\ Goto(c, "exit")
    /\ Warn(c)
    /\ UNCHANGED <<mailbox, agentSide, locals, res>>

-----------------------------------------------------------------------------
(* Calls made by the commands: get and set lines make both accesses,       *)
(* _ChainAPE stores the image's words and then calls its entry point.      *)

BeginGet(c, a) ==
    /\ hpc[c] = "ready" /\ prog[c] = "access"
    /\ Goto(c, "check")
    /\ hop' = [hop EXCEPT ![c] = "MEM_GET"]
    /\ haddr' = [haddr EXCEPT ![c] = a]
    /\ UNCHANGED <<mailbox, agentSide, prog, hval, res, warned, wrote>>

BeginSet(c, a, v) ==
    /\ hpc[c] = "ready"
    /\ Goto(c, "check")
    /\ hop' = [hop EXCEPT ![c] = "MEM_SET"]
    /\ haddr' = [haddr EXCEPT ![c] = a]
    /\ hval' = [hval EXCEPT ![c] = v]
    /\ wrote' = [wrote EXCEPT ![c] = [wrote[c] EXCEPT ![a] = v]]
    /\ UNCHANGED <<mailbox, agentSide, prog, res, warned>>

BeginCall(c, a) ==
    /\ hpc[c] = "ready" /\ prog[c] = "chain"
    /\ Goto(c, "wait")
    /\ hop' = [hop EXCEPT ![c] = "CALL_0"]
    /\ haddr' = [haddr EXCEPT ![c] = a]
    /\ UNCHANGED <<mailbox, agentSide, prog, hval, res, warned, wrote>>

\* A failed GetAPEMemShell returns 0xFFFFFFFF, a failed SetAPEMemShell just
\* returns, a failed _ChainAPE ends the process; all have warned.
Fail(c) ==
    /\ Goto(c, IF hop[c] = "CALL_0" THEN "exit" ELSE "ready")
    /\ res' = IF hop[c] = "MEM_GET" THEN [res EXCEPT ![c] = AllOnes] ELSE res
    /\ Warn(c)

CheckState(c) ==
    /\ hpc[c] = "check"
    /\ IF state = "RUNNING"
       THEN Goto(c, "wait") /\ UNCHANGED <<res, warned>>
       ELSE Fail(c)
    /\ UNCHANGED <<mailbox, agentSide, locals>>

\* Faulty variant: the mailbox is taken without looking at CMD.
WaitIdleBlind(c) ==
    /\ hpc[c] = "wait"
    /\ Goto(c, "put_arg0")
    /\ UNCHANGED <<mailbox, agentSide, locals, res, warned>>

\* The first _WaitAPEShellCmd.  Its loop reads CMD until it is 0, 1000 times
\* at most, so it ends either way.
WaitIdle(c) ==
    /\ hpc[c] = "wait" /\ cmd = NoCmd
    /\ Goto(c, "put_arg0")
    /\ UNCHANGED <<mailbox, agentSide, locals, res, warned>>

\* Faulty variant: only GetAPEMemShell gives up.
WaitTimesOutInGet(c) ==
    /\ hpc[c] = "wait" /\ cmd # NoCmd /\ hop[c] = "MEM_GET"
    /\ Fail(c)
    /\ UNCHANGED <<mailbox, agentSide, locals>>

WaitTimesOut(c) ==
    /\ hpc[c] = "wait" /\ cmd # NoCmd
    /\ Fail(c)
    /\ UNCHANGED <<mailbox, agentSide, locals>>

PutArg0(c) ==
    /\ hpc[c] = "put_arg0"
    /\ arg0' = haddr[c]
    /\ Goto(c, IF hop[c] = "MEM_SET" THEN "put_arg1" ELSE "post")
    /\ UNCHANGED <<state, cmd, arg1, flags, agentSide, locals, res, warned>>

PutArg1(c) ==
    /\ hpc[c] = "put_arg1"
    /\ arg1' = hval[c]
    /\ Goto(c, "post")
    /\ UNCHANGED <<state, cmd, arg0, flags, agentSide, locals, res, warned>>

\* _ChainAPE does not wait for its call to return.
Post(c) ==
    /\ hpc[c] = "post"
    /\ cmd' = Request(hop[c])
    /\ Goto(c, IF hop[c] = "CALL_0" THEN "exit" ELSE "await")
    /\ UNCHANGED <<state, arg0, arg1, flags, agentSide, locals, res, warned>>

\* The second _WaitAPEShellCmd; SetAPEMemShell ignores its result.
AwaitDone(c) ==
    /\ hpc[c] = "await" /\ cmd = NoCmd
    /\ Goto(c, "flags")
    /\ UNCHANGED <<mailbox, agentSide, locals, res, warned>>

\* Faulty variant: a store that timed out is not reported.
AwaitTimesOutQuietly(c) ==
    /\ hpc[c] = "await" /\ cmd # NoCmd
    /\ \/ hop[c] = "MEM_GET" /\ Fail(c)
       \/ hop[c] = "MEM_SET" /\ Goto(c, "flags") /\ UNCHANGED <<res, warned>>
    /\ UNCHANGED <<mailbox, agentSide, locals>>

\* Faulty variant: GetAPEMemShell, too, ignores the result of the second wait.
AwaitTimesOutIgnored(c) ==
    /\ hpc[c] = "await" /\ cmd # NoCmd
    /\ Goto(c, "flags") /\ Warn(c)
    /\ UNCHANGED <<mailbox, agentSide, locals, res>>

AwaitTimesOut(c) ==
    /\ hpc[c] = "await" /\ cmd # NoCmd
    /\ \/ hop[c] = "MEM_GET" /\ Fail(c)
       \/ hop[c] = "MEM_SET" /\ Goto(c, "flags") /\ Warn(c) /\ UNCHANGED res
    /\ UNCHANGED <<mailbox, agentSide, locals>>

CheckFlags(c) ==
    /\ hpc[c] = "flags"
    /\ \/ flags # 0 /\ Fail(c)
       \/ /\ flags = 0
          /\ Goto(c, IF hop[c] = "MEM_GET" THEN "fetch" ELSE "ready")
          /\ UNCHANGED <<res, warned>>
    /\ UNCHANGED <<mailbox, agentSide, locals>>

FetchArg1(c) ==
    /\ hpc[c] = "fetch"
    /\ res' = [res EXCEPT ![c] = arg1]
    /\ Goto(c, "ready")
    /\ UNCHANGED <<mailbox, agentSide, locals, warned>>

-----------------------------------------------------------------------------
\* The steps of an access once begun.
Advance(c) ==
    \/ ChainReady(c) \/ ChainTimesOut(c)
    \/ CheckState(c) \/ WaitIdle(c) \/ WaitTimesOut(c)
    \/ PutArg0(c) \/ PutArg1(c) \/ Post(c)
    \/ AwaitDone(c) \/ AwaitTimesOut(c) \/ CheckFlags(c) \/ FetchArg1(c)

Choose(c) ==
    \/ \E p \in Program : Launch(c, p)
    \/ \E a \in Address : BeginGet(c, a)
    \/ \E a \in Address, v \in Word : BeginSet(c, a, v)
    \/ \E a \in Address : BeginCall(c, a)
    \/ Quit(c)

AgentStep == AgentNext /\ UNCHANGED hostVars

Next == AgentStep \/ \E c \in Client : Advance(c) \/ Choose(c)

Spec == Init /\ [][Next]_vars

\* The APE runs with interrupts off, so its loop goes on, and an access that
\* was begun goes on until its process is killed.  Nothing obliges the code
\* called by CALL_0 to return, nor a user to type a command.
FairSpec ==
    /\ Spec
    /\ WF_vars(AgentCode /\ UNCHANGED hostVars)
    /\ \A c \in Client : WF_vars(Advance(c))

-----------------------------------------------------------------------------
(* What the protocol promises.                                             *)

\* GetAPEMemShell (otg_common.c) returns what the word holds, or 0xFFFFFFFF
\* after a warning: never a stale ARG1, an earlier command's answer or the
\* leftovers of a killed process.
ReadsAreCurrent ==
    \A c \in Client :
        hpc[c] = "ready" /\ hop[c] = "MEM_GET" =>
            \/ haddr[c] \in Addr /\ res[c] = mem[haddr[c]]
            \/ res[c] = AllOnes /\ c \in warned

\* SetAPEMemShell returns nothing, and the warning is printed once, so the
\* silence of a whole run is all a user can go by.  A process that has not
\* warned has stored every word it was asked to, at the latest when it calls
\* the entry point of the image it loaded.
SilenceMeansStored ==
    \A c \in Client :
        /\ c \notin warned
        /\ hpc[c] = "ready" \/ (hop[c] = "CALL_0" /\ hpc[c] # "exit")
        => \A a \in Address : wrote[c][a] # Unwritten =>
               a \in Addr /\ mem[a] = wrote[c][a]

\* The agent stores only what the command in the mailbox asks for, with the
\* arguments that are in the mailbox at that moment: no store after the
\* command was cleared, and none whose arguments the next client replaced.
StoresAreAsked ==
    [][\/ apc = "callee"
       \/ /\ cmd.type = "MEM_SET"
          /\ arg0 \in Addr
          /\ mem' = [mem EXCEPT ![arg0] = arg1]]_mem

\* Code called by CALL_0 owns the CPU until it returns.
CalleeRuns == curCmd = "CALL_0" /\ apc \in {"callee", "fault"}

\* A posted access is completed even when it faults: the HardFault handler
\* steps over the instruction and the agent gets back to its loop.
AccessesComplete ==
    (cmd.type \in {"MEM_GET", "MEM_SET"}) ~> (cmd = NoCmd \/ CalleeRuns)

AtRest == {"off", "ready", "exit"}

\* No call of the host waits for ever, whatever the agent does.
CallsReturn ==
    \A c \in Client :
        (hpc[c] \notin AtRest) ~> (hpc[c] \in AtRest)

-----------------------------------------------------------------------------
(* Refinement: with one process at a time the mailbox is an ApeMemory.  A  *)
(* request is submitted by the write of CMD and completed when the agent   *)
(* clears it; it is performed by the agent's load, store or fault handler. *)

target ==
    IF apc \in {"callee", "call_reply", "fault", "complete"} THEN addr ELSE arg0

requestView ==
    CASE cmd.type = "NONE"    -> [op |-> "NONE"]
      [] cmd.type = "MEM_GET" -> [op |-> "MEM_GET", addr |-> arg0]
      [] cmd.type = "MEM_SET" -> [op |-> "MEM_SET", addr |-> arg0, val |-> arg1]
      [] OTHER                -> [op |-> "CALL_0", addr |-> target]

replyView ==
    CASE apc \in {"get_reply", "complete"} /\ flags # 0 -> [kind |-> "fault"]
      [] apc = "get_reply" /\ flags = 0 -> [kind |-> "value", word |-> val]
      [] apc = "complete" /\ flags = 0 /\ curCmd = "MEM_GET" ->
             [kind |-> "value", word |-> arg1]
      [] \/ apc = "call_reply"
         \/ apc = "complete" /\ flags = 0 /\ curCmd # "MEM_GET" -> [kind |-> "ok"]
      [] OTHER -> [kind |-> "none"]

Memory == INSTANCE ApeMemory WITH request <- requestView, reply <- replyView

\* Every accepted command takes effect exactly once and atomically, even when
\* the process that posted it was killed or gave up waiting.
ImplementsMemory == Memory!FairSpec

=============================================================================
