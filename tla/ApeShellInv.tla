---------------------------- MODULE ApeShellInv ----------------------------
(***************************************************************************)
(* The inductive invariant of ApeShell for processes that follow one       *)
(* another (Exclusive).  TLC checks it on the finite instances and         *)
(* ApeShellProofs proves it.                                               *)
(***************************************************************************)
EXTENDS ApeShell

Shell == {"MEM_GET", "MEM_SET", "CALL_0"}   \* the commands these clients post

Accepted(type) == [magic |-> 0, type |-> type]   \* after the agent's ack

GetPcs  == {"get_addr", "get_load", "get_reply"}
SetPcs  == {"set_addr", "set_val", "set_store"}
CallPcs == {"call_addr", "call_zero", "callee", "call_reply"}
BusyPcs == {"dispatch", "fault", "complete"} \union GetPcs \union SetPcs \union CallPcs

\* Nobody is being served and the agent cannot touch anything but STATE.
Idle == cmd = NoCmd /\ apc \in {"announce", "poll"}

\* ARG1 and the error flags answer the command whose argument is in ARG0.
Answered == IF arg0 \in Addr THEN flags = 0 /\ arg1 = mem[arg0] ELSE flags = 1

-----------------------------------------------------------------------------
(* The agent: where it is determines what is in the mailbox.               *)

MailboxInv ==
    /\ state \in {"boot", "RUNNING"}
    /\ apc \in {"start_flags", "start_cmd"} => state = "boot" /\ cmd = NoCmd
    /\ apc \in {"announce", "poll"} =>
           cmd = NoCmd \/ \E type \in Shell : cmd = Request(type)
    /\ apc \in {"ack_read", "ack_write"} => curCmd \in Shell /\ cmd = Request(curCmd)
    /\ apc = "ack_write" => ackBuf = cmd
    /\ apc \in BusyPcs => curCmd \in Shell /\ cmd = Accepted(curCmd)
    /\ apc \notin {"off", "ret_clear", "ret_exit"}

ServiceInv ==
    /\ apc \in GetPcs => curCmd = "MEM_GET"
    /\ apc \in SetPcs => curCmd = "MEM_SET"
    /\ apc \in CallPcs => curCmd = "CALL_0"
    /\ apc \in {"get_addr", "get_load"} \union SetPcs \union CallPcs => flags = 0
    /\ apc \in {"get_load", "set_val", "set_store"} => addr = arg0 /\ ignore = 1
    /\ apc = "set_store" => val = arg1
    /\ apc = "fault" /\ curCmd # "CALL_0" => addr = arg0 /\ addr \in Hole /\ ignore = 1
    /\ apc = "get_reply" => IF arg0 \in Addr THEN flags = 0 /\ val = mem[arg0] ELSE flags = 1
    /\ apc = "complete" /\ curCmd # "CALL_0" => Answered
    /\ apc = "complete" /\ curCmd = "CALL_0" => flags = 0
    /\ apc = "call_zero" => addr = arg0
    /\ ignore = 1 =>
           \/ apc \in {"start_flags", "get_load", "get_reply", "set_val", "set_store"}
           \/ apc = "fault" /\ curCmd # "CALL_0"

-----------------------------------------------------------------------------
(* The clients.                                                            *)

OneProcess == \A c, d \in Client : hpc[c] # "off" /\ hpc[d] # "off" => c = d

\* Which program points a command passes through.
FlowInv(c) ==
    /\ hpc[c] \in {"check", "await", "flags"} => hop[c] \in {"MEM_GET", "MEM_SET"}
    /\ hpc[c] \in {"wait", "put_arg0", "post"} => hop[c] \in Shell
    /\ hpc[c] = "put_arg1" => hop[c] = "MEM_SET"
    /\ hpc[c] = "fetch" => hop[c] = "MEM_GET"
    /\ hop[c] = "CALL_0" => hpc[c] \in {"wait", "put_arg0", "post", "exit"}
    /\ hpc[c] \in {"wait", "put_arg0", "put_arg1", "post"} => state = "RUNNING"
    /\ prog[c] = "chain" /\ hpc[c] \notin {"off", "chain_wait", "exit"} =>
           state = "RUNNING"
    /\ hpc[c] \in {"off", "chain_wait"} =>
           hop[c] = "NONE" /\ \A a \in Address : wrote[c][a] = Unwritten

\* The answer to this client's command, once CMD is clear.
HasAnswer(c) == Idle /\ Answered /\ arg0 = haddr[c]

AccessInv(c) ==
    /\ hpc[c] \in {"put_arg0", "put_arg1", "post"} => Idle
    /\ hpc[c] \in {"put_arg1", "post"} => arg0 = haddr[c]
    /\ hpc[c] = "post" /\ hop[c] = "MEM_SET" => arg1 = hval[c]
    /\ hpc[c] = "await" =>
           /\ arg0 = haddr[c]
           /\ hop[c] = "MEM_SET" => arg1 = hval[c]
           /\ IF cmd = NoCmd THEN HasAnswer(c) ELSE cmd.type = hop[c]
    /\ hpc[c] = "flags" =>
           \/ HasAnswer(c) /\ (hop[c] = "MEM_SET" => arg1 = hval[c])
           \/ hop[c] = "MEM_SET" /\ c \in warned
    /\ hpc[c] = "fetch" => HasAnswer(c) /\ flags = 0
    /\ hpc[c] = "ready" /\ hop[c] = "MEM_GET" =>
           \/ Idle /\ haddr[c] \in Addr /\ res[c] = mem[haddr[c]]
           \/ res[c] = AllOnes /\ c \in warned

\* The store under way, whose outcome is still open.
InFlight(c, a) ==
    hop[c] = "MEM_SET" /\ hpc[c] # "ready" /\ a = haddr[c]

StoredInv(c) ==
    c \notin warned /\ hpc[c] # "exit" =>
        /\ \A a \in Address :
               wrote[c][a] # Unwritten /\ ~InFlight(c, a) =>
                   /\ a \in Addr /\ mem[a] = wrote[c][a]
                   /\ hpc[c] # "await" => Idle
        /\ hop[c] = "MEM_SET" => wrote[c][haddr[c]] = hval[c]

IInv ==
    /\ TypeOK
    /\ MailboxInv
    /\ ServiceInv
    /\ OneProcess
    /\ \A c \in Client : FlowInv(c) /\ AccessInv(c) /\ StoredInv(c)

=============================================================================
