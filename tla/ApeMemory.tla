------------------------------ MODULE ApeMemory -----------------------------
(***************************************************************************)
(* What the APE shell promises to the host, without mailbox or agent: a    *)
(* memory that takes one request at a time and performs each request once, *)
(* in one step, between its submission and its completion.  A request on a *)
(* hole is answered by a fault and changes nothing.                        *)
(***************************************************************************)
CONSTANTS Addr, Hole, Word

VARIABLES
    mem,        \* the memory
    request,    \* the request being served, or NoRequest
    reply       \* its answer, once it has been performed

vars == <<mem, request, reply>>

NoRequest == [op |-> "NONE"]
NoReply   == [kind |-> "none"]
Fault     == [kind |-> "fault"]
Ok        == [kind |-> "ok"]
Value(w)  == [kind |-> "value", word |-> w]

Access ==
    [op : {"MEM_GET"}, addr : Addr \union Hole]
        \union [op : {"MEM_SET"}, addr : Addr \union Hole, val : Word]
Call == [op : {"CALL_0"}, addr : Addr \union Hole]

Init ==
    /\ mem \in [Addr -> Word]
    /\ request = NoRequest
    /\ reply = NoReply

Submit ==
    /\ request = NoRequest
    /\ request' \in Access \union Call
    /\ UNCHANGED <<mem, reply>>

Pending == request # NoRequest /\ reply = NoReply

Read ==
    /\ Pending /\ request.op = "MEM_GET" /\ request.addr \in Addr
    /\ reply' = Value(mem[request.addr])
    /\ UNCHANGED <<mem, request>>

Write ==
    /\ Pending /\ request.op = "MEM_SET" /\ request.addr \in Addr
    /\ mem' = [mem EXCEPT ![request.addr] = request.val]
    /\ reply' = Ok
    /\ UNCHANGED request

Refuse ==
    /\ Pending /\ request.op \in {"MEM_GET", "MEM_SET"} /\ request.addr \in Hole
    /\ reply' = Fault
    /\ UNCHANGED <<mem, request>>

\* Code that was called may do anything to the memory, or never return.
RunCode ==
    /\ Pending /\ request.op = "CALL_0"
    /\ mem' \in [Addr -> Word]
    /\ reply' = Ok
    /\ UNCHANGED request

Complete ==
    /\ reply # NoReply
    /\ request' = NoRequest
    /\ reply' = NoReply
    /\ UNCHANGED mem

Next == Submit \/ Read \/ Write \/ Refuse \/ RunCode \/ Complete

Spec == Init /\ [][Next]_vars

FairSpec == Spec /\ WF_vars(Read \/ Write \/ Refuse) /\ WF_vars(Complete)
=============================================================================
