------------------------------ MODULE ApeAgent ------------------------------
(***************************************************************************)
(* The APE debugging agent of ape_shell.c: an endless loop on the APE CPU  *)
(* that takes one command at a time from a mailbox of shared-memory        *)
(* registers, the APEDBG ones, executes it and clears the command one.    *)
(*                                                                         *)
(* Every access to a register that the host also touches is a step of its  *)
(* own, because the host runs in parallel and may read or write between    *)
(* any two of them.  Accesses only the agent makes (EXCEPTION_IGNORE, the  *)
(* CPU registers) are joined to the step they precede or follow.  The      *)
(* agent is a component: the modules that EXTEND it add the host side.     *)
(***************************************************************************)
EXTENDS Naturals

CONSTANTS
    Addr,       \* word addresses the APE can load and store
    Hole,       \* addresses whose access raises a HardFault
    NullAddr,   \* address 0, which CALL_0 leaves in ARG0
    Word,       \* 32-bit values
    AllOnes,    \* the word 0xFFFFFFFF
    ZeroWord    \* the word 0

ASSUME AgentAssumption ==
    /\ Addr \intersect Hole = {}
    /\ NullAddr \in Addr \union Hole
    /\ AllOnes \in Word
    /\ ZeroWord \in Word

VARIABLES
    state,      \* APEDBG_STATE
    cmd,        \* APEDBG_CMD: the magic half and the type half
    arg0,       \* APEDBG_ARG0
    arg1,       \* APEDBG_ARG1
    flags,      \* APEDBG_CMD_ERROR_FLAGS: 0 or the EXCEPTION bit
    ignore,     \* APEDBG_EXCEPTION_IGNORE
    mem,        \* the APE's address space
    apc,        \* the agent's program counter, "off" when it does not run
    curCmd,     \* the local cmd of APEShellStart
    ackBuf,     \* the word read by the read-modify-write of APEDBG_CMD
    addr, val   \* CPU registers holding an address and a datum

agentVars == <<apc, curCmd, ackBuf, addr, val, ignore>>
mailbox   == <<state, cmd, arg0, arg1, flags>>

-----------------------------------------------------------------------------
Address  == Addr \union Hole
CmdType  == {"NONE", "MEM_GET", "MEM_SET", "CALL_0", "RETURN"}
CmdWord  == [magic : {0, 1}, type : CmdType]
NoCmd    == [magic |-> 0, type |-> "NONE"]           \* the word 0
Request(type) == [magic |-> 1, type |-> type]        \* MAGIC | TYPE__x

\* RUNNING and EXITED are the agent's; "boot" is the 0x00222200 the host's
\* boot commands leave there, "zero" the value after a reset.
StateWord == {"RUNNING", "EXITED", "boot", "zero"}

AgentPc == {"off", "start_flags", "start_cmd", "announce", "poll",
            "ack_read", "ack_write", "dispatch",
            "get_addr", "get_load", "get_reply",
            "set_addr", "set_val", "set_store",
            "call_addr", "call_zero", "callee", "call_reply",
            "ret_clear", "ret_exit", "fault", "complete"}

AgentTypeOK ==
    /\ state \in StateWord
    /\ cmd \in CmdWord
    /\ arg0 \in Address
    /\ arg1 \in Word
    /\ flags \in {0, 1}
    /\ ignore \in {0, 1}
    /\ mem \in [Addr -> Word]
    /\ apc \in AgentPc
    /\ curCmd \in CmdType
    /\ ackBuf \in CmdWord
    /\ addr \in Address
    /\ val \in Word

-----------------------------------------------------------------------------
(* APEShellStart up to its loop.  EVENT_STATUS and the vector table are    *)
(* not shared with the mailbox protocol and are left out.                  *)

StartFlags ==
    /\ apc = "start_flags"
    /\ flags' = 0
    /\ ignore' = 0
    /\ apc' = "start_cmd"
    /\ UNCHANGED <<state, cmd, arg0, arg1, mem, curCmd, ackBuf, addr, val>>

StartCmd ==
    /\ apc = "start_cmd"
    /\ cmd' = NoCmd
    /\ apc' = "announce"
    /\ UNCHANGED <<state, arg0, arg1, flags, ignore, mem,
                   curCmd, ackBuf, addr, val>>

-----------------------------------------------------------------------------
(* _GetCommand: announce, read the command word and, when it carries the   *)
(* magic and a type, strip the magic with a read and a write.              *)

\* Faulty variant: it announces itself only after a clean reset.
AnnounceOnce ==
    /\ apc = "announce"
    /\ state' = IF state = "zero" THEN "RUNNING" ELSE state
    /\ apc' = "poll"
    /\ UNCHANGED <<cmd, arg0, arg1, flags, ignore, mem,
                   curCmd, ackBuf, addr, val>>

Announce ==
    /\ apc = "announce"
    /\ state' = "RUNNING"
    /\ apc' = "poll"
    /\ UNCHANGED <<cmd, arg0, arg1, flags, ignore, mem,
                   curCmd, ackBuf, addr, val>>

IsCommand(word) == word.magic = 1 /\ word.type # "NONE"

Poll ==
    /\ apc = "poll"
    /\ IF IsCommand(cmd)
       THEN apc' = "ack_read" /\ curCmd' = cmd.type
       ELSE apc' = "announce" /\ UNCHANGED curCmd
    /\ UNCHANGED <<mailbox, ignore, mem, ackBuf, addr, val>>

AckRead ==
    /\ apc = "ack_read"
    /\ ackBuf' = cmd
    /\ apc' = "ack_write"
    /\ UNCHANGED <<mailbox, ignore, mem, curCmd, addr, val>>

\* Faulty variant: the acknowledgement clears the type too.
AckWriteClears ==
    /\ apc = "ack_write"
    /\ cmd' = NoCmd
    /\ apc' = "dispatch"
    /\ UNCHANGED <<state, arg0, arg1, flags, ignore, mem,
                   curCmd, ackBuf, addr, val>>

AckWrite ==
    /\ apc = "ack_write"
    /\ cmd' = [ackBuf EXCEPT !.magic = 0]
    /\ apc' = "dispatch"
    /\ UNCHANGED <<state, arg0, arg1, flags, ignore, mem,
                   curCmd, ackBuf, addr, val>>

-----------------------------------------------------------------------------
(* The command loop: clear the error flags, then branch on the type.       *)

\* Faulty variant: the switch lacks a case.
BranchWithoutReturn(type) ==
    CASE type = "MEM_GET" -> "get_addr"
      [] type = "MEM_SET" -> "set_addr"
      [] type = "CALL_0"  -> "call_addr"
      [] OTHER            -> "complete"

Branch(type) == CASE type = "MEM_GET" -> "get_addr"
                  [] type = "MEM_SET" -> "set_addr"
                  [] type = "CALL_0"  -> "call_addr"
                  [] type = "RETURN"  -> "ret_clear"
                  [] OTHER            -> "complete"

Dispatch ==
    /\ apc = "dispatch"
    /\ flags' = 0
    /\ apc' = Branch(curCmd)
    /\ UNCHANGED <<state, cmd, arg0, arg1, ignore, mem,
                   curCmd, ackBuf, addr, val>>

\* Faulty variant: the command stays in the register.
CompleteForgets ==
    /\ apc = "complete"
    /\ apc' = "announce"
    /\ UNCHANGED <<mailbox, ignore, mem, curCmd, ackBuf, addr, val>>

Complete ==
    /\ apc = "complete"
    /\ cmd' = NoCmd
    /\ apc' = "announce"
    /\ UNCHANGED <<state, arg0, arg1, flags, ignore, mem,
                   curCmd, ackBuf, addr, val>>

(* MEM_GET.  A load from a hole raises the HardFault instead.              *)

GetAddr ==
    /\ apc = "get_addr"
    /\ ignore' = 1
    /\ addr' = arg0
    /\ apc' = "get_load"
    /\ UNCHANGED <<mailbox, mem, curCmd, ackBuf, val>>

GetLoad ==
    /\ apc = "get_load"
    /\ IF addr \in Addr
       THEN val' = mem[addr] /\ apc' = "get_reply"
       ELSE apc' = "fault" /\ UNCHANGED val
    /\ UNCHANGED <<mailbox, ignore, mem, curCmd, ackBuf, addr>>

\* Faulty variant: EXCEPTION_IGNORE is left set.
GetReplyIgnoring ==
    /\ apc = "get_reply"
    /\ arg1' = val
    /\ apc' = "complete"
    /\ UNCHANGED <<state, cmd, arg0, flags, ignore, mem, curCmd, ackBuf, addr, val>>

GetReply ==
    /\ apc = "get_reply"
    /\ arg1' = val
    /\ ignore' = 0
    /\ apc' = "complete"
    /\ UNCHANGED <<state, cmd, arg0, flags, mem, curCmd, ackBuf, addr, val>>

(* MEM_SET.                                                                *)

SetAddr ==
    /\ apc = "set_addr"
    /\ ignore' = 1
    /\ addr' = arg0
    /\ apc' = "set_val"
    /\ UNCHANGED <<mailbox, mem, curCmd, ackBuf, val>>

SetVal ==
    /\ apc = "set_val"
    /\ val' = arg1
    /\ apc' = "set_store"
    /\ UNCHANGED <<mailbox, ignore, mem, curCmd, ackBuf, addr>>

SetStore ==
    /\ apc = "set_store"
    /\ IF addr \in Addr
       THEN /\ mem' = [mem EXCEPT ![addr] = val]
            /\ ignore' = 0
            /\ apc' = "complete"
       ELSE /\ apc' = "fault"
            /\ UNCHANGED <<mem, ignore>>
    /\ UNCHANGED <<mailbox, curCmd, ackBuf, addr, val>>

(* CALL_0.  The callee is whatever code was put at that address: it may    *)
(* rewrite memory, return a value, raise a fault or never return.          *)

CallAddr ==
    /\ apc = "call_addr"
    /\ addr' = arg0
    /\ apc' = "call_zero"
    /\ UNCHANGED <<mailbox, ignore, mem, curCmd, ackBuf, val>>

CallZero ==
    /\ apc = "call_zero"
    /\ arg0' = NullAddr
    /\ apc' = "callee"
    /\ UNCHANGED <<state, cmd, arg1, flags, ignore, mem,
                   curCmd, ackBuf, addr, val>>

CalleeReturns ==
    /\ apc = "callee"
    /\ val' \in Word
    /\ mem' \in [Addr -> Word]
    /\ apc' = "call_reply"
    /\ UNCHANGED <<mailbox, ignore, curCmd, ackBuf, addr>>

CalleeFaults ==
    /\ apc = "callee"
    /\ apc' = "fault"
    /\ UNCHANGED <<mailbox, ignore, mem, curCmd, ackBuf, addr, val>>

CallReply ==
    /\ apc = "call_reply"
    /\ arg1' = val
    /\ apc' = "complete"
    /\ UNCHANGED <<state, cmd, arg0, flags, ignore, mem,
                   curCmd, ackBuf, addr, val>>

(* RETURN: the command register is cleared first and STATE written last.   *)

ReturnClear ==
    /\ apc = "ret_clear"
    /\ cmd' = NoCmd
    /\ apc' = "ret_exit"
    /\ UNCHANGED <<state, arg0, arg1, flags, ignore, mem,
                   curCmd, ackBuf, addr, val>>

ReturnExit ==
    /\ apc = "ret_exit"
    /\ state' = "EXITED"
    /\ apc' = "off"
    /\ UNCHANGED <<cmd, arg0, arg1, flags, ignore, mem,
                   curCmd, ackBuf, addr, val>>

(* _IntHandler_HardFault records the exception.  With EXCEPTION_IGNORE     *)
(* set it steps over the instruction, which for a load leaves whatever the *)
(* register held; otherwise the same instruction runs and faults again.    *)

\* Faulty variant: the EXCEPTION bit is not set.
HardFaultSilent ==
    /\ apc = "fault"
    /\ IF ignore = 1
       THEN /\ ignore' = 0
            /\ \/ curCmd = "MEM_GET" /\ val' \in Word /\ apc' = "get_reply"
               \/ curCmd # "MEM_GET" /\ apc' = "complete" /\ UNCHANGED val
       ELSE UNCHANGED <<ignore, val, apc>>
    /\ UNCHANGED <<state, cmd, arg0, arg1, flags, mem, curCmd, ackBuf, addr>>

\* Faulty variant: it returns to the instruction that faulted.
HardFaultRepeats ==
    /\ apc = "fault"
    /\ flags' = 1
    /\ ignore' = 0
    /\ UNCHANGED <<state, cmd, arg0, arg1, mem, curCmd, ackBuf, addr, val, apc>>

HardFault ==
    /\ apc = "fault"
    /\ flags' = 1
    /\ IF ignore = 1
       THEN /\ ignore' = 0
            /\ \/ curCmd = "MEM_GET" /\ val' \in Word /\ apc' = "get_reply"
               \/ curCmd # "MEM_GET" /\ apc' = "complete" /\ UNCHANGED val
       ELSE UNCHANGED <<ignore, val, apc>>
    /\ UNCHANGED <<state, cmd, arg0, arg1, mem, curCmd, ackBuf, addr>>

-----------------------------------------------------------------------------
AgentCode ==
    \/ StartFlags \/ StartCmd
    \/ Announce \/ Poll \/ AckRead \/ AckWrite
    \/ Dispatch \/ Complete
    \/ GetAddr \/ GetLoad \/ GetReply
    \/ SetAddr \/ SetVal \/ SetStore
    \/ CallAddr \/ CallZero \/ CallReply
    \/ ReturnClear \/ ReturnExit
    \/ HardFault

Callee == CalleeReturns \/ CalleeFaults

AgentNext == AgentCode \/ Callee

=============================================================================
