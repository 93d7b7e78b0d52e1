------------------------------ MODULE ApeBoot ------------------------------
(***************************************************************************)
(* How the APE gets its shell and loses it: otgdbg's bootapeloader,        *)
(* bootape, bootapeshell and apereset commands, composed with the shell,   *)
(* its clients (ApeShell) and what the APE runs otherwise.  One otgdbg     *)
(* process runs at a time, a boot command or a client, and it can be       *)
(* killed anywhere.  The boot ROM and the APE's own firmware are not part  *)
(* of the repository; they are modelled by what the commands rely on.      *)
(***************************************************************************)
EXTENDS ApeShell

VARIABLES
    cpu,        \* what the APE CPU is doing
    fastBoot,   \* the FAST_BOOT bit of its mode register
    ready,      \* SEG_SIG holds the firmware's magic and FW_STATUS is ready
    event,      \* an event is pending for the firmware
    patched,    \* the firmware's event handler jumps to the shellcode
    caller,     \* who started the agent: the ROM or the firmware's handler
    bpc,        \* program counter of the boot command, "off" when none runs
    bprog       \* which one it is

apeVars  == <<cpu, fastBoot, ready, event, patched, caller>>
cmdVars  == <<bpc, bprog>>
bootVars == <<vars, apeVars, cmdVars>>

BootProgram == {"bootapeloader", "bootape", "bootapeshell", "apereset"}
BootPc == {"off", "halt", "signature", "check", "return", "vector", "state",
           "clear", "args", "inject", "send", "release"}

BootTypeOK ==
    /\ TypeOK
    /\ cpu \in {"halted", "rom", "firmware", "shell"}
    /\ fastBoot \in {0, 1} /\ ready \in {0, 1} /\ event \in {0, 1}
    /\ patched \in {0, 1} /\ caller \in {"rom", "firmware"}
    /\ bpc \in BootPc /\ bprog \in BootProgram

\* The firmware from NVM has come up; no shell was ever started.
BootInit ==
    /\ state = "zero" /\ cmd = NoCmd /\ flags = 0
    /\ arg0 = NullAddr /\ arg1 = ZeroWord
    /\ ignore \in {0, 1}
    /\ mem \in [Addr -> Word]
    /\ apc = "off" /\ curCmd = "NONE" /\ ackBuf = NoCmd
    /\ addr = NullAddr /\ val = ZeroWord
    /\ hpc = [c \in Client |-> "off"]
    /\ prog = [c \in Client |-> "access"]
    /\ hop = [c \in Client |-> "NONE"]
    /\ haddr = [c \in Client |-> NullAddr]
    /\ hval = [c \in Client |-> ZeroWord]
    /\ res = [c \in Client |-> AllOnes]
    /\ warned = {}
    /\ wrote = [c \in Client |-> [a \in Address |-> Unwritten]]
    /\ cpu = "firmware" /\ fastBoot = 0 /\ ready = 1 /\ event = 0
    /\ patched = 0 /\ caller = "rom"
    /\ bpc = "off" /\ bprog = "apereset"

-----------------------------------------------------------------------------
(* The APE.                                                                *)

agentRest == <<curCmd, ackBuf, addr, val, ignore>>

\* The agent is started with the event status cleared, its first statement.
StartAgent(from) ==
    /\ cpu' = "shell" /\ apc' = "start_flags" /\ caller' = from /\ event' = 0
    /\ UNCHANGED <<mailbox, agentRest, hostVars, fastBoot, cmdVars>>

\* Out of reset with FAST_BOOT the ROM jumps to the image whose address the
\* command left in GPIO_MSG ...
RomFastBoots ==
    /\ cpu = "rom" /\ fastBoot = 1
    /\ StartAgent("rom")
    /\ mem' \in [Addr -> Word]
    /\ UNCHANGED <<ready, patched>>

\* ... and without it loads the firmware from NVM.
RomLoadsFirmware ==
    /\ cpu = "rom" /\ fastBoot = 0
    /\ cpu' = "firmware" /\ ready' = 1 /\ patched' = 0
    /\ mem' \in [Addr -> Word]
    /\ UNCHANGED <<mailbox, agentVars, hostVars, fastBoot, event, caller, cmdVars>>

\* The firmware's handler for the event calls the patched function.
FirmwareServes ==
    /\ cpu = "firmware" /\ event = 1 /\ patched = 1
    /\ StartAgent("firmware")
    /\ UNCHANGED <<mem, ready, patched>>

\* The image called by CALL_0 is an APE firmware: it never returns.
CalleeTakesOver ==
    /\ apc = "callee"
    /\ apc' = "off" /\ cpu' = "firmware" /\ ready' = 1 /\ patched' = 0
    /\ mem' \in [Addr -> Word]
    /\ UNCHANGED <<mailbox, agentRest, hostVars, fastBoot, event, caller, cmdVars>>

\* An agent that returns goes back to where it was started from.
BootAgent ==
    /\ cpu = "shell"
    /\ AgentStep
    /\ cpu' = IF apc' = "off" THEN caller ELSE cpu
    /\ UNCHANGED <<fastBoot, ready, event, patched, caller, cmdVars>>

Ape == BootAgent \/ RomFastBoots \/ RomLoadsFirmware \/ FirmwareServes \/ CalleeTakesOver

-----------------------------------------------------------------------------
(* The boot commands.  The steps of _BootAPELoader, _CmdBootAPEShell and   *)
(* _CmdAPEReset that do the same thing are one action.                     *)

Step(label) == bpc' = label /\ UNCHANGED bprog
apeSide     == <<mem, agentVars, apeVars>>

LaunchBoot(p) ==
    /\ bpc = "off" /\ \A c \in Client : hpc[c] = "off"
    /\ bprog' = p
    /\ bpc' = IF p = "bootapeshell" THEN "check" ELSE "halt"
    /\ UNCHANGED <<mailbox, apeSide, hostVars>>

KillBoot ==
    /\ bpc # "off"
    /\ Step("off")
    /\ UNCHANGED <<mailbox, apeSide, hostVars>>

\* Faulty variant: FAST_BOOT is added instead of or-ed in.
BootHaltAdds ==
    /\ bpc = "halt"
    /\ cpu' = "halted" /\ apc' = "off"
    /\ fastBoot' = IF bprog = "apereset" THEN 0 ELSE fastBoot + 1
    /\ Step("signature")
    /\ UNCHANGED <<mailbox, mem, agentRest, hostVars, ready, event, patched, caller>>

\* Clearing HALT again resets the CPU, so the agent's place in its code is
\* lost as soon as it is set.
BootHalt ==
    /\ bpc = "halt"
    /\ cpu' = "halted" /\ apc' = "off"
    /\ fastBoot' = IF bprog = "apereset" THEN 0 ELSE 1
    /\ Step("signature")
    /\ UNCHANGED <<mailbox, mem, agentRest, hostVars, ready, event, patched, caller>>

\* SEG_SIG is overwritten; apereset clears EVENT_STATUS and FW_STATUS too.
BootSignature ==
    /\ bpc = "signature"
    /\ ready' = 0
    /\ event' = IF bprog = "apereset" THEN 0 ELSE event
    /\ Step(IF bprog = "apereset" THEN "state" ELSE "return")
    /\ UNCHANGED <<mailbox, mem, agentVars, hostVars, cpu, fastBoot, patched, caller>>

\* Faulty variant: SEG_SIG and FW_STATUS are not looked at.
CheckFirmwareBlind ==
    /\ bpc = "check"
    /\ Step("return")
    /\ UNCHANGED <<mailbox, apeSide, hostVars>>

CheckFirmware ==
    /\ bpc = "check"
    /\ Step(IF ready = 1 THEN "return" ELSE "off")
    /\ UNCHANGED <<mailbox, apeSide, hostVars>>

PostReturn ==
    /\ bpc = "return"
    /\ cmd' = Request("RETURN")
    /\ Step(IF bprog = "bootapeshell" THEN "vector" ELSE "state")
    /\ UNCHANGED <<state, arg0, arg1, flags, apeSide, hostVars>>

\* Reading the injection vector takes an answer from the firmware, so it fails
\* while a shell has the CPU, and it does not find known code once patched.
FindVector ==
    /\ bpc = "vector"
    /\ \/ cpu = "firmware" /\ patched = 0 /\ Step("state")
       \/ Step("off")
    /\ UNCHANGED <<mailbox, apeSide, hostVars>>

\* Faulty variant: apereset leaves APEDBG_STATE alone.
PutStateKeeps ==
    /\ bpc = "state"
    /\ state' = IF bprog = "apereset" THEN state ELSE "boot"
    /\ Step(IF bprog = "apereset" THEN "release" ELSE "clear")
    /\ UNCHANGED <<cmd, arg0, arg1, flags, apeSide, hostVars>>

PutState ==
    /\ bpc = "state"
    /\ state' = IF bprog = "apereset" THEN "zero" ELSE "boot"
    /\ Step(IF bprog = "apereset" THEN "release" ELSE "clear")
    /\ UNCHANGED <<cmd, arg0, arg1, flags, apeSide, hostVars>>

ClearCmd ==
    /\ bpc = "clear"
    /\ cmd' = NoCmd
    /\ Step("args")
    /\ UNCHANGED <<state, arg0, arg1, flags, apeSide, hostVars>>

\* No agent runs here, so the three writes need no steps of their own.
ClearArgs ==
    /\ bpc = "args"
    /\ arg0' = NullAddr /\ arg1' = ZeroWord /\ flags' = 0
    /\ Step(IF bprog = "bootapeshell" THEN "inject" ELSE "release")
    /\ UNCHANGED <<state, cmd, apeSide, hostVars>>

Inject ==
    /\ bpc = "inject"
    /\ patched' = 1
    /\ Step("send")
    /\ UNCHANGED <<mailbox, mem, agentVars, hostVars,
                   cpu, fastBoot, ready, event, caller>>

\* LockAPEEvent may time out.
SendEvent ==
    /\ bpc = "send"
    /\ event' \in {event, 1}
    /\ Step("off")
    /\ UNCHANGED <<mailbox, mem, agentVars, hostVars,
                   cpu, fastBoot, ready, patched, caller>>

\* The CPU leaves reset.  bootape goes on to _ChainAPE in the same process.
Release ==
    /\ bpc = "release"
    /\ cpu' = "rom"
    /\ Step("off")
    /\ IF bprog = "bootape"
       THEN \E c \in Client : /\ Goto(c, "chain_wait")
                              /\ prog' = [prog EXCEPT ![c] = "chain"]
       ELSE UNCHANGED <<hpc, prog>>
    /\ UNCHANGED <<mailbox, mem, agentVars, hop, haddr, hval, res, warned, wrote,
                   fastBoot, ready, event, patched, caller>>

BootSteps ==
    \/ BootHalt \/ BootSignature \/ CheckFirmware \/ PostReturn \/ FindVector
    \/ PutState \/ ClearCmd \/ ClearArgs \/ Inject \/ SendEvent \/ Release

BootCommand == BootSteps \/ KillBoot \/ \E p \in BootProgram : LaunchBoot(p)

ClientStep(c) == /\ bpc = "off"
                 /\ Advance(c) \/ Choose(c)
                 /\ UNCHANGED <<apeVars, cmdVars>>

-----------------------------------------------------------------------------
BootNext == Ape \/ BootCommand \/ \E c \in Client : ClientStep(c)

BootSpec == BootInit /\ [][BootNext]_bootVars

\* The APE runs unless halted; the firmware serves its events.
BootFairSpec ==
    /\ BootSpec
    /\ WF_bootVars(cpu = "shell" /\ AgentCode /\ BootAgent)
    /\ WF_bootVars(RomFastBoots \/ RomLoadsFirmware \/ FirmwareServes)

-----------------------------------------------------------------------------
\* A client posts a command when it has seen RUNNING and a clear CMD.  Unless a
\* boot command was killed while it had the CPU halted, there is then an agent,
\* whatever was booted, chained, returned from or reset before: the commands
\* withdraw RUNNING before they clear CMD and before they let the CPU go.
ReadyMeansAgent ==
    state = "RUNNING" /\ cmd = NoCmd /\ cpu # "halted" => cpu = "shell"

\* The loader that a command has let go announces itself, unless it is halted.
LoaderComesUp ==
    (cpu = "rom" /\ fastBoot = 1) ~> (state = "RUNNING" \/ cpu = "halted")

\* bootapeshell's first RETURN gives the APE back to the firmware when the
\* agent is idle, and so lets the vector be read.
IdleAgentReturns ==
    (apc \in {"announce", "poll"} /\ cmd = Request("RETURN"))
        ~> (cpu = "firmware" \/ cpu = "halted")

\* APEShellStart returns only where it was called: RETURN is never executed by
\* an agent that the ROM jumped to, whose return address is nothing.
ReturnHasACaller ==
    apc \in {"ret_clear", "ret_exit"} => caller = "firmware"

=============================================================================
