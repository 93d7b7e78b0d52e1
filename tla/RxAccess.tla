------------------------------ MODULE RxAccess ------------------------------
(***************************************************************************)
(* How the host reads and writes arbitrary addresses of the RX CPU: the    *)
(* inline functions of otg.h and otgdbg's halt, resume, step and cpuinfo.  *)
(*                                                                         *)
(* An address is the index of a word, the byte address divided by four.    *)
(* The functions choose a technique by address; three of the techniques    *)
(* borrow the CPU: they halt it, point it somewhere, and put it back.      *)
(* One access to a register that the CPU or its watchdog also changes is   *)
(* a step.  One otgdbg process runs at a time; it may be killed.           *)
(***************************************************************************)
EXTENDS Integers

CONSTANTS
    Addr,       \* words accessed
    Word,       \* their values
    Fw,         \* what the firmware's registers and its program counter hold
    KnownRom,   \* the techniques whose instruction the ROM has
    Watchdog,   \* TRUE when the watchdog may be enabled
    Windows,    \* TRUE when the w prefix, memory window mode, is used
    Kill        \* TRUE when a process may be killed in an access

ASSUME RxAssumption ==
    /\ Addr \subseteq Nat
    /\ KnownRom \subseteq {"load", "store"}
    /\ Watchdog \in BOOLEAN /\ Windows \in BOOLEAN /\ Kill \in BOOLEAN
    /\ Addr # {} /\ Word # {} /\ Fw # {}
    /\ Word \intersect Addr = {} /\ Fw \intersect (Word \union Nat) = {}

VARIABLES
    mem,        \* the words
    base,       \* the memory window's block
    halt, dog,  \* bits of the RX CPU's mode register: HALT, ENABLE_WATCHDOG
    regs,       \* the CPU's program counter and the registers S6, T6 and T7
    hpc,        \* the process, "off" when there is none
    op,         \* what it does
    target,     \* at which address
    value,      \* with which value
    prefix,     \* and with which prefix on the address
    old,        \* what it saved: mode bits, registers or window block
    res,        \* what the last read returned
    own,        \* history: the registers as the CPU's own execution left them
    wanted,     \* history: HALT as the user last set it
    tampered    \* history: "cut", an access was cut short; "gone", the CPU was
                \* let go with what an access had put in its registers

cpuVars  == <<halt, dog, regs>>
hostVars == <<hpc, op, target, value, prefix, old, res>>
history  == <<own, wanted, tampered>>
vars     == <<mem, base, cpuVars, hostVars, history>>

-----------------------------------------------------------------------------
(* The address map.                                                        *)

REGMEM_BASE == 805306368              \* 0xC0000000
REGMEM_END  == REGMEM_BASE + 8192     \* 0xC0008000
WINDOW_END  == 8192                   \* 0x00008000
APE_BASE    == REGMEM_BASE + 16384    \* 0xC0010000
APE_END     == REGMEM_BASE + 32768    \* 0xC0020000
APE_SET_END == REGMEM_BASE + 2048     \* 0xC0002000, as the setters have it
ROM_START   == 268435456              \* 0x40000000
ROM_END     == ROM_START + 131072     \* 0x40080000

\* Two instructions of the known ROM, lw $t7, 0x20($s6) and sw $t7, 0($t6).
LW == ROM_START + 34                  \* 0x40000088
SW == ROM_START + 14                  \* 0x40000038

InRom(a)    == ROM_START <= a /\ a < ROM_END
InRegs(a)   == REGMEM_BASE <= a /\ a < REGMEM_END
InApe(a)    == APE_BASE <= a /\ a < APE_END

\* Faulty variant: execute-only memory is loaded like SRAM.
GetTechWithoutRom(a) ==
    CASE InRegs(a)        -> "low"
      [] a < WINDOW_END   -> "window"
      [] InApe(a)         -> "high"
      [] OTHER            -> "load"

\* GetRXWord.
GetTech(a) ==
    CASE InRegs(a)        -> "low"
      [] a < WINDOW_END   -> "window"
      [] InApe(a)         -> "high"
      [] InRom(a)         -> "ip"
      [] OTHER            -> "load"

\* SetRXWord.
SetTech(a) ==
    CASE InRegs(a)                          -> "low"
      [] a < WINDOW_END                     -> "window"
      [] APE_BASE <= a /\ a < APE_SET_END   -> "high"
      [] OTHER                              -> "store"

\* By what an access is done: a prefix names the technique.
Technique ==
    CASE prefix = "+" -> "ip"
      [] prefix = "w" -> "block"
      [] prefix = "." -> IF op = "get" THEN "load" ELSE "store"
      [] OTHER        -> IF op = "get" THEN GetTech(target) ELSE SetTech(target)

\* The window shows the block that the base register selects, the two words of
\* each eight bytes swapped.
Block(a)       == a - (a % WINDOW_END)
Offset(a)      == a % WINDOW_END
Swap(a)        == IF a % 2 = 0 THEN a + 1 ELSE a - 1
Window(offset) == base + Swap(offset)

\* What a read finds at an address outside Addr, or by a technique that does
\* not work there, is not known; a write there is lost.
Content(a, works) == IF a \in Addr /\ works THEN {mem[a]} ELSE Word
Store(a, v, works) ==
    mem' = IF a \in Addr /\ works THEN [mem EXCEPT ![a] = v] ELSE mem

Registers == [pc : Fw \union Addr \union {LW, LW + 1, SW, SW + 1},
              s6 : Fw \union Addr, t6 : Fw \union Addr, t7 : Fw \union Word]
Running(f) == [pc |-> f, s6 |-> f, t6 |-> f, t7 |-> f]
HostPc == {"off", "ready", "start", "halt", "save", "point", "fetch",
           "check", "regs", "step", "result", "restore", "unhalt",
           "select", "window", "deselect"}
Op == {"get", "set", "halt", "resume", "step", "cpuinfo"}
Saved == [halt : {0, 1}, dog : {0, 1}, regs : Registers, base : Nat]

\* Locals end with their function.
Nothing == [halt |-> 0, dog |-> 0, regs |-> Running(CHOOSE f \in Fw : TRUE), base |-> 0]

TypeOK ==
    /\ mem \in [Addr -> Word]
    /\ base \in Nat /\ halt \in {0, 1} /\ dog \in {0, 1}
    /\ regs \in Registers
    /\ hpc \in HostPc /\ op \in Op /\ target \in Addr /\ value \in Word
    /\ prefix \in {"none", "+", ".", "w"}
    /\ old \in Saved /\ res \in Word
    /\ own \in {Running(f) : f \in Fw} /\ wanted \in {0, 1}
    /\ tampered \in {"no", "cut", "gone"}

Init ==
    /\ mem \in [Addr -> Word]
    /\ base = 0 /\ halt = 0 /\ dog \in (IF Watchdog THEN {0, 1} ELSE {0})
    /\ \E f \in Fw : own = Running(f)
    /\ regs = own
    /\ hpc = "off" /\ op = "step" /\ prefix = "none"
    /\ target = CHOOSE a \in Addr : TRUE
    /\ value = CHOOSE v \in Word : TRUE
    /\ res = CHOOSE v \in Word : TRUE
    /\ old = Nothing
    /\ wanted = 0 /\ tampered = "no"

-----------------------------------------------------------------------------
(* The CPU.                                                                *)

\* One instruction of the firmware.  A CPU let go with something else in its
\* registers is lost and is of no further interest.
Execute ==
    /\ regs = own
    /\ \E f \in Fw : regs' = Running(f)
    /\ own' = regs'

Run ==
    /\ halt = 0
    /\ Execute
    /\ UNCHANGED <<mem, base, halt, dog, hostVars, wanted, tampered>>

\* Under an access, or after one that was cut short, the watchdog unhalts the
\* CPU.
WatchdogFires ==
    /\ dog = 1 /\ halt = 1
    /\ halt' = 0
    /\ tampered' = "gone"
    /\ UNCHANGED <<mem, base, dog, regs, hostVars, own, wanted>>

-----------------------------------------------------------------------------
(* The process.                                                            *)

Goto(label) == hpc' = label
request     == <<op, target, value, prefix>>
CutShort    == tampered' = IF tampered = "gone" THEN "gone" ELSE "cut"

Launch ==
    /\ hpc = "off"
    /\ Goto("ready")
    /\ UNCHANGED <<mem, base, cpuVars, request, old, res, history>>

\* Killed in the middle of an access, it restores nothing.
Quit ==
    /\ hpc = "ready" \/ (Kill /\ hpc # "off")
    /\ Goto("off")
    /\ old' = Nothing
    /\ IF hpc = "ready" THEN UNCHANGED tampered ELSE CutShort
    /\ UNCHANGED <<mem, base, cpuVars, request, res, own, wanted>>

Begin(o, a, v, p) ==
    /\ hpc = "ready"
    /\ op' = o /\ target' = a /\ value' = v /\ prefix' = p
    /\ old' = Nothing
    /\ Goto("start")
    /\ UNCHANGED <<mem, base, cpuVars, res, history>>

\* get and set, with a plain address or with a prefix.  The operators |=, &=
\* and &=~ of set are a get and a set of the same address.
Get(a)    == \E p \in {"none", "+", ".", "w"} :
                 (p = "w" => Windows) /\ Begin("get", a, value, p)
Set(a, v) == \E p \in {"none", ".", "w"} :
                 (p = "w" => Windows) /\ Begin("set", a, v, p)

Control(o) == Begin(o, target, value, "none")

\* Faulty variant: a write through the window does not undo the swap.
DirectAccessSwapped ==
    /\ hpc = "start" /\ op \in {"get", "set"}
    /\ Technique \in {"low", "window", "high"}
    /\ LET a == CASE Technique # "window" -> target
                  [] Technique = "window" /\ op = "get" -> Window(Swap(target))
                  [] OTHER                -> Window(target)
       IN  IF op = "get"
           THEN res' \in Content(a, TRUE) /\ UNCHANGED mem
           ELSE Store(a, value, TRUE) /\ UNCHANGED res
    /\ Goto("ready")
    /\ UNCHANGED <<base, cpuVars, request, old, history>>

\* The techniques that are a single access, through BAR1/2 or BAR3/4.
DirectAccess ==
    /\ hpc = "start" /\ op \in {"get", "set"}
    /\ Technique \in {"low", "window", "high"}
    /\ LET a == IF Technique = "window" THEN Window(Swap(target)) ELSE target
       IN  IF op = "get"
           THEN res' \in Content(a, TRUE) /\ UNCHANGED mem
           ELSE Store(a, value, TRUE) /\ UNCHANGED res
    /\ Goto("ready")
    /\ UNCHANGED <<base, cpuVars, request, old, history>>

\* GetRXWordViaWindow and SetRXWordViaWindow.
SaveBase ==
    /\ hpc = "start" /\ op \in {"get", "set"} /\ Technique = "block"
    /\ old' = [old EXCEPT !.base = base]
    /\ Goto("select")
    /\ UNCHANGED <<mem, base, cpuVars, request, res, history>>

SelectBlock ==
    /\ hpc = "select"
    /\ base' = Block(target)
    /\ Goto("window")
    /\ UNCHANGED <<mem, cpuVars, request, old, res, history>>

WindowAccess ==
    /\ hpc = "window"
    /\ LET a == Window(Offset(target))
       IN  IF op = "get"
           THEN res' \in Content(a, TRUE) /\ UNCHANGED mem
           ELSE Store(a, value, TRUE) /\ UNCHANGED res
    /\ Goto("deselect")
    /\ UNCHANGED <<base, cpuVars, request, old, history>>

RestoreBase ==
    /\ hpc = "deselect"
    /\ base' = old.base
    /\ Goto("ready")
    /\ UNCHANGED <<mem, cpuVars, request, old, res, history>>

-----------------------------------------------------------------------------
(* The techniques that borrow the CPU, and the commands that control it,   *)
(* begin by reading the mode register.                                     *)

ReadMode ==
    /\ hpc = "start"
    /\ op \in {"get", "set"} => Technique \in {"ip", "load", "store"}
    /\ old' = [old EXCEPT !.halt = halt, !.dog = dog]
    /\ Goto("halt")
    /\ UNCHANGED <<mem, base, cpuVars, request, res, history>>

\* Faulty variant: halt leaves the watchdog on.
WriteModeKeepsDog ==
    /\ hpc = "halt" /\ op \notin {"step", "cpuinfo"}
    /\ halt' = IF op = "resume" THEN 0 ELSE 1
    /\ dog' = old.dog
    /\ wanted' = CASE op = "halt" -> 1 [] op = "resume" -> 0 [] OTHER -> wanted
    /\ tampered' = IF op = "resume" /\ regs # own THEN "gone" ELSE tampered
    /\ Goto(IF op \in {"halt", "resume"} THEN "ready" ELSE "save")
    /\ UNCHANGED <<mem, base, regs, request, old, res, own>>

\* _CmdHalt disables the watchdog; the others write back what they read.
WriteMode ==
    /\ hpc = "halt" /\ op \notin {"step", "cpuinfo"}
    /\ halt' = IF op = "resume" THEN 0 ELSE 1
    /\ dog' = IF op = "halt" THEN 0 ELSE old.dog
    /\ wanted' = CASE op = "halt" -> 1 [] op = "resume" -> 0 [] OTHER -> wanted
    /\ tampered' = IF op = "resume" /\ regs # own THEN "gone" ELSE tampered
    /\ Goto(IF op \in {"halt", "resume"} THEN "ready" ELSE "save")
    /\ UNCHANGED <<mem, base, regs, request, old, res, own>>

\* A single step executes one instruction, the firmware's when the registers
\* are its own.
StepCommand ==
    /\ hpc = "halt" /\ op = "step"
    /\ halt' = old.halt /\ dog' = old.dog
    /\ IF old.halt = 1 /\ regs = own THEN Execute ELSE UNCHANGED <<regs, own>>
    /\ tampered' = IF old.halt = 1 /\ regs # own THEN "gone" ELSE tampered
    /\ Goto("ready")
    /\ UNCHANGED <<mem, base, request, old, res, wanted>>

\* _CmdCPUInfo halts a running CPU while it reads the registers.
InfoHalts ==
    /\ hpc = "halt" /\ op = "cpuinfo"
    /\ IF old.halt = 0
       THEN halt' = 1 /\ dog' = old.dog /\ Goto("unhalt")
       ELSE UNCHANGED <<halt, dog>> /\ Goto("ready")
    /\ UNCHANGED <<mem, base, regs, request, old, res, history>>

SaveRegisters ==
    /\ hpc = "save"
    /\ old' = [old EXCEPT !.regs = regs]
    /\ Goto("point")
    /\ UNCHANGED <<mem, base, cpuVars, request, res, history>>

\* The program counter goes to the address itself, or to a load or a store
\* instruction in the ROM.
Instruction == IF Technique = "load" THEN LW
               ELSE IF Technique = "store" THEN SW ELSE target

PointIP ==
    /\ hpc = "point"
    /\ regs' = [regs EXCEPT !.pc = Instruction]
    /\ Goto(IF Technique = "ip" THEN "fetch" ELSE "check")
    /\ UNCHANGED <<mem, base, halt, dog, request, old, res, history>>

\* Only the ROM can be read through the instruction fetch for sure.
FetchWord ==
    /\ hpc = "fetch"
    /\ res' \in Content(target, InRom(target))
    /\ Goto("restore")
    /\ UNCHANGED <<mem, base, cpuVars, request, old, history>>

\* Faulty variant: an unknown ROM ends the access with the mode put back, the
\* program counter left on the instruction.
CheckInstructionLetsGo ==
    /\ hpc = "check"
    /\ IF Technique \in KnownRom
       THEN Goto("regs") /\ UNCHANGED <<res, halt, dog, tampered>>
       ELSE /\ Goto("ready")
            /\ res' \in (IF op = "get" THEN Word ELSE {res})
            /\ halt' = old.halt /\ dog' = old.dog
            /\ CutShort
    /\ UNCHANGED <<mem, base, regs, request, old, own, wanted>>

\* An unknown ROM ends the access here, with nothing put back.
CheckInstruction ==
    /\ hpc = "check"
    /\ IF Technique \in KnownRom
       THEN Goto("regs") /\ UNCHANGED <<res, tampered>>
       ELSE /\ Goto("ready")
            /\ res' \in (IF op = "get" THEN Word ELSE {res})
            /\ CutShort
    /\ UNCHANGED <<mem, base, cpuVars, request, old, own, wanted>>

\* Faulty variant: the store's two registers are exchanged.
LoadRegistersExchanged ==
    /\ hpc = "regs"
    /\ regs' = IF Technique = "load"
               THEN [regs EXCEPT !.s6 = target]
               ELSE [regs EXCEPT !.t6 = value, !.t7 = target]
    /\ Goto("step")
    /\ UNCHANGED <<mem, base, halt, dog, request, old, res, history>>

LoadRegisters ==
    /\ hpc = "regs"
    /\ regs' = IF Technique = "load"
               THEN [regs EXCEPT !.s6 = target]
               ELSE [regs EXCEPT !.t6 = target, !.t7 = value]
    /\ Goto("step")
    /\ UNCHANGED <<mem, base, halt, dog, request, old, res, history>>

\* HALT and SINGLE_STEP: the instruction is executed.  Data accesses to the
\* ROM do not work.
SingleStep ==
    /\ hpc = "step"
    /\ halt' = 1 /\ dog' = old.dog
    /\ \/ /\ regs.pc = LW /\ regs.s6 \in Addr
          /\ \E v \in Content(regs.s6, ~InRom(regs.s6)) :
                 regs' = [regs EXCEPT !.t7 = v, !.pc = LW + 1]
          /\ UNCHANGED mem
       \/ /\ regs.pc = SW /\ regs.t6 \in Addr
          /\ Store(regs.t6, regs.t7, ~InRom(regs.t6))
          /\ regs' = [regs EXCEPT !.pc = SW + 1]
    /\ Goto(IF Technique = "load" THEN "result" ELSE "restore")
    /\ UNCHANGED <<base, request, old, res, history>>

TakeResult ==
    /\ hpc = "result"
    /\ res' = regs.t7
    /\ Goto("restore")
    /\ UNCHANGED <<mem, base, cpuVars, request, old, history>>

\* Each technique puts back the registers it has used.
PutBack ==
    [pc |-> old.regs.pc,
     s6 |-> IF Technique = "load"  THEN old.regs.s6 ELSE regs.s6,
     t6 |-> IF Technique = "store" THEN old.regs.t6 ELSE regs.t6,
     t7 |-> IF Technique = "ip"    THEN regs.t7 ELSE old.regs.t7]

\* Faulty variant: a forced store leaves its value in T7.
RestoreRegistersPartly ==
    /\ hpc = "restore"
    /\ regs' = [PutBack EXCEPT !.t7 = IF Technique = "store" THEN regs.t7 ELSE @]
    /\ Goto("unhalt")
    /\ UNCHANGED <<mem, base, halt, dog, request, old, res, history>>

RestoreRegisters ==
    /\ hpc = "restore"
    /\ regs' = PutBack
    /\ Goto("unhalt")
    /\ UNCHANGED <<mem, base, halt, dog, request, old, res, history>>

RestoreMode ==
    /\ hpc = "unhalt"
    /\ halt' = old.halt /\ dog' = old.dog
    /\ Goto("ready")
    /\ UNCHANGED <<mem, base, regs, request, old, res, history>>

-----------------------------------------------------------------------------
Access ==
    \/ DirectAccess
    \/ SaveBase \/ SelectBlock \/ WindowAccess \/ RestoreBase
    \/ ReadMode \/ WriteMode \/ StepCommand \/ InfoHalts
    \/ SaveRegisters \/ PointIP \/ FetchWord \/ CheckInstruction
    \/ LoadRegisters \/ SingleStep \/ TakeResult \/ RestoreRegisters \/ RestoreMode

Choose ==
    \/ Launch \/ Quit
    \/ \E a \in Addr : Get(a) \/ \E v \in Word : Set(a, v)
    \/ \E o \in {"halt", "resume", "step", "cpuinfo"} : Control(o)

Next == Run \/ WatchdogFires \/ Access \/ Choose

Spec == Init /\ [][Next]_vars

-----------------------------------------------------------------------------
\* The process has the CPU halted.
Borrowing == {"save", "point", "fetch", "check", "regs", "step", "result",
              "restore", "unhalt"}

AtRest == hpc \in {"off", "ready"}

\* The functions of otg.h restore what they borrow: whenever the CPU runs, its
\* registers are those its own execution left, and between two accesses the
\* CPU is halted exactly if the user halted it and the window is at block 0,
\* as GetRXWordWindow assumes.  This lasts until an access is cut short, by a
\* kill or on an unknown ROM, or the watchdog lets the CPU go under it.
StateIsRestored ==
    tampered = "no" =>
        /\ halt = 0 => regs = own
        /\ AtRest => regs = own /\ halt = wanted /\ base = 0

\* A CPU that otgdbg halt has halted stays halted until it is resumed, though
\* the watchdog unhalts CPUs, and though accesses and cpuinfo, which put the
\* mode register back, come in between or are killed on the way.
HaltHolds == wanted = 1 => halt = 1

\* An access that is killed, or that finds an unknown ROM, leaves the CPU halted
\* with the access's own values in its registers.  It then stays halted: later
\* accesses and cpuinfo save the halt they find and put that back, however they
\* end themselves.  Only the user, by resume or step, or the watchdog lets such
\* a CPU go.
OnlyUserLetsGo == tampered # "gone" /\ halt = 0 => regs = own

\* GetRXWord returns the word, whichever technique the address needs; a forced
\* load returns it outside the ROM and a fetch in it.  As above, accesses that
\* were cut short end the promise.
ReadsTheWord ==
    /\ AtRest /\ op = "get" /\ tampered = "no"
    /\ \/ prefix = "none"
       \/ prefix = "+" /\ InRom(target)
       \/ prefix = "." /\ ~InRom(target)
    => res = mem[target]

\* SetRXWord and the forced store leave the value in the word, unless it is
\* ROM.
WritesTheWord ==
    AtRest /\ op = "set" /\ prefix # "w" /\ ~InRom(target) /\ tampered = "no"
        => mem[target] = value

\* "Get APE (or higher) word. [...] If we are on the host we have to use BAR3/4
\* to access this space." (otg.h:731-733): an access to an APE register by its
\* plain address does not stop the RX CPU.
ApeAccessBorrowsNothing ==
    hpc \in Borrowing /\ op \in {"get", "set"} /\ prefix = "none" => ~InApe(target)

-----------------------------------------------------------------------------
(* Inductive invariants.                                                   *)

\* The forced access executes its own instruction on its own operands: from
\* PointIP to RestoreRegisters the registers hold what it put there.
StepInv ==
    /\ \/ hpc = "halt" /\ op \in {"get", "set"}
       \/ hpc \in {"save", "point"}
       => Technique \in {"ip", "load", "store"}
    /\ hpc = "fetch" => Technique = "ip"
    /\ hpc = "result" => Technique = "load"
    /\ hpc \in {"check", "regs", "step"} =>
           Technique \in {"load", "store"} /\ regs.pc = Instruction
    /\ hpc = "step" => IF Technique = "load"
                       THEN regs.s6 = target
                       ELSE regs.t6 = target /\ regs.t7 = value
    /\ hpc = "result" => regs.pc = LW + 1 /\ regs.t7 \in Word

\* A halted CPU's mode register is saved halted, with the watchdog off, by
\* every function that writes back what it saved.
HaltInv ==
    wanted = 1 =>
        /\ halt = 1 /\ dog = 0
        /\ hpc \in Borrowing \union {"halt"} => old.halt = 1 /\ old.dog = 0

\* What an access has borrowed it has saved: the registers the CPU's execution
\* left are the present ones with those put back that RestoreRegisters puts
\* back.
BorrowInv ==
    /\ hpc \notin Borrowing => regs = own /\ halt = wanted
    /\ hpc \in Borrowing => halt = 1
    /\ hpc \in Borrowing \union {"halt"} => old.halt = wanted
    /\ hpc \in {"save", "point", "unhalt"} => regs = own
    /\ hpc \in {"point", "fetch", "check", "regs", "step", "result", "restore"} =>
           /\ old.regs = own
           /\ own = PutBack
    /\ IF hpc \in {"select", "window", "deselect"} THEN old.base = 0 ELSE base = 0

\* An access that has found the CPU running has saved the registers its
\* execution left, even after others were cut short; one that has found it
\* halted leaves it so.
LetGoInv ==
    /\ hpc \notin Borrowing => (halt = 0 => regs = own)
    /\ hpc \in Borrowing => halt = 1
    /\ hpc = "halt" => old.halt = halt
    /\ old.halt = 0 =>
           /\ hpc \in {"save", "point", "unhalt"} => regs = own
           /\ hpc \in {"point", "fetch", "check", "regs", "step", "result", "restore"} =>
                  /\ old.regs = own
                  /\ own = PutBack

\* What an access has done before it gives back what it has borrowed.
AccessInv ==
    /\ op = "set" => prefix # "+"
    /\ hpc \in {"select", "window", "deselect"} => prefix = "w"
    /\ hpc \in {"restore", "unhalt"} /\ op \in {"get", "set"}
           => Technique \in {"ip", "load", "store"}
    /\ hpc = "result" /\ ~InRom(target) => regs.t7 = mem[target]
    /\ hpc \in {"restore", "unhalt"} /\ op = "get"
           /\ (Technique = "ip" <=> InRom(target)) => res = mem[target]
    /\ hpc \in {"restore", "unhalt"} /\ op = "set" /\ ~InRom(target)
           => mem[target] = value
    /\ ReadsTheWord /\ WritesTheWord

=============================================================================
