--------------------------- MODULE RxAccessProofs ---------------------------
(***************************************************************************)
(* What RxAccess promises, for every set of words, values and registers:   *)
(* the types with the operands of a forced access, that a halt holds, and  *)
(* that what is borrowed is given back.                                    *)
(***************************************************************************)
EXTENDS RxAccess, TLAPS

\* The addresses of the two instructions.
LEMMA Instructions == LW \in Nat /\ SW \in Nat /\ LW # SW
BY DEF LW, SW, ROM_START

\* A technique is one of those that the functions of otg.h implement, and a
\* step that leaves the request alone leaves it alone.
LEMMA TechniqueType ==
    Technique \in {"low", "window", "high", "ip", "load", "store", "block"}
BY DEF Technique, GetTech, SetTech

\* See above.
LEMMA TechniqueSame ==
    ASSUME UNCHANGED request PROVE Technique' = Technique
BY DEF Technique, request

-----------------------------------------------------------------------------
(* Types.                                                                  *)

TypeInv == TypeOK /\ StepInv

\* The registers of a running CPU are registers.
LEMMA RunningType == \A f \in Fw : Running(f) \in Registers
BY DEF Running, Registers

\* Nothing is a value of the locals.
LEMMA NothingType == Nothing \in Saved
BY RunningType, RxAssumption DEF Nothing, Saved

\* Init establishes the type invariant.
LEMMA TypeInit == Init => TypeInv
BY RunningType, NothingType, RxAssumption
   DEF Init, TypeInv, TypeOK, StepInv, HostPc, Op

\* Reading a word gives a word, writing one keeps a memory.
LEMMA MemoryType ==
    ASSUME TypeOK, NEW a, NEW v \in Word, NEW w
    PROVE  /\ Content(a, w) \subseteq Word
           /\ Store(a, v, w) => mem' \in [Addr -> Word]
BY DEF TypeOK, Content, Store

\* Every step preserves the type invariant.
LEMMA TypeStep == TypeInv /\ [Next]_vars => TypeInv'
<1> SUFFICES ASSUME TypeInv, [Next]_vars PROVE TypeInv'
    OBVIOUS
<1> USE TechniqueSame, Instructions
        DEF TypeInv, TypeOK, StepInv, HostPc, Op, Goto, request, cpuVars,
            hostVars, history, vars, Instruction, CutShort
<1>1. CASE UNCHANGED vars
    BY <1>1
<1>2. CASE Run
    <2>1. hpc \notin {"check", "regs", "step", "result"}
        BY <1>2, RxAssumption DEF Run, Execute, Running
    <2> QED
        BY <1>2, <2>1, RunningType DEF Run, Execute
<1>3. CASE WatchdogFires
    BY <1>3 DEF WatchdogFires
<1>4. CASE DirectAccess
    BY <1>4, MemoryType DEF DirectAccess
<1>5. CASE SaveBase
    BY <1>5 DEF SaveBase, Saved
<1>6. CASE SelectBlock
    BY <1>6, RxAssumption DEF SelectBlock, Block, WINDOW_END
<1>7. CASE WindowAccess
    BY ZenonT(30), <1>7, MemoryType DEF WindowAccess
<1>8. CASE RestoreBase
    BY <1>8 DEF RestoreBase, Saved
<1>9. CASE ReadMode
    BY ZenonT(30), <1>9 DEF ReadMode, Saved
<1>10. CASE WriteMode
    BY <1>10 DEF WriteMode, Saved
<1>11. CASE StepCommand
    BY <1>11, RunningType DEF StepCommand, Execute, Saved
<1>12. CASE InfoHalts
    BY <1>12 DEF InfoHalts, Saved
<1>13. CASE SaveRegisters
    BY <1>13 DEF SaveRegisters, Saved
<1>14. CASE PointIP
    BY <1>14, TechniqueType DEF PointIP, Registers
<1>15. CASE FetchWord
    BY <1>15, MemoryType DEF FetchWord
<1>16. CASE CheckInstruction
    BY <1>16 DEF CheckInstruction
<1>17. CASE LoadRegisters
    <2>1. CASE Technique = "load"
        <3>1. /\ regs' = [regs EXCEPT !.s6 = target]
              /\ hpc' = "step" /\ Technique' = "load"
              /\ regs.pc = LW
            BY <1>17, <2>1 DEF LoadRegisters
        <3>2. regs' \in Registers /\ regs'.pc = LW /\ regs'.s6 = target
            BY <3>1 DEF Registers
        <3> QED
            BY <1>17, <3>1, <3>2 DEF LoadRegisters
    <2>2. CASE Technique = "store"
        <3>1. /\ regs' = [regs EXCEPT !.t6 = target, !.t7 = value]
              /\ hpc' = "step" /\ Technique' = "store"
              /\ regs.pc = SW
            BY <1>17, <2>2 DEF LoadRegisters
        <3>2. /\ regs' \in Registers /\ regs'.pc = SW
              /\ regs'.t6 = target /\ regs'.t7 = value
            BY <3>1 DEF Registers
        <3> QED
            BY <1>17, <3>1, <3>2 DEF LoadRegisters
    <2> QED
        BY <1>17, <2>1, <2>2 DEF LoadRegisters
<1>18. CASE SingleStep
    <2>1. /\ halt' = 1 /\ dog' = old.dog /\ UNCHANGED <<base, request, old, res, history>>
          /\ hpc' = IF Technique = "load" THEN "result" ELSE "restore"
          /\ Technique' = Technique
        BY <1>18 DEF SingleStep
    <2>2. CASE Technique = "load"
        <3>1. /\ regs.pc = LW
              /\ UNCHANGED mem
              /\ \E v \in Word : regs' = [regs EXCEPT !.t7 = v, !.pc = LW + 1]
            BY <1>18, <2>2, MemoryType DEF SingleStep
        <3>2. regs' \in Registers /\ regs'.pc = LW + 1 /\ regs'.t7 \in Word
            BY <3>1 DEF Registers
        <3> QED
            BY <2>1, <2>2, <3>1, <3>2 DEF Saved
    <2>3. CASE Technique = "store"
        <3>1. /\ regs.pc = SW /\ regs.t7 = value
              /\ Store(regs.t6, regs.t7, ~InRom(regs.t6))
              /\ regs' = [regs EXCEPT !.pc = SW + 1]
            BY <1>18, <2>3 DEF SingleStep
        <3>2. regs' \in Registers
            BY <3>1 DEF Registers
        <3>3. mem' \in [Addr -> Word]
            BY <3>1, MemoryType
        <3> QED
            BY <2>1, <2>3, <3>2, <3>3 DEF Saved
    <2> QED
        BY <1>18, <2>2, <2>3 DEF SingleStep
<1>19. CASE TakeResult
    BY <1>19 DEF TakeResult
<1>20. CASE RestoreRegisters
    BY <1>20 DEF RestoreRegisters, PutBack, Saved, Registers
<1>21. CASE RestoreMode
    BY <1>21 DEF RestoreMode, Saved
<1>22. CASE Launch \/ Quit
    BY <1>22, NothingType DEF Launch, Quit
<1>23. CASE \E a \in Addr : Get(a) \/ \E v \in Word : Set(a, v)
    BY <1>23, NothingType DEF Get, Set, Begin
<1>24. CASE \E o \in {"halt", "resume", "step", "cpuinfo"} : Control(o)
    BY <1>24, NothingType DEF Control, Begin
<1> QED
    BY <1>1, <1>2, <1>3, <1>4, <1>5, <1>6, <1>7, <1>8, <1>9, <1>10, <1>11,
       <1>12, <1>13, <1>14, <1>15, <1>16, <1>17, <1>18, <1>19, <1>20, <1>21,
       <1>22, <1>23, <1>24 DEF Next, Access, Choose

\* The registers, the locals and the words keep their types, and a forced
\* access executes the instruction and the operands it has put in the CPU's
\* registers, whatever the watchdog and kills do.
THEOREM TypeCorrect == Spec => [](TypeOK /\ StepInv)
<1>1. Init => TypeInv
    BY TypeInit
<1>2. TypeInv /\ [Next]_vars => TypeInv'
    BY TypeStep
<1> QED
    BY <1>1, <1>2, PTL DEF Spec, TypeInv

-----------------------------------------------------------------------------
(* The halt.                                                               *)

\* otgdbg halt holds, whatever the watchdog, kills and later accesses do,
\* because it disables the watchdog and every function that changes the mode
\* register puts it back as it was.
THEOREM HaltCorrect == Spec => []HaltHolds
<1>1. Init => HaltInv
    BY DEF Init, HaltInv
<1>2. TypeOK /\ HaltInv /\ [Next]_vars => HaltInv'
    <2> SUFFICES ASSUME TypeOK, HaltInv, [Next]_vars PROVE HaltInv'
        OBVIOUS
    <2> USE DEF TypeOK, HaltInv, Borrowing, Goto, request, cpuVars, hostVars,
                history, vars, Saved
    <2>1. CASE UNCHANGED vars \/ Run \/ WatchdogFires
        BY <2>1 DEF Run, Execute, WatchdogFires
    <2>2. CASE DirectAccess \/ SaveBase \/ SelectBlock \/ WindowAccess \/ RestoreBase
        BY <2>2 DEF DirectAccess, SaveBase, SelectBlock, WindowAccess, RestoreBase
    <2>3. CASE ReadMode
        BY <2>3 DEF ReadMode
    <2>4. CASE WriteMode
        <3>1. CASE op \in {"halt", "resume"}
            BY <2>4, <3>1 DEF WriteMode
        <3>2. CASE op \in {"get", "set"}
            BY <2>4, <3>2 DEF WriteMode
        <3> QED
            BY <2>4, <3>1, <3>2 DEF WriteMode, Op
    <2>5. CASE StepCommand \/ InfoHalts
        BY <2>5 DEF StepCommand, InfoHalts
    <2>6. CASE SaveRegisters \/ PointIP \/ FetchWord \/ CheckInstruction
        BY <2>6 DEF SaveRegisters, PointIP, FetchWord, CheckInstruction
    <2>7. CASE LoadRegisters \/ SingleStep \/ TakeResult
        BY <2>7 DEF LoadRegisters, SingleStep, TakeResult
    <2>8. CASE RestoreRegisters \/ RestoreMode
        BY <2>8 DEF RestoreRegisters, RestoreMode
    <2>9. CASE Choose
        BY <2>9 DEF Choose, Launch, Quit, Get, Set, Control, Begin
    <2> QED
        BY <2>1, <2>2, <2>3, <2>4, <2>5, <2>6, <2>7, <2>8, <2>9 DEF Next, Access
<1>3. HaltInv => HaltHolds
    BY DEF HaltInv, HaltHolds
<1> QED
    BY <1>1, <1>2, <1>3, TypeCorrect, PTL DEF Spec

-----------------------------------------------------------------------------
(* What is borrowed is given back.                                         *)

\* What has been cut short stays so.
LEMMA TamperedStays ==
    ASSUME [Next]_vars
    PROVE  /\ tampered # "no" => tampered' # "no"
           /\ tampered = "gone" => tampered' = "gone"
BY DEF CutShort, Next, vars, history, Run, WatchdogFires, Access, DirectAccess, SaveBase,
       SelectBlock, WindowAccess, RestoreBase, ReadMode, WriteMode, StepCommand,
       InfoHalts, SaveRegisters, PointIP, FetchWord, CheckInstruction,
       LoadRegisters, SingleStep, TakeResult, RestoreRegisters, RestoreMode,
       Choose, Launch, Quit, Get, Set, Control, Begin

\* Until an access is killed, is cut short by an unknown ROM or has the CPU let
\* go by the watchdog under it, every access gives back the registers, the mode
\* and the window it has borrowed, and the CPU never runs with registers that
\* are not its own.
LEMMA Borrowed == Spec => [](TypeInv /\ (tampered = "no" => BorrowInv))
<1>1. Init => BorrowInv
    BY DEF Init, BorrowInv, Nothing, Borrowing
<1>2. TypeInv /\ (tampered = "no" => BorrowInv) /\ [Next]_vars => (tampered = "no" => BorrowInv)'
    <2> SUFFICES ASSUME TypeInv, BorrowInv, tampered = "no", tampered' = "no", [Next]_vars
                 PROVE  BorrowInv'
        BY TamperedStays DEF TypeInv, TypeOK
    <2> USE TechniqueSame
            DEF TypeInv, TypeOK, BorrowInv, Borrowing, Goto, request, cpuVars,
                hostVars, history, vars, Saved, PutBack
    <2>1. CASE UNCHANGED vars
        BY <2>1
    <2>2. CASE Run
        BY <2>2 DEF Run, Execute, HostPc
    <2>3. CASE WatchdogFires
        BY <2>3 DEF WatchdogFires
    <2>4. CASE DirectAccess \/ SaveBase \/ SelectBlock \/ WindowAccess \/ RestoreBase
        BY <2>4 DEF DirectAccess, SaveBase, SelectBlock, WindowAccess, RestoreBase
    <2>5. CASE ReadMode
        BY <2>5 DEF ReadMode
    <2>6. CASE WriteMode
        BY <2>6 DEF WriteMode, Op
    <2>7. CASE StepCommand
        BY <2>7 DEF StepCommand, Execute
    <2>8. CASE InfoHalts
        BY <2>8 DEF InfoHalts
    <2>9. CASE SaveRegisters
        BY <2>9 DEF SaveRegisters, Registers
    <2>10. CASE PointIP
        BY <2>10, TechniqueType DEF PointIP, StepInv, Registers
    <2>11. CASE FetchWord \/ CheckInstruction
        BY <2>11 DEF FetchWord, CheckInstruction, CutShort
    <2>12. CASE LoadRegisters
        BY <2>12 DEF LoadRegisters, StepInv, Registers
    <2>13. CASE SingleStep
        BY <2>13 DEF SingleStep, StepInv, Registers
    <2>14. CASE TakeResult
        BY <2>14 DEF TakeResult
    <2>15. CASE RestoreRegisters
        BY <2>15 DEF RestoreRegisters
    <2>16. CASE RestoreMode
        BY <2>16 DEF RestoreMode
    <2>17. CASE Launch \/ Quit
        BY <2>17 DEF Launch, Quit, Nothing, HostPc, CutShort
    <2>18. CASE \E a \in Addr : Get(a) \/ \E v \in Word : Set(a, v)
        BY <2>18 DEF Get, Set, Begin, Nothing
    <2>19. CASE \E o \in {"halt", "resume", "step", "cpuinfo"} : Control(o)
        BY <2>19 DEF Control, Begin, Nothing
    <2> QED
        BY <2>1, <2>2, <2>3, <2>4, <2>5, <2>6, <2>7, <2>8, <2>9, <2>10, <2>11,
           <2>12, <2>13, <2>14, <2>15, <2>16, <2>17, <2>18, <2>19
           DEF Next, Access, Choose
<1> QED
    BY <1>1, <1>2, TypeInit, TypeStep, PTL DEF Spec

\* Until then the CPU and the window are given back.
THEOREM Restores == Spec => []StateIsRestored
<1>1. TypeInv /\ (tampered = "no" => BorrowInv) => StateIsRestored
    BY DEF TypeInv, TypeOK, BorrowInv, StateIsRestored, AtRest, Borrowing
<1> QED
    BY <1>1, Borrowed, PTL

\* A CPU that an access cut short has left halted with foreign registers is not
\* let go by any later access, nor by cpuinfo, wherever they end themselves.
THEOREM LetGo == Spec => []OnlyUserLetsGo
<1> DEFINE LetGoOr == tampered # "gone" => LetGoInv
<1>1. Init => LetGoOr
    BY DEF Init, LetGoInv, Nothing, Borrowing
<1>2. TypeInv /\ LetGoOr /\ [Next]_vars => LetGoOr'
    <2> SUFFICES ASSUME TypeInv, LetGoInv, tampered # "gone", tampered' # "gone", [Next]_vars
                 PROVE  LetGoInv'
        BY TamperedStays
    <2> USE TechniqueSame
            DEF TypeInv, TypeOK, LetGoInv, Borrowing, Goto, request, cpuVars,
                hostVars, history, vars, Saved, PutBack
    <2>1. CASE UNCHANGED vars
        BY <2>1
    <2>2. CASE Run
        BY <2>2 DEF Run, Execute, HostPc
    <2>3. CASE WatchdogFires
        BY <2>3 DEF WatchdogFires
    <2>4. CASE DirectAccess \/ SaveBase \/ SelectBlock \/ WindowAccess \/ RestoreBase
        BY <2>4 DEF DirectAccess, SaveBase, SelectBlock, WindowAccess, RestoreBase
    <2>5. CASE ReadMode
        BY <2>5 DEF ReadMode
    <2>6. CASE WriteMode
        BY <2>6 DEF WriteMode, Op
    <2>7. CASE StepCommand
        BY <2>7 DEF StepCommand, Execute
    <2>8. CASE InfoHalts
        BY <2>8 DEF InfoHalts
    <2>9. CASE SaveRegisters
        BY <2>9 DEF SaveRegisters, Registers
    <2>10. CASE PointIP
        BY <2>10, TechniqueType DEF PointIP, StepInv, Registers
    <2>11. CASE FetchWord \/ CheckInstruction
        BY <2>11 DEF FetchWord, CheckInstruction
    <2>12. CASE LoadRegisters
        BY <2>12 DEF LoadRegisters, StepInv, Registers
    <2>13. CASE SingleStep
        BY <2>13 DEF SingleStep, StepInv, Registers
    <2>14. CASE TakeResult
        BY <2>14 DEF TakeResult
    <2>15. CASE RestoreRegisters
        BY <2>15 DEF RestoreRegisters
    <2>16. CASE RestoreMode
        BY <2>16 DEF RestoreMode
    <2>17. CASE Launch \/ Quit
        BY <2>17 DEF Launch, Quit, Nothing, HostPc
    <2>18. CASE \E a \in Addr : Get(a) \/ \E v \in Word : Set(a, v)
        BY <2>18 DEF Get, Set, Begin, Nothing
    <2>19. CASE \E o \in {"halt", "resume", "step", "cpuinfo"} : Control(o)
        BY <2>19 DEF Control, Begin, Nothing
    <2> QED
        BY <2>1, <2>2, <2>3, <2>4, <2>5, <2>6, <2>7, <2>8, <2>9, <2>10, <2>11,
           <2>12, <2>13, <2>14, <2>15, <2>16, <2>17, <2>18, <2>19
           DEF Next, Access, Choose
<1>3. TypeInv /\ LetGoOr => OnlyUserLetsGo
    BY DEF TypeInv, TypeOK, LetGoInv, OnlyUserLetsGo
<1> QED
    BY <1>1, <1>2, <1>3, TypeInit, TypeStep, PTL DEF Spec

-----------------------------------------------------------------------------
(* The words.                                                              *)

\* Exchanging the words of each eight bytes twice changes nothing, which is why
\* the XOR of otg.h:720 undoes what the device does.
LEMMA SwapTwice == \A a \in Nat : Swap(Swap(a)) = a
BY DEF Swap

\* What GetRXWord and the prefixes choose suits the address.
LEMMA Routing ==
    ASSUME TypeOK
    PROVE  /\ prefix = "none" /\ op = "get" /\ Technique \in {"ip", "load"} =>
                  (Technique = "ip" <=> InRom(target))
           /\ Technique = "load" => op = "get"
           /\ Technique = "block" <=> prefix = "w"
           /\ prefix = "none" /\ op = "get" => Technique # "store"
           /\ prefix = "none" /\ op = "set" => Technique \notin {"ip", "load"}
           /\ prefix = "+" <=> prefix # "none" /\ Technique = "ip"
           /\ prefix = "." => Technique = IF op = "get" THEN "load" ELSE "store"
BY DEF TypeOK, Technique, GetTech, SetTech

\* Until then GetRXWord returns the word and SetRXWord writes it, for every
\* address and by every technique they choose.
THEOREM WordsRight == Spec => [](ReadsTheWord /\ WritesTheWord)
<1>1. Init => AccessInv
    BY DEF Init, AccessInv, ReadsTheWord, WritesTheWord, AtRest
<1>2. TypeInv /\ (tampered = "no" => BorrowInv) /\ (tampered = "no" => AccessInv) /\ [Next]_vars
          => (tampered = "no" => AccessInv)'
    <2> SUFFICES ASSUME TypeInv, BorrowInv, AccessInv, tampered = "no", tampered' = "no", [Next]_vars
                 PROVE  AccessInv'
        BY TamperedStays DEF TypeInv, TypeOK
    <2> USE TechniqueSame, Routing
            DEF TypeInv, TypeOK, AccessInv, ReadsTheWord, WritesTheWord, Goto,
                AtRest, request, cpuVars, hostVars, history, vars, HostPc
    <2>1. CASE UNCHANGED vars
        BY <2>1
    <2>2. CASE Run \/ WatchdogFires
        BY <2>2 DEF Run, Execute, WatchdogFires, BorrowInv, Borrowing
    <2>3. CASE DirectAccess
        <3>1. Window(Swap(target)) = target
            BY <2>3, SwapTwice, RxAssumption
               DEF DirectAccess, BorrowInv, Window, Swap
        <3> QED
            BY <2>3, <3>1 DEF DirectAccess, Content, Store
    <2>4. CASE SaveBase \/ SelectBlock
        BY <2>4 DEF SaveBase, SelectBlock
    <2>5. CASE WindowAccess
        BY <2>5 DEF WindowAccess
    <2>6. CASE RestoreBase
        BY <2>6 DEF RestoreBase
    <2>7. CASE ReadMode \/ WriteMode
        BY <2>7 DEF ReadMode, WriteMode
    <2>8. CASE StepCommand \/ InfoHalts
        BY <2>8 DEF StepCommand, InfoHalts
    <2>9. CASE SaveRegisters \/ PointIP
        BY <2>9 DEF SaveRegisters, PointIP
    <2>10. CASE FetchWord
        BY <2>10 DEF FetchWord, Content, StepInv
    <2>11. CASE CheckInstruction
        BY <2>11 DEF CheckInstruction, CutShort
    <2>12. CASE LoadRegisters
        BY <2>12 DEF LoadRegisters
    <2>13. CASE SingleStep
        BY <2>13, Instructions DEF SingleStep, StepInv, Instruction, Content, Store, Registers
    <2>14. CASE TakeResult
        BY <2>14 DEF TakeResult, StepInv
    <2>15. CASE RestoreRegisters
        BY <2>15 DEF RestoreRegisters
    <2>16. CASE RestoreMode
        BY <2>16 DEF RestoreMode
    <2>17. CASE Launch \/ Quit
        BY <2>17 DEF Launch, Quit, CutShort
    <2>18. CASE \E a \in Addr : Get(a) \/ \E v \in Word : Set(a, v)
        BY <2>18 DEF Get, Set, Begin
    <2>19. CASE \E o \in {"halt", "resume", "step", "cpuinfo"} : Control(o)
        BY <2>19 DEF Control, Begin
    <2> QED
        BY <2>1, <2>2, <2>3, <2>4, <2>5, <2>6, <2>7, <2>8, <2>9, <2>10, <2>11,
           <2>12, <2>13, <2>14, <2>15, <2>16, <2>17, <2>18, <2>19
           DEF Next, Access, Choose
<1>3. (tampered = "no" => AccessInv) => ReadsTheWord /\ WritesTheWord
    BY DEF AccessInv, ReadsTheWord, WritesTheWord
<1> QED
    BY <1>1, <1>2, <1>3, Borrowed, PTL DEF Spec

\* The same for the words written alone.
THEOREM WritesRight == Spec => []WritesTheWord
BY WordsRight, PTL

=============================================================================
