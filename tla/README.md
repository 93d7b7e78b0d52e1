# A verification project for ortega

ortega is an SDK for the firmware of the BCM5719 network controller.  The chip
has two kinds of CPU that matter here: an RX CPU (MIPS), which runs the boot
code, and the APE (ARM), which runs the management firmware.  The repository
holds firmware for both, host tools that stamp and patch images, and `otgdbg`,
a host program that reads and writes the device over PCI while the device runs.

Most of the firmware's bodies are *scrubbed* from this repository (comment lines
under `#ifdef PROPRIETARY`).  What is there in full, and hard, is where host and
device share registers without locks: the APE shell's mailbox, the boot commands
that start and stop the APE under it, and the RX CPU's debug log.  They are
modelled first, with the host's accesses to the RX CPU's address space, which
borrow that CPU while it runs.  Then come the tools around the firmware: building
and patching the RX CPU's flash image, compressing and turning the APE's images,
and dumping and restoring NVM.

## 1. Inventory

| Part | Source | State it keeps | Operations | Modelled in |
|---|---|---|---|---|
| APE debugging agent | `ape_shell.c` | APEDBG registers, APE memory, CPU registers | start, poll and acknowledge a command, MEM_GET, MEM_SET, CALL_0, RETURN, HardFault handler | `ApeAgent` |
| APE shell client | `otg_common.c:636-699`, `otgdbg.c:1317-1420` | locals of one process, the once-only warning | GetAPEMemShell, SetAPEMemShell, `_WaitAPEShellCmd`, `_ChainAPE` | `ApeShell` |
| APE boot commands | `otgdbg.c:1254-1616, 2265-2285` | APE mode, SEG_SIG, FW_STATUS, event, injected code | bootapeloader, bootape, bootapeshell, apereset | `ApeBoot` |
| RX debug log | `otg_common.c:399-422`, `otgdbg.c:1168-1252, 1618-1663` | data, status and attach words | DebugPrint, `tail`, `bootmem` | `DebugLog` |
| RX CPU access | `otg.h:647-1009`, `otgdbg.c:681-821` | CPU mode, PC, S6, T6, T7, window base | GetRXWord, SetRXWord, forced load and store, window, halt, resume, step, cpuinfo | `RxAccess` |
| Image stamping, patching | `otgimg.c`, `s1stamp.c`, `s2stamp.c`, `Makefile` | image files, their CRCs and VPD blocks | link, stamp, install; info, set | `OtgImage`, `OtgBuild`, `OtgSet`, `OtgVpd` |
| APE image tools | `apestamp.c`, `apeimg.c`, `apebyteswap.c`, `byteswap.c` | image sections, LZSS window and trees | compress, stamp, turn, info, extract | `Lzss`, `ApeImage` |
| NVM commands | `otgdbg.c:823-1003` | NVM words, file, buffer | dumpnvm, restorenvm, setnvm | `Nvm` |
| RX boot firmware | `otg_stage1.c`, `otg_stage2.c` | - | scrubbed | no |
| APE firmware | `ape_code_ref.c`, `ape_code_poc.c` | - | scrubbed | no |
| Library | rest of `otg_common.c` | - | scrubbed (MII, NVM, CRC, APE events) | external |
| Documentation, build | `regs.yaml`, `Makefile`, scripts | none | - | no |

How they interact:

- Host and agent share seven registers.  STATE and CMD synchronise: the host
  waits for STATE = RUNNING and CMD = 0, writes the arguments, writes CMD with a
  magic half; the agent takes the magic off, works, answers in ARG1 and the error
  flags, and writes CMD = 0.  There is no lock, no sequence number and no
  atomic operation, and a host process may die anywhere.
- The boot commands halt the APE, rewrite the same registers, and let it go
  (bootapeloader, apereset), or patch the running firmware so that its next
  event starts the agent (bootapeshell).
- DebugPrint and `tail` hand over a word of characters with a status word; an
  attach word says whether DebugPrint should wait.  bootmem sets both words for
  the firmware it starts.

- `get` and `set` reach any RX address from the host.  Where no BAR shows it, the
  host halts the RX CPU, points its program counter at the word or at a load or
  store in its ROM, single-steps it, and puts everything back.  The firmware,
  the watchdog, `halt` and `resume` act on the same registers.

- `make` links an image, has `s2stamp` or `s1stamp` check what the linker made of
  its script and write the CRCs into a `.tmp` file, and renames it.  `otgimg set`
  writes a field and, in a second write, the CRC of the manufacturing section it
  is in, if that CRC was good; `otgimg info` says what is wrong with an image and
  prints its VPD.  Nothing locks the file.
- `apestamp` compresses the sections of what the linker put out, reads each one
  back, and writes header, filler and trailing CRC; `apebyteswap` turns an image
  word by word in place and writes its CRC last; `apeimg` reads what they leave.
- `dumpnvm`, `restorenvm` and `setnvm` read and write NVM one word at a time,
  each of which holds the device's arbitration; between two words anyone may come.

What makes each part correct:

- *shell*: a read returns the present word or a warned-of 0xFFFFFFFF; a process
  that has not warned has stored everything it meant to; the agent never acts on
  arguments that are not those of the command in the mailbox; calls return; a
  faulting access does not stop the agent.
- *boot*: whoever sees the mailbox ready has an agent behind it; an agent returns
  only to somebody; a loader that is let go announces itself.
- *log*: after `bootmem -w` nothing is lost, not even when tail is killed; a
  late attach costs one chunk; nobody blocks the firmware by leaving.

- *access*: the word read or written is the one named; the CPU never runs with
  what an access has borrowed, unless the user or the watchdog has let it go; a halt
  lasts until resume.

- *flash images*: whatever the linker pads and wherever make is killed, an image
  that is installed has its fields where they say and all its CRCs right; a CRC
  that is good is that of data that were built and set, never of damaged ones; set
  changes what it was asked to and no more; info shows the VPD that was set, where
  it looks for it.
- *APE images*: what is compressed is what comes out; each match is the longest;
  info finds an image without defects exactly if it was finished and not turned in
  part or cut short; apebyteswap takes no image that was left half done.
- *NVM*: what restorenvm counts as set is in NVM; a dump can be restored; nothing is
  written outside the range, and no word that is right already.

The hazards are listed with their lines in `PROJECT.json`.

## 2. Modules

    ApeAgent ---- ApeShell ---- ApeBoot ---- MCApeBoot
                     |  \          \
             ApeMemory  ApeShellInv ---- ApeShellProofs
                             |
                         MCApeShell
    DebugLog ---- DebugLogProofs            RxAccess ---- RxAccessProofs
        \---- MCDebugLog                        \---- MCRxAccess

    OtgImage ---- OtgBuild ---- OtgSet ---- OtgVpd ---- MCOtgImage
                                    \           \---- OtgVpdProofs
                                     \---- OtgSetProofs ---/
    Lzss ---- ApeImage ---- MCApeImage      Nvm ---- NvmProofs
        \         \                             \---- MCNvm
         LzssProofs ---- ApeImageProofs

- **`ApeAgent`**: the agent as a component, one action per access to a register
  the host also touches (`AckRead` and `AckWrite` are the two halves of
  `APEDBG_CMD &= ~MAGIC`).  `apc` is its program counter.  The code it calls with
  CALL_0 is external: it may change memory, fault, or never return.
- **`ApeShell`**: extends it with host processes.  A process is launched, makes
  accesses with any arguments, and quits or is killed between any two register
  accesses.  `Exclusive` says whether processes overlap.  A time-out is a step
  that is enabled whenever the polled condition does not hold: the 1000 polls
  are not counted, so every outcome of every delay is included.
- **`ApeMemory`**: the abstract specification, an atomic memory that performs
  each request once.  `ApeShell` implements it under the mapping `requestView`,
  `replyView`.
- **`ApeShellInv`**: the inductive invariant; **`ApeShellProofs`**: the proofs, of the
  shell by itself and under the boot commands.
- **`ApeBoot`**: extends `ApeShell` with the boot commands, the boot ROM, and the
  firmware.  `cpu` says who has the APE; setting HALT loses the agent's place.
  The accesses that happen while no agent can run are joined where nobody could
  see the difference (`ClearArgs`, `Inject`); the order STATE, then CMD, then
  release is kept.
- **`DebugLog`**: a chunk is its serial number; `printed`, `skipped`, `repeated`
  and `solid` are history variables.  `solid` means that the log has been
  attached since the firmware was booted; a kill does not end it, a detach does.
  `kills` bounds the kills.
- **`RxAccess`**: `GetTech` and `SetTech` are the address comparisons of
  GetRXWord and SetRXWord with their bounds; an address is a word's index, so
  the XOR with 4 is `Swap`.  The registers are PC, S6, T6 and T7; `own` remembers
  them as the firmware left them, `wanted` the HALT bit as the user set it.
  Reading and writing the mode register, saving, pointing, checking, loading,
  stepping, fetching the result and restoring are steps of their own, since the
  watchdog or a kill may come between them; the registers of the halted CPU
  that are saved or restored in a row are one step.  `set` with `|=`, `&=` or `&=~`
  is a `get` followed by a `set`.  Constants say which of the two instructions the
  ROM has (load and store are looked for separately, 805 and 847), whether the watchdog
  may be on, and whether processes are killed.  `tampered` remembers that an unknown
  ROM or a kill has cut an access off (`"cut"`), after which the CPU is halted with
  what the access had borrowed, or that such a CPU has been let go by resume, step or the
  watchdog (`"gone"`).
- **`OtgImage`** has no variables: it is the layout of the flash image, a
  sequence of words in which a field is one word and a CRC is the data that it was
  computed over, with the accessors and `InfoIsClean`, what info has to say.
- **`OtgBuild`**: the Makefile's rules and the two stamps.  `Link1` and `Link2` are
  what the linker puts together, with padding that its script does not know of;
  each pwrite is a step, and make may be killed after any.
- **`OtgSet`**: extends it with `otgimg set` by any number of processes, on an image
  that was built or came from a factory, and with damage to its words.  `meant` is
  the image as it would be undamaged, `before` the image when a run began.
- **`OtgVpd`**: the bytes of the VPD blocks.  `Block` writes one in the format of the
  PCI specification, `DumpVPD` reads it as info does; neither is defined by the
  other, and `InfoShowsVpd` compares them through a whole `set`.  A region is written as a
  whole, so a block is followed by zeros up to the end of its region (`Bytes`), which the
  scanner sees as well; `UNIT` is the number of bytes that a unit of its size stands for.
- **`Lzss`**: the compressor's state and what each of its operations does to it
  (trees, window, groups of codes), and `Decompress`, the format's reader, which
  is written without looking at the compressor.
- **`ApeImage`**: `Linked`, the linker's output; apestamp as a program over it, a step for each string it inserts
  and for each code, with the checks of the header before and the reading back after;
  apebyteswap word by word, apeimg info and extract; a kill anywhere.  byteswap puts out
  another file, which then takes the place of the one it has read (`Makefile:76-77`):
  nothing sees that file while it grows, so the step is one, which leaves all words or,
  killed, only the first so many.
- **`Nvm`**: the three commands, one step per word of NVM and per buffer of the file.
  `clash` remembers that another process wrote into a command's range.
- `MC*` modules and the `.cfg` files give the instances.

Operators called *Faulty variant* are the bugs with which the properties are
tested: each property is violated when the definition after it is replaced by the
variant.

## 3. Runs

| Run | Instance | Checks |
|---|---|---|
| `rx_access` | one word per kind of memory, 2 for the window, 2 values, known ROM, no watchdog, no kill | `TypeOK`, `StateIsRestored`, `ReadsTheWord`, `WritesTheWord` |
| `rx_watchdog` | a word of SRAM, one of ROM, one value, watchdog, kills, a ROM without the store | `HaltHolds`, `OnlyUserLetsGo` |
| `rx_ape_write` | as `rx_access`, without the w prefix | `ApeAccessBorrowsNothing`, violated |
| `ape_shell` | 1 address, 1 hole, 2 values, one process at a time, fairness | `IInv`, `ReadsAreCurrent`, `SilenceMeansStored`, `StoresAreAsked`, `ImplementsMemory`, `CallsReturn` |
| `ape_shell_overlap` | 2 overlapping processes, 1 hole, fairness | `AccessesComplete` |
| `ape_boot` | 1 address, 2 values, all boot commands | `BootTypeOK`, `ReadyMeansAgent`, `ReturnHasACaller`, and the shell's `ReadsAreCurrent`, `SilenceMeansStored` across reboots |
| `ape_boot_live` | 1 address, 1 value, fairness | `LoaderComesUp`, `IdleAgentReturns` |
| `debug_log` | 4 chunks, 2 kills, fairness | `LogInv`, `NoMissedOutput`, `AttachGlitchIsBounded`, `TailUnblocks`, `DetachUnblocks` |
| `debug_log_exit` | 2 chunks | `ExitDetaches`, violated |
| `otg_image` | every padding of at most a word in each place, two factory images, 2 runs of set, 1 damaged word, 5 VPD contents | `BuiltIsSound`, `DummyIsSound`, `GoodCrcVouches`, `SetIsExact`, `InfoShowsVpd` |
| `nvm` | 3 words, files of up to 3, a buffer of 2, 2 processes | `RestoreIsExact`, `DumpIsExact`, `OnlyWhereAsked`, `NoWear` |
| `ape_image` | a window of 10, matches of up to 4, all sections of up to 8 bytes of 2 values | `TypeOK`, `RoundTrip`, `MatchIsLongest`, `InfoTells`, `SwapIsSafe`, `ToolsEnd` |

Why the bounds are enough.  Two values tell a stale word from a current one, and
0xFFFFFFFF is one of them because the code uses it for failure.  The
shell's runs have one address and the hole, since its invariants are proved for any
set of addresses.  The hole is address 0 because CALL_0 leaves 0 in ARG0.  The overlapping
run has the hole only: every access of its processes faults, which is the hard case for
`AccessesComplete` (values, which an address would add, are not protected there anyway), and
an address besides would take it past what can be checked in minutes.
Processes run any number of accesses and follow one another without bound, so one
client stands for any sequence of them.  Four chunks are one before, one during
and two after an attach.  The counter `repeated` stops at 2.  `MaxChunk` bounds
what the firmware emits and `MaxKills` how often tail dies, twice so that a kill can
follow the recovery from one.  In `RxAccess` the
techniques depend on the address's range only, so a word per range stands for
it (the proofs need no bound); two neighbouring words show the swap.

The linker may pad in five places (before stage 1, behind its start, before the version
string, before stage 2 and at its end), and the sizes and the offset that the scripts
state may be off; a word in each is enough to put any field one off, and more of them only shift the same checks.  Two runs of set
are needed for an overlap; between them they set fields of both manufacturing sections and
both VPD regions.  The factory image has an extended VPD of two words, which a set
may overfill or not, and a CRC that was never right, which set must leave wrong; the other
has a second extended VPD, so that info shows one and set writes the other.  A unit of a
region's size is 40 bytes, so that every content is followed by padding; one of two units
fits the extended region only.  The VPD
contents are one as otg_dummy.c has it, one with an empty field, one whose checksum is at
the very end of its area, and one that is cut off.

In `nvm` no word equals its swap, a file is longer than the buffer by one, one file is
empty, and offsets go to the end of NVM and past it.  In `ape_image` the window wraps
at 10 bytes, of which 4 are the lookahead, so that in longer sections all strings of spaces
of the start leave it, references fill a group of two codes,
words have two bytes so that a section's code may or may not need padding, and
uninitialised memory holds either value; each of the images that apestamp refuses has something else wrong.

The compressor's sections are all sequences of two values of up to 8 bytes, two more than
the spaces that the window starts with, so that strings that were read leave it, too: every shape of tree and every kind of match (one that overlaps itself, one in
the spaces that the window starts with, one across the wrap) appears.

The violated statements.  One is from the usage text of bootmem, the other from a
comment in `otg.h`:

- "exiting 'otgdbg tail' always detaches" (`otgdbg.c:1158`): the log is attached
  at line 1625, the handlers are installed at 1626-1628; SIGINT in between
  leaves it attached, and the firmware then blocks at its second poll.
- "we have to use BAR3/4 to access this space" (`otg.h:732`): the range in
  SetRXWord (951) is empty, its end having lost a zero, and APE registers are
  written by a forced store.  `WritesTheWord` holds all the same; the cost is
  that the RX CPU is halted, and that an unknown ROM makes the write disappear.

Where the code does not do what is said of it, the properties are stated so
that they hold, and claim nothing where they cannot:

- An unknown ROM: "Save old state that we will clobber so we can restore it
  afterwards" (`otg.h:798`, 840), but on an unknown ROM the functions return at 809
  and 851 with the CPU halted and its PC moved.
- The watchdog: "halt the CPU, ... Then restore the previous IP and unhalt the CPU"
  (753-756), but the watchdog is left on, which "unhalts the CPU" (`otgdbg.c:686`),
  and the PC of a running CPU is moved.  Once either has happened, or an access was
  killed, `tampered` is set and `StateIsRestored`, `ReadsTheWord` and
  `WritesTheWord` claim nothing.  What holds then is `OnlyUserLetsGo`: an access that was
  cut short leaves the CPU halted with the access's values in its registers, and no later
  access and no cpuinfo lets it go, because each puts back the halt that it has found;
  that is done by the user, with resume or step, or by the watchdog.
- The w prefix (`Windows`): "Note that we have to XOR bit 2 here" (712), but
  GetRXWordViaWindow and SetRXWordViaWindow do not, and reach the neighbouring
  word; `ReadsTheWord` and `WritesTheWord` claim nothing for that prefix.
- "If -w is not passed, any debug output produced between ... is discarded"
  (`otgdbg.c:1162`): all but one chunk.  DebugPrint leaves the last one in the
  data word with its status set, and a later tail prints it.
- The VPD's checksum (`regs.yaml:3410`: "a checksum as specified in the PCI
  specification"): `otgimg.c:216` takes the offset of the RV field from
  the beginning of the read-only area but sums from the beginning of the block, and so
  stops short by the identifier and two headers.  The verdict is right if the checksum is
  followed by at least the identifier's length and five zeros, as in `otg_dummy.c`.
- The extended VPD: info ORs its results with `||` (`otgimg.c:549`), so that it does not
  show the extended block if it has found fault with the standard one; and what it
  finds there is no part of the condition at 581.  It looks in the last directory entry
  that has a size (273-277), and set writes to the first that has an offset (735-740).  Where
  these are two regions, info goes on showing the one that set has left alone, and that is what
  `InfoShowsVpd` claims then.  A region past the end of the file ends info with no more than
  its status (552-553).
- "returns the longest-match position and length ... removes the old node in favour of
  the new one, because the old one will be deleted sooner" (`apestamp.c:34-38`): the
  strings of spaces are put in from the last to the first (172-173), so that of equal
  ones the one that stays is the first to be deleted (215, 231).  The window still has the
  others then and no tree does, and a longer match with them is missed (with a window of 10
  and matches of up to 4, on eight bytes).  `MatchIsLongest` excepts the strings that begin in the
  spaces from then on.
- An empty identifier, or an empty first field of an area, is terminated through a null
  pointer (`NullWrite`).  The property holds with such contents in the run because
  none of them has one in that place.  The padding behind a block without end is read as small,
  empty resources, each of which is terminated, one byte further on each time and soon behind the
  buffer (`otgimg.c:198`); these zeros are taken to hit nothing that is used.

## 4. Fairness

- The agent's own code is weakly fair: it runs with interrupts off in an endless
  loop.  Code called by CALL_0 is not fair: it may never return.
- The steps of an access once begun are weakly fair per process; starting,
  killing and choosing a command are not.
- The ROM and the firmware's event handler are weakly fair in `ApeBoot`, since the
  commands rely on them; the boot commands are not, as they can be killed.
- The RX CPU is weakly fair inside a print, tail in its loop, and bootmem between
  its halt and its release.  Nobody is obliged to start a message or a command,
  or to send a signal.
- In `ApeImage` a program that runs goes on running (`WF_vars(Run)`) unless it is
  killed; nobody is obliged to start one.
- `RxAccess`, `OtgSet` and `Nvm` state no liveness and need no fairness: their loops
  are over files and ranges of fixed length.

## 5. Proofs

All proofs hold for every value of the constants, under the assumptions
`AgentAssumption`, `ShellAssumption`, `LogAssumption`, `RxAssumption`,
`LayoutAssumption`, `SetAssumption`, `FactoryAssumption`, `LzssAssumption`,
`BytesAssumption`, `ImageAssumption`, `NvmAssumption` and `VpdAssumption`, and where stated
for processes that do not overlap (`Exclusive = TRUE`).  The assumptions give the constants their kinds (a
set of words that the code's special words are in, sizes that are numbers, factory
images without damage and laid out as their headers say) and no more.  Of the compressor
they say that the match is shorter than half the window, that a byte can hold the flags
of a group and the second byte of a reference, and that bytes are what a byte can hold;
of the linker's output that it has seven fields for each section and is made of bytes.
`VpdAssumption` is about what a user hands to `set` and what a factory writes, neither of
which set looks at: that VPD contents fit the format (each length in the byte or two that
the format has for it, no zero in a text), that neither the identifier nor the first field
of an area is empty, since `_DumpVPDInner` and `_DumpVPD` would write through a null pointer then
(`otgimg.c:83-90, 182-198`), that no VPD is empty, and that a VPD has no more bytes than
the size it is given, which is what set compares with the room (775).  It says nothing of the
directory.  Only `Shows` uses it.

- `TypeCorrect`: `TypeOK`, also for overlapping processes.
- `Inductive`: `IInv`.  The two promises are not inductive: that a read is
  current needs that ARG1 and the flags answer ARG0 when CMD is clear
  (`Answered`), which needs that the arguments stay while the agent serves
  (`ServiceInv`), which needs that no process writes them then, which it does not
  because CMD is not clear (`MailboxInv`) -- also when it took over the mailbox
  of a process that was killed or timed out.
- `ReadsCurrent`, `SilentStores`, `AskedStores`: consequences of `IInv`.
- `Refinement`: every step is a step of `ApeMemory` or leaves its variables alone.
- `BootInductive` holds for any number of clients, overlapping or
  not, and `BootTypeCorrect`, `ReadyServed` and `ReturnsToFirmware` follow from it.
  `BootInv` adds to the types: the command of a busy agent is in the register
  (`CommandInv`); where a boot command is tells what the CPU is doing (`PlaceInv`);
  RUNNING outlives the agent only behind the CALL_0 that started a firmware, and
  that command is never cleared (`RunningInv`); and an agent that the ROM started
  has no RETURN to execute, because it clears CMD when it starts and bootapeshell,
  the only one to post RETURN to a running CPU, does so only after it has seen the
  firmware's signature, which the loaders have wiped (`CallerInv`).  The shell's type
  lemmas are reused for the steps the two specifications share.
- `ReadsCurrentAcrossBoots` and `SilentStoresAcrossBoots` follow from `RebootInductive`.
  What `IInv` says of the mailbox is false when agents come and go: bootapeshell may post
  RETURN over a command that is being served, the agent may leave, and any boot command
  may halt the APE in the middle of a service.  `RebootInv` says what is left of it.
  A client's arguments stay only if nobody is served (`Quiet`): CMD is clear, and either
  the agent polls or no agent can start (`Frozen`: the APE is halted, or its firmware
  has no event left to start one with).  A mailbox that looked ready stays so unless
  the APE is frozen (`Up`).  That rests on `EventInv`: an event starts an agent once, and
  bootapeshell sends it only after STATE has been taken back, so that no client that
  saw RUNNING is surprised by the new agent's clearing of CMD.
- `LogInductive`, `NothingMissed`: `LogInv` says that a set status keeps the
  firmware at its poll, so what tail read is the last chunk emitted and what it
  clears is that chunk's status.
- `GlitchBounded`: `CostInv` says what has been paid and what can still be lost.
  While the firmware waits at its poll and tail is going to take the chunk in the
  buffer (`Taking`), nothing; when tail takes a chunk that the firmware no longer
  waits for (`Late`), that chunk once more; otherwise it depends on where the two are
  (`Between`).  So a late attach costs one chunk lost and one late or
  repeated, and each kill of tail one repeated.
- `RxAccessProofs`: `TypeCorrect` and `HaltCorrect`: the saved mode of a halted CPU is
  halted with the watchdog off (`HaltInv`), so putting it back is harmless at any
  time.  `Restores`, `WordsRight` and `WritesRight` hold for any ROM, with watchdog
  and kills, of everything that these have not cut off.  `LetGo` is about what they have cut
  off: `LetGoInv` says that an access which has found the CPU running has saved the
  registers of its present execution, also after others were cut short, and that one
  which has found it halted leaves it so.  `StepInv` says that the
  CPU executes the instruction, on the operands, that the access has put there;
  `BorrowInv` that the present registers with `PutBack` applied are the firmware's;
  `AccessInv` follows the word from the step to the caller.
- `OtgSetProofs`: `Vouches`, through any build, any number of overlapping sets of any
  fields, and any damage.  That a good CRC vouches is not inductive: `SameWhereWhole`
  says that the image is what was meant wherever it is undamaged, and `RunInv` that a
  run which found the section's CRC good, and is going to write a new one, has the whole section
  undamaged.  That needs that no damage happens in between, which the model excludes
  (the run reads the file again, so damage after it has looked would be vouched for).
  A CRC that another run computed from the section before a change is of no harm: it is wrong.
- `OtgSetProofs` also has `Built` and `Dummy`, for any layout and padding. `SoundInv` says
  that a file which s1stamp has accepted stays acceptable while it is stamped
  (`Checked`, `Stampable`: no CRC falls on the version string or on code), and that
  each CRC, once written, stays right because those after it lie outside what it
  covers (`Stamped`). That stage 2 is code follows from `Kinds`: only a stage 2
  header has a magic number after the file's first word. `Exact` is for a run that
  overlaps no other. `AloneInv` says of its image what it had before and what it has
  written since; that this is right follows from what lies where: the fields and
  CRCs in the header, the code behind it, the extended VPD in neither (`Laid`). Of a
  factory image `Laid` is assumed. Of what make has built it is proved (`BuiltInv`),
  since s1stamp looks where the header points and a magic number is always followed
  by a size. `LaidInv` is that sets, overlapping or not, and damage keep it so.
- `OtgVpdProofs`: `Shows`, for any images, directories, regions and VPD contents.  `VpdInv` carries to the
  end of a run that its value is a VPD for which there was room when it began, and that no
  write turns the directory, so that set and info go on taking the entries they took
  before (`SameRegions`).  From there on there are three cases.  Without an extended VPD the block
  is the standard one (`StdShown`).  If set and info take the same entry, and info comes as far as
  the extended block, it is that one (`ExtShown`).  If they take entries with different offsets, the
  write has not touched what info shows (`ExtKept`, on top of `ExactInv`).  That info reads back what
  the block holds is `BlockShown`.  What it reads is the block and the zeros behind it (`Padded`), so
  the lemmas about the scanner are about anything that the block is a part of (`Sees`).
  `Pieces` says where each field and each resource of a block lies;
  the scanner, having reached one, finds it and reaches the next (`ScanField`, `ResAt`),
  by induction all of them (`ScanOf`, `ResourcesOf`), and
  none is one that it dies of (`BlockNoNull`); what it finds in the padding, if there was no end tag
  before, shows no lines and is no end tag (`PaddedScan`).  The sum that info checks runs past the
  checksum into the zeros behind it, which is why there have to be enough of these
  (`BlockSum`): info takes the checksum's offset in its area for one in the block.
- `LzssProofs` has no specification of its own: it says what each operation of the
  compressor does to a state that is in one of four conditions, `Filling` (strings of
  spaces are put in), `Coding` (before a code), `Moving` (before the window moves) and
  `Ended`.  What they have in common (`Base`): the links are search trees (`Tree`:
  each child's parent is its parent, each string has at most one place, and a rank
  grows on the way down, so that the loops down the trees end), the window shows the
  last N bytes of the input with spaces before it, twice where it wraps (`Window`), and
  strings in the trees lie in the window (`InWindow`).  Strings are compared byte by byte
  on the way down, so the match that `InsertNode` reports is one (`InsertIs`).
  That it is the longest needs two things more.  The trees are in order (`Ordered`: there
  is for each node the set of those below it, and `IsOrder` says that the strings on its
  left come before it and those on its right behind); `InsertOrder` and `DeleteOrder` keep
  it, and then a string that the way down passes by differs from the new one no later than
  a node of the way does (`Beyond`, `WayWithin`).  And of equal strings only one is in a
  tree, so `Held` says which strings of the window the trees stand for: all of the
  input, each by an equal one that begins no sooner and so is not deleted before it
  (`HeldMore`, `HeldOn`), and the spaces as long as the first of the F strings that were put
  in for them is in the window (`SpacesHeld`).  The order refers to bytes; the ones that a
  move overwrites belong to no string that is left (`ShiftedBehind`, `OrderFrame`).
  On the other side the decoder is a function of the bytes it takes; `Holds` says that the
  codes put out and the group that is not yet full decode to a sequence of
  sources, and `Explains` that each of these, a byte or a place in the window, stands for
  the byte of the input.  `CodeIs` and `MoveOn` keep both, and `EndedDecodes` concludes.
- `ApeImageProofs`: `ImageInductive`, for all sections, windows and byte values, any
  uninitialised memory, and wherever the tools are killed.  `CoderInv` puts the four
  conditions at their places in apestamp.  Hence `RoundTrips` and `NeverRefused`
  (apestamp's reading back never fails, so a file without it would be as good), the
  ranges in `TypeCorrect`, and `LongestMatches`.  `StampInv` says that the sections in the header so far are
  where it says in what has been written, that each decompresses to the linker's
  section, and that the last of them ends where the body does; so the file that is
  finished is `Sealed` over such a body (`WholeInv`).
  `FinishedInv` says what a finished file can look like later: the image, or
  the turned image, with the first so many words turned back and perhaps all words
  swapped by `byteswap`, or a file without any CRC (`NoCrc`), which is what a `byteswap` that is
  killed leaves, since only the last word of an image is one (`HalvesAre`, `TornFile`).
  `UnfinishedInv` says that apestamp's file has no CRC before it is finished.  `SwapSafe`: a half-turned image is refused because its header word is
  the turned one while its CRC is that of the image before.  `InfoRight`: the files that
  `OpenImage` takes are the finished one, in which info finds all in order, those without a
  CRC (not finished, or cut short), the half-turned, and the turned one that was turned back, and it finds with each
  of the latter what it should (`Opened`).
- `NvmProofs`: `TypeCorrect`, `Restored`, `DumpExact`, `Asked` and `Wear`, for any size,
  files and number of processes.  `Place` ties offset, count and file together,
  `Buffer` says that what is left of the buffer comes next in the file, also after a
  short read, and `Fresh` that the word just compared is still there unless another
  process wrote.

Recursive functions are reasoned about, in `LzssProofs` and `OtgVpdProofs`, from lemmas about sets: `Induct`
(a set of numbers with 0 and each successor is all of them), `Recursion` (a function whose
value at x is found from the value at something of smaller rank exists) and `Counting`
(the same, counting up).  With them CHOOSE yields the functions meant: the way down a tree,
the bits, the decoder, the bytes of a section, `FlattenSeq`.

Only model-checked: all liveness (`CallsReturn`, `AccessesComplete`,
`LoaderComesUp`, `IdleAgentReturns`, `TailUnblocks`, `DetachUnblocks`, `ToolsEnd`,
and the fairness part of `ImplementsMemory`), since the prover handles neither
ENABLED nor fairness.  Every invariant of a run that passes is a theorem.

## 6. What the models leave out

- The compiler.  The registers are not `volatile` in `ape_shell.c`; the order of
  accesses is that of the source.  A compiler that merged the read of
  `AckRead` with that of `Poll` gives a subset of the modelled behaviours.
- Imprecise faults and 32-bit instructions (the handler skips two bytes), the
  vector table, PRIMASK, EXCEPTION_COUNT.
- The standard output's buffer: a chunk counts as printed when fputc is called.
- Two tails or two bootmems at once, and otgdbg's halt and resume during a log.
- The time-outs' lengths.
- How the host's writes reach the APE registers.  `ApeShell` and `ApeBoot` have a
  write as one step; by `SetRXWord` it is a forced store, which `WordsRight` shows
  to have that effect on the known ROM without watchdog.
- `GetRXWordImmutable` and the 16-bit setters, which have the same ranges as
  SetRXWord, and GetAPEWordViaF8.
- Two processes in `RxAccess`, and its commands' effect on exceptions in
  REG_RX_RISC_STATUS.
- In flash images: the directory's entries but for their offset and size, the sum of
  its bytes and the CRC of the extended directory as more than "the data summed"; the
  rest of what info prints; the pointer arithmetic of `otgimg.c:424`; that info masks
  a size with 0x7FFFFF and set with 0x3FFFFF.
- In APE images: sections that are not compressed or summed to zero, when apeimg reads them;
  what the commands do with a file that `_OpenImage` refuses (it returns 1 and
  they test for a negative descriptor, `apeimg.c:44-49`); a failed mmap
  (`apebyteswap.c:24-26`).  The header's checks that come before the output is
  opened are one step (`Checks`); those of the sections come after it was
  truncated (326, 345-401), so that a refused image leaves an empty file, as modelled.
- In NVM: the arbitration itself, which is external; restorenvm's messages ("would set",
  932, though it writes), and its division by the bytes set (943).

### Not modelled

- Everything the inventory marks as scrubbed or external.  Of the 16,053 lines of
  C, about 4,000 are register descriptions (`otg.h`) and most of the bodies are comments:
  of `otg_stage1.c` 134 lines of 1393 are not, of `otg_stage2.c` 37 of 996, of
  `ape_code_ref.c` 166 of 2500, of `ape_code_poc.c` 166 of 1177, of `otg_common.c` 243
  of 829.  NVM, MII and CRC routines and the boot code's decisions are among the
  comments; a comment that names neither its functions nor its effects cannot be
  translated, so the models cover little of these files: what is left of the boot
  stages is what `OtgBuild` links, and what is left of the APE's firmware, its image
  header (`ape_code_ref.c:2434-2484`), is what `Linked` in `ApeImage` is.
- `otgdbg.c:1-443`: finding the device in sysfs, mapping its BARs, and dispatching on
  the command's name.
- `otgdbg.c:1668-2263`: apeinfo, apelog and apecrash read registers and print them; they
  change nothing.  (apelog's index is two off from what it prints, 1794-1799.)
- The numeric edges of the command line: `get` computes its end address in 32 bits (526),
  and bootmem checks the file's length with the stage 1 size where it will read the
  stage 2 size (1225).
- The Makefile's rule for the APE shell's loader: it has one section
  (`ape_shell.c:181`) and apestamp refuses it, and the rule at 107-110 copies
  `ape_code.bin` whatever its prerequisite is called.

## 7. Plan

What is left, in this order:

1. `RxAccess` with two processes, and what can be promised then.
2. The debug log as a refinement of a channel that loses nothing while it is solid.
