# TLA+ models of m8cutils

m8cutils is a tool chain for the M8C, the 8 bit core of the PSoC microcontrollers:
an assembler, a simulator that can be coupled with a real chip (the in-circuit
emulator, ICE), a programmer, a boundary scanner and a disassembler. The modules
here model the parts of it in which the *order* of things matters (who changes what
before whom, and what is still true afterwards) and those which two programs have to
understand in the same way. Lines are those of the sources under `src/`.

## 1. Inventory

| Component (sources) | State | Operations | Interacts with | What makes it correct |
|---|---|---|---|---|
| **Interrupt controller** `sim/int.c` | the words `int_pending`, `int_msk`, `int_line`, `int_ice`; the register `int_vc` computed from them | `int_set`, `int_clear` (called by blocks), writes to INT_CLRn, INT_MSKn, INT_VC, `int_poll` and `int_handle` (called by the CPU), `int_set_ice` | GPIO raises; CPU polls and acknowledges; the chip behind the ICE has a controller of its own | `int_vc` never lags behind the words; what is taken is pending and enabled; the chip's vector and the simulator's are merged by priority |
| **CPU** `sim/core.c`, `sim/reg.c` | registers, flags, paged RAM, five pointers to the selected pages, program ROM | `m8c_one`, `m8c_check_interrupt`, `m8c_prep`, `reg_read`, `reg_write` | polls the controller; reads and writes registers through `reg.c` | an opcode does what the assembler's text says; the page pointers never lag behind the page registers; frames of nested handlers survive; RETI returns where the interrupt came |
| **Run loop** `sim/core.c`, `sim/sim.c`, `sim/lang.y` | `cycles`, `done`, `until_poll`, breakpoints, `interrupted`, `running` | `m8c_run`, `m8c_step`, `run_cycles`, `sigint_handler`, break and unbreak | a signal handler in the middle of the loop | a limit is kept, a breakpoint wins, Ctrl-C is not lost |
| **GPIO** `sim/gpio.c` | per port: seven registers, external drive, read latch, connected pins, flag `int_set` | register writes, `gpio_drive*`, `gpio_set*`, connect and disconnect | one interrupt line for eight ports | conditions are noticed, once; the line is up while some port asserts it; setting a pin does not glitch |
| **Script language** `sim/lang.y`, `lang.l`, `id.c`, `printf.c` | labels, expression values | run, step, drive, set, ice, break | everything in the simulator | commands mean what the README says |
| **ICE client** `prog/ice.c` | `xio`, shadows of F, PC and the three code bytes | `ice_init`, `ice_read`, `ice_write` | ISSP vectors to the chip | the shadows agree with the chip; an access reaches the bank it names |
| **Programmer** `prog/m8cprog.c`, `prog_ops.c` | buffers `program` and `security`, `current_bank`; Flash, protection and bank register of the chip | erase, write, read, compare, protect, check, in an order fixed by `main` | ISSP primitives | a success means what the option promises |
| **Program files** `shared/file.c`, `shared/security.c` | the arrays `program` and `security` and their sizes | binary, ROM and hex files written by m8cas and read by m8cprog; protection files, padding and mirroring | assembler, programmer, chip | a file that loads is the one that was written; each block gets the protection its letter asked for |
| **ISSP primitives** `prog/prog_prim.c`, `vectors.h` | none of their own: registers, RAM and Flash of the chip | initialise, bank, erase, read, write, checksum, secure, ID | vectors | no primitive relies on something another left behind |
| **ISSP wire** `prog/prog_vector.c`, `prog_bit.c`, bit level of `prog/drv/*` | line levels, direction of SDATA, timers | acquisition, vectors, wait-and-poll | the chip | no answer is taken for another's, SDATA has one driver |
| **Drivers** `prog/drv/*`, `tty.c`, `pp.c`, `rt.c` | port and line state | bits, vectors or whole primitives | hardware | timing |
| **Programmer command line** `prog/cli.c`, `prog.c`, `prog_common.c`; **torture test** `prog/torture.c` | options, driver table | | | |
| **Boundary scanner** `bscan/` | allowed and external values per pin, the port registers and their cached copies, the patterns already posted | the description's alternatives, `gentle`, `weak`, `strong`, `commit`, the check of each pattern | ISSP | no transition drives a strong level that is not at one of its ends; no error on a good board; shorts are found |
| **Assembler** `as/` | `if_true`, `if_false`, `if_had_else`; labels with their values; patches; areas with program counters | statements | preprocessor | an ELSE belongs to its IF; a name means the same as in the source, however far ahead it is used |
| **Disassembler** `das/`, `shared/disasm.c` | none | opcode to text | assembler, simulator | its text assembles to the same bytes |
| **Helpers** `shared/` (chips, symmap, cpp, error, interact, backslash, dm), **register descriptions** `regs/`, `misc/`, **libfdr** | | | | |

What is hard here:

* *One controller, many writers.* Five operations change the words that `int_vc` is
  a cache of, and a chip that is not under the simulator's control changes the other
  half. A test sees one order of them.
* *Caches everywhere*: `int_vc`, the page pointers of the CPU, the shadows of the
  ICE, the cached registers of the scanner, the bank the programmer believes
  selected.
* *Eight ports, one line*, with edge detection: a port that lowers the line has to
  know about the other seven.
* *A signal handler in the loop.* SIGINT comes between any two statements.
* *Intermediate states that are visible.* With the ICE and in the scanner each
  register write reaches a real pin.
* *A session of irreversible steps* with unchecked return codes, on a chip that may
  be faulty, and which becomes unreadable at its end.
* *One knowledge written down three times*: the instruction set.
* *Unsigned arithmetic* in which 0 means "no limit".

`PROJECT.json` lists the hazards one by one, each at its line, with the properties
that cover it.

## 2. Modules

| Module | Models | State ↔ code |
|---|---|---|
| `IntCtl` | `sim/int.c` | each 32 bit word is the set of its bits; `ice_vc` is what reading INT_VC on the chip yields. No Init/Next of its own: its operations are used by `Cpu` and `Gpio` |
| `Cpu` | `m8c_step`, `m8c_check_interrupt`, `int_handle`, RETI, with `IntCtl` | `pc`, `f`, `sp` and `stack` (the stack page) as in the code; `frames` and `cut` are history variables |
| `Alu` | the arithmetic of `sim/core.c` as functions of words and carry | none |
| `Isa` | all 256 opcodes of `core.c` with the paged RAM, their texts in `disasm.c` and their encodings in `m8c.y` and `code.c`, with `Alu` | `cpu` has the registers, the RAM and the five page pointers; `insn` and `before` are history |
| `RunLoop` | `m8c_run`, `m8c_step`, `run_cycles`, breakpoints, SIGINT | locals and statics of the same names; `loc` is the place in the code |
| `Gpio` | `sim/gpio.c` without the set commands, with `IntCtl` | `gpios[p]` is `struct gpio`, each byte a set of pins |
| `PinMode` | `gpio_set`, `gpio_set_r`, `gpio_set_z`, `gpio_set_analog` | the registers of one port; `cmd`, `step` say which write of which command comes next |
| `RegFile` | *abstract*: registers in two banks, read and written one at a time | |
| `Ice` | `prog/ice.c`, **implements `RegFile`** | `xio`, `f`, `pch`, `pcl`, `code` are the statics; `chip` has the chip's own |
| `Issp` | `prog_vector.c` on the bit functions of four drivers, **implements `RegFile`** | `phase`, `bit`, `place` say what the program does next; `line_d`, `line_c` are what it drives, `life`, `rx`, `drive`, `ssc`, `reg` the other end of the wire |
| `FlashChip` | *abstract*: a Flash in banks with protection, after `drv/dummy.c` | |
| `Prim` | `prog_prim.c` with `vectors.h`, **implements `FlashChip`** | registers, RAM and Flash of a chip that checks the keys of its system calls |
| `HexFile` | `shared/security.c`, `shared/file.c` and what m8cas and m8cprog do at the two ends of the file | `mem` has `program`, `security` and their sizes; `reader` has the locals of `read_hex` and `read_rom`; `modes` and `sent` are history |
| `ProgSession` | `m8cprog` from `main` to its end | buffers by name; `phase` and `i` are the operation and its loop variable; `flash`, `prot`, `bank` are the chip's |
| `PortCommit` | `bscan/port.c`, `shared/dm.c` | four registers per port wanted, cached and on the chip; `from` is history |
| `Bscan` | `bscan/test.c`, `value.c`, `out.c`, with `PortCommit` | `setting` and `values` are those of `value.c`; `stage`, `bit`, `high`, `leaf` are where `do_tests` and its recursion are; constants `defined`, `settings` and `Configurations` are what each description comes to |
| `Description` | the descriptions of `bscan/lang.y` with their alternatives, and the order in which the recursion of `test.c` visits these | none; `MCBscan` gives `Bscan` its constants with it |
| `IfNest` | IF, ELSE, ENDIF of the assembler | `if_true`, `if_false`, `if_had_else` as in `m8c.y`; `open` is a history variable, the stack of conditionals the source has |
| `Labels` | `as/id.c`, `op.c` and the rules of `m8c.y` and `m8c.l` that use them | `table` is the tree of labels, `look` the token the lexer has read ahead; `source` is history |
| `CpuProofs`, `RunLoopProofs`, `GpioProofs`, `ProgProofs`, `PrimProofs`, `RegisterProofs`, `BscanProofs`, `ToolchainProofs` | theorems about `Cpu` with `IntCtl` and `Alu`, `RunLoop`, `Gpio` and `PinMode`, `ProgSession`, `Prim` with `FlashChip`, `Ice` and `Issp` with `RegFile`, `Bscan` with `PortCommit`, `IfNest` and `HexFile` | |

The MC modules give values to the constants. `MCCpu`, `MCRunLoop` and `MCBscan`
instantiate one module each. The others put modules with a common subject next to
each other: `MCPins` has `Gpio` and `PinMode`, `MCRegisters` has `Ice` and `Issp`,
`MCProg` has `ProgSession`, `HexFile` and `Prim`, `MCToolchain` has `IfNest`,
`Labels` and `Isa`. There a variable `part` says which of them takes steps in a
behaviour; the others stay in a first state, and properties of a module hold of its
own behaviours. Nothing is composed by this: what is composed is said by EXTENDS
(`IntCtl` in `Cpu` and `Gpio`, `Alu` in `Isa`, `PortCommit` in `Bscan`).

Definitions whose comment begins with "Mistake" are wrong on purpose: they stand
before the definition they are a broken form of, nothing uses them, and replacing
the one by the other shows that a property notices (`PROJECT.json`, "mutants").

How the modules fit the code:

* **`IntCtl`.** `int_select` is written as a constraint on the next state, since
  every function of `int.c` that ends in `int_select()` computes `int_vc` from the
  words it has just left. `int_poll` reads the chip only while some interrupt is
  connected. `int_set_ice` does not select, as in the code, so that a vector of the
  chip can stay in `int_vc` after the last disconnection.
* **`Cpu`.** A step of the CPU is `m8c_step`, or one turn of `m8c_run` without a
  limit and with `interrupt_poll_interval` 1: take an interrupt if one is enabled
  and selected, otherwise execute an instruction. Instructions are kept as far as
  they touch interrupts: RETI, writes to the controller's registers, and any other
  instruction as a new `pc` and new flags. CALL, RET, PUSH and POP are in `Isa`;
  here the stack page holds nothing but frames of handlers, a restriction of the
  programs, not of the simulator. The script and the chip act between steps.
* **`Isa`.** Three descriptions are written down independently, each after its own
  source: what an opcode *executes* (`core.c`), what it is *printed* as
  (`disasm.c`), and which bytes the *text* assembles to (`m8c.y`, `code.c`). An
  instruction is compared with its text by flow and frame (`DoesAsPrinted`): where the
  program goes on, and which cells and registers may change, with addressing modes
  and pages from the register values, not from the cached pointers. Which values are
  stored is compared for sums and differences only (`Exact`).
  Strings of the disassembler are tuples of mnemonic, destination and source. The
  bytes behind an opcode are chosen when it is fetched, so there is no ROM; ROMX and
  INDEX read from a function.
* **`Gpio`.** `gpio_maybe_interrupt` is called with the record the caller would have
  left. Its loop, which should look at the flag of every port and looks eight times
  at the flag of its own port (gpio.c:83), is modelled as it is. What
  `gpio_ice_disconnect` reads past the end of `gpios[]` (gpio.c:357) is a
  nondeterministic choice.
* **`PinMode`.** The argument of each `gpio_may_change` is computed at the time of
  the write from the registers then and at the start, as the C expressions do. The
  assertion in `gpio_may_change` is an outcome (`aborted`).
* **`RunLoop`.** `cycles - done` wraps at `Word`, 0 means no limit to those who are
  given it. `m8c_run` is cut where a signal makes a difference: flag, handler, loop
  test, handler, acknowledgement in `run_cycles`. The handler itself is atomic. In
  `Stuck` are the addresses where `m8c_prep` raises "PC would wrap".
* **`Ice`.** One action is one call by the client; nobody else talks to the chip. A
  vector, or a sequence of them, is an operator that maps a chip to a chip, so that a
  call is written as the chip it leaves behind.
  What a client must not do (select a bank behind the back of `ice.c`, run code with
  bank 1 selected, let it stop at an address whose low byte is 3) is switched off by
  a constant (`Disciplined`); without it the shadows are not kept (see section 6).
  The refinement mapping takes a register from the shadow where the code keeps one
  and from the chip otherwise.
* **`Issp`.** One step is one change of a line, one sample of SDATA or of the time,
  or something the chip does. `Sent` is what each bit of a vector puts on SDATA; a bit
  is two edges of SCLK (`FirstEdge`, `SecondEdge`), behind a change of SDATA where
  the driver makes that separately (`SetData`), and in a read one step more, a
  sample (`ReadBit`) or the change of phase (`InvertPhase`). The chip takes a bit
  with each falling edge, counts 22 of them, and drives SDATA itself in a read and
  during a system call. The drivers differ in how they release SDATA and in which
  step they set it; `Kinds` says which are used. Time is a counter that ticks wherever the program looks at it;
  `Delays` says whether the host may also be held up between the first look at SDATA
  in `wait_and_poll` and the look at the time.
* **`Prim`.** A primitive is a sequence of vectors, written down from `vectors.h`,
  and one step of the module. The chip works only if what a system call needs is set
  up, spoils it when it executes, and returns results in the cells the parameters
  were in. A primitive that forgot one of them would fail here after some other
  primitive and not after its own. Guards are the order in which `prog_ops.c` calls
  them. The mapping to `FlashChip` is the Flash itself, and its return code is the
  chip's byte unless a primitive with results of its own came last. `upset` is
  history: a system call has found something missing; the chip does its work all the
  same, so that this is told apart from what the work does.
* **`HexFile`.** A hex file is a sequence of records and a ROM file one of
  characters. The digits of a record and its own checksum are left out, the checksum
  of the whole program is there; extended addresses select the area. A turn of the
  loop of `read_hex` or `read_rom`, which is one record or one character, is a step,
  with an action for each kind of them, and so is a character of the protection
  file; `reader` is what the loop keeps between two turns. Without `-b` the first
  character says what a file is: an empty one is an empty program (`LoadNothing`),
  and a binary file that begins with a hex digit or a colon is taken for a ROM or a
  hex file (`Misread`); with `-b`, or any other first byte, it is read as binary
  (`Load`). What `-b` does to a file that is not binary, and binary files that are
  hex files, record by record, are left out. A refusal exits and leaves
  the memory half filled. `pad_file` is left out. `Damages` are the ways a hex file
  can change between the programs: cut behind a record or to nothing, or a byte of
  the program off by a member of `Differences`, modulo 256. `CaseAssumption` is about the inputs: a
  program fits the array (which is as large as the largest Flash), and a chip has
  its protection in whole bytes, at most a block of it per bank, and at most what
  the array holds, as all in `chips.c` have.
* **`ProgSession`.** `Order` is the order of the calls in `main` and `Called` their
  conditions. An operation is a loop over blocks or banks; between any two turns the
  session may die. A block is a number that stands for the sum of its bytes. A
  checksum is a sum of such numbers that wraps around at `Wrap`, in the program (16
  bits) and, summed over its banks, on the chip. `Faults` says what the chip does
  wrong in an instance: identify as another one ("id"), ignore the erase ("erase"),
  program something else ("program"), return an error for a read ("verify"), refuse
  protection with a return code ("secure") or without one ("silent"). The ways in
  which `main` refuses to begin are outcomes: options that exclude each other, no
  voltage, a file that is too big.
* **`PortCommit`, `Bscan`.** A step is one pattern generated, one register written
  or one pattern compared. The board is any choice of what each pin may be driven
  with according to the description, with a fault of `Faults`: pins shorted to each
  other or to a level. A pin reads what its drivers agree on, by strength, and
  anything where they do not. `recurse` visits alternatives depth first; `Bscan` has
  the sequence of their leaves in advance (`Configurations`) and a position in it.
  The sequence is computed in `Description`, with the recursion of the source; in
  `Bscan` it is a constant of which only the form is assumed, which is why what is
  proved there holds for descriptions of any shape.
* **`IfNest`.** One action per directive and outcome. The lexer decides by
  `if_false` whether IF is TOK_IF or TOK_IF_FALSE. When TOK_IF finds its condition
  false, the parser already holds the next token: another TOK_IF is entered at once
  (`IfThenIf`); any other is dropped or passed on, which changes nothing here.
  Conditions in skipped text are arbitrary, since nobody evaluates them. Behind the
  end of the array a read may find anything and a write is lost.
* **`Labels`.** The source is read item by item, and the first token of the next
  item before the current one is acted on, as the parser has to. An expression is a
  number or one reference, resolved at once, when its label is defined or at the end
  of the file or of the assembly; the number a definition stands for is the place in
  the source where it is made, so that no two are mistaken for each other. What the
  names should stand for is computed from the whole source, by scope and distance,
  without the table.

## 3. Runs

| Run | Instance | Shows |
|---|---|---|
| `cpu` | interrupts 2, 5 and 7 (5 is GPIO, can be raised by a pin and by the chip, and comes behind 7 in the vector table), nesting 2, stack of 7 cells, one program address | `PendingIsVisible`, `StackHoldsFrames`, `NoPhantom`, `NoSecondGhost`, `FirstVectorFirst`, `ReturnsToInterrupted`; `Prompt` under fairness |
| `run_loop` | three addresses, one of which halts and one raises an exception, costs 1 and 2, 3 for an interrupt, limits 0, 2, 5, `Interval` 2, words of 4 bits | `WithinLimit`, `StopsAtBreakpoints`, `PollsEveryInterval`; `RunsEnd` under fairness |
| `pins` | `Gpio`: two ports of one pin; either every register, every drive and the ICE at one of them, or what raises and lowers the line at both; `PinMode`: two pins, all commands, resistive ones on the whole port | `LineAgrees`, `ConditionNoticed`, `OneEdgeOneInterrupt`; `SetTakesEffect`, `NoGlitch` |
| `prog` | sessions: one bank of two blocks, every command line and every fault; files: blocks of 2 bytes, a Flash of 8, protection of 4, chips of one and two banks; primitives: two banks of two blocks of two bytes, any sequence that `prog_ops.c` could make | `SuccessIsTrue`, `ProtectsOnlyChecked`; `LoadedIfWhole`, `ProtectionArrives`; `ActsAsFlash` |
| `prog_banks` | sessions: two banks of two blocks, every way to write a healthy chip | `HealthyWrite` |
| `registers` | `Ice`: two values, three opcodes, a disciplined client; `Issp`: every driver, with and without power-on, any sequence out of eight vectors, five ticks of time | `ShadowsAgree`, `PlainRegisters`; `NoContention`, `TimeoutsRight`, `VectorsArrive` |
| `bscan` | four pins in two ports, one of the programming interface; every setting of one pin next to a free one, three nested descriptions; five faults; with and without `-a` | `NoStrongOnTheWay`, `PinsAsWanted`, `NoFalseAlarm`, `ShortsFound`, `NoFight` |
| `toolchain` | `IfNest`: an array for 3 conditionals, sources that nest 5; `Labels`: every source of seven items in two files, over three menus of items; `Isa`: every opcode, operands at the ends of a byte, eight states of the CPU with two pages | `SelectsRight`, `ElseJudged`; `AssembledAsWritten`, `RightErrors`; `PagesFresh`, `RoundTrip`, `DoesAsPrinted`, `Exact` |
| `gpio_line` | `Gpio` with two ports | `LineHeld` is violated: a finding |
| `pin_mode_mask` | `PinMode`, two pins, resistive commands on one of them | `MaskRespected` is violated: a finding |
| `if_nest_else` | `IfNest`, 3 and 3 | `NoFalseDuplicate` is violated: a finding |
| `labels_equ` | `Labels` as above | `EquIgnoresItself` is violated: a finding |

Three of these are refinements. `PlainRegisters`: whatever `Ice` does with its
shadows, banks and wake-ups is, for its client, a `RegFile`. `VectorsArrive`: a
vector that has come to its end on the wire is one read or write of a `RegFile`, and
half a vector is none. `ActsAsFlash`: each primitive is one operation of
`FlashChip`, or refused as the dummy driver refuses it.

Why these bounds are enough to be of interest:

* Of interrupts 2, 5 and 7 the first two are in the order of the vector table, and
  the last two are not: with them a wrong one can be taken in either way.
  `CpuProofs` lifts the restriction for all but liveness. Nesting two deep leaves a frame under
  a frame. The stack page has one cell more than the deepest nesting fills; the
  depth is that of the program's choosing (`Instruction` enables interrupts only
  where another frame fits).
* In `RunLoop` `Word` is 16, so that a run without a limit comes to the end of the
  counter; the limits are below, at and above the cost of an interrupt; the history
  counter `since` stops at `MaxSince`.
* Pins of a port do not influence each other except through `int_set`, which is an
  OR over them; one pin has every value of its registers, its drive and its latch.
  Two ports are the least with which one can disturb another; where both take
  steps, they are inputs, as after reset, and their interrupt registers and what
  drives them change.
* In `PinMode` two pins are one inside and one outside of the mask.
* In `HexFile` programs and protection files end before, at and behind the end of a
  block; protection data of one block, of one bank and of more than the chip has
  make the padding and the mirroring take every path. A changed byte is off by one
  in either direction, or by half of its range; with bytes of 255 and 254 the
  change wraps around and the sum needs its second byte. Binary files that are taken
  for ROM files end, when they are read so, as a whole byte, in half a byte, at a
  blank or at a character that is none of theirs.
* In `ProgSession` a bank needs two blocks for "first block of a bank" to be
  different from "block"; with two non-zero values and sums that wrap at 4 different
  programs have one checksum, with and without wrapping; files are one block short,
  exact and one block too long.
* In `Ice` a bank has the code's addresses and one other register, bank 1 has
  another register at an address of the code; the two values of PC are the one the
  wake-up uses and another. In `Issp` `T_RISE` is shorter than `T_FALL` and both are
  shorter than `MaxTime`, so that either of them, or neither, may run out; a read
  and a write with ones and zeros at both ends of the byte are in both orders.
* In `Prim` a block has two bytes, of which the first doubles as protection: 8
  protects the second block; the Flash starts blank.
* In `Bscan` a pin of the port next to the one under test, a pin of another port,
  and a pin that cannot be driven freely are there at once. Since the scan looks at
  pins one by one and at shorts in pairs, one pin with every pair of allowed and
  external values, and a free one, are all there is to a pattern; what the tests do
  with alternatives needs nesting, which the other descriptions have.
* In `IfNest` the source nests deeper than the array, in skipped text, which is the
  only place where it can; the theorems hold for every size and depth.
* In `Labels` seven items are two definitions of a label, two uses, an export, the
  end of a file and one more. Each menu mixes the kinds of labels that influence
  each other.
* In `Isa` one instruction is executed from each state: a wrong opcode, operand or
  flag shows at once. `Exact` compares each result with integer arithmetic. What two
  instructions do together is the subject of `CpuProofs`.

`CHECK_DEADLOCK FALSE` is said where the system really ends: a session of the
programmer, a simulator killed by the second Ctrl-C, the end of the assembler's
source, the end of a file.

## 4. Fairness

`Cpu`: weak fairness of `CpuStep`. `m8c_run` loops until something stops it, so a
program that can take a step will. Nothing is assumed of the script, the chip, or of
which instruction is executed; `Prompt` assumes in its statement that the program
keeps enabling interrupts. `RunLoop`: weak fairness of `Loop`, the statements of one
thread that is running; nothing is assumed of the script, of Ctrl-C or of the
program. No other specification has fairness.

## 5. Proofs

`CpuProofs` proves, for every set of interrupts, with or without the ICE, every
stack page and every depth, from two assumptions only: `IntsAssumption` (the
interrupts are those `int2prio` has an entry for) and `CpuAssumption` (the frames of
`MaxDepth` handlers fit the page):

| Theorem | States |
|---|---|
| `Invariance` | `Spec => []CpuInv` |
| `TypeCorrect`, `Nesting` | its parts: the types, and that handlers nest no deeper than the program enables them to |
| `PendingVisible`, `StackSound` | invariants the run `cpu` checks |
| `ReturnsRight` | `Spec => ReturnsToInterrupted` |
| `TakesFirst` | `Spec => FirstVectorFirst` |
| `NoPhantoms` | `Spec => NoPhantom` |
| `NoGhosts` | `Spec => NoSecondGhost` |

`TypeOK` is not inductive: what RETI loads into `pc` and `f` is of the right type
only because the cells below `sp` hold a frame, which is `StackHoldsFrames`. That in
turn needs `sp = 3 * Len(frames)` not to wrap around, hence `NestingBounded`, and
`NestingBounded` needs that interrupts are enabled only where another frame fits,
which is the conjunct `Room`. The inductive invariant `CpuInv` is the conjunction of
`TypeOK`, `PendingIsVisible`, `NestingBounded`, `Room` and `StackHoldsFrames`. The
proof that a step preserves it has a step for each action, each citing lemmas about
the operations of `IntCtl` (what `int_select` returns, that `Lowest` is a member and
the least, that `int2prio` and `prio2int` are inverse). `NoPhantoms` needs another
invariant besides, `Origin`: the vector in `int_vc` is that of the lowest enabled
pending interrupt, or one of the chip's.

`int_select` takes the lowest *bit*, and the bits are not in the order of the vector
table. `TakesFirst` therefore says exactly where they are not (`Inverted`): of 5 and
7, which are the other way round there, and of 6, which is the last of the table and
comes before all from 7 on. Any other pending interrupt is never passed over.

`NoGhosts` is about what `int_vc` holds when it is taken. Every operation computes it
anew but one, `int_set_ice`; so what it holds is raised by the simulator, or is what
the chip asserted when INT_VC was last read. While a pin is connected, `int_poll` has
read it just before; without one, the chip's vector can only have stayed from the
last disconnection, and taking it computes `int_vc` anew (`Own`, kept by every other
operation).

It also proves, from `AluAssumption` (a byte has at least two values), for bytes of
any size, what programs rely on when they calculate with more than one of them:

| Theorem | States |
|---|---|
| `AddChain` | ADD and ADC add two-byte numbers and leave their carry |
| `SubChain` | SUB and SBB subtract them and leave their borrow |
| `CmpIsSub` | CMP sets the flags SUB would |

They rest on one lemma about a sum (`Sums`: the result kept in two bytes splits into
a byte and a carry) and one about a difference (`Differences`: one below zero wraps
around to a high byte that is not zero, which is the borrow).

`ToolchainProofs` proves of `IfNest`, from `IfAssumption` (the array has entries), for every size
of the array and every depth of nesting:

| Theorem | States |
|---|---|
| `IfInvariance` | `Spec => []IfInv` |
| `Selects` | `Spec => []SelectsRight` |
| `JudgesElse` | `Spec => ElseJudged` |

`SelectsRight` only says whether *all* conditionals are selected; that survives an
ENDIF because the first `if_true` of them are and the next one is not (`Nest`). An
ELSE is judged by a flag in the array, so the invariant relates the flags to the
source in both directions, but not equally far: the array knows every ELSE it has
room for (`Known`), and it knows of no other up to the first conditional that is not
selected (`NoOther`). Further in it may, which is finding 3.

Of `HexFile` it proves, from `HexAssumption` (sizes are positive, the array of
protection bits is whole blocks, and a changed byte differs from what it was) and
`CaseAssumption` (what programs and chips fit, see section 2), for every program,
protection file, block size, format and chip:

| Theorem | States |
|---|---|
| `FileInvariance` | `FileSpec => []FileInv` |
| `LoadsWholeFiles` | `FileSpec => []LoadedIfWhole` |
| `ProtectionArrivesOnChip` | `FileSpec => []ProtectionArrives` |

Neither property is inductive, since both speak of the end of a reading and the file
is read a record at a time. `FileInv` therefore says what is in the file: the records
of `write_hex` for `held`, which is what was sent or has one byte changed, as far as
the file goes, with the checksum of what was sent (`HexImage`), or any characters
where a binary file is taken for a ROM file; and what a reader at
any place of it has in memory (`SoFar`): of `HexLayout`, which says where in a file
the records of program, protection data, checksum and end are, the areas it has
passed are complete, the one it is in is filled up to its address, and those to come
are blank (`HexSoFar`, and `RomSoFar` for digits). A record that is in sequence and within
its area is never refused, so a file that is whole is loaded, and one that is cut
comes to its end without an end record. Two cases stand in the statement as what
they are: a file cut to nothing is loaded as an empty program without protection, and
nothing is said of what a misread binary file is loaded as, only that it brings no
protection. That a changed byte is noticed is a
statement about two sums: they are equal up to the byte, differ by a number between
-255 and 255 behind it, and this difference stays the same modulo 2^16
(`ChangedSum`, with a least counterexample instead of an induction).

For the protection bits, while `read_security` is at work the bytes hold the modes
read so far (`Noting`), and what is written holds, for each block, what the file
gives it or the padding (`Carries`), with zeros behind (`ZeroTail`). Padding to the
Flash and to whole blocks keep that, because whether any mode is strong comes out the
same before and after they have padded; mirroring only fills bytes that belong to no
block of the chip. `Tight`, that protection data of no more
than a block stays in one, is needed for the second clause of `PadsWithin`: the loop
that mirrors runs away only with more protection data than a block.

`RunLoopProofs` proves, from `RunAssumption` (a cost, of an instruction or an
interrupt, is less than a word), for every program, script, polling interval and
width of the cycle count:

| Theorem | States |
|---|---|
| `Invariance`, `TypeCorrect` | `Spec => []Inv`, and its types |
| `KeepsLimit` | `Spec => []WithinLimit` |
| `KeepsBreakpoints` | `Spec => []StopsAtBreakpoints` |
| `PollsOften` | `Spec => []PollsEveryInterval` |
| `KeepsCtrlC` | a Ctrl-C that came while the handler was armed is still noted when the loop looks at the flag |

`WithinLimit` is inductive almost as it stands, with the lemma that `cycles - done`
does not wrap while `done` is within the limit. `PollsEveryInterval` is not: it
needs `Countdown`, by which the countdown and the instructions since the last look
add up to at most the interval and one. What the first turn of a run finds is
`Fresh`, and that no handler is armed outside of a run is `Armed`.

`GpioProofs` proves, from `GpioAssumption` and the assumption of `PinMode` (commands
name pins that there are), for any ports, pins, masks and states:

| Theorem | States |
|---|---|
| `GpioInvariance` | types, and that the line is up only while some port's flag is |
| `LineAgreesWithOne` | `Spec => []LineAgrees`, if there is a port |
| `NothingOverlooked` | `Spec => ConditionNoticed` |
| `OneEdgeInterruptsOnce` | `Spec => OneEdgeOneInterrupt` |
| `ModeInvariance` | `Spec => []ModeInv` of `PinMode` |
| `SetsWhatIsSaid`, `NoGlitches` | `SetTakesEffect` and `NoGlitch` are invariants of `PinMode` |

The line ought to be the OR of the flags (`LineHeld`), and with more than one port
it is not: that is finding 1, and the run `gpio_line` shows it. What remains true of
the ports that share it is `LineAgrees`: it is what at least one of the flags says,
since a step that touches it leaves it as the port of that step wants it. Where it is
what all of them say, no interrupt is posted twice for one edge
(`OneEdgeOneInterrupt`), whichever ports take turns. The invariant of `PinMode` says of each
register of each pin what it holds after each write of a command, in terms of what
it held before the command (`Progress`), and that a pin at rest is in one of the
states of the table (`Settled`). The properties then follow pin by pin.

`ProgProofs` proves, from `ProgAssumption` (files and protection data are arrays
that start at 0, and protection data is not longer than the Flash has blocks), for
any number of banks and blocks, every file and every command line:

| Theorem | States |
|---|---|
| `Invariance` | `Spec => []Inv`, whatever the chip does wrong |
| `ProtectsChecked` | `Spec => ProtectsOnlyChecked` |
| `DoneIsTrue` | three parts of `SuccessIsTrue`: what was written, compared and read |
| `OneBankSuccess` | with one bank, `Spec => []SuccessIsTrue`, all of it |
| `HealthyChip` | without faults, `Spec => []HealthyWrite` |

The invariant is, for each operation, what those before it in `Order` have made sure
of: the buffers hold the file or what was read (`FileKept`, `ReadSoFar`), the sums
agree behind the write (`Checked`), and the loops have compared the blocks they have
passed (`ComparedSoFar`, `ProtectionCompared`, with `BankFollows` for the bank
register). The fourth part of `SuccessIsTrue`, about protection, needs one bank
because `ops_compare_security` covers the first bank only (see section 6). For a
healthy chip the invariant follows the write and the protection block by block
(`WrittenSoFar`, `ProtectedSoFar`), and the caller's belief about the bank register
(`BankKnown`). That the sum over the Flash is the sum over a program with zeros
behind it is an induction over the blocks; since the induction theorem for numbers
takes an operator, it is done by a least counterexample (`WFMin`).

`PrimProofs` proves, from `PrimAssumption` (up to 256 banks and blocks, a buffer
that ends below the keys, and bytes), for any contents of the Flash and of what is
written:

| Theorem | States |
|---|---|
| `Invariance` | `Spec => []PrimInv` |
| `Implements` | the refinement, `Spec => ActsAsFlash`: each primitive is one of `FlashChip`, no system call lacks anything, and the trim registers get their values |

`PrimInv` says that the chip is in bank 0 or 1 with a buffer of bytes and a bank that
exists, that the history variables tell what the byte of the return code means, and
that the results of `INITIALIZE_2` are in the RAM until `INITIALIZE_3` has used them.
The first half of the proof is about vectors: `WRITE_MEM` and `WRITE_REG` change one
place (`WriteMem`, `PutReg`), hence the preamble sets all that a call needs whatever
was there (`Preamble`), and parameters written before or after it are still there
(`Preamble128`, `Parameter`). `Call` then says what a call does to a chip with
certain contents, and each primitive has a lemma of its own (`verifyStep` and so on).
That the sum of a bank is a number (`TotalNatural`) is an induction over its bytes,
by a least counterexample.

`RegisterProofs` proves two refinements of `RegFile`. Of `Ice`, from `IceAssumption` (the opcodes of the vectors are opcodes,
and XIO is a flag) and for a client that keeps to the rules (`Disciplined`; without
it the statements are false, see section 6), for any contents, opcodes and flags:

| Theorem | States |
|---|---|
| `Invariance` | `Spec => []Inv` |
| `ShadowsKept` | `Spec => []ShadowsAgree` |
| `IsRegisterFile` | the refinement, `Spec => PlainRegisters` |

`ShadowsAgree` becomes inductive with `Ready`: between calls the flags in the shadow
select bank 0, and the chip has the idle code and a program counter below 256, so
that the next vector wakes the chip where it is thought to be. Each call is then
shown to map to one read, write or execution of `RegFile`.

Of `Issp`, from `IsspAssumption` (drivers that there are, and a `T_RISE` below
`T_FALL`) and `VectorAssumption` (vectors are made of an operation and two bytes, and
read from cells that hold bytes), for any vectors, cells, contents and timeouts, and
for a host that is not held up in the first loop of `wait_and_poll` (`~Delays`;
otherwise the statements are false, see section 6):

| Theorem | States |
|---|---|
| `WireInvariance` | `WireSpec => []WireInv` |
| `Turnarounds` | `WireSpec => []NoContention` |
| `TimeoutsMean` | `WireSpec => []TimeoutsRight` |
| `WireIsRegisterFile` | the refinement, `WireSpec => VectorsArrive` |

None of these is inductive: after any edge the two ends have to agree on where in
the vector they are. `WireInv` says so with a count of the edges that the chip has
taken for the bit the program is at (`Edges`): the bits in `rx` are that long a prefix
of what the chip hears of the vector (`Heard`), it drives the bit of the register
that belongs to this count or nothing (`Drives`), and the program's `value` has the
bits above it (`ValueRead`). `Clock` and `Lines` say what SCLK and SDATA are between
the steps of a bit, so that a step is known to be a falling edge or not. `Control`,
`Life` and `Calls` tie the program's place to the chip's acquisition and its system
call: while that runs, the program is in `wait_and_poll` with SDATA released.
`Times` and `Expired` carry the two timeouts over the step between the look at the
time and the one at SDATA.

The lemmas about bits come first: the bits of a byte make it up again (`BitsOfByte`),
also while they come in (`HighBits`), what a chip makes of the n-th bit of a frame
(`Takes`), and that what it hears of a vector has its operation, its address and its
data, and is that of a system call for no other vector (`Hears`). There is a lemma
for each step of the program and the chip, and for the edges what the chip does apart
from where the program goes. `WireIsRegisterFile` then needs only the step of the
19th bit of a write and the end of a read to do anything.

`BscanProofs` proves, from `BscanAssumption`, `PortAssumption` and
`DescriptionAssumption` (a description sets what it selects, has at least one leaf
and leaves the pins of the programming interface alone; a fault is a short of pins
with each other, or with ground or Vdd), for any number of ports and pins, any
descriptions and any circuits:

| Theorem | States |
|---|---|
| `Invariance` | `Spec => []Inv` |
| `CommitIsGentle` | `Spec => []NoStrongOnTheWay` |
| `PatternsArrive` | `Spec => []PinsAsWanted` |
| `NeverFights` | `Spec => []NoFight` |
| `GoodCircuitPasses` | `Spec => []NoFalseAlarm` |
| `ShortsNoticed` | `Spec => []ShortsFound` |

While `commit` is at work the invariant has to say which of its writes have reached
the chip, and what each pin has in its registers meanwhile: `FirstPass` while drive
is taken away, `SecondPass` while it is given. That no strong level shows up between
them is then a question of two bit patterns and the order of six writes, and holds
for all patterns, not only for those `set_value` makes. A good circuit passes because a value chosen by `gentle`, `weak` or `strong` leaves the level of
its pin no choice, or nothing is expected (`PatternInv`, `Healthy`).

That a short is found is a statement about a whole scan, and needs a second invariant,
`Noticed`. As long as there has been no error, it says of every test that
`do_tests` is past (`PassedInv`) that a pattern with the pin pulled one way and all
other shorted pins pulled the other way is among those posted, and of every pattern
posted that the shorted pins can have had a level that none of them was expected to
differ from (`History`). A pattern that is left out because it was posted before is
thus no gap. When the scan is over there are such patterns for each pin and each
level, and no level fits all of them. Two steps matter: no weak pattern around a free
pin is passed over as untestable (`WeakTestable`), and the next pin is the least of
those left, so that none is skipped (`ReturnPasses`).

Only model-checked, and why:

* `Prompt` and `RunsEnd`, which are liveness properties and out of this prover's
  reach.
* All of `Isa` (`PagesFresh`, `RoundTrip`, `DoesAsPrinted`, `Exact`), which needs
  `Bitwise`; its arithmetic is in `Alu`, of which `CpuProofs` proves the chains.
* All of `Labels` (`AssembledAsWritten`, `RightErrors`), whose reference definition is
  recursive over the source.

## 6. Findings

Four runs end with a violation, each of a statement the repository makes; the
quotations are in `PROJECT.json`.

1. `gpio_line`: lowering the line (gpio.c:83) looks at `gpio->int_set` eight times
   instead of `gpios[i].int_set`.
2. `pin_mode_mask`: `gpio_set_r` calls `gpio_may_change` with values that have bits
   outside of the mask, and the assertion there fails.
3. `if_nest_else`: in skipped text the flag of an ELSE is not cleared for the next
   IF, whose own ELSE is then a "duplicate".
4. `labels_equ`: within an EQU, a backward reference to *another* re-definable label
   skips that label's last definition; the README of the assembler says that only
   the label being defined is treated so.

Other differences seen on the way, which no run states:

* `gpio_write_dm2` does not look for interrupts although a pin can become an input
  by it; the comment there (gpio.c:208-212) says it cannot matter.
  `ConditionNoticed` excuses this write.
* Reading the register IC1 of a port returns IC0 (gpio.c:286).
* CPU_SCR0 is kept in the variable of CPU_SCR1 (core.c:729), so that writing one
  changes what the other reads.
* `gpio_ice_disconnect` looks for pins that are still connected from its own port on
  and past the end of the array, not over all ports (gpio.c:357).
* `int_set_ice` does not select (int.c:232), so that the chip's vector can be taken
  once more when the chip is no longer connected; `NoSecondGhost` says that it is
  once.
* `int_handle` clears the chip's pending bit with `int_num & 3` where the register
  number was made with `>> 3` (int.c:86).
* A run without a limit ends when the cycle counter is about to wrap (core.c:656).
* The countdown of `-e` starts anew with every `run` (core.c:640), so a script of
  short runs never looks for interrupts.
* `pp_write` accepts a page number equal to the number of pages (core.c:121).
* `ops_read_program` reads the blocks of the first bank (prog_ops.c:290), and the
  check of protection data covers the first bank only (prog_ops.c:334).
  `SuccessIsTrue` is checked with one bank for this reason.
* `-w -c` with protection data skips the blocks that will be protected, or refuses,
  although the protection is not written yet (m8cprog.c:212-216).
* An empty file is an empty program (file.c:263-265), so that a hex file that was cut
  to nothing is not refused as one that was cut elsewhere is, and its protection is
  lost without a word.
* A binary file that is read without `-b` and begins with a hex digit is read as a
  ROM file (file.c:268): the program of the two bytes 65 and 97, "Aa", is loaded as
  the one byte 0xaa.
* While protection data is mirrored, the loop waits for one exact size
  (security.c:153): with more data than a block it runs on. `ProtectionArrives` is
  about the sizes for which it ends.
* The first loop of `wait_and_poll` reads SDATA and then looks at the time. If the
  host is held up in between, it goes on while the chip is still busy, although the
  comment there says that this is always safe (prog_vector.c:83-86). `Delays` is
  FALSE in the run for this reason.
* `prepare_start` of the ICE has two `if`s behind one another (ice.c:40): when the
  client's code stopped at an address whose low byte is 3, its bytes stay on the
  chip and are what wakes it up. And nothing keeps a client from selecting bank 1
  behind the back of `xio`, by CPU_F or by its code. `Disciplined` excludes these.
* In the scanner, the third test for conflicting values repeats the second
  (lang.y:43), so that 0R against 1R is not taken away; `weak` returns the strong
  value where only the resistive one is allowed (value.c:123-125); `setup` drives
  the pin under test even where the alternative does not select it (test.c:213-220);
  patterns count as repeated when their values agree, whatever is expected of them,
  and a repeated one counts as a success although it may have failed
  (test.c:124-140), so that with `-a` a strong pattern can follow where the comment
  at test.c:100-104 wants the weak one to have worked.
* A reusable label directly behind a label that should separate it from an earlier
  one of its name is looked up by the lexer before the parser has acted on that
  label (m8c.l:379-414); the module has this as `ReadTooEarly`.
* A label that is exported twice is refused if an earlier file has used it
  (id.c:158).

## 7. Not modelled

* Of the simulator: the register writes that it only forwards to the chip
  (`ice_write` and `ice_read` in int.c and gpio.c), the table of register names,
  expressions, labels and output of the script language, and
  `icestubs.c`, which stands in where there is no ICE.
* Of the programmer: option parsing and the choice of a driver (`cli.c`, `prog.c`,
  `prog_common.c`), the table of voltages; the system calls behind the drivers (`tty.c`, `pp.c`, `rt.c`, opening and closing); `waspic.c`, a byte
  protocol with a microcontroller whose program is not in the repository; the
  torture test, a program for testing hardware.
* Of the scanner: maps, status and other output, option parsing.
* Of the assembler: areas, macros, operators of expressions, ASSERT.
* `m8cdas.c`, which prints a file line by line; number formats; the helpers of
  `shared/` that are tables, messages or a pipe to the preprocessor; the generated
  register tables and their generator; libfdr, which is third-party.

## 8. Plan

Done: all modules of section 2, and theorems about every component whose state
changes in steps, except for labels, whose reference definition is recursive.

What is left are the parts of section 7, none of which has a state of its own that
a property here speaks of, and areas of the assembler first among them.
