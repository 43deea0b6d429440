---------------------------- MODULE MCToolchain ----------------------------
(***************************************************************************)
(* Instances of the modules about programs as text: IfNest for conditional *)
(* assembly, Labels for names and what they stand for, and Isa for single  *)
(* instructions, which the assembler makes, the disassembler prints and    *)
(* the simulator executes.  A run has one of them take steps, and the      *)
(* others stay in a first state.                                           *)
(***************************************************************************)
EXTENDS IfNest, Alu

CONSTANTS Parts, NonReusable, Reusable, Redefinable, MaxItems, MaxFiles, Pages
VARIABLES part, source, menu, file, look, table, value, status,
          cpu, insn, before, steps

labelVars == <<source, menu, file, look, table, value, status>>
cpuVars == <<cpu, insn, before, steps>>

-----------------------------------------------------------------------------
(* Labels: of several files; reusable ones; re-definable ones. *)

Ref(name, direction) == [name |-> name, direction |-> direction]
Number == Ref("", 0)
Define(n, global, r) == [op |-> "define", name |-> n, global |-> global, equ |-> r]
Local(n) == Define(n, FALSE, Number)
Equ(n, r) == Define(n, FALSE, r)
Db(r) == [op |-> "db", ref |-> r]
Export(n) == [op |-> "export", name |-> n]
End == [op |-> "eof"]

Across == {Local("a"), Define("a", TRUE, Number), Equ("b", Ref("a", 0)),
           Equ("a", Ref("b", 0)), Db(Ref("a", 0)), Db(Ref("b", 0)), Export("a"), End}
Between == {Local("a"), Local(".r"), Equ(".r", Ref("a", 0)), Equ("a", Ref(".r", 0)),
            Db(Ref(".r", 0)), Db(Ref("a", 0)), End}
Again == {Local("a"), Local(".1"), Equ(".1", Ref(".1", -1)), Equ(".1", Ref(".1", 1)),
          Equ("a", Ref(".1", 1)), Equ("a", Ref(".1", -1)), Db(Ref(".1", -1)),
          Db(Ref(".1", 1)), End}
Menus == {Across, Between, Again}

Names == INSTANCE Labels

-----------------------------------------------------------------------------
(* Instructions: every opcode, with operands at the ends of a byte and at  *)
(* the registers of pages and flags, from a few states of the CPU.         *)

Fetched == {0, 1, 127, 128, 255, 208, 247}

\* The contents of the ROM: another byte than at the addresses next to it.
Rom(addr) == (addr + (addr \div Base)) % Base

\* Page 0 holds each number at its own address, page 1 the other way round.
Cells0(n) == IF n < Base THEN n ELSE (2 * Base) - 1 - n
State(a, x, sp, f, pc, pages) ==
  [a |-> a, x |-> x, sp |-> sp, f |-> f, pc |-> pc,
   ram |-> [n \in 0..(Base * Pages) - 1 |-> Cells0(n)],
   pp |-> [r \in 208..213 \ {210} |-> IF r \in pages THEN 1 ELSE 0],
   generic |-> <<<<0, 0>>, 128>>, scr |-> 48 * (sp % 2),
   direct |-> 0, indexed |-> 0, stack |-> 0, mvi_read |-> 0, mvi_write |-> 0]

Starts ==
  {State(128, 255, 255, 1, 0, {}), State(0, 0, 0, 4 + 1, 65533, {209, 213}),
   State(255, 1, 2, 2 + 64, 32768, {209}), State(1, 128, 254, 6 + 128, 254, {208}),
   State(127, 255, 1, 1 + 16 + 192, 65000, {208, 212}),
   State(255, 48, 128, 6, 4095, {213}), State(0, 127, 3, 4 + 128, 65535, {211}),
   State(254, 2, 255, 2 + 4 + 64, 61440, {209, 212})}
MaxSteps == 1

Cpu8 == INSTANCE Isa

ASSUME IsaAssumption == Cpu8!IsaAssumption

-----------------------------------------------------------------------------
FirstSource == Names!Init /\ menu = Across
FirstCpu ==
  cpu = State(0, 0, 0, 0, 0, {}) /\ insn = <<>> /\ before = cpu /\ steps = 0

MCInit ==
  /\ part \in Parts
  /\ Init
  /\ IF part = "labels" THEN Names!Init ELSE FirstSource
  /\ IF part = "cpu" THEN Cpu8!Init ELSE FirstCpu

IfSteps == part = "if" /\ Next /\ UNCHANGED <<part, labelVars, cpuVars>>
LabelSteps == part = "labels" /\ Names!Next /\ UNCHANGED <<part, vars, cpuVars>>
CpuSteps == part = "cpu" /\ Cpu8!Next /\ UNCHANGED <<part, vars, labelVars>>
MCSpec ==
  MCInit /\ [][IfSteps \/ LabelSteps \/ CpuSteps]_<<part, vars, labelVars, cpuVars>>

\* See Labels: what labels stand for, and which errors there are.
AssembledAsWritten == Names!AssembledAsWritten
RightErrors == Names!RightErrors
EquIgnoresItself == Names!EquIgnoresItself

\* See Isa: assembler, disassembler and simulator mean the same instruction.
PagesFresh == part = "cpu" => Cpu8!PagesFresh
RoundTrip == Cpu8!RoundTrip
DoesAsPrinted == Cpu8!DoesAsPrinted
Exact == Cpu8!Exact
=============================================================================
