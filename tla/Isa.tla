--------------------------------- MODULE Isa --------------------------------
(***************************************************************************)
(* The instruction set, which the sources know three times: the simulator  *)
(* executes opcodes (sim/core.c), the disassembler prints them             *)
(* (shared/disasm.c), and the assembler makes them from text (as/m8c.y).   *)
(*                                                                         *)
(* An instruction is <<name, destination, source>>, an operand one of A,   *)
(* X, SP, F, an immediate value, a cell of RAM or a register addressed     *)
(* directly or indexed, a jump target, or none.  The ROM is any ROM: the    *)
(* bytes of an instruction are chosen when it is fetched.                  *)
(***************************************************************************)
EXTENDS Alu, Sequences, Bitwise, TLC

CONSTANTS
  Pages,       \* pages of RAM
  Fetched,     \* bytes found in the ROM behind an opcode
  Rom(_),      \* and those found where ROMX and INDEX read
  Starts,      \* states of the CPU to start from
  MaxSteps     \* bound: instructions executed

IsaAssumption == Pages \in Nat \ {0} /\ Fetched \subseteq Word

VARIABLES
  cpu,     \* its registers, RAM and the pointers to the selected pages
  insn,    \* history: the instruction executed last
  before,  \* history: the CPU before it
  steps

vars == <<cpu, insn, before, steps>>

Space == Base * Base        \* 64 KiB of addresses
-----------------------------------------------------------------------------
(* sim/core.c: what the opcodes are.  The last entry is the number of      *)
(* operand bytes the simulator steps over.                                 *)

Entries(base, t) == [op \in base..base + Len(t) - 1 |-> t[op - base + 1]]

REGULAR_CPU_OPS(base, op, r) ==
  Entries(base, << <<op, r, "imm", 1>>, <<op, r, "dir", 1>>, <<op, r, "idx", 1>> >>)
REGULAR_MEM_OPS(base, op) ==
  Entries(base, << <<op, "dir", "A", 1>>, <<op, "idx", "A", 1>>,
                   <<op, "dir", "imm2", 2>>, <<op, "idx", "imm2", 2>> >>)
REGULAR_OPS(base, op) ==
  REGULAR_CPU_OPS(base, op, "A") @@ REGULAR_MEM_OPS(base + 3, op)
CMP_OPS(base, op) ==
  REGULAR_CPU_OPS(base, op, "A") @@
  Entries(base + 3, << <<op, "dir", "imm2", 2>>, <<op, "idx", "imm2", 2>> >>)
\* Mistake: the next instruction is taken from the second operand.
OPS_REG_short(base, op) ==
  Entries(base, << <<op, "reg", "imm2", 1>>, <<op, "regx", "imm2", 2>> >>)
OPS_REG(base, op) ==
  Entries(base, << <<op, "reg", "imm2", 2>>, <<op, "regx", "imm2", 2>> >>)
SHIFT_OPS(base, op) ==
  Entries(base, << <<op, "A", "", 0>>, <<op, "dir", "", 1>>, <<op, "idx", "", 1>> >>)
INC_OPS(base, op) ==
  Entries(base, << <<op, "A", "", 0>>, <<op, "X", "", 0>>, <<op, "dir", "", 1>>,
                   <<op, "idx", "", 1>> >>)
OFFSET_OP(base, op) == [n \in base..base + 15 |-> <<op, "", "offset", 1>>]

m8c_ops ==
  REGULAR_OPS(1, "ADD") @@ REGULAR_OPS(9, "ADC") @@ REGULAR_OPS(17, "SUB") @@
  REGULAR_OPS(25, "SBB") @@ REGULAR_OPS(33, "AND") @@ REGULAR_OPS(41, "OR") @@
  REGULAR_OPS(49, "XOR") @@ CMP_OPS(57, "CMP") @@
  OPS_REG(65, "AND") @@ OPS_REG(67, "OR") @@ OPS_REG(69, "XOR") @@
  Entries(71, << <<"TST", "dir", "imm2", 2>>, <<"TST", "idx", "imm2", 2>> >>) @@
  OPS_REG(73, "TST") @@
  Entries(75, << <<"SWAP", "A", "X", 0>>, <<"SWAP", "A", "dir", 1>>,
                 <<"SWAP", "X", "dir", 1>>, <<"SWAP", "A", "SP", 0>>,
                 <<"MOV", "X", "SP", 0>> >>) @@
  REGULAR_OPS(80, "MOV") @@ REGULAR_CPU_OPS(87, "MOV", "X") @@
  Entries(90, << <<"MOV", "dir", "X", 1>>, <<"MOV", "A", "X", 0>>,
                 <<"MOV", "X", "A", 0>>, <<"MOV", "A", "reg", 1>>,
                 <<"MOV", "A", "regx", 1>>, <<"MOV", "dir", "dir2", 2>>,
                 <<"MOV", "reg", "A", 1>>, <<"MOV", "regx", "A", 1>> >>) @@
  OPS_REG(98, "MOV") @@
  SHIFT_OPS(100, "ASL") @@ SHIFT_OPS(103, "ASR") @@
  SHIFT_OPS(106, "RLC") @@ SHIFT_OPS(109, "RRC") @@
  Entries(112, << <<"AND", "F", "imm", 1>>, <<"OR", "F", "imm", 1>>,
                  <<"XOR", "F", "imm", 1>>, <<"CPL", "A", "", 0>> >>) @@
  INC_OPS(116, "INC") @@ INC_OPS(120, "DEC") @@
  Entries(124, << <<"LCALL", "", "word", 2>>, <<"LJMP", "", "word", 2>>,
                  <<"RETI", "", "", 0>>, <<"RET", "", "", 0>> >>) @@
  OFFSET_OP(128, "JMP") @@ OFFSET_OP(144, "CALL") @@ OFFSET_OP(160, "JZ") @@
  OFFSET_OP(176, "JNZ") @@ OFFSET_OP(192, "JC") @@ OFFSET_OP(208, "JNC") @@
  OFFSET_OP(224, "JACC") @@ OFFSET_OP(240, "INDEX") @@
  (0 :> <<"SSC", "", "", 0>>) @@ (8 :> <<"PUSH", "A", "", 0>>) @@
  (16 :> <<"PUSH", "X", "", 0>>) @@ (24 :> <<"POP", "A", "", 0>>) @@
  (32 :> <<"POP", "X", "", 0>>) @@ (40 :> <<"ROMX", "", "", 0>>) @@
  (48 :> <<"HALT", "", "", 0>>) @@ (56 :> <<"ADD", "SP", "imm", 1>>) @@
  (62 :> <<"MVI", "A", "dir", 1>>) @@ (63 :> <<"MVI", "dir", "A", 1>>) @@
  (64 :> <<"NOP", "", "", 0>>)
-----------------------------------------------------------------------------
(* sim/core.c and sim/reg.c: flags, pages, registers *)

\* The flags are bits of the byte f.
F == [gie |-> 1, z |-> 2, c |-> 4, xio |-> 16]
Flag(f, k) == (f \div F[k]) % 2
Flags(f, zf, cf) ==
  f + (F.z * ((IF zf THEN 1 ELSE 0) - Flag(f, "z"))) + (F.c * (cf - Flag(f, "c")))
PgMode(f) == f \div 64

CUR_PP == 208
STK_PP == 209
IDX_PP == 211
MVR_PP == 212
MVW_PP == 213
PP == {CUR_PP, STK_PP, IDX_PP, MVR_PP, MVW_PP}
CPU_F == 247
CPU_SCR1 == 254
CPU_SCR0 == 255

update_pages(c) ==
  [c EXCEPT !.direct = IF PgMode(c.f) >= 2 THEN c.pp[CUR_PP] ELSE 0,
            !.indexed = CASE PgMode(c.f) = 0 -> 0
                          [] PgMode(c.f) = 2 -> c.pp[IDX_PP]
                          [] OTHER -> c.pp[STK_PP],
            !.stack = c.pp[STK_PP],
            !.mvi_read = c.pp[MVR_PP], !.mvi_write = c.pp[MVW_PP]]

\* Both status registers are kept in the variable of the second, c.scr; the
\* top bit of the first is read from the flags, and a write to it can only
\* clear bits 4 and 5.
read_cpu_scr0(c) == c.scr + (128 * Flag(c.f, "gie"))
write_cpu_scr0(c, v) == [c EXCEPT !.scr = ((@ | 207) & v) & 127]
write_cpu_scr1(c, v) == [c EXCEPT !.scr = v & 127]

\* Registers with a function of their own are those of the pages, the status
\* and, in both banks, the flags; another one keeps what is written to it
\* (generic_reg) or is forbidden, which only prints a message.
Registers ==
  {<<0, r>> : r \in PP \cup {CPU_SCR0, CPU_SCR1}} \cup {<<b, CPU_F>> : b \in 0..1}
reg_read(c, r) ==
  CASE r[2] = CPU_F -> c.f
    [] r = <<0, CPU_SCR0>> -> read_cpu_scr0(c)
    [] r = <<0, CPU_SCR1>> -> c.scr
    [] r[1] = 0 /\ r[2] \in PP -> c.pp[r[2]]
    [] r = c.generic[1] -> c.generic[2]
    [] OTHER -> 0

\* Mistake: the pointers are not calculated anew.
pp_write_only(c, r, v) == [c EXCEPT !.pp[r] = v]
pp_write(c, r, v) == update_pages([c EXCEPT !.pp[r] = v])
reg_write(c, r, v) ==
  CASE r[2] = CPU_F -> c
    [] r = <<0, CPU_SCR0>> -> write_cpu_scr0(c, v)
    [] r = <<0, CPU_SCR1>> -> write_cpu_scr1(c, v)
    [] r[1] = 0 /\ r[2] \in PP -> pp_write(c, r[2], v)
    [] r = c.generic[1] -> [c EXCEPT !.generic[2] = v]
    [] OTHER -> c
-----------------------------------------------------------------------------
(* sim/core.c: operands and operations.  b[1] and b[2] are the bytes       *)
(* behind the opcode.                                                      *)

Reg(c, n) == <<Flag(c.f, "xio"), n % Base>>
Cell(page, n) == (page * Base) + (n % Base)

Get(c, k, b) ==
  CASE k = "A" -> c.a
    [] k = "X" -> c.x
    [] k = "SP" -> c.sp
    [] k = "F" -> c.f
    [] k = "imm" -> b[1]
    [] k = "imm2" -> b[2]
    [] k = "dir" -> c.ram[Cell(c.direct, b[1])]
    [] k = "dir2" -> c.ram[Cell(c.direct, b[2])]
    [] k = "idx" -> c.ram[Cell(c.indexed, c.x + b[1])]
    [] k = "reg" -> reg_read(c, Reg(c, b[1]))
    [] k = "regx" -> reg_read(c, Reg(c, c.x + b[1]))
    [] k = "" -> 0

Put(c, k, b, v) ==
  CASE k = "A" -> [c EXCEPT !.a = v]
    [] k = "X" -> [c EXCEPT !.x = v]
    [] k = "SP" -> [c EXCEPT !.sp = v]
    [] k = "F" -> update_pages([c EXCEPT !.f = v])
    [] k = "dir" -> [c EXCEPT !.ram[Cell(c.direct, b[1])] = v]
    [] k = "idx" -> [c EXCEPT !.ram[Cell(c.indexed, c.x + b[1])] = v]
    [] k = "reg" -> reg_write(c, Reg(c, b[1]), v)
    [] k = "regx" -> reg_write(c, Reg(c, c.x + b[1]), v)

\* A value and flags for it: the zero flag is set for the value 0.
With(c, k, b, r) ==
  LET d == Put(c, k, b, r.v)
  IN [d EXCEPT !.f = Flags(@, r.v = 0, r.cf)]

Push(c, v) ==
  [c EXCEPT !.ram[Cell(c.stack, c.sp)] = v, !.sp = (@ + 1) % Base]
Popped(c) == c.ram[Cell(c.stack, c.sp + Base - 1)]
Pop(c) == [c EXCEPT !.sp = (@ + Base - 1) % Base]
PushPC(c, pc) == Push(Push(c, pc \div Base), pc % Base)
RET(c) ==
  LET d == Pop(c) IN [Pop(d) EXCEPT !.pc = Popped(c) + (Base * Popped(d))]

Arithmetic == {"ADD", "ADC", "SUB", "SBB", "INC", "DEC",
               "ASL", "ASR", "RLC", "RRC"}
Calculated(op, u, v, cf) ==
  CASE op = "ADD" -> ADD(u, v)
    [] op = "ADC" -> ADC(u, v, cf)
    [] op = "SUB" -> SUB(u, v)
    [] op = "SBB" -> SBB(u, v, cf)
    [] op = "INC" -> INC(u)
    [] op = "DEC" -> DEC(u)
    [] op = "ASL" -> ASL(u)
    [] op = "ASR" -> ASR(u)
    [] op = "RLC" -> RLC(u, cf)
    [] op = "RRC" -> RRC(u, cf)

Bits(op, u, v) ==
  CASE op = "AND" -> u & v [] op = "OR" -> u | v [] op = "XOR" -> u ^^ v

\* OFFSET_OP: 12 bits, extended to 16 by the sign.
Offset(code) ==
  LET n == (Base * (code[1] % 16)) + code[2]
  IN IF n >= 8 * Base THEN n + Space - (16 * Base) ELSE n

\* The jumps are taken from behind the opcode's operand.
JMP(c, offset) == [c EXCEPT !.pc = (@ + offset + Space - 1) % Space]
Jumps(op, f) ==
  \/ op \in {"JMP", "JACC"}
  \/ op = "JZ" /\ Flag(f, "z") = 1
  \/ op = "JNZ" /\ Flag(f, "z") = 0
  \/ op = "JC" /\ Flag(f, "c") = 1
  \/ op = "JNC" /\ Flag(f, "c") = 0

\* m8c_one: the states it can leave the CPU in.
m8c_one(c0, code) ==
  LET i == m8c_ops[code[1]]
      op == i[1]
      k == i[2]
      b == <<code[2], code[3]>>
      u == Get(c0, k, b)
      v == Get(c0, i[3], b)
      cf == Flag(c0.f, "c")
      word == (Base * b[1]) + b[2]
      c == [c0 EXCEPT !.pc = (@ + 1 + i[4]) % Space]
  IN CASE k = "SP" /\ op = "ADD" -> {[c EXCEPT !.sp = (u + v) % Base]}
       [] k # "SP" /\ op \in Arithmetic ->
            {With(c, k, b, Calculated(op, u, v, cf))}
       [] k = "F" -> {Put(c, "F", b, Bits(op, u, v))}
       [] k # "F" /\ op \in {"AND", "OR", "XOR"} ->
            {With(c, k, b, [v |-> Bits(op, u, v), cf |-> cf])}
       [] op = "CPL" -> {With(c, k, b, [v |-> CPL(u), cf |-> cf])}
       [] op = "CMP" -> {[c EXCEPT !.f = Flags(@, CMP(u, v).zf, CMP(u, v).cf)]}
       [] op = "TST" -> {[c EXCEPT !.f = Flags(@, (u & v) = 0, cf)]}
       [] op = "MOV" -> {IF k = "A" THEN With(c, k, b, [v |-> v, cf |-> cf])
                                    ELSE Put(c, k, b, v)}
       [] op = "SWAP" -> LET d == Put(c, i[3], b, u)
                         IN {IF k = "A" THEN With(d, k, b, [v |-> v, cf |-> cf])
                                        ELSE Put(d, k, b, v)}
       [] op = "PUSH" -> {Push(c, u)}
       [] op = "POP" -> {IF k = "A"
                         THEN With(Pop(c), k, b, [v |-> Popped(c), cf |-> cf])
                         ELSE Put(Pop(c), k, b, Popped(c))}
       [] op = "ROMX" -> {With(c, "A", b, [v |-> Rom((c.a * Base) + c.x), cf |-> cf])}
       [] op = "INDEX" ->
            {With(c, "A", b, [v |-> Rom((c.pc + Offset(code) + c.a) % Space), cf |-> cf])}
       \* The pointer moves on.  If it points to itself, C does not say what
       \* comes first.
       [] op = "MVI" /\ k = "A" ->
            LET d == Put(c, "dir", b, (v + 1) % Base)
            IN {With(d, "A", b, [v |-> e.ram[Cell(c.mvi_read, v)], cf |-> cf]) : e \in {c, d}}
       [] op = "MVI" /\ k = "dir" ->
            LET to == Cell(c.mvi_write, u)
                on == Put(c, "dir", b, (u + 1) % Base)
            IN {[on EXCEPT !.ram[to] = c.a]} \cup
               (IF to = Cell(c.direct, b[1]) THEN {on} ELSE {})
       [] op = "LCALL" -> {[PushPC(c, c.pc) EXCEPT !.pc = word]}
       [] op = "LJMP" -> {[c EXCEPT !.pc = word]}
       [] op = "CALL" ->
            {[PushPC(c, c.pc) EXCEPT !.pc = (@ + Offset(code)) % Space]}
       [] op = "RETI" -> {RET(update_pages([Pop(c) EXCEPT !.f = Popped(c)]))}
       [] op = "RET" -> {RET(c)}
       [] op \in {"JMP", "JZ", "JNZ", "JC", "JNC"} ->
            {IF Jumps(op, c.f) THEN JMP(c, Offset(code)) ELSE c}
       [] op = "JACC" -> {JMP(c, Offset(code) + c.a)}
       [] op \in {"NOP", "HALT", "SSC"} -> {c}
-----------------------------------------------------------------------------
(* shared/disasm.c: the text of an instruction, with the numbers in it *)

SEVEN(base, m) ==
  Entries(base, << <<m, "A", "imm">>, <<m, "A", "dir">>, <<m, "A", "idx">>,
                   <<m, "dir", "A">>, <<m, "idx", "A">>,
                   <<m, "dir", "imm">>, <<m, "idx", "imm">> >>)
THREE(base, m) ==
  Entries(base, << <<m, "A", "">>, <<m, "dir", "">>, <<m, "idx", "">> >>)
SI_R(base, m) == Entries(base, << <<m, "reg", "imm">>, <<m, "regx", "imm">> >>)
J12(base, m) == [n \in base..base + 15 |-> <<m, "", "to">>]

m8c_text ==
  SEVEN(1, "ADD") @@ SEVEN(9, "ADC") @@ SEVEN(17, "SUB") @@ SEVEN(25, "SBB") @@
  SEVEN(33, "AND") @@ SEVEN(41, "OR") @@ SEVEN(49, "XOR") @@ SEVEN(80, "MOV") @@
  Entries(56, << <<"ADD", "SP", "imm">>, <<"CMP", "A", "imm">>, <<"CMP", "A", "dir">>,
                 <<"CMP", "A", "idx">>, <<"CMP", "dir", "imm">>,
                 <<"CMP", "idx", "imm">>, <<"MVI", "A", "dir">>,
                 <<"MVI", "dir", "A">>, <<"NOP", "", "">> >>) @@
  SI_R(65, "AND") @@ SI_R(67, "OR") @@ SI_R(69, "XOR") @@
  Entries(71, << <<"TST", "dir", "imm">>, <<"TST", "idx", "imm">> >>) @@
  SI_R(73, "TST") @@
  Entries(75, << <<"SWAP", "A", "X">>, <<"SWAP", "A", "dir">>,
                 <<"SWAP", "X", "dir">>, <<"SWAP", "A", "SP">>,
                 <<"MOV", "X", "SP">> >>) @@
  Entries(87, << <<"MOV", "X", "imm">>, <<"MOV", "X", "dir">>, <<"MOV", "X", "idx">>,
                 <<"MOV", "dir", "X">>, <<"MOV", "A", "X">>, <<"MOV", "X", "A">>,
                 <<"MOV", "A", "reg">>, <<"MOV", "A", "regx">>,
                 <<"MOV", "dir", "dir">>, <<"MOV", "reg", "A">>,
                 <<"MOV", "regx", "A">> >>) @@
  SI_R(98, "MOV") @@
  THREE(100, "ASL") @@ THREE(103, "ASR") @@ THREE(106, "RLC") @@ THREE(109, "RRC") @@
  Entries(112, << <<"AND", "F", "imm">>, <<"OR", "F", "imm">>, <<"XOR", "F", "imm">>,
                  <<"CPL", "A", "">>,
                  <<"INC", "A", "">>, <<"INC", "X", "">>, <<"INC", "dir", "">>,
                  <<"INC", "idx", "">>,
                  <<"DEC", "A", "">>, <<"DEC", "X", "">>, <<"DEC", "dir", "">>,
                  <<"DEC", "idx", "">>,
                  <<"LCALL", "", "far">>, <<"LJMP", "", "far">>,
                  <<"RETI", "", "">>, <<"RET", "", "">> >>) @@
  J12(128, "JMP") @@ J12(144, "CALL") @@ J12(160, "JZ") @@ J12(176, "JNZ") @@
  J12(192, "JC") @@ J12(208, "JNC") @@ J12(224, "JACC") @@ J12(240, "INDEX") @@
  (0 :> <<"SSC", "", "">>) @@ (8 :> <<"PUSH", "A", "">>) @@
  (16 :> <<"PUSH", "X", "">>) @@ (24 :> <<"POP", "A", "">>) @@
  (32 :> <<"POP", "X", "">>) @@ (40 :> <<"ROMX", "", "">>) @@
  (48 :> <<"HALT", "", "">>)

Reference(m) == IF m \in {"CALL", "INDEX"} THEN 2 ELSE 1
PC12(pc, code, m) ==
  LET n == (Base * (code[1] % 16)) + code[2]
  IN (pc + Reference(m) + n + (IF n >= 8 * Base THEN 15 * 16 * Base ELSE 0)) % Space

Numbered == {"imm", "dir", "idx", "reg", "regx"}
m8c_disassemble(pc, code) ==
  LET i == m8c_text[code[1]]
      count == (IF i[2] \in Numbered THEN 1 ELSE 0) + (IF i[3] \in Numbered THEN 1 ELSE 0)
  IN CASE i[3] = "to" -> [insn |-> i, n |-> <<PC12(pc, code, i[1])>>, size |-> 2]
       [] i[3] = "far" -> [insn |-> i, n |-> <<(Base * code[2]) + code[3]>>, size |-> 3]
       [] OTHER -> [insn |-> i, n |-> SubSeq(code, 2, 1 + count), size |-> 1 + count]

\* m8c_bytes: how far m8c_prep expects the program counter to move.
m8c_bytes(op) ==
  CASE op >= 128 -> 2
    [] op \in {0, 8, 16, 24, 32, 40, 48, 64, 75, 78, 79, 91, 92, 100, 103, 106, 109,
               115, 116, 117, 120, 121, 126, 127} -> 1
    [] op \in {124, 125, 95, 98, 99, 60, 61, 85, 86} \cup 65..74
             \cup {b + k : b \in {0, 8, 16, 24, 32, 40, 48}, k \in 6..7} -> 3
    [] OTHER -> 2
-----------------------------------------------------------------------------
(* as/m8c.y and as/code.c: the bytes of a text *)

arithmetic == << <<"A", "imm">>, <<"A", "dir">>, <<"A", "idx">>, <<"dir", "A">>,
                 <<"idx", "A">>, <<"dir", "imm">>, <<"idx", "imm">> >>
logic == arithmetic \o << <<"reg", "imm">>, <<"regx", "imm">>, <<"F", "imm">> >>
shift == << <<"A", "">>, <<"dir", "">>, <<"idx", "">> >>
increment == << <<"A", "">>, <<"X", "">>, <<"dir", "">>, <<"idx", "">> >>
cmp == << <<"A", "imm">>, <<"A", "dir">>, <<"A", "idx">>, <<"dir", "imm">>, <<"idx", "imm">> >>
tst == << <<"dir", "imm">>, <<"idx", "imm">>, <<"reg", "imm">>, <<"regx", "imm">> >>
swap == << <<"A", "X">>, <<"A", "dir">>, <<"X", "dir">>, <<"A", "SP">> >>
mov == arithmetic \o
       << <<"X", "imm">>, <<"X", "dir">>, <<"X", "idx">>, <<"dir", "X">>, <<"A", "X">>,
          <<"X", "A">>, <<"A", "reg">>, <<"A", "regx">>, <<"dir", "dir">>,
          <<"reg", "A">>, <<"regx", "A">>, <<"reg", "imm">>, <<"regx", "imm">> >>

\* The number of the pattern that the operands match.
Match(patterns, i) == (CHOOSE n \in DOMAIN patterns : patterns[n] = <<i[2], i[3]>>) - 1

\* Mistake: the opcodes for registers start behind those for memory.
LOGIC_OP_linear(a, b, c, n) == IF n < 9 THEN a + n ELSE c + n - 9
STORE_OP_LOGIC(a, b, c, n) ==
  (IF n < 7 THEN a ELSE IF n < 9 THEN b - 7 ELSE c - 9) + n

Opcode(i) ==
  LET m == i[1]
      plain == [RET |-> 127, RETI |-> 126, NOP |-> 64, HALT |-> 48, SSC |-> 0,
                ROMX |-> 40, CPL |-> 115, LCALL |-> 124, LJMP |-> 125, JMP |-> 128,
                CALL |-> 144, JZ |-> 160, JNZ |-> 176, JC |-> 192, JNC |-> 208,
                JACC |-> 224, INDEX |-> 240]
      sums == [ADD |-> 1, ADC |-> 9, SUB |-> 17, SBB |-> 25]
      shifts == [ASL |-> 100, ASR |-> 103, RLC |-> 106, RRC |-> 109]
      logics == [AND |-> <<33, 65, 112>>, OR |-> <<41, 67, 113>>, XOR |-> <<49, 69, 114>>]
  IN CASE m = "ADD" /\ i[2] = "SP" -> 56
       [] m \in DOMAIN sums /\ i[2] # "SP" -> sums[m] + Match(arithmetic, i)
       [] m \in DOMAIN logics ->
            STORE_OP_LOGIC(logics[m][1], logics[m][2], logics[m][3], Match(logic, i))
       [] m \in DOMAIN shifts -> shifts[m] + Match(shift, i)
       [] m = "INC" -> 116 + Match(increment, i)
       [] m = "DEC" -> 120 + Match(increment, i)
       [] m = "CMP" -> 57 + Match(cmp, i)
       [] m = "TST" -> 71 + Match(tst, i)
       [] m = "SWAP" -> 75 + Match(swap, i)
       [] m = "MOV" -> IF i[3] = "SP" THEN 79 ELSE 80 + Match(mov, i)
       [] m = "MVI" -> IF i[2] = "A" THEN 62 ELSE 63
       [] m = "PUSH" -> 8 + (IF i[2] = "A" THEN 0 ELSE 8)
       [] m = "POP" -> 24 + (IF i[2] = "A" THEN 0 ELSE 8)
       [] m \in DOMAIN plain -> plain[m]

\* store_offset: from set_base behind the instruction, 16 bits with a sign,
\* of which 12 are stored.
set_base(m) == IF m \in {"CALL", "INDEX"} THEN 2 ELSE 1
Distance(data, pos, base) ==
  ((data - pos - base + (Space \div 2)) % Space) - (Space \div 2)
InRange(offset) == offset <= (8 * Base) - 1 /\ offset >= -(8 * Base)

Assembled(t, pos) ==
  LET op == Opcode(t.insn)
      offset == Distance(t.n[1], pos, set_base(t.insn[1]))
  IN CASE t.insn[3] = "to" -> IF InRange(offset)
            THEN <<op + ((offset \div Base) % 16), offset % Base>> ELSE <<>>
       [] t.insn[3] = "far" -> <<op, t.n[1] \div Base, t.n[1] % Base>>
       [] OTHER -> <<op>> \o t.n
-----------------------------------------------------------------------------
(* Instructions and interrupts *)

\* m8c_prep: an instruction that reaches the end of memory is not executed.
Fits(code) == cpu.pc + m8c_bytes(code[1]) < Space

Fetch == {<<op, b1, b2>> : op \in 0..255, b1 \in Fetched, b2 \in Fetched}
\* The same bytes are not tried again with others behind them.
Distinct(code) ==
  \A n \in 2..3 : n > m8c_bytes(code[1]) => code[n] = CHOOSE b \in Fetched : TRUE

Execute(code) ==
  /\ Fits(code)
  /\ cpu' \in m8c_one(cpu, code)
  /\ insn' = code

\* int_handle, for any vector.
int_handle(vector) ==
  /\ Flag(cpu.f, "gie") = 1
  /\ cpu' = [update_pages([Push(PushPC(cpu, cpu.pc), cpu.f) EXCEPT !.f = 0]) EXCEPT !.pc = vector]
  /\ insn' = <<>>

Init ==
  /\ cpu \in {update_pages(c) : c \in Starts}
  /\ insn = <<>>
  /\ before = cpu
  /\ steps = 0

Next ==
  /\ steps < MaxSteps
  /\ steps' = steps + 1
  /\ before' = cpu
  /\ \/ \E code \in Fetch : Distinct(code) /\ Execute(code)
     \/ int_handle(4)

Spec == Init /\ [][Next]_vars
-----------------------------------------------------------------------------
(* Properties *)

Executed == insn # <<>>
Text == m8c_disassemble(before.pc, insn)
Name == Text.insn[1]
Dest == Text.insn[2]
Source == Text.insn[3]
Behind == (before.pc + Text.size) % Space

\* The pages are those that the flags and the page registers select now, however
\* these were changed: by instructions, an interrupt, or the return from one
\* (core.c:91-118: the pointers are kept, and calculated anew on a change).
PagesFresh == cpu = update_pages(cpu)

\* What the disassembler prints, given to the assembler at the same address, is
\* the instruction that was executed (shared/disasm.c, as/m8c.y, as/code.c).
RoundTrip == Executed => Assembled(Text, before.pc) = SubSeq(insn, 1, Text.size)

\* The program continues behind the bytes that the disassembler has printed and
\* m8c_prep has checked, or at the printed target; a call leaves the address
\* behind it for RET, its high byte first (core.c:304-352, 465-634).
FlowAsPrinted ==
  Executed =>
    /\ Text.size = m8c_bytes(insn[1])
    /\ CASE Name \in {"RET", "RETI"} -> TRUE
         [] Name \in {"CALL", "LCALL"} ->
              /\ cpu.pc = Text.n[1]
              /\ RET(cpu).pc = Behind /\ RET(cpu).sp = before.sp
         [] Name \in {"JMP", "LJMP"} -> cpu.pc = Text.n[1]
         [] Name = "JACC" -> cpu.pc = (Text.n[1] + before.a) % Space
         [] Name \in {"JZ", "JNZ"} ->
              cpu.pc = IF (Name = "JZ") = (Flag(before.f, "z") = 1) THEN Text.n[1] ELSE Behind
         [] Name \in {"JC", "JNC"} ->
              cpu.pc = IF (Name = "JC") = (Flag(before.f, "c") = 1) THEN Text.n[1] ELSE Behind
         [] OTHER -> cpu.pc = Behind

\* The cells that an instruction may change: its destination, the other side of
\* a SWAP, the stack, what MVI points to and the pointer.
Cells ==
  LET page(indexed) ==
        CASE PgMode(before.f) = 0 -> 0
          [] PgMode(before.f) = 1 -> IF indexed THEN before.pp[STK_PP] ELSE 0
          [] PgMode(before.f) = 2 -> before.pp[IF indexed THEN IDX_PP ELSE CUR_PP]
          [] PgMode(before.f) = 3 -> before.pp[IF indexed THEN STK_PP ELSE CUR_PP]
      direct == Cell(page(FALSE), insn[2])
      top == IF Name \in {"PUSH", "CALL", "LCALL"} THEN (cpu.sp - before.sp) % Base ELSE 0
  IN (IF "dir" \in {Dest, Source} /\ (Dest = "dir" \/ Name \in {"SWAP", "MVI"})
      THEN {direct} ELSE {})
     \cup (IF Dest = "idx" THEN {Cell(page(TRUE), before.x + insn[2])} ELSE {})
     \cup {Cell(before.pp[STK_PP], before.sp + i) : i \in 0..top - 1}
     \cup (IF Name = "MVI" /\ Dest = "dir"
           THEN {Cell(before.pp[MVW_PP], before.ram[direct])} ELSE {})

\* An instruction changes what it prints as its destination and nothing else:
\* compares and tests nothing but flags (core.c:159-465).
ChangesAsPrinted ==
  Executed =>
    /\ \A i \in DOMAIN cpu.ram : cpu.ram[i] # before.ram[i] => i \in Cells
    /\ cpu.a # before.a => Name \in {"ROMX", "INDEX"} \/ (Dest = "A" /\ Name # "CMP")
    /\ cpu.x # before.x => "X" \in {Dest, Source} /\ (Dest = "X" \/ Name = "SWAP")
    /\ cpu.sp # before.sp =>
         \/ "SP" \in {Dest, Source} /\ Name \in {"ADD", "SWAP"}
         \/ Name \in {"PUSH", "POP", "CALL", "LCALL", "RET", "RETI"}
    /\ (cpu.pp # before.pp \/ cpu.generic # before.generic \/ cpu.scr # before.scr) =>
         Dest \in {"reg", "regx"} /\ Name # "TST"

\* An instruction goes on where its text says, and what it changes is what its text
\* names, whatever the values are that it stores (shared/disasm.c, sim/core.c).
DoesAsPrinted == FlowAsPrinted /\ ChangesAsPrinted

\* Sums and differences are exact when the carry is counted: as one Base more, or
\* as one Base borrowed; and the zero flag is that of the byte (core.c:224-245).
Exact ==
  Executed /\ Name \in {"ADD", "ADC", "SUB", "SBB"} /\ Dest # "SP" =>
    LET from == update_pages(before)
        u == Get(from, Dest, Tail(insn))
        v == Get(from, m8c_ops[insn[1]][3], Tail(insn))
        r == Get([cpu EXCEPT !.x = before.x], Dest, Tail(insn))
        cf == IF Name \in {"ADC", "SBB"} THEN Flag(before.f, "c") ELSE 0
        carry == Base * Flag(cpu.f, "c")
    IN /\ IF Name \in {"ADD", "ADC"} THEN u + v + cf = r + carry
                                    ELSE u - v - cf = r - carry
       /\ Flag(cpu.f, "z") = 1 <=> r = 0
=============================================================================
