-------------------------------- MODULE Prim --------------------------------
(***************************************************************************)
(* The ISSP primitives as sequences of vectors: prog/prog_prim.c with      *)
(* prog/vectors.h.  A primitive is one step: what its vectors do to the    *)
(* chip, one after the other.                                              *)
(*                                                                         *)
(* The chip is external.  The programmer fills in registers and RAM, lets  *)
(* the chip execute a system call (SSC), which works on the Flash, and     *)
(* gets results in the same bytes of RAM it has put the parameters in.     *)
(* Executing leaves the program counter, the stack pointer and the keys    *)
(* with other contents, so everything has to be set up once more.          *)
(***************************************************************************)
EXTENDS Naturals

CONSTANTS
  Banks, Blocks, BLOCK_SIZE, Byte,
  Blanks,       \* the contents the Flash starts with: each block has one
  Written       \* what write_block is given

PrimAssumption ==
  /\ Banks \in 1..256 /\ Blocks \in 1..256
  /\ BLOCK_SIZE \in 1..120           \* the buffer ends below KEY1
  /\ 0 \in Byte /\ Byte \subseteq 0..255
  /\ Blanks \cup Written \subseteq [0..BLOCK_SIZE - 1 -> Byte]

Bank == 0..Banks - 1
Block == 0..Blocks - 1
None == "none"

KEY1_MAGIC == 58
OP_SSC == 0
OP_HALT == 48
OP_NOP == 64
OP_MOV_A_SD_MEM == 81
OP_MOV_A_DD_REG == 96
SSC_ReadBlock == 1
SSC_WriteBlock == 2
SSC_ProtectBlock == 4
SSC_EraseAll == 5
SSC_TableRead == 6
SSC_Checksum == 7
SSC_Calibrate1 == 9
SSC_ReadProtection == 16

\* Addresses: in RAM, in register bank 0, in register bank 1, and the flag of
\* CPU_F that selects bank 1.  FLS_PR1 has the address of CPU_CODE2.
KEY1 == 248
KEY2 == 249
BLOCKID == 250
POINTER == 251
CLOCK == 252
RESERVED_FD == 253
DELAY == 254
RESERVED_FF == 255
RETURN_CODE == KEY1

CPU_A == 240
CPU_X == 243
CPU_PCL == 244
CPU_PCH == 245
CPU_SP == 246
CPU_F == 247
CPU_CODE0 == 248
CPU_CODE1 == 249
CPU_CODE2 == 250

FLS_PR1 == 250
OSC_CR0 == 224
IMO_TR == 232
BDG_TR == 234
XIO == 16

Results == 248..255
RAM == (128..127 + BLOCK_SIZE) \cup Results
Addr == Results \cup {CPU_A, CPU_X, CPU_PCL, CPU_PCH, CPU_SP, OSC_CR0, IMO_TR, BDG_TR}
Regs == {0, 1} \X Addr

VARIABLES
  chip,       \* external: RAM, registers, CPU_F, Flash
  upset,      \* history: an SSC has found something missing
  out,        \* the primitive called last, with what it was given or returned
  block,      \* history: the block set last
  results     \* history: RETURN_CODE has been overwritten with results

vars == <<chip, upset, out, block, results>>

\* Two protection bits for each block.
Bits(s, b) == (s[b \div 4] \div (4 ^ (b % 4))) % 4

\* The bytes of the first n blocks of a bank, added up.
Total(f, n) ==
  LET upTo[j \in 0..n * BLOCK_SIZE] ==
        IF j = 0 THEN 0
        ELSE upTo[j - 1] + f[(j - 1) \div BLOCK_SIZE][(j - 1) % BLOCK_SIZE]
  IN  upTo[n * BLOCK_SIZE]
Sum(f) == Total(f, Blocks)
-----------------------------------------------------------------------------
(* What vectors do to chip c (vectors.h).  A vector has a byte of data. *)

At(c, a) == <<IF c.f = XIO THEN 1 ELSE 0, a>>

WRITE_F(c, d) == [c EXCEPT !.f = d]
WRITE_REG(c, a, d) == [c EXCEPT !.reg = [@ EXCEPT ![At(c, a)] = d % 256]]
WRITE_MEM(c, a, d) == [c EXCEPT !.ram = [@ EXCEPT ![a] = d % 256]]

\* The chip executes one of two instructions.
EXEC_VECTOR(c) ==
  IF c.reg[<<0, CPU_CODE0>>] = OP_MOV_A_SD_MEM
  THEN [c EXCEPT !.reg = [@ EXCEPT ![<<0, CPU_A>>] = c.ram[c.reg[<<0, CPU_CODE1>>]]]]
  ELSE [c EXCEPT !.reg = [@ EXCEPT ![At(c, c.reg[<<0, CPU_CODE1>>])] =
                                      c.reg[<<0, CPU_A>>]]]

-----------------------------------------------------------------------------
(* System calls *)

\* The factory's table: a different number in every place.
Row(n, a) == 1000 * (n + 1) + a

Zeros == [i \in 0..BLOCK_SIZE - 1 |-> 0]

Buffer(c) == [i \in 0..BLOCK_SIZE - 1 |-> c.ram[128 + i]]
Load(c, d) == [c EXCEPT !.ram =
  [a \in RAM |-> IF a \in Results THEN @[a] ELSE d[a - 128]]]

Asks(c, code) == c.reg[<<0, CPU_A>>] = code

\* Whether all is there that an SSC needs: the pointer only if it uses the
\* buffer, the timing only if it changes the Flash.
Ready(c) ==
  /\ c.f = 0
  /\ c.reg[<<0, CPU_PCH>>] = 0 /\ c.reg[<<0, CPU_PCL>>] = 3
  /\ c.reg[<<0, CPU_SP>>] = 0 /\ c.reg[<<0, CPU_CODE0>>] = OP_SSC
  /\ c.reg[<<0, CPU_CODE1>>] = OP_HALT /\ c.reg[<<0, CPU_CODE2>>] = OP_NOP
  /\ c.ram[KEY1] = KEY1_MAGIC /\ c.ram[KEY2] = 3
  /\ ~Asks(c, SSC_Checksum) => c.ram[POINTER] = 128
  /\ Asks(c, SSC_WriteBlock) \/ Asks(c, SSC_EraseAll) \/ Asks(c, SSC_ProtectBlock)
       => c.ram[CLOCK] \in {21, 84} /\ c.ram[DELAY] = 86

\* What it leaves behind: the return code, and what has to be set up anew.
Return(c, code) ==
  [c EXCEPT !.ram = [@ EXCEPT ![KEY1] = code, ![KEY2] = 0, ![CLOCK] = 0, ![DELAY] = 0],
            !.reg = [@ EXCEPT ![<<0, CPU_PCL>>] = 4, ![<<0, CPU_SP>>] = 1,
                              ![<<0, CPU_CODE2>>] = 0]]

\* The results of a checksum are its two bytes, those of TableRead a row.
Summed(c, n) ==
  [c EXCEPT !.ram = [@ EXCEPT ![KEY1] = n % 256, ![KEY2] = (n \div 256) % 256]]
TableRow(c, n) ==
  [c EXCEPT !.ram = [a \in RAM |-> IF a \in Results THEN Row(n, a) ELSE @[a]],
            !.reg = [@ EXCEPT ![<<0, CPU_A>>] = Row(n, CPU_A),
                              ![<<0, CPU_X>>] = Row(n, CPU_X)]]

\* A block of the Flash, all of it, and the protection bits of a bank.
Program(c, k, b, d) == [c EXCEPT !.flash = [@ EXCEPT ![k][b] = d]]
Erase(c) == [c EXCEPT !.flash = [j \in Bank |-> [i \in Block |-> Zeros]],
                      !.secure = [j \in Bank |-> Zeros]]
Protect(c, k, d) == [c EXCEPT !.secure = [@ EXCEPT ![k] = d]]

\* In a byte 256 blocks are 0.
EXEC_VECTOR_SSC(c) ==
  LET k == c.reg[<<1, FLS_PR1>>]
      b == c.ram[BLOCKID]
      protection == Bits(c.secure[k], b)
      run == Return(c, 0)
  IN /\ upset' = (upset \/ ~Ready(c))
     /\ \/ Asks(c, SSC_Calibrate1) /\ chip' = run
        \/ /\ Asks(c, SSC_ReadBlock)
           /\ chip' = IF protection > 0 THEN Return(c, 1) ELSE Load(run, c.flash[k][b])
        \/ /\ Asks(c, SSC_WriteBlock)
           /\ chip' = IF protection > 1 THEN Return(c, 1)
                      ELSE Program(run, k, b, Buffer(c))
        \/ Asks(c, SSC_EraseAll) /\ chip' = Erase(run)
        \/ Asks(c, SSC_ProtectBlock) /\ chip' = Protect(run, k, Buffer(c))
        \/ Asks(c, SSC_ReadProtection) /\ chip' = Load(run, c.secure[k])
        \/ Asks(c, SSC_TableRead) /\ chip' = TableRow(run, b)
        \/ /\ Asks(c, SSC_Checksum)
           /\ chip' = Summed(run, Total(c.flash[k], IF b = 0 THEN 256 ELSE b))
-----------------------------------------------------------------------------
(* Sequences of vectors (vectors.h) *)

VECTOR_PTROP_PREAMBLE(c, pointer) ==
  LET c1 == WRITE_REG(WRITE_F(c, 0), CPU_SP, 0)
      c2 == WRITE_MEM(WRITE_MEM(c1, KEY1, KEY1_MAGIC), KEY2, 3)
      c3 == WRITE_REG(WRITE_REG(c2, CPU_PCH, 0), CPU_PCL, 3)
      c4 == WRITE_MEM(c3, POINTER, pointer)
  IN  WRITE_REG(WRITE_REG(c4, CPU_CODE1, OP_HALT), CPU_CODE2, OP_NOP)

VECTOR_SSC(c, code) ==
  EXEC_VECTOR_SSC(WRITE_REG(WRITE_REG(c, CPU_A, code), CPU_CODE0, OP_SSC))

\* The code of VECTOR_MOV_A_*.
Instruction(c, op, addr) ==
  LET c1 == WRITE_REG(WRITE_REG(WRITE_F(c, 0), CPU_PCL, 3), CPU_PCH, 0)
      c2 == WRITE_REG(WRITE_REG(c1, CPU_SP, 8), CPU_CODE0, op)
  IN  WRITE_REG(WRITE_REG(c2, CPU_CODE1, addr), CPU_CODE2, OP_HALT)
VECTOR_MOV_A_SD_MEM(c, addr) ==
  EXEC_VECTOR(Instruction(c, OP_MOV_A_SD_MEM, addr))
VECTOR_MOV_A_DD_REG_1(c, addr) ==
  EXEC_VECTOR(WRITE_F(Instruction(c, OP_MOV_A_DD_REG, addr), XIO))

INITIALIZE_1_REST ==
  VECTOR_SSC(VECTOR_PTROP_PREAMBLE(chip, 128), SSC_Calibrate1)
INITIALIZE_2 ==
  VECTOR_SSC(WRITE_MEM(VECTOR_PTROP_PREAMBLE(chip, 128), BLOCKID, 1), SSC_TableRead)
INITIALIZE_3(imo, bdg) ==
  LET c == VECTOR_MOV_A_DD_REG_1(VECTOR_MOV_A_SD_MEM(chip, imo), BDG_TR)
  IN  chip' = VECTOR_MOV_A_DD_REG_1(VECTOR_MOV_A_SD_MEM(c, bdg), IMO_TR)

\* Mistake: the bank number is written before its register can be reached.
SET_BANK_NUM_early(n) ==
  chip' = WRITE_F(WRITE_F(WRITE_REG(chip, FLS_PR1, n), XIO), 0)
SET_BANK_NUM(n) ==
  chip' = WRITE_F(WRITE_REG(WRITE_F(chip, XIO), FLS_PR1, n), 0)

SET_BLOCK_NUM(n) == chip' = WRITE_MEM(chip, BLOCKID, n)
CHECKSUM_SETUP(n) ==
  LET c == VECTOR_PTROP_PREAMBLE(chip, IF n = 128 THEN 0 ELSE 128)
  IN  VECTOR_SSC(WRITE_MEM(c, BLOCKID, n), SSC_Checksum)
VERIFY_SETUP == VECTOR_SSC(VECTOR_PTROP_PREAMBLE(chip, 128), SSC_ReadBlock)

\* PROGRAM_BLOCK, SECURE and ERASE: the clock depends on the chip.
Timed(clock, code) ==
  LET c == WRITE_MEM(WRITE_MEM(chip, CLOCK, clock), DELAY, 86)
  IN  VECTOR_SSC(VECTOR_PTROP_PREAMBLE(c, 128), code)

ID_SETUP_3MHz(c) ==
  VECTOR_SSC(WRITE_MEM(VECTOR_PTROP_PREAMBLE(c, 128), BLOCKID, 0), SSC_TableRead)
ID_SETUP == ID_SETUP_3MHz(WRITE_REG(WRITE_F(chip, XIO), OSC_CR0, 2))
VERIFY_SECURE_SETUP ==
  LET c == VECTOR_PTROP_PREAMBLE(chip, 128)
  IN  VECTOR_SSC(WRITE_MEM(WRITE_MEM(c, RESERVED_FD, 0), RESERVED_FF, 0),
                 SSC_ReadProtection)
-----------------------------------------------------------------------------
(* prog_prim.c.  The guards are the order in which prog_ops.c calls.  *)

Called == out[1]
Initialized == Called \notin {None, "write_block"}

Done(name, overwritten) == out' = <<name>> /\ results' = overwritten /\ UNCHANGED block

initialize_1 ==
  /\ Called = None
  /\ INITIALIZE_1_REST
  /\ Done("initialize_1", FALSE)

initialize_2 ==
  /\ Called = "initialize_1"
  /\ INITIALIZE_2
  /\ Done("initialize_2", TRUE)

initialize_3(voltage) ==
  /\ Called = "initialize_2"
  /\ \/ voltage = 3 /\ INITIALIZE_3(248, 249) /\ Done("3V", results)
     \/ voltage = 5 /\ INITIALIZE_3(252, 253) /\ Done("5V", results)
  /\ UNCHANGED upset

set_bank_num(b) ==
  /\ Initialized
  /\ SET_BANK_NUM(b)
  /\ out' = <<"set_bank_num", b>>
  /\ UNCHANGED <<upset, block, results>>

set_block_num(b) ==
  /\ Initialized
  /\ SET_BLOCK_NUM(b)
  /\ out' = <<"set_block_num", b>>
  /\ block' = b
  /\ UNCHANGED <<upset, results>>

\* The sum of the bank, the high byte from KEY2.
checksum ==
  /\ Initialized
  /\ CHECKSUM_SETUP(Blocks)
  /\ out' = <<"checksum", 256 * chip'.ram[KEY2] + chip'.ram[KEY1]>>
  /\ results' = TRUE
  /\ UNCHANGED block

\* The block has been set and the RAM still has it.
BlockSet == chip.ram[BLOCKID] = block

verify == Initialized /\ BlockSet /\ VERIFY_SETUP /\ Done("verify", FALSE)

program_block(clock) ==
  /\ Called = "write_block" /\ BlockSet
  /\ Timed(clock, SSC_WriteBlock)
  /\ Done("program_block", FALSE)

erase_all ==
  Initialized /\ Timed(21, SSC_EraseAll) /\ Done("erase_all", FALSE)

id(raise_cpuclk) ==
  /\ Initialized
  /\ IF raise_cpuclk THEN ID_SETUP ELSE ID_SETUP_3MHz(chip)
  /\ out' = <<"id", 256 * chip'.ram[248] + chip'.ram[249]>>
  /\ results' = TRUE
  /\ UNCHANGED block

revision ==
  /\ Called = "id"
  /\ out' = <<"revision", 256 * chip.reg[At(chip, CPU_A)] + chip.reg[At(chip, CPU_X)]>>
  /\ UNCHANGED <<chip, upset, block, results>>

secure(clock) ==
  /\ Called = "write_block"
  /\ Timed(clock, SSC_ProtectBlock)
  /\ Done("secure", FALSE)

verify_secure ==
  Initialized /\ VERIFY_SECURE_SETUP /\ Done("verify_secure", FALSE)

\* One WRITE_BYTE after the other.
write_block(d) ==
  /\ Initialized
  /\ chip' = Load(chip, d)
  /\ out' = <<"write_block", d>>
  /\ UNCHANGED <<upset, block, results>>

read_block ==
  /\ Called = "return_code"
  /\ out' = <<"read_block", Buffer(chip)>>
  /\ UNCHANGED <<chip, upset, block, results>>

return_code ==
  /\ Called \in {"verify", "secure", "verify_secure"}
  /\ out' = <<"return_code", chip.ram[RETURN_CODE]>>
  /\ UNCHANGED <<chip, upset, block, results>>

Init ==
  /\ chip \in [ram : {[a \in RAM |-> 0]}, reg : {[r \in Regs |-> 0]}, f : {0},
               flash : [Bank -> [Block -> Blanks]], secure : [Bank -> Blanks]]
  /\ upset = FALSE
  /\ out = <<None>>
  /\ block = 0
  /\ results = FALSE

Next ==
  \/ initialize_1 \/ initialize_2 \/ checksum \/ verify \/ erase_all
  \/ revision \/ verify_secure \/ read_block \/ return_code
  \/ \E v \in {3, 5} : initialize_3(v)
  \/ \E b \in Bank : set_bank_num(b)
  \/ \E b \in Block : set_block_num(b)
  \/ \E clock \in {84, 21} : program_block(clock) \/ secure(clock)
  \/ \E raise_cpuclk \in BOOLEAN : id(raise_cpuclk)
  \/ \E d \in Written : write_block(d)

Spec == Init /\ [][Next]_vars
-----------------------------------------------------------------------------
(* Properties *)

\* Whatever primitive came before, an SSC finds all that it needs set up, in
\* the bank where it looks for it (VECTOR_PTROP_PREAMBLE).
SscReady == ~upset

\* The trim registers get the values of the supply voltage, read from the
\* table one primitive before (INITIALIZE_2, INITIALIZE_3).
Trimmed ==
  LET trim(bdg, imo) == /\ chip.reg[<<1, BDG_TR>>] = Row(1, bdg)
                        /\ chip.reg[<<1, IMO_TR>>] = Row(1, imo)
  IN /\ Called = "3V" => trim(248, 249)
     /\ Called = "5V" => trim(252, 253)

\* The chip that programs see (prog/drv/dummy.c has one without registers).
Chip == INSTANCE FlashChip WITH
  flash <- chip.flash, secure_flash <- chip.secure,
  curr_bank <- chip.reg[<<1, FLS_PR1>>], curr_block <- block,
  buffer <- Buffer(chip),
  return_code <- IF results THEN 0 ELSE chip.ram[RETURN_CODE]

\* The primitives are those of a chip with banks, blocks and a buffer, and its
\* system calls have all they need: registers and RAM that the primitives
\* share are never mixed up (prog_prim.c, vectors.h).
ActsAsFlash == Chip!Spec /\ [](SscReady /\ Trimmed)
=============================================================================
