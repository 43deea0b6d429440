------------------------------ MODULE PrimProofs -----------------------------
(***************************************************************************)
(* Proofs about Prim: the primitives, as sequences of vectors, implement   *)
(* the chip of FlashChip, and system calls find all that they need.        *)
(***************************************************************************)
EXTENDS Prim, Sequences, TLAPS, WellFoundedInduction

Contents == [0..BLOCK_SIZE - 1 -> Byte]

IsChip(c) ==
  c \in [ram : [RAM -> Nat], reg : [Regs -> Nat], f : {0, XIO},
         flash : [Bank -> [Block -> Contents]], secure : [Bank -> Contents]]

\* What vectors leave alone unless they are meant to change it.
Same(c, d) ==
  /\ d.flash = c.flash /\ d.secure = c.secure
  /\ d.reg[<<1, FLS_PR1>>] = c.reg[<<1, FLS_PR1>>]
  /\ \A i \in 0..BLOCK_SIZE - 1 : d.ram[128 + i] = c.ram[128 + i]

\* Fields of a chip.
LEMMA Fields ==
  ASSUME NEW c, IsChip(c)
  PROVE  /\ c.ram \in [RAM -> Nat] /\ c.reg \in [Regs -> Nat] /\ c.f \in {0, XIO}
         /\ c.flash \in [Bank -> [Block -> Contents]]
         /\ c.secure \in [Bank -> Contents]
BY DEF IsChip

\* WRITE_F changes the flags only.
LEMMA WriteF ==
  ASSUME NEW c, IsChip(c), NEW v \in {0, XIO}
  PROVE  /\ IsChip(WRITE_F(c, v)) /\ Same(c, WRITE_F(c, v))
         /\ WRITE_F(c, v).f = v
         /\ WRITE_F(c, v).ram = c.ram /\ WRITE_F(c, v).reg = c.reg
BY DEF IsChip, WRITE_F, Same

\* Replacing the RAM or the registers of a chip.
LEMMA NewRam ==
  ASSUME NEW c, IsChip(c), NEW r \in [RAM -> Nat]
  PROVE  LET e == [c EXCEPT !.ram = r]
         IN  /\ IsChip(e) /\ e.ram = r /\ e.reg = c.reg /\ e.f = c.f
             /\ e.flash = c.flash /\ e.secure = c.secure
BY DEF IsChip

\* The same for the registers.
LEMMA NewReg ==
  ASSUME NEW c, IsChip(c), NEW r \in [Regs -> Nat]
  PROVE  LET e == [c EXCEPT !.reg = r]
         IN  /\ IsChip(e) /\ e.ram = c.ram /\ e.reg = r /\ e.f = c.f
             /\ e.flash = c.flash /\ e.secure = c.secure
BY DEF IsChip

\* What several vectors leave alone, all together leave alone.
LEMMA SameTransitive ==
  \A c, d, e : Same(c, d) /\ Same(d, e) => Same(c, e)
BY DEF Same

\* A chip in register bank 0, and what a write to one place changes.
Usable(c) == IsChip(c) /\ c.f = 0
MemWritten(c, d, a, n) ==
  /\ Same(c, d) /\ d.reg = c.reg
  /\ d.ram = [c.ram EXCEPT ![a] = n % 256]
RegWritten(c, d, a, n) ==
  /\ Same(c, d) /\ d.ram = c.ram
  /\ d.reg = [c.reg EXCEPT ![<<0, a>>] = n % 256]

\* WRITE_MEM of a byte outside of the buffer: that byte only.
LEMMA WriteMem ==
  ASSUME NEW c, IsChip(c), NEW a \in Results, NEW n \in Nat, PrimAssumption
  PROVE  /\ IsChip(WRITE_MEM(c, a, n)) /\ WRITE_MEM(c, a, n).f = c.f
         /\ MemWritten(c, WRITE_MEM(c, a, n), a, n)
<1> DEFINE r == [c.ram EXCEPT ![a] = n % 256]
<1>1. r \in [RAM -> Nat]
  <2>1. n % 256 \in Nat /\ c.ram \in [RAM -> Nat]
    BY Fields
  <2> QED
    BY <2>1
<1>2. \A i \in 0..BLOCK_SIZE - 1 : r[128 + i] = c.ram[128 + i]
  BY Fields DEF PrimAssumption, Results, RAM
<1>3. WRITE_MEM(c, a, n) = [c EXCEPT !.ram = r]
  BY DEF WRITE_MEM
<1>4. r = [c.ram EXCEPT ![a] = n % 256]
  OBVIOUS
<1> HIDE DEF r
<1> QED
  BY <1>1, <1>2, <1>3, <1>4, NewRam DEF Same, MemWritten

\* The same in register bank 0, where it stays.
LEMMA PutMem ==
  ASSUME NEW c, Usable(c), NEW a \in Results, NEW n \in Nat, PrimAssumption
  PROVE  Usable(WRITE_MEM(c, a, n)) /\ MemWritten(c, WRITE_MEM(c, a, n), a, n)
BY WriteMem DEF Usable

\* WRITE_REG in register bank 0: that register of bank 0 only.
LEMMA PutReg ==
  ASSUME NEW c, Usable(c), NEW a \in Addr, NEW n \in Nat
  PROVE  Usable(WRITE_REG(c, a, n)) /\ RegWritten(c, WRITE_REG(c, a, n), a, n)
<1> DEFINE r == [c.reg EXCEPT ![<<0, a>>] = n % 256]
<1>0. IsChip(c) /\ c.f = 0
  BY DEF Usable
<1>1. r \in [Regs -> Nat]
  <2>1. n % 256 \in Nat /\ c.reg \in [Regs -> Nat]
    BY <1>0, Fields
  <2> QED
    BY <2>1
<1>2. r[<<1, FLS_PR1>>] = c.reg[<<1, FLS_PR1>>]
  BY <1>0, Fields DEF Regs
<1>3. WRITE_REG(c, a, n) = [c EXCEPT !.reg = r]
  BY <1>0 DEF WRITE_REG, At, XIO
<1>4. r = [c.reg EXCEPT ![<<0, a>>] = n % 256]
  OBVIOUS
<1> HIDE DEF r
<1> QED
  BY <1>0, <1>1, <1>2, <1>3, <1>4, NewReg DEF Same, Usable, RegWritten

-----------------------------------------------------------------------------
(* Setting up a system call *)

\* All that every system call needs, apart from its code.
Fresh(c) ==
  /\ c.f = 0
  /\ c.reg[<<0, CPU_PCH>>] = 0 /\ c.reg[<<0, CPU_PCL>>] = 3
  /\ c.reg[<<0, CPU_SP>>] = 0
  /\ c.reg[<<0, CPU_CODE1>>] = OP_HALT /\ c.reg[<<0, CPU_CODE2>>] = OP_NOP
  /\ c.ram[KEY1] = KEY1_MAGIC /\ c.ram[KEY2] = 3

\* The preamble leaves nothing that a call needs to what was there before.
LEMMA Preamble ==
  ASSUME NEW c, IsChip(c), NEW p \in Nat, PrimAssumption
  PROVE  LET d == VECTOR_PTROP_PREAMBLE(c, p)
         IN  /\ IsChip(d) /\ Same(c, d) /\ Fresh(d)
             /\ d.ram = [c.ram EXCEPT ![KEY1] = KEY1_MAGIC, ![KEY2] = 3,
                                      ![POINTER] = p % 256]
<1>0. /\ KEY1 \in Results /\ KEY2 \in Results /\ POINTER \in Results
      /\ CPU_SP \in Addr /\ CPU_PCH \in Addr /\ CPU_PCL \in Addr
      /\ CPU_CODE1 \in Addr /\ CPU_CODE2 \in Addr
      /\ KEY1_MAGIC \in Nat /\ OP_HALT \in Nat /\ OP_NOP \in Nat
  BY DEF Results, Addr, KEY1, KEY2, POINTER, CPU_SP, CPU_PCH, CPU_PCL, CPU_CODE1,
         CPU_CODE2, OP_HALT, OP_NOP, KEY1_MAGIC
<1> DEFINE c0 == WRITE_F(c, 0)
           c1 == WRITE_REG(c0, CPU_SP, 0)
           c2 == WRITE_MEM(c1, KEY1, KEY1_MAGIC)
           c3 == WRITE_MEM(c2, KEY2, 3)
           c4 == WRITE_REG(c3, CPU_PCH, 0)
           c5 == WRITE_REG(c4, CPU_PCL, 3)
           c6 == WRITE_MEM(c5, POINTER, p)
           c7 == WRITE_REG(c6, CPU_CODE1, OP_HALT)
           c8 == WRITE_REG(c7, CPU_CODE2, OP_NOP)
<1>9. VECTOR_PTROP_PREAMBLE(c, p) = c8
  BY DEF VECTOR_PTROP_PREAMBLE
<1>1. Usable(c0) /\ Same(c, c0) /\ c0.ram = c.ram
  BY WriteF DEF Usable
<1> HIDE DEF c0
<1>2. Usable(c1) /\ RegWritten(c0, c1, CPU_SP, 0)
  BY <1>0, <1>1, PutReg
<1> HIDE DEF c1
<1>3. Usable(c2) /\ MemWritten(c1, c2, KEY1, KEY1_MAGIC)
  BY <1>0, <1>2, PutMem
<1> HIDE DEF c2
<1>4. Usable(c3) /\ MemWritten(c2, c3, KEY2, 3)
  BY <1>0, <1>3, PutMem
<1> HIDE DEF c3
<1>5. Usable(c4) /\ RegWritten(c3, c4, CPU_PCH, 0)
  BY <1>0, <1>4, PutReg
<1> HIDE DEF c4
<1>6. Usable(c5) /\ RegWritten(c4, c5, CPU_PCL, 3)
  BY <1>0, <1>5, PutReg
<1> HIDE DEF c5
<1>7. Usable(c6) /\ MemWritten(c5, c6, POINTER, p)
  BY <1>0, <1>6, PutMem
<1> HIDE DEF c6
<1>8. Usable(c7) /\ RegWritten(c6, c7, CPU_CODE1, OP_HALT)
  BY <1>0, <1>7, PutReg
<1> HIDE DEF c7
<1>10. Usable(c8) /\ RegWritten(c7, c8, CPU_CODE2, OP_NOP)
  BY <1>0, <1>8, PutReg
<1> HIDE DEF c8
<1>11. Same(c, c8)
  <2>1. Same(c0, c1) /\ Same(c1, c2) /\ Same(c2, c3) /\ Same(c3, c4)
    BY <1>2, <1>3, <1>4, <1>5 DEF RegWritten, MemWritten
  <2>2. Same(c4, c5) /\ Same(c5, c6) /\ Same(c6, c7) /\ Same(c7, c8)
    BY <1>6, <1>7, <1>8, <1>10 DEF RegWritten, MemWritten
  <2> QED
    BY <1>1, <2>1, <2>2, SameTransitive
<1>12. /\ 0 % 256 = 0 /\ 3 % 256 = 3 /\ KEY1_MAGIC % 256 = KEY1_MAGIC
       /\ OP_HALT % 256 = OP_HALT /\ OP_NOP % 256 = OP_NOP
  BY DEF KEY1_MAGIC, OP_HALT, OP_NOP
<1>13. c8.ram = [c.ram EXCEPT ![KEY1] = KEY1_MAGIC, ![KEY2] = 3, ![POINTER] = p % 256]
  BY <1>1, <1>2, <1>3, <1>4, <1>5, <1>6, <1>7, <1>8, <1>10, <1>12
     DEF RegWritten, MemWritten
<1>14. Fresh(c8)
  <2>1. c8.ram[KEY1] = KEY1_MAGIC /\ c8.ram[KEY2] = 3
    <3>1. c.ram \in [RAM -> Nat] /\ {KEY1, KEY2, POINTER} \subseteq RAM
      BY <1>0, Fields DEF RAM
    <3> QED
      BY <1>13, <3>1 DEF KEY1, KEY2, POINTER
  <2>2. /\ c8.reg[<<0, CPU_PCH>>] = 0 /\ c8.reg[<<0, CPU_PCL>>] = 3
        /\ c8.reg[<<0, CPU_SP>>] = 0
        /\ c8.reg[<<0, CPU_CODE1>>] = OP_HALT /\ c8.reg[<<0, CPU_CODE2>>] = OP_NOP
    <3>1. c0.reg \in [Regs -> Nat] /\ \A a \in Addr : <<0, a>> \in Regs
      BY <1>1, Fields DEF Regs, Usable
    <3> QED
      BY <1>0, <3>1, <1>2, <1>3, <1>4, <1>5, <1>6, <1>7, <1>8, <1>10, <1>12
         DEF CPU_SP, CPU_PCH, CPU_PCL, CPU_CODE1, CPU_CODE2, RegWritten, MemWritten
  <2> QED
    BY <1>10, <2>1, <2>2 DEF Fresh, Usable
<1> QED
  BY <1>9, <1>10, <1>11, <1>13, <1>14 DEF Usable

\* With the pointer to the buffer, the parameters still in place.
LEMMA Preamble128 ==
  ASSUME NEW c, IsChip(c), PrimAssumption
  PROVE  LET d == VECTOR_PTROP_PREAMBLE(c, 128)
         IN  /\ IsChip(d) /\ Same(c, d) /\ Fresh(d)
             /\ d.ram[POINTER] = 128 /\ d.ram[BLOCKID] = c.ram[BLOCKID]
             /\ d.ram[CLOCK] = c.ram[CLOCK] /\ d.ram[DELAY] = c.ram[DELAY]
<1> DEFINE d == VECTOR_PTROP_PREAMBLE(c, 128)
<1>1. /\ IsChip(d) /\ Same(c, d) /\ Fresh(d)
      /\ d.ram = [c.ram EXCEPT ![KEY1] = KEY1_MAGIC, ![KEY2] = 3, ![POINTER] = 128 % 256]
  BY Preamble
<1> HIDE DEF d
<1>2. c.ram \in [RAM -> Nat]
  BY Fields
<1>3. {POINTER, BLOCKID, CLOCK, DELAY} \subseteq RAM
  BY DEF RAM, Results, POINTER, BLOCKID, CLOCK, DELAY
<1>4. 128 % 256 = 128
  OBVIOUS
<1>5. /\ d.ram[POINTER] = 128 /\ d.ram[BLOCKID] = c.ram[BLOCKID]
      /\ d.ram[CLOCK] = c.ram[CLOCK] /\ d.ram[DELAY] = c.ram[DELAY]
  BY <1>1, <1>2, <1>3, <1>4 DEF POINTER, BLOCKID, CLOCK, DELAY, KEY1, KEY2
<1> QED
  BY <1>1, <1>5 DEF d

\* Parameters can be written after the preamble.
LEMMA Parameter ==
  ASSUME NEW c, IsChip(c), Fresh(c), NEW n \in Nat, PrimAssumption,
         NEW a \in {BLOCKID, RESERVED_FD, RESERVED_FF}
  PROVE  LET d == WRITE_MEM(c, a, n)
         IN  IsChip(d) /\ Fresh(d) /\ MemWritten(c, d, a, n)
<1> DEFINE d == WRITE_MEM(c, a, n)
<1>1. a \in Results
  BY DEF Results, BLOCKID, RESERVED_FD, RESERVED_FF
<1>2. IsChip(d) /\ d.f = c.f /\ MemWritten(c, d, a, n)
  BY <1>1, WriteMem
<1> HIDE DEF d
<1>3. Fresh(d)
  <2>1. c.ram \in [RAM -> Nat]
    BY Fields
  <2>2. d.ram[KEY1] = c.ram[KEY1] /\ d.ram[KEY2] = c.ram[KEY2]
    BY <1>2, <2>1 DEF KEY1, KEY2, BLOCKID, RESERVED_FD, RESERVED_FF, MemWritten
  <2> QED
    BY <1>2, <2>2 DEF Fresh, MemWritten
<1> QED
  BY <1>2, <1>3 DEF d

-----------------------------------------------------------------------------
(* System calls *)

\* The codes, and those for which the timing has to be set.
Codes == {SSC_ReadBlock, SSC_WriteBlock, SSC_ProtectBlock, SSC_EraseAll, SSC_TableRead,
          SSC_Checksum, SSC_Calibrate1, SSC_ReadProtection}
TimedCodes == {SSC_WriteBlock, SSC_ProtectBlock, SSC_EraseAll}

\* A chip with all that a call needs.
Calls(c, code) == IsChip(c) /\ Ready(c) /\ Asks(c, code)

\* What a call leaves in the chip.
Outcome(c, code, d) ==
  LET k == c.reg[<<1, FLS_PR1>>]
      b == c.ram[BLOCKID]
      protection == Bits(c.secure[k], b)
      run == Return(c, 0)
  IN  /\ code = SSC_Calibrate1 => d = run
      /\ code = SSC_ReadBlock =>
           d = IF protection > 0 THEN Return(c, 1) ELSE Load(run, c.flash[k][b])
      /\ code = SSC_WriteBlock =>
           d = IF protection > 1 THEN Return(c, 1) ELSE Program(run, k, b, Buffer(c))
      /\ code = SSC_EraseAll => d = Erase(run)
      /\ code = SSC_ProtectBlock => d = Protect(run, k, Buffer(c))
      /\ code = SSC_ReadProtection => d = Load(run, c.secure[k])
      /\ code = SSC_TableRead => d = TableRow(run, b)
      /\ code = SSC_Checksum => d = Summed(run, Total(c.flash[k], IF b = 0 THEN 256 ELSE b))

\* After the preamble, with the timing where it is needed, nothing is missing.
LEMMA Prepared ==
  ASSUME NEW c, IsChip(c), Fresh(c), NEW code \in Codes,
         code # SSC_Checksum => c.ram[POINTER] = 128,
         code \in TimedCodes => c.ram[CLOCK] \in {21, 84} /\ c.ram[DELAY] = 86
  PROVE  LET d == WRITE_REG(WRITE_REG(c, CPU_A, code), CPU_CODE0, OP_SSC)
         IN  Calls(d, code) /\ Same(c, d) /\ d.ram = c.ram
<1> DEFINE d1 == WRITE_REG(c, CPU_A, code)
           d == WRITE_REG(d1, CPU_CODE0, OP_SSC)
<1>0. /\ CPU_A \in Addr /\ CPU_CODE0 \in Addr /\ code \in Nat /\ OP_SSC \in Nat
      /\ OP_SSC % 256 = OP_SSC /\ code % 256 = code
  BY DEF Addr, Results, CPU_A, CPU_CODE0, OP_SSC, Codes, SSC_ReadBlock, SSC_WriteBlock,
         SSC_ProtectBlock, SSC_EraseAll, SSC_TableRead, SSC_Checksum, SSC_Calibrate1,
         SSC_ReadProtection
<1>1. Usable(c)
  BY DEF Usable, Fresh
<1>2. Usable(d1) /\ RegWritten(c, d1, CPU_A, code)
  BY <1>0, <1>1, PutReg
<1> HIDE DEF d1
<1>3. Usable(d) /\ RegWritten(d1, d, CPU_CODE0, OP_SSC)
  BY <1>0, <1>2, PutReg
<1> HIDE DEF d
<1>4. Same(c, d) /\ d.ram = c.ram
  BY <1>2, <1>3, SameTransitive DEF RegWritten
<1>5. /\ d.reg[<<0, CPU_A>>] = code /\ d.reg[<<0, CPU_CODE0>>] = OP_SSC
      /\ d.reg[<<0, CPU_PCH>>] = c.reg[<<0, CPU_PCH>>]
      /\ d.reg[<<0, CPU_PCL>>] = c.reg[<<0, CPU_PCL>>]
      /\ d.reg[<<0, CPU_SP>>] = c.reg[<<0, CPU_SP>>]
      /\ d.reg[<<0, CPU_CODE1>>] = c.reg[<<0, CPU_CODE1>>]
      /\ d.reg[<<0, CPU_CODE2>>] = c.reg[<<0, CPU_CODE2>>]
  <2>1. c.reg \in [Regs -> Nat] /\ \A a \in Addr : <<0, a>> \in Regs
    BY Fields DEF Regs
  <2>2. d1.reg = [c.reg EXCEPT ![<<0, CPU_A>>] = code]
    BY <1>0, <1>2 DEF RegWritten
  <2>3. d.reg = [d1.reg EXCEPT ![<<0, CPU_CODE0>>] = OP_SSC]
    BY <1>0, <1>3 DEF RegWritten
  <2>4. {CPU_PCH, CPU_PCL, CPU_SP, CPU_CODE1, CPU_CODE2} \subseteq Addr
    BY DEF Addr, Results, CPU_PCH, CPU_PCL, CPU_SP, CPU_CODE1, CPU_CODE2
  <2> QED
    BY <1>0, <2>1, <2>2, <2>3, <2>4 DEF CPU_A, CPU_CODE0, CPU_PCH, CPU_PCL,
       CPU_SP, CPU_CODE1, CPU_CODE2
<1>6. Ready(d)
  <2>1. Asks(d, SSC_Checksum) <=> code = SSC_Checksum
    BY <1>5 DEF Asks
  <2>2. Asks(d, SSC_WriteBlock) \/ Asks(d, SSC_EraseAll) \/ Asks(d, SSC_ProtectBlock)
          => code \in TimedCodes
    BY <1>5 DEF Asks, TimedCodes
  <2> QED
    BY <1>3, <1>4, <1>5, <2>1, <2>2 DEF Ready, Fresh, Usable
<1> QED
  BY <1>3, <1>4, <1>5, <1>6 DEF Calls, Asks, Usable, d, d1

\* A call by its code.
LEMMA ByCode ==
  ASSUME NEW c, NEW code \in Codes, Calls(c, code), EXEC_VECTOR_SSC(c),
         upset = FALSE
  PROVE  Outcome(c, code, chip') /\ upset' = FALSE
<1> DEFINE k == c.reg[<<1, FLS_PR1>>]
           b == c.ram[BLOCKID]
           protection == Bits(c.secure[k], b)
           run == Return(c, 0)
           read == IF protection > 0 THEN Return(c, 1) ELSE Load(run, c.flash[k][b])
           write == IF protection > 1 THEN Return(c, 1) ELSE Program(run, k, b, Buffer(c))
           sum == Total(c.flash[k], IF b = 0 THEN 256 ELSE b)
<1>1. Ready(c) /\ \A x \in Codes : Asks(c, x) <=> x = code
  BY DEF Calls, Asks
<1>2. SSC_ReadBlock \in Codes /\ SSC_WriteBlock \in Codes /\ SSC_ProtectBlock \in Codes
      /\ SSC_EraseAll \in Codes /\ SSC_TableRead \in Codes /\ SSC_Checksum \in Codes
      /\ SSC_Calibrate1 \in Codes /\ SSC_ReadProtection \in Codes
  BY DEF Codes
<1>3. /\ upset' = (upset \/ ~Ready(c))
      /\ \/ code = SSC_Calibrate1 /\ chip' = run
         \/ code = SSC_ReadBlock /\ chip' = read
         \/ code = SSC_WriteBlock /\ chip' = write
         \/ code = SSC_EraseAll /\ chip' = Erase(run)
         \/ code = SSC_ProtectBlock /\ chip' = Protect(run, k, Buffer(c))
         \/ code = SSC_ReadProtection /\ chip' = Load(run, c.secure[k])
         \/ code = SSC_TableRead /\ chip' = TableRow(run, b)
         \/ code = SSC_Checksum /\ chip' = Summed(run, sum)
  BY <1>1, <1>2, Zenon DEF EXEC_VECTOR_SSC
<1>4. Outcome(c, code, chip')
  <2> HIDE DEF k, b, run, read, write, sum
  <2>1. /\ code = SSC_Calibrate1 => chip' = run
        /\ code = SSC_ReadBlock => chip' = read
        /\ code = SSC_WriteBlock => chip' = write
        /\ code = SSC_EraseAll => chip' = Erase(run)
        /\ code = SSC_ProtectBlock => chip' = Protect(run, k, Buffer(c))
        /\ code = SSC_ReadProtection => chip' = Load(run, c.secure[k])
        /\ code = SSC_TableRead => chip' = TableRow(run, b)
        /\ code = SSC_Checksum => chip' = Summed(run, sum)
    BY <1>3 DEF SSC_ReadBlock, SSC_WriteBlock, SSC_ProtectBlock, SSC_EraseAll,
       SSC_TableRead, SSC_Checksum, SSC_Calibrate1, SSC_ReadProtection
  <2> QED
    BY <2>1, Zenon DEF Outcome, k, b, run, read, write, sum
<1>5. upset' = FALSE
  BY <1>1, <1>3
<1> QED
  BY <1>4, <1>5

\* What a call returns with: the code, and no keys and timing any more.
LEMMA Returned ==
  ASSUME NEW c, IsChip(c), NEW code \in {0, 1}, PrimAssumption
  PROVE  LET r == Return(c, code)
         IN  IsChip(r) /\ Same(c, r) /\ r.ram[RETURN_CODE] = code
<1> DEFINE m == [c.ram EXCEPT ![KEY1] = code, ![KEY2] = 0, ![CLOCK] = 0, ![DELAY] = 0]
           g == [c.reg EXCEPT ![<<0, CPU_PCL>>] = 4, ![<<0, CPU_SP>>] = 1,
                              ![<<0, CPU_CODE2>>] = 0]
           c1 == [c EXCEPT !.ram = m]
           r == [c1 EXCEPT !.reg = g]
<1>0. c.ram \in [RAM -> Nat] /\ c.reg \in [Regs -> Nat] /\ code \in Nat
  BY Fields
<1>1. m \in [RAM -> Nat] /\ g \in [Regs -> Nat]
  <2>1. m \in [RAM -> Nat]
    BY <1>0
  <2>2. g \in [Regs -> Nat]
    BY <1>0
  <2> QED
    BY <2>1, <2>2
<1>2. \A i \in 0..BLOCK_SIZE - 1 : m[128 + i] = c.ram[128 + i]
  <2>1. \A i \in 0..BLOCK_SIZE - 1 :
          /\ 128 + i \in RAM /\ 128 + i # KEY1 /\ 128 + i # KEY2
          /\ 128 + i # CLOCK /\ 128 + i # DELAY
    BY DEF PrimAssumption, RAM, KEY1, KEY2, CLOCK, DELAY
  <2> QED
    BY <1>0, <2>1
<1>3. m[RETURN_CODE] = code
  <2>1. KEY1 \in RAM
    BY DEF RAM, Results, KEY1
  <2> QED
    BY <1>0, <2>1 DEF RETURN_CODE, KEY1, KEY2, CLOCK, DELAY
<1>4. g[<<1, FLS_PR1>>] = c.reg[<<1, FLS_PR1>>]
  <2>1. /\ <<1, FLS_PR1>> # <<0, CPU_PCL>> /\ <<1, FLS_PR1>> # <<0, CPU_SP>>
        /\ <<1, FLS_PR1>> # <<0, CPU_CODE2>>
    OBVIOUS
  <2>2. <<1, FLS_PR1>> \in Regs
    BY DEF Regs, Addr, Results, FLS_PR1
  <2> QED
    BY <1>0, <2>1, <2>2
<1>5. Return(c, code) = r
  BY DEF Return, IsChip
<1> HIDE DEF m, g
<1>6. IsChip(c1) /\ c1.ram = m /\ c1.reg = c.reg /\ c1.flash = c.flash /\ c1.secure = c.secure
  BY <1>1, NewRam
<1> HIDE DEF c1
<1>7. IsChip(r) /\ r.ram = m /\ r.reg = g /\ r.flash = c.flash /\ r.secure = c.secure
  BY <1>1, <1>6, NewReg
<1> HIDE DEF r
<1> QED
  BY <1>2, <1>3, <1>4, <1>5, <1>7 DEF Same

\* The buffer of a chip is loaded, and nothing else.
LEMMA Loaded ==
  ASSUME NEW c, IsChip(c), NEW d \in Contents, PrimAssumption
  PROVE  LET e == Load(c, d)
         IN  /\ IsChip(e) /\ Buffer(e) = d
             /\ e.flash = c.flash /\ e.secure = c.secure /\ e.reg = c.reg
             /\ \A a \in Results : e.ram[a] = c.ram[a]
<1> DEFINE m == [a \in RAM |-> IF a \in Results THEN c.ram[a] ELSE d[a - 128]]
           e == [c EXCEPT !.ram = m]
<1>1. /\ \A a \in Results : a \in RAM
      /\ \A i \in 0..BLOCK_SIZE - 1 : 128 + i \in RAM /\ 128 + i \notin Results
      /\ \A a \in RAM : a \notin Results => a - 128 \in 0..BLOCK_SIZE - 1
      /\ Byte \subseteq Nat
  BY DEF PrimAssumption, RAM, Results
<1>2. m \in [RAM -> Nat]
  <2>1. c.ram \in [RAM -> Nat]
    BY Fields
  <2>2. \A i \in 0..BLOCK_SIZE - 1 : d[i] \in Nat
    BY <1>1 DEF Contents
  <2> QED
    BY <1>1, <2>1, <2>2
<1>3. \A a \in Results : m[a] = c.ram[a]
  BY <1>1
<1>4. \A i \in 0..BLOCK_SIZE - 1 : m[128 + i] = d[i]
  <2>1. \A i \in 0..BLOCK_SIZE - 1 : (128 + i) - 128 = i
    BY DEF PrimAssumption
  <2> QED
    BY <1>1, <2>1
<1>5. Load(c, d) = e
  BY DEF Load
<1> HIDE DEF m
<1>6. /\ IsChip(e) /\ e.ram = m /\ e.reg = c.reg
      /\ e.flash = c.flash /\ e.secure = c.secure
  BY <1>2, NewRam
<1> HIDE DEF e
<1>7. Buffer(e) = d
  BY <1>4, <1>6 DEF Buffer, Contents
<1> QED
  BY <1>3, <1>5, <1>6, <1>7

\* A row of the table, in the results and two registers.
LEMMA RowRead ==
  ASSUME NEW c, IsChip(c), NEW n \in Nat, PrimAssumption
  PROVE  LET e == TableRow(c, n)
         IN  IsChip(e) /\ Same(c, e) /\ \A a \in Results : e.ram[a] = Row(n, a)
<1> DEFINE m == [a \in RAM |-> IF a \in Results THEN Row(n, a) ELSE c.ram[a]]
           g == [c.reg EXCEPT ![<<0, CPU_A>>] = Row(n, CPU_A),
                              ![<<0, CPU_X>>] = Row(n, CPU_X)]
           c1 == [c EXCEPT !.ram = m]
           e == [c1 EXCEPT !.reg = g]
<1>0. c.ram \in [RAM -> Nat] /\ c.reg \in [Regs -> Nat]
  BY Fields
<1>1. /\ \A a \in Results : a \in RAM
      /\ \A i \in 0..BLOCK_SIZE - 1 : 128 + i \in RAM /\ 128 + i \notin Results
  BY DEF PrimAssumption, RAM, Results
<1>2. \A a \in Results \cup {CPU_A, CPU_X} : Row(n, a) \in Nat
  BY DEF Results, Row, CPU_A, CPU_X
<1>3. m \in [RAM -> Nat] /\ g \in [Regs -> Nat]
  <2>1. m \in [RAM -> Nat]
    BY <1>0, <1>2
  <2>2. g \in [Regs -> Nat]
    BY <1>0, <1>2
  <2> QED
    BY <2>1, <2>2
<1>4. /\ \A a \in Results : m[a] = Row(n, a)
      /\ \A i \in 0..BLOCK_SIZE - 1 : m[128 + i] = c.ram[128 + i]
  BY <1>1
<1>5. g[<<1, FLS_PR1>>] = c.reg[<<1, FLS_PR1>>]
  <2>1. <<1, FLS_PR1>> # <<0, CPU_A>> /\ <<1, FLS_PR1>> # <<0, CPU_X>>
    OBVIOUS
  <2>2. <<1, FLS_PR1>> \in Regs
    BY DEF Regs, Addr, Results, FLS_PR1
  <2> QED
    BY <1>0, <2>1, <2>2
<1>6. TableRow(c, n) = e
  BY DEF TableRow, IsChip
<1> HIDE DEF m, g
<1>7. IsChip(c1) /\ c1.ram = m /\ c1.reg = c.reg /\ c1.flash = c.flash /\ c1.secure = c.secure
  BY <1>3, NewRam
<1> HIDE DEF c1
<1>8. IsChip(e) /\ e.ram = m /\ e.reg = g /\ e.flash = c.flash /\ e.secure = c.secure
  BY <1>3, <1>7, NewReg
<1> HIDE DEF e
<1> QED
  BY <1>4, <1>5, <1>6, <1>8 DEF Same

\* The bytes make a number of 16 bits.
LEMMA TwoBytes ==
  ASSUME NEW n \in Nat
  PROVE  (256 * ((n \div 256) % 256)) + (n % 256) = n % 65536
OBVIOUS

\* The number in the two bytes of a sum.
TwoBytesOf(c) == 256 * c.ram[KEY2] + c.ram[KEY1]
Wrapped(n) == n % 65536

\* A checksum comes as two bytes.
LEMMA SumRead ==
  ASSUME NEW c, IsChip(c), NEW n \in Nat, PrimAssumption
  PROVE  LET e == Summed(c, n)
         IN  IsChip(e) /\ Same(c, e) /\ TwoBytesOf(e) = Wrapped(n)
<1> DEFINE m == [c.ram EXCEPT ![KEY1] = n % 256, ![KEY2] = (n \div 256) % 256]
           e == [c EXCEPT !.ram = m]
<1>0. c.ram \in [RAM -> Nat] /\ n % 256 \in Nat /\ (n \div 256) % 256 \in Nat
  BY Fields
<1>1. m \in [RAM -> Nat]
  BY <1>0
<1>2. \A i \in 0..BLOCK_SIZE - 1 : m[128 + i] = c.ram[128 + i]
  <2>1. \A i \in 0..BLOCK_SIZE - 1 :
          128 + i \in RAM /\ 128 + i # KEY1 /\ 128 + i # KEY2
    BY DEF PrimAssumption, RAM, KEY1, KEY2
  <2> QED
    BY <1>0, <2>1
<1>3. m[KEY1] = n % 256 /\ m[KEY2] = (n \div 256) % 256
  <2>1. KEY1 \in RAM /\ KEY2 \in RAM /\ KEY1 # KEY2
    BY DEF RAM, Results, KEY1, KEY2
  <2> QED
    BY <1>0, <2>1
<1>4. Summed(c, n) = e
  BY DEF Summed
<1> HIDE DEF m
<1>5. /\ IsChip(e) /\ e.ram = m /\ e.reg = c.reg
      /\ e.flash = c.flash /\ e.secure = c.secure
  BY <1>1, NewRam
<1> HIDE DEF e
<1>6. TwoBytesOf(e) = Wrapped(n)
  BY <1>3, <1>5, TwoBytes DEF TwoBytesOf, Wrapped
<1> QED
  BY <1>2, <1>4, <1>5, <1>6 DEF Same

\* Changes of the Flash and of protection leave RAM and registers alone.
LEMMA Programmed ==
  ASSUME NEW c, IsChip(c), NEW k \in Bank, NEW b \in Block, NEW d \in Contents
  PROVE  LET e == Program(c, k, b, d)
         IN  /\ IsChip(e) /\ e.ram = c.ram /\ e.reg = c.reg
             /\ e.flash = [c.flash EXCEPT ![k][b] = d] /\ e.secure = c.secure
<1> DEFINE x == [c.flash EXCEPT ![k][b] = d]
<1>1. c.flash \in [Bank -> [Block -> Contents]] /\ c.secure \in [Bank -> Contents]
  BY Fields
<1>2. x \in [Bank -> [Block -> Contents]]
  BY <1>1
<1>3. Program(c, k, b, d) = [c EXCEPT !.flash = x]
  BY DEF Program, IsChip
<1> HIDE DEF x
<1>4. LET e == [c EXCEPT !.flash = x]
      IN  /\ IsChip(e) /\ e.ram = c.ram /\ e.reg = c.reg
          /\ e.flash = x /\ e.secure = c.secure
  BY <1>1, <1>2 DEF IsChip
<1> QED
  BY <1>3, <1>4, Zenon DEF x

\* EraseAll: zeros in all banks, the buffer as it was.
LEMMA Erased ==
  ASSUME NEW c, IsChip(c), PrimAssumption
  PROVE  LET e == Erase(c)
         IN  /\ IsChip(e) /\ e.ram = c.ram /\ e.reg = c.reg
             /\ e.flash = [j \in Bank |-> [i \in Block |-> Zeros]]
             /\ e.secure = [j \in Bank |-> Zeros]
<1> DEFINE x == [j \in Bank |-> [i \in Block |-> Zeros]]
           y == [j \in Bank |-> Zeros]
<1>1. x \in [Bank -> [Block -> Contents]] /\ y \in [Bank -> Contents]
  <2>1. Zeros \in Contents
    BY DEF Zeros, Contents, PrimAssumption
  <2> QED
    BY <2>1
<1>2. Erase(c) = [c EXCEPT !.flash = x, !.secure = y]
  BY DEF Erase
<1> HIDE DEF x, y
<1>3. LET e == [c EXCEPT !.flash = x, !.secure = y]
      IN  /\ IsChip(e) /\ e.ram = c.ram /\ e.reg = c.reg
          /\ e.flash = x /\ e.secure = y
  BY <1>1 DEF IsChip
<1> QED
  BY <1>2, <1>3, Zenon DEF x, y

\* ProtectBlock: the protection bits of one bank, the buffer as it was.
LEMMA Protected ==
  ASSUME NEW c, IsChip(c), NEW k \in Bank, NEW d \in Contents
  PROVE  LET e == Protect(c, k, d)
         IN  /\ IsChip(e) /\ e.ram = c.ram /\ e.reg = c.reg
             /\ e.secure = [c.secure EXCEPT ![k] = d] /\ e.flash = c.flash
<1> DEFINE y == [c.secure EXCEPT ![k] = d]
<1>1. c.flash \in [Bank -> [Block -> Contents]] /\ c.secure \in [Bank -> Contents]
  BY Fields
<1>2. y \in [Bank -> Contents]
  BY <1>1
<1>3. Protect(c, k, d) = [c EXCEPT !.secure = y]
  BY DEF Protect
<1> HIDE DEF y
<1>4. LET e == [c EXCEPT !.secure = y]
      IN  /\ IsChip(e) /\ e.ram = c.ram /\ e.reg = c.reg
          /\ e.secure = y /\ e.flash = c.flash
  BY <1>1, <1>2 DEF IsChip
<1> QED
  BY <1>3, <1>4, Zenon DEF y

-----------------------------------------------------------------------------
(* The checksum *)

\* A set of numbers that is not empty has a least one.
LEMMA Least ==
  ASSUME NEW S, S \subseteq Nat, S # {}
  PROVE  \E m \in S : \A k \in S : m <= k
<1>1. PICK m \in S : \A y \in S : ~(<<y, m>> \in OpToRel(<, Nat))
  BY NatLessThanWellFounded, WFMin, Zenon
<1>2. \A k \in S : m <= k
  <2> SUFFICES ASSUME NEW k \in S PROVE m <= k
    OBVIOUS
  <2>1. <<k, m>> \notin {ss \in Nat \X Nat : ss[1] < ss[2]}
    BY <1>1 DEF OpToRel
  <2>2. k \in Nat /\ m \in Nat
    OBVIOUS
  <2> QED
    BY <2>1, <2>2
<1> QED
  BY <1>2

\* The place of the j-th byte of the first n blocks.
LEMMA Places ==
  ASSUME NEW n \in Nat, NEW B \in Nat \ {0}, NEW x \in Nat, x < n * B
  PROVE  x \div B \in 0..n - 1 /\ x % B \in 0..B - 1
<1>1. x = (B * (x \div B)) + (x % B) /\ x % B \in 0..B - 1 /\ x \div B \in Nat
  OBVIOUS
<1> DEFINE q == x \div B
<1>2. CASE q >= n
  <2>1. q = n + (q - n) /\ q - n \in Nat
    BY <1>1, <1>2
  <2>2. B * q >= B * n
    BY <1>1, <1>2
  <2>3. B * n = n * B /\ B * n \in Nat /\ B * q \in Nat
    BY <1>1
  <2>4. FALSE
    BY <1>1, <2>2, <2>3
  <2> QED
    BY <2>4
<1> QED
  BY <1>1, <1>2

\* A sum of bytes is a number.
LEMMA TotalNatural ==
  ASSUME NEW f \in [Block -> Contents], NEW n \in 0..Blocks, PrimAssumption
  PROVE  Total(f, n) \in Nat
<1> DEFINE N == n * BLOCK_SIZE
           v(j) == f[(j - 1) \div BLOCK_SIZE][(j - 1) % BLOCK_SIZE]
           P(u) == u = [j \in 0..N |-> IF j = 0 THEN 0 ELSE u[j - 1] + v(j)]
           upTo == CHOOSE u : P(u)
<1>1. N \in Nat /\ \A j \in 1..N : v(j) \in Nat
  <2>1. BLOCK_SIZE \in Nat \ {0} /\ n \in Nat /\ n <= Blocks /\ Byte \subseteq Nat
    BY DEF PrimAssumption
  <2>2. N \in Nat
    BY <2>1
  <2>3. ASSUME NEW j \in 1..N PROVE v(j) \in Nat
    <3>1. j - 1 \in Nat /\ j - 1 < n * BLOCK_SIZE
      BY <2>2
    <3> DEFINE x == j - 1
    <3>2. x \in Nat /\ x < n * BLOCK_SIZE
      BY <3>1
    <3> HIDE DEF x
    <3>3. x \div BLOCK_SIZE \in 0..n - 1 /\ x % BLOCK_SIZE \in 0..BLOCK_SIZE - 1
      BY <2>1, <3>2, Places
    <3>4. x \div BLOCK_SIZE \in Block
      BY <2>1, <3>3 DEF Block, PrimAssumption
    <3>5. f[x \div BLOCK_SIZE][x % BLOCK_SIZE] \in Byte
      BY <3>3, <3>4 DEF Contents
    <3> QED
      BY <2>1, <3>5 DEF x
  <2> QED
    BY <2>2, <2>3
<1>2. Total(f, n) = upTo[N]
  BY DEF Total
<1> HIDE DEF N, v
<1>3. \E u : P(u)
  <2> DEFINE Good(M, u) == /\ u \in [0..M -> Nat] /\ u[0] = 0
                           /\ \A j \in 1..M : u[j] = u[j - 1] + v(j)
             S == {M \in 0..N : ~\E u : Good(M, u)}
  <2>0. S \subseteq Nat /\ \A k : k \in S <=> k \in 0..N /\ ~\E u : Good(k, u)
    BY <1>1
  <2> HIDE DEF S
  <2>1. SUFFICES ASSUME S # {} PROVE FALSE
    <3>1. CASE S = {}
      <4>0. N \in 0..N
        BY <1>1
      <4>1. PICK u : Good(N, u)
        BY <2>0, <3>1, <4>0, Zenon
      <4>2. P(u)
        BY <1>1, <4>1
      <4> QED
        BY <4>2
    <3> QED
      BY <3>1
  <2>2. PICK m \in S : \A k \in S : m <= k
    BY <2>0, <2>1, Least
  <2>3. m \in 0..N /\ ~\E u : Good(m, u)
    BY <2>0, <2>2, Zenon
  <2>4. CASE m = 0
    <3>1. Good(0, [j \in 0..0 |-> 0])
      OBVIOUS
    <3> QED
      BY <2>3, <2>4, <3>1
  <2>5. CASE m # 0
    <3>1. m - 1 \in 0..N /\ m - 1 \notin S
      BY <1>1, <2>2, <2>3, <2>5
    <3>2. PICK u : Good(m - 1, u)
      BY <2>0, <3>1, Zenon
    <3> DEFINE w == [j \in 0..m |-> IF j = m THEN u[m - 1] + v(m) ELSE u[j]]
    <3>3. Good(m, w)
      <4>1. m - 1 \in 0..m - 1 /\ u[m - 1] \in Nat /\ v(m) \in Nat
        BY <1>1, <2>3, <2>5, <3>2
      <4>2. w \in [0..m -> Nat]
        <5>1. u \in [0..m - 1 -> Nat] /\ \A j \in 0..m : j # m => j \in 0..m - 1
          BY <2>3, <2>5, <3>2
        <5>2. \A j \in 0..m : w[j] \in Nat
          BY <4>1, <5>1
        <5> QED
          BY <5>2
      <4>3. w[0] = 0
        BY <2>3, <2>5, <3>2
      <4>4. ASSUME NEW j \in 1..m PROVE w[j] = w[j - 1] + v(j)
        <5>1. m \in Nat /\ j \in Int /\ 1 <= j /\ j <= m
          BY <1>1, <2>3
        <5>2. j - 1 \in 0..m /\ j - 1 # m /\ j \in 0..m
          BY <5>1
        <5>3. w[j - 1] = u[j - 1]
          BY <5>2
        <5>4. CASE j = m
          BY <5>2, <5>3, <5>4
        <5>5. CASE j # m
          <6>1. j \in 1..m - 1
            BY <5>1, <5>5
          <6>2. u[j] = u[j - 1] + v(j)
            BY <3>2, <6>1
          <6> QED
            BY <5>2, <5>3, <5>5, <6>2
        <5> QED
          BY <5>4, <5>5
      <4> QED
        BY <4>2, <4>3, <4>4
    <3> QED
      BY <2>3, <3>3
  <2> QED
    BY <2>4, <2>5
<1>4. P(upTo)
  BY <1>3
<1> HIDE DEF upTo
<1>5. \A j \in 0..N : upTo[j] \in Nat
  <2> DEFINE S == {j \in 0..N : upTo[j] \notin Nat}
  <2>0. S \subseteq Nat /\ \A k : k \in S <=> k \in 0..N /\ upTo[k] \notin Nat
    BY <1>1
  <2> HIDE DEF S
  <2>1. SUFFICES ASSUME S # {} PROVE FALSE
    BY <2>0
  <2>2. PICK m \in S : \A k \in S : m <= k
    BY <2>0, <2>1, Least
  <2>3. m \in 0..N /\ upTo[m] \notin Nat
    BY <2>0, <2>2
  <2>4. CASE m = 0
    BY <1>1, <1>4, <2>3, <2>4
  <2>5. CASE m # 0
    <3>1. m - 1 \in 0..N /\ m \in 1..N
      BY <1>1, <2>3, <2>5
    <3>2. upTo[m - 1] \in Nat
      <4>1. ~(m <= m - 1)
        BY <1>1, <2>3
      <4> QED
        BY <2>0, <2>2, <3>1, <4>1
    <3>3. upTo[m] = upTo[m - 1] + v(m)
      BY <1>4, <2>3, <2>5
    <3> QED
      BY <1>1, <2>3, <3>1, <3>2, <3>3
  <2> QED
    BY <2>4, <2>5
<1> QED
  BY <1>1, <1>2, <1>5

-----------------------------------------------------------------------------
(* The primitives *)

\* A chip whose buffer holds bytes and whose bank is one of its banks.
Sound(c) == IsChip(c) /\ Buffer(c) \in Contents /\ c.reg[<<1, FLS_PR1>>] \in Bank

\* A chip with the same contents has a buffer and a bank as sound.
LEMMA SameSound ==
  ASSUME NEW c, Sound(c), NEW d, IsChip(d), Same(c, d)
  PROVE  Sound(d) /\ Buffer(d) = Buffer(c)
<1>1. Buffer(d) = Buffer(c)
  BY DEF Same, Buffer
<1> QED
  BY <1>1 DEF Same, Sound

\* A call after the preamble: it is one to a chip with the same contents.
LEMMA Call ==
  ASSUME NEW c, Sound(c), NEW d, IsChip(d), Same(c, d), Fresh(d),
         NEW code \in Codes, upset = FALSE,
         code # SSC_Checksum => d.ram[POINTER] = 128,
         code \in TimedCodes => d.ram[CLOCK] \in {21, 84} /\ d.ram[DELAY] = 86,
         VECTOR_SSC(d, code)
  PROVE  /\ upset' = FALSE
         /\ \E e : /\ IsChip(e) /\ Sound(e) /\ Same(c, e) /\ Buffer(e) = Buffer(c)
                   /\ e.ram = d.ram /\ Outcome(e, code, chip')
<1> DEFINE e == WRITE_REG(WRITE_REG(d, CPU_A, code), CPU_CODE0, OP_SSC)
<1>1. Calls(e, code) /\ Same(d, e) /\ e.ram = d.ram
  BY Prepared
<1>2. EXEC_VECTOR_SSC(e)
  BY DEF VECTOR_SSC
<1> HIDE DEF e
<1>3. Outcome(e, code, chip') /\ upset' = FALSE
  BY <1>1, <1>2, ByCode
<1>4. IsChip(e) /\ Same(c, e)
  BY <1>1, SameTransitive DEF Calls
<1>5. Sound(e) /\ Buffer(e) = Buffer(c)
  BY <1>4, SameSound
<1> QED
  BY <1>1, <1>3, <1>4, <1>5

\* The inductive invariant: what the history variables say of the RAM, and what
\* the table that initialize_2 has read looks like until it is used.
PrimInv ==
  /\ Sound(chip) /\ upset = FALSE /\ block \in Block /\ results \in BOOLEAN
  /\ Called \in {"initialize_2", "id"} => results
  /\ Called \in {"verify", "secure", "verify_secure"} => ~results
  /\ Called = "initialize_2" => \A a \in Results : chip.ram[a] = Row(1, a)
  /\ Trimmed

BankAt(c) == c.reg[<<1, FLS_PR1>>]

\* What the invariant says of the chip alone.
LEMMA FromInv ==
  ASSUME PrimInv
  PROVE  IsChip(chip) /\ Sound(chip) /\ upset = FALSE /\ block \in Block
BY DEF PrimInv, Sound

\* A step of Prim is a step of FlashChip that leaves contents and bank alone, if
\* it does.
LEMMA Unchanged ==
  ASSUME Sound(chip), IsChip(chip'), Same(chip, chip')
  PROVE  /\ Sound(chip') /\ UNCHANGED Chip!store /\ BankAt(chip') = BankAt(chip)
         /\ Buffer(chip') = Buffer(chip)
BY SameSound DEF Same, BankAt, Chip!store

\* What a call leaves that only returns.
LEMMA OnlyReturned ==
  ASSUME Sound(chip), NEW e, IsChip(e), Same(chip, e), NEW code \in {0, 1},
         chip' = Return(e, code), PrimAssumption
  PROVE  IsChip(chip') /\ Same(chip, chip') /\ chip'.ram[RETURN_CODE] = code
BY Returned, SameTransitive

\* What one leaves that loads the buffer.
LEMMA OnlyLoaded ==
  ASSUME Sound(chip), NEW e, IsChip(e), Same(chip, e), NEW b \in Contents,
         chip' = Load(Return(e, 0), b), PrimAssumption
  PROVE  /\ Sound(chip') /\ chip'.ram[RETURN_CODE] = 0 /\ Buffer(chip') = b
         /\ UNCHANGED Chip!store /\ BankAt(chip') = BankAt(chip)
<1> DEFINE r == Return(e, 0)
<1>1. IsChip(r) /\ Same(e, r) /\ r.ram[RETURN_CODE] = 0
  BY Returned
<1> HIDE DEF r
<1>2. /\ IsChip(chip') /\ Buffer(chip') = b
      /\ chip'.flash = r.flash /\ chip'.secure = r.secure /\ chip'.reg = r.reg
      /\ chip'.ram[RETURN_CODE] = 0
  BY <1>1, Loaded DEF r, Results, RETURN_CODE, KEY1
<1>3. Same(chip, r)
  BY <1>1, SameTransitive
<1> QED
  BY <1>2, <1>3 DEF Same, BankAt, Chip!store, Sound

\* verify loads the block into the buffer, unless it is protected.
LEMMA verifyStep ==
  ASSUME PrimAssumption, PrimInv, verify
  PROVE  Chip!verify /\ Sound(chip') /\ upset' = FALSE
<1> DEFINE d == VECTOR_PTROP_PREAMBLE(chip, 128)
<1>0. /\ IsChip(chip) /\ Sound(chip) /\ upset = FALSE /\ block \in Block
      /\ chip.ram[BLOCKID] = block
  BY FromInv DEF verify, BlockSet
<1>1. /\ IsChip(d) /\ Same(chip, d) /\ Fresh(d)
      /\ d.ram[POINTER] = 128 /\ d.ram[BLOCKID] = block
  BY <1>0, Preamble128
<1>2. VECTOR_SSC(d, SSC_ReadBlock)
  BY DEF verify, VERIFY_SETUP
<1> HIDE DEF d
<1>3. SSC_ReadBlock \in Codes /\ SSC_ReadBlock \notin TimedCodes
  BY DEF Codes, TimedCodes, SSC_ReadBlock, SSC_WriteBlock, SSC_ProtectBlock, SSC_EraseAll
<1>4. /\ upset' = FALSE
      /\ \E e : /\ IsChip(e) /\ Sound(e) /\ Same(chip, e) /\ Buffer(e) = Buffer(chip)
                /\ e.ram = d.ram /\ Outcome(e, SSC_ReadBlock, chip')
  BY <1>0, <1>1, <1>2, <1>3, Call
<1>5. PICK e : /\ IsChip(e) /\ Same(chip, e)
               /\ e.ram = d.ram /\ Outcome(e, SSC_ReadBlock, chip')
  BY <1>4
<1> DEFINE k == BankAt(chip)
           protection == Bits(chip.secure[k], block)
<1>6. chip' = IF protection > 0 THEN Return(e, 1) ELSE Load(Return(e, 0), chip.flash[k][block])
  <2>1. chip' = IF Bits(e.secure[BankAt(e)], e.ram[BLOCKID]) > 0 THEN Return(e, 1)
                ELSE Load(Return(e, 0), e.flash[BankAt(e)][e.ram[BLOCKID]])
    BY <1>5, Zenon DEF Outcome, BankAt
  <2>2. /\ e.secure = chip.secure /\ e.flash = chip.flash /\ BankAt(e) = k
        /\ e.ram[BLOCKID] = block
    BY <1>1, <1>5 DEF Same, BankAt
  <2> QED
    BY <2>1, <2>2
<1>7. k \in Bank /\ chip.flash[k][block] \in Contents
  BY <1>0, Fields DEF Sound, BankAt
<1> HIDE DEF k, protection
<1>8. CASE protection > 0
  <2>1. IsChip(chip') /\ Same(chip, chip') /\ chip'.ram[RETURN_CODE] = 1
    BY <1>0, <1>5, <1>6, <1>8, OnlyReturned
  <2> QED
    BY <1>0, <1>4, <1>8, <2>1, Unchanged DEF Chip!verify, Chip!Done, Chip!Protection,
       Chip!selected, k, protection, BankAt, verify, Done
<1>9. CASE ~(protection > 0)
  <2>1. /\ Sound(chip') /\ chip'.ram[RETURN_CODE] = 0 /\ Buffer(chip') = chip.flash[k][block]
        /\ UNCHANGED Chip!store /\ BankAt(chip') = BankAt(chip)
    BY <1>0, <1>5, <1>6, <1>7, <1>9, OnlyLoaded
  <2> QED
    BY <1>4, <1>9, <2>1 DEF Chip!verify, Chip!Done, Chip!Protection, Chip!selected,
       k, protection, BankAt, verify, Done
<1> QED
  BY <1>8, <1>9

\* Timed sets the timing for the calls that change the Flash.
LEMMA TimedCall ==
  ASSUME PrimAssumption, PrimInv, NEW clock \in {21, 84}, NEW code \in TimedCodes,
         Timed(clock, code)
  PROVE  /\ upset' = FALSE
         /\ \E e : /\ IsChip(e) /\ Sound(e) /\ Same(chip, e) /\ Buffer(e) = Buffer(chip)
                   /\ e.ram[BLOCKID] = chip.ram[BLOCKID] /\ Outcome(e, code, chip')
<1> DEFINE c1 == WRITE_MEM(chip, CLOCK, clock)
           c2 == WRITE_MEM(c1, DELAY, 86)
           d == VECTOR_PTROP_PREAMBLE(c2, 128)
<1>0. /\ IsChip(chip) /\ Sound(chip) /\ upset = FALSE
      /\ CLOCK \in Results /\ DELAY \in Results /\ clock \in Nat /\ clock % 256 = clock
      /\ 86 % 256 = 86 /\ code \in Codes /\ code # SSC_Checksum
  BY FromInv DEF Results, CLOCK, DELAY, Codes, TimedCodes, SSC_WriteBlock,
     SSC_ProtectBlock, SSC_EraseAll, SSC_Checksum
<1>2. VECTOR_SSC(d, code)
  BY DEF Timed
<1>3. IsChip(c1) /\ MemWritten(chip, c1, CLOCK, clock)
  BY <1>0, WriteMem
<1> HIDE DEF c1
<1>4. IsChip(c2) /\ MemWritten(c1, c2, DELAY, 86)
  BY <1>0, <1>3, WriteMem
<1> HIDE DEF c2
<1>5. /\ IsChip(d) /\ Same(c2, d) /\ Fresh(d) /\ d.ram[POINTER] = 128
      /\ d.ram[BLOCKID] = c2.ram[BLOCKID]
      /\ d.ram[CLOCK] = c2.ram[CLOCK] /\ d.ram[DELAY] = c2.ram[DELAY]
  BY <1>4, Preamble128
<1> HIDE DEF d
<1>6. /\ d.ram[BLOCKID] = chip.ram[BLOCKID] /\ d.ram[CLOCK] = clock /\ d.ram[DELAY] = 86
  <2>1. chip.ram \in [RAM -> Nat] /\ {BLOCKID, CLOCK, DELAY} \subseteq RAM
    <3>1. BLOCKID \in Results
      BY DEF Results, BLOCKID
    <3> QED
      BY <1>0, <3>1, Fields DEF RAM
  <2>2. c2.ram = [chip.ram EXCEPT ![CLOCK] = clock, ![DELAY] = 86]
    BY <1>0, <1>3, <1>4 DEF MemWritten
  <2> QED
    BY <1>5, <2>1, <2>2 DEF BLOCKID, CLOCK, DELAY
<1>7. Same(chip, d)
  BY <1>3, <1>4, <1>5, SameTransitive DEF MemWritten
<1>8. /\ upset' = FALSE
      /\ \E e : /\ IsChip(e) /\ Sound(e) /\ Same(chip, e) /\ Buffer(e) = Buffer(chip)
                /\ e.ram = d.ram /\ Outcome(e, code, chip')
  BY <1>0, <1>2, <1>5, <1>6, <1>7, Call
<1> QED
  BY <1>6, <1>8

\* program_block writes the buffer to the block, unless it is protected.
LEMMA program_blockStep ==
  ASSUME PrimAssumption, PrimInv, NEW clock \in {84, 21}, program_block(clock)
  PROVE  Chip!program_block /\ Sound(chip') /\ upset' = FALSE
<1>0. /\ IsChip(chip) /\ Sound(chip) /\ upset = FALSE /\ block \in Block
      /\ chip.ram[BLOCKID] = block
  BY FromInv DEF program_block, BlockSet
<1>1. /\ upset' = FALSE
      /\ \E e : /\ IsChip(e) /\ Sound(e) /\ Same(chip, e) /\ Buffer(e) = Buffer(chip)
                /\ e.ram[BLOCKID] = chip.ram[BLOCKID]
                /\ Outcome(e, SSC_WriteBlock, chip')
  <2>1. SSC_WriteBlock \in TimedCodes
    BY DEF TimedCodes
  <2> QED
    BY <2>1, TimedCall DEF program_block
<1>2. PICK e : /\ IsChip(e) /\ Sound(e) /\ Same(chip, e) /\ Buffer(e) = Buffer(chip)
               /\ e.ram[BLOCKID] = block /\ Outcome(e, SSC_WriteBlock, chip')
  BY <1>0, <1>1
<1> DEFINE k == BankAt(chip)
           protection == Bits(chip.secure[k], block)
<1>3. chip' = IF protection > 1 THEN Return(e, 1)
              ELSE Program(Return(e, 0), k, block, Buffer(chip))
  <2>1. chip' = IF Bits(e.secure[BankAt(e)], e.ram[BLOCKID]) > 1 THEN Return(e, 1)
                ELSE Program(Return(e, 0), BankAt(e), e.ram[BLOCKID], Buffer(e))
    BY <1>2, Zenon DEF Outcome, BankAt
  <2>2. e.secure = chip.secure /\ BankAt(e) = k
    BY <1>2 DEF Same, BankAt
  <2> QED
    BY <1>2, <2>1, <2>2
<1>4. k \in Bank /\ Buffer(chip) \in Contents
  BY <1>0 DEF Sound, BankAt
<1> HIDE DEF k, protection
<1>5. CASE protection > 1
  <2>1. IsChip(chip') /\ Same(chip, chip') /\ chip'.ram[RETURN_CODE] = 1
    BY <1>0, <1>2, <1>3, <1>5, OnlyReturned
  <2> QED
    BY <1>0, <1>1, <1>5, <2>1, Unchanged DEF Chip!program_block, Chip!Done,
       Chip!Protection, Chip!store, Chip!selected, k, protection, BankAt, program_block, Done
<1>6. CASE ~(protection > 1)
  <2> DEFINE r == Return(e, 0)
  <2>1. chip' = Program(r, k, block, Buffer(chip))
    BY <1>3, <1>6
  <2>2. IsChip(r) /\ Same(chip, r) /\ r.ram[RETURN_CODE] = 0
    BY <1>2, Returned, SameTransitive
  <2> HIDE DEF r
  <2>3. Sound(r) /\ Buffer(r) = Buffer(chip)
    BY <1>0, <2>2, SameSound
  <2>4. /\ IsChip(chip') /\ chip'.ram = r.ram /\ chip'.reg = r.reg
        /\ chip'.flash = [r.flash EXCEPT ![k][block] = Buffer(chip)]
        /\ chip'.secure = r.secure
    <3> DEFINE e1 == Program(r, k, block, Buffer(chip))
    <3>1. /\ IsChip(e1) /\ e1.ram = r.ram /\ e1.reg = r.reg
          /\ e1.flash = [r.flash EXCEPT ![k][block] = Buffer(chip)]
          /\ e1.secure = r.secure
      BY <1>0, <1>4, <2>2, Programmed
    <3> HIDE DEF e1
    <3>2. chip' = e1
      BY <2>1 DEF e1
    <3> QED
      BY <3>1, <3>2
  <2>5. Buffer(chip') = Buffer(r)
    BY <2>4 DEF Buffer
  <2> QED
    BY <1>1, <1>6, <2>2, <2>3, <2>4, <2>5 DEF Chip!program_block, Chip!Done,
       Chip!Protection, Chip!selected, k, protection, BankAt, program_block, Done,
       Same, Sound
<1> QED
  BY <1>5, <1>6

\* erase_all clears the Flash and the protection bits, of all banks.
LEMMA erase_allStep ==
  ASSUME PrimAssumption, PrimInv, erase_all
  PROVE  Chip!erase_all /\ Sound(chip') /\ upset' = FALSE
<1>0. IsChip(chip) /\ Sound(chip) /\ block \in Block
  BY FromInv
<1>1. /\ upset' = FALSE
      /\ \E e : /\ IsChip(e) /\ Sound(e) /\ Same(chip, e) /\ Buffer(e) = Buffer(chip)
                /\ e.ram[BLOCKID] = chip.ram[BLOCKID] /\ Outcome(e, SSC_EraseAll, chip')
  <2>1. SSC_EraseAll \in TimedCodes
    BY DEF TimedCodes
  <2> QED
    BY <2>1, TimedCall DEF erase_all
<1>2. PICK e : IsChip(e) /\ Same(chip, e) /\ Outcome(e, SSC_EraseAll, chip')
  BY <1>1
<1> DEFINE r == Return(e, 0)
<1>3. chip' = Erase(r)
  BY <1>2, Zenon DEF Outcome
<1>4. IsChip(r) /\ Same(chip, r) /\ r.ram[RETURN_CODE] = 0
  BY <1>2, Returned, SameTransitive
<1> HIDE DEF r
<1>5. Sound(r) /\ Buffer(r) = Buffer(chip)
  BY <1>0, <1>4, SameSound
<1>6. /\ IsChip(chip') /\ chip'.ram = r.ram /\ chip'.reg = r.reg
      /\ chip'.flash = [j \in Bank |-> [i \in Block |-> Zeros]]
      /\ chip'.secure = [j \in Bank |-> Zeros]
  BY <1>3, <1>4, Erased
<1>7. Buffer(chip') = Buffer(r)
  BY <1>6 DEF Buffer
<1> QED
  BY <1>1, <1>4, <1>5, <1>6, <1>7 DEF Chip!erase_all, Chip!Done, Chip!selected, erase_all,
     Done, Same, Sound, Chip!Bank, Chip!Block, Chip!Zeros, Bank, Block, Zeros

\* secure makes the buffer the protection bits of the bank.
LEMMA secureStep ==
  ASSUME PrimAssumption, PrimInv, NEW clock \in {84, 21}, secure(clock)
  PROVE  Chip!secure /\ Sound(chip') /\ upset' = FALSE
<1>0. IsChip(chip) /\ Sound(chip)
  BY FromInv
<1>1. /\ upset' = FALSE
      /\ \E e : /\ IsChip(e) /\ Sound(e) /\ Same(chip, e) /\ Buffer(e) = Buffer(chip)
                /\ e.ram[BLOCKID] = chip.ram[BLOCKID]
                /\ Outcome(e, SSC_ProtectBlock, chip')
  <2>1. SSC_ProtectBlock \in TimedCodes
    BY DEF TimedCodes
  <2> QED
    BY <2>1, TimedCall DEF secure
<1>2. PICK e : /\ IsChip(e) /\ Same(chip, e) /\ Buffer(e) = Buffer(chip)
               /\ Outcome(e, SSC_ProtectBlock, chip')
  BY <1>1
<1> DEFINE r == Return(e, 0)
           k == BankAt(chip)
<1>3. chip' = Protect(r, k, Buffer(chip))
  <2>1. chip' = Protect(r, BankAt(e), Buffer(e))
    BY <1>2, Zenon DEF Outcome, BankAt
  <2>2. BankAt(e) = k
    BY <1>2 DEF Same, BankAt
  <2> QED
    BY <1>2, <2>1, <2>2
<1>4. IsChip(r) /\ Same(chip, r) /\ r.ram[RETURN_CODE] = 0
  BY <1>2, Returned, SameTransitive
<1>5. k \in Bank /\ Buffer(chip) \in Contents
  BY <1>0 DEF Sound, BankAt
<1> HIDE DEF r, k
<1>6. Sound(r) /\ Buffer(r) = Buffer(chip)
  BY <1>0, <1>4, SameSound
<1>7. /\ IsChip(chip') /\ chip'.ram = r.ram /\ chip'.reg = r.reg
      /\ chip'.secure = [r.secure EXCEPT ![k] = Buffer(chip)] /\ chip'.flash = r.flash
  <2> DEFINE e1 == Protect(r, k, Buffer(chip))
  <2>1. /\ IsChip(e1) /\ e1.ram = r.ram /\ e1.reg = r.reg
        /\ e1.secure = [r.secure EXCEPT ![k] = Buffer(chip)] /\ e1.flash = r.flash
    BY <1>4, <1>5, Protected
  <2>2. chip' = e1
    BY <1>3
  <2> HIDE DEF e1
  <2> QED
    BY <2>1, <2>2
<1>8. Buffer(chip') = Buffer(r)
  BY <1>7 DEF Buffer
<1> QED
  BY <1>1, <1>4, <1>6, <1>7, <1>8 DEF Chip!secure, Chip!Done, Chip!selected, k,
     BankAt, secure, Done, Same, Sound

\* verify_secure loads the protection bits of the bank into the buffer.
LEMMA verify_secureStep ==
  ASSUME PrimAssumption, PrimInv, verify_secure
  PROVE  Chip!verify_secure /\ Sound(chip') /\ upset' = FALSE
<1> DEFINE c1 == VECTOR_PTROP_PREAMBLE(chip, 128)
           c2 == WRITE_MEM(c1, RESERVED_FD, 0)
           d == WRITE_MEM(c2, RESERVED_FF, 0)
<1>0. IsChip(chip) /\ Sound(chip) /\ upset = FALSE
  BY FromInv
<1>1. VECTOR_SSC(d, SSC_ReadProtection)
  BY DEF verify_secure, VERIFY_SECURE_SETUP
<1>2. IsChip(c1) /\ Same(chip, c1) /\ Fresh(c1) /\ c1.ram[POINTER] = 128
  BY <1>0, Preamble128
<1> HIDE DEF c1
<1>p. /\ RESERVED_FD \in {BLOCKID, RESERVED_FD, RESERVED_FF} /\ 0 \in Nat
      /\ RESERVED_FF \in {BLOCKID, RESERVED_FD, RESERVED_FF}
  OBVIOUS
<1>3. IsChip(c2) /\ Fresh(c2) /\ MemWritten(c1, c2, RESERVED_FD, 0)
  BY <1>p, <1>2, Parameter
<1> HIDE DEF c2
<1>4. IsChip(d) /\ Fresh(d) /\ MemWritten(c2, d, RESERVED_FF, 0)
  BY <1>p, <1>3, Parameter
<1> HIDE DEF d
<1>5. Same(chip, d) /\ d.ram[POINTER] = 128
  <2>1. c1.ram \in [RAM -> Nat] /\ c2.ram \in [RAM -> Nat] /\ POINTER \in RAM
    <3>1. POINTER \in RAM
      BY DEF RAM, Results, POINTER
    <3> QED
      BY <1>2, <1>3, <3>1, Fields
  <2>2. d.ram[POINTER] = c1.ram[POINTER]
    BY <1>3, <1>4, <2>1 DEF POINTER, RESERVED_FD, RESERVED_FF, MemWritten
  <2> QED
    BY <1>2, <1>3, <1>4, <2>2, SameTransitive DEF MemWritten
<1>6. SSC_ReadProtection \in Codes /\ SSC_ReadProtection \notin TimedCodes
  BY DEF Codes, TimedCodes, SSC_ReadProtection, SSC_WriteBlock, SSC_ProtectBlock,
     SSC_EraseAll
<1>7. /\ upset' = FALSE
      /\ \E e : /\ IsChip(e) /\ Sound(e) /\ Same(chip, e) /\ Buffer(e) = Buffer(chip)
                /\ e.ram = d.ram /\ Outcome(e, SSC_ReadProtection, chip')
  BY <1>0, <1>1, <1>4, <1>5, <1>6, Call
<1>8. PICK e : IsChip(e) /\ Same(chip, e) /\ Outcome(e, SSC_ReadProtection, chip')
  BY <1>7
<1> DEFINE bits == chip.secure[BankAt(chip)]
<1>9. chip' = Load(Return(e, 0), bits)
  <2>1. chip' = Load(Return(e, 0), e.secure[BankAt(e)])
    BY <1>8, Zenon DEF Outcome, BankAt
  <2>2. e.secure = chip.secure /\ BankAt(e) = BankAt(chip)
    BY <1>8 DEF Same, BankAt
  <2> QED
    BY <2>1, <2>2
<1>10. bits \in Contents
  BY <1>0, Fields DEF Sound, BankAt
<1> HIDE DEF bits
<1>11. /\ Sound(chip') /\ chip'.ram[RETURN_CODE] = 0 /\ Buffer(chip') = bits
       /\ UNCHANGED Chip!store /\ BankAt(chip') = BankAt(chip)
  BY <1>0, <1>8, <1>9, <1>10, OnlyLoaded
<1> QED
  BY <1>7, <1>11 DEF Chip!verify_secure, Chip!Done, Chip!selected, bits,
     BankAt, verify_secure, Done

\* initialize_1 calibrates, and changes nothing that the later primitives see.
LEMMA initialize_1Step ==
  ASSUME PrimAssumption, PrimInv, initialize_1
  PROVE  Chip!initialize /\ Sound(chip') /\ upset' = FALSE
<1> DEFINE d == VECTOR_PTROP_PREAMBLE(chip, 128)
<1>0. IsChip(chip) /\ Sound(chip) /\ upset = FALSE
  BY FromInv
<1>1. IsChip(d) /\ Same(chip, d) /\ Fresh(d) /\ d.ram[POINTER] = 128
  BY <1>0, Preamble128
<1>2. VECTOR_SSC(d, SSC_Calibrate1)
  BY DEF initialize_1, INITIALIZE_1_REST
<1> HIDE DEF d
<1>3. SSC_Calibrate1 \in Codes /\ SSC_Calibrate1 \notin TimedCodes
  BY DEF Codes, TimedCodes, SSC_Calibrate1, SSC_WriteBlock, SSC_ProtectBlock, SSC_EraseAll
<1>4. /\ upset' = FALSE
      /\ \E e : /\ IsChip(e) /\ Sound(e) /\ Same(chip, e) /\ Buffer(e) = Buffer(chip)
                /\ e.ram = d.ram /\ Outcome(e, SSC_Calibrate1, chip')
  BY <1>0, <1>1, <1>2, <1>3, Call
<1>5. PICK e : IsChip(e) /\ Same(chip, e) /\ Outcome(e, SSC_Calibrate1, chip')
  BY <1>4
<1>6. chip' = Return(e, 0)
  BY <1>5, Zenon DEF Outcome
<1>7. IsChip(chip') /\ Same(chip, chip') /\ chip'.ram[RETURN_CODE] = 0
  BY <1>0, <1>5, <1>6, OnlyReturned
<1> QED
  BY <1>0, <1>4, <1>7, Unchanged DEF Chip!initialize, Chip!Done, Chip!selected, BankAt,
     initialize_1, Done

\* A register of bank 1 is written.
LEMMA PutXio ==
  ASSUME NEW c, IsChip(c), c.f = XIO, NEW a \in Addr, NEW n \in Nat
  PROVE  LET d == WRITE_REG(c, a, n)
         IN  /\ IsChip(d) /\ d.f = XIO /\ d.ram = c.ram
             /\ d.flash = c.flash /\ d.secure = c.secure
             /\ d.reg = [c.reg EXCEPT ![<<1, a>>] = n % 256]
<1> DEFINE r == [c.reg EXCEPT ![<<1, a>>] = n % 256]
<1>1. r \in [Regs -> Nat]
  <2>1. n % 256 \in Nat /\ c.reg \in [Regs -> Nat]
    BY Fields
  <2> QED
    BY <2>1
<1>2. WRITE_REG(c, a, n) = [c EXCEPT !.reg = r]
  BY DEF WRITE_REG, At, XIO
<1>3. r = [c.reg EXCEPT ![<<1, a>>] = n % 256]
  OBVIOUS
<1> HIDE DEF r
<1> QED
  BY <1>1, <1>2, <1>3, NewReg

\* A row of the table is read by initialize_2 and id.
LEMMA TableCall ==
  ASSUME PrimAssumption, upset = FALSE, NEW c, IsChip(c), Sound(c), NEW n \in {0, 1},
         VECTOR_SSC(WRITE_MEM(VECTOR_PTROP_PREAMBLE(c, 128), BLOCKID, n), SSC_TableRead)
  PROVE  /\ upset' = FALSE /\ IsChip(chip') /\ Same(c, chip')
         /\ \A a \in Results : chip'.ram[a] = Row(n, a)
<1> DEFINE c1 == VECTOR_PTROP_PREAMBLE(c, 128)
           d == WRITE_MEM(c1, BLOCKID, n)
<1>0. VECTOR_SSC(d, SSC_TableRead)
  OBVIOUS
<1>1. IsChip(c1) /\ Same(c, c1) /\ Fresh(c1) /\ c1.ram[POINTER] = 128
  BY Preamble128
<1> HIDE DEF c1
<1>2. IsChip(d) /\ Fresh(d) /\ MemWritten(c1, d, BLOCKID, n)
  <2>1. BLOCKID \in {BLOCKID, RESERVED_FD, RESERVED_FF} /\ n \in Nat
    OBVIOUS
  <2> QED
    BY <1>1, <2>1, Parameter
<1> HIDE DEF d
<1>3. Same(c, d) /\ d.ram[POINTER] = 128 /\ d.ram[BLOCKID] = n
  <2>0. n % 256 = n
    OBVIOUS
  <2>1. c1.ram \in [RAM -> Nat] /\ n % 256 = n
    BY <1>1, <2>0, Fields
  <2>2. POINTER \in RAM /\ BLOCKID \in RAM
    BY DEF RAM, Results, POINTER, BLOCKID
  <2>3. d.ram[POINTER] = c1.ram[POINTER] /\ d.ram[BLOCKID] = n
    BY <1>2, <2>1, <2>2 DEF MemWritten, POINTER, BLOCKID
  <2> QED
    BY <1>1, <1>2, <2>3, SameTransitive DEF MemWritten
<1>4. SSC_TableRead \in Codes /\ SSC_TableRead \notin TimedCodes
  BY DEF Codes, TimedCodes, SSC_TableRead, SSC_WriteBlock, SSC_ProtectBlock, SSC_EraseAll
<1>5. /\ upset' = FALSE
      /\ \E e : /\ IsChip(e) /\ Sound(e) /\ Same(c, e) /\ Buffer(e) = Buffer(c)
                /\ e.ram = d.ram /\ Outcome(e, SSC_TableRead, chip')
  BY <1>0, <1>2, <1>3, <1>4, Call
<1>6. PICK e : /\ IsChip(e) /\ Same(c, e) /\ e.ram = d.ram
               /\ Outcome(e, SSC_TableRead, chip')
  BY <1>5
<1> DEFINE r == Return(e, 0)
<1>7. chip' = TableRow(r, n)
  <2>1. chip' = TableRow(r, e.ram[BLOCKID])
    BY <1>6, Zenon DEF Outcome
  <2> QED
    BY <1>3, <1>6, <2>1
<1>8. IsChip(r) /\ Same(e, r)
  BY <1>6, Returned
<1> HIDE DEF r
<1>9. IsChip(chip') /\ Same(r, chip') /\ \A a \in Results : chip'.ram[a] = Row(n, a)
  BY <1>7, <1>8, RowRead
<1> QED
  BY <1>5, <1>6, <1>8, <1>9, SameTransitive

\* initialize_2 reads the row with the trim values.
LEMMA initialize_2Step ==
  ASSUME PrimAssumption, PrimInv, initialize_2
  PROVE  /\ Chip!initialize /\ Sound(chip') /\ upset' = FALSE
         /\ \A a \in Results : chip'.ram[a] = Row(1, a)
<1>0. IsChip(chip) /\ Sound(chip) /\ upset = FALSE
  BY FromInv
<1>1. /\ upset' = FALSE /\ IsChip(chip') /\ Same(chip, chip')
      /\ \A a \in Results : chip'.ram[a] = Row(1, a)
  BY <1>0, TableCall DEF initialize_2, INITIALIZE_2
<1> QED
  BY <1>0, <1>1, Unchanged DEF Chip!initialize, Chip!Done, Chip!selected, BankAt,
     initialize_2, Done

\* id reads two bytes of row 0, perhaps with the clock of the chip raised.
LEMMA idStep ==
  ASSUME PrimAssumption, PrimInv, NEW raise_cpuclk \in BOOLEAN, id(raise_cpuclk)
  PROVE  Chip!identify /\ Sound(chip') /\ upset' = FALSE
<1>0. IsChip(chip) /\ Sound(chip) /\ upset = FALSE
  BY FromInv
<1>1. /\ upset' = FALSE /\ IsChip(chip') /\ Same(chip, chip')
      /\ \A a \in Results : chip'.ram[a] = Row(0, a)
  <2>1. CASE raise_cpuclk
    <3> DEFINE c0 == WRITE_F(chip, XIO)
               c == WRITE_REG(c0, OSC_CR0, 2)
    <3>1. VECTOR_SSC(WRITE_MEM(VECTOR_PTROP_PREAMBLE(c, 128), BLOCKID, 0), SSC_TableRead)
      BY <2>1 DEF id, ID_SETUP, ID_SETUP_3MHz
    <3>2. IsChip(c0) /\ Same(chip, c0) /\ c0.f = XIO
      BY <1>0, WriteF
    <3> HIDE DEF c0
    <3>3. OSC_CR0 \in Addr /\ OSC_CR0 # FLS_PR1 /\ FLS_PR1 \in Addr
      BY DEF Addr, Results, OSC_CR0, FLS_PR1
    <3>4. /\ IsChip(c) /\ c.ram = c0.ram /\ c.flash = c0.flash /\ c.secure = c0.secure
          /\ c.reg = [c0.reg EXCEPT ![<<1, OSC_CR0>>] = 2 % 256]
      BY <3>2, <3>3, PutXio
    <3> HIDE DEF c
    <3>5. Same(c0, c)
      <4>1. c0.reg \in [Regs -> Nat] /\ <<1, FLS_PR1>> \in Regs
        BY <3>2, <3>3, Fields DEF Regs
      <4> QED
        BY <3>3, <3>4, <4>1 DEF Same
    <3>6. Same(chip, c) /\ Sound(c)
      BY <1>0, <3>2, <3>4, <3>5, SameTransitive, SameSound
    <3> QED
      BY <1>0, <3>1, <3>4, <3>6, TableCall, SameTransitive
  <2>2. CASE ~raise_cpuclk
    <3>1. VECTOR_SSC(WRITE_MEM(VECTOR_PTROP_PREAMBLE(chip, 128), BLOCKID, 0), SSC_TableRead)
      BY <2>2 DEF id, ID_SETUP_3MHz
    <3> QED
      BY <1>0, <3>1, TableCall
  <2> QED
    BY <2>1, <2>2
<1>2. chip'.ram[248] = 1248 /\ chip'.ram[249] = 1249
  BY <1>1 DEF Results, Row
<1>3. out' = <<"id", 256 * 1248 + 1249>> /\ results' = TRUE /\ block' = block
  BY <1>2 DEF id
<1>4. Len(out') = 2 /\ out'[1] = "id" /\ out'[2] \in Nat
  BY <1>3
<1> QED
  BY <1>0, <1>1, <1>3, <1>4, Unchanged DEF Chip!identify, Chip!selected, BankAt

\* checksum: the bytes of the bank added up, in 16 bits.
LEMMA checksumStep ==
  ASSUME PrimAssumption, PrimInv, checksum
  PROVE  Chip!checksum /\ Sound(chip') /\ upset' = FALSE
<1> DEFINE p == IF Blocks = 128 THEN 0 ELSE 128
           c1 == VECTOR_PTROP_PREAMBLE(chip, p)
           d == WRITE_MEM(c1, BLOCKID, Blocks)
<1>0. /\ IsChip(chip) /\ Sound(chip) /\ upset = FALSE
      /\ p \in Nat /\ Blocks \in Nat /\ Blocks \in 1..256
  BY FromInv DEF PrimAssumption
<1>1. VECTOR_SSC(d, SSC_Checksum)
  BY DEF checksum, CHECKSUM_SETUP
<1> HIDE DEF p
<1>2. IsChip(c1) /\ Same(chip, c1) /\ Fresh(c1)
  BY <1>0, Preamble
<1> HIDE DEF c1
<1>3. IsChip(d) /\ Fresh(d) /\ MemWritten(c1, d, BLOCKID, Blocks)
  <2>1. BLOCKID \in {BLOCKID, RESERVED_FD, RESERVED_FF}
    OBVIOUS
  <2> QED
    BY <1>0, <1>2, <2>1, Parameter
<1> HIDE DEF d
<1>4. Same(chip, d) /\ d.ram[BLOCKID] = Blocks % 256
  <2>1. c1.ram \in [RAM -> Nat]
    BY <1>2, Fields
  <2>2. BLOCKID \in RAM
    BY DEF RAM, Results, BLOCKID
  <2> QED
    BY <1>2, <1>3, <2>1, <2>2, SameTransitive DEF MemWritten
<1>5. SSC_Checksum \in Codes /\ SSC_Checksum \notin TimedCodes
  BY DEF Codes, TimedCodes, SSC_Checksum, SSC_WriteBlock, SSC_ProtectBlock, SSC_EraseAll
<1>6. /\ upset' = FALSE
      /\ \E e : /\ IsChip(e) /\ Sound(e) /\ Same(chip, e) /\ Buffer(e) = Buffer(chip)
                /\ e.ram = d.ram /\ Outcome(e, SSC_Checksum, chip')
  BY <1>0, <1>1, <1>3, <1>4, <1>5, Call
<1>7. PICK e : /\ IsChip(e) /\ Same(chip, e) /\ e.ram = d.ram
               /\ Outcome(e, SSC_Checksum, chip')
  BY <1>6
<1> DEFINE r == Return(e, 0)
           sum == Total(chip.flash[BankAt(chip)], Blocks)
<1>8. chip' = Summed(r, sum)
  <2>1. chip' = Summed(r, Total(e.flash[BankAt(e)],
                                IF e.ram[BLOCKID] = 0 THEN 256 ELSE e.ram[BLOCKID]))
    BY <1>7, Zenon DEF Outcome, BankAt
  <2>2. e.flash = chip.flash /\ BankAt(e) = BankAt(chip)
    BY <1>7 DEF Same, BankAt
  <2>3. (IF e.ram[BLOCKID] = 0 THEN 256 ELSE e.ram[BLOCKID]) = Blocks
    <3>1. (IF Blocks % 256 = 0 THEN 256 ELSE Blocks % 256) = Blocks
      BY <1>0
    <3> QED
      BY <1>4, <1>7, <3>1
  <2> QED
    BY <2>1, <2>2, <2>3
<1>9. IsChip(r) /\ Same(chip, r)
  BY <1>7, Returned, SameTransitive
<1>10. sum \in Nat
  <2>1. chip.flash[BankAt(chip)] \in [Block -> Contents] /\ Blocks \in 0..Blocks
    BY <1>0, Fields DEF Sound, BankAt
  <2> QED
    BY <2>1, TotalNatural
<1> HIDE DEF r, sum
<1>11. IsChip(chip') /\ Same(r, chip') /\ TwoBytesOf(chip') = Wrapped(sum)
  BY <1>8, <1>9, <1>10, SumRead
<1>12. 256 * chip'.ram[KEY2] + chip'.ram[KEY1] = sum % 65536
  BY <1>11 DEF TwoBytesOf, Wrapped
<1>13. out' = <<"checksum", sum % 65536>> /\ results' = TRUE /\ block' = block
  BY <1>12 DEF checksum
<1>14. IsChip(chip') /\ Same(chip, chip')
  BY <1>9, <1>11, SameTransitive
<1> QED
  BY <1>0, <1>6, <1>13, <1>14, Unchanged DEF Chip!checksum, Chip!selected, BankAt, sum,
     Sum

\* set_bank_num reaches the register of bank 1 that holds the bank.
LEMMA set_bank_numStep ==
  ASSUME PrimAssumption, PrimInv, NEW b \in Bank, set_bank_num(b)
  PROVE  Chip!set_bank_num(b) /\ Sound(chip') /\ upset' = FALSE
<1> DEFINE c1 == WRITE_F(chip, XIO)
           c2 == WRITE_REG(c1, FLS_PR1, b)
           c3 == WRITE_F(c2, 0)
<1>0. IsChip(chip) /\ Sound(chip) /\ upset = FALSE /\ b % 256 = b
  BY FromInv DEF Bank, PrimAssumption
<1>a. b \in Nat /\ FLS_PR1 \in Addr
  BY DEF Bank, PrimAssumption, Addr, Results, FLS_PR1
<1>1. chip' = c3
  BY DEF set_bank_num, SET_BANK_NUM
<1>2. /\ IsChip(c1) /\ c1.f = XIO /\ c1.ram = chip.ram /\ c1.reg = chip.reg
      /\ Same(chip, c1)
  BY <1>0, WriteF
<1> HIDE DEF c1
<1>3. /\ IsChip(c2) /\ c2.ram = c1.ram /\ c2.flash = c1.flash /\ c2.secure = c1.secure
      /\ c2.reg = [c1.reg EXCEPT ![<<1, FLS_PR1>>] = b % 256]
  BY <1>a, <1>2, PutXio
<1> HIDE DEF c2
<1>4. IsChip(c3) /\ Same(c2, c3) /\ c3.ram = c2.ram /\ c3.reg = c2.reg
  BY <1>3, WriteF
<1> HIDE DEF c3
<1>5. BankAt(chip') = b
  <2>1. c1.reg \in [Regs -> Nat] /\ <<1, FLS_PR1>> \in Regs
    BY <1>a, <1>2, Fields DEF Regs
  <2> QED
    BY <1>0, <1>1, <1>3, <1>4, <2>1 DEF BankAt
<1>6. /\ IsChip(chip') /\ chip'.ram = chip.ram
      /\ chip'.flash = chip.flash /\ chip'.secure = chip.secure
  BY <1>1, <1>2, <1>3, <1>4 DEF Same
<1>7. Buffer(chip') = Buffer(chip)
  BY <1>6 DEF Buffer
<1> QED
  BY <1>0, <1>5, <1>6, <1>7 DEF Chip!set_bank_num, Chip!store, BankAt, Sound,
     set_bank_num

\* set_block_num leaves the block in the RAM.
LEMMA set_block_numStep ==
  ASSUME PrimAssumption, PrimInv, NEW b \in Block, set_block_num(b)
  PROVE  Chip!set_block_num(b) /\ Sound(chip') /\ upset' = FALSE /\ block' \in Block
<1>0. /\ IsChip(chip) /\ Sound(chip) /\ upset = FALSE /\ b \in Nat /\ BLOCKID \in Results
  BY FromInv DEF Block, PrimAssumption, Results, BLOCKID
<1>1. chip' = WRITE_MEM(chip, BLOCKID, b)
  BY DEF set_block_num, SET_BLOCK_NUM
<1>2. IsChip(chip') /\ MemWritten(chip, chip', BLOCKID, b)
  BY <1>0, <1>1, WriteMem
<1>3. Same(chip, chip') /\ chip'.ram[RETURN_CODE] = chip.ram[RETURN_CODE]
  BY <1>2 DEF MemWritten, BLOCKID, RETURN_CODE, KEY1
<1> QED
  BY <1>0, <1>2, <1>3, Unchanged DEF Chip!set_block_num, BankAt, set_block_num

\* write_block fills the buffer.
LEMMA write_blockStep ==
  ASSUME PrimAssumption, PrimInv, NEW d \in Written, write_block(d)
  PROVE  (\E x \in Chip!BlockData : Chip!write_block(x)) /\ Sound(chip') /\ upset' = FALSE
<1>0. IsChip(chip) /\ Sound(chip) /\ upset = FALSE
  BY FromInv
<1>1. d \in Contents /\ d \in Chip!BlockData
  BY DEF PrimAssumption, Contents, Chip!BlockData
<1>2. /\ IsChip(chip') /\ Buffer(chip') = d
      /\ chip'.flash = chip.flash /\ chip'.secure = chip.secure /\ chip'.reg = chip.reg
      /\ chip'.ram[RETURN_CODE] = chip.ram[RETURN_CODE]
  BY <1>0, <1>1, Loaded DEF write_block, Results, RETURN_CODE, KEY1
<1>3. Chip!write_block(d)
  BY <1>0, <1>2 DEF Chip!write_block, Chip!store, Chip!selected, write_block
<1> QED
  BY <1>0, <1>1, <1>2, <1>3 DEF Sound, write_block

\* read_block, return_code and revision only look.
LEMMA read_blockStep ==
  ASSUME PrimAssumption, PrimInv, read_block
  PROVE  Chip!read_block
BY DEF read_block, Chip!read_block, Chip!store, Chip!selected, Buffer

\* return_code: the byte is that of the last call while no results are in it.
LEMMA return_codeStep ==
  ASSUME PrimAssumption, PrimInv, return_code
  PROVE  Chip!fetch_return_code
<1>1. ~results
  BY DEF PrimInv, return_code
<1> QED
  BY <1>1 DEF return_code, Chip!fetch_return_code, Chip!store, Chip!selected, Buffer

\* revision: what id has left in two registers.
LEMMA revisionStep ==
  ASSUME PrimAssumption, PrimInv, revision
  PROVE  Chip!identify
<1>1. results /\ IsChip(chip)
  BY FromInv DEF PrimInv, revision
<1> DEFINE a == chip.reg[At(chip, CPU_A)]
           x == chip.reg[At(chip, CPU_X)]
<1>2. a \in Nat /\ x \in Nat
  <2>1. chip.reg \in [Regs -> Nat]
    BY <1>1, Fields
  <2>2. At(chip, CPU_A) \in Regs /\ At(chip, CPU_X) \in Regs
    BY DEF At, Regs, Addr, CPU_A, CPU_X
  <2> QED
    BY <2>1, <2>2
<1>3. out' = <<"revision", 256 * a + x>>
  BY DEF revision
<1> HIDE DEF a, x
<1>4. Len(out') = 2 /\ out'[1] = "revision" /\ out'[2] \in Nat
  BY <1>2, <1>3
<1> QED
  BY <1>1, <1>4 DEF revision, Chip!identify, Chip!store, Chip!selected, Buffer

-----------------------------------------------------------------------------
(* The trim values *)

\* Bank 1 of the registers, and one of bank 0.
HighKept(c, d) == \A x \in Addr : d.reg[<<1, x>>] = c.reg[<<1, x>>]
Low(c, x) == c.reg[<<0, x>>]

\* Writes in bank 0 leave bank 1 alone, however many.
LEMMA HighTransitive ==
  \A c, d, e : HighKept(c, d) /\ HighKept(d, e) => HighKept(c, e)
BY DEF HighKept

\* A write in bank 0 is found there and nowhere else.
LEMMA LowWritten ==
  ASSUME NEW c, Usable(c), NEW a \in Addr, NEW n \in 0..255, NEW d,
         RegWritten(c, d, a, n)
  PROVE  /\ HighKept(c, d) /\ Low(d, a) = n
         /\ \A x \in Addr \ {a} : Low(d, x) = Low(c, x)
<1>1. c.reg \in [Regs -> Nat] /\ \A x \in Addr : <<0, x>> \in Regs /\ <<1, x>> \in Regs
  BY Fields DEF Regs, Usable
<1>2. n % 256 = n
  OBVIOUS
<1>3. d.reg = [c.reg EXCEPT ![<<0, a>>] = n]
  BY <1>2 DEF RegWritten
<1>4. HighKept(c, d)
  <2> SUFFICES ASSUME NEW x \in Addr PROVE d.reg[<<1, x>>] = c.reg[<<1, x>>]
    BY DEF HighKept
  <2>1. <<1, x>> # <<0, a>>
    OBVIOUS
  <2>2. <<1, x>> \in Regs
    BY <1>1
  <2> QED
    BY <1>1, <1>3, <2>1, <2>2
<1>5. d.reg[<<0, a>>] = n
  BY <1>1, <1>3
<1>6. \A x \in Addr \ {a} : d.reg[<<0, x>>] = c.reg[<<0, x>>]
  <2> TAKE x \in Addr \ {a}
  <2>1. <<0, x>> # <<0, a>> /\ <<0, x>> \in Regs
    BY <1>1
  <2> QED
    BY <1>1, <1>3, <2>1
<1> QED
  BY <1>4, <1>5, <1>6 DEF Low

\* An instruction and its operand are in the code registers of bank 0.
CodedAs(c, d, op, a) ==
  /\ Usable(d) /\ Same(c, d) /\ d.ram = c.ram /\ HighKept(c, d)
  /\ Low(d, CPU_A) = Low(c, CPU_A) /\ Low(d, CPU_CODE0) = op /\ Low(d, CPU_CODE1) = a

\* An instruction is put into the code registers, in bank 0.
LEMMA Coded ==
  ASSUME NEW c, IsChip(c), NEW op \in 0..255, NEW a \in 0..255
  PROVE  CodedAs(c, Instruction(c, op, a), op, a)
<1>0. /\ CPU_PCL \in Addr /\ CPU_PCH \in Addr /\ CPU_SP \in Addr /\ CPU_A \in Addr
      /\ CPU_CODE0 \in Addr /\ CPU_CODE1 \in Addr /\ CPU_CODE2 \in Addr
      /\ OP_HALT \in 0..255 /\ 3 \in 0..255 /\ 0 \in 0..255 /\ 8 \in 0..255
      /\ \A n \in 0..255 : n \in Nat
  BY DEF Results, Addr, CPU_A, CPU_SP, CPU_PCH, CPU_PCL, CPU_CODE0, CPU_CODE1, CPU_CODE2,
     OP_HALT
<1> DEFINE c0 == WRITE_F(c, 0)
           c1 == WRITE_REG(c0, CPU_PCL, 3)
           c2 == WRITE_REG(c1, CPU_PCH, 0)
           c3 == WRITE_REG(c2, CPU_SP, 8)
           c4 == WRITE_REG(c3, CPU_CODE0, op)
           c5 == WRITE_REG(c4, CPU_CODE1, a)
           d == WRITE_REG(c5, CPU_CODE2, OP_HALT)
           Written0(x, y, r, n) ==
             /\ Usable(y) /\ Same(x, y) /\ y.ram = x.ram /\ HighKept(x, y)
             /\ Low(y, r) = n /\ \A z \in Addr \ {r} : Low(y, z) = Low(x, z)
<1>1. Instruction(c, op, a) = d
  BY DEF Instruction
<1>2. \A x : \A r \in Addr : \A n \in 0..255 :
        Usable(x) => Written0(x, WRITE_REG(x, r, n), r, n)
  <2> TAKE x
  <2> TAKE r \in Addr
  <2> TAKE n \in 0..255
  <2> HAVE Usable(x)
  <2> DEFINE y == WRITE_REG(x, r, n)
  <2>1. Usable(y) /\ RegWritten(x, y, r, n)
    BY <1>0, PutReg
  <2> HIDE DEF y
  <2>2. Same(x, y) /\ y.ram = x.ram
    BY <2>1 DEF RegWritten
  <2>3. /\ HighKept(x, y) /\ Low(y, r) = n
        /\ \A z \in Addr \ {r} : Low(y, z) = Low(x, z)
    BY <2>1, LowWritten
  <2> QED
    BY <2>1, <2>2, <2>3 DEF y
<1>3. Usable(c0) /\ Same(c, c0) /\ c0.ram = c.ram /\ HighKept(c, c0)
      /\ Low(c0, CPU_A) = Low(c, CPU_A)
  BY WriteF DEF Usable, HighKept, Low
<1> HIDE DEF c0, Written0
<1>4. Written0(c0, c1, CPU_PCL, 3)
  BY <1>0, <1>2, <1>3
<1> HIDE DEF c1
<1>5. Written0(c1, c2, CPU_PCH, 0)
  <2>1. Usable(c1)
    BY <1>4 DEF Written0
  <2> QED
    BY <1>0, <1>2, <2>1
<1> HIDE DEF c2
<1>6. Written0(c2, c3, CPU_SP, 8)
  <2>1. Usable(c2)
    BY <1>5 DEF Written0
  <2> QED
    BY <1>0, <1>2, <2>1
<1> HIDE DEF c3
<1>7. Written0(c3, c4, CPU_CODE0, op)
  <2>1. Usable(c3)
    BY <1>6 DEF Written0
  <2> QED
    BY <1>0, <1>2, <2>1
<1> HIDE DEF c4
<1>8. Written0(c4, c5, CPU_CODE1, a)
  <2>1. Usable(c4)
    BY <1>7 DEF Written0
  <2> QED
    BY <1>0, <1>2, <2>1
<1> HIDE DEF c5
<1>9. Written0(c5, d, CPU_CODE2, OP_HALT)
  <2>1. Usable(c5)
    BY <1>8 DEF Written0
  <2> QED
    BY <1>0, <1>2, <2>1
<1> HIDE DEF d
<1>10. Same(c, d)
  <2>1. Same(c0, c1) /\ Same(c1, c2) /\ Same(c2, c3)
    BY <1>4, <1>5, <1>6 DEF Written0
  <2>2. Same(c3, c4) /\ Same(c4, c5) /\ Same(c5, d)
    BY <1>7, <1>8, <1>9 DEF Written0
  <2> QED
    BY <1>3, <2>1, <2>2, SameTransitive
<1>11. HighKept(c, d)
  <2>1. HighKept(c0, c1) /\ HighKept(c1, c2) /\ HighKept(c2, c3)
    BY <1>4, <1>5, <1>6 DEF Written0
  <2>2. HighKept(c3, c4) /\ HighKept(c4, c5) /\ HighKept(c5, d)
    BY <1>7, <1>8, <1>9 DEF Written0
  <2> QED
    BY <1>3, <2>1, <2>2, HighTransitive
<1>12. d.ram = c.ram /\ Usable(d)
  BY <1>3, <1>4, <1>5, <1>6, <1>7, <1>8, <1>9 DEF Written0
<1>13. /\ CPU_A \notin {CPU_PCL, CPU_PCH, CPU_SP, CPU_CODE0, CPU_CODE1, CPU_CODE2}
       /\ CPU_CODE0 \notin {CPU_CODE1, CPU_CODE2} /\ CPU_CODE1 # CPU_CODE2
  BY DEF CPU_A, CPU_PCL, CPU_PCH, CPU_SP, CPU_CODE0, CPU_CODE1, CPU_CODE2
<1>14. Low(d, CPU_A) = Low(c, CPU_A)
  BY <1>0, <1>3, <1>4, <1>5, <1>6, <1>7, <1>8, <1>9, <1>13 DEF Written0
<1>15. Low(d, CPU_CODE0) = op /\ Low(d, CPU_CODE1) = a
  BY <1>0, <1>7, <1>8, <1>9, <1>13 DEF Written0
<1> QED
  BY <1>1, <1>10, <1>11, <1>12, <1>14, <1>15 DEF CodedAs

\* A result is in a register of bank 1, and nothing else there has changed.
MovedTo(c, d, m, a) ==
  /\ IsChip(d) /\ Same(c, d) /\ d.ram = c.ram /\ d.reg[<<1, a>>] = c.ram[m]
  /\ \A x \in Addr \ {a} : d.reg[<<1, x>>] = c.reg[<<1, x>>]

\* A result is moved to a register of bank 1.
LEMMA Moved ==
  ASSUME NEW c, IsChip(c), NEW m \in Results, NEW a \in {BDG_TR, IMO_TR}
  PROVE  MovedTo(c, VECTOR_MOV_A_DD_REG_1(VECTOR_MOV_A_SD_MEM(c, m), a), m, a)
<1> DEFINE c1 == Instruction(c, OP_MOV_A_SD_MEM, m)
           r1 == [c1.reg EXCEPT ![<<0, CPU_A>>] = c1.ram[m]]
           c2 == [c1 EXCEPT !.reg = r1]
           c3 == Instruction(c2, OP_MOV_A_DD_REG, a)
           c4 == WRITE_F(c3, XIO)
           r2 == [c4.reg EXCEPT ![<<1, a>>] = c4.reg[<<0, CPU_A>>]]
           d == [c4 EXCEPT !.reg = r2]
<1>0. /\ m \in 0..255 /\ a \in 0..255 /\ a \in Addr /\ FLS_PR1 \in Addr /\ a # FLS_PR1
      /\ OP_MOV_A_SD_MEM \in 0..255 /\ OP_MOV_A_DD_REG \in 0..255
      /\ OP_MOV_A_DD_REG # OP_MOV_A_SD_MEM /\ m \in RAM /\ CPU_A \in Addr
      /\ CPU_CODE0 \in Addr /\ CPU_CODE1 \in Addr
  BY DEF Results, Addr, RAM, BDG_TR, IMO_TR, FLS_PR1, OP_MOV_A_SD_MEM, OP_MOV_A_DD_REG,
     CPU_A, CPU_CODE0, CPU_CODE1
<1>a. \A x \in Addr : <<0, x>> \in Regs /\ <<1, x>> \in Regs
  BY DEF Regs
<1>1. CodedAs(c, c1, OP_MOV_A_SD_MEM, m)
  BY <1>0, Coded
<1> HIDE DEF c1
<1>2. EXEC_VECTOR(c1) = c2
  BY <1>1 DEF EXEC_VECTOR, CodedAs, Low
<1>b. VECTOR_MOV_A_SD_MEM(c, m) = c2
  BY <1>2 DEF VECTOR_MOV_A_SD_MEM, c1
<1>3. IsChip(c1) /\ c1.ram \in [RAM -> Nat] /\ c1.reg \in [Regs -> Nat]
  BY <1>1, Fields DEF Usable, CodedAs
<1>4. r1 \in [Regs -> Nat] /\ r1[<<0, CPU_A>>] = c.ram[m]
      /\ \A x \in Addr : r1[<<1, x>>] = c1.reg[<<1, x>>]
  <2>1. c1.ram[m] \in Nat /\ c1.ram[m] = c.ram[m]
    BY <1>0, <1>1, <1>3 DEF CodedAs
  <2>2. \A x \in Addr : <<1, x>> # <<0, CPU_A>>
    OBVIOUS
  <2>3. r1 \in [Regs -> Nat] /\ r1[<<0, CPU_A>>] = c1.ram[m]
    BY <1>0, <1>a, <1>3, <2>1
  <2>4. \A x \in Addr : r1[<<1, x>>] = c1.reg[<<1, x>>]
    BY <1>a, <1>3, <2>2
  <2> QED
    BY <2>1, <2>3, <2>4
<1> HIDE DEF r1
<1>5. /\ IsChip(c2) /\ c2.ram = c1.ram /\ c2.reg = r1
      /\ c2.flash = c1.flash /\ c2.secure = c1.secure
  BY <1>3, <1>4, NewReg
<1> HIDE DEF c2
<1>6. Same(c, c2) /\ HighKept(c, c2) /\ Low(c2, CPU_A) = c.ram[m] /\ c2.ram = c.ram
  <2>1. Same(c1, c2) /\ HighKept(c1, c2)
    BY <1>0, <1>4, <1>5 DEF Same, HighKept
  <2>2. Same(c, c1) /\ HighKept(c, c1) /\ c1.ram = c.ram
    BY <1>1 DEF CodedAs
  <2> QED
    BY <1>4, <1>5, <2>1, <2>2, SameTransitive, HighTransitive DEF Low
<1>7. CodedAs(c2, c3, OP_MOV_A_DD_REG, a)
  BY <1>0, <1>5, Coded
<1> HIDE DEF c3
<1>8. /\ IsChip(c4) /\ Same(c3, c4) /\ c4.f = XIO /\ c4.ram = c3.ram /\ c4.reg = c3.reg
  BY <1>7, WriteF DEF Usable, CodedAs
<1> HIDE DEF c4
<1>9. EXEC_VECTOR(c4) = d
  <2>1. c4.reg[<<0, CPU_CODE0>>] # OP_MOV_A_SD_MEM /\ c4.reg[<<0, CPU_CODE1>>] = a
    BY <1>0, <1>7, <1>8 DEF CodedAs, Low
  <2>2. At(c4, a) = <<1, a>>
    BY <1>8 DEF At
  <2> QED
    BY <2>1, <2>2 DEF EXEC_VECTOR
<1>10. VECTOR_MOV_A_DD_REG_1(c2, a) = d
  BY <1>9 DEF VECTOR_MOV_A_DD_REG_1, c3, c4
<1>11. c4.reg \in [Regs -> Nat] /\ c4.reg[<<0, CPU_A>>] = c.ram[m]
  BY <1>6, <1>7, <1>8, Fields DEF CodedAs, Low
<1>12. /\ r2 \in [Regs -> Nat] /\ r2[<<1, a>>] = c.ram[m]
       /\ \A x \in Addr \ {a} : r2[<<1, x>>] = c4.reg[<<1, x>>]
  <2>1. c4.reg[<<0, CPU_A>>] \in Nat
    BY <1>0, <1>a, <1>11
  <2>2. r2 \in [Regs -> Nat] /\ r2[<<1, a>>] = c.ram[m]
    BY <1>0, <1>a, <1>11, <2>1
  <2>3. ASSUME NEW x \in Addr \ {a} PROVE r2[<<1, x>>] = c4.reg[<<1, x>>]
    <3>1. <<1, x>> # <<1, a>> /\ <<1, x>> \in Regs
      BY <1>a
    <3> QED
      BY <1>11, <3>1
  <2> QED
    BY <2>2, <2>3
<1> HIDE DEF r2
<1>13. /\ IsChip(d) /\ d.ram = c4.ram /\ d.reg = r2
       /\ d.flash = c4.flash /\ d.secure = c4.secure
  BY <1>8, <1>12, NewReg
<1> HIDE DEF d
<1>14. Same(c, d)
  <2>1. Same(c4, d)
    BY <1>0, <1>12, <1>13 DEF Same
  <2>2. Same(c2, c3)
    BY <1>7 DEF CodedAs
  <2> QED
    BY <1>6, <1>8, <2>1, <2>2, SameTransitive
<1>15. \A x \in Addr \ {a} : d.reg[<<1, x>>] = c.reg[<<1, x>>]
  <2> TAKE x \in Addr \ {a}
  <2>1. d.reg[<<1, x>>] = c3.reg[<<1, x>>]
    BY <1>8, <1>12, <1>13
  <2>2. c3.reg[<<1, x>>] = c2.reg[<<1, x>>]
    BY <1>7 DEF CodedAs, HighKept
  <2>3. c2.reg[<<1, x>>] = c.reg[<<1, x>>]
    BY <1>6 DEF HighKept
  <2> QED
    BY <2>1, <2>2, <2>3
<1>16. d.ram = c.ram
  BY <1>6, <1>7, <1>8, <1>13 DEF CodedAs
<1> QED
  BY <1>b, <1>10, <1>12, <1>13, <1>14, <1>15, <1>16 DEF MovedTo

\* initialize_3 moves two of the results to the trim registers.
LEMMA initialize_3Moves ==
  ASSUME PrimAssumption, PrimInv, NEW imo \in Results, NEW bdg \in Results,
         INITIALIZE_3(imo, bdg)
  PROVE  /\ IsChip(chip') /\ Same(chip, chip') /\ chip'.ram = chip.ram
         /\ chip'.reg[<<1, BDG_TR>>] = chip.ram[imo]
         /\ chip'.reg[<<1, IMO_TR>>] = chip.ram[bdg]
<1> DEFINE c == VECTOR_MOV_A_DD_REG_1(VECTOR_MOV_A_SD_MEM(chip, imo), BDG_TR)
<1>1. chip' = VECTOR_MOV_A_DD_REG_1(VECTOR_MOV_A_SD_MEM(c, bdg), IMO_TR)
  BY DEF INITIALIZE_3
<1>2. IsChip(chip)
  BY FromInv
<1>3. MovedTo(chip, c, imo, BDG_TR)
  BY <1>2, Moved
<1> HIDE DEF c
<1>4. MovedTo(c, chip', bdg, IMO_TR)
  BY <1>1, <1>3, Moved DEF MovedTo
<1>5. BDG_TR \in Addr \ {IMO_TR}
  BY DEF Addr, BDG_TR, IMO_TR
<1>6. Same(chip, chip')
  BY <1>3, <1>4, SameTransitive DEF MovedTo
<1> QED
  BY <1>3, <1>4, <1>5, <1>6 DEF MovedTo

\* initialize_3 leaves the trim values of the voltage in the trim registers.
LEMMA initialize_3Step ==
  ASSUME PrimAssumption, PrimInv, NEW voltage \in {3, 5}, initialize_3(voltage)
  PROVE  Chip!initialize /\ Sound(chip') /\ upset' = FALSE /\ Trimmed'
<1>0. /\ Sound(chip) /\ upset = FALSE /\ results = TRUE
      /\ \A a \in Results : chip.ram[a] = Row(1, a)
  BY FromInv DEF PrimInv, initialize_3
<1>1. 248 \in Results /\ 249 \in Results /\ 252 \in Results /\ 253 \in Results
  BY DEF Results
<1>2. CASE INITIALIZE_3(248, 249) /\ Done("3V", results)
  <2>1. /\ IsChip(chip') /\ Same(chip, chip') /\ chip'.ram = chip.ram
        /\ chip'.reg[<<1, BDG_TR>>] = chip.ram[248]
        /\ chip'.reg[<<1, IMO_TR>>] = chip.ram[249]
    BY <1>1, <1>2, initialize_3Moves
  <2>2. out' = <<"3V">> /\ results' = TRUE /\ block' = block
    BY <1>0, <1>2 DEF Done
  <2>3. Trimmed'
    BY <1>0, <1>1, <2>1, <2>2 DEF Trimmed, Called
  <2>4. Chip!initialize /\ Sound(chip')
    BY <1>0, <2>1, <2>2, Unchanged DEF Chip!initialize, Chip!Done, Chip!selected, BankAt
  <2> QED
    BY <1>0, <2>3, <2>4 DEF initialize_3
<1>3. CASE INITIALIZE_3(252, 253) /\ Done("5V", results)
  <2>1. /\ IsChip(chip') /\ Same(chip, chip') /\ chip'.ram = chip.ram
        /\ chip'.reg[<<1, BDG_TR>>] = chip.ram[252]
        /\ chip'.reg[<<1, IMO_TR>>] = chip.ram[253]
    BY <1>1, <1>3, initialize_3Moves
  <2>2. out' = <<"5V">> /\ results' = TRUE /\ block' = block
    BY <1>0, <1>3 DEF Done
  <2>3. Trimmed'
    BY <1>0, <1>1, <2>1, <2>2 DEF Trimmed, Called
  <2>4. Chip!initialize /\ Sound(chip')
    BY <1>0, <2>1, <2>2, Unchanged DEF Chip!initialize, Chip!Done, Chip!selected, BankAt
  <2> QED
    BY <1>0, <2>3, <2>4 DEF initialize_3
<1> QED
  BY <1>2, <1>3 DEF initialize_3

-----------------------------------------------------------------------------
(* The refinement *)

\* What the invariant asks of the step of a primitive called n.
LEMMA Kept ==
  ASSUME NEW n, out'[1] = n, Sound(chip'), upset' = FALSE, block' \in Block,
         results' \in BOOLEAN, n \notin {"3V", "5V", "initialize_2"},
         n = "id" => results',
         n \in {"verify", "secure", "verify_secure"} => ~results'
  PROVE  PrimInv'
BY DEF PrimInv, Called, Trimmed

\* Every primitive keeps the invariant, and is one of FlashChip.
LEMMA Steps ==
  ASSUME PrimAssumption, PrimInv, Next
  PROVE  PrimInv' /\ Chip!Next
<1>0. block \in Block /\ results \in BOOLEAN /\ upset = FALSE /\ Sound(chip)
  BY DEF PrimInv
<1>1. CASE initialize_1
  <2>1. out'[1] = "initialize_1" /\ results' = FALSE /\ block' = block
    BY <1>1 DEF initialize_1, Done
  <2> QED
    BY <1>0, <1>1, <2>1, initialize_1Step, Kept DEF Chip!Next
<1>2. CASE initialize_2
  <2>1. out'[1] = "initialize_2" /\ results' = TRUE /\ block' = block
    BY <1>2 DEF initialize_2, Done
  <2>2. PrimInv'
    BY <1>0, <1>2, <2>1, initialize_2Step DEF PrimInv, Called, Trimmed
  <2> QED
    BY <1>2, <2>2, initialize_2Step DEF Chip!Next
<1>3. CASE checksum
  <2>1. out'[1] = "checksum" /\ results' = TRUE /\ block' = block
    BY <1>3 DEF checksum
  <2> QED
    BY <1>0, <1>3, <2>1, checksumStep, Kept DEF Chip!Next
<1>4. CASE verify
  <2>1. out'[1] = "verify" /\ results' = FALSE /\ block' = block
    BY <1>4 DEF verify, Done
  <2> QED
    BY <1>0, <1>4, <2>1, verifyStep, Kept DEF Chip!Next
<1>5. CASE erase_all
  <2>1. out'[1] = "erase_all" /\ results' = FALSE /\ block' = block
    BY <1>5 DEF erase_all, Done
  <2> QED
    BY <1>0, <1>5, <2>1, erase_allStep, Kept DEF Chip!Next
<1>6. CASE revision
  <2>1. /\ out'[1] = "revision" /\ results' = results /\ block' = block
        /\ chip' = chip /\ upset' = upset
    BY <1>6 DEF revision
  <2> QED
    BY <1>0, <1>6, <2>1, revisionStep, Kept DEF Chip!Next
<1>7. CASE verify_secure
  <2>1. out'[1] = "verify_secure" /\ results' = FALSE /\ block' = block
    BY <1>7 DEF verify_secure, Done
  <2> QED
    BY <1>0, <1>7, <2>1, verify_secureStep, Kept DEF Chip!Next
<1>8. CASE read_block
  <2>1. /\ out'[1] = "read_block" /\ results' = results /\ block' = block
        /\ chip' = chip /\ upset' = upset
    BY <1>8 DEF read_block
  <2> QED
    BY <1>0, <1>8, <2>1, read_blockStep, Kept DEF Chip!Next
<1>9. CASE return_code
  <2>1. /\ out'[1] = "return_code" /\ results' = results /\ block' = block
        /\ chip' = chip /\ upset' = upset
    BY <1>9 DEF return_code
  <2> QED
    BY <1>0, <1>9, <2>1, return_codeStep, Kept DEF Chip!Next
<1>10. CASE \E v \in {3, 5} : initialize_3(v)
  <2>1. PICK v \in {3, 5} : initialize_3(v)
    BY <1>10
  <2>2. Chip!initialize /\ Sound(chip') /\ upset' = FALSE /\ Trimmed'
    BY <2>1, initialize_3Step
  <2>3. out'[1] \in {"3V", "5V"} /\ results' = results /\ block' = block
    BY <2>1 DEF initialize_3, Done
  <2>4. PrimInv'
    BY <1>0, <2>2, <2>3 DEF PrimInv, Called
  <2> QED
    BY <2>2, <2>4 DEF Chip!Next
<1>11. CASE \E b \in Bank : set_bank_num(b)
  <2>1. PICK b \in Bank : set_bank_num(b)
    BY <1>11
  <2>2. out'[1] = "set_bank_num" /\ results' = results /\ block' = block
    BY <2>1 DEF set_bank_num
  <2> QED
    BY <1>0, <2>1, <2>2, set_bank_numStep, Kept DEF Chip!Next, Chip!Bank, Bank
<1>12. CASE \E b \in Block : set_block_num(b)
  <2>1. PICK b \in Block : set_block_num(b)
    BY <1>12
  <2>2. out'[1] = "set_block_num" /\ results' = results
    BY <2>1 DEF set_block_num
  <2> QED
    BY <1>0, <2>1, <2>2, set_block_numStep, Kept DEF Chip!Next, Chip!Block, Block
<1>13. CASE \E clock \in {84, 21} : program_block(clock)
  <2>1. PICK clock \in {84, 21} : program_block(clock)
    BY <1>13
  <2>2. out'[1] = "program_block" /\ results' = FALSE /\ block' = block
    BY <2>1 DEF program_block, Done
  <2> QED
    BY <1>0, <2>1, <2>2, program_blockStep, Kept DEF Chip!Next
<1>14. CASE \E clock \in {84, 21} : secure(clock)
  <2>1. PICK clock \in {84, 21} : secure(clock)
    BY <1>14
  <2>2. out'[1] = "secure" /\ results' = FALSE /\ block' = block
    BY <2>1 DEF secure, Done
  <2> QED
    BY <1>0, <2>1, <2>2, secureStep, Kept DEF Chip!Next
<1>15. CASE \E raise_cpuclk \in BOOLEAN : id(raise_cpuclk)
  <2>1. PICK raise_cpuclk \in BOOLEAN : id(raise_cpuclk)
    BY <1>15
  <2>2. out'[1] = "id" /\ results' = TRUE /\ block' = block
    BY <2>1 DEF id
  <2> QED
    BY <1>0, <2>1, <2>2, idStep, Kept DEF Chip!Next
<1>16. CASE \E d \in Written : write_block(d)
  <2>1. PICK d \in Written : write_block(d)
    BY <1>16
  <2>2. out'[1] = "write_block" /\ results' = results /\ block' = block
    BY <2>1 DEF write_block
  <2> QED
    BY <1>0, <2>1, <2>2, write_blockStep, Kept DEF Chip!Next
<1> QED
  BY <1>1, <1>2, <1>3, <1>4, <1>5, <1>6, <1>7, <1>8, <1>9, <1>10, <1>11, <1>12,
     <1>13, <1>14, <1>15, <1>16 DEF Next

\* The chip as it comes: nothing set up, the Flash with what it has been given.
LEMMA Starts ==
  ASSUME PrimAssumption, Init
  PROVE  PrimInv /\ Chip!Init
<1>1. PICK g \in [Bank -> [Block -> Blanks]], s \in [Bank -> Blanks] :
        chip = [ram |-> [a \in RAM |-> 0], reg |-> [r \in Regs |-> 0], f |-> 0,
                flash |-> g, secure |-> s]
  BY DEF Init
<1>2. Blanks \subseteq Contents
  BY DEF PrimAssumption, Contents
<1>3. g \in [Bank -> [Block -> Contents]] /\ s \in [Bank -> Contents]
  BY <1>2
<1>4. IsChip(chip)
  BY <1>1, <1>3 DEF IsChip
<1>5. Buffer(chip) = Zeros
  <2>1. \A i \in 0..BLOCK_SIZE - 1 : 128 + i \in RAM
    BY DEF PrimAssumption, RAM
  <2> QED
    BY <1>1, <2>1 DEF Buffer, Zeros
<1>6. Zeros \in Contents
  BY DEF PrimAssumption, Zeros, Contents
<1>7. BankAt(chip) = 0 /\ chip.ram[RETURN_CODE] = 0 /\ 0 \in Bank /\ 0 \in Block
  <2>1. <<1, FLS_PR1>> \in Regs /\ RETURN_CODE \in RAM
    BY DEF Regs, Addr, RAM, Results, FLS_PR1, RETURN_CODE, KEY1
  <2> QED
    BY <1>1, <2>1 DEF PrimAssumption, Bank, Block, BankAt
<1>8. PrimInv
  BY <1>4, <1>5, <1>6, <1>7 DEF PrimInv, Sound, Init, Called, None, Trimmed, BankAt
<1>9. Chip!Init
  BY <1>1, <1>3, <1>5, <1>7 DEF Init, Chip!Init, Chip!Zeros, Zeros, Chip!Bank, Bank,
     Chip!Block, Block, Chip!BlockData, Contents, BankAt, None, Chip!None
<1> QED
  BY <1>8, <1>9

\* The chip stands still when nothing is called.
LEMMA Stands ==
  ASSUME PrimInv, UNCHANGED vars
  PROVE  PrimInv' /\ UNCHANGED Chip!vars
BY DEF vars, PrimInv, Sound, IsChip, Called, Trimmed, Buffer, Chip!vars, Chip!store,
   Chip!selected

\* The inductive invariant: what the primitives leave in the RAM and in the
\* registers that they share (prog_prim.c).
THEOREM Invariance ==
  ASSUME PrimAssumption
  PROVE  Spec => []PrimInv
<1>1. Init => PrimInv
  BY Starts
<1>2. PrimInv /\ [Next]_vars => PrimInv'
  BY Steps, Stands
<1> QED
  BY <1>1, <1>2, PTL DEF Spec

\* The primitives, in whatever legal order, act as a chip with banks, blocks, a
\* buffer and protection bits; no system call lacks what it needs, and the trim
\* registers get the values that belong to the voltage.
THEOREM Implements ==
  ASSUME PrimAssumption
  PROVE  Spec => ActsAsFlash
<1>1. Init => Chip!Init
  BY Starts
<1>2. PrimInv /\ [Next]_vars => [Chip!Next]_(Chip!vars)
  BY Steps, Stands
<1>3. PrimInv => SscReady /\ Trimmed
  BY DEF PrimInv, SscReady
<1> QED
  BY <1>1, <1>2, <1>3, Invariance, PTL DEF Spec, Chip!Spec, ActsAsFlash
=============================================================================
