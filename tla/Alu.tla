--------------------------------- MODULE Alu --------------------------------
(***************************************************************************)
(* The arithmetic of the simulated CPU (the macros of sim/core.c): each    *)
(* operation gives the value it leaves in its first operand and the carry  *)
(* flag; the zero flag follows from the value.                             *)
(*                                                                         *)
(* ADD, ADC, SUB and SBB calculate in t16, a word of two bytes: the low    *)
(* byte is the result, and anything in the high byte is a carry.           *)
(***************************************************************************)
EXTENDS Integers

CONSTANT Base     \* numbers a byte can have: 256

ASSUME AluAssumption == Base \in Nat /\ Base > 1

Word == 0..Base - 1
Carry == 0..1

\* What is kept of a sum or a difference: t, and cf_zf_t().
t16(n) == n % (Base * Base)
ARITH(n) ==
  [v |-> t16(n) % Base,
   cf |-> IF t16(n) \div Base = 0 THEN 0 ELSE 1]

ADC(u, v, cf) == ARITH(u + (v + cf))

\* Mistake: the carry is taken from the difference, not from the operand.
SBB_misplaced(u, v, cf) == ARITH(u - v + cf)
SBB(u, v, cf) == ARITH(u - (v + cf))

ADD(u, v) == ADC(u, v, 0)
SUB(u, v) == SBB(u, v, 0)

CMP(u, v) == [v |-> u, cf |-> IF u < v THEN 1 ELSE 0, zf |-> u = v]

INC(u) == LET n == (u + 1) % Base IN [v |-> n, cf |-> IF n = 0 THEN 1 ELSE 0]
DEC(u) == [v |-> (u - 1) % Base, cf |-> IF u = 0 THEN 1 ELSE 0]

Half == Base \div 2
TopBit(u) == u \div Half         \* the highest bit

ASL(u) == [v |-> (2 * u) % Base, cf |-> TopBit(u)]
ASR(u) == [v |-> (u \div 2) + Half * TopBit(u), cf |-> u % 2]
RLC(u, cf) == [v |-> ((2 * u) + cf) % Base, cf |-> TopBit(u)]
RRC(u, cf) == [v |-> (u \div 2) + Half * cf, cf |-> u % 2]
CPL(u) == Base - 1 - u
=============================================================================
