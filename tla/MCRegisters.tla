---------------------------- MODULE MCRegisters -----------------------------
(***************************************************************************)
(* Instances of the two modules about the registers of a chip that are     *)
(* read and written from outside: Ice, for a client that keeps shadows of  *)
(* some of them, and Issp, for the wire they are reached by.  Both promise *)
(* RegFile.  A run has one of them take steps, and the other stays in a    *)
(* first state.                                                            *)
(***************************************************************************)
EXTENDS Ice, Issp

CONSTANT Parts
VARIABLE part

\* Two values for a register, the opcodes ice.c knows, and in bank 1 a port's
\* register and FLS_PR1, which has the address of CODE2.
MCData == {0, 1}
MCOps == {OP_SSC, OP_HALT, OP_NOP}
MCPCs == {0, 3}
MCFlags == {"XIO"}
MCBank1 == {"P", "CODE2"}

\* On the wire a byte of memory, a register and CPU_SCR0, and two values with
\* ones and zeros at both ends.
MCCells == {<<0, 133>>, <<1, 122>>, <<1, CPU_SCR0>>}
MCVals == {0, 166, 121, MAGIC_EXEC}
MCVectors ==
  {ZERO_VECTOR, EXEC_VECTOR_SSC,
   <<PROG_OP_READ_MEM, 133, 0>>, <<PROG_OP_READ_REG, 122, 0>>} \cup
  {<<PROG_OP_WRITE_MEM, 133, v>> : v \in {166, 121}} \cup
  {<<PROG_OP_WRITE_REG, 122, v>> : v \in {166, 121}}
-----------------------------------------------------------------------------
FirstWire == WireInit /\ kind = "watpp" /\ power_on

FirstIce == Init /\ \A r \in Regs \ CodeRegs : chip.reg[r] = 0

MCInit ==
  \/ part = "ice" /\ part \in Parts /\ Init /\ FirstWire
  \/ part = "wire" /\ part \in Parts /\ WireInit /\ FirstIce

IceSteps == part = "ice" /\ Next /\ UNCHANGED <<part, wireVars>>
WireSteps == part = "wire" /\ WireNext /\ UNCHANGED <<part, vars>>
MCSpec == MCInit /\ [][IceSteps \/ WireSteps]_<<part, vars, wireVars>>
=============================================================================
