------------------------------- MODULE IntCtl -------------------------------
(***************************************************************************)
(* The interrupt controller of the simulator, sim/int.c: the pending,      *)
(* mask and line-status words, the vector register INT_VC they produce,    *)
(* and the registers INT_CLRn, INT_MSKn and INT_VC through which the       *)
(* program and the script reach them.  Each 32 bit word is the set of the  *)
(* bits that are 1.                                                        *)
(*                                                                         *)
(* With the in-circuit emulator (ICE) a second controller, the one of the  *)
(* real chip, takes part.  All the simulator sees of it is the value of    *)
(* its INT_VC, which changes when the chip wants: ice_vc, below, belongs   *)
(* to the environment.                                                     *)
(***************************************************************************)
EXTENDS Integers, FiniteSets

CONSTANTS
  Ints,     \* the numbers of the interrupts in use
  Sources,  \* the ones a simulated block raises, the rest is posted by software
  IceInts   \* the ones whose source may be connected to the ICE

ASSUME IntsAssumption ==
  /\ Ints \subseteq 0 .. 24        \* the entries int2prio has
  /\ Sources \subseteq Ints
  /\ IceInts \subseteq Ints

VARIABLES
  int_pending,  \* interrupts waiting to be taken
  int_msk,      \* interrupts enabled, and the ENSWINT bit
  int_line,     \* level of the sources, for edge detection
  int_ice,      \* interrupts handled by the ICE
  int_vc,       \* the vector of the interrupt to take next, 0 if none
  ice_vc        \* what reading INT_VC on the chip behind the ICE yields

intVars == <<int_pending, int_msk, int_line, int_ice, int_vc, ice_vc>>

-----------------------------------------------------------------------------
(* Tables and selection *)

\* INT_MSK3_ENSWINT << 24: writing 1 to INT_CLRn posts instead of clearing.
ENSWINT == 31

MskBits == Ints \cup {ENSWINT}

\* The bits of a 32 bit word held by the n-th 8 bit register.
RegBits(n) == {b \in MskBits : b \div 8 = n}

\* Place of an interrupt in the vector table; 1 comes first.
int2prio == [b \in 0 .. 24 |-> CASE b <= 4 -> b + 1
                                 [] b = 5  -> 7
                                 [] b = 6  -> 25
                                 [] b = 7  -> 6
                                 [] OTHER  -> b]

prio2int == [p \in 1 .. 25 |-> CASE p <= 5 -> p - 1
                                 [] p = 6  -> 7
                                 [] p = 7  -> 5
                                 [] p = 25 -> 6
                                 [] OTHER  -> p]

\* Mistake: the highest bit is looked for.
HighestInstead(S) == CHOOSE b \in S : \A c \in S : c <= b

\* The lowest bit of a word (ctz).
Lowest(S) == CHOOSE b \in S : \A c \in S : b <= c

\* The vector of the simulator's own interrupts.
LocalVector(enabled) ==
  IF enabled = {} THEN 0 ELSE 4 * int2prio[Lowest(enabled)]

\* The vector of the simulator's interrupts and of the chip's, which answers
\* only if some interrupt is connected.
Vector(enabled, ice) ==
  LET local == LocalVector(enabled)
      tmp   == IF ice = {} THEN 0 ELSE ice_vc
  IN  IF tmp # 0 /\ (local = 0 \/ tmp < local) THEN tmp ELSE local

\* Every operation that ends in this call looks at the words it leaves.
int_select == int_vc' = Vector(int_pending' \cap int_msk', int_ice')

-----------------------------------------------------------------------------
(* The operations *)

int_init ==
  /\ int_pending = {}
  /\ int_msk = {}
  /\ int_line = {}
  /\ int_ice = {}
  /\ int_vc = 0
  /\ ice_vc = 0

\* Mistake: the level makes the interrupt pending, not its edge.
LevelTriggered(number) ==
  /\ int_line' = int_line \cup {number}
  /\ UNCHANGED <<int_msk, int_ice, ice_vc>>
  /\ int_pending' = int_pending \cup {number}
  /\ int_select

\* A source raises its line: only the edge makes the interrupt pending.
int_set(number) ==
  /\ int_line' = int_line \cup {number}
  /\ UNCHANGED <<int_msk, int_ice, ice_vc>>
  /\ IF number \in int_line
     THEN UNCHANGED <<int_pending, int_vc>>
     ELSE /\ int_pending' = int_pending \cup {number}
          /\ int_select

\* A source lowers its line; what is pending stays pending.
int_clear(number) ==
  /\ int_line' = int_line \ {number}
  /\ UNCHANGED <<int_pending, int_msk, int_ice, int_vc, ice_vc>>

int_write_clr(n, value) ==
  /\ int_pending' = IF ENSWINT \in int_msk
                    THEN int_pending \cup (value \ int_line)
                    ELSE int_pending \ value
  /\ UNCHANGED <<int_msk, int_line, int_ice, ice_vc>>
  /\ int_select

\* Mistake: the mask changes and nothing is selected.
WriteMskUnselected(n, value) ==
  /\ int_msk' = (int_msk \ RegBits(n)) \cup value
  /\ UNCHANGED <<int_pending, int_line, int_ice, int_vc, ice_vc>>

int_write_msk(n, value) ==
  /\ int_msk' = (int_msk \ RegBits(n)) \cup value
  /\ UNCHANGED <<int_pending, int_line, int_ice, ice_vc>>
  /\ int_select

int_write_vc ==
  /\ int_vc' = 0
  /\ int_pending' = {}
  /\ UNCHANGED <<int_msk, int_line, int_ice, ice_vc>>

\* A pin is connected to the ICE, or the last one is disconnected.
int_set_ice(number, connected) ==
  /\ int_ice' = IF connected THEN int_ice \cup {number} ELSE int_ice \ {number}
  /\ UNCHANGED <<int_pending, int_msk, int_line, int_vc, ice_vc>>

\* Mistake: the chip is not asked.
PolledWithoutChip == int_vc

\* What int_poll leaves in INT_VC before the CPU looks at it.
PolledVector ==
  IF int_ice = {} THEN int_vc ELSE Vector(int_pending \cap int_msk, int_ice)

\* int_poll with nothing taken after it.
int_poll ==
  /\ int_vc' = PolledVector
  /\ UNCHANGED <<int_pending, int_msk, int_line, int_ice, ice_vc>>

\* Mistake: the next interrupt is not selected.
AcknowledgeUnselected(vc) ==
  /\ int_pending' = int_pending \ {prio2int[vc \div 4]}
  /\ UNCHANGED <<int_msk, int_line, int_ice, int_vc, ice_vc>>

\* Mistake: the interrupt stays pending.
AcknowledgeNothing(vc) ==
  /\ UNCHANGED <<int_pending, int_msk, int_line, int_ice, ice_vc>>
  /\ int_select

\* The controller's part of int_handle: the interrupt of the vector is no
\* longer pending, and the next one is selected.
Acknowledge(vc) ==
  /\ int_pending' = int_pending \ {prio2int[vc \div 4]}
  /\ UNCHANGED <<int_msk, int_line, int_ice, ice_vc>>
  /\ int_select

\* The chip behind the ICE asserts another interrupt, or none.
TargetChanges(vc) ==
  /\ ice_vc' = vc
  /\ UNCHANGED <<int_pending, int_msk, int_line, int_ice, int_vc>>

IceVectors == {0} \cup {4 * int2prio[i] : i \in IceInts}

-----------------------------------------------------------------------------
(* Type invariant *)

Vectors == {4 * p : p \in 1 .. 25}

\* Type of the controller's words, sim/int.c:23 and 40-43.
IntTypeOK ==
  /\ int_pending \subseteq Ints
  /\ int_msk \subseteq MskBits
  /\ int_line \subseteq Ints
  /\ int_ice \subseteq IceInts
  /\ int_vc \in {0} \cup Vectors
  /\ ice_vc \in {0} \cup Vectors
=============================================================================
