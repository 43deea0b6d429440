------------------------------- MODULE RegFile -------------------------------
(***************************************************************************)
(* What the in-circuit emulator promises to the simulator: registers of a  *)
(* chip that keep what is written to them, whichever bank they are in, and *)
(* a way to let the chip run the code that stands in some of them.         *)
(* Ice implements it.                                                      *)
(***************************************************************************)
CONSTANTS
  Regs,        \* the registers
  Keep,        \* those of them that running code leaves alone, a subset
  Start,       \* those that it depends on, a subset
  Val          \* what they hold

VARIABLES
  mem,         \* the contents of the registers
  out          \* the registers the last call made use of, with the contents

Init ==
  /\ mem \in [Regs -> Val]
  /\ out = {}

Read(r) ==
  /\ out' = {<<r, mem[r]>>}
  /\ UNCHANGED mem

Write(r, v) ==
  /\ out' = {}
  /\ mem' = [mem EXCEPT ![r] = v]

\* The code starts from what the registers hold, and may change the others.
Execute ==
  /\ out' = {<<r, mem[r]>> : r \in Start}
  /\ mem' \in [Regs -> Val]
  /\ \A r \in Keep : mem'[r] = mem[r]

\* A call about something else.
Other == out' = {} /\ UNCHANGED mem

Next ==
  \/ \E r \in Regs : Read(r)
  \/ \E r \in Regs, v \in Val : Write(r, v)
  \/ Execute
  \/ Other

Spec == Init /\ [][Next]_<<mem, out>>
=============================================================================
