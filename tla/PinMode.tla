------------------------------ MODULE PinMode -------------------------------
(***************************************************************************)
(* The script commands "set <pins> = 0 | 1 | 0 r | 1 r | z | analog" of    *)
(* the simulator: gpio_set, gpio_set_r, gpio_set_z and gpio_set_analog in  *)
(* sim/gpio.c.  Each is a sequence of register writes, made one by one by  *)
(* gpio_may_change, and with the ICE every one of them reaches the chip:   *)
(* what the pin drives in between is as visible as the result.             *)
(***************************************************************************)
EXTENDS Integers, Sequences

CONSTANTS
  Pins,        \* the pins of the port
  Masks,       \* pin sets that are set to strong, Z and analog
  MasksR       \* pin sets that are set to a resistive level

PinAssumption ==
  /\ Masks \subseteq SUBSET Pins
  /\ MasksR \subseteq SUBSET Pins

VARIABLES
  reg,      \* the registers dr, dm0, dm1, dm2 of the port
  cmd,      \* the command in progress, or Idle
  step,     \* how many of its writes were made
  before,   \* the registers when it began
  aborted   \* an assertion has failed

vars == <<reg, cmd, step, before, aborted>>

Regs == {"dr", "dm0", "dm1", "dm2"}

Idle == [op |-> "idle", mask |-> {}, value |-> {}]

Commands ==
  {[op |-> "set", mask |-> m, value |-> v] : m \in Masks, v \in SUBSET Pins}
  \cup {[op |-> "set_r", mask |-> m, value |-> v] : m \in MasksR, v \in SUBSET Pins}
  \cup {[op |-> o, mask |-> m, value |-> {}] : o \in {"set_z", "set_analog"}, m \in Masks}

-----------------------------------------------------------------------------
(* The writes of each command: register and the new value of the masked    *)
(* pins, from the registers r at the time of the write and s at the start  *)

\* Mistake: the drive mode is changed before the level.
ModeFirst(c) == << <<"dm0", c.mask>>, <<"dr", c.value>>, <<"dm1", {}>> >>

gpio_set(c) == << <<"dr", c.value>>, <<"dm0", c.mask>>, <<"dm1", {}>> >>

gpio_set_r(c, r, s) ==
  LET all(old) == (old \ c.mask) \cup c.value
  IN  << <<"dm0", (r.dm0 \ r.dr) \cup (all(s.dm0) \cap r.dr)>>,
         <<"dm1", (r.dm1 \cap r.dr) \cup (all(s.dm1) \ r.dr)>>,
         <<"dm2", s.dm2 \ c.mask>>,
         <<"dr",  all(s.dr)>>,
         <<"dm0", all(s.dm0)>>,
         <<"dm1", all(s.dm1)>> >>

\* Mistake: one of the mode registers is forgotten.
ModeForgotten(c) == << <<"dm0", {}>>, <<"dm2", {}>> >>

gpio_set_z(c) == << <<"dm0", {}>>, <<"dm1", c.mask>>, <<"dm2", {}>> >>

gpio_set_analog(c) ==
  << <<"dm0", {}>>, <<"dm1", c.mask>>, <<"dm2", c.mask>> >>

Writes(c, r, s) == IF c.op = "set" THEN gpio_set(c)
                   ELSE IF c.op = "set_r" THEN gpio_set_r(c, r, s)
                   ELSE IF c.op = "set_z" THEN gpio_set_z(c)
                   ELSE IF c.op = "set_analog" THEN gpio_set_analog(c)
                   ELSE << >>

-----------------------------------------------------------------------------
(* Actions *)

Init ==
  /\ reg = [dr |-> {}, dm0 |-> {}, dm1 |-> Pins, dm2 |-> Pins]
  /\ cmd = Idle
  /\ step = 0
  /\ before = reg
  /\ aborted = FALSE

\* Between commands the script or the program writes a register.
RegWrite(name, value) ==
  /\ cmd = Idle /\ ~aborted
  /\ reg' = [reg EXCEPT ![name] = value]
  /\ before' = reg'
  /\ UNCHANGED <<cmd, step, aborted>>

\* The script's value covers only pins of the mask (sim/lang.y:292, 294).
Begin(c) ==
  /\ cmd = Idle /\ ~aborted
  /\ c.value \subseteq c.mask
  /\ cmd' = c
  /\ step' = 0
  /\ before' = reg
  /\ UNCHANGED <<reg, aborted>>

\* The assertion comes after the new value is computed and before it is used.
gpio_may_change ==
  LET writes == Writes(cmd, reg, before)
      name   == writes[step + 1][1]
      value  == writes[step + 1][2]
  IN  /\ cmd # Idle /\ ~aborted
      /\ step < Len(writes)
      /\ step' = step + 1
      /\ IF value \subseteq cmd.mask
         THEN /\ reg' = [reg EXCEPT ![name] = (@ \ cmd.mask) \cup value]
              /\ UNCHANGED aborted
         ELSE /\ aborted' = TRUE
              /\ UNCHANGED reg
      /\ UNCHANGED <<cmd, before>>

Finish ==
  /\ cmd # Idle /\ ~aborted
  /\ step = Len(Writes(cmd, reg, before))
  /\ cmd' = Idle
  /\ step' = 0
  /\ before' = reg
  /\ UNCHANGED <<reg, aborted>>

Next ==
  \/ \E name \in Regs, value \in SUBSET Pins : RegWrite(name, value)
  \/ \E c \in Commands : Begin(c)
  \/ gpio_may_change
  \/ Finish

Spec == Init /\ [][Next]_vars

-----------------------------------------------------------------------------
(* What a pin drives *)

Bit(b, S) == IF b \in S THEN 1 ELSE 0

\* The table gpio_state, split into level and strength, which is 2 for a strong
\* drive, slow or not, 1 for a resistive one and 0 for none.
Level == <<"0", "0", "Z", "0", "Z", "0", "Z", "0",
           "1", "1", "Z", "1", "1", "1", "Z", "Z">>
Strength == <<1, 2, 0, 2, 0, 2, 0, 2, 2, 2, 0, 1, 2, 2, 0, 0>>

gpio_state(r, b) ==
  LET entry == 1 + 8 * Bit(b, r.dr) + 4 * Bit(b, r.dm2)
                 + 2 * Bit(b, r.dm1) + Bit(b, r.dm0)
  IN  [level |-> Level[entry], strength |-> Strength[entry]]

\* What the pin drives when the command is done.
Wanted(c, b) ==
  LET level == IF b \in c.value THEN "1" ELSE "0"
  IN  IF c.op = "set" THEN [level |-> level, strength |-> 2]
      ELSE IF c.op = "set_r" THEN [level |-> level, strength |-> 1]
      ELSE [level |-> "Z", strength |-> 0]

AtMost(x, a, b) == x <= a \/ x <= b

-----------------------------------------------------------------------------
(* Properties *)

\* "assert(!(value & ~mask))", sim/gpio.c:422.
MaskRespected == ~aborted

\* When the last write is made, the pins of the mask drive what the command
\* says and the others drive what they did before it (sim/gpio.c:431-490).
SetTakesEffect ==
  cmd # Idle /\ ~aborted /\ step = Len(Writes(cmd, reg, before)) =>
    \A b \in Pins :
      gpio_state(reg, b) = IF b \in cmd.mask THEN Wanted(cmd, b)
                                             ELSE gpio_state(before, b)

\* On the way a pin never drives a level that is neither the one it had nor
\* the one it gets, and never harder than at one of the two ends; on the way
\* from one level to the other it may be off ("without creating undesirable
\* conditions", sim/gpio.c:310-318, and the comment on gpio_set_r).
NoGlitch ==
  cmd # Idle =>
    \A b \in cmd.mask :
      LET start == gpio_state(before, b)
          now   == gpio_state(reg, b)
          end   == Wanted(cmd, b)
      IN  /\ now.level \in {start.level, end.level}
               \cup (IF start.level = end.level THEN {} ELSE {"Z"})
          /\ AtMost(now.strength, start.strength, end.strength)
=============================================================================
