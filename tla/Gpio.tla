-------------------------------- MODULE Gpio --------------------------------
(***************************************************************************)
(* The GPIO ports of the simulator, sim/gpio.c, and the one interrupt they *)
(* share, in the controller of IntCtl.  A port is a record of its 8 bit    *)
(* registers and of the external drive the script applies, each a set of   *)
(* pins.  The program and the script write the registers, the script       *)
(* drives pins and connects them to the chip behind the ICE.               *)
(***************************************************************************)
EXTENDS IntCtl

CONSTANTS
  Ports,     \* port numbers, a subset of 0 .. 7
  Pins,      \* pin numbers, a subset of 0 .. 7
  IcePorts   \* the ports whose pins are connected and disconnected

VARIABLE gpios

vars == <<intVars, gpios>>

GPIO == 5            \* ctz(INT_MSK0_GPIO)
Reserved == {0, 1}   \* P1[0] and P1[1] carry the ICE's own traffic

ASSUME GpioAssumption ==
  /\ Ports \subseteq 0 .. 7
  /\ Pins \subseteq 0 .. 7
  /\ IcePorts \subseteq Ports
  /\ GPIO \in Ints

RegNames == {"dr", "dm0", "dm1", "dm2", "ie", "ic0", "ic1"}

-----------------------------------------------------------------------------
(* Input and interrupt condition *)

Same(A, B) == {b \in Pins : b \in A <=> b \in B}

\* The pins whose value comes from outside.
is_input(gpio) ==
  (gpio.dm1 \ gpio.dm0)
    \cup (((Pins \ (gpio.drive_r \cup gpio.drive_z)) \cup gpio.dm2 \cup gpio.ice)
            \cap Same(gpio.dm0, gpio.dr) \cap Same(gpio.dm1, gpio.dr))

Value(gpio) ==
  (gpio.dr \ is_input(gpio)) \cup (gpio.drive \cap is_input(gpio))

\* Interrupt modes, IC1 IC0: 00 never, 01 low, 10 high, 11 not as last read.
Triggers(gpio) ==
  {b \in Pins : \/ b \in gpio.ic0 \ gpio.ic1 /\ b \notin Value(gpio)
                \/ b \in gpio.ic1 \ gpio.ic0 /\ b \in Value(gpio)
                \/ b \in gpio.ic0 \cap gpio.ic1
                     /\ ~(b \in Value(gpio) <=> b \in gpio.latch)}

Asserts(gpio) == (gpio.ie \ gpio.ice) \cap Triggers(gpio) # {}

\* Mistake: the line stays up.
NeverLowered(p, gpio) ==
  /\ gpios' = [gpios EXCEPT ![p] = [gpio EXCEPT !.int_set = Asserts(gpio)]]
  /\ IF Asserts(gpio) THEN int_set(GPIO) ELSE UNCHANGED intVars

\* Called with the port as the caller leaves it.  The loop that should keep
\* the line up for the other ports looks, eight times, at the flag of this
\* port, which it has just cleared.
gpio_maybe_interrupt(p, gpio) ==
  /\ gpios' = [gpios EXCEPT ![p] = [gpio EXCEPT !.int_set = Asserts(gpio)]]
  /\ IF Asserts(gpio) THEN int_set(GPIO) ELSE int_clear(GPIO)

-----------------------------------------------------------------------------
(* Registers *)

SetReg(gpio, reg, value) == [gpio EXCEPT ![reg] = value]

\* Mistake: the register changes and nobody looks at the pins.
WriteUnnoticed(p, reg, value) ==
  /\ reg \in {"dr", "dm0", "dm1", "ie"}
  /\ gpios' = [gpios EXCEPT ![p] = SetReg(gpios[p], reg, value)]
  /\ UNCHANGED intVars

\* gpio_write_dr, _dm0, _dm1, _ie.
gpio_write(p, reg, value) ==
  /\ reg \in {"dr", "dm0", "dm1", "ie"}
  /\ gpio_maybe_interrupt(p, SetReg(gpios[p], reg, value))

\* gpio_write_ic0, _ic1: what kind of level or change is meant.
gpio_write_ic(p, reg, value) ==
  /\ reg \in {"ic0", "ic1"}
  /\ gpio_maybe_interrupt(p, SetReg(gpios[p], reg, value))

\* gpio_write_dm2 does not look for interrupts.
gpio_write_dm2(p, value) ==
  /\ gpios' = [gpios EXCEPT ![p].dm2 = value]
  /\ UNCHANGED intVars

\* Reading PRTxDR latches what was read.  If an input pin is connected, the
\* connected pins are as the chip says (chip).
gpio_read_dr(p, chip) ==
  LET gpio == gpios[p]
      dr   == IF is_input(gpio) \cap gpio.ice = {}
              THEN Value(gpio)
              ELSE (Value(gpio) \ gpio.ice) \cup (chip \cap gpio.ice)
  IN  /\ gpios' = [gpios EXCEPT ![p].latch = dr]
      /\ UNCHANGED intVars

-----------------------------------------------------------------------------
(* External drive *)

gpio_drive(p, mask, value) ==
  gpio_maybe_interrupt(p, [gpios[p] EXCEPT !.drive = (@ \ mask) \cup value,
                                           !.drive_r = @ \ mask,
                                           !.drive_z = @ \ mask])

gpio_drive_r(p, mask, value) ==
  gpio_maybe_interrupt(p, [gpios[p] EXCEPT !.drive = (@ \ mask) \cup value,
                                           !.drive_r = @ \cup mask,
                                           !.drive_z = @ \ mask])

gpio_drive_z(p, mask) ==
  gpio_maybe_interrupt(p, [gpios[p] EXCEPT !.drive_z = @ \cup mask])

-----------------------------------------------------------------------------
(* Connection to the ICE *)

\* Nothing happens if all the pins are connected already, or to the pins the
\* ICE itself needs.  The writes that follow go to the chip only.
gpio_ice_connect(p, set) ==
  /\ ~(set \subseteq gpios[p].ice)
  /\ p = 1 => set \cap Reserved = {}
  /\ gpios' = [gpios EXCEPT ![p].ice = @ \cup set]
  /\ int_set_ice(GPIO, TRUE)

\* The loop for pins that are still connected starts at this port instead of
\* port 0, so it misses the ports below, and from port 1 on runs past the end
\* of gpios[], where it may find anything (beyond).
gpio_ice_disconnect(p, set, beyond) ==
  LET left == [gpios EXCEPT ![p].ice = @ \ set]
  IN  /\ gpios' = left
      /\ IF beyond \/ \E q \in Ports : q >= p /\ left[q].ice # {}
         THEN UNCHANGED intVars
         ELSE int_set_ice(GPIO, FALSE)

-----------------------------------------------------------------------------
(* The specification *)

Reset == [dr |-> {}, dm0 |-> {}, dm1 |-> Pins, dm2 |-> Pins,
          ie |-> {}, ic0 |-> {}, ic1 |-> {}, ice |-> {}, latch |-> {},
          drive |-> {}, drive_z |-> Pins, drive_r |-> {}, int_set |-> FALSE]

gpio_init == gpios = [p \in Ports |-> Reset]

Registers(p) ==
  \/ \E reg \in RegNames, value \in SUBSET Pins :
       gpio_write(p, reg, value) \/ gpio_write_ic(p, reg, value)
  \/ \E value \in SUBSET Pins : gpio_write_dm2(p, value)
  \/ \E chip \in SUBSET Pins : gpio_read_dr(p, chip)

Drive(p) ==
  \E mask \in (SUBSET Pins) \ {{}} :
    \/ \E value \in SUBSET mask : gpio_drive(p, mask, value)
    \/ \E value \in SUBSET mask : gpio_drive_r(p, mask, value)
    \/ gpio_drive_z(p, mask)

Connection(p) ==
  /\ p \in IcePorts
  /\ \E set \in (SUBSET Pins) \ {{}} :
       \/ gpio_ice_connect(p, set)
       \/ \E beyond \in (IF p = 0 THEN {FALSE} ELSE BOOLEAN) :
            gpio_ice_disconnect(p, set, beyond)

\* The program's side of the controller: it enables the interrupt, or posting,
\* it acknowledges, and it takes the interrupt.
Controller ==
  /\ \/ \E value \in SUBSET {GPIO} : int_write_msk(0, value)
     \/ \E value \in SUBSET {ENSWINT} : int_write_msk(3, value)
     \/ int_write_clr(0, {GPIO})
     \/ PolledVector # 0 /\ Acknowledge(PolledVector)
  /\ UNCHANGED gpios

Target ==
  /\ IcePorts # {}
  /\ \E vc \in IceVectors : TargetChanges(vc)
  /\ UNCHANGED gpios

Init == int_init /\ gpio_init

Next ==
  \/ \E p \in Ports : Registers(p) \/ Drive(p) \/ Connection(p)
  \/ Controller
  \/ Target

Spec == Init /\ [][Next]_vars

-----------------------------------------------------------------------------
(* Properties *)

\* An interrupt condition that comes to hold is found by the operation that makes
\* it hold, whatever was written, driven, read or connected before (the calls of
\* gpio_maybe_interrupt in sim/gpio.c).  Two operations do not look: a write to
\* PRTxDM2 and the disconnection of a pin from the ICE.
ConditionNoticed ==
  [][\A p \in Ports :
       /\ Asserts(gpios'[p]) /\ ~Asserts(gpios[p])
       /\ gpios'[p].dm2 = gpios[p].dm2
       /\ gpios[p].ice \subseteq gpios'[p].ice
       => gpios'[p].int_set]_vars

\* The line is up as long as some port's flag says "GPIO interrupt is asserted
\* because of this port" (sim/gpio.c:39).
LineHeld == (\E p \in Ports : gpios[p].int_set) => GPIO \in int_line

\* What remains of it with two ports: the line is never up while no port's flag
\* is, nor down while the flags of all ports are (sim/gpio.c:60-85).
LineAgrees == \E p \in Ports : GPIO \in int_line <=> gpios[p].int_set

\* Without posting by software, the GPIO interrupt becomes pending only in a
\* step that makes the interrupt condition of a port true: a condition that
\* persists interrupts once, however many ports take turns at the line
\* (sim/int.c, int_set).  Excused is the second interrupt of a port whose line
\* another port has taken down.
OneEdgeOneInterrupt ==
  [][/\ ENSWINT \notin int_msk
     /\ GPIO \in int_pending' \ int_pending
     /\ LineHeld
     => \E p \in Ports : ~gpios[p].int_set /\ Asserts(gpios'[p])]_vars
=============================================================================
