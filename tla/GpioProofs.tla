----------------------------- MODULE GpioProofs -----------------------------
(***************************************************************************)
(* Proofs about Gpio and PinMode, for every set of ports and pins: what a  *)
(* port does with the interrupt line, that no operation overlooks an       *)
(* interrupt condition that it makes true, and what the commands that set  *)
(* pins drive, on the way and at the end.                                  *)
(***************************************************************************)
EXTENDS MCPins, Sequences, TLAPS

-----------------------------------------------------------------------------
(* Ports: the types *)

GpioType ==
  [dr : SUBSET Pins, dm0 : SUBSET Pins, dm1 : SUBSET Pins, dm2 : SUBSET Pins,
   ie : SUBSET Pins, ic0 : SUBSET Pins, ic1 : SUBSET Pins, ice : SUBSET Pins,
   latch : SUBSET Pins, drive : SUBSET Pins, drive_z : SUBSET Pins,
   drive_r : SUBSET Pins, int_set : BOOLEAN]

PortsType == gpios \in [Ports -> GpioType]

\* The interrupt condition does not look at the flag.
LEMMA FlagUnseen ==
  ASSUME NEW gpio \in GpioType, NEW flag \in BOOLEAN
  PROVE  Asserts([gpio EXCEPT !.int_set = flag]) <=> Asserts(gpio)
<1> DEFINE new == [gpio EXCEPT !.int_set = flag]
<1>1. /\ new.dr = gpio.dr /\ new.dm0 = gpio.dm0 /\ new.dm1 = gpio.dm1
      /\ new.dm2 = gpio.dm2 /\ new.ie = gpio.ie /\ new.ic0 = gpio.ic0
      /\ new.ic1 = gpio.ic1 /\ new.ice = gpio.ice /\ new.latch = gpio.latch
      /\ new.drive = gpio.drive /\ new.drive_z = gpio.drive_z
      /\ new.drive_r = gpio.drive_r
  BY DEF GpioType
<1> HIDE DEF new
<1>2. is_input(new) = is_input(gpio)
  BY <1>1 DEF is_input
<1>3. Value(new) = Value(gpio)
  BY <1>1, <1>2 DEF Value
<1>4. Triggers(new) = Triggers(gpio)
  BY <1>1, <1>3 DEF Triggers
<1> QED
  BY <1>1, <1>4 DEF Asserts, new

\* The condition holds or does not.
LEMMA AssertsType == \A gpio : Asserts(gpio) \in BOOLEAN
BY DEF Asserts

\* What looking at the pins leaves behind.
LEMMA Looked ==
  ASSUME PortsType, NEW p \in Ports, NEW gpio \in GpioType,
         gpio_maybe_interrupt(p, gpio)
  PROVE  /\ PortsType'
         /\ gpios'[p].int_set <=> Asserts(gpio)
         /\ Asserts(gpios'[p]) <=> Asserts(gpio)
         /\ \A q \in Ports : q # p => gpios'[q] = gpios[q]
<1>1. gpios' = [gpios EXCEPT ![p] = [gpio EXCEPT !.int_set = Asserts(gpio)]]
  BY DEF gpio_maybe_interrupt
<1>2. [gpio EXCEPT !.int_set = Asserts(gpio)] \in GpioType
  BY AssertsType DEF GpioType
<1>3. gpios'[p] = [gpio EXCEPT !.int_set = Asserts(gpio)]
  BY <1>1 DEF PortsType
<1>4. gpios'[p].int_set = Asserts(gpio)
  BY <1>3 DEF GpioType
<1>5. PortsType'
  BY <1>1, <1>2 DEF PortsType
<1>6. \A q \in Ports : q # p => gpios'[q] = gpios[q]
  BY <1>1 DEF PortsType
<1> QED
  BY <1>3, <1>4, <1>5, <1>6, FlagUnseen, AssertsType

\* Writing a register keeps a port's types.
LEMMA SetRegType ==
  ASSUME NEW gpio \in GpioType, NEW name \in RegNames, NEW bits \in SUBSET Pins
  PROVE  SetReg(gpio, name, bits) \in GpioType
BY DEF SetReg, GpioType, RegNames

\* So does driving it from outside, in each of the three ways.
LEMMA DriveType ==
  ASSUME NEW gpio \in GpioType, NEW mask \in SUBSET Pins, NEW bits \in SUBSET mask
  PROVE  /\ [gpio EXCEPT !.drive = (@ \ mask) \cup bits, !.drive_r = @ \ mask,
                         !.drive_z = @ \ mask] \in GpioType
         /\ [gpio EXCEPT !.drive = (@ \ mask) \cup bits, !.drive_r = @ \cup mask,
                         !.drive_z = @ \ mask] \in GpioType
         /\ [gpio EXCEPT !.drive_z = @ \cup mask] \in GpioType
BY DEF GpioType

\* What a step can be, for the properties below: it looks at the pins of a port,
\* or it is one of those that do not.
Looks == \E p \in Ports, gpio \in GpioType : gpio_maybe_interrupt(p, gpio)

\* The steps of Gpio, by that.
LEMMA Steps ==
  ASSUME PortsType, Next
  PROVE  \/ Looks
         \/ \E p \in Ports, bits \in SUBSET Pins : gpio_write_dm2(p, bits)
         \/ \E p \in Ports, chip_bits \in SUBSET Pins : gpio_read_dr(p, chip_bits)
         \/ \E p \in Ports, set \in SUBSET Pins : gpio_ice_connect(p, set)
         \/ \E p \in Ports, set \in SUBSET Pins, beyond \in BOOLEAN :
              gpio_ice_disconnect(p, set, beyond)
         \/ Controller \/ Target
<1>1. ASSUME NEW p \in Ports, NEW name \in RegNames, NEW bits \in SUBSET Pins,
             gpio_write(p, name, bits) \/ gpio_write_ic(p, name, bits)
      PROVE  Looks
  <2>1. gpio_maybe_interrupt(p, SetReg(gpios[p], name, bits))
    BY <1>1 DEF gpio_write, gpio_write_ic
  <2>2. SetReg(gpios[p], name, bits) \in GpioType
    BY SetRegType DEF PortsType
  <2> QED
    BY <2>1, <2>2 DEF Looks
<1>2. ASSUME NEW p \in Ports, Drive(p)
      PROVE  Looks
  <2>1. gpios[p] \in GpioType
    BY DEF PortsType
  <2>2. PICK mask \in (SUBSET Pins) \ {{}} :
          \/ \E bits \in SUBSET mask : gpio_drive(p, mask, bits)
          \/ \E bits \in SUBSET mask : gpio_drive_r(p, mask, bits)
          \/ gpio_drive_z(p, mask)
    BY <1>2 DEF Drive
  <2>3. ASSUME NEW bits \in SUBSET mask, gpio_drive(p, mask, bits)
        PROVE  Looks
    BY <2>1, <2>3, DriveType DEF gpio_drive, Looks
  <2>4. ASSUME NEW bits \in SUBSET mask, gpio_drive_r(p, mask, bits)
        PROVE  Looks
    BY <2>1, <2>4, DriveType DEF gpio_drive_r, Looks
  <2>5. CASE gpio_drive_z(p, mask)
    <3>1. [gpios[p] EXCEPT !.drive_z = @ \cup mask] \in GpioType
      BY <2>1, DriveType
    <3> QED
      BY <2>5, <3>1 DEF gpio_drive_z, Looks
  <2> QED
    BY <2>2, <2>3, <2>4, <2>5
<1> QED
  BY <1>1, <1>2 DEF Next, Registers, Connection

-----------------------------------------------------------------------------
(* The line *)

\* The line may be up only for a port that says so.
LineCaused == GPIO \in int_line => \E p \in Ports : gpios[p].int_set

Inv == PortsType /\ LineCaused

\* After reset no port asserts anything.
LEMMA InitInv == Init => Inv
BY DEF Init, int_init, gpio_init, Reset, Inv, PortsType, LineCaused, GpioType

\* A port is left with its type and its flag, and the line as it was.
Keeps(p, gpio) ==
  /\ gpio \in GpioType /\ gpio.int_set = gpios[p].int_set
  /\ gpios' = [gpios EXCEPT ![p] = gpio]
  /\ int_line' = int_line

\* Then no port's flag changes.
LEMMA PortsKept ==
  ASSUME PortsType, NEW p \in Ports, NEW gpio, Keeps(p, gpio)
  PROVE  /\ PortsType' /\ int_line' = int_line
         /\ \A q \in Ports : gpios'[q].int_set = gpios[q].int_set
BY DEF PortsType, Keeps

\* A step that does not look at the pins leaves every port's flag and the line.
LEMMA OthersKeep ==
  ASSUME PortsType,
         \/ \E p \in Ports, bits \in SUBSET Pins :
              gpio_write_dm2(p, bits) \/ gpio_read_dr(p, bits)
                \/ gpio_ice_connect(p, bits)
         \/ \E p \in Ports, set \in SUBSET Pins, beyond \in BOOLEAN :
              gpio_ice_disconnect(p, set, beyond)
         \/ Controller \/ Target \/ UNCHANGED vars
  PROVE  /\ PortsType' /\ int_line' = int_line
         /\ \A q \in Ports : gpios'[q].int_set = gpios[q].int_set
<1>1. ASSUME NEW p \in Ports, NEW bits \in SUBSET Pins, gpio_write_dm2(p, bits)
      PROVE  \E gpio : Keeps(p, gpio)
  <2>1. Keeps(p, [gpios[p] EXCEPT !.dm2 = bits])
    BY <1>1 DEF gpio_write_dm2, intVars, Keeps, PortsType, GpioType
  <2> QED
    BY <2>1
<1>2. ASSUME NEW p \in Ports, NEW bits \in SUBSET Pins, gpio_read_dr(p, bits)
      PROVE  \E gpio : Keeps(p, gpio)
  <2>1. gpios[p] \in GpioType
    BY DEF PortsType
  <2>2. PICK dr \in SUBSET Pins : gpios' = [gpios EXCEPT ![p].latch = dr]
    BY <1>2, <2>1 DEF gpio_read_dr, Value, GpioType
  <2>3. Keeps(p, [gpios[p] EXCEPT !.latch = dr])
    BY <1>2, <2>1, <2>2 DEF gpio_read_dr, intVars, Keeps, GpioType
  <2> QED
    BY <2>3
<1>3. ASSUME NEW p \in Ports, NEW bits \in SUBSET Pins, gpio_ice_connect(p, bits)
      PROVE  \E gpio : Keeps(p, gpio)
  <2>1. gpios[p] \in GpioType
    BY DEF PortsType
  <2>2. Keeps(p, [gpios[p] EXCEPT !.ice = @ \cup bits])
    BY <1>3, <2>1 DEF gpio_ice_connect, int_set_ice, Keeps, GpioType
  <2> QED
    BY <2>2
<1>4. ASSUME NEW p \in Ports, NEW set \in SUBSET Pins, NEW beyond \in BOOLEAN,
             gpio_ice_disconnect(p, set, beyond)
      PROVE  \E gpio : Keeps(p, gpio)
  <2>1. gpios[p] \in GpioType
    BY DEF PortsType
  <2>2. gpios' = [gpios EXCEPT ![p].ice = @ \ set] /\ int_line' = int_line
    BY <1>4 DEF gpio_ice_disconnect, int_set_ice, intVars
  <2>3. Keeps(p, [gpios[p] EXCEPT !.ice = @ \ set])
    BY <2>1, <2>2 DEF Keeps, GpioType
  <2> QED
    BY <2>3
<1>5. CASE Controller \/ Target \/ UNCHANGED vars
  <2>1. gpios' = gpios /\ int_line' = int_line
    BY <1>5 DEF Controller, Target, vars, intVars, int_write_msk, int_write_clr,
                Acknowledge, TargetChanges
  <2> QED
    BY <2>1 DEF PortsType
<1> QED
  BY <1>1, <1>2, <1>3, <1>4, <1>5, PortsKept

\* A step that looks at the pins leaves a flag for the line that it raises.
LEMMA LookKeeps ==
  ASSUME Inv, Looks
  PROVE  Inv'
<1>1. PICK p \in Ports, gpio \in GpioType : gpio_maybe_interrupt(p, gpio)
  BY DEF Looks
<1>2. PortsType' /\ (gpios'[p].int_set <=> Asserts(gpio))
  BY <1>1, Looked DEF Inv
<1>3. ~Asserts(gpio) => GPIO \notin int_line'
  BY <1>1 DEF gpio_maybe_interrupt, int_clear
<1> QED
  BY <1>2, <1>3 DEF Inv, LineCaused

\* The inductive invariant: the types of the ports, and a flag for a line that
\* is up.
THEOREM GpioInvariance == Spec => []Inv
<1>1. Inv /\ [Next]_vars => Inv'
  <2> SUFFICES ASSUME Inv, [Next]_vars PROVE Inv'
    OBVIOUS
  <2>1. CASE Next /\ Looks
    BY <2>1, LookKeeps
  <2>2. CASE ~(Next /\ Looks)
    <3>1. /\ PortsType' /\ int_line' = int_line
          /\ \A q \in Ports : gpios'[q].int_set = gpios[q].int_set
      BY <2>2, Steps, OthersKeep DEF Inv
    <3> QED
      BY <3>1 DEF Inv, LineCaused
  <2> QED
    BY <2>1, <2>2
<1> QED
  BY <1>1, InitInv, PTL DEF Spec

\* The line and the flags of the ports: the line is never up while no port
\* asserts the interrupt, nor down while all do, however the ports are written,
\* driven, read and connected in turn (gpio_maybe_interrupt, sim/gpio.c:60-85).
\* A step that looks at a port makes the line what that port says.
THEOREM LineAgreesWithOne == ASSUME Ports # {} PROVE Spec => []LineAgrees
<1>1. Init => LineAgrees
  BY DEF Init, int_init, gpio_init, Reset, LineAgrees
<1>2. Inv /\ LineAgrees /\ [Next]_vars => LineAgrees'
  <2> SUFFICES ASSUME Inv, LineAgrees, [Next]_vars PROVE LineAgrees'
    OBVIOUS
  <2>1. CASE Looks
    <3>1. PICK p \in Ports, gpio \in GpioType : gpio_maybe_interrupt(p, gpio)
      BY <2>1 DEF Looks
    <3>2. gpios'[p].int_set <=> Asserts(gpio)
      BY <3>1, Looked DEF Inv
    <3>3. GPIO \in int_line' <=> Asserts(gpio)
      BY <3>1 DEF gpio_maybe_interrupt, int_set, int_clear
    <3> QED
      BY <3>2, <3>3 DEF LineAgrees
  <2>2. CASE ~Looks
    <3>1. /\ int_line' = int_line
          /\ \A q \in Ports : gpios'[q].int_set = gpios[q].int_set
      BY <2>2, Steps, OthersKeep DEF Inv
    <3> QED
      BY <3>1 DEF LineAgrees
  <2> QED
    BY <2>1, <2>2
<1> QED
  BY <1>1, <1>2, GpioInvariance, PTL DEF Spec

-----------------------------------------------------------------------------
(* Conditions that come to hold *)

\* Reading a port makes no condition true: of the pins it latches, those that
\* may interrupt now hold what was latched, and the other modes do not look.
LEMMA LatchIsQuiet ==
  ASSUME NEW gpio \in GpioType, NEW dr \in SUBSET Pins,
         \A b \in Pins \ gpio.ice : b \in dr <=> b \in Value(gpio),
         Asserts([gpio EXCEPT !.latch = dr])
  PROVE  Asserts(gpio)
<1> DEFINE new == [gpio EXCEPT !.latch = dr]
<1>1. /\ new.dr = gpio.dr /\ new.dm0 = gpio.dm0 /\ new.dm1 = gpio.dm1
      /\ new.dm2 = gpio.dm2 /\ new.ie = gpio.ie /\ new.ic0 = gpio.ic0
      /\ new.ic1 = gpio.ic1 /\ new.ice = gpio.ice /\ new.latch = dr
      /\ new.drive = gpio.drive /\ new.drive_z = gpio.drive_z
      /\ new.drive_r = gpio.drive_r
  BY DEF GpioType
<1> HIDE DEF new
<1>2. Value(new) = Value(gpio)
  BY <1>1 DEF is_input, Value
<1>3. PICK b \in gpio.ie \ gpio.ice : b \in Triggers(new)
  BY <1>1 DEF Asserts, new
<1>4. b \in Pins \ gpio.ice
  BY <1>3 DEF GpioType
<1>5. b \in Triggers(gpio)
  BY <1>1, <1>2, <1>3, <1>4 DEF Triggers
<1> QED
  BY <1>3, <1>5 DEF Asserts

\* Connecting pins takes them out of the condition and leaves the other pins.
LEMMA ConnectIsQuiet ==
  ASSUME NEW gpio \in GpioType, NEW set \in SUBSET Pins,
         Asserts([gpio EXCEPT !.ice = @ \cup set])
  PROVE  Asserts(gpio)
<1> DEFINE new == [gpio EXCEPT !.ice = @ \cup set]
<1>1. /\ new.dr = gpio.dr /\ new.dm0 = gpio.dm0 /\ new.dm1 = gpio.dm1
      /\ new.dm2 = gpio.dm2 /\ new.ie = gpio.ie /\ new.ic0 = gpio.ic0
      /\ new.ic1 = gpio.ic1 /\ new.ice = gpio.ice \cup set
      /\ new.latch = gpio.latch /\ new.drive = gpio.drive
      /\ new.drive_z = gpio.drive_z /\ new.drive_r = gpio.drive_r
  BY DEF GpioType
<1> HIDE DEF new
<1>2. PICK b \in gpio.ie \ (gpio.ice \cup set) : b \in Triggers(new)
  BY <1>1 DEF Asserts, new
<1>3. b \in Pins
  BY <1>2 DEF GpioType
<1>4. b \in is_input(new) <=> b \in is_input(gpio)
  BY <1>1, <1>2, <1>3 DEF is_input
<1>5. b \in Value(new) <=> b \in Value(gpio)
  BY <1>1, <1>4 DEF Value
<1>6. b \in Triggers(gpio)
  BY <1>1, <1>2, <1>3, <1>5 DEF Triggers
<1> QED
  BY <1>2, <1>6 DEF Asserts

\* What ConditionNoticed says of one port and one step.
Noticed(q) ==
  /\ Asserts(gpios'[q]) /\ ~Asserts(gpios[q])
  /\ gpios'[q].dm2 = gpios[q].dm2
  /\ gpios[q].ice \subseteq gpios'[q].ice
  => gpios'[q].int_set

\* An interrupt condition that comes to hold is found by the step that makes it
\* hold (the calls of gpio_maybe_interrupt in sim/gpio.c).
THEOREM NothingOverlooked == Spec => ConditionNoticed
<1>1. ASSUME Inv, [Next]_vars, NEW q \in Ports
      PROVE  Noticed(q)
  <2>1. gpios \in [Ports -> GpioType] /\ gpios[q] \in GpioType
    BY <1>1 DEF Inv, PortsType
  <2>2. CASE Looks
    <3>1. PICK p \in Ports, gpio \in GpioType : gpio_maybe_interrupt(p, gpio)
      BY <2>2 DEF Looks
    <3>2. /\ gpios'[p].int_set <=> Asserts(gpio)
          /\ Asserts(gpios'[p]) <=> Asserts(gpio)
          /\ q # p => gpios'[q] = gpios[q]
      BY <1>1, <3>1, Looked DEF Inv
    <3> QED
      BY <3>2 DEF Noticed
  <2>3. ASSUME NEW p \in Ports, NEW bits \in SUBSET Pins, gpio_write_dm2(p, bits)
        PROVE  Noticed(q)
    <3>1. gpios' = [gpios EXCEPT ![p] = [gpios[p] EXCEPT !.dm2 = bits]]
      BY <2>3 DEF gpio_write_dm2
    <3>2. CASE q = p
      <4>1. gpios'[q] = [gpios[q] EXCEPT !.dm2 = bits]
        BY <2>1, <3>1, <3>2
      <4>2. bits = gpios[q].dm2 => gpios'[q] = gpios[q]
        BY <2>1, <4>1 DEF GpioType
      <4>3. gpios'[q].dm2 = bits
        BY <2>1, <4>1 DEF GpioType
      <4> QED
        BY <4>2, <4>3 DEF Noticed
    <3>3. CASE q # p
      BY <2>1, <3>1, <3>3 DEF Noticed
    <3> QED
      BY <3>2, <3>3
  <2>4. ASSUME NEW p \in Ports, NEW bits \in SUBSET Pins, gpio_read_dr(p, bits)
        PROVE  Noticed(q)
    <3> DEFINE dr == IF is_input(gpios[p]) \cap gpios[p].ice = {}
                     THEN Value(gpios[p])
                     ELSE (Value(gpios[p]) \ gpios[p].ice) \cup (bits \cap gpios[p].ice)
    <3>1. gpios' = [gpios EXCEPT ![p] = [gpios[p] EXCEPT !.latch = dr]]
      BY <2>4 DEF gpio_read_dr
    <3>2. /\ dr \in SUBSET Pins
          /\ \A b \in Pins \ gpios[p].ice : b \in dr <=> b \in Value(gpios[p])
      BY <2>1 DEF Value, GpioType
    <3> HIDE DEF dr
    <3>3. CASE q = p
      <4>1. gpios'[q] = [gpios[q] EXCEPT !.latch = dr]
        BY <2>1, <3>1, <3>3
      <4> QED
        BY <2>1, <3>2, <3>3, <4>1, LatchIsQuiet DEF Noticed
    <3>4. CASE q # p
      BY <2>1, <3>1, <3>4 DEF Noticed
    <3> QED
      BY <3>3, <3>4
  <2>5. ASSUME NEW p \in Ports, NEW set \in SUBSET Pins, gpio_ice_connect(p, set)
        PROVE  Noticed(q)
    <3>1. gpios' = [gpios EXCEPT ![p] = [gpios[p] EXCEPT !.ice = @ \cup set]]
      BY <2>5 DEF gpio_ice_connect
    <3>2. CASE q = p
      <4>1. gpios'[q] = [gpios[q] EXCEPT !.ice = @ \cup set]
        BY <2>1, <3>1, <3>2
      <4> QED
        BY <2>1, <4>1, ConnectIsQuiet DEF Noticed
    <3>3. CASE q # p
      BY <2>1, <3>1, <3>3 DEF Noticed
    <3> QED
      BY <3>2, <3>3
  <2>6. ASSUME NEW p \in Ports, NEW set \in SUBSET Pins, NEW beyond \in BOOLEAN,
               gpio_ice_disconnect(p, set, beyond)
        PROVE  Noticed(q)
    <3>1. gpios' = [gpios EXCEPT ![p] = [gpios[p] EXCEPT !.ice = @ \ set]]
      BY <2>6 DEF gpio_ice_disconnect
    <3>2. CASE q = p
      <4>1. gpios'[q] = [gpios[q] EXCEPT !.ice = @ \ set]
        BY <2>1, <3>1, <3>2
      <4>2. gpios'[q].ice = gpios[q].ice \ set
        BY <2>1, <4>1 DEF GpioType
      <4>3. gpios[q].ice \subseteq gpios'[q].ice => gpios[q].ice \ set = gpios[q].ice
        BY <4>2
      <4>4. gpios[q].ice \ set = gpios[q].ice => gpios'[q] = gpios[q]
        BY <2>1, <4>1 DEF GpioType
      <4> QED
        BY <4>3, <4>4 DEF Noticed
    <3>3. CASE q # p
      BY <2>1, <3>1, <3>3 DEF Noticed
    <3> QED
      BY <3>2, <3>3
  <2>7. CASE Controller \/ Target \/ UNCHANGED vars
    BY <2>7 DEF Controller, Target, vars, Noticed
  <2> QED
    BY <1>1, <2>2, <2>3, <2>4, <2>5, <2>6, <2>7, Steps DEF Inv
<1>2. Inv /\ [Next]_vars =>
        \A p \in Ports :
          /\ Asserts(gpios'[p]) /\ ~Asserts(gpios[p])
          /\ gpios'[p].dm2 = gpios[p].dm2
          /\ gpios[p].ice \subseteq gpios'[p].ice
          => gpios'[p].int_set
  BY <1>1 DEF Noticed
<1> QED
  BY <1>2, GpioInvariance, PTL DEF Spec, ConditionNoticed

-----------------------------------------------------------------------------
(* Edges *)

\* A condition that persists interrupts once, for any number of ports: as long as
\* no port has lost the line, the interrupt becomes pending only when a port's
\* condition comes to hold (int_set, sim/int.c, keeps the line).
THEOREM OneEdgeInterruptsOnce == Spec => OneEdgeOneInterrupt
<1>1. ASSUME Inv, LineHeld, [Next]_vars,
             ENSWINT \notin int_msk, GPIO \in int_pending' \ int_pending
      PROVE  \E p \in Ports : ~gpios[p].int_set /\ Asserts(gpios'[p])
  <2>1. CASE Looks
    <3>1. PICK p \in Ports, gpio \in GpioType : gpio_maybe_interrupt(p, gpio)
      BY <2>1 DEF Looks
    <3>2. Asserts(gpio) /\ GPIO \notin int_line
      BY <1>1, <3>1 DEF gpio_maybe_interrupt, int_set, int_clear
    <3>3. Asserts(gpios'[p])
      BY <1>1, <3>1, <3>2, Looked DEF Inv
    <3>4. ~gpios[p].int_set
      BY <1>1, <3>2 DEF LineHeld
    <3> QED
      BY <3>3, <3>4
  <2>2. CASE ~Looks
    <3>1. int_pending' \subseteq int_pending
      <4>1. CASE Controller
        BY <1>1, <4>1 DEF Controller, int_write_msk, int_write_clr, Acknowledge
      <4>2. CASE Target \/ UNCHANGED vars
        BY <4>2 DEF Target, TargetChanges, vars, intVars
      <4>3. CASE ~(Controller \/ Target \/ UNCHANGED vars)
        <5>1. int_pending' = int_pending
          BY <1>1, <2>2, <4>3, Steps
          DEF Inv, gpio_write_dm2, gpio_read_dr, gpio_ice_connect, int_set_ice,
              gpio_ice_disconnect, intVars
        <5> QED
          BY <5>1
      <4> QED
        BY <4>1, <4>2, <4>3
    <3> QED
      BY <1>1, <3>1
  <2> QED
    BY <2>1, <2>2
<1>2. Inv /\ [Next]_vars =>
        [/\ ENSWINT \notin int_msk
         /\ GPIO \in int_pending' \ int_pending
         /\ LineHeld
         => \E p \in Ports : ~gpios[p].int_set /\ Asserts(gpios'[p])]_vars
  BY <1>1
<1> QED
  BY <1>2, GpioInvariance, PTL DEF Spec, OneEdgeOneInterrupt

-----------------------------------------------------------------------------
(* Pins that are set, write by write *)

RegsType == [dr : SUBSET ModePins, dm0 : SUBSET ModePins, dm1 : SUBSET ModePins, dm2 : SUBSET ModePins]

\* The number of register writes of a command.
Count(c) == IF c.op = "set_r" THEN 6 ELSE 3

\* The writes that were made: not the one at which the assertion failed.
Made == IF aborted THEN step - 1 ELSE step

\* A pin of the mask after so many writes of a command c: its registers r
\* follow from those before it, s.
SetPin(c, r, s, b, made) ==
  /\ b \in r.dr <=> b \in IF made >= 1 THEN c.value ELSE s.dr
  /\ b \in r.dm0 <=> made >= 2 \/ b \in s.dm0
  /\ b \in r.dm1 <=> made < 3 /\ b \in s.dm1
  /\ b \in r.dm2 <=> b \in s.dm2

SetRPin(c, r, s, b, made) ==
  /\ b \in r.dr <=> b \in IF made >= 4 THEN c.value ELSE s.dr
  /\ b \in r.dm0 <=>
       b \in IF made >= 5 \/ (made >= 1 /\ b \in s.dr) THEN c.value ELSE s.dm0
  /\ b \in r.dm1 <=>
       b \in IF made >= 6 \/ (made >= 2 /\ b \notin s.dr) THEN c.value ELSE s.dm1
  /\ b \in r.dm2 <=> made < 3 /\ b \in s.dm2

OffPin(c, r, s, b, made) ==
  /\ b \in r.dr <=> b \in s.dr
  /\ b \in r.dm0 <=> made < 1 /\ b \in s.dm0
  /\ b \in r.dm1 <=> made >= 2 \/ b \in s.dm1
  /\ b \in r.dm2 <=> IF made < 3 THEN b \in s.dm2 ELSE c.op = "set_analog"

Untouched(r, s, b) ==
  /\ b \in r.dr <=> b \in s.dr
  /\ b \in r.dm0 <=> b \in s.dm0
  /\ b \in r.dm1 <=> b \in s.dm1
  /\ b \in r.dm2 <=> b \in s.dm2

Pin(c, r, s, b, made) ==
  /\ b \notin c.mask => Untouched(r, s, b)
  /\ b \in c.mask => /\ c.op = "set" => SetPin(c, r, s, b, made)
                     /\ c.op = "set_r" => SetRPin(c, r, s, b, made)
                     /\ c.op \in {"set_z", "set_analog"} => OffPin(c, r, s, b, made)

ModeTypeOK ==
  /\ reg \in RegsType /\ before \in RegsType
  /\ step \in 0 .. 6
  /\ cmd # Mode!Idle =>
       /\ cmd \in Mode!Commands /\ cmd.value \subseteq cmd.mask
       /\ step <= Count(cmd) /\ (aborted => step >= 1)

Progress == cmd # Mode!Idle => \A b \in ModePins : Pin(cmd, reg, before, b, Made)

Settled == cmd = Mode!Idle => before = reg /\ ~aborted

ModeInv == ModeTypeOK /\ Progress /\ Settled

\* A command is one of the four, for pins of the port.
LEMMA CommandType ==
  ASSUME NEW c \in Mode!Commands
  PROVE  /\ c.op \in {"set", "set_r", "set_z", "set_analog"}
         /\ c.mask \in SUBSET ModePins /\ c.value \in SUBSET ModePins /\ c # Mode!Idle
BY ModeAssumption DEF Mode!PinAssumption, Mode!Commands, Mode!Idle

\* A port after reset satisfies the invariant.
LEMMA ModeInitInv == Mode!Init => ModeInv
BY DEF Mode!Init, ModeInv, ModeTypeOK, Progress, Settled, RegsType

\* The sequences of writes that do not depend on the state.
LEMMA WritesOf ==
  ASSUME NEW c, NEW r, NEW s
  PROVE  /\ c.op = "set" => Mode!Writes(c, r, s) = Mode!gpio_set(c)
         /\ c.op = "set_r" => Mode!Writes(c, r, s) = Mode!gpio_set_r(c, r, s)
         /\ c.op = "set_z" => Mode!Writes(c, r, s) = Mode!gpio_set_z(c)
         /\ c.op = "set_analog" => Mode!Writes(c, r, s) = Mode!gpio_set_analog(c)
BY DEF Mode!Writes

\* One more write, of a value that keeps to the mask.
LEMMA Advance ==
  ASSUME NEW c \in Mode!Commands, c.value \subseteq c.mask,
         NEW r \in RegsType, NEW s \in RegsType, NEW k \in Nat,
         NEW more, more = k + 1,
         k < Len(Mode!Writes(c, r, s)),
         \A b \in ModePins : Pin(c, r, s, b, k),
         NEW name, name = Mode!Writes(c, r, s)[k + 1][1],
         NEW new, new = Mode!Writes(c, r, s)[k + 1][2], new \subseteq c.mask,
         NEW next, next = [r EXCEPT ![name] = (@ \ c.mask) \cup new]
  PROVE  /\ next \in RegsType /\ \A b \in ModePins : Pin(c, next, s, b, more)
         /\ k < 6 /\ (c.op # "set_r" => k < 3)
<1> DEFINE w == Mode!Writes(c, r, s)
<1>1. /\ c.op \in {"set", "set_r", "set_z", "set_analog"}
      /\ c.mask \in SUBSET ModePins /\ c.value \in SUBSET ModePins
  BY CommandType
<1>2. CASE c.op = "set"
  <2>1. w = << <<"dr", c.value>>, <<"dm0", c.mask>>, <<"dm1", {}>> >>
    BY <1>2, WritesOf DEF Mode!gpio_set
  <2>2. k \in 0 .. 2
    BY <2>1
  <2>3. CASE k = 0
    BY <1>1, <1>2, <2>1, <2>3 DEF Pin, SetPin, Untouched, RegsType
  <2>4. CASE k = 1
    BY <1>1, <1>2, <2>1, <2>4 DEF Pin, SetPin, Untouched, RegsType
  <2>5. CASE k = 2
    BY <1>1, <1>2, <2>1, <2>5 DEF Pin, SetPin, Untouched, RegsType
  <2>6. k = 0 \/ k = 1 \/ k = 2
    BY <2>2
  <2>7. k < 6 /\ k < 3
    BY <2>2
  <2>8. next \in RegsType /\ \A b \in ModePins : Pin(c, next, s, b, more)
    BY <2>3, <2>4, <2>5, <2>6, Zenon
  <2> QED
    BY <2>7, <2>8, Zenon
<1>3. CASE c.op = "set_z" \/ c.op = "set_analog"
  <2>1. w = << <<"dm0", {}>>, <<"dm1", c.mask>>,
               <<"dm2", IF c.op = "set_z" THEN {} ELSE c.mask>> >>
    BY <1>3, WritesOf DEF Mode!gpio_set_z, Mode!gpio_set_analog
  <2>2. k \in 0 .. 2
    BY <2>1
  <2>3. CASE k = 0
    BY <1>1, <1>3, <2>1, <2>3 DEF Pin, OffPin, Untouched, RegsType
  <2>4. CASE k = 1
    BY <1>1, <1>3, <2>1, <2>4 DEF Pin, OffPin, Untouched, RegsType
  <2>5. CASE k = 2
    BY <1>1, <1>3, <2>1, <2>5 DEF Pin, OffPin, Untouched, RegsType
  <2>6. k = 0 \/ k = 1 \/ k = 2
    BY <2>2
  <2>7. k < 6 /\ k < 3
    BY <2>2
  <2>8. next \in RegsType /\ \A b \in ModePins : Pin(c, next, s, b, more)
    BY <2>3, <2>4, <2>5, <2>6, Zenon
  <2> QED
    BY <2>7, <2>8, Zenon
<1>4. CASE c.op = "set_r"
  <2> DEFINE all(old) == (old \ c.mask) \cup c.value
  <2>1. w = << <<"dm0", (r.dm0 \ r.dr) \cup (all(s.dm0) \cap r.dr)>>,
               <<"dm1", (r.dm1 \cap r.dr) \cup (all(s.dm1) \ r.dr)>>,
               <<"dm2", s.dm2 \ c.mask>>,
               <<"dr",  all(s.dr)>>,
               <<"dm0", all(s.dm0)>>,
               <<"dm1", all(s.dm1)>> >>
    BY <1>4, WritesOf DEF Mode!gpio_set_r
  <2>2. k \in 0 .. 5
    BY <2>1
  <2>3. CASE k = 0
    BY <1>1, <1>4, <2>1, <2>3 DEF Pin, SetRPin, Untouched, RegsType
  <2>4. CASE k = 1
    BY <1>1, <1>4, <2>1, <2>4 DEF Pin, SetRPin, Untouched, RegsType
  <2>5. CASE k = 2
    BY <1>1, <1>4, <2>1, <2>5 DEF Pin, SetRPin, Untouched, RegsType
  <2>6. CASE k = 3
    BY <1>1, <1>4, <2>1, <2>6 DEF Pin, SetRPin, Untouched, RegsType
  <2>7. CASE k = 4
    BY <1>1, <1>4, <2>1, <2>7 DEF Pin, SetRPin, Untouched, RegsType
  <2>8. CASE k = 5
    BY <1>1, <1>4, <2>1, <2>8 DEF Pin, SetRPin, Untouched, RegsType
  <2>9. k = 0 \/ k = 1 \/ k = 2 \/ k = 3 \/ k = 4 \/ k = 5
    BY <2>2
  <2>10. next \in RegsType /\ \A b \in ModePins : Pin(c, next, s, b, more)
    BY <2>3, <2>4, <2>5, <2>6, <2>7, <2>8, <2>9, Zenon
  <2>11. k < 6
    BY <2>2
  <2> QED
    BY <1>4, <2>10, <2>11
<1> QED
  BY <1>1, <1>2, <1>3, <1>4

\* The number of writes is what the type invariant says it is.
LEMMA WriteCount ==
  ASSUME NEW c \in Mode!Commands, NEW r, NEW s
  PROVE  Len(Mode!Writes(c, r, s)) = Count(c)
<1>1. c.op \in {"set", "set_r", "set_z", "set_analog"}
  BY CommandType
<1>2. CASE c.op = "set"
  BY <1>2, WritesOf DEF Mode!gpio_set, Count
<1>3. CASE c.op = "set_r"
  BY <1>3, WritesOf DEF Mode!gpio_set_r, Count
<1>4. CASE c.op = "set_z"
  BY <1>4, WritesOf DEF Mode!gpio_set_z, Count
<1>5. CASE c.op = "set_analog"
  BY <1>5, WritesOf DEF Mode!gpio_set_analog, Count
<1> QED
  BY <1>1, <1>2, <1>3, <1>4, <1>5

\* A register write, and an assertion that fails instead of it.
LEMMA ModeWriteStep ==
  ASSUME ModeInv, Mode!gpio_may_change
  PROVE  ModeInv'
<1> DEFINE w == Mode!Writes(cmd, reg, before)
<1>1. /\ cmd # Mode!Idle /\ ~aborted /\ step' = step + 1 /\ cmd' = cmd
      /\ before' = before /\ step < Len(w)
  BY DEF Mode!gpio_may_change
<1>2. /\ cmd \in Mode!Commands /\ cmd.value \subseteq cmd.mask
      /\ reg \in RegsType /\ before \in RegsType /\ step \in Nat
  BY <1>1 DEF ModeInv, ModeTypeOK
<1>3. \A b \in ModePins : Pin(cmd, reg, before, b, step)
  BY <1>1 DEF ModeInv, Progress, Made
<1>4. step < Count(cmd) /\ Count(cmd) \in 0 .. 6
  <2>1. Len(w) = Count(cmd)
    BY <1>2, WriteCount
  <2>2. Count(cmd) = 3 \/ Count(cmd) = 6
    BY DEF Count
  <2> QED
    BY <1>1, <2>1, <2>2
<1>5. step' \in 1 .. 6 /\ step' <= Count(cmd)
  BY <1>1, <1>2, <1>4
<1>6. CASE ~(w[step + 1][2] \subseteq cmd.mask)
  <2>1. reg' = reg /\ aborted' = TRUE
    BY <1>6 DEF Mode!gpio_may_change
  <2>2. Made' = step
    BY <1>1, <1>2, <2>1 DEF Made
  <2>3. Progress'
    BY <1>1, <1>3, <2>1, <2>2 DEF Progress
  <2> QED
    BY <1>1, <1>2, <1>5, <2>1, <2>3 DEF ModeInv, ModeTypeOK, Settled
<1>7. CASE w[step + 1][2] \subseteq cmd.mask
  <2>1. /\ reg' = [reg EXCEPT ![w[step + 1][1]] =
                     (@ \ cmd.mask) \cup w[step + 1][2]]
        /\ aborted' = FALSE
    BY <1>1, <1>7 DEF Mode!gpio_may_change
  <2>3. /\ reg' \in RegsType
        /\ \A b \in ModePins : Pin(cmd, reg', before, b, step')
    BY <1>1, <1>2, <1>3, <1>7, <2>1, Advance
  <2>4. Made' = step'
    BY <2>1 DEF Made
  <2>5. Progress'
    BY <1>1, <2>3, <2>4 DEF Progress
  <2> QED
    BY <1>1, <1>2, <1>5, <2>1, <2>3, <2>5 DEF ModeInv, ModeTypeOK, Settled
<1> QED
  BY <1>6, <1>7

\* Every step of a command, and writes between commands.
LEMMA ModeNextInv == ModeInv /\ [Mode!Next]_(Mode!vars) => ModeInv'
<1> SUFFICES ASSUME ModeInv, [Mode!Next]_(Mode!vars) PROVE ModeInv'
  OBVIOUS
<1>1. CASE Mode!gpio_may_change
  BY <1>1, ModeWriteStep
<1>2. ASSUME NEW name \in Mode!Regs, NEW value \in SUBSET ModePins, Mode!RegWrite(name, value)
      PROVE  ModeInv'
  BY <1>2 DEF Mode!RegWrite, ModeInv, ModeTypeOK, Progress, Settled, RegsType, Mode!Regs
<1>3. ASSUME NEW c \in Mode!Commands, Mode!Begin(c)
      PROVE  ModeInv'
  <2>1. /\ cmd' = c /\ c \in Mode!Commands /\ c.value \subseteq c.mask /\ step' = 0
        /\ before' = reg /\ reg' = reg /\ reg \in RegsType /\ ~aborted
        /\ aborted' = aborted
    BY <1>3 DEF Mode!Begin, ModeInv, ModeTypeOK
  <2>2. \A b \in ModePins : Pin(c, reg, reg, b, 0)
    BY <2>1 DEF Pin, SetPin, SetRPin, OffPin, Untouched
  <2>3. Count(c) \in 0 .. 6 /\ c # Mode!Idle
    BY CommandType DEF Count
  <2>4. Made' = 0
    BY <2>1 DEF Made
  <2>5. Progress'
    BY <2>1, <2>2, <2>4 DEF Progress
  <2> QED
    BY <2>1, <2>3, <2>5 DEF ModeInv, ModeTypeOK, Settled
<1>4. CASE Mode!Finish
  BY <1>4 DEF Mode!Finish, ModeInv, ModeTypeOK, Progress, Settled
<1>5. CASE UNCHANGED Mode!vars
  BY <1>5 DEF Mode!vars, ModeInv, ModeTypeOK, Progress, Settled, Made
<1> QED
  BY <1>1, <1>2, <1>3, <1>4, <1>5 DEF Mode!Next

\* The inductive invariant: after each write of a command (gpio_may_change) every
\* register of a pin is known from what it was when the command began.
THEOREM ModeInvariance == Mode!Spec => []ModeInv
BY ModeInitInv, ModeNextInv, PTL DEF Mode!Spec

\* The table, by its columns.
LEMMA Table ==
  ASSUME NEW r, NEW b
  PROVE  LET e == Mode!gpio_state(r, b)
             one == b \in r.dr
             m2 == b \in r.dm2
             m1 == b \in r.dm1
             m0 == b \in r.dm0
         IN  /\ e = [level |-> e.level, strength |-> e.strength]
             /\ e.strength = IF m1 /\ ~m0 THEN 0
                             ELSE IF m1 /\ m2 THEN IF one THEN 0 ELSE 2
                             ELSE IF m1 THEN IF one THEN 1 ELSE 2
                             ELSE IF m0 THEN 2
                             ELSE IF m2 THEN IF one THEN 2 ELSE 0
                             ELSE IF one THEN 2 ELSE 1
             /\ e.level = IF e.strength = 0 THEN "Z" ELSE IF one THEN "1" ELSE "0"
<1>1. CASE b \in r.dr
  BY <1>1 DEF Mode!gpio_state, Mode!Bit, Mode!Level, Mode!Strength
<1>2. CASE b \notin r.dr
  BY <1>2 DEF Mode!gpio_state, Mode!Bit, Mode!Level, Mode!Strength
<1> QED
  BY <1>1, <1>2

\* After all its writes a command has done what it says.
LEMMA AtTheEnd ==
  ASSUME NEW c \in Mode!Commands, NEW r, NEW s, NEW b, Pin(c, r, s, b, Count(c))
  PROVE  Mode!gpio_state(r, b) = IF b \in c.mask THEN Mode!Wanted(c, b) ELSE Mode!gpio_state(s, b)
<1>1. c.op \in {"set", "set_r", "set_z", "set_analog"}
  BY CommandType
<1>2. CASE b \notin c.mask
  BY <1>2 DEF Pin, Untouched, Mode!gpio_state, Mode!Bit
<1>3. CASE b \in c.mask /\ c.op = "set"
  BY <1>3, Table DEF Pin, SetPin, Mode!Wanted, Count
<1>4. CASE b \in c.mask /\ c.op = "set_r"
  BY <1>4, Table DEF Pin, SetRPin, Mode!Wanted, Count
<1>5. CASE b \in c.mask /\ c.op \in {"set_z", "set_analog"}
  BY <1>5, Table DEF Pin, OffPin, Mode!Wanted, Count
<1> QED
  BY <1>1, <1>2, <1>3, <1>4, <1>5

\* After some of its writes a pin drives nothing else, and no harder.
LEMMA OnTheWay ==
  ASSUME NEW c \in Mode!Commands, NEW r, NEW s, NEW b \in c.mask, NEW k \in 0 .. Count(c),
         Pin(c, r, s, b, k)
  PROVE  LET start == Mode!gpio_state(s, b)
             now   == Mode!gpio_state(r, b)
             end   == Mode!Wanted(c, b)
         IN  /\ now.level \in {start.level, end.level}
                  \cup (IF start.level = end.level THEN {} ELSE {"Z"})
             /\ Mode!AtMost(now.strength, start.strength, end.strength)
<1>1. c.op \in {"set", "set_r", "set_z", "set_analog"} /\ k \in 0 .. 6
  BY CommandType DEF Count
<1>3. CASE c.op = "set"
  BY <1>1, <1>3, Table DEF Pin, SetPin, Mode!Wanted, Count, Mode!AtMost
<1>4. CASE c.op = "set_r"
  BY <1>1, <1>4, Table DEF Pin, SetRPin, Mode!Wanted, Count, Mode!AtMost
<1>5. CASE c.op \in {"set_z", "set_analog"}
  BY <1>1, <1>5, Table DEF Pin, OffPin, Mode!Wanted, Count, Mode!AtMost
<1> QED
  BY <1>1, <1>3, <1>4, <1>5

\* When the last write of a command is made, its pins drive what it says and the
\* others what they did before (gpio_set and its kin, sim/gpio.c:431-490).
THEOREM SetsWhatIsSaid == Mode!Spec => []SetTakesEffect
<1>1. ModeInv => SetTakesEffect
  <2> SUFFICES ASSUME ModeInv, cmd # Mode!Idle, ~aborted,
                      step = Len(Mode!Writes(cmd, reg, before)), NEW b \in ModePins
               PROVE  Mode!gpio_state(reg, b) =
                        IF b \in cmd.mask THEN Mode!Wanted(cmd, b)
                                          ELSE Mode!gpio_state(before, b)
    BY DEF SetTakesEffect, Mode!SetTakesEffect
  <2>1. cmd \in Mode!Commands /\ Pin(cmd, reg, before, b, step)
    BY DEF ModeInv, ModeTypeOK, Progress, Made
  <2>2. step = Count(cmd)
    BY <2>1, WriteCount
  <2> QED
    BY <2>1, <2>2, AtTheEnd
<1> QED
  BY <1>1, ModeInvariance, PTL

\* No write on the way makes a pin drive a level that it neither had nor gets, or
\* drive harder than at one of the two ends (the comment on gpio_set_r).
THEOREM NoGlitches == Mode!Spec => []NoGlitch
<1>1. ModeInv => NoGlitch
  <2> SUFFICES ASSUME ModeInv, cmd # Mode!Idle, NEW b \in cmd.mask
               PROVE  LET start == Mode!gpio_state(before, b)
                          now   == Mode!gpio_state(reg, b)
                          end   == Mode!Wanted(cmd, b)
                      IN  /\ now.level \in {start.level, end.level}
                               \cup (IF start.level = end.level THEN {} ELSE {"Z"})
                          /\ Mode!AtMost(now.strength, start.strength, end.strength)
    BY DEF NoGlitch, Mode!NoGlitch
  <2>1. /\ cmd \in Mode!Commands /\ b \in ModePins
        /\ Pin(cmd, reg, before, b, Made) /\ Made \in 0 .. Count(cmd)
    <3>1. cmd \in Mode!Commands /\ b \in ModePins
      BY CommandType DEF ModeInv, ModeTypeOK
    <3>2. step \in 0 .. 6 /\ step <= Count(cmd) /\ (aborted => step >= 1)
      BY DEF ModeInv, ModeTypeOK
    <3>3. Made \in 0 .. Count(cmd)
      BY <3>2 DEF Made, Count
    <3> QED
      BY <3>1, <3>3 DEF ModeInv, Progress
  <2> QED
    BY <2>1, OnTheWay
<1> QED
  BY <1>1, ModeInvariance, PTL
=============================================================================
