------------------------------- MODULE MCPins -------------------------------
(***************************************************************************)
(* Instances of the two modules about GPIO ports: Gpio, for registers,     *)
(* drive and interrupts, and PinMode, for the commands that set pins.  A   *)
(* behaviour belongs to one part: "port", every operation on port 0;       *)
(* "line", what raises and lowers the line, on all ports; and "mode", a    *)
(* set command.  The rest stays in its first state.                        *)
(***************************************************************************)
EXTENDS Gpio

CONSTANTS Parts, ModePins, Masks, MasksR
VARIABLES part, reg, cmd, step, before, aborted

Mode == INSTANCE PinMode WITH Pins <- ModePins
ASSUME ModeAssumption == Mode!PinAssumption

SomePins == SUBSET ModePins \ {{}}
WholePort == {ModePins}

MCInit == part \in Parts /\ Init /\ Mode!Init
modeVars == <<reg, cmd, step, before, aborted>>

PortSteps ==
  /\ part = "port"
  /\ Registers(0) \/ Drive(0) \/ Connection(0) \/ Controller \/ Target
  /\ UNCHANGED <<part, modeVars>>

\* The pins are inputs, as after reset; the conditions and what is driven change.
Fixed == {"dr", "dm0", "dm1", "dm2", "ice", "latch", "drive_r"}
LineSteps ==
  /\ part = "line"
  /\ Next
  /\ \A q \in Ports, field \in Fixed : gpios'[q][field] = gpios[q][field]
  /\ UNCHANGED <<part, modeVars>>

ModeSteps == part = "mode" /\ Mode!Next /\ UNCHANGED <<part, vars>>
MCNext == PortSteps \/ LineSteps \/ ModeSteps
MCSpec == MCInit /\ [][MCNext]_<<part, vars, modeVars>>

\* See PinMode: the result of a set command, what is driven before it is
\* reached, and the assertion in gpio_may_change.
SetTakesEffect == Mode!SetTakesEffect
NoGlitch == Mode!NoGlitch
MaskRespected == Mode!MaskRespected
=============================================================================
