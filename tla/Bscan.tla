------------------------------- MODULE Bscan -------------------------------
(***************************************************************************)
(* The boundary scanner, src/bscan: from a description of what each pin    *)
(* may drive and what the circuit may drive it with, it generates          *)
(* patterns, puts each on the ports (PortCommit) and compares what the     *)
(* pins then read (test.c, value.c; the description: lang.y; errors:       *)
(* out.c).  The circuit is external and may have a fault.  What the parser *)
(* makes of a description is in Description.                               *)
(*                                                                         *)
(* One step of the module is one pattern generated, one register written   *)
(* or one pattern compared.                                                *)
(***************************************************************************)
EXTENDS PortCommit, Sequences, FiniteSetsExt, Functions

CONSTANTS
  Descriptions,    \* files that can be parsed
  defined,         \* of lang.y: the pins a description defines
  settings,        \* what the parser leaves in allow and external
  Configurations,  \* the sequence of configurations iterate goes through
  ISSP,            \* P1[0] and P1[1]
  Faults,          \* of the circuit
  Modes            \* a subset of {"plain", "-a", "-m"}

\* What the parser does not let past: see compatibility in Description.
Opposed(a, e) == ("0" \in e /\ "1" \in a) \/ ("1" \in e /\ "0" \in a)
PinSettings == {s \in [allow : SUBSET Values, external : SUBSET Values] :
                  ~Opposed(s.allow, s.external)}

\* Settings f, with those of g written over them.
Written(f, g) == [p \in DOMAIN f |-> IF p \in DOMAIN g THEN g[p] ELSE f[p]]
SetsPins(f) == /\ DOMAIN f \subseteq Pins
               /\ f \in [DOMAIN f -> PinSettings]

ASSUME BscanAssumption ==
  /\ Pins \subseteq Nat \ {0}   \* they are tested in this order
  /\ ISSP \subseteq Pins
  /\ Modes \subseteq {"plain", "-a", "-m"}
  \* A short: of pins with each other, or with ground or Vdd.
  /\ \A f \in Faults : /\ f.pins \subseteq Pins
                       /\ f.to \in {{}, {"0"}, {"1"}}
                       /\ f.to = {} => \A p \in f.pins : f.pins # {p}

ASSUME DescriptionAssumption ==
  \A d \in Descriptions :
    /\ defined[d] \subseteq Pins \ ISSP
    /\ SetsPins(settings[d])
    /\ Len(Configurations[d]) \in Nat \ {0}
    /\ \A i \in 1..Len(Configurations[d]) :
         /\ SetsPins(Configurations[d][i].put)
         /\ Configurations[d][i].sel \subseteq defined[d]

VARIABLES
  desc, mode, fault,      \* what this scan is run on
  setting,                \* of value.c: allow and external of each pin
  values,                 \* of value.c
  stage, bit, high, leaf, ok,  \* where do_tests and recurse are; bit is
                          \* current_bit, high is current_high
  selected,
  posted,                 \* a pattern is on its way to the pins
  setups,                 \* of test.c: the values posted so far
  errors                  \* out.c: there has been one

scan == <<desc, mode, fault>>
position == <<stage, bit, high, leaf>>
bscanVars == <<scan, setting, values, position, ok, selected, posted,
               setups, errors>>
vars == <<portVars, bscanVars>>

None == 0   \* current_bit is -1; pins are numbered from 1
-----------------------------------------------------------------------------
(* Selection of values: value.c.  x is the wanted level, y the other one.  *)

Untestable == "none"

\* A rule's value, if its condition holds, and the value of the first rule
\* that has one.
When(condition, v) == {w \in {v} : condition}
First(rules) ==
  LET fit == {i \in DOMAIN rules : rules[i] # {}}
  IN IF fit = {} THEN Untestable ELSE CHOOSE v \in rules[Min(fit)] : TRUE

Meets(e, s) == e \cap s # {}

gentle(a, e, x, xr, y, yr) == First(
  <<When("Z" \in a /\ Meets(e, {x, xr}) /\ ~Meets(e, {y, yr, "Z"}), "Z"),
    When(xr \in a /\ Meets(e, {x, xr, "Z"}) /\ ~Meets(e, {y, yr}), xr),
    When(yr \in a /\ e = {x}, yr),
    \* gentle_default
    When("Z" \in a, "Z"), When(xr \in a, xr), When(yr \in a, yr)>>)

\* Mistake: the strong drive is chosen whatever the circuit drives.
weak_bold(a, e, x, xr, y, yr) == First(
  <<When(yr \in a /\ e = {x}, yr),
    When("Z" \in a /\ Meets(e, {x, xr}) /\ ~Meets(e, {y, yr, "Z"}), "Z"),
    When(xr \in a /\ Meets(e, {x, xr, "Z"}) /\ ~Meets(e, {y, yr}), xr),
    When(xr \in a /\ Meets(e, {x, xr, "Z", yr}), x),
    When("Z" \in a, "Z"), When(xr \in a, xr), When(yr \in a, yr),
    When(y \in a, y), When(x \in a, x)>>)

weak(a, e, x, xr, y, yr) == First(
  <<When(yr \in a /\ e = {x}, yr),
    When("Z" \in a /\ Meets(e, {x, xr}) /\ ~Meets(e, {y, yr, "Z"}), "Z"),
    When(xr \in a /\ Meets(e, {x, xr, "Z"}) /\ ~Meets(e, {y, yr}), xr),
    When(xr \in a /\ Meets(e, {x, xr, "Z", yr}) /\ y \notin e, x),
    \* weak_default
    When("Z" \in a, "Z"), When(xr \in a, xr), When(yr \in a, yr),
    When(y \in a, y), When(x \in a, x)>>)

strong(a, e, x, xr, y, yr) == First(
  <<When(x \in a, x),
    When(xr \in a, IF y \in e THEN Untestable ELSE xr),
    When("Z" \in a, IF Meets(e, {x, xr}) THEN "Z" ELSE Untestable),
    When(yr \in a, IF x \in e THEN yr ELSE Untestable)>>)

\* The values towards 1 or 0, and towards the other one.
Toward(up) == IF up THEN <<"1", "1R", "0", "0R">> ELSE <<"0", "0R", "1", "1R">>

\* s is the setting of the pin; each is two functions, _high and _low.
gentle_to(s, up) ==
  LET t == Toward(up) IN gentle(s.allow, s.external, t[1], t[2], t[3], t[4])
weak_to(s, up) ==
  LET t == Toward(up) IN weak(s.allow, s.external, t[1], t[2], t[3], t[4])
strong_to(s, up) ==
  LET t == Toward(up) IN strong(s.allow, s.external, t[1], t[2], t[3], t[4])

\* Mistake: a pull the other way is not taken into account.
expected_bold(v, e) ==
  CASE v \in {"0", "0R"} -> "0"
    [] v \in {"1", "1R"} -> "1"
    [] v = "Z" -> Untestable

\* What a pin must read, or Untestable: pulled towards x, or left alone.
pulled(e, x, xr, y, yr) == First(
  <<When(yr \in e, Untestable),
    When(Meets(e, {x, xr, "Z"}) /\ y \notin e, x),
    When(y \in e /\ ~Meets(e, {x, xr, "Z"}), y)>>)

undriven(e) == First(
  <<When("Z" \in e, Untestable),
    When(Meets(e, {"0", "0R"}) /\ ~Meets(e, {"1", "1R"}), "0"),
    When(Meets(e, {"1", "1R"}) /\ ~Meets(e, {"0", "0R"}), "1")>>)

expected(v, e) == IF v \in Strong THEN v
                  ELSE IF v = "Z" THEN undriven(e)
                  ELSE IF v = "0R" THEN pulled(e, "0", "0R", "1", "1R")
                  ELSE pulled(e, "1", "1R", "0", "0R")
-----------------------------------------------------------------------------
(* The circuit.  A fault is a set of pins shorted to each other, with what *)
(* they are shorted to besides.                                            *)

Level(drives) ==
  IF Meets(drives, Strong) THEN drives \cap Strong
  ELSE IF Meets(drives, {"0R", "1R"})
       THEN {v \in {"0"} : "0R" \in drives} \cup {v \in {"1"} : "1R" \in drives}
       ELSE Strong

\* What the circuit may drive p with.
Drives(p) == IF p \notin selected THEN Values
             ELSE IF setting[p].external = {} THEN {"Z"}
             ELSE setting[p].external

\* The levels of pins that are connected.
Levels(pins, more) ==
  UNION {Level(Range(d) \cup {decode_value(chip, p) : p \in pins} \cup more) :
           d \in {f \in [pins -> Values] : \A p \in pins : f[p] \in Drives(p)}}

\* What the pins may read.
Readings ==
  {g \in [Pins -> Strong] :
     /\ \A p \in Pins \ fault.pins : g[p] \in Levels({p}, {})
     /\ \A p, q \in fault.pins : g[p] = g[q]
     /\ \A p \in fault.pins : g[p] \in Levels(fault.pins, fault.to)}
-----------------------------------------------------------------------------
(* The patterns: test.c *)

\* setup_gentle and setup: all pins against the level under test, and the
\* pin under test, selected or not, towards it.
pattern(sel, s) ==
  [p \in Pins |->
     IF p = bit
     THEN IF stage = "strong" THEN strong_to(s[p], high) ELSE weak_to(s[p], high)
     ELSE IF p \notin sel THEN "Z"
     ELSE IF stage = "gentle" THEN gentle_to(s[p], ~high)
     ELSE weak_to(s[p], ~high)]

NextHigh == IF high THEN <<"done", None, high>> ELSE <<"gentle", None, TRUE>>

\* Mistake: the loop over the pins is over before the first one.
NextBit_none == NextHigh

NextBit ==
  LET rest == {p \in defined[desc] : p > bit}
  IN IF rest = {} THEN NextHigh
     ELSE <<"weak", CHOOSE p \in rest : \A q \in rest : p <= q, high>>

\* do_tests: what it does after an iterate that returned res.
do_tests(res) ==
  IF stage = "gentle" /\ res THEN <<"base", None, high>>
  ELSE IF stage = "weak" /\ res THEN <<"strong", bit, high>>
  ELSE IF stage = "gentle" \/ (stage = "base" /\ ~res) THEN NextHigh
  ELSE NextBit

\* The configuration has been dealt with, with result res.
Return(res) ==
  IF leaf < Len(Configurations[desc])
  THEN /\ leaf' = leaf + 1
       /\ ok' = (ok /\ res)
       /\ UNCHANGED <<stage, bit, high>>
  ELSE /\ LET to == do_tests(ok /\ res)
          IN stage' = to[1] /\ bit' = to[2] /\ high' = to[3]
       /\ leaf' = 1
       /\ ok' = TRUE

Scanning == stage \notin {"done", "exit"}

\* recurse's last step with one of the four functions it is given: the
\* pattern is posted unless a pin has no value, or the pattern has been
\* posted before, which counts as success.
Post ==
  /\ Scanning
  /\ ~posted
  /\ LET c == Configurations[desc][leaf]
         s == Written(setting, c.put)
         sel == {p \in c.sel : s[p].allow # {}}   \* remove_useless
         vals == pattern(sel, s)
         testable == Untestable \notin Range(vals)
     IN /\ setting' = s
        /\ selected' = sel
        /\ IF testable /\ vals \notin setups
           THEN /\ posted' = TRUE
                /\ setups' = setups \cup {vals}
                /\ values' = vals
                /\ commit(set_value(want, [p \in defined[desc] |-> vals[p]]))
                /\ UNCHANGED <<position, ok>>
           ELSE /\ Return(TRUE)
                /\ UNCHANGED <<posted, setups, values, portVars>>
  /\ UNCHANGED <<scan, errors>>

\* One register write of commit.
Change ==
  /\ posted
  /\ commit_write(defined[desc])
  /\ UNCHANGED bscanVars

\* check: the selected pins are read and compared.  The first mismatch
\* ends the program unless -a or -m is given.
Check ==
  /\ Scanning
  /\ posted
  /\ ~Committing
  /\ \E got \in Readings :
       LET bad == {p \in selected : expected(values[p], setting[p].external)
                                      \notin {Untestable, got[p]}}
       IN /\ errors' = (errors \/ bad # {})
          /\ IF bad # {} /\ mode = "plain"
             THEN /\ stage' = "exit"
                  /\ UNCHANGED <<bit, high, leaf, ok>>
             ELSE Return(bad = {})
  /\ posted' = FALSE
  /\ UNCHANGED <<scan, setting, values, selected, setups, portVars>>

\* check_target after the writes or the reads: a pin shorted to those of
\* the programming interface may have upset the chip.
lost_comm ==
  /\ Scanning
  /\ posted
  /\ ~Committing
  /\ Meets(fault.pins, ISSP)
  /\ stage' = "exit"
  /\ errors' = TRUE
  /\ posted' = FALSE
  /\ UNCHANGED <<portVars, scan, setting, values, bit, high, leaf, ok,
                 selected, setups>>

Init ==
  /\ PortInit
  /\ desc \in Descriptions
  /\ mode \in Modes
  /\ fault \in Faults
  /\ setting = Written([p \in Pins |-> [allow |-> {}, external |-> {}]],
                       settings[desc])
  /\ values = [p \in Pins |-> "Z"]
  /\ stage = "gentle"
  /\ bit = None
  /\ high = FALSE
  /\ leaf = 1
  /\ ok = TRUE
  /\ posted = FALSE
  /\ selected = {}
  /\ setups = {}
  /\ errors = FALSE

Finished == ~Scanning /\ UNCHANGED vars

Next == Post \/ Change \/ Check \/ lost_comm \/ Finished

Spec == Init /\ [][Next]_vars
-----------------------------------------------------------------------------
(* Properties *)

\* Before the pins are compared they drive what test.c wanted: the writes
\* that were left out were not needed, and pins that are not described are
\* left in high-Z.
PinsAsWanted ==
  (posted /\ ~Committing) =>
    \A p \in Pins : decode_value(chip, p) =
                      IF p \in defined[desc] THEN values[p] ELSE "Z"

\* A circuit that is as described, whatever it does within the
\* description, never leads to an error, with patterns left out and values
\* of other configurations still in the arrays.
NoFalseAlarm == fault.pins = {} => (~errors /\ stage # "exit")

\* Pins that are free to drive anything in every configuration and are
\* shorted to each other, to ground or to Vdd, are noticed before the scan
\* ends.
IsFree(s) == s.external = {"Z"} /\ Values \ {"Z"} \subseteq s.allow
Free(p) ==
  /\ p \in DOMAIN settings[desc] /\ IsFree(settings[desc][p])
  /\ \A i \in 1..Len(Configurations[desc]) :
       LET c == Configurations[desc][i]
       IN p \in c.sel /\ (p \in DOMAIN c.put => IsFree(c.put[p]))
ShortsFound ==
  (stage = "done" /\ fault.pins # {} /\ \A p \in fault.pins : Free(p)) => errors

\* No selected pin is driven hard against the circuit: strong values are
\* chosen where the pin's description has no strong drive of the other
\* level.
NoFight ==
  posted => \A p \in selected :
    /\ values[p] = "0" => "1" \notin setting[p].external
    /\ values[p] = "1" => "0" \notin setting[p].external
=============================================================================
