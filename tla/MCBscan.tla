------------------------------ MODULE MCBscan ------------------------------
(***************************************************************************)
(* Instances of Bscan: four pins of two ports, of which one belongs to the *)
(* programming interface.  The constants about descriptions come from      *)
(* Description.                                                            *)
(***************************************************************************)
EXTENDS Bscan, TLC

INSTANCE Description

MCPort == [p \in 1..4 |-> IF p <= 2 THEN 1 ELSE 2]
MCPins == 1..4
MCISSP == {4}

Rules(f) == [set |-> f, alts |-> <<>>]
Anything == Both(Values, {"Z"})

\* Every setting of one pin, next to a free one.
Each == {Rules(2 :> s @@ 3 :> Anything) :
           s \in {Both(a, e) : <<a, e>> \in
                    {ae \in (SUBSET Values) \X (SUBSET Values) :
                       ~Opposed(ae[1], ae[2])}}}

\* Alternatives, in sequence and nested; pins that only some choices name.
Pair(p, q, v, vr) ==
  Rules(p :> Both({v}, {"Z", "0R", "1R", v}) @@
        q :> Both({"Z", "0R", "1R", v}, {v}))
Nested == {
  [set |-> 1 :> Anything,
   alts |-> << <<Pair(2, 3, "0", "0R"), Pair(2, 3, "1", "1R")>> >>],
  [set |-> 4 :> Anything @@ 2 :> Anything,
   alts |-> << <<Rules(1 :> Allow({"1R"})), Rules(1 :> External({"1"}))>>,
               <<Rules(3 :> Both({"1"}, {"Z"})), Rules(<<>>)>> >>],
  [set |-> 3 :> Anything,
   alts |-> << <<[set |-> 1 :> Both({"0", "0R"}, {"0R", "Z"}),
                  alts |-> << <<Rules(2 :> Anything), Rules(2 :> Both({}, {"0"}))>> >>],
                 Rules(2 :> External({"0", "1R"}))>> >>]}

MCDescriptions == Each \cup Nested
MCdefined == [d \in MCDescriptions |-> Defined(d)]
MCsettings == [d \in MCDescriptions |-> Settings(d)]
MCConfigurations == [d \in MCDescriptions |-> iterate(d)]
MCFaults == {[pins |-> {}, to |-> {}], [pins |-> {2, 3}, to |-> {}],
             [pins |-> {3}, to |-> {"0"}], [pins |-> {3}, to |-> {"1"}],
             [pins |-> {3, 4}, to |-> {}]}
=============================================================================
