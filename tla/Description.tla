---------------------------- MODULE Description ----------------------------
(***************************************************************************)
(* The description files of the boundary scanner: what the parser, lang.y, *)
(* makes of one, and the order in which test.c goes through its            *)
(* configurations.                                                         *)
(*                                                                         *)
(* A description is [set, alts]: the settings of the pins its rules name,  *)
(* and a sequence of alternatives, each a sequence of choices, which are   *)
(* again descriptions.  A setting is what a pin may drive (allow) and what *)
(* the circuit may drive it with (external).                               *)
(***************************************************************************)
EXTENDS SequencesExt, TLC

CONSTANTS
  Values,  \* of a pin: see PortCommit
  ISSP     \* P1[0] and P1[1]
-----------------------------------------------------------------------------
\* compatibility: conflicts are refused (see Bscan); resistive drives
\* against each other and an undriven Z are taken away.  The third test
\* repeats the second, so 0R against 1R stays.
compatibility(a, e) ==
  a \ ((IF "0R" \in e THEN {"1R"} ELSE {}) \cup (e \cap {"Z"}))

compatible(s) ==
  Values \ ((IF "0" \in s THEN {"1"} ELSE {}) \cup
            (IF "1" \in s THEN {"0"} ELSE {}))

\* The settings of a rule: with both clauses, or with one of them only.
Both(a, e) == [allow |-> compatibility(a, e), external |-> e]
Allow(a) == [allow |-> a, external |-> compatible(a)]
External(e) == [allow |-> compatible(e), external |-> e]

RECURSIVE Defined(_)
Defined(d) ==
  (DOMAIN d.set \ ISSP) \cup
  UNION {UNION {Defined(alt[i]) : i \in DOMAIN alt} : alt \in ToSet(d.alts)}

\* What the parser leaves in allow and external: of the choices of an
\* alternative that name the same pin, the last counts.
RECURSIVE Settings(_)
Settings(d) ==
  FoldLeft(LAMBDA f, c : Settings(c) @@ f, d.set,
           FlattenSeq(d.alts))

Under(alts) == UNION {Defined(c) : c \in ToSet(FlattenSeq(alts))}

\* recurse: the configurations in the order it comes to them.  put is what
\* it has written to allow and external since the last one; what the
\* choices before wrote stays.
RECURSIVE Leaves(_, _, _)
Leaves(alts, sel, put) ==
  IF alts = <<>> THEN <<[put |-> put, sel |-> sel]>>
  ELSE LET choice(i) == Head(alts)[i] IN
    FlattenSeq([i \in DOMAIN Head(alts) |->
      Leaves(choice(i).alts \o Tail(alts),
             (sel \cup Defined(choice(i))) \ Under(choice(i).alts),
             LET own == [p \in Defined(choice(i)) |-> Settings(choice(i))[p]]
             IN IF i = 1 THEN own @@ put ELSE own)])

\* The configurations that are selected from, without those of alternatives.
iterate(d) == Leaves(d.alts, Defined(d) \ Under(d.alts), [p \in {} |-> {}])
=============================================================================
