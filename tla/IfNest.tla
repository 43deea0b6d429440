------------------------------- MODULE IfNest -------------------------------
(***************************************************************************)
(* Conditional assembly: IF, ELSE and ENDIF in the assembler (as/m8c.y,    *)
(* as/m8c.l).  The parser does not keep a stack of conditionals.  It       *)
(* counts: if_true conditionals whose selected branch it is in, then       *)
(* if_false more, the first of which is in a branch that is not selected   *)
(* and the others inside of it.  An array tells which ones had their ELSE. *)
(*                                                                         *)
(* Text between the directives changes none of this; the lexer drops it    *)
(* while if_false is not 0.  open is the stack of conditionals a reader of *)
(* the source would keep.                                                  *)
(***************************************************************************)
EXTENDS Integers, Sequences

CONSTANTS
  MAX_IFS,     \* entries of if_had_else: 100
  MaxNesting   \* bound: conditionals the source nests

ASSUME IfAssumption == MAX_IFS \in Nat \ {0} /\ MaxNesting \in Nat

VARIABLES
  if_true,      \* "true" ifs before first false
  if_false,     \* "false" ifs after last true
  if_had_else,  \* the flags
  open,         \* history: the conditionals of the source, outermost first
  verdict       \* "reading", "accepted", or the message the assembler ends with

flags == <<if_true, if_false, if_had_else>>
vars == <<flags, open, verdict>>

Depth == if_true + if_false

\* A conditional: is its present branch the one its expression selects, and did
\* it have an ELSE?
Conditional == [chosen : BOOLEAN, had_else : BOOLEAN]
New(cond) == [chosen |-> cond, had_else |-> FALSE]

Top == open[Len(open)]
Reading == verdict = "reading"

Error(message) ==
  /\ verdict' = message
  /\ UNCHANGED <<flags, open>>

\* Behind the end of the array a write is lost and a read may find anything.
Clear(array, k) == IF k < MAX_IFS THEN [array EXCEPT ![k] = FALSE] ELSE array
Mark(array, k) == IF k < MAX_IFS THEN [array EXCEPT ![k] = TRUE] ELSE array
Flag(k) == IF k < MAX_IFS THEN {if_had_else[k]} ELSE BOOLEAN

-----------------------------------------------------------------------------
(* The directives *)

TooDeep ==
  /\ Reading /\ if_false = 0
  /\ Depth = MAX_IFS
  /\ Error("too deep")

\* Mistake: the flag of the enclosing conditional is cleared.
IfClearsOuter(cond) ==
  /\ Reading /\ if_false = 0
  /\ Depth < MAX_IFS
  /\ if_had_else' = Clear(if_had_else, IF Depth = 0 THEN 0 ELSE Depth - 1)
  /\ if_true' = IF cond THEN if_true + 1 ELSE if_true
  /\ if_false' = IF cond THEN if_false ELSE if_false + 1
  /\ open' = Append(open, New(cond))
  /\ UNCHANGED verdict

\* TOK_IF, which the lexer returns where text is selected.
If(cond) ==
  /\ Reading /\ if_false = 0
  /\ Depth < MAX_IFS
  /\ if_had_else' = Clear(if_had_else, Depth)
  /\ if_true' = IF cond THEN if_true + 1 ELSE if_true
  /\ if_false' = IF cond THEN if_false ELSE if_false + 1
  /\ open' = Append(open, New(cond))
  /\ UNCHANGED verdict

\* TOK_IF with a false condition, when the token the parser has read ahead is
\* the TOK_IF of another conditional: that one is entered at once, without a
\* look at the limit.
IfThenIf(cond) ==
  /\ Reading /\ if_false = 0
  /\ Depth < MAX_IFS
  /\ if_had_else' = Clear(Clear(if_had_else, Depth), Depth + 1)
  /\ if_false' = 2
  /\ open' = Append(Append(open, New(FALSE)), New(cond))
  /\ UNCHANGED <<if_true, verdict>>

\* TOK_IF_FALSE: neither the flag nor the limit is looked at.
IfSkipped(cond) ==
  /\ Reading /\ if_false # 0
  /\ if_false' = if_false + 1
  /\ open' = Append(open, New(cond))
  /\ UNCHANGED <<if_true, if_had_else, verdict>>

WithoutIf(message) ==
  /\ Reading /\ Depth = 0
  /\ Error(message)

Duplicate ==
  /\ Reading /\ Depth # 0
  /\ TRUE \in Flag(Depth - 1)
  /\ Error("duplicate ELSE")

\* Mistake: the ELSE of a conditional inside selects text again.
ElseSelectsInside ==
  /\ Reading /\ Depth # 0
  /\ FALSE \in Flag(Depth - 1)
  /\ if_had_else' = Mark(if_had_else, Depth - 1)
  /\ if_true' = IF if_false = 0 THEN if_true - 1 ELSE if_true + 1
  /\ if_false' = IF if_false = 0 THEN 1 ELSE if_false - 1
  /\ open' = [open EXCEPT ![Len(open)] = [chosen |-> ~@.chosen, had_else |-> TRUE]]
  /\ UNCHANGED verdict

\* TOK_ELSE.
Else ==
  /\ Reading /\ Depth # 0
  /\ FALSE \in Flag(Depth - 1)
  /\ if_had_else' = Mark(if_had_else, Depth - 1)
  /\ CASE if_false = 0 -> if_true' = if_true - 1 /\ if_false' = 1
       [] if_false = 1 -> if_true' = if_true + 1 /\ if_false' = 0
       [] OTHER        -> UNCHANGED <<if_true, if_false>>
  /\ open' = [open EXCEPT ![Len(open)] = [chosen |-> ~@.chosen, had_else |-> TRUE]]
  /\ UNCHANGED verdict

Endif ==
  /\ Reading /\ Depth # 0
  /\ if_true' = IF if_false = 0 THEN if_true - 1 ELSE if_true
  /\ if_false' = IF if_false = 0 THEN 0 ELSE if_false - 1
  /\ open' = SubSeq(open, 1, Len(open) - 1)
  /\ UNCHANGED <<if_had_else, verdict>>

EndOfFile ==
  /\ Reading
  /\ verdict' = IF Depth = 0 THEN "accepted" ELSE "IF without ENDIF"
  /\ UNCHANGED <<flags, open>>

-----------------------------------------------------------------------------
(* The specification *)

Init ==
  /\ if_true = 0 /\ if_false = 0
  /\ if_had_else = [k \in 0 .. MAX_IFS - 1 |-> FALSE]
  /\ open = << >>
  /\ verdict = "reading"

Opens(cond) ==
  \/ Len(open) < MaxNesting /\ If(cond)
  \/ Len(open) + 1 < MaxNesting /\ IfThenIf(cond)
  \/ Len(open) < MaxNesting /\ IfSkipped(cond)

Next ==
  \/ \E cond \in BOOLEAN : Opens(cond)
  \/ TooDeep
  \/ WithoutIf("ELSE without IF") \/ Duplicate \/ Else
  \/ WithoutIf("ENDIF without IF") \/ Endif
  \/ EndOfFile

Spec == Init /\ [][Next]_vars

-----------------------------------------------------------------------------
(* Properties *)

Messages == {"too deep", "duplicate ELSE", "ELSE without IF",
             "ENDIF without IF", "IF without ENDIF"}

\* Type invariant: neither count becomes negative, and the first cannot exceed the
\* array (as/m8c.y:793).
TypeOK ==
  /\ if_true \in 0 .. MAX_IFS
  /\ if_false \in Nat
  /\ if_had_else \in [0 .. MAX_IFS - 1 -> BOOLEAN]
  /\ open \in Seq(Conditional)
  /\ verdict \in {"reading", "accepted"} \cup Messages

\* Text is assembled exactly where all the conditionals around it are in their
\* selected branch, and the counts know how many there are, however IF, ELSE and
\* ENDIF nest in selected and in skipped text and whichever directive follows
\* another at once (as/m8c.y:790-857).
SelectsRight ==
  /\ Depth = Len(open)
  /\ if_false = 0 <=> \A d \in DOMAIN open : open[d].chosen

\* A second ELSE is never accepted, and where an ELSE decides what is assembled a
\* first one is (as/m8c.y:835).
ElseJudged ==
  [][Depth > 0 /\ Depth <= MAX_IFS =>
       /\ Else => ~Top.had_else
       /\ Duplicate /\ if_false <= 1 => Top.had_else]_vars

\* "duplicate ELSE" (as/m8c.y:836) is the message for a duplicate ELSE only.
NoFalseDuplicate == verdict = "duplicate ELSE" => Top.had_else
=============================================================================
