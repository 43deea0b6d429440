--------------------------- MODULE ToolchainProofs ---------------------------
(***************************************************************************)
(* Proofs about what becomes of a source before it is in a chip.  About    *)
(* IfNest, for every depth of nesting and every size of the array: two     *)
(* counts are enough to know what is assembled, and the array is right     *)
(* about every ELSE that matters.  About HexFile, for every program, every *)
(* protection file and every chip they fit: a file that is loaded holds    *)
(* what was written, a damaged one is refused, and every block of the chip *)
(* gets the protection that was meant for it.                              *)
(***************************************************************************)
EXTENDS IfNest, HexFile, TLAPS, SequenceTheorems, WellFoundedInduction

-----------------------------------------------------------------------------
(* Conditional assembly *)

\* Of the conditionals s the first t are selected and the next one is not.
Nest(s, t, f) ==
  /\ Len(s) = t + f
  /\ \A d \in 1 .. Len(s) : d <= t => s[d].chosen
  /\ f > 0 => ~s[t + 1].chosen

\* The array a knows every ELSE it has room for.
Known(s, a) ==
  \A d \in 1 .. Len(s) : d <= MAX_IFS /\ s[d].had_else => a[d - 1]

\* Up to the first conditional that is not selected it knows of no other.
NoOther(s, a, t) ==
  \A d \in 1 .. Len(s) : d <= t + 1 /\ a[d - 1] => s[d].had_else

Room == if_false > 0 => if_true < MAX_IFS

IfInv ==
  /\ TypeOK
  /\ Room
  /\ Nest(open, if_true, if_false)
  /\ Known(open, if_had_else)
  /\ NoOther(open, if_had_else, if_true)

Array == [0 .. MAX_IFS - 1 -> BOOLEAN]

-----------------------------------------------------------------------------
(* Conditionals and flags *)

\* u is s with another conditional behind it, b is a with flag k set to v.
OneMore(s, u, cond) ==
  /\ u \in Seq(Conditional) /\ Len(u) = Len(s) + 1
  /\ \A d \in 1 .. Len(s) : u[d] = s[d]
  /\ u[Len(s) + 1].chosen = cond
  /\ u[Len(s) + 1].had_else = FALSE

Changed(a, b, k, v) ==
  /\ b \in Array
  /\ k < MAX_IFS => b[k] = v
  /\ \A j \in 0 .. MAX_IFS - 1 : j # k => b[j] = a[j]

\* What is in a sequence of conditionals when another is added.
LEMMA Appended ==
  ASSUME NEW s \in Seq(Conditional), NEW cond \in BOOLEAN
  PROVE  OneMore(s, Append(s, New(cond)), cond)
<1> DEFINE u == Append(s, New(cond))
<1>1. New(cond) \in Conditional
  BY DEF New, Conditional
<1>2. New(cond).chosen = cond /\ New(cond).had_else = FALSE
  BY DEF New
<1>3. /\ u \in Seq(Conditional) /\ Len(u) = Len(s) + 1
      /\ \A d \in 1 .. Len(s) : u[d] = s[d]
      /\ u[Len(s) + 1] = New(cond)
  BY <1>1, AppendProperties
<1> QED
  BY <1>2, <1>3 DEF OneMore

\* Clearing or marking a flag leaves the others.
LEMMA FlagSet ==
  ASSUME NEW a \in Array, NEW k \in Nat
  PROVE  Changed(a, Clear(a, k), k, FALSE) /\ Changed(a, Mark(a, k), k, TRUE)
<1>1. CASE k < MAX_IFS
  <2>1. k \in 0 .. MAX_IFS - 1
    BY <1>1, IfAssumption
  <2>2. Clear(a, k) = [a EXCEPT ![k] = FALSE] /\ Mark(a, k) = [a EXCEPT ![k] = TRUE]
    BY <1>1 DEF Clear, Mark
  <2> QED
    BY <2>1, <2>2 DEF Array, Changed
<1>2. CASE ~(k < MAX_IFS)
  <2>1. Clear(a, k) = a /\ Mark(a, k) = a
    BY <1>2 DEF Clear, Mark
  <2> QED
    BY <1>2, <2>1 DEF Changed
<1> QED
  BY <1>1, <1>2

\* Conditionals without an ELSE come on top of n others: the flags below are
\* kept, so that the array still knows every ELSE.
LEMMA KnownGrown ==
  ASSUME NEW s \in Seq(Conditional), NEW u \in Seq(Conditional),
         NEW a \in Array, NEW b \in Array,
         NEW n \in Nat, Len(s) = n, Len(u) >= n,
         \A d \in 1 .. n : u[d] = s[d],
         \A d \in n + 1 .. Len(u) : ~u[d].had_else,
         \A j \in 0 .. MAX_IFS - 1 : j < n => b[j] = a[j],
         Known(s, a)
  PROVE  Known(u, b)
<1> SUFFICES ASSUME NEW d \in 1 .. Len(u), d <= MAX_IFS, u[d].had_else
    PROVE  b[d - 1]
  BY DEF Known
<1>1. MAX_IFS \in Nat /\ Len(u) \in Nat
  BY IfAssumption
<1>2. ~(d \in n + 1 .. Len(u))
  OBVIOUS
<1>3. d \in 1 .. n /\ d - 1 \in 0 .. MAX_IFS - 1 /\ d - 1 < n
  BY <1>1, <1>2
<1>4. a[d - 1]
  BY <1>3 DEF Known
<1>5. b[d - 1] = a[d - 1]
  BY <1>3
<1> QED
  BY <1>4, <1>5

\* The same for the other direction, if the flags that begin to count are clear.
LEMMA NoOtherGrown ==
  ASSUME NEW s \in Seq(Conditional), NEW u \in Seq(Conditional),
         NEW a \in Array, NEW b \in Array,
         NEW n \in Nat, Len(s) = n, Len(u) >= n,
         \A d \in 1 .. n : u[d] = s[d],
         \A j \in 0 .. MAX_IFS - 1 : j < n => b[j] = a[j],
         NEW t \in Nat, t < MAX_IFS,
         \A j \in n .. t : ~b[j],
         NoOther(s, a, t)
  PROVE  NoOther(u, b, t)
<1> SUFFICES ASSUME NEW d \in 1 .. Len(u), d <= t + 1, b[d - 1]
    PROVE  u[d].had_else
  BY DEF NoOther
<1>1. MAX_IFS \in Nat /\ Len(u) \in Nat
  BY IfAssumption
<1>2. d - 1 \in 0 .. MAX_IFS - 1 /\ d - 1 <= t
  BY <1>1
<1>3. ~(d - 1 \in n .. t)
  OBVIOUS
<1>4. d \in 1 .. n /\ d - 1 < n
  BY <1>1, <1>2, <1>3
<1>5. b[d - 1] = a[d - 1]
  BY <1>2, <1>4
<1>6. s[d].had_else
  BY <1>4, <1>5 DEF NoOther
<1> QED
  BY <1>4, <1>6

-----------------------------------------------------------------------------
(* The steps *)

\* The empty source.
LEMMA InitInv == Init => IfInv
<1> SUFFICES ASSUME Init PROVE IfInv
  OBVIOUS
<1>1. TypeOK
  BY IfAssumption DEF Init, TypeOK
<1>2. Len(open) = 0
  BY DEF Init
<1> QED
  BY <1>1, <1>2 DEF Init, IfInv, Room, Nest, Known, NoOther

\* A step that changes neither the counts nor the flags nor the source.
LEMMA Unmoved ==
  ASSUME IfInv, UNCHANGED <<flags, open>>,
         verdict' \in {"reading", "accepted"} \cup Messages
  PROVE  IfInv'
BY DEF IfInv, TypeOK, Room, Nest, Known, NoOther, flags

\* IF where text is selected.
LEMMA IfStep ==
  ASSUME IfInv, NEW cond \in BOOLEAN, If(cond)
  PROVE  IfInv'
<1> USE IfAssumption DEF IfInv
<1>1. /\ if_true \in Nat /\ if_false = 0 /\ Len(open) = if_true
      /\ if_true < MAX_IFS /\ if_had_else \in Array
      /\ open \in Seq(Conditional)
  BY DEF If, TypeOK, Nest, Depth, Array
<1>2. /\ open' \in Seq(Conditional) /\ Len(open') = if_true + 1
      /\ \A d \in 1 .. if_true : open'[d] = open[d]
      /\ open'[if_true + 1].chosen = cond
      /\ open'[if_true + 1].had_else = FALSE
  <2>1. open' = Append(open, New(cond))
    BY DEF If
  <2>2. OneMore(open, open', cond)
    BY <1>1, <2>1, Appended
  <2> QED
    BY <1>1, <2>2 DEF OneMore
<1>3. /\ if_had_else' = Clear(if_had_else, if_true)
      /\ if_true' = IF cond THEN if_true + 1 ELSE if_true
      /\ if_false' = IF cond THEN 0 ELSE 1
      /\ verdict' = verdict
  BY <1>1 DEF If, Depth
<1>4. /\ if_had_else' \in Array
      /\ if_had_else'[if_true] = FALSE
      /\ \A j \in 0 .. MAX_IFS - 1 : j # if_true => if_had_else'[j] = if_had_else[j]
  <2>1. Changed(if_had_else, if_had_else', if_true, FALSE)
    BY <1>1, <1>3, FlagSet
  <2> QED
    BY <1>1, <2>1 DEF Changed
<1>5. TypeOK' /\ Room'
  BY <1>1, <1>2, <1>3, <1>4 DEF TypeOK, Room, Array
<1>6. Nest(open', if_true', if_false')
  <2>1. \A d \in 1 .. if_true : open[d].chosen
    BY <1>1 DEF Nest
  <2> QED
    BY <1>1, <1>2, <1>3, <2>1 DEF Nest
<1>7. \A d \in if_true + 1 .. Len(open') : ~open'[d].had_else
  BY <1>1, <1>2
<1>8. Known(open', if_had_else')
  BY <1>1, <1>2, <1>4, <1>7, KnownGrown
<1>9. NoOther(open', if_had_else', if_true)
  <2>1. \A j \in if_true .. if_true : ~if_had_else'[j]
    BY <1>1, <1>4
  <2> QED
    BY <1>1, <1>2, <1>4, <2>1, NoOtherGrown
<1>10. NoOther(open', if_had_else', if_true')
  BY <1>1, <1>2, <1>3, <1>9 DEF NoOther
<1> QED
  BY <1>5, <1>6, <1>8, <1>10

\* IF with a false condition, and another IF behind it.
LEMMA IfThenIfStep ==
  ASSUME IfInv, NEW cond \in BOOLEAN, IfThenIf(cond)
  PROVE  IfInv'
<1> USE IfAssumption DEF IfInv
<1>1. /\ if_true \in Nat /\ if_false = 0 /\ Len(open) = if_true
      /\ if_true < MAX_IFS /\ if_had_else \in Array
      /\ open \in Seq(Conditional)
  BY DEF IfThenIf, TypeOK, Nest, Depth, Array
<1>2. PICK first : first = Append(open, New(FALSE))
  OBVIOUS
<1>3. open' = Append(first, New(cond))
  BY <1>2 DEF IfThenIf
<1>4. /\ first \in Seq(Conditional) /\ Len(first) = if_true + 1
      /\ \A d \in 1 .. if_true : first[d] = open[d]
      /\ first[if_true + 1].chosen = FALSE
      /\ first[if_true + 1].had_else = FALSE
  <2>1. FALSE \in BOOLEAN
    OBVIOUS
  <2>2. OneMore(open, first, FALSE)
    BY <1>1, <1>2, <2>1, Appended
  <2> QED
    BY <1>1, <2>2 DEF OneMore
<1>5. /\ open' \in Seq(Conditional) /\ Len(open') = if_true + 2
      /\ \A d \in 1 .. if_true + 1 : open'[d] = first[d]
      /\ open'[if_true + 2].had_else = FALSE
  <2>1. OneMore(first, open', cond)
    BY <1>3, <1>4, Appended
  <2>2. if_true + 1 + 1 = if_true + 2
    BY <1>1
  <2> QED
    BY <1>4, <2>1, <2>2 DEF OneMore
<1>6. PICK once : once = Clear(if_had_else, if_true)
  OBVIOUS
<1>7. /\ once \in Array /\ once[if_true] = FALSE
      /\ \A j \in 0 .. MAX_IFS - 1 : j # if_true => once[j] = if_had_else[j]
  <2>1. Changed(if_had_else, once, if_true, FALSE)
    BY <1>1, <1>6, FlagSet
  <2> QED
    BY <1>1, <2>1 DEF Changed
<1>8. if_had_else' = Clear(once, if_true + 1)
  BY <1>1, <1>6 DEF IfThenIf, Depth
<1>9. /\ if_had_else' \in Array
      /\ \A j \in 0 .. MAX_IFS - 1 : j # if_true + 1 => if_had_else'[j] = once[j]
  <2>1. if_true + 1 \in Nat
    BY <1>1
  <2>2. Changed(once, if_had_else', if_true + 1, FALSE)
    BY <1>7, <1>8, <2>1, FlagSet
  <2> QED
    BY <2>2 DEF Changed
<1>10. if_true' = if_true /\ if_false' = 2 /\ verdict' = verdict
  BY DEF IfThenIf
<1>11. TypeOK' /\ Room'
  BY <1>1, <1>5, <1>9, <1>10 DEF TypeOK, Room, Array
<1>12. Nest(open', if_true', if_false')
  <2>1. \A d \in 1 .. if_true : open'[d].chosen
    BY <1>1, <1>4, <1>5 DEF Nest
  <2>2. ~open'[if_true + 1].chosen
    BY <1>1, <1>4, <1>5
  <2>3. Len(open') = if_true' + if_false'
    <3>1. if_true \in Nat /\ Len(open') = if_true + 2
      BY <1>1, <1>5
    <3> QED
      BY <1>10, <3>1
  <2>4. \A d \in 1 .. Len(open') : d <= if_true' => open'[d].chosen
    <3>1. if_true \in Nat /\ Len(open') = if_true + 2
      BY <1>1, <1>5
    <3> QED
      BY <1>10, <2>1, <3>1
  <2> QED
    BY <1>10, <2>2, <2>3, <2>4, Zenon DEF Nest
<1>13. \A d \in 1 .. if_true : open'[d] = open[d]
  BY <1>1, <1>4, <1>5
<1>14. \A d \in if_true + 1 .. Len(open') : ~open'[d].had_else
  BY <1>1, <1>4, <1>5
<1>15. \A j \in 0 .. MAX_IFS - 1 : j < if_true => if_had_else'[j] = if_had_else[j]
  BY <1>1, <1>7, <1>9
<1>16. Known(open', if_had_else')
  BY <1>1, <1>5, <1>9, <1>13, <1>14, <1>15, KnownGrown
<1>17. \A j \in if_true .. if_true : ~if_had_else'[j]
  BY <1>1, <1>7, <1>9
<1>18. NoOther(open', if_had_else', if_true)
  BY <1>1, <1>5, <1>9, <1>13, <1>15, <1>17, NoOtherGrown
<1> QED
  BY <1>10, <1>11, <1>12, <1>16, <1>18

\* IF where no text is selected.
LEMMA IfSkippedStep ==
  ASSUME IfInv, NEW cond \in BOOLEAN, IfSkipped(cond)
  PROVE  IfInv'
<1> USE IfAssumption DEF IfInv
<1>1. /\ if_true \in Nat /\ if_false \in Nat /\ if_false > 0
      /\ Len(open) = if_true + if_false
      /\ if_true < MAX_IFS /\ if_had_else \in Array
      /\ open \in Seq(Conditional)
  BY DEF IfSkipped, TypeOK, Nest, Room, Array
<1>2. /\ open' \in Seq(Conditional) /\ Len(open') = Len(open) + 1
      /\ \A d \in 1 .. Len(open) : open'[d] = open[d]
      /\ open'[Len(open) + 1].had_else = FALSE
  <2>1. open' = Append(open, New(cond))
    BY DEF IfSkipped
  <2>2. OneMore(open, open', cond)
    BY <1>1, <2>1, Appended
  <2> QED
    BY <2>2 DEF OneMore
<1>3. /\ if_true' = if_true /\ if_false' = if_false + 1
      /\ if_had_else' = if_had_else /\ verdict' = verdict
  BY DEF IfSkipped
<1>4. TypeOK' /\ Room'
  BY <1>1, <1>2, <1>3 DEF TypeOK, Room
<1>5. Nest(open', if_true', if_false')
  <2>1. /\ \A d \in 1 .. Len(open) : d <= if_true => open[d].chosen
        /\ ~open[if_true + 1].chosen
    BY <1>1 DEF Nest
  <2> QED
    BY <1>1, <1>2, <1>3, <2>1 DEF Nest
<1>6. \A d \in Len(open) + 1 .. Len(open') : ~open'[d].had_else
  BY <1>1, <1>2
<1>7. Known(open', if_had_else')
  BY <1>1, <1>2, <1>3, <1>6, KnownGrown
<1>8. NoOther(open', if_had_else', if_true')
  <2>1. \A j \in Len(open) .. if_true : ~if_had_else[j]
    BY <1>1
  <2> QED
    BY <1>1, <1>2, <1>3, <2>1, NoOtherGrown
<1> QED
  BY <1>4, <1>5, <1>7, <1>8

\* ELSE, accepted.
LEMMA ElseStep ==
  ASSUME IfInv, Else
  PROVE  IfInv'
<1> USE IfAssumption DEF IfInv
<1>1. PICK n : n = Len(open)
  OBVIOUS
<1>2. /\ if_true \in 0 .. MAX_IFS /\ if_false \in Nat /\ n \in Nat /\ n > 0
      /\ n = if_true + if_false /\ Depth = n
      /\ if_had_else \in Array
      /\ open \in Seq(Conditional) /\ Len(open) = n
      /\ if_false > 0 => if_true < MAX_IFS
  BY <1>1 DEF Else, TypeOK, Nest, Depth, Room, Array
<1>3. PICK flipped : flipped = [chosen |-> ~open[n].chosen, had_else |-> TRUE]
  OBVIOUS
<1>4. /\ flipped \in Conditional
      /\ flipped.chosen = ~open[n].chosen /\ flipped.had_else
  BY <1>3 DEF Conditional
<1>5. open' = [open EXCEPT ![n] = flipped]
  BY <1>1, <1>3 DEF Else
<1>6. /\ open' \in Seq(Conditional) /\ Len(open') = n
      /\ open'[n] = flipped
      /\ \A d \in 1 .. n : d # n => open'[d] = open[d]
  BY <1>2, <1>4, <1>5, ExceptSeq
<1>7. if_had_else' = Mark(if_had_else, n - 1)
  BY <1>2 DEF Else
<1>8. /\ if_had_else' \in Array
      /\ n - 1 < MAX_IFS => if_had_else'[n - 1] = TRUE
      /\ \A j \in 0 .. MAX_IFS - 1 : j # n - 1 => if_had_else'[j] = if_had_else[j]
  <2>1. n - 1 \in Nat
    BY <1>2
  <2>2. Changed(if_had_else, if_had_else', n - 1, TRUE)
    BY <1>2, <1>7, <2>1, FlagSet
  <2> QED
    BY <2>2 DEF Changed
<1>9. \/ if_false = 0 /\ if_true' = if_true - 1 /\ if_false' = 1
      \/ if_false = 1 /\ if_true' = if_true + 1 /\ if_false' = 0
      \/ if_false > 1 /\ if_true' = if_true /\ if_false' = if_false
  BY <1>2 DEF Else
<1>10. verdict' = verdict
  BY DEF Else
<1>11. TypeOK' /\ Room'
  BY <1>2, <1>6, <1>8, <1>9, <1>10 DEF TypeOK, Room, Array
<1>12. Nest(open', if_true', if_false')
  <2>1. /\ \A d \in 1 .. n : d <= if_true => open[d].chosen
        /\ if_false > 0 => ~open[if_true + 1].chosen
    BY <1>2 DEF Nest
  <2>2. open'[n].chosen = ~open[n].chosen
    BY <1>4, <1>6
  <2>3. Len(open') = if_true' + if_false'
    BY <1>2, <1>6, <1>9
  <2>4. ASSUME NEW d \in 1 .. n, d <= if_true' PROVE open'[d].chosen
    <3>1. CASE d # n
      <4>1. d <= if_true
        BY <1>2, <1>9, <2>4, <3>1
      <4> QED
        BY <1>6, <2>1, <3>1, <4>1
    <3>2. CASE d = n
      <4>1. if_false = 1 /\ n = if_true + 1
        BY <1>2, <1>9, <2>4, <3>2
      <4>2. ~open[n].chosen
        BY <2>1, <4>1
      <4> QED
        BY <2>2, <3>2, <4>2
    <3> QED
      BY <3>1, <3>2
  <2>5. ASSUME if_false' > 0 PROVE ~open'[if_true' + 1].chosen
    <3>1. CASE if_false = 0
      <4>1. if_true' + 1 = n /\ open[n].chosen
        BY <1>2, <1>9, <2>1, <3>1
      <4> QED
        BY <2>2, <4>1
    <3>2. CASE if_false > 1
      <4>1. if_true' + 1 = if_true + 1 /\ if_true + 1 \in 1 .. n /\ if_true + 1 # n
        BY <1>2, <1>9, <3>2
      <4>2. open'[if_true + 1] = open[if_true + 1]
        BY <1>6, <4>1
      <4>3. ~open[if_true + 1].chosen
        BY <1>2, <2>1, <3>2
      <4> QED
        BY <4>1, <4>2, <4>3
    <3> QED
      BY <1>2, <1>9, <2>5, <3>1, <3>2
  <2> QED
    BY <1>6, <2>3, <2>4, <2>5 DEF Nest
<1>13. Known(open', if_had_else')
  <2> SUFFICES ASSUME NEW d \in 1 .. n, d <= MAX_IFS, open'[d].had_else
      PROVE  if_had_else'[d - 1]
    BY <1>6 DEF Known
  <2>1. CASE d = n
    BY <1>2, <1>8, <2>1
  <2>2. CASE d # n
    <3>1. open[d].had_else
      BY <1>6, <2>2
    <3>2. if_had_else[d - 1]
      BY <1>2, <3>1 DEF Known
    <3>3. d - 1 \in 0 .. MAX_IFS - 1 /\ d - 1 # n - 1
      BY <1>2, <2>2
    <3> QED
      BY <1>8, <3>2, <3>3
  <2> QED
    BY <2>1, <2>2
<1>14. NoOther(open', if_had_else', if_true')
  <2> SUFFICES ASSUME NEW d \in 1 .. n, d <= if_true' + 1, if_had_else'[d - 1]
      PROVE  open'[d].had_else
    BY <1>6 DEF NoOther
  <2>1. CASE d = n
    BY <1>4, <1>6, <2>1
  <2>2. CASE d # n
    <3>1. /\ d <= if_true + 1 /\ d - 1 \in 0 .. MAX_IFS - 1 /\ d - 1 # n - 1
      BY <1>2, <1>9, <2>2
    <3>2. if_had_else[d - 1]
      BY <1>8, <3>1
    <3>3. open[d].had_else
      BY <1>2, <3>1, <3>2 DEF NoOther
    <3> QED
      BY <1>6, <2>2, <3>3
  <2> QED
    BY <2>1, <2>2
<1> QED
  BY <1>11, <1>12, <1>13, <1>14

\* ENDIF.
LEMMA EndifStep ==
  ASSUME IfInv, Endif
  PROVE  IfInv'
<1> USE IfAssumption DEF IfInv
<1>1. PICK n : n = Len(open)
  OBVIOUS
<1>2. /\ if_true \in 0 .. MAX_IFS /\ if_false \in Nat /\ n \in Nat /\ n > 0
      /\ n = if_true + if_false
      /\ open \in Seq(Conditional) /\ Len(open) = n
  BY <1>1 DEF Endif, TypeOK, Nest, Depth
<1>3. open' = SubSeq(open, 1, n - 1)
  BY <1>1 DEF Endif
<1>4. /\ open' \in Seq(Conditional) /\ Len(open') = n - 1
      /\ \A d \in 1 .. n - 1 : open'[d] = open[d]
  BY <1>2, <1>3
<1>5. \/ if_false = 0 /\ if_true' = if_true - 1 /\ if_false' = 0
      \/ if_false > 0 /\ if_true' = if_true /\ if_false' = if_false - 1
  BY <1>2 DEF Endif
<1>6. if_had_else' = if_had_else /\ verdict' = verdict
  BY DEF Endif
<1>7. TypeOK' /\ Room'
  BY <1>2, <1>4, <1>5, <1>6 DEF TypeOK, Room
<1>8. Nest(open', if_true', if_false')
  <2>1. /\ \A d \in 1 .. n : d <= if_true => open[d].chosen
        /\ if_false > 0 => ~open[if_true + 1].chosen
    BY <1>2 DEF Nest
  <2> QED
    BY <1>2, <1>4, <1>5, <2>1 DEF Nest
<1>9. \A d \in 1 .. n - 1 : d \in 1 .. n
  BY <1>2
<1>10. Known(open', if_had_else')
  BY <1>2, <1>4, <1>6, <1>9 DEF Known
<1>11. NoOther(open', if_had_else', if_true')
  <2> SUFFICES ASSUME NEW d \in 1 .. n - 1, d <= if_true' + 1, if_had_else[d - 1]
      PROVE  open'[d].had_else
    BY <1>4, <1>6 DEF NoOther
  <2>1. d \in 1 .. n /\ d <= if_true + 1
    BY <1>2, <1>5
  <2>2. open[d].had_else
    BY <1>2, <2>1 DEF NoOther
  <2> QED
    BY <1>4, <2>2
<1> QED
  BY <1>7, <1>8, <1>10, <1>11

\* Every step keeps the invariant.
LEMMA NextInv == IfInv /\ [Next]_vars => IfInv'
<1> SUFFICES ASSUME IfInv, [Next]_vars PROVE IfInv'
  OBVIOUS
<1>1. ASSUME NEW cond \in BOOLEAN, Opens(cond) PROVE IfInv'
  BY <1>1, IfStep, IfThenIfStep, IfSkippedStep DEF Opens
<1>2. CASE TooDeep
  BY <1>2, Unmoved DEF TooDeep, Error, Messages
<1>3. CASE WithoutIf("ELSE without IF")
  BY <1>3, Unmoved DEF WithoutIf, Error, Messages
<1>4. CASE Duplicate
  BY <1>4, Unmoved DEF Duplicate, Error, Messages
<1>5. CASE Else
  BY <1>5, ElseStep
<1>6. CASE WithoutIf("ENDIF without IF")
  BY <1>6, Unmoved DEF WithoutIf, Error, Messages
<1>7. CASE Endif
  BY <1>7, EndifStep
<1>8. CASE EndOfFile
  BY <1>8, Unmoved DEF EndOfFile, Messages
<1>9. CASE UNCHANGED vars
  BY <1>9, Unmoved DEF vars, IfInv, TypeOK
<1> QED
  BY <1>1, <1>2, <1>3, <1>4, <1>5, <1>6, <1>7, <1>8, <1>9 DEF Next

-----------------------------------------------------------------------------
(* The theorems *)

\* The counts and the array agree with the source in every reachable state
\* (as/m8c.y:27-33).
THEOREM IfInvariance == Spec => []IfInv
BY InitInv, NextInv, PTL DEF Spec

\* What is assembled is what all conditionals around it select, at any depth
\* (as/m8c.y:790-857).
THEOREM Selects == Spec => []SelectsRight
<1>1. IfInv => SelectsRight
  <2> SUFFICES ASSUME IfInv PROVE SelectsRight
    OBVIOUS
  <2>1. /\ if_true \in Nat /\ if_false \in Nat /\ Len(open) = if_true + if_false
        /\ DOMAIN open = 1 .. Len(open)
    BY DEF IfInv, TypeOK, Nest
  <2>2. CASE if_false = 0
    BY <2>1, <2>2 DEF IfInv, Nest, SelectsRight, Depth
  <2>3. CASE if_false > 0
    <3>1. if_true + 1 \in DOMAIN open /\ ~open[if_true + 1].chosen
      BY <2>1, <2>3 DEF IfInv, Nest
    <3> QED
      BY <2>1, <2>3, <3>1 DEF SelectsRight, Depth
  <2> QED
    BY <2>1, <2>2, <2>3
<1> QED
  BY <1>1, IfInvariance, PTL

\* A second ELSE is never accepted within the array, and a first one is refused
\* only inside of text that is not selected (as/m8c.y:835).
THEOREM JudgesElse == Spec => ElseJudged
<1>1. ASSUME IfInv, Depth > 0, Depth <= MAX_IFS
      PROVE  /\ Else => ~Top.had_else
             /\ Duplicate /\ if_false <= 1 => Top.had_else
  <2>1. /\ if_true \in Nat /\ if_false \in Nat /\ Len(open) = Depth
        /\ Depth = if_true + if_false /\ Depth \in 1 .. Len(open)
    BY <1>1 DEF IfInv, TypeOK, Nest, Depth
  <2>2. Flag(Depth - 1) = {if_had_else[Depth - 1]}
    BY <1>1, <2>1, IfAssumption DEF Flag
  <2>3. Top = open[Depth]
    BY <2>1 DEF Top
  <2>4. ASSUME Else PROVE ~Top.had_else
    <3>1. if_had_else[Depth - 1] = FALSE
      BY <2>2, <2>4 DEF Else
    <3>2. open[Depth].had_else => if_had_else[Depth - 1]
      BY <1>1, <2>1 DEF IfInv, Known
    <3> QED
      BY <2>3, <3>1, <3>2
  <2>5. ASSUME Duplicate, if_false <= 1 PROVE Top.had_else
    <3>1. if_had_else[Depth - 1] = TRUE
      BY <2>2, <2>5 DEF Duplicate
    <3>2. Depth <= if_true + 1
      BY <2>1, <2>5
    <3>3. if_had_else[Depth - 1] => open[Depth].had_else
      BY <1>1, <2>1, <3>2 DEF IfInv, NoOther
    <3> QED
      BY <2>3, <3>1, <3>3
  <2> QED
    BY <2>4, <2>5
<1>2. IfInv => (Depth > 0 /\ Depth <= MAX_IFS =>
                  /\ Else => ~Top.had_else
                  /\ Duplicate /\ if_false <= 1 => Top.had_else)
  BY <1>1
<1> QED
  BY <1>2, IfInvariance, PTL DEF ElseJudged

-----------------------------------------------------------------------------
(* Numbers *)

\* The number of records for size bytes, by the bytes they begin with.
LEMMA CountRecords ==
  ASSUME NEW size \in Nat
  PROVE  /\ Count(size) \in Nat
         /\ \A k \in Nat : /\ k * BLOCK_SIZE \in Nat
                           /\ (k + 1) * BLOCK_SIZE = (k * BLOCK_SIZE) + BLOCK_SIZE
                           /\ k < Count(size) <=> k * BLOCK_SIZE < size
<1> DEFINE B == BLOCK_SIZE  q == Count(size)
<1>1. B \in Nat \ {0}
  BY HexAssumption
<1>2. q = (size + B - 1) \div B
  BY DEF Count
<1> HIDE DEF B, q
<1>3. q \in Nat /\ q * B <= size + B - 1 /\ size + B - 1 < (q * B) + B
  BY <1>1, <1>2, Z3
<1>4. ASSUME NEW k \in Nat
      PROVE  /\ k * B \in Nat
             /\ (k + 1) * B = (k * B) + B
             /\ k < q <=> k * B < size
  <2>1. k * B \in Nat /\ (k + 1) * B = (k * B) + B
    BY <1>1, Z3
  <2>2. k < q => (k * B) + B <= q * B
    BY <1>1, <1>3, Z3
  <2>3. k >= q => k * B >= q * B
    BY <1>1, <1>3, Z3
  <2>4. q * B \in Nat
    BY <1>1, <1>3, Z3
  <2>5. k < q => k * B < size
    BY <1>1, <1>3, <2>1, <2>2, <2>4
  <2>6. ~(k < q) => ~(k * B < size)
    BY <1>1, <1>3, <2>1, <2>3, <2>4
  <2> QED
    BY <2>1, <2>5, <2>6
<1> QED
  BY <1>3, <1>4 DEF B, q

\* Rounding up to a multiple.
LEMMA RoundedUp ==
  ASSUME NEW n \in Nat, NEW d \in Nat \ {0}
  PROVE  /\ RoundUp(n, d) \in Nat
         /\ n <= RoundUp(n, d) /\ RoundUp(n, d) < n + d
         /\ \A m \in Nat : n <= m /\ m % d = 0 => RoundUp(n, d) <= m
<1> DEFINE q == (n + d - 1) \div d
<1>1. RoundUp(n, d) = q * d
  BY DEF RoundUp
<1>2. q \in Nat /\ q * d <= n + d - 1 /\ n + d - 1 < (q * d) + d
  BY Z3
<1> HIDE DEF q
<1>3. q * d \in Nat
  BY <1>2, Z3
<1>4. ASSUME NEW m \in Nat, n <= m, m % d = 0
      PROVE  q * d <= m
  <2> DEFINE p == m \div d
  <2>1. m = p * d /\ p \in Nat
    BY <1>4, Z3
  <2> HIDE DEF p
  <2>2. q > p => (p * d) + d <= q * d
    BY <1>2, <2>1, Z3
  <2>3. q <= p => q * d <= p * d
    BY <1>2, <2>1, Z3
  <2> QED
    BY <1>2, <1>3, <1>4, <2>1, <2>2, <2>3
<1> QED
  BY <1>1, <1>2, <1>3, <1>4

\* What is not less is at least as much.
LEMMA AtLeast ==
  ASSUME NEW n \in Nat, NEW m \in Nat, ~(n < m)
  PROVE  m <= n
OBVIOUS

\* Of numbers there is a least one.
LEMMA LeastOne ==
  ASSUME NEW S, S \subseteq Nat, S # {}
  PROVE  \E m \in S : \A n \in S : m <= n
<1>1. PICK m \in S : \A n \in S : ~(<<n, m>> \in OpToRel(<, Nat))
  BY NatLessThanWellFounded, WFMin, Zenon
<1>2. \A n \in S : m <= n
  <2> SUFFICES ASSUME NEW n \in S PROVE m <= n
    OBVIOUS
  <2>1. <<n, m>> \notin {ss \in Nat \X Nat : ss[1] < ss[2]}
    BY <1>1 DEF OpToRel
  <2>2. n \in Nat /\ m \in Nat
    OBVIOUS
  <2>3. <<n, m>> \in Nat \X Nat /\ <<n, m>>[1] = n /\ <<n, m>>[2] = m
    BY <2>2, SMT
  <2>4. ~(n < m)
    <3> SUFFICES ASSUME n < m PROVE FALSE
      OBVIOUS
    <3>1. <<n, m>>[1] < <<n, m>>[2]
      BY <2>3, Zenon
    <3> QED
      BY <2>1, <2>3, <3>1, Zenon
  <2> QED
    BY <2>2, <2>4, AtLeast, Zenon
<1> QED
  BY <1>2, Zenon

-----------------------------------------------------------------------------
(* The checksum *)

Word == 65536
Words == {n \in Nat : n < Word}

\* The sum wraps at most once.
LEMMA Wraps ==
  ASSUME NEW z \in Nat, z < Word + Word
  PROVE  /\ z % Word \in Words
         /\ z % Word = z \/ z % Word = z - Word
<1>1. z % Word \in Words
  BY Z3 DEF Word, Words
<1>2. CASE z < Word
  <2>1. z % Word = z
    BY <1>2, Z3 DEF Word
  <2> QED
    BY <1>1, <2>1, Zenon
<1>3. CASE ~(z < Word)
  <2>1. z % Word = z - Word
    BY <1>3, Z3 DEF Word
  <2> QED
    BY <1>1, <2>1, Zenon
<1> QED
  BY <1>2, <1>3, Zenon

\* A byte added to the checksum: it is the sum, or a word less.
LEMMA PlusIs ==
  ASSUME NEW x \in Words, NEW y \in Bytes
  PROVE  /\ Plus(x, y) \in Words
         /\ Plus(x, y) = x + y \/ Plus(x, y) = x + y - Word
<1>1. x + y \in Nat /\ x + y < Word + Word
  BY DEF Word, Words, Bytes
<1> DEFINE z == x + y
<1>2. Plus(x, y) = z % Word
  BY DEF Plus, Word
<1>3. z \in Nat /\ z < Word + Word
  BY <1>1
<1>4. z = x + y
  OBVIOUS
<1> HIDE DEF z
<1>5. z % Word \in Words /\ (z % Word = z \/ z % Word = z - Word)
  BY <1>3, Wraps, Zenon
<1>6. Plus(x, y) \in Words /\ (Plus(x, y) = z \/ Plus(x, y) = z - Word)
  BY <1>2, <1>5, Zenon
<1> QED
  BY <1>3, <1>4, <1>6 DEF Word, Words, Bytes

\* f is the checksum of the first bytes of p, for each number of bytes up to n.
Sums(f, p, n) ==
  /\ f \in [0..n -> Words]
  /\ f[0] = 0
  /\ \A k \in 1..n : f[k] = Plus(f[k - 1], p[k - 1])

Summed(p, n) == \E f : Sums(f, p, n)

\* There is such a function.
LEMMA SumsExist ==
  ASSUME NEW size \in Nat, NEW p, \A k \in 0..size - 1 : p[k] \in Bytes
  PROVE  \A n \in 0..size : Summed(p, n)
<1> DEFINE bad == {n \in 0..size : ~Summed(p, n)}
<1> SUFFICES ASSUME bad # {} PROVE FALSE
  OBVIOUS
<1>0. bad \subseteq Nat
  OBVIOUS
<1>1. PICK n \in bad : \A k \in bad : n <= k
  BY <1>0, LeastOne
<1>2. n \in 0..size /\ ~Summed(p, n)
  BY <1>1
<1>3. n # 0
  <2> SUFFICES ASSUME n = 0 PROVE FALSE
    OBVIOUS
  <2> DEFINE f == [k \in 0..0 |-> 0]
  <2>1. f \in [0..0 -> Words] /\ f[0] = 0
    BY DEF Words, Word
  <2>2. 1..0 = {}
    OBVIOUS
  <2> HIDE DEF f
  <2>3. Sums(f, p, 0)
    BY <2>1, <2>2, Zenon DEF Sums
  <2> QED
    BY <1>2, <2>3, Zenon DEF Summed
<1>4. n - 1 \in 0..size /\ Summed(p, n - 1)
  <2>1. n - 1 \in 0..size /\ ~(n <= n - 1)
    BY <1>2, <1>3
  <2> QED
    BY <1>1, <2>1
<1> HIDE DEF bad
<1>5. PICK f : Sums(f, p, n - 1)
  BY <1>4, Zenon DEF Summed
<1> DEFINE g == [k \in 0..n |-> IF k = n THEN Plus(f[n - 1], p[n - 1]) ELSE f[k]]
<1>6. f[n - 1] \in Words /\ p[n - 1] \in Bytes /\ f \in [0..n - 1 -> Words]
  BY <1>2, <1>3, <1>5 DEF Sums
<1>7. Plus(f[n - 1], p[n - 1]) \in Words
  BY <1>6, PlusIs
<1>8. g \in [0..n -> Words]
  <2> SUFFICES ASSUME NEW k \in 0..n PROVE g[k] \in Words
    OBVIOUS
  <2>1. CASE k = n
    BY <1>7, <2>1
  <2>2. CASE k # n
    <3>1. k \in 0..n - 1
      BY <1>2, <2>2
    <3> QED
      BY <1>6, <2>2, <3>1
  <2> QED
    BY <2>1, <2>2
<1>9. Sums(g, p, n)
  <2>1. g[0] = 0
    BY <1>2, <1>3, <1>5 DEF Sums
  <2>2. ASSUME NEW k \in 1..n PROVE g[k] = Plus(g[k - 1], p[k - 1])
    <3>1. k - 1 \in 0..n /\ k - 1 # n /\ k \in 0..n /\ g[k - 1] = f[k - 1]
      BY <1>2
    <3>2. CASE k = n
      BY <3>1, <3>2
    <3>3. CASE k # n
      <4>1. k \in 1..n - 1 /\ g[k] = f[k]
        BY <1>2, <3>1, <3>3
      <4>2. f[k] = Plus(f[k - 1], p[k - 1])
        BY <1>5, <4>1 DEF Sums
      <4> QED
        BY <3>1, <4>1, <4>2
    <3> QED
      BY <3>2, <3>3
  <2> HIDE DEF g
  <2> QED
    BY <1>8, <2>1, <2>2, Zenon DEF Sums
<1> HIDE DEF g
<1> QED
  BY <1>2, <1>9, Zenon DEF Summed

\* do_checksum is its last value.
LEMMA ChecksumIs ==
  ASSUME NEW m, NEW N \in Nat, m.program_size \in 0..N, m.program \in [0..N - 1 -> Bytes]
  PROVE  \E f : Sums(f, m.program, m.program_size) /\ do_checksum(m) = f[m.program_size]
<1> DEFINE size == m.program_size  p == m.program
           Step(g) == [n \in 0..size |-> IF n = 0 THEN 0 ELSE Plus(g[n - 1], p[n - 1])]
           sum == CHOOSE g : g = Step(g)
<1>1. do_checksum(m) = sum[size]
  BY Zenon DEF do_checksum
<1>20. size \in 0..N /\ p \in [0..N - 1 -> Bytes]
  OBVIOUS
<1> HIDE DEF size, p
<1>2. size \in Nat /\ \A n \in 0..size - 1 : p[n] \in Bytes
  <2>1. size \in Nat /\ \A n \in 0..size - 1 : n \in 0..N - 1
    BY <1>20
  <2> QED
    BY <1>20, <2>1, Zenon
<1>3. size \in 0..size
  BY <1>2
<1>4. Summed(p, size)
  BY <1>2, <1>3, SumsExist
<1>5. PICK f : Sums(f, p, size)
  BY <1>4, Zenon DEF Summed
<1>6. f = Step(f)
  <2>1. f = [n \in 0..size |-> f[n]]
    BY <1>5, Zenon DEF Sums
  <2>2. \A n \in 0..size : f[n] = IF n = 0 THEN 0 ELSE Plus(f[n - 1], p[n - 1])
    BY <1>2, <1>5 DEF Sums
  <2> QED
    BY <2>1, <2>2, Zenon
<1>7. sum = Step(sum)
  BY <1>6, Zenon
<1> HIDE DEF sum
<1>8. Sums(sum, p, size)
  <2>1. DOMAIN sum = 0..size /\ \A n \in 0..size :
           sum[n] = IF n = 0 THEN 0 ELSE Plus(sum[n - 1], p[n - 1])
    BY <1>7, Zenon
  <2>2. \A n \in 0..size : sum[n] = f[n]
    <3> DEFINE bad == {n \in 0..size : sum[n] # f[n]}
    <3> SUFFICES ASSUME bad # {} PROVE FALSE
      BY Zenon
    <3>1. bad \subseteq Nat
      BY <1>2
    <3>2. PICK n \in bad : \A k \in bad : n <= k
      BY <3>1, LeastOne
    <3>3. n \in 0..size /\ sum[n] # f[n]
      BY <3>2
    <3>4. n # 0
      BY <1>2, <1>5, <2>1, <3>3 DEF Sums
    <3>5. n - 1 \in 0..size /\ n - 1 \notin bad
      BY <1>2, <3>2, <3>3, <3>4
    <3>6. sum[n - 1] = f[n - 1]
      BY <3>5
    <3>7. f[n] = Plus(f[n - 1], p[n - 1])
      BY <1>2, <1>5, <3>3, <3>4 DEF Sums
    <3> QED
      BY <2>1, <3>3, <3>4, <3>6, <3>7
  <2>3. sum = f
    <3>1. DOMAIN f = 0..size
      BY <1>5, Zenon DEF Sums
    <3>2. sum = [n \in 0..size |-> sum[n]]
      BY <1>7, <2>1, Zenon
    <3>3. f = [n \in 0..size |-> f[n]]
      BY <1>5, Zenon DEF Sums
    <3> QED
      BY <2>2, <3>2, <3>3, Zenon
  <2> QED
    BY <1>5, <2>3
<1> QED
  BY <1>1, <1>8 DEF size, p

Raised(x, d) == (x + d) % 256

\* A byte that is off by d wraps at most once.
LEMMA ByteWraps ==
  ASSUME NEW x \in Bytes, NEW d \in 1..255
  PROVE  Raised(x, d) \in Bytes /\ Raised(x, d) - x \in {d, d - 256}
<1> DEFINE z == x + d
<1>1. z \in 0..511 /\ z - x = d
  BY DEF Bytes
<1> HIDE DEF z
<1>2. CASE z < 256
  <2>1. z % 256 = z
    BY <1>1, <1>2
  <2> QED
    BY <1>1, <1>2, <2>1 DEF z, Bytes, Raised
<1>3. CASE z >= 256
  <2>1. z % 256 = z - 256
    BY <1>1, <1>3
  <2> QED
    BY <1>1, <1>3, <2>1 DEF z, Bytes, Raised
<1> QED
  BY <1>1, <1>2, <1>3

\* q is p with one byte that is d more, modulo 256.
Changes(p, q, n, a, d) ==
  /\ \A k \in 0..n - 1 : p[k] \in Bytes
  /\ \A k \in 0..n - 1 : q[k] = IF k = a THEN Raised(p[k], d) ELSE p[k]

\* Such a byte changes the checksum.
LEMMA ChangedSum ==
  ASSUME NEW size \in Nat, NEW p, NEW q, NEW f, NEW g, NEW a \in 0..size - 1,
         NEW d \in 1..255, Changes(p, q, size, a, d),
         Sums(f, p, size), Sums(g, q, size)
  PROVE  f[size] # g[size]
<1> DEFINE Off(n) == IF n <= a THEN g[n] = f[n]
                     ELSE g[n] - f[n] \in {d, d - 65536, d - 256, d + 65280}
           bad == {n \in 0..size : ~Off(n)}
<1>1. bad = {}
  <2> SUFFICES ASSUME bad # {} PROVE FALSE
    OBVIOUS
  <2>0. bad \subseteq Nat
    OBVIOUS
  <2> HIDE DEF bad
  <2>1. PICK n \in bad : \A k \in bad : n <= k
    BY <2>0, LeastOne
  <2>2. n \in 0..size /\ ~Off(n)
    BY <2>1 DEF bad
  <2>3. n # 0
    <3>1. f[0] = 0 /\ g[0] = 0
      BY Zenon DEF Sums
    <3> QED
      BY <2>2, <3>1
  <2>4. n - 1 \in 0..size /\ n - 1 \in 0..size - 1 /\ n \in 1..size /\ n - 1 \notin bad
    BY <2>1, <2>2, <2>3
  <2>5. Off(n - 1)
    BY <2>4 DEF bad
  <2>6. f[n] = Plus(f[n - 1], p[n - 1]) /\ g[n] = Plus(g[n - 1], q[n - 1])
    BY <2>4 DEF Sums
  <2>7. f[n - 1] \in Words /\ g[n - 1] \in Words /\ p[n - 1] \in Bytes
        /\ q[n - 1] = IF n - 1 = a THEN Raised(p[n - 1], d) ELSE p[n - 1]
    BY <2>4 DEF Sums, Changes
  <2> DEFINE x == f[n - 1]  y == g[n - 1]  b == p[n - 1]  c == q[n - 1]
  <2>8. x \in Words /\ y \in Words /\ b \in Bytes /\ c \in Bytes
        /\ (n - 1 # a => c = b) /\ (n - 1 = a => c - b \in {d, d - 256})
    <3>1. CASE n - 1 # a
      BY <2>7, <3>1
    <3>2. CASE n - 1 = a
      <4>1. c = Raised(b, d) /\ b \in Bytes
        BY <2>7, <3>2
      <4> HIDE DEF b, c
      <4>2. c \in Bytes /\ c - b \in {d, d - 256}
        BY <4>1, ByteWraps
      <4> QED
        BY <2>7, <3>2, <4>2 DEF b
    <3> QED
      BY <3>1, <3>2
  <2>9. f[n] = Plus(x, b) /\ g[n] = Plus(y, c)
    BY <2>6
  <2>10. IF n - 1 <= a THEN y = x ELSE y - x \in {d, d - 65536, d - 256, d + 65280}
    BY <2>5
  <2> HIDE DEF x, y, b, c
  <2>11. f[n] \in Words /\ (f[n] = x + b \/ f[n] = x + b - Word)
    BY <2>8, <2>9, PlusIs
  <2>12. g[n] \in Words /\ (g[n] = y + c \/ g[n] = y + c - Word)
    BY <2>8, <2>9, PlusIs
  <2> QED
    BY <2>2, <2>4, <2>8, <2>10, <2>11, <2>12 DEF Words, Word, Bytes
<1>2. Off(size) /\ ~(size <= a)
  BY <1>1
<1>3. f[size] \in Words /\ g[size] \in Words
  BY DEF Sums
<1> QED
  BY <1>2, <1>3 DEF Words, Word

\* Of the same bytes it is the same.
LEMMA SameSum ==
  ASSUME NEW size \in Nat, NEW p, NEW q, NEW f, NEW g,
         \A n \in 0..size - 1 : q[n] = p[n],
         Sums(f, p, size), Sums(g, q, size)
  PROVE  f[size] = g[size]
<1> DEFINE bad == {n \in 0..size : g[n] # f[n]}
<1>1. bad = {}
  <2> SUFFICES ASSUME bad # {} PROVE FALSE
    OBVIOUS
  <2>0. bad \subseteq Nat
    OBVIOUS
  <2> HIDE DEF bad
  <2>1. PICK n \in bad : \A k \in bad : n <= k
    BY <2>0, LeastOne
  <2>2. n \in 0..size /\ g[n] # f[n]
    BY <2>1 DEF bad
  <2>3. n # 0
    <3>1. f[0] = 0 /\ g[0] = 0
      BY Zenon DEF Sums
    <3> QED
      BY <2>2, <3>1
  <2>4. n - 1 \in 0..size /\ n - 1 \in 0..size - 1 /\ n \in 1..size /\ n - 1 \notin bad
    BY <2>1, <2>2, <2>3
  <2>5. g[n - 1] = f[n - 1] /\ q[n - 1] = p[n - 1]
    BY <2>4 DEF bad
  <2>6. f[n] = Plus(f[n - 1], p[n - 1]) /\ g[n] = Plus(g[n - 1], q[n - 1])
    BY <2>4 DEF Sums
  <2> QED
    BY <2>2, <2>5, <2>6
<1> QED
  BY <1>1

-----------------------------------------------------------------------------
(* Programs in memory *)

Memory == [program : [0..PROGRAM_SIZE - 1 -> Bytes], program_size : 0..PROGRAM_SIZE,
           security : [0..SECURITY_SIZE - 1 -> Nat], security_size : 0..SECURITY_SIZE]

\* The checksum is one of the bytes that belong to the program.
LEMMA SameChecksum ==
  ASSUME NEW m \in Memory, NEW w \in Memory, w.program_size = m.program_size,
         \A a \in 0..m.program_size - 1 : w.program[a] = m.program[a]
  PROVE  do_checksum(w) = do_checksum(m)
<1>1. PROGRAM_SIZE \in Nat
  BY HexAssumption
<1>2. /\ m.program_size \in 0..PROGRAM_SIZE /\ m.program \in [0..PROGRAM_SIZE - 1 -> Bytes]
      /\ w.program_size \in 0..PROGRAM_SIZE /\ w.program \in [0..PROGRAM_SIZE - 1 -> Bytes]
      /\ m.program_size \in Nat
  BY <1>1 DEF Memory
<1>3. PICK f : Sums(f, m.program, m.program_size) /\ do_checksum(m) = f[m.program_size]
  BY <1>1, <1>2, ChecksumIs, Zenon
<1>4. PICK g : Sums(g, w.program, w.program_size) /\ do_checksum(w) = g[w.program_size]
  BY <1>1, <1>2, ChecksumIs, Zenon
<1>5. Sums(g, w.program, m.program_size) /\ do_checksum(w) = g[m.program_size]
  BY <1>4, Zenon
<1>6. f[m.program_size] = g[m.program_size]
  BY <1>2, <1>3, <1>5, SameSum
<1> QED
  BY <1>3, <1>5, <1>6, Zenon

OneChanged(m, a, d) == [m EXCEPT !.program[a] = (@ + d) % 256]

\* The checksum tells a program from one in which a byte changed.
LEMMA ChangedChecksum ==
  ASSUME NEW m \in Memory, NEW a \in 0..m.program_size - 1, NEW d \in 1..255
  PROVE  LET w == OneChanged(m, a, d)
         IN  w \in Memory /\ do_checksum(w) # do_checksum(m)
<1> DEFINE w == [m EXCEPT !.program[a] = (@ + d) % 256]
<1>1. PROGRAM_SIZE \in Nat
  BY HexAssumption
<1>2. /\ m.program_size \in 0..PROGRAM_SIZE /\ m.program \in [0..PROGRAM_SIZE - 1 -> Bytes]
      /\ m.program_size \in Nat /\ a \in 0..PROGRAM_SIZE - 1
  BY <1>1 DEF Memory
<1>3. \A b \in Bytes : (b + d) % 256 \in Bytes
  BY DEF Bytes
<1>4. w.program = [m.program EXCEPT ![a] = (@ + d) % 256]
  BY DEF Memory
<1>5. w.program_size = m.program_size
  BY DEF Memory
<1>6. w.program \in [0..PROGRAM_SIZE - 1 -> Bytes]
  <2> DEFINE b == (m.program[a] + d) % 256
  <2>1. b \in Bytes
    BY <1>2, <1>3
  <2>2. w.program = [m.program EXCEPT ![a] = b]
    BY <1>4
  <2> HIDE DEF b, w
  <2> QED
    BY <1>2, <2>1, <2>2
<1>7. w \in Memory
  BY <1>6 DEF Memory
<1>8. \A n \in 0..m.program_size - 1 :
         w.program[n] = IF n = a THEN Raised(m.program[n], d) ELSE m.program[n]
  BY <1>1, <1>2, <1>4 DEF Raised
<1> HIDE DEF w
<1>9. PICK f : Sums(f, m.program, m.program_size) /\ do_checksum(m) = f[m.program_size]
  BY <1>1, <1>2, ChecksumIs, Zenon
<1>10. PICK g : Sums(g, w.program, w.program_size) /\ do_checksum(w) = g[w.program_size]
  BY <1>1, <1>2, <1>5, <1>6, ChecksumIs, Zenon
<1>11. Sums(g, w.program, m.program_size) /\ do_checksum(w) = g[m.program_size]
  BY <1>5, <1>10, Zenon
<1>12. \A n \in 0..m.program_size - 1 : m.program[n] \in Bytes
  BY <1>1, <1>2
<1>13. Changes(m.program, w.program, m.program_size, a, d)
  BY <1>8, <1>12, Zenon DEF Changes
<1>14. f[m.program_size] # g[m.program_size]
  BY <1>2, <1>9, <1>11, <1>13, ChangedSum, Zenon
<1>15. w \in Memory /\ do_checksum(w) # do_checksum(m)
  BY <1>7, <1>9, <1>11, <1>14, Zenon
<1> QED
  BY <1>15 DEF w, OneChanged

TwoBytes(sum) == (256 * (sum \div 256)) + (sum % 256) = sum

\* The two bytes of a checksum are it.
LEMMA ChecksumBytes ==
  ASSUME NEW m \in Memory
  PROVE  TwoBytes(do_checksum(m))
<1>1. PROGRAM_SIZE \in Nat
  BY HexAssumption
<1>2. /\ m.program_size \in 0..PROGRAM_SIZE /\ m.program \in [0..PROGRAM_SIZE - 1 -> Bytes]
      /\ m.program_size \in Nat
  BY <1>1 DEF Memory
<1>3. PICK f : Sums(f, m.program, m.program_size) /\ do_checksum(m) = f[m.program_size]
  BY <1>1, <1>2, ChecksumIs, Zenon
<1>4. m.program_size \in 0..m.program_size
  BY <1>2
<1>5. f[m.program_size] \in Words
  BY <1>3, <1>4, Zenon DEF Sums
<1>6. \A x \in Nat : (256 * (x \div 256)) + (x % 256) = x
  BY Z3
<1>7. do_checksum(m) \in Nat
  BY <1>3, <1>5 DEF Words
<1> QED
  BY <1>6, <1>7, Zenon DEF TwoBytes

-----------------------------------------------------------------------------
(* Modes *)

\* A number and the four modes it is made of.
LEMMA FourModes ==
  ASSUME NEW a \in 0..3, NEW b \in 0..3, NEW c \in 0..3, NEW d \in 0..3, NEW x,
         x = a + (4 * b) + (16 * c) + (64 * d)
  PROVE  /\ (x \div 1) % 4 = a
         /\ (x \div 4) % 4 = b
         /\ (x \div 16) % 4 = c
         /\ (x \div 64) % 4 = d
<1>1. x \in Nat
  OBVIOUS
<1>2. x \div 1 = x /\ x % 4 = a
  BY <1>1, Z3
<1>3. x \div 4 = b + (4 * c) + (16 * d)
  BY <1>1, Z3
<1>4. (b + (4 * c) + (16 * d)) % 4 = b
  BY Z3
<1>5. x \div 16 = c + (4 * d)
  BY <1>1, Z3
<1>6. (c + (4 * d)) % 4 = c
  BY Z3
<1>7. x \div 64 = d /\ d % 4 = d
  BY <1>1, Z3
<1> QED
  BY <1>2, <1>3, <1>4, <1>5, <1>6, <1>7

\* A block is one of the four of a byte.
LEMMA FourBlocks ==
  ASSUME NEW b \in Nat
  PROVE  \E i \in Nat, k \in 0..3 :
           b = (4 * i) + k /\ b \div 4 = i /\ b % 4 = k
<1>1. b \div 4 \in Nat /\ b % 4 \in 0..3 /\ b = (4 * (b \div 4)) + (b % 4)
  BY Z3
<1> QED
  BY <1>1

\* Blocks 4i to 4i + 3 are in byte i.
LEMMA ByteOfBlock ==
  ASSUME NEW i \in Nat, NEW k \in 0..3
  PROVE  ((4 * i) + k) \div 4 = i /\ ((4 * i) + k) % 4 = k
BY Z3

\* Bytes s hold the modes D.
BlockNumbers == 0..(4 * SECURITY_SIZE) - 1
Holds(s, D) ==
  /\ s \in [0..SECURITY_SIZE - 1 -> Nat]
  /\ D \in [BlockNumbers -> 0..3]
  /\ \A i \in 0..SECURITY_SIZE - 1 :
       s[i] = D[4 * i] + (4 * D[(4 * i) + 1]) + (16 * D[(4 * i) + 2]) + (64 * D[(4 * i) + 3])

\* Which is what is read from them.
LEMMA HeldMode ==
  ASSUME NEW s, NEW D, Holds(s, D), NEW b \in BlockNumbers
  PROVE  ModeIn(s, b) = D[b]
<1>0. SECURITY_SIZE \in Nat
  BY HexAssumption
<1>1. PICK i \in Nat, k \in 0..3 : b = (4 * i) + k /\ b \div 4 = i /\ b % 4 = k
  BY <1>0, FourBlocks DEF BlockNumbers
<1>2. i \in 0..SECURITY_SIZE - 1
  BY <1>0, <1>1 DEF BlockNumbers
<1>3. {4 * i, (4 * i) + 1, (4 * i) + 2, (4 * i) + 3} \subseteq BlockNumbers
  BY <1>0, <1>2 DEF BlockNumbers
<1> DEFINE x == s[i]  d0 == D[4 * i]  d1 == D[(4 * i) + 1]
           d2 == D[(4 * i) + 2]  d3 == D[(4 * i) + 3]
<1>4. d0 \in 0..3 /\ d1 \in 0..3 /\ d2 \in 0..3 /\ d3 \in 0..3
  BY <1>3 DEF Holds
<1>5. x = d0 + (4 * d1) + (16 * d2) + (64 * d3)
  BY <1>2 DEF Holds
<1>6. ModeIn(s, b) = (x \div Pow4(k)) % 4
  BY <1>1 DEF ModeIn
<1>7. D[b] = CASE k = 0 -> d0 [] k = 1 -> d1 [] k = 2 -> d2 [] k = 3 -> d3
  BY <1>1
<1> HIDE DEF x, d0, d1, d2, d3
<1>8. /\ (x \div 1) % 4 = d0 /\ (x \div 4) % 4 = d1
      /\ (x \div 16) % 4 = d2 /\ (x \div 64) % 4 = d3
  BY <1>4, <1>5, FourModes
<1>9. Pow4(k) = CASE k = 0 -> 1 [] k = 1 -> 4 [] k = 2 -> 16 [] k = 3 -> 64
  BY DEF Pow4
<1> QED
  BY <1>6, <1>7, <1>8, <1>9

\* set_security adds one to bytes that do not hold it yet.
LEMMA SetMode ==
  ASSUME NEW s, NEW D, Holds(s, D), NEW b \in BlockNumbers, D[b] = 0, NEW n \in 0..3
  PROVE  Holds(set_security(s, b, n), [D EXCEPT ![b] = n])
<1>0. SECURITY_SIZE \in Nat
  BY HexAssumption
<1>1. PICK i \in Nat, k \in 0..3 : b = (4 * i) + k /\ b \div 4 = i /\ b % 4 = k
  BY <1>0, FourBlocks DEF BlockNumbers
<1>2. i \in 0..SECURITY_SIZE - 1
  BY <1>0, <1>1 DEF BlockNumbers
<1> DEFINE t == set_security(s, b, n)  E == [D EXCEPT ![b] = n]
           new == s[i] + (n * Pow4(k))
<1>3. t = [s EXCEPT ![i] = new]
  BY <1>1 DEF set_security
<1>4. new \in Nat
  <2>1. s[i] \in Nat
    BY <1>2 DEF Holds
  <2>2. Pow4(k) \in Nat
    BY DEF Pow4
  <2>3. n * Pow4(k) \in Nat
    BY <2>2
  <2> QED
    BY <2>1, <2>3
<1>5. t \in [0..SECURITY_SIZE - 1 -> Nat] /\ t[i] = new
      /\ \A j \in 0..SECURITY_SIZE - 1 : j # i => t[j] = s[j]
  <2> HIDE DEF new, t
  <2> QED
    BY <1>2, <1>3, <1>4 DEF Holds
<1>6. E \in [BlockNumbers -> 0..3] /\ E[b] = n /\ \A c \in BlockNumbers : c # b => E[c] = D[c]
  BY DEF Holds
<1>7. \A j \in 0..SECURITY_SIZE - 1 :
        {4 * j, (4 * j) + 1, (4 * j) + 2, (4 * j) + 3} \subseteq BlockNumbers
  BY <1>0 DEF BlockNumbers
<1>8. ASSUME NEW j \in 0..SECURITY_SIZE - 1
      PROVE  t[j] = E[4 * j] + (4 * E[(4 * j) + 1]) + (16 * E[(4 * j) + 2]) + (64 * E[(4 * j) + 3])
  <2> DEFINE c0 == 4 * j  c1 == (4 * j) + 1  c2 == (4 * j) + 2  c3 == (4 * j) + 3
  <2>1. s[j] = D[c0] + (4 * D[c1]) + (16 * D[c2]) + (64 * D[c3])
    BY DEF Holds
  <2>2. {c0, c1, c2, c3} \subseteq BlockNumbers
    BY <1>7
  <2>3. D[c0] \in 0..3 /\ D[c1] \in 0..3 /\ D[c2] \in 0..3 /\ D[c3] \in 0..3
    BY <2>2 DEF Holds
  <2>4. CASE j # i
    <3>1. c0 # b /\ c1 # b /\ c2 # b /\ c3 # b
      BY <1>1, <1>2, <2>4
    <3>2. E[c0] = D[c0] /\ E[c1] = D[c1] /\ E[c2] = D[c2] /\ E[c3] = D[c3]
      BY <1>6, <2>2, <3>1
    <3>3. t[j] = s[j]
      BY <1>5, <2>4
    <3> QED
      BY <2>1, <3>2, <3>3
  <2>5. CASE j = i
    <3>1. /\ (k = 0 => c0 = b /\ c1 # b /\ c2 # b /\ c3 # b)
          /\ (k = 1 => c0 # b /\ c1 = b /\ c2 # b /\ c3 # b)
          /\ (k = 2 => c0 # b /\ c1 # b /\ c2 = b /\ c3 # b)
          /\ (k = 3 => c0 # b /\ c1 # b /\ c2 # b /\ c3 = b)
      BY <1>1, <2>5
    <3>2. t[j] = s[j] + (n * Pow4(k))
      BY <1>5, <2>5
    <3>3. Pow4(k) = CASE k = 0 -> 1 [] k = 1 -> 4 [] k = 2 -> 16 [] k = 3 -> 64
      BY DEF Pow4
    <3> HIDE DEF t, E, new, c0, c1, c2, c3
    <3>4. CASE k = 0
      <4>1. E[c0] = n /\ D[c0] = 0 /\ E[c1] = D[c1] /\ E[c2] = D[c2] /\ E[c3] = D[c3]
        BY <1>6, <2>2, <3>1, <3>4
      <4> QED
        BY <2>1, <2>3, <3>2, <3>3, <3>4, <4>1 DEF c0, c1, c2, c3
    <3>5. CASE k = 1
      <4>1. E[c1] = n /\ D[c1] = 0 /\ E[c0] = D[c0] /\ E[c2] = D[c2] /\ E[c3] = D[c3]
        BY <1>6, <2>2, <3>1, <3>5
      <4> QED
        BY <2>1, <2>3, <3>2, <3>3, <3>5, <4>1 DEF c0, c1, c2, c3
    <3>6. CASE k = 2
      <4>1. E[c2] = n /\ D[c2] = 0 /\ E[c0] = D[c0] /\ E[c1] = D[c1] /\ E[c3] = D[c3]
        BY <1>6, <2>2, <3>1, <3>6
      <4> QED
        BY <2>1, <2>3, <3>2, <3>3, <3>6, <4>1 DEF c0, c1, c2, c3
    <3>7. CASE k = 3
      <4>1. E[c3] = n /\ D[c3] = 0 /\ E[c0] = D[c0] /\ E[c1] = D[c1] /\ E[c2] = D[c2]
        BY <1>6, <2>2, <3>1, <3>7
      <4> QED
        BY <2>1, <2>3, <3>2, <3>3, <3>7, <4>1 DEF c0, c1, c2, c3
    <3> QED
      BY <3>4, <3>5, <3>6, <3>7
  <2> QED
    BY <2>4, <2>5
<1> HIDE DEF t, E
<1>9. Holds(t, E)
  BY <1>5, <1>6, <1>8 DEF Holds
<1> QED
  BY <1>9 DEF t, E

-----------------------------------------------------------------------------
(* Padding *)

Carries(m) ==
  /\ \A b \in 0..(4 * m.security_size) - 1 : ModeIn(m.security, b) = Given(b)
  /\ Len(modes) <= 4 * m.security_size
ZeroTail(m) == \A i \in m.security_size..SECURITY_SIZE - 1 : m.security[i] = 0
Few == modes \in Seq(0..3) /\ Len(modes) <= 4 * SECURITY_SIZE
AnyStrong == \E k \in DOMAIN modes : modes[k] > 1

\* What read_security has noted so far.
Noted == [b \in BlockNumbers |-> IF b < Len(modes) THEN modes[b + 1] ELSE 0]

\* What it has noted when blocks before n are padded.
Padded(n, full, p) ==
  [b \in BlockNumbers |-> IF b < Len(modes) THEN modes[b + 1]
                    ELSE IF b < n /\ b < full THEN p ELSE 0]

\* One more block of the last byte.
LEMMA PadBlock ==
  ASSUME Few, NEW s, NEW n \in Nat, Len(modes) <= n, NEW full \in Nat, full <= 4 * SECURITY_SIZE,
         NEW p \in 0..3, Holds(s, Padded(n, full, p))
  PROVE  Holds(IF n < full THEN set_security(s, n, p) ELSE s, Padded(n + 1, full, p))
<1>0. SECURITY_SIZE \in Nat /\ Len(modes) \in Nat
  BY HexAssumption DEF Few
<1>1. CASE n < full
  <2>1. n \in BlockNumbers /\ Padded(n, full, p)[n] = 0
    BY <1>0, <1>1 DEF BlockNumbers, Padded
  <2>2. [Padded(n, full, p) EXCEPT ![n] = p] = Padded(n + 1, full, p)
    <3> DEFINE P == Padded(n, full, p)  Q == Padded(n + 1, full, p)
    <3>1. P = [b \in BlockNumbers |-> P[b]] /\ Q = [b \in BlockNumbers |-> Q[b]]
      BY Zenon DEF Padded
    <3>2. ASSUME NEW b \in BlockNumbers
          PROVE  Q[b] = IF b = n THEN p ELSE P[b]
      <4>1. b \in Nat
        BY <1>0 DEF BlockNumbers
      <4> QED
        BY <1>0, <1>1, <4>1 DEF Padded
    <3> HIDE DEF P, Q
    <3>3. [P EXCEPT ![n] = p] = [b \in BlockNumbers |-> IF b = n THEN p ELSE P[b]]
      BY <2>1, <3>1
    <3>4. Q = [b \in BlockNumbers |-> IF b = n THEN p ELSE P[b]]
      BY <3>1, <3>2
    <3> QED
      BY <3>3, <3>4, Zenon DEF P, Q
  <2>3. Holds(set_security(s, n, p), [Padded(n, full, p) EXCEPT ![n] = p])
    BY <2>1, SetMode
  <2> QED
    BY <1>1, <2>2, <2>3, Zenon
<1>2. CASE ~(n < full)
  <2>1. Padded(n, full, p) = Padded(n + 1, full, p)
    BY <1>0, <1>2 DEF BlockNumbers, Padded
  <2> QED
    BY <1>2, <2>1, Zenon
<1> QED
  BY <1>1, <1>2, Zenon

\* Four blocks are a byte.
LEMMA WholeBytes ==
  ASSUME NEW n \in Nat, NEW N \in Nat, n <= 4 * N
  PROVE  /\ RoundUp(n, 4) \in Nat /\ RoundUp(n, 4) \div 4 \in 0..N
         /\ RoundUp(n, 4) = 4 * (RoundUp(n, 4) \div 4)
         /\ n <= RoundUp(n, 4) /\ RoundUp(n, 4) <= n + 3
<1> DEFINE q == (n + 3) \div 4
<1>1. q \in Nat /\ 4 * q <= n + 3 /\ n + 3 < (4 * q) + 4
  BY Z3
<1>2. RoundUp(n, 4) = q * 4
  BY DEF RoundUp
<1> HIDE DEF q
<1>3. (q * 4) \div 4 = q
  BY <1>1, Z3
<1> QED
  BY <1>1, <1>2, <1>3

\* At the end of the file every byte is whole.
LEMMA FilledByte ==
  ASSUME Few, mem \in Memory, Holds(mem.security, Noted)
  PROVE  /\ FillByte \in Memory
         /\ FillByte.program = mem.program /\ FillByte.program_size = mem.program_size
         /\ Carries(FillByte) /\ ZeroTail(FillByte)
<1> DEFINE full == RoundUp(Len(modes), 4)
           p == IF AnyStrong THEN R ELSE U
           n == Len(modes)
           pad(bytes, b) == IF b < full THEN set_security(bytes, b, p) ELSE bytes
           s == pad(pad(pad(mem.security, n), n + 1), n + 2)
           D == Padded(n + 3, full, p)
<1>0. SECURITY_SIZE \in Nat /\ n \in Nat /\ n <= 4 * SECURITY_SIZE
  BY HexAssumption DEF Few
<1>1. FillByte = [mem EXCEPT !.security = s, !.security_size = full \div 4]
  BY DEF FillByte, NextBlock, AnyStrong
<1>2. /\ full \in Nat /\ full \div 4 \in 0..SECURITY_SIZE /\ full = 4 * (full \div 4)
      /\ n <= full /\ full <= n + 3
  BY <1>0, WholeBytes
<1>3. full <= 4 * SECURITY_SIZE /\ p \in 0..3
  BY <1>0, <1>2 DEF R, U
<1>4. Noted = Padded(n, full, p)
  BY <1>0, <1>2 DEF Noted, Padded, BlockNumbers
<1> HIDE DEF full, p
<1>5. Holds(s, D)
  <2> DEFINE s1 == pad(mem.security, n)  s2 == pad(s1, n + 1)
  <2>0. Holds(mem.security, Padded(n, full, p)) /\ n <= n
    BY <1>0, <1>4
  <2>1. Holds(s1, Padded(n + 1, full, p))
    BY <1>0, <1>2, <1>3, <2>0, PadBlock
  <2> HIDE DEF s1
  <2>2. Holds(s2, Padded((n + 1) + 1, full, p))
    <3>1. n + 1 \in Nat /\ n <= n + 1
      BY <1>0
    <3> QED
      BY <3>1, <1>2, <1>3, <2>1, PadBlock
  <2>3. (n + 1) + 1 = n + 2 /\ (n + 2) + 1 = n + 3
    BY <1>0
  <2>4. s = pad(s2, n + 2)
    BY DEF s1
  <2> HIDE DEF s2, s
  <2>5. Holds(pad(s2, n + 2), Padded((n + 2) + 1, full, p))
    <3>1. n + 2 \in Nat /\ n <= n + 2
      BY <1>0
    <3> QED
      BY <3>1, <1>2, <1>3, <2>2, <2>3, PadBlock
  <2> QED
    BY <2>3, <2>4, <2>5
<1>6. FillByte.security = s /\ FillByte.security_size = full \div 4
      /\ FillByte.program = mem.program /\ FillByte.program_size = mem.program_size
      /\ FillByte \in Memory
  <2>1. s \in [0..SECURITY_SIZE - 1 -> Nat]
    BY <1>5 DEF Holds
  <2> HIDE DEF s
  <2> QED
    BY <1>1, <1>2, <2>1 DEF Memory
<1>7. ASSUME NEW b \in 0..full - 1 PROVE ModeIn(s, b) = Given(b)
  <2>1. b \in BlockNumbers
    BY <1>0, <1>2, <1>3 DEF BlockNumbers
  <2>2. ModeIn(s, b) = D[b]
    BY <1>5, <2>1, HeldMode
  <2>3. D[b] = IF b < n THEN modes[b + 1] ELSE p
    BY <1>0, <1>2, <2>1 DEF Padded
  <2> QED
    BY <2>2, <2>3 DEF Given, AnyStrong, p
<1>8. ASSUME NEW i \in full \div 4..SECURITY_SIZE - 1 PROVE s[i] = 0
  <2>1. i \in 0..SECURITY_SIZE - 1
    BY <1>0, <1>2
  <2>2. s[i] = D[4 * i] + (4 * D[(4 * i) + 1]) + (16 * D[(4 * i) + 2]) + (64 * D[(4 * i) + 3])
    BY <1>5, <2>1 DEF Holds
  <2>3. \A b \in BlockNumbers : b >= full => D[b] = 0
    BY <1>0, <1>2 DEF Padded, BlockNumbers
  <2>4. \A k \in 0..3 : (4 * i) + k \in BlockNumbers /\ (4 * i) + k >= full
    BY <1>0, <1>2, <2>1 DEF BlockNumbers
  <2>5. D[4 * i] = 0 /\ D[(4 * i) + 1] = 0 /\ D[(4 * i) + 2] = 0 /\ D[(4 * i) + 3] = 0
    <3>1. /\ 4 * i \in BlockNumbers /\ 4 * i >= full
          /\ (4 * i) + 1 \in BlockNumbers /\ (4 * i) + 1 >= full
          /\ (4 * i) + 2 \in BlockNumbers /\ (4 * i) + 2 >= full
          /\ (4 * i) + 3 \in BlockNumbers /\ (4 * i) + 3 >= full
      BY <1>0, <1>2, <2>1 DEF BlockNumbers
    <3> HIDE DEF D
    <3> QED
      BY <2>3, <3>1
  <2> HIDE DEF s, D
  <2> QED
    BY <2>2, <2>5
<1> HIDE DEF s
<1>9. Carries(FillByte)
  BY <1>0, <1>2, <1>6, <1>7 DEF Carries
<1>10. ZeroTail(FillByte)
  BY <1>6, <1>8 DEF ZeroTail
<1> QED
  BY <1>6, <1>9, <1>10

\* A byte of padding is four times one mode.
LEMMA PaddingModes ==
  ASSUME NEW b \in Nat
  PROVE  (170 \div Pow4(b % 4)) % 4 = R /\ (0 \div Pow4(b % 4)) % 4 = U
<1>1. b % 4 \in 0..3
  BY Z3
<1>2. 170 = 2 + (4 * 2) + (16 * 2) + (64 * 2) /\ 0 = 0 + (4 * 0) + (16 * 0) + (64 * 0)
  OBVIOUS
<1>3. (170 \div 1) % 4 = 2 /\ (170 \div 4) % 4 = 2 /\ (170 \div 16) % 4 = 2 /\ (170 \div 64) % 4 = 2
  BY <1>2, FourModes
<1>4. (0 \div 1) % 4 = 0 /\ (0 \div 4) % 4 = 0 /\ (0 \div 16) % 4 = 0 /\ (0 \div 64) % 4 = 0
  BY <1>2, FourModes
<1> QED
  BY <1>1, <1>3, <1>4 DEF Pow4, R, U

\* What tells whether to pad with R.
LEMMA SameStrong ==
  ASSUME Few, NEW m \in Memory, Carries(m)
  PROVE  Strong(m) <=> AnyStrong
<1>0. m.security_size \in Nat /\ Len(modes) \in Nat
  BY HexAssumption DEF Memory, Few
<1>1. Strong(m) <=> \E b \in 0..(4 * m.security_size) - 1 : Given(b) > 1
  BY DEF Strong, Carries
<1>2. DOMAIN modes = 1..Len(modes) /\ Len(modes) <= 4 * m.security_size
  BY DEF Few, Carries
<1>3. ASSUME NEW k \in DOMAIN modes, modes[k] > 1
      PROVE  \E b \in 0..(4 * m.security_size) - 1 : Given(b) > 1
  <2>1. k - 1 \in 0..(4 * m.security_size) - 1 /\ k - 1 < Len(modes) /\ (k - 1) + 1 = k
    BY <1>0, <1>2
  <2>2. Given(k - 1) = modes[k]
    BY <2>1 DEF Given
  <2> QED
    BY <1>3, <2>1, <2>2
<1>4. ASSUME NEW b \in 0..(4 * m.security_size) - 1, Given(b) > 1
      PROVE  AnyStrong
  <2>1. CASE b < Len(modes)
    <3>1. b + 1 \in DOMAIN modes /\ modes[b + 1] > 1
      BY <1>0, <1>2, <1>4, <2>1 DEF Given
    <3> QED
      BY <3>1 DEF AnyStrong
  <2>2. CASE ~(b < Len(modes))
    BY <1>4, <2>2 DEF Given, AnyStrong, U
  <2> QED
    BY <2>1, <2>2
<1> QED
  BY <1>1, <1>3, <1>4 DEF AnyStrong

\* A byte of padding, or one that was there before.
LEMMA PaddedTo ==
  ASSUME NEW m \in Memory, NEW size \in m.security_size..SECURITY_SIZE
  PROVE  LET w == PadTo(m, size)
         IN  /\ w \in Memory /\ w.security_size = size
             /\ w.program = m.program /\ w.program_size = m.program_size
             /\ \A i \in 0..SECURITY_SIZE - 1 :
                  w.security[i] = IF i >= m.security_size /\ i < size
                                  THEN Padding(m) ELSE m.security[i]
<1>0. SECURITY_SIZE \in Nat /\ m.security_size \in Nat
  BY HexAssumption DEF Memory
<1>1. Padding(m) \in Nat
  BY DEF Padding
<1> DEFINE s == Fill(m.security, m.security_size, size, Padding(m))
<1>2. m.security \in [0..SECURITY_SIZE - 1 -> Nat]
  BY DEF Memory
<1>3. /\ s \in [0..SECURITY_SIZE - 1 -> Nat]
      /\ \A i \in 0..SECURITY_SIZE - 1 :
           s[i] = IF i >= m.security_size /\ i < size THEN Padding(m) ELSE m.security[i]
  BY <1>1, <1>2 DEF Fill
<1>4. PadTo(m, size) = [m EXCEPT !.security = s, !.security_size = size]
  BY DEF PadTo
<1>5. size \in 0..SECURITY_SIZE
  BY <1>0
<1> HIDE DEF s
<1> QED
  BY <1>3, <1>4, <1>5 DEF Memory

\* Padding gives the blocks behind the data what is meant for them.
LEMMA PaddingCarries ==
  ASSUME Few, NEW m \in Memory, Carries(m), NEW size \in m.security_size..SECURITY_SIZE
  PROVE  Carries(PadTo(m, size)) /\ (ZeroTail(m) => ZeroTail(PadTo(m, size)))
<1> DEFINE w == PadTo(m, size)
<1>0. SECURITY_SIZE \in Nat /\ m.security_size \in Nat /\ Len(modes) \in Nat /\ size \in Nat
  BY HexAssumption DEF Memory, Few
<1>1. /\ w.security_size = size
      /\ \A i \in 0..SECURITY_SIZE - 1 :
           w.security[i] = IF i >= m.security_size /\ i < size
                           THEN Padding(m) ELSE m.security[i]
  BY PaddedTo
<1> HIDE DEF w
<1>2. Len(modes) <= 4 * w.security_size
  BY <1>0, <1>1 DEF Carries
<1>3. ASSUME NEW b \in 0..(4 * size) - 1
      PROVE  ModeIn(w.security, b) = Given(b)
  <2>1. PICK i \in Nat, k \in 0..3 : b = (4 * i) + k /\ b \div 4 = i /\ b % 4 = k
    <3>1. b \in Nat
      BY <1>0
    <3> QED
      BY <3>1, FourBlocks, Zenon
  <2>2. i \in 0..size - 1 /\ i \in 0..SECURITY_SIZE - 1
    BY <1>0, <2>1
  <2>3. CASE i < m.security_size
    <3>1. w.security[i] = m.security[i]
      BY <1>0, <1>1, <2>2, <2>3
    <3>2. b \in 0..(4 * m.security_size) - 1
      BY <1>0, <2>1, <2>3
    <3>3. ModeIn(m.security, b) = Given(b)
      BY <3>2 DEF Carries
    <3> QED
      BY <2>1, <3>1, <3>3, Zenon DEF ModeIn
  <2>4. CASE ~(i < m.security_size)
    <3>1. w.security[i] = Padding(m)
      BY <1>0, <1>1, <2>2, <2>4
    <3>2. b \in Nat /\ ~(b < Len(modes))
      BY <1>0, <2>1, <2>4 DEF Carries
    <3>3. Given(b) = IF AnyStrong THEN R ELSE U
      BY <3>2 DEF Given, AnyStrong
    <3>4. ModeIn(w.security, b) = (Padding(m) \div Pow4(b % 4)) % 4
      BY <2>1, <3>1, Zenon DEF ModeIn
    <3>5. Padding(m) = IF AnyStrong THEN 170 ELSE 0
      BY SameStrong DEF Padding
    <3>6. CASE AnyStrong
      BY <3>2, <3>3, <3>4, <3>5, <3>6, PaddingModes, Zenon
    <3>7. CASE ~AnyStrong
      BY <3>2, <3>3, <3>4, <3>5, <3>7, PaddingModes, Zenon
    <3> QED
      BY <3>6, <3>7
  <2> QED
    BY <2>3, <2>4
<1>4. ZeroTail(m) => ZeroTail(w)
  BY <1>0, <1>1 DEF ZeroTail
<1>5. Carries(w)
  BY <1>1, <1>2, <1>3 DEF Carries
<1> QED
  BY <1>4, <1>5 DEF w

\* Rounding up to blocks stays in the array.
LEMMA RoundedWithin ==
  ASSUME NEW n \in 0..SECURITY_SIZE
  PROVE  RoundUp(n, BLOCK_SIZE) \in n..SECURITY_SIZE
<1>1. /\ BLOCK_SIZE \in Nat \ {0} /\ SECURITY_SIZE \in Nat /\ n \in Nat
      /\ SECURITY_SIZE % BLOCK_SIZE = 0
  BY HexAssumption
<1>2. RoundUp(n, BLOCK_SIZE) \in Nat /\ n <= RoundUp(n, BLOCK_SIZE)
      /\ RoundUp(n, BLOCK_SIZE) <= SECURITY_SIZE
  <2>1. n <= SECURITY_SIZE
    BY <1>1
  <2> QED
    BY <1>1, <2>1, RoundedUp, Zenon
<1> QED
  BY <1>1, <1>2

\* What the assembler writes.
LEMMA SecurityOfFile ==
  ASSUME Few, NEW m \in Memory, Carries(m), ZeroTail(m)
  PROVE  LET w == check_security_data(m, NoChip)
         IN  /\ w \in Memory /\ w.program = m.program /\ w.program_size = m.program_size
             /\ Carries(w) /\ ZeroTail(w)
<1>1. CASE Unprotected(m)
  BY <1>1 DEF check_security_data
<1>2. CASE ~Unprotected(m)
  <2> DEFINE size == RoundUp(m.security_size, BLOCK_SIZE)
  <2>1. check_security_data(m, NoChip) = PadTo(m, size)
    BY <1>2 DEF check_security_data, NoChip
  <2>2. size \in m.security_size..SECURITY_SIZE
    BY RoundedWithin DEF Memory
  <2> HIDE DEF size
  <2> QED
    BY <2>1, <2>2, PaddedTo, PaddingCarries
<1> QED
  BY <1>1, <1>2

-----------------------------------------------------------------------------
(* The protection of a chip *)

ChipFits(h) ==
  /\ {h.banks, h.blocks} \subseteq Nat \ {0} /\ h.blocks % 4 = 0
  /\ h.blocks <= 4 * BLOCK_SIZE /\ h.banks * h.blocks <= 4 * SECURITY_SIZE
BankBytes(h) == h.blocks \div 4
ChipBytes(h) == h.banks * BankBytes(h)

\* The bytes of a chip are a multiple of those of a bank.
LEMMA BytesOfChip ==
  ASSUME NEW h, ChipFits(h)
  PROVE  /\ BankBytes(h) \in Nat \ {0} /\ h.blocks = 4 * BankBytes(h)
         /\ BankBytes(h) <= BLOCK_SIZE
         /\ ChipBytes(h) \in 0..SECURITY_SIZE
         /\ (h.banks * h.blocks) \div 4 = ChipBytes(h)
         /\ h.banks * h.blocks = 4 * ChipBytes(h)
<1> DEFINE n == h.banks  b == h.blocks  q == b \div 4
<1>1. n \in Nat \ {0} /\ b \in Nat \ {0} /\ b % 4 = 0 /\ b <= 4 * BLOCK_SIZE
      /\ n * b <= 4 * SECURITY_SIZE /\ BLOCK_SIZE \in Nat /\ SECURITY_SIZE \in Nat
  BY HexAssumption DEF ChipFits
<1> HIDE DEF n, b
<1>2. q \in Nat \ {0} /\ b = 4 * q
  BY <1>1, Z3
<1> HIDE DEF q
<1>3. n * q \in Nat /\ n * b = 4 * (n * q)
  BY <1>1, <1>2, Z3
<1>4. (4 * (n * q)) \div 4 = n * q
  BY <1>3, Z3
<1>5. q <= BLOCK_SIZE /\ n * q <= SECURITY_SIZE
  BY <1>1, <1>2, <1>3
<1>6. BankBytes(h) = q /\ ChipBytes(h) = n * q
  BY DEF BankBytes, ChipBytes, n, q, b
<1>7. /\ q \in Nat \ {0} /\ b = 4 * q /\ q <= BLOCK_SIZE /\ n * q \in 0..SECURITY_SIZE
      /\ (n * b) \div 4 = n * q /\ n * b = 4 * (n * q)
  BY <1>1, <1>2, <1>3, <1>4, <1>5
<1> QED
  BY <1>6, <1>7 DEF n, b

\* A block of a chip and its place in its bank.
LEMMA PlaceInBank ==
  ASSUME NEW h, ChipFits(h), NEW b \in 0..(h.banks * h.blocks) - 1
  PROVE  \E bank \in 0..h.banks - 1, i \in 0..BankBytes(h) - 1, k \in 0..3 :
           /\ b \div h.blocks = bank /\ b % h.blocks = (4 * i) + k
           /\ (bank * BankBytes(h)) + i \in 0..ChipBytes(h) - 1
           /\ b = (4 * ((bank * BankBytes(h)) + i)) + k
<1> DEFINE n == h.banks  m == h.blocks  q == BankBytes(h)
           bank == b \div m  r == b % m
<1>1. n \in Nat \ {0} /\ m \in Nat \ {0} /\ q \in Nat \ {0} /\ m = 4 * q
  BY BytesOfChip DEF ChipFits
<1>2. b \in 0..(n * m) - 1 /\ ChipBytes(h) = n * q
  BY DEF ChipBytes
<1> HIDE DEF n, m, q
<1>3. n * m \in Nat
  BY <1>1, Z3
<1>4. b \in Nat /\ b < n * m
  BY <1>2, <1>3
<1>5. bank \in Nat /\ r \in Nat /\ r < m /\ b = (bank * m) + r
  BY <1>1, <1>4, Z3
<1> HIDE DEF bank, r
<1>6. bank < n
  <2>1. bank >= n => bank * m >= n * m
    BY <1>1, <1>5, Z3
  <2>2. bank * m \in Nat
    BY <1>1, <1>5, Z3
  <2> QED
    BY <1>1, <1>3, <1>4, <1>5, <2>1, <2>2
<1>7. PICK i \in Nat, k \in 0..3 : r = (4 * i) + k
  BY <1>5, FourBlocks
<1>8. i < q
  BY <1>1, <1>5, <1>7
<1>9. bank * q \in Nat /\ bank * m = 4 * (bank * q) /\ n * q \in Nat
  BY <1>1, <1>5, Z3
<1>10. (bank * q) + i \in 0..(n * q) - 1
  <2>1. (bank * q) + q <= n * q
    <3>1. bank + 1 <= n
      BY <1>1, <1>5, <1>6
    <3>2. (bank + 1) * q <= n * q
      BY <1>1, <1>5, <3>1, Z3
    <3>3. (bank + 1) * q = (bank * q) + q
      BY <1>1, <1>5, Z3
    <3> QED
      BY <3>2, <3>3
  <2> QED
    BY <1>1, <1>7, <1>8, <1>9, <2>1
<1>11. b = (4 * ((bank * q) + i)) + k
  BY <1>5, <1>7, <1>9
<1>12. bank \in 0..n - 1 /\ i \in 0..q - 1
  BY <1>1, <1>5, <1>6, <1>7, <1>8
<1> QED
  BY <1>2, <1>7, <1>10, <1>11, <1>12, Zenon DEF n, m, q, bank, r

\* What check_security does with the chip: every block of the chip has what is
\* meant for it.
LEMMA SecurityOfChip ==
  ASSUME Few, NEW m \in Memory, Carries(m), NEW h, ChipFits(h),
         ~Unprotected(m), ~Overruns(m, h)
  PROVE  LET w == check_security_data(m, h)
         IN  /\ w \in Memory /\ ~Unprotected(w) /\ ChipBytes(h) <= w.security_size
             /\ \A b \in 0..(4 * ChipBytes(h)) - 1 : ModeIn(w.security, b) = Given(b)
<1> DEFINE N == ChipBytes(h)
           full == PadForChip(m, h)
           mirrored == IF h.banks = 1 THEN Mirror(full, h) ELSE full
           w == PadTo(mirrored, RoundUp(mirrored.security_size, BLOCK_SIZE))
           Kept(x, y) == \A i \in 0..x.security_size - 1 : y.security[i] = x.security[i]
<1>0. /\ SECURITY_SIZE \in Nat /\ BLOCK_SIZE \in Nat \ {0}
      /\ m.security_size \in Nat /\ m.security_size <= SECURITY_SIZE
  BY HexAssumption DEF Memory
<1>1. /\ N \in Nat /\ N <= SECURITY_SIZE /\ (h.banks * h.blocks) \div 4 = N
      /\ BankBytes(h) \in Nat \ {0} /\ BankBytes(h) <= BLOCK_SIZE
      /\ h.banks \in Nat \ {0}
  BY <1>0, BytesOfChip DEF ChipFits
<1>2. check_security_data(m, h) = w
  BY <1>1 DEF check_security_data
<1>3. /\ full \in Memory /\ Carries(full) /\ Kept(m, full)
      /\ N <= full.security_size /\ m.security_size <= full.security_size
      /\ full.security_size <= SECURITY_SIZE /\ full.security_size \in Nat
      /\ full.security_size = m.security_size \/ full.security_size = N
  <2>1. CASE m.security_size < N
    <3>1. full = PadTo(m, N)
      BY <1>1, <2>1 DEF PadForChip
    <3>2. N \in m.security_size..SECURITY_SIZE
      BY <1>0, <1>1, <2>1
    <3> HIDE DEF full, N
    <3>3. /\ full \in Memory /\ full.security_size = N
          /\ \A i \in 0..SECURITY_SIZE - 1 :
               full.security[i] = IF i >= m.security_size /\ i < N
                                  THEN Padding(m) ELSE m.security[i]
      BY <3>1, <3>2, PaddedTo
    <3>4. Carries(full)
      BY <3>1, <3>2, PaddingCarries
    <3>5. Kept(m, full)
      BY <1>0, <3>3
    <3> QED
      BY <1>0, <1>1, <2>1, <3>3, <3>4, <3>5
  <2>2. CASE ~(m.security_size < N)
    <3>1. full = m
      BY <1>1, <2>2 DEF PadForChip
    <3> HIDE DEF full, N
    <3> QED
      BY <1>0, <1>1, <2>2, <3>1
  <2> QED
    BY <2>1, <2>2
<1>4. BLOCK_SIZE <= SECURITY_SIZE
  <2>1. SECURITY_SIZE # 0
    BY HexAssumption
  <2>2. RoundUp(1, BLOCK_SIZE) \in 1..SECURITY_SIZE
    BY <1>0, <2>1, RoundedWithin
  <2>3. RoundUp(1, BLOCK_SIZE) = BLOCK_SIZE
    <3>1. (1 + BLOCK_SIZE - 1) \div BLOCK_SIZE = 1
      BY <1>0, Z3
    <3> QED
      BY <1>0, <3>1 DEF RoundUp
  <2> QED
    BY <1>0, <2>2, <2>3
<1> HIDE DEF full, N
<1>5. /\ mirrored \in Memory /\ Kept(full, mirrored)
      /\ full.security_size <= mirrored.security_size
  <2>1. CASE h.banks = 1
    <3>1. full.security_size <= BLOCK_SIZE
      <4>1. m.security_size <= BLOCK_SIZE
        BY <1>0, <2>1 DEF Overruns
      <4>2. N <= BLOCK_SIZE
        BY <1>0, <1>1, <2>1 DEF N, ChipBytes
      <4> QED
        BY <1>3, <4>1, <4>2
    <3> DEFINE s == [i \in DOMAIN full.security |->
                       IF i >= full.security_size /\ i < BLOCK_SIZE
                       THEN full.security[i % BankBytes(h)] ELSE full.security[i]]
    <3>2. mirrored = [full EXCEPT !.security = s, !.security_size = BLOCK_SIZE]
      BY <2>1 DEF Mirror, BankBytes
    <3>3. full.security \in [0..SECURITY_SIZE - 1 -> Nat]
      BY <1>3 DEF Memory
    <3>4. ASSUME NEW i \in 0..SECURITY_SIZE - 1 PROVE i % BankBytes(h) \in 0..SECURITY_SIZE - 1
      <4> DEFINE q == BankBytes(h)
      <4> HIDE DEF q
      <4>1. q \in Nat \ {0} /\ q <= SECURITY_SIZE /\ i \in Nat
        BY <1>0, <1>1, <1>4 DEF q
      <4>2. i % q \in Nat /\ i % q < q
        BY <4>1, Z3
      <4>3. i % q \in 0..SECURITY_SIZE - 1
        BY <1>0, <4>1, <4>2
      <4> QED
        BY <4>3 DEF q
    <3>5. s \in [0..SECURITY_SIZE - 1 -> Nat]
      BY <3>3, <3>4
    <3>6. \A i \in 0..full.security_size - 1 : s[i] = full.security[i]
      BY <1>0, <1>3, <3>3
    <3> HIDE DEF s, mirrored
    <3>7. mirrored \in Memory /\ mirrored.security = s /\ mirrored.security_size = BLOCK_SIZE
      <4>1. BLOCK_SIZE \in 0..SECURITY_SIZE
        BY <1>0, <1>4
      <4>2. full \in Memory
        BY <1>3
      <4> QED
        BY <3>2, <3>5, <4>1, <4>2 DEF Memory
    <3> QED
      BY <3>1, <3>6, <3>7
  <2>2. CASE h.banks # 1
    BY <1>3, <2>2
  <2> QED
    BY <2>1, <2>2
<1> HIDE DEF mirrored
<1>6. /\ w \in Memory /\ Kept(mirrored, w)
      /\ mirrored.security_size <= w.security_size
  <2> DEFINE size == RoundUp(mirrored.security_size, BLOCK_SIZE)
  <2>0. mirrored.security_size \in 0..SECURITY_SIZE
    BY <1>5 DEF Memory
  <2>1. size \in mirrored.security_size..SECURITY_SIZE
    BY <2>0, RoundedWithin
  <2> HIDE DEF size
  <2>2. /\ w \in Memory /\ w.security_size = size
        /\ \A i \in 0..SECURITY_SIZE - 1 :
             w.security[i] = IF i >= mirrored.security_size /\ i < size
                             THEN Padding(mirrored) ELSE mirrored.security[i]
    BY <1>5, <2>1, PaddedTo DEF size
  <2> HIDE DEF w
  <2> QED
    BY <1>0, <2>0, <2>1, <2>2
<1> HIDE DEF w
<1>7. mirrored.security_size \in Nat /\ w.security_size \in Nat
  BY <1>0, <1>5, <1>6 DEF Memory
<1>8. Kept(full, w) /\ full.security_size <= w.security_size
  BY <1>3, <1>5, <1>6, <1>7
<1>9. Kept(m, w) /\ m.security_size <= w.security_size
  BY <1>0, <1>3, <1>7, <1>8
<1>10. ~Unprotected(w)
  BY <1>0, <1>7, <1>9 DEF Unprotected
<1>11. ASSUME NEW b \in 0..(4 * N) - 1 PROVE ModeIn(w.security, b) = Given(b)
  <2>1. b \in Nat /\ b \in 0..(4 * full.security_size) - 1
    BY <1>1, <1>3
  <2>2. PICK i \in Nat, k \in 0..3 : b = (4 * i) + k /\ b \div 4 = i /\ b % 4 = k
    BY <2>1, FourBlocks, Zenon
  <2>3. i \in 0..full.security_size - 1
    BY <1>3, <2>1, <2>2
  <2>4. w.security[i] = full.security[i]
    BY <1>8, <2>3
  <2>5. ModeIn(full.security, b) = Given(b)
    BY <1>3, <2>1 DEF Carries
  <2> QED
    BY <2>2, <2>4, <2>5, Zenon DEF ModeIn
<1>12. N <= w.security_size
  BY <1>1, <1>3, <1>7, <1>8
<1> QED
  BY <1>2, <1>6, <1>10, <1>11, <1>12 DEF N

\* And with it what ops_write_security writes.
LEMMA BlocksOnChip ==
  ASSUME NEW w \in Memory, NEW h, ChipFits(h), ChipBytes(h) <= w.security_size,
         NEW b \in 0..(h.banks * h.blocks) - 1
  PROVE  LET banks == [k \in 1..h.banks |-> Buffer(w, h, k - 1)]
             bank == b \div h.blocks
         IN  /\ banks # <<>>
             /\ ModeIn(banks[bank + 1], b % h.blocks) = ModeIn(w.security, b)
<1> DEFINE banks == [k \in 1..h.banks |-> Buffer(w, h, k - 1)]
           q == BankBytes(h)
<1>1. PICK bank \in 0..h.banks - 1, i \in 0..q - 1, k \in 0..3 :
           /\ b \div h.blocks = bank /\ b % h.blocks = (4 * i) + k
           /\ (bank * q) + i \in 0..ChipBytes(h) - 1
           /\ b = (4 * ((bank * q) + i)) + k
  BY PlaceInBank
<1>2. /\ q \in Nat \ {0} /\ q <= BLOCK_SIZE /\ BLOCK_SIZE \in Nat /\ h.banks \in Nat \ {0}
      /\ ChipBytes(h) \in Nat
      /\ w.security_size \in Nat
  <2>1. q \in Nat \ {0} /\ q <= BLOCK_SIZE /\ ChipBytes(h) \in 0..SECURITY_SIZE
    BY BytesOfChip
  <2>2. h.banks \in Nat \ {0}
    BY DEF ChipFits
  <2>3. BLOCK_SIZE \in Nat /\ SECURITY_SIZE \in Nat /\ w.security_size \in Nat
    BY HexAssumption DEF Memory
  <2> HIDE DEF q
  <2> QED
    BY <2>1, <2>2, <2>3
<1> HIDE DEF q
<1>3. bank + 1 \in 1..h.banks /\ (bank + 1) - 1 = bank
  BY <1>1, <1>2
<1>4. banks # <<>>
  <2>1. DOMAIN banks = 1..h.banks /\ 1 \in 1..h.banks
    BY <1>2
  <2>2. DOMAIN << >> = {}
    OBVIOUS
  <2> HIDE DEF banks
  <2> QED
    BY <2>1, <2>2
<1>5. banks[bank + 1] = Buffer(w, h, bank)
  BY <1>3
<1>6. Buffer(w, h, bank)[i] = w.security[(bank * q) + i]
  <2>1. i \in 0..BLOCK_SIZE - 1 /\ i < q
    BY <1>1, <1>2
  <2>2. (bank * q) + i < w.security_size
    BY <1>1, <1>2
  <2> QED
    BY <2>1, <2>2 DEF Buffer, q, BankBytes
<1>7. ((4 * i) + k) \div 4 = i /\ ((4 * i) + k) % 4 = k
  <2>1. i \in Nat
    BY <1>1, <1>2
  <2> QED
    BY <2>1, ByteOfBlock
<1>8. b \div 4 = (bank * q) + i /\ b % 4 = k
  <2>1. (bank * q) + i \in Nat
    BY <1>1, <1>2
  <2> DEFINE x == (bank * q) + i
  <2> HIDE DEF x
  <2>2. ((4 * x) + k) \div 4 = x /\ ((4 * x) + k) % 4 = k
    BY <2>1, ByteOfBlock DEF x
  <2>3. b = (4 * x) + k
    BY <1>1 DEF x
  <2> QED
    BY <2>2, <2>3 DEF x
<1>9. ModeIn(banks[bank + 1], b % h.blocks) = (w.security[(bank * q) + i] \div Pow4(k)) % 4
  BY <1>1, <1>5, <1>6, <1>7, Zenon DEF ModeIn
<1>10. ModeIn(w.security, b) = (w.security[(bank * q) + i] \div Pow4(k)) % 4
  BY <1>8, Zenon DEF ModeIn
<1> QED
  BY <1>1, <1>4, <1>9, <1>10, Zenon

-----------------------------------------------------------------------------
(* The records of a hex file *)

\* The bytes in the first k records of size bytes.
Got(size, k) == IF k < Count(size) THEN k * BLOCK_SIZE ELSE size

Agree(t, bytes, n) == \A i \in 0..n - 1 : t[i] = bytes[i]
Slice(data, a, bytes) ==
  Len(data) \in Nat /\ \A j \in 1..Len(data) : data[j] = bytes[a + j - 1]

\* A record takes the bytes behind those of the records before.
LEMMA GotBytes ==
  ASSUME NEW size \in Nat
  PROVE  /\ Count(size) \in Nat
         /\ Got(size, 0) = 0 /\ Got(size, Count(size)) = size
         /\ \A k \in 0..Count(size) : Got(size, k) \in 0..size
         /\ \A k \in 0..Count(size) - 1 :
              /\ Got(size, k) < size /\ Got(size, k) = k * BLOCK_SIZE
              /\ Got(size, k) + Least(BLOCK_SIZE, size - Got(size, k)) = Got(size, k + 1)
              /\ Least(BLOCK_SIZE, size - Got(size, k)) \in Nat \ {0}
<1> DEFINE q == Count(size)
<1>1. BLOCK_SIZE \in Nat \ {0}
  BY HexAssumption
<1>2. /\ q \in Nat
      /\ \A k \in Nat : /\ k * BLOCK_SIZE \in Nat
                        /\ (k + 1) * BLOCK_SIZE = (k * BLOCK_SIZE) + BLOCK_SIZE
                        /\ k < q <=> k * BLOCK_SIZE < size
  BY CountRecords
<1>3. \A k : Got(size, k) = IF k < q THEN k * BLOCK_SIZE ELSE size
  BY Zenon DEF Got
<1> HIDE DEF q
<1>4. Got(size, q) = size
  <2>1. ~(q < q)
    BY <1>2
  <2> QED
    BY <1>3, <2>1, Zenon
<1>5. Got(size, 0) = 0
  <2>1. 0 * BLOCK_SIZE = 0
    BY <1>1, Z3
  <2>2. Got(size, 0) = IF 0 < q THEN 0 ELSE size
    BY <1>3, <2>1, Zenon
  <2>3. 0 < q <=> 0 < size
    BY <1>2, <2>1
  <2> QED
    BY <2>2, <2>3
<1>6. ASSUME NEW k \in 0..q PROVE Got(size, k) \in 0..size
  <2>1. k \in Nat
    BY <1>2
  <2>2. CASE k < q
    <3>1. k * BLOCK_SIZE \in Nat /\ k * BLOCK_SIZE < size
      BY <1>2, <2>1, <2>2
    <3>2. Got(size, k) = k * BLOCK_SIZE
      BY <1>3, <2>2, Zenon
    <3> HIDE <1>2
    <3> QED
      BY <3>1, <3>2
  <2>3. CASE ~(k < q)
    BY <1>3, <2>3
  <2> QED
    BY <2>2, <2>3
<1>7. ASSUME NEW k \in 0..q - 1
      PROVE  /\ Got(size, k) < size /\ Got(size, k) = k * BLOCK_SIZE
             /\ Got(size, k) + Least(BLOCK_SIZE, size - Got(size, k)) = Got(size, k + 1)
             /\ Least(BLOCK_SIZE, size - Got(size, k)) \in Nat \ {0}
  <2> DEFINE a == k * BLOCK_SIZE  b == (k + 1) * BLOCK_SIZE
  <2>1. k \in Nat /\ k + 1 \in Nat /\ k < q
    BY <1>2
  <2>2. a \in Nat /\ b = a + BLOCK_SIZE /\ a < size /\ (k + 1 < q <=> b < size)
    BY <1>2, <2>1
  <2>3. Got(size, k) = a /\ Got(size, k + 1) = IF k + 1 < q THEN b ELSE size
    BY <1>3, <2>1, Zenon
  <2> HIDE DEF a, b
  <2>4. Got(size, k + 1) = IF b < size THEN b ELSE size
    BY <2>2, <2>3, Zenon
  <2>5. a + Least(BLOCK_SIZE, size - a) = (IF b < size THEN b ELSE size)
        /\ Least(BLOCK_SIZE, size - a) \in Nat \ {0}
    BY <1>1, <2>2 DEF Least
  <2>6. Got(size, k) = k * BLOCK_SIZE
    BY <2>3 DEF a
  <2> QED
    BY <2>2, <2>3, <2>4, <2>5, <2>6, Zenon
<1> QED
  BY <1>2, <1>4, <1>5, <1>6, <1>7 DEF q

\* A function on 1..n is a sequence of length n.
LEMMA LengthIs ==
  ASSUME NEW n \in Nat, NEW s, DOMAIN s = 1..n
  PROVE  Len(s) = n
OBVIOUS

\* What a data record holds.
LEMMA RecordIs ==
  ASSUME NEW size \in Nat, NEW bytes, NEW k \in 0..Count(size) - 1
  PROVE  LET d == Records(bytes, size)[k + 1]
         IN  /\ d.type = 0 /\ d.address = Got(size, k)
             /\ Got(size, k) + Len(d.data) = Got(size, k + 1)
             /\ Len(d.data) # 0
             /\ Slice(d.data, Got(size, k), bytes)
<1> DEFINE a == Got(size, k)  n == Least(BLOCK_SIZE, size - a)
           data == [j \in 1..n |-> bytes[a + j - 1]]
           d == Records(bytes, size)[k + 1]
<1>1. /\ a = k * BLOCK_SIZE /\ a + n = Got(size, k + 1) /\ n \in Nat \ {0}
      /\ Count(size) \in Nat
  BY GotBytes
<1>2. k + 1 \in 1..Count(size) /\ (k + 1) - 1 = k
  BY <1>1
<1>3. d = DataRecord(a, data)
  BY <1>1, <1>2 DEF Records
<1> HIDE DEF a, n, d
<1>4. d.type = 0 /\ d.address = a /\ d.data = data
  BY <1>3 DEF DataRecord
<1>5. DOMAIN data = 1..n /\ \A j \in 1..n : data[j] = bytes[a + j - 1]
  OBVIOUS
<1> HIDE DEF data
<1>6. Len(data) = n
  BY <1>1, <1>5, LengthIs
<1>7. Slice(data, a, bytes)
  BY <1>1, <1>5, <1>6 DEF Slice
<1> QED
  BY <1>1, <1>4, <1>6, <1>7 DEF a, d

\* Two sequences, one after the other.
IsList(s, n) == n \in Nat /\ s = [i \in 1..n |-> s[i]]
IsJoin(j, s, m, t, n) ==
  /\ IsList(j, m + n) /\ Len(j) = m + n
  /\ \A i \in 1..m : j[i] = s[i]
  /\ \A i \in 1..n : j[m + i] = t[i]

\* What is behind the first sequence is the second one.
LEMMA Joined ==
  ASSUME NEW s, NEW t, NEW m, NEW n, IsList(s, m), IsList(t, n)
  PROVE  IsJoin(s \o t, s, m, t, n)
<1> DEFINE S == {s[i] : i \in 1..m} \cup {t[i] : i \in 1..n}
<1>1. s \in [1..m -> S] /\ t \in [1..n -> S] /\ m \in Nat /\ n \in Nat
  BY DEF IsList
<1> HIDE DEF S
<1>2. s \in Seq(S) /\ t \in Seq(S) /\ Len(s) = m /\ Len(t) = n
  BY <1>1
<1>3. /\ s \o t \in Seq(S) /\ Len(s \o t) = m + n
      /\ \A i \in 1..m + n : (s \o t)[i] = IF i <= m THEN s[i] ELSE t[i - m]
  BY <1>2, ConcatProperties
<1>4. s \o t = [i \in 1..m + n |-> (s \o t)[i]]
  <2>1. s \o t \in [1..Len(s \o t) -> S]
    BY <1>3, LenProperties, Zenon
  <2>2. s \o t \in [1..m + n -> S]
    BY <1>3, <2>1, Zenon
  <2> QED
    BY <2>2, Zenon
<1>5. \A i \in 1..n : m + i \in 1..m + n /\ ~(m + i <= m) /\ (m + i) - m = i
  BY <1>1
<1>6. \A i \in 1..m : i \in 1..m + n /\ i <= m
  BY <1>1
<1>7. m + n \in Nat
  BY <1>1
<1>8. \A i \in 1..n : (s \o t)[m + i] = t[i]
  BY <1>3, <1>5
<1>9. \A i \in 1..m : (s \o t)[i] = s[i]
  BY <1>3, <1>6
<1> QED
  BY <1>3, <1>4, <1>7, <1>8, <1>9 DEF IsList, IsJoin

\* The records of a hex file, in order.
ProgramRecords(m) == Count(m.program_size)
LastData(m) ==
  ProgramRecords(m) + IF m.security_size = 0 THEN 0 ELSE 1 + Count(m.security_size)

SumRecord(sum) == DataRecord(0, <<sum \div 256, sum % 256>>)

HexLayout(m, sum, W, P, Q) ==
  /\ P \in Nat /\ Q \in Nat /\ IsList(W, Q + 3) /\ Len(W) = Q + 3
  /\ \A k \in 1..P : W[k] = Records(m.program, m.program_size)[k]
  /\ m.security_size = 0 => Q = P
  /\ m.security_size # 0 =>
       /\ Q = P + 1 + Count(m.security_size) /\ W[P + 1] = Extended("security")
       /\ \A k \in 1..Count(m.security_size) :
            W[P + 1 + k] = Records(m.security, m.security_size)[k]
  /\ W[Q + 1] = Extended("checksum")
  /\ W[Q + 2] = SumRecord(sum)
  /\ W[Q + 3] = EndRecord

\* write_hex writes the program, the protection if there is any, the
\* checksum and the end.
LEMMA HexRecords ==
  ASSUME NEW m \in Memory, NEW sum
  PROVE  HexLayout(m, sum, write_hex(m, sum), ProgramRecords(m), LastData(m))
<1> DEFINE P == ProgramRecords(m)  Q == LastData(m)  S == Count(m.security_size)
           p == Records(m.program, m.program_size)
           s == Records(m.security, m.security_size)
           e == Extended("security")  c == Extended("checksum")
           d == SumRecord(sum)
           middle == IF m.security_size = 0 THEN <<>> ELSE <<e>> \o s
           end == <<c, d, EndRecord>>
           W == write_hex(m, sum)
<1>1. m.program_size \in Nat /\ m.security_size \in Nat
  BY HexAssumption DEF Memory
<1>2. P \in Nat /\ S \in Nat
  BY <1>1, GotBytes DEF ProgramRecords
<1>3. IsList(p, P) /\ IsList(s, S)
  BY <1>2, Zenon DEF IsList, Records, ProgramRecords
<1>4. W = p \o middle \o end
  BY Zenon DEF write_hex, SumRecord
<1>5. Q = P + IF m.security_size = 0 THEN 0 ELSE 1 + S
  BY Zenon DEF LastData
<1> HIDE DEF P, S, Q, p, s, e, c, d, W
<1> DEFINE one == <<e>>
<1>6. IsList(one, 1) /\ one[1] = e
  BY DEF IsList
<1>7. IsList(end, 3) /\ end[1] = c /\ end[2] = d /\ end[3] = EndRecord
  <2>1. end \in [1..3 -> {c, d, EndRecord}]
    OBVIOUS
  <2> QED
    BY <2>1 DEF IsList
<1> HIDE DEF end
<1>8. /\ IsList(middle, Q - P) /\ Q \in Nat
      /\ m.security_size # 0 => /\ Q = P + 1 + S /\ middle[1] = e
                                /\ \A k \in 1..S : middle[1 + k] = s[k]
      /\ m.security_size = 0 => Q = P
  <2>1. CASE m.security_size = 0
    <3>1. Q = P /\ Q - P = 0
      BY <1>2, <1>5, <2>1
    <3>2. middle = <<>>
      BY <2>1
    <3>3. IsList(<<>>, 0)
      BY DEF IsList
    <3> QED
      BY <1>2, <2>1, <3>1, <3>2, <3>3
  <2>2. CASE m.security_size # 0
    <3>1. Q = P + 1 + S /\ Q - P = 1 + S
      BY <1>2, <1>5, <2>2
    <3>2. middle = one \o s
      BY <2>2
    <3> HIDE DEF middle, one
    <3>3. IsJoin(middle, one, 1, s, S)
      BY <1>3, <1>6, <3>2, Joined, Zenon
    <3>4. middle[1] = e
      BY <1>6, <3>3 DEF IsJoin
    <3> QED
      BY <1>2, <2>2, <3>1, <3>3, <3>4 DEF IsJoin
  <2> QED
    BY <2>1, <2>2
<1> HIDE DEF middle
<1> DEFINE front == p \o middle
<1>9. /\ IsList(front, Q)
      /\ \A k \in 1..P : front[k] = p[k]
      /\ \A k \in 1..Q - P : front[P + k] = middle[k]
  <2>1. P + (Q - P) = Q
    BY <1>2, <1>8
  <2>2. IsJoin(front, p, P, middle, Q - P)
    BY <1>3, <1>8, Joined, Zenon
  <2> HIDE DEF front
  <2> QED
    BY <2>1, <2>2 DEF IsJoin
<1>10. W = front \o end
  BY <1>4
<1> HIDE DEF front
<1>17. IsJoin(W, front, Q, end, 3)
  BY <1>7, <1>9, <1>10, Joined, Zenon
<1>11. /\ IsList(W, Q + 3) /\ Len(W) = Q + 3
       /\ \A k \in 1..Q : W[k] = front[k]
       /\ \A k \in 1..3 : W[Q + k] = end[k]
  BY <1>17, Zenon DEF IsJoin
<1>12. W[Q + 1] = c /\ W[Q + 2] = d /\ W[Q + 3] = EndRecord
  BY <1>7, <1>11
<1>13. P <= Q
  BY <1>2, <1>5
<1>14. \A k \in 1..P : W[k] = p[k]
  <2> TAKE k \in 1..P
  <2>1. k \in 1..Q
    BY <1>2, <1>8, <1>13
  <2> QED
    BY <1>9, <1>11, <2>1
<1>15. ASSUME m.security_size # 0
       PROVE  W[P + 1] = e /\ \A k \in 1..S : W[P + 1 + k] = s[k]
  <2>1. Q = P + 1 + S /\ middle[1] = e
    BY <1>8, <1>15
  <2>2. 1 \in 1..Q - P /\ P + 1 \in 1..Q
    BY <1>2, <2>1
  <2>3. W[P + 1] = e
    BY <1>9, <1>11, <2>1, <2>2
  <2>4. ASSUME NEW k \in 1..S PROVE W[P + 1 + k] = s[k]
    <3>1. 1 + k \in 1..Q - P /\ P + (1 + k) \in 1..Q /\ P + (1 + k) = P + 1 + k
      BY <1>2, <2>1
    <3>2. middle[1 + k] = s[k]
      BY <1>8, <1>15
    <3>3. front[P + (1 + k)] = middle[1 + k]
      BY <1>9, <3>1
    <3>4. W[P + (1 + k)] = front[P + (1 + k)]
      BY <1>11, <3>1
    <3> QED
      BY <3>1, <3>2, <3>3, <3>4
  <2> QED
    BY <2>3, <2>4
<1>16. /\ P \in Nat /\ Q \in Nat /\ IsList(W, Q + 3) /\ Len(W) = Q + 3
       /\ \A k \in 1..P : W[k] = p[k]
       /\ m.security_size = 0 => Q = P
       /\ m.security_size # 0 => /\ Q = P + 1 + S /\ W[P + 1] = e
                                 /\ \A k \in 1..S : W[P + 1 + k] = s[k]
       /\ W[Q + 1] = c /\ W[Q + 2] = d /\ W[Q + 3] = EndRecord
  BY <1>2, <1>8, <1>11, <1>12, <1>14, <1>15, Zenon
<1> QED
  BY <1>16, Zenon DEF HexLayout, P, Q, S, p, s, e, c, d, W

\* What is copied and what is left alone.
SameFrom(c, t, n, N) == \A i \in n..N - 1 : c[i] = t[i]
Within(bytes, n, T) == \A i \in 0..n - 1 : bytes[i] \in T

\* A slice of bytes copied behind those that agree already makes more of
\* them agree.
LEMMA Copied ==
  ASSUME NEW N \in Nat, NEW T, NEW t \in [0..N - 1 -> T], NEW bytes, NEW a \in Nat, NEW data,
         Agree(t, bytes, a), Slice(data, a, bytes), a + Len(data) <= N,
         Within(bytes, N, T)
  PROVE  /\ Copy(t, a, data) \in [0..N - 1 -> T]
         /\ Agree(Copy(t, a, data), bytes, a + Len(data))
         /\ SameFrom(Copy(t, a, data), t, a + Len(data), N)
<1> DEFINE c == Copy(t, a, data)  n == Len(data)
<1>1. n \in Nat /\ \A j \in 1..n : data[j] = bytes[a + j - 1]
  BY DEF Slice
<1>2. DOMAIN c = 0..N - 1
      /\ \A i \in 0..N - 1 : c[i] = IF i >= a /\ i < a + n THEN data[i - a + 1] ELSE t[i]
  BY DEF Copy
<1> HIDE DEF n
<1>3. ASSUME NEW i \in 0..N - 1, i >= a, i < a + n
      PROVE  c[i] = bytes[i]
  <2>1. i - a + 1 \in 1..n /\ a + (i - a + 1) - 1 = i
    BY <1>1, <1>3
  <2>2. c[i] = data[i - a + 1]
    BY <1>2, <1>3
  <2> HIDE DEF c
  <2> QED
    BY <1>1, <2>1, <2>2
<1>4. ASSUME NEW i \in 0..N - 1, ~(i >= a /\ i < a + n)
      PROVE  c[i] = t[i]
  BY <1>2, <1>4
<1> HIDE DEF c
<1>5. a + n <= N
  BY DEF n
<1>6. \A i \in 0..N - 1 : c[i] \in T
  BY <1>3, <1>4 DEF Within
<1>7. c \in [0..N - 1 -> T]
  <2>1. c = [i \in 0..N - 1 |-> c[i]]
    BY DEF c, Copy
  <2> QED
    BY <1>6, <2>1, Zenon
<1>8. \A i \in 0..(a + n) - 1 : c[i] = bytes[i]
  <2> TAKE i \in 0..(a + n) - 1
  <2>1. i \in 0..N - 1
    BY <1>1, <1>5
  <2>2. CASE i >= a
    <3>1. i >= a /\ i < a + n
      BY <1>1, <2>2
    <3> QED
      BY <1>3, <2>1, <3>1
  <2>3. CASE ~(i >= a)
    BY <1>4, <2>1, <2>3 DEF Agree
  <2> QED
    BY <2>2, <2>3
<1>9. \A i \in a + n..N - 1 : c[i] = t[i]
  <2> TAKE i \in a + n..N - 1
  <2>1. i \in 0..N - 1 /\ ~(i >= a /\ i < a + n)
    BY <1>1
  <2> QED
    BY <1>4, <2>1
<1> QED
  BY <1>7, <1>8, <1>9 DEF c, n, Agree, SameFrom

-----------------------------------------------------------------------------
(* Reading a hex file *)

Areas == {"program", "security", "checksum"}
Readers ==
  [at : Nat, area : Areas, last : Areas \X Nat, checksum : [0..1 -> Nat],
   have_checksum : BOOLEAN, digit : Nat]

\* m is what is in the file, x the memory, r the reader.
HasProgram(m, x, n) == x.program_size = n /\ Agree(x.program, m.program, n)
HasSecurity(m, x, n) ==
  /\ x.security_size = n /\ Agree(x.security, m.security, n)
  /\ \A i \in n..SECURITY_SIZE - 1 : x.security[i] = 0

InProgram(m, r, x) ==
  LET n == Got(m.program_size, r.at)
  IN  /\ r.at <= ProgramRecords(m) /\ r.area = "program" /\ ~r.have_checksum
      /\ r.last = <<"program", n>> /\ HasProgram(m, x, n) /\ HasSecurity(m, x, 0)

InSecurity(m, r, x) ==
  /\ m.security_size # 0 /\ r.area = "security" /\ ~r.have_checksum
  /\ HasProgram(m, x, m.program_size)
  /\ \E k \in 0..Count(m.security_size) :
       /\ r.at = ProgramRecords(m) + 1 + k
       /\ k # 0 => r.last = <<"security", Got(m.security_size, k)>>
       /\ HasSecurity(m, x, Got(m.security_size, k))

InChecksum(m, sum, r, x) ==
  /\ r.area = "checksum"
  /\ HasProgram(m, x, m.program_size) /\ HasSecurity(m, x, m.security_size)
  /\ \/ r.at = LastData(m) + 1 /\ ~r.have_checksum
     \/ /\ r.at = LastData(m) + 2 /\ r.have_checksum
        /\ r.checksum[0] = sum \div 256 /\ r.checksum[1] = sum % 256

HexSoFar(m, sum, r, x) ==
  InProgram(m, r, x) \/ InSecurity(m, r, x) \/ InChecksum(m, sum, r, x)

\* A reader behind a record.
LEMMA NextReader ==
  ASSUME NEW r \in Readers, NEW area \in Areas, NEW end \in Nat
  PROVE  LET t == [r EXCEPT !.at = @ + 1, !.last = <<area, end>>]
         IN  /\ t \in Readers /\ t.at = r.at + 1 /\ t.area = r.area
             /\ t.last = <<area, end>> /\ t.have_checksum = r.have_checksum
             /\ t.checksum = r.checksum
<1> DEFINE l == <<area, end>>  t == [r EXCEPT !.at = @ + 1, !.last = l]
<1>1. l \in Areas \X Nat
  OBVIOUS
<1> HIDE DEF l
<1>2. r.at \in Nat /\ r.at + 1 \in Nat
  BY DEF Readers
<1>3. /\ t.at = r.at + 1 /\ t.area = r.area /\ t.last = l
      /\ t.have_checksum = r.have_checksum /\ t.checksum = r.checksum
  BY DEF Readers
<1>4. t \in Readers
  BY <1>1, <1>2 DEF Readers
<1> QED
  BY <1>3, <1>4 DEF l

\* Parts of a memory.
LEMMA MemoryIs ==
  ASSUME NEW m \in Memory
  PROVE  /\ m.program \in [0..PROGRAM_SIZE - 1 -> Bytes]
         /\ m.program_size \in 0..PROGRAM_SIZE /\ m.program_size \in Nat
         /\ m.security \in [0..SECURITY_SIZE - 1 -> Nat]
         /\ m.security_size \in 0..SECURITY_SIZE /\ m.security_size \in Nat
         /\ PROGRAM_SIZE \in Nat /\ SECURITY_SIZE \in Nat
BY HexAssumption DEF Memory

\* A record of the program.
LEMMA ProgramStep ==
  ASSUME NEW m \in Memory, mem \in Memory, reader \in Readers,
         InProgram(m, reader, mem), reader.at < ProgramRecords(m),
         NEW d, d = Records(m.program, m.program_size)[reader.at + 1], ReadData(d)
  PROVE  stage' = stage /\ mem' \in Memory /\ reader' \in Readers
         /\ InProgram(m, reader', mem')
<1> DEFINE size == m.program_size  at == reader.at  a == Got(size, at)
           end == a + Len(d.data)  c == Copy(mem.program, a, d.data)
<1>1. /\ PROGRAM_SIZE \in Nat /\ size \in Nat /\ size <= PROGRAM_SIZE
      /\ m.program \in [0..PROGRAM_SIZE - 1 -> Bytes]
      /\ mem.program \in [0..PROGRAM_SIZE - 1 -> Bytes]
  BY MemoryIs
<1>2. at \in Nat /\ Count(size) \in Nat /\ at \in 0..Count(size) - 1
      /\ at + 1 \in 0..Count(size)
  <2>1. at \in Nat /\ at < Count(size)
    BY DEF Readers, ProgramRecords
  <2>2. Count(size) \in Nat
    BY <1>1, GotBytes, Zenon
  <2> HIDE DEF at, size
  <2> QED
    BY <2>1, <2>2
<1>3. /\ d.type = 0 /\ d.address = a /\ end = Got(size, at + 1)
      /\ Slice(d.data, a, m.program)
  BY <1>1, <1>2, RecordIs
<1>4. a \in Nat /\ end \in 0..size
  <2>1. at \in 0..Count(size)
    BY <1>2
  <2>2. a \in 0..size /\ Got(size, at + 1) \in 0..size
    BY <1>1, <1>2, <2>1, GotBytes, Zenon
  <2> HIDE DEF size, at, a, end
  <2> QED
    BY <1>1, <1>3, <2>2
<1>5. /\ reader.area = "program" /\ reader.last = <<"program", a>> /\ ~reader.have_checksum
      /\ HasProgram(m, mem, a) /\ HasSecurity(m, mem, 0)
  BY DEF InProgram
<1> HIDE DEF size, at, a, end
<1>6. end <= Limit("program")
  BY <1>1, <1>4 DEF Limit
<1>7. /\ stage' = stage
      /\ reader' = [reader EXCEPT !.at = @ + 1, !.last = <<"program", end>>]
      /\ mem' = [mem EXCEPT !.program = c, !.program_size = end]
  <2>1. ~((<<reader.area, d.address>> # reader.last /\ d.address # 0)
          \/ d.address + Len(d.data) > Limit(reader.area))
    <3>1. d.address + Len(d.data) = end
      BY <1>3 DEF end
    <3>2. ~(end > Limit("program"))
      BY <1>1, <1>4, <1>6 DEF Limit
    <3> QED
      BY <1>3, <1>5, <3>1, <3>2
  <2>2. /\ stage' = stage
        /\ reader' = [reader EXCEPT
             !.at = @ + 1, !.last = <<"program", end>>,
             !.checksum = @, !.have_checksum = @ \/ FALSE]
        /\ mem' = [mem EXCEPT !.program = c, !.program_size = end]
    BY <1>3, <1>5, <2>1 DEF ReadData, end
  <2>3. reader' = [reader EXCEPT !.at = @ + 1, !.last = <<"program", end>>]
    BY <1>5, <2>2 DEF Readers
  <2> QED
    BY <2>2, <2>3
<1>8. /\ c \in [0..PROGRAM_SIZE - 1 -> Bytes]
      /\ Agree(c, m.program, end)
  <2>1. Agree(mem.program, m.program, a)
    BY <1>5 DEF HasProgram
  <2>2. Within(m.program, PROGRAM_SIZE, Bytes)
    BY <1>1 DEF Within
  <2>3. a + Len(d.data) <= PROGRAM_SIZE
    BY <1>1, <1>4 DEF end
  <2> QED
    BY <1>1, <1>3, <1>4, <2>1, <2>2, <2>3, Copied, Zenon DEF end
<1> HIDE DEF c
<1>9. end \in 0..PROGRAM_SIZE /\ end \in Nat
  BY <1>1, <1>4
<1>10. /\ mem' \in Memory /\ mem'.program = c /\ mem'.program_size = end
       /\ mem'.security = mem.security /\ mem'.security_size = mem.security_size
  BY <1>7, <1>8, <1>9 DEF Memory
<1>11. /\ reader' \in Readers /\ reader'.at = at + 1 /\ reader'.area = "program"
       /\ reader'.last = <<"program", end>> /\ ~reader'.have_checksum
  <2>1. "program" \in Areas
    BY DEF Areas
  <2> QED
    BY <1>5, <1>7, <1>9, <2>1, NextReader DEF at
<1>12. HasProgram(m, mem', end) /\ HasSecurity(m, mem', 0)
  BY <1>5, <1>8, <1>10, Zenon DEF HasProgram, HasSecurity
<1>13. end = Got(m.program_size, reader'.at) /\ reader'.at <= ProgramRecords(m)
  BY <1>2, <1>3, <1>11 DEF size, at, end, a, ProgramRecords
<1> QED
  BY <1>7, <1>10, <1>11, <1>12, <1>13, Zenon DEF InProgram

\* A record of the protection data.
LEMMA SecurityStep ==
  ASSUME NEW m \in Memory, mem \in Memory, reader \in Readers, m.security_size # 0,
         NEW k \in 0..Count(m.security_size) - 1,
         reader.at = ProgramRecords(m) + 1 + k, ProgramRecords(m) \in Nat,
         reader.area = "security", ~reader.have_checksum,
         HasProgram(m, mem, m.program_size),
         k # 0 => reader.last = <<"security", Got(m.security_size, k)>>,
         HasSecurity(m, mem, Got(m.security_size, k)),
         NEW d, d = Records(m.security, m.security_size)[k + 1], ReadData(d)
  PROVE  stage' = stage /\ mem' \in Memory /\ reader' \in Readers
         /\ InSecurity(m, reader', mem')
<1> DEFINE size == m.security_size  a == Got(size, k)
           end == a + Len(d.data)  c == Copy(mem.security, a, d.data)
<1>1. /\ SECURITY_SIZE \in Nat /\ size \in Nat /\ size <= SECURITY_SIZE
      /\ m.security \in [0..SECURITY_SIZE - 1 -> Nat]
      /\ mem.security \in [0..SECURITY_SIZE - 1 -> Nat]
  BY MemoryIs
<1>2. k \in Nat /\ Count(size) \in Nat /\ k + 1 \in 0..Count(size)
  <2>1. Count(size) \in Nat
    BY <1>1, GotBytes, Zenon
  <2> QED
    BY <2>1
<1>3. /\ d.type = 0 /\ d.address = a /\ end = Got(size, k + 1)
      /\ Slice(d.data, a, m.security)
  BY <1>1, <1>2, RecordIs
<1>4. a \in Nat /\ end \in 0..size /\ (k = 0 => a = 0)
  <2>1. k \in 0..Count(size)
    BY <1>2
  <2>2. a \in 0..size /\ Got(size, k + 1) \in 0..size /\ Got(size, 0) = 0
    BY <1>1, <1>2, <2>1, GotBytes, Zenon
  <2> HIDE DEF size, end
  <2>3. k = 0 => a = 0
    BY <2>2, Zenon
  <2> HIDE DEF a
  <2> QED
    BY <1>1, <1>3, <2>2, <2>3
<1>5. /\ k # 0 => reader.last = <<"security", a>>
      /\ HasSecurity(m, mem, a)
  OBVIOUS
<1> HIDE DEF size, a, end
<1>6. ~(end > Limit("security"))
  BY <1>1, <1>4 DEF Limit
<1>7. /\ stage' = stage
      /\ reader' = [reader EXCEPT !.at = @ + 1, !.last = <<"security", end>>]
      /\ mem' = [mem EXCEPT !.security = c, !.security_size = end]
  <2>1. ~((<<reader.area, d.address>> # reader.last /\ d.address # 0)
          \/ d.address + Len(d.data) > Limit(reader.area))
    <3>1. d.address + Len(d.data) = end
      BY <1>3 DEF end
    <3> QED
      BY <1>3, <1>4, <1>5, <1>6, <3>1
  <2>2. /\ stage' = stage
        /\ reader' = [reader EXCEPT
             !.at = @ + 1, !.last = <<"security", end>>,
             !.checksum = @, !.have_checksum = @ \/ FALSE]
        /\ mem' = [mem EXCEPT !.security = c, !.security_size = end]
    BY <1>3, <2>1 DEF ReadData, end
  <2>3. reader' = [reader EXCEPT !.at = @ + 1, !.last = <<"security", end>>]
    BY <2>2 DEF Readers
  <2> QED
    BY <2>2, <2>3
<1>8. /\ c \in [0..SECURITY_SIZE - 1 -> Nat]
      /\ Agree(c, m.security, end)
      /\ \A i \in end..SECURITY_SIZE - 1 : c[i] = mem.security[i]
  <2>1. Agree(mem.security, m.security, a)
    BY <1>5 DEF HasSecurity
  <2>2. Within(m.security, SECURITY_SIZE, Nat)
    BY <1>1 DEF Within
  <2>3. a + Len(d.data) <= SECURITY_SIZE
    BY <1>1, <1>4 DEF end
  <2> DEFINE past == a + Len(d.data)
  <2>4. past = end
    BY DEF end
  <2>5. SameFrom(c, mem.security, past, SECURITY_SIZE)
    BY <1>1, <1>3, <1>4, <2>1, <2>2, <2>3, Copied, Zenon
  <2>6. c \in [0..SECURITY_SIZE - 1 -> Nat] /\ Agree(c, m.security, past)
    BY <1>1, <1>3, <1>4, <2>1, <2>2, <2>3, Copied, Zenon
  <2> HIDE DEF past, c
  <2> QED
    BY <2>4, <2>5, <2>6, Zenon DEF SameFrom
<1> HIDE DEF c
<1>9. end \in 0..SECURITY_SIZE /\ end \in Nat /\ a <= end
  <2>1. Len(d.data) \in Nat
    BY <1>3 DEF Slice
  <2> QED
    BY <1>1, <1>4, <2>1 DEF end
<1>10. /\ mem' \in Memory /\ mem'.security = c /\ mem'.security_size = end
       /\ mem'.program = mem.program /\ mem'.program_size = mem.program_size
  <2>1. mem' = [mem EXCEPT !.security = c, !.security_size = end]
    BY <1>7
  <2>2. c \in [0..SECURITY_SIZE - 1 -> Nat] /\ end \in 0..SECURITY_SIZE
    BY <1>8, <1>9
  <2> QED
    BY <2>1, <2>2 DEF Memory
<1>11. /\ reader' \in Readers /\ reader'.at = reader.at + 1 /\ reader'.area = "security"
       /\ reader'.last = <<"security", end>> /\ ~reader'.have_checksum
  <2>1. "security" \in Areas
    BY DEF Areas
  <2> QED
    BY <1>7, <1>9, <2>1, NextReader
<1>12. \A i \in end..SECURITY_SIZE - 1 : c[i] = 0
  <2> TAKE i \in end..SECURITY_SIZE - 1
  <2>1. i \in a..SECURITY_SIZE - 1
    BY <1>1, <1>4, <1>9
  <2> QED
    BY <1>5, <1>8, <2>1 DEF HasSecurity
<1>13. HasProgram(m, mem', m.program_size) /\ HasSecurity(m, mem', end)
  BY <1>8, <1>10, <1>12, Zenon DEF HasProgram, HasSecurity
<1>14. /\ k + 1 \in 0..Count(m.security_size) /\ end = Got(m.security_size, k + 1)
       /\ reader'.at = ProgramRecords(m) + 1 + (k + 1)
  BY <1>2, <1>3, <1>11 DEF size, a, end
<1>15. \E j \in 0..Count(m.security_size) :
         /\ reader'.at = ProgramRecords(m) + 1 + j
         /\ j # 0 => reader'.last = <<"security", Got(m.security_size, j)>>
         /\ HasSecurity(m, mem', Got(m.security_size, j))
  BY <1>11, <1>13, <1>14, Zenon
<1> QED
  BY <1>7, <1>10, <1>11, <1>13, <1>15, Zenon DEF InSecurity

\* An extended address record selects the next area.
LEMMA AreaStep ==
  ASSUME NEW m \in Memory, NEW sum, mem \in Memory, reader \in Readers,
         NEW area \in {"security", "checksum"}, NEW d, d = Extended(area), ReadExtended(d)
  PROVE  /\ stage' = stage /\ mem' = mem /\ reader' \in Readers
         /\ reader'.at = reader.at + 1 /\ reader'.area = area
         /\ reader'.have_checksum = reader.have_checksum
<1>1. d.area = area /\ area \in Areas
  BY DEF Extended, Areas
<1>2. /\ stage' = stage /\ mem' = mem
      /\ reader' = [reader EXCEPT !.at = @ + 1, !.area = area]
  BY <1>1, Zenon DEF ReadExtended
<1>3. reader.at + 1 \in Nat
  BY DEF Readers
<1> QED
  BY <1>1, <1>2, <1>3 DEF Readers

\* The record of the checksum.
LEMMA ChecksumStep ==
  ASSUME mem \in Memory, reader \in Readers, reader.area = "checksum",
         NEW x \in Nat, NEW y \in Nat, NEW d, d = DataRecord(0, <<x, y>>), ReadData(d)
  PROVE  /\ stage' = stage /\ mem' = mem /\ reader' \in Readers
         /\ reader'.at = reader.at + 1 /\ reader'.area = "checksum" /\ reader'.have_checksum
         /\ reader'.checksum[0] = x /\ reader'.checksum[1] = y
<1> DEFINE data == <<x, y>>  c == Copy(reader.checksum, 0, data)
<1>1. d.type = 0 /\ d.address = 0 /\ d.data = data
  BY DEF DataRecord
<1>2. Len(data) = 2 /\ data[1] = x /\ data[2] = y
  OBVIOUS
<1>3. Limit("checksum") = 2
  BY DEF Limit
<1>4. reader.checksum \in [0..1 -> Nat]
  BY DEF Readers
<1>5. c \in [0..1 -> Nat] /\ c[0] = x /\ c[1] = y
  BY <1>2, <1>4 DEF Copy
<1> HIDE DEF c, data
<1>7. d.address + Len(d.data) = 2
  <2>1. Len(d.data) = 2 /\ d.address = 0
    BY <1>1, <1>2, Zenon
  <2>2. 0 + 2 = 2
    OBVIOUS
  <2> QED
    BY <2>1, <2>2, Zenon
<1>6. ~((<<reader.area, d.address>> # reader.last /\ d.address # 0)
        \/ d.address + Len(d.data) > Limit(reader.area))
  <2>1. ~(2 > 2)
    OBVIOUS
  <2> QED
    BY <1>1, <1>3, <1>7, <2>1, Zenon
<1>8. /\ stage' = stage /\ mem' = mem
      /\ reader' = [reader EXCEPT !.at = @ + 1, !.last = <<"checksum", 2>>,
                                  !.checksum = c, !.have_checksum = TRUE]
  <2>1. /\ stage' = stage /\ mem' = mem
        /\ reader' = [reader EXCEPT
             !.at = @ + 1, !.last = <<"checksum", 2>>,
             !.checksum = c, !.have_checksum = @ \/ TRUE]
    BY <1>1, <1>6, <1>7 DEF ReadData, c
  <2> QED
    BY <2>1
<1>9. reader.at + 1 \in Nat
  BY DEF Readers
<1> DEFINE l == <<"checksum", 2>>
<1>10. l \in Areas \X Nat
  BY DEF Areas
<1> HIDE DEF l
<1>11. reader' = [reader EXCEPT !.at = @ + 1, !.last = l, !.checksum = c, !.have_checksum = TRUE]
  BY <1>8 DEF l
<1>12. /\ reader'.at = reader.at + 1 /\ reader'.area = "checksum"
       /\ reader'.checksum = c /\ reader'.have_checksum
  BY <1>11 DEF Readers
<1>13. reader' \in Readers
  BY <1>5, <1>9, <1>10, <1>11 DEF Readers
<1> QED
  BY <1>5, <1>8, <1>12, <1>13

\* What is in memory at the end has the checksum of what is in the file.
LEMMA WholeProgram ==
  ASSUME NEW m \in Memory, NEW x \in Memory, HasProgram(m, x, m.program_size)
  PROVE  do_checksum(x) = do_checksum(m)
BY SameChecksum, Zenon DEF HasProgram, Agree

\* A record of a hex file that is as it was written up to its end.
LEMMA HexStep ==
  ASSUME NEW m \in Memory, NEW sum \in Nat, TwoBytes(sum),
         mem \in Memory, reader \in Readers, HexSoFar(m, sum, reader, mem),
         NEW d, d = write_hex(m, sum)[reader.at + 1],
         image.format = "hex", ReadNext(d)
  PROVE  \/ /\ stage' = stage /\ mem' \in Memory /\ reader' \in Readers
            /\ HexSoFar(m, sum, reader', mem')
         \/ /\ reader.at = LastData(m) + 2 /\ mem' = mem
            /\ HasProgram(m, mem, m.program_size) /\ HasSecurity(m, mem, m.security_size)
            /\ stage' = IF do_checksum(m) = sum THEN "loaded" ELSE "refused"
<1> DEFINE P == ProgramRecords(m)  Q == LastData(m)  S == Count(m.security_size)
           W == write_hex(m, sum)  at == reader.at
<1>0. HexLayout(m, sum, W, P, Q)
  BY HexRecords, Zenon
<1> HIDE DEF P, Q, W
<1>1. /\ P \in Nat /\ Q \in Nat /\ Len(W) = Q + 3
      /\ \A k \in 1..P : W[k] = Records(m.program, m.program_size)[k]
      /\ m.security_size = 0 => Q = P
      /\ m.security_size # 0 =>
           /\ Q = P + 1 + S /\ W[P + 1] = Extended("security")
           /\ \A k \in 1..S : W[P + 1 + k] = Records(m.security, m.security_size)[k]
      /\ W[Q + 1] = Extended("checksum")
      /\ W[Q + 2] = SumRecord(sum)
      /\ W[Q + 3] = EndRecord
  BY <1>0 DEF HexLayout, S
<1>2. /\ m.program_size \in Nat /\ m.security_size \in Nat /\ S \in Nat
      /\ Got(m.program_size, P) = m.program_size
      /\ Got(m.security_size, 0) = 0 /\ Got(m.security_size, S) = m.security_size
  BY MemoryIs, GotBytes, Zenon DEF P, ProgramRecords
<1>3. /\ P \in Nat /\ Q \in Nat /\ S \in Nat /\ at \in Nat
      /\ m.security_size = 0 => Q = P
      /\ m.security_size # 0 => Q = P + 1 + S
  <2>1. at \in Nat
    BY DEF Readers
  <2> QED
    BY <1>1, <1>2, <2>1, Zenon
<1>4. ReadData(d) \/ ReadExtended(d) \/ ReadEndRecord(d)
  <2>1. ~ReadDigit(d) /\ ~ReadBlank(d)
    BY DEF ReadDigit, ReadBlank, Reads
  <2> QED
    BY <2>1 DEF ReadNext
<1> DEFINE Goes == /\ stage' = stage /\ mem' \in Memory /\ reader' \in Readers
                   /\ HexSoFar(m, sum, reader', mem')
           Ends == /\ reader.at = LastData(m) + 2 /\ mem' = mem
                   /\ HasProgram(m, mem, m.program_size)
                   /\ HasSecurity(m, mem, m.security_size)
                   /\ stage' = IF do_checksum(m) = sum THEN "loaded" ELSE "refused"
<1>5. /\ ReadData(d) => d.type = 0
      /\ ReadExtended(d) => d.type = 4
      /\ ReadEndRecord(d) => d.type = 1
  BY Zenon DEF ReadData, ReadExtended, ReadEndRecord
<1>6. \A a : Extended(a).type = 4
  BY DEF Extended
<1>7. \A a, b : DataRecord(a, b).type = 0
  BY DEF DataRecord
<1>8. EndRecord.type = 1
  BY DEF EndRecord
<1> HIDE DEF P, Q, S, W, at, Goes, Ends
<1>9. d = W[at + 1]
  BY DEF W, at
\* the record that selects the checksum
<1>10. ASSUME at = Q, ~reader.have_checksum,
              HasProgram(m, mem, m.program_size), HasSecurity(m, mem, m.security_size)
       PROVE  Goes
  <2>1. d = Extended("checksum") /\ ReadExtended(d)
    BY <1>1, <1>4, <1>5, <1>6, <1>9, <1>10
  <2>2. /\ stage' = stage /\ mem' = mem /\ reader' \in Readers
        /\ reader'.at = Q + 1 /\ reader'.area = "checksum" /\ ~reader'.have_checksum
    BY <1>10, <2>1, AreaStep DEF at
  <2>3. InChecksum(m, sum, reader', mem')
    BY <1>10, <2>2, Zenon DEF InChecksum, Q
  <2> QED
    BY <2>2, <2>3 DEF Goes, HexSoFar
<1>11. CASE InProgram(m, reader, mem)
  <2>1. /\ at <= P /\ ~reader.have_checksum /\ HasSecurity(m, mem, 0)
        /\ HasProgram(m, mem, Got(m.program_size, at))
    BY <1>11, Zenon DEF InProgram, at, P
  <2>2. CASE at < P
    <3>1. at + 1 \in 1..P /\ at \in 0..P - 1
      BY <1>3, <2>2
    <3>2. d = Records(m.program, m.program_size)[at + 1] /\ at \in 0..Count(m.program_size) - 1
      <4>1. W[at + 1] = Records(m.program, m.program_size)[at + 1]
        BY <1>1, <3>1, Zenon
      <4> QED
        BY <1>9, <3>1, <4>1, Zenon DEF P, ProgramRecords
    <3>3. d.type = 0
      BY <1>2, <3>2, RecordIs
    <3>4. ReadData(d)
      BY <1>4, <1>5, <3>3
    <3>5. /\ stage' = stage /\ mem' \in Memory /\ reader' \in Readers
          /\ InProgram(m, reader', mem')
      BY <1>11, <2>2, <3>2, <3>4, ProgramStep DEF at, P
    <3> QED
      BY <3>5 DEF Goes, HexSoFar
  <2>3. CASE at = P /\ m.security_size # 0
    <3>1. d = Extended("security") /\ ReadExtended(d)
      BY <1>1, <1>4, <1>5, <1>6, <1>9, <2>3
    <3>2. /\ stage' = stage /\ mem' = mem /\ reader' \in Readers
          /\ reader'.at = P + 1 /\ reader'.area = "security" /\ ~reader'.have_checksum
      BY <2>1, <2>3, <3>1, AreaStep DEF at
    <3>3. 0 \in 0..S /\ P + 1 + 0 = P + 1
      BY <1>3
    <3>4. HasProgram(m, mem', m.program_size) /\ HasSecurity(m, mem', Got(m.security_size, 0))
      BY <1>2, <2>1, <2>3, <3>2
    <3>5. \E k \in 0..S :
            /\ reader'.at = P + 1 + k
            /\ k # 0 => reader'.last = <<"security", Got(m.security_size, k)>>
            /\ HasSecurity(m, mem', Got(m.security_size, k))
      BY <3>2, <3>3, <3>4, Zenon
    <3>6. InSecurity(m, reader', mem')
      BY <2>3, <3>2, <3>4, <3>5, Zenon DEF InSecurity, P, S
    <3> QED
      BY <3>2, <3>6 DEF Goes, HexSoFar
  <2>4. CASE at = P /\ m.security_size = 0
    <3>1. at = Q /\ HasProgram(m, mem, m.program_size) /\ HasSecurity(m, mem, m.security_size)
      BY <1>2, <1>3, <2>1, <2>4, Zenon
    <3> QED
      BY <1>10, <2>1, <3>1, Zenon DEF Goes
  <2> QED
    BY <1>3, <2>1, <2>2, <2>3, <2>4
<1>12. CASE InSecurity(m, reader, mem)
  <2>1. /\ m.security_size # 0 /\ reader.area = "security" /\ ~reader.have_checksum
        /\ HasProgram(m, mem, m.program_size)
    BY <1>12, Zenon DEF InSecurity
  <2>2. PICK k \in 0..S :
          /\ at = P + 1 + k
          /\ k # 0 => reader.last = <<"security", Got(m.security_size, k)>>
          /\ HasSecurity(m, mem, Got(m.security_size, k))
    BY <1>12, Zenon DEF InSecurity, P, S, at
  <2>3. CASE k < S
    <3>1. k + 1 \in 1..S /\ at + 1 = P + 1 + (k + 1) /\ k \in 0..S - 1
      BY <1>3, <2>2, <2>3
    <3>2. d = Records(m.security, m.security_size)[k + 1]
      BY <1>1, <1>9, <2>1, <3>1
    <3>3. d.type = 0
      BY <1>2, <3>1, <3>2, RecordIs DEF S
    <3>4. ReadData(d)
      BY <1>4, <1>5, <3>3
    <3>5. /\ stage' = stage /\ mem' \in Memory /\ reader' \in Readers
          /\ InSecurity(m, reader', mem')
      BY <1>1, <2>1, <2>2, <3>1, <3>2, <3>4, SecurityStep, Zenon DEF S, P, at
    <3> QED
      BY <3>5 DEF Goes, HexSoFar
  <2>4. CASE ~(k < S)
    <3>1. k = S /\ at = Q
      BY <1>3, <2>1, <2>2, <2>4
    <3> QED
      <4>1. HasSecurity(m, mem, m.security_size)
        BY <1>2, <2>2, <3>1, Zenon
      <4> QED
        BY <1>10, <2>1, <3>1, <4>1, Zenon DEF Goes
  <2> QED
    BY <2>3, <2>4
<1>13. CASE InChecksum(m, sum, reader, mem)
  <2>1. /\ reader.area = "checksum"
        /\ HasProgram(m, mem, m.program_size) /\ HasSecurity(m, mem, m.security_size)
    BY <1>13, Zenon DEF InChecksum
  <2>2. CASE at = Q + 1
    <3> DEFINE x == sum \div 256  y == sum % 256
    <3>1. x \in Nat /\ y \in Nat
      BY Z3
    <3>2. at + 1 = Q + 2
      BY <1>3, <2>2
    <3> HIDE DEF x, y
    <3>3. d = DataRecord(0, <<x, y>>) /\ ReadData(d)
      BY <1>1, <1>4, <1>5, <1>7, <1>9, <3>2 DEF SumRecord, x, y
    <3>4. /\ stage' = stage /\ mem' = mem /\ reader' \in Readers
          /\ reader'.at = at + 1 /\ reader'.area = "checksum" /\ reader'.have_checksum
          /\ reader'.checksum[0] = x /\ reader'.checksum[1] = y
      BY <2>1, <3>1, <3>3, ChecksumStep DEF at
    <3>5. InChecksum(m, sum, reader', mem')
      BY <2>1, <3>2, <3>4, Zenon DEF InChecksum, Q, x, y
    <3> QED
      BY <3>4, <3>5 DEF Goes, HexSoFar
  <2> DEFINE Full == /\ at = Q + 2 /\ reader.have_checksum
                     /\ reader.checksum[0] = sum \div 256 /\ reader.checksum[1] = sum % 256
  <2>3. CASE Full
    <3>1. at + 1 = Q + 3
      BY <1>3, <2>3
    <3>2. d = EndRecord /\ ReadEndRecord(d)
      BY <1>1, <1>4, <1>5, <1>8, <1>9, <3>1
    <3>3. do_checksum(mem) = do_checksum(m)
      BY <2>1, WholeProgram
    <3>4. Mismatch(mem, reader) <=> do_checksum(m) # sum
      BY <2>3, <3>3 DEF Mismatch, TwoBytes
    <3>5. mem' = mem /\ stage' = IF do_checksum(m) = sum THEN "loaded" ELSE "refused"
      BY <3>2, <3>4, Zenon DEF ReadEndRecord, Refuse
    <3>6. reader.at = LastData(m) + 2
      BY <2>3 DEF at, Q
    <3> QED
      BY <2>1, <3>5, <3>6 DEF Ends
  <2>4. at = Q + 1 \/ Full
    BY <1>13, SMT DEF InChecksum, Q, at
  <2> HIDE DEF Full
  <2> QED
    BY <2>2, <2>3, <2>4, Zenon
<1>14. InProgram(m, reader, mem) \/ InSecurity(m, reader, mem) \/ InChecksum(m, sum, reader, mem)
  BY Zenon DEF HexSoFar
<1> QED
  BY <1>11, <1>12, <1>13, <1>14, Zenon

-----------------------------------------------------------------------------
(* Reading a ROM file *)

RomSoFar(m, r, x) ==
  \E q \in 0..m.program_size :
    \/ /\ r.at = 3 * q /\ r.digit = NoDigit /\ HasProgram(m, x, q)
    \/ /\ q < m.program_size /\ r.at = (3 * q) + 1
       /\ r.digit = m.program[q] \div 16 /\ HasProgram(m, x, q)
    \/ /\ q < m.program_size /\ r.at = (3 * q) + 2
       /\ r.digit = NoDigit /\ HasProgram(m, x, q + 1)

\* Two digits make a byte.
LEMMA TwoDigits ==
  ASSUME NEW b \in Bytes
  PROVE  /\ b \div 16 \in 0..15 /\ b % 16 \in 0..15
         /\ ((b \div 16) * 16) + (b % 16) = b
<1>1. b \in Nat /\ b < 256
  BY DEF Bytes
<1>2. b \div 16 \in Nat /\ b \div 16 < 16 /\ b % 16 \in Nat /\ b % 16 < 16
      /\ (16 * (b \div 16)) + (b % 16) = b
  BY <1>1, Z3
<1> DEFINE h == b \div 16  l == b % 16
<1> HIDE DEF h, l
<1>3. h \in 0..15 /\ l \in 0..15 /\ (h * 16) + l = b
  <2>1. h \in Nat /\ h < 16 /\ l \in Nat /\ l < 16 /\ (16 * h) + l = b
    BY <1>2 DEF h, l
  <2> QED
    BY <1>1, <2>1
<1> QED
  BY <1>3 DEF h, l

\* The characters for a byte.
LEMMA RomChars ==
  ASSUME NEW m \in Memory, NEW q \in 0..m.program_size - 1
  PROVE  /\ write_rom(m)[(3 * q) + 1] = m.program[q] \div 16
         /\ write_rom(m)[(3 * q) + 2] = m.program[q] % 16
         /\ write_rom(m)[(3 * q) + 3] = 16
<1>1. q \in Nat /\ m.program_size \in Nat
  BY MemoryIs
<1>2. /\ ((3 * q) + 1) % 3 = 1 /\ (((3 * q) + 1) - 1) \div 3 = q
      /\ ((3 * q) + 2) % 3 = 2 /\ (((3 * q) + 2) - 1) \div 3 = q
      /\ ((3 * q) + 3) % 3 = 0
  BY <1>1, Z3
<1>3. {(3 * q) + 1, (3 * q) + 2, (3 * q) + 3} \subseteq 1..3 * m.program_size
  BY <1>1
<1> DEFINE Char(k) == LET b == m.program[(k - 1) \div 3]
                      IN CASE k % 3 = 1 -> b \div 16 [] k % 3 = 2 -> b % 16 [] OTHER -> 16
<1>4. \A k \in 1..3 * m.program_size : write_rom(m)[k] = Char(k)
  <2>1. write_rom(m) = [k \in 1..3 * m.program_size |-> Char(k)]
    BY DEF write_rom
  <2> DEFINE D == 1..3 * m.program_size
  <2> HIDE DEF Char, D
  <2>2. write_rom(m) = [k \in D |-> Char(k)]
    BY <2>1 DEF D
  <2>3. \A k \in D : write_rom(m)[k] = Char(k)
    BY <2>2, Zenon
  <2> QED
    BY <2>3 DEF D
<1>5. Char((3 * q) + 1) = m.program[q] \div 16
  BY <1>2
<1>6. Char((3 * q) + 2) = m.program[q] % 16
  <2>1. 2 # 1
    OBVIOUS
  <2> QED
    BY <1>2, <2>1
<1>7. Char((3 * q) + 3) = 16
  <2>1. 0 # 1 /\ 0 # 2
    OBVIOUS
  <2> QED
    BY <1>2, <2>1
<1> HIDE DEF Char
<1> QED
  BY <1>3, <1>4, <1>5, <1>6, <1>7

\* A character of a ROM file.
LEMMA RomStep ==
  ASSUME NEW m \in Memory, mem \in Memory, reader \in Readers, RomSoFar(m, reader, mem),
         reader.at < 3 * m.program_size,
         NEW c, c = write_rom(m)[reader.at + 1], image.format = "rom", ReadNext(c)
  PROVE  /\ stage' = stage /\ mem' \in Memory /\ reader' \in Readers
         /\ RomSoFar(m, reader', mem')
<1> DEFINE N == m.program_size
           Goal == /\ stage' = stage /\ mem' \in Memory /\ reader' \in Readers
                   /\ RomSoFar(m, reader', mem')
<1>1. /\ N \in Nat /\ N <= PROGRAM_SIZE /\ PROGRAM_SIZE \in Nat
      /\ m.program \in [0..PROGRAM_SIZE - 1 -> Bytes]
      /\ mem.program \in [0..PROGRAM_SIZE - 1 -> Bytes]
  BY MemoryIs
<1>2. reader.at \in Nat
  BY DEF Readers
<1>3. ReadDigit(c) \/ ReadBlank(c)
  <2>1. ~ReadData(c) /\ ~ReadExtended(c) /\ ~ReadEndRecord(c)
    BY DEF ReadData, ReadExtended, ReadEndRecord, Reads
  <2> QED
    BY <2>1, Zenon DEF ReadNext
<1>4. (ReadDigit(c) => c < 16) /\ (ReadBlank(c) => c >= 16)
  BY Zenon DEF ReadDigit, ReadBlank
<1>5. PICK q \in 0..N :
    \/ /\ reader.at = 3 * q /\ reader.digit = NoDigit /\ HasProgram(m, mem, q)
    \/ /\ q < N /\ reader.at = (3 * q) + 1
       /\ reader.digit = m.program[q] \div 16 /\ HasProgram(m, mem, q)
    \/ /\ q < N /\ reader.at = (3 * q) + 2
       /\ reader.digit = NoDigit /\ HasProgram(m, mem, q + 1)
  BY DEF RomSoFar
<1>6. q \in Nat /\ q < N /\ q \in 0..N - 1 /\ q \in 0..PROGRAM_SIZE - 1
  BY <1>1, <1>2, <1>5
<1> DEFINE b == m.program[q]
<1>7. b \in Bytes
  BY <1>1, <1>6
<1>8. /\ write_rom(m)[(3 * q) + 1] = b \div 16
      /\ write_rom(m)[(3 * q) + 2] = b % 16
      /\ write_rom(m)[(3 * q) + 3] = 16
  BY <1>6, RomChars
<1>9. b \div 16 \in 0..15 /\ b % 16 \in 0..15 /\ ((b \div 16) * 16) + (b % 16) = b
  BY <1>7, TwoDigits
<1>10. reader.at + 1 \in Nat
  BY <1>2
<1> DEFINE hi == b \div 16  lo == b % 16
<1> HIDE DEF N, b
<1>11. CASE reader.at = 3 * q /\ reader.digit = NoDigit /\ HasProgram(m, mem, q)
  <2>1. c = hi
    BY <1>8, <1>11
  <2> HIDE DEF hi
  <2>2. hi \in Nat /\ hi < 16
    BY <1>9 DEF hi
  <2>3. ReadDigit(c)
    BY <1>3, <1>4, <2>1, <2>2
  <2>4. /\ stage' = stage /\ mem' = mem
        /\ reader' = [reader EXCEPT !.at = @ + 1, !.digit = hi]
    BY <1>11, <2>1, <2>3 DEF ReadDigit
  <2>5. reader' \in Readers /\ reader'.at = (3 * q) + 1 /\ reader'.digit = hi
    BY <1>10, <1>11, <2>2, <2>4 DEF Readers
  <2>6. RomSoFar(m, reader', mem')
    BY <1>5, <1>6, <1>11, <2>4, <2>5 DEF RomSoFar, N, hi, b
  <2> QED
    BY <2>4, <2>5, <2>6
<1>12. CASE reader.at = (3 * q) + 1 /\ reader.digit = m.program[q] \div 16
            /\ HasProgram(m, mem, q)
  <2>1. c = lo /\ reader.digit = hi
    <3>1. reader.at + 1 = (3 * q) + 2
      BY <1>6, <1>12
    <3> QED
      BY <1>8, <1>12, <3>1 DEF b
  <2> HIDE DEF hi, lo
  <2>2. hi \in Nat /\ hi < 16 /\ lo \in Nat /\ lo < 16 /\ (hi * 16) + lo = b
    BY <1>9 DEF hi, lo
  <2>3. ReadDigit(c)
    BY <1>3, <1>4, <2>1, <2>2
  <2>4. mem.program_size = q /\ Agree(mem.program, m.program, q)
    BY <1>12 DEF HasProgram
  <2>5. /\ stage' = stage
        /\ reader' = [reader EXCEPT !.at = @ + 1, !.digit = NoDigit]
        /\ mem' = [mem EXCEPT !.program[q] = b, !.program_size = q + 1]
    <3>1. reader.digit # NoDigit
      BY <2>1, <2>2 DEF NoDigit
    <3>2. mem.program_size # PROGRAM_SIZE
      BY <1>1, <1>6, <2>4
    <3> QED
      BY <2>1, <2>2, <2>3, <2>4, <3>1, <3>2 DEF ReadDigit
  <2>6. reader' \in Readers /\ reader'.at = (3 * q) + 2 /\ reader'.digit = NoDigit
    <3>1. reader.at + 1 = (3 * q) + 2
      BY <1>6, <1>12
    <3>2. NoDigit \in Nat
      BY DEF NoDigit
    <3> QED
      BY <1>10, <2>5, <3>1, <3>2 DEF Readers
  <2> DEFINE p == [mem.program EXCEPT ![q] = b]
  <2>7. mem'.program = p /\ mem'.program_size = q + 1
    BY <2>5 DEF Memory
  <2>8. p \in [0..PROGRAM_SIZE - 1 -> Bytes]
    BY <1>1, <1>6, <1>7
  <2>9. mem' \in Memory
    <3>1. q + 1 \in 0..PROGRAM_SIZE
      BY <1>1, <1>6
    <3> HIDE DEF p
    <3>2. mem' = [mem EXCEPT !.program = p, !.program_size = q + 1]
      BY <2>5 DEF p
    <3> QED
      BY <2>8, <3>1, <3>2 DEF Memory
  <2>10. Agree(p, m.program, q + 1)
    <3> SUFFICES ASSUME NEW i \in 0..(q + 1) - 1 PROVE p[i] = m.program[i]
      BY DEF Agree
    <3>1. i \in 0..PROGRAM_SIZE - 1
      BY <1>1, <1>6
    <3>2. CASE i = q
      BY <1>1, <1>6, <3>2 DEF b
    <3>3. CASE i # q
      <4>1. i \in 0..q - 1
        BY <1>6, <3>3
      <4> QED
        BY <1>1, <2>4, <3>1, <3>3, <4>1 DEF Agree
    <3> QED
      BY <3>2, <3>3
  <2> HIDE DEF p
  <2>11. HasProgram(m, mem', q + 1)
    BY <2>7, <2>10, Zenon DEF HasProgram
  <2>12. RomSoFar(m, reader', mem')
    BY <1>6, <2>6, <2>11 DEF RomSoFar, N
  <2> QED
    BY <2>5, <2>6, <2>9, <2>12
<1>13. CASE reader.at = (3 * q) + 2 /\ reader.digit = NoDigit /\ HasProgram(m, mem, q + 1)
  <2>1. reader.at + 1 = (3 * q) + 3 /\ (3 * q) + 3 = 3 * (q + 1) /\ q + 1 \in 0..N
    <3>1. N \in Nat /\ q \in Nat /\ q < N
      BY <1>1, <1>6, Zenon
    <3>2. reader.at = (3 * q) + 2
      BY <1>13, Zenon
    <3>3. (3 * q) + 2 + 1 = (3 * q) + 3 /\ (3 * q) + 3 = 3 * (q + 1) /\ q + 1 \in 0..N
      BY <3>1
    <3> QED
      BY <3>2, <3>3, Zenon
  <2>2. c = 16
    BY <1>8, <2>1
  <2>3. ReadBlank(c)
    BY <1>3, <1>4, <2>2
  <2>4. /\ stage' = stage /\ mem' = mem /\ reader' = [reader EXCEPT !.at = @ + 1]
    BY <1>13, <2>2, <2>3 DEF ReadBlank, Other
  <2>5. reader' \in Readers /\ reader'.at = 3 * (q + 1) /\ reader'.digit = NoDigit
    BY <1>10, <1>13, <2>1, <2>4 DEF Readers
  <2>6. HasProgram(m, mem', q + 1)
    BY <1>13, <2>4
  <2>7. RomSoFar(m, reader', mem')
    BY <2>1, <2>5, <2>6, Zenon DEF RomSoFar, N
  <2> QED
    BY <2>4, <2>5, <2>7
<1> QED
  BY <1>5, <1>6, <1>11, <1>12, <1>13

-----------------------------------------------------------------------------
(* The way of a file *)

Stages == {"protect", "assembled", "reading", "loaded", "refused", "protected", "overrun"}

\* Protection that is no more than a block is for no more than a block.
Tight(m) == Len(modes) <= 4 * BLOCK_SIZE => m.security_size <= BLOCK_SIZE

Kinds == stage \in Stages /\ case \in Cases /\ Few /\ mem \in Memory

Noting ==
  stage = "protect" => mem.security_size = 0 /\ Holds(mem.security, Noted) /\ reader = FirstRecord

\* A hex file is the one that was written for held up to its end, with the
\* checksum of sent.
HexImage(s, i) ==
  /\ i.held \in Memory /\ i.damage \in {"none", "cut", "emptied", "changed"}
  /\ IF i.damage = "changed"
     THEN \E a \in 0..s.program_size - 1, d \in 1..255 :
            i.held = OneChanged(s, a, d)
     ELSE i.held = s
  /\ Len(i.body) \in 0..LastData(i.held) + 3
  /\ Len(i.body) = LastData(i.held) + 3 <=> i.damage \in {"none", "changed"}
  /\ Len(i.body) = 0 <=> i.damage = "emptied"
  /\ \A k \in 1..Len(i.body) :
       i.body[k] = write_hex(i.held, do_checksum(s))[k]

\* A file taken for another holds any characters.
Characters == 0..17

FileHolds ==
  stage # "protect" =>
    /\ sent \in Memory /\ Carries(sent) /\ ZeroTail(sent) /\ Tight(sent)
    /\ \/ image.format = "hex" /\ HexImage(sent, image)
       \/ /\ image.format \in {"rom", "binary"} /\ Unprotected(sent)
          /\ IF image.damage = "none" THEN image.body = write_file(sent, image.format)
             ELSE /\ image.damage = "misread"
                  /\ image.format = "rom" => image.body \in Seq(Characters)

SoFar ==
  /\ stage = "assembled" =>
       mem = Blank /\ reader = FirstRecord /\ image.damage # "misread"
  /\ stage = "reading" =>
       /\ reader \in Readers
       /\ image.format = "hex" =>
            HexSoFar(image.held, do_checksum(sent), reader, mem)
       /\ image.format # "hex" => mem.security_size = 0
       /\ image.format = "rom" /\ image.damage = "none" => RomSoFar(sent, reader, mem)
       /\ image.damage = "misread" => image.format = "rom" /\ reader.digit \in 0..NoDigit

\* What m8cprog has is what the assembler had, or there is no protection.
Arrived ==
  stage = "loaded" =>
    /\ image.format = "hex" /\ image.damage # "emptied" =>
         mem.security = sent.security /\ mem.security_size = sent.security_size
    /\ image.format = "hex" /\ image.damage = "emptied" => mem.security_size = 0
    /\ image.format # "hex" => Unprotected(sent) /\ mem.security_size = 0

FileInv ==
  /\ Kinds /\ Noting /\ FileHolds /\ SoFar /\ Arrived
  /\ LoadedIfWhole /\ ProtectionArrives

\* The protection file is filled to whole bytes.
LEMMA FilledTight ==
  ASSUME Few PROVE Tight(FillByte)
<1>1. Len(modes) \in Nat
  BY DEF Few
<1>2. SUFFICES ASSUME Len(modes) <= 4 * BLOCK_SIZE
               PROVE  RoundUp(Len(modes), 4) \div 4 <= BLOCK_SIZE
  BY DEF Tight, FillByte, NextBlock, Memory
<1> QED
  BY <1>1, <1>2, WholeBytes, HexAssumption

\* check_security adds no more than what is missing of a block.
LEMMA FileTight ==
  ASSUME NEW m \in Memory, Tight(m)
  PROVE  Tight(check_security_data(m, NoChip))
<1> DEFINE r == RoundUp(m.security_size, BLOCK_SIZE)
<1>1. check_security_data(m, NoChip) = IF Unprotected(m) THEN m ELSE PadTo(m, r)
  BY DEF check_security_data, NoChip
<1>2. PadTo(m, r).security_size = r
  BY DEF PadTo, Memory
<1>3. BLOCK_SIZE \in Nat \ {0} /\ m.security_size \in Nat
  BY HexAssumption, MemoryIs
<1>4. BLOCK_SIZE % BLOCK_SIZE = 0
  BY <1>3, Z3
<1>5. m.security_size <= BLOCK_SIZE => r <= BLOCK_SIZE
  BY <1>3, <1>4, RoundedUp
<1> HIDE DEF r
<1> QED
  BY <1>1, <1>2, <1>5 DEF Tight

\* What carries no protection says U of every block.
LEMMA NoModes ==
  ASSUME Few, NEW m \in Memory, Carries(m), Unprotected(m), NEW b \in Nat
  PROVE  Given(b) = U
<1>1. m.security_size \in Nat /\ Len(modes) \in Nat
  BY MemoryIs DEF Few
<1>2. ASSUME NEW c \in 0..Len(modes) - 1
      PROVE  modes[c + 1] = 0
  <2>1. c \in 0..(4 * m.security_size) - 1 /\ c \in Nat
    BY <1>1 DEF Carries
  <2>2. Given(c) = modes[c + 1] /\ Given(c) = ModeIn(m.security, c)
    BY <1>2, <2>1, <1>1 DEF Carries, Given
  <2>3. PICK i \in Nat, k \in 0..3 : c = (4 * i) + k /\ c \div 4 = i /\ c % 4 = k
    BY <2>1, FourBlocks
  <2>4. i \in 0..m.security_size - 1
    BY <1>1, <2>1, <2>3
  <2>5. m.security[c \div 4] = 0
    BY <2>3, <2>4 DEF Unprotected
  <2>6. (0 \div Pow4(c % 4)) % 4 = 0
    BY <2>1, PaddingModes DEF U
  <2> QED
    BY <2>2, <2>5, <2>6 DEF ModeIn
<1>3. ~AnyStrong
  <2> SUFFICES ASSUME NEW k \in DOMAIN modes, modes[k] > 1 PROVE FALSE
    BY DEF AnyStrong
  <2>1. k \in 1..Len(modes)
    BY DEF Few
  <2>2. k - 1 \in 0..Len(modes) - 1 /\ (k - 1) + 1 = k
    BY <1>1, <2>1
  <2> QED
    BY <1>2, <2>2
<1>4. ~(\E k \in DOMAIN modes : modes[k] > 1)
  BY <1>3 DEF AnyStrong
<1>5. CASE b < Len(modes)
  <2>1. b \in 0..Len(modes) - 1
    BY <1>1, <1>5
  <2> QED
    BY <1>2, <1>5, <2>1 DEF Given, U
<1>6. CASE ~(b < Len(modes))
  BY <1>4, <1>6 DEF Given
<1> QED
  BY <1>5, <1>6

\* What stands does not depend on what other steps change.
LEMMA Kept ==
  ASSUME FileHolds, stage # "protect", UNCHANGED <<modes, sent, image>>
  PROVE  FileHolds'
<1>1. sent' = sent /\ image' = image /\ modes' = modes
  OBVIOUS
<1>2. HexImage(sent, image) => HexImage(sent, image)'
  BY <1>1
<1>3. Carries(sent) => Carries(sent)'
  BY <1>1 DEF Carries, Given
<1>4. /\ ZeroTail(sent) => ZeroTail(sent)'
      /\ Tight(sent) => Tight(sent)'
      /\ Unprotected(sent) => Unprotected(sent)'
  BY <1>1 DEF ZeroTail, Tight, Unprotected
<1> QED
  BY <1>1, <1>2, <1>3, <1>4 DEF FileHolds

\* A comment, and a step that changes nothing.
LEMMA CommentKeeps ==
  ASSUME FileInv, UNCHANGED <<stage, case, modes, mem, sent, image, reader, written>>
  PROVE  FileInv'
<1>1. Kinds'
  BY DEF FileInv, Kinds, Few
<1>2. Noting'
  BY DEF FileInv, Noting, Noted
<1>3. FileHolds'
  <2>1. CASE stage = "protect"
    BY <2>1 DEF FileHolds
  <2>2. CASE stage # "protect"
    BY <2>2, Kept DEF FileInv
  <2> QED
    BY <2>1, <2>2
<1>4. SoFar' /\ Arrived'
  BY DEF FileInv, SoFar, Arrived, Unprotected
<1>5. LoadedIfWhole'
  BY DEF FileInv, LoadedIfWhole
<1>6. ProtectionArrives'
  BY DEF FileInv, ProtectionArrives, PadsWithin, OnChip, Given
<1> QED
  BY <1>1, <1>2, <1>3, <1>4, <1>5, <1>6 DEF FileInv

\* A file of which nothing is noted.
LEMMA FileInvAtFirst == FileInit => FileInv
<1> SUFFICES ASSUME FileInit PROVE FileInv
  OBVIOUS
<1>1. modes = <<>> /\ Len(modes) = 0 /\ mem = Blank /\ reader = FirstRecord /\ stage = "protect"
  BY DEF FileInit
<1>2. Kinds
  <2>1. Blank \in Memory
    BY HexAssumption DEF Blank, Memory, Zero, Bytes
  <2>2. Few
    BY <1>1, HexAssumption DEF Few
  <2> QED
    BY <1>1, <2>1, <2>2 DEF Kinds, FileInit, Stages
<1>3. Noting
  <2>1. mem.security = Zero(SECURITY_SIZE) /\ mem.security_size = 0
    BY <1>1 DEF Blank
  <2>2. \A b \in BlockNumbers : Noted[b] = 0
    BY <1>1, HexAssumption DEF Noted, BlockNumbers
  <2>3. Noted \in [BlockNumbers -> 0..3]
    BY <1>1, HexAssumption DEF Noted, BlockNumbers
  <2>4. Holds(mem.security, Noted)
    <3>1. mem.security \in [0..SECURITY_SIZE - 1 -> Nat]
      BY <2>1, HexAssumption DEF Zero
    <3>2. ASSUME NEW i \in 0..SECURITY_SIZE - 1
          PROVE  mem.security[i] = Noted[4 * i] + (4 * Noted[(4 * i) + 1])
                    + (16 * Noted[(4 * i) + 2]) + (64 * Noted[(4 * i) + 3])
      <4>1. {4 * i, (4 * i) + 1, (4 * i) + 2, (4 * i) + 3} \subseteq BlockNumbers
        BY HexAssumption DEF BlockNumbers
      <4>2. mem.security[i] = 0
        BY <2>1 DEF Zero
      <4> QED
        BY <2>2, <4>1, <4>2
    <3> QED
      BY <2>3, <3>1, <3>2 DEF Holds
  <2> QED
    BY <1>1, <2>1, <2>4 DEF Noting
<1>4. FileHolds /\ SoFar /\ Arrived /\ LoadedIfWhole
  BY <1>1 DEF FileHolds, SoFar, Arrived, LoadedIfWhole
<1>5. ProtectionArrives
  BY <1>1, HexAssumption DEF ProtectionArrives, PadsWithin, Blank
<1> QED
  BY <1>2, <1>3, <1>4, <1>5 DEF FileInv

\* A character of the protection file.
LEMMA ModeKeeps ==
  ASSUME FileInv, NEW n \in case.alphabet, ReadMode(n)
  PROVE  FileInv'
<1>1. stage = "protect" /\ Few /\ mem \in Memory /\ case \in Cases
  BY DEF FileInv, Kinds, ReadMode
<1>2. n \in 0..3
  BY <1>1, CaseAssumption
<1>3. CASE comment
  BY <1>3, CommentKeeps DEF ReadMode
<1>4. CASE ~comment
  <2> DEFINE b == Len(modes)
  <2>1. /\ modes' = Append(modes, n)
        /\ mem' = [mem EXCEPT !.security = set_security(@, b, n)]
        /\ UNCHANGED <<stage, case, sent, image, reader, written>>
    BY <1>4 DEF ReadMode, NextBlock
  <2>2. /\ b \in Nat /\ SECURITY_SIZE \in Nat
        /\ modes' \in Seq(0..3) /\ Len(modes') = b + 1
        /\ \A k \in 1..b : modes'[k] = modes[k]
        /\ modes'[b + 1] = n
    BY <1>1, <1>2, <2>1, HexAssumption DEF Few
  <2>3. b < 4 * SECURITY_SIZE /\ b \in BlockNumbers
    <3>1. b < Least(4 * SECURITY_SIZE, case.length)
      BY DEF ReadMode, NextBlock
    <3>2. case.length \in Nat
      BY <1>1, CaseAssumption
    <3> QED
      BY <2>2, <3>1, <3>2 DEF Least, BlockNumbers
  <2>4. Holds(mem.security, Noted) /\ mem.security_size = 0 /\ reader = FirstRecord
    BY <1>1 DEF FileInv, Noting
  <2>5. Noted[b] = 0
    BY <2>2, <2>3 DEF Noted
  <2> HIDE DEF b
  <2>6. Holds(set_security(mem.security, b, n), [Noted EXCEPT ![b] = n])
    BY <1>2, <2>3, <2>4, <2>5, SetMode
  <2>7. [Noted EXCEPT ![b] = n] = Noted'
    <3>1. Noted' = [c \in BlockNumbers |-> IF c < b + 1 THEN modes'[c + 1] ELSE 0]
      BY <2>2 DEF Noted, BlockNumbers
    <3>2. ASSUME NEW c \in BlockNumbers
          PROVE  [Noted EXCEPT ![b] = n][c] = IF c < b + 1 THEN modes'[c + 1] ELSE 0
      <4>0. c \in Nat
        BY <2>2 DEF BlockNumbers
      <4>1. CASE c = b
        BY <2>2, <2>3, <4>1 DEF Noted
      <4>2. CASE c < b
        <5>1. c + 1 \in 1..b /\ c < b + 1
          BY <2>2, <4>0, <4>2
        <5> QED
          BY <2>2, <2>3, <4>2, <5>1 DEF Noted, b
      <4>3. CASE c > b
        <5>1. ~(c < b) /\ ~(c < b + 1) /\ c # b
          BY <2>2, <4>0, <4>3
        <5> QED
          BY <5>1 DEF Noted, b
      <4> QED
        BY <2>2, <4>0, <4>1, <4>2, <4>3
    <3> QED
      BY <3>1, <3>2, Zenon DEF Noted
  <2> DEFINE s == set_security(mem.security, b, n)
  <2> HIDE DEF s
  <2>8. Holds(s, Noted')
    BY <2>6, <2>7 DEF s
  <2>9. mem' = [mem EXCEPT !.security = s] /\ s \in [0..SECURITY_SIZE - 1 -> Nat]
    BY <2>1, <2>8 DEF s, Holds
  <2>10. mem' \in Memory /\ mem'.security = s /\ mem'.security_size = 0
    BY <1>1, <2>4, <2>9 DEF Memory
  <2>11. Few'
    BY <2>2, <2>3 DEF Few
  <2>12. Kinds'
    BY <2>1, <2>10, <2>11 DEF FileInv, Kinds
  <2>13. Noting'
    <3>1. Holds(mem.security, Noted)'
      BY <2>8, <2>10 DEF Holds
    <3> QED
      BY <2>1, <2>4, <2>10, <3>1 DEF Noting
  <2>14. FileHolds' /\ SoFar' /\ Arrived' /\ LoadedIfWhole'
    BY <1>1, <2>1 DEF FileHolds, SoFar, Arrived, LoadedIfWhole
  <2>15. ProtectionArrives'
    BY <1>1, <2>1, <2>2, <2>10 DEF ProtectionArrives, PadsWithin
  <2> QED
    BY <2>12, <2>13, <2>14, <2>15 DEF FileInv
<1> QED
  BY <1>3, <1>4

\* A program is copied into the memory.
LEMMA ProgramCopied ==
  ASSUME NEW t \in [0..PROGRAM_SIZE - 1 -> Bytes], NEW p \in Seq(Bytes), Len(p) <= PROGRAM_SIZE
  PROVE  Copy(t, 0, p) \in [0..PROGRAM_SIZE - 1 -> Bytes]
<1>1. Len(p) \in Nat /\ PROGRAM_SIZE \in Nat /\ \A k \in 1..Len(p) : p[k] \in Bytes
  BY HexAssumption
<1>2. ASSUME NEW n \in 0..PROGRAM_SIZE - 1, n < 0 + Len(p)
      PROVE  p[n - 0 + 1] \in Bytes
  <2>1. n - 0 + 1 \in 1..Len(p)
    BY <1>1, <1>2
  <2> QED
    BY <1>1, <2>1
<1>3. Copy(t, 0, p) = [n \in 0..PROGRAM_SIZE - 1 |->
                         IF n >= 0 /\ n < 0 + Len(p) THEN p[n - 0 + 1] ELSE t[n]]
  BY DEF Copy
<1> QED
  BY <1>2, <1>3

\* The memory with another program.
WithProgram(x, q, n) == [x EXCEPT !.program = q, !.program_size = n]

\* Its protection stays.
LEMMA OtherProgram ==
  ASSUME NEW x \in Memory, NEW q \in [0..PROGRAM_SIZE - 1 -> Bytes], NEW n \in 0..PROGRAM_SIZE
  PROVE  LET y == WithProgram(x, q, n)
         IN  /\ y \in Memory /\ y.program = q /\ y.program_size = n
             /\ y.security = x.security /\ y.security_size = x.security_size
BY DEF Memory, WithProgram

\* The file that is written for a program and the modes that are noted.
LEMMA AssembleKeeps ==
  ASSUME FileInv, NEW p \in case.programs, NEW f \in Formats, Assemble(p, f)
  PROVE  FileInv'
<1> DEFINE fb == FillByte
           w == check_security_data(fb, NoChip)
           prog == Copy(w.program, 0, p)
           m == WithProgram(w, prog, Len(p))
<1>1. /\ stage = "protect" /\ stage' = "assembled"
      /\ f = "hex" \/ Unprotected(m)
      /\ sent' = m /\ mem' = Blank
      /\ image' = [format |-> f, body |-> write_file(m, f), held |-> m, damage |-> "none"]
      /\ UNCHANGED <<case, modes, comment, reader, written>>
  BY DEF Assemble, WithProgram
<1>2. Few /\ mem \in Memory /\ case \in Cases /\ Holds(mem.security, Noted)
      /\ reader = FirstRecord
  BY <1>1 DEF FileInv, Kinds, Noting
<1>3. fb \in Memory /\ Carries(fb) /\ ZeroTail(fb) /\ Tight(fb)
  BY <1>2, FilledByte, FilledTight
<1> HIDE DEF fb
<1>4. w \in Memory /\ Carries(w) /\ ZeroTail(w) /\ Tight(w)
  BY <1>2, <1>3, SecurityOfFile, FileTight
<1> HIDE DEF w
<1>5. p \in Seq(Bytes) /\ Len(p) <= PROGRAM_SIZE /\ Len(p) \in Nat
  BY <1>2, CaseAssumption
<1>6. prog \in [0..PROGRAM_SIZE - 1 -> Bytes]
  <2>1. w.program \in [0..PROGRAM_SIZE - 1 -> Bytes]
    BY <1>4, MemoryIs
  <2> QED
    BY <1>5, <2>1, ProgramCopied, Zenon
<1> HIDE DEF prog
<1>7. /\ m \in Memory /\ m.security = w.security /\ m.security_size = w.security_size
      /\ m.program_size = Len(p)
  <2>1. Len(p) \in 0..PROGRAM_SIZE
    BY <1>5, HexAssumption
  <2>2. w \in Memory
    BY <1>4
  <2> QED
    BY <1>6, <2>1, <2>2, OtherProgram
<1> HIDE DEF m
<1>8. Carries(m) /\ ZeroTail(m) /\ Tight(m)
  BY <1>4, <1>7, Zenon DEF Carries, ZeroTail, Tight
<1>9. Kinds'
  <2>1. Blank \in Memory
    BY HexAssumption DEF Blank, Memory, Zero, Bytes
  <2>2. Few'
    BY <1>1, <1>2, Zenon DEF Few
  <2> QED
    BY <1>1, <1>2, <2>1, <2>2 DEF Kinds, Stages
<1>10. Noting' /\ SoFar' /\ Arrived' /\ LoadedIfWhole'
  BY <1>1, <1>2 DEF Noting, SoFar, Arrived, LoadedIfWhole
<1>11. FileHolds'
  <2>1. (Carries(sent) /\ ZeroTail(sent) /\ Tight(sent))'
    BY <1>1, <1>8 DEF Carries, ZeroTail, Tight, Given
  <2>2. CASE f = "hex"
    <3> DEFINE s == do_checksum(m)  W == write_hex(m, s)  Q == LastData(m)
    <3>1. image'.body = W /\ image'.format = "hex" /\ image'.held = m
          /\ image'.damage = "none" /\ sent' = m
      BY <1>1, <2>2 DEF write_file
    <3>2. HexLayout(m, s, W, ProgramRecords(m), Q)
      BY <1>7, HexRecords
    <3> HIDE DEF s, W, Q
    <3>3. Q \in Nat /\ Len(W) = Q + 3
      BY <3>2, Zenon DEF HexLayout
    <3>4. HexImage(sent, image)'
      BY <1>7, <3>1, <3>3 DEF HexImage, s, W, Q
    <3> QED
      BY <1>7, <1>1, <2>1, <3>1, <3>4 DEF FileHolds
  <2>3. CASE f # "hex"
    <3>1. f \in {"rom", "binary"}
      BY <2>3, HexAssumption
    <3>2. Unprotected(sent)'
      BY <1>1, <2>3 DEF Unprotected
    <3> QED
      BY <1>1, <1>7, <2>1, <3>1, <3>2 DEF FileHolds
  <2> QED
    BY <2>2, <2>3
<1>12. ProtectionArrives'
  BY <1>1, HexAssumption DEF ProtectionArrives, PadsWithin, Blank
<1> QED
  BY <1>9, <1>10, <1>11, <1>12 DEF FileInv

\* What is lost or changed between the assembler and the programmer.
LEMMA DamageKeeps ==
  ASSUME FileInv, Damage
  PROVE  FileInv'
<1>1. /\ stage = "assembled" /\ image.format = "hex" /\ image.damage = "none"
      /\ UNCHANGED <<stage, case, modes, comment, mem, sent, reader, written>>
  BY DEF Damage
<1>2. /\ sent \in Memory /\ Carries(sent) /\ ZeroTail(sent) /\ Tight(sent) /\ HexImage(sent, image)
      /\ mem = Blank /\ reader = FirstRecord
  BY <1>1 DEF FileInv, FileHolds, SoFar
<1>3. (Carries(sent) /\ ZeroTail(sent) /\ Tight(sent))'
  BY <1>1, <1>2 DEF Carries, ZeroTail, Tight, Given
<1>4. Kinds' /\ Noting' /\ Arrived' /\ LoadedIfWhole'
  BY <1>1, <1>2 DEF FileInv, Kinds, Few, Noting, Arrived, LoadedIfWhole
<1>5. ProtectionArrives'
  BY <1>1 DEF FileInv, ProtectionArrives, PadsWithin
<1> DEFINE s == do_checksum(sent)
<1>6. image'.format = "hex" /\ HexImage(sent, image)'
  <2>1. CASE \E n \in 0..Len(image.body) - 1 :
               image' = [image EXCEPT !.body = SubSeq(@, 1, n),
                                      !.damage = IF n = 0 THEN "emptied" ELSE "cut"]
    <3>1. PICK n \in 0..Len(image.body) - 1 :
            image' = [image EXCEPT !.body = SubSeq(@, 1, n),
                                   !.damage = IF n = 0 THEN "emptied" ELSE "cut"]
      BY <2>1
    <3> DEFINE W == write_hex(sent, s)  Q == LastData(sent)
    <3>2. HexLayout(sent, s, W, ProgramRecords(sent), Q)
      BY <1>2, HexRecords
    <3>3. /\ image.held = sent /\ Len(image.body) = Q + 3
          /\ \A k \in 1..Len(image.body) : image.body[k] = W[k]
      BY <1>1, <1>2 DEF HexImage
    <3> HIDE DEF s, W, Q
    <3>4. Q \in Nat /\ n \in Nat /\ n < Q + 3
      BY <3>2, <3>3 DEF HexLayout
    <3>5. Len(SubSeq(image.body, 1, n)) = n
          /\ \A k \in 1..n : SubSeq(image.body, 1, n)[k] = W[k]
      <4>1. SubSeq(image.body, 1, n) = [k \in 1..n |-> image.body[k]]
        BY <3>4
      <4>2. \A k \in 1..n : image.body[k] = W[k]
        BY <3>3, <3>4
      <4> QED
        BY <3>4, <4>1, <4>2, LengthIs
    <3> QED
      BY <1>1, <1>2, <3>1, <3>3, <3>4, <3>5 DEF HexImage, s, W, Q
  <2>2. CASE \E a \in 0..sent.program_size - 1, d \in Differences :
               LET m == [sent EXCEPT !.program[a] = (@ + d) % 256]
               IN image' = [format |-> "hex", body |-> write_hex(m, do_checksum(sent)),
                            held |-> m, damage |-> "changed"]
    <3>1. PICK a \in 0..sent.program_size - 1, d \in Differences :
               LET m == [sent EXCEPT !.program[a] = (@ + d) % 256]
               IN image' = [format |-> "hex", body |-> write_hex(m, do_checksum(sent)),
                            held |-> m, damage |-> "changed"]
      BY <2>2
    <3> DEFINE m == OneChanged(sent, a, d)
               W == write_hex(m, s)  Q == LastData(m)
    <3>2. image' = [format |-> "hex", body |-> W, held |-> m, damage |-> "changed"]
      BY <3>1 DEF OneChanged
    <3>3. m \in Memory
      BY <1>2, ChangedChecksum, HexAssumption
    <3>4. \E c \in 0..sent'.program_size - 1, e \in 1..255 :
            m = OneChanged(sent', c, e)
      BY <1>1, HexAssumption
    <3> HIDE DEF m
    <3>5. HexLayout(m, s, W, ProgramRecords(m), Q)
      BY <3>3, HexRecords
    <3> HIDE DEF s, W, Q
    <3>6. Q \in Nat /\ Len(W) = Q + 3
      BY <3>5, Zenon DEF HexLayout
    <3>7. image'.held = m /\ image'.body = W /\ image'.damage = "changed"
          /\ image'.format = "hex"
      BY <3>2
    <3>8. (IF image.damage = "changed"
           THEN \E c \in 0..sent.program_size - 1, e \in 1..255 :
                  image.held = OneChanged(sent, c, e)
           ELSE image.held = sent)'
      BY <3>4, <3>7
    <3>9. write_hex(image.held, do_checksum(sent))' = W /\ LastData(image.held)' = Q
      BY <1>1, <3>7 DEF s, W, Q
    <3> QED
      BY <3>3, <3>6, <3>7, <3>8, <3>9 DEF HexImage
  <2> QED
    BY <2>1, <2>2 DEF Damage
<1>7. FileHolds'
  BY <1>1, <1>2, <1>3, <1>6 DEF FileHolds
<1>8. SoFar'
  BY <1>1, <1>2, <1>6 DEF SoFar, HexImage
<1> QED
  BY <1>4, <1>5, <1>7, <1>8 DEF FileInv

\* The programmer begins to read.
LEMMA LoadKeeps ==
  ASSUME FileInv, Load
  PROVE  FileInv'
<1>1. /\ stage = "assembled" /\ stage' = "reading"
      /\ UNCHANGED <<case, modes, comment, mem, sent, image, reader, written>>
  BY DEF Load, ToBeRead
<1>2. Kinds /\ FileHolds /\ mem = Blank /\ reader = FirstRecord
      /\ image.damage # "misread"
  BY <1>1 DEF FileInv, SoFar
<1>3. Kinds' /\ Noting' /\ Arrived' /\ LoadedIfWhole'
  BY <1>1, <1>2 DEF Kinds, Few, Noting, Arrived, LoadedIfWhole, Stages
<1>4. FileHolds'
  BY <1>1, <1>2, Kept DEF FileHolds
<1>5. ProtectionArrives'
  BY <1>1 DEF FileInv, ProtectionArrives, PadsWithin
<1>6. /\ FirstRecord \in Readers /\ FirstRecord.at = 0 /\ FirstRecord.area = "program"
      /\ FirstRecord.last = <<"program", 0>> /\ ~FirstRecord.have_checksum
      /\ FirstRecord.digit = NoDigit
  BY DEF FirstRecord, Readers, Zero, Areas, NoDigit
<1>7. /\ Blank.program_size = 0 /\ Blank.security_size = 0
      /\ \A i \in 0..SECURITY_SIZE - 1 : Blank.security[i] = 0
  BY DEF Blank, Zero
<1>8. ASSUME NEW m \in Memory
      PROVE  HasProgram(m, Blank, 0) /\ HasSecurity(m, Blank, 0)
  BY <1>7 DEF HasProgram, HasSecurity, Agree
<1>9. ASSUME NEW m \in Memory, NEW sum
      PROVE  HexSoFar(m, sum, FirstRecord, Blank)
  <2>1. m.program_size \in Nat
    BY MemoryIs
  <2>2. Got(m.program_size, 0) = 0 /\ 0 <= ProgramRecords(m)
    BY <2>1, GotBytes DEF ProgramRecords
  <2>3. HasProgram(m, Blank, 0) /\ HasSecurity(m, Blank, 0)
    BY <1>8
  <2> QED
    BY <1>6, <2>2, <2>3 DEF HexSoFar, InProgram
<1>10. ASSUME NEW m \in Memory
       PROVE  RomSoFar(m, FirstRecord, Blank)
  <2>1. m.program_size \in Nat
    BY MemoryIs
  <2> QED
    BY <1>6, <1>8, <2>1 DEF RomSoFar
<1>11. SoFar'
  <2>1. CASE image.format = "hex"
    <3>1. image.held \in Memory
      BY <1>1, <1>2, <2>1 DEF FileHolds, HexImage
    <3>2. HexSoFar(image.held, do_checksum(sent), FirstRecord, Blank)
      BY <1>9, <3>1
    <3> QED
      BY <1>1, <1>2, <1>6, <2>1, <3>2 DEF SoFar
  <2>2. CASE image.format # "hex"
    <3>1. sent \in Memory
      BY <1>1, <1>2 DEF FileHolds
    <3> QED
      BY <1>1, <1>2, <1>6, <1>7, <1>10, <2>2, <3>1 DEF SoFar
  <2> QED
    BY <2>1, <2>2
<1> QED
  BY <1>3, <1>4, <1>5, <1>11 DEF FileInv

\* An empty file holds an empty program, or is what is left of a hex file.
LEMMA NothingKeeps ==
  ASSUME FileInv, LoadNothing
  PROVE  FileInv'
<1>1. /\ stage = "assembled" /\ stage' = "loaded" /\ image.body = <<>>
      /\ UNCHANGED <<case, modes, comment, mem, sent, image, reader, written>>
  BY DEF LoadNothing, ToBeRead
<1>2. Kinds /\ FileHolds /\ mem = Blank /\ image.damage # "misread"
  BY <1>1 DEF FileInv, SoFar
<1>3. Blank.program_size = 0 /\ Blank.security_size = 0
  BY DEF Blank
<1>4. Kinds' /\ Noting' /\ SoFar'
  BY <1>1, <1>2 DEF Kinds, Few, Noting, SoFar, Stages
<1>5. FileHolds'
  BY <1>1, <1>2, Kept DEF FileHolds
<1>6. ProtectionArrives'
  BY <1>1 DEF FileInv, ProtectionArrives, PadsWithin
<1>7. Arrived' /\ LoadedIfWhole'
  <2>1. CASE image.format = "hex"
    <3>1. image.damage = "emptied"
      <4>1. HexImage(sent, image)
        BY <1>1, <1>2, <2>1 DEF FileHolds
      <4>2. Len(image.body) = 0
        BY <1>1
      <4> QED
        BY <4>1, <4>2 DEF HexImage
    <3> QED
      BY <1>1, <1>2, <1>3, <2>1, <3>1 DEF Arrived, LoadedIfWhole
  <2>2. CASE image.format # "hex"
    <3>1. /\ sent \in Memory /\ Unprotected(sent) /\ image.format \in {"rom", "binary"}
          /\ image.damage = "none" /\ write_file(sent, image.format) = <<>>
      BY <1>1, <1>2, <2>2 DEF FileHolds
    <3>2. sent.program_size \in Nat
      BY <3>1, MemoryIs
    <3>3. sent.program_size = 0
      <4>1. CASE image.format = "rom"
        <5>1. DOMAIN write_rom(sent) = 1..3 * sent.program_size
          BY DEF write_rom
        <5>2. write_rom(sent) = <<>>
          BY <3>1, <4>1 DEF write_file
        <5>3. 3 * sent.program_size = Len(write_rom(sent))
          <6>1. 3 * sent.program_size \in Nat
            BY <3>2
          <6> QED
            BY <5>1, <6>1, LengthIs
        <5> QED
          BY <3>2, <5>2, <5>3
      <4>2. CASE image.format = "binary"
        <5> DEFINE s == [k \in 1..sent.program_size |-> sent.program[k - 1]]
        <5>1. s = <<>>
          BY <3>1, <4>2 DEF write_file
        <5>2. DOMAIN s = 1..sent.program_size
          OBVIOUS
        <5> HIDE DEF s
        <5>3. Len(s) = sent.program_size
          BY <3>2, <5>2, LengthIs
        <5> QED
          BY <5>1, <5>3
      <4> QED
        BY <3>1, <4>1, <4>2
    <3>4. Unprotected(sent)'
      BY <1>1, <3>1 DEF Unprotected
    <3> QED
      BY <1>1, <1>2, <1>3, <2>2, <3>1, <3>3, <3>4 DEF Arrived, LoadedIfWhole
  <2> QED
    BY <2>1, <2>2
<1> QED
  BY <1>4, <1>5, <1>6, <1>7 DEF FileInv

\* What a byte is read as is one of the characters.
LEMMA CharacterIs ==
  ASSUME NEW c \in Bytes PROVE Character(c) \in Characters
<1>1. CASE is_hex(c)
  <2>1. hex_value(c) \in 0..15
    BY <1>1 DEF is_hex, hex_value, Bytes
  <2> QED
    BY <1>1, <2>1 DEF Character, Characters
<1>2. CASE ~is_hex(c)
  BY <1>2 DEF Character, Characters, Other
<1> QED
  BY <1>1, <1>2

\* A binary file is taken for another.
LEMMA MisreadKeeps ==
  ASSUME FileInv, Misread
  PROVE  FileInv'
<1>1. /\ stage = "assembled" /\ image.format = "binary"
      /\ UNCHANGED <<case, modes, comment, mem, sent, reader, written>>
  BY DEF Misread, ToBeRead
<1>2. /\ Kinds /\ FileHolds /\ mem = Blank /\ reader = FirstRecord
      /\ image.damage # "misread"
  BY <1>1 DEF FileInv, SoFar
<1>3. /\ sent \in Memory /\ Unprotected(sent)
      /\ image.body = [k \in 1..sent.program_size |-> sent.program[k - 1]]
      /\ Carries(sent) /\ ZeroTail(sent) /\ Tight(sent)
  BY <1>1, <1>2 DEF FileHolds, write_file
<1>4. (Carries(sent) /\ ZeroTail(sent) /\ Tight(sent) /\ Unprotected(sent))'
  BY <1>1, <1>3 DEF Carries, ZeroTail, Tight, Given, Unprotected
<1> DEFINE read == [k \in DOMAIN image.body |-> Character(image.body[k])]
<1>5. \/ /\ stage' = "reading" /\ image'.damage = "misread"
         /\ image'.format = "rom" /\ image'.body = read
      \/ /\ stage' = "refused" /\ image'.damage = "misread"
         /\ image'.format = "binary"
  BY <1>1 DEF Misread
<1>6. read \in Seq(Characters)
  <2>1. /\ sent.program_size \in Nat /\ sent.program_size <= PROGRAM_SIZE
        /\ PROGRAM_SIZE \in Nat /\ sent.program \in [0..PROGRAM_SIZE - 1 -> Bytes]
    BY <1>3, MemoryIs
  <2>2. ASSUME NEW k \in 1..sent.program_size
        PROVE  Character(image.body[k]) \in Characters
    <3>1. k - 1 \in 0..PROGRAM_SIZE - 1
      BY <2>1
    <3>2. image.body[k] \in Bytes
      BY <1>3, <2>1, <3>1
    <3> QED
      BY <3>2, CharacterIs
  <2>3. read \in [1..sent.program_size -> Characters]
    BY <1>3, <2>2
  <2> QED
    BY <2>1, <2>3
<1> HIDE DEF read
<1>7. Blank.security_size = 0 /\ FirstRecord.digit = NoDigit /\ FirstRecord \in Readers
      /\ NoDigit \in 0..NoDigit
  BY DEF Blank, FirstRecord, Readers, Zero, Areas, NoDigit
<1>8. Kinds' /\ Noting' /\ Arrived' /\ LoadedIfWhole'
  BY <1>1, <1>2, <1>5 DEF Kinds, Few, Noting, Arrived, LoadedIfWhole, Stages
<1>9. FileHolds'
  BY <1>1, <1>3, <1>4, <1>5, <1>6 DEF FileHolds
<1>10. SoFar'
  BY <1>1, <1>2, <1>5, <1>7 DEF SoFar
<1>11. ProtectionArrives'
  BY <1>1, <1>5 DEF FileInv, ProtectionArrives, PadsWithin
<1> QED
  BY <1>8, <1>9, <1>10, <1>11 DEF FileInv

\* A checksum is a number.
LEMMA ChecksumNat ==
  ASSUME NEW m \in Memory PROVE do_checksum(m) \in Nat
<1>1. /\ PROGRAM_SIZE \in Nat /\ m.program_size \in 0..PROGRAM_SIZE
      /\ m.program \in [0..PROGRAM_SIZE - 1 -> Bytes] /\ m.program_size \in Nat
  BY MemoryIs
<1>2. PICK f : Sums(f, m.program, m.program_size) /\ do_checksum(m) = f[m.program_size]
  BY <1>1, ChecksumIs
<1> QED
  BY <1>1, <1>2 DEF Sums, Words

\* The number of records before the checksum.
LEMMA LastDataNat ==
  ASSUME NEW m \in Memory PROVE LastData(m) \in Nat
<1>1. HexLayout(m, 0, write_hex(m, 0), ProgramRecords(m), LastData(m))
  BY HexRecords
<1> QED
  BY <1>1, Zenon DEF HexLayout

\* What is read, and what reading leaves alone.
LEMMA WhatIsRead ==
  ASSUME NEW x, ReadNext(x)
  PROVE  /\ stage = "reading" /\ image.format \in {"hex", "rom"}
         /\ reader.at < Len(image.body) /\ x = image.body[reader.at + 1]
         /\ UNCHANGED <<case, modes, comment, sent, image, written>>
         /\ mem \in Memory /\ image.format = "rom" => mem'.security_size = mem.security_size
<1>1. CASE ReadDigit(x)
  BY <1>1 DEF ReadDigit, Reads, Refuse, Memory
<1>2. CASE ReadBlank(x)
  BY <1>2 DEF ReadBlank, Reads, Refuse
<1>3. CASE ReadData(x)
  BY <1>3, Zenon DEF ReadData, Reads
<1>4. CASE ReadExtended(x)
  BY <1>4, Zenon DEF ReadExtended, Reads
<1>5. CASE ReadEndRecord(x)
  BY <1>5, Zenon DEF ReadEndRecord, Reads
<1> QED
  BY <1>1, <1>2, <1>3, <1>4, <1>5 DEF ReadNext

\* A record of a hex file, and the end of it.
LEMMA HexKeeps ==
  ASSUME FileInv, NEW x, ReadNext(x), image.format = "hex"
  PROVE  FileInv'
<1>1. /\ stage = "reading" /\ reader.at < Len(image.body) /\ x = image.body[reader.at + 1]
      /\ UNCHANGED <<case, modes, comment, sent, image, written>>
  BY WhatIsRead
<1>2. Kinds /\ FileHolds /\ SoFar
  BY DEF FileInv
<1>3. sent \in Memory /\ ZeroTail(sent) /\ HexImage(sent, image) /\ image.held \in Memory
  BY <1>1, <1>2 DEF FileHolds, HexImage
<1> DEFINE s == do_checksum(sent)  m == image.held
<1>4. reader \in Readers /\ HexSoFar(m, s, reader, mem) /\ mem \in Memory
  BY <1>1, <1>2 DEF SoFar, Kinds
<1>5. x = write_hex(m, s)[reader.at + 1]
  <2>1. reader.at + 1 \in 1..Len(image.body)
    BY <1>1, <1>3, <1>4, MemoryIs DEF Readers, HexImage
  <2> QED
    BY <1>1, <1>3, <2>1 DEF HexImage
<1>6. s \in Nat /\ TwoBytes(s)
  BY <1>3, ChecksumNat, ChecksumBytes
<1> HIDE DEF s, m
<1>7. \/ /\ stage' = stage /\ mem' \in Memory /\ reader' \in Readers
         /\ HexSoFar(m, s, reader', mem')
      \/ /\ reader.at = LastData(m) + 2 /\ mem' = mem
         /\ HasProgram(m, mem, m.program_size) /\ HasSecurity(m, mem, m.security_size)
         /\ stage' = IF do_checksum(m) = s THEN "loaded" ELSE "refused"
  BY <1>3, <1>4, <1>5, <1>6, HexStep DEF m
<1>8. FileHolds'
  BY <1>1, <1>2, Kept
<1>9. CASE /\ stage' = stage /\ mem' \in Memory /\ reader' \in Readers
           /\ HexSoFar(m, s, reader', mem')
  <2>1. Kinds' /\ Noting' /\ Arrived' /\ LoadedIfWhole' /\ SoFar'
    BY <1>1, <1>2, <1>9 DEF Kinds, Few, Noting, Arrived, LoadedIfWhole, SoFar, s, m
  <2>2. mem'.security_size <= SECURITY_SIZE
    BY <1>9, HexAssumption DEF Memory
  <2>3. ProtectionArrives'
    BY <1>1, <1>9, <2>2 DEF ProtectionArrives, PadsWithin
  <2> QED
    BY <1>8, <2>1, <2>3 DEF FileInv
<1>10. CASE /\ reader.at = LastData(m) + 2 /\ mem' = mem
            /\ HasProgram(m, mem, m.program_size) /\ HasSecurity(m, mem, m.security_size)
            /\ stage' = IF do_checksum(m) = s THEN "loaded" ELSE "refused"
  <2>1. stage' \in {"loaded", "refused"}
    BY <1>10
  <2>2. Kinds' /\ Noting' /\ SoFar'
    BY <1>1, <1>2, <1>10, <2>1 DEF Kinds, Few, Noting, SoFar, Stages
  <2>3. ProtectionArrives'
    <3>1. mem'.security_size <= SECURITY_SIZE
      BY <1>4, <1>10, HexAssumption DEF Memory
    <3> QED
      BY <2>1, <3>1 DEF ProtectionArrives, PadsWithin
  <2>4. image.damage \in {"none", "changed"}
    <3>1. reader.at \in Nat /\ Len(image.body) \in 0..LastData(m) + 3
      BY <1>3, <1>4 DEF Readers, HexImage, m
    <3>2. Len(image.body) = LastData(m) + 3
      BY <1>1, <1>3, <1>10, <3>1, LastDataNat DEF m
    <3> QED
      BY <1>3, <3>2 DEF HexImage, m
  <2>5. CASE image.damage = "changed"
    <3>1. PICK a \in 0..sent.program_size - 1, d \in 1..255 :
            m = OneChanged(sent, a, d)
      BY <1>3, <2>5 DEF HexImage, m
    <3>2. do_checksum(m) # s
      BY <1>3, <3>1, ChangedChecksum DEF s
    <3>3. stage' = "refused"
      BY <1>10, <3>2
    <3> QED
      BY <1>1, <1>8, <2>2, <2>3, <2>5, <3>3 DEF FileInv, Arrived, LoadedIfWhole
  <2>6. CASE image.damage = "none"
    <3>1. m = sent /\ stage' = "loaded"
      BY <1>3, <1>10, <2>6 DEF HexImage, m, s
    <3>2. /\ mem'.program_size = sent.program_size
          /\ \A a \in 0..sent.program_size - 1 : mem'.program[a] = sent.program[a]
      BY <1>10, <3>1 DEF HasProgram, Agree
    <3>3. mem'.security = sent.security /\ mem'.security_size = sent.security_size
      <4>1. mem'.security_size = sent.security_size
            /\ Agree(mem'.security, sent.security, sent.security_size)
            /\ \A i \in sent.security_size..SECURITY_SIZE - 1 : mem'.security[i] = 0
        BY <1>10, <3>1 DEF HasSecurity
      <4>2. /\ sent.security \in [0..SECURITY_SIZE - 1 -> Nat]
            /\ mem'.security \in [0..SECURITY_SIZE - 1 -> Nat]
            /\ sent.security_size \in Nat /\ SECURITY_SIZE \in Nat
        BY <1>3, <1>4, <1>10, MemoryIs
      <4>3. ASSUME NEW i \in 0..SECURITY_SIZE - 1
            PROVE  mem'.security[i] = sent.security[i]
        <5>1. CASE i < sent.security_size
          BY <4>1, <4>2, <5>1 DEF Agree
        <5>2. CASE ~(i < sent.security_size)
          <6>1. i \in sent.security_size..SECURITY_SIZE - 1
            BY <4>2, <5>2
          <6> QED
            BY <1>3, <4>1, <6>1 DEF ZeroTail
        <5> QED
          BY <5>1, <5>2
      <4> QED
        BY <4>1, <4>2, <4>3
    <3>4. Arrived' /\ LoadedIfWhole'
      BY <1>1, <2>6, <3>1, <3>2, <3>3 DEF Arrived, LoadedIfWhole
    <3> QED
      BY <1>8, <2>2, <2>3, <3>4 DEF FileInv
  <2> QED
    BY <1>3, <2>4, <2>5, <2>6 DEF HexImage
<1> QED
  BY <1>7, <1>9, <1>10

\* A character of a file that is taken for a ROM file.
LEMMA MisreadStep ==
  ASSUME mem \in Memory, reader \in Readers, reader.digit \in 0..NoDigit,
         NEW c \in Characters, image.format = "rom", ReadNext(c)
  PROVE  /\ stage' \in {stage, "refused"} /\ mem' \in Memory /\ reader' \in Readers
         /\ reader'.digit \in 0..NoDigit
<1>1. ReadDigit(c) \/ ReadBlank(c)
  <2>1. ~ReadData(c) /\ ~ReadExtended(c) /\ ~ReadEndRecord(c)
    BY DEF ReadData, ReadExtended, ReadEndRecord, Reads
  <2> QED
    BY <2>1, Zenon DEF ReadNext
<1>2. /\ reader.at \in Nat /\ reader.at + 1 \in Nat /\ c \in Nat /\ NoDigit \in Nat
      /\ \A n \in 0..NoDigit : n \in Nat
  BY DEF Readers, Characters, NoDigit
<1>3. CASE Refuse
  BY <1>3 DEF Refuse
<1>4. CASE ReadBlank(c) /\ ~Refuse
  <2>1. stage' = stage /\ mem' = mem /\ reader' = [reader EXCEPT !.at = @ + 1]
    BY <1>4 DEF ReadBlank
  <2> QED
    BY <1>2, <2>1 DEF Readers
<1>5. CASE ReadDigit(c) /\ ~Refuse
  <2>1. c < 16 /\ c \in 0..NoDigit
    BY <1>2, <1>5 DEF ReadDigit, NoDigit
  <2>2. CASE reader.digit = NoDigit
    <3>1. stage' = stage /\ mem' = mem
          /\ reader' = [reader EXCEPT !.at = @ + 1, !.digit = c]
      BY <1>5, <2>2 DEF ReadDigit
    <3> QED
      BY <1>2, <2>1, <3>1 DEF Readers
  <2>3. CASE reader.digit # NoDigit
    <3> DEFINE a == mem.program_size  b == (reader.digit * 16) + c
               p == [mem.program EXCEPT ![a] = b]
    <3>1. /\ stage' = stage /\ a # PROGRAM_SIZE
          /\ reader' = [reader EXCEPT !.at = @ + 1, !.digit = NoDigit]
          /\ mem' = [mem EXCEPT !.program[a] = b, !.program_size = a + 1]
      BY <1>5, <2>3 DEF ReadDigit
    <3>2. b \in Bytes
      BY <1>2, <2>1, <2>3 DEF NoDigit, Bytes
    <3> HIDE DEF b
    <3>3. a \in 0..PROGRAM_SIZE /\ PROGRAM_SIZE \in Nat
          /\ mem.program \in [0..PROGRAM_SIZE - 1 -> Bytes]
      BY MemoryIs
    <3>4. a \in 0..PROGRAM_SIZE - 1 /\ a + 1 \in 0..PROGRAM_SIZE
      BY <3>1, <3>3
    <3>5. p \in [0..PROGRAM_SIZE - 1 -> Bytes]
      BY <3>2, <3>3, <3>4
    <3>6. mem' = WithProgram(mem, p, a + 1)
      BY <3>1 DEF WithProgram
    <3> HIDE DEF p, a, b
    <3>7. mem' \in Memory
      BY <3>4, <3>5, <3>6, OtherProgram
    <3>8. reader' = [reader EXCEPT !.at = @ + 1, !.digit = NoDigit]
      BY <3>1
    <3>9. reader' \in Readers /\ reader'.digit = NoDigit
      BY <1>2, <3>8 DEF Readers
    <3> QED
      BY <1>2, <3>1, <3>7, <3>9
  <2> QED
    BY <2>2, <2>3
<1> QED
  BY <1>1, <1>3, <1>4, <1>5

LEMMA MisreadOn ==
  ASSUME FileInv, NEW x, ReadNext(x), image.format = "rom", image.damage = "misread"
  PROVE  FileInv'
<1>1. /\ stage = "reading" /\ reader.at < Len(image.body) /\ x = image.body[reader.at + 1]
      /\ UNCHANGED <<case, modes, comment, sent, image, written>>
  BY WhatIsRead
<1>2. Kinds /\ FileHolds /\ SoFar
  BY DEF FileInv
<1>3. image.body \in Seq(Characters)
  BY <1>1, <1>2 DEF FileHolds
<1>4. reader \in Readers /\ reader.digit \in 0..NoDigit /\ mem \in Memory
      /\ mem.security_size = 0
  BY <1>1, <1>2 DEF SoFar, Kinds
<1>5. x \in Characters
  <2>1. reader.at + 1 \in 1..Len(image.body)
    BY <1>1, <1>3, <1>4 DEF Readers
  <2> QED
    BY <1>1, <1>3, <2>1
<1>6. /\ stage' \in {stage, "refused"} /\ mem' \in Memory /\ reader' \in Readers
      /\ reader'.digit \in 0..NoDigit
  BY <1>4, <1>5, MisreadStep
<1>7. mem'.security_size = 0
  BY <1>4, WhatIsRead
<1>8. Kinds' /\ Noting' /\ Arrived' /\ LoadedIfWhole' /\ SoFar'
  BY <1>1, <1>2, <1>6, <1>7 DEF Kinds, Few, Noting, Arrived, LoadedIfWhole, SoFar, Stages
<1>9. FileHolds'
  BY <1>1, <1>2, Kept
<1>10. ProtectionArrives'
  BY <1>1, <1>6, <1>7, HexAssumption DEF ProtectionArrives, PadsWithin
<1> QED
  BY <1>8, <1>9, <1>10 DEF FileInv

\* A character of a ROM file.
LEMMA RomKeeps ==
  ASSUME FileInv, NEW x, ReadNext(x), image.format = "rom", image.damage = "none"
  PROVE  FileInv'
<1>1. /\ stage = "reading" /\ reader.at < Len(image.body) /\ x = image.body[reader.at + 1]
      /\ UNCHANGED <<case, modes, comment, sent, image, written>>
  BY WhatIsRead
<1>2. Kinds /\ FileHolds /\ SoFar
  BY DEF FileInv
<1>3. sent \in Memory /\ image.body = write_rom(sent)
  BY <1>1, <1>2 DEF FileHolds, write_file
<1>4. reader \in Readers /\ RomSoFar(sent, reader, mem) /\ mem \in Memory
      /\ mem.security_size = 0
  BY <1>1, <1>2 DEF SoFar, Kinds
<1>5. Len(image.body) = 3 * sent.program_size
  <2>1. DOMAIN write_rom(sent) = 1..3 * sent.program_size
    BY DEF write_rom
  <2>2. 3 * sent.program_size \in Nat
    BY <1>3, MemoryIs
  <2> QED
    BY <1>3, <2>1, <2>2, LengthIs
<1>6. PICK m \in Memory : m = sent
  BY <1>3
<1>7. /\ reader.at < 3 * m.program_size /\ x = write_rom(m)[reader.at + 1]
      /\ RomSoFar(m, reader, mem)
  BY <1>1, <1>3, <1>4, <1>5, <1>6
<1>8. /\ stage' = stage /\ mem' \in Memory /\ reader' \in Readers
      /\ RomSoFar(m, reader', mem')
  BY <1>4, <1>7, RomStep
<1>9. mem'.security_size = 0
  BY <1>4, WhatIsRead
<1>10. Kinds' /\ Noting' /\ Arrived' /\ LoadedIfWhole' /\ SoFar'
  BY <1>1, <1>2, <1>6, <1>8, <1>9 DEF Kinds, Few, Noting, Arrived, LoadedIfWhole, SoFar
<1>11. FileHolds'
  BY <1>1, <1>2, Kept
<1>12. ProtectionArrives'
  BY <1>1, <1>8, <1>9, HexAssumption DEF ProtectionArrives, PadsWithin
<1> QED
  BY <1>10, <1>11, <1>12 DEF FileInv

\* A hex file without its end, and the end of a ROM file.
LEMMA EndKeeps ==
  ASSUME FileInv, EndOfImage
  PROVE  FileInv'
<1>1. /\ stage = "reading" /\ image.format # "binary" /\ reader.at = Len(image.body)
      /\ stage' = IF image.format = "hex" THEN "refused" ELSE "loaded"
      /\ UNCHANGED <<case, modes, comment, mem, sent, image, reader, written>>
  BY DEF EndOfImage
<1>2. Kinds /\ FileHolds /\ SoFar /\ mem \in Memory
  BY DEF FileInv, Kinds
<1>3. Kinds' /\ Noting' /\ SoFar'
  BY <1>1, <1>2 DEF Kinds, Few, Noting, SoFar, Stages
<1>4. FileHolds'
  BY <1>1, <1>2, Kept
<1>5. ProtectionArrives'
  BY <1>1, <1>2, HexAssumption DEF ProtectionArrives, PadsWithin, Memory
<1>6. CASE image.format = "hex"
  <2>1. HexImage(sent, image) /\ image.held \in Memory /\ HexSoFar(image.held, do_checksum(sent), reader, mem)
        /\ reader \in Readers
    BY <1>1, <1>2, <1>6 DEF FileHolds, HexImage, SoFar
  <2>2. PICK m \in Memory : m = image.held
    BY <2>1
  <2>3. /\ LastData(m) \in Nat /\ ProgramRecords(m) \in Nat /\ ProgramRecords(m) <= LastData(m)
        /\ m.security_size # 0 =>
             LastData(m) = ProgramRecords(m) + 1 + Count(m.security_size)
        /\ Count(m.security_size) \in Nat /\ reader.at \in Nat
    <3>1. Count(m.program_size) \in Nat /\ Count(m.security_size) \in Nat
      BY MemoryIs, CountRecords
    <3>2. reader.at \in Nat
      BY <2>1 DEF Readers
    <3> QED
      BY <3>1, <3>2 DEF LastData, ProgramRecords
  <2>4. reader.at < LastData(m) + 3
    <3>1. CASE InProgram(m, reader, mem)
      BY <2>3, <3>1 DEF InProgram
    <3>2. CASE InSecurity(m, reader, mem)
      BY <2>3, <3>2 DEF InSecurity
    <3>3. CASE InChecksum(m, do_checksum(sent), reader, mem)
      BY <2>3, <3>3 DEF InChecksum
    <3> QED
      BY <2>1, <2>2, <3>1, <3>2, <3>3 DEF HexSoFar
  <2>5. image.damage \in {"cut", "emptied"}
    BY <1>1, <2>1, <2>2, <2>3, <2>4 DEF HexImage
  <2>6. Arrived' /\ LoadedIfWhole'
    BY <1>1, <1>6, <2>5 DEF Arrived, LoadedIfWhole
  <2> QED
    BY <1>3, <1>4, <1>5, <2>6 DEF FileInv
<1>7. CASE image.format # "hex" /\ image.damage = "none"
  <2>1. /\ sent \in Memory /\ Unprotected(sent) /\ image.damage = "none"
        /\ image.format = "rom" /\ image.body = write_rom(sent)
    BY <1>1, <1>2, <1>7 DEF FileHolds, write_file
  <2>2. RomSoFar(sent, reader, mem) /\ mem.security_size = 0
    BY <1>1, <1>2, <1>7, <2>1 DEF SoFar
  <2> DEFINE N == sent.program_size
  <2>3. Len(image.body) = 3 * N /\ N \in Nat
    <3>1. DOMAIN write_rom(sent) = 1..3 * N
      BY DEF write_rom
    <3>2. 3 * N \in Nat /\ N \in Nat
      BY <2>1, MemoryIs
    <3> QED
      BY <2>1, <3>1, <3>2, LengthIs
  <2>4. HasProgram(sent, mem, N)
    BY <1>1, <2>2, <2>3 DEF RomSoFar
  <2>5. /\ mem.program_size = N
        /\ \A a \in 0..N - 1 : mem.program[a] = sent.program[a]
    BY <2>4 DEF HasProgram, Agree
  <2>6. Arrived' /\ LoadedIfWhole'
    BY <1>1, <2>1, <2>2, <2>5 DEF Arrived, LoadedIfWhole, Unprotected
  <2> QED
    BY <1>3, <1>4, <1>5, <2>6 DEF FileInv
<1>8. CASE image.format # "hex" /\ image.damage # "none"
  <2>1. /\ Unprotected(sent) /\ image.damage = "misread" /\ mem.security_size = 0
    BY <1>1, <1>2, <1>8 DEF FileHolds, SoFar
  <2>2. Arrived' /\ LoadedIfWhole'
    BY <1>1, <1>8, <2>1 DEF Arrived, LoadedIfWhole, Unprotected
  <2> QED
    BY <1>3, <1>4, <1>5, <2>2 DEF FileInv
<1> QED
  BY <1>6, <1>7, <1>8

\* A binary file.
LEMMA BinaryKeeps ==
  ASSUME FileInv, ReadBinary
  PROVE  FileInv'
<1>1. /\ stage = "reading" /\ image.format = "binary" /\ stage' = "loaded"
      /\ mem' = [mem EXCEPT !.program = Copy(@, 0, image.body),
                            !.program_size = Len(image.body)]
      /\ UNCHANGED <<case, modes, comment, sent, image, reader, written>>
  BY DEF ReadBinary
<1>2. Kinds /\ FileHolds /\ SoFar /\ mem \in Memory /\ mem.security_size = 0
  BY <1>1 DEF FileInv, Kinds, SoFar
<1> DEFINE N == sent.program_size
<1>3. /\ sent \in Memory /\ Unprotected(sent) /\ image.damage = "none"
      /\ image.body = [k \in 1..N |-> sent.program[k - 1]]
  BY <1>1, <1>2 DEF FileHolds, SoFar, write_file
<1>4. /\ N \in Nat /\ N <= PROGRAM_SIZE /\ PROGRAM_SIZE \in Nat
      /\ sent.program \in [0..PROGRAM_SIZE - 1 -> Bytes]
      /\ mem.program \in [0..PROGRAM_SIZE - 1 -> Bytes]
  BY <1>2, <1>3, MemoryIs
<1>5. Len(image.body) = N
  <2>1. DOMAIN image.body = 1..N
    BY <1>3
  <2> QED
    BY <1>4, <2>1, LengthIs
<1> DEFINE c == Copy(mem.program, 0, image.body)
<1>6. c \in [0..PROGRAM_SIZE - 1 -> Bytes] /\ Agree(c, sent.program, N)
  <2>1. Agree(mem.program, sent.program, 0)
    BY DEF Agree
  <2>2. Slice(image.body, 0, sent.program)
    BY <1>3, <1>4, <1>5 DEF Slice
  <2>3. Within(sent.program, PROGRAM_SIZE, Bytes)
    BY <1>4 DEF Within
  <2>4. 0 + Len(image.body) = N /\ 0 + Len(image.body) <= PROGRAM_SIZE /\ 0 \in Nat
    BY <1>4, <1>5
  <2>5. /\ c \in [0..PROGRAM_SIZE - 1 -> Bytes]
        /\ Agree(c, sent.program, 0 + Len(image.body))
    BY <1>4, <2>1, <2>2, <2>3, <2>4, Copied, Zenon
  <2> QED
    BY <2>4, <2>5
<1> HIDE DEF c
<1>7. mem' = WithProgram(mem, c, N)
  BY <1>1, <1>5 DEF WithProgram, c
<1>8. /\ mem' \in Memory /\ mem'.program = c /\ mem'.program_size = N
      /\ mem'.security_size = 0
  <2>1. N \in 0..PROGRAM_SIZE
    BY <1>4
  <2> QED
    BY <1>2, <1>6, <1>7, <2>1, OtherProgram
<1>9. Kinds' /\ Noting' /\ SoFar'
  BY <1>1, <1>2, <1>8 DEF Kinds, Few, Noting, SoFar, Stages
<1>10. FileHolds'
  BY <1>1, <1>2, Kept
<1>11. ProtectionArrives'
  BY <1>1, <1>8, HexAssumption DEF ProtectionArrives, PadsWithin
<1>12. Arrived' /\ LoadedIfWhole'
  BY <1>1, <1>3, <1>6, <1>8 DEF Arrived, LoadedIfWhole, Unprotected, Agree
<1> QED
  BY <1>9, <1>10, <1>11, <1>12 DEF FileInv

\* A chip is protected.
LEMMA ProtectKeeps ==
  ASSUME FileInv, NEW chip \in case.chips, Protect(chip)
  PROVE  FileInv'
<1> DEFINE w == check_security_data(mem, chip)
           banks == IF Unprotected(w) THEN <<>>
                    ELSE [b \in 1..chip.banks |-> Buffer(w, chip, b - 1)]
<1>1. /\ stage = "loaded" /\ UNCHANGED <<case, modes, comment, sent, image, reader>>
      /\ \/ /\ Overruns(mem, chip) /\ stage' = "overrun" /\ UNCHANGED <<mem, written>>
         \/ /\ ~Overruns(mem, chip) /\ stage' = "protected" /\ mem' = w
            /\ written' = [chip |-> chip, banks |-> banks]
  BY DEF Protect
<1>2. Kinds /\ FileHolds /\ Arrived /\ mem \in Memory /\ Few /\ case \in Cases
  BY DEF FileInv, Kinds
<1>3. ChipFits(chip)
  BY <1>2, CaseAssumption, Zenon DEF ChipFits
<1>4. sent \in Memory /\ Carries(sent) /\ Tight(sent)
  BY <1>1, <1>2 DEF FileHolds
<1>5. \/ Carries(mem) /\ Tight(mem)
      \/ Unprotected(mem) /\ \A b \in Nat : Given(b) = U
      \/ Unprotected(mem) /\ image.damage = "emptied"
  <2>1. CASE image.format = "hex" /\ image.damage # "emptied"
    <3>1. mem.security = sent.security /\ mem.security_size = sent.security_size
      BY <1>1, <1>2, <2>1 DEF Arrived
    <3> QED
      BY <1>4, <3>1, Zenon DEF Carries, Tight
  <2>2. CASE image.format # "hex"
    <3>1. Unprotected(sent) /\ mem.security_size = 0
      BY <1>1, <1>2, <2>2 DEF Arrived
    <3>2. Unprotected(mem)
      BY <3>1 DEF Unprotected
    <3> QED
      BY <1>2, <1>4, <3>1, <3>2, NoModes
  <2>3. CASE image.format = "hex" /\ image.damage = "emptied"
    <3>1. mem.security_size = 0
      BY <1>1, <1>2, <2>3 DEF Arrived
    <3> QED
      BY <2>3, <3>1 DEF Unprotected
  <2> QED
    BY <2>1, <2>2, <2>3
<1>6. Unprotected(mem) /\ image.damage # "emptied" => \A b \in Nat : Given(b) = U
  BY <1>2, <1>5, NoModes
<1>7. mem' \in Memory
  <2>1. CASE Overruns(mem, chip)
    BY <1>1, <1>2, <2>1
  <2>2. CASE ~Overruns(mem, chip) /\ Unprotected(mem)
    BY <1>1, <1>2, <2>2 DEF check_security_data
  <2>3. CASE ~Overruns(mem, chip) /\ ~Unprotected(mem)
    <3>1. w \in Memory
      BY <1>2, <1>3, <1>5, <2>3, SecurityOfChip
    <3> QED
      BY <1>1, <2>3, <3>1
  <2> QED
    BY <2>1, <2>2, <2>3
<1>8. Kinds' /\ Noting' /\ SoFar' /\ Arrived' /\ LoadedIfWhole'
  BY <1>1, <1>2, <1>7 DEF Kinds, Few, Noting, SoFar, Arrived, LoadedIfWhole, Stages
<1>9. FileHolds'
  BY <1>1, <1>2, Kept
<1>10. PadsWithin'
  <2>1. mem'.security_size <= SECURITY_SIZE
    BY <1>7, HexAssumption DEF Memory
  <2>2. ASSUME stage' = "overrun" PROVE Len(modes) > 4 * BLOCK_SIZE
    <3>1. ~Unprotected(mem) /\ mem.security_size > BLOCK_SIZE
      BY <1>1, <2>2 DEF Overruns
    <3>2. ~(Len(modes) <= 4 * BLOCK_SIZE)
      BY <1>2, <1>5, <3>1, HexAssumption, MemoryIs DEF Tight
    <3>3. Len(modes) \in Nat
      BY <1>2 DEF Few
    <3> QED
      BY <3>2, <3>3, HexAssumption
  <2> QED
    BY <1>1, <2>1, <2>2 DEF PadsWithin
<1>11. ASSUME stage' = "protected", image.damage # "emptied", NEW b \in 0..(chip.banks * chip.blocks) - 1
       PROVE  OnChip(b)' = Given(b)'
  <2>1. ~Overruns(mem, chip) /\ mem' = w /\ written' = [chip |-> chip, banks |-> banks]
    BY <1>1, <1>11
  <2>2. Given(b)' = Given(b)
    BY <1>1 DEF Given
  <2>3. b \in Nat
    BY <1>3, BytesOfChip DEF ChipFits
  <2>4. CASE Unprotected(mem)
    <3>1. w = mem
      BY <2>4 DEF check_security_data
    <3>2. banks = <<>>
      BY <2>4, <3>1
    <3> HIDE DEF banks
    <3>3. OnChip(b)' = U
      BY <2>1, <3>2 DEF OnChip
    <3> QED
      BY <1>6, <1>11, <2>2, <2>3, <2>4, <3>3
  <2>5. CASE ~Unprotected(mem)
    <3>1. /\ w \in Memory /\ ~Unprotected(w) /\ ChipBytes(chip) <= w.security_size
          /\ \A c \in 0..(4 * ChipBytes(chip)) - 1 : ModeIn(w.security, c) = Given(c)
      BY <1>2, <1>3, <1>5, <2>1, <2>5, SecurityOfChip
    <3> HIDE DEF w
    <3>2. chip.banks * chip.blocks = 4 * ChipBytes(chip)
      BY <1>3, BytesOfChip
    <3>3. ModeIn(w.security, b) = Given(b)
      BY <3>1, <3>2
    <3> DEFINE buffers == [k \in 1..chip.banks |-> Buffer(w, chip, k - 1)]
    <3>4. /\ buffers # <<>>
          /\ ModeIn(buffers[(b \div chip.blocks) + 1], b % chip.blocks)
               = ModeIn(w.security, b)
      BY <1>3, <3>1, BlocksOnChip
    <3>5. banks = buffers
      BY <3>1
    <3> HIDE DEF buffers, banks
    <3>6. OnChip(b)' = ModeIn(buffers[(b \div chip.blocks) + 1], b % chip.blocks)
      BY <2>1, <3>4, <3>5 DEF OnChip
    <3> QED
      BY <2>2, <3>3, <3>4, <3>6
  <2> QED
    BY <2>4, <2>5
<1>12. ProtectionArrives'
  <2>1. CASE stage' = "protected"
    <3>1. written'.chip = chip /\ image' = image
      BY <1>1, <2>1
    <3> QED
      BY <1>10, <1>11, <2>1, <3>1 DEF ProtectionArrives
  <2>2. CASE stage' # "protected"
    BY <1>10, <2>2 DEF ProtectionArrives
  <2> QED
    BY <2>1, <2>2
<1> QED
  BY <1>8, <1>9, <1>10, <1>12 DEF FileInv

\* FileInv is an inductive invariant: what is noted, written, sent, read and
\* padded is as it says in every reachable state.
THEOREM FileInvariance == FileSpec => []FileInv
<1>1. ASSUME FileInv, [FileNext]_fileVars PROVE FileInv'
  <2>1. CASE UNCHANGED fileVars
    BY <1>1, <2>1, CommentKeeps DEF fileVars
  <2>2. CASE ReadComment
    BY <1>1, <2>2, CommentKeeps DEF ReadComment
  <2>3. CASE \E n \in case.alphabet : ReadMode(n)
    BY <1>1, <2>3, ModeKeeps
  <2>4. CASE \E p \in case.programs, f \in Formats : Assemble(p, f)
    BY <1>1, <2>4, AssembleKeeps
  <2>5. CASE Damage
    BY <1>1, <2>5, DamageKeeps
  <2>6. CASE Load \/ LoadNothing \/ Misread
    BY <1>1, <2>6, LoadKeeps, NothingKeeps, MisreadKeeps
  <2>7. CASE \E x \in {image.body[k] : k \in DOMAIN image.body} : ReadNext(x)
    <3>1. PICK x \in {image.body[k] : k \in DOMAIN image.body} : ReadNext(x)
      BY <2>7
    <3>2. image.format = "hex" \/ (image.format = "rom" /\ image.damage \in {"none", "misread"})
      <4>1. stage = "reading" /\ image.format \in {"hex", "rom"}
        BY <3>1, WhatIsRead
      <4> QED
        BY <1>1, <4>1 DEF FileInv, FileHolds
    <3> QED
      BY <1>1, <3>1, <3>2, HexKeeps, RomKeeps, MisreadOn
  <2>8. CASE EndOfImage
    BY <1>1, <2>8, EndKeeps
  <2>9. CASE ReadBinary
    BY <1>1, <2>9, BinaryKeeps
  <2>10. CASE \E c \in case.chips : Protect(c)
    BY <1>1, <2>10, ProtectKeeps
  <2> QED
    BY <1>1, <2>1, <2>2, <2>3, <2>4, <2>5, <2>6, <2>7, <2>8, <2>9, <2>10, Zenon DEF FileNext
<1> QED
  BY <1>1, FileInvAtFirst, PTL DEF FileSpec

\* For every program, every protection file, every size of the arrays and
\* every way in which a hex file is cut or a byte of its program changed: a
\* file that is read as what it is and is whole is loaded as it was written;
\* a damaged one is refused, unless it was cut to nothing: that one is loaded
\* as an empty program without protection (file.c:263-265).
THEOREM LoadsWholeFiles == FileSpec => []LoadedIfWhole
<1>1. FileInv => LoadedIfWhole
  BY DEF FileInv
<1> QED
  BY <1>1, FileInvariance, PTL

\* For the same, and every chip whose protection fits: every block of the chip
\* gets the mode meant for it unless the file was cut to nothing, and no
\* padding runs past the array but in the one case that PadsWithin names.
THEOREM ProtectionArrivesOnChip == FileSpec => []ProtectionArrives
<1>1. FileInv => ProtectionArrives
  BY DEF FileInv
<1> QED
  BY <1>1, FileInvariance, PTL
=============================================================================
