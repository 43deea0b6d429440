----------------------------- MODULE BscanProofs -----------------------------
(***************************************************************************)
(* Proofs about the boundary scanner, Bscan and PortCommit: values are     *)
(* chosen that do not fight, commit takes the pins to them without strong  *)
(* levels on the way, a circuit that is as described passes, and a short   *)
(* of free pins is noticed.                                                *)
(*                                                                         *)
(* The invariant says which of commit's writes have reached the chip, and  *)
(* that the posted values are safe with the settings they were chosen for. *)
(* A second one says what the patterns posted so far have shown of a       *)
(* short.                                                                  *)
(***************************************************************************)
EXTENDS Bscan, TLAPS, WellFoundedInduction

-----------------------------------------------------------------------------
(* The choice of a value *)

\* Of a set of numbers that is not empty, Min is the least.
LEMMA MinIsLeast ==
  ASSUME NEW S, S \subseteq Nat, S # {}
  PROVE  Min(S) \in S /\ \A i \in S : Min(S) <= i
<1>1. PICK m \in S : \A i \in S : ~(<<i, m>> \in OpToRel(<, Nat))
  BY NatLessThanWellFounded, WFMin, Zenon
<1>2. \A i \in S : m <= i
  <2> SUFFICES ASSUME NEW i \in S PROVE m <= i
    OBVIOUS
  <2>1. <<i, m>> \notin {ss \in Nat \X Nat : ss[1] < ss[2]}
    BY <1>1 DEF OpToRel
  <2>2. i \in Nat /\ m \in Nat
    OBVIOUS
  <2>3. ~(i < m)
    BY <2>1, <2>2
  <2> QED
    BY <2>2, <2>3
<1> QED
  BY <1>2 DEF Min

\* First is the value of a rule that has one, and of which the ones before
\* have none.
LEMMA FirstFits ==
  ASSUME NEW n \in Nat, NEW rules, DOMAIN rules = 1..n
  PROVE  \/ First(rules) = Untestable
         \/ \E i \in 1..n : /\ First(rules) \in rules[i]
                            /\ \A j \in 1..(i - 1) : rules[j] = {}
<1> DEFINE fit == {i \in DOMAIN rules : rules[i] # {}}
<1>1. CASE fit = {}
  BY <1>1 DEF First
<1>2. CASE fit # {}
  <2>1. fit \subseteq Nat
    OBVIOUS
  <2>2. Min(fit) \in fit /\ \A i \in fit : Min(fit) <= i
    BY <2>1, <1>2, MinIsLeast
  <2>3. First(rules) \in rules[Min(fit)]
    <3>1. First(rules) = CHOOSE v \in rules[Min(fit)] : TRUE
      BY <1>2 DEF First
    <3>2. rules[Min(fit)] # {}
      BY <2>2
    <3> HIDE DEF fit
    <3> QED
      BY <3>1, <3>2
  <2>4. \A j \in 1..(Min(fit) - 1) : j \notin fit
    <3> SUFFICES ASSUME NEW j \in 1..(Min(fit) - 1), j \in fit PROVE FALSE
      OBVIOUS
    <3>1. Min(fit) \in Nat /\ Min(fit) <= j
      BY <2>1, <2>2
    <3> QED
      BY <3>1
  <2>5. \A j \in 1..(Min(fit) - 1) : j \in DOMAIN rules
    BY <2>1, <2>2
  <2> QED
    BY <2>2, <2>3, <2>4, <2>5
<1> QED
  BY <1>1, <1>2

\* No strong drive against a strong drive of the other level.
Safe(v, e) == /\ v = "0" => "1" \notin e
              /\ v = "1" => "0" \notin e

\* What First can choose.
LEMMA FirstIn ==
  ASSUME NEW n \in Nat, NEW rules, DOMAIN rules = 1..n,
         NEW S, \A i \in 1..n : rules[i] \subseteq S
  PROVE  First(rules) \in {Untestable} \cup S
BY FirstFits

\* weak chooses a strong value against the other level only if the circuit
\* does not drive that level, or because it is allowed.
LEMMA WeakChoice ==
  ASSUME NEW a, NEW e, NEW x, NEW xr, NEW y, NEW yr
  PROVE  weak(a, e, x, xr, y, yr) \in
           {Untestable, "Z", xr, yr} \cup {w \in {x} : y \notin e} \cup (a \cap {x, y})
<1> DEFINE S == {"Z", xr, yr} \cup {w \in {x} : y \notin e} \cup (a \cap {x, y})
<1> DEFINE r1 == When(yr \in a /\ e = {x}, yr)
           r2 == When("Z" \in a /\ Meets(e, {x, xr}) /\ ~Meets(e, {y, yr, "Z"}), "Z")
           r3 == When(xr \in a /\ Meets(e, {x, xr, "Z"}) /\ ~Meets(e, {y, yr}), xr)
           r4 == When(xr \in a /\ Meets(e, {x, xr, "Z", yr}) /\ y \notin e, x)
           r5 == When("Z" \in a, "Z")
           r6 == When(xr \in a, xr)
           r7 == When(yr \in a, yr)
           r8 == When(y \in a, y)
           r9 == When(x \in a, x)
<1>1. /\ r1 \subseteq S /\ r2 \subseteq S /\ r3 \subseteq S
      /\ r4 \subseteq S /\ r5 \subseteq S /\ r6 \subseteq S
      /\ r7 \subseteq S /\ r8 \subseteq S /\ r9 \subseteq S
  BY DEF When
<1>2. weak(a, e, x, xr, y, yr) = First(<<r1, r2, r3, r4, r5, r6, r7, r8, r9>>)
  BY DEF weak
<1> HIDE DEF r1, r2, r3, r4, r5, r6, r7, r8, r9, S
<1>3. \A i \in 1..9 : <<r1, r2, r3, r4, r5, r6, r7, r8, r9>>[i] \subseteq S
  BY <1>1
<1>4. DOMAIN <<r1, r2, r3, r4, r5, r6, r7, r8, r9>> = 1..9
  OBVIOUS
<1>5. First(<<r1, r2, r3, r4, r5, r6, r7, r8, r9>>) \in {Untestable} \cup S
  BY <1>3, <1>4, FirstIn
<1> QED
  BY <1>2, <1>5 DEF S

\* gentle chooses no strong value.
LEMMA GentleChoice ==
  ASSUME NEW a, NEW e, NEW x, NEW xr, NEW y, NEW yr
  PROVE  gentle(a, e, x, xr, y, yr) \in {Untestable, "Z", xr, yr}
<1> DEFINE S == {"Z", xr, yr}
<1> DEFINE r1 == When("Z" \in a /\ Meets(e, {x, xr}) /\ ~Meets(e, {y, yr, "Z"}), "Z")
           r2 == When(xr \in a /\ Meets(e, {x, xr, "Z"}) /\ ~Meets(e, {y, yr}), xr)
           r3 == When(yr \in a /\ e = {x}, yr)
           r4 == When("Z" \in a, "Z")
           r5 == When(xr \in a, xr)
           r6 == When(yr \in a, yr)
<1>1. /\ r1 \subseteq S /\ r2 \subseteq S /\ r3 \subseteq S
      /\ r4 \subseteq S /\ r5 \subseteq S /\ r6 \subseteq S
  BY DEF When
<1>2. gentle(a, e, x, xr, y, yr) = First(<<r1, r2, r3, r4, r5, r6>>)
  BY DEF gentle
<1> HIDE DEF r1, r2, r3, r4, r5, r6, S
<1>3. \A i \in 1..6 : <<r1, r2, r3, r4, r5, r6>>[i] \subseteq S
  BY <1>1
<1>4. DOMAIN <<r1, r2, r3, r4, r5, r6>> = 1..6
  OBVIOUS
<1>5. First(<<r1, r2, r3, r4, r5, r6>>) \in {Untestable} \cup S
  BY <1>3, <1>4, FirstIn
<1> QED
  BY <1>2, <1>5 DEF S

\* strong chooses the strong value only if it is allowed.
LEMMA StrongChoice ==
  ASSUME NEW a, NEW e, NEW x, NEW xr, NEW y, NEW yr
  PROVE  strong(a, e, x, xr, y, yr) \in {Untestable, "Z", xr, yr} \cup (a \cap {x})
<1> DEFINE S == {Untestable, "Z", xr, yr} \cup (a \cap {x})
<1> DEFINE r1 == When(x \in a, x)
           r2 == When(xr \in a, IF y \in e THEN Untestable ELSE xr)
           r3 == When("Z" \in a, IF Meets(e, {x, xr}) THEN "Z" ELSE Untestable)
           r4 == When(yr \in a, IF x \in e THEN yr ELSE Untestable)
<1>1. r1 \subseteq S /\ r2 \subseteq S /\ r3 \subseteq S /\ r4 \subseteq S
  BY DEF When
<1>2. strong(a, e, x, xr, y, yr) = First(<<r1, r2, r3, r4>>)
  BY DEF strong
<1> HIDE DEF r1, r2, r3, r4, S
<1>3. \A i \in 1..4 : <<r1, r2, r3, r4>>[i] \subseteq S
  BY <1>1
<1>4. DOMAIN <<r1, r2, r3, r4>> = 1..4
  OBVIOUS
<1>5. First(<<r1, r2, r3, r4>>) \in {Untestable} \cup S
  BY <1>3, <1>4, FirstIn
<1> QED
  BY <1>2, <1>5 DEF S

\* The values chosen for a pin are values that do not fight what its setting
\* says of the circuit.
LEMMA ChoicesSafe ==
  ASSUME NEW s \in PinSettings, NEW up,
         NEW v \in {gentle_to(s, up), weak_to(s, up), strong_to(s, up)},
         v # Untestable
  PROVE  v \in Values /\ Safe(v, s.external)
<1> DEFINE a == s.allow  e == s.external
<1>1. ~Opposed(a, e)
  BY DEF PinSettings
<1>2. PICK t \in {<<"1", "1R", "0", "0R">>, <<"0", "0R", "1", "1R">>} :
        v \in {gentle(a, e, t[1], t[2], t[3], t[4]), weak(a, e, t[1], t[2], t[3], t[4]),
               strong(a, e, t[1], t[2], t[3], t[4])}
  BY DEF gentle_to, weak_to, strong_to, Toward
<1> HIDE DEF a, e
<1>3. CASE t = <<"1", "1R", "0", "0R">>
  <2>1. v \in {gentle(a, e, "1", "1R", "0", "0R"), weak(a, e, "1", "1R", "0", "0R"),
               strong(a, e, "1", "1R", "0", "0R")}
    BY <1>2, <1>3
  <2>2. v \in {"Z", "1R", "0R"} \cup {w \in {"1"} : "0" \notin e} \cup (a \cap {"1", "0"})
    BY <2>1, GentleChoice, WeakChoice, StrongChoice
  <2> QED
    BY <1>1, <2>2 DEF Opposed, Safe, Values, e
<1>4. CASE t = <<"0", "0R", "1", "1R">>
  <2>1. v \in {gentle(a, e, "0", "0R", "1", "1R"), weak(a, e, "0", "0R", "1", "1R"),
               strong(a, e, "0", "0R", "1", "1R")}
    BY <1>2, <1>4
  <2>2. v \in {"Z", "1R", "0R"} \cup {w \in {"0"} : "1" \notin e} \cup (a \cap {"1", "0"})
    BY <2>1, GentleChoice, WeakChoice, StrongChoice
  <2> QED
    BY <1>1, <2>2 DEF Opposed, Safe, Values, e
<1> QED
  BY <1>2, <1>3, <1>4

-----------------------------------------------------------------------------
(* What a pin reads *)

\* What First can choose of three rules.
LEMMA FirstOfThree ==
  ASSUME NEW A, NEW B, NEW C
  PROVE  First(<<A, B, C>>) \in {Untestable} \cup A \cup {w \in B : A = {}}
                                \cup {w \in C : A = {} /\ B = {}}
<1> DEFINE rules == <<A, B, C>>
<1>1. DOMAIN rules = 1..3
  OBVIOUS
<1>2. rules[1] = A /\ rules[2] = B /\ rules[3] = C
  OBVIOUS
<1> HIDE DEF rules
<1>3. \/ First(rules) = Untestable
      \/ \E i \in 1..3 : /\ First(rules) \in rules[i]
                         /\ \A j \in 1..(i - 1) : rules[j] = {}
  BY <1>1, FirstFits
<1>4. ASSUME NEW i \in 1..3, First(rules) \in rules[i], \A j \in 1..(i - 1) : rules[j] = {}
      PROVE  First(rules) \in A \cup {w \in B : A = {}}
                                \cup {w \in C : A = {} /\ B = {}}
  <2>1. CASE i = 1
    BY <1>4, <2>1, <1>2
  <2>2. CASE i = 2
    <3>1. 1 \in 1..(i - 1)
      BY <2>2
    <3> QED
      BY <1>4, <2>2, <3>1, <1>2
  <2>3. CASE i = 3
    <3>1. 1 \in 1..(i - 1) /\ 2 \in 1..(i - 1)
      BY <2>3
    <3> QED
      BY <1>4, <2>3, <3>1, <1>2
  <2> QED
    BY <2>1, <2>2, <2>3
<1> QED
  BY <1>3, <1>4 DEF rules

\* The level expected of a pin that is pulled towards x.
LEMMA PulledChoice ==
  ASSUME NEW e, NEW x, NEW xr, NEW y, NEW yr,
         NEW g, g = pulled(e, x, xr, y, yr)
  PROVE  \/ g = Untestable
         \/ g = x /\ yr \notin e /\ y \notin e
         \/ g = y /\ yr \notin e /\ y \in e /\ ~Meets(e, {x, xr, "Z"})
<1> DEFINE A == When(yr \in e, Untestable)
           B == When(Meets(e, {x, xr, "Z"}) /\ y \notin e, x)
           C == When(y \in e /\ ~Meets(e, {x, xr, "Z"}), y)
<1>1. /\ A = {} <=> yr \notin e
      /\ A \subseteq {Untestable}
      /\ \A w \in B : w = x /\ y \notin e
      /\ \A w \in C : w = y /\ y \in e /\ ~Meets(e, {x, xr, "Z"})
  BY DEF When
<1>2. g = First(<<A, B, C>>)
  BY DEF pulled
<1> HIDE DEF A, B, C
<1>3. g \in {Untestable} \cup A \cup {w \in B : A = {}}
                           \cup {w \in C : A = {} /\ B = {}}
  BY <1>2, FirstOfThree
<1> QED
  BY <1>1, <1>3

\* The level expected of a pin that drives nothing.
LEMMA UndrivenChoice ==
  ASSUME NEW e, NEW g, g = undriven(e)
  PROVE  \/ g = Untestable
         \/ g = "0" /\ "Z" \notin e /\ Meets(e, {"0", "0R"}) /\ ~Meets(e, {"1", "1R"})
         \/ g = "1" /\ "Z" \notin e /\ Meets(e, {"1", "1R"}) /\ ~Meets(e, {"0", "0R"})
<1> DEFINE A == When("Z" \in e, Untestable)
           B == When(Meets(e, {"0", "0R"}) /\ ~Meets(e, {"1", "1R"}), "0")
           C == When(Meets(e, {"1", "1R"}) /\ ~Meets(e, {"0", "0R"}), "1")
<1>1. /\ A = {} <=> "Z" \notin e
      /\ A \subseteq {Untestable}
      /\ \A w \in B : w = "0" /\ Meets(e, {"0", "0R"}) /\ ~Meets(e, {"1", "1R"})
      /\ \A w \in C : w = "1" /\ Meets(e, {"1", "1R"}) /\ ~Meets(e, {"0", "0R"})
  BY DEF When
<1>2. g = First(<<A, B, C>>)
  BY DEF undriven
<1> HIDE DEF A, B, C
<1>3. g \in {Untestable} \cup A \cup {w \in B : A = {}}
                           \cup {w \in C : A = {} /\ B = {}}
  BY <1>2, FirstOfThree
<1> QED
  BY <1>1, <1>3

\* The level of a pin that drives v while the circuit drives d, one of the
\* things it may drive, is the expected one, provided that they do not fight.
LEMMA ExpectedIsRead ==
  ASSUME NEW e \in SUBSET Values, NEW v \in Values, Safe(v, e),
         NEW d \in Values, d \in e \/ (e = {} /\ d = "Z"),
         NEW g \in Level({d, v})
  PROVE  expected(v, e) \in {Untestable, g}
<1>1. CASE v \in Strong
  <2>1. expected(v, e) = v
    BY <1>1 DEF expected
  <2> QED
    BY <1>1, <2>1 DEF Level, Meets, Safe, Strong, Values
<1>2. CASE v = "0R"
  <2>1. expected(v, e) = pulled(e, "0", "0R", "1", "1R")
    BY <1>2 DEF expected, Strong
  <2>2. \/ expected(v, e) = Untestable
        \/ expected(v, e) = "0" /\ "1R" \notin e /\ "1" \notin e
        \/ expected(v, e) = "1" /\ e \subseteq {"1"} /\ "1" \in e
    BY <2>1, PulledChoice DEF Meets, Values
  <2> QED
    BY <1>2, <2>2 DEF Level, Meets, Strong, Values
<1>3. CASE v = "1R"
  <2>1. expected(v, e) = pulled(e, "1", "1R", "0", "0R")
    BY <1>3 DEF expected, Strong
  <2>2. \/ expected(v, e) = Untestable
        \/ expected(v, e) = "1" /\ "0R" \notin e /\ "0" \notin e
        \/ expected(v, e) = "0" /\ e \subseteq {"0"} /\ "0" \in e
    BY <2>1, PulledChoice DEF Meets, Values
  <2> QED
    BY <1>3, <2>2 DEF Level, Meets, Strong, Values
<1>4. CASE v = "Z"
  <2>1. expected(v, e) = undriven(e)
    BY <1>4 DEF expected, Strong
  <2>2. \/ expected(v, e) = Untestable
        \/ expected(v, e) = "0" /\ e # {} /\ e \subseteq {"0", "0R"}
        \/ expected(v, e) = "1" /\ e # {} /\ e \subseteq {"1", "1R"}
    BY <2>1, UndrivenChoice DEF Meets, Values
  <2> QED
    BY <1>4, <2>2 DEF Level, Meets, Strong, Values
<1> QED
  BY <1>1, <1>2, <1>3, <1>4 DEF Values, Strong

-----------------------------------------------------------------------------
(* commit *)

\* The first n writes of a pass include the one of register r of port q.
Done(pass, n, r, q) == \E i \in 1..3 : pass[i] = r /\ n >= 3 * (q - 1) + i

\* Registers with the same contents; the chip's registers when the first n
\* writes of a pass from old to new have been made.
Agree(s, t) == \A p \in Pins, r \in Regs : p \in s[r] <=> p \in t[r]
Changing(pass, n, old, new) ==
  \A p \in Pins, r \in Regs :
    p \in chip[r] <=> p \in (IF Done(pass, n, r, Port[p]) THEN new ELSE old)[r]

\* Pins that are not used are as they were after reset.
Unused(used, s) == \A p \in Pins \ used, r \in Regs : p \in s[r] <=> p \in Reset[r]

PortType ==
  /\ want \in Bits /\ cached \in Bits /\ chip \in Bits /\ from \in Bits
  /\ at \in 0..(6 * NPorts)

FirstPass ==
  at < 3 * NPorts =>
    /\ Agree(cached, from)
    /\ Changing(Pass1, at, cached, Between(cached, want))

SecondPass ==
  at >= 3 * NPorts /\ at < 6 * NPorts =>
    /\ Agree(cached, Between(from, want))
    /\ Changing(Pass2, at - 3 * NPorts, cached, want)

AtRest == ~Committing => Agree(cached, want) /\ Agree(chip, want)

PortInv(used) ==
  /\ PortType
  /\ Unused(used, want) /\ Unused(used, from)
  /\ FirstPass /\ SecondPass /\ AtRest

\* What the n-th write of a pass adds to those that are done.
LEMMA DoneNext ==
  ASSUME NEW pass, NEW n \in Nat, NEW r, NEW q \in Nat \ {0}
  PROVE  Done(pass, n + 1, r, q) <=>
           \/ Done(pass, n, r, q)
           \/ q = (n \div 3) + 1 /\ r = pass[(n % 3) + 1]
<1> DEFINE d == n \div 3  m == n % 3
<1>1. d \in Nat /\ m \in 0..2 /\ n = 3 * d + m
  OBVIOUS
<1> HIDE DEF d, m
<1>2. \A i \in 1..3 : n + 1 >= 3 * (q - 1) + i <=>
                       (n >= 3 * (q - 1) + i \/ (q = d + 1 /\ i = m + 1))
  BY <1>1
<1>3. m + 1 \in 1..3
  BY <1>1
<1> QED
  BY <1>2, <1>3 DEF Done, d, m

\* A pass begins with no write done and ends with all of them done.
LEMMA DoneEnds ==
  ASSUME NEW pass, NEW r, NEW q \in 1..NPorts
  PROVE  /\ ~Done(pass, 0, r, q)
         /\ Done(pass, 3 * NPorts, r, q) <=> \E i \in 1..3 : pass[i] = r
<1>1. NPorts \in Nat
  BY PortAssumption
<1> QED
  BY <1>1 DEF Done

\* change gives the pins of a port their new bits in a register, provided that
\* the chip has what is cached, and that pins that are not used do not change.
LEMMA ChangeEffect ==
  ASSUME NEW used, NEW q, NEW r \in Regs, NEW new \in Bits, chip \in Bits,
         \A p \in Pins : Port[p] = q => (p \in chip[r] <=> p \in cached[r]),
         \A p \in Pins \ used : p \in new[r] <=> p \in cached[r],
         change(used, q, r, new)
  PROVE  /\ chip' \in Bits
         /\ \A p \in Pins, s \in Regs :
              p \in chip'[s] <=> p \in (IF s = r /\ Port[p] = q THEN new ELSE chip)[s]
<1> DEFINE byte == {p \in Pins : Port[p] = q}
<1>1. CASE used \cap byte # {} /\ cached[r] \cap byte # new[r] \cap byte
  <2>1. chip' = [chip EXCEPT ![r] = (@ \ byte) \cup (new[r] \cap byte)]
    BY <1>1 DEF change
  <2> QED
    BY <2>1 DEF Bits
<1>2. CASE used \cap byte = {}
  <2>1. chip' = chip
    BY <1>2 DEF change
  <2>2. \A p \in byte : p \in Pins \ used
    BY <1>2
  <2> QED
    BY <2>1, <2>2
<1>3. CASE cached[r] \cap byte = new[r] \cap byte
  <2>1. chip' = chip
    BY <1>3 DEF change
  <2>2. \A p \in byte : p \in cached[r] <=> p \in new[r]
    BY <1>3
  <2> QED
    BY <2>1, <2>2
<1> QED
  BY <1>1, <1>2, <1>3

\* The registers between two settings, bit by bit.
LEMMA BetweenBits ==
  ASSUME NEW c \in Bits, NEW w \in Bits
  PROVE  /\ Between(c, w) \in Bits
         /\ \A p :
              /\ p \in Between(c, w)["dm0"] <=> (p \in c["dm0"] /\ p \in w["dm0"])
              /\ p \in Between(c, w)["dm1"] <=> (p \in c["dm1"] \/ p \in w["dm1"])
              /\ p \in Between(c, w)["dm2"] <=> p \in c["dm2"]
              /\ p \in Between(c, w)["dr"] <=> p \in w["dr"]
<1> DEFINE b == Between(c, w)
<1>1. b = [dm1 |-> c.dm1 \cup w.dm1, dm0 |-> c.dm0 \cap w.dm0, dr |-> w.dr, dm2 |-> c.dm2]
  BY DEF Between
<1>2. \A r \in Regs : c[r] \in SUBSET Pins /\ w[r] \in SUBSET Pins
  BY DEF Bits
<1>3. \A r \in Regs : b[r] \in SUBSET Pins
  BY <1>1, <1>2 DEF Regs
<1>4. b = [r \in Regs |-> b[r]]
  BY <1>1 DEF Regs
<1> HIDE DEF b
<1>5. b \in Bits
  BY <1>3, <1>4 DEF Bits
<1>6. b.dm1 = c.dm1 \cup w.dm1 /\ b.dm0 = c.dm0 \cap w.dm0 /\ b.dr = w.dr /\ b.dm2 = c.dm2
  BY <1>1
<1> QED
  BY <1>5, <1>6 DEF b

\* What both settings have in common stays.
LEMMA BetweenUnused ==
  ASSUME NEW c \in Bits, NEW w \in Bits, NEW used, Unused(used, c), Unused(used, w)
  PROVE  Unused(used, Between(c, w))
<1> SUFFICES ASSUME NEW p \in Pins \ used, NEW r \in Regs
             PROVE  p \in Between(c, w)[r] <=> p \in Reset[r]
  BY DEF Unused
<1>1. p \in c[r] <=> p \in Reset[r]
  BY DEF Unused
<1>2. p \in w[r] <=> p \in Reset[r]
  BY DEF Unused
<1> QED
  BY <1>1, <1>2, BetweenBits DEF Regs

\* A register that a pass has not come to is as before it.
LEMMA PortAndRegister ==
  ASSUME NEW pass, \A i \in 1..3 : pass[i] \in Regs, NEW n \in Nat, n < 3 * NPorts
  PROVE  /\ (n \div 3) + 1 \in 1..NPorts
         /\ pass[(n % 3) + 1] \in Regs
<1>1. NPorts \in Nat
  BY PortAssumption
<1>2. (n % 3) + 1 \in 1..3
  OBVIOUS
<1> QED
  BY <1>1, <1>2

\* A write of a pass in which no register comes twice.
LEMMA PassStep ==
  ASSUME NEW used, NEW pass, \A i \in 1..3 : pass[i] \in Regs,
         \A i, j \in 1..3 : pass[i] = pass[j] => i = j,
         NEW n \in Nat, n < 3 * NPorts, NEW new \in Bits,
         chip \in Bits, cached \in Bits,
         Unused(used, new), Unused(used, cached),
         Changing(pass, n, cached, new),
         change(used, (n \div 3) + 1, pass[(n % 3) + 1], new)
  PROVE  /\ chip' \in Bits
         /\ \A p \in Pins, r \in Regs :
              p \in chip'[r] <=>
                p \in (IF Done(pass, n + 1, r, Port[p]) THEN new ELSE cached)[r]
<1> DEFINE q == (n \div 3) + 1  s == pass[(n % 3) + 1]
<1>1. q \in 1..NPorts /\ s \in Regs
  BY PortAndRegister
<1>2. \A p \in Pins : Port[p] \in Nat \ {0}
  BY PortAssumption
<1>3. ~Done(pass, n, s, q)
  <2> DEFINE m == n % 3  d == n \div 3
  <2>1. d \in Nat /\ m \in 0..2 /\ n = 3 * d + m
    OBVIOUS
  <2>2. q = d + 1 /\ s = pass[m + 1]
    OBVIOUS
  <2> HIDE DEF q, s, m, d
  <2>3. \A i \in 1..3 : n >= 3 * (q - 1) + i => i # m + 1
    BY <2>1, <2>2
  <2>4. m + 1 \in 1..3
    BY <2>1
  <2>5. ASSUME NEW i \in 1..3, pass[i] = s
        PROVE  ~(n >= 3 * (q - 1) + i)
    <3>1. i = m + 1
      BY <2>2, <2>4, <2>5
    <3> QED
      BY <2>3, <3>1
  <2> QED
    BY <2>5 DEF Done
<1>4. \A p \in Pins : Port[p] = q => (p \in chip[s] <=> p \in cached[s])
  BY <1>1, <1>3 DEF Changing
<1>5. \A p \in Pins \ used : p \in new[s] <=> p \in cached[s]
  BY <1>1 DEF Unused
<1>6. /\ chip' \in Bits
      /\ \A p \in Pins, r \in Regs :
           p \in chip'[r] <=> p \in (IF r = s /\ Port[p] = q THEN new ELSE chip)[r]
  <2>1. change(used, q, s, new)
    OBVIOUS
  <2> HIDE DEF q, s
  <2> QED
    BY <1>1, <1>4, <1>5, <2>1, ChangeEffect
<1>7. \A p \in Pins, r \in Regs :
        Done(pass, n + 1, r, Port[p]) <=>
          (Done(pass, n, r, Port[p]) \/ (Port[p] = q /\ r = s))
  BY <1>2, DoneNext
<1> HIDE DEF q, s
<1> QED
  BY <1>6, <1>7 DEF Changing

\* The registers of each pass.
LEMMA Passes ==
  /\ \A i \in 1..3 : Pass1[i] \in Regs /\ Pass2[i] \in Regs
  /\ \A i, j \in 1..3 : (Pass1[i] = Pass1[j] => i = j) /\ (Pass2[i] = Pass2[j] => i = j)
  /\ \A r \in Regs : r # "dm2" => \E i \in 1..3 : Pass1[i] = r
  /\ \A i \in 1..3 : Pass1[i] # "dm2"
  /\ \A r \in Regs : r # "dr" => \E i \in 1..3 : Pass2[i] = r
  /\ \A i \in 1..3 : Pass2[i] # "dr"
<1>1. Pass1[1] = "dm1" /\ Pass1[2] = "dm0" /\ Pass1[3] = "dr"
  BY DEF Pass1
<1>2. Pass2[1] = "dm0" /\ Pass2[2] = "dm1" /\ Pass2[3] = "dm2"
  BY DEF Pass2
<1>3. 1 \in 1..3 /\ 2 \in 1..3 /\ 3 \in 1..3 /\ \A i \in 1..3 : i \in {1, 2, 3}
  OBVIOUS
<1> QED
  BY <1>1, <1>2, <1>3 DEF Regs

\* A write of the first pass.
LEMMA FirstPassStep ==
  ASSUME NEW used, PortInv(used), commit_write(used), at < 3 * NPorts
  PROVE  PortInv(used)'
<1>1. NPorts \in Nat \ {0} /\ at \in Nat
  BY PortAssumption DEF PortInv, PortType
<1> DEFINE new == Between(cached, want)
<1>2. /\ change(used, (at \div 3) + 1, Pass1[(at % 3) + 1], new)
      /\ at' = at + 1
      /\ cached' = IF at + 1 = 3 * NPorts THEN new ELSE cached
      /\ want' = want /\ from' = from
  BY DEF commit_write
<1>3. want \in Bits /\ cached \in Bits /\ chip \in Bits /\ from \in Bits
  BY DEF PortInv, PortType
<1>4. Agree(cached, from) /\ Changing(Pass1, at, cached, new)
  BY DEF PortInv, FirstPass
<1>5. Unused(used, want) /\ Unused(used, from) /\ Unused(used, cached)
  <2>1. Unused(used, want) /\ Unused(used, from)
    BY DEF PortInv
  <2> QED
    BY <2>1, <1>4 DEF Unused, Agree
<1>6. new \in Bits /\ Unused(used, new)
  BY <1>3, <1>5, BetweenBits, BetweenUnused
<1> HIDE DEF new
<1>7. /\ chip' \in Bits
      /\ \A p \in Pins, r \in Regs :
           p \in chip'[r] <=>
             p \in (IF Done(Pass1, at + 1, r, Port[p]) THEN new ELSE cached)[r]
  BY <1>1, <1>2, <1>3, <1>4, <1>5, <1>6, Passes, PassStep
<1>8. PortType'
  BY <1>1, <1>2, <1>3, <1>6, <1>7 DEF PortType
<1>9. Unused(used, want)' /\ Unused(used, from)'
  BY <1>2, <1>5 DEF Unused
<1>10. CASE at + 1 < 3 * NPorts
  <2>1. FirstPass'
    BY <1>1, <1>2, <1>4, <1>7, <1>10 DEF FirstPass, Agree, Changing, new
  <2>2. SecondPass' /\ AtRest'
    BY <1>1, <1>2, <1>10 DEF SecondPass, AtRest, Committing
  <2> QED
    BY <1>8, <1>9, <2>1, <2>2 DEF PortInv
<1>11. CASE at + 1 = 3 * NPorts
  <2>1. FirstPass' /\ AtRest'
    BY <1>1, <1>2, <1>11 DEF FirstPass, AtRest, Committing
  <2>2. Agree(new, Between(from, want))
    BY <1>3, <1>4, BetweenBits DEF Agree, Regs, new
  <2>3. \A p \in Pins, r \in Regs : p \in chip'[r] <=> p \in new[r]
    <3> SUFFICES ASSUME NEW p \in Pins, NEW r \in Regs
                 PROVE  p \in chip'[r] <=> p \in new[r]
      OBVIOUS
    <3>1. Port[p] \in 1..NPorts
      BY PortAssumption
    <3>2. CASE r # "dm2"
      <4>1. Done(Pass1, at + 1, r, Port[p])
        BY <1>11, <3>1, <3>2, DoneEnds, Passes
      <4> QED
        BY <1>7, <4>1
    <3>3. CASE r = "dm2"
      <4>1. p \in new["dm2"] <=> p \in cached["dm2"]
        BY <1>3, BetweenBits DEF new
      <4> QED
        BY <1>7, <3>3, <4>1
    <3> QED
      BY <3>2, <3>3
  <2>4. \A r, p : p \in Pins => ~Done(Pass2, 0, r, Port[p])
    BY PortAssumption, DoneEnds
  <2>5. SecondPass'
    <3>1. cached' = new /\ at' - 3 * NPorts = 0
      BY <1>1, <1>2, <1>11
    <3>2. Agree(cached, Between(from, want))'
      BY <1>2, <2>2, <3>1 DEF Agree, Between
    <3>3. Changing(Pass2, at - 3 * NPorts, cached, want)'
      BY <2>3, <2>4, <3>1 DEF Changing
    <3> QED
      BY <3>2, <3>3 DEF SecondPass
  <2> QED
    BY <1>8, <1>9, <2>1, <2>5 DEF PortInv
<1> QED
  BY <1>1, <1>10, <1>11

\* A write of the second pass.
LEMMA SecondPassStep ==
  ASSUME NEW used, PortInv(used), commit_write(used), at >= 3 * NPorts
  PROVE  PortInv(used)'
<1> DEFINE n == at - 3 * NPorts
<1>1. NPorts \in Nat \ {0} /\ at \in Nat /\ n \in Nat /\ at < 6 * NPorts /\ n < 3 * NPorts
  BY PortAssumption DEF PortInv, PortType, commit_write, Committing
<1>2. /\ change(used, (n \div 3) + 1, Pass2[(n % 3) + 1], want)
      /\ at' = at + 1
      /\ cached' = IF n + 1 = 3 * NPorts THEN want ELSE cached
      /\ want' = want /\ from' = from
  BY <1>1 DEF commit_write
<1>3. want \in Bits /\ cached \in Bits /\ chip \in Bits /\ from \in Bits
  BY DEF PortInv, PortType
<1>4. Agree(cached, Between(from, want)) /\ Changing(Pass2, n, cached, want)
  BY <1>1 DEF PortInv, SecondPass
<1>5. Unused(used, want) /\ Unused(used, from) /\ Unused(used, cached)
  <2>1. Unused(used, want) /\ Unused(used, from)
    BY DEF PortInv
  <2>2. Unused(used, Between(from, want))
    BY <1>3, <2>1, BetweenUnused
  <2> QED
    BY <2>1, <2>2, <1>4 DEF Unused, Agree
<1>6. n + 1 = at' - 3 * NPorts
  BY <1>1, <1>2
<1> HIDE DEF n
<1>7. /\ chip' \in Bits
      /\ \A p \in Pins, r \in Regs :
           p \in chip'[r] <=>
             p \in (IF Done(Pass2, n + 1, r, Port[p]) THEN want ELSE cached)[r]
  BY <1>1, <1>2, <1>3, <1>4, <1>5, Passes, PassStep
<1>8. PortType'
  BY <1>1, <1>2, <1>3, <1>7 DEF PortType
<1>9. Unused(used, want)' /\ Unused(used, from)'
  BY <1>2, <1>5 DEF Unused
<1>10. FirstPass'
  BY <1>1, <1>2 DEF FirstPass
<1>11. CASE n + 1 < 3 * NPorts
  <2>1. SecondPass'
    <3>1. cached' = cached
      BY <1>1, <1>2, <1>11
    <3>2. Agree(cached, Between(from, want))'
      BY <1>2, <1>4, <3>1 DEF Agree, Between
    <3>3. Changing(Pass2, at - 3 * NPorts, cached, want)'
      BY <1>2, <1>6, <1>7, <3>1 DEF Changing
    <3> QED
      BY <3>2, <3>3 DEF SecondPass
  <2>2. AtRest'
    BY <1>1, <1>2, <1>6, <1>11 DEF AtRest, Committing
  <2> QED
    BY <1>8, <1>9, <1>10, <2>1, <2>2 DEF PortInv
<1>12. CASE n + 1 = 3 * NPorts
  <2>1. SecondPass'
    BY <1>1, <1>2, <1>6, <1>12 DEF SecondPass
  <2>2. \A p \in Pins, r \in Regs : p \in chip'[r] <=> p \in want[r]
    <3> SUFFICES ASSUME NEW p \in Pins, NEW r \in Regs
                 PROVE  p \in chip'[r] <=> p \in want[r]
      OBVIOUS
    <3>1. Port[p] \in 1..NPorts
      BY PortAssumption
    <3>2. CASE r # "dr"
      <4>1. Done(Pass2, n + 1, r, Port[p])
        BY <1>12, <3>1, <3>2, DoneEnds, Passes
      <4> QED
        BY <1>7, <4>1
    <3>3. CASE r = "dr"
      <4>1. p \in Between(from, want)["dr"] <=> p \in want["dr"]
        BY <1>3, BetweenBits
      <4>2. p \in cached["dr"] <=> p \in want["dr"]
        BY <1>4, <4>1 DEF Agree, Regs
      <4> QED
        BY <1>7, <3>3, <4>2
    <3> QED
      BY <3>2, <3>3
  <2>3. AtRest'
    BY <1>2, <1>12, <2>2 DEF AtRest, Agree
  <2> QED
    BY <1>8, <1>9, <1>10, <2>1, <2>3 DEF PortInv
<1> QED
  BY <1>1, <1>11, <1>12

\* commit, when no commit is under way, for new registers that leave the pins
\* that are not used alone.
LEMMA CommitStep ==
  ASSUME NEW used, PortInv(used), ~Committing,
         NEW w \in Bits, Unused(used, w), commit(w)
  PROVE  PortInv(used)'
<1>1. NPorts \in Nat \ {0}
  BY PortAssumption
<1>2. want' = w /\ at' = 0 /\ from' = chip /\ cached' = cached /\ chip' = chip
  BY DEF commit
<1>3. want \in Bits /\ cached \in Bits /\ chip \in Bits
  BY DEF PortInv, PortType
<1>4. Agree(cached, want) /\ Agree(chip, want)
  BY DEF PortInv, AtRest
<1>5. PortType'
  BY <1>1, <1>2, <1>3 DEF PortType
<1>6. Unused(used, want)' /\ Unused(used, from)'
  BY <1>2, <1>4 DEF Unused, Agree, PortInv
<1>7. \A r, p : p \in Pins => ~Done(Pass1, 0, r, Port[p])
  BY PortAssumption, DoneEnds
<1>8. FirstPass'
  BY <1>2, <1>4, <1>7 DEF FirstPass, Agree, Changing
<1>9. SecondPass' /\ AtRest'
  BY <1>1, <1>2 DEF SecondPass, AtRest, Committing
<1> QED
  BY <1>5, <1>6, <1>8, <1>9 DEF PortInv

-----------------------------------------------------------------------------
(* What a pin drives *)

\* decode_value, bit by bit.
LEMMA DecodeBits ==
  ASSUME NEW s, NEW p
  PROVE  decode_value(s, p) =
           IF p \in s["dm2"]
           THEN IF p \in s["dm1"]
                THEN IF p \in s["dm0"] /\ p \notin s["dr"] THEN "0" ELSE "Z"
                ELSE IF p \in s["dr"] THEN "1"
                ELSE IF p \in s["dm0"] THEN "0" ELSE "Z"
           ELSE IF p \in s["dm1"]
                THEN IF p \notin s["dm0"] THEN "Z"
                     ELSE IF p \in s["dr"] THEN "1R" ELSE "0"
                ELSE IF p \in s["dr"] THEN "1"
                ELSE IF p \in s["dm0"] THEN "0" ELSE "0R"
BY DEF decode_value, dm_value

\* set_value gives the pins the values they are to drive, and leaves the others.
LEMMA SetValueBits ==
  ASSUME NEW s \in Bits, NEW P, P \subseteq Pins, NEW vals, DOMAIN vals = P,
         \A p \in P : vals[p] \in Values
  PROVE  /\ set_value(s, vals) \in Bits
         /\ \A p \in Pins \ P, r \in Regs : p \in set_value(s, vals)[r] <=> p \in s[r]
         /\ \A p \in P : decode_value(set_value(s, vals), p) = vals[p]
<1> DEFINE w == set_value(s, vals)
<1>1. w = [dm0 |-> (s["dm0"] \ P) \cup {p \in P : vals[p] \in {"1R", "0", "1"}},
           dm1 |-> (s["dm1"] \ P) \cup {p \in P : vals[p] \in {"Z", "1R"}},
           dm2 |-> (s["dm2"] \ P) \cup {p \in P : vals[p] \in {}},
           dr |-> ((s["dr"] \ P) \cup {p \in P : vals[p] \in {"1R", "1"}}) \cup
                  {p \in P \cap s.dr : vals[p] = "Z"}]
  BY DEF set_value
<1>2. \A r \in Regs : s[r] \in SUBSET Pins
  BY DEF Bits
<1> HIDE DEF w
<1>3. /\ w["dm0"] = (s["dm0"] \ P) \cup {p \in P : vals[p] \in {"1R", "0", "1"}}
      /\ w["dm1"] = (s["dm1"] \ P) \cup {p \in P : vals[p] \in {"Z", "1R"}}
      /\ w["dm2"] = s["dm2"] \ P
      /\ w["dr"] = ((s["dr"] \ P) \cup {p \in P : vals[p] \in {"1R", "1"}}) \cup
                     {p \in P \cap s["dr"] : vals[p] = "Z"}
  BY <1>1
<1>4. w \in Bits
  <2>1. w = [r \in Regs |-> w[r]]
    BY <1>1 DEF Regs
  <2>2. \A r \in Regs : w[r] \in SUBSET Pins
    BY <1>2, <1>3 DEF Regs
  <2> QED
    BY <2>1, <2>2 DEF Bits
<1>5. \A p \in Pins \ P, r \in Regs : p \in w[r] <=> p \in s[r]
  BY <1>3 DEF Regs
<1>6. ASSUME NEW p \in P
      PROVE  decode_value(w, p) = vals[p]
  <2>1. /\ p \in w["dm0"] <=> vals[p] \in {"1R", "0", "1"}
        /\ p \in w["dm1"] <=> vals[p] \in {"Z", "1R"}
        /\ p \notin w["dm2"]
        /\ p \in w["dr"] <=> (vals[p] \in {"1R", "1"} \/ (p \in s["dr"] /\ vals[p] = "Z"))
    BY <1>3
  <2>2. vals[p] \in Values
    OBVIOUS
  <2> QED
    BY <2>1, <2>2, DecodeBits DEF Values
<1> QED
  BY <1>4, <1>5, <1>6 DEF w

\* On the way between any two settings a pin drives strong only what it
\* starts or ends with.
LEMMA NoStrongBetween ==
  ASSUME NEW used, PortInv(used), Committing, NEW p \in Pins,
         decode_value(chip, p) \in Strong
  PROVE  decode_value(chip, p) \in {decode_value(from, p), decode_value(want, p)}
<1>1. from \in Bits /\ want \in Bits /\ cached \in Bits
  BY DEF PortInv, PortType
<1>2. NPorts \in Nat \ {0} /\ at \in Nat /\ Port[p] \in Nat \ {0}
  BY PortAssumption DEF PortInv, PortType
<1>3. CASE at < 3 * NPorts
  <2>1. \A r \in Regs : p \in cached[r] <=> p \in from[r]
    BY <1>3 DEF PortInv, FirstPass, Agree
  <2>2. /\ Pass1[1] = "dm1" /\ Pass1[2] = "dm0" /\ Pass1[3] = "dr"
        /\ \A i \in 1..3 : i \in {1, 2, 3}
    BY DEF Pass1
  <2>3. \A r \in Regs : p \in chip[r] <=>
          p \in (IF Done(Pass1, at, r, Port[p]) THEN Between(cached, want) ELSE cached)[r]
    BY <1>3 DEF PortInv, FirstPass, Changing
  <2> DEFINE n == at - 3 * (Port[p] - 1)
  <2>4. /\ Done(Pass1, at, "dm1", Port[p]) <=> n >= 1
        /\ Done(Pass1, at, "dm0", Port[p]) <=> n >= 2
        /\ Done(Pass1, at, "dr", Port[p]) <=> n >= 3
        /\ ~Done(Pass1, at, "dm2", Port[p])
    BY <1>2, <2>2 DEF Done
  <2>5. n \in Int
    BY <1>2
  <2> HIDE DEF n
  <2>6. /\ p \in chip["dm1"] <=> (p \in from["dm1"] \/ (n >= 1 /\ p \in want["dm1"]))
        /\ p \in chip["dm0"] <=> (p \in from["dm0"] /\ (n >= 2 => p \in want["dm0"]))
        /\ p \in chip["dr"] <=> (IF n >= 3 THEN p \in want["dr"] ELSE p \in from["dr"])
        /\ p \in chip["dm2"] <=> p \in from["dm2"]
    BY <1>1, <2>1, <2>3, <2>4, BetweenBits DEF Regs
  <2>7. (n >= 3 => n >= 2) /\ (n >= 2 => n >= 1)
    BY <2>5
  <2> QED
    BY <2>6, <2>7, DecodeBits DEF Strong
<1>4. CASE at >= 3 * NPorts
  <2>1. \A r \in Regs : p \in cached[r] <=> p \in Between(from, want)[r]
    BY <1>4 DEF PortInv, SecondPass, Agree, Committing
  <2>2. /\ Pass2[1] = "dm0" /\ Pass2[2] = "dm1" /\ Pass2[3] = "dm2"
        /\ \A i \in 1..3 : i \in {1, 2, 3}
    BY DEF Pass2
  <2> DEFINE k == at - 3 * NPorts
             n == k - 3 * (Port[p] - 1)
  <2>3. \A r \in Regs : p \in chip[r] <=>
          p \in (IF Done(Pass2, k, r, Port[p]) THEN want ELSE cached)[r]
    BY <1>4 DEF PortInv, SecondPass, Changing, Committing
  <2>4. /\ Done(Pass2, k, "dm0", Port[p]) <=> n >= 1
        /\ Done(Pass2, k, "dm1", Port[p]) <=> n >= 2
        /\ Done(Pass2, k, "dm2", Port[p]) <=> n >= 3
        /\ ~Done(Pass2, k, "dr", Port[p])
    BY <1>2, <2>2 DEF Done
  <2>5. n \in Int
    BY <1>2
  <2> HIDE DEF n, k
  <2>6. /\ p \in chip["dm0"] <=> (p \in want["dm0"] /\ (n >= 1 \/ p \in from["dm0"]))
        /\ p \in chip["dm1"] <=> (p \in want["dm1"] \/ (~(n >= 2) /\ p \in from["dm1"]))
        /\ p \in chip["dm2"] <=> (IF n >= 3 THEN p \in want["dm2"] ELSE p \in from["dm2"])
        /\ p \in chip["dr"] <=> p \in want["dr"]
    BY <1>1, <2>1, <2>3, <2>4, BetweenBits DEF Regs
  <2>7. (n >= 3 => n >= 2) /\ (n >= 2 => n >= 1)
    BY <2>5
  <2> QED
    BY <2>6, <2>7, DecodeBits DEF Strong
<1> QED
  BY <1>2, <1>3, <1>4

-----------------------------------------------------------------------------
(* The invariant of a scan *)

ScanType ==
  /\ desc \in Descriptions /\ fault \in Faults
  /\ setting \in [Pins -> PinSettings]
  /\ leaf \in 1..Len(Configurations[desc])
  /\ selected \subseteq defined[desc]

PinsInv ==
  /\ PortInv(defined[desc])
  /\ ~posted => ~Committing

PatternInv ==
  posted =>
    /\ \A p \in defined[desc] : decode_value(want, p) = values[p]
    /\ \A p \in selected : values[p] \in Values /\ Safe(values[p], setting[p].external)

Healthy == fault.pins = {} => ~errors /\ stage # "exit"

Inv == ScanType /\ PinsInv /\ PatternInv /\ Healthy

\* Settings that are put over settings of all pins.
LEMMA PutOver ==
  ASSUME NEW f, SetsPins(f), NEW g \in [Pins -> PinSettings]
  PROVE  Written(g, f) \in [Pins -> PinSettings]
BY DEF SetsPins, Written

\* The ports after reset.
LEMMA ResetFacts ==
  Reset \in Bits /\ \A p \in Pins : decode_value(Reset, p) = "Z"
<1>1. Reset["dm0"] = {} /\ Reset["dm1"] = Pins /\ Reset["dm2"] = Pins /\ Reset["dr"] = {}
  BY DEF Reset
<1>2. Reset \in Bits
  BY DEF Reset, Bits, Regs
<1> QED
  BY <1>1, <1>2, DecodeBits

\* The invariant holds when a scan begins.
LEMMA InitInv == Init => Inv
<1> SUFFICES ASSUME Init PROVE Inv
  OBVIOUS
<1>1. NPorts \in Nat \ {0}
  BY PortAssumption
<1>2. PortInit
  BY DEF Init
<1>3. ScanType
  <2>1. desc \in Descriptions /\ fault \in Faults /\ leaf = 1 /\ selected = {}
    BY DEF Init
  <2>2. [allow |-> {}, external |-> {}] \in PinSettings
    BY DEF PinSettings, Opposed
  <2>3. [p \in Pins |-> [allow |-> {}, external |-> {}]] \in [Pins -> PinSettings]
    BY <2>2
  <2>4. setting = Written([p \in Pins |-> [allow |-> {}, external |-> {}]], settings[desc])
    BY DEF Init
  <2>5. setting \in [Pins -> PinSettings]
    BY <2>1, <2>3, <2>4, PutOver, DescriptionAssumption
  <2>6. 1 \in 1..Len(Configurations[desc])
    BY <2>1, DescriptionAssumption
  <2> QED
    BY <2>1, <2>5, <2>6 DEF ScanType
<1>4. PortInv(defined[desc])
  <2>1. PortType
    BY <1>1, <1>2, ResetFacts DEF PortInit, PortType
  <2>2. Unused(defined[desc], want) /\ Unused(defined[desc], from)
    BY <1>2 DEF PortInit, Unused
  <2>3. FirstPass /\ SecondPass /\ AtRest
    BY <1>1, <1>2 DEF PortInit, FirstPass, SecondPass, AtRest, Agree
  <2> QED
    BY <2>1, <2>2, <2>3 DEF PortInv
<1>5. PinsInv
  BY <1>1, <1>2, <1>4, ResetFacts DEF PinsInv, PortInit, Committing
<1>6. PatternInv /\ Healthy
  BY DEF Init, PatternInv, Healthy
<1> QED
  BY <1>3, <1>5, <1>6 DEF Inv

\* Whatever the test and the configuration, the values of a pattern are safe.
LEMMA PatternSafe ==
  ASSUME NEW sel, NEW s \in [Pins -> PinSettings], NEW p \in Pins,
         pattern(sel, s)[p] # Untestable
  PROVE  pattern(sel, s)[p] \in Values /\ Safe(pattern(sel, s)[p], s[p].external)
<1> DEFINE v == pattern(sel, s)[p]
<1>1. v \in {"Z", strong_to(s[p], high), weak_to(s[p], high),
             gentle_to(s[p], ~high), weak_to(s[p], ~high)}
  BY DEF pattern
<1>2. s[p] \in PinSettings
  OBVIOUS
<1> HIDE DEF v
<1>3. v = "Z" => v \in Values /\ Safe(v, s[p].external)
  BY DEF Values, Safe
<1>4. v # "Z" => v \in Values /\ Safe(v, s[p].external)
  <2> SUFFICES ASSUME v # "Z" PROVE v \in Values /\ Safe(v, s[p].external)
    OBVIOUS
  <2>1. v # Untestable
    BY DEF v
  <2>2. PICK up : v \in {gentle_to(s[p], up), weak_to(s[p], up), strong_to(s[p], up)}
    BY <1>1
  <2> QED
    BY <1>2, <2>1, <2>2, ChoicesSafe
<1> QED
  BY <1>3, <1>4 DEF v

\* The next configuration or the next test; Return does not end the program.
LEMMA ReturnFacts ==
  ASSUME ScanType, NEW res, Return(res), desc' = desc
  PROVE  leaf' \in 1..Len(Configurations[desc]) /\ (stage # "exit" => stage' # "exit")
<1>1. Len(Configurations[desc]) \in Nat \ {0}
  BY DescriptionAssumption DEF ScanType
<1>2. CASE leaf < Len(Configurations[desc])
  BY <1>1, <1>2 DEF Return, ScanType
<1>3. CASE ~(leaf < Len(Configurations[desc]))
  <2>1. leaf' = 1 /\ stage' = do_tests(ok /\ res)[1]
    BY <1>3 DEF Return
  <2>2. do_tests(ok /\ res) \in {<<"base", None, high>>, <<"strong", bit, high>>,
                               NextHigh, NextBit}
    BY DEF do_tests
  <2>3. NextHigh[1] # "exit"
    BY DEF NextHigh
  <2>4. NextBit[1] # "exit"
    BY <2>3 DEF NextBit
  <2>5. stage' # "exit"
    <3> DEFINE t == do_tests(ok /\ res)
    <3>1. t \in {<<"base", None, high>>, <<"strong", bit, high>>, NextHigh, NextBit}
      BY <2>2
    <3>2. stage' = t[1]
      BY <2>1
    <3> HIDE DEF t
    <3> QED
      BY <2>3, <2>4, <3>1, <3>2
  <2> QED
    BY <1>1, <2>1, <2>5
<1> QED
  BY <1>2, <1>3

\* A pattern is generated, and posted or passed over.
LEMMA PostStep ==
  ASSUME Inv, Post
  PROVE  Inv'
<1> DEFINE c == Configurations[desc][leaf]
           s == Written(setting, c.put)
           sel == {p \in c.sel : s[p].allow # {}}
           vals == pattern(sel, s)
           put == [p \in defined[desc] |-> vals[p]]
<1>1. /\ ~posted /\ Scanning
      /\ setting' = s /\ selected' = sel
      /\ desc' = desc /\ fault' = fault /\ errors' = errors
      /\ \/ /\ Untestable \notin Range(vals)
            /\ posted' = TRUE /\ values' = vals
            /\ commit(set_value(want, put))
            /\ UNCHANGED <<position, ok>>
         \/ /\ Return(TRUE)
            /\ UNCHANGED <<posted, setups, values, portVars>>
  BY DEF Post, scan
<1>2. desc \in Descriptions /\ setting \in [Pins -> PinSettings]
      /\ leaf \in 1..Len(Configurations[desc])
  BY DEF Inv, ScanType
<1>3. SetsPins(c.put) /\ c.sel \subseteq defined[desc] /\ defined[desc] \subseteq Pins
  BY <1>2, DescriptionAssumption
<1>4. s \in [Pins -> PinSettings]
  BY <1>2, <1>3, PutOver
<1>5. sel \subseteq defined[desc]
  BY <1>3
<1> HIDE DEF c, s, sel
<1>6. CASE /\ Untestable \notin Range(vals)
           /\ posted' = TRUE /\ values' = vals
           /\ commit(set_value(want, put))
           /\ UNCHANGED <<position, ok>>
  <2>1. \A p \in Pins : vals[p] # Untestable
    <3>1. DOMAIN vals = Pins
      BY DEF pattern
    <3> HIDE DEF vals
    <3> QED
      BY <1>6, <3>1 DEF Range
  <2>2. \A p \in Pins : vals[p] \in Values /\ Safe(vals[p], s[p].external)
    BY <1>4, <2>1, PatternSafe
  <2> HIDE DEF vals
  <2>3. want \in Bits /\ PortInv(defined[desc]) /\ ~Committing
    BY <1>1 DEF Inv, PinsInv, PortInv, PortType
  <2>4. DOMAIN put = defined[desc] /\ \A p \in defined[desc] : put[p] = vals[p] /\ put[p] \in Values
    BY <1>3, <2>2
  <2> HIDE DEF put
  <2> DEFINE w == set_value(want, put)
  <2>5. /\ w \in Bits
        /\ \A p \in Pins \ defined[desc], r \in Regs : p \in w[r] <=> p \in want[r]
        /\ \A p \in defined[desc] : decode_value(w, p) = put[p]
    BY <1>3, <2>3, <2>4, SetValueBits
  <2>6. commit(w)
    BY <1>6
  <2> HIDE DEF w
  <2>7. Unused(defined[desc], w)
    BY <2>3, <2>5 DEF PortInv, Unused
  <2>8. PortInv(defined[desc])'
    BY <1>1, <2>3, <2>5, <2>6, <2>7, CommitStep
  <2>10. want' = w /\ from' = chip
    BY <2>6 DEF commit
  <2>11. PinsInv'
    BY <1>6, <2>8 DEF PinsInv
  <2>12. PatternInv'
    BY <1>1, <1>3, <1>5, <1>6, <2>2, <2>4, <2>5, <2>10 DEF PatternInv, decode_value
  <2>13. ScanType'
    BY <1>1, <1>2, <1>4, <1>5, <1>6 DEF ScanType, Inv, position
  <2>14. Healthy'
    BY <1>1, <1>6 DEF Healthy, Inv, position
  <2> QED
    BY <2>11, <2>12, <2>13, <2>14 DEF Inv
<1>7. CASE Return(TRUE) /\ UNCHANGED <<posted, setups, values, portVars>>
  <2>1. leaf' \in 1..Len(Configurations[desc]) /\ (stage # "exit" => stage' # "exit")
    BY <1>1, <1>7, ReturnFacts DEF Inv
  <2>2. ScanType'
    BY <1>1, <1>2, <1>4, <1>5, <2>1 DEF ScanType, Inv
  <2>3. PinsInv'
    BY <1>1, <1>7 DEF Inv, PinsInv, portVars, PortInv, PortType, Unused, FirstPass,
         SecondPass, AtRest, Agree, Changing, Committing, Between
  <2>4. PatternInv' /\ Healthy'
    BY <1>1, <1>7, <2>1 DEF Inv, PatternInv, Healthy
  <2> QED
    BY <2>2, <2>3, <2>4 DEF Inv
<1> QED
  BY <1>1, <1>6, <1>7

\* Nothing changes of what the invariant is about, or only the variables of
\* the ports do not.
LEMMA PortsStay ==
  ASSUME PinsInv, UNCHANGED portVars, desc' = desc, posted' => posted,
         ~Committing
  PROVE  PinsInv'
BY DEF PinsInv, portVars, PortInv, PortType, Unused, FirstPass, SecondPass,
       AtRest, Agree, Changing, Committing, Between

\* A register is written.
LEMMA ChangeStep ==
  ASSUME Inv, Change
  PROVE  Inv'
<1>1. posted /\ commit_write(defined[desc]) /\ UNCHANGED bscanVars
  BY DEF Change
<1>2. /\ desc' = desc /\ fault' = fault /\ setting' = setting /\ leaf' = leaf
      /\ selected' = selected /\ posted' = posted /\ values' = values
      /\ errors' = errors /\ stage' = stage
  BY <1>1 DEF bscanVars, scan, position
<1>3. want' = want /\ from' = from
  BY <1>1 DEF commit_write
<1>4. PortInv(defined[desc]) /\ at \in Nat /\ NPorts \in Nat
  BY PortAssumption DEF Inv, PinsInv, PortInv, PortType
<1>5. PortInv(defined[desc])'
  <2>1. CASE at < 3 * NPorts
    BY <1>1, <1>2, <1>4, <2>1, FirstPassStep
  <2>2. CASE at >= 3 * NPorts
    BY <1>1, <1>2, <1>4, <2>2, SecondPassStep
  <2> QED
    BY <1>4, <2>1, <2>2
<1>6. PinsInv'
  BY <1>1, <1>2, <1>3, <1>5 DEF Inv, PinsInv
<1>7. ScanType' /\ PatternInv' /\ Healthy'
  BY <1>2, <1>3 DEF Inv, ScanType, PatternInv, Healthy, decode_value
<1> QED
  BY <1>6, <1>7 DEF Inv

\* When the commit is over the chip drives what was wanted.
LEMMA ChipDrives ==
  ASSUME Inv, posted, ~Committing
  PROVE  \A p \in Pins : decode_value(chip, p) =
                           IF p \in defined[desc] THEN values[p] ELSE "Z"
<1>1. \A p \in Pins, r \in Regs : p \in chip[r] <=> p \in want[r]
  BY DEF Inv, PinsInv, PortInv, AtRest, Agree
<1>2. \A p \in Pins : decode_value(chip, p) = decode_value(want, p)
  BY <1>1, DecodeBits DEF Regs
<1>3. ASSUME NEW p \in Pins \ defined[desc]
      PROVE  decode_value(want, p) = "Z"
  <2>1. \A r \in Regs : p \in want[r] <=> p \in Reset[r]
    BY DEF Inv, PinsInv, PortInv, Unused
  <2>2. decode_value(want, p) = decode_value(Reset, p)
    BY <2>1, DecodeBits DEF Regs
  <2> QED
    BY <2>2, ResetFacts
<1> QED
  BY <1>2, <1>3 DEF Inv, PatternInv

\* A pin of a circuit without fault reads what is expected of it.
LEMMA ReadAsExpected ==
  ASSUME Inv, posted, ~Committing, fault.pins = {}, NEW got \in Readings,
         NEW p \in selected
  PROVE  expected(values[p], setting[p].external) \in {Untestable, got[p]}
<1> DEFINE e == setting[p].external  v == values[p]
<1>1. p \in defined[desc] /\ p \in Pins
  BY DescriptionAssumption DEF Inv, ScanType
<1>2. e \in SUBSET Values
  BY <1>1 DEF Inv, ScanType, PinSettings
<1>3. v \in Values /\ Safe(v, e)
  BY DEF Inv, PatternInv
<1>4. decode_value(chip, p) = v
  BY <1>1, ChipDrives
<1>5. got[p] \in Levels({p}, {})
  BY <1>1 DEF Readings
<1>6. PICK f \in [{p} -> Values] :
        /\ f[p] \in Drives(p)
        /\ got[p] \in Level(Range(f) \cup {decode_value(chip, q) : q \in {p}} \cup {})
  BY <1>5 DEF Levels
<1>7. Range(f) \cup {decode_value(chip, q) : q \in {p}} \cup {} = {f[p], v}
  <2>1. Range(f) = {f[p]}
    BY <1>6 DEF Range
  <2>2. {decode_value(chip, q) : q \in {p}} = {v}
    BY <1>4
  <2> QED
    BY <2>1, <2>2
<1>8. f[p] \in Values /\ (f[p] \in e \/ (e = {} /\ f[p] = "Z"))
  BY <1>6 DEF Drives
<1> HIDE DEF e, v
<1>9. got[p] \in Level({f[p], v})
  BY <1>6, <1>7
<1>10. expected(v, e) \in {Untestable, got[p]}
  BY <1>2, <1>3, <1>8, <1>9, ExpectedIsRead
<1> QED
  BY <1>10 DEF e, v

\* The pins are compared.
LEMMA CheckStep ==
  ASSUME Inv, Check
  PROVE  Inv'
<1>1. PICK got \in Readings :
        LET bad == {p \in selected : expected(values[p], setting[p].external)
                                        \notin {Untestable, got[p]}}
        IN /\ errors' = (errors \/ bad # {})
           /\ IF bad # {} /\ mode = "plain"
              THEN /\ stage' = "exit"
                   /\ UNCHANGED <<bit, high, leaf, ok>>
              ELSE Return(bad = {})
  BY DEF Check
<1>2. /\ Scanning /\ posted /\ ~Committing /\ ~posted'
      /\ desc' = desc /\ fault' = fault /\ setting' = setting
      /\ selected' = selected /\ UNCHANGED portVars
  BY DEF Check, scan
<1> DEFINE bad == {p \in selected : expected(values[p], setting[p].external)
                                       \notin {Untestable, got[p]}}
<1>3. fault.pins = {} => bad = {}
  BY <1>2, ReadAsExpected
<1>4. /\ errors' = (errors \/ bad # {})
      /\ \/ bad # {} /\ stage' = "exit" /\ leaf' = leaf
         \/ Return(bad = {})
  BY <1>1
<1> HIDE DEF bad
<1>5. ScanType' /\ Healthy'
  <2>1. CASE bad # {} /\ stage' = "exit" /\ leaf' = leaf
    BY <1>2, <1>3, <2>1 DEF Inv, ScanType, Healthy
  <2>2. CASE Return(bad = {})
    <3>1. leaf' \in 1..Len(Configurations[desc]) /\ (stage # "exit" => stage' # "exit")
      BY <1>2, <2>2, ReturnFacts DEF Inv
    <3> QED
      BY <1>2, <1>3, <1>4, <3>1 DEF Inv, ScanType, Healthy
  <2> QED
    BY <1>4, <2>1, <2>2
<1>6. PinsInv'
  BY <1>2, PortsStay DEF Inv
<1>7. PatternInv'
  BY <1>2 DEF PatternInv
<1> QED
  BY <1>5, <1>6, <1>7 DEF Inv

\* The programmer loses the chip: only a fault can be the reason.
LEMMA LostStep ==
  ASSUME Inv, lost_comm
  PROVE  Inv'
<1>1. /\ ~Committing /\ ~posted' /\ desc' = desc /\ fault' = fault
      /\ setting' = setting /\ selected' = selected /\ leaf' = leaf
      /\ UNCHANGED portVars /\ fault.pins \cap ISSP # {}
  BY DEF lost_comm, scan, Meets
<1>2. PinsInv'
  BY <1>1, PortsStay DEF Inv
<1> QED
  BY <1>1, <1>2 DEF Inv, ScanType, PatternInv, Healthy

\* Nothing changes.
LEMMA StutterStep ==
  ASSUME Inv, UNCHANGED vars
  PROVE  Inv'
<1>1. UNCHANGED portVars /\ UNCHANGED bscanVars
  BY DEF vars
<1>2. /\ desc' = desc /\ fault' = fault /\ setting' = setting /\ leaf' = leaf
      /\ selected' = selected /\ posted' = posted /\ values' = values
      /\ errors' = errors /\ stage' = stage
  BY <1>1 DEF bscanVars, scan, position
<1>3. want' = want /\ cached' = cached /\ chip' = chip /\ at' = at /\ from' = from
  BY <1>1 DEF portVars
<1>4. PinsInv'
  BY <1>2, <1>3 DEF Inv, PinsInv, PortInv, PortType, Unused, FirstPass,
     SecondPass, AtRest, Agree, Changing, Committing, Between
<1> QED
  BY <1>2, <1>3, <1>4 DEF Inv, ScanType, PatternInv, Healthy, decode_value

-----------------------------------------------------------------------------
(* What is noticed of a short.  The invariant remembers of the patterns    *)
(* posted so far that a free pin was driven against all others, and that   *)
(* what was read could be what each of them was expected to read.          *)

\* v is the value of rule k, and the ones before have none.
FirstAt(rules, n, k, v) ==
  /\ n \in Nat /\ DOMAIN rules = 1..n /\ k \in 1..n
  /\ rules[k] = {v} /\ \A j \in 1..(k - 1) : rules[j] = {}

\* First takes that value.
LEMMA FirstIs ==
  ASSUME NEW rules, NEW n, NEW k, NEW v, FirstAt(rules, n, k, v)
  PROVE  First(rules) = v
<1> DEFINE fit == {i \in DOMAIN rules : rules[i] # {}}
<1> USE DEF FirstAt
<1>1. k \in fit /\ fit \subseteq Nat /\ fit \subseteq 1..n
  OBVIOUS
<1>2. Min(fit) \in fit /\ \A i \in fit : Min(fit) <= i
  BY <1>1, MinIsLeast
<1>3. First(rules) = CHOOSE w \in rules[Min(fit)] : TRUE
  BY <1>1 DEF First
<1>4. rules[Min(fit)] # {}
  BY <1>2
<1> HIDE DEF fit
<1>5. Min(fit) = k
  <2>1. Min(fit) \in 1..n /\ Min(fit) <= k
    BY <1>1, <1>2
  <2>2. ~(Min(fit) < k)
    BY <1>4, <2>1
  <2> QED
    BY <2>1, <2>2
<1> QED
  BY <1>3, <1>5

\* Of rules with values, of which one has one, First chooses a value.
LEMMA FirstSome ==
  ASSUME NEW n \in Nat, NEW rules, DOMAIN rules = 1..n,
         \A i \in 1..n : Untestable \notin rules[i],
         NEW k \in 1..n, rules[k] # {}
  PROVE  First(rules) # Untestable
<1> DEFINE fit == {i \in DOMAIN rules : rules[i] # {}}
<1>1. k \in fit /\ fit \subseteq Nat /\ fit \subseteq 1..n
  OBVIOUS
<1>2. Min(fit) \in fit
  BY <1>1, MinIsLeast
<1>3. First(rules) = CHOOSE w \in rules[Min(fit)] : TRUE
  BY <1>1 DEF First
<1>4. rules[Min(fit)] # {} /\ Untestable \notin rules[Min(fit)]
  BY <1>2
<1> HIDE DEF fit
<1> QED
  BY <1>3, <1>4

\* weak pulls a free pin towards the level it is asked for.
LEMMA FreePull ==
  ASSUME NEW s, IsFree(s), NEW up \in BOOLEAN
  PROVE  weak_to(s, up) = IF up THEN "1R" ELSE "0R"
<1>1. ASSUME NEW x, NEW xr, NEW y, NEW yr,
             <<x, xr, y, yr>> \in {<<"1", "1R", "0", "0R">>, <<"0", "0R", "1", "1R">>}
      PROVE  weak(s.allow, s.external, x, xr, y, yr) = xr
  <2> DEFINE a == s.allow  e == s.external
             r1 == When(yr \in a /\ e = {x}, yr)
             r2 == When("Z" \in a /\ Meets(e, {x, xr}) /\ ~Meets(e, {y, yr, "Z"}), "Z")
             r3 == When(xr \in a /\ Meets(e, {x, xr, "Z"}) /\ ~Meets(e, {y, yr}), xr)
             r4 == When(xr \in a /\ Meets(e, {x, xr, "Z", yr}) /\ y \notin e, x)
             r5 == When("Z" \in a, "Z")
             r6 == When(xr \in a, xr)
             r7 == When(yr \in a, yr)
             r8 == When(y \in a, y)
             r9 == When(x \in a, x)
             rules == <<r1, r2, r3, r4, r5, r6, r7, r8, r9>>
  <2>1. e = {"Z"} /\ xr \in a /\ x # "Z" /\ xr # "Z" /\ y # "Z" /\ yr # "Z"
    BY <1>1 DEF IsFree, Values
  <2>2. r1 = {} /\ r2 = {} /\ r3 = {xr}
    BY <2>1 DEF When, Meets
  <2>3. weak(a, e, x, xr, y, yr) = First(rules)
    BY DEF weak
  <2> HIDE DEF r1, r2, r3, r4, r5, r6, r7, r8, r9
  <2>4. FirstAt(rules, 9, 3, xr)
    BY <2>2 DEF FirstAt
  <2> HIDE DEF rules
  <2> QED
    BY <2>3, <2>4, FirstIs
<1>2. weak_to(s, up) = LET t == Toward(up) IN weak(s.allow, s.external, t[1], t[2], t[3], t[4])
  BY DEF weak_to
<1>3. CASE up
  <2>1. Toward(up) = <<"1", "1R", "0", "0R">>
    BY <1>3 DEF Toward
  <2>2. weak_to(s, up) = weak(s.allow, s.external, "1", "1R", "0", "0R")
    BY <1>2, <2>1
  <2>3. weak(s.allow, s.external, "1", "1R", "0", "0R") = "1R"
    BY <1>1
  <2> QED
    BY <1>3, <2>2, <2>3
<1>4. CASE ~up
  <2>1. Toward(up) = <<"0", "0R", "1", "1R">>
    BY <1>4 DEF Toward
  <2> QED
    BY <1>1, <1>2, <1>4, <2>1
<1> QED
  BY <1>3, <1>4

\* weak has a value for every pin that may drive something.
LEMMA WeakTestable ==
  ASSUME NEW s \in PinSettings, s.allow # {}, NEW up \in BOOLEAN
  PROVE  weak_to(s, up) # Untestable
<1>1. ASSUME NEW x, NEW xr, NEW y, NEW yr,
             <<x, xr, y, yr>> \in {<<"1", "1R", "0", "0R">>, <<"0", "0R", "1", "1R">>}
      PROVE  weak(s.allow, s.external, x, xr, y, yr) # Untestable
  <2> DEFINE a == s.allow  e == s.external
             r1 == When(yr \in a /\ e = {x}, yr)
             r2 == When("Z" \in a /\ Meets(e, {x, xr}) /\ ~Meets(e, {y, yr, "Z"}), "Z")
             r3 == When(xr \in a /\ Meets(e, {x, xr, "Z"}) /\ ~Meets(e, {y, yr}), xr)
             r4 == When(xr \in a /\ Meets(e, {x, xr, "Z", yr}) /\ y \notin e, x)
             r5 == When("Z" \in a, "Z")
             r6 == When(xr \in a, xr)
             r7 == When(yr \in a, yr)
             r8 == When(y \in a, y)
             r9 == When(x \in a, x)
             rules == <<r1, r2, r3, r4, r5, r6, r7, r8, r9>>
  <2>1. a \subseteq Values /\ a # {}
    BY DEF PinSettings
  <2>2. \E v \in {"Z", xr, yr, y, x} : v \in a
    BY <1>1, <2>1 DEF Values
  <2>3. r5 # {} \/ r6 # {} \/ r7 # {} \/ r8 # {} \/ r9 # {}
    BY <2>2 DEF When
  <2>4. /\ Untestable \notin r1 /\ Untestable \notin r2 /\ Untestable \notin r3
        /\ Untestable \notin r4 /\ Untestable \notin r5 /\ Untestable \notin r6
        /\ Untestable \notin r7 /\ Untestable \notin r8 /\ Untestable \notin r9
    BY <1>1 DEF When, Untestable
  <2>5. weak(a, e, x, xr, y, yr) = First(rules)
    BY DEF weak
  <2> HIDE DEF r1, r2, r3, r4, r5, r6, r7, r8, r9
  <2>6. DOMAIN rules = 1..9
    OBVIOUS
  <2>7. \A i \in 1..9 : Untestable \notin rules[i]
    BY <2>4
  <2>8. \E k \in 1..9 : rules[k] # {}
    <3>1. rules[5] = r5 /\ rules[6] = r6 /\ rules[7] = r7 /\ rules[8] = r8 /\ rules[9] = r9
      OBVIOUS
    <3> HIDE DEF rules
    <3> QED
      BY <2>3, <3>1
  <2> HIDE DEF rules
  <2> QED
    BY <2>5, <2>6, <2>7, <2>8, FirstSome
<1>2. weak_to(s, up) = LET t == Toward(up) IN weak(s.allow, s.external, t[1], t[2], t[3], t[4])
  BY DEF weak_to
<1>3. CASE up
  <2>1. Toward(up) = <<"1", "1R", "0", "0R">>
    BY <1>3 DEF Toward
  <2> QED
    BY <1>1, <1>2, <2>1
<1>4. CASE ~up
  <2>1. Toward(up) = <<"0", "0R", "1", "1R">>
    BY <1>4 DEF Toward
  <2> QED
    BY <1>1, <1>2, <2>1
<1> QED
  BY <1>3, <1>4

\* A pin that only it can pull must read what it is pulled to.
LEMMA FreeExpected ==
  /\ expected("1R", {"Z"}) = "1"
  /\ expected("0R", {"Z"}) = "0"
<1>1. ASSUME NEW x, NEW xr, NEW y, NEW yr, yr # "Z", y # "Z"
      PROVE  pulled({"Z"}, x, xr, y, yr) = x
  <2> DEFINE r1 == When(yr \in {"Z"}, Untestable)
             r2 == When(Meets({"Z"}, {x, xr, "Z"}) /\ y \notin {"Z"}, x)
             r3 == When(y \in {"Z"} /\ ~Meets({"Z"}, {x, xr, "Z"}), y)
             rules == <<r1, r2, r3>>
  <2>1. r1 = {} /\ r2 = {x}
    BY <1>1 DEF When, Meets
  <2>2. pulled({"Z"}, x, xr, y, yr) = First(rules)
    BY DEF pulled
  <2> HIDE DEF r1, r2, r3
  <2>3. FirstAt(rules, 3, 2, x)
    BY <2>1 DEF FirstAt
  <2> HIDE DEF rules
  <2> QED
    BY <2>2, <2>3, FirstIs
<1>2. expected("1R", {"Z"}) = pulled({"Z"}, "1", "1R", "0", "0R")
  BY DEF expected, Strong
<1>3. expected("0R", {"Z"}) = pulled({"Z"}, "0", "0R", "1", "1R")
  BY DEF expected, Strong
<1> QED
  BY <1>1, <1>2, <1>3

\* The short is of pins that are free in every configuration.
Noticeable == fault.pins # {} /\ \A p \in fault.pins : Free(p)

\* The patterns that pull b, if any, towards h and the other free pins of
\* the short away from it.
Shape(v, h, b) ==
  \A p \in fault.pins : v[p] = IF (p = b) = h THEN "1R" ELSE "0R"
Tested(h, b) == \E v \in setups : Shape(v, h, b)

\* do_tests is past the weak test of b, or the one of no pin.
Passed(h, b) ==
  \/ stage = "done"
  \/ high = TRUE /\ h = FALSE
  \/ h = high /\ stage \in {"weak", "strong"} /\ (b < bit \/ (b = bit /\ stage = "strong"))

\* Some level that the connected pins can have is expected of all of them.
Unnoticed(v) ==
  \E g \in Level({"Z"} \cup {v[p] : p \in fault.pins} \cup fault.to) :
    \A p \in fault.pins : expected(v[p], {"Z"}) \in {Untestable, g}

Where ==
  /\ stage \in {"gentle", "base", "weak", "strong", "done"}
  /\ high \in BOOLEAN
  /\ stage \in {"weak", "strong"} => bit \in defined[desc]
  /\ stage \notin {"weak", "strong"} => bit = None
  /\ ok = TRUE
FreeInv ==
  /\ \A p \in fault.pins : IsFree(setting[p])
  /\ posted => fault.pins \subseteq selected
PostedInv ==
  posted => /\ values \in setups /\ stage # "done"
            /\ (stage \in {"base", "weak"} /\ bit \in {None} \cup fault.pins) =>
                 Shape(values, high, bit)
History == \A v \in setups : (posted /\ v = values) \/ Unnoticed(v)
PassedInv ==
  \A h \in BOOLEAN, b \in {None} \cup fault.pins : Passed(h, b) => Tested(h, b)

Noticed ==
  (Noticeable /\ ~errors) =>
    Where /\ FreeInv /\ PostedInv /\ History /\ PassedInv

\* The pins of a noticeable short.
LEMMA ShortedPins ==
  ASSUME ScanType, Noticeable
  PROVE  /\ defined[desc] \subseteq Pins /\ Pins \subseteq Nat \ {None}
         /\ \A p \in fault.pins :
              /\ p \in defined[desc] /\ p \in Configurations[desc][leaf].sel
              /\ p \in DOMAIN Configurations[desc][leaf].put =>
                   IsFree(Configurations[desc][leaf].put[p])
<1>1. desc \in Descriptions /\ leaf \in 1..Len(Configurations[desc])
  BY DEF ScanType
<1>2. defined[desc] \subseteq Pins /\ Configurations[desc][leaf].sel \subseteq defined[desc]
  BY <1>1, DescriptionAssumption
<1>3. Pins \subseteq Nat \ {None}
  BY BscanAssumption DEF None
<1>4. \A p \in fault.pins :
         /\ p \in Configurations[desc][leaf].sel
         /\ p \in DOMAIN Configurations[desc][leaf].put =>
              IsFree(Configurations[desc][leaf].put[p])
  BY <1>1 DEF Noticeable, Free
<1> QED
  BY <1>2, <1>3, <1>4

\* The next pin is the least of those that are left.
LEMMA NextBitLeast ==
  ASSUME defined[desc] \subseteq Nat
  PROVE  \/ (\A p \in defined[desc] : ~(p > bit)) /\ NextBit = NextHigh
         \/ \E b \in defined[desc] : /\ b > bit
                                     /\ \A q \in defined[desc] : q > bit => b <= q
                                     /\ NextBit = <<"weak", b, high>>
<1> DEFINE rest == {p \in defined[desc] : p > bit}
           least == CHOOSE p \in rest : \A q \in rest : p <= q
<1>1. CASE rest = {}
  BY <1>1 DEF NextBit
<1>2. CASE rest # {}
  <2>1. \E p \in rest : \A q \in rest : p <= q
    BY <1>2, MinIsLeast
  <2>2. least \in rest /\ \A q \in rest : least <= q
    BY <2>1
  <2>3. NextBit = <<"weak", least, high>>
    BY <1>2 DEF NextBit
  <2> HIDE DEF least
  <2> QED
    BY <2>2, <2>3
<1> QED
  BY <1>1, <1>2

\* Where do_tests goes when nothing has been noticed: the only test that is
\* over then and was not before is the one of the present pin.
LEMMA ReturnPasses ==
  ASSUME ScanType, Noticeable, Where, Scanning, NEW res, res = TRUE, Return(res),
         desc' = desc, fault' = fault
  PROVE  /\ Where'
         /\ \A h \in BOOLEAN, b \in {None} \cup fault.pins :
              Passed(h, b)' => \/ Passed(h, b)
                               \/ h = high /\ b = bit /\ stage \in {"base", "weak"}
<1>1. /\ defined[desc] \subseteq Nat /\ None \in Nat /\ None \notin defined[desc]
      /\ fault.pins \subseteq defined[desc] /\ fault.pins # {}
      /\ \A p \in defined[desc] : p > None
  <2>1. \A p \in Nat \ {None} : p > None
    BY DEF None
  <2> QED
    BY <2>1, ShortedPins DEF Noticeable, None
<1>2. stage \in {"gentle", "base", "weak", "strong"} /\ ok = TRUE /\ high \in BOOLEAN
  BY DEF Where, Scanning
<1>3. CASE leaf < Len(Configurations[desc])
  <2>1. UNCHANGED <<stage, bit, high>> /\ ok' = TRUE
    BY <1>2, <1>3 DEF Return
  <2> QED
    BY <2>1 DEF Where, Passed
<1>4. CASE ~(leaf < Len(Configurations[desc]))
  <2> DEFINE to == do_tests(ok /\ res)
  <2>1. stage' = to[1] /\ bit' = to[2] /\ high' = to[3] /\ ok' = TRUE
    BY <1>4 DEF Return
  <2>2. to = IF stage = "gentle" THEN <<"base", None, high>>
             ELSE IF stage = "weak" THEN <<"strong", bit, high>>
             ELSE NextBit
    BY <1>2 DEF do_tests
  <2> HIDE DEF to
  <2>3. CASE stage = "gentle"
    <3>1. stage' = "base" /\ bit' = None /\ high' = high
      BY <2>1, <2>2, <2>3
    <3> QED
      BY <1>2, <2>1, <2>3, <3>1 DEF Where, Passed
  <2>4. CASE stage = "weak"
    <3>1. stage' = "strong" /\ bit' = bit /\ high' = high
      BY <2>1, <2>2, <2>4
    <3> QED
      BY <1>2, <2>1, <2>4, <3>1 DEF Where, Passed
  <2>5. CASE stage \in {"base", "strong"}
    <3>1. to = NextBit
      BY <2>2, <2>5
    <3>2. bit \in Nat /\ (stage = "base" => bit = None) /\ (stage = "strong" => bit \in defined[desc])
      BY <1>1, <2>5 DEF Where
    <3>3. CASE \E b \in defined[desc] : /\ b > bit
                                        /\ \A q \in defined[desc] : q > bit => b <= q
                                        /\ NextBit = <<"weak", b, high>>
      <4>1. PICK b \in defined[desc] : /\ b > bit
                                       /\ \A q \in defined[desc] : q > bit => b <= q
                                       /\ NextBit = <<"weak", b, high>>
        BY <3>3
      <4>2. stage' = "weak" /\ bit' = b /\ high' = high
        BY <2>1, <3>1, <4>1
      <4>3. Where'
        BY <1>2, <2>1, <4>2 DEF Where
      <4>4. ASSUME NEW h \in BOOLEAN, NEW a \in {None} \cup fault.pins, Passed(h, a)'
            PROVE  Passed(h, a) \/ (h = high /\ a = bit /\ stage \in {"base", "weak"})
        <5>1. a \in Nat /\ b \in Nat
          BY <1>1
        <5>2. \/ high = TRUE /\ h = FALSE
              \/ h = high /\ a < b
          BY <4>2, <4>4, <5>1 DEF Passed
        <5>3. a < b => a <= bit
          <6>1. CASE a \in defined[desc]
            BY <3>2, <4>1, <5>1, <6>1
          <6>2. CASE a = None
            BY <3>2, <6>2 DEF None
          <6> QED
            BY <1>1, <6>1, <6>2
        <5>4. a <= bit => a < bit \/ a = bit
          BY <3>2, <5>1
        <5>5. stage = "base" => ~(a < bit)
          BY <3>2, <5>1 DEF None
        <5> QED
          BY <2>5, <5>2, <5>3, <5>4, <5>5 DEF Passed
      <4> QED
        BY <4>3, <4>4
    <3>4. CASE (\A p \in defined[desc] : ~(p > bit)) /\ NextBit = NextHigh
      <4>1. stage = "strong"
        BY <1>1, <2>5, <3>2, <3>4
      <4>2. \A a \in {None} \cup fault.pins : a < bit \/ a = bit
        <5> SUFFICES ASSUME NEW a \in {None} \cup fault.pins PROVE a < bit \/ a = bit
          OBVIOUS
        <5>1. a \in Nat /\ ~(a > bit)
          BY <1>1, <3>2, <3>4, <4>1
        <5> QED
          BY <3>2, <5>1
      <4>3. \A h \in BOOLEAN, a \in {None} \cup fault.pins : h = high => Passed(h, a)
        BY <4>1, <4>2 DEF Passed
      <4>4. CASE high = TRUE
        <5>1. stage' = "done" /\ bit' = None /\ high' = TRUE
          BY <2>1, <3>1, <3>4, <4>4 DEF NextHigh
        <5>2. \A h \in BOOLEAN, a \in {None} \cup fault.pins : Passed(h, a)
          BY <4>3, <4>4 DEF Passed
        <5> QED
          BY <2>1, <5>1, <5>2 DEF Where
      <4>5. CASE high = FALSE
        <5>1. stage' = "gentle" /\ bit' = None /\ high' = TRUE
          BY <2>1, <3>1, <3>4, <4>5 DEF NextHigh
        <5>2. \A h \in BOOLEAN, a \in {None} \cup fault.pins : Passed(h, a)' => h = FALSE
          BY <5>1 DEF Passed
        <5> QED
          BY <2>1, <4>3, <4>5, <5>1, <5>2 DEF Where
      <4> QED
        BY <1>2, <4>4, <4>5
    <3> QED
      BY <1>1, <3>3, <3>4, NextBitLeast
  <2> QED
    BY <1>2, <2>3, <2>4, <2>5
<1> QED
  BY <1>3, <1>4

\* What is kept when a configuration is dealt with and nothing is noticed:
\* its pattern has been posted.
LEMMA ReturnTested ==
  ASSUME ScanType, Noticeable, Where, PassedInv, Scanning, NEW res, res = TRUE,
         Return(res), desc' = desc, fault' = fault, setups' = setups,
         (stage \in {"base", "weak"} /\ bit \in {None} \cup fault.pins) => Tested(high, bit)
  PROVE  Where' /\ PassedInv'
<1>1. Where'
  BY ReturnPasses
<1>2. ASSUME NEW h \in BOOLEAN, NEW b \in {None} \cup fault.pins, Passed(h, b)'
      PROVE  Tested(h, b)
  <2>1. Passed(h, b) \/ (h = high /\ b = bit /\ stage \in {"base", "weak"})
    BY <1>2, ReturnPasses
  <2>2. CASE Passed(h, b)
    BY <2>2 DEF PassedInv
  <2>3. CASE h = high /\ b = bit /\ stage \in {"base", "weak"}
    BY <2>3
  <2> QED
    BY <2>1, <2>2, <2>3
<1>3. \A h, b : Tested(h, b)' <=> Tested(h, b)
  BY DEF Tested, Shape
<1>4. PassedInv'
  BY <1>2, <1>3 DEF PassedInv
<1> QED
  BY <1>1, <1>4

\* Nothing has been posted when a scan begins.
LEMMA InitNoticed == Init => Noticed
<1> SUFFICES ASSUME Init, Noticeable PROVE Where /\ FreeInv /\ PostedInv /\ History /\ PassedInv
  BY DEF Noticed
<1>1. /\ stage = "gentle" /\ bit = None /\ high = FALSE /\ ok = TRUE /\ posted = FALSE
      /\ setups = {}
  BY DEF Init
<1>2. \A p \in fault.pins : IsFree(setting[p])
  <2> SUFFICES ASSUME NEW p \in fault.pins PROVE IsFree(setting[p])
    OBVIOUS
  <2>1. p \in DOMAIN settings[desc] /\ IsFree(settings[desc][p])
    BY DEF Noticeable, Free
  <2>2. p \in Pins
    BY BscanAssumption DEF Init
  <2> QED
    BY <2>1, <2>2 DEF Init, Written
<1> QED
  BY <1>1, <1>2 DEF Where, FreeInv, PostedInv, History, PassedInv, Passed

\* A pattern is posted, or passed over because it has been before.
LEMMA PostNoticed ==
  ASSUME Inv, Noticed, Post
  PROVE  Noticed'
<1> DEFINE c == Configurations[desc][leaf]
           s == Written(setting, c.put)
           sel == {p \in c.sel : s[p].allow # {}}
           vals == pattern(sel, s)
           here == stage \in {"base", "weak"} /\ bit \in {None} \cup fault.pins
<1>1. /\ ~posted /\ Scanning
      /\ setting' = s /\ selected' = sel
      /\ desc' = desc /\ fault' = fault /\ errors' = errors
      /\ \/ /\ posted' = TRUE /\ values' = vals /\ setups' = setups \cup {vals}
            /\ UNCHANGED <<position, ok>>
         \/ /\ ~(Untestable \notin Range(vals) /\ vals \notin setups)
            /\ Return(TRUE)
            /\ UNCHANGED <<posted, setups, values>>
  BY DEF Post, scan
<1> SUFFICES ASSUME Noticeable', ~errors'
             PROVE  (Where /\ FreeInv /\ PostedInv /\ History /\ PassedInv)'
  BY DEF Noticed
<1>2. Noticeable /\ ~errors
  BY <1>1 DEF Noticeable, Free
<1>3. Where /\ FreeInv /\ PostedInv /\ History /\ PassedInv
  BY <1>2 DEF Noticed
<1>4. ScanType /\ setting \in [Pins -> PinSettings] /\ desc \in Descriptions
      /\ leaf \in 1..Len(Configurations[desc])
  BY DEF Inv, ScanType
<1>5. SetsPins(c.put) /\ c.sel \subseteq defined[desc] /\ defined[desc] \subseteq Pins
  BY <1>4, DescriptionAssumption
<1>6. s \in [Pins -> PinSettings]
  BY <1>4, <1>5, PutOver
<1>7. \A p \in fault.pins : p \in Pins /\ p # None /\ IsFree(s[p]) /\ p \in sel
  <2> SUFFICES ASSUME NEW p \in fault.pins
               PROVE  p \in Pins /\ p # None /\ IsFree(s[p]) /\ p \in sel
    OBVIOUS
  <2>1. p \in Pins /\ p # None /\ p \in c.sel /\ (p \in DOMAIN c.put => IsFree(c.put[p]))
    BY <1>2, <1>4, <1>5, ShortedPins
  <2>2. IsFree(setting[p])
    BY <1>3 DEF FreeInv
  <2>3. IsFree(s[p])
    BY <1>4, <2>1, <2>2 DEF Written
  <2>4. s[p].allow # {}
    BY <2>3 DEF IsFree, Values
  <2> QED
    BY <2>1, <2>3, <2>4
<1> HIDE DEF c, s
<1>8. here => Shape(vals, high, bit)
  <2> SUFFICES ASSUME here, NEW p \in fault.pins
               PROVE  vals[p] = IF (p = bit) = high THEN "1R" ELSE "0R"
    BY DEF Shape
  <2>1. p \in Pins /\ p \in sel /\ IsFree(s[p]) /\ high \in BOOLEAN
    BY <1>3, <1>7 DEF Where
  <2> HIDE DEF sel
  <2>2. vals[p] = weak_to(s[p], IF p = bit THEN high ELSE ~high)
    BY <2>1 DEF pattern
  <2>3. CASE p = bit
    BY <2>1, <2>2, <2>3, FreePull
  <2>4. CASE p # bit
    <3>1. vals[p] = IF ~high THEN "1R" ELSE "0R"
      BY <2>1, <2>2, <2>4, FreePull
    <3> QED
      BY <2>1, <2>4, <3>1
  <2> QED
    BY <2>3, <2>4
<1>9. here => Untestable \notin Range(vals)
  <2> SUFFICES ASSUME here, NEW p \in Pins PROVE vals[p] # Untestable
    <3>1. DOMAIN vals = Pins
      BY DEF pattern
    <3> HIDE DEF vals
    <3> QED
      BY <3>1 DEF Range
  <2>1. s[p] \in PinSettings /\ high \in BOOLEAN
    BY <1>3, <1>6 DEF Where
  <2>2. CASE p = bit
    <3>1. bit # None /\ s[p].allow # {}
      BY <1>5, <2>2, <1>7, BscanAssumption DEF None
    <3>2. vals[p] = weak_to(s[p], high)
      BY <2>2 DEF pattern
    <3> QED
      BY <2>1, <3>1, <3>2, WeakTestable
  <2>3. CASE p # bit /\ p \notin sel
    <3> HIDE DEF sel
    <3>1. vals[p] = "Z"
      BY <2>3 DEF pattern
    <3> QED
      BY <3>1 DEF Untestable
  <2>4. CASE p # bit /\ p \in sel
    <3>1. s[p].allow # {}
      BY <2>4
    <3> HIDE DEF sel
    <3>2. vals[p] = weak_to(s[p], ~high)
      BY <2>4 DEF pattern
    <3>3. (~high) \in BOOLEAN
      OBVIOUS
    <3> HIDE DEF vals
    <3> QED
      BY <2>1, <3>1, <3>2, <3>3, WeakTestable
  <2> QED
    BY <2>2, <2>3, <2>4
<1>10. FreeInv'
  BY <1>1, <1>7 DEF FreeInv
<1> HIDE DEF sel, vals
<1>11. CASE /\ posted' = TRUE /\ values' = vals /\ setups' = setups \cup {vals}
            /\ UNCHANGED <<position, ok>>
  <2>1. stage' = stage /\ bit' = bit /\ high' = high /\ ok' = ok
    BY <1>11 DEF position
  <2>2. Where'
    BY <1>1, <1>3, <2>1 DEF Where
  <2>3. PostedInv'
    BY <1>1, <1>8, <1>11, <2>1 DEF PostedInv, Shape, Scanning
  <2>4. History'
    <3>1. \A v \in setups : Unnoticed(v)
      BY <1>1, <1>3 DEF History
    <3>2. \A v : Unnoticed(v)' <=> Unnoticed(v)
      BY <1>1 DEF Unnoticed
    <3> QED
      BY <1>11, <3>1, <3>2 DEF History
  <2>5. PassedInv'
    <3>1. \A h, b : Passed(h, b)' <=> Passed(h, b)
      BY <2>1 DEF Passed
    <3>2. \A h, b : Tested(h, b) => Tested(h, b)'
      BY <1>1, <1>11 DEF Tested, Shape
    <3> QED
      BY <1>1, <1>3, <3>1, <3>2 DEF PassedInv
  <2> QED
    BY <1>10, <2>2, <2>3, <2>4, <2>5
<1>12. CASE /\ ~(Untestable \notin Range(vals) /\ vals \notin setups)
            /\ Return(TRUE)
            /\ UNCHANGED <<posted, setups, values>>
  <2>1. here => Tested(high, bit)
    BY <1>8, <1>9, <1>12 DEF Tested
  <2>2. Where' /\ PassedInv'
    BY <1>1, <1>2, <1>3, <1>4, <1>12, <2>1, ReturnTested
  <2>3. PostedInv'
    BY <1>1, <1>12 DEF PostedInv
  <2>4. History'
    BY <1>1, <1>3, <1>12 DEF History, Unnoticed
  <2> QED
    BY <1>10, <2>2, <2>3, <2>4
<1> QED
  BY <1>1, <1>11, <1>12

\* Shorted pins are read: what all of them read is a level they can have.
LEMMA ShortRead ==
  ASSUME Inv, posted, ~Committing, Noticeable, FreeInv, NEW got \in Readings,
         \A p \in selected : expected(values[p], setting[p].external) \in {Untestable, got[p]}
  PROVE  Unnoticed(values)
<1>1. PICK q \in fault.pins : TRUE
  BY DEF Noticeable
<1>2. \A p \in fault.pins : /\ p \in Pins /\ p \in defined[desc] /\ p \in selected
                            /\ setting[p].external = {"Z"}
  BY ShortedPins DEF Inv, FreeInv, IsFree
<1>3. \A p \in fault.pins : got[p] = got[q] /\ got[p] \in Levels(fault.pins, fault.to)
  BY DEF Readings
<1>4. PICK d \in [fault.pins -> Values] :
        /\ \A p \in fault.pins : d[p] \in Drives(p)
        /\ got[q] \in Level(Range(d) \cup {decode_value(chip, p) : p \in fault.pins}
                              \cup fault.to)
  BY <1>3 DEF Levels
<1>5. Range(d) = {"Z"}
  <2>1. \A p \in fault.pins : d[p] = "Z"
    BY <1>2, <1>4 DEF Drives
  <2>2. DOMAIN d = fault.pins
    OBVIOUS
  <2> QED
    BY <1>1, <2>1, <2>2 DEF Range
<1>6. {decode_value(chip, p) : p \in fault.pins} = {values[p] : p \in fault.pins}
  <2>1. \A p \in fault.pins : decode_value(chip, p) = values[p]
    BY <1>2, ChipDrives
  <2> QED
    BY <2>1
<1>7. got[q] \in Level({"Z"} \cup {values[p] : p \in fault.pins} \cup fault.to)
  BY <1>4, <1>5, <1>6
<1>8. \A p \in fault.pins : expected(values[p], {"Z"}) \in {Untestable, got[q]}
  BY <1>2, <1>3
<1> QED
  BY <1>7, <1>8 DEF Unnoticed

\* The pins are compared.
LEMMA CheckNoticed ==
  ASSUME Inv, Noticed, Check
  PROVE  Noticed'
<1>1. PICK got \in Readings :
        LET bad == {p \in selected : expected(values[p], setting[p].external)
                                        \notin {Untestable, got[p]}}
        IN /\ errors' = (errors \/ bad # {})
           /\ IF bad # {} /\ mode = "plain"
              THEN /\ stage' = "exit"
                   /\ UNCHANGED <<bit, high, leaf, ok>>
              ELSE Return(bad = {})
  BY DEF Check
<1>2. /\ Scanning /\ posted /\ ~Committing /\ posted' = FALSE
      /\ desc' = desc /\ fault' = fault /\ setting' = setting
      /\ selected' = selected /\ values' = values /\ setups' = setups
  BY DEF Check, scan
<1> DEFINE bad == {p \in selected : expected(values[p], setting[p].external)
                                       \notin {Untestable, got[p]}}
           res == bad = {}
<1> SUFFICES ASSUME Noticeable', ~errors'
             PROVE  (Where /\ FreeInv /\ PostedInv /\ History /\ PassedInv)'
  BY DEF Noticed
<1>3. Noticeable /\ ~errors /\ bad = {} /\ Return(res)
  BY <1>1, <1>2 DEF Noticeable, Free
<1>4. Where /\ FreeInv /\ PostedInv /\ History /\ PassedInv
  BY <1>3 DEF Noticed
<1>5. \A p \in selected : expected(values[p], setting[p].external) \in {Untestable, got[p]}
  BY <1>3
<1>6. Unnoticed(values)
  BY <1>2, <1>3, <1>4, <1>5, ShortRead
<1>7. res = TRUE
  BY <1>3
<1> HIDE DEF res, bad
<1>8. (stage \in {"base", "weak"} /\ bit \in {None} \cup fault.pins) => Tested(high, bit)
  BY <1>2, <1>4 DEF PostedInv, Tested
<1>9. Where' /\ PassedInv'
  BY <1>2, <1>3, <1>4, <1>7, <1>8, ReturnTested DEF Inv
<1>10. FreeInv' /\ PostedInv'
  BY <1>2, <1>4 DEF FreeInv, PostedInv
<1>11. History'
  <2>1. \A v \in setups : Unnoticed(v)
    BY <1>4, <1>6 DEF History
  <2> QED
    BY <1>2, <2>1 DEF History, Unnoticed
<1> QED
  BY <1>9, <1>10, <1>11

\* The rest changes nothing that has to do with it, or is an error.
LEMMA StayNoticed ==
  ASSUME Noticed,
         \/ /\ UNCHANGED <<scan, setting, values, position, ok, selected, posted,
                           setups, errors>>
         \/ errors'
  PROVE  Noticed'
<1>1. CASE errors'
  BY <1>1 DEF Noticed
<1>2. CASE UNCHANGED <<scan, setting, values, position, ok, selected, posted,
                       setups, errors>>
  <2>1. /\ desc' = desc /\ fault' = fault /\ setting' = setting /\ values' = values
        /\ stage' = stage /\ bit' = bit /\ high' = high /\ ok' = ok
        /\ selected' = selected /\ posted' = posted /\ setups' = setups
        /\ errors' = errors
    BY <1>2 DEF scan, position
  <2>2. (Noticeable' <=> Noticeable) /\ (Where' <=> Where) /\ (FreeInv' <=> FreeInv)
    BY <2>1 DEF Noticeable, Free, Where, FreeInv
  <2>3. PostedInv' <=> PostedInv
    BY <2>1 DEF PostedInv, Shape
  <2>4. History' <=> History
    BY <2>1 DEF History, Unnoticed
  <2>5. PassedInv' <=> PassedInv
    BY <2>1 DEF PassedInv, Passed, Tested, Shape
  <2> QED
    BY <2>1, <2>2, <2>3, <2>4, <2>5 DEF Noticed
<1> QED
  BY <1>1, <1>2

\* Every step keeps the memory.
LEMMA NextNoticed == Inv /\ Noticed /\ [Next]_vars => Noticed'
<1> SUFFICES ASSUME Inv, Noticed, [Next]_vars PROVE Noticed'
  OBVIOUS
<1>1. CASE Post
  BY <1>1, PostNoticed
<1>2. CASE Check
  BY <1>2, CheckNoticed
<1>3. CASE Change \/ lost_comm \/ Finished \/ UNCHANGED vars
  BY <1>3, StayNoticed DEF Change, lost_comm, Finished, vars, bscanVars
<1> QED
  BY <1>1, <1>2, <1>3 DEF Next

\* At the end some pattern has told a short from a good circuit.
LEMMA NoticedAtEnd == Inv /\ Noticed => ShortsFound
<1> SUFFICES ASSUME Inv, Noticed, stage = "done", Noticeable, ~errors PROVE FALSE
  BY DEF ShortsFound, Noticeable
<1>1. Where /\ FreeInv /\ PostedInv /\ History /\ PassedInv
  BY DEF Noticed
<1>2. \A v \in setups : Unnoticed(v)
  BY <1>1 DEF History, PostedInv
<1>3. \A h \in BOOLEAN, b \in {None} \cup fault.pins : Tested(h, b)
  BY <1>1 DEF PassedInv, Passed
<1>4. fault \in Faults /\ fault.pins # {} /\ \A q \in fault.pins : q # None
  BY ShortedPins DEF Inv, ScanType, Noticeable
<1>5. PICK p \in fault.pins : TRUE
  BY <1>4
<1>6. CASE fault.to = {}
  <2>1. PICK q \in fault.pins : q # p
    BY <1>4, <1>6, BscanAssumption
  <2>2. PICK v \in setups : Shape(v, TRUE, p)
    BY <1>3 DEF Tested
  <2>3. v[p] = "1R" /\ v[q] = "0R"
    BY <2>1, <2>2 DEF Shape
  <2>4. PICK g : \A pin \in fault.pins : expected(v[pin], {"Z"}) \in {Untestable, g}
    BY <1>2, <2>2 DEF Unnoticed
  <2> QED
    BY <2>3, <2>4, FreeExpected DEF Untestable
<1>7. ASSUME NEW h \in BOOLEAN, fault.to = {IF h THEN "1" ELSE "0"}
      PROVE  FALSE
  <2>1. PICK v \in setups : Shape(v, h, None)
    BY <1>3 DEF Tested
  <2>2. \A q \in fault.pins : v[q] = IF h THEN "0R" ELSE "1R"
    BY <1>4, <2>1 DEF Shape
  <2>3. PICK g \in Level({"Z"} \cup {v[q] : q \in fault.pins} \cup fault.to) :
          expected(v[p], {"Z"}) \in {Untestable, g}
    BY <1>2 DEF Unnoticed
  <2>4. {v[q] : q \in fault.pins} = {IF h THEN "0R" ELSE "1R"}
    BY <1>5, <2>2
  <2>5. g = IF h THEN "1" ELSE "0"
    BY <1>7, <2>3, <2>4 DEF Level, Meets, Strong
  <2>6. expected(v[p], {"Z"}) = IF h THEN "0" ELSE "1"
    BY <2>2, FreeExpected
  <2> QED
    BY <2>3, <2>5, <2>6 DEF Untestable
<1>8. fault.to \in {{}, {"0"}, {"1"}}
  BY <1>4, BscanAssumption
<1>9. fault.to = {"0"} => FALSE
  BY <1>7
<1>10. fault.to = {"1"} => FALSE
  BY <1>7
<1> QED
  BY <1>6, <1>8, <1>9, <1>10

-----------------------------------------------------------------------------
(* Theorems *)

\* Every step of a scan preserves the invariant.
LEMMA NextInv == Inv /\ [Next]_vars => Inv'
<1> SUFFICES ASSUME Inv, [Next]_vars PROVE Inv'
  OBVIOUS
<1>1. CASE Post
  BY <1>1, PostStep
<1>2. CASE Change
  BY <1>2, ChangeStep
<1>3. CASE Check
  BY <1>3, CheckStep
<1>4. CASE lost_comm
  BY <1>4, LostStep
<1>5. CASE Finished \/ UNCHANGED vars
  BY <1>5, StutterStep DEF Finished
<1> QED
  BY <1>1, <1>2, <1>3, <1>4, <1>5 DEF Next

\* For every number of ports, every description and every circuit, the
\* invariant holds throughout a scan.
THEOREM Invariance == Spec => []Inv
BY InitInv, NextInv, PTL DEF Spec

\* On the way from one pattern to the next a pin drives a strong level only if
\* it did before or is going to (commit in bscan/port.c).
THEOREM CommitIsGentle == Spec => []NoStrongOnTheWay
<1>1. Inv => NoStrongOnTheWay
  <2> SUFFICES ASSUME Inv, Committing, NEW p \in Pins, decode_value(chip, p) \in Strong
               PROVE  decode_value(chip, p) \in {decode_value(from, p), decode_value(want, p)}
    BY DEF NoStrongOnTheWay
  <2> QED
    BY NoStrongBetween DEF Inv, PinsInv
<1> QED
  BY <1>1, Invariance, PTL

\* When pins are compared they drive what test.c wanted, and pins that are not
\* described are left alone (change in bscan/port.c leaves out writes).
THEOREM PatternsArrive == Spec => []PinsAsWanted
<1>1. Inv => PinsAsWanted
  BY ChipDrives DEF PinsAsWanted
<1> QED
  BY <1>1, Invariance, PTL

\* No selected pin is driven hard against what its description says of the
\* circuit (the selection in bscan/value.c).
THEOREM NeverFights == Spec => []NoFight
<1>1. Inv => NoFight
  BY DEF Inv, PatternInv, NoFight, Safe
<1> QED
  BY <1>1, Invariance, PTL

\* A circuit that is as described, whatever it does within the description,
\* passes (expected in bscan/value.c, check in bscan/test.c).
THEOREM GoodCircuitPasses == Spec => []NoFalseAlarm
<1>1. Inv => NoFalseAlarm
  BY DEF Inv, Healthy, NoFalseAlarm
<1> QED
  BY <1>1, Invariance, PTL

\* A short of pins that are free in every configuration is noticed before the
\* scan ends (do_tests and recurse in bscan/test.c: no test of a pin is passed
\* over, and leaving out a pattern posted before loses nothing).
THEOREM ShortsNoticed == Spec => []ShortsFound
<1>1. Spec => []Noticed
  BY InitNoticed, NextNoticed, Invariance, PTL DEF Spec
<1> QED
  BY <1>1, NoticedAtEnd, Invariance, PTL
=============================================================================
