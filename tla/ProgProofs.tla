----------------------------- MODULE ProgProofs -----------------------------
(***************************************************************************)
(* Proofs about ProgSession, for every number of banks and blocks, every   *)
(* file, every protection and every command line: when the chip is         *)
(* protected, what a session that ends well has made sure of whatever the  *)
(* chip did wrong, and what it leaves in a chip that did nothing wrong.    *)
(***************************************************************************)
EXTENDS ProgSession, TLAPS, FiniteSetTheorems, WellFoundedInduction

-----------------------------------------------------------------------------
(* Blocks and banks *)

\* A block number is that of its bank and that within the bank.
LEMMA DivMod ==
  ASSUME NEW d \in Nat \ {0}, NEW b \in Nat
  PROVE  b \div d \in Nat /\ b % d \in 0 .. d - 1 /\ b = (b \div d) * d + (b % d)
OBVIOUS

\* Blocks below the size of the Flash are in its banks.
LEMMA InBank ==
  ASSUME NEW n \in Nat, NEW d \in Nat \ {0}, NEW b \in 0 .. n * d - 1
  PROVE  b \div d \in 0 .. n - 1
<1> DEFINE q == b \div d
<1>1. q \in Nat /\ q * d <= b /\ b < n * d
  BY DivMod
<1> HIDE DEF q
<1>2. q < n
  <2> SUFFICES ASSUME q >= n PROVE FALSE
    BY <1>1
  <2>1. PICK e \in Nat : q = n + e
    BY <1>1
  <2>2. q * d = n * d + e * d /\ e * d \in Nat
    BY <2>1
  <2> QED
    BY <1>1, <2>2
<1> QED
  BY <1>1, <1>2 DEF q

\* And a block of a bank is in the Flash.
LEMMA InFlash ==
  ASSUME NEW n \in Nat, NEW d \in Nat \ {0}, NEW k \in 0 .. n - 1, NEW r \in 0 .. d - 1
  PROVE  k * d + r \in 0 .. n * d - 1
<1>1. PICK e \in Nat : n = k + 1 + e
  BY n - k - 1 \in Nat
<1>2. n * d = k * d + d + e * d /\ e * d \in Nat /\ k * d \in Nat
  BY <1>1
<1> QED
  BY <1>2

\* The next block is the first one of a bank or in the same bank.
LEMMA NextBlock ==
  ASSUME NEW d \in Nat \ {0}, NEW b \in Nat, (b + 1) % d # 0
  PROVE  (b + 1) \div d = b \div d
<1> DEFINE q == b \div d
           r == b % d
           q1 == (b + 1) \div d
           r1 == (b + 1) % d
<1>1. /\ q \in Nat /\ r \in 0 .. d - 1 /\ b = q * d + r
      /\ q1 \in Nat /\ r1 \in 1 .. d - 1 /\ b + 1 = q1 * d + r1
  BY DivMod, b + 1 \in Nat
<1> HIDE DEF q, r, q1, r1
<1>2. ~(q1 > q)
  <2> SUFFICES ASSUME q1 > q PROVE FALSE
    OBVIOUS
  <2>1. PICK e \in Nat : q1 = q + 1 + e
    BY <1>1, q1 - q - 1 \in Nat
  <2>2. q1 * d = q * d + d + e * d /\ e * d \in Nat
    BY <1>1, <2>1
  <2> QED
    BY <1>1, <2>2
<1>3. ~(q > q1)
  <2> SUFFICES ASSUME q > q1 PROVE FALSE
    OBVIOUS
  <2>1. PICK e \in Nat : q = q1 + 1 + e
    BY <1>1, q - q1 - 1 \in Nat
  <2>2. q * d = q1 * d + d + e * d /\ e * d \in Nat
    BY <1>1, <2>1
  <2> QED
    BY <1>1, <2>2
<1> QED
  BY <1>1, <1>2, <1>3 DEF q, q1

\* Blocks of the first bank.
LEMMA FirstBank ==
  ASSUME NEW d \in Nat \ {0}, NEW b \in 0 .. d - 1
  PROVE  b \div d = 0 /\ b % d = b
<1> DEFINE q == b \div d
<1>1. q \in 0 .. 0
  BY InBank, 1 * d = d
<1>2. b = q * d + (b % d)
  BY DivMod
<1> QED
  BY <1>1, <1>2

-----------------------------------------------------------------------------
(* The order of the operations *)

\* The order in which main calls the operations, place by place.
LEMMA OrderFacts ==
  /\ DOMAIN Order = 1 .. 9
  /\ Order[1] = "erase" /\ Order[2] = "write" /\ Order[3] = "readsec"
  /\ Order[4] = "read" /\ Order[5] = "compare" /\ Order[6] = "protect"
  /\ Order[7] = "checksec" /\ Order[8] = "dump" /\ Order[9] = "save"
BY DEF Order

\* An operation of the order has one place in it.
LEMMA PlaceFacts ==
  ASSUME NEW k \in 1 .. 9
  PROVE  Place(Order[k]) = k
<1>1. \A l \in 1 .. 9 : Order[l] = Order[k] <=> l = k
  BY OrderFacts
<1> QED
  BY <1>1, OrderFacts DEF Place

\* What main goes on with is called, and nothing in between is.
LEMMA BehindFacts ==
  ASSUME NEW k \in 0 .. 8
  PROVE  \E j \in k + 1 .. 9 :
           /\ Behind(k) = Order[j] /\ Called(Order[j])
           /\ \A l \in k + 1 .. 9 : l < j => ~Called(Order[l])
<1> DEFINE S == {j \in 1 .. 9 : k < j /\ Called(Order[j])}
           Calls(j) == k < j /\ Called(Order[j])
           First(j) == Calls(j) /\ \A l \in DOMAIN Order : Calls(l) => j <= l
<1>1. 9 \in S /\ S \subseteq Nat
  BY OrderFacts DEF Called
<1>2. PICK m \in S : \A y \in S : ~(<<y, m>> \in OpToRel(<, Nat))
  BY <1>1, NatLessThanWellFounded, WFMin, Zenon
<1>3. ASSUME NEW l \in S PROVE m <= l
  <2>1. <<l, m>> \notin {ss \in Nat \X Nat : ss[1] < ss[2]}
    BY <1>2, <1>3 DEF OpToRel
  <2>2. l \in Nat /\ m \in Nat
    OBVIOUS
  <2>3. ~(l < m)
    BY <2>1, <2>2
  <2> QED
    BY <2>2, <2>3
<1>4. m \in DOMAIN Order /\ First(m)
  BY <1>3, OrderFacts
<1> DEFINE c == CHOOSE j \in DOMAIN Order : First(j)
<1>5. c \in DOMAIN Order /\ First(c)
  BY <1>4
<1>6. Behind(k) = Order[c]
  BY DEF Behind
<1> HIDE DEF c
<1> QED
  BY <1>5, <1>6, OrderFacts

-----------------------------------------------------------------------------
(* The inductive invariant, for a chip that may do anything wrong *)

\* A buffer of the host.
Array(g, V) ==
  IsFiniteSet(DOMAIN g) /\ DOMAIN g = 0 .. Size(g) - 1 /\ g \in [DOMAIN g -> V]

Phases == {"start", "erase", "write", "readsec", "read", "compare",
           "protect", "checksec", "dump", "save"}

TypeOK ==
  /\ opts \in SUBSET OptionNames /\ ("ss" \in opts => "s" \in opts)
  /\ phase \in Phases /\ i \in Nat
  /\ Array(program, Data) /\ Array(security, Modes)
  /\ flash \in [0 .. Total - 1 -> Data] /\ prot \in [0 .. Total - 1 -> Modes]
  /\ bank \in 0 .. Banks - 1 /\ current_bank \in 0 .. Banks - 1

\* A session is in an operation that its options call for, with a file that fits.
Entered ==
  /\ phase = "start" => i = 0
  /\ phase # "start" =>
       /\ Called(phase) /\ ~Misused
       /\ Opt("w") \/ Opt("c") => Size(program) <= Total

AfterRead == {"compare", "protect", "checksec", "dump", "save"}
AfterCompare == AfterRead \ {"compare"}
AfterWrite == AfterRead \cup {"readsec", "read"}

FileKept == Opt("w") => program = file

Checked == Opt("w") /\ phase \in AfterWrite => Sum(flash) = Sum(program)

\* What was read up to now, and the protection read before it.
ReadSoFar ==
  Opt("r") /\ ~Misused =>
    /\ phase \in {"start", "erase", "readsec"} => program = Nothing /\ security = Nothing
    /\ phase \in {"read"} \cup AfterRead => security \in {Nothing, prot}
    /\ phase = "read" => i <= Blocks /\ DOMAIN program = 0 .. i - 1
    /\ phase \in AfterRead => DOMAIN program = 0 .. Blocks - 1
    /\ \A b \in DOMAIN program : program[b] = IF prot[b] = 0 THEN flash[b] ELSE 0

\* In the loops that read, the bank register follows the block.
BankFollows ==
  outcome = "running" /\ phase \in {"read", "compare"} /\ i % Blocks # 0 =>
    bank = i \div Blocks

Agrees(b) == b \in skipped \/ flash[b] = program[b]

\* What was compared up to now.
ComparedSoFar ==
  /\ phase = "compare" => i <= Size(program) /\ \A b \in 0 .. i - 1 : Agrees(b)
  /\ phase \in AfterCompare /\ Opt("c") =>
       /\ \A b \in DOMAIN program : Agrees(b)
       /\ skipped # {} => Sum(flash) = Sum(program)

ProtectionCompared ==
  phase \in {"dump", "save"} /\ Opt("s") /\ (Opt("w") \/ Opt("e")) =>
    \A b \in 0 .. Blocks - 1 : prot[b] = block_protection(b)

Ended == outcome = "done" => phase = "save"

Inv == /\ TypeOK /\ Entered /\ FileKept /\ Checked /\ ReadSoFar /\ BankFollows
       /\ ComparedSoFar /\ ProtectionCompared /\ Ended

-----------------------------------------------------------------------------
(* Lemmas about the parts *)

\* The domain of a buffer.
LEMMA ArrayFacts ==
  ASSUME NEW g, NEW V, Array(g, V)
  PROVE  Size(g) \in Nat /\ DOMAIN g = 0 .. Size(g) - 1
BY FS_CardinalityType DEF Array, Size

\* A function over the first numbers is a buffer.
LEMMA ArrayIntro ==
  ASSUME NEW V, NEW n \in Nat, NEW g \in [0 .. n - 1 -> V]
  PROVE  Array(g, V) /\ Size(g) = n
<1>1. IsFiniteSet(0 .. n - 1) /\ Cardinality(0 .. n - 1) = n
  BY FS_Interval
<1> QED
  BY <1>1 DEF Array, Size

\* What main goes on with, behind place k of the order.
LEMMA Moves ==
  ASSUME NEW k \in 0 .. 8
  PROVE  LET p == Behind(k) IN
         /\ p \in Phases \ {"start"} /\ Called(p)
         /\ k < 1 /\ Opt("w") => p = "erase"
         /\ k < 2 /\ Opt("w") => p \in {"erase", "write"}
         /\ k < 4 /\ Opt("r") => p \in {"erase", "write", "readsec", "read"}
         /\ k < 5 /\ Opt("c") => p \notin AfterCompare
         /\ k < 6 /\ Opt("w") => p \notin {"checksec", "dump", "save"}
         /\ k < 7 /\ Opt("s") /\ (Opt("w") \/ Opt("e")) => p \notin {"dump", "save"}
         /\ k >= 1 => p # "erase"
         /\ k >= 2 => p # "write"
         /\ k >= 3 => p # "readsec"
         /\ k >= 4 => p # "read"
         /\ k >= 5 => p # "compare"
         /\ k >= 6 => p # "protect"
<1> DEFINE p == Behind(k)
<1>1. PICK j \in k + 1 .. 9 :
        /\ p = Order[j] /\ Called(Order[j])
        /\ \A l \in k + 1 .. 9 : l < j => ~Called(Order[l])
  BY BehindFacts
<1> HIDE DEF p
<1>2. p \in Phases \ {"start"} /\ Called(p)
  BY <1>1, OrderFacts DEF Phases
<1>3. \A l \in k + 1 .. 9 : Called(Order[l]) => j <= l
  BY <1>1
<1>4. /\ k < 1 /\ Opt("w") => j = 1
      /\ k < 2 /\ Opt("w") => j \in 1 .. 2
  BY <1>3, OrderFacts DEF Called
<1>5. k < 4 /\ Opt("r") => j \in 1 .. 4
  BY <1>3, OrderFacts DEF Called
<1>6. k < 5 /\ Opt("c") => j \in 1 .. 5
  BY <1>3, OrderFacts DEF Called
<1>7. /\ k < 6 /\ Opt("w") => j \in 1 .. 6
      /\ k < 7 /\ Opt("s") /\ (Opt("w") \/ Opt("e")) => j \in 1 .. 7
  BY <1>3, OrderFacts DEF Called
<1>8. /\ j = 1 => p = "erase"
      /\ j \in 1 .. 2 => p \in {"erase", "write"}
      /\ j \in 1 .. 4 => p \in {"erase", "write", "readsec", "read"}
      /\ j \in 1 .. 5 => p \notin AfterCompare
      /\ j \in 1 .. 6 => p \notin {"checksec", "dump", "save"}
      /\ j \in 1 .. 7 => p \notin {"dump", "save"}
  BY <1>1, OrderFacts DEF AfterCompare, AfterRead
<1>9. /\ k >= 1 => p # "erase"
      /\ k >= 2 => p # "write"
      /\ k >= 3 => p # "readsec"
      /\ k >= 4 => p # "read"
      /\ k >= 5 => p # "compare"
      /\ k >= 6 => p # "protect"
  BY <1>1, OrderFacts
<1> QED
  BY <1>2, <1>4, <1>5, <1>6, <1>7, <1>8, <1>9 DEF p

\* The same for the operation that is through.
LEMMA Through ==
  ASSUME Finish
  PROVE  /\ i' = 0 /\ outcome' = outcome
         /\ phase = "erase" => phase' = Behind(1)
         /\ phase = "write" => phase' = Behind(2)
         /\ phase = "readsec" => phase' = Behind(3)
         /\ phase = "read" => phase' = Behind(4)
         /\ phase = "compare" => phase' = Behind(5)
         /\ phase = "protect" => phase' = Behind(6)
         /\ phase = "checksec" => phase' = Behind(7)
         /\ phase = "dump" => phase' = Behind(8)
BY OrderFacts, PlaceFacts DEF Finish

\* When a block is read, the bank it is in is selected.
LEMMA BankForFacts ==
  ASSUME ProgAssumption, NEW b \in 0 .. Total - 1, bank \in 0 .. Banks - 1,
         b % Blocks # 0 => bank = b \div Blocks
  PROVE  /\ BankFor(b) = b \div Blocks /\ BankFor(b) \in 0 .. Banks - 1
         /\ At(BankFor(b), b) = b
<1>1. Banks \in Nat \ {0} /\ Blocks \in Nat \ {0} /\ b \in Nat
  BY DEF ProgAssumption, Total
<1>2. b \div Blocks \in 0 .. Banks - 1
  BY <1>1, InBank DEF Total
<1>3. BankFor(b) = b \div Blocks
  <2>1. CASE Banks > 1
    BY <2>1 DEF BankFor, SelectBank
  <2>2. CASE ~(Banks > 1)
    BY <1>1, <1>2, <2>2 DEF BankFor, SelectBank
  <2> QED
    BY <2>1, <2>2
<1>4. At(b \div Blocks, b) = b
  BY <1>1, DivMod DEF At
<1> QED
  BY <1>2, <1>3, <1>4

\* The bank register and block numbers of the chip stay in range.
LEMMA ChipTypes ==
  ASSUME ProgAssumption, TypeOK
  PROVE  /\ Banks \in Nat \ {0} /\ Blocks \in Nat \ {0} /\ Total \in Nat
         /\ Blocks <= Total /\ Banks - 1 \in 0 .. Banks - 1
         /\ \A k \in 0 .. Banks - 1 : SelectBank(k) \in 0 .. Banks - 1
         /\ \A k \in 0 .. Banks - 1, b \in Nat : At(k, b) \in 0 .. Total - 1
<1>1. Banks \in Nat \ {0} /\ Blocks \in Nat \ {0}
  BY DEF ProgAssumption
<1>2. Total \in Nat /\ Blocks <= Total
  <2>1. PICK e \in Nat : Banks = 1 + e
    BY <1>1, Banks - 1 \in Nat
  <2>2. Banks * Blocks = Blocks + e * Blocks /\ e * Blocks \in Nat
    BY <1>1, <2>1
  <2> QED
    BY <1>1, <2>2 DEF Total
<1>3. \A k \in 0 .. Banks - 1 : SelectBank(k) \in 0 .. Banks - 1
  BY DEF SelectBank, TypeOK
<1>4. ASSUME NEW k \in 0 .. Banks - 1, NEW b \in Nat
      PROVE  At(k, b) \in 0 .. Total - 1
  BY <1>1, <1>4, DivMod, InFlash DEF At, Total
<1> QED
  BY <1>1, <1>2, <1>3, <1>4

-----------------------------------------------------------------------------
(* The steps *)

\* Padding leaves protection data in modes (check_security).
LEMMA PaddedArray ==
  ASSUME ProgAssumption, NEW g, Array(g, Modes)
  PROVE  Array(check_security(g), Modes)
<1>1. CASE \A b \in DOMAIN g : g[b] = 0
  BY <1>1 DEF check_security
<1>2. CASE ~(\A b \in DOMAIN g : g[b] = 0)
  <2>1. Total \in Nat
    BY DEF ProgAssumption, Total
  <2>2. \A b \in DOMAIN g : g[b] \in Modes
    BY DEF Array
  <2>3. check_security(g) \in [0 .. Total - 1 -> Modes]
    BY <1>2, <2>2 DEF check_security, Modes
  <2> QED
    BY <2>1, <2>3, ArrayIntro
<1> QED
  BY <1>1, <1>2

\* Before the Flash is touched.
LEMMA StartStep ==
  ASSUME ProgAssumption, Inv, Start
  PROVE  Inv'
<1>1. /\ phase = "start" /\ outcome = "running" /\ i = 0
      /\ UNCHANGED <<opts, file, program, current_bank, skipped, flash, prot, bank>>
  BY DEF Start, In, chip, Inv, Entered
<1>2. CASE Exit("refused") /\ UNCHANGED security
  BY <1>1, <1>2
  DEF Exit, Inv, TypeOK, Entered, FileKept, Checked, ReadSoFar, BankFollows, Agrees,
      ComparedSoFar, ProtectionCompared, Ended, AfterWrite, AfterRead, AfterCompare,
      Misused, Opt, Called
<1>3. CASE ~(Exit("refused") /\ UNCHANGED security)
  <2>1. /\ ~Misused /\ ~TooBig /\ phase' = Behind(0) /\ i' = 0
        /\ security' = IF Opt("w") THEN check_security(security) ELSE security
        /\ outcome' = "running"
    BY <1>1, <1>3 DEF Start
  <2>2. /\ phase' \in Phases \ {"start"} /\ Called(phase')
        /\ Opt("w") => phase' \in {"erase", "write"}
        /\ Opt("r") => phase' \in {"erase", "readsec", "read"}
        /\ Opt("c") => phase' \notin AfterCompare
        /\ Opt("s") /\ (Opt("w") \/ Opt("e")) => phase' \notin {"dump", "save"}
    BY <2>1, Moves DEF Called, Misused, Opt
  <2>3. TypeOK'
    BY <1>1, <2>1, <2>2, PaddedArray DEF Inv, TypeOK
  <2>4. Entered'
    <3>1. (Opt("w") \/ Opt("c"))' => Size(program)' <= Total
      BY <1>1, <2>1, ArrayFacts, ChipTypes DEF TooBig, Opt, Inv, TypeOK, Size
    <3>2. Called(phase)' /\ (~Misused)' /\ phase' # "start"
      BY <1>1, <2>1, <2>2 DEF Misused, Called, Opt
    <3> QED
      BY <3>1, <3>2 DEF Entered
  <2>5. FileKept' /\ Checked' /\ Ended'
    BY <1>1, <2>1, <2>2 DEF Inv, FileKept, Checked, Ended, Opt, AfterWrite, AfterRead
  <2>6. ReadSoFar'
    BY <1>1, <2>1, <2>2, ChipTypes
    DEF Inv, ReadSoFar, Opt, Misused, Nothing, AfterRead, ProgAssumption
  <2>7. BankFollows'
    BY <2>1 DEF BankFollows, ProgAssumption
  <2>8. ComparedSoFar' /\ ProtectionCompared'
    BY <1>1, <2>1, <2>2, ArrayFacts
    DEF Inv, TypeOK, ComparedSoFar, ProtectionCompared, Opt
  <2> QED
    BY <2>3, <2>4, <2>5, <2>6, <2>7, <2>8 DEF Inv
<1> QED
  BY <1>2, <1>3

\* An operation ends well and main goes on with the next one.
LEMMA Entering ==
  ASSUME ProgAssumption, Inv, Finish, phase \notin {"start", "save"},
         outcome = "running", UNCHANGED <<opts, program>>
  PROVE  /\ i' = 0 /\ phase' \in Phases \ {"start"} /\ Called(phase')
         /\ phase \in {"erase"} =>
              /\ Opt("w") => phase' \in {"erase", "write"}
         /\ phase \in {"erase", "write", "readsec"} =>
              /\ Opt("r") => phase' \in {"erase", "write", "readsec", "read"}
         /\ phase \in {"erase", "write", "readsec", "read"} =>
              /\ Opt("c") => phase' \notin AfterCompare
         /\ phase \in {"erase", "write", "readsec", "read", "compare"} =>
              /\ Opt("w") => phase' \notin {"checksec", "dump", "save"}
         /\ phase \notin {"checksec", "dump"} =>
              /\ Opt("s") /\ (Opt("w") \/ Opt("e")) => phase' \notin {"dump", "save"}
         /\ phase' # "erase"
         /\ phase # "erase" => phase' # "write"
         /\ phase \notin {"erase", "write"} => phase' # "readsec"
         /\ phase \in AfterRead => phase' \in AfterCompare
         /\ phase \in {"protect", "checksec", "dump"} => phase' # "protect"
         /\ phase = "read" => phase' \in AfterRead
         /\ Entered' /\ BankFollows' /\ Ended'
<1> DEFINE q == phase'
<1>1. phase \in {"erase", "write", "readsec", "read", "compare", "protect", "checksec", "dump"}
  BY DEF Inv, TypeOK, Phases
<1>2. /\ i' = 0 /\ outcome' = "running"
      /\ \E k \in 1 .. 8 : phase = Order[k] /\ q = Behind(k)
  BY <1>1, Through, OrderFacts
<1>3. PICK k \in 1 .. 8 : phase = Order[k] /\ q = Behind(k)
  BY <1>2
<1>4. /\ q \in Phases \ {"start"} /\ Called(q)
      /\ k < 2 /\ Opt("w") => q \in {"erase", "write"}
      /\ k < 4 /\ Opt("r") => q \in {"erase", "write", "readsec", "read"}
      /\ k < 5 /\ Opt("c") => q \notin AfterCompare
      /\ k < 6 /\ Opt("w") => q \notin {"checksec", "dump", "save"}
      /\ k < 7 /\ Opt("s") /\ (Opt("w") \/ Opt("e")) => q \notin {"dump", "save"}
      /\ k >= 1 => q # "erase"
      /\ k >= 2 => q # "write"
      /\ k >= 3 => q # "readsec"
      /\ k >= 4 => q # "read"
      /\ k >= 5 => q # "compare"
      /\ k >= 6 => q # "protect"
  BY <1>3, Moves
<1> HIDE DEF q
<1>5. /\ k = 1 <=> phase = "erase"
      /\ k = 2 <=> phase = "write"
      /\ k = 3 <=> phase = "readsec"
      /\ k = 4 <=> phase = "read"
      /\ k >= 5 <=> phase \in AfterRead
      /\ k < 6 <=> phase \in {"erase", "write", "readsec", "read", "compare"}
      /\ k >= 6 <=> phase \in {"protect", "checksec", "dump"}
      /\ k >= 7 <=> phase \in {"checksec", "dump"}
  BY <1>3, OrderFacts DEF AfterRead
<1>6. /\ k >= 5 => q \in AfterCompare
      /\ k = 4 => q \in AfterRead
  BY <1>4 DEF AfterCompare, AfterRead, Phases
<1>7. Entered'
  <2>1. Called(phase)' /\ (~Misused)' /\ phase' # "start"
    BY <1>1, <1>4 DEF q, Called, Opt, Misused, Inv, Entered
  <2>2. (Opt("w") \/ Opt("c"))' => Size(program)' <= Total
    BY <1>1 DEF Opt, Inv, Entered, Size
  <2> QED
    BY <2>1, <2>2 DEF Entered
<1>8. BankFollows' /\ Ended'
  BY <1>2 DEF BankFollows, Ended, ProgAssumption
<1> QED
  BY <1>2, <1>4, <1>5, <1>6, <1>7, <1>8 DEF q

\* A session that ends leaves everything as it was.
LEMMA Leaving ==
  ASSUME Inv, Exit("died") \/ Exit("read error"), UNCHANGED <<given, host, chip>>
  PROVE  Inv'
<1>1. /\ outcome' \in {"died", "read error"}
      /\ UNCHANGED <<opts, file, program, security, current_bank, skipped, phase, i,
                     flash, prot, bank>>
  BY DEF Exit, given, host, chip
<1>2. TypeOK' /\ FileKept' /\ Checked' /\ BankFollows' /\ Ended'
  BY <1>1 DEF Inv, TypeOK, FileKept, Checked, BankFollows, Ended, Opt
<1>3. Entered'
  BY <1>1 DEF Inv, Entered, Called, Misused, Opt, Size
<1>4. ReadSoFar'
  BY <1>1 DEF Inv, ReadSoFar, Misused, Opt
<1>5. ComparedSoFar' /\ ProtectionCompared'
  BY <1>1 DEF Inv, ComparedSoFar, ProtectionCompared, Agrees, block_protection, Opt, Size
<1> QED
  BY <1>2, <1>3, <1>4, <1>5 DEF Inv

\* Erasing the Flash.
LEMMA EraseStep ==
  ASSUME ProgAssumption, Inv, ops_erase_all
  PROVE  Inv'
<1>1. /\ phase = "erase" /\ outcome = "running" /\ Finish
      /\ UNCHANGED <<opts, file, program, security, current_bank, skipped, bank>>
      /\ flash' \in [0 .. Total - 1 -> Data] /\ prot' \in [0 .. Total - 1 -> Modes]
  BY DEF ops_erase_all, In, Erase, given, host, chip, Inv, TypeOK, ProgAssumption, Modes
<1>2. /\ i' = 0 /\ phase' \in Phases \ {"start"} /\ Called(phase')
      /\ Opt("w") => phase' = "write"
      /\ Opt("r") => phase' \in {"write", "readsec", "read"}
      /\ Opt("c") => phase' \notin AfterCompare
      /\ Opt("s") /\ (Opt("w") \/ Opt("e")) => phase' \notin {"dump", "save"}
      /\ Entered' /\ BankFollows' /\ Ended'
  BY <1>1, Entering
<1>3. TypeOK'
  BY <1>1, <1>2 DEF Inv, TypeOK
<1>4. FileKept' /\ Checked'
  BY <1>1, <1>2 DEF Inv, FileKept, Checked, Opt, AfterWrite, AfterRead
<1>5. ReadSoFar'
  <2> SUFFICES ASSUME Opt("r"), ~Misused PROVE ReadSoFar'
    BY <1>1 DEF ReadSoFar, Opt, Misused
  <2>1. program' = Nothing /\ security' = Nothing /\ DOMAIN program' = {}
    BY <1>1 DEF Inv, ReadSoFar, Nothing
  <2>2. phase' \in {"readsec", "read"}
    BY <1>2 DEF Called, Misused, Opt
  <2>3. 0 <= Blocks /\ 0 .. 0 - 1 = {}
    BY ChipTypes DEF Inv
  <2> QED
    BY <1>2, <2>1, <2>2, <2>3 DEF ReadSoFar, AfterRead
<1>6. ComparedSoFar' /\ ProtectionCompared'
  BY <1>1, <1>2, ArrayFacts DEF Inv, TypeOK, ComparedSoFar, ProtectionCompared, Opt
<1> QED
  BY <1>2, <1>3, <1>4, <1>5, <1>6 DEF Inv

\* The value of a block of a buffer.
LEMMA Element ==
  ASSUME NEW g, NEW V, Array(g, V), NEW b \in DOMAIN g
  PROVE  b \in 0 .. Size(g) - 1 /\ g[b] \in V
BY ArrayFacts DEF Array

\* Writing a block of the program, or leaving one of zeros.
LEMMA WriteBlockStep ==
  ASSUME ProgAssumption, Inv, WriteBlock
  PROVE  Inv'
<1>1. /\ phase = "write" /\ phase' = "write" /\ i' = i + 1 /\ outcome' = outcome
      /\ outcome = "running" /\ i \in DOMAIN program
      /\ UNCHANGED <<opts, file, program, security, skipped>>
  BY DEF WriteBlock, In, Loop, given
<1>2. Opt("w") /\ ~Misused /\ ~Opt("r") /\ Size(program) <= Total
  BY <1>1 DEF Inv, Entered, Called, Misused, Opt
<1>3. /\ i \in 0 .. Total - 1 /\ program[i] \in Data
      /\ Banks \in Nat \ {0} /\ Blocks \in Nat \ {0} /\ Total \in Nat
  BY <1>1, <1>2, Element, ChipTypes, ArrayFacts DEF Inv, TypeOK
<1> DEFINE wanted == i \div Blocks
           k == IF Banks > 1 /\ wanted # current_bank THEN wanted ELSE bank
<1>4. wanted \in 0 .. Banks - 1
  BY <1>3, InBank DEF Total
<1>5. k \in 0 .. Banks - 1 /\ At(k, i) \in 0 .. Total - 1
  BY <1>3, <1>4, ChipTypes DEF Inv, TypeOK
<1>6. /\ prot' = prot /\ bank' \in 0 .. Banks - 1 /\ current_bank' \in 0 .. Banks - 1
      /\ flash' = flash \/ \E v \in Data : flash' = [flash EXCEPT ![At(k, i)] = v]
  <2>1. CASE program[i] = 0
    BY <2>1 DEF WriteBlock, chip, Inv, TypeOK
  <2>2. CASE program[i] # 0
    <3>1. ProgramBlock(k, i, program[i])
          /\ current_bank' = IF Banks > 1 THEN wanted ELSE current_bank
      BY <2>2 DEF WriteBlock
    <3> HIDE DEF k, wanted
    <3> QED
      BY <1>3, <1>4, <1>5, <3>1 DEF ProgramBlock, Inv, TypeOK
  <2> QED
    BY <2>1, <2>2
<1> HIDE DEF k, wanted
<1>7. TypeOK'
  BY <1>1, <1>5, <1>6 DEF Inv, TypeOK
<1>8. Entered'
  BY <1>1, <1>2 DEF Entered, Called, Misused, Opt, Size
<1>9. FileKept' /\ Checked' /\ ReadSoFar' /\ BankFollows' /\ ComparedSoFar'
      /\ ProtectionCompared' /\ Ended'
  BY <1>1, <1>2
  DEF Inv, FileKept, Checked, ReadSoFar, BankFollows, ComparedSoFar, ProtectionCompared,
      Ended, Opt, AfterWrite, AfterRead, AfterCompare
<1> QED
  BY <1>7, <1>8, <1>9 DEF Inv

\* The end of the loop, where the checksum is looked at.
LEMMA WriteEndStep ==
  ASSUME ProgAssumption, Inv, WriteEnd
  PROVE  Inv'
<1>1. /\ phase = "write" /\ outcome = "running" /\ bank' \in 0 .. Banks - 1
      /\ UNCHANGED <<opts, file, program, security, current_bank, skipped, flash, prot>>
  BY ChipTypes DEF WriteEnd, In, given, host, Inv
<1>2. Opt("w") /\ ~Misused /\ ~Opt("r") /\ Size(program) <= Total
  BY <1>1 DEF Inv, Entered, Called, Misused, Opt
<1>3. CASE checksum_ok /\ Finish
  <2>1. /\ i' = 0 /\ phase' \in Phases \ {"start"}
        /\ phase' # "erase" /\ phase' # "write"
        /\ Opt("c") => phase' \notin AfterCompare
        /\ Opt("s") /\ (Opt("w") \/ Opt("e")) => phase' \notin {"dump", "save"}
        /\ Entered' /\ BankFollows' /\ Ended'
    BY <1>1, <1>3, Entering
  <2>2. TypeOK'
    BY <1>1, <2>1 DEF Inv, TypeOK
  <2>3. FileKept' /\ Checked' /\ ReadSoFar'
    BY <1>1, <1>2, <1>3 DEF Inv, FileKept, Checked, ReadSoFar, Opt, checksum_ok
  <2>4. ComparedSoFar' /\ ProtectionCompared'
    BY <1>1, <2>1, ArrayFacts DEF Inv, TypeOK, ComparedSoFar, ProtectionCompared, Opt
  <2> QED
    BY <2>1, <2>2, <2>3, <2>4 DEF Inv
<1>4. CASE Exit("checksum")
  <2>1. phase' = "write" /\ i' = i /\ outcome' = "checksum"
    BY <1>1, <1>4 DEF Exit
  <2>2. TypeOK'
    BY <1>1, <2>1 DEF Inv, TypeOK
  <2>3. Entered'
    BY <1>1, <1>2, <2>1 DEF Entered, Called, Misused, Opt, Size
  <2>4. FileKept' /\ Checked' /\ ReadSoFar' /\ BankFollows' /\ ComparedSoFar'
        /\ ProtectionCompared' /\ Ended'
    BY <1>1, <1>2, <2>1
    DEF Inv, FileKept, Checked, ReadSoFar, BankFollows, ComparedSoFar, ProtectionCompared,
        Ended, Opt, AfterWrite, AfterRead, AfterCompare
  <2> QED
    BY <2>2, <2>3, <2>4 DEF Inv
<1> QED
  BY <1>3, <1>4 DEF WriteEnd

\* Reading the protection of a chip that is not written.
LEMMA ReadSecurityStep ==
  ASSUME ProgAssumption, Inv, ops_read_security
  PROVE  Inv'
<1>1. /\ phase = "readsec" /\ outcome = "running" /\ bank' \in 0 .. Banks - 1
      /\ security' = prot /\ Finish
      /\ UNCHANGED <<opts, file, program, current_bank, skipped, flash, prot>>
  BY ChipTypes DEF ops_read_security, In, given, Inv
<1>2. ~Opt("w") /\ ~Opt("e") /\ ~Misused
  BY <1>1 DEF Inv, Entered, Called, Opt
<1>3. /\ i' = 0 /\ phase' \in Phases \ {"start"}
      /\ phase' # "erase" /\ phase' # "write" /\ phase' # "readsec"
      /\ Opt("r") => phase' = "read"
      /\ Opt("c") => phase' \notin AfterCompare
      /\ Entered' /\ BankFollows' /\ Ended'
  BY <1>1, Entering
<1>4. TypeOK'
  <2>1. Array(security', Modes)
    BY <1>1, ArrayIntro, ChipTypes DEF Inv, TypeOK
  <2> QED
    BY <1>1, <1>3, <2>1 DEF Inv, TypeOK
<1>5. FileKept' /\ Checked'
  BY <1>1, <1>2 DEF FileKept, Checked, Opt
<1>6. ReadSoFar'
  <2> SUFFICES ASSUME Opt("r"), ~Misused PROVE ReadSoFar'
    BY <1>1 DEF ReadSoFar, Opt, Misused
  <2>1. program' = Nothing /\ DOMAIN program' = {}
    BY <1>1 DEF Inv, ReadSoFar, Nothing
  <2>2. 0 <= Blocks /\ 0 .. 0 - 1 = {}
    BY ChipTypes DEF Inv
  <2> QED
    BY <1>1, <1>3, <2>1, <2>2 DEF ReadSoFar, AfterRead
<1>7. ComparedSoFar' /\ ProtectionCompared'
  BY <1>1, <1>2, <1>3, ArrayFacts DEF Inv, TypeOK, ComparedSoFar, ProtectionCompared, Opt
<1> QED
  BY <1>3, <1>4, <1>5, <1>6, <1>7 DEF Inv

\* The host reads a block exactly if it is not protected: what it has read of the
\* protection is nothing or the truth.
LEMMA MayReadFacts ==
  ASSUME NEW b \in 0 .. Total - 1, At(BankFor(b), b) = b,
         security = Nothing \/ security = prot
  PROVE  MayRead(b) <=> prot[b] = 0
BY DEF MayRead, Readable, block_protection, Nothing

\* Reading a block.
LEMMA ReadBlockStep ==
  ASSUME ProgAssumption, Inv, ReadBlock
  PROVE  Inv'
<1>1. /\ phase = "read" /\ outcome = "running" /\ i < Blocks /\ phase' = "read"
      /\ bank' = BankFor(i)
      /\ UNCHANGED <<opts, file, security, current_bank, skipped, flash, prot>>
  BY DEF ReadBlock, In, given, Loop, Exit
<1>2. Opt("r") /\ ~Opt("w") /\ ~Misused
  BY <1>1 DEF Inv, Entered, Called, Misused, Opt
<1>3. i \in 0 .. Total - 1 /\ i \in Nat /\ Blocks \in Nat \ {0} /\ Blocks <= Total /\ Total \in Nat
  BY <1>1, ChipTypes DEF Inv, TypeOK
<1>4. /\ bank' = i \div Blocks /\ bank' \in 0 .. Banks - 1
      /\ At(BankFor(i), i) = i
  BY <1>1, <1>3, BankForFacts DEF Inv, TypeOK, BankFollows
<1>5. /\ security = Nothing \/ security = prot
      /\ DOMAIN program = 0 .. i - 1
      /\ \A b \in DOMAIN program : program[b] = IF prot[b] = 0 THEN flash[b] ELSE 0
  BY <1>1, <1>2 DEF Inv, ReadSoFar
<1>6. CASE Exit("protected") /\ UNCHANGED program
  <2>1. i' = i /\ outcome' = "protected" /\ program' = program
    BY <1>6 DEF Exit
  <2>2. TypeOK'
    BY <1>1, <1>4, <2>1 DEF Inv, TypeOK
  <2>3. Entered'
    BY <1>1, <1>2, <2>1 DEF Inv, Entered, Called, Misused, Opt, Size
  <2>4. BankFollows'
    BY <1>4, <2>1 DEF BankFollows
  <2>5. FileKept' /\ Checked' /\ ReadSoFar' /\ ComparedSoFar' /\ ProtectionCompared' /\ Ended'
    BY <1>1, <1>2, <2>1
    DEF Inv, FileKept, Checked, ReadSoFar, ComparedSoFar, ProtectionCompared, Ended, Opt,
        Misused, AfterRead, AfterCompare
  <2> QED
    BY <2>2, <2>3, <2>4, <2>5 DEF Inv
<1>7. CASE ~(Exit("protected") /\ UNCHANGED program)
  <2> DEFINE value == IF prot[i] = 0 THEN flash[i] ELSE 0
             n == i + 1
  <2>1. /\ i' = n /\ outcome' = "running"
        /\ program' = [b \in DOMAIN program \cup {i} |->
                         IF b = i THEN value ELSE program[b]]
    <3>1. /\ Loop
          /\ program' = [b \in DOMAIN program \cup {i} |->
               IF b = i THEN IF MayRead(i) THEN flash[At(BankFor(i), i)] ELSE 0
                        ELSE program[b]]
      BY <1>7 DEF ReadBlock
    <3>2. MayRead(i) <=> prot[i] = 0
      BY <1>3, <1>4, <1>5, MayReadFacts
    <3> QED
      BY <1>1, <1>4, <3>1, <3>2 DEF Loop
  <2>2. DOMAIN program' = 0 .. n - 1 /\ n \in Nat /\ n <= Blocks
    BY <1>1, <1>3, <1>5, <2>1
  <2>3. value \in Data
    BY <1>3 DEF Inv, TypeOK, ProgAssumption
  <2>4. \A b \in DOMAIN program' : program'[b] = IF prot[b] = 0 THEN flash[b] ELSE 0
    BY <1>5, <2>1
  <2>5. \A b \in DOMAIN program : program[b] \in Data
    BY DEF Inv, TypeOK, Array
  <2>6. program' \in [0 .. n - 1 -> Data]
    <3> HIDE DEF value, n
    <3>1. \A b \in DOMAIN program \cup {i} :
            (IF b = i THEN value ELSE program[b]) \in Data
      BY <2>3, <2>5
    <3>2. DOMAIN program \cup {i} = 0 .. n - 1
      BY <2>1, <2>2
    <3> QED
      BY <2>1, <3>1, <3>2
  <2>7. Array(program', Data) /\ Size(program') = n
    <3> HIDE DEF n
    <3> QED
      BY <2>2, <2>6, ArrayIntro
  <2>8. TypeOK'
    BY <1>1, <1>4, <2>1, <2>2, <2>7 DEF Inv, TypeOK
  <2>9. Entered'
    <3>1. Called(phase)' /\ (~Misused)' /\ phase' # "start"
      BY <1>1, <1>2 DEF Called, Misused, Opt
    <3>2. Size(program)' <= Total
      BY <1>3, <2>2, <2>7 DEF Size
    <3> QED
      BY <3>1, <3>2 DEF Entered
  <2>10. BankFollows'
    <3>1. n % Blocks # 0 => n \div Blocks = i \div Blocks
      BY <1>3, NextBlock
    <3> QED
      BY <1>4, <2>1, <3>1 DEF BankFollows
  <2>11. ReadSoFar'
    BY <1>1, <1>5, <2>1, <2>2, <2>4 DEF ReadSoFar, AfterRead
  <2>12. FileKept' /\ Checked' /\ ComparedSoFar' /\ ProtectionCompared' /\ Ended'
    BY <1>1, <1>2, <2>1
    DEF FileKept, Checked, ComparedSoFar, ProtectionCompared, Ended, Opt,
        AfterRead, AfterCompare
  <2> QED
    BY <2>8, <2>9, <2>10, <2>11, <2>12 DEF Inv
<1> QED
  BY <1>6, <1>7

\* All blocks are read.
LEMMA ReadEndStep ==
  ASSUME ProgAssumption, Inv, ReadEnd
  PROVE  Inv'
<1>1. /\ phase = "read" /\ outcome = "running" /\ i = Blocks /\ Finish
      /\ UNCHANGED <<opts, file, program, security, current_bank, skipped, flash, prot, bank>>
  BY DEF ReadEnd, In, given, host, chip
<1>2. Opt("r") /\ ~Opt("w") /\ ~Misused
  BY <1>1 DEF Inv, Entered, Called, Misused, Opt
<1>3. /\ i' = 0 /\ phase' \in AfterRead /\ phase' \in Phases
      /\ Opt("c") => phase' \notin AfterCompare
      /\ Opt("s") /\ (Opt("w") \/ Opt("e")) => phase' \notin {"dump", "save"}
      /\ Entered' /\ BankFollows' /\ Ended'
  BY <1>1, Entering
<1>4. TypeOK'
  BY <1>1, <1>3 DEF Inv, TypeOK
<1>5. ReadSoFar'
  BY <1>1, <1>2, <1>3 DEF Inv, ReadSoFar, AfterRead
<1>6. FileKept' /\ Checked'
  BY <1>1, <1>2 DEF FileKept, Checked, Opt
<1>7. ComparedSoFar' /\ ProtectionCompared'
  BY <1>1, <1>3, ArrayFacts DEF Inv, TypeOK, ComparedSoFar, ProtectionCompared, Opt
<1> QED
  BY <1>3, <1>4, <1>5, <1>6, <1>7 DEF Inv

\* Comparing a block.
LEMMA CompareBlockStep ==
  ASSUME ProgAssumption, Inv, CompareBlock
  PROVE  Inv'
<1>1. /\ phase = "compare" /\ outcome = "running" /\ i \in DOMAIN program
      /\ phase' = "compare" /\ bank' = BankFor(i)
      /\ UNCHANGED <<opts, file, program, security, current_bank, flash, prot>>
  BY DEF CompareBlock, In, given, Loop, Exit
<1>2. Opt("c") /\ ~Misused /\ Size(program) <= Total
  BY <1>1 DEF Inv, Entered, Called, Misused, Opt
<1>3. /\ i \in 0 .. Total - 1 /\ i \in Nat /\ Blocks \in Nat \ {0} /\ Total \in Nat
      /\ Size(program) \in Nat /\ i < Size(program)
  <2>1. Blocks \in Nat \ {0} /\ Total \in Nat
    BY ChipTypes DEF Inv
  <2>2. Size(program) \in Nat /\ DOMAIN program = 0 .. Size(program) - 1
    BY ArrayFacts DEF Inv, TypeOK
  <2> QED
    BY <1>1, <1>2, <2>1, <2>2
<1>4. /\ bank' = i \div Blocks /\ bank' \in 0 .. Banks - 1
      /\ At(BankFor(i), i) = i
  BY <1>1, <1>3, BankForFacts DEF Inv, TypeOK, BankFollows
<1>5. Entered'
  BY <1>1, <1>2 DEF Entered, Called, Misused, Opt, Size
<1>6. FileKept' /\ Checked' /\ ReadSoFar' /\ ProtectionCompared'
  BY <1>1
  DEF Inv, FileKept, Checked, ReadSoFar, ProtectionCompared, Opt, Misused, AfterRead, AfterWrite
<1>7. CASE i' = i /\ UNCHANGED skipped /\ outcome' \in {"protected", "differs"}
  <2>1. TypeOK' /\ Ended'
    BY <1>1, <1>4, <1>7 DEF Inv, TypeOK, Ended
  <2>2. BankFollows'
    BY <1>4, <1>7 DEF BankFollows
  <2>3. ComparedSoFar'
    BY <1>1, <1>7 DEF Inv, ComparedSoFar, Agrees, AfterCompare, AfterRead, Opt, Size
  <2> QED
    BY <1>5, <1>6, <2>1, <2>2, <2>3 DEF Inv
<1>8. CASE /\ i' = i + 1 /\ outcome' = "running"
           /\ \/ skipped' = skipped \cup {i}
              \/ skipped' = skipped /\ flash[i] = program[i]
  <2>1. TypeOK' /\ Ended'
    BY <1>1, <1>3, <1>4, <1>8 DEF Inv, TypeOK, Ended
  <2>2. BankFollows'
    <3> DEFINE n == i + 1
    <3>1. n % Blocks # 0 => n \div Blocks = i \div Blocks
      BY <1>3, NextBlock
    <3> QED
      BY <1>4, <1>8, <3>1 DEF BankFollows
  <2>3. ComparedSoFar'
    <3>1. \A b \in 0 .. i - 1 : b \in skipped \/ flash[b] = program[b]
      BY <1>1 DEF Inv, ComparedSoFar, Agrees
    <3>2. \A b \in 0 .. (i + 1) - 1 : b \in skipped' \/ flash[b] = program[b]
      BY <1>3, <1>8, <3>1
    <3> DEFINE n == i + 1
    <3>3. n <= Size(program) /\ \A b \in 0 .. n - 1 : b \in skipped' \/ flash[b] = program[b]
      BY <1>3, <3>2
    <3>4. i' = n
      BY <1>8
    <3> HIDE DEF n
    <3> QED
      BY <1>1, <3>3, <3>4 DEF ComparedSoFar, Agrees, AfterCompare, AfterRead, Size
  <2> QED
    BY <1>5, <1>6, <2>1, <2>2, <2>3 DEF Inv
<1>9. \/ i' = i /\ UNCHANGED skipped /\ outcome' \in {"protected", "differs"}
      \/ /\ i' = i + 1 /\ outcome' = "running"
         /\ \/ skipped' = skipped \cup {i}
            \/ skipped' = skipped /\ flash[i] = program[i]
  BY <1>1, <1>4 DEF CompareBlock, Loop, Exit
<1> QED
  BY <1>7, <1>8, <1>9

\* The end of the comparison: with blocks left out, the checksum is looked at.
LEMMA CompareEndStep ==
  ASSUME ProgAssumption, Inv, CompareEnd
  PROVE  Inv'
<1>1. /\ phase = "compare" /\ outcome = "running" /\ i = Size(program)
      /\ bank' \in 0 .. Banks - 1
      /\ UNCHANGED <<opts, file, program, security, current_bank, skipped, flash, prot>>
  BY ChipTypes DEF CompareEnd, In, given, host, Inv, TypeOK
<1>2. Opt("c") /\ ~Misused /\ Size(program) <= Total
  BY <1>1 DEF Inv, Entered, Called, Misused, Opt
<1>3. \A b \in DOMAIN program : Agrees(b)
  BY <1>1, ArrayFacts DEF Inv, TypeOK, ComparedSoFar
<1>4. CASE (skipped = {} \/ checksum_ok) /\ Finish
  <2>1. /\ i' = 0 /\ phase' \in AfterCompare /\ phase' \in Phases
        /\ Opt("s") /\ (Opt("w") \/ Opt("e")) => phase' \notin {"dump", "save"}
        /\ Entered' /\ BankFollows' /\ Ended'
    BY <1>1, <1>4, Entering DEF AfterRead
  <2>2. TypeOK'
    BY <1>1, <2>1 DEF Inv, TypeOK
  <2>3. FileKept' /\ Checked'
    BY <1>1, <2>1 DEF Inv, FileKept, Checked, Opt, AfterWrite, AfterRead
  <2>4. ReadSoFar'
    BY <1>1, <2>1 DEF Inv, ReadSoFar, Opt, Misused, AfterRead, AfterCompare
  <2>5. ComparedSoFar' /\ ProtectionCompared'
    BY <1>1, <1>3, <1>4, <2>1
    DEF ComparedSoFar, ProtectionCompared, Opt, Agrees, checksum_ok, AfterCompare, AfterRead
  <2> QED
    BY <2>1, <2>2, <2>3, <2>4, <2>5 DEF Inv
<1>5. CASE Exit("checksum")
  <2>1. phase' = "compare" /\ i' = i /\ outcome' = "checksum"
    BY <1>1, <1>5 DEF Exit
  <2>2. Entered'
    BY <1>1, <1>2, <2>1 DEF Entered, Called, Misused, Opt, Size
  <2>3. TypeOK' /\ FileKept' /\ Checked' /\ ReadSoFar' /\ ProtectionCompared' /\ Ended'
    BY <1>1, <2>1
    DEF Inv, TypeOK, FileKept, Checked, ReadSoFar, ProtectionCompared, Ended, Opt, Misused,
        AfterWrite, AfterRead
  <2>4. ComparedSoFar'
    BY <1>1, <2>1 DEF Inv, ComparedSoFar, Agrees, AfterCompare, AfterRead, Opt, Size
  <2>5. BankFollows'
    BY <1>5 DEF Exit, BankFollows
  <2> QED
    BY <2>2, <2>3, <2>4, <2>5 DEF Inv
<1> QED
  BY <1>4, <1>5 DEF CompareEnd

\* Protecting the blocks of a bank.
LEMMA ProtectBankStep ==
  ASSUME ProgAssumption, Inv, ProtectBank
  PROVE  Inv'
<1>1. /\ phase = "protect" /\ phase' = "protect" /\ i \in Nat /\ i < Banks
      /\ outcome' \in {"running", "not secured"}
      /\ UNCHANGED <<opts, file, program, security, current_bank, skipped, flash>>
      /\ bank' = SelectBank(i)
      /\ prot' = prot \/ prot' = Secured(SelectBank(i))
  BY DEF ProtectBank, In, Loop, Exit, given, host, Inv, TypeOK
<1>2. Opt("w") /\ ~Opt("r") /\ ~Misused /\ Size(program) <= Total
  BY <1>1 DEF Inv, Entered, Called, Misused, Opt
<1>3. bank' \in 0 .. Banks - 1
  <2>1. \A k \in 0 .. Banks - 1 : SelectBank(k) \in 0 .. Banks - 1
    BY ChipTypes DEF Inv
  <2>2. i \in 0 .. Banks - 1
    <3>1. i \in Nat /\ i < Banks
      BY <1>1
    <3>2. Banks \in Nat
      BY DEF ProgAssumption
    <3> QED
      BY <3>1, <3>2
  <2>3. bank' = SelectBank(i)
    BY <1>1
  <2> QED
    BY <2>1, <2>2, <2>3
<1>4. prot' \in [0 .. Total - 1 -> Modes]
  <2>1. \A b \in DOMAIN security : security[b] \in Modes
    BY DEF Inv, TypeOK, Array
  <2>2. prot \in [0 .. Total - 1 -> Modes]
    BY DEF Inv, TypeOK
  <2>3. ASSUME NEW k \in 0 .. Banks - 1 PROVE Secured(k) \in [0 .. Total - 1 -> Modes]
    <3>1. ASSUME NEW b \in 0 .. Total - 1
          PROVE  (IF b \div Blocks # k THEN prot[b]
                  ELSE IF b \in DOMAIN security THEN security[b] ELSE 2) \in Modes
      BY <2>1, <2>2 DEF Modes
    <3> QED
      BY <2>2, <3>1 DEF Secured
  <2> QED
    BY <1>1, <1>3, <2>2, <2>3
<1>5. TypeOK'
  <2>1. i' \in Nat
    <3> DEFINE n == i + 1
    <3>1. i \in Nat /\ n \in Nat
      BY DEF Inv, TypeOK
    <3>2. Loop => i' = n
      BY DEF Loop
    <3>3. Exit("not secured") => i' = i
      BY DEF Exit
    <3>4. Loop \/ Exit("not secured")
      BY DEF ProtectBank
    <3> HIDE DEF n
    <3> QED
      BY <3>1, <3>2, <3>3, <3>4
  <2>2. i' \in Nat /\ phase' = phase /\ UNCHANGED <<opts, program, security, current_bank, flash>>
    BY <1>1, <2>1
  <2> QED
    BY <1>3, <1>4, <2>2 DEF Inv, TypeOK
<1>6. Entered'
  <2>1. phase' = "protect" /\ opts' = opts /\ program' = program
    BY <1>1
  <2> QED
    BY <1>2, <2>1 DEF Entered, Called, Misused, Opt, Size
<1>7. FileKept' /\ Checked' /\ ReadSoFar' /\ BankFollows' /\ ProtectionCompared' /\ Ended'
  <2>1. /\ phase' = phase /\ phase = "protect" /\ outcome' # "done"
        /\ UNCHANGED <<opts, file, program, flash>>
    BY <1>1
  <2> QED
    BY <1>2, <2>1
    DEF Inv, FileKept, Checked, ReadSoFar, BankFollows, ProtectionCompared, Ended, Opt,
        AfterWrite, AfterRead
<1>8. ComparedSoFar'
  BY <1>1 DEF Inv, ComparedSoFar, Agrees, Opt, AfterCompare, AfterRead
<1> QED
  BY <1>5, <1>6, <1>7, <1>8 DEF Inv

\* What a later operation that changes nothing but the bank keeps.
LEMMA Looking ==
  ASSUME ProgAssumption, Inv, phase \in {"protect", "checksec", "dump"},
         outcome = "running", Finish, bank' \in 0 .. Banks - 1,
         UNCHANGED <<given, host, flash, prot>>,
         phase = "checksec" => \A b \in 0 .. Blocks - 1 : prot[b] = block_protection(b)
  PROVE  Inv'
<1>1. UNCHANGED <<opts, file, program, security, current_bank, skipped, flash, prot>>
  BY DEF given, host
<1>2. /\ i' = 0 /\ phase' \in AfterCompare /\ phase' \in Phases
      /\ phase = "protect" =>
           (Opt("s") /\ (Opt("w") \/ Opt("e")) => phase' \notin {"dump", "save"})
      /\ Entered' /\ BankFollows' /\ Ended'
  BY <1>1, Entering DEF AfterRead
<1>3. TypeOK'
  BY <1>1, <1>2 DEF Inv, TypeOK
<1>4. FileKept' /\ Checked'
  BY <1>1, <1>2 DEF Inv, FileKept, Checked, Opt, AfterWrite, AfterRead, AfterCompare
<1>5. ReadSoFar'
  BY <1>1, <1>2 DEF Inv, ReadSoFar, Opt, Misused, AfterRead, AfterCompare
<1>6. ComparedSoFar'
  BY <1>1, <1>2 DEF Inv, ComparedSoFar, Agrees, Opt, AfterRead, AfterCompare
<1>7. ProtectionCompared'
  BY <1>1, <1>2 DEF Inv, ProtectionCompared, block_protection, Opt
<1> QED
  BY <1>2, <1>3, <1>4, <1>5, <1>6, <1>7 DEF Inv

\* Comparing the protection, which may end the session.
LEMMA CompareSecurityStep ==
  ASSUME ProgAssumption, Inv, ops_compare_security
  PROVE  Inv'
<1>1. /\ phase = "checksec" /\ outcome = "running" /\ bank' \in 0 .. Banks - 1
      /\ UNCHANGED <<given, host, flash, prot>>
  <2>1. 0 \in 0 .. Banks - 1 /\ \A k \in 0 .. Banks - 1 : SelectBank(k) \in 0 .. Banks - 1
    BY ChipTypes DEF Inv
  <2> QED
    BY <2>1 DEF ops_compare_security, In
<1>2. CASE (\A b \in 0 .. Blocks - 1 : prot[b] = block_protection(b)) /\ Finish
  BY <1>1, <1>2, Looking
<1>3. CASE Exit("protection differs")
  <2>1. /\ phase' = "checksec" /\ i' = i /\ outcome' = "protection differs"
        /\ UNCHANGED <<opts, file, program, security, current_bank, skipped, flash, prot>>
    BY <1>1, <1>3 DEF Exit, given, host
  <2>2. Entered'
    BY <1>1, <2>1 DEF Inv, Entered, Called, Misused, Opt, Size
  <2>3. TypeOK' /\ FileKept' /\ Checked' /\ BankFollows' /\ ProtectionCompared' /\ Ended'
    BY <1>1, <2>1
    DEF Inv, TypeOK, FileKept, Checked, BankFollows, ProtectionCompared, Ended, Opt,
        AfterWrite, AfterRead
  <2>4. ReadSoFar'
    BY <1>1, <2>1 DEF Inv, ReadSoFar, Opt, Misused, AfterRead
  <2>5. ComparedSoFar'
    BY <1>1, <2>1 DEF Inv, ComparedSoFar, Agrees, AfterCompare, AfterRead, Opt, Size
  <2> QED
    BY <2>2, <2>3, <2>4, <2>5 DEF Inv
<1> QED
  BY <1>2, <1>3 DEF ops_compare_security

\* The session ends well.
LEMMA SaveStep ==
  ASSUME Inv, Save
  PROVE  Inv'
<1>1. /\ phase = "save" /\ phase' = "save" /\ i' = i /\ outcome' = "done"
      /\ UNCHANGED <<opts, file, program, security, current_bank, skipped, flash, prot, bank>>
  BY DEF Save, In, given, host, chip
<1>2. Entered'
  BY <1>1 DEF Inv, Entered, Called, Misused, Opt, Size
<1>3. TypeOK' /\ FileKept' /\ Checked' /\ BankFollows' /\ Ended'
  BY <1>1 DEF Inv, TypeOK, FileKept, Checked, BankFollows, Ended, Opt
<1>4. ReadSoFar'
  BY <1>1 DEF Inv, ReadSoFar, Opt, Misused
<1>5. ComparedSoFar' /\ ProtectionCompared'
  BY <1>1 DEF Inv, ComparedSoFar, ProtectionCompared, Agrees, block_protection, Opt, Size
<1> QED
  BY <1>2, <1>3, <1>4, <1>5 DEF Inv

-----------------------------------------------------------------------------
(* The theorems *)

\* A session begins with what the files of the command line hold.
LEMMA InitInv ==
  ASSUME ProgAssumption, Init
  PROVE  Inv
<1>1. /\ opts \in Options /\ program = file /\ phase = "start" /\ i = 0
      /\ current_bank = 0 /\ skipped = {} /\ outcome = "running" /\ bank = 0
      /\ flash \in [0 .. Total - 1 -> Data] /\ prot \in [0 .. Total - 1 -> Modes]
  BY DEF Init, ProgAssumption
<1>2. ~ReadsFile => program = Nothing /\ security = Nothing
  BY <1>1 DEF Init
<1>3. Array(Nothing, Data) /\ Array(Nothing, Modes)
  <2>1. Nothing \in [0 .. 0 - 1 -> Data] /\ Nothing \in [0 .. 0 - 1 -> Modes]
    BY DEF Nothing
  <2> QED
    BY <2>1, ArrayIntro
<1>4. Array(program, Data) /\ Array(security, Modes)
  BY <1>1, <1>3 DEF Init, ProgAssumption, Array
<1>5. TypeOK
  BY <1>1, <1>4 DEF TypeOK, ProgAssumption, Phases
<1>6. ReadSoFar
  BY <1>1, <1>2 DEF ReadSoFar, ReadsFile, Misused, Opt, Nothing, AfterRead
<1>7. /\ Entered /\ FileKept /\ Checked /\ BankFollows
      /\ ComparedSoFar /\ ProtectionCompared /\ Ended
  BY <1>1
  DEF Entered, FileKept, Checked, BankFollows, ComparedSoFar, ProtectionCompared, Ended,
      AfterWrite, AfterRead, AfterCompare
<1> QED
  BY <1>5, <1>6, <1>7 DEF Inv

\* Every step keeps the invariant.
LEMMA StepInv ==
  ASSUME ProgAssumption, Inv, [Next]_vars
  PROVE  Inv'
<1>1. CASE Start
  BY <1>1, StartStep
<1>2. CASE ops_erase_all
  BY <1>2, EraseStep
<1>3. CASE WriteBlock
  BY <1>3, WriteBlockStep
<1>4. CASE WriteEnd
  BY <1>4, WriteEndStep
<1>5. CASE ops_read_security
  BY <1>5, ReadSecurityStep
<1>6. CASE ReadBlock
  BY <1>6, ReadBlockStep
<1>7. CASE ReadEnd
  BY <1>7, ReadEndStep
<1>8. CASE ReadFails
  BY <1>8, Leaving DEF ReadFails
<1>9. CASE CompareBlock
  BY <1>9, CompareBlockStep
<1>10. CASE CompareEnd
  BY <1>10, CompareEndStep
<1>11. CASE ProtectBank
  BY <1>11, ProtectBankStep
<1>12. CASE ProtectEnd
  <2>1. /\ phase = "protect" /\ outcome = "running" /\ Finish
        /\ UNCHANGED <<given, host, flash, prot>> /\ bank' \in 0 .. Banks - 1
    BY <1>12 DEF ProtectEnd, In, chip, Inv, TypeOK
  <2> QED
    BY <2>1, Looking
<1>13. CASE ops_compare_security
  BY <1>13, CompareSecurityStep
<1>14. CASE ops_dump_security
  <2>1. /\ phase = "dump" /\ outcome = "running" /\ Finish
        /\ UNCHANGED <<given, host, flash, prot>> /\ bank' \in 0 .. Banks - 1
    BY <1>14, ChipTypes DEF ops_dump_security, In, Inv
  <2> QED
    BY <2>1, Looking
<1>15. CASE Save
  BY <1>15, SaveStep
<1>16. CASE Die
  BY <1>16, Leaving DEF Die
<1>17. CASE UNCHANGED vars
  <2>1. UNCHANGED <<opts, file, program, security, current_bank, skipped, phase, i, outcome,
                    flash, prot, bank>>
    BY <1>17 DEF vars, given, host, chip
  <2>2. TypeOK' /\ Entered' /\ FileKept' /\ Checked' /\ BankFollows' /\ Ended'
    BY <2>1
    DEF Inv, TypeOK, Entered, FileKept, Checked, BankFollows, Ended, Called, Misused, Opt, Size
  <2>3. ReadSoFar' /\ ComparedSoFar' /\ ProtectionCompared'
    BY <2>1
    DEF Inv, ReadSoFar, ComparedSoFar, ProtectionCompared, Agrees, block_protection, Misused,
        Opt, Size
  <2> QED
    BY <2>2, <2>3 DEF Inv
<1> QED
  BY <1>1, <1>2, <1>3, <1>4, <1>5, <1>6, <1>7, <1>8, <1>9, <1>10, <1>11, <1>12, <1>13, <1>14,
     <1>15, <1>16, <1>17, Zenon
  DEF Next, Work

\* Throughout a session each operation finds what those before it have made sure
\* of: the buffers hold the file or what was read, and comparisons, checksums and
\* the bank register mean what the next operation takes them to mean (m8cprog.c,
\* prog_ops.c), whatever the chip does.
THEOREM Invariance ==
  ASSUME ProgAssumption
  PROVE  Spec => []Inv
<1>1. Init => Inv
  BY InitInv
<1>2. Inv /\ [Next]_vars => Inv'
  BY StepInv
<1> QED
  BY <1>1, <1>2, PTL DEF Spec

\* The protection of a block is only ever made stronger by ops_write_security, and
\* it is reached with the file's checksum in the Flash.
THEOREM ProtectsChecked ==
  ASSUME ProgAssumption
  PROVE  Spec => ProtectsOnlyChecked
<1>1. Spec => []Inv
  BY Invariance
<1>2. ASSUME Inv, [Next]_vars
      PROVE  [(\E b \in DOMAIN prot : prot'[b] > prot[b]) => Sum(flash) = Sum(file)]_vars
  <2> SUFFICES ASSUME NEW b \in DOMAIN prot, prot'[b] > prot[b]
               PROVE  Sum(flash) = Sum(file)
    OBVIOUS
  <2>1. prot[b] \in Modes /\ prot' # prot
    <3>1. prot[b] \in Modes
      BY <1>2 DEF Inv, TypeOK
    <3> QED
      BY <3>1 DEF Modes
  <2>2. ~ops_erase_all
    BY <2>1 DEF ops_erase_all, Erase, chip, Modes
  <2>3. ProtectBank
    BY <1>2, <2>1, <2>2
    DEF Next, Work, Start, WriteBlock, ProgramBlock, WriteEnd, ops_read_security, ReadBlock,
        ReadEnd, ReadFails, CompareBlock, CompareEnd, ProtectEnd, ops_compare_security,
        ops_dump_security, Save, Die, chip, vars
  <2>4. phase = "protect"
    BY <2>3 DEF ProtectBank, In
  <2>5. Opt("w")
    BY <1>2, <2>4 DEF Inv, Entered, Called
  <2> QED
    BY <1>2, <2>4, <2>5 DEF Inv, FileKept, Checked, AfterWrite, AfterRead
<1> QED
  BY <1>1, <1>2, PTL DEF Spec, ProtectsOnlyChecked

\* What the invariant says of a session that has ended well.
LEMMA AtTheEnd ==
  ASSUME ProgAssumption, Inv
  PROVE  /\ ComparedIsTrue /\ WrittenIsChecked /\ ReadIsTrue
         /\ Banks = 1 => ProtectionIsChecked
<1> SUFFICES ASSUME outcome = "done"
             PROVE  /\ ComparedIsTrue /\ WrittenIsChecked /\ ReadIsTrue
                    /\ Banks = 1 => ProtectionIsChecked
  BY DEF ComparedIsTrue, WrittenIsChecked, ReadIsTrue, ProtectionIsChecked
<1>1. phase = "save" /\ ~Misused
  BY DEF Inv, Ended, Entered
<1>2. ComparedIsTrue
  BY <1>1 DEF Inv, ComparedSoFar, Agrees, AfterCompare, AfterRead, ComparedIsTrue
<1>3. WrittenIsChecked
  BY <1>1 DEF Inv, Checked, FileKept, AfterWrite, AfterRead, WrittenIsChecked
<1>4. ReadIsTrue
  BY <1>1 DEF Inv, ReadSoFar, AfterRead, ReadIsTrue
<1>5. ASSUME Banks = 1 PROVE ProtectionIsChecked
  <2>1. Total = Blocks
    BY <1>5 DEF Total, ProgAssumption
  <2> QED
    BY <1>1, <2>1 DEF Inv, ProtectionCompared, ProtectionIsChecked
<1> QED
  BY <1>2, <1>3, <1>4, <1>5

\* On a chip with any number of banks that does anything wrong, the message of a
\* successful write, comparison or read is true of the chip.
THEOREM DoneIsTrue ==
  ASSUME ProgAssumption
  PROVE  Spec => [](ComparedIsTrue /\ WrittenIsChecked /\ ReadIsTrue)
<1>1. Spec => []Inv
  BY Invariance
<1>2. Inv => ComparedIsTrue /\ WrittenIsChecked /\ ReadIsTrue
  BY AtTheEnd
<1> QED
  BY <1>1, <1>2, PTL

\* With one bank that includes the protection: ops_compare_security looks at
\* blocks/4 bytes, which is then all of it (prog_ops.c:329-364).
THEOREM OneBankSuccess ==
  ASSUME ProgAssumption, Banks = 1
  PROVE  Spec => []SuccessIsTrue
<1>1. Spec => []Inv
  BY Invariance
<1>2. Inv => SuccessIsTrue
  BY AtTheEnd DEF SuccessIsTrue
<1> QED
  BY <1>1, <1>2, PTL

-----------------------------------------------------------------------------
(* Sums *)

\* Induction, for a property given as a set.
LEMMA Induction ==
  ASSUME NEW S, 0 \in S, \A n \in Nat : n \in S => n + 1 \in S
  PROVE  \A n \in Nat : n \in S
<1> DEFINE T == Nat \ S
<1> SUFFICES ASSUME T # {} PROVE FALSE
  OBVIOUS
<1>1. T \subseteq Nat
  OBVIOUS
<1>2. PICK m \in T : \A y \in T : ~(<<y, m>> \in OpToRel(<, Nat))
  BY <1>1, NatLessThanWellFounded, WFMin, Zenon
<1>3. m \in Nat /\ m \notin S /\ m # 0
  OBVIOUS
<1> DEFINE l == m - 1
<1>4. l \in Nat /\ l < m /\ m = l + 1
  BY <1>3
<1> HIDE DEF l
<1>5. <<l, m>> \in OpToRel(<, Nat)
  BY <1>3, <1>4 DEF OpToRel
<1>6. l \in S
  BY <1>2, <1>4, <1>5
<1> QED
  BY <1>3, <1>4, <1>6

\* The sums of the first blocks of a buffer.
UpTo(n, g) ==
  CHOOSE f : f = [m \in 0 .. n |-> IF m = 0 THEN 0 ELSE (f[m - 1] + g[m - 1]) % Wrap]

Sums == 0 .. Wrap - 1

\* A sum is one after it wrapped, and does not wrap when nothing is added.
LEMMA SumFacts ==
  ASSUME Wrap \in Nat \ {0}
  PROVE  /\ \A a \in Sums, b \in Nat : (a + b) % Wrap \in Sums
         /\ \A a \in Sums : (a + 0) % Wrap = a
         /\ 0 \in Sums
<1>1. \A a \in Nat : a % Wrap \in Sums
  BY DivMod DEF Sums
<1>2. ASSUME NEW a \in Sums PROVE a % Wrap = a
  BY FirstBank DEF Sums
<1> QED
  BY <1>1, <1>2 DEF Sums

\* They begin with 0 and grow by one block at a time.
LEMMA UpToFacts ==
  ASSUME Wrap \in Nat \ {0}, NEW n \in Nat, NEW g, \A b \in 0 .. n - 1 : g[b] \in Nat
  PROVE  /\ UpTo(n, g)[0] = 0
         /\ \A m \in 0 .. n : UpTo(n, g)[m] \in Sums
         /\ \A m \in 1 .. n : UpTo(n, g)[m] = (UpTo(n, g)[m - 1] + g[m - 1]) % Wrap
<1> DEFINE Adds(f, k) ==
             /\ f \in [0 .. k -> Sums] /\ f[0] = 0
             /\ \A m \in 1 .. k : f[m] = (f[m - 1] + g[m - 1]) % Wrap
           S == {k \in Nat : k <= n => \E f : Adds(f, k)}
<1>1. 0 \in S
  <2> DEFINE f == [m \in 0 .. 0 |-> 0]
  <2>1. Adds(f, 0)
    BY SumFacts
  <2> QED
    BY <2>1
<1>2. ASSUME NEW k \in Nat, k \in S
      PROVE  k + 1 \in S
  <2> SUFFICES ASSUME k + 1 <= n PROVE \E f : Adds(f, k + 1)
    OBVIOUS
  <2>1. k <= n /\ k \in 0 .. n - 1
    OBVIOUS
  <2>2. PICK f : Adds(f, k)
    BY <1>2, <2>1
  <2> DEFINE h == [m \in 0 .. k + 1 |-> IF m = k + 1 THEN (f[k] + g[k]) % Wrap ELSE f[m]]
  <2>3. (f[k] + g[k]) % Wrap \in Sums
    <3>1. f[k] \in Sums /\ g[k] \in Nat
      BY <2>1, <2>2
    <3> QED
      BY <3>1, SumFacts
  <2>4. h \in [0 .. k + 1 -> Sums] /\ h[0] = 0
    BY <2>2, <2>3
  <2>5. ASSUME NEW m \in 1 .. k + 1 PROVE h[m] = (h[m - 1] + g[m - 1]) % Wrap
    <3>1. CASE m = k + 1
      BY <3>1
    <3>2. CASE m # k + 1
      <4>1. m \in 1 .. k /\ m - 1 \in 0 .. k + 1 /\ m - 1 # k + 1 /\ m \in 0 .. k + 1
        BY <3>2
      <4>2. h[m] = f[m] /\ h[m - 1] = f[m - 1]
        BY <3>2, <4>1
      <4> QED
        BY <2>2, <4>1, <4>2
    <3> QED
      BY <3>1, <3>2
  <2> QED
    BY <2>4, <2>5
<1> HIDE DEF S
<1>3. n \in S
  BY <1>1, <1>2, Induction
<1>4. PICK f : Adds(f, n)
  BY <1>3 DEF S
<1> DEFINE Is(h) == h = [m \in 0 .. n |-> IF m = 0 THEN 0 ELSE (h[m - 1] + g[m - 1]) % Wrap]
<1>5. Is(f)
  <2> DEFINE r == [m \in 0 .. n |-> IF m = 0 THEN 0 ELSE (f[m - 1] + g[m - 1]) % Wrap]
  <2>1. \A m \in 0 .. n : f[m] = r[m]
    BY <1>4
  <2>2. DOMAIN f = DOMAIN r
    BY <1>4
  <2> QED
    BY <1>4, <2>1, <2>2
<1> DEFINE u == UpTo(n, g)
<1>6. Is(u)
  BY <1>5 DEF UpTo
<1> HIDE DEF u
<1>7. u[0] = 0 /\ \A m \in 1 .. n : u[m] = (u[m - 1] + g[m - 1]) % Wrap
  BY <1>6
<1> DEFINE V == {k \in Nat : k <= n => u[k] \in Sums}
<1>8. 0 \in V
  BY <1>7, SumFacts
<1>9. ASSUME NEW k \in Nat, k \in V PROVE k + 1 \in V
  <2> SUFFICES ASSUME k + 1 <= n PROVE u[k + 1] \in Sums
    OBVIOUS
  <2>1. k + 1 \in 1 .. n /\ k \in 0 .. n - 1 /\ (k + 1) - 1 = k
    OBVIOUS
  <2>2. u[k] \in Sums /\ g[k] \in Nat
    BY <1>9, <2>1
  <2>3. u[k + 1] = (u[k] + g[k]) % Wrap
    BY <1>7, <2>1
  <2> QED
    BY <2>2, <2>3, SumFacts
<1> HIDE DEF V
<1>10. \A k \in Nat : k \in V
  BY <1>8, <1>9, Induction
<1>11. \A m \in 0 .. n : u[m] \in Sums
  BY <1>10 DEF V
<1> QED
  BY <1>7, <1>11 DEF u

\* Blocks of zeros behind a buffer do not change its checksum.
LEMMA PaddedSum ==
  ASSUME Wrap \in Nat \ {0}, NEW n \in Nat, NEW p \in [0 .. n - 1 -> Nat], Size(p) = n,
         NEW t \in Nat, n <= t, NEW q \in [0 .. t - 1 -> Nat], Size(q) = t,
         \A b \in 0 .. t - 1 : q[b] = IF b < n THEN p[b] ELSE 0
  PROVE  Sum(q) = Sum(p)
<1> DEFINE up == UpTo(n, p)
           uq == UpTo(t, q)
           Below(m) == IF m <= n THEN m ELSE n
           S == {m \in Nat : m <= t => uq[m] = up[Below(m)]}
<1>1. Sum(p) = up[n] /\ Sum(q) = uq[t]
  BY DEF Sum, UpTo
<1>2. /\ up[0] = 0 /\ \A m \in 0 .. n : up[m] \in Sums
      /\ \A m \in 1 .. n : up[m] = (up[m - 1] + p[m - 1]) % Wrap
  BY UpToFacts
<1>3. uq[0] = 0 /\ \A m \in 1 .. t : uq[m] = (uq[m - 1] + q[m - 1]) % Wrap
  BY UpToFacts
<1> HIDE DEF up, uq
<1>4. 0 \in S
  BY <1>2, <1>3
<1>5. ASSUME NEW k \in Nat, k \in S PROVE k + 1 \in S
  <2> SUFFICES ASSUME k + 1 <= t PROVE uq[k + 1] = up[Below(k + 1)]
    OBVIOUS
  <2>1. k + 1 \in 1 .. t /\ k \in 0 .. t - 1 /\ (k + 1) - 1 = k
    OBVIOUS
  <2>2. uq[k + 1] = (up[Below(k)] + (IF k < n THEN p[k] ELSE 0)) % Wrap
    BY <1>3, <1>5, <2>1
  <2>3. CASE k < n
    <3>1. k + 1 \in 1 .. n /\ Below(k) = k /\ Below(k + 1) = k + 1
      BY <2>3
    <3>2. up[k + 1] = (up[k] + p[k]) % Wrap
      BY <1>2, <2>1, <3>1
    <3> QED
      BY <2>2, <2>3, <3>1, <3>2
  <2>4. CASE ~(k < n)
    <3>1. Below(k) = n /\ Below(k + 1) = n /\ up[n] \in Sums
      BY <1>2, <2>4
    <3>2. (up[n] + 0) % Wrap = up[n]
      BY <3>1, SumFacts
    <3>3. uq[k + 1] = (up[n] + 0) % Wrap
      BY <2>2, <2>4, <3>1
    <3> QED
      BY <3>1, <3>2, <3>3
  <2> QED
    BY <2>3, <2>4
<1> HIDE DEF S
<1>6. t \in S
  BY <1>4, <1>5, Induction
<1>7. uq[t] = up[Below(t)] /\ Below(t) = n
  BY <1>6 DEF S
<1> QED
  BY <1>1, <1>7

-----------------------------------------------------------------------------
(* Writing a chip that does nothing wrong *)

\* What belongs into block b.
Inside(b) == IF b \in DOMAIN program THEN program[b] ELSE 0

\* The protection of the file is kept, padded if there is any.
SecurityKept ==
  phase # "start" =>
    supplied = security /\ (AllZero \/ DOMAIN security = 0 .. Total - 1)

\* ops_write_program knows the bank register.
BankKnown ==
  outcome = "running" /\ phase \in {"start", "erase", "write"} => current_bank = bank

WrittenSoFar ==
  /\ phase = "write" =>
       /\ i <= Size(program)
       /\ \A b \in 0 .. Total - 1 : flash[b] = IF b < i THEN Inside(b) ELSE 0
  /\ phase \in AfterRead => \A b \in 0 .. Total - 1 : flash[b] = Inside(b)

ProtectedSoFar ==
  /\ phase \in {"write", "compare"} => \A b \in 0 .. Total - 1 : prot[b] = 0
  /\ phase = "protect" =>
       /\ i <= Banks
       /\ \A b \in 0 .. Total - 1 :
            prot[b] = IF b \div Blocks < i THEN block_protection(b) ELSE 0
  /\ phase \in {"checksec", "dump", "save"} =>
       \A b \in 0 .. Total - 1 : prot[b] = block_protection(b)

Alarms == {"checksum", "differs", "not secured", "protection differs"}

Writing ==
  /\ SecurityKept /\ BankKnown /\ WrittenSoFar /\ ProtectedSoFar
  /\ outcome \notin Alarms

HealthyInv == Opt("w") => Writing

\* The checksums of the chip and of the file agree when the program is written.
LEMMA SameSum ==
  ASSUME ProgAssumption, TypeOK, Size(program) <= Total,
         \A b \in 0 .. Total - 1 : flash[b] = Inside(b)
  PROVE  checksum_ok
<1> DEFINE n == Size(program)
<1>1. Total \in Nat /\ Data \subseteq Nat /\ Wrap \in Nat \ {0}
  BY ChipTypes DEF ProgAssumption
<1>2. n \in Nat /\ DOMAIN program = 0 .. n - 1 /\ program \in [0 .. n - 1 -> Data]
  BY ArrayFacts DEF TypeOK, Array
<1>3. flash \in [0 .. Total - 1 -> Data]
  BY DEF TypeOK
<1>4. Size(flash) = Total
  BY <1>1, <1>3, ArrayIntro
<1>5. Size(program) = n
  OBVIOUS
<1> HIDE DEF n
<1>6. program \in [0 .. n - 1 -> Nat] /\ flash \in [0 .. Total - 1 -> Nat]
  BY <1>1, <1>2, <1>3
<1>7. n <= Total
  BY <1>5
<1>8. \A b \in 0 .. Total - 1 : flash[b] = IF b < n THEN program[b] ELSE 0
  BY <1>1, <1>2 DEF Inside
<1>9. Sum(flash) = Sum(program)
  BY <1>1, <1>2, <1>4, <1>5, <1>6, <1>7, <1>8, PaddedSum
<1> QED
  BY <1>9 DEF checksum_ok

\* A session that writes does not read into the buffers.
LEMMA WritePhases ==
  ASSUME ProgAssumption, Inv, Opt("w"), phase # "start"
  PROVE  /\ phase \in {"erase", "write"} \cup AfterRead
         /\ ~Opt("r") /\ ~Misused /\ Size(program) <= Total
BY DEF Inv, TypeOK, Entered, Called, Phases, AfterRead, Misused, Opt

\* Neither an end of the session without an alarm nor a step of another kind of
\* session changes what is known.
LEMMA WritingStays ==
  ASSUME Writing, UNCHANGED <<supplied, program, security, phase, i, flash, prot>>,
         outcome' \notin Alarms,
         outcome' # "running" \/ UNCHANGED <<current_bank, bank>>,
         outcome' = outcome \/ outcome' # "running"
  PROVE  Writing'
<1>1. SecurityKept' /\ BankKnown'
  BY DEF Writing, SecurityKept, BankKnown, AllZero
<1>2. WrittenSoFar'
  BY DEF Writing, WrittenSoFar, Inside, Size
<1>3. ProtectedSoFar'
  BY DEF Writing, ProtectedSoFar, block_protection
<1>4. (outcome \notin Alarms)'
  BY DEF Alarms
<1> QED
  BY <1>1, <1>2, <1>3, <1>4 DEF Writing

\* Before the Flash is touched, the protection data is padded.
LEMMA WritingStart ==
  ASSUME ProgAssumption, Inv, Opt("w"), Writing, Start
  PROVE  Writing'
<1>1. /\ phase = "start" /\ outcome = "running"
      /\ UNCHANGED <<program, current_bank, bank, flash, prot>>
  BY DEF Start, In, chip
<1>2. CASE Exit("refused")
  <2>1. phase' = "start" /\ outcome' = "refused"
    BY <1>1, <1>2 DEF Exit
  <2> QED
    BY <2>1
    DEF Writing, SecurityKept, BankKnown, WrittenSoFar, ProtectedSoFar, Alarms, AfterRead
<1>3. CASE ~Exit("refused")
  <2>1. /\ phase' = Behind(0) /\ outcome' = "running"
        /\ security' = check_security(security) /\ supplied' = security'
    BY <1>1, <1>3 DEF Start
  <2>2. phase' = "erase"
    BY <2>1, Moves
  <2>3. SecurityKept'
    <3>1. CASE \A b \in DOMAIN security : security[b] = 0
      <4>1. security' = security
        BY <2>1, <3>1 DEF check_security
      <4> QED
        BY <2>1, <3>1, <4>1 DEF SecurityKept, AllZero
    <3>2. CASE ~(\A b \in DOMAIN security : security[b] = 0)
      <4>1. DOMAIN security' = 0 .. Total - 1
        BY <2>1, <3>2 DEF check_security
      <4> QED
        BY <2>1, <4>1 DEF SecurityKept
    <3> QED
      BY <3>1, <3>2
  <2>4. BankKnown'
    BY <1>1, <2>1, <2>2 DEF Writing, BankKnown
  <2> QED
    BY <2>1, <2>2, <2>3, <2>4 DEF Writing, WrittenSoFar, ProtectedSoFar, Alarms, AfterRead
<1> QED
  BY <1>2, <1>3

\* Erasing leaves a Flash of zeros without protection.
LEMMA WritingErase ==
  ASSUME ProgAssumption, Faults = {}, Inv, Opt("w"), Writing, ops_erase_all
  PROVE  Writing'
<1>1. /\ phase = "erase" /\ outcome = "running" /\ Finish
      /\ UNCHANGED <<opts, supplied, program, security, current_bank, bank>>
      /\ flash' = [b \in DOMAIN flash |-> 0] /\ prot' = [b \in DOMAIN prot |-> 0]
  BY DEF ops_erase_all, In, Erase, Fault, given, host, chip
<1>2. i' = 0 /\ phase' = "write" /\ outcome' = "running"
  <2>1. phase' \in {"erase", "write"} /\ phase' # "erase" /\ i' = 0
    BY <1>1, Entering
  <2> QED
    BY <1>1, <2>1 DEF Finish
<1>3. DOMAIN flash = 0 .. Total - 1 /\ DOMAIN prot = 0 .. Total - 1
  BY DEF Inv, TypeOK
<1>4. SecurityKept' /\ BankKnown'
  BY <1>1, <1>2 DEF Writing, SecurityKept, BankKnown, AllZero
<1>5. WrittenSoFar'
  <2>1. 0 <= Size(program) /\ Size(program)' = Size(program)
    BY <1>1, ArrayFacts DEF Inv, TypeOK, Size
  <2>2. \A b \in 0 .. Total - 1 : flash'[b] = 0 /\ ~(b < 0)
    BY <1>1, <1>3
  <2> QED
    BY <1>2, <2>1, <2>2 DEF WrittenSoFar, AfterRead
<1>6. ProtectedSoFar'
  BY <1>1, <1>2, <1>3 DEF ProtectedSoFar
<1> QED
  BY <1>2, <1>4, <1>5, <1>6 DEF Writing, Alarms

\* A block of the program goes where it belongs.
LEMMA WritingBlock ==
  ASSUME ProgAssumption, Faults = {}, Inv, Opt("w"), Writing, WriteBlock
  PROVE  Writing'
<1>1. /\ phase = "write" /\ phase' = "write" /\ i' = i + 1 /\ outcome' = outcome
      /\ outcome = "running" /\ i \in DOMAIN program
      /\ UNCHANGED <<supplied, program, security>>
  BY DEF WriteBlock, In, Loop, given
<1>2. Size(program) <= Total
  BY <1>1, WritePhases
<1>3. /\ i \in 0 .. Total - 1 /\ Total \in Nat /\ Banks \in Nat \ {0} /\ Blocks \in Nat \ {0}
      /\ Size(program) \in Nat /\ i < Size(program)
  <2>1. Size(program) \in Nat /\ DOMAIN program = 0 .. Size(program) - 1
    BY ArrayFacts DEF Inv, TypeOK
  <2>2. i \in DOMAIN program
    BY <1>1
  <2>3. Total \in Nat /\ Banks \in Nat \ {0} /\ Blocks \in Nat \ {0}
    BY ChipTypes DEF Inv
  <2> QED
    BY <1>2, <2>1, <2>2, <2>3
<1> DEFINE wanted == i \div Blocks
           k == IF Banks > 1 /\ wanted # current_bank THEN wanted ELSE bank
<1>4. k = wanted /\ At(k, i) = i
  <2>1. wanted \in 0 .. Banks - 1 /\ wanted * Blocks + (i % Blocks) = i
    <3>1. wanted \in 0 .. Banks - 1
      BY <1>3, InBank DEF Total
    <3>2. i = wanted * Blocks + (i % Blocks)
      BY <1>3, DivMod
    <3> HIDE DEF wanted
    <3> QED
      BY <3>1, <3>2
  <2>2. bank = current_bank /\ bank \in 0 .. Banks - 1
    BY <1>1 DEF Writing, BankKnown, Inv, TypeOK
  <2>3. k = wanted
    <3> HIDE DEF wanted
    <3> QED
      BY <1>3, <2>1, <2>2
  <2> QED
    BY <2>1, <2>3 DEF At
<1>5. /\ prot' = prot
      /\ current_bank' = bank'
      /\ flash' = [flash EXCEPT ![i] = program[i]]
  <2>1. flash \in [0 .. Total - 1 -> Data] /\ flash[i] = 0 /\ prot[i] = 0
        /\ bank = current_bank /\ bank \in 0 .. Banks - 1
    BY <1>1, <1>3 DEF Writing, BankKnown, WrittenSoFar, ProtectedSoFar, Inv, TypeOK
  <2>2. CASE program[i] = 0
    <3>1. UNCHANGED <<current_bank, flash, prot, bank>>
      BY <2>2 DEF WriteBlock, chip
    <3> QED
      BY <1>3, <2>1, <2>2, <3>1
  <2>3. CASE program[i] # 0
    <3>1. ProgramBlock(k, i, program[i])
          /\ current_bank' = IF Banks > 1 THEN wanted ELSE current_bank
      BY <2>3 DEF WriteBlock
    <3>2. bank' = k /\ prot' = prot
      BY <3>1 DEF ProgramBlock
    <3>3. flash' = [flash EXCEPT ![i] = program[i]]
      <4> HIDE DEF k
      <4> QED
        BY <1>4, <2>1, <3>1 DEF ProgramBlock, Fault
    <3>4. current_bank' = bank'
      <4>1. wanted \in 0 .. Banks - 1
        BY <1>3, InBank DEF Total
      <4> HIDE DEF k, wanted
      <4> QED
        BY <1>3, <1>4, <2>1, <3>1, <3>2, <4>1
    <3> QED
      BY <3>2, <3>3, <3>4
  <2> QED
    BY <2>2, <2>3
<1> HIDE DEF k, wanted
<1>6. SecurityKept' /\ BankKnown'
  BY <1>1, <1>5 DEF Writing, SecurityKept, BankKnown, AllZero
<1>7. WrittenSoFar'
  <2> DEFINE n == i + 1
  <2>1. n \in Nat /\ n <= Size(program) /\ i' = n /\ \A b \in Nat : b < n <=> b < i \/ b = i
    BY <1>1, <1>3
  <2>2. \A b \in 0 .. Total - 1 : flash[b] = IF b < i THEN Inside(b) ELSE 0
    BY <1>1 DEF Writing, WrittenSoFar
  <2>3. Inside(i) = program[i] /\ DOMAIN flash = 0 .. Total - 1
    BY <1>1 DEF Inside, Inv, TypeOK
  <2> HIDE DEF n
  <2>4. ASSUME NEW b \in 0 .. Total - 1 PROVE flash'[b] = IF b < n THEN Inside(b) ELSE 0
    <3>1. CASE b = i
      <4>1. flash'[b] = program[i]
        BY <1>3, <1>5, <2>3, <3>1
      <4> QED
        BY <1>3, <2>1, <2>3, <3>1, <4>1
    <3>2. CASE b # i
      <4>1. flash'[b] = flash[b]
        BY <1>5, <2>3, <3>2
      <4>2. b < n <=> b < i
        BY <1>3, <2>1, <3>2
      <4> QED
        BY <2>2, <4>1, <4>2
    <3> QED
      BY <3>1, <3>2
  <2>5. \A b \in 0 .. Total - 1 : Inside(b)' = Inside(b)
    BY <1>1 DEF Inside
  <2> QED
    BY <1>1, <2>1, <2>4, <2>5 DEF WrittenSoFar, AfterRead, Size
<1>8. ProtectedSoFar'
  BY <1>1, <1>5 DEF Writing, ProtectedSoFar
<1> QED
  BY <1>1, <1>6, <1>7, <1>8 DEF Writing, Alarms

\* The checksum after writing agrees.
LEMMA WritingEnd ==
  ASSUME ProgAssumption, Inv, Opt("w"), Writing, WriteEnd
  PROVE  Writing'
<1>1. /\ phase = "write" /\ outcome = "running" /\ i = Size(program)
      /\ UNCHANGED <<opts, supplied, program, security, flash, prot>>
  BY DEF WriteEnd, In, given, host
<1>2. \A b \in 0 .. Total - 1 : flash[b] = Inside(b)
  <2>1. Size(program) \in Nat /\ DOMAIN program = 0 .. Size(program) - 1
    BY ArrayFacts DEF Inv, TypeOK
  <2>2. \A b \in 0 .. Total - 1 : flash[b] = IF b < Size(program) THEN Inside(b) ELSE 0
    BY <1>1 DEF Writing, WrittenSoFar
  <2>3. Total \in Nat
    BY ChipTypes DEF Inv
  <2> QED
    BY <2>1, <2>2, <2>3 DEF Inside
<1>3. checksum_ok
  BY <1>1, <1>2, WritePhases, SameSum DEF Inv
<1>4. Finish
  BY <1>3 DEF WriteEnd
<1>5. i' = 0 /\ phase' \in {"compare", "protect"} /\ outcome' = "running"
  <2>1. /\ i' = 0 /\ phase' \in Phases \ {"start"} /\ Called(phase')
        /\ phase' \notin {"erase", "write", "checksec", "dump", "save"}
    BY <1>1, <1>4, Entering
  <2>2. phase' \notin {"readsec", "read"}
    BY <1>1, <2>1, WritePhases DEF Called
  <2> QED
    BY <1>1, <1>4, <2>1, <2>2 DEF Finish, Phases
<1>6. SecurityKept' /\ BankKnown'
  BY <1>1, <1>5 DEF Writing, SecurityKept, BankKnown, AllZero
<1>7. WrittenSoFar'
  BY <1>1, <1>2, <1>5 DEF WrittenSoFar, Inside, AfterRead
<1>8. ProtectedSoFar'
  <2>1. \A b \in 0 .. Total - 1 : prot'[b] = 0
    BY <1>1 DEF Writing, ProtectedSoFar
  <2>2. 0 <= Banks
    BY DEF ProgAssumption
  <2>3. ASSUME NEW b \in 0 .. Total - 1 PROVE ~(b \div Blocks < 0)
    <3> DEFINE q == b \div Blocks
    <3>1. Blocks \in Nat \ {0} /\ b \in Nat
      BY ChipTypes DEF Inv
    <3>2. q \in Nat
      BY <3>1, DivMod
    <3> HIDE DEF q
    <3>3. ~(q < 0)
      BY <3>2
    <3> QED
      BY <3>3 DEF q
  <2> QED
    BY <1>5, <2>1, <2>2, <2>3 DEF ProtectedSoFar
<1> QED
  BY <1>5, <1>6, <1>7, <1>8 DEF Writing, Alarms

\* No block differs.
LEMMA WritingCompare ==
  ASSUME ProgAssumption, Inv, Opt("w"), Writing, CompareBlock
  PROVE  Writing'
<1>1. /\ phase = "compare" /\ phase' = "compare" /\ outcome = "running" /\ i \in DOMAIN program
      /\ UNCHANGED <<supplied, program, security, flash, prot>>
  BY DEF CompareBlock, In, given, Loop, Exit
<1>2. flash[At(BankFor(i), i)] = program[i]
  <2>1. Size(program) \in Nat /\ DOMAIN program = 0 .. Size(program) - 1
    BY ArrayFacts DEF Inv, TypeOK
  <2>2. Size(program) <= Total /\ Total \in Nat
    BY <1>1, WritePhases, ChipTypes DEF Inv
  <2>3. i \in 0 .. Total - 1
    BY <1>1, <2>1, <2>2
  <2>4. At(BankFor(i), i) = i
    BY <1>1, <2>3, BankForFacts DEF Inv, TypeOK, BankFollows
  <2> QED
    BY <1>1, <2>3, <2>4 DEF Writing, WrittenSoFar, Inside, AfterRead
<1>3. outcome' \in {"running", "protected"}
  BY <1>1, <1>2 DEF CompareBlock, Loop, Exit
<1>4. SecurityKept' /\ BankKnown'
  BY <1>1 DEF Writing, SecurityKept, BankKnown, AllZero
<1>5. WrittenSoFar' /\ ProtectedSoFar'
  BY <1>1 DEF Writing, WrittenSoFar, ProtectedSoFar, Inside, AfterRead
<1> QED
  BY <1>3, <1>4, <1>5 DEF Writing, Alarms

\* The checksum after a comparison agrees.
LEMMA WritingCompareEnd ==
  ASSUME ProgAssumption, Inv, Opt("w"), Writing, CompareEnd
  PROVE  Writing'
<1>1. /\ phase = "compare" /\ outcome = "running"
      /\ UNCHANGED <<opts, supplied, program, security, flash, prot>>
  BY DEF CompareEnd, In, given, host
<1>2. \A b \in 0 .. Total - 1 : flash[b] = Inside(b) /\ prot[b] = 0
  BY <1>1 DEF Writing, WrittenSoFar, ProtectedSoFar, AfterRead
<1>3. Finish
  <2>1. checksum_ok
    BY <1>1, <1>2, WritePhases, SameSum DEF Inv
  <2> QED
    BY <2>1 DEF CompareEnd
<1>4. i' = 0 /\ phase' = "protect" /\ outcome' = "running"
  <2>1. /\ i' = 0 /\ phase' \in AfterCompare
        /\ phase' \notin {"checksec", "dump", "save"}
    BY <1>1, <1>3, Entering DEF AfterRead
  <2> QED
    BY <1>1, <1>3, <2>1 DEF Finish, AfterCompare, AfterRead
<1>5. SecurityKept' /\ BankKnown'
  BY <1>1, <1>4 DEF Writing, SecurityKept, BankKnown, AllZero
<1>6. WrittenSoFar'
  BY <1>1, <1>2, <1>4 DEF WrittenSoFar, Inside, AfterRead
<1>7. ProtectedSoFar'
  <2>1. 0 <= Banks
    BY DEF ProgAssumption
  <2>2. ASSUME NEW b \in 0 .. Total - 1 PROVE ~(b \div Blocks < 0)
    <3> DEFINE q == b \div Blocks
    <3>1. Blocks \in Nat \ {0} /\ b \in Nat
      BY ChipTypes DEF Inv
    <3>2. q \in Nat
      BY <3>1, DivMod
    <3> HIDE DEF q
    <3>3. ~(q < 0)
      BY <3>2
    <3> QED
      BY <3>3 DEF q
  <2> QED
    BY <1>1, <1>2, <1>4, <2>1, <2>2 DEF ProtectedSoFar
<1> QED
  BY <1>4, <1>5, <1>6, <1>7 DEF Writing, Alarms

\* A bank gets the protection meant for it, and no other bank any.
LEMMA WritingProtect ==
  ASSUME ProgAssumption, Faults = {}, Inv, Opt("w"), Writing, ProtectBank
  PROVE  Writing'
<1>1. /\ phase = "protect" /\ phase' = "protect" /\ outcome' = "running"
      /\ i \in Nat /\ i < Banks /\ i' = i + 1 /\ ~AllZero
      /\ prot' = Secured(SelectBank(i))
      /\ UNCHANGED <<supplied, program, security, flash>>
  BY DEF ProtectBank, In, Loop, Fault, given, host, Inv, TypeOK
<1>2. SelectBank(i) = i
  <2>1. Banks \in Nat \ {0} /\ bank \in 0 .. Banks - 1 /\ i \in Nat /\ i < Banks
    BY <1>1 DEF Inv, TypeOK, ProgAssumption
  <2> QED
    BY <2>1 DEF SelectBank
<1>3. SecurityKept' /\ BankKnown'
  BY <1>1 DEF Writing, SecurityKept, BankKnown, AllZero
<1>4. WrittenSoFar'
  BY <1>1 DEF Writing, WrittenSoFar, Inside, AfterRead
<1>5. ProtectedSoFar'
  <2> DEFINE n == i + 1
  <2>1. n \in Nat /\ n <= Banks /\ i' = n
    BY <1>1, ChipTypes DEF Inv
  <2>2. \A b \in 0 .. Total - 1 :
          prot[b] = IF b \div Blocks < i THEN block_protection(b) ELSE 0
    BY <1>1 DEF Writing, ProtectedSoFar
  <2>3. DOMAIN security = 0 .. Total - 1 /\ DOMAIN prot = 0 .. Total - 1
    BY <1>1 DEF Writing, SecurityKept, Inv, TypeOK
  <2>4. ASSUME NEW b \in 0 .. Total - 1
        PROVE  prot'[b] = IF b \div Blocks < n THEN block_protection(b) ELSE 0
    <3> DEFINE q == b \div Blocks
    <3>1. q \in Nat
      <4>1. Blocks \in Nat \ {0} /\ b \in Nat
        BY ChipTypes DEF Inv
      <4> QED
        BY <4>1, DivMod
    <3>2. prot'[b] = IF q # i THEN prot[b] ELSE block_protection(b)
      BY <1>1, <1>2, <2>3 DEF Secured, block_protection
    <3>3. prot[b] = IF q < i THEN block_protection(b) ELSE 0
      BY <2>2
    <3> HIDE DEF q
    <3>4. q < n <=> q < i \/ q = i
      BY <1>1, <3>1
    <3>5. ~(i < i)
      BY <1>1
    <3>6. prot'[b] = IF q < n THEN block_protection(b) ELSE 0
      BY <3>2, <3>3, <3>4, <3>5
    <3> QED
      BY <3>6 DEF q
  <2> HIDE DEF n
  <2>5. \A b \in 0 .. Total - 1 : block_protection(b)' = block_protection(b)
    BY <1>1 DEF block_protection
  <2> QED
    BY <1>1, <2>1, <2>4, <2>5 DEF ProtectedSoFar
<1> QED
  BY <1>1, <1>3, <1>4, <1>5 DEF Writing, Alarms

\* After the protection every operation finds what it should.
LEMMA WritingLast ==
  ASSUME ProgAssumption, Inv, Opt("w"), Writing, phase \in {"protect", "checksec", "dump"},
         outcome = "running", Finish, UNCHANGED <<given, host, flash, prot>>,
         \A b \in 0 .. Total - 1 : prot[b] = block_protection(b)
  PROVE  Writing'
<1>1. UNCHANGED <<opts, supplied, program, security, flash, prot>>
  BY DEF given, host
<1>2. phase' \in {"checksec", "dump", "save"} /\ outcome' = "running"
  <2>1. /\ phase' \in AfterCompare
        /\ phase' # "protect"
    BY <1>1, Entering DEF AfterRead
  <2> QED
    BY <2>1 DEF Finish, AfterCompare, AfterRead
<1>3. SecurityKept' /\ BankKnown'
  BY <1>1, <1>2 DEF Writing, SecurityKept, BankKnown, AllZero
<1>4. WrittenSoFar'
  BY <1>1, <1>2 DEF Writing, WrittenSoFar, Inside, AfterRead
<1>5. ProtectedSoFar'
  BY <1>1, <1>2 DEF ProtectedSoFar, block_protection
<1> QED
  BY <1>2, <1>3, <1>4, <1>5 DEF Writing, Alarms

\* A session begins with nothing written.
LEMMA HealthyInit ==
  ASSUME Init
  PROVE  HealthyInv
BY DEF Init, HealthyInv, Writing, SecurityKept, BankKnown, WrittenSoFar, ProtectedSoFar,
       Alarms, AfterRead

\* Every step of a session with a healthy chip keeps what is known.
LEMMA HealthyStep ==
  ASSUME ProgAssumption, Faults = {}, Inv, HealthyInv, [Next]_vars
  PROVE  HealthyInv'
<1>1. opts' = opts
  BY DEF Next, Work, Start, ops_erase_all, WriteBlock, WriteEnd, ops_read_security, ReadBlock,
         ReadEnd, ReadFails, CompareBlock, CompareEnd, ProtectBank, ProtectEnd,
         ops_compare_security, ops_dump_security, Save, Die, given, vars
<1> SUFFICES ASSUME Opt("w") PROVE Writing'
  BY <1>1 DEF HealthyInv, Opt
<1>2. Writing
  BY DEF HealthyInv
<1>3. CASE Start
  BY <1>2, <1>3, WritingStart
<1>4. CASE ops_erase_all
  BY <1>2, <1>4, WritingErase
<1>5. CASE WriteBlock
  BY <1>2, <1>5, WritingBlock
<1>6. CASE WriteEnd
  BY <1>2, <1>6, WritingEnd
<1>7. CASE ops_read_security \/ ReadBlock \/ ReadEnd
  <2>1. phase \in {"readsec", "read"}
    BY <1>7 DEF ops_read_security, ReadBlock, ReadEnd, In
  <2> QED
    BY <2>1, WritePhases DEF AfterRead
<1>8. CASE ReadFails
  BY <1>8 DEF ReadFails, Fault
<1>9. CASE CompareBlock
  BY <1>2, <1>9, WritingCompare
<1>10. CASE CompareEnd
  BY <1>2, <1>10, WritingCompareEnd
<1>11. CASE ProtectBank
  BY <1>2, <1>11, WritingProtect
<1>12. CASE ProtectEnd
  <2>1. /\ phase = "protect" /\ outcome = "running" /\ Finish
        /\ UNCHANGED <<given, host, flash, prot>>
        /\ i = Banks \/ AllZero
    BY <1>12 DEF ProtectEnd, In, chip
  <2>2. ASSUME NEW b \in 0 .. Total - 1 PROVE prot[b] = block_protection(b)
    <3> DEFINE q == b \div Blocks
    <3>1. q \in 0 .. Banks - 1
      BY ChipTypes, InBank DEF Inv, Total
    <3>2. prot[b] = IF q < i THEN block_protection(b) ELSE 0
      BY <1>2, <2>1 DEF Writing, ProtectedSoFar
    <3> HIDE DEF q
    <3>3. CASE i = Banks
      BY <3>1, <3>2, <3>3, ChipTypes DEF Inv
    <3>4. CASE AllZero
      BY <3>2, <3>4 DEF AllZero, block_protection
    <3> QED
      BY <2>1, <3>3, <3>4
  <2> QED
    BY <1>2, <2>1, <2>2, WritingLast
<1>13. CASE ops_compare_security
  <2>1. /\ phase = "checksec" /\ outcome = "running"
        /\ UNCHANGED <<given, host, flash, prot>>
    BY <1>13 DEF ops_compare_security, In
  <2>2. \A b \in 0 .. Total - 1 : prot[b] = block_protection(b)
    BY <1>2, <2>1 DEF Writing, ProtectedSoFar
  <2>3. \A b \in 0 .. Blocks - 1 : prot[b] = block_protection(b)
    <3>1. Blocks \in Nat /\ Total \in Nat /\ Blocks <= Total
      BY ChipTypes DEF Inv
    <3> QED
      BY <2>2, <3>1
  <2>4. Finish
    BY <1>13, <2>3 DEF ops_compare_security
  <2> QED
    BY <1>2, <2>1, <2>2, <2>4, WritingLast
<1>14. CASE ops_dump_security
  <2>1. /\ phase = "dump" /\ outcome = "running" /\ Finish
        /\ UNCHANGED <<given, host, flash, prot>>
    BY <1>14 DEF ops_dump_security, In
  <2>2. \A b \in 0 .. Total - 1 : prot[b] = block_protection(b)
    BY <1>2, <2>1 DEF Writing, ProtectedSoFar
  <2> QED
    BY <1>2, <2>1, <2>2, WritingLast
<1>15. CASE Save \/ Die \/ UNCHANGED vars
  <2>1. /\ UNCHANGED <<supplied, program, security, phase, i, flash, prot, current_bank, bank>>
        /\ outcome' = outcome \/ outcome' \in {"done", "died"}
    BY <1>15 DEF Save, Die, Exit, vars, given, host, chip
  <2>2. outcome' \notin Alarms
    BY <1>2, <2>1 DEF Writing, Alarms
  <2> QED
    BY <1>2, <2>1, <2>2, WritingStays
<1> QED
  BY <1>3, <1>4, <1>5, <1>6, <1>7, <1>8, <1>9, <1>10, <1>11, <1>12, <1>13, <1>14, <1>15, Zenon
  DEF Next, Work

\* A chip that does nothing wrong holds the file and its protection, in whatever
\* banks they lie, once a write has succeeded; and neither a checksum nor a
\* comparison after it ends the session with an alarm (ops_write_program and
\* ops_write_security, prog_ops.c:131-217).
THEOREM HealthyChip ==
  ASSUME ProgAssumption, Faults = {}
  PROVE  Spec => []HealthyWrite
<1>1. Spec => []Inv
  BY Invariance
<1>2. Init => HealthyInv
  BY HealthyInit
<1>3. Inv /\ HealthyInv /\ [Next]_vars => HealthyInv'
  BY HealthyStep
<1>4. Inv /\ HealthyInv => HealthyWrite
  <2> SUFFICES ASSUME Inv, Opt("w"), Writing PROVE HealthyWrite
    BY DEF HealthyInv, HealthyWrite, WriteIsComplete, NoFalseAlarm
  <2>1. NoFalseAlarm
    BY DEF Writing, Alarms, NoFalseAlarm
  <2>2. WriteIsComplete
    <3> SUFFICES ASSUME outcome = "done" PROVE WriteIsComplete
      BY DEF WriteIsComplete
    <3>1. phase = "save" /\ program = file /\ supplied = security
      BY DEF Inv, Ended, FileKept, Writing, SecurityKept
    <3> QED
      BY <3>1
      DEF Writing, WrittenSoFar, ProtectedSoFar, Inside, block_protection, WriteIsComplete,
          AfterRead
  <2> QED
    BY <2>1, <2>2 DEF HealthyWrite
<1> QED
  BY <1>1, <1>2, <1>3, <1>4, PTL DEF Spec
=============================================================================
