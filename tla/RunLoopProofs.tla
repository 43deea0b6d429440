---------------------------- MODULE RunLoopProofs ----------------------------
(***************************************************************************)
(* Proofs about RunLoop, for every program, every cost of an instruction,  *)
(* every width of the cycle count and every polling interval: a run keeps  *)
(* its cycle limit, stops at breakpoints, looks for interrupts as often as *)
(* it should, and does not forget a Ctrl-C.                                *)
(***************************************************************************)
EXTENDS RunLoop, TLAPS

-----------------------------------------------------------------------------
(* The inductive invariant *)

Places == {"script", "reset", "enable", "loop", "leave", "report", "killed"}

TypeOK ==
  /\ loc \in Places
  /\ pc \in PCs /\ breakpoint \subseteq PCs
  /\ cycles \in 0 .. Word - 1 /\ done \in 0 .. Word - 1
  /\ until_poll \in 0 .. Interval
  /\ since \in 0 .. MaxSince /\ hits \in 0 .. 2

FlagsOK ==
  /\ irq \in BOOLEAN /\ interrupted \in BOOLEAN /\ running \in BOOLEAN
  /\ killed \in BOOLEAN /\ moved \in BOOLEAN

\* What a run starts with.
Fresh ==
  loc \in {"reset", "enable"} =>
    /\ ~moved /\ done = 0 /\ until_poll = Interval /\ since = 0
    /\ loc = "enable" => hits = 0

\* The handler is armed within the run only.
Armed == running => loc \in {"loop", "leave", "killed"}

\* The countdown and the instructions counted add up.
Countdown ==
  Interval # 0 =>
    /\ since <= Interval
    /\ loc = "loop" => until_poll >= 1 /\ since + until_poll <= Interval + 1

Inv == /\ TypeOK /\ Fresh /\ Armed /\ Countdown
       /\ WithinLimit /\ StopsAtBreakpoints /\ CtrlCKept

-----------------------------------------------------------------------------
(* Cycle counts *)

\* The remainder of a number that is less than the divisor is the number.
LEMMA Remainder ==
  ASSUME NEW d \in Nat \ {0}, NEW q \in Int, NEW r \in 0 .. d - 1
  PROVE  ((q * d) + r) % d = r
OBVIOUS

\* The remainder of a number below the divisor, or of one divisor more.
LEMMA SmallRemainder ==
  ASSUME NEW d \in Nat \ {0}, NEW r \in 0 .. d - 1
  PROVE  r % d = r /\ (r + d) % d = r
<1>1. ((0 * d) + r) % d = r /\ ((1 * d) + r) % d = r
  BY Remainder
<1>2. (0 * d) + r = r /\ (1 * d) + r = r + d
  OBVIOUS
<1> QED
  BY <1>1, <1>2

\* What is added to a count stays within the limit of the run and does not wrap
\* if it fits, although the test is made in arithmetic that wraps.
LEMMA FitsKeepsLimit ==
  ASSUME TypeOK, WithinLimit, Goes, NEW c \in Nat, c < Word, Fits(c)
  PROVE  /\ (done + c) % Word \in 0 .. Word - 1
         /\ cycles # 0 => (done + c) % Word <= cycles
<1>1. Word \in Nat \ {0} /\ done \in 0 .. Word - 1 /\ cycles \in 0 .. Word - 1
  BY RunAssumption DEF RunAssumption, TypeOK
<1>2. (done + c) % Word \in 0 .. Word - 1
  BY <1>1
<1>3. ASSUME cycles # 0
      PROVE  (done + c) % Word <= cycles
  <2>1. done < cycles
    BY <1>1, <1>3 DEF Goes, WithinLimit
  <2>2. Left = cycles - done
    <3>1. cycles - done \in 0 .. Word - 1
      BY <1>1, <2>1
    <3>2. ((cycles - done) + Word) % Word = cycles - done
      BY <1>1, <3>1, SmallRemainder
    <3> QED
      BY <3>2 DEF Left
  <2>3. c <= cycles - done
    BY <1>1, <2>1, <2>2 DEF Fits
  <2>4. done + c \in 0 .. Word - 1 /\ done + c <= cycles
    BY <1>1, <2>3
  <2>5. (done + c) % Word = done + c
    BY <1>1, <2>4, SmallRemainder
  <2> QED
    BY <2>4, <2>5
<1> QED
  BY <1>2, <1>3

-----------------------------------------------------------------------------
(* The steps *)

\* The countdown keeps its range, and reaches 1 once in Interval iterations.
LEMMA CountDownFacts ==
  ASSUME TypeOK, CountDown
  PROVE  /\ until_poll' \in 0 .. Interval
         /\ Interval # 0 /\ until_poll >= 1 =>
              /\ until_poll' >= 1
              /\ ~Polls => until_poll' = until_poll - 1
BY RunAssumption DEF RunAssumption, TypeOK, CountDown, Polls

USE RunAssumption DEF RunAssumption

\* The first state, before any command of the script.
LEMMA InitInv == Init => Inv
BY DEF Init, Inv, TypeOK, Places, Fresh, Armed, Countdown, WithinLimit,
       StopsAtBreakpoints, BreakpointWins, NoStuckBreakpoint, CtrlCKept, MaxSince

\* The commands of the script.
LEMMA ScriptStep ==
  ASSUME Inv,
         \/ \E set \in SUBSET PCs : SetBreakpoints(set)
         \/ \E limit \in Limits : Run(limit)
         \/ \E to \in PCs, int \in BOOLEAN : StepCommand(to, int)
  PROVE  Inv'
<1> USE DEF Inv, TypeOK, Places, Fresh, Armed, Countdown, WithinLimit,
            StopsAtBreakpoints, BreakpointWins, NoStuckBreakpoint, CtrlCKept,
            MaxSince, machine
<1>1. ASSUME NEW set \in SUBSET PCs, SetBreakpoints(set)
      PROVE  Inv'
  BY <1>1 DEF SetBreakpoints
<1>2. ASSUME NEW limit \in Limits, Run(limit)
      PROVE  Inv'
  BY <1>2 DEF Run
<1>3. ASSUME NEW to \in PCs, NEW int \in BOOLEAN, StepCommand(to, int)
      PROVE  Inv'
  BY <1>3 DEF StepCommand
<1> QED
  BY <1>1, <1>2, <1>3

\* The steps around the loop, and the handler between any two steps.
LEMMA AroundStep ==
  ASSUME Inv,
         \/ ResetFlag \/ EnableHandler \/ LoopEnds \/ DisableHandler \/ Report
         \/ sigint_handler
  PROVE  Inv'
<1> USE DEF Inv, TypeOK, Places, Fresh, Armed, Countdown, WithinLimit,
            StopsAtBreakpoints, BreakpointWins, NoStuckBreakpoint, CtrlCKept,
            MaxSince, machine
<1>1. CASE ResetFlag
  BY <1>1 DEF ResetFlag
<1>2. CASE EnableHandler
  BY <1>2 DEF EnableHandler
<1>3. CASE LoopEnds
  BY <1>3 DEF LoopEnds, Leave
<1>4. CASE DisableHandler
  BY <1>4 DEF DisableHandler
<1>5. CASE Report
  BY <1>5 DEF Report
<1>6. CASE sigint_handler
  BY <1>6 DEF sigint_handler
<1> QED
  BY <1>1, <1>2, <1>3, <1>4, <1>5, <1>6

\* An interrupt or an instruction.
LEMMA LoopStep ==
  ASSUME Inv,
         \/ TakeInterrupt \/ Refuse
         \/ \E to \in PCs, int \in BOOLEAN : Execute(to, int)
  PROVE  Inv'
<1>1. CASE TakeInterrupt
  <2>1. /\ until_poll' \in 0 .. Interval
        /\ Interval # 0 => until_poll' >= 1
    BY <1>1, CountDownFacts DEF TakeInterrupt, Inv, Countdown
  <2>2. done' \in 0 .. Word - 1 /\ (cycles # 0 => done' <= cycles)
    BY <1>1, FitsKeepsLimit DEF TakeInterrupt, Takes, Inv
  <2>3. TypeOK'
    BY <1>1, <2>1, <2>2 DEF TakeInterrupt, BreakOrGoOn, Leave, Inv, TypeOK,
                            Places, MaxSince
  <2>4. Fresh' /\ Armed'
    BY <1>1 DEF TakeInterrupt, BreakOrGoOn, Leave, Inv, Fresh, Armed
  <2>5. Countdown'
    <3> DEFINE s == since' u == until_poll'
    <3>1. s = 0 /\ u \in 0 .. Interval
      BY <1>1, <2>1 DEF TakeInterrupt
    <3> HIDE DEF s, u
    <3>2. s <= Interval /\ s + u <= Interval + 1
      BY <3>1
    <3> QED
      BY <2>1, <3>2 DEF Countdown, s, u
  <2>6. WithinLimit' /\ StopsAtBreakpoints' /\ CtrlCKept'
    BY <1>1, <2>2 DEF TakeInterrupt, BreakOrGoOn, Leave, Inv, WithinLimit,
         StopsAtBreakpoints, BreakpointWins, NoStuckBreakpoint, CtrlCKept
  <2> QED
    BY <2>3, <2>4, <2>5, <2>6 DEF Inv
<1>2. CASE Refuse
  <2>1. until_poll' \in 0 .. Interval
    BY <1>2, CountDownFacts DEF Refuse, Inv
  <2> QED
    BY <1>2, <2>1 DEF Refuse, Leave, Inv, TypeOK, Places, Fresh, Armed,
         Countdown, WithinLimit, StopsAtBreakpoints, BreakpointWins,
         NoStuckBreakpoint, CtrlCKept, MaxSince
<1>3. ASSUME NEW to \in PCs, NEW int \in BOOLEAN, Execute(to, int)
      PROVE  Inv'
  <2>1. /\ until_poll' \in 0 .. Interval
        /\ Interval # 0 => until_poll' >= 1
        /\ Interval # 0 /\ ~Polls => until_poll' = until_poll - 1
    BY <1>3, CountDownFacts DEF Execute, Inv, Countdown
  <2>2. Cost[pc] \in Nat /\ Cost[pc] < Word
    BY DEF Inv, TypeOK
  <2>3. done' \in 0 .. Word - 1 /\ (cycles # 0 => done' <= cycles)
    BY <1>3, <2>2, FitsKeepsLimit DEF Execute, Inv
  <2>4. TypeOK'
    BY <1>3, <2>1, <2>3 DEF Execute, BreakOrGoOn, Leave, Inv, TypeOK, Places,
                            MaxSince
  <2>5. Fresh' /\ Armed'
    BY <1>3 DEF Execute, BreakOrGoOn, Leave, Inv, Fresh, Armed
  <2>6. Countdown'
    <3>1. /\ loc = "loop"
          /\ since' = IF Polls THEN 1
                      ELSE IF since < MaxSince THEN since + 1 ELSE since
      BY <1>3 DEF Execute
    <3>2. since \in 0 .. MaxSince /\ until_poll \in 0 .. Interval
      BY DEF Inv, TypeOK
    <3>3. Countdown
      BY DEF Inv
    <3>4. CASE Interval # 0 /\ Polls
      <4> DEFINE s == since' u == until_poll'
      <4>1. s = 1 /\ u \in 0 .. Interval
        BY <2>1, <3>1, <3>4
      <4> HIDE DEF s, u
      <4>2. s <= Interval /\ s + u <= Interval + 1
        BY <3>4, <4>1
      <4> QED
        BY <2>1, <4>2 DEF Countdown, s, u
    <3>5. CASE Interval # 0 /\ ~Polls
      <4>1. /\ until_poll >= 2 /\ since + until_poll <= Interval + 1
            /\ since + 1 <= Interval
        BY <3>1, <3>2, <3>3, <3>5 DEF Countdown, Polls
      <4>2. since' = since + 1 /\ until_poll' = until_poll - 1
        BY <2>1, <3>1, <3>2, <3>5, <4>1 DEF MaxSince
      <4>3. (since + 1) + (until_poll - 1) <= Interval + 1
        BY <3>2, <4>1
      <4> QED
        BY <2>1, <3>5, <4>1, <4>2, <4>3 DEF Countdown
    <3> QED
      BY <3>4, <3>5 DEF Countdown
  <2>7. WithinLimit' /\ StopsAtBreakpoints' /\ CtrlCKept'
    BY <1>3, <2>3 DEF Execute, BreakOrGoOn, Leave, Inv, WithinLimit,
         StopsAtBreakpoints, BreakpointWins, NoStuckBreakpoint, CtrlCKept
  <2> QED
    BY <2>4, <2>5, <2>6, <2>7 DEF Inv
<1> QED
  BY <1>1, <1>2, <1>3

\* The inductive invariant: the state at each place of the loop, with a signal
\* between any two of its steps.
THEOREM Invariance == Spec => []Inv
<1>1. Inv /\ [Next]_vars => Inv'
  <2> SUFFICES ASSUME Inv, [Next]_vars PROVE Inv'
    OBVIOUS
  <2>1. CASE UNCHANGED vars
    BY <2>1 DEF vars, machine, Inv, TypeOK, Fresh, Armed, Countdown, WithinLimit,
         StopsAtBreakpoints, BreakpointWins, NoStuckBreakpoint, CtrlCKept
  <2>2. CASE Next
    BY <2>2, ScriptStep, AroundStep, LoopStep DEF Next, Loop
  <2> QED
    BY <2>1, <2>2
<1> QED
  BY <1>1, InitInv, PTL DEF Spec

\* Places, counts and flags keep their types.
THEOREM TypeCorrect == Spec => [](TypeOK /\ FlagsOK)
<1>1. Init => FlagsOK
  BY DEF Init, FlagsOK
<1>2. FlagsOK /\ [Next]_vars => FlagsOK'
  <2> SUFFICES ASSUME FlagsOK, [Next]_vars PROVE FlagsOK'
    OBVIOUS
  <2> USE DEF FlagsOK
  <2>1. ASSUME NEW to \in PCs, NEW int \in BOOLEAN, StepCommand(to, int)
        PROVE  FlagsOK'
    BY <2>1, Zenon DEF StepCommand
  <2>2. ASSUME NEW to \in PCs, NEW int \in BOOLEAN, Execute(to, int)
        PROVE  FlagsOK'
    BY <2>2, Zenon DEF Execute
  <2>3. CASE \E set \in SUBSET PCs : SetBreakpoints(set)
    BY <2>3 DEF SetBreakpoints, machine
  <2>4. CASE \E limit \in Limits : Run(limit)
    BY <2>4 DEF Run
  <2>5. CASE TakeInterrupt \/ Refuse
    BY <2>5 DEF TakeInterrupt, Refuse
  <2>6. CASE ResetFlag \/ EnableHandler \/ LoopEnds \/ DisableHandler \/ Report
    BY <2>6 DEF ResetFlag, EnableHandler, LoopEnds, DisableHandler, Report, machine
  <2>7. CASE sigint_handler
    BY <2>7 DEF sigint_handler, machine
  <2>8. CASE UNCHANGED vars
    BY <2>8 DEF vars, machine
  <2> QED
    BY <2>1, <2>2, <2>3, <2>4, <2>5, <2>6, <2>7, <2>8 DEF Next, Loop
<1> QED
  BY <1>1, <1>2, Invariance, PTL DEF Spec, Inv

-----------------------------------------------------------------------------
(* What follows *)

\* A run never passes its limit, neither with an instruction nor with the cycles
\* for taking an interrupt, for any width of the count (m8c_prep,
\* m8c_check_interrupt, sim/core.c:439-463).
THEOREM KeepsLimit == Spec => []WithinLimit
BY Invariance, PTL DEF Inv

\* A breakpoint wins over the limit and Ctrl-C, and the first instruction of a
\* run is executed even if it has one (sim/README:182-185).
THEOREM KeepsBreakpoints == Spec => []StopsAtBreakpoints
BY Invariance, PTL DEF Inv

\* A run executes at most Interval instructions without looking for interrupts
\* (m8c_run's countdown, sim/core.c:646-655).
THEOREM PollsOften == Spec => []PollsEveryInterval
<1>1. Inv => PollsEveryInterval
  BY DEF Inv, Countdown, PollsEveryInterval
<1> QED
  BY <1>1, Invariance, PTL

\* A Ctrl-C that comes while the handler is armed is still noted when the loop
\* looks for it: nothing clears the flag in between (sim/core.c:643-644,
\* sigint_handler in sim/sim.c).
THEOREM KeepsCtrlC == Spec => []CtrlCKept
BY Invariance, PTL DEF Inv

=============================================================================
