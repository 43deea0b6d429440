------------------------------ MODULE RunLoop -------------------------------
(***************************************************************************)
(* The "run" and "step" commands of the simulator: m8c_run and m8c_step    *)
(* (sim/core.c), run_cycles (sim/lang.y), breakpoints, and Ctrl-C, whose   *)
(* handler (sim/sim.c) can run between any two steps of the loop.          *)
(*                                                                         *)
(* Of an instruction only its cost is kept, and that it may jump anywhere  *)
(* and may cause an interrupt; irq says that interrupts are enabled and    *)
(* INT_VC is not 0 (module Cpu).  Cycle counts are words that wrap at      *)
(* Word, as the C type uint32_t does at 2^32.                              *)
(***************************************************************************)
EXTENDS Integers

CONSTANTS
  PCs,        \* the addresses of instructions
  Vector,     \* the one where interrupts are handled
  Cost,       \* cycles of the instruction at each address
  Halts,      \* addresses of HALT and SSC, which end the run
  Stuck,      \* addresses where an exception prevents the execution
  IntCost,    \* cycles for taking an interrupt: 13
  Interval,   \* interrupt_poll_interval, 1 unless changed with -e
  Limits,     \* the cycle counts given to run, 0 for none
  Word        \* number of values of a cycle count: 2^32

ASSUME RunAssumption ==
  /\ Vector \in PCs
  /\ Cost \in [PCs -> Nat \ {0}]
  /\ Halts \subseteq PCs /\ Stuck \subseteq PCs
  /\ IntCost \in Nat \ {0} /\ Interval \in Nat /\ Word \in Nat
  /\ IntCost < Word /\ \A a \in PCs : Cost[a] < Word
  /\ Limits \subseteq 0 .. Word - 1

VARIABLES
  loc,          \* where the command is
  pc,
  irq,          \* an interrupt is enabled and selected
  breakpoint,   \* the set of addresses with a breakpoint
  cycles,       \* the limit of this run
  done,         \* cycles of this run so far
  until_poll,   \* iterations until the next look at the interrupts
  interrupted,  \* set by the handler
  running,      \* tells the handler that there is something to interrupt
  killed,       \* the default action of SIGINT has ended the simulator
  hits,         \* history: signals that came while running was set
  since,        \* history: this run's instructions since m8c_check_interrupt
  moved,        \* history: this run has executed an instruction or interrupt
  reason        \* history: why the last run ended

machine == <<pc, irq, since, moved>>
vars == <<loc, pc, irq, breakpoint, cycles, done, until_poll, interrupted,
          running, killed, hits, since, moved, reason>>

\* Bound of the history counter since.
MaxSince == Interval + 1

-----------------------------------------------------------------------------
(* The script, between runs *)

\* break, unbreak: sets are given at once.
SetBreakpoints(set) ==
  /\ loc = "script"
  /\ breakpoint' = set
  /\ UNCHANGED <<loc, machine, cycles, done, until_poll, interrupted, running,
                 killed, hits, reason>>

\* run and run CYCLES, entering m8c_run.
Run(limit) ==
  /\ loc = "script"
  /\ loc' = "reset"
  /\ cycles' = limit
  /\ done' = 0
  /\ until_poll' = Interval
  /\ moved' = FALSE
  /\ since' = 0
  /\ UNCHANGED <<pc, irq, breakpoint, interrupted, running, killed, hits,
                 reason>>

\* interrupted = 0; running = 1.
ResetFlag ==
  /\ loc = "reset"
  /\ loc' = "enable"
  /\ interrupted' = FALSE
  /\ hits' = 0
  /\ UNCHANGED <<machine, breakpoint, cycles, done, until_poll, running, killed,
                 reason>>

EnableHandler ==
  /\ loc = "enable"
  /\ loc' = "loop"
  /\ running' = TRUE
  /\ UNCHANGED <<machine, breakpoint, cycles, done, until_poll, interrupted,
                 killed, hits, reason>>

-----------------------------------------------------------------------------
(* The loop *)

\* cycles-done, in unsigned arithmetic; 0 means no limit to those who get it.
Left == (cycles - done + Word) % Word

\* Mistake: one cycle too many fits.
FitsOneMore(cost) == Left = 0 \/ cost <= Left + 1

Fits(cost) == Left = 0 \/ cost <= Left

\* Mistake: Ctrl-C is not looked at.
GoesOnAfterCtrlC == cycles = 0 \/ cycles # done

Goes == (cycles = 0 \/ cycles # done) /\ ~interrupted

Polls == until_poll = 1

\* Mistake: one instruction too many is counted.
CountDownLate == until_poll' = IF Polls THEN Interval + 1 ELSE until_poll - 1

CountDown ==
  until_poll' = IF until_poll = 0 THEN 0
                ELSE IF Polls THEN Interval ELSE until_poll - 1

Leave(why) ==
  /\ loc' = "leave"
  /\ reason' = why

\* Mistake: the breakpoint is looked for where the instruction was.
BreakBehind ==
  IF pc \in breakpoint
  THEN Leave("breakpoint")
  ELSE UNCHANGED <<loc, reason>>

\* insn_done: after an instruction or an interrupt.
BreakOrGoOn ==
  IF pc' \in breakpoint
  THEN Leave("breakpoint")
  ELSE UNCHANGED <<loc, reason>>

Takes == Polls /\ irq /\ Fits(IntCost)

TakeInterrupt ==
  /\ loc = "loop" /\ Goes
  /\ Takes
  /\ CountDown
  /\ pc' = Vector
  /\ irq' = FALSE
  /\ done' = (done + IntCost) % Word
  /\ since' = 0
  /\ moved' = TRUE
  /\ BreakOrGoOn
  /\ UNCHANGED <<breakpoint, cycles, interrupted, running, killed, hits>>

\* m8c_prep refuses: an exception, or not enough cycles left.
Refuse ==
  /\ loc = "loop" /\ Goes
  /\ ~Takes
  /\ pc \in Stuck \/ ~Fits(Cost[pc])
  /\ CountDown
  /\ Leave(IF pc \in Stuck THEN "exception" ELSE "limit")
  /\ since' = IF Polls THEN 0 ELSE since
  /\ UNCHANGED <<pc, irq, moved, breakpoint, cycles, done, interrupted, running,
                 killed, hits>>

\* m8c_one.  With the flags and the controller's registers an instruction can
\* enable an interrupt and withdraw one: int says whether one is there after it.
Execute(to, int) ==
  /\ loc = "loop" /\ Goes
  /\ ~Takes
  /\ pc \notin Stuck /\ Fits(Cost[pc])
  /\ CountDown
  /\ pc' = to
  /\ irq' = int
  /\ done' = (done + Cost[pc]) % Word
  /\ since' = IF Polls THEN 1
              ELSE IF since < MaxSince THEN since + 1 ELSE since
  /\ moved' = TRUE
  /\ IF pc \in Halts THEN Leave("halt") ELSE BreakOrGoOn
  /\ UNCHANGED <<breakpoint, cycles, interrupted, running, killed, hits>>

LoopEnds ==
  /\ loc = "loop" /\ ~Goes
  /\ Leave(IF cycles # 0 /\ cycles = done THEN "limit" ELSE "interrupted")
  /\ UNCHANGED <<machine, breakpoint, cycles, done, until_poll, interrupted,
                 running, killed, hits>>

\* running = 0; return done.
DisableHandler ==
  /\ loc = "leave"
  /\ loc' = "report"
  /\ running' = FALSE
  /\ UNCHANGED <<machine, breakpoint, cycles, done, until_poll, interrupted,
                 killed, hits, reason>>

\* run_cycles acknowledges the Ctrl-C.
Report ==
  /\ loc = "report"
  /\ loc' = "script"
  /\ interrupted' = FALSE
  /\ UNCHANGED <<machine, breakpoint, cycles, done, until_poll, running, killed,
                 hits, reason>>

-----------------------------------------------------------------------------
(* m8c_step: one interrupt or one instruction, without limit and handler *)

StepCommand(to, int) ==
  /\ loc = "script"
  /\ IF irq THEN /\ pc' = Vector
                 /\ irq' = FALSE
                 /\ since' = 0
     ELSE /\ pc \notin Stuck
          /\ pc' = to
          /\ irq' = int
          /\ since' = 1
  /\ moved' = TRUE
  /\ UNCHANGED <<loc, breakpoint, cycles, done, until_poll, interrupted,
                 running, killed, hits, reason>>

-----------------------------------------------------------------------------
(* Ctrl-C.  The handler is atomic: a second one inside it can only find     *)
(* what it would have found before or after it.                             *)

sigint_handler ==
  /\ running
  /\ hits' = IF hits < 2 THEN hits + 1 ELSE hits
  /\ IF interrupted
     THEN /\ killed' = TRUE
          /\ loc' = "killed"
          /\ UNCHANGED interrupted
     ELSE /\ interrupted' = TRUE
          /\ UNCHANGED <<killed, loc>>
  /\ UNCHANGED <<machine, breakpoint, cycles, done, until_poll, running, reason>>

-----------------------------------------------------------------------------
(* The specification *)

Init ==
  /\ loc = "script"
  /\ pc \in PCs
  /\ irq \in BOOLEAN
  /\ breakpoint = {}
  /\ cycles = 0 /\ done = 0 /\ until_poll = 0
  /\ interrupted = FALSE /\ running = FALSE /\ killed = FALSE
  /\ hits = 0 /\ since = 0 /\ moved = FALSE
  /\ reason = "none"

Loop ==
  \/ ResetFlag \/ EnableHandler
  \/ TakeInterrupt \/ Refuse
  \/ \E to \in PCs, int \in BOOLEAN : Execute(to, int)
  \/ LoopEnds
  \/ DisableHandler \/ Report

Next ==
  \/ \E set \in SUBSET PCs : SetBreakpoints(set)
  \/ \E limit \in Limits : Run(limit)
  \/ \E to \in PCs, int \in BOOLEAN : StepCommand(to, int)
  \/ Loop
  \/ ~killed /\ sigint_handler

\* The simulator is one thread that runs when a command was given.
Spec == Init /\ [][Next]_vars /\ WF_vars(Loop)

-----------------------------------------------------------------------------
(* Properties *)

\* A run with a cycle limit never passes it, neither with an instruction nor
\* with the cycles for taking an interrupt (sim/core.c:439, 459).
WithinLimit == cycles # 0 => done <= cycles

\* "If program execution would stop at the same location due to a breakpoint
\* and a cycle limit [...] the breakpoint wins" (sim/README:183-185), and no
\* instruction or interrupt takes the program past one.
BreakpointWins ==
  /\ moved /\ loc = "loop" => pc \notin breakpoint
  /\ loc \in {"leave", "report"} /\ reason \in {"limit", "interrupted"} /\ moved
       => pc \notin breakpoint

\* The first instruction of a run is executed even if it has a breakpoint
\* (sim/README:182-183).
NoStuckBreakpoint ==
  loc \in {"leave", "report"} /\ reason = "breakpoint" => moved

\* Both rules about breakpoints hold in every run.
StopsAtBreakpoints == BreakpointWins /\ NoStuckBreakpoint

\* A Ctrl-C that comes while the handler is armed is not forgotten before the
\* loop has seen it: nothing clears interrupted after running is set
\* (sim/core.c:643-644).
CtrlCKept == running /\ hits > 0 => interrupted

\* Once Ctrl-C has been noted, the run ends, whatever the program does.
CtrlCStops == interrupted /\ loc = "loop" ~> loc \in {"script", "killed"}

\* A run with a cycle limit ends.
LimitedRunEnds == cycles # 0 /\ loc = "loop" ~> loc \in {"script", "killed"}

\* Every run that is asked to end does: by Ctrl-C, which is never lost, or by
\* its limit (m8c_run, sim/core.c:637-671).
RunsEnd == []CtrlCKept /\ CtrlCStops /\ LimitedRunEnds

\* A run executes at most Interval instructions without looking for interrupts
\* (sim/sim.c:152, "look for interrupts only every interval instructions"); the
\* count starts anew with every run.
PollsEveryInterval == Interval # 0 => since <= Interval
=============================================================================
