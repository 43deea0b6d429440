--------------------------------- MODULE Cpu --------------------------------
(***************************************************************************)
(* How the simulated CPU takes interrupts and returns from them: m8c_step, *)
(* and m8c_run without a cycle limit and with the default poll interval    *)
(* (sim/core.c), together with int_handle and the controller (sim/int.c).  *)
(* Between two instructions anything may happen that the script or the     *)
(* chip behind the ICE can do.                                             *)
(*                                                                         *)
(* The program is any program whose stack holds nothing but the frames of  *)
(* the interrupts it is handling and which lets them nest at most MaxDepth *)
(* deep.  Of an instruction only its effect on pc, f, the stack and the    *)
(* controller's registers is kept.                                         *)
(***************************************************************************)
EXTENDS IntCtl, Sequences

CONSTANTS
  StackSize,  \* cells of the stack page: 256
  PCs,        \* addresses the program jumps to
  MaxDepth    \* bound: interrupts the program handles at a time

Byte == 256
Addresses == {a \in Nat : a < 65536}

ASSUME CpuAssumption ==
  /\ StackSize \in Nat
  /\ PCs \subseteq Addresses
  /\ MaxDepth \in Nat
  /\ 3 * MaxDepth < StackSize       \* the frames fit the stack page

VARIABLES
  pc,      \* program counter
  f,       \* the flags: bit 0 is GIE, bit 1 stands for the others
  sp,      \* stack pointer
  stack,   \* the stack page
  frames,  \* history: <<pc, f>> of the interrupts taken and not returned from
  cut      \* history: the last pin was disconnected from the ICE since the CPU
           \* last took an interrupt

cpuVars == <<pc, f, sp, stack, frames>>
vars == <<intVars, cpuVars, cut>>

Flags == 0 .. 3
gie == f % 2 = 1

-----------------------------------------------------------------------------
(* Taking and leaving an interrupt *)

\* The stack pointer wraps around at the end of the page.
Up(p)   == IF p + 1 = StackSize THEN 0 ELSE p + 1
Down(p) == IF p = 0 THEN StackSize - 1 ELSE p - 1

\* Mistakes: the low byte is pushed first; the flags are saved after they were
\* cleared.
EnterSwapped(vc) ==
  /\ stack' = [stack EXCEPT ![sp] = pc % Byte,
                            ![Up(sp)] = pc \div Byte,
                            ![Up(Up(sp))] = f]
  /\ sp' = Up(Up(Up(sp)))
  /\ f' = 0
  /\ pc' = vc
  /\ frames' = Append(frames, <<pc, f>>)

EnterClearedFlags(vc) ==
  /\ stack' = [stack EXCEPT ![sp] = pc \div Byte,
                            ![Up(sp)] = pc % Byte,
                            ![Up(Up(sp))] = 0]
  /\ sp' = Up(Up(Up(sp)))
  /\ f' = 0
  /\ pc' = vc
  /\ frames' = Append(frames, <<pc, f>>)

\* int_handle: save pc and f, disable interrupts, enter the vector table.
EnterHandler(vc) ==
  /\ stack' = [stack EXCEPT ![sp] = pc \div Byte,
                            ![Up(sp)] = pc % Byte,
                            ![Up(Up(sp))] = f]
  /\ sp' = Up(Up(Up(sp)))
  /\ f' = 0
  /\ pc' = vc
  /\ frames' = Append(frames, <<pc, f>>)

\* m8c_check_interrupt finds an interrupt and takes it.
TakeInterrupt ==
  /\ gie
  /\ PolledVector # 0
  /\ EnterHandler(PolledVector)
  /\ Acknowledge(PolledVector)
  /\ cut' = FALSE

\* m8c_check_interrupt finds none: int_poll may still have read the chip.
NoInterrupt == ~gie \/ PolledVector = 0

PollOnly == IF gie THEN int_poll ELSE UNCHANGED intVars

\* RETI.
Reti ==
  /\ NoInterrupt
  /\ frames # << >>
  /\ f' = stack[Down(sp)]
  /\ pc' = stack[Down(Down(sp))] + stack[Down(Down(Down(sp)))] * Byte
  /\ sp' = Down(Down(Down(sp)))
  /\ frames' = SubSeq(frames, 1, Len(frames) - 1)
  /\ PollOnly
  /\ UNCHANGED <<stack, cut>>

\* Any other instruction that leaves the stack and the controller alone; the
\* program enables interrupts only where one more frame still fits.
Instruction(to, flags) ==
  /\ NoInterrupt
  /\ flags % 2 = 1 => Len(frames) < MaxDepth
  /\ pc' = to
  /\ f' = flags
  /\ PollOnly
  /\ UNCHANGED <<sp, stack, frames, cut>>

\* A write to one of the controller's registers.  A poll before it changes
\* int_vc only, and the write sets that again.
RegWrite ==
  \/ \E n \in 0 .. 3 : \E value \in SUBSET (RegBits(n) \cap Ints) :
       int_write_clr(n, value)
  \/ \E n \in 0 .. 3 : \E value \in SUBSET RegBits(n) : int_write_msk(n, value)
  \/ int_write_vc

WriteInstruction(to) ==
  /\ NoInterrupt
  /\ pc' = to
  /\ RegWrite
  /\ UNCHANGED <<f, sp, stack, frames, cut>>

CpuStep ==
  \/ TakeInterrupt
  \/ Reti
  \/ \E to \in PCs, flags \in Flags : Instruction(to, flags)
  \/ \E to \in PCs : WriteInstruction(to)

-----------------------------------------------------------------------------
(* The script and the chip behind the ICE *)

Simulation ==
  \/ \E n \in Sources : int_set(n) \/ int_clear(n)
  \/ RegWrite

Script == Simulation /\ UNCHANGED <<cpuVars, cut>>

Connect(n) == int_set_ice(n, TRUE) /\ UNCHANGED <<cpuVars, cut>>

Disconnect(n) ==
  /\ int_set_ice(n, FALSE)
  /\ cut' = (cut \/ int_ice = {n})
  /\ UNCHANGED cpuVars

Target == \E vc \in IceVectors : TargetChanges(vc) /\ UNCHANGED <<cpuVars, cut>>

-----------------------------------------------------------------------------
(* The specification *)

Init ==
  /\ int_init
  /\ pc = 0
  /\ f = 0
  /\ sp = 0
  /\ stack = [c \in 0 .. StackSize - 1 |-> 0]
  /\ frames = << >>
  /\ cut = FALSE

Next ==
  \/ CpuStep
  \/ Script
  \/ \E n \in IceInts : Connect(n) \/ Disconnect(n)
  \/ Target

Spec == Init /\ [][Next]_vars

\* The script lets the program run on: m8c_run loops until it is stopped.
FairSpec == Spec /\ WF_vars(CpuStep)

-----------------------------------------------------------------------------
(* Properties *)

\* Type invariant.  The stack cells hold bytes, sim/core.c:80.
TypeOK ==
  /\ IntTypeOK
  /\ pc \in Addresses
  /\ f \in Flags
  /\ sp \in 0 .. StackSize - 1
  /\ stack \in [0 .. StackSize - 1 -> 0 .. Byte - 1]
  /\ frames \in Seq(Addresses \X Flags)
  /\ cut \in BOOLEAN

\* No enabled pending interrupt is hidden from the CPU: INT_VC, which
\* m8c_check_interrupt trusts, never lags behind the words it is computed from,
\* whichever register was written last (sim/int.c, the calls of int_select).
\* The chip may only pull it to a smaller vector.
PendingIsVisible ==
  LET local == LocalVector(int_pending \cap int_msk)
  IN  local # 0 => int_vc # 0 /\ int_vc <= local

\* The interrupt the CPU takes is pending and enabled when it is taken, whatever
\* was masked, cleared or acknowledged before (int_poll and int_select,
\* sim/int.c:49-103); but for one the chip may raise: int_set_ice does not select
\* again, so a vector of the chip can outlive the last connection to it.
NoPhantom ==
  [][TakeInterrupt => prio2int[PolledVector \div 4]
                        \in (int_pending \cap int_msk) \cup IceInts]_vars

\* Bits in another order than their places in the vector table: 5 comes before
\* 7 here and after it there, and 6 is the last of the table.
Inverted == {<<5, 7>>} \cup ({6} \X (7 .. 24))

\* Of the enabled pending interrupts the CPU takes the one that comes first in
\* the vector table, although int_select looks for the lowest bit (sim/int.c:52);
\* an interrupt may be passed over only for one of 5 and 6 that is pending with it
\* and whose bit is lower.
FirstVectorFirst ==
  [][TakeInterrupt => \A i \in int_pending \cap int_msk :
       \/ PolledVector <= 4 * int2prio[i]
       \/ \E j \in int_pending \cap int_msk : <<j, i>> \in Inverted]_vars

\* Handlers nest only as deep as the program asks for: entering a handler
\* disables interrupts (sim/core.c:432, sim/int.c:77) and RETI restores what the
\* interrupted code had.
NestingBounded == Len(frames) <= MaxDepth

\* The cells at depth d of the stack hold the d-th frame: pc, high byte first,
\* then the flags.
FrameAt(d) ==
  /\ frames[d][1] = stack[3 * d - 3] * Byte + stack[3 * d - 2]
  /\ frames[d][2] = stack[3 * d - 1]

\* The stack holds the frames of all interrupts that were taken, in order, and
\* sp is behind the last (sim/int.c:74-76).
StackHoldsFrames ==
  /\ sp = 3 * Len(frames)
  /\ \A d \in 1 .. Len(frames) : FrameAt(d)

\* RETI goes back to the address and the flags that were interrupted last
\* (sim/core.c:614-621), however deep the handlers nest.
ReturnsToInterrupted ==
  [][Reti => <<pc', f'>> = frames[Len(frames)]]_vars

\* The interrupt of a vector is raised: by the simulator, or by the chip at this
\* moment.
Raised(vc) ==
  \/ prio2int[vc \div 4] \in int_pending \cap int_msk
  \/ int_ice # {} /\ vc = ice_vc

\* An interrupt that nothing raises is taken at most once after a disconnection,
\* although int_set_ice leaves the chip's last vector in INT_VC (sim/int.c:232),
\* and never otherwise: not one the chip has withdrawn since INT_VC was read from
\* it (int_poll, sim/int.c:99), nor one that was masked, cleared or acknowledged.
NoSecondGhost ==
  [][TakeInterrupt => Raised(PolledVector) \/ cut]_vars

\* The interrupt int_select prefers does not stay pending and enabled unless
\* the program keeps interrupts disabled for good.  The chip can only hold up
\* interrupts that come after its own in the vector table.
Preferred(i) ==
  /\ i \in int_pending \cap int_msk
  /\ i = Lowest(int_pending \cap int_msk)
  /\ \A j \in IceInts : int2prio[i] <= int2prio[j]

Prompt ==
  []<>gie => \A i \in Ints : []<>~Preferred(i)
=============================================================================
