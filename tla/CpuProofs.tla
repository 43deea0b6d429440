------------------------------ MODULE CpuProofs ------------------------------
(***************************************************************************)
(* Proofs about Cpu: the type invariant, that no enabled pending interrupt *)
(* is hidden, that handlers nest within the bound and return to where they *)
(* were taken, and the order in which interrupts are taken; and about the  *)
(* arithmetic in Alu.                                                      *)
(***************************************************************************)
EXTENDS Cpu, Alu, TLAPS, WellFoundedInduction, SequenceTheorems

-----------------------------------------------------------------------------
(* The tables of the controller *)

\* A set of interrupt numbers that is not empty has a lowest one.
LEMMA LowestIsLeast ==
  ASSUME NEW S, S \subseteq 0 .. 24, S # {}
  PROVE  Lowest(S) \in S /\ \A c \in S : Lowest(S) <= c
<1>1. PICK b \in S : \A y \in S : ~(<<y, b>> \in OpToRel(<, Nat))
  <2>1. S \subseteq Nat
    OBVIOUS
  <2>2. QED
    BY <2>1, NatLessThanWellFounded, WFMin, Zenon
<1>2. \A c \in S : b <= c
  <2> SUFFICES ASSUME NEW c \in S PROVE b <= c
    OBVIOUS
  <2>1. <<c, b>> \notin {ss \in Nat \X Nat : ss[1] < ss[2]}
    BY <1>1 DEF OpToRel
  <2>2. c \in Nat /\ b \in Nat
    OBVIOUS
  <2>3. ~(c < b)
    BY <2>1, <2>2
  <2> QED
    BY <2>2, <2>3
<1>3. QED
  BY <1>2 DEF Lowest

\* Every interrupt has a place in the vector table.
LEMMA int2prioType == \A b \in 0 .. 24 : int2prio[b] \in 1 .. 25
BY DEF int2prio

\* prio2int undoes int2prio.
LEMMA prio2intInverse == \A b \in 0 .. 24 : prio2int[int2prio[b]] = b
BY DEF int2prio, prio2int

\* The simulator's own vector is that of one of the enabled interrupts.
LEMMA LocalVectorFacts ==
  ASSUME NEW S, S \subseteq 0 .. 24
  PROVE  /\ LocalVector(S) \in {0} \cup Vectors
         /\ LocalVector(S) = 0 <=> S = {}
         /\ S # {} => LocalVector(S) = 4 * int2prio[Lowest(S)]
<1>1. CASE S = {}
  BY <1>1 DEF LocalVector
<1>2. CASE S # {}
  <2>1. Lowest(S) \in 0 .. 24
    BY <1>2, LowestIsLeast
  <2>2. int2prio[Lowest(S)] \in 1 .. 25
    BY <2>1, int2prioType
  <2>3. LocalVector(S) = 4 * int2prio[Lowest(S)]
    BY <1>2 DEF LocalVector
  <2>4. LocalVector(S) \in Vectors /\ LocalVector(S) # 0
    BY <2>2, <2>3 DEF Vectors
  <2> QED
    BY <1>2, <2>3, <2>4
<1> QED
  BY <1>1, <1>2

\* With the chip behind the ICE, a vector never is after the simulator's own.
LEMMA VectorFacts ==
  ASSUME NEW S, S \subseteq 0 .. 24, NEW ice, ice_vc \in {0} \cup Vectors
  PROVE  /\ Vector(S, ice) \in {0} \cup Vectors
         /\ S # {} => Vector(S, ice) # 0 /\ Vector(S, ice) <= LocalVector(S)
         /\ ice = {} => Vector(S, ice) = LocalVector(S)
<1> DEFINE local == LocalVector(S)
           tmp == IF ice = {} THEN 0 ELSE ice_vc
<1>1. local \in {0} \cup Vectors /\ (local = 0 <=> S = {})
  BY LocalVectorFacts
<1>2. tmp \in {0} \cup Vectors
  OBVIOUS
<1>3. \A v \in {0} \cup Vectors : v \in Nat
  BY DEF Vectors
<1>4. Vector(S, ice) = IF tmp # 0 /\ (local = 0 \/ tmp < local) THEN tmp ELSE local
  BY DEF Vector
<1> HIDE DEF local, tmp
<1>5. local \in Nat /\ tmp \in Nat
  BY <1>1, <1>2, <1>3
<1>6. Vector(S, ice) \in {0} \cup Vectors
  BY <1>1, <1>2, <1>4
<1>7. S # {} => Vector(S, ice) # 0 /\ Vector(S, ice) <= local
  <2> SUFFICES ASSUME S # {}
               PROVE  Vector(S, ice) # 0 /\ Vector(S, ice) <= local
    OBVIOUS
  <2>1. local # 0
    BY <1>1
  <2>2. CASE tmp # 0 /\ tmp < local
    BY <1>4, <1>5, <2>2
  <2>3. CASE ~(tmp # 0 /\ tmp < local)
    BY <1>4, <1>5, <2>1, <2>3
  <2> QED
    BY <2>2, <2>3
<1>8. ice = {} => Vector(S, ice) = local
  BY <1>4 DEF tmp
<1> QED
  BY <1>6, <1>7, <1>8 DEF local

-----------------------------------------------------------------------------
(* The controller *)

\* What the controller's steps preserve.
IntInv == IntTypeOK /\ PendingIsVisible

\* The words that int_select looks at lie in the range of the tables.
LEMMA EnabledRange ==
  /\ int_pending \subseteq Ints => int_pending \cap int_msk \subseteq 0 .. 24
  /\ int_pending' \subseteq Ints => int_pending' \cap int_msk' \subseteq 0 .. 24
BY IntsAssumption DEF IntsAssumption

\* int_select establishes what the CPU relies on, whatever words it finds.
LEMMA SelectEstablishes ==
  ASSUME IntTypeOK,
         int_pending' \subseteq Ints, int_msk' \subseteq MskBits,
         int_line' \subseteq Ints, int_ice' \subseteq IceInts,
         UNCHANGED ice_vc, int_select
  PROVE  IntInv'
<1> DEFINE S == int_pending' \cap int_msk'
<1>1. S \subseteq 0 .. 24
  BY EnabledRange
<1>2. ice_vc \in {0} \cup Vectors
  BY DEF IntTypeOK
<1>3. int_vc' = Vector(S, int_ice')
  BY DEF int_select
<1> HIDE DEF S
<1>4. /\ int_vc' \in {0} \cup Vectors
      /\ S # {} => int_vc' # 0 /\ int_vc' <= LocalVector(S)
  BY <1>1, <1>2, <1>3, VectorFacts
<1>5. LocalVector(S) # 0 => S # {}
  BY <1>1, LocalVectorFacts
<1>6. IntTypeOK'
  BY <1>2, <1>4 DEF IntTypeOK
<1>7. PendingIsVisible'
  BY <1>4, <1>5 DEF PendingIsVisible, S
<1> QED
  BY <1>6, <1>7 DEF IntInv

\* The operations of the script and of the program on the controller.
LEMMA SimulationStep ==
  ASSUME IntInv, Simulation
  PROVE  IntInv'
<1> USE DEF IntInv
<1>1. ASSUME NEW n \in Sources, int_set(n)
      PROVE  IntInv'
  <2>1. CASE n \in int_line
    <3>1. UNCHANGED <<int_pending, int_msk, int_ice, int_vc, ice_vc>>
      BY <1>1, <2>1 DEF int_set
    <3>2. int_line' \subseteq Ints
      BY <1>1, IntsAssumption DEF IntsAssumption, int_set, IntTypeOK
    <3>3. IntTypeOK'
      BY <3>1, <3>2 DEF IntTypeOK
    <3>4. PendingIsVisible'
      BY <3>1 DEF PendingIsVisible
    <3> QED
      BY <3>3, <3>4
  <2>2. CASE n \notin int_line
    BY <1>1, <2>2, IntsAssumption, SelectEstablishes
       DEF IntsAssumption, int_set, IntTypeOK
  <2> QED
    BY <2>1, <2>2
<1>2. ASSUME NEW n \in Sources, int_clear(n)
      PROVE  IntInv'
  BY <1>2 DEF int_clear, IntTypeOK, PendingIsVisible
<1>3. ASSUME RegWrite
      PROVE  IntInv'
  <2>1. ASSUME NEW n \in 0 .. 3, NEW value \in SUBSET (RegBits(n) \cap Ints),
               int_write_clr(n, value)
        PROVE  IntInv'
    BY <2>1, SelectEstablishes DEF int_write_clr, IntTypeOK
  <2>2. ASSUME NEW n \in 0 .. 3, NEW value \in SUBSET RegBits(n),
               int_write_msk(n, value)
        PROVE  IntInv'
    BY <2>2, SelectEstablishes DEF int_write_msk, IntTypeOK, RegBits
  <2>3. ASSUME int_write_vc
        PROVE  IntInv'
    <3>1. LocalVector(int_pending' \cap int_msk') = 0
      BY <2>3 DEF int_write_vc, LocalVector
    <3>2. PendingIsVisible'
      BY <3>1 DEF PendingIsVisible
    <3>3. IntTypeOK'
      BY <2>3 DEF int_write_vc, IntTypeOK
    <3> QED
      BY <3>2, <3>3
  <2> QED
    BY <1>3, <2>1, <2>2, <2>3 DEF RegWrite
<1> QED
  BY <1>1, <1>2, <1>3 DEF Simulation

\* A pin is connected to the chip, or no longer is.
LEMMA IceStep ==
  ASSUME IntInv, NEW n \in IceInts, NEW connected \in BOOLEAN,
         int_set_ice(n, connected)
  PROVE  IntInv'
BY DEF int_set_ice, IntInv, IntTypeOK, PendingIsVisible

\* RegWrite is also what the program may do.
LEMMA RegWriteStep ==
  ASSUME IntInv, RegWrite
  PROVE  IntInv'
BY SimulationStep DEF Simulation

\* What int_poll leaves in INT_VC has the type and hides nothing.
LEMMA PolledVectorFacts ==
  ASSUME IntInv
  PROVE  /\ PolledVector \in {0} \cup Vectors
         /\ LET local == LocalVector(int_pending \cap int_msk)
            IN  local # 0 => PolledVector # 0 /\ PolledVector <= local
<1> DEFINE S == int_pending \cap int_msk
<1>1. S \subseteq 0 .. 24 /\ ice_vc \in {0} \cup Vectors
  BY EnabledRange DEF IntInv, IntTypeOK
<1>2. CASE int_ice = {}
  BY <1>2 DEF PolledVector, IntInv, IntTypeOK, PendingIsVisible
<1>3. CASE int_ice # {}
  <2>1. PolledVector = Vector(S, int_ice)
    BY <1>3 DEF PolledVector
  <2>2. LocalVector(S) # 0 => S # {}
    BY <1>1, LocalVectorFacts
  <2> HIDE DEF S
  <2>3. /\ PolledVector \in {0} \cup Vectors
        /\ S # {} => PolledVector # 0 /\ PolledVector <= LocalVector(S)
    BY <1>1, <2>1, VectorFacts
  <2> QED
    BY <2>2, <2>3 DEF S
<1> QED
  BY <1>2, <1>3

\* A poll after which nothing is taken.
LEMMA PollStep ==
  ASSUME IntInv, PollOnly
  PROVE  IntInv'
<1>1. CASE gie
  BY <1>1, PolledVectorFacts
     DEF PollOnly, int_poll, IntInv, IntTypeOK, PendingIsVisible
<1>2. CASE ~gie
  BY <1>2 DEF PollOnly, intVars, IntInv, IntTypeOK, PendingIsVisible
<1> QED
  BY <1>1, <1>2

\* The controller's part of taking an interrupt.
LEMMA AcknowledgeStep ==
  ASSUME IntInv, NEW vc, Acknowledge(vc)
  PROVE  IntInv'
BY SelectEstablishes DEF Acknowledge, IntInv, IntTypeOK

-----------------------------------------------------------------------------
(* The inductive invariant *)

\* Interrupts are enabled only where one more frame fits.
Room == gie => Len(frames) < MaxDepth

\* The stack can only be shown to hold the frames together with their number,
\* and the flags and the pc that RETI restores have their type only because the
\* stack holds the frames.
CpuInv ==
  /\ TypeOK
  /\ PendingIsVisible
  /\ NestingBounded
  /\ Room
  /\ StackHoldsFrames

Frame == Addresses \X Flags

\* The initial state satisfies it.
LEMMA InitInv == Init => CpuInv
<1> SUFFICES ASSUME Init PROVE CpuInv
  OBVIOUS
<1> USE CpuAssumption DEF CpuAssumption
<1>1. IntTypeOK
  BY DEF Init, int_init, IntTypeOK
<1>2. PendingIsVisible
  <2>1. LocalVector(int_pending \cap int_msk) = 0
    BY DEF Init, int_init, LocalVector
  <2> QED
    BY <2>1 DEF PendingIsVisible
<1>3. 0 \in 0 .. StackSize - 1
  OBVIOUS
<1>4. TypeOK
  BY <1>1, <1>3 DEF Init, TypeOK, Addresses, Flags, Byte
<1>5. NestingBounded /\ Room
  BY DEF Init, NestingBounded, Room, gie
<1>6. StackHoldsFrames
  BY DEF Init, StackHoldsFrames
<1> QED
  BY <1>4, <1>2, <1>5, <1>6 DEF CpuInv

\* With the invariant, a frame that is pushed lies behind the others and the
\* stack pointer does not wrap.
LEMMA TakeStep ==
  ASSUME CpuInv, TakeInterrupt
  PROVE  CpuInv'
<1> USE CpuAssumption DEF CpuAssumption
<1> DEFINE n == Len(frames)
<1>1. /\ frames \in Seq(Frame) /\ n \in Nat /\ n < MaxDepth
      /\ sp = 3 * n /\ pc \in Addresses /\ f \in Flags
      /\ stack \in [0 .. StackSize - 1 -> 0 .. Byte - 1]
  BY DEF CpuInv, TakeInterrupt, Room, TypeOK, StackHoldsFrames, Frame
<1> HIDE DEF n
<1>2. /\ sp \in 0 .. StackSize - 1 /\ sp + 1 \in 0 .. StackSize - 1
      /\ sp + 2 \in 0 .. StackSize - 1 /\ sp + 3 \in 0 .. StackSize - 1
  <2>1. sp \in Nat /\ sp + 3 <= 3 * MaxDepth
    BY <1>1
  <2> QED
    BY <2>1
<1>3. /\ Up(sp) = sp + 1
      /\ Up(sp + 1) = sp + 2
      /\ Up(sp + 2) = sp + 3
  BY <1>2 DEF Up
<1>4. /\ sp' = sp + 3
      /\ stack' = [stack EXCEPT ![sp] = pc \div Byte, ![sp + 1] = pc % Byte,
                                ![sp + 2] = f]
  BY <1>3 DEF TakeInterrupt, EnterHandler
<1>5. /\ pc \div Byte \in 0 .. Byte - 1 /\ pc % Byte \in 0 .. Byte - 1
      /\ pc = ((pc \div Byte) * Byte) + (pc % Byte)
  <2>1. pc \in Nat /\ pc < 65536
    BY <1>1 DEF Addresses
  <2> HIDE <1>1
  <2> QED
    BY <2>1 DEF Byte
<1>6. f \in 0 .. Byte - 1
  BY <1>1 DEF Byte, Flags
<1>7. /\ stack' \in [0 .. StackSize - 1 -> 0 .. Byte - 1]
      /\ stack'[sp] = pc \div Byte
      /\ stack'[sp + 1] = pc % Byte
      /\ stack'[sp + 2] = f
      /\ \A c \in 0 .. StackSize - 1 : c < sp => stack'[c] = stack[c]
  <2> DEFINE hi == pc \div Byte
             lo == pc % Byte
             B  == 0 .. Byte - 1
             D  == 0 .. StackSize - 1
  <2>1. /\ hi \in B /\ lo \in B /\ f \in B /\ stack \in [D -> B]
        /\ stack' = [stack EXCEPT ![sp] = hi, ![sp + 1] = lo, ![sp + 2] = f]
        /\ sp \in D /\ sp + 1 \in D /\ sp + 2 \in D /\ sp \in Nat
    BY <1>1, <1>2, <1>4, <1>5, <1>6
  <2> HIDE DEF hi, lo, B
  <2>2. stack' \in [D -> B]
    BY <2>1
  <2>3. stack'[sp] = hi /\ stack'[sp + 1] = lo /\ stack'[sp + 2] = f
    BY <2>1
  <2>4. \A c \in D : c < sp => stack'[c] = stack[c]
    BY <2>1
  <2> QED
    BY <2>2, <2>3, <2>4 DEF hi, lo, B
<1>8. /\ frames' \in Seq(Frame) /\ Len(frames') = n + 1
      /\ \A d \in 1 .. n : frames'[d] = frames[d]
      /\ frames'[n + 1] = <<pc, f>>
  <2>1. frames' = Append(frames, <<pc, f>>) /\ <<pc, f>> \in Frame
    BY <1>1 DEF TakeInterrupt, EnterHandler, Frame
  <2> QED
    BY <1>1, <2>1, AppendProperties DEF n
<1>9. IntInv'
  BY AcknowledgeStep DEF TakeInterrupt, CpuInv, TypeOK, IntInv
<1>10. pc' \in Addresses /\ f' = 0
  <2>1. PolledVector \in Vectors
    BY PolledVectorFacts DEF CpuInv, TypeOK, IntInv, TakeInterrupt
  <2>2. \A v \in Vectors : v \in Addresses
    BY DEF Vectors, Addresses
  <2> QED
    BY <2>1, <2>2 DEF TakeInterrupt, EnterHandler
<1>11. TypeOK'
  <2>1. f' \in Flags
    BY <1>10 DEF Flags
  <2>2. sp' \in 0 .. StackSize - 1
    BY <1>2, <1>4
  <2>3. cut' \in BOOLEAN
    BY DEF TakeInterrupt
  <2> QED
    BY <1>7, <1>8, <1>9, <1>10, <2>1, <2>2, <2>3 DEF TypeOK, IntInv, Frame
<1>12. NestingBounded' /\ Room'
  BY <1>1, <1>8, <1>10 DEF NestingBounded, Room, gie
<1>13. ASSUME NEW d \in 1 .. Len(frames')
       PROVE  FrameAt(d)'
  <2>1. CASE d = n + 1
    <3>1. 3 * d - 3 = sp /\ 3 * d - 2 = sp + 1 /\ 3 * d - 1 = sp + 2
      BY <1>1, <2>1
    <3>2. frames'[d][1] = pc /\ frames'[d][2] = f
      BY <1>8, <2>1
    <3> QED
      BY <1>5, <1>7, <3>1, <3>2 DEF FrameAt
  <2>2. CASE d \in 1 .. n
    <3>1. FrameAt(d)
      BY <2>2 DEF CpuInv, StackHoldsFrames, n
    <3>2. /\ 3 * d - 3 \in 0 .. StackSize - 1 /\ 3 * d - 3 < sp
          /\ 3 * d - 2 \in 0 .. StackSize - 1 /\ 3 * d - 2 < sp
          /\ 3 * d - 1 \in 0 .. StackSize - 1 /\ 3 * d - 1 < sp
      <4>1. d \in Nat /\ 1 <= d /\ d <= n
        BY <1>1, <2>2
      <4>2. sp \in Nat /\ sp < StackSize /\ sp = 3 * n /\ n \in Nat
        BY <1>1, <1>2
      <4> QED
        BY <4>1, <4>2
    <3>3. /\ stack'[3 * d - 3] = stack[3 * d - 3]
          /\ stack'[3 * d - 2] = stack[3 * d - 2]
          /\ stack'[3 * d - 1] = stack[3 * d - 1]
      BY <1>7, <3>2
    <3>4. frames'[d] = frames[d]
      BY <1>8, <2>2
    <3> QED
      BY <3>1, <3>3, <3>4 DEF FrameAt
  <2> QED
    BY <1>1, <1>8, <2>1, <2>2
<1>14. StackHoldsFrames'
  <2>1. sp' = sp + 3 /\ sp = 3 * n /\ n \in Nat /\ Len(frames') = n + 1
    BY <1>1, <1>4, <1>8
  <2>2. sp' = 3 * Len(frames')
    BY <2>1
  <2> QED
    BY <1>13, <2>2 DEF StackHoldsFrames
<1> QED
  BY <1>9, <1>11, <1>12, <1>14 DEF CpuInv, IntInv

\* RETI pops the last frame: what it restores is what was interrupted.
LEMMA RetiRestores ==
  ASSUME CpuInv, Reti
  PROVE  /\ <<pc', f'>> = frames[Len(frames)]
         /\ frames[Len(frames)] \in Frame
         /\ sp' = sp - 3 /\ sp' \in 0 .. StackSize - 1
<1> USE CpuAssumption DEF CpuAssumption
<1> DEFINE n == Len(frames)
<1>1. /\ frames \in Seq(Frame) /\ n \in Nat \ {0} /\ n <= MaxDepth
      /\ sp = 3 * n
  BY DEF CpuInv, Reti, TypeOK, NestingBounded, StackHoldsFrames, Frame
<1>2. frames[n] \in Frame /\ n \in 1 .. n
  BY <1>1
<1>3. FrameAt(n)
  BY <1>2 DEF CpuInv, StackHoldsFrames
<1> HIDE DEF n
<1>4. /\ sp - 1 = 3 * n - 1 /\ sp - 2 = 3 * n - 2 /\ sp - 3 = 3 * n - 3
      /\ sp - 3 \in 0 .. StackSize - 1
      /\ sp \in Nat /\ sp - 1 \in Nat /\ sp - 2 \in Nat
      /\ sp # 0 /\ sp - 1 # 0 /\ sp - 2 # 0
  BY <1>1
<1>5. /\ Down(sp) = sp - 1 /\ Down(sp - 1) = sp - 2 /\ Down(sp - 2) = sp - 3
  BY <1>4 DEF Down
<1>6. /\ sp' = sp - 3
      /\ f' = stack[3 * n - 1]
      /\ pc' = stack[3 * n - 2] + stack[3 * n - 3] * Byte
  BY <1>4, <1>5 DEF Reti
<1>7. f' = frames[n][2]
  BY <1>3, <1>6 DEF FrameAt
<1>8. pc' = frames[n][1]
  <2>1. /\ stack[3 * n - 2] \in Int /\ stack[3 * n - 3] \in Int
        /\ Byte \in Int
    <3>1. 3 * n - 2 \in 0 .. StackSize - 1 /\ 3 * n - 3 \in 0 .. StackSize - 1
      BY <1>1
    <3>2. stack \in [0 .. StackSize - 1 -> 0 .. Byte - 1]
      BY DEF CpuInv, TypeOK
    <3>3. Byte \in Int
      BY DEF Byte
    <3> QED
      BY <3>1, <3>2, <3>3
  <2>2. \A x, y, z \in Int : x * y + z = z + x * y
    OBVIOUS
  <2> QED
    BY <1>3, <1>6, <2>1, <2>2 DEF FrameAt
<1>9. frames[n] = <<frames[n][1], frames[n][2]>>
  BY <1>2 DEF Frame
<1> QED
  BY <1>2, <1>4, <1>6, <1>7, <1>8, <1>9 DEF n

\* Returning from an interrupt keeps the invariant: the other frames stay.
LEMMA RetiStep ==
  ASSUME CpuInv, Reti
  PROVE  CpuInv'
<1> DEFINE n == Len(frames)
<1>1. /\ frames \in Seq(Frame) /\ n \in Nat \ {0} /\ n <= MaxDepth
      /\ sp = 3 * n /\ MaxDepth \in Nat
  BY CpuAssumption
     DEF CpuAssumption, CpuInv, Reti, TypeOK, NestingBounded, StackHoldsFrames,
         Frame
<1>2. /\ frames' \in Seq(Frame) /\ Len(frames') = n - 1
      /\ \A d \in 1 .. n - 1 : frames'[d] = frames[d]
  <2>1. \A d \in 1 .. n - 1 : frames[d] \in Frame
    BY <1>1
  <2>2. frames' = SubSeq(frames, 1, n - 1)
    BY DEF Reti
  <2> DEFINE m == n - 1
  <2>3. m \in Nat /\ m \in Int /\ 1 \in Int
    BY <1>1
  <2> HIDE DEF m, n
  <2>4. /\ SubSeq(frames, 1, m) \in Seq(Frame)
        /\ Len(SubSeq(frames, 1, m)) = IF 1 <= m THEN m - 1 + 1 ELSE 0
        /\ \A d \in 1 .. m - 1 + 1 :
             SubSeq(frames, 1, m)[d] = frames[1 + d - 1]
    BY <2>1, <2>3, SubSeqProperties DEF m
  <2>5. Len(SubSeq(frames, 1, m)) = m
    BY <2>3, <2>4
  <2>6. ASSUME NEW d \in 1 .. m PROVE SubSeq(frames, 1, m)[d] = frames[d]
    <3>1. d \in 1 .. m - 1 + 1 /\ 1 + d - 1 = d
      BY <2>3
    <3> QED
      BY <2>4, <3>1
  <2> QED
    BY <2>2, <2>4, <2>5, <2>6 DEF m
<1> HIDE DEF n
<1>3. IntInv'
  BY PollStep DEF Reti, CpuInv, TypeOK, IntInv
<1>4. pc' \in Addresses /\ f' \in Flags
  BY RetiRestores DEF Frame
<1>5. TypeOK'
  BY <1>2, <1>3, <1>4, RetiRestores
     DEF Reti, CpuInv, TypeOK, IntInv, Frame
<1>6. NestingBounded' /\ Room'
  BY <1>1, <1>2 DEF NestingBounded, Room
<1>7. ASSUME NEW d \in 1 .. n - 1
      PROVE  FrameAt(d)'
  <2>1. FrameAt(d)
    BY <1>1 DEF CpuInv, StackHoldsFrames, n
  <2>2. frames'[d] = frames[d] /\ stack' = stack
    BY <1>2 DEF Reti
  <2> QED
    BY <2>1, <2>2 DEF FrameAt
<1>8. StackHoldsFrames'
  <2>1. sp' = 3 * Len(frames')
    BY <1>1, <1>2, RetiRestores
  <2> QED
    BY <1>2, <1>7, <2>1 DEF StackHoldsFrames
<1> QED
  BY <1>3, <1>5, <1>6, <1>8 DEF CpuInv, IntInv

\* A step that leaves the stack alone keeps the frames.
LEMMA FramesKept ==
  ASSUME CpuInv, UNCHANGED <<sp, stack, frames>>
  PROVE  StackHoldsFrames' /\ NestingBounded'
BY DEF CpuInv, StackHoldsFrames, NestingBounded, FrameAt

\* An instruction that leaves the stack alone keeps the invariant.
LEMMA InstructionStep ==
  ASSUME CpuInv, NEW to \in PCs, NEW flags \in Flags, Instruction(to, flags)
  PROVE  CpuInv'
<1>1. IntInv'
  BY PollStep DEF Instruction, CpuInv, TypeOK, IntInv
<1>2. pc' \in Addresses /\ f' = flags /\ UNCHANGED <<sp, stack, frames, cut>>
  BY CpuAssumption DEF CpuAssumption, Instruction
<1>3. TypeOK'
  BY <1>1, <1>2 DEF CpuInv, TypeOK, IntInv
<1>4. Room'
  BY <1>2 DEF Instruction, Room, gie
<1> QED
  BY <1>1, <1>2, <1>3, <1>4, FramesKept DEF CpuInv, IntInv

\* A step of the controller, the CPU at most jumping.
LEMMA ControllerStep ==
  ASSUME CpuInv, IntInv', UNCHANGED <<f, sp, stack, frames>>, pc' \in Addresses,
         cut' \in BOOLEAN
  PROVE  CpuInv'
<1>1. TypeOK'
  BY DEF CpuInv, TypeOK, IntInv
<1>2. Room'
  BY DEF CpuInv, Room, gie
<1> QED
  BY <1>1, <1>2, FramesKept DEF CpuInv, IntInv

\* So does an instruction that writes a register of the controller,
LEMMA WriteStep ==
  ASSUME CpuInv, NEW to \in PCs, WriteInstruction(to)
  PROVE  CpuInv'
<1>1. IntInv'
  BY RegWriteStep DEF WriteInstruction, CpuInv, TypeOK, IntInv
<1>2. pc' \in Addresses /\ cut' \in BOOLEAN
  BY CpuAssumption DEF CpuAssumption, WriteInstruction, CpuInv, TypeOK
<1> QED
  BY <1>1, <1>2, ControllerStep DEF WriteInstruction

\* what the script does between two instructions,
LEMMA ScriptStep ==
  ASSUME CpuInv, Script
  PROVE  CpuInv'
<1>1. IntInv'
  BY SimulationStep DEF Script, CpuInv, TypeOK, IntInv
<1>2. pc' \in Addresses /\ cut' \in BOOLEAN
  BY DEF Script, cpuVars, CpuInv, TypeOK
<1> QED
  BY <1>1, <1>2, ControllerStep DEF Script, cpuVars

\* the connections to the chip that change,
LEMMA ConnectionStep ==
  ASSUME CpuInv, NEW n \in IceInts, Connect(n) \/ Disconnect(n)
  PROVE  CpuInv'
<1>1. IntInv'
  BY IceStep DEF Connect, Disconnect, CpuInv, TypeOK, IntInv
<1>2. pc' \in Addresses /\ cut' \in BOOLEAN
  BY DEF Connect, Disconnect, cpuVars, CpuInv, TypeOK
<1> QED
  BY <1>1, <1>2, ControllerStep DEF Connect, Disconnect, cpuVars

\* and what the chip behind the ICE does.
LEMMA TargetStep ==
  ASSUME CpuInv, Target
  PROVE  CpuInv'
<1>1. PICK vc \in IceVectors : TargetChanges(vc) /\ UNCHANGED <<cpuVars, cut>>
  BY DEF Target
<1>2. vc \in {0} \cup Vectors
  <2>1. ASSUME NEW j \in IceInts PROVE 4 * int2prio[j] \in Vectors
    <3>1. j \in 0 .. 24
      BY IntsAssumption DEF IntsAssumption
    <3> QED
      BY <3>1, int2prioType DEF Vectors
  <2> QED
    BY <2>1 DEF IceVectors
<1>3. IntInv'
  BY <1>1, <1>2
     DEF TargetChanges, CpuInv, TypeOK, IntInv, IntTypeOK, PendingIsVisible
<1>4. pc' \in Addresses /\ cut' \in BOOLEAN
  BY <1>1 DEF cpuVars, CpuInv, TypeOK
<1> QED
  BY <1>1, <1>3, <1>4, ControllerStep DEF cpuVars

\* The invariant is inductive.
LEMMA NextInv == CpuInv /\ [Next]_vars => CpuInv'
<1> SUFFICES ASSUME CpuInv, [Next]_vars PROVE CpuInv'
  OBVIOUS
<1>1. CASE CpuStep
  BY <1>1, TakeStep, RetiStep, InstructionStep, WriteStep DEF CpuStep
<1>2. CASE Script
  BY <1>2, ScriptStep
<1>3. CASE Target
  BY <1>3, TargetStep
<1>4. ASSUME NEW n \in IceInts, Connect(n) \/ Disconnect(n)
      PROVE  CpuInv'
  BY <1>4, ConnectionStep
<1>5. CASE UNCHANGED vars
  <2>1. IntInv'
    BY <1>5 DEF vars, intVars, CpuInv, TypeOK, IntInv, IntTypeOK, PendingIsVisible
  <2>2. pc' \in Addresses /\ cut' \in BOOLEAN
    BY <1>5 DEF vars, cpuVars, CpuInv, TypeOK
  <2> QED
    BY <1>5, <2>1, <2>2, ControllerStep DEF vars, cpuVars
<1> QED
  BY <1>1, <1>2, <1>3, <1>4, <1>5 DEF Next

\* The invariant holds, for every set of interrupts, with and without the ICE,
\* and for every depth of nesting whose frames fit the stack.
THEOREM Invariance == Spec => []CpuInv
BY InitInv, NextInv, PTL DEF Spec

-----------------------------------------------------------------------------
(* What it means *)

\* The controller, the CPU and the stack keep their types.
THEOREM TypeCorrect == Spec => []TypeOK
<1>1. CpuInv => TypeOK
  BY DEF CpuInv
<1> QED
  BY <1>1, Invariance, PTL

\* No enabled pending interrupt is hidden from the CPU.
THEOREM PendingVisible == Spec => []PendingIsVisible
<1>1. CpuInv => PendingIsVisible
  BY DEF CpuInv
<1> QED
  BY <1>1, Invariance, PTL

\* Handlers nest only as deep as the program lets them.
THEOREM Nesting == Spec => []NestingBounded
<1>1. CpuInv => NestingBounded
  BY DEF CpuInv
<1> QED
  BY <1>1, Invariance, PTL

\* The stack holds the frames of the interrupts that are being handled.
THEOREM StackSound == Spec => []StackHoldsFrames
<1>1. CpuInv => StackHoldsFrames
  BY DEF CpuInv
<1> QED
  BY <1>1, Invariance, PTL

\* However deep the handlers nest, RETI returns to what was interrupted last.
THEOREM ReturnsRight == Spec => ReturnsToInterrupted
<1>1. CpuInv /\ [Next]_vars
        => [Reti => <<pc', f'>> = frames[Len(frames)]]_vars
  BY RetiRestores
<1> QED
  BY <1>1, Invariance, PTL DEF Spec, ReturnsToInterrupted

\* Two bits are in another order than in the table only if they are Inverted.
LEMMA InvertedBits ==
  ASSUME NEW b \in 0 .. 24, NEW c \in 0 .. 24, b < c, <<b, c>> \notin Inverted
  PROVE  int2prio[b] < int2prio[c]
<1>1. ~(b = 5 /\ c = 7) /\ b # 6
  <2>1. c \in 7 .. 24 \/ b # 6
    OBVIOUS
  <2> QED
    BY <2>1 DEF Inverted
<1> QED
  BY <1>1 DEF int2prio

\* Whatever is pending, the CPU takes the interrupt that comes first in the
\* vector table, or one that passes over it because of the two bits whose place
\* in the table is another.
THEOREM TakesFirst == Spec => FirstVectorFirst
<1>1. ASSUME CpuInv, TakeInterrupt, NEW b \in int_pending \cap int_msk
      PROVE  \/ PolledVector <= 4 * int2prio[b]
             \/ \E j \in int_pending \cap int_msk : <<j, b>> \in Inverted
  <2> DEFINE S == int_pending \cap int_msk
  <2>1. S \subseteq 0 .. 24 /\ b \in S
    BY <1>1, EnabledRange DEF CpuInv, TypeOK, IntTypeOK
  <2> HIDE DEF S
  <2>2. /\ Lowest(S) \in S /\ Lowest(S) <= b
        /\ LocalVector(S) = 4 * int2prio[Lowest(S)] /\ LocalVector(S) # 0
    BY <2>1, LowestIsLeast, LocalVectorFacts
  <2> DEFINE l == Lowest(S)
  <2>3. /\ l \in S /\ l <= b /\ l \in 0 .. 24 /\ b \in 0 .. 24
        /\ LocalVector(S) = 4 * int2prio[l] /\ LocalVector(S) # 0
    BY <2>1, <2>2
  <2> HIDE DEF l
  <2>4. int2prio[l] \in 1 .. 25 /\ int2prio[b] \in 1 .. 25
    BY <2>3, int2prioType
  <2>5. PolledVector <= LocalVector(S) /\ PolledVector \in Nat
    <3>1. IntInv
      BY <1>1 DEF CpuInv, TypeOK, IntInv
    <3>2. /\ PolledVector \in {0} \cup Vectors
          /\ PolledVector <= LocalVector(S)
      BY <2>3, <3>1, PolledVectorFacts DEF S
    <3> QED
      BY <3>2 DEF Vectors
  <2>6. CASE <<l, b>> \in Inverted
    BY <2>3, <2>6 DEF S
  <2>7. CASE <<l, b>> \notin Inverted
    <3>1. l = b \/ l < b
      BY <2>3
    <3>2. l < b => int2prio[l] < int2prio[b]
      BY <2>3, <2>7, InvertedBits
    <3>3. int2prio[l] <= int2prio[b]
      BY <2>4, <3>1, <3>2
    <3> QED
      BY <2>3, <2>4, <2>5, <3>3
  <2> QED
    BY <2>6, <2>7
<1>2. CpuInv /\ [Next]_vars
        => [TakeInterrupt => \A i \in int_pending \cap int_msk :
              \/ PolledVector <= 4 * int2prio[i]
              \/ \E j \in int_pending \cap int_msk : <<j, i>> \in Inverted]_vars
  BY <1>1
<1> QED
  BY <1>2, Invariance, PTL DEF Spec, FirstVectorFirst

\* A vector is that of an interrupt of S, or of one the chip may raise.
From(vc, S) == vc # 0 => prio2int[vc \div 4] \in S \cup IceInts

\* Where the two vectors come from.
Origin ==
  /\ From(ice_vc, {})
  /\ From(int_vc, int_pending \cap int_msk)

\* Going from an interrupt to its vector and back.
LEMMA VectorInverse ==
  ASSUME NEW b \in 0 .. 24
  PROVE  prio2int[(4 * int2prio[b]) \div 4] = b
<1>1. int2prio[b] \in 1 .. 25
  BY int2prioType
<1>2. (4 * int2prio[b]) \div 4 = int2prio[b]
  BY <1>1
<1> QED
  BY <1>2, prio2intInverse

\* The selected vector comes from the words or from the chip.
LEMMA VectorFrom ==
  ASSUME NEW S, S \subseteq 0 .. 24, NEW ice, From(ice_vc, {})
  PROVE  From(Vector(S, ice), S)
<1>1. From(LocalVector(S), S)
  <2>1. CASE S = {}
    BY <2>1 DEF From, LocalVector
  <2>2. CASE S # {}
    <3>1. Lowest(S) \in S /\ LocalVector(S) = 4 * int2prio[Lowest(S)]
      BY <2>2, LowestIsLeast, LocalVectorFacts
    <3>2. prio2int[LocalVector(S) \div 4] = Lowest(S)
      BY <3>1, VectorInverse
    <3> QED
      BY <3>1, <3>2 DEF From
  <2> QED
    BY <2>1, <2>2
<1>2. From(ice_vc, S)
  BY DEF From
<1>3. Vector(S, ice) = LocalVector(S) \/ Vector(S, ice) = ice_vc
  BY DEF Vector
<1> QED
  BY <1>1, <1>2, <1>3

\* int_select keeps it so.
LEMMA SelectOrigin ==
  ASSUME Origin, int_pending' \subseteq Ints, UNCHANGED ice_vc, int_select
  PROVE  Origin'
<1> DEFINE S == int_pending' \cap int_msk'
<1>1. S \subseteq 0 .. 24 /\ From(ice_vc, {})
  BY EnabledRange DEF Origin
<1>2. int_vc' = Vector(S, int_ice')
  BY DEF int_select
<1> HIDE DEF S
<1>3. From(int_vc', S)
  BY <1>1, <1>2, VectorFrom
<1> QED
  BY <1>1, <1>3 DEF Origin, From, S

\* A step that leaves the words and the two vectors alone keeps it so.
LEMMA OriginKept ==
  ASSUME Origin, UNCHANGED <<int_pending, int_msk, int_vc, ice_vc>>
  PROVE  Origin'
BY DEF Origin, From

\* A write to a register of the controller keeps it so.
LEMMA RegWriteOrigin ==
  ASSUME IntTypeOK, Origin, RegWrite
  PROVE  Origin'
<1>1. ASSUME NEW n \in 0 .. 3, NEW value \in SUBSET (RegBits(n) \cap Ints),
             int_write_clr(n, value)
      PROVE  Origin'
  <2>1. int_pending' \subseteq Ints
    BY <1>1 DEF int_write_clr, IntTypeOK
  <2> QED
    BY <1>1, <2>1, SelectOrigin DEF int_write_clr
<1>2. ASSUME NEW n \in 0 .. 3, NEW value \in SUBSET RegBits(n),
             int_write_msk(n, value)
      PROVE  Origin'
  <2>1. int_pending' \subseteq Ints
    BY <1>2 DEF int_write_msk, IntTypeOK
  <2> QED
    BY <1>2, <2>1, SelectOrigin DEF int_write_msk
<1>3. ASSUME int_write_vc
      PROVE  Origin'
  BY <1>3 DEF int_write_vc, Origin, From
<1> QED
  BY <1>1, <1>2, <1>3 DEF RegWrite

\* What the CPU is given by int_poll comes from the words or from the chip.
LEMMA PolledFrom ==
  ASSUME IntTypeOK, Origin
  PROVE  From(PolledVector, int_pending \cap int_msk)
<1> DEFINE S == int_pending \cap int_msk
<1>1. S \subseteq 0 .. 24 /\ From(ice_vc, {}) /\ From(int_vc, S)
  BY EnabledRange DEF Origin, IntTypeOK
<1>2. PolledVector = int_vc \/ PolledVector = Vector(S, int_ice)
  BY DEF PolledVector
<1> HIDE DEF S
<1>3. From(Vector(S, int_ice), S)
  BY <1>1, VectorFrom
<1>4. From(PolledVector, S)
  BY <1>1, <1>2, <1>3
<1> QED
  BY <1>4 DEF S

\* An edge or a level of a source, and a write of the script.
LEMMA ScriptOrigin ==
  ASSUME IntTypeOK, Origin, Simulation
  PROVE  Origin'
<1>1. ASSUME NEW n \in Sources, int_set(n)
      PROVE  Origin'
  <2>1. CASE n \in int_line
    <3>1. UNCHANGED <<int_pending, int_msk, int_vc, ice_vc>>
      BY <1>1, <2>1 DEF int_set
    <3> QED
      BY <3>1, OriginKept
  <2>2. CASE n \notin int_line
    <3>1. int_pending' \subseteq Ints /\ int_select /\ UNCHANGED ice_vc
      BY <1>1, <2>2, IntsAssumption DEF IntsAssumption, int_set, IntTypeOK
    <3> QED
      BY <3>1, SelectOrigin
  <2> QED
    BY <2>1, <2>2
<1>2. ASSUME NEW n \in Sources, int_clear(n)
      PROVE  Origin'
  BY <1>2, OriginKept DEF int_clear
<1> QED
  BY <1>1, <1>2, RegWriteOrigin DEF Simulation

\* Every step keeps it so.
LEMMA OriginStep == CpuInv /\ Origin /\ [Next]_vars => Origin'
<1> SUFFICES ASSUME CpuInv, Origin, [Next]_vars PROVE Origin'
  OBVIOUS
<1>1. IntTypeOK
  BY DEF CpuInv, TypeOK
<1>2. CASE TakeInterrupt
  <2>1. int_pending' \subseteq Ints
    BY <1>1, <1>2 DEF TakeInterrupt, Acknowledge, IntTypeOK
  <2> QED
    BY <1>2, <2>1, SelectOrigin DEF TakeInterrupt, Acknowledge
<1>3. ASSUME PollOnly PROVE Origin'
  <2>1. CASE gie
    <3>1. /\ int_vc' = PolledVector
          /\ UNCHANGED <<int_pending, int_msk, ice_vc>>
      BY <1>3, <2>1 DEF PollOnly, int_poll
    <3>2. From(PolledVector, int_pending \cap int_msk)
      BY <1>1, PolledFrom
    <3> QED
      BY <3>1, <3>2 DEF Origin, From
  <2>2. CASE ~gie
    BY <1>3, <2>2, OriginKept DEF PollOnly, intVars
  <2> QED
    BY <2>1, <2>2
<1>4. CASE CpuStep
  BY <1>1, <1>2, <1>3, <1>4, RegWriteOrigin
     DEF CpuStep, Reti, Instruction, WriteInstruction
<1>5. CASE Script
  BY <1>1, <1>5, ScriptOrigin DEF Script
<1>6. CASE Target
  <2>1. PICK vc \in IceVectors : TargetChanges(vc)
    BY <1>6 DEF Target
  <2>2. From(vc, {})
    <3>1. CASE vc = 0
      BY <3>1 DEF From
    <3>2. CASE vc # 0
      <4>1. PICK b \in IceInts : vc = 4 * int2prio[b]
        BY <3>2 DEF IceVectors
      <4>2. b \in 0 .. 24
        BY IntsAssumption DEF IntsAssumption
      <4> QED
        BY <4>1, <4>2, VectorInverse DEF From
    <3> QED
      BY <3>1, <3>2
  <2> QED
    BY <2>1, <2>2 DEF TargetChanges, Origin, From
<1>7. ASSUME NEW n \in IceInts, Connect(n) \/ Disconnect(n)
      PROVE  Origin'
  BY <1>7, OriginKept DEF Connect, Disconnect, int_set_ice
<1>8. CASE UNCHANGED vars
  BY <1>8, OriginKept DEF vars, intVars
<1> QED
  BY <1>4, <1>5, <1>6, <1>7, <1>8 DEF Next

\* No interrupt is taken that is not pending and enabled, but for those the chip
\* behind the ICE may raise; without the ICE there are none of these.
THEOREM NoPhantoms == Spec => NoPhantom
<1>1. Init => Origin
  BY DEF Init, int_init, Origin, From
<1>2. Spec => []Origin
  BY <1>1, OriginStep, Invariance, PTL DEF Spec
<1>3. ASSUME CpuInv, Origin, TakeInterrupt
      PROVE  prio2int[PolledVector \div 4]
               \in (int_pending \cap int_msk) \cup IceInts
  BY <1>3, PolledFrom DEF CpuInv, TypeOK, TakeInterrupt, From
<1>4. CpuInv /\ Origin /\ [Next]_vars
        => [TakeInterrupt => prio2int[PolledVector \div 4]
                               \in (int_pending \cap int_msk) \cup IceInts]_vars
  BY <1>3
<1> QED
  BY <1>2, <1>4, Invariance, PTL DEF Spec, NoPhantom

\* With no pin connected, INT_VC is the simulator's own vector, unless the chip's
\* last one was left there by the disconnection.
OwnVector ==
  int_ice = {} /\ ~cut => int_vc = LocalVector(int_pending \cap int_msk)

\* int_select makes it so.
LEMMA SelectOwn ==
  ASSUME int_pending' \subseteq Ints, IntTypeOK, int_select, UNCHANGED ice_vc
  PROVE  OwnVector'
<1> DEFINE S == int_pending' \cap int_msk'
<1>1. S \subseteq 0 .. 24 /\ ice_vc \in {0} \cup Vectors
  BY EnabledRange DEF IntTypeOK
<1>2. int_vc' = Vector(S, int_ice')
  BY DEF int_select
<1> HIDE DEF S
<1>3. int_ice' = {} => int_vc' = LocalVector(S)
  BY <1>1, <1>2, VectorFacts
<1> QED
  BY <1>3 DEF OwnVector, S

\* A step that leaves the words and INT_VC alone keeps it so.
LEMMA OwnKept ==
  ASSUME OwnVector, UNCHANGED <<int_pending, int_msk, int_vc, int_ice, cut>>
  PROVE  OwnVector'
BY DEF OwnVector

\* So does a write to a register of the controller,
LEMMA RegWriteOwn ==
  ASSUME IntTypeOK, RegWrite
  PROVE  OwnVector'
<1>1. ASSUME NEW n \in 0 .. 3, NEW value \in SUBSET (RegBits(n) \cap Ints),
             int_write_clr(n, value)
      PROVE  OwnVector'
  <2>1. int_pending' \subseteq Ints
    BY <1>1 DEF int_write_clr, IntTypeOK
  <2> QED
    BY <1>1, <2>1, SelectOwn DEF int_write_clr
<1>2. ASSUME NEW n \in 0 .. 3, NEW value \in SUBSET RegBits(n),
             int_write_msk(n, value)
      PROVE  OwnVector'
  <2>1. int_pending' \subseteq Ints
    BY <1>2 DEF int_write_msk, IntTypeOK
  <2> QED
    BY <1>2, <2>1, SelectOwn DEF int_write_msk
<1>3. ASSUME int_write_vc
      PROVE  OwnVector'
  <2>1. int_vc' = 0 /\ int_pending' \cap int_msk' = {}
    BY <1>3 DEF int_write_vc
  <2> QED
    BY <2>1 DEF OwnVector, LocalVector
<1> QED
  BY <1>1, <1>2, <1>3 DEF RegWrite

\* an edge or a level of a source,
LEMMA ScriptOwn ==
  ASSUME IntTypeOK, OwnVector, Script
  PROVE  OwnVector'
<1>1. ASSUME NEW n \in Sources, int_set(n)
      PROVE  OwnVector'
  <2>1. CASE n \in int_line
    BY <1>1, <2>1, OwnKept DEF int_set, Script
  <2>2. CASE n \notin int_line
    <3>1. int_pending' \subseteq Ints /\ int_select /\ UNCHANGED ice_vc
      BY <1>1, <2>2, IntsAssumption DEF IntsAssumption, int_set, IntTypeOK
    <3> QED
      BY <3>1, SelectOwn
  <2> QED
    BY <2>1, <2>2
<1>2. ASSUME NEW n \in Sources, int_clear(n)
      PROVE  OwnVector'
  BY <1>2, OwnKept DEF int_clear, Script
<1> QED
  BY <1>1, <1>2, RegWriteOwn DEF Script, Simulation

\* and every other step: a disconnection of the last pin is remembered until the
\* CPU takes an interrupt, after which int_handle selects.
LEMMA OwnStep == CpuInv /\ OwnVector /\ [Next]_vars => OwnVector'
<1> SUFFICES ASSUME CpuInv, OwnVector, [Next]_vars PROVE OwnVector'
  OBVIOUS
<1>1. IntTypeOK
  BY DEF CpuInv, TypeOK
<1>2. CASE TakeInterrupt
  <2>1. int_pending' \subseteq Ints
    BY <1>1, <1>2 DEF TakeInterrupt, Acknowledge, IntTypeOK
  <2> QED
    BY <1>1, <1>2, <2>1, SelectOwn DEF TakeInterrupt, Acknowledge
<1>3. ASSUME PollOnly, UNCHANGED cut PROVE OwnVector'
  BY <1>3 DEF PollOnly, int_poll, intVars, PolledVector, OwnVector
<1>4. CASE CpuStep
  BY <1>1, <1>2, <1>3, <1>4, RegWriteOwn
     DEF CpuStep, Reti, Instruction, WriteInstruction
<1>5. CASE Script
  BY <1>1, <1>5, ScriptOwn
<1>6. CASE Target
  BY <1>6, OwnKept DEF Target, TargetChanges
<1>7. ASSUME NEW n \in IceInts, Connect(n)
      PROVE  OwnVector'
  BY <1>7 DEF Connect, int_set_ice, OwnVector
<1>8. ASSUME NEW n \in IceInts, Disconnect(n)
      PROVE  OwnVector'
  <2>1. int_ice' = int_ice \ {n} /\ cut' = (cut \/ int_ice = {n})
    BY <1>8 DEF Disconnect, int_set_ice
  <2>2. int_ice' = {} /\ ~cut' => int_ice = {} /\ ~cut
    BY <2>1
  <2> QED
    BY <1>8, <2>2 DEF Disconnect, int_set_ice, OwnVector
<1>9. CASE UNCHANGED vars
  BY <1>9, OwnKept DEF vars, intVars
<1> QED
  BY <1>4, <1>5, <1>6, <1>7, <1>8, <1>9 DEF Next

\* No interrupt is taken that neither the simulator nor the chip raises at that
\* moment, but for one the chip has left in INT_VC, once, when its last pin was
\* disconnected.
THEOREM NoGhosts == Spec => NoSecondGhost
<1>1. Init => OwnVector
  BY DEF Init, int_init, OwnVector, LocalVector
<1>2. Spec => []OwnVector
  BY <1>1, OwnStep, Invariance, PTL DEF Spec
<1>3. ASSUME CpuInv, OwnVector, TakeInterrupt
      PROVE  Raised(PolledVector) \/ cut
  <2> DEFINE S == int_pending \cap int_msk
  <2>1. /\ S \subseteq 0 .. 24 /\ ice_vc \in {0} \cup Vectors
        /\ PolledVector # 0
    BY <1>3, EnabledRange DEF CpuInv, TypeOK, IntTypeOK, TakeInterrupt
  <2>2. \/ cut
        \/ PolledVector = LocalVector(S)
        \/ int_ice # {} /\ PolledVector = ice_vc
    BY <1>3 DEF OwnVector, PolledVector, Vector
  <2> HIDE DEF S
  <2>3. CASE PolledVector = LocalVector(S)
    <3>1. /\ Lowest(S) \in S
          /\ PolledVector = 4 * int2prio[Lowest(S)]
      BY <2>1, <2>3, LowestIsLeast, LocalVectorFacts
    <3>2. prio2int[PolledVector \div 4] \in S
      BY <2>1, <3>1, VectorInverse
    <3> QED
      BY <3>2 DEF Raised, S
  <2> QED
    BY <2>2, <2>3 DEF Raised
<1>4. CpuInv /\ OwnVector /\ [Next]_vars
        => [TakeInterrupt => Raised(PolledVector) \/ cut]_vars
  BY <1>3
<1> QED
  BY <1>2, <1>4, Invariance, PTL DEF Spec, NoSecondGhost

-----------------------------------------------------------------------------
(* What programs rely on when they calculate with more than one byte: the  *)
(* carry an operation leaves is the one the operation for the next byte    *)
(* needs.  Of the bytes only their number, Base, matters.                  *)

\* A quotient and a remainder that fit are those of the division.
LEMMA Division ==
  ASSUME NEW d \in Nat \ {0}, NEW q \in Int, NEW r \in 0..d - 1
  PROVE  ((q * d) + r) \div d = q /\ ((q * d) + r) % d = r
OBVIOUS

\* Products are integers.
LEMMA Products ==
  ASSUME NEW a \in Int, NEW b \in Int
  PROVE  a * b \in Int
OBVIOUS

\* What the proofs use of the number of values of a byte.
LEMMA BaseFacts ==
  Base \in Nat \ {0} /\ Base * Base \in Nat \ {0} /\ Base * Base >= 2 * Base
BY AluAssumption

\* A sum is kept in t16 as it is, and splits into a byte and a carry.
LEMMA Sums ==
  ASSUME NEW n \in 0..(2 * Base) - 1
  PROVE  /\ ARITH(n).v \in Word /\ ARITH(n).cf \in Carry
         /\ n = ARITH(n).v + (Base * ARITH(n).cf)
<1>1. t16(n) = n
  <2>1. n \in 0..(Base * Base) - 1
    BY BaseFacts
  <2>2. ((0 * (Base * Base)) + n) % (Base * Base) = n
    BY <2>1, BaseFacts, Division
  <2> QED
    BY <2>1, <2>2, BaseFacts DEF t16
<1>2. CASE n < Base
  <2>1. ((0 * Base) + n) % Base = n /\ ((0 * Base) + n) \div Base = 0
    BY <1>2, BaseFacts, Division
  <2>2. n % Base = n /\ n \div Base = 0
    BY <2>1, BaseFacts
  <2> QED
    BY <1>1, <1>2, <2>2, BaseFacts DEF ARITH, Word, Carry
<1>3. CASE n >= Base
  <2> DEFINE r == n - Base
  <2>1. r \in 0..Base - 1 /\ n = (1 * Base) + r
    BY <1>3, BaseFacts
  <2>2. ((1 * Base) + r) % Base = r /\ ((1 * Base) + r) \div Base = 1
    BY <2>1, BaseFacts, Division
  <2>3. n % Base = r /\ n \div Base = 1
    BY <2>1, <2>2
  <2> QED
    BY <1>1, <2>1, <2>3, BaseFacts DEF ARITH, Word, Carry
<1> QED
  BY <1>2, <1>3, BaseFacts

\* A difference below zero is a high byte that is not zero in t16: a borrow.
LEMMA Differences ==
  ASSUME NEW n \in -Base..Base - 1
  PROVE  /\ ARITH(n).v \in Word /\ ARITH(n).cf \in Carry
         /\ n = ARITH(n).v - (Base * ARITH(n).cf)
<1>1. CASE n >= 0
  <2>1. n \in 0..(2 * Base) - 1
    BY <1>1, BaseFacts
  <2>2. n = ARITH(n).v + (Base * ARITH(n).cf) /\ ARITH(n).v \in Word /\ ARITH(n).cf \in Carry
    BY <2>1, Sums
  <2>3. ARITH(n).cf = 0
    BY <1>1, <2>2, BaseFacts DEF Word, Carry
  <2>4. Base * ARITH(n).cf = 0
    BY <2>3, BaseFacts
  <2> QED
    BY <2>2, <2>4 DEF Word
<1>2. CASE n < 0
  <2> DEFINE r == n + Base
             q == Base - 1
             B == Base * Base
  <2>1. r \in 0..Base - 1 /\ q \in Nat /\ q # 0
    BY <1>2, BaseFacts, AluAssumption
  <2>2. n + B = (q * Base) + r
    BY BaseFacts
  <2>3. n + B \in 0..B - 1
    BY <1>2, BaseFacts
  <2>4. (((-1) * B) + (n + B)) % B = n + B
    BY <2>3, BaseFacts, Division
  <2>5. t16(n) = (q * Base) + r
    <3>1. n = ((-1) * B) + (n + B)
      BY BaseFacts
    <3> HIDE DEF B
    <3>2. n % B = n + B
      BY <2>4, <3>1
    <3> QED
      BY <2>2, <3>2 DEF t16, B
  <2>6. t16(n) % Base = r /\ t16(n) \div Base = q
    <3> HIDE DEF q, r
    <3>1. ((q * Base) + r) % Base = r /\ ((q * Base) + r) \div Base = q
      BY <2>1, BaseFacts, Division
    <3> QED
      BY <3>1, <2>5
  <2>7. ARITH(n).v = r /\ ARITH(n).cf = 1
    BY <2>1, <2>6 DEF ARITH
  <2> QED
    BY <2>1, <2>7, BaseFacts DEF Word, Carry
<1> QED
  BY <1>1, <1>2, BaseFacts

\* Two bytes are added by ADD for the lower and ADC for the higher ones: the
\* result and the last carry are those of the sum.
THEOREM AddChain ==
  ASSUME NEW u1 \in Word, NEW u0 \in Word, NEW v1 \in Word, NEW v0 \in Word
  PROVE  LET lo == ADD(u0, v0)
             hi == ADC(u1, v1, lo.cf)
         IN ((Base * u1) + u0) + ((Base * v1) + v0)
              = ((Base * hi.v) + lo.v) + ((Base * Base) * hi.cf)
<1> DEFINE lo == ARITH(u0 + v0)
           hi == ARITH(u1 + v1 + lo.cf)
<1>1. lo.v \in Word /\ lo.cf \in Carry /\ u0 + v0 = lo.v + (Base * lo.cf)
  <2>1. u0 + v0 \in 0..(2 * Base) - 1
    BY BaseFacts DEF Word
  <2> QED
    BY <2>1, Sums
<1>2. hi.v \in Word /\ hi.cf \in Carry /\ u1 + v1 + lo.cf = hi.v + (Base * hi.cf)
  <2>1. u1 + v1 + lo.cf \in 0..(2 * Base) - 1
    BY <1>1, BaseFacts DEF Word, Carry
  <2> QED
    BY <2>1, Sums
<1>3. ADD(u0, v0) = lo /\ ADC(u1, v1, lo.cf) = hi
  <2>1. u0 + (v0 + 0) = u0 + v0 /\ u1 + (v1 + lo.cf) = u1 + v1 + lo.cf
    BY <1>1 DEF Word, Carry
  <2> QED
    BY <2>1 DEF ADD, ADC
<1> HIDE DEF lo, hi
<1>4. Base * (u1 + v1 + lo.cf) = (Base * hi.v) + ((Base * Base) * hi.cf)
  BY <1>1, <1>2, BaseFacts DEF Word, Carry
<1>5. (Base * u1) + (Base * v1) + (Base * lo.cf) = Base * (u1 + v1 + lo.cf)
  BY <1>1, BaseFacts DEF Word, Carry
<1>6. /\ Base * u1 \in Int /\ Base * v1 \in Int /\ Base * lo.cf \in Int
      /\ Base * hi.v \in Int /\ (Base * Base) * hi.cf \in Int
  <2>1. {u1, v1, lo.cf, hi.v, hi.cf, Base, Base * Base} \subseteq Int
    BY <1>1, <1>2, BaseFacts DEF Word, Carry
  <2> QED
    BY <2>1, Products
<1>7. ((Base * u1) + u0) + ((Base * v1) + v0)
        = ((Base * hi.v) + lo.v) + ((Base * Base) * hi.cf)
  BY <1>1, <1>4, <1>5, <1>6 DEF Word
<1> QED
  BY <1>3, <1>7

\* Likewise with SUB and SBB: a borrow is the one that is missing.
THEOREM SubChain ==
  ASSUME NEW u1 \in Word, NEW u0 \in Word, NEW v1 \in Word, NEW v0 \in Word
  PROVE  LET lo == SUB(u0, v0)
             hi == SBB(u1, v1, lo.cf)
         IN ((Base * u1) + u0) - ((Base * v1) + v0)
              = ((Base * hi.v) + lo.v) - ((Base * Base) * hi.cf)
<1> DEFINE lo == ARITH(u0 - v0)
           hi == ARITH(u1 - (v1 + lo.cf))
<1>1. lo.v \in Word /\ lo.cf \in Carry /\ u0 - v0 = lo.v - (Base * lo.cf)
  <2>1. u0 - v0 \in -Base..Base - 1
    BY BaseFacts DEF Word
  <2> QED
    BY <2>1, Differences
<1>2. hi.v \in Word /\ hi.cf \in Carry /\ u1 - (v1 + lo.cf) = hi.v - (Base * hi.cf)
  <2>1. u1 - (v1 + lo.cf) \in -Base..Base - 1
    BY <1>1, BaseFacts DEF Word, Carry
  <2> QED
    BY <2>1, Differences
<1>3. SUB(u0, v0) = lo /\ SBB(u1, v1, lo.cf) = hi
  <2>1. u0 - (v0 + 0) = u0 - v0
    BY DEF Word
  <2> QED
    BY <2>1 DEF SUB, SBB
<1> HIDE DEF lo, hi
<1>4. Base * (u1 - (v1 + lo.cf)) = (Base * hi.v) - ((Base * Base) * hi.cf)
  BY <1>1, <1>2, BaseFacts DEF Word, Carry
<1>5. (Base * u1) - (Base * v1) - (Base * lo.cf) = Base * (u1 - (v1 + lo.cf))
  BY <1>1, BaseFacts DEF Word, Carry
<1> QED
  BY <1>1, <1>2, <1>3, <1>4, <1>5, BaseFacts DEF Word, Carry

\* CMP leaves the flags of SUB.
THEOREM CmpIsSub ==
  ASSUME NEW u \in Word, NEW v \in Word
  PROVE  CMP(u, v).cf = SUB(u, v).cf /\ (CMP(u, v).zf <=> SUB(u, v).v = 0)
<1>1. u - v \in -Base..Base - 1
  BY BaseFacts DEF Word
<1>2. SUB(u, v) = ARITH(u - v)
  <2>1. u - (v + 0) = u - v
    BY DEF Word
  <2> QED
    BY <2>1 DEF SUB, SBB
<1> DEFINE r == ARITH(u - v)
<1>3. r.v \in Word /\ r.cf \in Carry /\ u - v = r.v - (Base * r.cf)
  BY <1>1, Differences
<1> HIDE DEF r
<1>4. r.cf = (IF u < v THEN 1 ELSE 0) /\ (u = v <=> r.v = 0)
  BY <1>1, <1>3, BaseFacts DEF Word, Carry
<1> QED
  BY <1>2, <1>4 DEF CMP, r
=============================================================================
