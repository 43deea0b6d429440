-------------------------------- MODULE Issp --------------------------------
(***************************************************************************)
(* Vectors on the wire: prog/prog_vector.c on the drivers that offer       *)
(* single bits (wadsp, watsp, watpp, ppporissp).  A step of the module is  *)
(* one change of the lines, one sample of SDATA or of the time, or         *)
(* something the chip does.                                                *)
(*                                                                         *)
(* The chip is external.  It takes a bit with every falling edge of SCLK,  *)
(* waits for a 1 and then counts 22 bits: three of operation, eight of     *)
(* address, eight of data, three more.  In a read it drives the data       *)
(* itself, after one bit of turnaround.  It listens only after nine bits   *)
(* have come in time, and while it executes a system call it drives SDATA  *)
(* high and does not listen.                                               *)
(***************************************************************************)
EXTENDS Integers, Sequences

CONSTANTS
  Kinds,      \* of driver: a subset of {"wadsp", "watpp", "ppporissp"};
              \* watsp is as wadsp but for the names of the lines
  Vectors,    \* <<operation, address, data>>, sent after acquisition
  Cells,      \* <<0, address>> is memory, <<1, address>> a register
  Vals,       \* what they can hold
  T_RISE,     \* 10 us, in units of the time that passes with a Tick
  T_FALL,     \* 100 ms
  T_ACQ,      \* T_ACQ or T_XRESINIT
  MaxTime,    \* bound on the time measured
  Delays      \* the program may be held up between its first sample of
              \* SDATA in wait_and_poll and the look at the time

\* Operation codes, and the vector that makes the chip execute an SSC.
PROG_OP_WRITE_MEM == 4
PROG_OP_READ_MEM == 5
PROG_OP_WRITE_REG == 6
PROG_OP_READ_REG == 7
ZERO_VECTOR == <<0, 0, 0>>
INIT_VECTOR == <<PROG_OP_WRITE_REG, 80, 0>>
CPU_SCR0 == 255
MAGIC_EXEC == 18
EXEC_VECTOR_SSC == <<PROG_OP_WRITE_REG, CPU_SCR0, MAGIC_EXEC>>
IS_WRITE(v) == v[1] % 2 = 0
IS_REG(v) == (v[1] \div 2) % 2
Cell(v) == <<IS_REG(v), v[2]>>

ASSUME IsspAssumption ==
  /\ Kinds \subseteq {"wadsp", "watpp", "ppporissp"}
  /\ {T_RISE, T_FALL, T_ACQ, MaxTime} \subseteq Nat
  /\ T_RISE < T_FALL
  /\ Delays \in BOOLEAN

\* Vectors are put together from an operation and two bytes, and read from
\* cells, which hold what can be written to them.
ASSUME VectorAssumption ==
  /\ Cells \subseteq {0, 1} \X (0..255)
  /\ Vals \subseteq 0..255
  /\ 0 \in Vals
  /\ \A v \in Vectors \ {ZERO_VECTOR} :
       /\ v \in (PROG_OP_WRITE_MEM..PROG_OP_READ_REG) \X (0..255) \X (0..255)
       /\ IF IS_WRITE(v) THEN Cell(v) \in Cells => v[3] \in Vals
                         ELSE Cell(v) \in Cells

Z == 2          \* not driven
Unknown == 3    \* sdata is -1

VARIABLES
  kind, power_on,
  phase,        \* where the program is
  bit,          \* which bit of what it is sending
  place,        \* what is next for that bit; "done" after the last
  vec, value,   \* the vector and the bits read for it
  sdata,        \* of wadsp: what SDATA was set to last
  now, t0, t0_new, timeout,   \* time since it was first looked at
  line_d, line_c,             \* external: what the programmer drives
  life, since,  \* external, the chip: its acquisition, and since when
  rx,           \* the bits it has taken of a vector
  drive,        \* what it drives SDATA to
  ssc,          \* its system call
  reg,          \* its registers
  got           \* history: the register the last call read, with the value

sender == <<kind, power_on, phase, bit, place, vec>>
bits == <<value, sdata>>
time == <<now, t0, t0_new, timeout>>
line == <<line_d, line_c>>
target == <<life, since, rx, drive, ssc, reg>>
wireVars == <<sender, bits, time, line, target, got>>
-----------------------------------------------------------------------------
(* What is sent *)

Weight == <<128, 64, 32, 16, 8, 4, 2, 1>>

\* The bits of a byte, the highest first, and the byte from the k-th on.
BitOf(n, j) == (n \div Weight[j]) % 2
Byte(s, k) == 128 * s[k] + 64 * s[k + 1] + 32 * s[k + 2] + 16 * s[k + 3]
            + 8 * s[k + 4] + 4 * s[k + 5] + 2 * s[k + 6] + s[k + 7]

\* Three bits of operation, eight of address and eight of data.
CodeBit(v, j) == IF j <= 3 THEN BitOf(v[1], j + 5)
                 ELSE IF j <= 11 THEN BitOf(v[2], j - 3) ELSE BitOf(v[3], j - 11)
Coded(v) == [j \in 1..19 |-> CodeBit(v, j)]

\* Mistakes: the last bit of a read is sent before the last turnaround; the
\* last bit of the address is not sent.
Sent_early(v, j) ==
  IF v = ZERO_VECTOR THEN 0
  ELSE IF IS_WRITE(v) THEN IF j <= 19 THEN CodeBit(v, j) ELSE 1
  ELSE IF j <= 11 THEN CodeBit(v, j) ELSE IF j = 21 THEN 1 ELSE Z
Sent_short(v, j) ==
  IF v = ZERO_VECTOR THEN 0
  ELSE IF IS_WRITE(v) THEN IF j <= 19 THEN CodeBit(v, j) ELSE 1
  ELSE IF j <= 10 THEN CodeBit(v, j) ELSE IF j <= 21 THEN Z ELSE 1

\* The j-th bit of a vector, or Z.
Sent(v, j) ==
  IF v = ZERO_VECTOR THEN 0
  ELSE IF IS_WRITE(v) THEN IF j <= 19 THEN CodeBit(v, j) ELSE 1
  ELSE IF j <= 11 THEN CodeBit(v, j) ELSE IF j <= 21 THEN Z ELSE 1

\* Between the calls to invert_phase.
Inverted == phase = "vector" /\ ~IS_WRITE(vec) /\ bit \in 13..21

\* What follows the bit in a read: invert_phase changes SCLK, or SDATA is read.
Inverts == phase = "vector" /\ ~IS_WRITE(vec) /\ bit = 12
Reads == phase = "vector" /\ ~IS_WRITE(vec) /\ bit \in 13..20

\* Where the program sends, and how many bits.
Sending == {"vector", "z", "drain", "nine", "rest"}
LastBit == IF phase = "vector" THEN 22
           ELSE IF phase = "drain" THEN 40
           ELSE IF phase = "nine" THEN 9
           ELSE IF phase = "rest" THEN 13 ELSE 1

\* Z() drives the line low except with watpp, and "low" is no more than a
\* pull with the other drivers.
Low(d) == IF d = Z /\ kind # "watpp" THEN 0 ELSE d

Level == Low(IF phase = "vector" THEN Sent(vec, bit)
             ELSE IF phase = "z" THEN Z
             ELSE IF phase = "nine" THEN CodeBit(INIT_VECTOR, bit) ELSE 0)

\* The drivers set SDATA with the rising edge, but for wadsp.
FirstPlace == IF kind = "wadsp" THEN "data" ELSE "first"

\* The program goes on at p, and begins with the first bit if it is to send.
\* wadsp's very first ends the reset.
Begins(p) == IF p \notin Sending THEN "done"
             ELSE IF p = "nine" /\ kind = "wadsp" THEN "xres" ELSE FirstPlace
Go(p) == phase' = p /\ bit' = 1 /\ place' = Begins(p)
-----------------------------------------------------------------------------
(* The chip *)

Frame == 22

\* The register an operation and an address mean.
Target(s) == <<s[2], Byte(s, 4)>>

\* A falling edge while the chip is listening.
Take(b) ==
  LET s == Append(rx, b)
      n == Len(rx) + 1
      reading == n > 2 /\ s[3] = 1
  IN /\ rx' = IF n = Frame \/ (n = 1 /\ b = 0) THEN <<>> ELSE s
     /\ ssc' = IF n = Frame /\ SubSeq(s, 1, 19) = Coded(EXEC_VECTOR_SSC)
               THEN "starts" ELSE ssc
     /\ drive' = IF reading /\ n \in 13..20 /\ Target(s) \in Cells
                 THEN BitOf(reg[Target(s)], n - 12) ELSE Z
     /\ reg' = IF ~reading /\ n = 19 /\ Target(s) \in Cells
               THEN [reg EXCEPT ![Target(s)] = Byte(s, 12)] ELSE reg
     /\ UNCHANGED <<life, since>>

\* One of the bits that the chip is acquired with.
Hear(b) ==
  LET n == Len(rx) + 1 IN
  /\ rx' = IF n = 1 /\ b = 0 THEN rx ELSE Append(rx, b)
  /\ life' = IF n < 9 THEN life
             ELSE IF now <= since + T_ACQ THEN "acquired" ELSE "lost"
  /\ UNCHANGED <<since, drive, ssc, reg>>

\* What a falling edge does: the chip has to be acquired first.
Falling(b) ==
  \/ life = "acquired" /\ ssc = "idle" /\ Take(b)
  \/ life = "listens" /\ Hear(b)
  \/ /\ ~(life = "acquired" /\ ssc = "idle") /\ life # "listens"
     /\ UNCHANGED target

SDATA_IN == IF drive # Z THEN drive ELSE IF line_d = 1 THEN 1 ELSE 0

Release == life' = "listens" /\ since' = now

\* Powered up it drives SDATA, and starts to listen when it lets go.
LetGo ==
  /\ life = "powered"
  /\ Release
  /\ drive' = Z
  /\ UNCHANGED <<sender, bits, time, line, rx, ssc, reg, got>>

\* An SSC: SDATA goes up within T_RISE of the last bit, and down when it is
\* done.
SSC ==
  /\ \/ ssc = "starts" /\ ssc' = "busy" /\ drive' = 1 /\ UNCHANGED since
     \/ ssc = "busy" /\ ssc' = "idle" /\ drive' = Z /\ since' = now
  /\ UNCHANGED <<sender, bits, time, line, life, rx, reg, got>>

\* Time is looked at, or may be lost between looks, in the other phases.
Untimed == {"ready", "vector", "z", "drain", "rest",
            "timed out", "no power", "missed"}
Tick ==
  /\ phase \notin Untimed
  /\ now < MaxTime
  /\ phase = "rose" => Delays
  /\ ~(ssc = "starts" /\ now = T_RISE)
  /\ now' = now + 1
  /\ UNCHANGED <<sender, bits, t0, t0_new, timeout, line, target, got>>
-----------------------------------------------------------------------------
(* One bit *)

Stay == UNCHANGED <<kind, power_on, phase, vec, time, got>>

SetLine(d, c) ==
  /\ line_d' = d /\ line_c' = c
  /\ IF line_c = 1 /\ c = 0 THEN Falling(IF d = 1 THEN 1 ELSE 0)
     ELSE UNCHANGED target

NextBit ==
  IF bit < LastBit THEN bit' = bit + 1 /\ place' = FirstPlace
                   ELSE UNCHANGED bit /\ place' = "done"

EndReset ==
  /\ place = "xres"
  /\ Release
  /\ place' = "data"
  /\ UNCHANGED <<bit, bits, line, rx, drive, ssc, reg>>
  /\ Stay

\* wadsp writes only what differs from what it has written last.
SetData ==
  /\ place = "data"
  /\ line_d' = IF sdata = Level THEN line_d ELSE Level
  /\ sdata' = Level
  /\ place' = "first"
  /\ UNCHANGED <<bit, value, line_c, target>>
  /\ Stay

FirstEdge ==
  /\ place = "first"
  /\ SetLine(IF kind = "wadsp" THEN line_d ELSE Level, IF Inverted THEN 0 ELSE 1)
  /\ place' = "second"
  /\ UNCHANGED <<bit, bits>>
  /\ Stay

SecondEdge ==
  /\ place = "second"
  /\ SetLine(line_d, IF Inverted THEN 1 ELSE 0)
  /\ IF Inverts \/ Reads THEN place' = "after" /\ UNCHANGED bit ELSE NextBit
  /\ UNCHANGED bits
  /\ Stay

InvertPhase ==
  /\ place = "after" /\ Inverts
  /\ SetLine(line_d, 1)
  /\ NextBit
  /\ UNCHANGED bits
  /\ Stay

ReadBit ==
  /\ place = "after" /\ Reads
  /\ value' = value + Weight[bit - 12] * SDATA_IN
  /\ NextBit
  /\ UNCHANGED <<sdata, line, target>>
  /\ Stay
-----------------------------------------------------------------------------
(* The program, where it is not sending *)

\* do_prog_vectors with one vector.
Call ==
  /\ phase = "ready"
  /\ vec' \in Vectors
  /\ Go("vector")
  /\ value' = 0
  /\ got' = {}
  /\ UNCHANGED <<kind, power_on, sdata, time, line, target>>

VectorSent ==
  /\ phase = "vector" /\ place = "done"
  /\ Go(IF vec = EXEC_VECTOR_SSC THEN "z" ELSE "ready")
  /\ got' = IF IS_WRITE(vec) THEN {} ELSE {<<Cell(vec), value>>}
  /\ UNCHANGED <<kind, power_on, vec, bits, time, line, target>>

\* wait_and_poll: the time of the wait begins.
StartWait ==
  /\ phase = "z" /\ place = "done"
  /\ Go("rise")
  /\ now' = 0 /\ t0' = 0
  /\ UNCHANGED <<kind, power_on, vec, bits, t0_new, timeout, line, target, got>>

Looks(from, to) ==
  /\ phase = from
  /\ Go(to)
  /\ UNCHANGED <<kind, power_on, vec, bits, now, line, target, got>>

\* The first loop: SDATA, then the time.
ReadRise == Looks("rise", IF SDATA_IN = 1 THEN "fall" ELSE "rose")
            /\ UNCHANGED <<t0, t0_new, timeout>>
TimeRise == Looks("rose", IF now - t0 > T_RISE THEN "drain" ELSE "rise")
            /\ UNCHANGED <<t0, t0_new, timeout>>

\* The second loop: the time, then SDATA.

\* Mistake: the time is looked at after SDATA has been read.
TimeFall_late ==
  /\ \/ Looks("fall", IF SDATA_IN = 0 THEN "drain" ELSE "late")
     \/ Looks("late", IF now - t0 > T_FALL THEN "timed out" ELSE "fall")
  /\ UNCHANGED <<t0, t0_new, timeout>>

TimeFall == Looks("fall", "fell")
            /\ timeout' = (now - t0 > T_FALL)
            /\ UNCHANGED <<t0, t0_new>>

ReadFall == Looks("fell", IF SDATA_IN = 0 THEN "drain"
                          ELSE IF timeout THEN "timed out" ELSE "fall")
            /\ UNCHANGED <<t0, t0_new, timeout>>

Drained ==
  /\ phase \in {"drain", "rest"} /\ place = "done"
  /\ Go("ready")
  /\ now' = 0 /\ t0' = 0 /\ t0_new' = 0 /\ timeout' = FALSE
  /\ since' = 0   \* only the history forgets
  /\ UNCHANGED <<kind, power_on, vec, bits, line, life, rx, drive, ssc, reg, got>>

\* do_prog_acquire; the drivers' initialize applies power, or watpp's ends
\* the reset, which wadsp's send_bit does.
acquire_power_on ==
  /\ power_on
  /\ life' = "powered" /\ drive' = 1
  /\ Go("wait")
  /\ UNCHANGED since

acquire_reset ==
  /\ ~power_on
  /\ IF kind = "watpp" THEN Release ELSE UNCHANGED <<life, since>>
  /\ Go("nine")
  /\ UNCHANGED drive

Initialize ==
  /\ phase = "initialize"
  /\ acquire_power_on \/ acquire_reset
  /\ UNCHANGED <<kind, power_on, vec, bits, time, line, rx, ssc, reg, got>>

TimeWait == Looks("wait", "sample")
            /\ timeout' = (now > T_FALL)
            /\ UNCHANGED <<t0, t0_new>>
NewT0 == Looks("sample", "sdata")
         /\ t0_new' = now
         /\ UNCHANGED <<t0, timeout>>

ReadWait ==
  /\ Looks("sdata", IF SDATA_IN = 0 THEN "nine"
                    ELSE IF timeout THEN "no power" ELSE "wait")
  /\ t0' = (IF SDATA_IN = 0 THEN t0 ELSE t0_new)
  /\ UNCHANGED <<t0_new, timeout>>

\* The first nine bits are out: too late?  The rest of the vector is zeros.
Deadline ==
  /\ phase = "nine" /\ place = "done"
  /\ Go(IF now - t0 > T_ACQ THEN "missed" ELSE "rest")
  /\ UNCHANGED <<kind, power_on, vec, bits, time, line, target, got>>

Exited == phase \in {"timed out", "no power", "missed"} /\ UNCHANGED wireVars

WireInit ==
  /\ kind \in Kinds
  \* open refuses what the programmer cannot do.
  /\ power_on \in IF kind = "wadsp" THEN {FALSE}
                  ELSE IF kind = "ppporissp" THEN {TRUE} ELSE BOOLEAN
  /\ phase = "initialize" /\ bit = 1 /\ place = "done"
  /\ vec = ZERO_VECTOR /\ value = 0
  /\ sdata = Unknown
  /\ now = 0 /\ t0 = 0 /\ t0_new = 0 /\ timeout = FALSE
  \* what a serial port has on TD when it is opened is anybody's guess
  /\ line_d \in IF kind = "wadsp" THEN {0, 1} ELSE {Low(Z)}
  /\ line_c = 0
  /\ life = "off" /\ since = 0 /\ rx = <<>> /\ drive = Z /\ ssc = "idle"
  /\ reg = [r \in Cells |-> 0]
  /\ got = {}

WireNext ==
  \/ EndReset \/ SetData \/ FirstEdge \/ SecondEdge \/ InvertPhase \/ ReadBit
  \/ Call \/ VectorSent \/ Tick \/ LetGo \/ SSC
  \/ StartWait \/ ReadRise \/ TimeRise \/ TimeFall \/ ReadFall \/ Drained
  \/ Initialize \/ TimeWait \/ NewT0 \/ ReadWait \/ Deadline \/ Exited

WireSpec == WireInit /\ [][WireNext]_wireVars
-----------------------------------------------------------------------------
(* Properties *)

\* Program and chip never drive SDATA against each other: the turnarounds
\* of a read are where the chip has its own (vec_vector).
NoContention ==
  /\ drive = 0 => line_d # 1
  /\ drive = 1 => ~(line_d = 0 /\ kind = "watpp")

\* The order in which time and SDATA are looked at makes sure that the
\* program gives up only if SDATA was still high when the time was over, in
\* wait_and_poll and at power-on.
NoFalseTimeout ==
  /\ phase = "timed out" => ssc = "busy" \/ since > T_FALL
  /\ phase = "no power" => life = "powered" \/ since > T_FALL

\* If do_prog_acquire goes on, the chip has got the nine bits in time,
\* however long the program has been held up anywhere.
AcquiredInTime == phase \in {"rest", "ready"} => life = "acquired"

\* Waiting ends in time or with a good reason, here and there.
TimeoutsRight == NoFalseTimeout /\ AcquiredInTime

\* Bits, phases and polling add up to registers that vectors read and write
\* (do_prog_vectors, prog/prog_vector.c:139-154; vec_vector, 104-136).
Registers == INSTANCE RegFile WITH
  Regs <- Cells, Keep <- {}, Start <- Cells, Val <- Vals, mem <- reg, out <- got
VectorsArrive == Registers!Spec
=============================================================================
