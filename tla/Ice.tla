--------------------------------- MODULE Ice ---------------------------------
(***************************************************************************)
(* The in-circuit emulator, prog/ice.c: registers of a chip in programming *)
(* mode, read and written one at a time with ISSP vectors.                 *)
(*                                                                         *)
(* The chip's clocks stop after each vector.  To revive them the chip is   *)
(* made to execute a HALT, which takes the program counter and the three   *)
(* bytes of code; so what the client has in these is kept in shadows and   *)
(* is on the chip only while the client's code runs.  xio is the bank that *)
(* ice.c takes to be selected by the chip's CPU_F.                         *)
(*                                                                         *)
(* The chip is external.  One action is one call by the client: nobody     *)
(* else talks to the chip, and it does nothing by itself.                  *)
(***************************************************************************)
EXTENDS Naturals

CONSTANTS
  Data,        \* what an ordinary register can hold
  Ops,         \* what a byte of code can hold: opcodes
  PCs,         \* what a half of the program counter can hold
  Flags,       \* of CPU_F
  Bank1,       \* the addresses of bank 1
  Disciplined  \* the client keeps to the rules in "The client"

OP_SSC == 0
OP_HALT == 48
OP_NOP == 64

\* Addresses.  The code is in bank 0; in bank 1 its addresses are those of
\* other registers.  The program counter and CPU_F are reached from both.
Code == {"CODE0", "CODE1", "CODE2"}
Banked == Code \cup {"P"}
Shared == {"PCH", "PCL"}

ASSUME IceAssumption ==
  /\ {OP_SSC, OP_HALT, OP_NOP} \subseteq Ops
  /\ {0, 3} \subseteq PCs
  /\ Data # {}
  /\ Data \cup Ops \cup PCs \subseteq Nat
  /\ "XIO" \in Flags
  /\ Bank1 \subseteq Banked
  /\ Disciplined \in BOOLEAN

\* A register is its bank and its address.
Regs == ({0} \X (Banked \cup Shared)) \cup ({1} \X Bank1)
CodeRegs == {0} \X Code
Shadowed == {0} \X (Code \cup Shared)
Val == Data \cup Ops \cup PCs

VARIABLES
  xio, f, pch, pcl, code,      \* of ice.c; code stands for code0 to code2
  chip,                        \* external: its CPU_F and its registers
  out,                         \* history: the registers the last call read,
                               \* or ran code from, with their contents
  woken                        \* history: the code start_clock ran last

host == <<xio, f, pch, pcl, code>>
vars == <<host, chip, out, woken>>

Idle == [o \in Code |-> IF o = "CODE0" THEN OP_HALT ELSE OP_NOP]
-----------------------------------------------------------------------------
(* The chip: what vectors do to it *)

Hit(c, a) ==
  IF a \in Banked /\ "XIO" \in c.f THEN <<1, a>> ELSE <<0, a>>

READ_REG(c, a) == c.reg[Hit(c, a)]

WRITE_REG(c, a, v) ==
  [c EXCEPT !.reg = [@ EXCEPT ![Hit(c, a)] = v]]

WRITE_F(c, flags) == [c EXCEPT !.f = flags]

CodeOf(c) == [o \in Code |-> c.reg[<<0, o>>]]

\* The chips that EXEC can leave: HALT changes no more than the program
\* counter, other code also flags and a register.
Exec(c) ==
  IF c.reg[<<0, "CODE0">>] = OP_HALT
  THEN {[c EXCEPT !.reg[<<0, "PCL">>] = l] : l \in PCs}
  ELSE {[f |-> g, reg |-> [c.reg EXCEPT ![<<0, "PCH">>] = h,
                                        ![<<0, "PCL">>] = l,
                                        ![<<0, "P">>] = d]] :
          g \in SUBSET Flags, h \in PCs, l \in PCs, d \in Data}
-----------------------------------------------------------------------------
(* What ice.c makes of chip c with the vectors it sends *)

\* To bank 0 and back, around other vectors, if these flags have XIO.
ToBank0(c, flags) ==
  IF "XIO" \in flags THEN WRITE_F(c, flags \ {"XIO"}) ELSE c
FromBank0(c, flags) == IF "XIO" \in flags THEN WRITE_F(c, flags) ELSE c

\* Values for those bytes of code that are not what they are in Idle.
SetByte(c, o, bytes, values) ==
  IF bytes[o] # Idle[o] THEN WRITE_REG(c, o, values[o]) ELSE c
SetCode(c, flags, bytes, values) ==
  LET c0 == SetByte(ToBank0(c, flags), "CODE0", bytes, values)
      c1 == SetByte(c0, "CODE1", bytes, values)
      c2 == SetByte(c1, "CODE2", bytes, values)
  IN  IF bytes = Idle THEN c ELSE FromBank0(c2, flags)

\* Mistake: the client's code is left on the chip.
LeaveCode(c, flags, hi, lo, bytes) ==
  IF hi # 0 THEN WRITE_REG(c, "PCH", 0) ELSE c

\* The chip gets HALT, NOP, NOP.  Two ifs stand behind one another: nothing
\* is done about the code when the low byte of the program counter is 3.
prepare_start(c, flags, hi, lo, bytes) ==
  LET c0 == IF hi # 0 THEN WRITE_REG(c, "PCH", 0) ELSE c
  IN  IF lo # 3 THEN SetCode(c0, flags, bytes, Idle) ELSE c0

\* Mistake: the chip's own high byte is taken to be the client's.
set_shadows_low(c, flags, hi, lo, bytes) ==
  SetCode(WRITE_REG(c, "PCL", lo), flags, bytes, bytes)

\* The chip gets the client's program counter and code.
set_shadows(c, flags, hi, lo, bytes) ==
  LET c0 == IF hi # 0 THEN WRITE_REG(c, "PCH", hi) ELSE c
  IN  SetCode(WRITE_REG(c0, "PCL", lo), flags, bytes, bytes)

\* The shadows are what chip c has, read while its bank 0 is selected.
fetch_shadows(c) ==
  LET c0 == [c EXCEPT !.f = @ \ {"XIO"}]
  IN  /\ f' = c.f
      /\ pch' = READ_REG(c0, "PCH")
      /\ pcl' = READ_REG(c0, "PCL")
      /\ code' = [o \in Code |-> READ_REG(c0, o)]

\* The clocks of chip c run again: it executes the code at 3.
At3(c) == WRITE_REG(c, "PCL", 3)
start_clock(c) == chip' \in Exec(At3(c)) /\ woken' = CodeOf(At3(c))

\* The chip after set_xio.  The other flags of its CPU_F are lost.
set_xio(b) ==
  IF b = xio THEN chip
             ELSE WRITE_F(chip, IF b = 1 THEN {"XIO"} ELSE {})
-----------------------------------------------------------------------------
(* The client: blocks of the simulator, or a script that says "ice" *)

\* A disciplined client does not select a bank behind the back of ice.c, by
\* writing CPU_F or by its code; has bank 0 selected when it runs code; and
\* its code does not stop at an address whose low byte is 3.
MaySet(flags) == Disciplined => "XIO" \notin flags
MayRun == Disciplined => xio = 0
MayLeave(c) ==
  Disciplined => "XIO" \notin c.f /\ c.reg[<<0, "PCL">>] # 3
-----------------------------------------------------------------------------
(* The operations *)

Shadow(r) ==
  IF r[2] = "PCH" THEN pch ELSE IF r[2] = "PCL" THEN pcl ELSE code[r[2]]

\* The registers as the client sees them.
Seen == [r \in Regs |-> IF r \in Shadowed THEN Shadow(r) ELSE chip.reg[r]]

\* ice_init, on a chip that has been identified: it has just executed an SSC.
Init ==
  \E d \in [{0, 1} -> Data] :
    /\ xio = 0 /\ f = {} /\ pch = 0 /\ pcl = 0
    /\ code = [Idle EXCEPT !["CODE0"] = OP_SSC, !["CODE1"] = OP_HALT]
    /\ LET identified == [r \in Regs |-> IF r \in Shadowed THEN Shadow(r)
                                                           ELSE d[r[1]]]
           c == prepare_start([f |-> f, reg |-> identified], f, pch, pcl, code)
       IN  chip \in Exec(At3(c)) /\ woken = CodeOf(At3(c))
    /\ out = {}

ice_read(r) ==
  \/ /\ r \in Shadowed
     /\ out' = {<<r, Shadow(r)>>}
     /\ UNCHANGED <<xio, chip, woken>>
  \/ /\ r \notin Shadowed
     /\ xio' = r[1]
     /\ out' = {<<r, READ_REG(set_xio(r[1]), r[2])>>}
     /\ start_clock(set_xio(r[1]))

\* The client's shadow of r becomes v.
SetShadow(r, v) ==
  /\ pch' = IF r[2] = "PCH" THEN v ELSE pch
  /\ pcl' = IF r[2] = "PCL" THEN v ELSE pcl
  /\ code' = [o \in Code |-> IF r[2] = o THEN v ELSE code[o]]

ice_write(r, v) ==
  \/ /\ r \in Shadowed
     /\ SetShadow(r, v)
     /\ start_clock(chip)
     /\ UNCHANGED xio
  \/ /\ r \notin Shadowed
     /\ xio' = r[1]
     /\ start_clock(WRITE_REG(set_xio(r[1]), r[2], v))
     /\ UNCHANGED <<pch, pcl, code>>

\* Access to CPU_F, of which bank 0 is selected first.
ice_access_f ==
  /\ xio' = 0
  /\ \/ start_clock(set_xio(0))
     \/ \E flags \in SUBSET Flags :
          /\ MaySet(flags)
          /\ start_clock(WRITE_F(set_xio(0), flags))

\* The client writes MAGIC_EXEC to CPU_SCR0.
ice_exec ==
  /\ MayRun
  /\ LET c == set_shadows(chip, f, pch, pcl, code)
     IN  /\ out' = {<<r, c.reg[r]>> : r \in Shadowed}
         /\ \E left \in Exec(c) :
              /\ MayLeave(left)
              /\ fetch_shadows(left)
              /\ start_clock(prepare_start(left, f', pch', pcl', code'))

\* What r is for decides what is put there.
Values(r) ==
  IF r[2] \in Shared THEN PCs ELSE IF r \in CodeRegs THEN Ops ELSE Data

Read == \E r \in Regs : ice_read(r) /\ UNCHANGED <<f, pch, pcl, code>>

Write ==
  \E r \in Regs : \E v \in Values(r) :
    ice_write(r, v) /\ out' = {} /\ UNCHANGED f

AccessF == ice_access_f /\ out' = {} /\ UNCHANGED <<f, pch, pcl, code>>

Execute == ice_exec /\ UNCHANGED xio

Next == Read \/ Write \/ AccessF \/ Execute

Spec == Init /\ [][Next]_vars
-----------------------------------------------------------------------------
(* Properties *)

\* The shadows and the chip hold what belongs there (ice.c:26-27).
TypeOK ==
  /\ xio \in {0, 1}
  /\ f \in SUBSET Flags
  /\ pch \in PCs /\ pcl \in PCs
  /\ code \in [Code -> Ops]
  /\ chip \in [f : SUBSET Flags, reg : [Regs -> Val]]
  /\ out \in SUBSET (Regs \X Val)
  /\ woken \in [Code -> Val]

\* The chip is woken by a HALT and two NOPs and never by anything of the
\* client's, which would run it once more (prepare_start, start_clock).
WokenByHalt == woken = Idle

\* Between two calls the bank that ice.c remembers is the one the chip has
\* selected (set_xio): an access reaches the bank it names.
BankAgrees == xio = 1 <=> "XIO" \in chip.f

\* What the program takes for granted between two calls.
ShadowsAgree == TypeOK /\ WokenByHalt /\ BankAgrees

\* Shadows, banks and vectors add up to a plain register file: what a client
\* reads is what it wrote, no access disturbs another register, and its code
\* runs with its program counter and all its bytes (ice_read, ice_write).
Plain == INSTANCE RegFile WITH mem <- Seen, Keep <- CodeRegs, Start <- Shadowed
PlainRegisters == Plain!Spec
=============================================================================
