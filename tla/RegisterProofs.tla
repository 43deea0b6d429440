--------------------------- MODULE RegisterProofs ---------------------------
(***************************************************************************)
(* Theorems about the two modules that promise RegFile.  Of Ice, for any   *)
(* registers' contents, opcodes, flags and addresses of bank 1, and a      *)
(* disciplined client: the shadows agree with the chip, and the calls are  *)
(* those of a plain register file.  Of Issp, for any kinds of driver,      *)
(* vectors, cells, values and timeouts: programmer and chip never drive    *)
(* SDATA against each other, the timeouts mean what they say, and the bits *)
(* on the wire add up to the calls of a register file.                     *)
(***************************************************************************)
EXTENDS Ice, Issp, TLAPS

-----------------------------------------------------------------------------
(* Ice *)

PCH == <<0, "PCH">>
PCL == <<0, "PCL">>
ChipType == [f : SUBSET Flags, reg : [Regs -> Val]]

\* Which registers there are: an address of the code or of the program
\* counter is shadowed in bank 0, and what is not shadowed has two banks.
LEMMA RegShape ==
  /\ PCH \in Regs /\ PCL \in Regs /\ <<0, "P">> \in Regs
  /\ \A o \in Code : <<0, o>> \in Regs /\ <<0, o>> # PCH /\ <<0, o>> # PCL
  /\ PCH # PCL
  /\ \A r \in Regs : r = <<r[1], r[2]>> /\ r[1] \in {0, 1}
  /\ \A r \in Regs \ Shadowed : r[2] \in Banked
  /\ \A r \in Shadowed : r \in Regs /\ r[1] = 0 /\ r[2] \in Code \cup Shared
<1>1. /\ PCH \in Regs /\ PCL \in Regs /\ <<0, "P">> \in Regs /\ PCH # PCL
      /\ \A o \in Code : <<0, o>> \in Regs /\ <<0, o>> # PCH /\ <<0, o>> # PCL
  BY DEF Regs, Code, Shared, Banked, PCH, PCL
<1>2. \A r \in Regs : r = <<r[1], r[2]>> /\ r[1] \in {0, 1}
  BY DEF Regs
<1>3. ASSUME NEW r \in Regs \ Shadowed  PROVE r[2] \in Banked
  <2>1. CASE r \in {0} \X (Banked \cup Shared)
    BY <1>3, <2>1 DEF Shadowed
  <2>2. CASE r \in {1} \X Bank1
    BY <2>2, IceAssumption
  <2> QED
    BY <1>3, <2>1, <2>2 DEF Regs
<1>4. \A r \in Shadowed : r \in Regs /\ r[1] = 0 /\ r[2] \in Code \cup Shared
  BY DEF Regs, Shadowed, Banked
<1> QED
  BY <1>1, <1>2, <1>3, <1>4

\* A register that is not shadowed is neither code nor program counter.
LEMMA Unshadowed ==
  ASSUME NEW r \in Regs \ Shadowed
  PROVE  r # PCH /\ r # PCL /\ \A o \in Code : r # <<0, o>>
BY DEF Shadowed, Shared, PCH, PCL

\* WRITE_REG changes the register that is hit.
LEMMA Writes ==
  ASSUME NEW c \in ChipType, NEW a, Hit(c, a) \in Regs, NEW v \in Val
  PROVE  LET d == WRITE_REG(c, a, v)
         IN  /\ d \in ChipType /\ d.f = c.f
             /\ d.reg[Hit(c, a)] = v
             /\ \A r \in Regs : r # Hit(c, a) => d.reg[r] = c.reg[r]
<1> DEFINE h == Hit(c, a)
<1>1. h \in Regs
  OBVIOUS
<1> HIDE DEF h
<1> QED
  BY <1>1 DEF WRITE_REG, ChipType, h

\* In a chip that has bank 0 selected, or at an address that both banks have,
\* it is the register of bank 0.
LEMMA HitsBank0 ==
  ASSUME NEW c, NEW a, "XIO" \notin c.f \/ a \notin Banked
  PROVE  Hit(c, a) = <<0, a>>
BY DEF Hit

\* SetByte writes its byte if the client's differs from the idle one.
LEMMA SetsByte ==
  ASSUME NEW c \in ChipType, "XIO" \notin c.f, NEW o \in Code,
         NEW bytes, NEW values \in [Code -> Ops]
  PROVE  LET d == SetByte(c, o, bytes, values)
         IN  /\ d \in ChipType /\ d.f = c.f
             /\ d.reg[<<0, o>>] = IF bytes[o] # Idle[o] THEN values[o]
                                                        ELSE c.reg[<<0, o>>]
             /\ \A r \in Regs : r # <<0, o>> => d.reg[r] = c.reg[r]
<1>1. Hit(c, o) = <<0, o>> /\ <<0, o>> \in Regs /\ values[o] \in Val
  BY HitsBank0, RegShape DEF Val
<1> QED
  BY <1>1, Writes DEF SetByte

\* SetCode replaces the bytes in which the client's code is not the idle one,
\* and nothing else.
LEMMA SetsCode ==
  ASSUME NEW c \in ChipType, "XIO" \notin c.f,
         NEW flags, "XIO" \notin flags,
         NEW bytes \in [Code -> Ops], NEW values \in [Code -> Ops]
  PROVE  LET d == SetCode(c, flags, bytes, values)
         IN  /\ d \in ChipType /\ d.f = c.f
             /\ \A o \in Code : d.reg[<<0, o>>] =
                  IF bytes[o] # Idle[o] THEN values[o] ELSE c.reg[<<0, o>>]
             /\ \A r \in Regs :
                  (\A o \in Code : r # <<0, o>>) => d.reg[r] = c.reg[r]
<1> DEFINE c0 == SetByte(c, "CODE0", bytes, values)
           c1 == SetByte(c0, "CODE1", bytes, values)
           c2 == SetByte(c1, "CODE2", bytes, values)
<1>1. SetCode(c, flags, bytes, values) = IF bytes = Idle THEN c ELSE c2
  BY DEF SetCode, ToBank0, FromBank0
<1>2. /\ c0 \in ChipType /\ c0.f = c.f
      /\ c0.reg[<<0, "CODE0">>] = IF bytes["CODE0"] # Idle["CODE0"]
           THEN values["CODE0"] ELSE c.reg[<<0, "CODE0">>]
      /\ \A r \in Regs : r # <<0, "CODE0">> => c0.reg[r] = c.reg[r]
  BY SetsByte DEF Code
<1> HIDE DEF c0
<1>3. /\ c1 \in ChipType /\ c1.f = c.f
      /\ c1.reg[<<0, "CODE1">>] = IF bytes["CODE1"] # Idle["CODE1"]
           THEN values["CODE1"] ELSE c0.reg[<<0, "CODE1">>]
      /\ \A r \in Regs : r # <<0, "CODE1">> => c1.reg[r] = c0.reg[r]
  BY <1>2, SetsByte DEF Code
<1> HIDE DEF c1
<1>4. /\ c2 \in ChipType /\ c2.f = c.f
      /\ c2.reg[<<0, "CODE2">>] = IF bytes["CODE2"] # Idle["CODE2"]
           THEN values["CODE2"] ELSE c1.reg[<<0, "CODE2">>]
      /\ \A r \in Regs : r # <<0, "CODE2">> => c2.reg[r] = c1.reg[r]
  BY <1>2, <1>3, SetsByte DEF Code
<1> HIDE DEF c2
<1>5. \A o \in Code : <<0, o>> \in Regs
  BY RegShape
<1>6. \A o \in Code : c2.reg[<<0, o>>] =
        IF bytes[o] # Idle[o] THEN values[o] ELSE c.reg[<<0, o>>]
  BY <1>2, <1>3, <1>4, <1>5 DEF Code
<1>7. \A r \in Regs : (\A o \in Code : r # <<0, o>>) => c2.reg[r] = c.reg[r]
  BY <1>2, <1>3, <1>4 DEF Code
<1> QED
  BY <1>1, <1>4, <1>6, <1>7

\* Where the chip has the client's high byte and code, prepare_start leaves a
\* zero and the idle code.
LEMMA Prepares ==
  ASSUME NEW c \in ChipType, "XIO" \notin c.f,
         NEW flags, "XIO" \notin flags,
         NEW lo \in Nat, lo # 3, NEW bytes \in [Code -> Ops],
         \A o \in Code : c.reg[<<0, o>>] = bytes[o]
  PROVE  LET d == prepare_start(c, flags, c.reg[PCH], lo, bytes)
         IN  /\ d \in ChipType /\ d.f = c.f
             /\ d.reg[PCH] = 0
             /\ \A o \in Code : d.reg[<<0, o>>] = Idle[o]
             /\ \A r \in Regs : r # PCH /\ (\A o \in Code : r # <<0, o>>)
                  => d.reg[r] = c.reg[r]
<1> DEFINE c0 == IF c.reg[PCH] # 0 THEN WRITE_REG(c, "PCH", 0) ELSE c
<1>1. Idle \in [Code -> Ops] /\ 0 \in Val
  BY IceAssumption DEF Idle, Val
<1>2. Hit(c, "PCH") = PCH /\ PCH \in Regs
  BY HitsBank0, RegShape DEF PCH
<1>3. /\ c0 \in ChipType /\ c0.f = c.f /\ c0.reg[PCH] = 0
      /\ \A r \in Regs : r # PCH => c0.reg[r] = c.reg[r]
  BY <1>1, <1>2, Writes
<1>4. prepare_start(c, flags, c.reg[PCH], lo, bytes)
        = SetCode(c0, flags, bytes, Idle)
  BY DEF prepare_start
<1> HIDE DEF c0
<1> DEFINE d == SetCode(c0, flags, bytes, Idle)
<1>5. /\ d \in ChipType /\ d.f = c0.f
      /\ \A o \in Code : d.reg[<<0, o>>] =
           IF bytes[o] # Idle[o] THEN Idle[o] ELSE c0.reg[<<0, o>>]
      /\ \A r \in Regs : (\A o \in Code : r # <<0, o>>) => d.reg[r] = c0.reg[r]
  BY <1>1, <1>3, SetsCode
<1> HIDE DEF d
<1>6. \A o \in Code : <<0, o>> \in Regs /\ <<0, o>> # PCH
  BY RegShape
<1>7. \A o \in Code : c0.reg[<<0, o>>] = bytes[o]
  BY <1>3, <1>6
<1>8. \A o \in Code : d.reg[<<0, o>>] = Idle[o]
  BY <1>5, <1>7
<1>9. d.reg[PCH] = 0
  BY <1>2, <1>3, <1>5, <1>6
<1>10. \A r \in Regs : r # PCH /\ (\A o \in Code : r # <<0, o>>)
         => d.reg[r] = c.reg[r]
  BY <1>3, <1>5
<1> QED
  BY <1>3, <1>4, <1>5, <1>8, <1>9, <1>10 DEF d

\* A chip that is ready to be woken gets the client's program counter and code.
LEMMA SetsShadows ==
  ASSUME NEW c \in ChipType, "XIO" \notin c.f,
         NEW flags, "XIO" \notin flags,
         NEW hi \in PCs, NEW lo \in PCs, NEW bytes \in [Code -> Ops],
         c.reg[PCH] = 0, \A o \in Code : c.reg[<<0, o>>] = Idle[o]
  PROVE  LET d == set_shadows(c, flags, hi, lo, bytes)
         IN  /\ d \in ChipType /\ d.f = c.f
             /\ d.reg[PCH] = hi /\ d.reg[PCL] = lo
             /\ \A o \in Code : d.reg[<<0, o>>] = bytes[o]
             /\ \A r \in Regs \ Shadowed : d.reg[r] = c.reg[r]
<1> DEFINE c0 == IF hi # 0 THEN WRITE_REG(c, "PCH", hi) ELSE c
           c1 == WRITE_REG(c0, "PCL", lo)
           d == SetCode(c1, flags, bytes, bytes)
<1>1. hi \in Val /\ lo \in Val
  BY DEF Val
<1>2. Hit(c, "PCH") = PCH /\ Hit(c0, "PCL") = PCL
  BY HitsBank0 DEF PCH, PCL, Banked, Code
<1>3. /\ PCH \in Regs /\ PCL \in Regs /\ PCH # PCL
      /\ \A o \in Code : <<0, o>> \in Regs /\ <<0, o>> # PCH /\ <<0, o>> # PCL
  BY RegShape
<1>4. /\ c0 \in ChipType /\ c0.f = c.f /\ c0.reg[PCH] = hi
      /\ \A r \in Regs : r # PCH => c0.reg[r] = c.reg[r]
  BY <1>1, <1>2, <1>3, Writes
<1>5. set_shadows(c, flags, hi, lo, bytes) = d
  BY DEF set_shadows
<1> HIDE DEF c0
<1>6. /\ c1 \in ChipType /\ c1.f = c.f /\ c1.reg[PCL] = lo
      /\ \A r \in Regs : r # PCL => c1.reg[r] = c0.reg[r]
  BY <1>1, <1>2, <1>3, <1>4, Writes
<1> HIDE DEF c1
<1>7. /\ d \in ChipType /\ d.f = c1.f
      /\ \A o \in Code : d.reg[<<0, o>>] =
           IF bytes[o] # Idle[o] THEN bytes[o] ELSE c1.reg[<<0, o>>]
      /\ \A r \in Regs : (\A o \in Code : r # <<0, o>>) => d.reg[r] = c1.reg[r]
  BY <1>6, SetsCode
<1> HIDE DEF d
<1>8. \A o \in Code : c1.reg[<<0, o>>] = Idle[o]
  BY <1>3, <1>4, <1>6
<1>9. \A o \in Code : d.reg[<<0, o>>] = bytes[o]
  BY <1>7, <1>8
<1>10. d.reg[PCH] = hi /\ d.reg[PCL] = lo
  BY <1>3, <1>4, <1>6, <1>7
<1>11. \A r \in Regs \ Shadowed : d.reg[r] = c.reg[r]
  BY <1>4, <1>6, <1>7, Unshadowed
<1> QED
  BY <1>5, <1>6, <1>7, <1>9, <1>10, <1>11

\* A chip with the idle code that is woken changes its low byte only.
LEMMA Wakes ==
  ASSUME NEW c \in ChipType, \A o \in Code : c.reg[<<0, o>>] = Idle[o],
         NEW d \in Exec(At3(c))
  PROVE  /\ CodeOf(At3(c)) = Idle
         /\ d \in ChipType /\ d.f = c.f
         /\ \A r \in Regs : r # PCL => d.reg[r] = c.reg[r]
<1> DEFINE at3 == At3(c)
<1>1. Hit(c, "PCL") = PCL /\ PCL \in Regs /\ 3 \in Val
  BY HitsBank0, RegShape, IceAssumption DEF PCL, Banked, Code, Val
<1>2. /\ at3 \in ChipType /\ at3.f = c.f
      /\ \A r \in Regs : r # PCL => at3.reg[r] = c.reg[r]
  BY <1>1, Writes DEF At3
<1> HIDE DEF at3
<1>3. \A o \in Code : at3.reg[<<0, o>>] = Idle[o]
  BY <1>2, RegShape
<1>4. CodeOf(at3) = Idle
  BY <1>3 DEF CodeOf, Idle
<1>5. at3.reg[<<0, "CODE0">>] = OP_HALT
  BY <1>3 DEF Idle, Code
<1>6. PICK l \in PCs : d = [at3 EXCEPT !.reg[PCL] = l]
  BY <1>5 DEF Exec, PCL, at3
<1>7. l \in Val
  BY DEF Val
<1>8. /\ d \in ChipType /\ d.f = c.f
      /\ \A r \in Regs : r # PCL => d.reg[r] = c.reg[r]
  BY <1>1, <1>2, <1>6, <1>7 DEF ChipType
<1> QED
  BY <1>4, <1>8 DEF at3

-----------------------------------------------------------------------------
(* The invariant *)

\* The chip is ready to be woken, and the client's flags select no bank.
Ready ==
  /\ "XIO" \notin f
  /\ chip.reg[PCH] = 0
  /\ \A o \in Code : chip.reg[<<0, o>>] = Idle[o]

Inv == ShadowsAgree /\ Ready

\* A chip that is woken stays ready, if it was.
LEMMA WakesReady ==
  ASSUME NEW c \in ChipType, c.reg[PCH] = 0,
         \A o \in Code : c.reg[<<0, o>>] = Idle[o],
         start_clock(c)
  PROVE  /\ woken' = Idle /\ chip' \in ChipType /\ chip'.f = c.f
         /\ chip'.reg[PCH] = 0
         /\ \A o \in Code : chip'.reg[<<0, o>>] = Idle[o]
         /\ \A r \in Regs : r # PCL => chip'.reg[r] = c.reg[r]
BY Wakes, RegShape DEF start_clock

\* What set_xio leaves has the bank selected, and all else as it was.
LEMMA SelectsBank ==
  ASSUME Inv, NEW b \in {0, 1}
  PROVE  /\ set_xio(b) \in ChipType
         /\ set_xio(b).reg = chip.reg
         /\ b = 1 <=> "XIO" \in set_xio(b).f
<1>1. chip \in ChipType /\ xio \in {0, 1} /\ (xio = 1 <=> "XIO" \in chip.f)
  BY DEF Inv, ShadowsAgree, TypeOK, BankAgrees, ChipType
<1>2. CASE b = xio
  BY <1>1, <1>2 DEF set_xio
<1>3. CASE b # xio
  <2>1. {"XIO"} \in SUBSET Flags /\ {} \in SUBSET Flags
    BY IceAssumption
  <2>2. set_xio(b) = [chip EXCEPT !.f = IF b = 1 THEN {"XIO"} ELSE {}]
    BY <1>3 DEF set_xio, WRITE_F
  <2> QED
    BY <1>1, <2>1, <2>2 DEF ChipType
<1> QED
  BY <1>2, <1>3

\* A register that is not shadowed is hit when its bank has been selected.
LEMMA HitsBank ==
  ASSUME Inv, NEW r \in Regs \ Shadowed
  PROVE  Hit(set_xio(r[1]), r[2]) = r
<1>1. r[2] \in Banked /\ r = <<r[1], r[2]>> /\ r[1] \in {0, 1}
  BY RegShape
<1>2. r[1] = 1 <=> "XIO" \in set_xio(r[1]).f
  BY <1>1, SelectsBank
<1> QED
  BY <1>1, <1>2 DEF Hit

\* Initially the chip has been made ready.
LEMMA InitInv == Init => Inv
<1> SUFFICES ASSUME Init PROVE Inv
  OBVIOUS
<1>1. PICK d \in [{0, 1} -> Data] :
        LET identified == [r \in Regs |-> IF r \in Shadowed THEN Shadow(r)
                                                            ELSE d[r[1]]]
            c == prepare_start([f |-> f, reg |-> identified], f, pch, pcl, code)
        IN  /\ xio = 0 /\ f = {} /\ pch = 0 /\ pcl = 0
            /\ code = [Idle EXCEPT !["CODE0"] = OP_SSC, !["CODE1"] = OP_HALT]
            /\ chip \in Exec(At3(c)) /\ woken = CodeOf(At3(c))
            /\ out = {}
  BY DEF Init
<1> DEFINE c == [f |-> f, reg |-> [r \in Regs |-> IF r \in Shadowed THEN Shadow(r)
                                                             ELSE d[r[1]]]]
<1>2. code \in [Code -> Ops] /\ Idle \in [Code -> Ops] /\ 0 \in PCs
  BY <1>1, IceAssumption DEF Idle
<1>3. \A r \in Shadowed : Shadow(r) \in Val
  BY <1>1, <1>2, RegShape DEF Shadow, Val, Shared
<1>4. \A r \in Regs \ Shadowed : d[r[1]] \in Val
  BY RegShape DEF Val
<1>5. c \in ChipType /\ "XIO" \notin c.f /\ c.f = {}
  BY <1>1, <1>3, <1>4 DEF ChipType
<1>6. c.reg[PCH] = pch /\ \A o \in Code : c.reg[<<0, o>>] = code[o]
  <2>1. \A o \in Code : /\ <<0, o>> \in Shadowed /\ <<0, o>> \in Regs
                       /\ Shadow(<<0, o>>) = code[o]
    BY RegShape DEF Shadowed, Shadow, Code
  <2>2. PCH \in Shadowed /\ PCH \in Regs /\ Shadow(PCH) = pch
    BY RegShape DEF Shadowed, Shadow, Shared, PCH
  <2> QED
    BY <2>1, <2>2
<1> DEFINE e == prepare_start(c, f, c.reg[PCH], pcl, code)
<1>7. chip \in Exec(At3(e)) /\ woken = CodeOf(At3(e))
  BY <1>1, <1>6
<1> HIDE DEF c
<1>8. /\ e \in ChipType /\ e.f = {} /\ e.reg[PCH] = 0
      /\ \A o \in Code : e.reg[<<0, o>>] = Idle[o]
  <2>1. "XIO" \notin f /\ pcl \in Nat /\ pcl # 3
    BY <1>1
  <2>2. \A o \in Code : c.reg[<<0, o>>] = code[o]
    BY <1>6
  <2> QED
    BY <1>2, <1>5, <2>1, <2>2, Prepares
<1> HIDE DEF e
<1>9. /\ woken = Idle /\ chip \in ChipType /\ chip.f = {} /\ chip.reg[PCH] = 0
      /\ \A o \in Code : chip.reg[<<0, o>>] = Idle[o]
  BY <1>7, <1>8, Wakes, RegShape
<1>10. Idle \in [Code -> Val]
  BY <1>2 DEF Val
<1>11. xio = 0 /\ f = {} /\ pch = 0 /\ pcl = 0 /\ out = {}
  BY <1>1
<1>12. TypeOK
  BY <1>2, <1>9, <1>10, <1>11 DEF TypeOK, ChipType
<1>13. WokenByHalt /\ BankAgrees /\ Ready
  BY <1>9, <1>11 DEF Ready, WokenByHalt, BankAgrees
<1> QED
  BY <1>12, <1>13 DEF Inv, ShadowsAgree

\* What a call shows of a register is of the type of registers.
LEMMA SeenType ==
  ASSUME Inv
  PROVE  /\ Seen \in [Regs -> Val]
         /\ \A r \in Shadowed : Seen[r] = Shadow(r) /\ Shadow(r) \in Val
         /\ \A r \in Regs \ Shadowed : Seen[r] = chip.reg[r]
<1>1. pch \in Val /\ pcl \in Val /\ code \in [Code -> Val]
  BY DEF Inv, ShadowsAgree, TypeOK, Val
<1>2. \A r \in Shadowed : r \in Regs /\ Shadow(r) \in Val
  BY <1>1, RegShape DEF Shadow, Shared
<1>3. \A r \in Regs : chip.reg[r] \in Val
  BY DEF Inv, ShadowsAgree, TypeOK
<1> QED
  BY <1>2, <1>3 DEF Seen

\* After a step the invariant holds again if its parts do.
LEMMA Parts ==
  ASSUME xio' \in {0, 1}, f' \in SUBSET Flags, "XIO" \notin f',
         pch' \in PCs, pcl' \in PCs, code' \in [Code -> Ops],
         out' \in SUBSET (Regs \X Val),
         woken' = Idle, chip' \in ChipType,
         xio' = 1 <=> "XIO" \in chip'.f,
         chip'.reg[PCH] = 0,
         \A o \in Code : chip'.reg[<<0, o>>] = Idle[o]
  PROVE  Inv'
<1>1. Idle \in [Code -> Val]
  BY IceAssumption DEF Idle, Val
<1>2. TypeOK'
  BY <1>1 DEF TypeOK, ChipType
<1>3. WokenByHalt' /\ BankAgrees' /\ Ready'
  BY DEF WokenByHalt, BankAgrees, Ready, PCH
<1> QED
  BY <1>2, <1>3 DEF Inv, ShadowsAgree

\* The parts, unprimed, for steps that leave some of them alone.
LEMMA PartsNow ==
  ASSUME Inv
  PROVE  /\ xio \in {0, 1} /\ f \in SUBSET Flags /\ "XIO" \notin f
         /\ pch \in PCs /\ pcl \in PCs /\ code \in [Code -> Ops]
         /\ woken = Idle /\ chip \in ChipType
         /\ (xio = 1 <=> "XIO" \in chip.f)
         /\ chip.reg[PCH] = 0
         /\ \A o \in Code : chip.reg[<<0, o>>] = Idle[o]
BY DEF Inv, ShadowsAgree, TypeOK, WokenByHalt, BankAgrees, Ready, ChipType

\* The client sees no change while the shadows and the registers that have
\* none are left alone.
LEMMA SeenSame ==
  ASSUME UNCHANGED <<pch, pcl, code>>,
         \A r \in Regs \ Shadowed : chip'.reg[r] = chip.reg[r]
  PROVE  Seen' = Seen
BY DEF Seen, Shadow

\* Reading: the result is what the client has seen.
LEMMA ReadStep ==
  ASSUME Inv, Read
  PROVE  Inv' /\ \E r \in Regs : Plain!Read(r)
<1>1. PICK r \in Regs : ice_read(r) /\ UNCHANGED <<f, pch, pcl, code>>
  BY DEF Read
<1>2. CASE r \in Shadowed
  <2>1. out' = {<<r, Shadow(r)>>} /\ UNCHANGED <<xio, chip, woken>>
    BY <1>1, <1>2 DEF ice_read
  <2>2. Seen[r] = Shadow(r) /\ Shadow(r) \in Val
    BY <1>2, SeenType
  <2>3. Seen' = Seen
    BY <1>1, <2>1, SeenSame
  <2>4. out' \in SUBSET (Regs \X Val)
    BY <2>1, <2>2
  <2>5. Inv'
    BY <1>1, <2>1, <2>4, PartsNow, Parts
  <2> QED
    BY <2>1, <2>2, <2>3, <2>5 DEF Plain!Read
<1>3. CASE r \notin Shadowed
  <2> DEFINE c == set_xio(r[1])
  <2>1. /\ xio' = r[1] /\ start_clock(c)
        /\ out' = {<<r, READ_REG(c, r[2])>>}
    BY <1>1, <1>3 DEF ice_read
  <2>2. r[1] \in {0, 1}
    BY RegShape
  <2>3. c \in ChipType /\ c.reg = chip.reg /\ (r[1] = 1 <=> "XIO" \in c.f)
    BY <2>2, SelectsBank
  <2>4. Hit(c, r[2]) = r
    BY <1>3, HitsBank
  <2> HIDE DEF c
  <2>5. /\ woken' = Idle /\ chip' \in ChipType /\ chip'.f = c.f
        /\ chip'.reg[PCH] = 0
        /\ \A o \in Code : chip'.reg[<<0, o>>] = Idle[o]
        /\ \A s \in Regs : s # PCL => chip'.reg[s] = c.reg[s]
    BY <2>1, <2>3, PartsNow, WakesReady
  <2>6. READ_REG(c, r[2]) = Seen[r] /\ Seen[r] \in Val
    BY <1>3, <2>3, <2>4, SeenType DEF READ_REG
  <2>7. Seen' = Seen
    BY <1>1, <2>3, <2>5, Unshadowed, SeenSame
  <2>8. out' \in SUBSET (Regs \X Val)
    BY <2>1, <2>6
  <2>9. Inv'
    BY <1>1, <2>1, <2>2, <2>3, <2>5, <2>8, PartsNow, Parts
  <2> QED
    BY <2>1, <2>6, <2>7, <2>9 DEF Plain!Read
<1> QED
  BY <1>2, <1>3

\* Writing: the register written to changes and no other one.
LEMMA WriteStep ==
  ASSUME Inv, Write
  PROVE  Inv' /\ \E r \in Regs, v \in Val : Plain!Write(r, v)
<1>0. PICK r \in Regs : \E v \in Values(r) :
        ice_write(r, v) /\ out' = {} /\ UNCHANGED f
  BY DEF Write
<1>1. PICK v \in Values(r) : ice_write(r, v) /\ out' = {} /\ UNCHANGED f
  BY <1>0
<1>2. v \in Val
  BY DEF Values, Val
<1>3. CASE r \in Shadowed
  <2>1. SetShadow(r, v) /\ start_clock(chip) /\ UNCHANGED xio
    BY <1>1, <1>3 DEF ice_write
  <2>2. /\ woken' = Idle /\ chip' \in ChipType /\ chip'.f = chip.f
        /\ chip'.reg[PCH] = 0
        /\ \A o \in Code : chip'.reg[<<0, o>>] = Idle[o]
        /\ \A s \in Regs : s # PCL => chip'.reg[s] = chip.reg[s]
    BY <2>1, PartsNow, WakesReady
  <2>3. r[1] = 0 /\ r[2] \in Code \cup Shared /\ r = <<r[1], r[2]>>
    BY <1>3, RegShape
  <2>4. /\ r[2] = "PCH" => v \in PCs
        /\ r[2] = "PCL" => v \in PCs
        /\ r[2] \in Code => v \in Ops
    BY <2>3 DEF Values, Shared, CodeRegs, Code
  <2>5. pch' \in PCs /\ pcl' \in PCs /\ code' \in [Code -> Ops]
    BY <2>1, <2>4, PartsNow DEF SetShadow
  <2>6. Inv'
    BY <1>1, <2>1, <2>2, <2>5, PartsNow, Parts
  <2>7. \A s \in Shadowed : s \in Regs /\ Shadow(s)' = IF s = r THEN v ELSE Shadow(s)
    <3> SUFFICES ASSUME NEW s \in Shadowed
                 PROVE  s \in Regs /\ Shadow(s)' = IF s = r THEN v ELSE Shadow(s)
      OBVIOUS
    <3>1. s \in Regs /\ s[1] = 0 /\ s[2] \in Code \cup Shared /\ s = <<s[1], s[2]>>
      BY RegShape
    <3>2. s = r <=> s[2] = r[2]
      BY <2>3, <3>1
    <3>3. s[2] \notin {"PCH", "PCL"} => s[2] \in Code
      BY <3>1 DEF Shared
    <3> QED
      BY <2>1, <3>1, <3>2, <3>3 DEF SetShadow, Shadow
  <2>8. \A s \in Regs \ Shadowed : chip'.reg[s] = chip.reg[s]
    BY <2>2, Unshadowed
  <2>9. Seen' = [Seen EXCEPT ![r] = v]
    <3>1. Seen' = [s \in Regs |-> IF s \in Shadowed THEN Shadow(s)' ELSE chip'.reg[s]]
      BY DEF Seen
    <3> QED
      BY <1>3, <2>7, <2>8, <3>1 DEF Seen
  <2> QED
    BY <1>1, <1>2, <2>6, <2>9 DEF Plain!Write
<1>4. CASE r \notin Shadowed
  <2> DEFINE c == set_xio(r[1])
             d == WRITE_REG(c, r[2], v)
  <2>1. xio' = r[1] /\ start_clock(d) /\ UNCHANGED <<pch, pcl, code>>
    BY <1>1, <1>4 DEF ice_write
  <2>2. r[1] \in {0, 1}
    BY RegShape
  <2>3. c \in ChipType /\ c.reg = chip.reg /\ (r[1] = 1 <=> "XIO" \in c.f)
    BY <2>2, SelectsBank
  <2>4. Hit(c, r[2]) = r
    BY <1>4, HitsBank
  <2> HIDE DEF c
  <2>5. /\ d \in ChipType /\ d.f = c.f /\ d.reg[r] = v
        /\ \A s \in Regs : s # r => d.reg[s] = c.reg[s]
    BY <1>2, <2>3, <2>4, Writes
  <2> HIDE DEF d
  <2>6. d.reg[PCH] = 0 /\ \A o \in Code : d.reg[<<0, o>>] = Idle[o]
    BY <1>4, <2>3, <2>5, PartsNow, RegShape, Unshadowed
  <2>7. /\ woken' = Idle /\ chip' \in ChipType /\ chip'.f = d.f
        /\ chip'.reg[PCH] = 0
        /\ \A o \in Code : chip'.reg[<<0, o>>] = Idle[o]
        /\ \A s \in Regs : s # PCL => chip'.reg[s] = d.reg[s]
    BY <2>1, <2>5, <2>6, WakesReady
  <2>8. Inv'
    BY <1>1, <2>1, <2>2, <2>3, <2>5, <2>7, PartsNow, Parts
  <2>9. \A s \in Regs \ Shadowed :
          chip'.reg[s] = IF s = r THEN v ELSE chip.reg[s]
    BY <2>3, <2>5, <2>7, Unshadowed
  <2>10. Seen' = [Seen EXCEPT ![r] = v]
    <3>1. \A s \in Regs : Shadow(s)' = Shadow(s)
      BY <2>1 DEF Shadow
    <3>2. Seen' = [s \in Regs |-> IF s \in Shadowed THEN Shadow(s)' ELSE chip'.reg[s]]
      BY DEF Seen
    <3> QED
      BY <1>4, <2>9, <3>1, <3>2 DEF Seen
  <2> QED
    BY <1>1, <1>2, <2>8, <2>10 DEF Plain!Write
<1> QED
  BY <1>3, <1>4

\* CPU_F: the client's registers stay as they are.
LEMMA AccessStep ==
  ASSUME Disciplined, Inv, AccessF
  PROVE  Inv' /\ Plain!Other
<1>1. /\ ice_access_f /\ out' = {} /\ UNCHANGED <<f, pch, pcl, code>>
      /\ xio' = 0
  BY DEF AccessF, ice_access_f
<1>2. PICK c \in ChipType : start_clock(c) /\ c.reg = chip.reg /\ "XIO" \notin c.f
  <2>1. /\ set_xio(0) \in ChipType /\ set_xio(0).reg = chip.reg
        /\ "XIO" \notin set_xio(0).f
    BY SelectsBank
  <2>2. CASE start_clock(set_xio(0))
    BY <2>1, <2>2
  <2>3. CASE \E flags \in SUBSET Flags :
               MaySet(flags) /\ start_clock(WRITE_F(set_xio(0), flags))
    <3>1. PICK flags \in SUBSET Flags :
            "XIO" \notin flags /\ start_clock(WRITE_F(set_xio(0), flags))
      BY <2>3 DEF MaySet
    <3> DEFINE d == WRITE_F(set_xio(0), flags)
    <3>2. d \in ChipType /\ d.reg = chip.reg /\ d.f = flags
      BY <2>1 DEF WRITE_F, ChipType
    <3> HIDE DEF d
    <3> QED
      BY <3>1, <3>2 DEF d
  <2> QED
    BY <1>1, <2>2, <2>3 DEF ice_access_f
<1>3. /\ woken' = Idle /\ chip' \in ChipType /\ chip'.f = c.f
      /\ chip'.reg[PCH] = 0
      /\ \A o \in Code : chip'.reg[<<0, o>>] = Idle[o]
      /\ \A r \in Regs : r # PCL => chip'.reg[r] = c.reg[r]
  BY <1>2, PartsNow, WakesReady
<1>4. Seen' = Seen
  BY <1>1, <1>2, <1>3, Unshadowed, SeenSame
<1>5. Inv'
  BY <1>1, <1>2, <1>3, PartsNow, Parts
<1> QED
  BY <1>1, <1>4, <1>5 DEF Plain!Other

\* What the client's code leaves behind, if it starts with its own bytes.
LEMMA Executes ==
  ASSUME NEW c \in ChipType, c.reg[PCH] \in PCs, NEW d \in Exec(c)
  PROVE  /\ d \in ChipType
         /\ d.reg[PCH] \in PCs /\ d.reg[PCL] \in PCs
         /\ \A o \in Code : d.reg[<<0, o>>] = c.reg[<<0, o>>]
<1>1. /\ PCH \in Regs /\ PCL \in Regs /\ <<0, "P">> \in Regs /\ PCH # PCL
      /\ \A o \in Code : <<0, o>> \in Regs /\ <<0, o>> # PCH /\ <<0, o>> # PCL
                        /\ <<0, o>> # <<0, "P">>
      /\ <<0, "P">> # PCH /\ <<0, "P">> # PCL
  BY RegShape DEF PCH, PCL, Code
<1>2. PCs \subseteq Val /\ Data \subseteq Val
  BY DEF Val
<1>3. CASE c.reg[<<0, "CODE0">>] = OP_HALT
  <2>1. PICK l \in PCs : d = [c EXCEPT !.reg[PCL] = l]
    BY <1>3 DEF Exec, PCL
  <2> QED
    BY <1>1, <1>2, <2>1 DEF ChipType
<1>4. CASE c.reg[<<0, "CODE0">>] # OP_HALT
  <2>1. PICK g \in SUBSET Flags, h \in PCs, l \in PCs, p \in Data :
          d = [f |-> g, reg |-> [c.reg EXCEPT ![PCH] = h, ![PCL] = l,
                                              ![<<0, "P">>] = p]]
    BY <1>4 DEF Exec, PCH, PCL
  <2> DEFINE regs == [c.reg EXCEPT ![PCH] = h, ![PCL] = l, ![<<0, "P">>] = p]
  <2>2. /\ regs \in [Regs -> Val] /\ regs[PCH] = h /\ regs[PCL] = l
        /\ \A o \in Code : regs[<<0, o>>] = c.reg[<<0, o>>]
    BY <1>1, <1>2 DEF ChipType
  <2> HIDE DEF regs
  <2>3. d = [f |-> g, reg |-> regs]
    BY <2>1 DEF regs
  <2> QED
    BY <2>2, <2>3 DEF ChipType
<1> QED
  BY <1>3, <1>4

\* The client's code runs with its program counter and all its bytes, and what
\* it leaves is what the client sees afterwards.
LEMMA ExecuteStep ==
  ASSUME Disciplined, Inv, Execute
  PROVE  Inv' /\ Plain!Execute
<1> DEFINE c == set_shadows(chip, f, pch, pcl, code)
<1>1. /\ xio = 0 /\ xio' = xio
      /\ out' = {<<r, c.reg[r]>> : r \in Shadowed}
      /\ \E left \in Exec(c) :
           /\ "XIO" \notin left.f /\ left.reg[PCL] # 3
           /\ fetch_shadows(left)
           /\ start_clock(prepare_start(left, f', pch', pcl', code'))
  BY DEF Execute, ice_exec, MayRun, MayLeave, PCL
<1>2. "XIO" \notin chip.f
  BY <1>1, PartsNow
<1>3. /\ c \in ChipType /\ c.f = chip.f
      /\ c.reg[PCH] = pch /\ c.reg[PCL] = pcl
      /\ \A o \in Code : c.reg[<<0, o>>] = code[o]
      /\ \A r \in Regs \ Shadowed : c.reg[r] = chip.reg[r]
  BY <1>2, PartsNow, SetsShadows
<1> HIDE DEF c
<1>4. PICK left \in Exec(c) :
        /\ "XIO" \notin left.f /\ left.reg[PCL] # 3
        /\ fetch_shadows(left)
        /\ start_clock(prepare_start(left, f', pch', pcl', code'))
  BY <1>1
<1>5. /\ left \in ChipType
      /\ left.reg[PCH] \in PCs /\ left.reg[PCL] \in PCs
      /\ \A o \in Code : left.reg[<<0, o>>] = code[o]
  BY <1>3, PartsNow, Executes
<1>6. /\ f' = left.f /\ pch' = left.reg[PCH] /\ pcl' = left.reg[PCL]
      /\ code' = [o \in Code |-> left.reg[<<0, o>>]]
  BY <1>4, HitsBank0 DEF fetch_shadows, READ_REG, Hit, PCH, PCL
<1>7. code' = code /\ code \in [Code -> Ops]
  BY <1>5, <1>6, PartsNow
<1> DEFINE d == prepare_start(left, left.f, left.reg[PCH], left.reg[PCL], code)
<1>8. start_clock(d)
  BY <1>4, <1>6, <1>7
<1>9. /\ d \in ChipType /\ d.f = left.f /\ d.reg[PCH] = 0
      /\ \A o \in Code : d.reg[<<0, o>>] = Idle[o]
      /\ \A r \in Regs : r # PCH /\ (\A o \in Code : r # <<0, o>>)
                         => d.reg[r] = left.reg[r]
  <2>1. left.reg[PCL] \in Nat
    BY <1>5, IceAssumption
  <2> QED
    BY <1>4, <1>5, <1>7, <2>1, Prepares
<1> HIDE DEF d
<1>10. /\ woken' = Idle /\ chip' \in ChipType /\ chip'.f = d.f
       /\ chip'.reg[PCH] = 0
       /\ \A o \in Code : chip'.reg[<<0, o>>] = Idle[o]
       /\ \A r \in Regs : r # PCL => chip'.reg[r] = d.reg[r]
  BY <1>8, <1>9, WakesReady
<1>11. \A r \in Shadowed : c.reg[r] = Seen[r] /\ r \in Regs /\ Seen[r] \in Val
  <2> SUFFICES ASSUME NEW r \in Shadowed
               PROVE  c.reg[r] = Seen[r] /\ r \in Regs /\ Seen[r] \in Val
    OBVIOUS
  <2>1. r \in Regs /\ r = <<0, r[2]>> /\ r[2] \in Code \cup Shared
    BY RegShape
  <2>2. c.reg[r] = Shadow(r)
    BY <1>3, <2>1 DEF Shadow, Shared, Code, PCH, PCL
  <2> QED
    BY <2>1, <2>2, SeenType
<1>12. out' = {<<r, Seen[r]>> : r \in Shadowed} /\ out' \in SUBSET (Regs \X Val)
  BY <1>1, <1>11
<1>13. Inv'
  <2>1. left.f \in SUBSET Flags
    BY <1>5 DEF ChipType
  <2>2. /\ f' \in SUBSET Flags /\ "XIO" \notin f'
        /\ pch' \in PCs /\ pcl' \in PCs /\ code' \in [Code -> Ops]
    BY <1>4, <1>5, <1>6, <1>7, <2>1
  <2>3. xio' = 0 /\ "XIO" \notin chip'.f
    BY <1>1, <1>4, <1>9, <1>10
  <2> QED
    BY <1>10, <1>12, <2>2, <2>3, Parts
<1>14. Seen' \in [Regs -> Val]
  <2>1. pch' \in Val /\ pcl' \in Val /\ code' \in [Code -> Val]
    BY <1>5, <1>6, <1>7 DEF Val
  <2>2. \A r \in Shadowed : Shadow(r)' \in Val
    BY <2>1, RegShape DEF Shadow, Shared
  <2>3. \A r \in Regs : chip'.reg[r] \in Val
    BY <1>10 DEF ChipType
  <2> QED
    BY <2>2, <2>3 DEF Seen
<1>15. \A r \in CodeRegs : Seen'[r] = Seen[r]
  <2> SUFFICES ASSUME NEW r \in CodeRegs PROVE Seen'[r] = Seen[r]
    OBVIOUS
  <2>1. r \in Shadowed /\ r \in Regs /\ r[2] \in Code
    BY RegShape DEF CodeRegs, Shadowed
  <2>2. Shadow(r)' = Shadow(r)
    BY <1>7, <2>1 DEF Shadow, Code
  <2> QED
    BY <2>1, <2>2 DEF Seen
<1> QED
  BY <1>12, <1>13, <1>14, <1>15 DEF Plain!Execute

-----------------------------------------------------------------------------
(* The theorems *)

\* A step keeps the invariant and is one of a register file, or of nobody.
LEMMA Step ==
  ASSUME Disciplined, Inv, [Next]_vars
  PROVE  Inv' /\ [Plain!Next]_<<Seen, out>>
<1>1. CASE Read
  BY <1>1, ReadStep DEF Plain!Next
<1>2. CASE Write
  BY <1>2, WriteStep DEF Plain!Next
<1>3. CASE AccessF
  BY <1>3, AccessStep DEF Plain!Next
<1>4. CASE Execute
  BY <1>4, ExecuteStep DEF Plain!Next
<1>5. CASE UNCHANGED vars
  <2>1. UNCHANGED <<xio, f, pch, pcl, code, chip, out, woken>>
    BY <1>5 DEF vars, host
  <2>2. out \in SUBSET (Regs \X Val)
    BY DEF Inv, ShadowsAgree, TypeOK
  <2>3. Inv'
    BY <2>1, <2>2, PartsNow, Parts
  <2>4. Seen' = Seen
    BY <2>1, SeenSame
  <2> QED
    BY <2>1, <2>3, <2>4
<1> QED
  BY <1>1, <1>2, <1>3, <1>4, <1>5 DEF Next

\* The invariant holds of every behaviour with a disciplined client.
THEOREM Invariance ==
  ASSUME Disciplined
  PROVE  Spec => []Inv
<1>1. Init => Inv
  BY InitInv
<1>2. Inv /\ [Next]_vars => Inv'
  BY Step
<1> QED
  BY <1>1, <1>2, PTL DEF Spec

\* The bank that ice.c remembers is the one selected, the chip is woken by a
\* HALT and nothing else, and the shadows hold what belongs there (ice.c:26-90).
THEOREM ShadowsKept ==
  ASSUME Disciplined
  PROVE  Spec => []ShadowsAgree
<1>1. Spec => []Inv
  BY Invariance
<1>2. Inv => ShadowsAgree
  BY DEF Inv
<1> QED
  BY <1>1, <1>2, PTL

\* With its shadows, banks and vectors the ICE is, for a disciplined client, a
\* plain register file (ice_read, ice_write).
THEOREM IsRegisterFile ==
  ASSUME Disciplined
  PROVE  Spec => PlainRegisters
<1>1. Spec => []Inv
  BY Invariance
<1>2. Init => Plain!Init
  <2> SUFFICES ASSUME Init PROVE Plain!Init
    OBVIOUS
  <2>1. Inv /\ out = {}
    BY InitInv DEF Init
  <2> QED
    BY <2>1, SeenType DEF Plain!Init
<1>3. Inv /\ [Next]_vars => [Plain!Next]_<<Seen, out>>
  BY Step
<1> QED
  BY <1>1, <1>2, <1>3, PTL DEF Spec, PlainRegisters, Plain!Spec
-----------------------------------------------------------------------------
(* Bits, bytes and what the chip makes of them *)

\* The bits of a byte are bits, and make up the byte again.
LEMMA BitsOfByte ==
  ASSUME NEW n \in 0..255
  PROVE  /\ \A j \in 1..8 : BitOf(n, j) \in {0, 1}
         /\ 128 * BitOf(n, 1) + 64 * BitOf(n, 2) + 32 * BitOf(n, 3)
              + 16 * BitOf(n, 4) + 8 * BitOf(n, 5) + 4 * BitOf(n, 6)
              + 2 * BitOf(n, 7) + BitOf(n, 8) = n
<1>1. /\ BitOf(n, 1) = (n \div 128) % 2 /\ BitOf(n, 2) = (n \div 64) % 2
      /\ BitOf(n, 3) = (n \div 32) % 2 /\ BitOf(n, 4) = (n \div 16) % 2
      /\ BitOf(n, 5) = (n \div 8) % 2 /\ BitOf(n, 6) = (n \div 4) % 2
      /\ BitOf(n, 7) = (n \div 2) % 2 /\ BitOf(n, 8) = n % 2
  BY DEF BitOf, Weight
<1>2. \A j \in 1..8 : BitOf(n, j) \in {0, 1}
  <2> SUFFICES ASSUME NEW j \in 1..8 PROVE BitOf(n, j) \in {0, 1}
    OBVIOUS
  <2>1. j = 1 \/ j = 2 \/ j = 3 \/ j = 4 \/ j = 5 \/ j = 6 \/ j = 7 \/ j = 8
    OBVIOUS
  <2> QED
    BY <1>1, <2>1
<1> DEFINE h1 == n \div 2  h2 == n \div 4  h3 == n \div 8  h4 == n \div 16
           h5 == n \div 32  h6 == n \div 64  h7 == n \div 128
<1>3. /\ n % 2 = n - 2 * h1 /\ h1 % 2 = h1 - 2 * h2 /\ h2 % 2 = h2 - 2 * h3
      /\ h3 % 2 = h3 - 2 * h4 /\ h4 % 2 = h4 - 2 * h5 /\ h5 % 2 = h5 - 2 * h6
      /\ h6 % 2 = h6 - 2 * h7 /\ h7 % 2 = h7
  <2>1. n % 2 = n - 2 * h1
    OBVIOUS
  <2>2. h1 % 2 = h1 - 2 * h2
    OBVIOUS
  <2>3. h2 % 2 = h2 - 2 * h3
    OBVIOUS
  <2>4. h3 % 2 = h3 - 2 * h4
    OBVIOUS
  <2>5. h4 % 2 = h4 - 2 * h5
    OBVIOUS
  <2>6. h5 % 2 = h5 - 2 * h6
    OBVIOUS
  <2>7. h6 % 2 = h6 - 2 * h7
    OBVIOUS
  <2>8. h7 % 2 = h7
    OBVIOUS
  <2> QED
    BY <2>1, <2>2, <2>3, <2>4, <2>5, <2>6, <2>7, <2>8
<1>4. /\ h1 \in Int /\ h2 \in Int /\ h3 \in Int /\ h4 \in Int /\ h5 \in Int
      /\ h6 \in Int /\ h7 \in Int
  OBVIOUS
<1>5. /\ BitOf(n, 1) = h7 % 2 /\ BitOf(n, 2) = h6 % 2 /\ BitOf(n, 3) = h5 % 2
      /\ BitOf(n, 4) = h4 % 2 /\ BitOf(n, 5) = h3 % 2 /\ BitOf(n, 6) = h2 % 2
      /\ BitOf(n, 7) = h1 % 2 /\ BitOf(n, 8) = n % 2
  BY <1>1
<1> HIDE DEF h1, h2, h3, h4, h5, h6, h7
<1> QED
  BY <1>2, <1>3, <1>4, <1>5

\* The bits from the highest on, as they come in.
High(n, m) == IF m = 0 THEN 0 ELSE (n \div Weight[m]) * Weight[m]

LEMMA HighBits ==
  ASSUME NEW n \in 0..255, NEW m \in 0..7
  PROVE  High(n, m) + Weight[m + 1] * BitOf(n, m + 1) = High(n, m + 1)
<1>0. m = 0 \/ m = 1 \/ m = 2 \/ m = 3 \/ m = 4 \/ m = 5 \/ m = 6 \/ m = 7
  OBVIOUS
<1>1. CASE m = 0
  BY <1>1 DEF High, BitOf, Weight
<1>2. CASE m = 1
  BY <1>2 DEF High, BitOf, Weight
<1>3. CASE m = 2
  BY <1>3 DEF High, BitOf, Weight
<1>4. CASE m = 3
  BY <1>4 DEF High, BitOf, Weight
<1>5. CASE m = 4
  BY <1>5 DEF High, BitOf, Weight
<1>6. CASE m = 5
  BY <1>6 DEF High, BitOf, Weight
<1>7. CASE m = 6
  BY <1>7 DEF High, BitOf, Weight
<1>8. CASE m = 7
  BY <1>8 DEF High, BitOf, Weight
<1> QED
  BY <1>0, <1>1, <1>2, <1>3, <1>4, <1>5, <1>6, <1>7, <1>8

LEMMA HighWhole ==
  ASSUME NEW n \in 0..255
  PROVE  High(n, 8) = n /\ High(n, 0) = 0
BY DEF High, Weight
-----------------------------------------------------------------------------
\* The first n of the bits h.
Prefix(h, n) == [k \in 1..n |-> h[k]]
Frames == [1..22 -> {0, 1}]

\* The bit that comes in makes a prefix the next one.
LEMMA Appends ==
  ASSUME NEW h \in Frames, NEW n \in 1..22
  PROVE  /\ Append(Prefix(h, n - 1), h[n]) = Prefix(h, n)
         /\ Len(Prefix(h, n - 1)) = n - 1
<1>1. Prefix(h, n - 1) \in Seq({0, 1}) /\ Len(Prefix(h, n - 1)) = n - 1
  BY DEF Prefix, Frames
<1>2. Prefix(h, n) \in Seq({0, 1}) /\ Len(Prefix(h, n)) = n
  BY DEF Prefix, Frames
<1>3. Append(Prefix(h, n - 1), h[n]) = Prefix(h, n)
  BY <1>1, <1>2 DEF Prefix, Frames
<1> QED
  BY <1>1, <1>3

LEMMA FirstBits ==
  ASSUME NEW h \in Frames
  PROVE  SubSeq(Prefix(h, 22), 1, 19) = Prefix(h, 19)
<1>1. Prefix(h, 22) \in Seq({0, 1}) /\ Len(Prefix(h, 22)) = 22
  BY DEF Prefix, Frames
<1> QED
  BY <1>1 DEF Prefix, Frames

\* What the chip makes of the n-th bit of a frame that begins with a 1.
LEMMA Takes ==
  ASSUME NEW h \in Frames, h[1] = 1, NEW n \in 1..22,
         rx = Prefix(h, n - 1), Take(h[n]),
         NEW cell, cell = <<h[2], Byte(h, 4)>>
  PROVE  /\ life' = life /\ since' = since
         /\ rx' = IF n = 22 THEN <<>> ELSE Prefix(h, n)
         /\ ssc' = IF n = 22 /\ Prefix(h, 19) = Coded(EXEC_VECTOR_SSC)
                   THEN "starts" ELSE ssc
         /\ drive' = IF n \in 13..20 /\ h[3] = 1 /\ cell \in Cells
                     THEN BitOf(reg[cell], n - 12) ELSE Z
         /\ reg' = IF n = 19 /\ h[3] # 1 /\ cell \in Cells
                   THEN [reg EXCEPT ![cell] = Byte(h, 12)] ELSE reg
<1> DEFINE s == Append(rx, h[n])
<1>1. s = Prefix(h, n) /\ Len(rx) + 1 = n
  <2>1. /\ Append(Prefix(h, n - 1), h[n]) = Prefix(h, n)
        /\ Len(Prefix(h, n - 1)) = n - 1
    BY Appends
  <2> QED
    BY <2>1
<1>2. n = 1 => h[n] # 0
  OBVIOUS
<1>3. /\ n > 2 => s[3] = h[3]
      /\ n >= 11 => Target(s) = cell
      /\ n >= 19 => Byte(s, 12) = Byte(h, 12)
      /\ n = 22 => SubSeq(s, 1, 19) = Prefix(h, 19)
  <2>1. n > 2 => s[3] = h[3]
    BY <1>1 DEF Prefix
  <2>2. ASSUME n >= 11 PROVE Target(s) = cell
    <3>1. \A k \in 1..11 : s[k] = h[k]
      BY <1>1, <2>2 DEF Prefix
    <3> HIDE DEF s
    <3> QED
      BY <3>1 DEF Target, Byte
  <2>3. ASSUME n >= 19 PROVE Byte(s, 12) = Byte(h, 12)
    <3>1. \A k \in 1..19 : s[k] = h[k]
      BY <1>1, <2>3 DEF Prefix
    <3> HIDE DEF s
    <3> QED
      BY <3>1 DEF Byte
  <2>4. n = 22 => SubSeq(s, 1, 19) = Prefix(h, 19)
    BY <1>1, FirstBits
  <2> QED
    BY <2>1, <2>2, <2>3, <2>4
<1>4. /\ life' = life /\ since' = since
      /\ rx' = IF n = 22 \/ (n = 1 /\ h[n] = 0) THEN <<>> ELSE s
      /\ ssc' = IF n = 22 /\ SubSeq(s, 1, 19) = Coded(EXEC_VECTOR_SSC)
                THEN "starts" ELSE ssc
      /\ drive' = IF (n > 2 /\ s[3] = 1) /\ n \in 13..20 /\ Target(s) \in Cells
                  THEN BitOf(reg[Target(s)], n - 12) ELSE Z
      /\ reg' = IF ~(n > 2 /\ s[3] = 1) /\ n = 19 /\ Target(s) \in Cells
                THEN [reg EXCEPT ![Target(s)] = Byte(s, 12)] ELSE reg
  BY <1>1 DEF Take, Frame
<1> HIDE DEF s
<1>5. rx' = IF n = 22 THEN <<>> ELSE Prefix(h, n)
  BY <1>1, <1>2, <1>4
<1>6. ssc' = IF n = 22 /\ Prefix(h, 19) = Coded(EXEC_VECTOR_SSC)
             THEN "starts" ELSE ssc
  BY <1>3, <1>4
<1>7. drive' = IF n \in 13..20 /\ h[3] = 1 /\ cell \in Cells
               THEN BitOf(reg[cell], n - 12) ELSE Z
  <2>1. CASE n \in 13..20
    BY <1>3, <1>4, <2>1
  <2>2. CASE n \notin 13..20
    BY <1>4, <2>2
  <2> QED
    BY <2>1, <2>2
<1>8. reg' = IF n = 19 /\ h[3] # 1 /\ cell \in Cells
             THEN [reg EXCEPT ![cell] = Byte(h, 12)] ELSE reg
  <2>1. CASE n = 19
    <3>1. s[3] = h[3] /\ Target(s) = cell /\ Byte(s, 12) = Byte(h, 12)
      BY <1>3, <2>1
    <3>2. reg' = IF s[3] # 1 /\ Target(s) \in Cells
                 THEN [reg EXCEPT ![Target(s)] = Byte(s, 12)] ELSE reg
      BY <1>4, <2>1
    <3> QED
      BY <2>1, <3>1, <3>2
  <2>2. CASE n # 19
    BY <1>4, <2>2
  <2> QED
    BY <2>1, <2>2
<1> QED
  BY <1>4, <1>5, <1>6, <1>7, <1>8

\* A zero before a vector is nothing to the chip.
LEMMA Ignores ==
  ASSUME rx = <<>>, drive = Z, Take(0)
  PROVE  UNCHANGED target
<1>1. Len(rx) + 1 = 1
  OBVIOUS
<1> QED
  BY <1>1 DEF Take, Frame, target
-----------------------------------------------------------------------------
\* What the chip hears of a level, of a vector, and of the nine bits it is
\* acquired with and the zeros after them.
One(d) == IF d = 1 THEN 1 ELSE 0
HeardOf(v) == [k \in 1..22 |-> One(Sent(v, k))]
Opening == [k \in 1..22 |-> IF k <= 9 THEN CodeBit(INIT_VECTOR, k) ELSE 0]

\* A vector's bits are bits.
LEMMA CodeBits ==
  ASSUME NEW v \in (0..7) \X (0..255) \X (0..255)
  PROVE  \A k \in 1..19 : CodeBit(v, k) \in {0, 1}
<1>1. v[1] \in 0..255 /\ v[2] \in 0..255 /\ v[3] \in 0..255
  OBVIOUS
<1>2. ASSUME NEW k \in 1..19 PROVE CodeBit(v, k) \in {0, 1}
  <2>1. CASE k <= 3
    <3>1. CodeBit(v, k) = BitOf(v[1], k + 5) /\ k + 5 \in 1..8
      BY <2>1 DEF CodeBit
    <3> QED
      BY <1>1, <3>1, BitsOfByte
  <2>2. CASE k > 3 /\ k <= 11
    <3>1. CodeBit(v, k) = BitOf(v[2], k - 3) /\ k - 3 \in 1..8
      BY <2>2 DEF CodeBit
    <3> QED
      BY <1>1, <3>1, BitsOfByte
  <2>3. CASE k > 11
    <3>1. CodeBit(v, k) = BitOf(v[3], k - 11) /\ k - 11 \in 1..8
      BY <2>3 DEF CodeBit
    <3> QED
      BY <1>1, <3>1, BitsOfByte
  <2> QED
    BY <2>1, <2>2, <2>3
<1> QED
  BY <1>2

\* The chip gets the operation, the address and the data of a vector.
LEMMA Hears ==
  ASSUME NEW v \in Vectors, v # ZERO_VECTOR
  PROVE  LET h == HeardOf(v)
         IN  /\ h \in Frames
             /\ h[1] = 1
             /\ Cell(v) = <<h[2], Byte(h, 4)>>
             /\ h[3] = 1 <=> ~IS_WRITE(v)
             /\ IS_WRITE(v) => Byte(h, 12) = v[3]
             /\ Prefix(h, 19) = Coded(EXEC_VECTOR_SSC) => v = EXEC_VECTOR_SSC
<1> DEFINE h == HeardOf(v)
<1>1. /\ v \in (4..7) \X (0..255) \X (0..255)
      /\ v[1] \in 4..7 /\ v[2] \in 0..255 /\ v[3] \in 0..255
      /\ v = <<v[1], v[2], v[3]>>
  BY VectorAssumption DEF PROG_OP_WRITE_MEM, PROG_OP_READ_REG
<1>2. \A k \in 1..19 : CodeBit(v, k) \in {0, 1}
  BY <1>1, CodeBits
<1>3. \A k \in 1..22 : h[k] = One(Sent(v, k))
  BY DEF HeardOf
<1>4. h \in Frames
  BY DEF HeardOf, Frames, One
<1>5. /\ \A k \in 1..11 : h[k] = CodeBit(v, k)
      /\ IS_WRITE(v) => \A k \in 1..19 : h[k] = CodeBit(v, k)
  BY <1>2, <1>3 DEF Sent, One
<1>6. /\ h[1] = (v[1] \div 4) % 2 /\ h[2] = (v[1] \div 2) % 2 /\ h[3] = v[1] % 2
      /\ h[4] = BitOf(v[2], 1) /\ h[5] = BitOf(v[2], 2) /\ h[6] = BitOf(v[2], 3)
      /\ h[7] = BitOf(v[2], 4) /\ h[8] = BitOf(v[2], 5) /\ h[9] = BitOf(v[2], 6)
      /\ h[10] = BitOf(v[2], 7) /\ h[11] = BitOf(v[2], 8)
  <2>1. /\ h[1] = BitOf(v[1], 6) /\ h[2] = BitOf(v[1], 7) /\ h[3] = BitOf(v[1], 8)
    BY <1>5 DEF CodeBit
  <2>2. /\ h[4] = BitOf(v[2], 1) /\ h[5] = BitOf(v[2], 2) /\ h[6] = BitOf(v[2], 3)
        /\ h[7] = BitOf(v[2], 4) /\ h[8] = BitOf(v[2], 5) /\ h[9] = BitOf(v[2], 6)
        /\ h[10] = BitOf(v[2], 7) /\ h[11] = BitOf(v[2], 8)
    BY <1>5 DEF CodeBit
  <2> QED
    BY <1>1, <2>1, <2>2 DEF BitOf, Weight
<1>7. IS_WRITE(v) =>
      /\ h[12] = BitOf(v[3], 1) /\ h[13] = BitOf(v[3], 2)
      /\ h[14] = BitOf(v[3], 3) /\ h[15] = BitOf(v[3], 4)
      /\ h[16] = BitOf(v[3], 5) /\ h[17] = BitOf(v[3], 6)
      /\ h[18] = BitOf(v[3], 7) /\ h[19] = BitOf(v[3], 8)
  BY <1>5 DEF CodeBit
<1> HIDE DEF h
<1>8. h[1] = 1
  BY <1>1, <1>6
<1>9. /\ Byte(h, 4) = 128 * h[4] + 64 * h[5] + 32 * h[6] + 16 * h[7]
                       + 8 * h[8] + 4 * h[9] + 2 * h[10] + h[11]
       /\ Byte(h, 12) = 128 * h[12] + 64 * h[13] + 32 * h[14] + 16 * h[15]
                       + 8 * h[16] + 4 * h[17] + 2 * h[18] + h[19]
  BY DEF Byte
<1>10. Byte(h, 4) = v[2]
  BY <1>1, <1>6, <1>9, BitsOfByte
<1>11. Cell(v) = <<h[2], Byte(h, 4)>>
  BY <1>6, <1>10 DEF Cell, IS_REG
<1>12. h[3] = 1 <=> ~IS_WRITE(v)
  BY <1>1, <1>6 DEF IS_WRITE
<1>13. IS_WRITE(v) => Byte(h, 12) = v[3]
  BY <1>1, <1>7, <1>9, BitsOfByte
<1>14. ASSUME Prefix(h, 19) = Coded(EXEC_VECTOR_SSC)
       PROVE  v = EXEC_VECTOR_SSC
  <2> DEFINE e == EXEC_VECTOR_SSC
  <2>1. e = <<6, 255, 18>> /\ e[1] = 6 /\ e[2] = 255 /\ e[3] = 18
    BY DEF EXEC_VECTOR_SSC, PROG_OP_WRITE_REG, CPU_SCR0, MAGIC_EXEC
  <2> HIDE DEF e
  <2>2. \A k \in 1..19 : h[k] = CodeBit(e, k)
    <3>1. \A k \in 1..19 : Prefix(h, 19)[k] = h[k] /\ Coded(e)[k] = CodeBit(e, k)
      BY DEF Prefix, Coded
    <3> QED
      BY <1>14, <3>1 DEF e
  <2>3. /\ h[1] = BitOf(6, 6) /\ h[2] = BitOf(6, 7) /\ h[3] = BitOf(6, 8)
        /\ h[4] = BitOf(255, 1) /\ h[5] = BitOf(255, 2) /\ h[6] = BitOf(255, 3)
        /\ h[7] = BitOf(255, 4) /\ h[8] = BitOf(255, 5) /\ h[9] = BitOf(255, 6)
        /\ h[10] = BitOf(255, 7) /\ h[11] = BitOf(255, 8)
        /\ h[12] = BitOf(18, 1) /\ h[13] = BitOf(18, 2) /\ h[14] = BitOf(18, 3)
        /\ h[15] = BitOf(18, 4) /\ h[16] = BitOf(18, 5) /\ h[17] = BitOf(18, 6)
        /\ h[18] = BitOf(18, 7) /\ h[19] = BitOf(18, 8)
    BY <2>1, <2>2 DEF CodeBit
  <2>4. Byte(h, 4) = 255 /\ Byte(h, 12) = 18
    <3>1. 255 \in 0..255 /\ 18 \in 0..255
      OBVIOUS
    <3> QED
      BY <1>9, <2>3, <3>1, BitsOfByte
  <2>5. h[1] = 1 /\ h[2] = 1 /\ h[3] = 0
    BY <2>3 DEF BitOf, Weight
  <2>6. v[1] = 6
    BY <1>1, <1>6, <2>5
  <2>7. IS_WRITE(v)
    BY <1>12, <2>5
  <2> QED
    BY <1>1, <1>10, <1>13, <2>1, <2>4, <2>6, <2>7 DEF e
<1> QED
  BY <1>4, <1>8, <1>11, <1>12, <1>13, <1>14 DEF h

\* The bits the chip is acquired with begin a write to register 80, which the
\* zeros complete.
LEMMA Opens ==
  /\ Opening \in Frames
  /\ Opening[1] = 1
  /\ <<Opening[2], Byte(Opening, 4)>> = <<1, 80>>
  /\ Opening[3] = 0
  /\ Byte(Opening, 12) = 0
  /\ Prefix(Opening, 19) # Coded(EXEC_VECTOR_SSC)
<1> DEFINE v == INIT_VECTOR  h == Opening
<1>1. v = <<6, 80, 0>> /\ v[1] = 6 /\ v[2] = 80 /\ v[3] = 0
  BY DEF INIT_VECTOR, PROG_OP_WRITE_REG
<1>2. \A k \in 1..19 : CodeBit(v, k) \in {0, 1}
  BY <1>1, CodeBits
<1>3. h \in Frames
  BY <1>2 DEF Opening, Frames
<1>4. /\ \A k \in 1..9 : h[k] = CodeBit(v, k)
      /\ \A k \in 10..22 : h[k] = 0
  BY DEF Opening
<1> HIDE DEF h, v
<1>5. /\ h[1] = BitOf(6, 6) /\ h[2] = BitOf(6, 7) /\ h[3] = BitOf(6, 8)
      /\ h[4] = BitOf(80, 1) /\ h[5] = BitOf(80, 2) /\ h[6] = BitOf(80, 3)
      /\ h[7] = BitOf(80, 4) /\ h[8] = BitOf(80, 5) /\ h[9] = BitOf(80, 6)
      /\ h[10] = BitOf(80, 7) /\ h[11] = BitOf(80, 8)
  <2>1. BitOf(80, 7) = 0 /\ BitOf(80, 8) = 0
    BY DEF BitOf, Weight
  <2> QED
    BY <1>1, <1>4, <2>1 DEF CodeBit
<1>6. Byte(h, 4) = 80
  BY <1>5, BitsOfByte DEF Byte
<1>7. h[1] = 1 /\ h[2] = 1 /\ h[3] = 0
  BY <1>5 DEF BitOf, Weight
<1>8. Byte(h, 12) = 0
  BY <1>4 DEF Byte
<1>9. Prefix(h, 19) # Coded(EXEC_VECTOR_SSC)
  <2> DEFINE e == EXEC_VECTOR_SSC
  <2>1. e[2] = 255
    BY DEF EXEC_VECTOR_SSC, CPU_SCR0
  <2>2. Prefix(h, 19)[4] = BitOf(80, 1)
    BY <1>5 DEF Prefix
  <2>3. Coded(e)[4] = BitOf(255, 1)
    BY <2>1 DEF Coded, CodeBit
  <2>4. BitOf(80, 1) = 0 /\ BitOf(255, 1) = 1
    BY DEF BitOf, Weight
  <2> QED
    BY <2>2, <2>3, <2>4
<1> QED
  BY <1>3, <1>6, <1>7, <1>8, <1>9 DEF h

-----------------------------------------------------------------------------
(* The invariant of the wire, and the steps that leave the lines alone *)

Phases == {"initialize", "wait", "sample", "sdata", "no power", "missed",
           "ready", "rise", "rose", "fall", "fell", "timed out"}
PoweringUp == {"wait", "sample", "sdata", "no power"}
Polling == {"rise", "rose", "fall", "fell", "timed out"}

\* The program is in the middle of a vector, or of a read.
InVector == phase = "vector" /\ place # "done"
InRead == InVector /\ ~IS_WRITE(vec)

Types ==
  /\ kind \in {"wadsp", "watpp", "ppporissp"} /\ power_on \in BOOLEAN
  /\ phase \in Sending \cup Phases
  /\ place \in {"xres", "data", "first", "second", "after", "done"}
  /\ bit \in 1..LastBit
  /\ vec \in Vectors \cup {ZERO_VECTOR}
  /\ value \in Nat
  /\ sdata \in {0, 1, 2, 3}
  /\ now \in Nat /\ t0 \in Nat /\ t0_new \in Nat /\ timeout \in BOOLEAN
  /\ line_d \in {0, 1, 2} /\ line_c \in {0, 1}
  /\ life \in {"off", "powered", "listens", "acquired", "lost"}
  /\ since \in Nat
  /\ drive \in {0, 1, 2}
  /\ ssc \in {"idle", "starts", "busy"}
  /\ reg \in [Cells -> Vals]

\* Where the program can be in a bit.
Control ==
  /\ kind = "wadsp" => ~power_on
  /\ kind = "ppporissp" => power_on
  /\ phase \in PoweringUp => power_on
  /\ phase \notin Sending => place = "done"
  /\ place = "done" /\ phase \in Sending => bit = LastBit
  /\ place = "xres" => phase = "nine" /\ kind = "wadsp" /\ bit = 1
  /\ place = "data" => kind = "wadsp"
  /\ place = "after" => Inverts \/ Reads
  /\ phase = "vector" => vec \in Vectors
  /\ phase = "z" \/ phase \in Polling => vec = EXEC_VECTOR_SSC

\* What SCLK and SDATA are in between.
Clock ==
  line_c = IF place \in {"data", "first"}
           THEN IF InRead /\ bit \in 13..22 THEN 1 ELSE 0
           ELSE IF place = "second" THEN IF Inverted THEN 0 ELSE 1
           ELSE IF place = "after" /\ Reads THEN 1 ELSE 0
Lines ==
  /\ place \in {"second", "after"} \/ (place = "first" /\ kind = "wadsp")
       => line_d = Level
  /\ InRead /\ bit \in 13..21 => line_d = Low(Z)
  /\ phase = "vector" /\ place = "done" /\ vec = EXEC_VECTOR_SSC => line_d = 1
  /\ phase = "z" => line_d \in {1, Low(Z)}
  /\ (phase = "z" /\ place = "done") \/ phase \in Polling => line_d = Low(Z)
  /\ kind # "wadsp" /\ (phase = "initialize" \/ phase \in PoweringUp)
       => line_d = Low(Z)
  /\ kind = "wadsp" /\ sdata # Unknown => sdata = line_d

\* How far the chip has come.
Life ==
  /\ phase = "initialize" \/ place = "xres" => life = "off"
  /\ phase \in PoweringUp => life \in {"powered", "listens"}
  /\ phase = "nine" /\ place \notin {"xres", "done"} => life = "listens"
  /\ phase = "nine" /\ place = "done" => life \in {"acquired", "lost"}
  /\ phase \in {"ready", "vector", "z", "drain", "rest"} \cup Polling
       => life = "acquired"
  /\ life = "powered" => phase \in PoweringUp

Calls ==
  /\ ssc # "idle"
       => \/ phase = "vector" /\ place = "done" /\ vec = EXEC_VECTOR_SSC
          \/ phase \in {"z"} \cup Polling
  /\ phase \in {"fall", "fell", "timed out"} => ssc # "starts"
  /\ phase \in Polling /\ ssc = "starts" => now <= T_RISE
  /\ phase = "rose" /\ now > T_RISE => ssc = "idle"

\* What the chip has taken of a vector, or of the one it is acquired with.
Edges == IF place = "after" \/ (Inverted /\ place = "second")
         THEN bit ELSE bit - 1
Heard ==
  /\ phase = "nine" /\ place = "done" => rx = Prefix(Opening, 9)
  /\ phase = "nine" /\ place # "done" => rx = Prefix(Opening, bit - 1)
  /\ phase = "rest" /\ place # "done" => rx = Prefix(Opening, 8 + bit)
  /\ InVector /\ vec # ZERO_VECTOR => rx = Prefix(HeardOf(vec), Edges)
  /\ \/ phase \in {"vector", "rest"} /\ place = "done"
     \/ phase = "vector" /\ vec = ZERO_VECTOR
     \/ phase \in {"initialize", "ready", "z", "drain"}
     \/ phase \in Polling \cup PoweringUp
     => rx = <<>>

\* What it drives SDATA to.
Drives ==
  drive = IF life = "powered" \/ ssc = "busy" THEN 1
          ELSE IF InRead /\ Edges \in 13..20
          THEN BitOf(reg[Cell(vec)], Edges - 12) ELSE Z

\* What has been read of it.
BitsRead == IF place = "done" \/ bit > 21 THEN 8
            ELSE IF bit < 13 THEN 0 ELSE bit - 13
ValueRead ==
  phase = "vector" /\ ~IS_WRITE(vec) => value = High(reg[Cell(vec)], BitsRead)

\* The times that the two timeouts and the deadline go by.
Times ==
  /\ since <= now /\ t0 <= now /\ t0_new <= now
  /\ phase \in Polling => t0 = 0
  /\ phase \in {"timed out", "no power"} => now > T_FALL
  /\ phase \in {"ready", "vector", "z"} => now = 0
  /\ life = "off" => t0 = 0
  /\ life \in {"listens", "acquired"} /\ phase \in {"nine"} \cup PoweringUp
       => t0 <= since
  /\ phase = "nine" /\ life = "lost" => now - t0 > T_ACQ
  /\ NoFalseTimeout

\* A timeout that is set has been one.
Expired == phase \in {"fell", "sample", "sdata"} /\ timeout => now > T_FALL

\* The last call's result is that of the registers.
Result ==
  /\ phase # "ready" => got = {}
  /\ got # {} => ~IS_WRITE(vec) /\ got = {<<Cell(vec), reg[Cell(vec)]>>}

WireInv == /\ Types /\ Control /\ Clock /\ Lines /\ Life /\ Calls /\ Heard
           /\ Drives /\ ValueRead /\ Times /\ Result /\ Expired

\* The bounds are numbers.
LEMMA Constants ==
  T_RISE \in Nat /\ T_FALL \in Nat /\ T_ACQ \in Nat /\ T_RISE < T_FALL
BY IsspAssumption

\* Before the first bit nothing has been heard.
LEMMA NoPrefix == ASSUME NEW h PROVE Prefix(h, 0) = <<>>
BY DEF Prefix

\* The program begins to send, or goes on waiting, with SCLK low.
Begun == /\ bit' = 1 /\ bit' \in 1..LastBit'
         /\ place' \in {"xres", "data", "first", "done"}
         /\ (place' = "done") <=> (phase' \notin Sending)
         /\ (place' = "xres") <=> (phase' = "nine" /\ kind = "wadsp")
         /\ place' = "data" => kind = "wadsp"
         /\ ~(place' = "first" /\ kind = "wadsp")
         /\ Clock'
         /\ ~Inverted' /\ Edges' = 0 /\ bit' - 1 = 0
         /\ place' # "done" => BitsRead' = 0

\* Where the program begins to send, if it is to, and that it leaves SCLK low.
LEMMA Onward ==
  ASSUME WireInv, place = "done", Go(phase'), phase' \in Sending \cup Phases,
         UNCHANGED <<kind, line_c>>
  PROVE  Begun
<1>1. bit' = 1 /\ place' = Begins(phase')
  BY DEF Go
<1>2. LastBit' \in {1, 9, 13, 22, 40}
  BY DEF LastBit
<1>3. 1 \in 1..LastBit'
  BY <1>2
<1>4. /\ place' \in {"xres", "data", "first", "done"}
      /\ (place' = "done") <=> (phase' \notin Sending)
      /\ (place' = "xres") <=> (phase' = "nine" /\ kind = "wadsp")
      /\ place' = "data" => kind = "wadsp"
      /\ ~(place' = "first" /\ kind = "wadsp")
  BY <1>1 DEF Begins, FirstPlace, Sending
<1>5. line_c' = 0
  BY DEF WireInv, Clock
<1>6. bit' \notin 13..22 /\ bit' \notin 13..21 /\ bit' - 1 = 0
        /\ ~(bit' > 21) /\ bit' < 13
  BY <1>1
<1>7. Clock'
  BY <1>4, <1>5, <1>6 DEF Clock
<1>8. ~Inverted'
  BY <1>6 DEF Inverted
<1>9. Edges' = 0
  BY <1>4, <1>6, <1>8 DEF Edges
<1>10. place' # "done" => BitsRead' = 0
  BY <1>6 DEF BitsRead
<1> QED
  BY <1>1, <1>3, <1>4, <1>6, <1>7, <1>8, <1>9, <1>10 DEF Begun

\* A step of the chip or of the time leaves the program where it is.
LEMMA Apart ==
  ASSUME WireInv, UNCHANGED <<sender, bits, line, rx, reg, got>>
  PROVE  Control' /\ Clock' /\ Lines' /\ Heard' /\ ValueRead' /\ Result'
<1>1. UNCHANGED <<kind, power_on, phase, bit, place, vec, value, sdata,
        line_d, line_c>>
  BY DEF sender, bits, line
<1>2. /\ Inverted' = Inverted /\ Reads' = Reads /\ Inverts' = Inverts
      /\ InVector' = InVector /\ InRead' = InRead
      /\ LastBit' = LastBit /\ Level' = Level /\ Low(Z)' = Low(Z)
      /\ BitsRead' = BitsRead
  BY <1>1 DEF Inverted, Reads, Inverts, InVector, InRead, LastBit, Level, Low,
              BitsRead
<1>3. Edges' = Edges
  BY <1>1, <1>2 DEF Edges
<1>4. Control' /\ Clock'
  BY <1>1, <1>2 DEF WireInv, Control, Clock
<1>5. Lines'
  BY <1>1, <1>2 DEF WireInv, Lines
<1>6. Heard'
  BY <1>1, <1>2, <1>3 DEF WireInv, Heard
<1>7. ValueRead' /\ Result'
  BY <1>1, <1>2 DEF WireInv, ValueRead, Result
<1> QED
  BY <1>4, <1>5, <1>6, <1>7

\* A call begins with the first bit of its vector.
LEMMA CallKeeps ==
  ASSUME WireInv, ~Delays, Call
  PROVE  WireInv'
<1>1. /\ phase = "ready" /\ phase' = "vector" /\ vec' \in Vectors
      /\ value' = 0 /\ got' = {}
      /\ UNCHANGED <<now, t0, t0_new, timeout, life, since, rx, drive, ssc, reg>>
      /\ place = "done" /\ Go(phase') /\ phase' \in Sending \cup Phases
      /\ UNCHANGED <<kind, power_on, sdata, line_d, line_c>>
  BY DEF WireInv, Control, Call, line, target, bits, time, Go, Sending, Phases
<1>2. Begun
  BY <1>1, Onward
<1>3. Types' /\ Control'
  BY <1>1, <1>2 DEF Begun, WireInv, Types, Phases, Control, Sending, Polling,
                    PoweringUp
<1>4. Lines'
  <2>1. bit' \notin 13..21
    BY <1>2 DEF Begun
  <2> QED
    BY <1>1, <1>2, <2>1 DEF Begun, WireInv, Lines, Sending, Polling,
                            PoweringUp
<1>5. Life' /\ Calls'
  BY <1>1, <1>2 DEF Begun, WireInv, Life, Calls, Polling, PoweringUp
<1>6. Heard'
  BY <1>1, <1>2, NoPrefix DEF Begun, WireInv, Heard, InVector, Sending,
                              Polling, PoweringUp
<1>7. Drives'
  BY <1>1, <1>2 DEF Begun, WireInv, Drives, InRead, InVector
<1>8. ValueRead'
  BY <1>1, <1>2 DEF Begun, ValueRead, High, Sending
<1>9. Times' /\ Result' /\ Expired'
  BY <1>1, <1>2 DEF Begun, WireInv, Times, NoFalseTimeout, Result, Expired,
                    Polling, PoweringUp
<1> QED
  BY <1>2, <1>3, <1>4, <1>5, <1>6, <1>7, <1>8, <1>9
     DEF Begun, WireInv

\* A vector is followed by Z, or by the next call.
LEMMA VectorSentKeeps ==
  ASSUME WireInv, ~Delays, VectorSent
  PROVE  WireInv'
<1>1. /\ phase = "vector"
      /\ phase' = (IF vec = EXEC_VECTOR_SSC THEN "z" ELSE "ready")
      /\ got' = IF IS_WRITE(vec) THEN {} ELSE {<<Cell(vec), value>>}
      /\ UNCHANGED <<vec, value, now, t0, t0_new, timeout>>
      /\ UNCHANGED <<life, since, rx, drive, ssc, reg>>
      /\ place = "done" /\ Go(phase') /\ phase' \in Sending \cup Phases
      /\ UNCHANGED <<kind, power_on, sdata, line_d, line_c>>
  BY DEF WireInv, Control, VectorSent, line, target, bits, time, Go, Sending,
         Phases
<1>2. Begun
  BY <1>1, Onward
<1>3. Types' /\ Control'
  BY <1>1, <1>2 DEF Begun, WireInv, Types, Phases, Control, Sending, Polling,
                    PoweringUp
<1>4. Lines'
  BY <1>1, <1>2 DEF Begun, WireInv, Lines, InRead, InVector, Low, Sending,
                    Polling, PoweringUp
<1>5. Life' /\ Calls' /\ Heard'
  BY <1>1, <1>2 DEF Begun, WireInv, Life, Calls, Heard, InVector, Polling,
                    PoweringUp
<1>6. Drives' /\ ValueRead' /\ Times'
  BY <1>1, <1>2 DEF Begun, WireInv, Drives, InRead, InVector, ValueRead, Times,
                    NoFalseTimeout, Polling, PoweringUp
<1>7. Result'
  <2>1. IS_WRITE(EXEC_VECTOR_SSC) /\ IS_WRITE(ZERO_VECTOR)
    BY DEF IS_WRITE, EXEC_VECTOR_SSC, PROG_OP_WRITE_REG, ZERO_VECTOR
  <2>2. ASSUME ~IS_WRITE(vec) PROVE value = reg[Cell(vec)]
    <3>1. Cell(vec) \in Cells
      BY <1>1, <2>1, <2>2, VectorAssumption DEF WireInv, Control
    <3>2. reg[Cell(vec)] \in 0..255
      BY <3>1, VectorAssumption DEF WireInv, Types
    <3> QED
      BY <1>1, <2>2, <3>2, HighWhole DEF WireInv, ValueRead, BitsRead
  <2> QED
    BY <1>1, <2>1, <2>2 DEF Result
<1>8. Expired'
  BY <1>1, <1>2 DEF Begun, WireInv, Expired
<1> QED
  BY <1>2, <1>3, <1>4, <1>5, <1>6, <1>7, <1>8
     DEF Begun, WireInv

\* The wait begins, with the system call that the chip has to execute.
LEMMA StartWaitKeeps ==
  ASSUME WireInv, ~Delays, StartWait
  PROVE  WireInv'
<1>1. /\ phase = "z" /\ phase' = "rise" /\ now' = 0 /\ t0' = 0
      /\ UNCHANGED <<vec, value, t0_new, timeout, got>>
      /\ UNCHANGED <<life, since, rx, drive, ssc, reg>>
      /\ place = "done" /\ Go(phase') /\ phase' \in Sending \cup Phases
      /\ UNCHANGED <<kind, power_on, sdata, line_d, line_c>>
  BY DEF WireInv, Control, StartWait, line, target, bits, Go, Sending, Phases
<1>2. Begun
  BY <1>1, Onward
<1>3. Types' /\ Control' /\ Lines'
  BY <1>1, <1>2 DEF Begun, WireInv, Types, Phases, Control, Sending, Lines,
                    InRead, InVector, Low, Polling, PoweringUp
<1>4. Life'
  BY <1>1, <1>2 DEF Begun, WireInv, Life, Polling, PoweringUp
<1>5. Calls'
  <2>1. 0 <= T_RISE
    BY Constants
  <2> QED
    BY <1>1, <2>1 DEF WireInv, Calls, Polling
<1>6. Heard' /\ Drives' /\ ValueRead'
  BY <1>1, <1>2 DEF Begun, WireInv, Heard, InVector, Drives, InRead, ValueRead,
                    Polling, PoweringUp
<1>7. Times'
  <2>1. since = 0 /\ t0_new = 0 /\ life # "off" /\ 0 <= 0
    BY <1>1 DEF WireInv, Types, Times, Life
  <2> QED
    BY <1>1, <2>1 DEF Times, NoFalseTimeout, Polling, PoweringUp
<1>8. Result' /\ Expired'
  BY <1>1, <1>2 DEF Begun, WireInv, Result, Expired
<1> QED
  BY <1>2, <1>3, <1>4, <1>5, <1>6, <1>7, <1>8
     DEF Begun, WireInv

\* SDATA is looked at for the rise.
LEMMA ReadRiseKeeps ==
  ASSUME WireInv, ~Delays, ReadRise
  PROVE  WireInv'
<1>1. /\ phase = "rise" /\ phase' = (IF SDATA_IN = 1 THEN "fall" ELSE "rose")
      /\ UNCHANGED <<vec, value, now, t0, t0_new, timeout, got>>
      /\ UNCHANGED <<life, since, rx, drive, ssc, reg>>
      /\ place = "done" /\ Go(phase') /\ phase' \in Sending \cup Phases
      /\ UNCHANGED <<kind, power_on, sdata, line_d, line_c>>
  BY DEF WireInv, Control, ReadRise, Looks, line, target, bits, time, Go,
         Sending, Phases
<1>2. Begun
  BY <1>1, Onward
<1>3. Types' /\ Control' /\ Lines'
  BY <1>1, <1>2 DEF Begun, WireInv, Types, Phases, Control, Sending, Lines,
                    InRead, InVector, Low, Polling, PoweringUp
<1>4. Life'
  BY <1>1, <1>2 DEF Begun, WireInv, Life, Polling, PoweringUp
<1>5. Calls'
  <2>1. life = "acquired" /\ line_d # 1
    BY <1>1 DEF WireInv, Life, Lines, Low, Z, Polling
  <2>2. /\ ssc = "busy" => SDATA_IN = 1
        /\ ssc = "starts" => SDATA_IN # 1
    BY <1>1, <2>1 DEF WireInv, Drives, InRead, InVector, SDATA_IN, Z
  <2>3. now <= T_RISE => ~(now > T_RISE)
    BY Constants DEF WireInv, Types
  <2>4. ssc \in {"idle", "starts", "busy"}
    BY DEF WireInv, Types
  <2> QED
    BY <1>1, <2>2, <2>3, <2>4 DEF WireInv, Calls, Polling
<1>6. Heard' /\ Drives' /\ ValueRead'
  BY <1>1, <1>2 DEF Begun, WireInv, Heard, InVector, Drives, InRead, ValueRead,
                    Polling, PoweringUp
<1>7. Times' /\ Result' /\ Expired'
  BY <1>1, <1>2 DEF Begun, WireInv, Times, NoFalseTimeout, Result, Expired,
                    Polling, PoweringUp
<1> QED
  BY <1>2, <1>3, <1>4, <1>5, <1>6, <1>7 DEF Begun, WireInv

\* The time is looked at, and with it gone the call was a short one.
LEMMA TimeRiseKeeps ==
  ASSUME WireInv, ~Delays, TimeRise
  PROVE  WireInv'
<1>1. /\ phase = "rose"
      /\ phase' = (IF now - t0 > T_RISE THEN "drain" ELSE "rise")
      /\ UNCHANGED <<vec, value, now, t0, t0_new, timeout, got>>
      /\ UNCHANGED <<life, since, rx, drive, ssc, reg>>
      /\ place = "done" /\ Go(phase') /\ phase' \in Sending \cup Phases
      /\ UNCHANGED <<kind, power_on, sdata, line_d, line_c>>
  BY DEF WireInv, Control, TimeRise, Looks, line, target, bits, time, Go,
         Sending, Phases
<1>2. Begun
  BY <1>1, Onward
<1>3. Types' /\ Control' /\ Lines'
  BY <1>1, <1>2 DEF Begun, WireInv, Types, Phases, Control, Sending, Lines,
                    InRead, InVector, Low, Polling, PoweringUp
<1>4. Life'
  BY <1>1, <1>2 DEF Begun, WireInv, Life, Polling, PoweringUp
<1>5. Calls'
  <2>1. t0 = 0 /\ now \in Nat
    BY <1>1 DEF WireInv, Types, Times, Polling
  <2>2. now - t0 > T_RISE => now > T_RISE
    BY <2>1
  <2> QED
    BY <1>1, <2>2 DEF WireInv, Calls, Polling
<1>6. Heard' /\ Drives' /\ ValueRead'
  BY <1>1, <1>2 DEF Begun, WireInv, Heard, InVector, Drives, InRead, ValueRead,
                    Polling, PoweringUp
<1>7. Times' /\ Result' /\ Expired'
  BY <1>1, <1>2 DEF Begun, WireInv, Times, NoFalseTimeout, Result, Expired,
                    Polling, PoweringUp
<1> QED
  BY <1>2, <1>3, <1>4, <1>5, <1>6, <1>7 DEF Begun, WireInv

\* The time is looked at before the fall.
LEMMA TimeFallKeeps ==
  ASSUME WireInv, ~Delays, TimeFall
  PROVE  WireInv'
<1>1. /\ phase = "fall" /\ phase' = "fell"
      /\ UNCHANGED <<vec, value, now, t0, t0_new, got>>
      /\ UNCHANGED <<life, since, rx, drive, ssc, reg>>
      /\ place = "done" /\ Go(phase') /\ phase' \in Sending \cup Phases
      /\ UNCHANGED <<kind, power_on, sdata, line_d, line_c>>
  BY DEF WireInv, Control, TimeFall, Looks, line, target, bits, time, Go,
         Sending, Phases
<1>2. Begun
  BY <1>1, Onward
<1>3. Types'
  <2>1. timeout' \in BOOLEAN
    BY DEF TimeFall
  <2> QED
    BY <1>1, <1>2, <2>1 DEF Begun, WireInv, Types, Phases
<1>4. Control' /\ Lines' /\ Life'
  BY <1>1, <1>2 DEF Begun, WireInv, Control, Sending, Lines, InRead, InVector,
                    Low, Life, Polling, PoweringUp
<1>5. Calls' /\ Heard' /\ Drives'
  BY <1>1, <1>2 DEF Begun, WireInv, Calls, Heard, InVector, Drives, InRead,
                    Polling, PoweringUp
<1>6. ValueRead' /\ Times' /\ Result'
  BY <1>1, <1>2 DEF Begun, WireInv, ValueRead, Times, NoFalseTimeout, Result,
                    Polling, PoweringUp
<1>7. Expired'
  <2>1. now \in Nat /\ t0 = 0
    BY <1>1 DEF WireInv, Types, Times, Polling
  <2>2. now - t0 > T_FALL => now > T_FALL
    BY <2>1
  <2> QED
    BY <1>1, <2>2 DEF Expired, TimeFall
<1> QED
  BY <1>2, <1>3, <1>4, <1>5, <1>6, <1>7 DEF Begun, WireInv

\* SDATA is looked at for the fall.
LEMMA ReadFallKeeps ==
  ASSUME WireInv, ~Delays, ReadFall
  PROVE  WireInv'
<1>1. /\ phase = "fell"
      /\ \/ SDATA_IN = 0 /\ phase' = "drain"
         \/ SDATA_IN # 0 /\ timeout /\ phase' = "timed out"
         \/ SDATA_IN # 0 /\ phase' = "fall"
      /\ UNCHANGED <<vec, value, now, t0, t0_new, timeout, got>>
      /\ UNCHANGED <<life, since, rx, drive, ssc, reg>>
      /\ place = "done" /\ Go(phase') /\ phase' \in Sending \cup Phases
      /\ UNCHANGED <<kind, power_on, sdata, line_d, line_c>>
  BY DEF WireInv, Control, ReadFall, Looks, line, target, bits, time, Go,
         Sending, Phases
<1>2. Begun
  BY <1>1, Onward
<1>3. life = "acquired" /\ (SDATA_IN # 0 <=> ssc = "busy")
  <2>1. phase \in Polling
    BY <1>1 DEF Polling
  <2>2. life = "acquired" /\ line_d = Low(Z)
    BY <2>1 DEF WireInv, Life, Lines
  <2>3. line_d # 1
    BY <2>2 DEF Low, Z
  <2>4. ssc \in {"idle", "busy"}
    BY <1>1 DEF WireInv, Types, Calls
  <2>5. ~InRead
    BY <1>1 DEF InRead, InVector
  <2> QED
    BY <2>2, <2>3, <2>4, <2>5 DEF WireInv, Drives, SDATA_IN, Z
<1>4. Types'
  <2>1. /\ UNCHANGED <<kind, power_on, vec, value, sdata, line_d, line_c>>
        /\ UNCHANGED <<now, t0, t0_new, timeout, life, since, drive, ssc, reg>>
        /\ phase' \in Sending \cup Phases
    BY <1>1
  <2> QED
    BY <1>2, <2>1 DEF Begun, WireInv, Types
<1>5. Control' /\ Lines' /\ Life'
  BY <1>1, <1>2 DEF Begun, WireInv, Control, Sending, Lines, InRead, InVector,
                    Low, Life, Polling, PoweringUp
<1>6. Calls'
  <2>1. ssc # "starts" /\ ssc \in {"idle", "starts", "busy"}
    BY <1>1 DEF WireInv, Types, Calls
  <2> QED
    BY <1>1, <1>3, <2>1 DEF Calls, Polling
<1>7. Heard' /\ Drives' /\ ValueRead'
  BY <1>1, <1>2 DEF Begun, WireInv, Heard, InVector, Drives, InRead, ValueRead,
                    Polling, PoweringUp
<1>8. Times'
  <2>1. timeout => now > T_FALL
    BY <1>1 DEF WireInv, Expired
  <2> QED
    BY <1>1, <1>3, <2>1 DEF WireInv, Times, NoFalseTimeout, Polling, PoweringUp
<1>9. Result' /\ Expired'
  BY <1>1, <1>2 DEF Begun, WireInv, Result, Expired
<1> QED
  BY <1>2, <1>4, <1>5, <1>6, <1>7, <1>8, <1>9
     DEF Begun, WireInv

\* The zeros are out, and the next call may come.
LEMMA DrainedKeeps ==
  ASSUME WireInv, ~Delays, Drained
  PROVE  WireInv'
<1>1. /\ phase \in {"drain", "rest"} /\ phase' = "ready"
      /\ now' = 0 /\ t0' = 0 /\ t0_new' = 0 /\ timeout' = FALSE /\ since' = 0
      /\ UNCHANGED <<vec, value, got, life, rx, drive, ssc, reg>>
      /\ place = "done" /\ Go(phase') /\ phase' \in Sending \cup Phases
      /\ UNCHANGED <<kind, power_on, sdata, line_d, line_c>>
  BY DEF WireInv, Control, Drained, line, target, bits, Go, Sending, Phases
<1>2. Begun
  BY <1>1, Onward
<1>3. Types'
  <2>1. /\ UNCHANGED <<kind, power_on, vec, value, sdata, line_d, line_c>>
        /\ UNCHANGED <<life, drive, ssc, reg>>
        /\ phase' \in Sending \cup Phases
    BY <1>1
  <2>2. now' \in Nat /\ t0' \in Nat /\ t0_new' \in Nat /\ since' \in Nat
    BY <1>1
  <2>3. timeout' \in BOOLEAN
    BY <1>1
  <2> QED
    BY <1>2, <2>1, <2>2, <2>3 DEF Begun, WireInv, Types
<1>4. Control' /\ Lines' /\ Life'
  BY <1>1, <1>2 DEF Begun, WireInv, Control, Sending, Lines, InRead, InVector,
                    Low, Life, Polling, PoweringUp
<1>5. Calls' /\ Heard' /\ Drives'
  BY <1>1, <1>2 DEF Begun, WireInv, Calls, Heard, InVector, Drives, InRead,
                    Polling, PoweringUp
<1>6. ValueRead'
  BY <1>1, <1>2 DEF Begun, WireInv, ValueRead
<1>7. Times'
  <2>1. 0 <= 0
    OBVIOUS
  <2> QED
    BY <1>1, <2>1 DEF Times, NoFalseTimeout, Polling, PoweringUp
<1>8. Result' /\ Expired'
  BY <1>1, <1>2 DEF Begun, WireInv, Result, Expired
<1> QED
  BY <1>2, <1>3, <1>4, <1>5, <1>6, <1>7, <1>8
     DEF Begun, WireInv

\* The chip is powered up or reset.
LEMMA InitializeKeeps ==
  ASSUME WireInv, ~Delays, Initialize
  PROVE  WireInv'
<1>1. /\ phase = "initialize"
      /\ \/ /\ power_on /\ phase' = "wait"
            /\ life' = "powered" /\ drive' = 1 /\ since' = since
         \/ /\ ~power_on /\ phase' = "nine" /\ drive' = drive
            /\ IF kind = "watpp" THEN life' = "listens" /\ since' = now
                                 ELSE life' = life /\ since' = since
      /\ UNCHANGED <<vec, value, now, t0, t0_new, timeout, got, rx, ssc, reg>>
      /\ place = "done" /\ Go(phase') /\ phase' \in Sending \cup Phases
      /\ UNCHANGED <<kind, power_on, sdata, line_d, line_c>>
  BY DEF WireInv, Control, Initialize, acquire_power_on, acquire_reset,
         Release, line, bits, time, Go, Sending, Phases
<1>2. Begun
  BY <1>1, Onward
<1>3. Types'
  <2>1. /\ UNCHANGED <<kind, power_on, vec, value, sdata, line_d, line_c>>
        /\ UNCHANGED <<now, t0, t0_new, timeout, ssc, reg>>
        /\ phase' \in Sending \cup Phases
    BY <1>1
  <2>2. since' \in Nat
    BY <1>1 DEF WireInv, Types
  <2>3. /\ life' \in {"off", "powered", "listens", "acquired", "lost"}
        /\ drive' \in {0, 1, 2}
    BY <1>1 DEF WireInv, Types
  <2> QED
    BY <1>2, <2>1, <2>2, <2>3 DEF Begun, WireInv, Types
<1>4. Control' /\ Lines'
  BY <1>1, <1>2 DEF Begun, WireInv, Control, Sending, Lines, InRead, InVector,
                    Low, Polling, PoweringUp
<1>5. Life'
  <2>1. ~power_on /\ kind # "wadsp" => kind = "watpp"
    BY DEF WireInv, Types, Control
  <2>2. life = "off"
    BY <1>1 DEF WireInv, Life
  <2> QED
    BY <1>1, <1>2, <2>1, <2>2 DEF Begun, Life, Sending, Polling, PoweringUp
<1>6. Calls'
  BY <1>1, <1>2 DEF Begun, WireInv, Calls, Polling
<1>7. Heard'
  BY <1>1, <1>2, NoPrefix DEF Begun, WireInv, Heard, InVector, Sending,
                              Polling, PoweringUp
<1>8. Drives'
  <2>1. life = "off" /\ ssc = "idle" /\ ~InRead
    BY <1>1 DEF WireInv, Life, Calls, InRead, InVector, Polling
  <2>2. ~InRead'
    BY <1>1 DEF InRead, InVector
  <2>3. drive = Z
    BY <2>1 DEF WireInv, Drives
  <2> QED
    BY <1>1, <2>1, <2>2, <2>3 DEF Drives
<1>9. ValueRead'
  BY <1>1, <1>2 DEF Begun, WireInv, ValueRead
<1>10. Times'
  <2>1. life = "off" /\ t0 = 0
    BY <1>1 DEF WireInv, Life, Times
  <2>2. 0 <= since' /\ since' <= now /\ t0 <= now /\ t0_new <= now
    <3>1. now <= now /\ 0 <= now /\ 0 <= since
      BY DEF WireInv, Types
    <3> QED
      BY <1>1, <3>1 DEF WireInv, Times
  <2> QED
    BY <1>1, <2>1, <2>2 DEF Times, NoFalseTimeout, Polling, PoweringUp
<1>11. Result'
  BY <1>1, <1>2 DEF Begun, WireInv, Result
<1>12. Expired'
  BY DEF Expired, Initialize, acquire_power_on, acquire_reset, Go
<1> QED
  BY <1>2, <1>3, <1>4, <1>5, <1>6, <1>7, <1>8, <1>9, <1>10, <1>11, <1>12
     DEF Begun, WireInv

\* The time is looked at while the chip powers up.
LEMMA TimeWaitKeeps ==
  ASSUME WireInv, ~Delays, TimeWait
  PROVE  WireInv'
<1>1. /\ phase = "wait" /\ phase' = "sample"
      /\ UNCHANGED <<vec, value, now, t0, t0_new, got>>
      /\ UNCHANGED <<life, since, rx, drive, ssc, reg>>
      /\ place = "done" /\ Go(phase') /\ phase' \in Sending \cup Phases
      /\ UNCHANGED <<kind, power_on, sdata, line_d, line_c>>
  BY DEF WireInv, Control, TimeWait, Looks, line, target, bits, time, Go,
         Sending, Phases
<1>2. Begun
  BY <1>1, Onward
<1>3. Types'
  <2>1. timeout' \in BOOLEAN
    BY DEF TimeWait
  <2> QED
    BY <1>1, <1>2, <2>1 DEF Begun, WireInv, Types, Phases
<1>4. Control' /\ Lines' /\ Life'
  BY <1>1, <1>2 DEF Begun, WireInv, Control, Sending, Lines, InRead, InVector,
                    Low, Life, Polling, PoweringUp
<1>5. Calls' /\ Heard' /\ Drives'
  BY <1>1, <1>2 DEF Begun, WireInv, Calls, Heard, InVector, Drives, InRead,
                    Polling, PoweringUp
<1>6. ValueRead' /\ Times' /\ Result'
  BY <1>1, <1>2 DEF Begun, WireInv, ValueRead, Times, NoFalseTimeout, Result,
                    Polling, PoweringUp
<1>7. Expired'
  BY <1>1 DEF Expired, TimeWait, Looks
<1> QED
  BY <1>2, <1>3, <1>4, <1>5, <1>6, <1>7 DEF Begun, WireInv

\* It is looked at again, as the time SDATA was seen high at last.
LEMMA NewT0Keeps ==
  ASSUME WireInv, ~Delays, NewT0
  PROVE  WireInv'
<1>1. /\ phase = "sample" /\ phase' = "sdata" /\ t0_new' = now
      /\ UNCHANGED <<vec, value, now, t0, timeout, got>>
      /\ UNCHANGED <<life, since, rx, drive, ssc, reg>>
      /\ place = "done" /\ Go(phase') /\ phase' \in Sending \cup Phases
      /\ UNCHANGED <<kind, power_on, sdata, line_d, line_c>>
  BY DEF WireInv, Control, NewT0, Looks, line, target, bits, time, Go,
         Sending, Phases
<1>2. Begun
  BY <1>1, Onward
<1>3. Types' /\ Control' /\ Lines'
  BY <1>1, <1>2 DEF Begun, WireInv, Types, Phases, Control, Sending, Lines,
                    InRead, InVector, Low, Polling, PoweringUp
<1>4. Life' /\ Calls' /\ Heard'
  BY <1>1, <1>2 DEF Begun, WireInv, Life, Calls, Heard, InVector, Polling,
                    PoweringUp
<1>5. Drives' /\ ValueRead'
  BY <1>1, <1>2 DEF Begun, WireInv, Drives, InRead, InVector, ValueRead
<1>6. Times'
  <2>1. now <= now
    BY DEF WireInv, Types
  <2> QED
    BY <1>1, <2>1 DEF WireInv, Times, NoFalseTimeout, Polling, PoweringUp
<1>7. Result' /\ Expired'
  BY <1>1, <1>2 DEF Begun, WireInv, Result, Expired
<1> QED
  BY <1>2, <1>3, <1>4, <1>5, <1>6, <1>7 DEF Begun, WireInv

\* SDATA is looked at: with it low the chip listens.
LEMMA ReadWaitKeeps ==
  ASSUME WireInv, ~Delays, ReadWait
  PROVE  WireInv'
<1>1. /\ phase = "sdata"
      /\ \/ SDATA_IN = 0 /\ phase' = "nine" /\ t0' = t0
         \/ SDATA_IN # 0 /\ timeout /\ phase' = "no power" /\ t0' = t0_new
         \/ SDATA_IN # 0 /\ phase' = "wait" /\ t0' = t0_new
      /\ UNCHANGED <<vec, value, now, t0_new, timeout, got>>
      /\ UNCHANGED <<life, since, rx, drive, ssc, reg>>
      /\ place = "done" /\ Go(phase') /\ phase' \in Sending \cup Phases
      /\ UNCHANGED <<kind, power_on, sdata, line_d, line_c>>
  BY DEF WireInv, Control, ReadWait, Looks, line, target, bits, time, Go,
         Sending, Phases
<1>2. Begun
  BY <1>1, Onward
<1>3. kind # "wadsp" /\ life = IF SDATA_IN = 0 THEN "listens" ELSE "powered"
  <2>1. phase \in PoweringUp
    BY <1>1 DEF PoweringUp
  <2>2. kind # "wadsp" /\ ssc = "idle" /\ life \in {"powered", "listens"}
          /\ ~InRead
    BY <1>1, <2>1 DEF WireInv, Control, Life, Calls, InRead, InVector, Polling
  <2>3. line_d # 1
    BY <2>1, <2>2 DEF WireInv, Lines, Low, Z
  <2>4. drive = IF life = "powered" THEN 1 ELSE Z
    BY <2>2 DEF WireInv, Drives
  <2> QED
    BY <2>2, <2>3, <2>4 DEF SDATA_IN, Z
<1>4. Types'
  <2>1. /\ UNCHANGED <<kind, power_on, vec, value, sdata, line_d, line_c>>
        /\ UNCHANGED <<now, t0_new, timeout, life, since, drive, ssc, reg>>
        /\ phase' \in Sending \cup Phases
    BY <1>1
  <2>2. t0' \in Nat
    BY <1>1 DEF WireInv, Types
  <2> QED
    BY <1>2, <2>1, <2>2 DEF Begun, WireInv, Types
<1>5. Control' /\ Lines'
  BY <1>1, <1>2 DEF Begun, WireInv, Control, Sending, Lines, InRead, InVector,
                    Low, Polling, PoweringUp
<1>6. Life'
  BY <1>1, <1>2, <1>3 DEF Begun, Life, Sending, Polling, PoweringUp
<1>7. Calls'
  BY <1>1, <1>2 DEF Begun, WireInv, Calls, Polling
<1>8. Heard'
  BY <1>1, <1>2, NoPrefix DEF Begun, WireInv, Heard, InVector, Sending,
                              Polling, PoweringUp
<1>9. Drives' /\ ValueRead'
  BY <1>1, <1>2 DEF Begun, WireInv, Drives, InRead, InVector, ValueRead
<1>10. Times'
  <2>1. timeout => now > T_FALL
    BY <1>1 DEF WireInv, Expired
  <2>2. t0_new <= now /\ since <= now /\ t0 <= now
    BY DEF WireInv, Times
  <2> QED
    BY <1>1, <1>3, <2>1, <2>2 DEF WireInv, Times, NoFalseTimeout, Polling,
                                  PoweringUp
<1>11. Result' /\ Expired'
  BY <1>1, <1>2 DEF Begun, WireInv, Result, Expired
<1> QED
  BY <1>2, <1>4, <1>5, <1>6, <1>7, <1>8, <1>9, <1>10, <1>11
     DEF Begun, WireInv

\* The first nine bits are out, in time or not.
LEMMA DeadlineKeeps ==
  ASSUME WireInv, ~Delays, Deadline
  PROVE  WireInv'
<1>1. /\ phase = "nine"
      /\ phase' = (IF now - t0 > T_ACQ THEN "missed" ELSE "rest")
      /\ UNCHANGED <<vec, value, now, t0, t0_new, timeout, got>>
      /\ UNCHANGED <<life, since, rx, drive, ssc, reg>>
      /\ place = "done" /\ Go(phase') /\ phase' \in Sending \cup Phases
      /\ UNCHANGED <<kind, power_on, sdata, line_d, line_c>>
  BY DEF WireInv, Control, Deadline, line, target, bits, time, Go, Sending,
         Phases
<1>2. Begun
  BY <1>1, Onward
<1>3. Types' /\ Control' /\ Lines'
  BY <1>1, <1>2 DEF Begun, WireInv, Types, Phases, Control, Sending, Lines,
                    InRead, InVector, Low, Polling, PoweringUp
<1>4. Life'
  BY <1>1, <1>2 DEF Begun, WireInv, Life, Times, Sending, Polling, PoweringUp
<1>5. Calls'
  BY <1>1, <1>2 DEF Begun, WireInv, Calls, Polling
<1>6. Heard'
  <2>1. rx' = Prefix(Opening, 9)
    BY <1>1 DEF WireInv, Heard
  <2>2. 8 + bit' = 9
    BY <1>2 DEF Begun
  <2> QED
    BY <1>1, <1>2, <2>1, <2>2 DEF Begun, Heard, InVector, Sending, Polling,
                                  PoweringUp
<1>7. Drives' /\ ValueRead' /\ Times'
  BY <1>1, <1>2 DEF Begun, WireInv, Drives, InRead, InVector, ValueRead, Times,
                    NoFalseTimeout, Polling, PoweringUp
<1>8. Result' /\ Expired'
  BY <1>1, <1>2 DEF Begun, WireInv, Result, Expired
<1> QED
  BY <1>2, <1>3, <1>4, <1>5, <1>6, <1>7, <1>8
     DEF Begun, WireInv

\* Time goes by.
LEMMA TickKeeps ==
  ASSUME WireInv, ~Delays, Tick
  PROVE  WireInv'
<1>1. Control' /\ Clock' /\ Lines' /\ Heard' /\ ValueRead' /\ Result'
  <2>1. UNCHANGED <<sender, bits, line, rx, reg, got>>
    BY DEF Tick, target
  <2> QED
    BY <2>1, Apart
<1>2. /\ UNCHANGED <<t0, t0_new, timeout, life, since, drive, ssc>>
      /\ UNCHANGED <<kind, power_on, phase, bit, place, vec, value, sdata, line_d,
                     line_c, rx, reg, got>>
  BY DEF Tick, sender, bits, line, time, target
<1>3. /\ \A x \in Nat : x <= now => x <= now'
      /\ \A x \in Nat : now > x => now' > x
      /\ \A x \in Nat : now - t0 > x => now' - t0 > x
      /\ now \in Nat /\ now' = now + 1
  BY DEF WireInv, Types, Tick
<1>4. Types'
  <2>1. now' \in Nat
    BY DEF WireInv, Types, Tick
  <2> QED
    BY <1>2, <2>1 DEF WireInv, Types, LastBit
<1>5. Life'
  BY <1>2 DEF WireInv, Life, Polling, PoweringUp
<1>6. Calls'
  <2>1. phase # "rose" /\ ~(ssc = "starts" /\ now = T_RISE)
    BY DEF Tick
  <2>2. now <= T_RISE /\ now # T_RISE => now' <= T_RISE
    BY <1>3, Constants
  <2>3. phase \in Polling /\ ssc = "starts" => now' <= T_RISE
    BY <2>1, <2>2 DEF WireInv, Calls
  <2> QED
    BY <1>2, <2>1, <2>3 DEF WireInv, Calls
<1>7. Drives'
  BY <1>2 DEF WireInv, Drives, Edges, Inverted, InRead, InVector
<1>8. Times'
  <2>1. since' <= now' /\ t0' <= now' /\ t0_new' <= now'
    BY <1>2, <1>3 DEF WireInv, Types, Times
  <2>2. /\ now > T_FALL => now' > T_FALL
        /\ now - t0 > T_ACQ => now' - t0 > T_ACQ
    BY <1>3, Constants
  <2>3. phase \notin Untimed
    BY DEF Tick
  <2> QED
    BY <1>2, <2>1, <2>2, <2>3 DEF WireInv, Times, NoFalseTimeout, Untimed
<1>9. Expired'
  <2>1. now > T_FALL => now' > T_FALL
    BY <1>3, Constants
  <2> QED
    BY <1>2, <2>1 DEF WireInv, Expired
<1> QED
  BY <1>1, <1>4, <1>5, <1>6, <1>7, <1>8, <1>9 DEF WireInv

\* The chip has powered up and listens.
LEMMA LetGoKeeps ==
  ASSUME WireInv, ~Delays, LetGo
  PROVE  WireInv'
<1>1. Control' /\ Clock' /\ Lines' /\ Heard' /\ ValueRead' /\ Result'
  <2>1. UNCHANGED <<sender, bits, line, rx, reg, got>>
    BY DEF LetGo, Release, target
  <2> QED
    BY <2>1, Apart
<1>2. /\ life = "powered" /\ life' = "listens" /\ since' = now /\ drive' = Z
      /\ UNCHANGED <<now, t0, t0_new, timeout, ssc>>
      /\ UNCHANGED <<kind, power_on, phase, bit, place, vec, value, sdata, line_d,
                     line_c, rx, reg, got>>
  BY DEF LetGo, Release, sender, bits, line, time, target
<1>3. Types'
  BY <1>2 DEF WireInv, Types, LastBit, Z
<1>4. Life'
  BY <1>2 DEF WireInv, Life, Polling, PoweringUp
<1>5. Calls'
  BY <1>2 DEF WireInv, Calls, Polling
<1>6. Drives'
  <2>1. phase \in PoweringUp
    BY <1>2 DEF WireInv, Life
  <2>2. ssc = "idle" /\ ~InRead'
    BY <1>2, <2>1 DEF WireInv, Calls, InRead, InVector, Polling, PoweringUp
  <2> QED
    BY <1>2, <2>2 DEF Drives
<1>7. Times'
  <2>1. phase \in PoweringUp
    BY <1>2 DEF WireInv, Life
  <2>2. now <= now
    BY DEF WireInv, Types
  <2> QED
    BY <1>2, <2>1, <2>2 DEF WireInv, Times, NoFalseTimeout, Polling, PoweringUp
<1>8. Expired'
  BY <1>2 DEF WireInv, Expired
<1> QED
  BY <1>1, <1>3, <1>4, <1>5, <1>6, <1>7, <1>8 DEF WireInv

\* The chip executes a system call.
LEMMA SSCKeeps ==
  ASSUME WireInv, ~Delays, SSC
  PROVE  WireInv'
<1>1. Control' /\ Clock' /\ Lines' /\ Heard' /\ ValueRead' /\ Result'
  <2>1. UNCHANGED <<sender, bits, line, rx, reg, got>>
    BY DEF SSC, target
  <2> QED
    BY <2>1, Apart
<1>2. /\ \/ ssc = "starts" /\ ssc' = "busy" /\ drive' = 1 /\ since' = since
         \/ ssc = "busy" /\ ssc' = "idle" /\ drive' = Z /\ since' = now
      /\ UNCHANGED <<now, t0, t0_new, timeout, life>>
      /\ UNCHANGED <<kind, power_on, phase, bit, place, vec, value, sdata, line_d,
                     line_c, rx, reg, got>>
  BY DEF SSC, sender, bits, line, time, target
<1>3. Types'
  BY <1>2 DEF WireInv, Types, LastBit, Z
<1>4. Life'
  BY <1>2 DEF WireInv, Life, Polling, PoweringUp
<1>5. Calls'
  BY <1>2 DEF WireInv, Calls, Polling
<1>6. Drives'
  <2>1. /\ ~InRead'
        /\ life # "powered"
    BY <1>2 DEF WireInv, Life, Calls, InRead, InVector, Polling, PoweringUp,
               IS_WRITE, EXEC_VECTOR_SSC, PROG_OP_WRITE_REG
  <2> QED
    BY <1>2, <2>1 DEF Drives
<1>7. Times'
  <2>1. phase \in {"vector", "z"} \cup Polling
    BY <1>2 DEF WireInv, Calls
  <2>2. now <= now
    BY DEF WireInv, Types
  <2>3. phase = "timed out" => since' > T_FALL
    BY <1>2 DEF WireInv, Times, Calls
  <2> QED
    BY <1>2, <2>1, <2>2, <2>3 DEF WireInv, Times, NoFalseTimeout, Polling,
                                  PoweringUp
<1>8. Expired'
  BY <1>2 DEF WireInv, Expired
<1> QED
  BY <1>1, <1>3, <1>4, <1>5, <1>6, <1>7, <1>8 DEF WireInv

-----------------------------------------------------------------------------
(* What the chip takes of a bit *)

\* What is sent is a bit or nothing.
LEMMA Sends ==
  ASSUME NEW v \in Vectors \cup {ZERO_VECTOR}, NEW j \in 1..22
  PROVE  /\ Sent(v, j) \in {0, 1, Z}
         /\ Sent(v, j) = Z => ~IS_WRITE(v)
         /\ ~IS_WRITE(v) /\ j \in 12..21 => Sent(v, j) = Z
         /\ v # ZERO_VECTOR /\ j = 22 => Sent(v, j) = 1
<1>1. IS_WRITE(ZERO_VECTOR)
  BY DEF IS_WRITE, ZERO_VECTOR
<1>2. CASE v = ZERO_VECTOR
  BY <1>1, <1>2 DEF Sent, Z
<1>3. CASE v # ZERO_VECTOR
  <2>1. v \in (0..7) \X (0..255) \X (0..255)
    BY <1>3, VectorAssumption DEF PROG_OP_WRITE_MEM, PROG_OP_READ_REG
  <2>2. j <= 19 => CodeBit(v, j) \in {0, 1}
    BY <2>1, CodeBits
  <2> QED
    BY <1>3, <2>2 DEF Sent, Z
<1> QED
  BY <1>2, <1>3

\* The level of the bit, and what the chip hears of it.
LEMMA Levels ==
  ASSUME WireInv, place # "done"
  PROVE  /\ Level \in {0, 1, 2}
         /\ kind = "wadsp" => Level \in {0, 1}
         /\ InRead /\ bit \in 12..21 => Level = Low(Z)
         /\ phase = "z" => Level = Low(Z)
         /\ phase = "vector" => /\ bit \in 1..22
                                /\ One(Level) = HeardOf(vec)[bit]
                                /\ vec = ZERO_VECTOR => One(Level) = 0
                                /\ bit = 22 /\ vec # ZERO_VECTOR => Level = 1
         /\ phase = "nine" => bit \in 1..9 /\ One(Level) = Opening[bit]
         /\ phase = "rest" => bit \in 1..13 /\ One(Level) = Opening[9 + bit]
         /\ phase \in {"z", "drain"} => One(Level) = 0
<1>1. phase \in Sending /\ bit \in 1..LastBit
        /\ kind \in {"wadsp", "watpp", "ppporissp"}
  BY DEF WireInv, Types, Control
<1>2. CASE phase = "vector"
  <2>1. bit \in 1..22 /\ vec \in Vectors \cup {ZERO_VECTOR}
          /\ Level = Low(Sent(vec, bit))
    BY <1>1, <1>2 DEF WireInv, Types, LastBit, Level
  <2>2. /\ Sent(vec, bit) \in {0, 1, Z}
        /\ ~IS_WRITE(vec) /\ bit \in 12..21 => Sent(vec, bit) = Z
        /\ vec # ZERO_VECTOR /\ bit = 22 => Sent(vec, bit) = 1
    BY <2>1, Sends
  <2>3. HeardOf(vec)[bit] = One(Sent(vec, bit))
    BY <2>1 DEF HeardOf
  <2>4. vec = ZERO_VECTOR => Sent(vec, bit) = 0
    BY DEF Sent
  <2> QED
    BY <1>2, <2>1, <2>2, <2>3, <2>4 DEF Low, Z, One, InRead, InVector
<1>3. CASE phase = "nine"
  <2>1. bit \in 1..9 /\ Level = Low(CodeBit(INIT_VECTOR, bit))
    BY <1>1, <1>3 DEF LastBit, Level
  <2>2. CodeBit(INIT_VECTOR, bit) \in {0, 1}
    BY <2>1, CodeBits DEF INIT_VECTOR, PROG_OP_WRITE_REG
  <2>3. Opening[bit] = CodeBit(INIT_VECTOR, bit)
    BY <2>1 DEF Opening
  <2> QED
    BY <1>3, <2>1, <2>2, <2>3 DEF Low, Z, One, InRead, InVector
<1>4. CASE phase = "rest"
  <2>1. bit \in 1..13 /\ Level = 0
    BY <1>1, <1>4 DEF LastBit, Level, Low, Z
  <2>2. Opening[9 + bit] = 0
    BY <2>1 DEF Opening
  <2> QED
    BY <1>4, <2>1, <2>2 DEF One, InRead, InVector
<1>5. CASE phase \in {"z", "drain"}
  BY <1>1, <1>5 DEF Level, Low, Z, One, InRead, InVector
<1> QED
  BY <1>1, <1>2, <1>3, <1>4, <1>5 DEF Sending

\* The chip takes a bit of a vector.
LEMMA TakesVector ==
  ASSUME WireInv, InVector, vec # ZERO_VECTOR, Edges = bit - 1,
         Falling(One(Level))
  PROVE  /\ life' = life /\ since' = since
         /\ rx' = IF bit = 22 THEN <<>> ELSE Prefix(HeardOf(vec), bit)
         /\ ssc' \in {"idle", "starts"}
         /\ ssc' = "starts" => bit = 22 /\ vec = EXEC_VECTOR_SSC
         /\ drive' = IF ~IS_WRITE(vec) /\ bit \in 13..20
                     THEN BitOf(reg[Cell(vec)], bit - 12) ELSE Z
         /\ \/ reg' = reg
            \/ /\ IS_WRITE(vec) /\ Cell(vec) \in Cells /\ vec[3] \in Vals
               /\ reg' = [reg EXCEPT ![Cell(vec)] = vec[3]]
<1> DEFINE h == HeardOf(vec)
<1>1. vec \in Vectors /\ life = "acquired" /\ ssc = "idle"
  BY DEF WireInv, Control, Life, Calls, InVector, Polling
<1>2. bit \in 1..22 /\ One(Level) = h[bit]
  BY Levels DEF InVector
<1>3. rx = Prefix(h, bit - 1)
  BY DEF WireInv, Heard
<1>4. Take(h[bit])
  BY <1>1, <1>2 DEF Falling
<1>5. /\ h \in Frames /\ h[1] = 1 /\ Cell(vec) = <<h[2], Byte(h, 4)>>
      /\ h[3] = 1 <=> ~IS_WRITE(vec)
      /\ IS_WRITE(vec) => Byte(h, 12) = vec[3]
      /\ Prefix(h, 19) = Coded(EXEC_VECTOR_SSC) => vec = EXEC_VECTOR_SSC
  BY <1>1, Hears
<1> HIDE DEF h
<1>6. /\ life' = life /\ since' = since
      /\ rx' = IF bit = 22 THEN <<>> ELSE Prefix(h, bit)
      /\ ssc' = IF bit = 22 /\ Prefix(h, 19) = Coded(EXEC_VECTOR_SSC)
                THEN "starts" ELSE ssc
      /\ drive' = IF bit \in 13..20 /\ h[3] = 1 /\ Cell(vec) \in Cells
                  THEN BitOf(reg[Cell(vec)], bit - 12) ELSE Z
      /\ reg' = IF bit = 19 /\ h[3] # 1 /\ Cell(vec) \in Cells
                THEN [reg EXCEPT ![Cell(vec)] = Byte(h, 12)] ELSE reg
  BY <1>2, <1>3, <1>4, <1>5, Takes
<1>7. /\ ssc' \in {"idle", "starts"}
      /\ ssc' = "starts" => bit = 22 /\ vec = EXEC_VECTOR_SSC
  BY <1>1, <1>5, <1>6
<1>8. IF IS_WRITE(vec) THEN Cell(vec) \in Cells => vec[3] \in Vals
                       ELSE Cell(vec) \in Cells
  BY <1>1, VectorAssumption
<1>9. drive' = IF ~IS_WRITE(vec) /\ bit \in 13..20
               THEN BitOf(reg[Cell(vec)], bit - 12) ELSE Z
  BY <1>5, <1>6, <1>8
<1>10. \/ reg' = reg
       \/ /\ IS_WRITE(vec) /\ Cell(vec) \in Cells /\ vec[3] \in Vals
          /\ reg' = [reg EXCEPT ![Cell(vec)] = vec[3]]
  BY <1>5, <1>6, <1>8
<1> QED
  BY <1>6, <1>7, <1>9, <1>10 DEF h

\* Zeros in between are nothing to it.
LEMMA TakesZero ==
  ASSUME WireInv, place # "done",
         phase \in {"z", "drain"} \/ (phase = "vector" /\ vec = ZERO_VECTOR),
         Falling(One(Level))
  PROVE  UNCHANGED target
<1>1. One(Level) = 0
  BY Levels
<1>2. life = "acquired" /\ rx = <<>>
  BY DEF WireInv, Life, Heard
<1>3. ssc = "idle" => drive = Z
  <2>1. IS_WRITE(ZERO_VECTOR)
    BY DEF IS_WRITE, ZERO_VECTOR
  <2> QED
    BY <1>2, <2>1 DEF WireInv, Drives, InRead, InVector
<1>4. CASE ssc = "idle"
  <2>1. Take(0)
    BY <1>1, <1>2, <1>4 DEF Falling
  <2> QED
    BY <1>2, <1>3, <1>4, <2>1, Ignores
<1>5. CASE ssc # "idle"
  BY <1>2, <1>5 DEF Falling
<1> QED
  BY <1>4, <1>5

\* It hears the bits it is acquired with.
LEMMA HearsNine ==
  ASSUME WireInv, phase = "nine", place \in {"data", "first", "second", "after"},
         Falling(One(Level))
  PROVE  /\ rx' = Prefix(Opening, bit)
         /\ life' = IF bit < 9 THEN "listens"
                    ELSE IF now <= since + T_ACQ THEN "acquired" ELSE "lost"
         /\ UNCHANGED <<since, drive, ssc, reg>>
<1>1. bit \in 1..9 /\ One(Level) = Opening[bit]
  BY Levels
<1>2. life = "listens" /\ rx = Prefix(Opening, bit - 1)
  BY DEF WireInv, Life, Heard
<1>3. Hear(Opening[bit])
  BY <1>1, <1>2 DEF Falling
<1>4. Append(rx, Opening[bit]) = Prefix(Opening, bit) /\ Len(rx) + 1 = bit
  <2>1. /\ Append(Prefix(Opening, bit - 1), Opening[bit]) = Prefix(Opening, bit)
        /\ Len(Prefix(Opening, bit - 1)) = bit - 1
    <3>1. bit \in 1..22 /\ Opening \in Frames
      BY <1>1, Opens
    <3> QED
      BY <3>1, Appends
  <2> QED
    BY <1>1, <1>2, <2>1
<1>5. ~(bit = 1 /\ Opening[bit] = 0)
  BY Opens
<1> QED
  BY <1>2, <1>3, <1>4, <1>5 DEF Hear

\* The zeros after them make the vector complete.
LEMMA TakesRest ==
  ASSUME WireInv, phase = "rest", place # "done", Falling(One(Level))
  PROVE  /\ life' = life /\ since' = since /\ ssc' = ssc /\ drive' = Z
         /\ rx' = IF bit = 13 THEN <<>> ELSE Prefix(Opening, 9 + bit)
         /\ \/ reg' = reg
            \/ <<1, 80>> \in Cells /\ reg' = [reg EXCEPT ![<<1, 80>>] = 0]
<1> DEFINE n == 9 + bit
<1>1. bit \in 1..13 /\ One(Level) = Opening[n]
  BY Levels
<1>2. n \in 1..22 /\ n - 1 = 8 + bit /\ (n = 22 <=> bit = 13)
  BY <1>1
<1>3. life = "acquired" /\ ssc = "idle" /\ rx = Prefix(Opening, n - 1)
  BY <1>2 DEF WireInv, Life, Calls, Heard, Polling
<1>4. Take(Opening[n])
  BY <1>1, <1>3 DEF Falling
<1> HIDE DEF n
<1> DEFINE h == Opening  cell == <<1, 80>>
<1>5. /\ h \in Frames /\ h[1] = 1 /\ cell = <<h[2], Byte(h, 4)>>
      /\ h[3] = 0 /\ Byte(h, 12) = 0 /\ Prefix(h, 19) # Coded(EXEC_VECTOR_SSC)
  BY Opens
<1> HIDE DEF h, cell
<1>6. /\ life' = life /\ since' = since
      /\ rx' = IF n = 22 THEN <<>> ELSE Prefix(h, n)
      /\ ssc' = IF n = 22 /\ Prefix(h, 19) = Coded(EXEC_VECTOR_SSC)
                THEN "starts" ELSE ssc
      /\ drive' = IF n \in 13..20 /\ h[3] = 1 /\ cell \in Cells
                  THEN BitOf(reg[cell], n - 12) ELSE Z
      /\ reg' = IF n = 19 /\ h[3] # 1 /\ cell \in Cells
                THEN [reg EXCEPT ![cell] = Byte(h, 12)] ELSE reg
  BY <1>2, <1>3, <1>4, <1>5, Takes DEF h
<1>7. /\ ssc' = ssc /\ drive' = Z
      /\ \/ reg' = reg
         \/ <<1, 80>> \in Cells /\ reg' = [reg EXCEPT ![<<1, 80>>] = 0]
  <2>1. ssc' = ssc
    BY <1>5, <1>6
  <2>2. drive' = Z
    BY <1>5, <1>6
  <2>3. reg' = reg \/ (cell \in Cells /\ reg' = [reg EXCEPT ![cell] = 0])
    <3>1. reg' = reg
            \/ (cell \in Cells /\ reg' = [reg EXCEPT ![cell] = Byte(h, 12)])
      BY <1>6
    <3> QED
      BY <1>5, <3>1
  <2> QED
    BY <2>1, <2>2, <2>3 DEF cell
<1>8. rx' = IF bit = 13 THEN <<>> ELSE Prefix(Opening, n)
  BY <1>2, <1>6 DEF h
<1> QED
  BY <1>6, <1>7, <1>8 DEF n

-----------------------------------------------------------------------------
(* The steps of a bit *)

\* wadsp's first bit ends the reset, and the chip begins to listen.
LEMMA EndResetKeeps ==
  ASSUME WireInv, EndReset
  PROVE  WireInv'
<1>1. /\ phase = "nine" /\ kind = "wadsp" /\ bit = 1 /\ place = "xres"
      /\ life = "off"
      /\ t0 = 0 /\ ssc = "idle"
  BY DEF WireInv, Control, Life, Calls, Times, Polling, EndReset
<1>2. /\ place' = "data" /\ life' = "listens" /\ since' = now
      /\ UNCHANGED <<bit, rx, drive, ssc, reg, kind, power_on, phase, vec, value,
                     sdata, now, t0, t0_new, timeout, line_d, line_c, got>>
  BY DEF EndReset, Release, Stay, bits, line, time
<1>3. Types'
  BY <1>2 DEF WireInv, Types, LastBit
<1>4. Control'
  BY <1>1, <1>2 DEF WireInv, Control, Inverts, Reads, LastBit, Polling, PoweringUp
<1>5. Clock' /\ Lines'
  BY <1>1, <1>2
     DEF WireInv, Clock, Lines, InRead, InVector, Inverted, Reads, Level,
                    Low, Polling, PoweringUp
<1>6. Life' /\ Calls'
  BY <1>1, <1>2 DEF Life, Calls, Polling, PoweringUp
<1>7. Heard' /\ Drives' /\ ValueRead'
  BY <1>1, <1>2 DEF WireInv, Heard, Drives, ValueRead, InRead, InVector, Polling,
                    PoweringUp
<1>8. Times'
  <2>1. now <= now /\ 0 <= now
    BY DEF WireInv, Types
  <2> QED
    BY <1>1, <1>2, <2>1 DEF WireInv, Times, NoFalseTimeout, Polling, PoweringUp
<1>9. Result' /\ Expired'
  BY <1>1, <1>2 DEF WireInv, Result, Expired
<1> QED
  BY <1>3, <1>4, <1>5, <1>6, <1>7, <1>8, <1>9 DEF WireInv

\* wadsp sets SDATA to the level of the bit, if it is not what was set last.
LEMMA SetDataKeeps ==
  ASSUME WireInv, SetData
  PROVE  WireInv'
<1>1. kind = "wadsp" /\ place = "data"
  BY DEF WireInv, Control, SetData
<1>2. Level \in {0, 1}
  BY <1>1, Levels
<1>3. /\ place' = "first" /\ line_d' = Level /\ sdata' = Level
      /\ UNCHANGED <<bit, life, since, rx, drive, ssc, reg, kind, power_on, phase,
                     vec, value, now, t0, t0_new, timeout, line_c, got>>
  <2>1. sdata = Level => line_d = Level
    BY <1>1, <1>2 DEF WireInv, Lines, Unknown
  <2> QED
    BY <2>1 DEF SetData, Stay, target, time
<1>4. Level' = Level /\ LastBit' = LastBit
  BY <1>3 DEF Level, Low, LastBit
<1>5. Types'
  BY <1>2, <1>3, <1>4 DEF WireInv, Types
<1>6. Control'
  BY <1>1, <1>3, <1>4 DEF WireInv, Control
<1>7. Clock'
  BY <1>1, <1>3 DEF WireInv, Clock, InRead, InVector
<1>8. Lines'
  <2>1. /\ InRead /\ bit \in 13..21 => Level = Low(Z)
        /\ phase = "z" => Level = Low(Z)
        /\ phase \in Sending
    BY <1>1, Levels DEF WireInv, Control
  <2> QED
    BY <1>1, <1>3, <1>4, <2>1 DEF Lines, InRead, InVector, Low, Sending, Polling,
                                  PoweringUp
<1>9. Life' /\ Calls'
  BY <1>1, <1>3 DEF WireInv, Life, Calls
<1>10. Heard' /\ Drives' /\ ValueRead'
  <2>1. Edges' = Edges /\ BitsRead' = BitsRead
    BY <1>1, <1>3 DEF Edges, BitsRead, Inverted
  <2> QED
    BY <1>1, <1>3, <2>1 DEF WireInv, Heard, Drives, ValueRead, InRead, InVector
<1>11. Times'
  BY <1>3 DEF WireInv, Times, NoFalseTimeout
<1>12. Result' /\ Expired'
  BY <1>3 DEF WireInv, Result, Expired
<1> QED
  BY <1>5, <1>6, <1>7, <1>8, <1>9, <1>10, <1>11, <1>12 DEF WireInv

\* In the part of a read with the phase inverted the chip answers the first
\* edge of SCLK.
LEMMA FirstEdgeChip ==
  ASSUME WireInv, FirstEdge, Inverted
  PROVE  /\ phase = "vector" /\ InRead /\ InVector /\ bit \in 13..21
         /\ vec # ZERO_VECTOR
         /\ vec \in Vectors
         /\ life' = life /\ since' = since
         /\ rx' = Prefix(HeardOf(vec), bit)
         /\ ssc' = "idle" /\ reg' = reg
         /\ drive' = IF bit \in 13..20 THEN BitOf(reg[Cell(vec)], bit - 12) ELSE Z
<1>1. place = "first" /\ phase \in Sending
  BY DEF WireInv, Control, FirstEdge
<1>2. /\ phase = "vector" /\ InRead /\ InVector /\ bit \in 13..21
      /\ vec # ZERO_VECTOR
      /\ vec \in Vectors /\ Edges = bit - 1
  BY <1>1 DEF WireInv, Control, Inverted, InRead, InVector, Edges, IS_WRITE,
              ZERO_VECTOR
<1>3. Falling(One(Level))
  <2>1. line_c = 1
    BY <1>1, <1>2 DEF WireInv, Clock
  <2>2. Falling(IF line_d' = 1 THEN 1 ELSE 0)
    BY <2>1 DEF FirstEdge, SetLine
  <2>3. line_d' = Level
    BY <1>1 DEF WireInv, Lines, FirstEdge, SetLine
  <2> QED
    BY <2>2, <2>3 DEF One
<1>4. /\ life' = life /\ since' = since
      /\ rx' = IF bit = 22 THEN <<>> ELSE Prefix(HeardOf(vec), bit)
      /\ ssc' \in {"idle", "starts"}
      /\ ssc' = "starts" => bit = 22 /\ vec = EXEC_VECTOR_SSC
      /\ drive' = IF ~IS_WRITE(vec) /\ bit \in 13..20
                  THEN BitOf(reg[Cell(vec)], bit - 12) ELSE Z
      /\ \/ reg' = reg
         \/ /\ IS_WRITE(vec) /\ Cell(vec) \in Cells /\ vec[3] \in Vals
            /\ reg' = [reg EXCEPT ![Cell(vec)] = vec[3]]
  BY <1>2, <1>3, TakesVector
<1>5. ~IS_WRITE(vec) /\ bit # 22
  BY <1>2 DEF InRead
<1> QED
  BY <1>2, <1>4, <1>5

\* The first edge of SCLK.  In the part of a read with the phase inverted the
\* chip answers it.
LEMMA FirstEdgeKeeps ==
  ASSUME WireInv, FirstEdge
  PROVE  WireInv'
<1>1. place = "first" /\ phase \in Sending
  BY DEF WireInv, Control, FirstEdge
<1>2. /\ place' = "second" /\ line_d' = Level
      /\ line_c' = IF Inverted THEN 0 ELSE 1
      /\ kind = "wadsp" => line_d' = line_d
      /\ UNCHANGED <<bit, kind, power_on, phase, vec, value, sdata, now, t0,
                     t0_new, timeout, got>>
  <2>1. kind = "wadsp" => line_d = Level
    BY <1>1 DEF WireInv, Lines
  <2> QED
    BY <2>1 DEF FirstEdge, SetLine, Stay, bits, time
<1>3. /\ Level' = Level /\ LastBit' = LastBit /\ BitsRead' = BitsRead
      /\ (Inverted' <=> Inverted) /\ (InRead' <=> InRead)
          /\ (InVector' <=> InVector)
  BY <1>1, <1>2 DEF Level, Low, LastBit, BitsRead, Inverted, InRead, InVector
<1>4. ASSUME ~Inverted
       PROVE  /\ Types' /\ Life' /\ Calls' /\ Heard' /\ Drives' /\ ValueRead'
              /\ Times' /\ Result'
  <2>1. UNCHANGED <<life, since, rx, drive, ssc, reg>>
    BY <1>4 DEF FirstEdge, SetLine, target
  <2>2. Edges' = Edges
    BY <1>1, <1>2, <1>3, <1>4 DEF Edges
  <2>3. Heard' /\ Drives' /\ ValueRead'
    BY <1>1, <1>2, <1>3, <2>1, <2>2 DEF WireInv, Heard, Drives, ValueRead
  <2>4. Life' /\ Calls'
    BY <1>1, <1>2, <2>1 DEF WireInv, Life, Calls
  <2>5. Types'
    BY <1>1, <1>2, <1>3, <1>4, <2>1, Levels DEF WireInv, Types
  <2>6. Times' /\ Result'
    BY <1>2, <2>1 DEF WireInv, Times, NoFalseTimeout, Result
  <2> QED
    BY <2>3, <2>4, <2>5, <2>6
<1>5. ASSUME Inverted
       PROVE  /\ Types' /\ Life' /\ Calls' /\ Heard' /\ Drives' /\ ValueRead'
              /\ Times' /\ Result'
  <2>1. /\ phase = "vector" /\ InRead /\ InVector /\ bit \in 13..21
        /\ vec # ZERO_VECTOR
        /\ life' = life /\ since' = since
        /\ rx' = Prefix(HeardOf(vec), bit)
        /\ ssc' = "idle" /\ reg' = reg
        /\ drive' = IF bit \in 13..20 THEN BitOf(reg[Cell(vec)], bit - 12) ELSE Z
        /\ vec \in Vectors
    BY <1>5, FirstEdgeChip
  <2>2. life = "acquired"
    BY <2>1 DEF WireInv, Life
  <2>3. Edges' = bit
    BY <1>2, <1>3, <1>5 DEF Edges
  <2>4. Heard' /\ ValueRead'
    BY <1>2, <1>3, <2>1, <2>3 DEF WireInv, Heard, ValueRead, Polling, PoweringUp
  <2>5. Drives'
    BY <1>2, <1>3, <2>1, <2>2, <2>3 DEF Drives
  <2>6. Life' /\ Calls'
    BY <1>2, <2>1, <2>2 DEF Life, Calls, Polling, PoweringUp
  <2>7. Types'
    <3>1. drive' \in {0, 1, 2}
      <4>1. reg[Cell(vec)] \in 0..255
        <5>1. Cell(vec) \in Cells
          BY <2>1, VectorAssumption DEF InRead
        <5> QED
          BY <5>1, VectorAssumption DEF WireInv, Types
      <4>2. bit \in 13..20 => bit - 12 \in 1..8
        OBVIOUS
      <4> QED
        BY <2>1, <4>1, <4>2, BitsOfByte DEF Z
    <3> QED
      BY <1>1, <1>2, <1>3, <1>5, <2>1, <3>1, Levels DEF WireInv, Types
  <2>8. Times' /\ Result'
    BY <1>2, <2>1 DEF WireInv, Times, NoFalseTimeout, Result, Polling
  <2> QED
    BY <2>4, <2>5, <2>6, <2>7, <2>8
<1>6. Control'
  BY <1>1, <1>2, <1>3 DEF WireInv, Control
<1>7. Clock'
  BY <1>2, <1>3 DEF Clock
<1>8. Lines'
  <2>1. /\ InRead /\ bit \in 13..21 => Level = Low(Z)
        /\ phase = "z" => Level = Low(Z)
    BY <1>1, Levels
  <2>2. Low(Z)' = Low(Z)
    BY <1>2 DEF Low
  <2> QED
    BY <1>1, <1>2, <1>3, <2>1, <2>2
       DEF WireInv, Lines, Sending, Polling, PoweringUp
<1>9. Expired'
  BY <1>2 DEF WireInv, Expired
<1> QED
  BY <1>4, <1>5, <1>6, <1>7, <1>8, <1>9 DEF WireInv

\* What the second edge does on the lines, and where it leads.
LEMMA SecondEdgeSteps ==
  ASSUME WireInv, SecondEdge
  PROVE  /\ place = "second" /\ phase \in Sending
         /\ line_d = Level /\ line_d' = line_d
         /\ line_c' = IF Inverted THEN 1 ELSE 0
         /\ UNCHANGED <<kind, power_on, phase, vec, value, sdata, now, t0, t0_new,
                        timeout, got>>
         /\ Inverted => UNCHANGED target
         /\ ~Inverted => Falling(One(Level))
         /\ \/ /\ Inverts \/ Reads
               /\ place' = "after" /\ bit' = bit
            \/ /\ ~(Inverts \/ Reads) /\ bit < LastBit
               /\ place' = FirstPlace /\ bit' = bit + 1
            \/ /\ ~(Inverts \/ Reads) /\ bit = LastBit
               /\ place' = "done" /\ bit' = bit
<1>1. place = "second" /\ phase \in Sending /\ line_d = Level
  BY DEF WireInv, Control, Lines, SecondEdge
<1>2. line_c = IF Inverted THEN 0 ELSE 1
  BY <1>1 DEF WireInv, Clock
<1>3. /\ line_d' = line_d /\ line_c' = IF Inverted THEN 1 ELSE 0
      /\ IF line_c = 1 /\ (IF Inverted THEN 1 ELSE 0) = 0
         THEN Falling(IF line_d = 1 THEN 1 ELSE 0) ELSE UNCHANGED target
      /\ UNCHANGED <<kind, power_on, phase, vec, value, sdata, now, t0, t0_new,
                     timeout, got>>
      /\ IF Inverts \/ Reads THEN place' = "after" /\ UNCHANGED bit ELSE NextBit
  BY DEF SecondEdge, SetLine, Stay, bits, time
<1>4. /\ Inverted => UNCHANGED target
      /\ ~Inverted => Falling(One(Level))
  BY <1>1, <1>2, <1>3 DEF One
<1>5. ~(bit < LastBit) => bit = LastBit
  <2>1. bit \in 1..LastBit /\ LastBit \in Nat
    BY DEF WireInv, Types, LastBit
  <2> QED
    BY <2>1
<1> QED
  BY <1>1, <1>3, <1>4, <1>5 DEF NextBit

\* In the phase of a vector, from one bit to the next.
LEMMA SecondEdgeInVector ==
  ASSUME WireInv, SecondEdge, phase = "vector"
  PROVE  /\ bit \in 1..22 /\ bit' \in 1..22
         /\ (Inverts \/ Reads) <=> (~IS_WRITE(vec) /\ bit \in 12..20)
         /\ place' = "after" => ~IS_WRITE(vec) /\ bit \in 12..20 /\ bit' = bit
         /\ place' = "done" => bit = 22 /\ bit' = 22
         /\ place' \notin {"after", "done"} =>
              bit < 22 /\ bit' = bit + 1 /\ (IS_WRITE(vec) \/ bit \notin 12..20)
         /\ InVector
         /\ InVector' <=> place' # "done"
         /\ Inverted <=> ~IS_WRITE(vec) /\ bit \in 13..21
         /\ Edges = IF Inverted THEN bit ELSE bit - 1
         /\ place' # "done" => Edges' = bit
<1>1. place = "second" /\ phase' = "vector" /\ vec' = vec
  BY SecondEdgeSteps
<1>2. bit \in 1..22 /\ LastBit = 22
  BY DEF WireInv, Types, LastBit
<1>3. /\ (Inverts \/ Reads) <=> (~IS_WRITE(vec) /\ bit \in 12..20)
      /\ Inverted <=> ~IS_WRITE(vec) /\ bit \in 13..21
  BY <1>2 DEF Inverts, Reads, Inverted
<1>4. \/ /\ ~IS_WRITE(vec) /\ bit \in 12..20
         /\ place' = "after" /\ bit' = bit
      \/ /\ ~(~IS_WRITE(vec) /\ bit \in 12..20) /\ bit < 22
         /\ place' \in {"data", "first"} /\ bit' = bit + 1
      \/ /\ bit = 22
         /\ place' = "done" /\ bit' = bit
  BY <1>2, <1>3, SecondEdgeSteps DEF FirstPlace
<1>5. bit' \in 1..22
  BY <1>2, <1>4
<1>6. Edges = IF Inverted THEN bit ELSE bit - 1
  BY <1>1 DEF Edges
<1>7. place' # "done" => Edges' = bit
  <2>1. place' = "after" => Edges' = bit
    BY <1>4 DEF Edges
  <2>2. ASSUME place' \in {"data", "first"} PROVE Edges' = bit
    <3>1. bit' = bit + 1
      BY <1>4, <2>2
    <3>2. bit' - 1 = bit
      BY <1>2, <3>1
    <3>3. Edges' = bit' - 1
      BY <2>2 DEF Edges
    <3> QED
      BY <3>2, <3>3
  <2> QED
    BY <1>4, <2>1, <2>2
<1> QED
  BY <1>1, <1>2, <1>3, <1>4, <1>5, <1>6, <1>7 DEF InVector

\* What the chip makes of it: it drives SDATA as before.
LEMMA SecondEdgeChip ==
  ASSUME WireInv, SecondEdge
  PROVE  /\ since' = since /\ drive' = drive
         /\ life' = IF phase = "nine" /\ bit = 9
                    THEN IF now <= since + T_ACQ THEN "acquired" ELSE "lost"
                    ELSE life
         /\ \/ ssc' = ssc
            \/ /\ ssc' = "starts" /\ phase = "vector" /\ bit = 22
               /\ vec = EXEC_VECTOR_SSC
         /\ \/ reg' = reg
            \/ /\ phase = "vector" /\ IS_WRITE(vec) /\ Cell(vec) \in Cells
               /\ vec[3] \in Vals /\ reg' = [reg EXCEPT ![Cell(vec)] = vec[3]]
            \/ /\ phase = "rest" /\ <<1, 80>> \in Cells
               /\ reg' = [reg EXCEPT ![<<1, 80>>] = 0]
         /\ rx' = IF phase = "nine" THEN Prefix(Opening, bit)
                  ELSE IF phase = "rest"
                  THEN IF bit = 13 THEN <<>> ELSE Prefix(Opening, 9 + bit)
                  ELSE IF phase = "vector" /\ vec # ZERO_VECTOR
                  THEN IF Inverted THEN rx
                       ELSE IF bit = 22 THEN <<>> ELSE Prefix(HeardOf(vec), bit)
                  ELSE rx
<1>1. place = "second" /\ phase \in Sending
  BY SecondEdgeSteps
<1>2. CASE Inverted
  <2>1. UNCHANGED <<life, since, rx, drive, ssc, reg>>
    BY <1>2, SecondEdgeSteps DEF target
  <2>2. phase = "vector" /\ vec # ZERO_VECTOR
    BY <1>2 DEF Inverted, IS_WRITE, ZERO_VECTOR
  <2> QED
    BY <1>2, <2>1, <2>2
<1>3. CASE ~Inverted
  <2>1. Falling(One(Level))
    BY <1>3, SecondEdgeSteps
  <2>2. CASE phase = "vector" /\ vec # ZERO_VECTOR
    <3>1. /\ InVector /\ Edges = bit - 1 /\ bit \in 1..22
          /\ IS_WRITE(vec) \/ bit \notin 13..21
      BY <1>3, <2>2, SecondEdgeInVector
    <3>2. /\ life' = life /\ since' = since
          /\ rx' = IF bit = 22 THEN <<>> ELSE Prefix(HeardOf(vec), bit)
          /\ ssc' \in {"idle", "starts"}
          /\ ssc' = "starts" => bit = 22 /\ vec = EXEC_VECTOR_SSC
          /\ drive' = IF ~IS_WRITE(vec) /\ bit \in 13..20
                      THEN BitOf(reg[Cell(vec)], bit - 12) ELSE Z
          /\ \/ reg' = reg
             \/ /\ IS_WRITE(vec) /\ Cell(vec) \in Cells /\ vec[3] \in Vals
                /\ reg' = [reg EXCEPT ![Cell(vec)] = vec[3]]
      BY <2>1, <2>2, <3>1, TakesVector
    <3>3. life = "acquired" /\ ssc = "idle"
      BY <1>1, <2>2 DEF WireInv, Life, Calls, Polling
    <3>4. drive' = Z
      BY <3>1, <3>2
    <3>5. drive = Z
      <4>1. ~(InRead /\ Edges \in 13..20)
        BY <3>1 DEF InRead
      <4> QED
        BY <3>3, <4>1 DEF WireInv, Drives
    <3> QED
      BY <1>3, <2>2, <3>2, <3>3, <3>4, <3>5
  <2>3. CASE phase \in {"z", "drain"} \/ (phase = "vector" /\ vec = ZERO_VECTOR)
    <3>1. UNCHANGED <<life, since, rx, drive, ssc, reg>>
      BY <1>1, <2>1, <2>3, TakesZero DEF target
    <3> QED
      BY <2>3, <3>1
  <2>4. CASE phase = "nine"
    <3>1. /\ rx' = Prefix(Opening, bit)
          /\ life' = IF bit < 9 THEN "listens"
                     ELSE IF now <= since + T_ACQ THEN "acquired" ELSE "lost"
          /\ UNCHANGED <<since, drive, ssc, reg>>
      BY <1>1, <2>1, <2>4, HearsNine
    <3>2. life = "listens" /\ bit \in 1..9
      BY <1>1, <2>4, Levels DEF WireInv, Life
    <3>3. bit < 9 <=> bit # 9
      BY <3>2
    <3> QED
      BY <2>4, <3>1, <3>2, <3>3
  <2>5. CASE phase = "rest"
    <3>1. /\ life' = life /\ since' = since /\ ssc' = ssc /\ drive' = Z
          /\ rx' = IF bit = 13 THEN <<>> ELSE Prefix(Opening, 9 + bit)
          /\ \/ reg' = reg
             \/ <<1, 80>> \in Cells /\ reg' = [reg EXCEPT ![<<1, 80>>] = 0]
      BY <1>1, <2>1, <2>5, TakesRest
    <3>2. drive = Z
      BY <2>5 DEF WireInv, Life, Calls, Drives, InRead, InVector, Polling
    <3> QED
      BY <2>5, <3>1, <3>2
  <2> QED
    BY <1>1, <2>2, <2>3, <2>4, <2>5 DEF Sending
<1> QED
  BY <1>2, <1>3

\* The second edge of SCLK, with which the chip takes a bit outside of that part.
LEMMA SecondEdgeKeeps ==
  ASSUME WireInv, SecondEdge
  PROVE  WireInv'
<1>1. /\ place = "second" /\ phase \in Sending
      /\ line_d = Level /\ line_d' = line_d
      /\ line_c' = IF Inverted THEN 1 ELSE 0
      /\ UNCHANGED <<kind, power_on, phase, vec, value, sdata, now, t0, t0_new,
                     timeout, got>>
      /\ \/ /\ Inverts \/ Reads
            /\ place' = "after" /\ bit' = bit
         \/ /\ ~(Inverts \/ Reads) /\ bit < LastBit
            /\ place' = FirstPlace /\ bit' = bit + 1
         \/ /\ ~(Inverts \/ Reads) /\ bit = LastBit
            /\ place' = "done" /\ bit' = bit
  BY SecondEdgeSteps
<1>2. /\ since' = since /\ drive' = drive
      /\ life' = IF phase = "nine" /\ bit = 9
                 THEN IF now <= since + T_ACQ THEN "acquired" ELSE "lost"
                 ELSE life
      /\ \/ ssc' = ssc
         \/ /\ ssc' = "starts" /\ phase = "vector" /\ bit = 22
            /\ vec = EXEC_VECTOR_SSC
      /\ \/ reg' = reg
         \/ /\ phase = "vector" /\ IS_WRITE(vec) /\ Cell(vec) \in Cells
            /\ vec[3] \in Vals /\ reg' = [reg EXCEPT ![Cell(vec)] = vec[3]]
         \/ /\ phase = "rest" /\ <<1, 80>> \in Cells
            /\ reg' = [reg EXCEPT ![<<1, 80>>] = 0]
      /\ rx' = IF phase = "nine" THEN Prefix(Opening, bit)
               ELSE IF phase = "rest"
               THEN IF bit = 13 THEN <<>> ELSE Prefix(Opening, 9 + bit)
               ELSE IF phase = "vector" /\ vec # ZERO_VECTOR
               THEN IF Inverted THEN rx
                    ELSE IF bit = 22 THEN <<>> ELSE Prefix(HeardOf(vec), bit)
               ELSE rx
  BY SecondEdgeChip
<1>3. phase = "vector" =>
        /\ bit \in 1..22 /\ bit' \in 1..22
        /\ (Inverts \/ Reads) <=> (~IS_WRITE(vec) /\ bit \in 12..20)
        /\ place' = "after" => ~IS_WRITE(vec) /\ bit \in 12..20 /\ bit' = bit
        /\ place' = "done" => bit = 22 /\ bit' = 22
        /\ place' \notin {"after", "done"} =>
             bit < 22 /\ bit' = bit + 1 /\ (IS_WRITE(vec) \/ bit \notin 12..20)
        /\ InVector
        /\ InVector' <=> place' # "done"
        /\ Inverted <=> ~IS_WRITE(vec) /\ bit \in 13..21
        /\ Edges = IF Inverted THEN bit ELSE bit - 1
        /\ place' # "done" => Edges' = bit
  BY SecondEdgeInVector
<1>4. bit \in 1..LastBit /\ LastBit \in {1, 9, 13, 22, 40} /\ LastBit' = LastBit
  BY <1>1 DEF WireInv, Types, LastBit
<1>5. bit' \in 1..LastBit'
  BY <1>1, <1>4
<1>6. FirstPlace \in {"data", "first"} /\ (kind # "wadsp" => FirstPlace = "first")
  BY DEF FirstPlace
<1>7. phase # "vector" => ~Inverts /\ ~Reads /\ ~Inverted /\ ~InVector'
  BY <1>1 DEF Inverts, Reads, Inverted, InVector
<1>8. Types'
  <2>1. reg' \in [Cells -> Vals]
    <3>1. reg \in [Cells -> Vals] /\ 0 \in Vals
      BY VectorAssumption DEF WireInv, Types
    <3> QED
      BY <1>2, <3>1
  <2>2. /\ life' \in {"off", "powered", "listens", "acquired", "lost"}
        /\ ssc' \in {"idle", "starts", "busy"}
    BY <1>2 DEF WireInv, Types
  <2>3. line_c' \in {0, 1}
          /\ place' \in {"xres", "data", "first", "second", "after", "done"}
    BY <1>1, <1>6
  <2> QED
    BY <1>1, <1>2, <1>5, <2>1, <2>2, <2>3 DEF WireInv, Types
<1>9. Control'
  <2>1. place' = "after" => (Inverts \/ Reads)'
    BY <1>1, <1>3, <1>6, <1>7 DEF Inverts, Reads
  <2>2. place' = "done" => bit' = LastBit'
    BY <1>1, <1>4, <1>6
  <2>3. place' = "data" => kind' = "wadsp"
    BY <1>1, <1>6
  <2>4. place' # "xres"
    BY <1>1, <1>6
  <2> QED
    BY <1>1, <2>1, <2>2, <2>3, <2>4 DEF WireInv, Control
<1>10. Clock'
  <2>1. CASE phase = "vector"
    <3>1. CASE place' = "after"
      <4>1. bit' = bit /\ bit \in 12..20 /\ ~IS_WRITE(vec)
        BY <1>3, <2>1, <3>1
      <4>2. Inverted <=> bit \in 13..20
        BY <1>3, <2>1, <4>1
      <4>3. Reads' <=> bit \in 13..20
        BY <1>1, <2>1, <4>1 DEF Reads
      <4> QED
        BY <1>1, <3>1, <4>2, <4>3 DEF Clock
    <3>2. CASE place' = "done"
      <4>1. ~Inverted
        BY <1>3, <2>1, <3>2
      <4> QED
        BY <1>1, <3>2, <4>1 DEF Clock
    <3>3. CASE place' \notin {"after", "done"}
      <4>1. /\ bit \in 1..21 /\ bit' = bit + 1
            /\ IS_WRITE(vec) \/ bit \notin 12..20
        BY <1>3, <2>1, <3>3
      <4>2. bit' \in 13..22 <=> bit \in 12..21
        BY <4>1
      <4>3. InRead' <=> ~IS_WRITE(vec)
        BY <1>1, <1>3, <2>1, <3>3 DEF InRead
      <4>4. Inverted <=> InRead' /\ bit' \in 13..22
        BY <1>3, <2>1, <4>1, <4>2, <4>3
      <4>5. place' \in {"data", "first"}
        BY <1>1, <1>6, <3>3
      <4> QED
        BY <1>1, <4>4, <4>5 DEF Clock
    <3> QED
      BY <3>1, <3>2, <3>3
  <2>2. CASE phase # "vector"
    <3>1. line_c' = 0 /\ place' \in {"data", "first", "done"}
      BY <1>1, <1>6, <1>7, <2>2
    <3>2. ~InRead' /\ ~Reads'
      BY <1>1, <1>7, <2>2 DEF InRead, Reads
    <3> QED
      BY <3>1, <3>2 DEF Clock
  <2> QED
    BY <2>1, <2>2
<1>11. Lines'
  <2>1. place' = "after" => Level' = Level
    BY <1>1, <1>6 DEF Level, Low
  <2>2. Low(Z)' = Low(Z)
    BY <1>1 DEF Low
  <2>3. /\ InRead /\ bit \in 12..21 => Level = Low(Z)
        /\ phase = "z" => Level = Low(Z)
        /\ phase = "vector" /\ bit = 22 /\ vec # ZERO_VECTOR => Level = 1
    BY <1>1, Levels
  <2>4. ASSUME InRead', bit' \in 13..21 PROVE line_d' = Low(Z)'
    <3>1. phase = "vector" /\ ~IS_WRITE(vec) /\ place' # "done" /\ InRead
      BY <1>1, <2>4 DEF InRead, InVector
    <3>2. bit \in 12..21
      <4>1. CASE place' = "after"
        BY <1>3, <3>1, <4>1
      <4>2. CASE place' # "after"
        <5>1. bit' = bit + 1 /\ bit \in 1..22
          BY <1>3, <3>1, <4>2
        <5> QED
          BY <2>4, <5>1
      <4> QED
        BY <4>1, <4>2
    <3> QED
      BY <1>1, <2>2, <2>3, <3>1, <3>2
  <2>5. phase' = "vector" /\ place' = "done" /\ vec' = EXEC_VECTOR_SSC
          => line_d' = 1
    <3>1. EXEC_VECTOR_SSC # ZERO_VECTOR
      BY DEF EXEC_VECTOR_SSC, ZERO_VECTOR, PROG_OP_WRITE_REG
    <3> QED
      BY <1>1, <1>3, <2>3, <3>1
  <2>6. place' # "second"
    BY <1>1, <1>6
  <2>7. ~(place' = "first" /\ kind' = "wadsp")
    BY <1>1, <1>6 DEF FirstPlace
  <2> QED
    BY <1>1, <2>1, <2>2, <2>3, <2>4, <2>5, <2>6, <2>7
       DEF WireInv, Lines, Sending, Polling, PoweringUp
<1>12. Life'
  <2>1. /\ phase = "nine" /\ place' = "done" => bit = 9
        /\ phase = "nine" /\ place' # "done" => bit # 9
    <3>1. phase = "nine" => LastBit = 9 /\ ~(Inverts \/ Reads)
      BY <1>7 DEF LastBit
    <3>2. bit < LastBit => bit # LastBit
      BY <1>4
    <3> QED
      BY <1>1, <1>6, <3>1, <3>2
  <2>2. life # "off" /\ life # "powered" /\ (phase = "nine" => life = "listens")
        /\ (phase # "nine" => life = "acquired")
    BY <1>1 DEF WireInv, Life, Sending, PoweringUp
  <2>3. place' # "xres"
    BY <1>1, <1>6
  <2> QED
    BY <1>1, <1>2, <2>1, <2>2, <2>3 DEF Life, PoweringUp, Polling, Sending
<1>13. Calls'
  <2>1. ssc # "idle" => phase = "z"
    BY <1>1 DEF WireInv, Calls, Sending, Polling
  <2>2. phase = "vector" /\ bit = 22 => place' = "done"
    BY <1>1, <1>3
  <2> QED
    BY <1>1, <1>2, <2>1, <2>2 DEF Calls, Polling, Sending
<1>14. Heard'
  <2>1. CASE phase = "nine"
    <3>1. rx' = Prefix(Opening, bit) /\ bit \in 1..9 /\ LastBit = 9
      BY <1>2, <1>4, <2>1 DEF LastBit
    <3>2. /\ place' = "done" => bit = 9
          /\ place' # "done" => bit' = bit + 1
      BY <1>1, <1>6, <1>7, <2>1, <3>1
    <3>3. place' # "done" => bit' - 1 = bit
      BY <3>1, <3>2
    <3>4. place' = "done" => rx' = Prefix(Opening, 9)
      BY <3>1, <3>2
    <3>5. place' # "done" => rx' = Prefix(Opening, bit' - 1)
      BY <3>1, <3>3
    <3> QED
      BY <1>1, <1>7, <2>1, <3>4, <3>5 DEF Heard, InVector, Polling, PoweringUp
  <2>2. CASE phase = "rest"
    <3>1. /\ rx' = (IF bit = 13 THEN <<>> ELSE Prefix(Opening, 9 + bit))
          /\ bit \in 1..13
          /\ LastBit = 13
      BY <1>2, <1>4, <2>2 DEF LastBit
    <3>2. /\ place' = "done" => bit = 13
          /\ place' # "done" => bit < 13 /\ bit' = bit + 1
      BY <1>1, <1>6, <1>7, <2>2, <3>1
    <3>3. place' # "done" => 8 + bit' = 9 + bit /\ bit # 13
      BY <3>1, <3>2
    <3>4. place' = "done" => rx' = <<>>
      BY <3>1, <3>2
    <3>5. place' # "done" => rx' = Prefix(Opening, 8 + bit')
      BY <3>1, <3>3
    <3> QED
      BY <1>1, <1>7, <2>2, <3>4, <3>5 DEF Heard, InVector, Polling, PoweringUp
  <2>3. CASE phase = "vector" /\ vec # ZERO_VECTOR
    <3>1. /\ place' = "done" => rx' = <<>>
          /\ place' # "done" => rx' = Prefix(HeardOf(vec), Edges')
      <4>1. ASSUME Inverted
            PROVE  place' # "done" /\ rx' = Prefix(HeardOf(vec), Edges')
        <5>1. rx = Prefix(HeardOf(vec), Edges) /\ Edges = bit
          BY <1>3, <2>3, <4>1 DEF WireInv, Heard
        <5>2. place' # "done"
          BY <1>3, <2>3, <4>1
        <5> QED
          BY <1>2, <1>3, <2>3, <4>1, <5>1, <5>2
      <4>2. ASSUME ~Inverted
            PROVE  rx' = IF bit = 22 THEN <<>> ELSE Prefix(HeardOf(vec), bit)
        BY <1>2, <2>3, <4>2
      <4>3. place' # "done" => bit # 22
        BY <1>3, <2>3
      <4> QED
        BY <1>3, <2>3, <4>1, <4>2, <4>3
    <3>2. phase' = "vector" /\ vec' = vec /\ HeardOf(vec)' = HeardOf(vec)
      BY <1>1, <2>3
    <3> QED
      BY <1>3, <2>3, <3>1, <3>2 DEF Heard, Polling, PoweringUp
  <2>4. CASE phase \in {"z", "drain"} \/ (phase = "vector" /\ vec = ZERO_VECTOR)
    <3>1. rx' = rx /\ rx = <<>>
      BY <1>1, <1>2, <2>4 DEF WireInv, Heard
    <3> QED
      BY <1>1, <2>4, <3>1 DEF Heard, InVector
  <2> QED
    BY <1>1, <2>1, <2>2, <2>3, <2>4 DEF Sending
<1>15. Drives'
  <2>1. life' # "powered" /\ life # "powered"
    BY <1>1, <1>2 DEF WireInv, Life, Sending, PoweringUp
  <2>2. ssc' = "busy" <=> ssc = "busy"
    <3>1. phase = "vector" => ssc = "idle"
      BY <1>1 DEF WireInv, Calls, Polling
    <3> QED
      BY <1>2, <3>1
  <2>3. CASE ssc = "busy"
    BY <1>2, <2>2, <2>3 DEF WireInv, Drives
  <2>4. CASE ssc # "busy" /\ ~InRead
    <3>1. ~InRead'
      BY <1>1, <1>3, <1>7, <2>4 DEF InRead
    <3> QED
      BY <1>2, <2>1, <2>2, <2>4, <3>1 DEF WireInv, Drives
  <2>5. CASE ssc # "busy" /\ InRead
    <3>1. phase = "vector" /\ ~IS_WRITE(vec)
      BY <2>5 DEF InRead, InVector
    <3>2. reg' = reg /\ vec' = vec
      BY <1>1, <1>2, <3>1
    <3>3. drive = IF Edges \in 13..20
                  THEN BitOf(reg[Cell(vec)], Edges - 12) ELSE Z
      BY <2>1, <2>5 DEF WireInv, Drives
    <3>4. CASE Inverted
      <4>1. InRead' /\ Edges' = Edges
        BY <1>1, <1>3, <3>1, <3>4 DEF InRead
      <4> QED
        BY <1>2, <2>1, <2>2, <2>5, <3>2, <3>3, <4>1 DEF Drives
    <3>5. CASE ~Inverted
      <4>1. bit \in 1..22 /\ bit \notin 13..21 /\ Edges = bit - 1
        BY <1>3, <3>1, <3>5
      <4>2. Edges \notin 13..20
        BY <4>1
      <4>3. ~(InRead' /\ Edges' \in 13..20)
        <5>1. InRead' => Edges' = bit
          BY <1>3, <3>1 DEF InRead
        <5>2. bit \notin 13..20
          BY <4>1
        <5> QED
          BY <5>1, <5>2
      <4> QED
        BY <1>2, <2>1, <2>2, <2>5, <3>3, <4>2, <4>3 DEF Drives
    <3> QED
      BY <3>4, <3>5
  <2> QED
    BY <2>3, <2>4, <2>5
<1>16. ValueRead'
  <2>1. ASSUME phase = "vector", ~IS_WRITE(vec) PROVE BitsRead' = BitsRead
    <3>1. /\ place' = "done" => bit = 22
          /\ place' = "after" => bit' = bit
          /\ place' \notin {"after", "done"}
              => bit' = bit + 1 /\ bit \notin 12..20
          /\ bit \in 1..22
      BY <1>3, <2>1
    <3>2. BitsRead = IF bit > 21 THEN 8 ELSE IF bit < 13 THEN 0 ELSE bit - 13
      BY <1>1 DEF BitsRead
    <3>3. CASE place' = "done"
      <4>1. BitsRead' = 8
        BY <3>3 DEF BitsRead
      <4> QED
        BY <3>1, <3>2, <3>3, <4>1
    <3>4. CASE place' = "after"
      <4>1. BitsRead' = IF bit' > 21 THEN 8
                        ELSE IF bit' < 13 THEN 0 ELSE bit' - 13
        BY <3>4 DEF BitsRead
      <4> QED
        BY <3>1, <3>2, <3>4, <4>1
    <3>5. CASE place' \notin {"after", "done"}
      <4>1. BitsRead' = IF bit' > 21 THEN 8
                        ELSE IF bit' < 13 THEN 0 ELSE bit' - 13
        BY <3>5 DEF BitsRead
      <4>2. bit \in 1..22 /\ bit' = bit + 1 /\ bit \notin 12..20
        BY <3>1, <3>5
      <4>3. CASE bit < 12
        BY <3>2, <4>1, <4>2, <4>3
      <4>4. CASE bit \in 21..22
        BY <3>2, <4>1, <4>2, <4>4
      <4> QED
        BY <4>2, <4>3, <4>4
    <3> QED
      BY <3>3, <3>4, <3>5
  <2>2. phase = "vector" /\ ~IS_WRITE(vec) => reg' = reg
    BY <1>2
  <2> QED
    BY <1>1, <2>1, <2>2 DEF WireInv, ValueRead
<1>17. Times'
  <2>1. now \in Nat /\ since \in Nat /\ t0 \in Nat /\ T_ACQ \in Nat
    BY IsspAssumption DEF WireInv, Types
  <2>2. t0 <= since /\ ~(now <= since + T_ACQ) => now - t0 > T_ACQ
    BY <2>1
  <2>3. phase = "nine" => life = "listens" /\ t0 <= since
    BY <1>1 DEF WireInv, Life, Times
  <2>4. life' = "off" => life = "off"
    BY <1>2
  <2>5. phase = "nine" /\ life' = "lost" => now - t0 > T_ACQ
    BY <1>2, <2>2, <2>3
  <2> QED
    BY <1>1, <1>2, <2>3, <2>4, <2>5
       DEF WireInv, Times, NoFalseTimeout, Polling, PoweringUp, Sending
<1>18. Result' /\ Expired'
  <2>1. got = {}
    BY <1>1 DEF WireInv, Result, Sending
  <2> QED
    BY <1>1, <2>1 DEF WireInv, Result, Expired
<1> QED
  BY <1>8, <1>9, <1>10, <1>11, <1>12, <1>13, <1>14, <1>15, <1>16, <1>17, <1>18
     DEF WireInv

\* After either of the steps that follow the second edge in a read, the next bit
\* begins and nothing but the bits read has changed.
LEMMA AfterKeeps ==
  ASSUME WireInv, phase = "vector", ~IS_WRITE(vec), place = "after",
         bit \in 12..20, bit' = bit + 1, place' = FirstPlace,
         line_c' = 1, line_d' = line_d, UNCHANGED target,
         UNCHANGED <<kind, power_on, phase, vec, sdata, now, t0, t0_new,
           timeout, got>>,
         value' \in Nat,
         value' = IF bit = 12 THEN value ELSE High(reg[Cell(vec)], bit - 12)
  PROVE  WireInv'
<1>1. UNCHANGED <<life, since, rx, drive, ssc, reg>>
  BY DEF target
<1>2. /\ place' \in {"data", "first"} /\ (kind # "wadsp" => place' = "first")
      /\ ~(place' = "first" /\ kind = "wadsp")
  BY DEF FirstPlace
<1>3. /\ bit' \in 13..21 /\ bit' \in 1..22 /\ bit' - 1 = bit
      /\ bit' - 13 = bit - 12
      /\ ~(bit' > 21) /\ ~(bit' < 13) /\ (bit' = 13 <=> bit = 12)
  OBVIOUS
<1>4. LastBit' = 22 /\ InVector /\ InRead /\ InVector' /\ InRead'
  BY <1>2 DEF LastBit, InVector, InRead
<1>5. Edges = bit /\ Edges' = bit
  BY <1>2, <1>3 DEF Edges
<1>6. Types'
  BY <1>1, <1>2, <1>3, <1>4 DEF WireInv, Types, Sending
<1>7. Control'
  BY <1>2 DEF WireInv, Control, Sending, Polling
<1>8. Clock'
  <2>1. bit' \in 13..22
    BY <1>3
  <2> QED
    BY <1>2, <1>4, <2>1 DEF Clock
<1>9. Lines'
  <2>1. line_d = Low(Z)
    <3>1. bit \in 12..21
      OBVIOUS
    <3>2. Level = Low(Z)
      BY <1>4, <3>1, Levels
    <3> QED
      BY <3>2 DEF WireInv, Lines
  <2>2. Low(Z)' = Low(Z)
    BY DEF Low
  <2> QED
    BY <1>2, <1>4, <2>1, <2>2 DEF WireInv, Lines, Polling, PoweringUp
<1>10. Life' /\ Calls'
  BY <1>1, <1>2 DEF WireInv, Life, Calls, Polling, PoweringUp
<1>11. Heard'
  <2>1. vec # ZERO_VECTOR
    BY DEF IS_WRITE, ZERO_VECTOR
  <2>2. rx = Prefix(HeardOf(vec), Edges)
    BY <1>4, <2>1 DEF WireInv, Heard
  <2>3. HeardOf(vec)' = HeardOf(vec)
    OBVIOUS
  <2> QED
    BY <1>1, <1>2, <1>5, <2>1, <2>2, <2>3 DEF Heard, Polling, PoweringUp
<1>12. Drives'
  BY <1>1, <1>4, <1>5 DEF WireInv, Drives
<1>13. ValueRead'
  <2>1. BitsRead' = bit - 12
    <3>1. BitsRead' = IF bit' > 21 THEN 8 ELSE IF bit' < 13 THEN 0 ELSE bit' - 13
      BY <1>2 DEF BitsRead
    <3> QED
      BY <1>3, <3>1
  <2>2. bit = 12 => BitsRead = 0 /\ bit - 12 = 0
    <3>1. bit = 12 => BitsRead = 0
      BY DEF BitsRead
    <3> QED
      BY <3>1
  <2>3. value' = High(reg[Cell(vec)], bit - 12)
    BY <2>2 DEF WireInv, ValueRead
  <2> QED
    BY <1>1, <2>1, <2>3 DEF ValueRead
<1>14. Times' /\ Result' /\ Expired'
  BY <1>1 DEF WireInv, Times, NoFalseTimeout, Result, Expired, Polling, PoweringUp
<1> QED
  BY <1>6, <1>7, <1>8, <1>9, <1>10, <1>11, <1>12, <1>13, <1>14 DEF WireInv

\* invert_phase: the extra edge is a rising one, which the chip ignores.
LEMMA InvertPhaseKeeps ==
  ASSUME WireInv, InvertPhase
  PROVE  WireInv'
<1>1. phase = "vector" /\ ~IS_WRITE(vec) /\ place = "after" /\ bit = 12
  BY DEF InvertPhase, Inverts
<1>2. LastBit = 22 /\ bit < LastBit
  <2>1. LastBit = 22
    BY <1>1 DEF LastBit
  <2> QED
    BY <1>1, <2>1
<1>3. bit' = bit + 1 /\ place' = FirstPlace
  BY <1>2 DEF InvertPhase, NextBit
<1>4. line_c' = 1 /\ line_d' = line_d /\ UNCHANGED target
  BY DEF InvertPhase, SetLine
<1>5. UNCHANGED <<kind, power_on, phase, vec, value, sdata, now, t0, t0_new,
        timeout, got>>
  BY DEF InvertPhase, Stay, time, bits
<1>6. value \in Nat
  BY DEF WireInv, Types
<1>7. bit \in 12..20
  BY <1>1
<1> QED
  BY <1>1, <1>3, <1>4, <1>5, <1>6, <1>7, AfterKeeps

\* What the program reads is the bit of the register that the chip drives.
LEMMA ReadBitKeeps ==
  ASSUME WireInv, ReadBit
  PROVE  WireInv'
<1>1. phase = "vector" /\ ~IS_WRITE(vec) /\ place = "after" /\ bit \in 13..20
  BY DEF ReadBit, Reads
<1>2. /\ LastBit = 22 /\ bit < LastBit /\ bit # 12 /\ bit \in 12..20 /\ bit < 21
      /\ ~(bit > 21) /\ ~(bit < 13) /\ bit - 13 \in 0..7
      /\ (bit - 13) + 1 = bit - 12
  <2>1. LastBit = 22
    BY <1>1 DEF LastBit
  <2> QED
    BY <1>1, <2>1
<1>3. bit' = bit + 1 /\ place' = FirstPlace
  BY <1>2 DEF ReadBit, NextBit
<1>4. /\ UNCHANGED target /\ line_c' = line_c /\ line_d' = line_d
      /\ UNCHANGED <<kind, power_on, phase, vec, sdata, now, t0, t0_new,
          timeout, got>>
      /\ value' = value + Weight[bit - 12] * SDATA_IN
  BY DEF ReadBit, Stay, time, bits, line
<1>5. line_c = 1
  BY <1>1 DEF WireInv, Clock, Reads
<1>6. InRead /\ Cell(vec) \in Cells /\ reg[Cell(vec)] \in 0..255
  <2>1. InRead /\ vec \in Vectors /\ vec # ZERO_VECTOR
    BY <1>1 DEF WireInv, Control, InRead, InVector, IS_WRITE, ZERO_VECTOR
  <2>2. Cell(vec) \in Cells
    BY <2>1, VectorAssumption DEF InRead
  <2> QED
    BY <2>1, <2>2, VectorAssumption DEF WireInv, Types
<1>7. SDATA_IN = BitOf(reg[Cell(vec)], bit - 12)
  <2>1. Edges = bit
    BY <1>1 DEF Edges
  <2>2. life = "acquired" /\ ssc = "idle"
    BY <1>1 DEF WireInv, Life, Calls, Polling
  <2>3. drive = BitOf(reg[Cell(vec)], bit - 12)
    BY <1>1, <1>6, <2>1, <2>2 DEF WireInv, Drives
  <2>4. bit - 12 \in 1..8
    BY <1>1
  <2>5. BitOf(reg[Cell(vec)], bit - 12) \in {0, 1}
    BY <1>6, <2>4, BitsOfByte
  <2> QED
    BY <2>3, <2>5 DEF SDATA_IN, Z
<1>8. value = High(reg[Cell(vec)], bit - 13)
  <2>1. BitsRead = bit - 13
    BY <1>1, <1>2 DEF BitsRead
  <2> QED
    BY <1>1, <2>1 DEF WireInv, ValueRead
<1>9. value' = High(reg[Cell(vec)], bit - 12)
  <2> DEFINE n == reg[Cell(vec)]
             m == bit - 13
  <2>1. High(n, m) + Weight[m + 1] * BitOf(n, m + 1) = High(n, m + 1)
    BY <1>2, <1>6, HighBits
  <2>2. m + 1 = bit - 12
    BY <1>2
  <2> HIDE DEF n, m
  <2>3. value' = value + Weight[m + 1] * BitOf(n, m + 1) /\ value = High(n, m)
    BY <1>4, <1>7, <1>8, <2>2 DEF n, m
  <2>4. value' = High(n, m + 1)
    BY <2>1, <2>3
  <2> QED
    BY <2>2, <2>4 DEF n
<1>10. value' \in Nat
  <2>1. value \in Nat /\ SDATA_IN \in {0, 1} /\ Weight[bit - 12] \in Nat
    <3>1. bit - 12 \in 1..8
      BY <1>1
    <3>2. Weight[bit - 12] \in Nat
      BY <3>1 DEF Weight
    <3> QED
      BY <1>6, <1>7, <3>1, <3>2, BitsOfByte DEF WireInv, Types
  <2> QED
    BY <1>4, <2>1
<1> QED
  BY <1>1, <1>2, <1>3, <1>4, <1>5, <1>9, <1>10, AfterKeeps

\* What the programmer and the chip begin with.
LEMMA FirstWire ==
  ASSUME WireInit
  PROVE  WireInv
<1>1. kind \in {"wadsp", "watpp", "ppporissp"}
  BY IsspAssumption DEF WireInit
<1>2. Types
  <2>1. reg \in [Cells -> Vals]
    BY VectorAssumption DEF WireInit
  <2>2. bit \in 1..LastBit
    BY DEF WireInit, LastBit
  <2>3. line_d \in {0, 1, 2} /\ line_c \in {0, 1}
    BY DEF WireInit, Low, Z
  <2>4. power_on \in BOOLEAN
    BY DEF WireInit
  <2> QED
    BY <1>1, <2>1, <2>2, <2>3, <2>4 DEF WireInit, Types, Phases, Z, Unknown
<1>3. Control
  BY DEF WireInit, Control, Sending, Polling, PoweringUp
<1>4. Clock /\ Lines
  BY DEF WireInit, Clock, Lines, InRead, InVector, Polling, PoweringUp, Sending
<1>5. Life /\ Calls
  BY DEF WireInit, Life, Calls, Polling, PoweringUp
<1>6. Heard /\ Drives /\ ValueRead
  BY DEF WireInit, Heard, Drives, ValueRead, InRead, InVector, Polling, PoweringUp
<1>7. Times
  BY DEF WireInit, Times, NoFalseTimeout, Polling, PoweringUp
<1>8. Result /\ Expired
  BY DEF WireInit, Result, Expired
<1> QED
  BY <1>2, <1>3, <1>4, <1>5, <1>6, <1>7, <1>8 DEF WireInv

-----------------------------------------------------------------------------
(* The theorems about the wire *)

\* Every step of program and chip keeps the invariant.
LEMMA WireStep ==
  ASSUME ~Delays, WireInv, [WireNext]_wireVars
  PROVE  WireInv'
<1>1. CASE EndReset
  BY <1>1, EndResetKeeps
<1>2. CASE SetData
  BY <1>2, SetDataKeeps
<1>3. CASE FirstEdge
  BY <1>3, FirstEdgeKeeps
<1>4. CASE SecondEdge
  BY <1>4, SecondEdgeKeeps
<1>5. CASE InvertPhase
  BY <1>5, InvertPhaseKeeps
<1>6. CASE ReadBit
  BY <1>6, ReadBitKeeps
<1>7. CASE Call
  BY <1>7, CallKeeps
<1>8. CASE VectorSent
  BY <1>8, VectorSentKeeps
<1>9. CASE Tick
  BY <1>9, TickKeeps
<1>10. CASE LetGo
  BY <1>10, LetGoKeeps
<1>11. CASE SSC
  BY <1>11, SSCKeeps
<1>12. CASE StartWait
  BY <1>12, StartWaitKeeps
<1>13. CASE ReadRise
  BY <1>13, ReadRiseKeeps
<1>14. CASE TimeRise
  BY <1>14, TimeRiseKeeps
<1>15. CASE TimeFall
  BY <1>15, TimeFallKeeps
<1>16. CASE ReadFall
  BY <1>16, ReadFallKeeps
<1>17. CASE Drained
  BY <1>17, DrainedKeeps
<1>18. CASE Initialize
  BY <1>18, InitializeKeeps
<1>19. CASE TimeWait
  BY <1>19, TimeWaitKeeps
<1>20. CASE NewT0
  BY <1>20, NewT0Keeps
<1>21. CASE ReadWait
  BY <1>21, ReadWaitKeeps
<1>22. CASE Deadline
  BY <1>22, DeadlineKeeps
<1>23. ASSUME UNCHANGED wireVars PROVE WireInv'
  <2>1. /\ UNCHANGED <<kind, power_on, phase, bit, place, vec, value, sdata>>
        /\ UNCHANGED <<now, t0, t0_new, timeout, line_d, line_c>>
        /\ UNCHANGED <<life, since, rx, drive, ssc, reg, got>>
    BY <1>23 DEF wireVars, sender, bits, time, line, target
  <2>2. Types' /\ Control' /\ Clock' /\ Lines'
    BY <2>1 DEF WireInv, Types, LastBit, Control, Inverts, Reads, Clock, InRead,
                InVector, Inverted, Lines, Level, Low
  <2>3. Life' /\ Calls' /\ Heard' /\ Drives' /\ ValueRead'
    BY <2>1 DEF WireInv, Life, Calls, Heard, Drives, Edges, Inverted, InRead,
                InVector, ValueRead, BitsRead
  <2>4. Times' /\ Result' /\ Expired'
    BY <2>1 DEF WireInv, Times, NoFalseTimeout, Result, Expired
  <2> QED
    BY <2>2, <2>3, <2>4 DEF WireInv
<1> QED
  BY <1>1, <1>2, <1>3, <1>4, <1>5, <1>6, <1>7, <1>8, <1>9, <1>10, <1>11, <1>12,
     <1>13, <1>14, <1>15, <1>16, <1>17, <1>18, <1>19, <1>20, <1>21, <1>22, <1>23
     DEF WireNext, Exited

\* What goes on between bits, edges, polls and the chip, step by step.
THEOREM WireInvariance ==
  ASSUME ~Delays
  PROVE  WireSpec => []WireInv
<1>1. WireInit => WireInv
  BY FirstWire
<1>2. WireInv /\ [WireNext]_wireVars => WireInv'
  BY WireStep
<1> QED
  BY <1>1, <1>2, PTL DEF WireSpec

\* Program and chip never drive SDATA against each other: the program lets go
\* of it one bit before the chip takes it, and the chip one bit before the
\* program does (vec_vector, prog_vector.c:104-136; wait_and_poll, 66-101).
THEOREM Turnarounds ==
  ASSUME ~Delays
  PROVE  WireSpec => []NoContention
<1>1. WireInv => NoContention
  <2> SUFFICES ASSUME WireInv PROVE NoContention
    OBVIOUS
  <2>1. kind \in {"wadsp", "watpp", "ppporissp"} /\ line_d \in {0, 1, 2}
    BY DEF WireInv, Types
  <2>2. CASE life = "powered" \/ ssc = "busy"
    <3>1. drive = 1
      BY <2>2 DEF WireInv, Drives
    <3>2. kind = "watpp" => line_d \in {1, 2}
      <4>1. life = "powered" /\ kind = "watpp" => line_d = Low(Z)
        BY DEF WireInv, Life, Lines, PoweringUp
      <4>2. ssc = "busy" /\ kind = "watpp" => line_d \in {1, Low(Z)}
        BY DEF WireInv, Calls, Lines, Polling
      <4> QED
        BY <2>2, <4>1, <4>2 DEF Low, Z
    <3> QED
      BY <3>1, <3>2 DEF NoContention
  <2>3. CASE ~(life = "powered" \/ ssc = "busy")
    <3>1. CASE InRead /\ Edges \in 13..20
      <4>1. line_d = Low(Z)
        <5>1. phase = "vector" /\ ~IS_WRITE(vec) /\ bit \in 1..22
          BY <3>1 DEF WireInv, Types, InRead, InVector, LastBit
        <5>2. CASE bit \in 13..21
          BY <3>1, <5>2 DEF WireInv, Lines
        <5>3. CASE bit \notin 13..21
          <6>1. ~Inverted /\ bit - 1 \notin 13..20
            BY <5>1, <5>3 DEF Inverted
          <6>2. place = "after"
            BY <3>1, <6>1 DEF Edges
          <6>3. bit = 12
            BY <5>1, <5>3, <6>2 DEF WireInv, Control, Inverts, Reads
          <6>4. Edges = 12
            BY <6>2, <6>3 DEF Edges
          <6> QED
            BY <3>1, <6>4
        <5> QED
          BY <5>2, <5>3
      <4> QED
        BY <2>1, <4>1 DEF NoContention, Low, Z
    <3>2. CASE ~(InRead /\ Edges \in 13..20)
      BY <2>3, <3>2 DEF WireInv, Drives, NoContention, Z
    <3> QED
      BY <3>1, <3>2
  <2> QED
    BY <2>2, <2>3
<1> QED
  BY <1>1, WireInvariance, PTL

\* The program gives up only on a chip that has not answered in time, and goes
\* on only with one that has got its first bits in time (wait_and_poll,
\* prog_vector.c:66-101; do_prog_acquire, 187-246).
THEOREM TimeoutsMean ==
  ASSUME ~Delays
  PROVE  WireSpec => []TimeoutsRight
<1>1. WireInv => TimeoutsRight
  BY DEF WireInv, Times, Life, TimeoutsRight, AcquiredInTime
<1> QED
  BY <1>1, WireInvariance, PTL

\* A call starts with the contents of the registers, and ends with what it has
\* read of them; only a step of the second edge changes one, as a vector says.
LEMMA WireSteps ==
  ASSUME WireInv, WireInv', WireNext
  PROVE  \/ \E r \in Cells : Registers!Read(r)
         \/ \E r \in Cells, v \in Vals : Registers!Write(r, v)
         \/ Registers!Other
         \/ UNCHANGED <<reg, got>>
<1>1. CASE SecondEdge
  <2>1. got' = {}
    <3>1. phase' = phase /\ phase \in Sending
      BY <1>1, SecondEdgeSteps
    <3> QED
      BY <3>1 DEF WireInv, Result, Sending
  <2>2. CASE reg' = reg
    BY <2>1, <2>2 DEF Registers!Other
  <2>3. CASE reg' # reg
    <3>1. \E r \in Cells, v \in Vals : reg' = [reg EXCEPT ![r] = v]
      BY <1>1, <2>3, SecondEdgeChip, VectorAssumption
    <3> QED
      BY <2>1, <3>1 DEF Registers!Write
  <2> QED
    BY <2>2, <2>3
<1>2. CASE FirstEdge
  <2>1. place = "first" /\ phase \in Sending /\ phase' = phase
    BY <1>2 DEF WireInv, Control, FirstEdge, Stay
  <2>2. got' = {}
    BY <2>1 DEF WireInv, Result, Sending
  <2>3. CASE Inverted
    BY <1>2, <2>2, <2>3, FirstEdgeChip DEF Registers!Other
  <2>4. CASE ~Inverted
    BY <1>2, <2>2, <2>4 DEF FirstEdge, SetLine, target, Registers!Other
  <2> QED
    BY <2>3, <2>4
<1>3. CASE Call
  BY <1>3 DEF Call, target, Registers!Other
<1>4. CASE VectorSent
  <2>1. phase = "vector" /\ reg' = reg /\ vec' = vec
    BY <1>4 DEF VectorSent, target
  <2>2. CASE IS_WRITE(vec)
    BY <1>4, <2>1, <2>2 DEF VectorSent, Registers!Other
  <2>3. CASE ~IS_WRITE(vec)
    <3>1. Cell(vec) \in Cells
      <4>1. vec \in Vectors /\ vec # ZERO_VECTOR
        BY <2>1, <2>3 DEF WireInv, Control, IS_WRITE, ZERO_VECTOR
      <4> QED
        BY <2>3, <4>1, VectorAssumption
    <3>2. got' = {<<Cell(vec), value>>}
      BY <1>4, <2>3 DEF VectorSent
    <3>3. got' = {<<Cell(vec), reg[Cell(vec)]>>}
      BY <2>1, <3>2 DEF WireInv, Result
    <3> QED
      BY <2>1, <3>1, <3>3 DEF Registers!Read
  <2> QED
    BY <2>2, <2>3
<1>5. CASE \/ EndReset \/ SetData \/ InvertPhase \/ ReadBit \/ Tick
             \/ LetGo \/ SSC
           \/ StartWait \/ ReadRise \/ TimeRise \/ TimeFall \/ ReadFall \/ Drained
           \/ Initialize \/ TimeWait \/ NewT0 \/ ReadWait \/ Deadline \/ Exited
  <2>1. CASE EndReset \/ SetData \/ InvertPhase \/ ReadBit \/ Tick \/ LetGo \/ SSC
    BY <2>1 DEF EndReset, SetData, InvertPhase, ReadBit, Tick, LetGo, SSC, Stay,
                SetLine, target
  <2>2. CASE \/ StartWait \/ ReadRise \/ TimeRise \/ TimeFall \/ ReadFall
               \/ Drained
             \/ Initialize \/ TimeWait \/ NewT0 \/ ReadWait \/ Deadline \/ Exited
    BY <2>2 DEF StartWait, ReadRise, TimeRise, TimeFall, ReadFall, Drained,
                Initialize, TimeWait, NewT0, ReadWait, Deadline, Exited, Looks,
                target, wireVars
  <2> QED
    BY <1>5, <2>1, <2>2
<1> QED
  BY <1>1, <1>2, <1>3, <1>4, <1>5 DEF WireNext

\* Bits, phases and polling add up to registers: what a vector writes is what a
\* later one reads, and no other is disturbed (do_prog_vectors,
\* prog_vector.c:139-154; vec_vector, 104-136).
THEOREM WireIsRegisterFile ==
  ASSUME ~Delays
  PROVE  WireSpec => VectorsArrive
<1>1. WireInit => Registers!Init
  <2> SUFFICES ASSUME WireInit PROVE Registers!Init
    OBVIOUS
  <2>1. reg \in [Cells -> Vals] /\ got = {}
    BY VectorAssumption DEF WireInit
  <2> QED
    BY <2>1 DEF Registers!Init
<1>2. WireInv /\ WireInv' /\ [WireNext]_wireVars => [Registers!Next]_<<reg, got>>
  <2> SUFFICES ASSUME WireInv, WireInv', [WireNext]_wireVars
               PROVE  [Registers!Next]_<<reg, got>>
    OBVIOUS
  <2>1. CASE WireNext
    BY <2>1, WireSteps DEF Registers!Next
  <2>2. CASE UNCHANGED wireVars
    BY <2>2 DEF wireVars, target
  <2> QED
    BY <2>1, <2>2
<1> QED
  BY <1>1, <1>2, WireInvariance, PTL DEF WireSpec, VectorsArrive, Registers!Spec
=============================================================================
