----------------------------- MODULE PortCommit -----------------------------
(***************************************************************************)
(* The boundary scanner's access to the ports, bscan/port.c with           *)
(* shared/dm.c: every pin has three drive mode bits and a data bit, in     *)
(* four registers of its port, and commit takes all the pins to their new  *)
(* values with one register write after the other.  The chip drives the    *)
(* pins all the while.                                                     *)
(*                                                                         *)
(* A register's content is the set of the pins whose bit is 1.             *)
(***************************************************************************)
EXTENDS Naturals, FiniteSets

CONSTANTS
  NPorts,   \* 8 in the code
  Pins,
  Port      \* the port of each pin

ASSUME PortAssumption ==
  /\ NPorts \in Nat \ {0}
  /\ Port \in [Pins -> 1..NPorts]

Values == {"Z", "0R", "1R", "0", "1"}
Strong == {"0", "1"}
Regs == {"dm0", "dm1", "dm2", "dr"}
Bits == [Regs -> SUBSET Pins]

VARIABLES
  want,      \* of port.c: dm0, dm1, dm2 and dr
  cached,    \* of port.c: cached_dm0, cached_dm1, cached_dm2, cached_dr
  chip,      \* external: the registers of the chip
  at,        \* the writes commit has come past, 6 for each port
  from       \* history: the chip's registers when commit began

portVars == <<want, cached, chip, at, from>>
-----------------------------------------------------------------------------
\* What a pin drives, by its bits in dm2, dm1, dm0 and dr.
dm_value == <<"0R", "1", "0", "1", "Z", "Z", "0", "1R",
              "Z", "1", "0", "1", "Z", "Z", "0", "Z">>

decode_value(s, p) ==
  LET bit(r, weight) == IF p \in s[r] THEN weight ELSE 0
  IN dm_value[bit("dm2", 8) + bit("dm1", 4) + bit("dm0", 2) + bit("dr", 1) + 1]

\* The registers for a value of each pin of vals; Z leaves the data bit.
set_value(s, vals) ==
  LET set(r, ones) == (s[r] \ DOMAIN vals) \cup
                      {p \in DOMAIN vals : vals[p] \in ones}
  IN [dm0 |-> set("dm0", {"1R", "0", "1"}),
      dm1 |-> set("dm1", {"Z", "1R"}),
      dm2 |-> set("dm2", {}),
      dr |-> set("dr", {"1R", "1"}) \cup
             {p \in DOMAIN vals \cap s.dr : vals[p] = "Z"}]

\* init_ports: what the chip has after reset, each pin in analog high-Z.
Reset == [dm0 |-> {}, dm1 |-> Pins, dm2 |-> Pins, dr |-> {}]
-----------------------------------------------------------------------------
(* commit *)

\* Mistakes: the data bits are written before the modes; dm2 is forgotten.
Pass1_data_first == <<"dr", "dm1", "dm0">>
Pass2_two_bits == <<"dm0", "dm1", "dm1">>

Pass1 == <<"dm1", "dm0", "dr">>
Pass2 == <<"dm0", "dm1", "dm2">>

\* After its first pass over the ports commit has added dm1, taken away
\* dm0 and set dr.
Between(c, w) == [dm1 |-> c.dm1 \cup w.dm1, dm0 |-> c.dm0 \cap w.dm0,
                  dr |-> w.dr, dm2 |-> c.dm2]

\* A port of which no pin is defined is passed over, and change writes a
\* register only if cached and new contents differ.
change(used, port, r, new) ==
  LET byte == {p \in Pins : Port[p] = port} IN
  IF used \cap byte # {} /\ cached[r] \cap byte # new[r] \cap byte
  THEN chip' = [chip EXCEPT ![r] = (@ \ byte) \cup (new[r] \cap byte)]
  ELSE UNCHANGED chip

commit(w) ==
  /\ want' = w
  /\ at' = 0
  /\ from' = chip
  /\ UNCHANGED <<cached, chip>>

Committing == at < 6 * NPorts

\* The next write of commit.
commit_write(used) ==
  LET first == at < 3 * NPorts
      k == IF first THEN at ELSE at - 3 * NPorts
      port == (k \div 3) + 1
      r == (IF first THEN Pass1 ELSE Pass2)[(k % 3) + 1]
      new == IF first THEN Between(cached, want) ELSE want
  IN /\ Committing
     /\ change(used, port, r, new)
     /\ at' = at + 1
     /\ cached' = IF k + 1 = 3 * NPorts THEN new ELSE cached
     /\ UNCHANGED <<want, from>>

PortInit ==
  /\ want = Reset
  /\ cached = Reset
  /\ chip = Reset
  /\ from = Reset
  /\ at = 6 * NPorts
-----------------------------------------------------------------------------
(* Properties *)

\* On the way from one value to another a pin drives a strong 0 or 1 only
\* if that is what it starts or ends with (the comment on commit promises
\* it), although mode and data bits change one register at a time.
NoStrongOnTheWay ==
  Committing => \A p \in Pins :
    LET v == decode_value(chip, p) IN
    v \in Strong => v \in {decode_value(from, p), decode_value(want, p)}

\* The cached registers are the chip's whenever no commit is under way, so
\* no write that is needed has been left out.
ChipAsCached == ~Committing => chip = cached
=============================================================================
