----------------------------- MODULE ProgSession -----------------------------
(***************************************************************************)
(* One run of m8cprog: the order in which main (prog/m8cprog.c) calls the  *)
(* programming operations, and the operations themselves as prog_ops.c     *)
(* builds them from the ISSP primitives, one block of Flash at a time.     *)
(*                                                                         *)
(* The chip is external.  It has Banks * Blocks blocks of Flash, each with *)
(* a protection mode, and a bank register.  Faults lists what it may do    *)
(* wrong besides; and the session may die between any two steps, when the  *)
(* driver gives up or the user stops it.                                   *)
(*                                                                         *)
(* Block numbers count through the banks.  A block's content is a number,  *)
(* 0 for a block of zeros, and stands for the sum of its bytes.            *)
(***************************************************************************)
EXTENDS Integers, FiniteSets, Sequences

CONSTANTS
  Banks,       \* chip->banks
  Blocks,      \* chip->blocks, the blocks of one bank
  Data,        \* what a block can hold
  Wrap,        \* 2^16: checksums are uint16_t
  Programs,    \* the files: functions from 0 .. n - 1 to Data
  Securities,  \* the protection data supplied: functions to Modes
  Flashes,     \* <<flash, protection>> the chip starts with
  Options,     \* command lines, see OptionNames
  Faults       \* what the chip does wrong

Total == Banks * Blocks
Modes == 0 .. 3              \* U, F, R, W
\* The letters of m8cprog; ss is -s given twice.
OptionNames == {"w", "c", "r", "e", "s", "ss", "z", "voltage"}
FaultNames == {"id", "erase", "program", "verify", "secure", "silent"}
Size(g) == Cardinality(DOMAIN g)
Nothing == [b \in {} |-> 0]

ProgAssumption ==
  /\ Banks \in Nat \ {0} /\ Blocks \in Nat \ {0}
  /\ Data \subseteq Nat /\ 0 \in Data /\ Wrap \in Nat \ {0}
  /\ \A p \in Programs \cup Securities :
       IsFiniteSet(DOMAIN p) /\ DOMAIN p = 0 .. Size(p) - 1
  /\ \A p \in Programs : p \in [DOMAIN p -> Data]
  /\ \A p \in Securities : p \in [DOMAIN p -> Modes] /\ Size(p) <= Total
  /\ Flashes \subseteq [0 .. Total - 1 -> Data] \X [0 .. Total - 1 -> Modes]
  /\ Options \subseteq SUBSET OptionNames
  /\ \A o \in Options : "ss" \in o => "s" \in o
  /\ Faults \subseteq FaultNames

VARIABLES
  opts,       \* the options given
  file,       \* history: the program read from the file
  supplied,   \* history: the protection data after check_security
  program,    \* the buffers of shared/file.c
  security,
  phase,      \* the operation main is in
  i,          \* the block or the bank its loop is at
  current_bank, \* what ops_write_program takes the bank register to hold
  skipped,    \* blocks left out of the comparison
  outcome,    \* "running", "done", or why the session ended
  flash,      \* the chip: Flash,
  prot,       \*   protection of the blocks,
  bank        \*   bank register

host == <<program, security, current_bank, skipped>>
chip == <<flash, prot, bank>>
given == <<opts, file, supplied>>
vars == <<given, host, phase, i, outcome, chip>>

Opt(o) == o \in opts

\* The checksum, over the blocks in turn.
Sum(g) ==
  LET upTo[n \in 0 .. Size(g)] ==
        IF n = 0 THEN 0 ELSE (upTo[n - 1] + g[n - 1]) % Wrap
  IN  upTo[Size(g)]

-----------------------------------------------------------------------------
(* Moving on *)

\* Mistake: the protection is written before the program.
ProtectFirst == <<"erase", "protect", "write", "readsec", "read", "compare",
                  "checksec", "dump", "save">>

Order == <<"erase", "write", "readsec", "read", "compare",
           "protect", "checksec", "dump", "save">>

\* The condition under which main calls an operation.
Called(p) ==
  \/ p = "erase"    /\ (Opt("w") \/ Opt("e"))
  \/ p = "write"    /\ Opt("w")
  \/ p = "readsec"  /\ Opt("s") /\ ~Opt("w") /\ ~Opt("e")
  \/ p = "read"     /\ Opt("r")
  \/ p = "compare"  /\ Opt("c")
  \/ p = "protect"  /\ Opt("w")
  \/ p = "checksec" /\ Opt("s") /\ (Opt("w") \/ Opt("e"))
  \/ p = "dump"     /\ Opt("ss")
  \/ p = "save"

\* The first operation that main calls behind place k of the order.
Behind(k) ==
  LET Calls(j) == k < j /\ Called(Order[j])
  IN  Order[CHOOSE j \in DOMAIN Order :
              Calls(j) /\ \A l \in DOMAIN Order : Calls(l) => j <= l]

Place(p) == CHOOSE k \in DOMAIN Order : Order[k] = p

\* The operation is through, main goes on with the next one.
Finish ==
  /\ phase' = Behind(Place(phase))
  /\ i' = 0
  /\ UNCHANGED outcome

\* exit(1): nothing is undone, nothing is closed.
Exit(why) ==
  /\ outcome' = why
  /\ UNCHANGED <<phase, i>>

\* The loop of an operation goes on with the next block or bank.
Loop ==
  /\ i' = i + 1
  /\ UNCHANGED <<phase, outcome>>

In(p) == outcome = "running" /\ phase = p

-----------------------------------------------------------------------------
(* The chip *)

\* set_bank_num, which is only called for chips that have banks.
SelectBank(b) == IF Banks > 1 THEN b ELSE bank

\* The block of Flash that block number b means in bank k.
At(k, b) == k * Blocks + (b % Blocks)

Fault(x) == x \in Faults

\* SSC EraseAll.
Erase ==
  \/ /\ flash' = [b \in DOMAIN flash |-> 0]
     /\ prot' = [b \in DOMAIN prot |-> 0]
     /\ UNCHANGED bank
  \/ Fault("erase") /\ UNCHANGED chip

\* SSC WriteBlock.  It refuses a protected block; nobody asks whether it did.
ProgramBlock(k, b, value) ==
  /\ bank' = k
  /\ UNCHANGED prot
  /\ IF prot[At(k, b)] > 1
     THEN UNCHANGED flash
     ELSE \E v \in IF Fault("program") THEN Data ELSE {value} :
            flash' = [flash EXCEPT ![At(k, b)] = v]

\* SSC ReadBlock has a return code other than 0 for a protected block.
Readable(k, b) == prot[At(k, b)] = 0

\* Every bank is selected in turn and its checksum added.
checksum_ok == Sum(flash) = Sum(program)

-----------------------------------------------------------------------------
(* The operations *)

\* Blocks the security data is too short for are unprotected.
block_protection(b) == IF b \in DOMAIN security THEN security[b] ELSE 0

use_security == Opt("w") \/ Opt("e") \/ Opt("s")
zero == Opt("z") \/ Opt("s")

\* Protection data that is not all zero is padded to the whole Flash, with R
\* if any block is protected by R or W.
check_security(sec) ==
  LET strong == \E b \in DOMAIN sec : sec[b] > 1
      pad == IF strong THEN 2 ELSE 0
  IN  IF \A b \in DOMAIN sec : sec[b] = 0
      THEN sec
      ELSE [b \in 0 .. Total - 1 |-> IF b \in DOMAIN sec THEN sec[b] ELSE pad]

\* main refuses to read and to write at once.
Misused == {"r", "w"} \subseteq opts

\* ops_initialize: nothing is written with an unknown voltage.
NoVoltage == (Opt("w") \/ Opt("e")) /\ ~Opt("voltage")

\* ops_identify: the chip was not named and its ID is not known.  A known ID
\* that is not the named chip's only leads to a warning.
Unidentified == Fault("id")

TooBig == (Opt("w") \/ Opt("c")) /\ Size(program) > Total

\* Everything main does before it touches the Flash.
Start ==
  /\ In("start")
  /\ UNCHANGED <<opts, file, program, current_bank, skipped, chip>>
  /\ \/ /\ Misused \/ NoVoltage \/ Unidentified \/ TooBig
        /\ Exit("refused")
        /\ UNCHANGED <<security, supplied>>
     \/ /\ ~Misused /\ ~NoVoltage /\ ~TooBig
        /\ security' = IF Opt("w") THEN check_security(security) ELSE security
        /\ supplied' = IF Opt("w") THEN security' ELSE Nothing
        /\ phase' = Behind(0)
        /\ UNCHANGED <<i, outcome>>

ops_erase_all ==
  /\ In("erase")
  /\ Erase
  /\ Finish
  /\ UNCHANGED <<given, host>>

\* Mistake: the checksum is not looked at.
WriteUnchecked ==
  /\ In("write") /\ i = Size(program)
  /\ Finish
  /\ UNCHANGED <<given, host, chip>>

\* Blocks of zeros are left as the erase left them.
WriteBlock ==
  /\ In("write") /\ i \in DOMAIN program
  /\ UNCHANGED <<given, program, security, skipped>>
  /\ Loop
  /\ LET wanted == i \div Blocks
         k == IF Banks > 1 /\ wanted # current_bank THEN wanted ELSE bank
     IN  IF program[i] = 0
         THEN UNCHANGED <<current_bank, chip>>
         ELSE /\ ProgramBlock(k, i, program[i])
              /\ current_bank' = IF Banks > 1 THEN wanted ELSE current_bank

WriteEnd ==
  /\ In("write") /\ i = Size(program)
  /\ bank' = SelectBank(Banks - 1)
  /\ IF checksum_ok THEN Finish ELSE Exit("checksum")
  /\ UNCHANGED <<given, host, flash, prot>>

ops_read_security ==
  /\ In("readsec")
  /\ security' = prot
  /\ bank' = SelectBank(Banks - 1)
  /\ Finish
  /\ UNCHANGED <<given, program, current_bank, skipped, flash, prot>>

\* Mistake: the bank is not selected.
BankLeft(b) == bank

\* The bank register when block b is read, and whether the host can read it.
BankFor(b) == IF b % Blocks = 0 THEN SelectBank(b \div Blocks) ELSE bank

MayRead(b) ==
  /\ use_security => block_protection(b) = 0
  /\ Readable(BankFor(b), b)

\* Return codes 2 and 3.
ReadFails ==
  /\ Fault("verify")
  /\ \/ In("read") /\ i < Blocks
     \/ In("compare") /\ i \in DOMAIN program
  /\ Exit("read error")
  /\ UNCHANGED <<given, host, chip>>

ReadBlock ==
  /\ In("read") /\ i < Blocks
  /\ bank' = BankFor(i)
  /\ UNCHANGED <<given, security, current_bank, skipped, flash, prot>>
  /\ IF ~MayRead(i) /\ ~zero
     THEN Exit("protected") /\ UNCHANGED program
     ELSE /\ LET value == IF MayRead(i) THEN flash[At(BankFor(i), i)] ELSE 0
             IN  program' = [b \in DOMAIN program \cup {i} |->
                               IF b = i THEN value ELSE program[b]]
          /\ Loop

ReadEnd ==
  /\ In("read") /\ i = Blocks
  /\ Finish
  /\ UNCHANGED <<given, host, chip>>

CompareBlock ==
  /\ In("compare") /\ i \in DOMAIN program
  /\ bank' = BankFor(i)
  /\ UNCHANGED <<given, program, security, current_bank, flash, prot>>
  /\ IF ~MayRead(i)
     THEN IF zero THEN Loop /\ skipped' = skipped \cup {i}
                  ELSE Exit("protected") /\ UNCHANGED skipped
     ELSE /\ UNCHANGED skipped
          /\ IF flash[At(BankFor(i), i)] = program[i] THEN Loop
                                                      ELSE Exit("differs")

CompareEnd ==
  /\ In("compare") /\ i = Size(program)
  /\ bank' = IF skipped = {} THEN bank ELSE SelectBank(Banks - 1)
  /\ IF skipped = {} \/ checksum_ok THEN Finish ELSE Exit("checksum")
  /\ UNCHANGED <<given, host, flash, prot>>

\* What the protection becomes when bank k is secured; R where data is missing.
Secured(k) ==
  [b \in DOMAIN prot |->
     IF b \div Blocks # k THEN prot[b]
     ELSE IF b \in DOMAIN security THEN security[b] ELSE 2]

AllZero == \A b \in DOMAIN security : security[b] = 0

ProtectBank ==
  /\ In("protect") /\ i < Banks /\ ~AllZero
  /\ bank' = SelectBank(i)
  /\ UNCHANGED <<given, host, flash>>
  /\ \/ prot' = Secured(SelectBank(i)) /\ Loop
     \/ Fault("secure") /\ UNCHANGED prot /\ Exit("not secured")
     \/ Fault("silent") /\ UNCHANGED prot /\ Loop

ProtectEnd ==
  /\ In("protect")
  /\ i = Banks \/ AllZero
  /\ Finish
  /\ UNCHANGED <<given, host, chip>>

\* The loop runs over blocks/4 bytes, those of the first bank.
ops_compare_security ==
  /\ In("checksec")
  /\ bank' = SelectBank(0)
  /\ IF \A b \in 0 .. Blocks - 1 : prot[b] = block_protection(b)
     THEN Finish ELSE Exit("protection differs")
  /\ UNCHANGED <<given, host, flash, prot>>

\* -ss: every bank's protection is read and printed.
ops_dump_security ==
  /\ In("dump")
  /\ bank' = SelectBank(Banks - 1)
  /\ Finish
  /\ UNCHANGED <<given, host, flash, prot>>

\* The end of main, where a program that was read is written to its file.
Save ==
  /\ In("save")
  /\ outcome' = "done"
  /\ UNCHANGED <<given, host, phase, i, chip>>

\* The driver gives up, or the user does.
Die ==
  /\ outcome = "running"
  /\ Exit("died")
  /\ UNCHANGED <<given, host, chip>>

-----------------------------------------------------------------------------
(* The specification *)

ReadsFile == ~Misused /\ (Opt("w") \/ (Opt("c") /\ ~Opt("r")))

Init ==
  /\ opts \in Options
  /\ file \in IF ReadsFile THEN Programs ELSE {Nothing}
  /\ program = file
  /\ security \in IF ReadsFile THEN Securities ELSE {Nothing}
  /\ supplied = Nothing
  /\ phase = "start" /\ i = 0
  /\ current_bank = 0 /\ skipped = {}
  /\ outcome = "running"
  /\ \E start \in Flashes : flash = start[1] /\ prot = start[2]
  /\ bank = 0

Work ==
  \/ Start \/ ops_erase_all \/ WriteBlock \/ WriteEnd \/ ops_read_security
  \/ ReadBlock \/ ReadEnd \/ ReadFails \/ CompareBlock \/ CompareEnd
  \/ ProtectBank \/ ProtectEnd \/ ops_compare_security
  \/ ops_dump_security \/ Save

Next == Work \/ Die

Spec == Init /\ [][Next]_vars

-----------------------------------------------------------------------------
(* Properties *)

\* Protection is only ever added to a Flash whose checksum is that of the file,
\* since afterwards nobody could look (main writes security last, m8cprog.c:216,
\* and ops_write_program gives up on a wrong checksum, prog_ops.c:154).
ProtectsOnlyChecked ==
  [][(\E b \in DOMAIN prot : prot'[b] > prot[b]) => Sum(flash) = Sum(file)]_vars

\* A comparison that succeeded holds of the Flash as the session leaves it: each
\* block is the file's, or was skipped and then the checksums agree
\* (ops_compare_program, prog_ops.c:220-282).
ComparedIsTrue ==
  outcome = "done" /\ Opt("c") =>
    /\ \A b \in DOMAIN program : b \in skipped \/ flash[b] = program[b]
    /\ skipped # {} => Sum(flash) = Sum(program)

\* A write that succeeded left the file's checksum in the Flash, whichever
\* erase or program operation failed unnoticed (no return code is looked at,
\* prog_ops.c:147-148).
WrittenIsChecked == outcome = "done" /\ Opt("w") => Sum(flash) = Sum(file)

\* What was read is what the Flash holds, or zero for a block that cannot be
\* read (ops_read_program, prog_ops.c:285-326).
ReadIsTrue ==
  outcome = "done" /\ Opt("r") =>
    /\ 0 .. Blocks - 1 \subseteq DOMAIN program
    /\ \A b \in DOMAIN program :
         program[b] = IF prot[b] = 0 THEN flash[b] ELSE 0

\* "-s ... with -e and -w: check" (usage, m8cprog.c:57-59): a success means that
\* the chip has the protection the host has, even if the chip ignored the erase
\* or did not take what was written.
ProtectionIsChecked ==
  outcome = "done" /\ Opt("s") /\ (Opt("w") \/ Opt("e")) =>
    \A b \in 0 .. Total - 1 : prot[b] = block_protection(b)

\* What a success promises is true of the chip as the session leaves it,
\* whatever went wrong in it unnoticed (m8cprog.c:200-225).
SuccessIsTrue ==
  ComparedIsTrue /\ WrittenIsChecked /\ ReadIsTrue /\ ProtectionIsChecked

\* With a healthy chip a successful write leaves the file in the Flash, zeros
\* behind it, and the protection that was supplied, in whatever banks they lie
\* (ops_write_program and ops_write_security, prog_ops.c:131-217).
WriteIsComplete ==
  outcome = "done" /\ Opt("w") =>
    \A b \in 0 .. Total - 1 :
      /\ flash[b] = IF b \in DOMAIN file THEN file[b] ELSE 0
      /\ prot[b] = IF b \in DOMAIN supplied THEN supplied[b] ELSE 0

\* With a healthy chip, writing raises no false alarm: no check after it finds a
\* difference, whatever the chip held before and in whatever bank an operation
\* leaves the bank register to the next one (m8cprog.c:204-219).
NoFalseAlarm ==
  Opt("w") =>
    outcome \notin {"checksum", "differs", "not secured", "protection differs"}

\* A healthy chip is written completely, and no check after it complains.
HealthyWrite == WriteIsComplete /\ NoFalseAlarm
=============================================================================
