------------------------------- MODULE MCProg -------------------------------
(***************************************************************************)
(* Instances of the modules about the programmer: ProgSession, once with   *)
(* one bank and a chip that fails in any way, and once with two banks and  *)
(* a healthy chip; HexFile, for the way of a program into the memory of    *)
(* m8cprog; and Prim, for the primitives that take it to the chip.  A run  *)
(* has one of them take steps, and the others stay in a first state.       *)
(*                                                                         *)
(* A block of a session holds 0, 1 or 2 and checksums wrap at 4, which     *)
(* makes different programs with one checksum.  The chip starts blank,     *)
(* filled and open, or filled and partly protected.                        *)
(***************************************************************************)
EXTENDS ProgSession, HexFile

CONSTANT Parts
VARIABLES part, target, upset, called, current, overwritten

ASSUME SessionAssumption == ProgAssumption

-----------------------------------------------------------------------------
(* Sessions *)

MCData == 0 .. 2
Contents(sizes) == UNION {[0 .. n - 1 -> MCData] : n \in sizes}

\* A full Flash, one block less, and one block too many.
SomePrograms == Contents({Total - 1, Total}) \cup {[b \in 0 .. Total |-> 1]}

SomeSecurities == {Nothing} \cup [0 .. 0 -> {0, 2}] \cup [0 .. Total - 1 -> {0, 3}]

SomeFlashes ==
  LET filled == [b \in 0 .. Total - 1 |-> 2 - (b % 2)]
      open == [b \in 0 .. Total - 1 |-> 0]
  IN {<<open, open>>, <<filled, open>>, <<filled, [open EXCEPT ![0] = 1]>>,
      <<filled, [open EXCEPT ![Total - 1] = 3]>>}

\* Every command line, with the voltage known unless the chip is only read.
Commands ==
  {o \in SUBSET OptionNames :
     /\ "ss" \in o => "s" \in o
     /\ {"w", "e"} \cap o # {} \/ "voltage" \notin o}

\* The ones with a voltage that write; -e adds nothing to them.
WriteCommands ==
  {o \in Commands : {"w", "voltage"} \subseteq o /\ {"e", "r"} \cap o = {}}

\* A session that has not begun, while files are read.
FirstSession ==
  /\ opts = {} /\ file = Nothing /\ supplied = Nothing
  /\ program = Nothing /\ security = Nothing
  /\ phase = "start" /\ i = 0 /\ current_bank = 0 /\ skipped = {}
  /\ outcome = "running" /\ bank = 0
  /\ flash = [b \in 0 .. Total - 1 |-> 0] /\ prot = flash

-----------------------------------------------------------------------------
(* Files *)

Chip(banks, blocks) == [banks |-> banks, blocks |-> blocks]
Chips == {Chip(1, 4), Chip(1, 8), Chip(2, 4), Chip(2, 8)}

\* Programs around the size of a block, some of which look like the text of a ROM
\* file, up to the end, to half a byte or to their first byte, or of a hex file;
\* protection files, in two alphabets.
MCCases ==
  {[alphabet |-> {0, 2}, length |-> 10, comments |-> FALSE,
    programs |-> {<<1>>}, chips |-> Chips],
   [alphabet |-> {1, 3}, length |-> 6, comments |-> TRUE,
    programs |-> {<<>>}, chips |-> Chips],
   [alphabet |-> {0, 3}, length |-> 4, comments |-> FALSE,
    programs |-> {<<>>, <<7, 0>>, <<255, 255, 1>>, <<0, 0, 0, 255, 254>>,
                 <<65, 97>>, <<57, 7>>, <<66, 48, 13, 102>>, <<70, 32>>, <<58>>},
    chips |-> {Chip(2, 8)}]}

-----------------------------------------------------------------------------
(* Primitives *)

\* The Flash starts with zeros, and a block is written whose first byte, as
\* protection, protects the second block.
Zeros == [b \in 0 .. BLOCK_SIZE - 1 |-> 0]
Primitives == INSTANCE Prim WITH
  Banks <- 2, Byte <- {0, 8, 1}, Blanks <- {Zeros},
  Written <- {[b \in DOMAIN Zeros |-> IF b = 0 THEN 8 ELSE 1]},
  chip <- target, out <- called, block <- current, results <- overwritten

ASSUME PrimitivesAssumption == Primitives!PrimAssumption

primVars == <<target, upset, called, current, overwritten>>

-----------------------------------------------------------------------------
(* The parts side by side *)

FirstFile == FileInit /\ case = CHOOSE c \in MCCases : TRUE

MCInit ==
  /\ Primitives!Init
  /\ \/ part = "session" /\ part \in Parts /\ Init /\ FirstFile
     \/ part = "file" /\ part \in Parts /\ FirstSession /\ FileInit
     \/ part = "prim" /\ part \in Parts /\ FirstSession /\ FirstFile

SessionSteps == part = "session" /\ Next /\ UNCHANGED <<part, fileVars, primVars>>
FileSteps == part = "file" /\ FileNext /\ UNCHANGED <<part, vars, primVars>>
PrimSteps == part = "prim" /\ Primitives!Next /\ UNCHANGED <<part, vars, fileVars>>
MCSpec ==
  MCInit /\ [][SessionSteps \/ FileSteps \/ PrimSteps]_<<part, vars, fileVars, primVars>>

\* See Prim: what primitives do to the chip.
ActsAsFlash == Primitives!ActsAsFlash
=============================================================================
