------------------------------ MODULE HexFile -------------------------------
(***************************************************************************)
(* The way of a program and of its protection bits from the assembler to   *)
(* the programmer: the protection file (shared/security.c), the file the   *)
(* assembler writes and the programmer reads (shared/file.c), and what is  *)
(* padded at either end (check_security, ops_write_security).              *)
(*                                                                         *)
(* A hex file is a sequence of records, a ROM file one of characters; the  *)
(* checksum of a record and its digits are left out.  The addresses of a   *)
(* hex file are pairs: the area its last extended address record selected, *)
(* and an offset.  Of a binary file that is taken for one of the others    *)
(* only what read_rom makes of its bytes is kept: bytes that are the text  *)
(* of a hex file are left out, and so is -b for what is not binary.        *)
(*                                                                         *)
(* A step of the module is a character of the protection file, a program   *)
(* assembled and written, a record of a hex file or a character of a ROM   *)
(* file read, or the protection of a chip.                                 *)
(***************************************************************************)
EXTENDS Integers, Sequences

CONSTANTS BLOCK_SIZE, PROGRAM_SIZE, SECURITY_SIZE,
          Cases,        \* records: alphabet, length, programs and chips of a source
          Formats,      \* of the output file: subset of {"hex", "rom", "binary"}
          Damages,      \* subset of {"cut", "changed"}
          Differences   \* of a changed byte, modulo 256, from what it was

Bytes == 0..255

ASSUME HexAssumption ==
  /\ {BLOCK_SIZE, PROGRAM_SIZE, SECURITY_SIZE} \subseteq Nat \ {0}
  /\ SECURITY_SIZE % BLOCK_SIZE = 0
  /\ Formats \subseteq {"hex", "rom", "binary"} /\ Differences \subseteq 1..255

\* A program fits; of a chip, a byte has the protection of four blocks of one
\* bank, a bank's protection fits a block, and all of it fits the array.
ASSUME CaseAssumption ==
  \A c \in Cases :
    /\ c.alphabet \subseteq 0..3 /\ c.length \in Nat
    /\ \A p \in c.programs : p \in Seq(Bytes) /\ Len(p) <= PROGRAM_SIZE
    /\ \A h \in c.chips :
         /\ {h.banks, h.blocks} \subseteq Nat \ {0} /\ h.blocks % 4 = 0
         /\ h.blocks <= 4 * BLOCK_SIZE /\ h.banks * h.blocks <= 4 * SECURITY_SIZE

VARIABLES
  stage,       \* "protect", "assembled", "reading", "loaded", "protected" or an error
  case,        \* the member of Cases that this is
  modes,       \* history: what the protection file says, block by block
  comment,     \* read_security is in a comment
  mem,         \* program and security with their sizes
  sent,        \* history: mem when the file was written
  image,       \* the file: [format, body], and history: held, what it was
               \* written for, and damage, what happened to it since
  reader,      \* of read_hex and read_rom: see FirstRecord
  written      \* what ops_write_security writes: [chip, banks]

fileVars == <<stage, case, modes, comment, mem, sent, image, reader, written>>

U == 0
R == 2
Least(a, b) == IF a < b THEN a ELSE b
Pow4(k) == <<1, 4, 16, 64>>[k + 1]
Zero(n) == [i \in 0..n - 1 |-> 0]
Blank == [program |-> Zero(PROGRAM_SIZE), program_size |-> 0,
          security |-> Zero(SECURITY_SIZE), security_size |-> 0]

-----------------------------------------------------------------------------
(* security.c *)

ModeIn(security, block) == (security[block \div 4] \div Pow4(block % 4)) % 4

\* The bits of a block are ORed into zeroes.
set_security(security, block, mode) ==
  [security EXCEPT ![block \div 4] = @ + mode * Pow4(block % 4)]

\* Bytes first..size-1 of s are set to b.
Fill(s, first, size, b) ==
  [i \in DOMAIN s |-> IF i >= first /\ i < size THEN b ELSE s[i]]
Strong(m) == \E b \in 0..(4 * m.security_size) - 1 : ModeIn(m.security, b) > 1
Padding(m) == IF Strong(m) THEN 170 ELSE 0
Unprotected(m) == \A i \in 0..m.security_size - 1 : m.security[i] = 0
RoundUp(n, d) == ((n + d - 1) \div d) * d

PadTo(m, size) ==
  [m EXCEPT !.security = Fill(@, m.security_size, size, Padding(m)),
            !.security_size = size]

\* In a chip with one bank the rest of the block mirrors the Flash.
Mirror(m, chip) ==
  [m EXCEPT !.security = [i \in DOMAIN @ |->
                            IF i >= m.security_size /\ i < BLOCK_SIZE
                            THEN @[i % (chip.blocks \div 4)] ELSE @[i]],
            !.security_size = BLOCK_SIZE]

\* The loop that mirrors waits for one size, and is behind it already.
Overruns(m, chip) ==
  ~Unprotected(m) /\ chip.banks = 1 /\ m.security_size > BLOCK_SIZE

\* Mistake: zeroes, not R, behind protected blocks.
PadWithZeroes(m, chip) ==
  LET size == (chip.banks * chip.blocks) \div 4
  IN IF m.security_size < size THEN [m EXCEPT !.security_size = size] ELSE m
PadForChip(m, chip) ==
  LET size == (chip.banks * chip.blocks) \div 4
  IN IF m.security_size < size THEN PadTo(m, size) ELSE m

check_security_data(m, chip) ==
  LET full == IF chip.banks = 0 THEN m ELSE PadForChip(m, chip)
      mirrored == IF chip.banks = 1 THEN Mirror(full, chip) ELSE full
  IN IF Unprotected(m) THEN m
     ELSE PadTo(mirrored, RoundUp(mirrored.security_size, BLOCK_SIZE))
NoChip == [banks |-> 0, blocks |-> 0]

-----------------------------------------------------------------------------
(* file.c *)

\* uint16_t
Plus(sum, byte) == (sum + byte) % 65536

do_checksum(m) ==
  LET sum[n \in 0..m.program_size] ==
        IF n = 0 THEN 0 ELSE Plus(sum[n - 1], m.program[n - 1])
  IN sum[m.program_size]

DataRecord(address, bytes) == [type |-> 0, address |-> address, data |-> bytes, area |-> ""]
Extended(area) == [type |-> 4, address |-> 0, data |-> <<>>, area |-> area]
EndRecord == [type |-> 1, address |-> 0, data |-> <<>>, area |-> ""]

Count(size) == (size + BLOCK_SIZE - 1) \div BLOCK_SIZE
Records(bytes, size) ==
  [k \in 1..Count(size) |->
     LET a == (k - 1) * BLOCK_SIZE
     IN DataRecord(a, [j \in 1..Least(BLOCK_SIZE, size - a) |-> bytes[a + j - 1]])]

\* sum is the checksum.
write_hex(m, sum) ==
  Records(m.program, m.program_size)
  \o (IF m.security_size = 0 THEN <<>>
      ELSE <<Extended("security")>> \o Records(m.security, m.security_size))
  \o <<Extended("checksum"), DataRecord(0, <<sum \div 256, sum % 256>>), EndRecord>>

\* Two digits and a character between them; blanks are 16.
write_rom(m) ==
  [k \in 1..3 * m.program_size |->
     LET b == m.program[(k - 1) \div 3]
     IN CASE k % 3 = 1 -> b \div 16 [] k % 3 = 2 -> b % 16 [] OTHER -> 16]

write_file(m, format) ==
  CASE format = "hex" -> write_hex(m, do_checksum(m))
    [] format = "rom" -> write_rom(m)
    [] format = "binary" -> [k \in 1..m.program_size |-> m.program[k - 1]]

\* The state of the readers: records or characters read; of read_hex the area,
\* where the last record ended and the checksum; of read_rom the first digit
\* of a byte, if the second comes next.
NoDigit == 16
FirstRecord ==
  [at |-> 0, area |-> "program", last |-> <<"program", 0>>,
   checksum |-> Zero(2), have_checksum |-> FALSE, digit |-> NoDigit]

Limit(area) ==
  CASE area = "program" -> PROGRAM_SIZE
    [] area = "security" -> SECURITY_SIZE
    [] area = "checksum" -> 2
Copy(bytes, a, data) ==
  [n \in DOMAIN bytes |-> IF n >= a /\ n < a + Len(data) THEN data[n - a + 1] ELSE bytes[n]]

\* Mistake: the checksum record is not looked at.
Mismatch_ignored(m, r) == FALSE
Mismatch(m, r) ==
  r.have_checksum /\ do_checksum(m) # (256 * r.checksum[0]) + r.checksum[1]

-----------------------------------------------------------------------------
(* read_security, character by character, and the rest of m8cas. *)

NextBlock == Len(modes)

ReadComment ==
  /\ stage = "protect" /\ case.comments
  /\ comment' = ~comment
  /\ UNCHANGED <<stage, case, modes, mem, sent, image, reader, written>>

ReadMode(n) ==
  /\ stage = "protect"
  /\ NextBlock < Least(4 * SECURITY_SIZE, case.length)
  /\ IF comment THEN UNCHANGED <<modes, mem>>
     ELSE /\ modes' = Append(modes, n)
          /\ mem' = [mem EXCEPT !.security = set_security(@, NextBlock, n)]
  /\ UNCHANGED <<stage, case, comment, sent, image, reader, written>>

\* The end of the file: an incomplete byte is padded.
FillByte ==
  LET strong == \E k \in DOMAIN modes : modes[k] > 1
      full == RoundUp(NextBlock, 4)
      pad(bytes, b) == IF b < full THEN set_security(bytes, b, IF strong THEN R ELSE U)
                       ELSE bytes
  IN [mem EXCEPT !.security = pad(pad(pad(@, NextBlock), NextBlock + 1), NextBlock + 2),
                 !.security_size = full \div 4]

\* m8cas: only a hex file can hold protection bits.
Assemble(prog, format) ==
  LET protected == check_security_data(FillByte, NoChip)
      m == [protected EXCEPT !.program = Copy(@, 0, prog),
                             !.program_size = Len(prog)]
  IN /\ stage = "protect"
     /\ format = "hex" \/ Unprotected(m)
     /\ stage' = "assembled"
     /\ sent' = m
     /\ image' = [format |-> format, body |-> write_file(m, format),
                  held |-> m, damage |-> "none"]
     /\ mem' = Blank
     /\ UNCHANGED <<case, modes, comment, reader, written>>

\* A hex file that ends behind some record or before the first, or in which a
\* byte of the program changed.
Damage ==
  /\ stage = "assembled" /\ image.format = "hex" /\ image.damage = "none"
  /\ \/ /\ "cut" \in Damages
        /\ \E n \in 0..Len(image.body) - 1 :
             image' = [image EXCEPT !.body = SubSeq(@, 1, n),
                                    !.damage = IF n = 0 THEN "emptied" ELSE "cut"]
     \/ /\ "changed" \in Damages
        /\ \E a \in 0..sent.program_size - 1, d \in Differences :
             LET m == [sent EXCEPT !.program[a] = (@ + d) % 256]
             IN image' = [format |-> "hex", body |-> write_hex(m, do_checksum(sent)),
                          held |-> m, damage |-> "changed"]
  /\ UNCHANGED <<stage, case, modes, comment, mem, sent, reader, written>>

-----------------------------------------------------------------------------
(* m8cprog reads the file, in a process of its own. *)

ToBeRead ==
  /\ stage = "assembled"
  /\ UNCHANGED <<case, modes, comment, mem, sent, reader, written>>

\* Without -b the first character decides.  It is right about hex and ROM files;
\* a binary file is read as one if -b says so or its first byte is another.
Load ==
  /\ ToBeRead
  /\ image.format = "binary" \/ image.body # <<>>
  /\ stage' = "reading"
  /\ UNCHANGED image

LoadNothing ==
  /\ ToBeRead
  /\ image.body = <<>>
  /\ stage' = "loaded"
  /\ UNCHANGED image

is_hex(c) == c \in (48..57) \cup (65..70) \cup (97..102)
hex_value(c) == IF c <= 57 THEN c - 48 ELSE IF c <= 70 THEN c - 55 ELSE c - 87

\* The character read_rom sees: a digit, a blank or another.
Other == 17
Character(c) ==
  IF is_hex(c) THEN hex_value(c) ELSE IF c \in {9, 10, 13, 32} THEN 16 ELSE Other

\* A binary file without -b that begins like a ROM file, or with the colon of
\* a hex file, which read_record refuses.
Misread ==
  /\ ToBeRead
  /\ image.format = "binary" /\ image.body # <<>>
  /\ \/ /\ is_hex(image.body[1])
        /\ stage' = "reading"
        /\ image' = [format |-> "rom", held |-> image.held, damage |-> "misread",
                     body |-> [k \in DOMAIN image.body |-> Character(image.body[k])]]
     \/ /\ image.body[1] = 58
        /\ stage' = "refused"
        /\ image' = [format |-> "binary", held |-> image.held, damage |-> "misread",
                     body |-> image.body]

\* x is the next record or character.
Reads(format, x) ==
  /\ stage = "reading" /\ image.format = format
  /\ reader.at < Len(image.body) /\ x = image.body[reader.at + 1]
  /\ UNCHANGED <<case, modes, comment, sent, image, written>>

Refuse == stage' = "refused" /\ UNCHANGED <<mem, reader>>

ReadData(d) ==
  LET a == d.address
      end == a + Len(d.data)
      area == reader.area
  IN /\ Reads("hex", d) /\ d.type = 0
     /\ IF (<<area, a>> # reader.last /\ a # 0) \/ end > Limit(area)
        THEN Refuse
        ELSE /\ reader' = [reader EXCEPT
                  !.at = @ + 1, !.last = <<area, end>>,
                  !.checksum = IF area = "checksum" THEN Copy(@, a, d.data) ELSE @,
                  !.have_checksum = @ \/ (area = "checksum" /\ end = 2)]
             /\ mem' = CASE area = "program" ->
                              [mem EXCEPT !.program = Copy(@, a, d.data), !.program_size = end]
                         [] area = "security" ->
                              [mem EXCEPT !.security = Copy(@, a, d.data), !.security_size = end]
                         [] area = "checksum" -> mem
             /\ UNCHANGED stage

ReadExtended(d) ==
  /\ Reads("hex", d) /\ d.type = 4
  /\ reader' = [reader EXCEPT !.at = @ + 1, !.area = d.area]
  /\ UNCHANGED <<stage, mem>>

ReadEndRecord(d) ==
  /\ Reads("hex", d) /\ d.type = 1
  /\ IF Mismatch(mem, reader) THEN Refuse
     ELSE stage' = "loaded" /\ UNCHANGED <<mem, reader>>

\* read_rom: the digits in pairs, nothing between the two of a pair.
ReadDigit(c) ==
  LET size == mem.program_size
  IN /\ Reads("rom", c) /\ c < 16
     /\ IF reader.digit = NoDigit
        THEN reader' = [reader EXCEPT !.at = @ + 1, !.digit = c] /\ UNCHANGED <<stage, mem>>
        ELSE IF size = PROGRAM_SIZE THEN Refuse
        ELSE /\ reader' = [reader EXCEPT !.at = @ + 1, !.digit = NoDigit]
             /\ mem' = [mem EXCEPT !.program[size] = (reader.digit * 16) + c,
                                   !.program_size = size + 1]
             /\ UNCHANGED stage

ReadBlank(c) ==
  /\ Reads("rom", c) /\ c >= 16
  /\ IF reader.digit # NoDigit \/ c = Other THEN Refuse
     ELSE reader' = [reader EXCEPT !.at = @ + 1] /\ UNCHANGED <<stage, mem>>

\* The end of the file, which a hex file must not come to.
EndOfImage ==
  /\ stage = "reading" /\ image.format # "binary"
  /\ reader.at = Len(image.body)
  /\ stage' = IF image.format = "hex" THEN "refused" ELSE "loaded"
  /\ UNCHANGED <<case, modes, comment, mem, sent, image, reader, written>>

ReadBinary ==
  /\ stage = "reading" /\ image.format = "binary"
  /\ stage' = "loaded"
  /\ mem' = [mem EXCEPT !.program = Copy(@, 0, image.body),
                        !.program_size = Len(image.body)]
  /\ UNCHANGED <<case, modes, comment, sent, image, reader, written>>

-----------------------------------------------------------------------------
\* check_security with the chip, and the buffers of ops_write_security.
Buffer(m, chip, bank) ==
  LET bytes == chip.blocks \div 4
      base == bank * bytes
  IN [i \in 0..BLOCK_SIZE - 1 |->
        IF i < bytes \/ chip.banks = 1
        THEN IF base + i < m.security_size THEN m.security[base + i] ELSE 170
        ELSE 255]

Protect(chip) ==
  /\ stage = "loaded"
  /\ IF Overruns(mem, chip) THEN stage' = "overrun" /\ UNCHANGED <<mem, written>>
     ELSE LET m == check_security_data(mem, chip)
          IN /\ stage' = "protected"
             /\ mem' = m
             /\ written' = [chip |-> chip,
                            banks |-> IF Unprotected(m) THEN <<>>
                                      ELSE [b \in 1..chip.banks |-> Buffer(m, chip, b - 1)]]
  /\ UNCHANGED <<case, modes, comment, sent, image, reader>>

FileInit ==
  /\ stage = "protect" /\ case \in Cases
  /\ modes = <<>> /\ comment = FALSE
  /\ mem = Blank /\ sent = Blank
  /\ image = [format |-> "none", body |-> <<>>, held |-> Blank, damage |-> "none"]
  /\ reader = FirstRecord
  /\ written = [chip |-> NoChip, banks |-> <<>>]

ReadNext(x) ==
  ReadData(x) \/ ReadExtended(x) \/ ReadEndRecord(x) \/ ReadDigit(x) \/ ReadBlank(x)

FileNext ==
  \/ ReadComment
  \/ \E n \in case.alphabet : ReadMode(n)
  \/ \E p \in case.programs, f \in Formats : Assemble(p, f)
  \/ Damage
  \/ Load \/ LoadNothing \/ Misread
  \/ \E x \in {image.body[k] : k \in DOMAIN image.body} : ReadNext(x)
  \/ EndOfImage
  \/ ReadBinary
  \/ \E c \in case.chips : Protect(c)

FileSpec == FileInit /\ [][FileNext]_fileVars

-----------------------------------------------------------------------------
\* A whole file is loaded, and gives the programmer exactly what the assembler
\* had; a hex file that ends behind one of its records but the last, or in which
\* a byte of the program changed, is refused (shared/file.c:243-283).  Of a hex file
\* that was cut to nothing an empty program without protection is loaded, and
\* nothing is said of a binary file that is taken for another.
LoadedIfWhole ==
  /\ stage = "refused" => image.damage # "none"
  /\ stage = "loaded" => image.damage \in {"none", "emptied", "misread"}
  /\ stage = "loaded" /\ image.damage = "emptied" =>
       mem.program_size = 0 /\ mem.security_size = 0
  /\ stage = "loaded" /\ image.damage = "none" =>
       /\ \A a \in 0..sent.program_size - 1 : mem.program[a] = sent.program[a]
       /\ mem.program_size = sent.program_size
       /\ image.format = "hex" => /\ mem.security = sent.security
                                 /\ mem.security_size = sent.security_size

\* The mode the protection file gives a block, and R or U if it gives none.
Given(block) ==
  IF block < Len(modes) THEN modes[block + 1]
  ELSE IF \E k \in DOMAIN modes : modes[k] > 1 THEN R ELSE U

OnChip(block) ==
  LET bank == block \div written.chip.blocks
  IN IF written.banks = <<>> THEN U
     ELSE ModeIn(written.banks[bank + 1], block % written.chip.blocks)

\* The padding never runs past the array, except for a chip with one bank and
\* more protection data than it has blocks for.
PadsWithin ==
  /\ mem.security_size <= SECURITY_SIZE
  /\ stage = "overrun" => Len(modes) > 4 * BLOCK_SIZE

\* security.c:85: "blocks with unspecified protection must be write-protected
\* if read-protection is desired through R or W".  Every block of the chip has
\* the mode meant for it, unless the file was cut to nothing, and the padding
\* that sees to that stays in the array.
ProtectionArrives ==
  /\ PadsWithin
  /\ stage = "protected" /\ image.damage # "emptied" =>
       \A b \in 0..(written.chip.banks * written.chip.blocks) - 1 : OnChip(b) = Given(b)
=============================================================================
