----------------------------- MODULE FlashChip -----------------------------
(***************************************************************************)
(* What the ISSP primitives (prog/prog_prim.h) promise to the programming  *)
(* operations: a chip with banks of blocks of Flash, a block of protection *)
(* bits for each bank, and a buffer.  This is also what the dummy driver   *)
(* simulates (drv/dummy.c), with one bank, and with protection bits taken  *)
(* one bit apart instead of two.  Prim implements it with vectors.         *)
(***************************************************************************)
EXTENDS Naturals, Sequences

CONSTANTS
  Banks, Blocks,     \* their numbers
  BLOCK_SIZE,
  Byte,              \* what a byte can hold
  Bits(_, _),        \* the protection of a block, from the protection bytes
  Sum(_)             \* what the contents of a bank add up to

Bank == 0..Banks - 1
Block == 0..Blocks - 1
BlockData == [0..BLOCK_SIZE - 1 -> Byte]
None == "none"
Zeros == [i \in 0..BLOCK_SIZE - 1 |-> 0]

VARIABLES
  flash, secure_flash, curr_bank, curr_block, buffer, return_code,
  out      \* the primitive called last, with what it was given or returned

store == <<flash, secure_flash>>
selected == <<curr_bank, curr_block>>
vars == <<store, selected, buffer, return_code, out>>

\* A >> shift of the dummy driver: bits of the higher blocks come with it.
dummy_bits(s, b) == s[b \div 4] \div (2 ^ (b % 4))
-----------------------------------------------------------------------------
Done(name, code) == out' = <<name>> /\ return_code' = code

initialize ==
  /\ \E name \in {"initialize_1", "initialize_2", "3V", "5V"} : Done(name, 0)
  /\ UNCHANGED <<store, selected, buffer>>

set_bank_num(b) ==
  /\ curr_bank' = b
  /\ out' = <<"set_bank_num", b>>
  /\ UNCHANGED <<store, curr_block, buffer, return_code>>

set_block_num(b) ==
  /\ curr_block' = b
  /\ out' = <<"set_block_num", b>>
  /\ UNCHANGED <<store, curr_bank, buffer, return_code>>

\* The checksum is a uint16_t.
checksum ==
  /\ return_code' = 0
  /\ UNCHANGED <<store, selected, buffer>>
  /\ out' = <<"checksum", Sum(flash[curr_bank]) % 65536>>

Protection == Bits(secure_flash[curr_bank], curr_block)

verify ==
  /\ IF Protection > 0
     THEN Done("verify", 1) /\ UNCHANGED buffer
     ELSE Done("verify", 0) /\ buffer' = flash[curr_bank][curr_block]
  /\ UNCHANGED <<store, selected>>

program_block ==
  /\ IF Protection > 1
     THEN Done("program_block", 1) /\ UNCHANGED flash
     ELSE Done("program_block", 0) /\ flash' = [flash EXCEPT ![curr_bank][curr_block] = buffer]
  /\ UNCHANGED <<secure_flash, selected, buffer>>

erase_all ==
  /\ flash' = [k \in Bank |-> [b \in Block |-> Zeros]]
  /\ secure_flash' = [k \in Bank |-> Zeros]
  /\ Done("erase_all", 0)
  /\ UNCHANGED <<selected, buffer>>

\* id and revision: numbers the chip has from the factory.
identify ==
  /\ Len(out') = 2 /\ out'[1] \in {"id", "revision"} /\ out'[2] \in Nat
  /\ return_code' = 0
  /\ UNCHANGED <<store, selected, buffer>>

secure ==
  /\ secure_flash' = [secure_flash EXCEPT ![curr_bank] = buffer]
  /\ Done("secure", 0)
  /\ UNCHANGED <<flash, selected, buffer>>

verify_secure ==
  /\ buffer' = secure_flash[curr_bank]
  /\ Done("verify_secure", 0)
  /\ UNCHANGED <<store, selected>>

write_block(d) ==
  /\ buffer' = d
  /\ out' = <<"write_block", d>>
  /\ UNCHANGED <<store, selected, return_code>>

read_block ==
  /\ out' = <<"read_block", buffer>>
  /\ UNCHANGED <<store, selected, buffer, return_code>>

fetch_return_code ==
  /\ out' = <<"return_code", return_code>>
  /\ UNCHANGED <<store, selected, buffer, return_code>>

Init ==
  /\ flash \in [Bank -> [Block -> BlockData]]
  /\ secure_flash \in [Bank -> BlockData]
  /\ curr_bank = 0
  /\ curr_block = 0
  /\ buffer = Zeros
  /\ return_code = 0
  /\ out = <<None>>

Next ==
  \/ initialize \/ checksum \/ verify \/ program_block \/ erase_all
  \/ identify \/ secure \/ verify_secure
  \/ read_block \/ fetch_return_code
  \/ \E b \in Bank : set_bank_num(b)
  \/ \E b \in Block : set_block_num(b)
  \/ \E d \in BlockData : write_block(d)

Spec == Init /\ [][Next]_vars
=============================================================================
