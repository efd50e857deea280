------------------------------- MODULE Sponge -------------------------------
(***************************************************************************)
(* The byte sponges' host half: SpongePad of extension/pad.py, the         *)
(* absorb/squeeze schedule of extension/sponge.py, and the one-shot hash   *)
(* keccak/sponge.py builds from the two.                                   *)
(*                                                                         *)
(* A byte is a free term named by where it came from.  A sponge state is   *)
(* named by the permutations run on it since it was zero, each recorded    *)
(* with the block XORed into the rate before it, or as Bare when there was *)
(* none: two states are equal exactly when their histories are.            *)
(***************************************************************************)
EXTENDS Integers, Sequences

CONSTANTS
  Rate,      \* bytes absorbed per permutation (SpongePad.rate)
  FinalBit   \* whether the last byte carries the padding's trailing 1

ASSUME SpongeAssumption == Rate \in Nat \ {0} /\ FinalBit \in BOOLEAN

Msg(k)        == <<"msg", k>>        \* byte k of the message
Zero          == <<"zero">>
Suffix        == <<"suffix">>        \* SpongePad.head, a byte below 0x80
SetBit7(byte) == <<"bit7", byte>>    \* | 0x80 and ^ 0x80 agree below 0x80

Bare == <<"bare">>

ByteAt(state, j)    == <<"rate", state, j>>   \* byte j of the rate prefix
Permute(state)      == Append(state, Bare)
AbsorbBlock(state, block) == Append(state, block)

CeilBlocks(nbytes) == (nbytes + Rate - 1) \div Rate   \* squeeze_blocks

(* The state after k bare permutations.                                    *)
Permuted(state, k) == state \o [i \in 1 .. k |-> Bare]

----------------------------------------------------------------------------
(* pad10*1: never empty, so a rate-aligned message gains a whole block.    *)
PadBlocks(length) == length \div Rate + 1

(* head || 0* || 0x80; one byte short of a block the two ends share it.    *)
PadTail(length) ==
  LET size  == PadBlocks(length) * Rate - length
      first == [j \in 0 .. size - 1 |-> IF j = 0 THEN Suffix ELSE Zero]
  IN  IF FinalBit THEN [first EXCEPT ![size - 1] = SetBit7(@)] ELSE first

(* message || tail, cut into blocks; the message is Msg(0 .. length - 1).  *)
PaddedBlock(length, i) ==
  [j \in 0 .. Rate - 1 |->
     LET p == i * Rate + j
     IN  IF p < length THEN Msg(p) ELSE PadTail(length)[p - length]]

----------------------------------------------------------------------------
(* absorb_squeeze: a permutation after every absorbed block, and between   *)
(* the blocks read but not after the last of them.                         *)
Absorbed(length) == [i \in 1 .. PadBlocks(length) |-> PaddedBlock(length, i - 1)]

(* Byte k of a hash of `length` bytes, whatever output size was asked for: *)
(* the trim drops what the last block read has too many.                   *)
HashByte(length, k) == ByteAt(Permuted(Absorbed(length), k \div Rate), k % Rate)
=============================================================================
