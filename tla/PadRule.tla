------------------------------ MODULE PadRule ------------------------------
(***************************************************************************)
(* How a message becomes whole blocks: extension/pad.py (PadRule, on the   *)
(* host, from a static length) and the traced half of the same rule in     *)
(* extension/md.py (trailer_field and padded_region, from a runtime        *)
(* length).                                                                *)
(*                                                                         *)
(* Bytes are free terms.  No code here looks at a byte's value, only at    *)
(* where it goes, so a message byte is named by its position and two       *)
(* placements agree for every message iff they agree for these names.      *)
(***************************************************************************)
EXTENDS Integers

CONSTANTS
  Block,    \* bytes per block (PadRule.block_size)
  Reserve,  \* bytes the length field may claim (PadRule.reserve)
  Field,    \* bytes the length field fills at the end of them (8 in the code)
  Trailer,  \* what the field encodes (PadRule.trailer)
  Word      \* 2^32: the modulus of the counters and of one half of the field

(* __post_init__ checks a positive block and 8 reserved bytes for the      *)
(* field's 8; that the reserve is smaller than a block is what every rule  *)
(* in the package has.  Word is a whole number of bytes' bits.             *)
ASSUME PadAssumption ==
  /\ Block \in Nat \ {0}
  /\ Reserve \in Nat \ {0}
  /\ Field \in 1 .. Reserve
  /\ Reserve < Block
  /\ Trailer \in {"BIT_LENGTH", "BLOCK_COUNT", "NONE"}
  /\ Word \in Nat \ {0}
  /\ Word % 8 = 0

----------------------------------------------------------------------------
(* Bytes and blocks.                                                       *)

Msg(k)              == <<"msg", k>>          \* byte k of the absorbed message
Zero                == <<"zero">>            \* 0x00
Mark                == <<"mark">>            \* 0x80
FieldByte(value, j) == <<"len", value, j>>   \* byte j of the encoded value

BlockAt(bytes, i) == [j \in 0 .. Block - 1 |-> bytes[i * Block + j]]

(* The blocks first .. last - 1 of a byte region, in order.                *)
Blocks(bytes, first, last) ==
  [i \in 1 .. last - first |-> BlockAt(bytes, first + i - 1)]

(* numpy's clip.                                                           *)
Clip(x, lo, hi) == IF x < lo THEN lo ELSE IF x > hi THEN hi ELSE x

CeilDiv(a, b) == (a + b - 1) \div b

----------------------------------------------------------------------------
(* The host rule: everything is computed from a static length.             *)

(* HAIFA (NONE) reserves nothing, but the empty message is still a block.  *)
NBlocks(length) ==
  IF Trailer = "NONE"
    THEN CeilDiv(length, Block) + (IF length = 0 THEN 1 ELSE 0)
    ELSE (length + Reserve) \div Block + 1

(* The field's value, as the halves of a 64-bit integer.                   *)
HostValue(length) ==
  IF Trailer = "BIT_LENGTH"
    THEN <<(8 * length) \div Word, (8 * length) % Word>>
    ELSE <<NBlocks(length) \div Word, NBlocks(length) % Word>>

(* The bytes appended to a `length`-byte message.                          *)
PadTail(length) ==
  LET size == NBlocks(length) * Block - length
  IN  [j \in 0 .. size - 1 |->
         IF Trailer = "NONE" THEN Zero
         ELSE IF j >= size - Field
                THEN FieldByte(HostValue(length), j - (size - Field))
         ELSE IF j = 0 THEN Mark
         ELSE Zero]

(* A message (a function on 0 .. length - 1) with its tail, and the blocks *)
(* a whole-message digest folds.                                           *)
Padded(message, length) ==
  [p \in 0 .. NBlocks(length) * Block - 1 |->
     IF p < length THEN message[p] ELSE PadTail(length)[p - length]]

PaddedBlocks(message, length) ==
  Blocks(Padded(message, length), 0, NBlocks(length))

(* BLAKE2's counter for block `index`: <<bytes hashed so far, is it last>>.*)
HaifaCounter(index, nblocks, length) ==
  LET last == index = nblocks - 1
  IN  <<IF last THEN length ELSE (index + 1) * Block, last>>

----------------------------------------------------------------------------
(* The traced rule: the length is runtime data, held in an int32.          *)

Signed(x)   == ((x + Word \div 2) % Word) - Word \div 2   \* int32 arithmetic
Unsigned(x) == x % Word                                   \* astype(uint32)

(* As TracedValue, with the int32 shifted before it is made unsigned.      *)
ShiftedSigned(msg_bytes) ==
  <<msg_bytes \div (Word \div 8), (8 * msg_bytes) % Word>>

(* The uint32 half pair: count >> 29 and count << 3.                       *)
TracedValue(msg_bytes) ==
  IF Trailer = "BIT_LENGTH"
    THEN <<Unsigned(msg_bytes) \div (Word \div 8), (8 * Unsigned(msg_bytes)) % Word>>
    ELSE <<0, Unsigned(NBlocks(msg_bytes))>>

(* The reserved bytes: zeros ahead of the encoded field.                   *)
TrailerField(msg_bytes) ==
  [j \in 0 .. Reserve - 1 |->
     IF j < Reserve - Field THEN Zero
     ELSE FieldByte(TracedValue(msg_bytes), j - (Reserve - Field))]

(* content[:content_len], the mark, zeros, and the reserved bytes ending   *)
(* at active_bytes; zeros past that.                                       *)
PaddedRegion(content, content_len, active_bytes, len_bytes) ==
  LET len_start == active_bytes - Reserve
  IN  [p \in DOMAIN content |->
         IF p < content_len THEN content[p]
         ELSE IF p = content_len THEN Mark
         ELSE IF p >= len_start /\ p < active_bytes
                THEN len_bytes[Clip(p - len_start, 0, Reserve - 1)]
         ELSE Zero]
=============================================================================
