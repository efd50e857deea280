---------------------------- MODULE ShakeStream ----------------------------
(***************************************************************************)
(* keccak/streaming.py: incremental SHAKE as an absorbing half, a general  *)
(* squeezer that carries an offset into its live block, and a whole-block  *)
(* squeezer that carries none.  Loop bounds are static and positions are   *)
(* runtime data, so both halves run to an upper bound and select.          *)
(*                                                                         *)
(* States are values: finalizing leaves the absorbing half usable, and the *)
(* model keeps feeding it while a squeezer made from it is drained.        *)
(***************************************************************************)
EXTENDS Sponge

CONSTANTS
  MaxChunk,  \* the longest absorb, a bound of the model
  MaxBytes,  \* the longest message, a bound of the model
  MaxTaken   \* the most bytes taken from one squeezer, a bound of the model

ASSUME ShakeAssumption ==
  /\ FinalBit
  /\ MaxChunk \in Nat /\ MaxBytes \in Nat /\ MaxTaken \in Nat

VARIABLES
  state, pending, pending_len,   \* ShakeAbsorb
  squeezer,     \* the latest squeezer: [type, state, offset], or NoSqueezer
  absorbed, sealed, taken, out,  \* history: see Xof
  permutations  \* history: how often the last call permuted

halves == <<state, pending, pending_len>>
vars   == <<state, pending, pending_len, squeezer,
            absorbed, sealed, taken, out, permutations>>

Promise == INSTANCE Xof

NoSqueezer == [type |-> "none"]

Clip(x, lo, hi) == IF x < lo THEN lo ELSE IF x > hi THEN hi ELSE x

----------------------------------------------------------------------------
(* shake_init *)
Init ==
  /\ state = <<>>
  /\ pending = [slot \in 0 .. Rate - 1 |-> Zero]
  /\ pending_len = 0
  /\ squeezer = NoSqueezer
  /\ absorbed = 0 /\ sealed = Promise!None /\ taken = 0
  /\ out = Promise!Nothing
  /\ permutations = 0

(* ShakeAbsorb.absorb                                                      *)
MinBlocks(length)    == length \div Rate
MaxBlocks(length)    == (Rate - 1 + length) \div Rate
ActiveBlocks(length) == (pending_len + length) \div Rate

(* As Stream, reading the unused slots of the pending buffer too.          *)
StreamWithGap(length) ==
  [pos \in 0 .. (MaxBlocks(length) + 1) * Rate - 1 |->
     LET src == Clip(pos, 0, Rate + length - 1)
     IN  IF src < Rate THEN pending[src] ELSE Msg(absorbed + (src - Rate))]

(* pending || data in stream order, the pending buffer's gap squeezed out. *)
Stream(length) ==
  [pos \in 0 .. (MaxBlocks(length) + 1) * Rate - 1 |->
     LET gap == IF pos < pending_len THEN 0 ELSE Rate - pending_len
         src == Clip(pos + gap, 0, Rate + length - 1)
     IN  IF src < Rate THEN pending[src] ELSE Msg(absorbed + (src - Rate))]

(* The chain's state after `count` blocks of the stream.                   *)
Chain(length, count) ==
  state \o [i \in 1 .. count |->
              [j \in 0 .. Rate - 1 |-> Stream(length)[(i - 1) * Rate + j]]]

(* As Merged, with the snapshot of the lower candidate one block late.     *)
MergedLate(length) ==
  IF ActiveBlocks(length) = MaxBlocks(length)
    THEN Chain(length, MaxBlocks(length))
    ELSE Chain(length, MinBlocks(length) + 1)

(* One pass to the upper bound; the lower candidate is the state partway.  *)
Merged(length) ==
  IF ActiveBlocks(length) = MaxBlocks(length)
    THEN Chain(length, MaxBlocks(length))
    ELSE Chain(length, MinBlocks(length))

TailLenOfLeast(length) ==     \* as TailLen, counted from the least candidate
  pending_len + length - MinBlocks(length) * Rate

TailLen(length) == pending_len + length - ActiveBlocks(length) * Rate

NewPending(length) ==
  LET start == Clip(ActiveBlocks(length) * Rate, 0, MaxBlocks(length) * Rate)
  IN  [slot \in 0 .. Rate - 1 |->
         IF slot < TailLen(length) THEN Stream(length)[start + slot] ELSE Zero]

Absorb(length) ==
  /\ absorbed + length <= MaxBytes
  /\ state' = Merged(length)
  /\ pending' = NewPending(length)
  /\ pending_len' = TailLen(length)
  /\ absorbed' = absorbed + length
  /\ out' = Promise!State
  /\ permutations' = MaxBlocks(length)
  /\ UNCHANGED <<squeezer, sealed, taken>>

----------------------------------------------------------------------------
(* ShakeAbsorb.finalize_blocks and finalize                                *)

(* The pad position is runtime data, so the suffix is placed by comparison *)
(* and the terminator flipped into the last byte.                          *)
FinalBlock ==
  [slot \in 0 .. Rate - 1 |->
     LET byte == IF slot = pending_len THEN Suffix
                 ELSE IF slot < pending_len THEN pending[slot] ELSE Zero
     IN  IF slot = Rate - 1 THEN SetBit7(byte) ELSE byte]

PaddedState == AbsorbBlock(state, FinalBlock)

Seal(type) ==
  /\ squeezer' = [type |-> type, state |-> PaddedState, offset |-> 0]
  /\ sealed' = absorbed /\ taken' = 0
  /\ out' = Promise!State
  /\ permutations' = 1
  /\ UNCHANGED <<halves, absorbed>>

FinalizeBlocks == Seal("blocks")
Finalize       == Seal("bytes")

(* ShakeBlockSqueeze.widen                                                 *)
Widen ==
  /\ squeezer.type = "blocks"
  /\ squeezer' = [squeezer EXCEPT !.type = "bytes", !.offset = 0]
  /\ out' = Promise!State
  /\ permutations' = 0
  /\ UNCHANGED <<halves, absorbed, sealed, taken>>

----------------------------------------------------------------------------
(* ShakeSqueeze.squeeze: emit the blocks any offset may need, slice, and   *)
(* carry the state the new offset lies in.                                 *)
Emitted(nbytes) == CeilBlocks(Rate - 1 + nbytes)

ChainShort(nbytes) == (Rate - 2 + nbytes) \div Rate   \* one byte short
ChainLength(nbytes) == (Rate - 1 + nbytes) \div Rate

(* The bytes of `count` blocks in order.                                   *)
BlockBytes(from, count) ==
  [p \in 0 .. count * Rate - 1 |-> ByteAt(Permuted(from, p \div Rate), p % Rate)]

SqueezedBytes(nbytes) ==
  LET stream == BlockBytes(squeezer.state, Emitted(nbytes))
      start  == Clip(squeezer.offset, 0, Emitted(nbytes) * Rate - nbytes)
  IN  [i \in 0 .. nbytes - 1 |-> stream[start + i]]

(* The selection defaults to the first state of the chain.                 *)
Carried(nbytes) ==
  LET consumed == (squeezer.offset + nbytes) \div Rate
  IN  Permuted(squeezer.state, IF consumed \in 1 .. ChainLength(nbytes) THEN consumed ELSE 0)

Squeeze(nbytes) ==
  /\ squeezer.type = "bytes"
  /\ nbytes >= 1
  /\ taken + nbytes <= MaxTaken
  /\ out' = [kind |-> "bytes", bytes |-> SqueezedBytes(nbytes)]
  /\ squeezer' = [squeezer EXCEPT !.state = Carried(nbytes),
                                  !.offset = (@ + nbytes) % Rate]
  /\ taken' = taken + nbytes
  /\ permutations' = ChainLength(nbytes)
  /\ UNCHANGED <<halves, absorbed, sealed>>

(* As NextBlock, without the permutation after the last block.             *)
StayOnLastBlock(from, nblocks) == Permuted(from, nblocks - 1)

(* ShakeBlockSqueeze.squeeze_blocks: a permutation after every block, the  *)
(* last included, so that the carry points at the next one.                *)
NextBlock(from, nblocks) == Permuted(from, nblocks)

SqueezeBlocks(nblocks) ==
  /\ squeezer.type = "blocks"
  /\ nblocks >= 1
  /\ taken + nblocks * Rate <= MaxTaken
  /\ out' = [kind |-> "bytes", bytes |-> BlockBytes(squeezer.state, nblocks)]
  /\ squeezer' = [squeezer EXCEPT !.state = NextBlock(@, nblocks)]
  /\ taken' = taken + nblocks * Rate
  /\ permutations' = nblocks
  /\ UNCHANGED <<halves, absorbed, sealed>>

(* Both refuse to take nothing.                                            *)
RejectSqueeze ==
  /\ squeezer.type \in {"bytes", "blocks"}
  /\ out' = Promise!ValueError
  /\ permutations' = 0
  /\ UNCHANGED <<halves, squeezer, absorbed, sealed, taken>>

Next ==
  \/ \E length \in 0 .. MaxChunk : Absorb(length)
  \/ FinalizeBlocks
  \/ Finalize
  \/ Widen
  \/ \E nbytes \in 1 .. MaxTaken : Squeeze(nbytes)
  \/ \E nblocks \in 1 .. MaxTaken \div Rate : SqueezeBlocks(nblocks)
  \/ RejectSqueeze

Spec == Init /\ [][Next]_vars

----------------------------------------------------------------------------
MessageBytes == {Msg(k) : k \in 0 .. MaxBytes - 1}

(* A state holds message bytes, a squeezer's the padding too; the offset   *)
(* is a position in a block.                                               *)
TypeOK ==
  /\ state \in Seq([0 .. Rate - 1 -> MessageBytes])
  /\ pending \in [0 .. Rate - 1 -> MessageBytes \cup {Zero}]
  /\ pending_len \in 0 .. Rate - 1
  /\ squeezer.type \in {"none", "bytes", "blocks"}
  /\ squeezer.type # "none" =>
       /\ squeezer.offset \in 0 .. Rate - 1
       /\ squeezer.type = "blocks" => squeezer.offset = 0
  /\ absorbed \in 0 .. MaxBytes
  /\ sealed \in 0 .. MaxBytes \cup {Promise!None}
  /\ taken \in 0 .. MaxTaken
  /\ out.kind \in {"none", "state", "bytes", "ValueError"}
  /\ permutations \in Nat

(* However the message was cut into absorbs, the absorbing half is where a *)
(* single pass leaves it: each complete block folded once and in order,    *)
(* the rest pending with zeros behind it.                                  *)
AbsorbResumable ==
  LET complete == absorbed \div Rate
  IN  /\ state = [i \in 1 .. complete |->
                    [j \in 0 .. Rate - 1 |-> Msg((i - 1) * Rate + j)]]
      /\ pending_len = absorbed - complete * Rate
      /\ pending = [slot \in 0 .. Rate - 1 |->
                      IF slot < pending_len THEN Msg(complete * Rate + slot) ELSE Zero]

(* "A run of squeezes returns the same bytes a single squeeze of the total *)
(* would": however the output was cut, the squeezer stands at the block    *)
(* and the offset its `taken`th byte lies in, for the message it was made  *)
(* from.                                                                   *)
SqueezeResumable ==
  squeezer.type # "none" =>
    /\ squeezer.state = Permuted(Absorbed(sealed), taken \div Rate)
    /\ squeezer.offset = taken % Rate

(* The bound on a squeeze's chain is enough at every offset, and not more  *)
(* than some offset needs: "the carried state can only be chain[k] for     *)
(* k <= (rate - 1 + nbytes) // rate".                                      *)
ChainIsExact ==
  squeezer.type = "bytes" =>
    \A nbytes \in 1 .. MaxTaken :
      /\ (squeezer.offset + nbytes) \div Rate <= ChainLength(nbytes)
      /\ squeezer.offset = Rate - 1 =>
           (squeezer.offset + nbytes) \div Rate = ChainLength(nbytes)

(* The incremental hash implements the extendable output of the one-shot   *)
(* hash, for both squeezers and across a widen.                            *)
ImplementsPromise == Promise!Spec
=============================================================================
