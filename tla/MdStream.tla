------------------------------ MODULE MdStream ------------------------------
(***************************************************************************)
(* extension/md.py's MdStream, the incremental half of SHA-256 and         *)
(* SHA-512: a midstate over the complete blocks, a pending partial block   *)
(* and two counters.  Shapes are static and positions are runtime data, so *)
(* absorb reads through a gather that skips the unused part of the pending *)
(* buffer and picks between two candidate block counts, and finalize picks *)
(* between a one-block and a two-block ending.                             *)
(*                                                                         *)
(* A midstate is named by the sequence of blocks folded into it (the       *)
(* initial state is the empty one); see PadRule for what a byte is.        *)
(***************************************************************************)
EXTENDS PadRule, Sequences

CONSTANTS
  Rows,      \* the rows of a finalize's batch
  MaxChunk,  \* the longest absorb, a bound of the model
  MaxBytes   \* the longest stream, a bound of the model

ASSUME StreamAssumption ==
  /\ Trailer = "BIT_LENGTH"
  /\ MaxChunk \in Nat
  /\ MaxBytes \in Nat

VARIABLES
  h,            \* the midstate over the complete blocks
  pending,      \* the trailing partial block
  pending_len,  \* counts[0]: how much of it is valid
  total_len,    \* counts[1]: bytes absorbed, an int32
  absorbed,     \* history: bytes absorbed, as a number of any size
  result        \* what the last call returned

state == <<h, pending, pending_len, total_len>>
vars  == <<h, pending, pending_len, total_len, absorbed, result>>

Promise == INSTANCE MdOneShot

(* The chain over blocks first .. last - 1 of a byte region.               *)
Fold(midstate, bytes, first, last) == midstate \o Blocks(bytes, first, last)

(* As GapSkip, reading the unused slots of the pending buffer too.         *)
GapNotSkipped(pos) == pos

(* Where stream position `pos` lies in pending || data.                    *)
GapSkip(pos) == pos + (IF pos < pending_len THEN 0 ELSE Block - pending_len)

----------------------------------------------------------------------------
Init ==
  /\ h = <<>>
  /\ pending = [slot \in 0 .. Block - 1 |-> Zero]
  /\ pending_len = 0
  /\ total_len = 0
  /\ absorbed = 0
  /\ result = Promise!Nothing

(* The block counts an absorb of `length` bytes may complete: the least    *)
(* and the most, whatever is pending.                                      *)
MinBlocks(length) == length \div Block
MaxBlocksShort(length) == (Block - 2 + length) \div Block   \* one byte short
MaxBlocks(length) == (Block - 1 + length) \div Block
ActiveBlocks(length) == (pending_len + length) \div Block

(* pending || data gathered in stream order; data is the next `length`     *)
(* bytes of the message.  Past the last byte the clip repeats it.          *)
Combined(length) ==
  [pos \in 0 .. (MaxBlocks(length) + 1) * Block - 1 |->
     LET src == Clip(GapSkip(pos), 0, Block + length - 1)
     IN  IF src < Block THEN pending[src] ELSE Msg(absorbed + (src - Block))]

(* The midstate over the low candidate, continued over the block that      *)
(* separates the two, and the selection between them.                      *)
NewMidstate(length) ==
  LET low  == Fold(h, Combined(length), 0, MinBlocks(length))
      high == Fold(low, Combined(length), MinBlocks(length), MaxBlocks(length))
  IN  IF /\ MaxBlocks(length) > MinBlocks(length)
         /\ ActiveBlocks(length) = MaxBlocks(length)
        THEN high ELSE low

(* As TailLen, counted from the least candidate instead of the live one.   *)
TailLenOfLeast(length) == pending_len + length - MinBlocks(length) * Block

TailLen(length) == pending_len + length - ActiveBlocks(length) * Block

(* A dynamic slice clamps its start into range.                            *)
NewPending(length) ==
  LET start == Clip(ActiveBlocks(length) * Block, 0, MaxBlocks(length) * Block)
  IN  [slot \in 0 .. Block - 1 |->
         IF slot < TailLen(length) THEN Combined(length)[start + slot] ELSE Zero]

Absorb(length) ==
  /\ absorbed + length <= MaxBytes
  /\ h' = NewMidstate(length)
  /\ pending' = NewPending(length)
  /\ pending_len' = TailLen(length)
  /\ total_len' = Signed(total_len + length)
  /\ absorbed' = absorbed + length
  /\ result' = Promise!State

----------------------------------------------------------------------------
(* As TwoBlocks, with no room kept for the mark.                           *)
TwoBlocksLate(e) == pending_len + e > Block - Reserve

(* Two blocks unless the content, the mark and the reserve fit in one.     *)
TwoBlocks(e) == pending_len + e > Block - Reserve - 1

(* pending[:pending_len] || extras[row], in the first slots of two blocks. *)
Content(e, row) ==
  [pos \in 0 .. 2 * Block - 1 |->
     LET src == Clip(GapSkip(pos), 0, Block + e - 1)
     IN  IF src < Block THEN pending[src] ELSE Promise!Extra(row, src - Block)]

Region(e, row) ==
  PaddedRegion(Content(e, row), pending_len + e,
               IF TwoBlocks(e) THEN 2 * Block ELSE Block,
               TrailerField(Signed(total_len + e)))

Digest(e, row) ==
  IF TwoBlocks(e) THEN Fold(h, Region(e, row), 0, 2)
                  ELSE Fold(h, Region(e, row), 0, 1)

Finalize(e) ==
  /\ e <= Block - Reserve
  /\ result' = [kind |-> "digests", length |-> absorbed + e,
                rows |-> [r \in Rows |-> Digest(e, r)]]
  /\ UNCHANGED <<state, absorbed>>

(* A wider tail might not fit two blocks at every offset.                  *)
RejectFinalize(e) ==
  /\ e > Block - Reserve
  /\ result' = Promise!ValueError
  /\ UNCHANGED <<state, absorbed>>

Next ==
  \/ \E length \in 0 .. MaxChunk : Absorb(length)
  \/ \E e \in 0 .. Block : Finalize(e) \/ RejectFinalize(e)

Spec == Init /\ [][Next]_vars

----------------------------------------------------------------------------
(* Byte positions hold message bytes or zeros; the counters hold what an   *)
(* int32 and a position in a block can.                                    *)
MessageBytes == {Msg(k) : k \in 0 .. MaxBytes - 1}

TypeOK ==
  /\ h \in Seq([0 .. Block - 1 -> MessageBytes])
  /\ pending \in [0 .. Block - 1 -> MessageBytes \cup {Zero}]
  /\ pending_len \in 0 .. Block - 1
  /\ total_len \in -(Word \div 2) .. (Word \div 2) - 1
  /\ absorbed \in 0 .. MaxBytes
  /\ result.kind \in {"none", "state", "digests", "ValueError"}

(* However the message was cut into absorbs, and whatever finalizes came   *)
(* between them, the state is the one a single pass over the same bytes    *)
(* leaves: every complete block folded once and in order, the remainder    *)
(* pending with zeros behind it, and counters that agree with both.  No    *)
(* byte is lost to the gap the gather skips, and neither the junk past the *)
(* last byte nor the candidate that was not selected ever shows.           *)
Resumable ==
  LET complete == absorbed \div Block
      start    == complete * Block
  IN  /\ h = [i \in 1 .. complete |->
                [j \in 0 .. Block - 1 |-> Msg((i - 1) * Block + j)]]
      /\ pending_len = absorbed - start
      /\ pending = [slot \in 0 .. Block - 1 |->
                      IF slot < pending_len THEN Msg(start + slot) ELSE Zero]
      /\ total_len = Signed(absorbed)

(* "The live block count depends on pending_len by AT MOST one": the two   *)
(* static candidates of an absorb cover every position a stream can be at. *)
CandidatesSuffice ==
  \A length \in 0 .. MaxChunk :
    /\ ActiveBlocks(length) \in {MinBlocks(length), MaxBlocks(length)}
    /\ MaxBlocks(length) - MinBlocks(length) \in {0, 1}

(* A finalize returns, for every row, the digest the whole-message call    *)
(* computes for absorbed || extras[row] -- as long as the length is below  *)
(* the 4 GiB ceiling of sha256_stream_finalize's docstring, and so also    *)
(* past 2 GiB, where the int32 counter has wrapped to a negative number.   *)
FinalizeIsOneShot ==
  result.kind = "digests" /\ result.length < Word =>
    \A r \in Rows : result.rows[r] =
                      Promise!OneShot(absorbed, result.length - absorbed, r)

(* The stream implements the one-shot promise at every length, the wrapped *)
(* ones included: there, and only there, the length field is the length    *)
(* modulo 2^32.                                                            *)
ImplementsPromise == Promise!Spec
=============================================================================
