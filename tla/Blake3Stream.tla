----------------------------- MODULE Blake3Stream -----------------------------
(***************************************************************************)
(* blake3/streaming.py: a resumable BLAKE3.  The current chunk's running   *)
(* chaining value, its index as a pair of words, a partial block, and a    *)
(* stack of the completed subtrees to its left that is merged by looking   *)
(* at the bits of the chunk count.  The block count of an absorb is        *)
(* runtime data: the loop runs to a static bound and skips the rest.       *)
(***************************************************************************)
EXTENDS Blake3Tree, FiniteSets

CONSTANTS
  MaxStack,  \* levels of the subtree stack (54)
  MaxChunk,  \* the longest absorb, a bound of the model
  MaxBytes,  \* the longest message, a bound of the model
  MaxOut     \* the longest output read, a bound of the model

(* The stack holds the chunks of 2^64 bytes, and the counter counts past   *)
(* them.                                                                   *)
ASSUME StreamAssumption ==
  /\ MaxStack \in 1 .. 2 * WordBits
  /\ MaxChunk \in Nat /\ MaxBytes \in Nat /\ MaxOut \in Nat
  /\ MaxBytes <= ChunkLen * PowerOfTwo[MaxStack]

VARIABLES
  stream,    \* the Blake3Stream record
  absorbed,  \* history: bytes absorbed
  result     \* history: what the last call returned

vars == <<stream, absorbed, result>>

Promise == INSTANCE Blake3OneShot

Clip(x, lo, hi) == IF x < lo THEN lo ELSE IF x > hi THEN hi ELSE x

(* blake3_stream_init *)
Init ==
  /\ stream = [stack      |-> [i \in 0 .. MaxStack - 1 |-> Zero],
               stack_len  |-> 0,
               chunk_cv   |-> KeyWords,
               counter    |-> <<0, 0>>,
               block      |-> [j \in 0 .. BlockLen - 1 |-> Zero],
               block_len  |-> 0,
               compressed |-> 0]
  /\ absorbed = 0
  /\ result = Promise!Nothing

----------------------------------------------------------------------------
(* As CounterInc, with the carry lost.                                     *)
CounterIncNoCarry(counter) == <<(counter[1] + 1) % Word, counter[2]>>

CounterInc(counter) ==
  LET lo == (counter[1] + 1) % Word
  IN  <<lo, (counter[2] + (IF lo = 0 THEN 1 ELSE 0)) % Word>>

(* _bit: bit i of the pair.                                                *)
Bit(counter, i) ==
  LET word == IF i < WordBits THEN counter[1] ELSE counter[2]
  IN  (word \div PowerOfTwo[i % WordBits]) % 2

(* How often _push_chunk_cv's loop merges: while the chunk count is even   *)
(* at this level and the stack is not empty.                               *)
MergesSkippingFirst(total, slen) ==     \* as Merges, starting at bit 1
  CHOOSE k \in 0 .. slen :
    /\ k = slen \/ Bit(total, k + 1) = 1
    /\ \A j \in 0 .. k - 1 : Bit(total, j + 1) = 0

Merges(total, slen) ==
  CHOOSE k \in 0 .. slen :
    /\ k = slen \/ Bit(total, k) = 1
    /\ \A j \in 0 .. k - 1 : Bit(total, j) = 0

(* The value pushed, after k merges with the top of the stack.             *)
MergedValue(s, cv, k) ==
  LET merged[j \in 0 .. k] ==
        IF j = 0 THEN cv
        ELSE ChainingValue(Parent(s.stack[s.stack_len - j], merged[j - 1]))
  IN  merged[k]

PushWithoutReset(s, cv) ==     \* as PushChunkCv, the block count kept
  LET k == Merges(CounterInc(s.counter), s.stack_len)
  IN  [s EXCEPT !.stack[s.stack_len - k] = MergedValue(s, cv, k),
                !.stack_len = @ - k + 1,
                !.counter = CounterInc(@),
                !.chunk_cv = KeyWords]

PushChunkCv(s, cv) ==
  LET total == CounterInc(s.counter)
      k     == Merges(total, s.stack_len)
      at    == Clip(s.stack_len - k, 0, MaxStack - 1)
  IN  [s EXCEPT !.stack[at] = MergedValue(s, cv, k),
                !.stack_len = @ - k + 1,
                !.counter = total,
                !.chunk_cv = KeyWords,
                !.compressed = 0]

(* _absorb_block: the chunk's last block finishes the chunk.               *)
AbsorbBlock(s, block) ==
  LET last  == s.compressed = BlocksPerChunk - 1
      flags == (IF s.compressed = 0 THEN {"CHUNK_START"} ELSE {})
                 \cup (IF last THEN {"CHUNK_END"} ELSE {})
      cv    == ChainingValue(Node(s.chunk_cv, block, s.counter, BlockLen, flags))
      advanced == [s EXCEPT !.chunk_cv = cv, !.compressed = @ + 1]
  IN  IF last THEN PushChunkCv(advanced, cv) ELSE advanced

----------------------------------------------------------------------------
(* absorb's work buffer: the partial block, the data written over it at    *)
(* the runtime offset, and a block of headroom.                            *)
Work(length) ==
  [p \in 0 .. 2 * BlockLen + length - 1 |->
     IF p \in stream.block_len .. stream.block_len + length - 1
       THEN Msg(absorbed + (p - stream.block_len))
     ELSE IF p < BlockLen THEN stream.block[p] ELSE Zero]

WorkBlock(length, i) == [j \in 0 .. BlockLen - 1 |-> Work(length)[i * BlockLen + j]]

(* As LiveBlocks, compressing the final block too.                         *)
LiveBlocksEager(length) == (stream.block_len + length) \div BlockLen

(* The final block stays uncompressed, whether or not it is full.          *)
LiveBlocks(length) == (stream.block_len + length - 1) \div BlockLen
MaxBlocks(length)  == (BlockLen + length - 1) \div BlockLen

(* The fori_loop to the static bound; a step past the live count is none.  *)
AfterBlocks(length) ==
  LET step[i \in 0 .. MaxBlocks(length)] ==
        IF i = 0 THEN stream
        ELSE IF i - 1 < LiveBlocks(length)
               THEN AbsorbBlock(step[i - 1], WorkBlock(length, i - 1))
               ELSE step[i - 1]
  IN  step[MaxBlocks(length)]

Absorb(length) ==
  LET rest == stream.block_len + length - LiveBlocks(length) * BlockLen
      tail == WorkBlock(length, LiveBlocks(length))
  IN  /\ absorbed + length <= MaxBytes
      /\ stream' = IF length = 0 THEN stream
                   ELSE [AfterBlocks(length) EXCEPT
                           !.block = [j \in 0 .. BlockLen - 1 |->
                                        IF j < rest THEN tail[j] ELSE Zero],
                           !.block_len = rest]
      /\ absorbed' = absorbed + length
      /\ result' = Promise!State

(* finalize: the pending block ends the chunk, and the stack folds onto    *)
(* it from the top.                                                        *)
LastNode ==
  Node(stream.chunk_cv, stream.block, stream.counter, stream.block_len,
       {"CHUNK_END"} \cup (IF stream.compressed = 0 THEN {"CHUNK_START"} ELSE {}))

Root ==
  LET fold[k \in 0 .. stream.stack_len] ==
        IF k = 0 THEN LastNode
        ELSE Parent(stream.stack[stream.stack_len - k], ChainingValue(fold[k - 1]))
  IN  fold[stream.stack_len]

Finalize(out_len) ==
  /\ out_len >= 1
  /\ result' = [kind |-> "bytes", bytes |-> RootBytes(Root, out_len)]
  /\ UNCHANGED <<stream, absorbed>>

RejectFinalize ==
  /\ result' = Promise!ValueError
  /\ UNCHANGED <<stream, absorbed>>

Next ==
  \/ \E length \in 0 .. MaxChunk : Absorb(length)
  \/ \E out_len \in 1 .. MaxOut : Finalize(out_len)
  \/ RejectFinalize

Spec == Init /\ [][Next]_vars

----------------------------------------------------------------------------
(* The chunk the stream is in, as a number of any size.                    *)
ChunkIndex == stream.counter[1] + Word * stream.counter[2]

(* The counters stay in the ranges their positions have.                   *)
TypeOK ==
  /\ DOMAIN stream.stack = 0 .. MaxStack - 1
  /\ stream.stack_len \in 0 .. MaxStack
  /\ stream.counter \in (0 .. Word - 1) \X (0 .. Word - 1)
  /\ DOMAIN stream.block = 0 .. BlockLen - 1
  /\ stream.block_len \in 0 .. BlockLen
  /\ stream.compressed \in 0 .. BlocksPerChunk - 1
  /\ absorbed \in 0 .. MaxBytes
  /\ result.kind \in {"none", "state", "bytes", "ValueError"}

(* However the message was cut, the position, the pending block and the    *)
(* chunk's running value are those of a single pass; and once anything is  *)
(* absorbed a block is always held back, since which block ends a chunk,   *)
(* or the message, is known only when more input arrives.                  *)
PositionResumable ==
  /\ absorbed = ChunkIndex * ChunkLen + stream.compressed * BlockLen + stream.block_len
  /\ absorbed > 0 => stream.block_len > 0
  /\ stream.block = MessageBlock(absorbed, ChunkIndex * BlocksPerChunk + stream.compressed)
  /\ stream.chunk_cv = Chain(KeyWords, absorbed, ChunkIndex, 0, stream.compressed)

(* How many bits of v are set, and the chunks that the i lowest entries of *)
(* the stack cover: the chunk index with all but its i highest bits clear. *)
Ones(v) == Cardinality({b \in 0 .. 2 * WordBits - 1 : (v \div PowerOfTwo[b]) % 2 = 1})

ChunksBelow(i) ==
  CHOOSE v \in {ChunkIndex - (ChunkIndex % PowerOfTwo[b]) : b \in 0 .. 2 * WordBits} : Ones(v) = i

(* The stack holds, from the bottom, one perfect subtree for every bit set *)
(* in the number of completed chunks, the largest first: together they     *)
(* cover every chunk before the current one exactly once.  No merge was    *)
(* skipped, made early or made twice, across a carry of the counter too,   *)
(* and no stale entry above the top is ever taken for a live one.          *)
StackIsBinary ==
  /\ stream.stack_len = Ones(ChunkIndex)
  /\ \A i \in 0 .. stream.stack_len - 1 :
       stream.stack[i] =
         ChainingValue(Subtree(absorbed, ChunksBelow(i), ChunksBelow(i + 1) - ChunksBelow(i)))

(* The batched hash reduces level by level from the bottom, with a short   *)
(* chunk sharing the others' leading blocks: "pairing from the bottom is   *)
(* the spec's tree, not an approximation of it", at every length.          *)
LevelsAreTheTree == TreeOutput(absorbed) = SpecRoot(absorbed)

(* A stream read at any point returns the one-shot hash of what it has     *)
(* absorbed, and is not disturbed by being read.                           *)
ImplementsPromise == Promise!Spec
=============================================================================
