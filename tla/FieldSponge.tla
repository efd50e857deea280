----------------------------- MODULE FieldSponge -----------------------------
(***************************************************************************)
(* sponge.py's overwrite-mode hash of a 1-D input of any length, a block   *)
(* per iteration of extension/sponge.py's field_absorb, under each rule    *)
(* for how the chain crosses the capacity.  The length is runtime data, so *)
(* a block is gathered through clamped indices and masked by its width.    *)
(*                                                                         *)
(* A lane holds an input element, zero among them, or an output lane of a  *)
(* permutation named by the lanes that went into it: the permutation is a  *)
(* free term, whose lanes are no elements.                                 *)
(***************************************************************************)
EXTENDS FieldLanes, FiniteSets

CONSTANTS
  Shapes,     \* the SpongeParams records [rate, out] hashed with
  Elements,   \* input elements, Zero among them
  Zero,
  MaxLength   \* the longest input, a bound of the model

(* SpongeParams.__post_init__ and Sponge.__init__ *)
ASSUME SpongeAssumption ==
  /\ Width \in Nat
  /\ \A shape \in Shapes :
       /\ shape.rate \in 1 .. Width - 1
       /\ shape.out \in 1 .. Width
  /\ Zero \in Elements
  /\ MaxLength \in Nat

VARIABLES
  call,    \* the hash in progress, or Idle
  result   \* what the last call returned, while none is running

fsVars == <<call, result>>

Chainings == {"IMPLICIT_CAPACITY", "DIGEST_IN_CAPACITY"}

Element(e) == <<"element", e>>
ZeroState == [lane \in Lanes |-> Element(Zero)]
Permutation(lanes) == [lane \in Lanes |-> <<"lane", lane, lanes>>]

Messages == UNION {[0 .. n - 1 -> Elements] : n \in 0 .. MaxLength}
Length(message) == Cardinality(DOMAIN message)
CeilDiv(n, rate) == (n + rate - 1) \div rate

(* The digest fills the whole capacity.                                    *)
Fits(chaining, shape) ==
  chaining = "DIGEST_IN_CAPACITY" => shape.rate + shape.out = Width

----------------------------------------------------------------------------
Idle == [kind |-> "idle"]
ValueError == [kind |-> "ValueError"]
Digest(c, lanes) ==
  [kind |-> "digest", chaining |-> c.chaining, shape |-> c.shape,
   message |-> c.message, digest |-> [lane \in 0 .. c.shape.out - 1 |-> lanes[lane]]]

Call(chaining, shape, message) ==
  [kind |-> "call", chaining |-> chaining, shape |-> shape, message |-> message,
   lanes |-> ZeroState, i |-> 0]

(* As Blocks, counting one more where the last block is full.              *)
BlocksPastFull(c) == Length(c.message) \div c.shape.rate + 1

Blocks(c) == CeilDiv(Length(c.message), c.shape.rate)

(* As TailFill, the two rules swapped.                                     *)
TailSwapped(c, lane) == IF c.chaining = "IMPLICIT_CAPACITY" THEN Element(Zero) ELSE c.lanes[lane]

(* The masked lanes of a partial block: what was there, or zeros.          *)
TailFill(c, lane) == IF c.chaining = "IMPLICIT_CAPACITY" THEN c.lanes[lane] ELSE Element(Zero)

(* The rate overwritten by block i, gathered with its indices clamped.     *)
RateOverwritten(c) ==
  LET n     == Length(c.message)
      start == c.i * c.shape.rate
      w     == IF n - start < c.shape.rate THEN n - start ELSE c.shape.rate
      at(k) == IF k > n - 1 THEN n - 1 ELSE k
  IN  [lane \in Lanes |->
         IF lane >= c.shape.rate THEN c.lanes[lane]
         ELSE IF lane < w THEN Element(c.message[at(start + lane)])
         ELSE TailFill(c, lane)]

(* As SetCapacity, the digest read after the rate is overwritten.          *)
SnapshotLate(c, lanes) ==
  [lane \in Lanes |->
     IF lane >= c.shape.rate /\ c.chaining = "DIGEST_IN_CAPACITY"
       THEN lanes[lane - c.shape.rate] ELSE lanes[lane]]

(* The digest before this block, placed in the capacity.                   *)
SetCapacity(c, lanes) ==
  [lane \in Lanes |->
     IF /\ c.chaining = "DIGEST_IN_CAPACITY"
        /\ lane \in c.shape.rate .. c.shape.rate + c.shape.out - 1
       THEN c.lanes[lane - c.shape.rate] ELSE lanes[lane]]

----------------------------------------------------------------------------
FSInit == call = Idle /\ result = Idle

Hash(chaining, shape, message) ==
  /\ call = Idle
  /\ Fits(chaining, shape)
  /\ Length(message) > 0
  /\ call' = Call(chaining, shape, message)
  /\ result' = Idle

(* No block is absorbed and nothing permuted.                              *)
HashEmpty(chaining, shape, message) ==
  /\ call = Idle
  /\ Fits(chaining, shape)
  /\ Length(message) = 0
  /\ result' = Digest(Call(chaining, shape, message), ZeroState)
  /\ UNCHANGED call

RejectHash(chaining, shape) ==
  /\ call = Idle
  /\ ~Fits(chaining, shape)
  /\ result' = ValueError
  /\ UNCHANGED call

AbsorbBlock ==
  /\ call # Idle
  /\ call.i < Blocks(call)
  /\ call' = [call EXCEPT !.lanes = Permutation(SetCapacity(call, RateOverwritten(call))),
                          !.i = @ + 1]
  /\ UNCHANGED result

Truncate ==
  /\ call # Idle
  /\ call.i = Blocks(call)
  /\ result' = Digest(call, call.lanes)
  /\ call' = Idle

FSNext ==
  \/ \E chaining \in Chainings, shape \in Shapes :
       \/ \E message \in Messages :
            Hash(chaining, shape, message) \/ HashEmpty(chaining, shape, message)
       \/ RejectHash(chaining, shape)
  \/ AbsorbBlock
  \/ Truncate

FSSpec == FSInit /\ [][FSNext]_fsVars

----------------------------------------------------------------------------
(* Every block absorbed started inside the input, and lanes are lanes.     *)
FSTypeOK ==
  /\ call # Idle =>
       /\ DOMAIN call.lanes = Lanes
       /\ call.i \in Nat
       /\ call.i > 0 => (call.i - 1) * call.shape.rate < Length(call.message)
  /\ result.kind \in {"idle", "ValueError", "digest"}

(* Plonky3's padding-free sponge, an element at a time: overwrite the next *)
(* rate lane, and permute when the block is full or the input ends.        *)
ElementAtATime(message, shape) ==
  LET n == Length(message)
      run[k \in 0 .. n] ==
        IF k = 0 THEN ZeroState
        ELSE LET put == [run[k - 1] EXCEPT ![(k - 1) % shape.rate] = Element(message[k - 1])]
             IN  IF k % shape.rate = 0 \/ k = n THEN Permutation(put) ELSE put
  IN  [lane \in 0 .. shape.out - 1 |-> run[n][lane]]

(* Lane `lane` of block i, zeros past the end of the input.                *)
PaddedLane(message, k) == Element(IF k < Length(message) THEN message[k] ELSE Zero)

(* The chain of digests: the next one is the head of the permutation of    *)
(* the zero-padded block beside the last one.                              *)
ChainOfDigests(message, shape) ==
  LET digest[i \in 0 .. CeilDiv(Length(message), shape.rate)] ==
        IF i = 0 THEN [lane \in 0 .. shape.out - 1 |-> Element(Zero)]
        ELSE LET before == digest[i - 1]
                 after  == Permutation([lane \in Lanes |->
                             IF lane < shape.rate
                               THEN PaddedLane(message, (i - 1) * shape.rate + lane)
                               ELSE before[lane - shape.rate]])
             IN  [lane \in 0 .. shape.out - 1 |-> after[lane]]
  IN  digest[CeilDiv(Length(message), shape.rate)]

Reference(chaining, message, shape) ==
  IF chaining = "IMPLICIT_CAPACITY" THEN ElementAtATime(message, shape)
                                    ELSE ChainOfDigests(message, shape)

(* The masked block-at-a-time hash is the construction of its rule at      *)
(* every length: Plonky3's padding-free sponge where the capacity carries  *)
(* the chain (a partial last block "overwrites only its lanes", says       *)
(* testing/sponge_test.py), and where the digest does, a chain that reads  *)
(* nothing of the state but the digest.                                    *)
HashesLikeReference ==
  result.kind = "digest" =>
    result.digest = Reference(result.chaining, result.message, result.shape)

(* What two inputs share when they hash alike: all of their elements, up   *)
(* to zeros at the end of a partial block -- the only block, where the     *)
(* masked lanes keep the state, since later ones are not zero.             *)
SamePadded(chaining, shape, m, n) ==
  LET blocks(x) == CeilDiv(Length(x), shape.rate)
  IN  /\ blocks(m) = blocks(n)
      /\ \A k \in 0 .. MaxLength : PaddedLane(m, k) = PaddedLane(n, k)
      /\ chaining = "IMPLICIT_CAPACITY" /\ blocks(m) > 1 => Length(m) = Length(n)

(* The rules are for inputs of a length the caller fixes: neither pads     *)
(* with a mark.  Exactly the inputs that a zero-padded partial block makes *)
(* alike collide, and no mask, clamp or capacity write confuses any other  *)
(* two (docs/blocks/hash.md names the rules; nothing tests this).          *)
CollidesOnlyOnPadding ==
  result.kind = "digest" =>
    \A other \in Messages :
      Reference(result.chaining, other, result.shape) = result.digest
        <=> SamePadded(result.chaining, result.shape, other, result.message)
=============================================================================
