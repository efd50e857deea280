-------------------------- MODULE ShakeStreamProofs --------------------------
(***************************************************************************)
(* What TLC checks of ShakeStream on one small instance, for every rate    *)
(* and every length of message and output.                                 *)
(***************************************************************************)
EXTENDS ShakeStream, Arithmetic

(* What absorbing n blocks in one pass leaves.                             *)
FullBlocks(n) ==
  [i \in 1 .. n |-> [j \in 0 .. Rate - 1 |-> Msg((i - 1) * Rate + j)]]

(* The squeezer is a function of what it was made from and of what it has  *)
(* handed out, and the whole-block one only ever stands between blocks.    *)
SqueezerAt(type) ==
  /\ squeezer = [type   |-> type,
                 state  |-> Permuted(Absorbed(sealed), taken \div Rate),
                 offset |-> taken % Rate]
  /\ sealed \in 0 .. MaxBytes
  /\ type = "blocks" => taken % Rate = 0

(* The inductive invariant.  AbsorbResumable needs no more than `absorbed` *)
(* being a number; SqueezeResumable says nothing of the position a         *)
(* whole-block squeezer may stand at, which its next squeeze relies on.    *)
IInv ==
  /\ absorbed \in 0 .. MaxBytes
  /\ AbsorbResumable
  /\ taken \in 0 .. MaxTaken
  /\ \/ squeezer = NoSqueezer /\ sealed = Promise!None
     \/ \E type \in {"bytes", "blocks"} : SqueezerAt(type)

----------------------------------------------------------------------------
(* The absorbing half.                                                     *)

(* What the assumptions on the constants say of each of them.              *)
LEMMA Constants ==
  /\ Rate \in Nat \ {0}
  /\ FinalBit
  /\ MaxChunk \in Nat /\ MaxBytes \in Nat /\ MaxTaken \in Nat
BY SpongeAssumption, ShakeAssumption

(* The position of the stream inside its last block.                       *)
LEMMA Position ==
  ASSUME IInv
  PROVE  /\ absorbed \in Nat
         /\ absorbed \div Rate \in Nat
         /\ pending_len \in 0 .. Rate - 1
         /\ absorbed = (absorbed \div Rate) * Rate + pending_len
<1>1. absorbed \in Nat /\ Rate \in Nat \ {0}
  BY Constants DEF IInv
<1>2. /\ absorbed \div Rate \in Nat
      /\ absorbed % Rate \in 0 .. Rate - 1
      /\ absorbed = (absorbed \div Rate) * Rate + (absorbed % Rate)
  BY <1>1, DivModNat
<1>3. pending_len = absorbed - (absorbed \div Rate) * Rate
  BY DEF IInv, AbsorbResumable
<1>. QED
  BY <1>1, <1>2, <1>3

(* "The static shape bound and the runtime count differ by at most one":   *)
(* the block counts an absorb computes, for any position inside a block.   *)
LEMMA BlockCounts ==
  ASSUME pending_len \in 0 .. Rate - 1, NEW length \in Nat
  PROVE  /\ ActiveBlocks(length) \in Nat
         /\ MinBlocks(length) \in Nat
         /\ MaxBlocks(length) \in Nat
         /\ ActiveBlocks(length) \in {MinBlocks(length), MaxBlocks(length)}
         /\ MaxBlocks(length) - MinBlocks(length) \in {0, 1}
         /\ TailLen(length) \in 0 .. Rate - 1
         /\ pending_len + length < (MaxBlocks(length) + 1) * Rate
BY Constants, QuotientBounds DEF ActiveBlocks, MinBlocks, MaxBlocks, TailLen

(* The gather of an absorb: its first pending_len + length positions are   *)
(* the message from the start of the pending block on.                     *)
LEMMA GatherValid ==
  ASSUME IInv, NEW length \in Nat, NEW pos \in 0 .. pending_len + length - 1
  PROVE  Stream(length)[pos] = Msg((absorbed \div Rate) * Rate + pos)
<1>. DEFINE start == (absorbed \div Rate) * Rate
            gap   == IF pos < pending_len THEN 0 ELSE Rate - pending_len
            src   == Clip(pos + gap, 0, Rate + length - 1)
<1>1. /\ Rate \in Nat \ {0}
      /\ pending_len \in 0 .. Rate - 1
      /\ start \in Int
      /\ absorbed = start + pending_len
  BY Constants, Position
<1>2. \A slot \in 0 .. Rate - 1 :
        pending[slot] = IF slot < pending_len THEN Msg(start + slot) ELSE Zero
  BY DEF IInv, AbsorbResumable
<1>. HIDE DEF start
<1>3. pos \in 0 .. (MaxBlocks(length) + 1) * Rate - 1
  BY <1>1, BlockCounts
<1>4. Stream(length)[pos] = IF src < Rate THEN pending[src]
                                          ELSE Msg(absorbed + (src - Rate))
  BY <1>3 DEF Stream
<1>5. CASE pos < pending_len
  <2>1. src = pos
    BY <1>1, <1>5 DEF Clip
  <2>. HIDE DEF src
  <2>. QED
    BY <1>1, <1>2, <1>4, <1>5, <2>1 DEF start
<1>6. CASE pos >= pending_len
  <2>1. src = Rate + (pos - pending_len)
    BY <1>1, <1>6 DEF Clip
  <2>. HIDE DEF src
  <2>2. ~(src < Rate) /\ absorbed + (src - Rate) = start + pos
    BY <1>1, <1>6, <2>1
  <2>. QED
    BY <1>4, <2>2 DEF start
<1>. QED
  BY <1>1, <1>5, <1>6

(* The chain after `count` blocks that the data completes.                 *)
LEMMA ChainValid ==
  ASSUME IInv, NEW length \in Nat, NEW count \in Nat,
         count * Rate <= pending_len + length
  PROVE  Chain(length, count) = FullBlocks((absorbed \div Rate) + count)
<1>. DEFINE c == absorbed \div Rate
            t == [i \in 1 .. count |->
                    [j \in 0 .. Rate - 1 |-> Stream(length)[(i - 1) * Rate + j]]]
            u == Concat(state, t)
            n == c + count
<1>1. /\ Rate \in Nat \ {0}
      /\ pending_len \in 0 .. Rate - 1
      /\ c \in Nat
  BY Constants, Position
<1>2. state = FullBlocks(c)
  BY DEF IInv, AbsorbResumable, FullBlocks
<1>3. ASSUME NEW i \in 1 .. count
      PROVE  t[i] = [j \in 0 .. Rate - 1 |-> Msg((c + i - 1) * Rate + j)]
  <2>1. ASSUME NEW j \in 0 .. Rate - 1
        PROVE  Stream(length)[(i - 1) * Rate + j] = Msg((c + i - 1) * Rate + j)
    <3>1. (i - 1) * Rate + j \in 0 .. pending_len + length - 1
      <4>1. i * Rate <= count * Rate
        BY <1>1
      <4>2. i * Rate = (i - 1) * Rate + Rate /\ (i - 1) * Rate \in Nat
        BY <1>1
      <4>. QED
        BY <4>1, <4>2, <1>1
    <3>2. Stream(length)[(i - 1) * Rate + j] = Msg(c * Rate + ((i - 1) * Rate + j))
      BY <3>1, GatherValid
    <3>3. c * Rate + ((i - 1) * Rate + j) = (c + i - 1) * Rate + j
      BY <1>1
    <3>. QED
      BY <3>2, <3>3
  <2>2. t[i] = [j \in 0 .. Rate - 1 |-> Stream(length)[(i - 1) * Rate + j]]
    OBVIOUS
  <2>. HIDE DEF t
  <2>. QED
    BY <2>1, <2>2
<1>4. Tabulated(state, c) /\ Tabulated(t, count)
  BY <1>2 DEF FullBlocks, Tabulated
<1>. HIDE DEF t, c
<1>5. /\ Tabulated(u, c + count)
      /\ \A i \in 1 .. c + count : u[i] = IF i <= c THEN state[i] ELSE t[i - c]
  BY <1>1, <1>4, ConcatTabulated
<1>. HIDE DEF u
<1>6. ASSUME NEW i \in 1 .. c + count
      PROVE  u[i] = [j \in 0 .. Rate - 1 |-> Msg((i - 1) * Rate + j)]
  <2>1. CASE i <= c
    <3>1. u[i] = state[i] /\ i \in 1 .. c
      BY <1>1, <1>5, <2>1
    <3>. QED
      BY <1>2, <3>1 DEF FullBlocks
  <2>2. CASE i > c
    <3>1. i - c \in 1 .. count /\ c + (i - c) - 1 = i - 1 /\ ~(i <= c)
      BY <1>1, <2>2
    <3>. QED
      BY <1>3, <1>5, <3>1
  <2>. QED
    BY <1>1, <2>1, <2>2
<1>. QED
  BY <1>5, <1>6 DEF FullBlocks, Chain, Tabulated, Concat, u, t, c

(* The chain is selected where the data ends: the new state is that of the *)
(* longer message.                                                         *)
LEMMA AbsorbState ==
  ASSUME IInv, NEW length \in Nat
  PROVE  Merged(length) = FullBlocks((absorbed \div Rate) + ActiveBlocks(length))
<1>1. /\ ActiveBlocks(length) \in {MinBlocks(length), MaxBlocks(length)}
      /\ ActiveBlocks(length) \in Nat
      /\ ActiveBlocks(length) * Rate <= pending_len + length
  <2>1. TailLen(length) >= 0 /\ ActiveBlocks(length) \in Nat
        /\ ActiveBlocks(length) \in {MinBlocks(length), MaxBlocks(length)}
        /\ pending_len \in Nat /\ Rate \in Nat
    BY Constants, Position, BlockCounts
  <2>. QED
    BY <2>1 DEF TailLen
<1>2. Merged(length) = Chain(length, ActiveBlocks(length))
  BY <1>1 DEF Merged
<1>. QED
  BY <1>1, <1>2, ChainValid

(* The new pending block: what is left of the longer message, and zeros.   *)
LEMMA AbsorbPending ==
  ASSUME IInv, NEW length \in Nat
  PROVE  NewPending(length) =
           [slot \in 0 .. Rate - 1 |->
              IF slot < TailLen(length)
                THEN Msg(((absorbed \div Rate) + ActiveBlocks(length)) * Rate + slot)
                ELSE Zero]
<1>. DEFINE c      == absorbed \div Rate
            active == ActiveBlocks(length)
            hi     == MaxBlocks(length)
            start  == active * Rate
            top    == hi * Rate
<1>1. /\ Rate \in Nat \ {0}
      /\ pending_len \in 0 .. Rate - 1
      /\ c \in Nat
      /\ TailLen(length) \in 0 .. Rate - 1
  BY Constants, Position, BlockCounts
<1>2. /\ active \in Nat /\ hi \in Nat /\ MinBlocks(length) \in Nat
      /\ active \in {MinBlocks(length), hi}
      /\ hi - MinBlocks(length) \in {0, 1}
  BY <1>1, BlockCounts
<1>. HIDE DEF active, hi, c
<1>3. active <= hi
  BY <1>2
<1>4. start \in Nat /\ top \in Nat /\ start <= top
  BY <1>1, <1>2, <1>3
<1>5. TailLen(length) = pending_len + length - start
  BY DEF TailLen, active
<1>. HIDE DEF start, top
<1>6. Clip(start, 0, top) = start
  BY <1>4 DEF Clip
<1>7. ASSUME NEW slot \in 0 .. Rate - 1, slot < TailLen(length)
      PROVE  Stream(length)[start + slot] = Msg((c + active) * Rate + slot)
  <2>1. start + slot \in 0 .. pending_len + length - 1
    BY <1>1, <1>4, <1>5, <1>7
  <2>2. Stream(length)[start + slot] = Msg(c * Rate + (start + slot))
    BY <2>1, GatherValid DEF c
  <2>3. c * Rate + (start + slot) = (c + active) * Rate + slot
    BY <1>1, <1>2 DEF start
  <2>. QED
    BY <2>2, <2>3
<1>8. NewPending(length) =
        [slot \in 0 .. Rate - 1 |->
           IF slot < TailLen(length) THEN Stream(length)[start + slot] ELSE Zero]
  BY <1>6 DEF NewPending, start, top, active, hi
<1>. QED
  BY <1>7, <1>8 DEF c, active

(* Absorbing any number of bytes leaves what a single pass would.          *)
LEMMA AbsorbStep ==
  ASSUME IInv, NEW length \in 0 .. MaxChunk, Absorb(length)
  PROVE  IInv'
<1>. DEFINE c      == absorbed \div Rate
            active == ActiveBlocks(length)
            n      == absorbed + length
            tail   == TailLen(length)
            q      == c + active
<1>1. /\ Rate \in Nat \ {0}
      /\ pending_len \in 0 .. Rate - 1
      /\ absorbed \in Nat /\ c \in Nat /\ length \in Nat
      /\ absorbed = c * Rate + pending_len
  BY Constants, Position
<1>2. active \in Nat /\ tail \in 0 .. Rate - 1
  BY <1>1, BlockCounts
<1>3. tail = pending_len + length - active * Rate
  BY DEF TailLen
<1>. HIDE DEF c, active, tail
<1>4. q \in Nat /\ n = q * Rate + tail
  <2>1. q * Rate = c * Rate + active * Rate
    BY <1>1, <1>2
  <2>2. c * Rate \in Nat /\ active * Rate \in Nat
    BY <1>1, <1>2
  <2>. QED
    BY <1>1, <1>2, <1>3, <2>1, <2>2
<1>. HIDE DEF q
<1>5. n \div Rate = q
  <2>. HIDE DEF n
  <2>. QED
    BY <1>1, <1>2, <1>4, DivModUnique
<1>6. absorbed' = n /\ n \in 0 .. MaxBytes
  BY <1>1, Constants DEF Absorb
<1>7. state' = FullBlocks(q)
  BY <1>1, AbsorbState DEF Absorb, q, c, active
<1>8. pending_len' = tail /\ tail = n - q * Rate
  <2>1. pending_len' = tail
    BY DEF Absorb, tail
  <2>. HIDE DEF n
  <2>. QED
    BY <1>1, <1>2, <1>4, <2>1
<1>9. pending' = [slot \in 0 .. Rate - 1 |->
                    IF slot < tail THEN Msg(q * Rate + slot) ELSE Zero]
  BY <1>1, AbsorbPending DEF Absorb, q, c, active, tail
<1>. HIDE DEF n
<1>10. AbsorbResumable'
  BY <1>5, <1>6, <1>7, <1>8, <1>9 DEF AbsorbResumable, FullBlocks
<1>. QED
  BY <1>6, <1>10 DEF IInv, Absorb, SqueezerAt

----------------------------------------------------------------------------
(* Sealing.                                                                *)

(* A padded message is a sequence of one block more than it completes.     *)
LEMMA AbsorbedBlocks ==
  ASSUME NEW n \in Nat
  PROVE  PadBlocks(n) \in Nat /\ Tabulated(Absorbed(n), PadBlocks(n))
<1>1. PadBlocks(n) \in Nat
  <2>1. n \div Rate \in Nat
    BY Constants, DivModNat
  <2>. QED
    BY <2>1 DEF PadBlocks
<1>2. Tabulated(Absorbed(n), PadBlocks(n))
  BY DEF Absorbed, Tabulated
<1>. QED
  BY <1>1, <1>2

(* The padding written by comparison over a runtime position is the one    *)
(* the one-shot rule appends from a static length: the suffix behind the   *)
(* last byte, the terminator in the last slot, both in one byte when the   *)
(* message ends one short of a block, a block of their own when it ends on *)
(* one.                                                                    *)
LEMMA FinalBlockIsPadding ==
  ASSUME IInv
  PROVE  FinalBlock = PaddedBlock(absorbed, absorbed \div Rate)
<1>. DEFINE c     == absorbed \div Rate
            start == c * Rate
            size  == PadBlocks(absorbed) * Rate - absorbed
<1>1. /\ Rate \in Nat \ {0}
      /\ pending_len \in 0 .. Rate - 1
      /\ c \in Nat /\ start \in Nat
      /\ absorbed = start + pending_len
  BY Constants, Position
<1>2. size = Rate - pending_len
  <2>1. (c + 1) * Rate = start + Rate
    BY <1>1
  <2>. HIDE DEF start
  <2>. QED
    BY <1>1, <2>1 DEF PadBlocks, c
<1>3. \A slot \in 0 .. Rate - 1 :
        pending[slot] = IF slot < pending_len THEN Msg(start + slot) ELSE Zero
  BY DEF IInv, AbsorbResumable
<1>. HIDE DEF size, start
<1>4. ASSUME NEW slot \in 0 .. Rate - 1, slot >= pending_len
      PROVE  PadTail(absorbed)[slot - pending_len] =
               LET byte == IF slot = pending_len THEN Suffix ELSE Zero
               IN  IF slot = Rate - 1 THEN SetBit7(byte) ELSE byte
  <2>. DEFINE first == [j \in 0 .. size - 1 |-> IF j = 0 THEN Suffix ELSE Zero]
              k == slot - pending_len
  <2>1. PadTail(absorbed) = [first EXCEPT ![size - 1] = SetBit7(first[size - 1])]
    BY Constants DEF PadTail, size
  <2>2. /\ k \in 0 .. size - 1
        /\ k = 0 <=> slot = pending_len
        /\ k = size - 1 <=> slot = Rate - 1
    BY <1>1, <1>2, <1>4
  <2>. HIDE DEF k
  <2>3. first[k] = IF slot = pending_len THEN Suffix ELSE Zero
    BY <2>2
  <2>4. PadTail(absorbed)[k] = IF k = size - 1 THEN SetBit7(first[k]) ELSE first[k]
    BY <2>1, <2>2
  <2>. HIDE DEF first
  <2>. QED
    BY <2>2, <2>3, <2>4 DEF k
<1>5. ASSUME NEW slot \in 0 .. Rate - 1
      PROVE  FinalBlock[slot] = IF start + slot < absorbed THEN Msg(start + slot)
                                ELSE PadTail(absorbed)[(start + slot) - absorbed]
  <2>1. CASE slot < pending_len
    <3>1. start + slot < absorbed /\ slot # pending_len /\ slot # Rate - 1
      BY <1>1, <2>1
    <3>2. pending[slot] = Msg(start + slot)
      BY <1>3, <2>1
    <3>. QED
      BY <2>1, <3>1, <3>2 DEF FinalBlock
  <2>2. CASE slot >= pending_len
    <3>1. ~(start + slot < absorbed) /\ (start + slot) - absorbed = slot - pending_len
          /\ ~(slot < pending_len)
      BY <1>1, <2>2
    <3>2. PadTail(absorbed)[slot - pending_len] =
            LET byte == IF slot = pending_len THEN Suffix ELSE Zero
            IN  IF slot = Rate - 1 THEN SetBit7(byte) ELSE byte
      BY <1>4, <2>2
    <3>. QED
      BY <3>1, <3>2 DEF FinalBlock
  <2>. QED
    BY <1>1, <2>1, <2>2
<1>. QED
  BY <1>5 DEF FinalBlock, PaddedBlock, start, c

(* Padding what is pending closes the one-shot absorb.                     *)
LEMMA SealedState ==
  ASSUME IInv
  PROVE  PaddedState = Absorbed(absorbed)
<1>. DEFINE c == absorbed \div Rate
<1>1. /\ Rate \in Nat \ {0} /\ c \in Nat
      /\ pending_len \in 0 .. Rate - 1
      /\ absorbed = c * Rate + pending_len
  BY Constants, Position
<1>2. state = FullBlocks(c)
  BY DEF IInv, AbsorbResumable, FullBlocks
<1>3. FinalBlock = PaddedBlock(absorbed, c)
  BY FinalBlockIsPadding
<1>4. Absorbed(absorbed) = [i \in 1 .. c + 1 |-> PaddedBlock(absorbed, i - 1)]
  BY DEF Absorbed, PadBlocks
<1>. HIDE DEF c
<1>5. PaddedState = [i \in 1 .. c + 1 |-> IF i <= c THEN state[i] ELSE FinalBlock]
  <2>1. Tabulated(state, c)
    BY <1>2 DEF Tabulated, FullBlocks
  <2>. QED
    BY <1>1, <2>1, AppendTabulated DEF PaddedState, AbsorbBlock
<1>6. ASSUME NEW i \in 1 .. c
      PROVE  state[i] = PaddedBlock(absorbed, i - 1)
  <2>1. state[i] = [j \in 0 .. Rate - 1 |-> Msg((i - 1) * Rate + j)]
    BY <1>2 DEF FullBlocks
  <2>2. ASSUME NEW j \in 0 .. Rate - 1
        PROVE  (i - 1) * Rate + j < absorbed
    <3>. DEFINE a == (i - 1) * Rate
                b == i * Rate
                d == c * Rate
    <3>1. a \in Nat /\ b = a + Rate /\ b <= d /\ d \in Nat
      BY <1>1
    <3>2. absorbed = d + pending_len
      BY <1>1
    <3>. HIDE DEF a, b, d
    <3>3. a + j < absorbed
      BY <1>1, <3>1, <3>2
    <3>. QED
      BY <3>3 DEF a
  <2>. QED
    BY <2>1, <2>2 DEF PaddedBlock
<1>7. ASSUME NEW i \in 1 .. c + 1
      PROVE  (IF i <= c THEN state[i] ELSE FinalBlock) = PaddedBlock(absorbed, i - 1)
  <2>1. CASE i <= c
    BY <1>1, <1>6, <2>1
  <2>2. CASE ~(i <= c)
    <3>1. i - 1 = c
      BY <1>1, <2>2
    <3>. QED
      BY <1>3, <2>2, <3>1
  <2>. QED
    BY <2>1, <2>2
<1>. QED
  BY <1>4, <1>5, <1>7

----------------------------------------------------------------------------
(* Squeezing.                                                              *)

(* Permuting in two goes is permuting once.                                *)
LEMMA PermutedTwice ==
  ASSUME NEW n \in Nat, NEW s, Tabulated(s, n), NEW a \in Nat, NEW b \in Nat
  PROVE  Permuted(Permuted(s, a), b) = Permuted(s, a + b)
<1>. DEFINE bare(k) == [i \in 1 .. k |-> Bare]
            u == Concat(s, bare(a))
            v == Concat(u, bare(b))
            w == Concat(s, bare(a + b))
<1>1. \A k \in Nat : Tabulated(bare(k), k) /\ \A i \in 1 .. k : bare(k)[i] = Bare
  BY DEF Tabulated
<1>2. a + b \in Nat /\ n + a \in Nat /\ (n + a) + b = n + (a + b)
  OBVIOUS
<1>. HIDE DEF bare
<1>3. /\ Tabulated(u, n + a)
      /\ \A i \in 1 .. n + a : u[i] = IF i <= n THEN s[i] ELSE bare(a)[i - n]
  BY <1>1, ConcatTabulated
<1>4. /\ Tabulated(w, n + (a + b))
      /\ \A i \in 1 .. n + (a + b) : w[i] = IF i <= n THEN s[i] ELSE bare(a + b)[i - n]
  BY <1>1, <1>2, ConcatTabulated
<1>. HIDE DEF u
<1>5. /\ Tabulated(v, (n + a) + b)
      /\ \A i \in 1 .. (n + a) + b :
           v[i] = IF i <= n + a THEN u[i] ELSE bare(b)[i - (n + a)]
  BY <1>1, <1>2, <1>3, ConcatTabulated
<1>. HIDE DEF v, w
<1>6. ASSUME NEW i \in 1 .. n + (a + b)
      PROVE  v[i] = w[i]
  <2>1. CASE i <= n
    BY <2>1, <1>2, <1>3, <1>4, <1>5
  <2>2. CASE i > n /\ i <= n + a
    <3>1. i - n \in 1 .. a /\ i - n \in 1 .. a + b /\ ~(i <= n) /\ i \in 1 .. n + a
          /\ i \in 1 .. (n + a) + b
      BY <2>2
    <3>. QED
      BY <2>2, <3>1, <1>1, <1>2, <1>3, <1>4, <1>5
  <2>3. CASE i > n + a
    <3>1. i - (n + a) \in 1 .. b /\ i - n \in 1 .. a + b /\ ~(i <= n) /\ ~(i <= n + a)
          /\ i \in 1 .. (n + a) + b
      BY <2>3
    <3>. QED
      BY <3>1, <1>1, <1>2, <1>4, <1>5
  <2>. QED
    BY <2>1, <2>2, <2>3
<1>7. v = w
  BY <1>2, <1>4, <1>5, <1>6 DEF Tabulated
<1>. QED
  BY <1>7 DEF u, v, w, bare, Permuted, Concat

(* No permutation leaves the state as it was.                              *)
LEMMA PermutedNone ==
  ASSUME NEW n \in Nat, NEW s, Tabulated(s, n)
  PROVE  Permuted(s, 0) = s
<1>. DEFINE bare == [i \in 1 .. 0 |-> Bare]
            u == Concat(s, bare)
<1>1. Tabulated(bare, 0)
  BY DEF Tabulated
<1>2. n + 0 = n /\ \A i \in 1 .. n : i <= n
  OBVIOUS
<1>. HIDE DEF bare
<1>3. Tabulated(u, n) /\ \A i \in 1 .. n : u[i] = s[i]
  BY <1>1, <1>2, ConcatTabulated
<1>. HIDE DEF u
<1>4. u = s
  BY <1>3 DEF Tabulated
<1>. QED
  BY <1>4 DEF u, bare, Permuted, Concat

(* A byte of the blocks a squeezer reads is a byte of the one-shot hash.   *)
LEMMA ReadByte ==
  ASSUME NEW n \in Nat, NEW t \in Nat, NEW p \in Nat
  PROVE  ByteAt(Permuted(Permuted(Absorbed(n), t \div Rate), p \div Rate), p % Rate)
           = HashByte(n, (t \div Rate) * Rate + p)
<1>. DEFINE q == t \div Rate
            d == p \div Rate
            z == q * Rate + p
<1>1. Rate \in Nat \ {0} /\ q \in Nat /\ d \in Nat
  BY Constants, DivModNat
<1>2. Permuted(Permuted(Absorbed(n), q), d) = Permuted(Absorbed(n), q + d)
  <2>. HIDE DEF q, d
  <2>. QED
    BY <1>1, AbsorbedBlocks, PermutedTwice
<1>3. z \div Rate = q + d /\ z % Rate = p % Rate
  <2>1. z = p + q * Rate
    BY <1>1
  <2>. HIDE DEF q, z
  <2>2. (p + q * Rate) \div Rate = d + q /\ (p + q * Rate) % Rate = p % Rate
    BY <1>1, DivModShift
  <2>. QED
    BY <1>1, <2>1, <2>2
<1>. HIDE DEF q, d, z
<1>. QED
  BY <1>2, <1>3 DEF HashByte, q, d, z

(* What is known of the squeezer in a reachable state.                     *)
LEMMA Standing ==
  ASSUME IInv, squeezer.type # "none"
  PROVE  /\ squeezer.type \in {"bytes", "blocks"}
         /\ SqueezerAt(squeezer.type)
         /\ sealed \in 0 .. MaxBytes
         /\ sealed # Promise!None
         /\ taken \in Nat
         /\ squeezer.state = Permuted(Absorbed(sealed), taken \div Rate)
         /\ squeezer.offset = taken % Rate
         /\ squeezer.offset \in 0 .. Rate - 1
         /\ taken \div Rate \in Nat
         /\ taken = (taken \div Rate) * Rate + squeezer.offset
<1>1. squeezer # NoSqueezer
  BY DEF NoSqueezer
<1>2. PICK type \in {"bytes", "blocks"} : SqueezerAt(type)
  BY <1>1 DEF IInv
<1>3. squeezer.type = type
  BY <1>2 DEF SqueezerAt
<1>4. /\ squeezer.state = Permuted(Absorbed(sealed), taken \div Rate)
      /\ squeezer.offset = taken % Rate
      /\ sealed \in 0 .. MaxBytes
  BY <1>2 DEF SqueezerAt
<1>5. taken \in Nat /\ sealed # Promise!None
  BY <1>4, Constants DEF IInv, Promise!None
<1>6. /\ taken \div Rate \in Nat
      /\ taken % Rate \in 0 .. Rate - 1
      /\ taken = (taken \div Rate) * Rate + (taken % Rate)
  BY <1>5, Constants, DivModNat
<1>. QED
  BY <1>2, <1>3, <1>4, <1>5, <1>6

(* A squeeze of any length at any offset hands out the next bytes of the   *)
(* one-shot hash: the blocks it emits reach them at every offset, so that  *)
(* the clamp on the slice never moves it.                                  *)
LEMMA SqueezedRight ==
  ASSUME IInv, squeezer.type # "none", NEW nbytes \in Nat \ {0}
  PROVE  SqueezedBytes(nbytes) =
           [i \in 0 .. nbytes - 1 |-> HashByte(sealed, taken + i)]
<1>. DEFINE e == Emitted(nbytes)
            r == squeezer.offset
            q == taken \div Rate
            top == e * Rate
<1>1. /\ Rate \in Nat \ {0}
      /\ r \in 0 .. Rate - 1
      /\ q \in Nat
      /\ taken = q * Rate + r
      /\ sealed \in Nat /\ taken \in Nat
      /\ squeezer.state = Permuted(Absorbed(sealed), q)
  BY Constants, Standing
<1>. HIDE DEF r
<1>2. e \in Nat /\ top \in Nat /\ r + nbytes <= top
  <2>. DEFINE x == Rate - 1 + nbytes + Rate - 1
              d == x \div Rate
              m == x % Rate
  <2>1. x \in Nat /\ e = d
    BY <1>1 DEF Emitted, CeilBlocks
  <2>. HIDE DEF x, e
  <2>2. d \in Nat /\ m \in 0 .. Rate - 1 /\ x = d * Rate + m
    BY <1>1, <2>1, DivModNat
  <2>. HIDE DEF d, m
  <2>3. top = d * Rate /\ top \in Nat
    BY <1>1, <2>1, <2>2
  <2>. HIDE DEF top
  <2>4. x = top + m
    BY <2>2, <2>3
  <2>. QED
    BY <1>1, <2>1, <2>2, <2>3, <2>4 DEF x
<1>. HIDE DEF e
<1>3. Clip(r, 0, top - nbytes) = r
  <2>. HIDE DEF top
  <2>. QED
    BY <1>1, <1>2 DEF Clip
<1>4. ASSUME NEW i \in 0 .. nbytes - 1
      PROVE  BlockBytes(squeezer.state, e)[r + i] = HashByte(sealed, taken + i)
  <2>. DEFINE p == r + i
  <2>1. p \in Nat /\ p \in 0 .. e * Rate - 1
    <3>. HIDE DEF top
    <3>1. p \in Nat /\ p \in 0 .. top - 1
      BY <1>1, <1>2
    <3>. QED
      BY <3>1 DEF top
  <2>2. taken + i = q * Rate + p
    <3>. HIDE DEF q
    <3>. QED
      BY <1>1
  <2>. HIDE DEF p
  <2>3. BlockBytes(squeezer.state, e)[p] =
          ByteAt(Permuted(squeezer.state, p \div Rate), p % Rate)
    BY <2>1 DEF BlockBytes
  <2>4. ByteAt(Permuted(Permuted(Absorbed(sealed), q), p \div Rate), p % Rate)
          = HashByte(sealed, q * Rate + p)
    BY <1>1, <2>1, ReadByte
  <2>. QED
    BY <1>1, <2>2, <2>3, <2>4 DEF p
<1>5. SqueezedBytes(nbytes) =
        [i \in 0 .. nbytes - 1 |-> BlockBytes(squeezer.state, e)[r + i]]
  BY <1>3 DEF SqueezedBytes, e, r, top
<1>. QED
  BY <1>4, <1>5

(* Where a squeeze leaves the squeezer: the chain is long enough at every  *)
(* offset for the block the next byte lies in.                             *)
LEMMA CarriedRight ==
  ASSUME IInv, squeezer.type # "none", NEW nbytes \in Nat \ {0}
  PROVE  /\ Carried(nbytes) = Permuted(Absorbed(sealed), (taken + nbytes) \div Rate)
         /\ (squeezer.offset + nbytes) % Rate = (taken + nbytes) % Rate
         /\ (squeezer.offset + nbytes) \div Rate <= ChainLength(nbytes)
         /\ squeezer.offset = Rate - 1 =>
              (squeezer.offset + nbytes) \div Rate = ChainLength(nbytes)
<1>. DEFINE r == squeezer.offset
            q == taken \div Rate
            consumed == (r + nbytes) \div Rate
            z == r + nbytes
<1>1. /\ Rate \in Nat \ {0}
      /\ r \in 0 .. Rate - 1
      /\ q \in Nat
      /\ taken = q * Rate + r
      /\ sealed \in Nat /\ taken \in Nat
      /\ squeezer.state = Permuted(Absorbed(sealed), q)
  BY Constants, Standing
<1>. HIDE DEF r
<1>2. /\ consumed \in Nat
      /\ consumed <= ChainLength(nbytes)
      /\ ChainLength(nbytes) \in Nat
  <2>. DEFINE hi == (Rate - 1 + nbytes) \div Rate
              lo == nbytes \div Rate
  <2>1. /\ consumed \in Nat /\ hi \in Nat /\ lo \in Nat
        /\ consumed \in {lo, hi} /\ hi - lo \in {0, 1}
    BY <1>1, QuotientBounds
  <2>2. ChainLength(nbytes) = hi
    BY DEF ChainLength
  <2>. HIDE DEF consumed, hi, lo
  <2>. QED
    BY <2>1, <2>2
<1>3. /\ (taken + nbytes) \div Rate = q + consumed
      /\ (taken + nbytes) % Rate = z % Rate
  <2>1. taken + nbytes = z + q * Rate
    <3>. HIDE DEF q
    <3>. QED
      BY <1>1
  <2>1a. z \in Int /\ q \in Int /\ Rate \in Nat \ {0}
    BY <1>1
  <2>. HIDE DEF z, q
  <2>2. (z + q * Rate) \div Rate = (z \div Rate) + q /\ (z + q * Rate) % Rate = z % Rate
    BY <2>1a, DivModShift
  <2>3. z \div Rate = consumed
    BY DEF z
  <2>. HIDE DEF consumed
  <2>. QED
    BY <1>1, <1>2, <2>1, <2>2, <2>3
<1>4. Carried(nbytes) = Permuted(squeezer.state, consumed)
  <2>1. Carried(nbytes) =
          Permuted(squeezer.state, IF consumed \in 1 .. ChainLength(nbytes)
                                     THEN consumed ELSE 0)
    BY DEF Carried, r
  <2>. HIDE DEF consumed
  <2>. QED
    BY <1>2, <2>1
<1>5. Permuted(Permuted(Absorbed(sealed), q), consumed)
        = Permuted(Absorbed(sealed), q + consumed)
  <2>. HIDE DEF q, consumed
  <2>. QED
    BY <1>1, <1>2, AbsorbedBlocks, PermutedTwice
<1>6. r = Rate - 1 => consumed = ChainLength(nbytes)
  BY DEF ChainLength
<1>. QED
  BY <1>1, <1>2, <1>3, <1>4, <1>5, <1>6 DEF r

----------------------------------------------------------------------------
(* The invariant.                                                          *)

(* The invariant holds at the start.                                       *)
LEMMA InitHolds == Init => IInv
<1>. SUFFICES ASSUME Init
              PROVE  IInv
  OBVIOUS
<1>1. 0 \div Rate = 0 /\ Rate \in Nat \ {0}
  <2>1. 0 * Rate + 0 = 0 /\ 0 \in 0 .. Rate - 1
    BY Constants
  <2>2. (0 * Rate + 0) \div Rate = 0
    BY Constants, <2>1, DivModUnique
  <2>. QED
    BY Constants, <2>1, <2>2
<1>2. state = FullBlocks(0)
  BY DEF Init, FullBlocks
<1>3. AbsorbResumable
  BY <1>1, <1>2 DEF Init, AbsorbResumable, FullBlocks
<1>. QED
  BY <1>3, Constants DEF Init, IInv

(* One step per action of the squeezing half.                              *)
LEMMA StepHolds == IInv /\ [Next]_vars => IInv'
<1>. SUFFICES ASSUME IInv, [Next]_vars
              PROVE  IInv'
  OBVIOUS
<1>. USE DEF IInv, SqueezerAt
<1>1. ASSUME NEW length \in 0 .. MaxChunk, Absorb(length)
      PROVE  IInv'
  BY <1>1, AbsorbStep
<1>2. ASSUME NEW type \in {"bytes", "blocks"}, Seal(type)
      PROVE  IInv'
  <2>1. AbsorbResumable'
    BY <1>2 DEF Seal, halves, AbsorbResumable
  <2>2. 0 \div Rate = 0 /\ 0 % Rate = 0 /\ 0 \in 0 .. MaxTaken
    <3>1. 0 * Rate + 0 = 0 /\ 0 \in 0 .. Rate - 1
      BY Constants
    <3>2. (0 * Rate + 0) \div Rate = 0 /\ (0 * Rate + 0) % Rate = 0
      BY Constants, <3>1, DivModUnique
    <3>. QED
      BY Constants, <3>1, <3>2
  <2>3. Permuted(Absorbed(absorbed), 0) = Absorbed(absorbed)
    <3>1. Rate \in Nat \ {0} /\ absorbed \in Nat
      BY Constants, Position
    <3>2. Tabulated(Absorbed(absorbed), PadBlocks(absorbed))
          /\ PadBlocks(absorbed) \in Nat
      BY <3>1, AbsorbedBlocks
    <3>. QED
      BY <3>2, PermutedNone
  <2>4. squeezer' = [type |-> type, state |-> Absorbed(absorbed), offset |-> 0]
    BY <1>2, SealedState DEF Seal
  <2>. QED
    BY <1>2, <2>1, <2>2, <2>3, <2>4 DEF Seal
<1>3. CASE Widen
  <2>1. AbsorbResumable'
    BY <1>3 DEF Widen, halves, AbsorbResumable
  <2>2. squeezer.type # "none" /\ squeezer.type = "blocks"
    BY <1>3 DEF Widen
  <2>3. SqueezerAt("blocks")
    BY <2>2, Standing
  <2>4. squeezer' = [type |-> "bytes", state |-> squeezer.state, offset |-> 0]
    BY <1>3, <2>3 DEF Widen
  <2>. QED
    BY <1>3, <2>1, <2>3, <2>4 DEF Widen
<1>4. ASSUME NEW nbytes \in 1 .. MaxTaken, Squeeze(nbytes)
      PROVE  IInv'
  <2>1. AbsorbResumable'
    BY <1>4 DEF Squeeze, halves, AbsorbResumable
  <2>2. squeezer.type # "none" /\ squeezer.type = "bytes" /\ nbytes \in Nat \ {0}
    BY <1>4, Constants DEF Squeeze
  <2>3. SqueezerAt("bytes") /\ taken \in Nat
    BY <2>2, Standing
  <2>4. squeezer' = [type   |-> "bytes",
                     state  |-> Carried(nbytes),
                     offset |-> (squeezer.offset + nbytes) % Rate]
    BY <1>4, <2>3 DEF Squeeze
  <2>5. /\ Carried(nbytes) = Permuted(Absorbed(sealed), (taken + nbytes) \div Rate)
        /\ (squeezer.offset + nbytes) % Rate = (taken + nbytes) % Rate
    BY <2>2, CarriedRight
  <2>6. /\ taken' = taken + nbytes /\ taken' \in 0 .. MaxTaken
        /\ sealed' = sealed /\ absorbed' = absorbed
    BY <1>4, <2>2, <2>3, Constants DEF Squeeze
  <2>7. SqueezerAt("bytes")'
    BY <2>3, <2>4, <2>5, <2>6
  <2>. QED
    BY <2>1, <2>6, <2>7
<1>5. ASSUME NEW nblocks \in 1 .. MaxTaken \div Rate, SqueezeBlocks(nblocks)
      PROVE  IInv'
  <2>1. AbsorbResumable'
    BY <1>5 DEF SqueezeBlocks, halves, AbsorbResumable
  <2>2. squeezer.type # "none" /\ squeezer.type = "blocks"
    BY <1>5 DEF SqueezeBlocks
  <2>3. /\ SqueezerAt("blocks") /\ taken \in Nat
        /\ sealed \in Nat
        /\ squeezer.state = Permuted(Absorbed(sealed), taken \div Rate)
        /\ taken \div Rate \in Nat
    BY <2>2, Standing, Constants
  <2>4. squeezer' = [type   |-> "blocks",
                     state  |-> Permuted(squeezer.state, nblocks),
                     offset |-> squeezer.offset]
    BY <1>5, <2>3 DEF SqueezeBlocks, NextBlock
  <2>5. /\ (taken + nblocks * Rate) \div Rate = (taken \div Rate) + nblocks
        /\ (taken + nblocks * Rate) % Rate = taken % Rate
        /\ nblocks \in Nat
        /\ nblocks * Rate \in Nat
    <3>1. nblocks \in Nat
      BY <1>5, Constants, DivModNat
    <3>2. taken \in Int /\ nblocks \in Int /\ Rate \in Nat \ {0}
      BY <2>3, <3>1, Constants
    <3>3. /\ (taken + nblocks * Rate) \div Rate = (taken \div Rate) + nblocks
          /\ (taken + nblocks * Rate) % Rate = taken % Rate
      BY <3>2, DivModShift
    <3>. QED
      BY <3>1, <3>2, <3>3
  <2>6. Permuted(squeezer.state, nblocks) =
          Permuted(Absorbed(sealed), (taken \div Rate) + nblocks)
    BY <2>3, <2>5, AbsorbedBlocks, PermutedTwice
  <2>7. /\ taken' = taken + nblocks * Rate /\ taken' \in 0 .. MaxTaken
        /\ sealed' = sealed /\ absorbed' = absorbed
    BY <1>5, <2>3, <2>5, Constants DEF SqueezeBlocks
  <2>8. SqueezerAt("blocks")'
    BY <2>3, <2>4, <2>5, <2>6, <2>7
  <2>. QED
    BY <2>1, <2>7, <2>8
<1>6. CASE RejectSqueeze
  BY <1>6 DEF RejectSqueeze, halves, AbsorbResumable
<1>7. CASE UNCHANGED vars
  BY <1>7 DEF vars, AbsorbResumable
<1>. QED
  BY <1>1, <1>2, <1>3, <1>4, <1>5, <1>6, <1>7 DEF Next, FinalizeBlocks, Finalize

(* IInv holds in every reachable state.                                    *)
THEOREM InductiveInvariant == Spec => []IInv
BY InitHolds, StepHolds, PTL DEF Spec

(* AbsorbResumable: the absorbing half is where a single pass over the     *)
(* message leaves it (ShakeAbsorb.absorb), for every rate, message length  *)
(* and cut.                                                                *)
THEOREM AbsorbsResume == Spec => []AbsorbResumable
<1>1. IInv => AbsorbResumable
  BY DEF IInv
<1>. QED
  BY <1>1, InductiveInvariant, PTL

(* SqueezeResumable: "a run of squeezes returns the same bytes a single    *)
(* squeeze of the total would", for every rate, message and cut, across    *)
(* both squeezers and a widen.                                             *)
THEOREM SqueezesResume == Spec => []SqueezeResumable
<1>1. IInv => SqueezeResumable
  BY Standing DEF SqueezeResumable
<1>. QED
  BY <1>1, InductiveInvariant, PTL

(* ChainIsExact: the static length of a squeeze's chain covers every       *)
(* offset and is reached by the last.                                      *)
THEOREM ChainsAreExact == Spec => []ChainIsExact
<1>1. IInv => ChainIsExact
  <2>. SUFFICES ASSUME IInv, squeezer.type = "bytes", NEW nbytes \in 1 .. MaxTaken
                PROVE  /\ (squeezer.offset + nbytes) \div Rate <= ChainLength(nbytes)
                       /\ squeezer.offset = Rate - 1 =>
                            (squeezer.offset + nbytes) \div Rate = ChainLength(nbytes)
    BY DEF ChainIsExact
  <2>1. nbytes \in Nat \ {0} /\ squeezer.type # "none"
    BY Constants
  <2>. QED
    BY <2>1, CarriedRight
<1>. QED
  BY <1>1, InductiveInvariant, PTL

----------------------------------------------------------------------------
(* The promise.                                                            *)

(* The promise names the bytes of the one-shot hash as the stream does.    *)
LEMMA PromiseBytes ==
  ASSUME NEW n, NEW t, NEW k
  PROVE  Promise!Bytes(n, t, k) =
           [kind |-> "bytes", bytes |-> [i \in 0 .. k - 1 |-> HashByte(n, t + i)]]
BY DEF Promise!Bytes, Promise!HashByte, Promise!ByteAt, Promise!Permuted,
       Promise!Absorbed, Promise!PaddedBlock, Promise!PadTail,
       Promise!PadBlocks, Promise!Msg, Promise!Zero, Promise!Suffix,
       Promise!SetBit7, Promise!Bare,
       HashByte, ByteAt, Permuted, Absorbed, PaddedBlock, PadTail, PadBlocks,
       Msg, Zero, Suffix, SetBit7, Bare

(* Whole blocks are read from where the last call stopped.                 *)
LEMMA BlocksRight ==
  ASSUME IInv, squeezer.type = "blocks", NEW nblocks \in Nat
  PROVE  BlockBytes(squeezer.state, nblocks) =
           [i \in 0 .. nblocks * Rate - 1 |-> HashByte(sealed, taken + i)]
<1>1. /\ squeezer.type # "none"
      /\ SqueezerAt(squeezer.type)
      /\ sealed \in Nat /\ taken \in Nat
      /\ taken \div Rate \in Nat
      /\ squeezer.state = Permuted(Absorbed(sealed), taken \div Rate)
      /\ taken = (taken \div Rate) * Rate + squeezer.offset
  BY Standing, Constants
<1>2. squeezer.offset = 0
  BY <1>1 DEF SqueezerAt
<1>3. taken = (taken \div Rate) * Rate
  <2>. DEFINE a == (taken \div Rate) * Rate
  <2>1. a \in Nat /\ taken = a + 0
    BY <1>1, <1>2, Constants
  <2>. HIDE DEF a
  <2>2. taken = a
    BY <2>1
  <2>. QED
    BY <2>2 DEF a
<1>4. ASSUME NEW i \in 0 .. nblocks * Rate - 1
      PROVE  ByteAt(Permuted(squeezer.state, i \div Rate), i % Rate)
               = HashByte(sealed, taken + i)
  <2>1. i \in Nat
    BY Constants
  <2>. QED
    BY <1>1, <1>3, <2>1, ReadByte
<1>. QED
  BY <1>4 DEF BlockBytes

(* The incremental hash implements the extendable output of the one-shot   *)
(* hash: every absorb, finalize, widen and squeeze is a step of the        *)
(* promise, for both squeezers.                                            *)
THEOREM StreamImplementsPromise == Spec => ImplementsPromise
<1>1. Init => Promise!Init
  BY DEF Init, Promise!Init
<1>2. IInv /\ [Next]_vars => [Promise!Next]_<<absorbed, sealed, taken, out>>
  <2>. SUFFICES ASSUME IInv, [Next]_vars
                PROVE  [Promise!Next]_<<absorbed, sealed, taken, out>>
    OBVIOUS
  <2>1. ASSUME NEW length \in 0 .. MaxChunk, Absorb(length)
        PROVE  Promise!Next
    BY <2>1 DEF Absorb, Promise!Next, Promise!Absorb
  <2>2. ASSUME NEW type, Seal(type)
        PROVE  Promise!Next
    BY <2>2 DEF Seal, Promise!Next, Promise!Seal
  <2>3. CASE Widen
    <3>1. squeezer.type # "none"
      BY <2>3 DEF Widen
    <3>2. sealed # Promise!None
      BY <3>1, Standing
    <3>. QED
      BY <2>3, <3>2 DEF Widen, Promise!Next, Promise!Convert
  <2>4. ASSUME NEW nbytes \in 1 .. MaxTaken, Squeeze(nbytes)
        PROVE  Promise!Next
    <3>1. squeezer.type # "none" /\ nbytes \in Nat \ {0} /\ nbytes \in 0 .. MaxTaken
          /\ ~(nbytes < 1)
      BY <2>4, Constants DEF Squeeze
    <3>2. sealed # Promise!None
      BY <3>1, Standing
    <3>3. out' = Promise!Bytes(sealed, taken, nbytes)
      BY <2>4, <3>1, SqueezedRight, PromiseBytes DEF Squeeze
    <3>4. Promise!Squeeze(nbytes)
      BY <2>4, <3>1, <3>2, <3>3 DEF Squeeze, Promise!Squeeze
    <3>. QED
      BY <3>1, <3>4 DEF Promise!Next
  <2>5. ASSUME NEW nblocks \in 1 .. MaxTaken \div Rate, SqueezeBlocks(nblocks)
        PROVE  Promise!Next
    <3>. DEFINE k == nblocks * Rate
    <3>1. squeezer.type = "blocks" /\ squeezer.type # "none"
      BY <2>5 DEF SqueezeBlocks
    <3>2. nblocks \in Nat \ {0} /\ k \in Nat \ {0}
      <4>1. nblocks \in Nat \ {0}
        BY <2>5, Constants, DivModNat
      <4>. QED
        BY <4>1, Constants
    <3>3. out' = Promise!Bytes(sealed, taken, k)
      BY <2>5, <3>1, <3>2, BlocksRight, PromiseBytes DEF SqueezeBlocks
    <3>4. /\ taken + k <= MaxTaken /\ taken' = taken + k
          /\ UNCHANGED <<absorbed, sealed>>
      BY <2>5 DEF SqueezeBlocks
    <3>5. sealed # Promise!None /\ taken \in Nat
      BY <3>1, Standing
    <3>. HIDE DEF k
    <3>6. k \in 0 .. MaxTaken /\ ~(k < 1)
      BY <3>2, <3>4, <3>5, Constants
    <3>7. Promise!Squeeze(k)
      BY <3>3, <3>4, <3>5, <3>6 DEF Promise!Squeeze
    <3>. QED
      BY <3>6, <3>7 DEF Promise!Next
  <2>6. CASE RejectSqueeze
    <3>1. squeezer.type # "none"
      BY <2>6 DEF RejectSqueeze
    <3>2. sealed # Promise!None /\ taken \in 0 .. MaxTaken
      BY <3>1, Standing DEF IInv
    <3>3. Promise!Squeeze(0)
      BY <2>6, <3>2, Constants DEF RejectSqueeze, Promise!Squeeze
    <3>4. 0 \in 0 .. MaxTaken
      BY Constants
    <3>. QED
      BY <3>3, <3>4 DEF Promise!Next
  <2>7. ASSUME UNCHANGED vars
        PROVE  UNCHANGED <<absorbed, sealed, taken, out>>
    BY <2>7 DEF vars
  <2>. QED
    BY <2>1, <2>2, <2>3, <2>4, <2>5, <2>6, <2>7 DEF Next, FinalizeBlocks, Finalize
<1>. QED
  BY <1>1, <1>2, InductiveInvariant, PTL DEF Spec, ImplementsPromise, Promise!Spec

----------------------------------------------------------------------------
(* What a call returns, and how often it permutes.                         *)
Kept ==
  /\ out.kind \in {"none", "state", "bytes", "ValueError"}
  /\ permutations \in Nat

(* What is on display is of a known kind.                                  *)
LEMMA ResultsKept == Spec => []Kept
<1>1. Init => Kept
  BY DEF Init, Kept, Promise!Nothing
<1>2. IInv /\ Kept /\ [Next]_vars => Kept'
  <2>. SUFFICES ASSUME IInv, Kept, [Next]_vars
                PROVE  Kept'
    OBVIOUS
  <2>1. ASSUME NEW length \in 0 .. MaxChunk, Absorb(length)
        PROVE  Kept'
    <3>1. length \in Nat /\ pending_len \in 0 .. Rate - 1
      BY Constants, Position
    <3>2. MaxBlocks(length) \in Nat
      BY <3>1, BlockCounts
    <3>. QED
      BY <2>1, <3>2 DEF Absorb, Kept, Promise!State
  <2>2. ASSUME NEW type, Seal(type)
        PROVE  Kept'
    BY <2>2 DEF Seal, Kept, Promise!State
  <2>3. CASE Widen
    BY <2>3 DEF Widen, Kept, Promise!State
  <2>4. ASSUME NEW nbytes \in 1 .. MaxTaken, Squeeze(nbytes)
        PROVE  Kept'
    <3>1. nbytes \in Nat /\ Rate - 1 + nbytes \in Nat
      BY Constants
    <3>2. ChainLength(nbytes) \in Nat
      BY <3>1, Constants, DivModNat DEF ChainLength
    <3>. QED
      BY <2>4, <3>2 DEF Squeeze, Kept
  <2>5. ASSUME NEW nblocks \in 1 .. MaxTaken \div Rate, SqueezeBlocks(nblocks)
        PROVE  Kept'
    <3>1. nblocks \in Nat
      BY Constants, DivModNat
    <3>. QED
      BY <2>5, <3>1 DEF SqueezeBlocks, Kept
  <2>6. CASE RejectSqueeze
    BY <2>6 DEF RejectSqueeze, Kept, Promise!ValueError
  <2>7. CASE UNCHANGED vars
    BY <2>7 DEF vars, Kept
  <2>. QED
    BY <2>1, <2>2, <2>3, <2>4, <2>5, <2>6, <2>7 DEF Next, FinalizeBlocks, Finalize
<1>. QED
  BY <1>1, <1>2, InductiveInvariant, PTL DEF Spec

(* Every variable keeps its type: in particular no byte of a state or of   *)
(* the pending block is ever one past the end of the data.                 *)
THEOREM TypesHold == Spec => []TypeOK
<1>1. IInv /\ Kept => TypeOK
  <2>. SUFFICES ASSUME IInv, Kept
                PROVE  TypeOK
    OBVIOUS
  <2>. DEFINE c == absorbed \div Rate
              start == c * Rate
  <2>1. /\ Rate \in Nat \ {0}
        /\ absorbed \in Nat /\ absorbed <= MaxBytes /\ MaxBytes \in Nat
        /\ c \in Nat /\ start \in Nat
        /\ pending_len \in 0 .. Rate - 1
        /\ absorbed = start + pending_len
    BY Constants, Position DEF IInv
  <2>2. ASSUME NEW i \in 1 .. c, NEW j \in 0 .. Rate - 1
        PROVE  (i - 1) * Rate + j \in 0 .. MaxBytes - 1
    <3>. DEFINE a == (i - 1) * Rate
                b == i * Rate
    <3>1. i * Rate <= c * Rate
      <4>. HIDE DEF c
      <4>. QED
        BY <2>1
    <3>2. a \in Nat /\ b \in Nat /\ a = b - Rate /\ b <= start
      BY <2>1, <3>1
    <3>. HIDE DEF a, b, c, start
    <3>3. a + j \in 0 .. MaxBytes - 1
      BY <2>1, <3>2
    <3>. QED
      BY <3>3 DEF a
  <2>3. state \in Seq([0 .. Rate - 1 -> MessageBytes])
    <3>1. state = FullBlocks(c)
      BY DEF IInv, AbsorbResumable, FullBlocks
    <3>2. FullBlocks(c) \in [1 .. c -> [0 .. Rate - 1 -> MessageBytes]]
      BY <2>2 DEF FullBlocks, MessageBytes
    <3>. HIDE DEF c
    <3>. QED
      BY <2>1, <3>1, <3>2
  <2>4. pending \in [0 .. Rate - 1 -> MessageBytes \cup {Zero}]
    <3>1. pending = [slot \in 0 .. Rate - 1 |->
                       IF slot < pending_len THEN Msg(start + slot) ELSE Zero]
      BY DEF IInv, AbsorbResumable
    <3>. HIDE DEF start
    <3>2. \A slot \in 0 .. Rate - 1 :
            slot < pending_len => start + slot \in 0 .. MaxBytes - 1
      BY <2>1
    <3>. QED
      BY <3>1, <3>2 DEF MessageBytes
  <2>5. squeezer.type \in {"none", "bytes", "blocks"}
    BY Standing
  <2>6. squeezer.type # "none" =>
          /\ squeezer.offset \in 0 .. Rate - 1
          /\ squeezer.type = "blocks" => squeezer.offset = 0
    BY Standing DEF SqueezerAt
  <2>7. sealed \in 0 .. MaxBytes \cup {Promise!None}
    BY DEF IInv, SqueezerAt
  <2>. QED
    BY <2>1, <2>3, <2>4, <2>5, <2>6, <2>7 DEF TypeOK, IInv, Kept
<1>. QED
  BY <1>1, InductiveInvariant, ResultsKept, PTL
=============================================================================
