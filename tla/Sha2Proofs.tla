----------------------------- MODULE Sha2Proofs -----------------------------
(***************************************************************************)
(* The two halves of a SHA-2 front end: how a stream's bytes become blocks *)
(* and padding, and how SHA-512's 64-bit words become pairs of halves.     *)
(*                                                                         *)
(* What TLC checks of MdStream on one small instance is proved for every   *)
(* block size, reserve, field, word and stream length; what it checks of   *)
(* Word64 at one width, for every width, from the powers of two alone      *)
(* (PowAssumption).                                                        *)
(***************************************************************************)
EXTENDS MdStream, Word64, Arithmetic

(* What absorbing `n` bytes in one pass leaves.                            *)
FullBlocks(n) ==
  [i \in 1 .. n |-> [j \in 0 .. Block - 1 |-> Msg((i - 1) * Block + j)]]

(* The inductive invariant: the state is a function of how much was        *)
(* absorbed.  Nothing else needs remembering, which is why Resumable is    *)
(* inductive once `absorbed` is known to be a number.                      *)
IInv == absorbed \in 0 .. MaxBytes /\ Resumable

----------------------------------------------------------------------------
(* The position of the stream inside its last block.                       *)
LEMMA Position ==
  ASSUME IInv
  PROVE  /\ absorbed \in Nat
         /\ absorbed \div Block \in Nat
         /\ pending_len \in 0 .. Block - 1
         /\ absorbed = (absorbed \div Block) * Block + pending_len
<1>1. absorbed \in Nat /\ Block \in Nat \ {0}
  BY PadAssumption, StreamAssumption DEF IInv
<1>2. /\ absorbed \div Block \in Nat
      /\ absorbed % Block \in 0 .. Block - 1
      /\ absorbed = (absorbed \div Block) * Block + (absorbed % Block)
  BY <1>1, DivModNat
<1>3. pending_len = absorbed - (absorbed \div Block) * Block
  BY DEF IInv, Resumable
<1>. QED
  BY <1>1, <1>2, <1>3

(* "The live block count depends on pending_len by AT MOST one": the block *)
(* counts an absorb computes, for any position inside a block.             *)
LEMMA BlockCounts ==
  ASSUME pending_len \in 0 .. Block - 1, NEW length \in Nat
  PROVE  /\ ActiveBlocks(length) \in Nat
         /\ MinBlocks(length) \in Nat
         /\ MaxBlocks(length) \in Nat
         /\ ActiveBlocks(length) \in {MinBlocks(length), MaxBlocks(length)}
         /\ MaxBlocks(length) - MinBlocks(length) \in {0, 1}
         /\ TailLen(length) \in 0 .. Block - 1
         /\ pending_len + length < (MaxBlocks(length) + 1) * Block
<1>1. Block \in Nat \ {0}
  BY PadAssumption
<1>. QED
  BY <1>1, QuotientBounds DEF ActiveBlocks, MinBlocks, MaxBlocks, TailLen

----------------------------------------------------------------------------
(* The gather of an absorb: its first pending_len + length positions are   *)
(* the message from the start of the pending block on.  The gap between    *)
(* the valid bytes of `pending` and the data never shows.                  *)
LEMMA GatherValid ==
  ASSUME IInv, NEW length \in Nat, NEW pos \in 0 .. pending_len + length - 1
  PROVE  Combined(length)[pos] = Msg((absorbed \div Block) * Block + pos)
<1>. DEFINE start == (absorbed \div Block) * Block
<1>1. /\ Block \in Nat \ {0}
      /\ pending_len \in 0 .. Block - 1
      /\ start \in Int
      /\ absorbed = start + pending_len
  BY PadAssumption, Position
<1>2. \A slot \in 0 .. Block - 1 :
        pending[slot] = IF slot < pending_len THEN Msg(start + slot) ELSE Zero
  BY DEF IInv, Resumable
<1>. HIDE DEF start
<1>3. pos \in 0 .. (MaxBlocks(length) + 1) * Block - 1
  BY <1>1, BlockCounts
<1>4. CASE pos < pending_len
  <2>1. Clip(GapSkip(pos), 0, Block + length - 1) = pos
    BY <1>1, <1>4 DEF Clip, GapSkip
  <2>2. Combined(length)[pos] = pending[pos]
    BY <1>1, <1>3, <1>4, <2>1 DEF Combined
  <2>. QED
    BY <1>1, <1>2, <1>4, <2>2 DEF start
<1>5. CASE pos >= pending_len
  <2>1. Clip(GapSkip(pos), 0, Block + length - 1) = Block + (pos - pending_len)
    BY <1>1, <1>5 DEF Clip, GapSkip
  <2>2. Combined(length)[pos] = Msg(absorbed + (pos - pending_len))
    BY <1>1, <1>3, <1>5, <2>1 DEF Combined
  <2>3. absorbed + (pos - pending_len) = start + pos
    BY <1>1
  <2>. QED
    BY <2>2, <2>3 DEF start
<1>. QED
  BY <1>1, <1>4, <1>5

(* Folding `last` blocks onto a midstate of `n`.                           *)
LEMMA FoldTabulated ==
  ASSUME NEW n \in Nat, NEW mid, Tabulated(mid, n), NEW bytes, NEW last \in Nat
  PROVE  Fold(mid, bytes, 0, last) =
           [i \in 1 .. n + last |-> IF i <= n THEN mid[i]
                                    ELSE BlockAt(bytes, i - n - 1)]
<1>. DEFINE t == Blocks(bytes, 0, last)
<1>1. t = [i \in 1 .. last |-> BlockAt(bytes, i - 1)]
  BY DEF Blocks
<1>2. Tabulated(t, last)
  BY <1>1 DEF Tabulated
<1>. HIDE DEF t
<1>3. /\ Tabulated(Concat(mid, t), n + last)
      /\ \A i \in 1 .. n + last :
           Concat(mid, t)[i] = IF i <= n THEN mid[i] ELSE t[i - n]
  BY <1>2, ConcatTabulated
<1>4. \A i \in 1 .. n + last :
        Concat(mid, t)[i] = IF i <= n THEN mid[i] ELSE BlockAt(bytes, i - n - 1)
  BY <1>1, <1>3
<1>. QED
  BY <1>3, <1>4 DEF Fold, t, Tabulated, Concat

(* Folding two adjacent runs of blocks is folding the one run they make:   *)
(* the resume property the two candidates of an absorb share a prefix by.  *)
LEMMA FoldAdjacent ==
  ASSUME NEW n \in Nat, NEW mid, Tabulated(mid, n),
         NEW bytes, NEW first \in Nat, NEW last \in Nat, first <= last
  PROVE  Fold(Fold(mid, bytes, 0, first), bytes, first, last) =
           Fold(mid, bytes, 0, last)
<1>. DEFINE low == Fold(mid, bytes, 0, first)
            t   == Blocks(bytes, first, last)
            a   == n + first
            b   == last - first
<1>1. low = [i \in 1 .. a |-> IF i <= n THEN mid[i] ELSE BlockAt(bytes, i - n - 1)]
  BY FoldTabulated
<1>2. t = [i \in 1 .. b |-> BlockAt(bytes, first + i - 1)]
  BY DEF Blocks
<1>3. a \in Nat /\ b \in Nat /\ a + b = n + last /\ a = n + first
  OBVIOUS
<1>4. Tabulated(low, a) /\ Tabulated(t, b)
  BY <1>1, <1>2 DEF Tabulated
<1>. HIDE DEF low, t, a, b
<1>5. /\ Tabulated(Concat(low, t), a + b)
      /\ \A i \in 1 .. a + b : Concat(low, t)[i] = IF i <= a THEN low[i] ELSE t[i - a]
  BY <1>3, <1>4, ConcatTabulated
<1>6. \A i \in 1 .. n + last :
        Concat(low, t)[i] = IF i <= n THEN mid[i] ELSE BlockAt(bytes, i - n - 1)
  <2>. TAKE i \in 1 .. n + last
  <2>1. CASE i <= a
    BY <2>1, <1>1, <1>3, <1>5
  <2>2. CASE i > a
    <3>1. i - a \in 1 .. b /\ first + (i - a) - 1 = i - n - 1 /\ ~(i <= a) /\ ~(i <= n)
      BY <2>2, <1>3
    <3>. QED
      BY <1>2, <1>3, <1>5, <3>1
  <2>. QED
    BY <2>1, <2>2, <1>3
<1>7. Fold(mid, bytes, 0, last) =
        [i \in 1 .. n + last |-> IF i <= n THEN mid[i]
                                 ELSE BlockAt(bytes, i - n - 1)]
  BY FoldTabulated
<1>. QED
  BY <1>3, <1>5, <1>6, <1>7 DEF Fold, low, t, Tabulated, Concat

----------------------------------------------------------------------------
(* The new midstate: the complete blocks of the longer message.            *)
LEMMA AbsorbMidstate ==
  ASSUME IInv, NEW length \in Nat
  PROVE  NewMidstate(length) =
           FullBlocks((absorbed \div Block) + ActiveBlocks(length))
<1>. DEFINE c      == absorbed \div Block
            active == ActiveBlocks(length)
            comb   == Combined(length)
            lo     == MinBlocks(length)
            hi     == MaxBlocks(length)
<1>1. /\ Block \in Nat \ {0}
      /\ pending_len \in 0 .. Block - 1
      /\ c \in Nat
      /\ absorbed = c * Block + pending_len
  BY PadAssumption, Position
<1>2. /\ active \in Nat /\ lo \in Nat /\ hi \in Nat
      /\ active \in {lo, hi}
      /\ hi - lo \in {0, 1}
  BY <1>1, BlockCounts
<1>3. active * Block <= pending_len + length
  <2>1. TailLen(length) >= 0
    BY <1>1, BlockCounts
  <2>. QED
    BY <2>1, <1>1, <1>2 DEF TailLen
<1>4. h = FullBlocks(c)
  BY DEF IInv, Resumable, FullBlocks
<1>4a. Tabulated(h, c)
  BY <1>4 DEF FullBlocks, Tabulated
<1>5. ASSUME NEW i \in 0 .. active - 1
      PROVE  BlockAt(comb, i) = [j \in 0 .. Block - 1 |-> Msg((c + i) * Block + j)]
  <2>1. \A j \in 0 .. Block - 1 : comb[i * Block + j] = Msg((c + i) * Block + j)
    <3>. TAKE j \in 0 .. Block - 1
    <3>1. i * Block + j \in 0 .. pending_len + length - 1
      <4>1. (i + 1) * Block <= active * Block
        BY <1>1, <1>2
      <4>2. (i + 1) * Block = i * Block + Block /\ i * Block \in Nat
        BY <1>1
      <4>. QED
        BY <4>1, <4>2, <1>1, <1>2, <1>3
    <3>2. comb[i * Block + j] = Msg(c * Block + (i * Block + j))
      BY <3>1, GatherValid
    <3>3. c * Block + (i * Block + j) = (c + i) * Block + j
      BY <1>1
    <3>. QED
      BY <3>2, <3>3
  <2>. QED
    BY <2>1 DEF BlockAt
<1>6. NewMidstate(length) = Fold(h, comb, 0, active)
  <2>1. Fold(Fold(h, comb, 0, lo), comb, lo, hi) = Fold(h, comb, 0, hi)
    <3>1. lo <= hi
      BY <1>2
    <3>. HIDE DEF c, comb, lo, hi
    <3>. QED
      BY <1>1, <1>2, <1>4a, <3>1, FoldAdjacent
  <2>. QED
    BY <1>2, <2>1 DEF NewMidstate
<1>7. Fold(h, comb, 0, active) =
        [i \in 1 .. c + active |-> IF i <= c THEN h[i] ELSE BlockAt(comb, i - c - 1)]
  <2>. HIDE DEF c, comb, active
  <2>. QED
    BY <1>1, <1>2, <1>4a, FoldTabulated
<1>8. \A i \in 1 .. c + active :
        (IF i <= c THEN h[i] ELSE BlockAt(comb, i - c - 1)) =
          [j \in 0 .. Block - 1 |-> Msg((i - 1) * Block + j)]
  <2>. TAKE i \in 1 .. c + active
  <2>1. CASE i <= c
    BY <2>1, <1>1, <1>4 DEF FullBlocks
  <2>2. CASE i > c
    <3>. DEFINE k == i - c - 1
    <3>1. k \in 0 .. active - 1 /\ c + k = i - 1 /\ ~(i <= c)
      BY <2>2, <1>1, <1>2
    <3>. HIDE DEF k
    <3>2. BlockAt(comb, k) = [j \in 0 .. Block - 1 |-> Msg((c + k) * Block + j)]
      BY <3>1, <1>5
    <3>3. BlockAt(comb, k) = [j \in 0 .. Block - 1 |-> Msg((i - 1) * Block + j)]
      BY <3>1, <3>2
    <3>. QED
      BY <3>1, <3>3 DEF k
  <2>. QED
    BY <2>1, <2>2, <1>1, <1>2
<1>. QED
  BY <1>6, <1>7, <1>8 DEF FullBlocks

(* The new pending block: what is left of the longer message, and zeros.   *)
LEMMA AbsorbPending ==
  ASSUME IInv, NEW length \in Nat
  PROVE  NewPending(length) =
           [slot \in 0 .. Block - 1 |->
              IF slot < TailLen(length)
                THEN Msg(((absorbed \div Block) + ActiveBlocks(length)) * Block + slot)
                ELSE Zero]
<1>. DEFINE c      == absorbed \div Block
            active == ActiveBlocks(length)
            hi     == MaxBlocks(length)
            start  == active * Block
<1>1. /\ Block \in Nat \ {0}
      /\ pending_len \in 0 .. Block - 1
      /\ c \in Nat
      /\ active \in Nat /\ hi \in Nat /\ active <= hi
  <2>1. Block \in Nat \ {0} /\ pending_len \in 0 .. Block - 1 /\ c \in Nat
    BY PadAssumption, Position
  <2>2. /\ active \in Nat /\ hi \in Nat /\ MinBlocks(length) \in Nat
        /\ active \in {MinBlocks(length), hi}
        /\ hi - MinBlocks(length) \in {0, 1}
    BY <2>1, BlockCounts
  <2>3. active <= hi
    <3>. HIDE DEF active, hi
    <3>. QED
      BY <2>2
  <2>. QED
    BY <2>1, <2>2, <2>3
<1>2. start \in Nat /\ start <= hi * Block
  BY <1>1
<1>3. TailLen(length) = pending_len + length - start /\ TailLen(length) \in 0 .. Block - 1
  BY <1>1, BlockCounts DEF TailLen
<1>4. Clip(start, 0, hi * Block) = start
  <2>. DEFINE top == hi * Block
  <2>1. top \in Nat /\ start <= top
    BY <1>1, <1>2
  <2>. HIDE DEF top, start
  <2>2. Clip(start, 0, top) = start
    BY <1>2, <2>1 DEF Clip
  <2>. QED
    BY <2>2 DEF top
<1>5. \A slot \in 0 .. Block - 1 :
        slot < TailLen(length) =>
          Combined(length)[start + slot] = Msg((c + active) * Block + slot)
  <2>. SUFFICES ASSUME NEW slot \in 0 .. Block - 1, slot < TailLen(length)
                PROVE  Combined(length)[start + slot] = Msg((c + active) * Block + slot)
    OBVIOUS
  <2>1. start + slot \in 0 .. pending_len + length - 1
    <3>. HIDE DEF start
    <3>. QED
      BY <1>1, <1>2, <1>3
  <2>2. Combined(length)[start + slot] = Msg(c * Block + (start + slot))
    BY <2>1, GatherValid
  <2>3. c * Block + (start + slot) = (c + active) * Block + slot
    BY <1>1
  <2>. QED
    BY <2>2, <2>3
<1>. QED
  BY <1>4, <1>5 DEF NewPending

(* The int32 counter of a sum is the int32 counter of its wrapped summand. *)
LEMMA SignedSum ==
  ASSUME NEW x \in Int, NEW y \in Int
  PROVE  /\ Signed(Signed(x) + y) = Signed(x + y)
         /\ Unsigned(Signed(x)) = Unsigned(x)
         /\ Signed(x) \in -(Word \div 2) .. (Word \div 2) - 1
<1>. DEFINE half == Word \div 2
<1>1. Word \in Nat \ {0} /\ half \in Nat /\ Word = 2 * half
  BY PadAssumption
<1>. HIDE DEF half
<1>2. ((x + half) % Word) \in 0 .. Word - 1
  BY <1>1, DivMod
<1>3. Signed(x) + half = (x + half) % Word
  BY <1>1, <1>2 DEF Signed, half
<1>4. ASSUME NEW z \in Int
      PROVE  (((x + half) % Word) + z) % Word = ((x + half) + z) % Word
  <2>. DEFINE w == x + half
  <2>1. w \in Int
    BY <1>1
  <2>. HIDE DEF w
  <2>2. ((w % Word) + z) % Word = (w + z) % Word
    BY <1>1, <2>1, ModSum
  <2>. QED
    BY <2>2 DEF w
<1>5. Signed(Signed(x) + y) = Signed(x + y)
  <2>1. (Signed(x) + y) + half = ((x + half) % Word) + y
    BY <1>1, <1>2, <1>3 DEF Signed, half
  <2>2. (x + y) + half = (x + half) + y
    BY <1>1
  <2>. QED
    BY <1>4, <2>1, <2>2 DEF Signed, half
<1>6. Unsigned(Signed(x)) = Unsigned(x)
  <2>1. Signed(x) = ((x + half) % Word) + (-half)
    BY <1>1, <1>2 DEF Signed, half
  <2>2. (((x + half) % Word) + (-half)) % Word = ((x + half) + (-half)) % Word
    <3>. DEFINE z == -half
    <3>1. z \in Int
      BY <1>1
    <3>. HIDE DEF z
    <3>2. (((x + half) % Word) + z) % Word = ((x + half) + z) % Word
      BY <1>4, <3>1
    <3>. QED
      BY <3>2 DEF z
  <2>3. (x + half) + (-half) = x
    BY <1>1
  <2>. QED
    BY <2>1, <2>2, <2>3 DEF Unsigned
<1>7. Signed(x) \in -half .. half - 1
  BY <1>1, <1>2, <1>3 DEF Signed, half
<1>. QED
  BY <1>5, <1>6, <1>7 DEF half

(* Absorbing any number of bytes leaves what a single pass would.          *)
LEMMA AbsorbStep ==
  ASSUME IInv, NEW length \in 0 .. MaxChunk, Absorb(length)
  PROVE  IInv'
<1>. DEFINE c      == absorbed \div Block
            active == ActiveBlocks(length)
            n      == absorbed + length
<1>1. /\ Block \in Nat \ {0}
      /\ pending_len \in 0 .. Block - 1
      /\ absorbed \in Nat /\ c \in Nat /\ length \in Nat
      /\ absorbed = c * Block + pending_len
  BY PadAssumption, StreamAssumption, Position
<1>2. active \in Nat /\ TailLen(length) \in 0 .. Block - 1
  BY <1>1, BlockCounts
<1>3. n = (c + active) * Block + TailLen(length)
  <2>1. TailLen(length) = pending_len + length - active * Block
    BY DEF TailLen
  <2>. HIDE DEF c, active
  <2>2. (c + active) * Block = c * Block + active * Block
    BY <1>1, <1>2
  <2>3. c * Block \in Nat /\ active * Block \in Nat
    BY <1>1, <1>2
  <2>. QED
    BY <1>1, <2>1, <2>2, <2>3
<1>4. n \div Block = c + active
  <2>. DEFINE q == c + active
  <2>1. q \in Int
    BY <1>1, <1>2
  <2>2. n = q * Block + TailLen(length)
    BY <1>3
  <2>. HIDE DEF q, n
  <2>3. n \div Block = q
    BY <1>1, <1>2, <2>1, <2>2, DivModUnique
  <2>. QED
    BY <2>3 DEF q
<1>5. absorbed' = n /\ n \in 0 .. MaxBytes
  BY <1>1, StreamAssumption DEF Absorb
<1>6. h' = FullBlocks(c + active)
  BY <1>1, AbsorbMidstate DEF Absorb
<1>7. /\ pending_len' = n - (c + active) * Block
      /\ pending_len' = TailLen(length)
  BY <1>1, <1>2, <1>3 DEF Absorb
<1>8. pending' = [slot \in 0 .. Block - 1 |->
                    IF slot < pending_len' THEN Msg((c + active) * Block + slot)
                                           ELSE Zero]
  <2>1. pending' = NewPending(length)
    BY DEF Absorb
  <2>2. NewPending(length) =
          [slot \in 0 .. Block - 1 |->
             IF slot < TailLen(length) THEN Msg((c + active) * Block + slot)
                                       ELSE Zero]
    BY <1>1, AbsorbPending
  <2>. QED
    BY <1>7, <2>1, <2>2
<1>9. total_len' = Signed(n)
  <2>1. total_len = Signed(absorbed)
    BY DEF IInv, Resumable
  <2>2. total_len' = Signed(total_len + length)
    BY DEF Absorb
  <2>3. absorbed \in Int /\ length \in Int
    BY <1>1
  <2>4. Signed(Signed(absorbed) + length) = Signed(absorbed + length)
    BY <2>3, SignedSum
  <2>. QED
    BY <2>1, <2>2, <2>4
<1>. HIDE DEF c, active, n
<1>. QED
  BY <1>4, <1>5, <1>6, <1>7, <1>8, <1>9 DEF IInv, Resumable, FullBlocks

----------------------------------------------------------------------------
(* The byte region a whole-message digest of absorbed || extras[row] folds *)
(* (MdOneShot's WithWrappedLength, position by position).                  *)
OneShotByte(n, e, row, p) ==
  LET end == NBlocks(n + e) * Block
  IN  IF p >= end - Field
        THEN FieldByte(HostValue((n + e) % Word), p - (end - Field))
      ELSE IF p < n THEN Msg(p)
      ELSE IF p < n + e THEN <<"extra", row, p - n>>
      ELSE IF p = n + e THEN Mark
      ELSE Zero

OneShotBlocks(n, e, row, k) ==
  [i \in 1 .. k |->
     [j \in 0 .. Block - 1 |-> OneShotByte(n, e, row, (i - 1) * Block + j)]]

(* The one-shot digest, byte by byte.                                      *)
LEMMA OneShotBytes ==
  ASSUME NEW n \in Nat, NEW e \in Nat, NEW row
  PROVE  Promise!WithWrappedLength(n, e, row) =
           OneShotBlocks(n, e, row, NBlocks(n + e))
<1>. DEFINE m   == n + e
            nb  == NBlocks(m)
            end == nb * Block
            message == [p \in 0 .. m - 1 |-> IF p < n THEN Msg(p)
                                             ELSE <<"extra", row, p - n>>]
            ref == [p \in 0 .. end - 1 |->
                      IF p < end - Field THEN Padded(message, m)[p]
                      ELSE FieldByte(HostValue(m % Word), p - (end - Field))]
<1>1. Promise!WithWrappedLength(n, e, row) = Blocks(ref, 0, nb)
  BY DEF Promise!WithWrappedLength, Promise!NBlocks, Promise!Padded,
         Promise!Message, Promise!Extra, Promise!HostValue, Promise!FieldByte,
         Promise!Blocks, Promise!BlockAt, Promise!PadTail, Promise!Msg,
         Promise!Zero, Promise!Mark, Promise!CeilDiv,
         NBlocks, Padded, HostValue, FieldByte, Blocks, BlockAt, PadTail,
         Msg, Zero, Mark, CeilDiv
<1>2. /\ Block \in Nat \ {0} /\ Reserve \in Nat /\ Field \in 1 .. Reserve
      /\ m \in Nat /\ n <= m
      /\ Trailer # "NONE"
  BY PadAssumption, StreamAssumption
<1>3. /\ nb \in Nat \ {0}
      /\ end \in Nat
      /\ m + Reserve < end
  <2>. DEFINE z == m + Reserve
              q == z \div Block
              r == z % Block
  <2>1. z \in Nat
    BY <1>2
  <2>. HIDE DEF z
  <2>2. q \in Nat /\ r \in 0 .. Block - 1 /\ z = q * Block + r
    BY <1>2, <2>1, DivModNat
  <2>3. nb = q + 1
    BY <1>2 DEF NBlocks, z
  <2>. HIDE DEF q, r, nb
  <2>4. nb * Block = q * Block + Block
    BY <1>2, <2>2, <2>3
  <2>5. z < nb * Block /\ nb * Block \in Nat
    <3>. DEFINE a == q * Block
    <3>1. a \in Nat /\ z = a + r /\ nb * Block = a + Block
      BY <1>2, <2>2, <2>4
    <3>. HIDE DEF a
    <3>. QED
      BY <1>2, <2>2, <3>1
  <2>. QED
    BY <2>2, <2>3, <2>5 DEF z
<1>4. ASSUME NEW p \in 0 .. end - 1
      PROVE  ref[p] = OneShotByte(n, e, row, p)
  <2>. HIDE DEF message
  <2>0. OneShotByte(n, e, row, p) =
          IF p >= end - Field
            THEN FieldByte(HostValue(m % Word), p - (end - Field))
          ELSE IF p < n THEN Msg(p)
          ELSE IF p < m THEN <<"extra", row, p - n>>
          ELSE IF p = m THEN Mark
          ELSE Zero
    BY DEF OneShotByte
  <2>. HIDE DEF m, nb, end
  <2>1. CASE p >= end - Field
    BY <2>0, <2>1, <1>2, <1>3
  <2>2. CASE p < m
    <3>1. p < end - Field /\ ref[p] = message[p]
      BY <2>2, <1>2, <1>3 DEF Padded, nb, end
    <3>2. message[p] = IF p < n THEN Msg(p) ELSE <<"extra", row, p - n>>
      BY <2>2, <1>2 DEF message
    <3>. QED
      BY <2>0, <2>2, <1>2, <1>3, <3>1, <3>2
  <2>3. CASE p >= m /\ p < end - Field
    <3>1. ref[p] = PadTail(m)[p - m]
      BY <2>3, <1>2, <1>3 DEF Padded, nb, end
    <3>2. PadTail(m)[p - m] = IF p = m THEN Mark ELSE Zero
      BY <2>3, <1>2, <1>3 DEF PadTail, nb, end
    <3>. QED
      BY <2>0, <2>3, <1>2, <1>3, <3>1, <3>2
  <2>. QED
    BY <2>1, <2>2, <2>3, <1>2, <1>3
<1>5. ASSUME NEW i \in 1 .. nb
      PROVE  BlockAt(ref, i - 1) =
               [j \in 0 .. Block - 1 |-> OneShotByte(n, e, row, (i - 1) * Block + j)]
  <2>1. ASSUME NEW j \in 0 .. Block - 1
        PROVE  (i - 1) * Block + j \in 0 .. end - 1
    <3>. DEFINE a == (i - 1) * Block
    <3>1. i * Block <= nb * Block
      <4>. HIDE DEF nb
      <4>. QED
        BY <1>2, <1>3
    <3>2. a \in Nat /\ i * Block = a + Block
      BY <1>2
    <3>. HIDE DEF a
    <3>3. a + j \in 0 .. end - 1
      BY <1>2, <1>3, <3>1, <3>2
    <3>. QED
      BY <3>3 DEF a
  <2>2. \A j \in 0 .. Block - 1 :
          ref[(i - 1) * Block + j] = OneShotByte(n, e, row, (i - 1) * Block + j)
    <3>. TAKE j \in 0 .. Block - 1
    <3>. HIDE DEF ref, end
    <3>. QED
      BY <1>4, <2>1
  <2>. QED
    BY <2>2 DEF BlockAt
<1>6. Blocks(ref, 0, nb) = [i \in 1 .. nb |-> BlockAt(ref, i - 1)]
  <2>. HIDE DEF ref, nb
  <2>. QED
    BY <1>3 DEF Blocks
<1>. HIDE DEF ref, nb
<1>. QED
  BY <1>1, <1>5, <1>6 DEF nb, OneShotBlocks

(* The length field of a stream's ending: the value the host rule encodes  *)
(* for the length modulo the counter's range, whatever sign the int32 has. *)
LEMMA LengthField ==
  ASSUME IInv, NEW e \in Nat
  PROVE  TracedValue(Signed(total_len + e)) = HostValue((absorbed + e) % Word)
<1>. DEFINE u == (absorbed + e) % Word
            m == Word \div 8
<1>1. Word \in Nat \ {0} /\ absorbed \in Int /\ e \in Int
  BY PadAssumption, StreamAssumption DEF IInv
<1>2. Unsigned(Signed(total_len + e)) = u
  <2>1. total_len = Signed(absorbed)
    BY DEF IInv, Resumable
  <2>2. Signed(Signed(absorbed) + e) = Signed(absorbed + e)
    BY <1>1, SignedSum
  <2>3. Unsigned(Signed(absorbed + e)) = Unsigned(absorbed + e)
    <3>. DEFINE x == absorbed + e
    <3>1. x \in Int
      BY <1>1
    <3>. HIDE DEF x
    <3>2. Unsigned(Signed(x)) = Unsigned(x)
      BY <3>1, SignedSum
    <3>. QED
      BY <3>2 DEF x
  <2>. QED
    BY <2>1, <2>2, <2>3 DEF Unsigned
<1>3. u \in Nat
  <2>. DEFINE x == absorbed + e
  <2>1. x \in Int
    BY <1>1
  <2>. HIDE DEF x
  <2>2. x % Word \in Nat
    BY <1>1, <2>1, DivMod
  <2>. QED
    BY <2>2 DEF x
<1>4. m \in Nat \ {0} /\ Word = 8 * m
  BY PadAssumption
<1>. HIDE DEF u, m
<1>5. u \div m = (8 * u) \div Word
  BY <1>3, <1>4, DivScaled
<1>6. TracedValue(Signed(total_len + e)) = <<u \div m, (8 * u) % Word>>
  BY <1>2, StreamAssumption DEF TracedValue, m
<1>7. HostValue(u) = <<(8 * u) \div Word, (8 * u) % Word>>
  BY StreamAssumption DEF HostValue
<1>. QED
  BY <1>5, <1>6, <1>7 DEF u

(* The two candidate endings suffice: with an extras width finalize        *)
(* accepts, the content, the mark and the reserve fill the blocks that are *)
(* folded, and these are the blocks the whole-message rule counts.         *)
LEMMA EndingFits ==
  ASSUME IInv, NEW e \in 0 .. Block - Reserve
  PROVE  /\ NBlocks(absorbed + e) =
              (absorbed \div Block) + (IF TwoBlocks(e) THEN 2 ELSE 1)
         /\ pending_len + e + 1 + Reserve <= (IF TwoBlocks(e) THEN 2 * Block ELSE Block)
<1>. DEFINE c == absorbed \div Block
            z == pending_len + e + Reserve
<1>1. /\ Block \in Nat \ {0} /\ Reserve \in Nat \ {0}
      /\ pending_len \in 0 .. Block - 1
      /\ c \in Nat /\ absorbed \in Nat
      /\ absorbed = c * Block + pending_len
  BY PadAssumption, Position
<1>2. z \in 0 .. (2 * Block) - 1 /\ (TwoBlocks(e) <=> z >= Block)
  BY <1>1 DEF TwoBlocks
<1>3. z \div Block = IF TwoBlocks(e) THEN 1 ELSE 0
  BY <1>1, <1>2
<1>4. (absorbed + e) + Reserve = z + c * Block
  <2>. DEFINE a == c * Block
  <2>1. a \in Nat /\ absorbed = a + pending_len
    BY <1>1
  <2>. HIDE DEF a
  <2>2. (absorbed + e) + Reserve = z + a
    BY <1>1, <2>1
  <2>. QED
    BY <2>2 DEF a
<1>5. ((absorbed + e) + Reserve) \div Block = (z \div Block) + c
  <2>1. z \in Int /\ c \in Int
    BY <1>1
  <2>. HIDE DEF z, c
  <2>2. (z + c * Block) \div Block = (z \div Block) + c
    BY <1>1, <2>1, DivModShift
  <2>. QED
    BY <1>4, <2>2
<1>6. NBlocks(absorbed + e) = ((absorbed + e) + Reserve) \div Block + 1
  BY StreamAssumption DEF NBlocks
<1>. HIDE DEF z, c
<1>7. NBlocks(absorbed + e) = c + (IF TwoBlocks(e) THEN 2 ELSE 1)
  BY <1>1, <1>3, <1>5, <1>6
<1>8. pending_len + e + 1 + Reserve <= (IF TwoBlocks(e) THEN 2 * Block ELSE Block)
  BY <1>1, <1>2 DEF z
<1>. QED
  BY <1>7, <1>8 DEF c

(* The region finalize folds is, byte for byte, the end of the padded      *)
(* whole message.                                                          *)
LEMMA RegionBytes ==
  ASSUME IInv, NEW e \in 0 .. Block - Reserve, NEW row,
         NEW q \in 0 .. (IF TwoBlocks(e) THEN 2 * Block ELSE Block) - 1
  PROVE  Region(e, row)[q] =
           OneShotByte(absorbed, e, row, (absorbed \div Block) * Block + q)
<1>. DEFINE c      == absorbed \div Block
            start  == c * Block
            active == IF TwoBlocks(e) THEN 2 * Block ELSE Block
            clen   == pending_len + e
            end    == NBlocks(absorbed + e) * Block
            value  == HostValue((absorbed + e) % Word)
            field  == TrailerField(Signed(total_len + e))
<1>1. /\ Block \in Nat \ {0} /\ Reserve \in Nat /\ Field \in 1 .. Reserve
      /\ pending_len \in 0 .. Block - 1
      /\ start \in Nat
      /\ absorbed = start + pending_len
      /\ absorbed \in Nat
  BY PadAssumption, Position
<1>2. active \in {Block, 2 * Block} /\ clen + 1 + Reserve <= active /\ q \in 0 .. active - 1
  BY EndingFits
<1>3. end = start + active
  <2>. DEFINE k == IF TwoBlocks(e) THEN 2 ELSE 1
  <2>1. end = (c + k) * Block /\ k \in {1, 2} /\ active = k * Block
    BY <1>1, EndingFits
  <2>2. c \in Nat
    BY Position
  <2>. HIDE DEF c, k, active, end
  <2>3. (c + k) * Block = c * Block + k * Block
    BY <1>1, <2>1, <2>2
  <2>. QED
    BY <2>1, <2>3
<1>4. ASSUME q < clen
      PROVE  Content(e, row)[q] = IF q < pending_len THEN Msg(start + q)
                                  ELSE <<"extra", row, q - pending_len>>
  <2>1. CASE q < pending_len
    <3>1. Clip(GapSkip(q), 0, Block + e - 1) = q
      BY <1>1, <2>1 DEF Clip, GapSkip
    <3>2. pending[q] = Msg(start + q)
      BY <1>1, <2>1 DEF IInv, Resumable
    <3>3. Content(e, row)[q] = pending[q]
      BY <1>1, <1>2, <2>1, <3>1 DEF Content
    <3>. QED
      BY <2>1, <3>2, <3>3
  <2>2. CASE q >= pending_len
    <3>1. Clip(GapSkip(q), 0, Block + e - 1) = Block + (q - pending_len)
      BY <1>1, <1>2, <1>4, <2>2 DEF Clip, GapSkip
    <3>2. Content(e, row)[q] = Promise!Extra(row, q - pending_len)
      BY <1>1, <1>2, <2>2, <3>1 DEF Content
    <3>. QED
      BY <1>1, <1>2, <2>2, <3>2 DEF Promise!Extra
  <2>. QED
    BY <1>1, <1>2, <2>1, <2>2
<1>5. Region(e, row)[q] =
        IF q < clen THEN Content(e, row)[q]
        ELSE IF q = clen THEN Mark
        ELSE IF q >= active - Reserve
               THEN field[Clip(q - (active - Reserve), 0, Reserve - 1)]
        ELSE Zero
  <2>1. DOMAIN Content(e, row) = 0 .. 2 * Block - 1
    BY DEF Content
  <2>2. q \in 0 .. 2 * Block - 1
    BY <1>1, <1>2
  <2>3. active - Reserve \in Int /\ q < active
    BY <1>1, <1>2
  <2>4. Region(e, row) = PaddedRegion(Content(e, row), clen, active, field)
    BY DEF Region
  <2>. HIDE DEF active, clen, field
  <2>. QED
    BY <2>1, <2>2, <2>3, <2>4 DEF PaddedRegion
<1>6. ASSUME q >= active - Reserve
      PROVE  field[Clip(q - (active - Reserve), 0, Reserve - 1)] =
               IF q < active - Field THEN Zero
               ELSE FieldByte(value, q - (active - Field))
  <2>. DEFINE j == q - (active - Reserve)
  <2>1. /\ j \in 0 .. Reserve - 1
        /\ (j < Reserve - Field) <=> (q < active - Field)
        /\ j - (Reserve - Field) = q - (active - Field)
    BY <1>1, <1>2, <1>6
  <2>. HIDE DEF j, value
  <2>2. Clip(j, 0, Reserve - 1) = j
    BY <1>1, <2>1 DEF Clip
  <2>3. field[j] = IF j < Reserve - Field THEN Zero
                   ELSE FieldByte(TracedValue(Signed(total_len + e)), j - (Reserve - Field))
    BY <2>1 DEF TrailerField
  <2>4. TracedValue(Signed(total_len + e)) = value
    BY LengthField DEF value
  <2>. QED
    BY <2>1, <2>2, <2>3, <2>4 DEF j
<1>7. OneShotByte(absorbed, e, row, start + q) =
        IF start + q >= end - Field
          THEN FieldByte(value, (start + q) - (end - Field))
        ELSE IF start + q < absorbed THEN Msg(start + q)
        ELSE IF start + q < absorbed + e THEN <<"extra", row, (start + q) - absorbed>>
        ELSE IF start + q = absorbed + e THEN Mark
        ELSE Zero
  BY DEF OneShotByte
<1>8. /\ (start + q >= end - Field) <=> (q >= active - Field)
      /\ (start + q) - (end - Field) = q - (active - Field)
      /\ (start + q < absorbed) <=> (q < pending_len)
      /\ (start + q < absorbed + e) <=> (q < clen)
      /\ (start + q) - absorbed = q - pending_len
      /\ (start + q = absorbed + e) <=> (q = clen)
      /\ q < clen => q < active - Field
      /\ q = clen => q < active - Reserve
      /\ q < pending_len => q < clen
      /\ active - Reserve <= active - Field
      /\ start \in Int /\ end \in Int /\ active \in Int /\ clen \in Int
  <2>. HIDE DEF start, active, end
  <2>. QED
    BY <1>1, <1>2, <1>3
<1>. HIDE DEF start, active, clen, end, value, field
<1>9. OneShotByte(absorbed, e, row, start + q) =
        IF q >= active - Field THEN FieldByte(value, q - (active - Field))
        ELSE IF q < pending_len THEN Msg(start + q)
        ELSE IF q < clen THEN <<"extra", row, q - pending_len>>
        ELSE IF q = clen THEN Mark
        ELSE Zero
  BY <1>7, <1>8
<1>10. q \in Int /\ active - Field \in Int /\ active - Reserve \in Int
  BY <1>1, <1>2, <1>8
<1>11. Region(e, row)[q] = OneShotByte(absorbed, e, row, start + q)
  <2>1. CASE q < clen
    BY <2>1, <1>4, <1>5, <1>8, <1>9, <1>10
  <2>2. CASE q = clen
    BY <2>2, <1>5, <1>8, <1>9, <1>10
  <2>3. CASE ~(q < clen) /\ q # clen /\ q >= active - Reserve
    BY <2>3, <1>5, <1>6, <1>8, <1>9, <1>10
  <2>4. CASE ~(q < clen) /\ q # clen /\ ~(q >= active - Reserve)
    BY <2>4, <1>5, <1>8, <1>9, <1>10
  <2>. QED
    BY <2>1, <2>2, <2>3, <2>4
<1>. QED
  BY <1>11 DEF start

(* Finalize's digest of a row is the whole-message digest of that row.     *)
LEMMA FinalizeDigest ==
  ASSUME IInv, NEW e \in 0 .. Block - Reserve, NEW row
  PROVE  Digest(e, row) = Promise!WithWrappedLength(absorbed, e, row)
<1>. DEFINE c      == absorbed \div Block
            k      == IF TwoBlocks(e) THEN 2 ELSE 1
            region == Region(e, row)
            byte(p) == OneShotByte(absorbed, e, row, p)
<1>1. /\ Block \in Nat \ {0}
      /\ c \in Nat /\ k \in {1, 2}
      /\ absorbed \in Nat
      /\ pending_len \in 0 .. Block - 1
      /\ absorbed = c * Block + pending_len
  BY PadAssumption, Position
<1>2. h = FullBlocks(c) /\ Tabulated(h, c)
  BY DEF IInv, Resumable, FullBlocks, Tabulated
<1>3. Digest(e, row) =
        [i \in 1 .. c + k |-> IF i <= c THEN h[i] ELSE BlockAt(region, i - c - 1)]
  <2>1. Digest(e, row) = Fold(h, region, 0, k)
    BY DEF Digest
  <2>. HIDE DEF c, k, region
  <2>2. k \in Nat
    BY <1>1
  <2>3. Fold(h, region, 0, k) =
          [i \in 1 .. c + k |-> IF i <= c THEN h[i] ELSE BlockAt(region, i - c - 1)]
    BY <1>1, <1>2, <2>2, FoldTabulated
  <2>. QED
    BY <2>1, <2>3
<1>4. ASSUME NEW i \in 1 .. c
      PROVE  h[i] = [j \in 0 .. Block - 1 |-> byte((i - 1) * Block + j)]
  <2>1. h[i] = [j \in 0 .. Block - 1 |-> Msg((i - 1) * Block + j)]
    BY <1>2 DEF FullBlocks
  <2>2. \A j \in 0 .. Block - 1 : byte((i - 1) * Block + j) = Msg((i - 1) * Block + j)
    <3>. TAKE j \in 0 .. Block - 1
    <3>. DEFINE p == (i - 1) * Block + j
                end == NBlocks(absorbed + e) * Block
    <3>1. p \in Nat /\ p < absorbed
      <4>1. i * Block <= c * Block
        <5>. HIDE DEF c
        <5>. QED
          BY <1>1
      <4>2. p = i * Block - Block + j /\ (i - 1) * Block \in Nat
        BY <1>1
      <4>. HIDE DEF c
      <4>3. p \in Nat
        BY <1>1, <4>2
      <4>. QED
        BY <1>1, <4>1, <4>2, <4>3
    <3>2. end \in Int /\ absorbed <= end - Field
      <4>1. end = (c + k) * Block
        BY EndingFits
      <4>2. pending_len + e + 1 + Reserve <= k * Block /\ k * Block \in Nat
        BY <1>1, EndingFits
      <4>. HIDE DEF c, k, end
      <4>3. (c + k) * Block = c * Block + k * Block /\ c * Block \in Nat
        BY <1>1
      <4>. QED
        BY <1>1, <4>1, <4>2, <4>3, PadAssumption
    <3>3. byte(p) = IF p >= end - Field
                      THEN FieldByte(HostValue((absorbed + e) % Word), p - (end - Field))
                    ELSE IF p < absorbed THEN Msg(p)
                    ELSE IF p < absorbed + e THEN <<"extra", row, p - absorbed>>
                    ELSE IF p = absorbed + e THEN Mark
                    ELSE Zero
      BY DEF OneShotByte
    <3>4. ~(p >= end - Field)
      <4>. HIDE DEF p, end
      <4>. QED
        BY <1>1, <3>1, <3>2, PadAssumption
    <3>. QED
      BY <3>1, <3>3, <3>4
  <2>. QED
    BY <2>1, <2>2
<1>5. ASSUME NEW i \in c + 1 .. c + k
      PROVE  BlockAt(region, i - c - 1) =
               [j \in 0 .. Block - 1 |-> byte((i - 1) * Block + j)]
  <2>. DEFINE b == i - c - 1
  <2>1. b \in 0 .. k - 1 /\ i - 1 = c + b
    BY <1>1
  <2>2. ASSUME NEW j \in 0 .. Block - 1
        PROVE  region[b * Block + j] = byte((i - 1) * Block + j)
    <3>. DEFINE q == b * Block + j
    <3>1. q \in 0 .. (IF TwoBlocks(e) THEN 2 * Block ELSE Block) - 1
      <4>. HIDE DEF b
      <4>1. CASE TwoBlocks(e)
        BY <1>1, <2>1, <4>1
      <4>2. CASE ~TwoBlocks(e)
        BY <1>1, <2>1, <4>2
      <4>. QED
        BY <4>1, <4>2
    <3>2. region[q] = byte(c * Block + q)
      <4>. HIDE DEF q
      <4>. QED
        BY <3>1, RegionBytes
    <3>3. c * Block + q = (i - 1) * Block + j
      <4>. HIDE DEF b, c
      <4>1. (c + b) * Block = c * Block + b * Block
        BY <1>1, <2>1
      <4>. QED
        BY <1>1, <2>1, <4>1
    <3>. QED
      BY <3>2, <3>3
  <2>. HIDE DEF b
  <2>3. BlockAt(region, b) = [j \in 0 .. Block - 1 |-> byte((i - 1) * Block + j)]
    BY <2>2 DEF BlockAt
  <2>. QED
    BY <2>3 DEF b
<1>6. Promise!WithWrappedLength(absorbed, e, row) =
        [i \in 1 .. c + k |-> [j \in 0 .. Block - 1 |-> byte((i - 1) * Block + j)]]
  <2>1. NBlocks(absorbed + e) = c + k
    BY EndingFits
  <2>2. e \in Nat
    BY PadAssumption
  <2>3. Promise!WithWrappedLength(absorbed, e, row) =
          OneShotBlocks(absorbed, e, row, NBlocks(absorbed + e))
    <3>. HIDE DEF c, k, region, byte
    <3>. QED
      BY <1>1, <2>2, OneShotBytes
  <2>. QED
    BY <2>1, <2>3 DEF OneShotBlocks
<1>7. \A i \in 1 .. c + k :
        (IF i <= c THEN h[i] ELSE BlockAt(region, i - c - 1)) =
          [j \in 0 .. Block - 1 |-> byte((i - 1) * Block + j)]
  <2>. TAKE i \in 1 .. c + k
  <2>. HIDE DEF c, k, region, byte
  <2>1. CASE i <= c
    <3>1. i \in 1 .. c
      BY <2>1, <1>1
    <3>2. h[i] = [j \in 0 .. Block - 1 |-> byte((i - 1) * Block + j)]
      BY <3>1, <1>4
    <3>. QED
      BY <2>1, <3>2
  <2>2. CASE ~(i <= c)
    <3>1. i \in c + 1 .. c + k
      BY <2>2, <1>1
    <3>2. BlockAt(region, i - c - 1) =
            [j \in 0 .. Block - 1 |-> byte((i - 1) * Block + j)]
      BY <3>1, <1>5
    <3>. QED
      BY <2>2, <3>2
  <2>. QED
    BY <2>1, <2>2
<1>. HIDE DEF c, k, region, byte
<1>. QED
  BY <1>3, <1>6, <1>7

(* Every accepted finalize returns what the promise returns.               *)
LEMMA FinalizeKeepsPromise ==
  ASSUME IInv, NEW e \in 0 .. Block, Finalize(e)
  PROVE  e <= Block - Reserve /\ result' = Promise!Digests(absorbed, e)
<1>1. e \in 0 .. Block - Reserve
  BY PadAssumption DEF Finalize
<1>2. \A r \in Rows : Digest(e, r) = Promise!WithWrappedLength(absorbed, e, r)
  BY <1>1, FinalizeDigest
<1>3. result' = [kind |-> "digests", length |-> absorbed + e,
                 rows |-> [r \in Rows |-> Digest(e, r)]]
  BY DEF Finalize
<1>4. [r \in Rows |-> Digest(e, r)] =
        [r \in Rows |-> Promise!WithWrappedLength(absorbed, e, r)]
  BY <1>2
<1>. QED
  BY <1>1, <1>3, <1>4 DEF Promise!Digests

(* Below the counter's ceiling the wrapped length field is the plain one.  *)
LEMMA BelowCeiling ==
  ASSUME NEW n \in Nat, NEW e \in Nat, n + e < Word, NEW row
  PROVE  Promise!WithWrappedLength(n, e, row) = Promise!OneShot(n, e, row)
<1>. DEFINE m       == n + e
            nb      == NBlocks(m)
            end     == nb * Block
            message == Promise!Message(n, e, row)
            ref     == [p \in 0 .. end - 1 |->
                          IF p < end - Field THEN Padded(message, m)[p]
                          ELSE FieldByte(HostValue(m % Word), p - (end - Field))]
<1>1. Promise!WithWrappedLength(n, e, row) = Blocks(ref, 0, nb)
  BY DEF Promise!WithWrappedLength, Promise!NBlocks, Promise!Padded,
         Promise!HostValue, Promise!FieldByte, Promise!Blocks,
         Promise!BlockAt, Promise!PadTail, Promise!Zero, Promise!Mark,
         Promise!CeilDiv, NBlocks, Padded, HostValue, FieldByte, Blocks,
         BlockAt, PadTail, Zero, Mark, CeilDiv
<1>2. Promise!OneShot(n, e, row) = Blocks(Padded(message, m), 0, nb)
  BY DEF Promise!OneShot, Promise!PaddedBlocks, Promise!NBlocks,
         Promise!Padded, Promise!HostValue, Promise!FieldByte, Promise!Blocks,
         Promise!BlockAt, Promise!PadTail, Promise!Zero, Promise!Mark,
         Promise!CeilDiv, NBlocks, Padded, HostValue, FieldByte, Blocks,
         BlockAt, PadTail, Zero, Mark, CeilDiv
<1>3. /\ Block \in Nat \ {0} /\ Field \in Nat /\ Field <= Reserve
      /\ Reserve \in Nat /\ m \in Nat /\ m % Word = m /\ Trailer # "NONE"
  <2>1. Word \in Nat \ {0} /\ m \in 0 .. Word - 1
    BY PadAssumption
  <2>. HIDE DEF m
  <2>2. m % Word = m
    BY <2>1, ModSmall
  <2>. QED
    BY <2>1, <2>2, PadAssumption, StreamAssumption
<1>4. end \in Nat /\ m + Reserve < end
  <2>. DEFINE z == m + Reserve
              q == z \div Block
              r == z % Block
              a == q * Block
  <2>1. z \in Nat
    BY <1>3
  <2>. HIDE DEF z
  <2>2. q \in Nat /\ r \in 0 .. Block - 1 /\ z = q * Block + r
    BY <1>3, <2>1, DivModNat
  <2>3. nb = q + 1
    BY <1>3 DEF NBlocks, z
  <2>. HIDE DEF q, r, nb
  <2>4. end = a + Block /\ a \in Nat /\ z = a + r
    BY <1>3, <2>2, <2>3
  <2>. HIDE DEF a
  <2>5. z < end /\ end \in Nat
    BY <1>3, <2>2, <2>4
  <2>. QED
    BY <2>5 DEF z
<1>5. ASSUME NEW p \in 0 .. end - 1
      PROVE  ref[p] = Padded(message, m)[p]
  <2>1. CASE p < end - Field
    BY <2>1
  <2>2. CASE ~(p < end - Field)
    <3>. DEFINE size == end - m
    <3>1. Padded(message, m)[p] = IF p < m THEN message[p] ELSE PadTail(m)[p - m]
      BY DEF Padded
    <3>2. /\ ~(p < m)
          /\ p - m \in 0 .. size - 1
          /\ p - m >= size - Field
          /\ (p - m) - (size - Field) = p - (end - Field)
      <4>. HIDE DEF m, end
      <4>. QED
        BY <1>3, <1>4, <2>2
    <3>3. PadTail(m)[p - m] = FieldByte(HostValue(m), (p - m) - (size - Field))
      <4>. DEFINE j == p - m
      <4>1. j \in 0 .. size - 1 /\ j >= size - Field
        BY <3>2
      <4>2. PadTail(m) = [k \in 0 .. size - 1 |->
                           IF k >= size - Field
                             THEN FieldByte(HostValue(m), k - (size - Field))
                           ELSE IF k = 0 THEN Mark
                           ELSE Zero]
        BY <1>3 DEF PadTail
      <4>. HIDE DEF j, size, m
      <4>3. PadTail(m)[j] = FieldByte(HostValue(m), j - (size - Field))
        BY <4>1, <4>2
      <4>. QED
        BY <4>3 DEF j
    <3>4. ref[p] = FieldByte(HostValue(m % Word), p - (end - Field))
      BY <2>2
    <3>. HIDE DEF m, end, size, ref
    <3>. QED
      BY <1>3, <3>1, <3>2, <3>3, <3>4
  <2>. QED
    BY <2>1, <2>2
<1>6. ref = Padded(message, m)
  <2>1. Padded(message, m) = [p \in 0 .. end - 1 |-> Padded(message, m)[p]]
    BY DEF Padded
  <2>2. ref = [p \in 0 .. end - 1 |-> ref[p]]
    OBVIOUS
  <2>. HIDE DEF ref, end, message, m
  <2>. QED
    BY <1>5, <2>1, <2>2
<1>. QED
  BY <1>1, <1>2, <1>6

----------------------------------------------------------------------------
(* IInv is inductive.                                                      *)
LEMMA InitIInv ==
  ASSUME Init
  PROVE  IInv
<1>1. Block \in Nat \ {0} /\ MaxBytes \in Nat /\ Word \in Nat \ {0} /\ Word % 8 = 0
  BY PadAssumption, StreamAssumption
<1>2. absorbed = 0 /\ absorbed \div Block = 0 /\ 0 * Block = 0
  BY <1>1 DEF Init
<1>3. h = [i \in 1 .. 0 |-> [j \in 0 .. Block - 1 |-> Msg((i - 1) * Block + j)]]
  <2>1. h = << >>
    BY DEF Init
  <2>. QED
    BY <2>1
<1>4. pending = [slot \in 0 .. Block - 1 |->
                   IF slot < pending_len THEN Msg(0 + slot) ELSE Zero]
  BY DEF Init
<1>5. total_len = Signed(0)
  <2>. DEFINE half == Word \div 2
  <2>1. half \in Nat /\ half < Word
    BY <1>1
  <2>. HIDE DEF half
  <2>2. half % Word = half
    BY <1>1, <2>1, ModSmall
  <2>3. Signed(0) = 0
    BY <2>1, <2>2 DEF Signed, half
  <2>. QED
    BY <2>3 DEF Init
<1>6. pending_len = absorbed - 0
  BY DEF Init
<1>. QED
  BY <1>1, <1>2, <1>3, <1>4, <1>5, <1>6 DEF IInv, Resumable

(* Every step keeps the invariant,                                         *)
LEMMA NextIInv ==
  ASSUME IInv, [Next]_vars
  PROVE  IInv'
<1>1. ASSUME NEW length \in 0 .. MaxChunk, Absorb(length)
      PROVE  IInv'
  BY <1>1, AbsorbStep
<1>2. ASSUME NEW e \in 0 .. Block, Finalize(e) \/ RejectFinalize(e)
      PROVE  IInv'
  BY <1>2 DEF Finalize, RejectFinalize, state, IInv, Resumable
<1>3. ASSUME UNCHANGED vars
      PROVE  IInv'
  BY <1>3 DEF vars, IInv, Resumable
<1>. QED
  BY <1>1, <1>2, <1>3 DEF Next

(* so every behaviour does.                                                *)
LEMMA InductiveInvariant == Spec => []IInv
<1>. QED
  BY InitIInv, NextIInv, PTL DEF Spec

----------------------------------------------------------------------------
(* However the message is cut into absorbs, the state is that of a single  *)
(* pass over it.                                                           *)
THEOREM StreamIsResumable == Spec => []Resumable
<1>1. IInv => Resumable
  BY DEF IInv
<1>. QED
  BY <1>1, InductiveInvariant, PTL

(* The two static block counts of an absorb cover every position.          *)
THEOREM TwoCandidatesSuffice == Spec => []CandidatesSuffice
<1>1. IInv => CandidatesSuffice
  <2>. SUFFICES ASSUME IInv, NEW length \in 0 .. MaxChunk
                PROVE  /\ ActiveBlocks(length) \in {MinBlocks(length), MaxBlocks(length)}
                       /\ MaxBlocks(length) - MinBlocks(length) \in {0, 1}
    BY DEF CandidatesSuffice
  <2>1. length \in Nat /\ pending_len \in 0 .. Block - 1
    BY StreamAssumption, Position
  <2>. QED
    BY <2>1, BlockCounts
<1>. QED
  BY <1>1, InductiveInvariant, PTL

(* Whatever a call returned is what the promise would have returned.       *)
Kept ==
  \/ result \in {Promise!Nothing, Promise!State, Promise!ValueError}
  \/ \E e \in 0 .. Block - Reserve : result = Promise!Digests(absorbed, e)

(* A result on display was computed for what is absorbed.                  *)
LEMMA ResultsKept == Spec => []Kept
<1>1. Init => Kept
  BY DEF Init, Kept
<1>2. IInv /\ Kept /\ [Next]_vars => Kept'
  <2>. SUFFICES ASSUME IInv, Kept, [Next]_vars
                PROVE  Kept'
    OBVIOUS
  <2>1. ASSUME NEW length \in 0 .. MaxChunk, Absorb(length)
        PROVE  Kept'
    BY <2>1 DEF Absorb, Kept
  <2>2. ASSUME NEW e \in 0 .. Block, Finalize(e)
        PROVE  Kept'
    <3>1. e \in 0 .. Block - Reserve /\ result' = Promise!Digests(absorbed, e)
      BY <2>2, FinalizeKeepsPromise, PadAssumption
    <3>2. absorbed' = absorbed
      BY <2>2 DEF Finalize
    <3>3. result' = Promise!Digests(absorbed', e)
      BY <3>1, <3>2
    <3>. QED
      BY <3>1, <3>3 DEF Kept, Promise!Digests
  <2>3. ASSUME NEW e \in 0 .. Block, RejectFinalize(e)
        PROVE  Kept'
    BY <2>3 DEF RejectFinalize, Kept
  <2>4. ASSUME UNCHANGED vars
        PROVE  Kept'
    BY <2>4 DEF vars, Kept, Promise!Digests
  <2>. QED
    BY <2>1, <2>2, <2>3, <2>4 DEF Next
<1>. QED
  BY <1>1, <1>2, InductiveInvariant, PTL DEF Spec

(* A finalize returns the whole-message digest of every row, for every     *)
(* length below the counter's ceiling.                                     *)
THEOREM FinalizeMatchesOneShot == Spec => []FinalizeIsOneShot
<1>1. IInv /\ Kept => FinalizeIsOneShot
  <2>. SUFFICES ASSUME IInv, Kept, result.kind = "digests", result.length < Word,
                       NEW r \in Rows
                PROVE  result.rows[r] =
                         Promise!OneShot(absorbed, result.length - absorbed, r)
    BY DEF FinalizeIsOneShot
  <2>1. PICK e \in 0 .. Block - Reserve : result = Promise!Digests(absorbed, e)
    BY DEF Kept, Promise!Nothing, Promise!State, Promise!ValueError
  <2>2. absorbed \in Nat /\ e \in Nat
    BY Position, PadAssumption
  <2>3. /\ result.length = absorbed + e
        /\ result.rows[r] = Promise!WithWrappedLength(absorbed, e, r)
    BY <2>1 DEF Promise!Digests
  <2>4. result.length - absorbed = e
    BY <2>2, <2>3
  <2>5. Promise!WithWrappedLength(absorbed, e, r) = Promise!OneShot(absorbed, e, r)
    BY <2>2, <2>3, BelowCeiling
  <2>. QED
    BY <2>3, <2>4, <2>5
<1>. QED
  BY <1>1, InductiveInvariant, ResultsKept, PTL

(* The stream implements the one-shot promise.                             *)
THEOREM StreamImplementsPromise == Spec => ImplementsPromise
<1>1. Init => Promise!Init
  BY DEF Init, Promise!Init
<1>2. IInv /\ [Next]_vars => [Promise!Next]_<<absorbed, result>>
  <2>. SUFFICES ASSUME IInv, [Next]_vars
                PROVE  [Promise!Next]_<<absorbed, result>>
    OBVIOUS
  <2>1. ASSUME NEW length \in 0 .. MaxChunk, Absorb(length)
        PROVE  Promise!Next
    BY <2>1 DEF Absorb, Promise!Next, Promise!Absorb
  <2>2. ASSUME NEW e \in 0 .. Block, Finalize(e)
        PROVE  Promise!Next
    <3>1. e <= Block - Reserve /\ result' = Promise!Digests(absorbed, e)
      BY <2>2, FinalizeKeepsPromise
    <3>2. UNCHANGED absorbed
      BY <2>2 DEF Finalize
    <3>. QED
      BY <3>1, <3>2 DEF Promise!Next, Promise!Finalize
  <2>3. ASSUME NEW e \in 0 .. Block, RejectFinalize(e)
        PROVE  Promise!Next
    <3>1. ~(e <= Block - Reserve)
      BY <2>3, PadAssumption DEF RejectFinalize
    <3>. QED
      BY <2>3, <3>1 DEF RejectFinalize, Promise!Next, Promise!Finalize
  <2>4. ASSUME UNCHANGED vars
        PROVE  UNCHANGED <<absorbed, result>>
    BY <2>4 DEF vars
  <2>. QED
    BY <2>1, <2>2, <2>3, <2>4 DEF Next
<1>. QED
  BY <1>1, <1>2, InductiveInvariant, PTL DEF Spec, ImplementsPromise, Promise!Spec

(* Every variable keeps its type: in particular no byte of a midstate or   *)
(* of the pending block is ever one past the end of the data.              *)
THEOREM TypesHold == Spec => []TypeOK
<1>1. IInv /\ Kept => TypeOK
  <2>. SUFFICES ASSUME IInv, Kept
                PROVE  TypeOK
    OBVIOUS
  <2>. DEFINE c == absorbed \div Block
              start == c * Block
  <2>1. /\ Block \in Nat \ {0}
        /\ absorbed \in Nat /\ absorbed <= MaxBytes /\ MaxBytes \in Nat
        /\ c \in Nat /\ start \in Nat
        /\ pending_len \in 0 .. Block - 1
        /\ absorbed = start + pending_len
    BY PadAssumption, StreamAssumption, Position DEF IInv
  <2>2. ASSUME NEW i \in 1 .. c, NEW j \in 0 .. Block - 1
        PROVE  (i - 1) * Block + j \in 0 .. MaxBytes - 1
    <3>1. i * Block <= c * Block
      <4>. HIDE DEF c
      <4>. QED
        BY <2>1
    <3>2. (i - 1) * Block \in Nat /\ (i - 1) * Block = i * Block - Block
      BY <2>1
    <3>. DEFINE a == (i - 1) * Block
                b == i * Block
    <3>3. a \in Nat /\ b \in Nat /\ a = b - Block /\ b <= start
      BY <2>1, <3>1, <3>2
    <3>. HIDE DEF a, b, c, start
    <3>4. a + j \in 0 .. MaxBytes - 1
      BY <2>1, <3>3
    <3>. QED
      BY <3>4 DEF a
  <2>3. h \in Seq([0 .. Block - 1 -> MessageBytes])
    <3>1. h = FullBlocks(c)
      BY DEF IInv, Resumable, FullBlocks
    <3>2. FullBlocks(c) \in [1 .. c -> [0 .. Block - 1 -> MessageBytes]]
      BY <2>2 DEF FullBlocks, MessageBytes
    <3>. HIDE DEF c
    <3>. QED
      BY <2>1, <3>1, <3>2
  <2>4. pending \in [0 .. Block - 1 -> MessageBytes \cup {Zero}]
    <3>1. pending = [slot \in 0 .. Block - 1 |->
                       IF slot < pending_len THEN Msg(start + slot) ELSE Zero]
      BY DEF IInv, Resumable
    <3>. HIDE DEF start
    <3>2. \A slot \in 0 .. Block - 1 :
            slot < pending_len => start + slot \in 0 .. MaxBytes - 1
      BY <2>1
    <3>. QED
      BY <3>1, <3>2 DEF MessageBytes
  <2>5. total_len \in -(Word \div 2) .. (Word \div 2) - 1
    <3>1. total_len = Signed(absorbed) /\ absorbed \in Int
      BY <2>1 DEF IInv, Resumable
    <3>. QED
      BY <3>1, SignedSum
  <2>6. result.kind \in {"none", "state", "digests", "ValueError"}
    BY DEF Kept, Promise!Nothing, Promise!State, Promise!ValueError, Promise!Digests
  <2>. QED
    BY <2>1, <2>3, <2>4, <2>5, <2>6 DEF TypeOK
<1>. QED
  BY <1>1, InductiveInvariant, ResultsKept, PTL

----------------------------------------------------------------------------
(* Words.                                                                  *)

(* The number that two halves hold, and the rotation of a number.          *)
Num(w)     == w.hi * Pow[HalfBits] + w.lo
Turn(v, n) == v \div Pow[n] + (v % Pow[n]) * Pow[WordBits - n]

----------------------------------------------------------------------------
(* The widths, and the powers they cut: 2^n 2^(h-n) is a half's 2^h.       *)
LEMMA Widths ==
  /\ HalfBits \in Nat \ {0}
  /\ WordBits = HalfBits + HalfBits
  /\ Pow[HalfBits] \in Nat \ {0}
  /\ Pow[WordBits] = Pow[HalfBits] * Pow[HalfBits]
  /\ Pow[WordBits] \in Nat \ {0}
<1>1. HalfBits \in Nat \ {0} /\ WordBits = HalfBits + HalfBits
  BY PowAssumption DEF HalfBits, WordBits
<1>2. HalfBits \in 0 .. WordBits /\ WordBits \in 0 .. WordBits
  BY <1>1
<1>3. Pow[HalfBits] \in Nat \ {0} /\ Pow[WordBits] \in Nat \ {0}
  BY <1>2, PowAssumption
<1>4. Pow[HalfBits + HalfBits] = Pow[HalfBits] * Pow[HalfBits]
  BY <1>1, <1>2, PowAssumption
<1>. QED
  BY <1>1, <1>3, <1>4

(* The powers of two that cut a half at n cut the word.                    *)
LEMMA Cut ==
  ASSUME NEW n \in 0 .. HalfBits
  PROVE  /\ Pow[n] \in Nat \ {0}
         /\ Pow[HalfBits - n] \in Nat \ {0}
         /\ Pow[n] * Pow[HalfBits - n] = Pow[HalfBits]
         /\ Pow[WordBits - n] = Pow[HalfBits - n] * Pow[HalfBits]
         /\ Pow[HalfBits + n] = Pow[n] * Pow[HalfBits]
<1>1. /\ HalfBits \in Nat \ {0}
      /\ WordBits = HalfBits + HalfBits
  BY Widths
<1>2. /\ n \in 0 .. WordBits
      /\ HalfBits - n \in 0 .. WordBits
      /\ HalfBits \in 0 .. WordBits
  BY <1>1
<1>3. Pow[n + (HalfBits - n)] = Pow[n] * Pow[HalfBits - n]
  BY <1>1, <1>2, PowAssumption
<1>4. Pow[(HalfBits - n) + HalfBits] = Pow[HalfBits - n] * Pow[HalfBits]
  BY <1>1, <1>2, PowAssumption
<1>5. Pow[n + HalfBits] = Pow[n] * Pow[HalfBits]
  BY <1>1, <1>2, PowAssumption
<1>6. n + (HalfBits - n) = HalfBits /\ (HalfBits - n) + HalfBits = WordBits - n
      /\ n + HalfBits = HalfBits + n
  BY <1>1
<1>. QED
  BY <1>2, <1>3, <1>4, <1>5, <1>6, PowAssumption

(* Two halves hold a word, and no two pairs the same one.                  *)
LEMMA NumIsWord ==
  ASSUME NEW w \in Pairs
  PROVE  /\ w.lo \in 0 .. Pow[HalfBits] - 1
         /\ w.hi \in 0 .. Pow[HalfBits] - 1
         /\ Num(w) \in 0 .. Pow[WordBits] - 1
<1>. DEFINE H == Pow[HalfBits]
            lo == w.lo
            hi == w.hi
<1>1. H \in Nat \ {0} /\ Pow[WordBits] = H * H
  BY Widths
<1>2. lo \in 0 .. H - 1 /\ hi \in 0 .. H - 1
  BY DEF Pairs, Halves
<1>. HIDE DEF H, lo, hi
<1>3. hi * H \in Nat /\ hi * H <= (H - 1) * H
  BY <1>1, <1>2
<1>4. (H - 1) * H = H * H - H
  BY <1>1
<1>5. hi * H + lo \in 0 .. (H * H) - 1
  BY <1>1, <1>2, <1>3, <1>4
<1>. QED
  BY <1>1, <1>2, <1>5 DEF H, lo, hi, Num

----------------------------------------------------------------------------
(* word.split takes a word apart into the pair that holds it.              *)
LEMMA SplitIsPair ==
  ASSUME NEW v \in 0 .. Pow[WordBits] - 1
  PROVE  Split(v) \in Pairs /\ Num(Split(v)) = v
<1>. DEFINE H == Pow[HalfBits]
            q == v \div H
            r == v % H
<1>1. H \in Nat \ {0} /\ v \in 0 .. (H * H) - 1
  BY Widths
<1>. HIDE DEF H
<1>2. q \in Nat /\ r \in 0 .. H - 1 /\ v = q * H + r
  <2>1. v \in Nat
    BY <1>1
  <2>. QED
    BY <1>1, <2>1, DivModNat
<1>. HIDE DEF q, r
<1>3. q < H
  <2>1. SUFFICES ASSUME q >= H PROVE FALSE
    BY <1>1, <1>2
  <2>2. q * H >= H * H
    BY <1>1, <1>2, <2>1
  <2>. QED
    BY <1>1, <1>2, <2>2
<1>4. Split(v) = [lo |-> r, hi |-> q]
  BY DEF Split, Pair, H, q, r
<1>5. q * H + r = v
  BY <1>2
<1>. QED
  BY <1>1, <1>2, <1>3, <1>4, <1>5 DEF Pairs, Halves, Num, H

(* add64: the comparison finds the carry, and the high half takes it in.   *)
LEMMA AddIsSum ==
  ASSUME NEW v \in Pairs, NEW w \in Pairs
  PROVE  /\ Add64(v, w) \in Pairs
         /\ Num(Add64(v, w)) = (Num(v) + Num(w)) % Pow[WordBits]
<1>. DEFINE H  == Pow[HalfBits]
            a  == v.lo
            b  == v.hi
            c  == w.lo
            d  == w.hi
            lo == (a + c) % H
            k  == IF lo < a THEN 1 ELSE 0
            s  == (b + d) % H
            t  == b + d + k
            q  == t \div H
            hi == t % H
<1>1. H \in Nat \ {0} /\ Pow[WordBits] = H * H
  BY Widths
<1>2. a \in 0 .. H - 1 /\ b \in 0 .. H - 1 /\ c \in 0 .. H - 1 /\ d \in 0 .. H - 1
  BY NumIsWord
<1>3. Add64(v, w) = [lo |-> lo, hi |-> (s + k) % H]
  BY DEF Add64, Plus, Pair
<1>. HIDE DEF H, a, b, c, d
<1>4. lo \in 0 .. H - 1 /\ a + c = k * H + lo
  <2>1. CASE a + c < H
    <3>1. a + c \in 0 .. H - 1
      BY <1>1, <1>2, <2>1
    <3>2. lo = a + c
      BY <1>1, <3>1, ModSmall
    <3>. QED
      BY <1>1, <1>2, <3>1, <3>2
  <2>2. CASE a + c >= H
    <3>. DEFINE r == a + c - H
    <3>1. r \in 0 .. H - 1 /\ a + c = 1 * H + r
      BY <1>1, <1>2, <2>2
    <3>. HIDE DEF r
    <3>2. (1 * H + r) % H = r
      <4>. DEFINE i == 1
      <4>1. i \in Int
        OBVIOUS
      <4>. HIDE DEF i
      <4>2. (i * H + r) % H = r
        BY <1>1, <3>1, <4>1, DivModUnique
      <4>. QED
        BY <4>2 DEF i
    <3>3. lo = r
      BY <3>1, <3>2
    <3>. QED
      BY <1>1, <1>2, <3>1, <3>3
  <2>. QED
    BY <1>1, <1>2, <2>1, <2>2
<1>5. k \in {0, 1}
  OBVIOUS
<1>. HIDE DEF lo, k
<1>6. (s + k) % H = hi
  <2>. DEFINE y == b + d
  <2>1. y \in Int /\ k \in Int
    BY <1>2, <1>5
  <2>. HIDE DEF y
  <2>2. ((y % H) + k) % H = (y + k) % H
    BY <1>1, <2>1, ModSum
  <2>. QED
    BY <2>2 DEF y
<1>7. t \in Int
  BY <1>2, <1>5
<1>8. q \in Int /\ hi \in 0 .. H - 1 /\ t = q * H + hi
  <2>. HIDE DEF t
  <2>. QED
    BY <1>1, <1>7, DivMod
<1>. DEFINE n == hi * H + lo
            W == H * H
<1>9. n \in 0 .. W - 1
  <2>. HIDE DEF hi
  <2>1. hi * H <= (H - 1) * H /\ hi * H \in Nat
    BY <1>1, <1>8
  <2>2. (H - 1) * H = W - H
    BY <1>1
  <2>. HIDE DEF W
  <2>. QED
    BY <1>1, <1>4, <2>1, <2>2 DEF W
<1>10. (b * H + a) + (d * H + c) = q * W + n
  <2>1. (b * H + a) + (d * H + c) = (b + d) * H + (a + c)
    BY <1>1, <1>2
  <2>2. (b + d) * H + (k * H + lo) = t * H + lo
    BY <1>1, <1>2, <1>4, <1>5
  <2>. HIDE DEF hi, q, t
  <2>3. (q * H + hi) * H + lo = q * W + n
    BY <1>1, <1>4, <1>8
  <2>. QED
    BY <1>4, <1>8, <2>1, <2>2, <2>3
<1>11. W \in Nat \ {0}
  BY <1>1
<1>12. ((b * H + a) + (d * H + c)) % W = n
  <2>. HIDE DEF n, W, q
  <2>1. (q * W + n) % W = n
    BY <1>8, <1>9, <1>11, DivModUnique
  <2>. QED
    BY <1>10, <2>1
<1>13. Add64(v, w) = [lo |-> lo, hi |-> hi]
  BY <1>3, <1>6
<1>. HIDE DEF hi
<1>. QED
  BY <1>1, <1>4, <1>8, <1>12, <1>13 DEF Pairs, Halves, Num, H, a, b, c, d

----------------------------------------------------------------------------
(* What a half keeps when it is shifted right, and what the other takes in *)
(* of it: the quotient and the remainder by 2^n.                           *)
LEMMA HalfCut ==
  ASSUME NEW n \in 1 .. HalfBits - 1, NEW a \in 0 .. Pow[HalfBits] - 1
  PROVE  /\ ShiftedRight(a, n) \in 0 .. Pow[HalfBits - n] - 1
         /\ a % Pow[n] \in 0 .. Pow[n] - 1
         /\ a = ShiftedRight(a, n) * Pow[n] + (a % Pow[n])
         /\ ShiftedLeft(a, HalfBits - n) = (a % Pow[n]) * Pow[HalfBits - n]
<1>. DEFINE P == Pow[n]
            Q == Pow[HalfBits - n]
            q == a \div P
            r == a % P
<1>0. n \in 0 .. HalfBits
  BY Widths
<1>1. P \in Nat \ {0} /\ Q \in Nat \ {0} /\ P * Q = Pow[HalfBits]
  BY <1>0, Cut
<1>2. a \in Nat
  BY Widths
<1>. HIDE DEF P, Q
<1>3. q \in Nat /\ r \in 0 .. P - 1 /\ a = q * P + r
  BY <1>1, <1>2, DivModNat
<1>4. a < P * Q
  BY <1>1, Widths
<1>. HIDE DEF q, r
<1>5. q < Q
  <2>1. SUFFICES ASSUME q >= Q PROVE FALSE
    BY <1>1, <1>3
  <2>2. q * P >= Q * P
    BY <1>1, <1>3, <2>1
  <2>3. Q * P = P * Q
    BY <1>1
  <2>. QED
    BY <1>1, <1>3, <1>4, <2>2, <2>3
<1>6. r * Q \in 0 .. (P * Q) - 1
  <2>1. r * Q <= (P - 1) * Q /\ r * Q \in Nat
    BY <1>1, <1>3
  <2>2. (P - 1) * Q = P * Q - Q
    BY <1>1
  <2>. QED
    BY <1>1, <1>3, <2>1, <2>2
<1>7. (a * Q) % (P * Q) = r * Q
  <2>. DEFINE M == P * Q
              z == r * Q
  <2>1. a * Q = q * M + z
    BY <1>1, <1>3
  <2>2. M \in Nat \ {0} /\ z \in 0 .. M - 1
    BY <1>1, <1>6
  <2>. HIDE DEF M, z
  <2>3. (q * M + z) % M = z
    BY <1>3, <2>2, DivModUnique
  <2>. QED
    BY <2>1, <2>3 DEF M, z
<1>8. ShiftedRight(a, n) = q /\ ShiftedLeft(a, HalfBits - n) = (a * Q) % (P * Q)
  BY <1>1 DEF ShiftedRight, ShiftedLeft, q, P, Q
<1>9. a % Pow[n] = r /\ Pow[n] = P /\ Pow[HalfBits - n] = Q
  BY DEF P, Q, r
<1>10. q \in 0 .. Q - 1 /\ a = q * P + r
  BY <1>1, <1>3, <1>5
<1>. QED
  BY <1>3, <1>7, <1>8, <1>9, <1>10

(* Shifting numbers gives numbers.                                         *)
LEMMA ShiftsAreNumbers ==
  ASSUME NEW a \in Nat, NEW n \in 0 .. HalfBits
  PROVE  ShiftedLeft(a, n) \in Nat /\ ShiftedRight(a, n) \in Nat
<1>. DEFINE P == Pow[n]
            H == Pow[HalfBits]
            z == a * P
<1>1. P \in Nat \ {0} /\ H \in Nat \ {0}
  BY Cut, Widths
<1>. HIDE DEF P, H
<1>2. z \in Nat
  BY <1>1
<1>. HIDE DEF z
<1>3. z % H \in Nat /\ a \div P \in Nat
  <2>1. z % H \in 0 .. H - 1 /\ a \div P \in Nat
    BY <1>1, <1>2, DivModNat
  <2>. QED
    BY <1>1, <2>1
<1>. QED
  BY <1>3 DEF ShiftedLeft, ShiftedRight, z, P, H

(* The sum that joins two pieces is a half: it has no bit to carry.        *)
LEMMA Joined ==
  ASSUME NEW P \in Nat \ {0}, NEW Q \in Nat \ {0},
         NEW q \in 0 .. Q - 1, NEW r \in 0 .. P - 1
  PROVE  q + r * Q \in 0 .. (P * Q) - 1
<1>1. r * Q <= (P - 1) * Q /\ r * Q \in Nat
  OBVIOUS
<1>2. (P - 1) * Q = P * Q - Q
  OBVIOUS
<1>. QED
  BY <1>1, <1>2

(* What RotrShort computes, in the pieces of the two halves.               *)
LEMMA RotrPieces ==
  ASSUME NEW w \in Pairs, NEW n \in 1 .. HalfBits - 1,
         NEW P, P = Pow[n],
         NEW Q, Q = Pow[HalfBits - n],
         NEW H, H = Pow[HalfBits],
         NEW a, a = ShiftedRight(w.lo, n), NEW b, b = w.lo % Pow[n],
         NEW c, c = ShiftedRight(w.hi, n), NEW d, d = w.hi % Pow[n]
  PROVE  /\ P \in Nat \ {0} /\ Q \in Nat \ {0} /\ H = P * Q
         /\ Pow[WordBits - n] = Q * H /\ Pow[HalfBits + n] = P * H
         /\ Pow[WordBits - (HalfBits + n)] = Q
         /\ a \in 0 .. Q - 1 /\ b \in 0 .. P - 1
         /\ c \in 0 .. Q - 1 /\ d \in 0 .. P - 1
         /\ w.lo = a * P + b /\ w.hi = c * P + d
         /\ RotrShort(w, n) = [lo |-> a + d * Q, hi |-> c + b * Q]
         /\ RotrShort(w, n) \in Pairs
<1>1. n \in 0 .. HalfBits /\ WordBits - (HalfBits + n) = HalfBits - n
  BY Widths
<1>2. /\ P \in Nat \ {0} /\ Q \in Nat \ {0} /\ H = P * Q
      /\ Pow[WordBits - n] = Q * H /\ Pow[HalfBits + n] = P * H
      /\ Pow[WordBits - (HalfBits + n)] = Q
  BY <1>1, Cut
<1>3. w.lo \in 0 .. Pow[HalfBits] - 1 /\ w.hi \in 0 .. Pow[HalfBits] - 1
  BY NumIsWord
<1>4. /\ a \in 0 .. Q - 1 /\ b \in 0 .. P - 1
      /\ w.lo = a * P + b
      /\ ShiftedLeft(w.lo, HalfBits - n) = b * Q
  BY <1>3, HalfCut
<1>5. /\ c \in 0 .. Q - 1 /\ d \in 0 .. P - 1
      /\ w.hi = c * P + d
      /\ ShiftedLeft(w.hi, HalfBits - n) = d * Q
  BY <1>3, HalfCut
<1>6. RotrShort(w, n) = [lo |-> a + d * Q, hi |-> c + b * Q]
  BY <1>4, <1>5 DEF RotrShort, Pair
<1>7. a + d * Q \in 0 .. H - 1 /\ c + b * Q \in 0 .. H - 1
  BY <1>2, <1>4, <1>5, Joined
<1>8. RotrShort(w, n) \in Pairs
  BY <1>6, <1>7 DEF Pairs, Halves
<1>. QED
  BY <1>2, <1>4, <1>5, <1>6, <1>8

(* A rotation by less than a half.                                         *)
LEMMA RotrShortIsTurn ==
  ASSUME NEW w \in Pairs, NEW n \in 1 .. HalfBits - 1
  PROVE  Num(RotrShort(w, n)) = Turn(Num(w), n)
<1>. DEFINE P == Pow[n]
            Q == Pow[HalfBits - n]
            H == Pow[HalfBits]
            a == ShiftedRight(w.lo, n)
            b == w.lo % Pow[n]
            c == ShiftedRight(w.hi, n)
            d == w.hi % Pow[n]
            s == RotrShort(w, n)
<1>1. /\ P \in Nat \ {0} /\ Q \in Nat \ {0} /\ H = P * Q
      /\ Pow[WordBits - n] = Q * H
      /\ a \in 0 .. Q - 1 /\ b \in 0 .. P - 1
      /\ c \in 0 .. Q - 1 /\ d \in 0 .. P - 1
      /\ w.lo = a * P + b /\ w.hi = c * P + d
      /\ s = [lo |-> a + d * Q, hi |-> c + b * Q]
  BY RotrPieces
<1>2. Pow[n] = P /\ Pow[HalfBits] = H
  OBVIOUS
<1>. HIDE DEF P, Q, H, a, b, c, d, s
<1>. DEFINE q == c * H + d * Q + a
<1>3. Num(w) = q * P + b
  <2>1. (c * P + d) * (P * Q) + (a * P + b) = (c * (P * Q) + d * Q + a) * P + b
    BY <1>1
  <2>. QED
    BY <1>1, <1>2, <2>1 DEF Num
<1>4. q \in Int
  BY <1>1
<1>. HIDE DEF q
<1>5. Num(w) \div P = q /\ Num(w) % P = b
  BY <1>1, <1>3, <1>4, DivModUnique
<1>6. Turn(Num(w), n) = q + b * (Q * H)
  BY <1>1, <1>2, <1>5 DEF Turn
<1>7. (c + b * Q) * H + (a + d * Q) = (c * H + d * Q + a) + b * (Q * H)
  BY <1>1
<1>8. Num(s) = (c + b * Q) * H + (a + d * Q)
  BY <1>1, <1>2 DEF Num
<1>. QED
  BY <1>6, <1>7, <1>8 DEF q, s

(* A rotation by more than a half is one of the exchanged halves by the    *)
(* rest.                                                                   *)
LEMMA RotrShortSwapped ==
  ASSUME NEW w \in Pairs, NEW n \in 1 .. HalfBits - 1
  PROVE  Num(RotrShort(Swapped(w), n)) = Turn(Num(w), HalfBits + n)
<1>. DEFINE v == Swapped(w)
            P == Pow[n]
            Q == Pow[HalfBits - n]
            H == Pow[HalfBits]
            a == ShiftedRight(v.lo, n)
            b == v.lo % Pow[n]
            c == ShiftedRight(v.hi, n)
            d == v.hi % Pow[n]
            s == RotrShort(v, n)
<1>0. v \in Pairs /\ v.lo = w.hi /\ v.hi = w.lo
  BY DEF Swapped, Pair, Pairs
<1>. HIDE DEF v
<1>1. /\ P \in Nat \ {0} /\ Q \in Nat \ {0} /\ H = P * Q
      /\ Pow[HalfBits + n] = P * H
      /\ Pow[WordBits - (HalfBits + n)] = Q
      /\ a \in 0 .. Q - 1 /\ b \in 0 .. P - 1
      /\ c \in 0 .. Q - 1 /\ d \in 0 .. P - 1
      /\ v.lo = a * P + b /\ v.hi = c * P + d
      /\ s = [lo |-> a + d * Q, hi |-> c + b * Q]
  BY <1>0, RotrPieces
<1>2. Pow[HalfBits] = H
  OBVIOUS
<1>. HIDE DEF P, Q, H, a, b, c, d, s
<1>. DEFINE M == P * H
            r == b * H + (c * P + d)
<1>3. Num(w) = a * M + r
  <2>1. (a * P + b) * H + (c * P + d) = a * (P * H) + (b * H + (c * P + d))
    BY <1>1
  <2>. QED
    BY <1>0, <1>1, <1>2, <2>1 DEF Num
<1>4. M \in Nat \ {0} /\ r \in 0 .. M - 1
  <2>1. H \in Nat \ {0} /\ M \in Nat \ {0}
    BY <1>1
  <2>2. d + c * P \in 0 .. (Q * P) - 1
    BY <1>1, Joined
  <2>3. Q * P = H /\ d + c * P = c * P + d
    BY <1>1
  <2>. DEFINE z == c * P + d
  <2>4. z \in 0 .. H - 1
    BY <2>2, <2>3
  <2>. HIDE DEF z
  <2>5. z + b * H \in 0 .. (P * H) - 1
    BY <1>1, <2>1, <2>4, Joined
  <2>6. z + b * H = b * H + z
    BY <1>1, <2>1, <2>4
  <2>. QED
    BY <2>1, <2>5, <2>6 DEF z
<1>. HIDE DEF M, r
<1>5. Num(w) \div M = a /\ Num(w) % M = r
  <2>1. a \in Int
    BY <1>1
  <2>2. (a * M + r) \div M = a /\ (a * M + r) % M = r
    BY <1>4, <2>1, DivModUnique
  <2>. QED
    BY <1>3, <2>2
<1>6. Turn(Num(w), HalfBits + n) = a + r * Q
  BY <1>1, <1>5 DEF Turn, M
<1>7. (c + b * Q) * H + (a + d * Q) = a + (b * H + (c * P + d)) * Q
  <2>1. (c + b * Q) * (P * Q) + (a + d * Q) = a + (b * (P * Q) + (c * P + d)) * Q
    BY <1>1
  <2>. QED
    BY <1>1, <2>1
<1>8. Num(s) = (c + b * Q) * H + (a + d * Q)
  BY <1>1, <1>2 DEF Num
<1>9. Num(RotrShort(v, n)) = Turn(Num(w), HalfBits + n)
  BY <1>6, <1>7, <1>8 DEF r, s
<1>. QED
  BY <1>9 DEF v

(* A rotation by exactly a half exchanges the halves; one by nothing, or   *)
(* by the whole word, changes nothing.                                     *)
LEMMA SwappedIsTurn ==
  ASSUME NEW w \in Pairs
  PROVE  Swapped(w) \in Pairs /\ Num(Swapped(w)) = Turn(Num(w), HalfBits)
<1>. DEFINE H == Pow[HalfBits]
            a == w.hi
            b == w.lo
<1>1. H \in Nat \ {0} /\ Pow[WordBits - HalfBits] = H
  <2>1. WordBits - HalfBits = HalfBits
    BY Widths
  <2>. QED
    BY <2>1, Widths
<1>2. a \in 0 .. H - 1 /\ b \in 0 .. H - 1
  BY NumIsWord
<1>3. Swapped(w) = [lo |-> a, hi |-> b]
  BY DEF Swapped, Pair
<1>4. Num(w) = a * H + b
  BY DEF Num
<1>. HIDE DEF H, a, b
<1>5. Num(w) \div H = a /\ Num(w) % H = b
  <2>1. a \in Int
    BY <1>2
  <2>. QED
    BY <1>1, <1>2, <1>4, <2>1, DivModUnique
<1>6. Turn(Num(w), HalfBits) = a + b * H
  BY <1>1, <1>5 DEF Turn, H
<1>7. a + b * H = b * H + a
  BY <1>1, <1>2
<1>8. Num(Swapped(w)) = b * H + a
  BY <1>3 DEF Num, H
<1>. QED
  BY <1>2, <1>3, <1>6, <1>7, <1>8 DEF Pairs, Halves, H

(* Turning by nothing.                                                     *)
LEMMA TurnZero ==
  ASSUME NEW v \in Nat
  PROVE  Turn(v, 0) = v
<1>1. v \div 1 = v /\ v % 1 = 0
  OBVIOUS
<1>2. WordBits \in 0 .. WordBits
  BY Widths
<1>3. Pow[0] = 1 /\ Pow[WordBits - 0] \in Nat
  BY <1>2, Widths, PowAssumption
<1>. QED
  BY <1>1, <1>3 DEF Turn

(* A count below the word's width.                                         *)
LEMMA CountInWord ==
  ASSUME NEW count \in Nat
  PROVE  count % WordBits \in 0 .. WordBits - 1
<1>1. WordBits \in Nat \ {0}
  BY Widths
<1>. QED
  BY <1>1, DivModNat

(* rotr64: its four cases are one rotation.                                *)
LEMMA Rotr64IsTurn ==
  ASSUME NEW w \in Pairs, NEW count \in Nat
  PROVE  /\ Rotr64(w, count) \in Pairs
         /\ Num(Rotr64(w, count)) = Turn(Num(w), count % WordBits)
<1>. DEFINE n == count % WordBits
<1>1. n \in 0 .. WordBits - 1
  BY CountInWord
<1>2. Rotr64(w, count) =
        CASE n = 0        -> w
          [] n = HalfBits -> Swapped(w)
          [] n \in 1 .. HalfBits - 1 -> RotrShort(w, n)
          [] n > HalfBits -> RotrShort(Swapped(w), n - HalfBits)
  BY DEF Rotr64, WordBits
<1>. HIDE DEF n
<1>3. Num(w) \in Nat
  BY NumIsWord, Widths
<1>4. HalfBits \in Nat \ {0} /\ WordBits = HalfBits + HalfBits
  BY Widths
<1>5. CASE n = 0
  <2>1. Rotr64(w, count) = w
    BY <1>2, <1>4, <1>5
  <2>. QED
    BY <2>1, <1>3, <1>5, TurnZero DEF n
<1>6. CASE n = HalfBits
  <2>1. Rotr64(w, count) = Swapped(w)
    BY <1>2, <1>4, <1>6
  <2>. QED
    BY <2>1, <1>6, SwappedIsTurn DEF n
<1>7. CASE n \in 1 .. HalfBits - 1
  <2>1. Rotr64(w, count) = RotrShort(w, n)
    BY <1>2, <1>4, <1>7
  <2>2. RotrShort(w, n) \in Pairs
    BY <1>7, RotrPieces
  <2>. QED
    BY <2>1, <2>2, <1>7, RotrShortIsTurn DEF n
<1>8. CASE n > HalfBits
  <2>. DEFINE m == n - HalfBits
  <2>1. Rotr64(w, count) = RotrShort(Swapped(w), m)
    BY <1>1, <1>2, <1>4, <1>8
  <2>2. m \in 1 .. HalfBits - 1 /\ n = HalfBits + m
    BY <1>1, <1>4, <1>8
  <2>. HIDE DEF m
  <2>3. RotrShort(Swapped(w), m) \in Pairs
    BY <2>2, RotrPieces, SwappedIsTurn
  <2>4. Num(RotrShort(Swapped(w), m)) = Turn(Num(w), HalfBits + m)
    BY <2>2, RotrShortSwapped
  <2>. QED
    BY <2>1, <2>2, <2>3, <2>4 DEF n
<1>. QED
  BY <1>1, <1>4, <1>5, <1>6, <1>7, <1>8

----------------------------------------------------------------------------
(* Keccak's rotation to the left is one to the right by the rest of the    *)
(* word.                                                                   *)
TurnLeft(v, n) == (v % Pow[WordBits - n]) * Pow[n] + v \div Pow[WordBits - n]

(* A turn to the left is the other turn to the right.                      *)
LEMMA LeftIsRight ==
  ASSUME NEW v \in Nat, NEW n \in 1 .. WordBits - 1
  PROVE  TurnLeft(v, n) = Turn(v, WordBits - n)
<1>. DEFINE P == Pow[n]
            Q == Pow[WordBits - n]
            q == v \div Q
            r == v % Q
<1>1. P \in Nat \ {0} /\ Q \in Nat \ {0}
  <2>1. n \in 0 .. WordBits /\ WordBits - n \in 0 .. WordBits
    BY Widths
  <2>. QED
    BY <2>1, PowAssumption
<1>2. q \in Int /\ r \in Int
  <2>. HIDE DEF Q
  <2>. QED
    BY <1>1, DivModNat
<1>3. WordBits - (WordBits - n) = n
  BY Widths
<1>4. TurnLeft(v, n) = r * P + q /\ Turn(v, WordBits - n) = q + r * P
  BY <1>3 DEF TurnLeft, Turn
<1>. HIDE DEF P, q, r
<1>. QED
  BY <1>1, <1>2, <1>4

(* So it is on the halves, once swapped.                                   *)
LEMMA RotlShortIsRotr ==
  ASSUME NEW w \in Pairs, NEW n \in 1 .. HalfBits - 1
  PROVE  RotlShort(w, n) = RotrShort(Swapped(w), HalfBits - n)
<1>. DEFINE m == HalfBits - n
            a == ShiftedLeft(w.lo, n)
            b == ShiftedRight(w.hi, m)
            c == ShiftedLeft(w.hi, n)
            d == ShiftedRight(w.lo, m)
<1>1. m \in 1 .. HalfBits - 1 /\ HalfBits - m = n
  BY Widths
<1>2. w.lo \in 0 .. Pow[HalfBits] - 1 /\ w.hi \in 0 .. Pow[HalfBits] - 1
  BY NumIsWord
<1>3. n \in 0 .. HalfBits /\ m \in 0 .. HalfBits /\ w.lo \in Nat /\ w.hi \in Nat
  BY <1>2, Widths
<1>4. a \in Int /\ b \in Int /\ c \in Int /\ d \in Int
  <2>. HIDE DEF m
  <2>. QED
    BY <1>3, ShiftsAreNumbers
<1>5. RotrShort(Swapped(w), m) = [lo |-> b + a, hi |-> d + c]
  BY <1>1 DEF RotrShort, Swapped, Pair
<1>6. RotlShort(w, n) = [lo |-> a + b, hi |-> c + d]
  BY DEF RotlShort, Pair
<1>. HIDE DEF m, a, b, c, d
<1>7. a + b = b + a /\ c + d = d + c
  BY <1>4
<1>. QED
  BY <1>5, <1>6, <1>7 DEF m

(* keccak/lane.py's rotl: its four cases are one rotation.                 *)
LEMMA RotlIsTurn ==
  ASSUME NEW w \in Pairs, NEW count \in Nat
  PROVE  /\ Rotl(w, count) \in Pairs
         /\ Num(Rotl(w, count)) = TurnLeft(Num(w), count % WordBits)
<1>. DEFINE n == count % WordBits
<1>1. n \in 0 .. WordBits - 1
  BY CountInWord
<1>2. Rotl(w, count) =
        CASE n = 0        -> w
          [] n = HalfBits -> Swapped(w)
          [] n \in 1 .. HalfBits - 1 -> RotlShort(w, n)
          [] n > HalfBits -> RotlShort(Swapped(w), n - HalfBits)
  BY DEF Rotl, WordBits
<1>. HIDE DEF n
<1>3. Num(w) \in 0 .. Pow[WordBits] - 1 /\ Num(w) \in Nat
  BY NumIsWord, Widths
<1>4. HalfBits \in Nat \ {0} /\ WordBits = HalfBits + HalfBits
  BY Widths
<1>5. CASE n = 0
  <2>1. Rotl(w, count) = w
    BY <1>2, <1>4, <1>5
  <2>2. Pow[0] = 1 /\ WordBits - 0 = WordBits /\ Pow[WordBits] \in Nat \ {0}
    BY Widths, PowAssumption
  <2>3. Num(w) % Pow[WordBits] = Num(w) /\ Num(w) \div Pow[WordBits] = 0
    <3>. DEFINE W == Pow[WordBits]
                v == Num(w)
                z == 0
    <3>1. W \in Nat \ {0} /\ v \in 0 .. W - 1 /\ z \in Int /\ z * W + v = v
      BY <1>3, <2>2
    <3>. HIDE DEF W, v, z
    <3>2. (z * W + v) \div W = z /\ (z * W + v) % W = v
      BY <3>1, DivModUnique
    <3>. QED
      BY <3>1, <3>2 DEF W, v, z
  <2>4. TurnLeft(Num(w), 0) = Num(w)
    BY <1>3, <2>2, <2>3 DEF TurnLeft
  <2>. QED
    BY <2>1, <2>4, <1>5 DEF n
<1>6. CASE n = HalfBits
  <2>1. Rotl(w, count) = Swapped(w)
    BY <1>2, <1>4, <1>6
  <2>2. TurnLeft(Num(w), HalfBits) = Turn(Num(w), HalfBits)
    <3>1. HalfBits \in 1 .. WordBits - 1 /\ WordBits - HalfBits = HalfBits
      BY <1>4
    <3>. QED
      BY <3>1, <1>3, LeftIsRight
  <2>. QED
    BY <2>1, <2>2, <1>6, SwappedIsTurn DEF n
<1>7. CASE n \in 1 .. HalfBits - 1
  <2>. DEFINE m == HalfBits - n
  <2>1. Rotl(w, count) = RotlShort(w, n)
    BY <1>2, <1>4, <1>7
  <2>2. m \in 1 .. HalfBits - 1 /\ HalfBits + m = WordBits - n
    BY <1>4, <1>7
  <2>3. Rotl(w, count) = RotrShort(Swapped(w), m)
    BY <2>1, <1>7, RotlShortIsRotr
  <2>. HIDE DEF m
  <2>4. RotrShort(Swapped(w), m) \in Pairs
    BY <2>2, RotrPieces, SwappedIsTurn
  <2>5. Num(RotrShort(Swapped(w), m)) = Turn(Num(w), WordBits - n)
    BY <2>2, RotrShortSwapped
  <2>6. TurnLeft(Num(w), n) = Turn(Num(w), WordBits - n)
    <3>1. n \in 1 .. WordBits - 1
      BY <1>4, <1>7
    <3>. QED
      BY <3>1, <1>3, LeftIsRight
  <2>. QED
    BY <2>3, <2>4, <2>5, <2>6 DEF n
<1>8. CASE n > HalfBits
  <2>. DEFINE k == n - HalfBits
              m == HalfBits - k
              v == Swapped(w)
  <2>1. Rotl(w, count) = RotlShort(v, k)
    BY <1>1, <1>2, <1>4, <1>8
  <2>2. k \in 1 .. HalfBits - 1 /\ m \in 1 .. HalfBits - 1 /\ m = WordBits - n
    BY <1>1, <1>4, <1>8
  <2>3. v \in Pairs /\ Swapped(v) = w
    <3>1. w = [lo |-> w.lo, hi |-> w.hi]
      BY DEF Pairs
    <3>2. Swapped(Swapped(w)) = [lo |-> w.lo, hi |-> w.hi]
      BY DEF Swapped, Pair
    <3>. QED
      BY <3>1, <3>2, SwappedIsTurn
  <2>4. Rotl(w, count) = RotrShort(w, m)
    <3>. HIDE DEF v, k
    <3>1. RotlShort(v, k) = RotrShort(Swapped(v), HalfBits - k)
      BY <2>2, <2>3, RotlShortIsRotr
    <3>. QED
      BY <2>1, <2>3, <3>1
  <2>. HIDE DEF m
  <2>5. RotrShort(w, m) \in Pairs
    BY <2>2, RotrPieces
  <2>6. Num(RotrShort(w, m)) = Turn(Num(w), WordBits - n)
    BY <2>2, RotrShortIsTurn
  <2>7. TurnLeft(Num(w), n) = Turn(Num(w), WordBits - n)
    <3>1. n \in 1 .. WordBits - 1
      BY <1>1, <1>4, <1>8
    <3>. QED
      BY <3>1, <1>3, LeftIsRight
  <2>. QED
    BY <2>4, <2>5, <2>6, <2>7 DEF n
<1>. QED
  BY <1>1, <1>4, <1>5, <1>6, <1>7, <1>8

(* rho_tables and rotl_each: the cases as data are the cases as branches,  *)
(* and the dummy shift is always selected away.                            *)
LEMMA RotlEachIsRotl ==
  ASSUME NEW w \in Pairs, NEW count \in Nat
  PROVE  RotlEach(w, RhoTable(count)) = Rotl(w, count)
<1>. DEFINE n == count % WordBits
            m == n % HalfBits
<1>1. HalfBits \in Nat \ {0} /\ WordBits = HalfBits + HalfBits
  BY Widths
<1>2. n \in 0 .. WordBits - 1
  BY <1>1, DivModNat
<1>3. Rotl(w, count) =
        CASE n = 0        -> w
          [] n = HalfBits -> Swapped(w)
          [] n \in 1 .. HalfBits - 1 -> RotlShort(w, n)
          [] n > HalfBits -> RotlShort(Swapped(w), n - HalfBits)
  BY DEF Rotl, WordBits
<1>4. RhoTable(count) = [swap  |-> n >= HalfBits,
                         shift |-> IF m = 0 THEN 1 ELSE m,
                         keep  |-> m = 0]
  BY DEF RhoTable, WordBits
<1>. HIDE DEF n
<1>5. m = IF n < HalfBits THEN n ELSE n - HalfBits
  <2>1. CASE n < HalfBits
    <3>1. n \in 0 .. HalfBits - 1
      BY <1>1, <1>2, <2>1
    <3>. QED
      BY <1>1, <2>1, <3>1, ModSmall
  <2>2. CASE n >= HalfBits
    <3>. DEFINE k == n - HalfBits
                i == 1
    <3>1. k \in 0 .. HalfBits - 1 /\ i \in Int /\ n = i * HalfBits + k
      BY <1>1, <1>2, <2>2
    <3>. HIDE DEF k, i
    <3>2. (i * HalfBits + k) % HalfBits = k
      BY <1>1, <3>1, DivModUnique
    <3>. QED
      BY <1>1, <1>2, <2>2, <3>1, <3>2 DEF k
  <2>. QED
    BY <1>1, <1>2, <2>1, <2>2
<1>. HIDE DEF m
<1>6. RotlEach(w, RhoTable(count)) =
        LET base == IF n >= HalfBits THEN Swapped(w) ELSE w
        IN  IF m = 0 THEN base ELSE RotlShort(base, m)
  <2>. DEFINE table == RhoTable(count)
  <2>1. /\ table.swap <=> n >= HalfBits
        /\ table.keep <=> m = 0
        /\ m # 0 => table.shift = m
    <3>. DEFINE swap  == n >= HalfBits
                shift == IF m = 0 THEN 1 ELSE m
                keep  == m = 0
    <3>1. table = [swap |-> swap, shift |-> shift, keep |-> keep]
      BY <1>4
    <3>. HIDE DEF table, swap, shift, keep
    <3>2. table.swap = swap /\ table.keep = keep /\ table.shift = shift
      BY <3>1, Zenon
    <3>. QED
      BY <3>2 DEF swap, shift, keep
  <2>. HIDE DEF table
  <2>2. RotlEach(w, table) =
          LET base == IF n >= HalfBits THEN Swapped(w) ELSE w
          IN  IF m = 0 THEN base ELSE RotlShort(base, m)
    BY <2>1 DEF RotlEach
  <2>. QED
    BY <2>2 DEF table
<1>7. CASE n = 0
  BY <1>1, <1>3, <1>5, <1>6, <1>7
<1>8. CASE n = HalfBits
  BY <1>1, <1>3, <1>5, <1>6, <1>8
<1>9. CASE n \in 1 .. HalfBits - 1
  <2>1. m = n /\ m # 0 /\ ~(n >= HalfBits)
    BY <1>1, <1>5, <1>9
  <2>. QED
    BY <1>1, <1>3, <1>6, <1>9, <2>1
<1>10. CASE n > HalfBits
  <2>1. m = n - HalfBits /\ m # 0 /\ n >= HalfBits
    BY <1>1, <1>2, <1>5, <1>10
  <2>. QED
    BY <1>1, <1>2, <1>3, <1>6, <1>10, <2>1
<1>. QED
  BY <1>1, <1>2, <1>7, <1>8, <1>9, <1>10

(* _shr64: the quotient of the word, the high half's loss taken in.        *)
LEMMA ShrIsQuotient ==
  ASSUME NEW w \in Pairs, NEW n \in 1 .. HalfBits - 1
  PROVE  /\ Shr64(w, n) \in Pairs
         /\ Num(Shr64(w, n)) = Num(w) \div Pow[n]
<1>. DEFINE P == Pow[n]
            Q == Pow[HalfBits - n]
            H == Pow[HalfBits]
            a == ShiftedRight(w.lo, n)
            b == w.lo % Pow[n]
            c == ShiftedRight(w.hi, n)
            d == w.hi % Pow[n]
<1>1. /\ P \in Nat \ {0} /\ Q \in Nat \ {0} /\ H = P * Q
      /\ a \in 0 .. Q - 1 /\ b \in 0 .. P - 1
      /\ c \in 0 .. Q - 1 /\ d \in 0 .. P - 1
      /\ w.lo = a * P + b /\ w.hi = c * P + d
  BY RotrPieces
<1>2. Shr64(w, n) = [lo |-> a + d * Q, hi |-> c]
  <2>1. ShiftedLeft(w.hi, HalfBits - n) = d * Q
    BY NumIsWord, HalfCut
  <2>. QED
    BY <2>1 DEF Shr64, Pair
<1>3. Pow[n] = P /\ Pow[HalfBits] = H
  OBVIOUS
<1>. HIDE DEF P, Q, H, a, b, c, d
<1>4. a + d * Q \in 0 .. H - 1
  BY <1>1, Joined
<1>5. c \in 0 .. H - 1
  <2>1. Q <= P * Q
    BY <1>1
  <2>. QED
    BY <1>1, <2>1
<1>. DEFINE q == c * H + (a + d * Q)
<1>6. Num(w) = q * P + b
  <2>1. (c * P + d) * (P * Q) + (a * P + b) = (c * (P * Q) + (a + d * Q)) * P + b
    BY <1>1
  <2>. QED
    BY <1>1, <1>3, <2>1 DEF Num
<1>7. q \in Int
  BY <1>1
<1>8. Num(Shr64(w, n)) = q
  BY <1>2, <1>3 DEF Num
<1>. HIDE DEF q
<1>9. (q * P + b) \div P = q
  BY <1>1, <1>7, DivModUnique
<1>. QED
  BY <1>2, <1>3, <1>4, <1>5, <1>6, <1>8, <1>9 DEF Pairs, Halves

----------------------------------------------------------------------------
(* The powers that place a byte in a half and in a word.                   *)
LEMMA BytePlaces ==
  ASSUME NEW B, B = Pow[ByteBits], NEW H, H = Pow[HalfBits]
  PROVE  /\ B \in Nat \ {0}
         /\ Pow[2 * ByteBits] = B * B
         /\ Pow[3 * ByteBits] = B * B * B
         /\ H = B * B * B * B
         /\ Pow[4 * ByteBits] = H
         /\ Pow[5 * ByteBits] = B * H
         /\ Pow[6 * ByteBits] = B * B * H
         /\ Pow[7 * ByteBits] = B * B * B * H
<1>1. /\ ByteBits \in Nat \ {0}
      /\ HalfBits = 4 * ByteBits /\ WordBits = 8 * ByteBits
  BY PowAssumption DEF HalfBits, WordBits
<1>2. ASSUME NEW j \in 0 .. WordBits, NEW k \in 0 .. WordBits, j + k <= WordBits
      PROVE  Pow[j + k] = Pow[j] * Pow[k]
  BY <1>2, PowAssumption
<1>3. Pow[ByteBits + ByteBits] = B * B /\ ByteBits + ByteBits = 2 * ByteBits
  BY <1>1, <1>2
<1>4. Pow[2 * ByteBits + ByteBits] = B * B * B
      /\ 2 * ByteBits + ByteBits = 3 * ByteBits
  <2>1. 2 * ByteBits \in 0 .. WordBits /\ ByteBits \in 0 .. WordBits
        /\ 2 * ByteBits + ByteBits <= WordBits
    BY <1>1
  <2>. QED
    BY <1>1, <1>2, <1>3, <2>1
<1>5. Pow[3 * ByteBits + ByteBits] = B * B * B * B
      /\ 3 * ByteBits + ByteBits = 4 * ByteBits
  <2>1. 3 * ByteBits \in 0 .. WordBits /\ ByteBits \in 0 .. WordBits
        /\ 3 * ByteBits + ByteBits <= WordBits
    BY <1>1
  <2>. QED
    BY <1>1, <1>2, <1>4, <2>1
<1>6. Pow[4 * ByteBits] = H
  BY <1>1
<1>7. Pow[ByteBits + HalfBits] = B * H /\ ByteBits + HalfBits = 5 * ByteBits
  <2>1. ByteBits \in 0 .. WordBits /\ HalfBits \in 0 .. WordBits
        /\ ByteBits + HalfBits <= WordBits
    BY <1>1
  <2>. QED
    BY <1>1, <1>2, <2>1
<1>8. Pow[2 * ByteBits + HalfBits] = B * B * H
      /\ 2 * ByteBits + HalfBits = 6 * ByteBits
  <2>1. 2 * ByteBits \in 0 .. WordBits /\ HalfBits \in 0 .. WordBits
        /\ 2 * ByteBits + HalfBits <= WordBits
    BY <1>1
  <2>. QED
    BY <1>1, <1>2, <1>3, <2>1
<1>9. Pow[3 * ByteBits + HalfBits] = B * B * B * H
      /\ 3 * ByteBits + HalfBits = 7 * ByteBits
  <2>1. 3 * ByteBits \in 0 .. WordBits /\ HalfBits \in 0 .. WordBits
        /\ 3 * ByteBits + HalfBits <= WordBits
    BY <1>1
  <2>. QED
    BY <1>1, <1>2, <1>4, <2>1
<1>10. B \in Nat \ {0}
  <2>1. ByteBits \in 0 .. WordBits
    BY <1>1
  <2>. QED
    BY <2>1, PowAssumption
<1>. QED
  BY <1>3, <1>4, <1>5, <1>6, <1>7, <1>8, <1>9, <1>10

(* Digits below a base make a number below its power: no byte placed in a  *)
(* half overflows it, and their sum does not either.                       *)
LEMMA Digits ==
  ASSUME NEW B \in Nat \ {0},
         NEW p \in 0 .. B - 1, NEW q \in 0 .. B - 1,
         NEW r \in 0 .. B - 1, NEW s \in 0 .. B - 1
  PROVE  /\ q * B \in 0 .. (B * B * B * B) - 1
         /\ r * (B * B) \in 0 .. (B * B * B * B) - 1
         /\ s * (B * B * B) \in 0 .. (B * B * B * B) - 1
         /\ p + q * B + r * (B * B) + s * (B * B * B) \in 0 .. (B * B * B * B) - 1
<1>. DEFINE C == B * B
            D == B * C
            E == B * D
<1>1. C \in Nat \ {0} /\ D \in Nat \ {0} /\ E \in Nat \ {0}
  <2>1. C \in Nat \ {0}
    OBVIOUS
  <2>. HIDE DEF C
  <2>2. D \in Nat \ {0}
    BY <2>1
  <2>. HIDE DEF D
  <2>. QED
    BY <2>1, <2>2
<1>2. q * B \in 0 .. C - B
  <2>1. q * B <= (B - 1) * B /\ q * B \in Nat
    OBVIOUS
  <2>2. (B - 1) * B = C - B
    OBVIOUS
  <2>. QED
    BY <1>1, <2>1, <2>2
<1>3. r * C \in 0 .. D - C
  <2>. HIDE DEF C
  <2>1. r * C <= (B - 1) * C /\ r * C \in Nat
    BY <1>1
  <2>2. (B - 1) * C = D - C
    BY <1>1
  <2>. HIDE DEF D
  <2>. QED
    BY <1>1, <2>1, <2>2
<1>4. s * D \in 0 .. E - D
  <2>. HIDE DEF D
  <2>1. s * D <= (B - 1) * D /\ s * D \in Nat
    BY <1>1
  <2>2. (B - 1) * D = E - D
    BY <1>1
  <2>. HIDE DEF E
  <2>. QED
    BY <1>1, <2>1, <2>2
<1>5. B <= C /\ C <= D /\ D <= E
  <2>1. C - B >= 0
    BY <1>1, <1>2
  <2>. HIDE DEF C
  <2>2. D - C >= 0
    BY <1>1, <1>3
  <2>. HIDE DEF D
  <2>3. E - D >= 0
    BY <1>1, <1>4
  <2>. HIDE DEF E
  <2>. QED
    BY <1>1, <2>1, <2>2, <2>3
<1>6. B * B * B = D /\ B * B * B * B = E
  OBVIOUS
<1>7. q * B \in 0 .. E - 1 /\ r * C \in 0 .. E - 1 /\ s * D \in 0 .. E - 1
      /\ p + q * B + r * C + s * D \in 0 .. E - 1
  <2>. DEFINE x == q * B
              y == r * C
              z == s * D
  <2>. HIDE DEF C, D, E
  <2>1. x \in 0 .. C - B /\ y \in 0 .. D - C /\ z \in 0 .. E - D
    BY <1>2, <1>3, <1>4
  <2>. HIDE DEF x, y, z
  <2>2. x \in 0 .. E - 1 /\ y \in 0 .. E - 1 /\ z \in 0 .. E - 1
        /\ p + x + y + z \in 0 .. E - 1
    BY <1>1, <1>5, <2>1
  <2>. QED
    BY <2>2 DEF x, y, z
<1>. QED
  BY <1>6, <1>7

(* pack_le and pack_be, of four bytes from place k on.                     *)
LEMMA PackIsSum ==
  ASSUME NEW b \in UInt!Bytes, NEW k \in {1, 5},
         NEW B, B = Pow[ByteBits]
  PROVE  /\ PackLe(b, k) = b[k] + b[k + 1] * B + b[k + 2] * (B * B) + b[k + 3] * (B * B * B)
         /\ PackBe(b, k) = b[k + 3] + b[k + 2] * B + b[k + 1] * (B * B) + b[k] * (B * B * B)
         /\ PackLe(b, k) \in Halves
         /\ PackBe(b, k) \in Halves
<1>. DEFINE H == Pow[HalfBits]
            b0 == b[k]
            b1 == b[k + 1]
            b2 == b[k + 2]
            b3 == b[k + 3]
<1>1. /\ B \in Nat \ {0}
      /\ Pow[2 * ByteBits] = B * B
      /\ Pow[3 * ByteBits] = B * B * B
      /\ H = B * B * B * B
  BY BytePlaces
<1>2. b0 \in 0 .. B - 1 /\ b1 \in 0 .. B - 1 /\ b2 \in 0 .. B - 1 /\ b3 \in 0 .. B - 1
  <2>1. /\ k \in 1 .. 8 /\ k + 1 \in 1 .. 8
        /\ k + 2 \in 1 .. 8 /\ k + 3 \in 1 .. 8
    OBVIOUS
  <2>2. \A i \in 1 .. 8 : b[i] \in 0 .. B - 1
    BY DEF UInt!Bytes, UInt!Byte
  <2>. QED
    BY <2>1, <2>2
<1>3. H \in Nat \ {0}
  BY Widths
<1>. HIDE DEF H, b0, b1, b2, b3
<1>4. ASSUME NEW x \in 0 .. B - 1
      PROVE  /\ (x * B) % H = x * B
             /\ (x * (B * B)) % H = x * (B * B)
             /\ (x * (B * B * B)) % H = x * (B * B * B)
  <2>1. x * B \in 0 .. H - 1 /\ x * (B * B) \in 0 .. H - 1 /\ x * (B * B * B) \in 0 .. H - 1
    BY <1>1, Digits
  <2>. QED
    BY <1>3, <2>1, ModSmall
<1>5. PackLe(b, k) =
         b0 + ((b1 * B) % H) + ((b2 * (B * B)) % H) + ((b3 * (B * B * B)) % H)
  BY <1>1 DEF PackLe, ShiftedLeft, H, b0, b1, b2, b3
<1>6. PackBe(b, k) =
         ((b0 * (B * B * B)) % H) + ((b1 * (B * B)) % H) + ((b2 * B) % H) + b3
  BY <1>1 DEF PackBe, ShiftedLeft, H, b0, b1, b2, b3
<1>. DEFINE le == b0 + b1 * B + b2 * (B * B) + b3 * (B * B * B)
            be == b3 + b2 * B + b1 * (B * B) + b0 * (B * B * B)
<1>7. le \in 0 .. H - 1 /\ be \in 0 .. H - 1
  BY <1>1, <1>2, Digits
<1>8. PackLe(b, k) = le
  BY <1>2, <1>4, <1>5
<1>9. PackBe(b, k) = be
  <2>1. b0 * (B * B * B) + b1 * (B * B) + b2 * B + b3 = be
    BY <1>1, <1>2
  <2>. QED
    BY <1>2, <1>4, <1>6, <2>1
<1>. QED
  BY <1>7, <1>8, <1>9 DEF Halves, H, b0, b1, b2, b3

(* The two orders are one, read from either end.                           *)
LEMMA ReversedBytes ==
  ASSUME NEW b \in UInt!Bytes
  PROVE  /\ UInt!Reversed(b) \in UInt!Bytes
         /\ ReadBe(b) = ReadLe(UInt!Reversed(b))
<1>. DEFINE v == UInt!Reversed(b)
<1>1. v \in UInt!Bytes
  <2>1. \A k \in 1 .. 8 : 9 - k \in 1 .. 8
    OBVIOUS
  <2>. QED
    BY <2>1 DEF UInt!Reversed, UInt!Bytes
<1>2. /\ v[1] = b[8] /\ v[2] = b[7] /\ v[3] = b[6] /\ v[4] = b[5]
      /\ v[5] = b[4] /\ v[6] = b[3] /\ v[7] = b[2] /\ v[8] = b[1]
  BY DEF UInt!Reversed
<1>. HIDE DEF v
<1>. DEFINE B == Pow[ByteBits]
            C == B * B
            D == B * B * B
<1>3. \A i \in 1 .. 8 : b[i] \in Nat
  <2>1. B \in Nat \ {0}
    BY BytePlaces
  <2>2. \A i \in 1 .. 8 : b[i] \in 0 .. B - 1
    BY DEF UInt!Bytes, UInt!Byte
  <2>. QED
    BY <2>1, <2>2
<1>4. PackLe(v, 1) = v[1] + v[2] * B + v[3] * C + v[4] * D
      /\ PackLe(v, 5) = v[5] + v[6] * B + v[7] * C + v[8] * D
  <2>1. 1 + 1 = 2 /\ 1 + 2 = 3 /\ 1 + 3 = 4 /\ 5 + 1 = 6 /\ 5 + 2 = 7 /\ 5 + 3 = 8
    OBVIOUS
  <2>2. /\ PackLe(v, 1) = v[1] + v[1 + 1] * B + v[1 + 2] * C + v[1 + 3] * D
        /\ PackLe(v, 5) = v[5] + v[5 + 1] * B + v[5 + 2] * C + v[5 + 3] * D
    BY <1>1, PackIsSum
  <2>. QED
    BY <2>1, <2>2
<1>5. PackBe(b, 5) = b[8] + b[7] * B + b[6] * C + b[5] * D
      /\ PackBe(b, 1) = b[4] + b[3] * B + b[2] * C + b[1] * D
  <2>1. 1 + 1 = 2 /\ 1 + 2 = 3 /\ 1 + 3 = 4 /\ 5 + 1 = 6 /\ 5 + 2 = 7 /\ 5 + 3 = 8
    OBVIOUS
  <2>2. /\ PackBe(b, 5) = b[5 + 3] + b[5 + 2] * B + b[5 + 1] * C + b[5] * D
        /\ PackBe(b, 1) = b[1 + 3] + b[1 + 2] * B + b[1 + 1] * C + b[1] * D
    BY PackIsSum
  <2>. QED
    BY <2>1, <2>2
<1>6. PackLe(v, 1) = PackBe(b, 5) /\ PackLe(v, 5) = PackBe(b, 1)
  BY <1>2, <1>4, <1>5
<1>7. ReadBe(b) = ReadLe(v)
  BY <1>6 DEF ReadBe, ReadLe
<1>. QED
  BY <1>1, <1>7 DEF v

(* Eight bytes read as a pair are the number they spell.                   *)
LEMMA ReadLeIsValue ==
  ASSUME NEW b \in UInt!Bytes
  PROVE  /\ ReadLe(b) \in Pairs
         /\ Num(ReadLe(b)) = UInt!LittleEndian(b)
<1>. DEFINE B == Pow[ByteBits]
            H == Pow[HalfBits]
            lo == b[1] + b[2] * B + b[3] * (B * B) + b[4] * (B * B * B)
            hi == b[5] + b[6] * B + b[7] * (B * B) + b[8] * (B * B * B)
<1>1. PackLe(b, 1) = lo /\ PackLe(b, 5) = hi
      /\ PackLe(b, 1) \in Halves /\ PackLe(b, 5) \in Halves
  <2>1. 1 + 1 = 2 /\ 1 + 2 = 3 /\ 1 + 3 = 4 /\ 5 + 1 = 6 /\ 5 + 2 = 7 /\ 5 + 3 = 8
    OBVIOUS
  <2>2. /\ PackLe(b, 1) = b[1] + b[1 + 1] * B + b[1 + 2] * (B * B) + b[1 + 3] * (B * B * B)
        /\ PackLe(b, 5) = b[5] + b[5 + 1] * B + b[5 + 2] * (B * B) + b[5 + 3] * (B * B * B)
        /\ PackLe(b, 1) \in Halves /\ PackLe(b, 5) \in Halves
    BY PackIsSum
  <2>. QED
    BY <2>1, <2>2
<1>2. /\ B \in Nat \ {0} /\ H \in Nat \ {0}
      /\ Pow[2 * ByteBits] = B * B
      /\ Pow[3 * ByteBits] = B * B * B
      /\ Pow[4 * ByteBits] = H
      /\ Pow[5 * ByteBits] = B * H
      /\ Pow[6 * ByteBits] = B * B * H
      /\ Pow[7 * ByteBits] = B * B * B * H
  BY BytePlaces, Widths
<1>3. \A i \in 1 .. 8 : b[i] \in Nat
  <2>1. \A i \in 1 .. 8 : b[i] \in 0 .. B - 1
    BY DEF UInt!Bytes, UInt!Byte
  <2>. QED
    BY <1>2, <2>1
<1>4. UInt!LittleEndian(b) =
          b[1] + b[2] * B + b[3] * (B * B) + b[4] * (B * B * B)
        + b[5] * H + b[6] * (B * H) + b[7] * (B * B * H) + b[8] * (B * B * B * H)
  BY <1>2 DEF UInt!LittleEndian
<1>5. Num(ReadLe(b)) = hi * H + lo
  BY <1>1 DEF Num, ReadLe, Pair
<1>6. hi * H + lo = UInt!LittleEndian(b)
  <2>. DEFINE b1 == b[1]
              b2 == b[2]
              b3 == b[3]
              b4 == b[4]
              b5 == b[5]
              b6 == b[6]
              b7 == b[7]
              b8 == b[8]
  <2>1. /\ b1 \in Nat /\ b2 \in Nat /\ b3 \in Nat /\ b4 \in Nat
        /\ b5 \in Nat /\ b6 \in Nat /\ b7 \in Nat /\ b8 \in Nat
    BY <1>3
  <2>. HIDE DEF b1, b2, b3, b4, b5, b6, b7, b8, B, H
  <2>2. (b5 + b6 * B + b7 * (B * B) + b8 * (B * B * B)) * H
          + (b1 + b2 * B + b3 * (B * B) + b4 * (B * B * B))
        = b1 + b2 * B + b3 * (B * B) + b4 * (B * B * B)
            + b5 * H + b6 * (B * H) + b7 * (B * B * H) + b8 * (B * B * B * H)
    BY <1>2, <2>1
  <2>. QED
    BY <1>4, <2>2 DEF b1, b2, b3, b4, b5, b6, b7, b8
<1>7. ReadLe(b) \in Pairs
  BY <1>1 DEF ReadLe, Pair, Pairs
<1>. QED
  BY <1>5, <1>6, <1>7

(* The four bytes of a half spell it.                                      *)
LEMMA BytesOfHalf ==
  ASSUME NEW x \in 0 .. Pow[HalfBits] - 1, NEW B, B = Pow[ByteBits]
  PROVE  /\ \A k \in 0 .. 3 : ByteOf(x, k) \in 0 .. B - 1
         /\ x = ByteOf(x, 0) + ByteOf(x, 1) * B + ByteOf(x, 2) * (B * B)
                  + ByteOf(x, 3) * (B * B * B)
<1>. DEFINE p == x % B
            x1 == x \div B
            q == x1 % B
            x2 == x1 \div B
            r == x2 % B
            s == x2 \div B
<1>1. /\ B \in Nat \ {0}
      /\ Pow[2 * ByteBits] = B * B
      /\ Pow[3 * ByteBits] = B * B * B
      /\ Pow[HalfBits] = B * B * B * B
  BY BytePlaces
<1>2. x \in Nat /\ x < B * B * B * B
  BY <1>1, Widths
<1>3. x1 \in Nat /\ p \in 0 .. B - 1 /\ x = x1 * B + p
  BY <1>1, <1>2, DivModNat
<1>. HIDE DEF x1, p
<1>4. x2 \in Nat /\ q \in 0 .. B - 1 /\ x1 = x2 * B + q
  BY <1>1, <1>3, DivModNat
<1>. HIDE DEF x2, q
<1>5. s \in Nat /\ r \in 0 .. B - 1 /\ x2 = s * B + r
  BY <1>1, <1>4, DivModNat
<1>. HIDE DEF s, r
<1>. DEFINE C == B * B
            D == B * B * B
            y == q * B + p
            z == r * C + y
<1>6. x = x2 * C + y /\ x = s * D + z
  <2>1. x = (x2 * B + q) * B + p
    BY <1>3, <1>4
  <2>2. x = ((s * B + r) * B + q) * B + p
    BY <1>5, <2>1
  <2>3. (x2 * B + q) * B + p = x2 * C + y
    BY <1>1, <1>3, <1>4
  <2>4. ((s * B + r) * B + q) * B + p = s * D + z
    BY <1>1, <1>3, <1>4, <1>5
  <2>. QED
    BY <2>1, <2>2, <2>3, <2>4
<1>7. C \in Nat \ {0} /\ D \in Nat \ {0} /\ D = B * C
  <2>1. C \in Nat \ {0} /\ D = B * C
    BY <1>1
  <2>. HIDE DEF C, D
  <2>. QED
    BY <1>1, <2>1
<1>8. y \in 0 .. C - 1
  <2>1. p + q * B \in 0 .. (B * B) - 1
    BY <1>1, <1>3, <1>4, Joined
  <2>. QED
    BY <1>1, <1>3, <1>4, <2>1
<1>9. z \in 0 .. D - 1
  <2>. HIDE DEF y, C, D
  <2>1. y + r * C \in 0 .. (B * C) - 1
    BY <1>1, <1>5, <1>7, <1>8, Joined
  <2>. QED
    BY <1>5, <1>7, <1>8, <2>1
<1>10. x \div C = x2 /\ x \div D = s
  <2>. HIDE DEF y, z, C, D
  <2>1. x2 \in Int /\ s \in Int
    BY <1>4, <1>5
  <2>2. (x2 * C + y) \div C = x2
    BY <1>7, <1>8, <2>1, DivModUnique
  <2>3. (s * D + z) \div D = s
    BY <1>7, <1>9, <2>1, DivModUnique
  <2>. QED
    BY <1>6, <2>2, <2>3
<1>11. s \in 0 .. B - 1
  <2>1. SUFFICES ASSUME s >= B PROVE FALSE
    BY <1>1, <1>5
  <2>. HIDE DEF z
  <2>2. s * D >= B * D
    <3>. HIDE DEF D
    <3>. QED
      BY <1>1, <1>5, <1>7, <2>1
  <2>3. B * D = B * B * B * B
    BY <1>1
  <2>4. x >= s * D
    <3>. HIDE DEF D
    <3>. QED
      BY <1>5, <1>6, <1>7, <1>9
  <2>. HIDE DEF D
  <2>. QED
    BY <1>1, <1>2, <1>5, <1>7, <2>2, <2>3, <2>4
<1>12. ByteOf(x, 0) = p
  <2>1. 0 * ByteBits = 0 /\ Pow[0] = 1 /\ x \div 1 = x
    BY <1>2, PowAssumption
  <2>. QED
    BY <2>1 DEF ByteOf, ShiftedRight, p
<1>13. ByteOf(x, 1) = q
  <2>1. 1 * ByteBits = ByteBits
    BY PowAssumption
  <2>. QED
    BY <2>1 DEF ByteOf, ShiftedRight, q, x1
<1>14. ByteOf(x, 2) = r
  BY <1>1, <1>10 DEF ByteOf, ShiftedRight, r
<1>15. ByteOf(x, 3) = s
  <2>1. s % B = s
    BY <1>1, <1>11, ModSmall
  <2>. QED
    BY <1>1, <1>10, <2>1 DEF ByteOf, ShiftedRight
<1>16. \A k \in 0 .. 3 : k = 0 \/ k = 1 \/ k = 2 \/ k = 3
  OBVIOUS
<1>17. x = p + q * B + r * C + s * D
  BY <1>1, <1>3, <1>4, <1>5, <1>6, <1>11
<1>. QED
  BY <1>3, <1>4, <1>5, <1>11, <1>12, <1>13, <1>14, <1>15, <1>16, <1>17

(* Writing a pair gives bytes that spell it, in either order.              *)
LEMMA UnpackSpells ==
  ASSUME NEW w \in Pairs
  PROVE  /\ UnpackLe(w) \in UInt!Bytes
         /\ UInt!LittleEndian(UnpackLe(w)) = Num(w)
         /\ UnpackBe(w) \in UInt!Bytes
         /\ UInt!BigEndian(UnpackBe(w)) = Num(w)
<1>. DEFINE B == Pow[ByteBits]
            le == UnpackLe(w)
            be == UnpackBe(w)
<1>1. w.lo \in 0 .. Pow[HalfBits] - 1 /\ w.hi \in 0 .. Pow[HalfBits] - 1
  BY NumIsWord
<1>2. /\ \A k \in 0 .. 3 : ByteOf(w.lo, k) \in 0 .. B - 1
      /\ w.lo = ByteOf(w.lo, 0) + ByteOf(w.lo, 1) * B + ByteOf(w.lo, 2) * (B * B)
                  + ByteOf(w.lo, 3) * (B * B * B)
  BY <1>1, BytesOfHalf
<1>3. /\ \A k \in 0 .. 3 : ByteOf(w.hi, k) \in 0 .. B - 1
      /\ w.hi = ByteOf(w.hi, 0) + ByteOf(w.hi, 1) * B + ByteOf(w.hi, 2) * (B * B)
                  + ByteOf(w.hi, 3) * (B * B * B)
  BY <1>1, BytesOfHalf
<1>. HIDE DEF B
<1>4. le \in UInt!Bytes
  <2>1. \A k \in 1 .. 8 : IF k <= 4 THEN k - 1 \in 0 .. 3 ELSE k - 5 \in 0 .. 3
    OBVIOUS
  <2>2. \A k \in 1 .. 8 :
          (IF k <= 4 THEN ByteOf(w.lo, k - 1) ELSE ByteOf(w.hi, k - 5)) \in 0 .. B - 1
    BY <1>2, <1>3, <2>1
  <2>. QED
    BY <2>2 DEF UnpackLe, UInt!Bytes, UInt!Byte, B
<1>5. be \in UInt!Bytes
  <2>1. \A k \in 1 .. 8 : IF k <= 4 THEN 4 - k \in 0 .. 3 ELSE 8 - k \in 0 .. 3
    OBVIOUS
  <2>2. \A k \in 1 .. 8 :
          (IF k <= 4 THEN ByteOf(w.hi, 4 - k) ELSE ByteOf(w.lo, 8 - k)) \in 0 .. B - 1
    BY <1>2, <1>3, <2>1
  <2>. QED
    BY <2>2 DEF UnpackBe, UInt!Bytes, UInt!Byte, B
<1>6. UInt!Reversed(be) = le
  <2>1. \A k \in 1 .. 8 :
          be[9 - k] = IF k <= 4 THEN ByteOf(w.lo, k - 1) ELSE ByteOf(w.hi, k - 5)
    <3>. TAKE k \in 1 .. 8
    <3>1. CASE k <= 4
      <4>1. 9 - k \in 1 .. 8 /\ ~(9 - k <= 4) /\ 8 - (9 - k) = k - 1
        BY <3>1
      <4>. QED
        BY <3>1, <4>1 DEF UnpackBe
    <3>2. CASE k > 4
      <4>1. 9 - k \in 1 .. 8 /\ 9 - k <= 4 /\ 4 - (9 - k) = k - 5
        BY <3>2
      <4>. QED
        BY <3>2, <4>1 DEF UnpackBe
    <3>. QED
      BY <3>1, <3>2
  <2>. QED
    BY <2>1 DEF UnpackLe, UInt!Reversed
<1>7. ReadLe(le) = w
  <2>1. /\ le[1] = ByteOf(w.lo, 0) /\ le[2] = ByteOf(w.lo, 1)
        /\ le[3] = ByteOf(w.lo, 2) /\ le[4] = ByteOf(w.lo, 3)
        /\ le[5] = ByteOf(w.hi, 0) /\ le[6] = ByteOf(w.hi, 1)
        /\ le[7] = ByteOf(w.hi, 2) /\ le[8] = ByteOf(w.hi, 3)
    BY DEF UnpackLe
  <2>. HIDE DEF le
  <2>2. 1 + 1 = 2 /\ 1 + 2 = 3 /\ 1 + 3 = 4 /\ 5 + 1 = 6 /\ 5 + 2 = 7 /\ 5 + 3 = 8
    OBVIOUS
  <2>3. /\ PackLe(le, 1) = le[1] + le[1 + 1] * B + le[1 + 2] * (B * B) + le[1 + 3] * (B * B * B)
        /\ PackLe(le, 5) = le[5] + le[5 + 1] * B + le[5 + 2] * (B * B) + le[5 + 3] * (B * B * B)
    BY <1>4, PackIsSum DEF B
  <2>4. PackLe(le, 1) = w.lo /\ PackLe(le, 5) = w.hi
    BY <1>2, <1>3, <2>1, <2>2, <2>3
  <2>5. w = [lo |-> w.lo, hi |-> w.hi]
    BY DEF Pairs
  <2>. QED
    BY <2>4, <2>5 DEF ReadLe, Pair
<1>8. UInt!LittleEndian(le) = Num(w)
  BY <1>4, <1>7, ReadLeIsValue
<1>9. UInt!BigEndian(be) = Num(w)
  BY <1>6, <1>8 DEF UInt!BigEndian
<1>. QED
  BY <1>4, <1>5, <1>8, <1>9

----------------------------------------------------------------------------
(* What an operation is given.                                             *)
LEMMA Operands ==
  ASSUME WTypeOK, call # UInt!Idle
  PROVE  /\ call.op = "split" => call.n \in Nat
         /\ call.op = "add" => call.n \in 0 .. Pow[WordBits] - 1
         /\ call.op \in {"rotr", "rotl", "rotl_each"} => call.n \in Nat
         /\ call.op = "shr" => call.n \in 1 .. HalfBits - 1
         /\ call.op \in {"read_le", "read_be"} => call.bytes \in UInt!Bytes
<1>1. call \in UInt!Calls
  BY DEF WTypeOK
<1>2. \/ call \in [op : {"split"}, n : 0 .. Pow[WordBits]]
      \/ call \in [op : {"add"}, n : 0 .. Pow[WordBits] - 1]
      \/ call \in [op : {"rotr", "rotl", "rotl_each"}, n : 0 .. 2 * WordBits]
      \/ call \in [op : {"shr"}, n : 1 .. HalfBits - 1]
      \/ call \in [op : {"read_le", "read_be"}, bytes : UInt!Bytes]
      \/ call \in [op : {"write_le", "write_be"}]
  BY <1>1 DEF UInt!Calls, UInt!Words, UInt!Counts, UInt!HalfBits, UInt!WordBits,
              HalfBits, WordBits
<1>3. Pow[WordBits] \in Nat /\ WordBits \in Nat
  BY Widths
<1>. QED
  BY <1>2, <1>3

(* The word the mapping shows, before a step and after it.                 *)
LEMMA Mapped ==
  ASSUME NEW y,
         Num(word') = y, out' = UInt!Nothing
  PROVE  UInt!Becomes(y)
BY DEF UInt!Becomes, Num

(* Every operation returns halves, and what the word's operation returns.  *)
LEMMA ReplyStep ==
  ASSUME WTypeOK,
         \/ DoSplit \/ DoAdd64
         \/ DoRotr64 \/ DoRotl \/ DoRotlEach \/ DoShr64
         \/ DoPackLe \/ DoPackBe \/ DoUnpackLe \/ DoUnpackBe
  PROVE  word' \in Pairs /\ call' = UInt!Idle /\ UInt!Reply
<1>. USE DEF Return, Becomes
<1>1. /\ UInt!WordBits = WordBits /\ UInt!HalfBits = HalfBits
      /\ UInt!Words = 0 .. Pow[WordBits] - 1
  BY DEF UInt!Words, UInt!WordBits, UInt!HalfBits, WordBits, HalfBits
<1>2. word \in Pairs
  BY DEF WTypeOK
<1>3. ASSUME call.op # "none" PROVE call # UInt!Idle
  BY <1>3 DEF UInt!Idle
<1>4. CASE DoSplit
  <2>1. call.op = "split" /\ call # UInt!Idle /\ call' = UInt!Idle
    BY <1>3, <1>4 DEF DoSplit
  <2>2. CASE call.n \in UInt!Words
    <3>1. word' = Split(call.n) /\ out' = UInt!Nothing
      BY <1>4, <2>2 DEF DoSplit
    <3>2. Split(call.n) \in Pairs /\ Num(Split(call.n)) = call.n
      BY <1>1, <2>2, SplitIsPair
    <3>3. UInt!Becomes(call.n)
      BY <3>1, <3>2, Mapped
    <3>4. UInt!Split(call.n)
      BY <2>2, <3>3 DEF UInt!Split
    <3>. QED
      BY <2>1, <3>1, <3>2, <3>4 DEF UInt!Reply
  <2>3. CASE call.n \notin UInt!Words
    <3>1. word' = word /\ out' = UInt!ValueError
      BY <1>4, <2>3 DEF DoSplit
    <3>2. UInt!Split(call.n)
      BY <2>3, <3>1 DEF UInt!Split
    <3>. QED
      BY <1>2, <2>1, <3>1, <3>2 DEF UInt!Reply
  <2>. QED
    BY <2>2, <2>3
<1>5. CASE DoAdd64
  <2>1. /\ call.op = "add" /\ call # UInt!Idle /\ call' = UInt!Idle
        /\ word' = Add64(word, Split(call.n)) /\ out' = UInt!Nothing
    BY <1>3, <1>5 DEF DoAdd64
  <2>2. call.n \in 0 .. Pow[WordBits] - 1
    BY <2>1, Operands
  <2>3. /\ Add64(word, Split(call.n)) \in Pairs
        /\ Num(Add64(word, Split(call.n))) = (Num(word) + call.n) % Pow[WordBits]
    BY <1>2, <2>2, SplitIsPair, AddIsSum
  <2>4. UInt!Becomes((Num(word) + call.n) % Pow[WordBits])
    BY <2>1, <2>3, Mapped
  <2>. QED
    BY <1>1, <2>1, <2>3, <2>4 DEF UInt!Reply, Num
<1>6. CASE DoRotr64
  <2>1. /\ call.op = "rotr" /\ call # UInt!Idle /\ call' = UInt!Idle
        /\ word' = Rotr64(word, call.n) /\ out' = UInt!Nothing
    BY <1>3, <1>6 DEF DoRotr64
  <2>2. call.n \in Nat
    BY <2>1, Operands
  <2>3. /\ Rotr64(word, call.n) \in Pairs
        /\ Num(Rotr64(word, call.n)) = Turn(Num(word), call.n % WordBits)
    BY <1>2, <2>2, Rotr64IsTurn
  <2>4. UInt!Becomes(UInt!RotatedRight(call.n % WordBits))
    <3>1. UInt!RotatedRight(call.n % WordBits) = Turn(Num(word), call.n % WordBits)
      BY <1>1 DEF UInt!RotatedRight, Turn, Num
    <3>. QED
      BY <2>1, <2>3, <3>1, Mapped
  <2>. QED
    BY <1>1, <2>1, <2>3, <2>4 DEF UInt!Reply
<1>7. ASSUME NEW value, value = Rotl(word, call.n),
             call.op \in {"rotl", "rotl_each"}, call # UInt!Idle, call' = UInt!Idle,
             word' = value, out' = UInt!Nothing
      PROVE  word' \in Pairs /\ UInt!Reply
  <2>1. call.n \in Nat
    BY <1>7, Operands
  <2>2. /\ Rotl(word, call.n) \in Pairs
        /\ Num(Rotl(word, call.n)) = TurnLeft(Num(word), call.n % WordBits)
    BY <1>2, <2>1, RotlIsTurn
  <2>3. UInt!Becomes(UInt!RotatedLeft(call.n % WordBits))
    <3>1. UInt!RotatedLeft(call.n % WordBits) = TurnLeft(Num(word), call.n % WordBits)
      BY <1>1 DEF UInt!RotatedLeft, TurnLeft, Num
    <3>. QED
      BY <1>7, <2>2, <3>1, Mapped
  <2>. QED
    BY <1>1, <1>7, <2>2, <2>3 DEF UInt!Reply
<1>8. CASE DoRotl
  BY <1>3, <1>7, <1>8 DEF DoRotl
<1>9. CASE DoRotlEach
  <2>1. /\ call.op = "rotl_each" /\ call # UInt!Idle /\ call' = UInt!Idle
        /\ word' = RotlEach(word, RhoTable(call.n)) /\ out' = UInt!Nothing
    BY <1>3, <1>9 DEF DoRotlEach
  <2>2. call.n \in Nat
    BY <2>1, Operands
  <2>3. RotlEach(word, RhoTable(call.n)) = Rotl(word, call.n)
    BY <1>2, <2>2, RotlEachIsRotl
  <2>. QED
    BY <1>7, <2>1, <2>3
<1>10. CASE DoShr64
  <2>1. /\ call.op = "shr" /\ call # UInt!Idle /\ call' = UInt!Idle
        /\ word' = Shr64(word, call.n) /\ out' = UInt!Nothing
    BY <1>3, <1>10 DEF DoShr64
  <2>2. /\ Shr64(word, call.n) \in Pairs
        /\ Num(Shr64(word, call.n)) = Num(word) \div Pow[call.n]
    BY <1>2, <2>1, Operands, ShrIsQuotient
  <2>3. UInt!Becomes(Num(word) \div Pow[call.n])
    BY <2>1, <2>2, Mapped
  <2>. QED
    BY <2>1, <2>2, <2>3 DEF UInt!Reply, Num
<1>11. CASE DoPackLe
  <2>1. /\ call.op = "read_le" /\ call # UInt!Idle /\ call' = UInt!Idle
        /\ word' = ReadLe(call.bytes) /\ out' = UInt!Nothing
    BY <1>3, <1>11 DEF DoPackLe
  <2>2. call.bytes \in UInt!Bytes
    BY <2>1, Operands
  <2>3. /\ ReadLe(call.bytes) \in Pairs
        /\ Num(ReadLe(call.bytes)) = UInt!LittleEndian(call.bytes)
    BY <2>2, ReadLeIsValue
  <2>4. UInt!Becomes(UInt!LittleEndian(call.bytes))
    BY <2>1, <2>3, Mapped
  <2>. QED
    BY <2>1, <2>3, <2>4 DEF UInt!Reply
<1>12. CASE DoPackBe
  <2>1. /\ call.op = "read_be" /\ call # UInt!Idle /\ call' = UInt!Idle
        /\ word' = ReadBe(call.bytes) /\ out' = UInt!Nothing
    BY <1>3, <1>12 DEF DoPackBe
  <2>2. call.bytes \in UInt!Bytes
    BY <2>1, Operands
  <2>3. /\ ReadBe(call.bytes) \in Pairs
        /\ Num(ReadBe(call.bytes)) = UInt!BigEndian(call.bytes)
    BY <2>2, ReversedBytes, ReadLeIsValue DEF UInt!BigEndian
  <2>4. UInt!Becomes(UInt!BigEndian(call.bytes))
    BY <2>1, <2>3, Mapped
  <2>. QED
    BY <2>1, <2>3, <2>4 DEF UInt!Reply
<1>13. CASE DoUnpackLe
  <2>1. /\ call.op = "write_le" /\ call # UInt!Idle /\ call' = UInt!Idle
        /\ word' = word /\ out' = UInt!Written(UnpackLe(word))
    BY <1>3, <1>13 DEF DoUnpackLe
  <2>2. UnpackLe(word) \in UInt!Bytes /\ UInt!LittleEndian(UnpackLe(word)) = Num(word)
    BY <1>2, UnpackSpells
  <2>3. out'.kind = "bytes" /\ out'.bytes = UnpackLe(word)
    BY <2>1 DEF UInt!Written
  <2>4. UInt!Writes
    BY <2>1, <2>2, <2>3 DEF UInt!Writes
  <2>. QED
    BY <1>2, <2>1, <2>2, <2>3, <2>4 DEF UInt!Reply, Num
<1>14. CASE DoUnpackBe
  <2>1. /\ call.op = "write_be" /\ call # UInt!Idle /\ call' = UInt!Idle
        /\ word' = word /\ out' = UInt!Written(UnpackBe(word))
    BY <1>3, <1>14 DEF DoUnpackBe
  <2>2. UnpackBe(word) \in UInt!Bytes /\ UInt!BigEndian(UnpackBe(word)) = Num(word)
    BY <1>2, UnpackSpells
  <2>3. out'.kind = "bytes" /\ out'.bytes = UnpackBe(word)
    BY <2>1 DEF UInt!Written
  <2>4. UInt!Writes
    BY <2>1, <2>2, <2>3 DEF UInt!Writes
  <2>. QED
    BY <1>2, <2>1, <2>2, <2>3, <2>4 DEF UInt!Reply, Num
<1>. QED
  BY <1>4, <1>5, <1>6, <1>8, <1>9, <1>10, <1>11, <1>12, <1>13, <1>14

(* For every width, whatever the order of the operations and their         *)
(* operands: the pair of halves behaves as one word does (word64.py,       *)
(* keccak/lane.py, word.py), and the halves stay within their width.       *)
THEOREM PairsImplementWord == WSpec => PairsAreWords
<1>1. WInit => WTypeOK
  <2>1. 0 \in Halves
    BY Widths DEF Halves
  <2>. QED
    BY <2>1 DEF WInit, WTypeOK, Pair, Pairs
<1>2. WTypeOK /\ [WNext]_wVars => WTypeOK'
  <2>. SUFFICES ASSUME WTypeOK, [WNext]_wVars PROVE WTypeOK'
    OBVIOUS
  <2>1. CASE Ask
    <3>1. word' = word /\ call' \in UInt!Calls
      BY <2>1 DEF Ask
    <3>. QED
      BY <3>1 DEF WTypeOK, UInt!Calls, UInt!Words, UInt!Counts, UInt!Bytes, UInt!Byte,
                  Pairs, Halves
  <2>2. CASE UNCHANGED wVars
    BY <2>2 DEF wVars, WTypeOK
  <2>3. CASE WNext /\ ~Ask
    <3>1. word' \in Pairs /\ call' = UInt!Idle
      BY <2>3, ReplyStep DEF WNext
    <3>. QED
      BY <3>1 DEF WTypeOK, Pairs, Halves
  <2>. QED
    BY <2>1, <2>2, <2>3
<1>3. WInit => UInt!Init
  <2>1. 0 * Pow[HalfBits] + 0 = 0
    BY Widths
  <2>. QED
    BY <2>1 DEF WInit, UInt!Init, Pair
<1>4. WTypeOK /\ [WNext]_wVars
        => [UInt!Next]_<<word.hi * Pow[HalfBits] + word.lo, call, out>>
  <2>. SUFFICES ASSUME WTypeOK, [WNext]_wVars
                PROVE  [UInt!Next]_<<word.hi * Pow[HalfBits] + word.lo, call, out>>
    OBVIOUS
  <2>1. CASE Ask
    <3>1. UInt!Ask
      BY <2>1 DEF Ask, UInt!Ask
    <3>. QED
      BY <3>1 DEF UInt!Next
  <2>2. CASE UNCHANGED wVars
    BY <2>2 DEF wVars
  <2>3. CASE WNext /\ ~Ask
    <3>1. UInt!Reply
      BY <2>3, ReplyStep DEF WNext
    <3>. QED
      BY <3>1 DEF UInt!Next
  <2>. QED
    BY <2>1, <2>2, <2>3
<1>5. WSpec => []WTypeOK
  BY <1>1, <1>2, PTL DEF WSpec
<1>6. WSpec => UInt!Spec
  BY <1>2, <1>3, <1>4, <1>5, PTL DEF WSpec, UInt!Spec
<1>. QED
  BY <1>5, <1>6, PTL DEF PairsAreWords
=============================================================================
