------------------------------- MODULE Word64 -------------------------------
(***************************************************************************)
(* A 64-bit word as two uint32 halves: word64.py (rotr64, add64), Keccak's *)
(* mirror of it (keccak/lane.py: rotl, rho_tables, rotl_each), SHA-512's   *)
(* shift, and the packing of bytes into halves (word.py).  No half is ever *)
(* shifted by its own width, which a uint32 leaves undefined.              *)
(*                                                                         *)
(* A half is a number.  `or` joins halves whose bits do not overlap        *)
(* wherever it appears, and so is a sum; XOR, which treats the halves      *)
(* alike and apart, is left out.                                           *)
(***************************************************************************)
EXTENDS Powers

VARIABLES
  word,   \* [lo, hi], the halves
  call,   \* the operation being computed, or Idle
  out     \* what the last one returned besides the word

UInt == INSTANCE UInt64 WITH x <- word.hi * Pow[HalfBits] + word.lo

Halves   == 0 .. Pow[HalfBits] - 1
Pair(lo, hi) == [lo |-> lo, hi |-> hi]
Pairs == [lo : Halves, hi : Halves]

----------------------------------------------------------------------------
(* uint32 operations.                                                      *)
Plus(a, b)         == (a + b) % Pow[HalfBits]
ShiftedLeft(a, n)  == (a * Pow[n]) % Pow[HalfBits]
ShiftedRight(a, n) == a \div Pow[n]

(* word.split: a host integer taken apart.                                 *)
Split(v) == Pair(v % Pow[HalfBits], v \div Pow[HalfBits])

Add64CarryLate(a, b) ==    \* as Add64, the carry also without a wrap
  LET lo    == Plus(a.lo, b.lo)
      carry == IF lo <= a.lo THEN 1 ELSE 0
  IN  Pair(lo, Plus(Plus(a.hi, b.hi), carry))

(* add64: the low half wrapped iff it came out below an addend.            *)
Add64(a, b) ==
  LET lo    == Plus(a.lo, b.lo)
      carry == IF lo < a.lo THEN 1 ELSE 0
  IN  Pair(lo, Plus(Plus(a.hi, b.hi), carry))

(* The halves exchanged, which is a rotation by their width.               *)
Swapped(a) == Pair(a.hi, a.lo)

(* Rotations by 0 < n < HalfBits: each half takes in what the other loses. *)
RotrShort(a, n) ==
  Pair(ShiftedRight(a.lo, n) + ShiftedLeft(a.hi, HalfBits - n),
       ShiftedRight(a.hi, n) + ShiftedLeft(a.lo, HalfBits - n))

RotlShort(a, n) ==
  Pair(ShiftedLeft(a.lo, n) + ShiftedRight(a.hi, HalfBits - n),
       ShiftedLeft(a.hi, n) + ShiftedRight(a.lo, HalfBits - n))

(* rotr64 and rotl: four static cases of the count mod the word.           *)
Rotr64(a, count) ==
  LET n == count % (2 * HalfBits)
  IN  CASE n = 0        -> a
        [] n = HalfBits -> Swapped(a)
        [] n \in 1 .. HalfBits - 1 -> RotrShort(a, n)
        [] n > HalfBits -> RotrShort(Swapped(a), n - HalfBits)

Rotl(a, count) ==
  LET n == count % (2 * HalfBits)
  IN  CASE n = 0        -> a
        [] n = HalfBits -> Swapped(a)
        [] n \in 1 .. HalfBits - 1 -> RotlShort(a, n)
        [] n > HalfBits -> RotlShort(Swapped(a), n - HalfBits)

(* rho_tables: the case analysis as data.  A lane whose in-half shift is   *)
(* zero takes a dummy one, whose result is dropped.                        *)
RhoTable(offset) ==
  LET m == (offset % (2 * HalfBits)) % HalfBits
  IN  [swap  |-> offset % (2 * HalfBits) >= HalfBits,
       shift |-> IF m = 0 THEN 1 ELSE m,
       keep  |-> m = 0]

(* rotl_each, of one lane.                                                 *)
RotlEach(a, table) ==
  LET base == IF table.swap THEN Swapped(a) ELSE a
  IN  IF table.keep THEN base ELSE RotlShort(base, table.shift)

(* _shr64, for 0 < n < HalfBits.                                           *)
Shr64(a, n) ==
  Pair(ShiftedRight(a.lo, n) + ShiftedLeft(a.hi, HalfBits - n), ShiftedRight(a.hi, n))

----------------------------------------------------------------------------
(* Four bytes and a half, from place k of a longer string.                 *)
PackLe(b, k) ==
  b[k] + ShiftedLeft(b[k + 1], ByteBits) + ShiftedLeft(b[k + 2], 2 * ByteBits)
       + ShiftedLeft(b[k + 3], 3 * ByteBits)

PackBe(b, k) ==
  ShiftedLeft(b[k], 3 * ByteBits) + ShiftedLeft(b[k + 1], 2 * ByteBits)
       + ShiftedLeft(b[k + 2], ByteBits) + b[k + 3]

ByteOf(half, k) == ShiftedRight(half, k * ByteBits) % Pow[ByteBits]

(* The pair layouts: BLAKE2b's, Ascon's and Keccak's words start with the  *)
(* low half, SHA-512's with the high one.                                  *)
ReadLe(b) == Pair(PackLe(b, 1), PackLe(b, 5))
ReadBe(b) == Pair(PackBe(b, 5), PackBe(b, 1))

UnpackLe(a) ==
  [k \in 1 .. 8 |-> IF k <= 4 THEN ByteOf(a.lo, k - 1) ELSE ByteOf(a.hi, k - 5)]
UnpackBe(a) ==
  [k \in 1 .. 8 |-> IF k <= 4 THEN ByteOf(a.hi, 4 - k) ELSE ByteOf(a.lo, 8 - k)]

----------------------------------------------------------------------------
(* One operation after another on one word, every operand of a word's      *)
(* width split into halves first.                                          *)
WInit == word = Pair(0, 0) /\ call = UInt!Idle /\ out = UInt!Nothing

Ask ==
  /\ call = UInt!Idle /\ call' \in UInt!Calls
  /\ out' = UInt!Nothing /\ UNCHANGED word

Return(result, returned) ==
  word' = result /\ out' = returned /\ call' = UInt!Idle

Becomes(result) == Return(result, UInt!Nothing)

DoSplit ==
  /\ call.op = "split"
  /\ IF call.n \in UInt!Words THEN Becomes(Split(call.n))
                             ELSE Return(word, UInt!ValueError)

DoAdd64    == call.op = "add" /\ Becomes(Add64(word, Split(call.n)))
DoRotr64   == call.op = "rotr" /\ Becomes(Rotr64(word, call.n))
DoRotl     == call.op = "rotl" /\ Becomes(Rotl(word, call.n))
DoRotlEach == call.op = "rotl_each" /\ Becomes(RotlEach(word, RhoTable(call.n)))
DoShr64    == call.op = "shr" /\ Becomes(Shr64(word, call.n))
DoPackLe   == call.op = "read_le" /\ Becomes(ReadLe(call.bytes))
DoPackBe   == call.op = "read_be" /\ Becomes(ReadBe(call.bytes))
DoUnpackLe == call.op = "write_le" /\ Return(word, UInt!Written(UnpackLe(word)))
DoUnpackBe == call.op = "write_be" /\ Return(word, UInt!Written(UnpackBe(word)))

WNext ==
  \/ Ask
  \/ DoSplit \/ DoAdd64
  \/ DoRotr64 \/ DoRotl \/ DoRotlEach \/ DoShr64
  \/ DoPackLe \/ DoPackBe \/ DoUnpackLe \/ DoUnpackBe

wVars == <<word, call, out>>

WSpec == WInit /\ [][WNext]_wVars

----------------------------------------------------------------------------
(* The halves stay halves: no sum or shift leaves a bit above them.        *)
WTypeOK == word \in Pairs /\ call \in UInt!Calls \cup {UInt!Idle}

(* Two halves behave as one word: carries cross, rotations by any count    *)
(* (a half's width and its multiples included), shifts, and bytes in both  *)
(* orders are the 64-bit ones (word64.py, keccak/lane.py, word.py), bytes  *)
(* written are the ones that read back, and no half ever outgrows itself.  *)
PairsAreWords == UInt!Spec /\ []WTypeOK
=============================================================================
