----------------------------- MODULE Encodings -----------------------------
(***************************************************************************)
(* The length encodings of keccak/encodings.py (SP 800-185 section 2.3),   *)
(* and the reader they were designed for: the operators that take a byte   *)
(* string apart again from either end.                                     *)
(*                                                                         *)
(* A byte is a number below Base and has Bits bits, so that a length can   *)
(* need two digits within small strings.  Base is 256 in the code.         *)
(***************************************************************************)
EXTENDS Binary, Sequences, SequencesExt

CONSTANTS
  Base,   \* values of a byte
  Bits    \* bits in a byte: 8 in the code

ASSUME EncodingAssumption == Bits \in Nat \ {0, 1} /\ Base = PowerOfTwo[Bits]

Bytes == 0 .. Base - 1

Zeros(n) == [i \in 1 .. n |-> 0]

----------------------------------------------------------------------------
(* The values of n digits, and the numbers whose digit count is one digit. *)
Digits(n) == PowerOfTwo[Bits * n]
Encodable(x) == x \in Nat /\ \E n \in 1 .. Base - 1 : Digits(n) > x

(* The smallest positive digit count of x.                                 *)
EncodeLength(x) ==
  CHOOSE n \in 1 .. Base - 1 : Digits(n) > x /\ \A m \in 1 .. n - 1 : Digits(m) <= x

BigEndian(x, n) == [i \in 1 .. n |-> (x \div Digits(n - i)) % Base]
LittleEndian(x, n) == Reverse(BigEndian(x, n))

LeftEncode(x)  == <<EncodeLength(x)>> \o BigEndian(x, EncodeLength(x))
RightEncode(x) == BigEndian(x, EncodeLength(x)) \o <<EncodeLength(x)>>

(* The length of a string is a count of bits.                              *)
EncodeString(s) == LeftEncode(Bits * Len(s)) \o s

(* Zero-filled to a multiple of w bytes.                                   *)
Fill(size, w) == (-size) % w

Bytepad(x, w) ==
  LET z == LeftEncode(w) \o x IN z \o Zeros(Fill(Len(z), w))

FillOfPayload(size, w) == (-size) % w   \* as SplitFill, forgetting the head

(* bytepad(encode_string(S), w) around an S known by its length alone: the *)
(* bytes before it, and how many zeros follow.                             *)
SplitHead(size, w) == LeftEncode(w) \o LeftEncode(Bits * size)
SplitFill(size, w) == Fill(Len(SplitHead(size, w)) + size, w)

----------------------------------------------------------------------------
(* The reader.  Whatever it is given it returns something: only a string   *)
(* that was framed the standard's way is read back as what was framed.     *)

Take(s, k) == SubSeq(s, 1, IF k < Len(s) THEN k ELSE Len(s))
Drop(s, k) == SubSeq(s, k + 1, Len(s))

(* The number that digits spell, the most significant first.               *)
Value(digits) ==
  LET through[k \in 0 .. Len(digits)] ==
        IF k = 0 THEN 0 ELSE through[k - 1] * Base + digits[k]
  IN  through[Len(digits)]

(* left_encode: the count first.                                           *)
ReadLeft(s) ==
  IF s = <<>> THEN [value |-> 0, rest |-> <<>>]
  ELSE [value |-> Value(Take(Tail(s), Head(s))), rest |-> Drop(s, Head(s) + 1)]

(* right_encode: the count last.                                           *)
ReadRight(s) ==
  LET n == IF s = <<>> THEN 0 ELSE Last(s)
      k == Len(s) - n - 1
  IN  IF k < 0 THEN [value |-> 0, rest |-> <<>>]
      ELSE [value |-> Value(SubSeq(s, k + 1, k + n)), rest |-> Take(s, k)]

ReadString(s) ==
  LET length == ReadLeft(s)
  IN  [string |-> Take(length.rest, length.value \div Bits),
       rest   |-> Drop(length.rest, length.value \div Bits)]

(* One more string, of what is left.                                       *)
ReadMore(read) ==
  LET next == ReadString(read.rest)
  IN  [strings |-> Append(read.strings, next.string), rest |-> next.rest]

(* As many strings as there are, each a byte at least.                     *)
ReadStrings(s) ==
  LET at[k \in 0 .. Len(s)] ==
        IF k = 0 THEN [strings |-> <<>>, rest |-> s]
        ELSE IF at[k - 1].rest = <<>> THEN at[k - 1] ELSE ReadMore(at[k - 1])
  IN  at[Len(s)].strings

(* A bytepad holding `count` strings: they, and what follows its last      *)
(* block.                                                                  *)
ReadBytepad(s, count) ==
  LET w     == ReadLeft(s)
      at[k \in 0 .. count] ==
        IF k = 0 THEN [strings |-> <<>>, rest |-> w.rest] ELSE ReadMore(at[k - 1])
      used  == Len(s) - Len(at[count].rest)
  IN  [strings |-> at[count].strings,
       rest    |-> IF w.value = 0 THEN at[count].rest
                   ELSE Drop(s, used + Fill(used, w.value))]
=============================================================================
