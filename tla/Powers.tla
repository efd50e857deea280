------------------------------- MODULE Powers -------------------------------
(***************************************************************************)
(* Widths in bits, and the powers of two up to the widest: the constants   *)
(* that 64-bit words and their halves share.                               *)
(***************************************************************************)
EXTENDS Integers

CONSTANTS
  ByteBits,   \* bits in a byte (8); a half word is four bytes
  Pow         \* Pow[k] is 2^k, up to the word's width

HalfBits == 4 * ByteBits
WordBits == 2 * HalfBits

(* All that is used of the powers of two.                                  *)
ASSUME PowAssumption ==
  /\ ByteBits \in Nat \ {0}
  /\ Pow \in [0 .. WordBits -> Nat \ {0}]
  /\ Pow[0] = 1
  /\ \A j, k \in 0 .. WordBits : j + k <= WordBits => Pow[j + k] = Pow[j] * Pow[k]
=============================================================================
