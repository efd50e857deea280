------------------------------- MODULE Binary -------------------------------
(***************************************************************************)
(* The powers of two, as a function: shifts, widths and subtree sizes.     *)
(***************************************************************************)
EXTENDS Integers

PowerOfTwo[k \in Nat] == IF k = 0 THEN 1 ELSE 2 * PowerOfTwo[k - 1]
=============================================================================
