----------------------------- MODULE FieldLanes -----------------------------
(***************************************************************************)
(* The state of a permutation over a field, which both sponges are built   *)
(* on: Width lanes, numbered from zero.                                    *)
(***************************************************************************)
EXTENDS Integers

CONSTANT Width   \* the permutation's width

Lanes == 0 .. Width - 1
=============================================================================
