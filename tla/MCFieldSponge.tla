--------------------------- MODULE MCFieldSponge ----------------------------
(* Model values for FieldSponge: see MCFieldSponge.cfg.                     *)
EXTENDS FieldSponge

MCShapes == {[rate |-> 2, out |-> 3], [rate |-> 3, out |-> 2], [rate |-> 2, out |-> 1]}
=============================================================================
