------------------------------ MODULE MCWord64 ------------------------------
(* Model values for Word64: see MCWord64.cfg.                              *)
EXTENDS Word64

MCPow == [k \in 0 .. 8 * ByteBits |-> 2^k]
=============================================================================
