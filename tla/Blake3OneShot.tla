---------------------------- MODULE Blake3OneShot ----------------------------
(***************************************************************************)
(* What an incremental BLAKE3 promises: reading it at any point returns    *)
(* the extendable output of the whole-message hash of the bytes absorbed   *)
(* so far, and reading does not disturb it.                                *)
(***************************************************************************)
EXTENDS Blake3Tree

CONSTANTS MaxChunk, MaxBytes, MaxOut   \* bounds of the model

VARIABLES absorbed, result

Nothing    == [kind |-> "none"]
State      == [kind |-> "state"]
Bytes(n, out_len) == [kind |-> "bytes", bytes |-> RootBytes(TreeOutput(n), out_len)]
ValueError == [kind |-> "ValueError"]

Init == absorbed = 0 /\ result = Nothing

Absorb(length) ==
  /\ absorbed + length <= MaxBytes
  /\ absorbed' = absorbed + length
  /\ result' = State

Finalize(out_len) ==
  /\ result' = IF out_len < 1 THEN ValueError ELSE Bytes(absorbed, out_len)
  /\ UNCHANGED absorbed

Next ==
  \/ \E length \in 0 .. MaxChunk : Absorb(length)
  \/ \E out_len \in 0 .. MaxOut : Finalize(out_len)

Spec == Init /\ [][Next]_<<absorbed, result>>
=============================================================================
