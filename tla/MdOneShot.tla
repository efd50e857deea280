----------------------------- MODULE MdOneShot -----------------------------
(***************************************************************************)
(* What a streaming Merkle-Damgard hash promises, with no stream in it: it *)
(* remembers how many bytes it was given, and finishing returns, for every *)
(* row of a batch, what hashing `absorbed || extras[row]` in one call      *)
(* would have returned.  The whole-message digest is PadRule's: the host   *)
(* tail, then the chain over the padded blocks.                            *)
(*                                                                         *)
(* A digest is named by the blocks folded into it: the compression is a    *)
(* free term, so two digests are equal exactly when their blocks are.      *)
(***************************************************************************)
EXTENDS PadRule

CONSTANTS
  Rows,      \* the rows of a finalize's batch
  MaxChunk,  \* the longest absorb, a bound of the model
  MaxBytes   \* the longest stream, a bound of the model

VARIABLES
  absorbed,  \* bytes absorbed so far
  result     \* what the last call returned

Extra(row, k) == <<"extra", row, k>>   \* byte k of extras[row]

(* absorbed || extras[row], as the message of the one-shot call.           *)
Message(n, e, row) ==
  [p \in 0 .. n + e - 1 |-> IF p < n THEN Msg(p) ELSE Extra(row, p - n)]

(* The digest of a length the counter can hold (see Ceiling below).        *)
OneShot(n, e, row) == PaddedBlocks(Message(n, e, row), n + e)

(* The streaming counter holds a length modulo Word (4 GiB): past it the   *)
(* length field of a stream encodes the remainder.                         *)
WithWrappedLength(n, e, row) ==
  LET nb == NBlocks(n + e)
      padded == Padded(Message(n, e, row), n + e)
      value  == HostValue((n + e) % Word)
      start  == nb * Block - Field
  IN  Blocks([p \in 0 .. nb * Block - 1 |->
                IF p < start THEN padded[p] ELSE FieldByte(value, p - start)],
             0, nb)

(* What calls return: nothing yet, a state, digests, or a ValueError.      *)
Nothing         == [kind |-> "none"]
State           == [kind |-> "state"]
Digests(n, e)   == [kind |-> "digests", length |-> n + e,
                    rows |-> [r \in Rows |-> WithWrappedLength(n, e, r)]]
ValueError      == [kind |-> "ValueError"]

Init == absorbed = 0 /\ result = Nothing

Absorb(length) ==
  /\ absorbed + length <= MaxBytes
  /\ absorbed' = absorbed + length
  /\ result' = State

Finalize(e) ==
  /\ result' = IF e <= Block - Reserve THEN Digests(absorbed, e) ELSE ValueError
  /\ UNCHANGED absorbed

Next == \/ \E length \in 0 .. MaxChunk : Absorb(length)
        \/ \E e \in 0 .. Block : Finalize(e)

Spec == Init /\ [][Next]_<<absorbed, result>>
=============================================================================
