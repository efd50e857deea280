-------------------------------- MODULE Xof --------------------------------
(***************************************************************************)
(* What an incremental extendable-output hash promises: a squeezer made    *)
(* from n absorbed bytes hands out, call after call, the consecutive bytes *)
(* of the one-shot hash of those n bytes.  It stays with the n bytes it    *)
(* was made from, whatever the absorbing half is fed afterwards.           *)
(***************************************************************************)
EXTENDS Sponge

CONSTANTS MaxChunk, MaxBytes, MaxTaken   \* bounds of the model

VARIABLES
  absorbed,  \* bytes the absorbing half has been fed
  sealed,    \* how many of them the squeezer was made from, or None
  taken,     \* bytes squeezed from it
  out        \* what the last call returned

None == -1

(* A call returns a state, bytes, or raises.                               *)
Nothing        == [kind |-> "none"]
State          == [kind |-> "state"]
Bytes(n, t, k) == [kind |-> "bytes", bytes |-> [i \in 0 .. k - 1 |-> HashByte(n, t + i)]]
ValueError     == [kind |-> "ValueError"]

Init == absorbed = 0 /\ sealed = None /\ taken = 0 /\ out = Nothing

Absorb(length) ==
  /\ absorbed + length <= MaxBytes
  /\ absorbed' = absorbed + length
  /\ out' = State
  /\ UNCHANGED <<sealed, taken>>

Seal ==
  /\ sealed' = absorbed
  /\ taken' = 0
  /\ out' = State
  /\ UNCHANGED absorbed

Squeeze(nbytes) ==
  /\ sealed # None
  /\ taken + nbytes <= MaxTaken
  /\ IF nbytes < 1
       THEN out' = ValueError /\ UNCHANGED taken
       ELSE out' = Bytes(sealed, taken, nbytes) /\ taken' = taken + nbytes
  /\ UNCHANGED <<absorbed, sealed>>

(* A squeezer of another type at the same position.                        *)
Convert ==
  /\ sealed # None
  /\ out' = State
  /\ UNCHANGED <<absorbed, sealed, taken>>

Next ==
  \/ \E length \in 0 .. MaxChunk : Absorb(length)
  \/ Seal
  \/ \E nbytes \in 0 .. MaxTaken : Squeeze(nbytes)
  \/ Convert

Spec == Init /\ [][Next]_<<absorbed, sealed, taken, out>>
=============================================================================
