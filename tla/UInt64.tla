------------------------------- MODULE UInt64 -------------------------------
(***************************************************************************)
(* One 64-bit word and the operations SHA-512, BLAKE2b, Ascon and Keccak   *)
(* ask of it, as their standards write them: arithmetic modulo 2^64,       *)
(* rotations by any count, and the eight bytes of a word in either order.  *)
(***************************************************************************)
EXTENDS Powers

VARIABLES
  x,      \* the word
  call,   \* the operation being computed, or Idle
  out     \* what the last one returned besides the word

Words   == 0 .. Pow[WordBits] - 1
Counts  == 0 .. 2 * WordBits    \* rotation counts: a bound of the model
Byte    == 0 .. Pow[ByteBits] - 1
Bytes   == [1 .. 8 -> Byte]

(* An operation and its operand: a number, or eight bytes.                 *)
Calls ==
  [op : {"split"}, n : 0 .. Pow[WordBits]]
  \cup [op : {"add"}, n : Words]
  \cup [op : {"rotr", "rotl", "rotl_each"}, n : Counts]
  \cup [op : {"shr"}, n : 1 .. HalfBits - 1]
  \cup [op : {"read_le", "read_be"}, bytes : Bytes]
  \cup [op : {"write_le", "write_be"}]

Idle       == [op |-> "none"]
Nothing    == [kind |-> "none"]
ValueError == [kind |-> "ValueError"]
Written(bytes) == [kind |-> "bytes", bytes |-> bytes]

(* The value of eight bytes, the least significant first or last.          *)
LittleEndian(b) ==
    b[1] + b[2] * Pow[ByteBits] + b[3] * Pow[2 * ByteBits] + b[4] * Pow[3 * ByteBits]
  + b[5] * Pow[4 * ByteBits] + b[6] * Pow[5 * ByteBits] + b[7] * Pow[6 * ByteBits]
  + b[8] * Pow[7 * ByteBits]

Reversed(b)  == [k \in 1 .. 8 |-> b[9 - k]]
BigEndian(b) == LittleEndian(Reversed(b))

----------------------------------------------------------------------------
RotatedRight(n) == x \div Pow[n] + (x % Pow[n]) * Pow[WordBits - n]
RotatedLeft(n)  == (x % Pow[WordBits - n]) * Pow[n] + x \div Pow[WordBits - n]

Init == x = 0 /\ call = Idle /\ out = Nothing

Ask == call = Idle /\ call' \in Calls /\ out' = Nothing /\ UNCHANGED x

Becomes(y) == x' = y /\ out' = Nothing

(* A value of more bits than a word is refused.                            *)
Split(v) == IF v \in Words THEN Becomes(v) ELSE UNCHANGED x /\ out' = ValueError

(* Written bytes are the ones that would be read back.                     *)
Writes == out'.kind = "bytes" /\ out'.bytes \in Bytes /\ UNCHANGED x

Reply ==
  /\ call # Idle
  /\ call' = Idle
  /\ \/ call.op = "split" /\ Split(call.n)
     \/ call.op = "add" /\ Becomes((x + call.n) % Pow[WordBits])
     \/ call.op = "rotr" /\ Becomes(RotatedRight(call.n % WordBits))
     \/ call.op \in {"rotl", "rotl_each"} /\ Becomes(RotatedLeft(call.n % WordBits))
     \/ call.op = "shr" /\ Becomes(x \div Pow[call.n])
     \/ call.op = "read_le" /\ Becomes(LittleEndian(call.bytes))
     \/ call.op = "read_be" /\ Becomes(BigEndian(call.bytes))
     \/ call.op = "write_le" /\ Writes /\ LittleEndian(out'.bytes) = x
     \/ call.op = "write_be" /\ Writes /\ BigEndian(out'.bytes) = x

Next == Ask \/ Reply

Spec == Init /\ [][Next]_<<x, call, out>>
=============================================================================
