----------------------------- MODULE DigestCall -----------------------------
(***************************************************************************)
(* One whole-message digest after another, block by block: the walk of     *)
(* extension/md.py (masked_chain) under the front ends of sha256, sha512,  *)
(* sm3, grostl, ripemd160, blake2b and blake2s, with the trace cache their *)
(* module-level jit zones keep.                                            *)
(*                                                                         *)
(* Three things are decided before the data is seen and could disagree     *)
(* with it: the width of the buffer the message is put in, the number of   *)
(* blocks the walk is unrolled to, and, for BLAKE2, the length its counter *)
(* reports.  The last two live in a trace that later calls share, and the  *)
(* calls that share it may be of other hashes: SHA-384 runs in the trace   *)
(* SHA-512 left, BLAKE2b-256 in BLAKE2b-512's, told apart by the initial   *)
(* state they bring as an operand.                                         *)
(*                                                                         *)
(* A digest is named by the initial state and by what was folded into it.  *)
(***************************************************************************)
EXTENDS Binary, Sequences

CONSTANTS
  Block, Reserve, Field, Word,   \* see PadRule; every family has the same here
  MaxLength,                     \* the longest message, a bound of the model
  MaxWidth,                      \* the widest buffer passed in, a bound
  MaxCalls                       \* calls made, a bound of the model

ASSUME CallAssumption ==
  /\ Block \in Nat \ {0} /\ Reserve \in 1 .. Block - 1 /\ Field \in 1 .. Reserve
  /\ Word \in Nat \ {0} /\ Word % 8 = 0
  /\ MaxLength \in Nat /\ MaxWidth \in Nat /\ MaxCalls \in Nat

VARIABLES
  call,    \* the call in progress, or Idle
  traces,  \* what the cached traces have fixed: [key -> [count, length]]
  result,  \* what the last finished call returned
  earlier, \* the result before it, kept to compare two calls
  calls    \* calls started

vars == <<call, traces, result, earlier, calls>>

BitLength  == INSTANCE PadRule WITH Trailer <- "BIT_LENGTH"
BlockCount == INSTANCE PadRule WITH Trailer <- "BLOCK_COUNT"
Haifa      == INSTANCE PadRule WITH Trailer <- "NONE"

Blake2     == {"blake2b", "blake2s"}
Sha512s    == {"sha512", "sha384", "sha512_224", "sha512_256"}
BitLengths == {"sha256", "sha224", "sm3", "ripemd160"} \cup Sha512s

(* The _PAD of each family.                                                *)
NBlocks(family, length) ==
  CASE family \in BitLengths    -> BitLength!NBlocks(length)
    [] family = "grostl256"     -> BlockCount!NBlocks(length)
    [] family \in Blake2        -> Haifa!NBlocks(length)

HostBlocks(family, message, length) ==
  CASE family \in BitLengths    -> BitLength!PaddedBlocks(message, length)
    [] family = "grostl256"     -> BlockCount!PaddedBlocks(message, length)
    [] family \in Blake2        -> Haifa!PaddedBlocks(message, length)

Msg(k)  == BitLength!Msg(k)
Zero    == BitLength!Zero
Key(j)  == <<"key", j>>
Junk(k) == <<"junk", k>>    \* a byte of a caller's buffer past the message

----------------------------------------------------------------------------
(* byte_hash.capacity.                                                     *)
BitLengthOf(n) ==
  CHOOSE k \in 0 .. n : PowerOfTwo[k] > n /\ \A j \in 0 .. k - 1 : PowerOfTwo[j] <= n

(* As HostWidth, rounding the length itself.                               *)
WidthOfLength(length) ==
  IF length <= Block THEN Block ELSE PowerOfTwo[BitLengthOf(length)]

WidthBelow(length) ==     \* as HostWidth, the power of two under it
  IF length <= Block THEN Block ELSE PowerOfTwo[BitLengthOf(length) - 1]

HostWidth(length) ==
  IF length <= Block THEN Block ELSE PowerOfTwo[BitLengthOf(length - 1)]
DeviceWidth(length) == IF length < 1 THEN 1 ELSE length

(* Every block is 64 or 128 bytes, and a runtime length is an int32.       *)
ASSUME WidthAssumption ==
  /\ \E k \in 0 .. Block : Block = PowerOfTwo[k]
  /\ MaxLength < Word \div 2 /\ MaxWidth < Word \div 2

(* The capacity buffer: at_capacity fills with zeros, a caller's own       *)
(* buffer holds anything.                                                  *)
Buffer(c) == [p \in 0 .. c.width - 1 |->
                IF p < c.length THEN Msg(p) ELSE IF c.own THEN Junk(p) ELSE Zero]

(* padded_message_region: as wide as the buffer could need, padded where   *)
(* the live message ends.                                                  *)
Content(c) ==
  [p \in 0 .. NBlocks(c.family, c.width) * Block - 1 |->
     Buffer(c)[BitLength!Clip(p, 0, c.width - 1)]]

Region(c) ==
  LET active == NBlocks(c.family, c.length) * Block
  IN  IF c.family = "grostl256"
        THEN BlockCount!PaddedRegion(Content(c), c.length, active,
                                     BlockCount!TrailerField(c.length))
        ELSE BitLength!PaddedRegion(Content(c), c.length, active,
                                    BitLength!TrailerField(c.length))

(* _key_block: zero-padded to a whole block and put before the message.    *)
Keyed(c) ==
  LET head == IF c.keylen > 0 THEN Block ELSE 0
  IN  [p \in 0 .. head + c.length - 1 |->
         IF p >= head THEN Msg(p - head) ELSE IF p < c.keylen THEN Key(p) ELSE Zero]

(* The length of the message the walk is over.                             *)
Total(c) == c.length + (IF c.keylen > 0 THEN Block ELSE 0)

(* Block i as the walk reads it.                                           *)
BlockOf(c, i) ==
  IF c.form = "bytes" THEN BitLength!BlockAt(Region(c), i)
                      ELSE HostBlocks(c.family, Keyed(c), Total(c))[i + 1]

----------------------------------------------------------------------------
(* The jit zone a family runs in: a truncated variant runs in its parent's *)
(* (sha512_merkle_damgard, sha256_merkle_damgard).                         *)
ZoneOf(family) ==
  CASE family \in Sha512s  -> "sha512"
    [] family = "sha224"   -> "sha256"
    [] OTHER               -> family

(* As InitialState, leaving a BLAKE2 size to the slice of its result.      *)
InitialStateOfKey(c) ==
  IF c.family \in Blake2 THEN <<c.family, c.keylen>> ELSE <<c.family>>

(* What tells hashes of one zone apart: h0, an operand of every call.  A   *)
(* BLAKE2 h0 folds in the digest size and the key's length.                *)
InitialState(c) ==
  IF c.family \in Blake2 THEN <<c.family, c.size, c.keylen>> ELSE <<c.family>>

(* The zones key on their operands' shapes: the buffer's width; the packed *)
(* block count; the message's length.  An h0 has one shape in its zone.    *)
TraceKeyOfBlocks(c) ==     \* as TraceKey, every static form by block count
  <<ZoneOf(c.family), c.form,
    IF c.form = "bytes" THEN c.width ELSE NBlocks(c.family, Total(c))>>

TraceKey(c) ==
  <<ZoneOf(c.family), c.form,
    CASE c.form = "bytes"  -> c.width
      [] c.form = "blocks" -> NBlocks(c.family, c.length)
      [] c.form = "tail"   -> Total(c)>>

(* What tracing this call fixes: the unrolled count, and the static length *)
(* that BLAKE2's counter reads.                                            *)
Traced(c) ==
  [count  |-> NBlocks(c.family, IF c.form = "bytes" THEN c.width ELSE Total(c)),
   length |-> Total(c)]

Trace(c) == traces[TraceKey(c)]

Idle       == [kind |-> "idle"]
ValueError == [kind |-> "ValueError"]

Init ==
  /\ call = Idle
  /\ traces = <<>>
  /\ result = Idle
  /\ earlier = Idle
  /\ calls = 0

(* A call is traced unless a trace of its shape is there already.          *)
Start(c) ==
  /\ call = Idle
  /\ calls < MaxCalls
  /\ call' = c
  /\ traces' = [k \in DOMAIN traces \cup {TraceKey(c)} |->
                  IF k \in DOMAIN traces THEN traces[k] ELSE Traced(c)]
  /\ calls' = calls + 1
  /\ UNCHANGED <<result, earlier>>

Call(family, form, size, keylen, length, width, own) ==
  [kind |-> "call", family |-> family, form |-> form, size |-> size,
   keylen |-> keylen, length |-> length, width |-> width, own |-> own,
   i |-> 0, folded |-> <<>>]

(* digest of a message on the host, or already on the device, through the  *)
(* runtime-length marker.                                                  *)
HostDigest(family, length) ==
  Start(Call(family, "bytes", 0, 0, length, HostWidth(length), FALSE))
DeviceDigest(family, length) ==
  Start(Call(family, "bytes", 0, 0, length, DeviceWidth(length), FALSE))

(* sha256_bytes and grostl256_bytes on a caller's own buffer.              *)
BufferDigest(family, width, length) ==
  /\ width >= 1
  /\ Start(Call(family, "bytes", 0, 0, length, width, TRUE))

RejectBuffer ==
  /\ call = Idle
  /\ calls < MaxCalls
  /\ result' = ValueError
  /\ calls' = calls + 1
  /\ UNCHANGED <<call, traces, earlier>>

(* digest over the packed blocks: sha256's where the runtime-length marker *)
(* is not recognized, and the only form of its variant and of sm3.         *)
BlocksDigest(family, length) ==
  Start(Call(family, "blocks", 0, 0, length, length, FALSE))

Sha224Digest(length)         == BlocksDigest("sha224", length)
Sm3Digest(length)            == BlocksDigest("sm3", length)

(* SHA-512 and its three truncations: one chain over four initial states.  *)
Sha512Digest(length)         == BlocksDigest("sha512", length)
Sha384Digest(length)         == BlocksDigest("sha384", length)
Sha512_224Digest(length)     == BlocksDigest("sha512_224", length)
Sha512_256Digest(length)     == BlocksDigest("sha512_256", length)

(* ripemd160.digest, and the two blake2 digests, keyed or not, of any size.*)
TailDigest(length) ==
  Start(Call("ripemd160", "tail", 0, 0, length, length, FALSE))
Blake2bDigest(size, keylen, length) ==
  Start(Call("blake2b", "tail", size, keylen, length, length, FALSE))
Blake2sDigest(size, keylen, length) ==
  Start(Call("blake2s", "tail", size, keylen, length, length, FALSE))

(* The counter is read off the trace's static length and block count.      *)
Counter(c) ==
  IF c.family \in Blake2
    THEN Haifa!HaifaCounter(c.i, Trace(c).count, Trace(c).length)
    ELSE <<>>

(* As Live, counting the whole buffer.                                     *)
WholeBufferLive(c) == c.form = "bytes" => c.i < NBlocks(c.family, c.width)

(* Every block is live in a static form; in a runtime form, the message's. *)
Live(c) == c.form = "bytes" => c.i < NBlocks(c.family, c.length)

(* One iteration of masked_chain.                                          *)
Compress ==
  /\ call.kind = "call"
  /\ call.i < Trace(call).count
  /\ call' = [call EXCEPT
       !.i = @ + 1,
       !.folded = IF Live(call)
                    THEN Append(@, <<BlockOf(call, call.i), Counter(call)>>)
                    ELSE @]
  /\ UNCHANGED <<traces, result, earlier, calls>>

Return ==
  /\ call.kind = "call"
  /\ call.i = Trace(call).count
  /\ result' = [kind |-> "digest", family |-> call.family, size |-> call.size,
                keylen |-> call.keylen, length |-> call.length,
                start |-> InitialState(call), folded |-> call.folded]
  /\ earlier' = result
  /\ call' = Idle
  /\ UNCHANGED <<traces, calls>>

Next ==
  \/ \E length \in 0 .. MaxLength :
       \/ \E family \in {"sha256", "grostl256"} :
            HostDigest(family, length) \/ DeviceDigest(family, length)
       \/ BlocksDigest("sha256", length) \/ Sha224Digest(length) \/ Sm3Digest(length)
       \/ Sha512Digest(length) \/ Sha384Digest(length)
       \/ Sha512_224Digest(length) \/ Sha512_256Digest(length)
       \/ TailDigest(length)
       \/ \E size \in 1 .. 2, keylen \in 0 .. 2 :
            Blake2bDigest(size, keylen, length) \/ Blake2sDigest(size, keylen, length)
  \/ \E family \in {"sha256", "grostl256"}, width \in 0 .. MaxWidth :
       \E length \in 0 .. width : BufferDigest(family, width, length)
  \/ RejectBuffer
  \/ Compress
  \/ Return

Spec == Init /\ [][Next]_vars

----------------------------------------------------------------------------
(* A walk never leaves its unrolled range, nor folds more than it walked;  *)
(* every call in progress has a trace, and a width that holds its message. *)
TypeOK ==
  /\ call.kind \in {"idle", "call"}
  /\ call.kind = "call" =>
       /\ TraceKey(call) \in DOMAIN traces
       /\ call.i \in 0 .. Trace(call).count
       /\ Len(call.folded) \in 0 .. call.i
       /\ call.length <= call.width
  /\ \A k \in DOMAIN traces : traces[k].count \in Nat \ {0} /\ traces[k].length \in Nat
  /\ result.kind \in {"idle", "ValueError", "digest"}
  /\ calls \in 0 .. MaxCalls

(* The standards' view of BLAKE2's counter (RFC 7693 3.3): bytes of the    *)
(* message so far, the zero padding never counted.                         *)
StandardCounter(total, i, n) ==
  <<IF (i + 1) * Block < total THEN (i + 1) * Block ELSE total, i = n - 1>>

Standard(family, keylen, length) ==
  LET c      == Call(family, "tail", 0, keylen, length, length, FALSE)
      blocks == HostBlocks(family, Keyed(c), Total(c))
      n      == Len(blocks)
  IN  [i \in 1 .. n |->
         <<blocks[i],
           IF family \in Blake2 THEN StandardCounter(Total(c), i - 1, n) ELSE <<>> >>]

(* Every form of a digest returns the hash of the message and of nothing   *)
(* else, whichever trace served it: not of the slack in its buffer, of the *)
(* speculated blocks past the live ones, or of the length another call     *)
(* traced with.                                                            *)
HashesLivePrefix ==
  result.kind = "digest" =>
    result.folded = Standard(result.family, result.keylen, result.length)

(* Two calls whose digests are the same bytes before truncation were of    *)
(* the same hash and of messages of one length: a variant that shares its  *)
(* parent's zone (SHA-384, SHA-512/256, every size of BLAKE2) is not its   *)
(* parent cut short, and a key is never mistaken for message.              *)
HashesApart ==
  (/\ result.kind = "digest" /\ earlier.kind = "digest"
   /\ result.start = earlier.start /\ result.folded = earlier.folded)
  => /\ result.family = earlier.family /\ result.size = earlier.size
     /\ result.keylen = earlier.keylen /\ result.length = earlier.length

(* capacity's policy for host messages: "doubling bounds the second under  *)
(* 2x the message while keeping the first logarithmic".  At the length of  *)
(* whatever call is running, the width it would be given holds it, is less *)
(* than twice it past one block, and no message of another length is given *)
(* a width strictly between that one and its double or its half.           *)
WidthPolicy ==
  call.kind = "call" =>
    LET length == call.length
        width  == HostWidth(length)
    IN  /\ length <= width
        /\ length > Block => width < 2 * length
        /\ \A other \in 0 .. MaxLength :
             \/ HostWidth(other) = width
             \/ HostWidth(other) >= 2 * width
             \/ width >= 2 * HostWidth(other)
=============================================================================
