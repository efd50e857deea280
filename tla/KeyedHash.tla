----------------------------- MODULE KeyedHash -----------------------------
(***************************************************************************)
(* HMAC over a byte hash (adapter/hmac.py, adapter/block_size.py), and the *)
(* requests the adapters serve.                                            *)
(*                                                                         *)
(* A hash is a free term: a digest is named by the padded blocks folded    *)
(* into it, so two digests are equal exactly when the hash and its message *)
(* are.  The blocks stay visible because PBKDF2 stops between two of them  *)
(* and resumes.  A byte is a name too: an operand's is its row and place,  *)
(* and one XORed with a pad byte says so.                                  *)
(***************************************************************************)
EXTENDS Integers, Sequences, SequencesExt

CONSTANTS
  Hashes,      \* the hashes' names
  DigestSize,  \* digest_size of each
  BlockSizes,  \* _BLOCK_SIZES: input block of each hash that has an entry
  Block,       \* the input block of the hashes with a midstate profile
  Reserve,     \* bytes their padding reserves for the length
  Byte,        \* values of an octet (256 in the code)
  Octets,      \* octets of MGF1's and PBKDF2's counters (4 in the code)
  Requests     \* the calls a client may make

(* The hashes' own padding; lengths here stay far below the field's range. *)
Pad == INSTANCE PadRule
         WITH Field <- Reserve, Trailer <- "BIT_LENGTH", Word <- 1024

(* A registered width says nothing of the digest: SHAKE's rows are         *)
(* registered at their rate, and their digests are as long as asked.       *)
ASSUME HashAssumption ==
  /\ DigestSize \in [Hashes -> Nat \ {0}]
  /\ DOMAIN BlockSizes \subseteq Hashes
  /\ \A h \in DOMAIN BlockSizes : BlockSizes[h] \in Nat
  /\ Block \in Nat \ {0} /\ Reserve \in Nat \ {0}
  /\ Byte \in Nat \ {0, 1} /\ Octets \in Nat \ {0}

----------------------------------------------------------------------------
(* Bytes and digests.                                                      *)

Xored(pad, bytes) == [k \in DOMAIN bytes |-> <<"xor", pad, bytes[k]>>]

(* How many values some octets have.                                       *)
ValuesOf[octets \in Nat] == IF octets = 0 THEN 1 ELSE Byte * ValuesOf[octets - 1]

(* The low `width` octets of a counter, most significant first: to_bytes   *)
(* for a value in range, which is all the adapters ask of it.              *)
CounterBytes(index, width) ==
  [k \in 1 .. width |-> <<"octet", (index \div ValuesOf[width - k]) % Byte>>]

(* A chaining value is the blocks absorbed so far.                         *)
Compress(state, bytes) ==
  state \o [i \in 1 .. Len(bytes) \div Block |->
              SubSeq(bytes, (i - 1) * Block + 1, i * Block)]

(* The padding of a message of `length` bytes.                             *)
MdTail(length) ==
  LET tail == Pad!PadTail(length)
  IN  [k \in 1 .. Pad!NBlocks(length) * Block - length |-> tail[k - 1]]

(* The state and the message are arguments of functions, which TLC         *)
(* evaluates once; as operators' parameters they would be evaluated at     *)
(* every use, and a term nests three deep in one MAC.                      *)
Serialize(hash, state) ==
  LET Bytes[s \in {state}] ==
        [k \in 1 .. DigestSize[hash] |-> <<"digest", hash, s, k>>]
  IN  Bytes[state]

Digest(hash, message) ==
  LET Hash[m \in {message}] == Serialize(hash, Compress(<<>>, m \o MdTail(Len(m))))
  IN  Hash[message]

----------------------------------------------------------------------------
(* HMAC.                                                                   *)

(* Hmac.__init__: the registered width unless one is given (None stands    *)
(* for none), and either is refused where a longer key's digest would not  *)
(* fit it.                                                                 *)
None == 0

Hmac(hash, given) ==
  [hash |-> hash, block |-> IF given = None THEN BlockSizes[hash] ELSE given]

(* As HmacRefusal, trusting a registered width to hold the digest.         *)
HmacRefusalTrusting(hash, given) ==
  IF given = None
    THEN IF hash \in DOMAIN BlockSizes THEN "" ELSE "LookupError"
    ELSE IF given < DigestSize[hash] THEN "ValueError" ELSE ""

HmacRefusal(hash, given) ==
  IF given = None /\ hash \notin DOMAIN BlockSizes THEN "LookupError"
  ELSE IF Hmac(hash, given).block < DigestSize[hash] THEN "ValueError" ELSE ""

(* K0: the key hashed down when longer than a block, then zero-padded.     *)
BlockKey(mac, key) ==
  LET fit == IF Len(key) > mac.block THEN Digest(mac.hash, key) ELSE key
  IN  fit \o [k \in 1 .. mac.block - Len(fit) |-> Pad!Zero]

Mac(mac, key, msg) ==
  LET k0    == BlockKey(mac, key)
      inner == Digest(mac.hash, Xored("ipad", k0) \o msg)
  IN  Digest(mac.hash, Xored("opad", k0) \o inner)

----------------------------------------------------------------------------
(* Requests.  An operand is a shape <<rows, bytes>>: an unbatched one is a *)
(* single row, and an absent one has no rows.  MGF1's seed is its text.    *)

Absent == <<0, 0>>

Shape == Nat \X Nat

RequestType ==
  [op : {"mac", "extract", "expand", "mgf1", "pbkdf2"}, hash : Hashes, given : Nat,
   key : Shape, text : Shape, iterations : Nat, length : Nat]

ASSUME RequestAssumption == Requests \subseteq RequestType

Operand(name, shape, row) ==
  [k \in 1 .. shape[2] |-> <<name, IF shape[1] = 1 THEN 1 ELSE row, k>>]

(* broadcast_shapes of the operands' leading axes.                         *)
Broadcast(a, b) == IF a > b THEN a ELSE b
Mismatch(a, b)  == a # b /\ a # 1 /\ b # 1

BatchOf(req) ==
  IF req.op \in {"expand", "pbkdf2"} THEN Broadcast(req.key[1], req.text[1])
  ELSE req.text[1]

(* A key per message, or one for all of them; a batch of keys over one     *)
(* message only where the adapter broadcasts the message too.              *)
ShapeRefused(req) ==
  CASE req.op \in {"mac", "extract"} -> req.key[1] \notin {0, 1, req.text[1]}
    [] req.op \in {"expand", "pbkdf2"} ->
         req.text[1] # 0 /\ Mismatch(req.key[1], req.text[1])
    [] OTHER -> FALSE

MacOf(req) == Hmac(req.hash, req.given)

HLen(req) == DigestSize[req.hash]

(* ceil(length / hLen).                                                    *)
NumBlocks(req) == Pad!CeilDiv(req.length, HLen(req))
=============================================================================
