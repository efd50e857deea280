------------------------------ MODULE Adapters ------------------------------
(***************************************************************************)
(* The constructions over a finished hash as the code computes them:       *)
(* adapter/hmac.py, hkdf.py, mgf1.py and pbkdf2.py.  HKDF threads T(i-1)   *)
(* through a loop, MGF1 hashes every block of every row in one batched     *)
(* call, and PBKDF2 keeps the two pad blocks' midstates across its chain   *)
(* where the hash has a profile.                                           *)
(*                                                                         *)
(* A call is synchronous, one loop turn per step, and leaves nothing behind *)
(* but its answer: every behaviour is one call.                            *)
(***************************************************************************)
EXTENDS KeyedHash

CONSTANT Profiles   \* the hashes _MIDSTATE_PROFILES has an entry for

(* A profile's compress takes one block of the registered width, which     *)
(* holds a digest, the mark and the length.                                *)
ASSUME ProfileAssumption ==
  /\ Profiles \subseteq DOMAIN BlockSizes
  /\ \A h \in Profiles : BlockSizes[h] = Block /\ DigestSize[h] + 1 + Reserve <= Block

VARIABLES
  call,    \* the request being served, or Idle
  answer,  \* what the last request got
  at,      \* where the call stands
  i,       \* HKDF's and PBKDF2's block index
  j,       \* PBKDF2's place in the iterations of a block
  u,       \* per row: T(i-1), or U(j)
  t,       \* per row: PBKDF2's XOR so far
  blocks,  \* per row: the output so far
  keys     \* PBKDF2's hoisted key material

locals == <<at, i, j, u, t, blocks, keys>>
vars   == <<call, answer, locals>>

Standard == INSTANCE KdfStandard

Batch == 1 .. BatchOf(call)

Key(row)  == Operand("key", call.key, row)
Text(row) == Operand("text", call.text, row)

----------------------------------------------------------------------------
(* How a call is made, refused and answered.                               *)

Init ==
  /\ call = Standard!Idle /\ answer = Standard!Nothing /\ at = "idle"
  /\ i = 0 /\ j = 0 /\ u = <<>> /\ t = <<>> /\ blocks = <<>> /\ keys = <<>>

Ask ==
  /\ at = "idle" /\ answer = Standard!Nothing
  /\ call' \in Requests /\ at' = "new" /\ answer' = Standard!Nothing
  /\ UNCHANGED <<i, j, u, t, blocks, keys>>

(* The locals of a call go with it.                                        *)
Return(result) ==
  /\ answer' = result /\ call' = Standard!Idle /\ at' = "idle"
  /\ i' = 0 /\ j' = 0 /\ u' = <<>> /\ t' = <<>> /\ blocks' = <<>> /\ keys' = <<>>

ReturnRows(rows) == Return([kind |-> "bytes", rows |-> rows])

Reject(error) == at = "new" /\ error # "" /\ Return([kind |-> error])

(* hmac.py: the constructor, then the broadcast of K0 to the batch.        *)
ShapeRefusal == IF ShapeRefused(call) THEN "ValueError" ELSE ""

MacRefusal ==
  LET built == HmacRefusal(call.hash, call.given)
  IN  IF built # "" THEN built ELSE ShapeRefusal

(* hkdf_expand: the ceiling of a one-octet counter.                        *)
ExpandRefusal ==
  LET built == HmacRefusal(call.hash, call.given)
  IN  IF built # "" THEN built
      ELSE IF ~(1 <= call.length /\ call.length <= (Byte - 1) * HLen(call))
        THEN "ValueError"
      ELSE ShapeRefusal

(* As Mgf1Refusal, with one block more than the counter has values.        *)
Mgf1RefusalInclusive ==
  IF ~(1 <= call.length /\ call.length <= (ValuesOf[Octets] + 1) * HLen(call))
    THEN "ValueError" ELSE ""

(* Mgf1.__init__.                                                          *)
Mgf1Refusal ==
  IF ~(1 <= call.length /\ call.length <= ValuesOf[Octets] * HLen(call))
    THEN "ValueError" ELSE ""

Pbkdf2Refusal ==
  LET built == HmacRefusal(call.hash, call.given)
  IN  IF built # "" THEN built
      ELSE IF \/ call.iterations < 1
              \/ ~(1 <= call.length /\ call.length <= (ValuesOf[Octets] - 1) * HLen(call))
        THEN "ValueError"
      ELSE ShapeRefusal

----------------------------------------------------------------------------
(* HMAC and HKDF.                                                          *)

MacCall ==
  /\ at = "new" /\ call.op = "mac"
  /\ \/ Reject(MacRefusal)
     \/ /\ MacRefusal = ""
        /\ ReturnRows([r \in Batch |-> Mac(MacOf(call), Key(r), Text(r))])

(* hkdf_extract: an absent salt is digest_size zeros.                      *)
Salt(row) ==
  IF call.key = Absent THEN [k \in 1 .. HLen(call) |-> Pad!Zero] ELSE Key(row)

ExtractCall ==
  /\ at = "new" /\ call.op = "extract"
  /\ \/ Reject(MacRefusal)
     \/ /\ MacRefusal = ""
        /\ ReturnRows([r \in Batch |-> Mac(MacOf(call), Salt(r), Text(r))])

(* hkdf_expand: T(0) is empty and an absent info is too.                   *)
ExpandCall ==
  /\ at = "new" /\ call.op = "expand"
  /\ \/ Reject(ExpandRefusal)
     \/ /\ ExpandRefusal = ""
        /\ at' = "expand" /\ i' = 1
        /\ u' = [r \in Batch |-> <<>>]
        /\ blocks' = [r \in Batch |-> <<>>]
        /\ UNCHANGED <<call, answer, j, t, keys>>

ExpandBlock ==
  /\ at = "expand" /\ i <= NumBlocks(call)
  /\ LET next == [r \in Batch |-> Mac(MacOf(call), Key(r),
                                      u[r] \o Text(r) \o CounterBytes(i, 1))]
     IN  /\ u' = next
         /\ blocks' = [r \in Batch |-> blocks[r] \o next[r]]
  /\ i' = i + 1
  /\ UNCHANGED <<call, answer, at, j, t, keys>>

(* concatenate(blocks)[:, :length].                                        *)
Cut == [r \in Batch |-> SubSeq(blocks[r], 1, call.length)]

ExpandReturn == at = "expand" /\ i > NumBlocks(call) /\ ReturnRows(Cut)

----------------------------------------------------------------------------
(* MGF1: one digest of every (row, block) pair, row-major.                 *)

Mgf1Messages ==
  LET n == NumBlocks(call)
  IN  [p \in 1 .. BatchOf(call) * n |->
         Text((p - 1) \div n + 1) \o CounterBytes((p - 1) % n, Octets)]

Mgf1Rows ==
  LET n      == NumBlocks(call)
      stream == [p \in DOMAIN Mgf1Messages |-> Digest(call.hash, Mgf1Messages[p])]
  IN  [r \in Batch |->
         SubSeq(FlattenSeq(SubSeq(stream, (r - 1) * n + 1, r * n)), 1, call.length)]

Mgf1Call ==
  /\ at = "new" /\ call.op = "mgf1"
  /\ Reject(Mgf1Refusal) \/ (Mgf1Refusal = "" /\ ReturnRows(Mgf1Rows))

----------------------------------------------------------------------------
(* PBKDF2.                                                                 *)

(* As ProfileOf, from the hash's type alone.                               *)
ProfileOfType == call.hash \in Profiles

(* The fast path only at the block size its profile compresses.            *)
ProfileOf == call.hash \in Profiles /\ BlockSizes[call.hash] = MacOf(call).block

(* K0 ^ ipad and K0 ^ opad, absorbed once where there is a profile.        *)
HoistedKeys ==
  LET k0(r)  == BlockKey(MacOf(call), Key(r))
      Side(pad, r) == IF ProfileOf THEN Compress(<<>>, Xored(pad, k0(r)))
                      ELSE Xored(pad, k0(r))
  IN  [midstate |-> ProfileOf,
       inner |-> [r \in Batch |-> Side("ipad", r)],
       outer |-> [r \in Batch |-> Side("opad", r)]]

Resumed(mid, payload) ==
  Serialize(call.hash, Compress(mid, payload \o MdTail(MacOf(call).block + HLen(call))))

HmacU(row, bytes) ==
  LET Generic(side, m) == Digest(call.hash, side \o m)
  IN  IF keys.midstate
        THEN Resumed(keys.outer[row], Resumed(keys.inner[row], bytes))
        ELSE Generic(keys.outer[row], Generic(keys.inner[row], bytes))

Pbkdf2Call ==
  /\ at = "new" /\ call.op = "pbkdf2"
  /\ \/ Reject(Pbkdf2Refusal)
     \/ /\ Pbkdf2Refusal = ""
        /\ at' = "block" /\ i' = 1 /\ keys' = HoistedKeys
        /\ blocks' = [r \in Batch |-> <<>>]
        /\ UNCHANGED <<call, answer, j, u, t>>

(* U(1), through the MAC itself.                                           *)
Pbkdf2First ==
  /\ at = "block" /\ i <= NumBlocks(call)
  /\ LET first == [r \in Batch |-> Mac(MacOf(call), Key(r),
                                       Text(r) \o CounterBytes(i, Octets))]
     IN  /\ u' = first
         /\ t' = [r \in Batch |-> [k \in DOMAIN first[r] |-> {first[r][k]}]]
  /\ at' = "iterate" /\ j' = 1
  /\ UNCHANGED <<call, answer, i, blocks, keys>>

(* As Pbkdf2Body, under fori_loop(1, iterations + 1).                      *)
Pbkdf2BodyInclusive ==
  /\ at = "iterate" /\ j <= call.iterations
  /\ LET next == [r \in Batch |-> HmacU(r, u[r])]
     IN  /\ u' = next
         /\ t' = [r \in Batch |-> [k \in DOMAIN t[r] |-> SymDiff(t[r][k], {next[r][k]})]]
  /\ j' = j + 1
  /\ UNCHANGED <<call, answer, at, i, blocks, keys>>

(* body, under fori_loop(1, iterations): t ^ u with the u just made.       *)
Pbkdf2Body ==
  /\ at = "iterate" /\ j < call.iterations
  /\ LET next == [r \in Batch |-> HmacU(r, u[r])]
     IN  /\ u' = next
         /\ t' = [r \in Batch |-> [k \in DOMAIN t[r] |-> SymDiff(t[r][k], {next[r][k]})]]
  /\ j' = j + 1
  /\ UNCHANGED <<call, answer, at, i, blocks, keys>>

Pbkdf2Block ==
  /\ at = "iterate" /\ j = call.iterations
  /\ blocks' = [r \in Batch |-> blocks[r] \o t[r]]
  /\ at' = "block" /\ i' = i + 1 /\ j' = 0 /\ u' = <<>> /\ t' = <<>>
  /\ UNCHANGED <<call, answer, keys>>

Pbkdf2Return == at = "block" /\ i > NumBlocks(call) /\ ReturnRows(Cut)

----------------------------------------------------------------------------
Work ==
  \/ MacCall \/ ExtractCall
  \/ ExpandCall \/ ExpandBlock \/ ExpandReturn
  \/ Mgf1Call
  \/ Pbkdf2Call \/ Pbkdf2First \/ Pbkdf2Body \/ Pbkdf2Block \/ Pbkdf2Return

Next == Ask \/ Work

Spec == Init /\ [][Next]_vars

----------------------------------------------------------------------------
(* Type invariant: indices stay within the request, and every row in       *)
(* flight is a digest wide.                                                *)
TypeOK ==
  /\ call \in Requests \cup {Standard!Idle}
  /\ at \in {"idle", "new", "expand", "block", "iterate"}
  /\ at = "idle" <=> call = Standard!Idle
  /\ at \in {"expand", "block", "iterate"} => i \in 1 .. NumBlocks(call) + 1
  /\ at = "iterate" =>
       /\ j \in 1 .. call.iterations
       /\ \A r \in Batch : Len(u[r]) = HLen(call) /\ Len(t[r]) = HLen(call)
  /\ answer.kind \in {"none", "bytes", "LookupError", "ValueError"}

(* Every answer is the standard's: the loops, the batched layout and the   *)
(* midstates give, row by row, the bytes of the formula, and a request     *)
(* outside the standard's limits gets an error and no bytes (pbkdf2.py's   *)
(* fast path against its generic one, hkdf.py's chain, mgf1.py's layout).  *)
ImplementsStandard == Standard!Spec

(* No output repeats itself: each byte a row of a mask or a derived key is *)
(* given comes from another hash input, or another place of its digest,    *)
(* than every other byte of the row.  It is what the counters' ceilings    *)
(* and the per-block inputs are for: "past that the four-octet counter     *)
(* would repeat rather than extend the mask" (mgf1.py).                    *)
NeverRepeats ==
  answer.kind = "bytes" =>
    \A r \in DOMAIN answer.rows : IsInjective(answer.rows[r])
=============================================================================
