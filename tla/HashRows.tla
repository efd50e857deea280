------------------------------ MODULE HashRows ------------------------------
(***************************************************************************)
(* The rows that are one permutation or compression told apart by framing: *)
(* the FIPS 202 rows, cSHAKE, KMAC and TupleHash (keccak/), the three      *)
(* Ascon rows, BLAKE2 with its parameter block and key, and BLAKE3's three *)
(* modes and two Merkle compressions.  A caller builds a row and hashes    *)
(* with it, inside a trace of its own that keys on the row's equality, or  *)
(* eagerly through the family's jit zone; KMAC and keyed BLAKE3 also take  *)
(* their key as an operand.                                                *)
(*                                                                         *)
(* A call is named by what it absorbed: the initial state, the bytes, and  *)
(* the attributes (BLAKE2's count; BLAKE3's length, mode flag and finish). *)
(* Two calls give the same digest of every size exactly when these are     *)
(* equal, so "which hash this is" has to be read off them.  BLAKE3's       *)
(* messages are one chunk here and its tree is Blake3Tree's: of a longer   *)
(* message the chaining value is, and should be, a parent of two others.   *)
(***************************************************************************)
EXTENDS Encodings

CONSTANTS
  Sha3Suffix, ShakeSuffix, CShakeSuffix, KeccakSuffix,   \* the domain bytes
  KmacName, TupleHashName,   \* the reserved function names
  AsconRate,                 \* Ascon's rate, and the bytes of its length block
  MaxCustomization,          \* Ascon-CXOF's longest customization
  Blake3Iv,                  \* the bytes of BLAKE3's initial words
  RowsBuilt,                 \* the rows callers try to build
  Strings,                   \* what they hash with them: sequences of strings
  MaxCalls                   \* calls made, a bound of the model

DomainBytes == {Sha3Suffix, ShakeSuffix, CShakeSuffix, KeccakSuffix}

(* A row: its type (fn, rate, xof) and what its constructor took.          *)
Blank == [fn |-> "", rate |-> 0, xof |-> FALSE, out |-> 0, name |-> <<>>,
          cust |-> <<>>, key |-> <<>>, salt |-> <<>>, person |-> <<>>]

Keccaks == {"SHA3", "Keccak256", "SHAKE", "cSHAKE", "KMAC", "TupleHash"}
Ascons  == {"AsconHash256", "AsconXof128", "AsconCxof128"}
Blake2s == {"Blake2", "Blake2Keyed"}
Blake3s == {"Blake3", "Blake3Keyed", "Blake3DeriveKey", "Blake3NonRoot", "Blake3Parent"}

RowType ==
  [fn : Keccaks \cup Ascons \cup Blake2s \cup Blake3s, rate : Nat, xof : BOOLEAN, out : Nat,
   name : Seq(Bytes), cust : Seq(Bytes), key : Seq(Bytes), salt : Seq(Bytes),
   person : Seq(Bytes)]

(* A block of BLAKE2 is sixteen words, one of BLAKE3 two keys; Ascon's     *)
(* rows share one rate.                                                    *)
Sized(row) ==
  /\ row.fn \in Keccaks => row.rate >= 1
  /\ row.fn \in Blake2s => row.rate >= 16 /\ row.rate % 16 = 0
  /\ row.fn \in Blake3s => row.rate >= 2 /\ row.rate % 2 = 0

(* What a row's constructor does not take is blank.                        *)
Trimmed(row) ==
  /\ row.fn # "cSHAKE" => row.name = <<>>
  /\ row.fn \notin {"cSHAKE", "KMAC", "TupleHash", "AsconCxof128", "Blake3DeriveKey"} =>
       row.cust = <<>>
  /\ row.fn \notin {"KMAC", "Blake3Keyed"} \cup Blake2s => row.key = <<>>
  /\ row.fn \notin Blake2s => row.salt = <<>> /\ row.person = <<>>
  /\ row.fn \notin {"KMAC", "TupleHash"} => ~row.xof
  /\ row.fn \in Ascons => row.rate = 0

(* The numbers a row's framing encodes.                                    *)
Lengths(row) ==
  {row.rate, Bits * row.out}
    \cup {Bits * Len(s) : s \in {row.name, row.cust, row.key, KmacName, TupleHashName}}

(* validate_sponge_params: a suffix leaves the top bit to the padding.     *)
(* The function names KMAC and TupleHash are reserved, which nothing       *)
(* enforces.  Every length has a count of digits that is one digit, and a  *)
(* customization's bits can be counted in Ascon's length block.            *)
ASSUME RowAssumption ==
  /\ DomainBytes \subseteq 1 .. Base \div 2 - 1
  /\ Cardinality(DomainBytes) = 4
  /\ AsconRate \in Nat \ {0} /\ MaxCustomization \in Nat /\ MaxCalls \in Nat
  /\ {KmacName, TupleHashName, Blake3Iv} \subseteq Seq(Bytes)
  /\ KmacName # TupleHashName /\ KmacName # <<>> /\ TupleHashName # <<>>
  /\ Bits * MaxCustomization < Digits(AsconRate)
  /\ RowsBuilt \subseteq RowType /\ Strings \subseteq Seq(Seq(Bytes))
  /\ \A row \in RowsBuilt :
       /\ row.name \notin {KmacName, TupleHashName}
       /\ Sized(row) /\ Trimmed(row)
       /\ \A x \in Lengths(row) : Encodable(x)
  /\ \A strings \in Strings : \A i \in DOMAIN strings : Encodable(Bits * Len(strings[i]))

VARIABLES
  cache,   \* what the cached traces have fixed: [key -> a part of a call]
  result,  \* what the last call returned
  calls    \* calls made

hrVars == <<cache, result, calls>>

----------------------------------------------------------------------------
(* Row.__eq__: equal rows are of one type, and then of equal parameters.   *)
TypeOf(row) == <<row.fn, row.rate, row.xof>>

ParametersWithoutKey(row) ==     \* as Parameters, the key left out of it
  CASE row.fn = "cSHAKE" -> <<row.out, row.name, row.cust>>
    [] row.fn \in Blake2s -> <<row.out, row.salt, row.person>>
    [] OTHER -> <<row.out, row.cust>>

(* Row._parameters and its overrides: with the type, the jit cache key.    *)
Parameters(row) ==
  CASE row.fn = "cSHAKE"       -> <<row.out, row.name, row.cust>>
    [] row.fn = "KMAC"         -> <<row.out, row.key, row.cust>>
    [] row.fn = "Blake3Keyed"  -> <<row.out, row.key>>
    [] row.fn \in {"TupleHash", "AsconCxof128", "Blake3DeriveKey"} -> <<row.out, row.cust>>
    [] row.fn = "Blake2"       -> <<row.out, row.salt, row.person>>
    [] row.fn = "Blake2Keyed"  -> <<row.out, row.key, row.salt, row.person>>
    [] OTHER                   -> <<row.out>>

(* BLAKE2's rate is its message block, sixteen words.                      *)
WordBytes(row)    == row.rate \div 16
SaltSize(row)     == 2 * WordBytes(row)
MaxFieldSize(row) == 8 * WordBytes(row)

(* BLAKE3's is a block: two keys, or two digests.                          *)
KeyLen(row) == row.rate \div 2

(* What the constructors accept.                                           *)
ValidCxof(row) == Len(row.cust) <= MaxCustomization

ValidBlake2(row) ==
  /\ row.out <= MaxFieldSize(row)
  /\ Len(row.key) <= MaxFieldSize(row)
  /\ Len(row.salt) <= SaltSize(row) /\ Len(row.person) <= SaltSize(row)
  /\ row.fn = "Blake2Keyed" <=> row.key # <<>>

ValidBlake3(row) ==
  /\ row.fn = "Blake3Keyed" => Len(row.key) = KeyLen(row)
  /\ row.fn = "Blake3NonRoot" => row.out = KeyLen(row)

Valid(row) ==
  /\ row.out >= 1
  /\ row.fn = "AsconCxof128" => ValidCxof(row)
  /\ row.fn \in Blake2s => ValidBlake2(row)
  /\ row.fn \in Blake3s => ValidBlake3(row)

(* What a call can be handed, and of that what it takes: some strings to a *)
(* TupleHash, two children to a parent.                                    *)
Fits(row, strings)  == row.fn = "TupleHash" \/ Len(strings) = 1
Takes(row, strings) ==
  /\ Fits(row, strings)
  /\ row.fn = "TupleHash" => strings # <<>>
  /\ row.fn = "Blake3Parent" => Len(strings[1]) = row.rate

----------------------------------------------------------------------------
(* Padding.                                                                *)

(* SpongePad.tail: the head byte, zeros, and for pad10*1 the closing bit.  *)
SpongeTail(length, rate, head, final_bit) ==
  LET size == rate - (length % rate)
  IN  [j \in 1 .. size |-> (IF j = 1 THEN head ELSE 0)
                           + (IF final_bit /\ j = size THEN Base \div 2 ELSE 0)]

PrefixBlock(name, cust, rate) ==
  IF name = <<>> /\ cust = <<>> THEN <<>>
  ELSE Bytepad(EncodeString(name) \o EncodeString(cust), rate)

Suffix(row) ==
  CASE row.fn = "SHA3"      -> Sha3Suffix
    [] row.fn = "Keccak256" -> KeccakSuffix
    [] row.fn = "SHAKE"     -> ShakeSuffix
    [] row.fn = "cSHAKE" /\ PrefixBlock(row.name, row.cust, row.rate) = <<>> -> ShakeSuffix
    [] OTHER                -> CShakeSuffix

PadTail(row, length) ==
  CASE row.fn \in Keccaks -> SpongeTail(length, row.rate, Suffix(row), TRUE)
    [] row.fn \in Ascons  -> SpongeTail(length, AsconRate, 1, FALSE)
    [] OTHER -> Zeros(IF length = 0 THEN row.rate ELSE Fill(length, row.rate))

----------------------------------------------------------------------------
(* Framing: the constants between which a row puts its operands.           *)

(* right_encode(L), zero in an XOF.                                        *)
LengthTail(row) == RightEncode(IF row.xof THEN 0 ELSE Bits * row.out)

(* Z0 || Z || pad *)
CustomizationPrefix(z) ==
  LittleEndian(Bits * Len(z), AsconRate) \o z \o SpongeTail(Len(z), AsconRate, 1, FALSE)

KeyBlock(row) ==
  IF row.key = <<>> THEN <<>> ELSE row.key \o Zeros(row.rate - Len(row.key))

KmacFrame(row) ==
  <<PrefixBlock(KmacName, row.cust, row.rate) \o Bytepad(EncodeString(row.key), row.rate),
    LengthTail(row)>>

(* Each string behind its own length, the first behind the prefix too.     *)
TupleFrame(row, strings) ==
  [i \in 1 .. Len(strings) + 1 |->
     (IF i = 1 THEN PrefixBlock(TupleHashName, row.cust, row.rate) ELSE <<>>)
       \o (IF i <= Len(strings) THEN LeftEncode(Bits * Len(strings[i]))
                                ELSE LengthTail(row))]

Frame(row, strings) ==
  CASE row.fn = "cSHAKE" -> <<PrefixBlock(row.name, row.cust, row.rate), <<>> >>
    [] row.fn = "KMAC"         -> KmacFrame(row)
    [] row.fn = "TupleHash"    -> TupleFrame(row, strings)
    [] row.fn = "AsconCxof128" -> <<CustomizationPrefix(row.cust), <<>> >>
    [] row.fn \in Blake2s      -> <<KeyBlock(row), <<>> >>
    [] OTHER                   -> << <<>>, <<>> >>

(* concatenate: constants and operands in turn.                            *)
Concatenated(pieces, operands) ==
  LET through[k \in 0 .. Len(operands)] ==
        IF k = 0 THEN pieces[1] ELSE through[k - 1] \o operands[k] \o pieces[k + 1]
  IN  through[Len(operands)]

(* The tail is sized by everything before it.                              *)
PadOfMessage(row, frame, operands) ==     \* as Padded, sized by the operands
  [frame EXCEPT ![Len(frame)] = @ \o PadTail(row, Len(FlattenSeq(operands)))]

Padded(row, frame, operands) ==
  [frame EXCEPT ![Len(frame)] = @ \o PadTail(row, Len(Concatenated(frame, operands)))]

(* The section 2.8 parameter block, little-endian, zero outside its fields.*)
ParamBlock(row) ==
  LET half == 4 * WordBytes(row)
      field(s, start, p) == IF p \in start + 1 .. start + Len(s) THEN s[p - start] ELSE 0
  IN  [p \in 1 .. 2 * half |->
         CASE p = 1       -> row.out
           [] p = 2       -> Len(row.key)
           [] p \in {3, 4} -> 1
           [] OTHER       -> field(row.salt, half, p)
                               + field(row.person, half + SaltSize(row), p)]

(* h0: the IV with the parameter block folded in.                          *)
Blake2State(row) == <<"blake2", row.rate, ParamBlock(row)>>

(* BLAKE3 in one mode: the key words its nodes open from and the mode's    *)
(* flag.  A derive-key context is hashed under a flag of its own first.    *)
KeyMode(key)      == [words |-> <<"bytes", key>>, flags |-> "KEYED_HASH"]
HashMode          == [words |-> <<"bytes", Blake3Iv>>, flags |-> "none"]
ContextMode       == [HashMode EXCEPT !.flags = "DERIVE_KEY_CONTEXT"]
DeriveKeyMode(context, rate) ==
  [words |-> <<"root words", ContextMode, Len(context),
               context \o Zeros(IF context = <<>> THEN rate ELSE Fill(Len(context), rate))>>,
   flags |-> "DERIVE_KEY_MATERIAL"]

ModeOf(row) ==
  CASE row.fn = "Blake3Keyed"     -> KeyMode(row.key)
    [] row.fn = "Blake3DeriveKey" -> DeriveKeyMode(row.cust, row.rate)
    [] OTHER                      -> HashMode

(* How its last node is finished.                                          *)
Finish(row) ==
  CASE row.fn = "Blake3NonRoot" -> "chaining value"
    [] row.fn = "Blake3Parent"  -> "parent"
    [] OTHER                    -> "root"

(* Each Ascon row has an initial state of its own.                         *)
InitialState(row) ==
  CASE row.fn \in Keccaks -> <<"zero", row.rate>>
    [] row.fn \in Ascons  -> <<"ascon", row.fn>>
    [] row.fn \in Blake2s -> Blake2State(row)
    [] row.fn \in Blake3s -> <<"blake3", row.rate, ModeOf(row).words>>

Attributes(row, length) ==
  CASE row.fn \in Blake2s -> <<length>>
    [] row.fn \in Blake3s -> <<length, ModeOf(row).flags, Finish(row)>>
    [] OTHER              -> <<>>

(* What a call of `row` consists of before any of it is traced.            *)
Whole(row, frame, operands) ==
  [init     |-> InitialState(row),
   pieces   |-> Padded(row, frame, operands),
   attrs    |-> Attributes(row, Len(Concatenated(frame, operands))),
   operands |-> operands]

----------------------------------------------------------------------------
ValueError == [kind |-> "ValueError"]

HRInit ==
  /\ cache = <<>>
  /\ result = [kind |-> "none"]
  /\ calls = 0

Only(whole, fields) == [f \in fields |-> whole[f]]

(* A call served by the trace of its key: the trace supplies what tracing  *)
(* fixed, from the call that traced it; this call supplies the rest.       *)
Serve(key, whole, fixed, row, strings) ==
  LET trace == IF key \in DOMAIN cache THEN cache[key] ELSE Only(whole, fixed)
      run   == [f \in DOMAIN whole |-> IF f \in DOMAIN trace THEN trace[f] ELSE whole[f]]
  IN  /\ cache' = [k \in {key} \cup DOMAIN cache |-> IF k = key THEN trace ELSE cache[k]]
      /\ result' = [kind |-> "digest", row |-> row, strings |-> strings,
                    init |-> run.init, attrs |-> run.attrs,
                    stream |-> Concatenated(run.pieces, run.operands)]

Shape(strings) == [i \in DOMAIN strings |-> Len(strings[i])]

(* digest or hash inside a consumer's trace, the row a static argument:    *)
(* everything but the message is a constant of the compiled program.       *)
DigestInTrace(row, strings) ==
  /\ Valid(row) /\ Takes(row, strings)
  /\ Serve(<<"row", TypeOf(row), Parameters(row), Shape(strings)>>,
           Whole(row, Frame(row, strings), strings),
           {"init", "pieces", "attrs"}, row, strings)

(* The jit zones.  _fused_hash keys on the padded batch; the Ascon ones    *)
(* build the tail, and the customization, inside; BLAKE2's takes all but   *)
(* the counter as operands; tree_hash and parent_hash take the message and *)
(* the key words.                                                          *)
Length(pieces, strings) == Len(Concatenated(pieces, strings))

KeccakZone(row, strings) ==
  [key   |-> <<"zone", "keccak_sponge", row.rate, row.out,
               Length(Padded(row, Frame(row, strings), strings), strings)>>,
   fixed |-> {"init", "attrs"}]

AsconZone(row, strings) ==
  [key   |-> <<"zone", row.fn, row.out, row.cust, Shape(strings)>>,
   fixed |-> {"init", "pieces", "attrs"}]

Blake2Zone(row, strings) ==
  [key   |-> <<"zone", "blake2", row.rate, Length(Frame(row, strings), strings)>>,
   fixed |-> {"attrs"}]

Blake3Zone(row, strings) ==
  [key   |-> <<"zone", "blake3", row.rate, Shape(strings), row.out, ModeOf(row).flags,
               Finish(row)>>,
   fixed |-> {"pieces", "attrs"}]

Zone(row, strings) ==
  CASE row.fn \in Keccaks -> KeccakZone(row, strings)
    [] row.fn \in Ascons  -> AsconZone(row, strings)
    [] row.fn \in Blake2s -> Blake2Zone(row, strings)
    [] row.fn \in Blake3s -> Blake3Zone(row, strings)

(* A row called eagerly, and the families' free functions, through the     *)
(* zones.                                                                  *)
DigestEagerly(row, strings) ==
  /\ Valid(row) /\ Takes(row, strings)
  /\ Serve(Zone(row, strings).key, Whole(row, Frame(row, strings), strings),
           Zone(row, strings).fixed, row, strings)

(* kmac128 and its siblings: the key an operand, framed by its length.     *)
OperandFrame(row) ==
  <<PrefixBlock(KmacName, row.cust, row.rate) \o SplitHead(Len(row.key), row.rate),
    Zeros(SplitFill(Len(row.key), row.rate)),
    LengthTail(row)>>

KmacWithOperandKey(row, message) ==
  /\ row.fn = "KMAC" /\ Valid(row)
  /\ LET operands == <<row.key, message>>
     IN  Serve(<<"operand", TypeOf(row), row.out, row.cust, Shape(operands)>>,
               Whole(row, OperandFrame(row), operands),
               {"init", "pieces", "attrs"}, row, <<message>>)

(* keyed_xof: the key an operand too, and packed into the initial state.   *)
Blake3WithOperandKey(row, message) ==
  /\ row.fn = "Blake3Keyed" /\ Valid(row)
  /\ Serve(<<"operand", TypeOf(row), row.out, Shape(<<row.key, message>>)>>,
           Whole(row, Frame(row, <<message>>), <<message>>), {"pieces", "attrs"},
           row, <<message>>)

(* A constructor refusing, a TupleHash of no strings, half a pair.         *)
Reject(row, strings) ==
  /\ Fits(row, strings)
  /\ ~ Valid(row) \/ ~ Takes(row, strings)
  /\ result' = ValueError
  /\ UNCHANGED cache

HRNext ==
  /\ calls < MaxCalls
  /\ calls' = calls + 1
  /\ \E row \in RowsBuilt, strings \in Strings :
    \/ DigestInTrace(row, strings)
    \/ DigestEagerly(row, strings)
    \/ Len(strings) = 1 /\ KmacWithOperandKey(row, strings[1])
    \/ Len(strings) = 1 /\ Blake3WithOperandKey(row, strings[1])
    \/ Reject(row, strings)

HRSpec == HRInit /\ [][HRNext]_hrVars

----------------------------------------------------------------------------
(* Reading a call back from what it absorbed.                              *)

(* What a row's digests bind: an XOF's does not bind the length it was     *)
(* read to, a fixed-output row has only one; cSHAKE of two empty strings   *)
(* is SHAKE; BLAKE2's salt and personalization are zero-filled fields.     *)
Canonical(row) ==
  LET fill(s) == s \o Zeros(SaltSize(row) - Len(s))
      bindsOut == row.fn \in Blake2s \/ (row.fn \in {"KMAC", "TupleHash"} /\ ~row.xof)
      sized   == IF bindsOut THEN row ELSE [row EXCEPT !.out = 0]
  IN  CASE row.fn = "cSHAKE" /\ row.name = <<>> /\ row.cust = <<>> ->
             [sized EXCEPT !.fn = "SHAKE"]
        [] row.fn \in Blake2s ->
             [sized EXCEPT !.fn = "Blake2", !.salt = fill(@), !.person = fill(@)]
        [] OTHER -> sized

LastNonzero(s) ==
  CHOOSE p \in 0 .. Len(s) : /\ p > 0 => s[p] # 0
                             /\ \A q \in p + 1 .. Len(s) : s[q] = 0

(* The padding read from the end.                                          *)
Unpadded(stream, closing) ==
  LET bare == [stream EXCEPT ![Len(stream)] = @ - closing]
      p    == LastNonzero(bare)
  IN  [suffix |-> IF p = 0 THEN 0 ELSE bare[p], payload |-> Take(stream, p - 1)]

ReadCShake(rate, payload) ==
  LET head == ReadBytepad(payload, 2)
      key  == ReadBytepad(head.rest, 1)
      size == ReadRight(IF head.strings[1] = KmacName THEN key.rest ELSE head.rest)
      base == [Blank EXCEPT !.rate = rate, !.cust = head.strings[2]]
      derived == [base EXCEPT !.xof = size.value = 0, !.out = size.value \div Bits]
  IN  CASE head.strings[1] = KmacName ->
             [row     |-> [derived EXCEPT !.fn = "KMAC", !.key = key.strings[1]],
              strings |-> <<size.rest>>]
        [] head.strings[1] = TupleHashName ->
             [row |-> [derived EXCEPT !.fn = "TupleHash"], strings |-> ReadStrings(size.rest)]
        [] OTHER ->
             [row     |-> [base EXCEPT !.fn = "cSHAKE", !.name = head.strings[1]],
              strings |-> <<head.rest>>]

ReadKeccak(rate, stream) ==
  LET pad == Unpadded(stream, Base \div 2)
      plain(fn) == [row     |-> [Blank EXCEPT !.fn = fn, !.rate = rate],
                    strings |-> <<pad.payload>>]
  IN  CASE pad.suffix = Sha3Suffix   -> plain("SHA3")
        [] pad.suffix = KeccakSuffix -> plain("Keccak256")
        [] pad.suffix = ShakeSuffix  -> plain("SHAKE")
        [] OTHER                     -> ReadCShake(rate, pad.payload)

ReadAscon(fn, stream) ==
  LET size    == Value(Reverse(Take(stream, AsconRate))) \div Bits
      opened  == AsconRate + size   \* Z0 and Z, then the pad to a boundary
      message == Drop(stream, opened + AsconRate - (opened % AsconRate))
  IN  IF fn = "AsconCxof128"
        THEN [row     |-> [Blank EXCEPT !.fn = fn,
                             !.cust = Take(Drop(stream, AsconRate), size)],
              strings |-> <<Unpadded(message, 0).payload>>]
        ELSE [row |-> [Blank EXCEPT !.fn = fn], strings |-> <<Unpadded(stream, 0).payload>>]

ReadBlake2(rate, block, stream, total) ==
  LET half == Len(block) \div 2
      head == IF block[2] = 0 THEN 0 ELSE rate
  IN  [row |-> [Blank EXCEPT !.fn = "Blake2", !.rate = rate, !.out = block[1],
                  !.key = Take(stream, block[2]),
                  !.salt = SubSeq(block, half + 1, half + half \div 2),
                  !.person = SubSeq(block, half + half \div 2 + 1, 2 * half)],
       strings |-> <<Drop(Take(stream, total), head)>>]

ReadBlake3(rate, words, stream, attrs) ==
  LET message == <<Take(stream, attrs[1])>>
      base    == [Blank EXCEPT !.rate = rate]
      hashed  == CASE attrs[3] = "root" -> "Blake3" [] attrs[3] = "parent" -> "Blake3Parent"
                   [] OTHER -> "Blake3NonRoot"
  IN  CASE attrs[2] = "KEYED_HASH" ->
             [row |-> [base EXCEPT !.fn = "Blake3Keyed", !.key = words[2]],
              strings |-> message]
        [] attrs[2] = "DERIVE_KEY_MATERIAL" ->
             [row |-> [base EXCEPT !.fn = "Blake3DeriveKey", !.cust = Take(words[4], words[3])],
              strings |-> message]
        [] OTHER -> [row |-> [base EXCEPT !.fn = hashed], strings |-> message]

Reading(call) ==
  CASE call.init[1] = "zero"   -> ReadKeccak(call.init[2], call.stream)
    [] call.init[1] = "ascon"  -> ReadAscon(call.init[2], call.stream)
    [] call.init[1] = "blake2" ->
         ReadBlake2(call.init[2], call.init[3], call.stream, call.attrs[1])
    [] call.init[1] = "blake3" ->
         ReadBlake3(call.init[2], call.init[3], call.stream, call.attrs)

----------------------------------------------------------------------------
(* Every call absorbs whole blocks of bytes, at least one, and a trace     *)
(* never fixes an operand.                                                 *)
HRTypeOK ==
  /\ calls \in 0 .. MaxCalls
  /\ \A k \in DOMAIN cache : DOMAIN cache[k] \subseteq {"init", "pieces", "attrs"}
  /\ result.kind \in {"none", "ValueError", "digest"}
  /\ result.kind = "digest" =>
       /\ result.stream # <<>>
       /\ Len(result.stream) %
            (IF result.row.fn \in Ascons THEN AsconRate ELSE result.row.rate) = 0
       /\ \A p \in DOMAIN result.stream : result.stream[p] \in 0 .. Base - 1

(* Which hash a call was, its key, customization and output length, and    *)
(* every string it was given can be read back from what it absorbed: no    *)
(* two calls with different meanings share a digest, no string runs into   *)
(* its neighbour or into the padding, and no key or customization crosses  *)
(* a cache hit into another row's call.                                    *)
UniqueReading ==
  result.kind = "digest" =>
    Reading(result) = [row |-> Canonical(result.row), strings |-> result.strings]

(* One hash, one stream: through a consumer's trace, through its zone or   *)
(* with the key an operand, and whichever call traced first, a row absorbs *)
(* what its own parameters frame.  In particular kmac128(K, ...), which    *)
(* frames a key it knows only the length of, is Kmac128(K, ...).           *)
DoorsAgree ==
  result.kind = "digest" =>
    LET whole == Whole(result.row, Frame(result.row, result.strings), result.strings)
    IN  /\ result.init = whole.init
        /\ result.attrs = whole.attrs
        /\ result.stream = Concatenated(whole.pieces, whole.operands)
=============================================================================
