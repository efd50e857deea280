----------------------------- MODULE KdfFormulas -----------------------------
(***************************************************************************)
(* What the adapters promise, as their standards write it (HKDF's RFC      *)
(* 5869, MGF1's RFC 8017 B.2.1, PBKDF2's RFC 8018 5.2, quoted in the       *)
(* docstrings of adapter/): the bytes one row of a request gets, the       *)
(* requests that get any, and the answer to each.                          *)
(***************************************************************************)
EXTENDS KeyedHash

(* T(i) = HMAC(PRK, T(i-1) || info || i), as one recursive function.       *)
HkdfBlocks(mac, prk, info, n) ==
  LET T[i \in 0 .. n] ==
        IF i = 0 THEN <<>>
        ELSE Mac(mac, prk, T[i - 1] \o info \o CounterBytes(i, 1))
  IN  T

HkdfStream(mac, prk, info, n) ==
  LET T == HkdfBlocks(mac, prk, info, n)
  IN  FlattenSeq([i \in 1 .. n |-> T[i]])

(* Hash(seed || C) for counters from zero.                                 *)
MgfStream(hash, seed, n) ==
  FlattenSeq([c \in 1 .. n |-> Digest(hash, seed \o CounterBytes(c - 1, Octets))])

(* U(1) = PRF(P, S || INT(i)) and U(j) = PRF(P, U(j-1)).                  *)
PbkdfChain(mac, password, salt, c, i) ==
  LET U[j \in 1 .. c] ==
        IF j = 1 THEN Mac(mac, password, salt \o CounterBytes(i, Octets))
        ELSE Mac(mac, password, U[j - 1])
  IN  U

(* The XOR of the first j of them.  A byte of it is the set of the bytes   *)
(* XORed.                                                                  *)
PbkdfSums(U, c) ==
  LET F[j \in 1 .. c] ==
        IF j = 1 THEN [k \in DOMAIN U[1] |-> {U[1][k]}]
        ELSE [k \in DOMAIN U[1] |-> SymDiff(F[j - 1][k], {U[j][k]})]
  IN  F

PbkdfBlock(mac, password, salt, c, i) ==
  PbkdfSums(PbkdfChain(mac, password, salt, c, i), c)[c]

PbkdfStream(mac, password, salt, c, n) ==
  FlattenSeq([i \in 1 .. n |-> PbkdfBlock(mac, password, salt, c, i)])

----------------------------------------------------------------------------
Zeros(n) == [k \in 1 .. n |-> Pad!Zero]

(* RFC 5869: a salt that is not provided is hLen zeros, info the empty     *)
(* string.                                                                 *)
RowBytes(req, row) ==
  LET key  == Operand("key", req.key, row)
      text == Operand("text", req.text, row)
  IN  CASE req.op = "mac" -> Mac(MacOf(req), key, text)
        [] req.op = "extract" ->
             Mac(MacOf(req), IF req.key = Absent THEN Zeros(HLen(req)) ELSE key, text)
        [] req.op = "expand" ->
             SubSeq(HkdfStream(MacOf(req), key, text, NumBlocks(req)), 1, req.length)
        [] req.op = "mgf1" ->
             SubSeq(MgfStream(req.hash, text, NumBlocks(req)), 1, req.length)
        [] req.op = "pbkdf2" ->
             SubSeq(PbkdfStream(MacOf(req), key, text, req.iterations, NumBlocks(req)),
                    1, req.length)

(* The longest output: counters of one octet from 1, of Octets octets from *)
(* 0, and of Octets octets from 1.                                         *)
Longest(req) ==
  CASE req.op = "expand" -> (Byte - 1) * HLen(req)
    [] req.op = "mgf1"   -> ValuesOf[Octets] * HLen(req)
    [] req.op = "pbkdf2" -> (ValuesOf[Octets] - 1) * HLen(req)

(* FIPS 198-1 needs the hash's block, and room in it for a digest, which   *)
(* takes the place of a longer key.  MGF1 has no key.                      *)
Blocked(req) == req.given # None \/ req.hash \in DOMAIN BlockSizes

Served(req) ==
  /\ req.op # "mgf1" => HLen(req) <= MacOf(req).block
  /\ req.op = "pbkdf2" => req.iterations >= 1
  /\ req.op \in {"expand", "mgf1", "pbkdf2"} => req.length \in 1 .. Longest(req)
  /\ ~ShapeRefused(req)

Answer(req) ==
  IF req.op # "mgf1" /\ ~Blocked(req) THEN [kind |-> "LookupError"]
  ELSE IF ~Served(req) THEN [kind |-> "ValueError"]
  ELSE [kind |-> "bytes", rows |-> [r \in 1 .. BatchOf(req) |-> RowBytes(req, r)]]

Idle    == [op |-> "none"]
Nothing == [kind |-> "none"]
==============================================================================
