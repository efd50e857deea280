----------------------------- MODULE MCAdapters -----------------------------
(* Model values for Adapters: see MCAdapters.cfg.                          *)
EXTENDS Adapters

(* Four hashes: one with a profile, one with a block size and no profile,  *)
(* one asked for a digest wider than its block size, one with no block     *)
(* size.  The profile's digest is one byte: a wider one's terms double at  *)
(* every hash of the chain.                                                *)
MCDigestSize == [Sha256 |-> 1, Sha224 |-> 2, Shake256 |-> 5, Ascon |-> 2]
MCBlockSizes == [Sha256 |-> 4, Sha224 |-> 4, Shake256 |-> 4]

Call(op, hash, given, key, text, iterations, length) ==
  [op |-> op, hash |-> hash, given |-> given, key |-> key, text |-> text,
   iterations |-> iterations, length |-> length]

(* Keys empty, as long as a block, and longer; alone, one per row, and one *)
(* per row of another batch; every block size, right, wrong and refused.   *)
Shapes == {<<1, 0>>, <<1, 4>>, <<1, 5>>, <<2, 0>>, <<2, 3>>, <<2, 5>>}
Givens == {None, 1, 4, 8}

MCRequests ==
  {Call("mac", h, g, k, x, 0, 0) :
     h \in Hashes, g \in Givens, k \in Shapes, x \in {<<1, 0>>, <<1, 3>>, <<2, 1>>, <<3, 1>>}}
  \cup {Call("extract", h, g, k, x, 0, 0) :
     h \in Hashes, g \in {None, 8}, k \in Shapes \cup {Absent}, x \in {<<1, 2>>, <<2, 2>>}}
  \cup {Call("expand", h, g, k, x, 0, l) :
     h \in Hashes, g \in {None, 8}, k \in {<<1, 2>>, <<2, 2>>},
     x \in {Absent, <<1, 0>>, <<1, 1>>, <<2, 1>>, <<3, 1>>}, l \in 0 .. 5}
  \cup {Call("mgf1", h, None, Absent, x, 0, l) :
     h \in Hashes, x \in {<<1, 0>>, <<1, 3>>, <<2, 1>>}, l \in {0, 1, 3, 9, 10, 18, 19}}
  \cup {Call("pbkdf2", "Sha256", g, k, x, c, l) :
     g \in Givens, k \in Shapes, x \in {<<1, 1>>, <<2, 0>>, <<3, 1>>}, c \in 0 .. 3, l \in {1, 2}}
  \cup {Call("pbkdf2", h, g, k, <<1, 1>>, c, 3) :
     h \in {"Sha224", "Shake256", "Ascon"}, g \in Givens, k \in {<<1, 5>>, <<2, 3>>}, c \in {1, 2}}
  \cup {Call("pbkdf2", h, g, <<1, 2>>, <<1, 1>>, 1, l) :
     h \in Hashes, g \in {None, 4}, l \in {0, 8, 9, 16, 17}}
=============================================================================
