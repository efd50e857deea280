----------------------------- MODULE MCHashRows -----------------------------
(* Model values for HashRows: see MCHashRows.cfg.                          *)
EXTENDS HashRows

(* Small rows of every kind.  Keys, salts and customizations come empty,   *)
(* in pairs that differ only by a trailing zero, long enough to need a     *)
(* second length digit, and too long to be accepted; output lengths are    *)
(* refused, small, and two digits of bits.                                 *)
MCKmacName      == <<1>>
MCTupleHashName == <<2>>
MCBlake3Iv      == <<3, 1>>

Outs == {0, 1, 4}

MCRows ==
  {[Blank EXCEPT !.fn = fn, !.rate = 5, !.out = 2] : fn \in {"SHA3", "Keccak256"}}
  \cup {[Blank EXCEPT !.fn = "SHAKE", !.rate = r, !.out = 1] : r \in {5, 6}}
  \cup {[Blank EXCEPT !.fn = "cSHAKE", !.rate = 5, !.out = 1, !.name = n, !.cust = c]
          : n \in {<<>>, <<3>>}, c \in {<<>>, <<0>>, <<5, 0, 0, 1>>}}
  \cup {[Blank EXCEPT !.fn = "KMAC", !.rate = 6, !.out = o, !.key = k, !.xof = x]
          : o \in Outs, k \in {<<>>, <<7>>, <<7, 0>>}, x \in BOOLEAN}
  \cup {[Blank EXCEPT !.fn = "KMAC", !.rate = 5, !.out = 1, !.key = k, !.cust = c]
          : k \in {<<7>>, <<0, 7, 0, 0>>}, c \in {<<>>, <<5>>}}
  \cup {[Blank EXCEPT !.fn = "TupleHash", !.rate = 6, !.out = o, !.cust = c, !.xof = x]
          : o \in {1, 4}, c \in {<<>>, <<5>>}, x \in BOOLEAN}
  \cup {[Blank EXCEPT !.fn = fn, !.out = 2] : fn \in {"AsconHash256", "AsconXof128"}}
  \cup {[Blank EXCEPT !.fn = "AsconCxof128", !.out = 2, !.cust = c]
          : c \in {<<>>, <<5>>, <<5, 0>>, <<1, 0, 0, 5>>, <<5, 0, 0, 0, 5>>}}
  \cup {[Blank EXCEPT !.fn = "Blake2", !.rate = 16, !.out = o, !.salt = s]
          : o \in {1, 8, 9}, s \in {<<>>, <<5>>, <<5, 6, 7>>}}
  \cup {[Blank EXCEPT !.fn = "Blake2Keyed", !.rate = 16, !.out = 8, !.key = k, !.person = p]
          : k \in {<<>>, <<7>>, <<7, 0>>, <<8, 7, 6, 5, 4, 3, 2, 1, 0>>}, p \in {<<>>, <<5>>}}
  \cup {[Blank EXCEPT !.fn = "Blake2Keyed", !.rate = 32, !.out = 8, !.key = <<7>>]}
  \cup {[Blank EXCEPT !.fn = fn, !.rate = 4, !.out = 2]
          : fn \in {"Blake3", "Blake3NonRoot", "Blake3Parent"}}
  \cup {[Blank EXCEPT !.fn = "Blake3NonRoot", !.rate = 4, !.out = 1]}
  \cup {[Blank EXCEPT !.fn = "Blake3Keyed", !.rate = 4, !.out = o, !.key = k]
          : o \in {1, 2}, k \in {<<7>>, <<7, 0>>, MCBlake3Iv}}
  \cup {[Blank EXCEPT !.fn = "Blake3DeriveKey", !.rate = 4, !.out = 2, !.cust = c]
          : c \in {<<>>, <<0>>, <<7, 0>>}}

MCStrings ==
  { << <<>> >>, << <<0>> >>, << <<1, 0>> >>, <<>>, << <<1>>, <<0>> >>, << <<>>, <<1, 0>> >>,
    << <<5, 4, 3, 2>> >> }
=============================================================================
