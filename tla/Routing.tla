------------------------------ MODULE Routing -------------------------------
(***************************************************************************)
(* Which marker a call puts on the wire, and which cached trace serves it. *)
(*                                                                         *)
(* A permutation or a row reads the process's default backend when it is   *)
(* built, picks a marker from it, and keeps that choice for life.  The jit *)
(* zones below it (keccak/permutation.py _permute_body, keccak/sponge.py   *)
(* _fused_hash, sponge.py _hash_body) keep one trace per static key, and   *)
(* the key is whatever __eq__ and __hash__ say.  Backends switch while     *)
(* instances live, so two instances over the same parameters may have      *)
(* chosen differently: the zones must not serve one the other's trace, and *)
(* must not trace twice for two instances that are equal.                  *)
(*                                                                         *)
(* What a region computes is the same under every marker, so a region is   *)
(* here the marker it is emitted under, the attributes that ride on it and *)
(* the marker of the permutes inside it.                                   *)
(***************************************************************************)
EXTENDS Naturals, Sequences, FiniteSets

CONSTANTS
  Backends,     \* what frx.default_backend() may answer
  Arms,         \* Arms[f]: family f's _EMITTER_BACKENDS
  Available,    \* Available[f]: its _DEDICATED_EMITTER_AVAILABLE
  Params,       \* Params[f]: the parameter sets it is built over
  Readable,     \* Readable[f]: those its emitter's attributes can carry
  Chainings,    \* the SpongeChaining members
  MaxBuilt      \* bound: instances and rows built in one behaviour

\* The permutations; a row reads Keccak's or a digest family's own gate.
PermutationFamilies == DOMAIN Params
DigestFamilies == DOMAIN Arms \ PermutationFamilies

ASSUME RoutingAssumption ==
  /\ "keccak" \in PermutationFamilies
  /\ PermutationFamilies \subseteq DOMAIN Arms
  /\ DOMAIN Available = DOMAIN Arms
  /\ Readable \in [PermutationFamilies -> SUBSET UNION {Params[f] : f \in PermutationFamilies}]
  /\ "zorch.fused_region" \notin DOMAIN Arms
  /\ Params["keccak"] # {}
  /\ "digest" \notin Chainings   \* the other zones have names of their own
  /\ MaxBuilt \in Nat

VARIABLES
  backend,  \* frx.default_backend()
  built,    \* the permutations and rows built so far
  frozen,   \* keccak/streaming.py's module-level permutation, once imported
  traces,   \* the jit zones' caches: static key -> region traced
  last      \* the last call: who made it and the region it emitted

vars == <<backend, built, frozen, traces, last>>

-----------------------------------------------------------------------------
(* fusion.py *)

Generic == "zorch.fused_region"

\* routing(available, backends), asked at construction.
Routes(f, b) == Available[f] /\ b \in Arms[f]

\* As PermuteMarker, every name carrying the family's version.
VersionAlways(name) == <<name, 1>>

\* permute_marker: a generic region carries no version.
PermuteMarker(name) == IF name = Generic THEN <<Generic, 0>> ELSE <<name, 1>>

\* FusionPath.from_routing and from_marker
PathOf(routed) == IF routed THEN "DEDICATED" ELSE "GENERIC"

\* As SelectName, asking about the backend alone.
SelectByBackend(f, p, b) == IF Routes(f, b) THEN f ELSE Generic

\* _select_fused_region_name: the backend carries the emitter and the
\* emitter's attributes can carry these parameters.
SelectName(f, p, b) ==
  IF Routes(f, b) /\ p \in Readable[f] THEN f ELSE Generic

\* One permutation, as __init__ leaves it.
Permutation(f, p, b) ==
  [kind   |-> "permutation", family |-> f, params |-> p,
   marker |-> PermuteMarker(SelectName(f, p, b)),
   path   |-> PathOf(SelectName(f, p, b) # Generic)]

Keccak(b) == Permutation("keccak", CHOOSE p \in Params["keccak"] : TRUE, b)

\* A row: a Keccak one takes the path of a permutation it builds and drops, a
\* digest family's one that of its own gate.
Row(f, b) ==
  [kind |-> "row", family |-> f,
   path |-> IF f = "keccak" THEN Keccak(b).path ELSE PathOf(Routes(f, b))]

-----------------------------------------------------------------------------
(* The jit zones *)

OneKernel(perm) == perm.path = "DEDICATED"

\* The value two instances are compared on: parameters and marker, within one
\* type.
ValueOf(perm) == <<perm.family, perm.params, perm.marker>>

\* As Key, with equality over the parameters alone, and by identity.
KeyOfParams(i) == <<built[i].family, built[i].params>>
KeyByIdentity(i) == <<built[i].family, built[i].params, built[i].marker, i>>

\* __eq__ and __hash__ of the i-th object, which zones take as the static key.
Key(i) == ValueOf(built[i])

\* _permute_body: one marked region, with attributes under a dedicated marker.
PermuteRegion(perm) ==
  [of |-> ValueOf(perm), name |-> perm.marker, attrs |-> OneKernel(perm)]

\* A whole-hash region; the permutes inside it carry no marker of their own.
WholeRegion(perm, name) ==
  [of |-> ValueOf(perm), name |-> <<name, 1>>, attrs |-> TRUE]

\* A call into a zone is served the trace an equal key has, else what it
\* traces now, which the zone keeps.
Served(key, region) == IF key \in DOMAIN traces THEN traces[key] ELSE region

Keeping(keys, region) ==
  [k \in DOMAIN traces \cup keys |-> IF k \in DOMAIN traces THEN traces[k] ELSE region]

Call(who, key, region) ==
  /\ traces' = Keeping({key}, region)
  /\ last' = [by |-> who, on |-> backend, region |-> Served(key, region)]

-----------------------------------------------------------------------------
NotImported == [kind |-> "none"]
NoCall == [kind |-> "none"]

Init ==
  /\ backend \in Backends
  /\ built = <<>>
  /\ frozen = NotImported
  /\ traces = <<>>
  /\ last = NoCall

\* The process changes its default backend.
SwitchBackend(b) ==
  /\ b # backend
  /\ backend' = b
  /\ UNCHANGED <<built, frozen, traces, last>>

\* import hash_frx.keccak.streaming: _PERMUTE = KeccakF1600().permute
ImportStreaming ==
  /\ frozen = NotImported
  /\ frozen' = [Keccak(backend) EXCEPT !.kind = "stream"]
  /\ UNCHANGED <<backend, built, traces, last>>

BuildPermutation(f, p) ==
  /\ Len(built) < MaxBuilt
  /\ built' = Append(built, Permutation(f, p, backend))
  /\ UNCHANGED <<backend, frozen, traces, last>>

BuildRow(f) ==
  /\ Len(built) < MaxBuilt
  /\ built' = Append(built, Row(f, backend))
  /\ UNCHANGED <<backend, frozen, traces, last>>

IsPermutation(i) == built[i].kind = "permutation"

Permute(i) ==
  /\ IsPermutation(i)
  /\ Call(built[i], <<"permute", Key(i)>>, PermuteRegion(built[i]))
  /\ UNCHANGED <<backend, built, frozen>>

\* Sponge(perm, params).hash(input, chaining) on a nonempty input, where the
\* permutation is one kernel: the whole hash is one region.
FusedSpongeHash(i, c) ==
  /\ IsPermutation(i)
  /\ OneKernel(built[i])
  /\ Call(built[i], <<c, Key(i)>>, WholeRegion(built[i], "field_sponge"))
  /\ UNCHANGED <<backend, built, frozen>>

\* The same where it is not: tracing the loop calls into the permute zone.
GenericSpongeHash(i, c) ==
  LET whole == <<c, Key(i)>>
      block == <<"permute", Key(i)>>
      body  == Served(block, PermuteRegion(built[i]))
  IN  /\ IsPermutation(i)
      /\ ~OneKernel(built[i])
      /\ traces' = IF whole \in DOMAIN traces THEN traces
                   ELSE Keeping({whole, block}, body)
      /\ last' = [by |-> built[i], on |-> backend, region |-> Served(whole, body)]
      /\ UNCHANGED <<backend, built, frozen>>

\* A Keccak row's digest.  KeccakSponge.hash builds a permutation of its own
\* per call and takes that one's path.
KeccakDigest(i) ==
  LET perm == Keccak(backend)
  IN  /\ built[i].kind = "row"
      /\ built[i].family = "keccak"
      /\ IF OneKernel(perm)
         THEN Call(built[i], <<"keccak_sponge", ValueOf(perm)>>,
                   WholeRegion(perm, "keccak_sponge"))
         ELSE Call(built[i], <<"permute", ValueOf(perm)>>, PermuteRegion(perm))
      /\ UNCHANGED <<backend, built, frozen>>

\* A digest family's row: one marker whatever the backend, one trace per
\* operand shape.
FamilyDigest(i) ==
  LET f == built[i].family
  IN  /\ built[i].kind = "row"
      /\ f # "keccak"
      /\ Call(built[i], <<"digest", f>>,
              [of |-> <<f>>, name |-> <<"digest", 1>>, attrs |-> TRUE])
      /\ UNCHANGED <<backend, built, frozen>>

\* One absorbed block of the streaming face.
StreamBlock ==
  /\ frozen # NotImported
  /\ Call(frozen, <<"permute", ValueOf(frozen)>>, PermuteRegion(frozen))
  /\ UNCHANGED <<backend, built, frozen>>

Next ==
  \/ \E b \in Backends : SwitchBackend(b)
  \/ ImportStreaming
  \/ \E f \in PermutationFamilies : \E p \in Params[f] : BuildPermutation(f, p)
  \/ \E f \in {"keccak"} \cup DigestFamilies : BuildRow(f)
  \/ \E i \in DOMAIN built :
       \/ Permute(i)
       \/ \E c \in Chainings : FusedSpongeHash(i, c)
       \/ \E c \in Chainings : GenericSpongeHash(i, c)
       \/ KeccakDigest(i)
       \/ FamilyDigest(i)
  \/ StreamBlock

Spec == Init /\ [][Next]_vars

-----------------------------------------------------------------------------
(* Properties *)

Markers == {<<f, 1>> : f \in PermutationFamilies} \cup {<<Generic, 0>>}
Values ==
  {<<f, p, m>> : f \in PermutationFamilies, p \in UNION {Params[g] : g \in PermutationFamilies},
                 m \in Markers}
Paths == {"DEDICATED", "GENERIC"}
Instances ==
  [kind : {"permutation", "stream"}, family : PermutationFamilies,
   params : UNION {Params[f] : f \in PermutationFamilies}, marker : Markers, path : Paths]
Rows == [kind : {"row"}, family : {"keccak"} \cup DigestFamilies, path : Paths]
Regions ==
  [of : Values \cup {<<f>> : f \in DigestFamilies},
   name : Markers \cup {<<n, 1>> : n \in {"field_sponge", "keccak_sponge", "digest"}},
   attrs : BOOLEAN]

\* The state has its declared shape; a generic region carries no version.
TypeOK ==
  /\ backend \in Backends
  /\ built \in Seq(Instances \cup Rows)
  /\ frozen \in Instances \cup {NotImported}
  /\ \A k \in DOMAIN traces : traces[k] \in Regions
  /\ last = NoCall \/ last.region \in Regions

\* A permutation's call is served a region traced for its own parameters and
\* its own marker, and one the backend it was built for can take whole exactly
\* when its fusion_path says so: no instance reuses the trace of one built
\* over the same parameters before a backend switch (keccak/permutation.py
\* __eq__ and the four copies of it, sponge.py __eq__).
OwnRegion ==
  last # NoCall /\ last.by.kind \in {"permutation", "stream"} =>
    /\ last.region.of = ValueOf(last.by)
    /\ last.region.attrs <=> last.by.path = "DEDICATED"
    /\ ~last.region.attrs => last.region.name = <<Generic, 0>>

\* No trace under a dedicated permutation marker holds parameters its emitter
\* cannot read or belongs to a family no plugin carries: such a module fails
\* to compile (poseidon.py, sparse.py and poseidon2.py
\* _select_fused_region_name, vision.py).
OnlyReadable ==
  \A k \in DOMAIN traces :
    LET r == traces[k]
    IN  r.attrs /\ r.of[1] \in PermutationFamilies =>
          /\ Available[r.of[1]]
          /\ r.of[2] \in Readable[r.of[1]]

\* Instances that are equal share a trace: a zone never traces the same
\* parameters under the same marker twice, however many instances are built
\* and however often the backend switches back (permutation.py's contract).
TraceOnce ==
  \A k, l \in DOMAIN traces :
    k[1] = l[1] /\ traces[k].of = traces[l].of => k = l

-----------------------------------------------------------------------------
(* What the sources say of the routing, and the code does otherwise *)

\* keccak/byte_hashes.py says a Keccak row's path cannot disagree with the
\* routing KeccakSponge.hash takes: a digest is one kernel exactly when the
\* row that ran it says so.
RowPathIsTheRouting ==
  last # NoCall /\ last.by.kind = "row" /\ last.by.family = "keccak" =>
    (last.region.attrs <=> last.by.path = "DEDICATED")

\* fusion.py says the routing is asked per construction and never at import,
\* so that a hash built after a backend switch routes to that backend.  A
\* block the streaming face absorbs rides the marker a permutation built now
\* would carry.
StreamRoutesLikeOneShot ==
  last # NoCall /\ last.by.kind = "stream" =>
    last.region.name = Keccak(last.on).marker

=============================================================================
