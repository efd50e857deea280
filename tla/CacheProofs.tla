----------------------------- MODULE CacheProofs -----------------------------
(***************************************************************************)
(* What the process-wide caches of traces cannot confuse.                  *)
(*                                                                         *)
(* The routing's invariants, for every set of families, backends and       *)
(* parameters and any number of instances, rest on one fact: the entry     *)
(* under a key is a region of the very value the key holds, and what a     *)
(* region carries is decided by that value's marker.  It is inductive      *)
(* because equality reads the marker; over the parameters alone it would   *)
(* not be.                                                                 *)
(*                                                                         *)
(* The rows', for every set of rows and strings, rest on its counterpart:  *)
(* the entry under a key is a part of some call with that key, and calls   *)
(* with one key agree on all that a trace fixes.                           *)
(*                                                                         *)
(* And what a row absorbs is read back: the reader beside each encoding    *)
(* undoes it, and the initial state, the domain byte or the parameter block*)
(* says which family framed the bytes.  Of the caches this takes only that *)
(* a call absorbs its own.                                                 *)
(***************************************************************************)
EXTENDS Routing, HashRows, FiniteSetTheorems, SequenceTheorems, TLAPS, Arithmetic

GenericMarker == <<Generic, 0>>

(* An instance's path and marker say the same, and a dedicated marker is   *)
(* only over parameters its emitter reads.                                 *)
Consistent(o) ==
  o.kind \in {"permutation", "stream"} =>
    /\ o.path = "DEDICATED" <=> o.marker # GenericMarker
    /\ o.path = "DEDICATED" =>
         Available[o.family] /\ o.params \in Readable[o.family]

ObjectsConsistent ==
  /\ \A i \in DOMAIN built : Consistent(built[i])
  /\ Consistent(frozen)

(* What a region of the permutation value v carries.                       *)
RegionOf(v, r) ==
  /\ r.of = v
  /\ r.attrs <=> v[3] # GenericMarker
  /\ ~r.attrs => r.name = GenericMarker
  /\ r.attrs => Available[v[1]] /\ v[2] \in Readable[v[1]]

DigestRegion(f, r) == f \in DigestFamilies /\ r.of = <<f>>

Sound(k, r) ==
  /\ k = <<k[1], k[2]>>
  /\ IF k[1] = "digest" THEN DigestRegion(k[2], r) ELSE RegionOf(k[2], r)

TracesSound == \A k \in DOMAIN traces : Sound(k, traces[k])

IInv ==
  /\ TypeOK
  /\ ObjectsConsistent
  /\ TracesSound
  /\ OwnRegion

----------------------------------------------------------------------------
(* What construction leaves.                                               *)

(* A permutation takes a marker its path and family allow.                 *)
LEMMA MarkerChoice ==
  ASSUME NEW f \in PermutationFamilies, NEW p \in Params[f], NEW b
  PROVE  LET perm == Permutation(f, p, b)
         IN  /\ perm \in Instances
             /\ perm.kind = "permutation"
             /\ Consistent(perm)
             /\ Consistent([perm EXCEPT !.kind = "stream"])
             /\ [perm EXCEPT !.kind = "stream"] \in Instances
<1> DEFINE name == SelectName(f, p, b)
           perm == Permutation(f, p, b)
<1>1. f # Generic
  BY RoutingAssumption DEF Generic
<1>2. CASE Routes(f, b) /\ p \in Readable[f]
  <2>1. name = f
    BY <1>2 DEF SelectName
  <2>2. perm = [kind |-> "permutation", family |-> f, params |-> p,
                marker |-> <<f, 1>>, path |-> "DEDICATED"]
    BY <1>1, <2>1 DEF Permutation, PermuteMarker, PathOf
  <2>3. <<f, 1>> \in Markers /\ <<f, 1>> # GenericMarker
    BY DEF Markers, GenericMarker
  <2>4. Available[f] /\ p \in Readable[f]
    BY <1>2 DEF Routes
  <2> QED
    BY <2>2, <2>3, <2>4 DEF Instances, Paths, Consistent
<1>3. CASE ~(Routes(f, b) /\ p \in Readable[f])
  <2>1. name = Generic
    BY <1>3 DEF SelectName
  <2>2. perm = [kind |-> "permutation", family |-> f, params |-> p,
                marker |-> GenericMarker, path |-> "GENERIC"]
    BY <2>1 DEF Permutation, PermuteMarker, PathOf, GenericMarker
  <2>3. GenericMarker \in Markers
    BY DEF Markers, GenericMarker
  <2> QED
    BY <2>2, <2>3 DEF Instances, Paths, Consistent
<1> QED
  BY <1>2, <1>3

(* The permutation of the Keccak rows is one of them.                      *)
LEMMA KeccakChoice ==
  ASSUME NEW b
  PROVE  /\ Keccak(b) \in Instances
         /\ Keccak(b).kind = "permutation"
         /\ Consistent(Keccak(b))
         /\ Consistent([Keccak(b) EXCEPT !.kind = "stream"])
         /\ [Keccak(b) EXCEPT !.kind = "stream"] \in Instances
<1>1. /\ "keccak" \in PermutationFamilies
      /\ (CHOOSE p \in Params["keccak"] : TRUE) \in Params["keccak"]
  BY RoutingAssumption
<1> QED
  BY <1>1, MarkerChoice DEF Keccak

(* A row takes its path from its family and its backend.                   *)
LEMMA RowChoice ==
  ASSUME NEW f \in {"keccak"} \cup DigestFamilies, NEW b
  PROVE  Row(f, b) \in Rows /\ Consistent(Row(f, b))
<1>1. Keccak(b).path \in Paths /\ PathOf(Routes(f, b)) \in Paths
  BY KeccakChoice DEF Instances, PathOf, Paths
<1> QED
  BY <1>1 DEF Row, Rows, Consistent

----------------------------------------------------------------------------
(* What the zones keep and serve.                                          *)

(* What equality compares of an instance.                                  *)
LEMMA ValueTyped ==
  ASSUME NEW perm \in Instances
  PROVE  /\ ValueOf(perm) \in Values
         /\ ValueOf(perm)[1] = perm.family
         /\ ValueOf(perm)[2] = perm.params
         /\ ValueOf(perm)[3] = perm.marker
  BY DEF Instances, Values, ValueOf

(* The region a permutation emits is its own,                              *)
LEMMA PermuteRegionSound ==
  ASSUME NEW perm \in Instances, Consistent(perm)
  PROVE  /\ PermuteRegion(perm) \in Regions
         /\ RegionOf(ValueOf(perm), PermuteRegion(perm))
         /\ Sound(<<"permute", ValueOf(perm)>>, PermuteRegion(perm))
<1>1. PermuteRegion(perm) = [of |-> ValueOf(perm), name |-> perm.marker,
                             attrs |-> perm.path = "DEDICATED"]
  BY DEF PermuteRegion, OneKernel
<1>2. perm.kind \in {"permutation", "stream"} /\ perm.marker \in Markers
  BY DEF Instances
<1>3. PermuteRegion(perm) \in Regions
  BY <1>1, <1>2, ValueTyped DEF Regions
<1> DEFINE r == PermuteRegion(perm)
<1>4. r.of = ValueOf(perm) /\ r.name = perm.marker /\ (r.attrs <=> perm.path = "DEDICATED")
  <2>1. CASE perm.path = "DEDICATED"
    <3>1. r = [of |-> ValueOf(perm), name |-> perm.marker, attrs |-> TRUE]
      BY <1>1, <2>1
    <3> QED
      BY <2>1, <3>1
  <2>2. CASE perm.path # "DEDICATED"
    <3>1. r = [of |-> ValueOf(perm), name |-> perm.marker, attrs |-> FALSE]
      BY <1>1, <2>2
    <3> QED
      BY <2>2, <3>1
  <2> QED
    BY <2>1, <2>2
<1>5. /\ perm.path = "DEDICATED" <=> perm.marker # GenericMarker
      /\ perm.path = "DEDICATED" =>
           Available[perm.family] /\ perm.params \in Readable[perm.family]
  BY <1>2 DEF Consistent
<1> HIDE DEF r
<1>6. RegionOf(ValueOf(perm), r)
  BY <1>4, <1>5, ValueTyped, Zenon DEF RegionOf
<1> QED
  BY <1>3, <1>6 DEF Sound, r

(* and so is a whole hash over one.                                        *)
LEMMA WholeRegionSound ==
  ASSUME NEW perm \in Instances, Consistent(perm), OneKernel(perm),
         NEW name \in {"field_sponge", "keccak_sponge"}, NEW zone, zone # "digest"
  PROVE  /\ WholeRegion(perm, name) \in Regions
         /\ Sound(<<zone, ValueOf(perm)>>, WholeRegion(perm, name))
<1>1. WholeRegion(perm, name) =
        [of |-> ValueOf(perm), name |-> <<name, 1>>, attrs |-> TRUE]
  BY DEF WholeRegion
<1>2. perm.kind \in {"permutation", "stream"} /\ perm.path = "DEDICATED"
  BY DEF Instances, OneKernel
<1>3. <<name, 1>> \in {<<n, 1>> : n \in {"field_sponge", "keccak_sponge", "digest"}}
  OBVIOUS
<1>4. WholeRegion(perm, name) \in Regions
  BY <1>1, <1>3, ValueTyped DEF Regions
<1>5. RegionOf(ValueOf(perm), WholeRegion(perm, name))
  BY <1>1, <1>2, ValueTyped DEF RegionOf, Consistent
<1> QED
  BY <1>4, <1>5 DEF Sound

(* A region served from the cache is as sound as the one traced,           *)
LEMMA ServedSound ==
  ASSUME TypeOK, TracesSound, NEW key, NEW region \in Regions, Sound(key, region)
  PROVE  Served(key, region) \in Regions /\ Sound(key, Served(key, region))
  BY DEF Served, TypeOK, TracesSound

(* and keeping one leaves every trace sound.                               *)
LEMMA KeepingSound ==
  ASSUME TypeOK, TracesSound, NEW keys, NEW region \in Regions,
         \A k \in keys : Sound(k, region),
         traces' = Keeping(keys, region)
  PROVE  TracesSound' /\ \A k \in DOMAIN traces' : traces'[k] \in Regions
<1>1. ASSUME NEW k \in DOMAIN traces'
      PROVE  traces'[k] \in Regions /\ Sound(k, traces'[k])
  <2>1. k \in DOMAIN traces \cup keys
        /\ traces'[k] = IF k \in DOMAIN traces THEN traces[k] ELSE region
    BY <1>1 DEF Keeping
  <2> QED
    BY <2>1 DEF TypeOK, TracesSound
<1> QED
  BY <1>1 DEF TracesSound, Sound, RegionOf, DigestRegion

(* An instance served a sound region under its own value is served its own.*)
LEMMA ServedOwn ==
  ASSUME NEW perm \in Instances, Consistent(perm),
         last'.by = perm, RegionOf(ValueOf(perm), last'.region)
  PROVE  OwnRegion'
<1>1. perm.kind \in {"permutation", "stream"}
  BY DEF Instances
<1>2. last'.region.attrs <=> perm.path = "DEDICATED"
  BY <1>1, ValueTyped DEF RegionOf, Consistent
<1> QED
  BY <1>2 DEF OwnRegion, RegionOf, GenericMarker

(* One call of an instance into one zone.                                  *)
LEMMA InstanceCall ==
  ASSUME IInv, NEW perm \in Instances, Consistent(perm), NEW zone, zone # "digest",
         NEW region \in Regions, Sound(<<zone, ValueOf(perm)>>, region),
         Call(perm, <<zone, ValueOf(perm)>>, region),
         UNCHANGED <<backend, built, frozen>>
  PROVE  IInv'
<1> DEFINE key == <<zone, ValueOf(perm)>>
<1>1. Served(key, region) \in Regions /\ Sound(key, Served(key, region))
  BY ServedSound DEF IInv
<1>2. TracesSound' /\ \A k \in DOMAIN traces' : traces'[k] \in Regions
  BY KeepingSound DEF IInv, Call
<1>3. last'.by = perm /\ last'.region = Served(key, region)
  BY DEF Call
<1>4. TypeOK'
  BY <1>1, <1>2, <1>3 DEF IInv, TypeOK
<1>5. ObjectsConsistent'
  BY DEF IInv, ObjectsConsistent, Consistent
<1>6. OwnRegion'
  BY <1>1, <1>3, ServedOwn DEF Sound
<1> QED
  BY <1>2, <1>4, <1>5, <1>6 DEF IInv

(* What was built is of its kind and agrees with its backend.              *)
LEMMA BuiltTyped ==
  ASSUME IInv, NEW i \in DOMAIN built
  PROVE  /\ built[i] \in Instances \cup Rows
         /\ Consistent(built[i])
         /\ IsPermutation(i) => built[i] \in Instances
<1>1. built \in Seq(Instances \cup Rows)
  BY DEF IInv, TypeOK
<1>2. built[i] \in Instances \cup Rows
  BY <1>1, LenProperties, ElementOfSeq
<1>3. built[i] \in Rows => built[i].kind = "row"
  BY DEF Rows
<1> QED
  BY <1>2, <1>3 DEF IInv, ObjectsConsistent, IsPermutation

(* A call that is no permutation's says nothing about OwnRegion.           *)
LEMMA RowCall ==
  ASSUME IInv, NEW who, who.kind = "row", NEW key, NEW region \in Regions,
         Sound(key, region), Call(who, key, region),
         UNCHANGED <<backend, built, frozen>>
  PROVE  IInv'
<1>1. Served(key, region) \in Regions
  BY ServedSound DEF IInv
<1>2. TracesSound' /\ \A k \in DOMAIN traces' : traces'[k] \in Regions
  BY KeepingSound DEF IInv, Call
<1>3. last'.by = who /\ last'.region = Served(key, region)
  BY DEF Call
<1>4. TypeOK'
  BY <1>1, <1>2, <1>3 DEF IInv, TypeOK
<1>5. ObjectsConsistent'
  BY DEF IInv, ObjectsConsistent, Consistent
<1>6. OwnRegion'
  BY <1>3 DEF OwnRegion
<1> QED
  BY <1>2, <1>4, <1>5, <1>6 DEF IInv

(* Building one more object.                                               *)
LEMMA Appended ==
  ASSUME IInv, NEW o \in Instances \cup Rows, Consistent(o),
         built' = Append(built, o), UNCHANGED <<backend, frozen, traces, last>>
  PROVE  IInv'
<1>1. built \in Seq(Instances \cup Rows)
  BY DEF IInv, TypeOK
<1>2. /\ built' \in Seq(Instances \cup Rows)
      /\ Len(built') = Len(built) + 1
      /\ \A i \in 1 .. Len(built) : built'[i] = built[i]
      /\ built'[Len(built) + 1] = o
  BY <1>1, AppendProperties
<1>3. /\ DOMAIN built = 1 .. Len(built) /\ Len(built) \in Nat
      /\ DOMAIN built' = 1 .. Len(built')
  BY <1>1, <1>2, LenProperties
<1>4. ASSUME NEW i \in DOMAIN built'
      PROVE  Consistent(built'[i])
  <2>1. CASE i \in DOMAIN built
    BY <1>2, <1>3, <2>1 DEF IInv, ObjectsConsistent
  <2>2. CASE i = Len(built) + 1
    BY <1>2, <2>2
  <2> QED
    BY <1>2, <1>3, <2>1, <2>2
<1>5. ObjectsConsistent'
  BY <1>4 DEF IInv, ObjectsConsistent, Consistent
<1>6. TypeOK'
  BY <1>2 DEF IInv, TypeOK
<1>7. TracesSound' /\ OwnRegion'
  BY DEF IInv, TracesSound, OwnRegion, Sound, RegionOf, DigestRegion, GenericMarker
<1> QED
  BY <1>5, <1>6, <1>7 DEF IInv

----------------------------------------------------------------------------
(* The invariant holds before the import,                                  *)
LEMMA Initially == Init => IInv
<1> SUFFICES ASSUME Init PROVE IInv
  OBVIOUS
<1>1. built = <<>> /\ built \in Seq(Instances \cup Rows) /\ DOMAIN built = {}
  BY EmptySeq DEF Init
<1>2. traces = <<>> /\ DOMAIN traces = {}
  BY DEF Init
<1>3. Consistent(frozen)
  BY DEF Init, NotImported, Consistent
<1> QED
  BY <1>1, <1>2, <1>3 DEF Init, IInv, TypeOK, ObjectsConsistent, TracesSound, OwnRegion

(* after it,                                                               *)
LEMMA ImportStep ==
  ASSUME IInv, ImportStreaming
  PROVE  IInv'
<1>1. frozen' \in Instances /\ Consistent(frozen')
  BY KeccakChoice DEF ImportStreaming
<1>2. UNCHANGED <<backend, built, traces, last>>
  BY DEF ImportStreaming
<1> QED
  BY <1>1, <1>2 DEF IInv, TypeOK, ObjectsConsistent, TracesSound, OwnRegion,
                    Consistent, Sound, RegionOf, DigestRegion, GenericMarker

(* Tracing the loop fills the permute zone first: the whole hash holds     *)
(* whatever region that zone serves.                                       *)
LEMMA GenericStep ==
  ASSUME IInv, NEW i \in DOMAIN built, NEW c \in Chainings, GenericSpongeHash(i, c)
  PROVE  IInv'
<1> DEFINE perm  == built[i]
           value == ValueOf(perm)
           whole == <<c, value>>
           block == <<"permute", value>>
           body  == Served(block, PermuteRegion(perm))
<1>1. perm \in Instances /\ Consistent(perm) /\ Key(i) = value
  BY BuiltTyped DEF GenericSpongeHash, Key
<1>2. PermuteRegion(perm) \in Regions /\ Sound(block, PermuteRegion(perm))
  BY <1>1, PermuteRegionSound
<1>3. body \in Regions /\ Sound(block, body)
  BY <1>2, ServedSound DEF IInv
<1>4. c # "digest"
  BY RoutingAssumption
<1>5. Sound(whole, body)
  BY <1>3, <1>4 DEF Sound
<1>6. Served(whole, body) \in Regions /\ Sound(whole, Served(whole, body))
  BY <1>3, <1>5, ServedSound DEF IInv
<1>7. TracesSound' /\ \A k \in DOMAIN traces' : traces'[k] \in Regions
  <2>1. CASE whole \in DOMAIN traces
    <3>1. traces' = traces
      BY <1>1, <2>1 DEF GenericSpongeHash
    <3> QED
      BY <3>1 DEF IInv, TypeOK, TracesSound, Sound, RegionOf, DigestRegion, GenericMarker
  <2>2. CASE whole \notin DOMAIN traces
    <3>1. traces' = Keeping({whole, block}, body)
      BY <1>1, <2>2 DEF GenericSpongeHash
    <3>2. \A k \in {whole, block} : Sound(k, body)
      BY <1>3, <1>5
    <3> QED
      BY <1>3, <3>1, <3>2, KeepingSound DEF IInv
  <2> QED
    BY <2>1, <2>2
<1>8. /\ last'.by = perm /\ last'.region = Served(whole, body)
      /\ UNCHANGED <<backend, built, frozen>>
  BY <1>1 DEF GenericSpongeHash
<1>9. TypeOK'
  BY <1>6, <1>7, <1>8 DEF IInv, TypeOK
<1>10. ObjectsConsistent'
  BY <1>8 DEF IInv, ObjectsConsistent, Consistent
<1>11. OwnRegion'
  BY <1>1, <1>4, <1>6, <1>8, ServedOwn DEF Sound
<1> QED
  BY <1>7, <1>9, <1>10, <1>11 DEF IInv

(* after a Keccak row's digest,                                            *)
LEMMA KeccakDigestStep ==
  ASSUME IInv, NEW i \in DOMAIN built, KeccakDigest(i)
  PROVE  IInv'
<1> DEFINE perm == Keccak(backend)
<1>1. perm \in Instances /\ Consistent(perm)
  BY KeccakChoice
<1>2. built[i].kind = "row" /\ UNCHANGED <<backend, built, frozen>>
  BY DEF KeccakDigest
<1>3. CASE OneKernel(perm)
  <2>1. Call(built[i], <<"keccak_sponge", ValueOf(perm)>>, WholeRegion(perm, "keccak_sponge"))
    BY <1>3 DEF KeccakDigest
  <2>2. /\ WholeRegion(perm, "keccak_sponge") \in Regions
        /\ Sound(<<"keccak_sponge", ValueOf(perm)>>, WholeRegion(perm, "keccak_sponge"))
    BY <1>1, <1>3, WholeRegionSound
  <2> QED
    BY <1>2, <2>1, <2>2, RowCall
<1>4. CASE ~OneKernel(perm)
  <2>1. Call(built[i], <<"permute", ValueOf(perm)>>, PermuteRegion(perm))
    BY <1>4 DEF KeccakDigest
  <2>2. /\ PermuteRegion(perm) \in Regions
        /\ Sound(<<"permute", ValueOf(perm)>>, PermuteRegion(perm))
    BY <1>1, PermuteRegionSound
  <2> QED
    BY <1>2, <2>1, <2>2, RowCall
<1> QED
  BY <1>3, <1>4

(* after another family's,                                                 *)
LEMMA FamilyDigestStep ==
  ASSUME IInv, NEW i \in DOMAIN built, FamilyDigest(i)
  PROVE  IInv'
<1> DEFINE f == built[i].family
           region == [of |-> <<f>>, name |-> <<"digest", 1>>, attrs |-> TRUE]
<1>1. /\ built[i].kind = "row" /\ f # "keccak"
      /\ Call(built[i], <<"digest", f>>, region)
      /\ UNCHANGED <<backend, built, frozen>>
  BY DEF FamilyDigest
<1>2. f \in DigestFamilies
  <2>1. built[i] \in Instances \cup Rows
    BY BuiltTyped
  <2> QED
    BY <1>1, <2>1 DEF Instances, Rows
<1>3. region \in Regions
  <2>1. <<f>> \in {<<g>> : g \in DigestFamilies}
    BY <1>2
  <2>2. <<"digest", 1>> \in {<<n, 1>> : n \in {"field_sponge", "keccak_sponge", "digest"}}
    OBVIOUS
  <2> QED
    BY <2>1, <2>2 DEF Regions
<1>4. Sound(<<"digest", f>>, region)
  BY <1>2 DEF Sound, DigestRegion
<1> QED
  BY <1>1, <1>3, <1>4, RowCall

(* after a permutation,                                                    *)
LEMMA PermuteStep ==
  ASSUME IInv, NEW i \in DOMAIN built, Permute(i)
  PROVE  IInv'
<1>1. built[i] \in Instances /\ Consistent(built[i]) /\ Key(i) = ValueOf(built[i])
  BY BuiltTyped DEF Permute, Key
<1>2. /\ PermuteRegion(built[i]) \in Regions
      /\ Sound(<<"permute", ValueOf(built[i])>>, PermuteRegion(built[i]))
  BY <1>1, PermuteRegionSound
<1>3. /\ Call(built[i], <<"permute", ValueOf(built[i])>>, PermuteRegion(built[i]))
      /\ UNCHANGED <<backend, built, frozen>>
  BY <1>1 DEF Permute
<1> QED
  BY <1>1, <1>2, <1>3, InstanceCall

(* after a fused sponge,                                                   *)
LEMMA FusedStep ==
  ASSUME IInv, NEW i \in DOMAIN built, NEW c \in Chainings, FusedSpongeHash(i, c)
  PROVE  IInv'
<1>1. built[i] \in Instances /\ Consistent(built[i]) /\ Key(i) = ValueOf(built[i])
  BY BuiltTyped DEF FusedSpongeHash, Key
<1>2. OneKernel(built[i]) /\ c # "digest"
  BY RoutingAssumption DEF FusedSpongeHash
<1>3. /\ WholeRegion(built[i], "field_sponge") \in Regions
      /\ Sound(<<c, ValueOf(built[i])>>, WholeRegion(built[i], "field_sponge"))
  BY <1>1, <1>2, WholeRegionSound
<1>4. /\ Call(built[i], <<c, ValueOf(built[i])>>, WholeRegion(built[i], "field_sponge"))
      /\ UNCHANGED <<backend, built, frozen>>
  BY <1>1 DEF FusedSpongeHash
<1> QED
  BY <1>1, <1>2, <1>3, <1>4, InstanceCall

(* after a step of the incremental hash,                                   *)
LEMMA StreamStep ==
  ASSUME IInv, StreamBlock
  PROVE  IInv'
<1>1. frozen \in Instances /\ Consistent(frozen)
  BY DEF StreamBlock, IInv, TypeOK, ObjectsConsistent
<1>2. /\ PermuteRegion(frozen) \in Regions
      /\ Sound(<<"permute", ValueOf(frozen)>>, PermuteRegion(frozen))
  BY <1>1, PermuteRegionSound
<1>3. /\ Call(frozen, <<"permute", ValueOf(frozen)>>, PermuteRegion(frozen))
      /\ UNCHANGED <<backend, built, frozen>>
  BY DEF StreamBlock
<1> QED
  BY <1>1, <1>2, <1>3, InstanceCall

(* and so after every step,                                                *)
LEMMA NextStep == IInv /\ [Next]_vars => IInv'
<1> SUFFICES ASSUME IInv, [Next]_vars PROVE IInv'
  OBVIOUS
<1>1. ASSUME NEW b \in Backends, SwitchBackend(b) PROVE IInv'
  BY <1>1 DEF SwitchBackend, IInv, TypeOK, ObjectsConsistent, TracesSound, OwnRegion,
              Consistent, Sound, RegionOf, DigestRegion, GenericMarker
<1>2. CASE ImportStreaming
  BY <1>2, ImportStep
<1>3. ASSUME NEW f \in PermutationFamilies, NEW p \in Params[f], BuildPermutation(f, p)
      PROVE  IInv'
  <2>1. Permutation(f, p, backend) \in Instances /\ Consistent(Permutation(f, p, backend))
    BY MarkerChoice
  <2> QED
    BY <1>3, <2>1, Appended DEF BuildPermutation
<1>4. ASSUME NEW f \in {"keccak"} \cup DigestFamilies, BuildRow(f) PROVE IInv'
  <2>1. Row(f, backend) \in Rows /\ Consistent(Row(f, backend))
    BY RowChoice
  <2> QED
    BY <1>4, <2>1, Appended DEF BuildRow
<1>5. ASSUME NEW i \in DOMAIN built,
             \/ Permute(i)
             \/ \E c \in Chainings : FusedSpongeHash(i, c)
             \/ \E c \in Chainings : GenericSpongeHash(i, c)
             \/ KeccakDigest(i)
             \/ FamilyDigest(i)
      PROVE  IInv'
  BY <1>5, PermuteStep, FusedStep, GenericStep, KeccakDigestStep, FamilyDigestStep
<1>6. CASE StreamBlock
  BY <1>6, StreamStep
<1>7. CASE UNCHANGED vars
  BY <1>7 DEF vars, IInv, TypeOK, ObjectsConsistent, TracesSound, OwnRegion,
              Consistent, Sound, RegionOf, DigestRegion, GenericMarker
<1> QED
  BY <1>1, <1>2, <1>3, <1>4, <1>5, <1>6, <1>7 DEF Next

(* and in every behaviour.                                                 *)
LEMMA Inductive == Spec => []IInv
<1>1. Init => IInv
  BY Initially
<1>2. IInv /\ [Next]_vars => IInv'
  BY NextStep
<1> QED
  BY <1>1, <1>2, PTL DEF Spec

----------------------------------------------------------------------------
(* The state has its declared shape, whatever families and parameters the  *)
(* package ships.                                                          *)
THEOREM RoutingTypesHold == Spec => []TypeOK
<1>1. IInv => TypeOK
  BY DEF IInv
<1> QED
  BY <1>1, Inductive, PTL

(* A permutation's call is served a region traced for its own parameters   *)
(* and marker, however many instances were built and however often the     *)
(* backend switched between them (keccak/permutation.py __eq__ and its     *)
(* copies, sponge.py __eq__).                                              *)
THEOREM ServedItsOwnRegion == Spec => []OwnRegion
<1>1. IInv => OwnRegion
  BY DEF IInv
<1> QED
  BY <1>1, Inductive, PTL

(* No cached trace is a dedicated region over parameters its emitter cannot*)
(* read, or of a family no plugin carries (_select_fused_region_name).     *)
THEOREM DedicatedIsReadable == Spec => []OnlyReadable
<1>1. IInv => OnlyReadable
  <2> SUFFICES ASSUME IInv, NEW k \in DOMAIN traces, traces[k].attrs,
                      traces[k].of[1] \in PermutationFamilies
               PROVE  /\ Available[traces[k].of[1]]
                      /\ traces[k].of[2] \in Readable[traces[k].of[1]]
    BY DEF OnlyReadable
  <2>1. Sound(k, traces[k])
    BY DEF IInv, TracesSound
  <2>2. k[1] # "digest"
    BY <2>1 DEF Sound, DigestRegion, DigestFamilies
  <2> QED
    BY <2>1, <2>2 DEF Sound, RegionOf
<1> QED
  BY <1>1, Inductive, PTL

(* Equal instances share one trace in every zone: no zone traces the same  *)
(* parameters under the same marker twice (permutation.py's contract).     *)
THEOREM EqualInstancesShareATrace == Spec => []TraceOnce
<1>1. IInv => TraceOnce
  <2> SUFFICES ASSUME IInv, NEW k \in DOMAIN traces, NEW l \in DOMAIN traces,
                      k[1] = l[1], traces[k].of = traces[l].of
               PROVE  k = l
    BY DEF TraceOnce
  <2>1. Sound(k, traces[k]) /\ Sound(l, traces[l])
    BY DEF IInv, TracesSound
  <2>2. k[2] = l[2]
    BY <2>1 DEF Sound, RegionOf, DigestRegion
  <2> QED
    BY <2>1, <2>2 DEF Sound
<1> QED
  BY <1>1, Inductive, PTL
----------------------------------------------------------------------------
(* Byte strings and their encodings.                                       *)

Strands == Seq(Bytes)

(* A byte has four values or more, and counts of digits have natural ones. *)
LEMMA BaseIs ==
  /\ Bits \in Nat /\ Bits >= 2
  /\ Base \in Nat /\ Base >= 3
  /\ \A n \in Nat : Digits(n) \in Nat \ {0}
<1>1. Bits \in Nat /\ Bits >= 2 /\ Base = PowerOfTwo[Bits]
  BY EncodingAssumption
<1>2. PowerOfTwo[Bits] > Bits /\ PowerOfTwo[Bits] \in Nat
  BY <1>1, PowersGrow, Doubling
<1>3. \A n \in Nat : Bits * n \in Nat
  BY <1>1
<1>. QED
  BY <1>1, <1>2, <1>3, Doubling DEF Digits

(* Zeros are a string.                                                     *)
LEMMA ZerosAre ==
  ASSUME NEW n \in Nat
  PROVE  Zeros(n) \in Strands /\ Len(Zeros(n)) = n
BY BaseIs DEF Zeros, Strands, Bytes

(* A number that fits has a digit count that is one digit.                 *)
LEMMA EncodeLengthIs ==
  ASSUME NEW x, Encodable(x)
  PROVE  /\ EncodeLength(x) \in 1 .. Base - 1 /\ EncodeLength(x) \in Nat \ {0}
         /\ x < Digits(EncodeLength(x))
<1>. DEFINE T    == {n \in Nat : n >= 1 /\ Digits(n) > x}
            P(n) == Digits(n) > x /\ \A m \in 1 .. n - 1 : Digits(m) <= x
<1>1. PICK k \in 1 .. Base - 1 : Digits(k) > x
  BY DEF Encodable
<1>2. x \in Nat /\ Base \in Nat /\ \A n \in Nat : Digits(n) \in Nat
  BY BaseIs DEF Encodable
<1>3. T \in SUBSET Nat /\ k \in T
  BY <1>1, <1>2
<1>4. PICK n \in T : \A m \in T : n <= m
  <2>. HIDE DEF T
  <2>. QED
    BY <1>3, LeastElement
<1>5. n \in 1 .. Base - 1
  BY <1>1, <1>2, <1>3, <1>4
<1>6. P(n)
  BY <1>2, <1>4
<1>. HIDE DEF P
<1>7. EncodeLength(x) \in 1 .. Base - 1 /\ P(EncodeLength(x))
  <2>1. EncodeLength(x) = CHOOSE m \in 1 .. Base - 1 : P(m)
    BY DEF EncodeLength, P
  <2>. QED
    BY <1>5, <1>6, <2>1
<1>8. EncodeLength(x) \in Nat \ {0}
  BY <1>2, <1>7
<1>. QED
  BY <1>2, <1>7, <1>8 DEF P

(* The digits of a number, from either end, are a string.                  *)
LEMMA BigEndianIs ==
  ASSUME NEW x \in Nat, NEW n \in Nat
  PROVE  BigEndian(x, n) \in Strands /\ Len(BigEndian(x, n)) = n
<1>1. ASSUME NEW i \in 1 .. n
      PROVE  (x \div Digits(n - i)) % Base \in Bytes
  <2>1. Digits(n - i) \in Nat \ {0} /\ Base \in Nat \ {0}
    BY BaseIs
  <2>2. x \div Digits(n - i) \in Nat
    BY <2>1, DivModNat
  <2>. QED
    BY <2>1, <2>2, DivModNat DEF Bytes
<1>. QED
  BY <1>1 DEF BigEndian, Strands

(* The same digits the other way round.                                    *)
LEMMA LittleEndianIs ==
  ASSUME NEW x \in Nat, NEW n \in Nat
  PROVE  LittleEndian(x, n) \in Strands /\ Len(LittleEndian(x, n)) = n
<1>1. BigEndian(x, n) \in Strands /\ Len(BigEndian(x, n)) = n
  BY BigEndianIs
<1>. QED
  BY <1>1 DEF LittleEndian, Reverse, Strands

(* Strings are closed under concatenation.                                 *)
LEMMA Strung ==
  ASSUME NEW x \in Strands, NEW y \in Strands
  PROVE  x \o y \in Strands /\ Len(x \o y) = Len(x) + Len(y) /\ Len(x) \in Nat /\ Len(y) \in Nat
BY ConcatElements DEF Strands

(* An encoded length is a string, from either end,                         *)
LEMMA LeftEncodeIs ==
  ASSUME NEW x, Encodable(x)
  PROVE  LeftEncode(x) \in Strands /\ RightEncode(x) \in Strands
<1>1. EncodeLength(x) \in Nat /\ EncodeLength(x) \in Bytes /\ x \in Nat
  BY EncodeLengthIs, BaseIs DEF Bytes, Encodable
<1>2. BigEndian(x, EncodeLength(x)) \in Strands
  BY <1>1, BigEndianIs
<1>3. <<EncodeLength(x)>> \in Strands
  BY <1>1 DEF Strands
<1>. QED
  BY <1>2, <1>3, Strung DEF LeftEncode, RightEncode

(* and so is an encoded string,                                            *)
LEMMA EncodeStringIs ==
  ASSUME NEW s \in Strands, Encodable(Bits * Len(s))
  PROVE  EncodeString(s) \in Strands
BY LeftEncodeIs, Strung DEF EncodeString

(* Filled to a multiple of w.                                              *)
LEMMA FillIs ==
  ASSUME NEW n \in Nat, NEW w \in Nat \ {0}
  PROVE  Fill(n, w) \in Nat /\ Fill(n, w) < w /\ (n + Fill(n, w)) % w = 0
<1>. DEFINE q == (-n) \div w
            r == (-n) % w
<1>1. q \in Int /\ r \in 0 .. w - 1 /\ -n = q * w + r
  BY DivMod
<1>. HIDE DEF q, r
<1>2. n + r = (-q) * w + 0 /\ -q \in Int /\ 0 \in 0 .. w - 1
  BY <1>1
<1>3. (n + r) % w = 0
  <2>. DEFINE p == -q
  <2>1. p \in Int /\ n + r = p * w + 0 /\ 0 \in 0 .. w - 1
    BY <1>2
  <2>. HIDE DEF p
  <2>2. (p * w + 0) % w = 0
    BY <2>1, DivModUnique
  <2>. QED
    BY <2>1, <2>2
<1>. QED
  BY <1>1, <1>3 DEF Fill, r

(* and one filled to whole blocks.                                         *)
LEMMA BytepadIs ==
  ASSUME NEW x \in Strands, NEW w \in Nat \ {0}, Encodable(w)
  PROVE  Bytepad(x, w) \in Strands
<1>. DEFINE z == LeftEncode(w) \o x
<1>1. z \in Strands /\ Len(z) \in Nat
  BY LeftEncodeIs, Strung DEF Strands
<1>. HIDE DEF z
<1>2. Zeros(Fill(Len(z), w)) \in Strands
  BY <1>1, FillIs, ZerosAre
<1>3. Bytepad(x, w) = z \o Zeros(Fill(Len(z), w))
  BY DEF Bytepad, z
<1>. QED
  BY <1>1, <1>2, <1>3, Strung

(* What bytepad puts around an encoded string, known by its length alone.  *)
LEMMA SplitIs ==
  ASSUME NEW s \in Strands, NEW w \in Nat \ {0}, Encodable(w), Encodable(Bits * Len(s))
  PROVE  /\ SplitHead(Len(s), w) \in Strands
         /\ SplitFill(Len(s), w) \in Nat
         /\ Zeros(SplitFill(Len(s), w)) \in Strands
         /\ (SplitHead(Len(s), w) \o s) \o Zeros(SplitFill(Len(s), w))
              = Bytepad(EncodeString(s), w)
<1>. DEFINE a == LeftEncode(w)
            b == LeftEncode(Bits * Len(s))
            h == SplitHead(Len(s), w)
            f == SplitFill(Len(s), w)
<1>1. a \in Strands /\ b \in Strands
  BY LeftEncodeIs
<1>2. h = a \o b
  BY DEF SplitHead
<1>3. Bytepad(EncodeString(s), w) = (a \o (b \o s)) \o Zeros(Fill(Len(a \o (b \o s)), w))
  BY DEF Bytepad, EncodeString
<1>4. f = Fill(Len(h) + Len(s), w)
  BY DEF SplitFill
<1>. HIDE DEF a, b, h, f
<1>5. h \in Strands /\ h \o s \in Strands /\ Len(h \o s) = Len(h) + Len(s) /\ Len(h \o s) \in Nat
  BY <1>1, <1>2, Strung DEF Strands
<1>6. h \o s = a \o (b \o s)
  BY <1>1, <1>2, ConcatAssoc DEF Strands
<1>7. f \in Nat /\ Zeros(f) \in Strands
  BY <1>4, <1>5, FillIs, ZerosAre
<1>8. (h \o s) \o Zeros(f) = Bytepad(EncodeString(s), w)
  BY <1>3, <1>4, <1>5, <1>6
<1>. QED
  BY <1>5, <1>7, <1>8 DEF h, f

----------------------------------------------------------------------------
(* Constants and operands in turn.                                         *)

Through(f, pieces, operands) ==
  f = [k \in 0 .. Len(operands) |->
         IF k = 0 THEN pieces[1] ELSE f[k - 1] \o operands[k] \o pieces[k + 1]]

(* What a frame is: a piece before each operand, and one after them.       *)
Around(pieces, operands) ==
  /\ operands \in Seq(Strands)
  /\ pieces \in Seq(Strands)
  /\ Len(pieces) = Len(operands) + 1

(* The strings through each operand and the piece after it.                *)
Passes(f, pieces, operands) ==
  /\ Concatenated(pieces, operands) = f[Len(operands)]
  /\ f[0] = pieces[1]
  /\ \A k \in 1 .. Len(operands) : f[k] = (f[k - 1] \o operands[k]) \o pieces[k + 1]
  /\ \A k \in 0 .. Len(operands) : f[k] \in Strands

(* There are such strings.                                                 *)
LEMMA PassesExists ==
  ASSUME NEW pieces, NEW operands, Around(pieces, operands)
  PROVE  \E f : Passes(f, pieces, operands)
<1>. DEFINE n == Len(operands)
            F == [k \in 1 .. n |-> [s \in Strands |-> (s \o operands[k]) \o pieces[k + 1]]]
            f == CHOOSE g : Through(g, pieces, operands)
<1>1. /\ n \in Nat /\ pieces[1] \in Strands
      /\ \A k \in 1 .. n : operands[k] \in Strands /\ pieces[k + 1] \in Strands
  BY DEF Around
<1>2. F \in [1 .. n -> [Strands -> Strands]]
  <2>1. ASSUME NEW k \in 1 .. n, NEW s \in Strands
        PROVE  (s \o operands[k]) \o pieces[k + 1] \in Strands
    BY <1>1, Strung
  <2>. QED
    BY <2>1
<1>. HIDE DEF n
<1>3. PICK g : g \in [0 .. n -> Strands] /\ g[0] = pieces[1] /\ Recurs(g, n, F)
  <2>. HIDE DEF F
  <2>. QED
    BY <1>1, <1>2, RecursionExists
<1>4. Through(g, pieces, operands)
  <2>1. ASSUME NEW k \in 0 .. n
        PROVE  g[k] = IF k = 0 THEN pieces[1] ELSE (g[k - 1] \o operands[k]) \o pieces[k + 1]
    <3>1. CASE k # 0
      <4>1. k \in 1 .. n /\ g[k - 1] \in Strands
        BY <1>1, <1>3, <3>1
      <4>2. g[k] = F[k][g[k - 1]]
        BY <1>3, <4>1 DEF Recurs
      <4>. QED
        BY <3>1, <4>1, <4>2
    <3>. QED
      BY <1>3, <3>1
  <2>2. g = [k \in 0 .. n |-> g[k]]
    BY <1>3
  <2>. QED
    BY <2>1, <2>2 DEF Through, n
<1>5. Concatenated(pieces, operands) = f[n]
  BY DEF Concatenated, Through, n
<1>6. Through(f, pieces, operands)
  BY <1>4
<1>. HIDE DEF f, F
<1>7. f[0] = pieces[1] /\ \A k \in 1 .. n : f[k] = (f[k - 1] \o operands[k]) \o pieces[k + 1]
  <2>1. \A k \in 0 .. n : f[k] = IF k = 0 THEN pieces[1]
                                 ELSE (f[k - 1] \o operands[k]) \o pieces[k + 1]
    BY <1>6 DEF Through, n
  <2>2. 0 \in 0 .. n /\ \A k \in 1 .. n : k \in 0 .. n /\ k # 0
    BY <1>1
  <2>. QED
    BY <2>1, <2>2
<1>. DEFINE T == {k \in Nat : k <= n => f[k] \in Strands}
<1>8. 0 \in T
  BY <1>1, <1>7
<1>9. ASSUME NEW k \in T
      PROVE  k + 1 \in T
  <2>1. SUFFICES ASSUME k + 1 <= n
                 PROVE  f[k + 1] \in Strands
    OBVIOUS
  <2>2. k \in Nat /\ k + 1 \in 1 .. n /\ (k + 1) - 1 = k /\ f[k] \in Strands
    BY <1>1, <2>1
  <2>3. f[k + 1] = (f[k] \o operands[k + 1]) \o pieces[k + 1 + 1]
    BY <1>7, <2>2
  <2>. HIDE DEF T
  <2>4. operands[k + 1] \in Strands /\ pieces[k + 1 + 1] \in Strands
    BY <1>1, <2>2
  <2>5. f[k] \o operands[k + 1] \in Strands
    BY <2>2, <2>4, Strung
  <2>. QED
    BY <2>3, <2>4, <2>5, Strung
<1>10. T = Nat
  <2>1. T \in SUBSET Nat
    OBVIOUS
  <2>. HIDE DEF T
  <2>. QED
    BY <1>8, <1>9, <2>1, Induction
<1>11. \A k \in 0 .. n : f[k] \in Strands
  BY <1>1, <1>10
<1>12. Passes(f, pieces, operands)
  BY <1>5, <1>7, <1>11 DEF Passes, n
<1>. QED
  BY <1>12

(* Operands as long as these, within pieces as long, make a string as long.*)
LEMMA ConcatenatedLength ==
  ASSUME NEW p, NEW a, Around(p, a), NEW q, NEW b, Around(q, b), Len(a) = Len(b),
         \A i \in 1 .. Len(a) : Len(a[i]) = Len(b[i]),
         \A i \in 1 .. Len(a) + 1 : Len(p[i]) = Len(q[i])
  PROVE  /\ Concatenated(p, a) \in Strands
         /\ Len(Concatenated(p, a)) = Len(Concatenated(q, b))
<1>. DEFINE n == Len(a)
<1>0. /\ \E f : Passes(f, p, a)
      /\ \E f : Passes(f, q, b)
  BY PassesExists
<1>10. PICK f : Passes(f, p, a)
  BY <1>0
<1>20. PICK g : Passes(g, q, b)
  BY <1>0
<1>1. /\ Concatenated(p, a) = f[n]
      /\ f[0] = p[1]
      /\ \A k \in 1 .. n : f[k] = (f[k - 1] \o a[k]) \o p[k + 1]
      /\ \A k \in 0 .. n : f[k] \in Strands
  BY <1>10 DEF Passes
<1>2. /\ Concatenated(q, b) = g[n]
      /\ g[0] = q[1]
      /\ \A k \in 1 .. n : g[k] = (g[k - 1] \o b[k]) \o q[k + 1]
      /\ \A k \in 0 .. n : g[k] \in Strands
  BY <1>20 DEF Passes
<1>3. /\ n \in Nat
      /\ \A k \in 1 .. n : /\ a[k] \in Strands /\ b[k] \in Strands
                           /\ p[k + 1] \in Strands /\ q[k + 1] \in Strands
                           /\ Len(a[k]) = Len(b[k]) /\ Len(p[k + 1]) = Len(q[k + 1])
      /\ Len(p[1]) = Len(q[1])
  <2>1. /\ n \in Nat /\ a \in Seq(Strands) /\ b \in Seq(Strands)
        /\ p \in Seq(Strands) /\ q \in Seq(Strands)
        /\ Len(b) = n /\ Len(p) = n + 1 /\ Len(q) = n + 1
    BY DEF Around
  <2>2. /\ \A k \in 1 .. n : Len(a[k]) = Len(b[k])
        /\ \A k \in 1 .. n + 1 : Len(p[k]) = Len(q[k])
    OBVIOUS
  <2>. HIDE DEF n
  <2>3. 1 \in 1 .. n + 1 /\ \A k \in 1 .. n : k + 1 \in 1 .. n + 1
    BY <2>1
  <2>4. \A k \in 1 .. n : a[k] \in Strands /\ b[k] \in Strands
    BY <2>1
  <2>5. \A k \in 1 .. n + 1 : p[k] \in Strands /\ q[k] \in Strands
    BY <2>1
  <2>. QED
    BY <2>1, <2>2, <2>3, <2>4, <2>5
<1>. HIDE DEF n
<1>. DEFINE T == {k \in Nat : k <= n => Len(f[k]) = Len(g[k])}
<1>4. 0 \in T
  BY <1>1, <1>2, <1>3
<1>5. ASSUME NEW k \in T
      PROVE  k + 1 \in T
  <2>1. SUFFICES ASSUME k + 1 <= n
                 PROVE  Len(f[k + 1]) = Len(g[k + 1])
    OBVIOUS
  <2>2. /\ k \in Nat /\ k \in 0 .. n /\ k + 1 \in 1 .. n /\ (k + 1) - 1 = k
        /\ Len(f[k]) = Len(g[k])
    BY <1>3, <2>1
  <2>3. /\ f[k + 1] = (f[k] \o a[k + 1]) \o p[k + 1 + 1]
        /\ g[k + 1] = (g[k] \o b[k + 1]) \o q[k + 1 + 1]
    BY <1>1, <1>2, <2>2
  <2>. HIDE DEF T
  <2>4. /\ f[k] \o a[k + 1] \in Strands /\ Len(f[k] \o a[k + 1]) = Len(f[k]) + Len(a[k + 1])
        /\ g[k] \o b[k + 1] \in Strands /\ Len(g[k] \o b[k + 1]) = Len(g[k]) + Len(b[k + 1])
    BY <1>1, <1>2, <1>3, <2>2, Strung
  <2>5. /\ Len(f[k + 1]) = Len(f[k] \o a[k + 1]) + Len(p[k + 1 + 1])
        /\ Len(g[k + 1]) = Len(g[k] \o b[k + 1]) + Len(q[k + 1 + 1])
    <3>1. p[k + 1 + 1] \in Strands /\ q[k + 1 + 1] \in Strands
      BY <1>3, <2>2
    <3>. QED
      BY <2>3, <2>4, <3>1, Strung
  <2>. QED
    BY <1>3, <2>2, <2>4, <2>5
<1>6. T = Nat
  <2>1. T \in SUBSET Nat
    OBVIOUS
  <2>. HIDE DEF T
  <2>. QED
    BY <1>4, <1>5, <2>1, Induction
<1>7. Len(f[n]) = Len(g[n]) /\ f[n] \in Strands
  <2>1. n \in Nat /\ n <= n /\ n \in 0 .. n
    BY <1>3
  <2>2. n \in T
    <3>. HIDE DEF T
    <3>. QED
      BY <1>6, <2>1
  <2>. QED
    BY <1>1, <2>1, <2>2
<1>. QED
  BY <1>1, <1>2, <1>7

(* The tail after the last operand is the tail of the string.              *)
LEMMA PaddedIs ==
  ASSUME NEW row, NEW frame, NEW operands, Around(frame, operands), NEW pad \in Strands,
         pad = PadTail(row, Len(Concatenated(frame, operands)))
  PROVE  /\ Around(Padded(row, frame, operands), operands)
         /\ Concatenated(Padded(row, frame, operands), operands)
              = Concatenated(frame, operands) \o pad
<1>. DEFINE n == Len(operands)
            p == Padded(row, frame, operands)
<1>1. /\ n \in Nat /\ Len(frame) = n + 1 /\ frame \in Seq(Strands)
      /\ frame[n + 1] \in Strands
      /\ \A k \in 1 .. n : operands[k] \in Strands /\ frame[k] \in Strands
  BY DEF Around
<1>2. p = [frame EXCEPT ![n + 1] = @ \o pad]
  BY <1>1 DEF Padded
<1>3. frame[n + 1] \o pad \in Strands
  BY <1>1, Strung
<1>. HIDE DEF p, n
<1>4. /\ p \in Seq(Strands) /\ Len(p) = n + 1 /\ p[n + 1] = frame[n + 1] \o pad
      /\ \A k \in 1 .. n : p[k] = frame[k]
  BY <1>1, <1>2, <1>3
<1>5. Around(p, operands)
  BY <1>1, <1>4 DEF Around, n
<1>12. PICK f : Passes(f, frame, operands)
  BY PassesExists
<1>13. PICK g : Passes(g, p, operands)
  BY <1>5, PassesExists
<1>6. /\ Concatenated(frame, operands) = f[n]
      /\ f[0] = frame[1]
      /\ \A k \in 1 .. n : f[k] = (f[k - 1] \o operands[k]) \o frame[k + 1]
      /\ \A k \in 0 .. n : f[k] \in Strands
  BY <1>12 DEF Passes, n
<1>7. /\ Concatenated(p, operands) = g[n]
      /\ g[0] = p[1]
      /\ \A k \in 1 .. n : g[k] = (g[k - 1] \o operands[k]) \o p[k + 1]
      /\ \A k \in 0 .. n : g[k] \in Strands
  BY <1>13 DEF Passes, n
<1>. DEFINE T == {k \in Nat : k < n => g[k] = f[k]}
<1>8. 0 \in T
  BY <1>1, <1>4, <1>6, <1>7
<1>9. ASSUME NEW k \in T
      PROVE  k + 1 \in T
  <2>1. SUFFICES ASSUME k + 1 < n
                 PROVE  g[k + 1] = f[k + 1]
    OBVIOUS
  <2>2. /\ k \in Nat /\ k + 1 \in 1 .. n /\ (k + 1) - 1 = k /\ k + 1 + 1 \in 1 .. n
        /\ g[k] = f[k]
    BY <1>1, <2>1
  <2>. HIDE DEF T
  <2>. QED
    BY <1>4, <1>6, <1>7, <2>2
<1>10. T = Nat
  <2>1. T \in SUBSET Nat
    OBVIOUS
  <2>. HIDE DEF T
  <2>. QED
    BY <1>8, <1>9, <2>1, Induction
<1>11. g[n] = f[n] \o pad
  <2>1. CASE n = 0
    <3>1. p[1] = frame[1] \o pad /\ g[n] = p[1] /\ f[n] = frame[1]
      <4>1. p[n + 1] = frame[n + 1] \o pad /\ n + 1 = 1
        BY <1>4, <2>1
      <4>. QED
        BY <1>6, <1>7, <2>1, <4>1
    <3>. QED
      BY <3>1
  <2>2. CASE n # 0
    <3>. DEFINE k == n - 1
    <3>1. k \in Nat /\ k < n /\ k + 1 = n /\ n \in 1 .. n /\ k \in 0 .. n
      BY <1>1, <2>2
    <3>2. g[k] = f[k]
      BY <1>10, <3>1
    <3>. HIDE DEF k, T
    <3>3. n - 1 = k
      BY DEF k
    <3>4. g[n] = (f[k] \o operands[n]) \o (frame[n + 1] \o pad)
      BY <1>4, <1>7, <3>1, <3>2, <3>3
    <3>5. f[n] = (f[k] \o operands[n]) \o frame[n + 1]
      BY <1>6, <3>1, <3>3
    <3>6. f[k] \o operands[n] \in Strands
      BY <1>1, <1>6, <3>1, Strung
    <3>. DEFINE x == f[k] \o operands[n]
                y == frame[n + 1]
    <3>7. x \in Seq(Bytes) /\ y \in Seq(Bytes) /\ pad \in Seq(Bytes)
      BY <1>1, <3>6 DEF Strands
    <3>8. g[n] = x \o (y \o pad) /\ f[n] = x \o y
      BY <3>4, <3>5
    <3>. HIDE DEF x, y
    <3>9. x \o (y \o pad) = (x \o y) \o pad
      BY <3>7, ConcatAssoc
    <3>. QED
      BY <3>8, <3>9
  <2>. QED
    BY <2>1, <2>2
<1>. QED
  BY <1>5, <1>6, <1>7, <1>11 DEF p

----------------------------------------------------------------------------
(* Rows.                                                                   *)

(* What is assumed of a row that callers build.                            *)
LEMMA RowIs ==
  ASSUME NEW row \in RowsBuilt
  PROVE  /\ row.fn \in Keccaks \cup Ascons \cup Blake2s \cup Blake3s
         /\ row.rate \in Nat /\ row.xof \in BOOLEAN /\ row.out \in Nat
         /\ row.name \in Strands /\ row.cust \in Strands /\ row.key \in Strands
         /\ row.salt \in Strands /\ row.person \in Strands
         /\ KmacName \in Strands /\ TupleHashName \in Strands
         /\ Sized(row)
         /\ Encodable(row.rate) /\ Encodable(Bits * row.out) /\ Encodable(0)
         /\ Encodable(Bits * Len(row.name)) /\ Encodable(Bits * Len(row.cust))
         /\ Encodable(Bits * Len(row.key)) /\ Encodable(Bits * Len(KmacName))
         /\ Encodable(Bits * Len(TupleHashName))
<1>1. row \in RowType /\ KmacName \in Strands /\ TupleHashName \in Strands /\ Sized(row)
  BY RowAssumption DEF Strands
<1>2. \A x \in Lengths(row) : Encodable(x)
  BY RowAssumption
<1>3. /\ Encodable(row.rate) /\ Encodable(Bits * row.out)
      /\ \A s \in {row.name, row.cust, row.key, KmacName, TupleHashName} :
           Encodable(Bits * Len(s))
  BY <1>2 DEF Lengths
<1>4. Encodable(0)
  <2>1. 1 \in 1 .. Base - 1 /\ Digits(1) \in Nat \ {0}
    BY BaseIs
  <2>2. Digits(1) > 0
    BY <2>1
  <2>. QED
    BY <2>1, <2>2 DEF Encodable
<1>. QED
  BY <1>1, <1>3, <1>4 DEF RowType, Strands

(* The block a row absorbs by.                                             *)
BlockOf(row) == IF row.fn \in Ascons THEN AsconRate ELSE row.rate

(* Which is never empty.                                                   *)
LEMMA BlockIs ==
  ASSUME NEW row \in RowsBuilt
  PROVE  BlockOf(row) \in Nat \ {0} /\ AsconRate \in Nat \ {0} /\ row.rate \in Nat
BY RowIs, RowAssumption DEF BlockOf, Sized, Keccaks, Ascons, Blake2s, Blake3s

(* The head byte leaves the top bit to the closing bit.                    *)
LEMMA SpongeTailIs ==
  ASSUME NEW n \in Nat, NEW w \in Nat \ {0}, NEW head \in Nat, NEW final_bit \in BOOLEAN,
         head < Base, final_bit => head < Base \div 2
  PROVE  /\ SpongeTail(n, w, head, final_bit) \in Strands
         /\ Len(SpongeTail(n, w, head, final_bit)) = w - (n % w)
         /\ Len(SpongeTail(n, w, head, final_bit)) \in Nat \ {0}
         /\ (n + Len(SpongeTail(n, w, head, final_bit))) % w = 0
<1>. DEFINE size == w - (n % w)
<1>1. n % w \in 0 .. w - 1 /\ n \div w \in Nat /\ n = (n \div w) * w + (n % w)
  BY DivModNat
<1>2. size \in Nat \ {0} /\ n + size = ((n \div w) + 1) * w + 0
  BY <1>1
<1>. HIDE DEF size
<1>3. (n + size) % w = 0
  <2>. DEFINE q == (n \div w) + 1
  <2>1. q \in Int /\ n + size = q * w + 0 /\ 0 \in 0 .. w - 1
    BY <1>1, <1>2
  <2>. HIDE DEF q
  <2>2. (q * w + 0) % w = 0
    BY <2>1, DivModUnique
  <2>. QED
    BY <2>1, <2>2
<1>4. Base \in Nat /\ Base \div 2 \in Nat /\ 2 * (Base \div 2) <= Base
  <2>1. Base \in Nat
    BY BaseIs
  <2>. QED
    BY <2>1
<1>5. ASSUME NEW j \in 1 .. size
      PROVE  (IF j = 1 THEN head ELSE 0) + (IF final_bit /\ j = size THEN Base \div 2 ELSE 0)
               \in Bytes
  BY <1>2, <1>4, BaseIs DEF Bytes
<1>6. SpongeTail(n, w, head, final_bit)
        = [j \in 1 .. size |-> (IF j = 1 THEN head ELSE 0)
                               + (IF final_bit /\ j = size THEN Base \div 2 ELSE 0)]
  BY DEF SpongeTail, size
<1>7. SpongeTail(n, w, head, final_bit) \in Strands /\ Len(SpongeTail(n, w, head, final_bit)) = size
  BY <1>2, <1>5, <1>6 DEF Strands
<1>. QED
  BY <1>2, <1>3, <1>7 DEF size

(* A row's padding ends its block, and there is always a block.            *)
LEMMA PadIs ==
  ASSUME NEW row \in RowsBuilt, NEW n \in Nat
  PROVE  /\ PadTail(row, n) \in Strands
         /\ n + Len(PadTail(row, n)) > 0
         /\ (n + Len(PadTail(row, n))) % BlockOf(row) = 0
<1>1. BlockOf(row) \in Nat \ {0} /\ AsconRate \in Nat \ {0}
  BY BlockIs
<1>2. CASE row.fn \in Keccaks
  <2>1. BlockOf(row) = row.rate
    BY <1>2 DEF BlockOf, Keccaks, Ascons
  <2>2. Suffix(row) \in DomainBytes
    BY DEF Suffix, DomainBytes
  <2>3. Suffix(row) \in Nat /\ Suffix(row) < Base \div 2 /\ Suffix(row) < Base
    <3>1. Suffix(row) \in 1 .. Base \div 2 - 1
      BY <2>2, RowAssumption
    <3>2. Base \in Nat /\ Base \div 2 \in Nat /\ Base \div 2 <= Base
      BY BaseIs
    <3>. QED
      BY <3>1, <3>2
  <2>4. PadTail(row, n) = SpongeTail(n, row.rate, Suffix(row), TRUE)
    BY <1>2 DEF PadTail, Keccaks, Ascons
  <2>5. row.rate \in Nat \ {0} /\ TRUE \in BOOLEAN
    BY <1>1, <2>1
  <2>6. /\ SpongeTail(n, row.rate, Suffix(row), TRUE) \in Strands
        /\ Len(SpongeTail(n, row.rate, Suffix(row), TRUE)) \in Nat \ {0}
        /\ (n + Len(SpongeTail(n, row.rate, Suffix(row), TRUE))) % row.rate = 0
    BY <2>3, <2>5, SpongeTailIs
  <2>. DEFINE t == SpongeTail(n, row.rate, Suffix(row), TRUE)
              w == row.rate
  <2>7. /\ PadTail(row, n) = t /\ BlockOf(row) = w
        /\ t \in Strands /\ Len(t) \in Nat \ {0} /\ (n + Len(t)) % w = 0
    BY <2>1, <2>4, <2>6
  <2>. HIDE DEF t, w
  <2>. QED
    BY <2>7
<1>3. CASE row.fn \in Ascons
  <2>1. BlockOf(row) = AsconRate
    BY <1>3 DEF BlockOf
  <2>2. PadTail(row, n) = SpongeTail(n, AsconRate, 1, FALSE)
    BY <1>3 DEF PadTail, Keccaks, Ascons
  <2>3. 1 < Base
    BY BaseIs
  <2>4. 1 \in Nat /\ FALSE \in BOOLEAN
    OBVIOUS
  <2>5. /\ SpongeTail(n, AsconRate, 1, FALSE) \in Strands
        /\ Len(SpongeTail(n, AsconRate, 1, FALSE)) \in Nat \ {0}
        /\ (n + Len(SpongeTail(n, AsconRate, 1, FALSE))) % AsconRate = 0
    BY <1>1, <2>3, <2>4, SpongeTailIs
  <2>. DEFINE t == SpongeTail(n, AsconRate, 1, FALSE)
  <2>6. /\ PadTail(row, n) = t /\ BlockOf(row) = AsconRate
        /\ t \in Strands /\ Len(t) \in Nat \ {0} /\ (n + Len(t)) % AsconRate = 0
    BY <2>1, <2>2, <2>5
  <2>. HIDE DEF t
  <2>. QED
    BY <2>6
<1>4. CASE row.fn \notin Keccaks /\ row.fn \notin Ascons
  <2>. DEFINE size == IF n = 0 THEN row.rate ELSE Fill(n, row.rate)
  <2>1. BlockOf(row) = row.rate
    BY <1>4 DEF BlockOf
  <2>2. PadTail(row, n) = Zeros(size)
    BY <1>4 DEF PadTail
  <2>3. size \in Nat /\ n + size > 0 /\ (n + size) % row.rate = 0
    <3>1. CASE n = 0
      <4>1. row.rate \in Nat \ {0} /\ row.rate = 1 * row.rate + 0 /\ 0 \in 0 .. row.rate - 1
        BY <1>1, <2>1
      <4>2. row.rate % row.rate = 0
        BY <4>1
      <4>3. size = row.rate
        BY <3>1
      <4>. HIDE DEF size
      <4>4. n + size = row.rate
        BY <3>1, <4>1, <4>3
      <4>5. (n + size) % row.rate = 0
        BY <4>2, <4>4, Zenon
      <4>. QED
        BY <4>1, <4>3, <4>4, <4>5
    <3>2. CASE n # 0
      <4>1. size = Fill(n, row.rate) /\ row.rate \in Nat \ {0}
        BY <1>1, <2>1, <3>2
      <4>. HIDE DEF size
      <4>2. size \in Nat /\ (n + size) % row.rate = 0
        BY <4>1, FillIs
      <4>. QED
        BY <3>2, <4>2
    <3>. QED
      BY <3>1, <3>2
  <2>. HIDE DEF size
  <2>. QED
    BY <2>1, <2>2, <2>3, ZerosAre
<1>. QED
  BY <1>2, <1>3, <1>4

(* A prefix block is a string,                                             *)
LEMMA PrefixBlockIs ==
  ASSUME NEW name \in Strands, NEW cust \in Strands, NEW w \in Nat \ {0}, Encodable(w),
         Encodable(Bits * Len(name)), Encodable(Bits * Len(cust))
  PROVE  PrefixBlock(name, cust, w) \in Strands
<1>1. EncodeString(name) \in Strands /\ EncodeString(cust) \in Strands
  BY EncodeStringIs
<1>2. Bytepad(EncodeString(name) \o EncodeString(cust), w) \in Strands
  BY <1>1, Strung, BytepadIs
<1>. QED
  BY <1>2 DEF PrefixBlock, Strands

(* and so is the length at the end.                                        *)
LEMMA LengthTailIs ==
  ASSUME NEW row \in RowsBuilt
  PROVE  LengthTail(row) \in Strands
BY RowIs, LeftEncodeIs DEF LengthTail

(* Two pieces surround one string.                                         *)
LEMMA PairAround ==
  ASSUME NEW a \in Strands, NEW b \in Strands, NEW strings \in Seq(Strands), Len(strings) = 1
  PROVE  Around(<<a, b>>, strings)
BY DEF Around

(* A row's frame surrounds the strings it takes.                           *)
LEMMA FrameIs ==
  ASSUME NEW row \in RowsBuilt, NEW strings \in Strings, Valid(row), Takes(row, strings)
  PROVE  Around(Frame(row, strings), strings)
<1>1. strings \in Seq(Strands)
  BY RowAssumption DEF Strands
<1>2. <<>> \in Strands
  BY DEF Strands
<1>3. ASSUME row.fn # "TupleHash"
      PROVE  Len(strings) = 1
  BY <1>3 DEF Takes, Fits
<1>4. CASE row.fn = "cSHAKE"
  <2>1. row.rate \in Nat \ {0}
    BY <1>4, RowIs DEF Sized, Keccaks
  <2>2. PrefixBlock(row.name, row.cust, row.rate) \in Strands
    BY <2>1, RowIs, PrefixBlockIs
  <2>3. Frame(row, strings) = <<PrefixBlock(row.name, row.cust, row.rate), <<>> >>
    BY <1>4 DEF Frame, Blake2s
  <2>. QED
    BY <1>1, <1>2, <1>3, <1>4, <2>2, <2>3, PairAround
<1>5. CASE row.fn = "KMAC"
  <2>. DEFINE x == PrefixBlock(KmacName, row.cust, row.rate)
              y == Bytepad(EncodeString(row.key), row.rate)
  <2>1. row.rate \in Nat \ {0}
    BY <1>5, RowIs DEF Sized, Keccaks
  <2>2. x \in Strands
    BY <2>1, RowIs, PrefixBlockIs
  <2>3. y \in Strands
    BY <2>1, RowIs, EncodeStringIs, BytepadIs
  <2>4. Frame(row, strings) = <<x \o y, LengthTail(row)>>
    BY <1>5 DEF Frame, KmacFrame, Blake2s
  <2>. HIDE DEF x, y
  <2>5. x \o y \in Strands /\ LengthTail(row) \in Strands
    BY <2>2, <2>3, Strung, LengthTailIs
  <2>. QED
    BY <1>1, <1>3, <1>5, <2>4, <2>5, PairAround
<1>6. CASE row.fn = "TupleHash"
  <2>. DEFINE x    == PrefixBlock(TupleHashName, row.cust, row.rate)
              n    == Len(strings)
              a(i) == IF i = 1 THEN x ELSE <<>>
              b(i) == IF i <= n THEN LeftEncode(Bits * Len(strings[i])) ELSE LengthTail(row)
  <2>1. row.rate \in Nat \ {0}
    BY <1>6, RowIs DEF Sized, Keccaks
  <2>2. x \in Strands /\ n \in Nat
    BY <1>1, <2>1, RowIs, PrefixBlockIs
  <2>3. ASSUME NEW i \in 1 .. n + 1
        PROVE  b(i) \in Strands
    <3>1. CASE i <= n
      <4>1. Encodable(Bits * Len(strings[i]))
        BY <1>1, <2>2, <3>1, RowAssumption
      <4>. QED
        BY <3>1, <4>1, LeftEncodeIs
    <3>2. CASE ~ i <= n
      BY <3>2, LengthTailIs
    <3>. QED
      BY <3>1, <3>2
  <2>4. ASSUME NEW i \in 1 .. n + 1
        PROVE  a(i) \o b(i) \in Strands
    <3>1. a(i) \in Strands
      BY <1>2, <2>2
    <3>2. b(i) \in Strands
      BY <2>3
    <3>. HIDE DEF a, b
    <3>. QED
      BY <3>1, <3>2, Strung
  <2>5. Frame(row, strings) = [i \in 1 .. n + 1 |-> a(i) \o b(i)]
    BY <1>6 DEF Frame, TupleFrame, Blake2s
  <2>. HIDE DEF a, b, x
  <2>6. Frame(row, strings) \in Seq(Strands) /\ Len(Frame(row, strings)) = n + 1
    BY <2>2, <2>4, <2>5
  <2>. QED
    BY <1>1, <2>6 DEF Around
<1>7. CASE row.fn = "AsconCxof128"
  <2>. DEFINE z == row.cust
              x == LittleEndian(Bits * Len(z), AsconRate)
              y == SpongeTail(Len(z), AsconRate, 1, FALSE)
  <2>1. z \in Strands /\ Len(z) \in Nat /\ Bits * Len(z) \in Nat /\ AsconRate \in Nat \ {0}
    <3>1. z \in Strands /\ Len(z) \in Nat /\ AsconRate \in Nat \ {0}
      BY RowIs, BlockIs DEF Strands
    <3>. HIDE DEF z
    <3>. QED
      BY <3>1, BaseIs
  <2>2. x \in Strands
    BY <2>1, LittleEndianIs
  <2>3. y \in Strands
    <3>1. 1 \in Nat /\ FALSE \in BOOLEAN /\ 1 < Base
      BY BaseIs
    <3>. QED
      BY <2>1, <3>1, SpongeTailIs
  <2>4. Frame(row, strings) = <<(x \o z) \o y, <<>> >>
    BY <1>7 DEF Frame, CustomizationPrefix, Blake2s
  <2>. HIDE DEF x, y, z
  <2>5. (x \o z) \o y \in Strands
    BY <2>1, <2>2, <2>3, Strung
  <2>. QED
    BY <1>1, <1>2, <1>3, <1>7, <2>4, <2>5, PairAround
<1>8. CASE row.fn \in Blake2s
  <2>1. KeyBlock(row) \in Strands
    <3>1. row.rate \in Nat /\ row.key \in Strands /\ Len(row.key) \in Nat
      BY RowIs DEF Strands
    <3>2. Len(row.key) <= 8 * (row.rate \div 16)
      BY <1>8 DEF Valid, ValidBlake2, MaxFieldSize, WordBytes
    <3>3. row.rate - Len(row.key) \in Nat
      BY <3>1, <3>2
    <3>4. row.key \o Zeros(row.rate - Len(row.key)) \in Strands
      BY <3>1, <3>3, ZerosAre, Strung
    <3>. QED
      BY <1>2, <3>4 DEF KeyBlock
  <2>2. Frame(row, strings) = <<KeyBlock(row), <<>> >>
    BY <1>8 DEF Frame, Blake2s
  <2>. QED
    BY <1>1, <1>2, <1>3, <1>8, <2>1, <2>2, PairAround DEF Blake2s
<1>9. CASE row.fn \notin {"cSHAKE", "KMAC", "TupleHash", "AsconCxof128"} \cup Blake2s
  <2>1. Frame(row, strings) = << <<>>, <<>> >>
    BY <1>9 DEF Frame
  <2>. QED
    BY <1>1, <1>2, <1>3, <1>9, <2>1, PairAround
<1>. QED
  BY <1>4, <1>5, <1>6, <1>7, <1>8, <1>9

----------------------------------------------------------------------------
(* Calls by the door they come through: a consumer's trace, which keys on  *)
(* the row, the family's zone, or with the key an operand.                 *)

Asked(door, row, strings) ==
  /\ door \in {"row", "zone", "operand"} /\ row \in RowsBuilt /\ strings \in Strings
  /\ Valid(row) /\ Takes(row, strings)
  /\ door = "operand" => row.fn \in {"KMAC", "Blake3Keyed"}

OperandKmac(door, row) == door = "operand" /\ row.fn = "KMAC"

OperandsOf(door, row, strings) ==
  IF OperandKmac(door, row) THEN <<row.key, strings[1]>> ELSE strings

FrameOf(door, row, strings) ==
  IF OperandKmac(door, row) THEN OperandFrame(row) ELSE Frame(row, strings)

WholeOf(door, row, strings) ==
  Whole(row, FrameOf(door, row, strings), OperandsOf(door, row, strings))

KeyOf(door, row, strings) ==
  CASE door = "row"           -> <<"row", TypeOf(row), Parameters(row), Shape(strings)>>
    [] door = "zone"          -> Zone(row, strings).key
    [] OperandKmac(door, row) ->
         <<"operand", TypeOf(row), row.out, row.cust, Shape(<<row.key, strings[1]>>)>>
    [] OTHER -> <<"operand", TypeOf(row), row.out, Shape(<<row.key, strings[1]>>)>>

FixedOf(door, row, strings) ==
  CASE door = "row" \/ OperandKmac(door, row) -> {"init", "pieces", "attrs"}
    [] door = "zone" -> Zone(row, strings).fixed
    [] OTHER -> {"pieces", "attrs"}

(* A framed call surrounds its operands, through any door.                 *)
LEMMA OperandsFit ==
  ASSUME NEW door, NEW row, NEW strings, Asked(door, row, strings)
  PROVE  Around(FrameOf(door, row, strings), OperandsOf(door, row, strings))
<1>1. CASE ~ OperandKmac(door, row)
  BY <1>1, FrameIs DEF Asked, FrameOf, OperandsOf
<1>2. CASE OperandKmac(door, row)
  <2>. DEFINE x == PrefixBlock(KmacName, row.cust, row.rate)
              h == SplitHead(Len(row.key), row.rate)
              z == Zeros(SplitFill(Len(row.key), row.rate))
              m == strings[1]
  <2>1. row \in RowsBuilt /\ row.fn = "KMAC" /\ row.rate \in Nat \ {0} /\ row.key \in Strands
    BY <1>2, RowIs DEF Asked, OperandKmac, Sized, Keccaks
  <2>2. x \in Strands
    BY <2>1, RowIs, PrefixBlockIs
  <2>3. h \in Strands /\ z \in Strands
    BY <2>1, RowIs, SplitIs
  <2>4. m \in Strands
    <3>1. strings \in Seq(Strands) /\ Len(strings) = 1
      BY <2>1, RowAssumption DEF Strands, Asked, Takes, Fits
    <3>. QED
      BY <3>1
  <2>5. LengthTail(row) \in Strands
    BY <2>1, LengthTailIs
  <2>6. /\ FrameOf(door, row, strings) = <<x \o h, z, LengthTail(row)>>
        /\ OperandsOf(door, row, strings) = <<row.key, m>>
    BY <1>2 DEF FrameOf, OperandsOf, OperandFrame
  <2>. HIDE DEF x, h, z, m
  <2>7. x \o h \in Strands
    BY <2>2, <2>3, Strung
  <2>. QED
    BY <2>1, <2>3, <2>4, <2>5, <2>6, <2>7 DEF Around
<1>. QED
  BY <1>1, <1>2

----------------------------------------------------------------------------
(* What a key holds is all that its trace fixes.                           *)

(* Operands of one shape are as many, and as long.                         *)
LEMMA ShapeIs ==
  ASSUME NEW a \in Seq(Strands), NEW b \in Seq(Strands), Shape(a) = Shape(b)
  PROVE  Len(a) = Len(b) /\ \A i \in 1 .. Len(a) : Len(a[i]) = Len(b[i])
<1>1. DOMAIN Shape(a) = 1 .. Len(a) /\ DOMAIN Shape(b) = 1 .. Len(b)
  BY DEF Shape
<1>2. Len(a) \in Nat /\ Len(b) \in Nat /\ 1 .. Len(a) = 1 .. Len(b)
  BY <1>1
<1>3. Len(a) = Len(b)
  BY <1>2
<1>4. ASSUME NEW i \in 1 .. Len(a)
      PROVE  Len(a[i]) = Len(b[i])
  <2>1. Shape(a)[i] = Len(a[i]) /\ Shape(b)[i] = Len(b[i])
    BY <1>3 DEF Shape
  <2>. QED
    BY <2>1
<1>. QED
  BY <1>3, <1>4

(* One frame around operands of one shape is padded alike.                 *)
LEMMA PartsAgree ==
  ASSUME NEW r, NEW q, NEW frame, NEW a, NEW b, Around(frame, a), Around(frame, b),
         Shape(a) = Shape(b), \A n \in Nat : PadTail(r, n) = PadTail(q, n)
  PROVE  /\ Padded(r, frame, a) = Padded(q, frame, b)
         /\ Len(Concatenated(frame, a)) = Len(Concatenated(frame, b))
<1>1. /\ Len(a) = Len(b) /\ \A i \in 1 .. Len(a) : Len(a[i]) = Len(b[i])
      /\ \A i \in 1 .. Len(a) + 1 : Len(frame[i]) = Len(frame[i])
  BY ShapeIs DEF Around
<1>2. /\ Concatenated(frame, a) \in Strands
      /\ Len(Concatenated(frame, a)) = Len(Concatenated(frame, b))
  BY <1>1, ConcatenatedLength
<1>3. Len(Concatenated(frame, a)) \in Nat
  BY <1>2 DEF Strands
<1>4. PadTail(r, Len(Concatenated(frame, a))) = PadTail(q, Len(Concatenated(frame, b)))
  BY <1>2, <1>3
<1>. QED
  BY <1>2, <1>4 DEF Padded

(* Equal rows agree in all their framing reads.                            *)
Alike(r, q) ==
  /\ r.fn = q.fn /\ r.rate = q.rate /\ r.xof = q.xof /\ r.out = q.out
  /\ r.fn = "cSHAKE" => r.name = q.name
  /\ r.fn \in {"cSHAKE", "KMAC", "TupleHash", "AsconCxof128", "Blake3DeriveKey"} => r.cust = q.cust
  /\ r.fn \in {"KMAC", "Blake3Keyed"} \cup Blake2s => r.key = q.key
  /\ r.fn \in Blake2s => r.salt = q.salt /\ r.person = q.person

(* The equality the jit cache asks is as fine as that.                     *)
LEMMA EqualRows ==
  ASSUME NEW r, NEW q, Valid(r), Valid(q), TypeOf(r) = TypeOf(q), Parameters(r) = Parameters(q)
  PROVE  Alike(r, q)
<1>1. r.fn = q.fn /\ r.rate = q.rate /\ r.xof = q.xof
  BY DEF TypeOf
<1>2. CASE r.fn = "cSHAKE"
  BY <1>1, <1>2 DEF Parameters, Alike, Blake2s
<1>3. CASE r.fn = "KMAC"
  BY <1>1, <1>3 DEF Parameters, Alike, Blake2s
<1>4. CASE r.fn = "Blake3Keyed"
  BY <1>1, <1>4 DEF Parameters, Alike, Blake2s
<1>5. CASE r.fn \in {"TupleHash", "AsconCxof128", "Blake3DeriveKey"}
  BY <1>1, <1>5 DEF Parameters, Alike, Blake2s
<1>6. CASE r.fn = "Blake2"
  <2>1. r.key = <<>> /\ q.key = <<>>
    BY <1>1, <1>6 DEF Valid, ValidBlake2, Blake2s
  <2>. QED
    BY <1>1, <1>6, <2>1 DEF Parameters, Alike, Blake2s
<1>7. CASE r.fn = "Blake2Keyed"
  BY <1>1, <1>7 DEF Parameters, Alike, Blake2s
<1>8. CASE r.fn \notin {"cSHAKE", "KMAC", "Blake3Keyed", "TupleHash", "AsconCxof128",
                        "Blake3DeriveKey"} \cup Blake2s
  BY <1>1, <1>8 DEF Parameters, Alike, Blake2s
<1>. QED
  BY <1>2, <1>3, <1>4, <1>5, <1>6, <1>7, <1>8 DEF Blake2s

(* Their calls open, frame, pad and finish alike.                          *)
LEMMA AlikeRows ==
  ASSUME NEW r, NEW q, NEW s \in Seq(Strands), NEW t \in Seq(Strands), Alike(r, q),
         Shape(s) = Shape(t)
  PROVE  /\ InitialState(r) = InitialState(q)
         /\ \A n \in Nat : PadTail(r, n) = PadTail(q, n)
         /\ \A n \in Nat : Attributes(r, n) = Attributes(q, n)
         /\ Frame(r, s) = Frame(q, t)
         /\ r.fn = "KMAC" => OperandFrame(r) = OperandFrame(q)
<1>0. /\ Len(s) = Len(t) /\ Len(s) \in Nat
      /\ \A i \in 1 .. Len(s) : Len(s[i]) = Len(t[i])
  BY ShapeIs
<1>1. r.fn = q.fn /\ r.rate = q.rate /\ r.xof = q.xof /\ r.out = q.out
  BY DEF Alike
<1>2. ModeOf(r) = ModeOf(q)
  BY <1>1 DEF Alike, ModeOf
<1>3. Finish(r) = Finish(q)
  BY <1>1 DEF Finish
<1>4. InitialState(r) = InitialState(q)
  <2>1. CASE r.fn \in Blake2s
    <3>1. ParamBlock(r) = ParamBlock(q)
      BY <1>1, <2>1 DEF Alike, ParamBlock, WordBytes, SaltSize
    <3>. QED
      BY <1>1, <2>1, <3>1 DEF InitialState, Blake2State
  <2>2. CASE r.fn \notin Blake2s
    BY <1>1, <1>2, <2>2 DEF InitialState
  <2>. QED
    BY <2>1, <2>2
<1>5. Suffix(r) = Suffix(q)
  BY <1>1 DEF Alike, Suffix
<1>6. ASSUME NEW n \in Nat
      PROVE  PadTail(r, n) = PadTail(q, n)
  BY <1>1, <1>5 DEF PadTail
<1>7. ASSUME NEW n \in Nat
      PROVE  Attributes(r, n) = Attributes(q, n)
  BY <1>1, <1>2, <1>3 DEF Attributes
<1>8. LengthTail(r) = LengthTail(q)
  BY <1>1 DEF LengthTail
<1>9. r.fn = "KMAC" => OperandFrame(r) = OperandFrame(q) /\ KmacFrame(r) = KmacFrame(q)
  BY <1>1, <1>8 DEF Alike, OperandFrame, KmacFrame
<1>10. r.fn = "TupleHash" => TupleFrame(r, s) = TupleFrame(q, t)
  <2>. DEFINE x == PrefixBlock(TupleHashName, r.cust, r.rate)
              n == Len(s)
  <2>1. SUFFICES ASSUME r.fn = "TupleHash"
                 PROVE  TupleFrame(r, s) = TupleFrame(q, t)
    OBVIOUS
  <2>2. PrefixBlock(TupleHashName, q.cust, q.rate) = x
    BY <1>1, <2>1 DEF Alike
  <2>3. ASSUME NEW i \in 1 .. n + 1
        PROVE  (IF i <= n THEN LeftEncode(Bits * Len(s[i])) ELSE LengthTail(r))
                 = (IF i <= n THEN LeftEncode(Bits * Len(t[i])) ELSE LengthTail(q))
    <3>1. CASE i <= n
      <4>1. i \in 1 .. n
        BY <1>0, <3>1
      <4>2. Len(s[i]) = Len(t[i])
        BY <1>0, <4>1
      <4>. QED
        BY <3>1, <4>2
    <3>2. CASE ~ i <= n
      BY <1>8, <3>2
    <3>. QED
      BY <3>1, <3>2
  <2>. HIDE DEF x
  <2>4. TupleFrame(r, s) =
          [i \in 1 .. n + 1 |->
             (IF i = 1 THEN x ELSE <<>>)
               \o (IF i <= n THEN LeftEncode(Bits * Len(s[i])) ELSE LengthTail(r))]
    BY DEF TupleFrame, x
  <2>5. TupleFrame(q, t) =
          [i \in 1 .. n + 1 |->
             (IF i = 1 THEN x ELSE <<>>)
               \o (IF i <= n THEN LeftEncode(Bits * Len(t[i])) ELSE LengthTail(q))]
    BY <1>0, <2>2 DEF TupleFrame
  <2>. QED
    BY <2>3, <2>4, <2>5
<1>11. r.fn \in Blake2s => KeyBlock(r) = KeyBlock(q)
  BY <1>1 DEF Alike, KeyBlock
<1>12. Frame(r, s) = Frame(q, t)
  BY <1>1, <1>9, <1>10, <1>11 DEF Alike, Frame
<1>. QED
  BY <1>4, <1>6, <1>7, <1>9, <1>12

(* One frame, padded alike around operands of one shape, makes the same    *)
(* pieces and attributes.                                                  *)
LEMMA PartsFit ==
  ASSUME NEW d, NEW r, NEW s, NEW q, NEW t, Asked(d, r, s), Asked(d, q, t),
         FrameOf(d, r, s) = FrameOf(d, q, t),
         Shape(OperandsOf(d, r, s)) = Shape(OperandsOf(d, q, t)),
         \A n \in Nat : PadTail(r, n) = PadTail(q, n),
         \A n \in Nat : Attributes(r, n) = Attributes(q, n)
  PROVE  /\ WholeOf(d, r, s).pieces = WholeOf(d, q, t).pieces
         /\ WholeOf(d, r, s).attrs = WholeOf(d, q, t).attrs
<1>. DEFINE f == FrameOf(d, r, s)
            a == OperandsOf(d, r, s)
            b == OperandsOf(d, q, t)
<1>1. Around(f, a) /\ Around(f, b)
  BY OperandsFit
<1>2. /\ WholeOf(d, r, s).pieces = Padded(r, f, a)
      /\ WholeOf(d, q, t).pieces = Padded(q, f, b)
      /\ WholeOf(d, r, s).attrs = Attributes(r, Len(Concatenated(f, a)))
      /\ WholeOf(d, q, t).attrs = Attributes(q, Len(Concatenated(f, b)))
  BY DEF WholeOf, Whole
<1>. HIDE DEF f, a, b
<1>3. Padded(r, f, a) = Padded(q, f, b) /\ Len(Concatenated(f, a)) = Len(Concatenated(f, b))
  <2>1. Shape(a) = Shape(b)
    BY DEF a, b
  <2>. QED
    BY <1>1, <2>1, PartsAgree
<1>. QED
  BY <1>2, <1>3

(* The zones' names keep the families apart.                               *)
ZoneName(row) ==
  CASE row.fn \in Keccaks -> "keccak_sponge"
    [] row.fn \in Ascons  -> row.fn
    [] row.fn \in Blake2s -> "blake2"
    [] row.fn \in Blake3s -> "blake3"

(* They are the keys' second parts.                                        *)
LEMMA ZoneIs ==
  ASSUME NEW row \in RowsBuilt, NEW strings
  PROVE  /\ Zone(row, strings).key[1] = "zone"
         /\ Zone(row, strings).key[2] = ZoneName(row)
         /\ row.fn \in Keccaks => Zone(row, strings) = KeccakZone(row, strings)
         /\ row.fn \in Ascons => Zone(row, strings) = AsconZone(row, strings)
         /\ row.fn \in Blake2s => Zone(row, strings) = Blake2Zone(row, strings)
         /\ row.fn \in Blake3s => Zone(row, strings) = Blake3Zone(row, strings)
<1>1. row.fn \in Keccaks \cup Ascons \cup Blake2s \cup Blake3s
  BY RowIs
<1>2. CASE row.fn \in Keccaks
  <2>1. Zone(row, strings) = KeccakZone(row, strings) /\ ZoneName(row) = "keccak_sponge"
    BY <1>2 DEF Zone, ZoneName, Keccaks, Ascons, Blake2s, Blake3s
  <2>. QED
    BY <1>2, <2>1 DEF KeccakZone, Keccaks, Ascons, Blake2s, Blake3s
<1>3. CASE row.fn \in Ascons
  <2>1. Zone(row, strings) = AsconZone(row, strings) /\ ZoneName(row) = row.fn
    BY <1>3 DEF Zone, ZoneName, Keccaks, Ascons, Blake2s, Blake3s
  <2>. QED
    BY <1>3, <2>1 DEF AsconZone, Keccaks, Ascons, Blake2s, Blake3s
<1>4. CASE row.fn \in Blake2s
  <2>1. Zone(row, strings) = Blake2Zone(row, strings) /\ ZoneName(row) = "blake2"
    BY <1>4 DEF Zone, ZoneName, Keccaks, Ascons, Blake2s, Blake3s
  <2>. QED
    BY <1>4, <2>1 DEF Blake2Zone, Keccaks, Ascons, Blake2s, Blake3s
<1>5. CASE row.fn \in Blake3s
  <2>1. Zone(row, strings) = Blake3Zone(row, strings) /\ ZoneName(row) = "blake3"
    BY <1>5 DEF Zone, ZoneName, Keccaks, Ascons, Blake2s, Blake3s
  <2>. QED
    BY <1>5, <2>1 DEF Blake3Zone, Keccaks, Ascons, Blake2s, Blake3s
<1>. QED
  BY <1>1, <1>2, <1>3, <1>4, <1>5

(* A key says which door it is of.                                         *)
LEMMA KeyOpens ==
  ASSUME NEW door, NEW row, NEW strings, Asked(door, row, strings)
  PROVE  KeyOf(door, row, strings)[1] = door
<1>1. CASE door = "row"
  BY <1>1 DEF KeyOf, OperandKmac
<1>2. CASE door = "zone"
  BY <1>2, ZoneIs DEF KeyOf, Asked, OperandKmac
<1>3. CASE door = "operand"
  BY <1>3 DEF KeyOf, OperandKmac
<1>. QED
  BY <1>1, <1>2, <1>3 DEF Asked

(* Through a zone.                                                         *)
LEMMA ZoneFits ==
  ASSUME NEW r, NEW s, NEW q, NEW t, Asked("zone", r, s), Asked("zone", q, t),
         Zone(r, s).key = Zone(q, t).key
  PROVE  /\ Zone(r, s).fixed = Zone(q, t).fixed
         /\ \A f \in Zone(r, s).fixed : WholeOf("zone", r, s)[f] = WholeOf("zone", q, t)[f]
<1>1. /\ r \in RowsBuilt /\ q \in RowsBuilt
      /\ r.fn \in Keccaks \cup Ascons \cup Blake2s \cup Blake3s
      /\ q.fn \in Keccaks \cup Ascons \cup Blake2s \cup Blake3s
  BY RowIs DEF Asked
<1>2. ZoneName(r) = ZoneName(q)
  BY <1>1, ZoneIs
<1>3. /\ FrameOf("zone", r, s) = Frame(r, s) /\ FrameOf("zone", q, t) = Frame(q, t)
      /\ OperandsOf("zone", r, s) = s /\ OperandsOf("zone", q, t) = t
  BY DEF FrameOf, OperandsOf, OperandKmac
<1>4. /\ WholeOf("zone", r, s) = Whole(r, Frame(r, s), s)
      /\ WholeOf("zone", q, t) = Whole(q, Frame(q, t), t)
  BY <1>3 DEF WholeOf
<1>5. CASE r.fn \in Keccaks
  <2>1. q.fn \in Keccaks
    BY <1>1, <1>2, <1>5 DEF ZoneName, Keccaks, Ascons, Blake2s, Blake3s
  <2>2. Zone(r, s) = KeccakZone(r, s) /\ Zone(q, t) = KeccakZone(q, t)
    BY <1>1, <1>5, <2>1, ZoneIs
  <2>3. r.rate = q.rate
    BY <2>2 DEF KeccakZone
  <2>4. InitialState(r) = InitialState(q)
    BY <1>5, <2>1, <2>3 DEF InitialState, Keccaks, Ascons, Blake2s, Blake3s
  <2>5. \A n \in Nat : Attributes(r, n) = <<>> /\ Attributes(q, n) = <<>>
    BY <1>5, <2>1 DEF Attributes, Keccaks, Blake2s, Blake3s
  <2>6. Zone(r, s).fixed = {"init", "attrs"} /\ Zone(q, t).fixed = {"init", "attrs"}
    BY <2>2 DEF KeccakZone
  <2>. QED
    BY <1>4, <2>4, <2>5, <2>6 DEF Whole
<1>6. CASE r.fn \in Ascons
  <2>1. q.fn = r.fn
    BY <1>1, <1>2, <1>6 DEF ZoneName, Keccaks, Ascons, Blake2s, Blake3s
  <2>2. Zone(r, s) = AsconZone(r, s) /\ Zone(q, t) = AsconZone(q, t)
    BY <1>1, <1>6, <2>1, ZoneIs
  <2>3. r.cust = q.cust /\ Shape(s) = Shape(t)
    BY <2>2 DEF AsconZone
  <2>4. InitialState(r) = InitialState(q)
    BY <1>6, <2>1 DEF InitialState, Keccaks, Ascons, Blake2s, Blake3s
  <2>5. \A n \in Nat : Attributes(r, n) = Attributes(q, n)
    BY <2>1, <1>6 DEF Attributes, Ascons, Blake2s, Blake3s
  <2>6. \A n \in Nat : PadTail(r, n) = PadTail(q, n)
    BY <2>1, <1>6 DEF PadTail, Ascons, Keccaks
  <2>7. Frame(r, s) = Frame(q, t)
    BY <2>1, <2>3, <1>6 DEF Frame, Ascons, Blake2s
  <2>8. /\ WholeOf("zone", r, s).pieces = WholeOf("zone", q, t).pieces
        /\ WholeOf("zone", r, s).attrs = WholeOf("zone", q, t).attrs
    BY <1>3, <2>3, <2>5, <2>6, <2>7, PartsFit
  <2>9. WholeOf("zone", r, s).init = WholeOf("zone", q, t).init
    BY <1>4, <2>4 DEF Whole
  <2>10. Zone(r, s).fixed = {"init", "pieces", "attrs"} /\ Zone(q, t).fixed = Zone(r, s).fixed
    BY <2>2 DEF AsconZone
  <2>. QED
    BY <2>8, <2>9, <2>10
<1>7. CASE r.fn \in Blake2s
  <2>1. q.fn \in Blake2s
    BY <1>1, <1>2, <1>7 DEF ZoneName, Keccaks, Ascons, Blake2s, Blake3s
  <2>2. Zone(r, s) = Blake2Zone(r, s) /\ Zone(q, t) = Blake2Zone(q, t)
    BY <1>1, <1>7, <2>1, ZoneIs
  <2>3. Len(Concatenated(Frame(r, s), s)) = Len(Concatenated(Frame(q, t), t))
    BY <2>2 DEF Blake2Zone, Length
  <2>4. \A n \in Nat : Attributes(r, n) = <<n>> /\ Attributes(q, n) = <<n>>
    BY <1>7, <2>1 DEF Attributes, Blake2s, Blake3s
  <2>5. Zone(r, s).fixed = {"attrs"} /\ Zone(q, t).fixed = {"attrs"}
    BY <2>2 DEF Blake2Zone
  <2>. QED
    BY <1>4, <2>3, <2>4, <2>5 DEF Whole
<1>8. CASE r.fn \in Blake3s
  <2>1. q.fn \in Blake3s
    BY <1>1, <1>2, <1>8 DEF ZoneName, Keccaks, Ascons, Blake2s, Blake3s
  <2>2. Zone(r, s) = Blake3Zone(r, s) /\ Zone(q, t) = Blake3Zone(q, t)
    BY <1>1, <1>8, <2>1, ZoneIs
  <2>3. /\ r.rate = q.rate /\ Shape(s) = Shape(t)
        /\ ModeOf(r).flags = ModeOf(q).flags /\ Finish(r) = Finish(q)
    BY <2>2 DEF Blake3Zone
  <2>4. \A n \in Nat : Attributes(r, n) = Attributes(q, n)
    BY <1>8, <2>1, <2>3 DEF Attributes, Blake2s, Blake3s
  <2>5. \A n \in Nat : PadTail(r, n) = PadTail(q, n)
    BY <2>1, <2>3, <1>8 DEF PadTail, Ascons, Keccaks, Blake3s
  <2>6. Frame(r, s) = << <<>>, <<>> >> /\ Frame(q, t) = << <<>>, <<>> >>
    BY <1>8, <2>1 DEF Frame, Blake2s, Blake3s
  <2>7. /\ WholeOf("zone", r, s).pieces = WholeOf("zone", q, t).pieces
        /\ WholeOf("zone", r, s).attrs = WholeOf("zone", q, t).attrs
    BY <1>3, <2>3, <2>4, <2>5, <2>6, PartsFit
  <2>8. Zone(r, s).fixed = {"pieces", "attrs"} /\ Zone(q, t).fixed = Zone(r, s).fixed
    BY <2>2 DEF Blake3Zone
  <2>. QED
    BY <2>7, <2>8
<1>. QED
  BY <1>1, <1>5, <1>6, <1>7, <1>8

(* With the key an operand, of which the trace knows the length.           *)
LEMMA OperandFits ==
  ASSUME NEW r, NEW s, NEW q, NEW t, Asked("operand", r, s), Asked("operand", q, t),
         KeyOf("operand", r, s) = KeyOf("operand", q, t)
  PROVE  /\ FixedOf("operand", r, s) = FixedOf("operand", q, t)
         /\ \A f \in FixedOf("operand", r, s) :
              WholeOf("operand", r, s)[f] = WholeOf("operand", q, t)[f]
<1>1. /\ r \in RowsBuilt /\ q \in RowsBuilt
      /\ r.fn \in {"KMAC", "Blake3Keyed"} /\ q.fn \in {"KMAC", "Blake3Keyed"}
      /\ s \in Seq(Strands) /\ t \in Seq(Strands)
      /\ r.key \in Strands /\ q.key \in Strands
  BY RowIs, RowAssumption DEF Asked, Strands
<1>2. Len(s) = 1 /\ Len(t) = 1
  BY <1>1 DEF Asked, Takes, Fits
<1>3. r.fn = q.fn /\ r.rate = q.rate /\ r.xof = q.xof
  BY <1>1 DEF KeyOf, TypeOf
<1>4. /\ r.out = q.out
      /\ Shape(<<r.key, s[1]>>) = Shape(<<q.key, t[1]>>)
      /\ r.fn = "KMAC" => r.cust = q.cust
  BY <1>1, <1>3 DEF KeyOf, OperandKmac
<1>5. Len(r.key) = Len(q.key) /\ Len(s[1]) = Len(t[1])
  <2>1. <<r.key, s[1]>> \in Seq(Strands) /\ <<q.key, t[1]>> \in Seq(Strands)
    <3>1. s[1] \in Strands /\ t[1] \in Strands
      <4>1. s \in Seq(Strands) /\ Len(s) = 1 /\ t \in Seq(Strands) /\ Len(t) = 1
        BY <1>1, <1>2
      <4>. QED
        BY <4>1
    <3>. QED
      BY <1>1, <3>1
  <2>2. \A i \in 1 .. 2 : Len(<<r.key, s[1]>>[i]) = Len(<<q.key, t[1]>>[i])
    BY <1>4, <2>1, ShapeIs
  <2>. QED
    BY <2>2
<1>6. \A n \in Nat : PadTail(r, n) = PadTail(q, n)
  <2>1. r.fn = "KMAC" => Suffix(r) = Suffix(q)
    BY <1>3 DEF Suffix
  <2>. QED
    BY <1>1, <1>3, <2>1 DEF PadTail, Keccaks, Ascons
<1>7. InitialState(r) = InitialState(q) \/ r.fn = "Blake3Keyed"
  BY <1>1, <1>3 DEF InitialState, Keccaks, Ascons, Blake2s, Blake3s
<1>8. \A n \in Nat : Attributes(r, n) = Attributes(q, n)
  <2>1. r.fn = "Blake3Keyed" => ModeOf(r).flags = ModeOf(q).flags /\ Finish(r) = Finish(q)
    BY <1>3 DEF ModeOf, KeyMode, Finish
  <2>. QED
    BY <1>1, <1>3, <2>1 DEF Attributes, Blake2s, Blake3s
<1>9. CASE r.fn = "KMAC"
  <2>1. OperandFrame(r) = OperandFrame(q)
    <3>1. LengthTail(r) = LengthTail(q)
      BY <1>3, <1>4 DEF LengthTail
    <3>. QED
      BY <1>3, <1>4, <1>5, <1>9, <3>1 DEF OperandFrame
  <2>2. OperandKmac("operand", r) /\ OperandKmac("operand", q)
    BY <1>3, <1>9 DEF OperandKmac
  <2>3. /\ FrameOf("operand", r, s) = FrameOf("operand", q, t)
        /\ OperandsOf("operand", r, s) = <<r.key, s[1]>>
        /\ OperandsOf("operand", q, t) = <<q.key, t[1]>>
    BY <2>1, <2>2 DEF FrameOf, OperandsOf
  <2>4. /\ WholeOf("operand", r, s).pieces = WholeOf("operand", q, t).pieces
        /\ WholeOf("operand", r, s).attrs = WholeOf("operand", q, t).attrs
    BY <1>4, <1>6, <1>8, <2>3, PartsFit
  <2>5. WholeOf("operand", r, s).init = WholeOf("operand", q, t).init
    BY <1>7, <1>9 DEF WholeOf, Whole
  <2>6. /\ FixedOf("operand", r, s) = {"init", "pieces", "attrs"}
        /\ FixedOf("operand", q, t) = {"init", "pieces", "attrs"}
    BY <2>2 DEF FixedOf
  <2>. QED
    BY <2>4, <2>5, <2>6
<1>10. CASE r.fn = "Blake3Keyed"
  <2>1. ~ OperandKmac("operand", r) /\ ~ OperandKmac("operand", q)
    BY <1>3, <1>10 DEF OperandKmac
  <2>2. /\ FrameOf("operand", r, s) = << <<>>, <<>> >>
        /\ FrameOf("operand", q, t) = << <<>>, <<>> >>
        /\ OperandsOf("operand", r, s) = s
        /\ OperandsOf("operand", q, t) = t
    BY <1>3, <1>10, <2>1 DEF FrameOf, OperandsOf, Frame, Blake2s
  <2>3. Shape(s) = Shape(t)
    BY <1>1, <1>2, <1>5 DEF Shape
  <2>4. /\ WholeOf("operand", r, s).pieces = WholeOf("operand", q, t).pieces
        /\ WholeOf("operand", r, s).attrs = WholeOf("operand", q, t).attrs
    BY <1>6, <1>8, <2>2, <2>3, PartsFit
  <2>5. /\ FixedOf("operand", r, s) = {"pieces", "attrs"}
        /\ FixedOf("operand", q, t) = {"pieces", "attrs"}
    BY <2>1 DEF FixedOf
  <2>. QED
    BY <2>4, <2>5
<1>. QED
  BY <1>1, <1>9, <1>10

(* Calls that share a trace agree on all it fixes.                         *)
LEMMA KeyFits ==
  ASSUME NEW d, NEW r, NEW s, NEW e, NEW q, NEW t, Asked(d, r, s), Asked(e, q, t),
         KeyOf(d, r, s) = KeyOf(e, q, t)
  PROVE  /\ FixedOf(d, r, s) = FixedOf(e, q, t)
         /\ \A f \in FixedOf(d, r, s) : WholeOf(d, r, s)[f] = WholeOf(e, q, t)[f]
<1>1. d = e
  <2>1. KeyOf(d, r, s)[1] = d /\ KeyOf(e, q, t)[1] = e
    BY KeyOpens
  <2>. QED
    BY <2>1
<1>2. CASE d = "row"
  <2>1. TypeOf(r) = TypeOf(q) /\ Parameters(r) = Parameters(q) /\ Shape(s) = Shape(t)
    BY <1>1, <1>2 DEF KeyOf, OperandKmac
  <2>2. Alike(r, q)
    BY <2>1, EqualRows DEF Asked
  <2>3. s \in Seq(Strands) /\ t \in Seq(Strands)
    BY RowAssumption DEF Asked, Strands
  <2>4. /\ InitialState(r) = InitialState(q)
        /\ \A n \in Nat : PadTail(r, n) = PadTail(q, n)
        /\ \A n \in Nat : Attributes(r, n) = Attributes(q, n)
        /\ Frame(r, s) = Frame(q, t)
    BY <2>1, <2>2, <2>3, AlikeRows
  <2>5. /\ FrameOf(d, r, s) = Frame(r, s) /\ FrameOf(d, q, t) = Frame(q, t)
        /\ OperandsOf(d, r, s) = s /\ OperandsOf(d, q, t) = t
    BY <1>2 DEF FrameOf, OperandsOf, OperandKmac
  <2>6. /\ WholeOf(d, r, s).pieces = WholeOf(d, q, t).pieces
        /\ WholeOf(d, r, s).attrs = WholeOf(d, q, t).attrs
    BY <1>1, <2>1, <2>4, <2>5, PartsFit
  <2>7. WholeOf(d, r, s).init = WholeOf(d, q, t).init
    BY <2>4 DEF WholeOf, Whole
  <2>8. /\ FixedOf(d, r, s) = {"init", "pieces", "attrs"}
        /\ FixedOf(d, q, t) = {"init", "pieces", "attrs"}
    BY <1>2 DEF FixedOf, OperandKmac
  <2>. QED
    BY <1>1, <2>6, <2>7, <2>8
<1>3. CASE d = "zone"
  <2>1. /\ KeyOf(d, r, s) = Zone(r, s).key /\ KeyOf(d, q, t) = Zone(q, t).key
        /\ FixedOf(d, r, s) = Zone(r, s).fixed /\ FixedOf(d, q, t) = Zone(q, t).fixed
    BY <1>3 DEF KeyOf, FixedOf, OperandKmac
  <2>. QED
    BY <1>1, <1>3, <2>1, ZoneFits
<1>4. CASE d = "operand"
  BY <1>1, <1>4, OperandFits
<1>. QED
  BY <1>2, <1>3, <1>4 DEF Asked

----------------------------------------------------------------------------
(* What a call absorbs.                                                    *)

(* A frame of two pieces.                                                  *)
LEMMA OneOperand ==
  ASSUME NEW a \in Strands, NEW b \in Strands, NEW m \in Strands
  PROVE  Concatenated(<<a, b>>, <<m>>) = (a \o m) \o b
<1>1. Around(<<a, b>>, <<m>>)
  BY DEF Around
<1>2. PICK f : Passes(f, <<a, b>>, <<m>>)
  BY <1>1, PassesExists
<1>3. Concatenated(<<a, b>>, <<m>>) = f[1] /\ f[0] = a
  BY <1>2 DEF Passes
<1>4. f[1] = (f[0] \o m) \o b
  <2>1. \A k \in 1 .. 1 : f[k] = (f[k - 1] \o <<m>>[k]) \o <<a, b>>[k + 1]
    BY <1>2 DEF Passes
  <2>. QED
    BY <2>1
<1>. QED
  BY <1>3, <1>4

(* A frame of three pieces.                                                *)
LEMMA TwoOperands ==
  ASSUME NEW p, NEW o, Around(p, o), Len(o) = 2
  PROVE  Concatenated(p, o) = (((p[1] \o o[1]) \o p[2]) \o o[2]) \o p[3]
<1>1. PICK f : Passes(f, p, o)
  BY PassesExists
<1>2. Concatenated(p, o) = f[2] /\ f[0] = p[1]
  BY <1>1 DEF Passes
<1>3. \A k \in 1 .. 2 : f[k] = (f[k - 1] \o o[k]) \o p[k + 1]
  BY <1>1 DEF Passes
<1>. DEFINE Step(k) == f[k] = (f[k - 1] \o o[k]) \o p[k + 1]
<1>4. Step(1) /\ Step(2)
  <2>1. \A k \in 1 .. 2 : Step(k)
    BY <1>3
  <2>. HIDE DEF Step
  <2>. QED
    BY <2>1
<1>5. 1 - 1 = 0 /\ 1 + 1 = 2 /\ 2 - 1 = 1 /\ 2 + 1 = 3
  OBVIOUS
<1>6. f[1] = (f[0] \o o[1]) \o p[2]
  BY <1>4, <1>5, Zenon
<1>7. f[2] = (f[1] \o o[2]) \o p[3]
  BY <1>4, <1>5, Zenon
<1>. QED
  BY <1>2, <1>6, <1>7

(* kmac128 and its siblings frame the key as bytepad does.                 *)
LEMMA OperandBytes ==
  ASSUME NEW row, NEW strings, Asked("operand", row, strings), row.fn = "KMAC"
  PROVE  Concatenated(OperandFrame(row), <<row.key, strings[1]>>)
           = Concatenated(Frame(row, strings), strings)
<1>. DEFINE x   == PrefixBlock(KmacName, row.cust, row.rate)
            y   == Bytepad(EncodeString(row.key), row.rate)
            h   == SplitHead(Len(row.key), row.rate)
            z   == Zeros(SplitFill(Len(row.key), row.rate))
            m   == strings[1]
            key == row.key
            l   == LengthTail(row)
<1>1. row \in RowsBuilt /\ row.rate \in Nat \ {0} /\ key \in Strands
  BY RowIs DEF Asked, Sized, Keccaks
<1>2. strings \in Seq(Strands) /\ Len(strings) = 1
  BY RowAssumption DEF Strands, Asked, Takes, Fits
<1>3. m \in Strands /\ strings = <<m>>
  <2>1. m \in Strands
    BY <1>2
  <2>2. strings = <<strings[1]>>
    BY <1>2
  <2>. QED
    BY <2>1, <2>2
<1>4. x \in Strands /\ l \in Strands
  BY <1>1, RowIs, PrefixBlockIs, LengthTailIs
<1>5. h \in Strands /\ z \in Strands /\ (h \o key) \o z = y
  BY <1>1, RowIs, SplitIs
<1>6. OperandFrame(row) = <<x \o h, z, l>>
  BY DEF OperandFrame
<1>7. Frame(row, strings) = <<x \o y, l>>
  BY DEF Frame, KmacFrame, Blake2s
<1>. HIDE DEF x, y, h, z, m, l, key
<1>8. x \o h \in Strands /\ h \o key \in Strands /\ (h \o key) \o z \in Strands
  BY <1>1, <1>4, <1>5, Strung
<1>9. x \o y \in Strands
  BY <1>4, <1>5, <1>8, Strung
<1>10. Concatenated(<<x \o h, z, l>>, <<key, m>>) = ((((x \o h) \o key) \o z) \o m) \o l
  <2>. DEFINE a == x \o h
  <2>1. a \in Strands /\ z \in Strands /\ l \in Strands /\ key \in Strands /\ m \in Strands
    BY <1>1, <1>3, <1>4, <1>5, <1>8
  <2>. HIDE DEF a
  <2>. DEFINE p == <<a, z, l>>
              o == <<key, m>>
  <2>2. Around(p, o) /\ Len(o) = 2
    BY <2>1 DEF Around
  <2>3. p[1] = a /\ p[2] = z /\ p[3] = l /\ o[1] = key /\ o[2] = m
    OBVIOUS
  <2>. HIDE DEF p, o
  <2>4. Concatenated(p, o) = (((p[1] \o o[1]) \o p[2]) \o o[2]) \o p[3]
    BY <2>2, TwoOperands
  <2>. QED
    BY <2>3, <2>4 DEF a, p, o
<1>11. Concatenated(<<x \o y, l>>, <<m>>) = ((x \o y) \o m) \o l
  BY <1>3, <1>4, <1>9, OneOperand
<1>12. ((x \o h) \o key) \o z = x \o y
  <2>1. (x \o h) \o key = x \o (h \o key)
    <3>1. x \in Seq(Bytes) /\ h \in Seq(Bytes) /\ key \in Seq(Bytes)
      BY <1>1, <1>4, <1>5 DEF Strands
    <3>. QED
      BY <3>1, ConcatAssoc
  <2>2. (x \o (h \o key)) \o z = x \o ((h \o key) \o z)
    <3>. DEFINE w == h \o key
    <3>1. w \in Seq(Bytes) /\ x \in Seq(Bytes) /\ z \in Seq(Bytes)
      BY <1>4, <1>5, <1>8 DEF Strands
    <3>. HIDE DEF w
    <3>2. (x \o w) \o z = x \o (w \o z)
      BY <3>1, ConcatAssoc
    <3>. QED
      BY <3>2 DEF w
  <2>. QED
    BY <1>5, <2>1, <2>2
<1>. QED
  BY <1>3, <1>6, <1>7, <1>10, <1>11, <1>12 DEF key, m

(* Through any door a call absorbs its own framing, then its padding.      *)
LEMMA WholeIs ==
  ASSUME NEW door, NEW row, NEW strings, Asked(door, row, strings)
  PROVE  LET whole == WholeOf(door, row, strings)
             body  == Concatenated(Frame(row, strings), strings)
         IN  /\ body \in Strands /\ Len(body) \in Nat
             /\ DOMAIN whole = {"init", "pieces", "attrs", "operands"}
             /\ whole.init = InitialState(row)
             /\ whole.attrs = Attributes(row, Len(body))
             /\ Concatenated(whole.pieces, whole.operands)
                  = body \o PadTail(row, Len(body))
<1>. DEFINE whole == WholeOf(door, row, strings)
            body  == Concatenated(Frame(row, strings), strings)
            frame == FrameOf(door, row, strings)
            ops   == OperandsOf(door, row, strings)
<1>1. Around(frame, ops)
  BY OperandsFit
<1>2. Concatenated(frame, ops) = body
  <2>1. CASE OperandKmac(door, row)
    BY <2>1, OperandBytes DEF OperandKmac, FrameOf, OperandsOf
  <2>2. CASE ~ OperandKmac(door, row)
    BY <2>2 DEF FrameOf, OperandsOf
  <2>. QED
    BY <2>1, <2>2
<1>3. /\ DOMAIN whole = {"init", "pieces", "attrs", "operands"}
      /\ whole.init = InitialState(row)
      /\ whole.pieces = Padded(row, frame, ops)
      /\ whole.attrs = Attributes(row, Len(Concatenated(frame, ops)))
      /\ whole.operands = ops
  BY DEF WholeOf, Whole
<1>4. row \in RowsBuilt
  BY DEF Asked
<1>. HIDE DEF whole, body, frame, ops
<1>5. body \in Strands /\ Len(body) \in Nat
  <2>1. Concatenated(frame, ops) \in Strands
    <3>1. /\ Len(ops) = Len(ops)
          /\ \A i \in 1 .. Len(ops) : Len(ops[i]) = Len(ops[i])
          /\ \A i \in 1 .. Len(ops) + 1 : Len(frame[i]) = Len(frame[i])
      OBVIOUS
    <3>. QED
      BY <1>1, <3>1, ConcatenatedLength
  <2>. QED
    BY <1>2, <2>1 DEF Strands
<1>6. Concatenated(Padded(row, frame, ops), ops) = body \o PadTail(row, Len(body))
  <2>. DEFINE pad == PadTail(row, Len(body))
  <2>1. pad \in Strands /\ pad = PadTail(row, Len(Concatenated(frame, ops)))
    BY <1>2, <1>4, <1>5, PadIs
  <2>. HIDE DEF pad
  <2>2. Concatenated(Padded(row, frame, ops), ops) = Concatenated(frame, ops) \o pad
    BY <1>1, <2>1, PaddedIs
  <2>. QED
    BY <1>2, <2>2 DEF pad
<1>7. /\ whole.attrs = Attributes(row, Len(body))
      /\ Concatenated(whole.pieces, whole.operands) = body \o PadTail(row, Len(body))
  BY <1>2, <1>3, <1>6
<1>. QED
  BY <1>3, <1>5, <1>7 DEF whole, body

----------------------------------------------------------------------------
(* Byte strings taken apart again.                                         *)

(* Concatenation may be bracketed either way.                              *)
LEMMA Assoc ==
  ASSUME NEW x \in Strands, NEW y \in Strands, NEW z \in Strands
  PROVE  (x \o y) \o z = x \o (y \o z)
BY ConcatAssoc DEF Strands

(* Nothing adds nothing.                                                   *)
LEMMA NothingAdded ==
  ASSUME NEW x \in Strands
  PROVE  x \o <<>> = x /\ <<>> \o x = x /\ <<>> \in Strands
BY ConcatEmptySeq, EmptySeq DEF Strands

(* The middle of a string.                                                 *)
LEMMA Middle ==
  ASSUME NEW s \in Strands, NEW t \in Strands, NEW r \in Strands
  PROVE  SubSeq((s \o t) \o r, Len(s) + 1, Len(s) + Len(t)) = t
<1>. DEFINE u  == (s \o t) \o r
            m  == Len(s)
            n  == Len(t)
            o  == Len(r)
            lo == m + 1
            hi == m + n
            a  == SubSeq(u, lo, hi)
<1>1. m \in Nat /\ n \in Nat /\ o \in Nat /\ t \in Seq(Bytes) /\ Len(t) = n
  BY DEF Strands
<1>2. u \in Seq(Bytes) /\ Len(u) = m + n + o /\ \A i \in 1 .. n : u[m + i] = t[i]
  <2>. DEFINE v == s \o t
  <2>1. /\ v \in Seq(Bytes) /\ Len(v) = m + n
        /\ \A i \in 1 .. m + n : v[i] = IF i <= m THEN s[i] ELSE t[i - m]
    BY ConcatProperties DEF Strands
  <2>. HIDE DEF v
  <2>2. /\ v \o r \in Seq(Bytes) /\ Len(v \o r) = Len(v) + o
        /\ \A i \in 1 .. Len(v) + o : (v \o r)[i] = IF i <= Len(v) THEN v[i] ELSE r[i - Len(v)]
    <3>1. r \in Seq(Bytes) /\ v \in Seq(Bytes)
      BY <2>1 DEF Strands
    <3>. HIDE DEF m, n, u
    <3>. QED
      BY <3>1, ConcatProperties
  <2>3. u = v \o r
    BY DEF v
  <2>. HIDE DEF u, m, n, o
  <2>4. ASSUME NEW i \in 1 .. n
        PROVE  u[m + i] = t[i]
    <3>1. m + i \in 1 .. m + n /\ m + i \in 1 .. m + n + o /\ ~ m + i <= m /\ (m + i) - m = i
      BY <1>1
    <3>. QED
      BY <2>1, <2>2, <2>3, <3>1
  <2>. QED
    BY <2>1, <2>2, <2>3, <2>4
<1>3. lo \in Int /\ hi \in Int /\ lo = m + 1 /\ hi = m + n
  BY <1>1
<1>4. \A i \in lo .. hi : u[i] \in Bytes
  <2>. HIDE DEF u, m, n, o, lo, hi
  <2>1. DOMAIN u = 1 .. m + n + o /\ \A i \in 1 .. m + n + o : u[i] \in Bytes
    BY <1>2
  <2>. QED
    BY <1>1, <1>3, <2>1
<1>. HIDE DEF lo, hi, u, m, n, o
<1>5. /\ a \in Seq(Bytes) /\ Len(a) = IF lo <= hi THEN hi - lo + 1 ELSE 0
      /\ \A i \in 1 .. hi - lo + 1 : a[i] = u[lo + i - 1]
  BY <1>3, <1>4, SubSeqProperties
<1>6. a = t
  <2>. HIDE DEF a
  <2>1. Len(a) = n
    BY <1>1, <1>3, <1>5
  <2>2. ASSUME NEW i \in 1 .. n
        PROVE  a[i] = t[i]
    <3>1. i \in 1 .. hi - lo + 1 /\ lo + i - 1 = m + i
      BY <1>1, <1>3
    <3>. QED
      BY <1>2, <1>5, <3>1
  <2>. QED
    BY <1>1, <1>5, <2>1, <2>2, SeqEqual
<1>. QED
  BY <1>6 DEF a, lo, hi, u, m, n

(* The first part of a string, and the rest.                               *)
LEMMA TakeDrop ==
  ASSUME NEW s \in Strands, NEW t \in Strands
  PROVE  /\ Take(s \o t, Len(s)) = s
         /\ Drop(s \o t, Len(s)) = t
<1>. DEFINE u == s \o t
            m == Len(s)
<1>1. u \in Strands /\ Len(u) = m + Len(t) /\ m \in Nat /\ Len(t) \in Nat
  BY Strung
<1>2. u = (<<>> \o s) \o t /\ u = (s \o t) \o <<>> /\ Len(<<>>) = 0 /\ <<>> \in Strands
  BY <1>1, NothingAdded
<1>. HIDE DEF u
<1>3. SubSeq(u, 0 + 1, 0 + m) = s /\ SubSeq(u, m + 1, m + Len(t)) = t
  BY <1>2, Middle
<1>. HIDE DEF m
<1>4. Take(u, m) = s
  <2>1. (IF m < Len(u) THEN m ELSE Len(u)) = m /\ 0 + 1 = 1 /\ 0 + m = m
    BY <1>1
  <2>. QED
    BY <1>3, <2>1 DEF Take
<1>5. Drop(u, m) = t
  BY <1>1, <1>3 DEF Drop
<1>. QED
  BY <1>4, <1>5 DEF u, m

----------------------------------------------------------------------------
(* Numbers and their digits.                                               *)

(* One digit more is Base times as many numbers.                           *)
LEMMA DigitsGrow ==
  /\ Digits(0) = 1
  /\ \A n \in Nat : Digits(n + 1) = Digits(n) * Base
<1>1. Bits \in Nat /\ Base = PowerOfTwo[Bits]
  BY EncodingAssumption
<1>2. Digits(0) = 1
  <2>1. Bits * 0 = 0
    BY <1>1
  <2>. QED
    BY <2>1, Doubling DEF Digits
<1>3. ASSUME NEW n \in Nat
      PROVE  Digits(n + 1) = Digits(n) * Base
  <2>1. Bits * n \in Nat /\ Bits * (n + 1) = Bits * n + Bits
    BY <1>1
  <2>2. PowerOfTwo[Bits * n + Bits] = PowerOfTwo[Bits * n] * PowerOfTwo[Bits]
    BY <1>1, <2>1, PowersAdd
  <2>. QED
    BY <1>1, <2>1, <2>2 DEF Digits
<1>. QED
  BY <1>2, <1>3

(* The running totals of a number read digit by digit.                     *)
Sums(f, digits) ==
  f = [k \in 0 .. Len(digits) |-> IF k = 0 THEN 0 ELSE f[k - 1] * Base + digits[k]]

(* What digits spell, one more of them at a time.                          *)
LEMMA ValueIs ==
  ASSUME NEW d \in Strands
  PROVE  \E f : /\ f \in [0 .. Len(d) -> Nat] /\ f[0] = 0 /\ Value(d) = f[Len(d)]
                /\ \A k \in 1 .. Len(d) : f[k] = f[k - 1] * Base + d[k]
<1>. DEFINE n == Len(d)
            F == [k \in 1 .. n |-> [x \in Nat |-> x * Base + d[k]]]
            f == CHOOSE g : Sums(g, d)
<1>1. n \in Nat /\ 0 \in Nat /\ Base \in Nat /\ \A k \in 1 .. n : d[k] \in Nat
  <2>1. d \in Seq(Bytes) /\ Base \in Nat
    BY BaseIs DEF Strands
  <2>2. \A b \in Bytes : b \in Nat
    BY <2>1 DEF Bytes
  <2>3. n \in Nat /\ \A k \in 1 .. n : d[k] \in Bytes
    BY <2>1
  <2>. QED
    BY <2>1, <2>2, <2>3
<1>2. F \in [1 .. n -> [Nat -> Nat]]
  <2>1. ASSUME NEW k \in 1 .. n, NEW x \in Nat
        PROVE  x * Base + d[k] \in Nat
    BY <1>1
  <2>. QED
    BY <2>1
<1>. HIDE DEF n
<1>3. PICK g : g \in [0 .. n -> Nat] /\ g[0] = 0 /\ Recurs(g, n, F)
  <2>. HIDE DEF F
  <2>. QED
    BY <1>1, <1>2, RecursionExists
<1>4. Sums(g, d)
  <2>1. ASSUME NEW k \in 0 .. n
        PROVE  g[k] = IF k = 0 THEN 0 ELSE g[k - 1] * Base + d[k]
    <3>1. CASE k # 0
      <4>0. k \in 1 .. n /\ k - 1 \in 0 .. n
        BY <1>1, <3>1
      <4>1. k \in 1 .. n /\ g[k - 1] \in Nat
        BY <1>3, <4>0
      <4>2. g[k] = F[k][g[k - 1]]
        BY <1>3, <4>1 DEF Recurs
      <4>. QED
        BY <3>1, <4>1, <4>2
    <3>. QED
      BY <1>3, <3>1
  <2>2. g = [k \in 0 .. n |-> g[k]]
    BY <1>3
  <2>. QED
    BY <2>1, <2>2 DEF Sums, n
<1>5. Value(d) = f[n]
  BY DEF Value, Sums, n
<1>6. Sums(f, d)
  BY <1>4
<1>. HIDE DEF f, F
<1>7. /\ f[0] = 0 /\ f = [k \in 0 .. n |-> f[k]]
      /\ \A k \in 1 .. n : f[k] = f[k - 1] * Base + d[k]
  <2>0. f = [k \in 0 .. n |-> f[k]]
    BY <1>6 DEF Sums, n
  <2>1. \A k \in 0 .. n : f[k] = IF k = 0 THEN 0 ELSE f[k - 1] * Base + d[k]
    BY <1>6 DEF Sums, n
  <2>2. 0 \in 0 .. n /\ \A k \in 1 .. n : k \in 0 .. n /\ k # 0
    BY <1>1
  <2>. QED
    BY <2>0, <2>1, <2>2
<1>. DEFINE T == {k \in Nat : k <= n => f[k] \in Nat}
<1>8. 0 \in T
  BY <1>7
<1>9. ASSUME NEW k \in T
      PROVE  k + 1 \in T
  <2>1. SUFFICES ASSUME k + 1 <= n
                 PROVE  f[k + 1] \in Nat
    OBVIOUS
  <2>2. k \in Nat /\ k + 1 \in 1 .. n /\ (k + 1) - 1 = k /\ f[k] \in Nat
    BY <1>1, <2>1
  <2>3. f[k + 1] = f[k] * Base + d[k + 1]
    BY <1>7, <2>2
  <2>. QED
    BY <1>1, <2>2, <2>3
<1>10. T = Nat
  <2>1. T \in SUBSET Nat
    OBVIOUS
  <2>. HIDE DEF T
  <2>. QED
    BY <1>8, <1>9, <2>1, Induction
<1>11. f \in [0 .. n -> Nat]
  <2>1. \A k \in 0 .. n : f[k] \in Nat
    BY <1>1, <1>10
  <2>. QED
    BY <1>7, <2>1
<1>. QED
  BY <1>5, <1>7, <1>11 DEF n

(* The digits of a number that has no more spell it.                       *)
LEMMA DigitsSpell ==
  ASSUME NEW x \in Nat, NEW n \in Nat, x < Digits(n)
  PROVE  Value(BigEndian(x, n)) = x
<1>. DEFINE d == BigEndian(x, n)
<1>1. d \in Strands /\ Len(d) = n
  BY BigEndianIs
<1>2. \A k \in 1 .. n : d[k] = (x \div Digits(n - k)) % Base
  BY DEF BigEndian
<1>. HIDE DEF d
<1>3. PICK f : /\ f \in [0 .. n -> Nat] /\ f[0] = 0 /\ Value(d) = f[n]
               /\ \A k \in 1 .. n : f[k] = f[k - 1] * Base + d[k]
  BY <1>1, ValueIs
<1>4. Base \in Nat \ {0} /\ \A i \in Nat : Digits(i) \in Nat \ {0}
  BY BaseIs
<1>. DEFINE T == {k \in Nat : k <= n => f[k] = x \div Digits(n - k)}
<1>5. 0 \in T
  <2>1. n - 0 = n /\ x \in 0 .. Digits(n) - 1 /\ x = 0 * Digits(n) + x /\ 0 \in Int
    BY <1>4
  <2>2. (0 * Digits(n) + x) \div Digits(n) = 0
    BY <1>4, <2>1, DivModUnique
  <2>. QED
    BY <1>3, <2>1, <2>2
<1>6. ASSUME NEW k \in T
      PROVE  k + 1 \in T
  <2>1. SUFFICES ASSUME k + 1 <= n
                 PROVE  f[k + 1] = x \div Digits(n - (k + 1))
    OBVIOUS
  <2>. DEFINE i == n - (k + 1)
              q == x \div Digits(i)
  <2>2. /\ k \in Nat /\ k + 1 \in 1 .. n /\ (k + 1) - 1 = k /\ f[k] = x \div Digits(n - k)
        /\ i \in Nat /\ n - k = i + 1
    BY <2>1
  <2>3. f[k + 1] = f[k] * Base + d[k + 1] /\ d[k + 1] = q % Base
    BY <1>2, <1>3, <2>2
  <2>4. f[k] = x \div (Digits(i) * Base)
    BY <2>2, DigitsGrow
  <2>. HIDE DEF i
  <2>5. q \in Nat /\ x \div (Digits(i) * Base) = q \div Base
    <3>. DEFINE D == Digits(i)
    <3>1. D \in Nat \ {0}
      BY <1>4, <2>2
    <3>. HIDE DEF D
    <3>2. x \div D \in Nat /\ (x \div D) \div Base = x \div (D * Base)
      BY <1>4, <3>1, DivTwice
    <3>. QED
      BY <3>2 DEF D
  <2>. HIDE DEF q, T
  <2>6. q = (q \div Base) * Base + (q % Base)
    BY <1>4, <2>5, DivModNat
  <2>7. f[k + 1] = q
    BY <2>3, <2>4, <2>5, <2>6
  <2>. QED
    BY <2>7 DEF q, i
<1>7. T = Nat
  <2>1. T \in SUBSET Nat
    OBVIOUS
  <2>. HIDE DEF T
  <2>. QED
    BY <1>5, <1>6, <2>1, Induction
<1>8. f[n] = x \div Digits(0)
  <2>1. n \in T /\ n - n = 0
    BY <1>7
  <2>. QED
    BY <2>1
<1>9. x \div Digits(0) = x
  BY DigitsGrow
<1>. QED
  BY <1>3, <1>8, <1>9 DEF d

----------------------------------------------------------------------------
(* What was encoded is read back, whatever follows or precedes it.         *)

(* left_encode is its count and its digits,                                *)
LEMMA LeftPieces ==
  ASSUME NEW x, Encodable(x)
  PROVE  LET n == EncodeLength(x)
             b == BigEndian(x, n)
         IN  /\ LeftEncode(x) = <<n>> \o b /\ RightEncode(x) = b \o <<n>>
             /\ n \in Nat /\ b \in Strands /\ Len(b) = n /\ Value(b) = x
             /\ <<n>> \in Strands /\ Len(<<n>>) = 1
<1>. DEFINE n == EncodeLength(x)
            b == BigEndian(x, n)
<1>1. n \in Nat /\ n \in Bytes /\ x \in Nat /\ x < Digits(n)
  BY EncodeLengthIs, BaseIs DEF Bytes, Encodable
<1>. HIDE DEF n
<1>2. b \in Strands /\ Len(b) = n /\ Value(b) = x
  BY <1>1, BigEndianIs, DigitsSpell
<1>3. <<n>> \in Strands /\ Len(<<n>>) = 1
  BY <1>1 DEF Strands
<1>4. LeftEncode(x) = <<n>> \o b /\ RightEncode(x) = b \o <<n>>
  BY DEF LeftEncode, RightEncode, n
<1>. QED
  BY <1>1, <1>2, <1>3, <1>4 DEF n

(* so it is read from the front,                                           *)
LEMMA LeftRead ==
  ASSUME NEW x, Encodable(x), NEW t \in Strands
  PROVE  ReadLeft(LeftEncode(x) \o t) = [value |-> x, rest |-> t]
<1>. DEFINE n == EncodeLength(x)
            b == BigEndian(x, n)
            s == LeftEncode(x) \o t
<1>1. /\ LeftEncode(x) = <<n>> \o b
      /\ n \in Nat /\ b \in Strands /\ Len(b) = n /\ Value(b) = x
      /\ <<n>> \in Strands /\ Len(<<n>>) = 1
  BY LeftPieces
<1>. HIDE DEF n, b
<1>. DEFINE h == <<n>>
            l == LeftEncode(x)
<1>0. l = h \o b /\ h \in Strands /\ Len(h) = 1 /\ s = l \o t
  BY <1>1
<1>2. s = h \o (b \o t) /\ b \o t \in Strands
  <2>. HIDE DEF h, l, s
  <2>1. (h \o b) \o t = h \o (b \o t) /\ b \o t \in Strands
    <3>1. (h \o b) \o t = h \o (b \o t)
      BY <1>0, <1>1, Assoc
    <3>2. b \o t \in Strands
      BY <1>0, <1>1, Strung
    <3>. QED
      BY <3>1, <3>2
  <2>. QED
    BY <1>0, <2>1
<1>3. s \in Strands /\ l \in Strands /\ Len(l) = n + 1
      /\ Len(s) = n + 1 + Len(t) /\ Len(t) \in Nat
  <2>. HIDE DEF h, l, s
  <2>1. l \in Strands /\ Len(l) = 1 + n
    BY <1>0, <1>1, Strung
  <2>2. s \in Strands /\ Len(s) = Len(l) + Len(t) /\ Len(t) \in Nat
    BY <1>0, <2>1, Strung
  <2>. QED
    BY <1>1, <2>1, <2>2
<1>4. s # <<>> /\ s \in Seq(Bytes)
  BY <1>1, <1>3 DEF Strands
<1>5. Head(s) = n
  <2>1. s[1] = n
    <3>1. <<n>> \in Seq(Bytes) /\ b \o t \in Seq(Bytes)
      BY <1>1, <1>2 DEF Strands
    <3>2. 1 \in 1 .. Len(<<n>>) /\ <<n>>[1] = n
      BY <1>1
    <3>3. (<<n>> \o (b \o t))[1] = <<n>>[1]
      BY <3>1, <3>2, ConcatElements
    <3>. QED
      BY <1>2, <3>2, <3>3
  <2>. HIDE DEF s
  <2>. QED
    BY <1>4, <2>1
<1>6. Tail(s) = b \o t
  <2>1. Tail(s) = SubSeq(s, 2, Len(s))
    <3>. HIDE DEF s
    <3>. QED
      BY <1>4, TailIsSubSeq
  <2>2. Drop(s, 1) = b \o t
    BY <1>1, <1>2, TakeDrop
  <2>. QED
    BY <2>1, <2>2 DEF Drop
<1>7. Take(Tail(s), n) = b
  BY <1>1, <1>6, TakeDrop
<1>8. Drop(s, n + 1) = t
  <2>1. Drop(LeftEncode(x) \o t, Len(LeftEncode(x))) = t
    BY <1>3, TakeDrop
  <2>. QED
    BY <1>3, <2>1
<1>. HIDE DEF s
<1>9. ReadLeft(s) = [value |-> x, rest |-> t]
  BY <1>1, <1>4, <1>5, <1>7, <1>8 DEF ReadLeft
<1>. QED
  BY <1>9 DEF s

(* and right_encode from the end.                                          *)
LEMMA RightRead ==
  ASSUME NEW x, Encodable(x), NEW t \in Strands
  PROVE  ReadRight(t \o RightEncode(x)) = [value |-> x, rest |-> t]
<1>. DEFINE n == EncodeLength(x)
            b == BigEndian(x, n)
            s == t \o RightEncode(x)
            k == Len(s) - n - 1
<1>1. /\ RightEncode(x) = b \o <<n>>
      /\ n \in Nat /\ b \in Strands /\ Len(b) = n /\ Value(b) = x
      /\ <<n>> \in Strands /\ Len(<<n>>) = 1
  BY LeftPieces
<1>. HIDE DEF n, b
<1>2. s = (t \o b) \o <<n>> /\ t \o b \in Strands
  <2>. DEFINE h == <<n>>
  <2>1. h \in Strands /\ s = t \o (b \o h)
    BY <1>1
  <2>. HIDE DEF h, s
  <2>2. (t \o b) \o h = t \o (b \o h) /\ t \o b \in Strands
    <3>1. (t \o b) \o h = t \o (b \o h)
      BY <1>1, <2>1, Assoc
    <3>2. t \o b \in Strands
      BY <1>1, <2>1, Strung
    <3>. QED
      BY <3>1, <3>2
  <2>. QED
    BY <2>1, <2>2 DEF h
<1>3. /\ s \in Strands /\ RightEncode(x) \in Strands /\ Len(t \o b) = Len(t) + n
      /\ Len(s) = Len(t) + n + 1 /\ Len(t) \in Nat
  BY <1>1, <1>2, Strung
<1>4. s # <<>> /\ s \in Seq(Bytes) /\ k = Len(t)
  BY <1>1, <1>3 DEF Strands
<1>5. Last(s) = n
  <2>1. t \o b \in Seq(Bytes) /\ <<n>> \in Seq(Bytes)
    BY <1>1, <1>2 DEF Strands
  <2>. DEFINE a == t \o b
  <2>2. a \in Seq(Bytes) /\ Len(a) \in Nat /\ s = a \o <<n>> /\ Len(s) = Len(a) + 1
    BY <1>1, <1>2, <1>3, <2>1
  <2>. HIDE DEF a, s
  <2>3. s[Len(a) + 1] = n
    BY <1>1, <2>1, <2>2
  <2>. QED
    BY <2>2, <2>3 DEF Last
<1>6. SubSeq(s, k + 1, k + n) = b
  <2>1. SubSeq((t \o b) \o <<n>>, Len(t) + 1, Len(t) + Len(b)) = b
    BY <1>1, Middle
  <2>. QED
    BY <1>1, <1>2, <1>4, <2>1
<1>7. Take(s, k) = t
  BY <1>3, <1>4, TakeDrop
<1>. HIDE DEF s
<1>8. ~ k < 0
  BY <1>3, <1>4
<1>9. ReadRight(s) = [value |-> x, rest |-> t]
  BY <1>1, <1>4, <1>5, <1>6, <1>7, <1>8 DEF ReadRight
<1>. QED
  BY <1>9 DEF s

(* A string is as long as its length says.                                 *)
LEMMA StringRead ==
  ASSUME NEW s \in Strands, Encodable(Bits * Len(s)), NEW t \in Strands
  PROVE  ReadString(EncodeString(s) \o t) = [string |-> s, rest |-> t]
<1>. DEFINE x == Bits * Len(s)
            l == LeftEncode(x)
            u == EncodeString(s) \o t
<1>1. l \in Strands
  BY LeftEncodeIs
<1>2. x \div Bits = Len(s)
  <2>. DEFINE n == Len(s)
  <2>1. n \in Nat /\ Bits \in Nat \ {0}
    BY BaseIs, LenProperties DEF Strands
  <2>. HIDE DEF n
  <2>2. (n * Bits + 0) \div Bits = n
    <3>1. n \in Int /\ 0 \in 0 .. Bits - 1
      BY <2>1
    <3>. QED
      BY <2>1, <3>1, DivModUnique
  <2>3. Bits * n = n * Bits + 0
    BY <2>1
  <2>. QED
    BY <2>2, <2>3 DEF n
<1>3. u = l \o (s \o t) /\ s \o t \in Strands
  <2>1. u = l \o (s \o t)
    BY <1>1, Assoc DEF EncodeString
  <2>2. s \o t \in Strands
    BY <1>1, Strung DEF EncodeString
  <2>. QED
    BY <2>1, <2>2
<1>. HIDE DEF l, u
<1>4. ReadLeft(u) = [value |-> x, rest |-> s \o t]
  BY <1>3, LeftRead DEF l
<1>. HIDE DEF x
<1>5. Take(s \o t, x \div Bits) = s /\ Drop(s \o t, x \div Bits) = t
  BY <1>2, TakeDrop
<1>6. ReadLeft(u).value = x /\ ReadLeft(u).rest = s \o t
  BY <1>4
<1>7. ReadString(u) = [string |-> s, rest |-> t]
  BY <1>5, <1>6 DEF ReadString
<1>. QED
  BY <1>7 DEF u

(* One string more.                                                        *)
LEMMA MoreRead ==
  ASSUME NEW s \in Strands, Encodable(Bits * Len(s)), NEW t \in Strands, NEW a
  PROVE  ReadMore([strings |-> a, rest |-> EncodeString(s) \o t])
           = [strings |-> Append(a, s), rest |-> t]
<1>. DEFINE u == EncodeString(s) \o t
            r == [strings |-> a, rest |-> u]
<1>1. ReadString(u) = [string |-> s, rest |-> t]
  BY StringRead
<1>2. r.strings = a /\ r.rest = u
  OBVIOUS
<1>. HIDE DEF u, r
<1>3. ReadMore(r) = [strings |-> Append(a, s), rest |-> t]
  BY <1>1, <1>2 DEF ReadMore
<1>. QED
  BY <1>3 DEF u, r

----------------------------------------------------------------------------
(* A bytepad.                                                              *)

(* What is left behind the width a bytepad opens with.                     *)
OpenedPad(s) == [strings |-> <<>>, rest |-> ReadLeft(s).rest]

(* What is left of it past its last block, once some of it has been read.  *)
ClosedPad(s, read) ==
  LET w    == ReadLeft(s)
      used == Len(s) - Len(read.rest)
  IN  [strings |-> read.strings,
       rest    |-> IF w.value = 0 THEN read.rest ELSE Drop(s, used + Fill(used, w.value))]

(* What is left of it after each string read.                              *)
PadReads(f, s, count) ==
  f = [k \in 0 .. count |-> IF k = 0 THEN OpenedPad(s) ELSE ReadMore(f[k - 1])]

(* Reading one string of it, or two.                                       *)
LEMMA PadReadIs ==
  ASSUME NEW s
  PROVE  /\ ReadBytepad(s, 1) = ClosedPad(s, ReadMore(OpenedPad(s)))
         /\ ReadBytepad(s, 2) = ClosedPad(s, ReadMore(ReadMore(OpenedPad(s))))
<1>. DEFINE f(count) == CHOOSE g : PadReads(g, s, count)
            a == OpenedPad(s)
            b == ReadMore(a)
            c == ReadMore(b)
<1>1. ASSUME NEW count
      PROVE  ReadBytepad(s, count) = ClosedPad(s, f(count)[count])
  BY DEF ReadBytepad, ClosedPad, PadReads, OpenedPad
<1>2. PadReads(f(1), s, 1)
  <2>. DEFINE g == [k \in 0 .. 1 |-> IF k = 0 THEN a ELSE b]
  <2>1. PadReads(g, s, 1)
    <3>1. ASSUME NEW k \in 0 .. 1
          PROVE  g[k] = IF k = 0 THEN a ELSE ReadMore(g[k - 1])
      <4>1. CASE k = 0
        BY <4>1
      <4>2. CASE k = 1
        <5>1. g[0] = a /\ g[1] = b /\ 1 - 1 = 0
          OBVIOUS
        <5>. QED
          BY <4>2, <5>1
      <4>. QED
        BY <4>1, <4>2
    <3>2. g = [k \in 0 .. 1 |-> g[k]]
      OBVIOUS
    <3>. HIDE DEF g
    <3>. QED
      BY <3>1, <3>2 DEF PadReads
  <2>. HIDE DEF g
  <2>. QED
    BY <2>1
<1>3. PadReads(f(2), s, 2)
  <2>. DEFINE g == [k \in 0 .. 2 |-> IF k = 0 THEN a ELSE IF k = 1 THEN b ELSE c]
  <2>1. PadReads(g, s, 2)
    <3>1. ASSUME NEW k \in 0 .. 2
          PROVE  g[k] = IF k = 0 THEN a ELSE ReadMore(g[k - 1])
      <4>0. g[0] = a /\ g[1] = b /\ g[2] = c /\ 1 - 1 = 0 /\ 2 - 1 = 1
        OBVIOUS
      <4>1. CASE k = 0
        BY <4>0, <4>1
      <4>2. CASE k = 1
        BY <4>0, <4>2
      <4>3. CASE k = 2
        BY <4>0, <4>3
      <4>. QED
        BY <4>1, <4>2, <4>3
    <3>2. g = [k \in 0 .. 2 |-> g[k]]
      OBVIOUS
    <3>. HIDE DEF g
    <3>. QED
      BY <3>1, <3>2 DEF PadReads
  <2>. HIDE DEF g
  <2>. QED
    BY <2>1
<1>. HIDE DEF f
<1>4. f(1)[1] = b
  <2>1. f(1)[0] = a /\ f(1)[1] = ReadMore(f(1)[1 - 1])
    BY <1>2 DEF PadReads
  <2>2. 1 - 1 = 0
    OBVIOUS
  <2>. QED
    BY <2>1, <2>2
<1>5. f(2)[2] = c
  <2>1. f(2)[0] = a /\ f(2)[1] = ReadMore(f(2)[1 - 1]) /\ f(2)[2] = ReadMore(f(2)[2 - 1])
    BY <1>3 DEF PadReads
  <2>2. 1 - 1 = 0 /\ 2 - 1 = 1
    OBVIOUS
  <2>. QED
    BY <2>1, <2>2
<1>. QED
  BY <1>1, <1>4, <1>5

(* Behind a string that has been read, the rest of a bytepad is zeros and  *)
(* then what followed it.                                                  *)
Filling(x, w) == Zeros(Fill(Len(LeftEncode(w) \o x), w))

(* A bytepad opens on what it was given, and closes behind its last block. *)
LEMMA PadClosed ==
  ASSUME NEW x \in Strands, NEW w \in Nat \ {0}, Encodable(w), NEW t \in Strands, NEW a
  PROVE  /\ OpenedPad(Bytepad(x, w) \o t)
              = [strings |-> <<>>, rest |-> x \o (Filling(x, w) \o t)]
         /\ Filling(x, w) \o t \in Strands
         /\ ClosedPad(Bytepad(x, w) \o t, [strings |-> a, rest |-> Filling(x, w) \o t])
              = [strings |-> a, rest |-> t]
<1>. DEFINE o == Filling(x, w)
            s == Bytepad(x, w) \o t
            l == LeftEncode(w)
            z == l \o x
            n == Fill(Len(z), w)
<1>1. l \in Strands
  BY LeftEncodeIs
<1>2. o = Zeros(n) /\ s = (z \o o) \o t
  BY DEF Bytepad, Filling
<1>3. z = l \o x /\ z \in Strands /\ Len(z) \in Nat
  <2>. HIDE DEF l
  <2>1. l \o x \in Strands
    BY <1>1, Strung
  <2>. QED
    BY <2>1, LenProperties DEF Strands
<1>. HIDE DEF l, z, o, s
<1>4. o \in Strands /\ Len(o) = n /\ n \in Nat
  BY <1>2, <1>3, FillIs, ZerosAre
<1>5. Fill(Len(z), w) = n
  OBVIOUS
<1>. HIDE DEF n
<1>6. s = z \o (o \o t) /\ o \o t \in Strands
  <2>0. z \in Strands /\ o \in Strands
    BY <1>3, <1>4
  <2>1. (z \o o) \o t = z \o (o \o t) /\ o \o t \in Strands
    <3>1. (z \o o) \o t = z \o (o \o t)
      BY <2>0, Assoc
    <3>2. o \o t \in Strands
      BY <2>0, Strung
    <3>. QED
      BY <3>1, <3>2
  <2>. QED
    BY <1>2, <2>1
<1>. DEFINE q == o \o t
<1>7. q = o \o t /\ q \in Strands /\ s = z \o q
  BY <1>6
<1>. HIDE DEF q
<1>8. s = l \o (x \o q) /\ x \o q \in Strands
  <2>0. q \in Strands
    BY <1>7
  <2>1. (l \o x) \o q = l \o (x \o q) /\ x \o q \in Strands
    <3>1. (l \o x) \o q = l \o (x \o q)
      BY <1>1, <2>0, Assoc
    <3>2. x \o q \in Strands
      BY <1>1, <2>0, Strung
    <3>. QED
      BY <3>1, <3>2
  <2>. QED
    BY <1>3, <1>7, <2>1
<1>9. ReadLeft(s) = [value |-> w, rest |-> x \o q]
  BY <1>8, LeftRead DEF l
<1>10. Len(s) - Len(q) = Len(z)
  <2>1. Len(s) = Len(z) + Len(q) /\ Len(q) \in Nat
    BY <1>3, <1>7, Strung
  <2>. QED
    BY <1>3, <2>1
<1>11. Drop(s, Len(z) + n) = t
  <2>. DEFINE p == z \o o
  <2>1. p \in Strands /\ Len(p) = Len(z) + n
    <3>1. z \in Strands /\ o \in Strands
      BY <1>3, <1>4
    <3>2. p \in Strands /\ Len(p) = Len(z) + Len(o)
      BY <3>1, Strung
    <3>. QED
      BY <1>4, <3>2
  <2>2. s = p \o t
    BY <1>2
  <2>. HIDE DEF p
  <2>. QED
    BY <2>1, <2>2, TakeDrop
<1>12. OpenedPad(s) = [strings |-> <<>>, rest |-> x \o q]
  BY <1>9 DEF OpenedPad
<1>13. ClosedPad(s, [strings |-> a, rest |-> q]) = [strings |-> a, rest |-> t]
  <2>. DEFINE r == [strings |-> a, rest |-> q]
  <2>1. r.strings = a /\ r.rest = q
    OBVIOUS
  <2>2. ReadLeft(s).value = w
    BY <1>9
  <2>. HIDE DEF r
  <2>3. Len(s) - Len(r.rest) = Len(z)
    BY <1>10, <2>1
  <2>. QED
    BY <1>5, <1>11, <2>1, <2>2, <2>3 DEF ClosedPad, r
<1>. QED
  BY <1>7, <1>12, <1>13 DEF o, s

(* A bytepad is read back: of one string,                                  *)
LEMMA PadRead ==
  ASSUME NEW a \in Strands, Encodable(Bits * Len(a)), NEW w \in Nat \ {0}, Encodable(w),
         NEW t \in Strands
  PROVE  ReadBytepad(Bytepad(EncodeString(a), w) \o t, 1) = [strings |-> <<a>>, rest |-> t]
<1>. DEFINE enc  == EncodeString(a)
            pad  == Bytepad(enc, w) \o t
            left == Filling(enc, w) \o t
<1>1. enc \in Strands
  BY EncodeStringIs
<1>2. /\ OpenedPad(pad) = [strings |-> <<>>, rest |-> enc \o left]
      /\ left \in Strands
      /\ ClosedPad(pad, [strings |-> <<a>>, rest |-> left]) = [strings |-> <<a>>, rest |-> t]
  <2>. DEFINE got == <<a>>
  <2>. HIDE DEF enc, got
  <2>1. /\ OpenedPad(Bytepad(enc, w) \o t) = [strings |-> <<>>, rest |-> enc \o (Filling(enc, w) \o t)]
        /\ Filling(enc, w) \o t \in Strands
        /\ ClosedPad(Bytepad(enc, w) \o t, [strings |-> got, rest |-> Filling(enc, w) \o t])
             = [strings |-> got, rest |-> t]
    BY <1>1, PadClosed
  <2>. QED
    BY <2>1 DEF got
<1>. HIDE DEF pad, left
<1>3. ReadMore(OpenedPad(pad)) = [strings |-> Append(<<>>, a), rest |-> left]
  <2>1. ReadMore([strings |-> <<>>, rest |-> enc \o left])
          = [strings |-> Append(<<>>, a), rest |-> left]
    BY <1>2, MoreRead
  <2>. QED
    BY <1>2, <2>1
<1>4. Append(<<>>, a) = <<a>>
  OBVIOUS
<1>5. ReadBytepad(pad, 1) = [strings |-> <<a>>, rest |-> t]
  BY <1>2, <1>3, <1>4, PadReadIs
<1>. QED
  BY <1>5 DEF pad

(* and of two.                                                             *)
LEMMA PadReadTwo ==
  ASSUME NEW a \in Strands, Encodable(Bits * Len(a)),
         NEW b \in Strands, Encodable(Bits * Len(b)),
         NEW w \in Nat \ {0}, Encodable(w), NEW t \in Strands
  PROVE  ReadBytepad(Bytepad(EncodeString(a) \o EncodeString(b), w) \o t, 2)
           = [strings |-> <<a, b>>, rest |-> t]
<1>. DEFINE first  == EncodeString(a)
            second == EncodeString(b)
            enc    == first \o second
            pad    == Bytepad(enc, w) \o t
            left   == Filling(enc, w) \o t
            mid    == second \o left
<1>1. first \in Strands /\ second \in Strands
  BY EncodeStringIs
<1>2. enc = first \o second /\ mid = second \o left
  OBVIOUS
<1>3. enc \in Strands
  <2>. HIDE DEF first, second
  <2>. QED
    BY <1>1, Strung
<1>4. /\ OpenedPad(pad) = [strings |-> <<>>, rest |-> enc \o left]
      /\ left \in Strands
      /\ ClosedPad(pad, [strings |-> <<a, b>>, rest |-> left])
           = [strings |-> <<a, b>>, rest |-> t]
  <2>. DEFINE got == <<a, b>>
  <2>. HIDE DEF enc, got
  <2>1. /\ OpenedPad(Bytepad(enc, w) \o t) = [strings |-> <<>>, rest |-> enc \o (Filling(enc, w) \o t)]
        /\ Filling(enc, w) \o t \in Strands
        /\ ClosedPad(Bytepad(enc, w) \o t, [strings |-> got, rest |-> Filling(enc, w) \o t])
             = [strings |-> got, rest |-> t]
    BY <1>3, PadClosed, SMTT(90)
  <2>. QED
    BY <2>1 DEF got
<1>. HIDE DEF pad, left, mid, enc
<1>5. enc \o left = first \o mid /\ mid \in Strands
  <2>. HIDE DEF first, second
  <2>1. left \in Strands
    BY <1>4
  <2>2. (first \o second) \o left = first \o (second \o left)
    BY <1>1, <2>1, Assoc, ZenonT(60)
  <2>3. second \o left \in Strands
    BY <1>1, <2>1, Strung
  <2>. QED
    BY <1>2, <2>2, <2>3
<1>6. ReadMore(OpenedPad(pad)) = [strings |-> Append(<<>>, a), rest |-> mid]
  <2>1. ReadMore([strings |-> <<>>, rest |-> first \o mid])
          = [strings |-> Append(<<>>, a), rest |-> mid]
    BY <1>5, MoreRead
  <2>. QED
    BY <1>4, <1>5, <2>1
<1>7. ReadMore([strings |-> Append(<<>>, a), rest |-> mid])
        = [strings |-> Append(Append(<<>>, a), b), rest |-> left]
  <2>. DEFINE got == Append(<<>>, a)
  <2>. HIDE DEF got
  <2>1. ReadMore([strings |-> got, rest |-> second \o left])
          = [strings |-> Append(got, b), rest |-> left]
    BY <1>4, MoreRead
  <2>. QED
    BY <1>2, <2>1 DEF got
<1>8. Append(Append(<<>>, a), b) = <<a, b>>
  <2>. DEFINE got == <<a>>
  <2>1. Append(<<>>, a) = got
    OBVIOUS
  <2>2. Append(got, b) = <<a, b>>
    <3>1. got \in Seq({a, b}) /\ Len(got) = 1 /\ got[1] = a
      OBVIOUS
    <3>. HIDE DEF got
    <3>2. Tabulated(got, 1)
      <4>1. got = [i \in 1 .. 1 |-> got[i]]
        BY <3>1
      <4>. QED
        BY <4>1 DEF Tabulated
    <3>3. Append(got, b) = [i \in 1 .. 1 + 1 |-> IF i <= 1 THEN got[i] ELSE b]
      BY <3>2, AppendTabulated
    <3>. QED
      BY <3>1, <3>3
  <2>. QED
    BY <2>1, <2>2
<1>9. ReadBytepad(pad, 2) = [strings |-> <<a, b>>, rest |-> t]
  BY <1>4, <1>6, <1>7, <1>8, PadReadIs
<1>. QED
  BY <1>9 DEF pad, enc

----------------------------------------------------------------------------
(* Padding read from the end.                                              *)

(* A string that ends in zeros has one last nonzero byte.                  *)
LEMMA LastNonzeroIs ==
  ASSUME NEW s, NEW n \in Nat, Len(s) = n, NEW k \in 1 .. n, s[k] # 0,
         \A q \in k + 1 .. n : s[q] = 0
  PROVE  LastNonzero(s) = k
<1>. DEFINE P(p) == /\ p > 0 => s[p] # 0
                    /\ \A q \in p + 1 .. Len(s) : s[q] = 0
<1>1. k \in 0 .. Len(s) /\ P(k)
  OBVIOUS
<1>2. ASSUME NEW p \in 0 .. Len(s), P(p)
      PROVE  p = k
  <2>1. ~ p < k
    BY <1>2
  <2>2. ~ k < p
    BY <1>2
  <2>. QED
    BY <2>1, <2>2
<1>. QED
  BY <1>1, <1>2 DEF LastNonzero

(* The byte a tail closes with, over its head byte if they are one byte.   *)
Closing(final_bit) == IF final_bit THEN Base \div 2 ELSE 0

(* Without its closing bit a padded string is the string, the head byte    *)
(* and zeros.                                                              *)
LEMMA PadRemoved ==
  ASSUME NEW m \in Strands, NEW n \in Nat, NEW w \in Nat \ {0}, NEW head \in Nat \ {0},
         NEW final_bit \in BOOLEAN, head < Base, final_bit => head < Base \div 2
  PROVE  Unpadded(m \o SpongeTail(n, w, head, final_bit), Closing(final_bit))
           = [suffix |-> head, payload |-> m]
<1>. DEFINE tail == SpongeTail(n, w, head, final_bit)
            size == w - (n % w)
            k    == Len(m) + 1
            all  == Len(m) + size
            s    == m \o tail
            c    == Closing(final_bit)
            bare == [s EXCEPT ![Len(s)] = @ - c]
<1>1. tail \in Strands /\ Len(tail) = size /\ size \in Nat \ {0}
  <2>0. head \in Nat
    OBVIOUS
  <2>1. /\ SpongeTail(n, w, head, final_bit) \in Strands
        /\ Len(SpongeTail(n, w, head, final_bit)) = w - (n % w)
        /\ Len(SpongeTail(n, w, head, final_bit)) \in Nat \ {0}
    <3>1. CASE final_bit
      <4>1. head < Base \div 2 /\ TRUE \in BOOLEAN
        BY <3>1
      <4>2. /\ SpongeTail(n, w, head, TRUE) \in Strands
            /\ Len(SpongeTail(n, w, head, TRUE)) = w - (n % w)
            /\ Len(SpongeTail(n, w, head, TRUE)) \in Nat \ {0}
        BY <2>0, <4>1, SpongeTailIs
      <4>3. final_bit = TRUE
        BY <3>1
      <4>. QED
        BY <4>2, <4>3, Zenon
    <3>2. CASE ~ final_bit
      <4>1. FALSE \in BOOLEAN
        OBVIOUS
      <4>2. /\ SpongeTail(n, w, head, FALSE) \in Strands
            /\ Len(SpongeTail(n, w, head, FALSE)) = w - (n % w)
            /\ Len(SpongeTail(n, w, head, FALSE)) \in Nat \ {0}
        BY <2>0, <4>1, SpongeTailIs
      <4>3. final_bit = FALSE
        BY <3>2
      <4>. QED
        BY <4>2, <4>3, Zenon
    <3>. QED
      BY <3>1, <3>2
  <2>. HIDE DEF tail, size
  <2>. QED
    BY <2>1 DEF tail, size
<1>2. \A j \in 1 .. size : tail[j] = (IF j = 1 THEN head ELSE 0)
                                     + (IF final_bit /\ j = size THEN Base \div 2 ELSE 0)
  BY DEF SpongeTail
<1>3. c \in Nat /\ c = IF final_bit THEN Base \div 2 ELSE 0
  BY BaseIs DEF Closing
<1>4. Len(m) \in Nat /\ s \in Seq(Bytes) /\ Len(s) = all
      /\ \A j \in 1 .. size : s[Len(m) + j] = tail[j]
  <2>1. m \in Seq(Bytes) /\ tail \in Seq(Bytes)
    BY <1>1 DEF Strands
  <2>2. /\ s \in Seq(Bytes) /\ Len(s) = Len(m) + Len(tail)
        /\ \A j \in 1 .. Len(tail) : s[Len(m) + j] = tail[j]
    BY <2>1, ConcatElements
  <2>. QED
    BY <1>1, <2>1, <2>2
<1>5. Take(s, k - 1) = m
  <2>1. Take(s, Len(m)) = m
    BY <1>1, TakeDrop
  <2>2. k - 1 = Len(m)
    BY <1>4
  <2>. QED
    BY <2>1, <2>2
<1>. HIDE DEF tail, size, s, c
<1>6. /\ all \in Nat /\ k \in 1 .. all
      /\ bare = [i \in 1 .. all |-> IF i = all THEN s[i] - c ELSE s[i]]
  <2>1. all \in Nat /\ k \in 1 .. all
    BY <1>1, <1>4
  <2>2. DOMAIN s = 1 .. all /\ Len(s) = all
    BY <1>4
  <2>. HIDE DEF all
  <2>. QED
    BY <2>1, <2>2
<1>. HIDE DEF bare
<1>7. Len(bare) = all
  BY <1>6
<1>8. bare[k] = head
  <2>1. s[k] = tail[1]
    BY <1>1, <1>4
  <2>2. tail[1] = head + (IF final_bit /\ 1 = size THEN c ELSE 0)
    BY <1>1, <1>2, <1>3
  <2>3. k = all <=> 1 = size
    BY <1>1, <1>4
  <2>4. ~final_bit => c = 0
    BY <1>3
  <2>. QED
    BY <1>3, <1>6, <2>1, <2>2, <2>3, <2>4
<1>9. ASSUME NEW q \in k + 1 .. all
      PROVE  bare[q] = 0
  <2>. DEFINE j == q - Len(m)
  <2>1. j \in 2 .. size /\ q = Len(m) + j /\ (q = all <=> j = size)
    BY <1>1, <1>4
  <2>. HIDE DEF j
  <2>2. s[q] = IF final_bit /\ j = size THEN c ELSE 0
    <3>1. j \in 1 .. size /\ j # 1
      BY <2>1
    <3>2. tail[j] = IF final_bit /\ j = size THEN c ELSE 0
      BY <1>2, <1>3, <3>1
    <3>. QED
      BY <1>4, <2>1, <3>1, <3>2
  <2>3. q \in 1 .. all
    BY <1>4
  <2>4. bare[q] = IF q = all THEN s[q] - c ELSE s[q]
    BY <1>6, <2>3
  <2>5. ~final_bit => c = 0
    BY <1>3
  <2>. QED
    BY <1>3, <2>1, <2>2, <2>4, <2>5
<1>. HIDE DEF k, all
<1>10. LastNonzero(bare) = k
  BY <1>6, <1>7, <1>8, <1>9, LastNonzeroIs
<1>11. k # 0
  BY <1>6
<1>12. Unpadded(s, c) = [suffix |-> head, payload |-> m]
  <2>1. Unpadded(s, c) = [suffix |-> IF LastNonzero(bare) = 0 THEN 0 ELSE bare[LastNonzero(bare)],
                          payload |-> Take(s, LastNonzero(bare) - 1)]
    BY DEF Unpadded, bare
  <2>. QED
    BY <1>5, <1>8, <1>10, <1>11, <2>1
<1>. QED
  BY <1>12 DEF s, tail, c

----------------------------------------------------------------------------
(* What is read from what a row absorbs.                                   *)

(* A row written out.                                                      *)
RowWith(fn, rate, xof, out, name, cust, key, salt, person) ==
  [fn |-> fn, rate |-> rate, xof |-> xof, out |-> out, name |-> name, cust |-> cust,
   key |-> key, salt |-> salt, person |-> person]

(* A row is its fields.                                                    *)
LEMMA RowFields ==
  ASSUME NEW row \in RowsBuilt
  PROVE  row = RowWith(row.fn, row.rate, row.xof, row.out, row.name, row.cust, row.key,
                       row.salt, row.person)
BY RowAssumption DEF RowType, RowWith

(* The rows the readers build.                                             *)
LEMMA BlankIs == Blank = RowWith("", 0, FALSE, 0, <<>>, <<>>, <<>>, <<>>, <<>>)
BY DEF Blank, RowWith

(* which update fields of the blank one, a FIPS 202 row's,                 *)
LEMMA RowPlain ==
  ASSUME NEW f, NEW w
  PROVE  [Blank EXCEPT !.fn = f, !.rate = w]
           = RowWith(f, w, FALSE, 0, <<>>, <<>>, <<>>, <<>>, <<>>)
<1>. DEFINE nil    == ""
            nought == 0
            no     == FALSE
            none   == <<>>
            a == [Blank EXCEPT !.fn = f]
            b == [a EXCEPT !.rate = w]
<1>0. Blank = RowWith(nil, nought, no, nought, none, none, none, none, none)
  BY BlankIs
<1>. HIDE DEF nil, nought, no, none
<1>1. a = RowWith(f, nought, no, nought, none, none, none, none, none)
  BY <1>0 DEF RowWith
<1>2. b = RowWith(f, w, no, nought, none, none, none, none, none)
  <2>. HIDE DEF a
  <2>. QED
    BY <1>1 DEF RowWith
<1>3. [Blank EXCEPT !.fn = f, !.rate = w] = b
  OBVIOUS
<1>. HIDE DEF b
<1>. QED
  BY <1>2, <1>3 DEF nil, nought, no, none

(* an Ascon row's,                                                         *)
LEMMA RowAscon ==
  ASSUME NEW f
  PROVE  [Blank EXCEPT !.fn = f]
           = RowWith(f, 0, FALSE, 0, <<>>, <<>>, <<>>, <<>>, <<>>)
<1>. DEFINE nil    == ""
            nought == 0
            no     == FALSE
            none   == <<>>
            a == [Blank EXCEPT !.fn = f]
<1>0. Blank = RowWith(nil, nought, no, nought, none, none, none, none, none)
  BY BlankIs
<1>. HIDE DEF nil, nought, no, none
<1>1. a = RowWith(f, nought, no, nought, none, none, none, none, none)
  BY <1>0 DEF RowWith
<1>. QED
  BY <1>1 DEF nil, nought, no, none

(* Ascon-CXOF128's,                                                        *)
LEMMA RowCxof ==
  ASSUME NEW f, NEW c
  PROVE  [Blank EXCEPT !.fn = f, !.cust = c]
           = RowWith(f, 0, FALSE, 0, <<>>, c, <<>>, <<>>, <<>>)
<1>. DEFINE nil    == ""
            nought == 0
            no     == FALSE
            none   == <<>>
            a == [Blank EXCEPT !.fn = f]
            b == [a EXCEPT !.cust = c]
<1>0. Blank = RowWith(nil, nought, no, nought, none, none, none, none, none)
  BY BlankIs
<1>. HIDE DEF nil, nought, no, none
<1>1. a = RowWith(f, nought, no, nought, none, none, none, none, none)
  BY <1>0 DEF RowWith
<1>2. b = RowWith(f, nought, no, nought, none, c, none, none, none)
  <2>. HIDE DEF a
  <2>. QED
    BY <1>1 DEF RowWith
<1>3. [Blank EXCEPT !.fn = f, !.cust = c] = b
  OBVIOUS
<1>. HIDE DEF b
<1>. QED
  BY <1>2, <1>3 DEF nil, nought, no, none

(* cSHAKE's,                                                               *)
LEMMA RowCShake ==
  ASSUME NEW w, NEW c, NEW n
  PROVE  [[Blank EXCEPT !.rate = w, !.cust = c] EXCEPT !.fn = "cSHAKE", !.name = n]
           = RowWith("cSHAKE", w, FALSE, 0, n, c, <<>>, <<>>, <<>>)
<1>. DEFINE nil    == ""
            nought == 0
            no     == FALSE
            none   == <<>>
            a == [Blank EXCEPT !.rate = w]
            b == [a EXCEPT !.cust = c]
            d == [b EXCEPT !.fn = "cSHAKE"]
            e == [d EXCEPT !.name = n]
<1>0. Blank = RowWith(nil, nought, no, nought, none, none, none, none, none)
  BY BlankIs
<1>. HIDE DEF nil, nought, no, none
<1>1. a = RowWith(nil, w, no, nought, none, none, none, none, none)
  BY <1>0 DEF RowWith
<1>2. b = RowWith(nil, w, no, nought, none, c, none, none, none)
  <2>. HIDE DEF a
  <2>. QED
    BY <1>1 DEF RowWith
<1>3. d = RowWith("cSHAKE", w, no, nought, none, c, none, none, none)
  <2>. HIDE DEF b
  <2>. QED
    BY <1>2 DEF RowWith
<1>4. e = RowWith("cSHAKE", w, no, nought, n, c, none, none, none)
  <2>. HIDE DEF d
  <2>. QED
    BY <1>3 DEF RowWith
<1>5. [Blank EXCEPT !.rate = w, !.cust = c] = b
  OBVIOUS
<1>6. [b EXCEPT !.fn = "cSHAKE", !.name = n] = e
  <2>. HIDE DEF b
  <2>. QED
    OBVIOUS
<1>. HIDE DEF b, e
<1>. QED
  BY <1>4, <1>5, <1>6 DEF nil, nought, no, none

(* BLAKE2's,                                                               *)
Blake2Row(w, o, k, s, p) ==
  [Blank EXCEPT !.fn = "Blake2", !.rate = w, !.out = o, !.key = k, !.salt = s, !.person = p]

(* which are written out as this,                                          *)
LEMMA RowBlake2 ==
  ASSUME NEW w, NEW o, NEW k, NEW s, NEW p
  PROVE  Blake2Row(w, o, k, s, p) = RowWith("Blake2", w, FALSE, o, <<>>, <<>>, k, s, p)
<1>. DEFINE nil    == ""
            nought == 0
            no     == FALSE
            none   == <<>>
            a == [Blank EXCEPT !.fn = "Blake2"]
            b == [a EXCEPT !.rate = w]
            d == [b EXCEPT !.out = o]
            e == [d EXCEPT !.key = k]
            g == [e EXCEPT !.salt = s]
            h == [g EXCEPT !.person = p]
<1>0. Blank = RowWith(nil, nought, no, nought, none, none, none, none, none)
  BY BlankIs
<1>. HIDE DEF nil, nought, no, none
<1>1. a = RowWith("Blake2", nought, no, nought, none, none, none, none, none)
  BY <1>0 DEF RowWith
<1>2. b = RowWith("Blake2", w, no, nought, none, none, none, none, none)
  <2>. HIDE DEF a
  <2>. QED
    BY <1>1 DEF RowWith
<1>3. d = RowWith("Blake2", w, no, o, none, none, none, none, none)
  <2>. HIDE DEF b
  <2>. QED
    BY <1>2 DEF RowWith
<1>4. e = RowWith("Blake2", w, no, o, none, none, k, none, none)
  <2>. HIDE DEF d
  <2>. QED
    BY <1>3 DEF RowWith
<1>5. g = RowWith("Blake2", w, no, o, none, none, k, s, none)
  <2>. HIDE DEF e
  <2>. QED
    BY <1>4 DEF RowWith
<1>6. h = RowWith("Blake2", w, no, o, none, none, k, s, p)
  <2>. HIDE DEF g
  <2>. QED
    BY <1>5 DEF RowWith
<1>7. Blake2Row(w, o, k, s, p) = h
  BY DEF Blake2Row
<1>. HIDE DEF h
<1>. QED
  BY <1>6, <1>7 DEF nil, nought, no, none

(* keyed BLAKE3's,                                                         *)
LEMMA RowKeyed ==
  ASSUME NEW w, NEW k
  PROVE  [[Blank EXCEPT !.rate = w] EXCEPT !.fn = "Blake3Keyed", !.key = k]
           = RowWith("Blake3Keyed", w, FALSE, 0, <<>>, <<>>, k, <<>>, <<>>)
<1>. DEFINE nil    == ""
            nought == 0
            no     == FALSE
            none   == <<>>
            a == [Blank EXCEPT !.rate = w]
            b == [a EXCEPT !.fn = "Blake3Keyed"]
            d == [b EXCEPT !.key = k]
<1>0. Blank = RowWith(nil, nought, no, nought, none, none, none, none, none)
  BY BlankIs
<1>. HIDE DEF nil, nought, no, none
<1>1. a = RowWith(nil, w, no, nought, none, none, none, none, none)
  BY <1>0 DEF RowWith
<1>2. b = RowWith("Blake3Keyed", w, no, nought, none, none, none, none, none)
  <2>. HIDE DEF a
  <2>. QED
    BY <1>1 DEF RowWith
<1>3. d = RowWith("Blake3Keyed", w, no, nought, none, none, k, none, none)
  <2>. HIDE DEF b
  <2>. QED
    BY <1>2 DEF RowWith
<1>4. [a EXCEPT !.fn = "Blake3Keyed", !.key = k] = d
  <2>. HIDE DEF a
  <2>. QED
    OBVIOUS
<1>. HIDE DEF d
<1>. QED
  BY <1>3, <1>4 DEF nil, nought, no, none

(* deriving BLAKE3's,                                                      *)
LEMMA RowDerive ==
  ASSUME NEW w, NEW c
  PROVE  [[Blank EXCEPT !.rate = w] EXCEPT !.fn = "Blake3DeriveKey", !.cust = c]
           = RowWith("Blake3DeriveKey", w, FALSE, 0, <<>>, c, <<>>, <<>>, <<>>)
<1>. DEFINE nil    == ""
            nought == 0
            no     == FALSE
            none   == <<>>
            a == [Blank EXCEPT !.rate = w]
            b == [a EXCEPT !.fn = "Blake3DeriveKey"]
            d == [b EXCEPT !.cust = c]
<1>0. Blank = RowWith(nil, nought, no, nought, none, none, none, none, none)
  BY BlankIs
<1>. HIDE DEF nil, nought, no, none
<1>1. a = RowWith(nil, w, no, nought, none, none, none, none, none)
  BY <1>0 DEF RowWith
<1>2. b = RowWith("Blake3DeriveKey", w, no, nought, none, none, none, none, none)
  <2>. HIDE DEF a
  <2>. QED
    BY <1>1 DEF RowWith
<1>3. d = RowWith("Blake3DeriveKey", w, no, nought, none, c, none, none, none)
  <2>. HIDE DEF b
  <2>. QED
    BY <1>2 DEF RowWith
<1>4. [a EXCEPT !.fn = "Blake3DeriveKey", !.cust = c] = d
  <2>. HIDE DEF a
  <2>. QED
    OBVIOUS
<1>. HIDE DEF d
<1>. QED
  BY <1>3, <1>4 DEF nil, nought, no, none

(* and every other BLAKE3 row's.                                           *)
LEMMA RowBlake3 ==
  ASSUME NEW w, NEW f
  PROVE  [[Blank EXCEPT !.rate = w] EXCEPT !.fn = f]
           = RowWith(f, w, FALSE, 0, <<>>, <<>>, <<>>, <<>>, <<>>)
<1>. DEFINE nil    == ""
            nought == 0
            no     == FALSE
            none   == <<>>
            a == [Blank EXCEPT !.rate = w]
            b == [a EXCEPT !.fn = f]
<1>0. Blank = RowWith(nil, nought, no, nought, none, none, none, none, none)
  BY BlankIs
<1>. HIDE DEF nil, nought, no, none
<1>1. a = RowWith(nil, w, no, nought, none, none, none, none, none)
  BY <1>0 DEF RowWith
<1>2. b = RowWith(f, w, no, nought, none, none, none, none, none)
  <2>. HIDE DEF a
  <2>. QED
    BY <1>1 DEF RowWith
<1>. QED
  BY <1>2 DEF nil, nought, no, none

(* Which fields of a row are blank.                                        *)
LEMMA TrimmedIs ==
  ASSUME NEW row \in RowsBuilt
  PROVE  /\ row.fn # "cSHAKE" => row.name = <<>>
         /\ row.fn \notin {"cSHAKE", "KMAC", "TupleHash", "AsconCxof128", "Blake3DeriveKey"} =>
              row.cust = <<>>
         /\ row.fn \notin {"KMAC", "Blake3Keyed"} \cup Blake2s => row.key = <<>>
         /\ row.fn \notin Blake2s => row.salt = <<>> /\ row.person = <<>>
         /\ row.fn \notin {"KMAC", "TupleHash"} => row.xof = FALSE
         /\ row.fn \in Ascons => row.rate = 0
<1>1. Trimmed(row) /\ row.xof \in BOOLEAN
  BY RowAssumption, RowIs
<1>. QED
  BY <1>1 DEF Trimmed

(* A field of BLAKE2's parameter block.                                    *)
Filled(s, n) == s \o Zeros(n - Len(s))

(* What a digest binds of a row.                                           *)
LEMMA CanonicalIs ==
  ASSUME NEW row \in RowsBuilt
  PROVE  /\ row.fn = "cSHAKE" /\ row.name = <<>> /\ row.cust = <<>> =>
              Canonical(row) = RowWith("SHAKE", row.rate, row.xof, 0, row.name, row.cust,
                                       row.key, row.salt, row.person)
         /\ row.fn \in Blake2s =>
              Canonical(row) = RowWith("Blake2", row.rate, row.xof, row.out, row.name, row.cust,
                                       row.key, Filled(row.salt, SaltSize(row)),
                                       Filled(row.person, SaltSize(row)))
         /\ row.fn \notin Blake2s
            /\ ~ (row.fn = "cSHAKE" /\ row.name = <<>> /\ row.cust = <<>>) =>
              Canonical(row) = RowWith(row.fn, row.rate, row.xof,
                                       IF row.fn \in {"KMAC", "TupleHash"} /\ ~ row.xof
                                         THEN row.out ELSE 0,
                                       row.name, row.cust, row.key, row.salt, row.person)
<1>. DEFINE f == row.fn
            w == row.rate
            x == row.xof
            o == row.out
            n == row.name
            c == row.cust
            k == row.key
            s == row.salt
            p == row.person
            bindsOut == f \in Blake2s \/ (f \in {"KMAC", "TupleHash"} /\ ~ x)
            sized == IF bindsOut THEN row ELSE [row EXCEPT !.out = 0]
            fill(v) == v \o Zeros(SaltSize(row) - Len(v))
<1>1. row = RowWith(f, w, x, o, n, c, k, s, p)
  BY RowFields
<1>2. Canonical(row) = CASE f = "cSHAKE" /\ n = <<>> /\ c = <<>> -> [sized EXCEPT !.fn = "SHAKE"]
                         [] f \in Blake2s -> [sized EXCEPT !.fn = "Blake2", !.salt = fill(@),
                                                           !.person = fill(@)]
                         [] OTHER -> sized
  BY DEF Canonical
<1>. HIDE DEF f, w, x, o, n, c, k, s, p, bindsOut, sized, fill
<1>3. [row EXCEPT !.out = 0] = RowWith(f, w, x, 0, n, c, k, s, p)
  BY <1>1 DEF RowWith
<1>4. sized = RowWith(f, w, x, IF bindsOut THEN o ELSE 0, n, c, k, s, p)
  BY <1>1, <1>3 DEF sized
<1>5. CASE f = "cSHAKE" /\ n = <<>> /\ c = <<>>
  <2>1. ~ bindsOut
    BY <1>5 DEF bindsOut, Blake2s
  <2>2. Canonical(row) = [sized EXCEPT !.fn = "SHAKE"]
    <3>1. f \notin Blake2s
      BY <1>5 DEF Blake2s
    <3>. QED
      BY <1>2, <1>5, <3>1
  <2>3. sized = RowWith(f, w, x, 0, n, c, k, s, p)
    BY <1>4, <2>1
  <2>4. Canonical(row) = RowWith("SHAKE", w, x, 0, n, c, k, s, p)
    BY <2>2, <2>3 DEF RowWith
  <2>. QED
    BY <1>5, <2>4 DEF f, w, x, o, n, c, k, s, p, Blake2s
<1>6. CASE f \in Blake2s
  <2>1. bindsOut
    BY <1>6 DEF bindsOut
  <2>2. f # "cSHAKE"
    BY <1>6 DEF Blake2s
  <2>3. Canonical(row) = [sized EXCEPT !.fn = "Blake2", !.salt = fill(@), !.person = fill(@)]
    BY <1>2, <1>6, <2>2
  <2>4. sized = RowWith(f, w, x, o, n, c, k, s, p)
    BY <1>4, <2>1
  <2>5. sized.salt = s /\ sized.person = p
    BY <2>4 DEF RowWith
  <2>6. Canonical(row) = [sized EXCEPT !.fn = "Blake2", !.salt = fill(s), !.person = fill(p)]
    BY <2>3, <2>4, <2>5 DEF RowWith
  <2>7. Canonical(row) = RowWith("Blake2", w, x, o, n, c, k, fill(s), fill(p))
    <3>. DEFINE z == fill(s)
                v == fill(p)
                a == [sized EXCEPT !.fn = "Blake2"]
                b == [a EXCEPT !.salt = z]
                d == [b EXCEPT !.person = v]
    <3>. HIDE DEF z, v
    <3>1. a = RowWith("Blake2", w, x, o, n, c, k, s, p)
      BY <2>4 DEF RowWith
    <3>2. b = RowWith("Blake2", w, x, o, n, c, k, z, p)
      <4>. HIDE DEF a
      <4>. QED
        BY <3>1 DEF RowWith
    <3>3. d = RowWith("Blake2", w, x, o, n, c, k, z, v)
      <4>. HIDE DEF b
      <4>. QED
        BY <3>2 DEF RowWith
    <3>4. [sized EXCEPT !.fn = "Blake2", !.salt = z, !.person = v] = d
      OBVIOUS
    <3>. HIDE DEF d
    <3>. QED
      BY <2>6, <3>3, <3>4 DEF z, v
  <2>. QED
    BY <1>6, <2>2, <2>7 DEF f, w, x, o, n, c, k, s, p, fill, Filled
<1>7. CASE f \notin Blake2s /\ ~ (f = "cSHAKE" /\ n = <<>> /\ c = <<>>)
  <2>1. bindsOut <=> f \in {"KMAC", "TupleHash"} /\ ~ x
    BY <1>7 DEF bindsOut
  <2>2. Canonical(row) = sized
    BY <1>2, <1>7
  <2>3. Canonical(row) = RowWith(f, w, x, IF f \in {"KMAC", "TupleHash"} /\ ~ x THEN o ELSE 0,
                                 n, c, k, s, p)
    BY <1>4, <2>1, <2>2
  <2>. QED
    BY <1>7, <2>3 DEF f, w, x, o, n, c, k, s, p
<1>. QED
  BY <1>5, <1>6, <1>7 DEF f, n, c

(* The four domain bytes differ.                                           *)
LEMMA DomainsDiffer ==
  /\ Sha3Suffix # ShakeSuffix /\ Sha3Suffix # CShakeSuffix /\ Sha3Suffix # KeccakSuffix
  /\ ShakeSuffix # CShakeSuffix /\ ShakeSuffix # KeccakSuffix /\ CShakeSuffix # KeccakSuffix
<1>1. ASSUME NEW x, NEW y, NEW z
      PROVE  Cardinality({x, y, z}) # 4
  <2>1. IsFiniteSet({x}) /\ Cardinality({x}) = 1
    BY FS_Singleton
  <2>2. IsFiniteSet({x} \cup {y}) /\ Cardinality({x} \cup {y}) \in {1, 2}
    BY <2>1, FS_AddElement
  <2>3. Cardinality(({x} \cup {y}) \cup {z}) \in {1, 2, 3}
    <3>. DEFINE S == {x} \cup {y}
    <3>1. IsFiniteSet(S) /\ Cardinality(S) \in {1, 2}
      BY <2>2
    <3>. HIDE DEF S
    <3>2. Cardinality(S \cup {z}) \in {Cardinality(S), Cardinality(S) + 1}
      BY <3>1, FS_AddElement
    <3>. QED
      BY <3>1, <3>2 DEF S
  <2>4. ({x} \cup {y}) \cup {z} = {x, y, z}
    OBVIOUS
  <2>. QED
    BY <2>3, <2>4
<1>. DEFINE a == Sha3Suffix
            b == ShakeSuffix
            c == CShakeSuffix
            d == KeccakSuffix
<1>2. Cardinality({a, b, c, d}) = 4
  BY RowAssumption DEF DomainBytes
<1>. HIDE DEF a, b, c, d
<1>3. /\ {a, b, c} # {a, b, c, d} /\ {a, b, d} # {a, b, c, d}
      /\ {a, c, d} # {a, b, c, d} /\ {b, c, d} # {a, b, c, d}
  BY <1>1, <1>2
<1>4. a # b /\ a # c /\ a # d /\ b # c /\ b # d /\ c # d
  BY <1>3
<1>. QED
  BY <1>4 DEF a, b, c, d

(* A suffix is a byte below the closing bit.                               *)
LEMMA SuffixIs ==
  ASSUME NEW row
  PROVE  /\ Suffix(row) \in Nat \ {0} /\ Suffix(row) < Base /\ Suffix(row) < Base \div 2
         /\ Suffix(row) \in DomainBytes
<1>1. Suffix(row) \in DomainBytes
  BY DEF Suffix, DomainBytes
<1>2. Suffix(row) \in 1 .. Base \div 2 - 1
  BY <1>1, RowAssumption
<1>3. Base \in Nat /\ Base \div 2 \in Nat /\ Base \div 2 <= Base
  BY BaseIs
<1>. QED
  BY <1>1, <1>2, <1>3

(* A row that hashes one string between two pieces.                        *)
LEMMA OneString ==
  ASSUME NEW row, NEW strings, Asked("row", row, strings), row.fn # "TupleHash"
  PROVE  strings[1] \in Strands /\ strings = <<strings[1]>>
<1>1. strings \in Seq(Strands) /\ Len(strings) = 1
  BY RowAssumption DEF Strands, Asked, Takes, Fits
<1>. QED
  BY <1>1

(* The message stands between the two.                                     *)
LEMMA BodyIs ==
  ASSUME NEW row, NEW strings, Asked("row", row, strings), row.fn # "TupleHash",
         NEW a \in Strands, NEW b \in Strands
  PROVE  Concatenated(<<a, b>>, strings) = (a \o strings[1]) \o b
<1>1. strings[1] \in Strands /\ strings = <<strings[1]>>
  BY OneString
<1>. DEFINE m == strings[1]
<1>. HIDE DEF m
<1>2. m \in Strands /\ strings = <<m>>
  BY <1>1 DEF m
<1>3. Concatenated(<<a, b>>, <<m>>) = (a \o m) \o b
  BY <1>2, OneOperand
<1>. QED
  BY <1>2, <1>3 DEF m

(* What a call absorbs and is told.                                        *)
Absorbs(call, row, body) ==
  /\ call.init = InitialState(row)
  /\ call.attrs = Attributes(row, Len(body))
  /\ call.stream = body \o PadTail(row, Len(body))

(* A Keccak row absorbs its body and pad10*1.                              *)
LEMMA KeccakRead ==
  ASSUME NEW row \in RowsBuilt, row.fn \in Keccaks, NEW body \in Strands, NEW call,
         Absorbs(call, row, body)
  PROVE  /\ Reading(call) = ReadKeccak(row.rate, call.stream)
         /\ Unpadded(call.stream, Base \div 2) = [suffix |-> Suffix(row), payload |-> body]
<1>. DEFINE h == Suffix(row)
            n == Len(body)
            w == row.rate
<1>1. h \in Nat \ {0} /\ h < Base /\ h < Base \div 2 /\ TRUE \in BOOLEAN
  BY SuffixIs
<1>2. n \in Nat /\ w \in Nat \ {0}
  BY RowIs DEF Sized, Strands
<1>3. call.stream = body \o SpongeTail(n, w, h, TRUE)
  BY DEF Absorbs, PadTail, Keccaks, Ascons
<1>4. Reading(call) = ReadKeccak(row.rate, call.stream)
  <2>1. call.init = <<"zero", row.rate>>
    BY DEF Absorbs, InitialState, Keccaks, Ascons, Blake2s, Blake3s
  <2>2. call.init[1] = "zero" /\ call.init[2] = row.rate
    BY <2>1
  <2>. QED
    BY <2>2 DEF Reading
<1>. HIDE DEF h, n, w
<1>5. Unpadded(body \o SpongeTail(n, w, h, TRUE), Closing(TRUE)) = [suffix |-> h, payload |-> body]
  BY <1>1, <1>2, PadRemoved
<1>6. Closing(TRUE) = Base \div 2
  BY DEF Closing
<1>. QED
  BY <1>3, <1>4, <1>5, <1>6 DEF h

(* The FIPS 202 rows, and cSHAKE of two empty strings.                     *)
LEMMA PlainRead ==
  ASSUME NEW row, NEW strings, Asked("row", row, strings),
         \/ row.fn \in {"SHA3", "Keccak256", "SHAKE"}
         \/ row.fn = "cSHAKE" /\ row.name = <<>> /\ row.cust = <<>>,
         NEW call, Absorbs(call, row, Concatenated(Frame(row, strings), strings))
  PROVE  Reading(call) = [row |-> Canonical(row), strings |-> strings]
<1>. DEFINE body == Concatenated(Frame(row, strings), strings)
            m    == strings[1]
            fn   == IF row.fn = "cSHAKE" THEN "SHAKE" ELSE row.fn
<1>1. row \in RowsBuilt /\ row.fn \in Keccaks /\ row.fn # "TupleHash"
  BY DEF Asked, Keccaks
<1>2. m \in Strands /\ strings = <<m>>
  BY <1>1, OneString
<1>3. body = m
  <2>0. PrefixBlock(<<>>, <<>>, row.rate) = <<>>
    BY DEF PrefixBlock
  <2>1. Frame(row, strings) = << <<>>, <<>> >>
    BY <2>0 DEF Frame, Blake2s
  <2>2. body = (<<>> \o m) \o <<>>
    <3>. DEFINE e == <<>>
    <3>1. e \in Strands /\ Frame(row, strings) = <<e, e>>
      BY <1>2, <2>1, NothingAdded
    <3>. HIDE DEF e
    <3>2. Concatenated(<<e, e>>, strings) = (e \o strings[1]) \o e
      BY <1>1, <3>1, BodyIs
    <3>. QED
      BY <3>1, <3>2 DEF e
  <2>. QED
    BY <1>2, <2>2, NothingAdded
<1>. HIDE DEF body
<1>4. Unpadded(call.stream, Base \div 2) = [suffix |-> Suffix(row), payload |-> m]
      /\ Reading(call) = ReadKeccak(row.rate, call.stream)
  BY <1>1, <1>2, <1>3, KeccakRead DEF body
<1>5. /\ fn \in {"SHA3", "Keccak256", "SHAKE"}
      /\ fn = "SHA3" => Suffix(row) = Sha3Suffix
      /\ fn = "Keccak256" => Suffix(row) = KeccakSuffix
      /\ fn = "SHAKE" => Suffix(row) = ShakeSuffix
  BY DEF Suffix, PrefixBlock
<1>6. Reading(call) = [row |-> [Blank EXCEPT !.fn = fn, !.rate = row.rate], strings |-> <<m>>]
  <2>. DEFINE h == Suffix(row)
              pad == Unpadded(call.stream, Base \div 2)
              plain(f) == [row |-> [Blank EXCEPT !.fn = f, !.rate = row.rate], strings |-> <<m>>]
  <2>1. pad.suffix = h /\ pad.payload = m
    BY <1>4
  <2>2. ReadKeccak(row.rate, call.stream)
          = CASE h = Sha3Suffix   -> plain("SHA3")
              [] h = KeccakSuffix -> plain("Keccak256")
              [] h = ShakeSuffix  -> plain("SHAKE")
              [] OTHER            -> ReadCShake(row.rate, m)
    <3>. HIDE DEF h, pad, m
    <3>. QED
      BY <2>1 DEF ReadKeccak, pad
  <2>. HIDE DEF plain, pad, m
  <2>3. ReadKeccak(row.rate, call.stream) = plain(fn)
    BY <1>5, <2>2, DomainsDiffer
  <2>. QED
    BY <1>4, <2>3 DEF plain
<1>7. Canonical(row) = [Blank EXCEPT !.fn = fn, !.rate = row.rate]
  <2>1. Canonical(row)
          = RowWith(fn, row.rate, FALSE, 0, <<>>, <<>>, <<>>, <<>>, <<>>)
    <3>1. row.fn \notin Blake2s /\ row.fn \notin {"KMAC", "TupleHash", "Blake3Keyed"}
      BY DEF Blake2s
    <3>2. /\ row.name = <<>> /\ row.cust = <<>> /\ row.key = <<>> /\ row.salt = <<>>
          /\ row.person = <<>> /\ row.xof = FALSE
      BY <1>1, <3>1, TrimmedIs
    <3>. QED
      BY <1>1, <3>1, <3>2, CanonicalIs
  <2>. HIDE DEF fn
  <2>2. [Blank EXCEPT !.fn = fn, !.rate = row.rate]
          = RowWith(fn, row.rate, FALSE, 0, <<>>, <<>>, <<>>, <<>>, <<>>)
    BY RowPlain
  <2>. QED
    BY <2>1, <2>2
<1>. QED
  BY <1>2, <1>6, <1>7

(* What is read of a payload behind KMAC's name,                           *)
KmacReading(w, c, t) ==
  LET key  == ReadBytepad(t, 1)
      size == ReadRight(key.rest)
  IN  [row     |-> RowWith("KMAC", w, size.value = 0, size.value \div Bits, <<>>, c,
                           key.strings[1], <<>>, <<>>),
       strings |-> <<size.rest>>]

(* behind TupleHash's,                                                     *)
TupleReading(w, c, t) ==
  LET size == ReadRight(t)
  IN  [row     |-> RowWith("TupleHash", w, size.value = 0, size.value \div Bits, <<>>, c,
                           <<>>, <<>>, <<>>),
       strings |-> ReadStrings(size.rest)]

(* A payload that opens with a name and a customization.                   *)
Opens(payload, a, c, t) == ReadBytepad(payload, 2) = [strings |-> <<a, c>>, rest |-> t]

(* and behind any other.                                                   *)
CShakeReading(w, a, c, t) ==
  [row     |-> RowWith("cSHAKE", w, FALSE, 0, a, c, <<>>, <<>>, <<>>),
   strings |-> <<t>>]

(* A cSHAKE payload is read by the name it opens with.                     *)
LEMMA NameRead ==
  ASSUME NEW w, NEW payload, NEW a, NEW c, NEW t, Opens(payload, a, c, t)
  PROVE  ReadCShake(w, payload) = CASE a = KmacName      -> KmacReading(w, c, t)
                                    [] a = TupleHashName -> TupleReading(w, c, t)
                                    [] OTHER             -> CShakeReading(w, a, c, t)
<1>. DEFINE head == ReadBytepad(payload, 2)
            key  == ReadBytepad(t, 1)
            size == ReadRight(IF a = KmacName THEN key.rest ELSE t)
            base == [Blank EXCEPT !.rate = w, !.cust = c]
            derived == [base EXCEPT !.xof = size.value = 0, !.out = size.value \div Bits]
            kmac == [row     |-> [derived EXCEPT !.fn = "KMAC", !.key = key.strings[1]],
                     strings |-> <<size.rest>>]
            tuple == [row |-> [derived EXCEPT !.fn = "TupleHash"], strings |-> ReadStrings(size.rest)]
            cshake == [row |-> [base EXCEPT !.fn = "cSHAKE", !.name = a], strings |-> <<t>>]
<1>1. head.strings[1] = a /\ head.strings[2] = c /\ head.rest = t
  <2>. DEFINE q == <<a, c>>
  <2>1. q[1] = a /\ q[2] = c /\ head = [strings |-> q, rest |-> t]
    BY DEF Opens
  <2>. HIDE DEF head, q
  <2>. QED
    BY <2>1
<1>2. ReadCShake(w, payload) = CASE a = KmacName -> kmac
                                 [] a = TupleHashName -> tuple
                                 [] OTHER -> cshake
  <2>. HIDE DEF head
  <2>. QED
    BY <1>1 DEF ReadCShake, head
<1>. HIDE DEF head
<1>3. KmacName # TupleHashName
  BY RowAssumption
<1>7. ASSUME NEW x, NEW o, NEW k
      PROVE  [[base EXCEPT !.xof = x, !.out = o] EXCEPT !.fn = "KMAC", !.key = k]
               = RowWith("KMAC", w, x, o, <<>>, c, k, <<>>, <<>>)
  <2>. DEFINE nil    == ""
              nought == 0
              no     == FALSE
              none   == <<>>
              u == [Blank EXCEPT !.rate = w]
              b == [u EXCEPT !.cust = c]
              d == [b EXCEPT !.xof = x]
              e == [d EXCEPT !.out = o]
              g == [e EXCEPT !.fn = "KMAC"]
              h == [g EXCEPT !.key = k]
  <2>0. Blank = RowWith(nil, nought, no, nought, none, none, none, none, none)
    BY BlankIs
  <2>. HIDE DEF nil, nought, no, none
  <2>1. u = RowWith(nil, w, no, nought, none, none, none, none, none)
    BY <2>0 DEF RowWith
  <2>2. b = RowWith(nil, w, no, nought, none, c, none, none, none)
    <3>. HIDE DEF u
    <3>. QED
      BY <2>1 DEF RowWith
  <2>3. d = RowWith(nil, w, x, nought, none, c, none, none, none)
    <3>. HIDE DEF b
    <3>. QED
      BY <2>2 DEF RowWith
  <2>4. e = RowWith(nil, w, x, o, none, c, none, none, none)
    <3>. HIDE DEF d
    <3>. QED
      BY <2>3 DEF RowWith
  <2>5. g = RowWith("KMAC", w, x, o, none, c, none, none, none)
    <3>. HIDE DEF e
    <3>. QED
      BY <2>4 DEF RowWith
  <2>6. h = RowWith("KMAC", w, x, o, none, c, k, none, none)
    <3>. HIDE DEF g
    <3>. QED
      BY <2>5 DEF RowWith
  <2>7. [Blank EXCEPT !.rate = w, !.cust = c] = b
    OBVIOUS
  <2>8. [b EXCEPT !.xof = x, !.out = o] = e
    <3>. HIDE DEF b
    <3>. QED
      OBVIOUS
  <2>9. [e EXCEPT !.fn = "KMAC", !.key = k] = h
    <3>. HIDE DEF e
    <3>. QED
      OBVIOUS
  <2>. HIDE DEF b, e, h
  <2>. QED
    BY <2>6, <2>7, <2>8, <2>9 DEF nil, nought, no, none
<1>8. ASSUME NEW x, NEW o
      PROVE  [[base EXCEPT !.xof = x, !.out = o] EXCEPT !.fn = "TupleHash"]
               = RowWith("TupleHash", w, x, o, <<>>, c, <<>>, <<>>, <<>>)
  <2>. DEFINE nil    == ""
              nought == 0
              no     == FALSE
              none   == <<>>
              u == [Blank EXCEPT !.rate = w]
              b == [u EXCEPT !.cust = c]
              d == [b EXCEPT !.xof = x]
              e == [d EXCEPT !.out = o]
              g == [e EXCEPT !.fn = "TupleHash"]
  <2>0. Blank = RowWith(nil, nought, no, nought, none, none, none, none, none)
    BY BlankIs
  <2>. HIDE DEF nil, nought, no, none
  <2>1. u = RowWith(nil, w, no, nought, none, none, none, none, none)
    BY <2>0 DEF RowWith
  <2>2. b = RowWith(nil, w, no, nought, none, c, none, none, none)
    <3>. HIDE DEF u
    <3>. QED
      BY <2>1 DEF RowWith
  <2>3. d = RowWith(nil, w, x, nought, none, c, none, none, none)
    <3>. HIDE DEF b
    <3>. QED
      BY <2>2 DEF RowWith
  <2>4. e = RowWith(nil, w, x, o, none, c, none, none, none)
    <3>. HIDE DEF d
    <3>. QED
      BY <2>3 DEF RowWith
  <2>5. g = RowWith("TupleHash", w, x, o, none, c, none, none, none)
    <3>. HIDE DEF e
    <3>. QED
      BY <2>4 DEF RowWith
  <2>6. [Blank EXCEPT !.rate = w, !.cust = c] = b
    OBVIOUS
  <2>7. [b EXCEPT !.xof = x, !.out = o] = e
    <3>. HIDE DEF b
    <3>. QED
      OBVIOUS
  <2>. HIDE DEF b, e
  <2>. QED
    BY <2>5, <2>6, <2>7 DEF nil, nought, no, none
<1>4. CASE a # KmacName /\ a # TupleHashName
  <2>1. [base EXCEPT !.fn = "cSHAKE", !.name = a]
          = RowWith("cSHAKE", w, FALSE, 0, a, c, <<>>, <<>>, <<>>)
    BY RowCShake
  <2>2. ReadCShake(w, payload) = cshake
    <3>. HIDE DEF kmac, tuple, cshake
    <3>. QED
      BY <1>2, <1>4
  <2>. HIDE DEF base
  <2>. QED
    BY <1>4, <2>1, <2>2 DEF CShakeReading
<1>5. CASE a = KmacName
  <2>. DEFINE v == ReadRight(key.rest)
              x == v.value = 0
              o == v.value \div Bits
              k == key.strings[1]
  <2>1. size = v
    BY <1>5
  <2>2. [derived EXCEPT !.fn = "KMAC", !.key = k]
          = RowWith("KMAC", w, x, o, <<>>, c, k, <<>>, <<>>)
    <3>1. derived = [base EXCEPT !.xof = x, !.out = o]
      BY <2>1
    <3>. HIDE DEF x, o, k, derived
    <3>. HIDE DEF base
    <3>2. [[base EXCEPT !.xof = x, !.out = o] EXCEPT !.fn = "KMAC", !.key = k]
            = RowWith("KMAC", w, x, o, <<>>, c, k, <<>>, <<>>)
      BY <1>7
    <3>. QED
      BY <3>1, <3>2
  <2>3. ReadCShake(w, payload) = kmac
    <3>. HIDE DEF kmac, tuple, cshake
    <3>. QED
      BY <1>2, <1>3, <1>5
  <2>. HIDE DEF derived, size
  <2>. QED
    BY <1>3, <1>5, <2>1, <2>2, <2>3 DEF KmacReading
<1>6. CASE a = TupleHashName
  <2>. DEFINE v == ReadRight(t)
              x == v.value = 0
              o == v.value \div Bits
  <2>1. size = v
    BY <1>3, <1>6
  <2>2. [derived EXCEPT !.fn = "TupleHash"]
          = RowWith("TupleHash", w, x, o, <<>>, c, <<>>, <<>>, <<>>)
    <3>1. derived = [base EXCEPT !.xof = x, !.out = o]
      BY <2>1
    <3>. HIDE DEF x, o, derived
    <3>. HIDE DEF base
    <3>2. [[base EXCEPT !.xof = x, !.out = o] EXCEPT !.fn = "TupleHash"]
            = RowWith("TupleHash", w, x, o, <<>>, c, <<>>, <<>>, <<>>)
      BY <1>8
    <3>. QED
      BY <3>1, <3>2
  <2>3. ReadCShake(w, payload) = tuple
    <3>. HIDE DEF kmac, tuple, cshake
    <3>. QED
      BY <1>2, <1>3, <1>6
  <2>. HIDE DEF derived, size
  <2>. QED
    BY <1>3, <1>6, <2>1, <2>2, <2>3 DEF TupleReading
<1>. QED
  BY <1>4, <1>5, <1>6

(* A prefix is a bytepad when there is something to prefix, and not empty. *)
LEMMA PrefixRead ==
  ASSUME NEW name \in Strands, NEW cust \in Strands, NEW w \in Nat \ {0}, Encodable(w),
         Encodable(Bits * Len(name)), Encodable(Bits * Len(cust)),
         ~ (name = <<>> /\ cust = <<>>)
  PROVE  /\ PrefixBlock(name, cust, w) \in Strands
         /\ PrefixBlock(name, cust, w) # <<>>
         /\ \A t \in Strands : Opens(PrefixBlock(name, cust, w) \o t, name, cust, t)
<1>. DEFINE x == EncodeString(name) \o EncodeString(cust)
            l == LeftEncode(w)
            n == EncodeLength(w)
            b == BigEndian(w, n)
            h == <<n>>
            z == Zeros(Fill(Len(l \o x), w))
<1>1. PrefixBlock(name, cust, w) = Bytepad(x, w)
  BY DEF PrefixBlock
<1>2. \A t \in Strands : Opens(Bytepad(x, w) \o t, name, cust, t)
  BY PadReadTwo DEF Opens
<1>3. PrefixBlock(name, cust, w) \in Strands
  BY PrefixBlockIs
<1>4. Bytepad(x, w) = (l \o x) \o z
  BY DEF Bytepad
<1>5. x \in Strands /\ l \in Strands
  <2>1. EncodeString(name) \in Strands /\ EncodeString(cust) \in Strands
    BY EncodeStringIs
  <2>2. x \in Strands
    BY <2>1, Strung
  <2>. QED
    BY <2>2, LeftEncodeIs
<1>6. Len(l) >= 1
  <2>1. l = h \o b /\ h \in Strands /\ Len(h) = 1 /\ b \in Strands
    BY LeftPieces
  <2>. HIDE DEF l, h, b
  <2>2. Len(h \o b) = Len(h) + Len(b) /\ Len(b) \in Nat
    BY <2>1, Strung
  <2>. QED
    BY <2>1, <2>2
<1>. HIDE DEF x, l
<1>7. l \o x \in Strands /\ Len(l \o x) = Len(l) + Len(x) /\ Len(x) \in Nat /\ Len(l) \in Nat
  BY <1>5, Strung
<1>8. z \in Strands
  <2>1. Len(l \o x) \in Nat
    BY <1>7
  <2>. QED
    BY <2>1, FillIs, ZerosAre
<1>. DEFINE q == l \o x
<1>9. q \in Strands /\ Len(q) >= 1 /\ Len(q) \in Nat
  BY <1>6, <1>7
<1>. HIDE DEF z, q
<1>10. Len(q \o z) >= 1
  <2>1. Len(q \o z) = Len(q) + Len(z) /\ Len(z) \in Nat
    BY <1>8, <1>9, Strung
  <2>. QED
    BY <1>9, <2>1
<1>11. PrefixBlock(name, cust, w) # <<>>
  BY <1>1, <1>4, <1>10 DEF q
<1>. QED
  BY <1>1, <1>2, <1>3, <1>11

(* A payload read as its suffix says.                                      *)
LEMMA CShakeSuffixRead ==
  ASSUME NEW row \in RowsBuilt, row.fn \in Keccaks, NEW body \in Strands, NEW call,
         Absorbs(call, row, body), Suffix(row) = CShakeSuffix
  PROVE  Reading(call) = ReadCShake(row.rate, body)
<1>. DEFINE pad == Unpadded(call.stream, Base \div 2)
<1>1. Reading(call) = ReadKeccak(row.rate, call.stream)
      /\ pad = [suffix |-> Suffix(row), payload |-> body]
  BY KeccakRead
<1>2. pad.suffix = CShakeSuffix /\ pad.payload = body
  BY <1>1
<1>. HIDE DEF pad
<1>3. ReadKeccak(row.rate, call.stream) = ReadCShake(row.rate, body)
  BY <1>2, DomainsDiffer DEF ReadKeccak, pad
<1>. QED
  BY <1>1, <1>3

(* cSHAKE with a name or a customization.                                  *)
LEMMA CShakeRead ==
  ASSUME NEW row, NEW strings, Asked("row", row, strings), row.fn = "cSHAKE",
         ~ (row.name = <<>> /\ row.cust = <<>>),
         NEW call, Absorbs(call, row, Concatenated(Frame(row, strings), strings))
  PROVE  Reading(call) = [row |-> Canonical(row), strings |-> strings]
<1>. DEFINE body == Concatenated(Frame(row, strings), strings)
            m    == strings[1]
            w    == row.rate
            n    == row.name
            c    == row.cust
            p    == PrefixBlock(n, c, w)
<1>1. row \in RowsBuilt /\ row.fn \in Keccaks /\ row.fn # "TupleHash"
  BY DEF Asked, Keccaks
<1>2. m \in Strands /\ strings = <<m>>
  BY <1>1, OneString
<1>3. /\ n \in Strands /\ c \in Strands /\ w \in Nat \ {0} /\ Encodable(w)
      /\ Encodable(Bits * Len(n)) /\ Encodable(Bits * Len(c))
      /\ n # KmacName /\ n # TupleHashName
  BY <1>1, RowIs, RowAssumption DEF Sized
<1>4. /\ p \in Strands /\ p # <<>>
      /\ Opens(p \o m, n, c, m)
  <2>1. ~ (n = <<>> /\ c = <<>>)
    OBVIOUS
  <2>. HIDE DEF n, c, w, m
  <2>. QED
    BY <1>2, <1>3, <2>1, PrefixRead
<1>5. Suffix(row) = CShakeSuffix
  BY <1>4 DEF Suffix
<1>6. Frame(row, strings) = <<p, <<>> >>
  BY DEF Frame, Blake2s
<1>. HIDE DEF p, m
<1>7. body = p \o m /\ body \in Strands
  <2>1. body = (p \o m) \o <<>>
    <3>. DEFINE e == <<>>
    <3>1. e \in Strands /\ Frame(row, strings) = <<p, e>>
      BY <1>2, <1>6, NothingAdded
    <3>. HIDE DEF e
    <3>2. Concatenated(<<p, e>>, strings) = (p \o strings[1]) \o e
      BY <1>1, <1>4, <3>1, BodyIs
    <3>. QED
      BY <3>1, <3>2 DEF e, m
  <2>2. p \o m \in Strands
    BY <1>2, <1>4, Strung
  <2>. QED
    BY <2>1, <2>2, NothingAdded
<1>8. Reading(call) = ReadCShake(row.rate, body)
  <2>. HIDE DEF body
  <2>. QED
    BY <1>1, <1>5, <1>7, CShakeSuffixRead DEF body
<1>9. ReadCShake(w, body) = [row     |-> RowWith("cSHAKE", w, FALSE, 0, n, c, <<>>, <<>>, <<>>),
                             strings |-> <<m>>]
  <2>. HIDE DEF body, n, c, w
  <2>1. ReadCShake(w, body) = CShakeReading(w, n, c, m)
    BY <1>3, <1>4, <1>7, NameRead
  <2>. QED
    BY <2>1 DEF CShakeReading
<1>10. Canonical(row) = RowWith("cSHAKE", w, FALSE, 0, n, c, <<>>, <<>>, <<>>)
  <2>1. row.fn \notin Blake2s
    BY DEF Blake2s
  <2>2. row.key = <<>> /\ row.salt = <<>> /\ row.person = <<>> /\ row.xof = FALSE
    BY <1>1, <2>1, TrimmedIs
  <2>. QED
    BY <1>1, <2>1, <2>2, CanonicalIs
<1>. QED
  BY <1>2, <1>8, <1>9, <1>10

(* The output length is read from the end of a payload, zero for an XOF.   *)
LEMMA LengthRead ==
  ASSUME NEW row \in RowsBuilt, Valid(row), NEW t \in Strands
  PROVE  LET size == ReadRight(t \o LengthTail(row))
         IN  /\ size.rest = t
             /\ (size.value = 0) = row.xof
             /\ size.value \div Bits = IF row.xof THEN 0 ELSE row.out
<1>. DEFINE o == row.out
            v == row.xof
            x == IF v THEN 0 ELSE Bits * o
            size == ReadRight(t \o LengthTail(row))
<1>1. /\ v \in BOOLEAN /\ o \in Nat /\ Encodable(0) /\ Encodable(Bits * o) /\ o >= 1
      /\ Bits \in Nat /\ Bits >= 2
  BY RowIs, BaseIs DEF Valid
<1>2. LengthTail(row) = RightEncode(x)
  BY DEF LengthTail
<1>. HIDE DEF o, v
<1>3. Encodable(x)
  BY <1>1
<1>4. (x = 0) = v
  <2>1. CASE v
    BY <1>1, <2>1
  <2>2. CASE ~ v
    <3>1. Bits * o > 0
      BY <1>1
    <3>2. x # 0
      BY <2>2, <3>1, <1>1
    <3>. QED
      BY <1>1, <2>2, <3>2
  <2>. QED
    BY <2>1, <2>2
<1>5. x \div Bits = IF v THEN 0 ELSE o
  <2>1. CASE v
    <3>1. 0 \in Int /\ Bits \in Nat \ {0} /\ 0 \in 0 .. Bits - 1
      BY <1>1
    <3>2. 0 \div Bits = 0
      BY <3>1
    <3>. QED
      BY <2>1, <3>2
  <2>2. CASE ~ v
    <3>1. o \in Int /\ Bits \in Nat \ {0} /\ 0 \in 0 .. Bits - 1
      BY <1>1
    <3>2. (o * Bits + 0) \div Bits = o
      BY <3>1, DivModUnique
    <3>3. Bits * o = o * Bits + 0
      BY <1>1
    <3>. QED
      BY <2>2, <3>2, <3>3
  <2>. QED
    BY <2>1, <2>2
<1>. HIDE DEF x
<1>6. size = [value |-> x, rest |-> t]
  BY <1>2, <1>3, RightRead
<1>. HIDE DEF size
<1>7. size.rest = t /\ size.value = x
  BY <1>6
<1>8. (size.value = 0) = v /\ size.value \div Bits = IF v THEN 0 ELSE o
  BY <1>4, <1>5, <1>7
<1>. QED
  BY <1>7, <1>8 DEF size, v, o

(* A reserved name, a customization, a rate and an output length.          *)
LEMMA ReservedRow ==
  ASSUME NEW row \in RowsBuilt, row.fn \in {"KMAC", "TupleHash"}
  PROVE  Canonical(row) = RowWith(row.fn, row.rate, row.xof, IF row.xof THEN 0 ELSE row.out,
                                  <<>>, row.cust, row.key, <<>>, <<>>)
<1>1. row.fn \notin Blake2s /\ row.fn # "cSHAKE"
  BY DEF Blake2s
<1>2. row.name = <<>> /\ row.salt = <<>> /\ row.person = <<>>
  BY <1>1, TrimmedIs
<1>3. Canonical(row) = RowWith(row.fn, row.rate, row.xof,
                               IF row.fn \in {"KMAC", "TupleHash"} /\ ~ row.xof
                                 THEN row.out ELSE 0,
                               row.name, row.cust, row.key, row.salt, row.person)
  BY <1>1, CanonicalIs
<1>4. (IF row.fn \in {"KMAC", "TupleHash"} /\ ~ row.xof THEN row.out ELSE 0)
        = (IF row.xof THEN 0 ELSE row.out)
  OBVIOUS
<1>. QED
  BY <1>2, <1>3, <1>4

(* KMAC.                                                                   *)
LEMMA KmacRead ==
  ASSUME NEW row, NEW strings, Asked("row", row, strings), row.fn = "KMAC",
         NEW call, Absorbs(call, row, Concatenated(Frame(row, strings), strings))
  PROVE  Reading(call) = [row |-> Canonical(row), strings |-> strings]
<1>. DEFINE body == Concatenated(Frame(row, strings), strings)
            m    == strings[1]
            w    == row.rate
            c    == row.cust
            k    == row.key
            p    == PrefixBlock(KmacName, c, w)
            y    == Bytepad(EncodeString(k), w)
            l    == LengthTail(row)
            t    == m \o l
            u    == y \o t
            o    == IF row.xof THEN 0 ELSE row.out
<1>1. row \in RowsBuilt /\ row.fn \in Keccaks /\ row.fn # "TupleHash" /\ Valid(row)
  BY DEF Asked, Keccaks
<1>2. m \in Strands /\ strings = <<m>>
  BY <1>1, OneString
<1>3. /\ c \in Strands /\ k \in Strands /\ w \in Nat \ {0} /\ Encodable(w)
      /\ Encodable(Bits * Len(c)) /\ Encodable(Bits * Len(k))
      /\ KmacName \in Strands /\ Encodable(Bits * Len(KmacName)) /\ KmacName # <<>>
  BY <1>1, RowIs, RowAssumption DEF Sized
<1>4. l \in Strands
  BY <1>1, LengthTailIs
<1>5. Suffix(row) = CShakeSuffix
  BY DEF Suffix
<1>6. Frame(row, strings) = <<p \o y, l>>
  BY DEF Frame, KmacFrame, Blake2s
<1>7. y \in Strands
  <2>1. EncodeString(k) \in Strands
    BY <1>3, EncodeStringIs
  <2>. QED
    BY <1>3, <2>1, BytepadIs
<1>8. t \in Strands /\ u \in Strands
  <2>. HIDE DEF m, y, l
  <2>1. m \o l \in Strands
    BY <1>2, <1>4, Strung
  <2>. HIDE DEF t
  <2>2. y \o t \in Strands
    BY <1>7, <2>1, Strung DEF t
  <2>. QED
    BY <2>1, <2>2 DEF t
<1>9. /\ p \in Strands
      /\ \A z \in Strands : Opens(p \o z, KmacName, c, z)
  <2>. HIDE DEF c, w
  <2>. QED
    BY <1>3, PrefixRead
<1>10. ReadBytepad(u, 1) = [strings |-> <<k>>, rest |-> t]
  <2>. HIDE DEF k, w, t
  <2>. QED
    BY <1>3, <1>8, PadRead
<1>11. /\ ReadRight(t).rest = m
       /\ (ReadRight(t).value = 0) = row.xof
       /\ ReadRight(t).value \div Bits = o
  <2>. HIDE DEF m
  <2>. QED
    BY <1>1, <1>2, LengthRead
<1>. HIDE DEF p, y, l, m
<1>12. body = p \o u
  <2>. DEFINE a == p \o y
  <2>1. a \in Strands
    BY <1>7, <1>9, Strung
  <2>. HIDE DEF a
  <2>2. Concatenated(<<a, l>>, strings) = (a \o strings[1]) \o l
    BY <1>1, <1>4, <2>1, BodyIs
  <2>3. (a \o m) \o l = a \o t
    BY <1>2, <1>4, <2>1, Assoc
  <2>. HIDE DEF t
  <2>4. (p \o y) \o t = p \o (y \o t)
    BY <1>7, <1>8, <1>9, Assoc, ZenonT(30)
  <2>. QED
    BY <1>6, <2>2, <2>3, <2>4 DEF a, m
<1>13. body \in Strands
  <2>. HIDE DEF body, u
  <2>. QED
    BY <1>8, <1>9, <1>12, Strung
<1>14. Reading(call) = ReadCShake(row.rate, body)
  <2>. HIDE DEF body
  <2>. QED
    BY <1>1, <1>5, <1>13, CShakeSuffixRead DEF body
<1>. HIDE DEF body, u, t, o, c, k
<1>15. Opens(body, KmacName, c, u)
  BY <1>8, <1>9, <1>12
<1>16. ReadCShake(w, body)
         = [row     |-> RowWith("KMAC", w, row.xof, o, <<>>, c, k, <<>>, <<>>),
            strings |-> <<m>>]
  <2>. DEFINE key  == ReadBytepad(u, 1)
              size == ReadRight(key.rest)
  <2>. HIDE DEF w
  <2>1. ReadCShake(w, body)
          = [row     |-> RowWith("KMAC", w, size.value = 0, size.value \div Bits,
                                 <<>>, c, key.strings[1], <<>>, <<>>),
             strings |-> <<size.rest>>]
    <3>1. ReadCShake(w, body) = KmacReading(w, c, u)
      BY <1>15, NameRead, RowAssumption
    <3>. QED
      BY <3>1 DEF KmacReading
  <2>2. key.rest = t /\ key.strings[1] = k
    BY <1>10
  <2>3. size.rest = m /\ (size.value = 0) = row.xof /\ size.value \div Bits = o
    BY <1>11, <2>2
  <2>. HIDE DEF key, size
  <2>. QED
    BY <2>1, <2>2, <2>3
<1>17. Canonical(row) = RowWith("KMAC", w, row.xof, o, <<>>, c, k, <<>>, <<>>)
  BY <1>1, ReservedRow DEF o, c, k
<1>. QED
  BY <1>2, <1>14, <1>16, <1>17

----------------------------------------------------------------------------
(* A tuple of strings.                                                     *)

(* Strings whose lengths can be framed.                                    *)
Framed(s) == s \in Seq(Strands) /\ \A i \in 1 .. Len(s) : Encodable(Bits * Len(s[i]))

(* r[k]: the strings after the k-th, each behind its length.               *)
Tails(r, s) ==
  /\ r[Len(s)] = <<>>
  /\ \A k \in 1 .. Len(s) : r[k - 1] = EncodeString(s[k]) \o r[k]
  /\ \A k \in 0 .. Len(s) : r[k] \in Strands

(* There are such strings.                                                 *)
LEMMA TailsExist ==
  ASSUME NEW s, Framed(s)
  PROVE  \E r : Tails(r, s)
<1>. DEFINE n == Len(s)
            e(j) == EncodeString(s[(n - j) + 1])
            F == [j \in 1 .. n |-> [t \in Strands |-> e(j) \o t]]
<1>1. n \in Nat /\ \A k \in 1 .. n : EncodeString(s[k]) \in Strands
  <2>1. n \in Nat /\ \A k \in 1 .. n : s[k] \in Strands /\ Encodable(Bits * Len(s[k]))
    BY DEF Framed
  <2>. QED
    BY <2>1, EncodeStringIs
<1>. HIDE DEF n
<1>2. \A j \in 1 .. n : e(j) \in Strands
  BY <1>1
<1>. HIDE DEF e
<1>3. F \in [1 .. n -> [Strands -> Strands]]
  <2>1. ASSUME NEW j \in 1 .. n, NEW t \in Strands
        PROVE  e(j) \o t \in Strands
    BY <1>2, Strung
  <2>. QED
    BY <2>1
<1>4. <<>> \in Strands
  BY EmptySeq DEF Strands
<1>5. PICK g : g \in [0 .. n -> Strands] /\ g[0] = <<>> /\ Recurs(g, n, F)
  <2>. HIDE DEF F
  <2>. QED
    BY <1>1, <1>3, <1>4, RecursionExists
<1>6. \A j \in 1 .. n : g[j] = e(j) \o g[j - 1]
  <2>1. ASSUME NEW j \in 1 .. n
        PROVE  g[j] = e(j) \o g[j - 1]
    <3>1. g[j] = F[j][g[j - 1]]
      BY <1>5 DEF Recurs
    <3>2. g[j - 1] \in Strands
      BY <1>1, <1>5
    <3>. QED
      BY <3>1, <3>2
  <2>. QED
    BY <2>1
<1>. DEFINE r == [k \in 0 .. n |-> g[n - k]]
<1>7. r[n] = <<>>
  BY <1>1, <1>5
<1>8. ASSUME NEW k \in 1 .. n
      PROVE  r[k - 1] = EncodeString(s[k]) \o r[k]
  <2>. DEFINE j == (n - k) + 1
  <2>1. j \in 1 .. n /\ j - 1 = n - k /\ n - (k - 1) = j /\ (n - j) + 1 = k
    BY <1>1
  <2>2. r[k - 1] = g[j] /\ r[k] = g[j - 1]
    BY <1>1, <2>1
  <2>. HIDE DEF j, r
  <2>3. g[j] = e(j) \o g[j - 1]
    BY <1>6, <2>1
  <2>4. e(j) = EncodeString(s[k])
    BY <2>1 DEF e
  <2>. QED
    BY <2>2, <2>3, <2>4
<1>9. \A k \in 0 .. n : r[k] \in Strands
  BY <1>1, <1>5
<1>. HIDE DEF r
<1>. QED
  BY <1>7, <1>8, <1>9 DEF Tails, n

(* An encoded string is a byte at least, so that there are no more strings *)
(* than bytes.                                                             *)
LEMMA TailsGrow ==
  ASSUME NEW s, Framed(s), NEW r, Tails(r, s)
  PROVE  \A k \in 0 .. Len(s) : Len(r[k]) \in Nat /\ Len(r[k]) >= Len(s) - k
<1>. DEFINE n == Len(s)
            T == {j \in Nat : j <= n => Len(r[n - j]) >= j}
<1>1. n \in Nat /\ \A k \in 1 .. n : s[k] \in Strands /\ Encodable(Bits * Len(s[k]))
  BY DEF Framed
<1>2. /\ r[n] = <<>>
      /\ \A k \in 1 .. n : r[k - 1] = EncodeString(s[k]) \o r[k]
      /\ \A k \in 0 .. n : r[k] \in Strands
  BY DEF Tails
<1>. HIDE DEF n
<1>3. 0 \in T
  BY <1>1, <1>2
<1>4. ASSUME NEW j \in T
      PROVE  j + 1 \in T
  <2>. SUFFICES ASSUME j + 1 <= n
                PROVE  Len(r[n - (j + 1)]) >= j + 1
    OBVIOUS
  <2>. DEFINE k == n - j
              x == LeftEncode(Bits * Len(s[k]))
              e == EncodeString(s[k])
  <2>1. k \in 1 .. n /\ k \in 0 .. n /\ n - (j + 1) = k - 1 /\ Len(r[k]) >= j /\ j \in Nat
    BY <1>1
  <2>. HIDE DEF k, T
  <2>2. r[k - 1] = e \o r[k] /\ r[k] \in Strands
    BY <1>2, <2>1
  <2>3. s[k] \in Strands /\ Encodable(Bits * Len(s[k]))
    BY <1>1, <2>1
  <2>4. e \in Strands /\ x \in Strands /\ e = x \o s[k]
    BY <2>3, EncodeStringIs, LeftEncodeIs DEF EncodeString
  <2>5. Len(x) >= 1
    <3>. DEFINE c == EncodeLength(Bits * Len(s[k]))
                h == <<c>>
                b == BigEndian(Bits * Len(s[k]), c)
    <3>1. x = h \o b /\ h \in Strands /\ Len(h) = 1 /\ b \in Strands
      BY <2>3, LeftPieces
    <3>. HIDE DEF x, h, b
    <3>2. Len(h \o b) = Len(h) + Len(b) /\ Len(b) \in Nat
      BY <3>1, Strung
    <3>. QED
      BY <3>1, <3>2
  <2>. HIDE DEF e, x
  <2>6. Len(e) >= 1
    <3>1. Len(x \o s[k]) = Len(x) + Len(s[k]) /\ Len(s[k]) \in Nat /\ Len(x) \in Nat
      BY <2>3, <2>4, Strung
    <3>. QED
      BY <2>4, <2>5, <3>1
  <2>7. Len(e \o r[k]) = Len(e) + Len(r[k]) /\ Len(e) \in Nat /\ Len(r[k]) \in Nat
    BY <2>2, <2>4, Strung
  <2>. QED
    BY <2>1, <2>2, <2>6, <2>7
<1>5. T = Nat
  <2>1. T \in SUBSET Nat
    OBVIOUS
  <2>. HIDE DEF T
  <2>. QED
    BY <1>3, <1>4, <2>1, Induction
<1>6. ASSUME NEW k \in 0 .. n
      PROVE  Len(r[k]) \in Nat /\ Len(r[k]) >= n - k
  <2>1. n - k \in Nat /\ n - k <= n /\ n - (n - k) = k
    BY <1>1
  <2>2. n - k \in T
    BY <1>5, <2>1
  <2>3. r[k] \in Strands
    BY <1>2
  <2>. QED
    BY <2>1, <2>2, <2>3 DEF Strands
<1>. QED
  BY <1>6 DEF n

(* Reading strings for as long as something is left.                       *)
StringReads(f, s) ==
  f = [k \in 0 .. Len(s) |->
         IF k = 0 THEN [strings |-> <<>>, rest |-> s]
         ELSE IF f[k - 1].rest = <<>> THEN f[k - 1] ELSE ReadMore(f[k - 1])]

(* What has been read of the strings s after the k-th step.                *)
ReadTo(s, r, k) ==
  IF k <= Len(s) THEN [strings |-> SubSeq(s, 1, k), rest |-> r[k]]
  ELSE [strings |-> s, rest |-> <<>>]

(* Each step reads one of them, until nothing is left.                     *)
LEMMA ReadToIs ==
  ASSUME NEW s, Framed(s), NEW r, Tails(r, s)
  PROVE  /\ ReadTo(s, r, 0) = [strings |-> <<>>, rest |-> r[0]]
         /\ \A k \in Nat \ {0} :
              ReadTo(s, r, k) = IF ReadTo(s, r, k - 1).rest = <<>> THEN ReadTo(s, r, k - 1)
                                ELSE ReadMore(ReadTo(s, r, k - 1))
         /\ \A k \in Nat : k >= Len(s) => ReadTo(s, r, k).strings = s
<1>. DEFINE n == Len(s)
            a(k) == SubSeq(s, 1, k)
            R(k) == ReadTo(s, r, k)
<1>1. /\ s \in Seq(Strands) /\ n \in Nat
      /\ \A k \in 1 .. n : s[k] \in Strands /\ Encodable(Bits * Len(s[k]))
  BY DEF Framed
<1>2. /\ r[n] = <<>>
      /\ \A k \in 1 .. n : r[k - 1] = EncodeString(s[k]) \o r[k]
      /\ \A k \in 0 .. n : r[k] \in Strands
  BY DEF Tails
<1>3. \A k \in 0 .. n : Len(r[k]) \in Nat /\ Len(r[k]) >= n - k
  BY TailsGrow
<1>4. a(0) = <<>> /\ a(n) = s
  <2>1. 0 \in Int /\ 1 > 0
    OBVIOUS
  <2>2. SubSeq(s, 1, 0) = <<>>
    BY <1>1, SubSeqEmpty
  <2>3. SubSeq(s, 1, Len(s)) = s
    BY <1>1, SubSeqFull
  <2>. QED
    BY <2>2, <2>3
<1>5. ASSUME NEW k \in 1 .. n
      PROVE  Append(a(k - 1), s[k]) = a(k)
  <2>1. 1 \in 1 .. n + 1 /\ k \in 1 .. n
    BY <1>1
  <2>2. SubSeq(s, 1, k) = SubSeq(s, 1, k - 1) \o <<s[k]>>
    BY <1>1, <2>1, SubSeqRecursiveSecond
  <2>3. a(k - 1) \in Seq(Strands)
    BY <1>1, SubSeqProperties
  <2>. HIDE DEF a
  <2>4. Append(a(k - 1), s[k]) = a(k - 1) \o <<s[k]>>
    BY <1>1, <2>3, AppendIsConcat
  <2>. QED
    BY <2>2, <2>4 DEF a
<1>. HIDE DEF n, a
<1>6. \A k \in 0 .. n : R(k) = [strings |-> a(k), rest |-> r[k]]
  BY <1>1 DEF ReadTo, n, a
<1>7. \A k \in Nat : k >= n => R(k) = [strings |-> s, rest |-> <<>>]
  <2>1. ASSUME NEW k \in Nat, k >= n
        PROVE  R(k) = [strings |-> s, rest |-> <<>>]
    <3>1. CASE k = n
      <4>1. n \in 0 .. n
        BY <1>1
      <4>. QED
        BY <1>2, <1>4, <1>6, <3>1, <4>1
    <3>2. CASE k # n
      <4>1. ~ k <= n
        BY <1>1, <2>1, <3>2
      <4>. QED
        BY <4>1 DEF ReadTo, n
    <3>. QED
      BY <3>1, <3>2
  <2>. QED
    BY <2>1
<1>. HIDE DEF R
<1>8. ASSUME NEW k \in Nat \ {0}
      PROVE  R(k) = IF R(k - 1).rest = <<>> THEN R(k - 1) ELSE ReadMore(R(k - 1))
  <2>1. CASE k <= n
    <3>1. k \in 1 .. n /\ k \in 0 .. n /\ k - 1 \in 0 .. n
      BY <1>1, <2>1
    <3>2. R(k - 1) = [strings |-> a(k - 1), rest |-> r[k - 1]]
      BY <1>6, <3>1
    <3>3. R(k) = [strings |-> a(k), rest |-> r[k]]
      BY <1>6, <3>1
    <3>4. Len(r[k - 1]) >= 1
      BY <1>1, <1>3, <3>1
    <3>5. r[k - 1] # <<>>
      BY <3>4
    <3>6. ReadMore([strings |-> a(k - 1), rest |-> EncodeString(s[k]) \o r[k]])
            = [strings |-> Append(a(k - 1), s[k]), rest |-> r[k]]
      <4>1. s[k] \in Strands /\ Encodable(Bits * Len(s[k])) /\ r[k] \in Strands
        BY <1>1, <1>2, <3>1
      <4>. DEFINE x == s[k]
                  t == r[k]
                  y == a(k - 1)
      <4>. HIDE DEF x, t, y
      <4>2. x \in Strands /\ Encodable(Bits * Len(x)) /\ t \in Strands
        BY <4>1 DEF x, t
      <4>3. ReadMore([strings |-> y, rest |-> EncodeString(x) \o t])
              = [strings |-> Append(y, x), rest |-> t]
        BY <4>2, MoreRead
      <4>. QED
        BY <4>3 DEF x, t, y
    <3>7. r[k - 1] = EncodeString(s[k]) \o r[k] /\ Append(a(k - 1), s[k]) = a(k)
      BY <1>2, <1>5, <3>1
    <3>8. R(k - 1) = [strings |-> a(k - 1), rest |-> EncodeString(s[k]) \o r[k]]
      BY <3>2, <3>7
    <3>9. R(k) = ReadMore(R(k - 1))
      BY <3>3, <3>6, <3>7, <3>8
    <3>10. R(k - 1).rest # <<>>
      BY <3>2, <3>5
    <3>. QED
      BY <3>9, <3>10
  <2>2. CASE ~ k <= n
    <3>1. k \in Nat /\ k - 1 \in Nat /\ k - 1 >= n /\ k >= n
      BY <1>1, <2>2
    <3>2. R(k) = R(k - 1) /\ R(k - 1).rest = <<>>
      BY <1>7, <3>1
    <3>. QED
      BY <3>2
  <2>. QED
    BY <2>1, <2>2
<1>9. R(0) = [strings |-> <<>>, rest |-> r[0]]
  <2>1. 0 \in 0 .. n
    BY <1>1
  <2>. QED
    BY <1>4, <1>6, <2>1
<1>. QED
  BY <1>7, <1>8, <1>9 DEF R, n

(* Strings behind their lengths are read back, all and only they.          *)
LEMMA StringsRead ==
  ASSUME NEW s, Framed(s), NEW r, Tails(r, s)
  PROVE  ReadStrings(r[0]) = s
<1>. DEFINE t == r[0]
            L == Len(t)
            f == CHOOSE g : StringReads(g, t)
            g == [k \in 0 .. L |-> ReadTo(s, r, k)]
<1>1. Len(s) \in Nat /\ L \in Nat /\ L >= Len(s)
  <2>1. Len(s) \in Nat
    BY DEF Framed
  <2>. QED
    BY <2>1, TailsGrow
<1>2. ReadStrings(t) = f[L].strings
  BY DEF ReadStrings, StringReads
<1>. HIDE DEF L, t
<1>3. /\ ReadTo(s, r, 0) = [strings |-> <<>>, rest |-> t]
      /\ \A k \in Nat \ {0} :
           ReadTo(s, r, k) = IF ReadTo(s, r, k - 1).rest = <<>> THEN ReadTo(s, r, k - 1)
                             ELSE ReadMore(ReadTo(s, r, k - 1))
      /\ ReadTo(s, r, L).strings = s
  BY <1>1, ReadToIs DEF t
<1>4. StringReads(g, t)
  <2>1. ASSUME NEW k \in 0 .. L
        PROVE  g[k] = IF k = 0 THEN [strings |-> <<>>, rest |-> t]
                      ELSE IF g[k - 1].rest = <<>> THEN g[k - 1] ELSE ReadMore(g[k - 1])
    <3>1. CASE k = 0
      BY <1>3, <3>1
    <3>2. CASE k # 0
      <4>1. k \in Nat \ {0} /\ k - 1 \in 0 .. L
        BY <1>1, <3>2
      <4>2. g[k] = ReadTo(s, r, k) /\ g[k - 1] = ReadTo(s, r, k - 1)
        BY <4>1
      <4>. HIDE DEF g
      <4>. QED
        BY <1>3, <3>2, <4>1, <4>2
    <3>. QED
      BY <3>1, <3>2
  <2>2. g = [k \in 0 .. L |-> g[k]]
    OBVIOUS
  <2>. HIDE DEF g
  <2>. QED
    BY <2>1, <2>2 DEF StringReads, L
<1>. HIDE DEF g
<1>5. StringReads(f, t)
  BY <1>4
<1>. HIDE DEF f
<1>6. /\ f[0] = [strings |-> <<>>, rest |-> t]
      /\ \A k \in 1 .. L : f[k] = IF f[k - 1].rest = <<>> THEN f[k - 1] ELSE ReadMore(f[k - 1])
  <2>1. \A k \in 0 .. L : f[k] = IF k = 0 THEN [strings |-> <<>>, rest |-> t]
                                 ELSE IF f[k - 1].rest = <<>> THEN f[k - 1] ELSE ReadMore(f[k - 1])
    BY <1>5 DEF StringReads, L
  <2>2. 0 \in 0 .. L /\ \A k \in 1 .. L : k \in 0 .. L /\ k # 0
    BY <1>1
  <2>. QED
    BY <2>1, <2>2
<1>. DEFINE T == {k \in Nat : k <= L => f[k] = ReadTo(s, r, k)}
<1>7. 0 \in T
  BY <1>3, <1>6
<1>8. ASSUME NEW k \in T
      PROVE  k + 1 \in T
  <2>1. SUFFICES ASSUME k + 1 <= L
                 PROVE  f[k + 1] = ReadTo(s, r, k + 1)
    OBVIOUS
  <2>2. k \in Nat /\ k + 1 \in 1 .. L /\ (k + 1) - 1 = k /\ f[k] = ReadTo(s, r, k)
        /\ k + 1 \in Nat \ {0}
    BY <1>1, <2>1
  <2>. HIDE DEF T
  <2>3. f[k + 1] = IF f[k].rest = <<>> THEN f[k] ELSE ReadMore(f[k])
    BY <1>6, <2>2
  <2>4. ReadTo(s, r, k + 1) = IF ReadTo(s, r, k).rest = <<>> THEN ReadTo(s, r, k)
                              ELSE ReadMore(ReadTo(s, r, k))
    BY <1>3, <2>2
  <2>. QED
    BY <2>2, <2>3, <2>4
<1>9. T = Nat
  <2>1. T \in SUBSET Nat
    OBVIOUS
  <2>. HIDE DEF T
  <2>. QED
    BY <1>7, <1>8, <2>1, Induction
<1>10. f[L] = ReadTo(s, r, L)
  BY <1>1, <1>9
<1>. QED
  BY <1>2, <1>3, <1>10 DEF t

(* Three strings in front of a fourth.                                     *)
Joined(a, b, c, d) == ((a \o b) \o c) \o d = a \o (b \o (c \o d))

(* However they are bracketed.                                             *)
LEMMA Moved ==
  ASSUME NEW a \in Strands, NEW b \in Strands, NEW c \in Strands, NEW d \in Strands
  PROVE  Joined(a, b, c, d)
<1>1. c \o d \in Strands /\ a \o b \in Strands
  BY Strung
<1>2. (a \o b) \o (c \o d) = a \o (b \o (c \o d))
  <2>. DEFINE x == c \o d
  <2>1. x \in Strands
    BY <1>1
  <2>. HIDE DEF x
  <2>2. (a \o b) \o x = a \o (b \o x)
    BY <2>1, Assoc
  <2>. QED
    BY <2>2 DEF x
<1>3. ((a \o b) \o c) \o d = (a \o b) \o (c \o d)
  <2>. DEFINE x == a \o b
  <2>1. x \in Strands
    BY <1>1
  <2>. HIDE DEF x
  <2>2. (x \o c) \o d = x \o (c \o d)
    BY <2>1, Assoc
  <2>. QED
    BY <2>2 DEF x
<1>. QED
  BY <1>2, <1>3 DEF Joined

(* What TupleHash is asked to hash.                                        *)
LEMMA TupleAsked ==
  ASSUME NEW row, NEW strings, Asked("row", row, strings), row.fn = "TupleHash"
  PROVE  Framed(strings) /\ Len(strings) \in Nat \ {0}
<1>1. strings \in Seq(Strands) /\ strings # <<>>
      /\ \A i \in DOMAIN strings : Encodable(Bits * Len(strings[i]))
  BY RowAssumption DEF Asked, Takes, Fits, Strands
<1>2. Len(strings) \in Nat /\ DOMAIN strings = 1 .. Len(strings) /\ Len(strings) # 0
  BY <1>1, EmptySeq
<1>. QED
  BY <1>1, <1>2 DEF Framed

(* What follows the strings before the k-th: its length, it and the rest.  *)
Stepped(s, r, R, k) ==
  /\ r[k] \o R \in Strands /\ s[k] \in Strands
  /\ LeftEncode(Bits * Len(s[k])) \in Strands
  /\ r[k - 1] \o R = LeftEncode(Bits * Len(s[k])) \o (s[k] \o (r[k] \o R))

(* Each string is followed by those after it.                              *)
LEMMA TailStep ==
  ASSUME NEW s, Framed(s), NEW r, Tails(r, s), NEW R \in Strands, NEW k \in 1 .. Len(s)
  PROVE  Stepped(s, r, R, k)
<1>. DEFINE l == LeftEncode(Bits * Len(s[k]))
            x == s[k]
            t == r[k]
<1>1. Len(s) \in Nat /\ x \in Strands /\ Encodable(Bits * Len(x))
  BY DEF Framed
<1>2. t \in Strands /\ r[k - 1] = EncodeString(x) \o t
  <2>1. k \in 0 .. Len(s)
    BY <1>1
  <2>. QED
    BY <2>1 DEF Tails
<1>3. EncodeString(x) = l \o x
  BY DEF EncodeString
<1>4. l \in Strands
  BY <1>1, LeftEncodeIs
<1>. HIDE DEF l, x, t
<1>5. ((l \o x) \o t) \o R = l \o (x \o (t \o R))
  <2>1. x \in Strands
    BY <1>1
  <2>2. t \in Strands
    BY <1>2
  <2>3. Joined(l, x, t, R)
    BY <1>4, <2>1, <2>2, Moved
  <2>. QED
    BY <2>3 DEF Joined
<1>6. t \o R \in Strands
  BY <1>2, Strung
<1>. QED
  BY <1>1, <1>2, <1>3, <1>4, <1>5, <1>6 DEF l, x, t, Stepped

(* The pieces around a tuple's strings.                                    *)
LEMMA TuplePieces ==
  ASSUME NEW row, NEW strings, Asked("row", row, strings), row.fn = "TupleHash"
  PROVE  LET p == Frame(row, strings)
             n == Len(strings)
             P == PrefixBlock(TupleHashName, row.cust, row.rate)
             l(k) == LeftEncode(Bits * Len(strings[k]))
         IN  /\ P \in Strands /\ LengthTail(row) \in Strands
             /\ p[1] = P \o l(1)
             /\ \A k \in 1 .. n - 1 : p[k + 1] = l(k + 1)
             /\ p[n + 1] = LengthTail(row)
<1>. DEFINE n == Len(strings)
            P == PrefixBlock(TupleHashName, row.cust, row.rate)
            R == LengthTail(row)
            l(k) == LeftEncode(Bits * Len(strings[k]))
            p == Frame(row, strings)
<1>1. n \in Nat \ {0} /\ \A k \in 1 .. n : strings[k] \in Strands /\ Encodable(Bits * Len(strings[k]))
  BY TupleAsked DEF Framed
<1>2. row \in RowsBuilt
  BY DEF Asked
<1>3. P \in Strands
  <2>1. /\ TupleHashName \in Strands /\ row.cust \in Strands /\ row.rate \in Nat \ {0}
        /\ Encodable(row.rate) /\ Encodable(Bits * Len(TupleHashName))
        /\ Encodable(Bits * Len(row.cust))
    BY <1>2, RowIs DEF Sized, Keccaks
  <2>. QED
    BY <2>1, PrefixBlockIs
<1>4. R \in Strands
  BY <1>2, LengthTailIs
<1>5. \A k \in 1 .. n : l(k) \in Strands
  BY <1>1, LeftEncodeIs
<1>6. p = [i \in 1 .. n + 1 |-> (IF i = 1 THEN P ELSE <<>>) \o (IF i <= n THEN l(i) ELSE R)]
  BY DEF Frame, TupleFrame, Blake2s
<1>. HIDE DEF n, P, R, l, p
<1>7. \A k \in 1 .. n - 1 : p[k + 1] = <<>> \o l(k + 1)
  <2>1. \A k \in 1 .. n - 1 : k + 1 \in 1 .. n + 1 /\ k + 1 # 1 /\ k + 1 <= n
    BY <1>1
  <2>. QED
    BY <1>6, <2>1
<1>8. p[1] = P \o l(1)
  <2>1. 1 \in 1 .. n + 1 /\ 1 <= n
    BY <1>1
  <2>. QED
    BY <1>6, <2>1
<1>9. p[n + 1] = <<>> \o R
  <2>1. n + 1 \in 1 .. n + 1 /\ n + 1 # 1 /\ ~ n + 1 <= n
    BY <1>1
  <2>. QED
    BY <1>6, <2>1
<1>10. ASSUME NEW k \in 1 .. n - 1
       PROVE  p[k + 1] = l(k + 1)
  <2>1. l(k + 1) \in Strands
    BY <1>1, <1>5
  <2>2. <<>> \o l(k + 1) = l(k + 1)
    BY <2>1, NothingAdded
  <2>. QED
    BY <1>7, <2>2
<1>11. p[n + 1] = R
  BY <1>4, <1>9, NothingAdded
<1>. QED
  BY <1>3, <1>4, <1>8, <1>10, <1>11 DEF n, P, R, l, p

(* A tuple's body: the prefix, the strings and the output length.          *)
LEMMA TupleBody ==
  ASSUME NEW row, NEW strings, Asked("row", row, strings), row.fn = "TupleHash",
         NEW r, Tails(r, strings)
  PROVE  Concatenated(Frame(row, strings), strings)
           = PrefixBlock(TupleHashName, row.cust, row.rate) \o (r[0] \o LengthTail(row))
<1>. DEFINE p == Frame(row, strings)
            s == strings
            n == Len(s)
            P == PrefixBlock(TupleHashName, row.cust, row.rate)
            R == LengthTail(row)
            l(k) == LeftEncode(Bits * Len(s[k]))
            v(k) == r[k] \o R
<1>1. Framed(s) /\ n \in Nat \ {0}
  BY TupleAsked
<1>2. /\ P \in Strands /\ R \in Strands
      /\ p[1] = P \o l(1)
      /\ \A k \in 1 .. n - 1 : p[k + 1] = l(k + 1)
      /\ p[n + 1] = R
  BY TuplePieces
<1>3. Around(p, s)
  <2>1. row \in RowsBuilt /\ strings \in Strings /\ Valid(row) /\ Takes(row, strings)
    BY DEF Asked
  <2>. QED
    BY <2>1, FrameIs
<1>. HIDE DEF p, P, R
<1>4. PICK f : Passes(f, p, s)
  BY <1>3, PassesExists
<1>5. /\ Concatenated(p, s) = f[n] /\ f[0] = p[1]
      /\ \A k \in 1 .. n : f[k] = (f[k - 1] \o s[k]) \o p[k + 1]
      /\ \A k \in 0 .. n : f[k] \in Strands
  BY <1>4 DEF Passes
<1>6. ASSUME NEW k \in 1 .. n
      PROVE  /\ v(k) \in Strands /\ s[k] \in Strands /\ l(k) \in Strands
             /\ v(k - 1) = l(k) \o (s[k] \o v(k))
  <2>1. R \in Strands
    BY <1>2
  <2>2. Framed(strings)
    BY <1>1
  <2>3. k \in 1 .. Len(strings)
    OBVIOUS
  <2>4. Stepped(strings, r, R, k)
    BY <2>1, <2>2, <2>3, TailStep
  <2>. QED
    BY <2>4 DEF Stepped
<1>7. v(n) = R
  <2>1. r[n] = <<>>
    BY DEF Tails
  <2>. QED
    BY <1>2, <2>1, NothingAdded
<1>. HIDE DEF s, n, l, v
<1>. DEFINE T == {k \in Nat : k < n => f[k] \o (s[k + 1] \o v(k + 1)) = P \o v(0)}
<1>8. 0 \in T
  <2>1. 1 \in 1 .. n /\ 1 - 1 = 0 /\ 0 + 1 = 1
    BY <1>1
  <2>2. v(0) = l(1) \o (s[1] \o v(1)) /\ l(1) \in Strands /\ s[1] \in Strands /\ v(1) \in Strands
    BY <1>6, <2>1
  <2>3. f[0] = P \o l(1)
    BY <1>2, <1>5
  <2>4. (P \o l(1)) \o (s[1] \o v(1)) = P \o (l(1) \o (s[1] \o v(1)))
    <3>. DEFINE a == l(1)
                b == s[1]
                c == v(1)
    <3>1. a \in Strands
      BY <2>2
    <3>2. b \in Strands
      BY <2>2
    <3>3. c \in Strands
      BY <2>2
    <3>4. P \in Strands
      BY <1>2
    <3>. HIDE DEF a, b, c
    <3>. DEFINE x == b \o c
    <3>5. x \in Strands
      BY <3>2, <3>3, Strung
    <3>. HIDE DEF x
    <3>6. (P \o a) \o x = P \o (a \o x)
      BY <3>1, <3>4, <3>5, Assoc
    <3>. QED
      BY <3>6 DEF a, b, c, x
  <2>. QED
    BY <2>1, <2>2, <2>3, <2>4
<1>9. ASSUME NEW k \in T
      PROVE  k + 1 \in T
  <2>0. k \in Nat /\ k + 1 \in Nat /\ (k + 1) + 1 = k + 2
    OBVIOUS
  <2>1. SUFFICES ASSUME k + 1 < n
                 PROVE  f[k + 1] \o (s[k + 2] \o v(k + 2)) = P \o v(0)
    <3>. DEFINE Q(j) == f[j] \o (s[j + 1] \o v(j + 1)) = P \o v(0)
    <3>. HIDE DEF Q
    <3>1. k + 1 < n => Q(k + 1)
      BY <2>0, <2>1 DEF Q
    <3>. QED
      BY <2>0, <3>1 DEF Q
  <2>2. /\ k \in Nat /\ k < n /\ k + 1 \in 1 .. n - 1 /\ k + 1 \in 1 .. n /\ k + 2 \in 1 .. n
        /\ (k + 1) - 1 = k /\ (k + 2) - 1 = k + 1 /\ (k + 1) + 1 = k + 2 /\ k \in 0 .. n
        /\ f[k] \o (s[k + 1] \o v(k + 1)) = P \o v(0)
    <3>1. k < n
      BY <1>1, <2>0, <2>1
    <3>2. f[k] \o (s[k + 1] \o v(k + 1)) = P \o v(0)
      BY <3>1
    <3>. HIDE DEF T
    <3>3. /\ k + 1 \in 1 .. n - 1 /\ k + 1 \in 1 .. n /\ k + 2 \in 1 .. n
          /\ (k + 1) - 1 = k /\ (k + 2) - 1 = k + 1 /\ k \in 0 .. n
      BY <1>1, <2>0, <2>1
    <3>. QED
      BY <2>0, <3>1, <3>2, <3>3
  <2>. HIDE DEF T
  <2>. DEFINE a == f[k]
              b == s[k + 1]
              c == l(k + 2)
              d == s[k + 2]
              e == v(k + 2)
              g == v(k + 1)
  <2>3. /\ a \in Strands /\ b \in Strands /\ c \in Strands /\ d \in Strands /\ e \in Strands
        /\ g = c \o (d \o e)
    BY <1>5, <1>6, <2>2
  <2>4. f[k + 1] = (a \o b) \o c
    <3>1. f[k + 1] = (f[(k + 1) - 1] \o s[k + 1]) \o p[(k + 1) + 1]
      BY <1>5, <2>2
    <3>2. p[(k + 1) + 1] = l((k + 1) + 1)
      BY <1>2, <2>2 DEF n, l, s
    <3>. QED
      BY <2>2, <3>1, <3>2
  <2>5. a \o (b \o g) = P \o v(0)
    BY <2>2
  <2>. HIDE DEF a, b, c, d, e, g
  <2>6. ((a \o b) \o c) \o (d \o e) = a \o (b \o (c \o (d \o e)))
    <3>. DEFINE x == d \o e
    <3>1. x \in Strands
      BY <2>3, Strung
    <3>. HIDE DEF x
    <3>2. a \in Strands
      BY <2>3
    <3>3. b \in Strands
      BY <2>3
    <3>4. c \in Strands
      BY <2>3
    <3>5. Joined(a, b, c, x)
      BY <3>1, <3>2, <3>3, <3>4, Moved
    <3>. QED
      BY <3>5 DEF x, Joined
  <2>7. f[k + 1] \o (d \o e) = P \o v(0)
    BY <2>3, <2>4, <2>5, <2>6
  <2>. QED
    BY <2>7 DEF d, e
<1>10. T = Nat
  <2>1. T \in SUBSET Nat
    OBVIOUS
  <2>. HIDE DEF T
  <2>. QED
    BY <1>8, <1>9, <2>1, Induction
<1>11. f[n] = P \o v(0)
  <2>1. n - 1 \in Nat /\ n - 1 < n /\ (n - 1) + 1 = n /\ n \in 1 .. n /\ n - 1 \in 0 .. n
    BY <1>1
  <2>2. f[n - 1] \o (s[n] \o v(n)) = P \o v(0)
    BY <1>10, <2>1
  <2>3. f[n] = (f[n - 1] \o s[n]) \o p[n + 1]
    BY <1>5, <2>1
  <2>4. f[n - 1] \in Strands /\ s[n] \in Strands /\ p[n + 1] = R
    BY <1>2, <1>5, <1>6, <2>1 DEF n, s
  <2>. DEFINE a == f[n - 1]
              b == s[n]
  <2>. HIDE DEF a, b
  <2>5. (a \o b) \o R = a \o (b \o R)
    <3>1. a \in Strands /\ b \in Strands
      BY <2>4 DEF a, b
    <3>. QED
      BY <1>2, <3>1, Assoc
  <2>. QED
    BY <1>7, <2>2, <2>3, <2>4, <2>5 DEF a, b
<1>. QED
  BY <1>5, <1>11 DEF p, s, P, R, v, n

(* TupleHash.                                                              *)
LEMMA TupleRead ==
  ASSUME NEW row, NEW strings, Asked("row", row, strings), row.fn = "TupleHash",
         NEW call, Absorbs(call, row, Concatenated(Frame(row, strings), strings))
  PROVE  Reading(call) = [row |-> Canonical(row), strings |-> strings]
<1>1. row \in RowsBuilt /\ row.fn \in Keccaks /\ Valid(row)
  BY DEF Asked, Keccaks
<1>2. Framed(strings)
  BY TupleAsked
<1>3. PICK r : Tails(r, strings)
  BY <1>2, TailsExist
<1>. DEFINE body == Concatenated(Frame(row, strings), strings)
            w    == row.rate
            c    == row.cust
            p    == PrefixBlock(TupleHashName, c, w)
            l    == LengthTail(row)
            m    == r[0]
            t    == m \o l
            o    == IF row.xof THEN 0 ELSE row.out
<1>4. /\ c \in Strands /\ w \in Nat \ {0} /\ Encodable(w)
      /\ Encodable(Bits * Len(c))
      /\ TupleHashName \in Strands /\ Encodable(Bits * Len(TupleHashName))
      /\ TupleHashName # <<>> /\ TupleHashName # KmacName
  BY <1>1, RowIs, RowAssumption DEF Sized
<1>5. l \in Strands
  BY <1>1, LengthTailIs
<1>6. Suffix(row) = CShakeSuffix
  BY DEF Suffix
<1>7. body = p \o t
  BY <1>3, TupleBody
<1>8. m \in Strands
  <2>1. 0 \in 0 .. Len(strings)
    BY <1>2 DEF Framed
  <2>. QED
    BY <1>3, <2>1 DEF Tails
<1>9. ReadStrings(m) = strings
  BY <1>2, <1>3, StringsRead
<1>. HIDE DEF body, m
<1>10. t \in Strands
  <2>. HIDE DEF l
  <2>. QED
    BY <1>5, <1>8, Strung
<1>11. /\ p \in Strands
       /\ \A z \in Strands : Opens(p \o z, TupleHashName, c, z)
  <2>. HIDE DEF c, w
  <2>. QED
    BY <1>4, PrefixRead
<1>12. /\ ReadRight(t).rest = m
       /\ (ReadRight(t).value = 0) = row.xof
       /\ ReadRight(t).value \div Bits = o
  BY <1>1, <1>8, LengthRead
<1>. HIDE DEF p, t, l
<1>13. body \in Strands
  BY <1>7, <1>10, <1>11, Strung
<1>14. Reading(call) = ReadCShake(row.rate, body)
  BY <1>1, <1>6, <1>13, CShakeSuffixRead DEF body
<1>. HIDE DEF c
<1>15. Opens(body, TupleHashName, c, t)
  BY <1>7, <1>10, <1>11
<1>16. ReadCShake(w, body)
         = [row     |-> RowWith("TupleHash", w, row.xof, o, <<>>, c, <<>>, <<>>, <<>>),
            strings |-> strings]
  <2>. DEFINE size == ReadRight(t)
  <2>. HIDE DEF w, o
  <2>1. ReadCShake(w, body)
          = [row     |-> RowWith("TupleHash", w, size.value = 0, size.value \div Bits,
                                 <<>>, c, <<>>, <<>>, <<>>),
             strings |-> ReadStrings(size.rest)]
    <3>1. ReadCShake(w, body) = TupleReading(w, c, t)
      BY <1>15, NameRead, RowAssumption
    <3>. QED
      BY <3>1 DEF TupleReading
  <2>2. size.rest = m /\ (size.value = 0) = row.xof /\ size.value \div Bits = o
    BY <1>12
  <2>. HIDE DEF size
  <2>. QED
    BY <1>9, <2>1, <2>2
<1>17. Canonical(row) = RowWith("TupleHash", w, row.xof, o, <<>>, c, <<>>, <<>>, <<>>)
  <2>1. row.key = <<>>
    <3>1. row.fn \notin {"KMAC", "Blake3Keyed"} \cup Blake2s
      BY DEF Blake2s
    <3>. QED
      BY <1>1, <3>1, TrimmedIs
  <2>2. Canonical(row) = RowWith(row.fn, row.rate, row.xof, IF row.xof THEN 0 ELSE row.out,
                                 <<>>, row.cust, row.key, <<>>, <<>>)
    BY <1>1, ReservedRow
  <2>. QED
    BY <2>1, <2>2 DEF c
<1>. QED
  BY <1>14, <1>16, <1>17

----------------------------------------------------------------------------
(* Ascon.                                                                  *)

(* A row that frames nothing absorbs its message.                          *)
LEMMA BareBody ==
  ASSUME NEW row, NEW strings, Asked("row", row, strings),
         row.fn \notin {"cSHAKE", "KMAC", "TupleHash", "AsconCxof128"} \cup Blake2s
  PROVE  Concatenated(Frame(row, strings), strings) = strings[1]
<1>. DEFINE e == <<>>
            m == strings[1]
<1>0. row.fn # "TupleHash"
  OBVIOUS
<1>1. m \in Strands
  BY <1>0, OneString
<1>2. e \in Strands
  BY <1>1, NothingAdded
<1>3. Frame(row, strings) = <<e, e>>
  BY DEF Frame
<1>4. (e \o m) \o e = m
  BY <1>1, NothingAdded
<1>. HIDE DEF e
<1>5. Concatenated(<<e, e>>, strings) = (e \o strings[1]) \o e
  BY <1>0, <1>2, BodyIs
<1>. QED
  BY <1>3, <1>4, <1>5

(* Ascon's padding, whatever has been absorbed before.                     *)
LEMMA AsconPad ==
  ASSUME NEW m \in Strands, NEW n \in Nat
  PROVE  /\ SpongeTail(n, AsconRate, 1, FALSE) \in Strands
         /\ Len(SpongeTail(n, AsconRate, 1, FALSE)) = AsconRate - (n % AsconRate)
         /\ Unpadded(m \o SpongeTail(n, AsconRate, 1, FALSE), 0).payload = m
<1>1. AsconRate \in Nat \ {0} /\ 1 \in Nat \ {0} /\ 1 \in Nat /\ FALSE \in BOOLEAN /\ 1 < Base
      /\ (FALSE => 1 < Base \div 2)
  BY RowAssumption, BaseIs
<1>2. /\ SpongeTail(n, AsconRate, 1, FALSE) \in Strands
      /\ Len(SpongeTail(n, AsconRate, 1, FALSE)) = AsconRate - (n % AsconRate)
  BY <1>1, SpongeTailIs
<1>3. Unpadded(m \o SpongeTail(n, AsconRate, 1, FALSE), Closing(FALSE))
        = [suffix |-> 1, payload |-> m]
  BY <1>1, PadRemoved
<1>4. Closing(FALSE) = 0
  BY DEF Closing
<1>. DEFINE u == Unpadded(m \o SpongeTail(n, AsconRate, 1, FALSE), 0)
<1>5. u = [suffix |-> 1, payload |-> m]
  BY <1>3, <1>4
<1>6. u.payload = m
  <2>. HIDE DEF u
  <2>. QED
    BY <1>5
<1>. QED
  BY <1>2, <1>6

(* What is read of an Ascon call.                                          *)
LEMMA AsconReads ==
  ASSUME NEW row, row.fn \in Ascons, NEW body, NEW call, Absorbs(call, row, body)
  PROVE  /\ Reading(call) = ReadAscon(row.fn, call.stream)
         /\ call.stream = body \o SpongeTail(Len(body), AsconRate, 1, FALSE)
<1>1. call.init = <<"ascon", row.fn>>
  BY DEF Absorbs, InitialState, Keccaks, Ascons, Blake2s, Blake3s
<1>2. call.init[1] = "ascon" /\ call.init[2] = row.fn
  BY <1>1
<1>3. call.stream = body \o SpongeTail(Len(body), AsconRate, 1, FALSE)
  BY DEF Absorbs, PadTail, Keccaks, Ascons
<1>. QED
  BY <1>2, <1>3 DEF Reading

(* Ascon-Hash256 and Ascon-XOF128.                                         *)
LEMMA AsconRead ==
  ASSUME NEW row, NEW strings, Asked("row", row, strings),
         row.fn \in {"AsconHash256", "AsconXof128"},
         NEW call, Absorbs(call, row, Concatenated(Frame(row, strings), strings))
  PROVE  Reading(call) = [row |-> Canonical(row), strings |-> strings]
<1>. DEFINE body == Concatenated(Frame(row, strings), strings)
            m    == strings[1]
            n    == Len(m)
            pad  == SpongeTail(n, AsconRate, 1, FALSE)
<1>1. row \in RowsBuilt /\ row.fn \in Ascons /\ row.fn # "TupleHash" /\ row.fn # "AsconCxof128"
      /\ row.fn \notin {"cSHAKE", "KMAC", "TupleHash", "AsconCxof128"} \cup Blake2s
  BY DEF Asked, Ascons, Blake2s
<1>2. m \in Strands /\ strings = <<m>>
  BY <1>1, OneString
<1>3. body = m
  BY <1>1, BareBody
<1>4. n \in Nat
  BY <1>2, Strung
<1>. HIDE DEF body, m
<1>5. Reading(call) = ReadAscon(row.fn, call.stream)
      /\ call.stream = m \o pad
  BY <1>1, <1>3, AsconReads DEF body
<1>6. Unpadded(m \o pad, 0).payload = m
  BY <1>2, <1>4, AsconPad
<1>. HIDE DEF pad
<1>7. Reading(call) = [row |-> [Blank EXCEPT !.fn = row.fn], strings |-> <<m>>]
  <2>1. ReadAscon(row.fn, call.stream)
          = [row |-> [Blank EXCEPT !.fn = row.fn],
             strings |-> <<Unpadded(call.stream, 0).payload>>]
    BY <1>1 DEF ReadAscon
  <2>. QED
    BY <1>5, <1>6, <2>1
<1>8. Canonical(row) = [Blank EXCEPT !.fn = row.fn]
  <2>1. Canonical(row) = RowWith(row.fn, 0, FALSE, 0, <<>>, <<>>, <<>>, <<>>, <<>>)
    <3>1. row.fn \notin Blake2s /\ row.fn \notin {"KMAC", "TupleHash"} /\ row.fn # "cSHAKE"
      BY DEF Blake2s
    <3>2. /\ row.name = <<>> /\ row.cust = <<>> /\ row.key = <<>> /\ row.salt = <<>>
          /\ row.person = <<>> /\ row.xof = FALSE /\ row.rate = 0
      BY <1>1, <3>1, TrimmedIs
    <3>. QED
      BY <1>1, <3>1, <3>2, CanonicalIs
  <2>2. [Blank EXCEPT !.fn = row.fn]
          = RowWith(row.fn, 0, FALSE, 0, <<>>, <<>>, <<>>, <<>>, <<>>)
    BY RowAscon
  <2>. QED
    BY <2>1, <2>2
<1>. QED
  BY <1>2, <1>7, <1>8

(* Digits turned twice.                                                    *)
LEMMA ReversedTwice ==
  ASSUME NEW d \in Strands
  PROVE  Reverse(Reverse(d)) = d
<1>. DEFINE n == Len(d)
            b == Reverse(d)
<1>1. n \in Nat /\ d = [i \in 1 .. n |-> d[i]]
  BY DEF Strands
<1>2. b = [i \in 1 .. n |-> d[(n - i) + 1]]
  BY DEF Reverse
<1>. HIDE DEF b, n
<1>3. Len(b) = n
  BY <1>1, <1>2
<1>4. Reverse(b) = [i \in 1 .. n |-> b[(n - i) + 1]]
  BY <1>3 DEF Reverse
<1>5. \A i \in 1 .. n : b[(n - i) + 1] = d[i]
  <2>1. ASSUME NEW i \in 1 .. n
        PROVE  b[(n - i) + 1] = d[i]
    <3>1. (n - i) + 1 \in 1 .. n /\ (n - ((n - i) + 1)) + 1 = i
      BY <1>1
    <3>. QED
      BY <1>2, <3>1
  <2>. QED
    BY <2>1
<1>. QED
  BY <1>1, <1>4, <1>5 DEF b

(* The length block of a customization.                                    *)
LEMMA LengthBlockRead ==
  ASSUME NEW c \in Strands, Len(c) <= MaxCustomization
  PROVE  LET l == LittleEndian(Bits * Len(c), AsconRate)
         IN  /\ l \in Strands /\ Len(l) = AsconRate
             /\ Value(Reverse(l)) \div Bits = Len(c)
<1>. DEFINE k == Len(c)
            x == Bits * k
            b == BigEndian(x, AsconRate)
            l == LittleEndian(x, AsconRate)
<1>1. k \in Nat /\ AsconRate \in Nat /\ MaxCustomization \in Nat
      /\ Bits * MaxCustomization < Digits(AsconRate) /\ k <= MaxCustomization
  BY RowAssumption DEF Strands
<1>2. Bits \in Nat \ {0} /\ Digits(AsconRate) \in Nat
  BY <1>1, BaseIs
<1>. HIDE DEF k
<1>3. x \in Nat /\ x <= Bits * MaxCustomization
  <2>1. \A i, j, d \in Nat : i <= j => d * i <= d * j
    OBVIOUS
  <2>2. Bits \in Nat
    BY <1>2
  <2>3. Bits * k <= Bits * MaxCustomization
    BY <1>1, <2>1, <2>2
  <2>. QED
    BY <1>1, <1>2, <2>3
<1>. HIDE DEF x
<1>4. x < Digits(AsconRate)
  <2>1. Bits * MaxCustomization \in Nat
    BY <1>1, <1>2
  <2>. QED
    BY <1>1, <1>2, <1>3, <2>1
<1>5. Value(b) = x
  BY <1>1, <1>3, <1>4, DigitsSpell
<1>6. l \in Strands /\ Len(l) = AsconRate
  BY <1>1, <1>3, LittleEndianIs
<1>7. Reverse(l) = b
  <2>1. b \in Strands
    BY <1>1, <1>3, BigEndianIs
  <2>2. l = Reverse(b)
    BY DEF LittleEndian
  <2>. QED
    BY <2>1, <2>2, ReversedTwice
<1>8. x \div Bits = k
  <2>1. k \in Int /\ 0 \in 0 .. Bits - 1
    BY <1>1, <1>2
  <2>2. (k * Bits + 0) \div Bits = k
    BY <1>2, <2>1, DivModUnique
  <2>3. x = k * Bits + 0
    BY <1>1, <1>2 DEF x
  <2>. QED
    BY <2>2, <2>3
<1>. HIDE DEF b, l
<1>9. Value(Reverse(l)) \div Bits = k
  BY <1>5, <1>7, <1>8
<1>. QED
  BY <1>6, <1>9 DEF l, x, k

(* A customization read back: its length's block, it, and its padding.     *)
LEMMA CustomizationRead ==
  ASSUME NEW c \in Strands, Len(c) <= MaxCustomization, NEW t \in Strands,
         NEW s, s = CustomizationPrefix(c) \o t
  PROVE  /\ CustomizationPrefix(c) \in Strands
         /\ ReadAscon("AsconCxof128", s)
              = [row     |-> [Blank EXCEPT !.fn = "AsconCxof128", !.cust = c],
                 strings |-> <<Unpadded(t, 0).payload>>]
<1>. DEFINE a == AsconRate
            l == LittleEndian(Bits * Len(c), a)
            k == Len(c)
            z == SpongeTail(k, a, 1, FALSE)
            x == l \o c
            p == CustomizationPrefix(c)
            size == Value(Reverse(Take(s, a))) \div Bits
            opened == a + size
<1>1. l \in Strands /\ Len(l) = a /\ Value(Reverse(l)) \div Bits = k
  BY LengthBlockRead
<1>2. k \in Nat /\ a \in Nat \ {0}
  BY RowAssumption DEF Strands
<1>3. z \in Strands /\ Len(z) = a - (k % a)
  BY <1>2, AsconPad
<1>4. p = x \o z
  BY DEF CustomizationPrefix
<1>. HIDE DEF l, k, z, p
<1>5. x \in Strands /\ Len(x) = a + k
  BY <1>1, Strung DEF k
<1>. HIDE DEF x
<1>6. p \in Strands /\ Len(p) = (a + k) + (a - (k % a))
  <2>1. x \o z \in Strands /\ Len(x \o z) = Len(x) + Len(z)
    BY <1>3, <1>5, Strung
  <2>. QED
    BY <1>3, <1>4, <1>5, <2>1
<1>. DEFINE u == z \o t
            v == c \o u
<1>7. u \in Strands
  BY <1>3, Strung
<1>. HIDE DEF u
<1>8. v \in Strands
  BY <1>7, Strung
<1>9. s = l \o v
  <2>1. Joined(l, c, z, t)
    BY <1>1, <1>3, Moved
  <2>. QED
    BY <1>4, <2>1 DEF Joined, x, u, p
<1>10. Take(s, a) = l /\ Drop(s, a) = v
  <2>. HIDE DEF v
  <2>1. Take(l \o v, Len(l)) = l /\ Drop(l \o v, Len(l)) = v
    BY <1>1, <1>8, TakeDrop
  <2>. QED
    BY <1>1, <1>9, <2>1
<1>11. Take(v, k) = c
  <2>1. Take(c \o u, Len(c)) = c
    BY <1>7, TakeDrop
  <2>. QED
    BY <2>1 DEF k
<1>. HIDE DEF v
<1>12. size = k
  BY <1>1, <1>10
<1>. HIDE DEF size
<1>13. opened + a - (opened % a) = Len(p)
  <2>1. opened = k + 1 * a
    BY <1>2, <1>12
  <2>2. (k + 1 * a) % a = k % a
    <3>1. 1 \in Int /\ k \in Int
      BY <1>2
    <3>. QED
      BY <1>2, <3>1, DivModShift
  <2>3. k % a \in Nat
    BY <1>2, DivMod
  <2>. QED
    BY <1>2, <1>6, <2>1, <2>2, <2>3
<1>14. Drop(s, Len(p)) = t
  <2>1. Drop(p \o t, Len(p)) = t
    BY <1>6, TakeDrop
  <2>. QED
    BY <2>1 DEF p
<1>15. ReadAscon("AsconCxof128", s)
         = [row     |-> [Blank EXCEPT !.fn = "AsconCxof128", !.cust = Take(Drop(s, a), size)],
            strings |-> <<Unpadded(Drop(s, opened + a - (opened % a)), 0).payload>>]
  BY DEF ReadAscon, size
<1>16. Take(Drop(s, a), size) = c
  BY <1>10, <1>11, <1>12
<1>. HIDE DEF opened
<1>17. Drop(s, opened + a - (opened % a)) = t
  BY <1>13, <1>14
<1>. QED
  BY <1>6, <1>15, <1>16, <1>17 DEF p

(* Ascon-CXOF128.                                                          *)
LEMMA CxofRead ==
  ASSUME NEW row, NEW strings, Asked("row", row, strings), row.fn = "AsconCxof128",
         NEW call, Absorbs(call, row, Concatenated(Frame(row, strings), strings))
  PROVE  Reading(call) = [row |-> Canonical(row), strings |-> strings]
<1>. DEFINE body == Concatenated(Frame(row, strings), strings)
            m    == strings[1]
            c    == row.cust
            p    == CustomizationPrefix(c)
            n    == Len(body)
            pad  == SpongeTail(n, AsconRate, 1, FALSE)
            t    == m \o pad
<1>1. row \in RowsBuilt /\ row.fn \in Ascons /\ row.fn # "TupleHash"
      /\ Len(c) <= MaxCustomization
  BY DEF Asked, Ascons, Valid, ValidCxof
<1>2. m \in Strands /\ strings = <<m>>
  BY <1>1, OneString
<1>3. c \in Strands
  BY <1>1, RowIs
<1>4. p \in Strands
  <2>1. <<>> \in Strands
    BY <1>3, NothingAdded
  <2>. HIDE DEF c
  <2>. QED
    BY <1>1, <1>3, <2>1, CustomizationRead
<1>5. Frame(row, strings) = <<p, <<>> >>
  BY DEF Frame, Blake2s
<1>. HIDE DEF p, m
<1>6. body = p \o m /\ body \in Strands /\ n \in Nat
  <2>1. body = (p \o m) \o <<>>
    <3>. DEFINE e == <<>>
    <3>1. e \in Strands /\ Frame(row, strings) = <<p, e>>
      BY <1>2, <1>5, NothingAdded
    <3>. HIDE DEF e
    <3>2. Concatenated(<<p, e>>, strings) = (p \o strings[1]) \o e
      BY <1>1, <1>4, <3>1, BodyIs
    <3>. QED
      BY <3>1, <3>2 DEF e, m
  <2>2. p \o m \in Strands
    BY <1>2, <1>4, Strung
  <2>3. body = p \o m
    BY <2>1, <2>2, NothingAdded
  <2>. HIDE DEF body
  <2>. QED
    BY <2>2, <2>3 DEF Strands
<1>7. Reading(call) = ReadAscon(row.fn, call.stream) /\ call.stream = body \o pad
  BY <1>1, AsconReads
<1>. HIDE DEF body, n
<1>8. pad \in Strands /\ Unpadded(t, 0).payload = m
  BY <1>2, <1>6, AsconPad
<1>. HIDE DEF pad
<1>9. call.stream = p \o t /\ t \in Strands
  <2>1. (p \o m) \o pad = p \o (m \o pad)
    BY <1>2, <1>4, <1>8, Assoc
  <2>2. m \o pad \in Strands
    BY <1>2, <1>8, Strung
  <2>. QED
    BY <1>6, <1>7, <2>1, <2>2
<1>. HIDE DEF t
<1>10. ReadAscon("AsconCxof128", call.stream)
         = [row     |-> [Blank EXCEPT !.fn = "AsconCxof128", !.cust = c],
            strings |-> <<Unpadded(t, 0).payload>>]
  <2>. HIDE DEF c
  <2>. QED
    BY <1>1, <1>3, <1>9, CustomizationRead DEF p
<1>11. Canonical(row) = [Blank EXCEPT !.fn = "AsconCxof128", !.cust = c]
  <2>1. Canonical(row) = RowWith("AsconCxof128", 0, FALSE, 0, <<>>, c, <<>>, <<>>, <<>>)
    <3>1. row.fn \notin Blake2s /\ row.fn \notin {"KMAC", "TupleHash"} /\ row.fn # "cSHAKE"
      BY DEF Blake2s
    <3>2. /\ row.name = <<>> /\ row.key = <<>> /\ row.salt = <<>>
          /\ row.person = <<>> /\ row.xof = FALSE /\ row.rate = 0
      BY <1>1, <3>1, TrimmedIs
    <3>. QED
      BY <1>1, <3>1, <3>2, CanonicalIs
  <2>. HIDE DEF c
  <2>2. [Blank EXCEPT !.fn = "AsconCxof128", !.cust = c]
          = RowWith("AsconCxof128", 0, FALSE, 0, <<>>, c, <<>>, <<>>, <<>>)
    BY RowCxof
  <2>. QED
    BY <2>1, <2>2
<1>. QED
  BY <1>2, <1>7, <1>8, <1>10, <1>11

----------------------------------------------------------------------------
(* BLAKE2.                                                                 *)

(* The bytes of a field.                                                   *)
LEMMA FilledIs ==
  ASSUME NEW s \in Strands, NEW n \in Nat, Len(s) <= n
  PROVE  Filled(s, n) = [i \in 1 .. n |-> IF i <= Len(s) THEN s[i] ELSE 0]
<1>. DEFINE k == Len(s)
            z == Zeros(n - k)
            u == s \o z
<1>1. k \in Nat /\ n - k \in Nat
  BY DEF Strands
<1>2. z \in Seq(Bytes) /\ Len(z) = n - k /\ s \in Seq(Bytes)
      /\ \A i \in 1 .. n - k : z[i] = 0
  <2>1. z \in Strands /\ Len(z) = n - k
    BY <1>1, ZerosAre
  <2>2. \A i \in 1 .. n - k : z[i] = 0
    BY DEF Zeros
  <2>. QED
    BY <2>1, <2>2 DEF Strands
<1>3. Filled(s, n) = u
  BY DEF Filled
<1>. HIDE DEF z
<1>4. /\ u \in Seq(Bytes) /\ Len(u) = k + Len(z)
      /\ \A i \in 1 .. k : u[i] = s[i]
      /\ \A i \in 1 .. Len(z) : u[k + i] = z[i]
  BY <1>2, ConcatElements
<1>. HIDE DEF u, k
<1>5. Len(u) = n
  BY <1>1, <1>2, <1>4
<1>6. u = [i \in 1 .. n |-> u[i]]
  BY <1>4, <1>5
<1>7. ASSUME NEW i \in 1 .. n
      PROVE  u[i] = IF i <= k THEN s[i] ELSE 0
  <2>1. CASE i <= k
    <3>1. i \in 1 .. k
      BY <1>1, <2>1
    <3>. QED
      BY <1>4, <2>1, <3>1
  <2>2. CASE ~ i <= k
    <3>1. i - k \in 1 .. n - k /\ k + (i - k) = i
      BY <1>1, <2>2
    <3>2. i - k \in 1 .. Len(z) /\ z[i - k] = 0
      BY <1>2, <3>1
    <3>3. u[k + (i - k)] = z[i - k]
      BY <1>4, <3>2
    <3>. QED
      BY <2>2, <3>1, <3>2, <3>3
  <2>. QED
    BY <2>1, <2>2
<1>. QED
  BY <1>3, <1>6, <1>7 DEF k

(* The parameter block: its fields are where they are read.                *)
LEMMA ParamRead ==
  ASSUME NEW row \in RowsBuilt, row.fn \in Blake2s, Valid(row)
  PROVE  LET b    == ParamBlock(row)
             half == Len(b) \div 2
         IN  /\ b[1] = row.out /\ b[2] = Len(row.key)
             /\ SubSeq(b, half + 1, half + half \div 2) = Filled(row.salt, SaltSize(row))
             /\ SubSeq(b, half + half \div 2 + 1, 2 * half) = Filled(row.person, SaltSize(row))
<1>. DEFINE b == ParamBlock(row)
            W == WordBytes(row)
            z == SaltSize(row)
            h == 4 * W
            s == row.salt
            t == row.person
            field(v, start, p) == IF p \in start + 1 .. start + Len(v) THEN v[p - start] ELSE 0
<1>1. W \in Nat \ {0}
  <2>1. row.rate \in Nat /\ row.rate >= 16 /\ row.rate % 16 = 0 /\ 16 \in Nat \ {0}
    BY RowIs DEF Sized
  <2>2. row.rate = (row.rate \div 16) * 16 + (row.rate % 16) /\ row.rate \div 16 \in Int
    <3>. DEFINE w == row.rate
    <3>1. w \in Int
      BY <2>1
    <3>. HIDE DEF w
    <3>2. w = (w \div 16) * 16 + (w % 16) /\ w \div 16 \in Int
      BY <3>1
    <3>. QED
      BY <3>2 DEF w
  <2>3. row.rate \div 16 >= 1
    BY <2>1, <2>2
  <2>. QED
    BY <2>2, <2>3 DEF WordBytes
<1>2. z = 2 * W
  BY DEF SaltSize
<1>3. s \in Strands /\ t \in Strands /\ Len(s) <= z /\ Len(t) <= z
      /\ Len(s) \in Nat /\ Len(t) \in Nat
  BY RowIs DEF Valid, ValidBlake2, Strands
<1>4. b = [p \in 1 .. 2 * h |->
             CASE p = 1       -> row.out
               [] p = 2       -> Len(row.key)
               [] p \in {3, 4} -> 1
               [] OTHER       -> field(s, h, p) + field(t, h + z, p)]
  BY DEF ParamBlock
<1>. HIDE DEF b, W, z, s, t
<1>5. h \in Nat /\ h >= 4 /\ z \in Nat /\ h = 2 * z
  BY <1>1, <1>2
<1>. HIDE DEF h, field
<1>6. Len(b) = 2 * h
  BY <1>4, <1>5
<1>7. Len(b) \div 2 = h /\ h \div 2 = z
  <2>1. \A x \in Nat : (2 * x) \div 2 = x
    OBVIOUS
  <2>. QED
    BY <1>5, <1>6, <2>1
<1>8. b[1] = row.out /\ b[2] = Len(row.key)
  <2>1. 1 \in 1 .. 2 * h /\ 2 \in 1 .. 2 * h /\ 2 # 1 /\ 2 \notin {3, 4} /\ 1 \notin {3, 4}
    BY <1>5
  <2>. QED
    BY <1>4, <2>1
<1>9. \A p \in h + 1 .. 2 * h : b[p] = field(s, h, p) + field(t, h + z, p)
  <2>1. \A p \in h + 1 .. 2 * h : p \in 1 .. 2 * h /\ p # 1 /\ p # 2 /\ p \notin {3, 4}
    BY <1>5
  <2>. QED
    BY <1>4, <2>1
<1>10. \A v \in Strands, i \in Int : i \in 1 .. Len(v) => v[i] \in Bytes
  BY DEF Strands
<1>11. ASSUME NEW i \in 1 .. z
       PROVE  /\ b[h + i] = IF i <= Len(s) THEN s[i] ELSE 0
              /\ b[h + z + i] = IF i <= Len(t) THEN t[i] ELSE 0
  <2>1. h + i \in h + 1 .. 2 * h /\ h + z + i \in h + 1 .. 2 * h
    BY <1>5
  <2>2. field(s, h, h + i) = (IF i <= Len(s) THEN s[i] ELSE 0)
    <3>1. h + i \in h + 1 .. h + Len(s) <=> i <= Len(s)
      BY <1>3, <1>5
    <3>2. (h + i) - h = i
      BY <1>5
    <3>. QED
      BY <3>1, <3>2 DEF field
  <2>3. field(t, h + z, h + i) = 0
    <3>1. h + i \notin h + z + 1 .. h + z + Len(t)
      BY <1>3, <1>5
    <3>. QED
      BY <3>1 DEF field
  <2>4. field(s, h, h + z + i) = 0
    <3>1. h + z + i \notin h + 1 .. h + Len(s)
      BY <1>3, <1>5
    <3>. QED
      BY <3>1 DEF field
  <2>5. field(t, h + z, h + z + i) = (IF i <= Len(t) THEN t[i] ELSE 0)
    <3>1. h + z + i \in h + z + 1 .. h + z + Len(t) <=> i <= Len(t)
      BY <1>3, <1>5
    <3>2. (h + z + i) - (h + z) = i
      BY <1>5
    <3>. QED
      BY <3>1, <3>2 DEF field
  <2>6. (i <= Len(s) => s[i] \in Int) /\ (i <= Len(t) => t[i] \in Int)
    <3>1. (i <= Len(s) => i \in 1 .. Len(s)) /\ (i <= Len(t) => i \in 1 .. Len(t)) /\ i \in Int
      BY <1>3, <1>5
    <3>2. Bytes \subseteq Int
      BY BaseIs DEF Bytes
    <3>. QED
      BY <1>3, <1>10, <3>1, <3>2
  <2>7. b[h + i] = field(s, h, h + i) + field(t, h + z, h + i)
        /\ b[h + z + i] = field(s, h, h + z + i) + field(t, h + z, h + z + i)
    BY <1>9, <2>1
  <2>. QED
    BY <2>2, <2>3, <2>4, <2>5, <2>6, <2>7
<1>12. ASSUME NEW o \in Nat, NEW v, v \in Strands, Len(v) <= z,
              \A i \in 1 .. z : b[o + i] = IF i <= Len(v) THEN v[i] ELSE 0
       PROVE  SubSeq(b, o + 1, o + z) = Filled(v, z)
  <2>. DEFINE u == SubSeq(b, o + 1, o + z)
  <2>1. u = [i \in 1 .. z |-> b[o + i]]
    <3>1. \A j \in o + 1 .. o + z : b[j] \in {b[i] : i \in o + 1 .. o + z}
      OBVIOUS
    <3>. DEFINE S == {b[i] : i \in o + 1 .. o + z}
    <3>2. o + 1 \in Int /\ o + z \in Int
      BY <1>5
    <3>3. \A j \in o + 1 .. o + z : b[j] \in S
      BY <3>1
    <3>. HIDE DEF S
    <3>4. /\ u \in Seq(S)
          /\ Len(u) = IF o + 1 <= o + z THEN (o + z) - (o + 1) + 1 ELSE 0
          /\ \A i \in 1 .. (o + z) - (o + 1) + 1 : u[i] = b[(o + 1) + i - 1]
      BY <3>2, <3>3, SubSeqProperties
    <3>5. (o + z) - (o + 1) + 1 = z /\ \A i \in 1 .. z : (o + 1) + i - 1 = o + i
      BY <1>5
    <3>. HIDE DEF u
    <3>6. Len(u) = z
      BY <1>5, <3>4, <3>5
    <3>7. \A i \in 1 .. z : u[i] = b[o + i]
      BY <3>4, <3>5
    <3>8. u = [i \in 1 .. z |-> u[i]]
      BY <3>4, <3>6
    <3>. QED
      BY <3>7, <3>8
  <2>2. Filled(v, z) = [i \in 1 .. z |-> IF i <= Len(v) THEN v[i] ELSE 0]
    BY <1>5, <1>12, FilledIs
  <2>. QED
    BY <1>12, <2>1, <2>2
<1>13. SubSeq(b, h + 1, h + z) = Filled(s, z)
  BY <1>3, <1>5, <1>11, <1>12
<1>14. SubSeq(b, h + z + 1, 2 * h) = Filled(t, z)
  <2>1. h + z \in Nat /\ (h + z) + z = 2 * h
    BY <1>5
  <2>2. SubSeq(b, (h + z) + 1, (h + z) + z) = Filled(t, z)
    BY <1>3, <1>11, <1>12, <2>1
  <2>. QED
    BY <2>1, <2>2
<1>. QED
  BY <1>7, <1>8, <1>13, <1>14 DEF b, s, t, z

(* A key's block, in front of the message if there is a key.               *)
LEMMA KeyBlockRead ==
  ASSUME NEW row \in RowsBuilt, row.fn \in Blake2s, Valid(row), NEW m \in Strands,
         NEW t \in Strands
  PROVE  LET head == IF Len(row.key) = 0 THEN 0 ELSE row.rate
         IN  /\ KeyBlock(row) \in Strands
             /\ Take((KeyBlock(row) \o m) \o t, Len(row.key)) = row.key
             /\ Drop(KeyBlock(row) \o m, head) = m
<1>. DEFINE k == row.key
            w == row.rate
            z == Zeros(w - Len(k))
            kb == KeyBlock(row)
            head == IF Len(k) = 0 THEN 0 ELSE w
<1>1. k \in Strands /\ Len(k) \in Nat /\ w \in Nat /\ Len(k) <= w
  <2>1. w \in Nat /\ k \in Strands /\ Len(k) \in Nat /\ Len(k) <= MaxFieldSize(row)
    BY RowIs DEF Valid, ValidBlake2, Strands
  <2>2. MaxFieldSize(row) = 8 * (w \div 16)
    BY DEF MaxFieldSize, WordBytes
  <2>. HIDE DEF w, k
  <2>3. w = (w \div 16) * 16 + (w % 16) /\ w % 16 \in Nat /\ w \div 16 \in Int
    <3>1. w \in Int
      BY <2>1
    <3>. QED
      BY <3>1
  <2>4. w >= 0 /\ w \div 16 >= 0
    BY <2>1
  <2>. QED
    BY <2>1, <2>2, <2>3, <2>4
<1>2. CASE k = <<>>
  <2>1. kb = <<>> /\ Len(k) = 0 /\ head = 0
    BY <1>2 DEF KeyBlock
  <2>2. kb \o m = m /\ kb \in Strands
    BY <2>1, NothingAdded
  <2>3. Drop(m, 0) = m
    <3>. DEFINE e == <<>>
    <3>1. e \in Strands /\ Len(e) = 0 /\ e \o m = m
      BY NothingAdded
    <3>. HIDE DEF e
    <3>2. Drop(e \o m, Len(e)) = m
      BY <3>1, TakeDrop
    <3>. QED
      BY <3>1, <3>2
  <2>4. Take(m \o t, 0) = <<>>
    <3>. DEFINE e == <<>>
                u == m \o t
    <3>1. u \in Strands
      BY Strung
    <3>. HIDE DEF u
    <3>2. e \in Strands /\ Len(e) = 0 /\ e \o u = u
      BY <3>1, NothingAdded
    <3>. HIDE DEF e
    <3>3. Take(e \o u, Len(e)) = e
      BY <3>1, <3>2, TakeDrop
    <3>. QED
      BY <3>2, <3>3 DEF e, u
  <2>. HIDE DEF kb, head, k
  <2>. QED
    BY <1>2, <2>1, <2>2, <2>3, <2>4 DEF kb, head, k
<1>3. CASE k # <<>>
  <2>1. kb = k \o z
    BY <1>3 DEF KeyBlock
  <2>2. Len(k) # 0
    BY <1>1, <1>3, EmptySeq DEF Strands
  <2>3. head = w
    BY <2>2
  <2>4. z \in Strands /\ Len(z) = w - Len(k)
    <3>1. w - Len(k) \in Nat
      BY <1>1
    <3>. QED
      BY <3>1, ZerosAre
  <2>. HIDE DEF k, z, w, kb, head
  <2>5. kb \in Strands /\ Len(kb) = w
    <3>1. k \o z \in Strands /\ Len(k \o z) = Len(k) + Len(z)
      BY <1>1, <2>4, Strung
    <3>. QED
      BY <1>1, <2>1, <2>4, <3>1
  <2>6. Drop(kb \o m, Len(kb)) = m
    BY <2>5, TakeDrop
  <2>7. ((k \o z) \o m) \o t = k \o (z \o (m \o t))
    <3>1. Joined(k, z, m, t)
      BY <1>1, <2>4, Moved
    <3>. QED
      BY <3>1 DEF Joined
  <2>8. Take(k \o (z \o (m \o t)), Len(k)) = k
    <3>. DEFINE x == m \o t
    <3>1. x \in Strands
      BY Strung
    <3>. HIDE DEF x
    <3>. DEFINE y == z \o x
    <3>2. y \in Strands
      BY <2>4, <3>1, Strung
    <3>. HIDE DEF y
    <3>3. Take(k \o y, Len(k)) = k
      BY <1>1, <3>2, TakeDrop
    <3>. QED
      BY <3>3 DEF x, y
  <2>9. Take((kb \o m) \o t, Len(k)) = k
    BY <2>1, <2>7, <2>8
  <2>10. Drop(kb \o m, head) = m
    BY <2>3, <2>5, <2>6
  <2>. QED
    BY <2>5, <2>9, <2>10 DEF k, kb, head, w
<1>. QED
  BY <1>2, <1>3

(* BLAKE2, with a key or without.                                          *)
LEMMA Blake2Read ==
  ASSUME NEW row, NEW strings, Asked("row", row, strings), row.fn \in Blake2s,
         NEW call, Absorbs(call, row, Concatenated(Frame(row, strings), strings))
  PROVE  Reading(call) = [row |-> Canonical(row), strings |-> strings]
<1>. DEFINE body == Concatenated(Frame(row, strings), strings)
            m    == strings[1]
            w    == row.rate
            k    == row.key
            kb   == KeyBlock(row)
            b    == ParamBlock(row)
            half == Len(b) \div 2
            n    == Len(body)
            pad  == PadTail(row, n)
            head == IF Len(k) = 0 THEN 0 ELSE w
            fs   == Filled(row.salt, SaltSize(row))
            fp   == Filled(row.person, SaltSize(row))
<1>1. row \in RowsBuilt /\ row.fn # "TupleHash" /\ Valid(row)
  BY DEF Asked, Blake2s
<1>2. m \in Strands /\ strings = <<m>>
  BY <1>1, OneString
<1>3. Frame(row, strings) = <<kb, <<>> >>
  BY DEF Frame, Blake2s
<1>4. /\ b[1] = row.out /\ b[2] = Len(k)
      /\ SubSeq(b, half + 1, half + half \div 2) = fs
      /\ SubSeq(b, half + half \div 2 + 1, 2 * half) = fp
  BY <1>1, ParamRead
<1>5. kb \in Strands
  BY <1>1, <1>2, KeyBlockRead
<1>. HIDE DEF kb, m
<1>6. body = kb \o m /\ body \in Strands /\ n \in Nat
  <2>1. body = (kb \o m) \o <<>>
    <3>. DEFINE e == <<>>
    <3>1. e \in Strands /\ Frame(row, strings) = <<kb, e>>
      BY <1>2, <1>3, NothingAdded
    <3>. HIDE DEF e
    <3>2. Concatenated(<<kb, e>>, strings) = (kb \o strings[1]) \o e
      BY <1>1, <1>5, <3>1, BodyIs
    <3>. QED
      BY <3>1, <3>2 DEF e, m
  <2>2. kb \o m \in Strands
    BY <1>2, <1>5, Strung
  <2>3. body = kb \o m
    BY <2>1, <2>2, NothingAdded
  <2>. HIDE DEF body
  <2>. QED
    BY <2>2, <2>3 DEF Strands
<1>7. /\ call.init = <<"blake2", w, b>> /\ call.attrs = <<n>> /\ call.stream = body \o pad
  BY DEF Absorbs, InitialState, Attributes, Blake2State, Keccaks, Ascons, Blake2s, Blake3s
<1>. HIDE DEF body, n
<1>8. pad \in Strands
  BY <1>1, <1>6, PadIs
<1>. HIDE DEF pad
<1>9. Take(call.stream, n) = body
  <2>1. Take(body \o pad, Len(body)) = body
    BY <1>6, <1>8, TakeDrop
  <2>. QED
    BY <1>7, <2>1 DEF n
<1>10. Take(call.stream, Len(k)) = k /\ Drop(body, head) = m
  BY <1>1, <1>2, <1>6, <1>7, <1>8, KeyBlockRead DEF kb
<1>11. Reading(call) = ReadBlake2(w, b, call.stream, n)
  <2>1. call.init[1] = "blake2" /\ call.init[2] = w /\ call.init[3] = b /\ call.attrs[1] = n
    BY <1>7
  <2>. QED
    BY <2>1 DEF Reading
<1>. HIDE DEF b, half, fs, fp, k, w
<1>12. ReadBlake2(w, b, call.stream, n)
         = [row |-> Blake2Row(w, row.out, k, fs, fp), strings |-> <<m>>]
  <2>1. ReadBlake2(w, b, call.stream, n)
          = [row |-> [Blank EXCEPT !.fn = "Blake2", !.rate = w, !.out = b[1],
                        !.key = Take(call.stream, b[2]),
                        !.salt = SubSeq(b, half + 1, half + half \div 2),
                        !.person = SubSeq(b, half + half \div 2 + 1, 2 * half)],
             strings |-> <<Drop(Take(call.stream, n), IF b[2] = 0 THEN 0 ELSE w)>>]
    BY DEF ReadBlake2, half
  <2>2. Drop(Take(call.stream, n), IF b[2] = 0 THEN 0 ELSE w) = m
    BY <1>4, <1>9, <1>10
  <2>3. Take(call.stream, b[2]) = k
    BY <1>4, <1>10
  <2>. QED
    BY <1>4, <2>1, <2>2, <2>3 DEF Blake2Row
<1>13. Canonical(row) = Blake2Row(w, row.out, k, fs, fp)
  <2>1. Canonical(row) = RowWith("Blake2", w, FALSE, row.out, <<>>, <<>>, k, fs, fp)
    <3>1. row.fn \notin {"KMAC", "TupleHash"} /\ row.fn # "cSHAKE"
          /\ row.fn \notin {"cSHAKE", "KMAC", "TupleHash", "AsconCxof128", "Blake3DeriveKey"}
      BY DEF Blake2s
    <3>2. row.name = <<>> /\ row.cust = <<>> /\ row.xof = FALSE
      BY <1>1, <3>1, TrimmedIs
    <3>3. Canonical(row) = RowWith("Blake2", row.rate, row.xof, row.out, row.name, row.cust,
                                   row.key, Filled(row.salt, SaltSize(row)),
                                   Filled(row.person, SaltSize(row)))
      BY <1>1, CanonicalIs
    <3>. QED
      BY <3>2, <3>3 DEF w, k, fs, fp
  <2>. DEFINE o == row.out
  <2>. HIDE DEF o
  <2>2. Blake2Row(w, o, k, fs, fp) = RowWith("Blake2", w, FALSE, o, <<>>, <<>>, k, fs, fp)
    BY RowBlake2
  <2>. QED
    BY <2>1, <2>2 DEF o
<1>. QED
  BY <1>2, <1>11, <1>12, <1>13

----------------------------------------------------------------------------
(* BLAKE3.                                                                 *)

(* The modes, told apart by their flags.                                   *)
LEMMA ModeRead ==
  ASSUME NEW row
  PROVE  /\ row.fn = "Blake3Keyed" =>
              ModeOf(row).flags = "KEYED_HASH" /\ ModeOf(row).words[2] = row.key
         /\ row.fn = "Blake3DeriveKey" =>
              /\ ModeOf(row).flags = "DERIVE_KEY_MATERIAL"
              /\ ModeOf(row).words[3] = Len(row.cust)
              /\ ModeOf(row).words[4] = row.cust \o Zeros(IF row.cust = <<>> THEN row.rate
                                                          ELSE Fill(Len(row.cust), row.rate))
         /\ row.fn \notin {"Blake3Keyed", "Blake3DeriveKey"} => ModeOf(row).flags = "none"
<1>1. CASE row.fn = "Blake3Keyed"
  <2>1. ModeOf(row) = KeyMode(row.key)
    BY <1>1 DEF ModeOf
  <2>. QED
    BY <1>1, <2>1 DEF KeyMode
<1>2. CASE row.fn = "Blake3DeriveKey"
  <2>1. ModeOf(row) = DeriveKeyMode(row.cust, row.rate)
    BY <1>2 DEF ModeOf
  <2>. DEFINE c == Len(row.cust)
              z == row.cust \o Zeros(IF row.cust = <<>> THEN row.rate
                                     ELSE Fill(Len(row.cust), row.rate))
              d == <<"root words", ContextMode, c, z>>
  <2>2. ModeOf(row) = [words |-> d, flags |-> "DERIVE_KEY_MATERIAL"]
    BY <2>1 DEF DeriveKeyMode
  <2>. HIDE DEF c, z
  <2>3. d[3] = c /\ d[4] = z
    OBVIOUS
  <2>. HIDE DEF d
  <2>4. ModeOf(row).words = d /\ ModeOf(row).flags = "DERIVE_KEY_MATERIAL"
    BY <2>2
  <2>. QED
    BY <1>2, <2>3, <2>4 DEF c, z
<1>3. CASE row.fn \notin {"Blake3Keyed", "Blake3DeriveKey"}
  <2>1. ModeOf(row) = HashMode
    BY <1>3 DEF ModeOf
  <2>. QED
    BY <1>3, <2>1 DEF HashMode
<1>. QED
  BY <1>1, <1>2, <1>3

(* A derive-key context, read back from the block it was padded to.        *)
LEMMA ContextRead ==
  ASSUME NEW row \in RowsBuilt, row.fn = "Blake3DeriveKey"
  PROVE  Take(ModeOf(row).words[4], ModeOf(row).words[3]) = row.cust
<1>. DEFINE c == row.cust
            n == IF c = <<>> THEN row.rate ELSE Fill(Len(c), row.rate)
            z == Zeros(n)
<1>1. c \in Strands /\ Len(c) \in Nat /\ row.rate \in Nat \ {0}
  BY RowIs DEF Sized, Blake3s, Strands
<1>2. n \in Nat
  BY <1>1, FillIs
<1>3. ModeOf(row).words[3] = Len(c) /\ ModeOf(row).words[4] = c \o z
  BY ModeRead
<1>. HIDE DEF c, n
<1>4. z \in Strands
  BY <1>2, ZerosAre
<1>. HIDE DEF z
<1>5. Take(c \o z, Len(c)) = c
  BY <1>1, <1>4, TakeDrop
<1>. QED
  BY <1>3, <1>5 DEF c

(* A BLAKE3 row, hash or compression.                                      *)
LEMMA Blake3Read ==
  ASSUME NEW row, NEW strings, Asked("row", row, strings), row.fn \in Blake3s,
         NEW call, Absorbs(call, row, Concatenated(Frame(row, strings), strings))
  PROVE  Reading(call) = [row |-> Canonical(row), strings |-> strings]
<1>. DEFINE body  == Concatenated(Frame(row, strings), strings)
            m     == strings[1]
            n     == Len(body)
            pad   == PadTail(row, n)
            w     == row.rate
            words == ModeOf(row).words
            flags == ModeOf(row).flags
            fin   == Finish(row)
            base  == [Blank EXCEPT !.rate = w]
            attrs == <<n, flags, fin>>
            hashed == CASE fin = "root" -> "Blake3" [] fin = "parent" -> "Blake3Parent"
                        [] OTHER -> "Blake3NonRoot"
<1>1. /\ row \in RowsBuilt /\ row.fn # "TupleHash"
      /\ row.fn \notin {"cSHAKE", "KMAC", "TupleHash", "AsconCxof128"} \cup Blake2s
  BY DEF Asked, Blake2s, Blake3s
<1>2. m \in Strands /\ strings = <<m>>
  BY <1>1, OneString
<1>3. body = m
  BY <1>1, BareBody
<1>4. n \in Nat
  BY <1>2, <1>3, Strung
<1>5. /\ call.init = <<"blake3", w, words>> /\ call.attrs = attrs /\ call.stream = body \o pad
  <2>1. row.fn \notin Keccaks /\ row.fn \notin Ascons /\ row.fn \notin Blake2s
    BY DEF Keccaks, Ascons, Blake2s, Blake3s
  <2>2. InitialState(row) = <<"blake3", w, words>> /\ Attributes(row, n) = attrs
    BY <2>1 DEF InitialState, Attributes
  <2>. QED
    BY <2>2 DEF Absorbs
<1>6. pad \in Strands
  BY <1>1, <1>4, PadIs
<1>. HIDE DEF pad, body, m, n
<1>7. Take(call.stream, n) = m
  <2>1. Take(m \o pad, Len(m)) = m
    BY <1>2, <1>6, TakeDrop
  <2>. QED
    BY <1>3, <1>5, <2>1 DEF n
<1>. HIDE DEF words, flags, fin, w
<1>8. Reading(call) = ReadBlake3(w, words, call.stream, attrs)
  <2>1. call.init[1] = "blake3" /\ call.init[2] = w /\ call.init[3] = words
    BY <1>5
  <2>. HIDE DEF attrs
  <2>. QED
    BY <1>5, <2>1 DEF Reading
<1>9. ReadBlake3(w, words, call.stream, attrs)
        = CASE flags = "KEYED_HASH" ->
                 [row |-> [base EXCEPT !.fn = "Blake3Keyed", !.key = words[2]], strings |-> <<m>>]
            [] flags = "DERIVE_KEY_MATERIAL" ->
                 [row |-> [base EXCEPT !.fn = "Blake3DeriveKey", !.cust = Take(words[4], words[3])],
                  strings |-> <<m>>]
            [] OTHER -> [row |-> [base EXCEPT !.fn = hashed], strings |-> <<m>>]
  <2>1. attrs[1] = n /\ attrs[2] = flags /\ attrs[3] = fin
    OBVIOUS
  <2>. HIDE DEF attrs
  <2>. QED
    BY <1>7, <2>1 DEF ReadBlake3
<1>10. Canonical(row) = RowWith(row.fn, w, FALSE, 0, <<>>, row.cust, row.key, <<>>, <<>>)
  <2>1. row.fn \notin Blake2s /\ row.fn \notin {"KMAC", "TupleHash"} /\ row.fn # "cSHAKE"
    BY DEF Blake2s, Blake3s
  <2>2. row.name = <<>> /\ row.salt = <<>> /\ row.person = <<>> /\ row.xof = FALSE
    BY <1>1, <2>1, TrimmedIs
  <2>. QED
    BY <1>1, <2>1, <2>2, CanonicalIs DEF w
<1>. HIDE DEF base, hashed
<1>11. CASE row.fn = "Blake3Keyed"
  <2>1. flags = "KEYED_HASH" /\ words[2] = row.key
    BY <1>11, ModeRead DEF flags, words
  <2>2. row.cust = <<>>
    BY <1>1, <1>11, TrimmedIs
  <2>3. Reading(call) = [row |-> [base EXCEPT !.fn = "Blake3Keyed", !.key = row.key],
                         strings |-> <<m>>]
    BY <1>8, <1>9, <2>1
  <2>4. [base EXCEPT !.fn = "Blake3Keyed", !.key = row.key]
          = RowWith("Blake3Keyed", w, FALSE, 0, <<>>, <<>>, row.key, <<>>, <<>>)
    BY RowKeyed DEF base
  <2>. QED
    BY <1>2, <1>10, <1>11, <2>2, <2>3, <2>4
<1>12. CASE row.fn = "Blake3DeriveKey"
  <2>1. flags = "DERIVE_KEY_MATERIAL" /\ Take(words[4], words[3]) = row.cust
    BY <1>1, <1>12, ModeRead, ContextRead DEF flags, words
  <2>2. row.key = <<>>
    <3>1. row.fn \notin {"KMAC", "Blake3Keyed"} \cup Blake2s
      BY <1>12 DEF Blake2s
    <3>. QED
      BY <1>1, <3>1, TrimmedIs
  <2>3. Reading(call) = [row |-> [base EXCEPT !.fn = "Blake3DeriveKey", !.cust = row.cust],
                         strings |-> <<m>>]
    BY <1>8, <1>9, <2>1
  <2>4. [base EXCEPT !.fn = "Blake3DeriveKey", !.cust = row.cust]
          = RowWith("Blake3DeriveKey", w, FALSE, 0, <<>>, row.cust, <<>>, <<>>, <<>>)
    BY RowDerive DEF base
  <2>. QED
    BY <1>2, <1>10, <1>12, <2>2, <2>3, <2>4
<1>13. CASE row.fn \in {"Blake3", "Blake3NonRoot", "Blake3Parent"}
  <2>1. flags = "none"
    BY <1>13, ModeRead DEF flags
  <2>2. hashed = row.fn
    BY <1>13 DEF hashed, fin, Finish
  <2>3. row.cust = <<>> /\ row.key = <<>>
    <3>1. row.fn \notin {"KMAC", "Blake3Keyed"} \cup Blake2s
      BY <1>13 DEF Blake2s
    <3>2. row.fn \notin {"cSHAKE", "KMAC", "TupleHash", "AsconCxof128", "Blake3DeriveKey"}
      BY <1>13
    <3>. QED
      BY <1>1, <3>1, <3>2, TrimmedIs
  <2>4. Reading(call) = [row |-> [base EXCEPT !.fn = row.fn], strings |-> <<m>>]
    BY <1>8, <1>9, <2>1, <2>2
  <2>5. [base EXCEPT !.fn = row.fn]
          = RowWith(row.fn, w, FALSE, 0, <<>>, <<>>, <<>>, <<>>, <<>>)
    BY RowBlake3 DEF base
  <2>. QED
    BY <1>2, <1>10, <2>3, <2>4, <2>5
<1>. QED
  BY <1>11, <1>12, <1>13 DEF Blake3s

(* What a row absorbs says which row it is and what it was given.          *)
LEMMA RowRead ==
  ASSUME NEW row, NEW strings, Asked("row", row, strings),
         NEW call, Absorbs(call, row, Concatenated(Frame(row, strings), strings))
  PROVE  Reading(call) = [row |-> Canonical(row), strings |-> strings]
<1>1. CASE \/ row.fn \in {"SHA3", "Keccak256", "SHAKE"}
           \/ row.fn = "cSHAKE" /\ row.name = <<>> /\ row.cust = <<>>
  BY <1>1, PlainRead
<1>2. CASE row.fn = "cSHAKE" /\ ~ (row.name = <<>> /\ row.cust = <<>>)
  BY <1>2, CShakeRead
<1>3. CASE row.fn = "KMAC"
  BY <1>3, KmacRead
<1>4. CASE row.fn = "TupleHash"
  BY <1>4, TupleRead
<1>5. CASE row.fn \in {"AsconHash256", "AsconXof128"}
  BY <1>5, AsconRead
<1>6. CASE row.fn = "AsconCxof128"
  BY <1>6, CxofRead
<1>7. CASE row.fn \in Blake2s
  BY <1>7, Blake2Read
<1>8. CASE row.fn \in Blake3s
  BY <1>8, Blake3Read
<1>9. row.fn \in Keccaks \cup Ascons \cup Blake2s \cup Blake3s
  BY RowIs DEF Asked
<1>. QED
  BY <1>1, <1>2, <1>3, <1>4, <1>5, <1>6, <1>7, <1>8, <1>9 DEF Keccaks, Ascons

----------------------------------------------------------------------------
(* The caches.                                                             *)

(* A trace holds what its key says of every call with that key.            *)
CacheSound ==
  \A k \in DOMAIN cache :
    \E door \in {"row", "zone", "operand"}, row \in RowsBuilt, strings \in Strings :
      /\ Asked(door, row, strings)
      /\ k = KeyOf(door, row, strings)
      /\ cache[k] = Only(WholeOf(door, row, strings), FixedOf(door, row, strings))

(* Only what was asked for is answered.                                    *)
AnswersAsked == result.kind = "digest" => Asked("row", result.row, result.strings)

(* The rows' invariant.                                                    *)
RowsInv == HRTypeOK /\ DoorsAgree /\ CacheSound /\ AnswersAsked

(* What a trace may fix.                                                   *)
LEMMA FixedIs ==
  ASSUME NEW door, NEW row, NEW strings, Asked(door, row, strings)
  PROVE  FixedOf(door, row, strings) \subseteq {"init", "pieces", "attrs"}
<1>1. CASE door = "zone"
  <2>1. row \in RowsBuilt
    BY DEF Asked
  <2>2. FixedOf(door, row, strings) = Zone(row, strings).fixed
    BY <1>1 DEF FixedOf, OperandKmac
  <2>3. row.fn \in Keccaks \cup Ascons \cup Blake2s \cup Blake3s
    BY <2>1, RowIs
  <2>4. Zone(row, strings).fixed \subseteq {"init", "pieces", "attrs"}
    BY <2>1, <2>3, ZoneIs DEF KeccakZone, AsconZone, Blake2Zone, Blake3Zone
  <2>. QED
    BY <2>2, <2>4
<1>2. CASE door # "zone"
  BY <1>2 DEF FixedOf, OperandKmac
<1>. QED
  BY <1>1, <1>2

(* The call served, whoever traced it, is the call made.                   *)
LEMMA ServedIs ==
  ASSUME RowsInv, NEW door, NEW row, NEW strings, Asked(door, row, strings),
         Serve(KeyOf(door, row, strings), WholeOf(door, row, strings),
               FixedOf(door, row, strings), row, strings)
  PROVE  /\ CacheSound' /\ DoorsAgree'
         /\ \A k \in DOMAIN cache' : DOMAIN cache'[k] \subseteq {"init", "pieces", "attrs"}
         /\ result'.kind = "digest"
         /\ result'.stream # <<>>
         /\ Len(result'.stream) % BlockOf(row) = 0
         /\ result'.stream \in Strands
         /\ result'.row = row /\ result'.strings = strings
<1>. DEFINE key   == KeyOf(door, row, strings)
            whole == WholeOf(door, row, strings)
            fixed == FixedOf(door, row, strings)
            only  == Only(whole, fixed)
            trace == IF key \in DOMAIN cache THEN cache[key] ELSE only
            run   == [f \in DOMAIN whole |-> IF f \in DOMAIN trace THEN trace[f] ELSE whole[f]]
            body  == Concatenated(Frame(row, strings), strings)
            pad   == PadTail(row, Len(body))
<1>1. /\ body \in Strands /\ Len(body) \in Nat
      /\ DOMAIN whole = {"init", "pieces", "attrs", "operands"}
      /\ whole.init = InitialState(row)
      /\ whole.attrs = Attributes(row, Len(body))
      /\ Concatenated(whole.pieces, whole.operands) = body \o pad
  BY WholeIs
<1>2. fixed \subseteq {"init", "pieces", "attrs"}
  BY FixedIs
<1>3. DOMAIN only = fixed /\ \A f \in fixed : only[f] = whole[f]
  BY DEF Only
<1>4. /\ cache' = [k \in {key} \cup DOMAIN cache |-> IF k = key THEN trace ELSE cache[k]]
      /\ result' = [kind |-> "digest", row |-> row, strings |-> strings,
                    init |-> run.init, attrs |-> run.attrs,
                    stream |-> Concatenated(run.pieces, run.operands)]
  BY DEF Serve
<1>5. trace = only
  <2>1. CASE key \in DOMAIN cache
    <3>1. PICK e \in {"row", "zone", "operand"}, q \in RowsBuilt, t \in Strings :
                 /\ Asked(e, q, t)
                 /\ key = KeyOf(e, q, t)
                 /\ cache[key] = Only(WholeOf(e, q, t), FixedOf(e, q, t))
      <4>. HIDE DEF key
      <4>. QED
        BY <2>1 DEF RowsInv, CacheSound
    <3>2. /\ fixed = FixedOf(e, q, t)
          /\ \A f \in fixed : whole[f] = WholeOf(e, q, t)[f]
      BY <3>1, KeyFits
    <3>3. Only(WholeOf(e, q, t), FixedOf(e, q, t)) = only
      <4>. HIDE DEF whole, fixed
      <4>. QED
        BY <3>2 DEF Only
    <3>. QED
      BY <2>1, <3>1, <3>3
  <2>2. CASE key \notin DOMAIN cache
    BY <2>2
  <2>. QED
    BY <2>1, <2>2
<1>6. \A f \in {"init", "pieces", "attrs", "operands"} : run[f] = whole[f]
  <2>. HIDE DEF whole, fixed, only, trace
  <2>. QED
    BY <1>1, <1>2, <1>3, <1>5
<1>7. pad \in Strands /\ Len(body) + Len(pad) > 0 /\ (Len(body) + Len(pad)) % BlockOf(row) = 0
  BY <1>1, PadIs DEF Asked
<1>8. /\ result'.kind = "digest" /\ result'.row = row /\ result'.strings = strings
      /\ result'.init = whole.init /\ result'.attrs = whole.attrs
      /\ result'.stream = body \o pad
  <2>1. /\ run.init = whole.init /\ run.attrs = whole.attrs
        /\ run.pieces = whole.pieces /\ run.operands = whole.operands
    <3>. HIDE DEF run, whole
    <3>. QED
      BY <1>6
  <2>. HIDE DEF run, whole, body, pad
  <2>. QED
    BY <1>1, <1>4, <2>1
<1>9. result'.stream \in Strands /\ result'.stream # <<>> /\ Len(result'.stream) % BlockOf(row) = 0
  <2>. HIDE DEF body, pad
  <2>1. body \o pad \in Strands /\ Len(body \o pad) = Len(body) + Len(pad)
    BY <1>1, <1>7, Strung
  <2>2. body \o pad # <<>>
    BY <1>7, <2>1
  <2>. QED
    BY <1>7, <1>8, <2>1, <2>2
<1>10. DoorsAgree'
  <2>1. Asked("row", row, strings)
    BY DEF Asked
  <2>2. WholeOf("row", row, strings) = Whole(row, Frame(row, strings), strings)
    BY DEF WholeOf, FrameOf, OperandsOf, OperandKmac
  <2>. DEFINE plain == Whole(row, Frame(row, strings), strings)
  <2>3. /\ plain.init = whole.init /\ plain.attrs = whole.attrs
        /\ Concatenated(plain.pieces, plain.operands) = body \o pad
    BY <1>1, <2>1, <2>2, WholeIs
  <2>. HIDE DEF whole, body, pad
  <2>. QED
    BY <1>8, <2>3 DEF DoorsAgree
<1>11. /\ DOMAIN cache' = {key} \cup DOMAIN cache
       /\ cache'[key] = only
       /\ \A k \in DOMAIN cache \ {key} : cache'[k] = cache[k]
  <2>. HIDE DEF key, trace, only
  <2>. QED
    BY <1>4, <1>5
<1>12. CacheSound'
  <2>. HIDE DEF only, key
  <2>1. ASSUME NEW k \in DOMAIN cache'
        PROVE  \E e \in {"row", "zone", "operand"}, q \in RowsBuilt, t \in Strings :
                 /\ Asked(e, q, t)
                 /\ k = KeyOf(e, q, t)
                 /\ cache'[k] = Only(WholeOf(e, q, t), FixedOf(e, q, t))
    <3>1. CASE k = key
      <4>1. door \in {"row", "zone", "operand"} /\ row \in RowsBuilt /\ strings \in Strings
        BY DEF Asked
      <4>. QED
        BY <1>11, <3>1, <4>1 DEF key, only
    <3>2. CASE k # key
      BY <1>11, <3>2 DEF RowsInv, CacheSound
    <3>. QED
      BY <3>1, <3>2
  <2>. QED
    BY <2>1 DEF CacheSound
<1>13. \A k \in DOMAIN cache' : DOMAIN cache'[k] \subseteq {"init", "pieces", "attrs"}
  <2>. HIDE DEF only, key, fixed
  <2>. QED
    BY <1>2, <1>3, <1>11 DEF RowsInv, HRTypeOK
<1>. QED
  BY <1>8, <1>9, <1>10, <1>12, <1>13

(* Nothing is cached at first.                                             *)
LEMMA RowsInvInit ==
  HRInit => RowsInv
BY RowAssumption DEF HRInit, RowsInv, HRTypeOK, DoorsAgree, CacheSound, AnswersAsked

(* A call keeps the invariant.                                             *)
LEMMA CallServed ==
  ASSUME RowsInv, NEW door, NEW row, NEW strings, Asked(door, row, strings),
         calls < MaxCalls, calls' = calls + 1,
         Serve(KeyOf(door, row, strings), WholeOf(door, row, strings),
               FixedOf(door, row, strings), row, strings)
  PROVE  RowsInv'
<1>1. /\ CacheSound' /\ DoorsAgree'
      /\ \A k \in DOMAIN cache' : DOMAIN cache'[k] \subseteq {"init", "pieces", "attrs"}
      /\ result'.kind = "digest" /\ result'.stream # <<>>
      /\ Len(result'.stream) % BlockOf(row) = 0
      /\ result'.stream \in Strands /\ result'.row = row /\ result'.strings = strings
  BY ServedIs
<1>2. calls' \in 0 .. MaxCalls
  BY RowAssumption DEF RowsInv, HRTypeOK
<1>3. \A p \in DOMAIN result'.stream : result'.stream[p] \in 0 .. Base - 1
  <2>. DEFINE w == result'.stream
  <2>1. w \in Seq(Bytes)
    BY <1>1 DEF Strands
  <2>. HIDE DEF w
  <2>2. \A p \in DOMAIN w : w[p] \in 0 .. Base - 1
    <3>1. DOMAIN w = 1 .. Len(w) /\ \A p \in 1 .. Len(w) : w[p] \in Bytes
      BY <2>1
    <3>. QED
      BY <3>1 DEF Bytes
  <2>. QED
    BY <2>2 DEF w
<1>4. HRTypeOK'
  BY <1>1, <1>2, <1>3 DEF HRTypeOK, BlockOf
<1>5. AnswersAsked'
  BY <1>1 DEF AnswersAsked, Asked
<1>. QED
  BY <1>1, <1>4, <1>5 DEF RowsInv

(* Every step keeps it.                                                    *)
LEMMA RowsInvNext ==
  RowsInv /\ [HRNext]_hrVars => RowsInv'
<1>. SUFFICES ASSUME RowsInv, [HRNext]_hrVars
              PROVE  RowsInv'
  OBVIOUS
<1>1. CASE UNCHANGED hrVars
  BY <1>1 DEF hrVars, RowsInv, HRTypeOK, DoorsAgree, CacheSound, AnswersAsked
<1>2. ASSUME HRNext
      PROVE  RowsInv'
  <2>1. PICK row \in RowsBuilt, strings \in Strings :
          \/ DigestInTrace(row, strings)
          \/ DigestEagerly(row, strings)
          \/ Len(strings) = 1 /\ KmacWithOperandKey(row, strings[1])
          \/ Len(strings) = 1 /\ Blake3WithOperandKey(row, strings[1])
          \/ Reject(row, strings)
    BY <1>2 DEF HRNext
  <2>2. calls < MaxCalls /\ calls' = calls + 1
    BY <1>2 DEF HRNext
  <2>3. strings \in Seq(Strands)
    BY RowAssumption DEF Strands
  <2>4. CASE DigestInTrace(row, strings)
    <3>1. Asked("row", row, strings)
      BY <2>4 DEF DigestInTrace, Asked
    <3>2. /\ KeyOf("row", row, strings)
               = <<"row", TypeOf(row), Parameters(row), Shape(strings)>>
          /\ WholeOf("row", row, strings) = Whole(row, Frame(row, strings), strings)
          /\ FixedOf("row", row, strings) = {"init", "pieces", "attrs"}
      BY DEF KeyOf, WholeOf, FixedOf, FrameOf, OperandsOf, OperandKmac
    <3>. QED
      BY <2>2, <2>4, <3>1, <3>2, CallServed DEF DigestInTrace
  <2>5. CASE DigestEagerly(row, strings)
    <3>1. Asked("zone", row, strings)
      BY <2>5 DEF DigestEagerly, Asked
    <3>2. /\ KeyOf("zone", row, strings) = Zone(row, strings).key
          /\ WholeOf("zone", row, strings) = Whole(row, Frame(row, strings), strings)
          /\ FixedOf("zone", row, strings) = Zone(row, strings).fixed
      BY DEF KeyOf, WholeOf, FixedOf, FrameOf, OperandsOf, OperandKmac
    <3>. QED
      BY <2>2, <2>5, <3>1, <3>2, CallServed DEF DigestEagerly
  <2>6. CASE Len(strings) = 1 /\ KmacWithOperandKey(row, strings[1])
    <3>1. strings = <<strings[1]>> /\ row.fn = "KMAC" /\ Valid(row)
      BY <2>3, <2>6 DEF KmacWithOperandKey
    <3>2. Asked("operand", row, strings)
      BY <2>6, <3>1 DEF Asked, Takes, Fits
    <3>3. OperandKmac("operand", row)
      BY <3>1 DEF OperandKmac
    <3>4. /\ KeyOf("operand", row, strings)
               = <<"operand", TypeOf(row), row.out, row.cust, Shape(<<row.key, strings[1]>>)>>
          /\ WholeOf("operand", row, strings)
               = Whole(row, OperandFrame(row), <<row.key, strings[1]>>)
          /\ FixedOf("operand", row, strings) = {"init", "pieces", "attrs"}
      BY <3>3 DEF KeyOf, WholeOf, FixedOf, FrameOf, OperandsOf
    <3>5. Serve(KeyOf("operand", row, strings), WholeOf("operand", row, strings),
                FixedOf("operand", row, strings), row, strings)
      BY <2>6, <3>1, <3>4 DEF KmacWithOperandKey
    <3>. QED
      BY <2>2, <3>2, <3>5, CallServed
  <2>7. CASE Len(strings) = 1 /\ Blake3WithOperandKey(row, strings[1])
    <3>1. strings = <<strings[1]>> /\ row.fn = "Blake3Keyed" /\ Valid(row)
      BY <2>3, <2>7 DEF Blake3WithOperandKey
    <3>2. Asked("operand", row, strings)
      BY <2>7, <3>1 DEF Asked, Takes, Fits
    <3>3. ~ OperandKmac("operand", row)
      BY <3>1 DEF OperandKmac
    <3>4. /\ KeyOf("operand", row, strings)
               = <<"operand", TypeOf(row), row.out, Shape(<<row.key, strings[1]>>)>>
          /\ WholeOf("operand", row, strings) = Whole(row, Frame(row, strings), strings)
          /\ FixedOf("operand", row, strings) = {"pieces", "attrs"}
      BY <3>3 DEF KeyOf, WholeOf, FixedOf, FrameOf, OperandsOf
    <3>5. Serve(KeyOf("operand", row, strings), WholeOf("operand", row, strings),
                FixedOf("operand", row, strings), row, strings)
      BY <2>7, <3>1, <3>4 DEF Blake3WithOperandKey
    <3>. QED
      BY <2>2, <3>2, <3>5, CallServed
  <2>8. CASE Reject(row, strings)
    <3>1. result' = [kind |-> "ValueError"] /\ cache' = cache
      BY <2>8 DEF Reject, ValueError
    <3>2. calls' \in 0 .. MaxCalls
      BY <2>2, RowAssumption DEF RowsInv, HRTypeOK
    <3>. QED
      BY <3>1, <3>2 DEF RowsInv, HRTypeOK, DoorsAgree, CacheSound, AnswersAsked
  <2>. QED
    BY <2>1, <2>4, <2>5, <2>6, <2>7, <2>8
<1>. QED
  BY <1>1, <1>2

(* One hash, one stream: whichever call traced first, and through whatever *)
(* door it comes, a row absorbs what its own parameters frame, for every   *)
(* set of rows built and of strings, every digit size and every number of  *)
(* calls.                                                                  *)
THEOREM OneHashOneStream ==
  HRSpec => []DoorsAgree
<1>1. RowsInv => DoorsAgree
  BY DEF RowsInv
<1>. QED
  BY RowsInvInit, RowsInvNext, <1>1, PTL DEF HRSpec

(* Every call absorbs whole blocks of bytes, one at least, and no trace    *)
(* ever fixes an operand.                                                  *)
THEOREM RowTypesHold ==
  HRSpec => []HRTypeOK
<1>1. RowsInv => HRTypeOK
  BY DEF RowsInv
<1>. QED
  BY RowsInvInit, RowsInvNext, <1>1, PTL DEF HRSpec

(* Which hash a call was, its key, customization and output length, and    *)
(* every string it was given can be read back from what it absorbed: no    *)
(* two calls that mean different things share a digest, whatever rows are  *)
(* built and strings hashed, and however many calls share the caches.      *)
THEOREM EveryCallIsReadBack ==
  HRSpec => []UniqueReading
<1>1. RowsInv => UniqueReading
  <2>. SUFFICES ASSUME RowsInv, result.kind = "digest"
                PROVE  Reading(result) = [row     |-> Canonical(result.row),
                                          strings |-> result.strings]
    BY DEF UniqueReading
  <2>. DEFINE row     == result.row
              strings == result.strings
              whole   == Whole(row, Frame(row, strings), strings)
              body    == Concatenated(Frame(row, strings), strings)
  <2>1. Asked("row", row, strings)
    BY DEF RowsInv, AnswersAsked
  <2>2. /\ result.init = whole.init /\ result.attrs = whole.attrs
        /\ result.stream = Concatenated(whole.pieces, whole.operands)
    BY DEF RowsInv, DoorsAgree
  <2>. HIDE DEF row, strings
  <2>3. WholeOf("row", row, strings) = whole
    BY DEF WholeOf, FrameOf, OperandsOf, OperandKmac
  <2>. HIDE DEF whole
  <2>4. /\ whole.init = InitialState(row)
        /\ whole.attrs = Attributes(row, Len(body))
        /\ Concatenated(whole.pieces, whole.operands) = body \o PadTail(row, Len(body))
    BY <2>1, <2>3, WholeIs
  <2>5. Absorbs(result, row, body)
    BY <2>2, <2>4 DEF Absorbs
  <2>6. Reading(result) = [row |-> Canonical(row), strings |-> strings]
    BY <2>1, <2>5, RowRead
  <2>. QED
    BY <2>6 DEF row, strings
<1>. QED
  BY RowsInvInit, RowsInvNext, <1>1, PTL DEF HRSpec
=============================================================================
