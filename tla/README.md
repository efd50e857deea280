# hash-frx in TLA+

This directory specifies the stateful and position-dependent parts of hash-frx:
incremental hashing, the walk of a whole-message digest under a shared trace,
the framing that tells one row from another, the BLAKE3 tree, the duplex sponge,
the MACs and key derivations over a finished hash, 64-bit words on 32-bit
halves, and the routing of calls to fused kernels. TLC checks each module on a
small instance; TLAPS proves the three byte streams with the BLAKE3 tree, the
digest calls, both field sponges, the adapters, the word arithmetic and the
routing correct for every value of their constants.

hash-frx is a library. It has no threads and no messages of its own. What makes
it hard is that shapes are static and positions are run-time data: loops run to
an upper bound and select, buffers are read through gathers and clamped slices,
traces are shared by calls that agree on a key, and a message may be cut into
calls anywhere. A unit test pins some lengths and some cuts. The properties
here range over all of them.

## Conventions

- Bytes, elements and compressions are free terms. Almost no modelled code looks
  at a byte's value, only at where it goes, so byte k is named `Msg(k)`, a
  midstate is the sequence of blocks folded into it, a sponge state is the
  history of blocks absorbed and permutations run, and a BLAKE3 chaining value is
  its whole node. Two names are equal exactly when the values are equal whatever
  the compression computes. The exceptions, where a value is read, are numbers:
  the encodings of `HashRows`, the words of `Word64`.
- States are values in the code too (an absorb returns a new state), so a
  machine's variables are the latest state, and history variables (`absorbed`,
  `taken`, `result`, `script`) say what the caller did to get there.
- `As X, ...` above a definition that no specification uses marks a variant of
  X with a plausible slip in it. PROJECT.json lists, for each property, the
  variant under which TLC finds it violated.

## Inventory

| Component | State | Operations | What makes it correct |
|---|---|---|---|
| `extension/pad.py` | none | `nblocks`, `tail`, `haifa_counter` | whole blocks, the field at the end, never an empty last block |
| `extension/md.py` | midstate, pending block, two counters | `absorb`, `finalize`, `masked_chain`, `trailer_field`, `padded_region` | a stream equals the one-shot digest at every cut and length |
| sha256, sha512, ripemd160, sm3, grostl, blake2 front ends | a trace per operand shape | `digest` in its static, tail and runtime-length forms, truncated variants | the digest is of the live prefix under its own initial state, whichever trace serves it |
| `byte_hash.py` | a row's path and parameters | `capacity`, `at_capacity`, `padded_batch`, equality | few widths, each holding its message; equal rows are one hash |
| `extension/sponge.py`, `keccak/sponge.py` | none | `absorb_squeeze`, `squeeze`, `hash` | the schedule of permutations |
| `keccak/streaming.py` | state, pending, offset | `absorb`, `finalize`, `finalize_blocks`, `squeeze`, `squeeze_blocks`, `widen` | input and output cut anywhere give the one-shot bytes |
| `keccak/` encodings and rows (FIPS 202, cSHAKE, KMAC, TupleHash) | traces of the zones | `left_encode`, `bytepad`, `digest`, `kmac128` and its siblings | which hash a call was, its key and its strings are recoverable from what it absorbed |
| `ascon/`, `blake2_params.py` and the BLAKE2 rows, `blake3/rows.py` | traces of the zones | the rows and free functions | the same |
| `extension/tree.py`, `blake3/modes.py` | none | `levels`, `tree_output`, `root_bytes` | level-by-level pairing is the specification's tree |
| `blake3/streaming.py` | subtree stack, counter pair, block | `absorb`, `finalize` | the stack is the binary form of the chunk count |
| `duplex_sponge.py`, `adapter/duplex.py` | lanes, mode, position | `absorb`, `squeeze` | only order and turns matter, nothing is read unmixed |
| `fusion.py`, `markers.py`, permutations, rows | backend, instances, traces | construction, `permute`, `hash`, `digest` | an instance is served its own region, and equal ones share it |
| `sponge.py`, `compression.py` | none | `hash`, `compress` | absorb rule of each chaining |
| `adapter/` (hmac, hkdf, mgf1, pbkdf2) | loop state of a call | `mac`, `hkdf_extract`, `hkdf_expand`, `mgf1`, `pbkdf2` | the RFC's bytes on every path, refusals at its limits, no repeated counter |
| `word.py`, `word64.py`, `keccak/lane.py` | none | `split`, `add64`, `rotr64`, `rotl`, `rotl_each`, packing | a pair of halves is one 64-bit word |
| parameter bundles, `_composite.py` | none | data | not behaviour: see "Not modelled" |

How they interact: a family's front end hands its compression and its pad rule
to a schedule (`extension/`), which never names a family. Adapters read a
finished hash through `ByteHash`. The field constructions read a permutation
through `Permutation`. Every permutation and row asks `fusion.routing` for its
marker when it is built, and every hot call goes through a module-level jit zone
that keeps one trace per static key.

PROJECT.json lists the hazards, each at its line with the properties that would
catch it. By kind: gathers and selections at run-time positions (md, both
streams); counters at their width (the int32 length at 2 GiB and 4 GiB, the
uint32 pair of chunks); a trace shared by calls it was not made for; a choice
made at construction or import and used after the backend has changed; the order
of permutations around a turn or an exactly full block; framing that has to stay
readable when lengths, keys and customizations take any value; a loop bound or
counter at the last block; a carry or a shift at the boundary of a half word.

## Modules

| Module | Models | Composition |
|---|---|---|
| `PadRule` | `pad.py` PadRule and the traced half in `md.py` | operators |
| `MdOneShot` | what a stream promises: remember a length, return the one-shot digest | abstract |
| `MdStream` | `md.py` MdStream with sha256's state | implements `MdOneShot` |
| `Binary` | the powers of two, which widths, subtrees and bits are made of | one function |
| `Arithmetic` | division, tabulated sequences, powers of two, induction over the naturals, recursive functions and loops | for the proofs only |
| `DigestCall` | one-shot digests of every Merkle-Damgard and HAIFA family and their trace caches, block by block | three `PadRule` instances |
| `DigestCallProofs` | theorems on `DigestCall` | TLAPS |
| `Encodings` | `keccak/encodings.py`, and the reader of what it encodes | operators |
| `HashRows` | the Keccak, Ascon, BLAKE2 and BLAKE3 rows, their framing and their traces | over `Encodings` |
| `KeyedHash` | HMAC, block sizes, and the requests adapters serve | operators, over `PadRule` |
| `KdfFormulas` | what HMAC, HKDF, MGF1 and PBKDF2 give a row, as their RFCs write it | operators, over `KeyedHash` |
| `KdfStandard` | a call answered once, by those formulas | abstract, over `KdfFormulas` |
| `Adapters` | `adapter/`'s loops, midstates, layouts and refusals | implements `KdfStandard` |
| `AdapterProofs` | theorems on `Adapters` | TLAPS |
| `Powers` | widths in bits and the powers of two | constants |
| `UInt64` | a 64-bit word and its operations | abstract, over `Powers` |
| `Word64` | the same on two uint32 halves | implements `UInt64` |
| `Sha2Proofs` | theorems on `MdStream` and `Word64`, SHA-512's stream and its words | TLAPS |
| `Sponge` | SpongePad, the byte-sponge schedule, Keccak's one-shot hash | operators |
| `Xof` | what an incremental XOF promises | abstract, over `Sponge` |
| `ShakeStream` | `keccak/streaming.py` | implements `Xof` |
| `ShakeStreamProofs` | theorems on `ShakeStream` | TLAPS |
| `Blake3Tree` | `tree.py` and `modes.py`, and the specification's tree | operators |
| `Blake3OneShot` | what an incremental BLAKE3 promises | abstract, over `Blake3Tree` |
| `Blake3Stream` | `blake3/streaming.py` | implements `Blake3OneShot` |
| `Blake3StreamProofs` | theorems on `Blake3Stream` and its tree | TLAPS |
| `DuplexSponge` | `duplex_sponge.py` under `adapter/duplex.py`'s conventions | one machine |
| `FieldSponge` | `sponge.py` over `field_absorb` | one machine |
| `FieldLanes` | the lanes of a permutation, shared by the two | constants |
| `SpongeProofs` | theorems on `DuplexSponge` and `FieldSponge` | TLAPS |
| `Routing` | markers, equality, jit zones, rows, the import-time permutation | one machine |
| `CacheProofs` | theorems on `Routing` and `HashRows`, whose caches of traces outlive calls | TLAPS |

Each `MC...` module only gives constants their values.

State and actions against the code:

- `MdStream`: `h`, `pending`, `pending_len`, `total_len` are the fields of
  `Sha256State` (`counts` is the last two). `Absorb(length)` is all of
  `MdStream.absorb`: gather, low candidate, optional high block, selection,
  dynamic slice and mask, counters. `Finalize(e)` is `finalize` for a batch of
  rows whose extras have e bytes. It leaves the state alone, as the code does.
- `ShakeStream`: `state`, `pending`, `pending_len` are `ShakeAbsorb`; `squeezer`
  is the latest `ShakeSqueeze` or `ShakeBlockSqueeze` made from it, so feeding
  the absorbing half while a squeezer is drained is a behaviour of the model.
- `DigestCall`: one call at a time, started by the action of its front end,
  then one `Compress` per block of the unrolled walk and a `Return`. `traces`
  maps the key a jit zone sees to what tracing fixed. Truncated variants and the
  BLAKE2 sizes run in one zone and bring their initial state as an operand;
  `earlier` keeps the digest before the last to compare the two.
- `HashRows`: a call is one step, `DigestInTrace` (a row as a static argument of
  the caller's trace), `DigestEagerly` (through the family's zone) or one of the
  two functions that take the key as an operand. `Serve` is the jit cache: under
  a known key the fields that tracing fixed come from the call that traced them,
  and the rest from this one. What the absorbed bytes mean is read back by
  `Reading`, a parser written from the standards' grammar and not from the
  framing code.
- `Adapters`: `call` is the request, and `at`, `i`, `j`, `u`, `t`, `blocks`,
  `keys` are the locals of the running function; one step is one turn of
  `hkdf_expand`'s loop or of `pbkdf2`'s `fori_loop`. `KdfStandard` answers the
  same request in one step by the formula, for one row at a time.
- `Word64`: `word` is the pair; one operation of `word64.py`, `lane.py` or
  `word.py` is one step, its operand split into halves first. `UInt64` is read
  through `x <- word.hi * 2^32 + word.lo`.
- `Blake3Stream`: `stream` is the `Blake3Stream` dataclass. `Absorb` is the
  whole `fori_loop`, with each step's `_absorb_block` and `_push_chunk_cv`.
- `DuplexSponge`: `sponge` is the object; `Absorb(n)` and `Squeeze(n)` are the
  methods with their loops, calls of any size including zero.
- `FieldSponge`: `call` is the running `hash` with the state and the block index
  its `while_loop` carries; `AbsorbBlock` is one iteration, `merge` and the
  permute after it. The empty input and the refused shape return at once.
- `Routing`: `SwitchBackend` is the environment (`frx.default_backend`, the one
  external action). Building an instance reads it; calling one reads the traces.
  Output sizes, rates and avals, which are also in the keys, are equal for all
  calls of the model, so they are left out of it.

## Runs

| Run | Bounds | Shows |
|---|---|---|
| `md_stream` | block 5, reserve 3, field 2, words of 32, absorbs to 12, stream to 38 | the stream is resumable and finalizes to the one-shot digest |
| `shake_stream` | rate 4, absorbs to 9, message to 10, output to 9 | input and output cut anywhere give the one-shot bytes |
| `digest_call` | block 4, reserve 2, messages to 9, buffers to 6, two calls | every form hashes the live prefix, whichever trace serves it; two calls agree only if hash and message do |
| `blake3_stream` | blocks of 2, chunks of 2 blocks, 2-bit counter halves, 64 bytes | stack, position, tree and output at every cut |
| `duplex` | width 3, rate 2, 5 in, 6 out, two runs of absorbs | calls compose, nothing is read twice or unmixed |
| `field_sponge` | width 5, rates 2 and 3, digests of 1, 2 and 3, inputs to 5 | both chaining rules, and which inputs collide |
| `hash_rows` | bytes of 4 bits, rates 4 to 6, some eighty rows, two calls | what a call meant is readable from what it absorbed, and every entry point frames alike |
| `adapters` | block 4, digests of 1, 2 and 5, octets of 3 values, one call | the adapters implement the RFCs' formulas and repeat nothing |
| `word64` | bytes of 1 bit, halves of 4, every operand | pairs of halves implement one word |
| `routing` | four families, three backends, two objects | own region, readable attributes, one trace per value |
| `routing_row`, `routing_stream` | the same model | what a comment says and the code does not do: see "Findings" |

Why the bounds are enough. A stream's behaviour depends on its position modulo a
block and on how many blocks a call spans, none, one or several: an absorb of
two blocks and more from every residue covers every gather, both candidates and
every selection. The reserve is wider than the field, as SHA-512's is, and the
word small enough that the signed wrap and the unsigned wrap are inside the
stream. BLAKE3's halves are two bits wide, so the carry happens at the fourth,
eighth and twelfth chunk, and sixteen chunks fill the stack. The duplex takes
two and a half blocks in and three out; two runs of absorbs give both turns. The
field sponge's inputs are over zero and one other element, all that its masks
can tell apart, and reach a partial third block; its digest is once wider than
the rate, once narrower, and once less than the capacity. Two
objects are enough for one to be served another's trace, and two calls for one
to be served another's length, key or initial state. In `hash_rows` a byte has
16 values and 4 bits, so a length of 4 bytes is 16 bits and takes a second
digit, and strings of 4 bytes meet both encodings; the strings and keys of
`MCHashRows` are chosen to pass for one another's framing (trailing zeros, a
byte that is a length, a key that is BLAKE3's initial words). In `adapters` an
octet has 3 values, so HKDF's ceiling is two blocks and MGF1's nine, and
requests stand on both sides of each; one hash is asked, as a SHAKE can be, for
a digest wider than its registered block. `word64` is exhaustive at its width; the
theorem covers the others. `MaxChunk`, `MaxBytes`, `MaxTaken`, `MaxOut`,
`MaxAbsorbed`, `MaxSqueezed`, `MaxAbsorbs`, `MaxCalls`, `MaxLength`, `MaxWidth`
and `MaxBuilt` bound the models and have no counterpart in the code, and nor
does the set `Counts` of rotations in `UInt64`. All but `digest_call`,
`hash_rows` and `adapters` are checked for deadlock; in these the calls run out.

Fairness. No module states any, and no liveness is claimed: every operation is a
single step, or a loop whose trip count is fixed before it starts, which ends by
its shape. Where a step leaves an operation half done, `TypeOK` follows its
index to the bound. Nothing obliges a caller to make the next call.

## Proofs

`Sha2Proofs` proves of `MdStream`, for every Block, Reserve, Field, Word and bound that
satisfy `PadAssumption` and `StreamAssumption`:

- `StreamIsResumable`: `Spec => []Resumable`;
- `TwoCandidatesSuffice`: `Spec => []CandidatesSuffice`;
- `FinalizeMatchesOneShot`: `Spec => []FinalizeIsOneShot`;
- `StreamImplementsPromise`: `Spec => ImplementsPromise`, the refinement;
- `TypesHold`: `Spec => []TypeOK`.

The argument. `Resumable` is inductive once the number of absorbed bytes is
known to be a natural number in range: `IInv` is the two together. TypeOK is
not, since it says nothing of where the bytes came from, and it follows from
`IInv`. That an absorb preserves `IInv` rests on three lemmas about the
operators. `GatherValid`: below the live length, the clamped gather returns the
message byte at that stream position, and never reaches the gap or the clamp.
`BlockCounts`: the live block count is the least candidate or the greatest, by
integer division alone. `AbsorbMidstate` and `AbsorbPending`: the selected
candidate and the sliced tail are therefore the blocks and the remainder of the
longer message, for which sequences of blocks are concatenated as tabulated
functions (`Arithmetic`). For finalize, `EndingFits` shows that the one-block or
the two-block ending has room for exactly the host rule's padding, `LengthField`
that the wrapped int32 encodes the length modulo Word whatever its sign, and
`RegionBytes` puts the two byte for byte against `PadTail`. `FinalizeDigest`
turns that into equal digests, and the refinement follows step by step.
`FinalizeIsOneShot` needs one more fact than `IInv`, that a result on display
was computed for the current `absorbed`; `Kept` states it.

And of `Word64` `PairsImplementWord`: `WSpec => PairsAreWords`, that is,
`WSpec => UInt!Spec` under the mapping and `WSpec => []WTypeOK`, for every
`ByteBits` and every `Pow` that satisfies `PowAssumption`.

The argument. Powers of two are known only by `PowAssumption`: positive, one at
zero, and multiplicative up to the word's width. `Cut` says that quotient and
remainder are the only decomposition of a number, and everything else is a
decomposition exhibited. `AddIsSum` splits on whether the low half wrapped, which
is exactly when it comes out below its addend. For a rotation, `HalfCut` cuts
each half where the shift does, `RotrPieces` names the four pieces of a word and
their places after the turn, and `RotrShortIsTurn` and `RotrShortSwapped` put
them together on either side of the swap. A left rotation is a right one by the
complement (`LeftIsRight`, `RotlShortIsRotr`), so it needs no pieces of its own,
and the table form is the branching one case by case (`RotlEachIsRotl`): the
dummy shift's result is never read. `Digits` gives the four bytes of a half,
`PackIsSum` that packing them loses nothing to the modulus, `UnpackSpells` that
unpacking inverts it, in both orders. `WTypeOK` is inductive by itself, and
`ReplyStep` takes each operation to the abstract reply.

`CacheProofs` proves of `Routing`, for every set of families, backends and parameters that
satisfies `RoutingAssumption`, and any number of instances and switches:

- `ServedItsOwnRegion`: `Spec => []OwnRegion`;
- `EqualInstancesShareATrace`: `Spec => []TraceOnce`;
- `DedicatedIsReadable`: `Spec => []OnlyReadable`;
- `RoutingTypesHold`: `Spec => []TypeOK`.

The argument. `OwnRegion` speaks of the last call only and says nothing of what
the caches hold for the next one. `TracesSound` does: the region kept under a
key is a region of the very value in the key, and whether it is dedicated
follows from the marker in that value. `ObjectsConsistent` says the same of each
instance: path and marker agree, and a dedicated marker stands only over
parameters its emitter reads (`MarkerChoice`, from the selection in
`__init__`). A call hands a zone a region of its own value
(`PermuteRegionSound`, `WholeRegionSound`), so keeping it is sound
(`KeepingSound`), and what the zone serves instead is a region of the same value
(`ServedSound`, `InstanceCall`). The invariant is inductive because equality
reads the marker: over the parameters alone a key would not determine it. Only
`GenericSpongeHash` fills two zones at once, and `GenericStep` follows the
region through both. `TraceOnce` and `OnlyReadable` are then read off
`TracesSound`.

And of `HashRows`, for every set of rows and of strings, every size of a byte
and any number of calls, within `EncodingAssumption` and `RowAssumption`:

- `OneHashOneStream`: `HRSpec => []DoorsAgree`;
- `EveryCallIsReadBack`: `HRSpec => []UniqueReading`;
- `RowTypesHold`: `HRSpec => []HRTypeOK`.

`RowAssumption` says what callers can build and pass: fields and strings are
bytes, blocks have the parts their family divides them into, the domain bytes
leave the top bit to the padding, and every number that is framed is one
`_encode_length` accepts (`Encodable` is its refusal). What a row's constructor
does not take is blank (`Trimmed`), since the answer read back is a whole row.
KMAC's and TupleHash's names are two, neither is empty, and a customization's
length fits in Ascon's length block, as the code's constants have it. That no
cSHAKE takes one of those names, which SP 800-185 reserves and nothing in the
code enforces, is the one assumption the code does not back: without it a cSHAKE
called KMAC is KMAC, by design.

The argument. `DoorsAgree` speaks of the last call and `CacheSound` of the next
one: what a cache keeps under a key is a part of some call with that key. Three
facts make it inductive. Two calls with one key agree on all that a trace fixes
(`KeyFits`), whatever strings they hash: rows that are equal to the cache read
alike wherever they frame, pad or finish (`EqualRows`, `AlikeRows`), and the
padding, which is sized by the strings, needs only their lengths
(`ConcatenatedLength`, `PartsAgree`), which the key holds as a shape. A zone's
key holds less and fixes less, family by family (`ZoneFits`), and so does an
operand's (`OperandFits`). Putting the tail after the last operand is putting it
after the whole string (`PaddedIs`), so a call absorbs its framing and then its
padding, to the end of a block (`WholeIs`, `PadIs`). And the bytes that
`bytepad_encoded_split` puts around a key it knows only the length of are those
`bytepad(encode_string(K))` has (`SplitIs`, `OperandBytes`).

`UniqueReading` needs one more conjunct, that only calls which were asked for are
answered (`AnswersAsked`); `RowsInv` is the four together. By `DoorsAgree` the
call absorbed what its own row frames, so what is left is about the encodings:
`RowRead`, that `Reading` of those bytes is the row and its strings. It holds
whatever the strings contain, because no reader looks for a mark in them. A
length says how many digits follow and the digits spell it (`DigitsSpell`,
`LeftRead`, `RightRead`), so an encoded string ends where its length says
(`StringRead`), and a bytepad where its width does, whatever its fill
(`PadRead`). SP 800-185's functions are then read from the front, by the name
they open with (`NameRead`, `CShakeRead`, `KmacRead`), except for the output
length, which is read from the back. TupleHash's strings come off one at a time
and every one takes a byte at least, which is why a reader that goes on until
nothing is left stops after the last one (`StringsRead`, by induction on the
strings). Sponge padding is the last byte that is not zero (`PadRemoved`), so
it comes off even if the message ends in zeros, and the domain byte in it tells
the families apart (`DomainsDiffer`, `SuffixIs`). Ascon's customization comes
behind a block with its length (`CustomizationRead`). A BLAKE2 parameter block
says how long the key block is and gives back its fields with their zero fill,
which is what `Canonical` keeps of them (`ParamRead`, `KeyBlockRead`), and a
BLAKE3 call is told by its flags and initial words (`ModeRead`, `ContextRead`),
even with a key that equals the IV.

`ShakeStreamProofs` proves, for every rate and every bound that satisfy
`SpongeAssumption` and `ShakeAssumption`:

- `AbsorbsResume`: `Spec => []AbsorbResumable`;
- `SqueezesResume`: `Spec => []SqueezeResumable`;
- `ChainsAreExact`: `Spec => []ChainIsExact`;
- `StreamImplementsPromise`: `Spec => ImplementsPromise`, the refinement;
- `TypesHold`: `Spec => []TypeOK`.

The argument. `IInv` says in one sentence where each half stands: the absorbing
half holds the blocks and the remainder of `absorbed` bytes, and a squeezer is a
function of the length it was sealed at and of what it has handed out. The
second part is stronger than `SqueezeResumable`, which does not say that a
whole-block squeezer stands between blocks, and its next squeeze relies on it.
The absorbing half goes as `MdStream`'s does (`GatherValid`, `ChainValid`,
`AbsorbState`, `AbsorbPending`). `FinalBlockIsPadding` puts the pending block
under its two domain bytes against the standard's padding, also when both land
in the last byte of a block. `PermutedTwice` says that permutations of one state
add up, so that a squeeze which starts at any offset reads the block that a
single pass would read (`SqueezedRight`) and carries on from it
(`CarriedRight`). The refinement needs that a result on display belongs to the
squeezer (`ResultsKept`).

`SpongeProofs` proves of `DuplexSponge`, for every width and rate, every
convention and every sequence of calls within `DuplexAssumption`:

- `CallsAlwaysCompose`: `Spec => []CallsCompose`;
- `LanesGivenOnce`: `Spec => []NoLaneTwice`;
- `ReadsAreMixed`: `Spec => []MixedBeforeRead`;
- `CapacityStaysUntouched`: `Spec => []CapacityUntouched`;
- `PublishedStaysClosed`: `Spec => []NeverOntoPublished`;
- `TypesHold`: `Spec => []TypeOK`.

The argument. A call is a loop over blocks, and the model writes it as a
recursive function. Each loop is first given the law it obeys (`AbsorbLaw`,
`SqueezeLaw`): stop inside this block, or spill into the next and go on with
what is left. Everything else is proved from the law by induction on the lanes
left (`BlockInduction`): that a call of n then m is a call of n + m
(`AbsorbsCompose`, `SqueezesCompose`), and that a call keeps `Sound` and
`Ready`. `Sound` says that nothing was added to or read from the capacity, that
every lane handed out was handed out with nothing added since the permutation
before it, and that lanes come out in order. `Ready` says what each mode still
has to hand: a squeezing sponge has read only lanes below its position since it
permuted, and an absorbing one under a convention that permutes at both turns
has read none at all. That is why the next squeeze repeats nothing, and no
property by itself says it. `CallsCompose` joins the invariant as it stands: the
sponge is what the script of merged calls, replayed from a fresh sponge, leaves.
It is kept because a replay is unique (`AfterUnique`) and grows with its script
(`ReplayExtends`).

And of `FieldSponge`, for every width, every set of shapes and elements, and
every input, within its `SpongeAssumption`:

- `HashesAreReference`: `FSSpec => []HashesLikeReference`;
- `CollisionsArePadding`: `FSSpec => []CollidesOnlyOnPadding`;
- `FieldTypesHold`: `FSSpec => []FSTypeOK`.

The argument. The properties speak of digests, and the invariant `FSIInv` of the
call that makes one: after i blocks its lanes are `After(c, i)`, the free term
of those blocks, which `AfterLaw` unfolds by one. It is inductive since the
gather never clamps an index that is read and the masks leave what `Overlay`
says, lane by lane (`OverlaidIs`). The references are recursions too, over
elements and over digests. `ChainIsBlocks` runs the second beside the blocks;
for the first, `Standing` says where k elements leave it, partway through a
block or after one (`StandingSteps`), and after the last element both are the
same state (`ElementsAreBlocks`). For collisions the term is read backwards: one
lane of a state names the block it came from (`SameLane`), and under either rule
a block carries a lane of the state before it (`SameChain`), so two equal
digests took equally many blocks, all overlaid alike (`SharedLaneAlike`). Over
one state a rate lane is overlaid alike exactly if the padded inputs agree there
and, past the first block, the same lanes are masked (`SameOverlay`), because a
lane of a permuted state is no element. That this is what fails in the first
block, and only there, is why `SamePadded` counts blocks.

`DigestCallProofs` proves, for every block size, reserve and bound that satisfy
`CallAssumption` and `WidthAssumption`, and any number of calls:

- `DigestsHashLivePrefix`: `Spec => []HashesLivePrefix`;
- `DigestsAreApart`: `Spec => []HashesApart`;
- `WidthsFollowPolicy`: `Spec => []WidthPolicy`;
- `TypesHold`: `Spec => []TypeOK`.

`WidthAssumption` is what the code's own types and constants say: a block is a
power of two bytes, and lengths and widths are int32. Without it the traced
length field would wrap where the host's does not.

The argument. `HashesLivePrefix` says nothing until a call returns and nothing
of the traces. `IInv` does: a call in progress is the walk of a request, which
has folded the standard's blocks of that request so far and its key is traced,
and every trace is the trace of some request under that key. The danger is a
trace made by another request, and `TraceFits` settles it: what a key does not
hold (the live length, the caller's initial state) is what the zone takes as an
operand, and what the trace fixes (the number of blocks walked and, for BLAKE2,
the length) the key determines. `LiveBlock` and `RegionBytes` then show that the
block computed on the device from the live length is the host rule's block, byte
for byte, in each family's rule, and `LiveCounter` the same of BLAKE2's counter.
Blocks past the live count are computed and not folded. `HashesApart` needs the
converse, that equal digests come from one message: blocks are injective in a
message of known length (`Standard`), and the length is read from the last
counter in BLAKE2 and from the place of the final mark elsewhere
(`LengthsApart`). The widths rest on `BitLengthIsLeast`: the power of two that
`at_capacity` rounds to is the least, so two lengths get two widths only if a
power of two lies between them.

`Blake3StreamProofs` proves, for every block, chunk and word size and every
stack, and every cut of a message the stack can hold:

- `InductiveInvariant`: `Spec => []IInv`;
- `StreamResumes`: `Spec => []PositionResumable`;
- `StackCounts`: `Spec => []StackIsBinary`;
- `LevelsBuildTheTree`: `Spec => []LevelsAreTheTree`;
- `StreamKeepsPromise`: `Spec => ImplementsPromise`, the refinement;
- `TypesHold`: `Spec => []TypeOK`.

The assumptions are those the code's sizes satisfy: the stack has at most as
many levels as the counter pair has bits, and a message is at most 2^MaxStack
chunks. With 54 levels of 1024 bytes that is 2^64 bytes, which is what BLAKE3
allows; the comment at `streaming.py:107` says 2^64 chunks and means this.

The argument. `IInv` says that the state stands where one pass over the bytes
absorbed would, with the last block held back. If c chunks are behind it, the
counter is the halves of c, the running value is one pass's over the blocks of
chunk c, and bit b of c, when set, owns a stack entry: the subtree of the 2^b
chunks from `Cut(c, b + 1)`, which is c with its lower bits cleared, at the
height `High(c, b + 1)`, the number of set bits above b. Neither `StackIsBinary`
nor `PositionResumable` is inductive alone, since a push reads the entries, the
running value and the counter together. What makes a push right is that adding
one clears the lowest run of set bits and sets the next one (`CarryExists`): the
merges that `_push_chunk_cv` counts are the length of that run (`MergesOf`), and
merging them joins equal neighbours upwards (`MergedSubtree`, from
`SubtreeJoins`). So a push keeps the stack (`PushKeeps`), a block keeps the
place (`BlockStep`), and the loop of an absorb, whose blocks are read out of a
clamped buffer at a run-time offset, is that many blocks (`WorkBlocks`,
`AfterBlocksStand`). The names of bytes depend on the length of the message only
where it ends, so all of this survives its growing (`SamePlace`, `SameStack`).
At the end, folding the entries from the top of the stack down to the first is
the recursion that splits off the largest power of two (`FoldedSubtree`,
`RootIs`). The one-shot tree goes the other way round, bottom up: level k is the
row of tiles of 2^k chunks with a shorter one at the end (`LevelsAre`), and two
tiles are the two halves of the specification's root (`LevelsMakeTree`). Both
ways being the specification's tree, they are each other, which is the
refinement (`StepRefines`).

`AdapterProofs` proves, for every set of requests, every hash, block size and
batch, and every width of a counter, within `HashAssumption`,
`ProfileAssumption` and `RequestAssumption`:

- `AnswersAreStandard`: `Spec => ImplementsStandard`, the refinement;
- `OutputsNeverRepeat`: `Spec => []NeverRepeats`;
- `AdapterTypesHold`: `Spec => []TypeOK`.

The assumptions are the code's tables and types: a profile's compress takes the
block its hash is registered with, which has room for a digest, the mark and the
length (both profiles are SHA-2's). Of the other registered blocks nothing is
assumed, as SHAKE's are rates and its digests are as long as asked: that one
may be too small for its hash's digest is a refusal like the others. A request is any
record of its type, so the hashes without a block, the batches that do not
broadcast, the widths too small, given or registered, and the counts and lengths
past every limit are all covered.

The argument for the refinement. `Inv` says where each loop stands: after i - 1
turns HKDF's rows hold that many blocks of the formula and T(i-1)
(`Expanding`), PBKDF2's hold that many derived blocks (`Deriving`), and inside a
block the link and the sum of the chain so far (`Iterating`). It needs to say
one thing more, which no answer shows, that the hoisted keys are the two padded
keys, or their midstates (`Hoisted`), and under which condition they are
midstates. `ChainTurn` then makes a turn of `body` a MAC: absorbing a block and
resuming is absorbing the whole (`Resumes`), and the tail that the code writes
once, ahead of the loop, is the one the whole message has, because every link is
a digest wide and the profile's block is the MAC's (`ResumedIs`). For MGF1 the
place of a block in the batched call is its row and its counter (`RowMajor`,
`MgfRow`). Refusals agree although the code looks at its operands in an order of
its own (`MacAgrees` and its siblings), and its check of the width, made where
`Hmac` is built, is FIPS 198-1's limits on a hash and its block (`RefusalIs`).

The argument for repeats is about the formulas, and it reads terms backwards. A
digest's byte names the padded message. Padding can be taken off again, since
the only mark after a message without marks is its own (`PaddingEnds`), so two
MACs under one key that share a byte are of one message (`MacNames`). A counter
below `ValuesOf[Octets]` is its octets (`DigitsName`), which separates MGF1's
blocks and HKDF's, whose messages end in it. PBKDF2 is the interesting one, as
its output is an XOR. An XOR of bytes that all differ is their set (`SumsAre`),
so it has to be shown that they do: a chain's first message ends in a counter
and every later one is a MAC (`FirstIsNoMac`), so following two chains back from
a shared byte ends at one counter and one place (`ChainsDiffer`). Hence no
column cancels, and two columns share no byte unless they are one
(`PbkdfBlocksDiffer`). `JoinedInjective` then puts the blocks side by side and
cuts them.

Three things about form. Induction is stated of a set of naturals (`Induction`,
`StrongInduction`), which the provers can instantiate where an operator
parameter they cannot. A recursive function is known only once one is shown to
exist, which `RecursionExists` does for a step over the naturals, and
`RecursionUnique` then says there is no other; `UnboundedIteration` and
`IterationSettles` do the same for the loops. And a power `2^k` means nothing to
the provers, so a module that is proved about takes it from a function
(`Binary`) or assumes what it needs of one (`Powers`).

Every property of the passing runs is a theorem. Only model-checked are the two
runs that find a comment and the code apart. Nothing is said about liveness,
which the provers do not handle and this code does not pose.

## Findings

Two places where a comment and the code disagree, each shown by a run. Neither
changes a digest.

- `fusion.py:113` forbids asking the routing at import;
  `keccak/streaming.py:69` builds a permutation at import (`routing_stream`).
- `keccak/byte_hashes.py:123` says a row's path cannot disagree with the routing
  its hash takes; the one is fixed at construction, the other per call
  (`routing_row`).

Two more are plain from the text and have no run. `keccak/streaming.py:43` says a
32-byte squeeze permutes twice, and line 242 makes it once: two blocks are
emitted, one permutation apart. Five rows' docstrings (`blake2b.py:534` and the
like) say `fusion_path` reads `GENERIC` on every backend, and the flags above
them make it `DEDICATED` on two.

Two observations that are not findings, since nothing says otherwise. An empty
squeeze of a drained duplex block permutes (`duplex_sponge.py:273`), so the
number of empty squeezes is visible in later output: `CallsCompose` excepts it by
the history variable `idle`, and an empty absorb, which returns early, needs no
exception. Past 4 GiB a SHA-256 stream's length field is the length modulo 2^32,
as `sha256_stream_finalize` documents: `WithWrappedLength` states it, and the
refinement shows nothing else differs there.

What two keyed or unkeyed hashes share is stated where it is by design: a BLAKE2
salt is a zero-filled field, an XOF's bytes do not bind the length read, cSHAKE
of two empty strings is SHAKE (`Canonical`); HMAC keys up to a block are
zero-filled and longer ones hashed; and a BLAKE3 chaining value without ROOT is
the parent of its two subtrees, which is what the Merkle entry points are for.

## Plan

1. Done: the streams, the digest calls, the tree, the duplex, the field sponge,
   the rows with their encodings, the adapters, the word arithmetic and the
   routing, with the proofs above.
2. Larger pieces that would compose: the streams under the rows (a KMAC over
   `ShakeStream`), and PBKDF2 over `DigestCall`'s traces.

## Not modelled

- Round functions and compressions of every family: straight-line arithmetic on
  fixed-width words or field elements, pinned by known-answer tests, with no
  state a step could leave wrong. They are free terms throughout, which is also
  why their components are "partly" modelled.
- Tables of constants (`poseidon/params.py`, `poseidon2/standard.py`,
  `vision/params.py`, `keccak/params.py`) and the registry in `markers.py`.
- In `word.py`, XOR, `roll` and the single-word rotations: they treat the halves
  alike and apart.
- `compression.py`'s `compress`: one permutation of the zero-filled inputs, with
  no loop and no branch; any property of it would restate it.
- `scanned_absorb` in `extension/sponge.py`: the fold of `absorb_squeeze` as a
  scan, which no code in the repository calls; the choice between a scanned and
  an unrolled chain changes the graph and not the value.
- Refusals of a wrong rank or element type: every operand of a model is a batch
  of bytes. Refusals of a length, width, key or count are actions.
- `_composite.py`, whose region is an element of `Routing`; `adapter/xof.py`, a
  protocol; test support. What XLA does with a marker is outside the repository.
