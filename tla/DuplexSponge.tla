---------------------------- MODULE DuplexSponge ----------------------------
(***************************************************************************)
(* duplex_sponge.py: the add-absorb duplex, under each of the conventions  *)
(* of adapter/duplex.py.  Calls to absorb and squeeze come in any order    *)
(* and size; the sponge permutes when a block spills or the direction      *)
(* turns, and the conventions disagree on when exactly.                    *)
(*                                                                         *)
(* Every absorbed element is distinct, so what a lane holds is named by    *)
(* the set of elements added to it since the last permutation, over the    *)
(* whole history of states before it.                                      *)
(***************************************************************************)
EXTENDS FieldLanes, Sequences, SequencesExt

CONSTANTS
  Rate,          \* lanes of a block
  Conventions,   \* DuplexConvention records a sponge may be built with
  MaxAbsorbed,   \* elements absorbed in all, a bound of the model
  MaxSqueezed,   \* elements squeezed in all, a bound of the model
  MaxAbsorbs     \* runs of absorbs, a bound of the model

(* DuplexSponge.__init__ *)
ASSUME DuplexAssumption ==
  /\ Rate \in Nat \ {0} /\ Width \in Nat /\ Rate < Width
  /\ Conventions \subseteq
       [rate_lanes     : {"LEADING", "TRAILING"},
        spill_permute  : {"ALWAYS", "SKIP_WHEN_REQUEST_EQUALS_RATE"},
        switch_permute : {"BOTH_DIRECTIONS", "ABSORB_TO_SQUEEZE_ONLY"}]
  /\ MaxAbsorbed \in Nat /\ MaxSqueezed \in Nat /\ MaxAbsorbs \in Nat

VARIABLES
  convention,  \* fixed for the life of the sponge
  sponge,      \* the sponge: [past, added, mode, pos], and what it was given
               \* and gave: [absorbed, emitted, skips]
  script,      \* history: the calls made, joined into runs of one direction
  idle         \* history: an empty squeeze found its block drained

vars == <<convention, sponge, script, idle>>

(* As RateBase, with the axis ignored.                                     *)
RateBaseLeading == 0

(* _rate_base: where lane 0 of the rate sits in the state.                 *)
RateBase == IF convention.rate_lanes = "LEADING" THEN 0 ELSE Width - Rate

NothingAdded == [lane \in Lanes |-> {}]

Permute(s) == [s EXCEPT !.past = Append(@, s.added), !.added = NothingAdded]

(* The next n elements of the input, added from rate lane `pos` on.        *)
AddElements(s, n) ==
  [s EXCEPT
     !.added = [lane \in Lanes |->
                  LET i == lane - RateBase - s.pos
                  IN  IF i \in 0 .. n - 1 THEN @[lane] \cup {s.absorbed + i} ELSE @[lane]],
     !.absorbed = @ + n,
     !.pos = @ + n]

(* The n rate lanes from `pos` on, as they are now.                        *)
ReadLanes(s, n) ==
  [s EXCEPT
     !.emitted = @ \o [i \in 1 .. n |->
                         LET lane == RateBase + s.pos + i - 1
                         IN  [past |-> s.past, lane |-> lane, added |-> s.added[lane]]],
     !.pos = @ + n]

NoRewind(s) == s   \* as Rewind, the position kept

Rewind(s) == [s EXCEPT !.pos = 0]

----------------------------------------------------------------------------
(* _absorb_into_rate: while the input outruns the block, fill it, permute  *)
(* and go on; an exactly filled block is left as it is.                    *)
AbsorbIntoRate(s, n) ==
  LET fill[k \in 0 .. n] ==
        IF k = 0 THEN [sponge |-> s, left |-> n]
        ELSE LET f    == fill[k - 1]
                 take == Rate - f.sponge.pos
             IN  IF f.left <= take THEN f
                 ELSE [sponge |-> Rewind(Permute(AddElements(f.sponge, take))),
                       left |-> f.left - take]
  IN  AddElements(fill[n].sponge, fill[n].left)

(* As SwitchToAbsorb, never permuting.                                     *)
SwitchWithoutPermute(s) == IF s.mode = "squeezing" THEN Rewind(s) ELSE s

RewindOnEveryAbsorb(s) ==     \* as SwitchToAbsorb, losing the position
  IF s.mode = "squeezing" THEN Rewind(Permute(s)) ELSE Rewind(s)

SwitchToAbsorb(s) ==
  IF s.mode # "squeezing" THEN s
  ELSE IF convention.switch_permute = "BOTH_DIRECTIONS" THEN Rewind(Permute(s))
  ELSE Rewind(s)

AbsorbInto(s, n) ==
  IF n = 0 THEN s
  ELSE [AbsorbIntoRate(SwitchToAbsorb(s), n) EXCEPT !.mode = "absorbing"]

(* As Skips, tested after the output slice has advanced.                   *)
SkipsOnRest(pos, n) ==
  /\ convention.spill_permute = "SKIP_WHEN_REQUEST_EQUALS_RATE"
  /\ n - (Rate - pos) = Rate

(* ark-sponge 0.3 compares the request still outstanding with the rate.    *)
Skips(pos, n) ==
  /\ convention.spill_permute = "SKIP_WHEN_REQUEST_EQUALS_RATE"
  /\ n = Rate

(* _squeeze_from_rate *)
SqueezeFromRate(s, n) ==
  LET drain[k \in 0 .. n] ==
        IF k = 0 THEN [sponge |-> s, left |-> n]
        ELSE LET d     == drain[k - 1]
                 take  == Rate - d.sponge.pos
                 block == ReadLanes(d.sponge, take)
             IN  IF d.left <= take THEN d
                 ELSE [sponge |->
                         IF Skips(d.sponge.pos, d.left)
                           THEN Rewind([block EXCEPT !.skips = @ \cup {d.sponge.pos}])
                           ELSE Rewind(Permute(block)),
                       left |-> d.left - take]
  IN  ReadLanes(drain[n].sponge, drain[n].left)

(* As SwitchToSqueeze, permuting only a block that is full or drained.     *)
SwitchWhenDrained(s) == IF s.pos = Rate THEN Rewind(Permute(s)) ELSE s

(* A turn permutes; so does a block found drained.                         *)
SwitchToSqueeze(s) ==
  IF s.mode = "absorbing" \/ s.pos = Rate THEN Rewind(Permute(s)) ELSE s

SqueezeOut(s, n) ==
  [SqueezeFromRate(SwitchToSqueeze(s), n) EXCEPT !.mode = "squeezing"]

----------------------------------------------------------------------------
Fresh ==
  [past |-> <<>>, added |-> NothingAdded, mode |-> "absorbing", pos |-> 0,
   absorbed |-> 0, emitted |-> <<>>, skips |-> {}]

Init ==
  /\ convention \in Conventions
  /\ sponge = Fresh
  /\ script = <<>>
  /\ idle = FALSE

(* The script with one more call, joined to the run it continues.          *)
Extended(direction, n) ==
  IF script # <<>> /\ Last(script).direction = direction
    THEN [script EXCEPT ![Len(script)].n = @ + n]
    ELSE Append(script, [direction |-> direction, n |-> n])

AbsorbRuns(runs) == Len(SelectSeq(runs, LAMBDA run : run.direction = "absorb"))

Absorb(n) ==
  /\ sponge.absorbed + n <= MaxAbsorbed
  /\ AbsorbRuns(Extended("absorb", n)) <= MaxAbsorbs
  /\ sponge' = AbsorbInto(sponge, n)
  /\ script' = IF n = 0 THEN script ELSE Extended("absorb", n)
  /\ UNCHANGED <<convention, idle>>

Squeeze(n) ==
  /\ Len(sponge.emitted) + n <= MaxSqueezed
  /\ sponge' = SqueezeOut(sponge, n)
  /\ script' = Extended("squeeze", n)
  /\ idle' = (idle \/ (n = 0 /\ sponge.mode = "squeezing" /\ sponge.pos = Rate))
  /\ UNCHANGED convention

Next ==
  \/ \E n \in 0 .. MaxAbsorbed : Absorb(n)
  \/ \E n \in 0 .. MaxSqueezed : Squeeze(n)

Spec == Init /\ [][Next]_vars

----------------------------------------------------------------------------
RateLanes ==
  IF convention.rate_lanes = "LEADING" THEN 0 .. Rate - 1 ELSE Width - Rate .. Width - 1

(* The position is inside the block or just past it.                       *)
TypeOK ==
  /\ convention \in Conventions
  /\ sponge.mode \in {"absorbing", "squeezing"}
  /\ sponge.pos \in 0 .. Rate
  /\ sponge.added \in [Lanes -> SUBSET (0 .. MaxAbsorbed - 1)]
  /\ sponge.absorbed \in 0 .. MaxAbsorbed
  /\ Len(sponge.emitted) <= MaxSqueezed
  /\ idle \in BOOLEAN

(* The sponge that one call per run leaves.                                *)
OneCall(s, run) ==
  IF run.direction = "absorb" THEN AbsorbInto(s, run.n) ELSE SqueezeOut(s, run.n)

Replayed ==
  LET after[k \in 0 .. Len(script)] ==
        IF k = 0 THEN Fresh ELSE OneCall(after[k - 1], script[k])
  IN  after[Len(script)]

(* Only the order of the elements and the turns matter, never how a run    *)
(* was cut into calls: the sponge, and everything it gave out, is what one *)
(* call per run leaves.  Two things are excepted: 0.3's spill skip, and an *)
(* empty squeeze of a drained block, which permutes.                       *)
CallsCompose ==
  convention.spill_permute = "ALWAYS" /\ ~idle => sponge = Replayed

(* No lane of any state is given out twice, except by 0.3's skip, which    *)
(* re-emits lanes; and that is "only reachable with a non-zero rate        *)
(* offset".                                                                *)
NoLaneTwice ==
  /\ 0 \notin sponge.skips
  /\ convention.spill_permute = "ALWAYS" => sponge.skips = {}
  /\ sponge.skips = {} => IsInjective(sponge.emitted)

(* What is read has always been through the permutation, whatever was      *)
(* absorbed before it: "reading the rate without first mixing what was     *)
(* just absorbed would return the absorbed data itself".                   *)
MixedBeforeRead ==
  \A i \in DOMAIN sponge.emitted :
    /\ sponge.emitted[i].added = {}
    /\ sponge.emitted[i].past # <<>>

(* The capacity is never written and never read.                           *)
CapacityUntouched ==
  /\ \A lane \in Lanes \ RateLanes :
       /\ sponge.added[lane] = {}
       /\ \A i \in DOMAIN sponge.past : sponge.past[i][lane] = {}
  /\ \A i \in DOMAIN sponge.emitted : sponge.emitted[i].lane \in RateLanes

(* Where both turns permute, nothing is added to a state that has already  *)
(* given lanes out; ABSORB_TO_SQUEEZE_ONLY gives exactly this up.          *)
NeverOntoPublished ==
  convention.switch_permute = "BOTH_DIRECTIONS" /\ sponge.mode = "absorbing" =>
    \A i \in DOMAIN sponge.emitted : sponge.emitted[i].past # sponge.past
=============================================================================
