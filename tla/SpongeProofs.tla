---------------------------- MODULE SpongeProofs ----------------------------
(***************************************************************************)
(* What TLC checks of the two sponges over field lanes, DuplexSponge and   *)
(* FieldSponge, on one small instance: for every width, rate, convention   *)
(* and shape, every sequence of calls and every input.                     *)
(*                                                                         *)
(* DuplexSponge comes first.  A call is a loop over blocks.  Each loop is  *)
(* given the law it obeys -- stop in this block, or spill and go on with   *)
(* what is left -- and everything else is proved from the law.             *)
(*                                                                         *)
(* FieldSponge's states are the free term of the blocks absorbed.  Either  *)
(* construction is shown to reach them, and since one lane of a state      *)
(* names everything absorbed before it, equal digests are read back block  *)
(* by block to the inputs they were made from.                             *)
(***************************************************************************)
EXTENDS DuplexSponge, FieldSponge, Arithmetic, FiniteSetTheorems

----------------------------------------------------------------------------
(* Sponges, with anything a call may be handed.                            *)

BlockValues  == [Lanes -> SUBSET Nat]
Outputs == [past : Seq(BlockValues), lane : Int, added : SUBSET Nat]

Sponges ==
  [past : Seq(BlockValues), added : BlockValues, mode : {"absorbing", "squeezing"},
   pos : 0 .. Rate, absorbed : Nat, emitted : Seq(Outputs),
   skips : SUBSET (0 .. Rate)]

(* What the assumption on the constants says of each of them.              *)
LEMMA Constants ==
  /\ Rate \in Nat \ {0} /\ Width \in Nat /\ Rate < Width
  /\ MaxAbsorbed \in Nat /\ MaxSqueezed \in Nat /\ MaxAbsorbs \in Nat
BY DuplexAssumption

(* The first rate lane is a number, whichever end the rate is at.          *)
LEMMA RateBaseInt == RateBase \in Int
BY Constants DEF RateBase

(* A sponge is determined by its fields.                                   *)
LEMMA SameSponge ==
  ASSUME NEW s \in Sponges, NEW t \in Sponges,
         s.past = t.past, s.added = t.added, s.mode = t.mode, s.pos = t.pos,
         s.absorbed = t.absorbed, s.emitted = t.emitted, s.skips = t.skips
  PROVE  s = t
BY DEF Sponges

(* What each of the elementary steps does to each field.                   *)
LEMMA PermuteFields ==
  ASSUME NEW s \in Sponges
  PROVE  /\ Permute(s) \in Sponges
         /\ Permute(s).past = Append(s.past, s.added)
         /\ Permute(s).added = NothingAdded
         /\ Permute(s).mode = s.mode /\ Permute(s).pos = s.pos
         /\ Permute(s).absorbed = s.absorbed /\ Permute(s).emitted = s.emitted
         /\ Permute(s).skips = s.skips
<1>1. NothingAdded \in BlockValues
  BY DEF NothingAdded, BlockValues
<1>2. Append(s.past, s.added) \in Seq(BlockValues)
  BY DEF Sponges
<1>. QED
  BY <1>1, <1>2 DEF Sponges, Permute

(* Going back to the start of the block.                                   *)
LEMMA RewindFields ==
  ASSUME NEW s \in Sponges
  PROVE  /\ Rewind(s) \in Sponges
         /\ Rewind(s).past = s.past /\ Rewind(s).added = s.added
         /\ Rewind(s).mode = s.mode /\ Rewind(s).pos = 0
         /\ Rewind(s).absorbed = s.absorbed /\ Rewind(s).emitted = s.emitted
         /\ Rewind(s).skips = s.skips
<1>1. 0 \in 0 .. Rate
  BY Constants
<1>. QED
  BY <1>1 DEF Sponges, Rewind

(* The elements that adding n of them puts in a lane.                      *)
AddedTo(s, n, lane) ==
  IF lane - RateBase - s.pos \in 0 .. n - 1
    THEN s.added[lane] \cup {s.absorbed + (lane - RateBase - s.pos)}
    ELSE s.added[lane]

(* Adding elements without leaving the block.                              *)
LEMMA AddFields ==
  ASSUME NEW s \in Sponges, NEW n \in 0 .. Rate - s.pos
  PROVE  /\ AddElements(s, n) \in Sponges
         /\ AddElements(s, n).past = s.past
         /\ AddElements(s, n).added = [lane \in Lanes |-> AddedTo(s, n, lane)]
         /\ AddElements(s, n).mode = s.mode /\ AddElements(s, n).pos = s.pos + n
         /\ AddElements(s, n).absorbed = s.absorbed + n
         /\ AddElements(s, n).emitted = s.emitted
         /\ AddElements(s, n).skips = s.skips
<1>. DEFINE new == [lane \in Lanes |-> AddedTo(s, n, lane)]
<1>1. /\ s.pos \in 0 .. Rate /\ s.absorbed \in Nat /\ n \in Nat
      /\ s.added \in BlockValues
      /\ s.pos + n \in 0 .. Rate /\ s.absorbed + n \in Nat
  BY Constants DEF Sponges
<1>2. new \in BlockValues
  <2>1. ASSUME NEW lane \in Lanes
        PROVE  AddedTo(s, n, lane) \in SUBSET Nat
    <3>1. s.added[lane] \in SUBSET Nat
      BY <1>1 DEF BlockValues
    <3>2. lane - RateBase - s.pos \in 0 .. n - 1 =>
            s.absorbed + (lane - RateBase - s.pos) \in Nat
      BY <1>1
    <3>. QED
      BY <3>1, <3>2 DEF AddedTo
  <2>. QED
    BY <2>1 DEF BlockValues
<1>3. AddElements(s, n) = [s EXCEPT !.added = new, !.absorbed = s.absorbed + n,
                                    !.pos = s.pos + n]
  BY DEF AddElements, AddedTo
<1>. HIDE DEF new
<1>4. /\ AddElements(s, n) \in Sponges
      /\ AddElements(s, n).past = s.past
      /\ AddElements(s, n).added = new
      /\ AddElements(s, n).mode = s.mode /\ AddElements(s, n).pos = s.pos + n
      /\ AddElements(s, n).absorbed = s.absorbed + n
      /\ AddElements(s, n).emitted = s.emitted
      /\ AddElements(s, n).skips = s.skips
  BY <1>1, <1>2, <1>3 DEF Sponges
<1>. QED
  BY <1>4 DEF new

(* What reading n lanes gives out.                                         *)
OutputAt(s, i) ==
  [past |-> s.past, lane |-> RateBase + s.pos + i - 1,
   added |-> s.added[RateBase + s.pos + i - 1]]

ReadOut(s, n) == [i \in 1 .. n |-> OutputAt(s, i)]

(* The rate prefix lies in the state, at whichever end it is.              *)
LEMMA RateIsLanes ==
  ASSUME NEW k \in 0 .. Rate - 1
  PROVE  RateBase + k \in Lanes /\ RateBase + k \in RateLanes
BY Constants DEF RateBase, Lanes, RateLanes

(* Reading lanes without leaving the block.                                *)
LEMMA ReadFields ==
  ASSUME NEW s \in Sponges, NEW n \in 0 .. Rate - s.pos
  PROVE  /\ ReadLanes(s, n) \in Sponges
         /\ ReadOut(s, n) \in Seq(Outputs) /\ Len(ReadOut(s, n)) = n
         /\ ReadLanes(s, n).past = s.past /\ ReadLanes(s, n).added = s.added
         /\ ReadLanes(s, n).mode = s.mode /\ ReadLanes(s, n).pos = s.pos + n
         /\ ReadLanes(s, n).absorbed = s.absorbed
         /\ ReadLanes(s, n).emitted = s.emitted \o ReadOut(s, n)
         /\ ReadLanes(s, n).skips = s.skips
<1>1. /\ s.pos \in 0 .. Rate /\ n \in Nat
      /\ s.added \in BlockValues /\ s.past \in Seq(BlockValues) /\ s.emitted \in Seq(Outputs)
      /\ s.pos + n \in 0 .. Rate
  BY Constants DEF Sponges
<1>2. ReadOut(s, n) \in [1 .. n -> Outputs]
  <2>1. ASSUME NEW i \in 1 .. n
        PROVE  OutputAt(s, i) \in Outputs
    <3>1. /\ s.pos + i - 1 \in 0 .. Rate - 1
          /\ RateBase + (s.pos + i - 1) = RateBase + s.pos + i - 1
      BY <1>1, Constants, RateBaseInt
    <3>2. RateBase + s.pos + i - 1 \in Lanes
      BY <3>1, RateIsLanes
    <3>3. s.added[RateBase + s.pos + i - 1] \in SUBSET Nat
      BY <1>1, <3>2 DEF BlockValues
    <3>4. RateBase + s.pos + i - 1 \in Int
      BY <1>1, RateBaseInt
    <3>. QED
      BY <1>1, <3>3, <3>4 DEF OutputAt, Outputs
  <2>. QED
    BY <2>1 DEF ReadOut
<1>3. ReadOut(s, n) \in Seq(Outputs) /\ Len(ReadOut(s, n)) = n
  BY <1>1, <1>2
<1>4. ReadLanes(s, n) = [s EXCEPT !.emitted = s.emitted \o ReadOut(s, n),
                                  !.pos = s.pos + n]
  BY DEF ReadLanes, ReadOut, OutputAt
<1>5. s.emitted \o ReadOut(s, n) \in Seq(Outputs)
  BY <1>1, <1>3
<1>. QED
  BY <1>1, <1>3, <1>4, <1>5 DEF Sponges

----------------------------------------------------------------------------
(* The loops.  A step of either takes the rest of the block and starts a   *)
(* new one, until what is left fits.                                       *)

Loops == [sponge : Sponges, left : Nat]

(* Such a loop has settled after as many steps as there is left to do: the *)
(* first may take nothing, and each one after it takes a whole block.      *)
LEMMA LoopSettles ==
  ASSUME NEW F, NEW n \in Nat, NEW f \in [0 .. n -> Loops],
         f[0].left = n,
         Steps(f, n, F),
         \A x \in Loops : x.left <= Rate - x.sponge.pos => F[x] = x,
         \A x \in Loops : x.left > Rate - x.sponge.pos =>
                            /\ F[x].left = x.left - (Rate - x.sponge.pos)
                            /\ F[x].sponge.pos = 0
  PROVE  f[n].left <= Rate - f[n].sponge.pos
<1>. DEFINE Settled(x) == x.left <= Rate - x.sponge.pos
            T == {k \in Nat : k <= n => \/ Settled(f[k])
                                        \/ /\ f[k].left <= n - k + 1
                                           /\ k = 0 \/ f[k].sponge.pos = 0}
<1>0. \A k \in 0 .. n : /\ f[k] \in Loops /\ f[k].left \in Nat
                        /\ f[k].sponge.pos \in 0 .. Rate
  BY DEF Loops, Sponges
<1>1. 0 \in T
  BY <1>0
<1>2. ASSUME NEW k \in T
      PROVE  k + 1 \in T
  <2>. SUFFICES ASSUME k + 1 <= n
                PROVE  \/ Settled(f[k + 1])
                       \/ f[k + 1].left <= n - k /\ f[k + 1].sponge.pos = 0
    OBVIOUS
  <2>1. /\ k \in Nat /\ k + 1 \in 1 .. n /\ k \in 0 .. n /\ (k + 1) - 1 = k
        /\ f[k + 1] = F[f[k]]
    BY DEF Steps
  <2>2. CASE Settled(f[k])
    BY <1>0, <2>1, <2>2
  <2>3. CASE ~Settled(f[k])
    <3>. DEFINE x == f[k]
    <3>1. /\ x \in Loops /\ x.left \in Nat /\ x.sponge.pos \in 0 .. Rate
          /\ x.left > Rate - x.sponge.pos
          /\ x.left <= n - k + 1 /\ (k = 0 \/ x.sponge.pos = 0)
          /\ k = 0 => x.left = n
      BY <1>0, <2>1, <2>3, Constants
    <3>2. F[x].left = x.left - (Rate - x.sponge.pos) /\ F[x].sponge.pos = 0
      BY <3>1
    <3>3. F[x].left <= n - k
      BY <2>1, <3>1, <3>2, Constants
    <3>. QED
      BY <2>1, <3>2, <3>3
  <2>. QED
    BY <2>2, <2>3
<1>3. T = Nat
  <2>1. T \in SUBSET Nat
    OBVIOUS
  <2>. HIDE DEF T
  <2>. QED
    BY <1>1, <1>2, <2>1, Induction
<1>4. Settled(f[n]) \/ (f[n].left <= 1 /\ (n = 0 \/ f[n].sponge.pos = 0))
  BY <1>3
<1>. QED
  BY <1>0, <1>4, Constants

(* What holds of a sponge and an amount that fits in its block, and of one *)
(* that does not when it holds of any sponge at the start of a block and   *)
(* what is then left, holds of all.                                        *)
LEMMA BlockInduction ==
  ASSUME NEW P,
         \A s \in Sponges, n \in Nat : n <= Rate - s.pos => <<s, n>> \in P,
         \A s \in Sponges, n \in Nat :
           /\ n > Rate - s.pos
           /\ \A t \in Sponges : t.pos = 0 => <<t, n - (Rate - s.pos)>> \in P
           => <<s, n>> \in P
  PROVE  \A s \in Sponges, n \in Nat : <<s, n>> \in P
<1>. DEFINE More(s) == IF s.pos = Rate THEN 1 ELSE 0
            T == {m \in Nat : \A s \in Sponges, n \in Nat :
                                n + More(s) = m => <<s, n>> \in P}
<1>0. \A s \in Sponges : s.pos \in 0 .. Rate /\ More(s) \in {0, 1}
  BY DEF Sponges
<1>1. ASSUME NEW m \in Nat, \A l \in 0 .. m - 1 : l \in T
      PROVE  m \in T
  <2>. SUFFICES ASSUME NEW s \in Sponges, NEW n \in Nat, n + More(s) = m,
                       n > Rate - s.pos
                PROVE  <<s, n>> \in P
    BY <1>0, Constants
  <2>. DEFINE l == n - (Rate - s.pos)
  <2>1. l \in Nat /\ l \in 0 .. m - 1
    BY <1>0, Constants
  <2>2. ASSUME NEW t \in Sponges, t.pos = 0
        PROVE  <<t, l>> \in P
    <3>1. More(t) = 0 /\ l + 0 = l
      BY <2>1, <2>2, Constants
    <3>2. l \in T
      BY <1>1, <2>1
    <3>. QED
      BY <2>1, <3>1, <3>2
  <2>. QED
    BY <2>2
<1>2. T = Nat
  <2>1. T \in SUBSET Nat
    OBVIOUS
  <2>. HIDE DEF T
  <2>. QED
    BY <1>1, <2>1, StrongInduction
<1>3. ASSUME NEW s \in Sponges, NEW n \in Nat
      PROVE  <<s, n>> \in P
  <2>1. n + More(s) \in Nat
    BY <1>0
  <2>. QED
    BY <1>2, <2>1
<1>. QED
  BY <1>3

----------------------------------------------------------------------------
(* The law of _absorb_into_rate.                                           *)

Spill(s) == Rewind(Permute(AddElements(s, Rate - s.pos)))

Fill ==
  [x \in Loops |->
     IF x.left <= Rate - x.sponge.pos THEN x
     ELSE [sponge |-> Spill(x.sponge), left |-> x.left - (Rate - x.sponge.pos)]]

(* A spilled sponge is at the start of a fresh block.                      *)
LEMMA SpillFields ==
  ASSUME NEW s \in Sponges
  PROVE  /\ Spill(s) \in Sponges
         /\ Spill(s).past = Append(s.past, AddElements(s, Rate - s.pos).added)
         /\ Spill(s).added = NothingAdded
         /\ Spill(s).mode = s.mode /\ Spill(s).pos = 0
         /\ Spill(s).absorbed = s.absorbed + (Rate - s.pos)
         /\ Spill(s).emitted = s.emitted /\ Spill(s).skips = s.skips
<1>1. Rate - s.pos \in 0 .. Rate - s.pos
  BY Constants DEF Sponges
<1>. DEFINE t == AddElements(s, Rate - s.pos)
<1>2. /\ t \in Sponges /\ t.past = s.past /\ t.mode = s.mode
      /\ t.absorbed = s.absorbed + (Rate - s.pos)
      /\ t.emitted = s.emitted /\ t.skips = s.skips
  BY <1>1, AddFields
<1>3. Spill(s) = Rewind(Permute(t))
  BY DEF Spill
<1>. HIDE DEF t
<1>4. Spill(s).past = Append(s.past, t.added)
  BY <1>2, <1>3, PermuteFields, RewindFields
<1>5. /\ Spill(s) \in Sponges
      /\ Spill(s).added = NothingAdded
      /\ Spill(s).mode = s.mode /\ Spill(s).pos = 0
      /\ Spill(s).absorbed = s.absorbed + (Rate - s.pos)
      /\ Spill(s).emitted = s.emitted /\ Spill(s).skips = s.skips
  BY <1>2, <1>3, PermuteFields, RewindFields
<1>. QED
  BY <1>4, <1>5 DEF t

(* One step of the loop.                                                   *)
LEMMA FillStep ==
  /\ Fill \in [Loops -> Loops]
  /\ \A x \in Loops : x.left <= Rate - x.sponge.pos => Fill[x] = x
  /\ \A x \in Loops :
       x.left > Rate - x.sponge.pos =>
         /\ Fill[x] = [sponge |-> Spill(x.sponge), left |-> x.left - (Rate - x.sponge.pos)]
         /\ Fill[x].left = x.left - (Rate - x.sponge.pos)
         /\ Fill[x].sponge.pos = 0
<1>1. ASSUME NEW x \in Loops
      PROVE  /\ x.sponge \in Sponges /\ x.left \in Nat /\ x.sponge.pos \in 0 .. Rate
             /\ x.left <= Rate - x.sponge.pos \/ x.left > Rate - x.sponge.pos
  BY Constants DEF Loops, Sponges
<1>2. ASSUME NEW x \in Loops, x.left > Rate - x.sponge.pos
      PROVE  [sponge |-> Spill(x.sponge), left |-> x.left - (Rate - x.sponge.pos)] \in Loops
  <2>1. x.left - (Rate - x.sponge.pos) \in Nat
    BY <1>1, <1>2, Constants
  <2>2. Spill(x.sponge) \in Sponges
    BY <1>1, SpillFields
  <2>. QED
    BY <2>1, <2>2 DEF Loops
<1>3. ASSUME NEW x \in Loops
      PROVE  x.left > Rate - x.sponge.pos => ~(x.left <= Rate - x.sponge.pos)
  BY <1>1, Constants
<1>4. Fill \in [Loops -> Loops]
  BY <1>1, <1>2 DEF Fill
<1>5. ASSUME NEW x \in Loops, x.left > Rate - x.sponge.pos
      PROVE  Fill[x] = [sponge |-> Spill(x.sponge), left |-> x.left - (Rate - x.sponge.pos)]
  BY <1>3, <1>5 DEF Fill
<1>6. ASSUME NEW x \in Loops, x.left > Rate - x.sponge.pos
      PROVE  Spill(x.sponge).pos = 0
  BY <1>1, SpillFields
<1>. QED
  BY <1>4, <1>5, <1>6 DEF Fill

(* What an absorb leaves is where its loop stops.                          *)
LEMMA AbsorbLoop ==
  ASSUME NEW s \in Sponges, NEW n \in Nat
  PROVE  \E f :
           /\ Iterates(f, Loops, [sponge |-> s, left |-> n], n, Fill)
           /\ Fill[f[n]] = f[n]
           /\ f[n].left <= Rate - f[n].sponge.pos
           /\ AbsorbIntoRate(s, n) = AddElements(f[n].sponge, f[n].left)
<1>. DEFINE Is(fill) ==
              fill = [k \in 0 .. n |->
                        IF k = 0 THEN [sponge |-> s, left |-> n]
                        ELSE LET f    == fill[k - 1]
                                 take == Rate - f.sponge.pos
                             IN  IF f.left <= take THEN f
                                 ELSE [sponge |-> Rewind(Permute(AddElements(f.sponge, take))),
                                       left |-> f.left - take]]
            a == [sponge |-> s, left |-> n]
<1>1. a \in Loops /\ a.left = n
  BY DEF Loops
<1>. HIDE DEF a
<1>2. PICK f : Iterates(f, Loops, a, n, Fill)
  <2>. HIDE DEF Is
  <2>1. Fill \in [Loops -> Loops]
    BY FillStep
  <2>. QED
    BY <1>1, <2>1, IterationExists
<1>3. Is(f)
  <2>1. ASSUME NEW k \in 1 .. n
        PROVE  f[k] = LET g    == f[k - 1]
                          take == Rate - g.sponge.pos
                      IN  IF g.left <= take THEN g
                          ELSE [sponge |-> Rewind(Permute(AddElements(g.sponge, take))),
                                left |-> g.left - take]
    <3>1. f[k - 1] \in Loops /\ f[k] = Fill[f[k - 1]]
      BY <1>2 DEF Iterates, Steps
    <3>. QED
      BY <3>1 DEF Fill, Spill
  <2>2. \A k \in 0 .. n : k # 0 => k \in 1 .. n
    OBVIOUS
  <2>. QED
    BY <1>2, <2>1, <2>2 DEF a, Iterates
<1>. DEFINE fill == CHOOSE g : Is(g)
<1>4. Is(fill)
  <2>. HIDE DEF Is
  <2>. QED
    BY <1>3
<1>5. AbsorbIntoRate(s, n) = AddElements(fill[n].sponge, fill[n].left)
  BY DEF AbsorbIntoRate
<1>. HIDE DEF fill
<1>6. fill[n] = f[n]
  <2>. DEFINE T == {k \in Nat : k <= n => fill[k] = f[k]}
  <2>1. 0 \in T
    BY <1>2, <1>4 DEF a, Iterates
  <2>2. ASSUME NEW k \in T
        PROVE  k + 1 \in T
    <3>. SUFFICES ASSUME k + 1 <= n
                  PROVE  fill[k + 1] = f[k + 1]
      OBVIOUS
    <3>1. /\ k \in Nat /\ k + 1 \in 1 .. n /\ k + 1 \in 0 .. n /\ k + 1 # 0 /\ (k + 1) - 1 = k
          /\ fill[k] = f[k]
      OBVIOUS
    <3>. QED
      BY <1>3, <1>4, <3>1
  <2>3. T = Nat
    <3>1. T \in SUBSET Nat
      OBVIOUS
    <3>. HIDE DEF T
    <3>. QED
      BY <2>1, <2>2, <3>1, Induction
  <2>. QED
    BY <2>3
<1>. HIDE DEF Is
<1>7. f[n] \in Loops /\ f[n].left <= Rate - f[n].sponge.pos
  BY <1>1, <1>2, FillStep, LoopSettles DEF Iterates
<1>8. Fill[f[n]] = f[n]
  BY <1>7, FillStep
<1>. QED
  BY <1>2, <1>5, <1>6, <1>7, <1>8 DEF a

(* Stop in this block, or spill and go on with what is left.               *)
LEMMA AbsorbLaw ==
  ASSUME NEW s \in Sponges, NEW n \in Nat
  PROVE  /\ n <= Rate - s.pos => AbsorbIntoRate(s, n) = AddElements(s, n)
         /\ n > Rate - s.pos =>
              AbsorbIntoRate(s, n) = AbsorbIntoRate(Spill(s), n - (Rate - s.pos))
<1>. DEFINE a == [sponge |-> s, left |-> n]
<1>1. a \in Loops /\ a.left = n /\ a.sponge = s
  BY DEF Loops
<1>. HIDE DEF a
<1>2. PICK f :
        /\ Iterates(f, Loops, a, n, Fill)
        /\ Fill[f[n]] = f[n]
        /\ AbsorbIntoRate(s, n) = AddElements(f[n].sponge, f[n].left)
  BY AbsorbLoop DEF a
<1>3. ASSUME n <= Rate - s.pos
      PROVE  AbsorbIntoRate(s, n) = AddElements(s, n)
  <2>. DEFINE g == [k \in {0} |-> a]
  <2>1. Fill[a] = a
    BY <1>1, <1>3, FillStep
  <2>2. g[0] = Fill[f[0]] /\ Fill[g[0]] = g[0] /\ Steps(g, 0, Fill) /\ Steps(f, n, Fill)
    BY <1>2, <2>1 DEF Iterates, Steps
  <2>. HIDE DEF g
  <2>3. f[n] = g[0]
    BY <1>2, <2>2, IterationSettles
  <2>. QED
    BY <1>1, <1>2, <2>3 DEF g, Iterates
<1>4. ASSUME n > Rate - s.pos
      PROVE  AbsorbIntoRate(s, n) = AbsorbIntoRate(Spill(s), n - (Rate - s.pos))
  <2>. DEFINE m == n - (Rate - s.pos)
  <2>1. m \in Nat /\ Spill(s) \in Sponges
    BY <1>4, SpillFields, Constants DEF Sponges
  <2>2. Fill[a] = [sponge |-> Spill(s), left |-> m]
    BY <1>1, <1>4, FillStep
  <2>. HIDE DEF m
  <2>3. PICK g :
          /\ Iterates(g, Loops, [sponge |-> Spill(s), left |-> m], m, Fill)
          /\ Fill[g[m]] = g[m]
          /\ AbsorbIntoRate(Spill(s), m) = AddElements(g[m].sponge, g[m].left)
    BY <2>1, AbsorbLoop
  <2>4. g[0] = Fill[f[0]] /\ Steps(f, n, Fill) /\ Steps(g, m, Fill)
    BY <1>2, <2>2, <2>3 DEF Iterates
  <2>5. f[n] = g[m]
    BY <1>2, <2>1, <2>3, <2>4, IterationSettles
  <2>. QED
    BY <1>2, <2>3, <2>5 DEF m
<1>. QED
  BY <1>3, <1>4

(* Elements added in two goes.                                             *)
LEMMA AddAdd ==
  ASSUME NEW s \in Sponges, NEW a \in 0 .. Rate - s.pos, NEW b \in 0 .. Rate - s.pos - a
  PROVE  AddElements(AddElements(s, a), b) = AddElements(s, a + b)
<1>. DEFINE t == AddElements(s, a)
            u == AddElements(t, b)
            v == AddElements(s, a + b)
            i(lane) == lane - RateBase - s.pos
<1>1. /\ s.pos \in 0 .. Rate /\ a \in Nat /\ b \in Nat /\ s.absorbed \in Nat
      /\ a + b \in 0 .. Rate - s.pos
      /\ s.added \in BlockValues
  BY Constants DEF Sponges
<1>2. /\ t \in Sponges /\ t.past = s.past /\ t.mode = s.mode
      /\ t.pos = s.pos + a /\ t.absorbed = s.absorbed + a
      /\ t.emitted = s.emitted /\ t.skips = s.skips
  BY <1>1, AddFields
<1>3. t.added = [lane \in Lanes |-> AddedTo(s, a, lane)]
  BY <1>1, AddFields
<1>4. /\ v \in Sponges /\ v.past = s.past /\ v.mode = s.mode
      /\ v.pos = s.pos + (a + b) /\ v.absorbed = s.absorbed + (a + b)
      /\ v.emitted = s.emitted /\ v.skips = s.skips
  BY <1>1, AddFields
<1>5. v.added = [lane \in Lanes |-> AddedTo(s, a + b, lane)]
  BY <1>1, AddFields
<1>. HIDE DEF t, v
<1>6. b \in 0 .. Rate - t.pos
  BY <1>1, <1>2, Constants
<1>7. /\ u \in Sponges /\ u.past = t.past /\ u.mode = t.mode
      /\ u.pos = t.pos + b /\ u.absorbed = t.absorbed + b
      /\ u.emitted = t.emitted /\ u.skips = t.skips
  BY <1>2, <1>6, AddFields
<1>8. u.added = [lane \in Lanes |-> AddedTo(t, b, lane)]
  BY <1>2, <1>6, AddFields
<1>. HIDE DEF u
<1>9. ASSUME NEW lane \in Lanes
      PROVE  AddedTo(t, b, lane) = AddedTo(s, a + b, lane)
  <2>1. i(lane) \in Int /\ lane - RateBase - t.pos = i(lane) - a
    BY <1>1, <1>2, RateBaseInt, Constants DEF Lanes
  <2>2. t.added[lane] = AddedTo(s, a, lane)
    BY <1>3
  <2>. DEFINE j == i(lane)
  <2>3. AddedTo(t, b, lane) =
          IF j - a \in 0 .. b - 1 THEN t.added[lane] \cup {s.absorbed + a + (j - a)}
          ELSE t.added[lane]
    BY <1>2, <2>1 DEF AddedTo
  <2>4. /\ t.added[lane] = IF j \in 0 .. a - 1 THEN s.added[lane] \cup {s.absorbed + j}
                           ELSE s.added[lane]
        /\ AddedTo(s, a + b, lane) =
             IF j \in 0 .. (a + b) - 1 THEN s.added[lane] \cup {s.absorbed + j}
             ELSE s.added[lane]
    BY <2>2 DEF AddedTo
  <2>. HIDE DEF j
  <2>5. s.absorbed + a + (j - a) = s.absorbed + j
    BY <1>1, <2>1 DEF j
  <2>6. j \in 0 .. (a + b) - 1 <=> j \in 0 .. a - 1 \/ j - a \in 0 .. b - 1
    BY <1>1, <2>1 DEF j
  <2>7. ~(j \in 0 .. a - 1 /\ j - a \in 0 .. b - 1)
    BY <1>1, <2>1 DEF j
  <2>. DEFINE x == s.absorbed + j
              first  == j \in 0 .. a - 1
              second == j - a \in 0 .. b - 1
              both   == j \in 0 .. (a + b) - 1
  <2>8. AddedTo(t, b, lane) = IF second THEN t.added[lane] \cup {x} ELSE t.added[lane]
    BY <2>3, <2>5
  <2>9. /\ t.added[lane] = IF first THEN s.added[lane] \cup {x} ELSE s.added[lane]
        /\ AddedTo(s, a + b, lane) = IF both THEN s.added[lane] \cup {x} ELSE s.added[lane]
    BY <2>4
  <2>10. (both <=> first \/ second) /\ ~(first /\ second)
    BY <2>6, <2>7
  <2>. HIDE DEF x, first, second, both
  <2>11. CASE first
    BY <2>8, <2>9, <2>10, <2>11, Zenon
  <2>12. CASE second
    BY <2>8, <2>9, <2>10, <2>12, Zenon
  <2>13. CASE ~first /\ ~second
    BY <2>8, <2>9, <2>10, <2>13, Zenon
  <2>. QED
    BY <2>11, <2>12, <2>13, Zenon
<1>10. u.added = v.added
  BY <1>5, <1>8, <1>9
<1>11. u.pos = v.pos /\ u.absorbed = v.absorbed
  BY <1>1, <1>2, <1>4, <1>7
<1>12. u = v
  BY <1>2, <1>4, <1>7, <1>10, <1>11, SameSponge
<1>. QED
  BY <1>12 DEF t, u, v

(* An absorb leaves a sponge, and counts what it took.                     *)
LEMMA AbsorbFields ==
  \A s \in Sponges, n \in Nat :
    /\ AbsorbIntoRate(s, n) \in Sponges
    /\ AbsorbIntoRate(s, n).absorbed = s.absorbed + n
    /\ AbsorbIntoRate(s, n).emitted = s.emitted
    /\ AbsorbIntoRate(s, n).skips = s.skips
    /\ AbsorbIntoRate(s, n).mode = s.mode
<1>. DEFINE Good(s, n) == /\ AbsorbIntoRate(s, n) \in Sponges
                          /\ AbsorbIntoRate(s, n).absorbed = s.absorbed + n
                          /\ AbsorbIntoRate(s, n).emitted = s.emitted
                          /\ AbsorbIntoRate(s, n).skips = s.skips
                          /\ AbsorbIntoRate(s, n).mode = s.mode
            P == {p \in Sponges \X Nat : Good(p[1], p[2])}
<1>1. ASSUME NEW s \in Sponges, NEW n \in Nat, n <= Rate - s.pos
      PROVE  <<s, n>> \in P
  <2>1. n \in 0 .. Rate - s.pos
    BY <1>1
  <2>2. Good(s, n)
    BY <1>1, <2>1, AbsorbLaw, AddFields
  <2>. QED
    BY <2>2
<1>2. ASSUME NEW s \in Sponges, NEW n \in Nat, n > Rate - s.pos,
             \A t \in Sponges : t.pos = 0 => <<t, n - (Rate - s.pos)>> \in P
      PROVE  <<s, n>> \in P
  <2>. DEFINE m == n - (Rate - s.pos)
              t == Spill(s)
  <2>1. /\ t \in Sponges /\ t.pos = 0 /\ t.mode = s.mode
        /\ t.absorbed = s.absorbed + (Rate - s.pos)
        /\ t.emitted = s.emitted /\ t.skips = s.skips
    BY SpillFields
  <2>2. Good(t, m)
    <3>. HIDE DEF Good, t
    <3>. QED
      BY <1>2, <2>1
  <2>3. AbsorbIntoRate(s, n) = AbsorbIntoRate(t, m)
    BY <1>2, AbsorbLaw
  <2>4. s.absorbed + (Rate - s.pos) + m = s.absorbed + n
    BY Constants DEF Sponges
  <2>. HIDE DEF t, m
  <2>5. Good(s, n)
    BY <2>1, <2>2, <2>3, <2>4
  <2>. QED
    BY <2>5
<1>3. \A s \in Sponges, n \in Nat : <<s, n>> \in P
  <2>. HIDE DEF P
  <2>. QED
    BY <1>1, <1>2, BlockInduction
<1>. QED
  BY <1>3

(* Spilling a block ends it where filling it first would have.             *)
LEMMA SpillAdded ==
  ASSUME NEW s \in Sponges, NEW a \in 0 .. Rate - s.pos
  PROVE  Spill(AddElements(s, a)) = Spill(s)
<1>. DEFINE b == Rate - s.pos - a
<1>0. s.pos \in 0 .. Rate
  BY DEF Sponges
<1>1. /\ b \in 0 .. Rate - s.pos - a /\ a + b = Rate - s.pos
      /\ Rate - (s.pos + a) = b
  BY <1>0, Constants
<1>3. AddElements(s, a).pos = s.pos + a
  BY AddFields
<1>. HIDE DEF b
<1>2. AddElements(AddElements(s, a), b) = AddElements(s, Rate - s.pos)
  BY <1>1, AddAdd
<1>. QED
  BY <1>1, <1>2, <1>3 DEF Spill

(* Absorbing in two goes is absorbing in one.                              *)
LEMMA AbsorbsCompose ==
  \A s \in Sponges, a \in Nat : \A b \in Nat :
    AbsorbIntoRate(AbsorbIntoRate(s, a), b) = AbsorbIntoRate(s, a + b)
<1>. DEFINE Good(s, a) == \A b \in Nat :
              AbsorbIntoRate(AbsorbIntoRate(s, a), b) = AbsorbIntoRate(s, a + b)
            P == {p \in Sponges \X Nat : Good(p[1], p[2])}
<1>1. ASSUME NEW s \in Sponges, NEW a \in Nat, a <= Rate - s.pos
      PROVE  <<s, a>> \in P
  <2>. DEFINE t == AddElements(s, a)
  <2>0. a \in 0 .. Rate - s.pos /\ s.pos \in 0 .. Rate
    BY <1>1 DEF Sponges
  <2>1. /\ a \in 0 .. Rate - s.pos /\ s.pos \in 0 .. Rate
        /\ AbsorbIntoRate(s, a) = t /\ t \in Sponges /\ t.pos = s.pos + a
    BY <1>1, <2>0, AbsorbLaw, AddFields
  <2>2. Spill(t) = Spill(s)
    BY <2>1, SpillAdded
  <2>3. ASSUME NEW b \in Nat
        PROVE  AbsorbIntoRate(t, b) = AbsorbIntoRate(s, a + b)
    <3>1. CASE b <= Rate - t.pos
      <4>1. b \in 0 .. Rate - s.pos - a /\ a + b \in Nat /\ a + b <= Rate - s.pos
        BY <2>1, <3>1, Constants
      <4>2. AbsorbIntoRate(s, a + b) = AddElements(s, a + b)
        BY <4>1, AbsorbLaw
      <4>3. AbsorbIntoRate(t, b) = AddElements(t, b)
        BY <2>1, <3>1, AbsorbLaw
      <4>. QED
        BY <2>1, <4>1, <4>2, <4>3, AddAdd
    <3>2. CASE b > Rate - t.pos
      <4>1. /\ a + b \in Nat /\ a + b > Rate - s.pos
            /\ b - (Rate - t.pos) = (a + b) - (Rate - s.pos)
        BY <2>1, <3>2, Constants
      <4>2. AbsorbIntoRate(s, a + b) = AbsorbIntoRate(Spill(s), (a + b) - (Rate - s.pos))
        BY <4>1, AbsorbLaw
      <4>3. AbsorbIntoRate(t, b) = AbsorbIntoRate(Spill(t), b - (Rate - t.pos))
        BY <2>1, <3>2, AbsorbLaw
      <4>. QED
        BY <2>2, <4>1, <4>2, <4>3
    <3>. QED
      BY <2>1, <3>1, <3>2, Constants
  <2>. HIDE DEF t
  <2>4. Good(s, a)
    BY <2>1, <2>3
  <2>. QED
    BY <2>4
<1>2. ASSUME NEW s \in Sponges, NEW a \in Nat, a > Rate - s.pos,
             \A t \in Sponges : t.pos = 0 => <<t, a - (Rate - s.pos)>> \in P
      PROVE  <<s, a>> \in P
  <2>. DEFINE m == a - (Rate - s.pos)
              t == Spill(s)
  <2>1. t \in Sponges /\ t.pos = 0 /\ s.pos \in 0 .. Rate
    BY SpillFields DEF Sponges
  <2>2. Good(t, m)
    <3>. HIDE DEF Good, t
    <3>. QED
      BY <1>2, <2>1
  <2>3. AbsorbIntoRate(s, a) = AbsorbIntoRate(t, m)
    BY <1>2, AbsorbLaw
  <2>4. ASSUME NEW b \in Nat
        PROVE  AbsorbIntoRate(AbsorbIntoRate(s, a), b) = AbsorbIntoRate(s, a + b)
    <3>1. /\ a + b \in Nat /\ a + b > Rate - s.pos
          /\ (a + b) - (Rate - s.pos) = m + b
      BY <1>2, <2>1, Constants
    <3>2. AbsorbIntoRate(s, a + b) = AbsorbIntoRate(t, (a + b) - (Rate - s.pos))
      BY <3>1, AbsorbLaw
    <3>. QED
      BY <2>2, <2>3, <3>1, <3>2
  <2>5. Good(s, a)
    BY <2>4
  <2>. QED
    BY <2>5
<1>3. \A s \in Sponges, a \in Nat : <<s, a>> \in P
  <2>. HIDE DEF P
  <2>. QED
    BY <1>1, <1>2, BlockInduction
<1>. QED
  BY <1>3

----------------------------------------------------------------------------
(* The law of _squeeze_from_rate.                                          *)

Drained(s, n) ==
  LET block == ReadLanes(s, Rate - s.pos)
  IN  IF Skips(s.pos, n) THEN Rewind([block EXCEPT !.skips = @ \cup {s.pos}])
      ELSE Rewind(Permute(block))

Drain ==
  [x \in Loops |->
     IF x.left <= Rate - x.sponge.pos THEN x
     ELSE [sponge |-> Drained(x.sponge, x.left), left |-> x.left - (Rate - x.sponge.pos)]]

(* A drained block has been read out, and permuted unless it was skipped.  *)
LEMMA DrainedFields ==
  ASSUME NEW s \in Sponges, NEW n
  PROVE  /\ Drained(s, n) \in Sponges
         /\ Drained(s, n).mode = s.mode /\ Drained(s, n).pos = 0
         /\ Drained(s, n).absorbed = s.absorbed
         /\ Drained(s, n).emitted = s.emitted \o ReadOut(s, Rate - s.pos)
         /\ Skips(s.pos, n) => /\ Drained(s, n).past = s.past
                               /\ Drained(s, n).added = s.added
                               /\ Drained(s, n).skips = s.skips \cup {s.pos}
         /\ ~Skips(s.pos, n) => /\ Drained(s, n).past = Append(s.past, s.added)
                                /\ Drained(s, n).added = NothingAdded
                                /\ Drained(s, n).skips = s.skips
<1>. DEFINE block == ReadLanes(s, Rate - s.pos)
            kept  == [block EXCEPT !.skips = @ \cup {s.pos}]
            out   == ReadOut(s, Rate - s.pos)
<1>1. s.pos \in 0 .. Rate /\ Rate - s.pos \in 0 .. Rate - s.pos
  BY Constants DEF Sponges
<1>2. /\ block \in Sponges /\ block.past = s.past /\ block.added = s.added
      /\ block.mode = s.mode /\ block.absorbed = s.absorbed
      /\ block.emitted = s.emitted \o out /\ block.skips = s.skips
  BY <1>1, ReadFields
<1>3. Drained(s, n) = IF Skips(s.pos, n) THEN Rewind(kept) ELSE Rewind(Permute(block))
  BY DEF Drained
<1>. HIDE DEF block, out
<1>4. /\ kept \in Sponges /\ kept.past = s.past /\ kept.added = s.added
      /\ kept.mode = s.mode /\ kept.absorbed = s.absorbed
      /\ kept.emitted = s.emitted \o out /\ kept.skips = s.skips \cup {s.pos}
  BY <1>1, <1>2 DEF Sponges
<1>. HIDE DEF kept
<1>5. CASE Skips(s.pos, n)
  BY <1>3, <1>4, <1>5, RewindFields DEF out
<1>6. CASE ~Skips(s.pos, n)
  <2>. DEFINE p == Permute(block)
  <2>1. /\ p \in Sponges /\ p.past = Append(s.past, s.added) /\ p.added = NothingAdded
        /\ p.mode = s.mode /\ p.absorbed = s.absorbed
        /\ p.emitted = s.emitted \o out /\ p.skips = s.skips
    BY <1>2, PermuteFields
  <2>2. Drained(s, n) = Rewind(p)
    BY <1>3, <1>6
  <2>. HIDE DEF p
  <2>. QED
    BY <1>6, <2>1, <2>2, RewindFields DEF out
<1>. QED
  BY <1>5, <1>6

(* One step of the loop.                                                   *)
LEMMA DrainStep ==
  /\ Drain \in [Loops -> Loops]
  /\ \A x \in Loops : x.left <= Rate - x.sponge.pos => Drain[x] = x
  /\ \A x \in Loops :
       x.left > Rate - x.sponge.pos =>
         /\ Drain[x] = [sponge |-> Drained(x.sponge, x.left), left |-> x.left - (Rate - x.sponge.pos)]
         /\ Drain[x].left = x.left - (Rate - x.sponge.pos)
         /\ Drain[x].sponge.pos = 0
<1>1. ASSUME NEW x \in Loops
      PROVE  /\ x.sponge \in Sponges /\ x.left \in Nat /\ x.sponge.pos \in 0 .. Rate
             /\ x.left <= Rate - x.sponge.pos \/ x.left > Rate - x.sponge.pos
  BY Constants DEF Loops, Sponges
<1>2. ASSUME NEW x \in Loops, x.left > Rate - x.sponge.pos
      PROVE  [sponge |-> Drained(x.sponge, x.left), left |-> x.left - (Rate - x.sponge.pos)] \in Loops
  <2>1. x.left - (Rate - x.sponge.pos) \in Nat
    BY <1>1, <1>2, Constants
  <2>2. Drained(x.sponge, x.left) \in Sponges
    BY <1>1, DrainedFields
  <2>. QED
    BY <2>1, <2>2 DEF Loops
<1>3. ASSUME NEW x \in Loops
      PROVE  x.left > Rate - x.sponge.pos => ~(x.left <= Rate - x.sponge.pos)
  BY <1>1, Constants
<1>4. Drain \in [Loops -> Loops]
  BY <1>1, <1>2 DEF Drain
<1>5. ASSUME NEW x \in Loops, x.left > Rate - x.sponge.pos
      PROVE  Drain[x] = [sponge |-> Drained(x.sponge, x.left), left |-> x.left - (Rate - x.sponge.pos)]
  BY <1>3, <1>5 DEF Drain
<1>6. ASSUME NEW x \in Loops, x.left > Rate - x.sponge.pos
      PROVE  Drained(x.sponge, x.left).pos = 0
  BY <1>1, DrainedFields
<1>. QED
  BY <1>4, <1>5, <1>6 DEF Drain

(* What a squeeze leaves is where its loop stops.                          *)
LEMMA SqueezeLoop ==
  ASSUME NEW s \in Sponges, NEW n \in Nat
  PROVE  \E f :
           /\ Iterates(f, Loops, [sponge |-> s, left |-> n], n, Drain)
           /\ Drain[f[n]] = f[n]
           /\ f[n].left <= Rate - f[n].sponge.pos
           /\ SqueezeFromRate(s, n) = ReadLanes(f[n].sponge, f[n].left)
<1>. DEFINE Body(d) ==
                   LET take  == Rate - d.sponge.pos
                       block == ReadLanes(d.sponge, take)
                   IN  IF d.left <= take THEN d
                       ELSE [sponge |->
                               IF Skips(d.sponge.pos, d.left)
                                 THEN Rewind([block EXCEPT !.skips = @ \cup {d.sponge.pos}])
                                 ELSE Rewind(Permute(block)),
                             left |-> d.left - take]
            Is(drain) ==
              drain = [k \in 0 .. n |->
                         IF k = 0 THEN [sponge |-> s, left |-> n] ELSE Body(drain[k - 1])]
            a == [sponge |-> s, left |-> n]
<1>1. a \in Loops /\ a.left = n
  BY DEF Loops
<1>. HIDE DEF a
<1>2. PICK f : Iterates(f, Loops, a, n, Drain)
  <2>. HIDE DEF Is
  <2>1. Drain \in [Loops -> Loops]
    BY DrainStep
  <2>. QED
    BY <1>1, <2>1, IterationExists
<1>3. Is(f)
  <2>1. ASSUME NEW k \in 1 .. n
        PROVE  f[k] = Body(f[k - 1])
    <3>1. f[k - 1] \in Loops /\ f[k] = Drain[f[k - 1]]
      BY <1>2 DEF Iterates, Steps
    <3>. QED
      BY <3>1 DEF Drain, Drained
  <2>2. \A k \in 0 .. n : k # 0 => k \in 1 .. n
    OBVIOUS
  <2>. HIDE DEF Body
  <2>. QED
    BY <1>2, <2>1, <2>2 DEF a, Iterates
<1>. DEFINE drain == CHOOSE g : Is(g)
<1>4. Is(drain)
  <2>. HIDE DEF Is
  <2>. QED
    BY <1>3
<1>5. SqueezeFromRate(s, n) = ReadLanes(drain[n].sponge, drain[n].left)
  BY DEF SqueezeFromRate
<1>. HIDE DEF drain
<1>6. drain[n] = f[n]
  <2>. DEFINE T == {k \in Nat : k <= n => drain[k] = f[k]}
  <2>1. 0 \in T
    BY <1>2, <1>4 DEF a, Iterates
  <2>2. ASSUME NEW k \in T
        PROVE  k + 1 \in T
    <3>. SUFFICES ASSUME k + 1 <= n
                  PROVE  drain[k + 1] = f[k + 1]
      OBVIOUS
    <3>1. /\ k \in Nat /\ k + 1 \in 1 .. n /\ k + 1 \in 0 .. n /\ k + 1 # 0 /\ (k + 1) - 1 = k
          /\ drain[k] = f[k]
      OBVIOUS
    <3>. HIDE DEF Body
    <3>. QED
      BY <1>3, <1>4, <3>1
  <2>3. T = Nat
    <3>1. T \in SUBSET Nat
      OBVIOUS
    <3>. HIDE DEF T
    <3>. QED
      BY <2>1, <2>2, <3>1, Induction
  <2>. QED
    BY <2>3
<1>. HIDE DEF Is
<1>7. f[n] \in Loops /\ f[n].left <= Rate - f[n].sponge.pos
  BY <1>1, <1>2, DrainStep, LoopSettles DEF Iterates
<1>8. Drain[f[n]] = f[n]
  BY <1>7, DrainStep
<1>. QED
  BY <1>2, <1>5, <1>6, <1>7, <1>8 DEF a

(* Stop in this block, or drain it and go on with what is left.            *)
LEMMA SqueezeLaw ==
  ASSUME NEW s \in Sponges, NEW n \in Nat
  PROVE  /\ n <= Rate - s.pos => SqueezeFromRate(s, n) = ReadLanes(s, n)
         /\ n > Rate - s.pos =>
              SqueezeFromRate(s, n) = SqueezeFromRate(Drained(s, n), n - (Rate - s.pos))
<1>. DEFINE a == [sponge |-> s, left |-> n]
<1>1. a \in Loops /\ a.left = n /\ a.sponge = s
  BY DEF Loops
<1>. HIDE DEF a
<1>2. PICK f :
        /\ Iterates(f, Loops, a, n, Drain)
        /\ Drain[f[n]] = f[n]
        /\ SqueezeFromRate(s, n) = ReadLanes(f[n].sponge, f[n].left)
  BY SqueezeLoop DEF a
<1>3. ASSUME n <= Rate - s.pos
      PROVE  SqueezeFromRate(s, n) = ReadLanes(s, n)
  <2>. DEFINE g == [k \in {0} |-> a]
  <2>1. Drain[a] = a
    BY <1>1, <1>3, DrainStep
  <2>2. g[0] = Drain[f[0]] /\ Drain[g[0]] = g[0] /\ Steps(g, 0, Drain) /\ Steps(f, n, Drain)
    BY <1>2, <2>1 DEF Iterates, Steps
  <2>. HIDE DEF g
  <2>3. f[n] = g[0]
    BY <1>2, <2>2, IterationSettles
  <2>. QED
    BY <1>1, <1>2, <2>3 DEF g, Iterates
<1>4. ASSUME n > Rate - s.pos
      PROVE  SqueezeFromRate(s, n) = SqueezeFromRate(Drained(s, n), n - (Rate - s.pos))
  <2>. DEFINE m == n - (Rate - s.pos)
  <2>0. s.pos \in 0 .. Rate
    BY DEF Sponges
  <2>1. m \in Nat /\ Drained(s, n) \in Sponges
    <3>1. m \in Nat
      BY <1>4, <2>0, Constants
    <3>2. Drained(s, n) \in Sponges
      BY DrainedFields
    <3>. QED
      BY <3>1, <3>2
  <2>2. Drain[a] = [sponge |-> Drained(s, n), left |-> m]
    BY <1>1, <1>4, DrainStep
  <2>. HIDE DEF m
  <2>3. PICK g :
          /\ Iterates(g, Loops, [sponge |-> Drained(s, n), left |-> m], m, Drain)
          /\ Drain[g[m]] = g[m]
          /\ SqueezeFromRate(Drained(s, n), m) = ReadLanes(g[m].sponge, g[m].left)
    BY <2>1, SqueezeLoop
  <2>4. g[0] = Drain[f[0]] /\ Steps(f, n, Drain) /\ Steps(g, m, Drain)
    BY <1>2, <2>2, <2>3 DEF Iterates
  <2>5. f[n] = g[m]
    BY <1>2, <2>1, <2>3, <2>4, IterationSettles
  <2>. QED
    BY <1>2, <2>3, <2>5 DEF m
<1>. QED
  BY <1>3, <1>4

(* A squeeze leaves a sponge, and gives out what was asked.                *)
LEMMA SqueezeFields ==
  \A s \in Sponges, n \in Nat :
    /\ SqueezeFromRate(s, n) \in Sponges
    /\ SqueezeFromRate(s, n).absorbed = s.absorbed
    /\ Len(SqueezeFromRate(s, n).emitted) = Len(s.emitted) + n
    /\ SqueezeFromRate(s, n).mode = s.mode
<1>. DEFINE Good(s, n) == /\ SqueezeFromRate(s, n) \in Sponges
                          /\ SqueezeFromRate(s, n).absorbed = s.absorbed
                          /\ Len(SqueezeFromRate(s, n).emitted) = Len(s.emitted) + n
                          /\ SqueezeFromRate(s, n).mode = s.mode
            P == {p \in Sponges \X Nat : Good(p[1], p[2])}
<1>0. ASSUME NEW s \in Sponges, NEW k \in 0 .. Rate - s.pos
      PROVE  Len(s.emitted \o ReadOut(s, k)) = Len(s.emitted) + k
  <2>1. ReadOut(s, k) \in Seq(Outputs) /\ Len(ReadOut(s, k)) = k
    BY ReadFields
  <2>2. s.emitted \in Seq(Outputs)
    BY DEF Sponges
  <2>. QED
    BY <2>1, <2>2
<1>1. ASSUME NEW s \in Sponges, NEW n \in Nat, n <= Rate - s.pos
      PROVE  <<s, n>> \in P
  <2>1. n \in 0 .. Rate - s.pos
    BY <1>1
  <2>2. Good(s, n)
    BY <1>0, <1>1, <2>1, SqueezeLaw, ReadFields
  <2>. QED
    BY <2>2
<1>2. ASSUME NEW s \in Sponges, NEW n \in Nat, n > Rate - s.pos,
             \A t \in Sponges : t.pos = 0 => <<t, n - (Rate - s.pos)>> \in P
      PROVE  <<s, n>> \in P
  <2>. DEFINE m == n - (Rate - s.pos)
              t == Drained(s, n)
  <2>0. Rate - s.pos \in 0 .. Rate - s.pos /\ s.pos \in 0 .. Rate
    BY Constants DEF Sponges
  <2>1. /\ t \in Sponges /\ t.pos = 0 /\ t.mode = s.mode
        /\ t.absorbed = s.absorbed
        /\ Len(t.emitted) = Len(s.emitted) + (Rate - s.pos)
    BY <1>0, <2>0, DrainedFields
  <2>2. Good(t, m)
    <3>. HIDE DEF Good, t
    <3>. QED
      BY <1>2, <2>1
  <2>3. SqueezeFromRate(s, n) = SqueezeFromRate(t, m)
    BY <1>2, SqueezeLaw
  <2>4. Len(s.emitted) + (Rate - s.pos) + m = Len(s.emitted) + n
    <3>1. Len(s.emitted) \in Nat
      BY DEF Sponges
    <3>. QED
      BY <2>0, <3>1, Constants
  <2>. HIDE DEF t, m
  <2>5. Good(s, n)
    BY <2>1, <2>2, <2>3, <2>4
  <2>. QED
    BY <2>5
<1>3. \A s \in Sponges, n \in Nat : <<s, n>> \in P
  <2>. HIDE DEF P
  <2>. QED
    BY <1>1, <1>2, BlockInduction
<1>. QED
  BY <1>3

(* Lanes read in two goes.                                                 *)
LEMMA ReadRead ==
  ASSUME NEW s \in Sponges, NEW a \in 0 .. Rate - s.pos, NEW b \in 0 .. Rate - s.pos - a
  PROVE  ReadLanes(ReadLanes(s, a), b) = ReadLanes(s, a + b)
<1>. DEFINE t == ReadLanes(s, a)
            u == ReadLanes(t, b)
            v == ReadLanes(s, a + b)
            x == ReadOut(s, a)
            y == ReadOut(t, b)
            z == ReadOut(s, a + b)
<1>1. /\ s.pos \in 0 .. Rate /\ a \in Nat /\ b \in Nat
      /\ a + b \in 0 .. Rate - s.pos
      /\ s.emitted \in Seq(Outputs)
  BY Constants DEF Sponges
<1>2. /\ t \in Sponges /\ t.past = s.past /\ t.added = s.added /\ t.mode = s.mode
      /\ t.pos = s.pos + a /\ t.absorbed = s.absorbed
      /\ t.emitted = s.emitted \o x /\ t.skips = s.skips
      /\ x \in Seq(Outputs) /\ Len(x) = a
  BY <1>1, ReadFields
<1>3. /\ v \in Sponges /\ v.past = s.past /\ v.added = s.added /\ v.mode = s.mode
      /\ v.pos = s.pos + (a + b) /\ v.absorbed = s.absorbed
      /\ v.emitted = s.emitted \o z /\ v.skips = s.skips
      /\ z \in Seq(Outputs) /\ Len(z) = a + b
  BY <1>1, ReadFields
<1>. HIDE DEF t, v
<1>4. b \in 0 .. Rate - t.pos
  BY <1>1, <1>2, Constants
<1>5. /\ u \in Sponges /\ u.past = t.past /\ u.added = t.added /\ u.mode = t.mode
      /\ u.pos = t.pos + b /\ u.absorbed = t.absorbed
      /\ u.emitted = t.emitted \o y /\ u.skips = t.skips
      /\ y \in Seq(Outputs) /\ Len(y) = b
  BY <1>2, <1>4, ReadFields
<1>. HIDE DEF u
<1>6. ASSUME NEW i \in 1 .. b
      PROVE  y[i] = z[a + i]
  <2>1. i \in Int /\ a + i \in 1 .. a + b
    BY <1>1
  <2>2. RateBase + t.pos + i - 1 = RateBase + s.pos + (a + i) - 1
    BY <1>1, <1>2, <2>1, RateBaseInt
  <2>3. OutputAt(t, i) = OutputAt(s, a + i)
    BY <1>2, <2>2 DEF OutputAt
  <2>. QED
    BY <2>1, <2>3 DEF ReadOut
<1>7. \A i \in 1 .. a : x[i] = z[i]
  BY <1>1 DEF ReadOut
<1>. HIDE DEF x, y, z
<1>8. x \o y = z
  BY <1>1, <1>2, <1>3, <1>5, <1>6, <1>7, ConcatIs
<1>9. u.emitted = v.emitted
  <2>1. (s.emitted \o x) \o y = s.emitted \o (x \o y)
    <3>. DEFINE e == s.emitted
    <3>1. e \in Seq(Outputs) /\ x \in Seq(Outputs) /\ y \in Seq(Outputs)
      BY <1>1, <1>2, <1>5
    <3>. HIDE DEF e
    <3>2. (e \o x) \o y = e \o (x \o y)
      BY <3>1, ConcatAssoc
    <3>. QED
      BY <3>2 DEF e
  <2>. QED
    BY <1>2, <1>3, <1>5, <1>8, <2>1
<1>10. u.pos = v.pos
  BY <1>1, <1>2, <1>3, <1>5
<1>11. u = v
  BY <1>2, <1>3, <1>5, <1>9, <1>10, SameSponge
<1>. QED
  BY <1>11 DEF t, u, v

(* Draining a block ends it where reading part of it first would have,     *)
(* when no block is skipped.                                               *)
LEMMA DrainedRead ==
  ASSUME NEW s \in Sponges, NEW a \in 0 .. Rate - s.pos, NEW n, NEW m,
         convention.spill_permute = "ALWAYS"
  PROVE  Drained(ReadLanes(s, a), m) = Drained(s, n)
<1>. DEFINE b == Rate - s.pos - a
            t == ReadLanes(s, a)
<1>0. s.pos \in 0 .. Rate
  BY DEF Sponges
<1>1. /\ b \in 0 .. Rate - s.pos - a /\ a + b = Rate - s.pos
      /\ Rate - (s.pos + a) = b
  BY <1>0, Constants
<1>3. t.pos = s.pos + a
  BY ReadFields
<1>. HIDE DEF b
<1>2. ReadLanes(t, b) = ReadLanes(s, Rate - s.pos)
  BY <1>1, ReadRead
<1>4. ~Skips(t.pos, m) /\ ~Skips(s.pos, n)
  BY DEF Skips
<1>. HIDE DEF t
<1>5. Drained(t, m) = Drained(s, n)
  BY <1>1, <1>2, <1>3, <1>4 DEF Drained
<1>. QED
  BY <1>5 DEF t

(* Squeezing in two goes is squeezing in one, when no block is skipped.    *)
LEMMA SqueezesCompose ==
  ASSUME convention.spill_permute = "ALWAYS"
  PROVE  \A s \in Sponges, a \in Nat : \A b \in Nat :
           SqueezeFromRate(SqueezeFromRate(s, a), b) = SqueezeFromRate(s, a + b)
<1>. DEFINE Good(s, a) == \A b \in Nat :
              SqueezeFromRate(SqueezeFromRate(s, a), b) = SqueezeFromRate(s, a + b)
            P == {p \in Sponges \X Nat : Good(p[1], p[2])}
<1>1. ASSUME NEW s \in Sponges, NEW a \in Nat, a <= Rate - s.pos
      PROVE  <<s, a>> \in P
  <2>. DEFINE t == ReadLanes(s, a)
  <2>0. a \in 0 .. Rate - s.pos /\ s.pos \in 0 .. Rate
    BY <1>1 DEF Sponges
  <2>1. /\ a \in 0 .. Rate - s.pos /\ s.pos \in 0 .. Rate
        /\ SqueezeFromRate(s, a) = t /\ t \in Sponges /\ t.pos = s.pos + a
    BY <1>1, <2>0, SqueezeLaw, ReadFields
  <2>2. \A n, m : Drained(t, m) = Drained(s, n)
    BY <2>1, DrainedRead
  <2>3. ASSUME NEW b \in Nat
        PROVE  SqueezeFromRate(t, b) = SqueezeFromRate(s, a + b)
    <3>1. CASE b <= Rate - t.pos
      <4>1. b \in 0 .. Rate - s.pos - a /\ a + b \in Nat /\ a + b <= Rate - s.pos
        BY <2>1, <3>1, Constants
      <4>2. SqueezeFromRate(s, a + b) = ReadLanes(s, a + b)
        BY <4>1, SqueezeLaw
      <4>3. SqueezeFromRate(t, b) = ReadLanes(t, b)
        BY <2>1, <3>1, SqueezeLaw
      <4>. QED
        BY <2>1, <4>1, <4>2, <4>3, ReadRead
    <3>2. CASE b > Rate - t.pos
      <4>1. /\ a + b \in Nat /\ a + b > Rate - s.pos
            /\ b - (Rate - t.pos) = (a + b) - (Rate - s.pos)
        BY <2>1, <3>2, Constants
      <4>2. SqueezeFromRate(s, a + b)
              = SqueezeFromRate(Drained(s, a + b), (a + b) - (Rate - s.pos))
        BY <4>1, SqueezeLaw
      <4>3. SqueezeFromRate(t, b) = SqueezeFromRate(Drained(t, b), b - (Rate - t.pos))
        BY <2>1, <3>2, SqueezeLaw
      <4>. QED
        BY <2>2, <4>1, <4>2, <4>3
    <3>. QED
      BY <2>1, <3>1, <3>2, Constants
  <2>. HIDE DEF t
  <2>4. Good(s, a)
    BY <2>1, <2>3
  <2>. QED
    BY <2>4
<1>2. ASSUME NEW s \in Sponges, NEW a \in Nat, a > Rate - s.pos,
             \A t \in Sponges : t.pos = 0 => <<t, a - (Rate - s.pos)>> \in P
      PROVE  <<s, a>> \in P
  <2>. DEFINE m == a - (Rate - s.pos)
              t == Drained(s, a)
  <2>1. t \in Sponges /\ t.pos = 0
    BY DrainedFields
  <2>2. Good(t, m)
    <3>. HIDE DEF Good, t
    <3>. QED
      BY <1>2, <2>1
  <2>3. SqueezeFromRate(s, a) = SqueezeFromRate(t, m)
    BY <1>2, SqueezeLaw
  <2>4. ASSUME NEW b \in Nat
        PROVE  SqueezeFromRate(SqueezeFromRate(s, a), b) = SqueezeFromRate(s, a + b)
    <3>0. s.pos \in 0 .. Rate
      BY DEF Sponges
    <3>1. /\ a + b \in Nat /\ a + b > Rate - s.pos
          /\ (a + b) - (Rate - s.pos) = m + b
      BY <1>2, <3>0, Constants
    <3>2. SqueezeFromRate(s, a + b)
            = SqueezeFromRate(Drained(s, a + b), (a + b) - (Rate - s.pos))
      BY <3>1, SqueezeLaw
    <3>3. Drained(s, a + b) = t
      BY DEF Drained, Skips
    <3>. QED
      BY <2>2, <2>3, <3>1, <3>2, <3>3
  <2>5. Good(s, a)
    BY <2>4
  <2>. QED
    BY <2>5
<1>3. \A s \in Sponges, a \in Nat : <<s, a>> \in P
  <2>. HIDE DEF P
  <2>. QED
    BY <1>1, <1>2, BlockInduction
<1>. QED
  BY <1>3

----------------------------------------------------------------------------
(* The calls.  They set the mode, which neither loop looks at.             *)

Moded(s, mode) == [s EXCEPT !.mode = mode]

(* Setting the mode.                                                       *)
LEMMA ModedFields ==
  ASSUME NEW s \in Sponges, NEW mode \in {"absorbing", "squeezing"}
  PROVE  /\ Moded(s, mode) \in Sponges
         /\ Moded(s, mode).past = s.past /\ Moded(s, mode).added = s.added
         /\ Moded(s, mode).mode = mode /\ Moded(s, mode).pos = s.pos
         /\ Moded(s, mode).absorbed = s.absorbed
         /\ Moded(s, mode).emitted = s.emitted /\ Moded(s, mode).skips = s.skips
BY DEF Sponges, Moded

(* The elementary steps do not look at the mode.                           *)
LEMMA StepsModed ==
  ASSUME NEW s \in Sponges, NEW mode \in {"absorbing", "squeezing"}
  PROVE  /\ Permute(Moded(s, mode)) = Moded(Permute(s), mode)
         /\ Rewind(Moded(s, mode)) = Moded(Rewind(s), mode)
         /\ \A n \in 0 .. Rate - s.pos :
              /\ AddElements(Moded(s, mode), n) = Moded(AddElements(s, n), mode)
              /\ ReadLanes(Moded(s, mode), n) = Moded(ReadLanes(s, n), mode)
<1>. DEFINE m == Moded(s, mode)
<1>0. /\ m \in Sponges /\ m.past = s.past /\ m.added = s.added
      /\ m.mode = mode /\ m.pos = s.pos /\ m.absorbed = s.absorbed
      /\ m.emitted = s.emitted /\ m.skips = s.skips
  BY ModedFields
<1>. HIDE DEF m
<1>1. Permute(m) = Moded(Permute(s), mode)
  <2>. DEFINE p == Permute(s)
              q == Permute(m)
              r == Moded(p, mode)
  <2>1. /\ p \in Sponges /\ p.past = Append(s.past, s.added) /\ p.added = NothingAdded
        /\ p.pos = s.pos /\ p.absorbed = s.absorbed
        /\ p.emitted = s.emitted /\ p.skips = s.skips
    BY PermuteFields
  <2>2. /\ q \in Sponges /\ q.past = Append(s.past, s.added) /\ q.added = NothingAdded
        /\ q.mode = mode /\ q.pos = s.pos /\ q.absorbed = s.absorbed
        /\ q.emitted = s.emitted /\ q.skips = s.skips
    BY <1>0, PermuteFields
  <2>. HIDE DEF p, q
  <2>3. /\ r \in Sponges /\ r.past = p.past /\ r.added = p.added
        /\ r.mode = mode /\ r.pos = p.pos /\ r.absorbed = p.absorbed
        /\ r.emitted = p.emitted /\ r.skips = p.skips
    BY <2>1, ModedFields
  <2>. HIDE DEF r
  <2>4. q = r
    BY <2>1, <2>2, <2>3, SameSponge
  <2>. QED
    BY <2>4 DEF p, q, r
<1>2. Rewind(m) = Moded(Rewind(s), mode)
  <2>. DEFINE p == Rewind(s)
              q == Rewind(m)
              r == Moded(p, mode)
  <2>1. /\ p \in Sponges /\ p.past = s.past /\ p.added = s.added
        /\ p.pos = 0 /\ p.absorbed = s.absorbed
        /\ p.emitted = s.emitted /\ p.skips = s.skips
    BY RewindFields
  <2>2. /\ q \in Sponges /\ q.past = s.past /\ q.added = s.added
        /\ q.mode = mode /\ q.pos = 0 /\ q.absorbed = s.absorbed
        /\ q.emitted = s.emitted /\ q.skips = s.skips
    BY <1>0, RewindFields
  <2>. HIDE DEF p, q
  <2>3. /\ r \in Sponges /\ r.past = p.past /\ r.added = p.added
        /\ r.mode = mode /\ r.pos = p.pos /\ r.absorbed = p.absorbed
        /\ r.emitted = p.emitted /\ r.skips = p.skips
    BY <2>1, ModedFields
  <2>. HIDE DEF r
  <2>4. q = r
    BY <2>1, <2>2, <2>3, SameSponge
  <2>. QED
    BY <2>4 DEF p, q, r
<1>3. ASSUME NEW n \in 0 .. Rate - s.pos
      PROVE  AddElements(m, n) = Moded(AddElements(s, n), mode)
  <2>. DEFINE p == AddElements(s, n)
              q == AddElements(m, n)
              r == Moded(p, mode)
  <2>1. /\ p \in Sponges /\ p.past = s.past
        /\ p.added = [lane \in Lanes |-> AddedTo(s, n, lane)]
        /\ p.pos = s.pos + n /\ p.absorbed = s.absorbed + n
        /\ p.emitted = s.emitted /\ p.skips = s.skips
    BY AddFields
  <2>2. /\ q \in Sponges /\ q.past = s.past
        /\ q.added = [lane \in Lanes |-> AddedTo(m, n, lane)]
        /\ q.mode = mode /\ q.pos = s.pos + n /\ q.absorbed = s.absorbed + n
        /\ q.emitted = s.emitted /\ q.skips = s.skips
    BY <1>0, AddFields
  <2>3. \A lane : AddedTo(m, n, lane) = AddedTo(s, n, lane)
    BY <1>0 DEF AddedTo
  <2>. HIDE DEF p, q
  <2>4. /\ r \in Sponges /\ r.past = p.past /\ r.added = p.added
        /\ r.mode = mode /\ r.pos = p.pos /\ r.absorbed = p.absorbed
        /\ r.emitted = p.emitted /\ r.skips = p.skips
    BY <2>1, ModedFields
  <2>. HIDE DEF r
  <2>5. q.added = r.added
    BY <2>1, <2>2, <2>3, <2>4
  <2>6. q = r
    BY <2>1, <2>2, <2>4, <2>5, SameSponge
  <2>. QED
    BY <2>6 DEF p, q, r
<1>4. ASSUME NEW n \in 0 .. Rate - s.pos
      PROVE  ReadLanes(m, n) = Moded(ReadLanes(s, n), mode)
  <2>. DEFINE p == ReadLanes(s, n)
              q == ReadLanes(m, n)
              r == Moded(p, mode)
  <2>1. /\ p \in Sponges /\ p.past = s.past /\ p.added = s.added
        /\ p.pos = s.pos + n /\ p.absorbed = s.absorbed
        /\ p.emitted = s.emitted \o ReadOut(s, n) /\ p.skips = s.skips
    BY ReadFields
  <2>2. /\ q \in Sponges /\ q.past = s.past /\ q.added = s.added
        /\ q.mode = mode /\ q.pos = s.pos + n /\ q.absorbed = s.absorbed
        /\ q.emitted = s.emitted \o ReadOut(m, n) /\ q.skips = s.skips
    BY <1>0, ReadFields
  <2>3. ReadOut(m, n) = ReadOut(s, n)
    BY <1>0 DEF ReadOut, OutputAt
  <2>. HIDE DEF p, q
  <2>4. /\ r \in Sponges /\ r.past = p.past /\ r.added = p.added
        /\ r.mode = mode /\ r.pos = p.pos /\ r.absorbed = p.absorbed
        /\ r.emitted = p.emitted /\ r.skips = p.skips
    BY <2>1, ModedFields
  <2>. HIDE DEF r
  <2>5. q.emitted = r.emitted
    BY <2>1, <2>2, <2>3, <2>4
  <2>6. q = r
    BY <2>1, <2>2, <2>4, <2>5, SameSponge
  <2>. QED
    BY <2>6 DEF p, q, r
<1>. QED
  BY <1>1, <1>2, <1>3, <1>4 DEF m

(* So neither does a whole absorb ...                                      *)
LEMMA AbsorbModed ==
  ASSUME NEW mode \in {"absorbing", "squeezing"}
  PROVE  \A s \in Sponges, n \in Nat :
           AbsorbIntoRate(Moded(s, mode), n) = Moded(AbsorbIntoRate(s, n), mode)
<1>. DEFINE Good(s, n) ==
              AbsorbIntoRate(Moded(s, mode), n) = Moded(AbsorbIntoRate(s, n), mode)
            P == {p \in Sponges \X Nat : Good(p[1], p[2])}
<1>0. \A s \in Sponges : /\ Moded(s, mode) \in Sponges /\ Moded(s, mode).pos = s.pos
                         /\ s.pos \in 0 .. Rate /\ Rate - s.pos \in 0 .. Rate - s.pos
  BY ModedFields, Constants DEF Sponges
<1>1. ASSUME NEW s \in Sponges, NEW n \in Nat, n <= Rate - s.pos
      PROVE  <<s, n>> \in P
  <2>1. n \in 0 .. Rate - s.pos /\ n <= Rate - Moded(s, mode).pos
    BY <1>0, <1>1
  <2>2. /\ AbsorbIntoRate(s, n) = AddElements(s, n)
        /\ AbsorbIntoRate(Moded(s, mode), n) = AddElements(Moded(s, mode), n)
    BY <1>0, <1>1, <2>1, AbsorbLaw
  <2>3. Good(s, n)
    BY <2>1, <2>2, StepsModed
  <2>. QED
    BY <2>3
<1>2. ASSUME NEW s \in Sponges, NEW n \in Nat, n > Rate - s.pos,
             \A t \in Sponges : t.pos = 0 => <<t, n - (Rate - s.pos)>> \in P
      PROVE  <<s, n>> \in P
  <2>. DEFINE m == n - (Rate - s.pos)
              t == Spill(s)
  <2>1. t \in Sponges /\ t.pos = 0
    BY SpillFields
  <2>2. Good(t, m)
    <3>. HIDE DEF Good, t
    <3>. QED
      BY <1>2, <2>1
  <2>3. Spill(Moded(s, mode)) = Moded(t, mode)
    <3>1. Rate - s.pos \in 0 .. Rate - s.pos
      BY <1>0
    <3>2. AddElements(s, Rate - s.pos) \in Sponges
      BY <3>1, AddFields
    <3>. DEFINE x == AddElements(s, Rate - s.pos)
                y == Permute(x)
    <3>3. AddElements(Moded(s, mode), Rate - s.pos) = Moded(x, mode)
      BY <3>1, StepsModed
    <3>4. y \in Sponges /\ Permute(Moded(x, mode)) = Moded(y, mode)
      BY <3>2, PermuteFields, StepsModed
    <3>5. Rewind(Moded(y, mode)) = Moded(Rewind(y), mode)
      BY <3>4, StepsModed
    <3>. QED
      BY <1>0, <3>3, <3>4, <3>5 DEF Spill
  <2>4. AbsorbIntoRate(s, n) = AbsorbIntoRate(t, m)
    BY <1>2, AbsorbLaw
  <2>5. AbsorbIntoRate(Moded(s, mode), n) = AbsorbIntoRate(Moded(t, mode), m)
    <3>1. Moded(s, mode) \in Sponges /\ n > Rate - Moded(s, mode).pos
      BY <1>0, <1>2
    <3>2. AbsorbIntoRate(Moded(s, mode), n)
            = AbsorbIntoRate(Spill(Moded(s, mode)), n - (Rate - Moded(s, mode).pos))
      BY <3>1, AbsorbLaw
    <3>. QED
      BY <1>0, <2>3, <3>2
  <2>6. Good(s, n)
    BY <2>2, <2>4, <2>5
  <2>. QED
    BY <2>6
<1>3. \A s \in Sponges, n \in Nat : <<s, n>> \in P
  <2>. HIDE DEF P
  <2>. QED
    BY <1>1, <1>2, BlockInduction
<1>. QED
  BY <1>3

(* ... or a whole squeeze.                                                 *)
LEMMA SqueezeModed ==
  ASSUME NEW mode \in {"absorbing", "squeezing"}
  PROVE  \A s \in Sponges, n \in Nat :
           SqueezeFromRate(Moded(s, mode), n) = Moded(SqueezeFromRate(s, n), mode)
<1>. DEFINE Good(s, n) ==
              SqueezeFromRate(Moded(s, mode), n) = Moded(SqueezeFromRate(s, n), mode)
            P == {p \in Sponges \X Nat : Good(p[1], p[2])}
<1>0. \A s \in Sponges : /\ Moded(s, mode) \in Sponges /\ Moded(s, mode).pos = s.pos
                         /\ s.pos \in 0 .. Rate /\ Rate - s.pos \in 0 .. Rate - s.pos
  BY ModedFields, Constants DEF Sponges
<1>1. ASSUME NEW s \in Sponges, NEW n \in Nat, n <= Rate - s.pos
      PROVE  <<s, n>> \in P
  <2>1. n \in 0 .. Rate - s.pos /\ n <= Rate - Moded(s, mode).pos
    BY <1>0, <1>1
  <2>2. /\ SqueezeFromRate(s, n) = ReadLanes(s, n)
        /\ SqueezeFromRate(Moded(s, mode), n) = ReadLanes(Moded(s, mode), n)
    BY <1>0, <1>1, <2>1, SqueezeLaw
  <2>3. Good(s, n)
    BY <2>1, <2>2, StepsModed
  <2>. QED
    BY <2>3
<1>2. ASSUME NEW s \in Sponges, NEW n \in Nat, n > Rate - s.pos,
             \A t \in Sponges : t.pos = 0 => <<t, n - (Rate - s.pos)>> \in P
      PROVE  <<s, n>> \in P
  <2>. DEFINE m == n - (Rate - s.pos)
              t == Drained(s, n)
  <2>1. t \in Sponges /\ t.pos = 0
    BY DrainedFields
  <2>2. Good(t, m)
    <3>. HIDE DEF Good, t
    <3>. QED
      BY <1>2, <2>1
  <2>3. Drained(Moded(s, mode), n) = Moded(t, mode)
    <3>. DEFINE z == Moded(s, mode)
                u == Drained(z, n)
                v == Moded(t, mode)
    <3>1. /\ z \in Sponges /\ z.past = s.past /\ z.added = s.added
          /\ z.mode = mode /\ z.pos = s.pos /\ z.absorbed = s.absorbed
          /\ z.emitted = s.emitted /\ z.skips = s.skips
      BY ModedFields
    <3>2. ReadOut(z, Rate - s.pos) = ReadOut(s, Rate - s.pos)
      BY <3>1 DEF ReadOut, OutputAt
    <3>. HIDE DEF z
    <3>3. /\ u \in Sponges /\ u.mode = mode /\ u.pos = 0 /\ u.absorbed = s.absorbed
          /\ u.emitted = s.emitted \o ReadOut(s, Rate - s.pos)
          /\ Skips(s.pos, n) => /\ u.past = s.past /\ u.added = s.added
                                /\ u.skips = s.skips \cup {s.pos}
          /\ ~Skips(s.pos, n) => /\ u.past = Append(s.past, s.added)
                                 /\ u.added = NothingAdded /\ u.skips = s.skips
      <4>1. /\ u \in Sponges /\ u.mode = z.mode /\ u.pos = 0 /\ u.absorbed = z.absorbed
            /\ u.emitted = z.emitted \o ReadOut(z, Rate - z.pos)
            /\ Skips(z.pos, n) => /\ u.past = z.past /\ u.added = z.added
                                  /\ u.skips = z.skips \cup {z.pos}
            /\ ~Skips(z.pos, n) => /\ u.past = Append(z.past, z.added)
                                   /\ u.added = NothingAdded /\ u.skips = z.skips
        BY <3>1, DrainedFields
      <4>. HIDE DEF u
      <4>. QED
        BY <3>1, <3>2, <4>1
    <3>4. /\ t \in Sponges /\ t.pos = 0 /\ t.absorbed = s.absorbed
          /\ t.emitted = s.emitted \o ReadOut(s, Rate - s.pos)
          /\ Skips(s.pos, n) => /\ t.past = s.past /\ t.added = s.added
                                /\ t.skips = s.skips \cup {s.pos}
          /\ ~Skips(s.pos, n) => /\ t.past = Append(s.past, s.added)
                                 /\ t.added = NothingAdded /\ t.skips = s.skips
      BY DrainedFields
    <3>. HIDE DEF t, u
    <3>5. /\ v \in Sponges /\ v.past = t.past /\ v.added = t.added
          /\ v.mode = mode /\ v.pos = t.pos /\ v.absorbed = t.absorbed
          /\ v.emitted = t.emitted /\ v.skips = t.skips
      BY <3>4, ModedFields
    <3>. HIDE DEF v
    <3>6. u.past = v.past /\ u.added = v.added /\ u.skips = v.skips
      BY <3>3, <3>4, <3>5
    <3>7. u = v
      BY <3>3, <3>4, <3>5, <3>6, SameSponge
    <3>. QED
      BY <3>7 DEF u, v, z
  <2>4. SqueezeFromRate(s, n) = SqueezeFromRate(t, m)
    BY <1>2, SqueezeLaw
  <2>5. SqueezeFromRate(Moded(s, mode), n) = SqueezeFromRate(Moded(t, mode), m)
    <3>1. Moded(s, mode) \in Sponges /\ n > Rate - Moded(s, mode).pos
      BY <1>0, <1>2
    <3>2. SqueezeFromRate(Moded(s, mode), n)
            = SqueezeFromRate(Drained(Moded(s, mode), n), n - (Rate - Moded(s, mode).pos))
      BY <3>1, SqueezeLaw
    <3>. QED
      BY <1>0, <2>3, <3>2
  <2>6. Good(s, n)
    BY <2>2, <2>4, <2>5
  <2>. QED
    BY <2>6
<1>3. \A s \in Sponges, n \in Nat : <<s, n>> \in P
  <2>. HIDE DEF P
  <2>. QED
    BY <1>1, <1>2, BlockInduction
<1>. QED
  BY <1>3

(* Turning to a direction leaves a sponge.                                 *)
LEMMA Turns ==
  ASSUME NEW s \in Sponges
  PROVE  SwitchToAbsorb(s) \in Sponges /\ SwitchToSqueeze(s) \in Sponges
<1>1. Rewind(Permute(s)) \in Sponges /\ Rewind(s) \in Sponges
  BY PermuteFields, RewindFields
<1>. QED
  BY <1>1 DEF SwitchToAbsorb, SwitchToSqueeze

(* A call leaves a sponge turned its way.                                  *)
LEMMA CallFields ==
  ASSUME NEW s \in Sponges, NEW n \in Nat
  PROVE  /\ AbsorbInto(s, n) \in Sponges
         /\ n > 0 => AbsorbInto(s, n).mode = "absorbing"
         /\ SqueezeOut(s, n) \in Sponges
         /\ SqueezeOut(s, n).mode = "squeezing"
<1>1. AbsorbInto(s, n) = IF n = 0 THEN s
                         ELSE Moded(AbsorbIntoRate(SwitchToAbsorb(s), n), "absorbing")
  BY DEF AbsorbInto, Moded
<1>2. SqueezeOut(s, n) = Moded(SqueezeFromRate(SwitchToSqueeze(s), n), "squeezing")
  BY DEF SqueezeOut, Moded
<1>3. /\ AbsorbIntoRate(SwitchToAbsorb(s), n) \in Sponges
      /\ SqueezeFromRate(SwitchToSqueeze(s), n) \in Sponges
  BY Turns, AbsorbFields, SqueezeFields
<1>. QED
  BY <1>1, <1>2, <1>3, ModedFields

(* Two absorbs in a row are one.                                           *)
LEMMA AbsorbCalls ==
  ASSUME NEW s \in Sponges, NEW a \in Nat, NEW b \in Nat
  PROVE  AbsorbInto(AbsorbInto(s, a), b) = AbsorbInto(s, a + b)
<1>1. CASE a = 0 \/ b = 0
  BY <1>1 DEF AbsorbInto
<1>2. CASE a > 0 /\ b > 0
  <2>. DEFINE u == SwitchToAbsorb(s)
              w == AbsorbIntoRate(u, a)
              t == Moded(w, "absorbing")
              x == AbsorbIntoRate(w, b)
  <2>1. u \in Sponges /\ w \in Sponges /\ x \in Sponges
    BY Turns, AbsorbFields
  <2>2. AbsorbInto(s, a) = t /\ AbsorbInto(s, a + b) = Moded(AbsorbIntoRate(u, a + b), "absorbing")
    BY <1>2 DEF AbsorbInto, Moded
  <2>3. t \in Sponges /\ t.mode = "absorbing"
    BY <2>1, ModedFields
  <2>. HIDE DEF t
  <2>4. SwitchToAbsorb(t) = t
    BY <2>3 DEF SwitchToAbsorb
  <2>5. AbsorbInto(t, b) = Moded(AbsorbIntoRate(t, b), "absorbing")
    BY <1>2, <2>4 DEF AbsorbInto, Moded
  <2>6. AbsorbIntoRate(t, b) = Moded(x, "absorbing")
    BY <2>1, AbsorbModed DEF t
  <2>7. Moded(Moded(x, "absorbing"), "absorbing") = Moded(x, "absorbing")
    BY <2>1 DEF Sponges, Moded
  <2>8. x = AbsorbIntoRate(u, a + b)
    BY <2>1, AbsorbsCompose
  <2>. QED
    BY <2>2, <2>5, <2>6, <2>7, <2>8
<1>. QED
  BY <1>1, <1>2

(* Reading nothing changes nothing.                                        *)
LEMMA ReadNone ==
  ASSUME NEW s \in Sponges
  PROVE  ReadLanes(s, 0) = s
<1>. DEFINE t == ReadLanes(s, 0)
            e == s.emitted
            y == ReadOut(s, 0)
<1>1. 0 \in 0 .. Rate - s.pos /\ s.pos + 0 = s.pos /\ e \in Seq(Outputs)
  BY Constants DEF Sponges
<1>2. /\ t \in Sponges /\ t.past = s.past /\ t.added = s.added /\ t.mode = s.mode
      /\ t.pos = s.pos /\ t.absorbed = s.absorbed /\ t.emitted = e \o y
      /\ t.skips = s.skips /\ y \in Seq(Outputs) /\ Len(y) = 0
  BY <1>1, ReadFields
<1>. HIDE DEF t, y, e
<1>3. e \o y = e
  BY <1>1, <1>2, ConcatIs
<1>4. t = s
  BY <1>2, <1>3, SameSponge DEF e
<1>. QED
  BY <1>4 DEF t

(* Two squeezes in a row are one, when no block is skipped and the second  *)
(* is not an empty one that finds its block drained.                       *)
LEMMA SqueezeCalls ==
  ASSUME NEW s \in Sponges, NEW a \in Nat, NEW b \in Nat,
         convention.spill_permute = "ALWAYS",
         ~(b = 0 /\ SqueezeOut(s, a).pos = Rate)
  PROVE  SqueezeOut(SqueezeOut(s, a), b) = SqueezeOut(s, a + b)
<1>. DEFINE u == SwitchToSqueeze(s)
            w == SqueezeFromRate(u, a)
            t == Moded(w, "squeezing")
            x == SqueezeFromRate(w, b)
<1>1. u \in Sponges /\ w \in Sponges /\ x \in Sponges
  BY Turns, SqueezeFields
<1>2. /\ SqueezeOut(s, a) = t
      /\ SqueezeOut(s, a + b) = Moded(SqueezeFromRate(u, a + b), "squeezing")
  BY DEF SqueezeOut, Moded
<1>3. t \in Sponges /\ t.mode = "squeezing"
  BY <1>1, ModedFields
<1>4. SqueezeFromRate(t, b) = Moded(x, "squeezing")
  BY <1>1, SqueezeModed
<1>. HIDE DEF t
<1>5. x = SqueezeFromRate(u, a + b)
  BY <1>1, SqueezesCompose
<1>6. Moded(Moded(x, "squeezing"), "squeezing") = Moded(x, "squeezing")
  BY <1>1 DEF Sponges, Moded
<1>7. SqueezeFromRate(SwitchToSqueeze(t), b) = SqueezeFromRate(t, b)
  <2>1. CASE t.pos # Rate
    BY <1>3, <2>1 DEF SwitchToSqueeze
  <2>2. CASE t.pos = Rate
    <3>1. b > 0 /\ Rate - t.pos = 0 /\ b - 0 = b
      BY <1>2, <2>2, Constants
    <3>2. SqueezeFromRate(t, b) = SqueezeFromRate(Drained(t, b), b)
      <4>1. SqueezeFromRate(t, b) = SqueezeFromRate(Drained(t, b), b - (Rate - t.pos))
        BY <1>3, <3>1, SqueezeLaw
      <4>. QED
        BY <3>1, <4>1
    <3>3. Drained(t, b) = Rewind(Permute(t))
      BY <1>3, <3>1, ReadNone DEF Drained, Skips
    <3>4. SwitchToSqueeze(t) = Rewind(Permute(t))
      BY <2>2 DEF SwitchToSqueeze
    <3>. QED
      BY <3>2, <3>3, <3>4
  <2>. QED
    BY <2>1, <2>2
<1>8. SqueezeOut(t, b) = Moded(SqueezeFromRate(SwitchToSqueeze(t), b), "squeezing")
  BY DEF SqueezeOut, Moded
<1>. QED
  BY <1>2, <1>4, <1>5, <1>6, <1>7, <1>8

----------------------------------------------------------------------------
(* What is true of the sponge whatever it has been through.                *)

(* Nothing enters or leaves the state but at the rate.                     *)
Confined(s) ==
  /\ \A lane \in Lanes \ RateLanes :
       s.added[lane] = {} /\ \A i \in 1 .. Len(s.past) : s.past[i][lane] = {}
  /\ \A i \in 1 .. Len(s.emitted) : s.emitted[i].lane \in RateLanes

(* What has been added has been counted.                                   *)
Counted(s) == \A lane \in Lanes : s.added[lane] \subseteq 0 .. s.absorbed - 1

(* What was read was read from a mixed state, and of this past.            *)
Mixed(s) ==
  \A i \in 1 .. Len(s.emitted) :
    /\ s.emitted[i].added = {} /\ s.emitted[i].past # <<>>
    /\ Len(s.emitted[i].past) <= Len(s.past)

SkipsOffset(s) == 0 \notin s.skips /\ (convention.spill_permute = "ALWAYS" => s.skips = {})

(* What was read came out in the order of the states, then of the lanes:   *)
(* this is why no lane is given out twice.                                 *)
Before(e, f) ==
  \/ Len(e.past) < Len(f.past)
  \/ Len(e.past) = Len(f.past) /\ e.lane < f.lane

Ordered(s) ==
  s.skips = {} => \A i, j \in 1 .. Len(s.emitted) :
                    i < j => Before(s.emitted[i], s.emitted[j])

Sound(s) == Confined(s) /\ Counted(s) /\ Mixed(s) /\ SkipsOffset(s) /\ Ordered(s)

(* A sponge about to give lanes out: it has been mixed, and the lanes from *)
(* its position on are still to be read.                                   *)
Turned(s) ==
  /\ s.added = NothingAdded /\ s.past # <<>>
  /\ s.skips = {} => \A i \in 1 .. Len(s.emitted) :
                       \/ Len(s.emitted[i].past) < Len(s.past)
                       \/ Len(s.emitted[i].past) = Len(s.past)
                            /\ s.emitted[i].lane < RateBase + s.pos

(* A sponge that may be added to where both turns permute.                 *)
Unread(s) ==
  convention.switch_permute = "BOTH_DIRECTIONS" =>
    \A i \in 1 .. Len(s.emitted) : Len(s.emitted[i].past) < Len(s.past)

(* The lengths the order speaks of.                                        *)
LEMMA Lengths ==
  ASSUME NEW s \in Sponges
  PROVE  /\ Len(s.past) \in Nat /\ Len(s.emitted) \in Nat
         /\ s.past \in Seq(BlockValues) /\ s.emitted \in Seq(Outputs) /\ s.added \in BlockValues
         /\ s.pos \in 0 .. Rate /\ s.absorbed \in Nat
         /\ \A i \in 1 .. Len(s.emitted) :
              /\ s.emitted[i] \in Outputs
              /\ Len(s.emitted[i].past) \in Nat /\ s.emitted[i].lane \in Int
<1>1. s.past \in Seq(BlockValues) /\ s.emitted \in Seq(Outputs) /\ s.added \in BlockValues
      /\ s.pos \in 0 .. Rate /\ s.absorbed \in Nat
  BY DEF Sponges
<1>2. \A i \in 1 .. Len(s.emitted) : s.emitted[i] \in Outputs
  BY <1>1
<1>3. \A e \in Outputs : Len(e.past) \in Nat /\ e.lane \in Int
  BY DEF Outputs
<1>. QED
  BY <1>1, <1>2, <1>3

(* A permutation keeps the record sound, and readies it either way.        *)
LEMMA SoundPermuted ==
  ASSUME NEW s \in Sponges, Sound(s)
  PROVE  /\ Sound(Rewind(Permute(s))) /\ Turned(Rewind(Permute(s)))
         /\ Unread(Rewind(Permute(s)))
<1>. DEFINE t == Rewind(Permute(s))
<1>1. /\ t \in Sponges /\ t.past = Append(s.past, s.added) /\ t.added = NothingAdded
      /\ t.pos = 0 /\ t.absorbed = s.absorbed /\ t.emitted = s.emitted
      /\ t.skips = s.skips
  BY PermuteFields, RewindFields
<1>. HIDE DEF t
<1>2. /\ Len(t.past) = Len(s.past) + 1 /\ t.past # <<>>
      /\ \A i \in 1 .. Len(t.past) :
           t.past[i] = IF i <= Len(s.past) THEN s.past[i] ELSE s.added
  <2>. DEFINE p == s.past
              e == s.added
  <2>1. p \in Seq(BlockValues) /\ e \in BlockValues
    BY Lengths
  <2>. HIDE DEF p, e
  <2>2. /\ Len(Append(p, e)) = Len(p) + 1 /\ Append(p, e) # <<>>
        /\ \A i \in 1 .. Len(p) + 1 : Append(p, e)[i] = IF i <= Len(p) THEN p[i] ELSE e
    BY <2>1, AppendElements
  <2>3. t.past = Append(p, e)
    BY <1>1 DEF p, e
  <2>. QED
    BY <2>2, <2>3 DEF p, e
<1>3. Confined(t)
  <2>1. ASSUME NEW lane \in Lanes \ RateLanes, NEW i \in 1 .. Len(t.past)
        PROVE  t.past[i][lane] = {}
    <3>1. CASE i <= Len(s.past)
      <4>1. i \in 1 .. Len(s.past) /\ t.past[i] = s.past[i]
        BY <1>2, <3>1, Lengths
      <4>. QED
        BY <4>1 DEF Sound, Confined
    <3>2. CASE ~(i <= Len(s.past))
      BY <1>2, <3>2 DEF Sound, Confined
    <3>. QED
      BY <3>1, <3>2
  <2>2. \A lane \in Lanes : t.added[lane] = {}
    BY <1>1 DEF NothingAdded
  <2>. QED
    BY <1>1, <2>1, <2>2 DEF Sound, Confined
<1>4. Counted(t)
  BY <1>1 DEF Counted, NothingAdded
<1>5. \A i \in 1 .. Len(t.emitted) : Len(t.emitted[i].past) < Len(t.past)
  BY <1>1, <1>2, Lengths DEF Sound, Mixed
<1>6. Mixed(t)
  BY <1>1, <1>2, <1>5, Lengths DEF Sound, Mixed
<1>7. SkipsOffset(t) /\ Ordered(t)
  BY <1>1 DEF Sound, SkipsOffset, Ordered
<1>8. Turned(t) /\ Unread(t)
  BY <1>1, <1>2, <1>5 DEF Turned, Unread
<1>. QED
  BY <1>3, <1>4, <1>6, <1>7, <1>8 DEF t, Sound

(* So does a rewind, and a change of mode.                                 *)
LEMMA SoundSame ==
  ASSUME NEW s \in Sponges, NEW t \in Sponges, Sound(s),
         t.past = s.past, t.added = s.added, t.absorbed = s.absorbed,
         t.emitted = s.emitted, t.skips = s.skips
  PROVE  /\ Sound(t)
         /\ t.pos = s.pos /\ Turned(s) => Turned(t)
         /\ Unread(s) => Unread(t)
BY DEF Sound, Confined, Counted, Mixed, SkipsOffset, Ordered, Turned, Unread

(* So does adding elements to a block.                                     *)
LEMMA SoundAdded ==
  ASSUME NEW s \in Sponges, Sound(s), NEW n \in 0 .. Rate - s.pos
  PROVE  /\ Sound(AddElements(s, n))
         /\ Unread(s) => Unread(AddElements(s, n))
<1>. DEFINE t == AddElements(s, n)
<1>1. /\ t \in Sponges /\ t.past = s.past
      /\ t.added = [lane \in Lanes |-> AddedTo(s, n, lane)]
      /\ t.absorbed = s.absorbed + n /\ t.emitted = s.emitted /\ t.skips = s.skips
  BY AddFields
<1>. HIDE DEF t
<1>2. ASSUME NEW lane \in Lanes, lane - RateBase - s.pos \in 0 .. n - 1
      PROVE  lane \in RateLanes
  <2>1. lane - RateBase \in 0 .. Rate - 1 /\ RateBase + (lane - RateBase) = lane
    BY <1>2, Lengths, Constants, RateBaseInt DEF Lanes
  <2>. QED
    BY <2>1, RateIsLanes
<1>3. Confined(t)
  <2>1. \A lane \in Lanes \ RateLanes : t.added[lane] = s.added[lane]
    BY <1>1, <1>2 DEF AddedTo
  <2>. QED
    BY <1>1, <2>1 DEF Sound, Confined
<1>4. Counted(t)
  <2>1. ASSUME NEW lane \in Lanes
        PROVE  t.added[lane] \subseteq 0 .. t.absorbed - 1
    <3>1. s.added[lane] \subseteq 0 .. s.absorbed - 1 /\ s.absorbed \in Nat /\ n \in Nat
      BY Lengths DEF Sound, Counted
    <3>2. s.added[lane] \subseteq 0 .. t.absorbed - 1
      BY <1>1, <3>1
    <3>3. lane - RateBase - s.pos \in 0 .. n - 1 =>
            s.absorbed + (lane - RateBase - s.pos) \in 0 .. t.absorbed - 1
      BY <1>1, <3>1
    <3>4. t.added[lane] = AddedTo(s, n, lane)
      BY <1>1
    <3>. QED
      BY <3>2, <3>3, <3>4 DEF AddedTo
  <2>. QED
    BY <2>1 DEF Counted
<1>5. Mixed(t) /\ SkipsOffset(t) /\ Ordered(t) /\ (Unread(s) => Unread(t))
  BY <1>1 DEF Sound, Mixed, SkipsOffset, Ordered, Unread
<1>. QED
  BY <1>3, <1>4, <1>5 DEF t, Sound

(* And so does reading lanes, of a sponge turned to give them out.         *)
LEMMA SoundRead ==
  ASSUME NEW s \in Sponges, Sound(s), Turned(s), NEW n \in 0 .. Rate - s.pos
  PROVE  Sound(ReadLanes(s, n)) /\ Turned(ReadLanes(s, n))
<1>. DEFINE t == ReadLanes(s, n)
            y == ReadOut(s, n)
            l == Len(s.emitted)
<1>1. /\ t \in Sponges /\ t.past = s.past /\ t.added = s.added
      /\ t.pos = s.pos + n /\ t.absorbed = s.absorbed
      /\ t.emitted = s.emitted \o y /\ t.skips = s.skips
      /\ y \in Seq(Outputs) /\ Len(y) = n
  BY ReadFields
<1>2. ASSUME NEW i \in 1 .. n
      PROVE  /\ y[i].past = s.past /\ y[i].added = {} /\ y[i].lane \in RateLanes
             /\ y[i].lane = RateBase + s.pos + i - 1
  <2>1. /\ s.pos + i - 1 \in 0 .. Rate - 1
        /\ RateBase + (s.pos + i - 1) = RateBase + s.pos + i - 1
    BY Lengths, Constants, RateBaseInt
  <2>2. RateBase + s.pos + i - 1 \in Lanes /\ RateBase + s.pos + i - 1 \in RateLanes
    BY <2>1, RateIsLanes
  <2>3. y[i] = OutputAt(s, i)
    BY DEF ReadOut
  <2>4. s.added[RateBase + s.pos + i - 1] = {}
    BY <2>2 DEF Turned, NothingAdded
  <2>. QED
    BY <2>2, <2>3, <2>4 DEF OutputAt
<1>. HIDE DEF t, y
<1>3. /\ l \in Nat /\ n \in Nat /\ Len(t.emitted) = l + n
      /\ \A i \in 1 .. l : t.emitted[i] = s.emitted[i]
      /\ \A i \in 1 .. l + n : i > l => i - l \in 1 .. n /\ t.emitted[i] = y[i - l]
  <2>. DEFINE e == s.emitted
  <2>1. e \in Seq(Outputs) /\ l = Len(e) /\ l \in Nat
    BY Lengths
  <2>4. e \in Seq(Outputs) /\ y \in Seq(Outputs)
    BY <1>1, <2>1
  <2>. HIDE DEF e, l
  <2>2. /\ Len(e \o y) = Len(e) + Len(y)
        /\ \A i \in 1 .. Len(e) : (e \o y)[i] = e[i]
        /\ \A i \in 1 .. Len(e) + Len(y) :
             i > Len(e) => i - Len(e) \in 1 .. Len(y) /\ (e \o y)[i] = y[i - Len(e)]
    BY <2>4, ConcatElements
  <2>3. t.emitted = e \o y
    BY <1>1 DEF e
  <2>. QED
    BY <1>1, <2>1, <2>2, <2>3 DEF e
<1>. HIDE DEF l
<1>4. \A i \in 1 .. l + n : i <= l => i \in 1 .. l
  BY <1>3
<1>5. ASSUME NEW i \in 1 .. l + n
      PROVE  /\ t.emitted[i].lane \in RateLanes /\ t.emitted[i].added = {}
             /\ t.emitted[i].past # <<>> /\ Len(t.emitted[i].past) <= Len(t.past)
             /\ s.skips = {} => \/ Len(t.emitted[i].past) < Len(t.past)
                                \/ Len(t.emitted[i].past) = Len(t.past)
                                     /\ t.emitted[i].lane < RateBase + t.pos
  <2>0. i \in Nat /\ RateBase \in Int /\ s.pos \in Nat /\ Len(s.past) \in Nat
    BY <1>3, Lengths, RateBaseInt
  <2>1. CASE i <= l
    <3>1. i \in 1 .. Len(s.emitted) /\ t.emitted[i] = s.emitted[i]
      BY <1>3, <1>4, <2>1 DEF l
    <3>2. Len(s.emitted[i].past) \in Nat /\ s.emitted[i].lane \in Int
      BY <3>1, Lengths
    <3>3. s.skips = {} => \/ Len(s.emitted[i].past) < Len(s.past)
                          \/ Len(s.emitted[i].past) = Len(s.past)
                               /\ s.emitted[i].lane < RateBase + s.pos
      BY <3>1 DEF Turned
    <3>4. s.emitted[i].lane < RateBase + s.pos => s.emitted[i].lane < RateBase + t.pos
      BY <1>1, <1>3, <2>0, <3>2
    <3>5. /\ s.emitted[i].lane \in RateLanes /\ s.emitted[i].added = {}
          /\ s.emitted[i].past # <<>> /\ Len(s.emitted[i].past) <= Len(s.past)
      BY <3>1 DEF Sound, Confined, Mixed
    <3>. QED
      BY <1>1, <3>1, <3>3, <3>4, <3>5
  <2>2. CASE i > l
    <3>1. i - l \in 1 .. n /\ t.emitted[i] = y[i - l]
      BY <1>3, <2>2
    <3>2. /\ t.emitted[i].past = s.past /\ t.emitted[i].added = {}
          /\ t.emitted[i].lane \in RateLanes
          /\ t.emitted[i].lane = RateBase + s.pos + (i - l) - 1
      BY <1>2, <3>1
    <3>3. RateBase + s.pos + (i - l) - 1 < RateBase + t.pos
      BY <1>1, <1>3, <2>0, <3>1
    <3>. QED
      BY <1>1, <2>0, <3>2, <3>3 DEF Turned
  <2>. QED
    BY <1>3, <2>0, <2>1, <2>2
<1>6. ASSUME s.skips = {}, NEW i \in 1 .. l + n, NEW j \in 1 .. l + n, i < j
      PROVE  Before(t.emitted[i], t.emitted[j])
  <2>0. i \in Nat /\ j \in Nat /\ RateBase \in Int /\ s.pos \in Nat /\ Len(s.past) \in Nat
    BY <1>3, Lengths, RateBaseInt
  <2>1. CASE j <= l
    <3>1. i \in 1 .. Len(s.emitted) /\ j \in 1 .. Len(s.emitted)
      BY <1>3, <1>6, <2>0, <2>1 DEF l
    <3>2. t.emitted[i] = s.emitted[i] /\ t.emitted[j] = s.emitted[j]
      BY <1>3, <3>1 DEF l
    <3>. QED
      BY <1>6, <3>1, <3>2 DEF Sound, Ordered
  <2>2. CASE j > l
    <3>1. /\ t.emitted[j].past = s.past
          /\ t.emitted[j].lane = RateBase + s.pos + (j - l) - 1
      BY <1>2, <1>3, <2>2
    <3>2. CASE i <= l
      <4>1. i \in 1 .. Len(s.emitted) /\ t.emitted[i] = s.emitted[i]
        BY <1>3, <1>4, <3>2 DEF l
      <4>2. Len(s.emitted[i].past) \in Nat /\ s.emitted[i].lane \in Int
        BY <4>1, Lengths
      <4>3. \/ Len(s.emitted[i].past) < Len(s.past)
            \/ Len(s.emitted[i].past) = Len(s.past) /\ s.emitted[i].lane < RateBase + s.pos
        BY <1>6, <4>1 DEF Turned
      <4>4. RateBase + s.pos <= RateBase + s.pos + (j - l) - 1
        BY <1>3, <2>0, <2>2
      <4>5. s.emitted[i].lane < RateBase + s.pos =>
              s.emitted[i].lane < RateBase + s.pos + (j - l) - 1
        BY <1>3, <2>0, <4>2, <4>4
      <4>. QED
        BY <3>1, <4>1, <4>3, <4>5 DEF Before
    <3>3. CASE i > l
      <4>1. /\ t.emitted[i].past = s.past
            /\ t.emitted[i].lane = RateBase + s.pos + (i - l) - 1
        BY <1>2, <1>3, <3>3
      <4>2. RateBase + s.pos + (i - l) - 1 < RateBase + s.pos + (j - l) - 1
        BY <1>3, <1>6, <2>0
      <4>. QED
        BY <3>1, <4>1, <4>2 DEF Before
    <3>. QED
      BY <1>3, <2>0, <3>2, <3>3
  <2>. QED
    BY <1>3, <2>0, <2>1, <2>2
<1>7. Confined(t) /\ Counted(t) /\ Mixed(t) /\ SkipsOffset(t)
  BY <1>1, <1>3, <1>5 DEF Sound, Confined, Counted, Mixed, SkipsOffset
<1>8. Ordered(t)
  BY <1>1, <1>3, <1>6 DEF Ordered
<1>9. Turned(t)
  BY <1>1, <1>3, <1>5 DEF Turned
<1>. QED
  BY <1>7, <1>8, <1>9 DEF t, Sound

(* A spill leaves the record sound, and nothing read from the new state.   *)
LEMMA SoundSpilled ==
  ASSUME NEW s \in Sponges, Sound(s)
  PROVE  Sound(Spill(s)) /\ Unread(Spill(s))
<1>1. Rate - s.pos \in 0 .. Rate - s.pos
  BY Constants, Lengths
<1>2. AddElements(s, Rate - s.pos) \in Sponges /\ Sound(AddElements(s, Rate - s.pos))
  BY <1>1, AddFields, SoundAdded
<1>. QED
  BY <1>2, SoundPermuted DEF Spill

(* So does draining a block; a skip leaves it recorded, off the start of   *)
(* the block.                                                              *)
LEMMA SoundDrained ==
  ASSUME NEW s \in Sponges, Sound(s), Turned(s), NEW n \in Nat, n > Rate - s.pos
  PROVE  Sound(Drained(s, n)) /\ Turned(Drained(s, n))
<1>. DEFINE block == ReadLanes(s, Rate - s.pos)
            t == Drained(s, n)
<1>1. Rate - s.pos \in 0 .. Rate - s.pos /\ s.pos \in 0 .. Rate
  BY Constants, Lengths
<1>2. /\ block \in Sponges /\ Sound(block) /\ Turned(block)
      /\ block.past = s.past /\ block.added = s.added
      /\ block.absorbed = s.absorbed
      /\ block.emitted = s.emitted \o ReadOut(s, Rate - s.pos)
      /\ block.skips = s.skips
  BY <1>1, ReadFields, SoundRead
<1>3. CASE Skips(s.pos, n)
  <2>1. s.pos # 0 /\ convention.spill_permute # "ALWAYS"
    BY <1>1, <1>3 DEF Skips
  <2>2. /\ t \in Sponges /\ t.past = block.past /\ t.added = block.added
        /\ t.absorbed = block.absorbed /\ t.emitted = block.emitted
        /\ t.skips = block.skips \cup {s.pos}
    BY <1>2, <1>3, DrainedFields
  <2>. HIDE DEF t, block
  <2>3. Confined(t) /\ Counted(t) /\ Mixed(t)
    BY <1>2, <2>2 DEF Sound, Confined, Counted, Mixed
  <2>4. t.skips # {} /\ 0 \notin t.skips
    BY <1>2, <2>1, <2>2 DEF Sound, SkipsOffset
  <2>5. SkipsOffset(t) /\ Ordered(t)
    BY <2>1, <2>4 DEF SkipsOffset, Ordered
  <2>6. Turned(t)
    BY <1>2, <2>2, <2>4 DEF Turned
  <2>. QED
    BY <2>3, <2>5, <2>6 DEF Sound, t
<1>4. CASE ~Skips(s.pos, n)
  <2>1. t = Rewind(Permute(block))
    BY <1>4 DEF Drained
  <2>. QED
    BY <1>2, <2>1, SoundPermuted
<1>. QED
  BY <1>3, <1>4

(* Whole absorbs and squeezes keep the record sound.                       *)
LEMMA SoundAbsorbed ==
  \A s \in Sponges, n \in Nat :
    /\ Sound(s) => Sound(AbsorbIntoRate(s, n))
    /\ Sound(s) /\ Unread(s) => Unread(AbsorbIntoRate(s, n))
<1>. DEFINE Good(s, n) ==
              /\ Sound(s) => Sound(AbsorbIntoRate(s, n))
              /\ Sound(s) /\ Unread(s) => Unread(AbsorbIntoRate(s, n))
            P == {p \in Sponges \X Nat : Good(p[1], p[2])}
<1>1. ASSUME NEW s \in Sponges, NEW n \in Nat, n <= Rate - s.pos
      PROVE  <<s, n>> \in P
  <2>1. n \in 0 .. Rate - s.pos
    BY <1>1
  <2>2. Good(s, n)
    BY <1>1, <2>1, AbsorbLaw, SoundAdded
  <2>. QED
    BY <2>2
<1>2. ASSUME NEW s \in Sponges, NEW n \in Nat, n > Rate - s.pos,
             \A t \in Sponges : t.pos = 0 => <<t, n - (Rate - s.pos)>> \in P
      PROVE  <<s, n>> \in P
  <2>. DEFINE m == n - (Rate - s.pos)
              t == Spill(s)
  <2>1. t \in Sponges /\ t.pos = 0
    BY SpillFields
  <2>2. Good(t, m)
    <3>. HIDE DEF Good, t
    <3>. QED
      BY <1>2, <2>1
  <2>3. AbsorbIntoRate(s, n) = AbsorbIntoRate(t, m)
    BY <1>2, AbsorbLaw
  <2>4. Sound(s) => Sound(t) /\ Unread(t)
    BY SoundSpilled
  <2>. HIDE DEF t, m
  <2>5. Good(s, n)
    BY <2>2, <2>3, <2>4
  <2>. QED
    BY <2>5
<1>3. \A s \in Sponges, n \in Nat : <<s, n>> \in P
  <2>. HIDE DEF P
  <2>. QED
    BY <1>1, <1>2, BlockInduction
<1>. QED
  BY <1>3

(* A squeeze of any length after the turn leaves a sound sponge.           *)
LEMMA SoundSqueezed ==
  \A s \in Sponges, n \in Nat : Sound(s) /\ Turned(s) =>
    Sound(SqueezeFromRate(s, n)) /\ Turned(SqueezeFromRate(s, n))
<1>. DEFINE Good(s, n) ==
              Sound(s) /\ Turned(s) =>
                Sound(SqueezeFromRate(s, n)) /\ Turned(SqueezeFromRate(s, n))
            P == {p \in Sponges \X Nat : Good(p[1], p[2])}
<1>1. ASSUME NEW s \in Sponges, NEW n \in Nat, n <= Rate - s.pos
      PROVE  <<s, n>> \in P
  <2>1. n \in 0 .. Rate - s.pos
    BY <1>1
  <2>2. Good(s, n)
    BY <1>1, <2>1, SqueezeLaw, SoundRead
  <2>. QED
    BY <2>2
<1>2. ASSUME NEW s \in Sponges, NEW n \in Nat, n > Rate - s.pos,
             \A t \in Sponges : t.pos = 0 => <<t, n - (Rate - s.pos)>> \in P
      PROVE  <<s, n>> \in P
  <2>. DEFINE m == n - (Rate - s.pos)
              t == Drained(s, n)
  <2>1. t \in Sponges /\ t.pos = 0
    BY DrainedFields
  <2>2. Good(t, m)
    <3>. HIDE DEF Good, t
    <3>. QED
      BY <1>2, <2>1
  <2>3. SqueezeFromRate(s, n) = SqueezeFromRate(t, m)
    BY <1>2, SqueezeLaw
  <2>4. Sound(s) /\ Turned(s) => Sound(t) /\ Turned(t)
    BY <1>2, SoundDrained
  <2>. HIDE DEF t, m
  <2>5. Good(s, n)
    BY <2>2, <2>3, <2>4
  <2>. QED
    BY <2>5
<1>3. \A s \in Sponges, n \in Nat : <<s, n>> \in P
  <2>. HIDE DEF P
  <2>. QED
    BY <1>1, <1>2, BlockInduction
<1>. QED
  BY <1>3

(* A sponge is ready for what its mode says was done last.                 *)
Ready(s) ==
  /\ s.mode = "squeezing" => Turned(s)
  /\ s.mode = "absorbing" => Unread(s)

(* And so do whole calls, which leave it ready.                            *)
LEMMA SoundCalls ==
  ASSUME NEW s \in Sponges, Sound(s), Ready(s), NEW n \in Nat
  PROVE  /\ Sound(AbsorbInto(s, n)) /\ Ready(AbsorbInto(s, n))
         /\ Sound(SqueezeOut(s, n)) /\ Ready(SqueezeOut(s, n))
<1>1. Sound(AbsorbInto(s, n)) /\ Ready(AbsorbInto(s, n))
  <2>1. CASE n = 0
    BY <2>1 DEF AbsorbInto
  <2>2. CASE n > 0
    <3>. DEFINE u == SwitchToAbsorb(s)
                w == AbsorbIntoRate(u, n)
                t == Moded(w, "absorbing")
    <3>1. u \in Sponges /\ w \in Sponges
      BY Turns, AbsorbFields
    <3>2. Sound(u) /\ Unread(u)
      <4>1. CASE s.mode # "squeezing"
        BY <4>1 DEF SwitchToAbsorb, Ready, Sponges
      <4>2. CASE s.mode = "squeezing" /\ convention.switch_permute = "BOTH_DIRECTIONS"
        BY <4>2, SoundPermuted DEF SwitchToAbsorb
      <4>3. CASE s.mode = "squeezing" /\ convention.switch_permute # "BOTH_DIRECTIONS"
        <5>1. u = Rewind(s)
          BY <4>3 DEF SwitchToAbsorb
        <5>2. /\ u.past = s.past /\ u.added = s.added /\ u.absorbed = s.absorbed
              /\ u.emitted = s.emitted /\ u.skips = s.skips
          BY <5>1, RewindFields
        <5>. HIDE DEF u
        <5>3. Sound(u)
          BY <3>1, <5>2, SoundSame
        <5>. QED
          BY <4>3, <5>3 DEF Unread
      <4>. QED
        BY <4>1, <4>2, <4>3
    <3>. HIDE DEF u
    <3>3. Sound(w) /\ Unread(w)
      BY <3>1, <3>2, SoundAbsorbed
    <3>4. AbsorbInto(s, n) = t
      BY <2>2 DEF AbsorbInto, Moded, u
    <3>. HIDE DEF w
    <3>5. /\ t \in Sponges /\ t.past = w.past /\ t.added = w.added /\ t.absorbed = w.absorbed
          /\ t.emitted = w.emitted /\ t.skips = w.skips /\ t.mode = "absorbing"
      BY <3>1, ModedFields
    <3>. HIDE DEF t
    <3>6. Sound(t) /\ Unread(t)
      BY <3>1, <3>3, <3>5, SoundSame
    <3>. QED
      BY <3>4, <3>5, <3>6 DEF Ready
  <2>. QED
    BY <2>1, <2>2
<1>2. Sound(SqueezeOut(s, n)) /\ Ready(SqueezeOut(s, n))
  <2>. DEFINE u == SwitchToSqueeze(s)
              w == SqueezeFromRate(u, n)
              t == Moded(w, "squeezing")
  <2>1. u \in Sponges /\ w \in Sponges
    BY Turns, SqueezeFields
  <2>2. Sound(u) /\ Turned(u)
    <3>1. CASE s.mode = "absorbing" \/ s.pos = Rate
      BY <3>1, SoundPermuted DEF SwitchToSqueeze
    <3>2. CASE ~(s.mode = "absorbing" \/ s.pos = Rate)
      BY <3>2 DEF SwitchToSqueeze, Ready, Sponges
    <3>. QED
      BY <3>1, <3>2
  <2>. HIDE DEF u
  <2>3. Sound(w) /\ Turned(w)
    BY <2>1, <2>2, SoundSqueezed
  <2>4. SqueezeOut(s, n) = t
    BY DEF SqueezeOut, Moded, u
  <2>. HIDE DEF w
  <2>5. /\ t \in Sponges /\ t.past = w.past /\ t.added = w.added /\ t.absorbed = w.absorbed
        /\ t.emitted = w.emitted /\ t.skips = w.skips /\ t.mode = "squeezing"
        /\ t.pos = w.pos
    BY <2>1, ModedFields
  <2>. HIDE DEF t
  <2>6. Sound(t) /\ Turned(t)
    BY <2>1, <2>3, <2>5, SoundSame
  <2>. QED
    BY <2>4, <2>5, <2>6 DEF Ready
<1>. QED
  BY <1>1, <1>2

----------------------------------------------------------------------------
(* The convention never changes, so a call means the same after a step as  *)
(* before it.                                                              *)

BlockMeaning ==
  \A s \in Sponges, n \in Nat :
    /\ s.pos \in 0 .. Rate
    /\ Spill(s) \in Sponges /\ Spill(s).pos = 0
    /\ Drained(s, n) \in Sponges /\ Drained(s, n).pos = 0
    /\ n <= Rate - s.pos =>
         /\ AbsorbIntoRate(s, n) = AddElements(s, n)
         /\ SqueezeFromRate(s, n) = ReadLanes(s, n)
    /\ n > Rate - s.pos =>
         /\ AbsorbIntoRate(s, n) = AbsorbIntoRate(Spill(s), n - (Rate - s.pos))
         /\ SqueezeFromRate(s, n) = SqueezeFromRate(Drained(s, n), n - (Rate - s.pos))

(* The two laws,                                                           *)
LEMMA Blockwise == BlockMeaning
BY AbsorbLaw, SqueezeLaw, SpillFields, DrainedFields, Lengths DEF BlockMeaning

(* and, holding of every state, of the next one too.                       *)
LEMMA NextBlockwise == BlockMeaning'
BY Blockwise, PTL

(* The elementary steps.                                                   *)
LEMMA SameSteps ==
  ASSUME convention' = convention
  PROVE  \A s, n :
           /\ AddElements(s, n)' = AddElements(s, n)
           /\ ReadLanes(s, n)' = ReadLanes(s, n)
           /\ Spill(s)' = Spill(s)
           /\ Drained(s, n)' = Drained(s, n)
           /\ SwitchToAbsorb(s)' = SwitchToAbsorb(s)
           /\ SwitchToSqueeze(s)' = SwitchToSqueeze(s)
<1>1. RateBase' = RateBase
  BY DEF RateBase
<1>2. \A s, n : AddElements(s, n)' = AddElements(s, n)
  BY <1>1 DEF AddElements, Lanes
<1>3. \A s, n : ReadLanes(s, n)' = ReadLanes(s, n)
  BY <1>1 DEF ReadLanes
<1>4. \A s : Spill(s)' = Spill(s)
  BY <1>2 DEF Spill, Rewind, Permute, NothingAdded
<1>5. \A s, n : Drained(s, n)' = Drained(s, n)
  BY <1>3 DEF Drained, Skips, Rewind, Permute, NothingAdded
<1>6. \A s : SwitchToAbsorb(s)' = SwitchToAbsorb(s)
  BY DEF SwitchToAbsorb, Rewind, Permute, NothingAdded
<1>7. \A s : SwitchToSqueeze(s)' = SwitchToSqueeze(s)
  BY DEF SwitchToSqueeze, Rewind, Permute, NothingAdded
<1>. QED
  BY <1>2, <1>3, <1>4, <1>5, <1>6, <1>7

(* The calls.                                                              *)
LEMMA SameCalls ==
  ASSUME convention' = convention
  PROVE  \A s \in Sponges, n \in Nat :
           /\ AbsorbInto(s, n)' = AbsorbInto(s, n)
           /\ SqueezeOut(s, n)' = SqueezeOut(s, n)
<1>. DEFINE Good(s, n) == /\ AbsorbIntoRate(s, n)' = AbsorbIntoRate(s, n)
                          /\ SqueezeFromRate(s, n)' = SqueezeFromRate(s, n)
            P == {p \in Sponges \X Nat : Good(p[1], p[2])}
<1>1. ASSUME NEW s \in Sponges, NEW n \in Nat, n <= Rate - s.pos
      PROVE  <<s, n>> \in P
  <2>1. Good(s, n)
    BY <1>1, Blockwise, NextBlockwise, SameSteps DEF BlockMeaning
  <2>. QED
    BY <2>1
<1>2. ASSUME NEW s \in Sponges, NEW n \in Nat, n > Rate - s.pos,
             \A t \in Sponges : t.pos = 0 => <<t, n - (Rate - s.pos)>> \in P
      PROVE  <<s, n>> \in P
  <2>. DEFINE m == n - (Rate - s.pos)
  <2>1. /\ Spill(s) \in Sponges /\ Spill(s).pos = 0
        /\ Drained(s, n) \in Sponges /\ Drained(s, n).pos = 0
    BY Blockwise DEF BlockMeaning
  <2>2. Good(Spill(s), m) /\ Good(Drained(s, n), m)
    <3>. HIDE DEF Good
    <3>. QED
      BY <1>2, <2>1
  <2>3. /\ AbsorbIntoRate(s, n) = AbsorbIntoRate(Spill(s), m)
        /\ SqueezeFromRate(s, n) = SqueezeFromRate(Drained(s, n), m)
    BY <1>2, Blockwise DEF BlockMeaning
  <2>4. /\ AbsorbIntoRate(s, n)' = AbsorbIntoRate(Spill(s), m)'
        /\ SqueezeFromRate(s, n)' = SqueezeFromRate(Drained(s, n), m)'
    BY <1>2, NextBlockwise DEF BlockMeaning
  <2>5. Spill(s)' = Spill(s) /\ Drained(s, n)' = Drained(s, n)
    BY SameSteps
  <2>6. /\ AbsorbIntoRate(s, n)' = AbsorbIntoRate(s, n)
        /\ SqueezeFromRate(s, n)' = SqueezeFromRate(s, n)
    BY <2>2, <2>3, <2>4, <2>5
  <2>. QED
    BY <2>6
<1>3. \A s \in Sponges, n \in Nat : <<s, n>> \in P
  <2>. HIDE DEF P
  <2>. QED
    BY <1>1, <1>2, BlockInduction
<1>4. \A s \in Sponges, n \in Nat : Good(s, n)
  BY <1>3
<1>. QED
  BY <1>4, Turns, SameSteps DEF AbsorbInto, SqueezeOut

----------------------------------------------------------------------------
(* The replay of a script, one call for each of its runs.                  *)

Runs == [direction : {"absorb", "squeeze"}, n : Nat]

ReplayOf(f, runs) ==
  /\ f \in [0 .. Len(runs) -> Sponges]
  /\ f[0] = Fresh
  /\ \A k \in 1 .. Len(runs) : f[k] = OneCall(f[k - 1], runs[k])

(* A new sponge is sound.                                                  *)
LEMMA FreshSponge ==
  /\ Fresh \in Sponges /\ Sound(Fresh) /\ Ready(Fresh)
  /\ Fresh.absorbed = 0 /\ Len(Fresh.emitted) = 0
<1>1. NothingAdded \in BlockValues
  BY DEF NothingAdded, BlockValues
<1>2. 0 \in 0 .. Rate
  BY Constants
<1>3. Fresh \in Sponges
  BY <1>1, <1>2 DEF Fresh, Sponges
<1>4. Sound(Fresh) /\ Ready(Fresh)
  BY DEF Fresh, Sound, Ready, Confined, Counted, Mixed, SkipsOffset, Ordered, Unread,
         NothingAdded
<1>. QED
  BY <1>3, <1>4 DEF Fresh

(* A run leaves a sponge.                                                  *)
LEMMA OneCallSponge ==
  ASSUME NEW s \in Sponges, NEW run \in Runs
  PROVE  OneCall(s, run) \in Sponges
BY CallFields DEF OneCall, Runs

(* A replay is determined as far as its script is known.                   *)
Agree(r, t, m) == \A k \in 1 .. m : r[k] = t[k]

(* Two replays agree as far as their scripts do.                           *)
LEMMA AfterUnique ==
  ASSUME NEW f, NEW g, NEW r \in Seq(Runs), NEW t \in Seq(Runs),
         ReplayOf(f, r), ReplayOf(g, t),
         NEW m \in Nat, m <= Len(r), m <= Len(t), Agree(r, t, m)
  PROVE  \A k \in 0 .. m : f[k] = g[k]
<1>. DEFINE F == [k \in 1 .. m |-> [s \in Sponges |-> OneCall(s, r[k])]]
<1>0. Len(r) \in Nat /\ Len(t) \in Nat
  OBVIOUS
<1>1. ASSUME NEW k \in 1 .. m
      PROVE  /\ f[k] = F[k][f[k - 1]]
             /\ g[k] = F[k][g[k - 1]]
  <2>1. /\ k \in 1 .. Len(r) /\ k \in 1 .. Len(t)
        /\ k - 1 \in 0 .. Len(r) /\ k - 1 \in 0 .. Len(t)
    BY <1>0
  <2>2. f[k - 1] \in Sponges /\ g[k - 1] \in Sponges
    BY <2>1 DEF ReplayOf
  <2>. QED
    BY <2>1, <2>2 DEF ReplayOf, Agree
<1>2. f[0] = g[0]
  BY DEF ReplayOf
<1>3. Recurs(f, m, F) /\ Recurs(g, m, F)
  BY <1>1 DEF Recurs
<1>. HIDE DEF F
<1>. QED
  BY <1>2, <1>3, RecursionUnique

(* Replayed is where the replay of the script ends.                        *)
ReplayMeaning ==
  script \in Seq(Runs) => \E f : ReplayOf(f, script) /\ Replayed = f[Len(script)]

(* The replay is the last state of such a function,                        *)
LEMMA Replays == ReplayMeaning
<1>. SUFFICES ASSUME script \in Seq(Runs)
              PROVE  \E f : ReplayOf(f, script) /\ Replayed = f[Len(script)]
  BY DEF ReplayMeaning
<1>. DEFINE L == Len(script)
            F == [k \in 1 .. L |-> [s \in Sponges |-> OneCall(s, script[k])]]
            Is(after) == after = [k \in 0 .. Len(script) |->
                                    IF k = 0 THEN Fresh ELSE OneCall(after[k - 1], script[k])]
<1>0. L \in Nat /\ \A k \in 1 .. L : script[k] \in Runs
  OBVIOUS
<1>1. F \in [1 .. L -> [Sponges -> Sponges]]
  BY <1>0, OneCallSponge
<1>2. PICK f : f \in [0 .. L -> Sponges] /\ f[0] = Fresh /\ Recurs(f, L, F)
  <2>1. Fresh \in Sponges /\ L \in Nat
    BY <1>0, FreshSponge
  <2>. HIDE DEF F, L, Is
  <2>. QED
    BY <1>1, <2>1, RecursionExists
<1>3. ASSUME NEW k \in 1 .. L
      PROVE  f[k] = OneCall(f[k - 1], script[k])
  <2>1. k - 1 \in 0 .. L
    BY <1>0
  <2>. QED
    BY <1>2, <2>1 DEF Recurs
<1>4. Is(f)
  BY <1>0, <1>2, <1>3
<1>. DEFINE after == CHOOSE g : Is(g)
<1>5. Is(after)
  <2>. HIDE DEF Is
  <2>. QED
    BY <1>4
<1>6. Replayed = after[L]
  BY DEF Replayed
<1>. HIDE DEF after
<1>7. after[0] = Fresh /\ \A k \in 1 .. L : after[k] = OneCall(after[k - 1], script[k])
  <2>1. \A k \in 1 .. L : k \in 0 .. L /\ k # 0
    OBVIOUS
  <2>. QED
    BY <1>0, <1>5, <2>1
<1>. HIDE DEF Is
<1>8. \A k \in 0 .. L : after[k] = f[k]
  <2>. DEFINE T == {k \in Nat : k <= L => after[k] = f[k]}
  <2>1. 0 \in T
    BY <1>2, <1>7
  <2>2. ASSUME NEW k \in T
        PROVE  k + 1 \in T
    <3>. SUFFICES ASSUME k + 1 <= L
                  PROVE  after[k + 1] = f[k + 1]
      OBVIOUS
    <3>1. k + 1 \in 1 .. L /\ (k + 1) - 1 = k /\ after[k] = f[k]
      BY <1>0
    <3>. QED
      BY <1>3, <1>7, <3>1
  <2>3. T = Nat
    <3>1. T \in SUBSET Nat
      OBVIOUS
    <3>. HIDE DEF T
    <3>. QED
      BY <2>1, <2>2, <3>1, Induction
  <2>. QED
    BY <2>3
<1>9. ReplayOf(f, script)
  BY <1>2, <1>3 DEF ReplayOf
<1>. QED
  BY <1>0, <1>6, <1>8, <1>9

(* and so it is in the next state.                                         *)
LEMMA NextReplays == ReplayMeaning'
BY Replays, PTL

(* A script with one more call is a script.                                *)
LEMMA ExtendedRuns ==
  ASSUME script \in Seq(Runs), NEW direction \in {"absorb", "squeeze"}, NEW n \in Nat
  PROVE  Extended(direction, n) \in Seq(Runs)
<1>. DEFINE r == [direction |-> direction, n |-> n]
            L == Len(script)
<1>1. r \in Runs
  BY DEF Runs
<1>2. L \in Nat /\ \A k \in 1 .. L : script[k] \in Runs
  OBVIOUS
<1>3. CASE script # <<>> /\ Last(script).direction = direction
  <2>1. L \in 1 .. L /\ script[L].n \in Nat
    BY <1>2, <1>3 DEF Runs
  <2>. DEFINE both == [script[L] EXCEPT !.n = script[L].n + n]
  <2>2. both \in Runs
    BY <1>2, <2>1 DEF Runs
  <2>3. Extended(direction, n) = [script EXCEPT ![L] = both]
    BY <1>3 DEF Extended
  <2>. HIDE DEF both
  <2>. QED
    BY <2>1, <2>2, <2>3
<1>4. CASE ~(script # <<>> /\ Last(script).direction = direction)
  BY <1>1, <1>4 DEF Extended
<1>. QED
  BY <1>3, <1>4

(* One more call takes the replay where it takes the sponge.               *)
LEMMA ReplayExtends ==
  ASSUME script \in Seq(Runs), NEW direction \in {"absorb", "squeeze"}, NEW n \in Nat,
         NEW f, NEW g, ReplayOf(f, script), ReplayOf(g, Extended(direction, n)),
         direction = "squeeze" =>
           /\ convention.spill_permute = "ALWAYS"
           /\ ~(/\ n = 0 /\ f[Len(script)].mode = "squeezing"
                /\ f[Len(script)].pos = Rate)
  PROVE  g[Len(Extended(direction, n))]
           = OneCall(f[Len(script)], [direction |-> direction, n |-> n])
<1>. DEFINE t == Extended(direction, n)
            r == [direction |-> direction, n |-> n]
            L == Len(script)
<1>0. L \in Nat /\ r \in Runs /\ \A k \in 1 .. L : script[k] \in Runs
  <2>1. r \in Runs
    BY DEF Runs
  <2>2. L \in Nat /\ \A k \in 1 .. L : script[k] \in Runs
    OBVIOUS
  <2>. QED
    BY <2>1, <2>2
<1>1. CASE script # <<>> /\ Last(script).direction = direction
  <2>. DEFINE last == script[L]
              both == [direction |-> direction, n |-> last.n + n]
  <2>1. L \in 1 .. L /\ last \in Runs /\ last.direction = direction /\ last.n \in Nat
    BY <1>0, <1>1 DEF Last, Runs
  <2>2. t = [script EXCEPT ![L].n = last.n + n]
    BY <1>1 DEF Extended
  <2>3. both \in Runs
    BY <2>1 DEF Runs
  <2>4. t = [script EXCEPT ![L] = both]
    BY <2>1, <2>2 DEF Runs
  <2>. HIDE DEF both, last
  <2>5. /\ t \in Seq(Runs) /\ Len(t) = L /\ t[L] = both
        /\ \A k \in 1 .. L - 1 : t[k] = script[k]
    BY <1>0, <2>1, <2>3, <2>4
  <2>. HIDE DEF t
  <2>6. f[L - 1] = g[L - 1] /\ f[L - 1] \in Sponges
    <3>1. L - 1 \in Nat /\ L - 1 <= Len(script) /\ L - 1 <= Len(t) /\ L - 1 \in 0 .. L - 1
          /\ L - 1 \in 0 .. Len(script)
      BY <1>0, <2>1, <2>5
    <3>2. Agree(script, t, L - 1) /\ ReplayOf(g, t)
      BY <2>5 DEF Agree, t
    <3>. DEFINE m == L - 1
    <3>3. m \in Nat /\ m <= Len(script) /\ m <= Len(t) /\ t \in Seq(Runs)
      BY <2>5, <3>1
    <3>. HIDE DEF L, m
    <3>5. \A k \in 0 .. m : f[k] = g[k]
      BY <3>2, <3>3, AfterUnique DEF m
    <3>4. f[L - 1] \in Sponges
      BY <3>1 DEF ReplayOf
    <3>. QED
      BY <3>1, <3>5, <3>4 DEF m
  <2>7. g[L] = OneCall(g[L - 1], both) /\ f[L] = OneCall(f[L - 1], last)
    BY <2>1, <2>5 DEF ReplayOf, t, last
  <2>8. OneCall(OneCall(f[L - 1], last), r) = OneCall(f[L - 1], both)
    <3>. DEFINE s == f[L - 1]
                a == last.n
    <3>1. s \in Sponges /\ a \in Nat
      BY <2>1, <2>6
    <3>2. CASE direction = "absorb"
      <4>1. /\ OneCall(s, last) = AbsorbInto(s, a)
            /\ OneCall(s, both) = AbsorbInto(s, a + n)
            /\ OneCall(OneCall(s, last), r) = AbsorbInto(OneCall(s, last), n)
        BY <2>1, <3>2 DEF OneCall, both
      <4>. HIDE DEF s, a
      <4>2. OneCall(OneCall(s, last), r) = OneCall(s, both)
        BY <3>1, <4>1, AbsorbCalls
      <4>. QED
        BY <4>2 DEF s
    <3>3. CASE direction = "squeeze"
      <4>1. /\ OneCall(s, last) = SqueezeOut(s, a)
            /\ OneCall(s, both) = SqueezeOut(s, a + n)
            /\ OneCall(OneCall(s, last), r) = SqueezeOut(OneCall(s, last), n)
        BY <2>1, <3>3 DEF OneCall, both
      <4>2. f[L] = SqueezeOut(s, a)
        BY <2>7, <4>1
      <4>. HIDE DEF s, a
      <4>3. SqueezeOut(s, a).mode = "squeezing"
        BY <3>1, CallFields
      <4>4. ~(n = 0 /\ SqueezeOut(s, a).pos = Rate) /\ convention.spill_permute = "ALWAYS"
        BY <3>3, <4>2, <4>3
      <4>5. OneCall(OneCall(s, last), r) = OneCall(s, both)
        BY <3>1, <4>1, <4>4, SqueezeCalls
      <4>. QED
        BY <4>5 DEF s
    <3>. QED
      BY <3>2, <3>3
  <2>9. g[Len(t)] = OneCall(f[L], r)
    BY <2>5, <2>6, <2>7, <2>8
  <2>. QED
    BY <2>5, <2>9 DEF t
<1>2. CASE ~(script # <<>> /\ Last(script).direction = direction)
  <2>1. t = Append(script, r)
    BY <1>2 DEF Extended
  <2>2. /\ t \in Seq(Runs) /\ Len(t) = L + 1 /\ t[L + 1] = r
        /\ \A k \in 1 .. L : t[k] = script[k]
    BY <1>0, <2>1
  <2>. HIDE DEF t, r
  <2>3. f[L] = g[L]
    <3>1. L <= Len(script) /\ L <= Len(t) /\ L \in 0 .. L
      BY <1>0, <2>2
    <3>2. Agree(script, t, L) /\ ReplayOf(g, t) /\ t \in Seq(Runs)
      BY <2>2 DEF Agree, t
    <3>4. L \in Nat
      BY <1>0
    <3>. HIDE DEF L
    <3>3. \A k \in 0 .. L : f[k] = g[k]
      BY <3>1, <3>2, <3>4, AfterUnique
    <3>. QED
      BY <3>1, <3>3
  <2>4. g[L + 1] = OneCall(g[(L + 1) - 1], r)
    <3>1. L + 1 \in 1 .. Len(t)
      BY <1>0, <2>2
    <3>. QED
      BY <2>2, <3>1 DEF ReplayOf, t
  <2>5. (L + 1) - 1 = L
    BY <1>0
  <2>6. g[Len(t)] = OneCall(f[L], r)
    BY <2>2, <2>3, <2>4, <2>5
  <2>. QED
    BY <2>2, <2>6 DEF t, r
<1>. QED
  BY <1>1, <1>2

----------------------------------------------------------------------------
(* The invariant, and what follows from it.                                *)

IInv ==
  /\ convention \in Conventions
  /\ sponge \in Sponges /\ Sound(sponge) /\ Ready(sponge)
  /\ sponge.absorbed <= MaxAbsorbed
  /\ Len(sponge.emitted) <= MaxSqueezed
  /\ idle \in BOOLEAN
  /\ script \in Seq(Runs)
  /\ CallsCompose

(* The invariant holds of a new sponge of any convention.                  *)
LEMMA InitHolds ==
  Init => IInv
<1>. SUFFICES ASSUME Init
              PROVE  IInv
  OBVIOUS
<1>1. script \in Seq(Runs) /\ Len(script) = 0
  BY DEF Init
<1>2. PICK f : ReplayOf(f, script) /\ Replayed = f[Len(script)]
  BY <1>1, Replays DEF ReplayMeaning
<1>3. Replayed = Fresh
  BY <1>1, <1>2 DEF ReplayOf
<1>4. sponge = Fresh /\ convention \in Conventions /\ idle \in BOOLEAN
  BY DEF Init
<1>5. CallsCompose
  BY <1>3, <1>4 DEF CallsCompose
<1>6. sponge \in Sponges /\ Sound(sponge) /\ Ready(sponge)
  BY <1>4, FreshSponge
<1>7. sponge.absorbed <= MaxAbsorbed /\ Len(sponge.emitted) <= MaxSqueezed
  BY <1>4, FreshSponge, Constants
<1>. QED
  BY <1>1, <1>4, <1>5, <1>6, <1>7 DEF IInv

(* The record of a sponge, and its readiness, mean the same after a step.  *)
LEMMA SameRecord ==
  ASSUME convention' = convention
  PROVE  /\ Sound(sponge') => Sound(sponge)'
         /\ Ready(sponge') => Ready(sponge)'
<1>1. RateBase' = RateBase
  BY DEF RateBase
<1>2. RateLanes' = RateLanes
  BY DEF RateLanes
<1>3. Confined(sponge') => Confined(sponge)'
  BY <1>2 DEF Confined
<1>4. Counted(sponge') => Counted(sponge)'
  BY DEF Counted
<1>5. Mixed(sponge') => Mixed(sponge)'
  BY DEF Mixed
<1>6. SkipsOffset(sponge') => SkipsOffset(sponge)'
  BY DEF SkipsOffset
<1>7. Ordered(sponge') => Ordered(sponge)'
  BY DEF Ordered, Before
<1>8. Turned(sponge') => Turned(sponge)'
  BY <1>1 DEF Turned
<1>9. Unread(sponge') => Unread(sponge)'
  BY DEF Unread
<1>. QED
  BY <1>3, <1>4, <1>5, <1>6, <1>7, <1>8, <1>9 DEF Sound, Ready

(* The replay before a step and the one after it.                          *)
LEMMA Replaying ==
  ASSUME IInv, convention' = convention, script' \in Seq(Runs)
  PROVE  /\ \E f : ReplayOf(f, script) /\ Replayed = f[Len(script)]
         /\ \E g : ReplayOf(g, script') /\ Replayed' = g[Len(script')]
<1>1. \E f : ReplayOf(f, script) /\ Replayed = f[Len(script)]
  BY Replays DEF ReplayMeaning, IInv
<1>2. PICK g : ReplayOf(g, script)' /\ Replayed' = g[Len(script')]
  BY NextReplays DEF ReplayMeaning
<1>3. ReplayOf(g, script')
  <2>1. /\ g \in [0 .. Len(script') -> Sponges]
        /\ g[0] = Fresh
    BY <1>2 DEF ReplayOf
  <2>2. ASSUME NEW k \in 1 .. Len(script')
        PROVE  g[k] = OneCall(g[k - 1], script'[k])
    <3>1. g[k - 1] \in Sponges /\ script'[k] \in Runs
      BY <2>1
    <3>2. script'[k].n \in Nat
      BY <3>1 DEF Runs
    <3>3. g[k] = OneCall(g[k - 1], script[k])'
      BY <1>2 DEF ReplayOf
    <3>4. g[k] = IF script'[k].direction = "absorb" THEN AbsorbInto(g[k - 1], script[k].n)'
                 ELSE SqueezeOut(g[k - 1], script[k].n)'
      BY <3>3 DEF OneCall
    <3>. QED
      BY <3>1, <3>2, <3>4, SameCalls DEF OneCall
  <2>. QED
    BY <2>1, <2>2 DEF ReplayOf
<1>. QED
  BY <1>1, <1>2, <1>3

(* They are the same when the script is.                                   *)
LEMMA SameReplay ==
  ASSUME NEW f, NEW g, NEW r \in Seq(Runs), ReplayOf(f, r), ReplayOf(g, r)
  PROVE  f[Len(r)] = g[Len(r)]
<1>1. Len(r) \in Nat /\ Agree(r, r, Len(r)) /\ Len(r) \in 0 .. Len(r) /\ Len(r) <= Len(r)
  BY DEF Agree
<1>2. \A k \in 0 .. Len(r) : f[k] = g[k]
  BY <1>1, AfterUnique
<1>. QED
  BY <1>1, <1>2

(* It is kept by an absorb,                                                *)
LEMMA AbsorbHolds ==
  ASSUME IInv, NEW n \in 0 .. MaxAbsorbed, Absorb(n)
  PROVE  IInv'
<1>. DEFINE s == sponge
            t == AbsorbInto(sponge, n)
<1>0. /\ n \in Nat /\ s \in Sponges /\ Sound(s) /\ Ready(s)
      /\ convention' = convention /\ idle' = idle /\ sponge' = t
      /\ s.absorbed + n <= MaxAbsorbed
  BY Constants DEF IInv, Absorb
<1>1. t \in Sponges /\ Sound(t) /\ Ready(t)
  BY <1>0, CallFields, SoundCalls
<1>2. t.absorbed <= MaxAbsorbed /\ Len(t.emitted) <= MaxSqueezed
  <2>1. CASE n = 0
    BY <2>1 DEF AbsorbInto, IInv
  <2>2. CASE n > 0
    <3>. DEFINE u == SwitchToAbsorb(s)
    <3>1. u \in Sponges /\ u.absorbed = s.absorbed /\ u.emitted = s.emitted
      BY <1>0, Turns, PermuteFields, RewindFields DEF SwitchToAbsorb
    <3>. HIDE DEF u
    <3>2. /\ AbsorbIntoRate(u, n) \in Sponges
          /\ AbsorbIntoRate(u, n).absorbed = s.absorbed + n
          /\ AbsorbIntoRate(u, n).emitted = s.emitted
      BY <1>0, <3>1, AbsorbFields
    <3>3. t = Moded(AbsorbIntoRate(u, n), "absorbing")
      BY <2>2 DEF AbsorbInto, Moded, u
    <3>4. t.absorbed = s.absorbed + n /\ t.emitted = s.emitted
      BY <3>2, <3>3, ModedFields
    <3>. QED
      BY <1>0, <3>4 DEF IInv
  <2>. QED
    BY <1>0, <2>1, <2>2
<1>3. PICK f : ReplayOf(f, script) /\ Replayed = f[Len(script)]
  BY Replays DEF ReplayMeaning, IInv
<1>4. /\ script' \in Seq(Runs)
      /\ script' = script \/ script' = Extended("absorb", n)
  <2>1. CASE n = 0
    BY <2>1 DEF Absorb, IInv
  <2>2. CASE n # 0
    BY <1>0, <2>2, ExtendedRuns DEF Absorb, IInv
  <2>. QED
    BY <2>1, <2>2
<1>5. PICK g : ReplayOf(g, script') /\ Replayed' = g[Len(script')]
  BY <1>0, <1>4, Replaying
<1>6. CallsCompose'
  <2>. SUFFICES ASSUME convention.spill_permute = "ALWAYS", ~idle
                PROVE  t = g[Len(script')]
    BY <1>0, <1>5 DEF CallsCompose
  <2>1. s = f[Len(script)]
    BY <1>3 DEF IInv, CallsCompose
  <2>2. CASE n = 0
    <3>1. script' = script /\ t = s
      BY <2>2 DEF Absorb, AbsorbInto
    <3>2. Replayed' = Replayed
      BY <1>3, <1>5, <3>1, SameReplay DEF IInv
    <3>. QED
      BY <1>3, <1>5, <2>1, <3>1, <3>2
  <2>3. CASE n # 0
    <3>1. script' = Extended("absorb", n)
      BY <2>3 DEF Absorb
    <3>2. g[Len(script')] = OneCall(s, [direction |-> "absorb", n |-> n])
      BY <1>0, <1>3, <1>5, <2>1, <3>1, ReplayExtends DEF IInv
    <3>. QED
      BY <3>2 DEF OneCall
  <2>. QED
    BY <2>2, <2>3
<1>. HIDE DEF t
<1>7. Sound(sponge)' /\ Ready(sponge)'
  BY <1>0, <1>1, SameRecord
<1>. QED
  BY <1>0, <1>1, <1>2, <1>4, <1>6, <1>7 DEF IInv

(* and by a squeeze.                                                       *)
LEMMA SqueezeHolds ==
  ASSUME IInv, NEW n \in 0 .. MaxSqueezed, Squeeze(n)
  PROVE  IInv'
<1>. DEFINE s == sponge
            t == SqueezeOut(sponge, n)
<1>0. /\ n \in Nat /\ s \in Sponges /\ Sound(s) /\ Ready(s)
      /\ convention' = convention /\ sponge' = t
      /\ idle' = (idle \/ (n = 0 /\ s.mode = "squeezing" /\ s.pos = Rate))
      /\ Len(s.emitted) + n <= MaxSqueezed
      /\ script' = Extended("squeeze", n)
  BY Constants DEF IInv, Squeeze
<1>1. t \in Sponges /\ Sound(t) /\ Ready(t)
  BY <1>0, CallFields, SoundCalls
<1>2. t.absorbed <= MaxAbsorbed /\ Len(t.emitted) <= MaxSqueezed
  <2>. DEFINE u == SwitchToSqueeze(s)
  <2>1. u \in Sponges /\ u.absorbed = s.absorbed /\ u.emitted = s.emitted
    BY <1>0, Turns, PermuteFields, RewindFields DEF SwitchToSqueeze
  <2>. HIDE DEF u
  <2>2. /\ SqueezeFromRate(u, n) \in Sponges
        /\ SqueezeFromRate(u, n).absorbed = s.absorbed
        /\ Len(SqueezeFromRate(u, n).emitted) = Len(s.emitted) + n
    BY <1>0, <2>1, SqueezeFields
  <2>3. t = Moded(SqueezeFromRate(u, n), "squeezing")
    BY DEF SqueezeOut, Moded, u
  <2>4. t.absorbed = s.absorbed /\ t.emitted = SqueezeFromRate(u, n).emitted
    BY <2>2, <2>3, ModedFields
  <2>. QED
    BY <1>0, <2>2, <2>4 DEF IInv
<1>3. PICK f : ReplayOf(f, script) /\ Replayed = f[Len(script)]
  BY Replays DEF ReplayMeaning, IInv
<1>4. script' \in Seq(Runs)
  BY <1>0, ExtendedRuns DEF IInv
<1>5. PICK g : ReplayOf(g, script') /\ Replayed' = g[Len(script')]
  BY <1>0, <1>4, Replaying
<1>6. CallsCompose'
  <2>. SUFFICES ASSUME convention.spill_permute = "ALWAYS", ~idle'
                PROVE  t = g[Len(script')]
    BY <1>0, <1>5 DEF CallsCompose
  <2>1. ~idle /\ ~(n = 0 /\ s.mode = "squeezing" /\ s.pos = Rate)
    BY <1>0
  <2>2. s = f[Len(script)]
    BY <1>3, <2>1 DEF IInv, CallsCompose
  <2>3. g[Len(script')] = OneCall(s, [direction |-> "squeeze", n |-> n])
    BY <1>0, <1>3, <1>5, <2>1, <2>2, ReplayExtends DEF IInv
  <2>. QED
    BY <2>3 DEF OneCall
<1>. HIDE DEF t
<1>7. Sound(sponge)' /\ Ready(sponge)'
  BY <1>0, <1>1, SameRecord
<1>8. idle' \in BOOLEAN
  BY <1>0
<1>. QED
  BY <1>0, <1>1, <1>2, <1>4, <1>6, <1>7, <1>8 DEF IInv

(* Every behaviour keeps the invariant.                                    *)
THEOREM InductiveInvariant == Spec => []IInv
<1>1. ASSUME IInv, [Next]_vars
      PROVE  IInv'
  <2>1. ASSUME NEW n \in 0 .. MaxAbsorbed, Absorb(n)
        PROVE  IInv'
    BY <1>1, <2>1, AbsorbHolds
  <2>2. ASSUME NEW n \in 0 .. MaxSqueezed, Squeeze(n)
        PROVE  IInv'
    BY <1>1, <2>2, SqueezeHolds
  <2>3. CASE UNCHANGED vars
    <3>1. /\ convention' = convention /\ sponge' = sponge
          /\ script' = script /\ idle' = idle
      BY <2>3 DEF vars
    <3>2. Sound(sponge)' /\ Ready(sponge)'
      BY <1>1, <3>1, SameRecord DEF IInv
    <3>3. PICK f : ReplayOf(f, script) /\ Replayed = f[Len(script)]
      BY <1>1, Replays DEF ReplayMeaning, IInv
    <3>4. PICK g : ReplayOf(g, script') /\ Replayed' = g[Len(script')]
      BY <1>1, <3>1, Replaying DEF IInv
    <3>5. Replayed' = Replayed
      BY <1>1, <3>1, <3>3, <3>4, SameReplay DEF IInv
    <3>6. CallsCompose'
      BY <1>1, <3>1, <3>5 DEF IInv, CallsCompose
    <3>. QED
      BY <1>1, <3>1, <3>2, <3>6 DEF IInv
  <2>. QED
    BY <1>1, <2>1, <2>2, <2>3 DEF Next
<1>. QED
  BY InitHolds, <1>1, PTL DEF Spec

(* The position never leaves the block, a lane only ever holds elements    *)
(* that were absorbed, and the convention stays.                           *)
THEOREM TypesHold == Spec => []TypeOK
<1>1. IInv => TypeOK
  <2>. SUFFICES ASSUME IInv
                PROVE  TypeOK
    OBVIOUS
  <2>1. /\ sponge \in Sponges /\ Counted(sponge) /\ sponge.absorbed <= MaxAbsorbed
        /\ sponge.absorbed \in Nat
    BY Lengths DEF IInv, Sound
  <2>2. sponge.added \in [Lanes -> SUBSET (0 .. MaxAbsorbed - 1)]
    <3>1. sponge.added \in [Lanes -> SUBSET Nat]
      BY <2>1 DEF Sponges, BlockValues
    <3>2. 0 .. sponge.absorbed - 1 \subseteq 0 .. MaxAbsorbed - 1
      BY <2>1, Constants
    <3>3. \A lane \in Lanes : sponge.added[lane] \subseteq 0 .. MaxAbsorbed - 1
      BY <2>1, <3>2 DEF Counted
    <3>. QED
      BY <3>1, <3>3
  <2>3. sponge.mode \in {"absorbing", "squeezing"} /\ sponge.pos \in 0 .. Rate
    BY <2>1 DEF Sponges
  <2>4. sponge.absorbed \in 0 .. MaxAbsorbed
    BY <2>1, Constants
  <2>. QED
    BY <2>2, <2>3, <2>4 DEF TypeOK, IInv
<1>. QED
  BY InductiveInvariant, <1>1, PTL

(* How an input or an output is cut into calls changes nothing of what the *)
(* sponge holds or gives out: only the turns do.                           *)
THEOREM CallsAlwaysCompose == Spec => []CallsCompose
<1>1. IInv => CallsCompose
  BY DEF IInv
<1>. QED
  BY InductiveInvariant, <1>1, PTL

(* No lane of any state is given out twice, except by 0.3's skip, which    *)
(* never happens at the start of a block.                                  *)
THEOREM LanesGivenOnce == Spec => []NoLaneTwice
<1>1. IInv => NoLaneTwice
  <2>. SUFFICES ASSUME IInv
                PROVE  NoLaneTwice
    OBVIOUS
  <2>1. SkipsOffset(sponge) /\ Ordered(sponge) /\ sponge \in Sponges
    BY DEF IInv, Sound
  <2>2. ASSUME sponge.skips = {}
        PROVE  IsInjective(sponge.emitted)
    <3>. DEFINE e == sponge.emitted
                l == Len(sponge.emitted)
    <3>1. /\ l \in Nat /\ DOMAIN e = 1 .. l
          /\ \A i \in 1 .. l : Len(e[i].past) \in Nat /\ e[i].lane \in Int
      <4>1. sponge.emitted \in Seq(Outputs)
        BY <2>1, Lengths
      <4>2. DOMAIN e = 1 .. l
        BY <4>1
      <4>. QED
        BY <2>1, <4>2, Lengths
    <3>2. \A i, j \in 1 .. l : i < j => Before(e[i], e[j])
      BY <2>1, <2>2 DEF Ordered
    <3>. HIDE DEF e, l
    <3>3. ASSUME NEW i \in 1 .. l, NEW j \in 1 .. l, i < j
          PROVE  e[i] # e[j]
      <4>1. Before(e[i], e[j])
        BY <3>2, <3>3
      <4>. QED
        BY <3>1, <4>1 DEF Before
    <3>4. \A i, j \in 1 .. l : e[i] = e[j] => i = j
      <4>1. \A i, j \in 1 .. l : i < j \/ j < i \/ i = j
        BY <3>1
      <4>. QED
        BY <3>3, <4>1
    <3>. QED
      BY <3>1, <3>4 DEF e, IsInjective
  <2>. QED
    BY <2>1, <2>2 DEF NoLaneTwice, SkipsOffset
<1>. QED
  BY InductiveInvariant, <1>1, PTL

(* Nothing is read that has not been through the permutation since it was  *)
(* absorbed.                                                               *)
THEOREM ReadsAreMixed == Spec => []MixedBeforeRead
<1>1. IInv => MixedBeforeRead
  BY Lengths DEF IInv, Sound, Mixed, MixedBeforeRead
<1>. QED
  BY InductiveInvariant, <1>1, PTL

(* The capacity lanes are neither written nor read by any call.            *)
THEOREM CapacityStaysUntouched == Spec => []CapacityUntouched
<1>1. IInv => CapacityUntouched
  BY Lengths DEF IInv, Sound, Confined, CapacityUntouched
<1>. QED
  BY InductiveInvariant, <1>1, PTL

(* Where both turns permute, a state that has given lanes out is never     *)
(* added to.                                                               *)
THEOREM PublishedStaysClosed == Spec => []NeverOntoPublished
<1>1. IInv => NeverOntoPublished
  <2>. SUFFICES ASSUME IInv, convention.switch_permute = "BOTH_DIRECTIONS",
                       sponge.mode = "absorbing", NEW i \in DOMAIN sponge.emitted
                PROVE  sponge.emitted[i].past # sponge.past
    BY DEF NeverOntoPublished
  <2>1. sponge \in Sponges /\ Unread(sponge)
    BY DEF IInv, Ready
  <2>2. i \in 1 .. Len(sponge.emitted)
    BY <2>1, Lengths
  <2>3. /\ Len(sponge.emitted[i].past) < Len(sponge.past)
        /\ Len(sponge.past) \in Nat /\ Len(sponge.emitted[i].past) \in Nat
    BY <2>1, <2>2, Lengths DEF Unread
  <2>. QED
    BY <2>3
<1>. QED
  BY InductiveInvariant, <1>1, PTL

----------------------------------------------------------------------------
(* The calls of sponge.py's hash, one block after another.                 *)

(* The calls that are not refused, before their first block.               *)
HashCalls ==
  {c \in {Call(chaining, shape, message) :
            chaining \in Chainings, shape \in Shapes, message \in Messages} :
     Fits(c.chaining, c.shape)}

(* A message is as long as its domain says.                                *)
LEMMA MessageLength ==
  ASSUME NEW m \in Messages
  PROVE  /\ Length(m) \in 0 .. MaxLength
         /\ m \in [0 .. Length(m) - 1 -> Elements]
<1>1. PICK n \in 0 .. MaxLength : m \in [0 .. n - 1 -> Elements]
  BY DEF Messages
<1>2. DOMAIN m = 0 .. n - 1 /\ n \in Nat
  BY <1>1, SpongeAssumption
<1>3. Cardinality(0 .. n - 1) = n
  BY <1>2, FS_Interval
<1>4. Length(m) = n
  BY <1>2, <1>3 DEF Length
<1>. QED
  BY <1>1, <1>4

(* What a call is made of.                                                 *)
LEMMA HashCallFields ==
  ASSUME NEW c \in HashCalls
  PROVE  /\ c.chaining \in Chainings /\ c.shape \in Shapes /\ c.message \in Messages
         /\ c = Call(c.chaining, c.shape, c.message)
         /\ c.kind = "call" /\ c.lanes = ZeroState /\ c.i = 0
         /\ Fits(c.chaining, c.shape)
         /\ c.shape.rate \in Nat \ {0} /\ c.shape.rate < Width /\ Width \in Nat
         /\ c.shape.out \in Nat \ {0} /\ c.shape.out <= Width
         /\ Length(c.message) \in Nat /\ Length(c.message) <= MaxLength
         /\ MaxLength \in Nat
         /\ c.message \in [0 .. Length(c.message) - 1 -> Elements]
<1>1. PICK chaining \in Chainings, shape \in Shapes, message \in Messages :
        c = Call(chaining, shape, message) /\ Fits(c.chaining, c.shape)
  BY DEF HashCalls
<1>2. /\ c.chaining = chaining /\ c.shape = shape /\ c.message = message
      /\ c.kind = "call" /\ c.lanes = ZeroState /\ c.i = 0
  BY <1>1 DEF Call
<1>3. /\ shape.rate \in 1 .. Width - 1 /\ shape.out \in 1 .. Width
      /\ Width \in Nat /\ MaxLength \in Nat
  BY SpongeAssumption
<1>4. /\ Length(message) \in 0 .. MaxLength
      /\ message \in [0 .. Length(message) - 1 -> Elements]
  BY MessageLength
<1>5. /\ shape.rate \in Nat \ {0} /\ shape.rate < Width
      /\ shape.out \in Nat \ {0} /\ shape.out <= Width
      /\ Length(message) \in Nat /\ Length(message) <= MaxLength
  BY <1>3, <1>4
<1>. QED
  BY <1>1, <1>2, <1>3, <1>4, <1>5

(* The call at its block i.                                                *)
At(c, i, lanes) ==
  [kind |-> "call", chaining |-> c.chaining, shape |-> c.shape, message |-> c.message,
   lanes |-> lanes, i |-> i]

(* A call with its lanes, then its block, replaced.                        *)
LEMMA AtReplaced ==
  ASSUME NEW c, NEW i, NEW j, NEW lanes, NEW new
  PROVE  /\ [At(c, i, lanes) EXCEPT !.lanes = new] = At(c, i, new)
         /\ [At(c, i, lanes) EXCEPT !.i = j] = At(c, j, lanes)
<1>. DEFINE a == c.chaining
            b == c.shape
            m == c.message
<1>1. At(c, i, lanes) = [kind |-> "call", chaining |-> a, shape |-> b, message |-> m,
                         lanes |-> lanes, i |-> i]
  BY DEF At
<1>2. At(c, i, new) = [kind |-> "call", chaining |-> a, shape |-> b, message |-> m,
                       lanes |-> new, i |-> i]
  BY DEF At
<1>3. At(c, j, lanes) = [kind |-> "call", chaining |-> a, shape |-> b, message |-> m,
                         lanes |-> lanes, i |-> j]
  BY DEF At
<1>. HIDE DEF a, b, m
<1>4. [At(c, i, lanes) EXCEPT !.lanes = new] = At(c, i, new)
  BY <1>1, <1>2
<1>5. [At(c, i, lanes) EXCEPT !.i = j] = At(c, j, lanes)
  BY <1>1, <1>3
<1>. QED
  BY <1>4, <1>5

(* The state that block i is permuted from.                                *)
Overlaid(c, i, lanes) ==
  SetCapacity(At(c, i, lanes), RateOverwritten(At(c, i, lanes)))

(* A lane of it.                                                           *)
Overlay(c, i, lanes, lane) ==
  IF lane < c.shape.rate
    THEN IF i * c.shape.rate + lane < Length(c.message)
           THEN Element(c.message[i * c.shape.rate + lane])
           ELSE IF c.chaining = "IMPLICIT_CAPACITY" THEN lanes[lane] ELSE Element(Zero)
    ELSE IF c.chaining = "IMPLICIT_CAPACITY" THEN lanes[lane]
         ELSE lanes[lane - c.shape.rate]

(* No index is clamped where it is read, and the capacity is all kept or   *)
(* all written.                                                            *)
LEMMA OverlaidIs ==
  ASSUME NEW c \in HashCalls, NEW i \in Nat, NEW lanes,
         i * c.shape.rate < Length(c.message)
  PROVE  Overlaid(c, i, lanes) = [lane \in Lanes |-> Overlay(c, i, lanes, lane)]
<1>. DEFINE d     == At(c, i, lanes)
            n     == Length(c.message)
            rate  == c.shape.rate
            start == i * rate
            w     == IF n - start < rate THEN n - start ELSE rate
            at(k) == IF k > n - 1 THEN n - 1 ELSE k
            rated(lane) == IF lane >= rate THEN lanes[lane]
                           ELSE IF lane < w THEN Element(c.message[at(start + lane)])
                           ELSE IF c.chaining = "IMPLICIT_CAPACITY" THEN lanes[lane]
                           ELSE Element(Zero)
<1>1. /\ d.chaining = c.chaining /\ d.shape = c.shape /\ d.message = c.message
      /\ d.lanes = lanes /\ d.i = i
  BY DEF At
<1>2. /\ rate \in Nat \ {0} /\ rate < Width /\ Width \in Nat /\ n \in Nat
      /\ c.shape.out \in Nat \ {0}
      /\ c.chaining \in Chainings /\ Fits(c.chaining, c.shape)
  BY HashCallFields
<1>3. start \in Nat /\ start < n
  BY <1>2
<1>4. RateOverwritten(d) = [lane \in Lanes |-> rated(lane)]
  BY <1>1 DEF RateOverwritten, TailFill
<1>5. Overlaid(c, i, lanes) =
        [lane \in Lanes |->
           IF /\ c.chaining = "DIGEST_IN_CAPACITY"
              /\ lane \in rate .. rate + c.shape.out - 1
             THEN lanes[lane - rate] ELSE rated(lane)]
  BY <1>1, <1>4 DEF Overlaid, SetCapacity
<1>. HIDE DEF d, n, rate
<1>6. ASSUME NEW lane \in Lanes
      PROVE  (IF /\ c.chaining = "DIGEST_IN_CAPACITY"
                 /\ lane \in rate .. rate + c.shape.out - 1
                THEN lanes[lane - rate] ELSE rated(lane))
               = Overlay(c, i, lanes, lane)
  <2>1. lane \in Nat /\ lane < Width
    BY <1>2 DEF Lanes
  <2>2. CASE lane < rate
    <3>1. lane < w <=> start + lane < n
      BY <1>2, <1>3, <2>1, <2>2
    <3>2. start + lane < n => at(start + lane) = start + lane
      BY <1>2, <1>3, <2>1
    <3>3. lane \notin rate .. rate + c.shape.out - 1 /\ ~(lane >= rate)
      BY <1>2, <2>1, <2>2
    <3>. HIDE DEF w, at, start
    <3>. QED
      BY <2>2, <3>1, <3>2, <3>3 DEF Overlay, n, rate, start
  <2>3. CASE ~(lane < rate)
    <3>1. c.chaining = "DIGEST_IN_CAPACITY" => lane \in rate .. rate + c.shape.out - 1
      BY <1>2, <2>1, <2>3 DEF Fits, rate
    <3>2. lane >= rate
      BY <1>2, <2>1, <2>3
    <3>. HIDE DEF w, at, start
    <3>. QED
      BY <1>2, <2>3, <3>1, <3>2 DEF Overlay, Chainings, rate
  <2>. QED
    BY <2>2, <2>3
<1>. HIDE DEF rated
<1>. QED
  BY <1>5, <1>6

----------------------------------------------------------------------------
(* A run of blocks from the zero state.                                    *)
Run(run, c, k) ==
  /\ run = [j \in 0 .. k |-> run[j]]
  /\ run[0] = ZeroState
  /\ \A j \in 1 .. k : run[j] = Permutation(Overlaid(c, j - 1, run[j - 1]))

(* There is such a run, of any length.                                     *)
LEMMA RunExists ==
  ASSUME NEW c, NEW k \in Nat
  PROVE  \E run : Run(run, c, k)
<1>. DEFINE T == {m \in Nat : \E run : Run(run, c, m)}
<1>1. 0 \in T
  <2>. DEFINE r == [j \in 0 .. 0 |-> ZeroState]
  <2>1. Run(r, c, 0)
    BY DEF Run
  <2>. HIDE DEF r
  <2>. QED
    BY <2>1
<1>2. ASSUME NEW m \in T
      PROVE  m + 1 \in T
  <2>1. PICK f : Run(f, c, m) /\ m \in Nat
    OBVIOUS
  <2>. HIDE DEF T
  <2>. DEFINE g == [j \in 0 .. m + 1 |->
                      IF j <= m THEN f[j] ELSE Permutation(Overlaid(c, m, f[m]))]
  <2>2. g = [j \in 0 .. m + 1 |-> g[j]] /\ g[0] = ZeroState
    BY <2>1 DEF Run
  <2>3. ASSUME NEW j \in 1 .. m + 1
        PROVE  g[j] = Permutation(Overlaid(c, j - 1, g[j - 1]))
    <3>1. g[j - 1] = f[j - 1]
      BY <2>1
    <3>2. CASE j <= m
      <4>1. g[j] = f[j] /\ j \in 1 .. m
        BY <2>1, <3>2
      <4>. QED
        BY <2>1, <3>1, <4>1 DEF Run
    <3>3. CASE j = m + 1
      <4>1. g[j] = Permutation(Overlaid(c, m, f[m])) /\ j - 1 = m
        BY <2>1, <3>3
      <4>. QED
        BY <3>1, <4>1
    <3>. QED
      BY <2>1, <3>2, <3>3
  <2>. HIDE DEF g
  <2>4. Run(g, c, m + 1) /\ m + 1 \in Nat
    BY <2>1, <2>2, <2>3 DEF Run
  <2>. QED
    BY <2>4 DEF T
<1>3. T = Nat
  <2>1. T \in SUBSET Nat
    OBVIOUS
  <2>. HIDE DEF T
  <2>. QED
    BY <1>1, <1>2, <2>1, Induction
<1>. QED
  BY <1>3

(* The state after k blocks.                                               *)
After(c, k) == (CHOOSE run : Run(run, c, k))[k]

(* A block more is one overlay and one permutation more.                   *)
LEMMA AfterLaw ==
  ASSUME NEW c, NEW k \in Nat
  PROVE  /\ After(c, 0) = ZeroState
         /\ After(c, k + 1) = Permutation(Overlaid(c, k, After(c, k)))
<1>. DEFINE R(m) == CHOOSE run : Run(run, c, m)
<1>1. ASSUME NEW m \in Nat
      PROVE  /\ After(c, m) = R(m)[m]
             /\ R(m)[0] = ZeroState
             /\ \A j \in 1 .. m : R(m)[j] = Permutation(Overlaid(c, j - 1, R(m)[j - 1]))
  <2>1. After(c, m) = R(m)[m]
    BY DEF After
  <2>2. Run(R(m), c, m)
    BY RunExists
  <2>. HIDE DEF R
  <2>. QED
    BY <2>1, <2>2 DEF Run
<1>. HIDE DEF R
<1>2. \A j \in 0 .. k : R(k + 1)[j] = R(k)[j]
  <2>. DEFINE T == {j \in Nat : j <= k => R(k + 1)[j] = R(k)[j]}
  <2>1. 0 \in T
    BY <1>1
  <2>2. ASSUME NEW j \in T
        PROVE  j + 1 \in T
    <3>. SUFFICES ASSUME j + 1 <= k
                  PROVE  R(k + 1)[j + 1] = R(k)[j + 1]
      OBVIOUS
    <3>1. /\ j \in Nat /\ j + 1 \in 1 .. k /\ j + 1 \in 1 .. k + 1
          /\ (j + 1) - 1 = j /\ k + 1 \in Nat
          /\ R(k + 1)[j] = R(k)[j]
      OBVIOUS
    <3>. QED
      BY <1>1, <3>1
  <2>3. T = Nat
    <3>1. T \in SUBSET Nat
      OBVIOUS
    <3>. HIDE DEF T
    <3>. QED
      BY <2>1, <2>2, <3>1, Induction
  <2>. QED
    BY <2>3
<1>3. /\ k + 1 \in Nat /\ k + 1 \in 1 .. k + 1 /\ (k + 1) - 1 = k /\ k \in 0 .. k /\ 0 \in Nat
  OBVIOUS
<1>4. R(k + 1)[k + 1] = Permutation(Overlaid(c, k, R(k + 1)[k]))
  BY <1>1, <1>3
<1>. QED
  BY <1>1, <1>2, <1>3, <1>4

----------------------------------------------------------------------------
(* The two constructions.                                                  *)

(* What is read of a state.                                                *)
Truncated(c, lanes) == [lane \in 0 .. c.shape.out - 1 |-> lanes[lane]]

(* A block is absorbed as long as it starts inside the input.              *)
LEMMA BlocksBound ==
  ASSUME NEW c \in HashCalls
  PROVE  /\ Blocks(c) \in Nat
         /\ \A i \in Nat : i < Blocks(c) <=> i * c.shape.rate < Length(c.message)
         /\ Length(c.message) = 0 => Blocks(c) = 0
<1>. DEFINE n    == Length(c.message)
            rate == c.shape.rate
            sum  == n + rate - 1
            q    == sum \div rate
            r    == sum % rate
<1>1. n \in Nat /\ rate \in Nat \ {0}
  BY HashCallFields
<1>3. Blocks(c) = q
  BY DEF Blocks, CeilDiv
<1>. HIDE DEF n, rate
<1>0. sum \in Nat /\ sum = n + rate - 1
  BY <1>1
<1>. HIDE DEF sum
<1>2. q \in Nat /\ r \in 0 .. rate - 1 /\ n + rate - 1 = q * rate + r
  BY <1>0, <1>1, DivModNat
<1>. HIDE DEF q, r
<1>4. ASSUME NEW i \in Nat
      PROVE  i < q <=> i * rate < n
  <2>1. CASE i < q
    <3>1. (i + 1) * rate <= q * rate
      BY <1>1, <1>2, <2>1
    <3>2. (i + 1) * rate = i * rate + rate /\ i * rate \in Nat /\ q * rate \in Nat
      BY <1>1, <1>2
    <3>. QED
      BY <1>1, <1>2, <2>1, <3>1, <3>2
  <2>2. CASE ~(i < q)
    <3>1. i * rate >= q * rate
      BY <1>1, <1>2, <2>2
    <3>2. i * rate \in Nat /\ q * rate \in Nat
      BY <1>1, <1>2
    <3>. QED
      BY <1>1, <1>2, <2>2, <3>1, <3>2
  <2>. QED
    BY <2>1, <2>2
<1>5. n = 0 => q = 0
  <2>1. n = 0 => ~(0 * rate < n) /\ 0 \in Nat
    BY <1>1
  <2>. QED
    BY <1>2, <1>4, <2>1
<1>. QED
  BY <1>2, <1>3, <1>4, <1>5 DEF n, rate

(* A block's lanes are the permutation's.                                  *)
LEMMA AfterLane ==
  ASSUME NEW c, NEW k \in Nat, NEW lane \in Lanes
  PROVE  /\ After(c, 0)[lane] = Element(Zero)
         /\ After(c, k + 1)[lane] = <<"lane", lane, Overlaid(c, k, After(c, k))>>
<1>1. After(c, 0) = ZeroState
  BY AfterLaw
<1>2. After(c, k + 1) = Permutation(Overlaid(c, k, After(c, k)))
  BY AfterLaw
<1>. QED
  BY <1>1, <1>2 DEF Permutation, ZeroState

(* The chain's next digest, and all of them.                               *)
ChainStep(digest, message, shape, i) ==
  LET before == digest[i - 1]
      after  == Permutation([lane \in Lanes |->
                  IF lane < shape.rate
                    THEN PaddedLane(message, (i - 1) * shape.rate + lane)
                    ELSE before[lane - shape.rate]])
  IN  [lane \in 0 .. shape.out - 1 |-> after[lane]]

ChainOf(digest, message, shape) ==
  digest = [i \in 0 .. CeilDiv(Length(message), shape.rate) |->
              IF i = 0 THEN [lane \in 0 .. shape.out - 1 |-> Element(Zero)]
              ELSE ChainStep(digest, message, shape, i)]

(* The chain of digests is the blocks' states, truncated.                  *)
LEMMA ChainIsBlocks ==
  ASSUME NEW c \in HashCalls, c.chaining = "DIGEST_IN_CAPACITY"
  PROVE  ChainOfDigests(c.message, c.shape) = Truncated(c, After(c, Blocks(c)))
<1>. DEFINE b    == Blocks(c)
            rate == c.shape.rate
            out  == c.shape.out
            g    == [i \in 0 .. b |-> Truncated(c, After(c, i))]
            zero == [lane \in 0 .. out - 1 |-> Element(Zero)]
<1>1. /\ b \in Nat /\ b = CeilDiv(Length(c.message), rate)
      /\ rate \in Nat \ {0} /\ out \in Nat \ {0} /\ rate + out = Width /\ Width \in Nat
      /\ \A i \in Nat : i < b => i * rate < Length(c.message)
  BY BlocksBound, HashCallFields DEF Blocks, Fits
<1>2. Truncated(c, After(c, 0)) = zero
  <2>1. \A lane \in 0 .. out - 1 : After(c, 0)[lane] = Element(Zero)
    <3>1. \A lane \in 0 .. out - 1 : lane \in Lanes
      BY <1>1 DEF Lanes
    <3>. QED
      BY <3>1, AfterLane
  <2>. QED
    BY <2>1 DEF Truncated
<1>3. ASSUME NEW digest, NEW i \in 1 .. b, digest[i - 1] = Truncated(c, After(c, i - 1))
      PROVE  ChainStep(digest, c.message, c.shape, i) = Truncated(c, After(c, i))
  <2>. DEFINE k     == i - 1
              state == After(c, k)
              block == [lane \in Lanes |->
                          IF lane < rate THEN PaddedLane(c.message, k * rate + lane)
                          ELSE digest[k][lane - rate]]
  <2>1. k \in Nat /\ k + 1 = i /\ k < b /\ k * rate < Length(c.message)
    BY <1>1
  <2>2. ChainStep(digest, c.message, c.shape, i)
          = [lane \in 0 .. out - 1 |-> Permutation(block)[lane]]
    BY DEF ChainStep
  <2>3. digest[k] = Truncated(c, state)
    BY <1>3
  <2>. HIDE DEF k, state
  <2>4. block = Overlaid(c, k, state)
    <3>1. ASSUME NEW lane \in Lanes
          PROVE  Overlay(c, k, state, lane)
                   = IF lane < rate THEN PaddedLane(c.message, k * rate + lane)
                     ELSE digest[k][lane - rate]
      <4>1. lane < rate \/ lane - rate \in 0 .. out - 1
        BY <1>1 DEF Lanes
      <4>2. CASE lane < rate
        BY <4>2 DEF Overlay, PaddedLane
      <4>3. CASE ~(lane < rate)
        <5>1. digest[k][lane - rate] = state[lane - rate]
          BY <2>3, <4>1, <4>3 DEF Truncated
        <5>. QED
          BY <4>3, <5>1 DEF Overlay
      <4>. QED
        BY <4>2, <4>3
    <3>2. Overlaid(c, k, state) = [lane \in Lanes |-> Overlay(c, k, state, lane)]
      BY <2>1, OverlaidIs
    <3>. QED
      BY <3>1, <3>2
  <2>. HIDE DEF block
  <2>5. After(c, i) = Permutation(block)
    <3>1. After(c, k + 1) = Permutation(Overlaid(c, k, After(c, k)))
      BY <2>1, AfterLaw
    <3>. QED
      BY <2>1, <2>4, <3>1 DEF state
  <2>. QED
    BY <2>2, <2>5 DEF Truncated
<1>4. ChainOf(g, c.message, c.shape)
  <2>1. ASSUME NEW i \in 0 .. b
        PROVE  g[i] = IF i = 0 THEN zero ELSE ChainStep(g, c.message, c.shape, i)
    <3>1. CASE i = 0
      BY <1>1, <1>2, <3>1
    <3>2. CASE i # 0
      <4>1. i \in 1 .. b /\ i - 1 \in 0 .. b
        BY <1>1, <3>2
      <4>2. g[i - 1] = Truncated(c, After(c, i - 1)) /\ g[i] = Truncated(c, After(c, i))
        BY <4>1
      <4>. HIDE DEF g
      <4>. QED
        BY <1>3, <3>2, <4>1, <4>2
    <3>. QED
      BY <3>1, <3>2
  <2>2. g = [i \in 0 .. b |-> g[i]]
    OBVIOUS
  <2>. HIDE DEF g, b
  <2>. QED
    BY <1>1, <2>1, <2>2 DEF ChainOf
<1>. DEFINE f == CHOOSE digest : ChainOf(digest, c.message, c.shape)
<1>5. ChainOfDigests(c.message, c.shape) = f[b]
  BY DEF ChainOfDigests, ChainOf, ChainStep, Blocks
<1>6. ChainOf(f, c.message, c.shape)
  BY <1>4
<1>. HIDE DEF f, g, b
<1>7. /\ f[0] = zero
      /\ \A i \in 1 .. b : f[i] = ChainStep(f, c.message, c.shape, i)
  <2>1. \A i \in 0 .. b : f[i] = IF i = 0 THEN zero ELSE ChainStep(f, c.message, c.shape, i)
    BY <1>1, <1>6 DEF ChainOf
  <2>2. 0 \in 0 .. b /\ \A i \in 1 .. b : i \in 0 .. b /\ i # 0
    BY <1>1
  <2>. QED
    BY <2>1, <2>2
<1>. DEFINE T == {i \in Nat : i <= b => f[i] = Truncated(c, After(c, i))}
<1>8. 0 \in T
  BY <1>2, <1>7
<1>9. ASSUME NEW i \in T
      PROVE  i + 1 \in T
  <2>. SUFFICES ASSUME i + 1 <= b
                PROVE  f[i + 1] = Truncated(c, After(c, i + 1))
    OBVIOUS
  <2>1. i \in Nat /\ i + 1 \in 1 .. b /\ (i + 1) - 1 = i /\ f[i] = Truncated(c, After(c, i))
    BY <1>1
  <2>. HIDE DEF T
  <2>. QED
    BY <1>3, <1>7, <2>1
<1>10. T = Nat
  <2>1. T \in SUBSET Nat
    OBVIOUS
  <2>. HIDE DEF T
  <2>. QED
    BY <1>8, <1>9, <2>1, Induction
<1>. QED
  BY <1>1, <1>5, <1>10 DEF b

(* Partway through block q: its first r lanes overwritten.                 *)
Partway(c, q, r) ==
  [lane \in Lanes |->
     IF lane < r THEN Element(c.message[q * c.shape.rate + lane]) ELSE After(c, q)[lane]]

(* An element more is one lane more, until the block is full or the input  *)
(* ends.                                                                   *)
LEMMA PartwaySteps ==
  ASSUME NEW c \in HashCalls, c.chaining = "IMPLICIT_CAPACITY", NEW q \in Nat,
         NEW r \in 0 .. c.shape.rate - 1, q * c.shape.rate + r < Length(c.message)
  PROVE  /\ Partway(c, q, 0) = After(c, q)
         /\ [Partway(c, q, r) EXCEPT ![r] = Element(c.message[q * c.shape.rate + r])]
              = Partway(c, q, r + 1)
         /\ r + 1 = c.shape.rate \/ q * c.shape.rate + r + 1 = Length(c.message)
              => Permutation(Partway(c, q, r + 1)) = After(c, q + 1)
<1>. DEFINE rate  == c.shape.rate
            n     == Length(c.message)
            start == q * rate
<1>1. /\ rate \in Nat \ {0} /\ rate < Width /\ Width \in Nat /\ n \in Nat
      /\ r \in Nat /\ r < rate
  BY HashCallFields
<1>2. start \in Nat /\ start < n
  BY <1>1
<1>3. After(c, q) = [lane \in Lanes |-> After(c, q)[lane]]
  <2>1. CASE q = 0
    <3>1. After(c, 0) = ZeroState
      BY AfterLaw
    <3>. QED
      BY <2>1, <3>1 DEF ZeroState
  <2>2. CASE q # 0
    <3>1. q - 1 \in Nat /\ (q - 1) + 1 = q
      BY <2>2
    <3>2. After(c, q) = Permutation(Overlaid(c, q - 1, After(c, q - 1)))
      BY <3>1, AfterLaw
    <3>. QED
      BY <3>2 DEF Permutation
  <2>. QED
    BY <2>1, <2>2
<1>4. Partway(c, q, 0) = After(c, q)
  <2>1. \A lane \in Lanes : ~(lane < 0)
    BY <1>1 DEF Lanes
  <2>. QED
    BY <1>3, <2>1 DEF Partway
<1>5. [Partway(c, q, r) EXCEPT ![r] = Element(c.message[start + r])] = Partway(c, q, r + 1)
  <2>1. \A lane \in Lanes : (lane < r + 1 <=> lane < r \/ lane = r) /\ ~(r < r)
    BY <1>1 DEF Lanes
  <2>. QED
    BY <2>1 DEF Partway
<1>6. ASSUME r + 1 = rate \/ start + r + 1 = n
      PROVE  Permutation(Partway(c, q, r + 1)) = After(c, q + 1)
  <2>1. Overlaid(c, q, After(c, q)) = [lane \in Lanes |-> Overlay(c, q, After(c, q), lane)]
    BY <1>2, OverlaidIs
  <2>2. ASSUME NEW lane \in Lanes
        PROVE  Overlay(c, q, After(c, q), lane)
                 = IF lane < r + 1 THEN Element(c.message[start + lane])
                   ELSE After(c, q)[lane]
    <3>1. lane < r + 1 <=> lane < rate /\ start + lane < n
      BY <1>1, <1>2, <1>6 DEF Lanes
    <3>. HIDE DEF start, n, rate
    <3>. QED
      BY <3>1 DEF Overlay, start, n, rate
  <2>3. Overlaid(c, q, After(c, q)) = Partway(c, q, r + 1)
    BY <2>1, <2>2 DEF Partway
  <2>. QED
    BY <2>3, AfterLaw
<1>. QED
  BY <1>4, <1>5, <1>6

(* The states an element at a time goes through.                           *)
ElementRun(run, message, shape) ==
  run = [k \in 0 .. Length(message) |->
           IF k = 0 THEN ZeroState
           ELSE LET put == [run[k - 1] EXCEPT ![(k - 1) % shape.rate] = Element(message[k - 1])]
                IN  IF k % shape.rate = 0 \/ k = Length(message)
                      THEN Permutation(put) ELSE put]

(* One step of it.                                                         *)
ElementStep(before, message, shape, k) ==
  LET put == [before EXCEPT ![(k - 1) % shape.rate] = Element(message[k - 1])]
  IN  IF k % shape.rate = 0 \/ k = Length(message) THEN Permutation(put) ELSE put

(* Where k elements leave it.                                              *)
Standing(c, k) ==
  IF k % c.shape.rate = 0 THEN After(c, k \div c.shape.rate)
  ELSE IF k = Length(c.message) THEN After(c, k \div c.shape.rate + 1)
  ELSE Partway(c, k \div c.shape.rate, k % c.shape.rate)

(* One element's step leads from one to the next.                          *)
LEMMA StandingSteps ==
  ASSUME NEW c \in HashCalls, c.chaining = "IMPLICIT_CAPACITY",
         NEW k \in 1 .. Length(c.message)
  PROVE  ElementStep(Standing(c, k - 1), c.message, c.shape, k) = Standing(c, k)
<1>. DEFINE rate == c.shape.rate
            n    == Length(c.message)
            p    == k - 1
            q    == p \div rate
            r    == p % rate
<1>1. rate \in Nat \ {0} /\ n \in Nat /\ k \in 1 .. n
  BY HashCallFields
<1>. HIDE DEF rate, n
<1>2. p \in Nat /\ p + 1 = k /\ p < n
  BY <1>1
<1>. HIDE DEF p
<1>3. q \in Nat /\ r \in 0 .. rate - 1 /\ p = q * rate + r
  BY <1>1, <1>2, DivModNat
<1>. HIDE DEF q, r
<1>4. q * rate + r < n /\ q * rate \in Nat /\ r \in Nat /\ k = q * rate + r + 1
  BY <1>1, <1>2, <1>3
<1>5. /\ Partway(c, q, 0) = After(c, q)
      /\ [Partway(c, q, r) EXCEPT ![r] = Element(c.message[q * rate + r])]
           = Partway(c, q, r + 1)
      /\ r + 1 = rate \/ q * rate + r + 1 = n
           => Permutation(Partway(c, q, r + 1)) = After(c, q + 1)
  BY <1>3, <1>4, PartwaySteps DEF rate, n
<1>6. Standing(c, p) = Partway(c, q, r)
  <2>1. p # n
    BY <1>1, <1>2
  <2>. QED
    BY <1>5, <2>1 DEF Standing, q, r, rate, n
<1>7. ElementStep(Standing(c, p), c.message, c.shape, k)
        = IF k % rate = 0 \/ k = n
            THEN Permutation(Partway(c, q, r + 1)) ELSE Partway(c, q, r + 1)
  <2>1. ElementStep(Partway(c, q, r), c.message, c.shape, k)
          = LET put == [Partway(c, q, r) EXCEPT ![r] = Element(c.message[p])]
            IN  IF k % rate = 0 \/ k = n THEN Permutation(put) ELSE put
    BY DEF ElementStep, rate, n, r, p
  <2>. QED
    BY <1>3, <1>5, <1>6, <2>1
<1>8. CASE r + 1 = rate
  <2>1. k = (q + 1) * rate + 0 /\ q + 1 \in Int /\ 0 \in 0 .. rate - 1
    BY <1>1, <1>3, <1>4, <1>8
  <2>2. k \div rate = q + 1 /\ k % rate = 0
    BY <1>1, <2>1, DivModUnique
  <2>. QED
    BY <1>5, <1>7, <1>8, <2>2 DEF Standing, rate, p
<1>9. CASE r + 1 # rate
  <2>1. k = q * rate + (r + 1) /\ q \in Int /\ r + 1 \in 0 .. rate - 1 /\ r + 1 # 0
    BY <1>1, <1>3, <1>4, <1>9
  <2>2. k \div rate = q /\ k % rate = r + 1
    BY <1>1, <2>1, DivModUnique
  <2>3. CASE k = n
    <3>1. Permutation(Partway(c, q, r + 1)) = After(c, q + 1)
      BY <1>4, <1>5, <2>3
    <3>. QED
      BY <1>7, <2>1, <2>2, <2>3, <3>1 DEF Standing, rate, p, n
  <2>4. CASE k # n
    BY <1>7, <2>1, <2>2, <2>4 DEF Standing, rate, p, n
  <2>. QED
    BY <2>3, <2>4
<1>. QED
  BY <1>8, <1>9

(* An element at a time or a block at a time, the states are the same.     *)
LEMMA ElementsAreBlocks ==
  ASSUME NEW c \in HashCalls, c.chaining = "IMPLICIT_CAPACITY"
  PROVE  ElementAtATime(c.message, c.shape) = Truncated(c, After(c, Blocks(c)))
<1>. DEFINE n == Length(c.message)
            g == [k \in 0 .. n |-> Standing(c, k)]
            f == CHOOSE run : ElementRun(run, c.message, c.shape)
<1>1. n \in Nat /\ c.shape.rate \in Nat \ {0}
  BY HashCallFields
<1>2. Standing(c, 0) = ZeroState
  <2>1. 0 % c.shape.rate = 0 /\ 0 \div c.shape.rate = 0
    BY <1>1
  <2>2. After(c, 0) = ZeroState
    BY AfterLaw
  <2>. QED
    BY <2>1, <2>2 DEF Standing
<1>3. ElementRun(g, c.message, c.shape)
  <2>1. ASSUME NEW k \in 0 .. n
        PROVE  g[k] = IF k = 0 THEN ZeroState
                      ELSE ElementStep(g[k - 1], c.message, c.shape, k)
    <3>1. CASE k = 0
      BY <1>2, <3>1
    <3>2. CASE k # 0
      <4>1. k \in 1 .. n /\ k - 1 \in 0 .. n
        BY <1>1, <3>2
      <4>2. g[k - 1] = Standing(c, k - 1) /\ g[k] = Standing(c, k)
        BY <4>1
      <4>. HIDE DEF g
      <4>. QED
        BY <3>2, <4>1, <4>2, StandingSteps
    <3>. QED
      BY <3>1, <3>2
  <2>2. g = [k \in 0 .. n |-> g[k]]
    OBVIOUS
  <2>. HIDE DEF g
  <2>. QED
    BY <2>1, <2>2 DEF ElementRun, ElementStep
<1>4. ElementAtATime(c.message, c.shape) = [lane \in 0 .. c.shape.out - 1 |-> f[n][lane]]
  BY DEF ElementAtATime, ElementRun
<1>5. ElementRun(f, c.message, c.shape)
  BY <1>3
<1>. HIDE DEF f, g
<1>6. /\ f[0] = ZeroState
      /\ \A k \in 1 .. n : f[k] = ElementStep(f[k - 1], c.message, c.shape, k)
  <2>1. \A k \in 0 .. n : f[k] = IF k = 0 THEN ZeroState
                                 ELSE ElementStep(f[k - 1], c.message, c.shape, k)
    BY <1>5 DEF ElementRun, ElementStep
  <2>2. 0 \in 0 .. n /\ \A k \in 1 .. n : k \in 0 .. n /\ k # 0
    BY <1>1
  <2>. QED
    BY <2>1, <2>2
<1>. DEFINE T == {k \in Nat : k <= n => f[k] = Standing(c, k)}
<1>7. 0 \in T
  BY <1>2, <1>6
<1>8. ASSUME NEW k \in T
      PROVE  k + 1 \in T
  <2>. SUFFICES ASSUME k + 1 <= n
                PROVE  f[k + 1] = Standing(c, k + 1)
    OBVIOUS
  <2>1. k \in Nat /\ k + 1 \in 1 .. n /\ (k + 1) - 1 = k /\ f[k] = Standing(c, k)
    BY <1>1
  <2>. HIDE DEF T
  <2>. QED
    BY <1>6, <2>1, StandingSteps
<1>9. T = Nat
  <2>1. T \in SUBSET Nat
    OBVIOUS
  <2>. HIDE DEF T
  <2>. QED
    BY <1>7, <1>8, <2>1, Induction
<1>10. f[n] = Standing(c, n)
  BY <1>1, <1>9
<1>11. Standing(c, n) = After(c, Blocks(c))
  <2>. DEFINE rate == c.shape.rate
              b    == Blocks(c)
              q    == n \div rate
              r    == n % rate
  <2>1. /\ b \in Nat /\ rate \in Nat \ {0}
        /\ \A i \in Nat : i < b <=> i * rate < n
    BY <1>1, BlocksBound
  <2>. HIDE DEF n, rate, b
  <2>2. q \in Nat /\ r \in 0 .. rate - 1 /\ n = q * rate + r
    BY <1>1, <2>1, DivModNat
  <2>. HIDE DEF q, r
  <2>3. q * rate \in Nat /\ b * rate \in Nat /\ (q + 1) * rate = q * rate + rate
    BY <2>1, <2>2
  <2>4. b * rate >= n
    BY <1>1, <2>1, <2>3
  <2>5. CASE r = 0
    <3>1. ~(q < b)
      BY <2>1, <2>2, <2>3, <2>5
    <3>2. ~(b < q)
      <4>1. b < q => b * rate + rate <= q * rate
        <5>1. b < q => (b + 1) * rate <= q * rate
          BY <2>1, <2>2
        <5>. QED
          BY <2>1, <5>1
      <4>. QED
        BY <2>1, <2>2, <2>3, <2>4, <2>5, <4>1
    <3>3. b = q
      BY <2>1, <2>2, <3>1, <3>2
    <3>. QED
      BY <2>5, <3>3 DEF Standing, q, r, rate, b
  <2>6. CASE r # 0
    <3>1. q < b
      BY <2>1, <2>2, <2>3, <2>6
    <3>2. ~(q + 1 < b)
      <4>1. q + 1 \in Nat /\ ~((q + 1) * rate < n)
        BY <1>1, <2>1, <2>2, <2>3
      <4>. QED
        BY <2>1, <4>1
    <3>3. b = q + 1
      BY <2>1, <2>2, <3>1, <3>2
    <3>. QED
      BY <2>6, <3>3 DEF Standing, q, r, rate, n, b
  <2>. QED
    BY <2>5, <2>6
<1>. QED
  BY <1>4, <1>10, <1>11 DEF Truncated

(* What a hash that is not refused returns, by either construction.        *)
LEMMA ReferenceIsBlocks ==
  ASSUME NEW c \in HashCalls
  PROVE  Reference(c.chaining, c.message, c.shape) = Truncated(c, After(c, Blocks(c)))
<1>1. c.chaining \in Chainings
  BY HashCallFields
<1>. QED
  BY <1>1, ElementsAreBlocks, ChainIsBlocks DEF Reference, Chainings

----------------------------------------------------------------------------
(* Two hashes of one rule and shape, block beside block.                   *)

(* The two absorb alike through their first b blocks.                      *)
Alike(c, d, b) ==
  \A i \in Nat : i < b => Overlaid(c, i, After(c, i)) = Overlaid(d, i, After(d, i))

(* What is absorbed alike leaves the same state.                           *)
LEMMA AlikeStates ==
  ASSUME NEW c, NEW d, NEW b \in Nat, Alike(c, d, b), NEW i \in 0 .. b
  PROVE  After(c, i) = After(d, i)
<1>1. CASE i = 0
  BY <1>1, AfterLaw
<1>2. CASE i # 0
  <2>. DEFINE j == i - 1
  <2>1. j \in Nat /\ j + 1 = i /\ j < b
    BY <1>2
  <2>. HIDE DEF j
  <2>2. Overlaid(c, j, After(c, j)) = Overlaid(d, j, After(d, j))
    BY <2>1 DEF Alike
  <2>3. /\ After(c, j + 1) = Permutation(Overlaid(c, j, After(c, j)))
        /\ After(d, j + 1) = Permutation(Overlaid(d, j, After(d, j)))
    BY <2>1, AfterLaw
  <2>. QED
    BY <2>1, <2>2, <2>3
<1>. QED
  BY <1>1, <1>2

(* One lane of a state names the block it came from, and all of it.        *)
LEMMA SameLane ==
  ASSUME NEW c, NEW d, NEW p \in Nat, NEW q \in Nat, NEW lane \in Lanes,
         After(c, p)[lane] = After(d, q)[lane]
  PROVE  /\ p = 0 <=> q = 0
         /\ p # 0 => Overlaid(c, p - 1, After(c, p - 1)) = Overlaid(d, q - 1, After(d, q - 1))
<1>. DEFINE x(e, k) == Overlaid(e, k, After(e, k))
<1>1. ASSUME NEW e, NEW k \in Nat
      PROVE  /\ k = 0 => After(e, k)[lane] = <<"element", Zero>>
             /\ k # 0 => After(e, k)[lane] = <<"lane", lane, x(e, k - 1)>>
  <2>1. k = 0 => After(e, k)[lane] = <<"element", Zero>>
    BY AfterLane DEF Element
  <2>2. ASSUME k # 0
        PROVE  After(e, k)[lane] = <<"lane", lane, x(e, k - 1)>>
    <3>. DEFINE j == k - 1
    <3>1. j \in Nat /\ j + 1 = k
      BY <2>2
    <3>. HIDE DEF j
    <3>2. After(e, j + 1)[lane] = <<"lane", lane, x(e, j)>>
      BY <3>1, AfterLane
    <3>. QED
      BY <3>1, <3>2 DEF j
  <2>. QED
    BY <2>1, <2>2
<1>. HIDE DEF x
<1>2. \A u, v, w : <<"element", u>> # <<"lane", v, w>>
  OBVIOUS
<1>3. \A u, v, w : <<"lane", u, v>> = <<"lane", u, w>> => v = w
  OBVIOUS
<1>4. p = 0 <=> q = 0
  BY <1>1, <1>2
<1>5. p # 0 => x(c, p - 1) = x(d, q - 1)
  <2>1. p # 0 => /\ After(c, p)[lane] = <<"lane", lane, x(c, p - 1)>>
                 /\ After(d, q)[lane] = <<"lane", lane, x(d, q - 1)>>
    BY <1>1, <1>4
  <2>. QED
    BY <1>3, <2>1
<1>. QED
  BY <1>4, <1>5 DEF x

(* Blocks permuted from one state were chained from a common lane.         *)
LEMMA SameChain ==
  ASSUME NEW c \in HashCalls, NEW d \in HashCalls,
         c.chaining = d.chaining, c.shape = d.shape,
         NEW p \in Nat, NEW q \in Nat, p < Blocks(c), q < Blocks(d),
         Overlaid(c, p, After(c, p)) = Overlaid(d, q, After(d, q))
  PROVE  \E lane \in Lanes : After(c, p)[lane] = After(d, q)[lane]
<1>. DEFINE rate == c.shape.rate
            X    == After(c, p)
            Y    == After(d, q)
<1>1. /\ rate \in Nat \ {0} /\ rate < Width /\ Width \in Nat
      /\ c.chaining \in Chainings
  BY HashCallFields
<1>2. rate \in Lanes /\ 0 \in Lanes /\ rate - rate = 0 /\ ~(rate < rate)
  BY <1>1 DEF Lanes
<1>3. /\ Overlaid(c, p, X) = [lane \in Lanes |-> Overlay(c, p, X, lane)]
      /\ Overlaid(d, q, Y) = [lane \in Lanes |-> Overlay(d, q, Y, lane)]
  <2>1. p * c.shape.rate < Length(c.message) /\ q * d.shape.rate < Length(d.message)
    BY BlocksBound
  <2>. QED
    BY <2>1, OverlaidIs
<1>. HIDE DEF X, Y, rate
<1>4. Overlay(c, p, X, rate) = Overlay(d, q, Y, rate)
  <2>1. Overlaid(c, p, X)[rate] = Overlaid(d, q, Y)[rate]
    BY DEF X, Y
  <2>. QED
    BY <1>2, <1>3, <2>1
<1>5. CASE c.chaining = "IMPLICIT_CAPACITY"
  <2>1. X[rate] = Y[rate]
    BY <1>2, <1>4, <1>5 DEF Overlay, rate
  <2>. QED
    BY <1>2, <2>1 DEF X, Y
<1>6. CASE c.chaining = "DIGEST_IN_CAPACITY"
  <2>1. X[rate - rate] = Y[rate - rate]
    BY <1>2, <1>4, <1>6 DEF Overlay, rate
  <2>. QED
    BY <1>2, <2>1 DEF X, Y
<1>. QED
  BY <1>1, <1>5, <1>6 DEF Chainings

(* States that share a lane are as many blocks in, all absorbed alike.     *)
LEMMA SharedLaneAlike ==
  ASSUME NEW c \in HashCalls, NEW d \in HashCalls,
         c.chaining = d.chaining, c.shape = d.shape
  PROVE  \A p \in Nat : \A q \in Nat : \A lane \in Lanes :
           /\ p <= Blocks(c) /\ q <= Blocks(d)
           /\ After(c, p)[lane] = After(d, q)[lane]
           => p = q /\ Alike(c, d, p)
<1>. DEFINE T == {p \in Nat : \A q \in Nat : \A lane \in Lanes :
                    /\ p <= Blocks(c) /\ q <= Blocks(d)
                    /\ After(c, p)[lane] = After(d, q)[lane]
                    => p = q /\ Alike(c, d, p)}
<1>1. 0 \in T
  <2>1. Alike(c, d, 0)
    BY DEF Alike
  <2>. QED
    BY <2>1, SameLane
<1>2. ASSUME NEW p \in T
      PROVE  p + 1 \in T
  <2>0. p \in Nat /\ p + 1 \in Nat /\ (p + 1) - 1 = p /\ p + 1 # 0
    OBVIOUS
  <2>1. SUFFICES ASSUME NEW q \in Nat, NEW lane \in Lanes,
                        p + 1 <= Blocks(c), q <= Blocks(d),
                        After(c, p + 1)[lane] = After(d, q)[lane]
                 PROVE  p + 1 = q /\ Alike(c, d, p + 1)
    BY <2>0
  <2>. DEFINE r == q - 1
  <2>2. /\ q # 0
        /\ Overlaid(c, p, After(c, p)) = Overlaid(d, r, After(d, r))
    BY <2>0, <2>1, SameLane
  <2>3. r \in Nat /\ r + 1 = q /\ r < Blocks(d) /\ r <= Blocks(d) /\ p < Blocks(c) /\ p <= Blocks(c)
    BY <2>0, <2>1, <2>2, BlocksBound
  <2>. HIDE DEF r
  <2>4. \E other \in Lanes : After(c, p)[other] = After(d, r)[other]
    BY <2>0, <2>2, <2>3, SameChain
  <2>5. p = r /\ Alike(c, d, p)
    BY <2>3, <2>4
  <2>6. Alike(c, d, p + 1)
    <3>. HIDE DEF T
    <3>1. \A i \in Nat : i < p + 1 => i < p \/ i = p
      BY <2>0
    <3>. QED
      BY <2>0, <2>2, <2>5, <3>1 DEF Alike
  <2>. QED
    BY <2>3, <2>5, <2>6
<1>3. T = Nat
  <2>1. T \in SUBSET Nat
    OBVIOUS
  <2>. HIDE DEF T
  <2>. QED
    BY <1>1, <1>2, <2>1, Induction
<1>. QED
  BY <1>3

(* Over one state, a rate lane is overlaid alike exactly if the padded     *)
(* inputs agree there, and a masked lane is masked in both where the state *)
(* is not zero.                                                            *)
LEMMA SameOverlay ==
  ASSUME NEW c \in HashCalls, NEW d \in HashCalls,
         c.chaining = d.chaining, c.shape = d.shape,
         NEW i \in Nat, NEW lane \in 0 .. c.shape.rate - 1, After(c, i) = After(d, i)
  PROVE  LET k == i * c.shape.rate + lane
         IN  Overlay(c, i, After(c, i), lane) = Overlay(d, i, After(d, i), lane)
               <=> /\ PaddedLane(c.message, k) = PaddedLane(d.message, k)
                   /\ c.chaining = "IMPLICIT_CAPACITY" /\ i > 0
                        => (k < Length(c.message) <=> k < Length(d.message))
<1>. DEFINE rate == c.shape.rate
            k    == i * rate + lane
            m    == c.message
            n    == d.message
            X    == After(c, i)
<1>1. /\ rate \in Nat \ {0} /\ rate < Width /\ Width \in Nat
      /\ Length(m) \in Nat /\ Length(n) \in Nat /\ c.chaining \in Chainings
  BY HashCallFields
<1>2. lane \in Lanes /\ lane \in Nat /\ lane < rate
  BY <1>1 DEF Lanes
<1>3. k \in Nat
  BY <1>1, <1>2
<1>4. /\ Overlay(c, i, X, lane) = IF k < Length(m) THEN Element(m[k])
                                  ELSE IF c.chaining = "IMPLICIT_CAPACITY" THEN X[lane]
                                  ELSE Element(Zero)
      /\ Overlay(d, i, X, lane) = IF k < Length(n) THEN Element(n[k])
                                  ELSE IF c.chaining = "IMPLICIT_CAPACITY" THEN X[lane]
                                  ELSE Element(Zero)
  BY <1>2 DEF Overlay
<1>5. /\ i = 0 => X[lane] = Element(Zero)
      /\ i > 0 => \A e : X[lane] # Element(e)
  <2>1. i = 0 => X[lane] = Element(Zero)
    BY <1>2, AfterLane
  <2>2. ASSUME i > 0
        PROVE  \A e : X[lane] # Element(e)
    <3>. DEFINE j == i - 1
    <3>1. j \in Nat /\ j + 1 = i
      BY <2>2
    <3>. HIDE DEF j
    <3>2. X[lane] = <<"lane", lane, Overlaid(c, j, After(c, j))>>
      BY <1>2, <3>1, AfterLane
    <3>3. \A u, v, w : <<"element", u>> # <<"lane", v, w>>
      OBVIOUS
    <3>. QED
      BY <3>2, <3>3 DEF Element
  <2>. QED
    BY <2>1, <2>2
<1>6. /\ PaddedLane(m, k) = IF k < Length(m) THEN Element(m[k]) ELSE Element(Zero)
      /\ PaddedLane(n, k) = IF k < Length(n) THEN Element(n[k]) ELSE Element(Zero)
  BY DEF PaddedLane
<1>7. i = 0 \/ i > 0
  OBVIOUS
<1>. HIDE DEF k, m, n, X, rate
<1>8. Overlay(c, i, X, lane) = Overlay(d, i, X, lane)
               <=> /\ PaddedLane(m, k) = PaddedLane(n, k)
                   /\ c.chaining = "IMPLICIT_CAPACITY" /\ i > 0
                        => (k < Length(m) <=> k < Length(n))
  <2>1. CASE c.chaining = "IMPLICIT_CAPACITY" /\ i > 0
    BY <1>4, <1>5, <1>6, <2>1
  <2>2. CASE ~(c.chaining = "IMPLICIT_CAPACITY" /\ i > 0)
    BY <1>4, <1>5, <1>6, <1>7, <2>2
  <2>. QED
    BY <2>1, <2>2
<1>. QED
  BY <1>8 DEF k, m, n, X, rate

(* Over one state, blocks are overlaid alike exactly if their rate lanes   *)
(* are.                                                                    *)
LEMMA SameBlock ==
  ASSUME NEW c \in HashCalls, NEW d \in HashCalls,
         c.chaining = d.chaining, c.shape = d.shape,
         NEW i \in Nat, i < Blocks(c), i < Blocks(d), After(c, i) = After(d, i)
  PROVE  Overlaid(c, i, After(c, i)) = Overlaid(d, i, After(d, i))
           <=> \A lane \in 0 .. c.shape.rate - 1 :
                 Overlay(c, i, After(c, i), lane) = Overlay(d, i, After(d, i), lane)
<1>. DEFINE rate == c.shape.rate
            X    == After(c, i)
<1>1. rate \in Nat \ {0} /\ rate < Width /\ Width \in Nat
  BY HashCallFields
<1>2. /\ Overlaid(c, i, X) = [lane \in Lanes |-> Overlay(c, i, X, lane)]
      /\ Overlaid(d, i, X) = [lane \in Lanes |-> Overlay(d, i, X, lane)]
  <2>1. i * c.shape.rate < Length(c.message) /\ i * d.shape.rate < Length(d.message)
    BY BlocksBound
  <2>. QED
    BY <2>1, OverlaidIs
<1>3. \A lane \in Lanes :
        lane \in 0 .. rate - 1 \/ Overlay(c, i, X, lane) = Overlay(d, i, X, lane)
  <2>1. \A lane \in Lanes : lane \in 0 .. rate - 1 \/ ~(lane < rate)
    BY <1>1 DEF Lanes
  <2>. QED
    BY <2>1 DEF Overlay
<1>4. \A lane \in 0 .. rate - 1 : lane \in Lanes
  BY <1>1 DEF Lanes
<1>. HIDE DEF X, rate
<1>5. Overlaid(c, i, X) = Overlaid(d, i, X)
        => \A lane \in 0 .. rate - 1 : Overlay(c, i, X, lane) = Overlay(d, i, X, lane)
  <2>1. SUFFICES ASSUME Overlaid(c, i, X) = Overlaid(d, i, X), NEW lane \in 0 .. rate - 1
                 PROVE  Overlay(c, i, X, lane) = Overlay(d, i, X, lane)
    OBVIOUS
  <2>2. Overlaid(c, i, X)[lane] = Overlaid(d, i, X)[lane]
    BY <2>1
  <2>. QED
    BY <1>2, <1>4, <2>2
<1>6. ASSUME \A lane \in 0 .. rate - 1 : Overlay(c, i, X, lane) = Overlay(d, i, X, lane)
      PROVE  Overlaid(c, i, X) = Overlaid(d, i, X)
  <2>1. \A lane \in Lanes : Overlay(c, i, X, lane) = Overlay(d, i, X, lane)
    BY <1>3, <1>6
  <2>. QED
    BY <1>2, <2>1
<1>. QED
  BY <1>5, <1>6 DEF X, rate

(* An input of b blocks ends in its last one.                              *)
LEMMA LastBlock ==
  ASSUME NEW c \in HashCalls
  PROVE  /\ Length(c.message) <= Blocks(c) * c.shape.rate
         /\ Blocks(c) # 0 => (Blocks(c) - 1) * c.shape.rate < Length(c.message)
<1>1. /\ Blocks(c) \in Nat /\ c.shape.rate \in Nat /\ Length(c.message) \in Nat
      /\ \A i \in Nat : i < Blocks(c) <=> i * c.shape.rate < Length(c.message)
  BY BlocksBound, HashCallFields
<1>2. ~(Blocks(c) * c.shape.rate < Length(c.message))
  BY <1>1
<1>3. Blocks(c) * c.shape.rate \in Nat
  BY <1>1
<1>4. Blocks(c) # 0 => Blocks(c) - 1 \in Nat /\ Blocks(c) - 1 < Blocks(c)
  BY <1>1
<1>. QED
  BY <1>1, <1>2, <1>3, <1>4

(* As many blocks are absorbed alike exactly if the padded inputs agree,   *)
(* and past a first block the inputs are equally long.                     *)
LEMMA AlikePadded ==
  ASSUME NEW c \in HashCalls, NEW d \in HashCalls,
         c.chaining = d.chaining, c.shape = d.shape, Blocks(c) = Blocks(d)
  PROVE  Alike(c, d, Blocks(c))
           <=> /\ \A k \in 0 .. MaxLength : PaddedLane(c.message, k) = PaddedLane(d.message, k)
               /\ c.chaining = "IMPLICIT_CAPACITY" /\ Blocks(c) > 1
                    => Length(c.message) = Length(d.message)
<1>. DEFINE rate == c.shape.rate
            b    == Blocks(c)
            m    == c.message
            n    == d.message
<1>1. /\ rate \in Nat \ {0} /\ b \in Nat /\ MaxLength \in Nat
      /\ Length(m) \in Nat /\ Length(m) <= MaxLength
      /\ Length(n) \in Nat /\ Length(n) <= MaxLength
      /\ Length(m) <= b * rate /\ Length(n) <= b * rate /\ b * rate \in Nat
      /\ b # 0 => (b - 1) * rate < Length(m) /\ (b - 1) * rate < Length(n)
  <2>1. b \in Nat /\ rate \in Nat \ {0} /\ rate \in Nat
    BY BlocksBound, HashCallFields
  <2>2. b * rate \in Nat
    BY <2>1
  <2>. QED
    BY <2>1, <2>2, HashCallFields, LastBlock
<1>2. ASSUME NEW i \in Nat, i < b, After(c, i) = After(d, i)
      PROVE  /\ Overlaid(c, i, After(c, i)) = Overlaid(d, i, After(d, i))
                  => \A lane \in 0 .. rate - 1 :
                       /\ PaddedLane(m, i * rate + lane) = PaddedLane(n, i * rate + lane)
                       /\ c.chaining = "IMPLICIT_CAPACITY" /\ i > 0
                            => (i * rate + lane < Length(m) <=> i * rate + lane < Length(n))
             /\ (\A lane \in 0 .. rate - 1 :
                       /\ PaddedLane(m, i * rate + lane) = PaddedLane(n, i * rate + lane)
                       /\ c.chaining = "IMPLICIT_CAPACITY" /\ i > 0
                            => (i * rate + lane < Length(m) <=> i * rate + lane < Length(n)))
                  => Overlaid(c, i, After(c, i)) = Overlaid(d, i, After(d, i))
  <2>1. Overlaid(c, i, After(c, i)) = Overlaid(d, i, After(d, i))
           <=> \A lane \in 0 .. rate - 1 :
                 Overlay(c, i, After(c, i), lane) = Overlay(d, i, After(d, i), lane)
    BY <1>2, SameBlock
  <2>2. ASSUME NEW lane \in 0 .. rate - 1
        PROVE  Overlay(c, i, After(c, i), lane) = Overlay(d, i, After(d, i), lane)
                 <=> /\ PaddedLane(m, i * rate + lane) = PaddedLane(n, i * rate + lane)
                     /\ c.chaining = "IMPLICIT_CAPACITY" /\ i > 0
                          => (i * rate + lane < Length(m) <=> i * rate + lane < Length(n))
    BY <1>2, SameOverlay
  <2>. QED
    BY <2>1, <2>2
<1>. HIDE DEF rate, b, m, n
<1>3. ASSUME Alike(c, d, b)
      PROVE  \A i \in Nat : i < b =>
               \A lane \in 0 .. rate - 1 :
                 /\ PaddedLane(m, i * rate + lane) = PaddedLane(n, i * rate + lane)
                 /\ c.chaining = "IMPLICIT_CAPACITY" /\ i > 0
                      => (i * rate + lane < Length(m) <=> i * rate + lane < Length(n))
  <2>1. \A i \in Nat : i < b => /\ After(c, i) = After(d, i)
                                /\ Overlaid(c, i, After(c, i)) = Overlaid(d, i, After(d, i))
    <3>1. \A i \in Nat : i < b => i \in 0 .. b
      BY <1>1
    <3>. QED
      BY <1>1, <1>3, <3>1, AlikeStates DEF Alike
  <2>. QED
    BY <1>2, <2>1
<1>4. ASSUME Alike(c, d, b), NEW k \in 0 .. MaxLength
      PROVE  PaddedLane(m, k) = PaddedLane(n, k)
  <2>1. CASE k < b * rate
    <3>. DEFINE i    == k \div rate
                lane == k % rate
    <3>0. k \in Nat /\ rate \in Nat \ {0}
      BY <1>1
    <3>1. i \in Nat /\ lane \in 0 .. rate - 1 /\ k = i * rate + lane
      BY <3>0, DivModNat
    <3>. HIDE DEF i, lane
    <3>2. i < b
      <4>1. ~(i < b) => b * rate <= i * rate
        BY <1>1, <3>1
      <4>2. i * rate \in Nat
        BY <1>1, <3>1
      <4>. QED
        BY <1>1, <2>1, <3>1, <4>1, <4>2
    <3>. QED
      BY <1>3, <1>4, <3>1, <3>2
  <2>2. CASE ~(k < b * rate)
    <3>1. ~(k < Length(m)) /\ ~(k < Length(n))
      BY <1>1, <2>2
    <3>. QED
      BY <3>1 DEF PaddedLane
  <2>. QED
    BY <2>1, <2>2
<1>5. ASSUME Alike(c, d, b), c.chaining = "IMPLICIT_CAPACITY", b > 1
      PROVE  Length(m) = Length(n)
  <2>. DEFINE i == b - 1
  <2>1. i \in Nat /\ i < b /\ i > 0 /\ i * rate < Length(m) /\ i * rate < Length(n)
    BY <1>1, <1>5
  <2>2. i * rate \in Nat /\ b * rate = i * rate + rate
    BY <1>1, <2>1
  <2>. HIDE DEF i
  <2>3. \A lane \in 0 .. rate - 1 : i * rate + lane < Length(m) <=> i * rate + lane < Length(n)
    BY <1>3, <1>5, <2>1
  <2>4. ~(Length(m) < Length(n))
    <3>. DEFINE lane == Length(m) - i * rate
    <3>1. Length(m) < Length(n) => lane \in 0 .. rate - 1 /\ i * rate + lane = Length(m)
      BY <1>1, <2>1, <2>2
    <3>. HIDE DEF lane
    <3>. QED
      BY <1>1, <2>3, <3>1
  <2>5. ~(Length(n) < Length(m))
    <3>. DEFINE lane == Length(n) - i * rate
    <3>1. Length(n) < Length(m) => lane \in 0 .. rate - 1 /\ i * rate + lane = Length(n)
      BY <1>1, <2>1, <2>2
    <3>. HIDE DEF lane
    <3>. QED
      BY <1>1, <2>3, <3>1
  <2>. QED
    BY <1>1, <2>4, <2>5
<1>6. ASSUME \A k \in 0 .. MaxLength : PaddedLane(m, k) = PaddedLane(n, k),
             c.chaining = "IMPLICIT_CAPACITY" /\ b > 1 => Length(m) = Length(n)
      PROVE  Alike(c, d, b)
  <2>1. ASSUME NEW i \in Nat, i < b, After(c, i) = After(d, i)
        PROVE  Overlaid(c, i, After(c, i)) = Overlaid(d, i, After(d, i))
    <3>1. ASSUME NEW lane \in 0 .. rate - 1
          PROVE  /\ PaddedLane(m, i * rate + lane) = PaddedLane(n, i * rate + lane)
                 /\ c.chaining = "IMPLICIT_CAPACITY" /\ i > 0
                      => (i * rate + lane < Length(m) <=> i * rate + lane < Length(n))
      <4>. DEFINE k == i * rate + lane
      <4>1. k \in Nat
        BY <1>1
      <4>. HIDE DEF k
      <4>2. PaddedLane(m, k) = PaddedLane(n, k)
        <5>1. CASE k \in 0 .. MaxLength
          BY <1>6, <5>1
        <5>2. CASE k \notin 0 .. MaxLength
          <6>1. ~(k < Length(m)) /\ ~(k < Length(n))
            BY <1>1, <4>1, <5>2
          <6>. QED
            BY <6>1 DEF PaddedLane
        <5>. QED
          BY <5>1, <5>2
      <4>3. i > 0 => b > 1
        BY <1>1, <2>1
      <4>. QED
        BY <1>6, <4>2, <4>3 DEF k
    <3>. QED
      BY <1>2, <2>1, <3>1
  <2>. DEFINE T == {i \in Nat : i <= b => After(c, i) = After(d, i)}
  <2>2. 0 \in T
    BY AfterLaw
  <2>3. ASSUME NEW i \in T
        PROVE  i + 1 \in T
    <3>1. SUFFICES ASSUME i + 1 <= b
                   PROVE  After(c, i + 1) = After(d, i + 1)
      OBVIOUS
    <3>2. i \in Nat /\ i < b /\ After(c, i) = After(d, i)
      BY <1>1, <3>1
    <3>. HIDE DEF T
    <3>. QED
      BY <2>1, <3>2, AfterLaw
  <2>4. T = Nat
    <3>1. T \in SUBSET Nat
      OBVIOUS
    <3>. HIDE DEF T
    <3>. QED
      BY <2>2, <2>3, <3>1, Induction
  <2>5. \A i \in Nat : i < b => After(c, i) = After(d, i)
    BY <1>1, <2>4
  <2>. QED
    BY <2>1, <2>5 DEF Alike
<1>7. Alike(c, d, b)
        <=> /\ \A k \in 0 .. MaxLength : PaddedLane(m, k) = PaddedLane(n, k)
            /\ c.chaining = "IMPLICIT_CAPACITY" /\ b > 1 => Length(m) = Length(n)
  BY <1>4, <1>5, <1>6
<1>. QED
  BY <1>7 DEF b, m, n

(* Two digests are equal exactly if the padded inputs are.                 *)
LEMMA DigestsCollide ==
  ASSUME NEW c \in HashCalls, NEW d \in HashCalls,
         c.chaining = d.chaining, c.shape = d.shape
  PROVE  Truncated(c, After(c, Blocks(c))) = Truncated(d, After(d, Blocks(d)))
           <=> SamePadded(c.chaining, c.shape, c.message, d.message)
<1>1. /\ SamePadded(c.chaining, c.shape, c.message, d.message)
           <=> /\ Blocks(c) = Blocks(d)
               /\ \A k \in 0 .. MaxLength : PaddedLane(c.message, k) = PaddedLane(d.message, k)
               /\ c.chaining = "IMPLICIT_CAPACITY" /\ Blocks(c) > 1
                    => Length(c.message) = Length(d.message)
  BY DEF SamePadded, Blocks
<1>2. SamePadded(c.chaining, c.shape, c.message, d.message)
        <=> Blocks(c) = Blocks(d) /\ Alike(c, d, Blocks(c))
  BY <1>1, AlikePadded
<1>3. Blocks(c) \in Nat /\ Blocks(d) \in Nat
  BY BlocksBound
<1>4. ASSUME Truncated(c, After(c, Blocks(c))) = Truncated(d, After(d, Blocks(d)))
      PROVE  Blocks(c) = Blocks(d) /\ Alike(c, d, Blocks(c))
  <2>1. 0 \in 0 .. c.shape.out - 1 /\ 0 \in Lanes
    <3>1. c.shape.out \in Nat \ {0} /\ c.shape.out <= Width /\ Width \in Nat
      BY HashCallFields
    <3>. QED
      BY <3>1 DEF Lanes
  <2>2. Truncated(c, After(c, Blocks(c)))[0] = Truncated(d, After(d, Blocks(d)))[0]
    BY <1>4
  <2>3. After(c, Blocks(c))[0] = After(d, Blocks(d))[0]
    BY <2>1, <2>2 DEF Truncated
  <2>4. Blocks(c) <= Blocks(c) /\ Blocks(d) <= Blocks(d)
    BY <1>3
  <2>. QED
    BY <1>3, <2>1, <2>3, <2>4, SharedLaneAlike
<1>5. ASSUME Blocks(c) = Blocks(d), Alike(c, d, Blocks(c))
      PROVE  Truncated(c, After(c, Blocks(c))) = Truncated(d, After(d, Blocks(d)))
  <2>1. Blocks(c) \in 0 .. Blocks(c)
    BY <1>3
  <2>2. After(c, Blocks(c)) = After(d, Blocks(d))
    BY <1>3, <1>5, <2>1, AlikeStates
  <2>. QED
    BY <2>2 DEF Truncated
<1>. QED
  BY <1>2, <1>4, <1>5

----------------------------------------------------------------------------
(* The machine.                                                            *)

(* A call stands where its first i blocks leave it, and what was returned  *)
(* is what some call's blocks leave, truncated.                            *)
FSIInv ==
  /\ \/ call = Idle
     \/ \E c \in HashCalls : \E i \in 0 .. Blocks(c) :
          Length(c.message) > 0 /\ call = At(c, i, After(c, i))
  /\ \/ result = Idle
     \/ result = ValueError
     \/ \E c \in HashCalls : result = Digest(c, After(c, Blocks(c)))

(* What a call keeps while its blocks are absorbed.                        *)
LEMMA AtFields ==
  ASSUME NEW c, NEW i, NEW lanes, NEW d, d = At(c, i, lanes)
  PROVE  /\ d # Idle /\ d.i = i /\ d.lanes = lanes
         /\ d.chaining = c.chaining /\ d.shape = c.shape /\ d.message = c.message
         /\ Blocks(d) = Blocks(c)
         /\ Digest(d, d.lanes) = Digest(c, lanes)
<1>1. /\ d.kind = "call" /\ d.i = i /\ d.lanes = lanes
      /\ d.chaining = c.chaining /\ d.shape = c.shape /\ d.message = c.message
  BY DEF At
<1>2. d # Idle
  BY <1>1 DEF Idle
<1>3. Blocks(d) = Blocks(c) /\ Digest(d, d.lanes) = Digest(c, lanes)
  BY <1>1 DEF Blocks, Digest
<1>. QED
  BY <1>1, <1>2, <1>3

(* What one iteration of the scan makes of a call.                         *)
Absorbed(d) ==
  [d EXCEPT !.lanes = Permutation(SetCapacity(d, RateOverwritten(d))), !.i = @ + 1]

(* One iteration of the scan replaces its lanes and counts its block.      *)
LEMMA AtAbsorbs ==
  ASSUME NEW c, NEW i, NEW lanes, NEW d, d = At(c, i, lanes)
  PROVE  Absorbed(d) = At(c, i + 1, Permutation(Overlaid(c, i, lanes)))
<1>1. ASSUME NEW new
      PROVE  [d EXCEPT !.lanes = new, !.i = d.i + 1] = At(c, i + 1, new)
  <2>1. [At(c, i, lanes) EXCEPT !.lanes = new] = At(c, i, new)
    BY AtReplaced
  <2>2. [At(c, i, new) EXCEPT !.i = i + 1] = At(c, i + 1, new)
    BY AtReplaced
  <2>3. d.i = i
    BY AtFields
  <2>4. [d EXCEPT !.lanes = new, !.i = i + 1] = [[d EXCEPT !.lanes = new] EXCEPT !.i = i + 1]
    OBVIOUS
  <2>. QED
    BY <2>1, <2>2, <2>3, <2>4
<1>2. Overlaid(c, i, lanes) = SetCapacity(d, RateOverwritten(d))
  BY DEF Overlaid
<1>. QED
  BY <1>1, <1>2 DEF Absorbed

(* A call that fits is one of the calls, whatever the rule, shape, input.  *)
LEMMA CallIsHashCall ==
  ASSUME NEW chaining \in Chainings, NEW shape \in Shapes, NEW message \in Messages,
         Fits(chaining, shape)
  PROVE  /\ Call(chaining, shape, message) \in HashCalls
         /\ Call(chaining, shape, message).chaining = chaining
         /\ Call(chaining, shape, message).shape = shape
         /\ Call(chaining, shape, message).message = message
         /\ Call(chaining, shape, message) = At(Call(chaining, shape, message), 0, ZeroState)
<1>1. /\ Call(chaining, shape, message).chaining = chaining
      /\ Call(chaining, shape, message).shape = shape
      /\ Call(chaining, shape, message).message = message
      /\ Call(chaining, shape, message) = At(Call(chaining, shape, message), 0, ZeroState)
  BY DEF Call, At
<1>. QED
  BY <1>1 DEF HashCalls

(* Initially nothing runs and nothing was returned.                        *)
LEMMA FSInitInvariant == FSInit => FSIInv
BY DEF FSInit, FSIInv

(* Every step of sponge.py's hash leaves the call where its blocks do.     *)
LEMMA FSStepInvariant == FSIInv /\ [FSNext]_fsVars => FSIInv'
<1>. SUFFICES ASSUME FSIInv, [FSNext]_fsVars
              PROVE  FSIInv'
  OBVIOUS
<1>1. ASSUME NEW chaining \in Chainings, NEW shape \in Shapes, NEW message \in Messages,
             Hash(chaining, shape, message)
      PROVE  FSIInv'
  <2>. DEFINE c == Call(chaining, shape, message)
  <2>1. c \in HashCalls /\ c.message = message /\ c = At(c, 0, ZeroState)
    BY <1>1, CallIsHashCall DEF Hash
  <2>2. call' = c /\ result' = Idle /\ Length(message) > 0
    BY <1>1 DEF Hash
  <2>. HIDE DEF c
  <2>3. 0 \in 0 .. Blocks(c) /\ After(c, 0) = ZeroState
    BY <2>1, BlocksBound, AfterLaw
  <2>. QED
    BY <2>1, <2>2, <2>3 DEF FSIInv
<1>2. ASSUME NEW chaining \in Chainings, NEW shape \in Shapes, NEW message \in Messages,
             HashEmpty(chaining, shape, message)
      PROVE  FSIInv'
  <2>. DEFINE c == Call(chaining, shape, message)
  <2>1. c \in HashCalls /\ c.message = message
    BY <1>2, CallIsHashCall DEF HashEmpty
  <2>2. call' = call /\ call = Idle /\ result' = Digest(c, ZeroState) /\ Length(message) = 0
    BY <1>2 DEF HashEmpty
  <2>. HIDE DEF c
  <2>3. Blocks(c) = 0 /\ After(c, 0) = ZeroState
    BY <2>1, <2>2, BlocksBound, AfterLaw
  <2>. QED
    BY <2>1, <2>2, <2>3 DEF FSIInv
<1>3. ASSUME NEW chaining \in Chainings, NEW shape \in Shapes, RejectHash(chaining, shape)
      PROVE  FSIInv'
  BY <1>3 DEF RejectHash, FSIInv
<1>4. ASSUME AbsorbBlock
      PROVE  FSIInv'
  <2>1. PICK c \in HashCalls : \E i \in 0 .. Blocks(c) :
               Length(c.message) > 0 /\ call = At(c, i, After(c, i))
    BY <1>4 DEF AbsorbBlock, FSIInv
  <2>2. PICK i \in 0 .. Blocks(c) : Length(c.message) > 0 /\ call = At(c, i, After(c, i))
    BY <2>1
  <2>3. call.i = i /\ Blocks(call) = Blocks(c)
    BY <2>2, AtFields
  <2>4. Absorbed(call) = At(c, i + 1, Permutation(Overlaid(c, i, After(c, i))))
    BY <2>2, AtAbsorbs
  <2>5. call' = At(c, i + 1, Permutation(Overlaid(c, i, After(c, i)))) /\ result' = result
    BY <1>4, <2>4 DEF AbsorbBlock, Absorbed
  <2>6. i \in Nat /\ i + 1 \in 0 .. Blocks(c)
    BY <1>4, <2>3, BlocksBound DEF AbsorbBlock
  <2>7. call' = At(c, i + 1, After(c, i + 1))
    BY <2>5, <2>6, AfterLaw
  <2>. QED
    BY <2>2, <2>5, <2>6, <2>7 DEF FSIInv
<1>5. ASSUME Truncate
      PROVE  FSIInv'
  <2>1. PICK c \in HashCalls : \E i \in 0 .. Blocks(c) :
               Length(c.message) > 0 /\ call = At(c, i, After(c, i))
    BY <1>5 DEF Truncate, FSIInv
  <2>2. PICK i \in 0 .. Blocks(c) : Length(c.message) > 0 /\ call = At(c, i, After(c, i))
    BY <2>1
  <2>3. /\ call.i = i /\ Blocks(call) = Blocks(c)
        /\ Digest(call, call.lanes) = Digest(c, After(c, i))
    BY <2>2, AtFields
  <2>4. call' = Idle /\ result' = Digest(c, After(c, Blocks(c)))
    BY <1>5, <2>3 DEF Truncate
  <2>. QED
    BY <2>4 DEF FSIInv
<1>6. CASE UNCHANGED fsVars
  BY <1>6 DEF FSIInv, fsVars
<1>. QED
  BY <1>1, <1>2, <1>3, <1>4, <1>5, <1>6 DEF FSNext

(* Where a call stands, in every reachable state.                          *)
LEMMA FieldInvariant == FSSpec => []FSIInv
BY FSInitInvariant, FSStepInvariant, PTL DEF FSSpec

(* Every state of sponge.py's scan is one of Width lanes, and every block  *)
(* it absorbs starts inside the input.                                     *)
THEOREM FieldTypesHold == FSSpec => []FSTypeOK
<1>1. ASSUME FSIInv
      PROVE  FSTypeOK
  <2>1. ASSUME call # Idle
        PROVE  /\ DOMAIN call.lanes = Lanes
               /\ call.i \in Nat
               /\ call.i > 0 => (call.i - 1) * call.shape.rate < Length(call.message)
    <3>1. PICK c \in HashCalls : \E i \in 0 .. Blocks(c) :
                 Length(c.message) > 0 /\ call = At(c, i, After(c, i))
      BY <1>1, <2>1 DEF FSIInv
    <3>2. PICK i \in 0 .. Blocks(c) : call = At(c, i, After(c, i))
      BY <3>1
    <3>3. /\ call.i = i /\ call.lanes = After(c, i)
          /\ call.shape = c.shape /\ call.message = c.message
      BY <3>2, AtFields
    <3>4. Blocks(c) \in Nat /\ i \in Nat
      BY BlocksBound
    <3>5. ASSUME i > 0
          PROVE  /\ DOMAIN After(c, i) = Lanes
                 /\ (i - 1) * c.shape.rate < Length(c.message)
      <4>. DEFINE j == i - 1
      <4>1. j \in Nat /\ j + 1 = i /\ j < Blocks(c)
        BY <3>4, <3>5
      <4>. HIDE DEF j
      <4>2. After(c, i) = Permutation(Overlaid(c, j, After(c, j)))
        BY <4>1, AfterLaw
      <4>3. j * c.shape.rate < Length(c.message)
        BY <4>1, BlocksBound
      <4>. QED
        BY <4>2, <4>3 DEF Permutation, j
    <3>6. DOMAIN After(c, 0) = Lanes
      BY AfterLaw DEF ZeroState
    <3>. QED
      BY <3>3, <3>4, <3>5, <3>6
  <2>2. result.kind \in {"idle", "ValueError", "digest"}
    BY <1>1 DEF FSIInv, Idle, ValueError, Digest
  <2>. QED
    BY <2>1, <2>2 DEF FSTypeOK
<1>. QED
  BY <1>1, FieldInvariant, PTL

(* A digest that was returned is a call's, with the call's rule and shape. *)
LEMMA ReturnedDigest ==
  ASSUME FSIInv, result.kind = "digest"
  PROVE  \E c \in HashCalls :
           /\ result.chaining = c.chaining /\ result.shape = c.shape
           /\ result.message = c.message
           /\ result.digest = Truncated(c, After(c, Blocks(c)))
<1>1. PICK c \in HashCalls : result = Digest(c, After(c, Blocks(c)))
  BY DEF FSIInv, Idle, ValueError
<1>. QED
  BY <1>1 DEF Digest, Truncated

(* The masked block-at-a-time hash is the construction of its rule, at     *)
(* every width, rate, digest length and input.                             *)
THEOREM HashesAreReference == FSSpec => []HashesLikeReference
<1>1. ASSUME FSIInv
      PROVE  HashesLikeReference
  BY <1>1, ReturnedDigest, ReferenceIsBlocks DEF HashesLikeReference
<1>. QED
  BY <1>1, FieldInvariant, PTL

(* At every width, rate, digest length and input, the inputs a digest is   *)
(* shared by are those its zero-padded partial block makes alike, and no   *)
(* others: nothing else of the block-at-a-time hash confuses two.          *)
THEOREM CollisionsArePadding == FSSpec => []CollidesOnlyOnPadding
<1>1. ASSUME FSIInv
      PROVE  CollidesOnlyOnPadding
  <2>1. SUFFICES ASSUME result.kind = "digest", NEW other \in Messages
                 PROVE  Reference(result.chaining, other, result.shape) = result.digest
                          <=> SamePadded(result.chaining, result.shape, other, result.message)
    BY DEF CollidesOnlyOnPadding
  <2>2. PICK c \in HashCalls :
           /\ result.chaining = c.chaining /\ result.shape = c.shape
           /\ result.message = c.message
           /\ result.digest = Truncated(c, After(c, Blocks(c)))
    BY <1>1, <2>1, ReturnedDigest
  <2>. DEFINE d == Call(c.chaining, c.shape, other)
  <2>3. d \in HashCalls /\ d.chaining = c.chaining /\ d.shape = c.shape /\ d.message = other
    BY HashCallFields, CallIsHashCall
  <2>. HIDE DEF d
  <2>4. Reference(c.chaining, other, c.shape) = Truncated(d, After(d, Blocks(d)))
    BY <2>3, ReferenceIsBlocks
  <2>5. Truncated(d, After(d, Blocks(d))) = Truncated(c, After(c, Blocks(c)))
          <=> SamePadded(d.chaining, d.shape, d.message, c.message)
    BY <2>3, DigestsCollide
  <2>. QED
    BY <2>2, <2>3, <2>4, <2>5
<1>. QED
  BY <1>1, FieldInvariant, PTL
=============================================================================
