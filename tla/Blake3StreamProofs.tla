------------------------- MODULE Blake3StreamProofs -------------------------
(***************************************************************************)
(* What TLC checks of Blake3Stream on one small instance, for every block, *)
(* chunk, counter and stack size and every length: a stream stands where   *)
(* one pass over its bytes would, its stack is the binary form of the      *)
(* chunk count, level-by-level pairing is the specification's tree, and a  *)
(* read at any point returns the one-shot hash.                            *)
(***************************************************************************)
EXTENDS Blake3Stream, Arithmetic, FiniteSetTheorems

(* The bits of the chunk counter.                                          *)
N == 2 * WordBits

(* What the assumptions say of the constants.                              *)
LEMMA Constants ==
  /\ BlockLen \in Nat \ {0} /\ BlocksPerChunk \in Nat \ {0} /\ WordBits \in Nat \ {0}
  /\ ChunkLen \in Nat \ {0} /\ N \in Nat \ {0}
  /\ MaxStack \in Nat \ {0} /\ MaxStack <= N
  /\ MaxChunk \in Nat /\ MaxBytes \in Nat /\ MaxOut \in Nat
<1>1. \A a, b \in Nat \ {0} : a * b \in Nat \ {0}
  OBVIOUS
<1>. QED
  BY <1>1, TreeAssumption, StreamAssumption DEF ChunkLen, N

----------------------------------------------------------------------------
(* The bits of a number.                                                   *)

(* A number without its b lowest bits, moved down and in place.            *)
Shifted(v, b) == v \div PowerOfTwo[b]
Cut(v, b)     == Shifted(v, b) * PowerOfTwo[b]

(* How many bits are set from bit b up.                                    *)
High(v, b) == Cardinality({x \in b .. N - 1 : Shifted(v, x) % 2 = 1})

(* Shifting once more halves.                                              *)
LEMMA ShiftedSteps ==
  ASSUME NEW v \in Nat
  PROVE  /\ Shifted(v, 0) = v
         /\ \A b \in Nat : /\ Shifted(v, b) \in Nat
                           /\ Shifted(v, b + 1) = Shifted(v, b) \div 2
<1>1. \A b \in Nat : /\ PowerOfTwo[b] \in Nat \ {0}
                     /\ PowerOfTwo[b + 1] = 2 * PowerOfTwo[b]
                     /\ PowerOfTwo[0] = 1
  BY Doubling
<1>2. ASSUME NEW b \in Nat
      PROVE  Shifted(v, b) \in Nat /\ Shifted(v, b + 1) = Shifted(v, b) \div 2
  <2>. DEFINE p == PowerOfTwo[b]
              q == v \div p
              r == v % p
              h == q \div 2
              d == q % 2
  <2>1. p \in Nat \ {0} /\ PowerOfTwo[b + 1] = 2 * p
    BY <1>1
  <2>. HIDE DEF p
  <2>2. q \in Nat /\ r \in 0 .. p - 1 /\ v = q * p + r
    BY <2>1, DivModNat
  <2>. HIDE DEF q, r
  <2>3. h \in Nat /\ d \in 0 .. 1 /\ q = 2 * h + d
    BY <2>2
  <2>. HIDE DEF h, d
  <2>4. v = h * (2 * p) + (d * p + r)
    <3>1. q * p = h * (2 * p) + d * p
      BY <2>1, <2>3
    <3>. QED
      BY <2>1, <2>2, <2>3, <3>1
  <2>5. d * p + r \in 0 .. (2 * p) - 1
    <3>1. d = 0 \/ d = 1
      BY <2>3
    <3>2. d * p \in 0 .. p
      BY <2>1, <3>1
    <3>. QED
      BY <2>1, <2>2, <3>2
  <2>. DEFINE m == 2 * p
              e == d * p + r
  <2>6. m \in Nat \ {0} /\ e \in 0 .. m - 1 /\ v = h * m + e
    BY <2>1, <2>4, <2>5
  <2>. HIDE DEF m, e
  <2>7. v \div m = h
    BY <2>3, <2>6, DivModUnique
  <2>. QED
    BY <2>1, <2>2, <2>7 DEF Shifted, p, q, h, m
<1>3. Shifted(v, 0) = v
  BY <1>1 DEF Shifted
<1>. QED
  BY <1>2, <1>3

(* Where a number is cut.                                                  *)
LEMMA Cuts ==
  ASSUME NEW v \in Nat, NEW b \in Nat
  PROVE  /\ Cut(v, b) \in Nat
         /\ Cut(v, b) <= v /\ v < Cut(v, b) + PowerOfTwo[b]
         /\ v - (v % PowerOfTwo[b]) = Cut(v, b)
         /\ Shifted(v, b) % 2 \in {0, 1}
         /\ Shifted(v, b) % 2 = 0 => Cut(v, b) = Cut(v, b + 1)
         /\ Shifted(v, b) % 2 = 1 => Cut(v, b) = Cut(v, b + 1) + PowerOfTwo[b]
<1>. DEFINE p == PowerOfTwo[b]
            q == Shifted(v, b)
            h == Shifted(v, b + 1)
<1>1. p \in Nat \ {0} /\ PowerOfTwo[b + 1] = 2 * p
  BY Doubling
<1>2. q \in Nat /\ h = q \div 2
  BY ShiftedSteps
<1>3. v % p \in 0 .. p - 1 /\ v = q * p + (v % p)
  <2>. HIDE DEF p
  <2>1. /\ v \div p \in Nat
        /\ v % p \in 0 .. p - 1
        /\ v = (v \div p) * p + (v % p)
    BY <1>1, DivModNat
  <2>. QED
    BY <2>1 DEF Shifted, p
<1>4. Cut(v, b) = q * p /\ Cut(v, b + 1) = h * (2 * p)
  BY <1>1 DEF Cut
<1>. HIDE DEF p, q, h
<1>5. q * p \in Nat
  BY <1>1, <1>2
<1>6. q % 2 \in {0, 1} /\ h \in Nat /\ q = 2 * h + (q % 2)
  BY <1>2
<1>7. q % 2 = 0 => q * p = h * (2 * p)
  BY <1>1, <1>6
<1>8. q % 2 = 1 => q * p = h * (2 * p) + p
  BY <1>1, <1>6
<1>. DEFINE r == v % p
            c == q * p
<1>9. c \in Nat /\ r \in 0 .. p - 1 /\ v = c + r
  BY <1>3, <1>5
<1>. HIDE DEF r, c
<1>10. c <= v /\ v < c + p /\ v - r = c
  BY <1>1, <1>9
<1>. QED
  BY <1>4, <1>5, <1>6, <1>7, <1>8, <1>10 DEF p, q, r, c

(* The bits of what is cut are the number's from there up.                 *)
LEMMA CutBits ==
  ASSUME NEW v \in Nat, NEW b \in Nat, NEW x \in Nat
  PROVE  Shifted(Cut(v, b), x) % 2 = IF x < b THEN 0 ELSE Shifted(v, x) % 2
<1>. DEFINE q == Shifted(v, b)
            w == Cut(v, b)
<1>1. q \in Nat /\ w \in Nat /\ w = q * PowerOfTwo[b]
  BY ShiftedSteps, Cuts DEF Cut
<1>2. /\ Shifted(w, 0) = w
      /\ \A y \in Nat : Shifted(w, y) \in Nat /\ Shifted(w, y + 1) = Shifted(w, y) \div 2
      /\ \A y \in Nat : Shifted(v, y) \in Nat /\ Shifted(v, y + 1) = Shifted(v, y) \div 2
  <2>. HIDE DEF w
  <2>. QED
    BY <1>1, ShiftedSteps
<1>3. \A k \in Nat : PowerOfTwo[k] \in Nat \ {0} /\ PowerOfTwo[k + 1] = 2 * PowerOfTwo[k]
  BY Doubling
<1>4. \A y \in 0 .. b : Shifted(w, y) = q * PowerOfTwo[b - y]
  <2>. HIDE DEF w, q
  <2>. DEFINE T == {y \in Nat : y <= b => Shifted(w, y) = q * PowerOfTwo[b - y]}
  <2>1. 0 \in T
    BY <1>1, <1>2
  <2>2. ASSUME NEW y \in T
        PROVE  y + 1 \in T
    <3>. SUFFICES ASSUME y + 1 <= b
                  PROVE  Shifted(w, y + 1) = q * PowerOfTwo[b - (y + 1)]
      OBVIOUS
    <3>. DEFINE a == PowerOfTwo[b - (y + 1)]
    <3>1. b - (y + 1) \in Nat /\ b - y = (b - (y + 1)) + 1 /\ y \in Nat
      OBVIOUS
    <3>2. a \in Nat /\ PowerOfTwo[b - y] = 2 * a
      BY <1>3, <3>1
    <3>3. Shifted(w, y) = q * (2 * a)
      BY <3>2
    <3>4. Shifted(w, y + 1) = (q * (2 * a)) \div 2
      BY <1>2, <3>1, <3>3
    <3>. HIDE DEF a
    <3>. DEFINE c == q * a
    <3>5. c \in Nat /\ q * (2 * a) = 2 * c
      BY <1>1, <3>2
    <3>. HIDE DEF c
    <3>6. (2 * c) \div 2 = c
      BY <3>5
    <3>. QED
      BY <3>4, <3>5, <3>6 DEF a, c
  <2>3. T = Nat
    <3>1. T \in SUBSET Nat
      OBVIOUS
    <3>. HIDE DEF T
    <3>. QED
      BY <2>1, <2>2, <3>1, Induction
  <2>. QED
    BY <2>3
<1>5. CASE x < b
  <2>. HIDE DEF w, q
  <2>. DEFINE a == PowerOfTwo[b - (x + 1)]
  <2>1. b - (x + 1) \in Nat /\ b - x = (b - (x + 1)) + 1 /\ x \in 0 .. b
    BY <1>5
  <2>2. a \in Nat /\ PowerOfTwo[b - x] = 2 * a
    BY <1>3, <2>1
  <2>3. Shifted(w, x) = q * (2 * a)
    BY <1>4, <2>1, <2>2
  <2>. HIDE DEF a
  <2>. DEFINE c == q * a
  <2>4. c \in Nat /\ q * (2 * a) = 2 * c
    BY <1>1, <2>2
  <2>. HIDE DEF c
  <2>5. Shifted(w, x) % 2 = 0
    BY <2>3, <2>4
  <2>. QED
    BY <1>5, <2>5 DEF w
<1>6. CASE x >= b
  <2>. HIDE DEF w
  <2>. DEFINE T == {d \in Nat : Shifted(w, b + d) = Shifted(v, b + d)}
  <2>1. 0 \in T
    <3>1. Shifted(w, b) = q * PowerOfTwo[0]
      <4>. HIDE DEF q
      <4>. QED
        BY <1>4
    <3>. QED
      BY <1>1, <3>1, Doubling
  <2>2. ASSUME NEW d \in T
        PROVE  d + 1 \in T
    <3>1. b + d \in Nat /\ b + (d + 1) = (b + d) + 1
      OBVIOUS
    <3>. QED
      BY <1>2, <3>1
  <2>3. T = Nat
    <3>1. T \in SUBSET Nat
      OBVIOUS
    <3>. HIDE DEF T
    <3>. QED
      BY <2>1, <2>2, <3>1, Induction
  <2>4. x - b \in Nat /\ b + (x - b) = x
    BY <1>6
  <2>5. Shifted(w, x) = Shifted(v, x)
    BY <2>3, <2>4
  <2>. QED
    BY <1>6, <2>5 DEF w
<1>. QED
  BY <1>5, <1>6

(* Past its length a number has no bits.                                   *)
LEMMA NoBits ==
  ASSUME NEW v \in Nat, NEW m \in Nat, v < PowerOfTwo[m]
  PROVE  \A x \in Nat : x >= m => Shifted(v, x) = 0
<1>1. PowerOfTwo[m] \in Nat \ {0}
  BY Doubling
<1>2. \A x \in Nat : Shifted(v, x) \in Nat /\ Shifted(v, x + 1) = Shifted(v, x) \div 2
  BY ShiftedSteps
<1>. DEFINE T == {d \in Nat : Shifted(v, m + d) = 0}
<1>3. 0 \in T
  BY <1>1 DEF Shifted
<1>4. ASSUME NEW d \in T
      PROVE  d + 1 \in T
  <2>1. m + d \in Nat /\ m + (d + 1) = (m + d) + 1
    OBVIOUS
  <2>2. 0 \div 2 = 0
    OBVIOUS
  <2>. QED
    BY <1>2, <2>1, <2>2
<1>5. T = Nat
  <2>1. T \in SUBSET Nat
    OBVIOUS
  <2>. HIDE DEF T
  <2>. QED
    BY <1>3, <1>4, <2>1, Induction
<1>6. ASSUME NEW x \in Nat, x >= m
      PROVE  Shifted(v, x) = 0
  <2>1. x - m \in Nat /\ m + (x - m) = x
    BY <1>6
  <2>. QED
    BY <1>5, <2>1
<1>. QED
  BY <1>6

(* The count of high bits, one bit at a time.                              *)
LEMMA HighSteps ==
  ASSUME NEW v \in Nat
  PROVE  /\ High(v, 0) = Ones(v)
         /\ High(v, N) = 0
         /\ \A b \in 0 .. N : High(v, b) \in Nat
         /\ \A b \in 0 .. N - 1 : High(v, b) = High(v, b + 1) + (Shifted(v, b) % 2)
<1>. DEFINE Bits(b) == {x \in b .. N - 1 : Shifted(v, x) % 2 = 1}
<1>0. N \in Nat
  BY Constants
<1>1. High(v, 0) = Ones(v)
  BY DEF High, Ones, Shifted, N
<1>2. High(v, N) = 0
  <2>1. Bits(N) = {}
    BY <1>0
  <2>. QED
    BY <2>1, FS_EmptySet DEF High
<1>3. ASSUME NEW b \in 0 .. N
      PROVE  IsFiniteSet(Bits(b)) /\ High(v, b) = Cardinality(Bits(b)) /\ High(v, b) \in Nat
  <2>1. IsFiniteSet(b .. N - 1)
    <3>1. b \in Int /\ N - 1 \in Int
      BY <1>0
    <3>. QED
      BY <3>1, FS_Interval
  <2>2. Bits(b) \in SUBSET (b .. N - 1)
    OBVIOUS
  <2>3. High(v, b) = Cardinality(Bits(b))
    BY DEF High
  <2>. HIDE DEF Bits
  <2>4. IsFiniteSet(Bits(b))
    BY <2>1, <2>2, FS_Subset
  <2>. QED
    BY <2>3, <2>4, FS_CardinalityType
<1>4. ASSUME NEW b \in 0 .. N - 1
      PROVE  High(v, b) = High(v, b + 1) + (Shifted(v, b) % 2)
  <2>1. b \in 0 .. N /\ b + 1 \in 0 .. N /\ b \notin Bits(b + 1)
    BY <1>0
  <2>2. Shifted(v, b) % 2 \in {0, 1}
    BY Cuts
  <2>3. CASE Shifted(v, b) % 2 = 0
    <3>1. Bits(b) = Bits(b + 1)
      <4>1. \A x : x \in Bits(b) => x \in Bits(b + 1)
        BY <1>0, <2>3
      <4>2. \A x : x \in Bits(b + 1) => x \in Bits(b)
        BY <1>0
      <4>. QED
        BY <4>1, <4>2
    <3>2. High(v, b) = Cardinality(Bits(b)) /\ High(v, b + 1) = Cardinality(Bits(b + 1))
      BY <1>3, <2>1
    <3>3. High(v, b + 1) \in Nat
      BY <1>3, <2>1
    <3>. HIDE DEF Bits
    <3>. QED
      BY <2>3, <3>1, <3>2, <3>3
  <2>4. CASE Shifted(v, b) % 2 = 1
    <3>1. Bits(b) = Bits(b + 1) \cup {b}
      <4>1. \A x : x \in Bits(b) => x \in Bits(b + 1) \cup {b}
        BY <1>0
      <4>2. \A x : x \in Bits(b + 1) \cup {b} => x \in Bits(b)
        BY <1>0, <2>4
      <4>. QED
        BY <4>1, <4>2
    <3>2. IsFiniteSet(Bits(b + 1)) /\ High(v, b + 1) = Cardinality(Bits(b + 1))
      BY <1>3, <2>1
    <3>3. High(v, b) = Cardinality(Bits(b + 1) \cup {b})
      BY <1>3, <2>1, <3>1
    <3>. HIDE DEF Bits
    <3>4. Cardinality(Bits(b + 1) \cup {b}) = Cardinality(Bits(b + 1)) + 1
      BY <2>1, <3>2, FS_AddElement
    <3>. QED
      BY <2>4, <3>2, <3>3, <3>4
  <2>. QED
    BY <2>2, <2>3, <2>4
<1>5. \A b \in 0 .. N : High(v, b) \in Nat
  BY <1>3
<1>. QED
  BY <1>1, <1>2, <1>4, <1>5

(* It does not grow on the way up, and where it stays nothing is cut.      *)
LEMMA HighFalls ==
  ASSUME NEW v \in Nat, NEW b \in 0 .. N, NEW c \in 0 .. N, b <= c
  PROVE  /\ High(v, c) <= High(v, b)
         /\ High(v, c) = High(v, b) => Cut(v, c) = Cut(v, b)
<1>0. N \in Nat
  BY Constants
<1>. DEFINE T == {d \in Nat : b + d <= N =>
                   /\ High(v, b + d) <= High(v, b)
                   /\ High(v, b + d) = High(v, b) => Cut(v, b + d) = Cut(v, b)}
<1>1. 0 \in T
  BY HighSteps
<1>2. ASSUME NEW d \in T
      PROVE  d + 1 \in T
  <2>. SUFFICES ASSUME b + (d + 1) <= N
                PROVE  /\ High(v, b + (d + 1)) <= High(v, b)
                       /\ High(v, b + (d + 1)) = High(v, b) => Cut(v, b + (d + 1)) = Cut(v, b)
    OBVIOUS
  <2>. DEFINE x == b + d
  <2>1. x \in 0 .. N - 1 /\ b + (d + 1) = x + 1 /\ x + 1 \in 0 .. N /\ x \in 0 .. N /\ x \in Nat
    BY <1>0
  <2>2. /\ High(v, x) <= High(v, b)
        /\ High(v, x) = High(v, b) => Cut(v, x) = Cut(v, b)
    BY <2>1
  <2>. HIDE DEF x
  <2>3. /\ High(v, x) = High(v, x + 1) + (Shifted(v, x) % 2)
        /\ High(v, x) \in Nat /\ High(v, x + 1) \in Nat /\ High(v, b) \in Nat
    BY <2>1, HighSteps
  <2>4. /\ Shifted(v, x) % 2 \in {0, 1}
        /\ Shifted(v, x) % 2 = 0 => Cut(v, x) = Cut(v, x + 1)
    BY <2>1, Cuts
  <2>. QED
    BY <2>1, <2>2, <2>3, <2>4
<1>3. T = Nat
  <2>1. T \in SUBSET Nat
    OBVIOUS
  <2>. HIDE DEF T
  <2>. QED
    BY <1>1, <1>2, <2>1, Induction
<1>4. c - b \in Nat /\ b + (c - b) = c /\ c <= N
  BY <1>0
<1>. QED
  BY <1>3, <1>4

(* There are no more of them than the number has bits.                     *)
LEMMA HighBound ==
  ASSUME NEW v \in Nat, NEW m \in 0 .. N, v < PowerOfTwo[m]
  PROVE  Ones(v) <= m
<1>0. N \in Nat /\ m \in Nat
  BY Constants
<1>1. \A x \in Nat : x >= m => Shifted(v, x) = 0
  BY <1>0, NoBits
<1>2. High(v, m) = 0
  <2>. DEFINE Bits == {x \in m .. N - 1 : Shifted(v, x) % 2 = 1}
  <2>1. ASSUME NEW x \in Bits
        PROVE  FALSE
    <3>1. x \in Nat /\ x >= m /\ Shifted(v, x) % 2 = 1
      BY <1>0
    <3>. QED
      BY <1>1, <3>1
  <2>2. Bits = {}
    BY <2>1
  <2>. QED
    BY <2>2, FS_EmptySet DEF High
<1>. DEFINE T == {d \in Nat : d <= m => High(v, m - d) <= d}
<1>3. 0 \in T
  BY <1>2
<1>4. ASSUME NEW d \in T
      PROVE  d + 1 \in T
  <2>. SUFFICES ASSUME d + 1 <= m
                PROVE  High(v, m - (d + 1)) <= d + 1
    OBVIOUS
  <2>. DEFINE x == m - (d + 1)
  <2>1. x \in 0 .. N - 1 /\ x \in Nat /\ x + 1 = m - d /\ x + 1 \in 0 .. N
    BY <1>0
  <2>2. High(v, x + 1) <= d
    BY <2>1
  <2>. HIDE DEF x
  <2>3. High(v, x) = High(v, x + 1) + (Shifted(v, x) % 2) /\ High(v, x + 1) \in Nat
    BY <2>1, HighSteps
  <2>4. Shifted(v, x) % 2 \in {0, 1}
    BY <2>1, Cuts
  <2>5. High(v, x) <= d + 1
    BY <2>2, <2>3, <2>4
  <2>. QED
    BY <2>5 DEF x
<1>5. T = Nat
  <2>1. T \in SUBSET Nat
    OBVIOUS
  <2>. HIDE DEF T
  <2>. QED
    BY <1>3, <1>4, <2>1, Induction
<1>6. High(v, m - m) <= m
  BY <1>0, <1>5
<1>7. m - m = 0
  BY <1>0
<1>. QED
  BY <1>6, <1>7, HighSteps

(* What is cut off above bit b has the bits from there up.                 *)
LEMMA OnesOfCut ==
  ASSUME NEW v \in Nat, NEW b \in 0 .. N
  PROVE  Ones(Cut(v, b)) = High(v, b)
<1>. DEFINE w == Cut(v, b)
<1>0. N \in Nat /\ b \in Nat
  BY Constants
<1>1. \A x \in Nat : Shifted(w, x) % 2 = IF x < b THEN 0 ELSE Shifted(v, x) % 2
  BY <1>0, CutBits
<1>2. Ones(w) = Cardinality({x \in 0 .. N - 1 : Shifted(w, x) % 2 = 1})
  BY DEF Ones, Shifted, N
<1>. HIDE DEF w
<1>3. {x \in 0 .. N - 1 : Shifted(w, x) % 2 = 1} = {x \in b .. N - 1 : Shifted(v, x) % 2 = 1}
  <2>1. \A x \in 0 .. N - 1 : Shifted(w, x) % 2 = 1 <=> x >= b /\ Shifted(v, x) % 2 = 1
    BY <1>0, <1>1
  <2>. QED
    BY <1>0, <2>1
<1>. QED
  BY <1>2, <1>3 DEF High, w

(* The chunks below an entry of the stack are those of the bits above it.  *)
LEMMA ChunksOfBits ==
  ASSUME NEW b \in 0 .. N, ChunkIndex \in Nat
  PROVE  ChunksBelow(High(ChunkIndex, b)) = Cut(ChunkIndex, b)
<1>. DEFINE c == ChunkIndex
            S == {c - (c % PowerOfTwo[x]) : x \in 0 .. 2 * WordBits}
<1>0. N \in Nat /\ N = 2 * WordBits
  BY Constants DEF N
<1>1. \A x \in 0 .. N : /\ c - (c % PowerOfTwo[x]) = Cut(c, x)
                        /\ Ones(Cut(c, x)) = High(c, x)
  <2>1. \A x \in 0 .. N : x \in Nat
    BY <1>0
  <2>. QED
    BY <2>1, Cuts, OnesOfCut
<1>2. Cut(c, b) \in S /\ Ones(Cut(c, b)) = High(c, b)
  BY <1>0, <1>1
<1>3. ASSUME NEW u \in S, Ones(u) = High(c, b)
      PROVE  u = Cut(c, b)
  <2>1. PICK x \in 0 .. N : u = Cut(c, x) /\ High(c, x) = High(c, b)
    BY <1>0, <1>1, <1>3
  <2>2. x <= b \/ b <= x
    BY <1>0
  <2>. HIDE DEF c
  <2>. QED
    BY <2>1, <2>2, HighFalls DEF c
<1>4. ChunksBelow(High(c, b)) = CHOOSE u \in S : Ones(u) = High(c, b)
  BY DEF ChunksBelow
<1>. HIDE DEF S, c
<1>5. ChunksBelow(High(c, b)) = Cut(c, b)
  BY <1>2, <1>3, <1>4
<1>. QED
  BY <1>5 DEF c

(* Adding one clears the lowest bits that are set, sets the next, and      *)
(* leaves the others.                                                      *)
Carries(c, t) ==
  /\ t \in 0 .. N - 1
  /\ \A j \in 0 .. t - 1 : Shifted(c, j) % 2 = 1 /\ Shifted(c + 1, j) % 2 = 0
  /\ Shifted(c, t) % 2 = 0 /\ Shifted(c + 1, t) % 2 = 1
  /\ \A j \in Nat : j > t => /\ Shifted(c + 1, j) = Shifted(c, j)
                             /\ Cut(c + 1, j) = Cut(c, j)
                             /\ High(c + 1, j) = High(c, j)
  /\ \A j \in 0 .. t : /\ High(c, j) = High(c, t + 1) + (t - j)
                       /\ Cut(c, j) + PowerOfTwo[j] = c + 1
  /\ Ones(c + 1) = High(c, t + 1) + 1

(* There is one bit that the carry stops at, within the counter.           *)
LEMMA CarryExists ==
  ASSUME NEW c \in Nat, c + 1 < PowerOfTwo[N]
  PROVE  \E t : Carries(c, t)
<1>0. N \in Nat
  BY Constants
<1>1. /\ Shifted(c, 0) = c /\ Shifted(c + 1, 0) = c + 1
      /\ \A j \in Nat : /\ Shifted(c, j) \in Nat /\ Shifted(c, j + 1) = Shifted(c, j) \div 2
                        /\ Shifted(c + 1, j) \in Nat
                        /\ Shifted(c + 1, j + 1) = Shifted(c + 1, j) \div 2
  <2>1. c + 1 \in Nat
    OBVIOUS
  <2>. QED
    BY <2>1, ShiftedSteps
<1>2. \A k \in Nat : PowerOfTwo[k] \in Nat \ {0}
  BY Doubling
<1>3. \A x \in Nat : x >= N => Shifted(c, x) = 0 /\ Shifted(c + 1, x) = 0
  <2>1. c + 1 \in Nat /\ c < PowerOfTwo[N]
    BY <1>0, <1>2
  <2>. QED
    BY <1>0, <2>1, NoBits
<1>. DEFINE Z == {j \in Nat : Shifted(c, j) % 2 = 0}
<1>4. PICK t \in Z : \A m \in Z : t <= m
  <2>1. N \in Z
    BY <1>0, <1>3
  <2>2. Z \in SUBSET Nat /\ Z # {}
    BY <2>1
  <2>. HIDE DEF Z
  <2>. QED
    BY <2>2, LeastElement
<1>5. t \in Nat /\ Shifted(c, t) % 2 = 0
  BY <1>4
<1>6. \A j \in 0 .. t - 1 : Shifted(c, j) % 2 = 1
  <2>1. ASSUME NEW j \in 0 .. t - 1
        PROVE  Shifted(c, j) % 2 = 1
    <3>1. j \in Nat /\ ~(t <= j)
      BY <1>5
    <3>2. Shifted(c, j) % 2 # 0
      BY <1>4, <3>1
    <3>3. \A x \in Nat : x % 2 # 0 => x % 2 = 1
      OBVIOUS
    <3>. QED
      BY <1>1, <3>1, <3>2, <3>3
  <2>. QED
    BY <2>1
<1>. HIDE DEF Z
<1>7. \A j \in 0 .. t : Shifted(c + 1, j) = Shifted(c, j) + 1
  <2>. DEFINE T == {j \in Nat : j <= t => Shifted(c + 1, j) = Shifted(c, j) + 1}
  <2>1. 0 \in T
    BY <1>1
  <2>2. ASSUME NEW j \in T
        PROVE  j + 1 \in T
    <3>. SUFFICES ASSUME j + 1 <= t
                  PROVE  Shifted(c + 1, j + 1) = Shifted(c, j + 1) + 1
      OBVIOUS
    <3>1. j \in Nat /\ j \in 0 .. t - 1
      BY <1>5
    <3>2. Shifted(c, j) % 2 = 1 /\ Shifted(c + 1, j) = Shifted(c, j) + 1 /\ Shifted(c, j) \in Nat
      BY <1>1, <1>5, <1>6, <3>1
    <3>3. (Shifted(c, j) + 1) \div 2 = (Shifted(c, j) \div 2) + 1
      BY <3>2
    <3>. QED
      BY <1>1, <3>1, <3>2, <3>3
  <2>3. T = Nat
    <3>1. T \in SUBSET Nat
      OBVIOUS
    <3>. HIDE DEF T
    <3>. QED
      BY <2>1, <2>2, <3>1, Induction
  <2>. QED
    BY <1>5, <2>3
<1>8. /\ \A j \in 0 .. t - 1 : Shifted(c + 1, j) % 2 = 0
      /\ Shifted(c + 1, t) % 2 = 1
  <2>1. ASSUME NEW j \in 0 .. t
        PROVE  Shifted(c + 1, j) = Shifted(c, j) + 1 /\ Shifted(c, j) \in Nat
    BY <1>1, <1>5, <1>7
  <2>2. \A x \in Nat : (x % 2 = 1 => (x + 1) % 2 = 0) /\ (x % 2 = 0 => (x + 1) % 2 = 1)
    OBVIOUS
  <2>. QED
    BY <1>5, <1>6, <2>1, <2>2
<1>9. t \in 0 .. N - 1
  <2>1. t <= N
    BY <1>0, <1>3, <1>4 DEF Z
  <2>2. t # N
    BY <1>0, <1>3, <1>8
  <2>. QED
    BY <1>0, <1>5, <2>1, <2>2
<1>10. \A j \in Nat : j > t => Shifted(c + 1, j) = Shifted(c, j)
  <2>. DEFINE T == {d \in Nat : Shifted(c + 1, t + 1 + d) = Shifted(c, t + 1 + d)}
  <2>1. 0 \in T
    <3>1. t + 1 + 0 = t + 1 /\ t \in 0 .. t /\ Shifted(c, t) \in Nat
      BY <1>1, <1>5
    <3>2. Shifted(c + 1, t) = Shifted(c, t) + 1
      BY <1>7, <3>1
    <3>3. (Shifted(c, t) + 1) \div 2 = Shifted(c, t) \div 2
      BY <1>5, <3>1
    <3>. QED
      BY <1>1, <1>5, <3>1, <3>2, <3>3
  <2>2. ASSUME NEW d \in T
        PROVE  d + 1 \in T
    <3>1. t + 1 + d \in Nat /\ t + 1 + (d + 1) = (t + 1 + d) + 1
      BY <1>5
    <3>. QED
      BY <1>1, <3>1
  <2>3. T = Nat
    <3>1. T \in SUBSET Nat
      OBVIOUS
    <3>. HIDE DEF T
    <3>. QED
      BY <2>1, <2>2, <3>1, Induction
  <2>4. \A j \in Nat : j > t => j - (t + 1) \in Nat /\ t + 1 + (j - (t + 1)) = j
    BY <1>5
  <2>. QED
    BY <2>3, <2>4
<1>11. ASSUME NEW j \in Nat, j > t
       PROVE  Cut(c + 1, j) = Cut(c, j) /\ High(c + 1, j) = High(c, j)
  <2>1. Cut(c + 1, j) = Cut(c, j)
    BY <1>10, <1>11 DEF Cut
  <2>2. \A x \in j .. N - 1 : Shifted(c + 1, x) = Shifted(c, x)
    BY <1>0, <1>5, <1>10, <1>11
  <2>3. {x \in j .. N - 1 : Shifted(c + 1, x) % 2 = 1} = {x \in j .. N - 1 : Shifted(c, x) % 2 = 1}
    BY <2>2
  <2>. QED
    BY <2>1, <2>3 DEF High
<1>12. /\ \A b \in 0 .. N : High(c, b) \in Nat
       /\ \A b \in 0 .. N - 1 : High(c, b) = High(c, b + 1) + (Shifted(c, b) % 2)
  BY HighSteps
<1>13. \A j \in 0 .. t : High(c, j) = High(c, t + 1) + (t - j)
  <2>. DEFINE T == {d \in Nat : d <= t => High(c, t - d) = High(c, t + 1) + d}
  <2>1. 0 \in T
    <3>1. t - 0 = t /\ t + 1 \in 0 .. N
      BY <1>0, <1>5, <1>9
    <3>2. High(c, t) = High(c, t + 1) + 0
      BY <1>5, <1>9, <1>12
    <3>. QED
      BY <3>1, <3>2
  <2>2. ASSUME NEW d \in T
        PROVE  d + 1 \in T
    <3>. SUFFICES ASSUME d + 1 <= t
                  PROVE  High(c, t - (d + 1)) = High(c, t + 1) + (d + 1)
      OBVIOUS
    <3>. DEFINE x == t - (d + 1)
    <3>1. x \in 0 .. t - 1 /\ x \in 0 .. N - 1 /\ x + 1 = t - d /\ t + 1 \in 0 .. N
      BY <1>0, <1>5, <1>9
    <3>2. High(c, x + 1) = High(c, t + 1) + d
      BY <1>5, <3>1
    <3>. HIDE DEF x
    <3>3. High(c, x) = High(c, x + 1) + 1
      BY <1>6, <1>12, <3>1
    <3>4. High(c, t + 1) \in Nat
      BY <1>12, <3>1
    <3>5. High(c, x) = High(c, t + 1) + (d + 1)
      BY <3>2, <3>3, <3>4
    <3>. QED
      BY <3>5 DEF x
  <2>3. T = Nat
    <3>1. T \in SUBSET Nat
      OBVIOUS
    <3>. HIDE DEF T
    <3>. QED
      BY <2>1, <2>2, <3>1, Induction
  <2>4. \A j \in 0 .. t : t - j \in Nat /\ t - j <= t /\ t - (t - j) = j
    BY <1>5
  <2>. QED
    BY <2>3, <2>4
<1>14. \A j \in 0 .. t : Cut(c, j) + PowerOfTwo[j] = c + 1
  <2>1. \A j \in 0 .. t : Cut(c + 1, j) = c + 1
    <3>. DEFINE T == {j \in Nat : j <= t => Cut(c + 1, j) = c + 1}
    <3>1. 0 \in T
      <4>1. PowerOfTwo[0] = 1
        BY Doubling
      <4>. QED
        BY <1>1, <4>1 DEF Cut
    <3>2. ASSUME NEW j \in T
          PROVE  j + 1 \in T
      <4>. SUFFICES ASSUME j + 1 <= t
                    PROVE  Cut(c + 1, j + 1) = c + 1
        OBVIOUS
      <4>1. j \in Nat /\ j \in 0 .. t - 1 /\ c + 1 \in Nat
        BY <1>5
      <4>2. Cut(c + 1, j) = c + 1 /\ Shifted(c + 1, j) % 2 = 0
        BY <1>5, <1>8, <4>1
      <4>. QED
        BY <4>1, <4>2, Cuts
    <3>3. T = Nat
      <4>1. T \in SUBSET Nat
        OBVIOUS
      <4>. HIDE DEF T
      <4>. QED
        BY <3>1, <3>2, <4>1, Induction
    <3>. QED
      BY <1>5, <3>3
  <2>2. ASSUME NEW j \in 0 .. t
        PROVE  Cut(c, j) + PowerOfTwo[j] = c + 1
    <3>. DEFINE q == Shifted(c, j)
                p == PowerOfTwo[j]
    <3>1. j \in Nat /\ q \in Nat /\ p \in Nat
      BY <1>1, <1>2, <1>5
    <3>2. (q + 1) * p = c + 1
      BY <1>7, <2>1 DEF Cut
    <3>3. Cut(c, j) = q * p
      BY DEF Cut
    <3>. HIDE DEF q, p
    <3>4. (q + 1) * p = q * p + p
      BY <3>1
    <3>. QED
      BY <3>2, <3>3, <3>4 DEF p
  <2>. QED
    BY <2>2
<1>15. Ones(c + 1) = High(c, t + 1) + 1
  <2>1. /\ High(c + 1, 0) = Ones(c + 1)
        /\ \A b \in 0 .. N - 1 : High(c + 1, b) = High(c + 1, b + 1) + (Shifted(c + 1, b) % 2)
        /\ \A b \in 0 .. N : High(c + 1, b) \in Nat
    <3>1. c + 1 \in Nat
      OBVIOUS
    <3>. QED
      BY <3>1, HighSteps
  <2>2. \A j \in 0 .. t : High(c + 1, j) = High(c + 1, 0)
    <3>. DEFINE T == {j \in Nat : j <= t => High(c + 1, j) = High(c + 1, 0)}
    <3>1. 0 \in T
      OBVIOUS
    <3>2. ASSUME NEW j \in T
          PROVE  j + 1 \in T
      <4>. SUFFICES ASSUME j + 1 <= t
                    PROVE  High(c + 1, j + 1) = High(c + 1, 0)
        OBVIOUS
      <4>1. j \in 0 .. t - 1 /\ j \in 0 .. N - 1 /\ j + 1 \in 0 .. N
        BY <1>0, <1>5, <1>9
      <4>2. High(c + 1, j) = High(c + 1, 0) /\ Shifted(c + 1, j) % 2 = 0
        BY <1>5, <1>8, <4>1
      <4>. QED
        BY <2>1, <4>1, <4>2
    <3>3. T = Nat
      <4>1. T \in SUBSET Nat
        OBVIOUS
      <4>. HIDE DEF T
      <4>. QED
        BY <3>1, <3>2, <4>1, Induction
    <3>. QED
      BY <1>5, <3>3
  <2>3. High(c + 1, t) = High(c + 1, t + 1) + 1
    BY <1>8, <1>9, <2>1
  <2>4. High(c + 1, t + 1) = High(c, t + 1)
    <3>1. t + 1 \in Nat /\ t + 1 > t
      BY <1>5
    <3>. QED
      BY <1>11, <3>1
  <2>5. t \in 0 .. t
    BY <1>5
  <2>. QED
    BY <2>1, <2>2, <2>3, <2>4, <2>5
<1>16. Carries(c, t)
  BY <1>5, <1>6, <1>8, <1>9, <1>10, <1>11, <1>13, <1>14, <1>15 DEF Carries
<1>. QED
  BY <1>16

----------------------------------------------------------------------------
(* The counter as two words.                                               *)

(* The high word is the counter shifted by a word.                         *)
LEMMA HighWord ==
  ASSUME NEW c \in Nat
  PROVE  /\ Word \in Nat \ {0} /\ WordBits \in Nat \ {0}
         /\ c \div Word \in Nat /\ c % Word \in 0 .. Word - 1
         /\ c = (c \div Word) * Word + (c % Word)
         /\ \A d \in Nat : Shifted(c \div Word, d) = Shifted(c, WordBits + d)
         /\ c < PowerOfTwo[N] => c \div Word < Word
<1>0. Word \in Nat \ {0} /\ WordBits \in Nat \ {0} /\ Word = PowerOfTwo[WordBits]
  BY Constants, Doubling DEF Word
<1>. DEFINE hi == c \div Word
<1>1. /\ hi \in Nat /\ c % Word \in 0 .. Word - 1
      /\ c = hi * Word + (c % Word)
  BY <1>0, DivModNat
<1>2. hi = Shifted(c, WordBits)
  BY <1>0 DEF Shifted
<1>. HIDE DEF hi
<1>. DEFINE T == {d \in Nat : Shifted(hi, d) = Shifted(c, WordBits + d)}
<1>3. /\ Shifted(hi, 0) = hi
      /\ \A d \in Nat : Shifted(hi, d + 1) = Shifted(hi, d) \div 2
      /\ \A d \in Nat : Shifted(c, d + 1) = Shifted(c, d) \div 2
  BY <1>1, ShiftedSteps
<1>4. 0 \in T
  BY <1>0, <1>2, <1>3
<1>5. ASSUME NEW d \in T
      PROVE  d + 1 \in T
  <2>1. WordBits + d \in Nat /\ WordBits + (d + 1) = (WordBits + d) + 1
    BY <1>0
  <2>. QED
    BY <1>3, <2>1
<1>6. T = Nat
  <2>1. T \in SUBSET Nat
    OBVIOUS
  <2>. HIDE DEF T
  <2>. QED
    BY <1>4, <1>5, <2>1, Induction
<1>7. ASSUME c < PowerOfTwo[N]
      PROVE  hi < Word
  <2>1. N \in Nat /\ WordBits + WordBits = N
    BY <1>0 DEF N
  <2>2. Shifted(c, N) = 0
    BY <1>7, <2>1, NoBits
  <2>3. Shifted(hi, WordBits) = 0
    BY <1>0, <1>6, <2>1, <2>2
  <2>4. hi \div Word = 0
    BY <1>0, <2>3 DEF Shifted
  <2>5. hi % Word \in 0 .. Word - 1 /\ hi = (hi \div Word) * Word + (hi % Word)
    BY <1>0, <1>1, DivModNat
  <2>6. 0 * Word = 0
    BY <1>0
  <2>. QED
    BY <1>0, <1>1, <2>4, <2>5, <2>6
<1>8. \A d \in Nat : Shifted(hi, d) = Shifted(c, WordBits + d)
  BY <1>6
<1>. QED
  BY <1>0, <1>1, <1>7, <1>8 DEF hi

(* The pair's bits are the number's.                                       *)
LEMMA BitsOfHalves ==
  ASSUME NEW c \in Nat, NEW i \in 0 .. N - 1
  PROVE  Bit(Halves(c), i) = Shifted(c, i) % 2
<1>. DEFINE hi == c \div Word
            lo == c % Word
<1>0. /\ Word \in Nat \ {0} /\ WordBits \in Nat \ {0}
      /\ hi \in Nat /\ lo \in 0 .. Word - 1 /\ c = hi * Word + lo
      /\ \A d \in Nat : Shifted(hi, d) = Shifted(c, WordBits + d)
  BY HighWord
<1>1. Halves(c)[1] = lo /\ Halves(c)[2] = hi
  BY DEF Halves
<1>2. \A k \in Nat : PowerOfTwo[k] \in Nat \ {0} /\ PowerOfTwo[k + 1] = 2 * PowerOfTwo[k]
  BY Doubling
<1>3. N \in Nat /\ N = 2 * WordBits /\ i \in Nat
  BY Constants DEF N
<1>. HIDE DEF hi, lo
<1>4. CASE i < WordBits
  <2>1. \A y \in 0 .. WordBits : Shifted(c, y) = hi * PowerOfTwo[WordBits - y] + Shifted(lo, y)
    <3>. DEFINE T == {y \in Nat : y <= WordBits =>
                       Shifted(c, y) = hi * PowerOfTwo[WordBits - y] + Shifted(lo, y)}
    <3>0. /\ Shifted(c, 0) = c /\ Shifted(lo, 0) = lo /\ lo \in Nat
          /\ \A y \in Nat : /\ Shifted(c, y + 1) = Shifted(c, y) \div 2
                            /\ Shifted(lo, y) \in Nat
                            /\ Shifted(lo, y + 1) = Shifted(lo, y) \div 2
      <4>1. lo \in Nat
        BY <1>0
      <4>. QED
        BY <4>1, ShiftedSteps
    <3>1. 0 \in T
      <4>1. WordBits - 0 = WordBits
        BY <1>0
      <4>2. Word = PowerOfTwo[WordBits]
        BY DEF Word
      <4>. QED
        BY <1>0, <3>0, <4>1, <4>2
    <3>2. ASSUME NEW y \in T
          PROVE  y + 1 \in T
      <4>. SUFFICES ASSUME y + 1 <= WordBits
                    PROVE  Shifted(c, y + 1) =
                             hi * PowerOfTwo[WordBits - (y + 1)] + Shifted(lo, y + 1)
        OBVIOUS
      <4>. DEFINE a == PowerOfTwo[WordBits - (y + 1)]
                  z == Shifted(lo, y)
      <4>1. y \in Nat /\ WordBits - (y + 1) \in Nat /\ WordBits - y = (WordBits - (y + 1)) + 1
        BY <1>0
      <4>2. a \in Nat /\ PowerOfTwo[WordBits - y] = 2 * a /\ z \in Nat
        BY <1>2, <3>0, <4>1
      <4>3. Shifted(c, y) = hi * (2 * a) + z
        BY <1>0, <4>1, <4>2
      <4>4. Shifted(c, y + 1) = (hi * (2 * a) + z) \div 2 /\ Shifted(lo, y + 1) = z \div 2
        BY <3>0, <4>1, <4>3
      <4>. HIDE DEF a, z
      <4>. DEFINE e == hi * a
      <4>5. e \in Nat /\ hi * (2 * a) = 2 * e
        BY <1>0, <4>2
      <4>. HIDE DEF e
      <4>6. (2 * e + z) \div 2 = e + (z \div 2)
        BY <4>2, <4>5
      <4>. QED
        BY <4>4, <4>5, <4>6 DEF a, e
    <3>3. T = Nat
      <4>1. T \in SUBSET Nat
        OBVIOUS
      <4>. HIDE DEF T
      <4>. QED
        BY <3>1, <3>2, <4>1, Induction
    <3>. QED
      BY <1>0, <3>3
  <2>. DEFINE a == PowerOfTwo[WordBits - (i + 1)]
              z == Shifted(lo, i)
  <2>2. /\ WordBits - (i + 1) \in Nat /\ WordBits - i = (WordBits - (i + 1)) + 1
        /\ i \in 0 .. WordBits /\ i % WordBits = i
    <3>1. i \in 0 .. WordBits - 1
      BY <1>0, <1>3, <1>4
    <3>2. i % WordBits = i
      BY <1>0, <3>1, ModSmall
    <3>. QED
      BY <1>0, <3>1, <3>2
  <2>3. a \in Nat /\ PowerOfTwo[WordBits - i] = 2 * a
    BY <1>2, <2>2
  <2>4. z \in Nat
    <3>1. lo \in Nat
      BY <1>0
    <3>. QED
      BY <1>3, <3>1, ShiftedSteps
  <2>5. Shifted(c, i) = hi * (2 * a) + z
    BY <2>1, <2>2, <2>3
  <2>6. Bit(Halves(c), i) = z % 2
    BY <1>1, <1>4, <2>2 DEF Bit, Shifted
  <2>. HIDE DEF a, z
  <2>. DEFINE e == hi * a
  <2>7. e \in Nat /\ hi * (2 * a) = 2 * e
    BY <1>0, <2>3
  <2>. HIDE DEF e
  <2>8. (2 * e + z) % 2 = z % 2
    BY <2>4, <2>7
  <2>. QED
    BY <2>5, <2>6, <2>7, <2>8
<1>5. CASE i >= WordBits
  <2>1. i - WordBits \in 0 .. WordBits - 1 /\ WordBits + (i - WordBits) = i
    BY <1>0, <1>3, <1>5
  <2>2. i % WordBits = i - WordBits
    <3>. DEFINE r == i - WordBits
    <3>1. r \in 0 .. WordBits - 1 /\ i = 1 * WordBits + r
      BY <1>0, <1>3, <2>1
    <3>. HIDE DEF r
    <3>2. 1 \in Int
      OBVIOUS
    <3>3. (1 * WordBits + r) % WordBits = r
      BY <1>0, <3>1, <3>2, DivModUnique
    <3>. QED
      BY <3>1, <3>3 DEF r
  <2>3. Bit(Halves(c), i) = Shifted(hi, i - WordBits) % 2
    <3>1. ~(i < WordBits)
      BY <1>0, <1>3, <1>5
    <3>. QED
      BY <1>1, <2>2, <3>1 DEF Bit, Shifted
  <2>. QED
    BY <1>0, <2>1, <2>3
<1>. QED
  BY <1>0, <1>3, <1>4, <1>5

(* Counting carries into the high word.                                    *)
LEMMA CounterCounts ==
  ASSUME NEW c \in Nat, c + 1 < PowerOfTwo[N]
  PROVE  CounterInc(Halves(c)) = Halves(c + 1)
<1>. DEFINE hi == c \div Word
            lo == c % Word
            e  == c + 1
<1>1. /\ Word \in Nat \ {0}
      /\ hi \in Nat /\ lo \in 0 .. Word - 1 /\ c = hi * Word + lo
  BY HighWord
<1>2. e \in Nat /\ e < PowerOfTwo[N]
  OBVIOUS
<1>3. e \div Word \in Nat /\ e \div Word < Word
  <2>. HIDE DEF e
  <2>. QED
    BY <1>2, HighWord
<1>4. Halves(c)[1] = lo /\ Halves(c)[2] = hi
  BY DEF Halves
<1>. HIDE DEF hi, lo
<1>5. CASE lo + 1 < Word
  <2>. DEFINE r == lo + 1
  <2>1. r \in 0 .. Word - 1 /\ r # 0 /\ e = hi * Word + r
    BY <1>1, <1>5
  <2>. HIDE DEF r, e
  <2>2. e \div Word = hi /\ e % Word = r /\ r % Word = r
    BY <1>1, <2>1, DivModUnique, ModSmall
  <2>3. hi \in 0 .. Word - 1
    BY <1>1, <1>3, <2>2
  <2>4. hi % Word = hi /\ hi + 0 = hi
    BY <1>1, <2>3, ModSmall
  <2>5. CounterInc(Halves(c)) = <<r, hi>>
    BY <1>4, <2>1, <2>2, <2>4 DEF CounterInc, r
  <2>6. Halves(e) = <<r, hi>>
    BY <2>2 DEF Halves
  <2>. QED
    BY <2>5, <2>6 DEF e
<1>6. CASE lo + 1 = Word
  <2>. DEFINE g == hi + 1
  <2>1. g \in Nat /\ e = g * Word + 0 /\ 0 \in 0 .. Word - 1
    BY <1>1, <1>6
  <2>. HIDE DEF g, e
  <2>2. e \div Word = g /\ e % Word = 0
    BY <1>1, <2>1, DivModUnique
  <2>3. g \in 0 .. Word - 1
    BY <1>1, <1>3, <2>1, <2>2
  <2>4. g % Word = g /\ Word % Word = 0
    BY <1>1, <2>3, ModSmall
  <2>5. CounterInc(Halves(c)) = <<0, g>>
    BY <1>4, <1>6, <2>4 DEF CounterInc, g
  <2>6. Halves(e) = <<0, g>>
    BY <2>2 DEF Halves
  <2>. QED
    BY <2>5, <2>6 DEF e
<1>. QED
  BY <1>1, <1>5, <1>6

(* The number is read back from the pair.                                  *)
LEMMA HalvesRead ==
  ASSUME NEW c \in Nat
  PROVE  Halves(c)[1] + Word * Halves(c)[2] = c
<1>1. /\ Word \in Nat \ {0} /\ c \div Word \in Nat /\ c % Word \in 0 .. Word - 1
      /\ c = (c \div Word) * Word + (c % Word)
  BY HighWord
<1>. DEFINE hi == c \div Word
            lo == c % Word
<1>2. Halves(c)[1] = lo /\ Halves(c)[2] = hi
  BY DEF Halves
<1>. HIDE DEF hi, lo
<1>. QED
  BY <1>1, <1>2 DEF hi, lo

----------------------------------------------------------------------------
(* The left subtree.                                                       *)

(* A power of two below a number, and no less than its half.               *)
LEMMA PowerBelow ==
  ASSUME NEW w \in Nat, w >= 2
  PROVE  \E j \in Nat : PowerOfTwo[j] < w /\ w <= 2 * PowerOfTwo[j] /\ j < w
<1>. DEFINE T == {k \in Nat : PowerOfTwo[k] >= w}
<1>1. /\ \A k \in Nat : PowerOfTwo[k] \in Nat \ {0} /\ PowerOfTwo[k] > k
      /\ PowerOfTwo[0] = 1
      /\ \A k \in Nat : PowerOfTwo[k + 1] = 2 * PowerOfTwo[k]
  BY Doubling, PowersGrow
<1>2. w \in T
  <2>1. PowerOfTwo[w] \in Nat /\ PowerOfTwo[w] > w
    BY <1>1
  <2>. QED
    BY <2>1
<1>3. PICK k \in T : \A m \in T : k <= m
  <2>1. T \in SUBSET Nat /\ T # {}
    BY <1>2
  <2>. HIDE DEF T
  <2>. QED
    BY <2>1, LeastElement
<1>4. k \in Nat /\ PowerOfTwo[k] >= w /\ k # 0
  BY <1>1
<1>. DEFINE j == k - 1
<1>5. j \in Nat /\ k = j + 1 /\ ~(k <= j)
  BY <1>4
<1>6. ~(PowerOfTwo[j] >= w)
  BY <1>3, <1>5
<1>. HIDE DEF j, T
<1>7. PowerOfTwo[j] < w /\ w <= 2 * PowerOfTwo[j] /\ PowerOfTwo[j] > j /\ PowerOfTwo[j] \in Nat
  BY <1>1, <1>4, <1>5, <1>6
<1>. QED
  BY <1>5, <1>7

(* It is the power of two below the count.                                 *)
LEMMA LeftLenIs ==
  ASSUME NEW w \in Nat, NEW j \in Nat, PowerOfTwo[j] < w, w <= 2 * PowerOfTwo[j]
  PROVE  LeftLen(w) = PowerOfTwo[j]
<1>. DEFINE S == {PowerOfTwo[k] : k \in 0 .. w}
<1>1. \A k \in Nat : PowerOfTwo[k] \in Nat \ {0} /\ PowerOfTwo[k] > k
  BY Doubling, PowersGrow
<1>2. j \in 0 .. w
  BY <1>1
<1>3. PowerOfTwo[j] \in S
  BY <1>2
<1>4. ASSUME NEW p \in S, p < w, 2 * p >= w
      PROVE  p = PowerOfTwo[j]
  <2>1. PICK k \in 0 .. w : p = PowerOfTwo[k]
    OBVIOUS
  <2>2. k \in Nat
    BY <2>1
  <2>3. ~(k < j)
    <3>1. k < j => PowerOfTwo[j] >= 2 * PowerOfTwo[k]
      BY <2>2, PowersGrow
    <3>. QED
      BY <1>1, <1>4, <2>1, <2>2, <3>1
  <2>4. ~(j < k)
    <3>1. j < k => PowerOfTwo[k] >= 2 * PowerOfTwo[j]
      BY <2>2, PowersGrow
    <3>. QED
      BY <1>1, <1>4, <2>1, <2>2, <3>1
  <2>5. k = j
    BY <2>2, <2>3, <2>4
  <2>. QED
    BY <2>1, <2>5
<1>5. LeftLen(w) = CHOOSE p \in S : p < w /\ 2 * p >= w
  BY DEF LeftLen
<1>6. 2 * PowerOfTwo[j] >= w
  BY <1>1
<1>. HIDE DEF S
<1>. QED
  BY <1>3, <1>4, <1>5, <1>6

(* Both subtrees of a parent have a chunk.                                 *)
LEMMA LeftLenRange ==
  ASSUME NEW w \in Nat, w >= 2
  PROVE  LeftLen(w) \in 1 .. w - 1
<1>1. PICK j \in Nat : PowerOfTwo[j] < w /\ w <= 2 * PowerOfTwo[j] /\ j < w
  BY PowerBelow
<1>2. LeftLen(w) = PowerOfTwo[j]
  BY <1>1, LeftLenIs
<1>3. PowerOfTwo[j] \in Nat \ {0}
  BY Doubling
<1>. QED
  BY <1>1, <1>2, <1>3

----------------------------------------------------------------------------
(* Chains of blocks.                                                       *)

(* One compression of a chain: block i of chunk c.                         *)
Link(cv, n, c, i) ==
  ChainingValue(Node(cv, ChunkBlock(n, c, i), Halves(c), BlockLen,
                     IF i = 0 THEN {"CHUNK_START"} ELSE {}))

ChainRun(run, cv, n, c, first, count) ==
  run = [k \in 0 .. count |->
           IF k = 0 THEN cv
           ELSE ChainingValue(Node(run[k - 1], ChunkBlock(n, c, first + k - 1), Halves(c),
                                   BlockLen, IF first + k = 1 THEN {"CHUNK_START"} ELSE {}))]

Linked(run, cv, n, c, first, count) ==
  /\ run = [k \in 0 .. count |-> run[k]]
  /\ run[0] = cv
  /\ \A k \in 1 .. count : run[k] = Link(run[k - 1], n, c, first + k - 1)

(* A function runs a chain just if it starts at cv and links.              *)
LEMMA ChainRuns ==
  ASSUME NEW run, NEW cv, NEW n, NEW c, NEW first \in Nat, NEW count \in Nat
  PROVE  ChainRun(run, cv, n, c, first, count) <=> Linked(run, cv, n, c, first, count)
<1>. DEFINE Body(k) == IF k = 0 THEN cv
                       ELSE ChainingValue(Node(run[k - 1], ChunkBlock(n, c, first + k - 1),
                              Halves(c), BlockLen,
                              IF first + k = 1 THEN {"CHUNK_START"} ELSE {}))
<1>1. Body(0) = cv
  OBVIOUS
<1>2. ASSUME NEW k \in 1 .. count
      PROVE  Body(k) = Link(run[k - 1], n, c, first + k - 1)
  <2>1. k # 0 /\ (first + k = 1 <=> first + k - 1 = 0)
    OBVIOUS
  <2>. QED
    BY <2>1 DEF Link
<1>3. ChainRun(run, cv, n, c, first, count) <=> run = [k \in 0 .. count |-> Body(k)]
  BY DEF ChainRun
<1>. HIDE DEF Body
<1>4. ASSUME run = [k \in 0 .. count |-> Body(k)]
      PROVE  Linked(run, cv, n, c, first, count)
  <2>1. \A k \in 0 .. count : run[k] = Body(k)
    BY <1>4
  <2>2. 0 \in 0 .. count /\ \A k \in 1 .. count : k \in 0 .. count
    OBVIOUS
  <2>3. run = [k \in 0 .. count |-> run[k]]
    BY <1>4, <2>1
  <2>. QED
    BY <1>1, <1>2, <2>1, <2>2, <2>3 DEF Linked
<1>5. ASSUME Linked(run, cv, n, c, first, count)
      PROVE  run = [k \in 0 .. count |-> Body(k)]
  <2>1. \A k \in 0 .. count : run[k] = Body(k)
    <3>1. \A k \in 0 .. count : k = 0 \/ k \in 1 .. count
      OBVIOUS
    <3>. QED
      BY <1>1, <1>2, <1>5, <3>1 DEF Linked
  <2>. QED
    BY <1>5, <2>1 DEF Linked
<1>. QED
  BY <1>3, <1>4, <1>5

(* There is one for every count.                                           *)
LEMMA ChainRunExists ==
  ASSUME NEW cv, NEW n, NEW c, NEW first \in Nat, NEW count \in Nat
  PROVE  \E run : ChainRun(run, cv, n, c, first, count)
<1>. DEFINE T == {m \in Nat : \E run : ChainRun(run, cv, n, c, first, m)}
<1>1. 0 \in T
  <2>. DEFINE r == [k \in 0 .. 0 |-> cv]
  <2>1. Linked(r, cv, n, c, first, 0)
    BY DEF Linked
  <2>. HIDE DEF r, T
  <2>2. ChainRun(r, cv, n, c, first, 0)
    BY <2>1, ChainRuns
  <2>. QED
    BY <2>2 DEF T
<1>2. ASSUME NEW m \in T
      PROVE  m + 1 \in T
  <2>1. m \in Nat /\ m + 1 \in Nat
    OBVIOUS
  <2>2. PICK f : ChainRun(f, cv, n, c, first, m)
    OBVIOUS
  <2>. HIDE DEF T
  <2>3. Linked(f, cv, n, c, first, m)
    BY <2>1, <2>2, ChainRuns
  <2>. DEFINE g == [k \in 0 .. m + 1 |-> IF k <= m THEN f[k]
                                         ELSE Link(f[m], n, c, first + m)]
  <2>4. g = [k \in 0 .. m + 1 |-> g[k]] /\ g[0] = cv
    BY <2>1, <2>3 DEF Linked
  <2>5. ASSUME NEW k \in 1 .. m + 1
        PROVE  g[k] = Link(g[k - 1], n, c, first + k - 1)
    <3>1. g[k - 1] = f[k - 1]
      BY <2>1
    <3>2. CASE k <= m
      <4>1. g[k] = f[k] /\ k \in 1 .. m
        BY <2>1, <3>2
      <4>. QED
        BY <2>3, <3>1, <4>1 DEF Linked
    <3>3. CASE k = m + 1
      <4>1. g[k] = Link(f[m], n, c, first + m) /\ k - 1 = m /\ first + k - 1 = first + m
        BY <2>1, <3>3
      <4>. QED
        BY <3>1, <4>1
    <3>. QED
      BY <2>1, <3>2, <3>3
  <2>. HIDE DEF g
  <2>6. Linked(g, cv, n, c, first, m + 1)
    BY <2>4, <2>5 DEF Linked
  <2>7. ChainRun(g, cv, n, c, first, m + 1)
    BY <2>1, <2>6, ChainRuns
  <2>. QED
    BY <2>1, <2>7 DEF T
<1>3. T = Nat
  <2>1. T \in SUBSET Nat
    OBVIOUS
  <2>. HIDE DEF T
  <2>. QED
    BY <1>1, <1>2, <2>1, Induction
<1>. QED
  BY <1>3

Extends(cv, n, c, first, count) ==
  /\ Chain(cv, n, c, first, 0) = cv
  /\ Chain(cv, n, c, first, count + 1) =
       Link(Chain(cv, n, c, first, count), n, c, first + count)

(* A chain of one more block is one more link.                             *)
LEMMA ChainLaw ==
  ASSUME NEW cv, NEW n, NEW c, NEW first \in Nat, NEW count \in Nat
  PROVE  Extends(cv, n, c, first, count)
<1>. DEFINE R(m) == CHOOSE run : ChainRun(run, cv, n, c, first, m)
<1>1. ASSUME NEW m \in Nat
      PROVE  /\ Chain(cv, n, c, first, m) = R(m)[m]
             /\ R(m)[0] = cv
             /\ \A k \in 1 .. m : R(m)[k] = Link(R(m)[k - 1], n, c, first + k - 1)
  <2>1. Chain(cv, n, c, first, m) = R(m)[m]
    BY DEF Chain, ChainRun
  <2>2. ChainRun(R(m), cv, n, c, first, m)
    BY ChainRunExists
  <2>. HIDE DEF R
  <2>. QED
    BY <2>1, <2>2, ChainRuns DEF Linked
<1>. HIDE DEF R
<1>2. \A k \in 0 .. count : R(count + 1)[k] = R(count)[k]
  <2>. DEFINE T == {k \in Nat : k <= count => R(count + 1)[k] = R(count)[k]}
  <2>1. 0 \in T
    BY <1>1
  <2>2. ASSUME NEW k \in T
        PROVE  k + 1 \in T
    <3>. SUFFICES ASSUME k + 1 <= count
                  PROVE  R(count + 1)[k + 1] = R(count)[k + 1]
      OBVIOUS
    <3>1. /\ k \in Nat /\ k + 1 \in 1 .. count /\ k + 1 \in 1 .. count + 1
          /\ (k + 1) - 1 = k /\ count + 1 \in Nat
          /\ R(count + 1)[k] = R(count)[k]
      OBVIOUS
    <3>. QED
      BY <1>1, <3>1
  <2>3. T = Nat
    <3>1. T \in SUBSET Nat
      OBVIOUS
    <3>. HIDE DEF T
    <3>. QED
      BY <2>1, <2>2, <3>1, Induction
  <2>. QED
    BY <2>3
<1>3. /\ count + 1 \in Nat /\ count + 1 \in 1 .. count + 1 /\ (count + 1) - 1 = count
      /\ first + (count + 1) - 1 = first + count /\ count \in 0 .. count
  OBVIOUS
<1>4. R(count + 1)[count + 1] = Link(R(count + 1)[count], n, c, first + count)
  <2>1. R(count + 1)[count + 1] =
          Link(R(count + 1)[(count + 1) - 1], n, c, first + (count + 1) - 1)
    BY <1>1, <1>3
  <2>. QED
    BY <1>3, <2>1
<1>5. Chain(cv, n, c, first, 0) = cv
  BY <1>1
<1>. QED
  BY <1>1, <1>2, <1>3, <1>4, <1>5 DEF Extends

(* A chain picked up where another stopped.                                *)
LEMMA ChainJoin ==
  ASSUME NEW cv, NEW n, NEW c, NEW s \in Nat, NEW m \in Nat
  PROVE  Chain(Chain(cv, n, c, 0, s), n, c, s, m) = Chain(cv, n, c, 0, s + m)
<1>. DEFINE shared == Chain(cv, n, c, 0, s)
            T == {k \in Nat : Chain(shared, n, c, s, k) = Chain(cv, n, c, 0, s + k)}
<1>1. ASSUME NEW k \in Nat
      PROVE  Extends(shared, n, c, s, k) /\ Extends(cv, n, c, 0, s + k)
  <2>. DEFINE e == s + k
  <2>1. e \in Nat /\ 0 \in Nat
    OBVIOUS
  <2>. HIDE DEF e, shared, T
  <2>2. Extends(shared, n, c, s, k) /\ Extends(cv, n, c, 0, e)
    BY <2>1, ChainLaw
  <2>. QED
    BY <2>2 DEF e
<1>2. 0 \in T
  BY <1>1 DEF Extends
<1>. HIDE DEF shared
<1>3. ASSUME NEW k \in T
      PROVE  k + 1 \in T
  <2>1. k \in Nat /\ s + (k + 1) = (s + k) + 1 /\ 0 + (s + k) = s + k
    OBVIOUS
  <2>2. Extends(shared, n, c, s, k) /\ Extends(cv, n, c, 0, s + k)
    BY <1>1, <2>1
  <2>. QED
    BY <2>1, <2>2 DEF Extends
<1>4. T = Nat
  <2>1. T \in SUBSET Nat
    OBVIOUS
  <2>. HIDE DEF T
  <2>. QED
    BY <1>2, <1>3, <2>1, Induction
<1>. QED
  BY <1>4 DEF shared

----------------------------------------------------------------------------
(* Blocks and chunks of a message.                                         *)

(* A full block does not depend on what follows it.                        *)
LEMMA SameBlock ==
  ASSUME NEW n \in Nat, NEW e \in Nat, NEW i \in Nat,
         (i + 1) * BlockLen <= n, (i + 1) * BlockLen <= e
  PROVE  MessageBlock(n, i) = MessageBlock(e, i)
<1>. DEFINE a == i * BlockLen
<1>1. a \in Nat /\ BlockLen \in Nat /\ (i + 1) * BlockLen = a + BlockLen
  BY Constants
<1>. HIDE DEF a
<1>2. \A j \in 0 .. BlockLen - 1 : a + j < n /\ a + j < e
  BY <1>1
<1>. QED
  BY <1>2 DEF MessageBlock, a

(* Block r of chunk c ends where so many bytes are full.                   *)
LEMMA BlockEnds ==
  ASSUME NEW c \in Nat, NEW r \in Nat
  PROVE  /\ (c * BlocksPerChunk + r) * BlockLen = c * ChunkLen + r * BlockLen
         /\ c * BlocksPerChunk \in Nat /\ c * ChunkLen \in Nat /\ r * BlockLen \in Nat
         /\ (c + 1) * ChunkLen = c * ChunkLen + ChunkLen
         /\ (r + 1) * BlockLen = r * BlockLen + BlockLen
         /\ r < BlocksPerChunk => (r + 1) * BlockLen <= ChunkLen
<1>1. BlockLen \in Nat \ {0} /\ BlocksPerChunk \in Nat \ {0}
  BY Constants
<1>2. c * ChunkLen = (c * BlocksPerChunk) * BlockLen
  BY <1>1 DEF ChunkLen
<1>3. (c * BlocksPerChunk + r) * BlockLen = (c * BlocksPerChunk) * BlockLen + r * BlockLen
  BY <1>1
<1>4. r < BlocksPerChunk => (r + 1) * BlockLen <= ChunkLen
  <2>. SUFFICES ASSUME r < BlocksPerChunk
                PROVE  (r + 1) * BlockLen <= ChunkLen
    OBVIOUS
  <2>. DEFINE d == BlocksPerChunk - (r + 1)
  <2>1. d \in Nat /\ BlocksPerChunk = (r + 1) + d
    BY <1>1
  <2>. HIDE DEF d
  <2>2. d * BlockLen \in Nat /\ (r + 1) * BlockLen \in Nat
    BY <1>1, <2>1
  <2>3. ChunkLen = (r + 1) * BlockLen + d * BlockLen
    BY <1>1, <2>1 DEF ChunkLen
  <2>. QED
    BY <2>2, <2>3
<1>5. /\ c * BlocksPerChunk \in Nat /\ c * ChunkLen \in Nat /\ r * BlockLen \in Nat
      /\ (c + 1) * ChunkLen = c * ChunkLen + ChunkLen
      /\ (r + 1) * BlockLen = r * BlockLen + BlockLen
  BY Constants
<1>. QED
  BY <1>2, <1>3, <1>4, <1>5

(* The chain of a chunk's full blocks does not depend on what follows.     *)
LEMMA SameChain ==
  ASSUME NEW n \in Nat, NEW e \in Nat, NEW c \in Nat, NEW count \in Nat,
         c * ChunkLen + count * BlockLen <= n, c * ChunkLen + count * BlockLen <= e
  PROVE  Chain(KeyWords, n, c, 0, count) = Chain(KeyWords, e, c, 0, count)
<1>. DEFINE T == {k \in Nat : k <= count =>
                   Chain(KeyWords, n, c, 0, k) = Chain(KeyWords, e, c, 0, k)}
<1>1. ASSUME NEW k \in Nat
      PROVE  Extends(KeyWords, n, c, 0, k) /\ Extends(KeyWords, e, c, 0, k)
  <2>. HIDE DEF T
  <2>1. 0 \in Nat
    OBVIOUS
  <2>. QED
    BY <2>1, ChainLaw
<1>2. 0 \in T
  BY <1>1 DEF Extends
<1>3. ASSUME NEW k \in T
      PROVE  k + 1 \in T
  <2>. SUFFICES ASSUME k + 1 <= count
                PROVE  Chain(KeyWords, n, c, 0, k + 1) = Chain(KeyWords, e, c, 0, k + 1)
    OBVIOUS
  <2>1. /\ k \in Nat /\ 0 + k = k
        /\ Chain(KeyWords, n, c, 0, k) = Chain(KeyWords, e, c, 0, k)
    OBVIOUS
  <2>. HIDE DEF T
  <2>. DEFINE i == c * BlocksPerChunk + k
  <2>2. i \in Nat
    <3>1. c * BlocksPerChunk \in Nat
      BY <2>1, BlockEnds
    <3>. QED
      BY <2>1, <3>1
  <2>3. (i + 1) * BlockLen = c * ChunkLen + (k + 1) * BlockLen
    <3>1. k + 1 \in Nat /\ c * BlocksPerChunk \in Nat
      BY <2>1, BlockEnds
    <3>2. (c * BlocksPerChunk + (k + 1)) * BlockLen = c * ChunkLen + (k + 1) * BlockLen
      BY <3>1, BlockEnds
    <3>3. i + 1 = c * BlocksPerChunk + (k + 1)
      BY <2>1, <3>1
    <3>. QED
      BY <3>2, <3>3
  <2>4. (k + 1) * BlockLen <= count * BlockLen
    <3>. DEFINE d == count - (k + 1)
    <3>1. d \in Nat /\ count = (k + 1) + d /\ BlockLen \in Nat
      BY <2>1, Constants
    <3>. HIDE DEF d
    <3>2. d * BlockLen \in Nat /\ (k + 1) * BlockLen \in Nat
      BY <2>1, <3>1
    <3>3. count * BlockLen = (k + 1) * BlockLen + d * BlockLen
      BY <2>1, <3>1
    <3>. QED
      BY <3>2, <3>3
  <2>5. (i + 1) * BlockLen <= n /\ (i + 1) * BlockLen <= e
    <3>. DEFINE x == c * ChunkLen
                y == (k + 1) * BlockLen
                z == count * BlockLen
    <3>1. x \in Nat /\ y \in Nat /\ z \in Nat /\ y <= z /\ x + z <= n /\ x + z <= e
      BY <2>1, <2>4, Constants
    <3>2. (i + 1) * BlockLen = x + y
      BY <2>3
    <3>. HIDE DEF x, y, z, i
    <3>. QED
      BY <3>1, <3>2
  <2>6. MessageBlock(n, i) = MessageBlock(e, i)
    <3>. HIDE DEF i
    <3>. QED
      BY <2>2, <2>5, SameBlock
  <2>7. ChunkBlock(n, c, k) = ChunkBlock(e, c, k)
    BY <2>6 DEF ChunkBlock
  <2>8. Extends(KeyWords, n, c, 0, k) /\ Extends(KeyWords, e, c, 0, k)
    BY <1>1, <2>1
  <2>. QED
    BY <2>1, <2>7, <2>8 DEF Extends, Link
<1>4. T = Nat
  <2>1. T \in SUBSET Nat
    OBVIOUS
  <2>. HIDE DEF T
  <2>. QED
    BY <1>2, <1>3, <2>1, Induction
<1>. QED
  BY <1>4

(* How many blocks so many bytes are.                                      *)
LEMMA UnitsOf ==
  ASSUME NEW size \in Nat \ {0}, NEW r \in Nat, NEW e \in 0 .. size,
         e > 0 \/ r = 0
  PROVE  Units(r * size + e, size) = r + 1
<1>. DEFINE x == r * size
<1>1. x \in Nat
  OBVIOUS
<1>2. CASE e = 0
  <2>1. x + e = 0
    BY <1>2
  <2>. QED
    BY <1>2, <2>1 DEF Units
<1>3. CASE e > 0
  <2>. DEFINE d == e - 1
              q == r + 1
  <2>1. d \in 0 .. size - 1 /\ q \in Int /\ q * size = x + size
    BY <1>3
  <2>2. x + e # 0 /\ (x + e) + size - 1 = q * size + d
    <3>. HIDE DEF x, q
    <3>. QED
      BY <1>1, <1>3, <2>1
  <2>3. Units(x + e, size) = (q * size + d) \div size
    <3>. HIDE DEF q, d, x
    <3>. QED
      BY <2>2 DEF Units
  <2>. HIDE DEF q, d
  <2>4. (q * size + d) \div size = q
    BY <2>1, DivModUnique
  <2>. QED
    BY <2>3, <2>4 DEF q
<1>. QED
  BY <1>2, <1>3

(* A chunk of so many bytes, as one chain and one last block.              *)
ChunkNode(n, c, r, e) ==
  Node(Chain(KeyWords, n, c, 0, r), MessageBlock(n, c * BlocksPerChunk + r), Halves(c), e,
       {"CHUNK_END"} \cup (IF r = 0 THEN {"CHUNK_START"} ELSE {}))

(* A chunk's node, from its count of bytes.                                *)
LEMMA ChunkIs ==
  ASSUME NEW n \in Nat, NEW c \in Nat, NEW r \in Nat, NEW e \in 0 .. BlockLen,
         e > 0 \/ r = 0, ChunkBytes(n, c) = r * BlockLen + e
  PROVE  BlocksOf(n, c) = r + 1 /\ ChunkOutput(n, c) = ChunkNode(n, c, r, e)
<1>1. BlocksOf(n, c) = r + 1
  BY Constants, UnitsOf DEF BlocksOf
<1>. DEFINE x == r * BlockLen
<1>2. x \in Nat
  BY Constants
<1>3. BlocksOf(n, c) - 1 = r /\ r - 0 = r
  BY <1>1
<1>4. ChunkBytes(n, c) - x = e
  <2>1. ChunkBytes(n, c) = x + e
    OBVIOUS
  <2>. HIDE DEF x
  <2>. QED
    BY <1>2, <2>1
<1>5. ChunkOutput(n, c) =
        Node(Chain(KeyWords, n, c, 0, r), ChunkBlock(n, c, r), Halves(c), e,
             {"CHUNK_END"} \cup (IF r = 0 THEN {"CHUNK_START"} ELSE {}))
  BY <1>3, <1>4 DEF ChunkOutput, ChunkFrom
<1>. QED
  BY <1>1, <1>5 DEF ChunkBlock, ChunkNode

(* A full chunk.                                                           *)
LEMMA FullChunk ==
  ASSUME NEW n \in Nat, NEW c \in Nat, (c + 1) * ChunkLen <= n
  PROVE  /\ BlocksOf(n, c) = BlocksPerChunk
         /\ ChunkOutput(n, c) = ChunkNode(n, c, BlocksPerChunk - 1, BlockLen)
<1>. DEFINE r == BlocksPerChunk - 1
<1>1. /\ BlockLen \in Nat \ {0} /\ BlocksPerChunk \in Nat \ {0} /\ r \in Nat
      /\ r + 1 = BlocksPerChunk /\ ChunkLen \in Nat
  BY Constants
<1>2. ~(n < (c + 1) * ChunkLen)
  <2>1. (c + 1) * ChunkLen \in Nat
    BY <1>1
  <2>. QED
    BY <2>1
<1>3. ChunkBytes(n, c) = ChunkLen
  BY <1>2 DEF ChunkBytes
<1>4. ChunkLen = r * BlockLen + BlockLen
  BY <1>1 DEF ChunkLen
<1>5. BlockLen \in 0 .. BlockLen /\ BlockLen > 0
  BY <1>1
<1>6. BlocksOf(n, c) = r + 1 /\ ChunkOutput(n, c) = ChunkNode(n, c, r, BlockLen)
  <2>. HIDE DEF r
  <2>. QED
    BY <1>1, <1>3, <1>4, <1>5, ChunkIs
<1>. QED
  BY <1>1, <1>6

(* It does not depend on what follows it.                                  *)
LEMMA SameChunk ==
  ASSUME NEW n \in Nat, NEW e \in Nat, NEW c \in Nat,
         (c + 1) * ChunkLen <= n, (c + 1) * ChunkLen <= e
  PROVE  ChunkOutput(n, c) = ChunkOutput(e, c)
<1>. DEFINE r == BlocksPerChunk - 1
            i == c * BlocksPerChunk + r
<1>1. /\ BlockLen \in Nat \ {0} /\ r \in Nat /\ r < BlocksPerChunk /\ ChunkLen \in Nat
  BY Constants
<1>. HIDE DEF r
<1>2. /\ c * ChunkLen \in Nat /\ (r + 1) * BlockLen <= ChunkLen
      /\ (c + 1) * ChunkLen = c * ChunkLen + ChunkLen
      /\ r * BlockLen \in Nat /\ (r + 1) * BlockLen = r * BlockLen + BlockLen
      /\ c * BlocksPerChunk \in Nat
  BY <1>1, BlockEnds
<1>3. /\ i \in Nat
      /\ (i + 1) * BlockLen = c * ChunkLen + (r + 1) * BlockLen
  <2>1. r + 1 \in Nat /\ i + 1 = c * BlocksPerChunk + (r + 1)
    BY <1>1, <1>2
  <2>2. (c * BlocksPerChunk + (r + 1)) * BlockLen = c * ChunkLen + (r + 1) * BlockLen
    BY <2>1, BlockEnds
  <2>. QED
    BY <1>1, <1>2, <2>1, <2>2
<1>. DEFINE x == c * ChunkLen
            y == r * BlockLen
            z == (i + 1) * BlockLen
<1>4. /\ x \in Nat /\ y \in Nat /\ z = x + (y + BlockLen) /\ y + BlockLen <= ChunkLen
      /\ x + ChunkLen <= n /\ x + ChunkLen <= e
  BY <1>2, <1>3
<1>. HIDE DEF x, y, z, i
<1>5. x + y <= n /\ x + y <= e /\ z <= n /\ z <= e
  BY <1>1, <1>4
<1>6. Chain(KeyWords, n, c, 0, r) = Chain(KeyWords, e, c, 0, r)
  BY <1>1, <1>5, SameChain DEF x, y
<1>7. MessageBlock(n, i) = MessageBlock(e, i)
  BY <1>3, <1>5, SameBlock DEF z
<1>8. /\ ChunkOutput(n, c) = ChunkNode(n, c, r, BlockLen)
      /\ ChunkOutput(e, c) = ChunkNode(e, c, r, BlockLen)
  BY FullChunk DEF r
<1>. QED
  BY <1>6, <1>7, <1>8 DEF ChunkNode, i

(* The blocks of n bytes that are not held back.                           *)
Done(n) == IF n = 0 THEN 0 ELSE (n - 1) \div BlockLen

(* What is held back is a block, and is not empty once anything came.      *)
LEMMA DoneBounds ==
  ASSUME NEW n \in Nat
  PROVE  /\ Done(n) \in Nat /\ Done(n) * BlockLen \in Nat
         /\ n - Done(n) * BlockLen \in 0 .. BlockLen
         /\ Done(n) * BlockLen <= n
         /\ n > 0 => n - Done(n) * BlockLen > 0
         /\ n = 0 => Done(n) = 0
<1>1. BlockLen \in Nat \ {0}
  BY Constants
<1>2. CASE n = 0
  BY <1>1, <1>2 DEF Done
<1>3. CASE n > 0
  <2>. DEFINE q == (n - 1) \div BlockLen
              r == (n - 1) % BlockLen
  <2>1. q \in Nat /\ r \in 0 .. BlockLen - 1 /\ n - 1 = q * BlockLen + r
    <3>1. n - 1 \in Nat
      BY <1>3
    <3>. QED
      BY <1>1, <3>1, DivModNat
  <2>2. Done(n) = q
    BY <1>3 DEF Done
  <2>. HIDE DEF q, r
  <2>. DEFINE x == q * BlockLen
  <2>3. x \in Nat /\ n = x + r + 1
    BY <1>1, <2>1
  <2>4. Done(n) * BlockLen = x
    BY <2>2
  <2>. HIDE DEF x
  <2>5. n - x \in 0 .. BlockLen /\ x <= n /\ n - x > 0
    BY <1>1, <2>1, <2>3
  <2>. QED
    BY <1>3, <2>1, <2>2, <2>3, <2>4, <2>5
<1>. QED
  BY <1>2, <1>3

(* The last chunk, the one the held back block is in.                      *)
LEMMA LastChunk ==
  ASSUME NEW n \in Nat, NEW c \in Nat, NEW r \in 0 .. BlocksPerChunk - 1,
         Done(n) = c * BlocksPerChunk + r
  PROVE  /\ Units(n, ChunkLen) = c + 1
         /\ BlocksOf(n, c) = r + 1
         /\ ChunkOutput(n, c) = ChunkNode(n, c, r, n - Done(n) * BlockLen)
         /\ c * ChunkLen <= n
<1>. DEFINE e == n - Done(n) * BlockLen
            x == c * ChunkLen
            y == r * BlockLen
<1>0. BlockLen \in Nat \ {0} /\ ChunkLen \in Nat \ {0} /\ BlocksPerChunk \in Nat \ {0} /\ r \in Nat
  BY Constants
<1>1. /\ Done(n) * BlockLen = x + y
      /\ x \in Nat /\ y \in Nat /\ y + BlockLen <= ChunkLen
      /\ (c + 1) * ChunkLen = x + ChunkLen
  <2>1. (r + 1) * BlockLen <= ChunkLen /\ (r + 1) * BlockLen = r * BlockLen + BlockLen
    BY <1>0, BlockEnds
  <2>. QED
    BY <1>0, <2>1, BlockEnds
<1>2. /\ e \in 0 .. BlockLen /\ (n > 0 => e > 0) /\ (n = 0 => Done(n) = 0)
  BY DoneBounds
<1>3. n = (x + y) + e
  <2>. DEFINE z == Done(n) * BlockLen
  <2>1. z \in Nat /\ z = x + y
    BY <1>1
  <2>2. e = n - z
    OBVIOUS
  <2>. HIDE DEF x, y, e, z
  <2>. QED
    BY <2>1, <2>2
<1>4. e > 0 \/ r = 0
  <2>1. CASE n = 0
    <3>1. Done(n) = 0 /\ c * BlocksPerChunk \in Nat
      BY <1>0, <1>2, <2>1
    <3>. QED
      BY <1>0, <3>1
  <2>. QED
    BY <1>2, <2>1
<1>. HIDE DEF e
<1>5. ChunkBytes(n, c) = y + e
  <2>. DEFINE b == (c + 1) * ChunkLen
  <2>1. b = x + ChunkLen
    BY <1>1
  <2>2. ChunkBytes(n, c) = IF n < b THEN n - x ELSE ChunkLen
    BY DEF ChunkBytes
  <2>. HIDE DEF b, x, y
  <2>3. n < b => n - x = y + e
    BY <1>1, <1>2, <1>3
  <2>4. ~(n < b) => ChunkLen = y + e
    BY <1>0, <1>1, <1>2, <1>3, <2>1
  <2>. QED
    BY <2>2, <2>3, <2>4
<1>6. BlocksOf(n, c) = r + 1 /\ ChunkOutput(n, c) = ChunkNode(n, c, r, e)
  BY <1>0, <1>2, <1>4, <1>5, ChunkIs
<1>7. Units(n, ChunkLen) = c + 1
  <2>. DEFINE f == y + e
  <2>1. f \in 0 .. ChunkLen /\ n = x + f
    <3>. HIDE DEF x, y
    <3>. QED
      BY <1>0, <1>1, <1>2, <1>3
  <2>2. f > 0 \/ c = 0
    <3>1. CASE n = 0
      <4>1. Done(n) = 0 /\ c * BlocksPerChunk \in Nat
        BY <1>0, <1>2, <3>1
      <4>2. c * BlocksPerChunk = 0
        BY <1>0, <4>1
      <4>. QED
        BY <1>0, <4>2
    <3>2. CASE n > 0
      <4>1. e > 0
        BY <1>2, <3>2
      <4>. HIDE DEF y
      <4>. QED
        BY <1>1, <1>2, <4>1
    <3>. QED
      BY <3>1, <3>2
  <2>. HIDE DEF f, y
  <2>3. Units(c * ChunkLen + f, ChunkLen) = c + 1
    BY <1>0, <2>1, <2>2, UnitsOf
  <2>. QED
    BY <2>1, <2>3
<1>8. x <= n
  <2>. HIDE DEF x, y
  <2>. QED
    BY <1>1, <1>2, <1>3
<1>. QED
  BY <1>6, <1>7, <1>8 DEF e

----------------------------------------------------------------------------
(* The specification's tree.                                               *)

(* The nodes over k chunks, by their first chunk, from the smaller ones.   *)
Row(node, n, k) ==
  [f \in Nat |->
     IF k = 1 THEN ChunkOutput(n, f)
     ELSE Parent(ChainingValue(node[LeftLen(k)][f]),
                 ChainingValue(node[k - LeftLen(k)][f + LeftLen(k)]))]

Rows(node, n, count) == node = [k \in 1 .. count |-> Row(node, n, k)]

(* A row looks at smaller ones only.                                       *)
LEMMA SameRow ==
  ASSUME NEW a, NEW b, NEW n, NEW k \in Nat \ {0}, \A i \in 1 .. k - 1 : a[i] = b[i]
  PROVE  Row(a, n, k) = Row(b, n, k)
<1>1. CASE k = 1
  BY <1>1 DEF Row
<1>2. CASE k >= 2
  <2>. DEFINE p == LeftLen(k)
  <2>1. p \in 1 .. k - 1
    BY <1>2, LeftLenRange
  <2>. HIDE DEF p
  <2>2. p \in 1 .. k - 1 /\ k - p \in 1 .. k - 1
    BY <2>1
  <2>3. a[p] = b[p] /\ a[k - p] = b[k - p]
    BY <2>2
  <2>. QED
    BY <2>3 DEF Row, p
<1>. QED
  BY <1>1, <1>2

(* There are rows up to any count.                                         *)
LEMMA RowsExist ==
  ASSUME NEW n, NEW count \in Nat
  PROVE  \E node : Rows(node, n, count)
<1>. DEFINE T == {m \in Nat : \E node : Rows(node, n, m)}
<1>1. 0 \in T
  <2>. DEFINE a == [k \in 1 .. 0 |-> n]
  <2>1. a = [k \in 1 .. 0 |-> Row(a, n, k)]
    <3>1. 1 .. 0 = {}
      OBVIOUS
    <3>. QED
      BY <3>1
  <2>2. Rows(a, n, 0)
    BY <2>1 DEF Rows
  <2>. QED
    BY <2>2
<1>2. ASSUME NEW m \in T
      PROVE  m + 1 \in T
  <2>1. m \in Nat /\ m + 1 \in Nat
    OBVIOUS
  <2>2. PICK a : Rows(a, n, m)
    OBVIOUS
  <2>. DEFINE b == [k \in 1 .. m + 1 |-> IF k <= m THEN a[k] ELSE Row(a, n, m + 1)]
  <2>3. \A k \in 1 .. m : b[k] = a[k]
    BY <2>1
  <2>4. ASSUME NEW k \in 1 .. m + 1
        PROVE  b[k] = Row(b, n, k)
    <3>1. k \in Nat \ {0} /\ \A i \in 1 .. k - 1 : a[i] = b[i]
      BY <2>1, <2>3
    <3>2. b[k] = Row(a, n, k)
      <4>1. CASE k <= m
        <5>1. k \in 1 .. m
          BY <2>1, <4>1
        <5>2. a[k] = Row(a, n, k)
          BY <2>2, <5>1 DEF Rows
        <5>. QED
          BY <2>3, <5>1, <5>2
      <4>2. CASE k = m + 1
        BY <2>1, <4>2
      <4>. QED
        BY <2>1, <4>1, <4>2
    <3>. HIDE DEF b
    <3>. QED
      BY <3>1, <3>2, SameRow
  <2>5. b = [k \in 1 .. m + 1 |-> b[k]]
    OBVIOUS
  <2>. HIDE DEF b
  <2>6. Rows(b, n, m + 1)
    BY <2>4, <2>5 DEF Rows
  <2>. QED
    BY <2>1, <2>6
<1>3. T = Nat
  <2>1. T \in SUBSET Nat
    OBVIOUS
  <2>. HIDE DEF T
  <2>. QED
    BY <1>1, <1>2, <2>1, Induction
<1>. QED
  BY <1>3

(* A node of one chunk is the chunk, and one of more a parent.             *)
Halved(n, f, k) ==
  IF k = 1 THEN Subtree(n, f, k) = ChunkOutput(n, f)
  ELSE Subtree(n, f, k) =
         Parent(ChainingValue(Subtree(n, f, LeftLen(k))),
                ChainingValue(Subtree(n, f + LeftLen(k), k - LeftLen(k))))

(* So says the recursion of the specification's tree.                      *)
LEMMA SubtreeLaw ==
  ASSUME NEW n, NEW f \in Nat, NEW k \in Nat \ {0}
  PROVE  Halved(n, f, k)
<1>. DEFINE R(m) == CHOOSE node : Rows(node, n, m)
<1>1. \A m \in Nat : Rows(R(m), n, m)
  BY RowsExist
<1>2. \A m \in Nat, g \in Nat : Subtree(n, g, m) = R(m)[m][g]
  BY DEF Subtree, Rows, Row
<1>. HIDE DEF R
<1>3. \A m \in Nat : \A i \in 1 .. m : R(m)[i] = Row(R(m), n, i)
  <2>. SUFFICES ASSUME NEW m \in Nat, NEW i \in 1 .. m
                PROVE  R(m)[i] = Row(R(m), n, i)
    OBVIOUS
  <2>. DEFINE a == R(m)
  <2>1. a = [j \in 1 .. m |-> Row(a, n, j)]
    BY <1>1 DEF Rows
  <2>. HIDE DEF a
  <2>2. a[i] = Row(a, n, i)
    BY <2>1
  <2>. QED
    BY <2>2 DEF a
<1>4. ASSUME NEW m \in Nat, m <= k
      PROVE  \A i \in 1 .. m : R(k)[i] = R(m)[i]
  <2>. DEFINE T == {i \in Nat : i \in 1 .. m => R(k)[i] = R(m)[i]}
  <2>1. ASSUME NEW i \in Nat, \A j \in 0 .. i - 1 : j \in T
        PROVE  i \in T
    <3>. SUFFICES ASSUME i \in 1 .. m
                  PROVE  R(k)[i] = R(m)[i]
      OBVIOUS
    <3>1. \A j \in 1 .. i - 1 : R(k)[j] = R(m)[j]
      <4>1. \A j \in 1 .. i - 1 : j \in 0 .. i - 1 /\ j \in 1 .. m
        OBVIOUS
      <4>. QED
        BY <2>1, <4>1
    <3>2. i \in Nat \ {0} /\ i \in 1 .. k /\ k \in Nat
      BY <1>4
    <3>3. R(k)[i] = Row(R(k), n, i) /\ R(m)[i] = Row(R(m), n, i)
      BY <1>3, <3>2
    <3>. HIDE DEF T
    <3>4. Row(R(k), n, i) = Row(R(m), n, i)
      BY <3>1, <3>2, SameRow
    <3>. QED
      BY <3>3, <3>4
  <2>2. T = Nat
    <3>1. T \in SUBSET Nat
      OBVIOUS
    <3>. HIDE DEF T
    <3>. QED
      BY <2>1, <3>1, StrongInduction
  <2>. QED
    BY <2>2
<1>5. k \in 1 .. k /\ k \in Nat
  OBVIOUS
<1>6. Subtree(n, f, k) = Row(R(k), n, k)[f]
  BY <1>2, <1>3, <1>5
<1>7. CASE k = 1
  BY <1>6, <1>7 DEF Halved, Row
<1>8. CASE k >= 2
  <2>. DEFINE p == LeftLen(k)
  <2>1. p \in 1 .. k - 1
    BY <1>8, LeftLenRange
  <2>2. Row(R(k), n, k)[f] = Parent(ChainingValue(R(k)[p][f]),
                                    ChainingValue(R(k)[k - p][f + p]))
    BY <1>8 DEF Row
  <2>3. Halved(n, f, k) <=>
          Subtree(n, f, k) = Parent(ChainingValue(Subtree(n, f, p)),
                                    ChainingValue(Subtree(n, f + p, k - p)))
    BY <1>8 DEF Halved
  <2>. HIDE DEF p
  <2>4. /\ p \in Nat /\ p <= k /\ p \in 1 .. p /\ f + p \in Nat
        /\ k - p \in Nat /\ k - p <= k /\ k - p \in 1 .. k - p
    BY <2>1
  <2>5. R(k)[p] = R(p)[p]
    BY <1>4, <2>4
  <2>6. R(k)[k - p] = R(k - p)[k - p]
    <3>. DEFINE q == k - p
    <3>1. q \in Nat /\ q <= k /\ q \in 1 .. q
      BY <2>4
    <3>. HIDE DEF q
    <3>2. R(k)[q] = R(q)[q]
      BY <1>4, <3>1
    <3>. QED
      BY <3>2 DEF q
  <2>7. Subtree(n, f, p) = R(k)[p][f] /\ Subtree(n, f + p, k - p) = R(k)[k - p][f + p]
    BY <1>2, <2>4, <2>5, <2>6
  <2>. QED
    BY <1>6, <2>2, <2>3, <2>7
<1>. QED
  BY <1>7, <1>8

(* A node over a power of two and up to as many chunks more.               *)
LEMMA SubtreeJoins ==
  ASSUME NEW n, NEW f \in Nat, NEW j \in Nat, NEW w \in Nat,
         PowerOfTwo[j] < w, w <= 2 * PowerOfTwo[j]
  PROVE  Subtree(n, f, w) =
           Parent(ChainingValue(Subtree(n, f, PowerOfTwo[j])),
                  ChainingValue(Subtree(n, f + PowerOfTwo[j], w - PowerOfTwo[j])))
<1>1. PowerOfTwo[j] \in Nat \ {0}
  BY Doubling
<1>2. w \in Nat \ {0} /\ w # 1
  BY <1>1
<1>3. LeftLen(w) = PowerOfTwo[j]
  BY LeftLenIs
<1>4. Halved(n, f, w)
  BY <1>2, SubtreeLaw
<1>. QED
  BY <1>2, <1>3, <1>4 DEF Halved

(* A subtree of full chunks does not depend on what follows it.            *)
LEMMA SameSubtree ==
  ASSUME NEW n \in Nat, NEW e \in Nat, NEW f \in Nat, NEW k \in Nat \ {0},
         (f + k) * ChunkLen <= n, (f + k) * ChunkLen <= e
  PROVE  Subtree(n, f, k) = Subtree(e, f, k)
<1>. DEFINE Full(g, m) == (g + m) * ChunkLen <= n /\ (g + m) * ChunkLen <= e
            T == {m \in Nat : m > 0 =>
                    \A g \in Nat : Full(g, m) => Subtree(n, g, m) = Subtree(e, g, m)}
<1>0. ChunkLen \in Nat \ {0}
  BY Constants
<1>1. ASSUME NEW m \in Nat, \A i \in 0 .. m - 1 : i \in T
      PROVE  m \in T
  <2>. SUFFICES ASSUME m > 0, NEW g \in Nat, Full(g, m)
                PROVE  Subtree(n, g, m) = Subtree(e, g, m)
    OBVIOUS
  <2>1. m \in Nat \ {0} /\ Halved(n, g, m) /\ Halved(e, g, m)
    <3>1. m \in Nat \ {0}
      OBVIOUS
    <3>. HIDE DEF T, Full
    <3>. QED
      BY <3>1, SubtreeLaw
  <2>2. CASE m = 1
    <3>1. (g + 1) * ChunkLen <= n /\ (g + 1) * ChunkLen <= e
      BY <2>2
    <3>. HIDE DEF T, Full
    <3>2. ChunkOutput(n, g) = ChunkOutput(e, g)
      BY <3>1, SameChunk
    <3>. QED
      BY <2>1, <2>2, <3>2 DEF Halved
  <2>3. CASE m >= 2
    <3>. DEFINE p == LeftLen(m)
    <3>1. p \in 1 .. m - 1
      BY <2>3, LeftLenRange
    <3>2. /\ Subtree(n, g, m) = Parent(ChainingValue(Subtree(n, g, p)),
                                       ChainingValue(Subtree(n, g + p, m - p)))
          /\ Subtree(e, g, m) = Parent(ChainingValue(Subtree(e, g, p)),
                                       ChainingValue(Subtree(e, g + p, m - p)))
      <4>1. m # 1
        BY <2>3
      <4>. HIDE DEF T, Full
      <4>. QED
        BY <2>1, <4>1 DEF Halved
    <3>. HIDE DEF p
    <3>3. /\ p \in 0 .. m - 1 /\ p > 0 /\ m - p \in 0 .. m - 1 /\ m - p > 0
          /\ g + p \in Nat /\ (g + p) + (m - p) = g + m
      BY <3>1
    <3>4. Full(g + p, m - p)
      BY <3>3
    <3>5. Full(g, p)
      <4>. DEFINE a == (g + p) * ChunkLen
                  d == (m - p) * ChunkLen
      <4>1. a \in Nat /\ d \in Nat
        BY <1>0, <3>3
      <4>2. (g + m) * ChunkLen = a + d
        BY <1>0, <3>3
      <4>3. a + d <= n /\ a + d <= e
        BY <4>2
      <4>. HIDE DEF a, d
      <4>4. a <= n /\ a <= e
        BY <4>1, <4>3
      <4>. QED
        BY <4>4 DEF a
    <3>6. p \in T /\ m - p \in T
      BY <1>1, <3>3
    <3>7. Subtree(n, g, p) = Subtree(e, g, p)
      BY <3>3, <3>5, <3>6
    <3>8. Subtree(n, g + p, m - p) = Subtree(e, g + p, m - p)
      BY <3>3, <3>4, <3>6
    <3>. QED
      BY <3>2, <3>7, <3>8
  <2>. QED
    BY <2>2, <2>3
<1>2. T = Nat
  <2>1. T \in SUBSET Nat
    OBVIOUS
  <2>. HIDE DEF T
  <2>. QED
    BY <1>1, <2>1, StrongInduction
<1>3. Full(f, k) /\ k > 0
  OBVIOUS
<1>4. k \in T
  <2>. HIDE DEF T
  <2>. QED
    BY <1>2
<1>. QED
  BY <1>3, <1>4

----------------------------------------------------------------------------
(* The stack.                                                              *)

(* A stack of c chunks of n bytes: a subtree for every bit of c, entered   *)
(* from the highest.                                                       *)
Entry(n, c, b) == ChainingValue(Subtree(n, Cut(c, b + 1), PowerOfTwo[b]))

StackOf(stack, slen, n, c) ==
  /\ DOMAIN stack = 0 .. MaxStack - 1
  /\ slen = Ones(c)
  /\ \A b \in 0 .. N - 1 :
       Shifted(c, b) % 2 = 1 => stack[High(c, b + 1)] = Entry(n, c, b)

(* The subtrees are full, so they do not depend on what follows the c      *)
(* chunks.                                                                 *)
LEMMA SameStack ==
  ASSUME NEW n \in Nat, NEW e \in Nat, NEW c \in Nat, NEW stack, NEW slen,
         c * ChunkLen <= n, c * ChunkLen <= e, StackOf(stack, slen, n, c)
  PROVE  StackOf(stack, slen, e, c)
<1>0. ChunkLen \in Nat /\ N \in Nat
  BY Constants
<1>1. ASSUME NEW b \in 0 .. N - 1, Shifted(c, b) % 2 = 1
      PROVE  Entry(n, c, b) = Entry(e, c, b)
  <2>. DEFINE f == Cut(c, b + 1)
              k == PowerOfTwo[b]
              d == c - (f + k)
  <2>0. b \in Nat /\ b + 1 \in Nat
    BY <1>0
  <2>1. f \in Nat /\ k \in Nat \ {0} /\ f + k <= c
    <3>1. Cut(c, b) = f + k /\ Cut(c, b) <= c
      BY <1>1, <2>0, Cuts
    <3>2. f \in Nat
      BY <2>0, Cuts
    <3>. QED
      BY <2>0, <3>1, <3>2, Doubling
  <2>2. d \in Nat /\ c = (f + k) + d
    BY <2>1
  <2>. HIDE DEF f, k, d
  <2>3. (f + k) * ChunkLen <= c * ChunkLen
    <3>. DEFINE a == f + k
    <3>1. a \in Nat /\ c = a + d
      BY <2>1, <2>2
    <3>. HIDE DEF a
    <3>2. a * ChunkLen \in Nat /\ d * ChunkLen \in Nat
      BY <1>0, <2>2, <3>1
    <3>3. c * ChunkLen = a * ChunkLen + d * ChunkLen
      <4>1. (a + d) * ChunkLen = a * ChunkLen + d * ChunkLen
        BY <1>0, <2>2, <3>1
      <4>. QED
        BY <3>1, <4>1
    <3>4. a * ChunkLen <= c * ChunkLen
      BY <3>2, <3>3
    <3>. QED
      BY <3>4 DEF a
  <2>4. (f + k) * ChunkLen <= n /\ (f + k) * ChunkLen <= e
    <3>. DEFINE x == (f + k) * ChunkLen
                y == c * ChunkLen
    <3>1. x \in Nat /\ y \in Nat /\ x <= y /\ y <= n /\ y <= e
      BY <1>0, <2>1, <2>3
    <3>. HIDE DEF x, y
    <3>2. x <= n /\ x <= e
      BY <3>1
    <3>. QED
      BY <3>2 DEF x
  <2>5. Subtree(n, f, k) = Subtree(e, f, k)
    BY <2>1, <2>4, SameSubtree
  <2>. QED
    BY <2>5 DEF Entry, f, k
<1>. QED
  BY <1>1 DEF StackOf

(* What has a place in the stack has one in the counter.                   *)
LEMMA StackBits ==
  ASSUME NEW v \in Nat, v < PowerOfTwo[MaxStack]
  PROVE  v < PowerOfTwo[N]
<1>1. MaxStack \in Nat /\ N \in Nat /\ MaxStack <= N
  BY Constants
<1>2. PowerOfTwo[MaxStack] \in Nat /\ PowerOfTwo[N] \in Nat
  BY <1>1, Doubling
<1>3. MaxStack < N => PowerOfTwo[N] >= 2 * PowerOfTwo[MaxStack]
  BY <1>1, PowersGrow
<1>4. CASE MaxStack < N
  BY <1>2, <1>3, <1>4
<1>5. CASE MaxStack = N
  BY <1>5
<1>. QED
  BY <1>1, <1>4, <1>5

(* The merges are those of the carry.                                      *)
LEMMA MergesOf ==
  ASSUME NEW c \in Nat, NEW t, Carries(c, t)
  PROVE  t \in 0 .. Ones(c) /\ Merges(Halves(c + 1), Ones(c)) = t
<1>0. N \in Nat \ {0} /\ t \in 0 .. N - 1 /\ t \in Nat
  BY Constants DEF Carries
<1>1. t \in 0 .. Ones(c) /\ Ones(c) \in Nat
  <2>1. High(c, 0) = Ones(c) /\ High(c, t + 1) \in Nat
    BY <1>0, HighSteps
  <2>2. 0 \in 0 .. t /\ t - 0 = t
    BY <1>0
  <2>3. High(c, 0) = High(c, t + 1) + (t - 0)
    BY <2>2 DEF Carries
  <2>. QED
    BY <1>0, <2>1, <2>2, <2>3
<1>2. \A i \in 0 .. t : Bit(Halves(c + 1), i) = IF i = t THEN 1 ELSE 0
  <2>. SUFFICES ASSUME NEW i \in 0 .. t
                PROVE  Bit(Halves(c + 1), i) = IF i = t THEN 1 ELSE 0
    OBVIOUS
  <2>1. i \in 0 .. N - 1 /\ c + 1 \in Nat
    BY <1>0
  <2>2. Bit(Halves(c + 1), i) = Shifted(c + 1, i) % 2
    BY <2>1, BitsOfHalves
  <2>3. i # t => i \in 0 .. t - 1
    BY <1>0
  <2>. QED
    BY <2>2, <2>3 DEF Carries
<1>. DEFINE B(i) == Bit(Halves(c + 1), i)
            slen == Ones(c)
            Ok(k) == /\ k = slen \/ B(k) = 1
                     /\ \A j \in 0 .. k - 1 : B(j) = 0
<1>3. Merges(Halves(c + 1), Ones(c)) = CHOOSE k \in 0 .. slen : Ok(k)
  BY DEF Merges
<1>4. \A i \in 0 .. t : B(i) = IF i = t THEN 1 ELSE 0
  BY <1>2
<1>. HIDE DEF B, slen
<1>5. Ok(t)
  BY <1>0, <1>4
<1>6. ASSUME NEW k \in 0 .. slen, Ok(k)
      PROVE  k = t
  <2>0. slen \in Nat /\ k \in Nat /\ t <= slen
    BY <1>1 DEF slen
  <2>1. CASE k < t
    <3>1. k \in 0 .. t /\ k # t /\ k # slen
      BY <1>0, <2>0, <2>1
    <3>. QED
      BY <1>4, <1>6, <3>1
  <2>2. CASE k > t
    <3>1. t \in 0 .. k - 1 /\ t \in 0 .. t
      BY <1>0, <2>0, <2>2
    <3>. QED
      BY <1>4, <1>6, <3>1
  <2>. QED
    BY <1>0, <2>0, <2>1, <2>2
<1>7. t \in 0 .. slen
  BY <1>1 DEF slen
<1>. HIDE DEF Ok
<1>8. (CHOOSE k \in 0 .. slen : Ok(k)) = t
  BY <1>5, <1>6, <1>7
<1>. QED
  BY <1>1, <1>3, <1>8

(* The values of a run of merges over the c chunks of a stack.             *)
MergeRun(run, s, cv, k) ==
  run = [j \in 0 .. k |->
           IF j = 0 THEN cv
           ELSE ChainingValue(Parent(s.stack[s.stack_len - j], run[j - 1]))]

Merging(run, s, cv, k) ==
  /\ run = [j \in 0 .. k |-> run[j]]
  /\ run[0] = cv
  /\ \A j \in 1 .. k :
       run[j] = ChainingValue(Parent(s.stack[s.stack_len - j], run[j - 1]))

(* A function runs the merges just if it starts at cv and merges.          *)
LEMMA MergeRuns ==
  ASSUME NEW run, NEW s, NEW cv, NEW k \in Nat
  PROVE  MergeRun(run, s, cv, k) <=> Merging(run, s, cv, k)
<1>. DEFINE Body(j) == IF j = 0 THEN cv
                       ELSE ChainingValue(Parent(s.stack[s.stack_len - j], run[j - 1]))
<1>1. Body(0) = cv /\ 0 \in 0 .. k
  OBVIOUS
<1>2. \A j \in 1 .. k :
        /\ j \in 0 .. k
        /\ Body(j) = ChainingValue(Parent(s.stack[s.stack_len - j], run[j - 1]))
  OBVIOUS
<1>3. MergeRun(run, s, cv, k) <=> run = [j \in 0 .. k |-> Body(j)]
  BY DEF MergeRun
<1>4. \A j \in 0 .. k : j = 0 \/ j \in 1 .. k
  OBVIOUS
<1>. HIDE DEF Body
<1>5. ASSUME run = [j \in 0 .. k |-> Body(j)]
      PROVE  Merging(run, s, cv, k)
  <2>1. \A j \in 0 .. k : run[j] = Body(j)
    BY <1>5
  <2>2. run = [j \in 0 .. k |-> run[j]]
    BY <1>5
  <2>. QED
    BY <1>1, <1>2, <2>1, <2>2 DEF Merging
<1>6. ASSUME Merging(run, s, cv, k)
      PROVE  run = [j \in 0 .. k |-> Body(j)]
  <2>1. \A j \in 0 .. k : run[j] = Body(j)
    BY <1>1, <1>2, <1>4, <1>6 DEF Merging
  <2>2. run = [j \in 0 .. k |-> run[j]]
    BY <1>6 DEF Merging
  <2>. QED
    BY <2>1, <2>2
<1>. QED
  BY <1>3, <1>5, <1>6

(* After j merges the value is the subtree of the last 2^j chunks.         *)
LEMMA MergedSubtree ==
  ASSUME NEW n \in Nat, NEW c \in Nat, NEW t, Carries(c, t),
         NEW s, StackOf(s.stack, s.stack_len, n, c)
  PROVE  MergedValue(s, ChainingValue(ChunkOutput(n, c)), t)
           = ChainingValue(Subtree(n, Cut(c, t), PowerOfTwo[t]))
<1>. DEFINE cv == ChainingValue(ChunkOutput(n, c))
            V(j) == ChainingValue(Subtree(n, Cut(c, j), PowerOfTwo[j]))
            F == [j \in 0 .. t |-> V(j)]
<1>0. N \in Nat \ {0} /\ t \in 0 .. N - 1 /\ t \in Nat
  BY Constants DEF Carries
<1>1. s.stack_len = High(c, t + 1) + t /\ High(c, t + 1) \in Nat
  <2>1. High(c, 0) = Ones(c) /\ High(c, t + 1) \in Nat
    BY <1>0, HighSteps
  <2>2. 0 \in 0 .. t /\ t - 0 = t
    BY <1>0
  <2>. QED
    BY <2>1, <2>2 DEF Carries, StackOf
<1>2. V(0) = cv
  <2>1. Cut(c, 0) = c /\ PowerOfTwo[0] = 1
    BY ShiftedSteps, Doubling DEF Cut
  <2>2. Halved(n, c, 1)
    BY SubtreeLaw
  <2>. QED
    BY <2>1, <2>2 DEF Halved
<1>3. ASSUME NEW j \in 1 .. t
      PROVE  V(j) = ChainingValue(Parent(s.stack[s.stack_len - j], V(j - 1)))
  <2>. DEFINE i == j - 1
  <2>1. /\ i \in Nat /\ i + 1 = j /\ i \in 0 .. t - 1 /\ i \in 0 .. N - 1
        /\ j \in 0 .. t /\ i \in 0 .. t
    BY <1>0
  <2>. HIDE DEF i
  <2>2. Shifted(c, i) % 2 = 1
    BY <2>1 DEF Carries
  <2>3. High(c, i + 1) = s.stack_len - j
    <3>1. High(c, j) = High(c, t + 1) + (t - j)
      BY <2>1 DEF Carries
    <3>. QED
      BY <1>0, <1>1, <2>1, <3>1
  <2>4. s.stack[s.stack_len - j] = ChainingValue(Subtree(n, Cut(c, j), PowerOfTwo[i]))
    BY <2>1, <2>2, <2>3 DEF StackOf, Entry
  <2>5. /\ PowerOfTwo[i] \in Nat \ {0} /\ PowerOfTwo[j] = 2 * PowerOfTwo[i]
        /\ Cut(c, i) = Cut(c, j) + PowerOfTwo[i] /\ Cut(c, j) \in Nat
    <3>1. Cut(c, i) = Cut(c, i + 1) + PowerOfTwo[i]
      BY <2>1, <2>2, Cuts
    <3>2. Cut(c, j) \in Nat
      <4>1. j \in Nat
        BY <1>0
      <4>. HIDE DEF F, V
      <4>. QED
        BY <4>1, Cuts
    <3>3. PowerOfTwo[i] \in Nat \ {0} /\ PowerOfTwo[i + 1] = 2 * PowerOfTwo[i]
      BY <2>1, Doubling
    <3>. QED
      BY <2>1, <3>1, <3>2, <3>3
  <2>6. Subtree(n, Cut(c, j), PowerOfTwo[j]) =
          Parent(ChainingValue(Subtree(n, Cut(c, j), PowerOfTwo[i])),
                 ChainingValue(Subtree(n, Cut(c, j) + PowerOfTwo[i],
                                       PowerOfTwo[j] - PowerOfTwo[i])))
    <3>. DEFINE f == Cut(c, j)
                w == PowerOfTwo[j]
    <3>1. f \in Nat /\ w \in Nat /\ PowerOfTwo[i] < w /\ w <= 2 * PowerOfTwo[i]
      BY <2>5
    <3>. HIDE DEF f, w
    <3>2. Subtree(n, f, w) =
            Parent(ChainingValue(Subtree(n, f, PowerOfTwo[i])),
                   ChainingValue(Subtree(n, f + PowerOfTwo[i], w - PowerOfTwo[i])))
      BY <2>1, <3>1, SubtreeJoins
    <3>. QED
      BY <3>2 DEF f, w
  <2>7. PowerOfTwo[j] - PowerOfTwo[i] = PowerOfTwo[i]
    BY <2>5
  <2>8. V(j) = ChainingValue(Parent(s.stack[s.stack_len - j], V(i)))
    BY <2>4, <2>5, <2>6, <2>7
  <2>. QED
    BY <2>8 DEF i
<1>. HIDE DEF V
<1>4. Merging(F, s, cv, t)
  <2>1. \A j \in 1 .. t : j - 1 \in 0 .. t /\ j \in 0 .. t /\ 0 \in 0 .. t
    BY <1>0
  <2>2. F[0] = cv
    BY <1>0, <1>2
  <2>3. \A j \in 1 .. t : F[j] = ChainingValue(Parent(s.stack[s.stack_len - j], F[j - 1]))
    BY <1>3, <2>1
  <2>. QED
    BY <2>2, <2>3 DEF Merging
<1>5. MergeRun(F, s, cv, t)
  <2>. HIDE DEF F, cv
  <2>. QED
    BY <1>0, <1>4, MergeRuns
<1>. DEFINE R == CHOOSE run : MergeRun(run, s, cv, t)
<1>6. MergedValue(s, cv, t) = R[t]
  BY DEF MergedValue, MergeRun
<1>7. Merging(R, s, cv, t)
  <2>1. MergeRun(R, s, cv, t)
    BY <1>5
  <2>. HIDE DEF R, cv
  <2>. QED
    BY <1>0, <2>1, MergeRuns
<1>. HIDE DEF R
<1>8. R[t] = V(t)
  <2>. DEFINE T == {j \in Nat : j <= t => R[j] = V(j)}
  <2>1. 0 \in T
    BY <1>2, <1>7 DEF Merging
  <2>2. ASSUME NEW j \in T
        PROVE  j + 1 \in T
    <3>. SUFFICES ASSUME j + 1 <= t
                  PROVE  R[j + 1] = V(j + 1)
      OBVIOUS
    <3>. DEFINE i == j + 1
    <3>1. i \in 1 .. t /\ i - 1 = j /\ R[j] = V(j)
      BY <1>0
    <3>. HIDE DEF T, i, cv
    <3>2. V(i) = ChainingValue(Parent(s.stack[s.stack_len - i], V(i - 1)))
      BY <1>3, <3>1
    <3>3. R[i] = ChainingValue(Parent(s.stack[s.stack_len - i], R[i - 1]))
      BY <1>7, <3>1 DEF Merging
    <3>4. R[i] = V(i)
      BY <3>1, <3>2, <3>3
    <3>. QED
      BY <3>4 DEF i
  <2>3. T = Nat
    <3>1. T \in SUBSET Nat
      OBVIOUS
    <3>. HIDE DEF T
    <3>. QED
      BY <2>1, <2>2, <3>1, Induction
  <2>. QED
    BY <1>0, <2>3
<1>. QED
  BY <1>6, <1>8 DEF V

----------------------------------------------------------------------------
(* A stream at a block of a message.                                       *)

Fields == {"stack", "stack_len", "chunk_cv", "counter", "block", "block_len", "compressed"}

(* Its state c whole chunks and r blocks into n bytes.                     *)
At(s, n, c, r) ==
  /\ DOMAIN s = Fields
  /\ StackOf(s.stack, s.stack_len, n, c)
  /\ s.counter = Halves(c)
  /\ s.compressed = r
  /\ s.chunk_cv = Chain(KeyWords, n, c, 0, r)

(* It does not depend on what follows them.                                *)
LEMMA SamePlace ==
  ASSUME NEW n \in Nat, NEW e \in Nat, NEW c \in Nat, NEW r \in Nat, NEW s,
         c * ChunkLen + r * BlockLen <= n, c * ChunkLen + r * BlockLen <= e,
         At(s, n, c, r)
  PROVE  At(s, e, c, r)
<1>1. c * ChunkLen <= n /\ c * ChunkLen <= e
  <2>. DEFINE x == c * ChunkLen
              y == r * BlockLen
  <2>1. x \in Nat /\ y \in Nat /\ x + y <= n /\ x + y <= e
    BY Constants
  <2>. HIDE DEF x, y
  <2>2. x <= n /\ x <= e
    BY <2>1
  <2>. QED
    BY <2>2 DEF x
<1>2. StackOf(s.stack, s.stack_len, e, c)
  BY <1>1, SameStack DEF At
<1>3. Chain(KeyWords, n, c, 0, r) = Chain(KeyWords, e, c, 0, r)
  BY SameChain
<1>. QED
  BY <1>2, <1>3 DEF At

(* A finished chunk is carried into the stack.                             *)
LEMMA PushKeeps ==
  ASSUME NEW n \in Nat, NEW c \in Nat, c + 1 < PowerOfTwo[MaxStack],
         NEW s, DOMAIN s = Fields, StackOf(s.stack, s.stack_len, n, c),
         s.counter = Halves(c)
  PROVE  At(PushChunkCv(s, ChainingValue(ChunkOutput(n, c))), n, c + 1, 0)
<1>0. /\ N \in Nat \ {0} /\ MaxStack \in 0 .. N /\ MaxStack \in Nat \ {0} /\ c + 1 \in Nat
  BY Constants
<1>1. c + 1 < PowerOfTwo[N]
  BY <1>0, StackBits
<1>2. PICK t : Carries(c, t)
  BY <1>1, CarryExists
<1>3. t \in 0 .. N - 1 /\ t \in Nat
  BY <1>0, <1>2 DEF Carries
<1>. DEFINE cv == ChainingValue(ChunkOutput(n, c))
            V == ChainingValue(Subtree(n, Cut(c, t), PowerOfTwo[t]))
            q == High(c, t + 1)
            p == PushChunkCv(s, cv)
<1>4. /\ q \in Nat /\ s.stack_len = q + t /\ Ones(c + 1) = q + 1
  <2>1. High(c, 0) = Ones(c) /\ High(c, t + 1) \in Nat
    BY <1>0, <1>3, HighSteps
  <2>2. 0 \in 0 .. t /\ t - 0 = t
    BY <1>3
  <2>. QED
    BY <2>1, <2>2, <1>2 DEF Carries, StackOf
<1>5. q \in 0 .. MaxStack - 1
  <2>1. Ones(c + 1) <= MaxStack
    BY <1>0, HighBound
  <2>. HIDE DEF q
  <2>. QED
    BY <1>0, <1>4, <2>1
<1>6. CounterInc(s.counter) = Halves(c + 1)
  BY <1>1, CounterCounts
<1>7. Merges(Halves(c + 1), s.stack_len) = t
  BY <1>2, MergesOf DEF StackOf
<1>8. MergedValue(s, cv, t) = V
  BY <1>2, MergedSubtree
<1>9. s.stack_len - t = q /\ Clip(s.stack_len - t, 0, MaxStack - 1) = q
  <2>. HIDE DEF q
  <2>. QED
    BY <1>0, <1>3, <1>4, <1>5 DEF Clip
<1>10. p = [s EXCEPT !.stack[q] = V,
                     !.stack_len = @ - t + 1,
                     !.counter = Halves(c + 1),
                     !.chunk_cv = KeyWords,
                     !.compressed = 0]
  <2>. HIDE DEF q, V, cv
  <2>. QED
    BY <1>6, <1>7, <1>8, <1>9 DEF PushChunkCv
<1>. HIDE DEF p, V, q, cv
<1>11. /\ DOMAIN p = Fields
       /\ p.stack = [s.stack EXCEPT ![q] = V]
       /\ p.stack_len = s.stack_len - t + 1
       /\ p.counter = Halves(c + 1) /\ p.chunk_cv = KeyWords /\ p.compressed = 0
  BY <1>10 DEF Fields
<1>12. p.stack_len = Ones(c + 1)
  BY <1>4, <1>9, <1>11
<1>13. DOMAIN p.stack = 0 .. MaxStack - 1
  BY <1>11 DEF StackOf
<1>14. p.stack[q] = V /\ \A i : i # q => p.stack[i] = s.stack[i] \/ i \notin DOMAIN s.stack
  BY <1>5, <1>11 DEF StackOf
<1>15. ASSUME NEW b \in 0 .. N - 1, Shifted(c + 1, b) % 2 = 1
       PROVE  p.stack[High(c + 1, b + 1)] = Entry(n, c + 1, b)
  <2>0. b \in Nat /\ b + 1 \in Nat /\ b \in 0 .. N /\ b + 1 \in 0 .. N
    BY <1>0
  <2>1. ~(b < t)
    <3>1. b < t => b \in 0 .. t - 1
      BY <1>3, <2>0
    <3>2. b < t => Shifted(c + 1, b) % 2 = 0
      BY <1>2, <3>1 DEF Carries
    <3>. QED
      BY <1>15, <3>2
  <2>2. /\ High(c + 1, b + 1) = High(c, b + 1)
        /\ Cut(c + 1, b + 1) = Cut(c, b + 1)
    <3>1. b + 1 > t
      BY <1>3, <2>0, <2>1
    <3>. QED
      BY <1>2, <2>0, <3>1 DEF Carries
  <2>3. CASE b = t
    <3>1. Cut(c, t) = Cut(c, t + 1)
      BY <1>2, <1>3, Cuts DEF Carries
    <3>. QED
      BY <1>14, <2>2, <2>3, <3>1 DEF Entry, V, q
  <2>4. CASE b > t
    <3>1. Shifted(c, b) % 2 = 1
      BY <1>2, <1>15, <2>0, <2>4 DEF Carries
    <3>2. High(c, b) = High(c, b + 1) + 1 /\ High(c, b + 1) \in Nat /\ High(c, b) \in Nat
      BY <2>0, <3>1, HighSteps
    <3>3. High(c, b) <= q
      <4>1. t + 1 \in 0 .. N /\ t + 1 <= b
        BY <1>0, <1>3, <2>0, <2>4
      <4>. QED
        BY <2>0, <4>1, HighFalls DEF q
    <3>4. High(c, b + 1) # q /\ High(c, b + 1) \in DOMAIN s.stack
      BY <1>0, <1>4, <1>5, <3>2, <3>3 DEF StackOf
    <3>5. s.stack[High(c, b + 1)] = Entry(n, c, b)
      BY <3>1 DEF StackOf
    <3>. QED
      BY <1>14, <2>2, <3>4, <3>5 DEF Entry
  <2>. QED
    BY <1>3, <2>0, <2>1, <2>3, <2>4
<1>16. StackOf(p.stack, p.stack_len, n, c + 1)
  BY <1>12, <1>13, <1>15 DEF StackOf
<1>17. Extends(KeyWords, n, c + 1, 0, 0)
  BY ChainLaw
<1>18. p.chunk_cv = Chain(KeyWords, n, c + 1, 0, 0)
  BY <1>11, <1>17 DEF Extends
<1>. QED
  BY <1>11, <1>16, <1>18 DEF At, p, cv

(* Where the next block leaves a stream.                                   *)
AtNext(s, n, c, r) ==
  IF r = BlocksPerChunk - 1 THEN At(s, n, c + 1, 0) ELSE At(s, n, c, r + 1)

(* A block of the message takes the stream to the next place.              *)
LEMMA BlockStep ==
  ASSUME NEW n \in Nat, NEW c \in Nat, NEW r \in 0 .. BlocksPerChunk - 1,
         r = BlocksPerChunk - 1 => c + 1 < PowerOfTwo[MaxStack] /\ (c + 1) * ChunkLen <= n,
         NEW s, At(s, n, c, r)
  PROVE  AtNext(AbsorbBlock(s, MessageBlock(n, c * BlocksPerChunk + r)), n, c, r)
<1>0. BlocksPerChunk \in Nat \ {0} /\ r \in Nat
  BY Constants
<1>. DEFINE block == MessageBlock(n, c * BlocksPerChunk + r)
            last  == r = BlocksPerChunk - 1
            flags == (IF r = 0 THEN {"CHUNK_START"} ELSE {})
                       \cup (IF last THEN {"CHUNK_END"} ELSE {})
            cv == ChainingValue(Node(Chain(KeyWords, n, c, 0, r), block, Halves(c), BlockLen,
                                     flags))
            a == [s EXCEPT !.chunk_cv = cv, !.compressed = r + 1]
<1>1. AbsorbBlock(s, block) = IF last THEN PushChunkCv(a, cv) ELSE a
  <2>. HIDE DEF block
  <2>. QED
    BY DEF AbsorbBlock, At
<1>. HIDE DEF cv
<1>2. /\ DOMAIN a = Fields /\ a.stack = s.stack /\ a.stack_len = s.stack_len
      /\ a.counter = s.counter /\ a.compressed = r + 1 /\ a.chunk_cv = cv
  BY DEF At, Fields
<1>. HIDE DEF a
<1>3. CASE last
  <2>1. ChunkOutput(n, c) = ChunkNode(n, c, BlocksPerChunk - 1, BlockLen)
    BY <1>3, FullChunk
  <2>2. cv = ChainingValue(ChunkOutput(n, c))
    <3>1. flags = {"CHUNK_END"} \cup (IF r = 0 THEN {"CHUNK_START"} ELSE {})
      BY <1>3
    <3>2. cv = ChainingValue(Node(Chain(KeyWords, n, c, 0, r), block, Halves(c), BlockLen, flags))
      BY DEF cv
    <3>. HIDE DEF flags
    <3>. QED
      BY <1>3, <2>1, <3>1, <3>2 DEF ChunkNode
  <2>3. At(PushChunkCv(a, ChainingValue(ChunkOutput(n, c))), n, c + 1, 0)
    <3>1. StackOf(a.stack, a.stack_len, n, c) /\ a.counter = Halves(c)
      BY <1>2 DEF At
    <3>. QED
      BY <1>2, <1>3, <3>1, PushKeeps
  <2>. QED
    BY <1>1, <1>3, <2>2, <2>3 DEF AtNext
<1>4. CASE ~last
  <2>1. Extends(KeyWords, n, c, 0, r) /\ 0 + r = r
    BY <1>0, ChainLaw
  <2>2. cv = Link(Chain(KeyWords, n, c, 0, r), n, c, r)
    <3>1. flags = IF r = 0 THEN {"CHUNK_START"} ELSE {}
      BY <1>4
    <3>. QED
      BY <3>1 DEF cv, Link, ChunkBlock
  <2>3. cv = Chain(KeyWords, n, c, 0, r + 1)
    BY <2>1, <2>2 DEF Extends
  <2>4. At(a, n, c, r + 1)
    BY <1>2, <2>3 DEF At
  <2>. QED
    BY <1>1, <1>4, <2>4 DEF AtNext
<1>. QED
  BY <1>3, <1>4

(* Block m of a message, in its chunk.                                     *)
Stands(s, n, m) == At(s, n, m \div BlocksPerChunk, m % BlocksPerChunk)

(* A block number is a chunk and a block of it.                            *)
LEMMA PlaceOf ==
  ASSUME NEW m \in Nat
  PROVE  /\ m \div BlocksPerChunk \in Nat /\ m % BlocksPerChunk \in 0 .. BlocksPerChunk - 1
         /\ m = (m \div BlocksPerChunk) * BlocksPerChunk + (m % BlocksPerChunk)
         /\ m * BlockLen = (m \div BlocksPerChunk) * ChunkLen + (m % BlocksPerChunk) * BlockLen
         /\ IF m % BlocksPerChunk = BlocksPerChunk - 1
              THEN /\ (m + 1) \div BlocksPerChunk = (m \div BlocksPerChunk) + 1
                   /\ (m + 1) % BlocksPerChunk = 0
                   /\ (m + 1) * BlockLen = ((m \div BlocksPerChunk) + 1) * ChunkLen
              ELSE /\ (m + 1) \div BlocksPerChunk = m \div BlocksPerChunk
                   /\ (m + 1) % BlocksPerChunk = (m % BlocksPerChunk) + 1
<1>0. BlocksPerChunk \in Nat \ {0} /\ BlockLen \in Nat \ {0} /\ ChunkLen \in Nat \ {0}
  BY Constants
<1>. DEFINE c == m \div BlocksPerChunk
            r == m % BlocksPerChunk
<1>1. c \in Nat /\ r \in 0 .. BlocksPerChunk - 1 /\ m = c * BlocksPerChunk + r
  BY <1>0, DivModNat
<1>. HIDE DEF c, r
<1>2. m * BlockLen = c * ChunkLen + r * BlockLen
  <2>1. r \in Nat
    BY <1>0, <1>1
  <2>2. (c * BlocksPerChunk + r) * BlockLen = c * ChunkLen + r * BlockLen
    BY <1>1, <2>1, BlockEnds
  <2>. QED
    BY <1>1, <2>2
<1>3. CASE r = BlocksPerChunk - 1
  <2>. DEFINE d == c + 1
  <2>1. d \in Int /\ m + 1 = d * BlocksPerChunk + 0 /\ 0 \in 0 .. BlocksPerChunk - 1
    BY <1>0, <1>1, <1>3
  <2>2. (m + 1) * BlockLen = d * ChunkLen
    <3>1. d \in Nat /\ 0 \in Nat
      BY <1>1
    <3>. HIDE DEF d
    <3>2. (d * BlocksPerChunk + 0) * BlockLen = d * ChunkLen + 0 * BlockLen
      BY <3>1, BlockEnds
    <3>3. d * ChunkLen + 0 * BlockLen = d * ChunkLen
      BY <1>0, <3>1
    <3>. QED
      BY <2>1, <3>2, <3>3
  <2>. HIDE DEF d
  <2>3. (m + 1) \div BlocksPerChunk = d /\ (m + 1) % BlocksPerChunk = 0
    BY <1>0, <2>1, DivModUnique
  <2>. QED
    BY <1>1, <1>2, <1>3, <2>2, <2>3 DEF c, r, d
<1>4. CASE r # BlocksPerChunk - 1
  <2>. DEFINE d == r + 1
  <2>1. d \in 0 .. BlocksPerChunk - 1 /\ m + 1 = c * BlocksPerChunk + d
    BY <1>0, <1>1, <1>4
  <2>. HIDE DEF d
  <2>2. (m + 1) \div BlocksPerChunk = c /\ (m + 1) % BlocksPerChunk = d
    BY <1>0, <1>1, <2>1, DivModUnique
  <2>. QED
    BY <1>1, <1>2, <1>4, <2>2 DEF c, r, d
<1>. QED
  BY <1>3, <1>4

(* The chunk of a block that is not held back has its place in the stack.  *)
LEMMA ChunkFits ==
  ASSUME NEW n \in 0 .. MaxBytes, NEW m \in 0 .. Done(n)
  PROVE  /\ m * BlockLen <= n
         /\ m \div BlocksPerChunk < PowerOfTwo[MaxStack]
<1>0. /\ BlocksPerChunk \in Nat \ {0} /\ BlockLen \in Nat \ {0} /\ ChunkLen \in Nat \ {0}
      /\ n \in Nat /\ Done(n) \in Nat /\ m \in Nat /\ MaxBytes \in Nat
      /\ MaxStack \in Nat
  <2>1. n \in Nat
    BY Constants
  <2>2. Done(n) \in Nat
    BY <2>1, DoneBounds
  <2>. QED
    BY <2>1, <2>2, Constants
<1>. DEFINE c == m \div BlocksPerChunk
            r == m % BlocksPerChunk
            P == PowerOfTwo[MaxStack]
<1>1. c \in Nat /\ r \in Nat /\ m * BlockLen = c * ChunkLen + r * BlockLen
  <2>1. c \in Nat /\ r \in 0 .. BlocksPerChunk - 1 /\ m * BlockLen = c * ChunkLen + r * BlockLen
    <3>1. m \in Nat
      BY <1>0
    <3>. HIDE DEF P
    <3>. QED
      BY <3>1, PlaceOf
  <2>. HIDE DEF c, r, P
  <2>. QED
    BY <1>0, <2>1
<1>2. P \in Nat \ {0}
  BY <1>0, Doubling
<1>. HIDE DEF c, r, P
<1>3. m * BlockLen <= Done(n) * BlockLen /\ m * BlockLen \in Nat
  <2>. DEFINE d == Done(n) - m
  <2>1. d \in Nat /\ Done(n) = m + d
    BY <1>0
  <2>. HIDE DEF d
  <2>2. /\ (m + d) * BlockLen = m * BlockLen + d * BlockLen
        /\ m * BlockLen \in Nat /\ d * BlockLen \in Nat
    BY <1>0, <2>1
  <2>3. Done(n) * BlockLen = m * BlockLen + d * BlockLen
    BY <2>1, <2>2
  <2>. QED
    BY <2>2, <2>3
<1>4. Done(n) * BlockLen <= n /\ (n > 0 => Done(n) * BlockLen < n) /\ Done(n) * BlockLen \in Nat
  <2>. DEFINE z == Done(n) * BlockLen
  <2>1. z \in Nat /\ z <= n /\ (n > 0 => n - z > 0)
    BY <1>0, DoneBounds
  <2>. HIDE DEF z
  <2>2. z <= n /\ (n > 0 => z < n) /\ z \in Nat
    BY <1>0, <2>1
  <2>. QED
    BY <2>2 DEF z
<1>5. m * BlockLen <= n
  <2>. DEFINE y == m * BlockLen
              z == Done(n) * BlockLen
  <2>1. y \in Nat /\ z \in Nat /\ y <= z /\ z <= n
    BY <1>3, <1>4
  <2>. HIDE DEF y, z
  <2>2. y <= n
    BY <1>0, <2>1
  <2>. QED
    BY <2>2 DEF y
<1>6. ASSUME c >= P
      PROVE  FALSE
  <2>. DEFINE d == c - P
              w == ChunkLen * P
              x == c * ChunkLen
              y == r * BlockLen
              z == Done(n) * BlockLen
              v == d * ChunkLen
  <2>1. d \in Nat /\ c = P + d
    BY <1>1, <1>2, <1>6
  <2>. HIDE DEF d
  <2>2. x = w + v /\ w \in Nat /\ v \in Nat
    <3>1. (P + d) * ChunkLen = ChunkLen * P + d * ChunkLen
      BY <1>0, <1>2, <2>1
    <3>. QED
      BY <1>0, <1>2, <2>1, <3>1
  <2>3. n <= w
    <3>1. MaxBytes <= w
      BY StreamAssumption DEF P
    <3>. HIDE DEF w
    <3>. QED
      BY <1>0, <2>2, <3>1
  <2>4. x + y <= z /\ z <= n /\ (n > 0 => z < n) /\ z \in Nat /\ y \in Nat /\ x \in Nat
    BY <1>0, <1>1, <1>3, <1>4
  <2>5. w > 0
    BY <1>0, <1>2
  <2>. HIDE DEF w, x, y, z, v
  <2>. QED
    BY <1>0, <2>2, <2>3, <2>4, <2>5
<1>. QED
  BY <1>1, <1>2, <1>5, <1>6 DEF c, P

(* A stream one block on.                                                  *)
LEMMA StandsNext ==
  ASSUME NEW n \in 0 .. MaxBytes, NEW m \in Nat, m + 1 <= Done(n), NEW s, Stands(s, n, m)
  PROVE  Stands(AbsorbBlock(s, MessageBlock(n, m)), n, m + 1)
<1>. DEFINE c == m \div BlocksPerChunk
            r == m % BlocksPerChunk
<1>0. n \in Nat /\ m + 1 \in 0 .. Done(n)
  <2>1. n \in Nat
    BY Constants
  <2>2. Done(n) \in Nat
    BY <2>1, DoneBounds
  <2>. QED
    BY <2>1, <2>2
<1>1. /\ c \in Nat /\ r \in 0 .. BlocksPerChunk - 1 /\ m = c * BlocksPerChunk + r
      /\ IF r = BlocksPerChunk - 1
           THEN /\ (m + 1) \div BlocksPerChunk = c + 1 /\ (m + 1) % BlocksPerChunk = 0
                /\ (m + 1) * BlockLen = (c + 1) * ChunkLen
           ELSE /\ (m + 1) \div BlocksPerChunk = c /\ (m + 1) % BlocksPerChunk = r + 1
  BY PlaceOf
<1>2. /\ (m + 1) * BlockLen <= n
      /\ (m + 1) \div BlocksPerChunk < PowerOfTwo[MaxStack]
  BY <1>0, ChunkFits
<1>3. At(s, n, c, r)
  BY DEF Stands
<1>. HIDE DEF c, r
<1>4. AtNext(AbsorbBlock(s, MessageBlock(n, c * BlocksPerChunk + r)), n, c, r)
  <2>1. r = BlocksPerChunk - 1 => c + 1 < PowerOfTwo[MaxStack] /\ (c + 1) * ChunkLen <= n
    BY <1>1, <1>2
  <2>. QED
    BY <1>0, <1>1, <1>3, <2>1, BlockStep
<1>5. AtNext(AbsorbBlock(s, MessageBlock(n, m)), n, c, r)
  BY <1>1, <1>4
<1>. QED
  BY <1>1, <1>5 DEF AtNext, Stands

(* It does not depend on what follows.                                     *)
LEMMA StandsSame ==
  ASSUME NEW n \in Nat, NEW e \in Nat, NEW m \in Nat, m * BlockLen <= n, m * BlockLen <= e,
         NEW s, Stands(s, n, m)
  PROVE  Stands(s, e, m)
<1>. DEFINE c == m \div BlocksPerChunk
            r == m % BlocksPerChunk
<1>0. BlocksPerChunk \in Nat \ {0}
  BY Constants
<1>1. c \in Nat /\ r \in Nat /\ m * BlockLen = c * ChunkLen + r * BlockLen
  BY <1>0, PlaceOf
<1>2. At(s, n, c, r)
  BY DEF Stands
<1>. HIDE DEF c, r
<1>3. c * ChunkLen + r * BlockLen <= n /\ c * ChunkLen + r * BlockLen <= e
  BY <1>1
<1>4. At(s, e, c, r)
  BY <1>1, <1>2, <1>3, SamePlace
<1>. QED
  BY <1>4 DEF Stands, c, r

----------------------------------------------------------------------------
(* An absorb.                                                              *)

(* A stream that stands where one pass over the bytes absorbed would.      *)
Position ==
  /\ absorbed \in 0 .. MaxBytes
  /\ Stands(stream, absorbed, Done(absorbed))
  /\ stream.block_len = absorbed - Done(absorbed) * BlockLen
  /\ stream.block = MessageBlock(absorbed, Done(absorbed))

(* How far an absorb takes it.                                             *)
LEMMA AbsorbBlocks ==
  ASSUME Position, NEW length \in Nat \ {0}
  PROVE  /\ LiveBlocks(length) \in 0 .. MaxBlocks(length) /\ MaxBlocks(length) \in Nat
         /\ LiveBlocks(length) \in Nat
         /\ Done(absorbed + length) = Done(absorbed) + LiveBlocks(length)
         /\ LiveBlocks(length) * BlockLen < stream.block_len + length
         /\ stream.block_len + length - LiveBlocks(length) * BlockLen =
              (absorbed + length) - Done(absorbed + length) * BlockLen
<1>0. /\ BlockLen \in Nat \ {0} /\ MaxBytes \in Nat /\ absorbed \in Nat
      /\ stream.block_len = absorbed - Done(absorbed) * BlockLen
  <2>1. BlockLen \in Nat \ {0} /\ MaxBytes \in Nat
    BY Constants
  <2>. QED
    BY <2>1 DEF Position
<1>1. /\ Done(absorbed) \in Nat /\ Done(absorbed) * BlockLen \in Nat
      /\ stream.block_len \in 0 .. BlockLen
      /\ absorbed = 0 => Done(absorbed) = 0
  BY <1>0, DoneBounds
<1>. DEFINE d == Done(absorbed)
            p == stream.block_len
            x == d * BlockLen
            k == (p + length - 1) \div BlockLen
            t == (p + length - 1) % BlockLen
            y == k * BlockLen
<1>2. p + length - 1 \in Nat
  <2>. HIDE DEF p
  <2>. QED
    BY <1>1 DEF p
<1>3. k \in Nat /\ t \in 0 .. BlockLen - 1 /\ p + length - 1 = y + t
  <2>. DEFINE z == p + length - 1
  <2>1. z \in Nat
    BY <1>2
  <2>. HIDE DEF z
  <2>2. /\ z \div BlockLen \in Nat /\ z % BlockLen \in 0 .. BlockLen - 1
        /\ z = (z \div BlockLen) * BlockLen + (z % BlockLen)
    BY <1>0, <2>1, DivModNat
  <2>. QED
    BY <2>2 DEF z
<1>4. y \in Nat /\ x \in Nat /\ d \in Nat /\ p \in 0 .. BlockLen /\ absorbed = x + p
  <2>1. y \in Nat
    <3>. HIDE DEF k
    <3>. QED
      BY <1>0, <1>3
  <2>2. absorbed = x + p
    <3>1. x \in Nat /\ p = absorbed - x
      BY <1>0, <1>1
    <3>. HIDE DEF x, p
    <3>. QED
      BY <1>0, <3>1
  <2>. QED
    BY <1>1, <2>1, <2>2
<1>. HIDE DEF t, k
<1>5. Done(absorbed + length) = d + k
  <2>. DEFINE q == d + k
              n == absorbed + length
  <2>1. q \in Int /\ q * BlockLen = x + y
    BY <1>0, <1>3, <1>4
  <2>2. n \in Nat /\ n # 0 /\ n - 1 = q * BlockLen + t
    <3>1. n \in Nat /\ n # 0
      BY <1>0
    <3>. HIDE DEF q, x, y, p
    <3>2. n - 1 = (x + y) + t
      BY <1>0, <1>3, <1>4
    <3>. QED
      BY <2>1, <3>1, <3>2
  <2>3. (n - 1) \div BlockLen = q
    <3>. HIDE DEF q, n
    <3>1. (q * BlockLen + t) \div BlockLen = q
      BY <1>0, <1>3, <2>1, DivModUnique
    <3>. QED
      BY <2>2, <3>1
  <2>4. Done(n) = q
    <3>. HIDE DEF q, n
    <3>. QED
      BY <2>2, <2>3 DEF Done
  <2>. QED
    BY <2>4
<1>6. LiveBlocks(length) = k
  BY DEF LiveBlocks, k
<1>7. MaxBlocks(length) \in Nat /\ k <= MaxBlocks(length)
  <2>. DEFINE a == p + length - 1
              b == BlockLen + length - 1
  <2>1. a \in Nat /\ b \in Nat /\ a <= b
    <3>. HIDE DEF p
    <3>. QED
      BY <1>0, <1>2, <1>4
  <2>2. k = a \div BlockLen /\ MaxBlocks(length) = b \div BlockLen
    BY DEF k, MaxBlocks
  <2>. HIDE DEF a, b
  <2>3. b \div BlockLen \in Nat
    BY <1>0, <2>1, DivModNat
  <2>4. a \div BlockLen <= b \div BlockLen
    BY <1>0, <2>1, DivGrows
  <2>. QED
    BY <2>2, <2>3, <2>4
<1>8. k \in 0 .. MaxBlocks(length)
  BY <1>3, <1>7
<1>9. y < p + length
  <2>. HIDE DEF y, p
  <2>. QED
    BY <1>0, <1>3, <1>4
<1>10. p + length - y = (absorbed + length) - (d + k) * BlockLen
  <2>1. (d + k) * BlockLen = x + y
    BY <1>0, <1>3, <1>4
  <2>. HIDE DEF x, y, p
  <2>. QED
    BY <1>0, <1>4, <2>1
<1>. QED
  BY <1>3, <1>5, <1>6, <1>7, <1>8, <1>9, <1>10

(* A byte of its buffer.                                                   *)
LEMMA WorkByte ==
  ASSUME Position, NEW length \in Nat \ {0}, NEW i \in 0 .. LiveBlocks(length),
         NEW j \in 0 .. BlockLen - 1
  PROVE  /\ Work(length)[i * BlockLen + j] =
              IF i * BlockLen + j < stream.block_len + length
                THEN Msg(Done(absorbed) * BlockLen + (i * BlockLen + j)) ELSE Zero
         /\ (Done(absorbed) + i) * BlockLen + j = Done(absorbed) * BlockLen + (i * BlockLen + j)
         /\ i * BlockLen + j < stream.block_len + length <=>
              (Done(absorbed) + i) * BlockLen + j < absorbed + length
<1>0. /\ BlockLen \in Nat \ {0} /\ MaxBytes \in Nat /\ absorbed \in Nat
      /\ stream.block_len = absorbed - Done(absorbed) * BlockLen
      /\ stream.block = MessageBlock(absorbed, Done(absorbed))
  <2>1. BlockLen \in Nat \ {0} /\ MaxBytes \in Nat
    BY Constants
  <2>. QED
    BY <2>1 DEF Position
<1>1. /\ Done(absorbed) \in Nat /\ Done(absorbed) * BlockLen \in Nat
      /\ stream.block_len \in 0 .. BlockLen
  BY <1>0, DoneBounds
<1>2. LiveBlocks(length) \in Nat /\ LiveBlocks(length) * BlockLen < stream.block_len + length
  BY AbsorbBlocks
<1>. DEFINE d == Done(absorbed)
            x == d * BlockLen
            p == stream.block_len
            v == i * BlockLen
            q == v + j
            l == LiveBlocks(length)
            w == l * BlockLen
<1>3. i \in Nat /\ v \in Nat /\ v <= w /\ w \in Nat
  <2>1. i \in Nat /\ l \in Nat
    BY <1>2
  <2>. DEFINE g == l - i
  <2>2. g \in Nat /\ l = i + g
    BY <2>1
  <2>. HIDE DEF g, l
  <2>3. /\ (i + g) * BlockLen = i * BlockLen + g * BlockLen
        /\ i * BlockLen \in Nat /\ g * BlockLen \in Nat
    BY <1>0, <2>1, <2>2
  <2>4. l * BlockLen = i * BlockLen + g * BlockLen
    BY <2>2, <2>3
  <2>. QED
    BY <2>1, <2>3, <2>4
<1>4. /\ x \in Nat /\ p \in 0 .. BlockLen /\ absorbed = x + p
  <2>1. x \in Nat /\ p = absorbed - x
    BY <1>0, <1>1
  <2>. HIDE DEF x, p
  <2>2. absorbed = x + p
    BY <1>0, <2>1
  <2>. QED
    BY <1>1, <2>1, <2>2 DEF p
<1>5. (d + i) * BlockLen + j = x + q
  <2>1. (d + i) * BlockLen = x + v
    BY <1>0, <1>1, <1>3
  <2>. HIDE DEF x, v
  <2>. QED
    BY <1>3, <1>4, <2>1
<1>6. w < p + length
  BY <1>2
<1>. HIDE DEF v, w, l
<1>7. q \in 0 .. 2 * BlockLen + length - 1
  <2>. HIDE DEF p, x
  <2>. QED
    BY <1>0, <1>3, <1>4, <1>6
<1>8. Work(length)[q] = IF q \in p .. p + length - 1 THEN Msg(absorbed + (q - p))
                        ELSE IF q < BlockLen THEN stream.block[q] ELSE Zero
  <2>. HIDE DEF q
  <2>. QED
    BY <1>7 DEF Work
<1>9. q < BlockLen => stream.block[q] = IF x + q < absorbed THEN Msg(x + q) ELSE Zero
  <2>1. q < BlockLen => q \in 0 .. BlockLen - 1
    <3>. HIDE DEF q
    <3>. QED
      BY <1>0, <1>7
  <2>. HIDE DEF q
  <2>. QED
    BY <1>0, <2>1 DEF MessageBlock
<1>10. q < p + length <=> x + q < absorbed + length
  <2>. HIDE DEF x, p, q
  <2>. QED
    BY <1>0, <1>4, <1>7
<1>11. Work(length)[q] = IF q < p + length THEN Msg(x + q) ELSE Zero
  <2>1. q \in Nat
    BY <1>7
  <2>. HIDE DEF q
  <2>2. CASE q >= p + length
    <3>1. ~(q \in p .. p + length - 1) /\ ~(q < p + length)
      <4>. HIDE DEF p, x
      <4>. QED
        BY <1>4, <2>1, <2>2
    <3>2. ~(x + q < absorbed)
      <4>. HIDE DEF p, x
      <4>. QED
        BY <1>0, <1>4, <2>1, <2>2
    <3>. HIDE DEF p, x
    <3>. QED
      BY <1>8, <1>9, <3>1, <3>2
  <2>3. CASE q < p
    <3>1. ~(q \in p .. p + length - 1) /\ q < BlockLen /\ x + q < absorbed /\ q < p + length
      <4>. HIDE DEF p, x
      <4>. QED
        BY <1>0, <1>4, <2>1, <2>3
    <3>. HIDE DEF p, x
    <3>. QED
      BY <1>8, <1>9, <3>1
  <2>4. CASE p <= q /\ q < p + length
    <3>1. q \in p .. p + length - 1 /\ absorbed + (q - p) = x + q
      <4>. HIDE DEF p, x
      <4>. QED
        BY <1>0, <1>4, <2>1, <2>4
    <3>. HIDE DEF p, x
    <3>. QED
      BY <1>8, <2>4, <3>1
  <2>. HIDE DEF p
  <2>. QED
    BY <1>4, <2>1, <2>2, <2>3, <2>4
<1>12. q < p + length <=> (d + i) * BlockLen + j < absorbed + length
  BY <1>5, <1>10
<1>. QED
  BY <1>5, <1>11, <1>12 DEF v

(* Its blocks are the message's.                                           *)
LEMMA WorkBlocks ==
  ASSUME Position, NEW length \in Nat \ {0}, NEW i \in 0 .. LiveBlocks(length)
  PROVE  WorkBlock(length, i) = MessageBlock(absorbed + length, Done(absorbed) + i)
<1>1. ASSUME NEW j \in 0 .. BlockLen - 1
      PROVE  Work(length)[i * BlockLen + j] =
               IF (Done(absorbed) + i) * BlockLen + j < absorbed + length
                 THEN Msg((Done(absorbed) + i) * BlockLen + j) ELSE Zero
  <2>1. /\ Work(length)[i * BlockLen + j] =
              IF i * BlockLen + j < stream.block_len + length
                THEN Msg(Done(absorbed) * BlockLen + (i * BlockLen + j)) ELSE Zero
        /\ (Done(absorbed) + i) * BlockLen + j = Done(absorbed) * BlockLen + (i * BlockLen + j)
        /\ i * BlockLen + j < stream.block_len + length <=>
              (Done(absorbed) + i) * BlockLen + j < absorbed + length
    BY WorkByte
  <2>. QED
    BY <2>1
<1>. DEFINE m == (Done(absorbed) + i) * BlockLen
            v == i * BlockLen
<1>2. \A j \in 0 .. BlockLen - 1 :
        Work(length)[v + j] = IF m + j < absorbed + length THEN Msg(m + j) ELSE Zero
  BY <1>1
<1>3. /\ WorkBlock(length, i) = [j \in 0 .. BlockLen - 1 |-> Work(length)[v + j]]
      /\ MessageBlock(absorbed + length, Done(absorbed) + i) =
           [j \in 0 .. BlockLen - 1 |-> IF m + j < absorbed + length THEN Msg(m + j) ELSE Zero]
  BY DEF WorkBlock, MessageBlock
<1>. HIDE DEF m, v
<1>. QED
  BY <1>2, <1>3

(* What is left of it is the message's next block.                         *)
LEMMA WorkRest ==
  ASSUME Position, NEW length \in Nat \ {0}
  PROVE  [j \in 0 .. BlockLen - 1 |->
            IF j < stream.block_len + length - LiveBlocks(length) * BlockLen
              THEN WorkBlock(length, LiveBlocks(length))[j] ELSE Zero]
           = MessageBlock(absorbed + length, Done(absorbed + length))
<1>. DEFINE l == LiveBlocks(length)
            n == absorbed + length
            d == Done(n)
            x == d * BlockLen
            rest == stream.block_len + length - l * BlockLen
<1>0. BlockLen \in Nat \ {0} /\ absorbed \in Nat /\ n \in Nat
  <2>1. BlockLen \in Nat \ {0} /\ MaxBytes \in Nat
    BY Constants
  <2>. QED
    BY <2>1 DEF Position
<1>1. l \in 0 .. l /\ d = Done(absorbed) + l /\ rest = n - x
  BY AbsorbBlocks
<1>2. WorkBlock(length, l) = MessageBlock(n, d)
  <2>. HIDE DEF l, d, n
  <2>1. WorkBlock(length, l) = MessageBlock(absorbed + length, Done(absorbed) + l)
    BY <1>1, WorkBlocks DEF l
  <2>. QED
    BY <1>1, <2>1 DEF n
<1>3. x \in Nat
  <2>. HIDE DEF n
  <2>. QED
    BY <1>0, DoneBounds
<1>4. \A j \in 0 .. BlockLen - 1 :
        MessageBlock(n, d)[j] = IF x + j < n THEN Msg(x + j) ELSE Zero
  <2>. HIDE DEF n, d
  <2>. QED
    BY DEF MessageBlock
<1>5. \A j \in 0 .. BlockLen - 1 : j < rest <=> x + j < n
  <2>. HIDE DEF rest, x, n
  <2>. QED
    BY <1>0, <1>1, <1>3
<1>6. MessageBlock(n, d) = [j \in 0 .. BlockLen - 1 |-> MessageBlock(n, d)[j]]
  <2>. HIDE DEF n, d
  <2>. QED
    BY DEF MessageBlock
<1>7. \A j \in 0 .. BlockLen - 1 :
         (IF j < rest THEN MessageBlock(n, d)[j] ELSE Zero) = MessageBlock(n, d)[j]
  <2>. HIDE DEF n, d, x, rest
  <2>. QED
    BY <1>4, <1>5
<1>. HIDE DEF rest, x
<1>8. [j \in 0 .. BlockLen - 1 |-> IF j < rest THEN WorkBlock(length, l)[j] ELSE Zero]
        = MessageBlock(n, d)
  <2>. HIDE DEF n, d, l
  <2>. QED
    BY <1>2, <1>6, <1>7
<1>. QED
  BY <1>8 DEF rest

(* One step of the loop, live or skipped.                                  *)
LoopStep(s, length, i) ==
  IF i < LiveBlocks(length) THEN AbsorbBlock(s, WorkBlock(length, i)) ELSE s

LoopRun(step, length, count) ==
  step = [i \in 0 .. count |->
            IF i = 0 THEN stream
            ELSE IF i - 1 < LiveBlocks(length)
                   THEN AbsorbBlock(step[i - 1], WorkBlock(length, i - 1))
                   ELSE step[i - 1]]

Looping(step, length, count) ==
  /\ step = [i \in 0 .. count |-> step[i]]
  /\ step[0] = stream
  /\ \A i \in 1 .. count : step[i] = LoopStep(step[i - 1], length, i - 1)

(* A function runs the loop just if it starts at the stream and steps.     *)
LEMMA LoopRuns ==
  ASSUME NEW step, NEW length, NEW count \in Nat
  PROVE  LoopRun(step, length, count) <=> Looping(step, length, count)
<1>. DEFINE Body(i) == IF i = 0 THEN stream
                       ELSE IF i - 1 < LiveBlocks(length)
                              THEN AbsorbBlock(step[i - 1], WorkBlock(length, i - 1))
                              ELSE step[i - 1]
<1>1. Body(0) = stream /\ 0 \in 0 .. count
  OBVIOUS
<1>2. \A i \in 1 .. count : i \in 0 .. count /\ Body(i) = LoopStep(step[i - 1], length, i - 1)
  BY DEF LoopStep
<1>3. LoopRun(step, length, count) <=> step = [i \in 0 .. count |-> Body(i)]
  BY DEF LoopRun
<1>4. \A i \in 0 .. count : i = 0 \/ i \in 1 .. count
  OBVIOUS
<1>. HIDE DEF Body
<1>5. ASSUME step = [i \in 0 .. count |-> Body(i)]
      PROVE  Looping(step, length, count)
  <2>1. \A i \in 0 .. count : step[i] = Body(i)
    BY <1>5
  <2>2. step = [i \in 0 .. count |-> step[i]]
    BY <1>5
  <2>. QED
    BY <1>1, <1>2, <2>1, <2>2 DEF Looping
<1>6. ASSUME Looping(step, length, count)
      PROVE  step = [i \in 0 .. count |-> Body(i)]
  <2>1. \A i \in 0 .. count : step[i] = Body(i)
    BY <1>1, <1>2, <1>4, <1>6 DEF Looping
  <2>2. step = [i \in 0 .. count |-> step[i]]
    BY <1>6 DEF Looping
  <2>. QED
    BY <2>1, <2>2
<1>. QED
  BY <1>3, <1>5, <1>6

(* The loop has a run to any bound.                                        *)
LEMMA LoopExists ==
  ASSUME NEW length, NEW count \in Nat
  PROVE  \E step : LoopRun(step, length, count)
<1>. DEFINE T == {k \in Nat : \E step : Looping(step, length, k)}
<1>1. 0 \in T
  <2>. DEFINE g == [i \in 0 .. 0 |-> stream]
  <2>1. Looping(g, length, 0)
    BY DEF Looping
  <2>. QED
    BY <2>1
<1>2. ASSUME NEW k \in T
      PROVE  k + 1 \in T
  <2>1. k \in Nat /\ k + 1 \in Nat
    OBVIOUS
  <2>2. PICK f : Looping(f, length, k)
    OBVIOUS
  <2>. DEFINE g == [i \in 0 .. k + 1 |-> IF i <= k THEN f[i] ELSE LoopStep(f[k], length, k)]
  <2>3. g[0] = stream /\ g = [i \in 0 .. k + 1 |-> g[i]]
    BY <2>1, <2>2 DEF Looping
  <2>4. ASSUME NEW i \in 1 .. k + 1
        PROVE  g[i] = LoopStep(g[i - 1], length, i - 1)
    <3>1. i - 1 \in 0 .. k /\ g[i - 1] = f[i - 1]
      BY <2>1
    <3>2. CASE i <= k
      <4>1. i \in 1 .. k /\ g[i] = f[i]
        BY <2>1, <3>2
      <4>2. f[i] = LoopStep(f[i - 1], length, i - 1)
        BY <2>2, <4>1 DEF Looping
      <4>. QED
        BY <3>1, <4>1, <4>2
    <3>3. CASE i = k + 1
      <4>1. g[i] = LoopStep(f[k], length, k) /\ i - 1 = k
        BY <2>1, <3>3
      <4>. QED
        BY <3>1, <4>1
    <3>. QED
      BY <2>1, <3>2, <3>3
  <2>. HIDE DEF g
  <2>5. Looping(g, length, k + 1)
    BY <2>3, <2>4 DEF Looping
  <2>. QED
    BY <2>1, <2>5
<1>3. T = Nat
  <2>1. T \in SUBSET Nat
    OBVIOUS
  <2>. HIDE DEF T
  <2>. QED
    BY <1>1, <1>2, <2>1, Induction
<1>4. \E step : Looping(step, length, count)
  BY <1>3
<1>. QED
  BY <1>4, LoopRuns

(* It leaves the stream at the last block of the message.                  *)
LEMMA AfterBlocksStand ==
  ASSUME Position, NEW length \in Nat \ {0}, absorbed + length <= MaxBytes
  PROVE  Stands(AfterBlocks(length), absorbed + length, Done(absorbed + length))
<1>. DEFINE n == absorbed + length
            d == Done(absorbed)
            l == LiveBlocks(length)
            bound == MaxBlocks(length)
            R == CHOOSE step : LoopRun(step, length, bound)
<1>0. /\ absorbed \in Nat /\ n \in Nat /\ n \in 0 .. MaxBytes /\ BlockLen \in Nat \ {0}
  <2>1. MaxBytes \in Nat /\ BlockLen \in Nat \ {0}
    BY Constants
  <2>. QED
    BY <2>1 DEF Position
<1>1. d \in Nat /\ d * BlockLen <= absorbed /\ d * BlockLen \in Nat
  BY <1>0, DoneBounds
<1>2. /\ l \in 0 .. bound /\ bound \in Nat /\ l \in Nat /\ Done(n) = d + l
  BY AbsorbBlocks
<1>3. AfterBlocks(length) = R[bound]
  BY DEF AfterBlocks, LoopRun
<1>4. Looping(R, length, bound)
  <2>1. LoopRun(R, length, bound)
    BY <1>2, LoopExists
  <2>. HIDE DEF R, bound
  <2>. QED
    BY <1>2, <2>1, LoopRuns
<1>. HIDE DEF R, bound
<1>5. Stands(stream, n, d)
  <2>1. d * BlockLen <= n
    <3>. DEFINE x == d * BlockLen
    <3>1. x \in Nat /\ x <= absorbed
      BY <1>1
    <3>. HIDE DEF x
    <3>2. x <= n
      BY <1>0, <3>1
    <3>. QED
      BY <3>2 DEF x
  <2>2. Stands(stream, absorbed, d)
    BY DEF Position
  <2>. HIDE DEF n, d
  <2>. QED
    BY <1>0, <1>1, <2>1, <2>2, StandsSame
<1>6. ASSUME NEW i \in 0 .. l - 1, NEW s, Stands(s, n, d + i)
      PROVE  Stands(LoopStep(s, length, i), n, d + (i + 1))
  <2>1. /\ i < l /\ i \in 0 .. l /\ d + i \in Nat
        /\ (d + i) + 1 <= Done(n) /\ (d + i) + 1 = d + (i + 1)
    BY <1>1, <1>2
  <2>2. LoopStep(s, length, i) = AbsorbBlock(s, WorkBlock(length, i))
    BY <2>1 DEF LoopStep
  <2>3. WorkBlock(length, i) = MessageBlock(n, d + i)
    BY <2>1, WorkBlocks
  <2>4. Stands(AbsorbBlock(s, MessageBlock(n, d + i)), n, (d + i) + 1)
    <3>. DEFINE m == d + i
    <3>1. m \in Nat /\ m + 1 <= Done(n) /\ Stands(s, n, m)
      BY <1>6, <2>1
    <3>. HIDE DEF m, n
    <3>2. Stands(AbsorbBlock(s, MessageBlock(n, m)), n, m + 1)
      BY <1>0, <3>1, StandsNext
    <3>. QED
      BY <3>2 DEF m
  <2>. QED
    BY <2>1, <2>2, <2>3, <2>4
<1>. HIDE DEF n, d, l
<1>7. ASSUME NEW i \in Nat
      PROVE  i <= bound => Stands(R[i], n, IF i <= l THEN d + i ELSE d + l)
  <2>. DEFINE U(k) == Stands(R[k], n, IF k <= l THEN d + k ELSE d + l)
              T == {k \in Nat : k <= bound => U(k)}
  <2>1. 0 \in T
    <3>1. R[0] = stream /\ 0 <= l /\ d + 0 = d
      BY <1>1, <1>2, <1>4 DEF Looping
    <3>. QED
      BY <1>5, <3>1
  <2>2. ASSUME NEW k \in T
        PROVE  k + 1 \in T
    <3>. SUFFICES ASSUME k + 1 <= bound
                  PROVE  U(k + 1)
      OBVIOUS
    <3>. DEFINE g == k + 1
    <3>1. k \in Nat /\ g \in 1 .. bound /\ g - 1 = k /\ U(k)
      BY <1>2
    <3>2. R[g] = LoopStep(R[k], length, k)
      <4>. HIDE DEF T, U, g
      <4>1. R[g] = LoopStep(R[g - 1], length, g - 1)
        BY <1>4, <3>1 DEF Looping
      <4>. QED
        BY <3>1, <4>1
    <3>3. CASE k < l
      <4>1. k \in 0 .. l - 1 /\ k <= l /\ k + 1 <= l
        BY <1>2, <3>1, <3>3
      <4>2. Stands(R[k], n, d + k)
        BY <3>1, <4>1
      <4>3. Stands(LoopStep(R[k], length, k), n, d + (k + 1))
        <5>. HIDE DEF T, U, g
        <5>. QED
          BY <1>6, <4>1, <4>2
      <4>. QED
        BY <3>2, <4>1, <4>3
    <3>4. CASE ~(k < l)
      <4>1. ~(k + 1 <= l) /\ (IF k <= l THEN d + k ELSE d + l) = d + l
        BY <1>1, <1>2, <3>1, <3>4
      <4>2. Stands(R[k], n, d + l)
        BY <3>1, <4>1
      <4>3. LoopStep(R[k], length, k) = R[k]
        BY <3>4 DEF LoopStep, l
      <4>. QED
        BY <3>2, <4>1, <4>2, <4>3
    <3>. QED
      BY <3>3, <3>4
  <2>3. T = Nat
    <3>1. T \in SUBSET Nat
      OBVIOUS
    <3>. HIDE DEF T
    <3>. QED
      BY <2>1, <2>2, <3>1, Induction
  <2>4. i \in T
    <3>. HIDE DEF T
    <3>. QED
      BY <2>3
  <2>. QED
    BY <2>4
<1>8. Stands(R[bound], n, d + l)
  <2>1. Stands(R[bound], n, IF bound <= l THEN d + bound ELSE d + l)
    BY <1>2, <1>7
  <2>2. bound <= l => bound = l
    BY <1>2
  <2>. QED
    BY <2>1, <2>2
<1>. QED
  BY <1>2, <1>3, <1>8 DEF n

(* The fields an absorb overwrites are not among those that stand.         *)
Holding(s, block, blen) == [s EXCEPT !.block = block, !.block_len = blen]

(* A stream that stands still does with another pending block.             *)
LEMMA StandsHolding ==
  ASSUME NEW s, NEW n, NEW m, NEW block, NEW blen, Stands(s, n, m)
  PROVE  /\ Stands(Holding(s, block, blen), n, m)
         /\ Holding(s, block, blen).block = block
         /\ Holding(s, block, blen).block_len = blen
<1>. DEFINE e == Holding(s, block, blen)
<1>1. DOMAIN s = Fields
  BY DEF Stands, At
<1>2. /\ DOMAIN e = Fields /\ e.stack = s.stack /\ e.stack_len = s.stack_len
      /\ e.counter = s.counter /\ e.compressed = s.compressed /\ e.chunk_cv = s.chunk_cv
      /\ e.block = block /\ e.block_len = blen
  BY <1>1 DEF Fields, Holding
<1>. HIDE DEF e
<1>3. Stands(e, n, m)
  BY <1>2 DEF Stands, At
<1>. QED
  BY <1>2, <1>3 DEF e

----------------------------------------------------------------------------
(* The invariant.                                                          *)

Kinds == {"none", "state", "bytes", "ValueError"}

(* The stream stands where one pass would, whatever was returned last.     *)
IInv == Position /\ result.kind \in Kinds

(* Nothing is done of an empty message.                                    *)
LEMMA InitHolds == Init => IInv
<1>. SUFFICES ASSUME Init
              PROVE  IInv
  OBVIOUS
<1>0. /\ BlockLen \in Nat \ {0} /\ BlocksPerChunk \in Nat \ {0} /\ N \in Nat \ {0}
      /\ MaxBytes \in Nat
  BY Constants
<1>1. absorbed = 0 /\ 0 \in 0 .. MaxBytes /\ Done(0) = 0 /\ 0 * BlockLen = 0 /\ 0 \in Nat
  BY <1>0 DEF Init, Done
<1>2. 0 \div BlocksPerChunk = 0 /\ 0 % BlocksPerChunk = 0
  BY <1>0
<1>3. /\ DOMAIN stream = Fields
      /\ stream.stack = [i \in 0 .. MaxStack - 1 |-> Zero] /\ stream.stack_len = 0
      /\ stream.chunk_cv = KeyWords /\ stream.counter = <<0, 0>>
      /\ stream.block = [j \in 0 .. BlockLen - 1 |-> Zero] /\ stream.block_len = 0
      /\ stream.compressed = 0
  BY DEF Init, Fields
<1>4. \A b \in Nat : Shifted(0, b) = 0
  <2>1. 0 < PowerOfTwo[0]
    BY Doubling
  <2>. QED
    BY <1>1, <2>1, NoBits
<1>5. Ones(0) = 0
  <2>1. Ones(0) <= 0
    <3>1. 0 \in 0 .. N /\ 0 < PowerOfTwo[0]
      BY <1>0, Doubling
    <3>. QED
      BY <1>1, <3>1, HighBound
  <2>2. Ones(0) \in Nat
    <3>1. 0 \in 0 .. N
      BY <1>0
    <3>. QED
      BY <1>1, <3>1, HighSteps
  <2>. QED
    BY <2>1, <2>2
<1>6. Halves(0) = <<0, 0>>
  <2>1. Word \in Nat \ {0}
    BY <1>1, HighWord
  <2>2. 0 % Word = 0 /\ 0 \div Word = 0
    BY <2>1
  <2>. QED
    BY <2>2 DEF Halves
<1>7. StackOf(stream.stack, stream.stack_len, 0, 0)
  <2>1. \A b \in 0 .. N - 1 : Shifted(0, b) % 2 # 1
    BY <1>0, <1>4
  <2>. QED
    BY <1>3, <1>5, <2>1 DEF StackOf
<1>8. stream.chunk_cv = Chain(KeyWords, 0, 0, 0, 0)
  <2>1. Extends(KeyWords, 0, 0, 0, 0)
    BY <1>1, ChainLaw
  <2>. QED
    BY <1>3, <2>1 DEF Extends
<1>9. Stands(stream, 0, 0)
  BY <1>2, <1>3, <1>6, <1>7, <1>8 DEF Stands, At
<1>10. stream.block = MessageBlock(0, 0)
  <2>1. \A j \in 0 .. BlockLen - 1 : ~(0 * BlockLen + j < 0)
    BY <1>0, <1>1
  <2>. QED
    BY <1>3, <2>1 DEF MessageBlock
<1>11. result.kind \in Kinds
  BY DEF Init, Promise!Nothing, Kinds
<1>. QED
  BY <1>1, <1>3, <1>9, <1>10, <1>11 DEF IInv, Position

(* Every call keeps it.                                                    *)
LEMMA StepHolds == IInv /\ [Next]_vars => IInv'
<1>. SUFFICES ASSUME IInv, [Next]_vars
              PROVE  IInv'
  OBVIOUS
<1>1. ASSUME NEW length \in 0 .. MaxChunk, Absorb(length)
      PROVE  IInv'
  <2>0. MaxChunk \in Nat /\ MaxBytes \in Nat
    BY Constants
  <2>1. result'.kind \in Kinds
    BY <1>1 DEF Absorb, Promise!State, Kinds
  <2>2. Position
    BY DEF IInv
  <2>3. CASE length = 0
    <3>1. stream' = stream
      BY <1>1, <2>3 DEF Absorb
    <3>2. absorbed' = absorbed
      BY <1>1, <2>0, <2>2, <2>3 DEF Absorb, Position
    <3>3. Position'
      BY <2>2, <3>1, <3>2 DEF Position
    <3>. QED
      BY <2>1, <3>3 DEF IInv
  <2>4. CASE length # 0
    <3>. DEFINE n == absorbed + length
                rest == stream.block_len + length - LiveBlocks(length) * BlockLen
                tail == WorkBlock(length, LiveBlocks(length))
                block == [j \in 0 .. BlockLen - 1 |-> IF j < rest THEN tail[j] ELSE Zero]
                s == AfterBlocks(length)
    <3>1. length \in Nat \ {0} /\ n <= MaxBytes /\ n \in 0 .. MaxBytes
      BY <1>1, <2>0, <2>2, <2>4 DEF Absorb, Position
    <3>2. /\ stream' = Holding(s, block, rest)
          /\ absorbed' = n
      BY <1>1, <2>4 DEF Absorb, Holding
    <3>3. Stands(s, n, Done(n))
      BY <2>2, <3>1, AfterBlocksStand
    <3>4. rest = n - Done(n) * BlockLen
      BY <2>2, <3>1, AbsorbBlocks
    <3>5. block = MessageBlock(n, Done(n))
      BY <2>2, <3>1, WorkRest
    <3>. HIDE DEF n, s, rest, block
    <3>6. Stands(stream', n, Done(n)) /\ stream'.block = block /\ stream'.block_len = rest
      BY <3>2, <3>3, StandsHolding
    <3>7. Position'
      BY <3>1, <3>2, <3>4, <3>5, <3>6 DEF Position
    <3>. QED
      BY <2>1, <3>7 DEF IInv
  <2>. QED
    BY <2>3, <2>4
<1>2. ASSUME NEW out_len \in 1 .. MaxOut, Finalize(out_len)
      PROVE  IInv'
  <2>1. Position'
    BY <1>2 DEF Finalize, IInv, Position
  <2>2. result'.kind \in Kinds
    BY <1>2 DEF Finalize, Kinds
  <2>. QED
    BY <2>1, <2>2 DEF IInv
<1>3. CASE RejectFinalize
  <2>1. Position'
    BY <1>3 DEF RejectFinalize, IInv, Position
  <2>2. result'.kind \in Kinds
    BY <1>3 DEF RejectFinalize, Promise!ValueError, Kinds
  <2>. QED
    BY <2>1, <2>2 DEF IInv
<1>4. CASE UNCHANGED vars
  BY <1>4 DEF vars, IInv, Position
<1>. QED
  BY <1>1, <1>2, <1>3, <1>4 DEF Next

----------------------------------------------------------------------------
(* What the invariant says.                                                *)

(* Where the stream is.                                                    *)
LEMMA PlaceHolds ==
  ASSUME Position
  PROVE  LET m == Done(absorbed)
             c == m \div BlocksPerChunk
             r == m % BlocksPerChunk
         IN  /\ absorbed \in Nat /\ m \in Nat /\ c \in Nat /\ r \in 0 .. BlocksPerChunk - 1
             /\ m = c * BlocksPerChunk + r /\ m * BlockLen = c * ChunkLen + r * BlockLen
             /\ c < PowerOfTwo[MaxStack] /\ c < PowerOfTwo[N]
             /\ At(stream, absorbed, c, r)
             /\ ChunkIndex = c
<1>. DEFINE m == Done(absorbed)
            c == m \div BlocksPerChunk
            r == m % BlocksPerChunk
<1>1. absorbed \in Nat /\ absorbed \in 0 .. MaxBytes
  BY Constants DEF Position
<1>2. m \in Nat
  BY <1>1, DoneBounds
<1>3. /\ c \in Nat /\ r \in 0 .. BlocksPerChunk - 1
      /\ m = c * BlocksPerChunk + r /\ m * BlockLen = c * ChunkLen + r * BlockLen
  <2>. HIDE DEF m
  <2>. QED
    BY <1>2, PlaceOf
<1>4. c < PowerOfTwo[MaxStack]
  <2>1. m \in 0 .. Done(absorbed)
    BY <1>2
  <2>. HIDE DEF m
  <2>. QED
    BY <1>1, <2>1, ChunkFits
<1>5. c < PowerOfTwo[N]
  <2>. HIDE DEF c
  <2>. QED
    BY <1>3, <1>4, StackBits
<1>6. At(stream, absorbed, c, r)
  BY DEF Position, Stands
<1>. HIDE DEF c, r
<1>7. ChunkIndex = c
  BY <1>3, <1>6, HalvesRead DEF ChunkIndex, At
<1>. QED
  BY <1>1, <1>2, <1>3, <1>4, <1>5, <1>6, <1>7 DEF c, r

(* The counters stay in the ranges their positions have.                   *)
LEMMA TypeHolds == IInv => TypeOK
<1>. SUFFICES ASSUME IInv
              PROVE  TypeOK
  OBVIOUS
<1>. DEFINE c == Done(absorbed) \div BlocksPerChunk
            r == Done(absorbed) % BlocksPerChunk
<1>0. Position /\ result.kind \in Kinds
  BY DEF IInv
<1>1. /\ absorbed \in Nat /\ c \in Nat /\ r \in 0 .. BlocksPerChunk - 1
      /\ c < PowerOfTwo[MaxStack] /\ c < PowerOfTwo[N] /\ At(stream, absorbed, c, r)
  BY <1>0, PlaceHolds
<1>. HIDE DEF c, r
<1>2. DOMAIN stream.stack = 0 .. MaxStack - 1
  BY <1>1 DEF At, StackOf
<1>3. stream.stack_len \in 0 .. MaxStack
  <2>0. N \in Nat /\ MaxStack \in 0 .. N /\ 0 \in 0 .. N /\ MaxStack \in Nat
    BY Constants
  <2>1. Ones(c) <= MaxStack
    BY <1>1, <2>0, HighBound
  <2>2. Ones(c) \in Nat
    BY <1>1, <2>0, HighSteps
  <2>. QED
    BY <1>1, <2>0, <2>1, <2>2 DEF At, StackOf
<1>4. stream.counter \in (0 .. Word - 1) \X (0 .. Word - 1)
  <2>1. /\ Word \in Nat \ {0} /\ c \div Word \in Nat /\ c % Word \in 0 .. Word - 1
        /\ c \div Word < Word
    BY <1>1, HighWord
  <2>2. c \div Word \in 0 .. Word - 1
    BY <2>1
  <2>. QED
    BY <1>1, <2>1, <2>2 DEF At, Halves
<1>5. DOMAIN stream.block = 0 .. BlockLen - 1
  BY <1>0 DEF Position, MessageBlock
<1>6. stream.block_len \in 0 .. BlockLen
  BY <1>0, <1>1, DoneBounds DEF Position
<1>7. stream.compressed \in 0 .. BlocksPerChunk - 1
  BY <1>1 DEF At
<1>. QED
  BY <1>0, <1>2, <1>3, <1>4, <1>5, <1>6, <1>7 DEF TypeOK, Position, Kinds

(* The stream is where one pass would be.                                  *)
LEMMA PositionHolds == IInv => PositionResumable
<1>. SUFFICES ASSUME IInv
              PROVE  PositionResumable
  OBVIOUS
<1>. DEFINE m == Done(absorbed)
            c == m \div BlocksPerChunk
            r == m % BlocksPerChunk
            x == m * BlockLen
<1>0. Position
  BY DEF IInv
<1>1. /\ absorbed \in Nat /\ c \in Nat /\ r \in 0 .. BlocksPerChunk - 1
      /\ m = c * BlocksPerChunk + r /\ x = c * ChunkLen + r * BlockLen
      /\ At(stream, absorbed, c, r) /\ ChunkIndex = c
  BY <1>0, PlaceHolds
<1>2. x \in Nat /\ (absorbed > 0 => absorbed - x > 0) /\ stream.block_len = absorbed - x
  BY <1>0, <1>1, DoneBounds DEF Position
<1>3. stream.compressed = r /\ stream.chunk_cv = Chain(KeyWords, absorbed, c, 0, r)
  BY <1>1 DEF At
<1>4. stream.block = MessageBlock(absorbed, c * BlocksPerChunk + r)
  BY <1>0, <1>1 DEF Position
<1>5. absorbed = c * ChunkLen + r * BlockLen + stream.block_len
  <2>. HIDE DEF x, c, r
  <2>1. absorbed = x + stream.block_len
    BY <1>1, <1>2
  <2>. QED
    BY <1>1, <2>1
<1>6. absorbed > 0 => stream.block_len > 0
  BY <1>2
<1>. HIDE DEF c, r
<1>. QED
  BY <1>1, <1>3, <1>4, <1>5, <1>6 DEF PositionResumable

(* An entry of the stack is a bit of the chunk count.                      *)
LEMMA EntryBit ==
  ASSUME NEW c \in Nat, NEW i \in 0 .. Ones(c) - 1
  PROVE  \E b \in 0 .. N - 1 : /\ Shifted(c, b) % 2 = 1
                               /\ High(c, b + 1) = i /\ High(c, b) = i + 1
<1>0. N \in Nat \ {0}
  BY Constants
<1>1. /\ High(c, 0) = Ones(c) /\ High(c, N) = 0
      /\ \A b \in 0 .. N : High(c, b) \in Nat
      /\ \A b \in 0 .. N - 1 : High(c, b) = High(c, b + 1) + (Shifted(c, b) % 2)
  BY HighSteps
<1>. DEFINE B == {b \in 0 .. N : High(c, b) <= i}
<1>2. N \in B /\ B \in SUBSET Nat /\ 0 \notin B
  BY <1>0, <1>1
<1>3. PICK b \in B : \A x \in B : b <= x
  <2>1. B # {} /\ B \in SUBSET Nat
    BY <1>2
  <2>. HIDE DEF B
  <2>. QED
    BY <2>1, LeastElement
<1>. DEFINE d == b - 1
<1>4. b \in 1 .. N /\ d \in 0 .. N - 1 /\ d \in 0 .. N /\ d + 1 = b /\ d \in Nat
  <2>1. b \in 0 .. N /\ b # 0
    BY <1>2
  <2>. QED
    BY <1>0, <2>1
<1>5. High(c, b) <= i /\ ~(High(c, d) <= i)
  <2>1. d \notin B
    <3>. HIDE DEF B
    <3>1. ~(b <= d)
      BY <1>4
    <3>. QED
      BY <1>3, <3>1
  <2>. QED
    BY <1>4, <2>1
<1>. HIDE DEF B, d
<1>6. High(c, d) = High(c, b) + (Shifted(c, d) % 2) /\ Shifted(c, d) % 2 \in {0, 1}
  BY <1>1, <1>4, Cuts
<1>7. High(c, d) \in Nat /\ High(c, b) \in Nat
  BY <1>1, <1>4
<1>8. Shifted(c, d) % 2 = 1 /\ High(c, d + 1) = i /\ High(c, d) = i + 1
  BY <1>0, <1>1, <1>4, <1>5, <1>6, <1>7
<1>. QED
  BY <1>4, <1>8

(* The stack is the binary form of the chunk count.                        *)
LEMMA StackHolds == IInv => StackIsBinary
<1>. SUFFICES ASSUME IInv
              PROVE  StackIsBinary
  OBVIOUS
<1>. DEFINE c == Done(absorbed) \div BlocksPerChunk
            r == Done(absorbed) % BlocksPerChunk
<1>1. /\ absorbed \in Nat /\ c \in Nat /\ At(stream, absorbed, c, r) /\ ChunkIndex = c
  BY PlaceHolds DEF IInv
<1>2. StackOf(stream.stack, stream.stack_len, absorbed, c)
  BY <1>1 DEF At
<1>. HIDE DEF c, r
<1>3. ASSUME NEW i \in 0 .. stream.stack_len - 1
      PROVE  stream.stack[i] =
               ChainingValue(Subtree(absorbed, ChunksBelow(i), ChunksBelow(i + 1) - ChunksBelow(i)))
  <2>0. N \in Nat \ {0}
    BY Constants
  <2>1. i \in 0 .. Ones(c) - 1
    BY <1>2 DEF StackOf
  <2>2. PICK b \in 0 .. N - 1 : /\ Shifted(c, b) % 2 = 1
                                /\ High(c, b + 1) = i /\ High(c, b) = i + 1
    BY <1>1, <2>1, EntryBit
  <2>3. b \in 0 .. N /\ b + 1 \in 0 .. N /\ b \in Nat /\ b + 1 \in Nat
    BY <2>0
  <2>4. stream.stack[i] = ChainingValue(Subtree(absorbed, Cut(c, b + 1), PowerOfTwo[b]))
    BY <1>2, <2>2 DEF StackOf, Entry
  <2>5. ChunksBelow(i) = Cut(c, b + 1)
    BY <1>1, <2>2, <2>3, ChunksOfBits
  <2>6. ChunksBelow(i + 1) = Cut(c, b)
    BY <1>1, <2>2, <2>3, ChunksOfBits
  <2>7. Cut(c, b) - Cut(c, b + 1) = PowerOfTwo[b]
    <3>1. Cut(c, b) = Cut(c, b + 1) + PowerOfTwo[b]
      BY <1>1, <2>2, <2>3, Cuts
    <3>2. Cut(c, b + 1) \in Nat /\ PowerOfTwo[b] \in Nat
      BY <1>1, <2>3, Cuts, Doubling
    <3>. QED
      BY <3>1, <3>2
  <2>. QED
    BY <2>4, <2>5, <2>6, <2>7
<1>. QED
  BY <1>1, <1>2, <1>3 DEF StackIsBinary, StackOf

----------------------------------------------------------------------------
(* The root.                                                               *)

(* The pending block ends the chunk it is in.                              *)
LEMMA LastNodeIs ==
  ASSUME Position
  PROVE  /\ LastNode = ChunkOutput(absorbed, Done(absorbed) \div BlocksPerChunk)
         /\ Units(absorbed, ChunkLen) = (Done(absorbed) \div BlocksPerChunk) + 1
<1>. DEFINE m == Done(absorbed)
            c == m \div BlocksPerChunk
            r == m % BlocksPerChunk
<1>1. /\ absorbed \in Nat /\ c \in Nat /\ r \in 0 .. BlocksPerChunk - 1
      /\ m = c * BlocksPerChunk + r /\ At(stream, absorbed, c, r)
  BY PlaceHolds
<1>. HIDE DEF c, r
<1>2. /\ Units(absorbed, ChunkLen) = c + 1
      /\ ChunkOutput(absorbed, c) = ChunkNode(absorbed, c, r, absorbed - m * BlockLen)
  BY <1>1, LastChunk
<1>3. /\ stream.block = MessageBlock(absorbed, c * BlocksPerChunk + r)
      /\ stream.block_len = absorbed - m * BlockLen
  BY <1>1 DEF Position
<1>4. LastNode = ChunkOutput(absorbed, c)
  BY <1>1, <1>2, <1>3 DEF LastNode, At, ChunkNode
<1>. QED
  BY <1>2, <1>4 DEF c

(* The stack folded onto a node from the top.                              *)
FoldRun(fold, s, node, count) ==
  fold = [k \in 0 .. count |->
            IF k = 0 THEN node
            ELSE Parent(s.stack[s.stack_len - k], ChainingValue(fold[k - 1]))]

Folding(fold, s, node, count) ==
  /\ fold = [k \in 0 .. count |-> fold[k]]
  /\ fold[0] = node
  /\ \A k \in 1 .. count :
       fold[k] = Parent(s.stack[s.stack_len - k], ChainingValue(fold[k - 1]))

(* A function folds the stack just if it starts at node and folds.         *)
LEMMA FoldRuns ==
  ASSUME NEW fold, NEW s, NEW node, NEW count \in Nat
  PROVE  FoldRun(fold, s, node, count) <=> Folding(fold, s, node, count)
<1>. DEFINE Body(k) == IF k = 0 THEN node
                       ELSE Parent(s.stack[s.stack_len - k], ChainingValue(fold[k - 1]))
<1>1. Body(0) = node /\ 0 \in 0 .. count
  OBVIOUS
<1>2. \A k \in 1 .. count :
        k \in 0 .. count /\ Body(k) = Parent(s.stack[s.stack_len - k], ChainingValue(fold[k - 1]))
  OBVIOUS
<1>3. FoldRun(fold, s, node, count) <=> fold = [k \in 0 .. count |-> Body(k)]
  BY DEF FoldRun
<1>4. \A k \in 0 .. count : k = 0 \/ k \in 1 .. count
  OBVIOUS
<1>. HIDE DEF Body
<1>5. ASSUME fold = [k \in 0 .. count |-> Body(k)]
      PROVE  Folding(fold, s, node, count)
  <2>1. \A k \in 0 .. count : fold[k] = Body(k)
    BY <1>5
  <2>2. fold = [k \in 0 .. count |-> fold[k]]
    BY <1>5
  <2>. QED
    BY <1>1, <1>2, <2>1, <2>2 DEF Folding
<1>6. ASSUME Folding(fold, s, node, count)
      PROVE  fold = [k \in 0 .. count |-> Body(k)]
  <2>1. \A k \in 0 .. count : fold[k] = Body(k)
    BY <1>1, <1>2, <1>4, <1>6 DEF Folding
  <2>2. fold = [k \in 0 .. count |-> fold[k]]
    BY <1>6 DEF Folding
  <2>. QED
    BY <2>1, <2>2
<1>. QED
  BY <1>3, <1>5, <1>6

(* There is a fold of any height.                                          *)
LEMMA FoldExists ==
  ASSUME NEW s, NEW node, NEW count \in Nat
  PROVE  \E fold : FoldRun(fold, s, node, count)
<1>. DEFINE T == {m \in Nat : \E fold : Folding(fold, s, node, m)}
<1>1. 0 \in T
  <2>. DEFINE g == [k \in 0 .. 0 |-> node]
  <2>1. Folding(g, s, node, 0)
    BY DEF Folding
  <2>. QED
    BY <2>1
<1>2. ASSUME NEW m \in T
      PROVE  m + 1 \in T
  <2>1. m \in Nat /\ m + 1 \in Nat
    OBVIOUS
  <2>2. PICK f : Folding(f, s, node, m)
    OBVIOUS
  <2>. DEFINE top == Parent(s.stack[s.stack_len - (m + 1)], ChainingValue(f[m]))
              g == [k \in 0 .. m + 1 |-> IF k <= m THEN f[k] ELSE top]
  <2>3. g[0] = node /\ g = [k \in 0 .. m + 1 |-> g[k]]
    BY <2>1, <2>2 DEF Folding
  <2>4. ASSUME NEW k \in 1 .. m + 1
        PROVE  g[k] = Parent(s.stack[s.stack_len - k], ChainingValue(g[k - 1]))
    <3>1. k - 1 \in 0 .. m /\ g[k - 1] = f[k - 1]
      BY <2>1
    <3>2. CASE k <= m
      <4>1. k \in 1 .. m /\ g[k] = f[k]
        BY <2>1, <3>2
      <4>2. f[k] = Parent(s.stack[s.stack_len - k], ChainingValue(f[k - 1]))
        BY <2>2, <4>1 DEF Folding
      <4>. QED
        BY <3>1, <4>1, <4>2
    <3>3. CASE k = m + 1
      <4>1. g[k] = top /\ k - 1 = m
        BY <2>1, <3>3
      <4>. QED
        BY <3>1, <3>3, <4>1
    <3>. QED
      BY <2>1, <3>2, <3>3
  <2>. HIDE DEF g
  <2>5. Folding(g, s, node, m + 1)
    BY <2>3, <2>4 DEF Folding
  <2>. QED
    BY <2>1, <2>5
<1>3. T = Nat
  <2>1. T \in SUBSET Nat
    OBVIOUS
  <2>. HIDE DEF T
  <2>. QED
    BY <1>1, <1>2, <2>1, Induction
<1>4. \E fold : Folding(fold, s, node, count)
  BY <1>3
<1>. QED
  BY <1>4, FoldRuns

(* What is folded over the entries of the bits below b is the subtree from *)
(* the first of their chunks on.                                           *)
LEMMA FoldedSubtree ==
  ASSUME NEW n, NEW c \in Nat, NEW s, StackOf(s.stack, s.stack_len, n, c), NEW fold,
         Folding(fold, s, ChunkOutput(n, c), s.stack_len), NEW b \in 0 .. N
  PROVE  fold[s.stack_len - High(c, b)] = Subtree(n, Cut(c, b), c + 1 - Cut(c, b))
<1>0. N \in Nat \ {0}
  BY Constants
<1>1. /\ s.stack_len = High(c, 0)
      /\ \A x \in 0 .. N : High(c, x) \in Nat
      /\ \A x \in 0 .. N - 1 : High(c, x) = High(c, x + 1) + (Shifted(c, x) % 2)
  BY HighSteps DEF StackOf
<1>. DEFINE V(x) == Subtree(n, Cut(c, x), c + 1 - Cut(c, x))
            T == {x \in Nat : x <= N => fold[s.stack_len - High(c, x)] = V(x)}
<1>2. 0 \in T
  <2>1. Cut(c, 0) = c
    BY ShiftedSteps, Doubling DEF Cut
  <2>2. c + 1 - c = 1 /\ s.stack_len - High(c, 0) = 0
    BY <1>0, <1>1
  <2>3. Halved(n, c, 1)
    BY SubtreeLaw
  <2>4. fold[0] = ChunkOutput(n, c)
    BY DEF Folding
  <2>. QED
    BY <2>1, <2>2, <2>3, <2>4 DEF Halved
<1>3. ASSUME NEW x \in T
      PROVE  x + 1 \in T
  <2>. SUFFICES ASSUME x + 1 <= N
                PROVE  fold[s.stack_len - High(c, x + 1)] = V(x + 1)
    OBVIOUS
  <2>1. /\ x \in Nat /\ x \in 0 .. N - 1 /\ x \in 0 .. N /\ x + 1 \in 0 .. N /\ x + 1 \in Nat
        /\ fold[s.stack_len - High(c, x)] = V(x)
    BY <1>0
  <2>. HIDE DEF T
  <2>2. /\ High(c, x) = High(c, x + 1) + (Shifted(c, x) % 2)
        /\ High(c, x) \in Nat /\ High(c, x + 1) \in Nat /\ s.stack_len \in Nat
        /\ High(c, x) <= s.stack_len
    <3>1. 0 \in 0 .. N /\ 0 <= x
      BY <1>0, <2>1
    <3>2. High(c, x) <= High(c, 0)
      BY <2>1, <3>1, HighFalls
    <3>. QED
      BY <1>1, <2>1, <3>1, <3>2
  <2>3. /\ Shifted(c, x) % 2 \in {0, 1}
        /\ Shifted(c, x) % 2 = 0 => Cut(c, x) = Cut(c, x + 1)
        /\ Shifted(c, x) % 2 = 1 => Cut(c, x) = Cut(c, x + 1) + PowerOfTwo[x]
        /\ Cut(c, x) \in Nat /\ Cut(c, x) <= c /\ c < Cut(c, x) + PowerOfTwo[x]
        /\ Cut(c, x + 1) \in Nat
    BY <2>1, Cuts
  <2>4. CASE Shifted(c, x) % 2 = 0
    <3>1. High(c, x + 1) = High(c, x) /\ Cut(c, x + 1) = Cut(c, x)
      BY <2>2, <2>3, <2>4
    <3>. QED
      BY <2>1, <3>1
  <2>5. CASE Shifted(c, x) % 2 = 1
    <3>. DEFINE k == s.stack_len - High(c, x + 1)
                f == Cut(c, x + 1)
                p == PowerOfTwo[x]
                w == c + 1 - f
    <3>1. /\ k \in 1 .. s.stack_len /\ k - 1 = s.stack_len - High(c, x)
          /\ s.stack_len - k = High(c, x + 1)
      BY <2>2, <2>5
    <3>2. fold[k] = Parent(s.stack[s.stack_len - k], ChainingValue(fold[k - 1]))
      <4>. HIDE DEF k, V
      <4>. QED
        BY <3>1 DEF Folding
    <3>3. s.stack[High(c, x + 1)] = ChainingValue(Subtree(n, f, p))
      BY <2>1, <2>5 DEF StackOf, Entry
    <3>4. p \in Nat \ {0} /\ f \in Nat /\ Cut(c, x) = f + p /\ f + p <= c /\ c < (f + p) + p
      <4>1. p \in Nat \ {0}
        BY <2>1, Doubling
      <4>. QED
        BY <2>3, <2>5, <4>1
    <3>5. V(x) = Subtree(n, f + p, w - p)
      <4>1. c + 1 - Cut(c, x) = w - p
        <5>. HIDE DEF f, p
        <5>. QED
          BY <3>4
      <4>. QED
        BY <3>4, <4>1
    <3>6. w \in Nat /\ p < w /\ w <= 2 * p
      <4>. HIDE DEF f, p
      <4>. QED
        BY <3>4
    <3>7. Subtree(n, f, w) = Parent(ChainingValue(Subtree(n, f, p)),
                                    ChainingValue(Subtree(n, f + p, w - p)))
      <4>1. /\ x \in Nat /\ f \in Nat /\ w \in Nat
            /\ PowerOfTwo[x] < w /\ w <= 2 * PowerOfTwo[x]
        BY <2>1, <3>4, <3>6
      <4>. HIDE DEF f, w, V, k
      <4>2. Subtree(n, f, w) =
              Parent(ChainingValue(Subtree(n, f, PowerOfTwo[x])),
                     ChainingValue(Subtree(n, f + PowerOfTwo[x], w - PowerOfTwo[x])))
        BY <4>1, SubtreeJoins
      <4>. QED
        BY <4>2
    <3>8. fold[k] = Subtree(n, f, w)
      BY <2>1, <3>1, <3>2, <3>3, <3>5, <3>7
    <3>. QED
      BY <3>8
  <2>. QED
    BY <2>3, <2>4, <2>5
<1>4. T = Nat
  <2>1. T \in SUBSET Nat
    OBVIOUS
  <2>. HIDE DEF T
  <2>. QED
    BY <1>2, <1>3, <2>1, Induction
<1>5. b \in T /\ b <= N
  <2>1. b \in Nat /\ b <= N
    BY <1>0
  <2>. HIDE DEF T
  <2>. QED
    BY <1>4, <2>1
<1>. QED
  BY <1>5

(* The stack folded onto the last chunk is the specification's root.       *)
LEMMA RootIs ==
  ASSUME Position
  PROVE  Root = SpecRoot(absorbed)
<1>. DEFINE c == Done(absorbed) \div BlocksPerChunk
            r == Done(absorbed) % BlocksPerChunk
            R == CHOOSE fold : FoldRun(fold, stream, LastNode, stream.stack_len)
<1>0. N \in Nat \ {0} /\ N \in 0 .. N /\ 0 \in 0 .. N
  BY Constants
<1>1. /\ c \in Nat /\ c < PowerOfTwo[N] /\ At(stream, absorbed, c, r)
  BY PlaceHolds
<1>2. LastNode = ChunkOutput(absorbed, c) /\ Units(absorbed, ChunkLen) = c + 1
  BY LastNodeIs
<1>3. Root = R[stream.stack_len]
  BY DEF Root, FoldRun
<1>. HIDE DEF c, r
<1>4. StackOf(stream.stack, stream.stack_len, absorbed, c) /\ stream.stack_len \in Nat
  <2>1. Ones(c) \in Nat
    BY <1>0, <1>1, HighSteps
  <2>. QED
    BY <1>1, <2>1 DEF At, StackOf
<1>5. Folding(R, stream, ChunkOutput(absorbed, c), stream.stack_len)
  <2>1. FoldRun(R, stream, LastNode, stream.stack_len)
    BY <1>4, FoldExists
  <2>. HIDE DEF R
  <2>2. Folding(R, stream, LastNode, stream.stack_len)
    BY <1>4, <2>1, FoldRuns
  <2>. QED
    BY <1>2, <2>2
<1>. HIDE DEF R
<1>6. R[stream.stack_len - High(c, N)] = Subtree(absorbed, Cut(c, N), c + 1 - Cut(c, N))
  BY <1>0, <1>1, <1>4, <1>5, FoldedSubtree
<1>7. High(c, N) = 0 /\ stream.stack_len - 0 = stream.stack_len
  BY <1>1, <1>4, HighSteps
<1>8. Cut(c, N) = 0
  <2>1. Shifted(c, N) = 0
    BY <1>0, <1>1, NoBits
  <2>2. PowerOfTwo[N] \in Nat
    BY <1>0, Doubling
  <2>. QED
    BY <2>1, <2>2 DEF Cut
<1>9. R[stream.stack_len] = Subtree(absorbed, 0, c + 1)
  BY <1>1, <1>6, <1>7, <1>8
<1>. QED
  BY <1>2, <1>3, <1>9 DEF SpecRoot

----------------------------------------------------------------------------
(* Level by level.                                                         *)

(* Every chunk runs with the short one as far as it goes, and the result   *)
(* is the chunk's own.                                                     *)
LEMMA SharedChunk ==
  ASSUME NEW n \in Nat, NEW i \in 1 .. Units(n, ChunkLen), Units(n, ChunkLen) \in Nat
  PROVE  ChunkFrom(Chain(KeyWords, n, i - 1, 0, SharedLeaves(n)), n, i - 1, SharedLeaves(n))
           = ChunkOutput(n, i - 1)
<1>. DEFINE m == Done(n)
            c == m \div BlocksPerChunk
            r == m % BlocksPerChunk
            g == i - 1
            s == SharedLeaves(n)
            last == BlocksOf(n, g) - 1
<1>0. BlocksPerChunk \in Nat \ {0} /\ ChunkLen \in Nat \ {0}
  BY Constants
<1>1. c \in Nat /\ r \in 0 .. BlocksPerChunk - 1 /\ m = c * BlocksPerChunk + r
  <2>1. m \in Nat
    BY DoneBounds
  <2>. HIDE DEF m
  <2>. QED
    BY <2>1, PlaceOf
<1>. HIDE DEF c, r
<1>2. Units(n, ChunkLen) = c + 1 /\ BlocksOf(n, c) = r + 1 /\ c * ChunkLen <= n
  BY <1>1, LastChunk
<1>3. s = r
  <2>1. (c + 1) - 1 = c /\ (r + 1) - 1 = r
    BY <1>1
  <2>. QED
    BY <1>2, <2>1 DEF SharedLeaves
<1>4. g \in 0 .. c /\ g \in Nat
  BY <1>1, <1>2
<1>. HIDE DEF g
<1>5. last \in Nat /\ r <= last
  <2>1. CASE g = c
    BY <1>1, <1>2, <2>1
  <2>2. CASE g # c
    <3>. DEFINE d == c - (g + 1)
    <3>1. d \in Nat /\ c = (g + 1) + d
      BY <1>1, <1>4, <2>2
    <3>. HIDE DEF d
    <3>2. (g + 1) * ChunkLen <= n
      <4>. DEFINE x == (g + 1) * ChunkLen
                  y == d * ChunkLen
      <4>1. x \in Nat /\ y \in Nat
        BY <1>0, <1>4, <3>1
      <4>2. ((g + 1) + d) * ChunkLen = x + y
        BY <1>0, <1>4, <3>1
      <4>3. x + y <= n
        BY <1>2, <3>1, <4>2
      <4>. HIDE DEF x, y
      <4>4. x <= n
        BY <4>1, <4>3
      <4>. QED
        BY <4>4 DEF x
    <3>3. BlocksOf(n, g) = BlocksPerChunk
      BY <1>4, <3>2, FullChunk
    <3>. QED
      BY <1>0, <1>1, <3>3
  <2>. QED
    BY <2>1, <2>2
<1>. DEFINE k == last - r
<1>6. k \in Nat /\ r + k = last /\ last - 0 = last /\ r \in Nat
  BY <1>0, <1>1, <1>5
<1>7. Chain(Chain(KeyWords, n, g, 0, r), n, g, r, k) = Chain(KeyWords, n, g, 0, last)
  <2>. HIDE DEF k, last
  <2>1. Chain(Chain(KeyWords, n, g, 0, r), n, g, r, k) = Chain(KeyWords, n, g, 0, r + k)
    BY <1>6, ChainJoin
  <2>. QED
    BY <1>6, <2>1
<1>8. ChunkFrom(Chain(KeyWords, n, g, 0, r), n, g, r) = ChunkFrom(KeyWords, n, g, 0)
  BY <1>6, <1>7 DEF ChunkFrom
<1>. QED
  BY <1>3, <1>8 DEF ChunkOutput, g

(* A level pairs its nodes from the bottom, and an odd one rides up.       *)
Paired(up, values, count) ==
  /\ Tabulated(up, (count + 1) \div 2)
  /\ \A i \in 1 .. (count + 1) \div 2 :
       up[i] = IF 2 * i <= count THEN ChainingValue(Parent(values[2 * i - 1], values[2 * i]))
               ELSE values[count]

(* It does so whatever the values are.                                     *)
LEMMA PairUpIs ==
  ASSUME NEW count \in Nat, NEW values, Tabulated(values, count)
  PROVE  Len(values) = count /\ Paired(PairUp(values), values, count)
<1>. DEFINE pairs == count \div 2
            odd == count % 2
            P(i) == ChainingValue(Parent(values[2 * i - 1], values[2 * i]))
            parents == [i \in 1 .. pairs |-> P(i)]
<1>1. pairs \in Nat /\ odd \in {0, 1} /\ count = 2 * pairs + odd /\ (count + 1) \div 2 = pairs + odd
  OBVIOUS
<1>2. Len(values) = count
  <2>. DEFINE S == {values[i] : i \in 1 .. count}
  <2>1. values \in [1 .. count -> S]
    BY DEF Tabulated
  <2>. HIDE DEF S
  <2>. QED
    BY <2>1
<1>3. PairUp(values) = IF odd = 1 THEN Append(parents, values[count]) ELSE parents
  <2>. HIDE DEF Tabulated
  <2>. QED
    BY <1>2 DEF PairUp
<1>4. Tabulated(parents, pairs) /\ \A i \in 1 .. pairs : parents[i] = P(i)
  BY DEF Tabulated
<1>. HIDE DEF parents, P, pairs, odd
<1>. DEFINE up == PairUp(values)
            E(i) == IF 2 * i <= count THEN P(i) ELSE values[count]
<1>5. CASE odd = 0
  <2>1. up = parents
    BY <1>3, <1>5
  <2>2. \A i \in 1 .. pairs : up[i] = E(i)
    BY <1>1, <1>4, <1>5, <2>1
  <2>3. (count + 1) \div 2 = pairs
    BY <1>1, <1>5
  <2>. HIDE DEF up
  <2>4. Tabulated(up, pairs)
    BY <1>4, <2>1
  <2>. QED
    BY <1>2, <2>2, <2>3, <2>4 DEF Paired, up, P
<1>6. CASE odd = 1
  <2>1. up = [i \in 1 .. pairs + 1 |-> IF i <= pairs THEN parents[i] ELSE values[count]]
    <3>. DEFINE v == values[count]
    <3>1. up = Append(parents, v)
      BY <1>3, <1>6
    <3>. HIDE DEF v, up
    <3>2. Append(parents, v) = [i \in 1 .. pairs + 1 |-> IF i <= pairs THEN parents[i] ELSE v]
      <4>1. pairs \in Nat /\ Tabulated(parents, pairs)
        BY <1>1, <1>4
      <4>. HIDE DEF E
      <4>. QED
        BY <4>1, AppendTabulated
    <3>. QED
      BY <3>1, <3>2 DEF v
  <2>. HIDE DEF up
  <2>2. \A i \in 1 .. pairs + 1 : up[i] = E(i)
    <3>. SUFFICES ASSUME NEW i \in 1 .. pairs + 1
                  PROVE  up[i] = E(i)
      OBVIOUS
    <3>1. up[i] = IF i <= pairs THEN parents[i] ELSE values[count]
      BY <2>1
    <3>2. i <= pairs <=> 2 * i <= count
      BY <1>1, <1>6
    <3>3. i <= pairs => parents[i] = P(i)
      BY <1>1, <1>4
    <3>. QED
      BY <3>1, <3>2, <3>3
  <2>3. (count + 1) \div 2 = pairs + 1
    BY <1>1, <1>6
  <2>4. Tabulated(up, pairs + 1)
    BY <2>1 DEF Tabulated
  <2>. QED
    BY <1>2, <2>2, <2>3, <2>4 DEF Paired, up, P
<1>. QED
  BY <1>1, <1>5, <1>6

(* The nodes over p chunks each, the last over what is left of u.          *)
Lower(a, b) == IF a < b THEN a ELSE b

Tile(n, u, p, i) == ChainingValue(Subtree(n, (i - 1) * p, Lower(p, u - (i - 1) * p)))

Level(n, u, p) == [i \in 1 .. Units(u, p) |-> Tile(n, u, p, i)]

(* How many there are.                                                     *)
LEMMA Tiles ==
  ASSUME NEW u \in Nat \ {0}, NEW p \in Nat \ {0}
  PROVE  /\ Units(u, p) \in Nat \ {0}
         /\ (Units(u, p) - 1) * p \in Nat
         /\ (Units(u, p) - 1) * p < u /\ u <= (Units(u, p) - 1) * p + p
<1>. DEFINE r == (u - 1) \div p
            t == (u - 1) % p
            x == r * p
<1>1. r \in Nat /\ t \in 0 .. p - 1 /\ u - 1 = x + t
  <2>1. u - 1 \in Nat
    OBVIOUS
  <2>. QED
    BY <2>1, DivModNat
<1>. HIDE DEF r, t
<1>2. x \in Nat
  BY <1>1
<1>. DEFINE e == u - x
<1>3. e \in 0 .. p /\ e > 0 /\ u = x + e
  <2>. HIDE DEF x
  <2>. QED
    BY <1>1, <1>2
<1>4. Units(x + e, p) = r + 1
  <2>. HIDE DEF e
  <2>. QED
    BY <1>1, <1>3, UnitsOf
<1>5. Units(u, p) = r + 1 /\ (r + 1) - 1 = r
  <2>1. Units(u, p) = r + 1
    <3>. HIDE DEF e, x
    <3>. QED
      BY <1>3, <1>4
  <2>. QED
    BY <1>1, <2>1
<1>6. x < u /\ u <= x + p
  <2>. HIDE DEF x, e
  <2>. QED
    BY <1>2, <1>3
<1>. QED
  BY <1>1, <1>2, <1>5, <1>6

(* The next level's.                                                       *)
LEMMA TilesHalve ==
  ASSUME NEW u \in Nat \ {0}, NEW p \in Nat \ {0}
  PROVE  Units(u, 2 * p) = (Units(u, p) + 1) \div 2
<1>. DEFINE l == Units(u, p)
            x == (l - 1) * p
<1>1. l \in Nat \ {0} /\ x \in Nat /\ x < u /\ u <= x + p
  BY Tiles
<1>. HIDE DEF l
<1>. DEFINE d == l - 1
            h == d \div 2
            o == d % 2
            q == 2 * p
            y == h * q
            e == u - y
<1>2. d \in Nat /\ h \in Nat /\ o \in {0, 1} /\ d = 2 * h + o /\ (l + 1) \div 2 = h + 1
  BY <1>1
<1>. HIDE DEF d, h, o
<1>3. x = y + o * p /\ y \in Nat /\ q \in Nat \ {0}
  <2>1. (2 * h + o) * p = h * (2 * p) + o * p
    BY <1>2
  <2>2. x = d * p
    BY DEF d
  <2>. QED
    BY <1>2, <2>1, <2>2
<1>4. e \in 0 .. q /\ e > 0 /\ u = y + e
  <2>1. o * p = IF o = 0 THEN 0 ELSE p
    BY <1>2
  <2>. DEFINE z == o * p
  <2>. HIDE DEF x, y
  <2>2. z = 0 \/ z = p
    BY <1>2, <2>1
  <2>3. x = y + z
    BY <1>3
  <2>. HIDE DEF z
  <2>. QED
    BY <1>1, <1>3, <2>2, <2>3
<1>5. Units(y + e, q) = h + 1
  <2>. HIDE DEF e, q
  <2>. QED
    BY <1>2, <1>3, <1>4, UnitsOf
<1>6. Units(u, q) = h + 1
  <2>. HIDE DEF e, y, q
  <2>. QED
    BY <1>4, <1>5
<1>. QED
  BY <1>2, <1>6 DEF l

(* Pairing one level makes the next.                                       *)
LEMMA PairUpLevel ==
  ASSUME NEW n, NEW u \in Nat \ {0}, NEW j \in Nat
  PROVE  PairUp(Level(n, u, PowerOfTwo[j])) = Level(n, u, 2 * PowerOfTwo[j])
<1>. DEFINE p == PowerOfTwo[j]
            q == 2 * p
            l == Units(u, p)
            x == (l - 1) * p
            below == Level(n, u, p)
            up == PairUp(below)
            h == (l + 1) \div 2
<1>0. p \in Nat \ {0} /\ q \in Nat \ {0}
  BY Doubling
<1>1. l \in Nat \ {0} /\ x \in Nat /\ x < u /\ u <= x + p
  <2>. HIDE DEF p
  <2>. QED
    BY <1>0, Tiles
<1>2. Units(u, q) = h
  <2>. HIDE DEF p
  <2>. QED
    BY <1>0, TilesHalve
<1>3. Tabulated(below, l) /\ \A i \in 1 .. l : below[i] = Tile(n, u, p, i)
  <2>. HIDE DEF l, p
  <2>. QED
    BY DEF Tabulated, Level, l
<1>. HIDE DEF below
<1>4. Paired(up, below, l)
  <2>. HIDE DEF l
  <2>. QED
    BY <1>1, <1>3, PairUpIs
<1>. HIDE DEF l, up
<1>5. h \in Nat /\ \A i \in 1 .. h : (2 * i <= l => 2 * i - 1 \in 1 .. l /\ 2 * i \in 1 .. l)
                                  /\ (~(2 * i <= l) => l = 2 * i - 1)
  BY <1>1
<1>6. ASSUME NEW i \in 1 .. h
      PROVE  up[i] = Tile(n, u, q, i)
  <2>. DEFINE f == (i - 1) * q
              a == 2 * i - 1
              b == 2 * i
  <2>1. /\ i \in Nat \ {0} /\ f \in Nat /\ (a - 1) * p = f /\ (b - 1) * p = f + p
    <3>1. i \in Nat \ {0}
      BY <1>5
    <3>2. (a - 1) * p = (i - 1) * (2 * p)
      BY <1>0, <3>1
    <3>3. (b - 1) * p = (i - 1) * (2 * p) + p
      BY <1>0, <3>1
    <3>. QED
      BY <1>0, <3>1, <3>2, <3>3
  <2>2. up[i] = IF b <= l THEN ChainingValue(Parent(below[a], below[b])) ELSE below[l]
    <3>. HIDE DEF h
    <3>1. \A k \in 1 .. (l + 1) \div 2 :
             up[k] = IF 2 * k <= l THEN ChainingValue(Parent(below[2 * k - 1], below[2 * k]))
                     ELSE below[l]
      BY <1>4 DEF Paired
    <3>. QED
      BY <3>1 DEF h
  <2>3. CASE b <= l
    <3>. DEFINE w == Lower(q, u - f)
    <3>1. a \in 1 .. l /\ b \in 1 .. l
      BY <1>5, <2>3
    <3>2. (b - 1) * p <= x
      <4>. DEFINE d == l - b
                  g == b - 1
      <4>1. d \in Nat /\ g \in Nat /\ l - 1 = g + d
        BY <1>1, <2>1, <2>3
      <4>. HIDE DEF d, g, p
      <4>2. (g + d) * p = g * p + d * p /\ g * p \in Nat /\ d * p \in Nat
        BY <1>0, <4>1
      <4>3. g * p <= (l - 1) * p
        BY <4>1, <4>2
      <4>. QED
        BY <4>3 DEF g
    <3>3. f + p <= x
      BY <2>1, <3>2
    <3>. HIDE DEF f, x, p, a, b
    <3>4. p < u - f /\ u - f \in Nat
      BY <1>0, <1>1, <2>1, <3>3
    <3>5. /\ Lower(p, u - f) = p
          /\ Lower(p, u - (f + p)) = w - p
          /\ w \in Nat /\ p < w /\ w <= 2 * p
      BY <1>0, <2>1, <3>4 DEF Lower
    <3>6. below[a] = ChainingValue(Subtree(n, f, p))
      BY <1>3, <2>1, <3>1, <3>5 DEF Tile
    <3>7. below[b] = ChainingValue(Subtree(n, f + p, w - p))
      BY <1>3, <2>1, <3>1, <3>5 DEF Tile
    <3>8. Subtree(n, f, w) = Parent(ChainingValue(Subtree(n, f, p)),
                                    ChainingValue(Subtree(n, f + p, w - p)))
      <4>1. PowerOfTwo[j] < w /\ w <= 2 * PowerOfTwo[j] /\ w \in Nat /\ f \in Nat
        BY <2>1, <3>5 DEF p
      <4>. HIDE DEF w, q, h
      <4>2. Subtree(n, f, w) =
              Parent(ChainingValue(Subtree(n, f, PowerOfTwo[j])),
                     ChainingValue(Subtree(n, f + PowerOfTwo[j], w - PowerOfTwo[j])))
        BY <4>1, SubtreeJoins
      <4>. QED
        BY <4>2 DEF p
    <3>9. up[i] = ChainingValue(Subtree(n, f, w))
      BY <2>2, <2>3, <3>6, <3>7, <3>8
    <3>. QED
      BY <3>9 DEF Tile, f
  <2>4. CASE ~(b <= l)
    <3>1. l = a /\ a \in 1 .. l
      BY <1>1, <1>5, <2>4
    <3>2. x = f
      BY <2>1, <3>1
    <3>. HIDE DEF f, x, p, a, b
    <3>3. Lower(p, u - f) = u - f /\ Lower(q, u - f) = u - f
      <4>1. u - f \in Nat /\ u - f <= p /\ p < 2 * p
        BY <1>0, <1>1, <3>2
      <4>. HIDE DEF q
      <4>2. q = 2 * p
        BY DEF q
      <4>. QED
        BY <1>0, <4>1, <4>2 DEF Lower
    <3>4. below[a] = ChainingValue(Subtree(n, f, u - f))
      BY <1>3, <2>1, <3>1, <3>3 DEF Tile
    <3>5. up[i] = ChainingValue(Subtree(n, f, u - f))
      BY <2>2, <2>4, <3>1, <3>4
    <3>. QED
      BY <3>3, <3>5 DEF Tile, f
  <2>. QED
    BY <2>3, <2>4
<1>7. up = [i \in 1 .. h |-> up[i]]
  BY <1>4 DEF Paired, Tabulated
<1>8. Level(n, u, q) = [i \in 1 .. h |-> Tile(n, u, q, i)]
  <2>. HIDE DEF q, h
  <2>. QED
    BY <1>2 DEF Level
<1>9. up = Level(n, u, q)
  <2>. HIDE DEF h, q
  <2>. QED
    BY <1>6, <1>7, <1>8
<1>. QED
  BY <1>9 DEF up, below

(* The levels of a reduction, until two nodes are left.                    *)
NextLevel(below) == IF Len(below) <= 2 THEN below ELSE PairUp(below)

LevelRun(level, values, count) ==
  level = [k \in 0 .. count |->
             IF k = 0 THEN values
             ELSE LET below == level[k - 1]
                  IN  IF Len(below) <= 2 THEN below ELSE PairUp(below)]

Reducing(level, values, count) ==
  /\ level = [k \in 0 .. count |-> level[k]]
  /\ level[0] = values
  /\ \A k \in 1 .. count : level[k] = NextLevel(level[k - 1])

(* A function is a reduction just if it starts at values and reduces.      *)
LEMMA LevelRuns ==
  ASSUME NEW level, NEW values, NEW count \in Nat
  PROVE  LevelRun(level, values, count) <=> Reducing(level, values, count)
<1>. DEFINE Body(k) == IF k = 0 THEN values
                       ELSE LET below == level[k - 1]
                            IN  IF Len(below) <= 2 THEN below ELSE PairUp(below)
<1>1. Body(0) = values /\ 0 \in 0 .. count
  OBVIOUS
<1>2. \A k \in 1 .. count : k \in 0 .. count /\ Body(k) = NextLevel(level[k - 1])
  BY DEF NextLevel
<1>3. LevelRun(level, values, count) <=> level = [k \in 0 .. count |-> Body(k)]
  BY DEF LevelRun
<1>4. \A k \in 0 .. count : k = 0 \/ k \in 1 .. count
  OBVIOUS
<1>. HIDE DEF Body
<1>5. ASSUME level = [k \in 0 .. count |-> Body(k)]
      PROVE  Reducing(level, values, count)
  <2>1. \A k \in 0 .. count : level[k] = Body(k)
    BY <1>5
  <2>2. level = [k \in 0 .. count |-> level[k]]
    BY <1>5
  <2>. QED
    BY <1>1, <1>2, <2>1, <2>2 DEF Reducing
<1>6. ASSUME Reducing(level, values, count)
      PROVE  level = [k \in 0 .. count |-> Body(k)]
  <2>1. \A k \in 0 .. count : level[k] = Body(k)
    BY <1>1, <1>2, <1>4, <1>6 DEF Reducing
  <2>2. level = [k \in 0 .. count |-> level[k]]
    BY <1>6 DEF Reducing
  <2>. QED
    BY <2>1, <2>2
<1>. QED
  BY <1>3, <1>5, <1>6

(* Level k has more than two nodes until a power of two covers half of     *)
(* them, and then exactly two.                                             *)
Sized(n, u, j, k) ==
  /\ Len(Level(n, u, PowerOfTwo[k])) = Units(u, PowerOfTwo[k])
  /\ Len(Level(n, u, PowerOfTwo[k])) <= 2 <=> k = j
  /\ k = j => Units(u, PowerOfTwo[k]) = 2

(* So it is for every level up to that power.                              *)
LEMMA LevelSize ==
  ASSUME NEW n, NEW u \in Nat, NEW j \in Nat, PowerOfTwo[j] < u, u <= 2 * PowerOfTwo[j],
         NEW k \in 0 .. j
  PROVE  Sized(n, u, j, k)
<1>. DEFINE p == PowerOfTwo[k]
            l == Units(u, p)
            x == (l - 1) * p
<1>0. /\ k \in Nat /\ p \in Nat \ {0} /\ PowerOfTwo[j] \in Nat \ {0} /\ u \in Nat \ {0}
  <2>1. k \in Nat
    OBVIOUS
  <2>. QED
    BY <2>1, Doubling
<1>1. l \in Nat \ {0} /\ x \in Nat /\ x < u /\ u <= x + p
  <2>. HIDE DEF p
  <2>. QED
    BY <1>0, Tiles
<1>2. Len(Level(n, u, p)) = l
  <2>. DEFINE s == Level(n, u, p)
  <2>1. Tabulated(s, l)
    <3>. HIDE DEF p
    <3>. QED
      BY DEF Tabulated, Level
  <2>. HIDE DEF s, l
  <2>. QED
    BY <1>1, <2>1, PairUpIs DEF s
<1>3. CASE k = j
  <2>1. p < u /\ u <= 2 * p
    BY <1>3
  <2>2. l = 2
    <3>1. l # 1
      <4>1. l = 1 => x = 0
        BY <1>0
      <4>. HIDE DEF x, p
      <4>. QED
        BY <1>0, <1>1, <2>1, <4>1
    <3>2. ASSUME l >= 3
          PROVE  FALSE
      <4>. DEFINE d == l - 3
      <4>1. d \in Nat /\ l - 1 = 2 + d
        BY <1>1, <3>2
      <4>. HIDE DEF d, l, p
      <4>2. (2 + d) * p = 2 * p + d * p /\ d * p \in Nat
        BY <1>0, <4>1
      <4>3. x >= 2 * p
        BY <1>0, <4>1, <4>2
      <4>. HIDE DEF x
      <4>. QED
        BY <1>0, <1>1, <2>1, <4>3
    <3>. HIDE DEF l
    <3>. QED
      BY <1>1, <3>1, <3>2
  <2>. QED
    BY <1>2, <1>3, <2>2 DEF Sized
<1>4. CASE k # j
  <2>1. PowerOfTwo[j] >= 2 * p
    <3>1. k < j /\ k \in Nat
      BY <1>4
    <3>. QED
      BY <3>1, PowersGrow
  <2>2. u > 2 * p
    <3>. HIDE DEF p
    <3>. QED
      BY <1>0, <2>1
  <2>3. ~(l <= 2)
    <3>1. CASE l = 1
      <4>1. x = 0
        BY <1>0, <3>1
      <4>. HIDE DEF x, p
      <4>. QED
        BY <1>0, <1>1, <2>2, <4>1
    <3>2. CASE l = 2
      <4>1. x = p
        BY <1>0, <3>2
      <4>. HIDE DEF x, p
      <4>. QED
        BY <1>0, <1>1, <2>2, <4>1
    <3>. HIDE DEF l
    <3>. QED
      BY <1>1, <3>1, <3>2
  <2>. QED
    BY <1>2, <1>4, <2>3 DEF Sized
<1>. QED
  BY <1>3, <1>4

(* The reduction's levels, from the bottom.                                *)
LEMMA LevelsAre ==
  ASSUME NEW n, NEW u \in Nat, NEW j \in Nat, PowerOfTwo[j] < u, u <= 2 * PowerOfTwo[j], j < u
  PROVE  Levels(Level(n, u, 1)) = Level(n, u, PowerOfTwo[j])
<1>. DEFINE V(k) == Level(n, u, PowerOfTwo[Lower(k, j)])
            F == [k \in 0 .. u |-> V(k)]
            values == Level(n, u, 1)
            R == CHOOSE level : LevelRun(level, values, u)
<1>0. PowerOfTwo[0] = 1 /\ 0 \in 0 .. j /\ u \in Nat \ {0}
  BY Doubling
<1>1. Len(values) = u
  <2>1. Sized(n, u, j, 0)
    BY <1>0, LevelSize
  <2>2. Units(u, 1) = u
    BY <1>0 DEF Units
  <2>. QED
    BY <1>0, <2>1, <2>2 DEF Sized
<1>2. V(0) = values
  BY <1>0 DEF Lower
<1>3. ASSUME NEW k \in 1 .. u
      PROVE  V(k) = NextLevel(V(k - 1))
  <2>. DEFINE i == k - 1
  <2>1. i \in Nat /\ i + 1 = k
    OBVIOUS
  <2>. HIDE DEF i
  <2>2. CASE i < j
    <3>1. Lower(i, j) = i /\ Lower(k, j) = i + 1 /\ i \in 0 .. j /\ i # j
      BY <2>1, <2>2 DEF Lower
    <3>2. Sized(n, u, j, i)
      BY <3>1, LevelSize
    <3>3. PairUp(Level(n, u, PowerOfTwo[i])) = Level(n, u, 2 * PowerOfTwo[i])
      BY <1>0, <2>1, PairUpLevel
    <3>4. PowerOfTwo[i + 1] = 2 * PowerOfTwo[i]
      BY <2>1, Doubling
    <3>5. V(k) = NextLevel(V(i))
      BY <3>1, <3>2, <3>3, <3>4 DEF NextLevel, Sized
    <3>. QED
      BY <3>5 DEF i
  <2>3. CASE ~(i < j)
    <3>1. Lower(i, j) = j /\ Lower(k, j) = j /\ j \in 0 .. j
      BY <2>1, <2>3 DEF Lower
    <3>2. Sized(n, u, j, j)
      BY <3>1, LevelSize
    <3>3. V(k) = NextLevel(V(i))
      BY <3>1, <3>2 DEF NextLevel, Sized
    <3>. QED
      BY <3>3 DEF i
  <2>. QED
    BY <2>2, <2>3
<1>. HIDE DEF V
<1>4. Reducing(F, values, u)
  <2>1. \A k \in 1 .. u : k - 1 \in 0 .. u /\ k \in 0 .. u /\ 0 \in 0 .. u
    OBVIOUS
  <2>2. F[0] = values
    BY <1>2
  <2>3. \A k \in 1 .. u : F[k] = NextLevel(F[k - 1])
    BY <1>3, <2>1
  <2>. HIDE DEF values
  <2>. QED
    BY <2>2, <2>3 DEF Reducing
<1>5. LevelRun(F, values, u)
  <2>. HIDE DEF F, values
  <2>. QED
    BY <1>4, LevelRuns
<1>6. Levels(values) = R[u]
  <2>. HIDE DEF values
  <2>. QED
    BY <1>1 DEF Levels, LevelRun
<1>7. Reducing(R, values, u)
  <2>1. LevelRun(R, values, u)
    BY <1>5
  <2>. HIDE DEF R, values
  <2>. QED
    BY <2>1, LevelRuns
<1>. HIDE DEF R
<1>8. R[u] = V(u)
  <2>. DEFINE T == {k \in Nat : k <= u => R[k] = V(k)}
  <2>1. 0 \in T
    BY <1>2, <1>7 DEF Reducing
  <2>2. ASSUME NEW k \in T
        PROVE  k + 1 \in T
    <3>. SUFFICES ASSUME k + 1 <= u
                  PROVE  R[k + 1] = V(k + 1)
      OBVIOUS
    <3>. DEFINE i == k + 1
    <3>1. i \in 1 .. u /\ i - 1 = k /\ R[k] = V(k)
      OBVIOUS
    <3>. HIDE DEF T, i, values, F
    <3>2. V(i) = NextLevel(V(i - 1))
      BY <1>3, <3>1
    <3>3. R[i] = NextLevel(R[i - 1])
      BY <1>7, <3>1 DEF Reducing
    <3>4. R[i] = V(i)
      BY <3>1, <3>2, <3>3
    <3>. QED
      BY <3>4 DEF i
  <2>3. T = Nat
    <3>1. T \in SUBSET Nat
      OBVIOUS
    <3>. HIDE DEF T
    <3>. QED
      BY <2>1, <2>2, <3>1, Induction
  <2>. QED
    BY <2>3
<1>9. V(u) = Level(n, u, PowerOfTwo[j])
  <2>1. Lower(u, j) = j
    BY DEF Lower
  <2>. QED
    BY <2>1 DEF V
<1>. QED
  BY <1>6, <1>8, <1>9

(* Pairing from the bottom is the specification's tree.                    *)
LEMMA LevelsMakeTree ==
  ASSUME NEW n \in Nat
  PROVE  TreeOutput(n) = SpecRoot(n)
<1>. DEFINE u == Units(n, ChunkLen)
<1>1. u \in Nat \ {0}
  <2>. DEFINE m == Done(n)
              c == m \div BlocksPerChunk
              r == m % BlocksPerChunk
  <2>1. c \in Nat /\ r \in 0 .. BlocksPerChunk - 1 /\ m = c * BlocksPerChunk + r
    <3>1. m \in Nat
      BY DoneBounds
    <3>. HIDE DEF m
    <3>. QED
      BY <3>1, PlaceOf
  <2>. HIDE DEF c, r
  <2>2. u = c + 1
    BY <2>1, LastChunk
  <2>. QED
    BY <2>1, <2>2
<1>2. CASE u = 1
  <2>1. Halved(n, 0, 1)
    BY SubtreeLaw
  <2>. QED
    BY <1>2, <2>1 DEF TreeOutput, SpecRoot, Halved
<1>3. CASE u # 1
  <2>1. u >= 2
    BY <1>1, <1>3
  <2>2. ChunkValues(n) = Level(n, u, 1)
    <3>1. ASSUME NEW i \in 1 .. u
          PROVE  ChainingValue(ChunkFrom(Chain(KeyWords, n, i - 1, 0, SharedLeaves(n)),
                                         n, i - 1, SharedLeaves(n))) = Tile(n, u, 1, i)
      <4>. DEFINE f == i - 1
      <4>1. f \in Nat /\ f * 1 = f /\ Lower(1, u - f * 1) = 1
        <5>1. f \in Nat /\ f < u
          BY <1>1
        <5>. HIDE DEF u, f
        <5>. QED
          BY <1>1, <5>1 DEF Lower
      <4>2. Halved(n, f, 1)
        <5>. HIDE DEF f
        <5>. QED
          BY <4>1, SubtreeLaw
      <4>3. Tile(n, u, 1, i) = ChainingValue(ChunkOutput(n, f))
        BY <4>1, <4>2 DEF Tile, Halved
      <4>. QED
        BY <1>1, <4>3, SharedChunk
    <3>2. Units(u, 1) = u
      BY <1>1 DEF Units
    <3>3. Level(n, u, 1) = [i \in 1 .. u |-> Tile(n, u, 1, i)]
      <4>. HIDE DEF u
      <4>. QED
        BY <3>2 DEF Level
    <3>. QED
      BY <3>1, <3>3 DEF ChunkValues
  <2>. HIDE DEF u
  <2>3. PICK j \in Nat : PowerOfTwo[j] < u /\ u <= 2 * PowerOfTwo[j] /\ j < u
    BY <1>1, <2>1, PowerBelow
  <2>. DEFINE p == PowerOfTwo[j]
              two == Level(n, u, p)
  <2>4. p \in Nat \ {0}
    BY Doubling
  <2>5. Levels(ChunkValues(n)) = two
    BY <1>1, <2>2, <2>3, LevelsAre
  <2>6. Units(u, p) = 2
    <3>1. j \in 0 .. j
      OBVIOUS
    <3>2. Sized(n, u, j, j)
      BY <1>1, <2>3, <3>1, LevelSize
    <3>. QED
      BY <3>2 DEF Sized
  <2>7. two[1] = Tile(n, u, p, 1) /\ two[2] = Tile(n, u, p, 2)
    BY <2>6 DEF Level
  <2>8. Tile(n, u, p, 1) = ChainingValue(Subtree(n, 0, p))
    <3>1. (1 - 1) * p = 0 /\ Lower(p, u - 0) = p
      BY <1>1, <2>3, <2>4 DEF Lower
    <3>. QED
      BY <3>1 DEF Tile
  <2>9. Tile(n, u, p, 2) = ChainingValue(Subtree(n, 0 + p, u - p))
    <3>1. (2 - 1) * p = p /\ 0 + p = p /\ Lower(p, u - p) = u - p
      BY <1>1, <2>3, <2>4 DEF Lower
    <3>. QED
      BY <3>1 DEF Tile
  <2>10. Subtree(n, 0, u) = Parent(ChainingValue(Subtree(n, 0, p)),
                                   ChainingValue(Subtree(n, 0 + p, u - p)))
    <3>1. 0 \in Nat /\ u \in Nat
      BY <1>1
    <3>. QED
      BY <2>3, <3>1, SubtreeJoins
  <2>11. TreeOutput(n) = Parent(two[1], two[2])
    BY <1>3, <2>5 DEF TreeOutput, u
  <2>12. TreeOutput(n) = Subtree(n, 0, u)
    BY <2>7, <2>8, <2>9, <2>10, <2>11
  <2>. QED
    BY <2>12 DEF SpecRoot, u
<1>. QED
  BY <1>2, <1>3

----------------------------------------------------------------------------
(* The promise: a read is the one-shot hash of what was absorbed.          *)

(* What a read of n bytes returns, as the promise states it.               *)
LEMMA PromiseBytes ==
  ASSUME NEW n, NEW out_len
  PROVE  Promise!Bytes(n, out_len) = [kind |-> "bytes", bytes |-> RootBytes(TreeOutput(n), out_len)]
BY DEF Promise!Bytes, Promise!RootBytes, Promise!RootBlock, Promise!TreeOutput,
       Promise!Levels, Promise!PairUp, Promise!ChunkValues,
       Promise!SharedLeaves, Promise!ChunkOutput, Promise!ChunkFrom,
       Promise!Chain, Promise!BlocksOf, Promise!ChunkBytes, Promise!ChunkBlock,
       Promise!MessageBlock, Promise!Node, Promise!Parent, Promise!KeyWords,
       Promise!ChainingValue, Promise!Msg, Promise!Zero, Promise!Halves,
       Promise!Word, Promise!Units, Promise!ChunkLen, Promise!PowerOfTwo,
       RootBytes, RootBlock, TreeOutput, Levels, PairUp, ChunkValues,
       SharedLeaves, ChunkOutput, ChunkFrom, Chain, BlocksOf, ChunkBytes,
       ChunkBlock, MessageBlock, Node, Parent, KeyWords, ChainingValue, Msg,
       Zero, Halves, Word, Units, ChunkLen, PowerOfTwo

(* The initial state is the promise's.                                     *)
LEMMA InitRefines == Init => Promise!Init
BY DEF Init, Promise!Init

(* A call is one of the promise's, or leaves it as it was.                 *)
LEMMA StepRefines == IInv /\ [Next]_vars => [Promise!Next]_<<absorbed, result>>
<1>. SUFFICES ASSUME IInv, [Next]_vars
              PROVE  [Promise!Next]_<<absorbed, result>>
  OBVIOUS
<1>1. ASSUME NEW length \in 0 .. MaxChunk, Absorb(length)
      PROVE  Promise!Next
  <2>1. Promise!Absorb(length)
    BY <1>1 DEF Absorb, Promise!Absorb
  <2>. QED
    BY <2>1 DEF Promise!Next
<1>2. ASSUME NEW out_len \in 1 .. MaxOut, Finalize(out_len)
      PROVE  Promise!Next
  <2>1. Root = TreeOutput(absorbed)
    <3>1. absorbed \in Nat
      BY Constants DEF IInv, Position
    <3>. QED
      BY <3>1, RootIs, LevelsMakeTree DEF IInv
  <2>2. ~(out_len < 1) /\ out_len \in 0 .. MaxOut
    BY Constants
  <2>3. Promise!Finalize(out_len)
    BY <1>2, <2>1, <2>2, PromiseBytes DEF Finalize, Promise!Finalize
  <2>. QED
    BY <2>2, <2>3 DEF Promise!Next
<1>3. CASE RejectFinalize
  <2>1. 0 \in 0 .. MaxOut /\ 0 < 1
    BY Constants
  <2>2. Promise!Finalize(0)
    BY <1>3, <2>1 DEF RejectFinalize, Promise!Finalize
  <2>. QED
    BY <2>1, <2>2 DEF Promise!Next
<1>4. CASE UNCHANGED vars
  BY <1>4 DEF vars
<1>. QED
  BY <1>1, <1>2, <1>3, <1>4 DEF Next

----------------------------------------------------------------------------
(* After every call the state stands where one pass over the bytes would:  *)
(* the inductive invariant, which the rest is read off.                    *)
THEOREM InductiveInvariant == Spec => []IInv
<1>. QED
  BY InitHolds, StepHolds, PTL DEF Spec

(* Every counter of the state keeps its range: the stack is never fuller   *)
(* than MAX_STACK, however many bytes the counter counts.                  *)
THEOREM TypesHold == Spec => []TypeOK
BY InductiveInvariant, TypeHolds, PTL

(* absorb resumes: however the message was cut, the position, the pending  *)
(* block and the chunk's value are one pass's, and a block is held back.   *)
THEOREM StreamResumes == Spec => []PositionResumable
BY InductiveInvariant, PositionHolds, PTL

(* _push_chunk_cv merges what it should and no more: an entry for every    *)
(* bit of the chunk count, each the subtree of its chunks.                 *)
THEOREM StackCounts == Spec => []StackIsBinary
BY InductiveInvariant, StackHolds, PTL

(* tree.levels pairs from the bottom, with the leading blocks of all       *)
(* chunks run together, and builds the specification's tree.               *)
THEOREM LevelsBuildTheTree == Spec => []LevelsAreTheTree
<1>1. IInv => LevelsAreTheTree
  <2>1. IInv => absorbed \in Nat
    BY Constants DEF IInv, Position
  <2>. QED
    BY <2>1, LevelsMakeTree DEF LevelsAreTheTree
<1>. QED
  BY <1>1, InductiveInvariant, PTL

(* The stream implements the one-shot hash: finalize at any point returns  *)
(* the hash of the bytes absorbed, and changes nothing.                    *)
THEOREM StreamKeepsPromise == Spec => ImplementsPromise
<1>1. IInv /\ [Next]_vars => [Promise!Next]_<<absorbed, result>>
  BY StepRefines
<1>. QED
  BY <1>1, InitRefines, InductiveInvariant, PTL DEF Spec, Promise!Spec, ImplementsPromise

=============================================================================
