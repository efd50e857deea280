----------------------------- MODULE Arithmetic -----------------------------
(***************************************************************************)
(* Facts about \div, %, tabulated sequences and induction that the proofs  *)
(* of this project cite.                                                   *)
(***************************************************************************)
EXTENDS Binary, Sequences, TLAPS

Order == INSTANCE WellFoundedInduction
Seqs  == INSTANCE SequenceTheorems

(* The quotient and the remainder by a positive number.                    *)
LEMMA DivMod ==
  ASSUME NEW n \in Int, NEW b \in Nat \ {0}
  PROVE  /\ n \div b \in Int
         /\ n % b \in 0 .. b - 1
         /\ n = (n \div b) * b + (n % b)
OBVIOUS

(* They are the only ones.                                                 *)
LEMMA DivModUnique ==
  ASSUME NEW b \in Nat \ {0}, NEW q \in Int, NEW r \in 0 .. b - 1
  PROVE  /\ (q * b + r) \div b = q
         /\ (q * b + r) % b = r
OBVIOUS

(* A natural number has a natural quotient.                                *)
LEMMA DivModNat ==
  ASSUME NEW n \in Nat, NEW b \in Nat \ {0}
  PROVE  /\ n \div b \in Nat
         /\ n % b \in 0 .. b - 1
         /\ n = (n \div b) * b + (n % b)
OBVIOUS

(* Adding whole multiples shifts the quotient and keeps the remainder.     *)
LEMMA DivModShift ==
  ASSUME NEW b \in Nat \ {0}, NEW n \in Int, NEW k \in Int
  PROVE  /\ (n + k * b) \div b = (n \div b) + k
         /\ (n + k * b) % b = n % b
<1>. DEFINE q == n \div b
            r == n % b
<1>1. q \in Int /\ r \in 0 .. b - 1 /\ n = q * b + r
  BY DivMod
<1>. HIDE DEF q, r
<1>2. n + k * b = (q + k) * b + r
  BY <1>1
<1>3. (n + k * b) \div b = q + k /\ (n + k * b) % b = r
  <2>. DEFINE p == q + k
  <2>1. p \in Int
    BY <1>1
  <2>2. n + k * b = p * b + r
    BY <1>2
  <2>. HIDE DEF p
  <2>3. (p * b + r) \div b = p /\ (p * b + r) % b = r
    BY <1>1, <2>1, DivModUnique
  <2>. QED
    BY <2>2, <2>3 DEF p
<1>. QED
  BY <1>3 DEF q, r

(* Only the remainder of a summand matters to the remainder of a sum.      *)
LEMMA ModSum ==
  ASSUME NEW b \in Nat \ {0}, NEW x \in Int, NEW y \in Int
  PROVE  ((x % b) + y) % b = (x + y) % b
<1>. DEFINE q == x \div b
            r == x % b
<1>1. q \in Int /\ r \in Int /\ x = q * b + r
  BY DivMod
<1>. HIDE DEF q, r
<1>2. x + y = (r + y) + q * b
  BY <1>1
<1>3. ((r + y) + q * b) % b = (r + y) % b
  <2>. DEFINE z == r + y
  <2>1. z \in Int
    BY <1>1
  <2>. HIDE DEF z
  <2>2. (z + q * b) % b = z % b
    BY <1>1, <2>1, DivModShift
  <2>. QED
    BY <2>2 DEF z
<1>. QED
  BY <1>2, <1>3 DEF r

(* A number below the modulus is its own remainder.                        *)
LEMMA ModSmall ==
  ASSUME NEW b \in Nat \ {0}, NEW x \in 0 .. b - 1
  PROVE  x % b = x
OBVIOUS

(* The quotient grows with its dividend.                                   *)
LEMMA DivGrows ==
  ASSUME NEW b \in Nat \ {0}, NEW x \in Nat, NEW y \in Nat, x <= y
  PROVE  x \div b <= y \div b
<1>. DEFINE q == x \div b
            p == y \div b
<1>1. /\ q \in Nat /\ p \in Nat
      /\ q * b <= x /\ y < p * b + b
  <2>1. /\ q \in Nat /\ x % b \in 0 .. b - 1 /\ x = q * b + (x % b)
        /\ p \in Nat /\ y % b \in 0 .. b - 1 /\ y = p * b + (y % b)
    BY DivModNat
  <2>2. q * b \in Nat /\ p * b \in Nat
    BY <2>1
  <2>. QED
    BY <2>1, <2>2
<1>. HIDE DEF q, p
<1>2. q * b < (p + 1) * b
  BY <1>1
<1>3. q < p + 1
  <2>1. q >= p + 1 => q * b >= (p + 1) * b
    BY <1>1
  <2>. QED
    BY <1>1, <1>2, <2>1
<1>. QED
  BY <1>1, <1>3 DEF q, p

(* Dividing in two goes.                                                   *)
LEMMA DivTwice ==
  ASSUME NEW x \in Nat, NEW b \in Nat \ {0}, NEW c \in Nat \ {0}
  PROVE  /\ x \div b \in Nat
         /\ (x \div b) \div c = x \div (b * c)
<1>. DEFINE q == x \div b
            r == x % b
            p == q \div c
            s == q % c
            d == b * c
            e == s * b + r
<1>1. q \in Nat /\ r \in 0 .. b - 1 /\ x = q * b + r
  BY DivModNat
<1>2. p \in Nat /\ s \in 0 .. c - 1 /\ q = p * c + s
  <2>. HIDE DEF q
  <2>. QED
    BY <1>1, DivModNat
<1>. HIDE DEF q, r, p, s
<1>3. x = p * d + e
  BY <1>1, <1>2
<1>4. d \in Nat \ {0} /\ e \in 0 .. d - 1
  <2>1. d \in Nat \ {0}
    OBVIOUS
  <2>2. e \in Nat
    BY <1>1, <1>2
  <2>3. s * b <= (c - 1) * b
    BY <1>2
  <2>4. e < d
    BY <1>1, <1>2, <2>2, <2>3
  <2>. QED
    BY <2>1, <2>2, <2>4
<1>. HIDE DEF d, e
<1>5. x \div d = p
  BY <1>2, <1>3, <1>4, DivModUnique
<1>. QED
  BY <1>1, <1>5 DEF q, p, d

(* A byte of a block is a byte of the blocks.                              *)
LEMMA ByteOfBlocks ==
  ASSUME NEW b \in Nat \ {0}, NEW n \in Nat, NEW i \in 1 .. n, NEW j \in 0 .. b - 1
  PROVE  (i - 1) * b + j \in 0 .. n * b - 1
<1>. DEFINE a == (i - 1) * b
<1>1. a \in Nat /\ i * b = a + b /\ i * b <= n * b /\ n * b \in Nat
  OBVIOUS
<1>. HIDE DEF a
<1>2. a + j \in 0 .. n * b - 1
  BY <1>1
<1>. QED
  BY <1>2 DEF a

(* The quotient by a divisor scaled with its dividend.                     *)
LEMMA DivScaled ==
  ASSUME NEW m \in Nat \ {0}, NEW u \in Nat
  PROVE  u \div m = (8 * u) \div (8 * m)
<1>. DEFINE q == u \div m
            r == u % m
<1>1. q \in Int /\ r \in 0 .. m - 1 /\ u = q * m + r
  BY DivMod
<1>. HIDE DEF q, r
<1>2. 8 * u = q * (8 * m) + 8 * r
  BY <1>1
<1>3. 8 * r \in 0 .. (8 * m) - 1 /\ 8 * m \in Nat \ {0}
  BY <1>1
<1>4. (q * (8 * m) + 8 * r) \div (8 * m) = q
  BY <1>1, <1>3, DivModUnique
<1>. QED
  BY <1>2, <1>4 DEF q

(* A stream `p` bytes into a block of `b` takes `len` more.  The blocks it *)
(* completes are one of two counts that do not depend on `p`, and at most  *)
(* one apart; what is left over fits in a block.                           *)
LEMMA QuotientBounds ==
  ASSUME NEW b \in Nat \ {0}, NEW p \in 0 .. b - 1, NEW len \in Nat
  PROVE  /\ (p + len) \div b \in Nat
         /\ len \div b \in Nat
         /\ (b - 1 + len) \div b \in Nat
         /\ (p + len) \div b \in {len \div b, (b - 1 + len) \div b}
         /\ (b - 1 + len) \div b - (len \div b) \in {0, 1}
         /\ p + len - ((p + len) \div b) * b \in 0 .. b - 1
         /\ p + len < ((b - 1 + len) \div b + 1) * b
<1>. DEFINE q == len \div b
            r == len % b
<1>1. q \in Nat /\ r \in 0 .. b - 1 /\ len = q * b + r
  BY DivModNat
<1>. HIDE DEF q, r
<1>2. ASSUME NEW z \in 0 .. b - 1
      PROVE  /\ (z + len) \div b = IF z + r < b THEN q ELSE q + 1
             /\ z + len - ((z + len) \div b) * b
                  = IF z + r < b THEN z + r ELSE z + r - b
  <2>. DEFINE q1 == q + 1
              y  == z + r
              y1 == z + r - b
  <2>1. /\ q1 \in Int /\ y \in Int /\ y1 \in Int
        /\ z + len = q * b + y /\ z + len = q1 * b + y1
    BY <1>1
  <2>2. CASE z + r < b
    <3>1. y \in 0 .. b - 1
      BY <1>1, <2>2
    <3>. HIDE DEF y
    <3>2. (q * b + y) \div b = q
      BY <1>1, <3>1, DivModUnique
    <3>3. (z + len) \div b = q /\ z + len - q * b = y
      BY <1>1, <2>1, <3>1, <3>2
    <3>. QED
      BY <2>2, <3>3 DEF y
  <2>3. CASE ~(z + r < b)
    <3>1. y1 \in 0 .. b - 1
      BY <1>1, <2>3
    <3>. HIDE DEF y1, q1
    <3>2. (q1 * b + y1) \div b = q1
      BY <2>1, <3>1, DivModUnique
    <3>3. (z + len) \div b = q1 /\ z + len - q1 * b = y1
      BY <1>1, <2>1, <3>1, <3>2
    <3>. QED
      BY <2>3, <3>3 DEF y1, q1
  <2>. QED
    BY <2>2, <2>3
<1>. DEFINE a  == (p + len) \div b
            hi == (b - 1 + len) \div b
            t  == p + len - a * b
<1>3. /\ a = IF p + r < b THEN q ELSE q + 1
      /\ t = IF p + r < b THEN p + r ELSE p + r - b
  BY <1>2
<1>4. hi = IF r = 0 THEN q ELSE q + 1
  <2>1. b - 1 \in 0 .. b - 1
    OBVIOUS
  <2>2. hi = IF (b - 1) + r < b THEN q ELSE q + 1
    BY <2>1, <1>2
  <2>. QED
    BY <2>2, <1>1
<1>. HIDE DEF a, hi, t
<1>5. p + len < (hi + 1) * b
  <2>1. CASE r = 0
    BY <2>1, <1>1, <1>4
  <2>2. CASE r > 0
    <3>1. (hi + 1) * b = q * b + 2 * b
      BY <2>2, <1>1, <1>4
    <3>. QED
      BY <3>1, <1>1
  <2>. QED
    BY <1>1, <2>1, <2>2
<1>6. /\ a \in Nat /\ hi \in Nat /\ a \in {q, hi} /\ hi - q \in {0, 1}
      /\ t \in 0 .. b - 1
  BY <1>1, <1>3, <1>4
<1>. QED
  BY <1>1, <1>5, <1>6 DEF a, hi, t, q

(* A sequence of length n, whatever its elements; and concatenation as an  *)
(* operator the provers leave alone until it is expanded.                  *)
Tabulated(s, n) == s = [i \in 1 .. n |-> s[i]]
Concat(s, t)    == s \o t

LEMMA ConcatTabulated ==
  ASSUME NEW m \in Nat, NEW n \in Nat, NEW s, NEW t,
         Tabulated(s, m), Tabulated(t, n)
  PROVE  /\ Tabulated(Concat(s, t), m + n)
         /\ \A i \in 1 .. m + n :
              Concat(s, t)[i] = IF i <= m THEN s[i] ELSE t[i - m]
<1>. DEFINE S == {s[i] : i \in 1 .. m} \cup {t[i] : i \in 1 .. n}
            u == s \o t
            k == m + n
<1>1. s \in [1 .. m -> S]
  BY DEF Tabulated
<1>2. t \in [1 .. n -> S]
  BY DEF Tabulated
<1>. HIDE DEF S
<1>3. s \in Seq(S) /\ t \in Seq(S) /\ Len(s) = m /\ Len(t) = n
  BY <1>1, <1>2
<1>4. u \in Seq(S) /\ Len(u) = k
  BY <1>3
<1>5. \A i \in 1 .. k : u[i] = IF i <= m THEN s[i] ELSE t[i - m]
  BY <1>3
<1>. HIDE DEF u, k
<1>6. u \in [1 .. k -> S]
  BY <1>4
<1>7. Tabulated(u, k)
  BY <1>6 DEF Tabulated
<1>. QED
  BY <1>5, <1>7 DEF u, k, Concat

(* So is an element appended to one.                                       *)
LEMMA AppendTabulated ==
  ASSUME NEW m \in Nat, NEW s, NEW x, Tabulated(s, m)
  PROVE  Append(s, x) = [i \in 1 .. m + 1 |-> IF i <= m THEN s[i] ELSE x]
<1>. DEFINE S == {s[i] : i \in 1 .. m} \cup {x}
            u == Append(s, x)
            k == m + 1
<1>1. s \in [1 .. m -> S]
  BY DEF Tabulated
<1>2. x \in S
  OBVIOUS
<1>. HIDE DEF S
<1>3. s \in Seq(S) /\ Len(s) = m
  BY <1>1
<1>4. u \in Seq(S) /\ Len(u) = k
  BY <1>2, <1>3
<1>5. \A i \in 1 .. k : u[i] = IF i <= m THEN s[i] ELSE x
  BY <1>2, <1>3
<1>. HIDE DEF u, k
<1>6. u \in [1 .. k -> S]
  BY <1>4
<1>. QED
  BY <1>5, <1>6 DEF u, k

(* The elements of a concatenation and of an appended sequence.            *)
LEMMA ConcatElements ==
  ASSUME NEW S, NEW x \in Seq(S), NEW y \in Seq(S)
  PROVE  /\ x \o y \in Seq(S) /\ Len(x \o y) = Len(x) + Len(y)
         /\ \A i \in 1 .. Len(x) : (x \o y)[i] = x[i]
         /\ \A i \in 1 .. Len(x) + Len(y) :
              i > Len(x) => i - Len(x) \in 1 .. Len(y) /\ (x \o y)[i] = y[i - Len(x)]
<1>. DEFINE u == x \o y
            m == Len(x)
            n == Len(y)
<1>1. /\ u \in Seq(S) /\ Len(u) = m + n /\ m \in Nat /\ n \in Nat
      /\ \A i \in 1 .. m + n : u[i] = IF i <= m THEN x[i] ELSE y[i - m]
  BY Seqs!ConcatProperties, Seqs!LenProperties
<1>. HIDE DEF u, m, n
<1>2. \A i \in 1 .. m : u[i] = x[i]
  BY <1>1
<1>3. \A i \in 1 .. m + n : i > m => i - m \in 1 .. n /\ u[i] = y[i - m]
  BY <1>1
<1>. QED
  BY <1>1, <1>2, <1>3 DEF u, m, n

(* The elements of a sequence one longer.                                  *)
LEMMA AppendElements ==
  ASSUME NEW S, NEW x \in Seq(S), NEW e \in S
  PROVE  /\ Append(x, e) \in Seq(S) /\ Len(Append(x, e)) = Len(x) + 1
         /\ Append(x, e) # <<>>
         /\ \A i \in 1 .. Len(x) + 1 : Append(x, e)[i] = IF i <= Len(x) THEN x[i] ELSE e
<1>. DEFINE u == Append(x, e)
            m == Len(x)
<1>1. /\ u \in Seq(S) /\ Len(u) = m + 1 /\ u # <<>> /\ m \in Nat
      /\ \A i \in 1 .. m : u[i] = x[i]
      /\ u[m + 1] = e
  BY Seqs!AppendProperties, Seqs!LenProperties
<1>. HIDE DEF u, m
<1>2. \A i \in 1 .. m + 1 : u[i] = IF i <= m THEN x[i] ELSE e
  BY <1>1
<1>. QED
  BY <1>1, <1>2 DEF u, m

(* A sequence that starts with x and goes on with y is their               *)
(* concatenation; and concatenation may be bracketed either way.           *)
LEMMA ConcatIs ==
  ASSUME NEW S, NEW x \in Seq(S), NEW y \in Seq(S), NEW z \in Seq(S),
         Len(z) = Len(x) + Len(y),
         \A i \in 1 .. Len(x) : z[i] = x[i],
         \A i \in 1 .. Len(y) : z[Len(x) + i] = y[i]
  PROVE  x \o y = z
<1>. DEFINE u == x \o y
<1>1. u \in Seq(S) /\ Len(u) = Len(x) + Len(y) /\ Len(x) \in Nat /\ Len(y) \in Nat
  BY Seqs!ConcatProperties, Seqs!LenProperties
<1>2. \A i \in 1 .. Len(u) : u[i] = IF i <= Len(x) THEN x[i] ELSE y[i - Len(x)]
  BY <1>1, Seqs!ConcatProperties
<1>. HIDE DEF u
<1>3. ASSUME NEW i \in 1 .. Len(u)
      PROVE  u[i] = z[i]
  <2>1. CASE i <= Len(x)
    BY <1>2, <2>1
  <2>2. CASE i > Len(x)
    <3>1. i - Len(x) \in 1 .. Len(y) /\ Len(x) + (i - Len(x)) = i
      BY <1>1, <2>2
    <3>. QED
      BY <1>2, <2>2, <3>1
  <2>. QED
    BY <2>1, <2>2
<1>4. u = z
  BY <1>1, <1>3, Seqs!SeqEqual
<1>. QED
  BY <1>4 DEF u

(* Concatenation is associative.                                           *)
LEMMA ConcatAssoc ==
  ASSUME NEW S, NEW x \in Seq(S), NEW y \in Seq(S), NEW z \in Seq(S)
  PROVE  (x \o y) \o z = x \o (y \o z)
BY Seqs!ConcatAssociative

----------------------------------------------------------------------------
(* Induction, stated of a set of numbers instead of a predicate: the set   *)
(* that a proof is about is an ordinary value, which the provers can       *)
(* instantiate.                                                            *)

(* A set of naturals that is not empty has a least element.                *)
LEMMA LeastElement ==
  ASSUME NEW T \in SUBSET Nat, T # {}
  PROVE  \E n \in T : \A m \in T : n <= m
<1>. DEFINE R == {ss \in Nat \X Nat : ss[1] < ss[2]}
<1>1. Order!IsWellFoundedOn(R, Nat)
  BY Order!NatLessThanWellFounded DEF Order!OpToRel
<1>. HIDE DEF R
<1>2. \E n \in T : \A m \in T : ~ (<<m, n>> \in R)
  BY <1>1, Order!WFMin
<1>3. \A n, m \in T : ~ (<<m, n>> \in R) => n <= m
  BY DEF R
<1>. QED
  BY <1>2, <1>3

(* What holds of 0 and of the successor of each, holds of all.             *)
LEMMA Induction ==
  ASSUME NEW T \in SUBSET Nat, 0 \in T, \A n \in T : n + 1 \in T
  PROVE  T = Nat
<1>. DEFINE U == Nat \ T
<1>. SUFFICES ASSUME U # {}
              PROVE  FALSE
  OBVIOUS
<1>1. U \in SUBSET Nat
  OBVIOUS
<1>2. PICK n \in U : \A m \in U : n <= m
  <2>. HIDE DEF U
  <2>. QED
    BY <1>1, LeastElement
<1>3. n \in Nat /\ n # 0 /\ n - 1 \in Nat
  BY <1>2
<1>4. n - 1 \in T
  BY <1>2, <1>3
<1>. QED
  BY <1>2, <1>3, <1>4

(* From all the smaller numbers.                                           *)
LEMMA StrongInduction ==
  ASSUME NEW T \in SUBSET Nat,
         \A n \in Nat : (\A m \in 0 .. n - 1 : m \in T) => n \in T
  PROVE  T = Nat
<1>. DEFINE U == Nat \ T
<1>. SUFFICES ASSUME U # {}
              PROVE  FALSE
  OBVIOUS
<1>1. U \in SUBSET Nat
  OBVIOUS
<1>2. PICK n \in U : \A m \in U : n <= m
  <2>. HIDE DEF U
  <2>. QED
    BY <1>1, LeastElement
<1>3. n \in Nat /\ n \notin T
  BY <1>2
<1>4. \A m \in 0 .. n - 1 : m \in T
  BY <1>2
<1>. QED
  BY <1>3, <1>4

(* A bounded recursion whose steps stay in a set defines a function.       *)
Recurs(f, n, F) == \A k \in 1 .. n : f[k] = F[k][f[k - 1]]

(* There is such a function,                                               *)
LEMMA RecursionExists ==
  ASSUME NEW S, NEW a \in S, NEW n \in Nat, NEW F \in [1 .. n -> [S -> S]]
  PROVE  \E f : f \in [0 .. n -> S] /\ f[0] = a /\ Recurs(f, n, F)
<1>. DEFINE Is(f, m) == /\ f \in [0 .. m -> S]
                        /\ f[0] = a
                        /\ \A k \in 1 .. m : f[k] = F[k][f[k - 1]]
            T == {m \in Nat : m <= n => \E f : Is(f, m)}
<1>1. 0 \in T
  <2>1. Is([k \in 0 .. 0 |-> a], 0)
    OBVIOUS
  <2>. QED
    BY <2>1
<1>2. ASSUME NEW m \in T
      PROVE  m + 1 \in T
  <2>. HIDE DEF Is
  <2>0. m \in Nat /\ m + 1 \in Nat /\ (m <= n => \E f : Is(f, m))
    OBVIOUS
  <2>. SUFFICES ASSUME m + 1 <= n
                PROVE  \E f : Is(f, m + 1)
    BY <2>0
  <2>1. PICK f : Is(f, m)
    BY <2>0
  <2>. USE DEF Is
  <2>. DEFINE g == [k \in 0 .. m + 1 |-> IF k = m + 1 THEN F[m + 1][f[m]] ELSE f[k]]
  <2>2. g \in [0 .. m + 1 -> S] /\ g[0] = a
    BY <2>0, <2>1
  <2>3. ASSUME NEW k \in 1 .. m + 1
        PROVE  g[k] = F[k][g[k - 1]]
    BY <2>0, <2>1
  <2>4. Is(g, m + 1)
    BY <2>2, <2>3
  <2>. HIDE DEF g, Is
  <2>. QED
    BY <2>4
<1>3. T = Nat
  <2>1. T \in SUBSET Nat
    OBVIOUS
  <2>. HIDE DEF T
  <2>. QED
    BY <1>1, <1>2, <2>1, Induction
<1>4. PICK f : Is(f, n)
  BY <1>3
<1>5. f \in [0 .. n -> S] /\ f[0] = a /\ Recurs(f, n, F)
  BY <1>4 DEF Recurs
<1>. QED
  BY <1>5

(* It is the only function that satisfies its equations.                   *)
LEMMA RecursionUnique ==
  ASSUME NEW n \in Nat, NEW F, NEW f, NEW g, f[0] = g[0],
         Recurs(f, n, F), Recurs(g, n, F)
  PROVE  \A k \in 0 .. n : f[k] = g[k]
<1>. DEFINE T == {k \in Nat : k <= n => f[k] = g[k]}
<1>1. 0 \in T
  OBVIOUS
<1>2. ASSUME NEW k \in T
      PROVE  k + 1 \in T
  <2>. SUFFICES ASSUME k + 1 <= n
                PROVE  f[k + 1] = g[k + 1]
    OBVIOUS
  <2>1. k + 1 \in 1 .. n /\ (k + 1) - 1 = k /\ f[k] = g[k]
    OBVIOUS
  <2>. QED
    BY <2>1 DEF Recurs
<1>3. T = Nat
  <2>1. T \in SUBSET Nat
    OBVIOUS
  <2>. HIDE DEF T
  <2>. QED
    BY <1>1, <1>2, <2>1, Induction
<1>. QED
  BY <1>3

(* The same step n times.                                                  *)
Steps(f, n, F) == \A k \in 1 .. n : f[k] = F[f[k - 1]]

Iterates(f, S, a, n, F) == f \in [0 .. n -> S] /\ f[0] = a /\ Steps(f, n, F)

(* and the same for one step repeated.                                     *)
LEMMA IterationExists ==
  ASSUME NEW S, NEW a \in S, NEW n \in Nat, NEW F \in [S -> S]
  PROVE  \E f : Iterates(f, S, a, n, F)
<1>. DEFINE G == [k \in 1 .. n |-> F]
<1>1. G \in [1 .. n -> [S -> S]] /\ \A k \in 1 .. n : G[k] = F
  OBVIOUS
<1>. HIDE DEF G
<1>2. PICK f : f \in [0 .. n -> S] /\ f[0] = a /\ Recurs(f, n, G)
  BY <1>1, RecursionExists
<1>3. \A k \in 1 .. n : f[k] = F[f[k - 1]]
  BY <1>1, <1>2 DEF Recurs
<1>4. Iterates(f, S, a, n, F)
  BY <1>2, <1>3 DEF Iterates, Steps
<1>. QED
  BY <1>4

(* A step repeated until it changes nothing: where it stops does not       *)
(* depend on whether the first step is counted, nor on for how long it is  *)
(* repeated after that.                                                    *)
LEMMA IterationSettles ==
  ASSUME NEW F, NEW m \in Nat, NEW n \in Nat, NEW f, NEW g,
         Steps(f, m, F), Steps(g, n, F),
         g[0] = F[f[0]],
         F[f[m]] = f[m], F[g[n]] = g[n]
  PROVE  f[m] = g[n]
<1>. DEFINE h == [k \in Nat |-> IF k <= m THEN f[k] ELSE f[m]]
            T == {k \in Nat : h[k + 1] = IF k <= n THEN g[k] ELSE g[n]}
<1>. USE DEF Steps
<1>1. ASSUME NEW k \in Nat
      PROVE  h[k + 1] = F[h[k]]
  <2>1. CASE k < m
    <3>1. k + 1 \in 1 .. m /\ (k + 1) - 1 = k /\ k <= m /\ k + 1 <= m
      BY <2>1
    <3>. QED
      BY <3>1
  <2>2. CASE k >= m
    <3>1. ~(k + 1 <= m) /\ (k <= m => k = m)
      BY <2>2
    <3>2. h[k + 1] = f[m] /\ h[k] = f[m]
      BY <3>1
    <3>. QED
      BY <3>2
  <2>. QED
    BY <2>1, <2>2
<1>2. 0 \in T
  <2>1. h[0] = f[0] /\ h[0 + 1] = F[h[0]]
    BY <1>1
  <2>. QED
    BY <2>1
<1>. HIDE DEF h
<1>3. ASSUME NEW k \in T
      PROVE  k + 1 \in T
  <2>1. h[(k + 1) + 1] = F[h[k + 1]]
    BY <1>1
  <2>2. CASE k < n
    <3>1. k + 1 \in 1 .. n /\ (k + 1) - 1 = k /\ k <= n /\ k + 1 <= n
      BY <2>2
    <3>. QED
      BY <2>1, <3>1
  <2>3. CASE k >= n
    <3>1. ~(k + 1 <= n) /\ (k <= n => k = n)
      BY <2>3
    <3>. QED
      BY <2>1, <3>1
  <2>. QED
    BY <2>2, <2>3
<1>4. T = Nat
  <2>1. T \in SUBSET Nat
    OBVIOUS
  <2>. HIDE DEF T
  <2>. QED
    BY <1>2, <1>3, <2>1, Induction
<1>5. h[(m + n) + 1] = g[n]
  <2>1. \A k \in Nat : h[k + 1] = IF k <= n THEN g[k] ELSE g[n]
    BY <1>4
  <2>2. m + n \in Nat /\ (m + n <= n => m + n = n)
    OBVIOUS
  <2>. QED
    BY <2>1, <2>2
<1>6. h[(m + n) + 1] = f[m]
  BY DEF h
<1>. QED
  BY <1>5, <1>6

(* A step repeated without a bound,                                        *)
IteratesOn(g, S, a, F) ==
  g \in [Nat -> S] /\ g[0] = a /\ \A n \in Nat : g[n + 1] = F[g[n]]

(* which defines a function on the naturals.                               *)
LEMMA UnboundedIteration ==
  ASSUME NEW S, NEW a \in S, NEW F \in [S -> S]
  PROVE  \E g : IteratesOn(g, S, a, F)
<1>. DEFINE B(n) == CHOOSE f : Iterates(f, S, a, n, F)
            g    == [n \in Nat |-> B(n)[n]]
<1>1. ASSUME NEW n \in Nat
      PROVE  Iterates(B(n), S, a, n, F)
  BY IterationExists
<1>. HIDE DEF B
<1>2. g \in [Nat -> S] /\ g[0] = a
  <2>1. \A n \in Nat : n \in 0 .. n
    OBVIOUS
  <2>. QED
    BY <1>1, <2>1 DEF Iterates
<1>3. ASSUME NEW n \in Nat
      PROVE  B(n + 1)[n + 1] = F[B(n)[n]]
  <2>. DEFINE G == [k \in 1 .. n |-> F]
              f == B(n)
              h == B(n + 1)
  <2>1. /\ f \in [0 .. n -> S] /\ f[0] = a /\ Steps(f, n, F)
        /\ h[0] = a /\ Steps(h, n + 1, F)
    BY <1>1 DEF Iterates
  <2>. HIDE DEF f, h
  <2>2. Recurs(f, n, G) /\ Recurs(h, n, G)
    BY <2>1 DEF Recurs, Steps
  <2>. HIDE DEF G
  <2>3. \A k \in 0 .. n : f[k] = h[k]
    BY <2>1, <2>2, RecursionUnique
  <2>4. n + 1 \in 1 .. n + 1 /\ (n + 1) - 1 = n /\ n \in 0 .. n
    OBVIOUS
  <2>5. h[n + 1] = F[f[n]]
    BY <2>1, <2>3, <2>4 DEF Steps
  <2>. QED
    BY <2>5 DEF f, h
<1>4. \A n \in Nat : g[n + 1] = F[g[n]]
  BY <1>3
<1>. HIDE DEF g
<1>5. IteratesOn(g, S, a, F)
  BY <1>2, <1>4 DEF IteratesOn
<1>. QED
  BY <1>5

----------------------------------------------------------------------------
(* The powers of two.                                                      *)

(* They are what their recursion says.                                     *)
LEMMA Doubling ==
  /\ PowerOfTwo \in [Nat -> Nat \ {0}]
  /\ PowerOfTwo[0] = 1
  /\ \A n \in Nat : PowerOfTwo[n + 1] = 2 * PowerOfTwo[n]
<1>. DEFINE S     == Nat \ {0}
            F     == [x \in S |-> 2 * x]
            Is(g) == g = [k \in Nat |-> IF k = 0 THEN 1 ELSE 2 * g[k - 1]]
            two   == CHOOSE g : Is(g)
<1>1. 1 \in S /\ F \in [S -> S] /\ \A x \in S : F[x] = 2 * x
  OBVIOUS
<1>2. PICK f : IteratesOn(f, S, 1, F)
  <2>. HIDE DEF S, F, Is, two
  <2>. QED
    BY <1>1, UnboundedIteration
<1>. HIDE DEF F
<1>3. Is(f)
  <2>1. ASSUME NEW k \in Nat, k # 0
        PROVE  f[k] = 2 * f[k - 1]
    <3>1. k - 1 \in Nat /\ (k - 1) + 1 = k
      BY <2>1
    <3>. QED
      BY <1>1, <1>2, <3>1 DEF IteratesOn
  <2>. QED
    BY <1>2, <2>1 DEF IteratesOn
<1>4. PowerOfTwo = two
  BY DEF PowerOfTwo
<1>5. Is(two)
  <2>. HIDE DEF Is
  <2>. QED
    BY <1>3
<1>. HIDE DEF two
<1>6. two[0] = 1 /\ \A n \in Nat : two[n + 1] = 2 * two[n]
  <2>1. \A n \in Nat : n + 1 \in Nat /\ n + 1 # 0 /\ (n + 1) - 1 = n
    OBVIOUS
  <2>. QED
    BY <1>5, <2>1
<1>7. \A n \in Nat : two[n] \in S
  <2>. DEFINE T == {n \in Nat : two[n] \in S}
  <2>1. 0 \in T
    BY <1>6
  <2>2. ASSUME NEW n \in T
        PROVE  n + 1 \in T
    BY <1>6
  <2>3. T \in SUBSET Nat
    OBVIOUS
  <2>4. T = Nat
    <3>. HIDE DEF T
    <3>. QED
      BY <2>1, <2>2, <2>3, Induction
  <2>. QED
    BY <2>4
<1>8. two \in [Nat -> S]
  <2>1. DOMAIN two = Nat /\ two = [k \in Nat |-> two[k]]
    BY <1>5
  <2>. QED
    BY <1>7, <2>1
<1>. QED
  BY <1>4, <1>6, <1>8

(* A power is larger than its exponent, and a larger one at least twice    *)
(* the smaller.                                                            *)
LEMMA PowersGrow ==
  /\ \A n \in Nat : PowerOfTwo[n] > n
  /\ \A m \in Nat, n \in Nat : m < n => PowerOfTwo[n] >= 2 * PowerOfTwo[m]
<1>1. \A n \in Nat : PowerOfTwo[n] \in Nat \ {0} /\ PowerOfTwo[n + 1] = 2 * PowerOfTwo[n]
  BY Doubling
<1>2. \A n \in Nat : PowerOfTwo[n] > n
  <2>. DEFINE T == {n \in Nat : PowerOfTwo[n] > n}
  <2>1. 0 \in T
    BY Doubling
  <2>2. ASSUME NEW n \in T
        PROVE  n + 1 \in T
    BY <1>1
  <2>3. T \in SUBSET Nat
    OBVIOUS
  <2>. HIDE DEF T
  <2>4. T = Nat
    BY <2>1, <2>2, <2>3, Induction
  <2>. QED
    BY <2>4 DEF T
<1>3. ASSUME NEW m \in Nat, NEW n \in Nat, m < n
      PROVE  PowerOfTwo[n] >= 2 * PowerOfTwo[m]
  <2>. DEFINE T == {d \in Nat : PowerOfTwo[m + 1 + d] >= 2 * PowerOfTwo[m]}
  <2>1. 0 \in T
    BY <1>1
  <2>2. ASSUME NEW d \in T
        PROVE  d + 1 \in T
    <3>1. m + 1 + d \in Nat /\ m + 1 + (d + 1) = (m + 1 + d) + 1
      OBVIOUS
    <3>. QED
      BY <1>1, <3>1
  <2>3. T \in SUBSET Nat
    OBVIOUS
  <2>. HIDE DEF T
  <2>4. T = Nat
    BY <2>1, <2>2, <2>3, Induction
  <2>5. n - m - 1 \in Nat /\ m + 1 + (n - m - 1) = n
    BY <1>3
  <2>. QED
    BY <2>4, <2>5 DEF T
<1>. QED
  BY <1>2, <1>3

(* Exponents add.                                                          *)
LEMMA PowersAdd ==
  ASSUME NEW m \in Nat, NEW n \in Nat
  PROVE  PowerOfTwo[m + n] = PowerOfTwo[m] * PowerOfTwo[n]
<1>. DEFINE T == {d \in Nat : PowerOfTwo[m + d] = PowerOfTwo[m] * PowerOfTwo[d]}
<1>1. 0 \in T
  BY Doubling
<1>2. ASSUME NEW d \in T
      PROVE  d + 1 \in T
  <2>1. m + d \in Nat /\ m + (d + 1) = (m + d) + 1
    OBVIOUS
  <2>2. /\ PowerOfTwo[m + (d + 1)] = 2 * PowerOfTwo[m + d]
        /\ PowerOfTwo[d + 1] = 2 * PowerOfTwo[d]
        /\ PowerOfTwo[m] \in Nat /\ PowerOfTwo[d] \in Nat
    BY <2>1, Doubling
  <2>3. PowerOfTwo[m] * (2 * PowerOfTwo[d]) = 2 * (PowerOfTwo[m] * PowerOfTwo[d])
    BY <2>2
  <2>. QED
    BY <2>2, <2>3
<1>3. T = Nat
  <2>1. T \in SUBSET Nat
    OBVIOUS
  <2>. HIDE DEF T
  <2>. QED
    BY <1>1, <1>2, <2>1, Induction
<1>. QED
  BY <1>3

=============================================================================
