---------------------------- MODULE AdapterProofs ----------------------------
(***************************************************************************)
(* The adapters compute the standards' formulas, and no output repeats a   *)
(* byte: what TLC checks of Adapters on one small set of requests, for     *)
(* every set of requests, hash, block size, batch and counter width.       *)
(*                                                                         *)
(* The argument has two halves.  A digest is a free term that names its    *)
(* padded message, so padding being unambiguous makes digests of different *)
(* messages differ, and the counters make every block's message its own.   *)
(* And each loop holds, after so many turns, that many blocks of the       *)
(* formula: the inductive invariant Inv, which the answer is read off.     *)
(***************************************************************************)
EXTENDS Adapters, KdfFormulas, Arithmetic

----------------------------------------------------------------------------
(* The two copies of the formulas.                                         *)

(* The abstract specification's own copies of the padding, the hash, the   *)
(* MAC and the streams are the ones the code's module uses.                *)
LEMMA SamePad ==
  /\ Standard!Pad!Zero = Pad!Zero
  /\ \A n : Standard!Pad!NBlocks(n) = Pad!NBlocks(n)
  /\ \A n : Standard!Pad!PadTail(n) = Pad!PadTail(n)
  /\ \A a, b : Standard!Pad!CeilDiv(a, b) = Pad!CeilDiv(a, b)
<1>1. Standard!Pad!Zero = Pad!Zero
  BY DEF Standard!Pad!Zero, Pad!Zero
<1>2. \A n : Standard!Pad!NBlocks(n) = Pad!NBlocks(n)
  BY DEF Standard!Pad!NBlocks, Pad!NBlocks, Standard!Pad!CeilDiv, Pad!CeilDiv
<1>3. \A a, b : Standard!Pad!CeilDiv(a, b) = Pad!CeilDiv(a, b)
  BY DEF Standard!Pad!CeilDiv, Pad!CeilDiv
<1>4. \A n : Standard!Pad!PadTail(n) = Pad!PadTail(n)
  BY <1>1, <1>2 DEF Standard!Pad!PadTail, Pad!PadTail, Standard!Pad!FieldByte, Pad!FieldByte,
    Standard!Pad!HostValue, Pad!HostValue, Standard!Pad!Mark, Pad!Mark
<1>. QED
  BY <1>1, <1>2, <1>3, <1>4

(* The hash,                                                               *)
LEMMA SameDigest ==
  /\ \A h, m : Standard!Digest(h, m) = Digest(h, m)
  /\ \A n, w : Standard!CounterBytes(n, w) = CounterBytes(n, w)
<1>1. \A n : Standard!MdTail(n) = MdTail(n)
  BY SamePad DEF Standard!MdTail, MdTail
<1>2. \A s, b : Standard!Compress(s, b) = Compress(s, b)
  BY DEF Standard!Compress, Compress
<1>3. \A h, s : Standard!Serialize(h, s) = Serialize(h, s)
  BY DEF Standard!Serialize, Serialize
<1>4. \A h, m : Standard!Digest(h, m) = Digest(h, m)
  BY <1>1, <1>2, <1>3 DEF Standard!Digest, Digest
<1>5. Standard!ValuesOf = ValuesOf
  BY DEF Standard!ValuesOf, ValuesOf
<1>6. \A n, w : Standard!CounterBytes(n, w) = CounterBytes(n, w)
  BY <1>5 DEF Standard!CounterBytes, CounterBytes
<1>. QED
  BY <1>4, <1>6

(* the MAC,                                                                *)
LEMMA SameMac ==
  \A c, k, m : Standard!Mac(c, k, m) = Mac(c, k, m)
<1>1. \A c, k : Standard!BlockKey(c, k) = BlockKey(c, k)
  BY SamePad, SameDigest DEF Standard!BlockKey, BlockKey
<1>2. \A p, b : Standard!Xored(p, b) = Xored(p, b)
  BY DEF Standard!Xored, Xored
<1>. QED
  BY <1>1, <1>2, SameDigest DEF Standard!Mac, Mac

(* and the streams.                                                        *)
LEMMA SameStreams ==
  /\ \A c, k, x, n : Standard!HkdfStream(c, k, x, n) = HkdfStream(c, k, x, n)
  /\ \A h, x, n : Standard!MgfStream(h, x, n) = MgfStream(h, x, n)
  /\ \A c, k, x, m, n : Standard!PbkdfStream(c, k, x, m, n) = PbkdfStream(c, k, x, m, n)
<1>1. \A s : Standard!FlattenSeq(s) = FlattenSeq(s)
  BY DEF Standard!FlattenSeq, FlattenSeq
<1>2. \A c, k, x, n : Standard!HkdfBlocks(c, k, x, n) = HkdfBlocks(c, k, x, n)
  BY SameMac, SameDigest DEF Standard!HkdfBlocks, HkdfBlocks
<1>3. \A c, k, x, m, n : Standard!PbkdfChain(c, k, x, m, n) = PbkdfChain(c, k, x, m, n)
  BY SameMac, SameDigest DEF Standard!PbkdfChain, PbkdfChain
<1>4. \A c, n : Standard!PbkdfSums(c, n) = PbkdfSums(c, n)
  BY DEF Standard!PbkdfSums, PbkdfSums, Standard!SymDiff, SymDiff
<1>5. \A c, k, x, m, n : Standard!PbkdfBlock(c, k, x, m, n) = PbkdfBlock(c, k, x, m, n)
  BY <1>3, <1>4 DEF Standard!PbkdfBlock, PbkdfBlock
<1>6. \A c, k, x, n : Standard!HkdfStream(c, k, x, n) = HkdfStream(c, k, x, n)
  BY <1>1, <1>2 DEF Standard!HkdfStream, HkdfStream
<1>7. \A h, x, n : Standard!MgfStream(h, x, n) = MgfStream(h, x, n)
  BY <1>1, SameDigest DEF Standard!MgfStream, MgfStream
<1>8. \A c, k, x, m, n : Standard!PbkdfStream(c, k, x, m, n) = PbkdfStream(c, k, x, m, n)
  BY <1>1, <1>5 DEF Standard!PbkdfStream, PbkdfStream
<1>. QED
  BY <1>6, <1>7, <1>8

(* So the answer the abstract specification gives is the formula's.        *)
LEMMA SameAnswer ==
  ASSUME NEW req
  PROVE  Standard!Answer(req) = Answer(req)
<1>1. /\ Standard!HLen(req) = HLen(req)
      /\ Standard!MacOf(req) = MacOf(req)
      /\ Standard!BatchOf(req) = BatchOf(req)
      /\ Standard!Blocked(req) = Blocked(req)
      /\ Standard!Absent = Absent
  BY DEF Standard!HLen, HLen, Standard!MacOf, MacOf, Standard!Hmac, Hmac, Standard!None, None,
     Standard!BatchOf, BatchOf, Standard!Broadcast, Broadcast, Standard!Blocked, Blocked,
     Standard!Absent, Absent
<1>2. Standard!NumBlocks(req) = NumBlocks(req)
  BY <1>1, SamePad DEF Standard!NumBlocks, NumBlocks
<1>3. Standard!Served(req) = Served(req)
  <2>1. Standard!ValuesOf = ValuesOf
    BY DEF Standard!ValuesOf, ValuesOf
  <2>2. Standard!Longest(req) = Longest(req)
    BY <1>1, <2>1 DEF Standard!Longest, Longest
  <2>3. Standard!ShapeRefused(req) = ShapeRefused(req)
    BY DEF Standard!ShapeRefused, ShapeRefused, Standard!Mismatch, Mismatch
  <2>. QED
    BY <1>1, <2>2, <2>3 DEF Standard!Served, Served
<1>4. \A r : Standard!RowBytes(req, r) = RowBytes(req, r)
  <2>1. \A x, s, r : Standard!Operand(x, s, r) = Operand(x, s, r)
    BY DEF Standard!Operand, Operand
  <2>2. \A n : Standard!Zeros(n) = Zeros(n)
    BY SamePad DEF Standard!Zeros, Zeros
  <2>. QED
    BY <1>1, <1>2, <2>1, <2>2, SameMac, SameStreams DEF Standard!RowBytes, RowBytes
<1>. QED
  BY <1>1, <1>3, <1>4 DEF Standard!Answer, Answer

----------------------------------------------------------------------------
(* Strings of bytes.                                                       *)

(* A string of bytes, whatever a byte is.                                  *)
Str(s) == Len(s) \in Nat /\ Tabulated(s, Len(s))

(* A function on the first n numbers is a string of n bytes.               *)
LEMMA StrOf ==
  ASSUME NEW n \in Nat, NEW s, Tabulated(s, n)
  PROVE  Str(s) /\ Len(s) = n /\ DOMAIN s = 1 .. n
<1>1. s = [k \in 1 .. n |-> s[k]]
  BY DEF Tabulated
<1>. DEFINE S == {s[k] : k \in 1 .. n}
<1>2. s \in [1 .. n -> S]
  BY <1>1
<1>. HIDE DEF S
<1>3. s \in Seq(S) /\ Len(s) = n
  BY <1>2
<1>. QED
  BY <1>1, <1>3 DEF Str, Tabulated

(* It is a sequence of the bytes it holds.                                 *)
LEMMA StrIn ==
  ASSUME NEW s, Str(s)
  PROVE  s \in Seq({s[k] : k \in 1 .. Len(s)})
<1>. DEFINE n == Len(s)
            S == {s[k] : k \in 1 .. n}
<1>1. n \in Nat /\ s = [k \in 1 .. n |-> s[k]]
  BY DEF Str, Tabulated
<1>. HIDE DEF n
<1>2. s \in [1 .. n -> S]
  BY <1>1
<1>. HIDE DEF S
<1>3. s \in Seq(S)
  BY <1>1, <1>2
<1>. QED
  BY <1>3 DEF S, n

(* Two strings joined, byte by byte.                                       *)
LEMMA StrConcat ==
  ASSUME NEW a, NEW b, Str(a), Str(b)
  PROVE  /\ Str(a \o b) /\ Len(a \o b) = Len(a) + Len(b)
         /\ \A k \in 1 .. Len(a) + Len(b) :
              (a \o b)[k] = IF k <= Len(a) THEN a[k] ELSE b[k - Len(a)]
<1>. DEFINE m == Len(a)
            n == Len(b)
            c == Concat(a, b)
<1>1. m \in Nat /\ n \in Nat /\ Tabulated(a, m) /\ Tabulated(b, n)
  BY DEF Str
<1>. HIDE DEF m, n
<1>2. Tabulated(c, m + n) /\ \A k \in 1 .. m + n : c[k] = IF k <= m THEN a[k] ELSE b[k - m]
  BY <1>1, ConcatTabulated
<1>. HIDE DEF c
<1>3. m + n \in Nat
  BY <1>1
<1>4. Str(c) /\ Len(c) = m + n
  BY <1>2, <1>3, StrOf
<1>. QED
  BY <1>2, <1>4 DEF c, m, n, Concat

(* Strings are their bytes.                                                *)
LEMMA StrEqual ==
  ASSUME NEW a, NEW b, Str(a), Str(b), Len(a) = Len(b),
         \A k \in 1 .. Len(a) : a[k] = b[k]
  PROVE  a = b
BY DEF Str, Tabulated

(* Joining does not care where it begins.                                  *)
LEMMA StrAssoc ==
  ASSUME NEW a, NEW b, NEW c, Str(a), Str(b), Str(c)
  PROVE  (a \o b) \o c = a \o (b \o c)
<1>. DEFINE x == a \o b
            y == b \o c
            l == x \o c
            r == a \o y
<1>1. Len(a) \in Nat /\ Len(b) \in Nat /\ Len(c) \in Nat
  BY DEF Str
<1>2. /\ Str(x) /\ Len(x) = Len(a) + Len(b)
      /\ \A k \in 1 .. Len(a) + Len(b) :
              x[k] = IF k <= Len(a) THEN a[k] ELSE b[k - Len(a)]
  BY StrConcat
<1>3. /\ Str(y) /\ Len(y) = Len(b) + Len(c)
      /\ \A k \in 1 .. Len(b) + Len(c) :
              y[k] = IF k <= Len(b) THEN b[k] ELSE c[k - Len(b)]
  BY StrConcat
<1>. HIDE DEF x, y
<1>4. /\ Str(l) /\ Len(l) = Len(x) + Len(c)
      /\ \A k \in 1 .. Len(x) + Len(c) :
              l[k] = IF k <= Len(x) THEN x[k] ELSE c[k - Len(x)]
  BY <1>2, StrConcat
<1>5. /\ Str(r) /\ Len(r) = Len(a) + Len(y)
      /\ \A k \in 1 .. Len(a) + Len(y) :
              r[k] = IF k <= Len(a) THEN a[k] ELSE y[k - Len(a)]
  BY <1>3, StrConcat
<1>. HIDE DEF l, r
<1>6. Len(l) = Len(r)
  BY <1>1, <1>2, <1>3, <1>4, <1>5
<1>7. ASSUME NEW k \in 1 .. Len(l)
      PROVE  l[k] = r[k]
  <2>1. CASE k <= Len(a)
    BY <1>1, <1>2, <1>3, <1>4, <1>5, <2>1
  <2>2. CASE k > Len(a) /\ k <= Len(a) + Len(b)
    <3>1. l[k] = b[k - Len(a)]
      BY <1>1, <1>2, <1>4, <2>2
    <3>2. k - Len(a) \in 1 .. Len(b) + Len(c) /\ k - Len(a) <= Len(b)
      BY <1>1, <2>2
    <3>3. k \in 1 .. Len(a) + Len(y) /\ ~(k <= Len(a))
      BY <1>1, <1>3, <2>2
    <3>. QED
      BY <1>3, <1>5, <3>1, <3>2, <3>3
  <2>3. CASE k > Len(a) + Len(b)
    <3>1. l[k] = c[k - (Len(a) + Len(b))]
      BY <1>1, <1>2, <1>4, <2>3
    <3>2. k - Len(a) \in 1 .. Len(b) + Len(c) /\ ~(k - Len(a) <= Len(b))
      BY <1>1, <1>2, <1>4, <2>3
    <3>3. k \in 1 .. Len(a) + Len(y) /\ ~(k <= Len(a))
      BY <1>1, <1>2, <1>3, <1>4, <2>3
    <3>4. r[k] = y[k - Len(a)]
      BY <1>5, <3>3
    <3>5. y[k - Len(a)] = c[k - Len(a) - Len(b)]
      BY <1>3, <3>2
    <3>6. k - Len(a) - Len(b) = k - (Len(a) + Len(b))
      BY <1>1
    <3>. QED
      BY <3>1, <3>4, <3>5, <3>6
  <2>. QED
    BY <1>1, <1>2, <1>4, <2>1, <2>2, <2>3
<1>8. l = r
  BY <1>4, <1>5, <1>6, <1>7, StrEqual
<1>. QED
  BY <1>8 DEF l, r, x, y

(* What follows one prefix is one string.                                  *)
LEMMA StrCancel ==
  ASSUME NEW a, NEW b, NEW c, Str(a), Str(b), Str(c), a \o b = a \o c
  PROVE  b = c
<1>. DEFINE x == a \o b
<1>1. Len(a) \in Nat /\ Len(b) \in Nat /\ Len(c) \in Nat
  BY DEF Str
<1>2. /\ Len(x) = Len(a) + Len(b)
      /\ \A k \in 1 .. Len(a) + Len(b) :
              x[k] = IF k <= Len(a) THEN a[k] ELSE b[k - Len(a)]
  BY StrConcat
<1>3. /\ Len(x) = Len(a) + Len(c)
      /\ \A k \in 1 .. Len(a) + Len(c) :
              x[k] = IF k <= Len(a) THEN a[k] ELSE c[k - Len(a)]
  BY StrConcat
<1>. HIDE DEF x
<1>4. Len(b) = Len(c)
  BY <1>1, <1>2, <1>3
<1>5. ASSUME NEW k \in 1 .. Len(b)
      PROVE  b[k] = c[k]
  <2>1. /\ k + Len(a) \in 1 .. Len(a) + Len(b) /\ ~(k + Len(a) <= Len(a))
        /\ k + Len(a) - Len(a) = k
    BY <1>1
  <2>. QED
    BY <1>2, <1>3, <1>4, <2>1
<1>. QED
  BY <1>4, <1>5, StrEqual

(* A part of a string.                                                     *)
LEMMA StrSub ==
  ASSUME NEW s, Str(s), NEW m \in 1 .. Len(s) + 1, NEW n \in m - 1 .. Len(s)
  PROVE  /\ Str(SubSeq(s, m, n)) /\ Len(SubSeq(s, m, n)) = n - m + 1
         /\ \A k \in 1 .. n - m + 1 : SubSeq(s, m, n)[k] = s[m + k - 1]
<1>. DEFINE S == {s[k] : k \in 1 .. Len(s)}
            x == SubSeq(s, m, n)
            w == n - m + 1
<1>1. s \in Seq(S) /\ Len(s) \in Nat
  BY StrIn DEF Str
<1>. HIDE DEF S
<1>2. x = [k \in 1 .. w |-> s[m + k - 1]]
  BY <1>1
<1>3. w \in Nat
  BY <1>1
<1>. HIDE DEF x, w
<1>4. Tabulated(x, w) /\ \A k \in 1 .. w : x[k] = s[m + k - 1]
  BY <1>2 DEF Tabulated
<1>5. Str(x) /\ Len(x) = w
  BY <1>3, <1>4, StrOf
<1>. QED
  BY <1>4, <1>5 DEF x, w

----------------------------------------------------------------------------
(* Counters.                                                               *)

(* The recursion that counts an octet string's values is well defined.     *)
LEMMA Values ==
  /\ ValuesOf \in [Nat -> Nat \ {0}]
  /\ ValuesOf[0] = 1
  /\ \A n \in Nat : ValuesOf[n + 1] = Byte * ValuesOf[n]
<1>. DEFINE S     == Nat \ {0}
            F     == [x \in S |-> Byte * x]
            Is(g) == g = [n \in Nat |-> IF n = 0 THEN 1 ELSE Byte * g[n - 1]]
            vals  == CHOOSE g : Is(g)
<1>0. Byte \in Nat \ {0, 1}
  BY HashAssumption
<1>1. 1 \in S /\ F \in [S -> S] /\ \A x \in S : F[x] = Byte * x
  BY <1>0
<1>2. PICK f : IteratesOn(f, S, 1, F)
  <2>. HIDE DEF S, F, Is, vals
  <2>. QED
    BY <1>1, UnboundedIteration
<1>. HIDE DEF F
<1>3. Is(f)
  <2>1. ASSUME NEW n \in Nat, n # 0
        PROVE  f[n] = Byte * f[n - 1]
    <3>1. n - 1 \in Nat /\ (n - 1) + 1 = n
      BY <2>1
    <3>. QED
      BY <1>1, <1>2, <3>1 DEF IteratesOn
  <2>. QED
    BY <1>2, <2>1 DEF IteratesOn
<1>4. ValuesOf = vals
  BY DEF ValuesOf
<1>5. Is(vals)
  <2>. HIDE DEF Is
  <2>. QED
    BY <1>3
<1>. HIDE DEF vals
<1>6. vals[0] = 1 /\ \A n \in Nat : vals[n + 1] = Byte * vals[n]
  <2>1. \A n \in Nat : n + 1 \in Nat /\ n + 1 # 0 /\ (n + 1) - 1 = n
    OBVIOUS
  <2>. QED
    BY <1>5, <2>1
<1>7. \A n \in Nat : vals[n] \in S
  <2>. DEFINE T == {n \in Nat : vals[n] \in S}
  <2>1. 0 \in T
    BY <1>6
  <2>2. ASSUME NEW n \in T
        PROVE  n + 1 \in T
    BY <1>0, <1>6
  <2>3. T \in SUBSET Nat
    OBVIOUS
  <2>4. T = Nat
    <3>. HIDE DEF T
    <3>. QED
      BY <2>1, <2>2, <2>3, Induction
  <2>. QED
    BY <2>4
<1>8. vals \in [Nat -> S]
  <2>1. DOMAIN vals = Nat /\ vals = [n \in Nat |-> vals[n]]
    BY <1>5
  <2>. QED
    BY <1>7, <2>1
<1>. QED
  BY <1>4, <1>6, <1>8

(* A number of n digits is its digits.                                     *)
SameDigits(x, y, n) ==
  \A d \in 0 .. n - 1 : (x \div ValuesOf[d]) % Byte = (y \div ValuesOf[d]) % Byte

(* Below Byte^n, no two numbers have the same n digits.                    *)
LEMMA DigitsName ==
  \A n \in Nat : \A x, y \in 0 .. ValuesOf[n] - 1 : SameDigits(x, y, n) => x = y
<1>. DEFINE P(n) == \A x, y \in 0 .. ValuesOf[n] - 1 : SameDigits(x, y, n) => x = y
            T    == {n \in Nat : P(n)}
<1>0. Byte \in Nat \ {0, 1}
  BY HashAssumption
<1>1. 0 \in T
  BY Values
<1>2. ASSUME NEW n \in T
      PROVE  n + 1 \in T
  <2>1. SUFFICES ASSUME NEW x \in 0 .. ValuesOf[n + 1] - 1,
                        NEW y \in 0 .. ValuesOf[n + 1] - 1,
                        SameDigits(x, y, n + 1)
                 PROVE  x = y
    OBVIOUS
  <2>. DEFINE xq == x \div Byte
              yq == y \div Byte
  <2>2. /\ ValuesOf[n] \in Nat \ {0} /\ ValuesOf[n + 1] = Byte * ValuesOf[n]
        /\ ValuesOf[n + 1] \in Nat \ {0}
    BY Values
  <2>3. x \in Nat /\ y \in Nat
    BY <2>2
  <2>4. /\ xq \in Nat /\ x % Byte \in 0 .. Byte - 1 /\ x = xq * Byte + (x % Byte)
        /\ yq \in Nat /\ y % Byte \in 0 .. Byte - 1 /\ y = yq * Byte + (y % Byte)
    BY <1>0, <2>3, DivModNat
  <2>5. x % Byte = y % Byte
    <3>1. 0 \in 0 .. (n + 1) - 1
      OBVIOUS
    <3>2. x \div 1 = x /\ y \div 1 = y
      BY <2>3
    <3>. QED
      BY <2>1, <3>1, <3>2, Values DEF SameDigits
  <2>. HIDE DEF xq, yq
  <2>6. xq \in 0 .. ValuesOf[n] - 1 /\ yq \in 0 .. ValuesOf[n] - 1
    <3>1. ASSUME NEW q \in Nat, NEW r \in Nat, q * Byte + r < Byte * ValuesOf[n]
          PROVE  q < ValuesOf[n]
      <4>. DEFINE v == ValuesOf[n]
      <4>1. v \in Nat /\ q * Byte + r < Byte * v
        BY <2>2, <3>1
      <4>. HIDE DEF v
      <4>2. q >= v => q * Byte >= v * Byte
        BY <1>0, <4>1
      <4>3. q < v
        BY <1>0, <4>1, <4>2
      <4>. QED
        BY <4>3 DEF v
    <3>2. x < Byte * ValuesOf[n] /\ y < Byte * ValuesOf[n]
      BY <2>2, <2>3
    <3>3. xq < ValuesOf[n]
      BY <2>4, <3>1, <3>2
    <3>4. yq < ValuesOf[n]
      BY <2>4, <3>1, <3>2
    <3>. QED
      BY <2>2, <2>4, <3>3, <3>4
  <2>7. SameDigits(xq, yq, n)
    <3>1. SUFFICES ASSUME NEW d \in 0 .. n - 1
                   PROVE  (xq \div ValuesOf[d]) % Byte = (yq \div ValuesOf[d]) % Byte
      BY DEF SameDigits
    <3>2. d \in Nat /\ d + 1 \in 0 .. (n + 1) - 1
      OBVIOUS
    <3>3. ValuesOf[d] \in Nat \ {0} /\ ValuesOf[d + 1] = Byte * ValuesOf[d]
      BY <3>2, Values
    <3>4. xq \div ValuesOf[d] = x \div ValuesOf[d + 1]
      <4>. DEFINE v == ValuesOf[d]
      <4>1. v \in Nat \ {0} /\ Byte \in Nat \ {0}
        BY <1>0, <3>3
      <4>. HIDE DEF v
      <4>2. (x \div Byte) \div v = x \div (Byte * v)
        BY <2>3, <4>1, DivTwice
      <4>. QED
        BY <3>3, <4>2 DEF xq, v
    <3>5. yq \div ValuesOf[d] = y \div ValuesOf[d + 1]
      <4>. DEFINE v == ValuesOf[d]
      <4>1. v \in Nat \ {0} /\ Byte \in Nat \ {0}
        BY <1>0, <3>3
      <4>. HIDE DEF v
      <4>2. (y \div Byte) \div v = y \div (Byte * v)
        BY <2>3, <4>1, DivTwice
      <4>. QED
        BY <3>3, <4>2 DEF yq, v
    <3>. QED
      BY <2>1, <3>2, <3>4, <3>5 DEF SameDigits
  <2>8. xq = yq
    BY <2>6, <2>7
  <2>. QED
    BY <2>4, <2>5, <2>8
<1>3. T \in SUBSET Nat
  OBVIOUS
<1>4. T = Nat
  <2>. HIDE DEF T
  <2>. QED
    BY <1>1, <1>2, <1>3, Induction
<1>. QED
  BY <1>4

(* A counter within its octets' range has octets of its own.               *)
LEMMA CountersDiffer ==
  ASSUME NEW w \in Nat, NEW x \in 0 .. ValuesOf[w] - 1, NEW y \in 0 .. ValuesOf[w] - 1,
         CounterBytes(x, w) = CounterBytes(y, w)
  PROVE  x = y
<1>1. ASSUME NEW d \in 0 .. w - 1
      PROVE  (x \div ValuesOf[d]) % Byte = (y \div ValuesOf[d]) % Byte
  <2>1. w - d \in 1 .. w /\ w - (w - d) = d
    OBVIOUS
  <2>2. CounterBytes(x, w)[w - d] = CounterBytes(y, w)[w - d]
    OBVIOUS
  <2>. QED
    BY <2>1, <2>2 DEF CounterBytes
<1>. QED
  BY <1>1, DigitsName DEF SameDigits

(* A counter's bytes are octets, one per digit.                            *)
LEMMA CounterStr ==
  ASSUME NEW w \in Nat, NEW x
  PROVE  /\ Str(CounterBytes(x, w)) /\ Len(CounterBytes(x, w)) = w
         /\ \A k \in 1 .. w : \E v : CounterBytes(x, w)[k] = <<"octet", v>>
<1>1. Tabulated(CounterBytes(x, w), w)
  BY DEF Tabulated, CounterBytes
<1>2. \A k \in 1 .. w : \E v : CounterBytes(x, w)[k] = <<"octet", v>>
  BY DEF CounterBytes
<1>. HIDE DEF CounterBytes
<1>. QED
  BY <1>1, <1>2, StrOf

----------------------------------------------------------------------------
(* Padding and compression.                                                *)

(* The empty string is one.                                                *)
LEMMA EmptyStr == Str(<<>>) /\ Len(<<>>) = 0
BY DEF Str, Tabulated

(* The padding of a message: the mark, and no mark after it.               *)
LEMMA TailMarked ==
  ASSUME NEW n \in Nat
  PROVE  /\ Str(MdTail(n)) /\ Len(MdTail(n)) \in Nat \ {0}
         /\ \E q \in Nat : n + Len(MdTail(n)) = q * Block
         /\ MdTail(n)[1] = Pad!Mark
         /\ \A k \in 2 .. Len(MdTail(n)) : MdTail(n)[k] # Pad!Mark
<1>. DEFINE q == (n + Reserve) \div Block
            r == (n + Reserve) % Block
            size == (q + 1) * Block - n
            tail == MdTail(n)
<1>0. Block \in Nat \ {0} /\ Reserve \in Nat \ {0}
  BY HashAssumption
<1>1. q \in Nat /\ r \in 0 .. Block - 1 /\ n + Reserve = q * Block + r
  <2>1. n + Reserve \in Nat
    BY <1>0
  <2>. QED
    BY <1>0, <2>1, DivModNat
<1>2. Pad!NBlocks(n) = q + 1
  BY DEF Pad!NBlocks
<1>. HIDE DEF q, r
<1>3. size \in Nat /\ size >= Reserve + 1
  BY <1>0, <1>1
<1>4. Pad!NBlocks(n) * Block - n = size
  BY <1>2
<1>. HIDE DEF size
<1>5. tail = [k \in 1 .. size |-> Pad!PadTail(n)[k - 1]]
  BY <1>4 DEF MdTail
<1>6. ASSUME NEW k \in 1 .. size
      PROVE  tail[k] = IF k - 1 >= size - Reserve
                         THEN Pad!FieldByte(Pad!HostValue(n), k - 1 - (size - Reserve))
                       ELSE IF k = 1 THEN Pad!Mark ELSE Pad!Zero
  <2>1. k - 1 \in 0 .. size - 1 /\ (k - 1 = 0 <=> k = 1)
    BY <1>3
  <2>. HIDE DEF tail
  <2>2. tail[k] = Pad!PadTail(n)[k - 1]
    BY <1>5
  <2>3. Pad!PadTail(n)[k - 1] = IF k - 1 >= size - Reserve
                         THEN Pad!FieldByte(Pad!HostValue(n), k - 1 - (size - Reserve))
                       ELSE IF k = 1 THEN Pad!Mark ELSE Pad!Zero
    BY <1>4, <2>1 DEF Pad!PadTail
  <2>. QED
    BY <2>2, <2>3
<1>7. Str(tail) /\ Len(tail) = size
  <2>1. Tabulated(tail, size)
    BY <1>5 DEF Tabulated
  <2>. HIDE DEF tail
  <2>. QED
    BY <1>3, <2>1, StrOf
<1>. HIDE DEF tail
<1>8. tail[1] = Pad!Mark
  BY <1>0, <1>3, <1>6
<1>9. ASSUME NEW k \in 2 .. size
      PROVE  tail[k] # Pad!Mark
  <2>1. tail[k] = Pad!Zero \/ \E v, o : tail[k] = Pad!FieldByte(v, o)
    BY <1>3, <1>6
  <2>2. Pad!Zero # Pad!Mark /\ \A v, o : Pad!FieldByte(v, o) # Pad!Mark
    BY DEF Pad!Zero, Pad!Mark, Pad!FieldByte
  <2>. QED
    BY <2>1, <2>2
<1>10. n + size = (q + 1) * Block /\ q + 1 \in Nat /\ size \in Nat \ {0}
  BY <1>0, <1>1, <1>3 DEF size
<1>. QED
  BY <1>7, <1>8, <1>9, <1>10 DEF tail

(* A chaining value, block by block.                                       *)
LEMMA CompressIs ==
  ASSUME NEW s, NEW a, Str(s), NEW m \in Nat, Str(a), Len(a) = m * Block
  PROVE  /\ Str(Compress(s, a)) /\ Len(Compress(s, a)) = Len(s) + m
         /\ \A k \in 1 .. Len(s) : Compress(s, a)[k] = s[k]
         /\ \A k \in 1 .. m :
              Compress(s, a)[Len(s) + k] = SubSeq(a, (k - 1) * Block + 1, k * Block)
<1>. DEFINE b == [k \in 1 .. Len(a) \div Block |-> SubSeq(a, (k - 1) * Block + 1, k * Block)]
            c == s \o b
<1>0. Block \in Nat \ {0} /\ Len(s) \in Nat
  BY HashAssumption DEF Str
<1>1. Len(a) \div Block = m
  BY <1>0
<1>2. Str(b) /\ Len(b) = m
  <2>1. Tabulated(b, m)
    BY <1>1 DEF Tabulated
  <2>. HIDE DEF b
  <2>. QED
    BY <2>1, StrOf
<1>3. \A k \in 1 .. m : b[k] = SubSeq(a, (k - 1) * Block + 1, k * Block)
  BY <1>1
<1>4. Compress(s, a) = c
  BY DEF Compress
<1>. HIDE DEF b
<1>5. /\ Str(c) /\ Len(c) = Len(s) + m
      /\ \A k \in 1 .. Len(s) + m : c[k] = IF k <= Len(s) THEN s[k] ELSE b[k - Len(s)]
  BY <1>2, StrConcat
<1>. HIDE DEF c
<1>6. \A k \in 1 .. Len(s) : c[k] = s[k]
  BY <1>0, <1>5
<1>7. \A k \in 1 .. m : c[Len(s) + k] = b[k]
  <2>. TAKE k \in 1 .. m
  <2>1. Len(s) + k \in 1 .. Len(s) + m /\ ~(Len(s) + k <= Len(s)) /\ Len(s) + k - Len(s) = k
    BY <1>0
  <2>. QED
    BY <1>5, <2>1
<1>. QED
  BY <1>3, <1>4, <1>5, <1>6, <1>7

(* Where a block lies.                                                     *)
LEMMA BlockOf ==
  ASSUME NEW a, NEW m \in Nat, Str(a), Len(a) = m * Block, NEW k \in 1 .. m
  PROVE  /\ (k - 1) * Block + 1 \in 1 .. Len(a) + 1
         /\ k * Block \in (k - 1) * Block .. Len(a)
         /\ Str(SubSeq(a, (k - 1) * Block + 1, k * Block))
         /\ Len(SubSeq(a, (k - 1) * Block + 1, k * Block)) = Block
         /\ \A p \in 1 .. Block : (k - 1) * Block + p \in 1 .. Len(a)
                /\ SubSeq(a, (k - 1) * Block + 1, k * Block)[p] = a[(k - 1) * Block + p]
<1>. DEFINE lo == (k - 1) * Block
            hi == k * Block
<1>0. Block \in Nat \ {0}
  BY HashAssumption
<1>1. lo \in Nat /\ hi = lo + Block
  BY <1>0
<1>2. hi <= m * Block
  <2>1. (m - k) * Block \in Nat
    BY <1>0
  <2>. QED
    BY <1>0, <2>1
<1>. HIDE DEF lo, hi
<1>3. lo + 1 \in 1 .. Len(a) + 1 /\ hi \in (lo + 1) - 1 .. Len(a) /\ hi - (lo + 1) + 1 = Block
      /\ hi \in lo .. Len(a)
  BY <1>0, <1>1, <1>2 DEF Str
<1>4. /\ Str(SubSeq(a, lo + 1, hi)) /\ Len(SubSeq(a, lo + 1, hi)) = Block
      /\ \A p \in 1 .. Block : SubSeq(a, lo + 1, hi)[p] = a[(lo + 1) + p - 1]
  BY <1>3, StrSub
<1>5. \A p \in 1 .. Block : (lo + 1) + p - 1 = lo + p /\ lo + p \in 1 .. Len(a)
  BY <1>0, <1>1, <1>3
<1>. QED
  BY <1>3, <1>4, <1>5 DEF lo, hi

(* From the initial value, a state is the blocks alone.                    *)
LEMMA CompressFirst ==
  ASSUME NEW a, NEW m \in Nat, Str(a), Len(a) = m * Block
  PROVE  /\ Str(Compress(<<>>, a)) /\ Len(Compress(<<>>, a)) = m
         /\ \A k \in 1 .. m :
              Compress(<<>>, a)[k] = SubSeq(a, (k - 1) * Block + 1, k * Block)
<1>. DEFINE e == <<>>
<1>1. Str(e) /\ Len(e) = 0
  BY EmptyStr
<1>. HIDE DEF e
<1>2. /\ Str(Compress(e, a)) /\ Len(Compress(e, a)) = Len(e) + m
      /\ \A k \in 1 .. Len(e) : Compress(e, a)[k] = e[k]
      /\ \A k \in 1 .. m :
           Compress(e, a)[Len(e) + k] = SubSeq(a, (k - 1) * Block + 1, k * Block)
  <2>1. Str(e)
    BY <1>1
  <2>. QED
    BY <2>1, CompressIs
<1>3. \A k \in 1 .. m : Len(e) + k = k
  BY <1>1
<1>4. Len(e) + m = m
  BY <1>1
<1>5. \A k \in 1 .. m : Compress(e, a)[k] = SubSeq(a, (k - 1) * Block + 1, k * Block)
  BY <1>2, <1>3
<1>. QED
  BY <1>2, <1>4, <1>5 DEF e

(* Absorbed in two goes, the first of whole blocks, or in one.             *)
LEMMA Resumes ==
  ASSUME NEW a, NEW b, Str(a), Str(b), NEW m \in Nat, Len(a) = m * Block,
         NEW n \in Nat, Len(b) = n * Block
  PROVE  Compress(Compress(<<>>, a), b) = Compress(<<>>, a \o b)
<1>. DEFINE x == Compress(<<>>, a)
            y == Compress(x, b)
            c == a \o b
            z == Compress(<<>>, c)
<1>0. Block \in Nat \ {0}
  BY HashAssumption
<1>1. /\ Str(x) /\ Len(x) = m
      /\ \A k \in 1 .. m : x[k] = SubSeq(a, (k - 1) * Block + 1, k * Block)
  BY CompressFirst
<1>2. /\ Str(c) /\ Len(c) = (m + n) * Block
      /\ \A k \in 1 .. Len(a) + Len(b) : c[k] = IF k <= Len(a) THEN a[k] ELSE b[k - Len(a)]
  BY <1>0, StrConcat
<1>3. m + n \in Nat
  OBVIOUS
<1>. HIDE DEF x, c
<1>4. /\ Str(y) /\ Len(y) = m + n
      /\ \A k \in 1 .. m : y[k] = x[k]
      /\ \A k \in 1 .. n : y[m + k] = SubSeq(b, (k - 1) * Block + 1, k * Block)
  <2>1. /\ Str(y) /\ Len(y) = Len(x) + n
        /\ \A k \in 1 .. Len(x) : y[k] = x[k]
        /\ \A k \in 1 .. n : y[Len(x) + k] = SubSeq(b, (k - 1) * Block + 1, k * Block)
    BY <1>1, CompressIs
  <2>. HIDE DEF y
  <2>. QED
    BY <1>1, <2>1
<1>5. /\ Str(z) /\ Len(z) = m + n
      /\ \A k \in 1 .. m + n : z[k] = SubSeq(c, (k - 1) * Block + 1, k * Block)
  BY <1>2, <1>3, CompressFirst
<1>. HIDE DEF y, z
<1>6. ASSUME NEW k \in 1 .. m
      PROVE  z[k] = y[k]
  <2>. DEFINE s == SubSeq(a, (k - 1) * Block + 1, k * Block)
              t1 == SubSeq(c, (k - 1) * Block + 1, k * Block)
  <2>0. k \in 1 .. m + n
    OBVIOUS
  <2>1. /\ Str(s) /\ Len(s) = Block
        /\ \A p \in 1 .. Block : (k - 1) * Block + p \in 1 .. Len(a)
                                 /\ s[p] = a[(k - 1) * Block + p]
    BY BlockOf
  <2>2. /\ Str(t1) /\ Len(t1) = Block
        /\ \A p \in 1 .. Block : (k - 1) * Block + p \in 1 .. Len(c)
                                 /\ t1[p] = c[(k - 1) * Block + p]
    BY <1>2, <1>3, <2>0, BlockOf
  <2>3. y[k] = s /\ z[k] = t1
    BY <1>1, <1>4, <1>5, <2>0
  <2>. HIDE DEF s, t1
  <2>4. ASSUME NEW p \in 1 .. Block
        PROVE  t1[p] = s[p]
    <3>1. (k - 1) * Block + p \in 1 .. Len(a) + Len(b) /\ (k - 1) * Block + p <= Len(a)
      BY <2>1 DEF Str
    <3>. QED
      BY <1>2, <2>1, <2>2, <3>1
  <2>. QED
    BY <2>1, <2>2, <2>3, <2>4, StrEqual
<1>7. ASSUME NEW k \in 1 .. n
      PROVE  z[m + k] = y[m + k]
  <2>. DEFINE s == SubSeq(b, (k - 1) * Block + 1, k * Block)
              h == m + k
              t1 == SubSeq(c, (h - 1) * Block + 1, h * Block)
  <2>0. h \in 1 .. m + n
    OBVIOUS
  <2>3. y[h] = s /\ z[h] = t1
    BY <1>4, <1>5, <2>0
  <2>5. (h - 1) * Block = Len(a) + (k - 1) * Block
    BY <1>0
  <2>. HIDE DEF h
  <2>1. /\ Str(s) /\ Len(s) = Block
        /\ \A p \in 1 .. Block : (k - 1) * Block + p \in 1 .. Len(b)
                                 /\ s[p] = b[(k - 1) * Block + p]
    BY BlockOf
  <2>2. /\ Str(t1) /\ Len(t1) = Block
        /\ \A p \in 1 .. Block : (h - 1) * Block + p \in 1 .. Len(c)
                                 /\ t1[p] = c[(h - 1) * Block + p]
    BY <1>2, <1>3, <2>0, BlockOf
  <2>. HIDE DEF s, t1
  <2>4. ASSUME NEW p \in 1 .. Block
        PROVE  t1[p] = s[p]
    <3>. DEFINE w == (k - 1) * Block + p
    <3>1. w \in 1 .. Len(b) /\ (h - 1) * Block + p = Len(a) + w
      <4>1. w \in 1 .. Len(b) /\ (k - 1) * Block \in Int
        BY <1>0, <2>1
      <4>. QED
        BY <2>5, <4>1 DEF Str
    <3>2. t1[p] = c[Len(a) + w] /\ s[p] = b[w]
      <4>1. t1[p] = c[(h - 1) * Block + p] /\ s[p] = b[w]
        BY <2>1, <2>2
      <4>. QED
        BY <3>1, <4>1
    <3>. HIDE DEF w
    <3>3. Len(a) + w \in 1 .. Len(a) + Len(b) /\ ~(Len(a) + w <= Len(a))
          /\ Len(a) + w - Len(a) = w
      BY <3>1 DEF Str
    <3>4. ASSUME NEW g, g = Len(a) + w
          PROVE  c[g] = b[w]
      <4>1. g \in 1 .. Len(a) + Len(b) /\ ~(g <= Len(a)) /\ g - Len(a) = w
        <5>1. Len(a) \in Nat /\ Len(b) \in Nat /\ w \in 1 .. Len(b)
          BY <3>1 DEF Str
        <5>. QED
          BY <3>4, <5>1
      <4>. QED
        BY <1>2, <4>1
    <3>5. c[Len(a) + w] = b[w]
      BY <3>4
    <3>. QED
      BY <3>2, <3>5
  <2>6. t1 = s
    BY <2>1, <2>2, <2>4, StrEqual
  <2>. QED
    BY <2>3, <2>6 DEF h
<1>8. ASSUME NEW k \in 1 .. m + n
      PROVE  z[k] = y[k]
  <2>1. k \in 1 .. m \/ (k - m \in 1 .. n /\ m + (k - m) = k)
    OBVIOUS
  <2>. QED
    BY <1>6, <1>7, <2>1
<1>9. z = y
  BY <1>4, <1>5, <1>8, StrEqual
<1>. QED
  BY <1>9 DEF x, y, c, z

(* A chaining value is read back to what was absorbed.                     *)
LEMMA CompressInjective ==
  ASSUME NEW a, NEW b, Str(a), Str(b), NEW m \in Nat, Len(a) = m * Block,
         NEW n \in Nat, Len(b) = n * Block, Compress(<<>>, a) = Compress(<<>>, b)
  PROVE  a = b
<1>. DEFINE x == Compress(<<>>, a)
<1>0. Block \in Nat \ {0}
  BY HashAssumption
<1>1. /\ Len(x) = m
      /\ \A k \in 1 .. m : x[k] = SubSeq(a, (k - 1) * Block + 1, k * Block)
  BY CompressFirst
<1>2. /\ Len(x) = n
      /\ \A k \in 1 .. n : x[k] = SubSeq(b, (k - 1) * Block + 1, k * Block)
  BY CompressFirst
<1>. HIDE DEF x
<1>3. Len(a) = Len(b) /\ m = n
  BY <1>1, <1>2
<1>4. ASSUME NEW p \in 1 .. Len(a)
      PROVE  a[p] = b[p]
  <2>. DEFINE q == (p - 1) \div Block
              r == (p - 1) % Block
  <2>1. q \in Nat /\ r \in 0 .. Block - 1 /\ p - 1 = q * Block + r
    <3>1. p - 1 \in Nat
      OBVIOUS
    <3>. QED
      BY <1>0, <3>1, DivModNat
  <2>. HIDE DEF q, r
  <2>2. q < m
    <3>1. p - 1 < m * Block
      BY <1>0
    <3>2. q >= m => q * Block >= m * Block
      BY <1>0, <2>1
    <3>. QED
      BY <1>0, <2>1, <3>1, <3>2
  <2>3. q + 1 \in 1 .. m /\ r + 1 \in 1 .. Block /\ ((q + 1) - 1) * Block + (r + 1) = p
    BY <1>0, <2>1, <2>2
  <2>4. SubSeq(a, ((q + 1) - 1) * Block + 1, (q + 1) * Block)[r + 1]
          = a[((q + 1) - 1) * Block + (r + 1)]
    BY <2>3, BlockOf
  <2>5. SubSeq(b, ((q + 1) - 1) * Block + 1, (q + 1) * Block)[r + 1]
          = b[((q + 1) - 1) * Block + (r + 1)]
    BY <1>3, <2>3, BlockOf
  <2>6. SubSeq(a, ((q + 1) - 1) * Block + 1, (q + 1) * Block)
          = SubSeq(b, ((q + 1) - 1) * Block + 1, (q + 1) * Block)
    BY <1>1, <1>2, <1>3, <2>3
  <2>. QED
    BY <2>3, <2>4, <2>5, <2>6
<1>. QED
  BY <1>3, <1>4, StrEqual

----------------------------------------------------------------------------
(* Digests and MACs name their messages.                                   *)

(* No byte is the padding's mark.                                          *)
Plain(s) == \A k \in 1 .. Len(s) : s[k] # Pad!Mark

(* The chaining value a digest is taken of.                                *)
Absorbed(m) == Compress(<<>>, m \o MdTail(Len(m)))

(* A digest's byte names the hash, the blocks and its place.               *)
LEMMA DigestIs ==
  ASSUME NEW h \in Hashes, NEW m
  PROVE  /\ Str(Digest(h, m)) /\ Len(Digest(h, m)) = DigestSize[h]
         /\ \A k \in 1 .. DigestSize[h] : Digest(h, m)[k] = <<"digest", h, Absorbed(m), k>>
<1>. DEFINE a == Absorbed(m)
            n == DigestSize[h]
            d == [k \in 1 .. n |-> <<"digest", h, a, k>>]
<1>1. Digest(h, m) = d
  BY DEF Digest, Serialize, Absorbed
<1>. HIDE DEF a
<1>2. n \in Nat
  BY HashAssumption
<1>. HIDE DEF n
<1>3. Tabulated(d, n) /\ \A k \in 1 .. n : d[k] = <<"digest", h, a, k>>
  BY DEF Tabulated
<1>. HIDE DEF d
<1>4. Str(d) /\ Len(d) = n
  BY <1>2, <1>3, StrOf
<1>. QED
  BY <1>1, <1>3, <1>4 DEF n, a

(* None of them is a padding mark, in a digest,                            *)
LEMMA DigestPlain ==
  ASSUME NEW h \in Hashes, NEW m
  PROVE  Plain(Digest(h, m))
<1>1. ASSUME NEW k \in 1 .. Len(Digest(h, m))
      PROVE  Digest(h, m)[k] # Pad!Mark
  <2>1. Digest(h, m)[k] = <<"digest", h, Absorbed(m), k>>
    BY DigestIs
  <2>. QED
    BY <2>1 DEF Pad!Mark
<1>. QED
  BY <1>1 DEF Plain

(* Padding can be taken off: the message ends at the last mark.            *)
LEMMA PaddingEnds ==
  ASSUME NEW x, NEW y, Str(x), Str(y), Plain(x),
         Len(y) < Len(x), x \o MdTail(Len(x)) = y \o MdTail(Len(y))
  PROVE  FALSE
<1>. DEFINE a == x \o MdTail(Len(x))
            p == Len(y) + 1
<1>1. Len(x) \in Nat /\ Len(y) \in Nat
  BY DEF Str
<1>2. /\ Str(MdTail(Len(x))) /\ Len(MdTail(Len(x))) \in Nat \ {0}
      /\ Str(MdTail(Len(y))) /\ Len(MdTail(Len(y))) \in Nat \ {0}
      /\ MdTail(Len(y))[1] = Pad!Mark
  BY <1>1, TailMarked
<1>3. \A k \in 1 .. Len(x) + Len(MdTail(Len(x))) :
         a[k] = IF k <= Len(x) THEN x[k] ELSE MdTail(Len(x))[k - Len(x)]
  BY <1>2, StrConcat
<1>4. \A k \in 1 .. Len(y) + Len(MdTail(Len(y))) :
         a[k] = IF k <= Len(y) THEN y[k] ELSE MdTail(Len(y))[k - Len(y)]
  BY <1>2, StrConcat
<1>. HIDE DEF a
<1>5. p \in 1 .. Len(x) /\ ~(p <= Len(y)) /\ p - Len(y) = 1
  BY <1>1
<1>6. p \in 1 .. Len(x) + Len(MdTail(Len(x))) /\ p \in 1 .. Len(y) + Len(MdTail(Len(y)))
  BY <1>1, <1>2
<1>. HIDE DEF p
<1>7. a[p] = x[p]
  BY <1>3, <1>5, <1>6
<1>8. a[p] = Pad!Mark
  BY <1>2, <1>4, <1>5, <1>6
<1>. QED
  BY <1>5, <1>7, <1>8 DEF Plain

(* One byte of a digest names its hash's whole input.                      *)
LEMMA DigestNames ==
  ASSUME NEW h \in Hashes, NEW x, NEW y, Str(x), Str(y), Plain(x), Plain(y),
         NEW k \in 1 .. DigestSize[h], NEW l \in 1 .. DigestSize[h],
         Digest(h, x)[k] = Digest(h, y)[l]
  PROVE  k = l /\ x = y
<1>. DEFINE a == x \o MdTail(Len(x))
            b == y \o MdTail(Len(y))
<1>1. Len(x) \in Nat /\ Len(y) \in Nat
  BY DEF Str
<1>2. /\ <<"digest", h, Absorbed(x), k>> = <<"digest", h, Absorbed(y), l>>
  BY DigestIs
<1>3. k = l /\ Absorbed(x) = Absorbed(y)
  BY <1>2
<1>4. /\ Str(MdTail(Len(x))) /\ Len(MdTail(Len(x))) \in Nat
      /\ \E q \in Nat : Len(x) + Len(MdTail(Len(x))) = q * Block
  BY <1>1, TailMarked
<1>5. /\ Str(MdTail(Len(y))) /\ Len(MdTail(Len(y))) \in Nat
      /\ \E q \in Nat : Len(y) + Len(MdTail(Len(y))) = q * Block
  BY <1>1, TailMarked
<1>6. Str(a) /\ \E q \in Nat : Len(a) = q * Block
  BY <1>4, StrConcat
<1>7. Str(b) /\ \E q \in Nat : Len(b) = q * Block
  BY <1>5, StrConcat
<1>8. Compress(<<>>, a) = Compress(<<>>, b)
  BY <1>3 DEF Absorbed
<1>. HIDE DEF a, b
<1>9. a = b
  BY <1>6, <1>7, <1>8, CompressInjective
<1>10. Len(x) = Len(y)
  <2>1. ~(Len(y) < Len(x))
    BY <1>9, PaddingEnds DEF a, b
  <2>2. ~(Len(x) < Len(y))
    BY <1>9, PaddingEnds DEF a, b
  <2>. QED
    BY <1>1, <2>1, <2>2
<1>11. ASSUME NEW p \in 1 .. Len(x)
       PROVE  x[p] = y[p]
  <2>1. p \in 1 .. Len(x) + Len(MdTail(Len(x))) /\ p <= Len(x)
    BY <1>1, <1>4
  <2>2. a[p] = x[p]
    BY <1>4, <2>1, StrConcat DEF a
  <2>3. p \in 1 .. Len(y) + Len(MdTail(Len(y))) /\ p <= Len(y)
    BY <1>1, <1>5, <1>10
  <2>4. b[p] = y[p]
    BY <1>5, <2>3, StrConcat DEF b
  <2>. QED
    BY <1>9, <2>2, <2>4
<1>12. x = y
  BY <1>10, <1>11, StrEqual
<1>. QED
  BY <1>3, <1>12

(* HMAC of a hash and a block size that its constructor accepts.           *)
Fitted(mac) ==
  mac.hash \in Hashes /\ mac.block \in Nat /\ mac.block >= DigestSize[mac.hash]

(* K0 fills the block, whatever the key's length.                          *)
LEMMA BlockKeyIs ==
  ASSUME NEW mac, Fitted(mac), NEW key, Str(key)
  PROVE  Str(BlockKey(mac, key)) /\ Len(BlockKey(mac, key)) = mac.block
<1>. DEFINE fit == IF Len(key) > mac.block THEN Digest(mac.hash, key) ELSE key
            n == mac.block - Len(fit)
            z == [k \in 1 .. n |-> Pad!Zero]
<1>1. Str(fit) /\ Len(fit) <= mac.block
  <2>1. CASE Len(key) > mac.block
    <3>1. Str(Digest(mac.hash, key)) /\ Len(Digest(mac.hash, key)) = DigestSize[mac.hash]
      BY DigestIs DEF Fitted
    <3>. QED
      BY <2>1, <3>1 DEF Fitted
  <2>2. CASE ~(Len(key) > mac.block)
    BY <2>2 DEF Str, Fitted
  <2>. QED
    BY <2>1, <2>2
<1>2. BlockKey(mac, key) = fit \o z
  BY DEF BlockKey
<1>. HIDE DEF fit
<1>3. n \in Nat /\ Len(fit) + n = mac.block
  BY <1>1 DEF Fitted, Str
<1>. HIDE DEF n
<1>4. Str(z) /\ Len(z) = n
  <2>1. Tabulated(z, n)
    BY DEF Tabulated
  <2>. HIDE DEF z
  <2>. QED
    BY <1>3, <2>1, StrOf
<1>. HIDE DEF z
<1>5. Str(fit \o z) /\ Len(fit \o z) = mac.block
  BY <1>1, <1>3, <1>4, StrConcat
<1>. QED
  BY <1>2, <1>5

(* XOR keeps the length, and leaves no mark.                               *)
LEMMA XoredIs ==
  ASSUME NEW pad, NEW s, Str(s)
  PROVE  Str(Xored(pad, s)) /\ Len(Xored(pad, s)) = Len(s) /\ Plain(Xored(pad, s))
<1>. DEFINE n == Len(s)
            x == Xored(pad, s)
<1>1. n \in Nat /\ DOMAIN s = 1 .. n
  BY DEF Str, Tabulated
<1>. HIDE DEF n
<1>2. x = [k \in 1 .. n |-> <<"xor", pad, s[k]>>]
  BY <1>1 DEF Xored
<1>3. Tabulated(x, n) /\ \A k \in 1 .. n : x[k] # Pad!Mark
  BY <1>2 DEF Tabulated, Pad!Mark
<1>. HIDE DEF x
<1>4. Str(x) /\ Len(x) = n
  BY <1>1, <1>3, StrOf
<1>. QED
  BY <1>3, <1>4 DEF Plain, x, n

(* Joining two strings without a mark makes none.                          *)
LEMMA PlainConcat ==
  ASSUME NEW a, NEW b, Str(a), Str(b), Plain(a), Plain(b)
  PROVE  Plain(a \o b)
<1>1. /\ Len(a \o b) = Len(a) + Len(b)
      /\ \A k \in 1 .. Len(a) + Len(b) : (a \o b)[k] = IF k <= Len(a) THEN a[k] ELSE b[k - Len(a)]
  BY StrConcat
<1>2. Len(a) \in Nat /\ Len(b) \in Nat
  BY DEF Str
<1>. DEFINE c == a \o b
<1>. HIDE DEF c
<1>3. ASSUME NEW k \in 1 .. Len(c)
      PROVE  c[k] # Pad!Mark
  <2>1. k \in 1 .. Len(a) + Len(b)
    BY <1>1 DEF c
  <2>2. CASE k <= Len(a)
    BY <1>1, <1>2, <2>1, <2>2 DEF Plain, c
  <2>3. CASE ~(k <= Len(a))
    <3>1. k - Len(a) \in 1 .. Len(b)
      BY <1>2, <2>1, <2>3
    <3>2. c[k] = b[k - Len(a)]
      BY <1>1, <2>1, <2>3 DEF c
    <3>. QED
      BY <3>1, <3>2 DEF Plain
  <2>. QED
    BY <2>2, <2>3
<1>. QED
  BY <1>3 DEF Plain, c

(* A MAC is a digest, and a byte of it names the message under its key.    *)
LEMMA MacIs ==
  ASSUME NEW mac, Fitted(mac), NEW key, NEW msg
  PROVE  /\ Str(Mac(mac, key, msg)) /\ Len(Mac(mac, key, msg)) = DigestSize[mac.hash]
         /\ Plain(Mac(mac, key, msg))
         /\ \A k \in 1 .. DigestSize[mac.hash] :
              \E s : Mac(mac, key, msg)[k] = <<"digest", mac.hash, s, k>>
<1>. DEFINE m == Xored("opad", BlockKey(mac, key))
                   \o Digest(mac.hash, Xored("ipad", BlockKey(mac, key)) \o msg)
<1>1. Mac(mac, key, msg) = Digest(mac.hash, m)
  BY DEF Mac
<1>2. mac.hash \in Hashes
  BY DEF Fitted
<1>. HIDE DEF m
<1>. QED
  BY <1>1, <1>2, DigestIs, DigestPlain

(* A byte of a MAC names its place and the whole message.                  *)
LEMMA MacNames ==
  ASSUME NEW mac, Fitted(mac), NEW key, Str(key),
         NEW x, NEW y, Str(x), Str(y), Plain(x), Plain(y),
         NEW k \in 1 .. DigestSize[mac.hash], NEW l \in 1 .. DigestSize[mac.hash],
         Mac(mac, key, x)[k] = Mac(mac, key, y)[l]
  PROVE  k = l /\ x = y
<1>. DEFINE h    == mac.hash
            ik   == Xored("ipad", BlockKey(mac, key))
            ok   == Xored("opad", BlockKey(mac, key))
            D(z) == Digest(h, ik \o z)
<1>1. h \in Hashes
  BY DEF Fitted
<1>2. Str(ik) /\ Plain(ik) /\ Str(ok) /\ Plain(ok)
  BY BlockKeyIs, XoredIs
<1>3. Mac(mac, key, x) = Digest(h, ok \o D(x)) /\ Mac(mac, key, y) = Digest(h, ok \o D(y))
  BY DEF Mac
<1>. HIDE DEF h, ik, ok
<1>4. /\ Str(D(x)) /\ Plain(D(x)) /\ Str(D(y)) /\ Plain(D(y))
      /\ Len(D(x)) = DigestSize[h] /\ Len(D(y)) = DigestSize[h]
  BY <1>1, DigestIs, DigestPlain
<1>5. Str(ik \o x) /\ Str(ik \o y) /\ Plain(ik \o x) /\ Plain(ik \o y)
  BY <1>2, StrConcat, PlainConcat
<1>6. k \in 1 .. DigestSize[h] /\ l \in 1 .. DigestSize[h]
  BY DEF h
<1>. DEFINE p == ok \o D(x)
            q == ok \o D(y)
            v == ik \o x
            w == ik \o y
<1>7. k = l /\ p = q
  <2>. HIDE DEF D
  <2>1. Str(p) /\ Str(q) /\ Plain(p) /\ Plain(q)
    BY <1>2, <1>4, StrConcat, PlainConcat
  <2>2. Digest(h, p)[k] = Digest(h, q)[l]
    BY <1>3
  <2>. HIDE DEF p, q
  <2>. QED
    BY <1>1, <1>6, <2>1, <2>2, DigestNames
<1>8. D(x) = D(y)
  <2>. HIDE DEF D
  <2>. QED
    BY <1>2, <1>4, <1>7, StrCancel
<1>9. v = w
  <2>1. Digest(h, v)[k] = Digest(h, w)[k]
    BY <1>8
  <2>2. Str(v) /\ Str(w) /\ Plain(v) /\ Plain(w)
    BY <1>5
  <2>. HIDE DEF v, w
  <2>. QED
    BY <1>1, <1>6, <2>1, <2>2, DigestNames
<1>10. x = y
  BY <1>2, <1>9, StrCancel
<1>. QED
  BY <1>7, <1>10

----------------------------------------------------------------------------
(* The formulas' recursions are well defined.                              *)

Flattening(s, n) ==
  LET flatten[p \in 1 .. n] == IF p = 1 THEN s[p] ELSE flatten[p - 1] \o s[p] IN flatten

(* The pieces joined so far.  *)
LEMMA FlatteningIs ==
  ASSUME NEW s, NEW n \in Nat \ {0}
  PROVE  /\ DOMAIN Flattening(s, n) = 1 .. n
         /\ Flattening(s, n)[1] = s[1]
         /\ \A p \in 2 .. n : Flattening(s, n)[p] = Flattening(s, n)[p - 1] \o s[p]
<1>. DEFINE Is(f, m) == f = [p \in 1 .. m |-> IF p = 1 THEN s[1]
                                             ELSE f[p - 1] \o s[p]]
            E       == {m \in Nat : \E f : Is(f, m + 1)}
<1>1. 0 \in E
  <2>. DEFINE g == [p \in 1 .. 1 |-> s[1]]
  <2>1. Is(g, 1)
    OBVIOUS
  <2>2. \E f : Is(f, 0 + 1)
    <3>1. 0 + 1 = 1
      OBVIOUS
    <3>. QED
      BY <2>1, <3>1
  <2>. QED
    BY <2>2
<1>2. ASSUME NEW m \in E
      PROVE  m + 1 \in E
  <2>. DEFINE w == m + 1
  <2>1. PICK f : Is(f, w)
    OBVIOUS
  <2>2. w \in Nat /\ w >= 1 /\ m + 1 + 1 = w + 1
    OBVIOUS
  <2>. HIDE DEF w
  <2>. DEFINE x == f[w] \o s[(w + 1)]
  <2>. HIDE DEF x
  <2>. DEFINE g == [p \in 1 .. w + 1 |-> IF p <= w THEN f[p] ELSE x]
  <2>3. DOMAIN g = 1 .. w + 1 /\ g = [p \in 1 .. w + 1 |-> g[p]]
    OBVIOUS
  <2>4. ASSUME NEW p \in 1 .. w + 1
        PROVE  g[p] = IF p = 1 THEN s[1] ELSE g[p - 1] \o s[p]
    <3>1. CASE p <= w
      <4>1. p \in 1 .. w /\ g[p] = f[p]
        BY <2>2, <3>1
      <4>2. f[p] = IF p = 1 THEN s[1] ELSE f[p - 1] \o s[p]
        BY <2>1, <4>1
      <4>3. p # 1 => g[p - 1] = f[p - 1]
        BY <2>2, <3>1
      <4>. HIDE DEF g
      <4>. QED
        BY <4>1, <4>2, <4>3
    <3>2. CASE ~(p <= w)
      <4>1. p = w + 1 /\ p # 1 /\ p - 1 = w
        BY <2>2, <3>2
      <4>2. g[p] = x /\ g[w] = f[w]
        BY <2>2, <4>1
      <4>. HIDE DEF g
      <4>. QED
        BY <4>1, <4>2 DEF x
    <3>. QED
      BY <3>1, <3>2
  <2>. HIDE DEF g
  <2>5. Is(g, w + 1)
    BY <2>3, <2>4
  <2>. HIDE DEF Is
  <2>6. m + 1 \in Nat /\ Is(g, (m + 1) + 1)
    BY <2>2, <2>5
  <2>. QED
    BY <2>6
<1>3. E \in SUBSET Nat
  OBVIOUS
<1>4. E = Nat
  <2>. HIDE DEF E
  <2>. QED
    BY <1>1, <1>2, <1>3, Induction
<1>5. \E f : Is(f, n)
  <2>1. n - 1 \in Nat /\ (n - 1) + 1 = n
    OBVIOUS
  <2>. HIDE DEF Is
  <2>2. \E f : Is(f, (n - 1) + 1)
    BY <1>4, <2>1
  <2>. QED
    BY <2>1, <2>2
<1>. DEFINE h == CHOOSE f : Is(f, n)
<1>6. Flattening(s, n) = h
  BY DEF Flattening
<1>7. Is(h, n)
  <2>. HIDE DEF Is
  <2>. QED
    BY <1>5
<1>8. Is(Flattening(s, n), n)
  <2>. HIDE DEF Is, h
  <2>. QED
    BY <1>6, <1>7
<1>. HIDE DEF h
<1>9. 1 \in 1 .. n /\ \A p \in 2 .. n : p \in 1 .. n /\ p # 1
  OBVIOUS
<1>10. ASSUME NEW f, Is(f, n)
       PROVE  /\ DOMAIN f = 1 .. n /\ f[1] = s[1]
              /\ \A p \in 2 .. n : f[p] = f[p - 1] \o s[p]
  <2>1. \A p \in 1 .. n : f[p] = IF p = 1 THEN s[1] ELSE f[p - 1] \o s[p]
    BY <1>10
  <2>. QED
    BY <1>9, <1>10, <2>1
<1>. HIDE DEF Is
<1>. QED
  BY <1>8, <1>10

(* T(0), T(1), ...                                                        *)
LEMMA HkdfBlocksAre ==
  ASSUME NEW mac, NEW prk, NEW info, NEW n \in Nat
  PROVE  /\ DOMAIN HkdfBlocks(mac, prk, info, n) = 0 .. n
         /\ HkdfBlocks(mac, prk, info, n)[0] = <<>>
         /\ \A p \in 1 .. n :
              HkdfBlocks(mac, prk, info, n)[p]
                = Mac(mac, prk,
                      HkdfBlocks(mac, prk, info, n)[p - 1] \o info \o CounterBytes(p, 1))
<1>. DEFINE Is(f, m) == f = [p \in 0 .. m |->
                               IF p = 0 THEN <<>>
                               ELSE Mac(mac, prk, f[p - 1] \o info \o CounterBytes(p, 1))]
            E       == {m \in Nat : \E f : Is(f, m + 0)}
<1>1. 0 \in E
  <2>. DEFINE g == [p \in 0 .. 0 |-> <<>>]
  <2>1. Is(g, 0)
    OBVIOUS
  <2>2. \E f : Is(f, 0 + 0)
    <3>1. 0 + 0 = 0
      OBVIOUS
    <3>. QED
      BY <2>1, <3>1
  <2>. QED
    BY <2>2
<1>2. ASSUME NEW m \in E
      PROVE  m + 1 \in E
  <2>. DEFINE w == m + 0
  <2>1. PICK f : Is(f, w)
    OBVIOUS
  <2>2. w \in Nat /\ w >= 0 /\ m + 1 + 0 = w + 1
    OBVIOUS
  <2>. HIDE DEF w
  <2>. DEFINE x == Mac(mac, prk, f[w] \o info \o CounterBytes((w + 1), 1))
  <2>. HIDE DEF x
  <2>. DEFINE g == [p \in 0 .. w + 1 |-> IF p <= w THEN f[p] ELSE x]
  <2>3. DOMAIN g = 0 .. w + 1 /\ g = [p \in 0 .. w + 1 |-> g[p]]
    OBVIOUS
  <2>4. ASSUME NEW p \in 0 .. w + 1
        PROVE  g[p] = IF p = 0 THEN <<>> ELSE Mac(mac, prk, g[p - 1] \o info \o CounterBytes(p, 1))
    <3>1. CASE p <= w
      <4>1. p \in 0 .. w /\ g[p] = f[p]
        BY <2>2, <3>1
      <4>2. f[p] = IF p = 0 THEN <<>> ELSE Mac(mac, prk, f[p - 1] \o info \o CounterBytes(p, 1))
        BY <2>1, <4>1
      <4>3. p # 0 => g[p - 1] = f[p - 1]
        BY <2>2, <3>1
      <4>. HIDE DEF g
      <4>. QED
        BY <4>1, <4>2, <4>3
    <3>2. CASE ~(p <= w)
      <4>1. p = w + 1 /\ p # 0 /\ p - 1 = w
        BY <2>2, <3>2
      <4>2. g[p] = x /\ g[w] = f[w]
        BY <2>2, <4>1
      <4>. HIDE DEF g
      <4>. QED
        BY <4>1, <4>2 DEF x
    <3>. QED
      BY <3>1, <3>2
  <2>. HIDE DEF g
  <2>5. Is(g, w + 1)
    BY <2>3, <2>4
  <2>. HIDE DEF Is
  <2>6. m + 1 \in Nat /\ Is(g, (m + 1) + 0)
    BY <2>2, <2>5
  <2>. QED
    BY <2>6
<1>3. E \in SUBSET Nat
  OBVIOUS
<1>4. E = Nat
  <2>. HIDE DEF E
  <2>. QED
    BY <1>1, <1>2, <1>3, Induction
<1>5. \E f : Is(f, n)
  <2>1. n - 0 \in Nat /\ (n - 0) + 0 = n
    OBVIOUS
  <2>. HIDE DEF Is
  <2>2. \E f : Is(f, (n - 0) + 0)
    BY <1>4, <2>1
  <2>. QED
    BY <2>1, <2>2
<1>. DEFINE h == CHOOSE f : Is(f, n)
<1>6. HkdfBlocks(mac, prk, info, n) = h
  BY DEF HkdfBlocks
<1>7. Is(h, n)
  <2>. HIDE DEF Is
  <2>. QED
    BY <1>5
<1>8. Is(HkdfBlocks(mac, prk, info, n), n)
  <2>. HIDE DEF Is, h
  <2>. QED
    BY <1>6, <1>7
<1>. HIDE DEF h
<1>9. 0 \in 0 .. n /\ \A p \in 1 .. n : p \in 0 .. n /\ p # 0
  OBVIOUS
<1>10. ASSUME NEW f, Is(f, n)
       PROVE  /\ DOMAIN f = 0 .. n /\ f[0] = <<>>
              /\ \A p \in 1 .. n : f[p] = Mac(mac, prk, f[p - 1] \o info \o CounterBytes(p, 1))
  <2>1. \A p \in 0 .. n :
          f[p] = IF p = 0 THEN <<>> ELSE Mac(mac, prk, f[p - 1] \o info \o CounterBytes(p, 1))
    BY <1>10
  <2>. QED
    BY <1>9, <1>10, <2>1
<1>. HIDE DEF Is
<1>. QED
  BY <1>8, <1>10

(* U(1), U(2), ...                                                        *)
LEMMA PbkdfChainIs ==
  ASSUME NEW mac, NEW key, NEW salt, NEW c \in Nat \ {0}, NEW b
  PROVE  /\ DOMAIN PbkdfChain(mac, key, salt, c, b) = 1 .. c
         /\ PbkdfChain(mac, key, salt, c, b)[1] = Mac(mac, key, salt \o CounterBytes(b, Octets))
         /\ \A p \in 2 .. c :
              PbkdfChain(mac, key, salt, c, b)[p]
                = Mac(mac, key, PbkdfChain(mac, key, salt, c, b)[p - 1])
<1>. DEFINE Is(f, m) == f = [p \in 1 .. m |->
                               IF p = 1 THEN Mac(mac, key, salt \o CounterBytes(b, Octets))
                               ELSE Mac(mac, key, f[p - 1])]
            E       == {m \in Nat : \E f : Is(f, m + 1)}
<1>1. 0 \in E
  <2>. DEFINE g == [p \in 1 .. 1 |-> Mac(mac, key, salt \o CounterBytes(b, Octets))]
  <2>1. Is(g, 1)
    OBVIOUS
  <2>2. \E f : Is(f, 0 + 1)
    <3>1. 0 + 1 = 1
      OBVIOUS
    <3>. QED
      BY <2>1, <3>1
  <2>. QED
    BY <2>2
<1>2. ASSUME NEW m \in E
      PROVE  m + 1 \in E
  <2>. DEFINE w == m + 1
  <2>1. PICK f : Is(f, w)
    OBVIOUS
  <2>2. w \in Nat /\ w >= 1 /\ m + 1 + 1 = w + 1
    OBVIOUS
  <2>. HIDE DEF w
  <2>. DEFINE x == Mac(mac, key, f[w])
  <2>. HIDE DEF x
  <2>. DEFINE g == [p \in 1 .. w + 1 |-> IF p <= w THEN f[p] ELSE x]
  <2>3. DOMAIN g = 1 .. w + 1 /\ g = [p \in 1 .. w + 1 |-> g[p]]
    OBVIOUS
  <2>4. ASSUME NEW p \in 1 .. w + 1
        PROVE  g[p] = IF p = 1 THEN Mac(mac, key, salt \o CounterBytes(b, Octets))
                      ELSE Mac(mac, key, g[p - 1])
    <3>1. CASE p <= w
      <4>1. p \in 1 .. w /\ g[p] = f[p]
        BY <2>2, <3>1
      <4>2. f[p] = IF p = 1 THEN Mac(mac, key, salt \o CounterBytes(b, Octets))
                   ELSE Mac(mac, key, f[p - 1])
        BY <2>1, <4>1
      <4>3. p # 1 => g[p - 1] = f[p - 1]
        BY <2>2, <3>1
      <4>. HIDE DEF g
      <4>. QED
        BY <4>1, <4>2, <4>3
    <3>2. CASE ~(p <= w)
      <4>1. p = w + 1 /\ p # 1 /\ p - 1 = w
        BY <2>2, <3>2
      <4>2. g[p] = x /\ g[w] = f[w]
        BY <2>2, <4>1
      <4>. HIDE DEF g
      <4>. QED
        BY <4>1, <4>2 DEF x
    <3>. QED
      BY <3>1, <3>2
  <2>. HIDE DEF g
  <2>5. Is(g, w + 1)
    BY <2>3, <2>4
  <2>. HIDE DEF Is
  <2>6. m + 1 \in Nat /\ Is(g, (m + 1) + 1)
    BY <2>2, <2>5
  <2>. QED
    BY <2>6
<1>3. E \in SUBSET Nat
  OBVIOUS
<1>4. E = Nat
  <2>. HIDE DEF E
  <2>. QED
    BY <1>1, <1>2, <1>3, Induction
<1>5. \E f : Is(f, c)
  <2>1. c - 1 \in Nat /\ (c - 1) + 1 = c
    OBVIOUS
  <2>. HIDE DEF Is
  <2>2. \E f : Is(f, (c - 1) + 1)
    BY <1>4, <2>1
  <2>. QED
    BY <2>1, <2>2
<1>. DEFINE h == CHOOSE f : Is(f, c)
<1>6. PbkdfChain(mac, key, salt, c, b) = h
  BY DEF PbkdfChain
<1>7. Is(h, c)
  <2>. HIDE DEF Is
  <2>. QED
    BY <1>5
<1>8. Is(PbkdfChain(mac, key, salt, c, b), c)
  <2>. HIDE DEF Is, h
  <2>. QED
    BY <1>6, <1>7
<1>. HIDE DEF h
<1>9. 1 \in 1 .. c /\ \A p \in 2 .. c : p \in 1 .. c /\ p # 1
  OBVIOUS
<1>10. ASSUME NEW f, Is(f, c)
       PROVE  /\ DOMAIN f = 1 .. c /\ f[1] = Mac(mac, key, salt \o CounterBytes(b, Octets))
              /\ \A p \in 2 .. c : f[p] = Mac(mac, key, f[p - 1])
  <2>1. \A p \in 1 .. c : f[p] = IF p = 1 THEN Mac(mac, key, salt \o CounterBytes(b, Octets))
                                 ELSE Mac(mac, key, f[p - 1])
    BY <1>10
  <2>. QED
    BY <1>9, <1>10, <2>1
<1>. HIDE DEF Is
<1>. QED
  BY <1>8, <1>10

FirstSum(U)      == [k \in DOMAIN U[1] |-> {U[1][k]}]
NextSum(U, f, p) == [k \in DOMAIN U[1] |-> SymDiff(f[k], {U[p][k]})]

(* Their running XOR.                                                     *)
LEMMA PbkdfSumsAre ==
  ASSUME NEW U, NEW c \in Nat \ {0}
  PROVE  /\ DOMAIN PbkdfSums(U, c) = 1 .. c
         /\ PbkdfSums(U, c)[1] = FirstSum(U)
         /\ \A p \in 2 .. c : PbkdfSums(U, c)[p] = NextSum(U, PbkdfSums(U, c)[p - 1], p)
<1>. DEFINE Is(f, m) == f = [p \in 1 .. m |-> IF p = 1 THEN FirstSum(U)
                                             ELSE NextSum(U, f[p - 1], p)]
            E       == {m \in Nat : \E f : Is(f, m + 1)}
<1>1. 0 \in E
  <2>. DEFINE g == [p \in 1 .. 1 |-> FirstSum(U)]
  <2>1. Is(g, 1)
    OBVIOUS
  <2>2. \E f : Is(f, 0 + 1)
    <3>1. 0 + 1 = 1
      OBVIOUS
    <3>. QED
      BY <2>1, <3>1
  <2>. QED
    BY <2>2
<1>2. ASSUME NEW m \in E
      PROVE  m + 1 \in E
  <2>. DEFINE w == m + 1
  <2>1. PICK f : Is(f, w)
    OBVIOUS
  <2>2. w \in Nat /\ w >= 1 /\ m + 1 + 1 = w + 1
    OBVIOUS
  <2>. HIDE DEF w
  <2>. DEFINE x == NextSum(U, f[w], (w + 1))
  <2>. HIDE DEF x
  <2>. DEFINE g == [p \in 1 .. w + 1 |-> IF p <= w THEN f[p] ELSE x]
  <2>3. DOMAIN g = 1 .. w + 1 /\ g = [p \in 1 .. w + 1 |-> g[p]]
    OBVIOUS
  <2>4. ASSUME NEW p \in 1 .. w + 1
        PROVE  g[p] = IF p = 1 THEN FirstSum(U) ELSE NextSum(U, g[p - 1], p)
    <3>1. CASE p <= w
      <4>1. p \in 1 .. w /\ g[p] = f[p]
        BY <2>2, <3>1
      <4>2. f[p] = IF p = 1 THEN FirstSum(U) ELSE NextSum(U, f[p - 1], p)
        BY <2>1, <4>1
      <4>3. p # 1 => g[p - 1] = f[p - 1]
        BY <2>2, <3>1
      <4>. HIDE DEF g
      <4>. QED
        BY <4>1, <4>2, <4>3
    <3>2. CASE ~(p <= w)
      <4>1. p = w + 1 /\ p # 1 /\ p - 1 = w
        BY <2>2, <3>2
      <4>2. g[p] = x /\ g[w] = f[w]
        BY <2>2, <4>1
      <4>. HIDE DEF g
      <4>. QED
        BY <4>1, <4>2 DEF x
    <3>. QED
      BY <3>1, <3>2
  <2>. HIDE DEF g
  <2>5. Is(g, w + 1)
    BY <2>3, <2>4
  <2>. HIDE DEF Is
  <2>6. m + 1 \in Nat /\ Is(g, (m + 1) + 1)
    BY <2>2, <2>5
  <2>. QED
    BY <2>6
<1>3. E \in SUBSET Nat
  OBVIOUS
<1>4. E = Nat
  <2>. HIDE DEF E
  <2>. QED
    BY <1>1, <1>2, <1>3, Induction
<1>5. \E f : Is(f, c)
  <2>1. c - 1 \in Nat /\ (c - 1) + 1 = c
    OBVIOUS
  <2>. HIDE DEF Is
  <2>2. \E f : Is(f, (c - 1) + 1)
    BY <1>4, <2>1
  <2>. QED
    BY <2>1, <2>2
<1>. DEFINE h == CHOOSE f : Is(f, c)
<1>6. PbkdfSums(U, c) = h
  BY DEF PbkdfSums, FirstSum, NextSum
<1>7. Is(h, c)
  <2>. HIDE DEF Is
  <2>. QED
    BY <1>5
<1>8. Is(PbkdfSums(U, c), c)
  <2>. HIDE DEF Is, h
  <2>. QED
    BY <1>6, <1>7
<1>. HIDE DEF h
<1>9. 1 \in 1 .. c /\ \A p \in 2 .. c : p \in 1 .. c /\ p # 1
  OBVIOUS
<1>10. ASSUME NEW f, Is(f, c)
       PROVE  /\ DOMAIN f = 1 .. c /\ f[1] = FirstSum(U)
              /\ \A p \in 2 .. c : f[p] = NextSum(U, f[p - 1], p)
  <2>1. \A p \in 1 .. c : f[p] = IF p = 1 THEN FirstSum(U) ELSE NextSum(U, f[p - 1], p)
    BY <1>10
  <2>. QED
    BY <1>9, <1>10, <2>1
<1>. HIDE DEF Is
<1>. QED
  BY <1>8, <1>10

----------------------------------------------------------------------------
(* Pieces laid side by side.                                               *)

(* The library's flattening, as the recursion it is.                       *)
LEMMA FlattenIs ==
  ASSUME NEW s, NEW n \in Nat, Str(s), Len(s) = n
  PROVE  FlattenSeq(s) = IF n = 0 THEN s ELSE Flattening(s, n)[n]
BY DEF FlattenSeq, Flattening

(* A piece more.                                                           *)
LEMMA FlattenSnoc ==
  ASSUME NEW n \in Nat, NEW s, NEW r, Str(s), Len(s) = n + 1, Str(r), Len(r) = n,
         \A p \in 1 .. n : r[p] = s[p], Str(s[n + 1])
  PROVE  FlattenSeq(s) = FlattenSeq(r) \o s[n + 1]
<1>. DEFINE m == n + 1
<1>0. m \in Nat \ {0} /\ m # 0
  OBVIOUS
<1>1. FlattenSeq(s) = Flattening(s, m)[m]
  BY <1>0, FlattenIs
<1>2. CASE n = 0
  <2>1. r = <<>> /\ FlattenSeq(r) = r
    <3>1. r = <<>>
      BY <1>2, EmptyStr, StrEqual
    <3>. QED
      BY <1>2, <3>1, FlattenIs
  <2>2. <<>> \o s[1] = s[1]
    <3>. DEFINE e == <<>>
                x == s[1]
    <3>1. Str(e) /\ Len(e) = 0 /\ Str(x) /\ Len(x) \in Nat
      BY <1>2, EmptyStr DEF Str
    <3>. HIDE DEF e, x
    <3>2. /\ Str(e \o x) /\ Len(e \o x) = Len(e) + Len(x)
          /\ \A k \in 1 .. Len(e) + Len(x) :
               (e \o x)[k] = IF k <= Len(e) THEN e[k] ELSE x[k - Len(e)]
      BY <3>1, StrConcat
    <3>3. Len(e \o x) = Len(x)
      BY <3>1, <3>2
    <3>4. ASSUME NEW k \in 1 .. Len(x)
          PROVE  (e \o x)[k] = x[k]
      <4>1. k \in 1 .. Len(e) + Len(x) /\ ~(k <= Len(e)) /\ k - Len(e) = k
        BY <3>1
      <4>. QED
        BY <3>2, <4>1
    <3>5. e \o x = x
      BY <3>1, <3>2, <3>3, <3>4, StrEqual
    <3>. QED
      BY <3>5 DEF e, x
  <2>3. m = 1 /\ Flattening(s, m)[1] = s[1]
    <3>1. m = 1
      BY <1>2
    <3>. HIDE DEF m
    <3>. QED
      BY <1>0, <3>1, FlatteningIs
  <2>. QED
    BY <1>1, <1>2, <2>1, <2>2, <2>3
<1>3. CASE n # 0
  <2>. DEFINE f == Flattening(s, m)
              g == Flattening(r, n)
  <2>1. f[1] = s[1] /\ \A p \in 2 .. m : f[p] = f[p - 1] \o s[p]
    BY <1>0, FlatteningIs
  <2>2. g[1] = r[1] /\ \A p \in 2 .. n : g[p] = g[p - 1] \o r[p]
    BY <1>3, FlatteningIs
  <2>3. FlattenSeq(r) = g[n]
    BY <1>3, FlattenIs
  <2>. HIDE DEF f, g
  <2>. DEFINE E == {p \in Nat : p + 1 <= n => f[p + 1] = g[p + 1]}
  <2>4. 0 \in E
    BY <1>3, <2>1, <2>2
  <2>5. ASSUME NEW p \in E
        PROVE  p + 1 \in E
    <3>1. CASE (p + 1) + 1 <= n
      <4>. DEFINE q == (p + 1) + 1
      <4>1. q \in 2 .. n /\ q \in 2 .. m /\ q - 1 = p + 1 /\ q \in 1 .. n
        BY <3>1
      <4>2. f[q - 1] = g[q - 1] /\ r[q] = s[q]
        BY <4>1
      <4>. HIDE DEF q
      <4>3. f[q] = g[q]
        BY <2>1, <2>2, <4>1, <4>2
      <4>. QED
        BY <4>3 DEF q
    <3>2. CASE ~((p + 1) + 1 <= n)
      BY <3>2
    <3>. QED
      BY <3>1, <3>2
  <2>6. E \in SUBSET Nat
    OBVIOUS
  <2>7. E = Nat
    <3>. HIDE DEF E
    <3>. QED
      BY <2>4, <2>5, <2>6, Induction
  <2>8. f[n] = g[n]
    <3>1. n - 1 \in Nat /\ (n - 1) + 1 = n
      BY <1>3
    <3>2. n - 1 \in E
      BY <2>7, <3>1
    <3>3. (n - 1) + 1 <= n => f[(n - 1) + 1] = g[(n - 1) + 1]
      BY <3>2
    <3>. QED
      BY <3>1, <3>3
  <2>9. f[m] = f[n] \o s[m]
    <3>1. m \in 2 .. m /\ m - 1 = n
      BY <1>3
    <3>. QED
      BY <2>1, <3>1
  <2>. QED
    BY <1>1, <2>3, <2>8, <2>9 DEF f
<1>. QED
  BY <1>2, <1>3

(* Pieces of one width: each is where a table's row would be.              *)
Uniform(s, w) == \A p \in 1 .. Len(s) : Str(s[p]) /\ Len(s[p]) = w

LaidOut(s, w) ==
  /\ Str(FlattenSeq(s)) /\ Len(FlattenSeq(s)) = Len(s) * w
  /\ \A p \in 1 .. Len(s), k \in 1 .. w : FlattenSeq(s)[(p - 1) * w + k] = s[p][k]

(* Strings of one width are laid side by side.                             *)
LEMMA FlattenUniform ==
  ASSUME NEW w \in Nat
  PROVE  \A s : Str(s) /\ Uniform(s, w) => LaidOut(s, w)
<1>. DEFINE Q(n) == \A s : Str(s) /\ Len(s) = n /\ Uniform(s, w) => LaidOut(s, w)
            E    == {n \in Nat : Q(n)}
<1>1. 0 \in E
  <2>1. ASSUME NEW s, Str(s), Len(s) = 0
        PROVE  LaidOut(s, w)
    <3>1. FlattenSeq(s) = s
      BY <2>1, FlattenIs
    <3>2. 0 * w = 0
      OBVIOUS
    <3>. QED
      BY <2>1, <3>1, <3>2 DEF LaidOut
  <2>. QED
    BY <2>1
<1>2. ASSUME NEW n \in E
      PROVE  n + 1 \in E
  <2>1. SUFFICES ASSUME NEW s, Str(s), Len(s) = n + 1, Uniform(s, w)
                 PROVE  LaidOut(s, w)
    OBVIOUS
  <2>. DEFINE r == [p \in 1 .. n |-> s[p]]
              x == s[n + 1]
              a == FlattenSeq(r)
              b == FlattenSeq(s)
  <2>2. Str(r) /\ Len(r) = n /\ \A p \in 1 .. n : r[p] = s[p]
    <3>1. Tabulated(r, n) /\ \A p \in 1 .. n : r[p] = s[p]
      BY DEF Tabulated
    <3>. HIDE DEF r
    <3>. QED
      BY <3>1, StrOf
  <2>3. n + 1 \in 1 .. Len(s)
    BY <2>1
  <2>4. Str(x) /\ Len(x) = w
    BY <2>1, <2>3 DEF Uniform
  <2>. HIDE DEF r
  <2>5. Uniform(r, w)
    <3>1. \A p \in 1 .. n : p \in 1 .. Len(s)
      BY <2>1
    <3>. QED
      BY <2>1, <2>2, <3>1 DEF Uniform
  <2>6. LaidOut(r, w)
    BY <2>2, <2>5
  <2>7. b = a \o x
    BY <2>1, <2>2, <2>4, FlattenSnoc
  <2>8. Str(a) /\ Len(a) = n * w /\ \A p \in 1 .. n, k \in 1 .. w : a[(p - 1) * w + k] = r[p][k]
    BY <2>2, <2>6 DEF LaidOut
  <2>. HIDE DEF a, b, x
  <2>9. /\ Str(b) /\ Len(b) = Len(a) + w
        /\ \A k \in 1 .. Len(a) + Len(x) :
             b[k] = IF k <= Len(a) THEN a[k] ELSE x[k - Len(a)]
    BY <2>4, <2>7, <2>8, StrConcat
  <2>10. Len(a) + w = (n + 1) * w
    BY <2>8
  <2>11. ASSUME NEW p \in 1 .. n + 1, NEW k \in 1 .. w
         PROVE  b[(p - 1) * w + k] = s[p][k]
    <3>. DEFINE z == (p - 1) * w + k
    <3>1. CASE p \in 1 .. n
      <4>1. z \in 1 .. n * w
        <5>1. (p - 1) * w >= 0 /\ (n - p) * w >= 0 /\ n * w = (p - 1) * w + w + (n - p) * w
          BY <3>1
        <5>. QED
          BY <5>1
      <4>2. a[z] = r[p][k] /\ r[p] = s[p]
        BY <2>2, <2>8, <3>1
      <4>. HIDE DEF z
      <4>3. z \in 1 .. Len(a) + Len(x) /\ z <= Len(a)
        BY <2>4, <2>8, <4>1
      <4>4. b[z] = s[p][k]
        BY <2>9, <4>2, <4>3
      <4>. QED
        BY <4>4 DEF z
    <3>2. CASE p = n + 1
      <4>1. z = Len(a) + k
        BY <2>8, <3>2
      <4>. HIDE DEF z
      <4>2. Len(a) \in Nat
        BY <2>8 DEF Str
      <4>3. z \in 1 .. Len(a) + Len(x) /\ ~(z <= Len(a)) /\ z - Len(a) = k
        BY <2>4, <4>1, <4>2
      <4>4. b[z] = x[k]
        BY <2>9, <4>3
      <4>. QED
        BY <3>2, <4>4 DEF z, x
    <3>. QED
      BY <3>1, <3>2
  <2>. QED
    BY <2>1, <2>9, <2>10, <2>11 DEF LaidOut, b
<1>3. E \in SUBSET Nat
  OBVIOUS
<1>4. E = Nat
  <2>. HIDE DEF E
  <2>. QED
    BY <1>1, <1>2, <1>3, Induction
<1>5. \A n \in Nat : Q(n)
  BY <1>4
<1>. QED
  BY <1>5 DEF Str

(* A place in some pieces of one width.                                    *)
LEMMA PlaceOf ==
  ASSUME NEW n \in Nat, NEW w \in Nat \ {0}, NEW z \in 1 .. n * w
  PROVE  \E p \in 1 .. n, k \in 1 .. w : z = (p - 1) * w + k
<1>. DEFINE q == (z - 1) \div w
            r == (z - 1) % w
<1>1. q \in Nat /\ r \in 0 .. w - 1 /\ z - 1 = q * w + r
  <2>1. z - 1 \in Nat
    OBVIOUS
  <2>. QED
    BY <2>1, DivModNat
<1>. HIDE DEF q, r
<1>2. q < n
  <2>1. q >= n => q * w >= n * w
    BY <1>1
  <2>2. z - 1 < n * w
    OBVIOUS
  <2>. QED
    BY <1>1, <2>1, <2>2
<1>3. q + 1 \in 1 .. n /\ r + 1 \in 1 .. w /\ z = ((q + 1) - 1) * w + (r + 1)
  BY <1>1, <1>2
<1>. QED
  BY <1>3

(* What has no byte twice among its pieces has no byte twice once joined.  *)
LEMMA JoinedInjective ==
  ASSUME NEW w \in Nat \ {0}, NEW s, Str(s), Uniform(s, w),
         \A p, q \in 1 .. Len(s), k, l \in 1 .. w : s[p][k] = s[q][l] => p = q /\ k = l,
         NEW len \in 0 .. Len(s) * w
  PROVE  IsInjective(SubSeq(FlattenSeq(s), 1, len))
<1>. DEFINE f == FlattenSeq(s)
            c == SubSeq(f, 1, len)
            n == Len(s)
<1>1. n \in Nat
  BY DEF Str
<1>2. /\ Str(f) /\ Len(f) = n * w
      /\ \A p \in 1 .. n, k \in 1 .. w : f[(p - 1) * w + k] = s[p][k]
  BY FlattenUniform DEF LaidOut
<1>. HIDE DEF f
<1>3. Str(c) /\ Len(c) = len /\ \A z \in 1 .. len : c[z] = f[z]
  <2>1. Len(f) \in Nat /\ len \in 0 .. Len(f)
    BY <1>2 DEF Str
  <2>2. 1 \in 1 .. Len(f) + 1 /\ len \in 1 - 1 .. Len(f) /\ len - 1 + 1 = len
    BY <2>1
  <2>3. /\ Str(c) /\ Len(c) = len - 1 + 1
        /\ \A z \in 1 .. len - 1 + 1 : c[z] = f[1 + z - 1]
    BY <1>2, <2>2, StrSub
  <2>4. \A z \in 1 .. len : 1 + z - 1 = z
    BY <2>1
  <2>. HIDE DEF c
  <2>. QED
    BY <2>2, <2>3, <2>4
<1>. HIDE DEF c, n
<1>4. ASSUME NEW y \in 1 .. len, NEW z \in 1 .. len, c[y] = c[z]
      PROVE  y = z
  <2>1. y \in 1 .. n * w /\ z \in 1 .. n * w
    BY <1>1 DEF n
  <2>2. PICK p \in 1 .. n, k \in 1 .. w : y = (p - 1) * w + k
    BY <1>1, <2>1, PlaceOf
  <2>3. PICK q \in 1 .. n, l \in 1 .. w : z = (q - 1) * w + l
    BY <1>1, <2>1, PlaceOf
  <2>4. s[p][k] = s[q][l]
    BY <1>2, <1>3, <1>4, <2>2, <2>3
  <2>5. p = q /\ k = l
    BY <2>4 DEF n
  <2>. QED
    BY <2>2, <2>3, <2>5
<1>5. DOMAIN c = 1 .. len
  BY <1>3 DEF Str, Tabulated
<1>. QED
  BY <1>4, <1>5 DEF IsInjective, c, f

----------------------------------------------------------------------------
(* The blocks of one output share no byte.                                 *)

(* Equal ends of equal strings.                                            *)
LEMMA SuffixesEqual ==
  ASSUME NEW a, NEW b, NEW c, NEW d, Str(a), Str(b), Str(c), Str(d), Len(c) = Len(d),
         a \o c = b \o d
  PROVE  c = d
<1>. DEFINE x == a \o c
<1>1. Len(a) \in Nat /\ Len(b) \in Nat /\ Len(c) \in Nat
  BY DEF Str
<1>2. /\ Len(x) = Len(a) + Len(c)
      /\ \A k \in 1 .. Len(a) + Len(c) : x[k] = IF k <= Len(a) THEN a[k] ELSE c[k - Len(a)]
  BY StrConcat
<1>3. /\ Len(x) = Len(b) + Len(d)
      /\ \A k \in 1 .. Len(b) + Len(d) : x[k] = IF k <= Len(b) THEN b[k] ELSE d[k - Len(b)]
  BY StrConcat
<1>. HIDE DEF x
<1>4. Len(a) = Len(b)
  BY <1>1, <1>2, <1>3
<1>5. ASSUME NEW k \in 1 .. Len(c)
      PROVE  c[k] = d[k]
  <2>1. /\ k + Len(a) \in 1 .. Len(a) + Len(c) /\ ~(k + Len(a) <= Len(a))
        /\ k + Len(a) - Len(a) = k
    BY <1>1
  <2>2. x[k + Len(a)] = c[k]
    BY <1>2, <2>1
  <2>3. x[k + Len(a)] = d[k]
    BY <1>3, <1>4, <2>1
  <2>. QED
    BY <2>2, <2>3
<1>. QED
  BY <1>5, StrEqual

(* ceil(length / width) blocks are enough, and one fewer are not.          *)
LEMMA BlocksNeeded ==
  ASSUME NEW len \in Nat \ {0}, NEW w \in Nat \ {0}
  PROVE  /\ Pad!CeilDiv(len, w) \in Nat \ {0}
         /\ len <= Pad!CeilDiv(len, w) * w
         /\ \A m \in Nat : len <= m * w => Pad!CeilDiv(len, w) <= m
<1>. DEFINE q == (len + w - 1) \div w
            r == (len + w - 1) % w
<1>1. q \in Nat /\ r \in 0 .. w - 1 /\ len + w - 1 = q * w + r
  <2>1. len + w - 1 \in Nat
    OBVIOUS
  <2>. QED
    BY <2>1, DivModNat
<1>2. Pad!CeilDiv(len, w) = q
  BY DEF Pad!CeilDiv
<1>. HIDE DEF q, r
<1>3. q # 0
  BY <1>1
<1>4. len <= q * w
  BY <1>1
<1>5. ASSUME NEW m \in Nat, len <= m * w
      PROVE  q <= m
  <2>1. q >= m + 1 => q * w >= (m + 1) * w
    BY <1>1
  <2>2. (m + 1) * w = m * w + w
    OBVIOUS
  <2>. QED
    BY <1>1, <1>5, <2>1, <2>2
<1>. QED
  BY <1>1, <1>2, <1>3, <1>4, <1>5

(* HKDF: no two blocks share a byte.                                       *)
LEMMA HkdfBlockIs ==
  ASSUME NEW mac, Fitted(mac), NEW key, NEW info, NEW n \in Nat, NEW p \in 1 .. n
  PROVE  LET T == HkdfBlocks(mac, key, info, n)
         IN  /\ T[p] = Mac(mac, key, T[p - 1] \o info \o CounterBytes(p, 1))
             /\ Str(T[p]) /\ Len(T[p]) = DigestSize[mac.hash] /\ Plain(T[p])
<1>. DEFINE T == HkdfBlocks(mac, key, info, n)
            m == T[p - 1] \o info \o CounterBytes(p, 1)
<1>1. T[p] = Mac(mac, key, m)
  BY HkdfBlocksAre
<1>. HIDE DEF T, m
<1>2. Str(T[p]) /\ Len(T[p]) = DigestSize[mac.hash] /\ Plain(T[p])
  BY <1>1, MacIs
<1>. QED
  BY <1>1, <1>2 DEF T, m

(* T(0) too is a string without a mark.                                    *)
LEMMA HkdfPrevious ==
  ASSUME NEW mac, Fitted(mac), NEW key, NEW info, NEW n \in Nat, NEW p \in 0 .. n
  PROVE  Str(HkdfBlocks(mac, key, info, n)[p]) /\ Plain(HkdfBlocks(mac, key, info, n)[p])
<1>1. CASE p = 0
  <2>1. HkdfBlocks(mac, key, info, n)[p] = <<>>
    BY <1>1, HkdfBlocksAre
  <2>. QED
    BY <2>1, EmptyStr DEF Plain
<1>2. CASE p \in 1 .. n
  BY <1>2, HkdfBlockIs
<1>. QED
  BY <1>1, <1>2

(* A counter's bytes are no marks.                                         *)
LEMMA CounterPlain ==
  ASSUME NEW w \in Nat, NEW x
  PROVE  Plain(CounterBytes(x, w))
<1>. DEFINE c == CounterBytes(x, w)
<1>1. Len(c) = w /\ \A k \in 1 .. w : \E v : c[k] = <<"octet", v>>
  BY CounterStr
<1>. HIDE DEF c
<1>2. \A k \in 1 .. w : c[k] # Pad!Mark
  BY <1>1 DEF Pad!Mark
<1>. QED
  BY <1>1, <1>2 DEF Plain, c

(* HKDF: no two blocks of one output share a byte, by the counter that     *)
(* ends each block's input.                                                *)
LEMMA HkdfBlocksDiffer ==
  ASSUME NEW mac, Fitted(mac), NEW key, Str(key), NEW info, Str(info), Plain(info),
         NEW n \in 0 .. Byte - 1, NEW p \in 1 .. n, NEW q \in 1 .. n,
         NEW k \in 1 .. DigestSize[mac.hash], NEW l \in 1 .. DigestSize[mac.hash],
         HkdfBlocks(mac, key, info, n)[p][k] = HkdfBlocks(mac, key, info, n)[q][l]
  PROVE  p = q /\ k = l
<1>. DEFINE T == HkdfBlocks(mac, key, info, n)
            C(e) == CounterBytes(e, 1)
            M(e) == T[e - 1] \o info \o C(e)
<1>0. Byte \in Nat \ {0, 1} /\ n \in Nat
  BY HashAssumption
<1>1. ASSUME NEW e \in 1 .. n
      PROVE  /\ T[e] = Mac(mac, key, M(e))
             /\ Str(M(e)) /\ Plain(M(e)) /\ Str(C(e)) /\ Len(C(e)) = 1
             /\ Str(T[e - 1] \o info)
  <2>1. T[e] = Mac(mac, key, M(e))
    BY <1>0, HkdfBlockIs
  <2>2. e - 1 \in 0 .. n
    BY <1>0
  <2>3. Str(T[e - 1]) /\ Plain(T[e - 1])
    BY <1>0, <2>2, HkdfPrevious
  <2>4. Str(C(e)) /\ Len(C(e)) = 1 /\ Plain(C(e))
    BY CounterStr, CounterPlain
  <2>. HIDE DEF T, C
  <2>5. Str(T[e - 1] \o info) /\ Plain(T[e - 1] \o info)
    BY <2>3, StrConcat, PlainConcat
  <2>6. Str(M(e)) /\ Plain(M(e))
    BY <2>4, <2>5, StrConcat, PlainConcat
  <2>. QED
    BY <2>1, <2>4, <2>5, <2>6
<1>2. k = l /\ M(p) = M(q)
  <2>1. /\ T[p] = Mac(mac, key, M(p)) /\ Str(M(p)) /\ Plain(M(p))
        /\ T[q] = Mac(mac, key, M(q)) /\ Str(M(q)) /\ Plain(M(q))
    BY <1>1
  <2>2. T[p][k] = T[q][l]
    OBVIOUS
  <2>. HIDE DEF M, T
  <2>. QED
    BY <2>1, <2>2, MacNames
<1>3. C(p) = C(q)
  <2>1. /\ Str(T[p - 1] \o info) /\ Str(C(p)) /\ Len(C(p)) = 1
        /\ Str(T[q - 1] \o info) /\ Str(C(q)) /\ Len(C(q)) = 1
    BY <1>1
  <2>. HIDE DEF T, C
  <2>. QED
    BY <1>2, <2>1, SuffixesEqual
<1>4. ValuesOf[1] = Byte
  <2>1. 0 + 1 = 1 /\ Byte * 1 = Byte /\ 0 \in Nat
    BY <1>0
  <2>. QED
    BY <2>1, Values
<1>5. p \in 0 .. ValuesOf[1] - 1 /\ q \in 0 .. ValuesOf[1] - 1
  BY <1>0, <1>4
<1>6. p = q
  BY <1>3, <1>5, CountersDiffer
<1>. QED
  BY <1>2, <1>6

(* MGF1: nor do two blocks of a mask.                                      *)
LEMMA MgfBlocksDiffer ==
  ASSUME NEW h \in Hashes, NEW seed, Str(seed), Plain(seed),
         NEW p \in 0 .. ValuesOf[Octets] - 1, NEW q \in 0 .. ValuesOf[Octets] - 1,
         NEW k \in 1 .. DigestSize[h], NEW l \in 1 .. DigestSize[h],
         Digest(h, seed \o CounterBytes(p, Octets))[k]
           = Digest(h, seed \o CounterBytes(q, Octets))[l]
  PROVE  p = q /\ k = l
<1>. DEFINE C(e) == CounterBytes(e, Octets)
            x == seed \o C(p)
            y == seed \o C(q)
<1>0. Octets \in Nat
  BY HashAssumption
<1>1. Str(C(p)) /\ Str(C(q)) /\ Plain(C(p)) /\ Plain(C(q))
  BY <1>0, CounterStr, CounterPlain
<1>2. Digest(h, x)[k] = Digest(h, y)[l]
  OBVIOUS
<1>3. Str(x) /\ Str(y) /\ Plain(x) /\ Plain(y)
  <2>. HIDE DEF C
  <2>. QED
    BY <1>1, StrConcat, PlainConcat
<1>4. k = l /\ x = y
  <2>. HIDE DEF x, y
  <2>. QED
    BY <1>2, <1>3, DigestNames
<1>5. C(p) = C(q)
  <2>. HIDE DEF C
  <2>. QED
    BY <1>1, <1>4, StrCancel
<1>6. p = q
  BY <1>0, <1>5, CountersDiffer
<1>. QED
  BY <1>4, <1>6

(* PBKDF2: the first input of a chain, which ends in a counter, is no MAC; *)
(* so the chains of two blocks never meet, nor does one meet itself.       *)
LEMMA FirstIsNoMac ==
  ASSUME NEW mac, Fitted(mac), NEW key, NEW salt, Str(salt), NEW b, NEW msg,
         salt \o CounterBytes(b, Octets) = Mac(mac, key, msg)
  PROVE  FALSE
<1>. DEFINE c == CounterBytes(b, Octets)
            m == Mac(mac, key, msg)
            e == Len(salt) + Octets
<1>0. Octets \in Nat \ {0} /\ Len(salt) \in Nat
  BY HashAssumption DEF Str
<1>1. Str(c) /\ Len(c) = Octets /\ \A k \in 1 .. Octets : \E v : c[k] = <<"octet", v>>
  BY <1>0, CounterStr
<1>2. /\ Len(m) = DigestSize[mac.hash]
      /\ \A k \in 1 .. DigestSize[mac.hash] : \E s : m[k] = <<"digest", mac.hash, s, k>>
  BY MacIs
<1>3. m = salt \o c
  OBVIOUS
<1>. HIDE DEF c, m
<1>4. /\ Len(m) = e
      /\ \A k \in 1 .. e : m[k] = IF k <= Len(salt) THEN salt[k] ELSE c[k - Len(salt)]
  BY <1>1, <1>3, StrConcat
<1>5. e \in 1 .. e /\ ~(e <= Len(salt)) /\ e - Len(salt) = Octets /\ Octets \in 1 .. Octets
  BY <1>0
<1>. HIDE DEF e
<1>6. m[e] = c[Octets]
  BY <1>4, <1>5
<1>7. \E v : m[e] = <<"octet", v>>
  BY <1>1, <1>5, <1>6
<1>8. \E s : m[e] = <<"digest", mac.hash, s, e>>
  BY <1>2, <1>4, <1>5
<1>. QED
  BY <1>7, <1>8

(* Every U of a chain is a MAC.                                            *)
LEMMA ChainElement ==
  ASSUME NEW mac, Fitted(mac), NEW key, NEW salt, NEW c \in Nat \ {0}, NEW b, NEW p \in 1 .. c
  PROVE  LET U == PbkdfChain(mac, key, salt, c, b)
         IN  Str(U[p]) /\ Len(U[p]) = DigestSize[mac.hash] /\ Plain(U[p])
<1>. DEFINE U == PbkdfChain(mac, key, salt, c, b)
<1>1. \E m : U[p] = Mac(mac, key, m)
  <2>1. CASE p = 1
    BY <2>1, PbkdfChainIs
  <2>2. CASE p \in 2 .. c
    BY <2>2, PbkdfChainIs
  <2>. QED
    BY <2>1, <2>2
<1>. HIDE DEF U
<1>2. Str(U[p]) /\ Len(U[p]) = DigestSize[mac.hash] /\ Plain(U[p])
  BY <1>1, MacIs
<1>. QED
  BY <1>2 DEF U

(* Two chains share no byte, and one chain does not meet itself.           *)
LEMMA ChainsDiffer ==
  ASSUME NEW mac, Fitted(mac), NEW key, Str(key), NEW salt, Str(salt), Plain(salt),
         NEW c \in Nat \ {0},
         NEW a \in 1 .. ValuesOf[Octets] - 1, NEW b \in 1 .. ValuesOf[Octets] - 1
  PROVE  \A p, q \in 1 .. c, k, l \in 1 .. DigestSize[mac.hash] :
           PbkdfChain(mac, key, salt, c, a)[p][k] = PbkdfChain(mac, key, salt, c, b)[q][l]
             => a = b /\ p = q /\ k = l
<1>. DEFINE h == mac.hash
            C(e) == CounterBytes(e, Octets)
            U == PbkdfChain(mac, key, salt, c, a)
            V == PbkdfChain(mac, key, salt, c, b)
            x == salt \o C(a)
            y == salt \o C(b)
            Met(p, q, k, l) == U[p][k] = V[q][l]
            Q(p) == \A q \in 1 .. c, k, l \in 1 .. DigestSize[h] :
                      Met(p, q, k, l) => a = b /\ p = q /\ k = l
            E == {n \in Nat : n + 1 <= c => Q(n + 1)}
<1>0. Octets \in Nat \ {0} /\ ValuesOf[Octets] \in Nat
  <2>1. Octets \in Nat \ {0}
    BY HashAssumption
  <2>. QED
    BY <2>1, Values
<1>1. U[1] = Mac(mac, key, x) /\ \A p \in 2 .. c : U[p] = Mac(mac, key, U[p - 1])
  BY PbkdfChainIs
<1>2. V[1] = Mac(mac, key, y) /\ \A p \in 2 .. c : V[p] = Mac(mac, key, V[p - 1])
  BY PbkdfChainIs
<1>3. \A p \in 1 .. c : Str(U[p]) /\ Plain(U[p])
  BY ChainElement
<1>4. \A p \in 1 .. c : Str(V[p]) /\ Plain(V[p])
  BY ChainElement
<1>5. Str(x) /\ Str(y) /\ Plain(x) /\ Plain(y) /\ Str(C(a)) /\ Str(C(b))
  <2>1. Str(C(a)) /\ Str(C(b)) /\ Plain(C(a)) /\ Plain(C(b))
    BY <1>0, CounterStr, CounterPlain
  <2>. HIDE DEF C
  <2>. QED
    BY <2>1, StrConcat, PlainConcat
<1>6. x = y => a = b
  <2>. SUFFICES ASSUME x = y PROVE a = b
    OBVIOUS
  <2>1. C(a) = C(b)
    <3>. HIDE DEF C
    <3>. QED
      BY <1>5, StrCancel
  <2>2. a \in 0 .. ValuesOf[Octets] - 1 /\ b \in 0 .. ValuesOf[Octets] - 1
    BY <1>0
  <2>. QED
    BY <1>0, <2>1, <2>2, CountersDiffer
<1>7. ASSUME NEW m PROVE x # Mac(mac, key, m) /\ y # Mac(mac, key, m)
  BY FirstIsNoMac
<1>8. ASSUME NEW v, NEW w, Str(v), Str(w), Plain(v), Plain(w),
             NEW k \in 1 .. DigestSize[h], NEW l \in 1 .. DigestSize[h],
             Mac(mac, key, v)[k] = Mac(mac, key, w)[l]
      PROVE  k = l /\ v = w
  BY <1>8, MacNames
<1>. HIDE DEF U, V, x, y, h
<1>9. \A p \in 1 .. c : \E m : U[p] = Mac(mac, key, m)
  <2>1. \A p \in 1 .. c : p = 1 \/ p \in 2 .. c
    OBVIOUS
  <2>. QED
    BY <1>1, <2>1
<1>10. \A p \in 1 .. c : \E m : V[p] = Mac(mac, key, m)
  <2>1. \A p \in 1 .. c : p = 1 \/ p \in 2 .. c
    OBVIOUS
  <2>. QED
    BY <1>2, <2>1
<1>11. 0 \in E
  <2>1. ASSUME NEW q \in 1 .. c, NEW k \in 1 .. DigestSize[h], NEW l \in 1 .. DigestSize[h],
               Met(1, q, k, l)
        PROVE  a = b /\ 1 = q /\ k = l
    <3>1. CASE q = 1
      <4>1. k = l /\ x = y
        BY <1>1, <1>2, <1>5, <1>8, <2>1, <3>1
      <4>. QED
        BY <1>6, <3>1, <4>1
    <3>2. CASE q \in 2 .. c
      <4>1. q - 1 \in 1 .. c
        BY <3>2
      <4>2. x = V[q - 1]
        BY <1>1, <1>2, <1>4, <1>5, <1>8, <2>1, <3>2, <4>1
      <4>. QED
        BY <1>7, <1>10, <4>1, <4>2
    <3>. QED
      BY <3>1, <3>2
  <2>2. Q(0 + 1)
    <3>1. 0 + 1 = 1
      OBVIOUS
    <3>. QED
      BY <2>1, <3>1
  <2>. QED
    BY <2>2
<1>12. ASSUME NEW n \in E
       PROVE  n + 1 \in E
  <2>1. SUFFICES ASSUME (n + 1) + 1 <= c PROVE Q((n + 1) + 1)
    OBVIOUS
  <2>. DEFINE p == (n + 1) + 1
  <2>2. p \in 2 .. c /\ p - 1 = n + 1 /\ p - 1 \in 1 .. c
    BY <2>1
  <2>3. Q(p - 1)
    BY <2>1, <2>2
  <2>. HIDE DEF p
  <2>4. ASSUME NEW q \in 1 .. c, NEW k \in 1 .. DigestSize[h], NEW l \in 1 .. DigestSize[h],
               Met(p, q, k, l)
        PROVE  a = b /\ p = q /\ k = l
    <3>1. CASE q = 1
      <4>1. U[p - 1] = y
        BY <1>1, <1>2, <1>3, <1>5, <1>8, <2>2, <2>4, <3>1
      <4>. QED
        BY <1>7, <1>9, <2>2, <4>1
    <3>2. CASE q \in 2 .. c
      <4>1. q - 1 \in 1 .. c
        BY <3>2
      <4>2. k = l /\ U[p - 1] = V[q - 1]
        BY <1>1, <1>2, <1>3, <1>4, <1>8, <2>2, <2>4, <3>2, <4>1
      <4>3. Met(p - 1, q - 1, k, k)
        BY <4>2
      <4>4. a = b /\ p - 1 = q - 1
        BY <2>3, <4>1, <4>3
      <4>. QED
        BY <2>2, <3>2, <4>2, <4>4
    <3>. QED
      BY <3>1, <3>2
  <2>5. Q(p)
    BY <2>4
  <2>. QED
    BY <2>5 DEF p
<1>13. E \in SUBSET Nat
  OBVIOUS
<1>14. E = Nat
  <2>. HIDE DEF E
  <2>. QED
    BY <1>11, <1>12, <1>13, Induction
<1>15. ASSUME NEW p \in 1 .. c
       PROVE  Q(p)
  <2>0. p - 1 \in Nat /\ (p - 1) + 1 = p
    OBVIOUS
  <2>1. p - 1 \in E
    <3>. HIDE DEF E
    <3>. QED
      BY <1>14, <2>0
  <2>. HIDE DEF Q
  <2>2. (p - 1) + 1 <= c => Q((p - 1) + 1)
    BY <2>1
  <2>. QED
    BY <2>0, <2>2
<1>. QED
  BY <1>15 DEF U, V, h

----------------------------------------------------------------------------
(* PBKDF2's XOR of a chain.                                                *)

Column(U, k, p) == {U[q][k] : q \in 1 .. p}

(* The XOR of bytes that all differ is all of them.                        *)
LEMMA SumsAre ==
  ASSUME NEW w \in Nat \ {0}, NEW c \in Nat \ {0}, NEW U,
         \A p \in 1 .. c : Str(U[p]) /\ Len(U[p]) = w,
         \A p, q \in 1 .. c, k, l \in 1 .. w : U[p][k] = U[q][l] => p = q /\ k = l
  PROVE  \A p \in 1 .. c :
           /\ Str(PbkdfSums(U, c)[p]) /\ Len(PbkdfSums(U, c)[p]) = w
           /\ \A k \in 1 .. w : PbkdfSums(U, c)[p][k] = Column(U, k, p)
<1>. DEFINE F == PbkdfSums(U, c)
            Q(p) == \A k \in 1 .. w : F[p][k] = Column(U, k, p)
            E == {n \in Nat : n + 1 <= c => Q(n + 1)}
<1>1. DOMAIN U[1] = 1 .. w
  <2>. DEFINE x == U[1]
  <2>1. 1 \in 1 .. c
    OBVIOUS
  <2>2. Str(x) /\ Len(x) = w
    BY <2>1
  <2>. HIDE DEF x
  <2>3. Tabulated(x, w)
    BY <2>2 DEF Str
  <2>4. DOMAIN x = 1 .. w
    BY <2>3, StrOf
  <2>. QED
    BY <2>4 DEF x
<1>2. F[1] = FirstSum(U) /\ \A p \in 2 .. c : F[p] = NextSum(U, F[p - 1], p)
  BY PbkdfSumsAre
<1>. HIDE DEF F
<1>3. /\ Tabulated(F[1], w) /\ \A k \in 1 .. w : F[1][k] = {U[1][k]}
      /\ \A p \in 2 .. c : /\ Tabulated(F[p], w)
                           /\ \A k \in 1 .. w : F[p][k] = SymDiff(F[p - 1][k], {U[p][k]})
  <2>1. Tabulated(FirstSum(U), w) /\ \A k \in 1 .. w : FirstSum(U)[k] = {U[1][k]}
    BY <1>1 DEF FirstSum, Tabulated
  <2>2. ASSUME NEW p, NEW g
        PROVE  /\ Tabulated(NextSum(U, g, p), w)
               /\ \A k \in 1 .. w : NextSum(U, g, p)[k] = SymDiff(g[k], {U[p][k]})
    BY <1>1 DEF NextSum, Tabulated
  <2>3. Tabulated(F[1], w) /\ \A k \in 1 .. w : F[1][k] = {U[1][k]}
    BY <1>2, <2>1
  <2>4. ASSUME NEW p \in 2 .. c
        PROVE  /\ Tabulated(F[p], w)
               /\ \A k \in 1 .. w : F[p][k] = SymDiff(F[p - 1][k], {U[p][k]})
    <3>. DEFINE g == F[p - 1]
    <3>1. F[p] = NextSum(U, g, p)
      BY <1>2
    <3>. HIDE DEF g
    <3>2. /\ Tabulated(NextSum(U, g, p), w)
          /\ \A k \in 1 .. w : NextSum(U, g, p)[k] = SymDiff(g[k], {U[p][k]})
      BY <2>2
    <3>3. Tabulated(F[p], w) /\ \A k \in 1 .. w : F[p][k] = SymDiff(g[k], {U[p][k]})
      BY <3>1, <3>2
    <3>. QED
      BY <3>3 DEF g
  <2>. QED
    BY <2>3, <2>4
<1>9. ASSUME NEW p \in 1 .. c
      PROVE  Str(F[p]) /\ Len(F[p]) = w
  <2>1. p = 1 \/ p \in 2 .. c
    OBVIOUS
  <2>2. Tabulated(F[p], w)
    BY <1>3, <2>1
  <2>. QED
    BY <2>2, StrOf
<1>4. 0 \in E
  <2>1. ASSUME NEW k \in 1 .. w
        PROVE  F[1][k] = Column(U, k, 1)
    BY <1>3 DEF Column
  <2>2. 0 + 1 = 1
    OBVIOUS
  <2>. QED
    BY <2>1, <2>2
<1>5. ASSUME NEW n \in E
      PROVE  n + 1 \in E
  <2>1. SUFFICES ASSUME (n + 1) + 1 <= c PROVE Q((n + 1) + 1)
    OBVIOUS
  <2>. DEFINE p == (n + 1) + 1
  <2>2. p \in 2 .. c /\ p - 1 = n + 1 /\ p - 1 \in 1 .. c /\ p \in 1 .. c
    BY <2>1
  <2>3. Q(p - 1)
    BY <2>1, <2>2
  <2>. HIDE DEF p
  <2>4. ASSUME NEW k \in 1 .. w
        PROVE  F[p][k] = Column(U, k, p)
    <3>. DEFINE S == Column(U, k, p - 1)
                x == U[p][k]
    <3>1. F[p - 1][k] = S
      BY <2>3
    <3>2. x \notin S
      <4>1. ASSUME NEW q \in 1 .. p - 1, U[q][k] = U[p][k]
            PROVE  FALSE
        <5>1. q \in 1 .. c /\ q # p
          BY <2>2
        <5>. QED
          BY <2>2, <4>1, <5>1
      <4>. QED
        BY <4>1 DEF Column
    <3>3. F[p][k] = SymDiff(F[p - 1][k], {x})
      BY <1>3, <2>2
    <3>4. Column(U, k, p) = S \cup {x}
      <4>1. \A q : q \in 1 .. p <=> q \in 1 .. p - 1 \/ q = p
        BY <2>2
      <4>. QED
        BY <4>1 DEF Column
    <3>. HIDE DEF S, x
    <3>. QED
      BY <3>1, <3>2, <3>3, <3>4 DEF SymDiff
  <2>5. Q(p)
    BY <2>4
  <2>. HIDE DEF Q
  <2>. QED
    BY <2>5 DEF p
<1>6. E \in SUBSET Nat
  OBVIOUS
<1>7. E = Nat
  <2>. HIDE DEF E
  <2>. QED
    BY <1>4, <1>5, <1>6, Induction
<1>8. ASSUME NEW p \in 1 .. c
      PROVE  Q(p)
  <2>0. p - 1 \in Nat /\ (p - 1) + 1 = p
    OBVIOUS
  <2>1. p - 1 \in E
    <3>. HIDE DEF E
    <3>. QED
      BY <1>7, <2>0
  <2>. HIDE DEF Q
  <2>2. (p - 1) + 1 <= c => Q((p - 1) + 1)
    BY <2>1
  <2>. QED
    BY <2>0, <2>2
<1>. QED
  BY <1>8, <1>9 DEF F

(* A derived block's byte is the set of all the bytes of its column.       *)
LEMMA PbkdfBlockIs ==
  ASSUME NEW mac, Fitted(mac), NEW key, Str(key), NEW salt, Str(salt), Plain(salt),
         NEW c \in Nat \ {0}, NEW b \in 1 .. ValuesOf[Octets] - 1
  PROVE  LET B == PbkdfBlock(mac, key, salt, c, b)
             U == PbkdfChain(mac, key, salt, c, b)
         IN  /\ Str(B) /\ Len(B) = DigestSize[mac.hash]
             /\ \A k \in 1 .. DigestSize[mac.hash] : B[k] = Column(U, k, c)
<1>. DEFINE w == DigestSize[mac.hash]
            U == PbkdfChain(mac, key, salt, c, b)
<1>1. w \in Nat \ {0}
  BY HashAssumption DEF Fitted
<1>2. \A p \in 1 .. c : Str(U[p]) /\ Len(U[p]) = w
  BY ChainElement
<1>3. \A p, q \in 1 .. c, k, l \in 1 .. w : U[p][k] = U[q][l] => p = q /\ k = l
  BY ChainsDiffer
<1>4. PbkdfBlock(mac, key, salt, c, b) = PbkdfSums(U, c)[c]
  BY DEF PbkdfBlock
<1>5. c \in 1 .. c
  OBVIOUS
<1>. HIDE DEF U, w
<1>6. /\ Str(PbkdfSums(U, c)[c]) /\ Len(PbkdfSums(U, c)[c]) = w
      /\ \A k \in 1 .. w : PbkdfSums(U, c)[c][k] = Column(U, k, c)
  <2>1. \A p \in 1 .. c :
           /\ Str(PbkdfSums(U, c)[p]) /\ Len(PbkdfSums(U, c)[p]) = w
           /\ \A k \in 1 .. w : PbkdfSums(U, c)[p][k] = Column(U, k, p)
    BY <1>1, <1>2, <1>3, SumsAre, SMTT(60)
  <2>. QED
    BY <1>5, <2>1
<1>. QED
  BY <1>4, <1>6 DEF U, w

(* So two derived blocks share no byte.                                    *)
LEMMA PbkdfBlocksDiffer ==
  ASSUME NEW mac, Fitted(mac), NEW key, Str(key), NEW salt, Str(salt), Plain(salt),
         NEW c \in Nat \ {0},
         NEW a \in 1 .. ValuesOf[Octets] - 1, NEW b \in 1 .. ValuesOf[Octets] - 1,
         NEW k \in 1 .. DigestSize[mac.hash], NEW l \in 1 .. DigestSize[mac.hash],
         PbkdfBlock(mac, key, salt, c, a)[k] = PbkdfBlock(mac, key, salt, c, b)[l]
  PROVE  a = b /\ k = l
<1>. DEFINE U == PbkdfChain(mac, key, salt, c, a)
            V == PbkdfChain(mac, key, salt, c, b)
<1>1. PbkdfBlock(mac, key, salt, c, a)[k] = Column(U, k, c)
  <2>1. \A z \in 1 .. DigestSize[mac.hash] :
          PbkdfBlock(mac, key, salt, c, a)[z] = Column(U, z, c)
    BY PbkdfBlockIs
  <2>. QED
    BY <2>1
<1>2. PbkdfBlock(mac, key, salt, c, b)[l] = Column(V, l, c)
  <2>1. \A z \in 1 .. DigestSize[mac.hash] :
          PbkdfBlock(mac, key, salt, c, b)[z] = Column(V, z, c)
    BY PbkdfBlockIs
  <2>. QED
    BY <2>1
<1>3. \A p, q \in 1 .. c : U[p][k] = V[q][l] => a = b /\ p = q /\ k = l
  BY ChainsDiffer
<1>4. 1 \in 1 .. c
  OBVIOUS
<1>. HIDE DEF U, V
<1>5. \E q \in 1 .. c : U[1][k] = V[q][l]
  <2>1. U[1][k] \in Column(U, k, c)
    BY <1>4 DEF Column
  <2>2. U[1][k] \in Column(V, l, c)
    BY <1>1, <1>2, <2>1
  <2>. QED
    BY <2>2 DEF Column
<1>. QED
  BY <1>3, <1>4, <1>5

----------------------------------------------------------------------------
(* No answer repeats.                                                      *)

(* An operand's row is a string without a mark.                            *)
LEMMA OperandIs ==
  ASSUME NEW name, NEW shape \in Shape, NEW r
  PROVE  Str(Operand(name, shape, r)) /\ Plain(Operand(name, shape, r))
<1>. DEFINE n == shape[2]
            s == Operand(name, shape, r)
<1>1. n \in Nat
  BY DEF Shape
<1>. HIDE DEF n
<1>2. s = [k \in 1 .. n |-> <<name, IF shape[1] = 1 THEN 1 ELSE r, k>>]
  BY DEF Operand, n
<1>3. Tabulated(s, n) /\ \A k \in 1 .. n : s[k] # Pad!Mark
  BY <1>2 DEF Tabulated, Pad!Mark
<1>. HIDE DEF s
<1>4. Str(s) /\ Len(s) = n
  BY <1>1, <1>3, StrOf
<1>. QED
  BY <1>3, <1>4 DEF Plain, s

HmacAccepts(h, given) == HmacRefusal(h, given) = ""

(* A MAC that is not refused holds its hash's digest in its block.         *)
LEMMA HmacFits ==
  ASSUME NEW h \in Hashes, NEW given \in Nat, HmacAccepts(h, given)
  PROVE  Fitted(Hmac(h, given)) /\ Hmac(h, given).hash = h
<1>. DEFINE mac == Hmac(h, given)
<1>1. given # None \/ h \in DOMAIN BlockSizes
  BY DEF HmacAccepts, HmacRefusal
<1>2. mac.hash = h /\ mac.block \in Nat
  BY <1>1, HashAssumption DEF Hmac
<1>3. ~(mac.block < DigestSize[h])
  BY <1>1 DEF HmacAccepts, HmacRefusal
<1>4. DigestSize[h] \in Nat
  BY HashAssumption
<1>. HIDE DEF mac
<1>5. mac.block >= DigestSize[h]
  BY <1>2, <1>3, <1>4
<1>6. Fitted(mac)
  BY <1>2, <1>5 DEF Fitted
<1>. QED
  BY <1>2, <1>6 DEF mac

Refusal(req)  == IF req.op = "mgf1" THEN "" ELSE HmacRefusal(req.hash, req.given)
Accepted(req) == Refusal(req) = ""

(* The code's check is the standard's limits: a block, and room in it.     *)
LEMMA RefusalIs ==
  ASSUME NEW req \in RequestType
  PROVE  /\ Accepted(req) <=>
              (req.op # "mgf1" => Blocked(req) /\ HLen(req) <= MacOf(req).block)
         /\ ~Accepted(req) =>
              Refusal(req) = IF Blocked(req) THEN "ValueError" ELSE "LookupError"
<1>. DEFINE mac == MacOf(req)
<1>1. req.hash \in Hashes /\ req.given \in Nat /\ HLen(req) \in Nat
  BY HashAssumption DEF RequestType, HLen
<1>2. Blocked(req) => mac.block \in Nat
  BY <1>1, HashAssumption DEF Blocked, MacOf, Hmac
<1>3. HmacRefusal(req.hash, req.given) =
        IF ~Blocked(req) THEN "LookupError"
        ELSE IF mac.block < HLen(req) THEN "ValueError" ELSE ""
  BY DEF HmacRefusal, Blocked, MacOf, HLen
<1>. HIDE DEF mac
<1>4. Blocked(req) => (mac.block < HLen(req) <=> ~(HLen(req) <= mac.block))
  BY <1>1, <1>2
<1>5. CASE req.op = "mgf1"
  BY <1>5 DEF Accepted, Refusal
<1>6. CASE req.op # "mgf1"
  <2>1. Refusal(req) = HmacRefusal(req.hash, req.given)
    BY <1>6 DEF Refusal
  <2>. QED
    BY <1>3, <1>4, <1>6, <2>1 DEF Accepted, mac
<1>. QED
  BY <1>5, <1>6

(* The three answers.                                                      *)
LEMMA Answers ==
  ASSUME NEW req \in RequestType
  PROVE  /\ ~Accepted(req) => Answer(req) = [kind |-> Refusal(req)]
         /\ Accepted(req) /\ ~Served(req) => Answer(req) = [kind |-> "ValueError"]
         /\ Accepted(req) /\ Served(req) => Answer(req) =
              [kind |-> "bytes", rows |-> [r \in 1 .. BatchOf(req) |-> RowBytes(req, r)]]
<1>1. Accepted(req) => ~(req.op # "mgf1" /\ ~Blocked(req))
  BY RefusalIs
<1>2. ASSUME ~Accepted(req)
      PROVE  Answer(req) = [kind |-> Refusal(req)]
  <2>1. req.op # "mgf1" /\ ~(Blocked(req) /\ HLen(req) <= MacOf(req).block)
    BY <1>2, RefusalIs
  <2>2. CASE Blocked(req)
    <3>1. ~Served(req) /\ Refusal(req) = "ValueError"
      BY <1>2, <2>1, <2>2, RefusalIs DEF Served
    <3>. QED
      BY <2>2, <3>1 DEF Answer
  <2>3. CASE ~Blocked(req)
    BY <1>2, <2>1, <2>3, RefusalIs DEF Answer
  <2>. QED
    BY <2>2, <2>3
<1>. QED
  BY <1>1, <1>2 DEF Answer

(* So does an accepted request's.                                          *)
LEMMA RequestFits ==
  ASSUME NEW req \in RequestType, req.op # "mgf1", Accepted(req)
  PROVE  /\ Fitted(MacOf(req)) /\ MacOf(req).hash = req.hash
         /\ HLen(req) = DigestSize[MacOf(req).hash]
<1>1. req.hash \in Hashes /\ req.given \in Nat /\ HmacAccepts(req.hash, req.given)
  BY DEF RequestType, Accepted, Refusal, HmacAccepts
<1>2. Fitted(Hmac(req.hash, req.given)) /\ Hmac(req.hash, req.given).hash = req.hash
  BY <1>1, HmacFits
<1>. QED
  BY <1>2 DEF MacOf, HLen

(* Its operands' rows are strings.                                         *)
LEMMA RequestTexts ==
  ASSUME NEW req \in RequestType, NEW r
  PROVE  /\ Str(Operand("key", req.key, r)) /\ Plain(Operand("key", req.key, r))
         /\ Str(Operand("text", req.text, r)) /\ Plain(Operand("text", req.text, r))
<1>1. req.key \in Shape /\ req.text \in Shape
  BY DEF RequestType
<1>. QED
  BY <1>1, OperandIs

(* A request is cut into as many blocks as its counter can tell apart.     *)
LEMMA RequestBlocks ==
  ASSUME NEW req \in RequestType, NEW m \in Nat, req.length \in 1 .. m * HLen(req)
  PROVE  /\ HLen(req) \in Nat \ {0}
         /\ NumBlocks(req) \in 1 .. m
         /\ req.length \in 0 .. NumBlocks(req) * HLen(req)
<1>1. HLen(req) \in Nat \ {0}
  BY HashAssumption DEF RequestType, HLen
<1>. DEFINE w == HLen(req)
            l == req.length
            n == NumBlocks(req)
<1>2. w \in Nat \ {0} /\ l \in Nat \ {0} /\ l <= m * w
  BY <1>1
<1>3. n = Pad!CeilDiv(l, w)
  BY DEF NumBlocks
<1>. HIDE DEF w, l, n
<1>4. n \in Nat \ {0} /\ l <= n * w /\ n <= m
  BY <1>2, <1>3, BlocksNeeded
<1>5. n \in 1 .. m /\ l \in 0 .. n * w
  BY <1>2, <1>4
<1>. QED
  BY <1>1, <1>5 DEF n, l, w

(* No output repeats a byte: a MAC's names its place,                      *)
LEMMA MacInjective ==
  ASSUME NEW mac, Fitted(mac), NEW key, NEW msg
  PROVE  IsInjective(Mac(mac, key, msg))
<1>. DEFINE m == Mac(mac, key, msg)
            w == DigestSize[mac.hash]
<1>1. Str(m) /\ Len(m) = w /\ \A k \in 1 .. w : \E s : m[k] = <<"digest", mac.hash, s, k>>
  BY MacIs
<1>. HIDE DEF m
<1>2. DOMAIN m = 1 .. w
  BY <1>1 DEF Str, Tabulated
<1>3. ASSUME NEW k \in 1 .. w, NEW l \in 1 .. w, m[k] = m[l]
      PROVE  k = l
  <2>1. PICK s : m[k] = <<"digest", mac.hash, s, k>>
    BY <1>1
  <2>2. PICK t1 : m[l] = <<"digest", mac.hash, t1, l>>
    BY <1>1
  <2>3. <<"digest", mac.hash, s, k>> = <<"digest", mac.hash, t1, l>>
    BY <1>3, <2>1, <2>2
  <2>. QED
    BY <2>3
<1>. QED
  BY <1>2, <1>3 DEF IsInjective, m

(* HKDF's names its block as well,                                         *)
LEMMA ExpandInjective ==
  ASSUME NEW req \in RequestType, req.op = "expand", Accepted(req), Served(req), NEW r
  PROVE  IsInjective(RowBytes(req, r))
<1>. DEFINE mac  == MacOf(req)
            key  == Operand("key", req.key, r)
            info == Operand("text", req.text, r)
            w    == HLen(req)
            n    == NumBlocks(req)
            T    == HkdfBlocks(mac, key, info, n)
            s    == [p \in 1 .. n |-> T[p]]
<1>0. Byte \in Nat /\ Byte - 1 \in Nat
  <2>1. Byte \in Nat \ {0, 1}
    BY HashAssumption
  <2>. QED
    BY <2>1
<1>1. req.length \in 1 .. (Byte - 1) * w
  BY DEF Served, Longest
<1>2. w \in Nat \ {0} /\ n \in 1 .. Byte - 1 /\ req.length \in 0 .. n * w
  BY <1>0, <1>1, RequestBlocks
<1>3. Fitted(mac) /\ w = DigestSize[mac.hash]
  BY RequestFits
<1>4. Str(key) /\ Str(info) /\ Plain(info)
  BY RequestTexts
<1>5. RowBytes(req, r) = SubSeq(FlattenSeq(s), 1, req.length)
  BY DEF RowBytes, HkdfStream
<1>. HIDE DEF mac, key, info, w, n
<1>6. n \in Nat /\ n \in 0 .. Byte - 1
  BY <1>0, <1>2
<1>7. \A p \in 1 .. n : Str(T[p]) /\ Len(T[p]) = w
  BY <1>3, <1>6, HkdfBlockIs
<1>8. ASSUME NEW p \in 1 .. n, NEW q \in 1 .. n, NEW k \in 1 .. w, NEW l \in 1 .. w,
             T[p][k] = T[q][l]
      PROVE  p = q /\ k = l
  <2>1. k \in 1 .. DigestSize[mac.hash] /\ l \in 1 .. DigestSize[mac.hash]
    BY <1>3
  <2>. QED
    BY <1>3, <1>4, <1>6, <1>8, <2>1, HkdfBlocksDiffer
<1>. HIDE DEF T
<1>9. Str(s) /\ Len(s) = n /\ \A p \in 1 .. n : s[p] = T[p]
  <2>1. Tabulated(s, n) /\ \A p \in 1 .. n : s[p] = T[p]
    BY DEF Tabulated
  <2>. HIDE DEF s
  <2>. QED
    BY <1>6, <2>1, StrOf
<1>. HIDE DEF s
<1>10. Uniform(s, w)
  BY <1>7, <1>9 DEF Uniform
<1>11. \A p, q \in 1 .. Len(s), k, l \in 1 .. w : s[p][k] = s[q][l] => p = q /\ k = l
  BY <1>8, <1>9
<1>12. req.length \in 0 .. Len(s) * w
  BY <1>2, <1>9
<1>. DEFINE len == req.length
<1>14. RowBytes(req, r) = SubSeq(FlattenSeq(s), 1, len) /\ len \in 0 .. Len(s) * w
  BY <1>5, <1>12
<1>. HIDE DEF len
<1>15. IsInjective(SubSeq(FlattenSeq(s), 1, len))
  BY <1>2, <1>9, <1>10, <1>11, <1>14, JoinedInjective
<1>. QED
  BY <1>14, <1>15

(* MGF1's too,                                                             *)
LEMMA Mgf1Injective ==
  ASSUME NEW req \in RequestType, req.op = "mgf1", Served(req), NEW r
  PROVE  IsInjective(RowBytes(req, r))
<1>. DEFINE h    == req.hash
            seed == Operand("text", req.text, r)
            w    == HLen(req)
            n    == NumBlocks(req)
            M    == ValuesOf[Octets]
            T(p) == Digest(h, seed \o CounterBytes(p - 1, Octets))
            s    == [p \in 1 .. n |-> T(p)]
<1>0. M \in Nat
  BY HashAssumption, Values
<1>1. req.length \in 1 .. M * w
  BY DEF Served, Longest
<1>2. w \in Nat \ {0} /\ n \in 1 .. M /\ req.length \in 0 .. n * w
  BY <1>0, <1>1, RequestBlocks
<1>3. h \in Hashes /\ w = DigestSize[h]
  BY DEF RequestType, HLen
<1>4. Str(seed) /\ Plain(seed)
  BY RequestTexts
<1>5. RowBytes(req, r) = SubSeq(FlattenSeq(s), 1, req.length)
  BY DEF RowBytes, MgfStream
<1>. HIDE DEF h, seed, w, n, M
<1>6. n \in Nat
  BY <1>2
<1>7. \A p \in 1 .. n : Str(T(p)) /\ Len(T(p)) = w
  BY <1>3, DigestIs
<1>8. ASSUME NEW p \in 1 .. n, NEW q \in 1 .. n, NEW k \in 1 .. w, NEW l \in 1 .. w,
             T(p)[k] = T(q)[l]
      PROVE  p = q /\ k = l
  <2>. DEFINE a == p - 1
              b == q - 1
  <2>1. a \in 0 .. ValuesOf[Octets] - 1 /\ b \in 0 .. ValuesOf[Octets] - 1
    BY <1>0, <1>2 DEF M
  <2>2. Digest(h, seed \o CounterBytes(a, Octets))[k]
          = Digest(h, seed \o CounterBytes(b, Octets))[l]
    BY <1>8
  <2>. HIDE DEF a, b
  <2>3. a = b /\ k = l
    BY <1>3, <1>4, <2>1, <2>2, MgfBlocksDiffer
  <2>. QED
    BY <2>3 DEF a, b
<1>. HIDE DEF T
<1>9. Str(s) /\ Len(s) = n /\ \A p \in 1 .. n : s[p] = T(p)
  <2>1. Tabulated(s, n) /\ \A p \in 1 .. n : s[p] = T(p)
    BY DEF Tabulated
  <2>. HIDE DEF s
  <2>. QED
    BY <1>6, <2>1, StrOf
<1>. HIDE DEF s
<1>10. Uniform(s, w)
  BY <1>7, <1>9 DEF Uniform
<1>11. \A p, q \in 1 .. Len(s), k, l \in 1 .. w : s[p][k] = s[q][l] => p = q /\ k = l
  BY <1>8, <1>9
<1>12. req.length \in 0 .. Len(s) * w
  BY <1>2, <1>9
<1>. DEFINE len == req.length
<1>14. RowBytes(req, r) = SubSeq(FlattenSeq(s), 1, len) /\ len \in 0 .. Len(s) * w
  BY <1>5, <1>12
<1>. HIDE DEF len
<1>15. IsInjective(SubSeq(FlattenSeq(s), 1, len))
  BY <1>2, <1>9, <1>10, <1>11, <1>14, JoinedInjective
<1>. QED
  BY <1>14, <1>15

(* and PBKDF2's.                                                           *)
LEMMA Pbkdf2Injective ==
  ASSUME NEW req \in RequestType, req.op = "pbkdf2", Accepted(req), Served(req), NEW r
  PROVE  IsInjective(RowBytes(req, r))
<1>. DEFINE mac  == MacOf(req)
            key  == Operand("key", req.key, r)
            salt == Operand("text", req.text, r)
            c    == req.iterations
            w    == HLen(req)
            n    == NumBlocks(req)
            M    == ValuesOf[Octets]
            T(p) == PbkdfBlock(mac, key, salt, c, p)
            s    == [p \in 1 .. n |-> T(p)]
<1>0. M \in Nat /\ M - 1 \in Nat
  <2>1. Octets \in Nat
    BY HashAssumption
  <2>2. M \in Nat \ {0}
    BY <2>1, Values
  <2>. HIDE DEF M
  <2>. QED
    BY <2>2
<1>1. req.length \in 1 .. (M - 1) * w
  BY DEF Served, Longest
<1>2. w \in Nat \ {0} /\ n \in 1 .. M - 1 /\ req.length \in 0 .. n * w
  BY <1>0, <1>1, RequestBlocks
<1>3. Fitted(mac) /\ w = DigestSize[mac.hash]
  BY RequestFits
<1>4. Str(key) /\ Str(salt) /\ Plain(salt)
  BY RequestTexts
<1>5. c \in Nat \ {0}
  <2>1. req.iterations \in Nat /\ req.iterations >= 1
    BY DEF Served, RequestType
  <2>. QED
    BY <2>1
<1>6. RowBytes(req, r) = SubSeq(FlattenSeq(s), 1, req.length)
  BY DEF RowBytes, PbkdfStream
<1>. HIDE DEF mac, key, salt, c, w, n
<1>7. n \in Nat /\ \A p \in 1 .. n : p \in 1 .. ValuesOf[Octets] - 1
  <2>. HIDE DEF M
  <2>1. n \in Nat /\ \A p \in 1 .. n : p \in 1 .. M - 1
    BY <1>0, <1>2
  <2>. QED
    BY <2>1 DEF M
<1>8. \A p \in 1 .. n : Str(T(p)) /\ Len(T(p)) = w
  BY <1>3, <1>4, <1>5, <1>7, PbkdfBlockIs
<1>9. ASSUME NEW p \in 1 .. n, NEW q \in 1 .. n, NEW k \in 1 .. w, NEW l \in 1 .. w,
             T(p)[k] = T(q)[l]
      PROVE  p = q /\ k = l
  <2>1. k \in 1 .. DigestSize[mac.hash] /\ l \in 1 .. DigestSize[mac.hash]
    BY <1>3
  <2>2. p \in 1 .. ValuesOf[Octets] - 1 /\ q \in 1 .. ValuesOf[Octets] - 1
    BY <1>7
  <2>. QED
    BY <1>3, <1>4, <1>5, <1>9, <2>1, <2>2, PbkdfBlocksDiffer
<1>. HIDE DEF T
<1>10. Str(s) /\ Len(s) = n /\ \A p \in 1 .. n : s[p] = T(p)
  <2>1. Tabulated(s, n) /\ \A p \in 1 .. n : s[p] = T(p)
    BY DEF Tabulated
  <2>. HIDE DEF s
  <2>. QED
    BY <1>7, <2>1, StrOf
<1>. HIDE DEF s
<1>11. Uniform(s, w)
  BY <1>8, <1>10 DEF Uniform
<1>12. \A p, q \in 1 .. Len(s), k, l \in 1 .. w : s[p][k] = s[q][l] => p = q /\ k = l
  BY <1>9, <1>10
<1>13. req.length \in 0 .. Len(s) * w
  BY <1>2, <1>10
<1>. DEFINE len == req.length
<1>14. RowBytes(req, r) = SubSeq(FlattenSeq(s), 1, len) /\ len \in 0 .. Len(s) * w
  BY <1>6, <1>13
<1>. HIDE DEF len
<1>15. IsInjective(SubSeq(FlattenSeq(s), 1, len))
  BY <1>2, <1>10, <1>11, <1>12, <1>14, JoinedInjective
<1>. QED
  BY <1>14, <1>15

(* So no answer does.                                                      *)
LEMMA AnswerInjective ==
  ASSUME NEW req \in RequestType, Answer(req).kind = "bytes",
         NEW r \in DOMAIN Answer(req).rows
  PROVE  IsInjective(Answer(req).rows[r])
<1>1. Accepted(req)
  <2>1. Refusal(req) \in {"", "LookupError", "ValueError"}
    BY DEF Refusal, HmacRefusal
  <2>2. Refusal(req) # "" => Answer(req).kind = Refusal(req)
    <3>1. ASSUME Refusal(req) # ""
          PROVE  Answer(req).kind = Refusal(req)
      <4>1. ~Accepted(req)
        BY <3>1 DEF Accepted
      <4>2. Answer(req) = [kind |-> Refusal(req)]
        BY <4>1, Answers
      <4>. QED
        BY <4>2
    <3>. QED
      BY <3>1
  <2>. QED
    BY <2>1, <2>2 DEF Accepted
<1>2. Served(req)
  <2>1. ~Served(req) => Answer(req).kind = "ValueError"
    BY <1>1, Answers
  <2>. QED
    BY <2>1
<1>3. Answer(req).rows[r] = RowBytes(req, r)
  <2>1. Answer(req) = [kind |-> "bytes",
                       rows |-> [s \in 1 .. BatchOf(req) |-> RowBytes(req, s)]]
    BY <1>1, <1>2, Answers
  <2>. QED
    BY <2>1
<1>4. req.op \in {"mac", "extract", "expand", "mgf1", "pbkdf2"}
  BY DEF RequestType
<1>5. CASE req.op = "mac"
  <2>1. Fitted(MacOf(req))
    BY <1>1, <1>5, RequestFits
  <2>2. \E key, msg : RowBytes(req, r) = Mac(MacOf(req), key, msg)
    BY <1>5 DEF RowBytes
  <2>. QED
    BY <1>3, <2>1, <2>2, MacInjective
<1>6. CASE req.op = "extract"
  <2>1. Fitted(MacOf(req))
    BY <1>1, <1>6, RequestFits
  <2>2. \E key, msg : RowBytes(req, r) = Mac(MacOf(req), key, msg)
    BY <1>6 DEF RowBytes
  <2>. QED
    BY <1>3, <2>1, <2>2, MacInjective
<1>7. CASE req.op = "expand"
  BY <1>1, <1>2, <1>3, <1>7, ExpandInjective
<1>8. CASE req.op = "mgf1"
  BY <1>2, <1>3, <1>8, Mgf1Injective
<1>9. CASE req.op = "pbkdf2"
  BY <1>1, <1>2, <1>3, <1>9, Pbkdf2Injective
<1>. QED
  BY <1>4, <1>5, <1>6, <1>7, <1>8, <1>9

----------------------------------------------------------------------------
(* HKDF's loop.                                                            *)

Rows(req)      == 1 .. BatchOf(req)
KeyOf(req, r)  == Operand("key", req.key, r)
TextOf(req, r) == Operand("text", req.text, r)
Good(req)      == Accepted(req) /\ Served(req)

(* HKDF's blocks of a row, and the first m of them joined.                 *)
HkdfT(req, r)       == HkdfBlocks(MacOf(req), KeyOf(req, r), TextOf(req, r), NumBlocks(req))
HkdfJoined(req, r, m) == FlattenSeq([p \in 1 .. m |-> HkdfT(req, r)[p]])

Expanding(req, a, x, b) ==
  /\ req.op = "expand" /\ Good(req)
  /\ a \in 1 .. NumBlocks(req) + 1
  /\ \A r \in Rows(req) : x[r] = HkdfT(req, r)[a - 1] /\ b[r] = HkdfJoined(req, r, a - 1)

(* PBKDF2's.                                                               *)
ChainOf(req, r, b)   == PbkdfChain(MacOf(req), KeyOf(req, r), TextOf(req, r), req.iterations, b)
DerivedBlock(req, r, b) ==
  PbkdfBlock(MacOf(req), KeyOf(req, r), TextOf(req, r), req.iterations, b)
Derived(req, r, m)   == FlattenSeq([p \in 1 .. m |-> DerivedBlock(req, r, p)])

KeyBlockOf(req, r) == BlockKey(MacOf(req), KeyOf(req, r))
Side(req, pad, r, midstate) ==
  IF midstate THEN Compress(<<>>, Xored(pad, KeyBlockOf(req, r)))
  ELSE Xored(pad, KeyBlockOf(req, r))

Hoisted(req, ks) ==
  /\ ks.midstate \in BOOLEAN
  /\ ks.midstate => req.hash \in Profiles /\ BlockSizes[req.hash] = MacOf(req).block
  /\ \A r \in Rows(req) : /\ ks.inner[r] = Side(req, "ipad", r, ks.midstate)
                          /\ ks.outer[r] = Side(req, "opad", r, ks.midstate)

Deriving(req, a, b, ks) ==
  /\ req.op = "pbkdf2" /\ Good(req)
  /\ a \in 1 .. NumBlocks(req) + 1
  /\ Hoisted(req, ks)
  /\ \A r \in Rows(req) : b[r] = Derived(req, r, a - 1)

Iterating(req, a, c, x, y) ==
  /\ a <= NumBlocks(req)
  /\ c \in 1 .. req.iterations
  /\ \A r \in Rows(req) : /\ x[r] = ChainOf(req, r, a)[c]
                          /\ y[r] = PbkdfSums(ChainOf(req, r, a), req.iterations)[c]

(* One piece more, of whatever function of its place.                      *)
LEMMA JoinSnoc ==
  ASSUME NEW n \in Nat, NEW f, Str(f[n + 1])
  PROVE  FlattenSeq([p \in 1 .. n + 1 |-> f[p]])
           = FlattenSeq([p \in 1 .. n |-> f[p]]) \o f[n + 1]
<1>. DEFINE s == [p \in 1 .. n + 1 |-> f[p]]
            r == [p \in 1 .. n |-> f[p]]
<1>1. Tabulated(s, n + 1) /\ Tabulated(r, n)
  BY DEF Tabulated
<1>2. s[n + 1] = f[n + 1] /\ \A p \in 1 .. n : r[p] = s[p]
  OBVIOUS
<1>. HIDE DEF s, r
<1>3. Str(s) /\ Len(s) = n + 1 /\ Str(r) /\ Len(r) = n
  <2>1. n + 1 \in Nat
    OBVIOUS
  <2>. QED
    BY <1>1, <2>1, StrOf
<1>4. FlattenSeq(s) = FlattenSeq(r) \o s[n + 1]
  BY <1>2, <1>3, FlattenSnoc
<1>. QED
  BY <1>2, <1>4 DEF s, r

(* No pieces at all.                                                       *)
LEMMA JoinNone ==
  ASSUME NEW f
  PROVE  FlattenSeq([p \in 1 .. 0 |-> f[p]]) = <<>>
<1>. DEFINE s == [p \in 1 .. 0 |-> f[p]]
<1>1. s = <<>>
  OBVIOUS
<1>. HIDE DEF s
<1>2. FlattenSeq(s) = s
  BY <1>1, EmptyStr, FlattenIs
<1>. QED
  BY <1>1, <1>2 DEF s

(* What an accepted expansion may rely on.                                 *)
LEMMA GoodExpand ==
  ASSUME NEW req \in RequestType, req.op = "expand", Good(req)
  PROVE  /\ Fitted(MacOf(req)) /\ HLen(req) = DigestSize[MacOf(req).hash]
         /\ NumBlocks(req) \in Nat \ {0}
<1>1. Fitted(MacOf(req)) /\ HLen(req) = DigestSize[MacOf(req).hash]
  BY RequestFits DEF Good
<1>2. Byte - 1 \in Nat
  <2>1. Byte \in Nat \ {0, 1}
    BY HashAssumption
  <2>. QED
    BY <2>1
<1>3. req.length \in 1 .. (Byte - 1) * HLen(req)
  BY DEF Good, Served, Longest
<1>4. NumBlocks(req) \in 1 .. Byte - 1
  BY <1>2, <1>3, RequestBlocks
<1>. QED
  BY <1>1, <1>2, <1>4

(* The expansion's loop: before it, through a turn, and after it.          *)
LEMMA ExpandBegins ==
  ASSUME NEW req \in RequestType, req.op = "expand", Good(req), NEW x, NEW b,
         \A r \in Rows(req) : x[r] = <<>> /\ b[r] = <<>>
  PROVE  Expanding(req, 1, x, b)
<1>1. NumBlocks(req) \in Nat \ {0}
  BY GoodExpand
<1>2. 1 \in 1 .. NumBlocks(req) + 1 /\ 1 - 1 = 0 /\ NumBlocks(req) \in Nat
  BY <1>1
<1>3. ASSUME NEW r \in Rows(req)
      PROVE  x[r] = HkdfT(req, r)[1 - 1] /\ b[r] = HkdfJoined(req, r, 1 - 1)
  <2>1. HkdfT(req, r)[0] = <<>>
    BY <1>2, HkdfBlocksAre DEF HkdfT
  <2>2. HkdfJoined(req, r, 0) = <<>>
    BY JoinNone DEF HkdfJoined
  <2>. QED
    BY <1>2, <2>1, <2>2
<1>. QED
  BY <1>2, <1>3 DEF Expanding

(* One turn more of it.                                                    *)
LEMMA ExpandGoesOn ==
  ASSUME NEW req \in RequestType, NEW a, NEW x, NEW b, Expanding(req, a, x, b),
         a <= NumBlocks(req), NEW z, NEW d,
         \A r \in Rows(req) :
           /\ z[r] = Mac(MacOf(req), KeyOf(req, r), x[r] \o TextOf(req, r) \o CounterBytes(a, 1))
           /\ d[r] = b[r] \o z[r]
  PROVE  Expanding(req, a + 1, z, d)
<1>. DEFINE n == NumBlocks(req)
<1>1. /\ req.op = "expand" /\ Good(req) /\ a \in 1 .. n + 1
      /\ \A r \in Rows(req) : x[r] = HkdfT(req, r)[a - 1] /\ b[r] = HkdfJoined(req, r, a - 1)
  BY DEF Expanding
<1>2. n \in Nat /\ Fitted(MacOf(req))
  BY <1>1, GoodExpand
<1>. HIDE DEF n
<1>3. a \in 1 .. n /\ a + 1 \in 1 .. n + 1 /\ (a + 1) - 1 = a /\ a - 1 \in Nat /\ (a - 1) + 1 = a
  BY <1>1, <1>2 DEF n
<1>4. ASSUME NEW r \in Rows(req)
      PROVE  z[r] = HkdfT(req, r)[a] /\ d[r] = HkdfJoined(req, r, a)
  <2>. DEFINE T == HkdfT(req, r)
  <2>1. /\ T[a] = Mac(MacOf(req), KeyOf(req, r), T[a - 1] \o TextOf(req, r) \o CounterBytes(a, 1))
        /\ Str(T[a])
    BY <1>2, <1>3, HkdfBlockIs DEF HkdfT, n
  <2>. HIDE DEF T
  <2>2. z[r] = T[a]
    BY <1>1, <2>1 DEF T
  <2>3. FlattenSeq([p \in 1 .. a |-> T[p]]) = FlattenSeq([p \in 1 .. a - 1 |-> T[p]]) \o T[a]
    <3>. DEFINE e == a - 1
    <3>1. e \in Nat /\ e + 1 = a
      BY <1>3
    <3>. HIDE DEF e
    <3>2. FlattenSeq([p \in 1 .. e + 1 |-> T[p]]) = FlattenSeq([p \in 1 .. e |-> T[p]]) \o T[e + 1]
      BY <2>1, <3>1, JoinSnoc
    <3>. QED
      BY <3>1, <3>2 DEF e
  <2>4. d[r] = HkdfJoined(req, r, a)
    BY <1>1, <2>2, <2>3 DEF HkdfJoined, T
  <2>. QED
    BY <2>2, <2>4 DEF T
<1>. QED
  BY <1>1, <1>3, <1>4 DEF Expanding, n

(* What it returns.                                                        *)
LEMMA ExpandEnds ==
  ASSUME NEW req \in RequestType, NEW a, NEW x, NEW b, Expanding(req, a, x, b),
         a > NumBlocks(req), NEW r \in Rows(req)
  PROVE  SubSeq(b[r], 1, req.length) = RowBytes(req, r)
<1>1. /\ req.op = "expand" /\ Good(req) /\ a \in 1 .. NumBlocks(req) + 1
      /\ b[r] = HkdfJoined(req, r, a - 1)
  BY DEF Expanding
<1>2. NumBlocks(req) \in Nat
  BY <1>1, GoodExpand
<1>3. a - 1 = NumBlocks(req)
  BY <1>1, <1>2
<1>4. RowBytes(req, r) = SubSeq(HkdfJoined(req, r, NumBlocks(req)), 1, req.length)
  BY <1>1 DEF RowBytes, HkdfStream, HkdfJoined, HkdfT, KeyOf, TextOf
<1>. QED
  BY <1>1, <1>3, <1>4

----------------------------------------------------------------------------
(* PBKDF2's key material.                                                  *)

(* What an accepted derivation may rely on.                                *)
LEMMA GoodDerive ==
  ASSUME NEW req \in RequestType, req.op = "pbkdf2", Good(req), NEW r
  PROVE  /\ Fitted(MacOf(req)) /\ MacOf(req).hash = req.hash
         /\ HLen(req) = DigestSize[MacOf(req).hash] /\ HLen(req) \in Nat \ {0}
         /\ req.iterations \in Nat \ {0}
         /\ NumBlocks(req) \in 1 .. ValuesOf[Octets] - 1 /\ NumBlocks(req) \in Nat \ {0}
         /\ req.length \in 0 .. NumBlocks(req) * HLen(req)
         /\ Str(KeyOf(req, r)) /\ Str(TextOf(req, r)) /\ Plain(TextOf(req, r))
<1>1. Accepted(req) /\ Served(req)
  BY DEF Good
<1>2. Fitted(MacOf(req)) /\ MacOf(req).hash = req.hash /\ HLen(req) = DigestSize[MacOf(req).hash]
  BY <1>1, RequestFits
<1>3. req.iterations \in Nat \ {0}
  <2>1. req.iterations \in Nat /\ req.iterations >= 1
    BY <1>1 DEF RequestType, Served
  <2>. QED
    BY <2>1
<1>4. ValuesOf[Octets] \in Nat \ {0}
  BY HashAssumption, Values
<1>. DEFINE m == ValuesOf[Octets] - 1
<1>5. m \in Nat
  BY <1>4
<1>6. req.length \in 1 .. m * HLen(req)
  BY <1>1 DEF Served, Longest
<1>. HIDE DEF m
<1>7. /\ HLen(req) \in Nat \ {0} /\ NumBlocks(req) \in 1 .. m
      /\ req.length \in 0 .. NumBlocks(req) * HLen(req)
  BY <1>5, <1>6, RequestBlocks
<1>8. NumBlocks(req) \in Nat \ {0}
  BY <1>5, <1>7
<1>9. Str(KeyOf(req, r)) /\ Str(TextOf(req, r)) /\ Plain(TextOf(req, r))
  BY RequestTexts DEF KeyOf, TextOf
<1>. QED
  BY <1>2, <1>3, <1>7, <1>8, <1>9 DEF m

(* A digest is its padded message's blocks, written out.                   *)
LEMMA DigestOf ==
  ASSUME NEW h, NEW x
  PROVE  Digest(h, x) = Serialize(h, Compress(<<>>, x \o MdTail(Len(x))))
BY DEF Digest

(* Resuming after one whole block: the tail is that of the whole message.  *)
LEMMA ResumedIs ==
  ASSUME NEW h \in Hashes, NEW a, Str(a), Len(a) = Block, NEW x, Str(x), Len(x) = DigestSize[h]
  PROVE  Serialize(h, Compress(Compress(<<>>, a), x \o MdTail(Block + DigestSize[h])))
           = Digest(h, a \o x)
<1>. DEFINE w == DigestSize[h]
            g == MdTail(Block + w)
            y == a \o x
<1>1. Block \in Nat \ {0} /\ w \in Nat \ {0} /\ Block + w \in Nat
  <2>1. Block \in Nat \ {0} /\ w \in Nat \ {0}
    BY HashAssumption
  <2>. QED
    BY <2>1
<1>2. Len(x) = w
  OBVIOUS
<1>. HIDE DEF w
<1>3. /\ Str(g) /\ Len(g) \in Nat \ {0}
      /\ \E q \in Nat : (Block + w) + Len(g) = q * Block
  BY <1>1, TailMarked
<1>4. Str(y) /\ Len(y) = Block + w
  BY <1>2, StrConcat
<1>5. Digest(h, y) = Serialize(h, Compress(<<>>, y \o g))
  BY <1>4, DigestOf
<1>. HIDE DEF g
<1>6. y \o g = a \o (x \o g)
  BY <1>3, StrAssoc
<1>7. Str(x \o g) /\ Len(x \o g) = w + Len(g)
  BY <1>2, <1>3, StrConcat
<1>8. PICK q \in Nat : (Block + w) + Len(g) = q * Block
  BY <1>3
<1>9. q - 1 \in Nat /\ w + Len(g) = (q - 1) * Block
  <2>1. q # 0
    BY <1>1, <1>3, <1>8
  <2>. DEFINE p == q - 1
  <2>2. p \in Nat /\ q = p + 1
    BY <2>1
  <2>3. q * Block = p * Block + Block
    BY <1>1, <2>2
  <2>4. w + Len(g) = p * Block
    <3>. DEFINE e == p * Block
    <3>1. e \in Nat
      BY <1>1, <2>2
    <3>. HIDE DEF e
    <3>. QED
      BY <1>1, <1>3, <1>8, <2>3, <3>1 DEF e
  <2>. QED
    BY <2>2, <2>4
<1>10. Len(a) = 1 * Block /\ 1 \in Nat
  BY <1>1
<1>. DEFINE z == x \o g
<1>11. Str(z) /\ Len(z) = (q - 1) * Block
  BY <1>7, <1>9
<1>. HIDE DEF z
<1>12. Compress(Compress(<<>>, a), z) = Compress(<<>>, a \o z)
  BY <1>9, <1>10, <1>11, Resumes
<1>. QED
  BY <1>5, <1>6, <1>12 DEF z, w, g, y

(* What body does to U(j-1) is the MAC of it, midstates or not: the blocks *)
(* absorbed at the top are the MAC's first blocks, and a digest's end the  *)
(* message at the length whose padding the code wrote ahead of the loop.   *)
LEMMA ChainTurn ==
  ASSUME call \in RequestType, call.op = "pbkdf2", Good(call), Hoisted(call, keys),
         NEW r \in Rows(call), NEW x, Str(x), Len(x) = HLen(call)
  PROVE  HmacU(r, x) = Mac(MacOf(call), KeyOf(call, r), x)
<1>. DEFINE mac == MacOf(call)
            h   == call.hash
            k0  == KeyBlockOf(call, r)
            ip  == Xored("ipad", k0)
            op  == Xored("opad", k0)
<1>1. Fitted(mac) /\ mac.hash = h /\ HLen(call) = DigestSize[h] /\ Str(KeyOf(call, r))
  BY GoodDerive
<1>2. h \in Hashes
  BY <1>1 DEF Fitted
<1>3. Str(k0) /\ Len(k0) = mac.block
  BY <1>1, BlockKeyIs DEF KeyBlockOf
<1>4. Mac(mac, KeyOf(call, r), x) = Digest(h, op \o Digest(h, ip \o x))
  BY <1>1 DEF Mac, KeyBlockOf
<1>. HIDE DEF k0
<1>5. Str(ip) /\ Len(ip) = mac.block /\ Str(op) /\ Len(op) = mac.block
  BY <1>3, XoredIs
<1>6. /\ keys.midstate \in BOOLEAN
      /\ keys.midstate => h \in Profiles /\ BlockSizes[h] = mac.block
      /\ keys.inner[r] = Side(call, "ipad", r, keys.midstate)
      /\ keys.outer[r] = Side(call, "opad", r, keys.midstate)
  BY DEF Hoisted
<1>. HIDE DEF ip, op, mac, h
<1>7. CASE ~keys.midstate
  <2>1. keys.inner[r] = ip /\ keys.outer[r] = op
    BY <1>6, <1>7 DEF Side, ip, op, k0
  <2>2. HmacU(r, x) = Digest(h, keys.outer[r] \o Digest(h, keys.inner[r] \o x))
    BY <1>7 DEF HmacU, h
  <2>. QED
    BY <1>4, <2>1, <2>2 DEF mac
<1>8. CASE keys.midstate
  <2>1. mac.block = Block
    BY <1>6, <1>8, ProfileAssumption
  <2>2. keys.inner[r] = Compress(<<>>, ip) /\ keys.outer[r] = Compress(<<>>, op)
    BY <1>6, <1>8 DEF Side, ip, op, k0
  <2>. DEFINE S(a, y) ==
                Serialize(h, Compress(Compress(<<>>, a), y \o MdTail(Block + DigestSize[h])))
  <2>3. HmacU(r, x) = S(op, S(ip, x))
    BY <1>1, <1>8, <2>1, <2>2 DEF HmacU, Resumed, h, mac
  <2>4. S(ip, x) = Digest(h, ip \o x)
    BY <1>1, <1>2, <1>5, <2>1, ResumedIs
  <2>. DEFINE d == Digest(h, ip \o x)
  <2>5. Str(d) /\ Len(d) = DigestSize[h]
    BY <1>2, DigestIs
  <2>. HIDE DEF d
  <2>6. S(op, d) = Digest(h, op \o d)
    BY <1>1, <1>2, <1>5, <2>1, <2>5, ResumedIs
  <2>. HIDE DEF S
  <2>. QED
    BY <1>4, <2>3, <2>4, <2>6 DEF d, mac
<1>. QED
  BY <1>6, <1>7, <1>8

(* HoistedKeys makes what the loop relies on.                              *)
LEMMA HoistedIs ==
  Hoisted(call, HoistedKeys)
<1>1. HoistedKeys.midstate = ProfileOf /\ ProfileOf \in BOOLEAN
  BY DEF HoistedKeys, ProfileOf
<1>2. ProfileOf => call.hash \in Profiles /\ BlockSizes[call.hash] = MacOf(call).block
  BY DEF ProfileOf
<1>3. ASSUME NEW r \in Rows(call)
      PROVE  /\ HoistedKeys.inner[r] = Side(call, "ipad", r, ProfileOf)
             /\ HoistedKeys.outer[r] = Side(call, "opad", r, ProfileOf)
  BY DEF HoistedKeys, Rows, Batch, Side, KeyBlockOf, Key, KeyOf
<1>. QED
  BY <1>1, <1>2, <1>3 DEF Hoisted

----------------------------------------------------------------------------
(* PBKDF2's loops.                                                         *)

(* The derivation's loops: before the first block, after a block's first   *)
(* MAC, through an iteration, at the end of a block, and after the last.   *)
LEMMA DeriveBegins ==
  ASSUME NEW req \in RequestType, req.op = "pbkdf2", Good(req), NEW b, NEW ks,
         Hoisted(req, ks), \A r \in Rows(req) : b[r] = <<>>
  PROVE  Deriving(req, 1, b, ks)
<1>1. NumBlocks(req) \in Nat \ {0}
  BY GoodDerive
<1>2. 1 \in 1 .. NumBlocks(req) + 1 /\ 1 - 1 = 0
  BY <1>1
<1>3. ASSUME NEW r \in Rows(req)
      PROVE  b[r] = Derived(req, r, 1 - 1)
  <2>1. Derived(req, r, 0) = <<>>
    BY JoinNone DEF Derived
  <2>. QED
    BY <1>2, <2>1
<1>. QED
  BY <1>2, <1>3 DEF Deriving

(* U(1) starts a block's chain.                                            *)
LEMMA IterateBegins ==
  ASSUME NEW req \in RequestType, NEW a, NEW b, NEW ks, Deriving(req, a, b, ks),
         a <= NumBlocks(req), NEW x, NEW y,
         \A r \in Rows(req) :
           /\ x[r] = Mac(MacOf(req), KeyOf(req, r), TextOf(req, r) \o CounterBytes(a, Octets))
           /\ y[r] = [k \in DOMAIN x[r] |-> {x[r][k]}]
  PROVE  Iterating(req, a, 1, x, y)
<1>1. req.op = "pbkdf2" /\ Good(req)
  BY DEF Deriving
<1>2. req.iterations \in Nat \ {0}
  BY <1>1, GoodDerive
<1>3. ASSUME NEW r \in Rows(req)
      PROVE  /\ x[r] = ChainOf(req, r, a)[1]
             /\ y[r] = PbkdfSums(ChainOf(req, r, a), req.iterations)[1]
  <2>. DEFINE U == ChainOf(req, r, a)
  <2>1. U[1] = Mac(MacOf(req), KeyOf(req, r), TextOf(req, r) \o CounterBytes(a, Octets))
    <3>. DEFINE mac  == MacOf(req)
                key  == KeyOf(req, r)
                salt == TextOf(req, r)
                n    == req.iterations
    <3>1. U = PbkdfChain(mac, key, salt, n, a)
      BY DEF ChainOf
    <3>2. n \in Nat \ {0}
      BY <1>2
    <3>. HIDE DEF mac, key, salt, n, U
    <3>3. U[1] = Mac(mac, key, salt \o CounterBytes(a, Octets))
      BY <3>1, <3>2, PbkdfChainIs
    <3>. QED
      BY <3>3 DEF mac, key, salt
  <2>. HIDE DEF U
  <2>2. PbkdfSums(U, req.iterations)[1] = FirstSum(U)
    BY <1>2, PbkdfSumsAre
  <2>3. x[r] = U[1]
    BY <2>1
  <2>4. y[r] = FirstSum(U)
    BY <2>3 DEF FirstSum
  <2>. QED
    BY <2>2, <2>3, <2>4 DEF U
<1>4. 1 \in 1 .. req.iterations
  BY <1>2
<1>. QED
  BY <1>3, <1>4 DEF Iterating

(* In a chain every link is as wide as a digest, and so is every sum.      *)
LEMMA IterateWidths ==
  ASSUME NEW req \in RequestType, NEW a, NEW b, NEW ks, Deriving(req, a, b, ks),
         NEW c, NEW x, NEW y, Iterating(req, a, c, x, y), NEW r \in Rows(req)
  PROVE  Str(x[r]) /\ Len(x[r]) = HLen(req) /\ Len(y[r]) = HLen(req)
<1>1. req.op = "pbkdf2" /\ Good(req) /\ a \in 1 .. NumBlocks(req) + 1
  BY DEF Deriving
<1>2. /\ a <= NumBlocks(req) /\ c \in 1 .. req.iterations
      /\ x[r] = ChainOf(req, r, a)[c]
      /\ y[r] = PbkdfSums(ChainOf(req, r, a), req.iterations)[c]
  BY DEF Iterating
<1>3. /\ req.iterations \in Nat \ {0} /\ Fitted(MacOf(req))
      /\ HLen(req) = DigestSize[MacOf(req).hash] /\ HLen(req) \in Nat \ {0}
      /\ NumBlocks(req) \in 1 .. ValuesOf[Octets] - 1 /\ NumBlocks(req) \in Nat \ {0}
      /\ Str(KeyOf(req, r)) /\ Str(TextOf(req, r)) /\ Plain(TextOf(req, r))
  BY <1>1, GoodDerive
<1>. DEFINE U == ChainOf(req, r, a)
            w == HLen(req)
            n == req.iterations
<1>4. \A p \in 1 .. n : Str(U[p]) /\ Len(U[p]) = w
  BY <1>3, ChainElement DEF ChainOf
<1>5. a \in 1 .. ValuesOf[Octets] - 1
  <2>1. ValuesOf[Octets] \in Nat
    BY HashAssumption, Values
  <2>. QED
    BY <1>1, <1>2, <1>3, <2>1
<1>6. \A p, q \in 1 .. n, k, l \in 1 .. w : U[p][k] = U[q][l] => p = q /\ k = l
  <2>1. \A p, q \in 1 .. n, k, l \in 1 .. DigestSize[MacOf(req).hash] :
          U[p][k] = U[q][l] => a = a /\ p = q /\ k = l
    BY <1>3, <1>5, ChainsDiffer DEF ChainOf
  <2>. QED
    BY <1>3, <2>1
<1>. HIDE DEF U, w
<1>7. \A p \in 1 .. n : Len(PbkdfSums(U, n)[p]) = w
  <2>. HIDE DEF n
  <2>1. n \in Nat \ {0} /\ w \in Nat \ {0}
    BY <1>3 DEF n, w
  <2>2. \A p \in 1 .. n :
           /\ Str(PbkdfSums(U, n)[p]) /\ Len(PbkdfSums(U, n)[p]) = w
           /\ \A k \in 1 .. w : PbkdfSums(U, n)[p][k] = Column(U, k, p)
    BY <1>4, <1>6, <2>1, SumsAre, SMTT(60)
  <2>. QED
    BY <2>2
<1>. QED
  BY <1>2, <1>4, <1>7 DEF U, w

(* The sum so far and one link more.                                       *)
Added(y, z) == [k \in DOMAIN y |-> SymDiff(y[k], {z[k]})]

(* One iteration more of it.                                               *)
LEMMA IterateGoesOn ==
  ASSUME NEW req \in RequestType, NEW a, NEW b, NEW ks, Deriving(req, a, b, ks),
         NEW c, NEW x, NEW y, Iterating(req, a, c, x, y), c < req.iterations,
         NEW z, NEW d,
         \A r \in Rows(req) :
           /\ z[r] = Mac(MacOf(req), KeyOf(req, r), x[r])
           /\ d[r] = Added(y[r], z[r])
  PROVE  Iterating(req, a, c + 1, z, d)
<1>. DEFINE n == req.iterations
<1>1. req.op = "pbkdf2" /\ Good(req)
  BY DEF Deriving
<1>2. n \in Nat \ {0}
  BY <1>1, GoodDerive
<1>3. /\ a <= NumBlocks(req) /\ c \in 1 .. n
      /\ \A r \in Rows(req) : /\ x[r] = ChainOf(req, r, a)[c]
                              /\ y[r] = PbkdfSums(ChainOf(req, r, a), n)[c]
  BY DEF Iterating
<1>4. c < n
  OBVIOUS
<1>. HIDE DEF n
<1>5. c + 1 \in 2 .. n /\ c + 1 \in 1 .. n /\ (c + 1) - 1 = c
  BY <1>2, <1>3, <1>4
<1>6. ASSUME NEW r \in Rows(req)
      PROVE  z[r] = ChainOf(req, r, a)[c + 1] /\ d[r] = PbkdfSums(ChainOf(req, r, a), n)[c + 1]
  <2>. DEFINE U == ChainOf(req, r, a)
              F == PbkdfSums(U, n)
  <2>1. U[c + 1] = Mac(MacOf(req), KeyOf(req, r), U[c])
    <3>1. \A p \in 2 .. n : U[p] = Mac(MacOf(req), KeyOf(req, r), U[p - 1])
      BY <1>2, PbkdfChainIs DEF ChainOf, n
    <3>. HIDE DEF U
    <3>2. U[c + 1] = Mac(MacOf(req), KeyOf(req, r), U[(c + 1) - 1])
      BY <1>5, <3>1
    <3>. QED
      BY <1>5, <3>2
  <2>2. x[r] = U[c] /\ y[r] = F[c]
    BY <1>3
  <2>. HIDE DEF U
  <2>3. F[1] = FirstSum(U) /\ \A p \in 2 .. n : F[p] = NextSum(U, F[p - 1], p)
    BY <1>2, PbkdfSumsAre
  <2>. HIDE DEF F
  <2>4. z[r] = U[c + 1]
    BY <2>1, <2>2
  <2>5. DOMAIN F[c] = DOMAIN U[1]
    <3>1. CASE c = 1
      BY <2>3, <3>1 DEF FirstSum
    <3>2. CASE c \in 2 .. n
      BY <2>3, <3>2 DEF NextSum
    <3>. QED
      BY <1>2, <1>3, <3>1, <3>2
  <2>6. F[c + 1] = NextSum(U, F[c], c + 1)
    <3>1. F[c + 1] = NextSum(U, F[(c + 1) - 1], c + 1)
      BY <1>5, <2>3
    <3>. QED
      BY <1>5, <3>1
  <2>7. d[r] = NextSum(U, F[c], c + 1)
    <3>1. d[r] = [k \in DOMAIN y[r] |-> SymDiff(y[r][k], {z[r][k]})]
      BY DEF Added
    <3>. QED
      BY <2>2, <2>4, <2>5, <3>1 DEF NextSum
  <2>. QED
    BY <2>4, <2>6, <2>7 DEF U, F
<1>. QED
  BY <1>3, <1>5, <1>6 DEF Iterating, n

(* A block ends with its chain.                                            *)
LEMMA BlockEnds ==
  ASSUME NEW req \in RequestType, NEW a, NEW b, NEW ks, Deriving(req, a, b, ks),
         NEW x, NEW y, Iterating(req, a, req.iterations, x, y),
         NEW d, \A r \in Rows(req) : d[r] = b[r] \o y[r]
  PROVE  Deriving(req, a + 1, d, ks)
<1>. DEFINE n == NumBlocks(req)
<1>1. /\ req.op = "pbkdf2" /\ Good(req) /\ a \in 1 .. n + 1 /\ Hoisted(req, ks)
      /\ \A r \in Rows(req) : b[r] = Derived(req, r, a - 1)
  BY DEF Deriving
<1>2. /\ a <= n
      /\ \A r \in Rows(req) : y[r] = PbkdfSums(ChainOf(req, r, a), req.iterations)[req.iterations]
  BY DEF Iterating
<1>3. n \in Nat \ {0} /\ n \in 1 .. ValuesOf[Octets] - 1 /\ ValuesOf[Octets] \in Nat
  <2>1. n \in Nat \ {0} /\ n \in 1 .. ValuesOf[Octets] - 1
    BY <1>1, GoodDerive
  <2>. QED
    BY <2>1, HashAssumption, Values
<1>. HIDE DEF n
<1>4. /\ a \in 1 .. ValuesOf[Octets] - 1 /\ a + 1 \in 1 .. n + 1
      /\ (a + 1) - 1 = a /\ a - 1 \in Nat /\ (a - 1) + 1 = a
  BY <1>1, <1>2, <1>3
<1>5. ASSUME NEW r \in Rows(req)
      PROVE  d[r] = Derived(req, r, a)
  <2>. DEFINE B(p) == DerivedBlock(req, r, p)
              e    == a - 1
              f    == [p \in 1 .. a |-> B(p)]
  <2>1. Str(B(a))
    <3>1. /\ Fitted(MacOf(req)) /\ req.iterations \in Nat \ {0}
          /\ Str(KeyOf(req, r)) /\ Str(TextOf(req, r)) /\ Plain(TextOf(req, r))
      BY <1>1, GoodDerive
    <3>. QED
      BY <1>4, <3>1, PbkdfBlockIs DEF DerivedBlock
  <2>2. y[r] = B(a)
    BY <1>2 DEF DerivedBlock, PbkdfBlock, ChainOf
  <2>. HIDE DEF B
  <2>3. e \in Nat /\ e + 1 = a
    BY <1>4
  <2>. HIDE DEF e
  <2>4. \A p \in 1 .. a : f[p] = B(p)
    OBVIOUS
  <2>5. Str(f[e + 1])
    <3>1. a \in 1 .. a
      BY <1>4
    <3>. QED
      BY <2>1, <2>3, <2>4, <3>1
  <2>6. [p \in 1 .. a |-> B(p)] = [p \in 1 .. e + 1 |-> f[p]]
    BY <2>3
  <2>7. [p \in 1 .. e |-> B(p)] = [p \in 1 .. e |-> f[p]]
    <3>1. \A p \in 1 .. e : p \in 1 .. a
      BY <2>3
    <3>. QED
      BY <2>4, <3>1
  <2>8. f[e + 1] = B(a)
    <3>1. a \in 1 .. a
      BY <1>4
    <3>. QED
      BY <2>3, <2>4, <3>1
  <2>. HIDE DEF f
  <2>9. FlattenSeq([p \in 1 .. e + 1 |-> f[p]])
          = FlattenSeq([p \in 1 .. e |-> f[p]]) \o f[e + 1]
    BY <2>3, <2>5, JoinSnoc
  <2>10. FlattenSeq([p \in 1 .. a |-> B(p)]) = FlattenSeq([p \in 1 .. e |-> B(p)]) \o B(a)
    BY <2>6, <2>7, <2>8, <2>9
  <2>11. b[r] = FlattenSeq([p \in 1 .. e |-> B(p)])
    BY <1>1 DEF Derived, B, e
  <2>. QED
    BY <2>2, <2>10, <2>11 DEF Derived, B
<1>. QED
  BY <1>1, <1>4, <1>5 DEF Deriving, n

(* What the derivation returns.                                            *)
LEMMA DeriveEnds ==
  ASSUME NEW req \in RequestType, NEW a, NEW b, NEW ks, Deriving(req, a, b, ks),
         a > NumBlocks(req), NEW r \in Rows(req)
  PROVE  SubSeq(b[r], 1, req.length) = RowBytes(req, r)
<1>1. /\ req.op = "pbkdf2" /\ Good(req) /\ a \in 1 .. NumBlocks(req) + 1
      /\ b[r] = Derived(req, r, a - 1)
  BY DEF Deriving
<1>2. NumBlocks(req) \in Nat
  BY <1>1, GoodDerive
<1>3. a - 1 = NumBlocks(req)
  BY <1>1, <1>2
<1>4. RowBytes(req, r) = SubSeq(Derived(req, r, NumBlocks(req)), 1, req.length)
  BY <1>1 DEF RowBytes, PbkdfStream, Derived, DerivedBlock, KeyOf, TextOf
<1>. QED
  BY <1>1, <1>3, <1>4

----------------------------------------------------------------------------
(* MGF1's layout.                                                          *)

(* A row's part of a row-major layout.                                     *)
RowPlace(m, n, r, c) ==
  /\ (r - 1) * n + c \in 1 .. m * n
  /\ (((r - 1) * n + c) - 1) \div n = r - 1
  /\ (((r - 1) * n + c) - 1) % n = c - 1
  /\ (r - 1) * n + 1 \in 1 .. m * n + 1
  /\ r * n \in (r - 1) * n .. m * n
  /\ r * n - ((r - 1) * n + 1) + 1 = n

(* Where a block of a row is, and whose block a place holds.               *)
LEMMA RowMajor ==
  ASSUME NEW m \in Nat, NEW n \in Nat \ {0}, NEW r \in 1 .. m, NEW c \in 1 .. n
  PROVE  RowPlace(m, n, r, c)
<1>. DEFINE q == r - 1
            e == q * n
            f == m * n
            g == r * n
<1>1. q \in Nat /\ c - 1 \in 0 .. n - 1 /\ r = q + 1
  OBVIOUS
<1>2. e \in Nat /\ f \in Nat /\ g \in Nat /\ g = e + n
  BY <1>1
<1>3. g <= f
  <2>. DEFINE d == m - r
  <2>1. d \in Nat /\ m = d + r
    OBVIOUS
  <2>2. f = d * n + g /\ d * n \in Nat
    BY <2>1
  <2>. HIDE DEF d, f, g
  <2>. DEFINE h == d * n
  <2>3. f = h + g /\ h \in Nat
    BY <2>2
  <2>. HIDE DEF h
  <2>. QED
    BY <1>2, <2>3
<1>4. (q * n + (c - 1)) \div n = q /\ (q * n + (c - 1)) % n = c - 1
  <2>. DEFINE d == c - 1
  <2>1. q \in Int /\ d \in 0 .. n - 1
    BY <1>1
  <2>. HIDE DEF d, q
  <2>2. (q * n + d) \div n = q /\ (q * n + d) % n = d
    BY <2>1, DivModUnique
  <2>. QED
    BY <2>2 DEF d
<1>5. (e + c) - 1 = e + (c - 1)
  BY <1>1, <1>2
<1>. HIDE DEF e, f, g, q
<1>6. /\ e + c \in 1 .. f /\ e + 1 \in 1 .. f + 1 /\ g \in e .. f /\ g - (e + 1) + 1 = n
  BY <1>2, <1>3
<1>. QED
  BY <1>4, <1>5, <1>6 DEF e, f, g, q, RowPlace

MgfBlock(r, c) == Digest(call.hash, Text(r) \o CounterBytes(c, Octets))

Layout(s, m, n) ==
  /\ Tabulated(s, m * n)
  /\ \A p \in 1 .. m * n : s[p] = MgfBlock((p - 1) \div n + 1, (p - 1) % n)
RowOf(s, n, r) == SubSeq(s, (r - 1) * n + 1, r * n)

(* So a row's part of the batched stream is the row's own stream.          *)
LEMMA MgfRow ==
  ASSUME NEW m \in Nat, NEW n \in Nat \ {0}, NEW r \in 1 .. m, NEW s, Layout(s, m, n)
  PROVE  RowOf(s, n, r) = [c \in 1 .. n |-> MgfBlock(r, c - 1)]
<1>. DEFINE e == (r - 1) * n
            f == m * n
            g == r * n
            x == SubSeq(s, e + 1, g)
            y == [c \in 1 .. n |-> MgfBlock(r, c - 1)]
<1>0. f \in Nat
  OBVIOUS
<1>1. Str(s) /\ Len(s) = f
  BY <1>0, StrOf DEF Layout
<1>2. e + 1 \in 1 .. f + 1 /\ g \in e .. f /\ g - (e + 1) + 1 = n /\ e \in Nat
  <2>1. 1 \in 1 .. n /\ e \in Nat
    OBVIOUS
  <2>. QED
    BY <2>1, RowMajor DEF RowPlace
<1>3. ASSUME NEW c \in 1 .. n
      PROVE  s[e + c] = MgfBlock(r, c - 1)
  <2>. DEFINE p == e + c
  <2>1. p \in 1 .. f /\ (p - 1) \div n = r - 1 /\ (p - 1) % n = c - 1
    <3>1. RowPlace(m, n, r, c)
      BY RowMajor
    <3>. QED
      BY <3>1 DEF RowPlace
  <2>. HIDE DEF p
  <2>2. s[p] = MgfBlock((p - 1) \div n + 1, (p - 1) % n)
    BY <2>1 DEF Layout
  <2>3. (p - 1) \div n + 1 = r
    BY <2>1
  <2>. QED
    BY <2>1, <2>2, <2>3 DEF p
<1>. HIDE DEF e, f, g
<1>4. (e + 1) - 1 = e /\ \A c \in 1 .. n : e + 1 + c - 1 = e + c
  BY <1>2
<1>5. Str(x) /\ Len(x) = n /\ \A c \in 1 .. n : x[c] = s[e + c]
  <2>. DEFINE a == e + 1
  <2>1. a \in 1 .. Len(s) + 1 /\ g \in a - 1 .. Len(s)
    BY <1>1, <1>2, <1>4
  <2>. HIDE DEF a
  <2>2. /\ Str(SubSeq(s, a, g)) /\ Len(SubSeq(s, a, g)) = g - a + 1
        /\ \A k \in 1 .. g - a + 1 : SubSeq(s, a, g)[k] = s[a + k - 1]
    BY <1>1, <2>1, StrSub
  <2>3. g - a + 1 = n /\ \A k \in 1 .. n : a + k - 1 = e + k
    BY <1>2, <1>4 DEF a
  <2>. QED
    BY <2>2, <2>3 DEF a
<1>6. Str(y) /\ Len(y) = n /\ \A c \in 1 .. n : y[c] = MgfBlock(r, c - 1)
  <2>1. Tabulated(y, n) /\ \A c \in 1 .. n : y[c] = MgfBlock(r, c - 1)
    BY DEF Tabulated
  <2>. HIDE DEF y
  <2>2. n \in Nat
    OBVIOUS
  <2>. QED
    BY <2>1, <2>2, StrOf
<1>. HIDE DEF x, y
<1>7. x = y
  BY <1>3, <1>5, <1>6, StrEqual
<1>. QED
  BY <1>7 DEF x, y, e, g, RowOf

(* The batched mask, cut into its rows, is the formula of each row.        *)
LEMMA Mgf1RowsAre ==
  ASSUME call \in RequestType, call.op = "mgf1", Good(call)
  PROVE  Mgf1Rows = [r \in Rows(call) |-> RowBytes(call, r)]
<1>. DEFINE m == BatchOf(call)
            n == NumBlocks(call)
             s == [p \in DOMAIN Mgf1Messages |-> Digest(call.hash, Mgf1Messages[p])]
<1>1. m \in Nat
  BY DEF RequestType, Shape, BatchOf
<1>2. n \in Nat \ {0}
  <2>1. ValuesOf[Octets] \in Nat
    BY HashAssumption, Values
  <2>2. call.length \in 1 .. ValuesOf[Octets] * HLen(call)
    BY DEF Good, Served, Longest
  <2>. QED
    BY <2>1, <2>2, RequestBlocks
<1>3. Layout(s, m, n)
  BY DEF Layout, Mgf1Messages, Tabulated, MgfBlock
<1>4. Mgf1Rows = [r \in 1 .. m |-> SubSeq(FlattenSeq(RowOf(s, n, r)), 1, call.length)]
  BY DEF Mgf1Rows, Batch, RowOf
<1>5. ASSUME NEW r \in 1 .. m
      PROVE  RowBytes(call, r)
               = SubSeq(FlattenSeq([c \in 1 .. n |-> MgfBlock(r, c - 1)]), 1, call.length)
  BY DEF RowBytes, MgfStream, Text, MgfBlock
<1>. HIDE DEF m, n, s
<1>6. \A r \in 1 .. m : RowOf(s, n, r) = [c \in 1 .. n |-> MgfBlock(r, c - 1)]
  BY <1>1, <1>2, <1>3, MgfRow
<1>. QED
  BY <1>4, <1>5, <1>6 DEF Rows, m

----------------------------------------------------------------------------
(* The invariant, and the ends of a call.                                  *)

(* The inductive invariant.                                                *)
Inv ==
  /\ call \in Requests \cup {Idle}
  /\ at \in {"idle", "new", "expand", "block", "iterate"}
  /\ at = "idle" <=> call = Idle
  /\ answer = Nothing \/ \E req \in Requests : answer = Answer(req)
  /\ at = "expand" => Expanding(call, i, u, blocks)
  /\ at \in {"block", "iterate"} => Deriving(call, i, blocks, keys)
  /\ at = "iterate" => Iterating(call, i, j, u, t)

(* What the code refuses a call with is what the standard answers.         *)
Agrees(refusal) ==
  /\ refusal = "" => Good(call)
  /\ refusal # "" => Answer(call) = [kind |-> refusal]

(* Each adapter refuses what the standard does, with the same error, in    *)
(* whatever order it looks.                                                *)
LEMMA MacAgrees ==
  ASSUME call \in RequestType, call.op \in {"mac", "extract"}
  PROVE  Agrees(MacRefusal)
<1>1. Accepted(call) => (Served(call) <=> ~ShapeRefused(call))
  BY RefusalIs DEF Served
<1>2. Refusal(call) = HmacRefusal(call.hash, call.given)
  BY DEF Refusal
<1>. QED
  BY <1>1, <1>2, Answers DEF Agrees, MacRefusal, ShapeRefusal, Good, Accepted

(* HKDF's refusals,                                                        *)
LEMMA ExpandAgrees ==
  ASSUME call \in RequestType, call.op = "expand"
  PROVE  Agrees(ExpandRefusal)
<1>. DEFINE InRange == 1 <= call.length /\ call.length <= (Byte - 1) * HLen(call)
<1>1. Accepted(call) => (Served(call) <=> InRange /\ ~ShapeRefused(call))
  <2>1. call.length \in Nat /\ (Byte - 1) * HLen(call) \in Int
    BY HashAssumption DEF RequestType, HLen
  <2>2. call.length \in 1 .. (Byte - 1) * HLen(call) <=> InRange
    BY <2>1
  <2>. QED
    BY <2>2, RefusalIs DEF Served, Longest
<1>2. Refusal(call) = HmacRefusal(call.hash, call.given)
  BY DEF Refusal
<1>3. ExpandRefusal = IF Refusal(call) # "" THEN Refusal(call)
                      ELSE IF ~InRange THEN "ValueError" ELSE ShapeRefusal
  BY <1>2 DEF ExpandRefusal
<1>. HIDE DEF InRange
<1>. QED
  BY <1>1, <1>3, Answers DEF Agrees, ShapeRefusal, Good, Accepted

(* MGF1's,                                                                 *)
LEMMA Mgf1Agrees ==
  ASSUME call \in RequestType, call.op = "mgf1"
  PROVE  Agrees(Mgf1Refusal)
<1>. DEFINE InRange == 1 <= call.length /\ call.length <= ValuesOf[Octets] * HLen(call)
<1>1. Served(call) <=> InRange
  <2>0. ValuesOf[Octets] \in Nat
    BY HashAssumption, Values
  <2>1. call.length \in Nat /\ ValuesOf[Octets] * HLen(call) \in Int
    BY <2>0, HashAssumption DEF RequestType, HLen
  <2>2. call.length \in 1 .. ValuesOf[Octets] * HLen(call) <=> InRange
    BY <2>1
  <2>3. ~ShapeRefused(call)
    BY DEF ShapeRefused
  <2>. QED
    BY <2>2, <2>3 DEF Served, Longest
<1>2. Refusal(call) = ""
  BY DEF Refusal
<1>3. Mgf1Refusal = IF ~InRange THEN "ValueError" ELSE ""
  BY DEF Mgf1Refusal
<1>. HIDE DEF InRange
<1>. QED
  BY <1>1, <1>2, <1>3, Answers DEF Agrees, Good, Accepted

(* and PBKDF2's.                                                           *)
LEMMA Pbkdf2Agrees ==
  ASSUME call \in RequestType, call.op = "pbkdf2"
  PROVE  Agrees(Pbkdf2Refusal)
<1>. DEFINE InRange == 1 <= call.length /\ call.length <= (ValuesOf[Octets] - 1) * HLen(call)
            Few     == call.iterations < 1
<1>1. Accepted(call) => (Served(call) <=> ~Few /\ InRange /\ ~ShapeRefused(call))
  <2>0. ValuesOf[Octets] \in Nat
    BY HashAssumption, Values
  <2>1. call.length \in Nat /\ (ValuesOf[Octets] - 1) * HLen(call) \in Int
    BY <2>0, HashAssumption DEF RequestType, HLen
  <2>2. call.length \in 1 .. (ValuesOf[Octets] - 1) * HLen(call) <=> InRange
    BY <2>1
  <2>3. call.iterations >= 1 <=> ~Few
    BY DEF RequestType
  <2>. HIDE DEF InRange, Few
  <2>. QED
    BY <2>2, <2>3, RefusalIs DEF Served, Longest
<1>2. Refusal(call) = HmacRefusal(call.hash, call.given)
  BY DEF Refusal
<1>3. Pbkdf2Refusal = IF Refusal(call) # "" THEN Refusal(call)
                      ELSE IF Few \/ ~InRange THEN "ValueError" ELSE ShapeRefusal
  BY <1>2 DEF Pbkdf2Refusal
<1>. HIDE DEF InRange, Few
<1>. QED
  BY <1>1, <1>3, Answers DEF Agrees, ShapeRefusal, Good, Accepted

StandardStep == Standard!Next \/ UNCHANGED <<call, answer>>

(* Between Ask and Return there is a request,                              *)
LEMMA Requested ==
  ASSUME Inv, at # "idle"
  PROVE  call \in Requests /\ call \in RequestType /\ call # Idle
BY RequestAssumption DEF Inv

(* which is not the absence of one.                                        *)
LEMMA NotIdle ==
  ASSUME NEW req \in Requests
  PROVE  req # Idle
BY RequestAssumption DEF RequestType, Idle

(* A step of the code is one of the standard, or none of its caller's      *)
(* concern, and keeps the invariant.                                       *)
LEMMA Begins ==
  Init => Inv /\ Standard!Init
BY DEF Init, Inv, Standard!Init, Standard!Idle, Idle, Standard!Nothing, Nothing

(* A call begins.                                                          *)
LEMMA AskStep ==
  ASSUME Inv, Ask
  PROVE  Inv' /\ StandardStep
<1>1. call' \in Requests /\ at' = "new" /\ answer' = Nothing /\ at = "idle"
  BY DEF Ask, Standard!Nothing, Nothing
<1>2. Inv'
  <2>1. call' # Idle
    BY <1>1, NotIdle
  <2>. QED
    BY <1>1, <2>1 DEF Inv
<1>3. Standard!Ask
  BY <1>1 DEF Inv, Standard!Ask, Standard!Idle, Idle, Standard!Nothing, Nothing
<1>. QED
  BY <1>2, <1>3 DEF StandardStep, Standard!Next

(* A call that returns the standard's answer is answered,                  *)
LEMMA ReturnStep ==
  ASSUME Inv, at # "idle", NEW result, Return(result), result = Answer(call)
  PROVE  Inv' /\ StandardStep
<1>1. call \in Requests /\ call # Idle
  BY Requested
<1>2. answer' = Answer(call) /\ call' = Idle /\ at' = "idle"
  BY DEF Return, Standard!Idle, Idle
<1>3. Inv'
  BY <1>1, <1>2 DEF Inv
<1>4. Standard!Reply
  BY <1>1, <1>2, SameAnswer DEF Standard!Reply, Standard!Idle, Idle
<1>. QED
  BY <1>3, <1>4 DEF StandardStep, Standard!Next

(* one that refuses too,                                                   *)
LEMMA RejectStep ==
  ASSUME Inv, NEW refusal, Agrees(refusal), Reject(refusal)
  PROVE  Inv' /\ StandardStep
<1>1. Answer(call) = [kind |-> refusal] /\ at # "idle" /\ Return([kind |-> refusal])
  BY DEF Reject, Agrees
<1>. QED
  BY <1>1, ReturnStep

(* and one that returns its rows.                                          *)
LEMMA RowsStep ==
  ASSUME Inv, at # "idle", Good(call), NEW rows, ReturnRows(rows),
         rows = [r \in Rows(call) |-> RowBytes(call, r)]
  PROVE  Inv' /\ StandardStep
<1>1. Answer(call) = [kind |-> "bytes", rows |-> rows]
  BY Requested, Answers DEF Good, Rows
<1>. QED
  BY <1>1, ReturnStep DEF ReturnRows

(* Action by action.                                                       *)
LEMMA MacStep ==
  ASSUME Inv, MacCall \/ ExtractCall
  PROVE  Inv' /\ StandardStep
<1>1. at = "new" /\ call.op \in {"mac", "extract"} /\ at # "idle"
  BY DEF MacCall, ExtractCall
<1>2. Agrees(MacRefusal)
  BY <1>1, Requested, MacAgrees
<1>3. CASE Reject(MacRefusal)
  BY <1>2, <1>3, RejectStep
<1>4. CASE MacCall /\ ~Reject(MacRefusal)
  <2>. DEFINE rows == [r \in Batch |-> Mac(MacOf(call), Key(r), Text(r))]
  <2>1. MacRefusal = "" /\ ReturnRows(rows) /\ call.op = "mac"
    BY <1>4 DEF MacCall
  <2>2. rows = [r \in Rows(call) |-> RowBytes(call, r)]
    BY <2>1 DEF Rows, Batch, RowBytes, Key, Text
  <2>3. Good(call)
    BY <1>2, <2>1 DEF Agrees
  <2>. HIDE DEF rows
  <2>. QED
    BY <1>1, <2>1, <2>2, <2>3, RowsStep
<1>5. CASE ExtractCall /\ ~Reject(MacRefusal)
  <2>. DEFINE rows == [r \in Batch |-> Mac(MacOf(call), Salt(r), Text(r))]
  <2>1. MacRefusal = "" /\ ReturnRows(rows) /\ call.op = "extract"
    BY <1>5 DEF ExtractCall
  <2>2. rows = [r \in Rows(call) |-> RowBytes(call, r)]
    BY <2>1 DEF Rows, Batch, RowBytes, Key, Text, Salt, Zeros
  <2>3. Good(call)
    BY <1>2, <2>1 DEF Agrees
  <2>. HIDE DEF rows
  <2>. QED
    BY <1>1, <2>1, <2>2, <2>3, RowsStep
<1>. QED
  BY <1>3, <1>4, <1>5

----------------------------------------------------------------------------
(* The steps, and the theorems.                                            *)

(* An expansion begins,                                                    *)
LEMMA ExpandCallStep ==
  ASSUME Inv, ExpandCall
  PROVE  Inv' /\ StandardStep
<1>1. at = "new" /\ call.op = "expand" /\ at # "idle" /\ call \in Requests /\ call \in RequestType
  BY Requested DEF ExpandCall
<1>2. Agrees(ExpandRefusal)
  BY <1>1, ExpandAgrees
<1>3. CASE Reject(ExpandRefusal)
  BY <1>2, <1>3, RejectStep
<1>4. CASE ~Reject(ExpandRefusal)
  <2>1. /\ ExpandRefusal = "" /\ at' = "expand" /\ i' = 1
        /\ u' = [r \in Batch |-> <<>>] /\ blocks' = [r \in Batch |-> <<>>]
        /\ UNCHANGED <<call, answer>>
    BY <1>4 DEF ExpandCall
  <2>2. Good(call)
    BY <1>2, <2>1 DEF Agrees
  <2>3. \A r \in Rows(call) : u'[r] = <<>> /\ blocks'[r] = <<>>
    BY <2>1 DEF Rows, Batch
  <2>4. Expanding(call, 1, u', blocks')
    BY <1>1, <2>2, <2>3, ExpandBegins
  <2>5. Expanding(call, i, u, blocks)'
    BY <2>1, <2>4 DEF Expanding, Good, Accepted, Refusal
  <2>6. Inv'
    BY <1>1, <2>1, <2>5 DEF Inv
  <2>. QED
    BY <2>1, <2>6 DEF StandardStep
<1>. QED
  BY <1>3, <1>4

(* makes a block,                                                          *)
LEMMA ExpandBlockStep ==
  ASSUME Inv, ExpandBlock
  PROVE  Inv' /\ StandardStep
<1>1. /\ at = "expand" /\ i <= NumBlocks(call) /\ at # "idle"
      /\ call \in Requests /\ call \in RequestType /\ Expanding(call, i, u, blocks)
  BY Requested DEF ExpandBlock, Inv
<1>2. i' = i + 1 /\ UNCHANGED <<call, answer, at>>
  BY DEF ExpandBlock
<1>3. \A r \in Rows(call) :
        /\ u'[r] = Mac(MacOf(call), KeyOf(call, r), u[r] \o TextOf(call, r) \o CounterBytes(i, 1))
        /\ blocks'[r] = blocks[r] \o u'[r]
  BY DEF ExpandBlock, Rows, Batch, Key, Text, KeyOf, TextOf
<1>4. Expanding(call, i + 1, u', blocks')
  BY <1>1, <1>3, ExpandGoesOn
<1>5. Expanding(call, i, u, blocks)'
  BY <1>2, <1>4
<1>6. Inv'
  BY <1>1, <1>2, <1>5 DEF Inv
<1>. QED
  BY <1>2, <1>6 DEF StandardStep

(* and returns.                                                            *)
LEMMA ExpandReturnStep ==
  ASSUME Inv, ExpandReturn
  PROVE  Inv' /\ StandardStep
<1>1. /\ at = "expand" /\ i > NumBlocks(call) /\ at # "idle" /\ ReturnRows(Cut)
      /\ call \in RequestType /\ Expanding(call, i, u, blocks)
  BY Requested DEF ExpandReturn, Inv
<1>2. Good(call)
  BY <1>1 DEF Expanding
<1>3. \A r \in Rows(call) : SubSeq(blocks[r], 1, call.length) = RowBytes(call, r)
  BY <1>1, ExpandEnds
<1>4. Cut = [r \in Rows(call) |-> RowBytes(call, r)]
  BY <1>3 DEF Cut, Batch, Rows
<1>. QED
  BY <1>1, <1>2, <1>4, RowsStep

(* A mask is made in one step.                                             *)
LEMMA Mgf1Step ==
  ASSUME Inv, Mgf1Call
  PROVE  Inv' /\ StandardStep
<1>1. at = "new" /\ call.op = "mgf1" /\ at # "idle" /\ call \in RequestType
  BY Requested DEF Mgf1Call
<1>2. Agrees(Mgf1Refusal)
  BY <1>1, Mgf1Agrees
<1>3. CASE Reject(Mgf1Refusal)
  BY <1>2, <1>3, RejectStep
<1>4. CASE ~Reject(Mgf1Refusal)
  <2>1. Mgf1Refusal = "" /\ ReturnRows(Mgf1Rows)
    BY <1>4 DEF Mgf1Call
  <2>2. Good(call)
    BY <1>2, <2>1 DEF Agrees
  <2>. QED
    BY <1>1, <2>1, <2>2, Mgf1RowsAre, RowsStep
<1>. QED
  BY <1>3, <1>4

(* A derivation begins,                                                    *)
LEMMA Pbkdf2CallStep ==
  ASSUME Inv, Pbkdf2Call
  PROVE  Inv' /\ StandardStep
<1>1. at = "new" /\ call.op = "pbkdf2" /\ at # "idle" /\ call \in Requests /\ call \in RequestType
  BY Requested DEF Pbkdf2Call
<1>2. Agrees(Pbkdf2Refusal)
  BY <1>1, Pbkdf2Agrees
<1>3. CASE Reject(Pbkdf2Refusal)
  BY <1>2, <1>3, RejectStep
<1>4. CASE ~Reject(Pbkdf2Refusal)
  <2>1. /\ Pbkdf2Refusal = "" /\ at' = "block" /\ i' = 1 /\ keys' = HoistedKeys
        /\ blocks' = [r \in Batch |-> <<>>]
        /\ UNCHANGED <<call, answer>>
    BY <1>4 DEF Pbkdf2Call
  <2>2. Good(call)
    BY <1>2, <2>1 DEF Agrees
  <2>3. \A r \in Rows(call) : blocks'[r] = <<>>
    BY <2>1 DEF Rows, Batch
  <2>4. Hoisted(call, keys')
    BY <2>1, HoistedIs
  <2>5. Deriving(call, 1, blocks', keys')
    BY <1>1, <2>2, <2>3, <2>4, DeriveBegins
  <2>6. Deriving(call, i, blocks, keys)'
    BY <2>1, <2>5
  <2>7. Inv'
    BY <1>1, <2>1, <2>6 DEF Inv
  <2>. QED
    BY <2>1, <2>7 DEF StandardStep
<1>. QED
  BY <1>3, <1>4

(* starts a chain,                                                         *)
LEMMA Pbkdf2FirstStep ==
  ASSUME Inv, Pbkdf2First
  PROVE  Inv' /\ StandardStep
<1>1. /\ at = "block" /\ i <= NumBlocks(call) /\ at # "idle"
      /\ call \in Requests /\ call \in RequestType /\ Deriving(call, i, blocks, keys)
  BY Requested DEF Pbkdf2First, Inv
<1>2. at' = "iterate" /\ j' = 1 /\ UNCHANGED <<call, answer, i, blocks, keys>>
  BY DEF Pbkdf2First
<1>3. \A r \in Rows(call) :
        /\ u'[r] = Mac(MacOf(call), KeyOf(call, r), TextOf(call, r) \o CounterBytes(i, Octets))
        /\ t'[r] = [k \in DOMAIN u'[r] |-> {u'[r][k]}]
  BY DEF Pbkdf2First, Rows, Batch, Key, Text, KeyOf, TextOf
<1>4. Iterating(call, i, 1, u', t')
  BY <1>1, <1>3, IterateBegins
<1>5. Iterating(call, i, j, u, t)' /\ Deriving(call, i, blocks, keys)'
  BY <1>1, <1>2, <1>4
<1>6. Inv'
  BY <1>1, <1>2, <1>5 DEF Inv
<1>. QED
  BY <1>2, <1>6 DEF StandardStep

(* goes on with it,                                                        *)
LEMMA Pbkdf2BodyStep ==
  ASSUME Inv, Pbkdf2Body
  PROVE  Inv' /\ StandardStep
<1>1. /\ at = "iterate" /\ j < call.iterations /\ at # "idle"
      /\ call \in Requests /\ call \in RequestType
      /\ Deriving(call, i, blocks, keys) /\ Iterating(call, i, j, u, t)
  BY Requested DEF Pbkdf2Body, Inv
<1>2. j' = j + 1 /\ UNCHANGED <<call, answer, at, i, blocks, keys>>
  BY DEF Pbkdf2Body
<1>3. \A r \in Rows(call) :
        /\ u'[r] = HmacU(r, u[r])
        /\ t'[r] = [k \in DOMAIN t[r] |-> SymDiff(t[r][k], {u'[r][k]})]
  BY DEF Pbkdf2Body, Rows, Batch
<1>4. call.op = "pbkdf2" /\ Good(call) /\ Hoisted(call, keys)
  BY <1>1 DEF Deriving
<1>5. \A r \in Rows(call) : u'[r] = Mac(MacOf(call), KeyOf(call, r), u[r])
  <2>1. TAKE r \in Rows(call)
  <2>2. Str(u[r]) /\ Len(u[r]) = HLen(call)
    BY <1>1, IterateWidths
  <2>3. HmacU(r, u[r]) = Mac(MacOf(call), KeyOf(call, r), u[r])
    BY <1>1, <1>4, <2>2, ChainTurn
  <2>. QED
    BY <1>3, <2>3
<1>6. Iterating(call, i, j + 1, u', t')
  <2>. DEFINE z == u'
              d == t'
  <2>1. \A r \in Rows(call) :
          /\ z[r] = Mac(MacOf(call), KeyOf(call, r), u[r])
          /\ d[r] = Added(t[r], z[r])
    BY <1>3, <1>5 DEF Added
  <2>. HIDE DEF z, d
  <2>2. Iterating(call, i, j + 1, z, d)
    BY <1>1, <2>1, IterateGoesOn
  <2>. QED
    BY <2>2 DEF z, d
<1>7. Iterating(call, i, j, u, t)' /\ Deriving(call, i, blocks, keys)'
  BY <1>1, <1>2, <1>6
<1>8. Inv'
  BY <1>1, <1>2, <1>7 DEF Inv
<1>. QED
  BY <1>2, <1>8 DEF StandardStep

(* ends the block,                                                         *)
LEMMA Pbkdf2BlockStep ==
  ASSUME Inv, Pbkdf2Block
  PROVE  Inv' /\ StandardStep
<1>1. /\ at = "iterate" /\ j = call.iterations /\ at # "idle"
      /\ call \in Requests /\ call \in RequestType
      /\ Deriving(call, i, blocks, keys) /\ Iterating(call, i, call.iterations, u, t)
  BY Requested DEF Pbkdf2Block, Inv
<1>2. at' = "block" /\ i' = i + 1 /\ UNCHANGED <<call, answer, keys>>
  BY DEF Pbkdf2Block
<1>3. \A r \in Rows(call) : blocks'[r] = blocks[r] \o t[r]
  BY DEF Pbkdf2Block, Rows, Batch
<1>4. Deriving(call, i + 1, blocks', keys)
  BY <1>1, <1>3, BlockEnds
<1>5. Deriving(call, i, blocks, keys)'
  BY <1>2, <1>4
<1>6. Inv'
  BY <1>1, <1>2, <1>5 DEF Inv
<1>. QED
  BY <1>2, <1>6 DEF StandardStep

(* and returns.                                                            *)
LEMMA Pbkdf2ReturnStep ==
  ASSUME Inv, Pbkdf2Return
  PROVE  Inv' /\ StandardStep
<1>1. /\ at = "block" /\ i > NumBlocks(call) /\ at # "idle" /\ ReturnRows(Cut)
      /\ call \in RequestType /\ Deriving(call, i, blocks, keys)
  BY Requested DEF Pbkdf2Return, Inv
<1>2. Good(call)
  BY <1>1 DEF Deriving
<1>3. \A r \in Rows(call) : SubSeq(blocks[r], 1, call.length) = RowBytes(call, r)
  BY <1>1, DeriveEnds
<1>4. Cut = [r \in Rows(call) |-> RowBytes(call, r)]
  BY <1>3 DEF Cut, Batch, Rows
<1>. QED
  BY <1>1, <1>2, <1>4, RowsStep

(* Nothing happens.                                                        *)
LEMMA StillStep ==
  ASSUME Inv, UNCHANGED vars
  PROVE  Inv' /\ StandardStep
<1>1. /\ Expanding(call, i, u, blocks) => Expanding(call, i, u, blocks)'
      /\ Deriving(call, i, blocks, keys) => Deriving(call, i, blocks, keys)'
      /\ Iterating(call, i, j, u, t) => Iterating(call, i, j, u, t)'
  BY DEF vars, locals
<1>2. Inv'
  BY <1>1 DEF Inv, vars, locals
<1>. QED
  BY <1>2 DEF StandardStep, vars

(* Any step.                                                               *)
LEMMA InvInductive ==
  ASSUME Inv, [Next]_vars
  PROVE  Inv' /\ StandardStep
<1>1. CASE Ask
  BY <1>1, AskStep
<1>2. CASE Work
  BY <1>2, MacStep, ExpandCallStep, ExpandBlockStep, ExpandReturnStep, Mgf1Step,
     Pbkdf2CallStep, Pbkdf2FirstStep, Pbkdf2BodyStep, Pbkdf2BlockStep, Pbkdf2ReturnStep
  DEF Work
<1>3. CASE UNCHANGED vars
  BY <1>3, StillStep
<1>. QED
  BY <1>1, <1>2, <1>3 DEF Next

(* The invariant says more than the types,                                 *)
LEMMA InvTypes ==
  Inv => TypeOK
<1>. SUFFICES ASSUME Inv PROVE TypeOK
  OBVIOUS
<1>1. at \in {"expand", "block", "iterate"} => i \in 1 .. NumBlocks(call) + 1
  BY DEF Inv, Expanding, Deriving
<1>2. ASSUME at = "iterate"
      PROVE  /\ j \in 1 .. call.iterations
             /\ \A r \in Batch : Len(u[r]) = HLen(call) /\ Len(t[r]) = HLen(call)
  <2>1. call \in RequestType /\ Deriving(call, i, blocks, keys) /\ Iterating(call, i, j, u, t)
    BY <1>2, Requested DEF Inv
  <2>2. j \in 1 .. call.iterations
    BY <2>1 DEF Iterating
  <2>3. \A r \in Rows(call) : Len(u[r]) = HLen(call) /\ Len(t[r]) = HLen(call)
    BY <2>1, IterateWidths
  <2>. QED
    BY <2>2, <2>3 DEF Rows, Batch
<1>3. answer.kind \in {"none", "bytes", "LookupError", "ValueError"}
  <2>1. CASE answer = Nothing
    BY <2>1 DEF Nothing
  <2>2. ASSUME NEW req \in Requests, answer = Answer(req)
        PROVE  answer.kind \in {"bytes", "LookupError", "ValueError"}
    <3>0. req \in RequestType
      BY RequestAssumption
    <3>1. CASE ~Accepted(req)
      <4>1. Refusal(req) \in {"", "LookupError", "ValueError"}
        BY DEF Refusal, HmacRefusal
      <4>2. answer = [kind |-> Refusal(req)]
        BY <2>2, <3>0, <3>1, Answers
      <4>. QED
        BY <3>1, <4>1, <4>2 DEF Accepted
    <3>2. CASE Accepted(req) /\ ~Served(req)
      BY <2>2, <3>0, <3>2, Answers
    <3>3. CASE Good(req)
      BY <2>2, <3>0, <3>3, Answers DEF Good
    <3>. QED
      BY <3>1, <3>2, <3>3 DEF Good
  <2>. QED
    BY <2>1, <2>2 DEF Inv
<1>. QED
  BY <1>1, <1>2, <1>3 DEF TypeOK, Inv, Standard!Idle, Idle

(* and more than that no output repeats.                                   *)
LEMMA InvNeverRepeats ==
  Inv => NeverRepeats
<1>. SUFFICES ASSUME Inv, answer.kind = "bytes", NEW r \in DOMAIN answer.rows
              PROVE  IsInjective(answer.rows[r])
  BY DEF NeverRepeats
<1>1. PICK req \in Requests : answer = Answer(req)
  BY DEF Inv, Nothing
<1>2. req \in RequestType
  BY RequestAssumption
<1>. QED
  BY <1>1, <1>2, AnswerInjective

(* For every set of requests over every hash, an index stays within its    *)
(* request, and every row in flight is a digest wide (hkdf.py's and        *)
(* pbkdf2.py's loops).                                                     *)
THEOREM AdapterTypesHold == Spec => []TypeOK
<1>1. Init => Inv
  BY Begins
<1>2. Inv /\ [Next]_vars => Inv'
  BY InvInductive
<1>. QED
  BY <1>1, <1>2, InvTypes, PTL DEF Spec

(* No byte of an answered row repeats another, whatever the request, the   *)
(* widths and the counters' octets: the ceilings of hkdf.py, mgf1.py and   *)
(* pbkdf2.py are low enough for every digest size, and PBKDF2's chains     *)
(* never meet, so no XOR of a column cancels.                              *)
THEOREM OutputsNeverRepeat == Spec => []NeverRepeats
<1>1. Init => Inv
  BY Begins
<1>2. Inv /\ [Next]_vars => Inv'
  BY InvInductive
<1>. QED
  BY <1>1, <1>2, InvNeverRepeats, PTL DEF Spec

(* The adapters implement the standards' formulas: whatever the batch, the *)
(* hash and the block size, a call is answered once, and by HKDF's, MGF1's *)
(* or PBKDF2's bytes over each of its rows, with midstates or without, or  *)
(* by the error of the limit it breaks.                                    *)
THEOREM AnswersAreStandard == Spec => ImplementsStandard
<1>1. Init => Inv /\ Standard!Init
  BY Begins
<1>2. Inv /\ [Next]_vars => Inv' /\ [Standard!Next]_<<call, answer>>
  BY InvInductive DEF StandardStep
<1>. QED
  BY <1>1, <1>2, PTL DEF Spec, ImplementsStandard, Standard!Spec
==============================================================================
