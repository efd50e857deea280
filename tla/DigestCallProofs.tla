-------------------------- MODULE DigestCallProofs --------------------------
(***************************************************************************)
(* Theorems about DigestCall, for every block size, reserve, field, word   *)
(* and bound: a digest is of the live prefix of its message whichever      *)
(* trace served it, two digests that agree were of the same hash and       *)
(* length, and the widths of the buffers follow capacity's policy.         *)
(***************************************************************************)
EXTENDS DigestCall, Arithmetic

(* What the assumptions say of the constants.                              *)
LEMMA Constants ==
  /\ Block \in Nat \ {0} /\ Reserve \in Nat \ {0} /\ Field \in Nat \ {0}
  /\ Field <= Reserve /\ Reserve < Block /\ Block >= 2
  /\ Word \in Nat /\ Word % 8 = 0 /\ Word >= 8
  /\ MaxLength \in Nat /\ MaxWidth \in Nat /\ MaxCalls \in Nat
BY CallAssumption

----------------------------------------------------------------------------
(* Capacity's choice of a power of two.                                    *)

(* The bit length is the least exponent of a power above its number.       *)
LEMMA BitLengthIsLeast ==
  ASSUME NEW n \in Nat
  PROVE  /\ BitLengthOf(n) \in Nat
         /\ PowerOfTwo[BitLengthOf(n)] > n
         /\ \A j \in 0 .. BitLengthOf(n) - 1 : PowerOfTwo[j] <= n
<1>. DEFINE T == {k \in Nat : PowerOfTwo[k] > n}
            Is(k) == PowerOfTwo[k] > n /\ \A j \in 0 .. k - 1 : PowerOfTwo[j] <= n
<1>1. \A k \in Nat : PowerOfTwo[k] \in Nat
  BY Doubling
<1>2. n \in T
  BY PowersGrow
<1>3. PICK k \in T : \A j \in T : k <= j
  <2>1. T \in SUBSET Nat
    OBVIOUS
  <2>. HIDE DEF T
  <2>. QED
    BY <1>2, <2>1, LeastElement
<1>4. k \in 0 .. n /\ Is(k)
  BY <1>1, <1>2, <1>3
<1>5. BitLengthOf(n) = CHOOSE j \in 0 .. n : Is(j)
  BY DEF BitLengthOf
<1>. HIDE DEF Is
<1>6. BitLengthOf(n) \in 0 .. n /\ Is(BitLengthOf(n))
  BY <1>4, <1>5
<1>. QED
  BY <1>6 DEF Is

(* A host message's width is a power of two that holds it, and past one    *)
(* block less than twice it.                                               *)
LEMMA HostWidths ==
  ASSUME NEW length \in Nat
  PROVE  /\ HostWidth(length) \in Nat \ {0}
         /\ length <= HostWidth(length)
         /\ length > Block => HostWidth(length) < 2 * length
         /\ \E k \in Nat : HostWidth(length) = PowerOfTwo[k]
<1>1. Block \in Nat \ {0} /\ \E k \in Nat : Block = PowerOfTwo[k]
  BY Constants, WidthAssumption
<1>2. CASE length <= Block
  BY <1>1, <1>2 DEF HostWidth
<1>3. CASE length > Block
  <2>. DEFINE n == length - 1
              k == BitLengthOf(n)
  <2>1. n \in Nat /\ n >= 1 /\ length = n + 1
    BY <1>1, <1>3
  <2>. HIDE DEF n
  <2>2. /\ k \in Nat /\ PowerOfTwo[k] > n
        /\ \A j \in 0 .. k - 1 : PowerOfTwo[j] <= n
    BY <2>1, BitLengthIsLeast
  <2>3. HostWidth(length) = PowerOfTwo[k]
    BY <1>1, <1>3 DEF HostWidth, n
  <2>. HIDE DEF k
  <2>4. PowerOfTwo[k] \in Nat \ {0}
    BY <2>2, Doubling
  <2>5. PowerOfTwo[k] <= 2 * n
    <3>1. k # 0
      BY <2>1, <2>2, Doubling
    <3>2. k - 1 \in Nat /\ (k - 1) + 1 = k /\ k - 1 \in 0 .. k - 1
      BY <2>2, <3>1
    <3>3. PowerOfTwo[k] = 2 * PowerOfTwo[k - 1] /\ PowerOfTwo[k - 1] <= n
      BY <2>2, <3>2, Doubling
    <3>4. PowerOfTwo[k - 1] \in Nat
      BY <3>2, Doubling
    <3>. QED
      BY <2>1, <3>3, <3>4
  <2>. QED
    BY <2>1, <2>2, <2>3, <2>4, <2>5
<1>. QED
  BY <1>1, <1>2, <1>3

(* Two widths are equal, or one is at least the other's double.            *)
LEMMA WidthsApart ==
  ASSUME NEW length \in Nat, NEW other \in Nat
  PROVE  \/ HostWidth(other) = HostWidth(length)
         \/ HostWidth(other) >= 2 * HostWidth(length)
         \/ HostWidth(length) >= 2 * HostWidth(other)
<1>1. PICK m \in Nat : HostWidth(length) = PowerOfTwo[m]
  BY HostWidths
<1>2. PICK n \in Nat : HostWidth(other) = PowerOfTwo[n]
  BY HostWidths
<1>3. m < n \/ n < m \/ m = n
  OBVIOUS
<1>. QED
  BY <1>1, <1>2, <1>3, PowersGrow

----------------------------------------------------------------------------
(* Padding: each family by the rule its _PAD names.                        *)

Families == BitLengths \cup {"grostl256"} \cup Blake2

(* Which rule a family's count is.                                         *)
LEMMA CountOfFamily ==
  ASSUME NEW family \in Families, NEW length
  PROVE  /\ family \notin Blake2 => NBlocks(family, length) = (length + Reserve) \div Block + 1
         /\ family \in Blake2 =>
              NBlocks(family, length) =
                (length + Block - 1) \div Block + (IF length = 0 THEN 1 ELSE 0)
BY DEF Families, NBlocks, BitLengths, Sha512s, Blake2, BitLength!NBlocks,
       BlockCount!NBlocks, Haifa!NBlocks, Haifa!CeilDiv

(* The blocks hold the message and what the rule adds.                     *)
LEMMA CountBounds ==
  ASSUME NEW family \in Families, NEW length \in Nat
  PROVE  /\ NBlocks(family, length) \in Nat \ {0}
         /\ length <= NBlocks(family, length) * Block
         /\ family \notin Blake2 =>
              /\ length + Reserve + 1 <= NBlocks(family, length) * Block
              /\ NBlocks(family, length) <= length + 1
         /\ family \in Blake2 =>
              \/ (NBlocks(family, length) - 1) * Block < length
              \/ length = 0 /\ NBlocks(family, length) = 1
<1>. DEFINE n == NBlocks(family, length)
<1>0. Block \in Nat \ {0} /\ Reserve \in Nat \ {0} /\ Reserve < Block /\ Block >= 2
  BY Constants
<1>1. CASE family \notin Blake2
  <2>. DEFINE q == (length + Reserve) \div Block
              r == (length + Reserve) % Block
  <2>1. length + Reserve \in Nat
    BY <1>0
  <2>2. q \in Nat /\ r \in 0 .. Block - 1 /\ length + Reserve = q * Block + r
    BY <1>0, <2>1, DivModNat
  <2>3. n = q + 1
    BY <1>1, CountOfFamily
  <2>. HIDE DEF q, r, n
  <2>4. (q + 1) * Block = q * Block + Block
    BY <1>0, <2>2
  <2>5. q <= length
    <3>. SUFFICES ASSUME q > length
                  PROVE  FALSE
      BY <2>2
    <3>1. q * Block >= (length + 1) * Block
      BY <1>0, <2>2
    <3>2. (length + 1) * Block = length * Block + Block /\ length * Block >= length
      BY <1>0
    <3>3. q * Block \in Nat /\ length * Block \in Nat
      BY <1>0, <2>2
    <3>. QED
      BY <1>0, <2>2, <3>1, <3>2, <3>3
  <2>6. q * Block \in Nat
    BY <1>0, <2>2
  <2>. QED
    BY <1>0, <1>1, <2>2, <2>3, <2>4, <2>5, <2>6 DEF n
<1>2. CASE family \in Blake2
  <2>. DEFINE q == (length + Block - 1) \div Block
              r == (length + Block - 1) % Block
  <2>1. length + Block - 1 \in Nat
    BY <1>0
  <2>2. q \in Nat /\ r \in 0 .. Block - 1 /\ length + Block - 1 = q * Block + r
    BY <1>0, <2>1, DivModNat
  <2>3. n = q + (IF length = 0 THEN 1 ELSE 0)
    BY <1>2, CountOfFamily
  <2>. HIDE DEF q, r, n
  <2>4. q * Block \in Nat
    BY <1>0, <2>2
  <2>5. CASE length = 0
    <3>1. q = 0
      BY <1>0, <2>2, <2>5
    <3>. QED
      BY <1>0, <1>2, <2>3, <2>5, <3>1 DEF n
  <2>6. CASE length # 0
    <3>1. q # 0 /\ n = q
      BY <1>0, <2>2, <2>3, <2>6
    <3>2. (q - 1) * Block = q * Block - Block
      BY <1>0, <2>2
    <3>. QED
      BY <1>0, <1>2, <2>2, <2>4, <3>1, <3>2 DEF n
  <2>. QED
    BY <2>5, <2>6
<1>. QED
  BY <1>1, <1>2

(* A longer message has no fewer blocks.                                   *)
LEMMA CountGrows ==
  ASSUME NEW family \in Families \ Blake2, NEW l \in Nat, NEW m \in Nat, l <= m
  PROVE  NBlocks(family, l) <= NBlocks(family, m)
<1>. DEFINE x == l + Reserve
            y == m + Reserve
<1>0. Block \in Nat \ {0} /\ x \in Nat /\ y \in Nat /\ x <= y
  BY Constants
<1>1. NBlocks(family, l) = x \div Block + 1 /\ NBlocks(family, m) = y \div Block + 1
  BY CountOfFamily
<1>. HIDE DEF x, y
<1>2. x \div Block <= y \div Block /\ x \div Block \in Nat /\ y \div Block \in Nat
  BY <1>0, DivGrows, DivModNat
<1>. QED
  BY <1>1, <1>2

(* The value a family's length field encodes, and the bytes of its tail.   *)
FieldValue(family, length) ==
  IF family = "grostl256" THEN BlockCount!HostValue(length)
                          ELSE BitLength!HostValue(length)

Mark == BitLength!Mark

FieldByte(value, j) == BitLength!FieldByte(value, j)

TailByte(family, length, j) ==
  LET size == NBlocks(family, length) * Block - length
  IN  IF family \in Blake2 THEN Zero
      ELSE IF j >= size - Field THEN FieldByte(FieldValue(family, length), j - (size - Field))
      ELSE IF j = 0 THEN Mark
      ELSE Zero

(* A padded message, byte by byte.                                         *)
HostByte(family, message, length, p) ==
  IF p < length THEN message[p] ELSE TailByte(family, length, p - length)

HostRow(family, message, length, i) ==
  [j \in 0 .. Block - 1 |-> HostByte(family, message, length, (i - 1) * Block + j)]

(* The host rule's blocks are its rows, byte for byte.                     *)
LEMMA HostBlockBytes ==
  ASSUME NEW family \in Families, NEW length \in Nat, NEW message
  PROVE  HostBlocks(family, message, length) =
           [i \in 1 .. NBlocks(family, length) |-> HostRow(family, message, length, i)]
<1>. DEFINE n   == NBlocks(family, length)
            end == n * Block
            tail == [j \in 0 .. end - length - 1 |-> TailByte(family, length, j)]
            ref == [p \in 0 .. end - 1 |-> IF p < length THEN message[p] ELSE tail[p - length]]
<1>1. HostBlocks(family, message, length) =
        [i \in 1 .. n - 0 |-> [j \in 0 .. Block - 1 |-> ref[(0 + i - 1) * Block + j]]]
  <2>1. CASE family \in BitLengths
    <3>1. /\ NBlocks(family, length) = BitLength!NBlocks(length)
          /\ HostBlocks(family, message, length) = BitLength!PaddedBlocks(message, length)
      BY <2>1 DEF NBlocks, HostBlocks, BitLengths, Sha512s, Blake2
    <3>2. family \notin Blake2 /\ family # "grostl256"
      BY <2>1 DEF BitLengths, Sha512s, Blake2
    <3>3. BitLength!PadTail(length) = tail
      BY <2>1, <3>1, <3>2 DEF BitLength!PadTail, TailByte, FieldValue, FieldByte, Mark, Zero,
         BitLength!FieldByte, BitLength!Mark, BitLength!Zero
    <3>. HIDE DEF tail
    <3>4. BitLength!Padded(message, length) = ref
      BY <3>1, <3>3 DEF BitLength!Padded
    <3>. HIDE DEF ref
    <3>. QED
      BY <3>1, <3>4 DEF BitLength!PaddedBlocks, BitLength!Blocks, BitLength!BlockAt
  <2>2. CASE family = "grostl256"
    <3>1. /\ NBlocks(family, length) = BlockCount!NBlocks(length)
          /\ HostBlocks(family, message, length) = BlockCount!PaddedBlocks(message, length)
      BY <2>2 DEF NBlocks, HostBlocks, BitLengths, Sha512s, Blake2
    <3>2. family \notin Blake2
      BY <2>2 DEF BitLengths, Sha512s, Blake2
    <3>3. BlockCount!PadTail(length) = tail
      BY <2>2, <3>1, <3>2 DEF BlockCount!PadTail, TailByte, FieldValue, FieldByte, Mark, Zero,
         BlockCount!FieldByte, BlockCount!Mark, BlockCount!Zero, BitLength!FieldByte, BitLength!Mark,
         BitLength!Zero
    <3>. HIDE DEF tail
    <3>4. BlockCount!Padded(message, length) = ref
      BY <3>1, <3>3 DEF BlockCount!Padded
    <3>. HIDE DEF ref
    <3>. QED
      BY <3>1, <3>4 DEF BlockCount!PaddedBlocks, BlockCount!Blocks, BlockCount!BlockAt
  <2>3. CASE family \in Blake2
    <3>1. /\ NBlocks(family, length) = Haifa!NBlocks(length)
          /\ HostBlocks(family, message, length) = Haifa!PaddedBlocks(message, length)
      BY <2>3 DEF NBlocks, HostBlocks, BitLengths, Sha512s, Blake2
    <3>2. family # "grostl256"
      BY <2>3 DEF BitLengths, Sha512s, Blake2
    <3>3. Haifa!PadTail(length) = tail
      BY <2>3, <3>1, <3>2 DEF Haifa!PadTail, TailByte, FieldValue, FieldByte, Mark, Zero,
         Haifa!FieldByte, Haifa!Mark, Haifa!Zero, BitLength!FieldByte, BitLength!Mark,
         BitLength!Zero
    <3>. HIDE DEF tail
    <3>4. Haifa!Padded(message, length) = ref
      BY <3>1, <3>3 DEF Haifa!Padded
    <3>. HIDE DEF ref
    <3>. QED
      BY <3>1, <3>4 DEF Haifa!PaddedBlocks, Haifa!Blocks, Haifa!BlockAt
  <2>. QED
    BY <2>1, <2>2, <2>3 DEF Families
<1>2. n \in Nat /\ length <= end /\ Block \in Nat \ {0} /\ end \in Nat
  BY CountBounds, Constants
<1>. HIDE DEF n, end
<1>3. ASSUME NEW p \in 0 .. end - 1
      PROVE  ref[p] = HostByte(family, message, length, p)
  <2>1. p >= length => p - length \in 0 .. end - length - 1
    BY <1>2
  <2>. QED
    BY <1>2, <2>1 DEF HostByte
<1>. HIDE DEF ref
<1>4. ASSUME NEW i \in 1 .. n, NEW j \in 0 .. Block - 1
      PROVE  ref[(0 + i - 1) * Block + j] =
               HostByte(family, message, length, (i - 1) * Block + j)
  <2>1. (i - 1) * Block + j \in 0 .. end - 1
    BY <1>2, ByteOfBlocks DEF end
  <2>2. 0 + i - 1 = i - 1
    OBVIOUS
  <2>. QED
    BY <1>3, <2>1, <2>2
<1>5. 1 .. n - 0 = 1 .. n
  BY <1>2
<1>6. HostBlocks(family, message, length) =
        [i \in 1 .. n |-> [j \in 0 .. Block - 1 |-> ref[(0 + i - 1) * Block + j]]]
  BY <1>1, <1>5
<1>7. HostBlocks(family, message, length) =
        [i \in 1 .. n |-> HostRow(family, message, length, i)]
  BY <1>4, <1>6 DEF HostRow
<1>. QED
  BY <1>7 DEF n

----------------------------------------------------------------------------
(* The runtime form: padding placed in the buffer by a traced length.      *)

(* What the traced rule encodes is what the host rule encodes, for every   *)
(* length an int32 holds.                                                  *)
LEMMA FieldsAgree ==
  ASSUME NEW length \in Nat, length < Word \div 2
  PROVE  /\ BitLength!TracedValue(length) = BitLength!HostValue(length)
         /\ BlockCount!TracedValue(length) = BlockCount!HostValue(length)
<1>. DEFINE m == Word \div 8
            n == NBlocks("grostl256", length)
<1>1. /\ m \in Nat \ {0} /\ Word = 8 * m /\ Word \in Nat \ {0}
      /\ length + 1 < Word
  BY Constants
<1>2. length \in 0 .. Word - 1 /\ length % Word = length
  BY <1>1, ModSmall
<1>3. length \div m = (8 * length) \div Word
  <2>. HIDE DEF m
  <2>. QED
    BY <1>1, DivScaled
<1>4. BitLength!TracedValue(length) = <<length \div m, (8 * length) % Word>>
  BY <1>2 DEF BitLength!TracedValue, BitLength!Unsigned
<1>5. BitLength!HostValue(length) = <<(8 * length) \div Word, (8 * length) % Word>>
  BY DEF BitLength!HostValue
<1>6. n \in Nat /\ n < Word
  <2>1. "grostl256" \in Families /\ "grostl256" \notin Blake2
    BY DEF Families, Blake2
  <2>2. n \in Nat \ {0} /\ n <= length + 1
    BY <2>1, CountBounds
  <2>. QED
    BY <1>1, <2>2
<1>7. BlockCount!NBlocks(length) = n
  <2>1. n = (length + Reserve) \div Block + 1
    BY CountOfFamily DEF Families, Blake2
  <2>. HIDE DEF n
  <2>. QED
    BY <2>1 DEF BlockCount!NBlocks
<1>8. /\ BlockCount!TracedValue(length) = <<0, n % Word>>
      /\ BlockCount!HostValue(length) = <<n \div Word, n % Word>>
  BY <1>7 DEF BlockCount!TracedValue, BlockCount!HostValue, BlockCount!Unsigned
<1>. HIDE DEF n
<1>9. n \div Word = 0
  <2>1. 0 * Word + n = n /\ n \in 0 .. Word - 1
    BY <1>1, <1>6
  <2>2. (0 * Word + n) \div Word = 0
    BY <1>1, <2>1, DivModUnique
  <2>. QED
    BY <2>1, <2>2
<1>. QED
  BY <1>3, <1>4, <1>5, <1>8, <1>9

(* A call as its front end makes it.                                       *)
Requests ==
  {c \in [kind : {"call"}, family : Families, form : {"bytes", "blocks", "tail"},
          size : Nat, keylen : Nat, length : Nat, width : Nat, own : BOOLEAN,
          i : {0}, folded : {<<>>}] :
     /\ c.form = "bytes" => c.family \in {"sha256", "grostl256"} /\ c.width >= 1
     /\ c.form = "blocks" => c.family \in BitLengths \ {"ripemd160"}
     /\ c.form = "tail" => c.family \in Blake2 \cup {"ripemd160"}
     /\ c.family \notin Blake2 => c.size = 0 /\ c.keylen = 0
     /\ c.length <= c.width /\ c.length < Word \div 2}

(* Byte p of the region a runtime call pads, while it is live.             *)
LEMMA RegionBytes ==
  ASSUME NEW c \in Requests, c.form = "bytes",
         NEW p \in 0 .. NBlocks(c.family, c.length) * Block - 1
  PROVE  Region(c)[p] = HostByte(c.family, Keyed(c), c.length, p)
<1>. DEFINE n      == NBlocks(c.family, c.length)
            active == n * Block
            value  == FieldValue(c.family, c.length)
            field  == [j \in 0 .. Reserve - 1 |->
                         IF j < Reserve - Field THEN Zero
                         ELSE FieldByte(value, j - (Reserve - Field))]
            length == c.length
            start  == active - Reserve
<1>0. /\ c.family \in {"sha256", "grostl256"} /\ c.family \in Families
      /\ c.family \notin Blake2 /\ c.keylen = 0
      /\ length \in Nat /\ c.width \in Nat /\ c.width >= 1 /\ length <= c.width
      /\ length < Word \div 2
  BY DEF Requests, Blake2
<1>1. /\ Block \in Nat \ {0} /\ Reserve \in Nat \ {0} /\ Field \in Nat \ {0}
      /\ Field <= Reserve
  BY Constants
<1>2. /\ n \in Nat \ {0} /\ active \in Nat /\ length + Reserve + 1 <= active
      /\ p \in 0 .. active - 1
  BY <1>0, <1>1, CountBounds
<1>3. /\ NBlocks(c.family, c.width) * Block \in Nat
      /\ p \in 0 .. NBlocks(c.family, c.width) * Block - 1
  <2>. DEFINE w == NBlocks(c.family, c.width)
  <2>1. w \in Nat /\ n <= w
    BY <1>0, CountBounds, CountGrows
  <2>. HIDE DEF n, w
  <2>2. n * Block <= w * Block /\ w * Block \in Nat
    BY <1>1, <1>2, <2>1
  <2>. QED
    BY <1>2, <2>2 DEF w
<1>4. ASSUME p < length
      PROVE  Content(c)[p] = Msg(p) /\ Keyed(c)[p] = Msg(p)
  <2>1. BitLength!Clip(p, 0, c.width - 1) = p
    BY <1>0, <1>2, <1>4 DEF BitLength!Clip
  <2>2. Content(c)[p] = Buffer(c)[p]
    BY <1>3, <2>1 DEF Content
  <2>3. Buffer(c)[p] = Msg(p)
    BY <1>0, <1>2, <1>4 DEF Buffer
  <2>4. Keyed(c) = [q \in 0 .. length - 1 |-> Msg(q)]
    BY <1>0 DEF Keyed
  <2>5. p \in 0 .. length - 1
    BY <1>0, <1>2, <1>4
  <2>. HIDE DEF length, active, n
  <2>. QED
    BY <2>2, <2>3, <2>4, <2>5
<1>5. Region(c) = BitLength!PaddedRegion(Content(c), length, active, field)
  <2>1. c.family = "grostl256" => BlockCount!TrailerField(length) = field
    BY <1>0, FieldsAgree DEF BlockCount!TrailerField, FieldValue, FieldByte,
         BlockCount!FieldByte, BitLength!FieldByte, BlockCount!Zero, BitLength!Zero, Zero
  <2>2. c.family # "grostl256" => BitLength!TrailerField(length) = field
    BY <1>0, FieldsAgree DEF BitLength!TrailerField, FieldValue, FieldByte, Zero
  <2>. HIDE DEF field
  <2>3. \A content, l, a, b :
          BlockCount!PaddedRegion(content, l, a, b) = BitLength!PaddedRegion(content, l, a, b)
    BY DEF BlockCount!PaddedRegion, BitLength!PaddedRegion, BlockCount!Mark, BitLength!Mark,
           BlockCount!Zero, BitLength!Zero, BlockCount!Clip, BitLength!Clip
  <2>. QED
    BY <2>1, <2>2, <2>3 DEF Region
<1>6. Region(c)[p] = IF p < length THEN Content(c)[p]
                     ELSE IF p = length THEN Mark
                     ELSE IF p >= start
                            THEN field[BitLength!Clip(p - start, 0, Reserve - 1)]
                     ELSE Zero
  <2>1. DOMAIN Content(c) = 0 .. NBlocks(c.family, c.width) * Block - 1
    BY DEF Content
  <2>. HIDE DEF field, active
  <2>. QED
    BY <1>2, <1>3, <1>5, <2>1 DEF BitLength!PaddedRegion, Mark, Zero
<1>7. ASSUME p >= start
      PROVE  field[BitLength!Clip(p - start, 0, Reserve - 1)] =
               IF p < active - Field THEN Zero
               ELSE FieldByte(value, p - (active - Field))
  <2>. DEFINE j == p - start
  <2>. HIDE DEF active
  <2>1. /\ j \in 0 .. Reserve - 1
        /\ (j < Reserve - Field) <=> (p < active - Field)
        /\ j - (Reserve - Field) = p - (active - Field)
    BY <1>1, <1>2, <1>7
  <2>. HIDE DEF j, value
  <2>2. BitLength!Clip(j, 0, Reserve - 1) = j
    BY <1>1, <2>1 DEF BitLength!Clip
  <2>. QED
    BY <2>1, <2>2 DEF j
<1>8. ASSUME p >= length
      PROVE  HostByte(c.family, Keyed(c), length, p) =
               IF p >= active - Field THEN FieldByte(value, p - (active - Field))
               ELSE IF p = length THEN Mark
               ELSE Zero
  <2>1. HostByte(c.family, Keyed(c), length, p) = TailByte(c.family, length, p - length)
    BY <1>0, <1>2, <1>8 DEF HostByte
  <2>2. TailByte(c.family, length, p - length) =
          IF p - length >= (active - length) - Field
            THEN FieldByte(value, (p - length) - ((active - length) - Field))
          ELSE IF p - length = 0 THEN Mark
          ELSE Zero
    BY <1>0 DEF TailByte
  <2>. HIDE DEF active, value
  <2>3. /\ (p - length >= (active - length) - Field) <=> (p >= active - Field)
        /\ (p - length) - ((active - length) - Field) = p - (active - Field)
        /\ (p - length = 0) <=> (p = length)
    BY <1>0, <1>1, <1>2
  <2>. QED
    BY <2>1, <2>2, <2>3
<1>. HIDE DEF active, value, field
<1>9. /\ p \in Int /\ start \in Int /\ active - Field \in Int
      /\ start <= active - Field /\ length < start
  BY <1>0, <1>1, <1>2
<1>10. CASE p < length
  BY <1>4, <1>6, <1>10 DEF HostByte
<1>11. CASE p = length
  BY <1>0, <1>6, <1>8, <1>9, <1>11
<1>12. CASE p > length /\ p >= start
  BY <1>0, <1>6, <1>7, <1>8, <1>9, <1>12
<1>13. CASE p > length /\ p < start
  BY <1>0, <1>6, <1>8, <1>9, <1>13
<1>. QED
  BY <1>0, <1>9, <1>10, <1>11, <1>12, <1>13

(* A live block of a walk is the block the standard folds.                 *)
LEMMA LiveBlock ==
  ASSUME NEW c \in Requests, NEW i \in 0 .. NBlocks(c.family, Total(c)) - 1
  PROVE  BlockOf(c, i) = HostBlocks(c.family, Keyed(c), Total(c))[i + 1]
<1>1. CASE c.form = "bytes"
  <2>. DEFINE n == NBlocks(c.family, c.length)
              message == Keyed(c)
  <2>1. /\ c.family \in Families /\ c.length \in Nat /\ c.keylen = 0
        /\ c.family \notin Blake2
    BY <1>1 DEF Requests, Blake2
  <2>2. Total(c) = c.length
    BY <2>1 DEF Total
  <2>3. n \in Nat /\ i \in 0 .. n - 1 /\ i + 1 \in 1 .. n /\ (i + 1) - 1 = i
    BY <2>1, <2>2, CountBounds
  <2>4. Block \in Nat \ {0}
    BY Constants
  <2>5. BlockOf(c, i) = [j \in 0 .. Block - 1 |-> Region(c)[i * Block + j]]
    BY <1>1 DEF BlockOf, BitLength!BlockAt
  <2>6. HostBlocks(c.family, message, c.length)[i + 1] =
          [j \in 0 .. Block - 1 |-> HostByte(c.family, message, c.length, i * Block + j)]
    <3>. HIDE DEF message, n
    <3>1. HostBlocks(c.family, message, c.length) =
            [k \in 1 .. n |-> HostRow(c.family, message, c.length, k)]
      BY <2>1, HostBlockBytes DEF n
    <3>2. HostBlocks(c.family, message, c.length)[i + 1]
            = HostRow(c.family, message, c.length, i + 1)
      BY <2>3, <3>1
    <3>. QED
      BY <2>3, <3>2 DEF HostRow
  <2>7. ASSUME NEW j \in 0 .. Block - 1
        PROVE  Region(c)[i * Block + j] = HostByte(c.family, message, c.length, i * Block + j)
    <3>1. i * Block + j \in 0 .. n * Block - 1
      <4>. HIDE DEF n
      <4>. QED
        BY <2>3, <2>4, ByteOfBlocks
    <3>. QED
      BY <1>1, <3>1, RegionBytes
  <2>. QED
    BY <2>2, <2>5, <2>6, <2>7
<1>2. CASE c.form # "bytes"
  BY <1>2 DEF BlockOf
<1>. QED
  BY <1>1, <1>2

(* So is its counter, when its trace has the count and the length.         *)
LEMMA LiveCounter ==
  ASSUME NEW family \in Blake2, NEW total \in Nat, NEW i \in 0 .. NBlocks(family, total) - 1
  PROVE  Haifa!HaifaCounter(i, NBlocks(family, total), total) =
           StandardCounter(total, i, NBlocks(family, total))
<1>. DEFINE n == NBlocks(family, total)
<1>1. /\ n \in Nat \ {0} /\ total <= n * Block
      /\ (n - 1) * Block < total \/ (total = 0 /\ n = 1)
  <2>1. family \in Families
    BY DEF Families
  <2>. QED
    BY <2>1, CountBounds
<1>2. Block \in Nat \ {0}
  BY Constants
<1>. HIDE DEF n
<1>3. CASE i = n - 1
  <2>1. i + 1 = n
    BY <1>1, <1>3
  <2>2. ~((i + 1) * Block < total)
    BY <1>1, <1>2, <2>1
  <2>. QED
    BY <1>3, <2>2 DEF Haifa!HaifaCounter, StandardCounter, n
<1>4. CASE i # n - 1
  <2>1. i \in Nat /\ i + 1 <= n - 1
    BY <1>1, <1>4 DEF n
  <2>2. (i + 1) * Block <= (n - 1) * Block
    BY <1>1, <1>2, <2>1
  <2>3. (i + 1) * Block < total
    BY <1>1, <1>2, <2>1, <2>2
  <2>. QED
    BY <1>4, <2>3 DEF Haifa!HaifaCounter, StandardCounter, n
<1>. QED
  BY <1>3, <1>4

----------------------------------------------------------------------------
(* Traces: a key determines all that its walk reads.                       *)
LEMMA TraceFits ==
  ASSUME NEW c \in Requests, NEW d \in Requests, TraceKey(c) = TraceKey(d)
  PROVE  /\ Traced(c).count = Traced(d).count
         /\ c.family \in Blake2 => Traced(c).length = Traced(d).length
<1>1. /\ c.family \in Families /\ d.family \in Families
      /\ c.form \in {"bytes", "blocks", "tail"} /\ d.form \in {"bytes", "blocks", "tail"}
  BY DEF Requests
<1>2. ZoneOf(c.family) = ZoneOf(d.family) /\ c.form = d.form
  BY DEF TraceKey
<1>3. (c.family \in Blake2) <=> (d.family \in Blake2)
  BY <1>1, <1>2 DEF ZoneOf, Families, BitLengths, Sha512s, Blake2
<1>4. \A n : NBlocks(c.family, n) = NBlocks(d.family, n)
  BY <1>1, <1>3, CountOfFamily
<1>5. CASE c.form = "bytes"
  <2>1. c.family \notin Blake2 /\ c.width = d.width
    BY <1>2, <1>5 DEF TraceKey, Requests, Blake2
  <2>. QED
    BY <1>2, <1>4, <1>5, <2>1 DEF Traced
<1>6. CASE c.form = "blocks"
  <2>1. /\ c.family \notin Blake2 /\ d.family \notin Blake2
        /\ NBlocks(c.family, c.length) = NBlocks(d.family, d.length)
    BY <1>2, <1>3, <1>6 DEF TraceKey, Requests, BitLengths, Sha512s, Blake2
  <2>2. Total(c) = c.length /\ Total(d) = d.length
    BY <2>1 DEF Total, Requests
  <2>. QED
    BY <1>2, <1>6, <2>1, <2>2 DEF Traced
<1>7. CASE c.form = "tail"
  <2>1. Total(c) = Total(d)
    BY <1>2, <1>7 DEF TraceKey
  <2>. QED
    BY <1>2, <1>4, <1>7, <2>1 DEF Traced
<1>. QED
  BY <1>1, <1>5, <1>6, <1>7

----------------------------------------------------------------------------
(* The invariant: the call in progress is a request walked as far as its   *)
(* index, its folded blocks the live ones so far; every trace is of some   *)
(* request; and what was returned is the digest of one.                    *)

StandardOf(c) == Standard(c.family, c.keylen, c.length)

LiveCount(c) == NBlocks(c.family, Total(c))

Prefix(s, m) == [j \in 1 .. m |-> s[j]]

Lesser(m, n) == IF m <= n THEN m ELSE n

Walk(c, k) ==
  [c EXCEPT !.i = k, !.folded = Prefix(StandardOf(c), Lesser(k, LiveCount(c)))]

DigestOf(c) ==
  [kind |-> "digest", family |-> c.family, size |-> c.size, keylen |-> c.keylen,
   length |-> c.length, start |-> InitialState(c), folded |-> StandardOf(c)]

Walking ==
  \E c \in Requests : \E k \in 0 .. Traced(c).count :
    call = Walk(c, k) /\ TraceKey(c) \in DOMAIN traces

OfRequest(k, trace) == \E c \in Requests : k = TraceKey(c) /\ trace = Traced(c)

Finished(r) == r \in {Idle, ValueError} \/ \E c \in Requests : r = DigestOf(c)

IInv ==
  /\ call = Idle \/ Walking
  /\ \A k \in DOMAIN traces : OfRequest(k, traces[k])
  /\ Finished(result)
  /\ Finished(earlier)
  /\ calls \in 0 .. MaxCalls

(* What a request asks, that a walk of it keeps.                           *)
LEMMA RequestFields ==
  ASSUME NEW c \in Requests
  PROVE  /\ c.kind = "call" /\ c.family \in Families
         /\ c.form \in {"bytes", "blocks", "tail"}
         /\ c.size \in Nat /\ c.keylen \in Nat /\ c.length \in Nat /\ c.width \in Nat
         /\ Total(c) \in Nat /\ c.length <= Total(c)
         /\ c.length <= c.width
         /\ c.family \notin Blake2 => c.size = 0 /\ c.keylen = 0
BY Constants DEF Requests, Total

(* A walk keeps the fields of its request.                                 *)
LEMMA WalkFields ==
  ASSUME NEW c \in Requests, NEW k
  PROVE  /\ Walk(c, k).kind = "call"
         /\ Walk(c, k).family = c.family /\ Walk(c, k).form = c.form
         /\ Walk(c, k).size = c.size /\ Walk(c, k).keylen = c.keylen
         /\ Walk(c, k).length = c.length /\ Walk(c, k).width = c.width
         /\ Walk(c, k).own = c.own /\ Walk(c, k).i = k
         /\ Walk(c, k).folded = Prefix(StandardOf(c), Lesser(k, LiveCount(c)))
BY DEF Walk, Requests

(* A walk asks what its request asks.                                      *)
LEMMA WalkReads ==
  ASSUME NEW c \in Requests, NEW k
  PROVE  /\ TraceKey(Walk(c, k)) = TraceKey(c)
         /\ InitialState(Walk(c, k)) = InitialState(c)
         /\ Live(Walk(c, k)) = (c.form = "bytes" => k < NBlocks(c.family, c.length))
         /\ \A j : BlockOf(Walk(c, k), j) = BlockOf(c, j)
<1>. DEFINE w == Walk(c, k)
<1>1. /\ w.family = c.family /\ w.form = c.form /\ w.size = c.size
      /\ w.keylen = c.keylen /\ w.length = c.length /\ w.width = c.width
      /\ w.own = c.own /\ w.i = k
  BY WalkFields
<1>. HIDE DEF w
<1>2. Total(w) = Total(c) /\ Keyed(w) = Keyed(c)
  BY <1>1 DEF Total, Keyed
<1>3. Region(w) = Region(c)
  <2>1. Buffer(w) = Buffer(c)
    BY <1>1 DEF Buffer
  <2>2. Content(w) = Content(c)
    BY <1>1, <2>1 DEF Content
  <2>. QED
    BY <1>1, <2>2 DEF Region
<1>4. TraceKey(w) = TraceKey(c)
  BY <1>1, <1>2 DEF TraceKey
<1>5. InitialState(w) = InitialState(c)
  BY <1>1 DEF InitialState
<1>6. Live(w) = (c.form = "bytes" => k < NBlocks(c.family, c.length))
  BY <1>1 DEF Live
<1>7. \A j : BlockOf(w, j) = BlockOf(c, j)
  BY <1>1, <1>2, <1>3 DEF BlockOf
<1>. QED
  BY <1>4, <1>5, <1>6, <1>7 DEF w

(* What the standard folds, block by block.                                *)
LEMMA StandardBlocks ==
  ASSUME NEW c \in Requests
  PROVE  /\ LiveCount(c) \in Nat \ {0}
         /\ StandardOf(c) =
              [j \in 1 .. LiveCount(c) |->
                 <<HostBlocks(c.family, Keyed(c), Total(c))[j],
                   IF c.family \in Blake2
                     THEN StandardCounter(Total(c), j - 1, LiveCount(c)) ELSE <<>> >>]
<1>. DEFINE d      == Call(c.family, "tail", 0, c.keylen, c.length, c.length, FALSE)
            blocks == HostBlocks(c.family, Keyed(c), Total(c))
            n      == LiveCount(c)
<1>1. Keyed(d) = Keyed(c) /\ Total(d) = Total(c)
  BY DEF Call, Keyed, Total
<1>2. c.family \in Families /\ Total(c) \in Nat
  BY RequestFields
<1>3. n \in Nat \ {0}
  BY <1>2, CountBounds DEF LiveCount
<1>4. Len(blocks) = n
  <2>. DEFINE message == Keyed(c)
              total   == Total(c)
              block(j) == HostRow(c.family, message, total, j)
  <2>1. total \in Nat
    BY <1>2
  <2>. HIDE DEF message, total
  <2>2. HostBlocks(c.family, message, total) = [j \in 1 .. NBlocks(c.family, total) |-> block(j)]
    BY <1>2, <2>1, HostBlockBytes
  <2>3. blocks = [j \in 1 .. n |-> block(j)]
    BY <2>2 DEF LiveCount, message, total
  <2>. HIDE DEF block, n, blocks
  <2>. QED
    BY <1>3, <2>3
<1>5. StandardOf(c) =
        LET hb == HostBlocks(c.family, Keyed(d), Total(d))
            m  == Len(hb)
        IN  [j \in 1 .. m |->
               <<hb[j], IF c.family \in Blake2 THEN StandardCounter(Total(d), j - 1, m)
                                               ELSE <<>> >>]
  BY DEF StandardOf, Standard
<1>. HIDE DEF d, n
<1>6. StandardOf(c) =
        [j \in 1 .. n |->
           <<blocks[j], IF c.family \in Blake2 THEN StandardCounter(Total(c), j - 1, n)
                                               ELSE <<>> >>]
  BY <1>1, <1>4, <1>5
<1>. QED
  BY <1>3, <1>6 DEF n

----------------------------------------------------------------------------
(* The steps.                                                              *)

(* A prefix grows by the element it did not have.                          *)
LEMMA PrefixGrows ==
  ASSUME NEW s, NEW m \in Nat
  PROVE  Append(Prefix(s, m), s[m + 1]) = Prefix(s, m + 1)
<1>. DEFINE p == Prefix(s, m)
<1>1. p = [j \in 1 .. m |-> s[j]]
  BY DEF Prefix
<1>2. Tabulated(p, m)
  BY <1>1 DEF Tabulated
<1>3. \A j \in 1 .. m : p[j] = s[j]
  BY <1>1
<1>. DEFINE x == s[m + 1]
<1>. HIDE DEF p, x
<1>4. Append(p, x) = [j \in 1 .. m + 1 |-> IF j <= m THEN p[j] ELSE x]
  BY <1>2, AppendTabulated
<1>5. \A j \in 1 .. m + 1 : (IF j <= m THEN p[j] ELSE x) = s[j]
  BY <1>3 DEF x
<1>6. Append(p, x) = Prefix(s, m + 1)
  BY <1>4, <1>5 DEF Prefix
<1>. QED
  BY <1>6 DEF p, x

(* A trace unrolls at least the live blocks, and a static one no more.     *)
LEMMA TracedCount ==
  ASSUME NEW c \in Requests
  PROVE  /\ Traced(c).count \in Nat \ {0} /\ Traced(c).length = Total(c)
         /\ LiveCount(c) <= Traced(c).count
         /\ c.form # "bytes" => Traced(c).count = LiveCount(c)
         /\ c.form = "bytes" => LiveCount(c) = NBlocks(c.family, c.length)
<1>1. /\ c.family \in Families /\ c.length \in Nat /\ c.width \in Nat /\ Total(c) \in Nat
      /\ c.length <= c.width
  BY RequestFields
<1>2. CASE c.form = "bytes"
  <2>1. c.family \notin Blake2 /\ c.keylen = 0
    BY <1>2 DEF Requests, Blake2
  <2>2. Total(c) = c.length
    BY <1>1, <2>1 DEF Total
  <2>3. Traced(c).count = NBlocks(c.family, c.width) /\ Traced(c).length = Total(c)
    BY <1>2 DEF Traced
  <2>4. NBlocks(c.family, c.length) <= NBlocks(c.family, c.width)
    BY <1>1, <2>1, CountGrows
  <2>5. NBlocks(c.family, c.width) \in Nat \ {0}
    BY <1>1, CountBounds
  <2>. QED
    BY <1>2, <2>2, <2>3, <2>4, <2>5 DEF LiveCount
<1>3. CASE c.form # "bytes"
  <2>1. Traced(c).count = NBlocks(c.family, Total(c)) /\ Traced(c).length = Total(c)
    BY <1>3 DEF Traced
  <2>2. NBlocks(c.family, Total(c)) \in Nat \ {0}
    BY <1>1, CountBounds
  <2>. QED
    BY <1>3, <2>1, <2>2 DEF LiveCount
<1>. QED
  BY <1>2, <1>3

(* A walk in progress: its request, its place, and the trace it runs in.   *)
LEMMA WalkInProgress ==
  ASSUME IInv, call.kind = "call"
  PROVE  \E c \in Requests : \E k \in 0 .. Traced(c).count :
           /\ call = Walk(c, k) /\ call.i = k
           /\ TraceKey(call) = TraceKey(c) /\ TraceKey(c) \in DOMAIN traces
           /\ Trace(call).count = Traced(c).count
           /\ c.family \in Blake2 => Trace(call).length = Total(c)
<1>1. call # Idle
  BY DEF Idle
<1>2. PICK c \in Requests : \E k \in 0 .. Traced(c).count :
        call = Walk(c, k) /\ TraceKey(c) \in DOMAIN traces
  BY <1>1 DEF IInv, Walking
<1>3. PICK k \in 0 .. Traced(c).count :
        call = Walk(c, k) /\ TraceKey(c) \in DOMAIN traces
  BY <1>2
<1>4. TraceKey(call) = TraceKey(c)
  BY <1>3, WalkReads
<1>5. PICK d \in Requests : TraceKey(c) = TraceKey(d) /\ traces[TraceKey(c)] = Traced(d)
  BY <1>3 DEF IInv, OfRequest
<1>6. Trace(call) = Traced(d)
  BY <1>4, <1>5 DEF Trace
<1>7. /\ Traced(c).count = Traced(d).count
      /\ c.family \in Blake2 => Traced(c).length = Traced(d).length
  BY <1>5, TraceFits
<1>8. Traced(c).length = Total(c)
  BY TracedCount
<1>9. call.i = k
  BY <1>3, WalkFields
<1>. QED
  BY <1>3, <1>4, <1>6, <1>7, <1>8, <1>9

(* What a step leaves of what it does not touch.                           *)
LEMMA TracesKept ==
  ASSUME IInv, traces' = traces
  PROVE  (\A k \in DOMAIN traces : OfRequest(k, traces[k]))'
BY DEF IInv, OfRequest

(* One block of the walk keeps the invariant.                              *)
LEMMA CompressHolds ==
  ASSUME IInv, Compress
  PROVE  IInv'
<1>0. call.kind = "call" /\ call.i < Trace(call).count
  BY DEF Compress
<1>1. PICK c \in Requests : \E k \in 0 .. Traced(c).count :
           /\ call = Walk(c, k) /\ call.i = k
           /\ TraceKey(call) = TraceKey(c) /\ TraceKey(c) \in DOMAIN traces
           /\ Trace(call).count = Traced(c).count
           /\ c.family \in Blake2 => Trace(call).length = Total(c)
  BY <1>0, WalkInProgress
<1>2. PICK k \in 0 .. Traced(c).count :
           /\ call = Walk(c, k) /\ call.i = k
           /\ TraceKey(call) = TraceKey(c) /\ TraceKey(c) \in DOMAIN traces
           /\ Trace(call).count = Traced(c).count
           /\ c.family \in Blake2 => Trace(call).length = Total(c)
  BY <1>1
<1>. DEFINE n == LiveCount(c)
            s == StandardOf(c)
<1>3. /\ n \in Nat \ {0} /\ Traced(c).count \in Nat /\ n <= Traced(c).count
      /\ c.form # "bytes" => Traced(c).count = n
      /\ c.form = "bytes" => n = NBlocks(c.family, c.length)
  BY TracedCount, StandardBlocks
<1>4. k \in Nat /\ k < Traced(c).count /\ k + 1 \in 0 .. Traced(c).count
  BY <1>0, <1>2, <1>3
<1>5. Live(call) <=> k < n
  <2>1. Live(call) = (c.form = "bytes" => k < NBlocks(c.family, c.length))
    BY <1>2, WalkReads
  <2>. QED
    BY <1>3, <1>4, <2>1
<1>6. call.folded = Prefix(s, Lesser(k, n))
  BY <1>2, WalkFields
<1>7. ASSUME k < n
      PROVE  <<BlockOf(call, call.i), Counter(call)>> = s[k + 1]
  <2>1. k \in 0 .. n - 1 /\ k + 1 \in 1 .. n /\ (k + 1) - 1 = k
    BY <1>3, <1>4, <1>7
  <2>2. BlockOf(call, call.i) = HostBlocks(c.family, Keyed(c), Total(c))[k + 1]
    <3>1. BlockOf(call, k) = BlockOf(c, k)
      BY <1>2, WalkReads
    <3>2. BlockOf(c, k) = HostBlocks(c.family, Keyed(c), Total(c))[k + 1]
      BY <2>1, LiveBlock DEF LiveCount
    <3>. QED
      BY <1>2, <3>1, <3>2
  <2>3. Counter(call) = IF c.family \in Blake2 THEN StandardCounter(Total(c), k, n)
                                               ELSE <<>>
    <3>1. call.family = c.family
      BY <1>2, WalkFields
    <3>2. ASSUME c.family \in Blake2
          PROVE  Counter(call) = StandardCounter(Total(c), k, n)
      <4>1. c.form # "bytes"
        BY <3>2 DEF Requests, Blake2
      <4>2. Counter(call) = Haifa!HaifaCounter(k, n, Total(c))
        BY <1>2, <1>3, <3>1, <3>2, <4>1 DEF Counter
      <4>3. Total(c) \in Nat
        BY RequestFields
      <4>. QED
        BY <2>1, <3>2, <4>2, <4>3, LiveCounter DEF LiveCount
    <3>3. ASSUME c.family \notin Blake2
          PROVE  Counter(call) = <<>>
      BY <3>1, <3>3 DEF Counter
    <3>. QED
      BY <3>2, <3>3
  <2>4. s[k + 1] = <<HostBlocks(c.family, Keyed(c), Total(c))[k + 1],
                     IF c.family \in Blake2 THEN StandardCounter(Total(c), k, n) ELSE <<>> >>
    <3>1. s = [j \in 1 .. n |->
                 <<HostBlocks(c.family, Keyed(c), Total(c))[j],
                   IF c.family \in Blake2 THEN StandardCounter(Total(c), j - 1, n) ELSE <<>> >>]
      BY StandardBlocks
    <3>. HIDE DEF n, s
    <3>. QED
      BY <2>1, <3>1
  <2>. QED
    BY <2>2, <2>3, <2>4
<1>8. call' = [call EXCEPT !.i = k + 1, !.folded = Prefix(s, Lesser(k + 1, n))]
  <2>1. call' = [call EXCEPT !.i = call.i + 1,
                   !.folded = IF Live(call)
                                THEN Append(call.folded, <<BlockOf(call, call.i), Counter(call)>>)
                                ELSE call.folded]
    <3>1. call = [c EXCEPT !.i = k, !.folded = Prefix(s, Lesser(k, n))]
      BY <1>2 DEF Walk
    <3>2. call' = [call EXCEPT
            !.i = @ + 1,
            !.folded = IF Live(call) THEN Append(@, <<BlockOf(call, call.i), Counter(call)>>)
                                     ELSE @]
      BY DEF Compress
    <3>. QED
      BY <3>2
  <2>. HIDE DEF n, s
  <2>2. CASE k < n
    <3>1. Lesser(k, n) = k /\ Lesser(k + 1, n) = k + 1
      BY <1>3, <1>4, <2>2 DEF Lesser
    <3>2. Append(Prefix(s, k), s[k + 1]) = Prefix(s, k + 1)
      BY <1>4, PrefixGrows
    <3>. QED
      BY <1>2, <1>5, <1>6, <1>7, <2>1, <2>2, <3>1, <3>2
  <2>3. CASE ~(k < n)
    <3>1. Lesser(k + 1, n) = n /\ Lesser(k, n) = n
      BY <1>3, <1>4, <2>3 DEF Lesser
    <3>. QED
      BY <1>2, <1>5, <1>6, <2>1, <2>3, <3>1
  <2>. QED
    BY <2>2, <2>3
<1>9. call' = Walk(c, k + 1)
  <2>. HIDE DEF n, s
  <2>1. call = [c EXCEPT !.i = k, !.folded = Prefix(s, Lesser(k, n))]
    BY <1>2 DEF Walk, n, s
  <2>. QED
    BY <1>8, <2>1 DEF Walk, n, s, Requests
<1>10. Walking'
  BY <1>2, <1>4, <1>9 DEF Walking, Compress
<1>11. UNCHANGED <<traces, result, earlier, calls>>
  BY DEF Compress
<1>. QED
  BY <1>10, <1>11, TracesKept DEF IInv, Finished

(* The last block behind it, a walk has folded what the standard folds.    *)
LEMMA ReturnHolds ==
  ASSUME IInv, Return
  PROVE  IInv'
<1>0. call.kind = "call" /\ call.i = Trace(call).count
  BY DEF Return
<1>1. PICK c \in Requests : \E k \in 0 .. Traced(c).count :
           /\ call = Walk(c, k) /\ call.i = k
           /\ TraceKey(call) = TraceKey(c) /\ TraceKey(c) \in DOMAIN traces
           /\ Trace(call).count = Traced(c).count
           /\ c.family \in Blake2 => Trace(call).length = Total(c)
  BY <1>0, WalkInProgress
<1>. DEFINE n == LiveCount(c)
            s == StandardOf(c)
            k == Traced(c).count
<1>2. call = Walk(c, k)
  BY <1>0, <1>1
<1>3. n \in Nat /\ k \in Nat /\ n <= k
  BY TracedCount, StandardBlocks
<1>4. Prefix(s, Lesser(k, n)) = s
  <2>1. Lesser(k, n) = n
    <3>. HIDE DEF n, k
    <3>. QED
      BY <1>3 DEF Lesser
  <2>2. s = [j \in 1 .. n |->
               <<HostBlocks(c.family, Keyed(c), Total(c))[j],
                 IF c.family \in Blake2 THEN StandardCounter(Total(c), j - 1, n) ELSE <<>> >>]
    BY StandardBlocks
  <2>3. s = [j \in 1 .. n |-> s[j]]
    BY <2>2
  <2>. QED
    BY <2>1, <2>3 DEF Prefix
<1>5. result' = DigestOf(c)
  <2>1. /\ call.family = c.family /\ call.size = c.size /\ call.keylen = c.keylen
        /\ call.length = c.length /\ call.folded = s
    BY <1>2, <1>4, WalkFields
  <2>2. InitialState(call) = InitialState(c)
    BY <1>2, WalkReads
  <2>. QED
    BY <2>1, <2>2 DEF Return, DigestOf
<1>6. Finished(result)' /\ Finished(earlier)'
  <2>1. earlier' = result /\ Finished(result)
    BY DEF Return, IInv
  <2>. QED
    BY <1>5, <2>1 DEF Finished
<1>7. call' = Idle /\ UNCHANGED <<traces, calls>>
  BY DEF Return
<1>. QED
  BY <1>6, <1>7, TracesKept DEF IInv

(* A request is a walk of no steps.                                        *)
LEMMA WalkStarts ==
  ASSUME NEW c \in Requests
  PROVE  c = Walk(c, 0)
<1>1. Prefix(StandardOf(c), Lesser(0, LiveCount(c))) = <<>>
  <2>1. LiveCount(c) \in Nat
    BY StandardBlocks
  <2>2. Lesser(0, LiveCount(c)) = 0
    BY <2>1 DEF Lesser
  <2>. QED
    BY <2>2 DEF Prefix
<1>2. c.i = 0 /\ c.folded = <<>>
  BY DEF Requests
<1>. QED
  BY <1>1, <1>2 DEF Walk, Requests

(* Making a request keeps it: a trace found is one of this key's.          *)
LEMMA StartHolds ==
  ASSUME IInv, NEW c \in Requests, Start(c)
  PROVE  IInv'
<1>1. /\ calls < MaxCalls /\ call' = c /\ calls' = calls + 1
      /\ traces' = [k \in DOMAIN traces \cup {TraceKey(c)} |->
                      IF k \in DOMAIN traces THEN traces[k] ELSE Traced(c)]
      /\ UNCHANGED <<result, earlier>>
  BY DEF Start
<1>2. Walking'
  <2>1. 0 \in 0 .. Traced(c).count
    BY TracedCount
  <2>2. TraceKey(c) \in DOMAIN traces'
    BY <1>1
  <2>3. call' = Walk(c, 0)
    BY <1>1, WalkStarts
  <2>. QED
    BY <2>1, <2>2, <2>3 DEF Walking
<1>3. (\A k \in DOMAIN traces : OfRequest(k, traces[k]))'
  <2>. SUFFICES ASSUME NEW k \in DOMAIN traces'
                PROVE  OfRequest(k, traces'[k])
    BY DEF OfRequest
  <2>1. CASE k \in DOMAIN traces
    <3>1. traces'[k] = traces[k]
      BY <1>1, <2>1
    <3>. QED
      BY <2>1, <3>1 DEF IInv
  <2>2. CASE k \notin DOMAIN traces
    <3>1. k = TraceKey(c) /\ traces'[k] = Traced(c)
      BY <1>1, <2>2
    <3>. QED
      BY <3>1 DEF OfRequest
  <2>. QED
    BY <2>1, <2>2
<1>4. calls' \in 0 .. MaxCalls
  BY <1>1, Constants DEF IInv
<1>. QED
  BY <1>1, <1>2, <1>3, <1>4 DEF IInv, Finished

(* Every front end makes a request.                                        *)
LEMMA BytesRequest ==
  ASSUME NEW family \in {"sha256", "grostl256"}, NEW length \in Nat, NEW width \in Nat,
         NEW own \in BOOLEAN, width >= 1, length <= width, length < Word \div 2
  PROVE  Call(family, "bytes", 0, 0, length, width, own) \in Requests
BY DEF Call, Requests, Families, BitLengths, Blake2

(* A whole-message call of a live length is a request.                     *)
LEMMA BlocksRequest ==
  ASSUME NEW family \in BitLengths \ {"ripemd160"}, NEW length \in Nat, length < Word \div 2
  PROVE  Call(family, "blocks", 0, 0, length, length, FALSE) \in Requests
BY DEF Call, Requests, Families, BitLengths, Sha512s, Blake2

(* So is a tail call of RIPEMD-160 or of BLAKE2, keyed or not.             *)
LEMMA TailRequest ==
  ASSUME NEW length \in Nat, length < Word \div 2
  PROVE  /\ Call("ripemd160", "tail", 0, 0, length, length, FALSE) \in Requests
         /\ \A family \in Blake2, size \in Nat, keylen \in Nat :
              Call(family, "tail", size, keylen, length, length, FALSE) \in Requests
BY DEF Call, Requests, Families, BitLengths, Sha512s, Blake2

(* Every step keeps the invariant.                                         *)
LEMMA NextHolds ==
  ASSUME IInv, [Next]_vars
  PROVE  IInv'
<1>0. /\ \A length \in 0 .. MaxLength : length \in Nat /\ length < Word \div 2
      /\ \A width \in 0 .. MaxWidth : width \in Nat /\ width < Word \div 2
  BY Constants, WidthAssumption
<1>1. ASSUME NEW length \in 0 .. MaxLength, NEW family \in {"sha256", "grostl256"},
             HostDigest(family, length) \/ DeviceDigest(family, length)
      PROVE  IInv'
  <2>1. /\ HostWidth(length) \in Nat /\ HostWidth(length) >= 1 /\ length <= HostWidth(length)
    BY <1>0, HostWidths
  <2>2. /\ DeviceWidth(length) \in Nat /\ DeviceWidth(length) >= 1
        /\ length <= DeviceWidth(length)
    BY <1>0 DEF DeviceWidth
  <2>3. ASSUME NEW width \in Nat, width >= 1, length <= width,
               Start(Call(family, "bytes", 0, 0, length, width, FALSE))
        PROVE  IInv'
    BY <1>0, <2>3, BytesRequest, StartHolds
  <2>. QED
    BY <1>1, <2>1, <2>2, <2>3 DEF HostDigest, DeviceDigest
<1>2. ASSUME NEW length \in 0 .. MaxLength, NEW family \in BitLengths \ {"ripemd160"},
             BlocksDigest(family, length)
      PROVE  IInv'
  BY <1>0, <1>2, BlocksRequest, StartHolds DEF BlocksDigest
<1>3. ASSUME NEW length \in 0 .. MaxLength, TailDigest(length)
      PROVE  IInv'
  <2>1. Call("ripemd160", "tail", 0, 0, length, length, FALSE) \in Requests
    BY <1>0, TailRequest
  <2>. QED
    BY <1>3, <2>1, StartHolds DEF TailDigest
<1>4. ASSUME NEW length \in 0 .. MaxLength, NEW size \in 1 .. 2, NEW keylen \in 0 .. 2,
             Blake2bDigest(size, keylen, length) \/ Blake2sDigest(size, keylen, length)
      PROVE  IInv'
  <2>1. ASSUME NEW family \in Blake2
        PROVE  Call(family, "tail", size, keylen, length, length, FALSE) \in Requests
    <3>1. size \in Nat /\ keylen \in Nat
      OBVIOUS
    <3>. QED
      BY <1>0, <3>1, TailRequest
  <2>2. "blake2b" \in Blake2 /\ "blake2s" \in Blake2
    BY DEF Blake2
  <2>. QED
    BY <1>4, <2>1, <2>2, StartHolds DEF Blake2bDigest, Blake2sDigest
<1>5. ASSUME NEW family \in {"sha256", "grostl256"}, NEW width \in 0 .. MaxWidth,
             NEW length \in 0 .. width, BufferDigest(family, width, length)
      PROVE  IInv'
  <2>1. width \in Nat /\ width >= 1 /\ length \in Nat /\ length <= width
        /\ length < Word \div 2
    BY <1>0, <1>5, Constants DEF BufferDigest
  <2>2. Call(family, "bytes", 0, 0, length, width, TRUE) \in Requests
    BY <2>1, BytesRequest
  <2>. QED
    BY <1>5, <2>2, StartHolds DEF BufferDigest
<1>6. ASSUME RejectBuffer
      PROVE  IInv'
  <2>1. /\ result' = ValueError /\ calls' \in 0 .. MaxCalls
        /\ UNCHANGED <<call, traces, earlier>> /\ call = Idle
    BY <1>6, Constants DEF RejectBuffer, IInv
  <2>. QED
    BY <2>1, TracesKept DEF IInv, Finished
<1>7. ASSUME UNCHANGED vars
      PROVE  IInv'
  BY <1>7, TracesKept DEF vars, IInv, Finished, Walking
<1>8. {"sha256", "sha224", "sm3"} \cup Sha512s \subseteq BitLengths \ {"ripemd160"}
  BY DEF BitLengths, Sha512s
<1>9. ASSUME NEW length \in 0 .. MaxLength,
             \/ BlocksDigest("sha256", length) \/ Sha224Digest(length) \/ Sm3Digest(length)
             \/ Sha512Digest(length) \/ Sha384Digest(length)
             \/ Sha512_224Digest(length) \/ Sha512_256Digest(length)
      PROVE  IInv'
  BY <1>2, <1>8, <1>9 DEF Sha224Digest, Sm3Digest, Sha512Digest, Sha384Digest,
                          Sha512_224Digest, Sha512_256Digest, Sha512s
<1>. QED
  BY <1>1, <1>3, <1>4, <1>5, <1>6, <1>7, <1>9, CompressHolds, ReturnHolds DEF Next

(* Every behaviour keeps the invariant.                                    *)
THEOREM InductiveInvariant == Spec => []IInv
<1>1. Init => IInv
  <2>. SUFFICES ASSUME Init
                PROVE  IInv
    OBVIOUS
  <2>1. call = Idle /\ result = Idle /\ earlier = Idle /\ calls = 0 /\ DOMAIN traces = {}
    BY DEF Init
  <2>. QED
    BY <2>1, Constants DEF IInv, Finished
<1>2. IInv /\ [Next]_vars => IInv'
  BY NextHolds
<1>. QED
  BY <1>1, <1>2, PTL DEF Spec

----------------------------------------------------------------------------
(* What follows.                                                           *)

(* Every form of a digest returns the hash of the live message, whichever  *)
(* trace served it.                                                        *)
THEOREM DigestsHashLivePrefix == Spec => []HashesLivePrefix
<1>1. IInv => HashesLivePrefix
  <2>. SUFFICES ASSUME IInv, result.kind = "digest"
                PROVE  result.folded = Standard(result.family, result.keylen, result.length)
    BY DEF HashesLivePrefix
  <2>1. PICK c \in Requests : result = DigestOf(c)
    BY DEF IInv, Finished, Idle, ValueError
  <2>. QED
    BY <2>1 DEF DigestOf, StandardOf
<1>. QED
  BY InductiveInvariant, <1>1, PTL

(* The message's length can be read off what is folded: off the last       *)
(* counter for BLAKE2, off where the mark falls for the others.            *)
LEMMA LengthsApart ==
  ASSUME NEW c \in Requests, NEW d \in Requests, c.family = d.family,
         c.keylen = d.keylen, StandardOf(c) = StandardOf(d)
  PROVE  ~(c.length < d.length)
<1>. DEFINE n == LiveCount(c)
            s == StandardOf(c)
            counter(e, j) == IF e.family \in Blake2
                               THEN StandardCounter(Total(e), j - 1, LiveCount(e)) ELSE <<>>
<1>. SUFFICES ASSUME c.length < d.length
              PROVE  FALSE
  OBVIOUS
<1>0. /\ c.family \in Families /\ c.length \in Nat /\ d.length \in Nat
      /\ c.keylen \in Nat /\ Total(c) \in Nat /\ Total(d) \in Nat
  BY RequestFields
<1>1. /\ n \in Nat \ {0}
      /\ s = [j \in 1 .. n |->
                <<HostBlocks(c.family, Keyed(c), Total(c))[j], counter(c, j)>>]
  BY StandardBlocks
<1>2. /\ LiveCount(d) \in Nat \ {0}
      /\ s = [j \in 1 .. LiveCount(d) |->
                <<HostBlocks(d.family, Keyed(d), Total(d))[j], counter(d, j)>>]
  BY StandardBlocks
<1>. HIDE DEF s
<1>3. LiveCount(d) = n
  <2>1. DOMAIN s = 1 .. n /\ DOMAIN s = 1 .. LiveCount(d)
    BY <1>1, <1>2
  <2>. HIDE DEF n
  <2>. QED
    BY <1>1, <1>2, <2>1
<1>4. ASSUME NEW j \in 1 .. n
      PROVE  /\ HostBlocks(c.family, Keyed(c), Total(c))[j]
                  = HostBlocks(d.family, Keyed(d), Total(d))[j]
             /\ counter(c, j) = counter(d, j)
  <2>. HIDE DEF n, counter
  <2>1. /\ s[j] = <<HostBlocks(c.family, Keyed(c), Total(c))[j], counter(c, j)>>
        /\ s[j] = <<HostBlocks(d.family, Keyed(d), Total(d))[j], counter(d, j)>>
    BY <1>1, <1>2, <1>3
  <2>. QED
    BY <2>1
<1>5. CASE c.family \in Blake2
  <2>1. n \in 1 .. n
    BY <1>1
  <2>2. StandardCounter(Total(c), n - 1, n) = StandardCounter(Total(d), n - 1, n)
    BY <1>3, <1>4, <1>5, <2>1
  <2>3. Total(c) <= n * Block /\ Total(d) <= n * Block
    BY <1>0, <1>3, CountBounds DEF LiveCount
  <2>4. ASSUME NEW t \in Nat, t <= n * Block
        PROVE  StandardCounter(t, n - 1, n) = <<t, TRUE>>
    <3>1. (n - 1) + 1 = n /\ n * Block \in Nat
      BY <1>1, Constants
    <3>2. ~(n * Block < t)
      BY <2>4, <3>1
    <3>. QED
      BY <3>1, <3>2 DEF StandardCounter
  <2>5. /\ StandardCounter(Total(c), n - 1, n) = <<Total(c), TRUE>>
        /\ StandardCounter(Total(d), n - 1, n) = <<Total(d), TRUE>>
    BY <1>0, <2>3, <2>4
  <2>6. Total(c) = Total(d)
    BY <2>2, <2>5
  <2>. QED
    BY <1>0, <2>6, Constants DEF Total
<1>6. CASE c.family \notin Blake2
  <2>. DEFINE p == c.length
              i == p \div Block
              j == p % Block
  <2>1. c.keylen = 0 /\ d.keylen = 0 /\ Total(c) = c.length /\ Total(d) = d.length
    BY <1>6, RequestFields DEF Total
  <2>2. /\ Block \in Nat \ {0} /\ p \in Nat /\ p < n * Block
        /\ p + Reserve + 1 <= n * Block /\ n * Block \in Nat
    <3>1. n = NBlocks(c.family, p)
      BY <2>1 DEF LiveCount
    <3>2. p + Reserve + 1 <= NBlocks(c.family, p) * Block
      BY <1>0, <1>6, CountBounds
    <3>. HIDE DEF n, p
    <3>3. n * Block \in Nat
      BY <1>1, Constants
    <3>. QED
      BY <1>0, <3>1, <3>2, <3>3, Constants DEF p
  <2>3. i \in Nat /\ j \in 0 .. Block - 1 /\ i * Block + j = p
    BY <2>2, DivModNat
  <2>. HIDE DEF i, j
  <2>4. i + 1 \in 1 .. n /\ (i + 1) - 1 = i
    <3>. SUFFICES ASSUME i >= n
                  PROVE  FALSE
      BY <1>1, <2>3
    <3>1. i * Block >= n * Block /\ i * Block \in Nat /\ n * Block \in Nat
      BY <1>1, <2>2, <2>3
    <3>. QED
      BY <2>2, <2>3, <3>1
  <2>5. ASSUME NEW e \in Requests, e.family = c.family, e.keylen = 0, LiveCount(e) = n,
               Total(e) = e.length
        PROVE  HostBlocks(e.family, Keyed(e), Total(e))[i + 1][j]
                 = HostByte(e.family, Keyed(e), e.length, p)
    <3>. DEFINE message == Keyed(e)
                length  == e.length
    <3>1. e.length \in Nat /\ NBlocks(c.family, e.length) = n
      BY <2>5, RequestFields DEF LiveCount
    <3>. HIDE DEF message, length, n
    <3>2. HostBlocks(c.family, message, length) =
            [k \in 1 .. n |-> HostRow(c.family, message, length, k)]
      BY <1>0, <3>1, HostBlockBytes DEF length
    <3>3. HostBlocks(c.family, message, length)[i + 1] = HostRow(c.family, message, length, i + 1)
      BY <2>4, <3>2
    <3>4. HostBlocks(c.family, message, length)[i + 1][j] = HostByte(c.family, message, length, p)
      BY <2>3, <2>4, <3>3 DEF HostRow
    <3>. QED
      BY <2>5, <3>4 DEF message, length
  <2>6. HostByte(c.family, Keyed(c), c.length, p) = HostByte(d.family, Keyed(d), d.length, p)
    BY <1>3, <1>4, <2>1, <2>4, <2>5
  <2>7. HostByte(d.family, Keyed(d), d.length, p) = Msg(p)
    <3>1. Keyed(d) = [q \in 0 .. d.length - 1 |-> Msg(q)]
      BY <1>0, <2>1 DEF Keyed
    <3>. QED
      BY <1>0, <2>2, <3>1 DEF HostByte
  <2>8. HostByte(c.family, Keyed(c), c.length, p) = Mark
    <3>. DEFINE size == n * Block - p
    <3>1. size > Field /\ size \in Nat
      <4>. HIDE DEF n, p
      <4>. QED
        BY <2>2, Constants
    <3>2. HostByte(c.family, Keyed(c), c.length, p) = TailByte(c.family, p, p - p)
      BY <1>0 DEF HostByte
    <3>3. p - p = 0 /\ ~(0 >= size - Field)
      BY <2>2, <3>1, Constants
    <3>4. size = NBlocks(c.family, p) * Block - p
      BY <2>1 DEF LiveCount
    <3>. HIDE DEF size
    <3>. QED
      BY <1>6, <3>2, <3>3, <3>4 DEF TailByte
  <2>9. Mark # Msg(p)
    BY DEF Mark, Msg, BitLength!Mark, BitLength!Msg
  <2>. QED
    BY <2>6, <2>7, <2>8, <2>9
<1>. QED
  BY <1>5, <1>6

(* Two digests with the same start and the same blocks were of one hash,   *)
(* one size, one key length and one message length.                        *)
THEOREM DigestsAreApart == Spec => []HashesApart
<1>1. IInv => HashesApart
  <2>. SUFFICES ASSUME IInv, result.kind = "digest", earlier.kind = "digest",
                       result.start = earlier.start, result.folded = earlier.folded
                PROVE  /\ result.family = earlier.family /\ result.size = earlier.size
                       /\ result.keylen = earlier.keylen /\ result.length = earlier.length
    BY DEF HashesApart
  <2>1. PICK c \in Requests : result = DigestOf(c)
    BY DEF IInv, Finished, Idle, ValueError
  <2>2. PICK d \in Requests : earlier = DigestOf(d)
    BY DEF IInv, Finished, Idle, ValueError
  <2>3. InitialState(c) = InitialState(d) /\ StandardOf(c) = StandardOf(d)
    BY <2>1, <2>2 DEF DigestOf
  <2>4. c.family = d.family /\ c.size = d.size /\ c.keylen = d.keylen
    <3>1. CASE c.family \in Blake2 /\ d.family \in Blake2
      BY <2>3, <3>1 DEF InitialState
    <3>2. CASE c.family \notin Blake2 /\ d.family \notin Blake2
      BY <2>3, <3>2, RequestFields DEF InitialState
    <3>3. CASE (c.family \in Blake2) # (d.family \in Blake2)
      BY <2>3, <3>3 DEF InitialState
    <3>. QED
      BY <3>1, <3>2, <3>3
  <2>5. c.length \in Nat /\ d.length \in Nat
    BY RequestFields
  <2>6. ~(c.length < d.length) /\ ~(d.length < c.length)
    BY <2>3, <2>4, LengthsApart
  <2>7. c.length = d.length
    BY <2>5, <2>6
  <2>. QED
    BY <2>1, <2>2, <2>4, <2>7 DEF DigestOf
<1>. QED
  BY InductiveInvariant, <1>1, PTL

(* capacity's policy, at every length: the width holds the message, is     *)
(* under twice it past one block, and no two widths are closer than double.*)
THEOREM WidthsFollowPolicy == Spec => []WidthPolicy
<1>1. IInv => WidthPolicy
  <2>. SUFFICES ASSUME IInv, call.kind = "call"
                PROVE  /\ call.length <= HostWidth(call.length)
                       /\ call.length > Block => HostWidth(call.length) < 2 * call.length
                       /\ \A other \in 0 .. MaxLength :
                            \/ HostWidth(other) = HostWidth(call.length)
                            \/ HostWidth(other) >= 2 * HostWidth(call.length)
                            \/ HostWidth(call.length) >= 2 * HostWidth(other)
    BY DEF WidthPolicy
  <2>1. PICK c \in Requests : call.length = c.length
    BY WalkFields DEF IInv, Walking, Idle
  <2>2. call.length \in Nat /\ \A other \in 0 .. MaxLength : other \in Nat
    BY <2>1, RequestFields, Constants
  <2>. QED
    BY <2>2, HostWidths, WidthsApart
<1>. QED
  BY InductiveInvariant, <1>1, PTL

(* A walk stays in its unrolled range and its trace, and its width holds   *)
(* its message.                                                            *)
THEOREM TypesHold == Spec => []TypeOK
<1>1. IInv => TypeOK
  <2>. SUFFICES ASSUME IInv
                PROVE  TypeOK
    OBVIOUS
  <2>1. ASSUME call.kind = "call"
        PROVE  /\ TraceKey(call) \in DOMAIN traces
               /\ call.i \in 0 .. Trace(call).count
               /\ Len(call.folded) \in 0 .. call.i
               /\ call.length <= call.width
    <3>1. PICK c \in Requests : \E k \in 0 .. Traced(c).count :
             /\ call = Walk(c, k) /\ call.i = k
             /\ TraceKey(call) = TraceKey(c) /\ TraceKey(c) \in DOMAIN traces
             /\ Trace(call).count = Traced(c).count
             /\ c.family \in Blake2 => Trace(call).length = Total(c)
      BY <2>1, WalkInProgress
    <3>2. call.i \in 0 .. Trace(call).count /\ call = Walk(c, call.i)
      BY <3>1
    <3>3. call.length <= call.width
      BY <3>2, WalkFields, RequestFields
    <3>4. Len(call.folded) \in 0 .. call.i
      <4>. DEFINE k == call.i
                  m == Lesser(k, LiveCount(c))
                  s == StandardOf(c)
      <4>1. k \in Nat /\ LiveCount(c) \in Nat
        BY <3>2, StandardBlocks
      <4>. HIDE DEF k
      <4>2. m \in 0 .. k
        BY <4>1 DEF Lesser
      <4>3. call.folded = Prefix(s, m)
        BY <3>2, WalkFields DEF k
      <4>. HIDE DEF m, s
      <4>4. Len(Prefix(s, m)) = m
        BY <4>1, <4>2 DEF Prefix
      <4>. QED
        BY <4>2, <4>3, <4>4 DEF k
    <3>. QED
      BY <3>1, <3>2, <3>3, <3>4
  <2>2. ASSUME NEW k \in DOMAIN traces
        PROVE  traces[k].count \in Nat \ {0} /\ traces[k].length \in Nat
    <3>1. PICK c \in Requests : traces[k] = Traced(c)
      BY DEF IInv, OfRequest
    <3>. QED
      BY <3>1, TracedCount, RequestFields
  <2>3. call.kind \in {"idle", "call"}
    BY WalkFields DEF IInv, Walking, Idle
  <2>4. result.kind \in {"idle", "ValueError", "digest"}
    BY DEF IInv, Finished, Idle, ValueError, DigestOf
  <2>5. calls \in 0 .. MaxCalls
    BY DEF IInv
  <2>. QED
    BY <2>1, <2>2, <2>3, <2>4, <2>5 DEF TypeOK
<1>. QED
  BY InductiveInvariant, <1>1, PTL

=============================================================================
