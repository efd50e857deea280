----------------------------- MODULE Blake3Tree -----------------------------
(***************************************************************************)
(* BLAKE3's whole-message hash as blake3/modes.py and extension/tree.py    *)
(* compute it, a level of the tree at a time, and the tree of the          *)
(* specification that it has to be.                                        *)
(*                                                                         *)
(* A node is its last compression, assembled but not run (modes.Output):   *)
(* the five operands it reads.  A chaining value is named by the node it   *)
(* finishes, so two of them are equal exactly when the whole subtrees      *)
(* under them are.                                                         *)
(***************************************************************************)
EXTENDS Binary, Sequences

CONSTANTS
  BlockLen,        \* bytes per block (64)
  BlocksPerChunk,  \* blocks per chunk (16)
  WordBits         \* bits in one half of the chunk counter (32)

ASSUME TreeAssumption ==
  /\ BlockLen \in Nat \ {0} /\ BlocksPerChunk \in Nat \ {0} /\ WordBits \in Nat \ {0}

ChunkLen == BlockLen * BlocksPerChunk
Word     == PowerOfTwo[WordBits]

Msg(k) == <<"msg", k>>
Zero   == <<"zero">>
KeyWords == <<"key">>   \* the mode's key; its flag rides on every compression

ChainingValue(node) == <<"cv", node>>

(* A 64-bit counter as its (low, high) halves.                             *)
Halves(c) == <<c % Word, c \div Word>>

(* tree.units: the empty message still occupies one.                       *)
Units(length, size) ==
  IF length = 0 THEN 1 ELSE (length + size - 1) \div size

(* Block i of an n-byte message, zero-padded past its end, and its true    *)
(* byte count.                                                             *)
MessageBlock(n, i) ==
  [j \in 0 .. BlockLen - 1 |-> IF i * BlockLen + j < n THEN Msg(i * BlockLen + j) ELSE Zero]

BlockBytes(n, i) == IF n < (i + 1) * BlockLen THEN n - i * BlockLen ELSE BlockLen

Node(cv, block, counter, blen, flags) ==
  [cv |-> cv, block |-> block, counter |-> counter, blen |-> blen, flags |-> flags]

(* A parent reads the key words, has a zero counter and two children.      *)
Parent(left, right) == Node(KeyWords, <<left, right>>, <<0, 0>>, BlockLen, {"PARENT"})

----------------------------------------------------------------------------
(* Chunk c of an n-byte message starts at block c * BlocksPerChunk.        *)
ChunkBlock(n, c, b)  == MessageBlock(n, c * BlocksPerChunk + b)
ChunkBytes(n, c)     == IF n < (c + 1) * ChunkLen THEN n - c * ChunkLen ELSE ChunkLen
BlocksOf(n, c)       == Units(ChunkBytes(n, c), BlockLen)

(* _chain: blocks first .. first + count - 1, none of them the last.       *)
Chain(cv, n, c, first, count) ==
  LET run[k \in 0 .. count] ==
        IF k = 0 THEN cv
        ELSE ChainingValue(Node(run[k - 1], ChunkBlock(n, c, first + k - 1), Halves(c),
                                BlockLen, IF first + k = 1 THEN {"CHUNK_START"} ELSE {}))
  IN  run[count]

(* _chunk_from: a chunk from block `first` on, its last compression unrun. *)
ChunkFrom(cv, n, c, first) ==
  LET last == BlocksOf(n, c) - 1
  IN  Node(Chain(cv, n, c, first, last - first), ChunkBlock(n, c, last), Halves(c),
           ChunkBytes(n, c) - last * BlockLen,
           {"CHUNK_END"} \cup (IF last = 0 THEN {"CHUNK_START"} ELSE {}))

ChunkOutput(n, c) == ChunkFrom(KeyWords, n, c, 0)

(* _chunk_chaining_values: every chunk runs with the short one as far as   *)
(* the short one goes, and the others are picked up from there.            *)
SharedLeaves(n) == BlocksOf(n, Units(n, ChunkLen) - 1) - 1

ChunkValues(n) ==
  [i \in 1 .. Units(n, ChunkLen) |->
     LET shared == Chain(KeyWords, n, i - 1, 0, SharedLeaves(n))
     IN  ChainingValue(ChunkFrom(shared, n, i - 1, SharedLeaves(n)))]

(* As PairUp, pairing the odd node with itself.                            *)
PairOddWithItself(values) ==
  LET at(i) == IF i <= Len(values) THEN values[i] ELSE values[Len(values)]
  IN  [i \in 1 .. (Len(values) + 1) \div 2 |->
         ChainingValue(Parent(at(2 * i - 1), at(2 * i)))]

(* One level: adjacent nodes pair, an odd one rides up untouched.          *)
PairUp(values) ==
  LET pairs == Len(values) \div 2
      parents == [i \in 1 .. pairs |->
                    ChainingValue(Parent(values[2 * i - 1], values[2 * i]))]
  IN  IF Len(values) % 2 = 1 THEN Append(parents, values[Len(values)]) ELSE parents

(* tree.levels: level after level until two nodes are left.                *)
Levels(values) ==
  LET level[k \in 0 .. Len(values)] ==
        IF k = 0 THEN values
        ELSE LET below == level[k - 1]
             IN  IF Len(below) <= 2 THEN below ELSE PairUp(below)
  IN  level[Len(values)]

TreeOutput(n) ==
  IF Units(n, ChunkLen) = 1 THEN ChunkOutput(n, 0)
  ELSE LET two == Levels(ChunkValues(n)) IN Parent(two[1], two[2])

(* root_bytes: the root's compression once per output block, the node's    *)
(* counter replaced by the block's index and ROOT added.                   *)
RootBlock(node, i) ==
  [node EXCEPT !.counter = Halves(i), !.flags = @ \cup {"ROOT"}]

RootBytes(node, out_len) ==
  [k \in 0 .. out_len - 1 |-> <<RootBlock(node, k \div BlockLen), k % BlockLen>>]

----------------------------------------------------------------------------
(* The specification's tree: the left subtree of `count` chunks takes the  *)
(* largest power of two strictly below count.                              *)
LeftLen(count) ==
  CHOOSE p \in {PowerOfTwo[k] : k \in 0 .. count} : p < count /\ 2 * p >= count

(* The node over `count` chunks from chunk `first` of an n-byte message.   *)
Subtree(n, first, count) ==
  LET node[k \in 1 .. count] ==
        [f \in Nat |->
           IF k = 1 THEN ChunkOutput(n, f)
           ELSE Parent(ChainingValue(node[LeftLen(k)][f]),
                       ChainingValue(node[k - LeftLen(k)][f + LeftLen(k)]))]
  IN  node[count][first]

SpecRoot(n) == Subtree(n, 0, Units(n, ChunkLen))
=============================================================================
