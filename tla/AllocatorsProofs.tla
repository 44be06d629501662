-------------------------- MODULE AllocatorsProofs --------------------------
(***************************************************************************)
(* Proofs about the allocators, for any number and size of the blocks of a *)
(* pool or bucket and any finite set of threads.                           *)
(*                                                                         *)
(* The idea for the four with blocks of fixed size: every block is in one  *)
(* place (Parted), and a step moves blocks of one thread only (PartMoves). *)
(* A free list is a sequence without repetitions; cpool's, a linked stack  *)
(* under its tag, is a path from the head (Path), which a link that was    *)
(* read while the tag was the same still describes (Tagged).  In an arena  *)
(* all blocks of a buffer end below its offset (Heaped).                   *)
(***************************************************************************)
EXTENDS Allocators, FiniteSetTheorems, FunctionTheorems, SequenceTheorems, WellFoundedInduction, TLAPS

-----------------------------------------------------------------------------
(* Free lists. *)

NoRepeats(s) == \A i, j \in 1 .. Len(s) : s[i] = s[j] => i = j
Listed(s) == s \in Seq(Int) /\ NoRepeats(s)

LEMMA RangeOf ==
  ASSUME NEW s \in Seq(Int)
  PROVE  /\ Len(s) \in Nat /\ DOMAIN s = 1 .. Len(s)
         /\ Range(s) = {s[i] : i \in 1 .. Len(s)} /\ Range(s) \subseteq Int
BY LenProperties DEF Range

LEMMA ListPop ==
  ASSUME NEW s, Listed(s), s # <<>>
  PROVE  /\ Listed(Tail(s)) /\ Len(Tail(s)) = Len(s) - 1 /\ Len(s) \in Nat
         /\ Head(s) \in Range(s) /\ Range(Tail(s)) = Range(s) \ {Head(s)}
<1>0. s \in Seq(Int) /\ NoRepeats(s) BY DEF Listed
<1>1. Len(s) \in Nat /\ Len(s) # 0 BY <1>0, LenProperties, EmptySeq
<1>2. /\ Tail(s) \in Seq(Int) /\ Len(Tail(s)) = Len(s) - 1 /\ Head(s) = s[1]
      /\ \A i \in 1 .. Len(s) - 1 : Tail(s)[i] = s[i + 1]
  BY <1>0, <1>1, HeadTailProperties, LenProperties
<1>3. NoRepeats(Tail(s))
  <2> SUFFICES ASSUME NEW i \in 1 .. Len(Tail(s)), NEW j \in 1 .. Len(Tail(s)), Tail(s)[i] = Tail(s)[j]
               PROVE  i = j
    BY DEF NoRepeats
  <2>1. i + 1 \in 1 .. Len(s) /\ j + 1 \in 1 .. Len(s) /\ s[i + 1] = s[j + 1] BY <1>1, <1>2
  <2>2. i + 1 = j + 1 BY <1>0, <2>1 DEF NoRepeats
  <2> QED BY <1>1, <1>2, <2>2
<1>4. /\ Range(s) = {s[i] : i \in 1 .. Len(s)}
      /\ Range(Tail(s)) = {Tail(s)[i] : i \in 1 .. Len(Tail(s))}
  BY <1>0, <1>2, RangeOf
<1>5. 1 \in 1 .. Len(s) BY <1>1
<1>6. Head(s) \in Range(s) BY <1>2, <1>4, <1>5
<1>7. Range(Tail(s)) \subseteq Range(s) \ {Head(s)}
  <2> SUFFICES ASSUME NEW i \in 1 .. Len(Tail(s)) PROVE Tail(s)[i] \in Range(s) \ {Head(s)} BY <1>4
  <2>1. i + 1 \in 1 .. Len(s) /\ Tail(s)[i] = s[i + 1] /\ i + 1 # 1 BY <1>1, <1>2
  <2>2. s[i + 1] # s[1] BY <1>0, <1>5, <2>1 DEF NoRepeats
  <2> QED BY <1>2, <1>4, <2>1, <2>2
<1>8. Range(s) \ {Head(s)} \subseteq Range(Tail(s))
  <2> SUFFICES ASSUME NEW i \in 1 .. Len(s), s[i] # Head(s) PROVE s[i] \in Range(Tail(s)) BY <1>4
  <2>1. i # 1 BY <1>2
  <2>2. i - 1 \in 1 .. Len(Tail(s)) /\ Tail(s)[i - 1] = s[i] BY <1>1, <1>2, <2>1
  <2> QED BY <1>4, <2>2
<1> QED BY <1>1, <1>2, <1>3, <1>6, <1>7, <1>8 DEF Listed

LEMMA ListPush ==
  ASSUME NEW s, Listed(s), NEW p \in Int, p \notin Range(s)
  PROVE  /\ Listed(<<p>> \o s) /\ Len(<<p>> \o s) = Len(s) + 1 /\ Len(s) \in Nat
         /\ Range(<<p>> \o s) = Range(s) \cup {p}
<1> DEFINE r == <<p>> \o s
<1>0. s \in Seq(Int) /\ NoRepeats(s) BY DEF Listed
<1>1. /\ <<p>> \in Seq(Int) /\ Len(<<p>>) = 1 /\ <<p>>[1] = p /\ Len(s) \in Nat
  BY <1>0, LenProperties
<1>2. /\ r \in Seq(Int) /\ Len(r) = Len(<<p>>) + Len(s)
      /\ \A i \in 1 .. Len(<<p>>) + Len(s) :
           r[i] = IF i <= Len(<<p>>) THEN <<p>>[i] ELSE s[i - Len(<<p>>)]
  BY <1>0, <1>1, ConcatProperties
<1> HIDE DEF r
<1>3. Len(r) = Len(s) + 1 BY <1>1, <1>2
<1>4. \A i \in 1 .. Len(s) + 1 : r[i] = IF i <= 1 THEN <<p>>[i] ELSE s[i - 1] BY <1>1, <1>2
<1>5. r[1] = p /\ 1 \in 1 .. Len(r) BY <1>1, <1>3, <1>4
<1>6. \A i \in 1 .. Len(s) : i + 1 \in 1 .. Len(r) /\ r[i + 1] = s[i]
  <2> SUFFICES ASSUME NEW i \in 1 .. Len(s) PROVE i + 1 \in 1 .. Len(r) /\ r[i + 1] = s[i] OBVIOUS
  <2>1. i + 1 \in 1 .. Len(s) + 1 /\ ~(i + 1 <= 1) /\ (i + 1) - 1 = i BY <1>1
  <2> QED BY <1>3, <1>4, <2>1
<1>7. \A i \in 1 .. Len(r) : i = 1 \/ (i - 1 \in 1 .. Len(s) /\ r[i] = s[i - 1]) BY <1>1, <1>3, <1>4
<1>8. Range(s) = {s[i] : i \in 1 .. Len(s)} /\ Range(r) = {r[i] : i \in 1 .. Len(r)}
  BY <1>0, <1>2, RangeOf
<1>9. NoRepeats(r)
  <2> SUFFICES ASSUME NEW i \in 1 .. Len(r), NEW j \in 1 .. Len(r), r[i] = r[j] PROVE i = j
    BY DEF NoRepeats
  <2>1. CASE i = 1 /\ j = 1 BY <2>1
  <2>2. CASE i = 1 /\ j # 1 BY <1>5, <1>7, <1>8, <2>2
  <2>3. CASE i # 1 /\ j = 1 BY <1>5, <1>7, <1>8, <2>3
  <2>4. CASE i # 1 /\ j # 1
    <3>1. i - 1 \in 1 .. Len(s) /\ j - 1 \in 1 .. Len(s) /\ s[i - 1] = s[j - 1] BY <1>7, <2>4
    <3>2. i - 1 = j - 1 BY <1>0, <3>1 DEF NoRepeats
    <3> QED BY <1>1, <1>3, <3>2
  <2> QED BY <2>1, <2>2, <2>3, <2>4
<1>10. Range(r) \subseteq Range(s) \cup {p}
  <2> SUFFICES ASSUME NEW i \in 1 .. Len(r) PROVE r[i] \in Range(s) \cup {p} BY <1>8
  <2> QED BY <1>5, <1>7, <1>8
<1>11. Range(s) \cup {p} \subseteq Range(r) BY <1>5, <1>6, <1>8
<1> QED BY <1>1, <1>2, <1>3, <1>9, <1>10, <1>11 DEF Listed, r

LEMMA IntervalCard ==
  ASSUME NEW n \in Nat
  PROVE  IsFiniteSet(1 .. n) /\ Cardinality(1 .. n) = n
<1>1. Cardinality(1 .. n) = IF 1 > n THEN 0 ELSE n - 1 + 1 BY FS_Interval
<1>2. Cardinality(1 .. n) = n BY <1>1
<1> QED BY <1>2, FS_Interval

LEMMA ListCard ==
  ASSUME NEW s, Listed(s)
  PROVE  IsFiniteSet(Range(s)) /\ Cardinality(Range(s)) = Len(s) /\ Len(s) \in Nat
<1>1. /\ Len(s) \in Nat /\ DOMAIN s = 1 .. Len(s) /\ s \in Seq(Int)
      /\ Range(s) = {s[i] : i \in 1 .. Len(s)} /\ Range(s) \subseteq Int
  BY RangeOf DEF Listed
<1>2. s \in [1 .. Len(s) -> Range(s)]
  <2>1. s \in [1 .. Len(s) -> Int] BY <1>1, LenProperties
  <2> QED BY <1>1, <2>1
<1>3. s \in Surjection(1 .. Len(s), Range(s)) BY <1>1, <1>2 DEF Surjection
<1>4. s \in Injection(1 .. Len(s), Range(s)) BY <1>2 DEF Listed, NoRepeats, Injection, IsInjective
<1>5. IsFiniteSet(1 .. Len(s)) /\ Cardinality(1 .. Len(s)) = Len(s) BY <1>1, IntervalCard
<1> QED BY <1>1, <1>3, <1>4, <1>5, FS_Surjection

\* The blocks of n pieces of a size.
Pieces(size, n) == {i * size : i \in 0 .. n - 1}

LEMMA Multiples ==
  ASSUME NEW size \in Nat \ {0}, NEW i \in Int, NEW j \in Int
  PROVE  /\ i * size \in Int
         /\ i < j => i * size + size <= j * size
         /\ i * size = j * size => i = j
<1>1. ASSUME NEW a \in Int, NEW b \in Int, a < b PROVE a * size + size <= b * size
  <2>1. b - a - 1 \in Nat BY <1>1
  <2>2. (b - a - 1) * size >= 0 BY <2>1, SMT
  <2>3. (b - a - 1) * size = b * size - a * size - size BY SMT
  <2>4. a * size \in Int /\ b * size \in Int BY SMT
  <2> QED BY <2>2, <2>3, <2>4
<1>2. i * size \in Int /\ j * size \in Int BY SMT
<1>3. i < j => i * size + size <= j * size BY <1>1
<1>4. j < i => j * size + size <= i * size BY <1>1
<1> QED BY <1>2, <1>3, <1>4

LEMMA DescendingList ==
  ASSUME NEW size \in Nat \ {0}, NEW n \in Nat
  PROVE  /\ Listed(Descending(size, n)) /\ Len(Descending(size, n)) = n
         /\ Range(Descending(size, n)) = Pieces(size, n)
<1> DEFINE s == Descending(size, n)
<1>1. \A i \in 1 .. n : (n - i) * size \in Int BY Multiples
<1>2. s = [i \in 1 .. n |-> (n - i) * size] BY DEF Descending
<1> HIDE DEF s
<1>3. DOMAIN s = 1 .. n /\ \A i \in 1 .. n : s[i] = (n - i) * size BY <1>2
<1>4. s \in [1 .. n -> Int] BY <1>1, <1>2
<1>5. s \in Seq(Int) /\ Len(s) = n BY <1>4, SeqDef, LenProperties
<1>6. NoRepeats(s)
  <2> SUFFICES ASSUME NEW i \in 1 .. n, NEW j \in 1 .. n, s[i] = s[j] PROVE i = j BY <1>5 DEF NoRepeats
  <2>1. n - i \in Int /\ n - j \in Int /\ (n - i) * size = (n - j) * size BY <1>3
  <2>2. n - i = n - j BY <2>1, Multiples
  <2> QED BY <2>2
<1>7. Range(s) = {s[i] : i \in 1 .. n} BY <1>5, RangeOf
<1>8. Range(s) \subseteq Pieces(size, n)
  <2> SUFFICES ASSUME NEW i \in 1 .. n PROVE s[i] \in Pieces(size, n) BY <1>7
  <2>1. n - i \in 0 .. n - 1 OBVIOUS
  <2> QED BY <1>3, <2>1 DEF Pieces
<1>9. Pieces(size, n) \subseteq Range(s)
  <2> SUFFICES ASSUME NEW k \in 0 .. n - 1 PROVE k * size \in Range(s) BY DEF Pieces
  <2>1. n - k \in 1 .. n /\ n - (n - k) = k OBVIOUS
  <2>2. s[n - k] = k * size BY <1>3, <2>1
  <2> QED BY <1>7, <2>1, <2>2
<1> QED BY <1>5, <1>6, <1>8, <1>9 DEF Listed, s

LEMMA PiecesCard ==
  ASSUME NEW size \in Nat \ {0}, NEW n \in Nat
  PROVE  IsFiniteSet(Pieces(size, n)) /\ Cardinality(Pieces(size, n)) = n /\ Pieces(size, n) \subseteq Int
<1>1. Pieces(size, n) \subseteq Int BY Multiples DEF Pieces
<1> QED BY <1>1, DescendingList, ListCard

\* A list with a piece missing is not full.
LEMMA ListNotFull ==
  ASSUME NEW size \in Nat \ {0}, NEW n \in Nat, NEW s, Listed(s), Range(s) \subseteq Pieces(size, n),
         NEW p \in Pieces(size, n), p \notin Range(s)
  PROVE  Len(s) < n
<1>1. IsFiniteSet(Pieces(size, n)) /\ Cardinality(Pieces(size, n)) = n BY PiecesCard
<1>2. Cardinality(Range(s)) = Len(s) /\ Len(s) \in Nat BY ListCard
<1>3. Cardinality(Range(s)) <= n /\ Cardinality(Range(s)) # n BY <1>1, FS_Subset
<1> QED BY <1>2, <1>3

-----------------------------------------------------------------------------
(* Where blocks are. A place is a buffer and an offset in it; L, F and     *)
(* H[t] are the places of the blocks that callers have, of the free ones   *)
(* and of those that thread t has on its way.                              *)

Pos(b) == <<b.buf, b.at>>
Places(B) == {Pos(b) : b \in B}
In(buf, S) == {<<buf, a>> : a \in S}
Spread(B) == \A b, c \in B : b # c => Pos(b) # Pos(c)
Parted(L, F, H, A) ==
  /\ L \cup F \cup UNION {H[t] : t \in Threads} = A
  /\ L \cap F = {}
  /\ \A t \in Threads : H[t] \cap (L \cup F) = {} /\ \A u \in Threads \ {t} : H[t] \cap H[u] = {}
Nobody == [t \in Threads |-> {}]

\* A step of thread t moves blocks between its callers, the lists and itself.
LEMMA PartMoves ==
  ASSUME NEW L, NEW F, NEW H, NEW A, NEW K, NEW G, NEW J, Parted(L, F, H, A), NEW t \in Threads,
         \A u \in Threads : u # t => J[u] = H[u],
         K \cup G \cup J[t] = L \cup F \cup H[t], K \cap G = {}, J[t] \cap (K \cup G) = {}
  PROVE  Parted(K, G, J, A)
<1>1. /\ L \cup F \cup UNION {H[u] : u \in Threads} = A /\ L \cap F = {}
      /\ \A u \in Threads : H[u] \cap (L \cup F) = {}
      /\ \A u \in Threads : \A v \in Threads \ {u} : H[u] \cap H[v] = {}
  BY DEF Parted
<1>2. \A x : x \in K \cup G \cup J[t] <=> x \in L \cup F \cup H[t] OBVIOUS
<1>3. ASSUME NEW u \in Threads, u # t PROVE J[u] \cap (K \cup G \cup J[t]) = {}
  BY <1>1, <1>2, <1>3
<1>4. \A u \in Threads : J[u] \cap (K \cup G) = {} BY <1>3
<1>5. ASSUME NEW u \in Threads, NEW v \in Threads \ {u} PROVE J[u] \cap J[v] = {}
  <2>1. CASE u = t BY <1>3, <2>1
  <2>2. CASE v = t BY <1>3, <2>2
  <2>3. CASE u # t /\ v # t BY <1>1, <2>3
  <2> QED BY <2>1, <2>2, <2>3
<1>6. K \cup G \cup UNION {J[u] : u \in Threads} = A
  <2>1. ASSUME NEW x \in K \cup G \cup UNION {J[u] : u \in Threads} PROVE x \in A
    <3>1. CASE x \in K \cup G \cup J[t] BY <1>1, <1>2, <3>1
    <3>2. CASE \E u \in Threads : u # t /\ x \in J[u] BY <1>1, <3>2
    <3> QED BY <2>1, <3>1, <3>2
  <2>2. ASSUME NEW x \in A PROVE x \in K \cup G \cup UNION {J[u] : u \in Threads}
    <3>1. CASE x \in L \cup F \cup H[t] BY <1>2, <3>1
    <3>2. CASE \E u \in Threads : u # t /\ x \in H[u] BY <3>2
    <3> QED BY <1>1, <2>2, <3>1, <3>2
  <2> QED BY <2>1, <2>2
<1> QED BY <1>4, <1>5, <1>6 DEF Parted

LEMMA PartCalls ==
  ASSUME NEW L, NEW F, NEW H, NEW A, NEW K, NEW G, Parted(L, F, H, A), K \cup G = L \cup F, K \cap G = {}
  PROVE  Parted(K, G, H, A)
<1>1. \A t \in Threads : H[t] \cap (K \cup G) = {} BY DEF Parted
<1> QED BY <1>1 DEF Parted

\* A caller gets a new block, and gives one away.
LEMMA LiveMore ==
  ASSUME NEW B, Spread(B), NEW b, Pos(b) \notin Places(B)
  PROVE  Spread(B \cup {b}) /\ Places(B \cup {b}) = Places(B) \cup {Pos(b)}
BY DEF Spread, Places

LEMMA LiveLess ==
  ASSUME NEW B, Spread(B), NEW b \in B
  PROVE  /\ Spread(B \ {b}) /\ Places(B \ {b}) = Places(B) \ {Pos(b)} /\ Pos(b) \in Places(B)
BY DEF Spread, Places

LEMMA LiveWithout ==
  ASSUME NEW B, Spread(B), NEW b \in B, \A c \in B : c.buf = 0
  PROVE  {c \in B : c.at # b.at} = B \ {b}
<1>1. \A c \in B : Pos(c) = Pos(b) => c = b BY DEF Spread
<1> QED BY <1>1 DEF Pos

LEMMA InFacts ==
  ASSUME NEW buf, NEW S, NEW a
  PROVE  /\ <<buf, a>> \in In(buf, S) <=> a \in S
         /\ In(buf, S) \cup {<<buf, a>>} = In(buf, S \cup {a})
         /\ In(buf, S) \ {<<buf, a>>} = In(buf, S \ {a})
<1>1. \A R, b : <<buf, b>> \in In(buf, R) <=> b \in R BY DEF In
<1>2. In(buf, S) \cup {<<buf, a>>} = In(buf, S \cup {a}) BY DEF In
<1>3. In(buf, S) \ {<<buf, a>>} = In(buf, S \ {a}) BY DEF In
<1> QED BY <1>1, <1>2, <1>3

-----------------------------------------------------------------------------
(* pool *)

PoolGood(s, B) ==
  /\ DOMAIN s = {"free", "bits", "count"}
  /\ Listed(s.free) /\ s.bits = Range(s.free) /\ s.count = Len(s.free)
  /\ Spread(B) /\ \A b \in B : b.buf = 0 /\ b.align = 1
  /\ Places(B) \cup In(0, s.bits) = In(0, Chunk) /\ Places(B) \cap In(0, s.bits) = {}

LEMMA ChunkFacts ==
  /\ BlockSize \in Nat \ {0} /\ Blocks \in Nat \ {0}
  /\ Chunk = Pieces(BlockSize, Blocks) /\ Chunk \subseteq Int
  /\ IsFiniteSet(Chunk) /\ Cardinality(Chunk) = Blocks
<1>1. Chunk = Pieces(BlockSize, Blocks) BY DEF Chunk, Pieces
<1> QED BY <1>1, SizesAssumption, PiecesCard

\* What free takes for a block is one.
LEMMA IsBlock ==
  ASSUME NEW p \in Int, p \in 0 .. Blocks * BlockSize - 1, p % BlockSize = 0
  PROVE  p \in Chunk
<1> DEFINE k == p \div BlockSize
<1>1. BlockSize \in Nat \ {0} /\ Blocks \in Nat \ {0} BY ChunkFacts
<1>2. k \in Int /\ p = BlockSize * k + (p % BlockSize) BY <1>1, SMT
<1> HIDE DEF k
<1>3. p = k * BlockSize BY <1>1, <1>2, SMT
<1>4. Blocks * BlockSize \in Int BY <1>1, Multiples
<1>5. k < Blocks
  <2> SUFFICES ASSUME ~(k < Blocks) PROVE FALSE OBVIOUS
  <2>1. k = Blocks \/ Blocks < k BY <1>1, <1>2
  <2>2. Blocks * BlockSize <= k * BlockSize
    <3>1. CASE k = Blocks BY <1>4, <3>1
    <3>2. CASE Blocks < k
      <4>1. Blocks * BlockSize + BlockSize <= k * BlockSize BY <1>1, <1>2, <3>2, Multiples
      <4>2. k * BlockSize \in Int BY <1>1, <1>2, Multiples
      <4> QED BY <1>1, <1>4, <4>1, <4>2
    <3> QED BY <2>1, <3>1, <3>2
  <2> QED BY <1>1, <1>3, <1>4, <2>2
<1>6. k >= 0
  <2> SUFFICES ASSUME k < 0 PROVE FALSE BY <1>2
  <2>1. k * BlockSize + BlockSize <= 0 * BlockSize BY <1>1, <1>2, Multiples
  <2>2. 0 * BlockSize = 0 BY <1>1, SMT
  <2> QED BY <1>1, <1>3, <2>1, <2>2
<1>7. k \in 0 .. Blocks - 1 BY <1>1, <1>2, <1>5, <1>6
<1> QED BY <1>3, <1>7 DEF Chunk

LEMMA PoolPops ==
  ASSUME NEW s, NEW B, PoolGood(s, B), s.free # <<>>, NEW size
  PROVE  PoolGood(PoolPop(s), B \cup {Block(0, Head(s.free), size, 1)})
<1> DEFINE b == Block(0, Head(s.free), size, 1)
           r == PoolPop(s)
<1>1. /\ DOMAIN s = {"free", "bits", "count"}
      /\ Listed(s.free) /\ s.bits = Range(s.free) /\ s.count = Len(s.free)
      /\ Spread(B) /\ \A c \in B : c.buf = 0 /\ c.align = 1
      /\ Places(B) \cup In(0, s.bits) = In(0, Chunk) /\ Places(B) \cap In(0, s.bits) = {}
  BY DEF PoolGood
<1>2. b.buf = 0 /\ b.at = Head(s.free) /\ b.align = 1 /\ Pos(b) = <<0, Head(s.free)>> BY DEF Block, Pos
<1>3. /\ DOMAIN r = DOMAIN s /\ r.free = Tail(s.free) /\ r.bits = s.bits \ {Head(s.free)}
      /\ r.count = s.count - 1
  BY <1>1 DEF PoolPop
<1> HIDE DEF b, r
<1>4. /\ Listed(Tail(s.free)) /\ Len(Tail(s.free)) = Len(s.free) - 1
      /\ Head(s.free) \in Range(s.free) /\ Range(Tail(s.free)) = Range(s.free) \ {Head(s.free)}
  BY <1>1, ListPop
<1>5. /\ Pos(b) \in In(0, s.bits) /\ In(0, r.bits) = In(0, s.bits) \ {Pos(b)}
  <2>1. <<0, Head(s.free)>> \in In(0, s.bits) BY <1>1, <1>4, InFacts
  <2>2. PICK h : h = Head(s.free) OBVIOUS
  <2>3. In(0, s.bits) \ {<<0, h>>} = In(0, s.bits \ {h}) BY DEF In
  <2>4. r.bits = s.bits \ {h} /\ Pos(b) = <<0, h>> BY <1>2, <1>3, <2>2
  <2> QED BY <2>1, <2>2, <2>3, <2>4
<1>6. Spread(B \cup {b}) /\ Places(B \cup {b}) = Places(B) \cup {Pos(b)} BY <1>1, <1>5, LiveMore
<1>7. /\ Places(B \cup {b}) \cup In(0, r.bits) = In(0, Chunk)
      /\ Places(B \cup {b}) \cap In(0, r.bits) = {}
  BY <1>1, <1>5, <1>6
<1>8. \A c \in B \cup {b} : c.buf = 0 /\ c.align = 1 BY <1>1, <1>2
<1> QED BY <1>1, <1>3, <1>4, <1>6, <1>7, <1>8 DEF PoolGood, b, r

\* A free of anything: a block in use goes into the list once, anything else is
\* left alone.
LEMMA PoolPushes ==
  ASSUME NEW s, NEW B, PoolGood(s, B), NEW p \in Int
  PROVE  PoolGood(PoolPush(s, p), {b \in B : b.at # p})
<1> DEFINE r == PoolPush(s, p)
           C == {b \in B : b.at # p}
<1>1. /\ DOMAIN s = {"free", "bits", "count"}
      /\ Listed(s.free) /\ s.bits = Range(s.free) /\ s.count = Len(s.free)
      /\ Spread(B) /\ \A c \in B : c.buf = 0 /\ c.align = 1
      /\ Places(B) \cup In(0, s.bits) = In(0, Chunk) /\ Places(B) \cap In(0, s.bits) = {}
  BY DEF PoolGood
<1>2. \A c \in B : c.at \in Chunk /\ c.at \notin s.bits
  <2> SUFFICES ASSUME NEW c \in B PROVE c.at \in Chunk /\ c.at \notin s.bits OBVIOUS
  <2>1. <<0, c.at>> \in Places(B) BY <1>1 DEF Places, Pos
  <2> QED BY <1>1, <2>1, InFacts
<1>3. CASE p \notin Chunk \/ p \in s.bits
  <2>1. r = s BY <1>3, IsBlock DEF PoolPush
  <2>2. C = B BY <1>2, <1>3
  <2> QED BY <2>1, <2>2
<1>4. CASE p \in Chunk /\ p \notin s.bits
  <2>1. <<0, p>> \in Places(B) BY <1>1, <1>4, InFacts
  <2>2. PICK b \in B : b.at = p BY <2>1 DEF Places, Pos
  <2>3. C = B \ {b} BY <1>1, <2>2, LiveWithout
  <2>4. Pos(b) = <<0, p>> BY <1>1, <2>2 DEF Pos
  <2>5. s.bits \subseteq Chunk
    <3> SUFFICES ASSUME NEW a \in s.bits PROVE a \in Chunk OBVIOUS
    <3>1. <<0, a>> \in In(0, s.bits) BY InFacts
    <3>2. <<0, a>> \in In(0, Chunk) BY <1>1, <3>1
    <3> QED BY <3>2, InFacts
  <2>6. Len(s.free) < Blocks BY <1>1, <1>4, <2>5, ListNotFull, ChunkFacts
  <2>7. p \in 0 .. Blocks * BlockSize - 1 /\ p % BlockSize = 0
    <3>1. PICK i \in 0 .. Blocks - 1 : p = i * BlockSize BY <1>4 DEF Chunk
    <3>2. BlockSize \in Nat \ {0} /\ Blocks \in Nat \ {0} BY ChunkFacts
    <3>3. i * BlockSize + BlockSize <= Blocks * BlockSize BY <3>2, Multiples
    <3>4. i * BlockSize >= 0 BY <3>2, SMT
    <3>5. Blocks * BlockSize \in Int BY <3>2, Multiples
    <3>6. (i * BlockSize) % BlockSize = 0 BY <3>2, SMT
    <3> QED BY <3>1, <3>2, <3>3, <3>4, <3>5, <3>6
  <2>8. r = [s EXCEPT !.free = <<p>> \o @, !.bits = @ \cup {p}, !.count = @ + 1]
    <3>1. Len(s.free) \in Nat /\ Blocks \in Nat BY <1>1, ListCard, ChunkFacts
    <3>2. ~(s.count >= Blocks) BY <1>1, <2>6, <3>1
    <3> QED BY <1>4, <2>7, <3>2 DEF PoolPush
  <2>9. DOMAIN r = DOMAIN s /\ r.free = <<p>> \o s.free /\ r.bits = s.bits \cup {p} /\ r.count = s.count + 1
    BY <1>1, <2>8
  <2>10. /\ Listed(<<p>> \o s.free) /\ Len(<<p>> \o s.free) = Len(s.free) + 1
         /\ Range(<<p>> \o s.free) = Range(s.free) \cup {p}
    BY <1>1, <1>4, ListPush
  <2> HIDE DEF r
  <2>11. Spread(B \ {b}) /\ Places(B \ {b}) = Places(B) \ {Pos(b)} BY <1>1, LiveLess
  <2>12. In(0, r.bits) = In(0, s.bits) \cup {Pos(b)}
    <3>1. In(0, s.bits) \cup {<<0, p>>} = In(0, s.bits \cup {p}) BY InFacts
    <3> QED BY <2>4, <2>9, <3>1
  <2>13. /\ Places(B \ {b}) \cup In(0, r.bits) = In(0, Chunk)
         /\ Places(B \ {b}) \cap In(0, r.bits) = {}
    BY <1>1, <2>1, <2>4, <2>11, <2>12
  <2> QED BY <1>1, <2>3, <2>9, <2>10, <2>11, <2>13 DEF PoolGood, r
<1> QED BY <1>3, <1>4

LEMMA PoolPlaced ==
  ASSUME NEW s, NEW B, PoolGood(s, B), NEW b \in B
  PROVE  b.at \in Chunk /\ b.at \in Int
<1>1. <<0, b.at>> \in Places(B) BY DEF PoolGood, Places, Pos
<1>2. <<0, b.at>> \in In(0, Chunk) BY <1>1 DEF PoolGood
<1> QED BY <1>2, InFacts, ChunkFacts

LEMMA PoolSteps ==
  ASSUME PoolNext, al = NotYet => live = {}, Up => PoolGood(al, live)
  PROVE  (~Up /\ al' = Gone) \/ pool_destroy \/ PoolGood(al', live')
<1>1. ASSUME NEW got, pool_create(got) PROVE al' = Gone \/ PoolGood(al', live')
  <2> DEFINE s == [free |-> Descending(BlockSize, Blocks), bits |-> Chunk, count |-> Blocks]
  <2>1. (al' = Gone \/ al' = s) /\ live' = {} BY <1>1 DEF pool_create, Create
  <2>2. PoolGood(s, {})
    <3>1. /\ Listed(Descending(BlockSize, Blocks)) /\ Len(Descending(BlockSize, Blocks)) = Blocks
          /\ Range(Descending(BlockSize, Blocks)) = Chunk
      BY ChunkFacts, DescendingList
    <3>2. Places({}) = {} /\ Spread({}) BY DEF Places, Spread
    <3>3. /\ DOMAIN s = {"free", "bits", "count"} /\ s.free = Descending(BlockSize, Blocks)
          /\ s.bits = Chunk /\ s.count = Blocks
      OBVIOUS
    <3> HIDE DEF s
    <3> QED BY <3>1, <3>2, <3>3 DEF PoolGood
  <2> QED BY <2>1, <2>2
<1>2. \A got : pool_create(got) => ~Up BY DEF pool_create, Create, Up
<1>3. CASE Up
  <2>0. PoolGood(al, live) BY <1>3
  <2>1. Nothing => PoolGood(al', live') BY <2>0 DEF Nothing, Call
  <2>2. ASSUME NEW size, pool_malloc(size) PROVE PoolGood(al', live')
    <3>1. CASE PoolFits(al, size)
      <4>1. al' = PoolPop(al) /\ live' = live \cup {Block(0, Head(al.free), size, 1)} /\ al.free # <<>>
        BY <2>2, <3>1 DEF pool_malloc, Call, PoolFits
      <4>2. PoolGood(PoolPop(al), live \cup {Block(0, Head(al.free), size, 1)})
        BY <2>0, <4>1, PoolPops
      <4> QED BY <4>1, <4>2
    <3> QED BY <2>1, <2>2, <3>1 DEF pool_malloc
  <2>3. ASSUME NEW n, NEW size, pool_calloc(n, size) PROVE PoolGood(al', live')
    BY <2>1, <2>2, <2>3 DEF pool_calloc
  <2>4. ASSUME NEW q \in Int, pool_free(q) PROVE PoolGood(al', live')
    <3>1. al' = PoolPush(al, q) /\ live' = {b \in live : b.at # q} BY <2>4 DEF pool_free, Call
    <3> QED BY <2>0, <3>1, PoolPushes
  <2>5. ASSUME NEW b \in live, NEW size, pool_realloc(b, size) PROVE PoolGood(al', live')
    <3>0. b.at \in Int /\ b.at \in Chunk BY <2>0, PoolPlaced
    <3>1. CASE size = 0 BY <2>4, <2>5, <3>0, <3>1 DEF pool_realloc
    <3>2. CASE size # 0 /\ PoolFits(al, size)
      <4> DEFINE c == Block(0, Head(al.free), size, 1)
                 s == PoolPop(al)
      <4>1. al' = PoolPush(s, b.at) /\ live' = (live \ {b}) \cup {c} /\ al.free # <<>>
        BY <2>5, <3>2 DEF pool_realloc, Call, PoolFits
      <4>2. PoolGood(s, live \cup {c}) BY <2>0, <4>1, PoolPops
      <4> HIDE DEF s
      <4>3. PoolGood(PoolPush(s, b.at), {d \in live \cup {c} : d.at # b.at}) BY <3>0, <4>2, PoolPushes
      <4>4. {d \in live \cup {c} : d.at # b.at} = (live \cup {c}) \ {b}
        <5>1. Spread(live \cup {c}) /\ \A d \in live \cup {c} : d.buf = 0 BY <4>2 DEF PoolGood
        <5> HIDE DEF c
        <5> QED BY <5>1, LiveWithout
      <4>5. c.at # b.at
        <5>1. Head(al.free) \in Range(al.free) BY <2>0, <4>1, ListPop DEF PoolGood
        <5>2. <<0, b.at>> \in Places(live) BY <2>0 DEF PoolGood, Places, Pos
        <5>3. <<0, Head(al.free)>> \in In(0, al.bits) BY <2>0, <5>1, InFacts DEF PoolGood
        <5>4. <<0, b.at>> # <<0, Head(al.free)>> BY <2>0, <5>2, <5>3 DEF PoolGood
        <5> QED BY <5>4 DEF Block
      <4> HIDE DEF c
      <4>6. (live \cup {c}) \ {b} = (live \ {b}) \cup {c} BY <4>5
      <4> QED BY <4>1, <4>3, <4>4, <4>6
    <3> QED BY <2>1, <2>5, <3>1, <3>2 DEF pool_realloc
  <2>6. Blocks * BlockSize \in Int BY ChunkFacts, Multiples
  <2>7. ASSUME NEW q \in -1 .. Blocks * BlockSize PROVE q \in Int BY <2>6
  <2> QED BY <1>1, <1>2, <2>2, <2>3, <2>4, <2>5, <2>7 DEF PoolNext
<1>4. CASE ~Up BY <1>1, <1>2, <1>4 DEF PoolNext
<1> QED BY <1>3, <1>4

-----------------------------------------------------------------------------
(* slab and cslab *)

SlabPlaces(sz) == UNION {In(b, Pieces(sz[b], PerBucket)) : b \in Buckets}
FreePlaces(s) == UNION {In(b, Range(s.pool[b].free)) : b \in Buckets}
SlabShape(s) ==
  /\ DOMAIN s = {"pool", "dirty"} /\ DOMAIN s.pool = Buckets
  /\ \A b \in Buckets :
       /\ DOMAIN s.pool[b] = {"free", "count"}
       /\ Listed(s.pool[b].free) /\ s.pool[b].count = Len(s.pool[b].free)

LEMMA SlabIn ==
  ASSUME NEW s, NEW sz, NEW b, NEW a
  PROVE  /\ <<b, a>> \in FreePlaces(s) <=> b \in Buckets /\ a \in Range(s.pool[b].free)
         /\ <<b, a>> \in SlabPlaces(sz) <=> b \in Buckets /\ a \in Pieces(sz[b], PerBucket)
<1>1. \A c, S : <<b, a>> \in In(c, S) <=> c = b /\ a \in S BY DEF In
<1> QED BY <1>1 DEF FreePlaces, SlabPlaces

LEMMA SlabPops ==
  ASSUME NEW s, SlabShape(s), NEW b \in Buckets, s.pool[b].free # <<>>
  PROVE  /\ SlabShape(SlabPop(s, b)) /\ SlabPop(s, b).dirty = s.dirty
         /\ FreePlaces(SlabPop(s, b)) = FreePlaces(s) \ {<<b, Head(s.pool[b].free)>>}
         /\ <<b, Head(s.pool[b].free)>> \in FreePlaces(s)
<1> DEFINE r == SlabPop(s, b)
<1>1. PICK f : f = s.pool[b].free OBVIOUS
<1>2. PICK h : h = Head(f) OBVIOUS
<1>3. /\ DOMAIN s = {"pool", "dirty"} /\ DOMAIN s.pool = Buckets
      /\ Listed(f) /\ s.pool[b].count = Len(f) /\ f # <<>>
      /\ \A c \in Buckets : DOMAIN s.pool[c] = {"free", "count"}
      /\ \A c \in Buckets : Listed(s.pool[c].free) /\ s.pool[c].count = Len(s.pool[c].free)
  BY <1>1 DEF SlabShape
<1>4. r = [s EXCEPT !.pool[b] = [free |-> Tail(f), count |-> s.pool[b].count - 1]]
  BY <1>1 DEF SlabPop
<1> HIDE DEF r
<1>5. /\ DOMAIN r = DOMAIN s /\ r.dirty = s.dirty /\ DOMAIN r.pool = Buckets
      /\ r.pool[b] = [free |-> Tail(f), count |-> s.pool[b].count - 1]
      /\ \A c \in Buckets : c # b => r.pool[c] = s.pool[c]
  BY <1>3, <1>4
<1>6. DOMAIN r.pool[b] = {"free", "count"} /\ r.pool[b].free = Tail(f) /\ r.pool[b].count = Len(f) - 1
  BY <1>3, <1>5
<1>7. /\ Listed(Tail(f)) /\ Len(Tail(f)) = Len(f) - 1 /\ h \in Range(f) /\ Range(Tail(f)) = Range(f) \ {h}
  BY <1>2, <1>3, ListPop
<1>8. SlabShape(r)
  <2>1. ASSUME NEW c \in Buckets
        PROVE  /\ DOMAIN r.pool[c] = {"free", "count"}
               /\ Listed(r.pool[c].free) /\ r.pool[c].count = Len(r.pool[c].free)
    <3>1. CASE c = b BY <1>6, <1>7, <3>1
    <3>2. CASE c # b BY <1>3, <1>5, <3>2
    <3> QED BY <3>1, <3>2
  <2> QED BY <1>3, <1>5, <2>1 DEF SlabShape
<1>9. <<b, h>> \in FreePlaces(s) BY <1>1, <1>7, SlabIn
<1>10. FreePlaces(r) = FreePlaces(s) \ {<<b, h>>}
  <2>1. \A c, a : <<c, a>> \in FreePlaces(r) <=> <<c, a>> \in FreePlaces(s) /\ ~(c = b /\ a = h)
    <3> SUFFICES ASSUME NEW c, NEW a
                 PROVE  <<c, a>> \in FreePlaces(r) <=> <<c, a>> \in FreePlaces(s) /\ ~(c = b /\ a = h)
      OBVIOUS
    <3>1. CASE c = b BY <1>1, <1>6, <1>7, <3>1, SlabIn
    <3>2. CASE c # b BY <1>5, <3>2, SlabIn
    <3> QED BY <3>1, <3>2
  <2>2. \A x : x \in FreePlaces(r) \/ x \in FreePlaces(s) => \E c, a : x = <<c, a>>
    BY DEF FreePlaces, In
  <2>3. \A c, a : <<c, a>> = <<b, h>> <=> c = b /\ a = h OBVIOUS
  <2> QED BY <2>1, <2>2, <2>3
<1> QED BY <1>1, <1>2, <1>5, <1>8, <1>9, <1>10 DEF r

LEMMA SlabPushes ==
  ASSUME NEW s, SlabShape(s), NEW sz, \A c \in Buckets : sz[c] \in Nat \ {0}, NEW b, NEW a,
         FreePlaces(s) \subseteq SlabPlaces(sz), <<b, a>> \in SlabPlaces(sz), <<b, a>> \notin FreePlaces(s)
  PROVE  /\ SlabShape(SlabPush(s, b, a)) /\ SlabPush(s, b, a).dirty = s.dirty
         /\ FreePlaces(SlabPush(s, b, a)) = FreePlaces(s) \cup {<<b, a>>}
<1> DEFINE r == SlabPush(s, b, a)
<1>0. PICK f : f = s.pool[b].free OBVIOUS
<1>1. b \in Buckets /\ a \in Pieces(sz[b], PerBucket) /\ a \notin Range(f) BY <1>0, SlabIn
<1>2. Range(f) \subseteq Pieces(sz[b], PerBucket)
  <2> SUFFICES ASSUME NEW c \in Range(f) PROVE c \in Pieces(sz[b], PerBucket) OBVIOUS
  <2>1. <<b, c>> \in FreePlaces(s) BY <1>0, <1>1, SlabIn
  <2>2. <<b, c>> \in SlabPlaces(sz) BY <2>1
  <2> QED BY <2>2, SlabIn
<1>3. /\ DOMAIN s = {"pool", "dirty"} /\ DOMAIN s.pool = Buckets
      /\ Listed(f) /\ s.pool[b].count = Len(f)
      /\ \A c \in Buckets : DOMAIN s.pool[c] = {"free", "count"}
      /\ \A c \in Buckets : Listed(s.pool[c].free) /\ s.pool[c].count = Len(s.pool[c].free)
  BY <1>0, <1>1 DEF SlabShape
<1>4. PerBucket \in Nat BY SizesAssumption
<1>5. Len(f) < PerBucket /\ Len(f) \in Nat /\ a \in Int
  <2>1. sz[b] \in Nat \ {0} BY <1>1
  <2>2. Len(f) < PerBucket BY <1>1, <1>2, <1>3, <1>4, <2>1, ListNotFull
  <2>3. Pieces(sz[b], PerBucket) \subseteq Int BY <1>4, <2>1, PiecesCard
  <2> QED BY <1>1, <1>3, <2>2, <2>3, ListCard
<1>6. r = [s EXCEPT !.pool[b] = [free |-> <<a>> \o f, count |-> s.pool[b].count + 1]]
  BY <1>0, <1>3, <1>4, <1>5 DEF SlabPush
<1> HIDE DEF r
<1>7. /\ DOMAIN r = DOMAIN s /\ r.dirty = s.dirty /\ DOMAIN r.pool = Buckets
      /\ r.pool[b] = [free |-> <<a>> \o f, count |-> s.pool[b].count + 1]
      /\ \A c \in Buckets : c # b => r.pool[c] = s.pool[c]
  BY <1>1, <1>3, <1>6
<1>8. DOMAIN r.pool[b] = {"free", "count"} /\ r.pool[b].free = <<a>> \o f /\ r.pool[b].count = Len(f) + 1
  BY <1>3, <1>7
<1>9. /\ Listed(<<a>> \o f) /\ Len(<<a>> \o f) = Len(f) + 1 /\ Range(<<a>> \o f) = Range(f) \cup {a}
  BY <1>1, <1>3, <1>5, ListPush
<1>10. SlabShape(r)
  <2>1. ASSUME NEW c \in Buckets
        PROVE  /\ DOMAIN r.pool[c] = {"free", "count"}
               /\ Listed(r.pool[c].free) /\ r.pool[c].count = Len(r.pool[c].free)
    <3>1. CASE c = b BY <1>8, <1>9, <3>1
    <3>2. CASE c # b BY <1>3, <1>7, <3>2
    <3> QED BY <3>1, <3>2
  <2> QED BY <1>3, <1>7, <2>1 DEF SlabShape
<1>11. FreePlaces(r) = FreePlaces(s) \cup {<<b, a>>}
  <2>1. \A c, d : <<c, d>> \in FreePlaces(r) <=> <<c, d>> \in FreePlaces(s) \/ (c = b /\ d = a)
    <3> SUFFICES ASSUME NEW c, NEW d
                 PROVE  <<c, d>> \in FreePlaces(r) <=> <<c, d>> \in FreePlaces(s) \/ (c = b /\ d = a)
      OBVIOUS
    <3>1. CASE c = b BY <1>0, <1>1, <1>8, <1>9, <3>1, SlabIn
    <3>2. CASE c # b BY <1>7, <3>2, SlabIn
    <3> QED BY <3>1, <3>2
  <2>2. \A x : x \in FreePlaces(r) \/ x \in FreePlaces(s) => \E c, d : x = <<c, d>>
    BY DEF FreePlaces, In
  <2>3. \A c, d : <<c, d>> = <<b, a>> <=> c = b /\ d = a OBVIOUS
  <2> QED BY <2>1, <2>2, <2>3
<1> QED BY <1>7, <1>10, <1>11 DEF r

SlabGood(s, B, H, sz) ==
  SlabShape(s) /\ Spread(B) /\ Parted(Places(B), FreePlaces(s), H, SlabPlaces(sz))

LEMMA SlabTaken ==
  ASSUME NEW s, NEW B, NEW H, NEW sz, SlabGood(s, B, H, sz), NEW b \in Buckets, s.pool[b].free # <<>>,
         NEW x, Pos(x) = <<b, Head(s.pool[b].free)>>
  PROVE  SlabGood(SlabPop(s, b), B \cup {x}, H, sz) /\ x \notin B /\ Pos(x) \in FreePlaces(s)
<1>1. /\ SlabShape(SlabPop(s, b)) /\ FreePlaces(SlabPop(s, b)) = FreePlaces(s) \ {Pos(x)}
      /\ Pos(x) \in FreePlaces(s)
  BY SlabPops DEF SlabGood
<1>2. Places(B) \cap FreePlaces(s) = {} BY DEF SlabGood, Parted
<1>3. Pos(x) \notin Places(B) BY <1>1, <1>2
<1>4. Spread(B \cup {x}) /\ Places(B \cup {x}) = Places(B) \cup {Pos(x)} BY <1>3, LiveMore DEF SlabGood
<1>5. /\ (Places(B) \cup {Pos(x)}) \cup (FreePlaces(s) \ {Pos(x)}) = Places(B) \cup FreePlaces(s)
      /\ (Places(B) \cup {Pos(x)}) \cap (FreePlaces(s) \ {Pos(x)}) = {}
  BY <1>1, <1>2, <1>3
<1>6. Parted(Places(B) \cup {Pos(x)}, FreePlaces(s) \ {Pos(x)}, H, SlabPlaces(sz))
  BY <1>5, PartCalls DEF SlabGood
<1>7. x \notin B BY <1>3 DEF Places
<1> QED BY <1>1, <1>4, <1>6, <1>7 DEF SlabGood

LEMMA SlabGiven ==
  ASSUME NEW s, NEW B, NEW H, NEW sz, SlabGood(s, B, H, sz), \A c \in Buckets : sz[c] \in Nat \ {0},
         NEW x \in B
  PROVE  SlabGood(SlabPush(s, x.buf, x.at), B \ {x}, H, sz)
<1>1. Spread(B \ {x}) /\ Places(B \ {x}) = Places(B) \ {Pos(x)} /\ Pos(x) \in Places(B)
  BY LiveLess DEF SlabGood
<1>2. /\ Places(B) \cap FreePlaces(s) = {} /\ Places(B) \subseteq SlabPlaces(sz)
      /\ FreePlaces(s) \subseteq SlabPlaces(sz)
  BY DEF SlabGood, Parted
<1>3. <<x.buf, x.at>> \in SlabPlaces(sz) /\ <<x.buf, x.at>> \notin FreePlaces(s)
  BY <1>1, <1>2 DEF Pos
<1>4. /\ SlabShape(SlabPush(s, x.buf, x.at))
      /\ FreePlaces(SlabPush(s, x.buf, x.at)) = FreePlaces(s) \cup {Pos(x)}
  BY <1>2, <1>3, SlabPushes DEF SlabGood, Pos
<1>5. /\ (Places(B) \ {Pos(x)}) \cup (FreePlaces(s) \cup {Pos(x)}) = Places(B) \cup FreePlaces(s)
      /\ (Places(B) \ {Pos(x)}) \cap (FreePlaces(s) \cup {Pos(x)}) = {}
  BY <1>1, <1>2
<1>6. Parted(Places(B) \ {Pos(x)}, FreePlaces(s) \cup {Pos(x)}, H, SlabPlaces(sz))
  BY <1>5, PartCalls DEF SlabGood
<1> QED BY <1>1, <1>4, <1>6 DEF SlabGood

SlabSizes == [b \in Buckets |-> SlabBlock(b)]
CSlabSizes == [b \in Buckets |-> CSlabBlock(b)]

LEMMA BucketFacts ==
  /\ Buckets = {1, 2} /\ PerBucket \in Nat \ {0}
  /\ SlabBlock(1) = 2 /\ SlabBlock(2) = 4 /\ CSlabBlock(1) = 1 /\ CSlabBlock(2) = 3
  /\ \A b \in Buckets : SlabSizes[b] \in Nat \ {0} /\ SlabSizes[b] = SlabBlock(b)
  /\ \A b \in Buckets : CSlabSizes[b] \in Nat \ {0} /\ CSlabSizes[b] = CSlabBlock(b)
<1>1. Len(BucketSizes) = 2 /\ BucketSizes[1] = 1 /\ BucketSizes[2] = 3 BY DEF BucketSizes
<1>2. Buckets = {1, 2} BY <1>1 DEF Buckets
<1>3. SlabBlock(1) = 2 /\ SlabBlock(2) = 4 BY <1>1 DEF SlabBlock, AlignUp, SlabAlign
<1>4. CSlabBlock(1) = 1 /\ CSlabBlock(2) = 3 BY <1>1 DEF CSlabBlock
<1> QED BY <1>2, <1>3, <1>4, SizesAssumption DEF SlabSizes, CSlabSizes

\* Every bucket starts full.
LEMMA SlabStarts ==
  ASSUME NEW sz, \A c \in Buckets : sz[c] \in Nat \ {0}, NEW s, DOMAIN s = {"pool", "dirty"},
         s.pool = [b \in Buckets |-> [free |-> Descending(sz[b], PerBucket), count |-> PerBucket]],
         NEW H, \A t \in Threads : H[t] = {}
  PROVE  SlabGood(s, {}, H, sz)
<1>1. ASSUME NEW b \in Buckets
      PROVE  /\ DOMAIN s.pool[b] = {"free", "count"} /\ Listed(s.pool[b].free)
             /\ s.pool[b].count = Len(s.pool[b].free)
             /\ Range(s.pool[b].free) = Pieces(sz[b], PerBucket)
  <2>1. s.pool[b] = [free |-> Descending(sz[b], PerBucket), count |-> PerBucket] OBVIOUS
  <2>2. /\ DOMAIN s.pool[b] = {"free", "count"} /\ s.pool[b].free = Descending(sz[b], PerBucket)
        /\ s.pool[b].count = PerBucket
    BY <2>1
  <2>3. sz[b] \in Nat \ {0} /\ PerBucket \in Nat BY SizesAssumption
  <2> QED BY <2>2, <2>3, DescendingList
<1>2. DOMAIN s.pool = Buckets OBVIOUS
<1>3. SlabShape(s) BY <1>1, <1>2 DEF SlabShape
<1>4. FreePlaces(s) = SlabPlaces(sz) BY <1>1 DEF FreePlaces, SlabPlaces
<1>5. Places({}) = {} /\ Spread({}) BY DEF Places, Spread
<1>6. Parted({}, SlabPlaces(sz), H, SlabPlaces(sz)) BY DEF Parted
<1> QED BY <1>3, <1>4, <1>5, <1>6 DEF SlabGood

SlabInv(s, B) == SlabGood(s, B, Nobody, SlabSizes) /\ \A b \in B : b.align \in {1, 2}

LEMMA SlabSteps ==
  ASSUME SlabNext, al = NotYet => live = {}, Up => SlabInv(al, live)
  PROVE  (~Up /\ al' = Gone) \/ slab_destroy \/ SlabInv(al', live')
<1>1. ASSUME NEW got, slab_create(got) PROVE al' = Gone \/ SlabInv(al', live')
  <2> DEFINE s == [pool |-> [b \in Buckets |-> slab_pool_init(b)], dirty |-> {}]
  <2>1. (al' = Gone \/ al' = s) /\ live' = {} BY <1>1 DEF slab_create, Create
  <2>2. DOMAIN s = {"pool", "dirty"} /\ s.pool = [b \in Buckets |-> slab_pool_init(b)] OBVIOUS
  <2>3. [b \in Buckets |-> slab_pool_init(b)]
          = [b \in Buckets |-> [free |-> Descending(SlabSizes[b], PerBucket), count |-> PerBucket]]
    BY BucketFacts DEF slab_pool_init
  <2> HIDE DEF s
  <2>4. \A t \in Threads : Nobody[t] = {} BY DEF Nobody
  <2>5. SlabGood(s, {}, Nobody, SlabSizes) BY <2>2, <2>3, <2>4, BucketFacts, SlabStarts
  <2> QED BY <2>1, <2>5 DEF SlabInv
<1>2. \A got : slab_create(got) => ~Up BY DEF slab_create, Create, Up
<1>3. CASE Up
  <2>0. /\ SlabGood(al, live, Nobody, SlabSizes) /\ \A b \in live : b.align \in {1, 2}
        /\ \A c \in Buckets : SlabSizes[c] \in Nat \ {0}
    BY <1>3, BucketFacts DEF SlabInv
  <2>1. Nothing => SlabInv(al', live') BY <1>3 DEF Nothing, Call
  <2>2. ASSUME NEW size, NEW align \in {1, 2, 4}, slab_malloc(size, align) PROVE SlabInv(al', live')
    <3>1. CASE align <= SlabAlign /\ SlabTakes(al, size)
      <4>1. PICK b \in Buckets : b = slab_pool_index(size) BY <3>1 DEF SlabTakes
      <4>2. PICK x : x = SlabTop(al, size, align) OBVIOUS
      <4>3. /\ al' = SlabPop(al, b) /\ live' = live \cup {x} /\ al.pool[b].free # <<>>
            /\ Pos(x) = <<b, Head(al.pool[b].free)>> /\ x.align = align
        BY <2>2, <3>1, <4>1, <4>2 DEF slab_malloc, Call, SlabTakes, SlabTop, Block, Pos
      <4>4. SlabGood(SlabPop(al, b), live \cup {x}, Nobody, SlabSizes) BY <2>0, <4>3, SlabTaken
      <4>5. align \in {1, 2} BY <3>1 DEF SlabAlign
      <4> QED BY <2>0, <4>3, <4>4, <4>5 DEF SlabInv
    <3> QED BY <2>1, <2>2, <3>1 DEF slab_malloc
  <2>3. ASSUME NEW n, NEW size, slab_calloc(n, size) PROVE SlabInv(al', live')
    BY <2>1, <2>2, <2>3 DEF slab_calloc
  <2>4. ASSUME NEW b \in live, slab_free(b) PROVE SlabInv(al', live')
    <3>1. al' = SlabPush(al, b.buf, b.at) /\ live' = live \ {b} BY <2>4 DEF slab_free, Call
    <3>2. SlabGood(SlabPush(al, b.buf, b.at), live \ {b}, Nobody, SlabSizes) BY <2>0, SlabGiven
    <3> QED BY <2>0, <3>1, <3>2 DEF SlabInv
  <2>5. ASSUME NEW b \in live, NEW size, slab_realloc(b, size) PROVE SlabInv(al', live')
    <3>1. CASE size = 0 BY <2>4, <2>5, <3>1 DEF slab_realloc
    <3>2. CASE size # 0 /\ SlabTakes(al, size)
      <4>1. PICK k \in Buckets : k = slab_pool_index(size) BY <3>2 DEF SlabTakes
      <4>2. PICK x : x = SlabTop(al, size, b.align) OBVIOUS
      <4>3. PICK s : s = SlabPop(al, k) OBVIOUS
      <4>4. /\ al' = SlabPush(s, b.buf, b.at) /\ live' = (live \ {b}) \cup {x} /\ al.pool[k].free # <<>>
            /\ Pos(x) = <<k, Head(al.pool[k].free)>> /\ x.align = b.align
        BY <2>5, <3>2, <4>1, <4>2, <4>3 DEF slab_realloc, Call, SlabTakes, SlabTop, Block, Pos
      <4>5. SlabGood(s, live \cup {x}, Nobody, SlabSizes) /\ x \notin live
        BY <2>0, <4>3, <4>4, SlabTaken
      <4>6. SlabGood(SlabPush(s, b.buf, b.at), (live \cup {x}) \ {b}, Nobody, SlabSizes)
        <5>1. b \in live \cup {x} OBVIOUS
        <5> QED BY <2>0, <4>5, <5>1, SlabGiven
      <4>7. (live \cup {x}) \ {b} = (live \ {b}) \cup {x} BY <4>5
      <4> QED BY <2>0, <4>4, <4>6, <4>7 DEF SlabInv
    <3> QED BY <2>1, <2>5, <3>1, <3>2 DEF slab_realloc
  <2> QED BY <1>1, <1>2, <2>2, <2>3, <2>4, <2>5 DEF SlabNext
<1>4. CASE ~Up BY <1>1, <1>2, <1>4 DEF SlabNext
<1> QED BY <1>3, <1>4

\* A block that cslab_free has taken from its caller and not yet listed.
CSlabLocals(me) == me.pc = "idle" \/ (me.pc \in {"zero", "give"} /\ {"pc", "b"} \subseteq DOMAIN me)
Carried(l) == [t \in Threads |-> IF l[t].pc = "idle" THEN {} ELSE {Pos(l[t].b)}]
CSlabWiped(s, l) ==
  /\ FreePlaces(s) \cap s.dirty = {}
  /\ \A t \in Threads : l[t].pc = "give" => Pos(l[t].b) \notin s.dirty
CSlabInv(s, B, l) ==
  /\ SlabGood(s, B, Carried(l), CSlabSizes)
  /\ DOMAIN l = Threads /\ \A t \in Threads : CSlabLocals(l[t])
  /\ CSlabWiped(s, l)
  /\ \A b \in B : {"buf", "at"} \subseteq DOMAIN b

LEMMA SlabDirt ==
  ASSUME NEW s, SlabShape(s), NEW D
  PROVE  LET r == [s EXCEPT !.dirty = D]
         IN SlabShape(r) /\ FreePlaces(r) = FreePlaces(s) /\ r.dirty = D
<1> DEFINE r == [s EXCEPT !.dirty = D]
<1>1. DOMAIN r = DOMAIN s /\ r.pool = s.pool /\ r.dirty = D BY DEF SlabShape
<1> HIDE DEF r
<1>2. SlabShape(r) BY <1>1 DEF SlabShape
<1>3. FreePlaces(r) = FreePlaces(s) BY <1>1 DEF FreePlaces
<1> QED BY <1>1, <1>2, <1>3 DEF r

\* A step of thread t changes its own locals only.
Moved(t, r) == DOMAIN loc' = Threads /\ loc'[t] = r /\ \A u \in Threads : u # t => loc'[u] = loc[u]

LEMMA LocalStep ==
  ASSUME DOMAIN loc = Threads, NEW t \in Threads, NEW r, loc' = [loc EXCEPT ![t] = r]
  PROVE  Moved(t, r)
BY DEF Moved

LEMMA CSlabFacts ==
  ASSUME CSlabInv(al, live, loc)
  PROVE  /\ SlabShape(al) /\ Spread(live) /\ SlabGood(al, live, Carried(loc), CSlabSizes)
         /\ Parted(Places(live), FreePlaces(al), Carried(loc), SlabPlaces(CSlabSizes))
         /\ DOMAIN loc = Threads /\ \A t \in Threads : CSlabLocals(loc[t])
         /\ FreePlaces(al) \cap al.dirty = {}
         /\ \A t \in Threads : loc[t].pc = "give" => Pos(loc[t].b) \notin al.dirty
         /\ \A b \in live : {"buf", "at"} \subseteq DOMAIN b
         /\ \A t \in Threads : loc[t].pc # "idle" =>
              Pos(loc[t].b) \notin FreePlaces(al) /\ Pos(loc[t].b) \notin Places(live)
<1>1. /\ SlabShape(al) /\ Spread(live) /\ SlabGood(al, live, Carried(loc), CSlabSizes)
      /\ Parted(Places(live), FreePlaces(al), Carried(loc), SlabPlaces(CSlabSizes))
  BY DEF CSlabInv, SlabGood
<1>2. ASSUME NEW t \in Threads, loc[t].pc # "idle"
      PROVE  Pos(loc[t].b) \notin FreePlaces(al) /\ Pos(loc[t].b) \notin Places(live)
  <2>1. Pos(loc[t].b) \in Carried(loc)[t] BY <1>2 DEF Carried
  <2>2. Carried(loc)[t] \cap (Places(live) \cup FreePlaces(al)) = {} BY <1>1 DEF Parted
  <2> QED BY <2>1, <2>2
<1> QED BY <1>1, <1>2 DEF CSlabInv, CSlabWiped

Zeroing(D, r) == \E b \in live : D = {b} /\ r = [pc |-> "zero", b |-> b]

\* A block is taken from a list; the caller may give another one away.
LEMMA CSlabTakes ==
  ASSUME CSlabInv(al, live, loc), NEW t \in Threads, At(t, "idle"), NEW k \in Buckets,
         al.pool[k].free # <<>>, NEW x, Pos(x) = <<k, Head(al.pool[k].free)>>,
         {"buf", "at"} \subseteq DOMAIN x, NEW D, D \subseteq live,
         NEW s, s = SlabPop(al, k), al' = [s EXCEPT !.dirty = @ \cup {Pos(x)}],
         live' = (live \ D) \cup {x}, NEW r, Moved(t, r),
         \/ D = {} /\ r = Idle
         \/ Zeroing(D, r)
  PROVE  CSlabInv(al', live', loc')
<1> USE CSlabFacts
<1>2. SlabGood(s, live \cup {x}, Carried(loc), CSlabSizes) /\ x \notin live /\ Pos(x) \in FreePlaces(al)
  BY SlabTaken
<1>3. /\ SlabShape(s) /\ s.dirty = al.dirty /\ FreePlaces(s) = FreePlaces(al) \ {Pos(x)}
  BY SlabPops
<1>4. SlabShape(al') /\ FreePlaces(al') = FreePlaces(s) /\ al'.dirty = al.dirty \cup {Pos(x)}
  BY <1>3, SlabDirt
<1>6. DOMAIN loc' = Threads /\ loc'[t] = r /\ \A u \in Threads : u # t => loc'[u] = loc[u]
  BY DEF Moved
<1>7. CSlabLocals(r) /\ r.pc \in {"idle", "zero"} BY DEF CSlabLocals, Idle, Zeroing
<1>8. Carried(loc')[t] = Places(D) /\ Carried(loc)[t] = {}
  BY <1>6 DEF Carried, Places, Idle, At, Zeroing
<1>9. \A u \in Threads : u # t => Carried(loc')[u] = Carried(loc)[u] BY <1>6 DEF Carried
<1>10. /\ Spread(live') /\ Places(live') = (Places(live) \ Places(D)) \cup {Pos(x)}
       /\ Places(D) \subseteq Places(live)
  <2>1. /\ Spread(live \ D) /\ Places(live \ D) = Places(live) \ Places(D) /\ Places(D) \subseteq Places(live)
    <3>1. CASE D = {} BY <3>1 DEF Places
    <3>2. ASSUME NEW b \in live, D = {b}
          PROVE  /\ Spread(live \ D) /\ Places(live \ D) = Places(live) \ Places(D)
                 /\ Places(D) \subseteq Places(live)
      <4>1. Places({b}) = {Pos(b)} BY DEF Places
      <4> QED BY <3>2, <4>1, LiveLess
    <3> QED BY <3>1, <3>2 DEF Zeroing
  <2>2. Pos(x) \notin Places(live)
    <3>1. Places(live) \cap FreePlaces(al) = {} BY DEF Parted
    <3> QED BY <1>2, <3>1
  <2> QED BY <2>1, <2>2, LiveMore
<1>11. Parted(Places(live'), FreePlaces(al'), Carried(loc'), SlabPlaces(CSlabSizes))
  <2>1. Places(live) \cap FreePlaces(al) = {} BY DEF Parted
  <2>2. PICK L : L = Places(live) OBVIOUS
  <2>3. PICK F : F = FreePlaces(al) OBVIOUS
  <2>4. PICK P : P = Places(D) OBVIOUS
  <2>5. PICK q : q = Pos(x) OBVIOUS
  <2>6. q \in F /\ L \cap F = {} /\ P \subseteq L BY <1>2, <1>10, <2>1, <2>2, <2>3, <2>4, <2>5
  <2>7. /\ ((L \ P) \cup {q}) \cup (F \ {q}) \cup P = L \cup F \cup {}
        /\ ((L \ P) \cup {q}) \cap (F \ {q}) = {}
        /\ P \cap (((L \ P) \cup {q}) \cup (F \ {q})) = {}
    BY <2>6
  <2>8. /\ Places(live') = (L \ P) \cup {q} /\ FreePlaces(al') = F \ {q}
        /\ Carried(loc')[t] = P /\ Carried(loc)[t] = {}
    BY <1>3, <1>4, <1>8, <1>10, <2>2, <2>3, <2>4, <2>5
  <2>9. /\ Places(live') \cup FreePlaces(al') \cup Carried(loc')[t]
             = Places(live) \cup FreePlaces(al) \cup Carried(loc)[t]
        /\ Places(live') \cap FreePlaces(al') = {}
        /\ Carried(loc')[t] \cap (Places(live') \cup FreePlaces(al')) = {}
    BY <2>2, <2>3, <2>7, <2>8
  <2>10. Parted(Places(live), FreePlaces(al), Carried(loc), SlabPlaces(CSlabSizes)) OBVIOUS
  <2> QED BY ONLY <1>9, <2>9, <2>10, PartMoves, t \in Threads
<1>12. CSlabWiped(al', loc')
  <2>1. FreePlaces(al') \cap al'.dirty = {} BY <1>3, <1>4
  <2>2. ASSUME NEW u \in Threads, loc'[u].pc = "give" PROVE Pos(loc'[u].b) \notin al'.dirty
    <3>1. u # t BY <1>6, <1>7, <2>2
    <3>2. loc[u].pc = "give" /\ loc'[u] = loc[u] BY <1>6, <2>2, <3>1
    <3>3. Pos(loc[u].b) \notin al.dirty /\ Pos(loc[u].b) \notin FreePlaces(al) BY <3>2
    <3>4. Pos(loc[u].b) # Pos(x) BY <1>2, <3>3
    <3> QED BY <1>4, <3>2, <3>3, <3>4
  <2> QED BY <2>1, <2>2 DEF CSlabWiped
<1>13. \A u \in Threads : CSlabLocals(loc'[u]) BY <1>6, <1>7
<1>14. \A b \in live' : {"buf", "at"} \subseteq DOMAIN b OBVIOUS
<1> QED BY <1>4, <1>6, <1>10, <1>11, <1>12, <1>13, <1>14 DEF CSlabInv, SlabGood

LEMMA CSlabBegins ==
  ASSUME CSlabInv(al, live, loc), NEW t \in Threads, At(t, "idle"), NEW b \in live,
         al' = al, live' = live \ {b}, loc' = [loc EXCEPT ![t] = [pc |-> "zero", b |-> b]]
  PROVE  CSlabInv(al', live', loc')
<1> USE CSlabFacts
<1>1. PICK r : r = [pc |-> "zero", b |-> b] OBVIOUS
<1>2. CSlabLocals(r) /\ r.pc = "zero" /\ r.b = b BY <1>1 DEF CSlabLocals
<1>3. DOMAIN loc' = Threads /\ loc'[t] = r /\ \A u \in Threads : u # t => loc'[u] = loc[u]
  BY <1>1, LocalStep DEF Moved
<1>4. Carried(loc')[t] = {Pos(b)} /\ Carried(loc)[t] = {} BY <1>2, <1>3 DEF Carried, At
<1>5. \A u \in Threads : u # t => Carried(loc')[u] = Carried(loc)[u] BY <1>3 DEF Carried
<1>6. Spread(live') /\ Places(live') = Places(live) \ {Pos(b)} /\ Pos(b) \in Places(live) BY LiveLess
<1>7. Parted(Places(live'), FreePlaces(al'), Carried(loc'), SlabPlaces(CSlabSizes))
  <2>1. Places(live) \cap FreePlaces(al) = {} BY DEF Parted
  <2>2. /\ Places(live') \cup FreePlaces(al) \cup {Pos(b)} = Places(live) \cup FreePlaces(al) \cup {}
        /\ Places(live') \cap FreePlaces(al) = {}
        /\ {Pos(b)} \cap (Places(live') \cup FreePlaces(al)) = {}
    BY <1>6, <2>1
  <2>3. FreePlaces(al') = FreePlaces(al) OBVIOUS
  <2>4. /\ Places(live') \cup FreePlaces(al') \cup Carried(loc')[t]
             = Places(live) \cup FreePlaces(al) \cup Carried(loc)[t]
        /\ Places(live') \cap FreePlaces(al') = {}
        /\ Carried(loc')[t] \cap (Places(live') \cup FreePlaces(al')) = {}
    BY <1>4, <2>2, <2>3
  <2>5. Parted(Places(live), FreePlaces(al), Carried(loc), SlabPlaces(CSlabSizes)) OBVIOUS
  <2> QED BY ONLY <1>5, <2>4, <2>5, PartMoves, t \in Threads
<1>8. CSlabWiped(al', loc') BY <1>2, <1>3 DEF CSlabWiped
<1>9. \A u \in Threads : CSlabLocals(loc'[u]) BY <1>2, <1>3
<1> QED BY <1>3, <1>6, <1>7, <1>8, <1>9 DEF CSlabInv, SlabGood

LEMMA CSlabMoves ==
  ASSUME CSlabInv(al, live, loc), NEW t \in Threads, CSlabSteps(t)
  PROVE  CSlabInv(al', live', loc')
<1> USE CSlabFacts
<1>1. PICK b : b = loc[t].b OBVIOUS
<1>2. loc[t].pc \in {"zero", "give"} /\ {"pc", "b"} \subseteq DOMAIN loc[t]
  <2>1. loc[t].pc \in {"zero", "give"} BY DEF CSlabSteps, At
  <2>2. CSlabLocals(loc[t]) OBVIOUS
  <2> QED BY <2>1, <2>2 DEF CSlabLocals
<1>3. Carried(loc)[t] = {Pos(b)} BY <1>1, <1>2 DEF Carried
<1>4. live' = live BY DEF CSlabSteps, Step, Return, Finish
<1>5. CASE At(t, "zero")
  <2>1. /\ al' = [al EXCEPT !.dirty = @ \ {Pos(b)}]
        /\ loc' = [loc EXCEPT ![t] = With(loc[t], To("give"))]
    BY <1>1, <1>5 DEF CSlabSteps, At, Step, Pos
  <2>2. SlabShape(al') /\ FreePlaces(al') = FreePlaces(al) /\ al'.dirty = al.dirty \ {Pos(b)}
    BY <2>1, SlabDirt
  <2>3. PICK r : r = With(loc[t], To("give")) OBVIOUS
  <2>4. r.pc = "give" /\ r.b = b /\ {"pc", "b"} \subseteq DOMAIN r BY <1>1, <1>2, <2>3 DEF To, With
  <2>5. DOMAIN loc' = Threads /\ loc'[t] = r /\ \A u \in Threads : u # t => loc'[u] = loc[u]
    BY <2>1, <2>3, LocalStep DEF Moved
  <2>6. Carried(loc') = Carried(loc)
    <3>1. \A u \in Threads : (loc'[u].pc = "idle" <=> loc[u].pc = "idle") /\ (loc[u].pc # "idle" => loc'[u].b = loc[u].b)
      BY <1>1, <1>2, <2>4, <2>5
    <3> QED BY <3>1 DEF Carried
  <2>7. CSlabWiped(al', loc') BY <2>2, <2>4, <2>5 DEF CSlabWiped
  <2>8. \A u \in Threads : CSlabLocals(loc'[u]) BY <2>4, <2>5 DEF CSlabLocals
  <2>9. Parted(Places(live'), FreePlaces(al'), Carried(loc'), SlabPlaces(CSlabSizes)) BY <1>4, <2>2, <2>6
  <2> QED BY <1>4, <2>2, <2>5, <2>7, <2>8, <2>9 DEF CSlabInv, SlabGood
<1>6. CASE At(t, "give")
  <2>1. al' = SlabPush(al, b.buf, b.at) /\ loc' = [loc EXCEPT ![t] = Idle]
    BY <1>1, <1>6 DEF CSlabSteps, At, Return, Finish
  <2>2. /\ Pos(b) \in SlabPlaces(CSlabSizes) /\ Pos(b) \notin FreePlaces(al) /\ Pos(b) \notin Places(live)
        /\ FreePlaces(al) \subseteq SlabPlaces(CSlabSizes) /\ Places(live) \cap FreePlaces(al) = {}
        /\ Pos(b) \notin al.dirty
    <3>1. Pos(b) \in Carried(loc)[t] BY <1>3
    <3> QED BY <1>1, <1>2, <1>6, <3>1 DEF Parted, At
  <2>3. /\ SlabShape(al') /\ al'.dirty = al.dirty /\ FreePlaces(al') = FreePlaces(al) \cup {Pos(b)}
    BY <2>1, <2>2, SlabPushes, BucketFacts DEF Pos
  <2>4. DOMAIN loc' = Threads /\ loc'[t] = Idle /\ \A u \in Threads : u # t => loc'[u] = loc[u]
    BY <2>1, LocalStep DEF Moved
  <2>5. Carried(loc')[t] = {} BY <2>4 DEF Carried, Idle
  <2>6. \A u \in Threads : u # t => Carried(loc')[u] = Carried(loc)[u] BY <2>4 DEF Carried
  <2>7. /\ Places(live) \cup FreePlaces(al') \cup {} = Places(live) \cup FreePlaces(al) \cup {Pos(b)}
        /\ Places(live) \cap FreePlaces(al') = {} /\ {} \cap (Places(live) \cup FreePlaces(al')) = {}
    BY <2>2, <2>3
  <2>8. Parted(Places(live), FreePlaces(al'), Carried(loc'), SlabPlaces(CSlabSizes))
    BY <1>3, <2>5, <2>6, <2>7, PartMoves
  <2>9. CSlabWiped(al', loc')
    BY <2>2, <2>3, <2>4 DEF CSlabWiped, Idle
  <2>10. \A u \in Threads : CSlabLocals(loc'[u]) BY <2>4 DEF CSlabLocals, Idle
  <2> QED BY <1>4, <2>3, <2>4, <2>8, <2>9, <2>10 DEF CSlabInv, SlabGood
<1> QED BY <1>5, <1>6 DEF CSlabSteps

\* A call that ends at once, where every block stays.
LEMMA CSlabStays ==
  ASSUME CSlabInv(al, live, loc), NEW t \in Threads, At(t, "idle"), al' = al,
         Spread(live'), Places(live') = Places(live), \A b \in live' : {"buf", "at"} \subseteq DOMAIN b,
         loc' = [loc EXCEPT ![t] = Idle]
  PROVE  CSlabInv(al', live', loc')
<1> USE CSlabFacts
<1>1. DOMAIN loc' = Threads /\ loc'[t] = Idle /\ \A u \in Threads : u # t => loc'[u] = loc[u]
  BY LocalStep DEF Moved
<1>2. Carried(loc') = Carried(loc)
  <2>1. \A u \in Threads : (loc'[u].pc = "idle" <=> loc[u].pc = "idle") /\ (loc[u].pc # "idle" => loc'[u].b = loc[u].b)
    BY <1>1 DEF Idle, At
  <2> QED BY <2>1 DEF Carried
<1>3. CSlabWiped(al', loc') BY <1>1 DEF CSlabWiped, Idle
<1>4. \A u \in Threads : CSlabLocals(loc'[u]) BY <1>1 DEF CSlabLocals, Idle
<1> QED BY <1>1, <1>2, <1>3, <1>4 DEF CSlabInv, SlabGood

LEMMA CSlabNextSteps ==
  ASSUME CSlabNext, DOMAIN loc = Threads, al = NotYet => live = {}, Up => CSlabInv(al, live, loc)
  PROVE  (~Up /\ al' = Gone) \/ cslab_destroy \/ CSlabInv(al', live', loc')
<1>1. ASSUME NEW got, cslab_create(got) PROVE al' = Gone \/ CSlabInv(al', live', loc')
  <2> DEFINE s == [pool |-> [b \in Buckets |-> cslab_pool_init(b)], dirty |-> {}]
  <2>1. (al' = Gone \/ al' = s) /\ live' = {} /\ loc' = loc /\ Quiet BY <1>1 DEF cslab_create, Create
  <2>2. DOMAIN s = {"pool", "dirty"} /\ s.pool = [b \in Buckets |-> cslab_pool_init(b)] /\ s.dirty = {} OBVIOUS
  <2>3. [b \in Buckets |-> cslab_pool_init(b)]
          = [b \in Buckets |-> [free |-> Descending(CSlabSizes[b], PerBucket), count |-> PerBucket]]
    BY BucketFacts DEF cslab_pool_init
  <2> HIDE DEF s
  <2>4. \A t \in Threads : loc[t].pc = "idle" BY <2>1 DEF Quiet, At
  <2>5. \A t \in Threads : Carried(loc)[t] = {} BY <2>4 DEF Carried
  <2>6. SlabGood(s, {}, Carried(loc), CSlabSizes) BY <2>2, <2>3, <2>5, BucketFacts, SlabStarts
  <2>7. CSlabWiped(s, loc) BY <2>2, <2>4 DEF CSlabWiped
  <2>8. \A t \in Threads : CSlabLocals(loc[t]) BY <2>4 DEF CSlabLocals
  <2>9. CSlabInv(s, {}, loc) BY <2>6, <2>7, <2>8 DEF CSlabInv
  <2> QED BY <2>1, <2>9
<1>2. \A got : cslab_create(got) => ~Up BY DEF cslab_create, Create, Up
<1>3. CASE Up
  <2>0. CSlabInv(al, live, loc) BY <1>3
  <2>1. ASSUME NEW t \in Threads, Refuse(t) PROVE CSlabInv(al', live', loc')
    <3>1. At(t, "idle") /\ al' = al /\ live' = live /\ loc' = [loc EXCEPT ![t] = Idle]
      BY <2>1 DEF Refuse, Begin
    <3>2. Spread(live') /\ Places(live') = Places(live) /\ \A b \in live' : {"buf", "at"} \subseteq DOMAIN b
      BY <2>0, <3>1, CSlabFacts
    <3> QED BY <2>0, <3>1, <3>2, CSlabStays
  <2>2. ASSUME NEW t \in Threads, NEW size, cslab_malloc(t, size) PROVE CSlabInv(al', live', loc')
    <3>1. CASE SlabTakes(al, size)
      <4>1. PICK k \in Buckets : k = slab_pool_index(size) BY <3>1 DEF SlabTakes
      <4>2. PICK x : x = SlabTop(al, size, 1) OBVIOUS
      <4>3. /\ At(t, "idle") /\ al' = [SlabPop(al, x.buf) EXCEPT !.dirty = @ \cup {<<x.buf, x.at>>}]
            /\ live' = live \cup {x} /\ loc' = [loc EXCEPT ![t] = Idle]
        BY <2>2, <3>1, <4>2 DEF cslab_malloc, Begin
      <4>4. /\ x.buf = k /\ Pos(x) = <<k, Head(al.pool[k].free)>> /\ {"buf", "at"} \subseteq DOMAIN x
            /\ al.pool[k].free # <<>>
        BY <3>1, <4>1, <4>2 DEF SlabTakes, SlabTop, Block, Pos
      <4>5. al' = [SlabPop(al, k) EXCEPT !.dirty = @ \cup {Pos(x)}] /\ live' = (live \ {}) \cup {x}
        BY <4>3, <4>4 DEF Pos
      <4>6. PICK D : D = {} OBVIOUS
      <4>7. /\ D \subseteq live /\ live' = (live \ D) \cup {x}
        BY <4>3, <4>6
      <4>8. Moved(t, Idle) BY <4>3, LocalStep
      <4> QED BY <2>0, <4>3, <4>4, <4>5, <4>6, <4>7, <4>8, CSlabTakes
    <3> QED BY <2>1, <2>2, <3>1 DEF cslab_malloc
  <2>3. ASSUME NEW t \in Threads, NEW n, NEW size, cslab_calloc(t, n, size) PROVE CSlabInv(al', live', loc')
    BY <2>1, <2>2, <2>3 DEF cslab_calloc
  <2>4. ASSUME NEW t \in Threads, NEW b \in live, cslab_free(t, b) PROVE CSlabInv(al', live', loc')
    <3>1. /\ At(t, "idle") /\ al' = al /\ live' = live \ {b}
          /\ loc' = [loc EXCEPT ![t] = [pc |-> "zero", b |-> b]]
      BY <2>4 DEF cslab_free, Begin
    <3> QED BY <2>0, <3>1, CSlabBegins
  <2>5. ASSUME NEW t \in Threads, NEW b \in live, NEW size, cslab_realloc(t, b, size)
        PROVE  CSlabInv(al', live', loc')
    <3>1. CASE size = 0 BY <2>4, <2>5, <3>1 DEF cslab_realloc
    <3>2. CASE size # 0 /\ slab_pool_index(b.len) = slab_pool_index(size)
      <4>1. PICK c : c = [b EXCEPT !.len = size] OBVIOUS
      <4>2. /\ At(t, "idle") /\ al' = al /\ live' = (live \ {b}) \cup {c} /\ loc' = [loc EXCEPT ![t] = Idle]
        BY <2>5, <3>2, <4>1 DEF cslab_realloc, Begin
      <4>3. {"buf", "at"} \subseteq DOMAIN b BY <2>0, CSlabFacts
      <4>4. Pos(c) = Pos(b) /\ {"buf", "at"} \subseteq DOMAIN c BY <4>1, <4>3 DEF Pos
      <4>5. /\ Spread(live \ {b}) /\ Places(live \ {b}) = Places(live) \ {Pos(b)} /\ Pos(b) \in Places(live)
        BY <2>0, CSlabFacts, LiveLess
      <4>6. Pos(c) \notin Places(live \ {b}) BY <4>4, <4>5
      <4>7. Spread(live') /\ Places(live') = Places(live \ {b}) \cup {Pos(c)} BY <4>2, <4>5, <4>6, LiveMore
      <4>8. Places(live') = Places(live) BY <4>4, <4>5, <4>7
      <4>9. \A d \in live' : {"buf", "at"} \subseteq DOMAIN d BY <2>0, <4>2, <4>4, CSlabFacts
      <4> QED BY <2>0, <4>2, <4>7, <4>8, <4>9, CSlabStays
    <3>3. CASE size # 0 /\ slab_pool_index(b.len) # slab_pool_index(size) /\ SlabTakes(al, size)
      <4>1. PICK k \in Buckets : k = slab_pool_index(size) BY <3>3 DEF SlabTakes
      <4>2. PICK x : x = SlabTop(al, size, 1) OBVIOUS
      <4>3. /\ At(t, "idle") /\ al' = [SlabPop(al, x.buf) EXCEPT !.dirty = @ \cup {<<x.buf, x.at>>}]
            /\ live' = (live \ {b}) \cup {x} /\ loc' = [loc EXCEPT ![t] = [pc |-> "zero", b |-> b]]
        BY <2>5, <3>3, <4>2 DEF cslab_realloc, Begin
      <4>4. /\ x.buf = k /\ Pos(x) = <<k, Head(al.pool[k].free)>> /\ {"buf", "at"} \subseteq DOMAIN x
            /\ al.pool[k].free # <<>>
        BY <3>3, <4>1, <4>2 DEF SlabTakes, SlabTop, Block, Pos
      <4>5. al' = [SlabPop(al, k) EXCEPT !.dirty = @ \cup {Pos(x)}] BY <4>3, <4>4 DEF Pos
      <4>6. PICK D : D = {b} OBVIOUS
      <4>7. /\ D \subseteq live /\ live' = (live \ D) \cup {x}
        BY <4>3, <4>6
      <4>8. PICK r : r = [pc |-> "zero", b |-> b] OBVIOUS
      <4>9. Moved(t, r) BY <4>3, <4>8, LocalStep
      <4>10. Zeroing(D, r) BY <4>6, <4>8 DEF Zeroing
      <4> QED BY <2>0, <4>3, <4>4, <4>5, <4>7, <4>9, <4>10, CSlabTakes
    <3> QED BY <2>1, <2>5, <3>1, <3>2, <3>3 DEF cslab_realloc
  <2>6. ASSUME NEW t \in Threads, CSlabSteps(t) PROVE CSlabInv(al', live', loc') BY <2>0, <2>6, CSlabMoves
  <2> QED BY <1>1, <1>2, <2>2, <2>3, <2>4, <2>5, <2>6 DEF CSlabNext
<1>4. CASE ~Up BY <1>1, <1>2, <1>4 DEF CSlabNext
<1> QED BY <1>3, <1>4

-----------------------------------------------------------------------------
(* arena and carena: what is handed out of a buffer lies below its offset, *)
(* end[buf].                                                               *)

Off(b, c) == b.buf # c.buf \/ b.at + b.len <= c.at \/ c.at + c.len <= b.at
Aligned(b) == b.align \in {1, 2} /\ b.at \in Nat /\ b.at % b.align = 0
Heaped(B, end) ==
  /\ \A b \in B : Aligned(b) /\ b.len \in Nat /\ b.buf \in DOMAIN end /\ b.at + b.len <= end[b.buf]
  /\ \A b, c \in B : b # c => Off(b, c)

LEMMA HeapLess ==
  ASSUME NEW B, NEW end, NEW C, NEW more, Heaped(B, end), C \subseteq B,
         \A b \in C : b.buf \in DOMAIN more /\ more[b.buf] = end[b.buf]
  PROVE  Heaped(C, more)
BY DEF Heaped

LEMMA HeapMore ==
  ASSUME NEW B, NEW end, NEW C, NEW more, NEW x, Heaped(B, end), C \subseteq B,
         \A b \in C : /\ b.buf \in DOMAIN more /\ more[b.buf] \in Nat /\ end[b.buf] \in Nat
                      /\ end[b.buf] <= more[b.buf]
                      /\ b.buf = x.buf => end[b.buf] <= x.at,
         Aligned(x), x.len \in Nat, x.buf \in DOMAIN more, x.at + x.len <= more[x.buf]
  PROVE  Heaped(C \cup {x}, more)
<1>1. ASSUME NEW b \in C
      PROVE  /\ Aligned(b) /\ b.len \in Nat /\ b.buf \in DOMAIN more /\ b.at + b.len <= more[b.buf]
             /\ Off(b, x) /\ Off(x, b)
  <2>1. /\ Aligned(b) /\ b.at \in Nat /\ b.len \in Nat /\ b.at + b.len <= end[b.buf]
        /\ b.buf \in DOMAIN more /\ more[b.buf] \in Nat /\ end[b.buf] \in Nat
        /\ end[b.buf] <= more[b.buf] /\ (b.buf = x.buf => end[b.buf] <= x.at) /\ x.at \in Nat
    BY DEF Heaped, Aligned
  <2>2. b.at + b.len <= more[b.buf] BY <2>1
  <2>3. b.buf = x.buf => b.at + b.len <= x.at BY <2>1
  <2> QED BY <2>1, <2>2, <2>3 DEF Off
<1>2. \A b, c \in C : b # c => Off(b, c) BY DEF Heaped
<1> QED BY <1>1, <1>2 DEF Heaped

LEMMA AlignedUp ==
  ASSUME NEW n \in Nat, NEW a \in {1, 2}
  PROVE  AlignUp(n, a) \in Nat /\ n <= AlignUp(n, a) /\ AlignUp(n, a) % a = 0
<1>1. CASE a = 1 BY <1>1 DEF AlignUp
<1>2. CASE a = 2 BY <1>2 DEF AlignUp
<1> QED BY <1>1, <1>2

IsSeq(f) == \E T : f \in Seq(T)

LEMMA SeqFacts ==
  ASSUME NEW f, IsSeq(f)
  PROVE  /\ Len(f) \in Nat /\ DOMAIN f = 1 .. Len(f)
         /\ \A x : /\ IsSeq(Append(f, x)) /\ Len(Append(f, x)) = Len(f) + 1
                   /\ DOMAIN Append(f, x) = 1 .. Len(f) + 1
                   /\ Append(f, x)[Len(f) + 1] = x
                   /\ \A i \in 1 .. Len(f) : Append(f, x)[i] = f[i]
<1>1. PICK T : f \in Seq(T) BY DEF IsSeq
<1>2. Len(f) \in Nat /\ DOMAIN f = 1 .. Len(f) /\ f \in [1 .. Len(f) -> T] BY <1>1, LenProperties
<1>3. ASSUME NEW x
      PROVE  /\ IsSeq(Append(f, x)) /\ Len(Append(f, x)) = Len(f) + 1
             /\ DOMAIN Append(f, x) = 1 .. Len(f) + 1
             /\ Append(f, x)[Len(f) + 1] = x
             /\ \A i \in 1 .. Len(f) : Append(f, x)[i] = f[i]
  <2>1. f \in Seq(T \cup {x}) /\ x \in T \cup {x}
    <3>1. f \in [1 .. Len(f) -> T \cup {x}] BY <1>2
    <3> QED BY <1>2, <3>1, SeqDef
  <2>2. /\ Append(f, x) \in Seq(T \cup {x}) /\ Len(Append(f, x)) = Len(f) + 1
        /\ \A i \in 1 .. Len(f) : Append(f, x)[i] = f[i]
        /\ Append(f, x)[Len(f) + 1] = x
    BY <2>1, AppendProperties
  <2>3. DOMAIN Append(f, x) = 1 .. Len(f) + 1 BY <2>2, LenProperties
  <2> QED BY <2>2, <2>3 DEF IsSeq
<1> QED BY <1>2, <1>3

Ends(s) == [n \in DOMAIN s.node |-> s.node[n].offset]
ArenaShape(s) ==
  /\ DOMAIN s = {"node", "chain", "current", "total"}
  /\ IsSeq(s.node) /\ s.current \in DOMAIN s.node
  /\ \A n \in DOMAIN s.node : DOMAIN s.node[n] = {"offset", "cap", "used"} /\ s.node[n].offset \in Nat
  /\ s.chain \in Seq(Nat) /\ Range(s.chain) = DOMAIN s.node
Owing(s) == {State, Vtable} \cup UNION {NodeParts(n) : n \in Range(s.chain)}
ArenaInv(s, B, o) == ArenaShape(s) /\ Heaped(B, Ends(s)) /\ o = Owing(s)

\* A block at the end of what the node n has handed out.
Bumped(s, r, n, end) ==
  /\ ArenaShape(r) /\ DOMAIN r.node = DOMAIN s.node /\ r.node[n].offset = end
  /\ \A m \in DOMAIN s.node : m # n => r.node[m] = s.node[m]
  /\ r.chain = s.chain /\ r.total = s.total

LEMMA ArenaBumps ==
  ASSUME NEW s, ArenaShape(s), NEW n \in DOMAIN s.node, NEW at \in Nat, NEW size \in Nat
  PROVE  Bumped(s, Bump(s, n, at, size), n, at + size)
<1>0. PICK r : r = Bump(s, n, at, size) OBVIOUS
<1>1. /\ DOMAIN s = {"node", "chain", "current", "total"} /\ IsSeq(s.node)
      /\ DOMAIN s.node[n] = {"offset", "cap", "used"}
  BY DEF ArenaShape
<1>2. PICK f : f = [[s.node EXCEPT ![n].offset = at + size] EXCEPT ![n].used = @ + size] OBVIOUS
<1>3. /\ DOMAIN r = DOMAIN s /\ r.node = f /\ r.current = n /\ r.chain = s.chain /\ r.total = s.total
  BY <1>0, <1>1, <1>2 DEF Bump
<1>4. /\ DOMAIN f = DOMAIN s.node /\ f[n].offset = at + size /\ DOMAIN f[n] = {"offset", "cap", "used"}
      /\ \A m \in DOMAIN s.node : m # n => f[m] = s.node[m]
  BY <1>1, <1>2
<1>5. IsSeq(f)
  <2>1. Len(s.node) \in Nat /\ DOMAIN s.node = 1 .. Len(s.node) BY <1>1, SeqFacts
  <2>2. f = [i \in 1 .. Len(s.node) |-> f[i]] BY <1>2, <1>4, <2>1
  <2>3. f \in [1 .. Len(s.node) -> {f[i] : i \in 1 .. Len(s.node)}] BY <2>2
  <2> QED BY <2>1, <2>3, SeqDef DEF IsSeq
<1>6. ArenaShape(r) BY <1>1, <1>3, <1>4, <1>5 DEF ArenaShape
<1> QED BY <1>0, <1>3, <1>4, <1>6 DEF Bumped

\* A node is put behind another one.
LEMMA Inserted ==
  ASSUME NEW c \in Seq(Nat), NEW n \in Range(c), NEW m \in Nat
  PROVE  InsertAfter(c, n, m) \in Seq(Nat) /\ Range(InsertAfter(c, n, m)) = Range(c) \cup {m}
<1> DEFINE i == CHOOSE j \in DOMAIN c : c[j] = n
<1>1. Len(c) \in Nat /\ DOMAIN c = 1 .. Len(c) /\ \A j \in 1 .. Len(c) : c[j] \in Nat BY LenProperties
<1>2. i \in 1 .. Len(c)
  <2>1. \E j \in DOMAIN c : c[j] = n BY DEF Range
  <2>2. i \in DOMAIN c BY <2>1
  <2> QED BY <1>1, <2>2
<1>3. InsertAfter(c, n, m) = SubSeq(c, 1, i) \o <<m>> \o SubSeq(c, i + 1, Len(c)) BY DEF InsertAfter
<1> HIDE DEF i
<1>4. PICK a : a = SubSeq(c, 1, i) OBVIOUS
<1>5. PICK b : b = SubSeq(c, i + 1, Len(c)) OBVIOUS
<1>6. a \in Seq(Nat) /\ Len(a) = i /\ \A j \in 1 .. i : a[j] = c[j]
  <2>1. a = [j \in 1 .. i |-> c[1 + j - 1]] BY <1>1, <1>2, <1>4
  <2>2. a = [j \in 1 .. i |-> c[j]] BY <1>1, <1>2, <2>1
  <2>3. a \in [1 .. i -> Nat] /\ \A j \in 1 .. i : a[j] = c[j] BY <1>1, <1>2, <2>2
  <2> QED BY <1>2, <2>3, SeqDef, LenProperties
<1>7. b \in Seq(Nat) /\ Len(b) = Len(c) - i /\ \A j \in 1 .. Len(c) - i : b[j] = c[j + i]
  <2>1. b = [j \in 1 .. (Len(c) - i) |-> c[j + i]] BY <1>1, <1>2, <1>5
  <2>2. b \in [1 .. (Len(c) - i) -> Nat] /\ \A j \in 1 .. Len(c) - i : b[j] = c[j + i]
    BY <1>1, <1>2, <2>1
  <2>3. Len(c) - i \in Nat BY <1>1, <1>2
  <2> QED BY <2>2, <2>3, SeqDef, LenProperties
<1>8. <<m>> \in Seq(Nat) /\ Len(<<m>>) = 1 /\ <<m>>[1] = m OBVIOUS
<1>9. PICK d : d = a \o <<m>> OBVIOUS
<1>10. /\ d \in Seq(Nat) /\ Len(d) = i + 1
       /\ \A j \in 1 .. i + 1 : d[j] = IF j <= i THEN a[j] ELSE <<m>>[j - i]
  BY <1>2, <1>6, <1>8, <1>9, ConcatProperties
<1>11. d[i + 1] = m /\ \A j \in 1 .. i : d[j] = c[j]
  <2>1. i + 1 \in 1 .. i + 1 /\ ~(i + 1 <= i) /\ (i + 1) - i = 1 BY <1>2
  <2>2. d[i + 1] = m BY <1>8, <1>10, <2>1
  <2>3. \A j \in 1 .. i : j \in 1 .. i + 1 /\ j <= i BY <1>2
  <2> QED BY <1>6, <1>10, <2>2, <2>3
<1>12. PICK e : e = d \o b OBVIOUS
<1>13. /\ e \in Seq(Nat) /\ Len(e) = Len(c) + 1
       /\ \A j \in 1 .. Len(c) + 1 : e[j] = IF j <= i + 1 THEN d[j] ELSE b[j - (i + 1)]
  <2>1. Len(d) + Len(b) = Len(c) + 1 BY <1>1, <1>2, <1>7, <1>10
  <2> QED BY <1>7, <1>10, <1>12, <2>1, ConcatProperties
<1>14. Range(e) = {e[j] : j \in 1 .. Len(c) + 1} BY <1>13, LenProperties DEF Range
<1>15. Range(c) = {c[j] : j \in 1 .. Len(c)} BY <1>1 DEF Range
<1>16. Range(e) \subseteq Range(c) \cup {m}
  <2> SUFFICES ASSUME NEW j \in 1 .. Len(c) + 1 PROVE e[j] \in Range(c) \cup {m} BY <1>14
  <2>1. CASE j <= i
    <3>1. j \in 1 .. i /\ j <= i + 1 /\ j \in 1 .. Len(c) BY <1>1, <1>2, <2>1
    <3> QED BY <1>11, <1>13, <1>15, <3>1
  <2>2. CASE j = i + 1 BY <1>2, <1>11, <1>13, <2>2
  <2>3. CASE j > i + 1
    <3>1. j - (i + 1) \in 1 .. Len(c) - i /\ j - (i + 1) + i = j - 1 /\ j - 1 \in 1 .. Len(c) /\ ~(j <= i + 1)
      BY <1>1, <1>2, <2>3
    <3> QED BY <1>7, <1>13, <1>15, <3>1
  <2> QED BY <1>1, <1>2, <2>1, <2>2, <2>3
<1>17. Range(c) \cup {m} \subseteq Range(e)
  <2>1. m \in Range(e)
    <3>1. i + 1 \in 1 .. Len(c) + 1 /\ i + 1 <= i + 1 BY <1>1, <1>2
    <3> QED BY <1>11, <1>13, <1>14, <3>1
  <2>2. ASSUME NEW j \in 1 .. Len(c) PROVE c[j] \in Range(e)
    <3>1. CASE j <= i
      <4>1. j \in 1 .. i /\ j <= i + 1 /\ j \in 1 .. Len(c) + 1 BY <1>1, <1>2, <3>1
      <4> QED BY <1>11, <1>13, <1>14, <4>1
    <3>2. CASE j > i
      <4>1. /\ j + 1 \in 1 .. Len(c) + 1 /\ ~(j + 1 <= i + 1) /\ (j + 1) - (i + 1) = j - i
            /\ j - i \in 1 .. Len(c) - i /\ (j - i) + i = j
        BY <1>1, <1>2, <3>2
      <4>2. e[j + 1] = c[j] BY <1>7, <1>13, <4>1
      <4> QED BY <1>14, <4>1, <4>2
    <3> QED BY <1>1, <1>2, <3>1, <3>2
  <2> QED BY <1>15, <2>1, <2>2
<1> QED BY <1>3, <1>4, <1>5, <1>9, <1>12, <1>13, <1>16, <1>17

LEMMA ArenaGrows ==
  ASSUME NEW s, ArenaShape(s), NEW size \in Nat, NEW align
  PROVE  LET r == ArenaGrow(s, size, align)
             m == Len(s.node) + 1
         IN /\ ArenaShape(r) /\ m \notin DOMAIN s.node /\ DOMAIN r.node = DOMAIN s.node \cup {m}
            /\ r.node[m].offset = size
            /\ \A k \in DOMAIN s.node : r.node[k] = s.node[k]
            /\ Range(r.chain) = Range(s.chain) \cup {m}
<1>1. PICK m : m = Len(s.node) + 1 OBVIOUS
<1>2. PICK cap : cap = Grown(s.node[s.current].cap, size + align) OBVIOUS
<1>3. PICK s2 : s2 = [s EXCEPT !.node = Append(@, NewNode(cap)), !.chain = InsertAfter(@, s.current, m),
                               !.total = @ + cap]
  OBVIOUS
<1>4. ArenaGrow(s, size, align) = Bump(s2, m, 0, size) BY <1>1, <1>2, <1>3 DEF ArenaGrow
<1>5. PICK f : f = Append(s.node, NewNode(cap)) OBVIOUS
<1>6. PICK c : c = InsertAfter(s.chain, s.current, m) OBVIOUS
<1>7. /\ DOMAIN s = {"node", "chain", "current", "total"} /\ IsSeq(s.node) /\ s.current \in DOMAIN s.node
      /\ s.chain \in Seq(Nat) /\ Range(s.chain) = DOMAIN s.node
      /\ \A n \in DOMAIN s.node : DOMAIN s.node[n] = {"offset", "cap", "used"}
      /\ \A n \in DOMAIN s.node : s.node[n].offset \in Nat
  BY DEF ArenaShape
<1>8. /\ DOMAIN s2 = DOMAIN s /\ s2.node = f /\ s2.chain = c /\ s2.current = s.current
  BY <1>3, <1>5, <1>6, <1>7
<1>9. /\ Len(s.node) \in Nat /\ DOMAIN s.node = 1 .. Len(s.node) /\ IsSeq(f)
      /\ DOMAIN f = 1 .. Len(s.node) + 1 /\ f[Len(s.node) + 1] = NewNode(cap)
      /\ \A i \in 1 .. Len(s.node) : f[i] = s.node[i]
  BY <1>5, <1>7, SeqFacts
<1>10. m \in Nat /\ m \notin DOMAIN s.node /\ DOMAIN f = DOMAIN s.node \cup {m} BY <1>1, <1>9
<1>11. DOMAIN f[m] = {"offset", "cap", "used"} /\ f[m].offset = 0 BY <1>1, <1>9 DEF NewNode
<1>12. c \in Seq(Nat) /\ Range(c) = Range(s.chain) \cup {m} BY <1>6, <1>7, <1>10, Inserted
<1>13. \A n \in DOMAIN f : DOMAIN f[n] = {"offset", "cap", "used"} /\ f[n].offset \in Nat
  <2> SUFFICES ASSUME NEW n \in DOMAIN f PROVE DOMAIN f[n] = {"offset", "cap", "used"} /\ f[n].offset \in Nat
    OBVIOUS
  <2>1. CASE n = m BY <1>11, <2>1
  <2>2. CASE n \in DOMAIN s.node
    <3>1. f[n] = s.node[n] BY <1>9, <2>2
    <3> QED BY <1>7, <2>2, <3>1
  <2> QED BY <1>10, <2>1, <2>2
<1>14. ArenaShape(s2) BY <1>7, <1>8, <1>9, <1>10, <1>12, <1>13 DEF ArenaShape
<1>15. PICK r : r = Bump(s2, m, 0, size) OBVIOUS
<1>16. /\ ArenaShape(r) /\ DOMAIN r.node = DOMAIN s2.node /\ r.node[m].offset = 0 + size
       /\ \A n \in DOMAIN s2.node : n # m => r.node[n] = s2.node[n]
       /\ r.chain = s2.chain
  <2>1. m \in DOMAIN s2.node /\ 0 \in Nat BY <1>8, <1>10
  <2>2. Bumped(s2, Bump(s2, m, 0, size), m, 0 + size) BY <1>14, <2>1, ArenaBumps
  <2> QED BY <1>15, <2>2 DEF Bumped
<1>17. \A k \in DOMAIN s.node : r.node[k] = s.node[k] BY <1>8, <1>9, <1>10, <1>16
<1> QED BY <1>1, <1>4, <1>8, <1>10, <1>12, <1>15, <1>16, <1>17

LEMMA ArenaMallocs ==
  ASSUME ArenaInv(al, live, owed), NEW size \in Nat, NEW align \in {1, 2}, NEW mem,
         arena_malloc(size, align, mem)
  PROVE  ArenaInv(al', live', owed')
<1> DEFINE n == al.current
           at == AlignUp(al.node[n].offset, align)
           m == Len(al.node) + 1
<1>1. ArenaShape(al) /\ Heaped(live, Ends(al)) /\ owed = Owing(al) BY DEF ArenaInv
<1>2. /\ n \in DOMAIN al.node /\ \A k \in DOMAIN al.node : al.node[k].offset \in Nat
      /\ al.node[n].offset \in Nat
  BY <1>1 DEF ArenaShape
<1>3. at \in Nat /\ al.node[n].offset <= at /\ at % align = 0 BY <1>2, AlignedUp
<1>4. DOMAIN Ends(al) = DOMAIN al.node /\ \A k \in DOMAIN al.node : Ends(al)[k] = al.node[k].offset BY DEF Ends
<1>5. \A b \in live : b.buf \in DOMAIN al.node BY <1>1, <1>4 DEF Heaped
<1>6. Nothing => ArenaInv(al', live', owed') BY DEF Nothing, Call
<1>7. CASE size # 0 /\ at + size <= al.node[n].cap
  <2>1. PICK x : x = Block(n, at, size, align) OBVIOUS
  <2>2. PICK r : r = Bump(al, n, at, size) OBVIOUS
  <2>3. al' = r /\ live' = live \cup {x} /\ owed' = owed
    BY <1>7, <2>1, <2>2 DEF arena_malloc, Call
  <2>4. x.buf = n /\ x.at = at /\ x.len = size /\ x.align = align BY <2>1 DEF Block
  <2> HIDE DEF n, at
  <2>5. /\ ArenaShape(r) /\ DOMAIN r.node = DOMAIN al.node /\ r.node[n].offset = at + size
        /\ \A k \in DOMAIN al.node : k # n => r.node[k] = al.node[k]
        /\ r.chain = al.chain
    <3>1. Bumped(al, Bump(al, n, at, size), n, at + size) BY <1>1, <1>2, <1>3, ArenaBumps
    <3> QED BY <2>2, <3>1 DEF Bumped
  <2>6. DOMAIN Ends(r) = DOMAIN al.node /\ \A k \in DOMAIN al.node : Ends(r)[k] = r.node[k].offset
    BY <2>5 DEF Ends
  <2>7. ASSUME NEW b \in live
        PROVE  /\ b.buf \in DOMAIN Ends(r) /\ Ends(r)[b.buf] \in Nat /\ Ends(al)[b.buf] \in Nat
               /\ Ends(al)[b.buf] <= Ends(r)[b.buf] /\ (b.buf = x.buf => Ends(al)[b.buf] <= x.at)
    <3>1. b.buf \in DOMAIN al.node BY <1>5
    <3>2. /\ Ends(r)[b.buf] = r.node[b.buf].offset /\ Ends(al)[b.buf] = al.node[b.buf].offset
          /\ al.node[b.buf].offset \in Nat
      BY <1>2, <1>4, <2>6, <3>1
    <3>3. CASE b.buf = n
      <4>1. Ends(r)[b.buf] = at + size /\ Ends(al)[b.buf] = al.node[n].offset BY <2>5, <3>2, <3>3
      <4> QED BY <1>2, <1>3, <2>4, <2>6, <3>1, <4>1
    <3>4. CASE b.buf # n BY <2>4, <2>5, <2>6, <3>1, <3>2, <3>4
    <3> QED BY <3>3, <3>4
  <2>8. Aligned(x) /\ x.len \in Nat /\ x.buf \in DOMAIN Ends(r) /\ x.at + x.len <= Ends(r)[x.buf]
    BY <1>2, <1>3, <2>4, <2>5, <2>6 DEF Aligned
  <2>9. Heaped(live \cup {x}, Ends(r)) BY <1>1, <2>7, <2>8, HeapMore
  <2>10. owed = Owing(r) BY <1>1, <2>5 DEF Owing
  <2> QED BY <2>3, <2>5, <2>9, <2>10 DEF ArenaInv
<1>8. CASE /\ size # 0 /\ ~(at + size <= al.node[n].cap)
           /\ ~(al.total + Grown(al.node[n].cap, size + align) > ArenaMax \/ ~mem)
  <2>1. PICK x : x = Block(m, 0, size, align) OBVIOUS
  <2>2. PICK r : r = ArenaGrow(al, size, align) OBVIOUS
  <2>3. al' = r /\ live' = live \cup {x} /\ owed' = owed \cup NodeParts(m)
    BY <1>8, <2>1, <2>2 DEF arena_malloc
  <2>4. x.buf = m /\ x.at = 0 /\ x.len = size /\ x.align = align BY <2>1 DEF Block
  <2>5. /\ ArenaShape(r) /\ m \notin DOMAIN al.node /\ DOMAIN r.node = DOMAIN al.node \cup {m}
        /\ r.node[m].offset = size
        /\ \A k \in DOMAIN al.node : r.node[k] = al.node[k]
        /\ Range(r.chain) = Range(al.chain) \cup {m}
    BY <1>1, <2>2, ArenaGrows
  <2> HIDE DEF n, at, m
  <2>6. DOMAIN Ends(r) = DOMAIN r.node /\ \A k \in DOMAIN r.node : Ends(r)[k] = r.node[k].offset
    BY DEF Ends
  <2>7. ASSUME NEW b \in live
        PROVE  /\ b.buf \in DOMAIN Ends(r) /\ Ends(r)[b.buf] \in Nat /\ Ends(al)[b.buf] \in Nat
               /\ Ends(al)[b.buf] <= Ends(r)[b.buf] /\ (b.buf = x.buf => Ends(al)[b.buf] <= x.at)
    <3>1. b.buf \in DOMAIN al.node /\ b.buf # m BY <1>5, <2>5
    <3>2. /\ Ends(r)[b.buf] = al.node[b.buf].offset /\ Ends(al)[b.buf] = al.node[b.buf].offset
          /\ al.node[b.buf].offset \in Nat /\ b.buf \in DOMAIN Ends(r)
      BY <1>2, <1>4, <2>5, <2>6, <3>1
    <3> QED BY <2>4, <3>1, <3>2
  <2>8. Aligned(x) /\ x.len \in Nat /\ x.buf \in DOMAIN Ends(r) /\ x.at + x.len <= Ends(r)[x.buf]
    <3>1. Aligned(x) BY <2>4 DEF Aligned
    <3>2. Ends(r)[m] = size /\ m \in DOMAIN Ends(r) BY <2>5, <2>6
    <3> QED BY <2>4, <3>1, <3>2
  <2>9. Heaped(live \cup {x}, Ends(r)) BY <1>1, <2>7, <2>8, HeapMore
  <2>10. owed \cup NodeParts(m) = Owing(r) BY <1>1, <2>5 DEF Owing
  <2> QED BY <2>3, <2>5, <2>9, <2>10 DEF ArenaInv
<1> QED BY <1>6, <1>7, <1>8 DEF arena_malloc

LEMMA ArenaSteps ==
  ASSUME ArenaNext, al = NotYet => live = {} /\ owed = {}, Up => ArenaInv(al, live, owed)
  PROVE  (al' = Gone /\ owed' = {}) \/ ArenaInv(al', live', owed')
<1>1. ASSUME NEW got \in 0 .. 4, arena_create(got)
      PROVE  (al' = Gone /\ owed' = {}) \/ ArenaInv(al', live', owed')
  <2> DEFINE parts == <<State, <<"node", 1>>, <<"buffer", 1>>, Vtable>>
             s == [node |-> <<NewNode(ArenaCap)>>, chain |-> <<1>>, current |-> 1, total |-> ArenaCap]
  <2>1. /\ live' = {}
        /\ \/ al' = Gone /\ owed' = {}
           \/ al' = s /\ owed' = Range(parts)
    BY <1>1 DEF arena_create, Create
  <2>2. Range(parts) = {State, <<"node", 1>>, <<"buffer", 1>>, Vtable}
    <3>1. DOMAIN parts = 1 .. 4 OBVIOUS
    <3>2. 1 .. 4 = {1, 2, 3, 4} OBVIOUS
    <3>3. parts[1] = State /\ parts[2] = <<"node", 1>> /\ parts[3] = <<"buffer", 1>> /\ parts[4] = Vtable OBVIOUS
    <3>4. Range(parts) = {parts[1], parts[2], parts[3], parts[4]}
      <4> HIDE DEF parts
      <4> QED BY <3>1, <3>2 DEF Range
    <3> QED BY <3>3, <3>4
  <2>3. PICK w : w = NewNode(ArenaCap) OBVIOUS
  <2>4. DOMAIN w = {"offset", "cap", "used"} /\ w.offset = 0 BY <2>3 DEF NewNode
  <2>5. /\ DOMAIN s = {"node", "chain", "current", "total"} /\ s.node = <<w>> /\ s.chain = <<1>> /\ s.current = 1
    BY <2>3
  <2>6. /\ <<w>> \in Seq({w}) /\ DOMAIN <<w>> = {1} /\ <<w>>[1] = w
        /\ <<1>> \in Seq(Nat) /\ DOMAIN <<1>> = {1} /\ <<1>>[1] = 1
    OBVIOUS
  <2>7. Range(<<1>>) = {1} BY <2>6 DEF Range
  <2> HIDE DEF s, parts
  <2>8. ArenaShape(s)
    <3>1. IsSeq(s.node) BY <2>5, <2>6 DEF IsSeq
    <3>2. DOMAIN s.node = {1} /\ s.node[1] = w BY <2>5, <2>6
    <3> QED BY <2>4, <2>5, <2>6, <2>7, <3>1, <3>2 DEF ArenaShape
  <2>9. Heaped({}, Ends(s)) BY DEF Heaped
  <2>10. Range(parts) = Owing(s)
    <3>1. Range(s.chain) = {1} BY <2>5, <2>7
    <3>2. Owing(s) = {State, Vtable} \cup NodeParts(1) BY <3>1 DEF Owing
    <3> QED BY <2>2, <3>2 DEF NodeParts
  <2> QED BY <2>1, <2>8, <2>9, <2>10 DEF ArenaInv
<1>2. ASSUME arena_destroy PROVE al' = Gone /\ owed' = {}
  <2>1. PICK N : N = UNION {NodeParts(n) : n \in Range(al.chain)} OBVIOUS
  <2>2. Up /\ al' = Gone /\ owed' = owed \ (N \cup {State, Vtable}) BY <1>2, <2>1 DEF arena_destroy, Destroy
  <2>3. owed = {State, Vtable} \cup N BY <2>1, <2>2 DEF ArenaInv, Owing
  <2> QED BY <2>2, <2>3
<1>3. CASE Up
  <2>0. ArenaInv(al, live, owed) BY <1>3
  <2>1. Nothing => ArenaInv(al', live', owed') BY <2>0 DEF Nothing, Call
  <2>2. ASSUME NEW k \in {1, SizeMax}, NEW mem, arena_calloc(k, 2, mem) PROVE ArenaInv(al', live', owed')
    <3>1. Product(k, 2) = Null \/ Product(k, 2) \in Nat BY DEF Product, SizeMax
    <3> QED BY <2>0, <2>1, <2>2, <3>1, ArenaMallocs DEF arena_calloc
  <2>3. ASSUME NEW b \in live, arena_free(b) PROVE ArenaInv(al', live', owed')
    <3>1. al' = al /\ live' = live \ {b} /\ owed' = owed BY <2>3 DEF arena_free, Call
    <3>2. Heaped(live \ {b}, Ends(al)) BY <2>0 DEF ArenaInv, Heaped
    <3> QED BY <2>0, <3>1, <3>2 DEF ArenaInv
  <2>4. ASSUME NEW b \in live, NEW mem, arena_realloc(b, 3, mem) PROVE ArenaInv(al', live', owed')
    <3>1. b.align \in {1, 2} BY <2>0 DEF ArenaInv, Heaped, Aligned
    <3> QED BY <2>0, <2>4, <3>1, ArenaMallocs DEF arena_realloc
  <2>5. ASSUME arena_reset PROVE ArenaInv(al', live', owed')
    <3>1. PICK f : f = [n \in DOMAIN al.node |-> NewNode(al.node[n].cap)] OBVIOUS
    <3>2. /\ al' = [al EXCEPT !.node = f, !.current = al.chain[1]] /\ live' = {} /\ owed' = owed
      BY <2>5, <3>1 DEF arena_reset, Call
    <3>3. /\ DOMAIN al = {"node", "chain", "current", "total"} /\ IsSeq(al.node)
          /\ al.current \in DOMAIN al.node /\ al.chain \in Seq(Nat) /\ Range(al.chain) = DOMAIN al.node
          /\ owed = Owing(al)
      BY <2>0 DEF ArenaInv, ArenaShape
    <3>4. DOMAIN al' = DOMAIN al /\ al'.node = f /\ al'.chain = al.chain /\ al'.current = al.chain[1]
      BY <3>2, <3>3
    <3>5. DOMAIN f = DOMAIN al.node /\ \A n \in DOMAIN f : DOMAIN f[n] = {"offset", "cap", "used"} /\ f[n].offset = 0
      BY <3>1 DEF NewNode
    <3>6. IsSeq(f)
      <4>1. Len(al.node) \in Nat /\ DOMAIN al.node = 1 .. Len(al.node) BY <3>3, SeqFacts
      <4>2. f = [i \in 1 .. Len(al.node) |-> f[i]] BY <3>1, <3>5, <4>1
      <4>3. f \in [1 .. Len(al.node) -> {f[i] : i \in 1 .. Len(al.node)}] BY <4>2
      <4> QED BY <4>1, <4>3, SeqDef DEF IsSeq
    <3>7. al.chain[1] \in Range(al.chain)
      <4>1. DOMAIN al.chain = 1 .. Len(al.chain) /\ Len(al.chain) \in Nat BY <3>3, LenProperties
      <4>2. PICK i \in DOMAIN al.chain : al.chain[i] = al.current BY <3>3 DEF Range
      <4>3. 1 \in DOMAIN al.chain BY <4>1, <4>2
      <4> QED BY <4>3 DEF Range
    <3>8. ArenaShape(al') BY <3>3, <3>4, <3>5, <3>6, <3>7 DEF ArenaShape
    <3>9. Heaped({}, Ends(al')) BY DEF Heaped
    <3>10. Owing(al') = Owing(al) BY <3>4 DEF Owing
    <3> QED BY <3>2, <3>3, <3>8, <3>9, <3>10 DEF ArenaInv
  <2>6. ASSUME NEW size \in {0, 1, 3, 9}, NEW align \in {1, 2}, NEW mem, arena_malloc(size, align, mem)
        PROVE  ArenaInv(al', live', owed')
    BY <2>0, <2>6, ArenaMallocs
  <2> QED BY <1>1, <1>2, <2>2, <2>3, <2>4, <2>5, <2>6 DEF ArenaNext
<1>4. CASE ~Up BY <1>1, <1>2, <1>4 DEF ArenaNext
<1> QED BY <1>3, <1>4

\* carena: a buffer is a shard and how often it has grown.
ShardFields == {"offset", "cap", "used", "lock", "gen"}
IsShard(sh) == DOMAIN sh = ShardFields /\ sh.offset \in Nat /\ sh.gen \in Nat
ShardsShape(s) ==
  /\ DOMAIN s = {"shard", "shardOf", "total", "raced"}
  /\ DOMAIN s.shard = Shards /\ \A i \in Shards : IsShard(s.shard[i])
  /\ \A t \in Threads : s.shardOf[t] \in Shards
ShardEnds(s) == [g \in {<<i, s.shard[i].gen>> : i \in Shards} |-> s.shard[g[1]].offset]
CArenaLocals(me) ==
  /\ me.pc \in {"idle", "grow", "reset"}
  /\ me.pc = "grow" => me.size \in Nat /\ me.align \in {1, 2}
  /\ me.pc = "reset" => me.i \in Shards
CArenaInv(s, B, l) ==
  /\ ShardsShape(s) /\ Heaped(B, ShardEnds(s))
  /\ DOMAIN l = Threads /\ \A t \in Threads : CArenaLocals(l[t])

LEMMA EndFacts ==
  ASSUME NEW s, ShardsShape(s)
  PROVE  /\ \A i \in Shards : /\ <<i, s.shard[i].gen>> \in DOMAIN ShardEnds(s)
                              /\ ShardEnds(s)[<<i, s.shard[i].gen>>] = s.shard[i].offset
                              /\ s.shard[i].offset \in Nat
         /\ \A g \in DOMAIN ShardEnds(s) : g[1] \in Shards /\ g = <<g[1], s.shard[g[1]].gen>>
<1>1. \A i \in Shards : s.shard[i].offset \in Nat BY DEF ShardsShape, IsShard
<1>2. DOMAIN ShardEnds(s) = {<<i, s.shard[i].gen>> : i \in Shards} BY DEF ShardEnds
<1>3. ASSUME NEW i \in Shards
      PROVE  /\ <<i, s.shard[i].gen>> \in DOMAIN ShardEnds(s)
             /\ ShardEnds(s)[<<i, s.shard[i].gen>>] = s.shard[i].offset
  <2>1. PICK g : g = <<i, s.shard[i].gen>> OBVIOUS
  <2>2. g \in {<<j, s.shard[j].gen>> : j \in Shards} /\ g[1] = i BY <2>1
  <2>3. ShardEnds(s)[g] = s.shard[g[1]].offset BY <2>2 DEF ShardEnds
  <2> QED BY <1>2, <2>1, <2>2, <2>3
<1>4. ASSUME NEW g \in DOMAIN ShardEnds(s) PROVE g[1] \in Shards /\ g = <<g[1], s.shard[g[1]].gen>>
  <2>1. PICK i \in Shards : g = <<i, s.shard[i].gen>> BY <1>2
  <2>2. g[1] = i BY <2>1
  <2> QED BY <2>1, <2>2
<1> QED BY <1>1, <1>3, <1>4

\* One shard changes.
Resharded(s, r, i, sh) ==
  /\ DOMAIN r = DOMAIN s /\ r.shardOf = s.shardOf /\ DOMAIN r.shard = DOMAIN s.shard
  /\ r.shard[i] = sh /\ \A j \in Shards : j # i => r.shard[j] = s.shard[j]

LEMMA ReshardedShape ==
  ASSUME NEW s, ShardsShape(s), NEW r, NEW i \in Shards, NEW sh, IsShard(sh), Resharded(s, r, i, sh)
  PROVE  ShardsShape(r)
<1>1. ASSUME NEW j \in Shards PROVE IsShard(r.shard[j])
  BY DEF Resharded, ShardsShape
<1> QED BY <1>1 DEF Resharded, ShardsShape

\* Blocks of the other shards, and those of a shard that has the same buffer.
LEMMA ShardKeeps ==
  ASSUME NEW s, ShardsShape(s), NEW B, Heaped(B, ShardEnds(s)), NEW r, NEW i \in Shards, NEW sh, IsShard(sh),
         Resharded(s, r, i, sh), NEW b \in B,
         b.buf[1] # i \/ (sh.gen = s.shard[i].gen /\ s.shard[i].offset <= sh.offset)
  PROVE  /\ b.buf \in DOMAIN ShardEnds(r) /\ ShardEnds(r)[b.buf] \in Nat /\ ShardEnds(s)[b.buf] \in Nat
         /\ ShardEnds(s)[b.buf] <= ShardEnds(r)[b.buf]
         /\ b.buf[1] # i => ShardEnds(s)[b.buf] = ShardEnds(r)[b.buf]
         /\ b.buf[1] = i => ShardEnds(s)[b.buf] = s.shard[i].offset /\ ShardEnds(r)[b.buf] = sh.offset
<1>1. b.buf \in DOMAIN ShardEnds(s) BY DEF Heaped
<1>2. PICK j : j = b.buf[1] OBVIOUS
<1>3. j \in Shards /\ b.buf = <<j, s.shard[j].gen>> BY <1>1, <1>2, EndFacts
<1>4. ShardEnds(s)[b.buf] = s.shard[j].offset /\ s.shard[j].offset \in Nat BY <1>3, EndFacts
<1>5. ShardsShape(r) BY ReshardedShape
<1>6. r.shard[i] = sh /\ \A k \in Shards : k # i => r.shard[k] = s.shard[k] BY DEF Resharded
<1>7. r.shard[j].gen = s.shard[j].gen BY <1>2, <1>3, <1>6
<1>8. /\ b.buf \in DOMAIN ShardEnds(r) /\ ShardEnds(r)[b.buf] = r.shard[j].offset
      /\ r.shard[j].offset \in Nat
  BY <1>3, <1>5, <1>7, EndFacts
<1>9. CASE j = i BY <1>2, <1>4, <1>6, <1>8, <1>9
<1>10. CASE j # i BY <1>2, <1>3, <1>4, <1>6, <1>8, <1>10
<1> QED BY <1>9, <1>10

LEMMA ShardPuts ==
  ASSUME NEW s, ShardsShape(s), NEW B, Heaped(B, ShardEnds(s)), NEW r, NEW i \in Shards, NEW sh, IsShard(sh),
         Resharded(s, r, i, sh), NEW C, C \subseteq B, NEW x, x.buf = <<i, sh.gen>>, Aligned(x), x.len \in Nat,
         x.at + x.len <= sh.offset,
         \A b \in C : b.buf[1] # i \/ (/\ sh.gen = s.shard[i].gen /\ s.shard[i].offset <= sh.offset
                                       /\ s.shard[i].offset <= x.at)
  PROVE  ShardsShape(r) /\ Heaped(C \cup {x}, ShardEnds(r))
<1>1. ShardsShape(r) BY ReshardedShape
<1>2. r.shard[i] = sh BY DEF Resharded
<1>3. x.buf \in DOMAIN ShardEnds(r) /\ ShardEnds(r)[x.buf] = sh.offset BY <1>1, <1>2, EndFacts
<1>4. x.buf[1] = i OBVIOUS
<1>5. ASSUME NEW b \in C
      PROVE  /\ b.buf \in DOMAIN ShardEnds(r) /\ ShardEnds(r)[b.buf] \in Nat /\ ShardEnds(s)[b.buf] \in Nat
             /\ ShardEnds(s)[b.buf] <= ShardEnds(r)[b.buf]
             /\ b.buf = x.buf => ShardEnds(s)[b.buf] <= x.at
  <2>1. b \in B OBVIOUS
  <2>2. b.buf[1] # i \/ (sh.gen = s.shard[i].gen /\ s.shard[i].offset <= sh.offset) OBVIOUS
  <2>3. /\ b.buf \in DOMAIN ShardEnds(r) /\ ShardEnds(r)[b.buf] \in Nat /\ ShardEnds(s)[b.buf] \in Nat
        /\ ShardEnds(s)[b.buf] <= ShardEnds(r)[b.buf]
        /\ b.buf[1] = i => ShardEnds(s)[b.buf] = s.shard[i].offset
    BY <2>1, <2>2, ShardKeeps
  <2>4. b.buf = x.buf => b.buf[1] = i BY <1>4
  <2> QED BY <2>3, <2>4
<1>6. Heaped(C \cup {x}, ShardEnds(r)) BY <1>3, <1>5, HeapMore
<1> QED BY <1>1, <1>6

LEMMA ShardDrops ==
  ASSUME NEW s, ShardsShape(s), NEW B, Heaped(B, ShardEnds(s)), NEW r, NEW i \in Shards, NEW sh, IsShard(sh),
         Resharded(s, r, i, sh), NEW C, C \subseteq B,
         \A b \in C : b.buf[1] # i \/ (sh.gen = s.shard[i].gen /\ s.shard[i].offset = sh.offset)
  PROVE  ShardsShape(r) /\ Heaped(C, ShardEnds(r))
<1>1. ShardsShape(r) BY ReshardedShape
<1>2. ASSUME NEW b \in C
      PROVE  b.buf \in DOMAIN ShardEnds(r) /\ ShardEnds(r)[b.buf] = ShardEnds(s)[b.buf]
  <2>1. b \in B /\ sh.offset \in Nat BY DEF IsShard
  <2>2. b.buf[1] # i \/ (sh.gen = s.shard[i].gen /\ s.shard[i].offset <= sh.offset) BY <2>1
  <2> QED BY <2>1, <2>2, ShardKeeps
<1>3. Heaped(C, ShardEnds(r)) BY <1>2, HeapLess
<1> QED BY <1>1, <1>3

LEMMA CArenaLocalStep ==
  ASSUME DOMAIN loc = Threads, \A t \in Threads : CArenaLocals(loc[t]), NEW t \in Threads, NEW r, CArenaLocals(r),
         loc' = [loc EXCEPT ![t] = r]
  PROVE  DOMAIN loc' = Threads /\ \A u \in Threads : CArenaLocals(loc'[u])
<1>1. Moved(t, r) BY LocalStep
<1> QED BY <1>1 DEF Moved

LEMMA CArenaMallocs ==
  ASSUME CArenaInv(al, live, loc), NEW t \in Threads, NEW size \in Nat, NEW align \in {1, 2},
         carena_malloc(t, size, align)
  PROVE  CArenaInv(al', live', loc')
<1>1. /\ ShardsShape(al) /\ Heaped(live, ShardEnds(al)) /\ DOMAIN loc = Threads
      /\ \A u \in Threads : CArenaLocals(loc[u])
  BY DEF CArenaInv
<1>2. PICK i : i = al.shardOf[t] OBVIOUS
<1>3. i \in Shards BY <1>1, <1>2 DEF ShardsShape
<1>4. PICK sh : sh = al.shard[i] OBVIOUS
<1>5. IsShard(sh) /\ DOMAIN al = {"shard", "shardOf", "total", "raced"} /\ DOMAIN al.shard = Shards
  BY <1>1, <1>3, <1>4 DEF ShardsShape
<1>6. PICK at : at = AlignUp(sh.offset, align) OBVIOUS
<1>7. at \in Nat /\ sh.offset <= at /\ at % align = 0 /\ sh.offset \in Nat /\ sh.gen \in Nat
      /\ DOMAIN sh = ShardFields
  BY <1>5, <1>6, AlignedUp DEF IsShard
<1>8. CArenaLocals(Idle) BY DEF CArenaLocals, Idle
<1>9. ASSUME Refuse(t) PROVE CArenaInv(al', live', loc')
  <2>1. al' = al /\ live' = live /\ loc' = [loc EXCEPT ![t] = Idle] BY <1>9 DEF Refuse, Begin
  <2> QED BY <1>1, <1>8, <2>1, CArenaLocalStep DEF CArenaInv
<1>10. CASE size # 0 /\ at + size <= sh.cap
  <2>1. PICK new : new = ShardBump(sh, at, size) OBVIOUS
  <2>2. PICK x : x = Block(<<i, sh.gen>>, at, size, align) OBVIOUS
  <2>3. /\ al' = [al EXCEPT !.shard[i] = new] /\ live' = live \cup {x} /\ loc' = [loc EXCEPT ![t] = Idle]
    BY <1>2, <1>4, <1>6, <1>10, <2>1, <2>2 DEF carena_malloc, Begin
  <2>4. /\ DOMAIN new = ShardFields /\ new.offset = at + size /\ new.gen = sh.gen
    BY <1>7, <2>1 DEF ShardBump, ShardFields
  <2>5. IsShard(new) BY <1>7, <2>4 DEF IsShard
  <2>6. PICK r : r = [al EXCEPT !.shard[i] = new] OBVIOUS
  <2>7. Resharded(al, r, i, new) BY <1>3, <1>5, <2>6 DEF Resharded
  <2>8. x.buf = <<i, new.gen>> /\ x.at = at /\ x.len = size /\ x.align = align BY <2>2, <2>4 DEF Block
  <2>9. Aligned(x) /\ x.len \in Nat /\ x.at + x.len <= new.offset BY <1>7, <2>4, <2>8 DEF Aligned
  <2>10. /\ new.gen = al.shard[i].gen /\ al.shard[i].offset <= new.offset /\ al.shard[i].offset <= x.at
    BY <1>4, <1>7, <2>4, <2>8
  <2>11. ShardsShape(r) /\ Heaped(live \cup {x}, ShardEnds(r))
    BY <1>1, <1>3, <2>5, <2>7, <2>8, <2>9, <2>10, ShardPuts
  <2> QED BY <1>1, <1>8, <2>3, <2>6, <2>11, CArenaLocalStep DEF CArenaInv
<1>11. CASE /\ size # 0 /\ ~(at + size <= sh.cap)
            /\ ~(al.total + Grown(sh.cap, size + align) - sh.cap > ArenaMax)
  <2>1. PICK g : g = [pc |-> "grow", size |-> size, align |-> align, total |-> al.total] OBVIOUS
  <2>2. PICK raced : raced = (al.raced \/ Growing(t)) OBVIOUS
  <2>3. PICK new : new = [sh EXCEPT !.lock = TRUE] OBVIOUS
  <2>4. PICK r : r = [al EXCEPT !.shard[i].lock = TRUE, !.raced = raced] OBVIOUS
  <2>5. al' = r /\ live' = live /\ loc' = [loc EXCEPT ![t] = g]
    BY <1>2, <1>4, <1>6, <1>11, <2>1, <2>2, <2>4 DEF carena_malloc, Begin
  <2>6. Resharded(al, r, i, new) BY <1>3, <1>4, <1>5, <2>3, <2>4 DEF Resharded
  <2>7. DOMAIN new = ShardFields /\ new.offset = sh.offset /\ new.gen = sh.gen
    BY <1>7, <2>3 DEF ShardFields
  <2>8. IsShard(new) /\ new.gen = al.shard[i].gen /\ al.shard[i].offset = new.offset
    BY <1>4, <1>7, <2>7 DEF IsShard
  <2>9. ShardsShape(r) /\ Heaped(live, ShardEnds(r)) BY <1>1, <1>3, <2>6, <2>8, ShardDrops
  <2>10. CArenaLocals(g) BY <2>1 DEF CArenaLocals
  <2> QED BY <1>1, <2>5, <2>9, <2>10, CArenaLocalStep DEF CArenaInv
<1>12. CASE size = 0 \/ (/\ ~(at + size <= sh.cap)
                         /\ al.total + Grown(sh.cap, size + align) - sh.cap > ArenaMax)
  <2>1. Refuse(t) BY <1>2, <1>4, <1>6, <1>12 DEF carena_malloc
  <2> QED BY <1>9, <2>1
<1> QED BY <1>10, <1>11, <1>12

LEMMA CArenaMoves ==
  ASSUME CArenaInv(al, live, loc), NEW t \in Threads, ShardGrow(t) \/ ResetShard(t)
  PROVE  CArenaInv(al', live', loc')
<1>1. /\ ShardsShape(al) /\ Heaped(live, ShardEnds(al)) /\ DOMAIN loc = Threads
      /\ \A u \in Threads : CArenaLocals(loc[u])
  BY DEF CArenaInv
<1>2. DOMAIN al = {"shard", "shardOf", "total", "raced"} /\ DOMAIN al.shard = Shards BY <1>1 DEF ShardsShape
<1>3. CArenaLocals(Idle) BY DEF CArenaLocals, Idle
<1>4. ASSUME ShardGrow(t) PROVE CArenaInv(al', live', loc')
  <2>1. PICK i : i = al.shardOf[t] OBVIOUS
  <2>2. i \in Shards BY <1>1, <2>1 DEF ShardsShape
  <2>3. PICK sh : sh = al.shard[i] OBVIOUS
  <2>4. DOMAIN sh = ShardFields /\ sh.offset \in Nat /\ sh.gen \in Nat
    BY <1>1, <2>2, <2>3 DEF ShardsShape, IsShard
  <2>5. PICK size : size = loc[t].size OBVIOUS
  <2>6. PICK align : align = loc[t].align OBVIOUS
  <2>7. size \in Nat /\ align \in {1, 2} BY <1>1, <1>4, <2>5, <2>6 DEF ShardGrow, At, CArenaLocals
  <2>8. PICK cap : cap = Grown(sh.cap, size + align) OBVIOUS
  <2>9. PICK new : new = [ShardBump(sh, 0, size) EXCEPT !.cap = cap, !.gen = @ + 1, !.lock = FALSE] OBVIOUS
  <2>10. DOMAIN new = ShardFields /\ new.offset = size /\ new.gen = sh.gen + 1
    BY <2>4, <2>7, <2>9 DEF ShardBump, ShardFields
  <2>11. PICK x : x = Block(<<i, new.gen>>, 0, size, align) OBVIOUS
  <2>12. PICK C : C = {b \in live : b.buf[1] # i} OBVIOUS
  <2>13. \/ \E total : Return(t, [al EXCEPT !.shard[i] = new, !.total = total], C \cup {x})
         \/ Return(t, [al EXCEPT !.shard[i].lock = FALSE], live)
    BY <1>4, <2>1, <2>3, <2>5, <2>6, <2>8, <2>9, <2>11, <2>12 DEF ShardGrow
  <2>14. ASSUME NEW total, Return(t, [al EXCEPT !.shard[i] = new, !.total = total], C \cup {x})
         PROVE  CArenaInv(al', live', loc')
    <3>1. PICK r : r = [al EXCEPT !.shard[i] = new, !.total = total] OBVIOUS
    <3>2. al' = r /\ live' = C \cup {x} /\ loc' = [loc EXCEPT ![t] = Idle] BY <2>14, <3>1 DEF Return, Finish
    <3>3. Resharded(al, r, i, new) BY <1>2, <2>2, <3>1 DEF Resharded
    <3>4. x.buf = <<i, new.gen>> /\ x.at = 0 /\ x.len = size /\ x.align = align BY <2>11 DEF Block
    <3>5. Aligned(x) /\ x.len \in Nat /\ x.at + x.len <= new.offset /\ IsShard(new)
      BY <2>4, <2>7, <2>10, <3>4 DEF Aligned, IsShard
    <3>6. /\ C \subseteq live
          /\ \A b \in C : b.buf[1] # i \/ (/\ new.gen = al.shard[i].gen /\ al.shard[i].offset <= new.offset
                                            /\ al.shard[i].offset <= x.at)
      BY <2>12
    <3>7. ShardsShape(r) /\ Heaped(C \cup {x}, ShardEnds(r))
      BY <1>1, <2>2, <3>3, <3>4, <3>5, <3>6, ShardPuts
    <3> QED BY <1>1, <1>3, <3>2, <3>7, CArenaLocalStep DEF CArenaInv
  <2>15. ASSUME Return(t, [al EXCEPT !.shard[i].lock = FALSE], live) PROVE CArenaInv(al', live', loc')
    <3>1. PICK r : r = [al EXCEPT !.shard[i].lock = FALSE] OBVIOUS
    <3>2. al' = r /\ live' = live /\ loc' = [loc EXCEPT ![t] = Idle] BY <2>15, <3>1 DEF Return, Finish
    <3>3. PICK same : same = [sh EXCEPT !.lock = FALSE] OBVIOUS
    <3>4. Resharded(al, r, i, same) BY <1>2, <2>2, <2>3, <3>1, <3>3 DEF Resharded
    <3>5. DOMAIN same = ShardFields /\ same.offset = sh.offset /\ same.gen = sh.gen
      BY <2>4, <3>3 DEF ShardFields
    <3>6. IsShard(same) /\ same.gen = al.shard[i].gen /\ al.shard[i].offset = same.offset
      BY <2>3, <2>4, <3>5 DEF IsShard
    <3>7. ShardsShape(r) /\ Heaped(live, ShardEnds(r)) BY <1>1, <2>2, <3>4, <3>6, ShardDrops
    <3> QED BY <1>1, <1>3, <3>2, <3>7, CArenaLocalStep DEF CArenaInv
  <2> QED BY <2>13, <2>14, <2>15
<1>5. ASSUME ResetShard(t) PROVE CArenaInv(al', live', loc')
  <2>1. PICK i : i = loc[t].i OBVIOUS
  <2>2. i \in Shards BY <1>1, <1>5, <2>1 DEF ResetShard, At, CArenaLocals
  <2>3. PICK sh : sh = al.shard[i] OBVIOUS
  <2>4. DOMAIN sh = ShardFields /\ sh.gen \in Nat BY <1>1, <2>2, <2>3 DEF ShardsShape, IsShard
  <2>5. PICK g : g = IF i = 2 THEN Idle ELSE [pc |-> "reset", i |-> i + 1] OBVIOUS
  <2>6. PICK C : C = {b \in live : b.buf[1] # i} OBVIOUS
  <2>7. PICK r : r = [al EXCEPT !.shard[i].offset = 0, !.shard[i].used = 0] OBVIOUS
  <2>8. al' = r /\ live' = C /\ loc' = [loc EXCEPT ![t] = g]
    BY <1>5, <2>1, <2>5, <2>6, <2>7 DEF ResetShard, Finish
  <2>9. PICK new : new = [[sh EXCEPT !.offset = 0] EXCEPT !.used = 0] OBVIOUS
  <2>10. Resharded(al, r, i, new) BY <1>2, <2>2, <2>3, <2>7, <2>9 DEF Resharded
  <2>11. IsShard(new) BY <2>4, <2>9 DEF IsShard, ShardFields
  <2>12. C \subseteq live /\ \A b \in C : b.buf[1] # i BY <2>6
  <2>13. ShardsShape(r) /\ Heaped(C, ShardEnds(r)) BY <1>1, <2>2, <2>10, <2>11, <2>12, ShardDrops
  <2>14. CArenaLocals(g)
    <3>1. CASE i = 2 BY <1>3, <2>5, <3>1
    <3>2. CASE i # 2 BY <2>2, <2>5, <3>2 DEF CArenaLocals, Shards
    <3> QED BY <3>1, <3>2
  <2> QED BY <1>1, <2>8, <2>13, <2>14, CArenaLocalStep DEF CArenaInv
<1> QED BY <1>4, <1>5

LEMMA CArenaSteps ==
  ASSUME CArenaNext, DOMAIN loc = Threads, al = NotYet => live = {}, Up => CArenaInv(al, live, loc)
  PROVE  (~Up /\ al' = Gone) \/ carena_destroy \/ CArenaInv(al', live', loc')
<1>0. CArenaLocals(Idle) BY DEF CArenaLocals, Idle
<1>1. ASSUME NEW got, NEW hash \in [Threads -> Shards], carena_create(got, hash)
      PROVE  al' = Gone \/ CArenaInv(al', live', loc')
  <2>1. PICK f : f = [i \in Shards |-> carena_shard_init(i)] OBVIOUS
  <2>2. PICK s : s = [shard |-> f, shardOf |-> hash, total |-> 2 * ArenaCap, raced |-> FALSE] OBVIOUS
  <2>3. (al' = Gone \/ al' = s) /\ live' = {} /\ loc' = loc /\ Quiet
    BY <1>1, <2>1, <2>2 DEF carena_create, Create
  <2>4. ASSUME NEW i \in Shards PROVE IsShard(f[i])
    <3>1. PICK v : v = NewNode(ArenaCap) OBVIOUS
    <3>2. PICK w : w = [lock |-> FALSE, gen |-> 0] OBVIOUS
    <3>3. f[i] = With(v, w) BY <2>1, <3>1, <3>2 DEF carena_shard_init
    <3>4. DOMAIN v = {"offset", "cap", "used"} /\ v.offset = 0 BY <3>1 DEF NewNode
    <3>5. DOMAIN w = {"lock", "gen"} /\ w.gen = 0 BY <3>2
    <3>6. DOMAIN With(v, w) = ShardFields BY <3>4, <3>5 DEF With, ShardFields
    <3>7. With(v, w).offset = 0 /\ With(v, w).gen = 0 BY <3>4, <3>5 DEF With
    <3> QED BY <3>3, <3>6, <3>7 DEF IsShard
  <2>5. /\ DOMAIN s = {"shard", "shardOf", "total", "raced"} /\ s.shard = f /\ s.shardOf = hash
        /\ DOMAIN f = Shards
    BY <2>1, <2>2
  <2>6. ShardsShape(s) BY <2>4, <2>5 DEF ShardsShape
  <2>7. Heaped({}, ShardEnds(s)) BY DEF Heaped
  <2>8. \A t \in Threads : CArenaLocals(loc[t]) BY <2>3 DEF Quiet, At, CArenaLocals
  <2> QED BY <2>3, <2>6, <2>7, <2>8 DEF CArenaInv
<1>2. \A got, hash : carena_create(got, hash) => ~Up BY DEF carena_create, Create, Up
<1>3. CASE Up
  <2>0. CArenaInv(al, live, loc) BY <1>3
  <2>1. /\ ShardsShape(al) /\ Heaped(live, ShardEnds(al)) /\ \A t \in Threads : CArenaLocals(loc[t])
    BY <2>0 DEF CArenaInv
  <2>2. ASSUME NEW t \in Threads, NEW size \in Nat, NEW align \in {1, 2}, carena_malloc(t, size, align)
        PROVE  CArenaInv(al', live', loc')
    BY <2>0, <2>2, CArenaMallocs
  <2>3. ASSUME NEW t \in Threads, carena_calloc(t, 1, 2) PROVE CArenaInv(al', live', loc')
    <3>1. Product(1, 2) = 2 BY DEF Product, SizeMax
    <3>2. carena_malloc(t, 2, 1) BY <2>3, <3>1 DEF carena_calloc, Null
    <3> QED BY <2>2, <3>2
  <2>4. ASSUME NEW t \in Threads, NEW b \in live, carena_realloc(t, b, 3) PROVE CArenaInv(al', live', loc')
    <3>1. b.align \in {1, 2} BY <2>1 DEF Heaped, Aligned
    <3> QED BY <2>2, <2>4, <3>1 DEF carena_realloc
  <2>5. ASSUME NEW t \in Threads, NEW b \in live, carena_free(t, b) PROVE CArenaInv(al', live', loc')
    <3>1. al' = al /\ live' = live \ {b} /\ loc' = [loc EXCEPT ![t] = Idle] BY <2>5 DEF carena_free, Begin
    <3>2. Heaped(live \ {b}, ShardEnds(al)) BY <2>1 DEF Heaped
    <3> QED BY <1>0, <2>1, <3>1, <3>2, CArenaLocalStep DEF CArenaInv
  <2>6. ASSUME NEW t \in Threads, carena_reset(t) PROVE CArenaInv(al', live', loc')
    <3>1. PICK g : g = [pc |-> "reset", i |-> 1] OBVIOUS
    <3>2. al' = al /\ live' = live /\ loc' = [loc EXCEPT ![t] = g] BY <2>6, <3>1 DEF carena_reset, Begin
    <3>3. CArenaLocals(g) BY <3>1 DEF CArenaLocals, Shards
    <3> QED BY <2>1, <3>2, <3>3, CArenaLocalStep DEF CArenaInv
  <2>7. ASSUME NEW t \in Threads, ShardGrow(t) \/ ResetShard(t) PROVE CArenaInv(al', live', loc')
    BY <2>0, <2>7, CArenaMoves
  <2> QED BY <1>1, <1>2, <2>2, <2>3, <2>4, <2>5, <2>6, <2>7 DEF CArenaNext
<1>4. CASE ~Up BY <1>1, <1>2, <1>4 DEF CArenaNext
<1> QED BY <1>3, <1>4

-----------------------------------------------------------------------------
(* cpool: the free blocks are a path q from the head along next.           *)

Path(h, nx, q) ==
  /\ Listed(q) /\ Range(q) \subseteq Chunk
  /\ h = IF Len(q) = 0 THEN Null ELSE q[1]
  /\ \A i \in 1 .. Len(q) : nx[q[i]] = IF i < Len(q) THEN q[i + 1] ELSE Null

LEMMA ChunkNat == Chunk \subseteq Nat /\ Null \notin Chunk
<1>1. ASSUME NEW i \in 0 .. Blocks - 1 PROVE i * BlockSize \in Nat
  BY ChunkFacts, SMT
<1>2. Chunk \subseteq Nat BY <1>1 DEF Chunk
<1> QED BY <1>2 DEF Null

LEMMA PathFacts ==
  ASSUME NEW h, NEW nx, NEW q, Path(h, nx, q)
  PROVE  /\ Len(q) \in Nat /\ Len(q) <= Blocks /\ Listed(q) /\ q \in Seq(Int)
         /\ Range(q) = {q[i] : i \in 1 .. Len(q)} /\ Range(q) \subseteq Chunk
         /\ \A i \in 1 .. Len(q) : q[i] \in Chunk /\ q[i] # Null
<1>1. Listed(q) /\ q \in Seq(Int) /\ Range(q) \subseteq Chunk BY DEF Path, Listed
<1>2. Cardinality(Range(q)) = Len(q) /\ Len(q) \in Nat BY <1>1, ListCard
<1>3. Cardinality(Range(q)) <= Cardinality(Chunk) BY <1>1, ChunkFacts, FS_Subset
<1>4. Range(q) = {q[i] : i \in 1 .. Len(q)} BY <1>1, RangeOf
<1>5. \A i \in 1 .. Len(q) : q[i] \in Chunk BY <1>1, <1>4
<1>6. Len(q) <= Blocks BY <1>2, <1>3, ChunkFacts
<1> QED BY <1>1, <1>2, <1>4, <1>5, <1>6, ChunkNat

LEMMA LeastNat ==
  ASSUME NEW T \in SUBSET Nat, T # {}
  PROVE  \E m \in T : \A n \in T : m <= n
<1>1. PICK m \in T : \A n \in T : <<n, m>> \notin OpToRel(<, Nat)
  BY NatLessThanWellFounded, WFMin
<1>2. \A n \in T : ~(n < m) BY <1>1 DEF OpToRel
<1> QED BY <1>2

\* Following the links meets the blocks of the path and then Null.
LEMMA PathChain ==
  ASSUME NEW h, NEW nx, NEW q, Path(h, nx, q)
  PROVE  Range(Chain(h, nx, Blocks)) = Range(q)
<1> DEFINE N == Blocks
           e(w) == [n \in 0 .. N |-> IF n = 0 THEN h ELSE IF w[n - 1] = Null THEN Null ELSE nx[w[n - 1]]]
           g == [n \in 0 .. N |-> IF n < Len(q) THEN q[n + 1] ELSE Null]
<1>1. N \in Nat BY ChunkFacts
<1>2. /\ Len(q) \in Nat /\ Len(q) <= N /\ Range(q) = {q[i] : i \in 1 .. Len(q)}
      /\ \A i \in 1 .. Len(q) : q[i] # Null
      /\ \A i \in 1 .. Len(q) : nx[q[i]] = IF i < Len(q) THEN q[i + 1] ELSE Null
      /\ h = IF Len(q) = 0 THEN Null ELSE q[1]
  BY PathFacts DEF Path
<1> HIDE DEF N
<1>3. \A n \in 1 .. N : g[n] = IF g[n - 1] = Null THEN Null ELSE nx[g[n - 1]]
  <2> SUFFICES ASSUME NEW n \in 1 .. N PROVE g[n] = IF g[n - 1] = Null THEN Null ELSE nx[g[n - 1]] OBVIOUS
  <2>1. n \in 0 .. N /\ n - 1 \in 0 .. N BY <1>1
  <2>2. CASE n - 1 < Len(q)
    <3>1. n \in 1 .. Len(q) /\ g[n - 1] = q[n] BY <1>2, <2>1, <2>2
    <3>2. g[n] = IF n < Len(q) THEN q[n + 1] ELSE Null BY <2>1
    <3> HIDE DEF g
    <3> QED BY <1>2, <3>1, <3>2
  <2>3. CASE ~(n - 1 < Len(q))
    <3>1. ~(n < Len(q)) BY <1>2, <2>3
    <3>2. g[n - 1] = Null /\ g[n] = Null BY <2>1, <2>3, <3>1
    <3> HIDE DEF g
    <3> QED BY <3>2
  <2> QED BY <2>2, <2>3
<1>4. g[0] = h
  <2>1. 0 \in 0 .. N BY <1>1
  <2>2. g[0] = IF 0 < Len(q) THEN q[0 + 1] ELSE Null BY <2>1
  <2> QED BY <1>2, <2>2
<1>5. DOMAIN g = 0 .. N /\ g = [n \in 0 .. N |-> g[n]] OBVIOUS
<1>6. \A n \in 0 .. N : g[n] = IF n < Len(q) THEN q[n + 1] ELSE Null OBVIOUS
<1> HIDE DEF g
<1>7. \A n \in 0 .. N : n = 0 \/ n \in 1 .. N BY <1>1
<1>8. g = e(g)
  <2>1. \A n \in 0 .. N : g[n] = IF n = 0 THEN h ELSE IF g[n - 1] = Null THEN Null ELSE nx[g[n - 1]]
    BY <1>3, <1>4, <1>7
  <2> QED BY <1>5, <2>1
<1> DEFINE walk == CHOOSE w : w = e(w)
<1>9. walk = e(walk)
  <2> HIDE DEF e
  <2> QED BY <1>8
<1>10. PICK c : c = Chain(h, nx, Blocks) OBVIOUS
<1>11. c = [n \in {m \in 0 .. N : walk[m] # Null} |-> walk[n]]
  BY <1>10 DEF Chain, N
<1> HIDE DEF walk
<1>12. \A n \in 0 .. N : walk[n] = IF n = 0 THEN h ELSE IF walk[n - 1] = Null THEN Null ELSE nx[walk[n - 1]]
  BY <1>9
<1> HIDE DEF e
<1>13. \A n \in 0 .. N : walk[n] = g[n]
  <2> DEFINE T == {n \in 0 .. N : walk[n] # g[n]}
  <2> SUFFICES ASSUME T # {} PROVE FALSE OBVIOUS
  <2>1. T \in SUBSET Nat BY <1>1
  <2>2. PICK m \in T : \A y \in T : m <= y
    <3> HIDE DEF T
    <3> QED BY <2>1, LeastNat
  <2>3. m \in 1 .. N /\ walk[m] # g[m] BY <1>4, <1>7, <1>12, <2>2
  <2>4. m - 1 \in 0 .. N /\ ~(m <= m - 1) /\ m # 0 /\ m \in 0 .. N BY <1>1, <2>3
  <2>5. walk[m - 1] = g[m - 1] BY <2>2, <2>4
  <2> QED BY <1>3, <1>12, <2>3, <2>4, <2>5
<1>14. \A n \in 0 .. N : walk[n] # Null <=> n < Len(q)
  <2> SUFFICES ASSUME NEW n \in 0 .. N PROVE walk[n] # Null <=> n < Len(q) OBVIOUS
  <2>1. CASE n < Len(q)
    <3>1. n + 1 \in 1 .. Len(q) BY <1>1, <1>2, <2>1
    <3> QED BY <1>2, <1>6, <1>13, <2>1, <3>1
  <2>2. CASE ~(n < Len(q)) BY <1>6, <1>13, <2>2
  <2> QED BY <2>1, <2>2
<1>15. DOMAIN c = {m \in 0 .. N : walk[m] # Null} /\ \A n \in DOMAIN c : c[n] = walk[n] BY <1>11
<1>16. Range(c) = {c[n] : n \in DOMAIN c} BY DEF Range
<1>17. Range(c) \subseteq Range(q)
  <2> SUFFICES ASSUME NEW n \in DOMAIN c PROVE c[n] \in Range(q) BY <1>16
  <2>1. n \in 0 .. N /\ n < Len(q) /\ c[n] = walk[n] BY <1>14, <1>15
  <2>2. n + 1 \in 1 .. Len(q) /\ c[n] = q[n + 1] BY <1>1, <1>2, <1>6, <1>13, <2>1
  <2> QED BY <1>2, <2>2
<1>18. Range(q) \subseteq Range(c)
  <2> SUFFICES ASSUME NEW i \in 1 .. Len(q) PROVE q[i] \in Range(c) BY <1>2
  <2>1. i - 1 \in 0 .. N /\ i - 1 < Len(q) /\ (i - 1) + 1 = i BY <1>1, <1>2
  <2>2. walk[i - 1] = q[i] /\ walk[i - 1] # Null BY <1>6, <1>13, <1>14, <2>1
  <2>3. i - 1 \in DOMAIN c /\ c[i - 1] = q[i] BY <1>15, <2>1, <2>2
  <2> QED BY <1>16, <2>3
<1> QED BY <1>10, <1>17, <1>18

LEMMA PathStore ==
  ASSUME NEW h, NEW nx, NEW q, Path(h, nx, q), DOMAIN nx = Chunk, NEW p \in Chunk, p \notin Range(q), NEW v
  PROVE  Path(h, [nx EXCEPT ![p] = v], q)
<1>1. PICK ny : ny = [nx EXCEPT ![p] = v] OBVIOUS
<1>2. \A a \in Chunk : a # p => ny[a] = nx[a] BY <1>1
<1>3. \A i \in 1 .. Len(q) : q[i] \in Chunk /\ q[i] # p BY PathFacts
<1>4. \A i \in 1 .. Len(q) : ny[q[i]] = nx[q[i]] BY <1>2, <1>3
<1>5. Path(h, ny, q) BY <1>4 DEF Path
<1> QED BY <1>1, <1>5

LEMMA PathPop ==
  ASSUME NEW h, NEW nx, NEW q, Path(h, nx, q), h # Null
  PROVE  /\ Path(nx[h], nx, Tail(q)) /\ h \in Range(q) /\ Range(Tail(q)) = Range(q) \ {h}
<1>1. /\ Len(q) \in Nat /\ Listed(q) /\ q \in Seq(Int) /\ Range(q) \subseteq Chunk
      /\ h = IF Len(q) = 0 THEN Null ELSE q[1]
      /\ \A i \in 1 .. Len(q) : nx[q[i]] = IF i < Len(q) THEN q[i + 1] ELSE Null
  BY PathFacts DEF Path
<1>2. Len(q) # 0 /\ h = q[1] BY <1>1
<1>3. q # <<>> BY <1>1, <1>2, EmptySeq
<1>4. PICK r : r = Tail(q) OBVIOUS
<1>5. /\ Len(r) = Len(q) - 1 /\ Head(q) = q[1] /\ \A i \in 1 .. Len(q) - 1 : r[i] = q[i + 1]
  BY <1>1, <1>3, <1>4, HeadTailProperties
<1>6. Listed(r) /\ h \in Range(q) /\ Range(r) = Range(q) \ {h} BY <1>1, <1>2, <1>3, <1>4, <1>5, ListPop
<1>7. nx[h] = IF Len(r) = 0 THEN Null ELSE r[1]
  <2>1. 1 \in 1 .. Len(q) BY <1>1, <1>2
  <2>2. nx[h] = IF 1 < Len(q) THEN q[1 + 1] ELSE Null BY <1>1, <1>2, <2>1
  <2>3. CASE 1 < Len(q)
    <3>1. 1 \in 1 .. Len(q) - 1 /\ Len(r) # 0 BY <1>1, <1>5, <2>3
    <3> QED BY <1>5, <2>2, <2>3, <3>1
  <2>4. CASE ~(1 < Len(q)) BY <1>1, <1>2, <1>5, <2>2, <2>4
  <2> QED BY <2>3, <2>4
<1>8. ASSUME NEW i \in 1 .. Len(r) PROVE nx[r[i]] = IF i < Len(r) THEN r[i + 1] ELSE Null
  <2>1. i + 1 \in 1 .. Len(q) /\ r[i] = q[i + 1] /\ (i < Len(r) <=> i + 1 < Len(q)) BY <1>1, <1>5
  <2>2. nx[q[i + 1]] = IF i + 1 < Len(q) THEN q[(i + 1) + 1] ELSE Null BY <1>1, <2>1
  <2>3. CASE i < Len(r)
    <3>1. i + 1 \in 1 .. Len(q) - 1 BY <1>1, <1>5, <2>3
    <3> QED BY <1>5, <2>1, <2>2, <2>3, <3>1
  <2>4. CASE ~(i < Len(r)) BY <2>1, <2>2, <2>4
  <2> QED BY <2>3, <2>4
<1>9. Path(nx[h], nx, r) BY <1>1, <1>6, <1>7, <1>8 DEF Path
<1> QED BY <1>4, <1>6, <1>9

LEMMA PathPush ==
  ASSUME NEW h, NEW nx, NEW q, Path(h, nx, q), NEW p \in Chunk, p \notin Range(q), nx[p] = h
  PROVE  Path(p, nx, <<p>> \o q) /\ Range(<<p>> \o q) = Range(q) \cup {p}
<1>1. /\ Len(q) \in Nat /\ Listed(q) /\ q \in Seq(Int) /\ Range(q) \subseteq Chunk
      /\ h = IF Len(q) = 0 THEN Null ELSE q[1]
      /\ \A i \in 1 .. Len(q) : nx[q[i]] = IF i < Len(q) THEN q[i + 1] ELSE Null
  BY PathFacts DEF Path
<1>2. PICK r : r = <<p>> \o q OBVIOUS
<1>3. p \in Int /\ <<p>> \in Seq(Int) /\ Len(<<p>>) = 1 /\ <<p>>[1] = p BY ChunkFacts
<1>4. \A i \in 1 .. 1 + Len(q) : r[i] = IF i <= 1 THEN <<p>>[i] ELSE q[i - 1]
  BY <1>1, <1>2, <1>3, ConcatProperties
<1>5. Listed(r) /\ Len(r) = Len(q) + 1 /\ Range(r) = Range(q) \cup {p} BY <1>1, <1>2, <1>3, ListPush
<1>6. r[1] = p BY <1>1, <1>3, <1>4
<1>7. \A i \in 1 .. Len(q) : r[i + 1] = q[i]
  <2> SUFFICES ASSUME NEW i \in 1 .. Len(q) PROVE r[i + 1] = q[i] OBVIOUS
  <2>1. i + 1 \in 1 .. 1 + Len(q) /\ ~(i + 1 <= 1) /\ (i + 1) - 1 = i BY <1>1
  <2> QED BY <1>4, <2>1
<1>8. ASSUME NEW i \in 1 .. Len(r) PROVE nx[r[i]] = IF i < Len(r) THEN r[i + 1] ELSE Null
  <2>1. CASE i = 1
    <3>1. nx[r[i]] = h /\ (i < Len(r) <=> Len(q) # 0) BY <1>1, <1>5, <1>6, <2>1
    <3>2. Len(q) # 0 => 1 \in 1 .. Len(q) BY <1>1
    <3> QED BY <1>1, <1>7, <2>1, <3>1, <3>2
  <2>2. CASE i # 1
    <3>1. PICK j : j = i - 1 OBVIOUS
    <3>2. j \in 1 .. Len(q) /\ i = j + 1 /\ (i < Len(r) <=> j < Len(q)) BY <1>1, <1>5, <2>2, <3>1
    <3>3. r[i] = q[j] BY <1>7, <3>2
    <3>4. j < Len(q) => j + 1 \in 1 .. Len(q) BY <1>1, <3>2
    <3>5. j < Len(q) => r[i + 1] = q[j + 1] BY <1>7, <3>2, <3>4
    <3> QED BY <1>1, <3>2, <3>3, <3>5
  <2> QED BY <2>1, <2>2
<1>9. Len(r) # 0 BY <1>1, <1>5
<1>10. Range(r) \subseteq Chunk BY <1>1, <1>5
<1>11. Path(p, nx, r) BY <1>5, <1>6, <1>8, <1>9, <1>10 DEF Path
<1> QED BY <1>2, <1>5, <1>11

LEMMA PathStarts ==
  ASSUME NEW nx, nx = [a \in Chunk |-> IF a = 0 THEN Null ELSE a - BlockSize]
  PROVE  /\ Path((Blocks - 1) * BlockSize, nx, Descending(BlockSize, Blocks))
         /\ Range(Descending(BlockSize, Blocks)) = Chunk
<1>1. BlockSize \in Nat \ {0} /\ Blocks \in Nat \ {0} /\ Chunk = Pieces(BlockSize, Blocks) BY ChunkFacts
<1>2. PICK q : q = Descending(BlockSize, Blocks) OBVIOUS
<1>3. Listed(q) /\ Len(q) = Blocks /\ Range(q) = Chunk BY <1>1, <1>2, DescendingList
<1>4. \A i \in 1 .. Blocks : q[i] = (Blocks - i) * BlockSize BY <1>2 DEF Descending
<1>5. q[1] = (Blocks - 1) * BlockSize BY <1>1, <1>4
<1>6. ASSUME NEW i \in 1 .. Blocks PROVE nx[q[i]] = IF i < Blocks THEN q[i + 1] ELSE Null
  <2>1. q[i] \in Chunk
    <3>1. Blocks - i \in 0 .. Blocks - 1 BY <1>1
    <3> QED BY <1>4, <3>1 DEF Chunk
  <2>2. CASE i < Blocks
    <3>1. PICK k : k = Blocks - i OBVIOUS
    <3>2. k \in Nat /\ k > 0 /\ q[i] = k * BlockSize BY <1>1, <1>4, <2>2, <3>1
    <3>3. 0 * BlockSize + BlockSize <= k * BlockSize /\ k * BlockSize \in Int BY <1>1, <3>2, Multiples
    <3>4. 0 * BlockSize = 0 BY <1>1, SMT
    <3>5. q[i] # 0 BY <1>1, <3>2, <3>3, <3>4
    <3>6. nx[q[i]] = q[i] - BlockSize BY <2>1, <3>5
    <3>7. q[i + 1] = (k - 1) * BlockSize
      <4>1. i + 1 \in 1 .. Blocks /\ Blocks - (i + 1) = k - 1 BY <1>1, <2>2, <3>1
      <4> QED BY <1>4, <4>1
    <3>8. (k - 1) * BlockSize = k * BlockSize - BlockSize BY <1>1, <3>2, SMT
    <3> QED BY <2>2, <3>2, <3>6, <3>7, <3>8
  <2>3. CASE ~(i < Blocks)
    <3>1. i = Blocks /\ Blocks - i = 0 BY <1>1, <2>3
    <3>2. q[i] = 0 * BlockSize BY <1>4, <3>1
    <3>3. q[i] = 0 BY <1>1, <3>2, SMT
    <3> QED BY <2>1, <2>3, <3>3
  <2> QED BY <2>2, <2>3
<1>7. Path((Blocks - 1) * BlockSize, nx, q) BY <1>1, <1>3, <1>5, <1>6 DEF Path
<1> QED BY <1>2, <1>3, <1>7

\* What a thread has on its way: the block of a realloc, and the one it has
\* taken from the list or not yet put there.
Taking == {"load", "link", "cas", "clear", "less"}
Giving == {"or", "wipe", "top", "store", "pushCas"}
OldAt(me) == IF me.pc \in Taking THEN Places(Range(me.old)) ELSE {}
OwnAt(me) ==
  IF me.pc \in {"clear", "less"} THEN {<<0, me.head.lo>>} ELSE IF me.pc \in Giving THEN {<<0, me.p>>} ELSE {}
HeldAt(me) == OldAt(me) \cup OwnAt(me)
Helds(l) == [t \in Threads |-> HeldAt(l[t])]
\* Blocks on their way that have their free bit set.
MarkAt(me) ==
  IF me.pc = "clear" THEN {me.head.lo} ELSE IF me.pc \in Giving \ {"or"} THEN {me.p} ELSE {}
Rising(me) == me.pc \in {"wipe", "top", "store", "pushCas", "more"}
Falling(me) == me.pc = "less"
Clean(me, dirty) == me.pc \in {"top", "store", "pushCas"} => me.p \notin dirty
Tagged(me, s) ==
  /\ me.pc \in {"link", "cas"} => me.head.hi \in Nat /\ me.head.hi <= s.head.hi
  /\ me.pc = "cas" /\ me.head = s.head => me.next = s.next[s.head.lo]
  /\ me.pc = "pushCas" => s.next[me.p] = me.head.lo

IsOld(o) == o = <<>> \/ \E b : o = <<b>> /\ b.buf = 0 /\ b.align = 1
CPoolLocals(me) ==
  \/ me.pc = "idle" /\ DOMAIN me = {"pc"}
  \/ /\ me.pc \in Taking /\ {"pc", "size", "old"} \subseteq DOMAIN me /\ IsOld(me.old)
     /\ me.pc # "load" => "head" \in DOMAIN me /\ me.head.lo \in Chunk
     /\ me.pc \in {"clear", "less"} => <<0, me.head.lo>> \notin OldAt(me)
  \/ /\ me.pc \in Giving \cup {"more"} /\ {"pc", "p"} \subseteq DOMAIN me /\ "old" \notin DOMAIN me
     /\ me.p \in Chunk /\ (me.pc \in {"store", "pushCas"} => "head" \in DOMAIN me)
CPoolShape(s) ==
  /\ DOMAIN s = {"head", "bits", "count", "next", "dirty"}
  /\ DOMAIN s.head = {"lo", "hi"} /\ s.head.hi \in Nat /\ DOMAIN s.next = Chunk /\ s.count \in Int
CPoolLive(B) == Spread(B) /\ \A b \in B : b.buf = 0 /\ b.align = 1
CPoolGood(s, B, l, F) ==
  /\ CPoolShape(s) /\ CPoolLive(B)
  /\ DOMAIN l = Threads /\ \A t \in Threads : CPoolLocals(l[t])
  /\ Parted(Places(B), In(0, F), Helds(l), In(0, Chunk))
  /\ s.bits = F \cup UNION {MarkAt(l[t]) : t \in Threads}
  /\ s.count + Cardinality({t \in Threads : Rising(l[t])})
       = Cardinality(s.bits) + Cardinality({t \in Threads : Falling(l[t])})
  /\ s.dirty \cap F = {} /\ \A t \in Threads : Clean(l[t], s.dirty)
  /\ \A t \in Threads : Tagged(l[t], s)
CPoolInv(s, B, l) == \E q : Path(s.head.lo, s.next, q) /\ CPoolGood(s, B, l, Range(q))

LEMMA OneMoves ==
  ASSUME NEW S, NEW T, NEW t, IsFiniteSet(S), T \ {t} = S \ {t}
  PROVE  /\ Cardinality(S) \in Nat /\ Cardinality(T) \in Nat
         /\ Cardinality(T) + (IF t \in S THEN 1 ELSE 0) = Cardinality(S) + (IF t \in T THEN 1 ELSE 0)
<1> DEFINE R == S \ {t}
<1>1. IsFiniteSet(R) /\ t \notin R BY FS_Subset
<1>2. /\ IsFiniteSet(R \cup {t}) /\ Cardinality(R \cup {t}) = Cardinality(R) + 1
      /\ Cardinality(R) \in Nat
  BY <1>1, FS_AddElement, FS_CardinalityType
<1>3. /\ t \in S => S = R \cup {t}
      /\ t \notin S => S = R
      /\ t \in T => T = R \cup {t}
      /\ t \notin T => T = R
  OBVIOUS
<1> HIDE DEF R
<1>4. \A X : (t \in X => X = R \cup {t}) /\ (t \notin X => X = R) =>
        /\ Cardinality(X) \in Nat
        /\ Cardinality(X) = Cardinality(R) + (IF t \in X THEN 1 ELSE 0)
  <2> SUFFICES ASSUME NEW X, t \in X => X = R \cup {t}, t \notin X => X = R
               PROVE  /\ Cardinality(X) \in Nat
                      /\ Cardinality(X) = Cardinality(R) + (IF t \in X THEN 1 ELSE 0)
    OBVIOUS
  <2>1. CASE t \in X
    <3>1. Cardinality(X) = Cardinality(R) + 1 BY <1>2, <2>1
    <3> QED BY <1>2, <2>1, <3>1
  <2>2. CASE t \notin X
    <3>1. Cardinality(X) = Cardinality(R) BY <2>2
    <3> QED BY <1>2, <2>2, <3>1
  <2> QED BY <2>1, <2>2
<1>5. /\ Cardinality(S) \in Nat /\ Cardinality(S) = Cardinality(R) + (IF t \in S THEN 1 ELSE 0)
      /\ Cardinality(T) \in Nat /\ Cardinality(T) = Cardinality(R) + (IF t \in T THEN 1 ELSE 0)
  BY <1>3, <1>4
<1> QED BY <1>2, <1>5

LEMMA MarkHeld ==
  ASSUME NEW me, CPoolLocals(me)
  PROVE  MarkAt(me) \subseteq Chunk /\ In(0, MarkAt(me)) \subseteq OwnAt(me)
<1>1. CASE me.pc = "clear" BY <1>1 DEF CPoolLocals, MarkAt, OwnAt, In, Taking, Giving
<1>2. CASE me.pc \in Giving \ {"or"} BY <1>2 DEF CPoolLocals, MarkAt, OwnAt, In, Taking, Giving
<1>3. CASE me.pc # "clear" /\ me.pc \notin Giving \ {"or"} BY <1>3 DEF MarkAt, In
<1> QED BY <1>1, <1>2, <1>3

\* What a step of thread t must respect. F and G are the free blocks before and
\* after it, X and Y the blocks whose bit it clears and sets, at most a.
PlacesLaw(t, r, F, G) ==
  /\ Places(live') \cup In(0, G) \cup HeldAt(r) = Places(live) \cup In(0, F) \cup HeldAt(loc[t])
  /\ Places(live') \cap In(0, G) = {} /\ HeldAt(r) \cap (Places(live') \cup In(0, G)) = {}
BitsLaw(t, r, F, G, X, Y, a) ==
  /\ X \subseteq {a} /\ Y \subseteq {a} /\ In(0, X) \subseteq HeldAt(loc[t])
  /\ al'.bits = (al.bits \ X) \cup Y
  /\ G \cup MarkAt(r) = ((F \cup MarkAt(loc[t])) \ X) \cup Y
CountLaw(t, r, a) ==
  al'.count + (IF Rising(r) THEN 1 ELSE 0) + (IF a \in al.bits THEN 1 ELSE 0) + (IF Falling(loc[t]) THEN 1 ELSE 0)
    = al.count + (IF Rising(loc[t]) THEN 1 ELSE 0) + (IF a \in al'.bits THEN 1 ELSE 0) + (IF Falling(r) THEN 1 ELSE 0)
DirtLaw(t, r, G) ==
  al'.dirty \cap G = {} /\ Clean(r, al'.dirty) /\ \A a \in al'.dirty \ al.dirty : <<0, a>> \in HeldAt(loc[t])
TagLaw(t, r, F) ==
  /\ al'.head = al.head \/ al'.head.hi = al.head.hi + 1
  /\ al'.head = al.head => al.head.lo = Null \/ al.head.lo \in F
  /\ \A a \in Chunk : al'.next[a] # al.next[a] => <<0, a>> \in OwnAt(loc[t])
  /\ Tagged(r, al')

LEMMA CPoolMoves ==
  ASSUME NEW F, CPoolGood(al, live, loc, F), NEW t \in Threads, NEW r, Moved(t, r), NEW G, NEW X, NEW Y, NEW a,
         CPoolShape(al'), CPoolLive(live'), CPoolLocals(r),
         PlacesLaw(t, r, F, G), BitsLaw(t, r, F, G, X, Y, a), CountLaw(t, r, a), DirtLaw(t, r, G), TagLaw(t, r, F)
  PROVE  CPoolGood(al', live', loc', G)
<1>1. DOMAIN loc' = Threads /\ loc'[t] = r /\ \A u \in Threads : u # t => loc'[u] = loc[u] BY DEF Moved
<1>2. \A u \in Threads : CPoolLocals(loc'[u])
  <2>1. \A u \in Threads : CPoolLocals(loc[u]) BY DEF CPoolGood
  <2> QED BY <1>1, <2>1
<1>3. Parted(Places(live), In(0, F), Helds(loc), In(0, Chunk)) BY DEF CPoolGood
<1>4. \A u \in Threads : Helds(loc)[u] = HeldAt(loc[u]) BY DEF Helds
<1>5. Helds(loc')[t] = HeldAt(r) /\ \A u \in Threads : u # t => Helds(loc')[u] = Helds(loc)[u]
  BY <1>1 DEF Helds
<1>6. Parted(Places(live'), In(0, G), Helds(loc'), In(0, Chunk))
  <2>1. /\ Places(live') \cup In(0, G) \cup Helds(loc')[t] = Places(live) \cup In(0, F) \cup Helds(loc)[t]
        /\ Places(live') \cap In(0, G) = {} /\ Helds(loc')[t] \cap (Places(live') \cup In(0, G)) = {}
    BY <1>4, <1>5 DEF PlacesLaw
  <2> QED BY ONLY <1>3, <1>5, <2>1, t \in Threads, PartMoves
<1>7. /\ \A u \in Threads : HeldAt(loc[u]) \cap In(0, F) = {}
      /\ \A u \in Threads : u # t => HeldAt(loc[u]) \cap HeldAt(loc[t]) = {}
      /\ In(0, F) \subseteq In(0, Chunk)
  BY <1>3, <1>4 DEF Parted
<1>8. \A u \in Threads : In(0, MarkAt(loc[u])) \subseteq HeldAt(loc[u]) /\ MarkAt(loc[u]) \subseteq Chunk
  <2>1. \A u \in Threads : CPoolLocals(loc[u]) BY DEF CPoolGood
  <2> QED BY <2>1, MarkHeld DEF HeldAt
<1>9. al'.bits = G \cup UNION {MarkAt(loc'[u]) : u \in Threads}
  <2>0. /\ al.bits = F \cup UNION {MarkAt(loc[u]) : u \in Threads}
        /\ al'.bits = (al.bits \ X) \cup Y /\ In(0, X) \subseteq HeldAt(loc[t])
        /\ G \cup MarkAt(r) = ((F \cup MarkAt(loc[t])) \ X) \cup Y
    BY DEF CPoolGood, BitsLaw
  <2>1. \A u \in Threads : u # t => MarkAt(loc'[u]) = MarkAt(loc[u]) BY <1>1
  <2>2. MarkAt(loc'[t]) = MarkAt(r) BY <1>1
  <2>3. ASSUME NEW u \in Threads, u # t, NEW x \in MarkAt(loc[u]) PROVE x \notin X
    <3> SUFFICES ASSUME x \in X PROVE FALSE OBVIOUS
    <3>1. <<0, x>> \in HeldAt(loc[t]) BY <2>0 DEF In
    <3>2. <<0, x>> \in HeldAt(loc[u]) BY <1>8 DEF In
    <3> QED BY <1>7, <2>3, <3>1, <3>2
  <2>4. ASSUME NEW x \in al'.bits PROVE x \in G \cup UNION {MarkAt(loc'[u]) : u \in Threads}
    <3>1. CASE x \in Y BY <2>0, <2>2, <3>1
    <3>2. CASE x \in al.bits /\ x \notin X
      <4>1. CASE x \in F \cup MarkAt(loc[t]) BY <2>0, <2>2, <3>2, <4>1
      <4>2. CASE \E u \in Threads : u # t /\ x \in MarkAt(loc[u]) BY <2>1, <4>2
      <4> QED BY <2>0, <3>2, <4>1, <4>2
    <3> QED BY <2>0, <2>4, <3>1, <3>2
  <2>5. ASSUME NEW x \in G \cup UNION {MarkAt(loc'[u]) : u \in Threads} PROVE x \in al'.bits
    <3>1. CASE x \in G \cup MarkAt(r) BY <2>0, <3>1
    <3>2. CASE \E u \in Threads : u # t /\ x \in MarkAt(loc'[u])
      <4>1. PICK u \in Threads : u # t /\ x \in MarkAt(loc[u]) BY <2>1, <3>2
      <4>2. x \in al.bits /\ x \notin X BY <2>0, <2>3, <4>1
      <4> QED BY <2>0, <4>2
    <3> QED BY <2>2, <2>5, <3>1, <3>2
  <2> QED BY <2>4, <2>5
<1>10. al'.count + Cardinality({u \in Threads : Rising(loc'[u])})
         = Cardinality(al'.bits) + Cardinality({u \in Threads : Falling(loc'[u])})
  <2>1. PICK R : R = {u \in Threads : Rising(loc[u])} OBVIOUS
  <2>2. PICK R2 : R2 = {u \in Threads : Rising(loc'[u])} OBVIOUS
  <2>3. PICK L : L = {u \in Threads : Falling(loc[u])} OBVIOUS
  <2>4. PICK L2 : L2 = {u \in Threads : Falling(loc'[u])} OBVIOUS
  <2>5. PICK S : S = al.bits OBVIOUS
  <2>6. PICK S2 : S2 = al'.bits OBVIOUS
  <2>7. IsFiniteSet(R) /\ IsFiniteSet(L) BY <2>1, <2>3, SizesAssumption, FS_Subset
  <2>8. IsFiniteSet(S)
    <3>1. F \subseteq Chunk
      <4> SUFFICES ASSUME NEW x \in F PROVE x \in Chunk OBVIOUS
      <4>1. <<0, x>> \in In(0, F) BY InFacts
      <4>2. <<0, x>> \in In(0, Chunk) BY <1>7, <4>1
      <4> QED BY <4>2, InFacts
    <3>2. al.bits \subseteq Chunk BY <1>8, <3>1 DEF CPoolGood
    <3> QED BY <2>5, <3>2, ChunkFacts, FS_Subset
  <2>9. R2 \ {t} = R \ {t} /\ (t \in R <=> Rising(loc[t])) /\ (t \in R2 <=> Rising(r)) BY <1>1, <2>1, <2>2
  <2>10. L2 \ {t} = L \ {t} /\ (t \in L <=> Falling(loc[t])) /\ (t \in L2 <=> Falling(r)) BY <1>1, <2>3, <2>4
  <2>11. S2 \ {a} = S \ {a}
    <3>1. X \subseteq {a} /\ Y \subseteq {a} /\ S2 = (S \ X) \cup Y BY <2>5, <2>6 DEF BitsLaw
    <3> QED BY <3>1
  <2>12. /\ Cardinality(R) \in Nat /\ Cardinality(R2) \in Nat
         /\ Cardinality(R2) + (IF t \in R THEN 1 ELSE 0) = Cardinality(R) + (IF t \in R2 THEN 1 ELSE 0)
    BY <2>7, <2>9, OneMoves
  <2>13. /\ Cardinality(L) \in Nat /\ Cardinality(L2) \in Nat
         /\ Cardinality(L2) + (IF t \in L THEN 1 ELSE 0) = Cardinality(L) + (IF t \in L2 THEN 1 ELSE 0)
    BY <2>7, <2>10, OneMoves
  <2>14. /\ Cardinality(S) \in Nat /\ Cardinality(S2) \in Nat
         /\ Cardinality(S2) + (IF a \in S THEN 1 ELSE 0) = Cardinality(S) + (IF a \in S2 THEN 1 ELSE 0)
    BY <2>8, <2>11, OneMoves
  <2>15. PICK c : c = al.count OBVIOUS
  <2>16. PICK c2 : c2 = al'.count OBVIOUS
  <2>17. c \in Int /\ c + Cardinality(R) = Cardinality(S) + Cardinality(L)
    BY <2>1, <2>3, <2>5, <2>15 DEF CPoolGood, CPoolShape
  <2>18. c2 \in Int BY <2>16 DEF CPoolShape
  <2>19. c2 + (IF t \in R2 THEN 1 ELSE 0) + (IF a \in S THEN 1 ELSE 0) + (IF t \in L THEN 1 ELSE 0)
           = c + (IF t \in R THEN 1 ELSE 0) + (IF a \in S2 THEN 1 ELSE 0) + (IF t \in L2 THEN 1 ELSE 0)
    BY <2>5, <2>6, <2>9, <2>10, <2>15, <2>16 DEF CountLaw
  <2>20. c2 + Cardinality(R2) = Cardinality(S2) + Cardinality(L2)
    BY ONLY <2>12, <2>13, <2>14, <2>17, <2>18, <2>19
  <2> QED BY <2>2, <2>4, <2>6, <2>16, <2>20
<1>11. al'.dirty \cap G = {} /\ \A u \in Threads : Clean(loc'[u], al'.dirty)
  <2>1. al'.dirty \cap G = {} /\ Clean(r, al'.dirty)
        /\ \A x \in al'.dirty \ al.dirty : <<0, x>> \in HeldAt(loc[t])
    BY DEF DirtLaw
  <2>2. ASSUME NEW u \in Threads PROVE Clean(loc'[u], al'.dirty)
    <3>1. CASE u = t BY <1>1, <2>1, <3>1
    <3>2. CASE u # t
      <4> SUFFICES ASSUME loc[u].pc \in {"top", "store", "pushCas"}, loc[u].p \in al'.dirty PROVE FALSE
        BY <1>1, <3>2 DEF Clean
      <4>1. loc[u].p \notin al.dirty BY DEF CPoolGood, Clean
      <4>2. <<0, loc[u].p>> \in HeldAt(loc[t]) BY <2>1, <4>1
      <4>3. <<0, loc[u].p>> \in HeldAt(loc[u]) BY DEF HeldAt, OwnAt, Giving
      <4> QED BY <1>7, <3>2, <4>2, <4>3
    <3> QED BY <3>1, <3>2
  <2> QED BY <2>1, <2>2
<1>12. \A u \in Threads : Tagged(loc'[u], al')
  <2>0. /\ al'.head = al.head \/ al'.head.hi = al.head.hi + 1
        /\ al'.head = al.head => al.head.lo = Null \/ al.head.lo \in F
        /\ \A x \in Chunk : al'.next[x] # al.next[x] => <<0, x>> \in OwnAt(loc[t])
        /\ Tagged(r, al')
    BY DEF TagLaw
  <2> SUFFICES ASSUME NEW u \in Threads, u # t PROVE Tagged(loc'[u], al') BY <1>1, <2>0
  <2>1. PICK me : me = loc[u] OBVIOUS
  <2>2. loc'[u] = me /\ CPoolLocals(me) /\ Tagged(me, al) BY <1>1, <2>1 DEF CPoolGood
  <2>3. al.head.hi \in Nat /\ al'.head.hi \in Nat BY DEF CPoolGood, CPoolShape
  <2>4. al.head.hi <= al'.head.hi BY <2>0, <2>3
  <2>5. me.pc \in {"link", "cas"} => me.head.hi \in Nat /\ me.head.hi <= al'.head.hi
    BY <2>2, <2>3, <2>4 DEF Tagged
  <2>6. ASSUME me.pc = "cas", me.head = al'.head PROVE me.next = al'.next[al'.head.lo]
    <3>1. me.head.hi \in Nat /\ me.head.hi <= al.head.hi BY <2>2, <2>6 DEF Tagged
    <3>2. al'.head = al.head BY <2>0, <2>3, <2>6, <3>1
    <3>3. me.next = al.next[al.head.lo] BY <2>2, <2>6, <3>2 DEF Tagged
    <3>4. me.head.lo \in Chunk BY <2>2, <2>6 DEF CPoolLocals, Taking, Giving
    <3>5. al.head.lo \in Chunk /\ al.head.lo \in F BY <2>0, <2>6, <3>2, <3>4, ChunkNat
    <3>6. <<0, al.head.lo>> \notin OwnAt(loc[t])
      <4>1. <<0, al.head.lo>> \in In(0, F) BY <3>5 DEF In
      <4> QED BY <1>7, <4>1 DEF HeldAt
    <3> QED BY <2>0, <3>2, <3>3, <3>5, <3>6
  <2>7. ASSUME me.pc = "pushCas" PROVE al'.next[me.p] = me.head.lo
    <3>1. al.next[me.p] = me.head.lo BY <2>2, <2>7 DEF Tagged
    <3>2. me.p \in Chunk BY <2>2, <2>7 DEF CPoolLocals, Taking, Giving
    <3>3. <<0, me.p>> \in HeldAt(loc[u]) BY <2>1, <2>7 DEF HeldAt, OwnAt, Giving
    <3>4. <<0, me.p>> \notin OwnAt(loc[t]) BY <1>7, <3>3 DEF HeldAt
    <3> QED BY <2>0, <3>1, <3>2, <3>4
  <2> QED BY <2>2, <2>5, <2>6, <2>7 DEF Tagged
<1> QED BY <1>1, <1>2, <1>6, <1>9, <1>10, <1>11, <1>12 DEF CPoolGood

LEMMA CPoolFacts ==
  ASSUME NEW q, Path(al.head.lo, al.next, q), CPoolGood(al, live, loc, Range(q)), NEW t \in Threads
  PROVE  /\ CPoolShape(al) /\ CPoolLive(live) /\ DOMAIN loc = Threads
         /\ CPoolLocals(loc[t]) /\ Clean(loc[t], al.dirty) /\ Tagged(loc[t], al)
         /\ al.head.lo = Null \/ al.head.lo \in Range(q)
         /\ Range(q) \subseteq Chunk /\ Range(q) \subseteq al.bits /\ MarkAt(loc[t]) \subseteq al.bits
         /\ HeldAt(loc[t]) \cap (Places(live) \cup In(0, Range(q))) = {}
         /\ HeldAt(loc[t]) \cup Places(live) \subseteq In(0, Chunk)
         /\ Places(live) \cap In(0, Range(q)) = {}
         /\ al.dirty \cap Range(q) = {}
<1>1. Parted(Places(live), In(0, Range(q)), Helds(loc), In(0, Chunk)) BY DEF CPoolGood
<1>2. Helds(loc)[t] = HeldAt(loc[t]) BY DEF Helds
<1>3. /\ HeldAt(loc[t]) \cap (Places(live) \cup In(0, Range(q))) = {}
      /\ HeldAt(loc[t]) \cup Places(live) \subseteq In(0, Chunk) /\ Places(live) \cap In(0, Range(q)) = {}
  BY <1>1, <1>2 DEF Parted
<1>4. al.head.lo = Null \/ al.head.lo \in Range(q)
  <2>1. Len(q) \in Nat /\ Range(q) = {q[i] : i \in 1 .. Len(q)} BY PathFacts
  <2>2. Len(q) # 0 => 1 \in 1 .. Len(q) BY <2>1
  <2> QED BY <2>1, <2>2 DEF Path
<1>5. Range(q) \subseteq Chunk BY DEF Path
<1>6. Range(q) \subseteq al.bits /\ MarkAt(loc[t]) \subseteq al.bits BY DEF CPoolGood
<1> QED BY <1>3, <1>4, <1>5, <1>6 DEF CPoolGood

\* A step after which a thread has what it had, and nothing else has changed.
LEMMA CPoolTurns ==
  ASSUME NEW q, Path(al.head.lo, al.next, q), CPoolGood(al, live, loc, Range(q)), NEW t \in Threads,
         NEW r, loc' = [loc EXCEPT ![t] = r], al' = al, live' = live, CPoolLocals(r),
         HeldAt(r) = HeldAt(loc[t]), MarkAt(r) = MarkAt(loc[t]),
         Rising(r) <=> Rising(loc[t]), Falling(r) <=> Falling(loc[t]), Clean(r, al.dirty), Tagged(r, al)
  PROVE  CPoolInv(al', live', loc')
<1> USE CPoolFacts
<1>1. PICK F : F = Range(q) OBVIOUS
<1>2. Moved(t, r) BY LocalStep
<1>3. PlacesLaw(t, r, F, F)
  <2>1. Places(live') = Places(live) OBVIOUS
  <2>2. HeldAt(r) \cap (Places(live) \cup In(0, F)) = {} /\ Places(live) \cap In(0, F) = {} BY <1>1
  <2> QED BY <2>1, <2>2 DEF PlacesLaw
<1>4. BitsLaw(t, r, F, F, {}, {}, 0) BY DEF BitsLaw, In
<1>5. CountLaw(t, r, 0)
  <2>1. al'.count = al.count /\ al'.bits = al.bits OBVIOUS
  <2> QED BY <2>1 DEF CountLaw
<1>6. DirtLaw(t, r, F) BY <1>1 DEF DirtLaw
<1>7. TagLaw(t, r, F) BY <1>1 DEF TagLaw
<1>8. CPoolShape(al') /\ CPoolLive(live') OBVIOUS
<1>9. CPoolGood(al', live', loc', F)
  BY <1>1, <1>2, <1>3, <1>4, <1>5, <1>6, <1>7, <1>8, CPoolMoves
<1>10. Path(al'.head.lo, al'.next, q) OBVIOUS
<1> QED BY <1>1, <1>9, <1>10 DEF CPoolInv

\* A realloc's old block goes back to its caller.
LEMMA OldFacts ==
  ASSUME NEW o, IsOld(o)
  PROVE  /\ o = <<>> => Range(o) = {} /\ Places(Range(o)) = {}
         /\ o # <<>> => /\ Range(o) = {o[1]} /\ Places(Range(o)) = {<<0, o[1].at>>}
                        /\ o[1].buf = 0 /\ o[1].align = 1 /\ Pos(o[1]) = <<0, o[1].at>>
<1>1. CASE o = <<>>
  <2>1. DOMAIN <<>> = {} OBVIOUS
  <2>2. Range(<<>>) = {} BY <2>1 DEF Range
  <2> QED BY <1>1, <2>2 DEF Places
<1>2. ASSUME NEW b, o = <<b>>, b.buf = 0, b.align = 1
      PROVE  /\ Range(o) = {o[1]} /\ Places(Range(o)) = {<<0, o[1].at>>}
             /\ o[1].buf = 0 /\ o[1].align = 1 /\ Pos(o[1]) = <<0, o[1].at>>
  <2>1. DOMAIN <<b>> = {1} /\ <<b>>[1] = b OBVIOUS
  <2>2. DOMAIN o = {1} /\ o[1] = b BY <1>2, <2>1
  <2>3. Range(o) = {b} BY <2>2 DEF Range
  <2>4. Pos(b) = <<0, b.at>> BY <1>2 DEF Pos
  <2> QED BY <1>2, <2>2, <2>3, <2>4 DEF Places
<1> QED BY <1>1, <1>2 DEF IsOld

LEMMA OldBack ==
  ASSUME NEW B, CPoolLive(B), NEW o, IsOld(o), Places(Range(o)) \cap Places(B) = {}
  PROVE  CPoolLive(B \cup Range(o)) /\ Places(B \cup Range(o)) = Places(B) \cup Places(Range(o))
<1>1. CASE o = <<>> BY <1>1, OldFacts
<1>2. CASE o # <<>>
  <2>1. PICK b : b = o[1] OBVIOUS
  <2>2. Range(o) = {b} /\ Places(Range(o)) = {Pos(b)} /\ b.buf = 0 /\ b.align = 1 BY <1>2, <2>1, OldFacts
  <2>3. Pos(b) \notin Places(B) BY <2>2
  <2>4. Spread(B \cup {b}) /\ Places(B \cup {b}) = Places(B) \cup {Pos(b)} BY <2>3, LiveMore DEF CPoolLive
  <2> QED BY <2>2, <2>4 DEF CPoolLive
<1> QED BY <1>1, <1>2

\* What the locals of a thread that takes and of one that gives hold.
LEMMA TakerFacts ==
  ASSUME NEW me, CPoolLocals(me), me.pc \in Taking
  PROVE  /\ {"pc", "size", "old"} \subseteq DOMAIN me /\ IsOld(me.old) /\ OldAt(me) = Places(Range(me.old))
         /\ me.pc # "load" => "head" \in DOMAIN me /\ me.head.lo \in Chunk
         /\ me.pc \in {"load", "link", "cas"} => HeldAt(me) = OldAt(me) /\ MarkAt(me) = {}
         /\ me.pc \in {"clear", "less"} =>
              HeldAt(me) = OldAt(me) \cup {<<0, me.head.lo>>} /\ <<0, me.head.lo>> \notin OldAt(me)
         /\ me.pc = "clear" => MarkAt(me) = {me.head.lo}
         /\ me.pc = "less" => MarkAt(me) = {}
         /\ ~Rising(me) /\ (Falling(me) <=> me.pc = "less")
<1>1. /\ {"pc", "size", "old"} \subseteq DOMAIN me /\ IsOld(me.old)
      /\ me.pc # "load" => "head" \in DOMAIN me /\ me.head.lo \in Chunk
      /\ me.pc \in {"clear", "less"} => <<0, me.head.lo>> \notin OldAt(me)
  BY DEF CPoolLocals, Taking, Giving
<1>2. OldAt(me) = Places(Range(me.old)) BY DEF OldAt
<1>3. me.pc \in {"load", "link", "cas"} => OwnAt(me) = {} /\ MarkAt(me) = {} BY DEF OwnAt, MarkAt, Giving
<1>4. me.pc \in {"clear", "less"} => OwnAt(me) = {<<0, me.head.lo>>} BY DEF OwnAt
<1>5. (me.pc = "clear" => MarkAt(me) = {me.head.lo}) /\ (me.pc = "less" => MarkAt(me) = {}) BY DEF MarkAt, Giving
<1>6. ~Rising(me) /\ (Falling(me) <=> me.pc = "less") BY DEF Rising, Falling, Taking
<1> QED BY <1>1, <1>2, <1>3, <1>4, <1>5, <1>6 DEF HeldAt

LEMMA GiverFacts ==
  ASSUME NEW me, CPoolLocals(me), me.pc \in Giving \cup {"more"}
  PROVE  /\ {"pc", "p"} \subseteq DOMAIN me /\ "old" \notin DOMAIN me /\ me.p \in Chunk /\ OldAt(me) = {}
         /\ me.pc \in {"store", "pushCas"} => "head" \in DOMAIN me
         /\ me.pc # "more" => HeldAt(me) = {<<0, me.p>>} /\ OwnAt(me) = {<<0, me.p>>}
         /\ me.pc = "more" => HeldAt(me) = {}
         /\ me.pc \notin {"or", "more"} => MarkAt(me) = {me.p}
         /\ me.pc \in {"or", "more"} => MarkAt(me) = {}
         /\ (Rising(me) <=> me.pc # "or") /\ ~Falling(me)
<1>1. /\ {"pc", "p"} \subseteq DOMAIN me /\ "old" \notin DOMAIN me /\ me.p \in Chunk
      /\ me.pc \in {"store", "pushCas"} => "head" \in DOMAIN me
  BY DEF CPoolLocals, Taking, Giving
<1>2. OldAt(me) = {} BY DEF OldAt, Taking, Giving
<1>3. (me.pc # "more" => OwnAt(me) = {<<0, me.p>>}) /\ (me.pc = "more" => OwnAt(me) = {}) BY DEF OwnAt, Giving
<1>4. /\ me.pc \notin {"or", "more"} => MarkAt(me) = {me.p}
      /\ me.pc \in {"or", "more"} => MarkAt(me) = {}
  BY DEF MarkAt, Giving
<1>5. (Rising(me) <=> me.pc # "or") /\ ~Falling(me) BY DEF Rising, Falling, Giving
<1> QED BY <1>1, <1>2, <1>3, <1>4, <1>5 DEF HeldAt

LEMMA IdleFacts ==
  ASSUME NEW me, me.pc = "idle"
  PROVE  /\ HeldAt(me) = {} /\ OldAt(me) = {} /\ MarkAt(me) = {} /\ ~Rising(me) /\ ~Falling(me)
         /\ \A dirty : Clean(me, dirty) /\ \A s : Tagged(me, s)
BY DEF HeldAt, OldAt, OwnAt, MarkAt, Rising, Falling, Clean, Tagged, Taking, Giving

LEMMA TakerTurns ==
  ASSUME NEW q, Path(al.head.lo, al.next, q), CPoolGood(al, live, loc, Range(q)), NEW t \in Threads,
         NEW r, loc' = [loc EXCEPT ![t] = r], al' = al, live' = live,
         loc[t].pc \in {"load", "link", "cas"}, r.pc \in {"load", "link", "cas"}, r.old = loc[t].old,
         {"pc", "size", "old"} \subseteq DOMAIN r,
         r.pc # "load" => "head" \in DOMAIN r /\ r.head.lo \in Chunk, Tagged(r, al)
  PROVE  CPoolInv(al', live', loc')
<1>1. CPoolLocals(loc[t]) BY CPoolFacts
<1>2. r.pc \in Taking /\ loc[t].pc \in Taking BY DEF Taking
<1>3. IsOld(loc[t].old) BY <1>1, <1>2, TakerFacts
<1>4. CPoolLocals(r) BY <1>2, <1>3 DEF CPoolLocals
<1>5. HeldAt(r) = HeldAt(loc[t]) /\ MarkAt(r) = MarkAt(loc[t])
  BY <1>1, <1>2, <1>4, TakerFacts
<1>6. (Rising(r) <=> Rising(loc[t])) /\ (Falling(r) <=> Falling(loc[t]))
  BY DEF Rising, Falling
<1>7. Clean(r, al.dirty) BY DEF Clean
<1> QED BY <1>4, <1>5, <1>6, <1>7, CPoolTurns

LEMMA GiverTurns ==
  ASSUME NEW q, Path(al.head.lo, al.next, q), CPoolGood(al, live, loc, Range(q)), NEW t \in Threads,
         NEW r, loc' = [loc EXCEPT ![t] = r], al' = al, live' = live,
         loc[t].pc \in {"top", "store", "pushCas"}, r.pc \in {"top", "store"}, r.p = loc[t].p,
         {"pc", "p"} \subseteq DOMAIN r, "old" \notin DOMAIN r, r.pc = "store" => "head" \in DOMAIN r
  PROVE  CPoolInv(al', live', loc')
<1>1. CPoolLocals(loc[t]) /\ Clean(loc[t], al.dirty) BY CPoolFacts
<1>2. r.pc \in Giving \cup {"more"} /\ loc[t].pc \in Giving \cup {"more"} BY DEF Giving
<1>3. loc[t].p \in Chunk BY <1>1, <1>2, GiverFacts
<1>4. CPoolLocals(r) BY <1>2, <1>3 DEF CPoolLocals
<1>5. HeldAt(r) = HeldAt(loc[t]) /\ MarkAt(r) = MarkAt(loc[t])
  BY <1>1, <1>2, <1>4, GiverFacts
<1>6. (Rising(r) <=> Rising(loc[t])) /\ (Falling(r) <=> Falling(loc[t]))
  BY DEF Rising, Falling
<1>7. Clean(r, al.dirty) /\ Tagged(r, al) BY <1>1 DEF Clean, Tagged
<1> QED BY <1>4, <1>5, <1>6, <1>7, CPoolTurns

LEMMA IdleTurns ==
  ASSUME NEW q, Path(al.head.lo, al.next, q), CPoolGood(al, live, loc, Range(q)), NEW t \in Threads, At(t, "idle"),
         NEW r, loc' = [loc EXCEPT ![t] = r], al' = al, live' = live,
         \/ r = Idle
         \/ r.pc = "load" /\ DOMAIN r = {"pc", "size", "old"} /\ r.old = <<>>
  PROVE  CPoolInv(al', live', loc')
<1>1. loc[t].pc = "idle" BY DEF At
<1>2. /\ HeldAt(loc[t]) = {} /\ MarkAt(loc[t]) = {} /\ ~Rising(loc[t]) /\ ~Falling(loc[t]) BY <1>1, IdleFacts
<1>3. CASE r = Idle
  <2>1. r.pc = "idle" /\ DOMAIN r = {"pc"} BY <1>3 DEF Idle
  <2>2. CPoolLocals(r) BY <2>1 DEF CPoolLocals
  <2>3. /\ HeldAt(r) = {} /\ MarkAt(r) = {} /\ ~Rising(r) /\ ~Falling(r) /\ Clean(r, al.dirty) /\ Tagged(r, al)
    BY <2>1, IdleFacts
  <2> QED BY <1>2, <2>2, <2>3, CPoolTurns
<1>4. CASE r.pc = "load" /\ DOMAIN r = {"pc", "size", "old"} /\ r.old = <<>>
  <2>1. r.pc \in Taking /\ IsOld(r.old) BY <1>4 DEF Taking, IsOld
  <2>2. CPoolLocals(r) BY <1>4, <2>1 DEF CPoolLocals
  <2>3. /\ HeldAt(r) = Places(Range(r.old)) /\ MarkAt(r) = {} /\ ~Rising(r) /\ ~Falling(r)
    BY <1>4, <2>1, <2>2, TakerFacts
  <2>4. HeldAt(r) = {} BY <1>4, <2>1, <2>3, OldFacts
  <2>5. Clean(r, al.dirty) /\ Tagged(r, al) BY <1>4 DEF Clean, Tagged
  <2> QED BY <1>2, <2>2, <2>3, <2>4, <2>5, CPoolTurns
<1> QED BY <1>3, <1>4

\* No block is left: a realloc's caller keeps the old one.
LEMMA CPoolEmpty ==
  ASSUME NEW q, Path(al.head.lo, al.next, q), CPoolGood(al, live, loc, Range(q)), NEW t \in Threads,
         At(t, "load"), Return(t, al, Kept(t))
  PROVE  CPoolInv(al', live', loc')
<1> USE CPoolFacts
<1>1. PICK me : me = loc[t] OBVIOUS
<1>2. PICK F : F = Range(q) OBVIOUS
<1>3. me.pc = "load" /\ me.pc \in Taking BY <1>1 DEF At, Taking
<1>4. IsOld(me.old) /\ HeldAt(me) = Places(Range(me.old)) /\ MarkAt(me) = {} /\ ~Rising(me) /\ ~Falling(me)
  BY <1>1, <1>3, TakerFacts
<1>5. al' = al /\ live' = live \cup Range(me.old) /\ loc' = [loc EXCEPT ![t] = Idle]
  BY <1>1 DEF Return, Finish, Kept
<1>6. Moved(t, Idle) BY <1>5, LocalStep
<1>7. Idle.pc = "idle" /\ DOMAIN Idle = {"pc"} BY DEF Idle
<1>8. /\ HeldAt(Idle) = {} /\ MarkAt(Idle) = {} /\ ~Rising(Idle) /\ ~Falling(Idle)
      /\ Clean(Idle, al'.dirty) /\ Tagged(Idle, al')
  BY <1>7, IdleFacts
<1>9. CPoolLocals(Idle) BY <1>7 DEF CPoolLocals
<1>10. CPoolLive(live') /\ Places(live') = Places(live) \cup Places(Range(me.old))
  <2>1. Places(Range(me.old)) \cap Places(live) = {} BY <1>1, <1>4
  <2> QED BY <1>4, <1>5, <2>1, OldBack
<1>11. PlacesLaw(t, Idle, F, F)
  <2>1. HeldAt(me) \cap (Places(live) \cup In(0, F)) = {} /\ Places(live) \cap In(0, F) = {} BY <1>1, <1>2
  <2>2. Places(live') = Places(live) \cup HeldAt(loc[t]) BY <1>1, <1>4, <1>10
  <2> QED BY <1>1, <1>8, <2>1, <2>2 DEF PlacesLaw
<1>12. BitsLaw(t, Idle, F, F, {}, {}, 0) BY <1>1, <1>4, <1>5, <1>8 DEF BitsLaw, In
<1>13. CountLaw(t, Idle, 0)
  <2>1. al'.count = al.count /\ al'.bits = al.bits BY <1>5
  <2> QED BY <1>1, <1>4, <1>8, <2>1 DEF CountLaw
<1>14. DirtLaw(t, Idle, F) BY <1>2, <1>5, <1>8 DEF DirtLaw
<1>15. TagLaw(t, Idle, F) BY <1>2, <1>5, <1>8 DEF TagLaw
<1>16. CPoolShape(al') BY <1>5
<1>17. CPoolGood(al', live', loc', F)
  BY <1>2, <1>6, <1>9, <1>10, <1>11, <1>12, <1>13, <1>14, <1>15, <1>16, CPoolMoves
<1> QED BY <1>2, <1>5, <1>17 DEF CPoolInv

\* A caller's block becomes the old one of a realloc, or is freed.
LEMMA CPoolBegins ==
  ASSUME NEW q, Path(al.head.lo, al.next, q), CPoolGood(al, live, loc, Range(q)), NEW t \in Threads, At(t, "idle"),
         NEW b \in live, live' = live \ {b}, NEW r, loc' = [loc EXCEPT ![t] = r],
         \/ al' = al /\ r.pc = "load" /\ DOMAIN r = {"pc", "size", "old"} /\ r.old = <<b>>
         \/ /\ al' = [al EXCEPT !.bits = @ \cup {b.at}] /\ b.at \notin al.bits
            /\ r.pc = "wipe" /\ DOMAIN r = {"pc", "p"} /\ r.p = b.at
  PROVE  CPoolInv(al', live', loc')
<1> USE CPoolFacts
<1>1. PICK F : F = Range(q) OBVIOUS
<1>2. loc[t].pc = "idle" BY DEF At
<1>3. HeldAt(loc[t]) = {} /\ MarkAt(loc[t]) = {} /\ ~Rising(loc[t]) /\ ~Falling(loc[t]) BY <1>2, IdleFacts
<1>4. Moved(t, r) BY LocalStep
<1>5. b.buf = 0 /\ b.align = 1 /\ Pos(b) = <<0, b.at>> BY DEF CPoolLive, Pos
<1>6. Spread(live') /\ Places(live') = Places(live) \ {Pos(b)} /\ Pos(b) \in Places(live)
  BY LiveLess DEF CPoolLive
<1>7. CPoolLive(live') BY <1>6 DEF CPoolLive
<1>8. b.at \in Chunk
  <2>1. <<0, b.at>> \in In(0, Chunk) BY <1>5, <1>6
  <2> QED BY <2>1, InFacts
<1>9. ASSUME HeldAt(r) = {Pos(b)} PROVE PlacesLaw(t, r, F, F)
  <2>1. Places(live) \cap In(0, F) = {} BY <1>1
  <2>2. /\ (Places(live) \ {Pos(b)}) \cup In(0, F) \cup {Pos(b)} = Places(live) \cup In(0, F) \cup {}
        /\ (Places(live) \ {Pos(b)}) \cap In(0, F) = {}
        /\ {Pos(b)} \cap ((Places(live) \ {Pos(b)}) \cup In(0, F)) = {}
    BY <1>6, <2>1
  <2> QED BY <1>3, <1>6, <1>9, <2>2 DEF PlacesLaw
<1>10. CASE al' = al /\ r.pc = "load" /\ DOMAIN r = {"pc", "size", "old"} /\ r.old = <<b>>
  <2>1. r.pc \in Taking /\ IsOld(r.old) BY <1>5, <1>10 DEF Taking, IsOld
  <2>2. CPoolLocals(r) BY <1>10, <2>1 DEF CPoolLocals
  <2>3. /\ HeldAt(r) = Places(Range(r.old)) /\ MarkAt(r) = {} /\ ~Rising(r) /\ ~Falling(r)
    BY <1>10, <2>1, <2>2, TakerFacts
  <2>4. HeldAt(r) = {Pos(b)}
    <3>1. <<b>> # <<>> /\ <<b>>[1] = b OBVIOUS
    <3> QED BY <1>5, <1>10, <2>1, <2>3, <3>1, OldFacts
  <2>5. PlacesLaw(t, r, F, F) BY <1>9, <2>4
  <2>6. BitsLaw(t, r, F, F, {}, {}, 0) BY <1>3, <1>10, <2>3 DEF BitsLaw, In
  <2>7. CountLaw(t, r, 0)
    <3>1. al'.count = al.count /\ al'.bits = al.bits BY <1>10
    <3> QED BY <1>3, <2>3, <3>1 DEF CountLaw
  <2>8. DirtLaw(t, r, F) BY <1>1, <1>10 DEF DirtLaw, Clean
  <2>9. TagLaw(t, r, F) BY <1>1, <1>10 DEF TagLaw, Tagged
  <2>10. CPoolShape(al') BY <1>10
  <2>11. CPoolGood(al', live', loc', F)
    BY <1>1, <1>4, <1>7, <2>2, <2>5, <2>6, <2>7, <2>8, <2>9, <2>10, CPoolMoves
  <2> QED BY <1>1, <1>10, <2>11 DEF CPoolInv
<1>11. CASE /\ al' = [al EXCEPT !.bits = @ \cup {b.at}] /\ b.at \notin al.bits
            /\ r.pc = "wipe" /\ DOMAIN r = {"pc", "p"} /\ r.p = b.at
  <2>0. DOMAIN al = {"head", "bits", "count", "next", "dirty"} BY DEF CPoolShape
  <2>1. /\ al'.bits = al.bits \cup {b.at} /\ al'.head = al.head /\ al'.count = al.count /\ al'.next = al.next
        /\ al'.dirty = al.dirty /\ DOMAIN al' = DOMAIN al
    BY <1>11, <2>0
  <2>2. r.pc \in Giving \cup {"more"} BY <1>11 DEF Giving
  <2>3. CPoolLocals(r) BY <1>8, <1>11, <2>2 DEF CPoolLocals
  <2>4. HeldAt(r) = {Pos(b)} /\ MarkAt(r) = {b.at} /\ Rising(r) /\ ~Falling(r)
    BY <1>5, <1>11, <2>2, <2>3, GiverFacts
  <2>5. PlacesLaw(t, r, F, F) BY <1>9, <2>4
  <2>6. BitsLaw(t, r, F, F, {}, {b.at}, b.at) BY <1>3, <2>1, <2>4 DEF BitsLaw, In
  <2>7. CountLaw(t, r, b.at)
    <3>1. al.count \in Int BY DEF CPoolShape
    <3> QED BY <1>3, <1>11, <2>1, <2>4, <3>1 DEF CountLaw
  <2>8. DirtLaw(t, r, F) BY <1>1, <1>11, <2>1 DEF DirtLaw, Clean
  <2>9. TagLaw(t, r, F) BY <1>1, <1>11, <2>1 DEF TagLaw, Tagged
  <2>10. CPoolShape(al') BY <2>1 DEF CPoolShape
  <2>11. CPoolGood(al', live', loc', F)
    BY <1>1, <1>4, <1>7, <2>3, <2>5, <2>6, <2>7, <2>8, <2>9, <2>10, CPoolMoves
  <2> QED BY <1>1, <2>1, <2>11 DEF CPoolInv
<1> QED BY <1>10, <1>11

LEMMA HeldNotMarked ==
  ASSUME NEW q, Path(al.head.lo, al.next, q), CPoolGood(al, live, loc, Range(q)), NEW t \in Threads,
         NEW a, <<0, a>> \in HeldAt(loc[t])
  PROVE  a \notin Range(q) /\ (a \in al.bits <=> a \in MarkAt(loc[t])) /\ a \in Chunk
<1>1. Parted(Places(live), In(0, Range(q)), Helds(loc), In(0, Chunk)) BY DEF CPoolGood
<1>2. \A u \in Threads : Helds(loc)[u] = HeldAt(loc[u]) BY DEF Helds
<1>3. \A u \in Threads : u # t => HeldAt(loc[u]) \cap HeldAt(loc[t]) = {} BY <1>1, <1>2 DEF Parted
<1>4. a \notin Range(q)
  <2>1. HeldAt(loc[t]) \cap In(0, Range(q)) = {} BY CPoolFacts
  <2> QED BY <2>1 DEF In
<1>5. ASSUME NEW u \in Threads, u # t PROVE a \notin MarkAt(loc[u])
  <2> SUFFICES ASSUME a \in MarkAt(loc[u]) PROVE FALSE OBVIOUS
  <2>1. CPoolLocals(loc[u]) BY DEF CPoolGood
  <2>2. In(0, MarkAt(loc[u])) \subseteq HeldAt(loc[u]) BY <2>1, MarkHeld DEF HeldAt
  <2>3. <<0, a>> \in In(0, MarkAt(loc[u])) BY InFacts
  <2> QED BY <1>3, <1>5, <2>2, <2>3
<1>6. al.bits = Range(q) \cup UNION {MarkAt(loc[u]) : u \in Threads} BY DEF CPoolGood
<1>7. a \in Chunk
  <2>1. <<0, a>> \in In(0, Chunk) BY CPoolFacts
  <2> QED BY <2>1, InFacts
<1> QED BY <1>4, <1>5, <1>6, <1>7

\* The head is taken off: the tag shows that its link is still the one read.
LEMMA CPoolPops ==
  ASSUME NEW q, Path(al.head.lo, al.next, q), CPoolGood(al, live, loc, Range(q)), NEW t \in Threads,
         At(t, "cas"), loc[t].head = al.head,
         Step(t, [al EXCEPT !.head = [lo |-> loc[t].next, hi |-> @.hi + 1]], To("clear"))
  PROVE  CPoolInv(al', live', loc')
<1> USE CPoolFacts
<1>1. PICK me : me = loc[t] OBVIOUS
<1>2. PICK F : F = Range(q) OBVIOUS
<1>3. me.pc = "cas" /\ me.pc \in Taking BY <1>1 DEF At, Taking
<1>4. PICK h : h = me.head.lo OBVIOUS
<1>5. /\ {"pc", "size", "old", "head"} \subseteq DOMAIN me /\ IsOld(me.old) /\ OldAt(me) = Places(Range(me.old))
      /\ h \in Chunk /\ HeldAt(me) = OldAt(me) /\ MarkAt(me) = {} /\ ~Rising(me) /\ ~Falling(me)
  BY <1>1, <1>3, <1>4, TakerFacts
<1>6. al.head.lo = h /\ me.next = al.next[h] BY <1>1, <1>3, <1>4 DEF Tagged
<1>7. PICK r : r = With(me, To("clear")) OBVIOUS
<1>8. /\ r.pc = "clear" /\ r.head = me.head /\ r.old = me.old /\ {"pc", "size", "old", "head"} \subseteq DOMAIN r
  BY <1>5, <1>7 DEF With, To
<1>9. /\ al' = [al EXCEPT !.head = [lo |-> me.next, hi |-> @.hi + 1]] /\ live' = live
      /\ loc' = [loc EXCEPT ![t] = r]
  BY <1>1, <1>7 DEF Step
<1>10. Moved(t, r) BY <1>9, LocalStep
<1>11. DOMAIN al = {"head", "bits", "count", "next", "dirty"} /\ al.head.hi \in Nat BY DEF CPoolShape
<1>12. /\ al'.bits = al.bits /\ al'.count = al.count /\ al'.next = al.next /\ al'.dirty = al.dirty
       /\ DOMAIN al' = DOMAIN al /\ al'.head = [lo |-> me.next, hi |-> al.head.hi + 1]
  BY <1>9, <1>11
<1>13. DOMAIN al'.head = {"lo", "hi"} /\ al'.head.hi = al.head.hi + 1 /\ al'.head.lo = al.next[h]
  BY <1>6, <1>12
<1>14. CPoolShape(al') BY <1>11, <1>12, <1>13 DEF CPoolShape
<1>15. /\ Path(al.next[h], al.next, Tail(q)) /\ h \in F /\ Range(Tail(q)) = F \ {h}
  <2>1. al.head.lo # Null BY <1>5, <1>6, ChunkNat
  <2>2. /\ Path(al.next[al.head.lo], al.next, Tail(q)) /\ al.head.lo \in Range(q)
        /\ Range(Tail(q)) = Range(q) \ {al.head.lo}
    BY <2>1, PathPop
  <2> QED BY <1>2, <1>6, <2>2
<1>16. <<0, h>> \in In(0, F) /\ <<0, h>> \notin OldAt(me)
  <2>1. <<0, h>> \in In(0, F) BY <1>15, InFacts
  <2> QED BY <1>1, <1>2, <1>5, <2>1
<1>17. r.pc \in Taking /\ OldAt(r) = OldAt(me) BY <1>5, <1>8 DEF Taking, OldAt
<1>18. CPoolLocals(r) BY <1>4, <1>5, <1>8, <1>16, <1>17 DEF CPoolLocals
<1>19. HeldAt(r) = OldAt(me) \cup {<<0, h>>} /\ MarkAt(r) = {h} /\ ~Rising(r) /\ ~Falling(r)
  BY <1>4, <1>8, <1>17, <1>18, TakerFacts
<1>20. PICK G : G = F \ {h} OBVIOUS
<1>21. In(0, G) = In(0, F) \ {<<0, h>>} BY <1>20 DEF In
<1>22. PlacesLaw(t, r, F, G)
  <2>1. /\ OldAt(me) \cap (Places(live) \cup In(0, F)) = {} /\ Places(live) \cap In(0, F) = {}
    BY <1>1, <1>2, <1>5
  <2>2. /\ Places(live) \cup (In(0, F) \ {<<0, h>>}) \cup (OldAt(me) \cup {<<0, h>>})
            = Places(live) \cup In(0, F) \cup OldAt(me)
        /\ Places(live) \cap (In(0, F) \ {<<0, h>>}) = {}
        /\ (OldAt(me) \cup {<<0, h>>}) \cap (Places(live) \cup (In(0, F) \ {<<0, h>>})) = {}
    BY <1>16, <2>1
  <2> QED BY <1>1, <1>5, <1>9, <1>19, <1>21, <2>2 DEF PlacesLaw
<1>23. BitsLaw(t, r, F, G, {}, {}, 0)
  <2>1. (F \ {h}) \cup {h} = ((F \cup {}) \ {}) \cup {} BY <1>15
  <2> QED BY <1>1, <1>5, <1>12, <1>19, <1>20, <2>1 DEF BitsLaw, In
<1>24. CountLaw(t, r, 0) BY <1>1, <1>5, <1>12, <1>19 DEF CountLaw
<1>25. DirtLaw(t, r, G) BY <1>2, <1>8, <1>12, <1>20 DEF DirtLaw, Clean
<1>26. TagLaw(t, r, F) BY <1>2, <1>8, <1>12, <1>13 DEF TagLaw, Tagged
<1>27. CPoolLive(live') BY <1>9
<1>28. CPoolGood(al', live', loc', G)
  BY <1>2, <1>10, <1>14, <1>18, <1>22, <1>23, <1>24, <1>25, <1>26, <1>27, CPoolMoves
<1>29. Path(al'.head.lo, al'.next, Tail(q)) BY <1>12, <1>13, <1>15
<1> QED BY <1>15, <1>20, <1>28, <1>29 DEF CPoolInv

\* The bit of the block taken: it is set.
LEMMA CPoolClears ==
  ASSUME NEW q, Path(al.head.lo, al.next, q), CPoolGood(al, live, loc, Range(q)), NEW t \in Threads,
         At(t, "clear"),
         \/ loc[t].head.lo \notin al.bits
         \/ Step(t, [al EXCEPT !.bits = @ \ {loc[t].head.lo}], To("less"))
  PROVE  CPoolInv(al', live', loc')
<1> USE CPoolFacts
<1>1. PICK me : me = loc[t] OBVIOUS
<1>2. PICK F : F = Range(q) OBVIOUS
<1>3. me.pc = "clear" /\ me.pc \in Taking BY <1>1 DEF At, Taking
<1>4. PICK h : h = me.head.lo OBVIOUS
<1>5. /\ {"pc", "size", "old", "head"} \subseteq DOMAIN me /\ IsOld(me.old) /\ h \in Chunk
      /\ HeldAt(me) = OldAt(me) \cup {<<0, h>>} /\ <<0, h>> \notin OldAt(me) /\ MarkAt(me) = {h}
      /\ ~Rising(me) /\ ~Falling(me)
  BY <1>1, <1>3, <1>4, TakerFacts
<1>6. h \notin F /\ h \in al.bits BY <1>1, <1>2, <1>5, HeldNotMarked
<1>7. PICK r : r = With(me, To("less")) OBVIOUS
<1>8. /\ r.pc = "less" /\ r.head = me.head /\ r.old = me.old /\ {"pc", "size", "old", "head"} \subseteq DOMAIN r
  BY <1>5, <1>7 DEF With, To
<1>9. /\ al' = [al EXCEPT !.bits = @ \ {h}] /\ live' = live /\ loc' = [loc EXCEPT ![t] = r]
  BY <1>1, <1>4, <1>6, <1>7 DEF Step
<1>10. Moved(t, r) BY <1>9, LocalStep
<1>11. DOMAIN al = {"head", "bits", "count", "next", "dirty"} /\ al.count \in Int BY DEF CPoolShape
<1>12. /\ al'.bits = al.bits \ {h} /\ al'.count = al.count /\ al'.next = al.next /\ al'.dirty = al.dirty
       /\ DOMAIN al' = DOMAIN al /\ al'.head = al.head
  BY <1>9, <1>11
<1>13. CPoolShape(al') BY <1>12 DEF CPoolShape
<1>14. r.pc \in Taking /\ OldAt(r) = OldAt(me) BY <1>3, <1>8 DEF Taking, OldAt
<1>15. CPoolLocals(r) BY <1>4, <1>5, <1>8, <1>14 DEF CPoolLocals
<1>16. HeldAt(r) = HeldAt(me) /\ MarkAt(r) = {} /\ ~Rising(r) /\ Falling(r)
  BY <1>4, <1>5, <1>8, <1>14, <1>15, TakerFacts
<1>17. PlacesLaw(t, r, F, F)
  <2>1. HeldAt(me) \cap (Places(live) \cup In(0, F)) = {} /\ Places(live) \cap In(0, F) = {} BY <1>1, <1>2
  <2> QED BY <1>1, <1>9, <1>16, <2>1 DEF PlacesLaw
<1>18. BitsLaw(t, r, F, F, {h}, {}, h)
  <2>1. F \cup {} = ((F \cup {h}) \ {h}) \cup {} BY <1>6
  <2>2. In(0, {h}) \subseteq HeldAt(loc[t]) BY <1>1, <1>5 DEF In
  <2> QED BY <1>1, <1>5, <1>12, <1>16, <2>1, <2>2 DEF BitsLaw
<1>19. CountLaw(t, r, h) BY <1>1, <1>5, <1>6, <1>11, <1>12, <1>16 DEF CountLaw
<1>20. DirtLaw(t, r, F) BY <1>2, <1>8, <1>12 DEF DirtLaw, Clean
<1>21. TagLaw(t, r, F) BY <1>2, <1>8, <1>12 DEF TagLaw, Tagged
<1>22. CPoolLive(live') BY <1>9
<1>23. CPoolGood(al', live', loc', F)
  BY <1>2, <1>10, <1>13, <1>15, <1>17, <1>18, <1>19, <1>20, <1>21, <1>22, CPoolMoves
<1> QED BY <1>2, <1>12, <1>23 DEF CPoolInv

\* The caller gets the block; a realloc goes on to free the old one.
LEMMA CPoolGets ==
  ASSUME NEW q, Path(al.head.lo, al.next, q), CPoolGood(al, live, loc, Range(q)), NEW t \in Threads,
         At(t, "less"),
         Finish(t, [al EXCEPT !.count = @ - 1, !.dirty = @ \cup {loc[t].head.lo}],
                live \cup {Block(0, loc[t].head.lo, loc[t].size, 1)},
                IF loc[t].old = <<>> THEN Idle ELSE [pc |-> "or", p |-> loc[t].old[1].at])
  PROVE  CPoolInv(al', live', loc')
<1> USE CPoolFacts
<1>1. PICK me : me = loc[t] OBVIOUS
<1>2. PICK F : F = Range(q) OBVIOUS
<1>3. me.pc = "less" /\ me.pc \in Taking BY <1>1 DEF At, Taking
<1>4. PICK h : h = me.head.lo OBVIOUS
<1>5. /\ IsOld(me.old) /\ h \in Chunk /\ OldAt(me) = Places(Range(me.old))
      /\ HeldAt(me) = OldAt(me) \cup {<<0, h>>} /\ <<0, h>> \notin OldAt(me) /\ MarkAt(me) = {}
      /\ ~Rising(me) /\ Falling(me)
  BY <1>1, <1>3, <1>4, TakerFacts
<1>6. h \notin F BY <1>1, <1>2, <1>5, HeldNotMarked
<1>7. PICK r : r = IF me.old = <<>> THEN Idle ELSE [pc |-> "or", p |-> me.old[1].at] OBVIOUS
<1>8. PICK b : b = Block(0, h, me.size, 1) OBVIOUS
<1>9. b.buf = 0 /\ b.align = 1 /\ Pos(b) = <<0, h>> BY <1>8 DEF Block, Pos
<1>10. /\ al' = [al EXCEPT !.count = @ - 1, !.dirty = @ \cup {h}] /\ live' = live \cup {b}
       /\ loc' = [loc EXCEPT ![t] = r]
  BY <1>1, <1>4, <1>7, <1>8 DEF Finish
<1>11. Moved(t, r) BY <1>10, LocalStep
<1>12. DOMAIN al = {"head", "bits", "count", "next", "dirty"} /\ al.count \in Int BY DEF CPoolShape
<1>13. /\ al'.bits = al.bits /\ al'.count = al.count - 1 /\ al'.next = al.next /\ al'.dirty = al.dirty \cup {h}
       /\ DOMAIN al' = DOMAIN al /\ al'.head = al.head
  BY <1>10, <1>12
<1>14. CPoolShape(al') BY <1>12, <1>13 DEF CPoolShape
<1>15. CPoolLocals(r) /\ HeldAt(r) = OldAt(me) /\ MarkAt(r) = {} /\ ~Rising(r) /\ ~Falling(r) /\ r.pc \in {"idle", "or"}
  <2>1. CASE me.old = <<>>
    <3>1. r.pc = "idle" /\ DOMAIN r = {"pc"} BY <1>7, <2>1 DEF Idle
    <3>2. OldAt(me) = {} BY <1>5, <2>1, OldFacts
    <3> QED BY <3>1, <3>2, IdleFacts DEF CPoolLocals
  <2>2. CASE me.old # <<>>
    <3>1. PICK a : a = me.old[1].at OBVIOUS
    <3>2. r = [pc |-> "or", p |-> a] BY <1>7, <2>2, <3>1
    <3>3. r.pc = "or" /\ r.p = a /\ DOMAIN r = {"pc", "p"} /\ r.pc \in Giving \cup {"more"} BY <3>2 DEF Giving
    <3>4. OldAt(me) = {<<0, a>>} BY <1>5, <2>2, <3>1, OldFacts
    <3>5. a \in Chunk BY <1>1, <1>5, <3>4, HeldNotMarked
    <3>6. CPoolLocals(r) BY <3>3, <3>5 DEF CPoolLocals
    <3> QED BY <3>3, <3>4, <3>6, GiverFacts
  <2> QED BY <2>1, <2>2
<1>16. Pos(b) \notin Places(live) BY <1>1, <1>5, <1>9
<1>17. Spread(live') /\ Places(live') = Places(live) \cup {<<0, h>>}
  BY <1>9, <1>10, <1>16, LiveMore DEF CPoolLive
<1>18. CPoolLive(live') BY <1>9, <1>10, <1>17 DEF CPoolLive
<1>19. PlacesLaw(t, r, F, F)
  <2>1. (OldAt(me) \cup {<<0, h>>}) \cap (Places(live) \cup In(0, F)) = {} /\ Places(live) \cap In(0, F) = {}
    BY <1>1, <1>2, <1>5
  <2>2. /\ (Places(live) \cup {<<0, h>>}) \cup In(0, F) \cup OldAt(me)
            = Places(live) \cup In(0, F) \cup (OldAt(me) \cup {<<0, h>>})
        /\ (Places(live) \cup {<<0, h>>}) \cap In(0, F) = {}
        /\ OldAt(me) \cap ((Places(live) \cup {<<0, h>>}) \cup In(0, F)) = {}
    BY <1>5, <2>1
  <2> QED BY <1>1, <1>5, <1>15, <1>17, <2>2 DEF PlacesLaw
<1>20. BitsLaw(t, r, F, F, {}, {}, 0) BY <1>1, <1>5, <1>13, <1>15 DEF BitsLaw, In
<1>21. CountLaw(t, r, 0) BY <1>1, <1>5, <1>12, <1>13, <1>15 DEF CountLaw
<1>22. DirtLaw(t, r, F)
  <2>1. al'.dirty \cap F = {} BY <1>2, <1>6, <1>13
  <2>2. \A a \in al'.dirty \ al.dirty : <<0, a>> \in HeldAt(loc[t]) BY <1>1, <1>5, <1>13
  <2> QED BY <1>15, <2>1, <2>2 DEF DirtLaw, Clean
<1>23. TagLaw(t, r, F) BY <1>2, <1>13, <1>15 DEF TagLaw, Tagged
<1>24. CPoolGood(al', live', loc', F)
  BY <1>2, <1>11, <1>14, <1>15, <1>18, <1>19, <1>20, <1>21, <1>22, <1>23, CPoolMoves
<1> QED BY <1>2, <1>13, <1>24 DEF CPoolInv

\* The steps of a free and of a realloc's: the bit, the wipe, the link.
LEMMA CPoolGives ==
  ASSUME NEW q, Path(al.head.lo, al.next, q), CPoolGood(al, live, loc, Range(q)), NEW t \in Threads,
         \/ At(t, "or") /\ Step(t, [al EXCEPT !.bits = @ \cup {loc[t].p}], To("wipe"))
         \/ At(t, "wipe") /\ Step(t, [al EXCEPT !.dirty = @ \ {loc[t].p}], To("top"))
         \/ At(t, "store") /\ Step(t, [al EXCEPT !.next[loc[t].p] = loc[t].head.lo], To("pushCas"))
  PROVE  CPoolInv(al', live', loc')
<1> USE CPoolFacts
<1>1. PICK me : me = loc[t] OBVIOUS
<1>2. PICK F : F = Range(q) OBVIOUS
<1>3. PICK p : p = me.p OBVIOUS
<1>4. me.pc \in {"or", "wipe", "store"} /\ me.pc \in Giving \cup {"more"} BY <1>1 DEF At, Giving
<1>5. /\ {"pc", "p"} \subseteq DOMAIN me /\ "old" \notin DOMAIN me /\ p \in Chunk
      /\ me.pc = "store" => "head" \in DOMAIN me
      /\ HeldAt(me) = {<<0, p>>} /\ OwnAt(me) = {<<0, p>>}
      /\ me.pc # "or" => MarkAt(me) = {p}
      /\ me.pc = "or" => MarkAt(me) = {}
      /\ (Rising(me) <=> me.pc # "or") /\ ~Falling(me)
  BY <1>1, <1>3, <1>4, GiverFacts
<1>6. p \notin F /\ (p \in al.bits <=> me.pc # "or") BY <1>1, <1>2, <1>5, HeldNotMarked
<1>7. DOMAIN al = {"head", "bits", "count", "next", "dirty"} /\ al.count \in Int /\ DOMAIN al.next = Chunk
  BY DEF CPoolShape
<1>8. PICK next : next \in {"wipe", "top", "pushCas"} /\ Step(t, al', To(next))
        /\ (me.pc = "or" => next = "wipe") /\ (me.pc = "wipe" => next = "top")
        /\ (me.pc = "store" => next = "pushCas")
  BY <1>1 DEF At, Step
<1>9. PICK r : r = With(me, To(next)) OBVIOUS
<1>10. /\ r.pc = next /\ r.p = p /\ {"pc", "p"} \subseteq DOMAIN r /\ "old" \notin DOMAIN r
       /\ me.pc = "store" => "head" \in DOMAIN r /\ r.head = me.head
  BY <1>3, <1>5, <1>9 DEF With, To
<1>11. live' = live /\ loc' = [loc EXCEPT ![t] = r] BY <1>1, <1>8, <1>9 DEF Step
<1>12. Moved(t, r) BY <1>11, LocalStep
<1>13. r.pc \in Giving \cup {"more"} /\ r.pc \notin {"or", "more"} BY <1>8, <1>10 DEF Giving
<1>14. CPoolLocals(r) BY <1>4, <1>5, <1>8, <1>10, <1>13 DEF CPoolLocals
<1>15. HeldAt(r) = HeldAt(me) /\ MarkAt(r) = {p} /\ Rising(r) /\ ~Falling(r)
  BY <1>5, <1>10, <1>13, <1>14, GiverFacts
<1>16. PlacesLaw(t, r, F, F)
  <2>1. HeldAt(me) \cap (Places(live) \cup In(0, F)) = {} /\ Places(live) \cap In(0, F) = {} BY <1>1, <1>2
  <2> QED BY <1>1, <1>11, <1>15, <2>1 DEF PlacesLaw
<1>17. CPoolLive(live') BY <1>11
<1>18. CASE me.pc = "or"
  <2>1. al' = [al EXCEPT !.bits = @ \cup {p}] BY <1>1, <1>3, <1>18 DEF At, Step
  <2>2. /\ al'.bits = al.bits \cup {p} /\ al'.count = al.count /\ al'.next = al.next /\ al'.dirty = al.dirty
        /\ DOMAIN al' = DOMAIN al /\ al'.head = al.head
    BY <1>7, <2>1
  <2>3. CPoolShape(al') BY <2>2 DEF CPoolShape
  <2>4. BitsLaw(t, r, F, F, {}, {p}, p) BY <1>1, <1>5, <1>15, <1>18, <2>2 DEF BitsLaw, In
  <2>5. CountLaw(t, r, p) BY <1>1, <1>5, <1>6, <1>7, <1>15, <1>18, <2>2 DEF CountLaw
  <2>6. DirtLaw(t, r, F) BY <1>2, <1>8, <1>10, <1>18, <2>2 DEF DirtLaw, Clean
  <2>7. TagLaw(t, r, F) BY <1>2, <1>8, <1>10, <1>18, <2>2 DEF TagLaw, Tagged
  <2>8. CPoolGood(al', live', loc', F)
    BY <1>2, <1>12, <1>14, <1>16, <1>17, <2>3, <2>4, <2>5, <2>6, <2>7, CPoolMoves
  <2> QED BY <1>2, <2>2, <2>8 DEF CPoolInv
<1>19. CASE me.pc = "wipe"
  <2>1. al' = [al EXCEPT !.dirty = @ \ {p}] BY <1>1, <1>3, <1>19 DEF At, Step
  <2>2. /\ al'.bits = al.bits /\ al'.count = al.count /\ al'.next = al.next /\ al'.dirty = al.dirty \ {p}
        /\ DOMAIN al' = DOMAIN al /\ al'.head = al.head
    BY <1>7, <2>1
  <2>3. CPoolShape(al') BY <2>2 DEF CPoolShape
  <2>4. BitsLaw(t, r, F, F, {}, {}, 0) BY <1>1, <1>5, <1>15, <1>19, <2>2 DEF BitsLaw, In
  <2>5. CountLaw(t, r, 0) BY <1>1, <1>5, <1>7, <1>15, <1>19, <2>2 DEF CountLaw
  <2>6. DirtLaw(t, r, F) BY <1>2, <1>8, <1>10, <1>19, <2>2 DEF DirtLaw, Clean
  <2>7. TagLaw(t, r, F) BY <1>2, <1>8, <1>10, <1>19, <2>2 DEF TagLaw, Tagged
  <2>8. CPoolGood(al', live', loc', F)
    BY <1>2, <1>12, <1>14, <1>16, <1>17, <2>3, <2>4, <2>5, <2>6, <2>7, CPoolMoves
  <2> QED BY <1>2, <2>2, <2>8 DEF CPoolInv
<1>20. CASE me.pc = "store"
  <2>1. al' = [al EXCEPT !.next[p] = me.head.lo] BY <1>1, <1>3, <1>20 DEF At, Step
  <2>2. /\ al'.bits = al.bits /\ al'.count = al.count /\ al'.dirty = al.dirty
        /\ al'.next = [al.next EXCEPT ![p] = me.head.lo]
        /\ DOMAIN al' = DOMAIN al /\ al'.head = al.head
    BY <1>7, <2>1
  <2>3. /\ DOMAIN al'.next = Chunk /\ al'.next[p] = me.head.lo
        /\ \A a \in Chunk : al'.next[a] # al.next[a] => a = p
    BY <1>5, <1>7, <2>2
  <2>4. CPoolShape(al') BY <2>2, <2>3 DEF CPoolShape
  <2>5. BitsLaw(t, r, F, F, {}, {}, 0) BY <1>1, <1>5, <1>15, <1>20, <2>2 DEF BitsLaw, In
  <2>6. CountLaw(t, r, 0) BY <1>1, <1>5, <1>7, <1>15, <1>20, <2>2 DEF CountLaw
  <2>7. p \notin al.dirty BY <1>1, <1>3, <1>20 DEF Clean
  <2>8. DirtLaw(t, r, F) BY <1>2, <1>8, <1>10, <1>20, <2>2, <2>7 DEF DirtLaw, Clean
  <2>9. Tagged(r, al') BY <1>8, <1>10, <1>20, <2>3 DEF Tagged
  <2>10. \A a \in Chunk : al'.next[a] # al.next[a] => <<0, a>> \in OwnAt(loc[t]) BY <1>1, <1>5, <2>3
  <2>11. TagLaw(t, r, F) BY <1>2, <2>2, <2>9, <2>10 DEF TagLaw
  <2>12. CPoolGood(al', live', loc', F)
    BY <1>2, <1>12, <1>14, <1>16, <1>17, <2>4, <2>5, <2>6, <2>8, <2>11, CPoolMoves
  <2>13. Path(al'.head.lo, al'.next, q) BY <1>2, <1>5, <1>6, <1>7, <2>2, PathStore
  <2> QED BY <1>2, <2>12, <2>13 DEF CPoolInv
<1> QED BY <1>4, <1>18, <1>19, <1>20

\* The block is the head: it is nobody's any more.
LEMMA CPoolPushes ==
  ASSUME NEW q, Path(al.head.lo, al.next, q), CPoolGood(al, live, loc, Range(q)), NEW t \in Threads,
         At(t, "pushCas"), loc[t].head = al.head,
         Step(t, [al EXCEPT !.head = [lo |-> loc[t].p, hi |-> @.hi + 1]], To("more"))
  PROVE  CPoolInv(al', live', loc')
<1> USE CPoolFacts
<1>1. PICK me : me = loc[t] OBVIOUS
<1>2. PICK F : F = Range(q) OBVIOUS
<1>3. PICK p : p = me.p OBVIOUS
<1>4. me.pc = "pushCas" /\ me.pc \in Giving \cup {"more"} BY <1>1 DEF At, Giving
<1>5. /\ {"pc", "p"} \subseteq DOMAIN me /\ "old" \notin DOMAIN me /\ p \in Chunk
      /\ HeldAt(me) = {<<0, p>>} /\ MarkAt(me) = {p} /\ Rising(me) /\ ~Falling(me)
  BY <1>1, <1>3, <1>4, GiverFacts
<1>6. p \notin F BY <1>1, <1>2, <1>5, HeldNotMarked
<1>7. al.next[p] = al.head.lo /\ p \notin al.dirty BY <1>1, <1>3, <1>4 DEF Tagged, Clean
<1>8. PICK r : r = With(me, To("more")) OBVIOUS
<1>9. r.pc = "more" /\ r.p = p /\ {"pc", "p"} \subseteq DOMAIN r /\ "old" \notin DOMAIN r
  BY <1>3, <1>5, <1>8 DEF With, To
<1>10. /\ al' = [al EXCEPT !.head = [lo |-> p, hi |-> @.hi + 1]] /\ live' = live
       /\ loc' = [loc EXCEPT ![t] = r]
  BY <1>1, <1>3, <1>8 DEF Step
<1>11. Moved(t, r) BY <1>10, LocalStep
<1>12. DOMAIN al = {"head", "bits", "count", "next", "dirty"} /\ al.head.hi \in Nat /\ al.count \in Int
  BY DEF CPoolShape
<1>13. /\ al'.bits = al.bits /\ al'.count = al.count /\ al'.next = al.next /\ al'.dirty = al.dirty
       /\ DOMAIN al' = DOMAIN al /\ al'.head = [lo |-> p, hi |-> al.head.hi + 1]
  BY <1>10, <1>12
<1>14. DOMAIN al'.head = {"lo", "hi"} /\ al'.head.hi = al.head.hi + 1 /\ al'.head.lo = p BY <1>13
<1>15. CPoolShape(al') BY <1>12, <1>13, <1>14 DEF CPoolShape
<1>16. CPoolLocals(r) BY <1>5, <1>9 DEF CPoolLocals
<1>17. HeldAt(r) = {} /\ MarkAt(r) = {} /\ Rising(r) /\ ~Falling(r) BY <1>9, <1>16, GiverFacts
<1>18. PICK G : G = F \cup {p} OBVIOUS
<1>19. In(0, G) = In(0, F) \cup {<<0, p>>} BY <1>18 DEF In
<1>20. PlacesLaw(t, r, F, G)
  <2>1. {<<0, p>>} \cap (Places(live) \cup In(0, F)) = {} /\ Places(live) \cap In(0, F) = {}
    BY <1>1, <1>2, <1>5
  <2>2. /\ Places(live) \cup (In(0, F) \cup {<<0, p>>}) \cup {} = Places(live) \cup In(0, F) \cup {<<0, p>>}
        /\ Places(live) \cap (In(0, F) \cup {<<0, p>>}) = {}
        /\ {} \cap (Places(live) \cup (In(0, F) \cup {<<0, p>>})) = {}
    BY <2>1
  <2> QED BY <1>1, <1>5, <1>10, <1>17, <1>19, <2>2 DEF PlacesLaw
<1>21. BitsLaw(t, r, F, G, {}, {}, 0) BY <1>1, <1>5, <1>13, <1>17, <1>18 DEF BitsLaw, In
<1>22. CountLaw(t, r, 0) BY <1>1, <1>5, <1>12, <1>13, <1>17 DEF CountLaw
<1>23. DirtLaw(t, r, G) BY <1>2, <1>7, <1>9, <1>13, <1>18 DEF DirtLaw, Clean
<1>24. TagLaw(t, r, F)
  <2>1. al'.head # al.head BY <1>12, <1>14
  <2> QED BY <1>9, <1>13, <1>14, <2>1 DEF TagLaw, Tagged
<1>25. CPoolLive(live') BY <1>10
<1>26. CPoolGood(al', live', loc', G)
  BY <1>2, <1>11, <1>15, <1>16, <1>20, <1>21, <1>22, <1>23, <1>24, <1>25, CPoolMoves
<1>27. PICK v : v = <<p>> \o q OBVIOUS
<1>28. Path(p, al.next, v) /\ Range(v) = G BY <1>2, <1>5, <1>6, <1>7, <1>18, <1>27, PathPush
<1>29. Path(al'.head.lo, al'.next, v) BY <1>13, <1>14, <1>28
<1> QED BY <1>26, <1>28, <1>29 DEF CPoolInv

\* The count comes last.
LEMMA CPoolCounts ==
  ASSUME NEW q, Path(al.head.lo, al.next, q), CPoolGood(al, live, loc, Range(q)), NEW t \in Threads,
         At(t, "more"), Return(t, [al EXCEPT !.count = @ + 1], live)
  PROVE  CPoolInv(al', live', loc')
<1> USE CPoolFacts
<1>1. PICK me : me = loc[t] OBVIOUS
<1>2. PICK F : F = Range(q) OBVIOUS
<1>3. me.pc = "more" /\ me.pc \in Giving \cup {"more"} BY <1>1 DEF At, Giving
<1>4. HeldAt(me) = {} /\ MarkAt(me) = {} /\ Rising(me) /\ ~Falling(me) BY <1>1, <1>3, GiverFacts
<1>5. al' = [al EXCEPT !.count = @ + 1] /\ live' = live /\ loc' = [loc EXCEPT ![t] = Idle]
  BY DEF Return, Finish
<1>6. Moved(t, Idle) BY <1>5, LocalStep
<1>7. Idle.pc = "idle" /\ DOMAIN Idle = {"pc"} BY DEF Idle
<1>8. /\ HeldAt(Idle) = {} /\ MarkAt(Idle) = {} /\ ~Rising(Idle) /\ ~Falling(Idle)
      /\ Clean(Idle, al'.dirty) /\ Tagged(Idle, al')
  BY <1>7, IdleFacts
<1>9. CPoolLocals(Idle) BY <1>7 DEF CPoolLocals
<1>10. DOMAIN al = {"head", "bits", "count", "next", "dirty"} /\ al.count \in Int BY DEF CPoolShape
<1>11. /\ al'.bits = al.bits /\ al'.count = al.count + 1 /\ al'.next = al.next /\ al'.dirty = al.dirty
       /\ DOMAIN al' = DOMAIN al /\ al'.head = al.head
  BY <1>5, <1>10
<1>12. CPoolShape(al') BY <1>10, <1>11 DEF CPoolShape
<1>13. PlacesLaw(t, Idle, F, F) BY <1>1, <1>2, <1>4, <1>5, <1>8 DEF PlacesLaw
<1>14. BitsLaw(t, Idle, F, F, {}, {}, 0) BY <1>1, <1>4, <1>8, <1>11 DEF BitsLaw, In
<1>15. CountLaw(t, Idle, 0) BY <1>1, <1>4, <1>8, <1>10, <1>11 DEF CountLaw
<1>16. DirtLaw(t, Idle, F) BY <1>2, <1>8, <1>11 DEF DirtLaw
<1>17. TagLaw(t, Idle, F) BY <1>2, <1>8, <1>11 DEF TagLaw
<1>18. CPoolLive(live') BY <1>5
<1>19. CPoolGood(al', live', loc', F)
  BY <1>2, <1>6, <1>9, <1>12, <1>13, <1>14, <1>15, <1>16, <1>17, <1>18, CPoolMoves
<1> QED BY <1>2, <1>11, <1>19 DEF CPoolInv

LEMMA CPoolSteps ==
  ASSUME CPoolNext, DOMAIN loc = Threads, al = NotYet => live = {} /\ \A t \in Threads : loc[t] = Idle,
         Up => CPoolInv(al, live, loc)
  PROVE  (~Up /\ al' = Gone) \/ cpool_destroy \/ CPoolInv(al', live', loc')
<1>1. ASSUME NEW got, cpool_create(got) PROVE al' = Gone \/ CPoolInv(al', live', loc')
  <2>1. PICK nx : nx = [a \in Chunk |-> IF a = 0 THEN Null ELSE a - BlockSize] OBVIOUS
  <2>2. PICK h : h = [lo |-> (Blocks - 1) * BlockSize, hi |-> 0] OBVIOUS
  <2>3. PICK s : s = [head |-> h, bits |-> Chunk, count |-> Blocks, next |-> nx, dirty |-> {}] OBVIOUS
  <2>4. (al' = Gone \/ al' = s) /\ live' = {} /\ loc' = loc /\ Quiet
    BY <1>1, <2>1, <2>2, <2>3 DEF cpool_create, Create
  <2>5. /\ DOMAIN s = {"head", "bits", "count", "next", "dirty"} /\ s.head = h /\ s.bits = Chunk /\ s.count = Blocks
        /\ s.next = nx /\ s.dirty = {}
    BY <2>3
  <2>6. DOMAIN h = {"lo", "hi"} /\ h.hi = 0 /\ h.lo = (Blocks - 1) * BlockSize /\ DOMAIN nx = Chunk BY <2>1, <2>2
  <2>7. Blocks \in Nat /\ IsFiniteSet(Chunk) /\ Cardinality(Chunk) = Blocks BY ChunkFacts
  <2>8. CPoolShape(s) BY <2>5, <2>6, <2>7 DEF CPoolShape
  <2>9. PICK q : q = Descending(BlockSize, Blocks) OBVIOUS
  <2>10. Path(s.head.lo, s.next, q) /\ Range(q) = Chunk BY <2>1, <2>5, <2>6, <2>9, PathStarts
  <2>11. \A t \in Threads : loc[t].pc = "idle" BY <2>4 DEF Quiet, At
  <2>12. /\ CPoolLive({}) /\ Places({}) = {} BY DEF CPoolLive, Spread, Places
  <2>13. \A t \in Threads : /\ HeldAt(loc[t]) = {} /\ MarkAt(loc[t]) = {} /\ ~Rising(loc[t]) /\ ~Falling(loc[t])
                            /\ Clean(loc[t], {}) /\ Tagged(loc[t], s)
    BY <2>11, IdleFacts
  <2>14. ASSUME \A t \in Threads : CPoolLocals(loc[t]) PROVE CPoolGood(s, {}, loc, Chunk)
    <3>1. Parted({}, In(0, Chunk), Helds(loc), In(0, Chunk))
      <4>1. \A t \in Threads : Helds(loc)[t] = {} BY <2>13 DEF Helds
      <4> QED BY <4>1 DEF Parted
    <3>2. s.bits = Chunk \cup UNION {MarkAt(loc[t]) : t \in Threads} BY <2>5, <2>13
    <3>3. {t \in Threads : Rising(loc[t])} = {} /\ {t \in Threads : Falling(loc[t])} = {} BY <2>13
    <3>4. Cardinality({}) = 0 BY FS_EmptySet
    <3>5. s.count + Cardinality({t \in Threads : Rising(loc[t])})
            = Cardinality(s.bits) + Cardinality({t \in Threads : Falling(loc[t])})
      BY <2>5, <2>7, <3>3, <3>4
    <3>6. s.dirty \cap Chunk = {} /\ \A t \in Threads : Clean(loc[t], s.dirty) BY <2>5, <2>13
    <3> QED BY <2>8, <2>12, <2>13, <2>14, <3>1, <3>2, <3>5, <3>6 DEF CPoolGood
  <2>15. \A t \in Threads : CPoolLocals(loc[t])
    <3>1. \A t \in Threads : loc[t] = Idle BY <1>1 DEF cpool_create, Create
    <3>2. Idle.pc = "idle" /\ DOMAIN Idle = {"pc"} BY DEF Idle
    <3> QED BY <3>1, <3>2 DEF CPoolLocals
  <2> QED BY <2>4, <2>10, <2>14, <2>15 DEF CPoolInv
<1>2. \A got : cpool_create(got) => ~Up BY DEF cpool_create, Create, Up
<1>3. CASE Up
  <2>1. PICK q : Path(al.head.lo, al.next, q) /\ CPoolGood(al, live, loc, Range(q)) BY <1>3 DEF CPoolInv
  <2>2. ASSUME NEW t \in Threads, PopSteps(t) PROVE CPoolInv(al', live', loc')
    <3> USE <2>1, CPoolFacts
    <3>1. CASE At(t, "load") /\ al.head.lo = Null /\ Return(t, al, Kept(t)) BY <3>1, CPoolEmpty
    <3>2. CASE At(t, "load") /\ al.head.lo # Null /\ Step(t, al, [pc |-> "link", head |-> al.head])
      <4>1. PICK g : g = [pc |-> "link", head |-> al.head] OBVIOUS
      <4>2. g.pc = "link" /\ g.head = al.head /\ DOMAIN g = {"pc", "head"} BY <4>1
      <4>3. PICK r : r = With(loc[t], g) OBVIOUS
      <4>4. al' = al /\ live' = live /\ loc' = [loc EXCEPT ![t] = r] BY <3>2, <4>1, <4>3 DEF Step
      <4>5. loc[t].pc = "load" /\ loc[t].pc \in Taking BY <3>2 DEF At, Taking
      <4>6. {"pc", "size", "old"} \subseteq DOMAIN loc[t] BY <4>5, TakerFacts
      <4>7. /\ r.pc = "link" /\ r.head = al.head /\ r.old = loc[t].old
            /\ {"pc", "size", "old"} \subseteq DOMAIN r /\ "head" \in DOMAIN r
        BY <4>2, <4>3, <4>6 DEF With
      <4>8. al.head.lo \in Chunk BY <3>2
      <4>9. al.head.hi \in Nat BY DEF CPoolShape
      <4>10. Tagged(r, al) BY <4>7, <4>9 DEF Tagged
      <4> QED BY <4>4, <4>5, <4>7, <4>8, <4>10, TakerTurns
    <3>3. CASE At(t, "link") /\ Step(t, al, [pc |-> "cas", next |-> al.next[loc[t].head.lo]])
      <4>1. PICK g : g = [pc |-> "cas", next |-> al.next[loc[t].head.lo]] OBVIOUS
      <4>2. g.pc = "cas" /\ g.next = al.next[loc[t].head.lo] /\ DOMAIN g = {"pc", "next"} BY <4>1
      <4>3. PICK r : r = With(loc[t], g) OBVIOUS
      <4>4. al' = al /\ live' = live /\ loc' = [loc EXCEPT ![t] = r] BY <3>3, <4>1, <4>3 DEF Step
      <4>5. loc[t].pc = "link" /\ loc[t].pc \in Taking BY <3>3 DEF At, Taking
      <4>6. {"pc", "size", "old"} \subseteq DOMAIN loc[t] /\ "head" \in DOMAIN loc[t] /\ loc[t].head.lo \in Chunk
        BY <4>5, TakerFacts
      <4>7. /\ r.pc = "cas" /\ r.head = loc[t].head /\ r.old = loc[t].old /\ r.next = g.next
            /\ {"pc", "size", "old"} \subseteq DOMAIN r /\ "head" \in DOMAIN r
        BY <4>2, <4>3, <4>6 DEF With
      <4>8. loc[t].head.hi \in Nat /\ loc[t].head.hi <= al.head.hi BY <4>5 DEF Tagged
      <4>9. Tagged(r, al) BY <4>2, <4>7, <4>8 DEF Tagged
      <4> QED BY <4>4, <4>5, <4>6, <4>7, <4>9, TakerTurns
    <3>4. CASE /\ At(t, "clear")
               /\ IF loc[t].head.lo \notin al.bits THEN Return(t, al, Kept(t))
                  ELSE Step(t, [al EXCEPT !.bits = @ \ {loc[t].head.lo}], To("less"))
      BY <3>4, CPoolClears
    <3>5. CASE At(t, "less") /\
                Finish(t, [al EXCEPT !.count = @ - 1, !.dirty = @ \cup {loc[t].head.lo}],
                live \cup {Block(0, loc[t].head.lo, loc[t].size, 1)},
                IF loc[t].old = <<>> THEN Idle ELSE [pc |-> "or", p |-> loc[t].old[1].at])
      BY <3>5, CPoolGets
    <3>6. CASE At(t, "or") /\ Step(t, [al EXCEPT !.bits = @ \cup {loc[t].p}], To("wipe")) BY <3>6, CPoolGives
    <3> QED BY <2>2, <3>1, <3>2, <3>3, <3>4, <3>5, <3>6 DEF PopSteps
  <2>3. ASSUME NEW t \in Threads, PopCas(t) PROVE CPoolInv(al', live', loc')
    <3>1. CASE loc[t].head = al.head BY <2>1, <2>3, <3>1, CPoolPops DEF PopCas
    <3>2. CASE loc[t].head # al.head
      <4>1. At(t, "cas") /\ Step(t, al, To("load")) BY <2>3, <3>2 DEF PopCas
      <4>2. PICK r : r = With(loc[t], To("load")) OBVIOUS
      <4>3. al' = al /\ live' = live /\ loc' = [loc EXCEPT ![t] = r] BY <4>1, <4>2 DEF Step
      <4>4. CPoolLocals(loc[t]) BY <2>1, CPoolFacts
      <4>5. loc[t].pc = "cas" /\ loc[t].pc \in Taking BY <4>1 DEF At, Taking
      <4>6. {"pc", "size", "old"} \subseteq DOMAIN loc[t] BY <4>4, <4>5, TakerFacts
      <4>7. r.pc = "load" /\ r.old = loc[t].old /\ {"pc", "size", "old"} \subseteq DOMAIN r
        BY <4>2, <4>6 DEF With, To
      <4>8. Tagged(r, al) BY <4>7 DEF Tagged
      <4> QED BY <2>1, <4>3, <4>5, <4>7, <4>8, TakerTurns
    <3> QED BY <3>1, <3>2
  <2>4. ASSUME NEW t \in Threads, Wipe(t) PROVE CPoolInv(al', live', loc') BY <2>1, <2>4, CPoolGives DEF Wipe
  <2>5. ASSUME NEW t \in Threads, PushSteps(t) PROVE CPoolInv(al', live', loc')
    <3>0. CPoolLocals(loc[t]) BY <2>1, CPoolFacts
    <3>1. CASE At(t, "top") /\ Step(t, al, [pc |-> "store", head |-> al.head])
      <4>1. PICK g : g = [pc |-> "store", head |-> al.head] OBVIOUS
      <4>2. g.pc = "store" /\ DOMAIN g = {"pc", "head"} BY <4>1
      <4>3. PICK r : r = With(loc[t], g) OBVIOUS
      <4>4. al' = al /\ live' = live /\ loc' = [loc EXCEPT ![t] = r] BY <3>1, <4>1, <4>3 DEF Step
      <4>5. loc[t].pc = "top" /\ loc[t].pc \in Giving \cup {"more"} BY <3>1 DEF At, Giving
      <4>6. {"pc", "p"} \subseteq DOMAIN loc[t] /\ "old" \notin DOMAIN loc[t] BY <3>0, <4>5, GiverFacts
      <4>7. /\ r.pc = "store" /\ r.p = loc[t].p /\ {"pc", "p"} \subseteq DOMAIN r /\ "head" \in DOMAIN r
            /\ "old" \notin DOMAIN r
        BY <4>2, <4>3, <4>6 DEF With
      <4> QED BY <2>1, <4>4, <4>5, <4>7, GiverTurns
    <3>2. CASE At(t, "store") /\ Step(t, [al EXCEPT !.next[loc[t].p] = loc[t].head.lo], To("pushCas"))
      BY <2>1, <3>2, CPoolGives
    <3>3. CASE /\ At(t, "pushCas") /\ loc[t].head = al.head
               /\ Step(t, [al EXCEPT !.head = [lo |-> loc[t].p, hi |-> @.hi + 1]], To("more"))
      BY <2>1, <3>3, CPoolPushes
    <3>4. CASE At(t, "pushCas") /\ Step(t, al, To("top"))
      <4>1. PICK r : r = With(loc[t], To("top")) OBVIOUS
      <4>2. al' = al /\ live' = live /\ loc' = [loc EXCEPT ![t] = r] BY <3>4, <4>1 DEF Step
      <4>3. loc[t].pc = "pushCas" /\ loc[t].pc \in Giving \cup {"more"} BY <3>4 DEF At, Giving
      <4>4. {"pc", "p"} \subseteq DOMAIN loc[t] /\ "old" \notin DOMAIN loc[t] BY <3>0, <4>3, GiverFacts
      <4>5. r.pc = "top" /\ r.p = loc[t].p /\ {"pc", "p"} \subseteq DOMAIN r /\ "old" \notin DOMAIN r
        BY <4>1, <4>4 DEF With, To
      <4> QED BY <2>1, <4>2, <4>3, <4>5, GiverTurns
    <3>5. CASE At(t, "more") /\ Return(t, [al EXCEPT !.count = @ + 1], live) BY <2>1, <3>5, CPoolCounts
    <3> QED BY <2>5, <3>1, <3>2, <3>3, <3>4, <3>5 DEF PushSteps
  <2>6. ASSUME NEW t \in Threads, Refuse(t) PROVE CPoolInv(al', live', loc')
    <3>1. At(t, "idle") /\ al' = al /\ live' = live /\ loc' = [loc EXCEPT ![t] = Idle] BY <2>6 DEF Refuse, Begin
    <3> QED BY <2>1, <3>1, IdleTurns
  <2>7. ASSUME NEW t \in Threads, NEW size, cpool_malloc(t, size) PROVE CPoolInv(al', live', loc')
    <3>1. CASE Begin(t, al, live, [pc |-> "load", size |-> size, old |-> <<>>])
      <4>1. PICK r : r = [pc |-> "load", size |-> size, old |-> <<>>] OBVIOUS
      <4>2. r.pc = "load" /\ DOMAIN r = {"pc", "size", "old"} /\ r.old = <<>> BY <4>1
      <4>3. At(t, "idle") /\ al' = al /\ live' = live /\ loc' = [loc EXCEPT ![t] = r] BY <3>1, <4>1 DEF Begin
      <4> QED BY <2>1, <4>2, <4>3, IdleTurns
    <3> QED BY <2>6, <2>7, <3>1 DEF cpool_malloc
  <2>8. ASSUME NEW t \in Threads, cpool_calloc(t, 1, 3) PROVE CPoolInv(al', live', loc')
    BY <2>6, <2>7, <2>8 DEF cpool_calloc
  <2>9. ASSUME NEW t \in Threads, NEW p, cpool_free(t, p) PROVE CPoolInv(al', live', loc')
    <3>1. CASE Refuse(t) BY <2>6, <3>1
    <3>2. CASE /\ p \notin al.bits /\ \E b \in live : b.at = p
               /\ Begin(t, [al EXCEPT !.bits = @ \cup {p}], {b \in live : b.at # p}, [pc |-> "wipe", p |-> p])
      <4>1. PICK b \in live : b.at = p BY <3>2
      <4>2. Spread(live) /\ \A c \in live : c.buf = 0 BY <2>1 DEF CPoolGood, CPoolLive
      <4>3. {c \in live : c.at # p} = live \ {b} BY <4>1, <4>2, LiveWithout
      <4>4. PICK r : r = [pc |-> "wipe", p |-> p] OBVIOUS
      <4>5. r.pc = "wipe" /\ DOMAIN r = {"pc", "p"} /\ r.p = b.at BY <4>1, <4>4
      <4>6. /\ At(t, "idle") /\ al' = [al EXCEPT !.bits = @ \cup {b.at}] /\ live' = live \ {b}
            /\ loc' = [loc EXCEPT ![t] = r]
        BY <3>2, <4>1, <4>3, <4>4 DEF Begin
      <4>7. b.at \notin al.bits BY <3>2, <4>1
      <4> QED BY <2>1, <4>5, <4>6, <4>7, CPoolBegins
    <3> QED BY <2>9, <3>1, <3>2 DEF cpool_free
  <2>10. ASSUME NEW t \in Threads, NEW b \in live, cpool_realloc(t, b, 2) PROVE CPoolInv(al', live', loc')
    <3>1. CASE Refuse(t) BY <2>6, <3>1
    <3>2. CASE Begin(t, al, live \ {b}, [pc |-> "load", size |-> 2, old |-> <<b>>])
      <4>1. PICK r : r = [pc |-> "load", size |-> 2, old |-> <<b>>] OBVIOUS
      <4>2. r.pc = "load" /\ DOMAIN r = {"pc", "size", "old"} /\ r.old = <<b>> BY <4>1
      <4>3. At(t, "idle") /\ al' = al /\ live' = live \ {b} /\ loc' = [loc EXCEPT ![t] = r] BY <3>2, <4>1 DEF Begin
      <4> QED BY <2>1, <4>2, <4>3, CPoolBegins
    <3> QED BY <2>10, <3>1, <3>2 DEF cpool_realloc
  <2> QED BY <1>1, <1>2, <2>2, <2>3, <2>4, <2>5, <2>7, <2>8, <2>9, <2>10 DEF CPoolNext
<1>4. CASE ~Up BY <1>1, <1>2, <1>4 DEF CPoolNext
<1> QED BY <1>3, <1>4

-----------------------------------------------------------------------------
(* What this says of the areas.                                            *)

AreaAt(p) == Area(p[1], p[2], SizeIn(p[1]))
AreasOf(P) == {AreaAt(p) : p \in P}
IsPairs(A) == \A p \in A : p = <<p[1], p[2]>>

LEMMA AreaFacts ==
  ASSUME NEW p, NEW q, p = <<p[1], p[2]>>, q = <<q[1], q[2]>>
  PROVE  /\ AreaAt(p).buf = p[1] /\ AreaAt(p).at = p[2] /\ AreaAt(p).len = SizeIn(p[1])
         /\ AreaAt(p) = AreaAt(q) => p = q
<1>1. \A b, a, n : Area(b, a, n).buf = b /\ Area(b, a, n).at = a /\ Area(b, a, n).len = n BY DEF Area
<1>2. AreaAt(p).buf = p[1] /\ AreaAt(p).at = p[2] /\ AreaAt(p).len = SizeIn(p[1]) BY <1>1 DEF AreaAt
<1>3. AreaAt(q).buf = q[1] /\ AreaAt(q).at = q[2] BY <1>1 DEF AreaAt
<1>4. AreaAt(p) = AreaAt(q) => p[1] = q[1] /\ p[2] = q[2] BY <1>2, <1>3
<1> QED BY <1>2, <1>4

LEMMA AreasMeet ==
  ASSUME NEW P, NEW Q, IsPairs(P), IsPairs(Q), P \cap Q = {}
  PROVE  AreasOf(P) \cap AreasOf(Q) = {}
<1> SUFFICES ASSUME NEW p \in P, NEW q \in Q, AreaAt(p) = AreaAt(q) PROVE FALSE BY DEF AreasOf
<1>1. p = <<p[1], p[2]>> /\ q = <<q[1], q[2]>> BY DEF IsPairs
<1>2. p = q BY <1>1, AreaFacts
<1> QED BY <1>2

LEMMA AreasJoin ==
  ASSUME NEW P, NEW Q
  PROVE  AreasOf(P \cup Q) = AreasOf(P) \cup AreasOf(Q)
BY DEF AreasOf

LEMMA InPairs ==
  ASSUME NEW b, NEW S
  PROVE  IsPairs(In(b, S)) /\ AreasOf(In(b, S)) = {Area(b, a, SizeIn(b)) : a \in S}
<1>1. \A a : <<b, a>>[1] = b /\ <<b, a>>[2] = a OBVIOUS
<1>2. IsPairs(In(b, S)) BY <1>1 DEF IsPairs, In
<1>3. \A a : AreaAt(<<b, a>>) = Area(b, a, SizeIn(b)) BY <1>1 DEF AreaAt
<1>4. AreasOf(In(b, S)) \subseteq {Area(b, a, SizeIn(b)) : a \in S} BY <1>3 DEF AreasOf, In
<1>5. {Area(b, a, SizeIn(b)) : a \in S} \subseteq AreasOf(In(b, S)) BY <1>3 DEF AreasOf, In
<1> QED BY <1>2, <1>4, <1>5

LEMMA LivePlaces ==
  ASSUME kind \in Fixed
  PROVE  LiveAreas = AreasOf(Places(live)) /\ IsPairs(Places(live))
<1>1. \A b : AreaAt(Pos(b)) = Area(b.buf, b.at, SizeIn(b.buf)) BY DEF AreaAt, Pos
<1>2. LiveAreas = {Area(b.buf, b.at, SizeIn(b.buf)) : b \in live}
  <2>1. kind # "buddy" /\ kind # "cbuddy" BY DEF Fixed
  <2> QED BY <2>1 DEF LiveAreas
<1>3. LiveAreas \subseteq AreasOf(Places(live)) BY <1>1, <1>2 DEF AreasOf, Places
<1>4. AreasOf(Places(live)) \subseteq LiveAreas BY <1>1, <1>2 DEF AreasOf, Places
<1>5. \A b : Pos(b) = <<Pos(b)[1], Pos(b)[2]>> BY DEF Pos
<1> QED BY <1>3, <1>4, <1>5 DEF IsPairs, Places

LEMMA PlacedOnce ==
  ASSUME kind \in Fixed, NEW F, NEW H, NEW A, Parted(Places(live), F, H, A), Spread(live), IsPairs(A),
         FreeAreas = AreasOf(F), \A t \in Threads : HeldBy(t) = AreasOf(H[t]), AllBlocks = AreasOf(A)
  PROVE  InOnePlace /\ Areas = AreasOf(A)
<1>1. PICK L : L = Places(live) OBVIOUS
<1>2. LiveAreas = AreasOf(L) BY <1>1, LivePlaces
<1>3. /\ L \cup F \cup UNION {H[t] : t \in Threads} = A /\ L \cap F = {}
      /\ \A t \in Threads : H[t] \cap (L \cup F) = {} /\ \A u \in Threads \ {t} : H[t] \cap H[u] = {}
  BY <1>1 DEF Parted
<1>4. \A P : P \subseteq A => IsPairs(P) BY DEF IsPairs
<1>5. L \subseteq A /\ F \subseteq A /\ \A t \in Threads : H[t] \subseteq A BY <1>3
<1>6. UNION {HeldBy(t) : t \in Threads} = AreasOf(UNION {H[t] : t \in Threads})
  <2>1. UNION {HeldBy(t) : t \in Threads} \subseteq AreasOf(UNION {H[t] : t \in Threads}) BY DEF AreasOf
  <2>2. AreasOf(UNION {H[t] : t \in Threads}) \subseteq UNION {HeldBy(t) : t \in Threads} BY DEF AreasOf
  <2> QED BY <2>1, <2>2
<1>7. Areas = AreasOf(A)
  <2>1. PICK U : U = UNION {H[t] : t \in Threads} OBVIOUS
  <2>2. PICK M : M = L \cup F OBVIOUS
  <2>3. AreasOf(M) = AreasOf(L) \cup AreasOf(F) BY <2>2, AreasJoin
  <2>4. AreasOf(M \cup U) = AreasOf(M) \cup AreasOf(U) BY AreasJoin
  <2>5. A = M \cup U BY <1>3, <2>1, <2>2
  <2> QED BY <1>2, <1>6, <2>1, <2>3, <2>4, <2>5 DEF Areas
<1>8. LiveAreas \cap FreeAreas = {} BY <1>2, <1>3, <1>4, <1>5, AreasMeet
<1>9. ASSUME NEW t \in Threads PROVE HeldBy(t) \cap (LiveAreas \cup FreeAreas) = {}
  <2>1. H[t] \cap L = {} /\ H[t] \cap F = {} BY <1>3
  <2>2. IsPairs(H[t]) /\ IsPairs(L) /\ IsPairs(F) BY <1>4, <1>5
  <2>3. AreasOf(H[t]) \cap AreasOf(L) = {} BY <2>1, <2>2, AreasMeet
  <2>4. AreasOf(H[t]) \cap AreasOf(F) = {} BY <2>1, <2>2, AreasMeet
  <2> QED BY <1>2, <2>3, <2>4
<1>10. ASSUME NEW t \in Threads, NEW u \in Threads \ {t} PROVE HeldBy(t) \cap HeldBy(u) = {}
  BY <1>3, <1>4, <1>5, AreasMeet
<1>11. \A b, c \in live : b # c => b.buf # c.buf \/ b.at # c.at BY DEF Spread, Pos
<1> QED BY <1>7, <1>8, <1>9, <1>10, <1>11 DEF InOnePlace

LEMMA PiecesApart ==
  ASSUME kind \in Fixed, NEW n \in Nat \ {0}, NEW A, IsPairs(A), Areas = AreasOf(A),
         \A p \in A : /\ SizeIn(p[1]) \in Nat \ {0} /\ p[2] \in Pieces(SizeIn(p[1]), n)
                      /\ Extent(p[1]) = n * SizeIn(p[1]),
         \A b \in live : kind # "cslab" => b.at % b.align = 0
  PROVE  BlocksApart
<1>1. ASSUME NEW p \in A
      PROVE  /\ AreaAt(p).at >= 0 /\ AreaAt(p).at + AreaAt(p).len <= Extent(AreaAt(p).buf)
  <2>1. PICK z : z = SizeIn(p[1]) OBVIOUS
  <2>2. z \in Nat \ {0} /\ p[2] \in Pieces(z, n) /\ Extent(p[1]) = n * z BY <2>1
  <2>3. PICK i \in 0 .. n - 1 : p[2] = i * z BY <2>2 DEF Pieces
  <2>4. i \in Int /\ i < n /\ i >= 0 OBVIOUS
  <2>5. i * z + z <= n * z /\ i * z \in Int BY <2>2, <2>4, Multiples
  <2>6. i * z >= 0 BY <2>2, <2>4, SMT
  <2>7. AreaAt(p).buf = p[1] /\ AreaAt(p).at = p[2] /\ AreaAt(p).len = z BY <2>1, AreaFacts DEF IsPairs
  <2> QED BY <2>2, <2>3, <2>5, <2>6, <2>7
<1>2. ASSUME NEW p \in A, NEW q \in A, AreaAt(p) # AreaAt(q)
      PROVE  \/ AreaAt(p).buf # AreaAt(q).buf
             \/ AreaAt(p).at + AreaAt(p).len <= AreaAt(q).at
             \/ AreaAt(q).at + AreaAt(q).len <= AreaAt(p).at
  <2>1. /\ AreaAt(p).buf = p[1] /\ AreaAt(p).at = p[2] /\ AreaAt(p).len = SizeIn(p[1])
        /\ AreaAt(q).buf = q[1] /\ AreaAt(q).at = q[2] /\ AreaAt(q).len = SizeIn(q[1])
    BY AreaFacts DEF IsPairs
  <2> SUFFICES ASSUME p[1] = q[1] PROVE p[2] + SizeIn(p[1]) <= q[2] \/ q[2] + SizeIn(q[1]) <= p[2]
    BY <2>1
  <2>2. p[2] # q[2]
    <3>1. p = <<p[1], p[2]>> /\ q = <<q[1], q[2]>> BY DEF IsPairs
    <3> QED BY <1>2, <3>1
  <2>3. PICK z : z = SizeIn(p[1]) OBVIOUS
  <2>4. z \in Nat \ {0} /\ p[2] \in Pieces(z, n) /\ q[2] \in Pieces(z, n) /\ SizeIn(q[1]) = z BY <2>3
  <2>5. PICK i \in 0 .. n - 1 : p[2] = i * z BY <2>4 DEF Pieces
  <2>6. PICK j \in 0 .. n - 1 : q[2] = j * z BY <2>4 DEF Pieces
  <2>7. i \in Int /\ j \in Int /\ (i < j \/ j < i) BY <2>2, <2>5, <2>6
  <2>8. (i < j => i * z + z <= j * z) /\ (j < i => j * z + z <= i * z) BY <2>4, <2>7, Multiples
  <2> QED BY <2>3, <2>4, <2>5, <2>6, <2>7, <2>8
<1>3. \A x \in Areas : x.at >= 0 /\ x.at + x.len <= Extent(x.buf) BY <1>1 DEF AreasOf
<1>4. \A x, y \in Areas : x # y => x.buf # y.buf \/ x.at + x.len <= y.at \/ y.at + y.len <= x.at
  BY <1>2 DEF AreasOf
<1>5. kind \notin {"buddy", "cbuddy"} BY DEF Fixed
<1> QED BY <1>3, <1>4, <1>5 DEF BlocksApart, Honoured

\* A block of alignment 1 or 2 at a multiple of it.
LEMMA AlignedAt ==
  ASSUME NEW a \in Int
  PROVE  a % 1 = 0 /\ \A i \in Int : (i * 2) % 2 = 0 /\ (i * 4) % 2 = 0
<1>1. a % 1 = 0 BY SMT
<1>2. \A i \in Int : (i * 2) % 2 = 0 BY SMT
<1>3. \A i \in Int : (i * 4) % 2 = 0 BY SMT
<1> QED BY <1>1, <1>2, <1>3

LEMMA ChunkAreas ==
  ASSUME kind \in {"pool", "cpool"}
  PROVE  /\ kind \in Fixed /\ \A b : SizeIn(b) = BlockSize
         /\ IsPairs(In(0, Chunk)) /\ AllBlocks = AreasOf(In(0, Chunk))
         /\ \A p \in In(0, Chunk) : /\ SizeIn(p[1]) \in Nat \ {0} /\ p[2] \in Pieces(SizeIn(p[1]), Blocks)
                                    /\ Extent(p[1]) = Blocks * SizeIn(p[1])
<1>1. kind # "slab" /\ kind # "cslab" /\ kind \notin Bucketed /\ kind # "arena" /\ kind # "carena" BY DEF Bucketed
<1>2. \A b : SizeIn(b) = BlockSize BY <1>1 DEF SizeIn
<1>3. AllBlocks = AreasOf(In(0, Chunk))
  <2>1. AreasOf(In(0, Chunk)) = {Area(0, a, SizeIn(0)) : a \in Chunk} BY InPairs
  <2>2. AllBlocks = {Area(0, a, BlockSize) : a \in Chunk} BY <1>1 DEF AllBlocks
  <2> QED BY <1>2, <2>1, <2>2
<1>4. \A b : Extent(b) = Blocks * BlockSize BY <1>1 DEF Extent
<1>5. \A p \in In(0, Chunk) : p[2] \in Pieces(BlockSize, Blocks) BY ChunkFacts DEF In
<1> QED BY <1>2, <1>3, <1>4, <1>5, InPairs, ChunkFacts DEF Fixed

LEMMA PoolSays ==
  ASSUME kind = "pool", PoolGood(al, live)
  PROVE  InOnePlace /\ ListsRight /\ BlocksApart
<1>0. kind \in {"pool", "cpool"} /\ kind \in Fixed BY DEF Fixed
<1>1. /\ Listed(al.free) /\ al.bits = Range(al.free) /\ al.count = Len(al.free)
      /\ Spread(live) /\ \A b \in live : b.buf = 0 /\ b.align = 1
      /\ Places(live) \cup In(0, al.bits) = In(0, Chunk) /\ Places(live) \cap In(0, al.bits) = {}
  BY DEF PoolGood
<1>2. Parted(Places(live), In(0, al.bits), Nobody, In(0, Chunk)) BY <1>1 DEF Parted, Nobody
<1>3. FreeAreas = {Area(0, a, BlockSize) : a \in al.bits} BY <1>1 DEF FreeAreas, Bucketed
<1>4. FreeAreas = AreasOf(In(0, al.bits))
  <2>1. AreasOf(In(0, al.bits)) = {Area(0, a, SizeIn(0)) : a \in al.bits} BY InPairs
  <2>2. SizeIn(0) = BlockSize BY <1>0, ChunkAreas
  <2> QED BY <1>3, <2>1, <2>2
<1>5. \A t \in Threads : HeldBy(t) = AreasOf(Nobody[t])
  <2>1. \A t \in Threads : HeldBy(t) = {} BY DEF HeldBy
  <2>2. \A t \in Threads : Nobody[t] = {} BY DEF Nobody
  <2>3. AreasOf({}) = {} BY DEF AreasOf
  <2> QED BY <2>1, <2>2, <2>3
<1>6. InOnePlace /\ Areas = AreasOf(In(0, Chunk)) BY <1>0, <1>1, <1>2, <1>4, <1>5, ChunkAreas, PlacedOnce
<1>7. Cardinality(Range(al.free)) = Len(al.free) BY <1>1, ListCard
<1>8. {x.at : x \in FreeAreas} = al.bits
  <2>1. \A a : Area(0, a, BlockSize).at = a BY DEF Area
  <2>2. {x.at : x \in FreeAreas} \subseteq al.bits BY <1>3, <2>1
  <2>3. al.bits \subseteq {x.at : x \in FreeAreas} BY <1>3, <2>1
  <2> QED BY <2>2, <2>3
<1>9. ListsRight BY <1>1, <1>7, <1>8 DEF ListsRight, Bucketed
<1>10. \A b \in live : b.at % b.align = 0
  <2> SUFFICES ASSUME NEW b \in live PROVE b.at % b.align = 0 OBVIOUS
  <2>1. <<0, b.at>> \in In(0, Chunk) BY <1>1 DEF Places, Pos
  <2>2. b.at \in Int BY <2>1, InFacts, ChunkFacts
  <2> QED BY <1>1, <2>2, AlignedAt
<1> QED BY <1>0, <1>6, <1>9, <1>10, ChunkAreas, ChunkFacts, PiecesApart

LEMMA CPoolSays ==
  ASSUME kind = "cpool", CPoolInv(al, live, loc)
  PROVE  InOnePlace /\ ListsRight /\ BlocksApart /\ \A x \in FreeAreas : x.at \notin al.dirty
<1>0. kind \in {"pool", "cpool"} /\ kind \in Fixed BY DEF Fixed
<1>1. PICK q : Path(al.head.lo, al.next, q) /\ CPoolGood(al, live, loc, Range(q)) BY DEF CPoolInv
<1>2. PICK F : F = Range(q) OBVIOUS
<1>3. /\ Spread(live) /\ \A b \in live : b.buf = 0 /\ b.align = 1
      /\ Parted(Places(live), In(0, F), Helds(loc), In(0, Chunk))
      /\ al.bits = F \cup UNION {MarkAt(loc[t]) : t \in Threads}
      /\ al.count + Cardinality({t \in Threads : Rising(loc[t])})
           = Cardinality(al.bits) + Cardinality({t \in Threads : Falling(loc[t])})
      /\ al.dirty \cap F = {} /\ al.count \in Int
      /\ F \subseteq Chunk /\ \A t \in Threads : CPoolLocals(loc[t])
  BY <1>1, <1>2 DEF CPoolGood, CPoolLive, CPoolShape, Path
<1>4. FreeAreas = {Area(0, a, BlockSize) : a \in F}
  <2>1. Range(Chain(al.head.lo, al.next, Blocks)) = F BY <1>1, <1>2, PathChain
  <2>2. FreeAreas = {Area(0, a, BlockSize) : a \in Range(Chain(al.head.lo, al.next, Blocks))}
    BY DEF FreeAreas, Bucketed
  <2> QED BY <2>1, <2>2
<1>5. \A b : SizeIn(b) = BlockSize BY <1>0, ChunkAreas
<1>6. FreeAreas = AreasOf(In(0, F))
  <2>1. AreasOf(In(0, F)) = {Area(0, a, SizeIn(0)) : a \in F} BY InPairs
  <2> QED BY <1>4, <1>5, <2>1
<1>7. ASSUME NEW t \in Threads PROVE HeldBy(t) = AreasOf(Helds(loc)[t])
  <2>1. PICK me : me = loc[t] OBVIOUS
  <2>2. PICK old : old = IF "old" \in DOMAIN me /\ me.old # <<>> THEN {me.old[1]} ELSE {} OBVIOUS
  <2>3. PICK O : O = {Area(0, b.at, BlockSize) : b \in old} OBVIOUS
  <2>4. HeldBy(t) = O \cup (IF me.pc \in {"clear", "less"} THEN {Area(0, me.head.lo, BlockSize)}
                    ELSE IF me.pc \in {"or", "wipe", "top", "store", "pushCas"} THEN {Area(0, me.p, BlockSize)}
                    ELSE {})
    BY <2>1, <2>2, <2>3 DEF HeldBy
  <2>5. CPoolLocals(me) BY <1>3, <2>1
  <2>6. O = AreasOf(OldAt(me))
    <3>0. AreasOf({}) = {} BY DEF AreasOf
    <3>1. CASE me.pc \in Taking
      <4>1. "old" \in DOMAIN me /\ IsOld(me.old) /\ OldAt(me) = Places(Range(me.old)) BY <2>5, <3>1, TakerFacts
      <4>2. CASE me.old = <<>>
        <5>1. OldAt(me) = {} BY <4>1, <4>2, OldFacts
        <5>2. old = {} BY <2>2, <4>2
        <5> QED BY <2>3, <3>0, <5>1, <5>2
      <4>3. CASE me.old # <<>>
        <5>1. PICK b : b = me.old[1] OBVIOUS
        <5>2. OldAt(me) = {<<0, b.at>>} BY <4>1, <4>3, <5>1, OldFacts
        <5>3. old = {b} BY <2>2, <4>1, <4>3, <5>1
        <5>4. O = {Area(0, b.at, BlockSize)} BY <2>3, <5>3
        <5>5. AreaAt(<<0, b.at>>) = Area(0, b.at, BlockSize) BY <1>5 DEF AreaAt
        <5> QED BY <5>2, <5>4, <5>5 DEF AreasOf
      <4> QED BY <4>2, <4>3
    <3>2. CASE me.pc \notin Taking
      <4>1. "old" \notin DOMAIN me BY <2>5, <3>2 DEF CPoolLocals
      <4>2. OldAt(me) = {} BY <3>2 DEF OldAt
      <4>3. old = {} BY <2>2, <4>1
      <4> QED BY <2>3, <3>0, <4>2, <4>3
    <3> QED BY <3>1, <3>2
  <2>7. (IF me.pc \in {"clear", "less"} THEN {Area(0, me.head.lo, BlockSize)}
         ELSE IF me.pc \in {"or", "wipe", "top", "store", "pushCas"} THEN {Area(0, me.p, BlockSize)}
         ELSE {}) = AreasOf(OwnAt(me))
    <3>1. \A a : AreaAt(<<0, a>>) = Area(0, a, BlockSize) BY <1>5 DEF AreaAt
    <3>2. \A a : AreasOf({<<0, a>>}) = {Area(0, a, BlockSize)} BY <3>1 DEF AreasOf
    <3>3. AreasOf({}) = {} BY DEF AreasOf
    <3> QED BY <3>2, <3>3 DEF OwnAt, Giving
  <2>8. Helds(loc)[t] = OldAt(me) \cup OwnAt(me) BY <2>1 DEF Helds, HeldAt
  <2>9. HeldBy(t) = AreasOf(OldAt(me)) \cup AreasOf(OwnAt(me)) BY <2>4, <2>6, <2>7
  <2>10. AreasOf(OldAt(me) \cup OwnAt(me)) = AreasOf(OldAt(me)) \cup AreasOf(OwnAt(me)) BY AreasJoin
  <2> QED BY ONLY <2>8, <2>9, <2>10
<1>8. InOnePlace /\ Areas = AreasOf(In(0, Chunk)) BY <1>0, <1>3, <1>6, <1>7, ChunkAreas, PlacedOnce
<1>9. {x.at : x \in FreeAreas} = F
  <2>1. \A a : Area(0, a, BlockSize).at = a BY DEF Area
  <2>2. {x.at : x \in FreeAreas} \subseteq F BY <1>4, <2>1
  <2>3. F \subseteq {x.at : x \in FreeAreas} BY <1>4, <2>1
  <2> QED BY <2>2, <2>3
<1>10. ASSUME Quiet PROVE F = al.bits /\ al.count = Cardinality(al.bits)
  <2>1. \A t \in Threads : MarkAt(loc[t]) = {} /\ ~Rising(loc[t]) /\ ~Falling(loc[t])
    BY <1>10, IdleFacts DEF Quiet, At
  <2>2. al.bits = F BY <1>3, <2>1
  <2>3. {t \in Threads : Rising(loc[t])} = {} /\ {t \in Threads : Falling(loc[t])} = {} BY <2>1
  <2>4. Cardinality({}) = 0 BY FS_EmptySet
  <2>5. IsFiniteSet(al.bits) BY <1>3, <2>2, ChunkFacts, FS_Subset
  <2>6. Cardinality(al.bits) \in Nat BY <2>5, FS_CardinalityType
  <2>7. Cardinality({t \in Threads : Rising(loc[t])}) = 0 /\ Cardinality({t \in Threads : Falling(loc[t])}) = 0
    BY ONLY <2>3, <2>4
  <2>8. al.count + 0 = Cardinality(al.bits) + 0 /\ al.count \in Int BY <1>3, <2>7
  <2> QED BY ONLY <2>2, <2>6, <2>8
<1>11. ListsRight BY <1>9, <1>10 DEF ListsRight, Bucketed
<1>12. \A x \in FreeAreas : x.at \notin al.dirty BY <1>3, <1>9
<1>13. \A b \in live : b.at % b.align = 0
  <2> SUFFICES ASSUME NEW b \in live PROVE b.at % b.align = 0 OBVIOUS
  <2>1. <<0, b.at>> \in In(0, Chunk) BY <1>3 DEF Places, Pos, Parted
  <2>2. b.at \in Int BY <2>1, InFacts, ChunkFacts
  <2> QED BY <1>3, <2>2, AlignedAt
<1> QED BY <1>0, <1>8, <1>11, <1>12, <1>13, ChunkAreas, ChunkFacts, PiecesApart

\* The buckets of slab and cslab.
LEMMA BucketAreas ==
  ASSUME kind \in Bucketed, NEW sz, \A b \in Buckets : sz[b] \in Nat \ {0} /\ SizeIn(b) = sz[b],
         NEW H, SlabGood(al, live, H, sz), \A t \in Threads : HeldBy(t) = AreasOf(H[t]),
         \A b \in live : kind # "cslab" => b.at % b.align = 0
  PROVE  /\ InOnePlace /\ ListsRight /\ BlocksApart /\ FreeAreas = AreasOf(FreePlaces(al))
<1>0. kind \in Fixed /\ kind \notin {"pool", "cpool", "buddy", "cbuddy", "arena", "carena"} BY DEF Fixed, Bucketed
<1>1. SlabShape(al) /\ Spread(live) /\ Parted(Places(live), FreePlaces(al), H, SlabPlaces(sz)) BY DEF SlabGood
<1>2. \A S : AreasOf(UNION {S[b] : b \in Buckets}) = UNION {AreasOf(S[b]) : b \in Buckets}
  <2> SUFFICES ASSUME NEW S PROVE AreasOf(UNION {S[b] : b \in Buckets}) = UNION {AreasOf(S[b]) : b \in Buckets}
    OBVIOUS
  <2>1. AreasOf(UNION {S[b] : b \in Buckets}) \subseteq UNION {AreasOf(S[b]) : b \in Buckets} BY DEF AreasOf
  <2>2. UNION {AreasOf(S[b]) : b \in Buckets} \subseteq AreasOf(UNION {S[b] : b \in Buckets}) BY DEF AreasOf
  <2> QED BY <2>1, <2>2
<1>3. FreeAreas = AreasOf(FreePlaces(al))
  <2>1. PICK S : S = [b \in Buckets |-> In(b, Range(al.pool[b].free))] OBVIOUS
  <2>2. \A b \in Buckets : S[b] = In(b, Range(al.pool[b].free)) BY <2>1
  <2>3. FreePlaces(al) = UNION {S[b] : b \in Buckets} BY <2>2 DEF FreePlaces
  <2>4. \A b \in Buckets : AreasOf(S[b]) = {Area(b, a, SizeIn(b)) : a \in Range(al.pool[b].free)}
    BY <2>2, InPairs
  <2>5. FreeAreas = UNION {{Area(b, a, SizeIn(b)) : a \in Range(al.pool[b].free)} : b \in Buckets}
    BY <1>0 DEF FreeAreas
  <2>6. FreeAreas = UNION {AreasOf(S[b]) : b \in Buckets} BY <2>4, <2>5
  <2> QED BY <1>2, <2>3, <2>6
<1>4. AllBlocks = AreasOf(SlabPlaces(sz))
  <2>1. PICK S : S = [b \in Buckets |-> In(b, Pieces(sz[b], PerBucket))] OBVIOUS
  <2>2. \A b \in Buckets : S[b] = In(b, Pieces(sz[b], PerBucket)) BY <2>1
  <2>3. SlabPlaces(sz) = UNION {S[b] : b \in Buckets} BY <2>2 DEF SlabPlaces
  <2>4. ASSUME NEW b \in Buckets
        PROVE  AreasOf(S[b]) = {Area(b, i * SizeIn(b), SizeIn(b)) : i \in 0 .. (PerBucket - 1)}
    <3>1. AreasOf(S[b]) = {Area(b, a, SizeIn(b)) : a \in Pieces(SizeIn(b), PerBucket)} BY <2>2, InPairs
    <3>2. PICK z : z = SizeIn(b) OBVIOUS
    <3>3. {Area(b, a, z) : a \in Pieces(z, PerBucket)} \subseteq {Area(b, i * z, z) : i \in 0 .. (PerBucket - 1)}
      BY DEF Pieces
    <3>4. {Area(b, i * z, z) : i \in 0 .. (PerBucket - 1)} \subseteq {Area(b, a, z) : a \in Pieces(z, PerBucket)}
      BY DEF Pieces
    <3> QED BY <3>1, <3>2, <3>3, <3>4
  <2>5. AllBlocks = UNION {{Area(b, i * SizeIn(b), SizeIn(b)) : i \in 0 .. (PerBucket - 1)} : b \in Buckets}
    BY DEF AllBlocks
  <2>6. PICK T : T = [b \in Buckets |-> {Area(b, i * SizeIn(b), SizeIn(b)) : i \in 0 .. (PerBucket - 1)}] OBVIOUS
  <2>7. \A b \in Buckets : T[b] = AreasOf(S[b]) BY <2>4, <2>6
  <2>8. AllBlocks = UNION {T[b] : b \in Buckets} BY <2>5, <2>6
  <2>9. UNION {T[b] : b \in Buckets} = UNION {AreasOf(S[b]) : b \in Buckets} BY ONLY <2>7
  <2> QED BY <1>2, <2>3, <2>8, <2>9
<1>5. ASSUME NEW p \in SlabPlaces(sz)
      PROVE  /\ p = <<p[1], p[2]>> /\ p[1] \in Buckets /\ p[2] \in Pieces(sz[p[1]], PerBucket)
  <2>1. PICK b \in Buckets : p \in In(b, Pieces(sz[b], PerBucket)) BY DEF SlabPlaces
  <2>2. PICK a \in Pieces(sz[b], PerBucket) : p = <<b, a>> BY <2>1 DEF In
  <2>3. p[1] = b /\ p[2] = a BY <2>2
  <2> QED BY <2>2, <2>3
<1>6. IsPairs(SlabPlaces(sz)) BY <1>5 DEF IsPairs
<1>7. InOnePlace /\ Areas = AreasOf(SlabPlaces(sz)) BY <1>0, <1>1, <1>3, <1>4, <1>6, PlacedOnce
<1>8. ASSUME NEW p \in SlabPlaces(sz)
      PROVE  /\ SizeIn(p[1]) \in Nat \ {0} /\ p[2] \in Pieces(SizeIn(p[1]), PerBucket)
             /\ Extent(p[1]) = PerBucket * SizeIn(p[1])
  <2>1. PICK z : z = SizeIn(p[1]) OBVIOUS
  <2>2. z \in Nat \ {0} /\ p[2] \in Pieces(z, PerBucket) BY <1>5, <2>1
  <2>3. Extent(p[1]) = z * PerBucket BY <1>0, <2>1 DEF Extent
  <2>4. z * PerBucket = PerBucket * z BY <2>2, BucketFacts, SMT
  <2> QED BY <2>1, <2>2, <2>3, <2>4
<1>9. BlocksApart BY <1>0, <1>6, <1>7, <1>8, BucketFacts, PiecesApart
<1>10. ListsRight
  <2>1. \A b \in Buckets : Listed(al.pool[b].free) /\ al.pool[b].count = Len(al.pool[b].free) BY <1>1 DEF SlabShape
  <2>2. \A b \in Buckets : Len(al.pool[b].free) = Cardinality(Range(al.pool[b].free)) BY <2>1, ListCard
  <2> QED BY <1>0, <2>1, <2>2 DEF ListsRight
<1> QED BY <1>3, <1>7, <1>9, <1>10

LEMMA SlabSays ==
  ASSUME kind = "slab", SlabInv(al, live)
  PROVE  InOnePlace /\ ListsRight /\ BlocksApart
<1>1. SlabGood(al, live, Nobody, SlabSizes) /\ \A b \in live : b.align \in {1, 2} BY DEF SlabInv
<1>2. kind \in Bucketed BY DEF Bucketed
<1>3. \A b : SizeIn(b) = SlabBlock(b) BY DEF SizeIn
<1>4. \A b \in Buckets : SlabSizes[b] \in Nat \ {0} /\ SizeIn(b) = SlabSizes[b] BY <1>3, BucketFacts
<1>5. \A t \in Threads : HeldBy(t) = AreasOf(Nobody[t])
  <2>1. \A t \in Threads : HeldBy(t) = {} BY DEF HeldBy
  <2>2. \A t \in Threads : Nobody[t] = {} BY DEF Nobody
  <2>3. AreasOf({}) = {} BY DEF AreasOf
  <2> QED BY <2>1, <2>2, <2>3
<1>6. ASSUME NEW b \in live PROVE b.at % b.align = 0
  <2>1. <<b.buf, b.at>> \in SlabPlaces(SlabSizes) BY <1>1 DEF SlabGood, Parted, Places, Pos
  <2>2. b.buf \in Buckets /\ b.at \in Pieces(SlabSizes[b.buf], PerBucket) BY <2>1, SlabIn
  <2>3. SlabSizes[b.buf] \in {2, 4} BY <2>2, BucketFacts
  <2>4. PICK i \in 0 .. PerBucket - 1 : b.at = i * SlabSizes[b.buf] BY <2>2 DEF Pieces
  <2>5. i \in Int /\ (b.at = i * 2 \/ b.at = i * 4) BY <2>3, <2>4
  <2>6. b.at \in Int BY <2>5
  <2> QED BY <1>1, <2>5, <2>6, AlignedAt
<1> QED BY <1>1, <1>2, <1>4, <1>5, <1>6, BucketAreas

LEMMA CSlabSays ==
  ASSUME kind = "cslab", CSlabInv(al, live, loc)
  PROVE  InOnePlace /\ ListsRight /\ BlocksApart /\ \A x \in FreeAreas : <<x.buf, x.at>> \notin al.dirty
<1>1. SlabGood(al, live, Carried(loc), CSlabSizes) /\ FreePlaces(al) \cap al.dirty = {}
  BY DEF CSlabInv, CSlabWiped
<1>2. kind \in Bucketed BY DEF Bucketed
<1>3. \A b : SizeIn(b) = CSlabBlock(b) BY DEF SizeIn
<1>4. \A b \in Buckets : CSlabSizes[b] \in Nat \ {0} /\ SizeIn(b) = CSlabSizes[b] BY <1>3, BucketFacts
<1>5. ASSUME NEW t \in Threads PROVE HeldBy(t) = AreasOf(Carried(loc)[t])
  <2>1. PICK me : me = loc[t] OBVIOUS
  <2>2. HeldBy(t) = IF me.pc = "idle" THEN {} ELSE {Area(me.b.buf, me.b.at, SizeIn(me.b.buf))}
    BY <2>1 DEF HeldBy
  <2>3. Carried(loc)[t] = IF me.pc = "idle" THEN {} ELSE {Pos(me.b)} BY <2>1 DEF Carried
  <2>4. AreaAt(Pos(me.b)) = Area(me.b.buf, me.b.at, SizeIn(me.b.buf)) BY DEF AreaAt, Pos
  <2>5. AreasOf({}) = {} /\ AreasOf({Pos(me.b)}) = {AreaAt(Pos(me.b))} BY DEF AreasOf
  <2> QED BY <2>2, <2>3, <2>4, <2>5
<1>6. InOnePlace /\ ListsRight /\ BlocksApart /\ FreeAreas = AreasOf(FreePlaces(al))
  BY <1>1, <1>2, <1>4, <1>5, BucketAreas
<1>7. ASSUME NEW x \in FreeAreas PROVE <<x.buf, x.at>> \notin al.dirty
  <2>1. PICK p \in FreePlaces(al) : x = AreaAt(p) BY <1>6 DEF AreasOf
  <2>2. p = <<p[1], p[2]>> BY DEF FreePlaces, In
  <2>3. x.buf = p[1] /\ x.at = p[2] BY <2>1, <2>2, AreaFacts
  <2> QED BY <1>1, <2>2, <2>3
<1> QED BY <1>6, <1>7

\* The blocks of the arenas.
LEMMA HeapSays ==
  ASSUME kind \in {"arena", "carena"}, NEW end, Heaped(live, end),
         \A b \in live : b.buf \in DOMAIN end => end[b.buf] = Extent(b.buf)
  PROVE  BlocksApart
<1>1. kind \notin Fixed /\ kind \notin Bucketed /\ kind \notin {"buddy", "cbuddy", "pool", "cpool", "cslab"}
  BY DEF Fixed, Bucketed
<1>2. LiveAreas = {Area(b.buf, b.at, b.len) : b \in live} BY <1>1 DEF LiveAreas
<1>3. FreeAreas = {} BY <1>1 DEF FreeAreas
<1>4. \A t \in Threads : HeldBy(t) = {} BY <1>1 DEF HeldBy
<1>5. Areas = {Area(b.buf, b.at, b.len) : b \in live} BY <1>2, <1>3, <1>4 DEF Areas
<1>6. \A b, a, n : Area(b, a, n).buf = b /\ Area(b, a, n).at = a /\ Area(b, a, n).len = n BY DEF Area
<1>7. /\ \A b \in live : /\ b.at \in Nat /\ b.at % b.align = 0 /\ b.at + b.len <= Extent(b.buf)
      /\ \A b, c \in live : b # c => Off(b, c)
  BY DEF Heaped, Aligned
<1>8. \A x \in Areas : x.at >= 0 /\ x.at + x.len <= Extent(x.buf) BY <1>5, <1>6, <1>7
<1>9. ASSUME NEW x \in Areas, NEW y \in Areas, x # y
      PROVE  x.buf # y.buf \/ x.at + x.len <= y.at \/ y.at + y.len <= x.at
  <2>1. PICK b \in live : x = Area(b.buf, b.at, b.len) BY <1>5
  <2>2. PICK c \in live : y = Area(c.buf, c.at, c.len) BY <1>5
  <2>3. Off(b, c) BY <1>7, <1>9, <2>1, <2>2
  <2> QED BY <1>6, <2>1, <2>2, <2>3 DEF Off
<1> QED BY <1>1, <1>7, <1>8, <1>9 DEF BlocksApart, Honoured

LEMMA ArenasSay ==
  ASSUME \/ kind = "arena" /\ ArenaInv(al, live, owed)
         \/ kind = "carena" /\ CArenaInv(al, live, loc)
  PROVE  BlocksApart
<1>1. CASE kind = "arena" /\ ArenaInv(al, live, owed)
  <2>1. Heaped(live, Ends(al)) BY <1>1 DEF ArenaInv
  <2>2. \A n : Extent(n) = al.node[n].offset BY <1>1 DEF Extent, Bucketed
  <2>3. \A b \in live : b.buf \in DOMAIN Ends(al) => Ends(al)[b.buf] = Extent(b.buf) BY <2>2 DEF Ends
  <2> QED BY <1>1, <2>1, <2>3, HeapSays
<1>2. CASE kind = "carena" /\ CArenaInv(al, live, loc)
  <2>1. Heaped(live, ShardEnds(al)) /\ ShardsShape(al) BY <1>2 DEF CArenaInv
  <2>2. ASSUME NEW g \in DOMAIN ShardEnds(al) PROVE ShardEnds(al)[g] = Extent(g)
    <3>1. g[1] \in Shards /\ g = <<g[1], al.shard[g[1]].gen>> BY <2>1, EndFacts
    <3>2. ShardEnds(al)[g] = al.shard[g[1]].offset BY <2>1, <3>1, EndFacts
    <3>3. g[2] = al.shard[g[1]].gen BY <3>1
    <3>4. Extent(g) = IF al.shard[g[1]].gen = g[2] THEN al.shard[g[1]].offset ELSE 0
      BY <1>2 DEF Extent, Bucketed
    <3> QED BY <3>2, <3>3, <3>4
  <2> QED BY <1>2, <2>1, <2>2, HeapSays
<1> QED BY <1>1, <1>2

-----------------------------------------------------------------------------
(* What an allocator holds of its backing allocator: create takes all      *)
(* parts or gives back what it got, destroy gives all back, and no other   *)
(* call of these takes or gives any.  Only an arena grows.                 *)

PoolAll == {State, Memory, Bitmap, Vtable}
SlabAll == {<<"chunk", b>> : b \in Buckets} \cup {Pools, Sizes, State, Vtable}
BuddyAll == {Memory, State, Vtable}
CArenaAll == {<<"buffer", i>> : i \in Shards} \cup {State, Vtable}

Opens(P, L) ==
  /\ al = NotYet /\ kind' = kind /\ calls' = calls
  /\ \/ al' # Gone /\ owed' = P
     \/ al' = Gone /\ owed' \subseteq L
Closes(P) == Up /\ kind' = kind /\ al' = Gone /\ owed' = owed \ P
Still == kind' = kind /\ owed' = owed
Frame(P, L) == Opens(P, L) \/ Closes(P) \/ (Up /\ Still)

LEMMA Opening ==
  ASSUME NEW parts, NEW got, NEW leak, NEW s, NEW L, Create(parts, got, leak, s), leak \subseteq L,
         "phase" \notin DOMAIN s
  PROVE  Opens(Range(parts), L)
<1>1. DOMAIN Gone = {"phase"} BY DEF Gone
<1>2. s # Gone BY <1>1
<1> QED BY <1>2 DEF Create, Opens

LEMMA Closing ==
  ASSUME NEW P, Destroy(P)
  PROVE  Closes(P)
BY DEF Destroy, Closes

LEMMA StillSteps ==
  /\ \A s, B : Call(s, B) => Still
  /\ \A t, s, B, r : Begin(t, s, B, r) => Still
  /\ \A t, s, r : Step(t, s, r) => Still
  /\ \A t, s, B, r : Finish(t, s, B, r) => Still
<1>1. \A s, B : Call(s, B) => Still BY DEF Call, Still
<1>2. \A t, s, B, r : Begin(t, s, B, r) => Still BY DEF Begin, Still
<1>3. \A t, s, r : Step(t, s, r) => Still BY DEF Step, Still
<1>4. \A t, s, B, r : Finish(t, s, B, r) => Still BY DEF Finish, Still
<1> QED BY <1>1, <1>2, <1>3, <1>4

LEMMA PoolFrame ==
  ASSUME PoolNext
  PROVE  Frame(PoolAll, {Bitmap})
<1>1. ASSUME NEW got, pool_create(got) PROVE Opens(PoolAll, {Bitmap})
  <2>1. PICK s : s = [free |-> Descending(BlockSize, Blocks), bits |-> Chunk, count |-> Blocks] OBVIOUS
  <2>2. "phase" \notin DOMAIN s BY <2>1
  <2>3. PICK leak : leak = IF got = 3 THEN {Bitmap} ELSE {} OBVIOUS
  <2>4. leak \subseteq {Bitmap} /\ Create(PoolParts, got, leak, s) BY <1>1, <2>1, <2>3 DEF pool_create
  <2>5. Opens(Range(PoolParts), {Bitmap}) BY <2>2, <2>4, Opening
  <2>6. Range(PoolParts) = PoolAll BY DEF Range, PoolParts, PoolAll
  <2> QED BY <2>5, <2>6
<1>2. pool_destroy => Closes(PoolAll) BY Closing DEF pool_destroy, PoolAll
<1>3. \A size : pool_malloc(size) => Still BY StillSteps DEF pool_malloc, Nothing
<1>4. \A n : pool_calloc(n, 2) => Still BY <1>3, StillSteps DEF pool_calloc, Nothing
<1>5. \A p : pool_free(p) => Still BY StillSteps DEF pool_free
<1>6. \A b, size : pool_realloc(b, size) => Still BY <1>5, StillSteps DEF pool_realloc, Nothing
<1> QED BY <1>1, <1>2, <1>3, <1>4, <1>5, <1>6 DEF PoolNext, Frame

LEMMA CPoolFrame ==
  ASSUME CPoolNext
  PROVE  Frame(PoolAll, {})
<1>1. ASSUME NEW got, cpool_create(got) PROVE Opens(PoolAll, {})
  <2>1. PICK s : s = [head |-> [lo |-> (Blocks - 1) * BlockSize, hi |-> 0], bits |-> Chunk, count |-> Blocks,
                      next |-> [a \in Chunk |-> IF a = 0 THEN Null ELSE a - BlockSize], dirty |-> {}]
    OBVIOUS
  <2>2. "phase" \notin DOMAIN s BY <2>1
  <2>3. Create(PoolParts, got, {}, s) BY <1>1, <2>1 DEF cpool_create
  <2>4. Opens(Range(PoolParts), {}) BY <2>2, <2>3, Opening
  <2>5. Range(PoolParts) = PoolAll BY DEF Range, PoolParts, PoolAll
  <2> QED BY <2>4, <2>5
<1>2. cpool_destroy => Closes(PoolAll) BY Closing DEF cpool_destroy, PoolAll
<1>3. \A t, size : cpool_malloc(t, size) => Still BY StillSteps DEF cpool_malloc, Refuse
<1>4. \A t : cpool_calloc(t, 1, 3) => Still BY <1>3, StillSteps DEF cpool_calloc, Refuse
<1>5. \A t, p : cpool_free(t, p) => Still BY StillSteps DEF cpool_free, Refuse
<1>6. \A t, b : cpool_realloc(t, b, 2) => Still BY <1>5, StillSteps DEF cpool_realloc, Refuse
<1>7. \A t : PopSteps(t) => Still BY StillSteps DEF PopSteps, Return
<1>8. \A t : PopCas(t) \/ Wipe(t) => Still BY StillSteps DEF PopCas, Wipe
<1>9. \A t : PushSteps(t) => Still BY StillSteps DEF PushSteps, Return
<1> QED BY <1>1, <1>2, <1>3, <1>4, <1>5, <1>6, <1>7, <1>8, <1>9 DEF CPoolNext, Frame

LEMMA SlabRange == Range(SlabParts) = SlabAll
<1>1. Buckets = {1, 2} BY BucketFacts
<1>2. SlabAll = {<<"chunk", 1>>, <<"chunk", 2>>, Pools, Sizes, State, Vtable} BY <1>1 DEF SlabAll
<1>3. Range(SlabParts) = {State, Sizes, Pools, <<"chunk", 1>>, <<"chunk", 2>>, Vtable} BY DEF Range, SlabParts
<1> QED BY <1>2, <1>3

LEMMA SlabFrame ==
  ASSUME SlabNext
  PROVE  Frame(SlabAll, {})
<1>1. ASSUME NEW got, slab_create(got) PROVE Opens(SlabAll, {})
  <2>1. PICK s : s = [pool |-> [b \in Buckets |-> slab_pool_init(b)], dirty |-> {}] OBVIOUS
  <2>2. "phase" \notin DOMAIN s BY <2>1
  <2>3. Create(SlabParts, got, {}, s) BY <1>1, <2>1 DEF slab_create
  <2> QED BY <2>2, <2>3, Opening, SlabRange
<1>2. slab_destroy => Closes(SlabAll) BY Closing DEF slab_destroy, SlabAll
<1>3. \A size, align : slab_malloc(size, align) => Still BY StillSteps DEF slab_malloc, Nothing
<1>4. \A n : slab_calloc(n, 2) => Still BY <1>3, StillSteps DEF slab_calloc, Nothing
<1>5. \A b : slab_free(b) => Still BY StillSteps DEF slab_free
<1>6. \A b, size : slab_realloc(b, size) => Still BY <1>5, StillSteps DEF slab_realloc, Nothing
<1> QED BY <1>1, <1>2, <1>3, <1>4, <1>5, <1>6 DEF SlabNext, Frame

LEMMA CSlabFrame ==
  ASSUME CSlabNext
  PROVE  Frame(SlabAll, {})
<1>1. ASSUME NEW got, cslab_create(got) PROVE Opens(SlabAll, {})
  <2>1. PICK s : s = [pool |-> [b \in Buckets |-> cslab_pool_init(b)], dirty |-> {}] OBVIOUS
  <2>2. "phase" \notin DOMAIN s BY <2>1
  <2>3. Create(SlabParts, got, {}, s) BY <1>1, <2>1 DEF cslab_create
  <2> QED BY <2>2, <2>3, Opening, SlabRange
<1>2. cslab_destroy => Closes(SlabAll) BY Closing DEF cslab_destroy, slab_destroy, SlabAll
<1>3. \A t, size : cslab_malloc(t, size) => Still BY StillSteps DEF cslab_malloc, Refuse
<1>4. \A t : cslab_calloc(t, 1, 3) => Still BY <1>3, StillSteps DEF cslab_calloc, Refuse
<1>5. \A t, b : cslab_free(t, b) => Still BY StillSteps DEF cslab_free
<1>6. \A t, b, size : cslab_realloc(t, b, size) => Still BY <1>5, StillSteps DEF cslab_realloc, Refuse
<1>7. \A t : CSlabSteps(t) => Still BY StillSteps DEF CSlabSteps, Return
<1> QED BY <1>1, <1>2, <1>3, <1>4, <1>5, <1>6, <1>7 DEF CSlabNext, Frame

LEMMA CArenaFrame ==
  ASSUME CArenaNext
  PROVE  Frame(CArenaAll, {})
<1>1. ASSUME NEW got, NEW hash, carena_create(got, hash) PROVE Opens(CArenaAll, {})
  <2>1. PICK s : s = [shard |-> [i \in Shards |-> carena_shard_init(i)], shardOf |-> hash, total |-> 2 * ArenaCap,
                      raced |-> FALSE]
    OBVIOUS
  <2>2. "phase" \notin DOMAIN s BY <2>1
  <2>3. PICK parts : parts = <<State, <<"buffer", 1>>, <<"buffer", 2>>, Vtable>> OBVIOUS
  <2>4. Create(parts, got, {}, s) BY <1>1, <2>1, <2>3 DEF carena_create
  <2>5. Range(parts) = {State, <<"buffer", 1>>, <<"buffer", 2>>, Vtable} BY <2>3 DEF Range
  <2>6. Shards = {1, 2} BY DEF Shards
  <2>7. CArenaAll = {<<"buffer", 1>>, <<"buffer", 2>>, State, Vtable} BY <2>6 DEF CArenaAll
  <2>8. Range(parts) = CArenaAll BY <2>5, <2>7
  <2> QED BY <2>2, <2>4, <2>8, Opening
<1>2. carena_destroy => Closes(CArenaAll) BY Closing DEF carena_destroy, CArenaAll
<1>3. \A t, size, align : carena_malloc(t, size, align) => Still BY StillSteps DEF carena_malloc, Refuse
<1>4. \A t : carena_calloc(t, 1, 2) => Still BY <1>3, StillSteps DEF carena_calloc, Refuse
<1>5. \A t, b : carena_free(t, b) \/ carena_realloc(t, b, 3) => Still
  BY <1>3, StillSteps DEF carena_free, carena_realloc
<1>6. \A t : carena_reset(t) \/ ResetShard(t) => Still BY StillSteps DEF carena_reset, ResetShard
<1>7. \A t : ShardGrow(t) => Still BY StillSteps DEF ShardGrow, Return
<1> QED BY <1>1, <1>2, <1>3, <1>4, <1>5, <1>6, <1>7 DEF CArenaNext, Frame

\* Where a step leaves the allocator's state.
LEMMA StateSteps ==
  /\ \A s, B : Call(s, B) => al' = s
  /\ \A t, s, B, r : Begin(t, s, B, r) => al' = s
  /\ \A t, s, r : Step(t, s, r) => al' = s
  /\ \A t, s, B, r : Finish(t, s, B, r) => al' = s
BY DEF Call, Begin, Step, Finish

BuddyFields == {"free", "header", "align"}
CBuddyFields == {"stack", "word", "lost", "size", "spilled"}

LEMMA BuddyRange == Range(<<State, Memory, Vtable>>) = BuddyAll
BY DEF Range, BuddyAll

LEMMA BuddyFrame ==
  ASSUME BuddyNext, Up => DOMAIN al = BuddyFields
  PROVE  /\ Frame(BuddyAll, {})
         /\ (~Up /\ al' = Gone) \/ buddy_destroy \/ DOMAIN al' = BuddyFields
<1>1. ASSUME NEW got, NEW align, buddy_create(got, align)
      PROVE  Opens(BuddyAll, {}) /\ ~Up /\ (al' = Gone \/ DOMAIN al' = BuddyFields)
  <2>1. PICK s : s = [free |-> [o \in Orders |-> IF o = MaxOrder THEN <<0>> ELSE <<>>],
                      header |-> [a \in {} |-> 0], align |-> align]
    OBVIOUS
  <2>2. DOMAIN s = BuddyFields BY <2>1 DEF BuddyFields
  <2>3. "phase" \notin DOMAIN s BY <2>2 DEF BuddyFields
  <2>4. Create(<<State, Memory, Vtable>>, got, {}, s) BY <1>1, <2>1 DEF buddy_create
  <2>5. ~Up /\ (al' = Gone \/ al' = s) BY <2>4 DEF Create, Up
  <2> QED BY <2>2, <2>3, <2>4, <2>5, Opening, BuddyRange
<1>2. buddy_destroy => Closes(BuddyAll) BY Closing DEF buddy_destroy, BuddyAll
<1>3. CASE Up
  <2>0. DOMAIN al = BuddyFields BY <1>3
  <2>1. \A s, size : DOMAIN BuddyTake(s, size).s = DOMAIN s
    <3> SUFFICES ASSUME NEW s, NEW size PROVE DOMAIN BuddyTake(s, size).s = DOMAIN s OBVIOUS
    <3>1. \A f, h : DOMAIN [s EXCEPT !.free = f, !.header = h] = DOMAIN s OBVIOUS
    <3> QED BY <3>1 DEF BuddyTake
  <2>2. \A s, p : DOMAIN BuddyGive(s, p) = DOMAIN s BY DEF BuddyGive
  <2>3. \A size, align : buddy_malloc(size, align) => Still /\ DOMAIN al' = BuddyFields
    BY <2>0, <2>1, StillSteps, StateSteps DEF buddy_malloc, Nothing
  <2>4. \A n, align : buddy_calloc(n, 16, align) => Still /\ DOMAIN al' = BuddyFields
    BY <2>0, <2>3, StillSteps, StateSteps DEF buddy_calloc, Nothing
  <2>5. \A b : buddy_free(b) => Still /\ DOMAIN al' = BuddyFields
    BY <2>0, <2>2, StillSteps, StateSteps DEF buddy_free
  <2>6. \A b, size, align : buddy_realloc(b, size, align) => Still /\ DOMAIN al' = BuddyFields
    BY <2>0, <2>1, <2>2, <2>5, StillSteps, StateSteps DEF buddy_realloc, Nothing
  <2> QED BY <1>1, <1>2, <1>3, <2>3, <2>4, <2>5, <2>6 DEF BuddyNext, Frame
<1>4. CASE ~Up BY <1>1, <1>2, <1>4 DEF BuddyNext, Frame
<1> QED BY <1>3, <1>4

LEMMA CBuddyFrame ==
  ASSUME CBuddyNext, Up => DOMAIN al = CBuddyFields
  PROVE  /\ Frame(BuddyAll, {})
         /\ (~Up /\ al' = Gone) \/ cbuddy_destroy \/ DOMAIN al' = CBuddyFields
<1>1. ASSUME NEW got, NEW size, cbuddy_create(got, size)
      PROVE  Opens(BuddyAll, {}) /\ ~Up /\ (al' = Gone \/ DOMAIN al' = CBuddyFields)
  <2>1. PICK s : s = [stack |-> [o \in Orders |-> [lo |-> IF o = MaxOrder THEN 0 ELSE Null,
                                                   hi |-> IF o = MaxOrder THEN 1 ELSE 0]],
                      word |-> [a \in Words |-> Null], lost |-> {}, size |-> size, spilled |-> FALSE]
    OBVIOUS
  <2>2. DOMAIN s = CBuddyFields BY <2>1 DEF CBuddyFields
  <2>3. "phase" \notin DOMAIN s BY <2>2 DEF CBuddyFields
  <2>4. Create(<<State, Memory, Vtable>>, got, {}, s) BY <1>1, <2>1 DEF cbuddy_create
  <2>5. ~Up /\ (al' = Gone \/ al' = s) BY <2>4 DEF Create, Up
  <2> QED BY <2>2, <2>3, <2>4, <2>5, Opening, BuddyRange
<1>2. cbuddy_destroy => Closes(BuddyAll) BY Closing DEF cbuddy_destroy, BuddyAll
<1>3. CASE Up
  <2> DEFINE Same == Still /\ DOMAIN al' = CBuddyFields
  <2>0. DOMAIN al = CBuddyFields BY <1>3
  <2>1. /\ \A t, B, r : Begin(t, al, B, r) => Same
        /\ \A t, r : Step(t, al, r) => Same
        /\ \A t, B : Return(t, al, B) => Same
    BY <2>0, StillSteps, StateSteps DEF Return
  <2>2. /\ \A t, s, B, r : Begin(t, s, B, r) /\ DOMAIN s = DOMAIN al => Same
        /\ \A t, s, r : Step(t, s, r) /\ DOMAIN s = DOMAIN al => Same
        /\ \A t, s, B : Return(t, s, B) /\ DOMAIN s = DOMAIN al => Same
    BY <2>0, StillSteps, StateSteps DEF Return
  <2> HIDE DEF Same
  <2>3. \A t, size, align : cbuddy_malloc(t, size, align) => Same BY <2>1 DEF cbuddy_malloc, Refuse
  <2>4. \A t, align : cbuddy_calloc(t, 1, 16, align) => Same BY <2>1, <2>3 DEF cbuddy_calloc, Refuse
  <2>5. \A t, b : cbuddy_free(t, b) => Same BY <2>1 DEF cbuddy_free
  <2>6. ASSUME NEW t, NEW b, NEW size, NEW align, cbuddy_realloc(t, b, size, align) PROVE Same
    <3>1. PICK s : s = [al EXCEPT !.lost = @ \cup {Piece(b)}] OBVIOUS
    <3>2. DOMAIN s = DOMAIN al BY <3>1
    <3> QED BY <2>1, <2>2, <2>6, <3>1, <3>2 DEF cbuddy_realloc, Refuse
  <2>7. ASSUME NEW t, CBuddyPop(t) PROVE Same
    <3>1. \A head : Popped(t, head) => Same BY <2>1 DEF Popped
    <3>2. PICK s : s = [al EXCEPT !.stack[loc[t].o] = [lo |-> loc[t].next, hi |-> @.hi + 1]] OBVIOUS
    <3>3. DOMAIN s = DOMAIN al BY <3>2
    <3> QED BY <2>1, <2>2, <2>7, <3>1, <3>2, <3>3 DEF CBuddyPop
  <2>8. \A t : CBuddySplit(t) => Same BY <2>1 DEF CBuddySplit
  <2>8a. \A s, end : DOMAIN Spill(s, end) = DOMAIN s BY DEF Spill
  <2>9. ASSUME NEW t, CBuddyHeader(t) PROVE Same
    <3>0. PICK v : v = [al EXCEPT !.word[loc[t].at] = loc[t].want] OBVIOUS
    <3>1. PICK s : s = Spill(v, loc[t].at + Header + loc[t].size) OBVIOUS
    <3>2. DOMAIN s = DOMAIN al BY <2>8a, <3>0, <3>1
    <3>3. PICK r : r = [s EXCEPT !.lost = @ \cup {Piece(loc[t].old[1])}] OBVIOUS
    <3>4. DOMAIN r = DOMAIN al BY <3>2, <3>3
    <3>5. PICK B : B = live \cup {Block(0, loc[t].at + Header, loc[t].size, loc[t].align)} OBVIOUS
    <3>6. Return(t, IF loc[t].old = <<>> THEN s ELSE r, B) BY <2>9, <3>0, <3>1, <3>3, <3>5 DEF CBuddyHeader
    <3>7. Return(t, s, B) \/ Return(t, r, B) BY <3>6
    <3> QED BY <2>2, <3>2, <3>4, <3>7
  <2>10. ASSUME NEW t, CBuddyPush(t) PROVE Same
    <3>0. PICK v : v = [al EXCEPT !.word[loc[t].p] = loc[t].head.lo] OBVIOUS
    <3>1. PICK s : s = Spill(v, loc[t].p + Header) OBVIOUS
    <3>2. DOMAIN s = DOMAIN al BY <2>8a, <3>0, <3>1
    <3>3. PICK r : r = [al EXCEPT !.stack[loc[t].o] = [lo |-> loc[t].p, hi |-> @.hi + 1]] OBVIOUS
    <3>4. DOMAIN r = DOMAIN al BY <3>3
    <3>5. \/ Step(t, s, To("putCas"))
          \/ Step(t, al, [pc |-> "put", head |-> al.stack[loc[t].o]])
          \/ Return(t, r, live) \/ Step(t, r, To("split"))
      BY <2>10, <3>0, <3>1, <3>3 DEF CBuddyPush
    <3> QED BY <2>1, <2>2, <3>2, <3>4, <3>5
  <2>11. Frame(BuddyAll, {}) /\ (cbuddy_destroy \/ Same)
    BY <1>1, <1>2, <1>3, <2>3, <2>4, <2>5, <2>6, <2>7, <2>8, <2>9, <2>10 DEF CBuddyNext, Frame, Same
  <2> QED BY <2>11 DEF Same
<1>4. CASE ~Up BY <1>1, <1>2, <1>4 DEF CBuddyNext, Frame
<1> QED BY <1>3, <1>4

LEMMA ArenaKind ==
  ASSUME ArenaNext
  PROVE  kind' = kind /\ al # Gone
<1> DEFINE Same == kind' = kind /\ al # Gone
<1>0. \A s, B : Call(s, B) => Same BY DEF Call, Up
<1>1. \A got : arena_create(got) => Same
  <2>1. NotYet # Gone
    <3>1. NotYet.phase = "before create" /\ Gone.phase = "destroyed" BY DEF NotYet, Gone
    <3> QED BY <3>1
  <2> QED BY <2>1 DEF arena_create, Create
<1>2. arena_destroy => Same BY DEF arena_destroy, Destroy, Up
<1>3. ASSUME NEW size, NEW align, NEW mem, arena_malloc(size, align, mem) PROVE Same
  <2>1. Nothing => Same BY <1>0 DEF Nothing
  <2>2. Up /\ kind' = kind => Same BY DEF Up
  <2> HIDE DEF Same
  <2> QED BY <1>0, <1>3, <2>1, <2>2 DEF arena_malloc
<1> HIDE DEF Same
<1>4. \A n, mem : arena_calloc(n, 2, mem) => Same BY <1>0, <1>3 DEF arena_calloc, Nothing
<1>5. \A b : arena_free(b) => Same BY <1>0 DEF arena_free
<1>6. \A b, mem : arena_realloc(b, 3, mem) => Same BY <1>3 DEF arena_realloc
<1>7. arena_reset => Same BY <1>0 DEF arena_reset
<1>8. Same BY <1>1, <1>2, <1>3, <1>4, <1>5, <1>6, <1>7 DEF ArenaNext
<1> QED BY <1>8 DEF Same

-----------------------------------------------------------------------------
(* The whole. Sound is what holds of an allocator in use.                  *)

Sound ==
  /\ kind = "pool" => PoolGood(al, live)
  /\ kind = "cpool" => CPoolInv(al, live, loc)
  /\ kind = "slab" => SlabInv(al, live)
  /\ kind = "cslab" => CSlabInv(al, live, loc)
  /\ kind = "arena" => ArenaInv(al, live, owed)
  /\ kind = "carena" => CArenaInv(al, live, loc)
  /\ kind = "buddy" => DOMAIN al = BuddyFields
  /\ kind = "cbuddy" => DOMAIN al = CBuddyFields
AllKinds == {"pool", "cpool", "slab", "cslab", "arena", "carena", "buddy", "cbuddy"}
AllParts(k) ==
  IF k \in {"pool", "cpool"} THEN PoolAll
  ELSE IF k \in {"slab", "cslab"} THEN SlabAll
  ELSE IF k \in {"buddy", "cbuddy"} THEN BuddyAll ELSE CArenaAll
Leaks(k) == IF k = "pool" THEN {Bitmap} ELSE {}
AllocInv ==
  /\ al = NotYet => live = {} /\ owed = {} /\ calls = 0 /\ loc = [t \in Threads |-> Idle]
  /\ Up => Sound /\ kind \in AllKinds /\ "phase" \notin DOMAIN al /\ (kind # "arena" => owed = AllParts(kind))
  /\ AllGivenBack

LEMMA Phases == NotYet # Gone /\ DOMAIN NotYet = {"phase"} /\ DOMAIN Gone = {"phase"}
<1>1. NotYet.phase = "before create" /\ Gone.phase = "destroyed" BY DEF NotYet, Gone
<1>2. NotYet # Gone BY <1>1
<1> QED BY <1>2 DEF NotYet, Gone

\* A step of an allocator that is no arena.
LEMMA Onward ==
  ASSUME AllocInv, kind \in AllKinds, kind # "arena", NEW P, P = AllParts(kind), Frame(P, Leaks(kind)),
         (~Up /\ al' = Gone) \/ Closes(P) \/ (Sound' /\ "phase" \notin DOMAIN al')
  PROVE  AllocInv'
<1> USE Phases
<1>0. kind' = kind BY DEF Frame, Opens, Closes, Still
<1>1. CASE Closes(P)
  <2>1. Up /\ al' = Gone /\ owed' = owed \ P BY <1>1 DEF Closes
  <2>2. owed = P BY <2>1 DEF AllocInv
  <2>3. owed' = {} BY <2>1, <2>2
  <2>4. AllGivenBack' BY <2>3 DEF AllGivenBack
  <2>5. al' # NotYet /\ ~Up' BY <2>1 DEF Up
  <2> QED BY <2>4, <2>5 DEF AllocInv
<1>2. CASE Opens(P, Leaks(kind)) /\ al' = Gone
  <2>1. al = NotYet /\ calls' = calls /\ owed' \subseteq Leaks(kind)
    BY <1>2 DEF Opens
  <2>2. calls' = 0 BY <2>1 DEF AllocInv
  <2>3. AllGivenBack' BY <1>0, <2>1, <2>2 DEF AllGivenBack, Leaks
  <2>4. al' # NotYet /\ ~Up' BY <1>2 DEF Up
  <2> QED BY <2>3, <2>4 DEF AllocInv
<1>3. CASE (Opens(P, Leaks(kind)) /\ al' # Gone) \/ (Up /\ Still /\ ~Closes(P))
  <2>1. Sound' /\ "phase" \notin DOMAIN al'
    <3>1. al' # Gone \/ Up BY <1>3
    <3>2. Closes(P) => Up BY DEF Closes
    <3>3. Opens(P, Leaks(kind)) => ~Up BY DEF Opens, Up
    <3> QED BY <1>3, <3>1, <3>2, <3>3
  <2>2. al' # NotYet /\ al' # Gone BY <2>1
  <2>3. owed' = P
    <3>1. CASE Opens(P, Leaks(kind)) /\ al' # Gone BY <3>1 DEF Opens
    <3>2. CASE Up /\ Still BY <3>2 DEF Still, AllocInv
    <3> QED BY <1>3, <3>1, <3>2
  <2>4. owed' = AllParts(kind') BY <1>0, <2>3
  <2>5. AllGivenBack' BY <2>2 DEF AllGivenBack
  <2>6. kind' \in AllKinds BY <1>0
  <2> QED BY <2>1, <2>2, <2>4, <2>5, <2>6 DEF AllocInv
<1> QED BY <1>1, <1>2, <1>3 DEF Frame, Opens

LEMMA AllocInductive ==
  ASSUME AllocInv, [Next]_vars
  PROVE  AllocInv'
<1> USE Phases
<1>1. CASE UNCHANGED vars
  <2>1. /\ al' = al /\ live' = live /\ owed' = owed /\ calls' = calls /\ loc' = loc /\ kind' = kind
    BY <1>1 DEF vars
  <2>2. (Up' <=> Up) /\ (Sound' <=> Sound) /\ (AllGivenBack' <=> AllGivenBack)
    BY <2>1 DEF Up, Sound, AllGivenBack
  <2> QED BY <2>1, <2>2 DEF AllocInv
<1>2. Ended => UNCHANGED vars BY DEF Ended
<1>3. /\ al = NotYet => live = {} /\ DOMAIN loc = Threads /\ \A t \in Threads : loc[t] = Idle
      /\ Up => Sound
  BY DEF AllocInv
<1>4. \A P, L : Frame(P, L) => al # Gone /\ (al = NotYet \/ Up) /\ kind' = kind
  BY DEF Frame, Opens, Closes, Up, Still
<1>5. CASE kind = "pool" /\ PoolNext
  <2>1. Frame(PoolAll, {Bitmap}) BY <1>5, PoolFrame
  <2>2. PoolAll = AllParts(kind) /\ {Bitmap} = Leaks(kind) BY <1>5 DEF AllParts, Leaks
  <2>3. (~Up /\ al' = Gone) \/ pool_destroy \/ PoolGood(al', live') BY <1>3, <1>5, PoolSteps DEF Sound
  <2>4. pool_destroy => Closes(PoolAll) BY Closing DEF pool_destroy, PoolAll
  <2>5. kind' = "pool" BY <1>4, <1>5, <2>1
  <2>6. PoolGood(al', live') => Sound' BY <2>5 DEF Sound
  <2>7. PoolGood(al', live') => "phase" \notin DOMAIN al' BY DEF PoolGood
  <2> QED BY <1>5, <2>1, <2>2, <2>3, <2>4, <2>6, <2>7, Onward DEF AllKinds
<1>6. CASE kind = "cpool" /\ CPoolNext
  <2>1. Frame(PoolAll, {}) BY <1>6, CPoolFrame
  <2>2. PoolAll = AllParts(kind) /\ {} = Leaks(kind) BY <1>6 DEF AllParts, Leaks
  <2>3. DOMAIN loc = Threads /\ (Up => CPoolInv(al, live, loc))
    BY <1>3, <1>4, <1>6, <2>1 DEF Sound, CPoolInv, CPoolGood
  <2>4. (~Up /\ al' = Gone) \/ cpool_destroy \/ CPoolInv(al', live', loc') BY <1>3, <1>6, <2>3, CPoolSteps
  <2>5. cpool_destroy => Closes(PoolAll) BY Closing DEF cpool_destroy, PoolAll
  <2>6. kind' = "cpool" BY <1>4, <1>6, <2>1
  <2>7. CPoolInv(al', live', loc') => Sound' BY <2>6 DEF Sound
  <2>8. CPoolInv(al', live', loc') => "phase" \notin DOMAIN al' BY DEF CPoolInv, CPoolGood, CPoolShape
  <2> QED BY <1>6, <2>1, <2>2, <2>4, <2>5, <2>7, <2>8, Onward DEF AllKinds
<1>7. CASE kind = "slab" /\ SlabNext
  <2>1. Frame(SlabAll, {}) BY <1>7, SlabFrame
  <2>2. SlabAll = AllParts(kind) /\ {} = Leaks(kind) BY <1>7 DEF AllParts, Leaks
  <2>3. (~Up /\ al' = Gone) \/ slab_destroy \/ SlabInv(al', live') BY <1>3, <1>7, SlabSteps DEF Sound
  <2>4. slab_destroy => Closes(SlabAll) BY Closing DEF slab_destroy, SlabAll
  <2>5. kind' = "slab" BY <1>4, <1>7, <2>1
  <2>6. SlabInv(al', live') => Sound' BY <2>5 DEF Sound
  <2>7. SlabInv(al', live') => "phase" \notin DOMAIN al' BY DEF SlabInv, SlabGood, SlabShape
  <2> QED BY <1>7, <2>1, <2>2, <2>3, <2>4, <2>6, <2>7, Onward DEF AllKinds
<1>8. CASE kind = "cslab" /\ CSlabNext
  <2>1. Frame(SlabAll, {}) BY <1>8, CSlabFrame
  <2>2. SlabAll = AllParts(kind) /\ {} = Leaks(kind) BY <1>8 DEF AllParts, Leaks
  <2>3. DOMAIN loc = Threads /\ (Up => CSlabInv(al, live, loc))
    BY <1>3, <1>4, <1>8, <2>1 DEF Sound, CSlabInv
  <2>4. (~Up /\ al' = Gone) \/ cslab_destroy \/ CSlabInv(al', live', loc') BY <1>3, <1>8, <2>3, CSlabNextSteps
  <2>5. cslab_destroy => Closes(SlabAll) BY Closing DEF cslab_destroy, slab_destroy, SlabAll
  <2>6. kind' = "cslab" BY <1>4, <1>8, <2>1
  <2>7. CSlabInv(al', live', loc') => Sound' BY <2>6 DEF Sound
  <2>8. CSlabInv(al', live', loc') => "phase" \notin DOMAIN al' BY DEF CSlabInv, SlabGood, SlabShape
  <2> QED BY <1>8, <2>1, <2>2, <2>4, <2>5, <2>7, <2>8, Onward DEF AllKinds
<1>9. CASE kind = "carena" /\ CArenaNext
  <2>1. Frame(CArenaAll, {}) BY <1>9, CArenaFrame
  <2>2. CArenaAll = AllParts(kind) /\ {} = Leaks(kind) BY <1>9 DEF AllParts, Leaks
  <2>3. DOMAIN loc = Threads /\ (Up => CArenaInv(al, live, loc))
    BY <1>3, <1>4, <1>9, <2>1 DEF Sound, CArenaInv
  <2>4. (~Up /\ al' = Gone) \/ carena_destroy \/ CArenaInv(al', live', loc') BY <1>3, <1>9, <2>3, CArenaSteps
  <2>5. carena_destroy => Closes(CArenaAll) BY Closing DEF carena_destroy, CArenaAll
  <2>6. kind' = "carena" BY <1>4, <1>9, <2>1
  <2>7. CArenaInv(al', live', loc') => Sound' BY <2>6 DEF Sound
  <2>8. CArenaInv(al', live', loc') => "phase" \notin DOMAIN al' BY DEF CArenaInv, ShardsShape
  <2> QED BY <1>9, <2>1, <2>2, <2>4, <2>5, <2>7, <2>8, Onward DEF AllKinds
<1>10. CASE kind = "buddy" /\ BuddyNext
  <2>1. BuddyAll = AllParts(kind) /\ {} = Leaks(kind) BY <1>10 DEF AllParts, Leaks
  <2>2. Up => DOMAIN al = BuddyFields BY <1>3, <1>10 DEF Sound
  <2>3. Frame(BuddyAll, {}) /\ ((~Up /\ al' = Gone) \/ buddy_destroy \/ DOMAIN al' = BuddyFields)
    BY <1>10, <2>2, BuddyFrame
  <2>4. buddy_destroy => Closes(BuddyAll) BY Closing DEF buddy_destroy, BuddyAll
  <2>5. kind' = "buddy" BY <1>4, <1>10, <2>3
  <2>6. DOMAIN al' = BuddyFields => Sound' BY <2>5 DEF Sound
  <2>7. DOMAIN al' = BuddyFields => "phase" \notin DOMAIN al' BY DEF BuddyFields
  <2> QED BY <1>10, <2>1, <2>3, <2>4, <2>6, <2>7, Onward DEF AllKinds
<1>11. CASE kind = "cbuddy" /\ CBuddyNext
  <2>1. BuddyAll = AllParts(kind) /\ {} = Leaks(kind) BY <1>11 DEF AllParts, Leaks
  <2>2. Up => DOMAIN al = CBuddyFields BY <1>3, <1>11 DEF Sound
  <2>3. Frame(BuddyAll, {}) /\ ((~Up /\ al' = Gone) \/ cbuddy_destroy \/ DOMAIN al' = CBuddyFields)
    BY <1>11, <2>2, CBuddyFrame
  <2>4. cbuddy_destroy => Closes(BuddyAll) BY Closing DEF cbuddy_destroy, BuddyAll
  <2>5. kind' = "cbuddy" BY <1>4, <1>11, <2>3
  <2>6. DOMAIN al' = CBuddyFields => Sound' BY <2>5 DEF Sound
  <2>7. DOMAIN al' = CBuddyFields => "phase" \notin DOMAIN al' BY DEF CBuddyFields
  <2> QED BY <1>11, <2>1, <2>3, <2>4, <2>6, <2>7, Onward DEF AllKinds
<1>12. CASE kind = "arena" /\ ArenaNext
  <2>1. kind' = "arena" BY <1>12, ArenaKind
  <2>2. al = NotYet => live = {} /\ owed = {} BY DEF AllocInv
  <2>3. Up => ArenaInv(al, live, owed) BY <1>3, <1>12 DEF Sound
  <2>4. (al' = Gone /\ owed' = {}) \/ ArenaInv(al', live', owed') BY <1>12, <2>2, <2>3, ArenaSteps
  <2>5. CASE al' = Gone /\ owed' = {}
    <3>1. al' # NotYet /\ ~Up' BY <2>5 DEF Up
    <3> QED BY <2>5, <3>1 DEF AllocInv, AllGivenBack
  <2>6. CASE ArenaInv(al', live', owed')
    <3>1. "phase" \notin DOMAIN al' BY <2>6 DEF ArenaInv, ArenaShape
    <3>2. al' # NotYet /\ al' # Gone BY <3>1
    <3>3. Sound' BY <2>1, <2>6 DEF Sound
    <3> QED BY <2>1, <3>1, <3>2, <3>3 DEF AllocInv, AllGivenBack, AllKinds
  <2> QED BY <2>4, <2>5, <2>6
<1> QED BY <1>1, <1>2, <1>5, <1>6, <1>7, <1>8, <1>9, <1>10, <1>11, <1>12 DEF Next

\* The inductive invariant: before create nobody has anything; in use the state
\* of the kind is Sound and all its parts are held; destroyed, all are given back.
THEOREM AllocatorsInvariant == Spec => []AllocInv
<1>1. Init => AllocInv
  <2>1. NotYet # Gone BY Phases
  <2> QED BY <2>1 DEF Init, AllocInv, Up, AllGivenBack
<1>2. AllocInv /\ [Next]_vars => AllocInv' BY AllocInductive
<1> QED BY <1>1, <1>2, PTL DEF Spec

\* BlocksApart: pool, cpool, slab, cslab, arena and carena never give two
\* callers overlapping memory, nor memory outside their own, nor a block they
\* still have in a list or on its way; for any number and size of blocks and any
\* number of threads. (buddy and cbuddy stay with TLC.)
THEOREM CallersApart == Spec => [](kind \notin {"buddy", "cbuddy"} => BlocksApart)
<1>1. AllocInv => (kind \notin {"buddy", "cbuddy"} => BlocksApart)
  <2> SUFFICES ASSUME AllocInv, kind \notin {"buddy", "cbuddy"}, Up PROVE BlocksApart BY DEF BlocksApart
  <2>1. Sound /\ kind \in {"pool", "cpool", "slab", "cslab", "arena", "carena"} BY DEF AllocInv, AllKinds
  <2>2. CASE kind = "pool" BY <2>1, <2>2, PoolSays DEF Sound
  <2>3. CASE kind = "cpool" BY <2>1, <2>3, CPoolSays DEF Sound
  <2>4. CASE kind = "slab" BY <2>1, <2>4, SlabSays DEF Sound
  <2>5. CASE kind = "cslab" BY <2>1, <2>5, CSlabSays DEF Sound
  <2>6. CASE kind = "arena" BY <2>1, <2>6, ArenasSay DEF Sound
  <2>7. CASE kind = "carena" BY <2>1, <2>7, ArenasSay DEF Sound
  <2> QED BY <2>1, <2>2, <2>3, <2>4, <2>5, <2>6, <2>7
<1> QED BY <1>1, AllocatorsInvariant, PTL

\* BlocksConserved: a block of pool, cpool, slab or cslab is with one caller, in
\* its list once or with one thread on its way; the bits and counts agree when no
\* call is running, and what is free has been wiped.  So no block is lost and
\* none handed out twice, whoever frees twice and however the exchanges of
\* several threads interleave.  (cbuddy, whose pieces add up to its pool, stays
\* with TLC.)
THEOREM NoBlockLost == Spec => [](kind # "cbuddy" => BlocksConserved)
<1>1. AllocInv => (kind # "cbuddy" => BlocksConserved)
  <2> SUFFICES ASSUME AllocInv, kind # "cbuddy" PROVE BlocksConserved OBVIOUS
  <2>1. CASE ~Up BY <2>1 DEF BlocksConserved, BlocksCounted, WipedFirst
  <2>2. CASE Up
    <3>1. Sound BY <2>2 DEF AllocInv
    <3>2. CASE kind = "pool"
      <4>1. InOnePlace /\ ListsRight BY <3>1, <3>2, PoolSays DEF Sound
      <4> QED BY <3>2, <4>1 DEF BlocksConserved, BlocksCounted, WipedFirst
    <3>3. CASE kind = "cpool"
      <4>1. InOnePlace /\ ListsRight /\ \A x \in FreeAreas : x.at \notin al.dirty
        BY <3>1, <3>3, CPoolSays DEF Sound
      <4> QED BY <3>3, <4>1 DEF BlocksConserved, BlocksCounted, WipedFirst
    <3>4. CASE kind = "slab"
      <4>1. InOnePlace /\ ListsRight BY <3>1, <3>4, SlabSays DEF Sound
      <4> QED BY <3>4, <4>1 DEF BlocksConserved, BlocksCounted, WipedFirst
    <3>5. CASE kind = "cslab"
      <4>1. InOnePlace /\ ListsRight /\ \A x \in FreeAreas : <<x.buf, x.at>> \notin al.dirty
        BY <3>1, <3>5, CSlabSays DEF Sound
      <4> QED BY <3>5, <4>1 DEF BlocksConserved, BlocksCounted, WipedFirst
    <3>6. CASE kind \notin Fixed BY <3>6 DEF BlocksConserved, BlocksCounted, WipedFirst, Fixed
    <3> QED BY <3>2, <3>3, <3>4, <3>5, <3>6 DEF Fixed
  <2> QED BY <2>1, <2>2
<1> QED BY <1>1, AllocatorsInvariant, PTL

\* BackingReturned: a creation that fails after any of its allocations, and a
\* destruction, give back every part taken from the backing allocator (but for
\* the bitmap of pool_create's last failure), for all eight allocators, the
\* buffers added to an arena's chain included.  (That an arena's total is the sum
\* of its buffers stays with TLC.)
THEOREM PartsGivenBack ==
  Spec => [](AllGivenBack /\ (kind \notin {"arena", "carena"} => BackingReturned))
<1>1. AllocInv => AllGivenBack /\ (kind \notin {"arena", "carena"} => BackingReturned)
  BY DEF AllocInv, BackingReturned, ArenaWithinLimit
<1> QED BY <1>1, AllocatorsInvariant, PTL

=============================================================================
