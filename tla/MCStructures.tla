---------------------------- MODULE MCStructures ----------------------------
(***************************************************************************)
(* libs/structures in one state graph, one component of it each: the       *)
(* sequence containers, the index structures, and the maps and caches.     *)
(***************************************************************************)
EXTENDS Calls, SequencesExt

CONSTANTS Values, ShardLen, DirGrow,
          MaxElems,  \* MaxCount of the containers over one block
          MaxNodes,  \* MaxCount of the lists
          IndexKeys, MaxHeap, Length, MaxTotal, MaxEdges,
          MaxKey, MaxHashKey, MaxTreeKey, MaxBtreeKey, MaxCap, MaxLevel, Degree

R == INSTANCE Rings WITH MaxCount <- MaxElems
L == INSTANCE Lists WITH MaxCount <- MaxNodes
X == INSTANCE Indexes WITH Keys <- IndexKeys

RingKinds == {"queue", "deque", "cdeque", "ringbuf", "cringbuf"}
ListKinds == {"slist", "dlist", "cdlist"}
FixedSize == {"cdeque", "ringbuf", "cringbuf"}
Graphs == {"graph", "cgraph"}
SeqKinds == RingKinds \cup ListKinds \cup {"array", "stack", "sharded_array", "csa"}
IndexKinds == {"heap", "cheap", "fenwick", "cfenwick", "segtree", "csegtree", "sparse", "unionfind",
               "bloom"} \cup Graphs
Trees == {"bst", "cbst", "avl", "cavl", "rbtree", "crbtree"}
Caches == {"lru", "clru"}
MapKinds == Trees \cup {"hash", "chash", "skiplist", "cskiplist", "btree", "cbtree", "trie", "ctrie"}

\* Only key 2 comes with two values: what an update does is seen on it.
ElementsUpTo(n) == {<<k, 1>> : k \in 1..n} \cup {<<2, 2>>}
Homes == {[k \in 1..MaxKey |-> 3], [k \in 1..MaxKey |-> k]}
Words == {<<>>, <<1>>, <<1, 1>>, <<1, 2>>, <<2, 1>>}

S == INSTANCE SearchTrees WITH Elements <- ElementsUpTo(MaxKey)
RB == INSTANCE SearchTrees WITH Elements <- ElementsUpTo(MaxTreeKey)
H == INSTANCE HashMaps WITH Elements <- ElementsUpTo(MaxHashKey)
C == INSTANCE HashMaps WITH Elements <- ElementsUpTo(MaxKey)
O == INSTANCE OrderedMaps WITH
       Elements <- ElementsUpTo(MaxBtreeKey), BtreeKeys <- 1..MaxBtreeKey, Values <- {1, 2}
K == INSTANCE OrderedMaps WITH
       Elements <- ElementsUpTo(MaxKey), BtreeKeys <- {}, Values <- {1, 2}

SequenceInit ==
  \/ \E cap \in {0, 3} :
       \/ kind = "array" /\ st = R!array_init(cap)
       \/ kind = "stack" /\ st = R!stack_init(cap)
       \/ kind = "queue" /\ st = R!queue_init(cap)
       \/ kind = "deque" /\ st = R!deque_init(cap)
  \/ \E cap \in {1, 3} :
       \/ kind = "cdeque" /\ st = R!cdeque_init(cap)
       \/ kind = "cringbuf" /\ st = R!cringbuf_init(cap)
       \/ kind = "ringbuf" /\ \E over \in BOOLEAN : st = R!ringbuf_init(cap, over)
  \/ kind = "slist" /\ st = L!slist_init
  \/ kind = "dlist" /\ st = L!dlist_init
  \/ kind = "cdlist" /\ st = L!cdlist_init
  \/ kind = "sharded_array" /\ st = L!sharded_array_init
  \/ kind = "csa" /\ st = L!csa_init
  \/ kind = "heap" /\ \E cap \in {0, 1} : st = X!heap_init(cap)
  \/ kind = "cheap" /\ st = X!cheap_init
  \/ \E n \in 1..Length :
       \/ kind = "fenwick" /\ st = X!fenwick_init([i \in 1..n |-> (i % 3) - 1])
       \/ kind = "cfenwick" /\ st = X!cfenwick_init([i \in 1..n |-> (i % 3) - 1])
       \/ kind = "segtree" /\ st = X!segtree_init([i \in 1..n |-> <<1 + (i % 2)>>])
       \/ kind = "csegtree" /\ st = X!csegtree_init([i \in 1..n |-> <<1 + (i % 2)>>])
       \/ kind = "sparse" /\ st = X!sparse_init([i \in 1..n |-> {i}])
  \/ kind = "unionfind" /\ st = X!unionfind_init
  \/ kind = "bloom" /\ st = X!bloom_init
  \/ kind \in Graphs /\ st = X!graph_init_ex

MapInit ==
  \/ kind \in {"bst", "cbst", "rbtree", "crbtree"} /\ st = S!EmptyTree
  \/ kind = "avl" /\ st = S!avl_init
  \/ kind = "cavl" /\ st = S!cavl_init
  \/ \E home \in Homes :
       \/ kind = "hash" /\ \E cap \in {1, 3} : st = H!hash_init(cap, home)
       \/ kind = "chash" /\ st = C!chash_init(2, home)
       \/ kind \in {"lru", "clru"} /\ \E cap \in {1, 3} : st = C!lru_init(cap, home)
  \/ kind \in {"skiplist", "cskiplist"} /\ st = K!skiplist_init
  \/ kind \in {"btree", "cbtree"} /\ st = O!btree_init
  \/ kind \in {"trie", "ctrie"} /\ st = O!trie_init

Init == ret = NoCall /\ (SequenceInit \/ MapInit)

Next ==
  \/ kind = "array" /\ R!ArrayNext
  \/ kind = "stack" /\ R!StackNext
  \/ kind = "queue" /\ R!QueueNext
  \/ kind = "deque" /\ R!DequeNext
  \/ kind = "cdeque" /\ R!CDequeNext
  \/ kind = "ringbuf" /\ R!RingbufNext
  \/ kind = "cringbuf" /\ R!CRingbufNext
  \/ kind = "slist" /\ L!SListNext
  \/ kind = "dlist" /\ L!DListNext
  \/ kind = "cdlist" /\ L!CDListNext
  \/ kind = "sharded_array" /\ L!ShardedNext
  \/ kind = "csa" /\ L!CsaNext
  \/ kind = "heap" /\ X!HeapNext
  \/ kind = "cheap" /\ X!CheapNext
  \/ kind = "fenwick" /\ X!FenwickNext
  \/ kind = "cfenwick" /\ X!CFenwickNext
  \/ kind = "segtree" /\ X!SegtreeNext
  \/ kind = "csegtree" /\ X!CSegtreeNext
  \/ kind = "sparse" /\ X!SparseNext
  \/ kind = "unionfind" /\ X!UnionfindNext
  \/ kind = "bloom" /\ X!BloomNext
  \/ kind = "graph" /\ X!GraphNext
  \/ kind = "cgraph" /\ X!CGraphNext
  \/ kind = "bst" /\ S!BstNext
  \/ kind = "cbst" /\ S!CBstNext
  \/ kind = "avl" /\ S!AvlNext
  \/ kind = "cavl" /\ S!CAvlNext
  \/ kind = "rbtree" /\ RB!RbtreeNext
  \/ kind = "crbtree" /\ RB!CRbtreeNext
  \/ kind = "hash" /\ H!HashNext
  \/ kind = "chash" /\ C!CHashNext
  \/ kind = "lru" /\ C!LruNext
  \/ kind = "clru" /\ C!CLruNext
  \/ kind = "skiplist" /\ K!SkiplistNext
  \/ kind = "cskiplist" /\ K!CSkiplistNext
  \/ kind = "btree" /\ O!BtreeNext
  \/ kind = "cbtree" /\ O!CBtreeNext
  \/ kind = "trie" /\ O!TrieNext
  \/ kind = "ctrie" /\ O!CTrieNext

\* The next call does not depend on the last one, and what a call of a
\* sequence or a map does and returns is checked on every step: states that
\* differ in ret only are one.  What an index answers is checked on states.
View == <<kind, st, IF kind \in IndexKinds THEN ret ELSE NoCall>>

Spec == Init /\ [][Next]_vars

-----------------------------------------------------------------------------
(* The sequences. *)

SeqContents == CASE kind \in {"array", "stack"} -> R!Flat(st)
              [] kind \in RingKinds -> R!Ring(st)
              [] kind \in ListKinds -> L!Listed(st)
              [] kind = "sharded_array" -> L!Sharded(st)
              [] kind = "csa" -> L!Chained(st)
              [] OTHER -> <<>>
Limit == IF kind \in FixedSize THEN st.cap ELSE None

Abs == INSTANCE SeqSpec WITH q <- SeqContents, limit <- Limit

(* Every call of every sequence container does to the sequence it holds,   *)
(* and returns, what the call promises: growth that unwraps a ring (queue, *)
(* deque), overwriting at the limit (ringbuf), insertion and removal from  *)
(* either end or the middle, and a call that fails leaves the elements.    *)
SequenceRefined == [][(kind \in SeqKinds) => Abs!Next]_<<SeqContents, ret>>

(* A list's nodes form one chain of count nodes from head to tail, prev    *)
(* mirrors next in the doubly linked ones, and no node is left allocated   *)
(* off the chain (scl_slist_remove at the tail, scl_dlist_remove_at).      *)
ListsLinked ==
  kind \in ListKinds =>
    LET at == [i \in 1..st.count |-> L!NodeAt(st, i)]
    IN /\ DOMAIN st.heap = {at[i] : i \in 1..st.count}
       /\ Cardinality(DOMAIN st.heap) = st.count
       /\ st.head = (IF st.count = 0 THEN Null ELSE at[1])
       /\ st.tail = (IF st.count = 0 THEN Null ELSE at[st.count])
       /\ st.count > 0 => st.heap[st.tail].next = Null
       /\ kind # "slist" => \A i \in 1..st.count :
            st.heap[at[i]].prev = (IF i = 1 THEN Null ELSE at[i - 1])

(* Memory follows the elements: the block of an array, stack or ring has   *)
(* capacity slots, a ring's mask is capacity - 1 with capacity a power of  *)
(* two while it holds anything, and exactly the slots from head on hold    *)
(* elements, through growth, wrap-around, shrinking and destruction.       *)
BlocksSized ==
  /\ kind \in RingKinds \cup {"array", "stack"} =>
       DOMAIN st.data = 0..(st.cap - 1) /\ st.count \in 0..st.cap
  /\ kind \in RingKinds =>
       /\ st.cap > 0 => st.mask = st.cap - 1 /\ st.cap = BitCeil(st.cap)
       /\ \A i \in 0..(st.cap - 1) :
            (st.data[i] # R!Junk) = \E j \in 0..(st.count - 1) : R!Slot(st, j) = i

-----------------------------------------------------------------------------
(* The index structures. *)

Answered(op) == ret.op = op /\ ret.err = "OK"
Slice(l, r) == [i \in 1..(r - l + 1) |-> st.truth[l + i]]   \* elements l..r, from 0

(* What a query answers is what a scan of the data would: the sum of a     *)
(* range of a Fenwick tree after any updates, the elements of a range of a *)
(* segment tree in order and without the padding of its last level, the    *)
(* union over a range of a sparse table, whether two points were joined by *)
(* a chain of unions (and the number of classes), and a Bloom filter never *)
(* denies a member.                                                        *)
AnswersRight ==
  CASE kind \in {"fenwick", "cfenwick"} ->
         /\ Answered("prefix") => ret.out = SumFunction(Slice(0, ret.args[1]))
         /\ Answered("range") => ret.out = SumFunction(Slice(ret.args[1], ret.args[2]))
    [] kind \in {"segtree", "csegtree"} ->
         Answered("query") => ret.out = X!FlattenSeq(Slice(ret.args[1], ret.args[2] - 1))
    [] kind = "sparse" ->
         Answered("query") => ret.out = UNION Range(Slice(ret.args[1], ret.args[2]))
    [] kind = "unionfind" ->
         /\ st.sets = Cardinality(st.truth)
         /\ (Answered("connected") /\ st.count > 0) =>
              (ret.out <=> \E c \in st.truth : ret.args[1] \in c /\ ret.args[2] \in c)
    [] kind = "bloom" ->
         Answered("contains") => (ret.args[1] \in st.truth => ret.out)
    [] OTHER -> TRUE

(* A heap holds what was pushed and not popped, a pop takes the least of   *)
(* it, and every element is at least its parent; in the heap with a lock   *)
(* only until an element had to sink by more than one level, or a pop had  *)
(* no memory, which doubles the last element (scl_cheap_pop).              *)
HeapsOrdered ==
  kind \in {"heap", "cheap"} =>
    /\ \A v \in IndexKeys : Cardinality({i \in DOMAIN st.data : st.data[i] = v}) = st.truth[v]
    /\ st.count = Len(st.data)
    /\ ~st.deep =>
         /\ \A i \in 2..st.count : st.data[i \div 2] <= st.data[i]
         /\ Answered("pop") => \A k \in IndexKeys : st.truth[k] > 0 => ret.out <= k

(* The edges of a graph: each vertex's chain lists its edges, the latest   *)
(* first, and every slot of the array is in one chain or in the free list, *)
(* once, whatever was removed and reused.                                  *)
GraphChains ==
  kind \in Graphs =>
    LET chain == [v \in DOMAIN st.head |-> X!ChainFrom(st, st.head[v])]
        free == X!ChainFrom(st, st.free_head)
        lists == Range(chain) \cup {free}
        used == UNION {Range(c) : c \in lists}
    IN /\ \A v \in DOMAIN chain : [i \in DOMAIN chain[v] |-> st.edges[chain[v][i]].to] = st.truth[v]
       /\ used = DOMAIN st.edges
       /\ Len(free) + SumFunction([v \in DOMAIN chain |-> Len(chain[v])]) = Len(st.edges)
       /\ st.edge_count = Len(st.edges) - Len(free)

-----------------------------------------------------------------------------
(* The maps and caches. *)

Destroyed == st = Gone

\* The structure can be read: it is not destroyed, no freed memory was read and
\* no node overrun.
Sound == CASE kind \in {"avl", "cavl"} -> st.live
           [] kind \in {"btree", "cbtree"} -> ~Destroyed /\ ~st.ub
           [] kind \in Trees -> TRUE
           [] OTHER -> ~Destroyed

MapContents ==
  IF ~Sound THEN <<>>
  ELSE CASE kind \in Trees -> LET es == S!Elems(st) IN
              [k \in {es[i][1] : i \in 1..Len(es)} |-> (CHOOSE e \in Range(es) : e[1] = k)[2]]
         [] kind = "hash" -> H!HashMap(st)
         [] kind = "chash" -> C!CHashMap(st)
         [] kind \in {"skiplist", "cskiplist"} -> K!SkipMap(st)
         [] kind \in {"btree", "cbtree"} -> O!BtreeMap(st)
         [] kind \in {"trie", "ctrie"} -> O!TrieMap(st)
         [] kind \in Caches -> C!Aged(st)

Map == INSTANCE MapSpec WITH m <- MapContents
Lru == INSTANCE LruSpec WITH q <- MapContents, limit <- st.cap

\* Where the code departs from a map: a key with two slots (scl_hash_insert)
\* or two entries (scl_btree_insert), a failed insert that left a terminal
\* node without its value (scl_trie_insert), a split that found no memory and
\* whose full child is overrun (scl_btree_split_child), a removal that reads its
\* key through a pointer into a leaf that moves (scl_btree_remove_recursive) or
\* frees a node that stays linked (scl_avl_remove).
Departed ==
  \/ kind = "hash" /\ ~Destroyed /\ H!Doubled(st)
  \/ kind \in {"btree", "cbtree"} /\ Sound /\ ~O!Once
  \/ kind = "trie" /\ ~Destroyed /\ O!Hollow(st)
  \/ ~Sound /\ ~Destroyed

\* A call that is not there, or not for this key.
Refusals == {"NOT_IMPLEMENTED", "INVALID_ARG"}

(* Every call does to the map, and returns, what it promises, as long as   *)
(* the code has not departed from a map: growth and rehashing, rotations,  *)
(* splits, merges and borrowing keep every other entry.                    *)
MapRefined ==
  [][(kind \in MapKinds /\ ~Departed /\ ~Departed' /\ ret'.err \notin Refusals) => Map!Next]_<<st, ret>>

(* A cache gives up only its least recently used entry, and only for a new *)
(* one: get and put of a present key move it to the front (scl_lru_put,    *)
(* scl_lru_evict).                                                         *)
LruRefined == [][(kind \in Caches) => Lru!Next]_<<st, ret>>

(* The structure behind the map is the one its walks rely on: search trees *)
(* ordered, heights and colours right, probes unbroken, levels sorted,     *)
(* B-tree nodes filled and leaves equally deep, the cache's list and index *)
(* of one mind; no node is left allocated off the structure.               *)
MapsShaped ==
  (kind \in MapKinds \cup Caches /\ Sound /\ ~Departed) =>
    /\ kind \in Trees => S!Shaped(st)
    /\ kind \in {"avl", "cavl"} => S!AvlShaped(st)
    /\ kind \in {"rbtree", "crbtree"} => S!RbShaped(st)
    /\ kind = "hash" => H!HashShaped(st)
    /\ kind \in Caches => C!LruShaped(st)
    /\ kind \in {"skiplist", "cskiplist"} => K!SkipShaped(st)
    /\ kind \in {"btree", "cbtree"} => O!BtreeShaped(st)
    /\ kind \in {"trie", "ctrie"} => O!TrieShaped(st)

(* Every structure keeps, through all its calls, the shape that the next   *)
(* call relies on: the five parts above.                                   *)
Shaped == ListsLinked /\ BlocksSized /\ HeapsOrdered /\ GraphChains /\ MapsShaped
=============================================================================
