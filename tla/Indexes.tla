------------------------------ MODULE Indexes ------------------------------
(***************************************************************************)
(* The structures that index other data: heaps, Fenwick and segment trees, *)
(* sparse tables, union-find, Bloom filters and the graph, with the copies *)
(* of them that are guarded by a spinlock (one step per call).             *)
(* st.truth is not in the code: it is what the calls so far should have    *)
(* made of the structure.                                                  *)
(***************************************************************************)
EXTENDS Calls, SequencesExt

CONSTANTS Keys,       \* elements of heaps, members of Bloom filters
          MaxHeap,    \* bound on the elements of a heap
          Length,     \* elements under a tree or a table, at most
          MaxTotal,   \* bound on the size of an element of a Fenwick tree
          MaxEdges    \* bound on the edges of a graph

For(lo, hi, s, Body(_, _)) == FoldLeft(Body, s, [k \in 1..(hi - lo + 1) |-> lo + k - 1])
ForDown(hi, lo, s, Body(_, _)) == FoldLeft(Body, s, [k \in 1..(hi - lo + 1) |-> hi - k + 1])

-----------------------------------------------------------------------------
(* scl_heap: data[1..count], the least element first; truth says how many  *)
(* elements of each key there should be.  deep, of the copy                *)
(* with a lock, is whether an element had to sink by two levels or a pop   *)
(* found no memory.                                                        *)

heap_init(cap) ==
  [data |-> <<>>, count |-> 0, cap |-> cap, truth |-> [k \in Keys |-> 0], deep |-> FALSE]
heap_swap(d, i, j) == [d EXCEPT ![i] = d[j], ![j] = d[i]]

RECURSIVE heap_sift_up(_, _)
heap_sift_up(d, i) ==
  IF i = 1 \/ d[i \div 2] <= d[i] THEN d ELSE heap_sift_up(heap_swap(d, i, i \div 2), i \div 2)

\* The least of i and its children.
Smallest(d, i) ==
  LET less(m, c) == IF c <= Len(d) /\ d[c] < d[m] THEN c ELSE m IN less(less(i, 2 * i), 2 * i + 1)
RECURSIVE heap_sift_down(_, _)
heap_sift_down(d, i) ==
  IF Smallest(d, i) = i THEN d ELSE heap_sift_down(heap_swap(d, i, Smallest(d, i)), Smallest(d, i))

Pushed(d, v) == heap_sift_up(Append(d, v), Len(d) + 1)
\* The last element takes the place of the first.
LastFirst(d) == IF Len(d) = 1 THEN <<>> ELSE <<Last(d)>> \o Tail(Front(d))
Popped(d) == IF Len(d) = 1 THEN <<>> ELSE heap_sift_down(LastFirst(d), 1)

WithElement(v) ==
  [st EXCEPT !.data = Pushed(@, v), !.count = @ + 1, !.truth[v] = @ + 1]

heap_push(v, mem) ==
  /\ st.count < MaxHeap
  /\ IF st.count = st.cap /\ ~mem THEN Fail("push", <<v>>, "OUT_OF_MEMORY")
     ELSE Done("push", <<v>>, [WithElement(v) EXCEPT !.cap =
                                 IF st.count < @ THEN @ ELSE IF @ = 0 THEN 4 ELSE 2 * @], "OK", None)
heap_pop ==
  IF st.count = 0 THEN Fail("pop", <<>>, "EMPTY")
  ELSE Done("pop", <<>>, [st EXCEPT !.data = Popped(@), !.count = @ - 1,
                                    !.truth[Min({k \in Keys : st.truth[k] > 0})] = @ - 1], "OK", st.data[1])
heap_peek ==
  IF st.count = 0 THEN Fail("peek", <<>>, "EMPTY") ELSE Read("peek", <<>>, st.data[1])
heap_search(v) == FirstOf("search", <<v>>, {i \in 1..st.count : st.data[i] = v})
heap_destroy == Done("destroy", <<>>, heap_init(0), "OK", None)

HeapNext ==
  \/ heap_pop \/ heap_peek \/ heap_destroy
  \/ \E v \in Keys : heap_search(v) \/ \E mem \in BOOLEAN : heap_push(v, mem)

\* scl_cheap.  sift_down compares the children with what is in their parent's
\* place, which after the first move is the child that went up, not the
\* element v that sinks: in a heap in order it never sinks again.
RECURSIVE SinkFrom(_, _, _)
SinkFrom(d, i, v) ==
  LET m == Smallest(d, i)
  IN IF m = i THEN [d EXCEPT ![i] = v] ELSE SinkFrom([d EXCEPT ![i] = d[m]], m, v)
sift_down(d) == SinkFrom(d, 1, d[1])
StillAbove(d) ==
  LET m == Smallest(d, 1) IN m # 1 /\ \E c \in {2 * m, 2 * m + 1} : c <= Len(d) /\ d[c] < d[1]

cheap_init == heap_init(MaxHeap)
cheap_push(v, mem) ==
  IF st.count = st.cap THEN Fail("push", <<v>>, "FULL")
  ELSE IF ~mem THEN Fail("push", <<v>>, "OUT_OF_MEMORY")
  ELSE Done("push", <<v>>, WithElement(v), "OK", None)
\* Without memory for the element that moves, the last one has replaced the
\* first and the count stays.
cheap_pop(mem) ==
  LET left == LastFirst(st.data)
  IN IF st.count = 0 THEN Fail("pop", <<>>, "EMPTY")
     ELSE IF st.count > 1 /\ ~mem
     THEN Done("pop", <<>>, [st EXCEPT !.data = Append(left, Last(@)), !.deep = TRUE,
                                       !.truth[st.data[1]] = @ - 1, !.truth[Last(st.data)] = @ + 1],
               "OUT_OF_MEMORY", st.data[1])
     ELSE Done("pop", <<>>, [st EXCEPT !.data = IF st.count = 1 THEN <<>> ELSE sift_down(left),
                                       !.count = @ - 1,
                                       !.deep = @ \/ (st.count > 1 /\ StillAbove(left)),
                                       !.truth[st.data[1]] = @ - 1], "OK", st.data[1])
CheapNext ==
  \/ heap_peek \/ heap_destroy
  \/ \E mem \in BOOLEAN : cheap_pop(mem) \/ \E v \in Keys : cheap_push(v, mem)

-----------------------------------------------------------------------------
(* scl_fenwick: tree[1..n]; truth is the array. *)

LowBit(i) == Max({b \in {1, 2, 4, 8, 16} : i % b = 0})
fenwick_init(a) ==
  LET n == Len(a)
      up(t, i) == IF i + LowBit(i) > n THEN t ELSE [t EXCEPT ![i + LowBit(i)] = @ + t[i]]
  IN [tree |-> For(1, n, a, up), n |-> n, truth |-> a]

RECURSIVE AddUp(_, _, _)
AddUp(tree, i, delta) ==
  IF i > Len(tree) THEN tree ELSE AddUp([tree EXCEPT ![i] = @ + delta], i + LowBit(i), delta)
RECURSIVE PrefixSum(_, _)
PrefixSum(tree, i) == IF i = 0 THEN 0 ELSE tree[i] + PrefixSum(tree, i - LowBit(i))

fenwick_update(i, delta) ==
  IF i >= st.n THEN Fail("update", <<i, delta>>, "INVALID_INDEX")
  ELSE /\ st.truth[i + 1] + delta \in (-MaxTotal)..MaxTotal
       /\ Done("update", <<i, delta>>, [st EXCEPT !.tree = AddUp(@, i + 1, delta),
                                                  !.truth[i + 1] = @ + delta], "OK", None)
fenwick_prefix(i) ==
  IF i >= st.n THEN Fail("prefix", <<i>>, "INVALID_INDEX")
  ELSE Read("prefix", <<i>>, PrefixSum(st.tree, i + 1))
fenwick_range_query(l, r) ==
  IF l > r \/ r >= st.n THEN Fail("range", <<l, r>>, "INVALID_ARG")
  ELSE Read("range", <<l, r>>, PrefixSum(st.tree, r + 1) - (IF l > 0 THEN PrefixSum(st.tree, l) ELSE 0))
fenwick_destroy == Done("destroy", <<>>, fenwick_init(<<>>), "OK", None)
FenwickNext ==
  fenwick_destroy \/ \E i \in 0..Length :
    fenwick_prefix(i) \/ (\E d \in {-1, 1} : fenwick_update(i, d))
                      \/ (\E r \in 0..Length : fenwick_range_query(i, r))

-----------------------------------------------------------------------------
(* scl_segtree.  combine is concatenation, so that order and padding show; *)
(* the zeroed leaves behind the last element are Zeros.                    *)

Zeros == <<0>>
segtree_init(a) ==
  LET n == Len(a)
      size == BitCeil(n)
      leaf == [i \in 1..(2 * size) |-> IF i - size \in 0..(n - 1) THEN a[i - size + 1] ELSE Zeros]
      up(t, i) == [t EXCEPT ![i] = t[2 * i] \o t[2 * i + 1]]
  IN [tree |-> ForDown(size - 1, 1, leaf, up), n |-> n, size |-> size, truth |-> a]

RECURSIVE CombineUp(_, _)
CombineUp(tree, p) ==
  IF p = 0 THEN tree ELSE CombineUp([tree EXCEPT ![p] = tree[2 * p] \o tree[2 * p + 1]], p \div 2)
segtree_update(i, v) ==
  IF i >= st.n THEN Fail("update", <<i, v>>, "INVALID_INDEX")
  ELSE Done("update", <<i, v>>,
            [st EXCEPT !.tree = CombineUp([@ EXCEPT ![st.size + i] = v], (st.size + i) \div 2),
                       !.truth[i + 1] = v], "OK", None)

\* Nodes taken on the way up: left ones in order, right ones in reverse.
RECURSIVE Cover(_, _, _, _)
Cover(l, r, left, right) ==
  LET takeL == l % 2 = 1
      takeR == r % 2 = 1
  IN IF l >= r THEN left \o right
     ELSE Cover((IF takeL THEN l + 1 ELSE l) \div 2, (IF takeR THEN r - 1 ELSE r) \div 2,
                IF takeL THEN Append(left, l) ELSE left,
                IF takeR THEN <<r - 1>> \o right ELSE right)
segtree_query_Reversed(l, r) ==
  LET nodes == Reverse(Cover(l + st.size, r + st.size, <<>>, <<>>))
  IN IF l >= r \/ r > st.n THEN Fail("query", <<l, r>>, "INVALID_ARG")
     ELSE Read("query", <<l, r>>, FoldLeft(LAMBDA acc, p : acc \o st.tree[p], <<>>, nodes))
segtree_query(l, r) ==
  LET nodes == Cover(l + st.size, r + st.size, <<>>, <<>>)
  IN IF l >= r \/ r > st.n THEN Fail("query", <<l, r>>, "INVALID_ARG")
     ELSE Read("query", <<l, r>>, FoldLeft(LAMBDA acc, p : acc \o st.tree[p], <<>>, nodes))
segtree_destroy ==
  Done("destroy", <<>>, [tree |-> <<>>, n |-> 0, size |-> 0, truth |-> <<>>], "OK", None)
SegtreeNext ==
  segtree_destroy \/ \E i \in 0..Length :
    (\E v \in {<<1>>, <<2>>} : segtree_update(i, v)) \/ (\E r \in 0..(Length + 1) : segtree_query(i, r))

-----------------------------------------------------------------------------
(* scl_sparse: levels[k][i] combines the 2^k elements from i on.  combine  *)
(* is the union of sets.                                                   *)

sparse_init(a) ==
  LET n == Len(a)
      base == [i \in 0..(n - 1) |-> a[i + 1]]
      level(ls, k) ==
        Append(ls, [i \in 0..(n - 2^k) |-> Last(ls)[i] \cup Last(ls)[i + 2^(k - 1)]])
      ks == {k \in 1..n : 2^k <= n}
  IN [levels |-> For(1, Cardinality(ks), <<base>>, level), n |-> n, truth |-> a]
\* The two ranges of 2^k elements that cover l..r.
Fitting(l, r) == Max({k \in 0..(r - l + 1) : 2^k <= r - l + 1})
Combined(t, l, r) ==
  LET row == t.levels[Fitting(l, r) + 1] IN row[l] \cup row[r - 2^Fitting(l, r) + 1]
sparse_query(l, r) ==
  IF l > r \/ r >= st.n THEN Fail("query", <<l, r>>, "INVALID_ARG")
  ELSE Read("query", <<l, r>>, Combined(st, l, r))
sparse_destroy == Done("destroy", <<>>, [levels |-> <<>>, n |-> 0, truth |-> <<>>], "OK", None)
SparseNext == sparse_destroy \/ \E l, r \in 0..Length : sparse_query(l, r)

-----------------------------------------------------------------------------
(* scl_unionfind; truth is the set of classes. *)

Points == 0..3
UnionfindOf(P) ==
  [parent |-> [x \in P |-> x], rank |-> [x \in P |-> 0], sets |-> Cardinality(P),
   count |-> Cardinality(P), truth |-> {{x} : x \in P}]
unionfind_init == UnionfindOf(Points)
unionfind_destroy == Done("destroy", <<>>, UnionfindOf({}), "OK", None)
\* Every other node on the way is hung below its grandparent.
RECURSIVE FindFrom(_, _)
FindFrom(p, x) ==
  IF p[x] = x THEN [parent |-> p, root |-> x]
  ELSE LET q == [p EXCEPT ![x] = p[p[x]]] IN FindFrom(q, q[x])
unionfind_find(x) ==
  LET f == FindFrom(st.parent, x)
  IN IF x >= st.count THEN Read("find", <<x>>, None) ELSE Done("find", <<x>>, [st EXCEPT !.parent = f.parent], "OK", f.root)

ClassOf(x) == CHOOSE c \in st.truth : x \in c
Linked(t, rx, ry) ==
  IF t.rank[rx] < t.rank[ry] THEN [t EXCEPT !.parent[rx] = ry]
  ELSE IF t.rank[rx] > t.rank[ry] THEN [t EXCEPT !.parent[ry] = rx]
  ELSE [t EXCEPT !.parent[ry] = rx, !.rank[rx] = @ + 1]
unionfind_union(x, y) ==
  LET f == FindFrom(st.parent, x)
      g == FindFrom(f.parent, y)
      t == [st EXCEPT !.parent = g.parent]
  IN IF x >= st.count \/ y >= st.count THEN Fail("union", <<x, y>>, "INVALID_INDEX")
     ELSE Done("union", <<x, y>>,
          IF f.root = g.root THEN t
          ELSE [Linked(t, f.root, g.root) EXCEPT !.sets = @ - 1,
                  !.truth = (@ \ {ClassOf(x), ClassOf(y)}) \cup {ClassOf(x) \cup ClassOf(y)}],
          "OK", None)
unionfind_connected(x, y) ==
  LET f == FindFrom(st.parent, x)
      g == FindFrom(f.parent, y)
  IN IF x >= st.count \/ y >= st.count THEN Read("connected", <<x, y>>, FALSE)
     ELSE Done("connected", <<x, y>>, [st EXCEPT !.parent = g.parent], "OK", f.root = g.root)
UnionfindNext ==
  unionfind_destroy \/ \E x, y \in Points : unionfind_find(x) \/ unionfind_union(x, y) \/ unionfind_connected(x, y)

-----------------------------------------------------------------------------
(* scl_bloom: the members' bits; truth is what was inserted since the last *)
(* clear.  The hash function is the caller's; this one collides.           *)

BitCount == 5
NumHashes == 2
BitsOf(v) == {(v * v + i * (v + 1)) % BitCount : i \in 0..(NumHashes - 1)}
bloom_init == [bits |-> {}, bit_count |-> BitCount, inserted |-> 0, truth |-> {}]
bloom_destroy == Done("destroy", <<>>, [bloom_init EXCEPT !.bit_count = 0], "OK", None)
bloom_insert(v) ==
  /\ st.inserted <= Cardinality(Keys) /\ st.bit_count > 0   \* h % 0 otherwise
  /\ Done("insert", <<v>>, [st EXCEPT !.bits = @ \cup BitsOf(v), !.inserted = @ + 1,
                                      !.truth = @ \cup {v}], "OK", None)
bloom_maybe_contains(v) == st.bit_count > 0 /\ Read("contains", <<v>>, BitsOf(v) \subseteq st.bits)
bloom_clear == Done("clear", <<>>, [st EXCEPT !.bits = {}, !.inserted = 0, !.truth = {}], "OK", None)
BloomNext == bloom_clear \/ bloom_destroy \/ \E v \in Keys : bloom_insert(v) \/ bloom_maybe_contains(v)

-----------------------------------------------------------------------------
(* scl_graph: the edges of a vertex are a chain of indices into one array, *)
(* whose freed slots form a chain of their own.  truth has the edges of    *)
(* each vertex, the latest first.                                          *)

Vertex == 0..1
GraphOf(V) ==
  [head |-> [v \in V |-> Null], edges |-> <<>>, free_head |-> Null, edge_count |-> 0,
   truth |-> [v \in V |-> <<>>]]
graph_init_ex == GraphOf(Vertex)
graph_destroy == Done("destroy", <<>>, GraphOf({}), "OK", None)
Outside(from, to) == from \notin DOMAIN st.head \/ to \notin DOMAIN st.head

graph_add_edge(from, to, mem) ==
  LET e == [to |-> to, next |-> st.head[from]]
      slot == IF st.free_head # Null THEN st.free_head ELSE Len(st.edges) + 1
  IN /\ st.edge_count < MaxEdges
     /\ IF Outside(from, to) THEN Fail("add", <<from, to>>, "INVALID_INDEX")
        ELSE IF st.free_head = Null /\ ~mem THEN Fail("add", <<from, to>>, "OUT_OF_MEMORY")
        ELSE Done("add", <<from, to>>,
               [st EXCEPT !.edges = IF st.free_head # Null THEN [@ EXCEPT ![slot] = e] ELSE Append(@, e),
                          !.free_head = IF @ # Null THEN st.edges[@].next ELSE @,
                          !.head[from] = slot, !.edge_count = @ + 1,
                          !.truth[from] = <<to>> \o @], "OK", None)

RECURSIVE ChainFrom(_, _)
ChainFrom(t, e) == IF e = Null THEN <<>> ELSE <<e>> \o ChainFrom(t, t.edges[e].next)
\* The first edge of the chain to that vertex.
Hits(from, to) ==
  LET c == ChainFrom(st, st.head[from]) IN {i \in DOMAIN c : st.edges[c[i]].to = to}

graph_remove_edge(from, to) ==
  LET c == ChainFrom(st, st.head[from])
      i == Min(Hits(from, to))
      e == c[i]
      cut == IF i = 1 THEN [st EXCEPT !.head[from] = st.edges[e].next]
             ELSE [st EXCEPT !.edges[c[i - 1]].next = st.edges[e].next]
  IN IF Outside(from, to) THEN Fail("remove", <<from, to>>, "INVALID_INDEX")
     ELSE IF Hits(from, to) = {} THEN Fail("remove", <<from, to>>, "NOT_FOUND")
     ELSE Done("remove", <<from, to>>,
               [cut EXCEPT !.edges[e].next = st.free_head, !.free_head = e, !.edge_count = @ - 1,
                           !.truth[from] = RemoveFirst(@, to)], "OK", None)
graph_has_edge(from, to) == Read("has", <<from, to>>, ~Outside(from, to) /\ Hits(from, to) # {})
GraphNext ==
  \/ graph_destroy
  \/ \E from, to \in Vertex \cup {Cardinality(Vertex)} :
       \/ graph_remove_edge(from, to) \/ graph_has_edge(from, to)
       \/ \E mem \in BOOLEAN : graph_add_edge(from, to, mem)

-----------------------------------------------------------------------------
(* The copies behind a spinlock do the same under the lock. *)

cfenwick_init(a) == fenwick_init(a)
cfenwick_update(i, delta) == fenwick_update(i, delta)
cfenwick_prefix(i) == fenwick_prefix(i)
cfenwick_range_query(l, r) == fenwick_range_query(l, r)
CFenwickNext ==
  fenwick_destroy \/ \E i \in 0..Length :
    cfenwick_prefix(i) \/ (\E d \in {-1, 1} : cfenwick_update(i, d))
                       \/ (\E r \in 0..Length : cfenwick_range_query(i, r))
csegtree_init(a) == segtree_init(a)
csegtree_update(i, v) == segtree_update(i, v)
csegtree_query(l, r) == segtree_query(l, r)
CSegtreeNext ==
  segtree_destroy \/ \E i \in 0..Length :
    (\E v \in {<<1>>, <<2>>} : csegtree_update(i, v)) \/ (\E r \in 0..(Length + 1) : csegtree_query(i, r))
cgraph_add_edge(from, to, mem) == graph_add_edge(from, to, mem)
cgraph_remove_edge(from, to) == graph_remove_edge(from, to)
cgraph_has_edge(from, to) == graph_has_edge(from, to)
CGraphNext ==
  graph_destroy \/ \E from, to \in Vertex \cup {Cardinality(Vertex)} :
    \/ cgraph_remove_edge(from, to) \/ cgraph_has_edge(from, to)
    \/ \E mem \in BOOLEAN : cgraph_add_edge(from, to, mem)
=============================================================================
