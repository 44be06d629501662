---------------------------- MODULE OrderedMaps ----------------------------
(***************************************************************************)
(* The skip lists (skiplist, and cskiplist under one spinlock), the        *)
(* B-trees (btree, and cbtree under one spinlock) and the tries (trie and  *)
(* ctrie, here with one call at a time).  A destroyed map is given no      *)
(* further call.                                                           *)
(***************************************************************************)
EXTENDS Calls, SequencesExt

CONSTANTS Elements,  \* pairs of a key and a value
          BtreeKeys, \* the keys given to the B-trees
          Words,     \* the keys of the tries, sequences of bytes
          Values,    \* the values given to the tries
          MaxLevel,  \* SCL_SKIPLIST_MAX_LEVEL
          Degree     \* t of a B-tree

Keys == {e[1] : e \in Elements}
Live == st # Gone

-----------------------------------------------------------------------------
(* scl_skiplist.  Nodes keep their key, which is their address; the head   *)
(* is 0 and keys are positive.  fwd has one link per level of the node.    *)

Nil == None
Head0 == 0

skiplist_init ==
  [level |-> 1, count |-> 0,
   heap |-> (Head0 :> [val |-> 0, fwd |-> [i \in 1..MaxLevel |-> Nil]])]

\* The last node before k on level i, from n on.
RECURSIVE Along(_, _, _, _)
Along(t, n, i, k) ==
  LET f == t.heap[n].fwd[i] IN IF f # Nil /\ f < k THEN Along(t, f, i, k) ELSE n

\* update[i]: the walk goes down the levels from the list's level to 1.
Update(t, k) ==
  LET upd[i \in 1..t.level] == Along(t, IF i = t.level THEN Head0 ELSE upd[i + 1], i, k) IN upd
Spot(t, k) == t.heap[Update(t, k)[1]].fwd[1]

\* A new key gets a level at random (lvl); the list's level is raised before
\* memory for the node is asked for.
skiplist_insert(e, lvl, mem) ==
  LET k == e[1]
      upd == Update(st, k)
      From(i) == IF i <= st.level THEN upd[i] ELSE Head0
      raised == [st EXCEPT !.level = IF lvl > @ THEN lvl ELSE @]
      node == [val |-> e[2], fwd |-> [i \in 1..lvl |-> st.heap[From(i)].fwd[i]]]
      Linked(h, i) == [h EXCEPT ![From(i)].fwd[i] = k]
  IN IF Spot(st, k) = k THEN Done("insert", e, [st EXCEPT !.heap[k].val = e[2]], "OK", None)
     ELSE IF ~mem THEN Done("insert", e, raised, "OUT_OF_MEMORY", None)
     ELSE Done("insert", e,
               [raised EXCEPT !.count = @ + 1,
                  !.heap = (k :> node) @@ FoldLeft(Linked, st.heap, [i \in 1..lvl |-> i])], "OK", None)

\* Node k is unlinked from the levels in ls and freed, and the list's level
\* lowered while the head has no link there.
Unlinked(t, k, ls) ==
  LET upd == Update(t, k)
      Cut(h, i) == IF i \in ls THEN [h EXCEPT ![upd[i]].fwd[i] = t.heap[k].fwd[i]] ELSE h
      h1 == FreeNode(FoldLeft(Cut, t.heap, [i \in 1..t.level |-> i]), k)
  IN [heap |-> h1, count |-> t.count - 1,
      level |-> Max({1} \cup {i \in 1..t.level : h1[Head0].fwd[i] # Nil})]

skiplist_remove(k) ==
  LET upd == Update(st, k)
      linked == {i \in 1..st.level : \A j \in 1..i : st.heap[upd[j]].fwd[j] = k}
  IN IF Spot(st, k) # k THEN Fail("remove", <<k>>, "NOT_FOUND")
     ELSE Done("remove", <<k>>, Unlinked(st, k, linked), "OK", None)
skiplist_contains(k) == Read("contains", <<k>>, Spot(st, k) = k)
skiplist_find(k) ==
  IF Spot(st, k) # k THEN Fail("find", <<k>>, "NOT_FOUND") ELSE Read("find", <<k>>, st.heap[k].val)
skiplist_count == Read("count", <<>>, st.count)
skiplist_destroy == Done("destroy", <<>>, Gone, "OK", None)

cskiplist_insert(e, lvl, mem) == skiplist_insert(e, lvl, mem)
cskiplist_remove(k) == \* on the levels of the node itself
  IF Spot(st, k) # k THEN Fail("remove", <<k>>, "NOT_FOUND")
  ELSE Done("remove", <<k>>, Unlinked(st, k, DOMAIN st.heap[k].fwd), "OK", None)
cskiplist_find(k) == skiplist_find(k)
cskiplist_contains(k) == skiplist_contains(k)
cskiplist_destroy == skiplist_destroy

SkiplistNext ==
  /\ Live
  /\ \/ \E e \in Elements, lvl \in 1..MaxLevel, mem \in BOOLEAN : skiplist_insert(e, lvl, mem)
     \/ \E k \in Keys : skiplist_remove(k) \/ skiplist_contains(k) \/ skiplist_find(k)
     \/ skiplist_count \/ skiplist_destroy
CSkiplistNext ==
  /\ Live
  /\ \/ \E e \in Elements, lvl \in 1..MaxLevel, mem \in BOOLEAN : cskiplist_insert(e, lvl, mem)
     \/ \E k \in Keys : cskiplist_remove(k) \/ cskiplist_contains(k) \/ cskiplist_find(k)
     \/ skiplist_count \/ cskiplist_destroy

RECURSIVE Level(_, _, _)
Level(t, n, i) == IF n = Nil THEN <<>> ELSE <<n>> \o Level(t, t.heap[n].fwd[i], i)
SkipMap(t) == [k \in DOMAIN t.heap \ {Head0} |-> t.heap[k].val]
\* Every level links, in ascending order, exactly the nodes that have it.
SkipShaped(t) ==
  /\ t.count = Cardinality(DOMAIN t.heap) - 1
  /\ \A i \in 1..MaxLevel :
       Level(t, Head0, i) = SetToSortSeq({n \in DOMAIN t.heap : i \in DOMAIN t.heap[n].fwd},
                                         LAMBDA a, b : a < b)
  /\ \A i \in (t.level + 1)..MaxLevel : t.heap[Head0].fwd[i] = Nil

-----------------------------------------------------------------------------
(* scl_btree.  A node is its entries (pairs of key and value, in order)    *)
(* and its children, none in a leaf.                                       *)

MaxKeys == 2 * Degree - 1
btree_create_node == [ks |-> <<>>, ch |-> <<>>]
btree_init == [count |-> 0, root |-> btree_create_node, ub |-> FALSE]

Leaf(n) == n.ch = <<>>
Low(n) == Len(n.ks) < Degree
Key(n, i) == n.ks[i][1]

\* Child i is full: its upper half moves to a new child after it and its
\* middle entry goes up.
btree_split_child(n, i) ==
  LET c == n.ch[i]
      lo == [ks |-> SubSeq(c.ks, 1, Degree - 1), ch |-> IF Leaf(c) THEN <<>> ELSE SubSeq(c.ch, 1, Degree)]
      hi == [ks |-> SubSeq(c.ks, Degree + 1, MaxKeys),
             ch |-> IF Leaf(c) THEN <<>> ELSE SubSeq(c.ch, Degree + 1, 2 * Degree)]
  IN [ks |-> InsertAt(n.ks, i, c.ks[Degree]),
      ch |-> InsertAt(ReplaceAt(n.ch, i, lo), i + 1, hi)]

\* What a descent leaves: the node, whether it changed the map, and whether
\* memory was read or written that the node does not own.
Outcome(n, ok, ub) == [n |-> n, ok |-> ok, ub |-> ub]
Into(n, i, r) == Outcome([n EXCEPT !.ch[i] = r.n], r.ok, r.ub)

\* The outcomes of inserting e below n; unless mem, a split may find no memory.
\* The walk back over the entries stops after the last key that is not
\* greater than k.  The test for an equal key looks at the entry behind that
\* place, which is greater: a key that is there is inserted a second time.
\* A split without memory returns silently and the descent goes on into the full
\* child: a leaf, or a node that its child splits into, is then overrun.  Behind
\* the last entry the comparison after the split reads a slot that holds none,
\* and may send the descent to a child that is not there.
RECURSIVE Put(_, _, _)
Put(n, e, mem) ==
  LET i == Cardinality({j \in 1..Len(n.ks) : Key(n, j) <= e[1]}) + 1
      full == Len(n.ch[i].ks) = MaxKeys
      n1 == btree_split_child(n, i)
      Down(m, j) == {Into(m, j, r) : r \in Put(m.ch[j], e, mem)}
      Lost == {Outcome(n, TRUE, TRUE)}
      Split == IF Len(n.ks) = MaxKeys THEN Lost ELSE Down(n1, IF e[1] > Key(n1, i) THEN i + 1 ELSE i)
      Whole == Down(n, i) \cup (IF i > Len(n.ks) THEN Lost ELSE {})
  IN CASE Leaf(n) -> {Outcome([n EXCEPT !.ks = InsertAt(@, i, e)], TRUE, Len(n.ks) = MaxKeys)}
       [] ~Leaf(n) /\ ~full -> Down(n, i)
       [] ~Leaf(n) /\ full -> Split \cup (IF mem THEN {} ELSE Whole)

Inserted(e, root, mem) ==
  \E r \in Put(root, e, mem) :
    Done("insert", e, [st EXCEPT !.root = r.n, !.ub = r.ub, !.count = @ + 1], "OK", None)

\* A full root gets a parent, which is split before the descent.  Only the
\* allocation of that parent is checked for.
RootFull == Len(st.root.ks) = MaxKeys
NewRoot == [ks |-> <<>>, ch |-> <<st.root>>]
btree_insert(e, mem) ==
  \/ RootFull /\ ~mem /\ Fail("insert", e, "OUT_OF_MEMORY")
  \/ RootFull /\ Inserted(e, btree_split_child(NewRoot, 1), mem)
  \/ RootFull /\ ~mem /\ Inserted(e, NewRoot, mem)
  \/ ~RootFull /\ Inserted(e, st.root, mem)

\* Binary search among entries lo..hi-1: where k is, or its place.
RECURSIVE btree_find_key(_, _, _, _)
btree_find_key(n, k, lo, hi) ==
  LET mid == lo + (hi - lo) \div 2
  IN IF lo >= hi THEN lo
     ELSE IF k = Key(n, mid) THEN mid
     ELSE IF k < Key(n, mid) THEN btree_find_key(n, k, lo, mid)
     ELSE btree_find_key(n, k, mid + 1, hi)
Bisect(n, k) == btree_find_key(n, k, 1, Len(n.ks) + 1)
Linear(n, k) == Cardinality({j \in 1..Len(n.ks) : Key(n, j) < k}) + 1 \* cbtree
Found(n, k, i) == i <= Len(n.ks) /\ Key(n, i) = k

\* The entry of k that the descent finds, or <<>>.
RECURSIVE EntryOf(_, _)
EntryOf(n, k) ==
  LET i == IF kind = "cbtree" THEN Linear(n, k) ELSE Bisect(n, k)
  IN IF Found(n, k, i) THEN n.ks[i] ELSE IF Leaf(n) THEN <<>> ELSE EntryOf(n.ch[i], k)

btree_get(k) ==
  LET e == EntryOf(st.root, k)
  IN IF e = <<>> THEN Fail("find", <<k>>, "NOT_FOUND") ELSE Read("find", <<k>>, e[2])
btree_contains(k) == Read("contains", <<k>>, EntryOf(st.root, k) # <<>>)
btree_count == Read("count", <<>>, st.count)
btree_destroy == Done("destroy", <<>>, Gone, "OK", None)

btree_borrow_from_left(n, i) ==
  LET l == n.ch[i - 1]
      c == n.ch[i]
  IN [ks |-> ReplaceAt(n.ks, i - 1, Last(l.ks)),
      ch |-> [n.ch EXCEPT ![i - 1] = [ks |-> Front(l.ks), ch |-> IF Leaf(l) THEN <<>> ELSE Front(l.ch)],
                          ![i] = [ks |-> <<n.ks[i - 1]>> \o c.ks,
                                  ch |-> IF Leaf(c) THEN <<>> ELSE <<Last(l.ch)>> \o c.ch]]]
btree_borrow_from_right(n, i) ==
  LET r == n.ch[i + 1]
      c == n.ch[i]
  IN [ks |-> ReplaceAt(n.ks, i, r.ks[1]),
      ch |-> [n.ch EXCEPT ![i + 1] = [ks |-> Tail(r.ks), ch |-> IF Leaf(r) THEN <<>> ELSE Tail(r.ch)],
                          ![i] = [ks |-> Append(c.ks, n.ks[i]),
                                  ch |-> IF Leaf(c) THEN <<>> ELSE Append(c.ch, r.ch[1])]]]
btree_merge(n, i) ==
  LET l == n.ch[i]
      r == n.ch[i + 1]
  IN [ks |-> RemoveAt(n.ks, i),
      ch |-> RemoveAt(ReplaceAt(n.ch, i, [ks |-> Append(l.ks, n.ks[i]) \o r.ks, ch |-> l.ch \o r.ch]), i + 1)]

RECURSIVE Edge(_, _)
Edge(n, last) == IF Leaf(n) THEN n.ks ELSE Edge(IF last THEN Last(n.ch) ELSE Head(n.ch), last)
btree_max_key(n) == Last(Edge(n, TRUE))

\* k is to be removed from the subtree n, which has an entry to spare.  When
\* slot is not 0, the code's key is a pointer to the entry at slot of the
\* subtree's last leaf: if that leaf borrows, another key is read through it;
\* if it is merged into its neighbour, freed memory is.
RECURSIVE btree_remove_recursive(_, _, _)
btree_remove_recursive(n, k, slot) ==
  LET i == Bisect(n, k)
      here == Found(n, k, i)
      pred == btree_max_key(n.ch[i])
      succ == Head(Edge(n.ch[i + 1], FALSE))
      left == i > 1 /\ ~Low(n.ch[i - 1])
      right == i <= Len(n.ks) /\ ~Low(n.ch[i + 1])
      n1 == IF ~Low(n.ch[i]) THEN n
            ELSE IF left THEN btree_borrow_from_left(n, i)
            ELSE IF right THEN btree_borrow_from_right(n, i)
            ELSE btree_merge(n, IF i > 1 THEN i - 1 ELSE i)
      merged == Low(n.ch[i]) /\ ~left /\ ~right
      j == IF merged /\ i > 1 THEN i - 1 ELSE i
      moved == slot # 0 /\ Low(n.ch[i]) /\ Leaf(n.ch[i])
      k1 == IF moved /\ ~merged THEN Key(n1.ch[j], slot) ELSE k
  IN CASE here /\ Leaf(n) -> Outcome([n EXCEPT !.ks = RemoveAt(@, i)], TRUE, FALSE)
       [] here /\ ~Leaf(n) /\ ~Low(n.ch[i]) ->
            Into([n EXCEPT !.ks[i] = pred], i,
                 btree_remove_recursive(n.ch[i], pred[1], Len(Edge(n.ch[i], TRUE))))
       [] here /\ ~Leaf(n) /\ Low(n.ch[i]) /\ ~Low(n.ch[i + 1]) ->
            Into([n EXCEPT !.ks[i] = succ], i + 1, btree_remove_recursive(n.ch[i + 1], succ[1], 0))
       [] here /\ ~Leaf(n) /\ Low(n.ch[i]) /\ Low(n.ch[i + 1]) ->
            LET m == btree_merge(n, i) IN Into(m, i, btree_remove_recursive(m.ch[i], k, slot))
       [] ~here /\ Leaf(n) -> Outcome(n, FALSE, FALSE)
       [] ~here /\ ~Leaf(n) ->
            IF moved /\ merged THEN Outcome(n1, TRUE, TRUE)
            ELSE Into(n1, j, btree_remove_recursive(n1.ch[j], k1, slot))

btree_remove(k) ==
  LET r == btree_remove_recursive(st.root, k, 0)
      root == IF r.n.ks = <<>> /\ ~Leaf(r.n) THEN r.n.ch[1] ELSE r.n
      t == [st EXCEPT !.root = root, !.ub = r.ub, !.count = IF r.ok THEN @ - 1 ELSE @]
  IN IF st.count = 0 THEN Fail("remove", <<k>>, "NOT_FOUND")
     ELSE Done("remove", <<k>>, t, IF r.ok THEN "OK" ELSE "NOT_FOUND", None)

\* Its split writes through the null pointer when there is no memory: the process
\* ends there.
cbtree_insert(e, mem) ==
  \/ RootFull /\ ~mem /\ Fail("insert", e, "OUT_OF_MEMORY")
  \/ RootFull /\ mem /\ Inserted(e, btree_split_child(NewRoot, 1), mem)
  \/ ~RootFull /\ mem /\ Inserted(e, st.root, mem)
cbtree_get(k) == btree_get(k)
cbtree_contains(k) == btree_contains(k)
cbtree_remove(k) == Fail("remove", <<k>>, "NOT_IMPLEMENTED")
cbtree_destroy == btree_destroy

\* All entries, in order.
RECURSIVE Entries(_)
Entries(n) ==
  IF Leaf(n) THEN n.ks
  ELSE FoldLeft(LAMBDA s, i : s \o Entries(n.ch[i]) \o (IF i <= Len(n.ks) THEN <<n.ks[i]>> ELSE <<>>),
                <<>>, [i \in 1..Len(n.ch) |-> i])
Sorted(s) == \A i \in 1..(Len(s) - 1) : s[i][1] < s[i + 1][1]

\* Changes are followed until a key is in the tree twice, a node was overrun or
\* freed memory was read.
BtreeOpen == Live /\ ~st.ub
Once == Sorted(Entries(st.root))
BtreeElements == {e \in Elements : e[1] \in BtreeKeys}

BtreeNext ==
  /\ BtreeOpen
  /\ \/ Once /\ \E e \in BtreeElements, mem \in BOOLEAN : btree_insert(e, mem)
     \/ Once /\ \E k \in BtreeKeys : btree_remove(k)
     \/ \E k \in BtreeKeys : btree_get(k) \/ btree_contains(k)
     \/ btree_count \/ btree_destroy
CBtreeNext ==
  /\ BtreeOpen
  /\ \/ Once /\ \E e \in BtreeElements, mem \in BOOLEAN : cbtree_insert(e, mem)
     \/ \E k \in BtreeKeys : cbtree_remove(k) \/ cbtree_get(k) \/ cbtree_contains(k)
     \/ btree_count \/ cbtree_destroy

BtreeMap(t) == LET es == Entries(t.root) IN
  [k \in {es[i][1] : i \in 1..Len(es)} |-> (CHOOSE e \in Range(es) : e[1] = k)[2]]

RECURSIVE Depths(_)
Depths(n) == IF Leaf(n) THEN {0} ELSE {d + 1 : d \in UNION {Depths(n.ch[i]) : i \in 1..Len(n.ch)}}
RECURSIVE Filled(_, _)
Filled(n, least) ==
  /\ Len(n.ks) \in least..MaxKeys
  /\ ~Leaf(n) => Len(n.ch) = Len(n.ks) + 1 /\ \A i \in 1..Len(n.ch) : Filled(n.ch[i], Degree - 1)
\* A root whose split found no memory: no entry, and one full node below it.
Unsplit(root) == root.ks = <<>> /\ Len(root.ch) = 1 /\ Len(root.ch[1].ks) = MaxKeys
\* All leaves are equally deep, every node but the root is half full, and
\* count is the number of entries.
BtreeShaped(t) ==
  /\ Cardinality(Depths(t.root)) = 1
  /\ Filled(t.root, IF Leaf(t.root) \/ Unsplit(t.root) THEN 0 ELSE 1)
  /\ t.count = Len(Entries(t.root))

-----------------------------------------------------------------------------
(* scl_trie.  A node is named by the bytes that lead to it.  term are the  *)
(* terminal nodes, val the values of the nodes that have a value buffer.   *)

trie_init == [nodes |-> {<<>>}, term |-> {}, val |-> <<>>, count |-> 0]

Missing(w) == Cardinality(Prefixes(w) \ st.nodes)
\* The first n missing nodes on the way to w are allocated.
Extended(w, n) == [st EXCEPT !.nodes = @ \cup {p \in Prefixes(w) : Len(p) <= Len(w) - Missing(w) + n}]
Marked(t, w) == [t EXCEPT !.term = @ \cup {w}, !.count = IF w \in t.term THEN @ ELSE @ + 1]
Valued(t, w, v) == [t EXCEPT !.val = (w :> v) @@ @]

\* got allocations succeed.  The node is terminal, and counted, before the
\* memory for its value is asked for.
trie_insert(w, v, got) ==
  LET need == Missing(w)
      t == Extended(w, need)
  IN IF got < need THEN Done("insert", <<w, v>>, Extended(w, got), "OUT_OF_MEMORY", None)
     ELSE IF w \notin DOMAIN st.val /\ got = need
     THEN Done("insert", <<w, v>>, Marked(t, w), "OUT_OF_MEMORY", None)
     ELSE Done("insert", <<w, v>>, Valued(Marked(t, w), w, v), "OK", None)

trie_get(w) ==
  IF w \in st.term /\ w \in DOMAIN st.val THEN Read("find", <<w>>, st.val[w])
  ELSE Fail("find", <<w>>, "NOT_FOUND")
trie_contains(w) == Read("contains", <<w>>, w \in st.term)

Cleared(t, w) == [t EXCEPT !.term = @ \ {w}, !.val = Restrict(@, DOMAIN @ \ {w}), !.count = @ - 1]
has_children(t, p) == \E c \in t.nodes : Len(c) = Len(p) + 1 /\ Front(c) = p
\* From w up, nodes go until one is terminal or has children.
RECURSIVE Pruned(_, _)
Pruned(t, p) ==
  IF p = <<>> \/ p \in t.term \/ has_children(t, p) THEN t
  ELSE Pruned([t EXCEPT !.nodes = @ \ {p}], Front(p))
trie_remove(w) ==
  IF w \notin st.term THEN Fail("remove", <<w>>, "NOT_FOUND")
  ELSE Done("remove", <<w>>, Pruned(Cleared(st, w), w), "OK", None)
trie_count == Read("count", <<>>, st.count)
trie_destroy == Done("destroy", <<>>, Gone, "OK", None)

\* The value comes first here, then the terminal mark and the count.
ctrie_insert(w, v, got) ==
  LET need == Missing(w)
      t == Extended(w, need)
  IN IF got < need THEN Done("insert", <<w, v>>, Extended(w, got), "OUT_OF_MEMORY", None)
     ELSE IF w \notin DOMAIN st.val /\ got = need
     THEN Done("insert", <<w, v>>, t, "OUT_OF_MEMORY", None)
     ELSE Done("insert", <<w, v>>, Valued(Marked(t, w), w, v), "OK", None)
ctrie_get(w) == trie_get(w)
ctrie_contains(w) == trie_contains(w)
\* Only the last node goes, and only if it has no children.
ctrie_remove(w) ==
  LET t == Cleared(st, w)
  IN IF w = <<>> THEN Fail("remove", <<w>>, "INVALID_ARG")
     ELSE IF w \notin st.term THEN Fail("remove", <<w>>, "NOT_FOUND")
     ELSE Done("remove", <<w>>, IF has_children(t, w) THEN t ELSE [t EXCEPT !.nodes = @ \ {w}], "OK", None)
ctrie_destroy == trie_destroy

Allocations(w) == 0..(Missing(w) + (IF w \in DOMAIN st.val THEN 0 ELSE 1))
TrieNext ==
  /\ Live
  /\ \/ \E w \in Words :
          \/ trie_get(w) \/ trie_contains(w) \/ trie_remove(w)
          \/ \E v \in Values, got \in Allocations(w) : trie_insert(w, v, got)
     \/ trie_count \/ trie_destroy
CTrieNext ==
  /\ Live
  /\ \/ \E w \in Words :
          \/ ctrie_get(w) \/ ctrie_contains(w) \/ ctrie_remove(w)
          \/ \E v \in Values, got \in Allocations(w) : ctrie_insert(w, v, got)
     \/ trie_count \/ ctrie_destroy

TrieMap(t) == Restrict(t.val, t.term)
\* A failed insert left a terminal node without a value.
Hollow(t) == ~(t.term \subseteq DOMAIN t.val)
\* Every node hangs from its prefix, and count counts the terminal ones.
TrieShaped(t) ==
  /\ \A w \in t.nodes : Prefixes(w) \subseteq t.nodes
  /\ t.term \subseteq t.nodes /\ DOMAIN t.val \subseteq t.term
  /\ t.count = Cardinality(t.term)
=============================================================================
