---------------------------- MODULE SearchTrees ----------------------------
(***************************************************************************)
(* The binary search trees: bst, avl and rbtree, and the three that guard  *)
(* every call with one spinlock (cbst, cavl, crbtree), whose calls take    *)
(* effect one at a time as the sequential ones do.  A tree is its root,    *)
(* its count and the nodes on the heap.  An element is a pair of the key   *)
(* that cmp compares and the rest of its bytes.                            *)
(***************************************************************************)
EXTENDS Calls, SequencesExt

CONSTANT Elements

Keys == {e[1] : e \in Elements}
EmptyTree == [root |-> Null, count |-> 0, heap |-> <<>>]

Other(s) == IF s = "l" THEN "r" ELSE "l"
Side(t, n, k) == IF k < t.heap[n].x[1] THEN "l" ELSE "r"

\* The nodes cmp leads through from n towards k, ending at the node that
\* holds k or where its place is.
RECURSIVE Descend(_, _, _)
Descend(t, n, k) ==
  IF n = Null THEN <<>>
  ELSE IF t.heap[n].x[1] = k THEN <<n>>
  ELSE <<n>> \o Descend(t, t.heap[n][Side(t, n, k)], k)

Search(t, k) == LET p == Descend(t, t.root, k)
                IN IF p # <<>> /\ t.heap[Last(p)].x[1] = k THEN Last(p) ELSE Null

\* The nodes from n along one side to the end.
RECURSIVE Spine(_, _, _)
Spine(t, n, s) == IF n = Null THEN <<>> ELSE <<n>> \o Spine(t, t.heap[n][s], s)

RECURSIVE Inorder(_, _)
Inorder(t, n) ==
  IF n = Null THEN <<>>
  ELSE Inorder(t, t.heap[n].l) \o <<t.heap[n].x>> \o Inorder(t, t.heap[n].r)

-----------------------------------------------------------------------------
(* The calls that only read, the same walks in every tree. *)

bst_contains(k) == Read("contains", <<k>>, Search(st, k) # Null)
bst_find(k) == LET n == Search(st, k)
               IN IF n = Null THEN Fail("find", <<k>>, "NOT_FOUND")
                  ELSE Read("find", <<k>>, st.heap[n].x[2])
bst_min == IF st.root = Null THEN Fail("min", <<>>, "EMPTY")
           ELSE Read("min", <<>>, st.heap[Last(Spine(st, st.root, "l"))].x[1])
bst_max == IF st.root = Null THEN Fail("max", <<>>, "EMPTY")
           ELSE Read("max", <<>>, st.heap[Last(Spine(st, st.root, "r"))].x[1])
bst_inorder == Read("inorder", <<>>, Inorder(st, st.root))
bst_count == Read("count", <<>>, st.count)

\* The iterative destroy needs a stack: without memory for it the tree is
\* left as it is.
bst_destroy(mem) ==
  IF st.root # Null /\ ~mem THEN Fail("destroy", <<>>, "OUT_OF_MEMORY")
  ELSE Done("destroy", <<>>, EmptyTree, "OK", None)

-----------------------------------------------------------------------------
(* Insertion and removal without balancing. *)

\* Node n, a new one, linked under the last node of the path p.
Attached(t, p, n, node) ==
  LET h == (n :> node) @@ t.heap
  IN IF p = <<>> THEN [t EXCEPT !.root = n, !.count = 1, !.heap = h]
     ELSE [t EXCEPT !.count = @ + 1,
                    !.heap = [h EXCEPT ![Last(p)] = [@ EXCEPT ![Side(t, Last(p), node.x[1])] = n]]]

\* The parent of n, the node before it on a path (Null for the root), gets
\* child in its place.
Replaced(t, parent, n, child) ==
  IF parent = Null THEN [t EXCEPT !.root = child]
  ELSE LET s == IF t.heap[parent].l = n THEN "l" ELSE "r"
       IN [t EXCEPT !.heap[parent] = [@ EXCEPT ![s] = child]]
Freed(t, n) == [t EXCEPT !.heap = FreeNode(@, n)]
Before(p) == IF Len(p) < 2 THEN Null ELSE p[Len(p) - 1]

\* Every insert allocates a node first, and frees it again when the key is
\* there and its element is overwritten.
Insert(e, mem, New(_)) ==
  LET n == Search(st, e[1])
  IN IF ~mem THEN Fail("insert", e, "OUT_OF_MEMORY")
     ELSE Done("insert", e, IF n # Null THEN [st EXCEPT !.heap[n].x = e]
                            ELSE New(Descend(st, st.root, e[1])), "OK", None)

bst_create_node(e) == [x |-> e, l |-> Null, r |-> Null]
bst_insert(e, mem) ==
  LET New(p) == Attached(st, p, Fresh(st.heap), bst_create_node(e)) IN Insert(e, mem, New)

\* A node with two children takes its successor's element and the successor
\* goes, with its right child in its place.
bst_removed(t, k) ==
  LET p == Descend(t, t.root, k)
      n == Last(p)
      q == p \o Spine(t, t.heap[n].r, "l")
      two == t.heap[n].l # Null /\ t.heap[n].r # Null
      gone == IF two THEN Last(q) ELSE n
      child == IF t.heap[gone].l # Null THEN t.heap[gone].l ELSE t.heap[gone].r
      copied == [t EXCEPT !.heap[n].x = t.heap[gone].x, !.count = @ - 1]
  IN Freed(Replaced(copied, IF two THEN Before(q) ELSE Before(p), gone, child), gone)

RemoveBy(k, Removed(_, _)) ==
  IF Search(st, k) = Null THEN Fail("remove", <<k>>, "NOT_FOUND")
  ELSE Done("remove", <<k>>, Removed(st, k), "OK", None)

bst_remove(k) == RemoveBy(k, bst_removed)

cbst_insert(e, mem) == bst_insert(e, mem)
cbst_remove(k) == bst_remove(k)
cbst_contains(k) == bst_contains(k)
cbst_find(k) == bst_find(k)
cbst_destroy(mem) == bst_destroy(mem)

BstNext ==
  \/ bst_min \/ bst_max \/ bst_inorder \/ bst_count
  \/ \E mem \in BOOLEAN : bst_destroy(mem)
  \/ \E e \in Elements, mem \in BOOLEAN : bst_insert(e, mem)
  \/ \E k \in Keys : bst_contains(k) \/ bst_find(k) \/ bst_remove(k)
CBstNext ==
  \/ bst_count
  \/ \E mem \in BOOLEAN : cbst_destroy(mem)
  \/ \E e \in Elements, mem \in BOOLEAN : cbst_insert(e, mem)
  \/ \E k \in Keys : cbst_contains(k) \/ cbst_find(k) \/ cbst_remove(k)

-----------------------------------------------------------------------------
(* scl_avl.  Its nodes keep the height of their subtree: 0 for a leaf, and *)
(* 1 in the concurrent one, which counts a missing subtree as 0 and not -1 *)
(* (the base of the tree, below).                                          *)

avl_init == [root |-> Null, count |-> 0, heap |-> <<>>, base |-> -1, live |-> TRUE]
cavl_init == [avl_init EXCEPT !.base = 0]

height(t, n) == IF n = Null THEN t.base ELSE t.heap[n].h
update_height(t, n) ==
  LET a == height(t, t.heap[n].l)
      b == height(t, t.heap[n].r)
  IN [t EXCEPT !.heap[n].h = 1 + (IF a > b THEN a ELSE b)]
balance(t, n) == height(t, t.heap[n].l) - height(t, t.heap[n].r)

\* y's child x on side s comes up in y's place; the caller links it.
avl_rotate(t, y, s) ==
  LET x == t.heap[y][s]
      o == Other(s)
      h1 == [t.heap EXCEPT ![y] = [@ EXCEPT ![s] = t.heap[x][o]]]
  IN update_height(update_height([t EXCEPT !.heap = [h1 EXCEPT ![x] = [@ EXCEPT ![o] = y]]], y), x)

\* One node of the path on the way up: it is rotated when one side is two
\* higher, twice when the high child leans the other way.
avl_balance_node(t, n, parent) ==
  LET b == balance(t, n)
      s == IF b > 0 THEN "l" ELSE "r"
      child == t.heap[n][s]
      leans == IF b > 0 THEN balance(t, child) < 0 ELSE balance(t, child) > 0
      inner == avl_rotate(t, child, Other(s))
      t1 == IF leans THEN [inner EXCEPT !.heap[n] = [@ EXCEPT ![s] = t.heap[child][Other(s)]]] ELSE t
  IN IF b \in -1..1 THEN update_height(t, n)
     ELSE Replaced(avl_rotate(t1, n, s), parent, n, t1.heap[n][s])

\* From the end of the path up to the root.
RECURSIVE Rebalanced(_, _)
Rebalanced(t, p) ==
  IF p = <<>> THEN t ELSE Rebalanced(avl_balance_node(t, Last(p), Before(p)), Front(p))

avl_create_node(e) == [x |-> e, l |-> Null, r |-> Null, h |-> st.base + 1]
avl_insert(e, mem) ==
  LET New(p) == Rebalanced(Attached(st, p, Fresh(st.heap), avl_create_node(e)), p)
  IN Insert(e, mem, New)

\* A node with at most one child is cut out.  With two, path[succ_idx] is
\* written twice, so what the code takes for the successor's parent is the
\* successor itself: it is freed while the tree still links to it, and what
\* the tree does from then on is undefined (live is FALSE and nothing follows).
avl_removed(t, k) ==
  LET p == Descend(t, t.root, k)
      n == Last(p)
      child == IF t.heap[n].l # Null THEN t.heap[n].l ELSE t.heap[n].r
  IN IF t.heap[n].l # Null /\ t.heap[n].r # Null
     THEN [Freed(t, Last(Spine(t, t.heap[n].r, "l"))) EXCEPT !.live = FALSE]
     ELSE Rebalanced([Freed(Replaced(t, Before(p), n, child), n) EXCEPT !.count = @ - 1], Front(p))

avl_remove(k) == RemoveBy(k, avl_removed)

avl_destroy(mem) ==
  IF st.root # Null /\ ~mem THEN Fail("destroy", <<>>, "OUT_OF_MEMORY")
  ELSE Done("destroy", <<>>, [st EXCEPT !.root = Null, !.count = 0, !.heap = <<>>], "OK", None)

avl_contains(k) == bst_contains(k)
avl_find(k) == bst_find(k)
avl_min == bst_min
avl_max == bst_max
avl_inorder == bst_inorder

cavl_insert(e, mem) == avl_insert(e, mem)
cavl_remove(k) == avl_remove(k)
cavl_contains(k) == bst_contains(k)
cavl_find(k) == bst_find(k)
cavl_destroy(mem) == avl_destroy(mem)

AvlNext ==
  /\ st.live
  /\ \/ avl_min \/ avl_max \/ avl_inorder \/ bst_count
     \/ \E mem \in BOOLEAN : avl_destroy(mem)
     \/ \E e \in Elements, mem \in BOOLEAN : avl_insert(e, mem)
     \/ \E k \in Keys : avl_contains(k) \/ avl_find(k) \/ avl_remove(k)
CAvlNext ==
  /\ st.live
  /\ \/ bst_count
     \/ \E mem \in BOOLEAN : cavl_destroy(mem)
     \/ \E e \in Elements, mem \in BOOLEAN : cavl_insert(e, mem)
     \/ \E k \in Keys : cavl_contains(k) \/ cavl_find(k) \/ cavl_remove(k)

-----------------------------------------------------------------------------
(* scl_rbtree.  A node has a parent link and a colour and keeps its key as *)
(* long as it lives: the key is its address here.                          *)

rbtree_create_node(e) == [x |-> e, l |-> Null, r |-> Null, p |-> Null, red |-> TRUE]

is_red(t, n) == n # Null /\ t.heap[n].red
Parent(t, n) == t.heap[n].p
Paint(t, n, red) == IF n = Null THEN t ELSE [t EXCEPT !.heap[n].red = red]
SetParent(t, n, p) == IF n = Null THEN t ELSE [t EXCEPT !.heap[n].p = p]
SetChild(t, n, s, c) == [t EXCEPT !.heap[n] = [@ EXCEPT ![s] = c]]

\* v takes u's place under u's parent.
transplant(t, u, v) == SetParent(Replaced(t, Parent(t, u), u, v), v, Parent(t, u))

\* x goes down on side s and its child on the other side comes up.
rbtree_rotate(t, x, s) ==
  LET o == Other(s)
      y == t.heap[x][o]
      inner == t.heap[y][s]
      t1 == SetParent(SetChild(t, x, o, inner), inner, x)
      t2 == transplant(t1, x, y)
  IN SetParent(SetChild(t2, y, s, x), x, y)

\* A red uncle is repainted and the violation moves two levels up; else one
\* or two rotations end it.
RECURSIVE rbtree_insert_fixup(_, _)
rbtree_insert_fixup(t, z) ==
  LET p == Parent(t, z)
      g == Parent(t, p)
      s == IF p = t.heap[g].l THEN "l" ELSE "r"
      y == t.heap[g][Other(s)]
      inside == z = t.heap[p][Other(s)]
      t1 == IF inside THEN rbtree_rotate(t, p, s) ELSE t
      z1 == IF inside THEN p ELSE z
      t2 == Paint(Paint(t1, Parent(t1, z1), FALSE), g, TRUE)
  IN IF ~is_red(t, Parent(t, z)) THEN Paint(t, t.root, FALSE)
     ELSE IF is_red(t, y)
     THEN rbtree_insert_fixup(Paint(Paint(Paint(t, p, FALSE), y, FALSE), g, TRUE), g)
     ELSE rbtree_insert_fixup(rbtree_rotate(t2, g, Other(s)), z1)

rbtree_insert(e, mem) ==
  LET k == e[1]
      New(p) == rbtree_insert_fixup(
                  SetParent(Attached(st, p, k, rbtree_create_node(e)), k,
                            IF p = <<>> THEN Null ELSE Last(p)), k)
  IN Insert(e, mem, New)

\* x, child of xp on side s, is short of one black node.
rbtree_remove_fixup_NoPush(t, x, xp) == \* a black sibling's family is not repainted
  Paint(t, IF x = Null THEN xp ELSE x, FALSE)
RECURSIVE rbtree_remove_fixup(_, _, _)
rbtree_remove_fixup(t, x, xp) ==
  LET s == IF x = t.heap[xp].l THEN "l" ELSE "r"
      o == Other(s)
      w0 == t.heap[xp][o]
      t1 == IF is_red(t, w0) THEN rbtree_rotate(Paint(Paint(t, w0, FALSE), xp, TRUE), xp, s) ELSE t
      w1 == t1.heap[xp][o]
      near == t1.heap[w1][s]
      farBlack == ~is_red(t1, t1.heap[w1][o])
      t2 == IF farBlack THEN rbtree_rotate(Paint(Paint(t1, near, FALSE), w1, TRUE), w1, o) ELSE t1
      w2 == t2.heap[xp][o]
      t3 == Paint(Paint(Paint(t2, w2, t2.heap[xp].red), xp, FALSE), t2.heap[w2][o], FALSE)
  IN IF x = t.root \/ is_red(t, x) THEN Paint(t, x, FALSE)
     ELSE IF ~is_red(t1, near) /\ farBlack
     THEN rbtree_remove_fixup(Paint(t1, w1, TRUE), xp, Parent(t1, xp))
     ELSE LET t4 == rbtree_rotate(t3, xp, s) IN Paint(t4, t4.root, FALSE)

\* The node z is cut out; with two children its successor y takes its place
\* and colour.  The colour that left the tree decides about the fixup.
rbtree_removed(t, z) ==
  LET l == t.heap[z].l
      r == t.heap[z].r
      one == IF l = Null THEN r ELSE l
      y == Last(Spine(t, r, "l"))
      x == t.heap[y].r
      direct == Parent(t, y) = z
      t1 == IF direct THEN SetParent(t, x, y)
            ELSE SetParent(SetChild(transplant(t, y, x), y, "r", r), r, y)
      t2 == SetParent(SetChild(transplant(t1, z, y), y, "l", l), l, y)
      cut == IF l = Null \/ r = Null
             THEN [t |-> transplant(t, z, one), x |-> one, xp |-> Parent(t, z),
                   red |-> t.heap[z].red]
             ELSE [t |-> Paint(t2, y, t.heap[z].red), x |-> x,
                   xp |-> IF direct THEN y ELSE Parent(t, y), red |-> t.heap[y].red]
      fixed == IF cut.red THEN cut.t ELSE rbtree_remove_fixup(cut.t, cut.x, cut.xp)
  IN [Freed(fixed, z) EXCEPT !.count = @ - 1]

rbtree_remove(k) == RemoveBy(k, rbtree_removed)

rbtree_contains(k) == bst_contains(k)
rbtree_find(k) == bst_find(k)
rbtree_min == bst_min
rbtree_max == bst_max
rbtree_inorder == bst_inorder
rbtree_destroy(mem) == bst_destroy(mem)

crbtree_insert(e, mem) == rbtree_insert(e, mem)
crbtree_remove(k) == rbtree_remove(k)
crbtree_contains(k) == bst_contains(k)
crbtree_find(k) == bst_find(k)
crbtree_destroy(mem) == bst_destroy(mem)

RbtreeNext ==
  \/ rbtree_min \/ rbtree_max \/ rbtree_inorder \/ bst_count
  \/ \E mem \in BOOLEAN : rbtree_destroy(mem)
  \/ \E e \in Elements, mem \in BOOLEAN : rbtree_insert(e, mem)
  \/ \E k \in Keys : rbtree_contains(k) \/ rbtree_find(k) \/ rbtree_remove(k)
CRbtreeNext ==
  \/ bst_count
  \/ \E mem \in BOOLEAN : crbtree_destroy(mem)
  \/ \E e \in Elements, mem \in BOOLEAN : crbtree_insert(e, mem)
  \/ \E k \in Keys : crbtree_contains(k) \/ crbtree_find(k) \/ crbtree_remove(k)

-----------------------------------------------------------------------------
(* What the trees are meant to look like. *)

RECURSIVE Reached(_, _)
Reached(t, n) == IF n = Null THEN {} ELSE {n} \cup Reached(t, t.heap[n].l) \cup Reached(t, t.heap[n].r)

Elems(t) == Inorder(t, t.root)
Shaped(t) ==
  /\ \A i, j \in 1..Len(Elems(t)) : i < j => Elems(t)[i][1] < Elems(t)[j][1]
  /\ t.count = Len(Elems(t))
  /\ DOMAIN t.heap = Reached(t, t.root)

\* Stored heights are the true ones and no node is out of balance.
AvlShaped(t) ==
  \A n \in DOMAIN t.heap :
    /\ balance(t, n) \in -1..1
    /\ t.heap[n].h = update_height(t, n).heap[n].h

\* The number of black nodes on every way down from n, or None.
RECURSIVE BlackHeight(_, _)
BlackHeight(t, n) ==
  IF n = Null THEN 0
  ELSE LET a == BlackHeight(t, t.heap[n].l)
           b == BlackHeight(t, t.heap[n].r)
       IN IF a = None \/ a # b THEN None ELSE a + (IF t.heap[n].red THEN 0 ELSE 1)

RbShaped(t) ==
  /\ ~is_red(t, t.root)
  /\ BlackHeight(t, t.root) # None
  /\ \A n \in DOMAIN t.heap :
       /\ is_red(t, n) => ~is_red(t, t.heap[n].l) /\ ~is_red(t, t.heap[n].r)
       /\ Parent(t, n) = (IF n = t.root THEN Null
                          ELSE CHOOSE m \in DOMAIN t.heap : n \in {t.heap[m].l, t.heap[m].r})
=============================================================================
