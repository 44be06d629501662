------------------------------- MODULE Lists -------------------------------
(***************************************************************************)
(* The linked lists (slist, dlist and the dlist guarded by a spinlock) and *)
(* the sharded arrays (sharded_array and the one guarded by a spinlock).   *)
(* A list is its head, tail, count and the nodes on the heap.              *)
(***************************************************************************)
EXTENDS Calls

CONSTANTS Values, MaxCount,
          ShardLen,  \* shard_len of the sharded arrays
          DirGrow    \* SCL_SHARDED_DIR_GROW

EmptyList == [head |-> Null, tail |-> Null, count |-> 0, heap |-> <<>>]
Room == st.count < MaxCount
Node(v, prev, next) == [val |-> v, prev |-> prev, next |-> next]

\* The node i steps along next from n, and along prev.
RECURSIVE Ahead(_, _, _)
Ahead(t, n, i) == IF i = 0 THEN n ELSE Ahead(t, t.heap[n].next, i - 1)
RECURSIVE Behind(_, _, _)
Behind(t, n, i) == IF i = 0 THEN n ELSE Behind(t, t.heap[n].prev, i - 1)

NodeAt(t, i) == Ahead(t, t.head, i - 1)
Listed(t) == [i \in 1..t.count |-> t.heap[NodeAt(t, i)].val]

\* Where a walk from the head first finds an element equal to k.
Hits(k) == {i \in 1..st.count : st.heap[NodeAt(st, i)].val = k}

SetNext(heap, n, m) == IF n = Null THEN heap ELSE [heap EXCEPT ![n].next = m]
SetPrev(heap, n, m) == IF n = Null THEN heap ELSE [heap EXCEPT ![n].prev = m]

-----------------------------------------------------------------------------
(* scl_slist *)

slist_init == EmptyList
slist_destroy == Done("destroy", <<>>, EmptyList, "OK", None)
slist_create_node(v, next) == NewNode(st.heap, Node(v, Null, next))

slist_push_front(v, mem) ==
  /\ Room
  /\ IF ~mem THEN Fail("push_front", <<v>>, "OUT_OF_MEMORY")
     ELSE LET n == Fresh(st.heap)
          IN Done("push_front", <<v>>,
                  [head |-> n, tail |-> IF st.tail = Null THEN n ELSE st.tail,
                   count |-> st.count + 1, heap |-> slist_create_node(v, st.head)], "OK", None)

slist_push_back(v, mem) ==
  /\ Room
  /\ IF ~mem THEN Fail("push_back", <<v>>, "OUT_OF_MEMORY")
     ELSE LET n == Fresh(st.heap)
          IN Done("push_back", <<v>>,
                  [head |-> IF st.tail = Null THEN n ELSE st.head, tail |-> n,
                   count |-> st.count + 1,
                   heap |-> SetNext(slist_create_node(v, Null), st.tail, n)], "OK", None)

slist_pop_front ==
  IF st.head = Null THEN Fail("pop_front", <<>>, "EMPTY")
  ELSE LET next == st.heap[st.head].next
       IN Done("pop_front", <<>>,
               [head |-> next, tail |-> IF next = Null THEN Null ELSE st.tail,
                count |-> st.count - 1, heap |-> FreeNode(st.heap, st.head)],
               "OK", st.heap[st.head].val)

slist_front ==
  IF st.head = Null THEN Fail("front", <<>>, "EMPTY") ELSE Read("front", <<>>, st.heap[st.head].val)
slist_back ==
  IF st.tail = Null THEN Fail("back", <<>>, "EMPTY") ELSE Read("back", <<>>, st.heap[st.tail].val)

slist_remove(k) ==
  IF Hits(k) = {} THEN Fail("remove", <<k>>, "NOT_FOUND")
  ELSE LET i == Min(Hits(k))
           cur == NodeAt(st, i)
           prev == IF i = 1 THEN Null ELSE NodeAt(st, i - 1)
           next == st.heap[cur].next
       IN Done("remove", <<k>>,
               [head |-> IF prev = Null THEN next ELSE st.head,
                tail |-> IF cur = st.tail THEN prev ELSE st.tail,
                count |-> st.count - 1, heap |-> FreeNode(SetNext(st.heap, prev, next), cur)],
               "OK", None)

slist_search(k) == IF Hits(k) = {} THEN Fail("find", <<k>>, "NOT_FOUND") ELSE Read("find", <<k>>, k)

SListNext ==
  \/ \E v \in Values, mem \in BOOLEAN : slist_push_front(v, mem) \/ slist_push_back(v, mem)
  \/ slist_pop_front \/ slist_front \/ slist_back \/ slist_destroy
  \/ \E k \in Values : slist_remove(k) \/ slist_search(k)

-----------------------------------------------------------------------------
(* scl_dlist *)

dlist_init == EmptyList
dlist_destroy == Done("destroy", <<>>, EmptyList, "OK", None)
dlist_create_node(v, prev, next) == NewNode(st.heap, Node(v, prev, next))

LinkedFront(v) ==
  LET n == Fresh(st.heap)
  IN [head |-> n, tail |-> IF st.head = Null THEN n ELSE st.tail, count |-> st.count + 1,
      heap |-> SetPrev(dlist_create_node(v, Null, st.head), st.head, n)]
LinkedBack(v) ==
  LET n == Fresh(st.heap)
  IN [head |-> IF st.tail = Null THEN n ELSE st.head, tail |-> n, count |-> st.count + 1,
      heap |-> SetNext(dlist_create_node(v, st.tail, Null), st.tail, n)]
LinkedBefore(v, cur) ==
  LET n == Fresh(st.heap)
      prev == st.heap[cur].prev
  IN [st EXCEPT !.count = @ + 1,
                !.heap = SetPrev(SetNext(dlist_create_node(v, prev, cur), prev, n), cur, n)]
UnlinkedFront ==
  LET next == st.heap[st.head].next
  IN [head |-> next, tail |-> IF next = Null THEN Null ELSE st.tail, count |-> st.count - 1,
      heap |-> FreeNode(SetPrev(st.heap, next, Null), st.head)]
UnlinkedBack ==
  LET prev == st.heap[st.tail].prev
  IN [head |-> IF prev = Null THEN Null ELSE st.head, tail |-> prev, count |-> st.count - 1,
      heap |-> FreeNode(SetNext(st.heap, prev, Null), st.tail)]
UnlinkedAt(cur) ==
  LET prev == st.heap[cur].prev
      next == st.heap[cur].next
  IN [st EXCEPT !.count = @ - 1,
                !.heap = FreeNode(SetPrev(SetNext(@, prev, next), next, prev), cur)]

dlist_push_front(v, mem) ==
  /\ Room
  /\ IF ~mem THEN Fail("push_front", <<v>>, "OUT_OF_MEMORY")
     ELSE Done("push_front", <<v>>, LinkedFront(v), "OK", None)
dlist_push_back(v, mem) ==
  /\ Room
  /\ IF ~mem THEN Fail("push_back", <<v>>, "OUT_OF_MEMORY")
     ELSE Done("push_back", <<v>>, LinkedBack(v), "OK", None)
dlist_pop_front ==
  IF st.head = Null THEN Fail("pop_front", <<>>, "EMPTY")
  ELSE Done("pop_front", <<>>, UnlinkedFront, "OK", st.heap[st.head].val)
dlist_pop_back ==
  IF st.tail = Null THEN Fail("pop_back", <<>>, "EMPTY")
  ELSE Done("pop_back", <<>>, UnlinkedBack, "OK", st.heap[st.tail].val)
dlist_front ==
  IF st.head = Null THEN Fail("front", <<>>, "EMPTY") ELSE Read("front", <<>>, st.heap[st.head].val)
dlist_back ==
  IF st.tail = Null THEN Fail("back", <<>>, "EMPTY") ELSE Read("back", <<>>, st.heap[st.tail].val)

\* From the nearer end: forwards up to the middle, else backwards.
dlist_at(i) ==
  IF i <= st.count \div 2 THEN Ahead(st, st.head, i) ELSE Behind(st, st.tail, st.count - 1 - i)

dlist_insert_at(i, v, mem) ==
  /\ Room
  /\ CASE i > st.count -> Fail("insert", <<i, v>>, "INVALID_INDEX")
       [] i <= st.count /\ ~mem -> Fail("insert", <<i, v>>, "OUT_OF_MEMORY")
       [] OTHER -> Done("insert", <<i, v>>,
                        IF i = 0 THEN LinkedFront(v)
                        ELSE IF i = st.count THEN LinkedBack(v)
                        ELSE LinkedBefore(v, dlist_at(i)), "OK", None)

dlist_remove_at(i) ==
  CASE i >= st.count -> Fail("remove_at", <<i>>, "INVALID_INDEX")
    [] i = 0 /\ st.count > 0 ->
         Done("remove_at", <<i>>, UnlinkedFront, "OK", st.heap[st.head].val)
    [] i > 0 /\ i = st.count - 1 ->
         Done("remove_at", <<i>>, UnlinkedBack, "OK", st.heap[st.tail].val)
    [] OTHER -> Done("remove_at", <<i>>, UnlinkedAt(dlist_at(i)), "OK", st.heap[dlist_at(i)].val)

dlist_remove(k) ==
  IF Hits(k) = {} THEN Fail("remove", <<k>>, "NOT_FOUND")
  ELSE LET cur == NodeAt(st, Min(Hits(k)))
           prev == st.heap[cur].prev
           next == st.heap[cur].next
       IN Done("remove", <<k>>,
               [UnlinkedAt(cur) EXCEPT !.head = IF prev = Null THEN next ELSE @,
                                       !.tail = IF next = Null THEN prev ELSE @], "OK", None)

dlist_search(k) == IF Hits(k) = {} THEN Fail("find", <<k>>, "NOT_FOUND") ELSE Read("find", <<k>>, k)

DListNext ==
  \/ \E v \in Values, mem \in BOOLEAN :
       \/ dlist_push_front(v, mem) \/ dlist_push_back(v, mem)
       \/ \E i \in 0..(st.count + 1) : dlist_insert_at(i, v, mem)
  \/ dlist_pop_front \/ dlist_pop_back \/ dlist_front \/ dlist_back \/ dlist_destroy
  \/ \E i \in 0..st.count : dlist_remove_at(i)
  \/ \E k \in Values : dlist_remove(k) \/ dlist_search(k)

-----------------------------------------------------------------------------
(* scl_concurrent_dlist: the node is made before the lock is taken *)

cdlist_init == EmptyList
cdlist_destroy == Done("destroy", <<>>, EmptyList, "OK", None)
cdlist_create_node(mem) == Room /\ mem
cdlist_push_front(v, mem) ==
  IF cdlist_create_node(mem) THEN Done("push_front", <<v>>, LinkedFront(v), "OK", None)
  ELSE Fail("push_front", <<v>>, "OUT_OF_MEMORY")
cdlist_push_back(v, mem) ==
  IF cdlist_create_node(mem) THEN Done("push_back", <<v>>, LinkedBack(v), "OK", None)
  ELSE Fail("push_back", <<v>>, "OUT_OF_MEMORY")
cdlist_pop_front ==
  IF st.head = Null THEN Fail("pop_front", <<>>, "EMPTY")
  ELSE Done("pop_front", <<>>, UnlinkedFront, "OK", st.heap[st.head].val)
cdlist_pop_back ==
  IF st.tail = Null THEN Fail("pop_back", <<>>, "EMPTY")
  ELSE Done("pop_back", <<>>, UnlinkedBack, "OK", st.heap[st.tail].val)

\* A node made for an index that turns out invalid is freed again.
cdlist_insert_at(i, v, mem) ==
  CASE ~cdlist_create_node(mem) -> Fail("insert", <<i, v>>, "OUT_OF_MEMORY")
    [] cdlist_create_node(mem) /\ i > st.count -> Fail("insert", <<i, v>>, "INVALID_INDEX")
    [] OTHER -> Done("insert", <<i, v>>,
                     IF i = 0 THEN LinkedFront(v)
                     ELSE IF i = st.count THEN LinkedBack(v)
                     ELSE LinkedBefore(v, Ahead(st, st.head, i)), "OK", None)
cdlist_remove_at(i) ==
  CASE i >= st.count -> Fail("remove_at", <<i>>, "INVALID_INDEX")
    [] i = 0 /\ st.count > 0 ->
         Done("remove_at", <<i>>, UnlinkedFront, "OK", st.heap[st.head].val)
    [] i > 0 /\ i = st.count - 1 ->
         Done("remove_at", <<i>>, UnlinkedBack, "OK", st.heap[st.tail].val)
    [] OTHER -> LET cur == Ahead(st, st.head, i)
                IN Done("remove_at", <<i>>, UnlinkedAt(cur), "OK", st.heap[cur].val)

CDListNext ==
  \/ \E v \in Values, mem \in BOOLEAN :
       \/ cdlist_push_front(v, mem) \/ cdlist_push_back(v, mem)
       \/ \E i \in 0..(st.count + 1) : cdlist_insert_at(i, v, mem)
  \/ cdlist_pop_front \/ cdlist_pop_back \/ cdlist_destroy
  \/ \E i \in 0..st.count : cdlist_remove_at(i)

-----------------------------------------------------------------------------
(* scl_sharded_array: shards of ShardLen elements that never move, and a   *)
(* directory of them that grows by DirGrow.                                *)

sharded_array_init == [shards |-> <<>>, dir |-> 0, count |-> 0]
sharded_array_destroy == Done("destroy", <<>>, sharded_array_init, "OK", None)

NewShard == [i \in 0..(ShardLen - 1) |-> None]
Sharded(t) == [i \in 1..t.count |-> t.shards[(i - 1) \div ShardLen + 1][(i - 1) % ShardLen]]

\* dmem and smem: whether there is memory for the directory and for the shard.
sharded_array_append(v, dmem, smem) ==
  LET shard == st.count \div ShardLen
      more == shard >= Len(st.shards)
      full == Len(st.shards) >= st.dir
      d == IF more /\ full THEN [st EXCEPT !.dir = @ + DirGrow] ELSE st
      t == IF more THEN [d EXCEPT !.shards = Append(@, NewShard)] ELSE st
  IN /\ Room
     /\ CASE more /\ full /\ ~dmem -> Fail("append", <<v>>, "OUT_OF_MEMORY")
          [] more /\ (full => dmem) /\ ~smem -> Done("append", <<v>>, d, "OUT_OF_MEMORY", None)
          [] OTHER -> Done("append", <<v>>,
                           [t EXCEPT !.shards[shard + 1][st.count % ShardLen] = v,
                                     !.count = @ + 1], "OK", st.count)

sharded_array_get(i) ==
  IF i >= st.count THEN Fail("get", <<i>>, "INVALID_INDEX")
  ELSE Read("get", <<i>>, st.shards[i \div ShardLen + 1][i % ShardLen])

ShardedNext ==
  \/ \E v \in Values, dmem, smem \in BOOLEAN : sharded_array_append(v, dmem, smem)
  \/ sharded_array_destroy \/ \E i \in 0..st.count : sharded_array_get(i)

(* scl_concurrent_sharded_array: the shards are a linked list *)

csa_init == [EmptyList EXCEPT !.count = 0]
csa_destroy == Done("destroy", <<>>, csa_init, "OK", None)
Chained(t) == [i \in 1..t.count |->
                 t.heap[Ahead(t, t.head, (i - 1) \div ShardLen)].val[(i - 1) % ShardLen]]

csa_append(v, mem) ==
  LET off == st.count % ShardLen
      n == Fresh(st.heap)
      t == IF off # 0 THEN st
           ELSE [st EXCEPT !.heap = SetNext(NewNode(@, Node(NewShard, Null, Null)), st.tail, n),
                           !.head = IF st.tail = Null THEN n ELSE @, !.tail = n]
  IN /\ Room
     /\ IF off = 0 /\ ~mem THEN Fail("append", <<v>>, "OUT_OF_MEMORY")
        ELSE Done("append", <<v>>,
                  [t EXCEPT !.heap[t.tail].val[off] = v, !.count = @ + 1], "OK", st.count)

csa_get(i) ==
  IF i >= st.count THEN Fail("get", <<i>>, "INVALID_INDEX")
  ELSE Read("get", <<i>>, st.heap[Ahead(st, st.head, i \div ShardLen)].val[i % ShardLen])

CsaNext ==
  \/ \E v \in Values, mem \in BOOLEAN : csa_append(v, mem)
  \/ csa_destroy \/ \E i \in 0..st.count : csa_get(i)
=============================================================================
