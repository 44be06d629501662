----------------------------- MODULE HashMaps -----------------------------
(***************************************************************************)
(* The maps that hash: hash (open addressing with tombstones), chash (one  *)
(* chain and one spinlock per bucket) and the LRU caches lru and clru      *)
(* (a chain per index slot and a list by age; clru under one spinlock).    *)
(* The hash function and the seed are the function homes of a behaviour.   *)
(* A destroyed map is given no further call.                               *)
(***************************************************************************)
EXTENDS Calls, SequencesExt

CONSTANTS Elements, \* pairs of a key and a value
          MaxCap    \* hash grows up to this capacity

Keys == {e[1] : e \in Elements}

Live == st # Gone

-----------------------------------------------------------------------------
(* scl_hash.  A slot is empty, a tombstone, or occupied by a key and value. *)

Vacant == <<"empty">>
Tomb == <<"tombstone">>
Occupied(s) == s[1] = "occupied"

hash_init(cap, home) ==
  [cap |-> BitCeil(cap), count |-> 0, home |-> home,
   slots |-> [i \in 0..(BitCeil(cap) - 1) |-> Vacant]]

\* The i-th slot that linear probing visits for k, and the first visited
\* slot that is in the set stop (cap when there is none).
Probe(t, k, i) == (t.home[k] + i) % t.cap
Stop(t, k, stop) ==
  LET hits == {i \in 0..(t.cap - 1) : Probe(t, k, i) \in stop}
  IN IF hits = {} THEN t.cap ELSE Min(hits)
Holding(t, k) == {i \in DOMAIN t.slots : Occupied(t.slots[i]) /\ t.slots[i][2] = k}
Slots(t, s) == {i \in DOMAIN t.slots : t.slots[i] = s}

\* get, contains and remove stop at an empty slot and pass tombstones.
Lookup_TombEnds(t, k) == \* a tombstone ends the probe
  LET i == Stop(t, k, Holding(t, k) \cup Slots(t, Vacant) \cup Slots(t, Tomb))
  IN IF i = t.cap \/ ~Occupied(t.slots[Probe(t, k, i)]) THEN None ELSE Probe(t, k, i)
Lookup(t, k) ==
  LET i == Stop(t, k, Holding(t, k) \cup Slots(t, Vacant))
  IN IF i = t.cap \/ t.slots[Probe(t, k, i)] = Vacant THEN None ELSE Probe(t, k, i)

\* The occupied slots move, in the order of their index, to the first free
\* slot that probing finds in a table twice the size.
hash_grow(t) ==
  LET empty == [hash_init(2 * t.cap, t.home) EXCEPT !.count = t.count]
      Place(u, i) ==
        LET s == t.slots[i]
            at == Probe(u, s[2], Stop(u, s[2], Slots(u, Vacant)))
        IN IF Occupied(s) THEN [u EXCEPT !.slots[at] = s] ELSE u
  IN FoldLeft(Place, empty, [j \in 1..t.cap |-> j - 1])

\* The first empty slot or tombstone is taken, unless the key comes before.
Landing(t, k) == Stop(t, k, Holding(t, k) \cup Slots(t, Vacant) \cup Slots(t, Tomb))
hash_put(t, k, v) ==
  LET at == Probe(t, k, Landing(t, k))
  IN [t EXCEPT !.slots[at] = <<"occupied", k, v>>,
               !.count = IF at \in Holding(t, k) THEN @ ELSE @ + 1]

hash_insert(k, v, mem) ==
  LET full == st.count * 3 >= st.cap * 2
      t == IF full THEN hash_grow(st) ELSE st
  IN /\ full => 2 * st.cap <= MaxCap
     /\ IF full /\ ~mem THEN Fail("insert", <<k, v>>, "OUT_OF_MEMORY")
        ELSE IF Landing(t, k) = t.cap THEN Done("insert", <<k, v>>, t, "FULL", None)
        ELSE Done("insert", <<k, v>>, hash_put(t, k, v), "OK", None)

hash_get(k) ==
  IF Lookup(st, k) = None THEN Fail("find", <<k>>, "NOT_FOUND")
  ELSE Read("find", <<k>>, st.slots[Lookup(st, k)][3])
hash_contains(k) == Read("contains", <<k>>, Lookup(st, k) # None)
hash_remove(k) ==
  IF Lookup(st, k) = None THEN Fail("remove", <<k>>, "NOT_FOUND")
  ELSE Done("remove", <<k>>, [st EXCEPT !.slots[Lookup(st, k)] = Tomb, !.count = @ - 1], "OK", None)
hash_count == Read("count", <<>>, st.count)
hash_destroy == Done("destroy", <<>>, Gone, "OK", None)

HashNext ==
  /\ Live
  /\ \/ \E k \in Keys : hash_get(k) \/ hash_contains(k) \/ hash_remove(k)
     \/ \E e \in Elements, mem \in BOOLEAN : hash_insert(e[1], e[2], mem)
     \/ hash_count \/ hash_destroy

-----------------------------------------------------------------------------
(* scl_chash.  A bucket's chain is a sequence of entries, the newest first. *)

chash_init(n, home) ==
  [cap |-> BitCeil(n), count |-> 0, home |-> home, chain |-> [b \in 0..(BitCeil(n) - 1) |-> <<>>]]

Bucket(k) == st.home[k] % st.cap
Entry(c, k) == SelectInSeq(c, LAMBDA e : e[1] = k) \* 0 when the chain has no k

chash_insert(k, v, mem) ==
  LET c == st.chain[Bucket(k)]
      i == Entry(c, k)
  IN IF i > 0 THEN Done("insert", <<k, v>>, [st EXCEPT !.chain[Bucket(k)] = ReplaceAt(c, i, <<k, v>>)], "OK", None)
     ELSE IF ~mem THEN Fail("insert", <<k, v>>, "OUT_OF_MEMORY")
     ELSE Done("insert", <<k, v>>, [st EXCEPT !.chain[Bucket(k)] = <<<<k, v>>>> \o c, !.count = @ + 1], "OK", None)
chash_get(k) ==
  LET c == st.chain[Bucket(k)]
      i == Entry(c, k)
  IN IF i = 0 THEN Fail("find", <<k>>, "NOT_FOUND") ELSE Read("find", <<k>>, c[i][2])
chash_contains(k) == Read("contains", <<k>>, Entry(st.chain[Bucket(k)], k) > 0)
chash_remove(k) ==
  LET c == st.chain[Bucket(k)]
      i == Entry(c, k)
  IN IF i = 0 THEN Fail("remove", <<k>>, "NOT_FOUND")
     ELSE Done("remove", <<k>>, [st EXCEPT !.chain[Bucket(k)] = RemoveAt(c, i), !.count = @ - 1], "OK", None)
chash_count == Read("count", <<>>, st.count)
chash_destroy == Done("destroy", <<>>, Gone, "OK", None)

CHashNext ==
  /\ Live
  /\ \/ \E k \in Keys : chash_get(k) \/ chash_contains(k) \/ chash_remove(k)
     \/ \E e \in Elements, mem \in BOOLEAN : chash_insert(e[1], e[2], mem)
     \/ chash_count \/ chash_destroy

-----------------------------------------------------------------------------
(* scl_lru.  A node keeps its key, so the key is its address here; keys    *)
(* are positive.  head and tail end the list by age, index heads the       *)
(* chains along next_hash.                                                 *)

lru_init(cap, home) ==
  [cap |-> cap, count |-> 0, home |-> home, head |-> Null, tail |-> Null,
   heap |-> <<>>, index |-> [i \in 0..(2 * cap - 1) |-> Null]]

lru_index_of(t, k) == t.home[k] % (2 * t.cap)

RECURSIVE Chain(_, _)
Chain(t, n) == IF n = Null THEN <<>> ELSE <<n>> \o Chain(t, t.heap[n].next_hash)
lru_find_node(t, k) == IF Contains(Chain(t, t.index[lru_index_of(t, k)]), k) THEN k ELSE Null

lru_detach(t, n) ==
  LET p == t.heap[n].prev
      x == t.heap[n].next
      t1 == IF p # Null THEN [t EXCEPT !.heap[p].next = x] ELSE [t EXCEPT !.head = x]
  IN IF x # Null THEN [t1 EXCEPT !.heap[x].prev = p] ELSE [t1 EXCEPT !.tail = p]

push_front(t, n) ==
  LET t1 == [t EXCEPT !.heap[n].prev = Null, !.heap[n].next = t.head]
      t2 == IF t.head # Null THEN [t1 EXCEPT !.heap[t.head].prev = n] ELSE t1
  IN [t2 EXCEPT !.head = n, !.tail = IF t.tail = Null THEN n ELSE @]

lru_move_to_front(t, n) == push_front(lru_detach(t, n), n)

\* n leaves its chain and is freed.
Unindexed_Head(t, n) == \* the whole chain is cut at the index
  [t EXCEPT !.index[lru_index_of(t, n)] = t.heap[n].next_hash, !.heap = FreeNode(@, n), !.count = @ - 1]
Unindexed(t, n) ==
  LET i == lru_index_of(t, n)
      c == Chain(t, t.index[i])
      at == SelectInSeq(c, LAMBDA m : m = n)
      t1 == IF at = 1 THEN [t EXCEPT !.index[i] = t.heap[n].next_hash]
            ELSE [t EXCEPT !.heap[c[at - 1]].next_hash = t.heap[n].next_hash]
  IN [t1 EXCEPT !.heap = FreeNode(@, n), !.count = @ - 1]

lru_evict(t) == IF t.tail = Null THEN t ELSE Unindexed(lru_detach(t, t.tail), t.tail)

\* When the cache is full the oldest entry goes before memory for the new
\* one is asked for.
lru_put(k, v, mem) ==
  LET t == IF st.count = st.cap THEN lru_evict(st) ELSE st
      i == lru_index_of(t, k)
      node == [val |-> v, prev |-> Null, next |-> Null, next_hash |-> t.index[i]]
      linked == push_front([t EXCEPT !.heap = (k :> node) @@ @], k)
  IN IF lru_find_node(st, k) # Null
     THEN Done("put", <<k, v>>, lru_move_to_front([st EXCEPT !.heap[k].val = v], k), "OK", None)
     ELSE IF ~mem THEN Done("put", <<k, v>>, t, "OUT_OF_MEMORY", None)
     ELSE Done("put", <<k, v>>, [linked EXCEPT !.index[i] = k, !.count = @ + 1], "OK", None)

lru_get(k) ==
  IF lru_find_node(st, k) = Null THEN Fail("get", <<k>>, "NOT_FOUND")
  ELSE Done("get", <<k>>, lru_move_to_front(st, k), "OK", st.heap[k].val)
lru_contains(k) == Read("contains", <<k>>, lru_find_node(st, k) # Null)
lru_remove(k) ==
  IF lru_find_node(st, k) = Null THEN Fail("remove", <<k>>, "NOT_FOUND")
  ELSE Done("remove", <<k>>, Unindexed(lru_detach(st, k), k), "OK", None)
lru_clear == Done("clear", <<>>, lru_init(st.cap, st.home), "OK", None)
lru_count == Read("count", <<>>, st.count)
lru_destroy == Done("destroy", <<>>, Gone, "OK", None)

clru_put(k, v, mem) == lru_put(k, v, mem)
clru_get(k) == lru_get(k)
clru_contains(k) == lru_contains(k)
clru_remove(k) == lru_remove(k)
clru_count == lru_count
clru_destroy == lru_destroy

LruNext ==
  /\ Live
  /\ \/ \E k \in Keys : lru_get(k) \/ lru_contains(k) \/ lru_remove(k)
     \/ \E e \in Elements, mem \in BOOLEAN : lru_put(e[1], e[2], mem)
     \/ lru_clear \/ lru_count \/ lru_destroy
CLruNext ==
  /\ Live
  /\ \/ \E k \in Keys : clru_get(k) \/ clru_contains(k) \/ clru_remove(k)
     \/ \E e \in Elements, mem \in BOOLEAN : clru_put(e[1], e[2], mem)
     \/ clru_count \/ clru_destroy

-----------------------------------------------------------------------------
(* What the structures hold, and what they are meant to look like. *)

HashMap(t) == [k \in {j \in Keys : Lookup(t, j) # None} |-> t.slots[Lookup(t, k)][3]]
\* Some key has two slots.
Doubled(t) == \E k \in Keys : Cardinality(Holding(t, k)) > 1
\* Every entry is found from its home, and count is the number of them.
HashShaped(t) ==
  /\ \A k \in Keys : Holding(t, k) # {} => Lookup(t, k) \in Holding(t, k)
  /\ t.count = Cardinality({i \in DOMAIN t.slots : Occupied(t.slots[i])})

CHashMap(t) ==
  LET all == UNION {Range(t.chain[b]) : b \in DOMAIN t.chain}
  IN [k \in {e[1] : e \in all} |-> (CHOOSE e \in all : e[1] = k)[2]]

\* The list from head along next, and its keys with values.
RECURSIVE ByAge(_, _)
ByAge(t, n) == IF n = Null THEN <<>> ELSE <<n>> \o ByAge(t, t.heap[n].next)
Aged(t) == LET l == ByAge(t, t.head) IN [i \in 1..Len(l) |-> <<l[i], t.heap[l[i]].val>>]
\* The list by age and the chains hold the same nodes, all of them, once.
LruShaped(t) ==
  LET l == ByAge(t, t.head)
      c == [i \in DOMAIN t.index |-> Chain(t, t.index[i])]
  IN /\ Len(l) = t.count /\ t.count <= t.cap /\ Range(l) = DOMAIN t.heap
     /\ \A i \in 1..Len(l) : t.heap[l[i]].prev = (IF i = 1 THEN Null ELSE l[i - 1])
     /\ t.tail = (IF l = <<>> THEN Null ELSE Last(l))
     /\ \A k \in DOMAIN t.heap : Contains(c[lru_index_of(t, k)], k)
     /\ \A i \in DOMAIN c : \A j \in 1..Len(c[i]) : lru_index_of(t, c[i][j]) = i
=============================================================================
