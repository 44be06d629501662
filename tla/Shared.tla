------------------------------- MODULE Shared -------------------------------
(***************************************************************************)
(* The containers for several threads that are not (or not everywhere)     *)
(* guarded by a lock: scl_concurrent_stack, _slist, _queue, _array,        *)
(* _ringbuf (its peek), _unionfind and _bloom.  Each atomic access is a    *)
(* step.  A popped node is freed at once, so a thread may read a freed     *)
(* one, and the allocator may hand its address out again.                  *)
(*                                                                         *)
(* Except for the stacks and the Bloom filter some calls must not overlap  *)
(* for the structure to work; Clash says which.  Overlap names the         *)
(* structures whose calls overlap all the same.                            *)
(***************************************************************************)
EXTENDS Integers, Sequences, FiniteSets, Functions

CONSTANTS
  Threads,
  Addr,       \* addresses of nodes
  Values,     \* elements
  MaxCalls,   \* bound on the calls of a behaviour
  Capacity,   \* of the array
  Points,     \* elements of the union-find
  Overlap

VARIABLES
  kind,       \* the structure
  sh,         \* what the threads share, with history
  loc         \* per thread, the call it is in and its locals

Null == 0
Idle == [op |-> "none", pc |-> "idle"]
At(t, l) == loc[t].pc = l
Quiet == \A t \in Threads : At(t, "idle")
Running == {loc[t].op : t \in Threads}

\* Calls that must not run at the same time.  A queue is either filled by
\* several threads and then drained by one, or has one thread on each side,
\* which is safe only until an enqueue leaves the tail behind (slipped).
Clash ==
  CASE kind = "cqueue" -> {{"dequeue"}, IF sh.phase = "batch" THEN {"enqueue", "dequeue"} ELSE {"enqueue"}}
    [] kind = "carray" -> {{"push", "pop"}, {"set", "pop"}, {"get", "pop"}, {"get", "push"}}
    [] kind = "cringbuf" -> {{"pop", "peek"}}
    [] kind = "cunionfind" -> {{"union"}}
    [] OTHER -> {}

\* f with the values that g has.
With(f, g) == [x \in DOMAIN f \cup DOMAIN g |-> IF x \in DOMAIN g THEN g[x] ELSE f[x]]

\* The first step of a call: it leaves s, and the locals r.
Begin(t, op, s, r) ==
  /\ At(t, "idle") /\ sh.calls < MaxCalls
  /\ kind \notin Overlap => \A o \in Running : {op, o} \notin Clash
  /\ sh' = [s EXCEPT !.calls = @ + 1]
  /\ loc' = [loc EXCEPT ![t] = With([op |-> op], r)]
  /\ UNCHANGED kind
Move(t, s, r) == sh' = s /\ loc' = [loc EXCEPT ![t] = With(@, r)] /\ UNCHANGED kind
Return(t, s) == sh' = s /\ loc' = [loc EXCEPT ![t] = Idle] /\ UNCHANGED kind
To(l) == [pc |-> l]
\* History: a call touched freed memory or handed out a wrong element.
Spoilt(s, wrong) == [s EXCEPT !.bad = @ \/ wrong]

\* malloc returns any address that is not in use.
Alloc(t, op, node, r) ==
  \E a \in Addr \ DOMAIN sh.node :
    Begin(t, op, [sh EXCEPT !.node = With(@, [x \in {a} |-> node])], With(r, [a |-> a]))
Freed(s, a) == [s EXCEPT !.node = Restrict(@, DOMAIN @ \ {a})]

-----------------------------------------------------------------------------
(* scl_cstack and scl_cslist: a Treiber stack with a tag.  content is what *)
(* the pushes and pops that took effect should have left, newest first.    *)

cstack_init ==
  [top |-> [ptr |-> Null, tag |-> 0], node |-> <<>>, count |-> 0,
   content |-> <<>>, bad |-> FALSE, calls |-> 0]
cstack_destroy == Quiet /\ sh.calls < MaxCalls /\ sh' = [cstack_init EXCEPT !.calls = sh.calls + 1] /\ UNCHANGED <<kind, loc>>

cstack_push(t, v) ==
  Alloc(t, "push", [val |-> v, next |-> sh.top.ptr], [pc |-> "pushCas", old |-> sh.top])
CasPush(t) ==
  /\ At(t, "pushCas")
  /\ IF loc[t].old = sh.top
     THEN Move(t, [sh EXCEPT !.top = [ptr |-> loc[t].a, tag |-> @.tag + 1],
                             !.content = <<sh.node[loc[t].a].val>> \o @], To("raise"))
     ELSE Move(t, [sh EXCEPT !.node[loc[t].a].next = sh.top.ptr], [old |-> sh.top])
Raise(t) == At(t, "raise") /\ Return(t, [sh EXCEPT !.count = @ + 1])

cstack_pop(t) == Begin(t, "pop", sh, [pc |-> "look", old |-> sh.top])
\* The link of a node that may be free by now: then it is anything.
Look(t) ==
  /\ At(t, "look")
  /\ IF loc[t].old.ptr = Null THEN Return(t, sh)
     ELSE \E n \in IF loc[t].old.ptr \in DOMAIN sh.node THEN {sh.node[loc[t].old.ptr].next}
                   ELSE Addr \cup {Null} :
            Move(t, sh, [pc |-> "popCas", next |-> n])
\* The exchange is the weak one, which may fail for no reason.
CasPop(t) ==
  /\ At(t, "popCas")
  /\ \/ /\ loc[t].old = sh.top
        /\ Move(t, [sh EXCEPT !.top = [ptr |-> loc[t].next, tag |-> @.tag + 1], !.content = Tail(@)],
                [pc |-> "take", want |-> Head(sh.content)])
     \/ Move(t, sh, [pc |-> "look", old |-> sh.top])
Take(t) ==
  /\ At(t, "take")
  /\ Move(t, Spoilt(Freed(sh, loc[t].old.ptr), sh.node[loc[t].old.ptr].val # loc[t].want), To("lower"))
Lower(t) == At(t, "lower") /\ Return(t, [sh EXCEPT !.count = @ - 1])

cslist_init == cstack_init
cslist_destroy == cstack_destroy
cslist_push_front(t, v) == cstack_push(t, v)
cslist_pop_front(t) == cstack_pop(t)

StackSteps(t) == CasPush(t) \/ Raise(t) \/ Look(t) \/ CasPop(t) \/ Take(t) \/ Lower(t)
StackNext ==
  cstack_destroy \/ \E t \in Threads : StackSteps(t) \/ cstack_pop(t) \/ \E v \in Values : cstack_push(t, v)
SlistNext ==
  cslist_destroy \/ \E t \in Threads : StackSteps(t) \/ cslist_pop_front(t) \/ \E v \in Values : cslist_push_front(t, v)

-----------------------------------------------------------------------------
(* scl_cqueue: Michael and Scott's queue, with a dummy node in front; the  *)
(* tail may lag behind.  Every exchange is the weak one, which may fail    *)
(* for no reason.  History: slipped, that the exchange that ends an        *)
(* enqueue, which is not tried again, did so with one thread on each side: *)
(* the tail is behind with no enqueue running.                             *)

cqueue_init ==
  [head |-> 1, tail |-> 1, node |-> [a \in {1} |-> [val |-> Null, next |-> Null]], count |-> 0,
   content |-> <<>>, phase |-> "batch", slipped |-> FALSE, bad |-> FALSE, calls |-> 0]
cqueue_destroy ==
  /\ Quiet /\ sh.calls < MaxCalls
  /\ sh' = [cqueue_init EXCEPT !.calls = sh.calls + 1, !.slipped = sh.slipped] /\ UNCHANGED <<kind, loc>>
\* Several enqueues may leave the tail behind, where a dequeue can free it under
\* an enqueue: only an empty queue may go over to one thread on each side.
ChangePhase(p) ==
  /\ Quiet /\ sh.phase # p /\ (p = "pipe" => sh.content = <<>>)
  /\ sh' = [sh EXCEPT !.phase = p] /\ UNCHANGED <<kind, loc>>

NextOf(a) == IF a \in DOMAIN sh.node THEN sh.node[a].next ELSE Null
Gone(a) == a \notin DOMAIN sh.node
\* What a weak compare-exchange of the tail may leave.
Swung(from, to) == {sh} \cup {s \in {[sh EXCEPT !.tail = to]} : sh.tail = from}
Slips(s, failed) == [s EXCEPT !.slipped = @ \/ (failed /\ sh.phase = "pipe")]

cqueue_enqueue(t, v) == Alloc(t, "enqueue", [val |-> v, next |-> Null], To("eTail"))
EnqueueSteps(t) ==
  LET me == loc[t]
  IN \/ At(t, "eTail") /\ Move(t, sh, [pc |-> "eNext", tail |-> sh.tail])
     \/ At(t, "eNext") /\ Move(t, Spoilt(sh, Gone(me.tail)), [pc |-> "eCheck", next |-> NextOf(me.tail)])
     \/ At(t, "eCheck") /\ Move(t, sh, To(IF me.tail # sh.tail THEN "eTail"
                                          ELSE IF me.next = Null THEN "eLink" ELSE "eHelp"))
     \/ /\ At(t, "eLink")
        /\ \/ Gone(me.tail) /\ Return(t, Spoilt(sh, TRUE))
           \/ ~Gone(me.tail) /\ Move(t, sh, To("eTail"))
           \/ /\ ~Gone(me.tail) /\ NextOf(me.tail) = Null
              /\ Move(t, [sh EXCEPT !.node[me.tail].next = me.a,
                                   !.content = Append(@, sh.node[me.a].val)], To("eOld"))
     \/ At(t, "eHelp") /\ \E s \in Swung(me.tail, me.next) : Move(t, s, To("eTail"))
     \/ At(t, "eOld") /\ Move(t, sh, [pc |-> "eSwing", tail |-> sh.tail])
     \/ /\ At(t, "eSwing")
        /\ \E s \in Swung(me.tail, me.a) : Move(t, Slips(s, sh.tail = me.tail /\ s.tail # me.a), To("raise"))
     \/ Raise(t)

cqueue_dequeue(t) == Begin(t, "dequeue", sh, To("dHead"))
\* Mutant: the head may overtake the tail.
DequeueCheck_Overtakes(t) ==
  /\ At(t, "dCheck")
  /\ IF loc[t].head # sh.head THEN Move(t, sh, To("dHead"))
     ELSE IF loc[t].next = Null THEN Return(t, Spoilt(sh, ~loc[t].empty))
     ELSE Move(t, sh, To("dCopy"))
\* EMPTY is right if the queue was empty when the link was read.
DequeueCheck(t) ==
  /\ At(t, "dCheck")
  /\ IF loc[t].head # sh.head THEN Move(t, sh, To("dHead"))
     ELSE IF loc[t].head = loc[t].tail
     THEN IF loc[t].next = Null THEN Return(t, Spoilt(sh, ~loc[t].empty)) ELSE Move(t, sh, To("dHelp"))
     ELSE Move(t, sh, To(IF loc[t].next = Null THEN "dHead" ELSE "dCopy"))
DequeueSteps(t) ==
  LET me == loc[t]
  IN \/ At(t, "dHead") /\ Move(t, sh, [pc |-> "dTail", head |-> sh.head])
     \/ At(t, "dTail") /\ Move(t, sh, [pc |-> "dNext", tail |-> sh.tail])
     \/ At(t, "dNext") /\ Move(t, Spoilt(sh, Gone(me.head)),
                               [pc |-> "dCheck", next |-> NextOf(me.head), empty |-> sh.content = <<>>])
     \/ DequeueCheck(t)
     \/ At(t, "dHelp") /\ \E s \in Swung(me.tail, me.next) : Move(t, s, To("dHead"))
     \/ At(t, "dCopy") /\ Move(t, Spoilt(sh, Gone(me.next)),
                               [pc |-> "dCas", out |-> IF Gone(me.next) THEN Null ELSE sh.node[me.next].val])
     \/ /\ At(t, "dCas")
        /\ \/ Move(t, sh, To("dHead"))
           \/ /\ me.head = sh.head
              /\ Move(t, Spoilt([sh EXCEPT !.head = me.next, !.content = Tail(@)],
                               Head(sh.content) # me.out), To("dFree"))
     \/ At(t, "dFree") /\ Move(t, Freed(sh, me.head), To("lower"))
     \/ Lower(t)
QueueNext ==
  \/ cqueue_destroy
  \/ \E p \in {"batch", "pipe"} : ChangePhase(p)
  \/ \E t \in Threads :
       EnqueueSteps(t) \/ DequeueSteps(t) \/ cqueue_dequeue(t) \/ \E v \in Values : cqueue_enqueue(t, v)

-----------------------------------------------------------------------------
(* scl_carray: push and pop move the count first and then copy the slot.   *)
(* fresh has the slots written since the push that claimed them.           *)

carray_init == [count |-> 0, fresh |-> {}, bad |-> FALSE, calls |-> 0]
carray_destroy == Quiet /\ sh.calls < MaxCalls /\ sh' = [carray_init EXCEPT !.calls = sh.calls + 1] /\ UNCHANGED <<kind, loc>>

carray_push(t) == Begin(t, "push", sh, [pc |-> "claim", old |-> sh.count])
Claim(t) ==
  /\ At(t, "claim")
  /\ IF loc[t].old >= Capacity THEN Return(t, sh)
     ELSE IF loc[t].old = sh.count
     THEN Move(t, [sh EXCEPT !.count = @ + 1, !.fresh = @ \ {loc[t].old}], To("copyIn"))
     ELSE Move(t, sh, [old |-> sh.count])
CopyIn(t) == At(t, "copyIn") /\ Return(t, [sh EXCEPT !.fresh = @ \cup {loc[t].old}])

carray_pop(t) == Begin(t, "pop", sh, [pc |-> "release", old |-> sh.count])
Release(t) ==
  /\ At(t, "release")
  /\ IF loc[t].old = 0 THEN Return(t, sh)
     ELSE IF loc[t].old = sh.count THEN Move(t, [sh EXCEPT !.count = @ - 1], To("copyOut"))
     ELSE Move(t, sh, [old |-> sh.count])
CopyOut(t) == At(t, "copyOut") /\ Return(t, Spoilt(sh, loc[t].old - 1 \notin sh.fresh))

carray_get(t, i) == i < sh.count /\ Begin(t, "get", sh, [pc |-> "getCopy", i |-> i])
carray_set(t, i) == i < sh.count /\ Begin(t, "set", sh, [pc |-> "setCopy", i |-> i])
GetCopy(t) == At(t, "getCopy") /\ Return(t, Spoilt(sh, loc[t].i \notin sh.fresh))
\* A set may write before the push that claimed the slot does.
SetCopy(t) == At(t, "setCopy") /\ Return(t, sh)
ArrayNext ==
  carray_destroy \/ \E t \in Threads :
    \/ carray_push(t) \/ Claim(t) \/ CopyIn(t)
    \/ carray_pop(t) \/ Release(t) \/ CopyOut(t)
    \/ GetCopy(t) \/ SetCopy(t)
    \/ \E i \in 0..(Capacity - 1) : carray_get(t, i) \/ carray_set(t, i)

-----------------------------------------------------------------------------
(* scl_cringbuf: push and pop hold the lock, peek does not.                *)

cringbuf_init ==
  [data |-> [i \in 0..1 |-> Null], head |-> 0, count |-> 0, lock |-> FALSE,
   content |-> <<>>, bad |-> FALSE, calls |-> 0]
Size == Cardinality(DOMAIN sh.data)

Locking(t, op, r) == ~sh.lock /\ Begin(t, op, [sh EXCEPT !.lock = TRUE], r)
cringbuf_push(t, v) == Locking(t, "push", [pc |-> "fill", v |-> v])
Fill(t) ==
  /\ At(t, "fill")
  /\ IF sh.count = Size THEN Return(t, [sh EXCEPT !.lock = FALSE])
     ELSE Move(t, [sh EXCEPT !.data[(sh.head + sh.count) % Size] = loc[t].v], To("publish"))
Publish(t) ==
  /\ At(t, "publish")
  /\ Move(t, [sh EXCEPT !.count = @ + 1, !.content = Append(@, loc[t].v)], To("unlock"))
Unlock(t) == At(t, "unlock") /\ Return(t, [sh EXCEPT !.lock = FALSE])

cringbuf_pop(t) == Locking(t, "pop", To("first"))
First(t) ==
  /\ At(t, "first")
  /\ IF sh.count = 0 THEN Return(t, [sh EXCEPT !.lock = FALSE])
     ELSE Move(t, Spoilt(sh, sh.data[sh.head] # Head(sh.content)), To("advance"))
Advance(t) == At(t, "advance") /\ Move(t, [sh EXCEPT !.head = (@ + 1) % Size], To("shrink"))
Shrink(t) ==
  At(t, "shrink") /\ Move(t, [sh EXCEPT !.count = @ - 1, !.content = Tail(@)], To("unlock"))

cringbuf_peek(t, i) == i < sh.count /\ Begin(t, "peek", sh, [pc |-> "peekHead", i |-> i])
PeekHead(t) == At(t, "peekHead") /\ Move(t, sh, [pc |-> "peekCopy", slot |-> (sh.head + loc[t].i) % Size])
PeekCopy(t) ==
  At(t, "peekCopy") /\ Return(t, Spoilt(sh, sh.data[loc[t].slot] # sh.content[loc[t].i + 1]))
RingNext ==
  \E t \in Threads :
    \/ Fill(t) \/ Publish(t) \/ Unlock(t) \/ First(t) \/ Advance(t) \/ Shrink(t)
    \/ PeekHead(t) \/ PeekCopy(t)
    \/ cringbuf_pop(t) \/ (\E v \in Values : cringbuf_push(t, v))
    \/ \E i \in 0..1 : cringbuf_peek(t, i)

-----------------------------------------------------------------------------
(* scl_cunionfind; class has the classes the unions so far have made.      *)

cunionfind_init ==
  [parent |-> [x \in Points |-> x], rank |-> [x \in Points |-> 0], sets |-> Cardinality(Points),
   class |-> {{x} : x \in Points}, links |-> 0, bad |-> FALSE, calls |-> 0]
Same(x, y) == \E c \in sh.class : x \in c /\ y \in c

\* Each of them starts with find(x); connected and union go on with find(y).
cunionfind_find(t, x) == Begin(t, "find", sh, [pc |-> "load", x |-> x, from |-> x])
cunionfind_connected(t, x, y) ==
  Begin(t, "connected", sh, [pc |-> "load", x |-> x, from |-> x, y |-> y, seen |-> sh.links])
cunionfind_union(t, x, y) == Begin(t, "union", sh, [pc |-> "load", x |-> x, from |-> x, y |-> y])

\* What the call does with the root it found.  connected finds two different
\* roots of one class only if a union moved the first one meanwhile.
Found(t, r) ==
  LET me == loc[t]
  IN IF me.op = "find" THEN Return(t, Spoilt(sh, ~Same(me.from, r)))
     ELSE IF "rx" \notin DOMAIN me THEN Move(t, sh, [rx |-> r, x |-> me.y])
     ELSE IF me.op = "connected"
     THEN Return(t, Spoilt(sh, IF me.rx = r THEN ~Same(me.from, me.y)
                               ELSE Same(me.from, me.y) /\ sh.links = me.seen))
     ELSE IF me.rx = r THEN Return(t, sh)
     ELSE Move(t, sh, [pc |-> "link", ry |-> r, kx |-> sh.rank[me.rx], ky |-> sh.rank[r]])
FindSteps(t) ==
  LET me == loc[t]
  IN \/ /\ At(t, "load")
        /\ IF sh.parent[me.x] = me.x THEN Found(t, me.x)
           ELSE Move(t, sh, [pc |-> "grand", p |-> sh.parent[me.x]])
     \/ At(t, "grand") /\ Move(t, sh, [pc |-> "halve", gp |-> sh.parent[me.p]])
     \/ /\ At(t, "halve")
        /\ IF sh.parent[me.x] = me.p
           THEN Move(t, [sh EXCEPT !.parent[me.x] = me.gp], [pc |-> "load", x |-> me.p])
           ELSE Move(t, sh, [pc |-> "load", x |-> sh.parent[me.x]])
\* The root of lower rank, or ry, is hung below the other unless it is no root
\* any more: then all is done again.
LinkRoots(t) ==
  LET me == loc[t]
      child == IF me.kx < me.ky THEN me.rx ELSE me.ry
      above == IF me.kx < me.ky THEN me.ry ELSE me.rx
      merged == {c \in sh.class : me.from \in c \/ me.y \in c}
  IN /\ At(t, "link")
     /\ IF sh.parent[child] # child
        THEN sh' = sh /\ UNCHANGED kind /\
             loc' = [loc EXCEPT ![t] = [op |-> "union", pc |-> "load", x |-> me.from, from |-> me.from, y |-> me.y]]
        ELSE Move(t, [sh EXCEPT !.parent[child] = above, !.links = @ + 1,
                                !.class = (@ \ merged) \cup {UNION merged}],
                  To(IF me.kx = me.ky THEN "rise" ELSE "fewer"))
Rise(t) == At(t, "rise") /\ Move(t, [sh EXCEPT !.rank[loc[t].rx] = @ + 1], To("fewer"))
Fewer(t) == At(t, "fewer") /\ Return(t, [sh EXCEPT !.sets = @ - 1])
UnionNext ==
  \E t \in Threads :
    \/ FindSteps(t) \/ LinkRoots(t) \/ Rise(t) \/ Fewer(t)
    \/ \E x, y \in Points : cunionfind_find(t, x) \/ cunionfind_connected(t, x, y) \/ cunionfind_union(t, x, y)

-----------------------------------------------------------------------------
(* scl_cbloom: bits in two bytes; sure has the members whose insertion no  *)
(* clear overlapped.                                                       *)

BitsOf(v) == <<v, 2 + v>>       \* byte 0 has the bits 0..2, byte 1 the rest
ByteOf(b) == b \div 3
cbloom_init == [bits |-> {}, inserted |-> 0, sure |-> {}, bad |-> FALSE, calls |-> 0]
Clearing == "clear" \in Running

cbloom_insert(t, v) == Begin(t, "insert", sh, [pc |-> "or", v |-> v, i |-> 1, doubt |-> Clearing])
Or(t) ==
  LET me == loc[t]
  IN At(t, "or") /\ me.i <= 2 /\ Move(t, [sh EXCEPT !.bits = @ \cup {BitsOf(me.v)[me.i]}], [i |-> me.i + 1])
Inserted(t) ==
  LET me == loc[t]
  IN At(t, "or") /\ me.i > 2
     /\ Return(t, [sh EXCEPT !.inserted = @ + 1, !.sure = IF me.doubt THEN @ ELSE @ \cup {me.v}])

cbloom_maybe_contains(t, v) ==
  Begin(t, "contains", sh, [pc |-> "test", v |-> v, i |-> 1, doubt |-> v \notin sh.sure])
Test(t) ==
  LET me == loc[t]
  IN /\ At(t, "test")
     /\ IF me.i > 2 THEN Return(t, sh)
        ELSE IF BitsOf(me.v)[me.i] \notin sh.bits THEN Return(t, Spoilt(sh, ~me.doubt))
        ELSE Move(t, sh, [i |-> me.i + 1])

\* Nothing that overlaps a clear is sure.
cbloom_clear(t) ==
  /\ At(t, "idle") /\ sh.calls < MaxCalls
  /\ sh' = [sh EXCEPT !.sure = {}, !.calls = @ + 1]
  /\ loc' = [u \in Threads |-> IF u = t THEN [op |-> "clear", pc |-> "zero", i |-> 0]
                               ELSE IF "doubt" \in DOMAIN loc[u] THEN [loc[u] EXCEPT !.doubt = TRUE] ELSE loc[u]]
  /\ UNCHANGED kind
Zero(t) ==
  LET me == loc[t]
  IN /\ At(t, "zero")
     /\ IF me.i > 1 THEN Return(t, [sh EXCEPT !.inserted = 0])
        ELSE Move(t, [sh EXCEPT !.bits = {b \in @ : ByteOf(b) # me.i}], [i |-> me.i + 1])
BloomNext ==
  \E t \in Threads :
    \/ Or(t) \/ Inserted(t) \/ Test(t) \/ Zero(t) \/ cbloom_clear(t)
    \/ \E v \in Values : cbloom_insert(t, v) \/ cbloom_maybe_contains(t, v)

-----------------------------------------------------------------------------

SharedInit ==
  /\ loc = [t \in Threads |-> Idle]
  /\ \/ kind = "cstack" /\ sh = cstack_init
     \/ kind = "cslist" /\ sh = cslist_init
     \/ kind = "cqueue" /\ sh = cqueue_init
     \/ kind = "carray" /\ sh = carray_init
     \/ kind = "cringbuf" /\ sh = cringbuf_init
     \/ kind = "cunionfind" /\ sh = cunionfind_init
     \/ kind = "cbloom" /\ sh = cbloom_init
SharedFinished == Quiet /\ sh.calls = MaxCalls /\ UNCHANGED <<kind, sh, loc>>
SharedNext ==
  \/ SharedFinished
  \/ kind = "cstack" /\ StackNext
  \/ kind = "cslist" /\ SlistNext
  \/ kind = "cqueue" /\ QueueNext
  \/ kind = "carray" /\ ArrayNext
  \/ kind = "cringbuf" /\ RingNext
  \/ kind = "cunionfind" /\ UnionNext
  \/ kind = "cbloom" /\ BloomNext

-----------------------------------------------------------------------------
(* Properties *)

Locals(l, field) == {loc[t][field] : t \in {u \in Threads : At(u, l)}}

(* A chain of links from a, at most as long as there are nodes. *)
ChainOf(a) ==
  LET walk[n \in 0..Cardinality(Addr)] == IF n = 0 THEN a ELSE NextOf(walk[n - 1])
  IN [i \in {n \in 0..Cardinality(Addr) : walk[n] # Null} |-> walk[i]]

(* The stacks without a lock: although pop reads the link of a node that   *)
(* another pop may have freed and malloc handed out again, the tag keeps a *)
(* stale link out, so that the links are exactly the elements pushed and   *)
(* not popped, newest first; pop returns the one it removed; no node is    *)
(* lost; and the count is right whenever no call is running (scl_cstack,   *)
(* scl_cslist).                                                            *)
StaleLinksHarmless ==
  kind \in {"cstack", "cslist"} =>
    LET chain == ChainOf(sh.top.ptr)
    IN /\ ~sh.bad
       /\ [i \in 1..Cardinality(DOMAIN chain) |-> sh.node[chain[i - 1]].val] = sh.content
       /\ DOMAIN sh.node = Range(chain) \cup Locals("pushCas", "a")
                             \cup {loc[t].old.ptr : t \in {u \in Threads : At(u, "take")}}
       /\ Quiet => sh.count = Len(sh.content)

(* The queue, filled by several threads and then drained by one, whichever *)
(* exchanges fail, or with one thread on each side until the exchange that *)
(* ends an enqueue fails for no reason: elements come out in the order     *)
(* their nodes were linked, EMPTY is only returned if the queue was empty, *)
(* no freed node is touched although the tail may have been left behind or *)
(* swung back, and the tail stays on the chain (scl_cqueue_enqueue,        *)
(* scl_cqueue_dequeue).                                                    *)
QueueInOrder ==
  kind = "cqueue" /\ ~sh.slipped =>
    LET chain == ChainOf(sh.head)
    IN /\ ~sh.bad
       /\ [i \in 1..(Cardinality(DOMAIN chain) - 1) |-> sh.node[chain[i]].val] = sh.content
       /\ sh.tail \in Range(chain)
       /\ Quiet => sh.count = Len(sh.content)

(* The array, as long as no pop overlaps a push: every slot below the      *)
(* count has been written, or is about to be by the one push that claimed  *)
(* it; no two pops take one slot, and no element is read unwritten.        *)
SlotsClaimedOnce ==
  kind = "carray" =>
    /\ ~sh.bad /\ sh.count \in 0..Capacity
    /\ Locals("copyIn", "old") = 0..(sh.count - 1) \ sh.fresh
    /\ \A t, u \in Threads : (t # u /\ loc[t].pc = loc[u].pc /\ loc[t].pc \in {"copyIn", "copyOut"}) =>
                               loc[t].old # loc[u].old

(* The ring buffer: peek, which takes no lock, returns the element at its  *)
(* index as long as it does not overlap a pop, whatever is being pushed.   *)
PeekSeesElement == kind = "cringbuf" => ~sh.bad

(* Union-find with one union at a time and any finds beside it: the        *)
(* parents have no cycle, so that every find ends, each point's root is in *)
(* its class, and the number of sets is right when no call is running.     *)
RootOf(x) ==
  LET up[n \in 0..Cardinality(Points)] == IF n = 0 THEN x ELSE sh.parent[up[n - 1]]
  IN up[Cardinality(Points)]
ForestKept ==
  kind = "cunionfind" =>
    /\ ~sh.bad
    /\ \A x \in Points : sh.parent[RootOf(x)] = RootOf(x)
    /\ \A x, y \in Points : Same(x, y) <=> RootOf(x) = RootOf(y)
    /\ Quiet => sh.sets = Cardinality(sh.class)

(* The Bloom filter: a member whose insertion no clear overlapped is never *)
(* denied, whoever sets bits of the same bytes meanwhile.                  *)
MembersKept ==
  kind = "cbloom" => ~sh.bad /\ \A v \in sh.sure : \A i \in 1..2 : BitsOf(v)[i] \in sh.bits

(* Each container keeps its promise while only calls overlap that do not   *)
(* clash (the queue, until it has slipped).                                *)
ContainersKept ==
  /\ StaleLinksHarmless /\ QueueInOrder /\ SlotsClaimedOnce
  /\ PeekSeesElement /\ ForestKept /\ MembersKept
=============================================================================
