------------------------------- MODULE Rings -------------------------------
(***************************************************************************)
(* The containers over one block of memory: array and stack, and the rings *)
(* queue, deque, ring buffer and the deque and ring buffer guarded by a    *)
(* spinlock (whose bodies run under the lock and are one step).  A slot    *)
(* that holds no element is Junk, whatever was in it: reading one shows.   *)
(***************************************************************************)
EXTENDS Calls

CONSTANTS Values,    \* the elements
          MaxCount   \* bound on the number of elements a growing container gets

Junk == -7

Block(cap) == [i \in 0..(cap - 1) |-> Junk]
Empty(cap) == [data |-> Block(cap), cap |-> cap, mask |-> IF cap = 0 THEN 0 ELSE cap - 1,
               head |-> 0, tail |-> 0, count |-> 0, over |-> FALSE]

\* scl_realloc: the first elements move to a block of cap slots.
Moved(t, cap) == [i \in 0..(cap - 1) |-> IF i < t.count THEN t.data[i] ELSE Junk]
NewCap(t) == IF t.cap = 0 THEN 4 ELSE t.cap * 2
And(i, mask) == i % (mask + 1)
Slot(t, i) == And(t.head + i, t.mask)
Flat(t) == [i \in 1..t.count |-> t.data[i - 1]]
Ring(t) == [i \in 1..t.count |-> t.data[Slot(t, i - 1)]]
Slots(k) == {i \in 0..(st.count - 1) : st.data[Slot(st, i)] = k}
NoMem(mem) == st.count = st.cap /\ ~mem
Room == st.count < MaxCount

-----------------------------------------------------------------------------
(* scl_array *)

array_init(cap) == Empty(cap)
array_destroy == Done("destroy", <<>>, Empty(0), "OK", None)

array_reserve(t, cap) ==
  IF cap <= t.cap THEN t ELSE [t EXCEPT !.data = Moved(t, cap), !.cap = cap]
Reserve(cap, mem) ==
  IF cap > st.cap /\ ~mem THEN Fail("resize", <<>>, "OUT_OF_MEMORY")
  ELSE Done("resize", <<>>, array_reserve(st, cap), "OK", None)
Grown == IF st.count = st.cap THEN array_reserve(st, NewCap(st)) ELSE st

array_push(v, mem) ==
  /\ Room
  /\ IF NoMem(mem) THEN Fail("push_back", <<v>>, "OUT_OF_MEMORY")
     ELSE Done("push_back", <<v>>,
               [Grown EXCEPT !.data[st.count] = v, !.count = @ + 1], "OK", None)

array_pop ==
  IF st.count = 0 THEN Fail("pop_back", <<>>, "EMPTY")
  ELSE Done("pop_back", <<>>, [st EXCEPT !.data[st.count - 1] = Junk, !.count = @ - 1],
            "OK", st.data[st.count - 1])

array_get(i) ==
  IF i >= st.count THEN Fail("get", <<i>>, "INVALID_INDEX") ELSE Read("get", <<i>>, st.data[i])

array_set(i, v) ==
  IF i >= st.count THEN Fail("set", <<i, v>>, "INVALID_INDEX")
  ELSE Done("set", <<i, v>>, [st EXCEPT !.data[i] = v], "OK", None)

\* memmove of the tail one slot up, then the element.
ShiftUp(t, i) ==
  [j \in DOMAIN t.data |-> IF j > i /\ j <= t.count THEN t.data[j - 1] ELSE t.data[j]]
array_insert(i, v, mem) ==
  /\ Room
  /\ IF i > st.count THEN Fail("insert", <<i, v>>, "INVALID_INDEX")
     ELSE IF NoMem(mem) THEN Fail("insert", <<i, v>>, "OUT_OF_MEMORY")
     ELSE Done("insert", <<i, v>>,
               [Grown EXCEPT !.data = [ShiftUp(Grown, i) EXCEPT ![i] = v], !.count = @ + 1],
               "OK", None)

ShiftDown(t, i) ==
  [j \in DOMAIN t.data |-> CASE j = t.count - 1 -> Junk
                             [] j >= i /\ j < t.count - 1 -> t.data[j + 1]
                             [] OTHER -> t.data[j]]
array_remove(i) ==
  IF i >= st.count THEN Fail("remove_at", <<i>>, "INVALID_INDEX")
  ELSE Done("remove_at", <<i>>, [st EXCEPT !.data = ShiftDown(st, i), !.count = @ - 1],
            "OK", st.data[i])

array_shrink(mem) ==
  IF st.count # 0 /\ st.count # st.cap /\ ~mem THEN Fail("resize", <<>>, "OUT_OF_MEMORY")
  ELSE Done("resize", <<>>, [st EXCEPT !.data = Moved(st, st.count), !.cap = st.count], "OK", None)

array_linear_search(k) == FirstOf("search", <<k>>, {i \in 0..(st.count - 1) : st.data[i] = k})

\* The loop of scl_array_binary_search from the bounds lo and hi (hi excluded).
RECURSIVE Bisect(_, _, _)
Bisect(k, lo, hi) ==
  LET mid == lo + (hi - lo) \div 2
  IN CASE lo >= hi -> None
       [] st.data[mid] < k -> Bisect(k, mid + 1, hi)
       [] st.data[mid] > k -> Bisect(k, lo, mid)
       [] OTHER -> mid
Sorted == \A i, j \in 0..(st.count - 1) : i < j => st.data[i] <= st.data[j]
array_binary_search(k) ==
  /\ Sorted
  /\ LET i == Bisect(k, 0, st.count)
     IN IF i = None THEN Fail("bsearch", <<k>>, "NOT_FOUND") ELSE Read("bsearch", <<k>>, i)

ArrayNext ==
  \/ \E mem \in BOOLEAN : \/ array_shrink(mem) \/ Reserve(MaxCount, mem)
                          \/ \E v \in Values : array_push(v, mem)
                          \/ \E v \in Values, i \in 0..(st.count + 1) : array_insert(i, v, mem)
  \/ array_pop \/ array_destroy
  \/ \E i \in 0..st.count : array_get(i) \/ array_remove(i) \/ \E v \in Values : array_set(i, v)
  \/ \E k \in Values : array_linear_search(k) \/ array_binary_search(k)

-----------------------------------------------------------------------------
(* scl_stack *)

stack_init(cap) == Empty(cap)
stack_destroy == Done("destroy", <<>>, Empty(0), "OK", None)

stack_push(v, mem) ==
  /\ Room
  /\ IF NoMem(mem) THEN Fail("push_back", <<v>>, "OUT_OF_MEMORY")
     ELSE LET cap == IF st.count = st.cap THEN NewCap(st) ELSE st.cap
          IN Done("push_back", <<v>>,
                  [st EXCEPT !.data = [Moved(st, cap) EXCEPT ![st.count] = v],
                             !.cap = cap, !.count = @ + 1], "OK", None)

stack_pop ==
  IF st.count = 0 THEN Fail("pop_back", <<>>, "EMPTY")
  ELSE Done("pop_back", <<>>, [st EXCEPT !.data[st.count - 1] = Junk, !.count = @ - 1],
            "OK", st.data[st.count - 1])

stack_peek ==
  IF st.count = 0 THEN Fail("back", <<>>, "EMPTY") ELSE Read("back", <<>>, st.data[st.count - 1])

stack_search(k) == FirstOf("search", <<k>>, {i \in 0..(st.count - 1) : st.data[i] = k})

StackNext ==
  \/ \E v \in Values, mem \in BOOLEAN : stack_push(v, mem)
  \/ stack_pop \/ stack_peek \/ stack_destroy \/ \E k \in Values : stack_search(k)

-----------------------------------------------------------------------------
(* scl_queue *)

queue_init(cap) == Empty(IF cap = 0 THEN 0 ELSE BitCeil(cap))
queue_destroy == Done("destroy", <<>>, [Empty(0) EXCEPT !.mask = st.mask], "OK", None)

Unwrapped_Straight(t) == \* mutant: copies the block as it lies
  LET cap == NewCap(t)
  IN [t EXCEPT !.data = Moved(t, cap), !.head = 0, !.cap = cap, !.mask = cap - 1]

\* The elements in order from slot 0 of a block of twice the size.
Unwrapped(t) ==
  LET cap == NewCap(t)
  IN [t EXCEPT !.data = [i \in 0..(cap - 1) |-> IF i < t.count THEN t.data[Slot(t, i)] ELSE Junk],
               !.head = 0, !.cap = cap, !.mask = cap - 1]

queue_enqueue(v, mem) ==
  /\ Room
  /\ IF NoMem(mem) THEN Fail("push_back", <<v>>, "OUT_OF_MEMORY")
     ELSE LET t == IF st.count = st.cap THEN [Unwrapped(st) EXCEPT !.tail = st.count] ELSE st
          IN Done("push_back", <<v>>,
                  [t EXCEPT !.data[t.tail] = v, !.tail = And(@ + 1, t.mask), !.count = @ + 1],
                  "OK", None)

queue_dequeue ==
  IF st.count = 0 THEN Fail("pop_front", <<>>, "EMPTY")
  ELSE Done("pop_front", <<>>,
            [st EXCEPT !.data[st.head] = Junk, !.head = And(@ + 1, st.mask), !.count = @ - 1],
            "OK", st.data[st.head])

queue_peek == IF st.count = 0 THEN Fail("front", <<>>, "EMPTY") ELSE Read("front", <<>>, st.data[st.head])
queue_search(k) == FirstOf("search", <<k>>, Slots(k))

QueueNext ==
  \/ \E v \in Values, mem \in BOOLEAN : queue_enqueue(v, mem)
  \/ queue_dequeue \/ queue_peek \/ queue_destroy \/ \E k \in Values : queue_search(k)

-----------------------------------------------------------------------------
(* scl_deque, and scl_concurrent_deque which does not grow *)

deque_init(cap) == Empty(CASE cap = 0 -> 0 [] cap \in 1..3 -> 4 [] OTHER -> BitCeil(cap))
deque_destroy == Done("destroy", <<>>, Empty(0), "OK", None)
deque_grow(t) == Unwrapped(t)

AtFront(t, v) == [t EXCEPT !.head = And(@ - 1, t.mask), !.data[And(t.head - 1, t.mask)] = v,
                           !.count = @ + 1]
AtBack(t, v) == [t EXCEPT !.data[Slot(t, t.count)] = v, !.count = @ + 1]
PopFront == Done("pop_front", <<>>,
                 [st EXCEPT !.data[st.head] = Junk, !.head = And(@ + 1, st.mask), !.count = @ - 1],
                 "OK", st.data[st.head])
PopBack == LET i == Slot(st, st.count - 1)
           IN Done("pop_back", <<>>, [st EXCEPT !.data[i] = Junk, !.count = @ - 1], "OK", st.data[i])
DequeGrown == IF st.count = st.cap THEN deque_grow(st) ELSE st

deque_push_front(v, mem) ==
  /\ Room
  /\ IF NoMem(mem) THEN Fail("push_front", <<v>>, "OUT_OF_MEMORY")
     ELSE Done("push_front", <<v>>, AtFront(DequeGrown, v), "OK", None)
deque_push_back(v, mem) ==
  /\ Room
  /\ IF NoMem(mem) THEN Fail("push_back", <<v>>, "OUT_OF_MEMORY")
     ELSE Done("push_back", <<v>>, AtBack(DequeGrown, v), "OK", None)
deque_pop_front == IF st.count = 0 THEN Fail("pop_front", <<>>, "EMPTY") ELSE PopFront
deque_pop_back == IF st.count = 0 THEN Fail("pop_back", <<>>, "EMPTY") ELSE PopBack
deque_peek_front ==
  IF st.count = 0 THEN Fail("front", <<>>, "EMPTY") ELSE Read("front", <<>>, st.data[st.head])
deque_peek_back ==
  IF st.count = 0 THEN Fail("back", <<>>, "EMPTY")
  ELSE Read("back", <<>>, st.data[Slot(st, st.count - 1)])
deque_search(k) == FirstOf("search", <<k>>, Slots(k))

DequeNext ==
  \/ \E v \in Values, mem \in BOOLEAN : deque_push_front(v, mem) \/ deque_push_back(v, mem)
  \/ deque_pop_front \/ deque_pop_back \/ deque_peek_front \/ deque_peek_back
  \/ deque_destroy \/ \E k \in Values : deque_search(k)

cdeque_init(cap) == Empty(IF cap < 4 THEN 4 ELSE BitCeil(cap))
cdeque_destroy == Done("destroy", <<>>, [Empty(0) EXCEPT !.head = st.head], "OK", None)
cdeque_push_front(v) ==
  IF st.count = st.cap THEN Fail("push_front", <<v>>, "FULL")
  ELSE Done("push_front", <<v>>, AtFront(st, v), "OK", None)
cdeque_push_back(v) ==
  IF st.count = st.cap THEN Fail("push_back", <<v>>, "FULL")
  ELSE Done("push_back", <<v>>, AtBack(st, v), "OK", None)
cdeque_pop_front == IF st.count = 0 THEN Fail("pop_front", <<>>, "EMPTY") ELSE PopFront
cdeque_pop_back == IF st.count = 0 THEN Fail("pop_back", <<>>, "EMPTY") ELSE PopBack

CDequeNext ==
  \/ \E v \in Values : cdeque_push_front(v) \/ cdeque_push_back(v)
  \/ cdeque_pop_front \/ cdeque_pop_back \/ cdeque_destroy

-----------------------------------------------------------------------------
(* scl_ringbuf, which may overwrite, and scl_concurrent_ringbuf *)

ringbuf_init(cap, over) == [Empty(BitCeil(cap)) EXCEPT !.over = over]
ringbuf_destroy ==
  Done("destroy", <<>>, [st EXCEPT !.data = Block(0), !.cap = 0, !.count = 0], "OK", None)
ringbuf_push(v) ==
  CASE st.count < st.cap -> Done("push_back", <<v>>, AtBack(st, v), "OK", None)
    [] st.count = st.cap /\ ~st.over -> Fail("push_back", <<v>>, "FULL")
    [] OTHER -> /\ st.cap > 0
                /\ Done("push_over", <<v>>,
                        [st EXCEPT !.data[st.head] = v, !.head = And(@ + 1, st.mask)], "OK", None)
ringbuf_pop == IF st.count = 0 THEN Fail("pop_front", <<>>, "EMPTY") ELSE PopFront
ringbuf_peek(i) ==
  IF i >= st.count THEN Fail("get", <<i>>, "INVALID_INDEX")
  ELSE Read("get", <<i>>, st.data[Slot(st, i)])
ringbuf_search(k) == FirstOf("search", <<k>>, Slots(k))

RingbufNext ==
  \/ \E v \in Values : ringbuf_push(v) \/ ringbuf_search(v)
  \/ ringbuf_pop \/ ringbuf_destroy \/ \E i \in 0..st.count : ringbuf_peek(i)

cringbuf_init(cap) == Empty(BitCeil(cap))
cringbuf_destroy ==
  Done("destroy", <<>>, [Empty(0) EXCEPT !.mask = st.mask], "OK", None)
cringbuf_push(v) ==
  IF st.count = st.cap THEN Fail("push_back", <<v>>, "FULL")
  ELSE Done("push_back", <<v>>, AtBack(st, v), "OK", None)
cringbuf_pop == IF st.count = 0 THEN Fail("pop_front", <<>>, "EMPTY") ELSE PopFront

CRingbufNext == cringbuf_pop \/ cringbuf_destroy \/ \E v \in Values : cringbuf_push(v)
=============================================================================
