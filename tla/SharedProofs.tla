---------------------------- MODULE SharedProofs ----------------------------
(***************************************************************************)
(* Proofs about the containers without a lock, and at the end about the    *)
(* intrusive stack of LFStack.  A behaviour of Shared is about one         *)
(* structure, which SharedInit chooses: each has an inductive invariant of *)
(* its own: BloomInv (the bits of an element whose insertion is over are   *)
(* set), ArrayInv (a slot belongs to the call that claimed it), RingBufInv *)
(* (the slots from the head on hold the elements, between the two stores   *)
(* of a pop too), StackInv for the two stacks (the nodes form one path     *)
(* from the top, and a node off the path has one owner), QueueInv (the     *)
(* nodes form one line from the dummy with the tail on it, at most one     *)
(* node behind when there is one thread on each side, until the weak       *)
(* exchange that ends an enqueue slips) and UnionInv (every                *)
(* point is below the root of its class, parents are higher, and a walk    *)
(* stays below the root it started from).                                  *)
(***************************************************************************)
EXTENDS LFStack, Shared, FiniteSetTheorems, FunctionTheorems, SequenceTheorems, WellFoundedInduction, TLAPS

Vars == <<kind, sh, loc>>
SharedSpec == SharedInit /\ [][SharedNext]_Vars

\* The structure stays the one that SharedInit chose, and takes its own steps.
LEMMA KindStays ==
  ASSUME [SharedNext]_Vars
  PROVE  /\ kind' = kind
         /\ \/ UNCHANGED Vars
            \/ kind = "cstack" /\ StackNext
            \/ kind = "cslist" /\ SlistNext
            \/ kind = "cqueue" /\ QueueNext
            \/ kind = "carray" /\ ArrayNext
            \/ kind = "cringbuf" /\ RingNext
            \/ kind = "cunionfind" /\ UnionNext
            \/ kind = "cbloom" /\ BloomNext
<1> USE DEF Begin, Move, Return, Alloc, Locking
<1>1. kind' = kind
  <2>1. CASE StackNext \/ SlistNext
    BY <2>1 DEF StackNext, SlistNext, StackSteps, cstack_destroy, cslist_destroy, cstack_push,
         cstack_pop, cslist_push_front, cslist_pop_front, CasPush, Raise, Look, CasPop, Take, Lower
  <2>2. CASE QueueNext
    BY <2>2 DEF QueueNext, cqueue_destroy, ChangePhase, cqueue_enqueue, cqueue_dequeue,
         EnqueueSteps, DequeueSteps, DequeueCheck, Raise, Lower
  <2>3. CASE ArrayNext
    BY <2>3 DEF ArrayNext, carray_destroy, carray_push, Claim, CopyIn, carray_pop, Release,
         CopyOut, GetCopy, SetCopy, carray_get, carray_set
  <2>4. CASE RingNext
    BY <2>4 DEF RingNext, Fill, Publish, Unlock, First, Advance, Shrink, PeekHead, PeekCopy,
         cringbuf_pop, cringbuf_push, cringbuf_peek
  <2>5. CASE UnionNext
    BY <2>5 DEF UnionNext, FindSteps, Found, LinkRoots, Rise, Fewer, cunionfind_find,
         cunionfind_connected, cunionfind_union
  <2>6. CASE BloomNext
    BY <2>6 DEF BloomNext, Or, Inserted, Test, Zero, cbloom_clear, cbloom_insert,
         cbloom_maybe_contains
  <2>7. CASE SharedFinished \/ UNCHANGED Vars BY <2>7 DEF SharedFinished, Vars
  <2> QED BY <2>1, <2>2, <2>3, <2>4, <2>5, <2>6, <2>7 DEF SharedNext
<1> QED BY <1>1 DEF SharedNext, Vars, SharedFinished

\* The step of thread t changes its own locals only.
Others(t) == DOMAIN loc' = Threads /\ \A u \in Threads : u # t => loc'[u] = loc[u]

-----------------------------------------------------------------------------
(* scl_cbloom *)

BloomLocals(t) ==
  LET me == loc[t]
  IN \/ me.pc = "idle" /\ me.op = "none" /\ DOMAIN me = {"op", "pc"}
     \/ /\ \/ me.pc = "or" /\ me.op = "insert"
           \/ me.pc = "test" /\ me.op = "contains"
        /\ DOMAIN me = {"op", "pc", "v", "i", "doubt"} /\ me.i \in 1 .. 3
     \/ me.pc = "zero" /\ me.op = "clear" /\ DOMAIN me = {"op", "pc", "i"}

BloomTypes ==
  /\ DOMAIN loc = Threads /\ \A t \in Threads : BloomLocals(t)
  /\ DOMAIN sh = {"bits", "inserted", "sure", "bad", "calls"}

Doubts(t) == "doubt" \in DOMAIN loc[t] => loc[t].doubt

BloomSure ==
  /\ Clearing => sh.sure = {} /\ \A t \in Threads : Doubts(t)
  /\ \A v \in sh.sure : \A i \in 1 .. 2 : BitsOf(v)[i] \in sh.bits
  /\ \A t \in Threads : ~Doubts(t) =>
       /\ At(t, "or") => \A j \in 1 .. loc[t].i - 1 : BitsOf(loc[t].v)[j] \in sh.bits
       /\ At(t, "test") => loc[t].v \in sh.sure

BloomInv == BloomTypes /\ BloomSure /\ ~sh.bad

LEMMA BloomBegins ==
  ASSUME BloomInv, NEW t \in Threads, NEW v \in Values,
         cbloom_insert(t, v) \/ cbloom_maybe_contains(t, v)
  PROVE  BloomInv'
<1> USE DEF cbloom_insert, cbloom_maybe_contains, Begin, With
<1>1. Others(t) /\ At(t, "idle")
  BY DEF BloomInv, BloomTypes, Others
<1>2. /\ DOMAIN sh' = DOMAIN sh /\ sh'.bits = sh.bits /\ sh'.sure = sh.sure /\ sh'.bad = sh.bad
  BY DEF BloomInv, BloomTypes
<1>3. /\ loc'[t].pc \in {"or", "test"} /\ loc'[t].v = v /\ loc'[t].i = 1
      /\ DOMAIN loc'[t] = {"op", "pc", "v", "i", "doubt"}
      /\ loc'[t].op = IF loc'[t].pc = "or" THEN "insert" ELSE "contains"
  BY DEF BloomInv, BloomTypes
<1>4. /\ loc'[t].pc = "or" => loc'[t].doubt = Clearing
      /\ loc'[t].pc = "test" => loc'[t].doubt = (v \notin sh.sure)
  BY DEF BloomInv, BloomTypes
<1>5. Clearing' <=> Clearing
  BY <1>1, <1>3 DEF Clearing, Running, Others, BloomInv, BloomTypes, BloomLocals, At
<1>6. BloomTypes'
  BY <1>1, <1>2, <1>3 DEF Others, BloomInv, BloomTypes, BloomLocals
<1>7. Doubts(t)' <=> IF loc'[t].pc = "or" THEN Clearing ELSE v \notin sh.sure
  BY <1>3, <1>4 DEF Doubts
<1>8. \A u \in Threads : u # t => (Doubts(u)' <=> Doubts(u)) /\ loc'[u] = loc[u]
  BY <1>1 DEF Others, Doubts
<1>9. BloomSure'
  BY <1>2, <1>3, <1>5, <1>7, <1>8 DEF BloomSure, BloomInv, At
<1> QED BY <1>2, <1>6, <1>9 DEF BloomInv

\* Setting and testing bits.
LEMMA BloomSteps ==
  ASSUME BloomInv, NEW t \in Threads, Or(t) \/ Inserted(t) \/ Test(t)
  PROVE  BloomInv'
<1>0. BloomTypes /\ BloomLocals(t) /\ BloomSure /\ ~sh.bad BY DEF BloomInv, BloomTypes
<1>1. Others(t) /\ DOMAIN sh' = DOMAIN sh
  BY <1>0 DEF BloomTypes, Others, Or, Inserted, Test, Move, Return, Spoilt
<1>2. CASE Or(t)
  <2>1. /\ DOMAIN loc'[t] = DOMAIN loc[t] /\ loc'[t].pc = "or" /\ loc'[t].op = loc[t].op
        /\ loc'[t].v = loc[t].v /\ loc'[t].i = loc[t].i + 1 /\ loc'[t].doubt = loc[t].doubt
        /\ loc[t].pc = "or" /\ loc[t].i \in 1 .. 2
    <3>1. /\ DOMAIN loc[t] = {"op", "pc", "v", "i", "doubt"}
          /\ loc[t].pc = "or" /\ loc[t].i \in 1 .. 2
      BY <1>0, <1>2 DEF Or, At, BloomLocals
    <3>2. DOMAIN loc = Threads BY <1>0 DEF BloomTypes
    <3>3. loc' = [loc EXCEPT ![t] = With(@, [i |-> loc[t].i + 1])] BY <1>2 DEF Or, Move
    <3> QED BY <3>1, <3>2, <3>3 DEF With
  <2>2. /\ sh'.bits = sh.bits \cup {BitsOf(loc[t].v)[loc[t].i]}
        /\ sh'.sure = sh.sure /\ sh'.bad = sh.bad
    BY <1>0, <1>2 DEF Or, Move, BloomTypes
  <2>3. Clearing' <=> Clearing
    BY <1>1, <2>1 DEF Clearing, Running, Others
  <2>4. BloomTypes'
    BY <1>0, <1>1, <2>1 DEF Others, BloomTypes, BloomLocals
  <2>5. \A u \in Threads : (Doubts(u)' <=> Doubts(u)) /\ (u # t => loc'[u] = loc[u])
    BY <1>1, <2>1 DEF Others, Doubts
  <2>6. BloomSure'
    BY <1>0, <2>1, <2>2, <2>3, <2>5 DEF BloomSure, At
  <2> QED BY <1>0, <2>2, <2>4, <2>6 DEF BloomInv
<1>3. CASE Inserted(t)
  <2>1. /\ loc'[t] = Idle /\ loc[t].pc = "or" /\ loc[t].i = 3 /\ loc[t].op = "insert"
        /\ "doubt" \in DOMAIN loc[t]
    BY <1>0, <1>3 DEF Inserted, Return, At, BloomTypes, BloomLocals
  <2>2. /\ sh'.bits = sh.bits /\ sh'.bad = sh.bad
        /\ sh'.sure = IF loc[t].doubt THEN sh.sure ELSE sh.sure \cup {loc[t].v}
    BY <1>0, <1>3 DEF Inserted, Return, BloomTypes
  <2>3. Clearing' <=> Clearing
    BY <1>1, <2>1 DEF Clearing, Running, Others, Idle
  <2>4. BloomTypes'
    BY <1>0, <1>1, <2>1 DEF Others, BloomTypes, BloomLocals, Idle
  <2>5. /\ \A u \in Threads : u # t => loc'[u] = loc[u] /\ (Doubts(u)' <=> Doubts(u))
        /\ Doubts(t)' /\ (Doubts(t) <=> loc[t].doubt)
    BY <1>1, <2>1 DEF Others, Doubts, Idle
  <2>6. ~Doubts(t) => \A j \in 1 .. 2 : BitsOf(loc[t].v)[j] \in sh.bits
    BY <1>0, <2>1 DEF BloomSure, At
  <2>7. sh'.sure = IF Doubts(t) THEN sh.sure ELSE sh.sure \cup {loc[t].v}
    BY <2>2, <2>5
  <2>8. BloomSure'
    BY <1>0, <2>1, <2>2, <2>3, <2>5, <2>6, <2>7 DEF BloomSure, At, Idle
  <2> QED BY <1>0, <2>2, <2>4, <2>8 DEF BloomInv
<1>4. CASE Test(t)
  <2>0. loc[t].pc = "test" /\ loc[t].op = "contains" /\ DOMAIN loc[t] = {"op", "pc", "v", "i", "doubt"}
        /\ loc[t].i \in 1 .. 3
    BY <1>0, <1>4 DEF Test, At, BloomLocals
  <2>1. \/ loc'[t] = Idle
        \/ /\ DOMAIN loc'[t] = DOMAIN loc[t] /\ loc'[t].pc = "test" /\ loc'[t].op = loc[t].op
           /\ loc'[t].v = loc[t].v /\ loc'[t].i \in 1 .. 3 /\ loc'[t].doubt = loc[t].doubt
    BY <1>0, <1>4, <2>0 DEF Test, Move, Return, With, At, BloomTypes
  <2>2. sh'.bits = sh.bits /\ sh'.sure = sh.sure
    BY <1>0, <1>4 DEF Test, Move, Return, Spoilt, BloomTypes
  <2>3. Clearing' <=> Clearing
    BY <1>1, <2>0, <2>1 DEF Clearing, Running, Others, Idle
  <2>4. BloomTypes'
    BY <1>0, <1>1, <2>0, <2>1 DEF Others, BloomTypes, BloomLocals, Idle
  <2>5. /\ \A u \in Threads : u # t => loc'[u] = loc[u] /\ (Doubts(u)' <=> Doubts(u))
        /\ loc'[t] = Idle => Doubts(t)'
        /\ loc'[t] # Idle => (Doubts(t)' <=> Doubts(t))
    BY <1>1, <2>0, <2>1 DEF Others, Doubts, Idle
  <2>6. BloomSure'
    BY <1>0, <2>0, <2>1, <2>2, <2>3, <2>5 DEF BloomSure, At, Idle
  <2>7. ~sh'.bad
    <3>1. CASE loc[t].i \in 1 .. 2 /\ BitsOf(loc[t].v)[loc[t].i] \notin sh.bits
      <4>1. Doubts(t) BY <1>0, <2>0, <3>1 DEF BloomSure, At
      <4>2. loc[t].doubt BY <2>0, <4>1 DEF Doubts
      <4> QED BY <1>0, <1>4, <2>0, <3>1, <4>2 DEF Test, Return, Spoilt, BloomTypes
    <3>2. CASE ~(loc[t].i \in 1 .. 2 /\ BitsOf(loc[t].v)[loc[t].i] \notin sh.bits)
      BY <1>0, <1>4, <2>0, <3>2 DEF Test, Return, Move
    <3> QED BY <3>1, <3>2
  <2> QED BY <2>4, <2>6, <2>7 DEF BloomInv
<1> QED BY <1>2, <1>3, <1>4

\* A clear makes everything doubtful that overlaps it.
LEMMA BloomClears ==
  ASSUME BloomInv, NEW t \in Threads, cbloom_clear(t) \/ Zero(t)
  PROVE  BloomInv'
<1>0. BloomTypes /\ BloomSure /\ ~sh.bad BY DEF BloomInv
<1>1. CASE cbloom_clear(t)
  <2>1. /\ DOMAIN sh' = DOMAIN sh /\ sh'.bits = sh.bits /\ sh'.sure = {} /\ sh'.bad = sh.bad
    BY <1>0, <1>1 DEF cbloom_clear, BloomTypes
  <2>2. /\ DOMAIN loc' = Threads
        /\ \A u \in Threads :
             /\ BloomLocals(u)'
             /\ "doubt" \in DOMAIN loc'[u] => loc'[u].doubt = TRUE
    BY <1>0, <1>1 DEF cbloom_clear, BloomTypes, BloomLocals, At
  <2>3. \A u \in Threads : Doubts(u)' BY <2>2 DEF Doubts
  <2> QED BY <1>0, <2>1, <2>2, <2>3 DEF BloomInv, BloomTypes, BloomSure
<1>2. CASE Zero(t)
  <2>1. Others(t) /\ DOMAIN sh' = DOMAIN sh /\ sh'.sure = sh.sure /\ sh'.bad = sh.bad
    BY <1>0, <1>2 DEF Zero, Move, Return, Others, BloomTypes
  <2>2. loc[t].pc = "zero" /\ loc[t].op = "clear" /\ DOMAIN loc[t] = {"op", "pc", "i"}
    BY <1>0, <1>2 DEF Zero, At, BloomTypes, BloomLocals
  <2>3. \/ loc'[t] = Idle
        \/ loc'[t].pc = "zero" /\ loc'[t].op = "clear" /\ DOMAIN loc'[t] = {"op", "pc", "i"}
    BY <1>0, <1>2, <2>2 DEF Zero, Move, Return, With, BloomTypes
  <2>4. Clearing BY <2>2 DEF Clearing, Running
  <2>5. /\ sh.sure = {} /\ \A u \in Threads : Doubts(u)
    BY <1>0, <2>4 DEF BloomSure
  <2>6. \A u \in Threads : Doubts(u)'
    BY <2>1, <2>3, <2>5 DEF Doubts, Others, Idle
  <2>7. BloomTypes' BY <1>0, <2>1, <2>3 DEF BloomTypes, BloomLocals, Others, Idle
  <2> QED BY <1>0, <2>1, <2>5, <2>6, <2>7 DEF BloomInv, BloomSure
<1> QED BY <1>1, <1>2

\* A member of the Bloom filter whose insertion no scl_cbloom_clear overlapped is
\* never denied by scl_cbloom_maybe_contains, for any number of threads.
THEOREM FilterKeepsMembers == SharedSpec => []MembersKept
<1>1. SharedInit => (kind = "cbloom" => BloomInv)
  <2> SUFFICES ASSUME SharedInit, kind = "cbloom" PROVE BloomInv OBVIOUS
  <2>1. sh = cbloom_init /\ loc = [t \in Threads |-> Idle] BY DEF SharedInit
  <2> QED BY <2>1 DEF cbloom_init, Idle, BloomInv, BloomTypes, BloomLocals, BloomSure, Doubts,
                    Clearing, Running, At
<1>2. (kind = "cbloom" => BloomInv) /\ [SharedNext]_Vars => (kind = "cbloom" => BloomInv)'
  <2> SUFFICES ASSUME kind = "cbloom" => BloomInv, [SharedNext]_Vars, kind' = "cbloom" PROVE BloomInv'
    OBVIOUS
  <2>1. CASE UNCHANGED Vars
    BY <2>1 DEF Vars, BloomInv, BloomTypes, BloomLocals, BloomSure, Doubts, Clearing, Running, At
  <2>2. CASE kind = "cbloom" /\ BloomNext
    BY <2>2, BloomBegins, BloomSteps, BloomClears DEF BloomNext
  <2> QED BY <2>1, <2>2, KindStays DEF Vars
<1>3. (kind = "cbloom" => BloomInv) => MembersKept
  BY DEF BloomInv, BloomSure, MembersKept
<1> QED BY <1>1, <1>2, <1>3, PTL DEF SharedSpec

-----------------------------------------------------------------------------
(* scl_carray *)

ArrayLocals(t) ==
  LET me == loc[t]
  IN \/ me.pc = "idle" /\ me.op = "none" /\ DOMAIN me = {"op", "pc"}
     \/ /\ \/ me.pc \in {"claim", "copyIn"} /\ me.op = "push"
           \/ me.pc \in {"release", "copyOut"} /\ me.op = "pop"
        /\ DOMAIN me = {"op", "pc", "old"} /\ me.old \in 0 .. Capacity
     \/ /\ \/ me.pc = "getCopy" /\ me.op = "get"
           \/ me.pc = "setCopy" /\ me.op = "set"
        /\ DOMAIN me = {"op", "pc", "i"} /\ me.i \in 0 .. Capacity - 1

ArrayTypes ==
  /\ DOMAIN loc = Threads /\ \A t \in Threads : ArrayLocals(t)
  /\ DOMAIN sh = {"count", "fresh", "bad", "calls"}
  /\ sh.count \in 0 .. Capacity

\* Which calls are not running together.
ArrayApart ==
  \A t, u \in Threads :
    /\ loc[t].op = "pop" => loc[u].op \notin {"push", "set", "get"}
    /\ loc[t].op = "push" => loc[u].op # "get"

ArraySlots ==
  /\ \A i \in 0 .. sh.count - 1 :
       i \in sh.fresh \/ \E t \in Threads : At(t, "copyIn") /\ loc[t].old = i
  /\ \A t \in Threads :
       /\ At(t, "copyIn") => loc[t].old < sh.count /\ loc[t].old \notin sh.fresh
       /\ At(t, "copyOut") => loc[t].old > sh.count /\ loc[t].old - 1 \in sh.fresh
       /\ At(t, "getCopy") => loc[t].i < sh.count
  /\ \A t, u \in Threads :
       t # u /\ loc[t].pc = loc[u].pc /\ loc[t].pc \in {"copyIn", "copyOut"} =>
         loc[t].old # loc[u].old

ArrayInv == ArrayTypes /\ ArrayApart /\ ArraySlots /\ ~sh.bad

\* The calls that a new one must not meet are not running.
LEMMA ArrayMayBegin ==
  ASSUME "carray" \notin Overlap, kind = "carray", NEW t \in Threads, NEW s, NEW r,
         NEW op \in {"push", "pop", "get", "set"}, Begin(t, op, s, r)
  PROVE  \A u \in Threads :
           /\ op = "pop" => loc[u].op \notin {"push", "set", "get"}
           /\ op \in {"push", "set", "get"} => loc[u].op # "pop"
           /\ op = "push" => loc[u].op # "get"
           /\ op = "get" => loc[u].op # "push"
<1>1. \A u \in Threads : {op, loc[u].op} \notin Clash
  BY DEF Begin, Running
<1>2. Clash = {{"push", "pop"}, {"set", "pop"}, {"get", "pop"}, {"get", "push"}}
  BY DEF Clash
<1> QED BY <1>1, <1>2

LEMMA ArrayBegins ==
  ASSUME Capacity \in Nat, "carray" \notin Overlap, kind = "carray", ArrayInv, NEW t \in Threads,
         \/ carray_push(t) \/ carray_pop(t)
         \/ \E i \in 0 .. (Capacity - 1) : carray_get(t, i) \/ carray_set(t, i)
  PROVE  ArrayInv'
<1>0. ArrayTypes /\ ArrayApart /\ ArraySlots /\ ~sh.bad BY DEF ArrayInv
<1>1. PICK op, r :
        /\ op \in {"push", "pop", "get", "set"} /\ Begin(t, op, sh, r) /\ At(t, "idle")
        /\ \/ /\ op \in {"push", "pop"}
              /\ r = [pc |-> IF op = "push" THEN "claim" ELSE "release", old |-> sh.count]
           \/ /\ op \in {"get", "set"}
              /\ \E i \in 0 .. Capacity - 1 :
                   /\ i < sh.count
                   /\ r = [pc |-> IF op = "get" THEN "getCopy" ELSE "setCopy", i |-> i]
  <2>1. CASE carray_push(t) BY <2>1 DEF carray_push, Begin
  <2>2. CASE carray_pop(t) BY <2>2 DEF carray_pop, Begin
  <2>3. CASE \E i \in 0 .. (Capacity - 1) : carray_get(t, i) BY <2>3 DEF carray_get, Begin
  <2>4. CASE \E i \in 0 .. (Capacity - 1) : carray_set(t, i) BY <2>4 DEF carray_set, Begin
  <2> QED BY <2>1, <2>2, <2>3, <2>4
<1>2. /\ Others(t) /\ DOMAIN sh' = DOMAIN sh
      /\ sh'.count = sh.count /\ sh'.fresh = sh.fresh /\ sh'.bad = sh.bad
  BY <1>0, <1>1 DEF Begin, Others, ArrayTypes
<1>3. /\ loc'[t].op = op /\ loc'[t].pc = r.pc
      /\ op \in {"push", "pop"} => loc'[t].old = sh.count /\ DOMAIN loc'[t] = {"op", "pc", "old"}
      /\ op \in {"get", "set"} =>
           loc'[t].i \in 0 .. Capacity - 1 /\ loc'[t].i < sh.count /\ DOMAIN loc'[t] = {"op", "pc", "i"}
  BY <1>0, <1>1 DEF Begin, With, ArrayTypes
<1>4. ArrayTypes'
  BY <1>0, <1>1, <1>2, <1>3 DEF ArrayTypes, ArrayLocals, Others
<1>5. ArrayApart'
  BY <1>0, <1>1, <1>2, <1>3, ArrayMayBegin DEF ArrayApart, Others
<1>6. ArraySlots'
  BY <1>0, <1>1, <1>2, <1>3 DEF ArraySlots, Others, At
<1> QED BY <1>0, <1>2, <1>4, <1>5, <1>6 DEF ArrayInv

\* The end of a call, with a slot written or read or nothing done.
LEMMA ArrayReturns ==
  ASSUME ArrayInv, NEW t \in Threads, NEW F, Others(t), loc'[t] = Idle,
         DOMAIN sh' = DOMAIN sh, sh'.count = sh.count, sh'.fresh = F, sh'.bad = sh.bad,
         \/ F = sh.fresh /\ ~At(t, "copyIn")
         \/ F = sh.fresh \cup {loc[t].old} /\ At(t, "copyIn")
  PROVE  ArrayInv'
<1>0. ArrayTypes /\ ArrayApart /\ ArraySlots /\ ~sh.bad BY DEF ArrayInv
<1>1. ArrayTypes' BY <1>0 DEF ArrayTypes, ArrayLocals, Others, Idle
<1>2. ArrayApart' BY <1>0 DEF ArrayApart, Others, Idle
<1>3. ArraySlots' BY <1>0 DEF ArraySlots, Others, Idle, At
<1> QED BY <1>0, <1>1, <1>2, <1>3 DEF ArrayInv

LEMMA ArraySteps ==
  ASSUME Capacity \in Nat, ArrayInv, NEW t \in Threads,
         \/ Claim(t) \/ CopyIn(t) \/ Release(t) \/ CopyOut(t) \/ GetCopy(t) \/ SetCopy(t)
  PROVE  ArrayInv'
<1>0. ArrayTypes /\ ArrayLocals(t) /\ ArrayApart /\ ArraySlots /\ ~sh.bad
      /\ DOMAIN loc = Threads
  BY DEF ArrayInv, ArrayTypes
<1>1. Others(t) /\ DOMAIN sh' = DOMAIN sh
  BY <1>0 DEF ArrayTypes, Others, Claim, CopyIn, Release, CopyOut, GetCopy, SetCopy, Move,
       Return, Spoilt
<1>2. CASE SetCopy(t) \/ (Claim(t) /\ loc[t].old >= Capacity) \/ (Release(t) /\ loc[t].old = 0)
  <2>1. loc'[t] = Idle /\ sh' = sh /\ ~At(t, "copyIn")
    BY <1>0, <1>2 DEF SetCopy, Claim, Release, Return, At
  <2> QED BY <1>0, <1>1, <2>1, ArrayReturns
<1>3. CASE CopyIn(t)
  <2>1. /\ loc'[t] = Idle /\ sh'.count = sh.count /\ sh'.fresh = sh.fresh \cup {loc[t].old}
        /\ sh'.bad = sh.bad /\ At(t, "copyIn")
    BY <1>0, <1>3 DEF CopyIn, Return, ArrayTypes
  <2> QED BY <1>1, <2>1, ArrayReturns
<1>4. CASE CopyOut(t) \/ GetCopy(t)
  <2> DEFINE slot == IF At(t, "copyOut") THEN loc[t].old - 1 ELSE loc[t].i
  <2>1. /\ loc'[t] = Idle /\ sh' = Spoilt(sh, slot \notin sh.fresh)
        /\ At(t, "copyOut") \/ At(t, "getCopy")
    BY <1>0, <1>4 DEF CopyOut, GetCopy, Return, At
  <2>2. slot \in sh.fresh
    <3>1. CASE At(t, "copyOut") BY <1>0, <3>1 DEF ArraySlots
    <3>2. CASE At(t, "getCopy")
      <4>1. \A u \in Threads : ~At(u, "copyIn")
        BY <1>0, <3>2 DEF ArrayApart, ArrayTypes, ArrayLocals, At
      <4>2. loc[t].i \in 0 .. sh.count - 1
        BY <1>0, <3>2 DEF ArraySlots, ArrayLocals, ArrayTypes, At
      <4> QED BY <1>0, <3>2, <4>1, <4>2 DEF ArraySlots, At
    <3> QED BY <2>1, <3>1, <3>2
  <2> HIDE DEF slot
  <2>3. sh'.count = sh.count /\ sh'.fresh = sh.fresh /\ (sh'.bad <=> sh.bad)
    BY <1>0, <2>1, <2>2 DEF Spoilt, ArrayTypes
  <2>4. ~sh'.bad BY <1>0, <2>3
  <2>5. ~At(t, "copyIn") BY <2>1 DEF At
  <2>6. ArrayTypes' BY <1>0, <1>1, <2>1, <2>3 DEF ArrayTypes, ArrayLocals, Others, Idle
  <2>7. ArrayApart' BY <1>0, <1>1, <2>1 DEF ArrayApart, Others, Idle
  <2>8. ArraySlots' BY <1>0, <1>1, <2>1, <2>3, <2>5 DEF ArraySlots, Others, Idle, At
  <2> QED BY <2>4, <2>6, <2>7, <2>8 DEF ArrayInv
<1>5. CASE Claim(t) /\ loc[t].old < Capacity
  <2>1. loc[t].pc = "claim" /\ loc[t].op = "push" /\ DOMAIN loc[t] = {"op", "pc", "old"}
        /\ loc[t].old \in 0 .. Capacity - 1
    BY <1>0, <1>5 DEF Claim, At, ArrayLocals
  <2>2. \A u \in Threads : loc[u].op \notin {"pop", "get"}
    BY <1>0, <2>1 DEF ArrayApart
  <2>3. \A u \in Threads : loc[u].pc \notin {"copyOut", "getCopy"}
    BY <1>0, <2>2 DEF ArrayTypes, ArrayLocals
  <2>4. CASE loc[t].old = sh.count
    <3>1. /\ sh'.count = sh.count + 1 /\ sh'.fresh = sh.fresh \ {loc[t].old} /\ sh'.bad = sh.bad
          /\ loc'[t].pc = "copyIn" /\ loc'[t].op = "push" /\ loc'[t].old = loc[t].old
          /\ DOMAIN loc'[t] = {"op", "pc", "old"}
      <4>1. /\ sh' = [sh EXCEPT !.count = @ + 1, !.fresh = @ \ {loc[t].old}]
            /\ loc' = [loc EXCEPT ![t] = With(@, [pc |-> "copyIn"])]
        BY <1>5, <2>1, <2>4 DEF Claim, Move, To
      <4>2. sh'.count = sh.count + 1 /\ sh'.fresh = sh.fresh \ {loc[t].old} /\ sh'.bad = sh.bad
        BY <1>0, <4>1 DEF ArrayTypes
      <4> QED BY <1>0, <2>1, <4>1, <4>2 DEF With
    <3>2. ArrayTypes' BY <1>0, <1>1, <2>1, <2>4, <3>1 DEF ArrayTypes, ArrayLocals, Others
    <3>3. ArrayApart' BY <1>0, <1>1, <2>1, <3>1 DEF ArrayApart, Others
    <3>4. ArraySlots'
      <4>1. \A u \in Threads : loc'[u].pc \notin {"copyOut", "getCopy"}
        BY <1>1, <2>3, <3>1 DEF Others
      <4>2. ASSUME NEW i \in 0 .. sh'.count - 1
            PROVE  i \in sh'.fresh \/ \E u \in Threads : At(u, "copyIn")' /\ loc'[u].old = i
        <5>1. CASE i = loc[t].old BY <3>1, <5>1 DEF At
        <5>2. CASE i # loc[t].old
          <6>1. i \in 0 .. sh.count - 1 BY <1>0, <2>4, <3>1, <5>2 DEF ArrayTypes
          <6> QED BY <1>0, <1>1, <2>1, <3>1, <5>2, <6>1 DEF ArraySlots, Others, At
        <5> QED BY <5>1, <5>2
      <4>3. \A u \in Threads : At(u, "copyIn")' =>
              loc'[u].old < sh'.count /\ loc'[u].old \notin sh'.fresh
        BY <1>0, <1>1, <2>4, <3>1 DEF ArraySlots, Others, At, ArrayTypes, ArrayLocals
      <4>4. \A u \in Threads : u # t /\ At(u, "copyIn")' => loc'[u].old # loc'[t].old
        BY <1>0, <1>1, <2>4, <3>1 DEF ArraySlots, Others, At, ArrayTypes
      <4> QED BY <1>0, <1>1, <3>1, <4>1, <4>2, <4>3, <4>4 DEF ArraySlots, Others, At
    <3> QED BY <1>0, <3>1, <3>2, <3>3, <3>4 DEF ArrayInv
  <2>5. CASE loc[t].old # sh.count
    <3>1. /\ sh' = sh /\ loc'[t].pc = "claim" /\ loc'[t].op = "push" /\ loc'[t].old = sh.count
          /\ DOMAIN loc'[t] = {"op", "pc", "old"}
      BY <1>0, <1>5, <2>1, <2>5 DEF Claim, Move, To, With
    <3>2. ArrayTypes' BY <1>0, <1>1, <3>1 DEF ArrayTypes, ArrayLocals, Others
    <3>3. ArrayApart' BY <1>0, <1>1, <2>1, <3>1 DEF ArrayApart, Others
    <3>4. ArraySlots' BY <1>0, <1>1, <2>1, <3>1 DEF ArraySlots, Others, At
    <3> QED BY <1>0, <3>1, <3>2, <3>3, <3>4 DEF ArrayInv
  <2> QED BY <2>4, <2>5
<1>6. CASE Release(t) /\ loc[t].old # 0
  <2>1. loc[t].pc = "release" /\ loc[t].op = "pop" /\ DOMAIN loc[t] = {"op", "pc", "old"}
        /\ loc[t].old \in 1 .. Capacity
    BY <1>0, <1>6 DEF Release, At, ArrayLocals
  <2>2. \A u \in Threads : loc[u].op \notin {"push", "get"}
    BY <1>0, <2>1 DEF ArrayApart
  <2>3. \A u \in Threads : loc[u].pc \notin {"copyIn", "getCopy"}
    BY <1>0, <2>2 DEF ArrayTypes, ArrayLocals
  <2>4. CASE loc[t].old = sh.count
    <3>1. /\ sh'.count = sh.count - 1 /\ sh'.fresh = sh.fresh /\ sh'.bad = sh.bad
          /\ loc'[t].pc = "copyOut" /\ loc'[t].op = "pop" /\ loc'[t].old = loc[t].old
          /\ DOMAIN loc'[t] = {"op", "pc", "old"}
      <4>1. sh' = [sh EXCEPT !.count = @ - 1] /\ loc' = [loc EXCEPT ![t] = With(@, [pc |-> "copyOut"])]
        BY <1>6, <2>4 DEF Release, Move, To
      <4>2. sh'.count = sh.count - 1 /\ sh'.fresh = sh.fresh /\ sh'.bad = sh.bad
        BY <1>0, <4>1 DEF ArrayTypes
      <4> QED BY <1>0, <2>1, <4>1, <4>2 DEF With
    <3>2. ArrayTypes' BY <1>0, <1>1, <2>1, <2>4, <3>1 DEF ArrayTypes, ArrayLocals, Others
    <3>3. ArrayApart' BY <1>0, <1>1, <2>1, <3>1 DEF ArrayApart, Others
    <3>4. ArraySlots'
      <4>1. \A u \in Threads : loc'[u].pc \notin {"copyIn", "getCopy"}
        BY <1>1, <2>3, <3>1 DEF Others
      <4>2. \A i \in 0 .. sh.count - 1 : i \in sh.fresh
        BY <1>0, <2>3 DEF ArraySlots, At
      <4>3. \A i \in 0 .. sh'.count - 1 : i \in sh'.fresh
        BY <1>0, <3>1, <4>2 DEF ArrayTypes
      <4>4. \A u \in Threads : At(u, "copyOut")' =>
              loc'[u].old > sh'.count /\ loc'[u].old - 1 \in sh'.fresh
        BY <1>0, <1>1, <2>1, <2>4, <3>1, <4>2 DEF ArraySlots, Others, At, ArrayTypes, ArrayLocals
      <4>5. \A u \in Threads : u # t /\ At(u, "copyOut")' => loc'[u].old # loc'[t].old
        BY <1>0, <1>1, <2>4, <3>1 DEF ArraySlots, Others, At, ArrayTypes, ArrayLocals
      <4> QED BY <1>0, <1>1, <3>1, <4>1, <4>3, <4>4, <4>5 DEF ArraySlots, Others, At
    <3> QED BY <1>0, <3>1, <3>2, <3>3, <3>4 DEF ArrayInv
  <2>5. CASE loc[t].old # sh.count
    <3>1. /\ sh' = sh /\ loc'[t].pc = "release" /\ loc'[t].op = "pop" /\ loc'[t].old = sh.count
          /\ DOMAIN loc'[t] = {"op", "pc", "old"}
      BY <1>0, <1>6, <2>1, <2>5 DEF Release, Move, To, With
    <3>2. ArrayTypes' BY <1>0, <1>1, <3>1 DEF ArrayTypes, ArrayLocals, Others
    <3>3. ArrayApart' BY <1>0, <1>1, <2>1, <3>1 DEF ArrayApart, Others
    <3>4. \A u \in Threads : u # t => loc'[u] = loc[u] BY <1>1 DEF Others
    <3>5. ArraySlots' BY <1>0, <2>1, <3>1, <3>4 DEF ArraySlots, At
    <3> QED BY <1>0, <3>1, <3>2, <3>3, <3>5 DEF ArrayInv
  <2> QED BY <2>4, <2>5
<1>7. Claim(t) => loc[t].old >= Capacity \/ loc[t].old < Capacity
  BY <1>0 DEF Claim, At, ArrayLocals
<1> QED BY <1>2, <1>3, <1>4, <1>5, <1>6, <1>7

LEMMA ArrayCleared ==
  ASSUME Capacity \in Nat, ArrayInv, carray_destroy
  PROVE  ArrayInv'
<1>1. /\ \A t \in Threads : loc[t].pc = "idle" /\ loc'[t] = loc[t]
      /\ DOMAIN loc' = Threads /\ DOMAIN sh' = {"count", "fresh", "bad", "calls"}
      /\ sh'.count = 0 /\ sh'.fresh = {} /\ sh'.bad = FALSE
  BY DEF carray_destroy, carray_init, Quiet, At, ArrayInv, ArrayTypes
<1>2. \A t \in Threads : ArrayLocals(t) BY DEF ArrayTypes, ArrayInv
<1>3. ArrayTypes' BY <1>1, <1>2 DEF ArrayTypes, ArrayLocals
<1>4. ArrayApart' /\ ArraySlots' BY <1>1 DEF ArrayApart, ArraySlots, ArrayInv, At
<1> QED BY <1>1, <1>3, <1>4 DEF ArrayInv

\* scl_carray, as long as no pop overlaps a push: every slot below the count is
\* written, or about to be by the one push that claimed it, for any threads.
THEOREM SlotsOwned ==
  ASSUME Capacity \in Nat, "carray" \notin Overlap
  PROVE  SharedSpec => []SlotsClaimedOnce
<1>1. SharedInit => (kind = "carray" => ArrayInv)
  <2> SUFFICES ASSUME SharedInit, kind = "carray" PROVE ArrayInv OBVIOUS
  <2>1. sh = carray_init /\ loc = [t \in Threads |-> Idle] BY DEF SharedInit
  <2> QED BY <2>1 DEF carray_init, Idle, ArrayInv, ArrayTypes, ArrayLocals, ArrayApart, ArraySlots,
                    At
<1>2. (kind = "carray" => ArrayInv) /\ [SharedNext]_Vars => (kind = "carray" => ArrayInv)'
  <2> SUFFICES ASSUME kind = "carray" => ArrayInv, [SharedNext]_Vars, kind' = "carray" PROVE ArrayInv'
    OBVIOUS
  <2>1. CASE UNCHANGED Vars
    BY <2>1 DEF Vars, ArrayInv, ArrayTypes, ArrayLocals, ArrayApart, ArraySlots, At
  <2>2. CASE kind = "carray" /\ ArrayNext
    BY <2>2, ArrayBegins, ArraySteps, ArrayCleared DEF ArrayNext
  <2> QED BY <2>1, <2>2, KindStays DEF Vars
<1>3. (kind = "carray" => ArrayInv) => SlotsClaimedOnce
  <2> SUFFICES ASSUME kind = "carray", ArrayInv PROVE SlotsClaimedOnce
    BY DEF SlotsClaimedOnce
  <2>1. Locals("copyIn", "old") = 0 .. (sh.count - 1) \ sh.fresh
    BY DEF Locals, ArrayInv, ArrayTypes, ArrayLocals, ArraySlots, At
  <2> QED BY <2>1 DEF SlotsClaimedOnce, ArrayInv, ArrayTypes, ArraySlots
<1> QED BY <1>1, <1>2, <1>3, PTL DEF SharedSpec

-----------------------------------------------------------------------------
(* scl_cringbuf and its peek without the lock *)

RingLocals(t) ==
  LET me == loc[t]
  IN \/ me.pc = "idle" /\ me.op = "none" /\ DOMAIN me = {"op", "pc"}
     \/ /\ me.pc \in {"fill", "publish", "unlock"} /\ me.op = "push"
        /\ DOMAIN me = {"op", "pc", "v"} /\ me.v \in Values
     \/ /\ me.pc \in {"first", "advance", "shrink", "unlock"} /\ me.op = "pop"
        /\ DOMAIN me = {"op", "pc"}
     \/ /\ me.op = "peek" /\ me.i \in 0 .. 1
        /\ \/ me.pc = "peekHead" /\ DOMAIN me = {"op", "pc", "i"}
           \/ me.pc = "peekCopy" /\ DOMAIN me = {"op", "pc", "i", "slot"}

RingTypes ==
  /\ DOMAIN loc = Threads /\ \A t \in Threads : RingLocals(t)
  /\ DOMAIN sh = {"data", "head", "count", "lock", "content", "bad", "calls"}
  /\ DOMAIN sh.data = 0 .. 1 /\ sh.head \in 0 .. 1 /\ sh.count \in 0 .. 2
  /\ sh.content \in Seq(Values) /\ Len(sh.content) = sh.count

\* The lock, and peeks apart from pops.
Locked(t) == loc[t].op \in {"push", "pop"}
RingApart ==
  \A t \in Threads :
    /\ Locked(t) => sh.lock /\ \A u \in Threads : Locked(u) => u = t
    /\ loc[t].op = "peek" => \A u \in Threads : loc[u].op # "pop"

\* Between its two stores a pop has advanced the head and not lowered the count.
Offset == IF \E t \in Threads : At(t, "shrink") THEN 1 ELSE 0

RingSlots ==
  /\ \A i \in 0 .. 1 : i < sh.count => sh.data[(sh.head + Offset + i) % 2] = sh.content[i + 1]
  /\ \A t \in Threads :
       /\ At(t, "publish") => sh.count < 2 /\ sh.data[(sh.head + sh.count) % 2] = loc[t].v
       /\ loc[t].pc \in {"advance", "shrink"} => sh.count > 0
       /\ loc[t].op = "peek" => loc[t].i < sh.count
       /\ At(t, "peekCopy") => loc[t].slot = (sh.head + loc[t].i) % 2

RingBufInv == RingTypes /\ RingApart /\ RingSlots /\ ~sh.bad

LEMMA Halves ==
  /\ 0 % 2 = 0 /\ 1 % 2 = 1 /\ 2 % 2 = 0 /\ 3 % 2 = 1
  /\ \A n \in 0 .. 3 : n = 0 \/ n = 1 \/ n = 2 \/ n = 3
OBVIOUS

LEMMA RingSize == RingTypes => Size = 2
<1>1. ASSUME NEW a \in Int, NEW b \in Int, a = 0, b = 1 PROVE Cardinality(a .. b) = 2
  <2>1. Cardinality(a .. b) = IF a > b THEN 0 ELSE b - a + 1 BY FS_Interval
  <2> QED BY <1>1, <2>1
<1>2. 0 \in Int /\ 1 \in Int OBVIOUS
<1>3. Cardinality(0 .. 1) = 2 BY <1>1, <1>2, Zenon
<1> QED BY <1>3 DEF RingTypes, Size

\* The first step of push, pop and peek.
LEMMA RingBegins ==
  ASSUME "cringbuf" \notin Overlap, kind = "cringbuf", RingBufInv, NEW t \in Threads,
         \/ cringbuf_pop(t) \/ \E v \in Values : cringbuf_push(t, v)
         \/ \E i \in 0 .. 1 : cringbuf_peek(t, i)
  PROVE  RingBufInv'
<1>0. /\ RingTypes /\ RingApart /\ RingSlots /\ ~sh.bad /\ DOMAIN loc = Threads
      /\ Clash = {{"pop", "peek"}}
  BY DEF RingBufInv, RingTypes, Clash
<1>1. /\ Others(t) /\ At(t, "idle") /\ DOMAIN sh' = DOMAIN sh /\ sh'.data = sh.data
      /\ sh'.head = sh.head /\ sh'.count = sh.count /\ sh'.content = sh.content /\ sh'.bad = sh.bad
  BY <1>0 DEF cringbuf_pop, cringbuf_push, cringbuf_peek, Locking, Begin, Others, RingTypes
<1>a. ASSUME cringbuf_pop(t)
      PROVE  loc'[t].pc = "first" /\ loc'[t].op = "pop" /\ DOMAIN loc'[t] = {"op", "pc"}
  <2>1. loc' = [loc EXCEPT ![t] = With([op |-> "pop"], [pc |-> "first"])]
    BY <1>a DEF cringbuf_pop, Locking, Begin, To
  <2> QED BY <1>0, <2>1 DEF With
<1>b. ASSUME NEW v \in Values, cringbuf_push(t, v)
      PROVE  /\ loc'[t].pc = "fill" /\ loc'[t].op = "push" /\ loc'[t].v = v
             /\ DOMAIN loc'[t] = {"op", "pc", "v"}
  <2>1. loc' = [loc EXCEPT ![t] = With([op |-> "push"], [pc |-> "fill", v |-> v])]
    BY <1>b DEF cringbuf_push, Locking, Begin
  <2> QED BY <1>0, <2>1 DEF With
<1>c. ASSUME NEW i \in 0 .. 1, cringbuf_peek(t, i)
      PROVE  /\ loc'[t].pc = "peekHead" /\ loc'[t].op = "peek" /\ loc'[t].i = i
             /\ DOMAIN loc'[t] = {"op", "pc", "i"} /\ i < sh.count
  <2>1. loc' = [loc EXCEPT ![t] = With([op |-> "peek"], [pc |-> "peekHead", i |-> i])]
    BY <1>c DEF cringbuf_peek, Begin
  <2> QED BY <1>0, <1>c, <2>1 DEF With, cringbuf_peek
<1>2. /\ loc'[t].pc \in {"fill", "first", "peekHead"} /\ RingLocals(t)'
      /\ loc'[t].op = "peek" => loc'[t].i < sh.count
  BY <1>a, <1>b, <1>c DEF RingLocals
<1>3. RingTypes' BY <1>0, <1>1, <1>2 DEF RingTypes, RingLocals, Others
<1>4. Offset' = Offset BY <1>1, <1>2 DEF Offset, At, Others
<1>5. RingSlots' BY <1>0, <1>1, <1>2, <1>4 DEF RingSlots, Others, At, RingLocals
<1>6. RingApart'
  <2>1. CASE cringbuf_pop(t) \/ \E v \in Values : cringbuf_push(t, v)
    <3>1. ~sh.lock /\ sh'.lock = TRUE /\ loc'[t].op \in {"push", "pop"}
      BY <1>0, <1>a, <1>b, <2>1 DEF cringbuf_pop, cringbuf_push, Locking, Begin, RingTypes
    <3>2. \A u \in Threads : ~Locked(u) BY <1>0, <3>1 DEF RingApart
    <3>3. loc'[t].op = "pop" => \A u \in Threads : loc[u].op # "peek"
      <4> SUFFICES ASSUME loc'[t].op = "pop", NEW u \in Threads PROVE loc[u].op # "peek" OBVIOUS
      <4>1. cringbuf_pop(t)
        BY <1>b, <2>1
      <4>2. {"pop", loc[u].op} \notin Clash
        BY <4>1 DEF cringbuf_pop, Locking, Begin, Running
      <4> QED BY <1>0, <4>2
    <3> QED BY <1>0, <1>1, <3>1, <3>2, <3>3 DEF RingApart, Locked, Others
  <2>2. CASE \E i \in 0 .. 1 : cringbuf_peek(t, i)
    <3>1. sh'.lock = sh.lock /\ loc'[t].op = "peek"
      BY <1>0, <1>c, <2>2 DEF cringbuf_peek, Begin, RingTypes
    <3>2. ASSUME NEW u \in Threads PROVE loc[u].op # "pop"
      <4>1. {"peek", loc[u].op} \notin Clash
        BY <2>2 DEF cringbuf_peek, Begin, Running
      <4> QED BY <1>0, <4>1
    <3> QED BY <1>0, <1>1, <3>1, <3>2 DEF RingApart, Locked, Others
  <2> QED BY <2>1, <2>2
<1> QED BY <1>0, <1>1, <1>3, <1>5, <1>6 DEF RingBufInv

\* The end of push and pop, which gives the lock back.
LEMMA RingUnlocks ==
  ASSUME RingBufInv, NEW t \in Threads, Locked(t), ~At(t, "shrink"),
         Return(t, [sh EXCEPT !.lock = FALSE])
  PROVE  RingBufInv'
<1>0. /\ RingTypes /\ RingApart /\ RingSlots /\ ~sh.bad /\ DOMAIN loc = Threads
  BY DEF RingBufInv, RingTypes
<1>1. /\ Others(t) /\ loc'[t] = Idle /\ DOMAIN sh' = DOMAIN sh /\ sh'.data = sh.data
      /\ sh'.head = sh.head /\ sh'.count = sh.count /\ sh'.content = sh.content /\ sh'.bad = sh.bad
  BY <1>0 DEF Return, Others, RingTypes
<1>2. RingTypes' BY <1>0, <1>1 DEF RingTypes, RingLocals, Others, Idle
<1>3. Offset' = Offset BY <1>1 DEF Offset, At, Others, Idle
<1>4. RingSlots' BY <1>0, <1>1, <1>3 DEF RingSlots, Others, At, Idle
<1>5. RingApart' BY <1>0, <1>1 DEF RingApart, Locked, Others, Idle
<1> QED BY <1>0, <1>1, <1>2, <1>4, <1>5 DEF RingBufInv

\* push under the lock: the slot it writes is none that a peek reads.
LEMMA RingPushes ==
  ASSUME RingBufInv, NEW t \in Threads, Fill(t) \/ Publish(t)
  PROVE  RingBufInv'
<1>0. /\ RingTypes /\ RingApart /\ RingSlots /\ ~sh.bad /\ DOMAIN loc = Threads /\ RingLocals(t)
  BY DEF RingBufInv, RingTypes
<1>1. /\ loc[t].op = "push" /\ loc[t].v \in Values /\ DOMAIN loc[t] = {"op", "pc", "v"}
      /\ loc[t].pc \in {"fill", "publish"}
  BY <1>0 DEF Fill, Publish, At, RingLocals
<1>2. \A u \in Threads : u # t => loc[u].op \notin {"push", "pop"}
  BY <1>0, <1>1 DEF RingApart, Locked
<1>3. \A u \in Threads : u # t => loc[u].pc \in {"idle", "peekHead", "peekCopy"}
  BY <1>0, <1>2 DEF RingTypes, RingLocals
<1>4. Offset = 0 BY <1>1, <1>3 DEF Offset, At
<1>5. CASE Fill(t) /\ sh.count = Size
  BY <1>1, <1>5, RingUnlocks DEF Fill, Locked, At
<1>6. CASE Fill(t) /\ sh.count # Size
  <2>1. sh.count \in 0 .. 1 BY <1>0, <1>6, RingSize DEF RingTypes
  <2>2. /\ sh' = [sh EXCEPT !.data[(sh.head + sh.count) % 2] = loc[t].v]
        /\ loc' = [loc EXCEPT ![t] = With(@, [pc |-> "publish"])]
    BY <1>0, <1>6, RingSize DEF Fill, Move, To
  <2>3. /\ Others(t) /\ loc'[t].op = "push" /\ loc'[t].v = loc[t].v /\ loc'[t].pc = "publish"
        /\ DOMAIN loc'[t] = {"op", "pc", "v"}
    BY <1>0, <1>1, <2>2 DEF With, Others
  <2>4. /\ DOMAIN sh' = DOMAIN sh /\ sh'.head = sh.head /\ sh'.count = sh.count
        /\ sh'.lock = sh.lock /\ sh'.content = sh.content /\ sh'.bad = sh.bad
        /\ sh'.data = [sh.data EXCEPT ![(sh.head + sh.count) % 2] = loc[t].v]
    BY <1>0, <2>2 DEF RingTypes
  <2>5. /\ DOMAIN sh'.data = 0 .. 1
        /\ sh'.data[(sh.head + sh.count) % 2] = loc[t].v
        /\ \A i \in 0 .. 1 : i < sh.count => sh'.data[(sh.head + i) % 2] = sh.data[(sh.head + i) % 2]
    BY <1>0, <2>1, <2>4, Halves DEF RingTypes
  <2>6. Offset' = 0 BY <1>3, <2>3 DEF Offset, At, Others
  <2>7. RingTypes'
    <3>1. RingLocals(t)' BY <1>1, <2>3 DEF RingLocals
    <3>2. \A u \in Threads : u # t => RingLocals(u)' BY <1>0, <2>3 DEF RingTypes, RingLocals, Others
    <3> QED BY <1>0, <2>3, <2>4, <2>5, <3>1, <3>2 DEF RingTypes, Others
  <2>8. RingApart' BY <1>0, <1>1, <2>3, <2>4 DEF RingApart, Locked, Others
  <2>9. RingSlots'
    <3>1. \A i \in 0 .. 1 : i < sh'.count => sh'.data[(sh'.head + Offset' + i) % 2] = sh'.content[i + 1]
      <4>1. \A i \in 0 .. 1 : i < sh.count => sh.data[(sh.head + i) % 2] = sh.content[i + 1]
        BY <1>0, <1>4 DEF RingSlots, RingTypes
      <4>2. \A i \in 0 .. 1 : i < sh.count => sh'.data[(sh.head + i) % 2] = sh.content[i + 1]
        BY <2>5, <4>1
      <4> QED BY <1>0, <2>4, <2>6, <4>2 DEF RingTypes
    <3> QED BY <1>0, <1>3, <2>1, <2>3, <2>4, <2>5, <3>1 DEF RingSlots, Others, At
  <2> QED BY <1>0, <2>4, <2>7, <2>8, <2>9 DEF RingBufInv
<1>7. CASE Publish(t)
  <2>1. /\ loc[t].pc = "publish" /\ sh.count \in 0 .. 1
        /\ sh.data[(sh.head + sh.count) % 2] = loc[t].v
    BY <1>0, <1>7 DEF Publish, RingSlots, At, RingTypes
  <2>2. /\ sh' = [sh EXCEPT !.count = @ + 1, !.content = Append(@, loc[t].v)]
        /\ loc' = [loc EXCEPT ![t] = With(@, [pc |-> "unlock"])]
    BY <1>7 DEF Publish, Move, To
  <2>3. /\ Others(t) /\ loc'[t].op = "push" /\ loc'[t].v = loc[t].v /\ loc'[t].pc = "unlock"
        /\ DOMAIN loc'[t] = {"op", "pc", "v"}
    BY <1>0, <1>1, <2>2 DEF With, Others
  <2>4. /\ DOMAIN sh' = DOMAIN sh /\ sh'.head = sh.head /\ sh'.count = sh.count + 1
        /\ sh'.lock = sh.lock /\ sh'.content = Append(sh.content, loc[t].v) /\ sh'.bad = sh.bad
        /\ sh'.data = sh.data
    BY <1>0, <2>2 DEF RingTypes
  <2>5. /\ sh'.content \in Seq(Values) /\ Len(sh'.content) = sh.count + 1
        /\ \A i \in 1 .. sh.count : sh'.content[i] = sh.content[i]
        /\ sh'.content[sh.count + 1] = loc[t].v
    BY <1>0, <1>1, <2>4, AppendProperties DEF RingTypes
  <2>6. Offset' = 0 BY <1>3, <2>3 DEF Offset, At, Others
  <2>7. RingTypes' BY <1>0, <1>1, <2>1, <2>3, <2>4, <2>5 DEF RingTypes, RingLocals, Others
  <2>8. RingApart' BY <1>0, <1>1, <2>3, <2>4 DEF RingApart, Locked, Others
  <2>9. RingSlots'
    <3>1. ASSUME NEW i \in 0 .. 1, i < sh.count + 1
          PROVE  sh.data[(sh.head + i) % 2] = sh'.content[i + 1]
      <4>1. CASE i = sh.count BY <2>1, <2>5, <4>1
      <4>2. CASE i < sh.count
        <5>1. sh.data[(sh.head + i) % 2] = sh.content[i + 1]
          BY <1>0, <1>4, <4>2 DEF RingSlots, RingTypes
        <5>2. i + 1 \in 1 .. sh.count BY <2>1, <4>2
        <5> QED BY <2>5, <5>1, <5>2
      <4> QED BY <2>1, <3>1, <4>1, <4>2
    <3>2. \A i \in 0 .. 1 : i < sh'.count => sh'.data[(sh'.head + Offset' + i) % 2] = sh'.content[i + 1]
      BY <1>0, <2>4, <2>6, <3>1 DEF RingTypes
    <3>3. ~At(t, "publish")' /\ loc'[t].pc \notin {"advance", "shrink", "peekCopy"} /\ loc'[t].op # "peek"
      BY <2>3 DEF At
    <3>4. ASSUME NEW u \in Threads, u # t
          PROVE  /\ ~At(u, "publish")' /\ loc'[u].pc \notin {"advance", "shrink"}
                 /\ loc'[u].op = "peek" => loc'[u].i < sh'.count
                 /\ At(u, "peekCopy")' => loc'[u].slot = (sh'.head + loc'[u].i) % 2
      <4>1. loc'[u] = loc[u] BY <2>3, <3>4 DEF Others
      <4>2. RingLocals(u) BY <1>0 DEF RingTypes
      <4>3. loc[u].op = "peek" => loc[u].i < sh.count + 1
        BY <1>0, <2>1, <4>2 DEF RingSlots, RingLocals
      <4> QED BY <1>0, <1>3, <2>4, <3>4, <4>1, <4>3 DEF RingSlots, At
    <3>5. \A u \in Threads :
            /\ ~At(u, "publish")' /\ loc'[u].pc \notin {"advance", "shrink"}
            /\ loc'[u].op = "peek" => loc'[u].i < sh'.count
            /\ At(u, "peekCopy")' => loc'[u].slot = (sh'.head + loc'[u].i) % 2
      BY <3>3, <3>4 DEF At
    <3> QED BY <3>2, <3>5 DEF RingSlots
  <2> QED BY <1>0, <2>4, <2>7, <2>8, <2>9 DEF RingBufInv
<1> QED BY <1>5, <1>6, <1>7

\* pop under the lock, without a peek beside it.
LEMMA RingPops ==
  ASSUME RingBufInv, NEW t \in Threads, First(t) \/ Advance(t) \/ Shrink(t)
  PROVE  RingBufInv'
<1>0. /\ RingTypes /\ RingApart /\ RingSlots /\ ~sh.bad /\ DOMAIN loc = Threads /\ RingLocals(t)
  BY DEF RingBufInv, RingTypes
<1>1. /\ loc[t].op = "pop" /\ DOMAIN loc[t] = {"op", "pc"}
      /\ loc[t].pc \in {"first", "advance", "shrink"}
  BY <1>0 DEF First, Advance, Shrink, At, RingLocals
<1>2. \A u \in Threads : u # t => loc[u].op \notin {"push", "pop", "peek"}
  BY <1>0, <1>1 DEF RingApart, Locked
<1>3. \A u \in Threads : u # t => loc[u].pc = "idle" /\ loc[u].op = "none"
  BY <1>0, <1>2 DEF RingTypes, RingLocals
<1>4. Offset = IF loc[t].pc = "shrink" THEN 1 ELSE 0 BY <1>1, <1>3 DEF Offset, At
<1>5. CASE First(t) /\ sh.count = 0
  BY <1>1, <1>5, RingUnlocks DEF First, Locked, At
<1>6. CASE ~(First(t) /\ sh.count = 0)
  <2> DEFINE to == IF loc[t].pc = "first" THEN "advance"
                   ELSE IF loc[t].pc = "advance" THEN "shrink" ELSE "unlock"
  <2>1. loc' = [loc EXCEPT ![t] = With(@, [pc |-> to])]
    BY <1>0, <1>6 DEF First, Advance, Shrink, Move, To, At
  <2>2. /\ Others(t) /\ loc'[t].op = "pop" /\ loc'[t].pc = to /\ DOMAIN loc'[t] = {"op", "pc"}
    <3> HIDE DEF to
    <3> QED BY <1>0, <1>1, <2>1 DEF With, Others
  <2>3. Offset' = IF loc[t].pc = "advance" THEN 1 ELSE 0
    BY <1>1, <1>3, <2>2 DEF Offset, At, Others
  <2>4. /\ DOMAIN sh' = DOMAIN sh /\ sh'.data = sh.data /\ sh'.lock = sh.lock
        /\ sh'.head = IF loc[t].pc = "advance" THEN (sh.head + 1) % 2 ELSE sh.head
        /\ sh'.count = IF loc[t].pc = "shrink" THEN sh.count - 1 ELSE sh.count
        /\ sh'.content = IF loc[t].pc = "shrink" THEN Tail(sh.content) ELSE sh.content
    BY <1>0, <1>1, <1>6, RingSize DEF First, Advance, Shrink, Move, Spoilt, At, RingTypes
  <2>5. sh.count \in 1 .. 2 /\ Len(sh.content) = sh.count /\ sh.content # <<>>
    <3>1. sh.count > 0 BY <1>0, <1>1, <1>6 DEF First, RingSlots, RingTypes, Advance, Shrink, At
    <3> QED BY <1>0, <3>1 DEF RingTypes
  <2>6. /\ Head(sh.content) = sh.content[1]
        /\ Tail(sh.content) \in Seq(Values) /\ Len(Tail(sh.content)) = sh.count - 1
        /\ \A i \in 1 .. sh.count - 1 : Tail(sh.content)[i] = sh.content[i + 1]
    BY <1>0, <2>5, HeadTailProperties DEF RingTypes
  <2>7. sh'.head \in 0 .. 1 BY <1>0, <2>4, Halves DEF RingTypes
  <2>8. RingTypes'
    BY <1>0, <1>1, <2>2, <2>4, <2>5, <2>6, <2>7 DEF RingTypes, RingLocals, Others
  <2>9. RingApart' BY <1>0, <1>1, <2>2, <2>4 DEF RingApart, Locked, Others
  <2>10. ~sh'.bad
    <3>1. CASE First(t)
      <4>1. sh.data[sh.head] = Head(sh.content)
        <5>1. loc[t].pc = "first" BY <3>1 DEF First, At
        <5>2. sh.data[(sh.head + 0 + 0) % 2] = sh.content[0 + 1]
          BY <1>0, <1>4, <2>5, <5>1 DEF RingSlots
        <5>3. (sh.head + 0 + 0) % 2 = sh.head BY <1>0, Halves DEF RingTypes
        <5> QED BY <2>6, <5>2, <5>3
      <4>2. sh' = Spoilt(sh, sh.data[sh.head] # Head(sh.content))
        BY <1>6, <3>1 DEF First, Move
      <4>3. sh'.bad <=> (sh.bad \/ sh.data[sh.head] # Head(sh.content))
        BY <1>0, <4>2 DEF Spoilt, RingTypes
      <4> QED BY <1>0, <4>1, <4>3
    <3>2. CASE Advance(t) \/ Shrink(t)
      <4>1. sh'.bad = sh.bad BY <1>0, <3>2 DEF Advance, Shrink, Move, RingTypes
      <4> QED BY <1>0, <4>1
    <3> QED BY <3>1, <3>2
  <2>11. \A i \in 0 .. 1 : i < sh'.count => sh'.data[(sh'.head + Offset' + i) % 2] = sh'.content[i + 1]
    <3> SUFFICES ASSUME NEW i \in 0 .. 1, i < sh'.count
                 PROVE  sh.data[(sh'.head + Offset' + i) % 2] = sh'.content[i + 1]
      BY <2>4
    <3>1. CASE loc[t].pc = "first"
      BY <1>0, <1>4, <2>3, <2>4, <3>1 DEF RingSlots
    <3>2. CASE loc[t].pc = "advance"
      <4>1. sh.data[(sh.head + 0 + i) % 2] = sh.content[i + 1]
        BY <1>0, <1>4, <2>4, <3>2 DEF RingSlots
      <4>2. (((sh.head + 1) % 2) + 1 + i) % 2 = (sh.head + 0 + i) % 2
        BY <1>0, Halves DEF RingTypes
      <4> QED BY <2>3, <2>4, <3>2, <4>1, <4>2
    <3>3. CASE loc[t].pc = "shrink"
      <4>1. i = 0 /\ sh.count = 2 BY <2>4, <2>5, <3>3
      <4>2. sh.data[(sh.head + 1 + 1) % 2] = sh.content[1 + 1]
        BY <1>0, <1>4, <3>3, <4>1 DEF RingSlots
      <4>3. (sh.head + 1 + 1) % 2 = (sh.head + 0 + 0) % 2 BY <1>0, Halves DEF RingTypes
      <4>4. Tail(sh.content)[1] = sh.content[2] BY <2>6, <4>1
      <4>5. sh'.head = sh.head /\ Offset' = 0 /\ sh'.content = Tail(sh.content)
        BY <2>3, <2>4, <3>3
      <4> DEFINE place == (sh.head + 0 + 0) % 2
                 tail == Tail(sh.content)
                 above == (sh.head + 1 + 1) % 2
      <4>6. sh.data[place] = tail[1]
        <5>1. above = place BY <4>3
        <5>2. 1 + 1 = 2 OBVIOUS
        <5>3. sh.data[above] = sh.content[2] BY <4>2, <5>2, Zenon DEF above
        <5>4. tail[1] = sh.content[2] BY <4>4, Zenon DEF tail
        <5> HIDE DEF place, above, tail
        <5> QED BY <5>1, <5>3, <5>4
      <4>7. (sh'.head + Offset' + i) % 2 = place /\ sh'.content = tail /\ i + 1 = 1
        BY <4>1, <4>5
      <4> HIDE DEF place, tail
      <4> QED BY <4>6, <4>7
    <3> QED BY <1>1, <3>1, <3>2, <3>3
  <2>12. RingSlots'
    <3>1. \A u \in Threads : loc'[u].op # "peek" /\ loc'[u].pc \notin {"publish", "peekCopy"}
      BY <1>3, <2>2 DEF Others
    <3>2. \A u \in Threads : loc'[u].pc \in {"advance", "shrink"} => sh'.count > 0
      BY <1>1, <1>3, <2>2, <2>4, <2>5 DEF Others
    <3> QED BY <2>11, <3>1, <3>2 DEF RingSlots, At
  <2> QED BY <2>8, <2>9, <2>10, <2>12 DEF RingBufInv
<1> QED BY <1>5, <1>6

LEMMA RingPeeks ==
  ASSUME RingBufInv, NEW t \in Threads, PeekHead(t) \/ PeekCopy(t)
  PROVE  RingBufInv'
<1>0. /\ RingTypes /\ RingApart /\ RingSlots /\ ~sh.bad /\ DOMAIN loc = Threads /\ RingLocals(t)
  BY DEF RingBufInv, RingTypes
<1>1. /\ loc[t].op = "peek" /\ loc[t].i \in 0 .. 1 /\ loc[t].i < sh.count
      /\ loc[t].pc \in {"peekHead", "peekCopy"} /\ {"op", "pc", "i"} \subseteq DOMAIN loc[t]
  BY <1>0 DEF PeekHead, PeekCopy, At, RingLocals, RingSlots
<1>2. Offset = 0
  <2>1. \A u \in Threads : loc[u].op # "pop" BY <1>0, <1>1 DEF RingApart
  <2> QED BY <1>0, <2>1 DEF Offset, At, RingTypes, RingLocals
<1>3. CASE PeekHead(t)
  <2>1. /\ sh' = sh /\ loc[t].pc = "peekHead"
        /\ loc' = [loc EXCEPT ![t] = With(@, [pc |-> "peekCopy", slot |-> (sh.head + loc[t].i) % 2])]
    BY <1>0, <1>3, RingSize DEF PeekHead, Move, At
  <2> DEFINE place == (sh.head + loc[t].i) % 2
  <2>2. DOMAIN loc[t] = {"op", "pc", "i"} BY <1>0, <2>1 DEF RingLocals
  <2>3. /\ Others(t) /\ loc'[t].op = "peek" /\ loc'[t].i = loc[t].i /\ loc'[t].pc = "peekCopy"
        /\ loc'[t].slot = place /\ DOMAIN loc'[t] = {"op", "pc", "i", "slot"}
    <3> HIDE DEF place
    <3>1. loc' = [loc EXCEPT ![t] = With(@, [pc |-> "peekCopy", slot |-> place])]
      BY <2>1 DEF place
    <3> QED BY <1>0, <1>1, <2>2, <3>1 DEF With, Others
  <2>4. RingTypes' BY <1>0, <1>1, <2>1, <2>3 DEF RingTypes, RingLocals, Others
  <2>5. RingApart' BY <1>0, <1>1, <2>1, <2>3 DEF RingApart, Locked, Others
  <2>6. Offset' = Offset BY <2>1, <2>3 DEF Offset, At, Others
  <2>7. RingSlots' BY <1>0, <1>1, <2>1, <2>3, <2>6 DEF RingSlots, Others, At
  <2> QED BY <1>0, <2>1, <2>4, <2>5, <2>7 DEF RingBufInv
<1>4. CASE PeekCopy(t)
  <2>1. /\ sh' = Spoilt(sh, sh.data[loc[t].slot] # sh.content[loc[t].i + 1])
        /\ loc[t].pc = "peekCopy" /\ loc'[t] = Idle /\ Others(t)
    BY <1>0, <1>4 DEF PeekCopy, Return, At, Others
  <2>2. sh.data[loc[t].slot] = sh.content[loc[t].i + 1]
    <3>1. loc[t].slot = (sh.head + loc[t].i) % 2 BY <1>0, <2>1 DEF RingSlots, At
    <3>2. sh.data[(sh.head + 0 + loc[t].i) % 2] = sh.content[loc[t].i + 1]
      BY <1>0, <1>1, <1>2 DEF RingSlots
    <3>3. sh.head + 0 + loc[t].i = sh.head + loc[t].i BY <1>0, <1>1 DEF RingTypes
    <3> QED BY <3>1, <3>2, <3>3
  <2>3. /\ DOMAIN sh' = DOMAIN sh /\ sh'.data = sh.data /\ sh'.lock = sh.lock /\ sh'.head = sh.head
        /\ sh'.count = sh.count /\ sh'.content = sh.content
        /\ sh'.bad <=> (sh.bad \/ sh.data[loc[t].slot] # sh.content[loc[t].i + 1])
    BY <1>0, <2>1 DEF Spoilt, RingTypes
  <2>4. RingTypes' BY <1>0, <2>1, <2>3 DEF RingTypes, RingLocals, Others, Idle
  <2>5. RingApart' BY <1>0, <2>1, <2>3 DEF RingApart, Locked, Others, Idle
  <2>6. Offset' = Offset BY <2>1 DEF Offset, At, Others, Idle
  <2>7. RingSlots'
    <3>1. \A u \in Threads : u # t => loc'[u] = loc[u] BY <2>1 DEF Others
    <3>2. loc'[t].pc = "idle" /\ loc'[t].op = "none" BY <2>1 DEF Idle
    <3> QED BY <1>0, <2>3, <2>6, <3>1, <3>2 DEF RingSlots, At
  <2> QED BY <1>0, <2>2, <2>3, <2>4, <2>5, <2>7 DEF RingBufInv
<1> QED BY <1>3, <1>4

\* scl_cringbuf_peek, which takes no lock, returns the element at its index as
\* long as no pop overlaps it, for any number of threads that push and peek.
THEOREM PeekRight ==
  ASSUME "cringbuf" \notin Overlap
  PROVE  SharedSpec => []PeekSeesElement
<1>1. SharedInit => (kind = "cringbuf" => RingBufInv)
  <2> SUFFICES ASSUME SharedInit, kind = "cringbuf" PROVE RingBufInv OBVIOUS
  <2>1. sh = cringbuf_init /\ loc = [t \in Threads |-> Idle] BY DEF SharedInit
  <2> QED BY <2>1 DEF cringbuf_init, Idle, RingBufInv, RingTypes, RingLocals, RingApart, RingSlots,
                    Locked, At
<1>2. (kind = "cringbuf" => RingBufInv) /\ [SharedNext]_Vars => (kind = "cringbuf" => RingBufInv)'
  <2> SUFFICES ASSUME kind = "cringbuf" => RingBufInv, [SharedNext]_Vars, kind' = "cringbuf"
               PROVE  RingBufInv'
    OBVIOUS
  <2>1. CASE UNCHANGED Vars
    BY <2>1 DEF Vars, RingBufInv, RingTypes, RingLocals, RingApart, RingSlots, Locked, At, Offset
  <2>2. CASE kind = "cringbuf" /\ RingNext
    <3>1. ASSUME NEW t \in Threads, Unlock(t) PROVE RingBufInv'
      <4>1. RingLocals(t) BY <2>2 DEF RingBufInv, RingTypes
      <4>2. Locked(t) /\ ~At(t, "shrink") BY <3>1, <4>1 DEF Unlock, At, RingLocals, Locked
      <4> QED BY <2>2, <3>1, <4>2, RingUnlocks DEF Unlock
    <3> QED BY <2>2, <3>1, RingBegins, RingPushes, RingPops, RingPeeks DEF RingNext
  <2> QED BY <2>1, <2>2, KindStays DEF Vars
<1>3. (kind = "cringbuf" => RingBufInv) => PeekSeesElement
  BY DEF RingBufInv, PeekSeesElement
<1> QED BY <1>1, <1>2, <1>3, PTL DEF SharedSpec

-----------------------------------------------------------------------------
(* Nodes on the heap, linked by next *)

\* p has the addresses of nodes of which each is linked to the one behind it.
Linear(p) ==
  /\ p \in Seq(Addr)
  /\ \A i, j \in 1 .. Len(p) : p[i] = p[j] => i = j
  /\ \A i \in 1 .. Len(p) :
       p[i] \in DOMAIN sh.node /\ sh.node[p[i]].next = IF i < Len(p) THEN p[i + 1] ELSE Null

\* The count lags behind both ways.
Raising == {t \in Threads : loc[t].pc \in {"raise", "eOld", "eSwing"}}
Lowering == {t \in Threads : loc[t].pc \in {"take", "lower", "dFree"}}
CountLags ==
  /\ sh.count \in Int
  /\ sh.count + Cardinality(Raising) = Len(sh.content) + Cardinality(Lowering)

LEMMA LeastNat ==
  ASSUME NEW T \in SUBSET Nat, T # {}
  PROVE  \E m \in T : \A n \in T : m <= n
<1>1. PICK m \in T : \A n \in T : <<n, m>> \notin OpToRel(<, Nat)
  BY NatLessThanWellFounded, WFMin
<1>2. \A n \in T : ~(n < m) BY <1>1 DEF OpToRel
<1> QED BY <1>2

\* Following the links from a meets the nodes of the path and then Null.
LEMMA WalkIsPath ==
  ASSUME NEW a, NEW p, Linear(p), a = IF Len(p) = 0 THEN Null ELSE p[1], Null \notin DOMAIN sh.node,
         IsFiniteSet(Addr), Null \notin Addr
  PROVE  /\ ChainOf(a) = [i \in 0 .. Len(p) - 1 |-> p[i + 1]]
         /\ Len(p) \in Nat /\ Cardinality(0 .. Len(p) - 1) = Len(p)
<1> DEFINE N == Cardinality(Addr)
           e(w) == [n \in 0 .. N |-> IF n = 0 THEN a ELSE NextOf(w[n - 1])]
           g == [n \in 0 .. N |-> IF n < Len(p) THEN p[n + 1] ELSE Null]
<1>1. N \in Nat BY FS_CardinalityType
<1>2. /\ Len(p) \in Nat /\ p \in [1 .. Len(p) -> Addr]
      /\ \A i, j \in 1 .. Len(p) : p[i] = p[j] => i = j
  BY LenProperties DEF Linear
<1> HIDE DEF N
<1>3. Len(p) <= N
  <2>1. p \in Injection(1 .. Len(p), Addr) BY <1>2 DEF Injection, IsInjective
  <2>2. Cardinality(1 .. Len(p)) <= N BY <2>1, FS_Injection DEF N
  <2> DEFINE k == Len(p)
  <2>3. k \in Nat BY <1>2
  <2> HIDE DEF k
  <2>4. Cardinality(1 .. k) = IF 1 > k THEN 0 ELSE k - 1 + 1 BY <2>3, FS_Interval
  <2>5. Cardinality(1 .. k) = k BY <2>3, <2>4
  <2> QED BY <1>1, <2>2, <2>3, <2>5 DEF k
<1>4. \A n \in 1 .. N : g[n] = NextOf(g[n - 1])
  <2> SUFFICES ASSUME NEW n \in 1 .. N PROVE g[n] = NextOf(g[n - 1]) OBVIOUS
  <2>1. n \in 0 .. N /\ n - 1 \in 0 .. N BY <1>1
  <2>2. CASE n - 1 < Len(p)
    <3>1. n \in 1 .. Len(p) /\ g[n - 1] = p[n] BY <1>2, <2>1, <2>2
    <3>2. /\ p[n] \in DOMAIN sh.node
          /\ sh.node[p[n]].next = IF n < Len(p) THEN p[n + 1] ELSE Null
      BY <3>1 DEF Linear
    <3>3. NextOf(g[n - 1]) = IF n < Len(p) THEN p[n + 1] ELSE Null
      <4> HIDE DEF g
      <4> QED BY <3>1, <3>2 DEF NextOf
    <3> QED BY <2>1, <3>3
  <2>3. CASE ~(n - 1 < Len(p))
    <3>1. ~(n < Len(p)) BY <1>2, <2>3
    <3>2. g[n - 1] = Null /\ g[n] = Null BY <2>1, <2>3, <3>1
    <3> HIDE DEF g
    <3> QED BY <3>2 DEF NextOf
  <2> QED BY <2>2, <2>3
<1>5. g[0] = a
  <2>1. 0 \in 0 .. N BY <1>1
  <2>2. g[0] = IF 0 < Len(p) THEN p[0 + 1] ELSE Null BY <2>1
  <2> QED BY <1>2, <2>2 DEF Linear
<1>6. DOMAIN g = 0 .. N /\ g = [n \in 0 .. N |-> g[n]] OBVIOUS
<1> HIDE DEF g
<1>7. \A n \in 0 .. N : n = 0 \/ n \in 1 .. N BY <1>1
<1>8. g = e(g)
  <2>1. \A n \in 0 .. N : g[n] = IF n = 0 THEN a ELSE NextOf(g[n - 1])
    BY <1>4, <1>5, <1>7
  <2> QED BY <1>6, <2>1
<1> DEFINE walk == CHOOSE w : w = e(w)
<1>9. walk = e(walk)
  <2> HIDE DEF e
  <2> QED BY <1>8
<1>10. ChainOf(a) = [i \in {n \in 0 .. N : walk[n] # Null} |-> walk[i]]
  BY DEF ChainOf, N
<1> HIDE DEF walk
<1>11. \A n \in 0 .. N : walk[n] = IF n = 0 THEN a ELSE NextOf(walk[n - 1])
  BY <1>9
<1> HIDE DEF e
<1>12. \A n \in 0 .. N : walk[n] = g[n]
  <2> DEFINE T == {n \in 0 .. N : walk[n] # g[n]}
  <2> SUFFICES ASSUME T # {} PROVE FALSE OBVIOUS
  <2>1. T \in SUBSET Nat BY <1>1
  <2>2. PICK m \in T : \A y \in T : m <= y
    <3> HIDE DEF T
    <3> QED BY <2>1, LeastNat
  <2>3. m \in 1 .. N /\ walk[m] # g[m] BY <1>5, <1>7, <1>11, <2>2
  <2>4. m - 1 \in 0 .. N /\ ~(m <= m - 1) /\ m # 0 /\ m \in 0 .. N BY <1>1, <2>3
  <2>5. walk[m - 1] = g[m - 1] BY <2>2, <2>4
  <2> QED BY <1>4, <1>11, <2>3, <2>4, <2>5
<1>13. {n \in 0 .. N : walk[n] # Null} = 0 .. Len(p) - 1
  <2>1. \A n \in 0 .. N : g[n] = IF n < Len(p) THEN p[n + 1] ELSE Null BY DEF g
  <2>2. \A n \in 0 .. N : n < Len(p) => p[n + 1] # Null BY <1>1, <1>2
  <2> QED BY <1>1, <1>2, <1>3, <1>12, <2>1, <2>2
<1>14. \A n \in 0 .. Len(p) - 1 : walk[n] = p[n + 1]
  <2>1. \A n \in 0 .. Len(p) - 1 : n \in 0 .. N /\ n < Len(p) BY <1>1, <1>2, <1>3
  <2> QED BY <1>12, <2>1 DEF g
<1>15. Cardinality(0 .. Len(p) - 1) = Len(p)
  <2> DEFINE k == Len(p) - 1
  <2>1. k \in Int /\ Len(p) = k + 1 /\ k >= -1 BY <1>2
  <2>2. ASSUME NEW c \in Int, NEW b \in Int, c = 0, b >= -1 PROVE Cardinality(c .. b) = b + 1
    <3>1. Cardinality(c .. b) = IF c > b THEN 0 ELSE b - c + 1 BY FS_Interval
    <3> QED BY <2>2, <3>1
  <2> HIDE DEF k
  <2>3. 0 \in Int OBVIOUS
  <2>4. Cardinality(0 .. k) = k + 1 BY <2>1, <2>2, <2>3, Zenon
  <2> QED BY <2>1, <2>4 DEF k
<1> QED BY <1>2, <1>10, <1>13, <1>14, <1>15

LEMMA OneMoves ==
  ASSUME NEW S, NEW T, NEW t, IsFiniteSet(S), T \ {t} = S \ {t}
  PROVE  /\ Cardinality(S) \in Nat /\ Cardinality(T) \in Nat
         /\ Cardinality(T) + (IF t \in S THEN 1 ELSE 0) = Cardinality(S) + (IF t \in T THEN 1 ELSE 0)
<1> DEFINE R == S \ {t}
<1>1. IsFiniteSet(R) /\ t \notin R BY FS_Subset
<1>2. /\ IsFiniteSet(R \cup {t}) /\ Cardinality(R \cup {t}) = Cardinality(R) + 1
      /\ Cardinality(R) \in Nat
  BY <1>1, FS_AddElement, FS_CardinalityType
<1>3. /\ t \in S => S = R \cup {t}
      /\ t \notin S => S = R
      /\ t \in T => T = R \cup {t}
      /\ t \notin T => T = R
  OBVIOUS
<1> HIDE DEF R
<1>4. \A X : (t \in X => X = R \cup {t}) /\ (t \notin X => X = R) =>
        /\ Cardinality(X) \in Nat
        /\ Cardinality(X) = Cardinality(R) + (IF t \in X THEN 1 ELSE 0)
  <2> SUFFICES ASSUME NEW X, t \in X => X = R \cup {t}, t \notin X => X = R
               PROVE  /\ Cardinality(X) \in Nat
                      /\ Cardinality(X) = Cardinality(R) + (IF t \in X THEN 1 ELSE 0)
    OBVIOUS
  <2>1. CASE t \in X
    <3>1. Cardinality(X) = Cardinality(R) + 1 BY <1>2, <2>1
    <3> QED BY <1>2, <2>1, <3>1
  <2>2. CASE t \notin X
    <3>1. Cardinality(X) = Cardinality(R) BY <2>2
    <3> QED BY <1>2, <2>2, <3>1
  <2> QED BY <2>1, <2>2
<1>5. /\ Cardinality(S) \in Nat /\ Cardinality(S) = Cardinality(R) + (IF t \in S THEN 1 ELSE 0)
      /\ Cardinality(T) \in Nat /\ Cardinality(T) = Cardinality(R) + (IF t \in T THEN 1 ELSE 0)
  BY <1>3, <1>4
<1> QED BY <1>2, <1>5

\* c and l are what the step adds to the count and to the content.
LEMMA CountKept ==
  ASSUME CountLags, NEW t \in Threads, Others(t), IsFiniteSet(Threads), NEW c \in Int, NEW l \in Int,
         Len(sh.content) \in Nat, sh'.count = sh.count + c, Len(sh'.content) = Len(sh.content) + l,
         c + (IF t \in Raising' THEN 1 ELSE 0) + (IF t \in Lowering THEN 1 ELSE 0)
           = l + (IF t \in Lowering' THEN 1 ELSE 0) + (IF t \in Raising THEN 1 ELSE 0)
  PROVE  CountLags'
<1>1. IsFiniteSet(Raising) /\ IsFiniteSet(Lowering) BY FS_Subset DEF Raising, Lowering
<1>2. Raising' \ {t} = Raising \ {t} BY DEF Raising, Others, At
<1>3. Lowering' \ {t} = Lowering \ {t} BY DEF Lowering, Others
<1>4. /\ Cardinality(Raising) \in Nat /\ Cardinality(Raising') \in Nat
      /\ Cardinality(Raising') + (IF t \in Raising THEN 1 ELSE 0)
           = Cardinality(Raising) + (IF t \in Raising' THEN 1 ELSE 0)
  BY <1>1, <1>2, OneMoves
<1>5. /\ Cardinality(Lowering) \in Nat /\ Cardinality(Lowering') \in Nat
      /\ Cardinality(Lowering') + (IF t \in Lowering THEN 1 ELSE 0)
           = Cardinality(Lowering) + (IF t \in Lowering' THEN 1 ELSE 0)
  BY <1>1, <1>3, OneMoves
<1>6. sh.count \in Int /\ sh.count + Cardinality(Raising) = Len(sh.content) + Cardinality(Lowering)
  BY DEF CountLags
<1>7. sh'.count \in Int BY <1>6
<1> DEFINE r == IF t \in Raising THEN 1 ELSE 0
           q == IF t \in Raising' THEN 1 ELSE 0
           m == IF t \in Lowering THEN 1 ELSE 0
           n == IF t \in Lowering' THEN 1 ELSE 0
           len == Len(sh.content)
<1>8. /\ r \in Int /\ q \in Int /\ m \in Int /\ n \in Int /\ len \in Int
      /\ c + q + m = l + n + r
  OBVIOUS
<1> DEFINE R == Cardinality(Raising)
           Q == Cardinality(Raising')
           M == Cardinality(Lowering)
           N == Cardinality(Lowering')
           k == sh.count
<1>9. R \in Int /\ Q \in Int /\ M \in Int /\ N \in Int /\ k \in Int BY <1>4, <1>5, <1>6
<1>10. Q + r = R + q /\ N + m = M + n /\ k + R = len + M BY <1>4, <1>5, <1>6
<1>11. sh'.count + Cardinality(Raising') = k + c + Q BY <1>6
<1>12. Len(sh'.content) + Cardinality(Lowering') = len + l + N OBVIOUS
<1> HIDE DEF r, q, m, n, len, R, Q, M, N, k
<1>13. k + c + Q = len + l + N BY ONLY <1>8, <1>9, <1>10, c \in Int, l \in Int
<1>14. sh'.count + Cardinality(Raising') = Len(sh'.content) + Cardinality(Lowering')
  BY <1>11, <1>12, <1>13
<1> QED BY <1>7, <1>14 DEF CountLags

LEMMA CountStill ==
  ASSUME CountLags, NEW t \in Threads, Others(t), sh'.count = sh.count, sh'.content = sh.content,
         t \in Raising' <=> t \in Raising, t \in Lowering' <=> t \in Lowering
  PROVE  CountLags'
<1>1. Raising' = Raising BY DEF Raising, Others
<1>2. Lowering' = Lowering BY DEF Lowering, Others
<1> QED BY <1>1, <1>2 DEF CountLags

-----------------------------------------------------------------------------
(* scl_cstack and scl_cslist *)

StackLocals(t) ==
  LET me == loc[t]
  IN \/ me.pc = "idle" /\ me.op = "none" /\ DOMAIN me = {"op", "pc"}
     \/ /\ me.pc \in {"pushCas", "raise"} /\ me.op = "push"
        /\ DOMAIN me = {"op", "pc", "old", "a"}
     \/ me.pc = "look" /\ me.op = "pop" /\ {"op", "pc", "old"} \subseteq DOMAIN me
     \/ me.pc = "popCas" /\ me.op = "pop" /\ {"op", "pc", "old", "next"} \subseteq DOMAIN me
     \/ me.pc \in {"take", "lower"} /\ me.op = "pop" /\ {"op", "pc", "old", "want"} \subseteq DOMAIN me

StackTypes ==
  /\ DOMAIN loc = Threads /\ \A t \in Threads : StackLocals(t)
  /\ DOMAIN sh = {"top", "node", "count", "content", "bad", "calls"}
  /\ DOMAIN sh.top = {"ptr", "tag"} /\ sh.top.tag \in Nat
  /\ DOMAIN sh.node \subseteq Addr
  /\ \A a \in DOMAIN sh.node : DOMAIN sh.node[a] = {"val", "next"} /\ sh.node[a].val \in Values
  /\ sh.content \in Seq(Values)

\* A node that is not, or no longer, on the stack belongs to one thread.
Owns(t) == loc[t].pc \in {"pushCas", "take"}
Mine(t) == IF At(t, "pushCas") THEN loc[t].a ELSE loc[t].old.ptr

\* p has the addresses of the nodes on the stack, newest first.
Path(p) ==
  /\ Linear(p) /\ Len(p) = Len(sh.content)
  /\ sh.top.ptr = IF Len(p) = 0 THEN Null ELSE p[1]
  /\ \A i \in 1 .. Len(p) : sh.node[p[i]].val = sh.content[i]
NodesOwned(p) ==
  /\ \A t \in Threads : Owns(t) =>
       Mine(t) \in DOMAIN sh.node /\ \A i \in 1 .. Len(p) : p[i] # Mine(t)
  /\ \A t, u \in Threads : t # u /\ Owns(t) /\ Owns(u) => Mine(t) # Mine(u)
  /\ \A a \in DOMAIN sh.node :
       (\E i \in 1 .. Len(p) : p[i] = a) \/ \E t \in Threads : Owns(t) /\ Mine(t) = a
StackNodes == \E p : Path(p) /\ NodesOwned(p)

\* What a thread remembers is stale, or right.
Linked(t) ==
  /\ loc[t].pc \in {"pushCas", "look", "popCas"} =>
       loc[t].old.tag \in Nat /\ loc[t].old.tag <= sh.top.tag
  /\ At(t, "pushCas") => sh.node[loc[t].a].next = loc[t].old.ptr
  /\ At(t, "popCas") =>
       /\ loc[t].old.ptr # Null
       /\ loc[t].old = sh.top => loc[t].next = sh.node[sh.top.ptr].next
  /\ At(t, "take") => sh.node[loc[t].old.ptr].val = loc[t].want
StackLinks == \A t \in Threads : Linked(t)

StackInv == StackTypes /\ StackNodes /\ StackLinks /\ CountLags /\ ~sh.bad

\* A step that leaves the nodes alone.
LEMMA StackStill ==
  ASSUME StackInv, NEW t \in Threads, Others(t), CountLags',
         DOMAIN sh' = DOMAIN sh, sh'.top = sh.top, sh'.node = sh.node, sh'.content = sh.content,
         sh'.bad = sh.bad, ~Owns(t), ~Owns(t)', StackLocals(t)', Linked(t)'
  PROVE  StackInv'
<1>1. StackTypes'
  BY DEF StackInv, StackTypes, StackLocals, Others
<1>2. StackNodes'
  <2>1. PICK p : Path(p) /\ NodesOwned(p) BY DEF StackInv, StackNodes
  <2>2. Path(p)' BY <2>1 DEF Path, Linear
  <2>3. \A u \in Threads : (Owns(u)' <=> Owns(u)) /\ (Owns(u) => Mine(u)' = Mine(u))
    BY DEF Owns, Mine, At, Others
  <2>4. NodesOwned(p)' BY <2>1, <2>3 DEF NodesOwned
  <2> QED BY <2>2, <2>4 DEF StackNodes
<1>3. StackLinks'
  <2> SUFFICES ASSUME NEW u \in Threads, u # t PROVE Linked(u)' BY DEF StackLinks
  <2> QED BY DEF StackInv, StackLinks, Linked, At, Others
<1> QED BY <1>1, <1>2, <1>3 DEF StackInv

LEMMA StackFacts ==
  ASSUME StackInv
  PROVE  /\ DOMAIN loc = Threads /\ \A t \in Threads : StackLocals(t)
         /\ DOMAIN sh = {"top", "node", "count", "content", "bad", "calls"}
         /\ sh.content \in Seq(Values) /\ Len(sh.content) \in Nat
         /\ sh.count \in Int /\ sh.top.tag \in Nat
         /\ DOMAIN sh.top = {"ptr", "tag"}
BY LenProperties DEF StackInv, StackTypes, CountLags

\* A call of pop begins.
LEMMA StackPops ==
  ASSUME StackInv, NEW t \in Threads, cstack_pop(t)
  PROVE  StackInv'
<1> USE StackFacts
<1>1. /\ At(t, "idle")
      /\ sh' = [sh EXCEPT !.calls = @ + 1]
      /\ loc' = [loc EXCEPT ![t] = With([op |-> "pop"], [pc |-> "look", old |-> sh.top])]
  BY DEF cstack_pop, Begin
<1>2. /\ DOMAIN sh' = DOMAIN sh /\ sh'.top = sh.top /\ sh'.node = sh.node /\ sh'.content = sh.content
      /\ sh'.bad = sh.bad /\ sh'.count = sh.count
  BY <1>1
<1>3. loc'[t] = With([op |-> "pop"], [pc |-> "look", old |-> sh.top]) /\ Others(t) BY <1>1 DEF Others
<1>4. /\ DOMAIN loc'[t] = {"op", "pc", "old"} /\ loc'[t].op = "pop" /\ loc'[t].pc = "look"
      /\ loc'[t].old = sh.top
  BY <1>3 DEF With
<1>5. StackLocals(t)' /\ Linked(t)' BY <1>2, <1>4 DEF StackLocals, Linked, At
<1>6. t \notin Raising /\ t \notin Raising' /\ t \notin Lowering /\ t \notin Lowering'
  BY <1>1, <1>4 DEF Raising, Lowering, At
<1>7. CountLags' BY <1>2, <1>3, <1>6, CountStill DEF StackInv
<1> QED BY <1>1, <1>2, <1>3, <1>4, <1>5, <1>7, StackStill DEF Owns, At

\* A call returns: the count moves last.
LEMMA StackReturns ==
  ASSUME StackInv, NEW t \in Threads, Raise(t) \/ Lower(t), IsFiniteSet(Threads)
  PROVE  StackInv'
<1> USE StackFacts
<1> DEFINE c == IF At(t, "raise") THEN 1 ELSE -1
<1>1. /\ At(t, "raise") \/ At(t, "lower")
      /\ sh' = [sh EXCEPT !.count = @ + c]
      /\ loc' = [loc EXCEPT ![t] = Idle]
  BY DEF Raise, Lower, Return, At
<1>2. /\ DOMAIN sh' = DOMAIN sh /\ sh'.top = sh.top /\ sh'.node = sh.node /\ sh'.content = sh.content
      /\ sh'.bad = sh.bad /\ sh'.count = sh.count + c /\ c \in Int
  BY <1>1
<1>3. loc'[t] = Idle /\ Others(t) BY <1>1 DEF Others
<1>4. DOMAIN loc'[t] = {"op", "pc"} /\ loc'[t].op = "none" /\ loc'[t].pc = "idle" BY <1>3 DEF Idle
<1>5. StackLocals(t)' /\ Linked(t)' BY <1>4 DEF StackLocals, Linked, At
<1>6. /\ t \notin Raising' /\ t \notin Lowering'
      /\ t \in Raising <=> At(t, "raise")
      /\ t \in Lowering <=> ~At(t, "raise")
  BY <1>1, <1>4 DEF Raising, Lowering, At
<1>7. c + (IF t \in Raising' THEN 1 ELSE 0) + (IF t \in Lowering THEN 1 ELSE 0)
        = 0 + (IF t \in Lowering' THEN 1 ELSE 0) + (IF t \in Raising THEN 1 ELSE 0)
  BY <1>6
<1> HIDE DEF c
<1>8. Len(sh'.content) = Len(sh.content) + 0 BY <1>2
<1>9. CountLags' BY <1>2, <1>3, <1>7, <1>8, CountKept, 0 \in Int DEF StackInv
<1> QED BY <1>1, <1>2, <1>3, <1>4, <1>5, <1>9, StackStill DEF Owns, At

\* The link read is right unless the top has changed since.
LEMMA StackLooks ==
  ASSUME StackInv, NEW t \in Threads, Look(t)
  PROVE  StackInv'
<1> USE StackFacts
<1>1. At(t, "look") /\ sh' = sh BY DEF Look, Move, Return
<1>2. StackLocals(t) /\ Linked(t) BY DEF StackInv, StackLinks
<1>3. Others(t) /\ StackLocals(t)' /\ Linked(t)' /\ loc'[t].pc \in {"idle", "popCas"}
  <2>1. CASE loc[t].old.ptr = Null
    <3>1. loc' = [loc EXCEPT ![t] = Idle] BY <2>1 DEF Look, Return
    <3>2. loc'[t] = Idle /\ Others(t) BY <3>1 DEF Others
    <3>3. DOMAIN loc'[t] = {"op", "pc"} /\ loc'[t].op = "none" /\ loc'[t].pc = "idle" BY <3>2 DEF Idle
    <3> QED BY <3>2, <3>3 DEF StackLocals, Linked, At
  <2>2. CASE loc[t].old.ptr # Null
    <3>1. PICK n : /\ loc[t].old.ptr \in DOMAIN sh.node => n = sh.node[loc[t].old.ptr].next
                   /\ loc' = [loc EXCEPT ![t] = With(@, [pc |-> "popCas", next |-> n])]
      BY <2>2 DEF Look, Move
    <3>2. loc'[t] = With(loc[t], [pc |-> "popCas", next |-> n]) /\ Others(t) BY <3>1 DEF Others
    <3>3. {"op", "pc", "old"} \subseteq DOMAIN loc[t] /\ loc[t].op = "pop" BY <1>1, <1>2 DEF StackLocals, At
    <3>4. /\ DOMAIN loc'[t] = DOMAIN loc[t] \cup {"pc", "next"} /\ loc'[t].op = "pop"
          /\ loc'[t].pc = "popCas" /\ loc'[t].old = loc[t].old /\ loc'[t].next = n
      BY <3>2, <3>3 DEF With
    <3>5. loc[t].old = sh.top => loc[t].old.ptr \in DOMAIN sh.node
      <4>1. PICK p : Path(p) BY DEF StackInv, StackNodes
      <4>2. Len(p) \in Nat BY <4>1, LenProperties DEF Path, Linear
      <4> QED BY <2>2, <4>1, <4>2 DEF Path, Linear
    <3>6. StackLocals(t)' BY <3>3, <3>4 DEF StackLocals
    <3>7. Linked(t)' BY <1>1, <1>2, <2>2, <3>1, <3>4, <3>5 DEF Linked, At
    <3> QED BY <3>2, <3>4, <3>6, <3>7
  <2> QED BY <2>1, <2>2
<1>4. t \notin Raising /\ t \notin Raising' /\ t \notin Lowering /\ t \notin Lowering'
  BY <1>1, <1>3 DEF Raising, Lowering, At
<1>5. CountLags' BY <1>1, <1>3, <1>4, CountStill DEF StackInv
<1>6. ~Owns(t) /\ ~Owns(t)' BY <1>1, <1>3 DEF Owns, At
<1> QED BY <1>1, <1>3, <1>5, <1>6, StackStill

\* The exchange of a pop fails.
LEMMA StackPopAgain ==
  ASSUME StackInv, NEW t \in Threads, At(t, "popCas"), Move(t, sh, [pc |-> "look", old |-> sh.top])
  PROVE  StackInv'
<1> USE StackFacts
<1>1. At(t, "popCas") /\ sh' = sh /\ loc' = [loc EXCEPT ![t] = With(@, [pc |-> "look", old |-> sh.top])]
  BY DEF Move
<1>2. StackLocals(t) BY DEF StackInv
<1>3. {"op", "pc", "old"} \subseteq DOMAIN loc[t] /\ loc[t].op = "pop" BY <1>1, <1>2 DEF StackLocals, At
<1>4. loc'[t] = With(loc[t], [pc |-> "look", old |-> sh.top]) /\ Others(t) BY <1>1 DEF Others
<1>5. /\ DOMAIN loc'[t] = DOMAIN loc[t] \cup {"pc", "old"} /\ loc'[t].op = "pop"
      /\ loc'[t].pc = "look" /\ loc'[t].old = sh.top
  BY <1>3, <1>4 DEF With
<1>6. StackLocals(t)' BY <1>3, <1>5 DEF StackLocals
<1>7. Linked(t)' BY <1>1, <1>5 DEF Linked, At
<1>8. t \notin Raising /\ t \notin Raising' /\ t \notin Lowering /\ t \notin Lowering'
  BY <1>1, <1>5 DEF Raising, Lowering, At
<1>9. CountLags' BY <1>1, <1>4, <1>8, CountStill DEF StackInv
<1>10. ~Owns(t) /\ ~Owns(t)' BY <1>1, <1>5 DEF Owns, At
<1> QED BY <1>1, <1>4, <1>6, <1>7, <1>9, <1>10, StackStill

LEMMA Cons ==
  ASSUME NEW S, NEW s \in Seq(S), NEW x \in S
  PROVE  LET r == <<x>> \o s
         IN /\ r \in Seq(S) /\ Len(s) \in Nat /\ Len(r) = Len(s) + 1 /\ r[1] = x
            /\ \A i \in 1 .. Len(s) : r[i + 1] = s[i]
            /\ \A i \in 1 .. Len(r) : i = 1 \/ (i - 1 \in 1 .. Len(s) /\ r[i] = s[i - 1])
<1> DEFINE r == <<x>> \o s
<1>1. /\ <<x>> \in Seq(S) /\ Len(<<x>>) = 1 /\ <<x>>[1] = x /\ Len(s) \in Nat
  BY LenProperties
<1>2. /\ r \in Seq(S) /\ Len(r) = Len(<<x>>) + Len(s)
      /\ \A i \in 1 .. Len(<<x>>) + Len(s) :
           r[i] = IF i <= Len(<<x>>) THEN <<x>>[i] ELSE s[i - Len(<<x>>)]
  BY <1>1, ConcatProperties
<1> HIDE DEF r
<1>3. Len(r) = Len(s) + 1 BY <1>1, <1>2
<1>4. \A i \in 1 .. Len(s) + 1 : r[i] = IF i <= 1 THEN <<x>>[i] ELSE s[i - 1] BY <1>1, <1>2
<1>5. r[1] = x BY <1>1, <1>4
<1>6. \A i \in 1 .. Len(s) : r[i + 1] = s[i]
  <2> SUFFICES ASSUME NEW i \in 1 .. Len(s) PROVE r[i + 1] = s[i] OBVIOUS
  <2>1. i + 1 \in 1 .. Len(s) + 1 /\ ~(i + 1 <= 1) /\ (i + 1) - 1 = i BY <1>1
  <2> QED BY <1>4, <2>1
<1>7. \A i \in 1 .. Len(r) : i = 1 \/ (i - 1 \in 1 .. Len(s) /\ r[i] = s[i - 1]) BY <1>1, <1>3, <1>4
<1> QED BY <1>1, <1>2, <1>3, <1>5, <1>6, <1>7 DEF r

LEMMA Behead ==
  ASSUME NEW S, NEW s \in Seq(S), Len(s) # 0
  PROVE  /\ Tail(s) \in Seq(S) /\ Len(s) \in Nat /\ Len(Tail(s)) = Len(s) - 1 /\ Head(s) = s[1]
         /\ \A i \in 1 .. Len(s) - 1 : Tail(s)[i] = s[i + 1]
<1>1. Len(s) \in Nat /\ s # <<>> BY LenProperties
<1> QED BY <1>1, HeadTailProperties

\* A new node: its link is the top that push has read.
LEMMA StackAllocates ==
  ASSUME StackInv, NEW t \in Threads, NEW v \in Values, cstack_push(t, v)
  PROVE  StackInv'
<1> USE StackFacts
<1> DEFINE fresh == [val |-> v, next |-> sh.top.ptr]
<1>1. PICK a \in Addr \ DOMAIN sh.node :
        Begin(t, "push", [sh EXCEPT !.node = With(@, [x \in {a} |-> fresh])],
              With([pc |-> "pushCas", old |-> sh.top], [a |-> a]))
  BY DEF cstack_push, Alloc
<1>2. /\ At(t, "idle")
      /\ sh' = [[sh EXCEPT !.node = With(@, [x \in {a} |-> fresh])] EXCEPT !.calls = @ + 1]
      /\ loc' = [loc EXCEPT ![t] = With([op |-> "push"], With([pc |-> "pushCas", old |-> sh.top], [a |-> a]))]
  BY <1>1 DEF Begin
<1>3. /\ DOMAIN sh' = DOMAIN sh /\ sh'.top = sh.top /\ sh'.content = sh.content
      /\ sh'.bad = sh.bad /\ sh'.count = sh.count /\ sh'.node = With(sh.node, [x \in {a} |-> fresh])
  BY <1>2
<1>4. /\ DOMAIN sh'.node = DOMAIN sh.node \cup {a} /\ sh'.node[a] = fresh
      /\ \A b \in DOMAIN sh.node : sh'.node[b] = sh.node[b]
  BY <1>1, <1>3 DEF With
<1>5. /\ loc'[t] = With([op |-> "push"], With([pc |-> "pushCas", old |-> sh.top], [a |-> a]))
      /\ Others(t)
  BY <1>2 DEF Others
<1>6. /\ DOMAIN loc'[t] = {"op", "pc", "old", "a"} /\ loc'[t].op = "push" /\ loc'[t].pc = "pushCas"
      /\ loc'[t].old = sh.top /\ loc'[t].a = a
  BY <1>5 DEF With
<1>7. StackLocals(t)' BY <1>6 DEF StackLocals
<1>8. StackTypes'
  <2>1. \A u \in Threads : StackLocals(u)' BY <1>5, <1>7 DEF StackLocals, Others
  <2>2. DOMAIN fresh = {"val", "next"} /\ fresh.val \in Values OBVIOUS
  <2> HIDE DEF fresh
  <2>3. /\ DOMAIN sh'.node \subseteq Addr
        /\ \A b \in DOMAIN sh'.node : DOMAIN sh'.node[b] = {"val", "next"} /\ sh'.node[b].val \in Values
    BY <1>1, <1>4, <2>2 DEF StackInv, StackTypes
  <2> QED BY <1>3, <1>5, <2>1, <2>3 DEF StackTypes, Others
<1>9. PICK p : Path(p) /\ NodesOwned(p) BY DEF StackInv, StackNodes
<1>10. /\ \A u \in Threads : u # t => (Owns(u)' <=> Owns(u)) /\ (Owns(u) => Mine(u)' = Mine(u))
       /\ Owns(t)' /\ Mine(t)' = a
  BY <1>5, <1>6 DEF Owns, Mine, At, Others
<1>11. \A i \in 1 .. Len(p) : p[i] \in DOMAIN sh.node /\ p[i] # a BY <1>1, <1>9 DEF Path, Linear
<1>12. Path(p)' BY <1>3, <1>4, <1>9, <1>11 DEF Path, Linear
<1>13. NodesOwned(p)'
  <2>1. \A u \in Threads : Owns(u) => Mine(u) # a BY <1>1, <1>9 DEF NodesOwned
  <2>2. ~Owns(t) BY <1>2 DEF Owns, At
  <2>3. \A u \in Threads : Owns(u)' =>
          Mine(u)' \in DOMAIN sh'.node /\ \A i \in 1 .. Len(p) : p[i] # Mine(u)'
    BY <1>4, <1>9, <1>10, <1>11 DEF NodesOwned
  <2>4. \A u, w \in Threads : u # w /\ Owns(u)' /\ Owns(w)' => Mine(u)' # Mine(w)'
    BY <1>9, <1>10, <2>1 DEF NodesOwned
  <2>5. \A b \in DOMAIN sh'.node :
          (\E i \in 1 .. Len(p) : p[i] = b) \/ \E u \in Threads : Owns(u)' /\ Mine(u)' = b
    BY <1>4, <1>9, <1>10, <2>2 DEF NodesOwned
  <2> QED BY <2>3, <2>4, <2>5 DEF NodesOwned
<1>14. StackNodes' BY <1>12, <1>13 DEF StackNodes
<1>15. StackLinks'
  <2> SUFFICES ASSUME NEW u \in Threads PROVE Linked(u)' BY DEF StackLinks
  <2>1. CASE u = t
    <3>1. sh'.node[a].next = sh.top.ptr BY <1>4
    <3> QED BY <1>3, <1>6, <2>1, <3>1 DEF Linked, At
  <2>2. CASE u # t
    <3>1. Linked(u) /\ loc'[u] = loc[u] BY <1>5, <2>2 DEF StackInv, StackLinks, Others
    <3>2. Owns(u) => Mine(u) \in DOMAIN sh.node BY <1>9 DEF NodesOwned
    <3>3. sh.top.ptr # Null => sh.top.ptr \in DOMAIN sh.node
      <4>1. Len(p) \in Nat BY <1>9, LenProperties DEF Path, Linear
      <4> QED BY <1>9, <4>1 DEF Path, Linear
    <3>4. At(u, "pushCas") => loc[u].a \in DOMAIN sh.node BY <3>2 DEF Owns, Mine, At
    <3>5. At(u, "take") => loc[u].old.ptr \in DOMAIN sh.node BY <3>2 DEF Owns, Mine, At
    <3>6. At(u, "popCas") /\ loc[u].old = sh.top => sh.top.ptr \in DOMAIN sh.node
      BY <3>1, <3>3 DEF Linked
    <3> QED BY <1>3, <1>4, <3>1, <3>4, <3>5, <3>6 DEF Linked, At
  <2> QED BY <2>1, <2>2
<1>16. t \notin Raising /\ t \notin Raising' /\ t \notin Lowering /\ t \notin Lowering'
  BY <1>2, <1>6 DEF Raising, Lowering, At
<1>17. CountLags' BY <1>3, <1>5, <1>16, CountStill DEF StackInv
<1> QED BY <1>3, <1>8, <1>14, <1>15, <1>17 DEF StackInv

\* The exchange of a push fails: the node is linked to the top read now.
LEMMA StackPushAgain ==
  ASSUME StackInv, NEW t \in Threads, CasPush(t), loc[t].old # sh.top
  PROVE  StackInv'
<1> USE StackFacts
<1> DEFINE a == loc[t].a
<1>1. /\ At(t, "pushCas") /\ sh' = [sh EXCEPT !.node[a].next = sh.top.ptr]
      /\ loc' = [loc EXCEPT ![t] = With(@, [old |-> sh.top])]
  BY DEF CasPush, Move
<1>2. DOMAIN loc[t] = {"op", "pc", "old", "a"} /\ loc[t].op = "push" /\ loc[t].pc = "pushCas"
  <2>1. StackLocals(t) OBVIOUS
  <2> QED BY <1>1, <2>1 DEF StackLocals, At
<1>3. PICK p : Path(p) /\ NodesOwned(p) BY DEF StackInv, StackNodes
<1>4. /\ a \in DOMAIN sh.node /\ \A i \in 1 .. Len(p) : p[i] # a
      /\ \A u \in Threads : u # t /\ Owns(u) => Mine(u) # a
  BY <1>1, <1>3 DEF NodesOwned, Owns, Mine, At
<1> HIDE DEF a
<1>5. /\ DOMAIN sh' = DOMAIN sh /\ sh'.top = sh.top /\ sh'.content = sh.content
      /\ sh'.bad = sh.bad /\ sh'.count = sh.count
      /\ sh'.node = [sh.node EXCEPT ![a].next = sh.top.ptr]
  BY <1>1
<1>6. /\ DOMAIN sh'.node = DOMAIN sh.node /\ \A b \in DOMAIN sh.node : b # a => sh'.node[b] = sh.node[b]
      /\ sh'.node[a] = [sh.node[a] EXCEPT !.next = sh.top.ptr]
  BY <1>4, <1>5
<1>7. DOMAIN sh.node[a] = {"val", "next"} /\ sh.node[a].val \in Values
  BY <1>4 DEF StackInv, StackTypes
<1>8. /\ DOMAIN sh'.node[a] = {"val", "next"} /\ sh'.node[a].val = sh.node[a].val
      /\ sh'.node[a].next = sh.top.ptr
  BY <1>6, <1>7
<1>9. loc'[t] = With(loc[t], [old |-> sh.top]) /\ Others(t) BY <1>1 DEF Others
<1>10. /\ DOMAIN loc'[t] = {"op", "pc", "old", "a"} /\ loc'[t].op = "push" /\ loc'[t].pc = "pushCas"
       /\ loc'[t].old = sh.top /\ loc'[t].a = a
  BY <1>2, <1>9 DEF With, a
<1>11. StackTypes'
  <2>1. StackLocals(t)' BY <1>10 DEF StackLocals
  <2>2. \A u \in Threads : StackLocals(u)' BY <1>9, <2>1 DEF StackLocals, Others
  <2>3. /\ DOMAIN sh'.node \subseteq Addr
        /\ \A b \in DOMAIN sh'.node : DOMAIN sh'.node[b] = {"val", "next"} /\ sh'.node[b].val \in Values
    BY <1>6, <1>7, <1>8 DEF StackInv, StackTypes
  <2> QED BY <1>5, <1>9, <2>2, <2>3 DEF StackTypes, Others
<1>12. \A u \in Threads : (Owns(u)' <=> Owns(u)) /\ (Owns(u) => Mine(u)' = Mine(u))
  BY <1>2, <1>9, <1>10 DEF Owns, Mine, At, Others, a
<1>13. Path(p)' BY <1>3, <1>4, <1>5, <1>6 DEF Path, Linear
<1>14. NodesOwned(p)' BY <1>3, <1>6, <1>12 DEF NodesOwned
<1>15. StackNodes' BY <1>13, <1>14 DEF StackNodes
<1>16. StackLinks'
  <2> SUFFICES ASSUME NEW u \in Threads PROVE Linked(u)' BY DEF StackLinks
  <2>1. CASE u = t BY <1>5, <1>8, <1>10, <2>1 DEF Linked, At
  <2>2. CASE u # t
    <3>1. Linked(u) /\ loc'[u] = loc[u] BY <1>9, <2>2 DEF StackInv, StackLinks, Others
    <3>2. Owns(u) => Mine(u) \in DOMAIN sh.node /\ Mine(u) # a BY <1>3, <1>4, <2>2 DEF NodesOwned
    <3>3. sh.top.ptr # Null => sh.top.ptr \in DOMAIN sh.node /\ sh.top.ptr # a
      <4>1. Len(p) \in Nat BY <1>3, LenProperties DEF Path, Linear
      <4> QED BY <1>3, <1>4, <4>1 DEF Path, Linear
    <3>4. At(u, "pushCas") => loc[u].a \in DOMAIN sh.node /\ loc[u].a # a BY <3>2 DEF Owns, Mine, At
    <3>5. At(u, "take") => loc[u].old.ptr \in DOMAIN sh.node /\ loc[u].old.ptr # a
      BY <3>2 DEF Owns, Mine, At
    <3>6. At(u, "popCas") /\ loc[u].old = sh.top => sh.top.ptr \in DOMAIN sh.node /\ sh.top.ptr # a
      BY <3>1, <3>3 DEF Linked
    <3> QED BY <1>5, <1>6, <3>1, <3>4, <3>5, <3>6 DEF Linked, At
  <2> QED BY <2>1, <2>2
<1>17. t \notin Raising /\ t \notin Raising' /\ t \notin Lowering /\ t \notin Lowering'
  BY <1>2, <1>10 DEF Raising, Lowering, At
<1>18. CountLags' BY <1>5, <1>9, <1>17, CountStill DEF StackInv
<1> QED BY <1>5, <1>11, <1>15, <1>16, <1>18 DEF StackInv

\* The exchange of a push succeeds: its node is the first of the path.
LEMMA StackPushes ==
  ASSUME StackInv, NEW t \in Threads, CasPush(t), loc[t].old = sh.top, IsFiniteSet(Threads)
  PROVE  StackInv'
<1> USE StackFacts
<1> DEFINE a == loc[t].a
           val == sh.node[a].val
           more == <<val>> \o sh.content
<1>1. /\ At(t, "pushCas")
      /\ sh' = [sh EXCEPT !.top = [ptr |-> a, tag |-> @.tag + 1], !.content = more]
      /\ loc' = [loc EXCEPT ![t] = With(@, To("raise"))]
  BY DEF CasPush, Move
<1>2. DOMAIN loc[t] = {"op", "pc", "old", "a"} /\ loc[t].op = "push" /\ loc[t].pc = "pushCas"
  <2>1. StackLocals(t) OBVIOUS
  <2> QED BY <1>1, <2>1 DEF StackLocals, At
<1>3. PICK p : Path(p) /\ NodesOwned(p) BY DEF StackInv, StackNodes
<1>4. /\ a \in DOMAIN sh.node /\ \A i \in 1 .. Len(p) : p[i] # a
      /\ \A u \in Threads : u # t /\ Owns(u) => Mine(u) # a
  BY <1>1, <1>3 DEF NodesOwned, Owns, Mine, At
<1>5. sh.node[a].next = sh.top.ptr /\ Linked(t)
  BY <1>1 DEF StackInv, StackLinks, Linked
<1>6. val \in Values /\ a \in Addr BY <1>4 DEF StackInv, StackTypes
<1> HIDE DEF a, val
<1>7. /\ more \in Seq(Values) /\ Len(more) = Len(sh.content) + 1 /\ more[1] = val
      /\ \A i \in 1 .. Len(more) : i = 1 \/ (i - 1 \in 1 .. Len(sh.content) /\ more[i] = sh.content[i - 1])
  BY <1>6, Cons
<1> HIDE DEF more
<1>8. /\ DOMAIN sh' = DOMAIN sh /\ sh'.node = sh.node /\ sh'.content = more /\ sh'.bad = sh.bad
      /\ sh'.count = sh.count /\ sh'.top = [ptr |-> a, tag |-> sh.top.tag + 1]
  BY <1>1
<1>9. DOMAIN sh'.top = {"ptr", "tag"} /\ sh'.top.ptr = a /\ sh'.top.tag = sh.top.tag + 1 BY <1>8
<1>10. loc'[t] = With(loc[t], To("raise")) /\ Others(t) BY <1>1 DEF Others
<1>11. /\ DOMAIN loc'[t] = {"op", "pc", "old", "a"} /\ loc'[t].op = "push" /\ loc'[t].pc = "raise"
  BY <1>2, <1>10 DEF With, To
<1>12. StackTypes'
  <2>1. StackLocals(t)' BY <1>11 DEF StackLocals
  <2>2. \A u \in Threads : StackLocals(u)' BY <1>10, <2>1 DEF StackLocals, Others
  <2>3. /\ DOMAIN sh.node \subseteq Addr
        /\ \A b \in DOMAIN sh.node : DOMAIN sh.node[b] = {"val", "next"} /\ sh.node[b].val \in Values
    BY DEF StackInv, StackTypes
  <2> QED BY <1>7, <1>8, <1>9, <1>10, <2>2, <2>3 DEF StackTypes, Others
<1>13. PICK q :
         /\ q \in Seq(Addr) /\ Len(p) \in Nat /\ Len(q) = Len(p) + 1 /\ q[1] = a
         /\ \A i \in 1 .. Len(p) : q[i + 1] = p[i]
         /\ \A i \in 1 .. Len(q) : i = 1 \/ (i - 1 \in 1 .. Len(p) /\ q[i] = p[i - 1])
  <2>1. p \in Seq(Addr) BY <1>3 DEF Path, Linear
  <2> WITNESS <<a>> \o p
  <2> QED BY <1>6, <2>1, Cons
<1>14. Path(q)'
  <2>1. Len(q) = Len(sh'.content) BY <1>3, <1>7, <1>8, <1>13 DEF Path, Linear
  <2>2. \A i, j \in 1 .. Len(q) : q[i] = q[j] => i = j
    <3> SUFFICES ASSUME NEW i \in 1 .. Len(q), NEW j \in 1 .. Len(q), q[i] = q[j] PROVE i = j OBVIOUS
    <3>1. CASE i = 1 /\ j = 1 BY <3>1
    <3>2. CASE i = 1 /\ j # 1 BY <1>4, <1>13, <3>2
    <3>3. CASE i # 1 /\ j = 1 BY <1>4, <1>13, <3>3
    <3>4. CASE i # 1 /\ j # 1
      <4>1. i - 1 \in 1 .. Len(p) /\ j - 1 \in 1 .. Len(p) /\ p[i - 1] = p[j - 1] BY <1>13, <3>4
      <4>2. i - 1 = j - 1 BY <1>3, <4>1 DEF Path, Linear
      <4> QED BY <1>13, <4>2
    <3> QED BY <3>1, <3>2, <3>3, <3>4
  <2>3. sh'.top.ptr = IF Len(q) = 0 THEN Null ELSE q[1] BY <1>9, <1>13
  <2>4. ASSUME NEW i \in 1 .. Len(q)
        PROVE  /\ q[i] \in DOMAIN sh'.node /\ sh'.node[q[i]].val = sh'.content[i]
               /\ sh'.node[q[i]].next = IF i < Len(q) THEN q[i + 1] ELSE Null
    <3>1. CASE i = 1
      <4>1. (1 < Len(q)) <=> (Len(p) # 0) BY <1>13
      <4>2. Len(p) # 0 => q[1 + 1] = p[1] BY <1>13
      <4>3. sh.top.ptr = IF Len(p) = 0 THEN Null ELSE p[1] BY <1>3 DEF Path, Linear
      <4> QED BY <1>4, <1>5, <1>7, <1>8, <1>13, <3>1, <4>1, <4>2, <4>3 DEF val
    <3>2. CASE i # 1
      <4> DEFINE k == i - 1
      <4>1. k \in 1 .. Len(p) /\ q[i] = p[k] BY <1>13, <3>2
      <4>2. sh'.content[i] = sh.content[k] BY <1>3, <1>7, <1>8, <1>13, <3>2 DEF Path, Linear
      <4>3. (k < Len(p)) <=> (i < Len(q)) BY <1>13
      <4>4. k < Len(p) => q[i + 1] = p[k + 1]
        <5> SUFFICES ASSUME k < Len(p) PROVE q[i + 1] = p[k + 1] OBVIOUS
        <5>1. i \in 1 .. Len(p) /\ k + 1 = i BY <1>13, <4>1
        <5> QED BY <1>13, <5>1
      <4>5. /\ p[k] \in DOMAIN sh.node /\ sh.node[p[k]].val = sh.content[k]
            /\ sh.node[p[k]].next = IF k < Len(p) THEN p[k + 1] ELSE Null
        BY <1>3, <4>1 DEF Path, Linear
      <4> HIDE DEF k
      <4> QED BY <1>8, <4>1, <4>2, <4>3, <4>4, <4>5
    <3> QED BY <3>1, <3>2
  <2> QED BY <1>13, <2>1, <2>2, <2>3, <2>4 DEF Path, Linear
<1>15. \A u \in Threads : u # t => (Owns(u)' <=> Owns(u)) /\ (Owns(u) => Mine(u)' = Mine(u))
  BY <1>10 DEF Owns, Mine, At, Others
<1>16. ~Owns(t)' /\ Owns(t) /\ Mine(t) = a BY <1>2, <1>11 DEF Owns, Mine, At, a
<1>17. NodesOwned(q)'
  <2>1. ASSUME NEW u \in Threads, Owns(u)'
        PROVE  Mine(u)' \in DOMAIN sh'.node /\ \A i \in 1 .. Len(q) : q[i] # Mine(u)'
    <3>1. u # t /\ Owns(u) /\ Mine(u)' = Mine(u) BY <1>15, <1>16, <2>1
    <3>2. Mine(u) \in DOMAIN sh.node /\ Mine(u) # a /\ \A i \in 1 .. Len(p) : p[i] # Mine(u)
      BY <1>3, <1>4, <3>1 DEF NodesOwned
    <3> QED BY <1>8, <1>13, <3>1, <3>2
  <2>2. \A u, w \in Threads : u # w /\ Owns(u)' /\ Owns(w)' => Mine(u)' # Mine(w)'
    BY <1>3, <1>15, <1>16 DEF NodesOwned
  <2>3. ASSUME NEW b \in DOMAIN sh'.node
        PROVE  (\E i \in 1 .. Len(q) : q[i] = b) \/ \E u \in Threads : Owns(u)' /\ Mine(u)' = b
    <3>1. CASE b = a
      <4>1. 1 \in 1 .. Len(q) BY <1>13
      <4> QED BY <1>13, <3>1, <4>1
    <3>2. CASE \E i \in 1 .. Len(p) : p[i] = b
      <4>1. PICK i \in 1 .. Len(p) : p[i] = b BY <3>2
      <4>2. i + 1 \in 1 .. Len(q) /\ q[i + 1] = b BY <1>13, <4>1
      <4> QED BY <4>2
    <3>3. CASE b # a /\ \E u \in Threads : Owns(u) /\ Mine(u) = b BY <1>15, <1>16, <3>3
    <3> QED BY <1>3, <1>8, <3>1, <3>2, <3>3 DEF NodesOwned
  <2> QED BY <2>1, <2>2, <2>3 DEF NodesOwned
<1>18. StackNodes' BY <1>14, <1>17 DEF StackNodes
<1>19. StackLinks'
  <2> SUFFICES ASSUME NEW u \in Threads PROVE Linked(u)' BY DEF StackLinks
  <2>1. CASE u = t BY <1>11, <2>1 DEF Linked, At
  <2>2. CASE u # t
    <3>1. Linked(u) /\ loc'[u] = loc[u] BY <1>10, <2>2 DEF StackInv, StackLinks, Others
    <3>2. At(u, "popCas") => loc[u].old # sh'.top
      <4> SUFFICES ASSUME At(u, "popCas"), loc[u].old = sh'.top PROVE FALSE OBVIOUS
      <4>1. loc[u].old.tag \in Nat /\ loc[u].old.tag <= sh.top.tag BY <3>1 DEF Linked, At
      <4> QED BY <1>9, <4>1
    <3> QED BY <1>8, <1>9, <3>1, <3>2 DEF Linked, At
  <2> QED BY <2>1, <2>2
<1>20. t \notin Raising /\ t \in Raising' /\ t \notin Lowering /\ t \notin Lowering'
  BY <1>2, <1>11 DEF Raising, Lowering, At
<1>21. CountLags'
  <2>1. /\ sh'.count = sh.count + 0 /\ Len(sh'.content) = Len(sh.content) + 1
        /\ 0 + (IF t \in Raising' THEN 1 ELSE 0) + (IF t \in Lowering THEN 1 ELSE 0)
             = 1 + (IF t \in Lowering' THEN 1 ELSE 0) + (IF t \in Raising THEN 1 ELSE 0)
    BY <1>7, <1>8, <1>20
  <2>2. 0 \in Int /\ 1 \in Int /\ CountLags BY DEF StackInv
  <2> QED BY <1>10, <2>1, <2>2, CountKept, Zenon
<1> QED BY <1>8, <1>12, <1>18, <1>19, <1>21 DEF StackInv

\* The exchange of a pop succeeds: no stale link gets this far.
LEMMA StackTakesOff ==
  ASSUME StackInv, NEW t \in Threads, At(t, "popCas"), loc[t].old = sh.top, IsFiniteSet(Threads),
         Move(t, [sh EXCEPT !.top = [ptr |-> loc[t].next, tag |-> @.tag + 1], !.content = Tail(@)],
              [pc |-> "take", want |-> Head(sh.content)])
  PROVE  StackInv'
<1> USE StackFacts
<1> DEFINE less == Tail(sh.content)
<1>1. /\ At(t, "popCas")
      /\ sh' = [sh EXCEPT !.top = [ptr |-> loc[t].next, tag |-> @.tag + 1], !.content = less]
      /\ loc' = [loc EXCEPT ![t] = With(@, [pc |-> "take", want |-> Head(sh.content)])]
  BY DEF Move
<1>2. {"op", "pc", "old", "next"} \subseteq DOMAIN loc[t] /\ loc[t].op = "pop" /\ loc[t].pc = "popCas"
  <2>1. StackLocals(t) OBVIOUS
  <2> QED BY <1>1, <2>1 DEF StackLocals, At
<1>3. PICK p : Path(p) /\ NodesOwned(p) BY DEF StackInv, StackNodes
<1>4. sh.top.ptr # Null /\ loc[t].next = sh.node[sh.top.ptr].next
  BY <1>1 DEF StackInv, StackLinks, Linked
<1>5. /\ Len(p) \in Nat /\ Len(p) # 0 /\ Len(sh.content) = Len(p) /\ sh.top.ptr = p[1]
      /\ p \in Seq(Addr)
  BY <1>3, <1>4, LenProperties DEF Path, Linear
<1>6. /\ p[1] \in DOMAIN sh.node /\ sh.node[p[1]].val = sh.content[1]
      /\ sh.node[p[1]].next = IF 1 < Len(p) THEN p[1 + 1] ELSE Null
  <2>1. 1 \in 1 .. Len(p) BY <1>5
  <2> QED BY <1>3, <2>1 DEF Path, Linear
<1>7. /\ less \in Seq(Values) /\ Len(less) = Len(sh.content) - 1 /\ Head(sh.content) = sh.content[1]
      /\ \A i \in 1 .. Len(sh.content) - 1 : less[i] = sh.content[i + 1]
  BY <1>5, Behead
<1> HIDE DEF less
<1>8. /\ DOMAIN sh' = DOMAIN sh /\ sh'.node = sh.node /\ sh'.content = less /\ sh'.bad = sh.bad
      /\ sh'.count = sh.count /\ sh'.top = [ptr |-> loc[t].next, tag |-> sh.top.tag + 1]
  BY <1>1
<1>9. DOMAIN sh'.top = {"ptr", "tag"} /\ sh'.top.ptr = loc[t].next /\ sh'.top.tag = sh.top.tag + 1
  BY <1>8
<1>10. /\ loc'[t] = With(loc[t], [pc |-> "take", want |-> Head(sh.content)]) /\ Others(t)
  BY <1>1 DEF Others
<1>11. /\ DOMAIN loc'[t] = DOMAIN loc[t] \cup {"pc", "want"} /\ loc'[t].op = "pop"
       /\ loc'[t].pc = "take" /\ loc'[t].old = sh.top /\ loc'[t].want = sh.content[1]
  BY <1>2, <1>7, <1>10 DEF With
<1>12. StackTypes'
  <2>1. StackLocals(t)' BY <1>2, <1>11 DEF StackLocals
  <2>2. \A u \in Threads : StackLocals(u)' BY <1>10, <2>1 DEF StackLocals, Others
  <2>3. /\ DOMAIN sh.node \subseteq Addr
        /\ \A b \in DOMAIN sh.node : DOMAIN sh.node[b] = {"val", "next"} /\ sh.node[b].val \in Values
    BY DEF StackInv, StackTypes
  <2> QED BY <1>7, <1>8, <1>9, <1>10, <2>2, <2>3 DEF StackTypes, Others
<1> DEFINE q == Tail(p)
<1>13. /\ q \in Seq(Addr) /\ Len(q) = Len(p) - 1 /\ \A i \in 1 .. Len(p) - 1 : q[i] = p[i + 1]
  BY <1>5, Behead
<1> HIDE DEF q
<1>14. \A i \in 1 .. Len(q) : i + 1 \in 1 .. Len(p) /\ i + 1 # 1 /\ q[i] = p[i + 1] BY <1>5, <1>13
<1>15. Path(q)'
  <2>1. Len(q) = Len(sh'.content) BY <1>5, <1>7, <1>8, <1>13
  <2>2. \A i, j \in 1 .. Len(q) : q[i] = q[j] => i = j
    <3> SUFFICES ASSUME NEW i \in 1 .. Len(q), NEW j \in 1 .. Len(q), q[i] = q[j] PROVE i = j OBVIOUS
    <3>1. i + 1 \in 1 .. Len(p) /\ j + 1 \in 1 .. Len(p) /\ p[i + 1] = p[j + 1] BY <1>14
    <3>2. \A m, n \in 1 .. Len(p) : p[m] = p[n] => m = n BY <1>3 DEF Path, Linear
    <3>3. i + 1 = j + 1 BY <3>1, <3>2
    <3> QED BY <1>5, <1>13, <3>3
  <2>3. sh'.top.ptr = IF Len(q) = 0 THEN Null ELSE q[1]
    <3>1. (1 < Len(p)) <=> (Len(q) # 0) BY <1>5, <1>13
    <3>2. Len(q) # 0 => q[1] = p[1 + 1] BY <1>5, <1>13
    <3> QED BY <1>4, <1>5, <1>6, <1>9, <3>1, <3>2
  <2>4. ASSUME NEW i \in 1 .. Len(q)
        PROVE  /\ q[i] \in DOMAIN sh'.node /\ sh'.node[q[i]].val = sh'.content[i]
               /\ sh'.node[q[i]].next = IF i < Len(q) THEN q[i + 1] ELSE Null
    <3> DEFINE k == i + 1
    <3>1. k \in 1 .. Len(p) /\ q[i] = p[k] BY <1>14
    <3>2. sh'.content[i] = sh.content[k] BY <1>5, <1>7, <1>8, <1>13
    <3>3. (k < Len(p)) <=> (i < Len(q)) BY <1>5, <1>13
    <3>4. i < Len(q) => q[i + 1] = p[k + 1]
      <4> SUFFICES ASSUME i < Len(q) PROVE q[i + 1] = p[k + 1] OBVIOUS
      <4>1. i + 1 \in 1 .. Len(p) - 1 BY <1>5, <1>13
      <4> QED BY <1>13, <4>1
    <3>5. /\ p[k] \in DOMAIN sh.node /\ sh.node[p[k]].val = sh.content[k]
          /\ sh.node[p[k]].next = IF k < Len(p) THEN p[k + 1] ELSE Null
      BY <1>3, <3>1 DEF Path, Linear
    <3> HIDE DEF k
    <3> QED BY <1>8, <3>1, <3>2, <3>3, <3>4, <3>5
  <2> QED BY <1>13, <2>1, <2>2, <2>3, <2>4 DEF Path, Linear
<1>16. \A u \in Threads : u # t => (Owns(u)' <=> Owns(u)) /\ (Owns(u) => Mine(u)' = Mine(u))
  BY <1>10 DEF Owns, Mine, At, Others
<1>17. Owns(t)' /\ ~Owns(t) /\ Mine(t)' = p[1] BY <1>2, <1>5, <1>11 DEF Owns, Mine, At
<1>18. NodesOwned(q)'
  <2>1. ASSUME NEW u \in Threads, Owns(u)'
        PROVE  Mine(u)' \in DOMAIN sh'.node /\ \A i \in 1 .. Len(q) : q[i] # Mine(u)'
    <3>1. CASE u = t
      <4>1. 1 \in 1 .. Len(p) BY <1>5
      <4> QED BY <1>3, <1>6, <1>8, <1>14, <1>17, <3>1, <4>1 DEF Path, Linear
    <3>2. CASE u # t
      <4>1. Owns(u) /\ Mine(u)' = Mine(u) BY <1>16, <2>1, <3>2
      <4>2. Mine(u) \in DOMAIN sh.node /\ \A i \in 1 .. Len(p) : p[i] # Mine(u)
        BY <1>3, <4>1 DEF NodesOwned
      <4> QED BY <1>8, <1>14, <4>1, <4>2
    <3> QED BY <3>1, <3>2
  <2>2. \A u \in Threads : Owns(u) => Mine(u) # p[1]
    <3>1. 1 \in 1 .. Len(p) BY <1>5
    <3> QED BY <1>3, <3>1 DEF NodesOwned
  <2>3. \A u, w \in Threads : u # w /\ Owns(u)' /\ Owns(w)' => Mine(u)' # Mine(w)'
    BY <1>3, <1>16, <1>17, <2>2 DEF NodesOwned
  <2>4. ASSUME NEW b \in DOMAIN sh'.node
        PROVE  (\E i \in 1 .. Len(q) : q[i] = b) \/ \E u \in Threads : Owns(u)' /\ Mine(u)' = b
    <3>1. CASE \E i \in 1 .. Len(p) : p[i] = b
      <4>1. PICK i \in 1 .. Len(p) : p[i] = b BY <3>1
      <4>2. CASE i = 1 BY <1>17, <4>1, <4>2
      <4>3. CASE i # 1
        <5>1. i - 1 \in 1 .. Len(p) - 1 /\ (i - 1) + 1 = i BY <1>5, <4>3
        <5>2. q[i - 1] = b /\ i - 1 \in 1 .. Len(q) BY <1>13, <4>1, <5>1
        <5> QED BY <5>2
      <4> QED BY <4>2, <4>3
    <3>2. CASE \E u \in Threads : Owns(u) /\ Mine(u) = b BY <1>16, <1>17, <3>2
    <3> QED BY <1>3, <1>8, <3>1, <3>2 DEF NodesOwned
  <2> QED BY <2>1, <2>3, <2>4 DEF NodesOwned
<1>19. StackNodes' BY <1>15, <1>18 DEF StackNodes
<1>20. StackLinks'
  <2> SUFFICES ASSUME NEW u \in Threads PROVE Linked(u)' BY DEF StackLinks
  <2>1. CASE u = t BY <1>5, <1>6, <1>8, <1>11, <2>1 DEF Linked, At
  <2>2. CASE u # t
    <3>1. Linked(u) /\ loc'[u] = loc[u] BY <1>10, <2>2 DEF StackInv, StackLinks, Others
    <3>2. At(u, "popCas") => loc[u].old # sh'.top
      <4> SUFFICES ASSUME At(u, "popCas"), loc[u].old = sh'.top PROVE FALSE OBVIOUS
      <4>1. loc[u].old.tag \in Nat /\ loc[u].old.tag <= sh.top.tag BY <3>1 DEF Linked, At
      <4> QED BY <1>9, <4>1
    <3> QED BY <1>8, <1>9, <3>1, <3>2 DEF Linked, At
  <2> QED BY <2>1, <2>2
<1>21. t \notin Raising /\ t \notin Raising' /\ t \notin Lowering /\ t \in Lowering'
  BY <1>2, <1>11 DEF Raising, Lowering, At
<1>22. CountLags'
  <2>1. /\ sh'.count = sh.count + 0 /\ Len(sh'.content) = Len(sh.content) + (-1)
        /\ 0 + (IF t \in Raising' THEN 1 ELSE 0) + (IF t \in Lowering THEN 1 ELSE 0)
             = (-1) + (IF t \in Lowering' THEN 1 ELSE 0) + (IF t \in Raising THEN 1 ELSE 0)
    BY <1>5, <1>7, <1>8, <1>21
  <2>2. 0 \in Int /\ -1 \in Int /\ CountLags BY DEF StackInv
  <2> QED BY <1>10, <2>1, <2>2, CountKept, Zenon
<1> QED BY <1>8, <1>12, <1>19, <1>20, <1>22 DEF StackInv

\* The element is read and the node freed by the thread that took it off.
LEMMA StackFrees ==
  ASSUME StackInv, NEW t \in Threads, Take(t)
  PROVE  StackInv'
<1> USE StackFacts
<1>1. PICK a : a = loc[t].old.ptr OBVIOUS
<1>2. /\ At(t, "take")
      /\ sh' = Spoilt(Freed(sh, a), sh.node[a].val # loc[t].want)
      /\ loc' = [loc EXCEPT ![t] = With(@, To("lower"))]
  BY <1>1 DEF Take, Move
<1>3. {"op", "pc", "old", "want"} \subseteq DOMAIN loc[t] /\ loc[t].op = "pop" /\ loc[t].pc = "take"
  <2>1. StackLocals(t) OBVIOUS
  <2> QED BY <1>2, <2>1 DEF StackLocals, At
<1>4. PICK p : Path(p) /\ NodesOwned(p) BY DEF StackInv, StackNodes
<1>5. /\ a \in DOMAIN sh.node /\ \A i \in 1 .. Len(p) : p[i] # a
      /\ \A u \in Threads : u # t /\ Owns(u) => Mine(u) # a
  BY <1>1, <1>2, <1>4 DEF NodesOwned, Owns, Mine, At
<1>6. sh.node[a].val = loc[t].want BY <1>1, <1>2 DEF StackInv, StackLinks, Linked
<1>7. /\ DOMAIN sh' = DOMAIN sh /\ sh'.top = sh.top /\ sh'.content = sh.content
      /\ sh'.bad = (sh.bad \/ sh.node[a].val # loc[t].want) /\ sh'.count = sh.count
      /\ sh'.node = Restrict(sh.node, DOMAIN sh.node \ {a})
  BY <1>2 DEF Spoilt, Freed
<1>8. ~sh'.bad BY <1>6, <1>7 DEF StackInv
<1>9. /\ DOMAIN sh'.node = DOMAIN sh.node \ {a}
      /\ \A b \in DOMAIN sh.node : b # a => sh'.node[b] = sh.node[b]
  BY <1>7 DEF Restrict
<1>10. loc'[t] = With(loc[t], To("lower")) /\ Others(t) BY <1>2 DEF Others
<1>11. /\ DOMAIN loc'[t] = DOMAIN loc[t] /\ loc'[t].op = "pop" /\ loc'[t].pc = "lower"
  BY <1>3, <1>10 DEF With, To
<1>12. StackTypes'
  <2>1. StackLocals(t)' BY <1>3, <1>11 DEF StackLocals
  <2>2. \A u \in Threads : StackLocals(u)' BY <1>10, <2>1 DEF StackLocals, Others
  <2>3. /\ DOMAIN sh'.node \subseteq Addr
        /\ \A b \in DOMAIN sh'.node : DOMAIN sh'.node[b] = {"val", "next"} /\ sh'.node[b].val \in Values
    BY <1>9 DEF StackInv, StackTypes
  <2> QED BY <1>7, <1>10, <2>2, <2>3 DEF StackTypes, Others
<1>13. \A u \in Threads : u # t => (Owns(u)' <=> Owns(u)) /\ (Owns(u) => Mine(u)' = Mine(u))
  BY <1>10 DEF Owns, Mine, At, Others
<1>14. ~Owns(t)' /\ Owns(t) /\ Mine(t) = a BY <1>1, <1>3, <1>11 DEF Owns, Mine, At
<1>15. Path(p)' BY <1>4, <1>5, <1>7, <1>9 DEF Path, Linear
<1>16. NodesOwned(p)'
  <2>1. \A u \in Threads : Owns(u)' =>
          Mine(u)' \in DOMAIN sh'.node /\ \A i \in 1 .. Len(p) : p[i] # Mine(u)'
    BY <1>4, <1>5, <1>9, <1>13, <1>14 DEF NodesOwned
  <2>2. \A u, w \in Threads : u # w /\ Owns(u)' /\ Owns(w)' => Mine(u)' # Mine(w)'
    BY <1>4, <1>13, <1>14 DEF NodesOwned
  <2>3. \A b \in DOMAIN sh'.node :
          (\E i \in 1 .. Len(p) : p[i] = b) \/ \E u \in Threads : Owns(u)' /\ Mine(u)' = b
    BY <1>4, <1>9, <1>13, <1>14 DEF NodesOwned
  <2> QED BY <2>1, <2>2, <2>3 DEF NodesOwned
<1>17. StackNodes' BY <1>15, <1>16 DEF StackNodes
<1>18. StackLinks'
  <2> SUFFICES ASSUME NEW u \in Threads PROVE Linked(u)' BY DEF StackLinks
  <2>1. CASE u = t BY <1>11, <2>1 DEF Linked, At
  <2>2. CASE u # t
    <3>1. Linked(u) /\ loc'[u] = loc[u] BY <1>10, <2>2 DEF StackInv, StackLinks, Others
    <3>2. Owns(u) => Mine(u) \in DOMAIN sh.node /\ Mine(u) # a BY <1>4, <1>5, <2>2 DEF NodesOwned
    <3>3. sh.top.ptr # Null => sh.top.ptr \in DOMAIN sh.node /\ sh.top.ptr # a
      <4>1. Len(p) \in Nat BY <1>4, LenProperties DEF Path, Linear
      <4> QED BY <1>4, <1>5, <4>1 DEF Path, Linear
    <3>4. At(u, "pushCas") => loc[u].a \in DOMAIN sh.node /\ loc[u].a # a BY <3>2 DEF Owns, Mine, At
    <3>5. At(u, "take") => loc[u].old.ptr \in DOMAIN sh.node /\ loc[u].old.ptr # a
      BY <3>2 DEF Owns, Mine, At
    <3>6. At(u, "popCas") /\ loc[u].old = sh.top => sh.top.ptr \in DOMAIN sh.node /\ sh.top.ptr # a
      BY <3>1, <3>3 DEF Linked
    <3> QED BY <1>7, <1>9, <3>1, <3>4, <3>5, <3>6 DEF Linked, At
  <2> QED BY <2>1, <2>2
<1>19. CountLags'
  <2>1. Raising' = Raising BY <1>3, <1>10, <1>11 DEF Raising, Others, At
  <2>2. Lowering' = Lowering BY <1>3, <1>10, <1>11 DEF Lowering, Others
  <2> QED BY <1>7, <2>1, <2>2 DEF StackInv, CountLags
<1> QED BY <1>8, <1>12, <1>17, <1>18, <1>19 DEF StackInv

LEMMA StackInits ==
  ASSUME loc = [t \in Threads |-> Idle], sh = cstack_init
  PROVE  StackInv
<1>1. /\ DOMAIN sh = {"top", "node", "count", "content", "bad", "calls"}
      /\ sh.top = [ptr |-> Null, tag |-> 0] /\ sh.node = <<>> /\ sh.count = 0 /\ sh.content = <<>> /\ ~sh.bad
  BY DEF cstack_init
<1>2. DOMAIN loc = Threads /\ \A t \in Threads : loc[t] = Idle OBVIOUS
<1>3. \A t \in Threads : loc[t].pc = "idle" /\ loc[t].op = "none" /\ DOMAIN loc[t] = {"op", "pc"}
  BY <1>2 DEF Idle
<1>4. DOMAIN sh.node = {} BY <1>1
<1>5. StackTypes BY <1>1, <1>2, <1>3, <1>4 DEF StackTypes, StackLocals
<1>6. Path(<<>>) BY <1>1 DEF Path, Linear
<1>7. NodesOwned(<<>>) BY <1>3, <1>4 DEF NodesOwned, Owns
<1>8. StackNodes BY <1>6, <1>7 DEF StackNodes
<1>9. StackLinks BY <1>3 DEF StackLinks, Linked, At
<1>10. Raising = {} /\ Lowering = {} BY <1>3 DEF Raising, Lowering, At
<1>11. CountLags BY <1>1, <1>10, FS_EmptySet DEF CountLags
<1> QED BY <1>1, <1>5, <1>8, <1>9, <1>11 DEF StackInv

LEMMA StackDestroyed ==
  ASSUME StackInv, cstack_destroy
  PROVE  StackInv'
<1> USE StackFacts
<1>1. Quiet /\ sh' = [cstack_init EXCEPT !.calls = sh.calls + 1] /\ loc' = loc BY DEF cstack_destroy
<1>2. /\ DOMAIN sh' = {"top", "node", "count", "content", "bad", "calls"}
      /\ sh'.top = [ptr |-> Null, tag |-> 0] /\ sh'.node = <<>> /\ sh'.count = 0 /\ sh'.content = <<>>
      /\ ~sh'.bad
  BY <1>1 DEF cstack_init
<1>3. \A t \in Threads : loc'[t].pc = "idle" /\ StackLocals(t)'
  BY <1>1 DEF Quiet, At, StackLocals
<1>4. DOMAIN sh'.node = {} BY <1>2
<1>5. StackTypes'
  <2>1. DOMAIN sh'.top = {"ptr", "tag"} /\ sh'.top.tag = 0 BY <1>2
  <2>2. sh'.content \in Seq(Values) BY <1>2
  <2> QED BY <1>1, <1>2, <1>3, <1>4, <2>1, <2>2 DEF StackTypes
<1>6. Path(<<>>)' BY <1>2 DEF Path, Linear
<1>7. NodesOwned(<<>>)' BY <1>3, <1>4 DEF NodesOwned, Owns
<1>8. StackNodes' BY <1>6, <1>7 DEF StackNodes
<1>9. StackLinks' BY <1>3 DEF StackLinks, Linked, At
<1>10. Raising' = {} /\ Lowering' = {} BY <1>3 DEF Raising, Lowering, At
<1>11. CountLags' BY <1>2, <1>10, FS_EmptySet DEF CountLags
<1> QED BY <1>2, <1>5, <1>8, <1>9, <1>11 DEF StackInv

LEMMA StackInvSteps ==
  ASSUME StackInv, StackNext \/ SlistNext, IsFiniteSet(Threads)
  PROVE  StackInv'
<1>1. CASE cstack_destroy BY <1>1, StackDestroyed
<1>2. ASSUME NEW t \in Threads, StackSteps(t) PROVE StackInv'
  <2>1. CASE CasPush(t) BY <2>1, StackPushAgain, StackPushes
  <2>2. CASE Raise(t) \/ Lower(t) BY <2>2, StackReturns
  <2>3. CASE Look(t) BY <2>3, StackLooks
  <2>4. CASE CasPop(t) BY <2>4, StackPopAgain, StackTakesOff DEF CasPop
  <2>5. CASE Take(t) BY <2>5, StackFrees
  <2> QED BY <1>2, <2>1, <2>2, <2>3, <2>4, <2>5 DEF StackSteps
<1> QED
  BY <1>1, <1>2, StackPops, StackAllocates
  DEF StackNext, SlistNext, cslist_destroy, cslist_pop_front, cslist_push_front

\* What the run checks follows from the inductive invariant.
LEMMA StackInvEnough ==
  ASSUME StackInv, Null \notin Addr, IsFiniteSet(Addr)
  PROVE  StaleLinksHarmless
<1> USE StackFacts
<1> DEFINE chain == ChainOf(sh.top.ptr)
<1>1. PICK p : Path(p) /\ NodesOwned(p) BY DEF StackInv, StackNodes
<1>2. /\ chain = [i \in 0 .. Len(p) - 1 |-> p[i + 1]]
      /\ Len(p) \in Nat /\ Cardinality(0 .. Len(p) - 1) = Len(p)
  <2>1. Linear(p) /\ sh.top.ptr = IF Len(p) = 0 THEN Null ELSE p[1] BY <1>1 DEF Path
  <2>2. Null \notin DOMAIN sh.node BY DEF StackInv, StackTypes
  <2> QED BY <2>1, <2>2, WalkIsPath
<1> HIDE DEF chain
<1>3. DOMAIN chain = 0 .. Len(p) - 1 /\ \A i \in 1 .. Len(p) : i - 1 \in DOMAIN chain /\ chain[i - 1] = p[i]
  BY <1>2
<1>4. [i \in 1 .. Cardinality(DOMAIN chain) |-> sh.node[chain[i - 1]].val] = sh.content
  <2>1. Cardinality(DOMAIN chain) = Len(p) BY <1>2, <1>3
  <2>2. \A i \in 1 .. Len(p) : sh.node[chain[i - 1]].val = sh.content[i] BY <1>1, <1>3 DEF Path, Linear
  <2>3. DOMAIN sh.content = 1 .. Len(p) /\ sh.content = [i \in 1 .. Len(p) |-> sh.content[i]]
    BY <1>1, LenProperties DEF Path, Linear
  <2> QED BY <2>1, <2>2, <2>3
<1>5. Range(chain) = {p[i] : i \in 1 .. Len(p)}
  <2>1. Range(chain) = {chain[i] : i \in 0 .. Len(p) - 1} BY <1>3 DEF Range
  <2>2. \A i \in 0 .. Len(p) - 1 : i + 1 \in 1 .. Len(p) /\ chain[i] = p[i + 1] BY <1>2
  <2> QED BY <1>3, <2>1, <2>2
<1>6. DOMAIN sh.node = Range(chain) \cup Locals("pushCas", "a")
                         \cup {loc[t].old.ptr : t \in {u \in Threads : At(u, "take")}}
  <2> DEFINE taken == {loc[t].old.ptr : t \in {u \in Threads : At(u, "take")}}
  <2>1. ASSUME NEW a \in DOMAIN sh.node PROVE a \in Range(chain) \cup Locals("pushCas", "a") \cup taken
    <3>1. CASE \E t \in Threads : Owns(t) /\ Mine(t) = a
      <4>1. PICK t \in Threads : Owns(t) /\ Mine(t) = a BY <3>1
      <4>2. CASE At(t, "pushCas") BY <4>1, <4>2 DEF Mine, Locals
      <4>3. CASE At(t, "take")
        <5>1. a = loc[t].old.ptr BY <4>1, <4>3 DEF Mine, At
        <5> QED BY <4>3, <5>1
      <4> QED BY <4>1, <4>2, <4>3 DEF Owns, At
    <3> QED BY <1>1, <1>5, <3>1 DEF NodesOwned
  <2>2. Range(chain) \subseteq DOMAIN sh.node BY <1>1, <1>5 DEF Path, Linear
  <2>3. Locals("pushCas", "a") \subseteq DOMAIN sh.node
    <3> SUFFICES ASSUME NEW t \in Threads, At(t, "pushCas") PROVE loc[t].a \in DOMAIN sh.node
      BY DEF Locals
    <3> QED BY <1>1 DEF NodesOwned, Owns, Mine, At
  <2>4. taken \subseteq DOMAIN sh.node
    <3> SUFFICES ASSUME NEW t \in Threads, At(t, "take") PROVE loc[t].old.ptr \in DOMAIN sh.node
      OBVIOUS
    <3> QED BY <1>1 DEF NodesOwned, Owns, Mine, At
  <2> QED BY <2>1, <2>2, <2>3, <2>4
<1>7. Quiet => sh.count = Len(sh.content)
  <2> SUFFICES ASSUME Quiet PROVE sh.count = Len(sh.content) OBVIOUS
  <2>1. Raising = {} /\ Lowering = {} BY DEF Raising, Lowering, At, Quiet
  <2>2. sh.count + 0 = Len(sh.content) + 0 BY <2>1, FS_EmptySet DEF StackInv, CountLags
  <2> QED BY <2>2
<1> QED BY <1>4, <1>6, <1>7 DEF StaleLinksHarmless, StackInv, chain

(* scl_cstack and scl_cslist, for any number of threads, addresses and     *)
(* calls: pop reads the link of a node that another pop may have freed and *)
(* malloc handed out again, but the tag keeps a stale link out.  The links *)
(* are the elements pushed and not popped, newest first, pop returns the   *)
(* one it removed, no node is lost, and the count is right whenever no     *)
(* call is running.                                                        *)
THEOREM TagKeepsStaleLinksOut ==
  ASSUME Null \notin Addr, IsFiniteSet(Addr), IsFiniteSet(Threads)
  PROVE  SharedSpec => []StaleLinksHarmless
<1> DEFINE Inv == kind \in {"cstack", "cslist"} => StackInv
<1>1. SharedInit => Inv BY StackInits DEF SharedInit, cslist_init
<1>2. Inv /\ [SharedNext]_Vars => Inv'
  <2> SUFFICES ASSUME Inv, [SharedNext]_Vars, kind' \in {"cstack", "cslist"} PROVE StackInv' OBVIOUS
  <2>1. kind \in {"cstack", "cslist"} /\ StackInv BY KindStays
  <2>2. UNCHANGED Vars \/ StackNext \/ SlistNext BY <2>1, KindStays
  <2>3. CASE UNCHANGED Vars
    <3>1. sh' = sh /\ loc' = loc BY <2>3 DEF Vars
    <3>2. StackTypes' BY <2>1, <3>1 DEF StackInv, StackTypes, StackLocals
    <3>3. StackNodes' BY <2>1, <3>1 DEF StackInv, StackNodes, Path, Linear, NodesOwned, Owns, Mine, At
    <3>4. StackLinks' BY <2>1, <3>1 DEF StackInv, StackLinks, Linked, At
    <3>5. CountLags' BY <2>1, <3>1 DEF StackInv, CountLags, Raising, Lowering, At
    <3> QED BY <2>1, <3>1, <3>2, <3>3, <3>4, <3>5 DEF StackInv
  <2>4. CASE StackNext \/ SlistNext BY <2>1, <2>4, StackInvSteps
  <2> QED BY <2>2, <2>3, <2>4
<1>3. Inv => StaleLinksHarmless BY StackInvEnough DEF StaleLinksHarmless
<1> QED BY <1>1, <1>2, <1>3, PTL DEF SharedSpec

-----------------------------------------------------------------------------
(* scl_cqueue *)

Early == {"eTail", "eNext", "eCheck", "eLink", "eHelp"}     \* not linked yet
Late == {"eOld", "eSwing"}                                  \* linked, the tail not moved yet
QueueLocals(t) ==
  LET me == loc[t]
  IN \/ me.pc = "idle" /\ me.op = "none" /\ DOMAIN me = {"op", "pc"}
     \/ /\ me.op = "enqueue" /\ me.pc \in Early \cup Late \cup {"raise"} /\ {"op", "pc", "a"} \subseteq DOMAIN me
        /\ me.pc \in {"eNext", "eCheck", "eLink", "eHelp", "eSwing"} => "tail" \in DOMAIN me
        /\ me.pc \in {"eCheck", "eLink", "eHelp"} => "next" \in DOMAIN me
     \/ /\ me.op = "dequeue" /\ {"op", "pc"} \subseteq DOMAIN me
        /\ \/ me.pc \in {"dHead", "lower"}
           \/ me.pc \in {"dTail", "dFree"} /\ "head" \in DOMAIN me
           \/ me.pc = "dNext" /\ {"head", "tail"} \subseteq DOMAIN me
           \/ me.pc \in {"dCheck", "dHelp", "dCopy"} /\ {"head", "tail", "next", "empty"} \subseteq DOMAIN me
           \/ me.pc = "dCas" /\ {"head", "next", "out"} \subseteq DOMAIN me

QueueTypes ==
  /\ DOMAIN loc = Threads /\ \A t \in Threads : QueueLocals(t)
  /\ DOMAIN sh = {"head", "tail", "node", "count", "content", "phase", "slipped", "bad", "calls"}
  /\ sh.phase \in {"batch", "pipe"}
  /\ DOMAIN sh.node \subseteq Addr /\ \A a \in DOMAIN sh.node : DOMAIN sh.node[a] = {"val", "next"}
  /\ \A t \in Threads : loc[t].pc \in Early => sh.node[loc[t].a].val \in Values
  /\ sh.content \in Seq(Values)

\* Which calls are not running together.
QueueApart ==
  \A t, u \in Threads :
    /\ t # u /\ loc[t].op = "dequeue" => loc[u].op # "dequeue"
    /\ loc[t].op = "dequeue" /\ sh.phase = "batch" => loc[u].op # "enqueue"
    /\ t # u /\ loc[t].op = "enqueue" /\ sh.phase = "pipe" => loc[u].op # "enqueue"

\* A node that is not, or no longer, in the queue belongs to one thread.
Holds(t) == loc[t].pc \in Early \cup {"dFree"}
Held(t) == IF At(t, "dFree") THEN loc[t].head ELSE loc[t].a
On(p, a) == \E i \in 1 .. Len(p) : p[i] = a

\* p has the addresses of the dummy and of the nodes in the queue, oldest first.
Line(p) ==
  /\ Linear(p) /\ Len(p) = Len(sh.content) + 1 /\ sh.head = p[1] /\ On(p, sh.tail)
  /\ \A i \in 1 .. Len(sh.content) : sh.node[p[i + 1]].val = sh.content[i]
NodesHeld(p) ==
  /\ \A t \in Threads : Holds(t) => Held(t) \in DOMAIN sh.node /\ ~On(p, Held(t))
  /\ \A t, u \in Threads : t # u /\ Holds(t) /\ Holds(u) => Held(t) # Held(u)

\* With one thread on each side the tail is one node behind at most, and only
\* between the link and the exchange.
TailNear(p) ==
  sh.phase = "pipe" =>
    \/ sh.tail = p[Len(p)]
    \/ Len(p) > 1 /\ sh.tail = p[Len(p) - 1] /\ \E t \in Threads : loc[t].pc \in Late

Enqueuing(t, p) ==
  LET me == loc[t]
  IN /\ me.pc \in Early => sh.node[me.a].next = Null
     /\ me.pc \in {"eNext", "eCheck", "eLink", "eHelp"} => On(p, me.tail)
     /\ At(t, "eCheck") => me.next = Null \/ On(p, me.next)
     /\ At(t, "eHelp") => On(p, me.next)
     /\ me.pc \in Late => On(p, me.a)
     /\ sh.phase = "pipe" =>
          /\ me.pc \in {"eNext", "eCheck", "eLink"} => me.tail = sh.tail
          /\ At(t, "eCheck") => me.next = Null
          /\ ~At(t, "eHelp")
          /\ me.pc \in Late => me.a = p[Len(p)]
          /\ At(t, "eSwing") => me.tail = sh.tail \/ sh.tail = p[Len(p)]

Dequeuing(t, p) ==
  LET me == loc[t]
  IN /\ me.pc \in {"dTail", "dNext", "dCheck", "dHelp", "dCopy", "dCas"} => me.head = sh.head
     /\ me.pc \in {"dNext", "dCheck"} /\ me.tail # me.head => sh.tail # sh.head
     /\ me.pc \in {"dCopy", "dCas"} => sh.tail # sh.head
     /\ At(t, "dHelp") => me.tail = me.head
     /\ At(t, "dCheck") => IF me.next = Null THEN me.empty ELSE Len(p) > 1 /\ me.next = p[2]
     /\ me.pc \in {"dHelp", "dCopy", "dCas"} => Len(p) > 1 /\ me.next = p[2]
     /\ At(t, "dCas") => me.out = sh.content[1]

QueueNodes(p) ==
  /\ Line(p) /\ NodesHeld(p) /\ TailNear(p)
  /\ \A t \in Threads : Enqueuing(t, p) /\ Dequeuing(t, p)
QueueInv == QueueTypes /\ QueueApart /\ (\E p : QueueNodes(p)) /\ CountLags /\ ~sh.bad

LEMMA QueueFacts ==
  ASSUME QueueInv
  PROVE  /\ DOMAIN loc = Threads /\ \A t \in Threads : QueueLocals(t)
         /\ DOMAIN sh = {"head", "tail", "node", "count", "content", "phase", "slipped", "bad", "calls"}
         /\ sh.content \in Seq(Values) /\ Len(sh.content) \in Nat /\ sh.count \in Int
         /\ sh.phase \in {"batch", "pipe"}
         /\ DOMAIN sh.node \subseteq Addr /\ \A a \in DOMAIN sh.node : DOMAIN sh.node[a] = {"val", "next"}
BY LenProperties DEF QueueInv, QueueTypes, CountLags

LEMMA LineFacts ==
  ASSUME NEW p, Line(p)
  PROVE  /\ p \in Seq(Addr) /\ Len(p) \in Nat /\ Len(p) >= 1 /\ 1 \in 1 .. Len(p) /\ Len(p) \in 1 .. Len(p)
         /\ Len(p) = Len(sh.content) + 1
         /\ \A i, j \in 1 .. Len(p) : p[i] = p[j] => i = j
         /\ \A i \in 1 .. Len(p) :
              p[i] \in DOMAIN sh.node /\ sh.node[p[i]].next = IF i < Len(p) THEN p[i + 1] ELSE Null
         /\ sh.head = p[1] /\ sh.head \in DOMAIN sh.node /\ On(p, sh.tail)
<1>1. Linear(p) /\ Len(p) = Len(sh.content) + 1 /\ sh.head = p[1] /\ On(p, sh.tail) BY DEF Line
<1>2. p \in Seq(Addr) /\ Len(p) \in Nat BY <1>1, LenProperties DEF Linear
<1>3. Len(p) # 0
  <2> SUFFICES ASSUME Len(p) = 0 PROVE FALSE OBVIOUS
  <2> QED BY <1>1 DEF On
<1>4. Len(p) >= 1 /\ 1 \in 1 .. Len(p) /\ Len(p) \in 1 .. Len(p) BY <1>2, <1>3
<1> QED BY <1>1, <1>2, <1>4 DEF Linear

LEMMA ApartKept ==
  ASSUME QueueApart, NEW t \in Threads, Others(t), loc'[t].op \in {loc[t].op, "none"}, sh'.phase = sh.phase
  PROVE  QueueApart'
<1>1. \A u \in Threads : loc'[u].op \in {loc[u].op, "none"} BY DEF Others
<1> QED BY <1>1 DEF QueueApart

\* A step that leaves the nodes and the content alone.
LEMMA QueueFrame ==
  ASSUME QueueInv, NEW p, QueueNodes(p), NEW t \in Threads, Others(t), CountLags', QueueApart',
         DOMAIN sh' = DOMAIN sh, sh'.head = sh.head, sh'.node = sh.node, sh'.content = sh.content,
         sh'.phase = sh.phase, ~sh'.bad, On(p, sh'.tail), QueueLocals(t)',
         loc'[t].pc \in Early => loc[t].pc \in Early /\ loc'[t].a = loc[t].a, loc'[t].pc # "dFree",
         TailNear(p)', \A u \in Threads : Enqueuing(u, p)' /\ Dequeuing(u, p)'
  PROVE  QueueInv'
<1> USE QueueFacts
<1>1. QueueTypes'
  <2>1. \A u \in Threads : QueueLocals(u)' BY DEF QueueLocals, Others
  <2>2. \A u \in Threads : loc'[u].pc \in Early => loc[u].pc \in Early /\ loc'[u].a = loc[u].a BY DEF Others
  <2>3. \A u \in Threads : loc'[u].pc \in Early => sh'.node[loc'[u].a].val \in Values
    BY <2>2 DEF QueueInv, QueueTypes
  <2> QED BY <2>1, <2>3 DEF QueueTypes, Others
<1>2. Line(p)' BY DEF QueueNodes, Line, Linear
<1>3. NodesHeld(p)'
  <2>1. \A u \in Threads : Holds(u)' => Holds(u) /\ Held(u)' = Held(u)
    <3>1. Holds(t)' => Holds(t) /\ Held(t)' = Held(t) BY DEF Holds, Held, At, Early
    <3>2. \A u \in Threads : u # t => (Holds(u)' <=> Holds(u)) /\ Held(u)' = Held(u)
      BY DEF Holds, Held, At, Others
    <3> QED BY <3>1, <3>2
  <2> QED BY <2>1 DEF QueueNodes, NodesHeld
<1>4. QueueNodes(p)' BY <1>2, <1>3 DEF QueueNodes
<1> QED BY <1>1, <1>4 DEF QueueInv

\* A step that leaves the tail alone too.
LEMMA QueueStill ==
  ASSUME QueueInv, NEW p, QueueNodes(p), NEW t \in Threads, Others(t), CountLags', QueueApart',
         DOMAIN sh' = DOMAIN sh, sh'.head = sh.head, sh'.node = sh.node, sh'.content = sh.content,
         sh'.phase = sh.phase, sh'.tail = sh.tail, ~sh'.bad, QueueLocals(t)',
         loc'[t].pc \in Early => loc[t].pc \in Early /\ loc'[t].a = loc[t].a, loc'[t].pc # "dFree",
         loc[t].pc \in Late => loc'[t].pc \in Late, Enqueuing(t, p)', Dequeuing(t, p)'
  PROVE  QueueInv'
<1>1. On(p, sh'.tail) BY DEF QueueNodes, Line
<1>2. TailNear(p)'
  <2>1. (\E u \in Threads : loc[u].pc \in Late) => \E u \in Threads : loc'[u].pc \in Late BY DEF Others
  <2> QED BY <2>1 DEF QueueNodes, TailNear
<1>3. ASSUME NEW u \in Threads PROVE Enqueuing(u, p)' /\ Dequeuing(u, p)'
  <2>1. CASE u = t BY <2>1
  <2>2. CASE u # t
    <3>1. loc'[u] = loc[u] /\ Enqueuing(u, p) /\ Dequeuing(u, p) BY <2>2 DEF Others, QueueNodes
    <3>2. Enqueuing(u, p)' BY <3>1 DEF Enqueuing, At
    <3>3. Dequeuing(u, p)' BY <3>1 DEF Dequeuing, At
    <3> QED BY <3>2, <3>3
  <2> QED BY <2>1, <2>2
<1> QED BY <1>1, <1>2, <1>3, QueueFrame

\* What a step that only reads leaves.
ReadOnly ==
  /\ DOMAIN sh' = DOMAIN sh /\ sh'.head = sh.head /\ sh'.tail = sh.tail /\ sh'.node = sh.node
  /\ sh'.content = sh.content /\ sh'.phase = sh.phase /\ sh'.count = sh.count /\ ~sh'.bad

LEMMA EnqueueReadsTail ==
  ASSUME QueueInv, NEW t \in Threads, At(t, "eTail"), Move(t, sh, [pc |-> "eNext", tail |-> sh.tail])
  PROVE  QueueInv'
<1> USE QueueFacts
<1>1. loc' = [loc EXCEPT ![t] = With(@, [pc |-> "eNext", tail |-> sh.tail])] /\ ReadOnly
  BY DEF Move, QueueInv, ReadOnly
<1>2. loc'[t] = With(loc[t], [pc |-> "eNext", tail |-> sh.tail]) /\ Others(t) BY <1>1 DEF Others
<1>3. loc[t].pc = "eTail" /\ loc[t].op = "enqueue" /\ {"op", "pc", "a"} \subseteq DOMAIN loc[t]
  <2>1. QueueLocals(t) OBVIOUS
  <2> QED BY <2>1 DEF QueueLocals, At
<1>4. /\ DOMAIN loc'[t] = DOMAIN loc[t] \cup {"pc", "tail"} /\ loc'[t].op = "enqueue"
      /\ loc'[t].pc = "eNext" /\ loc'[t].tail = sh.tail /\ loc'[t].a = loc[t].a
  BY <1>2, <1>3 DEF With
<1>5. PICK p : QueueNodes(p) BY DEF QueueInv
<1>6. Enqueuing(t, p) /\ On(p, sh.tail) BY <1>5 DEF QueueNodes, Line
<1>7. Enqueuing(t, p)' BY <1>1, <1>3, <1>4, <1>6 DEF Enqueuing, At, Early, Late, ReadOnly
<1>8. Dequeuing(t, p)' BY <1>4 DEF Dequeuing, At
<1>9. QueueLocals(t)' BY <1>3, <1>4 DEF QueueLocals, Early, Late
<1>10. QueueApart' BY <1>1, <1>2, <1>3, <1>4, ApartKept DEF QueueInv, ReadOnly
<1>11. t \notin Raising /\ t \notin Raising' /\ t \notin Lowering /\ t \notin Lowering'
  BY <1>3, <1>4 DEF Raising, Lowering
<1>12. CountLags' BY <1>1, <1>2, <1>11, CountStill DEF QueueInv, ReadOnly
<1>13. /\ loc'[t].pc \in Early => loc[t].pc \in Early /\ loc'[t].a = loc[t].a
       /\ loc'[t].pc # "dFree" /\ loc[t].pc \notin Late
  BY <1>3, <1>4 DEF Early, Late
<1> QED BY <1>1, <1>2, <1>5, <1>7, <1>8, <1>9, <1>10, <1>12, <1>13, QueueStill DEF ReadOnly

LEMMA EnqueueReadsNext ==
  ASSUME QueueInv, NEW t \in Threads, At(t, "eNext"),
         Move(t, Spoilt(sh, Gone(loc[t].tail)), [pc |-> "eCheck", next |-> NextOf(loc[t].tail)])
  PROVE  QueueInv'
<1> USE QueueFacts
<1>1. PICK p : QueueNodes(p) BY DEF QueueInv
<1>2. loc[t].pc = "eNext" /\ loc[t].op = "enqueue" /\ {"op", "pc", "a", "tail"} \subseteq DOMAIN loc[t]
  <2>1. QueueLocals(t) OBVIOUS
  <2> QED BY <2>1 DEF QueueLocals, At
<1>3. Enqueuing(t, p) /\ On(p, loc[t].tail) /\ Line(p) BY <1>1, <1>2 DEF QueueNodes, Enqueuing
<1>4. PICK i \in 1 .. Len(p) : p[i] = loc[t].tail BY <1>3 DEF On
<1>5. /\ loc[t].tail \in DOMAIN sh.node /\ ~Gone(loc[t].tail)
      /\ NextOf(loc[t].tail) = IF i < Len(p) THEN p[i + 1] ELSE Null
  BY <1>3, <1>4, LineFacts DEF Gone, NextOf
<1>6. NextOf(loc[t].tail) = Null \/ On(p, NextOf(loc[t].tail))
  <2>1. i < Len(p) => i + 1 \in 1 .. Len(p) BY <1>3, <1>4, LineFacts
  <2> QED BY <1>5, <2>1 DEF On
<1>7. sh.phase = "pipe" => loc[t].tail = sh.tail /\ NextOf(loc[t].tail) = Null
  <2> SUFFICES ASSUME sh.phase = "pipe" PROVE loc[t].tail = sh.tail /\ NextOf(loc[t].tail) = Null OBVIOUS
  <2>1. loc[t].tail = sh.tail BY <1>2, <1>3 DEF Enqueuing
  <2>2. \A u \in Threads : loc[u].pc \notin Late
    <3> SUFFICES ASSUME NEW u \in Threads, loc[u].pc \in Late PROVE FALSE OBVIOUS
    <3>1. QueueLocals(u) OBVIOUS
    <3>2. loc[u].op = "enqueue" BY <3>1 DEF QueueLocals, Late
    <3>3. u = t BY <1>2, <3>2 DEF QueueInv, QueueApart
    <3> QED BY <1>2, <3>3 DEF Late
  <2>3. sh.tail = p[Len(p)] BY <1>1, <2>2 DEF QueueNodes, TailNear
  <2>4. i = Len(p) BY <1>3, <1>4, <2>1, <2>3, LineFacts
  <2> QED BY <1>3, <1>5, <2>1, <2>4, LineFacts
<1> DEFINE n == NextOf(loc[t].tail)
<1> HIDE DEF n
<1>8. /\ loc' = [loc EXCEPT ![t] = With(@, [pc |-> "eCheck", next |-> n])]
      /\ sh' = [sh EXCEPT !.bad = @ \/ FALSE]
  BY <1>5 DEF Move, Spoilt, n
<1>9. ReadOnly BY <1>8 DEF ReadOnly, QueueInv
<1>10. loc'[t] = With(loc[t], [pc |-> "eCheck", next |-> n]) /\ Others(t) BY <1>8 DEF Others
<1>11. /\ DOMAIN loc'[t] = DOMAIN loc[t] \cup {"pc", "next"} /\ loc'[t].op = "enqueue"
       /\ loc'[t].pc = "eCheck" /\ loc'[t].tail = loc[t].tail /\ loc'[t].a = loc[t].a /\ loc'[t].next = n
  BY <1>2, <1>10 DEF With
<1>12. Enqueuing(t, p)'
  BY <1>2, <1>3, <1>6, <1>7, <1>9, <1>11 DEF Enqueuing, At, Early, Late, ReadOnly, n
<1>13. Dequeuing(t, p)' BY <1>11 DEF Dequeuing, At
<1>14. QueueLocals(t)' BY <1>2, <1>11 DEF QueueLocals, Early, Late
<1>15. QueueApart' BY <1>2, <1>9, <1>10, <1>11, ApartKept DEF QueueInv, ReadOnly
<1>16. t \notin Raising /\ t \notin Raising' /\ t \notin Lowering /\ t \notin Lowering'
  BY <1>2, <1>11 DEF Raising, Lowering
<1>17. CountLags' BY <1>9, <1>10, <1>16, CountStill DEF QueueInv, ReadOnly
<1>18. /\ loc'[t].pc \in Early => loc[t].pc \in Early /\ loc'[t].a = loc[t].a
       /\ loc'[t].pc # "dFree" /\ loc[t].pc \notin Late
  BY <1>2, <1>11 DEF Early, Late
<1> QED BY <1>1, <1>9, <1>10, <1>12, <1>13, <1>14, <1>15, <1>17, <1>18, QueueStill DEF ReadOnly

\* The decision after the second look at the tail, and the way back from a failed link.
LEMMA EnqueueDecides ==
  ASSUME QueueInv, NEW t \in Threads, NEW l \in {"eTail", "eLink", "eHelp"}, Move(t, sh, To(l)),
         \/ At(t, "eCheck") /\ (l = "eHelp" => loc[t].next # Null)
         \/ At(t, "eLink") /\ l = "eTail"
  PROVE  QueueInv'
<1> USE QueueFacts
<1>1. PICK p : QueueNodes(p) BY DEF QueueInv
<1>2. /\ loc[t].pc \in {"eCheck", "eLink"} /\ loc[t].op = "enqueue"
      /\ {"op", "pc", "a", "tail", "next"} \subseteq DOMAIN loc[t]
  <2>1. QueueLocals(t) OBVIOUS
  <2> QED BY <2>1 DEF QueueLocals, At
<1>3. Enqueuing(t, p) BY <1>1 DEF QueueNodes
<1>4. loc' = [loc EXCEPT ![t] = With(@, To(l))] /\ ReadOnly BY DEF Move, QueueInv, ReadOnly
<1>5. loc'[t] = With(loc[t], To(l)) /\ Others(t) BY <1>4 DEF Others
<1>6. /\ DOMAIN loc'[t] = DOMAIN loc[t] /\ loc'[t].op = "enqueue" /\ loc'[t].pc = l
      /\ loc'[t].tail = loc[t].tail /\ loc'[t].a = loc[t].a /\ loc'[t].next = loc[t].next
  BY <1>2, <1>5 DEF With, To
<1>7. Enqueuing(t, p)'
  BY <1>2, <1>3, <1>4, <1>6 DEF Enqueuing, At, Early, Late, ReadOnly
<1>8. Dequeuing(t, p)' BY <1>6 DEF Dequeuing, At
<1>9. QueueLocals(t)' BY <1>2, <1>6 DEF QueueLocals, Early, Late
<1>10. QueueApart' BY <1>2, <1>4, <1>5, <1>6, ApartKept DEF QueueInv, ReadOnly
<1>11. t \notin Raising /\ t \notin Raising' /\ t \notin Lowering /\ t \notin Lowering'
  BY <1>2, <1>6 DEF Raising, Lowering
<1>12. CountLags' BY <1>4, <1>5, <1>11, CountStill DEF QueueInv, ReadOnly
<1>13. /\ loc'[t].pc \in Early => loc[t].pc \in Early /\ loc'[t].a = loc[t].a
       /\ loc'[t].pc # "dFree" /\ loc[t].pc \notin Late
  BY <1>2, <1>6 DEF Early, Late
<1> QED BY <1>1, <1>4, <1>5, <1>7, <1>8, <1>9, <1>10, <1>12, <1>13, QueueStill DEF ReadOnly

LEMMA EnqueueReadsOld ==
  ASSUME QueueInv, NEW t \in Threads, At(t, "eOld"), Move(t, sh, [pc |-> "eSwing", tail |-> sh.tail])
  PROVE  QueueInv'
<1> USE QueueFacts
<1>1. PICK p : QueueNodes(p) BY DEF QueueInv
<1>2. loc[t].pc = "eOld" /\ loc[t].op = "enqueue" /\ {"op", "pc", "a"} \subseteq DOMAIN loc[t]
  <2>1. QueueLocals(t) OBVIOUS
  <2> QED BY <2>1 DEF QueueLocals, At
<1>3. Enqueuing(t, p) BY <1>1 DEF QueueNodes
<1>4. loc' = [loc EXCEPT ![t] = With(@, [pc |-> "eSwing", tail |-> sh.tail])] /\ ReadOnly
  BY DEF Move, QueueInv, ReadOnly
<1>5. loc'[t] = With(loc[t], [pc |-> "eSwing", tail |-> sh.tail]) /\ Others(t) BY <1>4 DEF Others
<1>6. /\ DOMAIN loc'[t] = DOMAIN loc[t] \cup {"pc", "tail"} /\ loc'[t].op = "enqueue"
      /\ loc'[t].pc = "eSwing" /\ loc'[t].tail = sh.tail /\ loc'[t].a = loc[t].a
  BY <1>2, <1>5 DEF With
<1>7. Enqueuing(t, p)' BY <1>2, <1>3, <1>4, <1>6 DEF Enqueuing, At, Early, Late, ReadOnly
<1>8. Dequeuing(t, p)' BY <1>6 DEF Dequeuing, At
<1>9. QueueLocals(t)' BY <1>2, <1>6 DEF QueueLocals, Early, Late
<1>10. QueueApart' BY <1>2, <1>4, <1>5, <1>6, ApartKept DEF QueueInv, ReadOnly
<1>11. t \in Raising /\ t \in Raising' /\ t \notin Lowering /\ t \notin Lowering'
  BY <1>2, <1>6 DEF Raising, Lowering
<1>12. CountLags' BY <1>4, <1>5, <1>11, CountStill DEF QueueInv, ReadOnly
<1>13. /\ loc'[t].pc \in Early => loc[t].pc \in Early /\ loc'[t].a = loc[t].a
       /\ loc'[t].pc # "dFree" /\ loc'[t].pc \in Late
  BY <1>2, <1>6 DEF Early, Late
<1> QED BY <1>1, <1>4, <1>5, <1>7, <1>8, <1>9, <1>10, <1>12, <1>13, QueueStill DEF ReadOnly

\* A thread that dequeues.
LEMMA DequeueThread ==
  ASSUME QueueInv, NEW t \in Threads, loc[t].pc \in {"dHead", "dTail", "dNext", "dCheck", "dHelp", "dCopy", "dCas", "dFree"}
  PROVE  /\ loc[t].op = "dequeue" /\ {"op", "pc"} \subseteq DOMAIN loc[t]
         /\ loc[t].pc # "dHead" => "head" \in DOMAIN loc[t]
         /\ loc[t].pc \in {"dNext", "dCheck", "dHelp", "dCopy"} => "tail" \in DOMAIN loc[t]
         /\ loc[t].pc \in {"dCheck", "dHelp", "dCopy"} => {"next", "empty"} \subseteq DOMAIN loc[t]
         /\ loc[t].pc = "dCas" => {"next", "out"} \subseteq DOMAIN loc[t]
         /\ \A u \in Threads : u # t => loc[u].op # "dequeue"
         /\ sh.phase = "batch" => \A u \in Threads : loc[u].op # "enqueue"
<1>1. QueueLocals(t) BY QueueFacts
<1>2. loc[t].op = "dequeue" BY <1>1 DEF QueueLocals, Early, Late
<1>3. \A u \in Threads : u # t => loc[u].op # "dequeue" BY <1>2 DEF QueueInv, QueueApart
<1>4. sh.phase = "batch" => \A u \in Threads : loc[u].op # "enqueue" BY <1>2 DEF QueueInv, QueueApart
<1> QED BY <1>1, <1>2, <1>3, <1>4 DEF QueueLocals, Early, Late

\* Where a dequeue that only reads goes; what it has read is right.
LEMMA DequeueReads ==
  ASSUME QueueInv, NEW p, QueueNodes(p), NEW t \in Threads, Others(t), ReadOnly,
         loc[t].pc \in {"dHead", "dTail", "dNext", "dCheck", "dHelp", "dCopy", "dCas"},
         loc'[t].pc \in {"idle", "dHead", "dTail", "dNext", "dCheck", "dHelp", "dCopy", "dCas"},
         loc'[t].op \in {loc[t].op, "none"}, QueueLocals(t)', Dequeuing(t, p)'
  PROVE  QueueInv'
<1> USE QueueFacts
<1>1. Enqueuing(t, p)' BY DEF Enqueuing, At, Early, Late
<1>2. QueueApart' BY ApartKept DEF QueueInv, ReadOnly
<1>3. t \notin Raising /\ t \notin Raising' /\ t \notin Lowering /\ t \notin Lowering'
  BY DEF Raising, Lowering
<1>4. CountLags' BY <1>3, CountStill DEF QueueInv, ReadOnly
<1>5. loc'[t].pc \notin Early /\ loc'[t].pc # "dFree" /\ loc[t].pc \notin Late BY DEF Early, Late
<1> QED BY <1>1, <1>2, <1>4, <1>5, QueueStill DEF ReadOnly

LEMMA DequeueReadsEnds ==
  ASSUME QueueInv, NEW t \in Threads,
         \/ At(t, "dHead") /\ Move(t, sh, [pc |-> "dTail", head |-> sh.head])
         \/ At(t, "dTail") /\ Move(t, sh, [pc |-> "dNext", tail |-> sh.tail])
  PROVE  QueueInv'
<1> USE QueueFacts
<1>1. PICK p : QueueNodes(p) BY DEF QueueInv
<1>2. Dequeuing(t, p) BY <1>1 DEF QueueNodes
<1>3. ReadOnly BY DEF ReadOnly, Move, QueueInv
<1>4. CASE At(t, "dHead") /\ Move(t, sh, [pc |-> "dTail", head |-> sh.head])
  <2>1. loc[t].pc = "dHead" /\ loc[t].op = "dequeue" /\ {"op", "pc"} \subseteq DOMAIN loc[t]
    BY <1>4, DequeueThread DEF At
  <2>2. loc' = [loc EXCEPT ![t] = With(@, [pc |-> "dTail", head |-> sh.head])] BY <1>4 DEF Move
  <2>3. loc'[t] = With(loc[t], [pc |-> "dTail", head |-> sh.head]) /\ Others(t) BY <2>2 DEF Others
  <2>4. /\ DOMAIN loc'[t] = DOMAIN loc[t] \cup {"pc", "head"} /\ loc'[t].op = "dequeue"
        /\ loc'[t].pc = "dTail" /\ loc'[t].head = sh.head
    BY <2>1, <2>3 DEF With
  <2>5. QueueLocals(t)' BY <2>1, <2>4 DEF QueueLocals
  <2>6. Dequeuing(t, p)' BY <1>3, <2>4 DEF Dequeuing, At, ReadOnly
  <2> QED BY <1>1, <1>3, <2>1, <2>3, <2>4, <2>5, <2>6, DequeueReads
<1>5. CASE At(t, "dTail") /\ Move(t, sh, [pc |-> "dNext", tail |-> sh.tail])
  <2>1. loc[t].pc = "dTail" /\ loc[t].op = "dequeue" /\ {"op", "pc", "head"} \subseteq DOMAIN loc[t]
    BY <1>5, DequeueThread DEF At
  <2>2. loc' = [loc EXCEPT ![t] = With(@, [pc |-> "dNext", tail |-> sh.tail])] BY <1>5 DEF Move
  <2>3. loc'[t] = With(loc[t], [pc |-> "dNext", tail |-> sh.tail]) /\ Others(t) BY <2>2 DEF Others
  <2>4. /\ DOMAIN loc'[t] = DOMAIN loc[t] \cup {"pc", "tail"} /\ loc'[t].op = "dequeue"
        /\ loc'[t].pc = "dNext" /\ loc'[t].tail = sh.tail /\ loc'[t].head = loc[t].head
    BY <2>1, <2>3 DEF With
  <2>5. QueueLocals(t)' BY <2>1, <2>4 DEF QueueLocals
  <2>6. Dequeuing(t, p)' BY <1>2, <1>3, <2>1, <2>4 DEF Dequeuing, At, ReadOnly
  <2> QED BY <1>1, <1>3, <2>1, <2>3, <2>4, <2>5, <2>6, DequeueReads
<1> QED BY <1>4, <1>5

LEMMA DequeueReadsNext ==
  ASSUME QueueInv, NEW t \in Threads, Null \notin Addr, At(t, "dNext"),
         Move(t, Spoilt(sh, Gone(loc[t].head)),
              [pc |-> "dCheck", next |-> NextOf(loc[t].head), empty |-> sh.content = <<>>])
  PROVE  QueueInv'
<1> USE QueueFacts
<1>1. PICK p : QueueNodes(p) BY DEF QueueInv
<1>2. loc[t].pc = "dNext" /\ loc[t].op = "dequeue" /\ {"op", "pc", "head", "tail"} \subseteq DOMAIN loc[t]
  BY DequeueThread DEF At
<1>3. Dequeuing(t, p) /\ Line(p) /\ loc[t].head = sh.head BY <1>1, <1>2 DEF QueueNodes, Dequeuing
<1>4. /\ ~Gone(loc[t].head) /\ sh.head = p[1]
      /\ NextOf(loc[t].head) = IF 1 < Len(p) THEN p[1 + 1] ELSE Null
  BY <1>3, LineFacts DEF Gone, NextOf
<1> DEFINE n == NextOf(loc[t].head)
           none == sh.content = <<>>
<1>5. IF n = Null THEN none ELSE Len(p) > 1 /\ n = p[2]
  <2>1. CASE 1 < Len(p)
    <3>1. 1 + 1 \in 1 .. Len(p) BY <1>3, <2>1, LineFacts
    <3>2. p[1 + 1] # Null BY <1>3, <3>1, LineFacts
    <3> QED BY <1>4, <2>1, <3>2
  <2>2. CASE ~(1 < Len(p))
    <3>1. Len(sh.content) = 0 BY <1>3, <2>2, LineFacts
    <3>2. none BY <3>1, LenProperties
    <3> QED BY <1>4, <2>2, <3>2
  <2> QED BY <2>1, <2>2
<1> HIDE DEF n, none
<1>6. /\ loc' = [loc EXCEPT ![t] = With(@, [pc |-> "dCheck", next |-> n, empty |-> none])]
      /\ sh' = [sh EXCEPT !.bad = @ \/ FALSE]
  BY <1>4 DEF Move, Spoilt, n, none
<1>7. ReadOnly BY <1>6 DEF ReadOnly, QueueInv
<1>8. loc'[t] = With(loc[t], [pc |-> "dCheck", next |-> n, empty |-> none]) /\ Others(t) BY <1>6 DEF Others
<1>9. /\ DOMAIN loc'[t] = DOMAIN loc[t] \cup {"pc", "next", "empty"} /\ loc'[t].op = "dequeue"
      /\ loc'[t].pc = "dCheck" /\ loc'[t].tail = loc[t].tail /\ loc'[t].head = loc[t].head
      /\ loc'[t].next = n /\ loc'[t].empty = none
  BY <1>2, <1>8 DEF With
<1>10. QueueLocals(t)' BY <1>2, <1>9 DEF QueueLocals
<1>11. Dequeuing(t, p)' BY <1>2, <1>3, <1>5, <1>7, <1>9 DEF Dequeuing, At, ReadOnly
<1> QED BY <1>1, <1>2, <1>7, <1>8, <1>9, <1>10, <1>11, DequeueReads

\* EMPTY is only returned if the queue was empty.
LEMMA DequeueDecides ==
  ASSUME QueueInv, NEW t \in Threads, DequeueCheck(t)
  PROVE  QueueInv'
<1> USE QueueFacts
<1>1. PICK p : QueueNodes(p) BY DEF QueueInv
<1>2. /\ loc[t].pc = "dCheck" /\ loc[t].op = "dequeue"
      /\ {"op", "pc", "head", "tail", "next", "empty"} \subseteq DOMAIN loc[t]
  BY DequeueThread DEF DequeueCheck, At
<1>3. Dequeuing(t, p) /\ loc[t].head = sh.head BY <1>1, <1>2 DEF QueueNodes, Dequeuing
<1>4. CASE loc[t].head = loc[t].tail /\ loc[t].next = Null
  <2>1. loc[t].empty BY <1>2, <1>3, <1>4 DEF Dequeuing, At
  <2>2. sh' = [sh EXCEPT !.bad = @ \/ FALSE] /\ loc' = [loc EXCEPT ![t] = Idle]
    BY <1>3, <1>4, <2>1 DEF DequeueCheck, Return, Spoilt
  <2>3. ReadOnly BY <2>2 DEF ReadOnly, QueueInv
  <2>4. loc'[t] = Idle /\ Others(t) BY <2>2 DEF Others
  <2>5. DOMAIN loc'[t] = {"op", "pc"} /\ loc'[t].op = "none" /\ loc'[t].pc = "idle" BY <2>4 DEF Idle
  <2>6. QueueLocals(t)' BY <2>5 DEF QueueLocals
  <2>7. Dequeuing(t, p)' BY <2>5 DEF Dequeuing, At
  <2> QED BY <1>1, <1>2, <2>3, <2>4, <2>5, <2>6, <2>7, DequeueReads
<1>5. CASE ~(loc[t].head = loc[t].tail /\ loc[t].next = Null)
  <2>1. PICK l : /\ Move(t, sh, To(l)) /\ l \in {"dHead", "dHelp", "dCopy"}
                 /\ l # "dHead" => loc[t].next # Null
                 /\ l = "dHelp" => loc[t].tail = loc[t].head
                 /\ l = "dCopy" => loc[t].tail # loc[t].head
    BY <1>3, <1>5 DEF DequeueCheck
  <2>2. loc' = [loc EXCEPT ![t] = With(@, To(l))] /\ ReadOnly BY <2>1 DEF ReadOnly, QueueInv, Move
  <2>3. loc'[t] = With(loc[t], To(l)) /\ Others(t) BY <2>2 DEF Others
  <2>4. /\ DOMAIN loc'[t] = DOMAIN loc[t] /\ loc'[t].op = "dequeue" /\ loc'[t].pc = l
        /\ loc'[t].tail = loc[t].tail /\ loc'[t].head = loc[t].head /\ loc'[t].next = loc[t].next
    BY <1>2, <2>3 DEF With, To
  <2>5. QueueLocals(t)' BY <1>2, <2>1, <2>4 DEF QueueLocals
  <2>6. Dequeuing(t, p)' BY <1>2, <1>3, <2>1, <2>2, <2>4 DEF Dequeuing, At, ReadOnly
  <2> QED BY <1>1, <1>2, <2>1, <2>2, <2>3, <2>4, <2>5, <2>6, DequeueReads
<1> QED BY <1>4, <1>5

\* The exchange of the head failed.
LEMMA DequeueAgain ==
  ASSUME QueueInv, NEW t \in Threads, At(t, "dCas"), Move(t, sh, To("dHead"))
  PROVE  QueueInv'
<1> USE QueueFacts
<1>1. PICK p : QueueNodes(p) BY DEF QueueInv
<1>2. loc[t].pc = "dCas" /\ loc[t].op = "dequeue" /\ {"op", "pc", "head", "next", "out"} \subseteq DOMAIN loc[t]
  BY DequeueThread DEF At
<1>3. loc' = [loc EXCEPT ![t] = With(@, To("dHead"))] /\ ReadOnly BY DEF ReadOnly, QueueInv, Move
<1>4. loc'[t] = With(loc[t], To("dHead")) /\ Others(t) BY <1>3 DEF Others
<1>5. DOMAIN loc'[t] = DOMAIN loc[t] /\ loc'[t].op = "dequeue" /\ loc'[t].pc = "dHead"
  BY <1>2, <1>4 DEF With, To
<1>6. QueueLocals(t)' BY <1>2, <1>5 DEF QueueLocals
<1>7. Dequeuing(t, p)' BY <1>5 DEF Dequeuing, At
<1> QED BY <1>1, <1>2, <1>3, <1>4, <1>5, <1>6, <1>7, DequeueReads

LEMMA DequeueCopies ==
  ASSUME QueueInv, NEW t \in Threads, At(t, "dCopy"),
         Move(t, Spoilt(sh, Gone(loc[t].next)),
              [pc |-> "dCas", out |-> IF Gone(loc[t].next) THEN Null ELSE sh.node[loc[t].next].val])
  PROVE  QueueInv'
<1> USE QueueFacts
<1>1. PICK p : QueueNodes(p) BY DEF QueueInv
<1>2. /\ loc[t].pc = "dCopy" /\ loc[t].op = "dequeue"
      /\ {"op", "pc", "head", "tail", "next", "empty"} \subseteq DOMAIN loc[t]
  BY DequeueThread DEF At
<1>3. Dequeuing(t, p) /\ Line(p) /\ Len(p) > 1 /\ loc[t].next = p[2]
  BY <1>1, <1>2 DEF QueueNodes, Dequeuing
<1>4. 2 \in 1 .. Len(p) /\ 1 \in 1 .. Len(sh.content) BY <1>3, LineFacts
<1>5. ~Gone(loc[t].next) BY <1>3, <1>4, LineFacts DEF Gone
<1>6. sh.node[loc[t].next].val = sh.content[1]
  <2>1. sh.node[p[1 + 1]].val = sh.content[1] BY <1>3, <1>4 DEF Line
  <2> QED BY <1>3, <2>1
<1> DEFINE v == sh.content[1]
<1> HIDE DEF v
<1>7. /\ loc' = [loc EXCEPT ![t] = With(@, [pc |-> "dCas", out |-> v])]
      /\ sh' = [sh EXCEPT !.bad = @ \/ FALSE]
  BY <1>5, <1>6 DEF Move, Spoilt, v
<1>8. ReadOnly BY <1>7 DEF ReadOnly, QueueInv
<1>9. loc'[t] = With(loc[t], [pc |-> "dCas", out |-> v]) /\ Others(t) BY <1>7 DEF Others
<1>10. /\ DOMAIN loc'[t] = DOMAIN loc[t] \cup {"pc", "out"} /\ loc'[t].op = "dequeue"
       /\ loc'[t].pc = "dCas" /\ loc'[t].head = loc[t].head /\ loc'[t].next = loc[t].next
       /\ loc'[t].out = v
  BY <1>2, <1>9 DEF With
<1>11. QueueLocals(t)' BY <1>2, <1>10 DEF QueueLocals
<1>12. Dequeuing(t, p)' BY <1>2, <1>3, <1>8, <1>10 DEF Dequeuing, At, ReadOnly, v
<1> QED BY <1>1, <1>2, <1>8, <1>9, <1>10, <1>11, <1>12, DequeueReads

\* A call returns, and a dequeue begins.
LEMMA QueueReturns ==
  ASSUME QueueInv, NEW t \in Threads, Raise(t) \/ Lower(t), IsFiniteSet(Threads)
  PROVE  QueueInv'
<1> USE QueueFacts
<1> DEFINE c == IF At(t, "raise") THEN 1 ELSE -1
<1>1. /\ At(t, "raise") \/ At(t, "lower")
      /\ sh' = [sh EXCEPT !.count = @ + c]
      /\ loc' = [loc EXCEPT ![t] = Idle]
  BY DEF Raise, Lower, Return, At
<1>2. /\ DOMAIN sh' = DOMAIN sh /\ sh'.head = sh.head /\ sh'.tail = sh.tail /\ sh'.node = sh.node
      /\ sh'.content = sh.content /\ sh'.phase = sh.phase /\ ~sh'.bad
      /\ sh'.count = sh.count + c /\ c \in Int
  BY <1>1 DEF QueueInv
<1>3. loc'[t] = Idle /\ Others(t) BY <1>1 DEF Others
<1>4. DOMAIN loc'[t] = {"op", "pc"} /\ loc'[t].op = "none" /\ loc'[t].pc = "idle" BY <1>3 DEF Idle
<1>5. QueueLocals(t)' BY <1>4 DEF QueueLocals
<1>6. /\ t \notin Raising' /\ t \notin Lowering'
      /\ t \in Raising <=> At(t, "raise")
      /\ t \in Lowering <=> ~At(t, "raise")
  BY <1>1, <1>4 DEF Raising, Lowering, At
<1>7. c + (IF t \in Raising' THEN 1 ELSE 0) + (IF t \in Lowering THEN 1 ELSE 0)
        = 0 + (IF t \in Lowering' THEN 1 ELSE 0) + (IF t \in Raising THEN 1 ELSE 0)
  BY <1>6
<1> HIDE DEF c
<1>8. Len(sh'.content) = Len(sh.content) + 0 BY <1>2
<1>9. CountLags' BY <1>2, <1>3, <1>7, <1>8, CountKept, 0 \in Int DEF QueueInv
<1>10. PICK p : QueueNodes(p) BY DEF QueueInv
<1>11. Enqueuing(t, p)' /\ Dequeuing(t, p)' BY <1>4 DEF Enqueuing, Dequeuing, At, Early, Late
<1>12. QueueApart' BY <1>2, <1>3, <1>4, ApartKept DEF QueueInv
<1>13. loc'[t].pc \notin Early /\ loc'[t].pc # "dFree" /\ loc[t].pc \notin Late
  BY <1>1, <1>4 DEF Early, Late, At
<1> QED BY <1>2, <1>3, <1>5, <1>9, <1>10, <1>11, <1>12, <1>13, QueueStill

LEMMA DequeueBegins ==
  ASSUME QueueInv, NEW t \in Threads, cqueue_dequeue(t), kind = "cqueue", "cqueue" \notin Overlap
  PROVE  QueueInv'
<1> USE QueueFacts
<1>1. /\ At(t, "idle") /\ \A o \in Running : {"dequeue", o} \notin Clash
      /\ sh' = [sh EXCEPT !.calls = @ + 1]
      /\ loc' = [loc EXCEPT ![t] = With([op |-> "dequeue"], To("dHead"))]
  BY DEF cqueue_dequeue, Begin
<1>2. ReadOnly BY <1>1 DEF ReadOnly, QueueInv
<1>3. loc'[t] = With([op |-> "dequeue"], To("dHead")) /\ Others(t) BY <1>1 DEF Others
<1>4. DOMAIN loc'[t] = {"op", "pc"} /\ loc'[t].op = "dequeue" /\ loc'[t].pc = "dHead"
  BY <1>3 DEF With, To
<1>5. QueueLocals(t)' BY <1>4 DEF QueueLocals
<1>6. Clash = {{"dequeue"}, IF sh.phase = "batch" THEN {"enqueue", "dequeue"} ELSE {"enqueue"}}
  BY DEF Clash
<1>7. /\ \A u \in Threads : loc[u].op # "dequeue"
      /\ sh.phase = "batch" => \A u \in Threads : loc[u].op # "enqueue"
  <2>1. \A u \in Threads : {"dequeue", loc[u].op} \notin Clash BY <1>1 DEF Running
  <2> QED BY <1>6, <2>1
<1>8. QueueApart' BY <1>2, <1>3, <1>4, <1>7 DEF QueueInv, QueueApart, Others, ReadOnly
<1>9. t \notin Raising /\ t \notin Raising' /\ t \notin Lowering /\ t \notin Lowering'
  BY <1>1, <1>4 DEF Raising, Lowering, At
<1>10. CountLags' BY <1>2, <1>3, <1>9, CountStill DEF QueueInv, ReadOnly
<1>11. PICK p : QueueNodes(p) BY DEF QueueInv
<1>12. Enqueuing(t, p)' /\ Dequeuing(t, p)' BY <1>4 DEF Enqueuing, Dequeuing, At, Early, Late
<1>13. loc'[t].pc \notin Early /\ loc'[t].pc # "dFree" /\ loc[t].pc \notin Late
  BY <1>1, <1>4 DEF Early, Late, At
<1> QED BY <1>2, <1>3, <1>5, <1>8, <1>10, <1>11, <1>12, <1>13, QueueStill DEF ReadOnly

\* The places of threads that are in no call of that kind.
LEMMA OpOfPlace ==
  ASSUME QueueInv, NEW u \in Threads
  PROVE  /\ loc[u].op # "dequeue" => loc[u].pc \notin {"dHead", "dTail", "dNext", "dCheck", "dHelp", "dCopy", "dCas", "dFree", "lower"}
         /\ loc[u].op # "enqueue" => loc[u].pc \notin Early \cup Late
         /\ loc[u].pc \in Early \cup Late => {"op", "pc", "a"} \subseteq DOMAIN loc[u]
         /\ loc[u].pc \in {"eNext", "eCheck", "eLink", "eHelp", "eSwing"} => "tail" \in DOMAIN loc[u]
         /\ loc[u].pc \in {"eCheck", "eLink", "eHelp"} => "next" \in DOMAIN loc[u]
<1>1. QueueLocals(u) BY QueueFacts
<1> QED BY <1>1 DEF QueueLocals, Early, Late

\* What a step of an enqueue that moves the tail does to the others.
LEMMA EnqueueMovesTail ==
  ASSUME QueueInv, NEW p, QueueNodes(p), NEW t \in Threads, loc[t].op = "enqueue", Others(t),
         sh'.head = sh.head, sh'.node = sh.node, sh'.content = sh.content, sh'.phase = sh.phase,
         sh.phase = "pipe" => sh'.tail = p[Len(p)]
  PROVE  TailNear(p)' /\ \A u \in Threads : u # t => Enqueuing(u, p)' /\ Dequeuing(u, p)'
<1> USE QueueFacts
<1>1. TailNear(p)' BY DEF TailNear
<1>2. ASSUME NEW u \in Threads, u # t PROVE Enqueuing(u, p)' /\ Dequeuing(u, p)'
  <2>1. loc'[u] = loc[u] /\ Enqueuing(u, p) /\ Dequeuing(u, p) BY <1>2 DEF Others, QueueNodes
  <2>2. CASE sh.phase = "batch"
    <3>1. loc[u].op # "dequeue" BY <2>2 DEF QueueInv, QueueApart
    <3>2. Dequeuing(u, p)' BY <2>1, <3>1, OpOfPlace DEF Dequeuing, At
    <3>3. Enqueuing(u, p)' BY <2>1, <2>2 DEF Enqueuing, At
    <3> QED BY <3>2, <3>3
  <2>3. CASE sh.phase = "pipe"
    <3>1. loc[u].op # "enqueue" BY <1>2, <2>3 DEF QueueInv, QueueApart
    <3>2. loc[u].pc \notin Early \cup Late BY <3>1, OpOfPlace
    <3>3. Enqueuing(u, p)' BY <2>1, <3>2 DEF Enqueuing, At, Early, Late
    <3>4. sh.tail # sh.head => sh'.tail # sh'.head
      <4> SUFFICES ASSUME sh.tail # sh.head PROVE sh'.tail # sh.head OBVIOUS
      <4>1. Line(p) BY DEF QueueNodes
      <4>2. PICK i \in 1 .. Len(p) : p[i] = sh.tail BY <4>1 DEF Line, On
      <4>3. i # 1 /\ Len(p) # 1 BY <4>1, <4>2, LineFacts
      <4>4. p[Len(p)] # p[1] BY <4>1, <4>3, LineFacts
      <4> QED BY <2>3, <4>1, <4>4, LineFacts
    <3>5. Dequeuing(u, p)' BY <2>1, <3>4 DEF Dequeuing, At
    <3> QED BY <3>3, <3>5
  <2> QED BY <2>2, <2>3
<1> QED BY <1>1, <1>2

LEMMA EnqueueHelps ==
  ASSUME QueueInv, NEW t \in Threads, At(t, "eHelp"), NEW s \in Swung(loc[t].tail, loc[t].next),
         Move(t, s, To("eTail"))
  PROVE  QueueInv'
<1> USE QueueFacts
<1>1. PICK p : QueueNodes(p) BY DEF QueueInv
<1>2. loc[t].pc = "eHelp" /\ loc[t].op = "enqueue" /\ {"op", "pc", "a", "tail", "next"} \subseteq DOMAIN loc[t]
  BY OpOfPlace DEF At, Early
<1>3. Enqueuing(t, p) /\ Line(p) BY <1>1 DEF QueueNodes
<1>4. On(p, loc[t].next) /\ sh.phase # "pipe" /\ sh.node[loc[t].a].next = Null
  BY <1>2, <1>3 DEF Enqueuing, At, Early
<1>5. loc' = [loc EXCEPT ![t] = With(@, To("eTail"))] /\ sh' = s BY DEF Move
<1>6. /\ DOMAIN sh' = DOMAIN sh /\ sh'.head = sh.head /\ sh'.node = sh.node /\ sh'.content = sh.content
      /\ sh'.phase = sh.phase /\ sh'.count = sh.count /\ ~sh'.bad /\ sh'.tail \in {sh.tail, loc[t].next}
  BY <1>5 DEF Swung, QueueInv
<1>7. loc'[t] = With(loc[t], To("eTail")) /\ Others(t) BY <1>5 DEF Others
<1>8. DOMAIN loc'[t] = DOMAIN loc[t] /\ loc'[t].op = "enqueue" /\ loc'[t].pc = "eTail" /\ loc'[t].a = loc[t].a
  BY <1>2, <1>7 DEF With, To
<1>9. On(p, sh'.tail) BY <1>3, <1>4, <1>6, LineFacts
<1>10. TailNear(p)' /\ \A u \in Threads : u # t => Enqueuing(u, p)' /\ Dequeuing(u, p)'
  BY <1>1, <1>2, <1>4, <1>6, <1>7, EnqueueMovesTail
<1>11. Enqueuing(t, p)' /\ Dequeuing(t, p)'
  BY <1>4, <1>6, <1>8 DEF Enqueuing, Dequeuing, At, Early, Late
<1>12. QueueLocals(t)' BY <1>2, <1>8 DEF QueueLocals, Early
<1>13. QueueApart' BY <1>2, <1>6, <1>7, <1>8, ApartKept DEF QueueInv
<1>14. t \notin Raising /\ t \notin Raising' /\ t \notin Lowering /\ t \notin Lowering'
  BY <1>2, <1>8 DEF Raising, Lowering
<1>15. CountLags' BY <1>6, <1>7, <1>14, CountStill DEF QueueInv
<1>16. /\ loc'[t].pc \in Early => loc[t].pc \in Early /\ loc'[t].a = loc[t].a
       /\ loc'[t].pc # "dFree"
  BY <1>2, <1>8 DEF Early
<1> QED BY <1>1, <1>6, <1>7, <1>9, <1>10, <1>11, <1>12, <1>13, <1>15, <1>16, QueueFrame

LEMMA EnqueueSwings ==
  ASSUME QueueInv, NEW t \in Threads, At(t, "eSwing"), NEW s \in Swung(loc[t].tail, loc[t].a), ~sh'.slipped,
         Move(t, Slips(s, sh.tail = loc[t].tail /\ s.tail # loc[t].a), To("raise"))
  PROVE  QueueInv'
<1> USE QueueFacts
<1>1. PICK p : QueueNodes(p) BY DEF QueueInv
<1>2. loc[t].pc = "eSwing" /\ loc[t].op = "enqueue" /\ {"op", "pc", "a", "tail"} \subseteq DOMAIN loc[t]
  BY OpOfPlace DEF At, Late
<1>3. Enqueuing(t, p) /\ Line(p) BY <1>1 DEF QueueNodes
<1>4. /\ On(p, loc[t].a)
      /\ sh.phase = "pipe" => loc[t].a = p[Len(p)] /\ (loc[t].tail = sh.tail \/ sh.tail = p[Len(p)])
  BY <1>2, <1>3 DEF Enqueuing, At, Late
<1>5. /\ loc' = [loc EXCEPT ![t] = With(@, To("raise"))]
      /\ sh' = Slips(s, sh.tail = loc[t].tail /\ s.tail # loc[t].a)
  BY DEF Move
<1>6. /\ DOMAIN sh' = DOMAIN sh /\ sh'.head = sh.head /\ sh'.node = sh.node /\ sh'.content = sh.content
      /\ sh'.phase = sh.phase /\ sh'.count = sh.count /\ ~sh'.bad
      /\ sh'.tail \in {sh.tail, loc[t].a}
      /\ sh.phase = "pipe" /\ sh.tail = loc[t].tail => sh'.tail = loc[t].a
  BY <1>5 DEF Swung, Slips, QueueInv
<1>7. loc'[t] = With(loc[t], To("raise")) /\ Others(t) BY <1>5 DEF Others
<1>8. DOMAIN loc'[t] = DOMAIN loc[t] /\ loc'[t].op = "enqueue" /\ loc'[t].pc = "raise"
  BY <1>2, <1>7 DEF With, To
<1>9. On(p, sh'.tail) BY <1>3, <1>4, <1>6, LineFacts
<1>10. sh.phase = "pipe" => sh'.tail = p[Len(p)] BY <1>4, <1>6
<1>11. TailNear(p)' /\ \A u \in Threads : u # t => Enqueuing(u, p)' /\ Dequeuing(u, p)'
  BY <1>1, <1>2, <1>6, <1>7, <1>10, EnqueueMovesTail
<1>12. Enqueuing(t, p)' /\ Dequeuing(t, p)'
  BY <1>8 DEF Enqueuing, Dequeuing, At, Early, Late
<1>13. QueueLocals(t)' BY <1>2, <1>8 DEF QueueLocals
<1>14. QueueApart' BY <1>2, <1>6, <1>7, <1>8, ApartKept DEF QueueInv
<1>15. t \in Raising /\ t \in Raising' /\ t \notin Lowering /\ t \notin Lowering'
  BY <1>2, <1>8 DEF Raising, Lowering
<1>16. CountLags' BY <1>6, <1>7, <1>15, CountStill DEF QueueInv
<1>17. loc'[t].pc \notin Early /\ loc'[t].pc # "dFree" BY <1>8 DEF Early
<1> QED BY <1>1, <1>6, <1>7, <1>9, <1>11, <1>12, <1>13, <1>14, <1>16, <1>17, QueueFrame

LEMMA DequeueHelps ==
  ASSUME QueueInv, NEW t \in Threads, At(t, "dHelp"), NEW s \in Swung(loc[t].tail, loc[t].next),
         Move(t, s, To("dHead"))
  PROVE  QueueInv'
<1> USE QueueFacts
<1>1. PICK p : QueueNodes(p) BY DEF QueueInv
<1>2. /\ loc[t].pc = "dHelp" /\ loc[t].op = "dequeue"
      /\ {"op", "pc", "head", "tail", "next", "empty"} \subseteq DOMAIN loc[t]
      /\ \A u \in Threads : u # t => loc[u].op # "dequeue"
      /\ sh.phase = "batch" => \A u \in Threads : loc[u].op # "enqueue"
  BY DequeueThread DEF At
<1>3. Dequeuing(t, p) /\ Line(p) BY <1>1 DEF QueueNodes
<1>4. loc[t].tail = sh.head /\ Len(p) > 1 /\ loc[t].next = p[2] BY <1>2, <1>3 DEF Dequeuing, At
<1>5. loc' = [loc EXCEPT ![t] = With(@, To("dHead"))] /\ sh' = s BY DEF Move
<1>6. /\ DOMAIN sh' = DOMAIN sh /\ sh'.head = sh.head /\ sh'.node = sh.node /\ sh'.content = sh.content
      /\ sh'.phase = sh.phase /\ sh'.count = sh.count /\ ~sh'.bad
      /\ sh'.tail = sh.tail \/ (sh.tail = p[1] /\ sh'.tail = p[2])
  <2>1. sh.head = p[1] BY <1>3, LineFacts
  <2>2. s = sh \/ (sh.tail = p[1] /\ s = [sh EXCEPT !.tail = p[2]]) BY <1>4, <2>1 DEF Swung
  <2> QED BY <1>5, <2>2 DEF QueueInv
<1>7. loc'[t] = With(loc[t], To("dHead")) /\ Others(t) BY <1>5 DEF Others
<1>8. DOMAIN loc'[t] = DOMAIN loc[t] /\ loc'[t].op = "dequeue" /\ loc'[t].pc = "dHead"
  BY <1>2, <1>7 DEF With, To
<1>9. On(p, sh'.tail)
  <2>1. 2 \in 1 .. Len(p) BY <1>3, <1>4, LineFacts
  <2>2. On(p, p[2]) BY <2>1 DEF On
  <2> QED BY <1>3, <1>6, <2>2, LineFacts
<1>10. sh.phase = "pipe" /\ sh.tail = p[1] => p[2] = p[Len(p)] /\ \E u \in Threads : loc[u].pc \in Late
  <2> SUFFICES ASSUME sh.phase = "pipe", sh.tail = p[1]
               PROVE  p[2] = p[Len(p)] /\ \E u \in Threads : loc[u].pc \in Late
    OBVIOUS
  <2>1. p[1] # p[Len(p)] BY <1>3, <1>4, LineFacts
  <2>2. p[1] = p[Len(p) - 1] /\ \E u \in Threads : loc[u].pc \in Late
    BY <1>1, <2>1 DEF QueueNodes, TailNear
  <2>3. Len(p) - 1 \in 1 .. Len(p) BY <1>3, <1>4, LineFacts
  <2>4. Len(p) - 1 = 1 BY <1>3, <2>2, <2>3, LineFacts
  <2>5. Len(p) = 2 BY <1>3, <2>4, LineFacts
  <2> QED BY <2>2, <2>5
<1>11. TailNear(p)'
  <2>1. (\E u \in Threads : loc[u].pc \in Late) => \E u \in Threads : loc'[u].pc \in Late
    BY <1>2, <1>7 DEF Others, Late
  <2>2. TailNear(p) BY <1>1 DEF QueueNodes
  <2> QED BY <1>6, <1>10, <2>1, <2>2 DEF TailNear
<1>12. ASSUME NEW u \in Threads PROVE Enqueuing(u, p)' /\ Dequeuing(u, p)'
  <2>1. CASE u = t BY <1>8, <2>1 DEF Enqueuing, Dequeuing, At, Early, Late
  <2>2. CASE u # t
    <3>1. loc'[u] = loc[u] /\ Enqueuing(u, p) BY <1>1, <1>7, <2>2 DEF Others, QueueNodes
    <3>2. Dequeuing(u, p)' BY <1>2, <2>2, <3>1, OpOfPlace DEF Dequeuing, At
    <3>3. CASE sh.phase = "batch"
      <4>1. loc[u].pc \notin Early \cup Late BY <1>2, <3>3, OpOfPlace
      <4> QED BY <3>1, <3>2, <4>1 DEF Enqueuing, At, Early, Late
    <3>4. CASE sh.phase = "pipe"
      <4>1. loc[u].pc \in Early => sh'.tail = sh.tail
        <5> SUFFICES ASSUME loc[u].pc \in Early, sh.tail = p[1] PROVE FALSE BY <1>6
        <5>1. PICK w \in Threads : loc[w].pc \in Late BY <1>10, <3>4
        <5>2. loc[u].op = "enqueue" /\ loc[w].op = "enqueue" BY <5>1, OpOfPlace
        <5>3. w = u BY <3>4, <5>2 DEF QueueInv, QueueApart
        <5> QED BY <5>1, <5>3 DEF Early, Late
      <4>2. sh'.tail = sh.tail \/ sh'.tail = p[Len(p)] BY <1>6, <1>10, <3>4
      <4>3. Enqueuing(u, p)'
        <5>1. CASE loc[u].pc \in Early BY <1>6, <3>1, <4>1, <5>1 DEF Enqueuing, At, Early, Late
        <5>2. CASE loc[u].pc \notin Early BY <1>6, <3>1, <4>2, <5>2 DEF Enqueuing, At, Early, Late
        <5> QED BY <5>1, <5>2
      <4> QED BY <3>2, <4>3
    <3> QED BY <3>3, <3>4
  <2> QED BY <2>1, <2>2
<1>13. QueueLocals(t)' BY <1>2, <1>8 DEF QueueLocals
<1>14. QueueApart' BY <1>2, <1>6, <1>7, <1>8, ApartKept DEF QueueInv
<1>15. t \notin Raising /\ t \notin Raising' /\ t \notin Lowering /\ t \notin Lowering'
  BY <1>2, <1>8 DEF Raising, Lowering
<1>16. CountLags' BY <1>6, <1>7, <1>15, CountStill DEF QueueInv
<1>17. loc'[t].pc \notin Early /\ loc'[t].pc # "dFree" BY <1>8 DEF Early
<1> QED BY <1>1, <1>6, <1>7, <1>9, <1>11, <1>12, <1>13, <1>14, <1>16, <1>17, QueueFrame

LEMMA LineStill ==
  ASSUME NEW p, Line(p), sh'.head = sh.head, sh'.tail = sh.tail, sh'.content = sh.content,
         Len(sh.content) \in Nat,
         \A i \in 1 .. Len(p) : sh'.node[p[i]] = sh.node[p[i]] /\ p[i] \in DOMAIN sh'.node
  PROVE  Line(p)'
<1>1. Linear(p)' BY DEF Line, Linear
<1>2. \A i \in 1 .. Len(sh.content) : i + 1 \in 1 .. Len(p) BY LineFacts
<1>3. \A i \in 1 .. Len(sh.content) : sh'.node[p[i + 1]].val = sh.content[i] BY <1>2 DEF Line
<1> QED BY <1>1, <1>3 DEF Line

LEMMA EnqueueBegins ==
  ASSUME QueueInv, NEW t \in Threads, NEW v \in Values, cqueue_enqueue(t, v), kind = "cqueue",
         "cqueue" \notin Overlap
  PROVE  QueueInv'
<1> USE QueueFacts
<1> DEFINE fresh == [val |-> v, next |-> Null]
<1>1. PICK a \in Addr \ DOMAIN sh.node :
        Begin(t, "enqueue", [sh EXCEPT !.node = With(@, [x \in {a} |-> fresh])], With(To("eTail"), [a |-> a]))
  BY DEF cqueue_enqueue, Alloc
<1>2. /\ At(t, "idle") /\ \A o \in Running : {"enqueue", o} \notin Clash
      /\ sh' = [[sh EXCEPT !.node = With(@, [x \in {a} |-> fresh])] EXCEPT !.calls = @ + 1]
      /\ loc' = [loc EXCEPT ![t] = With([op |-> "enqueue"], With(To("eTail"), [a |-> a]))]
  BY <1>1 DEF Begin
<1>3. /\ DOMAIN sh' = DOMAIN sh /\ sh'.head = sh.head /\ sh'.tail = sh.tail /\ sh'.content = sh.content
      /\ sh'.phase = sh.phase /\ ~sh'.bad /\ sh'.count = sh.count
      /\ sh'.node = With(sh.node, [x \in {a} |-> fresh])
  BY <1>2 DEF QueueInv
<1>4. /\ DOMAIN sh'.node = DOMAIN sh.node \cup {a} /\ sh'.node[a] = fresh
      /\ \A b \in DOMAIN sh.node : sh'.node[b] = sh.node[b]
  BY <1>1, <1>3 DEF With
<1>5. loc'[t] = With([op |-> "enqueue"], With(To("eTail"), [a |-> a])) /\ Others(t) BY <1>2 DEF Others
<1>6. DOMAIN loc'[t] = {"op", "pc", "a"} /\ loc'[t].op = "enqueue" /\ loc'[t].pc = "eTail" /\ loc'[t].a = a
  BY <1>5 DEF With, To
<1>7. DOMAIN fresh = {"val", "next"} /\ fresh.val \in Values /\ fresh.next = Null OBVIOUS
<1> HIDE DEF fresh
<1>8. PICK p : QueueNodes(p) BY DEF QueueInv
<1>9. Line(p) /\ NodesHeld(p) /\ TailNear(p) /\ \A u \in Threads : Enqueuing(u, p) /\ Dequeuing(u, p)
  BY <1>8 DEF QueueNodes
<1>10. \A u \in Threads : u # t => (Holds(u)' <=> Holds(u)) /\ Held(u)' = Held(u)
  BY <1>5 DEF Holds, Held, At, Others
<1>11. Holds(t)' /\ Held(t)' = a BY <1>6 DEF Holds, Held, At, Early
<1>12. \A u \in Threads : loc[u].pc \in Early => loc[u].a \in DOMAIN sh.node
  BY <1>9 DEF NodesHeld, Holds, Held, At, Early
<1>13. QueueTypes'
  <2>1. QueueLocals(t)' BY <1>6 DEF QueueLocals, Early
  <2>2. \A u \in Threads : QueueLocals(u)' BY <1>5, <2>1 DEF QueueLocals, Others
  <2>3. /\ DOMAIN sh'.node \subseteq Addr
        /\ \A b \in DOMAIN sh'.node : DOMAIN sh'.node[b] = {"val", "next"}
    BY <1>1, <1>4, <1>7
  <2>4. ASSUME NEW u \in Threads, loc'[u].pc \in Early PROVE sh'.node[loc'[u].a].val \in Values
    <3>1. CASE u = t BY <1>4, <1>6, <1>7, <3>1
    <3>2. CASE u # t
      <4>1. loc'[u] = loc[u] BY <1>5, <3>2 DEF Others
      <4>2. loc[u].a \in DOMAIN sh.node /\ sh.node[loc[u].a].val \in Values
        BY <1>12, <2>4, <4>1 DEF QueueInv, QueueTypes
      <4> QED BY <1>4, <4>1, <4>2
    <3> QED BY <3>1, <3>2
  <2> QED BY <1>3, <1>5, <2>2, <2>3, <2>4 DEF QueueTypes, Others
<1>14. QueueApart'
  <2>1. Clash = {{"dequeue"}, IF sh.phase = "batch" THEN {"enqueue", "dequeue"} ELSE {"enqueue"}}
    BY DEF Clash
  <2>2. \A u \in Threads : {"enqueue", loc[u].op} \notin Clash BY <1>2 DEF Running
  <2>3. \A u \in Threads : IF sh.phase = "batch" THEN loc[u].op # "dequeue" ELSE loc[u].op # "enqueue"
    BY <2>1, <2>2
  <2> QED BY <1>3, <1>5, <1>6, <2>3 DEF QueueInv, QueueApart, Others
<1>15. Line(p)'
  <2>1. \A i \in 1 .. Len(p) : sh'.node[p[i]] = sh.node[p[i]] /\ p[i] \in DOMAIN sh'.node
    BY <1>4, <1>9, LineFacts
  <2> QED BY <1>3, <1>9, <2>1, LineStill
<1>16. NodesHeld(p)'
  <2>1. ~On(p, a) BY <1>1, <1>9, LineFacts DEF On
  <2>2. \A u \in Threads : Holds(u)' => Held(u)' \in DOMAIN sh'.node /\ ~On(p, Held(u)')
    BY <1>4, <1>9, <1>10, <1>11, <2>1 DEF NodesHeld
  <2>3. \A u \in Threads : Holds(u) => Held(u) # a BY <1>1, <1>9 DEF NodesHeld
  <2>4. \A u, w \in Threads : u # w /\ Holds(u)' /\ Holds(w)' => Held(u)' # Held(w)'
    BY <1>9, <1>10, <1>11, <2>3 DEF NodesHeld
  <2> QED BY <2>2, <2>4 DEF NodesHeld
<1>17. TailNear(p)'
  <2>1. (\E u \in Threads : loc[u].pc \in Late) => \E u \in Threads : loc'[u].pc \in Late
    BY <1>2, <1>5 DEF Others, Late, At
  <2> QED BY <1>3, <1>9, <2>1 DEF TailNear
<1>18. ASSUME NEW u \in Threads PROVE Enqueuing(u, p)' /\ Dequeuing(u, p)'
  <2>1. CASE u = t
    <3>1. sh'.node[a].next = Null BY <1>4, <1>7
    <3> QED BY <1>6, <2>1, <3>1 DEF Enqueuing, Dequeuing, At, Early, Late
  <2>2. CASE u # t
    <3>1. loc'[u] = loc[u] /\ Enqueuing(u, p) /\ Dequeuing(u, p) BY <1>5, <1>9, <2>2 DEF Others
    <3>2. loc[u].pc \in Early => sh'.node[loc[u].a] = sh.node[loc[u].a] BY <1>4, <1>12
    <3>3. Enqueuing(u, p)' BY <1>3, <3>1, <3>2 DEF Enqueuing, At
    <3>4. Dequeuing(u, p)' BY <1>3, <3>1 DEF Dequeuing, At
    <3> QED BY <3>3, <3>4
  <2> QED BY <2>1, <2>2
<1>19. QueueNodes(p)' BY <1>15, <1>16, <1>17, <1>18 DEF QueueNodes
<1>20. t \notin Raising /\ t \notin Raising' /\ t \notin Lowering /\ t \notin Lowering'
  BY <1>2, <1>6 DEF Raising, Lowering, At
<1>21. CountLags' BY <1>3, <1>5, <1>20, CountStill DEF QueueInv
<1> QED BY <1>3, <1>13, <1>14, <1>19, <1>21 DEF QueueInv

\* The old dummy is freed: it is nobody's but the thread's that took it off.
LEMMA DequeueFrees ==
  ASSUME QueueInv, NEW t \in Threads, At(t, "dFree"), Move(t, Freed(sh, loc[t].head), To("lower"))
  PROVE  QueueInv'
<1> USE QueueFacts
<1>1. PICK p : QueueNodes(p) BY DEF QueueInv
<1>2. Line(p) /\ NodesHeld(p) /\ TailNear(p) /\ \A u \in Threads : Enqueuing(u, p) /\ Dequeuing(u, p)
  BY <1>1 DEF QueueNodes
<1>3. PICK a : a = loc[t].head OBVIOUS
<1>4. loc[t].pc = "dFree" /\ loc[t].op = "dequeue" /\ {"op", "pc", "head"} \subseteq DOMAIN loc[t]
  BY DequeueThread DEF At
<1>5. Holds(t) /\ Held(t) = a BY <1>3, <1>4 DEF Holds, Held, At
<1>6. ~On(p, a) /\ \A u \in Threads : u # t /\ Holds(u) => Held(u) # a BY <1>2, <1>5 DEF NodesHeld
<1>7. sh' = Freed(sh, a) /\ loc' = [loc EXCEPT ![t] = With(@, To("lower"))] BY <1>3 DEF Move
<1>8. /\ DOMAIN sh' = DOMAIN sh /\ sh'.head = sh.head /\ sh'.tail = sh.tail /\ sh'.content = sh.content
      /\ sh'.phase = sh.phase /\ ~sh'.bad /\ sh'.count = sh.count
      /\ sh'.node = Restrict(sh.node, DOMAIN sh.node \ {a})
  BY <1>7 DEF Freed, QueueInv
<1>9. /\ DOMAIN sh'.node = DOMAIN sh.node \ {a}
      /\ \A b \in DOMAIN sh.node : b # a => sh'.node[b] = sh.node[b]
  BY <1>8 DEF Restrict
<1>10. loc'[t] = With(loc[t], To("lower")) /\ Others(t) BY <1>7 DEF Others
<1>11. DOMAIN loc'[t] = DOMAIN loc[t] /\ loc'[t].op = "dequeue" /\ loc'[t].pc = "lower"
  BY <1>4, <1>10 DEF With, To
<1>12. \A u \in Threads : u # t => (Holds(u)' <=> Holds(u)) /\ Held(u)' = Held(u)
  BY <1>10 DEF Holds, Held, At, Others
<1>13. ~Holds(t)' BY <1>11 DEF Holds, Early
<1>14. \A u \in Threads : loc[u].pc \in Early => loc[u].a \in DOMAIN sh.node /\ loc[u].a # a /\ u # t
  BY <1>2, <1>4, <1>6 DEF NodesHeld, Holds, Held, At, Early
<1>15. QueueTypes'
  <2>1. QueueLocals(t)' BY <1>4, <1>11 DEF QueueLocals
  <2>2. \A u \in Threads : QueueLocals(u)' BY <1>10, <2>1 DEF QueueLocals, Others
  <2>3. /\ DOMAIN sh'.node \subseteq Addr
        /\ \A b \in DOMAIN sh'.node : DOMAIN sh'.node[b] = {"val", "next"}
    BY <1>9
  <2>4. ASSUME NEW u \in Threads, loc'[u].pc \in Early PROVE sh'.node[loc'[u].a].val \in Values
    <3>1. u # t BY <1>11, <2>4 DEF Early
    <3>2. loc'[u] = loc[u] BY <1>10, <3>1 DEF Others
    <3>3. sh.node[loc[u].a].val \in Values BY <2>4, <3>2 DEF QueueInv, QueueTypes
    <3> QED BY <1>9, <1>14, <2>4, <3>2, <3>3
  <2> QED BY <1>8, <1>10, <2>2, <2>3, <2>4 DEF QueueTypes, Others
<1>16. Line(p)'
  <2>1. \A i \in 1 .. Len(p) : sh'.node[p[i]] = sh.node[p[i]] /\ p[i] \in DOMAIN sh'.node
    BY <1>2, <1>6, <1>9, LineFacts DEF On
  <2> QED BY <1>2, <1>8, <2>1, LineStill
<1>17. NodesHeld(p)' BY <1>2, <1>6, <1>9, <1>12, <1>13 DEF NodesHeld
<1>18. TailNear(p)'
  <2>1. (\E u \in Threads : loc[u].pc \in Late) => \E u \in Threads : loc'[u].pc \in Late
    BY <1>4, <1>10 DEF Others, Late
  <2> QED BY <1>2, <1>8, <2>1 DEF TailNear
<1>19. ASSUME NEW u \in Threads PROVE Enqueuing(u, p)' /\ Dequeuing(u, p)'
  <2>1. CASE u = t BY <1>11, <2>1 DEF Enqueuing, Dequeuing, At, Early, Late
  <2>2. CASE u # t
    <3>1. loc'[u] = loc[u] /\ Enqueuing(u, p) /\ Dequeuing(u, p) BY <1>2, <1>10, <2>2 DEF Others
    <3>2. loc[u].pc \in Early => sh'.node[loc[u].a] = sh.node[loc[u].a] BY <1>9, <1>14
    <3>3. Enqueuing(u, p)' BY <1>8, <3>1, <3>2 DEF Enqueuing, At
    <3>4. Dequeuing(u, p)' BY <1>8, <3>1 DEF Dequeuing, At
    <3> QED BY <3>3, <3>4
  <2> QED BY <2>1, <2>2
<1>20. QueueNodes(p)' BY <1>16, <1>17, <1>18, <1>19 DEF QueueNodes
<1>21. QueueApart' BY <1>4, <1>8, <1>10, <1>11, ApartKept DEF QueueInv
<1>22. t \notin Raising /\ t \notin Raising' /\ t \in Lowering /\ t \in Lowering'
  BY <1>4, <1>11 DEF Raising, Lowering
<1>23. CountLags' BY <1>8, <1>10, <1>22, CountStill DEF QueueInv
<1> QED BY <1>8, <1>15, <1>20, <1>21, <1>23 DEF QueueInv

LEMMA Snoc ==
  ASSUME NEW S, NEW s \in Seq(S), NEW x \in S
  PROVE  /\ Append(s, x) \in Seq(S) /\ Len(s) \in Nat /\ Len(Append(s, x)) = Len(s) + 1
         /\ Append(s, x)[Len(s) + 1] = x
         /\ \A i \in 1 .. Len(s) : Append(s, x)[i] = s[i]
<1>1. Len(s) \in Nat BY LenProperties
<1> QED BY <1>1, AppendProperties

\* The node is linked behind the last one.
LEMMA EnqueueLinks ==
  ASSUME QueueInv, NEW t \in Threads, At(t, "eLink"), IsFiniteSet(Threads), Null \notin Addr,
         NextOf(loc[t].tail) = Null,
         Move(t, [sh EXCEPT !.node[loc[t].tail].next = loc[t].a,
                            !.content = Append(@, sh.node[loc[t].a].val)], To("eOld"))
  PROVE  QueueInv'
<1> USE QueueFacts
<1>1. PICK p : QueueNodes(p) BY DEF QueueInv
<1>2. Line(p) /\ NodesHeld(p) /\ TailNear(p) /\ \A u \in Threads : Enqueuing(u, p) /\ Dequeuing(u, p)
  BY <1>1 DEF QueueNodes
<1>3. PICK a : a = loc[t].a OBVIOUS
<1>4. PICK z : z = loc[t].tail OBVIOUS
<1>5. loc[t].pc = "eLink" /\ loc[t].op = "enqueue" /\ {"op", "pc", "a", "tail", "next"} \subseteq DOMAIN loc[t]
  BY OpOfPlace DEF At, Early
<1>6. /\ Holds(t) /\ Held(t) = a /\ a \in DOMAIN sh.node /\ ~On(p, a) /\ sh.node[a].next = Null
      /\ On(p, z) /\ (sh.phase = "pipe" => z = sh.tail)
      /\ \A u \in Threads : u # t /\ Holds(u) => Held(u) # a
  BY <1>2, <1>3, <1>4, <1>5 DEF Holds, Held, At, Early, NodesHeld, Enqueuing
<1>7. PICK val : val = sh.node[a].val OBVIOUS
<1>8. val \in Values BY <1>3, <1>5, <1>7 DEF QueueInv, QueueTypes, Early
<1>9. z = p[Len(p)] /\ z \in DOMAIN sh.node
  <2>1. PICK i \in 1 .. Len(p) : p[i] = z BY <1>6 DEF On
  <2>2. z \in DOMAIN sh.node /\ sh.node[z].next = IF i < Len(p) THEN p[i + 1] ELSE Null
    BY <1>2, <2>1, LineFacts
  <2>3. ~(i < Len(p))
    <3> SUFFICES ASSUME i < Len(p) PROVE FALSE OBVIOUS
    <3>1. i + 1 \in 1 .. Len(p) BY <1>2, LineFacts
    <3>2. p[i + 1] # Null BY <1>2, <3>1, LineFacts
    <3> QED BY <1>4, <2>2, <3>2 DEF NextOf
  <2> QED BY <1>2, <2>1, <2>2, <2>3, LineFacts
<1> DEFINE more == Append(sh.content, val)
<1>10. /\ sh' = [sh EXCEPT !.node[z].next = a, !.content = more]
       /\ loc' = [loc EXCEPT ![t] = With(@, To("eOld"))]
  BY <1>3, <1>4, <1>7 DEF Move
<1>11. /\ more \in Seq(Values) /\ Len(more) = Len(sh.content) + 1 /\ more[Len(sh.content) + 1] = val
       /\ \A i \in 1 .. Len(sh.content) : more[i] = sh.content[i]
  BY <1>8, Snoc
<1> HIDE DEF more
<1>12. /\ DOMAIN sh' = DOMAIN sh /\ sh'.head = sh.head /\ sh'.tail = sh.tail /\ sh'.content = more
       /\ sh'.phase = sh.phase /\ ~sh'.bad /\ sh'.count = sh.count
       /\ sh'.node = [sh.node EXCEPT ![z].next = a]
  BY <1>10 DEF QueueInv
<1>13. /\ DOMAIN sh'.node = DOMAIN sh.node /\ \A b \in DOMAIN sh.node : b # z => sh'.node[b] = sh.node[b]
       /\ sh'.node[z] = [sh.node[z] EXCEPT !.next = a]
  BY <1>9, <1>12
<1>14. DOMAIN sh'.node[z] = {"val", "next"} /\ sh'.node[z].val = sh.node[z].val /\ sh'.node[z].next = a
  <2>1. DOMAIN sh.node[z] = {"val", "next"} BY <1>9
  <2> QED BY <1>13, <2>1
<1>15. loc'[t] = With(loc[t], To("eOld")) /\ Others(t) BY <1>10 DEF Others
<1>16. DOMAIN loc'[t] = DOMAIN loc[t] /\ loc'[t].op = "enqueue" /\ loc'[t].pc = "eOld" /\ loc'[t].a = a
  BY <1>3, <1>5, <1>15 DEF With, To
<1>17. \A u \in Threads : u # t => (Holds(u)' <=> Holds(u)) /\ Held(u)' = Held(u)
  BY <1>15 DEF Holds, Held, At, Others
<1>18. ~Holds(t)' BY <1>16 DEF Holds, Early
<1>19. \A u \in Threads : loc[u].pc \in Early => loc[u].a \in DOMAIN sh.node /\ loc[u].a # z
  <2>1. \A u \in Threads : loc[u].pc \in Early => loc[u].a \in DOMAIN sh.node /\ ~On(p, loc[u].a)
    BY <1>2 DEF NodesHeld, Holds, Held, At, Early
  <2> QED BY <1>6, <2>1
<1>20. QueueTypes'
  <2>1. QueueLocals(t)' BY <1>5, <1>16 DEF QueueLocals, Late
  <2>2. \A u \in Threads : QueueLocals(u)' BY <1>15, <2>1 DEF QueueLocals, Others
  <2>3. /\ DOMAIN sh'.node \subseteq Addr
        /\ \A b \in DOMAIN sh'.node : DOMAIN sh'.node[b] = {"val", "next"}
    BY <1>13, <1>14
  <2>4. ASSUME NEW u \in Threads, loc'[u].pc \in Early PROVE sh'.node[loc'[u].a].val \in Values
    <3>1. u # t BY <1>16, <2>4 DEF Early
    <3>2. loc'[u] = loc[u] BY <1>15, <3>1 DEF Others
    <3>3. sh.node[loc[u].a].val \in Values BY <2>4, <3>2 DEF QueueInv, QueueTypes
    <3> QED BY <1>13, <1>19, <2>4, <3>2, <3>3
  <2> QED BY <1>11, <1>12, <1>15, <2>2, <2>3, <2>4 DEF QueueTypes, Others
<1>21. PICK q : /\ q \in Seq(Addr) /\ Len(q) = Len(p) + 1 /\ q[Len(p) + 1] = a
                /\ \A i \in 1 .. Len(p) : q[i] = p[i]
  <2>1. p \in Seq(Addr) /\ a \in Addr BY <1>2, <1>6, LineFacts
  <2> WITNESS Append(p, a)
  <2> QED BY <2>1, Snoc
<1>22. /\ Len(p) \in Nat /\ Len(p) >= 1 /\ Len(q) \in 1 .. Len(q)
       /\ \A i \in 1 .. Len(q) : i \in 1 .. Len(p) \/ i = Len(p) + 1
       /\ \A i \in 1 .. Len(p) : i \in 1 .. Len(q)
  BY <1>2, <1>21, LineFacts
<1>23. /\ \A x : On(p, x) => On(q, x)
       /\ On(q, a)
       /\ \A x : On(q, x) => On(p, x) \/ x = a
  BY <1>21, <1>22 DEF On
<1>24. Line(q)'
  <2>1. \A i, j \in 1 .. Len(q) : q[i] = q[j] => i = j
    <3> SUFFICES ASSUME NEW i \in 1 .. Len(q), NEW j \in 1 .. Len(q), q[i] = q[j] PROVE i = j OBVIOUS
    <3>1. CASE i \in 1 .. Len(p) /\ j \in 1 .. Len(p) BY <1>2, <1>21, <3>1, LineFacts
    <3>2. CASE i = Len(p) + 1 /\ j = Len(p) + 1 BY <3>2
    <3>3. CASE i \in 1 .. Len(p) /\ j = Len(p) + 1 BY <1>6, <1>21, <3>3 DEF On
    <3>4. CASE i = Len(p) + 1 /\ j \in 1 .. Len(p) BY <1>6, <1>21, <3>4 DEF On
    <3> QED BY <1>22, <3>1, <3>2, <3>3, <3>4
  <2>2. ASSUME NEW i \in 1 .. Len(q)
        PROVE q[i] \in DOMAIN sh'.node /\ sh'.node[q[i]].next = IF i < Len(q) THEN q[i + 1] ELSE Null
    <3>1. CASE i = Len(p) + 1
      <4>1. a # z BY <1>6
      <4> QED BY <1>6, <1>13, <1>21, <1>22, <3>1, <4>1
    <3>2. CASE i = Len(p)
      <4>1. i \in 1 .. Len(p) /\ i < Len(q) BY <1>21, <1>22, <3>2
      <4> QED BY <1>9, <1>13, <1>14, <1>21, <3>2, <4>1
    <3>3. CASE i \in 1 .. Len(p) /\ i # Len(p)
      <4>1. i + 1 \in 1 .. Len(p) /\ i < Len(p) /\ i < Len(q) BY <1>21, <1>22, <3>3
      <4>2. p[i] # z BY <1>2, <1>9, <3>3, LineFacts
      <4>3. p[i] \in DOMAIN sh.node /\ sh.node[p[i]].next = p[i + 1] BY <1>2, <3>3, <4>1, LineFacts
      <4> QED BY <1>13, <1>21, <3>3, <4>1, <4>2, <4>3
    <3> QED BY <1>22, <3>1, <3>2, <3>3
  <2>3. Linear(q)' BY <1>21, <2>1, <2>2 DEF Linear
  <2>4. Len(q) = Len(sh'.content) + 1 BY <1>2, <1>11, <1>12, <1>21, LineFacts
  <2>5. sh'.head = q[1]
    <3>1. 1 \in 1 .. Len(p) BY <1>22
    <3> QED BY <1>2, <1>12, <1>21, <3>1, LineFacts
  <2>6. On(q, sh'.tail) BY <1>2, <1>12, <1>23, LineFacts
  <2>7. ASSUME NEW i \in 1 .. Len(sh'.content) PROVE sh'.node[q[i + 1]].val = sh'.content[i]
    <3>1. CASE i = Len(sh.content) + 1
      <4>1. i + 1 = Len(p) + 1 BY <1>2, <3>1, LineFacts
      <4>2. a # z BY <1>6
      <4> QED BY <1>6, <1>7, <1>11, <1>12, <1>13, <1>21, <3>1, <4>1, <4>2
    <3>2. CASE i \in 1 .. Len(sh.content)
      <4>1. i + 1 \in 1 .. Len(p) BY <1>2, <3>2, LineFacts
      <4>2. sh.node[p[i + 1]].val = sh.content[i] /\ p[i + 1] \in DOMAIN sh.node
        BY <1>2, <3>2, <4>1, LineFacts DEF Line
      <4>3. sh'.node[p[i + 1]].val = sh.node[p[i + 1]].val BY <1>13, <1>14, <4>2
      <4> QED BY <1>11, <1>12, <1>21, <3>2, <4>1, <4>2, <4>3
    <3>3. i \in 1 .. Len(sh.content) \/ i = Len(sh.content) + 1 BY <1>11, <1>12
    <3> QED BY <3>1, <3>2, <3>3
  <2> QED BY <2>3, <2>4, <2>5, <2>6, <2>7 DEF Line
<1>25. NodesHeld(q)'
  <2>1. \A u \in Threads : Holds(u)' => Held(u)' \in DOMAIN sh'.node /\ ~On(q, Held(u)')
    BY <1>2, <1>6, <1>13, <1>17, <1>18, <1>23 DEF NodesHeld
  <2>2. \A u, w \in Threads : u # w /\ Holds(u)' /\ Holds(w)' => Held(u)' # Held(w)'
    BY <1>2, <1>17, <1>18 DEF NodesHeld
  <2> QED BY <2>1, <2>2 DEF NodesHeld
<1>26. TailNear(q)'
  <2> SUFFICES ASSUME sh.phase = "pipe"
               PROVE Len(q) > 1 /\ sh'.tail = q[Len(q) - 1] /\ \E u \in Threads : loc'[u].pc \in Late
    BY <1>12 DEF TailNear
  <2>1. Len(q) > 1 /\ Len(q) - 1 = Len(p) /\ Len(p) \in 1 .. Len(p) BY <1>21, <1>22
  <2>2. sh'.tail = q[Len(q) - 1] BY <1>6, <1>9, <1>12, <1>21, <2>1
  <2> QED BY <1>16, <2>1, <2>2 DEF Late
<1>27. ASSUME NEW u \in Threads PROVE Enqueuing(u, q)' /\ Dequeuing(u, q)'
  <2>1. CASE u = t
    <3>1. a = q[Len(q)] BY <1>21
    <3> QED BY <1>16, <1>23, <2>1, <3>1 DEF Enqueuing, Dequeuing, At, Early, Late
  <2>2. CASE u # t
    <3>1. loc'[u] = loc[u] /\ Enqueuing(u, p) /\ Dequeuing(u, p) BY <1>2, <1>15, <2>2 DEF Others
    <3>2. loc[u].pc \in Early => sh'.node[loc[u].a] = sh.node[loc[u].a] BY <1>13, <1>19
    <3>3. sh.phase = "pipe" => loc[u].pc \notin Early \cup Late
      BY <1>5, <2>2, OpOfPlace DEF QueueInv, QueueApart
    <3>4. Enqueuing(u, q)' BY <1>12, <1>23, <3>1, <3>2, <3>3 DEF Enqueuing, At, Early, Late
    <3>5. Len(p) > 1 => Len(q) > 1 /\ q[2] = p[2] /\ more[1] = sh.content[1]
      <4> SUFFICES ASSUME Len(p) > 1 PROVE Len(q) > 1 /\ q[2] = p[2] /\ more[1] = sh.content[1] OBVIOUS
      <4>1. 2 \in 1 .. Len(p) /\ 1 \in 1 .. Len(sh.content) BY <1>2, LineFacts
      <4> QED BY <1>11, <1>21, <1>22, <4>1
    <3>6. Dequeuing(u, q)' BY <1>12, <3>1, <3>5 DEF Dequeuing, At
    <3> QED BY <3>4, <3>6
  <2> QED BY <2>1, <2>2
<1>28. QueueNodes(q)' BY <1>24, <1>25, <1>26, <1>27 DEF QueueNodes
<1>29. QueueApart' BY <1>5, <1>12, <1>15, <1>16, ApartKept DEF QueueInv
<1>30. t \notin Raising /\ t \in Raising' /\ t \notin Lowering /\ t \notin Lowering'
  BY <1>5, <1>16 DEF Raising, Lowering
<1>31. CountLags'
  <2>1. /\ sh'.count = sh.count + 0 /\ Len(sh'.content) = Len(sh.content) + 1
        /\ 0 + (IF t \in Raising' THEN 1 ELSE 0) + (IF t \in Lowering THEN 1 ELSE 0)
             = 1 + (IF t \in Lowering' THEN 1 ELSE 0) + (IF t \in Raising THEN 1 ELSE 0)
    BY <1>11, <1>12, <1>30
  <2>2. 0 \in Int /\ 1 \in Int /\ CountLags BY DEF QueueInv
  <2> QED BY <1>15, <2>1, <2>2, CountKept, Zenon
<1> QED BY <1>12, <1>20, <1>28, <1>29, <1>31 DEF QueueInv

\* The head moves on to the node whose element was copied, and the dummy is the
\* thread's: the tail, and what an enqueue has read, stay in the queue.
LEMMA DequeueTakes ==
  ASSUME QueueInv, NEW t \in Threads, At(t, "dCas"), IsFiniteSet(Threads),
         Move(t, Spoilt([sh EXCEPT !.head = loc[t].next, !.content = Tail(@)],
                        Head(sh.content) # loc[t].out), To("dFree"))
  PROVE  QueueInv'
<1> USE QueueFacts
<1>1. PICK p : QueueNodes(p) BY DEF QueueInv
<1>2. Line(p) /\ NodesHeld(p) /\ TailNear(p) /\ \A u \in Threads : Enqueuing(u, p) /\ Dequeuing(u, p)
  BY <1>1 DEF QueueNodes
<1>3. /\ loc[t].pc = "dCas" /\ loc[t].op = "dequeue" /\ {"op", "pc", "head", "next", "out"} \subseteq DOMAIN loc[t]
      /\ \A u \in Threads : u # t => loc[u].op # "dequeue"
      /\ sh.phase = "batch" => \A u \in Threads : loc[u].op # "enqueue"
  BY DequeueThread DEF At
<1>4. /\ loc[t].head = sh.head /\ sh.tail # sh.head /\ Len(p) > 1 /\ loc[t].next = p[2]
      /\ loc[t].out = sh.content[1]
  BY <1>2, <1>3 DEF Dequeuing, At
<1>5. /\ Len(p) \in Nat /\ p \in Seq(Addr) /\ Len(p) = Len(sh.content) + 1 /\ sh.head = p[1]
      /\ Len(sh.content) # 0 /\ 1 \in 1 .. Len(p) /\ Len(p) # 0
  BY <1>2, <1>4, LineFacts
<1> DEFINE less == Tail(sh.content)
<1>6. /\ less \in Seq(Values) /\ Len(less) = Len(sh.content) - 1 /\ Head(sh.content) = sh.content[1]
      /\ \A i \in 1 .. Len(sh.content) - 1 : less[i] = sh.content[i + 1]
  BY <1>5, Behead
<1>7. /\ sh' = [[sh EXCEPT !.head = p[2], !.content = less] EXCEPT !.bad = @ \/ FALSE]
      /\ loc' = [loc EXCEPT ![t] = With(@, To("dFree"))]
  BY <1>4, <1>6 DEF Move, Spoilt
<1> HIDE DEF less
<1>8. /\ DOMAIN sh' = DOMAIN sh /\ sh'.head = p[2] /\ sh'.tail = sh.tail /\ sh'.content = less
      /\ sh'.phase = sh.phase /\ ~sh'.bad /\ sh'.count = sh.count /\ sh'.node = sh.node
  BY <1>7 DEF QueueInv
<1>9. loc'[t] = With(loc[t], To("dFree")) /\ Others(t) BY <1>7 DEF Others
<1>10. DOMAIN loc'[t] = DOMAIN loc[t] /\ loc'[t].op = "dequeue" /\ loc'[t].pc = "dFree" /\ loc'[t].head = p[1]
  BY <1>3, <1>4, <1>5, <1>9 DEF With, To
<1>11. \A u \in Threads : u # t => (Holds(u)' <=> Holds(u)) /\ Held(u)' = Held(u)
  BY <1>9 DEF Holds, Held, At, Others
<1>12. Holds(t)' /\ Held(t)' = p[1] BY <1>10 DEF Holds, Held, At
<1>13. QueueTypes'
  <2>1. QueueLocals(t)' BY <1>3, <1>10 DEF QueueLocals
  <2>2. \A u \in Threads : QueueLocals(u)' BY <1>9, <2>1 DEF QueueLocals, Others
  <2>3. \A u \in Threads : loc'[u].pc \in Early => u # t /\ loc'[u] = loc[u]
    BY <1>9, <1>10 DEF Early, Others
  <2>4. \A u \in Threads : loc'[u].pc \in Early => sh'.node[loc'[u].a].val \in Values
    BY <1>8, <2>3 DEF QueueInv, QueueTypes
  <2> QED BY <1>6, <1>8, <1>9, <2>2, <2>4 DEF QueueTypes, Others
<1>14. PICK q : q \in Seq(Addr) /\ Len(q) = Len(p) - 1 /\ \A i \in 1 .. Len(p) - 1 : q[i] = p[i + 1]
  <2> WITNESS Tail(p)
  <2> QED BY <1>5, Behead
<1>15. /\ \A i \in 1 .. Len(q) : i + 1 \in 1 .. Len(p) /\ i + 1 # 1 /\ q[i] = p[i + 1]
       /\ 1 \in 1 .. Len(q) /\ q[1] = p[2] /\ Len(q) \in 1 .. Len(q) /\ q[Len(q)] = p[Len(p)] /\ Len(q) \in Nat
  BY <1>4, <1>5, <1>14
<1>16. \A x : On(p, x) /\ x # p[1] => On(q, x)
  <2> SUFFICES ASSUME NEW x, On(p, x), x # p[1] PROVE On(q, x) OBVIOUS
  <2>1. PICK i \in 1 .. Len(p) : p[i] = x BY DEF On
  <2>2. i - 1 \in 1 .. Len(p) - 1 /\ (i - 1) + 1 = i BY <1>5, <2>1
  <2>3. q[i - 1] = x /\ i - 1 \in 1 .. Len(q) BY <1>14, <2>1, <2>2
  <2> QED BY <2>3 DEF On
<1>17. /\ \A x : On(q, x) => On(p, x)
       /\ ~On(q, p[1])
  <2>1. \A x : On(q, x) => On(p, x) BY <1>15 DEF On
  <2>2. \A m, n \in 1 .. Len(p) : p[m] = p[n] => m = n BY <1>2, LineFacts
  <2>3. ~On(q, p[1])
    <3> SUFFICES ASSUME NEW i \in 1 .. Len(q), q[i] = p[1] PROVE FALSE BY DEF On
    <3>1. i + 1 \in 1 .. Len(p) /\ i + 1 # 1 /\ p[i + 1] = p[1] BY <1>15
    <3> QED BY <1>5, <2>2, <3>1
  <2> QED BY <2>1, <2>3
<1>18. Line(q)'
  <2>1. \A i, j \in 1 .. Len(q) : q[i] = q[j] => i = j
    <3> SUFFICES ASSUME NEW i \in 1 .. Len(q), NEW j \in 1 .. Len(q), q[i] = q[j] PROVE i = j OBVIOUS
    <3>1. i + 1 = j + 1 BY <1>2, <1>15, LineFacts
    <3> QED BY <3>1
  <2>2. ASSUME NEW i \in 1 .. Len(q)
        PROVE q[i] \in DOMAIN sh'.node /\ sh'.node[q[i]].next = IF i < Len(q) THEN q[i + 1] ELSE Null
    <3>1. PICK k : k = i + 1 OBVIOUS
    <3>2. k \in 1 .. Len(p) /\ q[i] = p[k] BY <1>15, <3>1
    <3>3. (k < Len(p)) <=> (i < Len(q)) BY <1>5, <1>14, <3>1
    <3>4. i < Len(q) => q[i + 1] = p[k + 1]
      <4> SUFFICES ASSUME i < Len(q) PROVE q[i + 1] = p[k + 1] OBVIOUS
      <4>1. i + 1 \in 1 .. Len(q) BY <1>15
      <4> QED BY <1>15, <3>1, <4>1
    <3>5. p[k] \in DOMAIN sh.node /\ sh.node[p[k]].next = IF k < Len(p) THEN p[k + 1] ELSE Null
      BY <1>2, <3>2, LineFacts
    <3> QED BY <1>8, <3>2, <3>3, <3>4, <3>5
  <2>3. Linear(q)' BY <1>14, <2>1, <2>2 DEF Linear
  <2>4. Len(q) = Len(sh'.content) + 1 BY <1>5, <1>6, <1>8, <1>14
  <2>5. sh'.head = q[1] BY <1>8, <1>15
  <2>6. On(q, sh'.tail) BY <1>2, <1>4, <1>5, <1>8, <1>16, LineFacts
  <2>7. ASSUME NEW i \in 1 .. Len(sh'.content) PROVE sh'.node[q[i + 1]].val = sh'.content[i]
    <3>1. PICK k : k = i + 1 OBVIOUS
    <3>2. k \in 1 .. Len(q) /\ k \in 1 .. Len(sh.content) BY <1>5, <1>6, <1>8, <1>14, <3>1
    <3>3. q[k] = p[k + 1] /\ sh'.content[i] = sh.content[k] BY <1>5, <1>6, <1>8, <1>15, <3>1, <3>2
    <3>4. sh.node[p[k + 1]].val = sh.content[k] BY <1>2, <3>2 DEF Line
    <3> QED BY <1>8, <3>1, <3>3, <3>4
  <2> QED BY <2>3, <2>4, <2>5, <2>6, <2>7 DEF Line
<1>19. NodesHeld(q)'
  <2>1. \A u \in Threads : u # t /\ Holds(u) => Held(u) \in DOMAIN sh.node /\ ~On(p, Held(u))
    BY <1>2 DEF NodesHeld
  <2>2. On(p, p[1]) /\ p[1] \in DOMAIN sh.node BY <1>2, <1>5, LineFacts DEF On
  <2>3. \A u \in Threads : Holds(u)' => Held(u)' \in DOMAIN sh'.node /\ ~On(q, Held(u)')
    BY <1>8, <1>11, <1>12, <1>17, <2>1, <2>2
  <2>4. \A u \in Threads : u # t /\ Holds(u) => Held(u) # p[1] BY <2>1, <2>2
  <2>5. \A u, w \in Threads : u # w /\ Holds(u)' /\ Holds(w)' => Held(u)' # Held(w)'
    BY <1>2, <1>11, <1>12, <2>4 DEF NodesHeld
  <2> QED BY <2>3, <2>5 DEF NodesHeld
<1>20. TailNear(q)'
  <2> SUFFICES ASSUME sh.phase = "pipe", sh.tail # p[Len(p)]
               PROVE Len(q) > 1 /\ sh'.tail = q[Len(q) - 1] /\ \E u \in Threads : loc'[u].pc \in Late
    BY <1>8, <1>15 DEF TailNear
  <2>1. sh.tail = p[Len(p) - 1] /\ \E u \in Threads : loc[u].pc \in Late BY <1>2 DEF TailNear
  <2>2. \E u \in Threads : loc'[u].pc \in Late BY <1>3, <1>9, <2>1 DEF Others, Late
  <2>3. Len(p) - 1 # 1 BY <1>4, <1>5, <2>1
  <2>4. Len(q) > 1 /\ Len(q) - 1 \in 1 .. Len(q) /\ (Len(q) - 1) + 1 = Len(p) - 1
    <3>1. PICK m : m = Len(q) OBVIOUS
    <3>2. m \in Nat /\ m # 1 /\ m # 0 BY <1>4, <1>5, <1>14, <2>3, <3>1
    <3>3. m > 1 /\ m - 1 \in 1 .. m /\ (m - 1) + 1 = m BY ONLY <3>2
    <3> QED BY <1>14, <3>1, <3>3
  <2>5. q[Len(q) - 1] = p[Len(p) - 1] BY <1>15, <2>4
  <2> QED BY <1>8, <2>1, <2>2, <2>4, <2>5
<1>21. ASSUME NEW u \in Threads PROVE Enqueuing(u, q)' /\ Dequeuing(u, q)'
  <2>1. CASE u = t BY <1>10, <2>1 DEF Enqueuing, Dequeuing, At, Early, Late
  <2>2. CASE u # t
    <3>1. loc'[u] = loc[u] /\ Enqueuing(u, p) BY <1>2, <1>9, <2>2 DEF Others
    <3>2. Dequeuing(u, q)' BY <1>3, <2>2, <3>1, OpOfPlace DEF Dequeuing, At
    <3>3. CASE sh.phase = "batch"
      <4>1. loc[u].pc \notin Early \cup Late BY <1>3, <3>3, OpOfPlace
      <4> QED BY <3>1, <3>2, <4>1 DEF Enqueuing, At, Early, Late
    <3>4. CASE sh.phase = "pipe"
      <4>1. On(q, sh.tail) /\ On(q, p[Len(p)])
        <5>1. On(q, sh.tail) BY <1>2, <1>4, <1>5, <1>16, LineFacts
        <5>2. On(q, p[Len(p)]) BY <1>15 DEF On
        <5> QED BY <5>1, <5>2
      <4>2. Enqueuing(u, q)' BY <1>8, <1>15, <3>1, <3>4, <4>1 DEF Enqueuing, At, Early, Late
      <4> QED BY <3>2, <4>2
    <3> QED BY <3>3, <3>4
  <2> QED BY <2>1, <2>2
<1>22. QueueNodes(q)' BY <1>18, <1>19, <1>20, <1>21 DEF QueueNodes
<1>23. QueueApart' BY <1>3, <1>8, <1>9, <1>10, ApartKept DEF QueueInv
<1>24. t \notin Raising /\ t \notin Raising' /\ t \notin Lowering /\ t \in Lowering'
  BY <1>3, <1>10 DEF Raising, Lowering
<1>25. CountLags'
  <2>1. /\ sh'.count = sh.count + 0 /\ Len(sh'.content) = Len(sh.content) + (-1)
        /\ 0 + (IF t \in Raising' THEN 1 ELSE 0) + (IF t \in Lowering THEN 1 ELSE 0)
             = (-1) + (IF t \in Lowering' THEN 1 ELSE 0) + (IF t \in Raising THEN 1 ELSE 0)
    BY <1>5, <1>6, <1>8, <1>24
  <2>2. 0 \in Int /\ -1 \in Int /\ CountLags BY DEF QueueInv
  <2> QED BY <1>9, <2>1, <2>2, CountKept, Zenon
<1> QED BY <1>8, <1>13, <1>22, <1>23, <1>25 DEF QueueInv

LEMMA EnqueueInvSteps ==
  ASSUME QueueInv, NEW t \in Threads, EnqueueSteps(t), ~sh'.slipped, IsFiniteSet(Threads), Null \notin Addr
  PROVE  QueueInv'
<1>1. CASE At(t, "eTail") BY <1>1, EnqueueReadsTail DEF EnqueueSteps, At, Raise
<1>2. CASE At(t, "eNext") BY <1>2, EnqueueReadsNext DEF EnqueueSteps, At, Raise
<1>3. CASE At(t, "eCheck")
  <2>1. PICK l : /\ Move(t, sh, To(l)) /\ l \in {"eTail", "eLink", "eHelp"}
                 /\ l = "eHelp" => loc[t].next # Null
    BY <1>3 DEF EnqueueSteps, At, Raise
  <2> QED BY <1>3, <2>1, EnqueueDecides
<1>4. CASE At(t, "eLink")
  <2>1. ~Gone(loc[t].tail)
    <3>1. PICK p : QueueNodes(p) BY DEF QueueInv
    <3>2. On(p, loc[t].tail) /\ Line(p) BY <1>4, <3>1 DEF QueueNodes, Enqueuing, At
    <3> QED BY <3>2, LineFacts DEF On, Gone
  <2>2. CASE Move(t, sh, To("eTail")) BY <1>4, <2>2, EnqueueDecides
  <2>3. CASE /\ NextOf(loc[t].tail) = Null
             /\ Move(t, [sh EXCEPT !.node[loc[t].tail].next = loc[t].a,
                                  !.content = Append(@, sh.node[loc[t].a].val)], To("eOld"))
    BY <1>4, <2>3, EnqueueLinks
  <2> QED BY <1>4, <2>1, <2>2, <2>3 DEF EnqueueSteps, At, Raise
<1>5. CASE At(t, "eHelp") BY <1>5, EnqueueHelps DEF EnqueueSteps, At, Raise
<1>6. CASE At(t, "eOld") BY <1>6, EnqueueReadsOld DEF EnqueueSteps, At, Raise
<1>7. CASE At(t, "eSwing") BY <1>7, EnqueueSwings DEF EnqueueSteps, At, Raise
<1>8. CASE Raise(t) BY <1>8, QueueReturns
<1> QED BY <1>1, <1>2, <1>3, <1>4, <1>5, <1>6, <1>7, <1>8 DEF EnqueueSteps

LEMMA DequeueInvSteps ==
  ASSUME QueueInv, NEW t \in Threads, DequeueSteps(t), IsFiniteSet(Threads), Null \notin Addr
  PROVE  QueueInv'
<1>1. CASE At(t, "dHead") \/ At(t, "dTail")
  BY <1>1, DequeueReadsEnds DEF DequeueSteps, DequeueCheck, At, Lower
<1>2. CASE At(t, "dNext") BY <1>2, DequeueReadsNext DEF DequeueSteps, DequeueCheck, At, Lower
<1>3. CASE DequeueCheck(t) BY <1>3, DequeueDecides
<1>4. CASE At(t, "dHelp") BY <1>4, DequeueHelps DEF DequeueSteps, DequeueCheck, At, Lower
<1>5. CASE At(t, "dCopy") BY <1>5, DequeueCopies DEF DequeueSteps, DequeueCheck, At, Lower
<1>6. CASE At(t, "dCas")
  <2>1. CASE Move(t, sh, To("dHead")) BY <1>6, <2>1, DequeueAgain
  <2>2. CASE Move(t, Spoilt([sh EXCEPT !.head = loc[t].next, !.content = Tail(@)],
                            Head(sh.content) # loc[t].out), To("dFree"))
    BY <1>6, <2>2, DequeueTakes
  <2> QED BY <1>6, <2>1, <2>2 DEF DequeueSteps, DequeueCheck, At, Lower
<1>7. CASE At(t, "dFree") BY <1>7, DequeueFrees DEF DequeueSteps, DequeueCheck, At, Lower
<1>8. CASE Lower(t) BY <1>8, QueueReturns
<1> QED BY <1>1, <1>2, <1>3, <1>4, <1>5, <1>6, <1>7, <1>8 DEF DequeueSteps

LEMMA QueueInits ==
  ASSUME loc = [t \in Threads |-> Idle], sh = cqueue_init, 1 \in Addr
  PROVE  QueueInv
<1>1. /\ DOMAIN sh = {"head", "tail", "node", "count", "content", "phase", "slipped", "bad", "calls"}
      /\ sh.head = 1 /\ sh.tail = 1 /\ sh.node = [a \in {1} |-> [val |-> Null, next |-> Null]]
      /\ sh.count = 0 /\ sh.content = <<>> /\ sh.phase = "batch" /\ ~sh.bad
  BY DEF cqueue_init
<1>2. DOMAIN loc = Threads /\ \A t \in Threads : loc[t] = Idle OBVIOUS
<1>3. \A t \in Threads : loc[t].pc = "idle" /\ loc[t].op = "none" /\ DOMAIN loc[t] = {"op", "pc"}
  BY <1>2 DEF Idle
<1>4. DOMAIN sh.node = {1} /\ DOMAIN sh.node[1] = {"val", "next"} /\ sh.node[1].next = Null BY <1>1
<1>5. QueueTypes BY <1>1, <1>2, <1>3, <1>4 DEF QueueTypes, QueueLocals, Early
<1>6. QueueApart BY <1>3 DEF QueueApart
<1>7. PICK p : p \in Seq(Addr) /\ Len(p) = 1 /\ p[1] = 1
  <2> WITNESS <<1>>
  <2> QED OBVIOUS
<1>8. 1 \in 1 .. Len(p) /\ \A i \in 1 .. Len(p) : i = 1 BY <1>7
<1>9. Linear(p) BY <1>4, <1>7, <1>8 DEF Linear
<1>10. Line(p) BY <1>1, <1>7, <1>8, <1>9 DEF Line, On
<1>11. NodesHeld(p) BY <1>3 DEF NodesHeld, Holds, Early
<1>12. TailNear(p) BY <1>1, <1>7 DEF TailNear
<1>13. \A t \in Threads : Enqueuing(t, p) /\ Dequeuing(t, p)
  BY <1>3 DEF Enqueuing, Dequeuing, At, Early, Late
<1>14. QueueNodes(p) BY <1>10, <1>11, <1>12, <1>13 DEF QueueNodes
<1>15. Raising = {} /\ Lowering = {} BY <1>3 DEF Raising, Lowering
<1>16. CountLags BY <1>1, <1>15, FS_EmptySet DEF CountLags
<1> QED BY <1>1, <1>5, <1>6, <1>14, <1>16 DEF QueueInv

LEMMA QueueDestroyed ==
  ASSUME QueueInv, cqueue_destroy, 1 \in Addr
  PROVE  QueueInv'
<1> USE QueueFacts
<1>1. Quiet /\ sh' = [cqueue_init EXCEPT !.calls = sh.calls + 1, !.slipped = sh.slipped] /\ loc' = loc
  BY DEF cqueue_destroy
<1>2. /\ DOMAIN sh' = {"head", "tail", "node", "count", "content", "phase", "slipped", "bad", "calls"}
      /\ sh'.head = 1 /\ sh'.tail = 1 /\ sh'.node = [a \in {1} |-> [val |-> Null, next |-> Null]]
      /\ sh'.count = 0 /\ sh'.content = <<>> /\ sh'.phase = "batch" /\ ~sh'.bad
  BY <1>1 DEF cqueue_init
<1>3. \A t \in Threads : loc'[t].pc = "idle" /\ loc'[t].op = "none" /\ QueueLocals(t)'
  BY <1>1 DEF Quiet, At, QueueLocals, Early, Late
<1>4. DOMAIN sh'.node = {1} /\ DOMAIN sh'.node[1] = {"val", "next"} /\ sh'.node[1].next = Null BY <1>2
<1>5. QueueTypes'
  <2>1. DOMAIN sh'.node \subseteq Addr /\ \A a \in DOMAIN sh'.node : DOMAIN sh'.node[a] = {"val", "next"}
    BY <1>4
  <2>2. sh'.content \in Seq(Values) /\ sh'.phase \in {"batch", "pipe"} BY <1>2
  <2>3. \A t \in Threads : loc'[t].pc \notin Early BY <1>3 DEF Early
  <2>4. DOMAIN loc' = Threads BY <1>1
  <2> HIDE QueueFacts
  <2> QED BY <1>2, <1>3, <2>1, <2>2, <2>3, <2>4 DEF QueueTypes
<1>6. QueueApart' BY <1>3 DEF QueueApart
<1>7. PICK p : p \in Seq(Addr) /\ Len(p) = 1 /\ p[1] = 1
  <2> WITNESS <<1>>
  <2> QED OBVIOUS
<1>8. 1 \in 1 .. Len(p) /\ \A i \in 1 .. Len(p) : i = 1 BY <1>7
<1>9. Linear(p)' BY <1>4, <1>7, <1>8 DEF Linear
<1>10. Line(p)' BY <1>2, <1>7, <1>8, <1>9 DEF Line, On
<1>11. NodesHeld(p)' BY <1>3 DEF NodesHeld, Holds, Early
<1>12. TailNear(p)' BY <1>2, <1>7 DEF TailNear
<1>13. \A t \in Threads : Enqueuing(t, p)' /\ Dequeuing(t, p)'
  BY <1>3 DEF Enqueuing, Dequeuing, At, Early, Late
<1>14. QueueNodes(p)' BY <1>10, <1>11, <1>12, <1>13 DEF QueueNodes
<1>15. Raising' = {} /\ Lowering' = {} BY <1>3 DEF Raising, Lowering
<1>16. CountLags' BY <1>2, <1>15, FS_EmptySet DEF CountLags
<1> QED BY <1>2, <1>5, <1>6, <1>14, <1>16 DEF QueueInv

\* The queue goes over to one thread on each side when it is empty: the tail is at the dummy.
LEMMA QueuePhases ==
  ASSUME QueueInv, NEW ph \in {"batch", "pipe"}, ChangePhase(ph)
  PROVE  QueueInv'
<1> USE QueueFacts
<1>1. /\ Quiet /\ (ph = "pipe" => sh.content = <<>>) /\ sh' = [sh EXCEPT !.phase = ph] /\ loc' = loc
  BY DEF ChangePhase
<1>2. /\ DOMAIN sh' = DOMAIN sh /\ sh'.head = sh.head /\ sh'.tail = sh.tail /\ sh'.content = sh.content
      /\ sh'.phase = ph /\ ~sh'.bad /\ sh'.count = sh.count /\ sh'.node = sh.node
  BY <1>1 DEF QueueInv
<1>3. \A t \in Threads : loc'[t].pc = "idle" /\ loc'[t].op = "none" /\ QueueLocals(t)'
  BY <1>1 DEF Quiet, At, QueueLocals, Early, Late
<1>4. QueueTypes' BY <1>1, <1>2, <1>3 DEF QueueTypes, Early
<1>5. QueueApart' BY <1>3 DEF QueueApart
<1>6. PICK p : QueueNodes(p) BY DEF QueueInv
<1>7. Line(p) BY <1>6 DEF QueueNodes
<1>8. Line(p)' BY <1>2, <1>7, LineFacts, LineStill
<1>9. NodesHeld(p)' BY <1>3 DEF NodesHeld, Holds, Early
<1>10. TailNear(p)'
  <2> SUFFICES ASSUME ph = "pipe" PROVE sh.tail = p[Len(p)] BY <1>2 DEF TailNear
  <2>1. Len(p) = 1
    <3>1. Len(sh.content) = 0 BY <1>1
    <3> QED BY <1>7, <3>1, LineFacts
  <2>2. PICK i \in 1 .. Len(p) : p[i] = sh.tail BY <1>7, LineFacts DEF On
  <2> QED BY <2>1, <2>2
<1>11. \A t \in Threads : Enqueuing(t, p)' /\ Dequeuing(t, p)'
  BY <1>3 DEF Enqueuing, Dequeuing, At, Early, Late
<1>12. QueueNodes(p)' BY <1>8, <1>9, <1>10, <1>11 DEF QueueNodes
<1>13. CountLags' BY <1>1, <1>2 DEF QueueInv, CountLags, Raising, Lowering
<1> QED BY <1>2, <1>4, <1>5, <1>12, <1>13 DEF QueueInv

LEMMA QueueInvSteps ==
  ASSUME QueueInv, QueueNext, ~sh'.slipped, kind = "cqueue", "cqueue" \notin Overlap, IsFiniteSet(Threads),
         Null \notin Addr, 1 \in Addr
  PROVE  QueueInv'
<1>1. CASE cqueue_destroy BY <1>1, QueueDestroyed
<1>2. CASE \E ph \in {"batch", "pipe"} : ChangePhase(ph) BY <1>2, QueuePhases
<1>3. ASSUME NEW t \in Threads,
             EnqueueSteps(t) \/ DequeueSteps(t) \/ cqueue_dequeue(t) \/ \E v \in Values : cqueue_enqueue(t, v)
      PROVE  QueueInv'
  <2>1. CASE EnqueueSteps(t) BY <2>1, EnqueueInvSteps
  <2>2. CASE DequeueSteps(t) BY <2>2, DequeueInvSteps
  <2>3. CASE cqueue_dequeue(t) BY <2>3, DequeueBegins
  <2>4. CASE \E v \in Values : cqueue_enqueue(t, v) BY <2>4, EnqueueBegins
  <2> QED BY <1>3, <2>1, <2>2, <2>3, <2>4
<1> QED BY <1>1, <1>2, <1>3 DEF QueueNext

\* Once the tail was left behind, that is never forgotten.
LEMMA SlippedStays ==
  ASSUME QueueNext, "slipped" \in DOMAIN sh
  PROVE  "slipped" \in DOMAIN sh' /\ (sh.slipped => sh'.slipped)
<1> USE DEF Begin, Move, Return, Spoilt
<1>1. CASE cqueue_destroy BY <1>1 DEF cqueue_destroy, cqueue_init
<1>2. CASE \E ph \in {"batch", "pipe"} : ChangePhase(ph) BY <1>2 DEF ChangePhase
<1>3. ASSUME NEW t \in Threads, EnqueueSteps(t)
      PROVE  "slipped" \in DOMAIN sh' /\ (sh.slipped => sh'.slipped)
  BY <1>3 DEF EnqueueSteps, Swung, Slips, Raise
<1>4. ASSUME NEW t \in Threads, DequeueSteps(t)
      PROVE  "slipped" \in DOMAIN sh' /\ (sh.slipped => sh'.slipped)
  BY <1>4 DEF DequeueSteps, DequeueCheck, Swung, Freed, Lower
<1>5. ASSUME NEW t \in Threads, cqueue_dequeue(t) \/ \E v \in Values : cqueue_enqueue(t, v)
      PROVE  "slipped" \in DOMAIN sh' /\ (sh.slipped => sh'.slipped)
  BY <1>5 DEF cqueue_dequeue, cqueue_enqueue, Alloc
<1> QED BY <1>1, <1>2, <1>3, <1>4, <1>5 DEF QueueNext

\* What the run checks follows from the inductive invariant.
LEMMA QueueInvEnough ==
  ASSUME QueueInv, Null \notin Addr, IsFiniteSet(Addr)
  PROVE  QueueInOrder
<1> USE QueueFacts
<1> DEFINE chain == ChainOf(sh.head)
<1>1. PICK p : QueueNodes(p) BY DEF QueueInv
<1>2. Line(p) BY <1>1 DEF QueueNodes
<1>3. /\ p \in Seq(Addr) /\ Len(p) \in Nat /\ Len(p) >= 1 /\ Len(p) = Len(sh.content) + 1
      /\ sh.head = p[1] /\ On(p, sh.tail)
  BY <1>2, LineFacts
<1>4. chain = [i \in 0 .. Len(p) - 1 |-> p[i + 1]] /\ Cardinality(0 .. Len(p) - 1) = Len(p)
  <2>1. Linear(p) BY <1>2 DEF Line
  <2>2. sh.head = IF Len(p) = 0 THEN Null ELSE p[1] BY <1>3
  <2>3. Null \notin DOMAIN sh.node OBVIOUS
  <2> QED BY <2>1, <2>2, <2>3, WalkIsPath
<1> HIDE DEF chain
<1>5. DOMAIN chain = 0 .. Len(p) - 1 /\ \A i \in 0 .. Len(p) - 1 : chain[i] = p[i + 1] BY <1>4
<1>6. [i \in 1 .. (Cardinality(DOMAIN chain) - 1) |-> sh.node[chain[i]].val] = sh.content
  <2>1. Cardinality(DOMAIN chain) - 1 = Len(sh.content) BY <1>3, <1>4, <1>5
  <2>2. \A i \in 1 .. Len(sh.content) : sh.node[chain[i]].val = sh.content[i]
    <3> SUFFICES ASSUME NEW i \in 1 .. Len(sh.content) PROVE sh.node[chain[i]].val = sh.content[i] OBVIOUS
    <3>1. i \in 0 .. Len(p) - 1 BY <1>3
    <3>2. sh.node[p[i + 1]].val = sh.content[i] BY <1>2 DEF Line
    <3> QED BY <1>5, <3>1, <3>2
  <2>3. sh.content = [i \in 1 .. Len(sh.content) |-> sh.content[i]] BY LenProperties
  <2> QED BY <2>1, <2>2, <2>3
<1>7. sh.tail \in Range(chain)
  <2>1. PICK i \in 1 .. Len(p) : p[i] = sh.tail BY <1>3 DEF On
  <2>2. i - 1 \in 0 .. Len(p) - 1 /\ (i - 1) + 1 = i BY <1>3
  <2>3. i - 1 \in DOMAIN chain /\ chain[i - 1] = sh.tail BY <1>5, <2>1, <2>2
  <2> QED BY <2>3 DEF Range
<1>8. Quiet => sh.count = Len(sh.content)
  <2> SUFFICES ASSUME Quiet PROVE sh.count = Len(sh.content) OBVIOUS
  <2>1. Raising = {} /\ Lowering = {} BY DEF Raising, Lowering, At, Quiet
  <2>2. sh.count + 0 = Len(sh.content) + 0 BY <2>1, FS_EmptySet DEF QueueInv, CountLags
  <2> QED BY <2>2
<1> QED BY <1>6, <1>7, <1>8 DEF QueueInOrder, QueueInv, chain

(* scl_cqueue_enqueue and scl_cqueue_dequeue, for any number of threads,   *)
(* addresses and calls, whichever of their weak exchanges fail for no      *)
(* reason, as long as the calls that must not overlap do not (the dummy    *)
(* that scl_cqueue_init allocates is at address 1), and with one thread on *)
(* each side until the last exchange of an enqueue fails that way:         *)
(* elements come out in the order their nodes were linked, EMPTY is only   *)
(* returned if the queue was empty, no freed node is touched and the tail  *)
(* stays on the chain although it may be left behind or swung back, and    *)
(* the count is right whenever no call is running.                         *)
THEOREM QueueKeepsOrder ==
  ASSUME Null \notin Addr, 1 \in Addr, IsFiniteSet(Addr), IsFiniteSet(Threads), "cqueue" \notin Overlap
  PROVE  SharedSpec => []QueueInOrder
<1> DEFINE Inv == kind = "cqueue" => "slipped" \in DOMAIN sh /\ (~sh.slipped => QueueInv)
<1>1. SharedInit => Inv
  <2> SUFFICES ASSUME SharedInit, kind = "cqueue" PROVE "slipped" \in DOMAIN sh /\ QueueInv OBVIOUS
  <2>1. sh = cqueue_init /\ loc = [t \in Threads |-> Idle] BY DEF SharedInit
  <2> QED BY <2>1, QueueInits DEF cqueue_init
<1>2. Inv /\ [SharedNext]_Vars => Inv'
  <2> SUFFICES ASSUME Inv, [SharedNext]_Vars, kind' = "cqueue"
               PROVE  "slipped" \in DOMAIN sh' /\ (~sh'.slipped => QueueInv')
    OBVIOUS
  <2>0. kind = "cqueue" /\ "slipped" \in DOMAIN sh /\ (UNCHANGED Vars \/ QueueNext) BY KindStays
  <2>a. "slipped" \in DOMAIN sh' /\ (sh.slipped => sh'.slipped) BY <2>0, SlippedStays DEF Vars
  <2> SUFFICES ASSUME ~sh'.slipped PROVE QueueInv' BY <2>a
  <2>1. kind = "cqueue" /\ QueueInv BY <2>0, <2>a
  <2>2. UNCHANGED Vars \/ QueueNext BY <2>1, KindStays
  <2>3. CASE UNCHANGED Vars
    <3>1. sh' = sh /\ loc' = loc BY <2>3 DEF Vars
    <3>2. QueueTypes' BY <2>1, <3>1 DEF QueueInv, QueueTypes, QueueLocals
    <3>3. QueueApart' BY <2>1, <3>1 DEF QueueInv, QueueApart
    <3>4. PICK p : QueueNodes(p) BY <2>1 DEF QueueInv
    <3>5. Line(p)' BY <3>1, <3>4 DEF QueueNodes, Line, Linear
    <3>6. NodesHeld(p)' BY <3>1, <3>4 DEF QueueNodes, NodesHeld, Holds, Held, At
    <3>7. TailNear(p)' BY <3>1, <3>4 DEF QueueNodes, TailNear
    <3>8. \A t \in Threads : Enqueuing(t, p)' BY <3>1, <3>4 DEF QueueNodes, Enqueuing, At
    <3>9. \A t \in Threads : Dequeuing(t, p)' BY <3>1, <3>4 DEF QueueNodes, Dequeuing, At
    <3>10. QueueNodes(p)' BY <3>5, <3>6, <3>7, <3>8, <3>9 DEF QueueNodes
    <3>11. CountLags' BY <2>1, <3>1 DEF QueueInv, CountLags, Raising, Lowering
    <3> QED BY <2>1, <3>1, <3>2, <3>3, <3>10, <3>11 DEF QueueInv
  <2>4. CASE QueueNext BY <2>1, <2>4, QueueInvSteps
  <2> QED BY <2>2, <2>3, <2>4
<1>3. Inv => QueueInOrder BY QueueInvEnough DEF QueueInOrder
<1> QED BY <1>1, <1>2, <1>3, PTL DEF SharedSpec

-----------------------------------------------------------------------------
(* scl_cunionfind *)

UnionLocals(t) ==
  LET me == loc[t]
  IN \/ me.pc = "idle" /\ me.op = "none" /\ DOMAIN me = {"op", "pc"}
     \/ /\ me.pc \in {"load", "grand", "halve", "link", "rise", "fewer"}
        /\ {"op", "pc", "x", "from"} \subseteq DOMAIN me /\ me.x \in Points /\ me.from \in Points
        /\ \/ me.op = "find" /\ "rx" \notin DOMAIN me
           \/ me.op \in {"connected", "union"} /\ "y" \in DOMAIN me /\ me.y \in Points
        /\ me.op = "connected" => "seen" \in DOMAIN me
        /\ "rx" \in DOMAIN me => me.rx \in Points
        /\ me.pc \in {"grand", "halve"} => "p" \in DOMAIN me /\ me.p \in Points
        /\ me.pc = "halve" => "gp" \in DOMAIN me /\ me.gp \in Points
        /\ me.pc \in {"link", "rise", "fewer"} =>
             me.op = "union" /\ {"rx", "ry", "kx", "ky"} \subseteq DOMAIN me /\ me.ry \in Points

UnionTypes ==
  /\ DOMAIN loc = Threads /\ \A t \in Threads : UnionLocals(t)
  /\ DOMAIN sh = {"parent", "rank", "sets", "class", "links", "bad", "calls"}
  /\ sh.parent \in [Points -> Points] /\ sh.links \in Nat

OneUnion == \A t, u \in Threads : loc[t].op = "union" /\ loc[u].op = "union" => t = u

IsRoot(x) == sh.parent[x] = x
Roots == {x \in Points : IsRoot(x)}

\* f has the root of each point, and h grows from a point to its parent.
Below(f, r) == {x \in Points : f[x] = r}
Forest(f, h) ==
  /\ f \in [Points -> Points] /\ h \in [Points -> Nat]
  /\ \A x \in Points :
       /\ f[sh.parent[x]] = f[x] /\ IsRoot(f[x])
       /\ IF IsRoot(x) THEN f[x] = x ELSE h[x] < h[sh.parent[x]]
  /\ sh.class = {Below(f, r) : r \in Roots}

\* A walk stays below the root it started from, and sees parents that were
\* once right.
Walking(t) == loc[t].pc \in {"load", "grand", "halve"}
Knows(t) == "rx" \in DOMAIN loc[t]
WalkKept(t, f, h) ==
  LET me == loc[t]
  IN /\ Knows(t) => f[me.rx] = f[me.from]
     /\ Walking(t) => f[me.x] = f[IF Knows(t) THEN me.y ELSE me.from]
     /\ me.pc \in {"grand", "halve"} => ~IsRoot(me.x) /\ f[me.p] = f[me.x] /\ h[me.x] < h[me.p]
     /\ At(t, "halve") => f[me.gp] = f[me.p] /\ (me.gp = me.p \/ (~IsRoot(me.p) /\ h[me.p] < h[me.gp]))
\* Only the union itself moves the roots it found; connected can tell whether a
\* union moved the first of its own.
RootsKept(t, f) ==
  LET me == loc[t]
  IN /\ me.op = "union" /\ Knows(t) /\ me.pc \notin {"rise", "fewer"} => IsRoot(me.rx)
     /\ At(t, "link") => IsRoot(me.ry) /\ me.rx # me.ry /\ f[me.ry] = f[me.y]
     /\ me.op = "connected" =>
          /\ me.seen \in Nat /\ me.seen <= sh.links
          /\ Knows(t) /\ me.seen = sh.links => IsRoot(me.rx)
ForestOf(f, h) == Forest(f, h) /\ \A t \in Threads : WalkKept(t, f, h) /\ RootsKept(t, f)

\* The number of sets is lowered after the link.
Linking == {t \in Threads : loc[t].pc \in {"rise", "fewer"}}
SetsLag == sh.sets \in Int /\ sh.sets = Cardinality(Roots) + Cardinality(Linking)

UnionInv ==
  UnionTypes /\ OneUnion /\ (\E f, h : ForestOf(f, h)) /\ SetsLag /\ ~sh.bad
\* A step of t that leaves the forest alone.
LEMMA UnionStill ==
  ASSUME UnionInv, NEW t \in Threads, Others(t), UnionLocals(t)', DOMAIN sh' = DOMAIN sh,
         sh'.parent = sh.parent, sh'.class = sh.class, sh'.links = sh.links, ~sh'.bad,
         loc'[t].op = "union" => \A u \in Threads : u # t => loc[u].op # "union",
         \A f, h : ForestOf(f, h) => WalkKept(t, f, h)' /\ RootsKept(t, f)',
         SetsLag'
  PROVE  UnionInv'
<1>0. UnionTypes /\ OneUnion BY DEF UnionInv
<1>1. PICK f, h : ForestOf(f, h) BY DEF UnionInv
<1>2. \A u \in Threads : u # t => loc'[u] = loc[u] BY DEF Others
<1>3. UnionTypes'
  <2>1. \A u \in Threads : u # t => UnionLocals(u)' BY <1>0, <1>2 DEF UnionTypes, UnionLocals
  <2>2. DOMAIN loc' = Threads BY DEF Others
  <2> QED BY <1>0, <2>1, <2>2 DEF UnionTypes
<1>4. OneUnion' BY <1>0, <1>2 DEF OneUnion
<1>5. Forest(f, h)'
  <2>1. Roots' = Roots BY DEF Roots, IsRoot
  <2> QED BY <1>1, <2>1 DEF ForestOf, Forest, IsRoot
<1>6. ASSUME NEW u \in Threads PROVE WalkKept(u, f, h)' /\ RootsKept(u, f)'
  <2>1. CASE u = t BY <1>1, <2>1
  <2>2. CASE u # t
    <3>1. WalkKept(u, f, h) /\ RootsKept(u, f) /\ loc'[u] = loc[u] BY <1>1, <1>2, <2>2 DEF ForestOf
    <3> QED BY <3>1 DEF WalkKept, RootsKept, Knows, Walking, IsRoot, At
  <2> QED BY <2>1, <2>2
<1>7. ForestOf(f, h)' BY <1>5, <1>6 DEF ForestOf
<1>8. \E g, k : ForestOf(g, k)' BY <1>7
<1> QED BY <1>3, <1>4, <1>8 DEF UnionInv

LEMMA SetsStill ==
  ASSUME SetsLag, NEW t \in Threads, Others(t), sh'.parent = sh.parent, sh'.sets = sh.sets,
         t \in Linking' <=> t \in Linking
  PROVE  SetsLag'
<1>1. Roots' = Roots BY DEF Roots, IsRoot
<1>2. Linking' = Linking BY DEF Linking, Others
<1> QED BY <1>1, <1>2 DEF SetsLag

LEMMA UnionFacts ==
  ASSUME UnionInv, NEW t \in Threads
  PROVE  /\ UnionLocals(t) /\ DOMAIN loc = Threads /\ ~sh.bad /\ SetsLag
         /\ DOMAIN sh = {"parent", "rank", "sets", "class", "links", "bad", "calls"}
         /\ sh.parent \in [Points -> Points] /\ sh.links \in Nat
         /\ loc[t].op = "union" => \A u \in Threads : u # t => loc[u].op # "union"
BY DEF UnionInv, UnionTypes, OneUnion

\* The first step of find, connected and union.
LEMMA UnionBegins ==
  ASSUME "cunionfind" \notin Overlap, kind = "cunionfind", UnionInv, NEW t \in Threads,
         NEW x \in Points, NEW y \in Points,
         cunionfind_find(t, x) \/ cunionfind_connected(t, x, y) \/ cunionfind_union(t, x, y)
  PROVE  UnionInv'
<1>0. /\ UnionLocals(t) /\ DOMAIN loc = Threads /\ ~sh.bad /\ SetsLag
      /\ DOMAIN sh = {"parent", "rank", "sets", "class", "links", "bad", "calls"} /\ sh.links \in Nat
  BY UnionFacts
<1>1. PICK op, r :
        /\ op \in {"find", "connected", "union"} /\ Begin(t, op, sh, r)
        /\ r = IF op = "find" THEN [pc |-> "load", x |-> x, from |-> x]
               ELSE IF op = "connected"
               THEN [pc |-> "load", x |-> x, from |-> x, y |-> y, seen |-> sh.links]
               ELSE [pc |-> "load", x |-> x, from |-> x, y |-> y]
  BY DEF cunionfind_find, cunionfind_connected, cunionfind_union
<1>2. /\ sh' = [sh EXCEPT !.calls = @ + 1] /\ At(t, "idle")
      /\ loc' = [loc EXCEPT ![t] = With([op |-> op], r)]
      /\ \A o \in Running : {op, o} \notin Clash
  BY <1>1 DEF Begin
<1>3. /\ Others(t) /\ DOMAIN sh' = DOMAIN sh /\ sh'.parent = sh.parent /\ sh'.class = sh.class
      /\ sh'.links = sh.links /\ sh'.bad = sh.bad /\ sh'.sets = sh.sets
  BY <1>0, <1>2 DEF Others
<1>4. /\ loc'[t].op = op /\ loc'[t].pc = "load" /\ loc'[t].x = x /\ loc'[t].from = x
      /\ op # "find" => loc'[t].y = y /\ "y" \in DOMAIN loc'[t]
      /\ op = "connected" => loc'[t].seen = sh.links /\ "seen" \in DOMAIN loc'[t]
      /\ {"op", "pc", "x", "from"} \subseteq DOMAIN loc'[t]
      /\ "rx" \notin DOMAIN loc'[t]
  <2>1. loc'[t] = With([op |-> op], r) BY <1>0, <1>2
  <2>2. CASE op = "find" BY <1>1, <2>1, <2>2 DEF With
  <2>3. CASE op = "connected" BY <1>1, <2>1, <2>3 DEF With
  <2>4. CASE op = "union" BY <1>1, <2>1, <2>4 DEF With
  <2> QED BY <1>1, <2>2, <2>3, <2>4
<1>4a. op \in {"find", "connected", "union"} BY <1>1
<1>5. UnionLocals(t)' BY <1>4, <1>4a DEF UnionLocals
<1>6. loc'[t].op = "union" => \A u \in Threads : u # t => loc[u].op # "union"
  BY <1>2, <1>4 DEF Running, Clash
<1>7. ASSUME NEW f, NEW h, ForestOf(f, h) PROVE WalkKept(t, f, h)' /\ RootsKept(t, f)'
  BY <1>0, <1>3, <1>4 DEF WalkKept, RootsKept, Knows, Walking, At
<1>8. SetsLag'
  BY <1>0, <1>2, <1>3, <1>4, SetsStill DEF Linking, At
<1> QED BY <1>0, <1>3, <1>5, <1>6, <1>7, <1>8, UnionStill

\* A call that ends without having moved a root.
LEMMA UnionReturns ==
  ASSUME UnionInv, NEW t \in Threads, loc' = [loc EXCEPT ![t] = Idle], Walking(t),
         DOMAIN sh' = DOMAIN sh, sh'.parent = sh.parent, sh'.class = sh.class,
         sh'.links = sh.links, sh'.sets = sh.sets, ~sh'.bad
  PROVE  UnionInv'
<1>0. DOMAIN loc = Threads /\ SetsLag BY UnionFacts
<1>1. Others(t) /\ loc'[t] = Idle BY <1>0 DEF Others
<1>2. UnionLocals(t)' BY <1>1 DEF UnionLocals, Idle
<1>3. loc'[t].op # "union" BY <1>1 DEF Idle
<1>4. ASSUME NEW f, NEW h, ForestOf(f, h) PROVE WalkKept(t, f, h)' /\ RootsKept(t, f)'
  BY <1>1 DEF WalkKept, RootsKept, Knows, Walking, At, Idle
<1>5. SetsLag' BY <1>0, <1>1, SetsStill DEF Linking, Walking, Idle
<1> QED BY <1>1, <1>2, <1>3, <1>4, <1>5, UnionStill

\* The classes are the points below one root.
LEMMA SameRoot ==
  ASSUME NEW f, NEW h, Forest(f, h), NEW x \in Points, NEW y \in Points
  PROVE  Same(x, y) <=> f[x] = f[y]
<1>1. f[x] \in Roots BY DEF Forest, Roots
<1>2. f[x] = f[y] => x \in Below(f, f[x]) /\ y \in Below(f, f[x]) BY DEF Below
<1>3. Below(f, f[x]) \in sh.class BY <1>1 DEF Forest
<1>4. f[x] = f[y] => Same(x, y) BY <1>2, <1>3 DEF Same
<1>5. Same(x, y) => f[x] = f[y] BY DEF Same, Forest, Below
<1> QED BY <1>4, <1>5

\* The walk has come to a root.
LEMMA FindEnds ==
  ASSUME UnionInv, NEW t \in Threads, At(t, "load"), IsRoot(loc[t].x), Found(t, loc[t].x)
  PROVE  UnionInv'
<1> DEFINE me == loc[t]
<1>0. /\ UnionLocals(t) /\ DOMAIN loc = Threads /\ ~sh.bad /\ SetsLag
      /\ DOMAIN sh = {"parent", "rank", "sets", "class", "links", "bad", "calls"}
      /\ sh.parent \in [Points -> Points] /\ sh.links \in Nat
      /\ me.op = "union" => \A u \in Threads : u # t => loc[u].op # "union"
  BY UnionFacts
<1>1. PICK f, h : ForestOf(f, h) BY DEF UnionInv
<1>2. /\ Forest(f, h) /\ WalkKept(t, f, h) /\ RootsKept(t, f) BY <1>1 DEF ForestOf
<1>3. /\ me.pc = "load" /\ me.x \in Points /\ me.from \in Points
      /\ {"op", "pc", "x", "from"} \subseteq DOMAIN me
      /\ \/ me.op = "find" /\ "rx" \notin DOMAIN me
         \/ me.op \in {"connected", "union"} /\ "y" \in DOMAIN me /\ me.y \in Points
      /\ me.op = "connected" => "seen" \in DOMAIN me
      /\ "rx" \in DOMAIN me => me.rx \in Points
  BY <1>0 DEF UnionLocals, At
<1>4. Walking(t) /\ f[me.x] = me.x BY <1>2, <1>3 DEF Walking, Forest
<1>5. /\ Knows(t) => f[me.rx] = f[me.from] /\ me.x = f[me.y]
      /\ ~Knows(t) => me.x = f[me.from]
  BY <1>2, <1>4 DEF WalkKept
<1>6. CASE \E wrong \in BOOLEAN : ~wrong /\ Return(t, Spoilt(sh, wrong))
  <2>1. PICK wrong \in BOOLEAN : ~wrong /\ Return(t, Spoilt(sh, wrong)) BY <1>6
  <2>2. loc' = [loc EXCEPT ![t] = Idle] /\ sh' = [sh EXCEPT !.bad = @ \/ wrong]
    BY <2>1 DEF Return, Spoilt
  <2>3. /\ DOMAIN sh' = DOMAIN sh /\ sh'.parent = sh.parent /\ sh'.class = sh.class
        /\ sh'.links = sh.links /\ sh'.sets = sh.sets /\ sh'.bad = (sh.bad \/ wrong)
    BY <1>0, <2>2
  <2>4. ~sh'.bad BY <1>0, <2>1, <2>3
  <2> QED BY <1>4, <2>2, <2>3, <2>4, UnionReturns
<1>7. CASE me.op = "find"
  <2>1. Same(me.from, me.x) BY <1>2, <1>3, <1>4, <1>5, <1>7, SameRoot DEF Knows
  <2>2. Return(t, Spoilt(sh, ~Same(me.from, me.x))) BY <1>7 DEF Found
  <2>3. (~Same(me.from, me.x)) \in BOOLEAN BY DEF Same
  <2> QED BY <1>6, <2>1, <2>2, <2>3
<1>8. CASE me.op # "find" /\ ~Knows(t)
  <2>1. Move(t, sh, [rx |-> me.x, x |-> me.y]) BY <1>8 DEF Found, Knows
  <2>2. sh' = sh /\ loc' = [loc EXCEPT ![t] = With(@, [rx |-> me.x, x |-> me.y])] BY <2>1 DEF Move
  <2>3. /\ Others(t) /\ DOMAIN loc'[t] = DOMAIN me \cup {"rx", "x"} /\ loc'[t].rx = me.x
        /\ loc'[t].x = me.y /\ loc'[t].pc = "load" /\ loc'[t].from = me.from /\ loc'[t].y = me.y
        /\ loc'[t].op = me.op /\ (me.op = "connected" => loc'[t].seen = me.seen)
    <3>1. loc'[t] = With(me, [rx |-> me.x, x |-> me.y]) BY <1>0, <2>2
    <3>2. Others(t) BY <1>0, <2>2 DEF Others
    <3> QED BY <1>3, <1>8, <3>1, <3>2 DEF With
  <2>4. UnionLocals(t)' BY <1>3, <1>8, <2>3 DEF UnionLocals
  <2>5. ASSUME NEW g, NEW k, ForestOf(g, k) PROVE WalkKept(t, g, k)' /\ RootsKept(t, g)'
    <3>1. Forest(g, k) /\ WalkKept(t, g, k) /\ RootsKept(t, g) BY <2>5 DEF ForestOf
    <3>2. g[me.x] = g[me.from] BY <1>4, <1>8, <3>1 DEF WalkKept
    <3>3. WalkKept(t, g, k)' BY <2>3, <3>2 DEF WalkKept, Knows, Walking, At
    <3>4. RootsKept(t, g)' BY <2>2, <2>3, <3>1 DEF RootsKept, Knows, At, IsRoot
    <3> QED BY <3>3, <3>4
  <2>6. SetsLag' BY <1>0, <1>3, <2>2, <2>3, SetsStill DEF Linking
  <2> QED BY <1>0, <2>2, <2>3, <2>4, <2>5, <2>6, UnionStill
<1>9. CASE me.op = "connected" /\ Knows(t)
  <2> DEFINE wrong == IF me.rx = me.x THEN ~Same(me.from, me.y)
                      ELSE Same(me.from, me.y) /\ sh.links = me.seen
  <2>1. Return(t, Spoilt(sh, wrong)) BY <1>9 DEF Found, Knows
  <2>2. Same(me.from, me.y) <=> f[me.rx] = me.x
    BY <1>2, <1>3, <1>5, <1>9, SameRoot
  <2>3. CASE me.rx = me.x
    <3>1. f[me.rx] = me.x BY <1>4, <2>3
    <3>2. ~wrong BY <2>2, <2>3, <3>1
    <3>3. wrong \in BOOLEAN BY DEF Same
    <3> QED BY <1>6, <2>1, <3>2, <3>3
  <2>4. CASE me.rx # me.x
    <3>1. sh.links = me.seen => f[me.rx] = me.rx
      BY <1>2, <1>3, <1>9 DEF RootsKept, Forest, Knows
    <3>2. ~wrong BY <2>2, <2>4, <3>1
    <3>3. wrong \in BOOLEAN BY DEF Same
    <3> QED BY <1>6, <2>1, <3>2, <3>3
  <2> QED BY <2>3, <2>4
<1>10. CASE me.op = "union" /\ Knows(t) /\ me.rx = me.x
  <2>1. Return(t, sh) BY <1>10 DEF Found, Knows
  <2> QED BY <1>0, <1>4, <2>1, UnionReturns DEF Return
<1>11. CASE me.op = "union" /\ Knows(t) /\ me.rx # me.x
  <2> DEFINE r == [pc |-> "link", ry |-> me.x, kx |-> sh.rank[me.rx], ky |-> sh.rank[me.x]]
  <2>1. Move(t, sh, r) BY <1>11 DEF Found, Knows
  <2>2. sh' = sh /\ loc' = [loc EXCEPT ![t] = With(@, r)] BY <2>1 DEF Move
  <2>3. /\ Others(t) /\ DOMAIN loc'[t] = DOMAIN me \cup {"pc", "ry", "kx", "ky"} /\ loc'[t].rx = me.rx
        /\ loc'[t].x = me.x /\ loc'[t].pc = "link" /\ loc'[t].from = me.from /\ loc'[t].y = me.y
        /\ loc'[t].op = me.op /\ loc'[t].ry = me.x
    <3>1. loc'[t] = With(me, r) BY <1>0, <2>2
    <3>2. Others(t) BY <1>0, <2>2 DEF Others
    <3> QED BY <1>3, <1>11, <3>1, <3>2 DEF With, Knows
  <2>4. UnionLocals(t)' BY <1>3, <1>11, <2>3 DEF UnionLocals, Knows
  <2>5. ASSUME NEW g, NEW k, ForestOf(g, k) PROVE WalkKept(t, g, k)' /\ RootsKept(t, g)'
    <3>1. Forest(g, k) /\ WalkKept(t, g, k) /\ RootsKept(t, g) BY <2>5 DEF ForestOf
    <3>2. g[me.x] = g[me.y] /\ g[me.rx] = g[me.from] BY <1>4, <1>11, <3>1 DEF WalkKept
    <3>3. WalkKept(t, g, k)' BY <2>3, <3>2 DEF WalkKept, Knows, Walking, At
    <3>4. RootsKept(t, g)'
      BY <1>3, <1>11, <2>2, <2>3, <3>1, <3>2 DEF RootsKept, Knows, At, IsRoot
    <3> QED BY <3>3, <3>4
  <2>6. SetsLag' BY <1>0, <1>3, <2>2, <2>3, SetsStill DEF Linking
  <2> QED BY <1>0, <2>2, <2>3, <2>4, <2>5, <2>6, UnionStill
<1> QED BY <1>3, <1>7, <1>8, <1>9, <1>10, <1>11

\* The walk reads the parent and then the grandparent.
LEMMA FindReads ==
  ASSUME UnionInv, NEW t \in Threads,
         \/ /\ At(t, "load") /\ ~IsRoot(loc[t].x)
            /\ Move(t, sh, [pc |-> "grand", p |-> sh.parent[loc[t].x]])
         \/ At(t, "grand") /\ Move(t, sh, [pc |-> "halve", gp |-> sh.parent[loc[t].p]])
         \/ /\ At(t, "halve") /\ sh.parent[loc[t].x] # loc[t].p
            /\ Move(t, sh, [pc |-> "load", x |-> sh.parent[loc[t].x]])
  PROVE  UnionInv'
<1> DEFINE me == loc[t]
<1>0. /\ UnionLocals(t) /\ DOMAIN loc = Threads /\ ~sh.bad /\ SetsLag
      /\ DOMAIN sh = {"parent", "rank", "sets", "class", "links", "bad", "calls"}
      /\ sh.parent \in [Points -> Points] /\ sh.links \in Nat
      /\ me.op = "union" => \A u \in Threads : u # t => loc[u].op # "union"
  BY UnionFacts
<1>1. PICK r :
        /\ sh' = sh /\ loc' = [loc EXCEPT ![t] = With(@, r)]
        /\ \/ me.pc = "load" /\ ~IsRoot(me.x) /\ r = [pc |-> "grand", p |-> sh.parent[me.x]]
           \/ me.pc = "grand" /\ r = [pc |-> "halve", gp |-> sh.parent[me.p]]
           \/ me.pc = "halve" /\ r = [pc |-> "load", x |-> sh.parent[me.x]]
  BY DEF Move, At
<1>2. Others(t) /\ loc'[t] = With(me, r) BY <1>0, <1>1 DEF Others
<1>3. /\ me.x \in Points /\ me.from \in Points
      /\ {"op", "pc", "x", "from"} \subseteq DOMAIN me
      /\ \/ me.op = "find" /\ "rx" \notin DOMAIN me
         \/ me.op \in {"connected", "union"} /\ "y" \in DOMAIN me /\ me.y \in Points
      /\ me.op = "connected" => "seen" \in DOMAIN me
      /\ "rx" \in DOMAIN me => me.rx \in Points
      /\ me.pc \in {"grand", "halve"} => "p" \in DOMAIN me /\ me.p \in Points
  BY <1>0, <1>1 DEF UnionLocals
<1>4. /\ loc'[t].op = me.op /\ loc'[t].from = me.from /\ loc'[t].pc \in {"load", "grand", "halve"}
      /\ DOMAIN me \subseteq DOMAIN loc'[t] /\ (Knows(t)' <=> Knows(t))
      /\ "y" \in DOMAIN me => loc'[t].y = me.y
      /\ "seen" \in DOMAIN me => loc'[t].seen = me.seen
      /\ "rx" \in DOMAIN me => loc'[t].rx = me.rx
  BY <1>1, <1>2, <1>3 DEF With, Knows
<1>5. /\ me.pc = "load" => loc'[t].pc = "grand" /\ loc'[t].x = me.x /\ loc'[t].p = sh.parent[me.x]
                           /\ "p" \in DOMAIN loc'[t]
      /\ me.pc = "grand" => /\ loc'[t].pc = "halve" /\ loc'[t].x = me.x /\ loc'[t].p = me.p
                            /\ loc'[t].gp = sh.parent[me.p] /\ {"p", "gp"} \subseteq DOMAIN loc'[t]
      /\ me.pc = "halve" => loc'[t].pc = "load" /\ loc'[t].x = sh.parent[me.x]
  BY <1>1, <1>2, <1>3 DEF With
<1>6. UnionLocals(t)'
  <2>1. loc'[t].x \in Points BY <1>0, <1>1, <1>3, <1>5
  <2>2. loc'[t].pc \in {"grand", "halve"} => "p" \in DOMAIN loc'[t] /\ loc'[t].p \in Points
    BY <1>0, <1>1, <1>3, <1>5
  <2>3. loc'[t].pc = "halve" => "gp" \in DOMAIN loc'[t] /\ loc'[t].gp \in Points
    BY <1>0, <1>1, <1>3, <1>5
  <2> QED BY <1>3, <1>4, <2>1, <2>2, <2>3 DEF UnionLocals, Knows
<1>7. ASSUME NEW f, NEW h, ForestOf(f, h) PROVE WalkKept(t, f, h)' /\ RootsKept(t, f)'
  <2>1. Forest(f, h) /\ WalkKept(t, f, h) /\ RootsKept(t, f) BY <1>7 DEF ForestOf
  <2>2. RootsKept(t, f)'
    BY <1>1, <1>3, <1>4, <2>1 DEF RootsKept, Knows, At, IsRoot
  <2>3. f[loc'[t].x] = f[me.x] BY <1>1, <1>3, <1>5, <2>1 DEF Forest
  <2>4. f[me.x] = f[IF Knows(t) THEN me.y ELSE me.from] /\ (Knows(t) => f[me.rx] = f[me.from])
    BY <1>1, <2>1 DEF WalkKept, Walking
  <2>5. f[loc'[t].x] = f[IF Knows(t)' THEN loc'[t].y ELSE loc'[t].from]
        /\ (Knows(t)' => f[loc'[t].rx] = f[loc'[t].from])
    BY <1>3, <1>4, <2>3, <2>4 DEF Knows
  <2>6. loc'[t].pc \in {"grand", "halve"} =>
          sh'.parent[loc'[t].x] # loc'[t].x /\ f[loc'[t].p] = f[loc'[t].x] /\ h[loc'[t].x] < h[loc'[t].p]
    BY <1>1, <1>3, <1>5, <2>1 DEF WalkKept, Forest, IsRoot
  <2>7. loc'[t].pc = "halve" =>
          /\ f[loc'[t].gp] = f[loc'[t].p]
          /\ (loc'[t].gp = loc'[t].p \/ (sh'.parent[loc'[t].p] # loc'[t].p /\ h[loc'[t].p] < h[loc'[t].gp]))
    BY <1>1, <1>3, <1>5, <2>1 DEF Forest, IsRoot
  <2>8. WalkKept(t, f, h)' BY <2>5, <2>6, <2>7 DEF WalkKept, At, IsRoot
  <2> QED BY <2>2, <2>8
<1>8. SetsLag' BY <1>0, <1>1, <1>2, <1>4, SetsStill DEF Linking
<1> QED BY <1>0, <1>1, <1>2, <1>4, <1>6, <1>7, <1>8, UnionStill

\* Path halving: a point is hung below its grandparent, or what was that.
LEMMA FindHalves ==
  ASSUME UnionInv, NEW t \in Threads, At(t, "halve"), sh.parent[loc[t].x] = loc[t].p,
         Move(t, [sh EXCEPT !.parent[loc[t].x] = loc[t].gp], [pc |-> "load", x |-> loc[t].p])
  PROVE  UnionInv'
<1> DEFINE me == loc[t]
<1>0. /\ UnionLocals(t) /\ DOMAIN loc = Threads /\ ~sh.bad /\ SetsLag
      /\ DOMAIN sh = {"parent", "rank", "sets", "class", "links", "bad", "calls"}
      /\ sh.parent \in [Points -> Points] /\ sh.links \in Nat /\ OneUnion /\ UnionTypes
  BY UnionFacts DEF UnionInv
<1>1. PICK f, h : ForestOf(f, h) BY DEF UnionInv
<1>2. /\ Forest(f, h) /\ WalkKept(t, f, h) /\ RootsKept(t, f) BY <1>1 DEF ForestOf
<1>3. /\ me.pc = "halve" /\ me.x \in Points /\ me.from \in Points /\ me.p \in Points /\ me.gp \in Points
      /\ {"op", "pc", "x", "from"} \subseteq DOMAIN me
      /\ \/ me.op = "find" /\ "rx" \notin DOMAIN me
         \/ me.op \in {"connected", "union"} /\ "y" \in DOMAIN me /\ me.y \in Points
      /\ me.op = "connected" => "seen" \in DOMAIN me
      /\ "rx" \in DOMAIN me => me.rx \in Points
  BY <1>0 DEF UnionLocals, At
<1>4. sh' = [sh EXCEPT !.parent[me.x] = me.gp]
      /\ loc' = [loc EXCEPT ![t] = With(@, [pc |-> "load", x |-> me.p])]
  BY DEF Move
<1>5. /\ DOMAIN sh' = DOMAIN sh /\ sh'.parent = [sh.parent EXCEPT ![me.x] = me.gp]
      /\ sh'.class = sh.class /\ sh'.links = sh.links /\ sh'.sets = sh.sets /\ sh'.bad = sh.bad
  BY <1>0, <1>4
<1>6. /\ Others(t) /\ DOMAIN loc'[t] = DOMAIN me /\ loc'[t].pc = "load" /\ loc'[t].x = me.p
      /\ loc'[t].op = me.op /\ loc'[t].from = me.from
      /\ "y" \in DOMAIN me => loc'[t].y = me.y
      /\ "seen" \in DOMAIN me => loc'[t].seen = me.seen
      /\ "rx" \in DOMAIN me => loc'[t].rx = me.rx
  <2>1. loc'[t] = With(me, [pc |-> "load", x |-> me.p]) BY <1>0, <1>4
  <2>2. Others(t) BY <1>0, <1>4 DEF Others
  <2> QED BY <1>3, <2>1, <2>2 DEF With
<1>7. /\ f \in [Points -> Points] /\ h \in [Points -> Nat] /\ f[me.gp] = f[me.x] /\ f[me.p] = f[me.x]
      /\ h[me.x] < h[me.gp] /\ me.gp # me.x /\ sh.parent[me.x] # me.x
  <2>1. f \in [Points -> Points] /\ h \in [Points -> Nat] BY <1>2 DEF Forest
  <2>2. /\ ~IsRoot(me.x) /\ f[me.p] = f[me.x] /\ h[me.x] < h[me.p] /\ f[me.gp] = f[me.p]
        /\ (me.gp = me.p \/ h[me.p] < h[me.gp])
    BY <1>2, <1>3 DEF WalkKept, At
  <2>3. h[me.x] < h[me.gp] BY <1>3, <2>1, <2>2
  <2> QED BY <1>3, <2>1, <2>2, <2>3 DEF IsRoot
<1>8. \A z \in Points : IsRoot(z)' <=> IsRoot(z)
  BY <1>0, <1>3, <1>5, <1>7 DEF IsRoot
<1>9. Roots' = Roots BY <1>8 DEF Roots
<1>10. Forest(f, h)'
  <2>1. ASSUME NEW z \in Points
        PROVE  /\ f[sh'.parent[z]] = f[z] /\ IsRoot(f[z])'
               /\ IF IsRoot(z)' THEN f[z] = z ELSE h[z] < h[sh'.parent[z]]
    <3>1. /\ f[sh.parent[z]] = f[z] /\ IsRoot(f[z]) /\ f[z] \in Points
          /\ IF IsRoot(z) THEN f[z] = z ELSE h[z] < h[sh.parent[z]]
      BY <1>2 DEF Forest
    <3>2. IsRoot(f[z])' /\ (IsRoot(z)' <=> IsRoot(z)) BY <1>8, <3>1
    <3>3. sh'.parent[z] = IF z = me.x THEN me.gp ELSE sh.parent[z] BY <1>0, <1>3, <1>5
    <3>4. ~IsRoot(me.x) BY <1>7 DEF IsRoot
    <3> QED BY <1>7, <3>1, <3>2, <3>3, <3>4
  <2> QED BY <1>2, <1>5, <1>9, <2>1 DEF Forest
<1>11. ASSUME NEW u \in Threads PROVE WalkKept(u, f, h)' /\ RootsKept(u, f)'
  <2>1. WalkKept(u, f, h) /\ RootsKept(u, f) /\ UnionLocals(u)
    BY <1>0, <1>1 DEF ForestOf, UnionTypes
  <2>2. CASE u = t
    <3>1. f[me.p] = f[IF Knows(t) THEN me.y ELSE me.from] /\ (Knows(t) => f[me.rx] = f[me.from])
      BY <1>2, <1>3, <1>7 DEF WalkKept, Walking
    <3>2. WalkKept(t, f, h)' BY <1>3, <1>6, <3>1 DEF WalkKept, Knows, Walking, At
    <3>3. RootsKept(t, f)'
      BY <1>2, <1>3, <1>5, <1>6, <1>8 DEF RootsKept, Knows, At
    <3> QED BY <2>2, <3>2, <3>3
  <2>3. CASE u # t
    <3>1. loc'[u] = loc[u] BY <1>6, <2>3 DEF Others
    <3>2. WalkKept(u, f, h)'
      BY <1>8, <2>1, <3>1 DEF WalkKept, Knows, Walking, At, UnionLocals
    <3>3. RootsKept(u, f)'
      BY <1>5, <1>8, <2>1, <3>1 DEF RootsKept, Knows, At, UnionLocals
    <3> QED BY <3>2, <3>3
  <2> QED BY <2>2, <2>3
<1>12. UnionTypes'
  <2>1. sh'.parent \in [Points -> Points] BY <1>0, <1>3, <1>5
  <2>2. UnionLocals(t)' BY <1>3, <1>6 DEF UnionLocals
  <2>3. \A u \in Threads : u # t => UnionLocals(u)' BY <1>0, <1>6 DEF UnionTypes, UnionLocals, Others
  <2> QED BY <1>0, <1>5, <1>6, <2>1, <2>2, <2>3 DEF UnionTypes, Others
<1>13. OneUnion' BY <1>0, <1>6 DEF OneUnion, Others
<1>14. SetsLag'
  <2>1. Linking' = Linking BY <1>3, <1>6 DEF Linking, Others
  <2> QED BY <1>0, <1>5, <1>9, <2>1 DEF SetsLag
<1>15. ForestOf(f, h)' BY <1>10, <1>11 DEF ForestOf
<1>16. \E g, k : ForestOf(g, k)' BY <1>15
<1> QED BY <1>0, <1>5, <1>12, <1>13, <1>14, <1>16 DEF UnionInv

Hung(f, child, above) == [x \in Points |-> IF f[x] = child THEN above ELSE f[x]]
Higher(h, child, above) ==
  [h EXCEPT ![above] = IF h[above] > h[child] THEN h[above] ELSE h[child] + 1]
MergedClasses(a, b) == {c \in sh.class : a \in c \/ b \in c}
TwoRoots(f, child, above, a, b) ==
  /\ IsRoot(child) /\ IsRoot(above) /\ child # above /\ {f[a], f[b]} = {child, above}
NewParent(child, above) == sh'.parent = [sh.parent EXCEPT ![child] = above]
Coarser(g, f) == \A x, y \in Points : f[x] = f[y] => g[x] = g[y]
Grown(h, k) == \A x \in Points : k[x] >= h[x] /\ (~IsRoot(x) => k[x] = h[x] /\ ~IsRoot(x)')
NewClass(merged) == sh'.class = (sh.class \ merged) \cup {UNION merged}

\* A root is hung below another one: their classes become one.
LEMMA ForestLinked ==
  ASSUME NEW f, NEW h, NEW g, NEW k, Forest(f, h), sh.parent \in [Points -> Points],
         NEW child \in Points, NEW above \in Points, NEW a \in Points, NEW b \in Points,
         NEW merged, TwoRoots(f, child, above, a, b),
         g = Hung(f, child, above), k = Higher(h, child, above), merged = MergedClasses(a, b),
         NewParent(child, above), NewClass(merged)
  PROVE  Forest(g, k)' /\ Roots' = Roots \ {child} /\ Coarser(g, f) /\ Grown(h, k)
<1> USE DEF TwoRoots, Hung, Higher, MergedClasses, NewParent, NewClass
<1>1. /\ f \in [Points -> Points] /\ h \in [Points -> Nat]
      /\ \A x \in Points : /\ f[sh.parent[x]] = f[x] /\ IsRoot(f[x])
                           /\ IF IsRoot(x) THEN f[x] = x ELSE h[x] < h[sh.parent[x]]
      /\ sh.class = {Below(f, r) : r \in Roots}
  BY DEF Forest
<1>2. g \in [Points -> Points] /\ \A x \in Points : g[x] = IF f[x] = child THEN above ELSE f[x]
  BY <1>1
<1>3. /\ k \in [Points -> Nat] /\ k[above] > h[child] /\ k[above] >= h[above]
      /\ \A x \in Points : x # above => k[x] = h[x]
  <2>1. h[above] \in Nat /\ h[child] \in Nat BY <1>1
  <2> QED BY <1>1, <2>1
<1>4. \A x \in Points : sh'.parent[x] = IF x = child THEN above ELSE sh.parent[x] OBVIOUS
<1>5. \A x \in Points : IsRoot(x)' <=> IsRoot(x) /\ x # child
  BY <1>4 DEF IsRoot
<1>6. Roots' = Roots \ {child} BY <1>5 DEF Roots
<1>7. \A x, y \in Points : f[x] = f[y] => g[x] = g[y] BY <1>2
<1>8. \A x \in Points : k[x] >= h[x] /\ (~IsRoot(x) => k[x] = h[x] /\ ~IsRoot(x)')
  BY <1>1, <1>3, <1>5
<1>9. ASSUME NEW x \in Points
      PROVE  /\ g[sh'.parent[x]] = g[x] /\ IsRoot(g[x])'
             /\ IF IsRoot(x)' THEN g[x] = x ELSE k[x] < k[sh'.parent[x]]
  <2>1. /\ f[sh.parent[x]] = f[x] /\ IsRoot(f[x]) /\ f[x] \in Points /\ sh.parent[x] \in Points
        /\ IF IsRoot(x) THEN f[x] = x ELSE h[x] < h[sh.parent[x]]
    BY <1>1
  <2>2. f[child] = child /\ f[above] = above BY <1>1
  <2>3. g[above] = above /\ g[child] = above BY <1>2, <2>2
  <2>4. g[sh'.parent[x]] = g[x]
    <3>1. CASE x = child BY <1>4, <2>3, <3>1
    <3>2. CASE x # child BY <1>4, <1>7, <2>1, <3>2
    <3> QED BY <3>1, <3>2
  <2>5. IsRoot(g[x])'
    <3>1. g[x] \in Points /\ IsRoot(g[x]) /\ g[x] # child BY <1>2, <2>1
    <3> QED BY <1>5, <3>1
  <2>6. IsRoot(x)' => g[x] = x BY <1>2, <1>5, <2>1
  <2>7. ~IsRoot(x)' => k[x] < k[sh'.parent[x]]
    <3>1. CASE x = child
      <4>1. sh'.parent[x] = above /\ k[x] = h[child] BY <1>3, <1>4, <3>1
      <4> QED BY <1>3, <4>1
    <3>2. CASE x # child /\ ~IsRoot(x)
      <4>1. sh'.parent[x] = sh.parent[x] /\ k[x] = h[x] BY <1>3, <1>4, <3>2
      <4>2. k[sh.parent[x]] >= h[sh.parent[x]] BY <1>8, <2>1
      <4>3. h[x] \in Nat /\ h[sh.parent[x]] \in Nat /\ k[sh.parent[x]] \in Nat BY <1>1, <1>3, <2>1
      <4> QED BY <2>1, <3>2, <4>1, <4>2, <4>3
    <3> QED BY <1>5, <3>1, <3>2
  <2> QED BY <2>4, <2>5, <2>6, <2>7
<1>10. sh'.class = {Below(g, r) : r \in Roots'}
  <2>1. child \in Roots /\ above \in Roots BY DEF Roots
  <2>2. ASSUME NEW r \in Roots PROVE Below(f, r) \in merged <=> r \in {child, above}
    <3>1. Below(f, r) \in sh.class BY <1>1
    <3>2. a \in Below(f, r) <=> f[a] = r BY DEF Below
    <3>3. b \in Below(f, r) <=> f[b] = r BY DEF Below
    <3> QED BY <3>1, <3>2, <3>3
  <2>3. UNION merged = Below(f, child) \cup Below(f, above)
    <3>1. Below(f, child) \in merged /\ Below(f, above) \in merged BY <2>1, <2>2
    <3>2. \A c \in merged : c = Below(f, child) \/ c = Below(f, above)
      <4> SUFFICES ASSUME NEW c \in merged PROVE c = Below(f, child) \/ c = Below(f, above) OBVIOUS
      <4>1. PICK r \in Roots : c = Below(f, r) BY <1>1
      <4> QED BY <2>2, <4>1
    <3> QED BY <3>1, <3>2
  <2>4. Below(g, above) = UNION merged
    BY <1>2, <2>3 DEF Below
  <2>5. \A r \in Roots : r \notin {child, above} => Below(g, r) = Below(f, r)
    BY <1>2 DEF Below
  <2>6. sh.class \ merged = {Below(f, r) : r \in Roots \ {child, above}}
    BY <1>1, <2>2
  <2>7. {Below(g, r) : r \in Roots \ {child}}
          = {Below(f, r) : r \in Roots \ {child, above}} \cup {Below(g, above)}
    BY <2>1, <2>5
  <2> QED BY <1>6, <2>4, <2>6, <2>7
<1>11. Forest(g, k)'
  BY <1>2, <1>3, <1>9, <1>10 DEF Forest
<1> QED BY <1>6, <1>7, <1>8, <1>11 DEF Coarser, Grown

\* Two roots become one, and the number of sets is lowered later.
LEMMA UnionLinks ==
  ASSUME UnionInv, NEW t \in Threads, LinkRoots(t), IsFiniteSet(Threads), IsFiniteSet(Points)
  PROVE  UnionInv'
<1> DEFINE me == loc[t]
<1>0. /\ UnionLocals(t) /\ DOMAIN loc = Threads /\ ~sh.bad /\ SetsLag
      /\ DOMAIN sh = {"parent", "rank", "sets", "class", "links", "bad", "calls"}
      /\ sh.parent \in [Points -> Points] /\ sh.links \in Nat /\ OneUnion /\ UnionTypes
  BY UnionFacts DEF UnionInv
<1>1. PICK f, h : ForestOf(f, h) BY DEF UnionInv
<1>2. /\ Forest(f, h) /\ WalkKept(t, f, h) /\ RootsKept(t, f) BY <1>1 DEF ForestOf
<1>3. /\ me.pc = "link" /\ me.op = "union" /\ Knows(t) /\ {"op", "pc", "x", "from", "y"} \subseteq DOMAIN me
      /\ {"rx", "ry", "kx", "ky"} \subseteq DOMAIN me
      /\ me.rx \in Points /\ me.ry \in Points /\ me.from \in Points /\ me.y \in Points /\ me.x \in Points
  BY <1>0 DEF UnionLocals, LinkRoots, At, Knows
<1>4. /\ IsRoot(me.rx) /\ IsRoot(me.ry) /\ me.rx # me.ry /\ f[me.ry] = f[me.y] /\ f[me.rx] = f[me.from]
  BY <1>2, <1>3 DEF RootsKept, WalkKept, At
<1>5. f[me.from] = me.rx /\ f[me.y] = me.ry BY <1>2, <1>3, <1>4 DEF Forest
<1>6. PICK child, above, merged :
        /\ child = IF me.kx < me.ky THEN me.rx ELSE me.ry
        /\ above = IF me.kx < me.ky THEN me.ry ELSE me.rx
        /\ merged = {c \in sh.class : me.from \in c \/ me.y \in c}
  OBVIOUS
<1>7. /\ child \in Points /\ above \in Points /\ IsRoot(child) /\ IsRoot(above) /\ child # above
      /\ {f[me.from], f[me.y]} = {child, above}
  BY <1>3, <1>4, <1>5, <1>6
<1>8. PICK l : l \in {"rise", "fewer"} /\
        Move(t, [sh EXCEPT !.parent[child] = above, !.links = @ + 1,
                           !.class = (@ \ merged) \cup {UNION merged}], To(l))
  BY <1>6, <1>7 DEF LinkRoots, IsRoot
<1>9. /\ sh' = [sh EXCEPT !.parent[child] = above, !.links = @ + 1,
                          !.class = (@ \ merged) \cup {UNION merged}]
      /\ loc' = [loc EXCEPT ![t] = With(@, [pc |-> l])]
  BY <1>8 DEF Move, To
<1>10. /\ DOMAIN sh' = DOMAIN sh /\ sh'.parent = [sh.parent EXCEPT ![child] = above]
       /\ sh'.class = (sh.class \ merged) \cup {UNION merged} /\ sh'.links = sh.links + 1
       /\ sh'.sets = sh.sets /\ sh'.bad = sh.bad
  BY <1>0, <1>9
<1>11. /\ Others(t) /\ DOMAIN loc'[t] = DOMAIN me /\ loc'[t].pc = l
       /\ \A field \in DOMAIN me : field # "pc" => loc'[t][field] = me[field]
  <2>1. loc'[t] = With(me, [pc |-> l]) BY <1>0, <1>9
  <2>2. Others(t) BY <1>0, <1>9 DEF Others
  <2> QED BY <1>3, <2>1, <2>2 DEF With
<1>12. /\ loc'[t].op = "union" /\ loc'[t].rx = me.rx /\ loc'[t].from = me.from /\ loc'[t].y = me.y
       /\ loc'[t].ry = me.ry /\ loc'[t].x = me.x
  BY <1>3, <1>11
<1>13. PICK g, k : g = Hung(f, child, above) /\ k = Higher(h, child, above) OBVIOUS
<1>14. /\ Forest(g, k)' /\ Roots' = Roots \ {child}
       /\ \A x, y \in Points : f[x] = f[y] => g[x] = g[y]
       /\ \A x \in Points : k[x] >= h[x] /\ (~IsRoot(x) => k[x] = h[x] /\ ~IsRoot(x)')
  <2>1. PICK a, b \in Points : a = me.from /\ b = me.y BY <1>3
  <2>2. TwoRoots(f, child, above, a, b) BY <1>7, <2>1 DEF TwoRoots
  <2>3. merged = MergedClasses(a, b) BY <1>6, <2>1 DEF MergedClasses
  <2>4. NewParent(child, above) /\ NewClass(merged) BY <1>10 DEF NewParent, NewClass
  <2>5. sh.parent \in [Points -> Points] /\ Forest(f, h) /\ child \in Points /\ above \in Points
    BY <1>0, <1>2, <1>7
  <2>6. g = Hung(f, child, above) /\ k = Higher(h, child, above) BY <1>13
  <2>7. Forest(g, k)' /\ Roots' = Roots \ {child} /\ Coarser(g, f) /\ Grown(h, k)
    BY <2>2, <2>3, <2>4, <2>5, <2>6, ForestLinked, Zenon
  <2> QED BY <2>7 DEF Coarser, Grown
<1>15. h \in [Points -> Nat] /\ k \in [Points -> Nat]
  <2>1. h \in [Points -> Nat] BY <1>2 DEF Forest
  <2>2. h[above] \in Nat /\ h[child] \in Nat BY <1>7, <2>1
  <2>3. (IF h[above] > h[child] THEN h[above] ELSE h[child] + 1) \in Nat BY <2>2
  <2>4. PICK m \in Nat : m = IF h[above] > h[child] THEN h[above] ELSE h[child] + 1 BY <2>3
  <2>5. k = [h EXCEPT ![above] = m] BY <1>13, <2>4, Zenon DEF Higher
  <2> QED BY <2>1, <2>5
<1>16. ASSUME NEW u \in Threads PROVE WalkKept(u, g, k)' /\ RootsKept(u, g)'
  <2>1. WalkKept(u, f, h) /\ RootsKept(u, f) /\ UnionLocals(u)
    BY <1>0, <1>1 DEF ForestOf, UnionTypes
  <2>2. CASE u = t
    <3>1. g[me.rx] = g[me.from] BY <1>3, <1>4, <1>14
    <3>2. WalkKept(t, g, k)' BY <1>8, <1>11, <1>12, <3>1 DEF WalkKept, Knows, Walking, At
    <3>3. RootsKept(t, g)' BY <1>8, <1>11, <1>12 DEF RootsKept, Knows, At
    <3> QED BY <2>2, <3>2, <3>3
  <2>3. CASE u # t
    <3>1. loc'[u] = loc[u] /\ loc[u].op # "union" BY <1>0, <1>3, <1>11, <2>3 DEF Others, OneUnion
    <3>2. WalkKept(u, g, k)'
      <4>1. Knows(u) => g[loc[u].rx] = g[loc[u].from]
        BY <1>14, <2>1 DEF WalkKept, Knows, UnionLocals
      <4>2. Walking(u) => g[loc[u].x] = g[IF Knows(u) THEN loc[u].y ELSE loc[u].from]
        BY <1>14, <2>1 DEF WalkKept, Knows, UnionLocals, Walking
      <4>3. loc[u].pc \in {"grand", "halve"} =>
              ~IsRoot(loc[u].x) /\ loc[u].x \in Points /\ loc[u].p \in Points
              /\ f[loc[u].p] = f[loc[u].x] /\ h[loc[u].x] < h[loc[u].p]
        BY <2>1 DEF WalkKept, UnionLocals
      <4>4. loc[u].pc \in {"grand", "halve"} =>
              sh'.parent[loc[u].x] # loc[u].x
              /\ g[loc[u].p] = g[loc[u].x] /\ k[loc[u].x] < k[loc[u].p]
        <5> SUFFICES ASSUME loc[u].pc \in {"grand", "halve"}
                     PROVE  sh'.parent[loc[u].x] # loc[u].x
                            /\ g[loc[u].p] = g[loc[u].x] /\ k[loc[u].x] < k[loc[u].p]
          OBVIOUS
        <5>1. PICK x, p \in Points : x = loc[u].x /\ p = loc[u].p BY <4>3
        <5>2. k[x] = h[x] /\ ~IsRoot(x)' /\ k[p] >= h[p] /\ h[x] < h[p] /\ g[p] = g[x]
          BY <1>14, <4>3, <5>1
        <5>3. k[x] < k[p] BY <1>15, <5>2
        <5> QED BY <5>1, <5>2, <5>3 DEF IsRoot
      <4>5. loc[u].pc = "halve" =>
              g[loc[u].gp] = g[loc[u].p]
              /\ (loc[u].gp = loc[u].p \/ (sh'.parent[loc[u].p] # loc[u].p /\ k[loc[u].p] < k[loc[u].gp]))
        <5> SUFFICES ASSUME loc[u].pc = "halve"
                     PROVE  g[loc[u].gp] = g[loc[u].p] /\ (loc[u].gp = loc[u].p
                              \/ (sh'.parent[loc[u].p] # loc[u].p /\ k[loc[u].p] < k[loc[u].gp]))
          OBVIOUS
        <5>1. PICK p, gp \in Points : gp = loc[u].gp /\ p = loc[u].p BY <2>1 DEF UnionLocals
        <5>2. f[gp] = f[p] /\ (gp = p \/ (~IsRoot(p) /\ h[p] < h[gp]))
          BY <2>1, <5>1 DEF WalkKept, At
        <5>3. g[gp] = g[p] BY <1>14, <5>2
        <5>4. ~IsRoot(p) /\ h[p] < h[gp] => ~IsRoot(p)' /\ k[p] = h[p] /\ k[gp] >= h[gp]
          BY <1>14
        <5>5. ~IsRoot(p) /\ h[p] < h[gp] => ~IsRoot(p)' /\ k[p] < k[gp]
          BY <1>15, <5>4
        <5> QED BY <5>1, <5>2, <5>3, <5>5 DEF IsRoot
      <4> QED BY <3>1, <4>1, <4>2, <4>4, <4>5 DEF WalkKept, Knows, Walking, At, IsRoot
    <3>3. RootsKept(u, g)'
      <4>1. loc[u].pc # "link" BY <2>1, <3>1 DEF UnionLocals
      <4>2. loc[u].op = "connected" =>
              /\ loc[u].seen \in Nat /\ loc[u].seen <= sh'.links /\ loc[u].seen # sh'.links
        BY <1>0, <1>10, <2>1 DEF RootsKept
      <4> QED BY <3>1, <4>1, <4>2 DEF RootsKept, At
    <3> QED BY <3>2, <3>3
  <2> QED BY <2>2, <2>3
<1>17. UnionTypes'
  <2>1. sh'.parent \in [Points -> Points] BY <1>0, <1>7, <1>10
  <2>2. UnionLocals(t)' BY <1>3, <1>8, <1>11, <1>12 DEF UnionLocals
  <2>3. \A u \in Threads : u # t => UnionLocals(u)' BY <1>0, <1>11 DEF UnionTypes, UnionLocals, Others
  <2> QED BY <1>0, <1>10, <1>11, <2>1, <2>2, <2>3 DEF UnionTypes, Others
<1>18. OneUnion' BY <1>0, <1>3, <1>11, <1>12 DEF OneUnion, Others
<1>19. SetsLag'
  <2>1. IsFiniteSet(Roots) /\ child \in Roots BY <1>7, FS_Subset DEF Roots
  <2>2. IsFiniteSet(Linking) /\ t \notin Linking BY <1>3, FS_Subset DEF Linking
  <2>3. Linking' = Linking \cup {t} BY <1>8, <1>11 DEF Linking, Others
  <2>4. Cardinality(Roots') = Cardinality(Roots) - 1 /\ Cardinality(Roots) \in Nat
    BY <1>14, <2>1, FS_RemoveElement, FS_CardinalityType
  <2>5. Cardinality(Linking') = Cardinality(Linking) + 1 /\ Cardinality(Linking) \in Nat
    BY <2>2, <2>3, FS_AddElement, FS_CardinalityType
  <2> QED BY <1>0, <1>10, <2>4, <2>5 DEF SetsLag
<1>20. ForestOf(g, k)' BY <1>14, <1>16 DEF ForestOf
<1>21. \E ff, hh : ForestOf(ff, hh)' BY <1>20
<1> QED BY <1>0, <1>10, <1>17, <1>18, <1>19, <1>21 DEF UnionInv

\* The rank is raised, and the number of sets lowered.
LEMMA UnionCounts ==
  ASSUME UnionInv, NEW t \in Threads, Rise(t) \/ Fewer(t), IsFiniteSet(Threads),
         IsFiniteSet(Points)
  PROVE  UnionInv'
<1> DEFINE me == loc[t]
<1>0. /\ UnionLocals(t) /\ DOMAIN loc = Threads /\ ~sh.bad /\ SetsLag
      /\ DOMAIN sh = {"parent", "rank", "sets", "class", "links", "bad", "calls"}
      /\ me.op = "union" => \A u \in Threads : u # t => loc[u].op # "union"
  BY UnionFacts
<1>1. /\ me.pc \in {"rise", "fewer"} /\ me.op = "union" /\ {"op", "pc", "x", "from", "y"} \subseteq DOMAIN me
      /\ {"rx", "ry", "kx", "ky"} \subseteq DOMAIN me
      /\ me.rx \in Points /\ me.ry \in Points /\ me.from \in Points /\ me.y \in Points /\ me.x \in Points
  BY <1>0 DEF UnionLocals, Rise, Fewer, At
<1>2. CASE Rise(t)
  <2>1. /\ sh' = [sh EXCEPT !.rank[me.rx] = @ + 1]
        /\ loc' = [loc EXCEPT ![t] = With(@, [pc |-> "fewer"])]
    BY <1>2 DEF Rise, Move, To
  <2>2. /\ DOMAIN sh' = DOMAIN sh /\ sh'.parent = sh.parent /\ sh'.class = sh.class
        /\ sh'.links = sh.links /\ sh'.sets = sh.sets /\ sh'.bad = sh.bad
    BY <1>0, <2>1
  <2>3. /\ Others(t) /\ DOMAIN loc'[t] = DOMAIN me /\ loc'[t].pc = "fewer"
        /\ \A field \in DOMAIN me : field # "pc" => loc'[t][field] = me[field]
    <3>1. loc'[t] = With(me, [pc |-> "fewer"]) BY <1>0, <2>1
    <3>2. Others(t) BY <1>0, <2>1 DEF Others
    <3> QED BY <1>1, <3>1, <3>2 DEF With
  <2>4. /\ loc'[t].op = "union" /\ loc'[t].rx = me.rx /\ loc'[t].from = me.from /\ loc'[t].y = me.y
        /\ loc'[t].ry = me.ry /\ loc'[t].x = me.x
    BY <1>1, <2>3
  <2>5. UnionLocals(t)' BY <1>1, <2>3, <2>4 DEF UnionLocals
  <2>6. ASSUME NEW f, NEW h, ForestOf(f, h) PROVE WalkKept(t, f, h)' /\ RootsKept(t, f)'
    <3>1. WalkKept(t, f, h) BY <2>6 DEF ForestOf
    <3>2. f[me.rx] = f[me.from] BY <1>1, <3>1 DEF WalkKept, Knows
    <3> QED BY <2>3, <2>4, <3>2 DEF WalkKept, RootsKept, Knows, Walking, At
  <2>7. SetsLag' BY <1>0, <1>1, <2>2, <2>3, SetsStill DEF Linking
  <2> QED BY <1>0, <1>1, <2>2, <2>3, <2>4, <2>5, <2>6, <2>7, UnionStill
<1>3. CASE Fewer(t)
  <2>1. sh' = [sh EXCEPT !.sets = @ - 1] /\ loc' = [loc EXCEPT ![t] = Idle]
    BY <1>3 DEF Fewer, Return
  <2>2. /\ DOMAIN sh' = DOMAIN sh /\ sh'.parent = sh.parent /\ sh'.class = sh.class
        /\ sh'.links = sh.links /\ sh'.sets = sh.sets - 1 /\ sh'.bad = sh.bad
    BY <1>0, <2>1
  <2>3. Others(t) /\ loc'[t] = Idle BY <1>0, <2>1 DEF Others
  <2>4. UnionLocals(t)' BY <2>3 DEF UnionLocals, Idle
  <2>5. ASSUME NEW f, NEW h, ForestOf(f, h) PROVE WalkKept(t, f, h)' /\ RootsKept(t, f)'
    BY <2>3 DEF WalkKept, RootsKept, Knows, Walking, At, Idle
  <2>6. SetsLag'
    <3>1. Roots' = Roots BY <2>2 DEF Roots, IsRoot
    <3>2. t \in Linking /\ IsFiniteSet(Linking) BY <1>1, FS_Subset DEF Linking
    <3>3. Linking' = Linking \ {t} BY <2>3 DEF Linking, Others, Idle
    <3>4. Cardinality(Linking') = Cardinality(Linking) - 1 /\ Cardinality(Linking) \in Nat
      BY <3>2, <3>3, FS_RemoveElement, FS_CardinalityType
    <3>5. Cardinality(Roots) \in Nat BY FS_Subset, FS_CardinalityType DEF Roots
    <3> QED BY <1>0, <2>2, <3>1, <3>4, <3>5 DEF SetsLag
  <2>7. loc'[t].op # "union" BY <2>3 DEF Idle
  <2> QED BY <1>0, <2>2, <2>3, <2>4, <2>5, <2>6, <2>7, UnionStill
<1> QED BY <1>2, <1>3

LEMMA UnionInits ==
  ASSUME kind = "cunionfind", SharedInit, IsFiniteSet(Threads), IsFiniteSet(Points)
  PROVE  UnionInv
<1>1. sh = cunionfind_init /\ loc = [t \in Threads |-> Idle] BY DEF SharedInit
<1>2. /\ DOMAIN sh = {"parent", "rank", "sets", "class", "links", "bad", "calls"}
      /\ sh.parent = [x \in Points |-> x] /\ sh.sets = Cardinality(Points)
      /\ sh.class = {{x} : x \in Points} /\ sh.links = 0 /\ sh.bad = FALSE
  BY <1>1 DEF cunionfind_init
<1>3. \A t \in Threads : loc[t] = Idle /\ loc[t].op = "none" /\ loc[t].pc = "idle"
                         /\ DOMAIN loc[t] = {"op", "pc"}
  BY <1>1 DEF Idle
<1>4. UnionTypes
  <2>1. \A t \in Threads : UnionLocals(t) BY <1>3 DEF UnionLocals
  <2> QED BY <1>1, <1>2, <2>1 DEF UnionTypes
<1>5. OneUnion BY <1>3 DEF OneUnion
<1>6. \A x \in Points : IsRoot(x) BY <1>2 DEF IsRoot
<1>7. Roots = Points BY <1>6 DEF Roots
<1>8. PICK f, h : f = [x \in Points |-> x] /\ h = [x \in Points |-> 0] OBVIOUS
<1>9. Forest(f, h)
  <2>1. f \in [Points -> Points] /\ h \in [Points -> Nat] /\ \A x \in Points : f[x] = x BY <1>8
  <2>2. \A r \in Points : Below(f, r) = {r} BY <2>1 DEF Below
  <2>3. sh.class = {Below(f, r) : r \in Roots}
    <3>1. sh.class = {{x} : x \in Points} BY <1>2
    <3>2. {Below(f, r) : r \in Points} \subseteq {{x} : x \in Points} BY <2>2
    <3>3. {{x} : x \in Points} \subseteq {Below(f, r) : r \in Points} BY <2>2
    <3> QED BY <1>7, <3>1, <3>2, <3>3
  <2>4. \A x \in Points : sh.parent[x] = x BY <1>2
  <2> QED BY <1>6, <2>1, <2>3, <2>4 DEF Forest
<1>10. ForestOf(f, h)
  BY <1>3, <1>9 DEF ForestOf, WalkKept, RootsKept, Knows, Walking, At
<1>11. SetsLag
  <2>1. Linking = {} BY <1>3 DEF Linking
  <2>2. Cardinality(Linking) = 0 BY <2>1, FS_EmptySet
  <2>3. Cardinality(Points) \in Nat BY FS_CardinalityType
  <2> QED BY <1>2, <1>7, <2>2, <2>3 DEF SetsLag
<1>12. \E g, k : ForestOf(g, k) BY <1>10
<1> QED BY <1>2, <1>4, <1>5, <1>11, <1>12 DEF UnionInv

LEMMA UnionInvSteps ==
  ASSUME "cunionfind" \notin Overlap, kind = "cunionfind", UnionInv, UnionNext,
         IsFiniteSet(Threads), IsFiniteSet(Points)
  PROVE  UnionInv'
<1>1. PICK t \in Threads :
        \/ FindSteps(t) \/ LinkRoots(t) \/ Rise(t) \/ Fewer(t)
        \/ \E x, y \in Points : cunionfind_find(t, x) \/ cunionfind_connected(t, x, y) \/ cunionfind_union(t, x, y)
  BY DEF UnionNext
<1>2. CASE FindSteps(t)
  <2>1. CASE At(t, "load") /\ IsRoot(loc[t].x)
    <3>1. Found(t, loc[t].x) BY <1>2, <2>1 DEF FindSteps, At, IsRoot
    <3> QED BY <2>1, <3>1, FindEnds
  <2>2. CASE At(t, "load") /\ ~IsRoot(loc[t].x)
    <3>1. Move(t, sh, [pc |-> "grand", p |-> sh.parent[loc[t].x]])
      BY <1>2, <2>2 DEF FindSteps, At, IsRoot
    <3> QED BY <2>2, <3>1, FindReads
  <2>3. CASE At(t, "grand")
    <3>1. Move(t, sh, [pc |-> "halve", gp |-> sh.parent[loc[t].p]]) BY <1>2, <2>3 DEF FindSteps, At
    <3> QED BY <2>3, <3>1, FindReads
  <2>4. CASE At(t, "halve") /\ sh.parent[loc[t].x] # loc[t].p
    <3>1. Move(t, sh, [pc |-> "load", x |-> sh.parent[loc[t].x]]) BY <1>2, <2>4 DEF FindSteps, At
    <3> QED BY <2>4, <3>1, FindReads
  <2>5. CASE At(t, "halve") /\ sh.parent[loc[t].x] = loc[t].p
    <3>1. Move(t, [sh EXCEPT !.parent[loc[t].x] = loc[t].gp], [pc |-> "load", x |-> loc[t].p])
      BY <1>2, <2>5 DEF FindSteps, At
    <3> QED BY <2>5, <3>1, FindHalves
  <2> QED BY <1>2, <2>1, <2>2, <2>3, <2>4, <2>5 DEF FindSteps
<1>3. CASE LinkRoots(t) BY <1>3, UnionLinks
<1>4. CASE Rise(t) \/ Fewer(t) BY <1>4, UnionCounts
<1>5. CASE \E x, y \in Points :
             cunionfind_find(t, x) \/ cunionfind_connected(t, x, y) \/ cunionfind_union(t, x, y)
  BY <1>5, UnionBegins
<1> QED BY <1>1, <1>2, <1>3, <1>4, <1>5

\* Following the parents from x as often as there are points leads to its root.
LEMMA UpIsRoot ==
  ASSUME NEW f, NEW h, Forest(f, h), sh.parent \in [Points -> Points], IsFiniteSet(Points),
         NEW x \in Points
  PROVE  RootOf(x) = f[x]
<1> DEFINE N == Cardinality(Points)
           e(w) == [n \in 0 .. N |-> IF n = 0 THEN x ELSE sh.parent[w[n - 1]]]
           Up(w, m) == /\ w \in [0 .. m -> Points] /\ w[0] = x
                       /\ \A n \in 1 .. m : w[n] = sh.parent[w[n - 1]]
<1>1. N \in Nat /\ N # 0
  <2>1. Points # {} OBVIOUS
  <2> QED BY <2>1, FS_CardinalityType, FS_EmptySet
<1> HIDE DEF N
<1>2. \A m \in Nat : \E w : Up(w, m)
  <2> DEFINE T == {m \in Nat : ~ \E w : Up(w, m)}
  <2> SUFFICES ASSUME T # {} PROVE FALSE OBVIOUS
  <2>1. T \in SUBSET Nat OBVIOUS
  <2>2. PICK m \in T : \A y \in T : m <= y
    <3> HIDE DEF T
    <3> QED BY <2>1, LeastNat
  <2>3. CASE m = 0
    <3>1. PICK w : w = [n \in 0 .. 0 |-> x] OBVIOUS
    <3>2. Up(w, 0) BY <3>1
    <3> QED BY <2>2, <2>3, <3>2
  <2>4. CASE m # 0
    <3>1. m \in Nat /\ m - 1 \in Nat /\ ~(m <= m - 1) BY <2>2, <2>4
    <3>2. PICK w : Up(w, m - 1) BY <2>2, <3>1
    <3>3. PICK v : v = [n \in 0 .. m |-> IF n = m THEN sh.parent[w[m - 1]] ELSE w[n]] OBVIOUS
    <3>4. w[m - 1] \in Points /\ sh.parent[w[m - 1]] \in Points BY <3>1, <3>2
    <3>5. v \in [0 .. m -> Points] BY <3>1, <3>2, <3>3, <3>4
    <3>6. v[0] = x BY <2>4, <3>1, <3>2, <3>3
    <3>7. ASSUME NEW n \in 1 .. m PROVE v[n] = sh.parent[v[n - 1]]
      <4>1. n - 1 \in 0 .. m /\ n - 1 # m /\ n \in 0 .. m BY <3>1
      <4>2. v[n - 1] = w[n - 1] BY <3>3, <4>1
      <4>3. CASE n = m BY <3>3, <4>1, <4>2, <4>3
      <4>4. CASE n # m
        <5>1. n \in 1 .. m - 1 BY <3>1, <4>4
        <5>2. v[n] = w[n] BY <3>3, <4>1, <4>4
        <5> QED BY <3>2, <4>2, <5>1, <5>2
      <4> QED BY <4>3, <4>4
    <3>8. Up(v, m) BY <3>5, <3>6, <3>7
    <3> QED BY <2>2, <3>8
  <2> QED BY <2>3, <2>4
<1>3. PICK w : Up(w, N) BY <1>1, <1>2
<1>4. w = e(w)
  <2>1. \A n \in 0 .. N : n = 0 \/ n \in 1 .. N BY <1>1
  <2>2. w = [n \in 0 .. N |-> w[n]] BY <1>3
  <2>3. \A n \in 0 .. N : w[n] = IF n = 0 THEN x ELSE sh.parent[w[n - 1]] BY <1>3, <2>1
  <2> QED BY <2>2, <2>3
<1> DEFINE up == CHOOSE u : u = e(u)
<1>5. up = e(up)
  <2> HIDE DEF e
  <2> QED BY <1>4
<1>6. RootOf(x) = up[N] BY DEF RootOf, N
<1> HIDE DEF up
<1>7. \A n \in 0 .. N : up[n] = IF n = 0 THEN x ELSE sh.parent[up[n - 1]] BY <1>5
<1> HIDE DEF e
<1>8. \A n \in 0 .. N : up[n] \in Points /\ f[up[n]] = f[x]
  <2> DEFINE T == {n \in 0 .. N : ~(up[n] \in Points /\ f[up[n]] = f[x])}
  <2> SUFFICES ASSUME T # {} PROVE FALSE OBVIOUS
  <2>1. T \in SUBSET Nat BY <1>1
  <2>2. PICK m \in T : \A y \in T : m <= y
    <3> HIDE DEF T
    <3> QED BY <2>1, LeastNat
  <2>3. m \in 0 .. N /\ m # 0 BY <1>1, <1>7, <2>2
  <2>4. m - 1 \in 0 .. N /\ ~(m <= m - 1) BY <1>1, <2>3
  <2>5. up[m - 1] \in Points /\ f[up[m - 1]] = f[x] BY <2>2, <2>4
  <2>6. up[m] = sh.parent[up[m - 1]] BY <1>7, <2>3
  <2>7. up[m] \in Points /\ f[up[m]] = f[x] BY <2>5, <2>6 DEF Forest
  <2> QED BY <2>2, <2>7
<1>9. ASSUME ~IsRoot(up[N]) PROVE FALSE
  <2>1. \A n \in 1 .. N : IsRoot(up[n - 1]) => IsRoot(up[n])
    <3> SUFFICES ASSUME NEW n \in 1 .. N, IsRoot(up[n - 1]) PROVE IsRoot(up[n]) OBVIOUS
    <3>1. n \in 0 .. N /\ n # 0 BY <1>1
    <3>2. up[n] = sh.parent[up[n - 1]] BY <1>7, <3>1
    <3> QED BY <3>2 DEF IsRoot
  \* no root on the way
  <2>2. \A n \in 0 .. N : ~IsRoot(up[N - n])
    <3> DEFINE T == {n \in 0 .. N : IsRoot(up[N - n])}
    <3> SUFFICES ASSUME T # {} PROVE FALSE OBVIOUS
    <3>1. T \in SUBSET Nat BY <1>1
    <3>2. PICK m \in T : \A y \in T : m <= y
      <4> HIDE DEF T
      <4> QED BY <3>1, LeastNat
    <3>3. N - 0 = N BY <1>1
    <3>4. m \in 0 .. N /\ IsRoot(up[N - m]) BY <3>2
    <3>5. m # 0 BY <1>9, <3>3, <3>4
    <3>6. m - 1 \in 0 .. N /\ ~(m <= m - 1) /\ N - m + 1 \in 1 .. N /\ (N - m + 1) - 1 = N - m
          /\ N - (m - 1) = N - m + 1
      BY <1>1, <3>4, <3>5
    <3>7. IsRoot(up[N - (m - 1)]) BY <2>1, <3>4, <3>6
    <3> QED BY <3>2, <3>6, <3>7
  <2>3. \A n \in 0 .. N : ~IsRoot(up[n])
    <3> SUFFICES ASSUME NEW n \in 0 .. N PROVE ~IsRoot(up[n]) OBVIOUS
    <3>1. N - n \in 0 .. N /\ N - (N - n) = n BY <1>1
    <3> QED BY <2>2, <3>1
  <2>4. h \in [Points -> Nat] BY DEF Forest
  <2>5. \A n \in 1 .. N : h[up[n - 1]] < h[up[n]]
    <3> SUFFICES ASSUME NEW n \in 1 .. N PROVE h[up[n - 1]] < h[up[n]] OBVIOUS
    <3>1. n \in 0 .. N /\ n # 0 /\ n - 1 \in 0 .. N BY <1>1
    <3>2. up[n] = sh.parent[up[n - 1]] /\ up[n - 1] \in Points /\ ~IsRoot(up[n - 1])
      BY <1>7, <1>8, <2>3, <3>1
    <3> QED BY <3>2 DEF Forest
  <2>6. \A i, j \in 0 .. N : i < j => h[up[i]] < h[up[j]]
    <3> SUFFICES ASSUME NEW i \in 0 .. N PROVE \A j \in 0 .. N : i < j => h[up[i]] < h[up[j]] OBVIOUS
    <3> DEFINE T == {j \in 0 .. N : i < j /\ ~(h[up[i]] < h[up[j]])}
    <3> SUFFICES ASSUME T # {} PROVE FALSE OBVIOUS
    <3>1. T \in SUBSET Nat BY <1>1
    <3>2. PICK m \in T : \A y \in T : m <= y
      <4> HIDE DEF T
      <4> QED BY <3>1, LeastNat
    <3>3. m \in 1 .. N /\ m - 1 \in 0 .. N /\ ~(m <= m - 1) /\ i < m /\ ~(h[up[i]] < h[up[m]])
      BY <1>1, <3>2
    <3>4. h[up[m - 1]] < h[up[m]] BY <2>5, <3>3
    <3>5. /\ up[i] \in Points /\ up[m] \in Points /\ up[m - 1] \in Points BY <1>1, <1>8, <3>3
    <3>6. h[up[i]] \in Nat /\ h[up[m]] \in Nat /\ h[up[m - 1]] \in Nat BY <2>4, <3>5
    <3>7. CASE i = m - 1 BY <3>3, <3>4, <3>7
    <3>8. CASE i # m - 1
      <4>1. i < m - 1 BY <1>1, <3>3, <3>8
      <4>2. h[up[i]] < h[up[m - 1]] BY <3>2, <3>3, <4>1
      <4> QED BY <3>3, <3>4, <3>6, <4>2
    <3> QED BY <3>7, <3>8
  <2>7. \A i, j \in 0 .. N : up[i] = up[j] => i = j
    <3> SUFFICES ASSUME NEW i \in 0 .. N, NEW j \in 0 .. N, up[i] = up[j], i # j PROVE FALSE OBVIOUS
    <3>1. up[i] \in Points /\ h[up[i]] \in Nat BY <1>8, <2>4
    <3>2. i < j \/ j < i BY <1>1
    <3>3. h[up[i]] < h[up[i]] BY <2>6, <3>2
    <3> QED BY <3>1, <3>3
  <2>8. PICK g : g = [n \in 0 .. N |-> up[n]] OBVIOUS
  <2>9. g \in Injection(0 .. N, Points) BY <1>8, <2>7, <2>8 DEF Injection, IsInjective
  <2>10. Cardinality(0 .. N) <= N BY <2>9, FS_Injection DEF N
  <2>11. Cardinality(0 .. N) = N + 1
    <3>1. ASSUME NEW c \in Int, NEW b \in Int, c = 0, b >= 0 PROVE Cardinality(c .. b) = b + 1
      <4>1. Cardinality(c .. b) = IF c > b THEN 0 ELSE b - c + 1 BY FS_Interval
      <4> QED BY <3>1, <4>1
    <3>2. 0 \in Int /\ N \in Int /\ N >= 0 BY <1>1
    <3> QED BY <3>1, <3>2, Zenon
  <2> QED BY <1>1, <2>10, <2>11
<1>10. N \in 0 .. N BY <1>1
<1>11. up[N] \in Points /\ f[up[N]] = f[x] BY <1>8, <1>10
<1>12. f[up[N]] = up[N] BY <1>9, <1>11 DEF Forest
<1> QED BY <1>6, <1>11, <1>12

LEMMA UnionInvEnough ==
  ASSUME UnionInv, kind = "cunionfind", IsFiniteSet(Threads), IsFiniteSet(Points)
  PROVE  ForestKept
<1>0. UnionTypes /\ SetsLag /\ ~sh.bad /\ sh.parent \in [Points -> Points] BY DEF UnionInv, UnionTypes
<1>1. PICK f, h : Forest(f, h) BY DEF UnionInv, ForestOf
<1>2. \A x \in Points : RootOf(x) = f[x] BY <1>0, <1>1, UpIsRoot
<1>3. \A x \in Points : sh.parent[RootOf(x)] = RootOf(x) BY <1>1, <1>2 DEF Forest, IsRoot
<1>4. \A x, y \in Points : Same(x, y) <=> RootOf(x) = RootOf(y)
  <2> SUFFICES ASSUME NEW x \in Points, NEW y \in Points
               PROVE  Same(x, y) <=> RootOf(x) = RootOf(y)
    OBVIOUS
  <2>1. Same(x, y) <=> f[x] = f[y] BY <1>1, SameRoot
  <2>2. RootOf(x) = f[x] /\ RootOf(y) = f[y] BY <1>2
  <2> QED BY <2>1, <2>2
<1>5. ASSUME Quiet PROVE sh.sets = Cardinality(sh.class)
  <2>1. Linking = {} BY <1>5 DEF Linking, Quiet, At
  <2>2. Cardinality(Linking) = 0 BY <2>1, FS_EmptySet
  <2>3. IsFiniteSet(Roots) BY FS_Subset DEF Roots
  <2>4. Cardinality(Roots) \in Nat BY <2>3, FS_CardinalityType
  <2>5. sh.sets = Cardinality(Roots) BY <1>0, <2>2, <2>4 DEF SetsLag
  <2>6. PICK g : g = [r \in Roots |-> Below(f, r)] OBVIOUS
  <2>7. sh.class = {Below(f, r) : r \in Roots} BY <1>1 DEF Forest
  <2>8. g \in Surjection(Roots, sh.class) BY <2>6, <2>7 DEF Surjection
  <2>9. g \in Injection(Roots, sh.class)
    <3>1. \A r, s \in Roots : Below(f, r) = Below(f, s) => r = s
      <4> SUFFICES ASSUME NEW r \in Roots, NEW s \in Roots, Below(f, r) = Below(f, s) PROVE r = s
        OBVIOUS
      <4>1. r \in Points /\ f[r] = r BY <1>1 DEF Roots, Forest
      <4>2. r \in Below(f, r) BY <4>1 DEF Below
      <4>3. f[r] = s BY <4>2 DEF Below
      <4> QED BY <4>1, <4>3
    <3> QED BY <2>6, <2>7, <3>1 DEF Injection, IsInjective
  <2>10. ExistsBijection(Roots, sh.class) BY <2>8, <2>9 DEF Bijection, ExistsBijection
  <2> QED BY <2>3, <2>5, <2>10, FS_Bijection
<1> QED BY <1>0, <1>3, <1>4, <1>5 DEF ForestKept

(* scl_cunionfind with one union at a time and any number of finds and     *)
(* connected calls beside it, which halve the paths they walk: the parents *)
(* never form a cycle, the root above a point is the one of its class,     *)
(* find and connected answer right, and the number of sets is right        *)
(* whenever no call is running, for any finite set of points and threads.  *)
THEOREM FindsMeetUnions ==
  ASSUME IsFiniteSet(Threads), IsFiniteSet(Points), "cunionfind" \notin Overlap
  PROVE  SharedSpec => []ForestKept
<1> DEFINE Inv == kind = "cunionfind" => UnionInv
<1>1. SharedInit => Inv BY UnionInits DEF SharedInit
<1>2. Inv /\ [SharedNext]_Vars => Inv'
  <2> SUFFICES ASSUME Inv, [SharedNext]_Vars, kind' = "cunionfind" PROVE UnionInv' OBVIOUS
  <2>1. kind = "cunionfind" /\ UnionInv BY KindStays
  <2>2. UNCHANGED Vars \/ UnionNext BY <2>1, KindStays
  <2>3. CASE UNCHANGED Vars
    <3>1. sh' = sh /\ loc' = loc BY <2>3 DEF Vars
    <3>2. UnionTypes' BY <2>1, <3>1 DEF UnionInv, UnionTypes, UnionLocals
    <3>3. OneUnion' BY <2>1, <3>1 DEF UnionInv, OneUnion
    <3>4. PICK f, h : ForestOf(f, h) BY <2>1 DEF UnionInv
    <3>5. Forest(f, h)' BY <3>1, <3>4 DEF ForestOf, Forest, Roots, IsRoot
    <3>6. \A t \in Threads : WalkKept(t, f, h)'
      BY <3>1, <3>4 DEF ForestOf, WalkKept, Knows, Walking, IsRoot, At
    <3>7. \A t \in Threads : RootsKept(t, f)'
      BY <3>1, <3>4 DEF ForestOf, RootsKept, Knows, IsRoot, At
    <3>8. ForestOf(f, h)' BY <3>5, <3>6, <3>7 DEF ForestOf
    <3>9. SetsLag' BY <2>1, <3>1 DEF UnionInv, SetsLag, Roots, Linking, IsRoot
    <3>10. \E g, k : ForestOf(g, k)' BY <3>8
    <3> QED BY <2>1, <3>1, <3>2, <3>3, <3>9, <3>10 DEF UnionInv
  <2>4. CASE UnionNext BY <2>1, <2>4, UnionInvSteps
  <2> QED BY <2>2, <2>3, <2>4
<1>3. Inv => ForestKept BY UnionInvEnough DEF ForestKept
<1> QED BY <1>1, <1>2, <1>3, PTL DEF SharedSpec

-----------------------------------------------------------------------------

(* Every container without a lock keeps its promise in every behaviour in  *)
(* which only calls overlap that do not clash, for any number of threads,  *)
(* addresses, elements, slots and points: what the calls of scl_cstack,    *)
(* scl_cslist, scl_cqueue, scl_carray, scl_cringbuf, scl_cunionfind and    *)
(* scl_cbloom do to one another leaves the structure whole (of scl_cqueue, *)
(* until the exchange that ends an enqueue fails for no reason with one    *)
(* thread on each side).                                                   *)
THEOREM AllContainersKept ==
  ASSUME Null \notin Addr, 1 \in Addr, IsFiniteSet(Addr), IsFiniteSet(Threads), IsFiniteSet(Points),
         Capacity \in Nat, {"cqueue", "carray", "cringbuf", "cunionfind"} \cap Overlap = {}
  PROVE  SharedSpec => []ContainersKept
<1>1. /\ "cqueue" \notin Overlap /\ "carray" \notin Overlap /\ "cringbuf" \notin Overlap
      /\ "cunionfind" \notin Overlap
  OBVIOUS
<1>2. SharedSpec => []StaleLinksHarmless BY TagKeepsStaleLinksOut
<1>3. SharedSpec => []QueueInOrder BY <1>1, QueueKeepsOrder
<1>4. SharedSpec => []SlotsClaimedOnce BY <1>1, SlotsOwned
<1>5. SharedSpec => []PeekSeesElement BY <1>1, PeekRight
<1>6. SharedSpec => []ForestKept BY <1>1, FindsMeetUnions
<1>7. SharedSpec => []MembersKept BY FilterKeepsMembers
<1> QED BY <1>2, <1>3, <1>4, <1>5, <1>6, <1>7, PTL DEF ContainersKept

-----------------------------------------------------------------------------
(***************************************************************************)
(* The intrusive stack of LFStack, the tagged Treiber stack in the pool    *)
(* pattern, for any number of threads, nodes and operations: IInv is       *)
(* inductive, so the links always form the stack and no node is lost or    *)
(* handed out twice.                                                       *)
(***************************************************************************)

LEMMA InitIInv == Init => IInv
<1> SUFFICES ASSUME Init PROVE IInv
  OBVIOUS
<1> USE NilAssumption DEF Init
<1>1. TypeOK
  BY DEF TypeOK, Heads
<1>2. StackShape /\ TagsOrdered /\ LinksKnown
  BY DEF StackShape, TagsOrdered, LinksKnown
<1>3. NodesConserved
  BY DEF NodesConserved
<1> QED BY <1>1, <1>2, <1>3 DEF IInv

\* What a successful push makes of the contents.
LEMMA PushContent ==
  ASSUME NEW c \in Seq(Nodes), NEW n \in Nodes
  PROVE  /\ <<n>> \o c \in Seq(Nodes)
         /\ Len(<<n>> \o c) = Len(c) + 1
         /\ (<<n>> \o c)[1] = n
         /\ \A i \in 1 .. Len(c) : (<<n>> \o c)[i + 1] = c[i]
<1>1. <<n>> \in Seq(Nodes) /\ Len(<<n>>) = 1
  OBVIOUS
<1>2. Len(c) \in Nat
  OBVIOUS
<1>3. \A i \in 1 .. 1 + Len(c) :
        (<<n>> \o c)[i] = IF i <= 1 THEN <<n>>[i] ELSE c[i - 1]
  BY <1>1, ConcatProperties
<1>4. ASSUME NEW i \in 1 .. Len(c) PROVE (<<n>> \o c)[i + 1] = c[i]
  BY <1>2, <1>3
<1> QED BY <1>1, <1>2, <1>3, <1>4, ConcatProperties

\* What a successful pop makes of the contents.
LEMMA PopContent ==
  ASSUME NEW c \in Seq(Nodes), c # <<>>
  PROVE  /\ Tail(c) \in Seq(Nodes)
         /\ Len(Tail(c)) = Len(c) - 1
         /\ \A i \in 1 .. Len(c) - 1 : Tail(c)[i] = c[i + 1]
         /\ Len(c) >= 1
BY HeadTailProperties, EmptySeq, LenProperties

-----------------------------------------------------------------------------
\* The steps that leave head, held and content alone and write no link.
LEMMA QuietSteps ==
  ASSUME IInv, NEW t \in Callers,
         \/ \E n \in Nodes : Push(t, n)
         \/ PushCasFails(t) \/ Pop(t) \/ PopEmpty(t) \/ PopRead(t) \/ PopCasFails(t)
  PROVE  IInv'
<1> USE DEF IInv
<1>1. UNCHANGED <<head, next, held, content>>
  BY DEF Push, PushCasFails, Pop, PopEmpty, PopRead, PopCasFails
<1>2. TypeOK'
  <2>1. CASE \E n \in Nodes : Push(t, n)
    BY <2>1 DEF TypeOK, Heads, Push, Start, Goto
  <2>2. CASE PushCasFails(t) \/ PopCasFails(t)
    BY <2>2 DEF TypeOK, Heads, PushCasFails, PopCasFails, Goto
  <2>3. CASE Pop(t)
    BY <2>3 DEF TypeOK, Heads, Pop, Start, Goto
  <2>4. CASE PopEmpty(t)
    BY <2>4 DEF TypeOK, Heads, PopEmpty, Goto
  <2>5. CASE PopRead(t)
    <3>1. old[t].lo \in Nodes
      BY <2>5 DEF TypeOK, Heads, PopRead
    <3> QED BY <2>5, <3>1 DEF TypeOK, Heads, PopRead, Goto
  <2> QED BY <2>1, <2>2, <2>3, <2>4, <2>5
<1>3. StackShape' /\ NodesConserved'
  BY <1>1 DEF StackShape, NodesConserved
<1>4. TagsOrdered'
  BY DEF TypeOK, Heads, TagsOrdered, Push, PushCasFails, Pop, PopEmpty, PopRead,
         PopCasFails, Start, Goto
<1>5. LinksKnown'
  BY DEF TypeOK, Heads, LinksKnown, Push, PushCasFails, Pop, PopEmpty, PopRead,
         PopCasFails, Start, Goto
<1> QED BY <1>2, <1>3, <1>4, <1>5

\* Writing the link of a node that is not on the stack disturbs no chain, and
\* no link that another thread still relies on.
LEMMA LinkStep ==
  ASSUME IInv, NEW t \in Callers, PushLink(t)
  PROVE  IInv'
<1> USE DEF IInv, PushLink, Goto
<1>0. node[t] \in Nodes /\ node[t] \in held[t]
  BY DEF LinksKnown, TypeOK
<1>1. TypeOK'
  BY <1>0 DEF TypeOK, Heads
<1>2. \A i \in 1 .. Len(content) : content[i] \in Nodes /\ next'[content[i]] = next[content[i]]
  BY <1>0 DEF TypeOK, NodesConserved
<1>3. StackShape'
  BY <1>2 DEF StackShape
<1>4. NodesConserved' /\ TagsOrdered'
  BY DEF NodesConserved, TagsOrdered, TypeOK
<1>5. LinksKnown'
  <2> SUFFICES ASSUME NEW u \in Callers
               PROVE  /\ pc'[u] \in {"link", "pushCas"} => node[u] \in held[u]
                      /\ pc'[u] = "pushCas" => next'[node[u]] = old[u].lo
                      /\ pc'[u] = "popCas" =>
                           /\ old[u].lo \in Nodes
                           /\ old[u] = head => new[u] = next'[old[u].lo]
    BY DEF LinksKnown
  <2>1. CASE u = t
    BY <1>0, <2>1 DEF LinksKnown, TypeOK
  <2>2. CASE u # t
    <3>1. pc'[u] = pc[u]
      BY <2>2 DEF TypeOK
    <3>2. pc[u] = "pushCas" => node[u] # node[t]
      BY <1>0, <2>2 DEF LinksKnown, NodesConserved
    <3>3. pc[u] = "pushCas" => next'[node[u]] = old[u].lo
      BY <1>0, <3>2 DEF LinksKnown, TypeOK
    <3>4. ASSUME pc[u] = "popCas", old[u] = head PROVE new[u] = next'[old[u].lo]
      <4>1. old[u].lo \in Nodes /\ new[u] = next[old[u].lo]
        BY <3>4 DEF LinksKnown
      <4>2. content # <<>> /\ old[u].lo = content[1]
        BY <3>4, <4>1, NilAssumption DEF StackShape
      <4>3. 1 \in 1 .. Len(content)
        BY <4>2, EmptySeq, LenProperties DEF TypeOK
      <4> QED BY <1>2, <4>1, <4>2, <4>3
    <3> QED BY <3>1, <3>3, <3>4 DEF LinksKnown
  <2> QED BY <2>1, <2>2
<1> QED BY <1>1, <1>3, <1>4, <1>5

\* A successful compare-exchange bumps the tag, so every other thread's old
\* head is out of date.
LEMMA TagsMoveOn ==
  ASSUME IInv, NEW t \in Callers, PushCas(t) \/ PopCas(t)
  PROVE  /\ TagsOrdered'
         /\ \A u \in Callers : pc'[u] # "idle" => u # t /\ pc'[u] = pc[u] /\ old'[u] # head'
<1>1. /\ head'.hi = head.hi + 1 /\ old' = old
      /\ pc' = [pc EXCEPT ![t] = "idle"]
      /\ head.hi \in Nat
  BY DEF IInv, TypeOK, Heads, PushCas, PopCas, Goto
<1>2. \A u \in Callers : pc'[u] # "idle" =>
         u # t /\ pc'[u] = pc[u] /\ old[u].hi <= head.hi /\ old[u].hi \in Nat
  BY <1>1 DEF IInv, TypeOK, Heads, TagsOrdered
<1> QED BY <1>1, <1>2 DEF TagsOrdered

LEMMA PushStep ==
  ASSUME IInv, NEW t \in Callers, PushCas(t)
  PROVE  IInv'
<1> USE DEF IInv, PushCas, Goto
<1>0. node[t] \in Nodes /\ node[t] \in held[t] /\ next[node[t]] = head.lo
  BY DEF LinksKnown, TypeOK
<1> DEFINE n == node[t]
           c == <<n>> \o content
<1>1. /\ content' = c /\ c \in Seq(Nodes) /\ Len(c) = Len(content) + 1 /\ c[1] = n
      /\ \A i \in 1 .. Len(content) : c[i + 1] = content[i]
      /\ Len(content) \in Nat
  BY <1>0, PushContent DEF TypeOK
<1> HIDE DEF c
<1>2. TypeOK'
  BY <1>0, <1>1 DEF TypeOK, Heads
<1>3. \A i \in 1 .. Len(c) : i = 1 \/ (i - 1 \in 1 .. Len(content) /\ c[i] = content[i - 1])
  BY <1>1
<1>4. StackShape'
  <2>1. head'.lo = c[1] /\ c # <<>>
    BY <1>1, EmptySeq
  <2>2. ASSUME NEW i \in 1 .. Len(c)
        PROVE  next[c[i]] = IF i < Len(c) THEN c[i + 1] ELSE Nil
    <3>1. CASE i = 1
      <4>1. CASE content = <<>>
        BY <1>0, <1>1, <3>1, <4>1 DEF StackShape
      <4>2. CASE content # <<>>
        BY <1>0, <1>1, <3>1, <4>2, EmptySeq, LenProperties DEF StackShape, TypeOK
      <4> QED BY <4>1, <4>2
    <3>2. CASE i # 1
      <4>1. i - 1 \in 1 .. Len(content) /\ c[i] = content[i - 1]
        BY <1>3, <3>2
      <4>2. i < Len(c) => c[i + 1] = content[i]
        BY <1>1, <3>2
      <4> QED BY <1>1, <4>1, <4>2 DEF StackShape
    <3> QED BY <3>1, <3>2
  <2> QED BY <1>1, <2>1, <2>2 DEF StackShape
<1>5. NodesConserved'
  <2>0. \A u \in Callers : held'[u] = IF u = t THEN held[u] \ {n} ELSE held[u]
    BY DEF TypeOK
  <2>1. \A i \in 1 .. Len(content) : content[i] # n
    BY <1>0 DEF NodesConserved
  <2>2. \A i, j \in 1 .. Len(c) : c[i] = c[j] => i = j
    BY <1>1, <1>3, <2>1 DEF NodesConserved
  <2>3. \A u \in Callers : \A i \in 1 .. Len(c) : c[i] \notin held'[u]
    <3> SUFFICES ASSUME NEW u \in Callers, NEW i \in 1 .. Len(c) PROVE c[i] \notin held'[u]
      OBVIOUS
    <3>1. CASE i = 1
      <4>1. c[i] = n
        BY <1>1, <3>1
      <4>2. u # t => n \notin held[u]
        BY <1>0 DEF NodesConserved
      <4>3. u = t => held'[u] = held[u] \ {n}
        BY <2>0
      <4> HIDE DEF n
      <4> QED BY <2>0, <4>1, <4>2, <4>3
    <3>2. CASE i # 1
      <4>1. c[i] \notin held[u]
        BY <1>3, <3>2 DEF NodesConserved
      <4> QED BY <2>0, <4>1
    <3> QED BY <3>1, <3>2
  <2>4. \A u, v \in Callers : u # v => held'[u] \cap held'[v] = {}
    BY <2>0 DEF NodesConserved
  <2>5. ASSUME NEW m \in Nodes
        PROVE  \/ \E i \in 1 .. Len(c) : c[i] = m
               \/ \E u \in Callers : m \in held'[u]
    <3>1. CASE m = n
      BY <1>1, <3>1
    <3>2. ASSUME NEW i \in 1 .. Len(content), content[i] = m
          PROVE  \E j \in 1 .. Len(c) : c[j] = m
      BY <1>1, <3>2
    <3>3. ASSUME NEW u \in Callers, m \in held[u], m # n PROVE m \in held'[u]
      BY <2>0, <3>3
    <3> QED BY <3>1, <3>2, <3>3 DEF NodesConserved
  <2> QED BY <1>1, <2>2, <2>3, <2>4, <2>5 DEF NodesConserved
<1>6. LinksKnown'
  <2>1. \A u \in Callers : u # t => held'[u] = held[u]
    BY DEF TypeOK
  <2> QED BY <2>1, TagsMoveOn DEF LinksKnown, TypeOK
<1> QED BY <1>2, <1>4, <1>5, <1>6, TagsMoveOn

LEMMA PopStep ==
  ASSUME IInv, NEW t \in Callers, PopCas(t)
  PROVE  IInv'
<1> USE DEF IInv, PopCas, Goto
<1> DEFINE n == old[t].lo
           c == Tail(content)
<1>0. n \in Nodes /\ n = head.lo /\ new[t] = next[n]
  BY DEF LinksKnown
<1>1. content # <<>> /\ content[1] = n
  BY <1>0, NilAssumption DEF StackShape
<1>2. /\ content' = c /\ c \in Seq(Nodes) /\ Len(c) = Len(content) - 1
      /\ \A i \in 1 .. Len(c) : c[i] = content[i + 1]
      /\ Len(content) \in Nat /\ Len(content) >= 1
  BY <1>1, PopContent, LenProperties DEF TypeOK
<1> HIDE DEF c
<1>3. TypeOK'
  BY <1>0, <1>2 DEF TypeOK, Heads
<1>4. StackShape'
  <2>1. new[t] = IF 1 < Len(content) THEN content[2] ELSE Nil
    BY <1>0, <1>1, <1>2 DEF StackShape
  <2>2. c = <<>> <=> Len(c) = 0
    BY <1>2, EmptySeq, LenProperties
  <2>3. head'.lo = IF c = <<>> THEN Nil ELSE c[1]
    BY <1>2, <2>1, <2>2
  <2>4. ASSUME NEW i \in 1 .. Len(c)
        PROVE  next[c[i]] = IF i < Len(c) THEN c[i + 1] ELSE Nil
    BY <1>2 DEF StackShape
  <2> QED BY <1>2, <2>3, <2>4 DEF StackShape
<1>5. NodesConserved'
  <2>0. \A u \in Callers : held'[u] = IF u = t THEN held[u] \cup {n} ELSE held[u]
    BY DEF TypeOK
  <2>1. \A u \in Callers : n \notin held[u]
    BY <1>1, <1>2 DEF NodesConserved
  <2>2. \A i, j \in 1 .. Len(c) : c[i] = c[j] => i = j
    BY <1>2 DEF NodesConserved
  <2>3. \A i \in 1 .. Len(c) : c[i] # n
    BY <1>1, <1>2 DEF NodesConserved
  <2>4. \A u \in Callers : \A i \in 1 .. Len(c) : c[i] \notin held'[u]
    BY <1>2, <2>0, <2>3 DEF NodesConserved
  <2>5. \A u, v \in Callers : u # v => held'[u] \cap held'[v] = {}
    BY <2>0, <2>1 DEF NodesConserved
  <2>6. ASSUME NEW m \in Nodes
        PROVE  \/ \E i \in 1 .. Len(c) : c[i] = m
               \/ \E u \in Callers : m \in held'[u]
    <3>1. CASE m = n
      <4>1. held'[t] = held[t] \cup {n}
        BY <2>0
      <4> HIDE DEF n
      <4> QED BY <3>1, <4>1
    <3>2. ASSUME NEW i \in 1 .. Len(content), content[i] = m, m # n
          PROVE  \E j \in 1 .. Len(c) : c[j] = m
      <4>1. i - 1 \in 1 .. Len(c) /\ c[i - 1] = m
        BY <1>1, <1>2, <3>2
      <4> QED BY <4>1
    <3>3. ASSUME NEW u \in Callers, m \in held[u] PROVE m \in held'[u]
      BY <2>0, <3>3
    <3> QED BY <3>1, <3>2, <3>3 DEF NodesConserved
  <2> QED BY <1>2, <2>2, <2>4, <2>5, <2>6 DEF NodesConserved
<1>6. LinksKnown'
  <2>1. \A u \in Callers : u # t => held'[u] = held[u]
    BY DEF TypeOK
  <2> QED BY <2>1, TagsMoveOn DEF LinksKnown, TypeOK
<1> QED BY <1>3, <1>4, <1>5, <1>6, TagsMoveOn

-----------------------------------------------------------------------------
\* The inductive invariant holds in every reachable state.
THEOREM Invariance == Spec => []IInv
<1>1. IInv /\ [Next]_vars => IInv'
  <2> SUFFICES ASSUME IInv, [Next]_vars PROVE IInv'
    OBVIOUS
  <2>1. ASSUME NEW t \in Callers, Step(t) PROVE IInv'
    BY <2>1, QuietSteps, LinkStep, PushStep, PopStep DEF Step
  <2>2. ASSUME NEW t \in Callers, (\E n \in Nodes : Push(t, n)) \/ Pop(t) PROVE IInv'
    BY <2>2, QuietSteps
  <2>3. CASE UNCHANGED vars
    BY <2>3 DEF vars, IInv, TypeOK, StackShape, NodesConserved, TagsOrdered, LinksKnown
  <2> QED BY <2>1, <2>2, <2>3 DEF Next, Finished
<1> QED BY <1>1, InitIInv, PTL DEF Spec

\* scl_lfstack in the pool pattern: the chain of links from the head is
\* always exactly the stack, whatever stale links threads hold.
THEOREM ShapeKept == Spec => []StackShape
<1>1. IInv => StackShape
  BY DEF IInv
<1> QED BY <1>1, Invariance, PTL

\* scl_lfstack never loses a node and never gives one to two threads.
THEOREM NodesKept == Spec => []NodesConserved
<1>1. IInv => NodesConserved
  BY DEF IInv
<1> QED BY <1>1, Invariance, PTL
=============================================================================
