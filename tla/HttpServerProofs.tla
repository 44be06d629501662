-------------------------- MODULE HttpServerProofs --------------------------
(***************************************************************************)
(* Proofs about the connection pool and the HTTP server's threads.         *)
(*                                                                         *)
(* The connection pool is correct for any number of threads, slots, ring   *)
(* cells and calls: PoolInv is inductive, so a slot has one owner at a     *)
(* time, `live' counts exactly the slots that are owned or ready, and a    *)
(* free slot holds no socket.                                              *)
(*                                                                         *)
(* The server is correct for any number of workers, slots and calls of     *)
(* start, stop and destroy: a worker that took a token of the semaphore    *)
(* finds a connection, connections are uncounted as often as they are      *)
(* counted, and destroy frees the pool after the last thread.  Every step  *)
(* of the server is a step of the pool or leaves it alone, so PoolInv      *)
(* holds of it too.                                                        *)
(***************************************************************************)
EXTENDS HttpServer, TLAPS, SequenceTheorems, FiniteSetTheorems

(* The pool. *)

\* Exactly the threads that are between a pop (or a get) and a push (or a
\* post) hold a slot.
HoldersHold ==
  \A t \in Threads : conn[t] # None <=> pc[t] \in {"popped", "own", "pushing", "getting"}

\* A slot on its way to the free list is already clean: FreeIsIdle one step early.
PushedClean == \A t \in Threads : pc[t] = "pushing" => ~fd[conn[t]] /\ len[conn[t]] = 0

\* destroy ends the pool for every thread.
AllOrNoneGone ==
  (\E t \in Threads : pc[t] = "gone") =>
    /\ \A t \in Threads : pc[t] = "gone"
    /\ free = <<>> /\ ready = <<>>

PoolInv ==
  /\ TypeOKPool /\ SlotOwned /\ LiveExact /\ FreeIsIdle
  /\ HoldersHold /\ PushedClean /\ AllOrNoneGone

-----------------------------------------------------------------------------
(* What a push, an append and a tail make of the elements of a list *)

LEMMA PushElems ==
  ASSUME NEW S, NEW s \in Seq(S), NEW c \in S
  PROVE  /\ <<c>> \o s \in Seq(S)
         /\ Elems(<<c>> \o s) = Elems(s) \cup {c}
         /\ NoRepeats(s) /\ c \notin Elems(s) => NoRepeats(<<c>> \o s)
<1> DEFINE r == <<c>> \o s
<1>1. <<c>> \in Seq(S) /\ Len(<<c>>) = 1 /\ Len(s) \in Nat /\ DOMAIN s = 1 .. Len(s)
  BY LenProperties
<1>2. /\ r \in Seq(S) /\ Len(r) = 1 + Len(s) /\ DOMAIN r = 1 .. 1 + Len(s)
      /\ \A i \in 1 .. 1 + Len(s) : r[i] = IF i <= 1 THEN <<c>>[i] ELSE s[i - 1]
  BY <1>1, ConcatProperties, LenProperties
<1>3. r[1] = c /\ \A i \in 1 .. Len(s) : r[i + 1] = s[i]
  BY <1>1, <1>2
<1> HIDE DEF r
<1>4. ASSUME NEW i \in DOMAIN r PROVE i = 1 \/ (i - 1 \in DOMAIN s /\ r[i] = s[i - 1])
  BY <1>1, <1>2, <1>3
<1>5. Elems(r) = Elems(s) \cup {c}
  <2>1. Elems(r) \subseteq Elems(s) \cup {c}
    BY <1>3, <1>4 DEF Elems
  <2>2. ASSUME NEW i \in DOMAIN s PROVE s[i] \in Elems(r)
    <3>1. i + 1 \in DOMAIN r /\ r[i + 1] = s[i]
      BY <1>1, <1>2, <1>3
    <3> QED BY <3>1 DEF Elems
  <2>3. c \in Elems(r)
    BY <1>1, <1>2, <1>3 DEF Elems
  <2> QED BY <2>1, <2>2, <2>3 DEF Elems
<1>6. ASSUME NoRepeats(s), c \notin Elems(s) PROVE NoRepeats(r)
  <2> SUFFICES ASSUME NEW i \in DOMAIN r, NEW j \in DOMAIN r, r[i] = r[j] PROVE i = j
    BY DEF NoRepeats
  <2>1. CASE i = 1 \/ j = 1
    BY <2>1, <1>3, <1>4, <1>6 DEF Elems
  <2>2. CASE i # 1 /\ j # 1
    <3>1. i - 1 = j - 1
      BY <2>2, <1>4, <1>6 DEF NoRepeats
    <3> QED BY <3>1, <1>2
  <2> QED BY <2>1, <2>2
<1> QED BY <1>2, <1>5, <1>6 DEF r

LEMMA AppendElems ==
  ASSUME NEW S, NEW s \in Seq(S), NEW c \in S
  PROVE  /\ Append(s, c) \in Seq(S)
         /\ Elems(Append(s, c)) = Elems(s) \cup {c}
         /\ NoRepeats(s) /\ c \notin Elems(s) => NoRepeats(Append(s, c))
<1> DEFINE r == Append(s, c)
<1>1. Len(s) \in Nat /\ DOMAIN s = 1 .. Len(s)
  BY LenProperties
<1>2. /\ r \in Seq(S) /\ DOMAIN r = 1 .. Len(s) + 1
      /\ \A i \in 1 .. Len(s) : r[i] = s[i]
      /\ r[Len(s) + 1] = c
  BY <1>1, AppendProperties, LenProperties
<1> HIDE DEF r
<1>3. ASSUME NEW i \in DOMAIN r PROVE i = Len(s) + 1 \/ (i \in DOMAIN s /\ r[i] = s[i])
  BY <1>1, <1>2
<1>4. Elems(r) = Elems(s) \cup {c}
  <2>1. Elems(r) \subseteq Elems(s) \cup {c}
    BY <1>2, <1>3 DEF Elems
  <2>2. ASSUME NEW i \in DOMAIN s PROVE s[i] \in Elems(r)
    <3>1. i \in DOMAIN r /\ r[i] = s[i]
      BY <1>1, <1>2
    <3> QED BY <3>1 DEF Elems
  <2>3. c \in Elems(r)
    BY <1>1, <1>2 DEF Elems
  <2> QED BY <2>1, <2>2, <2>3 DEF Elems
<1>5. ASSUME NoRepeats(s), c \notin Elems(s) PROVE NoRepeats(r)
  <2> SUFFICES ASSUME NEW i \in DOMAIN r, NEW j \in DOMAIN r, r[i] = r[j] PROVE i = j
    BY DEF NoRepeats
  <2>1. CASE i = Len(s) + 1 \/ j = Len(s) + 1
    BY <2>1, <1>2, <1>3, <1>5 DEF Elems
  <2>2. CASE i # Len(s) + 1 /\ j # Len(s) + 1
    BY <2>2, <1>3, <1>5 DEF NoRepeats
  <2> QED BY <2>1, <2>2
<1> QED BY <1>2, <1>4, <1>5 DEF r

LEMMA TailElems ==
  ASSUME NEW S, NEW s \in Seq(S), s # <<>>, NoRepeats(s)
  PROVE  /\ Tail(s) \in Seq(S) /\ Head(s) \in S
         /\ Head(s) \in Elems(s)
         /\ Elems(Tail(s)) = Elems(s) \ {Head(s)}
         /\ NoRepeats(Tail(s))
<1> DEFINE r == Tail(s)
<1>1. /\ Len(s) \in Nat /\ Len(s) >= 1 /\ DOMAIN s = 1 .. Len(s)
      /\ r \in Seq(S) /\ DOMAIN r = 1 .. Len(s) - 1
      /\ \A i \in 1 .. Len(s) - 1 : r[i] = s[i + 1]
      /\ Head(s) = s[1] /\ s[1] \in S
  BY HeadTailProperties, EmptySeq, LenProperties
<1> HIDE DEF r
<1>2. ASSUME NEW i \in DOMAIN r PROVE i + 1 \in DOMAIN s /\ i + 1 # 1 /\ r[i] = s[i + 1]
  BY <1>1
<1>3. 1 \in DOMAIN s /\ s[1] \in Elems(s)
  BY <1>1 DEF Elems
<1>4. Elems(r) \subseteq Elems(s) \ {s[1]}
  BY <1>2, <1>3 DEF Elems, NoRepeats
<1>5. ASSUME NEW i \in DOMAIN s, s[i] # s[1] PROVE s[i] \in Elems(r)
  <2>1. i - 1 \in DOMAIN r /\ r[i - 1] = s[i]
    BY <1>1, <1>5
  <2> QED BY <2>1 DEF Elems
<1>6. Elems(r) = Elems(s) \ {s[1]}
  BY <1>4, <1>5 DEF Elems
<1>7. NoRepeats(r)
  <2> SUFFICES ASSUME NEW i \in DOMAIN r, NEW j \in DOMAIN r, r[i] = r[j] PROVE i = j
    BY DEF NoRepeats
  <2>1. i + 1 = j + 1
    BY <1>2 DEF NoRepeats
  <2> QED BY <2>1, <1>1
<1> QED BY <1>1, <1>3, <1>6, <1>7 DEF r

LEMMA EmptyElems == Elems(<<>>) = {} /\ NoRepeats(<<>>)
BY DEF Elems, NoRepeats

-----------------------------------------------------------------------------
(* Initially every slot is on the free list: an injection into a set of the *)
(* same size is onto.                                                       *)

LEMMA InitPoolInv == InitPool => PoolInv
<1> SUFFICES ASSUME InitPool PROVE PoolInv
  OBVIOUS
<1> DEFINE n == Cardinality(Slots)
<1>1. n \in Nat /\ IsFiniteSet(1 .. n) /\ Cardinality(1 .. n) = n
  BY PoolAssumption, FS_CardinalityType, FS_Interval
<1>2. free \in [1 .. n -> Slots] /\ NoRepeats(free) /\ DOMAIN free = 1 .. n
  BY DEF InitPool, NoRepeats
<1>3. free \in Injection(1 .. n, Slots)
  BY <1>2 DEF NoRepeats, Injection, IsInjective
<1>4. free \in Surjection(1 .. n, Slots)
  BY <1>1, <1>3, FS_Injection, PoolAssumption
<1>5. Elems(free) = Slots
  BY <1>2, <1>4 DEF Surjection, Elems
<1>6. free \in Seq(Slots) /\ ready \in Seq(Slots)
  BY <1>1, <1>2 DEF InitPool
<1>7. TypeOKPool
  BY <1>1, <1>6 DEF InitPool, TypeOKPool
<1>8. Elems(ready) = {} /\ NoRepeats(ready)
  BY EmptyElems DEF InitPool
<1>9. SlotOwned
  BY <1>2, <1>5, <1>8 DEF SlotOwned, InitPool
<1>10. LiveExact
  <2>1. Counted = {}
    BY <1>8 DEF Counted, InitPool
  <2> QED BY <2>1, FS_EmptySet DEF LiveExact, InitPool
<1>11. FreeIsIdle /\ HoldersHold /\ PushedClean /\ AllOrNoneGone
  BY <1>6, <1>5 DEF FreeIsIdle, HoldersHold, PushedClean, AllOrNoneGone, InitPool
<1> QED BY <1>7, <1>9, <1>10, <1>11 DEF PoolInv

-----------------------------------------------------------------------------
(* One lemma for each step.  `Counted' is compared set by set; FS_AddElement *)
(* and FS_RemoveElement then give the change of its size.                    *)

LEMMA CountedFinite ==
  ASSUME PoolInv
  PROVE  /\ Counted \subseteq Slots /\ IsFiniteSet(Counted)
         /\ Cardinality(Counted) <= Cardinality(Slots)
         /\ Cardinality(Counted) \in Nat /\ Cardinality(Slots) \in Nat
<1>1. Elems(ready) \subseteq Slots
  BY ElementOfSeq DEF PoolInv, TypeOKPool, Elems
<1>2. \A t \in Threads : pc[t] \in {"own", "getting"} => conn[t] \in Slots
  BY DEF PoolInv, TypeOKPool, HoldersHold
<1>3. Counted \in SUBSET Slots
  BY <1>1, <1>2 DEF Counted
<1> QED BY <1>3, FS_Subset, FS_CardinalityType, PoolAssumption

LEMMA AcquirePopInv ==
  ASSUME PoolInv, NEW t \in Threads, AcquirePop(t)
  PROVE  PoolInv'
<1> USE DEF PoolInv
<1> DEFINE c == Head(free)
<1>1. /\ free' \in Seq(Slots) /\ c \in Slots /\ c \in Elems(free)
      /\ Elems(free') = Elems(free) \ {c} /\ NoRepeats(free')
  BY TailElems DEF AcquirePop, TypeOKPool, SlotOwned
<1>2. /\ pc[t] = "idle" /\ conn[t] = None /\ UNCHANGED <<ready, posted, taken, live, fd, len, cell>>
      /\ conn' = [conn EXCEPT ![t] = c] /\ pc' = [pc EXCEPT ![t] = "popped"]
  BY DEF AcquirePop, Goto, HoldersHold
<1> HIDE DEF c
<1>3. TypeOKPool'
  BY <1>1, <1>2 DEF TypeOKPool
<1>4. Elems(ready') = Elems(ready) /\ NoRepeats(ready') /\ NoRepeats(free)
      /\ c \notin Elems(ready) /\ \A u \in Threads : conn[u] # c
  BY <1>1, <1>2, PoolAssumption DEF SlotOwned
<1>5. SlotOwned'
  <2>1. \A u \in Threads : conn'[u] = IF u = t THEN c ELSE conn[u]
    BY <1>2 DEF TypeOKPool
  <2>2. \A u \in Threads : conn'[u] # None => conn'[u] \notin Elems(free') \cup Elems(ready')
    BY <2>1, <1>1, <1>4 DEF SlotOwned
  <2>3. \A u, v \in Threads : conn'[u] # None /\ conn'[u] = conn'[v] => u = v
    BY <2>1, <1>4 DEF SlotOwned
  <2>4. ASSUME NEW d \in Slots
        PROVE  d \in Elems(free') \cup Elems(ready') \/ \E u \in Threads : conn'[u] = d
    <3>1. CASE d = c
      BY <3>1, <2>1
    <3>2. CASE d # c /\ d \in Elems(free) \cup Elems(ready)
      BY <3>2, <1>1, <1>4
    <3>3. CASE d # c /\ \E u \in Threads : conn[u] = d
      BY <3>3, <2>1, <1>2, PoolAssumption
    <3>4. CASE \A u \in Threads : pc[u] = "gone"
      BY <3>4, <1>2
    <3> QED BY <3>1, <3>2, <3>3, <3>4 DEF SlotOwned
  <2>5. NoRepeats(free') /\ NoRepeats(ready') /\ Elems(free') \cap Elems(ready') = {}
    BY <1>1, <1>4 DEF SlotOwned
  <2> QED BY <2>2, <2>3, <2>4, <2>5 DEF SlotOwned
<1>6. Counted' = Counted
  BY <1>2, <1>4 DEF Counted, TypeOKPool
<1>7. LiveExact'
  BY <1>2, <1>6 DEF LiveExact, TypeOKPool, AllOrNoneGone
<1>8. FreeIsIdle'
  BY <1>1, <1>2 DEF FreeIsIdle
<1>9. HoldersHold' /\ PushedClean' /\ AllOrNoneGone'
  BY <1>1, <1>2, PoolAssumption DEF HoldersHold, PushedClean, AllOrNoneGone, TypeOKPool
<1> QED BY <1>3, <1>5, <1>7, <1>8, <1>9

\* Steps that move no slot.
LEMMA SameOwners ==
  ASSUME SlotOwned, UNCHANGED <<free, ready, conn>>,
         NEW t \in Threads, pc[t] # "gone"
  PROVE  SlotOwned'
BY DEF SlotOwned, Elems, NoRepeats

LEMMA AcquireResetInv ==
  ASSUME PoolInv, NEW t \in Threads, AcquireReset(t)
  PROVE  PoolInv'
<1> USE DEF PoolInv
<1> DEFINE c == conn[t]
<1>1. /\ pc[t] = "popped" /\ pc' = [pc EXCEPT ![t] = "own"]
      /\ fd' = [fd EXCEPT ![c] = FALSE] /\ len' = [len EXCEPT ![c] = 0]
      /\ live' = live + 1 /\ UNCHANGED <<free, ready, posted, taken, conn, cell>>
  BY DEF AcquireReset, Goto
<1>2. c \in Slots /\ c # None
  BY <1>1 DEF TypeOKPool, HoldersHold
<1>3. SlotOwned'
  BY <1>1, SameOwners
<1>4. c \notin Counted
  BY <1>1, <1>2 DEF Counted, SlotOwned
<1>5. Counted' = Counted \cup {c}
  <2>1. Elems(ready') = Elems(ready)
    BY <1>1
  <2>2. {u \in Threads : pc'[u] \in {"own", "getting"}}
          = {u \in Threads : pc[u] \in {"own", "getting"}} \cup {t}
    BY <1>1 DEF TypeOKPool
  <2> QED BY <1>1, <2>1, <2>2 DEF Counted
<1>6. Cardinality(Counted') = Cardinality(Counted) + 1 /\ Cardinality(Counted') <= Cardinality(Slots)
  <2>1. Cardinality(Counted \cup {c}) = Cardinality(Counted) + 1
    BY <1>4, CountedFinite, FS_AddElement
  <2>2. Counted \cup {c} \in SUBSET Slots
    BY <1>2, CountedFinite
  <2> QED BY <2>1, <2>2, <1>5, FS_Subset, PoolAssumption
<1>7. live = Cardinality(Counted)
  BY <1>1 DEF LiveExact, AllOrNoneGone
<1>8. TypeOKPool' /\ LiveExact'
  <2>1. live' \in 0 .. Cardinality(Slots) /\ live' = Cardinality(Counted')
    BY <1>1, <1>6, <1>7, CountedFinite
  <2> QED BY <1>1, <1>2, <2>1 DEF TypeOKPool, LiveExact
<1>9. FreeIsIdle'
  BY <1>1, <1>2 DEF FreeIsIdle, SlotOwned, TypeOKPool, Elems
<1>10. PushedClean'
  BY <1>1, <1>2 DEF PushedClean, TypeOKPool, HoldersHold
<1>11. HoldersHold' /\ AllOrNoneGone'
  BY <1>1 DEF HoldersHold, AllOrNoneGone, TypeOKPool
<1> QED BY <1>3, <1>8, <1>9, <1>10, <1>11

LEMMA ReleaseScrubInv ==
  ASSUME PoolInv, NEW t \in Threads, ReleaseScrub(t)
  PROVE  PoolInv'
<1> USE DEF PoolInv
<1> DEFINE c == conn[t]
<1>1. /\ pc[t] = "own" /\ pc' = [pc EXCEPT ![t] = "pushing"]
      /\ fd' = [fd EXCEPT ![c] = FALSE] /\ len' = [len EXCEPT ![c] = 0]
      /\ live' = live - 1 /\ UNCHANGED <<free, ready, posted, taken, conn, cell>>
  BY DEF ReleaseScrub, Goto
<1>2. c \in Slots /\ c # None
  BY <1>1 DEF TypeOKPool, HoldersHold
<1>3. SlotOwned'
  BY <1>1, SameOwners
<1>4. c \in Counted
  BY <1>1 DEF Counted
<1>5. Counted' = Counted \ {c}
  <2>1. Elems(ready') = Elems(ready) /\ c \notin Elems(ready)
    BY <1>1, <1>2 DEF SlotOwned
  <2>2. {u \in Threads : pc'[u] \in {"own", "getting"}}
          = {u \in Threads : pc[u] \in {"own", "getting"}} \ {t}
    BY <1>1 DEF TypeOKPool
  <2>3. \A u \in Threads : u # t => conn[u] # c
    BY <1>2 DEF SlotOwned
  <2> QED BY <1>1, <2>1, <2>2, <2>3 DEF Counted
<1>6. Cardinality(Counted') = Cardinality(Counted) - 1 /\ Cardinality(Counted') \in Nat
  <2>1. Cardinality(Counted \ {c}) = Cardinality(Counted) - 1 /\ IsFiniteSet(Counted \ {c})
    BY <1>4, CountedFinite, FS_RemoveElement
  <2> QED BY <2>1, <1>5, FS_CardinalityType
<1>7. live = Cardinality(Counted)
  BY <1>1 DEF LiveExact, AllOrNoneGone
<1>8. TypeOKPool' /\ LiveExact'
  <2>1. live' \in 0 .. Cardinality(Slots) /\ live' = Cardinality(Counted')
    BY <1>1, <1>6, <1>7, CountedFinite
  <2> QED BY <1>1, <1>2, <2>1 DEF TypeOKPool, LiveExact
<1>9. FreeIsIdle'
  BY <1>1, <1>2 DEF FreeIsIdle, SlotOwned, TypeOKPool, Elems
<1>10. PushedClean'
  BY <1>1, <1>2 DEF PushedClean, TypeOKPool, HoldersHold
<1>11. HoldersHold' /\ AllOrNoneGone'
  BY <1>1 DEF HoldersHold, AllOrNoneGone, TypeOKPool
<1> QED BY <1>3, <1>8, <1>9, <1>10, <1>11

LEMMA ReleasePushInv ==
  ASSUME PoolInv, NEW t \in Threads, ReleasePush(t)
  PROVE  PoolInv'
<1> USE DEF PoolInv
<1> DEFINE c == conn[t]
<1>1. /\ pc[t] = "pushing" /\ pc' = [pc EXCEPT ![t] = "idle"]
      /\ conn' = [conn EXCEPT ![t] = None] /\ free' = <<c>> \o free
      /\ UNCHANGED <<ready, posted, taken, live, fd, len, cell>>
  BY DEF ReleasePush, Goto
<1>2. /\ c \in Slots /\ c # None /\ c \notin Elems(free) \cup Elems(ready)
      /\ \A u \in Threads : u # t => conn[u] # c
  BY <1>1 DEF TypeOKPool, HoldersHold, SlotOwned
<1>3. free' \in Seq(Slots) /\ Elems(free') = Elems(free) \cup {c} /\ NoRepeats(free')
  BY <1>1, <1>2, PushElems DEF TypeOKPool, SlotOwned
<1>4. TypeOKPool'
  BY <1>1, <1>3 DEF TypeOKPool
<1>5. \A u \in Threads : conn'[u] = IF u = t THEN None ELSE conn[u]
  BY <1>1 DEF TypeOKPool
<1>6. SlotOwned'
  <2>1. NoRepeats(free') /\ NoRepeats(ready') /\ Elems(ready') = Elems(ready)
        /\ Elems(free') \cap Elems(ready') = {}
    BY <1>1, <1>2, <1>3 DEF SlotOwned
  <2>2. \A u \in Threads : conn'[u] # None => conn'[u] \notin Elems(free') \cup Elems(ready')
    BY <2>1, <1>2, <1>3, <1>5 DEF SlotOwned
  <2>3. \A u, v \in Threads : conn'[u] # None /\ conn'[u] = conn'[v] => u = v
    BY <1>5 DEF SlotOwned
  <2>4. ASSUME NEW d \in Slots
        PROVE  d \in Elems(free') \cup Elems(ready') \/ \E u \in Threads : conn'[u] = d
    BY <2>1, <1>1, <1>3, <1>5 DEF SlotOwned
  <2> QED BY <2>1, <2>2, <2>3, <2>4 DEF SlotOwned
<1>7. Counted' = Counted
  <2>1. {u \in Threads : pc'[u] \in {"own", "getting"}} = {u \in Threads : pc[u] \in {"own", "getting"}}
    BY <1>1 DEF TypeOKPool
  <2>2. \A u \in Threads : pc[u] \in {"own", "getting"} => conn'[u] = conn[u]
    BY <1>1, <1>5
  <2> QED BY <1>1, <2>1, <2>2 DEF Counted
<1>8. LiveExact' /\ AllOrNoneGone'
  BY <1>1, <1>7 DEF LiveExact, AllOrNoneGone, TypeOKPool
<1>9. FreeIsIdle'
  BY <1>1, <1>3 DEF FreeIsIdle, PushedClean
<1>10. HoldersHold' /\ PushedClean'
  BY <1>1, <1>5 DEF HoldersHold, PushedClean, TypeOKPool
<1> QED BY <1>4, <1>6, <1>8, <1>9, <1>10

LEMMA PostClaimInv ==
  ASSUME PoolInv, NEW t \in Threads, PostClaim(t)
  PROVE  PoolInv'
<1> USE DEF PoolInv
<1> DEFINE c == conn[t]
<1>1. /\ pc[t] = "own" /\ pc' = [pc EXCEPT ![t] = "posting"]
      /\ conn' = [conn EXCEPT ![t] = None] /\ ready' = Append(ready, c)
      /\ cell' = [cell EXCEPT ![t] = posted] /\ posted' = posted + 1
      /\ UNCHANGED <<free, taken, live, fd, len>>
  BY DEF PostClaim, Goto
<1>2. /\ c \in Slots /\ c # None /\ c \notin Elems(free) \cup Elems(ready)
      /\ \A u \in Threads : u # t => conn[u] # c
  BY <1>1 DEF TypeOKPool, HoldersHold, SlotOwned
<1>3. ready' \in Seq(Slots) /\ Elems(ready') = Elems(ready) \cup {c} /\ NoRepeats(ready')
  BY <1>1, <1>2, AppendElems DEF TypeOKPool, SlotOwned
<1>4. TypeOKPool'
  BY <1>1, <1>3 DEF TypeOKPool
<1>5. \A u \in Threads : conn'[u] = IF u = t THEN None ELSE conn[u]
  BY <1>1 DEF TypeOKPool
<1>6. SlotOwned'
  <2>1. NoRepeats(free') /\ NoRepeats(ready') /\ Elems(free') = Elems(free)
        /\ Elems(free') \cap Elems(ready') = {}
    BY <1>1, <1>2, <1>3 DEF SlotOwned
  <2>2. \A u \in Threads : conn'[u] # None => conn'[u] \notin Elems(free') \cup Elems(ready')
    BY <2>1, <1>2, <1>3, <1>5 DEF SlotOwned
  <2>3. \A u, v \in Threads : conn'[u] # None /\ conn'[u] = conn'[v] => u = v
    BY <1>5 DEF SlotOwned
  <2>4. ASSUME NEW d \in Slots
        PROVE  d \in Elems(free') \cup Elems(ready') \/ \E u \in Threads : conn'[u] = d
    BY <2>1, <1>1, <1>3, <1>5 DEF SlotOwned
  <2> QED BY <2>1, <2>2, <2>3, <2>4 DEF SlotOwned
<1>7. Counted' = Counted
  <2>1. {u \in Threads : pc'[u] \in {"own", "getting"}}
          = {u \in Threads : pc[u] \in {"own", "getting"}} \ {t}
    BY <1>1 DEF TypeOKPool
  <2>2. \A u \in Threads : u # t => conn'[u] = conn[u]
    BY <1>5
  <2> QED BY <1>1, <1>3, <2>1, <2>2 DEF Counted
<1>8. LiveExact' /\ AllOrNoneGone'
  BY <1>1, <1>7 DEF LiveExact, AllOrNoneGone, TypeOKPool
<1>9. FreeIsIdle'
  BY <1>1 DEF FreeIsIdle
<1>10. HoldersHold' /\ PushedClean'
  BY <1>1, <1>5 DEF HoldersHold, PushedClean, TypeOKPool
<1> QED BY <1>4, <1>6, <1>8, <1>9, <1>10

LEMMA GetClaimInv ==
  ASSUME PoolInv, NEW t \in Threads, GetClaim(t)
  PROVE  PoolInv'
<1> USE DEF PoolInv
<1> DEFINE c == Head(ready)
<1>1. /\ pc[t] = "idle" /\ conn[t] = None /\ ready # <<>>
      /\ conn' = [conn EXCEPT ![t] = c] /\ pc' = [pc EXCEPT ![t] = "getting"]
      /\ ready' = Tail(ready) /\ cell' = [cell EXCEPT ![t] = taken] /\ taken' = taken + 1
      /\ UNCHANGED <<free, posted, live, fd, len>>
  BY DEF GetClaim, Goto, HoldersHold, CanGet
<1>2. /\ ready' \in Seq(Slots) /\ c \in Slots /\ c \in Elems(ready)
      /\ Elems(ready') = Elems(ready) \ {c} /\ NoRepeats(ready')
  BY <1>1, TailElems DEF TypeOKPool, SlotOwned
<1> HIDE DEF c
<1>3. TypeOKPool'
  BY <1>1, <1>2 DEF TypeOKPool
<1>4. Elems(free') = Elems(free) /\ NoRepeats(free')
      /\ c \notin Elems(free) /\ \A u \in Threads : conn[u] # c
  BY <1>1, <1>2, PoolAssumption DEF SlotOwned
<1>5. \A u \in Threads : conn'[u] = IF u = t THEN c ELSE conn[u]
  BY <1>1 DEF TypeOKPool
<1>6. SlotOwned'
  <2>1. NoRepeats(free') /\ NoRepeats(ready') /\ Elems(free') \cap Elems(ready') = {}
    BY <1>2, <1>4 DEF SlotOwned
  <2>2. \A u \in Threads : conn'[u] # None => conn'[u] \notin Elems(free') \cup Elems(ready')
    BY <1>2, <1>4, <1>5 DEF SlotOwned
  <2>3. \A u, v \in Threads : conn'[u] # None /\ conn'[u] = conn'[v] => u = v
    BY <1>4, <1>5 DEF SlotOwned
  <2>4. ASSUME NEW d \in Slots
        PROVE  d \in Elems(free') \cup Elems(ready') \/ \E u \in Threads : conn'[u] = d
    <3>1. CASE d = c
      BY <3>1, <1>5
    <3>2. CASE d # c /\ d \in Elems(free) \cup Elems(ready)
      BY <3>2, <1>2, <1>4
    <3>3. CASE d # c /\ \E u \in Threads : conn[u] = d
      BY <3>3, <1>1, <1>5, PoolAssumption
    <3>4. CASE \A u \in Threads : pc[u] = "gone"
      BY <3>4, <1>1
    <3> QED BY <3>1, <3>2, <3>3, <3>4 DEF SlotOwned
  <2> QED BY <2>1, <2>2, <2>3, <2>4 DEF SlotOwned
<1>7. Counted' = Counted
  <2>1. {u \in Threads : pc'[u] \in {"own", "getting"}}
          = {u \in Threads : pc[u] \in {"own", "getting"}} \cup {t}
    BY <1>1 DEF TypeOKPool
  <2> QED BY <1>1, <1>2, <1>5, <2>1 DEF Counted
<1>8. LiveExact' /\ AllOrNoneGone'
  BY <1>1, <1>7 DEF LiveExact, AllOrNoneGone, TypeOKPool
<1>9. FreeIsIdle'
  BY <1>1 DEF FreeIsIdle
<1>10. HoldersHold' /\ PushedClean'
  BY <1>1, <1>2, <1>5, PoolAssumption DEF HoldersHold, PushedClean, TypeOKPool
<1> QED BY <1>3, <1>6, <1>8, <1>9, <1>10

\* A claimed cell is handed on; no slot changes hands.
LEMMA HandOnInv ==
  ASSUME PoolInv, NEW t \in Threads, PostPublish(t) \/ GetReturn(t)
  PROVE  PoolInv'
<1> USE DEF PoolInv
<1>1. /\ cell' = [cell EXCEPT ![t] = None]
      /\ UNCHANGED <<free, ready, posted, taken, live, fd, len, conn>>
      /\ \/ pc[t] = "posting" /\ pc' = [pc EXCEPT ![t] = "idle"]
         \/ pc[t] = "getting" /\ pc' = [pc EXCEPT ![t] = "own"]
  BY DEF PostPublish, GetReturn, Goto
<1>2. SlotOwned'
  BY <1>1, SameOwners
<1>3. TypeOKPool'
  BY <1>1 DEF TypeOKPool
<1>4. Counted' = Counted
  <2>1. {u \in Threads : pc'[u] \in {"own", "getting"}} = {u \in Threads : pc[u] \in {"own", "getting"}}
    BY <1>1 DEF TypeOKPool
  <2> QED BY <1>1, <2>1 DEF Counted
<1>5. LiveExact' /\ FreeIsIdle' /\ AllOrNoneGone'
  BY <1>1, <1>4 DEF LiveExact, FreeIsIdle, AllOrNoneGone, TypeOKPool
<1>6. HoldersHold' /\ PushedClean'
  BY <1>1 DEF HoldersHold, PushedClean, TypeOKPool
<1> QED BY <1>2, <1>3, <1>5, <1>6

\* The owner works on its slot: the free list is not concerned.
LEMMA OwnerInv ==
  ASSUME PoolInv, NEW t \in Threads, Accept(t) \/ Receive(t)
  PROVE  PoolInv'
<1> USE DEF PoolInv
<1> DEFINE c == conn[t]
<1>1. /\ pc[t] = "own" /\ UNCHANGED <<free, ready, posted, taken, live, pc, conn, cell>>
      /\ \/ fd' = [fd EXCEPT ![c] = TRUE] /\ len' = len
         \/ fd' = fd /\ len' = [len EXCEPT ![c] = @ + 1]
  BY DEF Accept, Receive
<1>2. c \in Slots /\ c # None /\ c \notin Elems(free)
  BY <1>1 DEF TypeOKPool, HoldersHold, SlotOwned
<1>3. SlotOwned'
  BY <1>1, SameOwners
<1>4. TypeOKPool'
  <2>1. fd' \in [Slots -> BOOLEAN]
    BY <1>1, <1>2 DEF TypeOKPool
  <2>2. len' \in [Slots -> Nat]
    <3>1. len \in [Slots -> Nat] /\ len[c] + 1 \in Nat
      BY <1>2 DEF TypeOKPool
    <3>2. CASE len' = len
      BY <3>1, <3>2
    <3>3. CASE len' = [len EXCEPT ![c] = len[c] + 1]
      BY <3>1, <3>3
    <3> QED BY <1>1, <3>2, <3>3
  <2> QED BY <1>1, <2>1, <2>2 DEF TypeOKPool
<1>5. Counted' = Counted
  BY <1>1 DEF Counted
<1>6. LiveExact' /\ AllOrNoneGone' /\ HoldersHold'
  BY <1>1, <1>5 DEF LiveExact, AllOrNoneGone, HoldersHold
<1>7. FreeIsIdle'
  BY <1>1, <1>2 DEF FreeIsIdle, TypeOKPool, Elems
<1>8. PushedClean'
  BY <1>1, <1>2 DEF PushedClean, TypeOKPool, SlotOwned, HoldersHold
<1> QED BY <1>3, <1>4, <1>6, <1>7, <1>8

LEMMA DestroyPoolInv ==
  ASSUME PoolInv, DestroyPool
  PROVE  PoolInv'
<1> USE DEF PoolInv
<1>1. /\ fd' = [c \in Slots |-> FALSE] /\ free' = <<>> /\ ready' = <<>>
      /\ pc' = [t \in Threads |-> "gone"] /\ conn' = [t \in Threads |-> None]
      /\ UNCHANGED <<posted, taken, live, len, cell>>
  BY DEF DestroyPool
<1>2. /\ Elems(free') = {} /\ NoRepeats(free')
      /\ Elems(ready') = {} /\ NoRepeats(ready')
  BY <1>1, EmptyElems
<1>3. TypeOKPool'
  BY <1>1 DEF TypeOKPool
<1>4. SlotOwned' /\ FreeIsIdle'
  BY <1>1, <1>2 DEF SlotOwned, FreeIsIdle
<1>5. LiveExact' /\ HoldersHold' /\ PushedClean' /\ AllOrNoneGone'
  BY <1>1, PoolAssumption DEF LiveExact, HoldersHold, PushedClean, AllOrNoneGone
<1> QED BY <1>3, <1>4, <1>5

LEMMA StutterInv ==
  ASSUME PoolInv, UNCHANGED poolVars
  PROVE  PoolInv'
<1> USE DEF PoolInv, poolVars
<1>1. TypeOKPool'
  BY DEF TypeOKPool
<1>2. SlotOwned' /\ FreeIsIdle'
  BY DEF SlotOwned, FreeIsIdle, Elems, NoRepeats
<1>3. LiveExact'
  BY DEF LiveExact, Counted, Elems
<1>4. HoldersHold' /\ PushedClean' /\ AllOrNoneGone'
  BY DEF HoldersHold, PushedClean, AllOrNoneGone
<1> QED BY <1>1, <1>2, <1>3, <1>4

LEMMA NextPoolInv == PoolInv /\ [NextPool]_poolVars => PoolInv'
<1> SUFFICES ASSUME PoolInv, [NextPool]_poolVars PROVE PoolInv'
  OBVIOUS
<1>1. CASE UNCHANGED poolVars
  BY <1>1, StutterInv
<1>2. CASE DestroyPool
  BY <1>2, DestroyPoolInv
<1>3. CASE Gone
  BY <1>3, StutterInv DEF Gone
<1>4. ASSUME NEW t \in Threads, PoolCall(t) \/ Accept(t) \/ Receive(t) PROVE PoolInv'
  <2>1. CASE AcquireFails(t) \/ PostRefused(t) \/ GetEmpty(t)
    BY <2>1, StutterInv DEF AcquireFails, PostRefused, GetEmpty
  <2> QED BY <1>4, <2>1, AcquirePopInv, AcquireResetInv, ReleaseScrubInv, ReleasePushInv,
             PostClaimInv, GetClaimInv, HandOnInv, OwnerInv DEF PoolCall
<1> QED BY <1>1, <1>2, <1>3, <1>4 DEF NextPool

LEMMA PoolInvHolds == SpecPool => []PoolInv
BY InitPoolInv, NextPoolInv, PTL DEF SpecPool

-----------------------------------------------------------------------------

\* Type correctness of the pool's fields: in particular `live', which acquire
\* and release update apart from the free list, never leaves 0 .. capacity.
THEOREM PoolTypes == SpecPool => []TypeOKPool
BY PoolInvHolds, PTL DEF PoolInv

\* acquire, release, post_ready and get_ready pass every slot from one place to
\* exactly one other, whatever the interleaving.
THEOREM OneOwner == SpecPool => []SlotOwned
BY PoolInvHolds, PTL DEF PoolInv

\* scl_tcp_pool_live is exact: it counts the slots that are owned or ready.
THEOREM LiveCounts == SpecPool => []LiveExact
BY PoolInvHolds, PTL DEF PoolInv

\* release has closed the socket and reset the buffer before the slot can be
\* acquired again.
THEOREM FreeSlotsIdle == SpecPool => []FreeIsIdle
BY PoolInvHolds, PTL DEF PoolInv

-----------------------------------------------------------------------------
(* The server. *)

\* Workers that have taken a token and not yet a connection.
Getters == {w \in Workers : at[w] = "get" /\ pc[w] = "idle"}

\* Workers between a connection's dequeue and its uncounting.
Serving == {w \in Workers : pc[w] = "getting" \/ at[w] = "serve"}

\* The acceptor has enqueued a connection and not yet raised the semaphore.
Pending == at[Acceptor] = "sem" \/ pc[Acceptor] = "posting"

\* The acceptor has counted a connection and not yet enqueued it.
Accepting ==
  \/ at[Acceptor] \in {"acquire", "fill"}
  \/ at[Acceptor] = "post" /\ pc[Acceptor] = "own"

ServerTypes ==
  /\ running \in BOOLEAN /\ started \in BOOLEAN /\ failed \in BOOLEAN /\ badJoin \in BOOLEAN
  /\ sem \in Nat /\ open \in Int
  /\ at \in [Threads -> {"none", "exited", "poll", "drain", "gate", "acquire", "fill", "post",
                         "undo", "sem", "loop", "get", "serve", "release"}]
  /\ main \in {"idle", "spawn", "broadcast", "join", "destroy", "gone", "lost"}
  /\ call \in {"start", "stop", "destroy"}
  /\ tojoin \in Seq(Threads)

\* Where a thread is in its main function says where it is in the pool.
AcceptorAt ==
  /\ at[Acceptor] \notin {"loop", "get", "serve", "release"}
  /\ at[Acceptor] \in {"none", "exited", "poll", "drain", "gate", "sem"} => pc[Acceptor] = "idle"
  /\ at[Acceptor] = "acquire" => pc[Acceptor] \in {"idle", "popped"}
  /\ at[Acceptor] = "fill" => pc[Acceptor] = "own"
  /\ at[Acceptor] = "post" => pc[Acceptor] \in {"own", "posting"}
  /\ at[Acceptor] = "undo" => pc[Acceptor] \in {"own", "pushing"}

WorkersAt ==
  \A w \in Workers :
    /\ at[w] \in {"none", "exited", "loop", "sem", "get", "serve", "release"}
    /\ at[w] \in {"none", "exited", "loop", "sem"} => pc[w] = "idle"
    /\ at[w] = "get" => pc[w] \in {"idle", "getting"}
    /\ at[w] = "serve" => pc[w] = "own"
    /\ at[w] = "release" => pc[w] \in {"own", "pushing"}

\* The ring's positions; only the acceptor posts, so the one position that may
\* be unpublished is the last.
Positions ==
  /\ posted = taken + Len(ready)
  /\ pc[Acceptor] = "posting" => cell[Acceptor] = posted - 1

\* Every queued connection has its token: in the semaphore, in a worker's
\* hands, or about to be posted.
Tokens == Len(ready) = sem + Cardinality(Getters) + IF Pending THEN 1 ELSE 0

Balance == open = Len(ready) + Cardinality(Serving) + IF Accepting THEN 1 ELSE 0

\* Which threads there can be at each point of start, stop and destroy.
Lifecycle ==
  /\ running => started
  /\ main = "idle" /\ ~started => \A t \in Threads : at[t] = "none"
  /\ main = "idle" /\ started /\ ~failed => \A t \in Threads : at[t] # "none"
  /\ main = "spawn" =>
       /\ started /\ call = "start" /\ at[Acceptor] = "none"
       /\ Len(tojoin) <= NumWorkers
       /\ \A i \in 1 .. Len(tojoin) : tojoin[i] = i
       /\ \A w \in Workers : at[w] = "none" <=> w > Len(tojoin)
  /\ main \in {"broadcast", "join"} =>
       /\ NoRepeats(tojoin)
       /\ \A t \in Threads : t \notin Elems(tojoin) => at[t] = "none"
       /\ ~failed => \A t \in Elems(tojoin) : at[t] # "none"
       /\ started /\ ~running /\ (call = "start" => failed)
  /\ main \in {"destroy", "gone"} => \A t \in Threads : at[t] = "none"
  /\ badJoin => failed

\* While the pool exists.
Inside == AcceptorAt /\ WorkersAt /\ Positions /\ Tokens /\ Balance

ServerInv ==
  /\ PoolInv /\ ServerTypes /\ Lifecycle
  /\ main # "gone" => Inside

-----------------------------------------------------------------------------
(* Facts about the constants, the counted sets and the list of joins. *)

LEMMA ThreadSets ==
  /\ Acceptor \in Threads /\ Workers \subseteq Threads /\ Acceptor \notin Workers
  /\ \A t \in Threads : t = Acceptor \/ t \in Workers
  /\ IsFiniteSet(Workers) /\ NumWorkers \in Nat
<1>1. IsFiniteSet(1 .. NumWorkers) BY ServerAssumption, FS_Interval
<1> QED BY <1>1, ServerAssumption DEF Acceptor, Workers

LEMMA CountedSets ==
  /\ IsFiniteSet(Getters) /\ Cardinality(Getters) \in Nat
  /\ IsFiniteSet(Serving) /\ Cardinality(Serving) \in Nat
  /\ \A w \in Getters : Cardinality(Getters) >= 1
<1>1. Getters \in SUBSET Workers /\ Serving \in SUBSET Workers BY DEF Getters, Serving
<1>2. IsFiniteSet(Getters) /\ IsFiniteSet(Serving) BY <1>1, ThreadSets, FS_Subset
<1>3. Cardinality(Getters) \in Nat /\ Cardinality(Serving) \in Nat
  BY <1>2, FS_CardinalityType
<1>4. \A w \in Getters : Cardinality(Getters) # 0 BY <1>2, FS_EmptySet
<1> QED BY <1>2, <1>3, <1>4

\* One worker more, or one fewer.
LEMMA CountChange ==
  ASSUME NEW S, IsFiniteSet(S), NEW T, NEW w
  PROVE  /\ w \notin S /\ T = S \cup {w} => Cardinality(T) = Cardinality(S) + 1
         /\ w \in S /\ T = S \ {w} => Cardinality(T) = Cardinality(S) - 1
BY FS_AddElement, FS_RemoveElement

LEMMA JoinList ==
  ToJoin \in Seq(Threads) /\ NoRepeats(ToJoin) /\ Elems(ToJoin) = Threads
<1> DEFINE s == [w \in Workers |-> w]
<1>1. /\ s \in Seq(Threads) /\ DOMAIN s = 1 .. NumWorkers
      /\ \A i \in 1 .. NumWorkers : s[i] = i
  BY ThreadSets DEF Workers
<1>2. NoRepeats(s) /\ Elems(s) = Workers /\ Acceptor \notin Elems(s)
  BY <1>1, ThreadSets DEF NoRepeats, Elems, Workers
<1> HIDE DEF s
<1>3. /\ <<Acceptor>> \o s \in Seq(Threads) /\ NoRepeats(<<Acceptor>> \o s)
      /\ Elems(<<Acceptor>> \o s) = Workers \cup {Acceptor}
  BY <1>1, <1>2, ThreadSets, PushElems
<1>4. Workers \cup {Acceptor} = Threads BY ThreadSets
<1> QED BY <1>3, <1>4 DEF ToJoin, s

-----------------------------------------------------------------------------

LEMMA InitServer == Init => ServerInv
<1> SUFFICES ASSUME Init PROVE ServerInv OBVIOUS
<1>1. PoolInv BY InitPoolInv DEF Init
<1>2. ServerTypes
  <2>1. at \in [Threads -> {"none"}] /\ tojoin = <<>> /\ <<>> \in Seq(Threads)
    BY EmptySeq DEF Init
  <2>2. /\ sem = 0 /\ open = 0 /\ main = "idle" /\ call = "stop"
        /\ running = FALSE /\ started = FALSE /\ failed = FALSE /\ badJoin = FALSE
    BY DEF Init
  <2>3. /\ running \in BOOLEAN /\ started \in BOOLEAN /\ failed \in BOOLEAN /\ badJoin \in BOOLEAN
        /\ main \in {"idle", "spawn", "broadcast", "join", "destroy", "gone", "lost"}
        /\ call \in {"start", "stop", "destroy"}
    BY <2>2, Zenon
  <2>4. tojoin \in Seq(Threads) BY <2>1, Zenon
  <2>5. sem \in Nat /\ open \in Int BY <2>2
  <2>6. at \in [Threads -> {"none", "exited", "poll", "drain", "gate", "acquire", "fill", "post",
                            "undo", "sem", "loop", "get", "serve", "release"}]
    BY <2>1
  <2> QED BY <2>3, <2>4, <2>5, <2>6, Zenon DEF ServerTypes
<1>3. Lifecycle BY DEF Init, Lifecycle
<1>4. \A t \in Threads : pc[t] = "idle" /\ at[t] = "none" BY DEF Init, InitPool
<1>5. Getters = {} /\ Serving = {} /\ ~Pending /\ ~Accepting
  BY <1>4, ThreadSets DEF Getters, Serving, Pending, Accepting
<1>6. ready = <<>> /\ posted = 0 /\ taken = 0 /\ sem = 0 /\ open = 0 BY DEF Init, InitPool
<1>7. Tokens /\ Balance BY <1>5, <1>6, FS_EmptySet DEF Tokens, Balance
<1>8. AcceptorAt /\ WorkersAt /\ Positions
  BY <1>4, <1>6, ThreadSets DEF AcceptorAt, WorkersAt, Positions
<1> QED BY <1>1, <1>2, <1>3, <1>7, <1>8 DEF ServerInv, Inside

\* Every step of the server is a step of the pool or leaves it alone.
LEMMA ServerStepIsPoolStep == [Next]_vars => [NextPool]_poolVars
<1> SUFFICES ASSUME [Next]_vars PROVE [NextPool]_poolVars OBVIOUS
<1>1. CASE Start \/ Stop \/ Destroy \/ Down \/ UNCHANGED vars
  BY <1>1 DEF Start, Stop, Destroy, Stopping, Down, vars
<1>2. CASE MainStep
  BY <1>2 DEF MainStep, SpawnWorker, SpawnWorkerFails, SpawnAcceptor, SpawnAcceptorFails,
       Stopping, Broadcast, Join, JoinLost, Joined, FreeServer, NextPool
<1>3. CASE AcceptorStep
  BY <1>3, ThreadSets DEF AcceptorStep, AccPoll, AccDrain, AccGate, AccAcquire, AccFill,
       AccPost, AccUndo, AccSem, NextPool, PoolCall
<1>4. ASSUME NEW w \in Workers, WorkerStep(w) \/ Spurious(w) PROVE [NextPool]_poolVars
  BY <1>4, ThreadSets DEF WorkerStep, WkrLoop, WkrSem, WkrGet, WkrServed, WkrRelease,
       Spurious, NextPool, PoolCall
<1> QED BY <1>1, <1>2, <1>3, <1>4 DEF Next

LEMMA TypesStep == ServerInv /\ [Next]_vars => ServerTypes'
<1> SUFFICES ASSUME ServerTypes, Lifecycle, [Next]_vars PROVE ServerTypes'
  BY DEF ServerInv
<1> USE DEF ServerTypes, ctl, At
<1>1. CASE Start BY <1>1 DEF Start
<1>2. CASE Stop \/ Destroy BY <1>2, JoinList DEF Stop, Destroy, Stopping
<1>3. CASE SpawnWorker
  <2>1. Len(tojoin) + 1 \in Threads BY <1>3, ThreadSets DEF SpawnWorker
  <2> QED BY <1>3, <2>1 DEF SpawnWorker
<1>4. CASE SpawnWorkerFails BY <1>4 DEF SpawnWorkerFails
<1>5. CASE SpawnAcceptor BY <1>5, ThreadSets DEF SpawnAcceptor
<1>6. CASE SpawnAcceptorFails BY <1>6, JoinList DEF SpawnAcceptorFails, Stopping
<1>7. CASE Broadcast BY <1>7 DEF Broadcast
<1>8. CASE Join
  <2>1. Head(tojoin) \in Threads /\ Tail(tojoin) \in Seq(Threads)
    BY <1>8, HeadTailProperties DEF Join
  <2>2. at' = [at EXCEPT ![Head(tojoin)] = "none"] /\ badJoin' \in BOOLEAN
    BY <1>8 DEF Join
  <2> QED BY <1>8, <2>1, <2>2 DEF Join
<1>9. CASE Joined BY <1>9 DEF Joined
<1>10. CASE FreeServer BY <1>10 DEF FreeServer
<1>11. CASE AcceptorStep
  BY <1>11, ThreadSets DEF AcceptorStep, AccPoll, AccDrain, AccGate, AccAcquire, AccFill,
       AccPost, AccUndo, AccSem
<1>12. ASSUME NEW w \in Workers, WorkerStep(w) \/ Spurious(w) PROVE ServerTypes'
  BY <1>12, ThreadSets DEF WorkerStep, WkrLoop, WkrSem, WkrGet, WkrServed, WkrRelease, Spurious
<1>13. CASE Down \/ UNCHANGED vars BY <1>13 DEF Down, vars
<1>14. CASE JoinLost BY <1>14 DEF JoinLost
<1> QED BY <1>1, <1>2, <1>3, <1>4, <1>5, <1>6, <1>7, <1>8, <1>9, <1>10, <1>11, <1>12, <1>13, <1>14
  DEF Next, MainStep

\* The acceptor and the workers come and go only by the hand of the thread
\* that calls start and stop.
LEMMA ThreadStepLifecycle ==
  ASSUME ServerTypes, Lifecycle,
         AcceptorStep \/ \E w \in Workers : WorkerStep(w) \/ Spurious(w)
  PROVE  Lifecycle'
<1>1. UNCHANGED <<running, started, main, tojoin, call, badJoin, failed>>
  BY DEF AcceptorStep, AccPoll, AccDrain, AccGate, AccAcquire, AccFill, AccPost, AccUndo,
       AccSem, WorkerStep, WkrLoop, WkrSem, WkrGet, WkrServed, WkrRelease, Spurious, ctl
<1>2. \A t \in Threads : at'[t] = "none" <=> at[t] = "none"
  <2>1. CASE AcceptorStep
    BY <2>1, ThreadSets DEF AcceptorStep, AccPoll, AccDrain, AccGate, AccAcquire, AccFill,
         AccPost, AccUndo, AccSem, At, ServerTypes
  <2>2. ASSUME NEW w \in Workers, WorkerStep(w) \/ Spurious(w)
        PROVE  \A t \in Threads : at'[t] = "none" <=> at[t] = "none"
    BY <2>2, ThreadSets DEF WorkerStep, WkrLoop, WkrSem, WkrGet, WkrServed, WkrRelease,
         Spurious, At, ServerTypes
  <2> QED BY <2>1, <2>2
<1> QED BY <1>1, <1>2, ThreadSets DEF Lifecycle, NoRepeats, Elems, ServerTypes

LEMMA StoppingLifecycle ==
  ASSUME ServerTypes, Lifecycle, NEW c \in {"stop", "destroy"}, Stopping(c),
         \/ main = "idle" /\ failed' = failed
         \/ main = "spawn" /\ failed' = TRUE
  PROVE  Lifecycle'
<1>1. /\ running' = FALSE /\ call' = c /\ started' = started /\ at' = at /\ badJoin' = badJoin
      /\ IF running \/ started
         THEN main' = "broadcast" /\ tojoin' = ToJoin
         ELSE main' \in {"destroy", "idle"} /\ tojoin' = tojoin
  BY DEF Stopping
<1>2. CASE running \/ started
  <2>1. started /\ main' = "broadcast" /\ tojoin' = ToJoin BY <1>1, <1>2 DEF Lifecycle
  <2>2. NoRepeats(tojoin') /\ Elems(tojoin') = Threads BY <2>1, JoinList
  <2>3. ~failed' => \A t \in Threads : at[t] # "none" BY <2>1 DEF Lifecycle
  <2>4. failed => failed' BY DEF ServerTypes
  <2> QED BY <1>1, <2>1, <2>2, <2>3, <2>4 DEF Lifecycle
<1>3. CASE ~(running \/ started)
  <2>1. main = "idle" BY <1>3 DEF Lifecycle
  <2>2. \A t \in Threads : at[t] = "none" BY <1>3, <2>1 DEF Lifecycle
  <2> QED BY <1>1, <1>3, <2>1, <2>2 DEF Lifecycle
<1> QED BY <1>2, <1>3

LEMMA LifecycleStep == ServerInv /\ [Next]_vars => Lifecycle'
<1> SUFFICES ASSUME ServerTypes, Lifecycle, [Next]_vars PROVE Lifecycle'
  BY DEF ServerInv
<1>1. CASE Start
  <2>1. /\ main = "idle" /\ ~started /\ main' = "spawn" /\ started' /\ call' = "start"
        /\ tojoin' = <<>> /\ at' = at /\ badJoin' = badJoin /\ failed' = failed
    BY <1>1 DEF Start
  <2>2. \A t \in Threads : at[t] = "none" BY <2>1 DEF Lifecycle
  <2> QED BY <2>1, <2>2, ThreadSets DEF Lifecycle, Workers
<1>2. CASE Stop \/ Destroy BY <1>2, StoppingLifecycle DEF Stop, Destroy
<1>3. CASE SpawnWorker
  <2> DEFINE k == Len(tojoin)
  <2>1. /\ main = "spawn" /\ main' = main /\ k + 1 \in Workers /\ k \in Nat
        /\ at' = [at EXCEPT ![k + 1] = "loop"] /\ tojoin' = Append(tojoin, k + 1)
        /\ UNCHANGED <<running, started, call, badJoin, failed>>
    BY <1>3 DEF SpawnWorker, At, ServerTypes
  <2>2. /\ Len(tojoin') = k + 1 /\ tojoin'[k + 1] = k + 1
        /\ \A i \in 1 .. k : tojoin'[i] = tojoin[i]
    BY <2>1, ThreadSets DEF ServerTypes
  <2>3. k + 1 <= NumWorkers BY <2>1 DEF Workers
  <2>4. \A w \in Workers : at'[w] = "none" <=> w > k + 1
    BY <2>1, ThreadSets DEF Lifecycle, ServerTypes, Workers
  <2>5. at'[Acceptor] = "none" BY <2>1, ThreadSets DEF Lifecycle, ServerTypes
  <2>6. \A i \in 1 .. k + 1 : tojoin'[i] = i BY <2>1, <2>2 DEF Lifecycle
  <2> HIDE DEF k
  <2> QED BY <2>1, <2>2, <2>3, <2>4, <2>5, <2>6 DEF Lifecycle
<1>4. CASE SpawnWorkerFails
  <2>1. /\ main = "spawn" /\ main' = "broadcast" /\ failed' /\ ~running'
        /\ UNCHANGED <<started, at, tojoin, call, badJoin>>
    BY <1>4 DEF SpawnWorkerFails
  <2>2. DOMAIN tojoin = 1 .. Len(tojoin) /\ Len(tojoin) \in Nat BY LenProperties DEF ServerTypes
  <2>3. NoRepeats(tojoin) /\ Elems(tojoin) = 1 .. Len(tojoin)
    BY <2>1, <2>2 DEF Lifecycle, NoRepeats, Elems
  <2>4. \A t \in Threads : t \notin Elems(tojoin) => at[t] = "none"
    BY <2>1, <2>2, <2>3, ThreadSets DEF Lifecycle, Workers
  <2> QED BY <2>1, <2>3, <2>4 DEF Lifecycle
<1>5. CASE SpawnAcceptor
  <2>1. /\ main = "spawn" /\ main' = "idle" /\ Len(tojoin) = NumWorkers
        /\ at' = [at EXCEPT ![Acceptor] = "poll"]
        /\ UNCHANGED <<running, started, tojoin, call, badJoin, failed>>
    BY <1>5 DEF SpawnAcceptor, At
  <2>2. \A t \in Threads : at'[t] # "none"
    BY <2>1, ThreadSets DEF Lifecycle, ServerTypes, Workers
  <2> QED BY <2>1, <2>2 DEF Lifecycle
<1>6. CASE SpawnAcceptorFails
  BY <1>6, StoppingLifecycle DEF SpawnAcceptorFails
<1>7. CASE Broadcast
  BY <1>7 DEF Broadcast, Lifecycle
<1>8. CASE Join
  <2> DEFINE t == Head(tojoin)
  <2>1. /\ main = "join" /\ main' = main /\ tojoin # <<>> /\ tojoin' = Tail(tojoin)
        /\ at' = [at EXCEPT ![t] = "none"] /\ badJoin' = (badJoin \/ at[t] = "none")
        /\ UNCHANGED <<running, started, call, failed>>
    BY <1>8 DEF Join, At
  <2>2. /\ NoRepeats(tojoin') /\ Elems(tojoin') = Elems(tojoin) \ {t}
        /\ t \in Threads /\ t \in Elems(tojoin)
    BY <2>1, TailElems DEF Lifecycle, ServerTypes
  <2> HIDE DEF t
  <2>3. \A u \in Threads : at'[u] = IF u = t THEN "none" ELSE at[u]
    BY <2>1, <2>2 DEF ServerTypes
  <2>4. \A u \in Threads : u \notin Elems(tojoin') => at'[u] = "none"
    BY <2>1, <2>2, <2>3 DEF Lifecycle
  <2>5. Elems(tojoin) \subseteq Threads BY ElementOfSeq DEF ServerTypes, Elems
  <2>6. ~failed => at[t] # "none" /\ \A u \in Elems(tojoin') : at'[u] # "none"
    BY <2>1, <2>2, <2>3, <2>5 DEF Lifecycle
  <2>7. badJoin' => failed'
    BY <2>1, <2>6 DEF Lifecycle, ServerTypes
  <2> QED BY <2>1, <2>2, <2>4, <2>6, <2>7 DEF Lifecycle
<1>9. CASE Joined
  <2>1. /\ main = "join" /\ tojoin = <<>> /\ started' = (call = "start")
        /\ main' = IF call = "destroy" THEN "destroy" ELSE "idle"
        /\ UNCHANGED <<running, at, call, badJoin, failed>>
    BY <1>9 DEF Joined
  <2>2. \A t \in Threads : at[t] = "none" BY <2>1, EmptyElems DEF Lifecycle
  <2>3. call = "start" => failed BY <2>1 DEF Lifecycle
  <2> QED BY <2>1, <2>2, <2>3 DEF Lifecycle
<1>10. CASE FreeServer BY <1>10 DEF FreeServer, Lifecycle
<1>11. CASE AcceptorStep \/ \E w \in Workers : WorkerStep(w) \/ Spurious(w)
  BY <1>11, ThreadStepLifecycle
<1>12. CASE Down \/ UNCHANGED vars
  BY <1>12 DEF Down, vars, ctl, Lifecycle, NoRepeats, Elems
<1>13. CASE JoinLost
  <2>1. /\ main = "join" /\ main' = "lost" /\ tojoin # <<>> /\ at[Head(tojoin)] = "none"
        /\ UNCHANGED <<running, started, at, call, failed>>
    BY <1>13 DEF JoinLost
  <2>2. Head(tojoin) \in Elems(tojoin) BY <2>1, TailElems DEF Lifecycle, ServerTypes
  <2>3. failed BY <2>1, <2>2 DEF Lifecycle
  <2> QED BY <2>1, <2>3 DEF Lifecycle
<1> QED BY <1>1, <1>2, <1>3, <1>4, <1>5, <1>6, <1>7, <1>8, <1>9, <1>10, <1>11, <1>12, <1>13
  DEF Next, MainStep

-----------------------------------------------------------------------------
(* Inside is kept.  First the steps that touch neither the pool nor a count. *)

LEMMA QuietStep ==
  ASSUME ServerTypes, Inside, UNCHANGED <<poolVars, sem, open>>,
         \/ at'[Acceptor] = at[Acceptor]
         \/ {at[Acceptor], at'[Acceptor]} \subseteq {"none", "exited", "poll", "drain", "gate"},
         \A w \in Workers :
           \/ at'[w] = at[w]
           \/ {at[w], at'[w]} \subseteq {"none", "exited", "loop", "sem"}
  PROVE  Inside'
<1>1. UNCHANGED <<ready, posted, taken, pc, cell, sem, open>> BY DEF poolVars
<1>2. AcceptorAt' BY <1>1 DEF Inside, AcceptorAt
<1>3. WorkersAt' BY <1>1 DEF Inside, WorkersAt
<1>4. Positions' BY <1>1 DEF Inside, Positions
<1>5. Getters' = Getters BY <1>1 DEF Getters
<1>6. Serving' = Serving BY <1>1 DEF Serving
<1>7. Pending' <=> Pending BY <1>1 DEF Pending
<1>8. Accepting' <=> Accepting BY <1>1 DEF Accepting
<1>9. Tokens' BY <1>1, <1>5, <1>7 DEF Inside, Tokens
<1>10. Balance' BY <1>1, <1>6, <1>8 DEF Inside, Balance
<1> QED BY <1>2, <1>3, <1>4, <1>9, <1>10 DEF Inside

\* What the acceptor does leaves what is said of the workers alone.
LEMMA AcceptorLeaves ==
  ASSUME Inside, \A w \in Workers : at'[w] = at[w] /\ pc'[w] = pc[w]
  PROVE  WorkersAt' /\ Getters' = Getters /\ Serving' = Serving
<1>1. WorkersAt' BY DEF Inside, WorkersAt
<1>2. Getters' = Getters BY DEF Getters
<1>3. Serving' = Serving BY DEF Serving
<1> QED BY <1>1, <1>2, <1>3

\* What a worker does leaves what is said of the acceptor alone, but for the
\* positions when it claims one.
LEMMA WorkerLeaves ==
  ASSUME Inside, UNCHANGED <<posted>>,
         at'[Acceptor] = at[Acceptor], pc'[Acceptor] = pc[Acceptor],
         cell'[Acceptor] = cell[Acceptor], posted' = taken' + Len(ready')
  PROVE  AcceptorAt' /\ Positions' /\ (Pending' <=> Pending) /\ (Accepting' <=> Accepting)
<1>1. AcceptorAt' BY DEF Inside, AcceptorAt
<1>2. Positions' BY DEF Inside, Positions
<1>3. Pending' <=> Pending BY DEF Pending
<1>4. Accepting' <=> Accepting BY DEF Accepting
<1> QED BY <1>1, <1>2, <1>3, <1>4

\* A worker that took a token finds a connection, and its cell is published:
\* the one position that may not be is the last, and a token for that one has
\* not been posted yet.
LEMMA TokenFinds ==
  ASSUME PoolInv, ServerTypes, Inside, NEW w \in Getters
  PROVE  CanGet
<1>1. Len(ready) = sem + Cardinality(Getters) + IF Pending THEN 1 ELSE 0
  BY DEF Inside, Tokens
<1>2. Cardinality(Getters) \in Nat /\ Cardinality(Getters) >= 1 /\ sem \in Nat
  BY CountedSets DEF ServerTypes
<1>3. Len(ready) >= 1 /\ (Pending => Len(ready) >= 2) /\ Len(ready) \in Nat
  BY <1>1, <1>2
<1>4. ready # <<>> BY <1>3, EmptySeq
<1>5. SUFFICES ASSUME Unpublished PROVE FALSE BY <1>4 DEF CanGet
<1>6. PICK u \in Threads : pc[u] = "posting" /\ cell[u] = taken BY <1>5 DEF Unpublished
<1>7. u \notin Workers BY <1>6 DEF Inside, WorkersAt
<1>8. u = Acceptor BY <1>7, ThreadSets
<1>9. taken = posted - 1 /\ posted = taken + Len(ready) /\ Pending /\ taken \in Nat
  BY <1>6, <1>8 DEF Inside, Positions, Pending, PoolInv, TypeOKPool
<1> QED BY <1>3, <1>9

-----------------------------------------------------------------------------
(* The acceptor's steps *)

LEMMA AcceptorInside ==
  ASSUME PoolInv, ServerTypes, Inside, AcceptorStep
  PROVE  Inside'
<1> USE ThreadSets
<1>1. pc \in [Threads -> {"idle", "popped", "own", "pushing", "posting", "getting", "gone"}]
      /\ DOMAIN at = Threads /\ DOMAIN cell = Threads /\ DOMAIN pc = Threads
      /\ posted \in Nat /\ taken \in Nat /\ ready \in Seq(Slots) /\ Len(ready) \in Nat
  BY LenProperties DEF PoolInv, TypeOKPool, ServerTypes
<1>2. sem \in Nat /\ open \in Int /\ Cardinality(Getters) \in Nat /\ Cardinality(Serving) \in Nat
  BY CountedSets DEF ServerTypes
<1>3. CASE AccPoll
  BY <1>1, <1>3, QuietStep DEF AccPoll, At
<1>4. CASE AccDrain
  BY <1>1, <1>4, QuietStep DEF AccDrain, At
<1>5. CASE AccGate
  <2>1. CASE tmp' = FALSE /\ At(Acceptor, "drain") /\ UNCHANGED open
    BY <1>1, <1>5, <2>1, QuietStep DEF AccGate, At
  <2>2. CASE open' = open + 1 /\ At(Acceptor, "acquire")
    <3>1. /\ at[Acceptor] = "gate" /\ at' = [at EXCEPT ![Acceptor] = "acquire"]
          /\ open' = open + 1 /\ UNCHANGED <<ready, posted, taken, pc, cell, sem>>
      BY <1>5, <2>2 DEF AccGate, At, poolVars
    <3>2. WorkersAt' /\ Getters' = Getters /\ Serving' = Serving
      BY <1>1, <3>1, AcceptorLeaves
    <3>3. at'[Acceptor] = "acquire" /\ pc[Acceptor] = "idle" BY <1>1, <3>1 DEF Inside, AcceptorAt
    <3>4. AcceptorAt' /\ Positions' BY <3>1, <3>3 DEF Inside, AcceptorAt, Positions
    <3>5. ~Accepting /\ Accepting' /\ ~Pending /\ ~Pending'
      BY <3>1, <3>3 DEF Accepting, Pending
    <3>6. Tokens' BY <3>1, <3>2, <3>5 DEF Inside, Tokens
    <3>7. Balance' BY <1>1, <1>2, <3>1, <3>2, <3>5 DEF Inside, Balance
    <3> QED BY <3>2, <3>4, <3>6, <3>7 DEF Inside
  <2> QED BY <1>5, <2>1, <2>2 DEF AccGate
<1>6. CASE AccAcquire
  <2>1. CASE AcquirePop(Acceptor) /\ UNCHANGED <<at, tmp, open>>
    <3>1. /\ at[Acceptor] = "acquire" /\ pc[Acceptor] = "idle" /\ at' = at
          /\ pc' = [pc EXCEPT ![Acceptor] = "popped"]
          /\ UNCHANGED <<ready, posted, taken, cell, sem, open>>
      BY <1>6, <2>1 DEF AccAcquire, AcquirePop, Goto
    <3>2. WorkersAt' /\ Getters' = Getters /\ Serving' = Serving
      BY <1>1, <3>1, AcceptorLeaves
    <3>3. pc'[Acceptor] = "popped" BY <1>1, <3>1
    <3>4. AcceptorAt' /\ Positions' BY <3>1, <3>3 DEF Inside, AcceptorAt, Positions
    <3>5. Accepting /\ Accepting' /\ ~Pending /\ ~Pending'
      BY <3>1, <3>3 DEF Accepting, Pending
    <3>6. Tokens' /\ Balance' BY <3>1, <3>2, <3>5 DEF Inside, Tokens, Balance
    <3> QED BY <3>2, <3>4, <3>6 DEF Inside
  <2>2. CASE AcquireReset(Acceptor) /\ At(Acceptor, "fill") /\ UNCHANGED <<tmp, open>>
    <3>1. /\ at[Acceptor] = "acquire" /\ pc[Acceptor] = "popped"
          /\ at' = [at EXCEPT ![Acceptor] = "fill"]
          /\ pc' = [pc EXCEPT ![Acceptor] = "own"]
          /\ UNCHANGED <<ready, posted, taken, cell, sem, open>>
      BY <1>6, <2>2 DEF AccAcquire, AcquireReset, Goto, At
    <3>2. WorkersAt' /\ Getters' = Getters /\ Serving' = Serving
      BY <1>1, <3>1, AcceptorLeaves
    <3>3. pc'[Acceptor] = "own" /\ at'[Acceptor] = "fill" BY <1>1, <3>1
    <3>4. AcceptorAt' /\ Positions' BY <3>1, <3>3 DEF Inside, AcceptorAt, Positions
    <3>5. Accepting /\ Accepting' /\ ~Pending /\ ~Pending'
      BY <3>1, <3>3 DEF Accepting, Pending
    <3>6. Tokens' /\ Balance' BY <3>1, <3>2, <3>5 DEF Inside, Tokens, Balance
    <3> QED BY <3>2, <3>4, <3>6 DEF Inside
  <2>3. CASE AcquireFails(Acceptor) /\ open' = open - 1 /\ tmp' = FALSE /\ At(Acceptor, "drain")
    <3>1. /\ at[Acceptor] = "acquire" /\ pc[Acceptor] = "idle"
          /\ at' = [at EXCEPT ![Acceptor] = "drain"] /\ open' = open - 1
          /\ UNCHANGED <<ready, posted, taken, pc, cell, sem>>
      BY <1>6, <2>3 DEF AccAcquire, AcquireFails, poolVars, At
    <3>2. WorkersAt' /\ Getters' = Getters /\ Serving' = Serving
      BY <1>1, <3>1, AcceptorLeaves
    <3>3. pc'[Acceptor] = "idle" /\ at'[Acceptor] = "drain" BY <1>1, <3>1
    <3>4. AcceptorAt' /\ Positions' BY <3>1, <3>3 DEF Inside, AcceptorAt, Positions
    <3>5. Accepting /\ ~Accepting' /\ ~Pending /\ ~Pending'
      BY <3>1, <3>3 DEF Accepting, Pending
    <3>6. Tokens' BY <3>1, <3>2, <3>5 DEF Inside, Tokens
    <3>7. Balance' BY <1>1, <1>2, <3>1, <3>2, <3>5 DEF Inside, Balance
    <3> QED BY <3>2, <3>4, <3>6, <3>7 DEF Inside
  <2> QED BY <1>6, <2>1, <2>2, <2>3 DEF AccAcquire
<1>7. CASE AccFill
  <2>1. /\ at[Acceptor] = "fill" /\ pc[Acceptor] = "own"
        /\ at' = [at EXCEPT ![Acceptor] = "post"]
        /\ UNCHANGED <<ready, posted, taken, pc, cell, sem, open>>
    BY <1>7 DEF AccFill, Accept, At
  <2>2. WorkersAt' /\ Getters' = Getters /\ Serving' = Serving
    BY <1>1, <2>1, AcceptorLeaves
  <2>3. pc'[Acceptor] = "own" /\ at'[Acceptor] = "post" BY <1>1, <2>1
  <2>4. AcceptorAt' /\ Positions' BY <2>1, <2>3 DEF Inside, AcceptorAt, Positions
  <2>5. Accepting /\ Accepting' /\ ~Pending /\ ~Pending'
    BY <2>1, <2>3 DEF Accepting, Pending
  <2>6. Tokens' /\ Balance' BY <2>1, <2>2, <2>5 DEF Inside, Tokens, Balance
  <2> QED BY <2>2, <2>4, <2>6 DEF Inside
<1>8. CASE AccPost
  <2>1. CASE PostClaim(Acceptor) /\ UNCHANGED <<at, open>>
    <3>1. /\ at[Acceptor] = "post" /\ pc[Acceptor] = "own" /\ at' = at
          /\ pc' = [pc EXCEPT ![Acceptor] = "posting"]
          /\ cell' = [cell EXCEPT ![Acceptor] = posted] /\ posted' = posted + 1
          /\ ready' = Append(ready, conn[Acceptor])
          /\ UNCHANGED <<taken, sem, open>>
      BY <1>8, <2>1 DEF AccPost, PostClaim, Goto
    <3>2. WorkersAt' /\ Getters' = Getters /\ Serving' = Serving
      BY <1>1, <3>1, AcceptorLeaves
    <3>3. /\ pc'[Acceptor] = "posting" /\ at'[Acceptor] = "post" /\ cell'[Acceptor] = posted
          /\ Len(ready') = Len(ready) + 1
      <4>1. conn[Acceptor] \in Slots
        BY <3>1 DEF PoolInv, HoldersHold, TypeOKPool
      <4> QED BY <1>1, <3>1, <4>1
    <3>4. AcceptorAt' /\ Positions' BY <1>1, <3>1, <3>3 DEF Inside, AcceptorAt, Positions
    <3>5. Accepting /\ ~Accepting' /\ ~Pending /\ Pending'
      BY <3>1, <3>3 DEF Accepting, Pending
    <3>6. Tokens' BY <1>1, <1>2, <3>1, <3>2, <3>3, <3>5 DEF Inside, Tokens
    <3>7. Balance' BY <1>1, <1>2, <3>1, <3>2, <3>3, <3>5 DEF Inside, Balance
    <3> QED BY <3>2, <3>4, <3>6, <3>7 DEF Inside
  <2>2. CASE PostPublish(Acceptor) /\ At(Acceptor, "sem") /\ UNCHANGED open
    <3>1. /\ at[Acceptor] = "post" /\ pc[Acceptor] = "posting"
          /\ at' = [at EXCEPT ![Acceptor] = "sem"]
          /\ pc' = [pc EXCEPT ![Acceptor] = "idle"]
          /\ UNCHANGED <<ready, posted, taken, sem, open>>
      BY <1>8, <2>2 DEF AccPost, PostPublish, Goto, At
    <3>2. WorkersAt' /\ Getters' = Getters /\ Serving' = Serving
      BY <1>1, <3>1, AcceptorLeaves
    <3>3. pc'[Acceptor] = "idle" /\ at'[Acceptor] = "sem" BY <1>1, <3>1
    <3>4. AcceptorAt' /\ Positions' BY <3>1, <3>3 DEF Inside, AcceptorAt, Positions
    <3>5. ~Accepting /\ ~Accepting' /\ Pending /\ Pending'
      BY <3>1, <3>3 DEF Accepting, Pending
    <3>6. Tokens' /\ Balance' BY <3>1, <3>2, <3>5 DEF Inside, Tokens, Balance
    <3> QED BY <3>2, <3>4, <3>6 DEF Inside
  <2>3. CASE PostRefused(Acceptor) /\ open' = open - 1 /\ At(Acceptor, "undo")
    <3>1. /\ at[Acceptor] = "post" /\ pc[Acceptor] = "own"
          /\ at' = [at EXCEPT ![Acceptor] = "undo"] /\ open' = open - 1
          /\ UNCHANGED <<ready, posted, taken, pc, cell, sem>>
      BY <1>8, <2>3 DEF AccPost, PostRefused, poolVars, At
    <3>2. WorkersAt' /\ Getters' = Getters /\ Serving' = Serving
      BY <1>1, <3>1, AcceptorLeaves
    <3>3. pc'[Acceptor] = "own" /\ at'[Acceptor] = "undo" BY <1>1, <3>1
    <3>4. AcceptorAt' /\ Positions' BY <3>1, <3>3 DEF Inside, AcceptorAt, Positions
    <3>5. Accepting /\ ~Accepting' /\ ~Pending /\ ~Pending'
      BY <3>1, <3>3 DEF Accepting, Pending
    <3>6. Tokens' BY <3>1, <3>2, <3>5 DEF Inside, Tokens
    <3>7. Balance' BY <1>1, <1>2, <3>1, <3>2, <3>5 DEF Inside, Balance
    <3> QED BY <3>2, <3>4, <3>6, <3>7 DEF Inside
  <2> QED BY <1>8, <2>1, <2>2, <2>3 DEF AccPost
<1>9. CASE AccUndo
  <2>1. PICK p \in {"own", "pushing"}, q \in {"pushing", "idle"}, l \in {"undo", "drain"} :
          /\ at[Acceptor] = "undo" /\ pc[Acceptor] = p
          /\ pc' = [pc EXCEPT ![Acceptor] = q] /\ at' = [at EXCEPT ![Acceptor] = l]
          /\ q = "pushing" <=> l = "undo"
          /\ UNCHANGED <<ready, posted, taken, cell, sem, open>>
    <3>1. CASE ReleaseScrub(Acceptor) /\ UNCHANGED at
      <4>1. /\ at[Acceptor] = "undo" /\ pc[Acceptor] = "own"
            /\ pc' = [pc EXCEPT ![Acceptor] = "pushing"] /\ at' = [at EXCEPT ![Acceptor] = "undo"]
            /\ UNCHANGED <<ready, posted, taken, cell, sem, open>>
        BY <1>9, <3>1 DEF AccUndo, ReleaseScrub, Goto, ServerTypes
      <4> QED BY <4>1
    <3>2. CASE ReleasePush(Acceptor) /\ At(Acceptor, "drain")
      <4>1. /\ at[Acceptor] = "undo" /\ pc[Acceptor] = "pushing"
            /\ pc' = [pc EXCEPT ![Acceptor] = "idle"] /\ at' = [at EXCEPT ![Acceptor] = "drain"]
            /\ UNCHANGED <<ready, posted, taken, cell, sem, open>>
        BY <1>9, <3>2 DEF AccUndo, ReleasePush, Goto, At
      <4> QED BY <4>1
    <3> QED BY <1>9, <3>1, <3>2 DEF AccUndo
  <2>2. WorkersAt' /\ Getters' = Getters /\ Serving' = Serving
    BY <1>1, <2>1, AcceptorLeaves
  <2>3. pc'[Acceptor] = q /\ at'[Acceptor] = l BY <1>1, <2>1
  <2>4. AcceptorAt' /\ Positions' BY <2>1, <2>3 DEF Inside, AcceptorAt, Positions
  <2>5. ~Accepting /\ ~Accepting' /\ ~Pending /\ ~Pending'
    BY <2>1, <2>3 DEF Accepting, Pending
  <2>6. Tokens' /\ Balance' BY <2>1, <2>2, <2>5 DEF Inside, Tokens, Balance
  <2> QED BY <2>2, <2>4, <2>6 DEF Inside
<1>10. CASE AccSem
  <2>1. /\ at[Acceptor] = "sem" /\ at' = [at EXCEPT ![Acceptor] = "drain"] /\ sem' = sem + 1
        /\ UNCHANGED <<ready, posted, taken, pc, cell, open>>
    BY <1>10 DEF AccSem, At, poolVars
  <2>2. WorkersAt' /\ Getters' = Getters /\ Serving' = Serving
    BY <1>1, <2>1, AcceptorLeaves
  <2>3. pc[Acceptor] = "idle" /\ at'[Acceptor] = "drain" BY <1>1, <2>1 DEF Inside, AcceptorAt
  <2>4. AcceptorAt' /\ Positions' BY <2>1, <2>3 DEF Inside, AcceptorAt, Positions
  <2>5. ~Accepting /\ ~Accepting' /\ Pending /\ ~Pending'
    BY <2>1, <2>3 DEF Accepting, Pending
  <2>6. Tokens' BY <1>1, <1>2, <2>1, <2>2, <2>5 DEF Inside, Tokens
  <2>7. Balance' BY <2>1, <2>2, <2>5 DEF Inside, Balance
  <2> QED BY <2>2, <2>4, <2>6, <2>7 DEF Inside
<1> QED BY <1>3, <1>4, <1>5, <1>6, <1>7, <1>8, <1>9, <1>10 DEF AcceptorStep

-----------------------------------------------------------------------------
(* A worker's steps *)

LEMMA WorkerInside ==
  ASSUME PoolInv, ServerTypes, Inside, NEW w \in Workers, WorkerStep(w)
  PROVE  Inside'
<1> USE ThreadSets
<1>1. /\ pc \in [Threads -> {"idle", "popped", "own", "pushing", "posting", "getting", "gone"}]
      /\ DOMAIN at = Threads /\ DOMAIN cell = Threads /\ DOMAIN pc = Threads
      /\ posted \in Nat /\ taken \in Nat /\ ready \in Seq(Slots) /\ Len(ready) \in Nat
  BY LenProperties DEF PoolInv, TypeOKPool, ServerTypes
<1>2. /\ sem \in Nat /\ open \in Int /\ Cardinality(Getters) \in Nat /\ Cardinality(Serving) \in Nat
      /\ IsFiniteSet(Getters) /\ IsFiniteSet(Serving)
  BY CountedSets DEF ServerTypes
<1>3. posted = taken + Len(ready) BY DEF Inside, Positions
<1>4. CASE WkrLoop(w)
  BY <1>1, <1>4, QuietStep DEF WkrLoop, At
<1>5. CASE WkrSem(w)
  <2>1. CASE sem > 0 /\ sem' = sem - 1 /\ At(w, "get")
    <3>1. /\ at[w] = "sem" /\ at' = [at EXCEPT ![w] = "get"] /\ sem' = sem - 1
          /\ UNCHANGED <<ready, posted, taken, pc, cell, open>>
      BY <1>5, <2>1 DEF WkrSem, At, poolVars
    <3>2. AcceptorAt' /\ Positions' /\ (Pending' <=> Pending) /\ (Accepting' <=> Accepting)
      BY <1>1, <1>3, <3>1, WorkerLeaves
    <3>3. at'[w] = "get" /\ pc[w] = "idle" BY <1>1, <3>1 DEF Inside, WorkersAt
    <3>4. WorkersAt' BY <1>1, <3>1, <3>3 DEF Inside, WorkersAt
    <3>5. w \notin Getters /\ Getters' = Getters \cup {w} BY <1>1, <3>1, <3>3 DEF Getters
    <3>6. Serving' = Serving BY <1>1, <3>1, <3>3 DEF Serving
    <3>7. Cardinality(Getters') = Cardinality(Getters) + 1 BY <1>2, <3>5, CountChange
    <3>8. Tokens' BY <1>1, <1>2, <3>1, <3>2, <3>7 DEF Inside, Tokens
    <3>9. Balance' BY <3>1, <3>2, <3>6 DEF Inside, Balance
    <3> QED BY <3>2, <3>4, <3>8, <3>9 DEF Inside
  <2>2. CASE sem = 0 /\ running /\ UNCHANGED <<sem, at>>
    BY <1>5, <2>2, QuietStep DEF WkrSem
  <2>3. CASE sem = 0 /\ ~running /\ At(w, "exited") /\ UNCHANGED sem
    BY <1>1, <1>5, <2>3, QuietStep DEF WkrSem, At
  <2> QED BY <1>5, <2>1, <2>2, <2>3 DEF WkrSem
<1>6. CASE WkrGet(w)
  <2>1. at[w] = "get" /\ UNCHANGED <<sem, open>> BY <1>6 DEF WkrGet
  <2>2. CASE pc[w] = "idle"
    <3>1. w \in Getters /\ CanGet BY <2>1, <2>2, TokenFinds DEF Getters
    <3>2. /\ at' = at /\ pc' = [pc EXCEPT ![w] = "getting"]
          /\ ready # <<>> /\ ready' = Tail(ready) /\ taken' = taken + 1 /\ posted' = posted
          /\ cell' = [cell EXCEPT ![w] = taken]
      BY <1>6, <2>2, <3>1 DEF WkrGet, GetClaim, CanGet, Goto
    <3>3. Len(ready') = Len(ready) - 1 BY <1>1, <3>2, HeadTailProperties
    <3>4. AcceptorAt' /\ Positions' /\ (Pending' <=> Pending) /\ (Accepting' <=> Accepting)
      <4>1. posted' = taken' + Len(ready') BY <1>1, <1>3, <3>2, <3>3
      <4> QED BY <1>1, <3>2, <4>1, WorkerLeaves
    <3>5. pc'[w] = "getting" /\ at'[w] = "get" BY <1>1, <2>1, <3>2
    <3>6. WorkersAt' BY <1>1, <3>2, <3>5 DEF Inside, WorkersAt
    <3>7. Getters' = Getters \ {w} BY <1>1, <3>2, <3>5 DEF Getters
    <3>8. w \notin Serving /\ Serving' = Serving \cup {w}
      BY <1>1, <2>1, <2>2, <3>2, <3>5 DEF Serving
    <3>9. /\ Cardinality(Getters') = Cardinality(Getters) - 1
          /\ Cardinality(Serving') = Cardinality(Serving) + 1
      BY <1>2, <3>1, <3>7, <3>8, CountChange
    <3>10. Tokens' BY <1>1, <1>2, <2>1, <3>3, <3>4, <3>9 DEF Inside, Tokens
    <3>11. Balance' BY <1>1, <1>2, <2>1, <3>3, <3>4, <3>9 DEF Inside, Balance
    <3> QED BY <3>4, <3>6, <3>10, <3>11 DEF Inside
  <2>3. CASE pc[w] # "idle"
    <3>1. /\ pc[w] = "getting" /\ at' = [at EXCEPT ![w] = "serve"]
          /\ pc' = [pc EXCEPT ![w] = "own"] /\ cell' = [cell EXCEPT ![w] = None]
          /\ UNCHANGED <<ready, posted, taken>>
      BY <1>6, <2>3 DEF WkrGet, GetReturn, Goto, At
    <3>2. AcceptorAt' /\ Positions' /\ (Pending' <=> Pending) /\ (Accepting' <=> Accepting)
      BY <1>1, <1>3, <3>1, WorkerLeaves
    <3>3. pc'[w] = "own" /\ at'[w] = "serve" BY <1>1, <3>1
    <3>4. WorkersAt' BY <1>1, <3>1, <3>3 DEF Inside, WorkersAt
    <3>5. Getters' = Getters BY <1>1, <2>1, <3>1, <3>3 DEF Getters
    <3>6. Serving' = Serving BY <1>1, <3>1, <3>3 DEF Serving
    <3>7. Tokens' /\ Balance' BY <2>1, <3>1, <3>2, <3>5, <3>6 DEF Inside, Tokens, Balance
    <3> QED BY <3>2, <3>4, <3>7 DEF Inside
  <2> QED BY <2>2, <2>3
<1>7. CASE WkrServed(w)
  <2>1. /\ at[w] = "serve" /\ at' = [at EXCEPT ![w] = "release"] /\ open' = open - 1
        /\ UNCHANGED <<ready, posted, taken, pc, cell, sem>>
    BY <1>7 DEF WkrServed, At, poolVars
  <2>2. AcceptorAt' /\ Positions' /\ (Pending' <=> Pending) /\ (Accepting' <=> Accepting)
    BY <1>1, <1>3, <2>1, WorkerLeaves
  <2>3. pc[w] = "own" /\ at'[w] = "release" BY <1>1, <2>1 DEF Inside, WorkersAt
  <2>4. WorkersAt' BY <1>1, <2>1, <2>3 DEF Inside, WorkersAt
  <2>5. Getters' = Getters BY <1>1, <2>1, <2>3 DEF Getters
  <2>6. w \in Serving /\ Serving' = Serving \ {w} BY <1>1, <2>1, <2>3 DEF Serving
  <2>7. Cardinality(Serving') = Cardinality(Serving) - 1 BY <1>2, <2>6, CountChange
  <2>8. Tokens' BY <2>1, <2>2, <2>5 DEF Inside, Tokens
  <2>9. Balance' BY <1>1, <1>2, <2>1, <2>2, <2>7 DEF Inside, Balance
  <2> QED BY <2>2, <2>4, <2>8, <2>9 DEF Inside
<1>8. CASE WkrRelease(w)
  <2>1. PICK q \in {"pushing", "idle"}, l \in {"release", "loop"} :
          /\ at[w] = "release" /\ pc[w] \in {"own", "pushing"}
          /\ pc' = [pc EXCEPT ![w] = q] /\ at' = [at EXCEPT ![w] = l]
          /\ q = "pushing" <=> l = "release"
          /\ UNCHANGED <<ready, posted, taken, cell, sem, open>>
    <3>1. CASE ReleaseScrub(w) /\ UNCHANGED at
      <4>1. /\ at[w] = "release" /\ pc[w] = "own"
            /\ pc' = [pc EXCEPT ![w] = "pushing"] /\ at' = [at EXCEPT ![w] = "release"]
            /\ UNCHANGED <<ready, posted, taken, cell, sem, open>>
        BY <1>8, <3>1 DEF WkrRelease, ReleaseScrub, Goto, ServerTypes
      <4> QED BY <4>1
    <3>2. CASE ReleasePush(w) /\ At(w, "loop")
      <4>1. /\ at[w] = "release" /\ pc[w] = "pushing"
            /\ pc' = [pc EXCEPT ![w] = "idle"] /\ at' = [at EXCEPT ![w] = "loop"]
            /\ UNCHANGED <<ready, posted, taken, cell, sem, open>>
        BY <1>8, <3>2 DEF WkrRelease, ReleasePush, Goto, At
      <4> QED BY <4>1
    <3> QED BY <1>8, <3>1, <3>2 DEF WkrRelease
  <2>2. AcceptorAt' /\ Positions' /\ (Pending' <=> Pending) /\ (Accepting' <=> Accepting)
    BY <1>1, <1>3, <2>1, WorkerLeaves
  <2>3. pc'[w] = q /\ at'[w] = l BY <1>1, <2>1
  <2>4. WorkersAt' BY <1>1, <2>1, <2>3 DEF Inside, WorkersAt
  <2>5. Getters' = Getters BY <1>1, <2>1, <2>3 DEF Getters
  <2>6. Serving' = Serving BY <1>1, <2>1, <2>3 DEF Serving
  <2>7. Tokens' /\ Balance' BY <2>1, <2>2, <2>5, <2>6 DEF Inside, Tokens, Balance
  <2> QED BY <2>2, <2>4, <2>7 DEF Inside
<1> QED BY <1>4, <1>5, <1>6, <1>7, <1>8 DEF WorkerStep

-----------------------------------------------------------------------------
(* The thread that calls start, stop and destroy *)

LEMMA InsideStep == ServerInv /\ [Next]_vars /\ main' # "gone" => Inside'
<1> SUFFICES ASSUME ServerInv, [Next]_vars, main' # "gone" PROVE Inside' OBVIOUS
<1>1. ServerTypes /\ Lifecycle /\ PoolInv BY DEF ServerInv
<1>2. main # "gone"
  BY DEF Next, Start, Stop, Destroy, Stopping, MainStep, Down, SpawnWorker, SpawnWorkerFails,
    SpawnAcceptor, SpawnAcceptorFails, Broadcast, Join, JoinLost, Joined, FreeServer,
    AcceptorStep, AccPoll, AccDrain, AccGate, AccAcquire, AccFill, AccPost, AccUndo, AccSem,
    WorkerStep, WkrLoop, WkrSem, WkrGet, WkrServed, WkrRelease, Spurious, ctl, vars
<1>3. Inside BY <1>2 DEF ServerInv
<1>4. DOMAIN at = Threads BY <1>1 DEF ServerTypes
<1>5. CASE Start \/ Stop \/ Destroy \/ SpawnWorkerFails \/ SpawnAcceptorFails \/ Broadcast
           \/ JoinLost \/ Joined \/ Down \/ UNCHANGED vars \/ \E w \in Workers : Spurious(w)
  <2>1. UNCHANGED <<poolVars, sem, open, at>>
    BY <1>5 DEF Start, Stop, Destroy, Stopping, SpawnWorkerFails, SpawnAcceptorFails, Broadcast,
      JoinLost, Joined, Down, Spurious, vars
  <2> QED BY <1>1, <1>3, <2>1, QuietStep
<1>6. CASE SpawnWorker
  <2> DEFINE w == Len(tojoin) + 1
  <2>1. /\ main = "spawn" /\ w \in Workers /\ at' = [at EXCEPT ![w] = "loop"]
        /\ UNCHANGED <<poolVars, sem, open>>
    BY <1>6 DEF SpawnWorker, At
  <2>2. at[w] = "none"
    BY <1>1, <2>1 DEF Lifecycle, ServerTypes
  <2> HIDE DEF w
  <2>3. /\ at'[Acceptor] = at[Acceptor]
        /\ \A u \in Workers : at'[u] = IF u = w THEN "loop" ELSE at[u]
    BY <1>4, <2>1, ThreadSets
  <2> QED BY <1>1, <1>3, <2>1, <2>2, <2>3, QuietStep
<1>7. CASE SpawnAcceptor
  <2>1. /\ main = "spawn" /\ at' = [at EXCEPT ![Acceptor] = "poll"] /\ UNCHANGED <<poolVars, sem, open>>
    BY <1>7 DEF SpawnAcceptor, At
  <2>2. /\ at[Acceptor] = "none" /\ at'[Acceptor] = "poll"
        /\ \A u \in Workers : at'[u] = at[u]
    BY <1>1, <1>4, <2>1, ThreadSets DEF Lifecycle
  <2> QED BY <1>1, <1>3, <2>1, <2>2, QuietStep
<1>8. CASE Join
  <2> DEFINE t == Head(tojoin)
  <2>1. /\ t \in Threads /\ at[t] \in {"exited", "none"} /\ at' = [at EXCEPT ![t] = "none"]
        /\ UNCHANGED <<poolVars, sem, open>>
    BY <1>1, <1>8, HeadTailProperties DEF Join, At, ServerTypes
  <2> HIDE DEF t
  <2>2. \A u \in Threads : at'[u] = IF u = t THEN "none" ELSE at[u] BY <1>4, <2>1
  <2> QED BY <1>1, <1>3, <2>1, <2>2, ThreadSets, QuietStep
<1>9. CASE AcceptorStep BY <1>1, <1>3, <1>9, AcceptorInside
<1>10. ASSUME NEW w \in Workers, WorkerStep(w) PROVE Inside'
  BY <1>1, <1>3, <1>10, WorkerInside
<1>11. ~FreeServer BY DEF FreeServer
<1> QED BY <1>5, <1>6, <1>7, <1>8, <1>9, <1>10, <1>11 DEF Next, MainStep

-----------------------------------------------------------------------------

\* The inductive invariant of the server: pool, semaphore, ddos count and
\* threads, across any number of starts and stops.
THEOREM ServerInvariant == Spec => []ServerInv
<1>1. ServerInv /\ [Next]_vars => ServerInv'
  <2>1. PoolInv /\ [Next]_vars => PoolInv' BY ServerStepIsPoolStep, NextPoolInv
  <2> QED BY <2>1, TypesStep, LifecycleStep, InsideStep DEF ServerInv
<1> QED BY <1>1, InitServer, PTL DEF Spec

\* A worker that took a token of the semaphore (sem_wait_or_stop) gets a
\* connection from scl_tcp_pool_get_ready, which never returns NULL to it.
THEOREM WorkerFinds == Spec => []GetFinds
<1>1. ServerInv => GetFinds
  <2> SUFFICES ASSUME ServerInv, NEW w \in Workers, at[w] = "get", pc[w] = "idle" PROVE CanGet
    BY DEF GetFinds
  <2>1. main # "gone" BY ThreadSets DEF ServerInv, Lifecycle
  <2>2. w \in Getters BY DEF Getters
  <2> QED BY <2>1, <2>2, TokenFinds DEF ServerInv
<1> QED BY <1>1, ServerInvariant, PTL

\* On every path of acceptor_main and worker_main the connection that
\* scl_ddos_check counted is uncounted once.
THEOREM CountBalanced == Spec => []DdosBalanced
<1>1. ServerInv => DdosBalanced
  <2> SUFFICES ASSUME ServerInv, main # "gone" PROVE open = InFlight BY DEF DdosBalanced
  <2> QED BY DEF ServerInv, Inside, Balance, Serving, Accepting, InFlight
<1> QED BY <1>1, ServerInvariant, PTL

\* The pool is freed after the last thread has been joined, and unless a start
\* failed each join is of a thread that is there.
THEOREM JoinsRight == Spec => []ThreadsJoined
<1>1. ServerInv => ThreadsJoined BY DEF ServerInv, Lifecycle, ThreadsJoined
<1> QED BY <1>1, ServerInvariant, PTL
=============================================================================
