------------------------------ MODULE TcpPool -------------------------------
(***************************************************************************)
(* net/pool: connection slots that pass from the free list to the thread   *)
(* that acquires one, through the ready queue to the thread that gets it   *)
(* ready, and back.  The free list is the stack LFStack models and the     *)
(* ready queue is the ring MPMC models, each taken at the grain of what    *)
(* other threads can observe: a push or pop is one step, an enqueue or     *)
(* dequeue claims its position in one step and hands its cell on in        *)
(* another, and is refused while the cell it needs has not been handed on. *)
(***************************************************************************)
EXTENDS Integers, Sequences, FiniteSets

CONSTANTS
  Threads,
  Slots,       \* the slab
  Ring,        \* cells of the ready queue: `capacity' rounded up to a power of two
  BufCap,      \* rbuf_cap
  MaxPosts,    \* bound: calls of post_ready that succeed
  None

ASSUME PoolAssumption ==
  /\ Threads # {}
  /\ IsFiniteSet(Slots)
  /\ Ring \in Nat /\ Ring >= Cardinality(Slots)
  /\ None \notin Slots /\ None \notin Nat

VARIABLES
  free,        \* free_list, top first
  ready,       \* slots enqueued and not dequeued
  posted,      \* enqueue position of the ready queue
  taken,       \* dequeue position
  live,        \* the relaxed counter
  fd,          \* per slot: is its socket open
  len,         \* rbuf_len
  pc,          \* where in a pool call the thread is; "own": it holds a slot
  conn,        \* the slot the thread works on
  cell         \* the ring position the thread has claimed and not handed on

poolVars == <<free, ready, posted, taken, live, fd, len, pc, conn, cell>>

InitPool ==
  /\ free \in {s \in [1 .. Cardinality(Slots) -> Slots] :
                 \A i, j \in DOMAIN s : s[i] = s[j] => i = j}
  /\ ready = <<>>
  /\ posted = 0
  /\ taken = 0
  /\ live = 0
  /\ fd = [c \in Slots |-> FALSE]
  /\ len = [c \in Slots |-> 0]
  /\ pc = [t \in Threads |-> "idle"]
  /\ conn = [t \in Threads |-> None]
  /\ cell = [t \in Threads |-> None]

Goto(t, l) == pc' = [pc EXCEPT ![t] = l]

-----------------------------------------------------------------------------
(* scl_tcp_pool_acquire *)

AcquirePop(t) ==
  /\ pc[t] = "idle"
  /\ free # <<>>
  /\ conn' = [conn EXCEPT ![t] = Head(free)]
  /\ free' = Tail(free)
  /\ Goto(t, "popped")
  /\ UNCHANGED <<ready, posted, taken, live, fd, len, cell>>

AcquireReset(t) ==
  /\ pc[t] = "popped"
  /\ fd' = [fd EXCEPT ![conn[t]] = FALSE]
  /\ len' = [len EXCEPT ![conn[t]] = 0]
  /\ live' = live + 1
  /\ Goto(t, "own")
  /\ UNCHANGED <<free, ready, posted, taken, conn, cell>>

AcquireFails(t) == pc[t] = "idle" /\ free = <<>> /\ UNCHANGED poolVars

-----------------------------------------------------------------------------
(* scl_tcp_pool_release *)

\* Mutant: the slot stays counted.
ReleaseScrub_Counted(t) ==
  /\ pc[t] = "own"
  /\ fd' = [fd EXCEPT ![conn[t]] = FALSE]
  /\ len' = [len EXCEPT ![conn[t]] = 0]
  /\ Goto(t, "pushing")
  /\ UNCHANGED <<free, ready, posted, taken, live, conn, cell>>

\* Closes the socket, zeroes rbuf_len bytes of the buffer, resets rbuf_len and
\* uncounts the slot.
ReleaseScrub(t) ==
  LET c == conn[t]
  IN /\ pc[t] = "own"
     /\ fd' = [fd EXCEPT ![c] = FALSE]
     /\ len' = [len EXCEPT ![c] = 0]
     /\ live' = live - 1
     /\ Goto(t, "pushing")
     /\ UNCHANGED <<free, ready, posted, taken, conn, cell>>

ReleasePush(t) ==
  /\ pc[t] = "pushing"
  /\ free' = <<conn[t]>> \o free
  /\ conn' = [conn EXCEPT ![t] = None]
  /\ Goto(t, "idle")
  /\ UNCHANGED <<ready, posted, taken, live, fd, len, cell>>

-----------------------------------------------------------------------------
(* scl_tcp_pool_post_ready and scl_tcp_pool_get_ready *)

\* Positions below `posted' whose cell has not been handed back to producers.
Unreturned ==
  (taken .. posted - 1) \cup {cell[t] : t \in {u \in Threads : pc[u] = "getting"}}

\* The position get_ready would take has been claimed but not published.
Unpublished == taken \in {cell[t] : t \in {u \in Threads : pc[u] = "posting"}}

PostClaim(t) ==
  /\ pc[t] = "own"
  /\ posted < MaxPosts
  /\ (posted - Ring) \notin Unreturned
  /\ ready' = Append(ready, conn[t])
  /\ cell' = [cell EXCEPT ![t] = posted]
  /\ posted' = posted + 1
  /\ conn' = [conn EXCEPT ![t] = None]
  /\ Goto(t, "posting")
  /\ UNCHANGED <<free, taken, live, fd, len>>

PostPublish(t) ==
  /\ pc[t] = "posting"
  /\ cell' = [cell EXCEPT ![t] = None]
  /\ Goto(t, "idle")
  /\ UNCHANGED <<free, ready, posted, taken, live, fd, len, conn>>

\* The queue refuses: the caller keeps its slot.
PostRefused(t) ==
  /\ pc[t] = "own"
  /\ (posted - Ring) \in Unreturned
  /\ UNCHANGED poolVars

CanGet == ready # <<>> /\ ~Unpublished

\* Mutant: the dequeue position does not move past the slot.
GetClaim_Peek(t) ==
  /\ pc[t] = "idle"
  /\ CanGet
  /\ conn' = [conn EXCEPT ![t] = Head(ready)]
  /\ cell' = [cell EXCEPT ![t] = taken]
  /\ Goto(t, "getting")
  /\ UNCHANGED <<free, ready, posted, taken, live, fd, len>>

GetClaim(t) ==
  /\ pc[t] = "idle"
  /\ CanGet
  /\ conn' = [conn EXCEPT ![t] = Head(ready)]
  /\ ready' = Tail(ready)
  /\ cell' = [cell EXCEPT ![t] = taken]
  /\ taken' = taken + 1
  /\ Goto(t, "getting")
  /\ UNCHANGED <<free, posted, live, fd, len>>

GetReturn(t) ==
  /\ pc[t] = "getting"
  /\ cell' = [cell EXCEPT ![t] = None]
  /\ Goto(t, "own")
  /\ UNCHANGED <<free, ready, posted, taken, live, fd, len, conn>>

GetEmpty(t) == pc[t] = "idle" /\ ~CanGet /\ UNCHANGED poolVars

-----------------------------------------------------------------------------
(* scl_tcp_pool_destroy, called when no thread is in the pool: closes what   *)
(* is still open, in the ready queue or never released, and frees the slab.  *)

DestroyPool ==
  /\ \A t \in Threads : pc[t] \in {"idle", "own"}
  /\ fd' = [c \in Slots |-> FALSE]
  /\ free' = <<>>
  /\ ready' = <<>>
  /\ pc' = [t \in Threads |-> "gone"]
  /\ conn' = [t \in Threads |-> None]
  /\ UNCHANGED <<posted, taken, live, len, cell>>

-----------------------------------------------------------------------------
(* What the owner of a slot does with it *)

\* scl_tcp_accept puts a socket into the slot.
Accept(t) ==
  /\ pc[t] = "own"
  /\ ~fd[conn[t]]
  /\ fd' = [fd EXCEPT ![conn[t]] = TRUE]
  /\ UNCHANGED <<free, ready, posted, taken, live, len, pc, conn, cell>>

\* recv appends to the read buffer.
Receive(t) ==
  LET c == conn[t]
  IN /\ pc[t] = "own"
     /\ fd[c] /\ len[c] < BufCap
     /\ len' = [len EXCEPT ![c] = @ + 1]
     /\ UNCHANGED <<free, ready, posted, taken, live, fd, pc, conn, cell>>

PoolCall(t) ==
  \/ AcquirePop(t) \/ AcquireReset(t) \/ AcquireFails(t)
  \/ ReleaseScrub(t) \/ ReleasePush(t)
  \/ PostClaim(t) \/ PostPublish(t) \/ PostRefused(t)
  \/ GetClaim(t) \/ GetReturn(t) \/ GetEmpty(t)

Gone == (\A t \in Threads : pc[t] = "gone") /\ UNCHANGED poolVars

NextPool ==
  \/ \E t \in Threads : PoolCall(t) \/ Accept(t) \/ Receive(t)
  \/ DestroyPool
  \/ Gone

SpecPool == InitPool /\ [][NextPool]_poolVars

-----------------------------------------------------------------------------
(* Properties *)

Elems(s) == {s[i] : i \in DOMAIN s}
NoRepeats(s) == \A i, j \in DOMAIN s : s[i] = s[j] => i = j

TypeOKPool ==
  /\ free \in Seq(Slots)
  /\ ready \in Seq(Slots)
  /\ posted \in Nat
  /\ taken \in Nat
  /\ live \in 0 .. Cardinality(Slots)
  /\ fd \in [Slots -> BOOLEAN]
  /\ len \in [Slots -> Nat]
  /\ pc \in [Threads -> {"idle", "popped", "own", "pushing", "posting", "getting", "gone"}]
  /\ conn \in [Threads -> Slots \cup {None}]
  /\ cell \in [Threads -> Nat \cup {None}]

\* A slot is in one place: once in the free list, once in the ready queue, or
\* with one thread.  Nothing is handed to two threads and nothing is lost.
SlotOwned ==
  /\ NoRepeats(free) /\ NoRepeats(ready)
  /\ Elems(free) \cap Elems(ready) = {}
  /\ \A t \in Threads : conn[t] # None => conn[t] \notin Elems(free) \cup Elems(ready)
  /\ \A t, u \in Threads : conn[t] # None /\ conn[t] = conn[u] => t = u
  /\ \A c \in Slots :
       \/ c \in Elems(free) \cup Elems(ready)
       \/ \E t \in Threads : conn[t] = c
       \/ \A t \in Threads : pc[t] = "gone"

\* Slots that have been counted: owned or waiting in the ready queue.
Counted == Elems(ready) \cup {conn[t] : t \in {u \in Threads : pc[u] \in {"own", "getting"}}}

\* Although `live' is updated apart from the free list, it counts exactly the
\* slots that are owned or ready, so it never passes the capacity nor wraps
\* below zero, whatever acquires and releases are in progress.
LiveExact == (\A t \in Threads : pc[t] # "gone") => live = Cardinality(Counted)

\* A slot on the free list holds no socket (acquire would overwrite it and
\* leak it) and no count of buffered bytes.
FreeIsIdle == \A c \in Elems(free) : ~fd[c] /\ len[c] = 0
=============================================================================
