---------------------------- MODULE BoundedFIFO ----------------------------
(***************************************************************************)
(* What a bounded multi-producer/multi-consumer FIFO promises: a queue of  *)
(* at most Capacity values; a producer appends one, a consumer takes the   *)
(* head and keeps it until its call returns.                               *)
(***************************************************************************)
EXTENDS Naturals, Sequences

CONSTANTS Threads, Values, Capacity, None

VARIABLES
  fifo,   \* the queued values, oldest first
  got     \* per thread, the value its dequeue has taken and not yet returned

vars == <<fifo, got>>

Init == fifo = <<>> /\ got = [t \in Threads |-> None]

Enq(v) ==
  /\ Len(fifo) < Capacity
  /\ fifo' = Append(fifo, v)
  /\ UNCHANGED got

Deq(t) ==
  /\ got[t] = None
  /\ fifo # <<>>
  /\ got' = [got EXCEPT ![t] = Head(fifo)]
  /\ fifo' = Tail(fifo)

Return(t) ==
  /\ got[t] # None
  /\ got' = [got EXCEPT ![t] = None]
  /\ UNCHANGED fifo

Next ==
  \/ \E v \in Values : Enq(v)
  \/ \E t \in Threads : Deq(t) \/ Return(t)

Spec == Init /\ [][Next]_vars
=============================================================================
