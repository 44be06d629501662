-------------------------------- MODULE MPMC --------------------------------
(***************************************************************************)
(* structures/mpmc: the bounded multi-producer/multi-consumer queue over a *)
(* power-of-two ring whose cells carry sequence numbers.  Every atomic     *)
(* load, store and compare-exchange is a step of its own, so threads may   *)
(* stall between any two of them.  enqueue and dequeue run the same claim  *)
(* loop on their own position; they differ in the sequence number that     *)
(* makes a cell theirs.  Positions are size_t: the queue would have to     *)
(* serve 2^64 operations for one to wrap, so they are natural numbers.     *)
(***************************************************************************)
EXTENDS Integers, Sequences

CONSTANTS
  Threads,
  Values,     \* what cells hold
  Capacity,   \* mask + 1
  MaxOps,     \* bound: calls that may be started
  None

\* The constructor rounds the capacity up to a power of two, at least 2.
ASSUME CapacityAssumption == Capacity \in Nat /\ Capacity >= 2

\* No value, and the operation of a thread that is in no call.
ASSUME NoneAssumption == None \notin Values \cup {"enq", "deq"}

VARIABLES
  position,   \* enqueue_pos and dequeue_pos
  seq,        \* buffer[i].seq
  value,      \* buffer[i].value
  pc,
  op,         \* which call the thread is in
  pos,        \* the thread's local `pos'
  item,       \* the value to enqueue, or *out
  calls,      \* history: calls started
  log         \* history: values in the order their positions were claimed

vars == <<position, seq, value, pc, op, pos, item, calls, log>>

Ops == {"enq", "deq"}
Cells == 0 .. Capacity - 1
Cell(p) == p % Capacity

\* The sequence number at which position p is ready for operation o.
Ready(o, p) == IF o = "enq" THEN p ELSE p + 1

\* Mutant: `mask' for `mask + 1'.
LeftBehind_Mask(o, p) == IF o = "enq" THEN p + 1 ELSE p + (Capacity - 1)

\* The sequence number that operation o leaves behind at position p.
LeftBehind(o, p) == IF o = "enq" THEN p + 1 ELSE p + Capacity

Goto(t, l) == pc' = [pc EXCEPT ![t] = l]

Init ==
  /\ position = [o \in Ops |-> 0]
  /\ seq = [i \in Cells |-> i]
  /\ value = [i \in Cells |-> None]
  /\ pc = [t \in Threads |-> "idle"]
  /\ op = [t \in Threads |-> None]
  /\ pos = [t \in Threads |-> 0]
  /\ item = [t \in Threads |-> None]
  /\ calls = 0
  /\ log = <<>>

\* A call starts by loading the position.
Call(t, o, v) ==
  /\ pc[t] = "idle"
  /\ calls < MaxOps
  /\ calls' = calls + 1
  /\ op' = [op EXCEPT ![t] = o]
  /\ item' = [item EXCEPT ![t] = v]
  /\ pos' = [pos EXCEPT ![t] = position[o]]
  /\ Goto(t, "seq")
  /\ UNCHANGED <<position, seq, value, log>>

Enqueue(t) == \E v \in Values : Call(t, "enq", v)
Dequeue(t) == Call(t, "deq", None)

\* dif == 0: try to claim; dif < 0: report full / empty; dif > 0: reload pos.
LoadSeq(t) ==
  LET s == seq[Cell(pos[t])]
      r == Ready(op[t], pos[t])
  IN /\ pc[t] = "seq"
     /\ Goto(t, IF s = r THEN "cas" ELSE IF s < r THEN "refused" ELSE "reload")
     /\ UNCHANGED <<position, seq, value, op, pos, item, calls, log>>

\* Mutant: the loop retries with the position it has.
ReloadPos_Stale(t) ==
  /\ pc[t] = "reload"
  /\ Goto(t, "seq")
  /\ UNCHANGED <<position, seq, value, op, pos, item, calls, log>>

ReloadPos(t) ==
  /\ pc[t] = "reload"
  /\ pos' = [pos EXCEPT ![t] = position[op[t]]]
  /\ Goto(t, "seq")
  /\ UNCHANGED <<position, seq, value, op, item, calls, log>>

\* Mutant: the position is advanced by a plain store, not a compare-exchange.
Claim_Store(t) ==
  /\ pc[t] = "cas"
  /\ position' = [position EXCEPT ![op[t]] = pos[t] + 1]
  /\ log' = IF op[t] = "enq" THEN Append(log, item[t]) ELSE log
  /\ Goto(t, "data")
  /\ UNCHANGED <<seq, value, op, pos, item, calls>>

\* The compare-exchange on the position succeeds.
Claim(t) ==
  /\ pc[t] = "cas"
  /\ position[op[t]] = pos[t]
  /\ position' = [position EXCEPT ![op[t]] = pos[t] + 1]
  /\ log' = IF op[t] = "enq" THEN Append(log, item[t]) ELSE log
  /\ Goto(t, "data")
  /\ UNCHANGED <<seq, value, op, pos, item, calls>>

\* It fails, because the position moved or (weak form) for no reason, and
\* loads the current position.
ClaimFails(t) ==
  /\ pc[t] = "cas"
  /\ pos' = [pos EXCEPT ![t] = position[op[t]]]
  /\ Goto(t, "seq")
  /\ UNCHANGED <<position, seq, value, op, item, calls, log>>

\* Mutant: the value is read from the cell after the claimed one.
MoveData_NextCell(t) ==
  /\ pc[t] = "data"
  /\ \/ op[t] = "enq" /\ value' = [value EXCEPT ![Cell(pos[t])] = item[t]] /\ UNCHANGED item
     \/ op[t] = "deq" /\ item' = [item EXCEPT ![t] = value[Cell(pos[t] + 1)]] /\ UNCHANGED value
  /\ Goto(t, "publish")
  /\ UNCHANGED <<position, seq, op, pos, calls, log>>

\* The claimed cell's value is written (enqueue) or read (dequeue).
MoveData(t) ==
  LET i == Cell(pos[t])
  IN /\ pc[t] = "data"
     /\ \/ op[t] = "enq" /\ value' = [value EXCEPT ![i] = item[t]] /\ UNCHANGED item
        \/ op[t] = "deq" /\ item' = [item EXCEPT ![t] = value[i]] /\ UNCHANGED value
     /\ Goto(t, "publish")
     /\ UNCHANGED <<position, seq, op, pos, calls, log>>

\* The cell is handed on with its new sequence number; the call returns true.
Publish(t) ==
  /\ pc[t] = "publish"
  /\ seq' = [seq EXCEPT ![Cell(pos[t])] = LeftBehind(op[t], pos[t])]
  /\ Goto(t, "idle")
  /\ op' = [op EXCEPT ![t] = None]
  /\ item' = [item EXCEPT ![t] = None]
  /\ UNCHANGED <<position, value, pos, calls, log>>

\* The call returns false.
Refuse(t) ==
  /\ pc[t] = "refused"
  /\ Goto(t, "idle")
  /\ op' = [op EXCEPT ![t] = None]
  /\ item' = [item EXCEPT ![t] = None]
  /\ UNCHANGED <<position, seq, value, pos, calls, log>>

\* Every call that may be started has returned.
Finished == calls = MaxOps /\ (\A t \in Threads : pc[t] = "idle") /\ UNCHANGED vars

Step(t) ==
  \/ LoadSeq(t) \/ ReloadPos(t) \/ Claim(t) \/ ClaimFails(t)
  \/ MoveData(t) \/ Publish(t) \/ Refuse(t)

Next ==
  \/ \E t \in Threads : Enqueue(t) \/ Dequeue(t) \/ Step(t)
  \/ Finished

Spec == Init /\ [][Next]_vars

(* Threads keep running, and a compare-exchange that may succeed does not  *)
(* fail spuriously for ever (which the weak form allows and no hardware    *)
(* does).                                                                  *)
FairSpec ==
  Spec /\ \A t \in Threads : /\ WF_vars(Step(t))
                             /\ SF_vars(Claim(t))

-----------------------------------------------------------------------------
(* Properties *)

Holds(t) == pc[t] \in {"data", "publish"}

TypeOK ==
  /\ position \in [Ops -> Nat]
  /\ seq \in [Cells -> Nat]
  /\ value \in [Cells -> Values \cup {None}]
  /\ pc \in [Threads -> {"idle", "seq", "reload", "cas", "data", "publish", "refused"}]
  /\ op \in [Threads -> Ops \cup {None}]
  /\ pos \in [Threads -> Nat]
  /\ item \in [Threads -> Values \cup {None}]
  /\ calls \in Nat
  /\ log \in Seq(Values)

\* No data race on buffer[i].value: at most one thread is between its claim of
\* a cell and the store that hands the cell on, whichever calls they are in.
CellExclusive ==
  \A t, u \in Threads :
    t # u /\ Holds(t) /\ Holds(u) => Cell(pos[t]) # Cell(pos[u])

\* The claimed positions are the queue: values are taken in the order their
\* positions were claimed, each once, never more than Capacity are pending,
\* and what a consumer returns is what the producer of that position wrote.
FIFO == INSTANCE BoundedFIFO WITH
  fifo <- SubSeq(log, position["deq"] + 1, position["enq"]),
  got  <- [t \in Threads |->
             IF op[t] # "deq" THEN None
             ELSE IF pc[t] = "data" THEN log[pos[t] + 1]
             ELSE IF pc[t] = "publish" THEN item[t] ELSE None]

ImplementsFIFO == FIFO!Spec

Size == position["enq"] - position["deq"]

\* enqueue() reports full only when Capacity values are queued or a dequeue
\* has claimed a cell and not yet handed it back; dequeue() reports empty only
\* when nothing is queued or an enqueue is still writing.  (The header says
\* "false if the queue is full" and "false if the queue is empty": a stalled
\* call of the other kind is the second reason.)
RefusalJustified ==
  [][\A t \in Threads : pc[t] = "seq" /\ pc'[t] = "refused" =>
       LET other == IF op[t] = "enq" THEN "deq" ELSE "enq"
       IN \/ Size = IF op[t] = "enq" THEN Capacity ELSE 0
          \/ \E u \in Threads : Holds(u) /\ op[u] = other]_vars

\* Every call returns: a thread is refused, or some claim of its own succeeds.
CallsReturn == \A t \in Threads : (pc[t] # "idle") ~> (pc[t] = "idle")
=============================================================================
