----------------------------- MODULE ThreadPool -----------------------------
(***************************************************************************)
(* libs/threadpool: a fixed set of worker threads fed from one FIFO by     *)
(* scl_threadpool_enqueue, drained by scl_threadpool_wait and shut down    *)
(* by scl_threadpool_destroy.                                              *)
(*                                                                         *)
(* Every field of scl_threadpool_t is read and written under pool->lock,   *)
(* so a critical section is one action.  What happens outside the lock is  *)
(* a step of its own: running the task, freeing its node, creating and     *)
(* joining threads.  pool->cond is the set of threads asleep on it: the    *)
(* workers AND the callers of wait() share the one condition variable, so  *)
(* the single signal of enqueue() may be handed to a wait()er.             *)
(***************************************************************************)
EXTENDS Naturals, Sequences, FiniteSets

CONSTANTS
  Workers,   \* the threads pool->thread_handles[] may name
  Clients,   \* threads that call enqueue() and wait()
  Tasks,     \* task nodes; each is allocated by at most one enqueue()
  NoTask     \* "no task in hand"

ASSUME ConstantsAssumption ==
  /\ IsFiniteSet(Workers)
  /\ Workers # {}
  /\ Workers \cap Clients = {}
  /\ NoTask \notin Tasks

VARIABLES
  active,    \* pool->active
  queue,     \* the list from pool->head to pool->tail
  queued,    \* pool->queued
  working,   \* pool->working
  sleeping,  \* threads blocked in scl_cond_wait on pool->cond
  wpc,       \* where each worker thread is
  hand,      \* the worker's local variable `task'
  cpc,       \* where each client is
  opc,       \* where the owner (init, later destroy) is
  joined,    \* workers the owner has joined
  enqOrder,  \* history: tasks in the order enqueue() linked them
  started,   \* history: tasks in the order workers dequeued them
  done,      \* history: tasks whose function has returned
  freed,     \* history: task nodes given back to the allocator
  snap       \* history: per client, the tasks enqueued when it called wait()

vars == <<active, queue, queued, working, sleeping, wpc, hand, cpc, opc,
          joined, enqOrder, started, done, freed, snap>>

history == <<enqOrder, started, done, freed, snap>>

-----------------------------------------------------------------------------
Elems(s) == {s[i] : i \in DOMAIN s}

Threads == Workers \cup Clients

\* Tasks that some enqueue() has linked.
Enqueued == Elems(enqOrder)

\* scl_cond_signal: one sleeper, whoever it is, becomes runnable.
CondSignal ==
  IF sleeping = {} THEN sleeping' = sleeping
  ELSE \E t \in sleeping : sleeping' = sleeping \ {t}

\* scl_cond_broadcast
CondBroadcast == sleeping' = {}

Init ==
  /\ active = TRUE
  /\ queue = <<>>
  /\ queued = 0
  /\ working = 0
  /\ sleeping = {}
  /\ wpc = [w \in Workers |-> "none"]
  /\ hand = [w \in Workers |-> NoTask]
  /\ cpc = [c \in Clients |-> "idle"]
  /\ opc = "init"
  /\ joined = {}
  /\ enqOrder = <<>>
  /\ started = <<>>
  /\ done = {}
  /\ freed = {}
  /\ snap = [c \in Clients |-> {}]

-----------------------------------------------------------------------------
(* The owner: scl_threadpool_init and scl_threadpool_create_threads.       *)

\* scl_thread_create succeeds; the new worker runs at once, before init()
\* has created the others.
CreateThread(w) ==
  /\ opc = "init"
  /\ wpc[w] = "none"
  /\ wpc' = [wpc EXCEPT ![w] = "loop"]
  /\ opc' = IF \A v \in Workers \ {w} : wpc[v] # "none" THEN "live" ELSE "init"
  /\ UNCHANGED <<active, queue, queued, working, sleeping, hand, cpc, joined,
                 history>>

\* scl_thread_create fails: stop the threads that exist.
CreateFails ==
  /\ opc = "init"
  /\ active' = FALSE
  /\ CondBroadcast
  /\ opc' = "joinFailed"
  /\ UNCHANGED <<queue, queued, working, wpc, hand, cpc, joined, history>>

\* scl_thread_join returns once that worker has returned.
Join(w) ==
  /\ opc \in {"joinFailed", "join"}
  /\ w \notin joined
  /\ wpc[w] = "exit"
  /\ joined' = joined \cup {w}
  /\ UNCHANGED <<active, queue, queued, working, sleeping, wpc, hand, cpc, opc,
                 history>>

Created == {w \in Workers : wpc[w] # "none"}

\* Mutant: the created threads are not joined.
InitFailed_NoJoin ==
  /\ opc = "joinFailed"
  /\ opc' = "gone"
  /\ UNCHANGED <<active, queue, queued, working, sleeping, wpc, hand, cpc,
                 joined, history>>

\* The error path of init(): after the joins, cond and mutex are destroyed.
InitFailed ==
  /\ opc = "joinFailed"
  /\ Created \subseteq joined
  /\ opc' = "gone"
  /\ UNCHANGED <<active, queue, queued, working, sleeping, wpc, hand, cpc,
                 joined, history>>

(* scl_threadpool_destroy.  The pool is torn down by its owner once no     *)
(* client is inside enqueue() or wait(); tasks may still be queued and     *)
(* running, and a running task may still enqueue.                          *)
DestroyBegin ==
  /\ opc = "live"
  /\ \A c \in Clients : cpc[c] = "idle"
  /\ active' = FALSE
  /\ CondBroadcast
  /\ opc' = "join"
  /\ UNCHANGED <<queue, queued, working, wpc, hand, cpc, joined, history>>

\* Mutant: the queue is not drained.
DestroyDrain_Leaks ==
  /\ opc = "join"
  /\ joined = Workers
  /\ opc' = "gone"
  /\ UNCHANGED <<active, queue, queued, working, sleeping, wpc, hand, cpc, joined,
                 history>>

\* After the last join: free what is still queued (queued is not reset),
\* then destroy cond and mutex.
DestroyDrain ==
  /\ opc = "join"
  /\ joined = Workers
  /\ freed' = freed \cup Elems(queue)
  /\ queue' = <<>>
  /\ opc' = "gone"
  /\ UNCHANGED <<active, queued, working, sleeping, wpc, hand, cpc, joined,
                 enqOrder, started, done, snap>>

-----------------------------------------------------------------------------
(* scl_threadpool_enqueue, by a client or from inside a running task.      *)

\* Mutant: the node is linked at the head.
EnqueueTask_AtHead(t) ==
  /\ t \in Tasks \ Enqueued
  /\ queue' = <<t>> \o queue
  /\ queued' = queued + 1
  /\ enqOrder' = Append(enqOrder, t)
  /\ CondSignal
  /\ UNCHANGED <<active, working, wpc, hand, cpc, opc, joined, started, done,
                 freed, snap>>

\* Mutant: nobody is signalled.
EnqueueTask_NoSignal(t) ==
  /\ t \in Tasks \ Enqueued
  /\ queue' = Append(queue, t)
  /\ queued' = queued + 1
  /\ enqOrder' = Append(enqOrder, t)
  /\ UNCHANGED <<active, working, sleeping, wpc, hand, cpc, opc, joined,
                 started, done, freed, snap>>

\* Link the node at the tail, count it, signal.
EnqueueTask(t) ==
  /\ t \in Tasks \ Enqueued
  /\ queue' = Append(queue, t)
  /\ queued' = queued + 1
  /\ enqOrder' = Append(enqOrder, t)
  /\ CondSignal
  /\ UNCHANGED <<active, working, wpc, hand, cpc, opc, joined, started, done,
                 freed, snap>>

ClientEnqueue(c, t) ==
  /\ opc = "live"
  /\ cpc[c] = "idle"
  /\ EnqueueTask(t)

TaskEnqueue(w, t) ==
  /\ wpc[w] = "exec"
  /\ EnqueueTask(t)

(* scl_threadpool_wait *)
WaitCall(c) ==
  /\ opc = "live"
  /\ cpc[c] = "idle"
  /\ cpc' = [cpc EXCEPT ![c] = "wait"]
  /\ snap' = [snap EXCEPT ![c] = Enqueued]
  /\ UNCHANGED <<active, queue, queued, working, sleeping, wpc, hand, opc,
                 joined, enqOrder, started, done, freed>>

\* Mutant: in-flight tasks are forgotten.
Busy_QueueOnly == queued > 0

Busy == queued > 0 \/ working > 0

WaitSleep(c) ==
  /\ cpc[c] = "wait"
  /\ c \notin sleeping
  /\ Busy
  /\ sleeping' = sleeping \cup {c}
  /\ UNCHANGED <<active, queue, queued, working, wpc, hand, cpc, opc, joined,
                 history>>

\* The call returns; "returned" lets the caller observe the result.
WaitReturn(c) ==
  /\ cpc[c] = "wait"
  /\ c \notin sleeping
  /\ ~Busy
  /\ cpc' = [cpc EXCEPT ![c] = "returned"]
  /\ UNCHANGED <<active, queue, queued, working, sleeping, wpc, hand, opc,
                 joined, history>>

Resume(c) ==
  /\ cpc[c] = "returned"
  /\ cpc' = [cpc EXCEPT ![c] = "idle"]
  /\ UNCHANGED <<active, queue, queued, working, sleeping, wpc, hand, opc,
                 joined, history>>

-----------------------------------------------------------------------------
(* scl_threadpool_worker *)

\* while (active && !head) cond_wait
WorkerSleep(w) ==
  /\ wpc[w] = "loop"
  /\ w \notin sleeping
  /\ active
  /\ queue = <<>>
  /\ sleeping' = sleeping \cup {w}
  /\ UNCHANGED <<active, queue, queued, working, wpc, hand, cpc, opc, joined,
                 history>>

\* if (!active) return, even when tasks are queued
WorkerExit(w) ==
  /\ wpc[w] = "loop"
  /\ w \notin sleeping
  /\ ~active
  /\ wpc' = [wpc EXCEPT ![w] = "exit"]
  /\ UNCHANGED <<active, queue, queued, working, sleeping, hand, cpc, opc,
                 joined, history>>

TakeTask(w) ==
  /\ wpc[w] = "loop"
  /\ w \notin sleeping
  /\ active
  /\ queue # <<>>
  /\ hand' = [hand EXCEPT ![w] = Head(queue)]
  /\ queue' = Tail(queue)
  /\ working' = working + 1
  /\ queued' = queued - 1
  /\ wpc' = [wpc EXCEPT ![w] = "exec"]
  /\ started' = Append(started, Head(queue))
  /\ UNCHANGED <<active, sleeping, cpc, opc, joined, enqOrder, done, freed,
                 snap>>

\* task->func returns, outside the lock
TaskReturns(w) ==
  /\ wpc[w] = "exec"
  /\ wpc' = [wpc EXCEPT ![w] = "finish"]
  /\ done' = done \cup {hand[w]}
  /\ UNCHANGED <<active, queue, queued, working, sleeping, hand, cpc, opc,
                 joined, enqOrder, started, freed, snap>>

\* Mutant: one waiter is woken instead of all of them.
FinishTask_Signals(w) ==
  /\ wpc[w] = "finish"
  /\ working' = working - 1
  /\ CondSignal
  /\ wpc' = [wpc EXCEPT ![w] = "free"]
  /\ UNCHANGED <<active, queue, queued, hand, cpc, opc, joined, history>>

FinishTask(w) ==
  /\ wpc[w] = "finish"
  /\ working' = working - 1
  /\ CondBroadcast
  /\ wpc' = [wpc EXCEPT ![w] = "free"]
  /\ UNCHANGED <<active, queue, queued, hand, cpc, opc, joined, history>>

FreeTask(w) ==
  /\ wpc[w] = "free"
  /\ freed' = freed \cup {hand[w]}
  /\ hand' = [hand EXCEPT ![w] = NoTask]
  /\ wpc' = [wpc EXCEPT ![w] = "loop"]
  /\ UNCHANGED <<active, queue, queued, working, sleeping, cpc, opc, joined,
                 enqOrder, started, done, snap>>

\* A condition variable may wake a sleeper for no reason.
SpuriousWakeup(t) ==
  /\ t \in sleeping
  /\ sleeping' = sleeping \ {t}
  /\ UNCHANGED <<active, queue, queued, working, wpc, hand, cpc, opc, joined,
                 history>>

\* Nothing is left to do once the pool is gone.
Gone == opc = "gone" /\ UNCHANGED vars

-----------------------------------------------------------------------------
OwnerStep ==
  \/ \E w \in Workers : CreateThread(w) \/ Join(w)
  \/ CreateFails
  \/ InitFailed
  \/ DestroyBegin
  \/ DestroyDrain

ClientStep(c) ==
  \/ \E t \in Tasks : ClientEnqueue(c, t)
  \/ WaitCall(c)
  \/ WaitSleep(c)
  \/ WaitReturn(c)
  \/ Resume(c)

WorkerStep(w) ==
  \/ WorkerSleep(w)
  \/ WorkerExit(w)
  \/ TakeTask(w)
  \/ TaskReturns(w)
  \/ FinishTask(w)
  \/ FreeTask(w)
  \/ \E t \in Tasks : TaskEnqueue(w, t)

Next ==
  \/ OwnerStep
  \/ \E c \in Clients : ClientStep(c)
  \/ \E w \in Workers : WorkerStep(w)
  \/ \E t \in Threads : SpuriousWakeup(t)
  \/ Gone

Spec == Init /\ [][Next]_vars

(* Every runnable thread is eventually scheduled and every task function   *)
(* returns.  Nothing obliges a client to call the pool, the owner to       *)
(* destroy it, or a condition variable to wake anybody spuriously.         *)
Fairness ==
  /\ \A w \in Workers :
       /\ WF_vars(WorkerSleep(w)) /\ WF_vars(WorkerExit(w))
       /\ WF_vars(TakeTask(w)) /\ WF_vars(TaskReturns(w))
       /\ WF_vars(FinishTask(w)) /\ WF_vars(FreeTask(w))
       /\ WF_vars(CreateThread(w)) /\ WF_vars(Join(w))
  /\ \A c \in Clients :
       /\ WF_vars(WaitSleep(c)) /\ WF_vars(WaitReturn(c)) /\ WF_vars(Resume(c))
  /\ WF_vars(InitFailed) /\ WF_vars(DestroyDrain)

FairSpec == Spec /\ Fairness

-----------------------------------------------------------------------------
(* Properties *)

TypeOK ==
  /\ active \in BOOLEAN
  /\ queue \in Seq(Tasks)
  /\ queued \in Nat
  /\ working \in Nat
  /\ sleeping \subseteq Threads
  /\ wpc \in [Workers -> {"none", "loop", "exec", "finish", "free", "exit"}]
  /\ hand \in [Workers -> Tasks \cup {NoTask}]
  /\ cpc \in [Clients -> {"idle", "wait", "returned"}]
  /\ opc \in {"init", "joinFailed", "live", "join", "gone"}
  /\ joined \subseteq Workers
  /\ enqOrder \in Seq(Tasks)
  /\ started \in Seq(Tasks)
  /\ done \subseteq Tasks
  /\ freed \subseteq Tasks
  /\ snap \in [Clients -> SUBSET Tasks]

\* scl_threadpool.h: wait() "blocks until the queue is empty AND all
\* in-flight tasks complete".  At the least, when wait() returns, the
\* function of every task enqueued before the call has returned, although
\* wait() looks only at the two counters.
WaitCompletes ==
  \A c \in Clients : cpc[c] = "returned" => snap[c] \subseteq done

\* While the pool is active a queued task is never left with every worker
\* asleep, even though enqueue() signals once and a wait()er asleep on the
\* same condition variable may be the thread that signal wakes.
NoLostWakeup ==
  (active /\ queue # <<>> /\ opc = "live") =>
      \E w \in Workers : w \notin sleeping

\* FIFO dispatch: workers dequeue in the order of the enqueues, nothing is
\* skipped or handed out twice, and until destroy() drains the list what
\* has not been dequeued is still linked.
FifoDispatch ==
  IF opc = "gone" THEN \A i \in DOMAIN started : started[i] = enqOrder[i]
  ELSE enqOrder = started \o queue

\* The mutex and the condition variable are destroyed (by destroy() or by
\* the error path of init()) only when no worker can touch the pool again.
NoUseAfterDestroy ==
  opc = "gone" => \A w \in Workers : wpc[w] \in {"none", "exit"}

\* Task nodes are freed exactly once: a freed node is neither linked nor in
\* a worker's hand, and once the pool is gone every node has been freed.
NodesFreedOnce ==
  /\ freed \cap (Elems(queue) \cup {hand[w] : w \in Workers}) = {}
  /\ opc = "gone" => freed = Enqueued

(* The inductive invariant behind the theorems of ThreadPoolProofs.        *)

Running == {w \in Workers : wpc[w] \in {"exec", "finish"}}

\* Where the owner is determines what the other threads may be doing.
Control ==
  /\ active <=> opc \in {"init", "live"}
  /\ opc = "init" => queue = <<>> /\ \A w \in Workers : wpc[w] \in {"none", "loop"}
  /\ opc \in {"live", "join"} => \A w \in Workers : wpc[w] # "none"
  /\ \A c \in Clients : cpc[c] # "idle" => opc = "live"
  /\ \A w \in Workers \cap sleeping : wpc[w] = "loop"
  /\ \A c \in Clients \cap sleeping : cpc[c] = "wait"
  /\ \A w \in joined : wpc[w] = "exit"
  /\ \A w \in Workers :
       wpc[w] \in {"exec", "finish", "free"} => hand[w] \in Tasks
  /\ NoUseAfterDestroy

\* What the two counters count.
Counters ==
  /\ opc # "gone" => queued = Len(queue)
  /\ working = Cardinality(Running)

\* Where a task can be once it has been linked.
TaskPlaces ==
  /\ FifoDispatch
  /\ \A i \in DOMAIN started :
       started[i] \in done \/ \E w \in Workers : wpc[w] = "exec" /\ hand[w] = started[i]
  /\ \A c \in Clients : snap[c] \subseteq Enqueued
  /\ WaitCompletes

\* A sleeping wait()er is owed a broadcast by a worker that is awake.
WakeUps ==
  opc = "live" =>
    /\ queue # <<>> => \E w \in Workers : w \notin sleeping
    /\ sleeping \cap Clients # {} =>
         \E w \in Workers : w \notin sleeping /\ (w \in Running \/ queue # <<>>)

\* Where a task node can be: linked, in one worker's hand, or freed.
NodePlaces ==
  /\ \A i, j \in DOMAIN enqOrder : enqOrder[i] = enqOrder[j] => i = j
  /\ \A w \in Workers : hand[w] # NoTask <=> wpc[w] \in {"exec", "finish", "free"}
  /\ \A w, v \in Workers : w # v /\ hand[w] = hand[v] => hand[w] = NoTask
  /\ \A w \in Workers : hand[w] \notin freed
  /\ IF opc = "gone" THEN queue = <<>> /\ freed = Enqueued
     ELSE Elems(started) = freed \cup ({hand[w] : w \in Workers} \ {NoTask})
  /\ opc \in {"init", "joinFailed"} =>
       enqOrder = <<>> /\ \A w \in Workers : wpc[w] \in {"none", "loop", "exit"}

IInv == TypeOK /\ Control /\ Counters /\ TaskPlaces /\ WakeUps /\ NodePlaces

\* Under fair scheduling, if every task function returns, a queued task is
\* run unless the owner destroys the pool.
TasksRun ==
  \A t \in Tasks : (t \in Enqueued) ~> (t \in done \/ ~active)

\* wait() returns, whichever thread absorbs which wake-up.
WaitReturns ==
  \A c \in Clients : (cpc[c] = "wait") ~> (cpc[c] = "idle")

\* destroy(), and init() after a failed thread creation, come to an end:
\* every worker leaves its condition wait and is joined.
ShutdownCompletes == (opc \in {"join", "joinFailed"}) ~> (opc = "gone")

\* Nothing waits for ever, on a condition variable that workers and waiters
\* share: tasks run, wait(), destroy() and a failing init() return.
Progress == TasksRun /\ WaitReturns /\ ShutdownCompletes

=============================================================================
