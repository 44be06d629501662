----------------------------- MODULE HttpServer -----------------------------
(***************************************************************************)
(* net/http, the server's threads: one acceptor, a fixed set of workers    *)
(* and the thread that calls start, stop and destroy.  The acceptor moves  *)
(* connections into pool slots (module TcpPool) and posts a semaphore made *)
(* of a mutex, a condition variable and a counter; a worker waits on it,   *)
(* takes a slot and serves it.  Every admitted connection is counted with  *)
(* net/ddos.  Pool calls keep their inner steps; what runs under sem_m is  *)
(* one step, and so is a sleep in scl_cond_wait until a signal, a          *)
(* broadcast or a spurious wakeup ends it.                                 *)
(***************************************************************************)
EXTENDS TcpPool

CONSTANTS
  NumWorkers,
  MaxStarts,      \* bound: calls of start
  MaxArrivals     \* bound: connections that reach the listening socket

Acceptor == 0
Workers == 1 .. NumWorkers

ASSUME ServerAssumption == NumWorkers \in Nat \ {0} /\ Threads = 0 .. NumWorkers

VARIABLES
  running, started,
  sem,        \* sem_count
  asleep,     \* workers inside scl_cond_wait
  at,         \* per thread, where in its main function it is; "none": no such
              \* thread, "exited": it returned and has not been joined
  tmp,        \* the acceptor holds an accepted socket that is in no slot yet
  open,       \* connections counted with scl_ddos_check and not uncounted
  main,       \* what the controlling thread is doing
  tojoin,     \* threads it has still to join
  call,       \* the call it is in: "start", "stop" or "destroy"
  starts, arrivals,
  badJoin,    \* history: scl_thread_join was given a thread that is not there
  failed      \* history: a start could not create all its threads

ctl == <<main, tojoin, call, starts, badJoin, failed>>
vars == <<poolVars, running, started, sem, asleep, at, tmp, open, ctl, arrivals>>

Init ==
  /\ InitPool
  /\ running = FALSE /\ started = FALSE
  /\ sem = 0 /\ asleep = {}
  /\ at = [t \in Threads |-> "none"]
  /\ tmp = FALSE /\ open = 0
  /\ main = "idle" /\ tojoin = <<>> /\ call = "stop"
  /\ starts = 0 /\ arrivals = 0 /\ badJoin = FALSE /\ failed = FALSE

At(t, l) == at' = [at EXCEPT ![t] = l]

-----------------------------------------------------------------------------
(* scl_http_server_start, _stop and _destroy *)

Start ==
  /\ main = "idle" /\ ~started /\ starts < MaxStarts
  /\ started' = TRUE /\ running' = TRUE
  /\ main' = "spawn" /\ call' = "start"
  /\ tojoin' = <<>>
  /\ starts' = starts + 1
  /\ UNCHANGED <<poolVars, sem, asleep, at, tmp, open, arrivals, badJoin, failed>>

\* The workers are created in order; `tojoin' holds those created so far.
SpawnWorker ==
  LET w == Len(tojoin) + 1
  IN /\ main = "spawn" /\ w \in Workers
     /\ At(w, "loop")
     /\ tojoin' = Append(tojoin, w)
     /\ UNCHANGED <<poolVars, running, started, sem, asleep, tmp, open, main, call, starts, arrivals, badJoin, failed>>

SpawnWorkerFails ==
  /\ main = "spawn" /\ Len(tojoin) < NumWorkers
  /\ running' = FALSE
  /\ main' = "broadcast"
  /\ failed' = TRUE
  /\ UNCHANGED <<poolVars, started, sem, asleep, at, tmp, open, tojoin, call, starts, arrivals, badJoin>>

SpawnAcceptor ==
  /\ main = "spawn" /\ Len(tojoin) = NumWorkers
  /\ At(Acceptor, "poll")
  /\ main' = "idle"
  /\ UNCHANGED <<poolVars, running, started, sem, asleep, tmp, open, tojoin, call, starts, arrivals, badJoin, failed>>

\* Mutant: only the acceptor is joined.
ToJoin_AcceptorOnly == <<Acceptor>>

\* stop joins the acceptor and then every worker, whichever were created.
ToJoin == <<Acceptor>> \o [w \in Workers |-> w]

\* scl_http_server_stop; it returns at once when nothing was started.
Stopping(c) ==
  /\ running' = FALSE
  /\ call' = c
  /\ IF running \/ started
     THEN main' = "broadcast" /\ tojoin' = ToJoin
     ELSE main' = (IF c = "destroy" THEN "destroy" ELSE "idle") /\ UNCHANGED tojoin
  /\ UNCHANGED <<poolVars, started, sem, asleep, at, tmp, open, starts, arrivals, badJoin>>

SpawnAcceptorFails ==
  /\ main = "spawn" /\ Len(tojoin) = NumWorkers
  /\ Stopping("stop") /\ failed' = TRUE

Stop == main = "idle" /\ Stopping("stop") /\ UNCHANGED failed

Destroy == main = "idle" /\ Stopping("destroy") /\ UNCHANGED failed

\* Mutant: one sleeper is woken.
Broadcast_Signal ==
  /\ main = "broadcast"
  /\ \E w \in asleep \cup {Acceptor} : (w = Acceptor => asleep = {}) /\ asleep' = asleep \ {w}
  /\ main' = "join"
  /\ UNCHANGED <<poolVars, running, started, sem, at, tmp, open, tojoin, call, starts, arrivals, badJoin, failed>>

Broadcast ==
  /\ main = "broadcast"
  /\ asleep' = {}
  /\ main' = "join"
  /\ UNCHANGED <<poolVars, running, started, sem, at, tmp, open, tojoin, call, starts, arrivals, badJoin, failed>>

\* A join returns when its thread has.  A join of a thread that was never
\* created, or has been joined, is undefined: it may return too, or the caller
\* is lost in it.
Join ==
  /\ main = "join" /\ tojoin # <<>>
  /\ LET t == Head(tojoin)
     IN /\ at[t] \in {"exited", "none"}
        /\ badJoin' = (badJoin \/ at[t] = "none")
        /\ At(t, "none")
  /\ tojoin' = Tail(tojoin)
  /\ UNCHANGED <<poolVars, running, started, sem, asleep, tmp, open, main, call, starts, arrivals, failed>>

JoinLost ==
  /\ main = "join" /\ tojoin # <<>>
  /\ at[Head(tojoin)] = "none"
  /\ badJoin' = TRUE
  /\ main' = "lost"
  /\ UNCHANGED <<poolVars, running, started, sem, asleep, at, tmp, open, tojoin, call, starts, arrivals, failed>>

\* A start that failed returns with `started' still set.
Joined ==
  /\ main = "join" /\ tojoin = <<>>
  /\ started' = (call = "start")
  /\ main' = IF call = "destroy" THEN "destroy" ELSE "idle"
  /\ UNCHANGED <<poolVars, running, sem, asleep, at, tmp, open, tojoin, call, starts, arrivals, badJoin, failed>>

FreeServer ==
  /\ main = "destroy"
  /\ DestroyPool
  /\ main' = "gone"
  /\ UNCHANGED <<running, started, sem, asleep, at, tmp, open, tojoin, call, starts, arrivals, badJoin, failed>>

Down == main \in {"gone", "lost"} /\ UNCHANGED vars

-----------------------------------------------------------------------------
(* acceptor_main *)

AccPoll ==
  /\ at[Acceptor] = "poll"
  /\ At(Acceptor, IF running THEN "drain" ELSE "exited")
  /\ UNCHANGED <<poolVars, running, started, sem, asleep, tmp, open, ctl, arrivals>>

\* The stop flag is looked at again before each accept.
AccDrain ==
  /\ at[Acceptor] = "drain"
  /\ \/ At(Acceptor, "poll") /\ UNCHANGED <<tmp, arrivals>>
     \/ /\ running /\ arrivals < MaxArrivals
        /\ arrivals' = arrivals + 1
        /\ tmp' = TRUE
        /\ At(Acceptor, "gate")
  /\ UNCHANGED <<poolVars, running, started, sem, asleep, open, ctl>>

\* scl_ddos_check admits and counts, or the socket is closed.
AccGate ==
  /\ at[Acceptor] = "gate"
  /\ \/ open' = open + 1 /\ At(Acceptor, "acquire") /\ UNCHANGED tmp
     \/ tmp' = FALSE /\ At(Acceptor, "drain") /\ UNCHANGED open
  /\ UNCHANGED <<poolVars, running, started, sem, asleep, ctl, arrivals>>

\* Mutant: a connection dropped for want of a slot stays counted.
AccAcquire_Uncounted ==
  /\ at[Acceptor] = "acquire"
  /\ \/ AcquirePop(Acceptor) /\ UNCHANGED <<at, tmp, open>>
     \/ AcquireReset(Acceptor) /\ At(Acceptor, "fill") /\ UNCHANGED <<tmp, open>>
     \/ AcquireFails(Acceptor) /\ tmp' = FALSE /\ UNCHANGED open /\ At(Acceptor, "drain")
  /\ UNCHANGED <<running, started, sem, asleep, ctl, arrivals>>

AccAcquire ==
  /\ at[Acceptor] = "acquire"
  /\ \/ AcquirePop(Acceptor) /\ UNCHANGED <<at, tmp, open>>
     \/ AcquireReset(Acceptor) /\ At(Acceptor, "fill") /\ UNCHANGED <<tmp, open>>
     \/ AcquireFails(Acceptor) /\ open' = open - 1 /\ tmp' = FALSE /\ At(Acceptor, "drain")
  /\ UNCHANGED <<running, started, sem, asleep, ctl, arrivals>>

AccFill ==
  /\ at[Acceptor] = "fill"
  /\ Accept(Acceptor)
  /\ tmp' = FALSE
  /\ At(Acceptor, "post")
  /\ UNCHANGED <<running, started, sem, asleep, open, ctl, arrivals>>

AccPost ==
  /\ at[Acceptor] = "post"
  /\ \/ PostClaim(Acceptor) /\ UNCHANGED <<at, open>>
     \/ PostPublish(Acceptor) /\ At(Acceptor, "sem") /\ UNCHANGED open
     \/ PostRefused(Acceptor) /\ open' = open - 1 /\ At(Acceptor, "undo")
  /\ UNCHANGED <<running, started, sem, asleep, tmp, ctl, arrivals>>

AccUndo ==
  /\ at[Acceptor] = "undo"
  /\ \/ ReleaseScrub(Acceptor) /\ UNCHANGED at
     \/ ReleasePush(Acceptor) /\ At(Acceptor, "drain")
  /\ UNCHANGED <<running, started, sem, asleep, tmp, open, ctl, arrivals>>

\* Mutant: the counter is raised and nobody is woken.
AccSem_NoSignal ==
  /\ at[Acceptor] = "sem"
  /\ sem' = sem + 1
  /\ At(Acceptor, "drain")
  /\ UNCHANGED <<poolVars, running, started, asleep, tmp, open, ctl, arrivals>>

\* sem_post: the signal wakes one sleeper, if there is one.
AccSem ==
  /\ at[Acceptor] = "sem"
  /\ sem' = sem + 1
  /\ \/ asleep = {} /\ UNCHANGED asleep
     \/ \E w \in asleep : asleep' = asleep \ {w}
  /\ At(Acceptor, "drain")
  /\ UNCHANGED <<poolVars, running, started, tmp, open, ctl, arrivals>>

AcceptorStep ==
  \/ AccPoll \/ AccDrain \/ AccGate \/ AccAcquire \/ AccFill \/ AccPost \/ AccUndo \/ AccSem

-----------------------------------------------------------------------------
(* worker_main *)

WkrLoop(w) ==
  /\ at[w] = "loop"
  /\ At(w, IF running THEN "sem" ELSE "exited")
  /\ UNCHANGED <<poolVars, running, started, sem, asleep, tmp, open, ctl, arrivals>>

\* Mutant: the counter is not lowered.
WkrSem_KeepsToken(w) ==
  /\ at[w] = "sem" /\ w \notin asleep
  /\ \/ sem > 0 /\ At(w, "get") /\ UNCHANGED <<sem, asleep>>
     \/ sem = 0 /\ running /\ asleep' = asleep \cup {w} /\ UNCHANGED <<sem, at>>
     \/ sem = 0 /\ ~running /\ At(w, "exited") /\ UNCHANGED <<sem, asleep>>
  /\ UNCHANGED <<poolVars, running, started, tmp, open, ctl, arrivals>>

\* sem_wait_or_stop: take a token, sleep, or give up because of a stop.
WkrSem(w) ==
  /\ at[w] = "sem" /\ w \notin asleep
  /\ \/ sem > 0 /\ sem' = sem - 1 /\ At(w, "get") /\ UNCHANGED asleep
     \/ sem = 0 /\ running /\ asleep' = asleep \cup {w} /\ UNCHANGED <<sem, at>>
     \/ sem = 0 /\ ~running /\ At(w, "exited") /\ UNCHANGED <<sem, asleep>>
  /\ UNCHANGED <<poolVars, running, started, tmp, open, ctl, arrivals>>

Spurious(w) ==
  /\ w \in asleep
  /\ asleep' = asleep \ {w}
  /\ UNCHANGED <<poolVars, running, started, sem, at, tmp, open, ctl, arrivals>>

\* A worker that finds the queue empty goes back to the loop, its token spent:
\* GetFinds says that this does not happen.
WkrGet(w) ==
  /\ at[w] = "get"
  /\ IF pc[w] = "idle"
     THEN IF CanGet THEN GetClaim(w) /\ UNCHANGED at ELSE GetEmpty(w) /\ At(w, "loop")
     ELSE GetReturn(w) /\ At(w, "serve")
  /\ UNCHANGED <<running, started, sem, asleep, tmp, open, ctl, arrivals>>

\* handle_connection returns and the connection is uncounted.
WkrServed(w) ==
  /\ at[w] = "serve"
  /\ open' = open - 1
  /\ At(w, "release")
  /\ UNCHANGED <<poolVars, running, started, sem, asleep, tmp, ctl, arrivals>>

WkrRelease(w) ==
  /\ at[w] = "release"
  /\ \/ ReleaseScrub(w) /\ UNCHANGED at
     \/ ReleasePush(w) /\ At(w, "loop")
  /\ UNCHANGED <<running, started, sem, asleep, tmp, open, ctl, arrivals>>

WorkerStep(w) == WkrLoop(w) \/ WkrSem(w) \/ WkrGet(w) \/ WkrServed(w) \/ WkrRelease(w)

-----------------------------------------------------------------------------

\* Steps of a call of start, stop or destroy once it has been made.
MainStep ==
  \/ SpawnWorker \/ SpawnWorkerFails \/ SpawnAcceptor \/ SpawnAcceptorFails
  \/ Broadcast \/ Join \/ JoinLost \/ Joined \/ FreeServer

Next ==
  \/ Start \/ Stop \/ Destroy \/ MainStep \/ Down
  \/ AcceptorStep
  \/ \E w \in Workers : WorkerStep(w) \/ Spurious(w)

Spec == Init /\ [][Next]_vars

\* Threads that can run do run (handle_connection returns: every recv and send
\* has a timeout, the header phase has a deadline, and keep_alive_max bounds
\* the requests).  Nobody is obliged to call start, stop or destroy, and no
\* spurious wakeup is owed.
Fairness ==
  /\ WF_vars(MainStep) /\ WF_vars(AcceptorStep)
  /\ \A w \in Workers : WF_vars(WorkerStep(w))

-----------------------------------------------------------------------------
(* Properties *)

TypeOK ==
  /\ TypeOKPool
  /\ running \in BOOLEAN /\ started \in BOOLEAN /\ tmp \in BOOLEAN /\ badJoin \in BOOLEAN
  /\ failed \in BOOLEAN
  /\ sem \in 0 .. Cardinality(Slots)
  /\ asleep \subseteq Workers
  /\ at[Acceptor] \in {"none", "exited", "poll", "drain", "gate", "acquire", "fill", "post", "undo", "sem"}
  /\ \A w \in Workers : at[w] \in {"none", "exited", "loop", "sem", "get", "serve", "release"}
  /\ open \in 0 .. MaxArrivals
  /\ main \in {"idle", "spawn", "broadcast", "join", "destroy", "gone", "lost"}

\* The semaphore and the ready queue agree: a worker that took a token finds a
\* connection in the queue, although tokens and connections are taken apart by
\* several workers, and across a stop and a new start.  So worker_main's
\* `if (!conn) continue' never loses a connection's only wakeup.
GetFinds == \A w \in Workers : at[w] = "get" /\ pc[w] = "idle" => CanGet

\* Connections the server has counted and still has to uncount.
InFlight ==
  Len(ready) + Cardinality({w \in Workers : pc[w] = "getting" \/ at[w] = "serve"})
  + (IF at[Acceptor] \in {"acquire", "fill"} \/ (at[Acceptor] = "post" /\ pc[Acceptor] = "own")
     THEN 1 ELSE 0)

\* What scl_ddos_check counted is uncounted exactly once on every path of the
\* acceptor and the workers: the count is the connections in flight.
DdosBalanced == main # "gone" => open = InFlight

\* destroy frees the pool only when no thread of the server is left, and stop
\* and destroy join each thread once, and only threads that exist, however
\* starts, stops and a destroy follow each other, unless a start failed to
\* create its threads: then `started' stays set (scl_http_server_start), and
\* stop joins threads that were never created or have been joined.
ThreadsJoined ==
  /\ main \in {"destroy", "gone"} => \A t \in Threads : at[t] = "none"
  /\ badJoin => failed

\* No connection waits in the ready queue while the server runs.
ReadyServed ==
  \A c \in Slots : (c \in Elems(ready)) ~> (c \notin Elems(ready) \/ ~running)

\* A call of start, stop or destroy returns: every thread sees the stop flag,
\* asleep, serving or accepting as it may be.  After a start that failed stop
\* and destroy may join threads that are not there, and then nothing is said.
CallsReturn == (main # "idle") ~> (main \in {"idle", "gone"} \/ badJoin)
=============================================================================
