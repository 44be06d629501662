-------------------------- MODULE ThreadPoolProofs --------------------------
(***************************************************************************)
(* Proofs about ThreadPool for any finite set of workers and any sets of   *)
(* clients and tasks: the inductive invariant IInv, and from it that       *)
(* wait() is a barrier, that no wake-up is lost, that dispatch is FIFO,    *)
(* that nothing runs on a destroyed pool and that nodes are freed once.    *)
(***************************************************************************)
EXTENDS ThreadPool, TLAPS, FiniteSetTheorems, SequenceTheorems

-----------------------------------------------------------------------------
(* Facts about the operators the model is built from. *)

\* Moving the head of s2 to the end of s1 does not change s1 \o s2: what
\* TakeTask does to the dequeued and the still linked tasks.
LEMMA MoveHead ==
  ASSUME NEW S, NEW s1 \in Seq(S), NEW s2 \in Seq(S), s2 # <<>>
  PROVE  Append(s1, Head(s2)) \o Tail(s2) = s1 \o s2
<1> DEFINE a == Append(s1, Head(s2)) \o Tail(s2)
           b == s1 \o s2
<1>1. /\ Head(s2) \in S /\ Tail(s2) \in Seq(S)
      /\ Len(Tail(s2)) = Len(s2) - 1
      /\ \A i \in 1 .. Len(s2) - 1 : Tail(s2)[i] = s2[i + 1]
      /\ Head(s2) = s2[1] /\ Len(s2) \in Nat /\ Len(s2) # 0
  BY HeadTailProperties, EmptySeq, LenProperties
<1>2. Append(s1, Head(s2)) \in Seq(S) /\ Len(Append(s1, Head(s2))) = Len(s1) + 1
  BY <1>1
<1>3. a \in Seq(S) /\ Len(a) = Len(s1) + Len(s2)
  BY <1>1, <1>2, ConcatProperties
<1>4. b \in Seq(S) /\ Len(b) = Len(s1) + Len(s2)
  BY ConcatProperties
<1>5. ASSUME NEW i \in 1 .. Len(a) PROVE a[i] = b[i]
  BY <1>1, <1>2, <1>3, <1>4
<1> QED BY <1>3, <1>4, <1>5, SeqEqual

\* What a list holds after a node is linked or unlinked.
LEMMA ElemsOfSeqs ==
  ASSUME NEW S
  PROVE  /\ Elems(<<>>) = {}
         /\ \A s \in Seq(S), e \in S : Elems(Append(s, e)) = Elems(s) \cup {e}
         /\ \A s, t \in Seq(S) : Elems(s \o t) = Elems(s) \cup Elems(t)
         /\ \A s \in Seq(S) : s # <<>> => Head(s) \in Elems(s)
<1>1. Elems(<<>>) = {} BY DEF Elems
<1>2. ASSUME NEW s \in Seq(S), NEW e \in S PROVE Elems(Append(s, e)) = Elems(s) \cup {e}
  <2>1. /\ DOMAIN s = 1 .. Len(s) /\ DOMAIN Append(s, e) = 1 .. Len(s) + 1
        /\ \A i \in 1 .. Len(s) : Append(s, e)[i] = s[i]
        /\ Append(s, e)[Len(s) + 1] = e
        /\ Len(s) \in Nat
    BY AppendProperties, LenProperties
  <2> QED BY <2>1 DEF Elems
<1>3. ASSUME NEW s \in Seq(S), NEW t \in Seq(S) PROVE Elems(s \o t) = Elems(s) \cup Elems(t)
  <2>1. /\ DOMAIN s = 1 .. Len(s) /\ DOMAIN t = 1 .. Len(t)
        /\ DOMAIN (s \o t) = 1 .. Len(s) + Len(t)
        /\ \A i \in 1 .. Len(s) : (s \o t)[i] = s[i]
        /\ \A i \in 1 .. Len(t) : (s \o t)[i + Len(s)] = t[i]
        /\ \A i \in 1 .. Len(s) + Len(t) : i \in 1 .. Len(s) \/ i - Len(s) \in 1 .. Len(t)
        /\ Len(s) \in Nat /\ Len(t) \in Nat
    BY ConcatProperties, LenProperties
  <2>2. \A i \in 1 .. Len(s) + Len(t) :
          i \notin 1 .. Len(s) => (s \o t)[i] = t[i - Len(s)]
    BY <2>1
  <2>3. Elems(s \o t) \subseteq Elems(s) \cup Elems(t) BY <2>1, <2>2 DEF Elems
  <2>4. Elems(s) \subseteq Elems(s \o t) BY <2>1 DEF Elems
  <2>5. Elems(t) \subseteq Elems(s \o t)
    <3>1. \A i \in 1 .. Len(t) : i + Len(s) \in 1 .. Len(s) + Len(t) BY <2>1
    <3> QED BY <2>1, <3>1 DEF Elems
  <2> QED BY <2>3, <2>4, <2>5
<1>4. ASSUME NEW s \in Seq(S), s # <<>> PROVE Head(s) \in Elems(s)
  BY <1>4, EmptySeq, LenProperties DEF Elems
<1> QED BY <1>1, <1>2, <1>3, <1>4

Distinct(s) == \A i, j \in DOMAIN s : s[i] = s[j] => i = j

\* The parts of a list without repetitions share nothing.
LEMMA DistinctParts ==
  ASSUME NEW S, NEW s \in Seq(S), NEW t \in Seq(S), Distinct(s \o t)
  PROVE  Elems(s) \cap Elems(t) = {}
<1>1. /\ DOMAIN s = 1 .. Len(s) /\ DOMAIN t = 1 .. Len(t)
      /\ DOMAIN (s \o t) = 1 .. Len(s) + Len(t)
      /\ \A i \in 1 .. Len(s) : (s \o t)[i] = s[i]
      /\ \A i \in 1 .. Len(t) : (s \o t)[i + Len(s)] = t[i]
      /\ Len(s) \in Nat /\ Len(t) \in Nat
  BY ConcatProperties, LenProperties
<1> SUFFICES ASSUME NEW i \in 1 .. Len(s), NEW j \in 1 .. Len(t), s[i] = t[j] PROVE FALSE
  BY <1>1 DEF Elems
<1>2. /\ i \in 1 .. Len(s) + Len(t) /\ j + Len(s) \in 1 .. Len(s) + Len(t)
      /\ i # j + Len(s) /\ (s \o t)[i] = (s \o t)[j + Len(s)]
  BY <1>1
<1> QED BY <1>1, <1>2 DEF Distinct

LEMMA DistinctAppend ==
  ASSUME NEW S, NEW s \in Seq(S), NEW e \in S, Distinct(s), e \notin Elems(s)
  PROVE  Distinct(Append(s, e))
<1>1. /\ DOMAIN s = 1 .. Len(s) /\ DOMAIN Append(s, e) = 1 .. Len(s) + 1
      /\ \A i \in 1 .. Len(s) : Append(s, e)[i] = s[i]
      /\ Append(s, e)[Len(s) + 1] = e
      /\ Len(s) \in Nat
  BY AppendProperties, LenProperties
<1>2. \A i \in 1 .. Len(s) : s[i] # e BY <1>1 DEF Elems
<1> QED BY <1>1, <1>2 DEF Distinct

-----------------------------------------------------------------------------
(* The invariant holds initially and is preserved by every action. *)

LEMMA InitIInv == Init => IInv
<1> SUFFICES ASSUME Init PROVE IInv
  OBVIOUS
<1> USE DEF Init
<1>1. TypeOK
  BY DEF TypeOK, Threads
<1>2. Control
  BY DEF Control, NoUseAfterDestroy
<1>3. Counters
  <2>1. Running = {}
    BY DEF Running
  <2> QED BY <2>1, FS_EmptySet DEF Counters
<1>4. TaskPlaces
  BY DEF TaskPlaces, FifoDispatch, WaitCompletes, Enqueued, Elems
<1>5. WakeUps
  BY DEF WakeUps
<1>6. NodePlaces
  BY DEF NodePlaces, Elems
<1> QED BY <1>1, <1>2, <1>3, <1>4, <1>5, <1>6 DEF IInv

\* The running workers are finite in number, and one more or one fewer of
\* them is one more or one less in the count: what `working' relies on.
LEMMA CountRunning ==
  /\ IsFiniteSet(Running)
  /\ Cardinality(Running) \in Nat
  /\ \A w \in Running : Cardinality(Running) > 0
<1>1. IsFiniteSet(Running)
  BY ConstantsAssumption, FS_Subset DEF Running
<1>2. Cardinality(Running) \in Nat
  BY <1>1, FS_CardinalityType
<1> QED BY <1>1, <1>2, FS_EmptySet

\* `working' is positive exactly when some worker has a task in flight.
LEMMA WorkingMeansRunning ==
  ASSUME Counters
  PROVE  working > 0 <=> \E w \in Workers : wpc[w] \in {"exec", "finish"}
<1>1. working > 0 <=> Running # {}
  BY CountRunning, FS_EmptySet DEF Counters
<1> QED BY <1>1 DEF Running

LEMMA StepTypeOK == IInv /\ [Next]_vars => TypeOK'
<1> SUFFICES ASSUME TypeOK, Control, Counters, [Next]_vars PROVE TypeOK'
  BY DEF IInv
<1> USE DEF TypeOK, Threads
<1>1. ASSUME NEW w \in Workers, CreateThread(w) PROVE TypeOK'
  BY <1>1 DEF CreateThread, history
<1>2. ASSUME CreateFails \/ DestroyBegin PROVE TypeOK'
  BY <1>2 DEF CreateFails, DestroyBegin, CondBroadcast, history
<1>3. ASSUME NEW w \in Workers, Join(w) PROVE TypeOK'
  BY <1>3 DEF Join, history
<1>4. ASSUME InitFailed PROVE TypeOK'
  BY <1>4 DEF InitFailed, history
<1>5. ASSUME DestroyDrain PROVE TypeOK'
  BY <1>5, EmptySeq, ElementOfSeq DEF DestroyDrain, Elems
<1>6. ASSUME NEW t \in Tasks, EnqueueTask(t) PROVE TypeOK'
  BY <1>6 DEF EnqueueTask, CondSignal
<1>7. ASSUME NEW c \in Clients, WaitCall(c) PROVE TypeOK'
  <2>1. Enqueued \subseteq Tasks
    BY ElementOfSeq DEF Enqueued, Elems
  <2> QED BY <1>7, <2>1 DEF WaitCall
<1>8. ASSUME NEW c \in Clients, WaitSleep(c) \/ WaitReturn(c) \/ Resume(c)
      PROVE TypeOK'
  BY <1>8 DEF WaitSleep, WaitReturn, Resume, history
<1>9. ASSUME NEW w \in Workers, WorkerSleep(w) \/ WorkerExit(w) PROVE TypeOK'
  BY <1>9 DEF WorkerSleep, WorkerExit, history
<1>10. ASSUME NEW w \in Workers, TakeTask(w) PROVE TypeOK'
  <2>1. opc # "gone"
    BY <1>10 DEF TakeTask, Control
  <2>2. queued - 1 \in Nat
    BY <1>10, <2>1, EmptySeq, LenProperties DEF TakeTask, Counters
  <2>3. Head(queue) \in Tasks /\ Tail(queue) \in Seq(Tasks)
    BY <1>10, HeadTailProperties DEF TakeTask
  <2> QED BY <1>10, <2>2, <2>3 DEF TakeTask
<1>11. ASSUME NEW w \in Workers, TaskReturns(w) PROVE TypeOK'
  BY <1>11 DEF TaskReturns, Control
<1>12. ASSUME NEW w \in Workers, FinishTask(w) PROVE TypeOK'
  <2>1. working - 1 \in Nat
    BY <1>12, CountRunning DEF FinishTask, Counters, Running
  <2> QED BY <1>12, <2>1 DEF FinishTask, CondBroadcast, history
<1>13. ASSUME NEW w \in Workers, FreeTask(w) PROVE TypeOK'
  BY <1>13 DEF FreeTask, Control
<1>14. ASSUME NEW t \in Threads, SpuriousWakeup(t) PROVE TypeOK'
  BY <1>14 DEF SpuriousWakeup, history
<1>15. CASE UNCHANGED vars
  BY <1>15 DEF vars
<1> QED
  BY <1>1, <1>2, <1>3, <1>4, <1>5, <1>6, <1>7, <1>8, <1>9, <1>10, <1>11,
     <1>12, <1>13, <1>14, <1>15
  DEF Next, OwnerStep, ClientStep, WorkerStep, ClientEnqueue, TaskEnqueue, Gone

LEMMA StepControl == IInv /\ [Next]_vars => Control'
<1> SUFFICES ASSUME TypeOK, Control, [Next]_vars PROVE Control'
  BY DEF IInv
<1> USE DEF TypeOK, Threads, Control, NoUseAfterDestroy
<1>1. ASSUME NEW w \in Workers, CreateThread(w) PROVE Control'
  BY <1>1 DEF CreateThread, history
<1>2. ASSUME CreateFails \/ DestroyBegin PROVE Control'
  BY <1>2 DEF CreateFails, DestroyBegin, CondBroadcast, history
<1>3. ASSUME NEW w \in Workers, Join(w) PROVE Control'
  BY <1>3 DEF Join, history
<1>4. ASSUME InitFailed PROVE Control'
  BY <1>4 DEF InitFailed, Created, history
<1>5. ASSUME DestroyDrain PROVE Control'
  BY <1>5 DEF DestroyDrain
<1>6. ASSUME NEW t \in Tasks, EnqueueTask(t), opc # "init" PROVE Control'
  BY <1>6 DEF EnqueueTask, CondSignal
<1>7. ASSUME NEW c \in Clients, WaitCall(c) PROVE Control'
  BY <1>7, ConstantsAssumption DEF WaitCall
<1>8. ASSUME NEW c \in Clients, WaitSleep(c) \/ WaitReturn(c) \/ Resume(c)
      PROVE Control'
  BY <1>8, ConstantsAssumption DEF WaitSleep, WaitReturn, Resume, history
<1>9. ASSUME NEW w \in Workers, WorkerSleep(w) \/ WorkerExit(w) PROVE Control'
  BY <1>9, ConstantsAssumption DEF WorkerSleep, WorkerExit, history
<1>10. ASSUME NEW w \in Workers, TakeTask(w) PROVE Control'
  <2>1. Head(queue) \in Tasks
    BY <1>10, HeadTailProperties DEF TakeTask
  <2> QED BY <1>10, <2>1 DEF TakeTask
<1>11. ASSUME NEW w \in Workers, TaskReturns(w) PROVE Control'
  BY <1>11 DEF TaskReturns
<1>12. ASSUME NEW w \in Workers, FinishTask(w) PROVE Control'
  BY <1>12 DEF FinishTask, CondBroadcast, history
<1>13. ASSUME NEW w \in Workers, FreeTask(w) PROVE Control'
  BY <1>13 DEF FreeTask
<1>14. ASSUME NEW t \in Threads, SpuriousWakeup(t) PROVE Control'
  BY <1>14 DEF SpuriousWakeup, history
<1>15. CASE UNCHANGED vars
  BY <1>15 DEF vars
<1>16. ASSUME NEW w \in Workers, NEW t \in Tasks, TaskEnqueue(w, t)
       PROVE  opc # "init"
  BY <1>16 DEF TaskEnqueue
<1> QED
  BY <1>1, <1>2, <1>3, <1>4, <1>5, <1>6, <1>7, <1>8, <1>9, <1>10, <1>11,
     <1>12, <1>13, <1>14, <1>15, <1>16
  DEF Next, OwnerStep, ClientStep, WorkerStep, ClientEnqueue, TaskEnqueue, Gone

LEMMA StepCounters == IInv /\ [Next]_vars => Counters'
<1> SUFFICES ASSUME TypeOK, Control, Counters, [Next]_vars PROVE Counters'
  BY DEF IInv
<1> USE DEF TypeOK, Control, Counters
<1>1. ASSUME Running' = Running, queue' = queue, queued' = queued,
             working' = working, opc = "gone" => opc' = "gone"
      PROVE  Counters'
  BY <1>1
<1>2. ASSUME NEW w \in Workers, CreateThread(w) PROVE Counters'
  <2>1. Running' = Running
    BY <1>2 DEF CreateThread, Running
  <2> QED BY <1>1, <1>2, <2>1 DEF CreateThread
<1>3. ASSUME \/ CreateFails \/ DestroyBegin \/ InitFailed
             \/ \E w \in Workers : Join(w) \/ WorkerSleep(w)
             \/ \E c \in Clients : WaitCall(c) \/ WaitSleep(c) \/ WaitReturn(c) \/ Resume(c)
             \/ \E t \in Threads : SpuriousWakeup(t)
             \/ UNCHANGED vars
      PROVE  Counters'
  <2>1. /\ wpc' = wpc /\ queue' = queue /\ queued' = queued /\ working' = working
        /\ opc = "gone" => opc' = "gone"
    BY <1>3 DEF CreateFails, DestroyBegin, InitFailed, Join, WorkerSleep, WaitCall,
                WaitSleep, WaitReturn, Resume, SpuriousWakeup, vars
  <2>2. Running' = Running
    BY <2>1 DEF Running
  <2> QED BY <1>1, <2>1, <2>2
<1>4. ASSUME DestroyDrain PROVE Counters'
  <2>1. Running' = Running
    BY <1>4 DEF DestroyDrain, Running
  <2> QED BY <1>4, <2>1 DEF DestroyDrain
<1>5. ASSUME NEW t \in Tasks, EnqueueTask(t) PROVE Counters'
  <2>1. Running' = Running
    BY <1>5 DEF EnqueueTask, Running
  <2>2. opc # "gone" => queued' = Len(queue')
    BY <1>5, AppendProperties DEF EnqueueTask
  <2> QED BY <1>5, <2>1, <2>2 DEF EnqueueTask
<1>6. ASSUME NEW w \in Workers, WorkerExit(w) \/ TaskReturns(w) \/ FreeTask(w)
      PROVE  Counters'
  <2>1. Running' = Running
    BY <1>6 DEF WorkerExit, TaskReturns, FreeTask, Running
  <2> QED BY <1>1, <1>6, <2>1 DEF WorkerExit, TaskReturns, FreeTask
<1>7. ASSUME NEW w \in Workers, TakeTask(w) PROVE Counters'
  <2>1. Running' = Running \cup {w} /\ w \notin Running
    BY <1>7 DEF TakeTask, Running
  <2>2. working' = Cardinality(Running')
    BY <1>7, <2>1, CountRunning, FS_AddElement DEF TakeTask
  <2>3. Len(queue') = Len(queue) - 1
    BY <1>7, HeadTailProperties DEF TakeTask
  <2> QED BY <1>7, <2>2, <2>3 DEF TakeTask
<1>8. ASSUME NEW w \in Workers, FinishTask(w) PROVE Counters'
  <2>1. Running' = Running \ {w} /\ w \in Running
    BY <1>8 DEF FinishTask, Running
  <2>2. working' = Cardinality(Running')
    BY <1>8, <2>1, CountRunning, FS_RemoveElement DEF FinishTask
  <2> QED BY <1>8, <2>2 DEF FinishTask
<1> QED
  BY <1>2, <1>3, <1>4, <1>5, <1>6, <1>7, <1>8
  DEF Next, OwnerStep, ClientStep, WorkerStep, ClientEnqueue, TaskEnqueue, Gone

LEMMA StepFifo == IInv /\ [Next]_vars => FifoDispatch'
<1> SUFFICES ASSUME TypeOK, Control, FifoDispatch, [Next]_vars
             PROVE  FifoDispatch'
  BY DEF IInv, TaskPlaces
<1> USE DEF TypeOK, Control, FifoDispatch
<1>1. ASSUME UNCHANGED <<queue, started, enqOrder>>,
             opc = "gone" <=> opc' = "gone"
      PROVE  FifoDispatch'
  BY <1>1
<1>2. ASSUME opc # "gone", opc' = "gone", UNCHANGED <<started, enqOrder>>
      PROVE  FifoDispatch'
  <2>1. enqOrder = started \o queue
    BY <1>2
  <2>2. ASSUME NEW i \in DOMAIN started PROVE started[i] = enqOrder[i]
    <3>1. i \in 1 .. Len(started)
      BY LenProperties
    <3> QED BY <2>1, <3>1, ConcatProperties
  <2> QED BY <1>2, <2>2
<1>3. ASSUME NEW t \in Tasks, EnqueueTask(t), opc # "gone" PROVE FifoDispatch'
  <2>1. /\ enqOrder = started \o queue /\ opc' # "gone" /\ started' = started
        /\ enqOrder' = Append(enqOrder, t) /\ queue' = Append(queue, t)
    BY <1>3 DEF EnqueueTask
  <2>2. Append(started \o queue, t) = started \o Append(queue, t)
    <3>1. started \o queue \in Seq(Tasks) /\ <<t>> \in Seq(Tasks)
      BY ConcatProperties
    <3>2. Append(started \o queue, t) = (started \o queue) \o <<t>>
      BY <3>1, AppendIsConcat
    <3>3. Append(queue, t) = queue \o <<t>>
      BY AppendIsConcat
    <3>4. (started \o queue) \o <<t>> = started \o (queue \o <<t>>)
      BY <3>1, ConcatAssociative
    <3> QED BY <3>2, <3>3, <3>4
  <2> QED BY <2>1, <2>2
<1>4. ASSUME NEW w \in Workers, TakeTask(w) PROVE FifoDispatch'
  <2>1. /\ opc # "gone" /\ opc' = opc /\ enqOrder' = enqOrder /\ queue # <<>>
        /\ started' = Append(started, Head(queue)) /\ queue' = Tail(queue)
    BY <1>4 DEF TakeTask
  <2>2. Append(started, Head(queue)) \o Tail(queue) = started \o queue
    BY <2>1, MoveHead
  <2> QED BY <2>1, <2>2
<1>5. ASSUME InitFailed \/ DestroyDrain PROVE FifoDispatch'
  BY <1>2, <1>5 DEF InitFailed, DestroyDrain, history
<1>6. ASSUME \/ CreateFails \/ DestroyBegin
             \/ \E w \in Workers : \/ CreateThread(w) \/ Join(w) \/ WorkerSleep(w)
                                   \/ WorkerExit(w) \/ TaskReturns(w)
                                   \/ FinishTask(w) \/ FreeTask(w)
             \/ \E c \in Clients : WaitCall(c) \/ WaitSleep(c) \/ WaitReturn(c) \/ Resume(c)
             \/ \E t \in Threads : SpuriousWakeup(t)
             \/ UNCHANGED vars
      PROVE  FifoDispatch'
  <2>1. UNCHANGED <<queue, started, enqOrder>> /\ (opc = "gone" <=> opc' = "gone")
    BY <1>6 DEF CreateFails, DestroyBegin, CreateThread, Join, WorkerSleep, WorkerExit,
                TaskReturns, FinishTask, FreeTask, WaitCall, WaitSleep, WaitReturn,
                Resume, SpuriousWakeup, vars, history
  <2> QED BY <1>1, <2>1
<1>7. ASSUME NEW w \in Workers, NEW t \in Tasks, TaskEnqueue(w, t)
      PROVE  opc # "gone"
  BY <1>7 DEF TaskEnqueue, NoUseAfterDestroy
<1> QED
  BY <1>3, <1>4, <1>5, <1>6, <1>7
  DEF Next, OwnerStep, ClientStep, WorkerStep, ClientEnqueue, TaskEnqueue, Gone

LEMMA StepTaskPlaces == IInv /\ [Next]_vars => TaskPlaces'
<1> SUFFICES ASSUME TypeOK, Control, Counters, TaskPlaces, [Next]_vars,
                    FifoDispatch'
             PROVE  TaskPlaces'
  BY StepFifo DEF IInv
<1> DEFINE Placed == \A i \in DOMAIN started :
             \/ started[i] \in done
             \/ \E w \in Workers : wpc[w] = "exec" /\ hand[w] = started[i]
           Snaps == \A c \in Clients : snap[c] \subseteq Enqueued
<1> USE DEF TypeOK, Control
<1>1. Placed /\ Snaps /\ WaitCompletes
  BY DEF TaskPlaces
<1>2. ASSUME NEW w \in Workers, TakeTask(w) PROVE TaskPlaces'
  <2>1. Placed'
    <3>1. SUFFICES ASSUME NEW i \in DOMAIN started'
                   PROVE  \/ started'[i] \in done'
                          \/ \E v \in Workers : wpc'[v] = "exec" /\ hand'[v] = started'[i]
      OBVIOUS
    <3>2. Head(queue) \in Tasks
      BY <1>2, HeadTailProperties DEF TakeTask
    <3>3. CASE i = Len(started) + 1
      <4>1. started'[i] = Head(queue)
        BY <1>2, <3>2, <3>3, AppendProperties DEF TakeTask
      <4> QED BY <1>2, <4>1 DEF TakeTask
    <3>4. CASE i \in DOMAIN started
      <4>1. started'[i] = started[i]
        BY <1>2, <3>2, <3>4, AppendProperties, LenProperties DEF TakeTask
      <4> QED BY <1>1, <1>2, <3>4, <4>1 DEF TakeTask
    <3> QED BY <1>2, <3>2, <3>3, <3>4, AppendProperties, LenProperties DEF TakeTask
  <2>2. Snaps' /\ WaitCompletes'
    BY <1>1, <1>2 DEF TakeTask, WaitCompletes, Enqueued, Elems
  <2> QED BY <2>1, <2>2 DEF TaskPlaces
<1>3. ASSUME NEW w \in Workers, TaskReturns(w) PROVE TaskPlaces'
  <2>1. Placed'
    BY <1>1, <1>3 DEF TaskReturns
  <2>2. Snaps' /\ WaitCompletes'
    BY <1>1, <1>3 DEF TaskReturns, WaitCompletes, Enqueued, Elems
  <2> QED BY <2>1, <2>2 DEF TaskPlaces
<1>4. ASSUME NEW t \in Tasks, EnqueueTask(t) PROVE TaskPlaces'
  <2>1. Placed' /\ WaitCompletes'
    BY <1>1, <1>4 DEF EnqueueTask, WaitCompletes
  <2>2. Enqueued \subseteq Enqueued'
    <3>1. SUFFICES ASSUME NEW i \in DOMAIN enqOrder PROVE enqOrder[i] \in Enqueued'
      BY DEF Enqueued, Elems
    <3>2. i \in DOMAIN enqOrder' /\ enqOrder'[i] = enqOrder[i]
      BY <1>4, AppendProperties, LenProperties DEF EnqueueTask
    <3> QED BY <3>2 DEF Enqueued, Elems
  <2>3. Snaps'
    BY <1>1, <1>4, <2>2 DEF EnqueueTask
  <2> QED BY <2>1, <2>3 DEF TaskPlaces
<1>5. ASSUME NEW c \in Clients, WaitCall(c) PROVE TaskPlaces'
  BY <1>1, <1>5 DEF WaitCall, TaskPlaces, WaitCompletes, Enqueued, Elems
<1>6. ASSUME NEW c \in Clients, WaitReturn(c) PROVE TaskPlaces'
  <2>1. opc = "live" /\ queued = 0 /\ working = 0
    BY <1>6 DEF WaitReturn, Busy
  <2>2. queue = <<>>
    BY <2>1, EmptySeq DEF Counters
  <2>3. \A w \in Workers : wpc[w] # "exec"
    BY <2>1, WorkingMeansRunning
  <2>4. enqOrder = started
    BY <2>1, <2>2, ConcatEmptySeq DEF TaskPlaces, FifoDispatch
  <2>5. Enqueued \subseteq done
    BY <1>1, <2>3, <2>4 DEF Enqueued, Elems
  <2>6. Placed' /\ Snaps'
    BY <1>1, <1>6 DEF WaitReturn, history, Enqueued, Elems
  <2>7. WaitCompletes'
    BY <1>1, <1>6, <2>5 DEF WaitReturn, history, WaitCompletes
  <2> QED BY <2>6, <2>7 DEF TaskPlaces
<1>7. ASSUME \/ CreateFails \/ DestroyBegin \/ InitFailed \/ DestroyDrain
             \/ \E w \in Workers : \/ CreateThread(w) \/ Join(w) \/ WorkerSleep(w)
                                   \/ WorkerExit(w) \/ FinishTask(w) \/ FreeTask(w)
             \/ \E c \in Clients : WaitSleep(c) \/ Resume(c)
             \/ \E t \in Threads : SpuriousWakeup(t)
             \/ UNCHANGED vars
      PROVE  TaskPlaces'
  <2>1. /\ UNCHANGED <<started, enqOrder, done, snap>>
        /\ \A c \in Clients : cpc'[c] = "returned" => cpc[c] = "returned"
        /\ \A w \in Workers : wpc[w] = "exec" => wpc'[w] = "exec" /\ hand'[w] = hand[w]
    BY <1>7 DEF CreateFails, DestroyBegin, InitFailed, DestroyDrain, CreateThread,
                Join, WorkerSleep, WorkerExit, FinishTask, FreeTask, WaitSleep,
                Resume, SpuriousWakeup, vars, history
  <2>2. Placed'
    BY <1>1, <2>1
  <2>3. Snaps'
    BY <1>1, <2>1 DEF Enqueued, Elems
  <2>4. WaitCompletes'
    BY <1>1, <2>1 DEF WaitCompletes
  <2> QED BY <2>2, <2>3, <2>4 DEF TaskPlaces
<1> QED
  BY <1>2, <1>3, <1>4, <1>5, <1>6, <1>7
  DEF Next, OwnerStep, ClientStep, WorkerStep, ClientEnqueue, TaskEnqueue, Gone

LEMMA StepWakeUps == IInv /\ [Next]_vars => WakeUps'
<1> SUFFICES ASSUME TypeOK, Control, Counters, WakeUps, [Next]_vars, opc' = "live"
             PROVE  WakeUps'
  BY DEF IInv, WakeUps
<1> USE ConstantsAssumption DEF TypeOK, Threads, Control, WakeUps, Running
<1>1. ASSUME NEW w \in Workers, CreateThread(w) PROVE WakeUps'
  BY <1>1 DEF CreateThread
<1>2. ASSUME NEW t \in Tasks, EnqueueTask(t) PROVE WakeUps'
  BY <1>2 DEF EnqueueTask, CondSignal
<1>3. ASSUME NEW c \in Clients, WaitSleep(c) PROVE WakeUps'
  <2>1. opc = "live" /\ c \notin Workers
    BY <1>3 DEF WaitSleep
  <2>2. \E w \in Workers : w \notin sleeping /\ (w \in Running \/ queue # <<>>)
    <3>1. CASE queued > 0
      BY <2>1, <3>1, EmptySeq DEF Counters
    <3>2. CASE working > 0
      BY <3>2, WorkingMeansRunning
    <3> QED BY <1>3, <3>1, <3>2 DEF WaitSleep, Busy
  <2> QED BY <1>3, <2>1, <2>2 DEF WaitSleep
<1>4. ASSUME NEW c \in Clients, WaitCall(c) \/ WaitReturn(c) \/ Resume(c)
      PROVE  WakeUps'
  BY <1>4 DEF WaitCall, WaitReturn, Resume
<1>5. ASSUME NEW w \in Workers, WorkerSleep(w) PROVE WakeUps'
  BY <1>5 DEF WorkerSleep
<1>6. ASSUME NEW w \in Workers, WorkerExit(w) PROVE WakeUps'
  BY <1>6 DEF WorkerExit
<1>7. ASSUME NEW w \in Workers, TakeTask(w) PROVE WakeUps'
  BY <1>7 DEF TakeTask
<1>8. ASSUME NEW w \in Workers, TaskReturns(w) PROVE WakeUps'
  BY <1>8 DEF TaskReturns
<1>9. ASSUME NEW w \in Workers, FinishTask(w) PROVE WakeUps'
  BY <1>9 DEF FinishTask, CondBroadcast
<1>10. ASSUME NEW w \in Workers, FreeTask(w) PROVE WakeUps'
  BY <1>10 DEF FreeTask
<1>11. ASSUME NEW t \in Threads, SpuriousWakeup(t) PROVE WakeUps'
  BY <1>11 DEF SpuriousWakeup
<1>12. CASE UNCHANGED vars
  BY <1>12 DEF vars
<1>13. ASSUME NEW w \in Workers, Join(w) PROVE WakeUps'
  BY <1>13 DEF Join
<1>14. ~(CreateFails \/ DestroyBegin \/ InitFailed \/ DestroyDrain)
  BY DEF CreateFails, DestroyBegin, InitFailed, DestroyDrain
<1> QED
  BY <1>1, <1>2, <1>3, <1>4, <1>5, <1>6, <1>7, <1>8, <1>9, <1>10, <1>11,
     <1>12, <1>13, <1>14
  DEF Next, OwnerStep, ClientStep, WorkerStep, ClientEnqueue, TaskEnqueue, Gone

\* While the pool exists what was dequeued and what is linked are disjoint.
LEMMA LinkedIsNew ==
  ASSUME TypeOK, FifoDispatch, NodePlaces, opc # "gone"
  PROVE  /\ Enqueued = Elems(started) \cup Elems(queue)
         /\ Elems(started) \cap Elems(queue) = {}
<1>1. started \in Seq(Tasks) /\ queue \in Seq(Tasks) /\ enqOrder = started \o queue
  BY DEF TypeOK, FifoDispatch
<1>2. Distinct(started \o queue) BY <1>1 DEF NodePlaces, Distinct
<1> QED BY <1>1, <1>2, ElemsOfSeqs, DistinctParts DEF Enqueued

\* Every action keeps each node in one place.
LEMMA StepNodePlaces == IInv /\ [Next]_vars => NodePlaces'
<1> SUFFICES ASSUME TypeOK, Control, FifoDispatch, NodePlaces, [Next]_vars PROVE NodePlaces'
  BY DEF IInv, TaskPlaces
<1> USE ConstantsAssumption DEF TypeOK, Control
<1>1. ASSUME UNCHANGED <<hand, freed, started, enqOrder, queue>>,
             opc = "gone" <=> opc' = "gone",
             opc' \in {"init", "joinFailed"} =>
               /\ opc \in {"init", "joinFailed"}
               /\ \A w \in Workers : wpc'[w] \in {"none", "loop", "exit"},
             \A w \in Workers : wpc'[w] \in {"exec", "finish", "free"} <=>
                                wpc[w] \in {"exec", "finish", "free"}
      PROVE  NodePlaces'
  BY <1>1 DEF NodePlaces, Enqueued, Elems
<1>2. ASSUME NEW w \in Workers, CreateThread(w) PROVE NodePlaces'
  BY <1>1, <1>2 DEF CreateThread, history, NodePlaces
<1>3. ASSUME \/ CreateFails \/ DestroyBegin
             \/ \E w \in Workers : Join(w) \/ WorkerSleep(w) \/ WorkerExit(w)
             \/ \E w \in Workers : FinishTask(w) \/ TaskReturns(w)
             \/ \E c \in Clients : WaitCall(c) \/ WaitSleep(c) \/ WaitReturn(c) \/ Resume(c)
             \/ \E t \in Threads : SpuriousWakeup(t)
             \/ UNCHANGED vars
      PROVE  NodePlaces'
  <2>1. UNCHANGED <<hand, freed, started, enqOrder, queue>> /\ (opc = "gone" <=> opc' = "gone")
    BY <1>3 DEF CreateFails, DestroyBegin, Join, WorkerSleep, WorkerExit, FinishTask,
         TaskReturns, WaitCall, WaitSleep, WaitReturn, Resume, SpuriousWakeup, vars, history
  <2>2. \A w \in Workers : /\ wpc'[w] \in {"exec", "finish", "free"} <=>
                              wpc[w] \in {"exec", "finish", "free"}
                           /\ wpc'[w] = wpc[w] \/ wpc'[w] = "exit"
                              \/ wpc[w] \in {"exec", "finish", "free"}
    BY <1>3 DEF CreateFails, DestroyBegin, Join, WorkerSleep, WorkerExit, FinishTask,
         TaskReturns, WaitCall, WaitSleep, WaitReturn, Resume, SpuriousWakeup, vars
  <2>3. opc' \in {"init", "joinFailed"} => opc \in {"init", "joinFailed"}
    BY <1>3 DEF CreateFails, DestroyBegin, Join, WorkerSleep, WorkerExit, FinishTask,
         TaskReturns, WaitCall, WaitSleep, WaitReturn, Resume, SpuriousWakeup, vars
  <2> QED BY <1>1, <2>1, <2>2, <2>3 DEF NodePlaces
<1>4. ASSUME InitFailed PROVE NodePlaces'
  <2>1. /\ UNCHANGED <<hand, freed, started, enqOrder, queue, wpc>> /\ opc' = "gone"
        /\ opc = "joinFailed"
    BY <1>4 DEF InitFailed, history
  <2>2. \A w \in Workers : hand[w] = NoTask BY <2>1 DEF NodePlaces
  <2>3. enqOrder = <<>> /\ started \in Seq(Tasks) /\ queue \in Seq(Tasks)
    BY <2>1 DEF NodePlaces
  <2>4. Enqueued = {} BY <2>3, ElemsOfSeqs DEF Enqueued
  <2>5. Elems(started) = {} BY <2>1, <2>4, LinkedIsNew
  <2>6. freed = Enqueued BY <2>1, <2>4, <2>5 DEF NodePlaces
  <2>7. queue = <<>>
    <3>1. Elems(queue) = {} BY <2>1, <2>4, LinkedIsNew
    <3> QED BY <2>3, <3>1, ElemsOfSeqs
  <2> QED BY <2>1, <2>6, <2>7 DEF NodePlaces, Enqueued, Elems
<1>5. ASSUME DestroyDrain PROVE NodePlaces'
  <2>1. /\ UNCHANGED <<hand, started, enqOrder, wpc>> /\ opc' = "gone" /\ opc = "join"
        /\ freed' = freed \cup Elems(queue) /\ joined = Workers /\ queue' = <<>>
    BY <1>5 DEF DestroyDrain
  <2>2. \A w \in Workers : hand[w] = NoTask BY <2>1 DEF NodePlaces
  <2>3. Elems(started) = freed
    <3>1. {hand[w] : w \in Workers} \ {NoTask} = {} BY <2>2
    <3> QED BY <2>1, <3>1 DEF NodePlaces
  <2>4. freed' = Enqueued' BY <2>1, <2>3, LinkedIsNew DEF Enqueued, Elems
  <2>5. freed' \subseteq Tasks BY <2>1, ElementOfSeq DEF Elems
  <2> QED BY <2>1, <2>2, <2>4, <2>5 DEF NodePlaces
<1>6. ASSUME NEW t \in Tasks, EnqueueTask(t), opc \notin {"init", "joinFailed", "gone"}
      PROVE  NodePlaces'
  <2>1. /\ UNCHANGED <<hand, freed, started, opc, wpc>> /\ t \notin Elems(enqOrder)
        /\ enqOrder' = Append(enqOrder, t)
    BY <1>6 DEF EnqueueTask, Enqueued
  <2>2. Distinct(enqOrder') BY <2>1, DistinctAppend DEF NodePlaces, Distinct
  <2>3. \A i, j \in DOMAIN enqOrder' : enqOrder'[i] = enqOrder'[j] => i = j
    BY <2>2 DEF Distinct
  <2> QED BY <1>6, <2>1, <2>3 DEF NodePlaces
<1>7. ASSUME NEW w \in Workers, TakeTask(w) PROVE NodePlaces'
  <2>1. /\ UNCHANGED <<freed, enqOrder, opc>> /\ queue # <<>>
        /\ wpc[w] = "loop" /\ wpc' = [wpc EXCEPT ![w] = "exec"]
        /\ hand' = [hand EXCEPT ![w] = Head(queue)]
        /\ started' = Append(started, Head(queue))
        /\ opc \notin {"init", "joinFailed", "gone"}
    BY <1>7 DEF TakeTask
  <2>2. Head(queue) \in Tasks /\ Head(queue) \in Elems(queue)
    BY <2>1, HeadTailProperties, ElemsOfSeqs
  <2>3. Head(queue) \notin Elems(started) BY <2>1, <2>2, LinkedIsNew
  <2>4. Elems(started') = Elems(started) \cup {Head(queue)}
    BY <2>1, <2>2, ElemsOfSeqs
  <2>5. hand[w] = NoTask BY <2>1 DEF NodePlaces
  <2>6. Elems(started) = freed \cup ({hand[v] : v \in Workers} \ {NoTask})
    BY <2>1 DEF NodePlaces
  <2>7. \A v \in Workers : hand[v] # Head(queue) BY <2>2, <2>3, <2>6
  <2>8. \A v \in Workers \ {w} : hand'[v] = hand[v] /\ wpc'[v] = wpc[v] BY <2>1
  <2>9. hand'[w] = Head(queue) /\ wpc'[w] = "exec" BY <2>1
  <2>10. Elems(started') = freed' \cup ({hand'[v] : v \in Workers} \ {NoTask})
    BY <2>1, <2>2, <2>4, <2>5, <2>6, <2>8, <2>9
  <2>11. \A v \in Workers : hand'[v] \notin freed'
    BY <2>1, <2>3, <2>6, <2>8, <2>9 DEF NodePlaces
  <2>12. \A v, u \in Workers : v # u /\ hand'[v] = hand'[u] => hand'[v] = NoTask
    BY <2>7, <2>8, <2>9 DEF NodePlaces
  <2>13. \A v \in Workers : hand'[v] # NoTask <=> wpc'[v] \in {"exec", "finish", "free"}
    BY <2>2, <2>8, <2>9 DEF NodePlaces
  <2> QED BY <2>1, <2>10, <2>11, <2>12, <2>13 DEF NodePlaces
<1>8. ASSUME NEW w \in Workers, FreeTask(w) PROVE NodePlaces'
  <2>1. /\ UNCHANGED <<started, enqOrder, opc>>
        /\ wpc[w] = "free" /\ wpc' = [wpc EXCEPT ![w] = "loop"]
        /\ freed' = freed \cup {hand[w]}
        /\ hand' = [hand EXCEPT ![w] = NoTask]
        /\ opc \notin {"init", "joinFailed", "gone"}
    BY <1>8 DEF FreeTask, NoUseAfterDestroy, NodePlaces
  <2>2. hand[w] \in Tasks /\ freed \subseteq Tasks BY <2>1
  <2>3. Elems(started) = freed \cup ({hand[v] : v \in Workers} \ {NoTask})
    BY <2>1 DEF NodePlaces
  <2>4. \A v \in Workers \ {w} : hand'[v] = hand[v] /\ wpc'[v] = wpc[v] /\ hand[v] # hand[w]
    BY <2>1, <2>2 DEF NodePlaces
  <2>5. hand'[w] = NoTask /\ wpc'[w] = "loop" BY <2>1
  <2>6. Elems(started') = freed' \cup ({hand'[v] : v \in Workers} \ {NoTask})
    BY <2>1, <2>2, <2>3, <2>4, <2>5
  <2>7. \A v \in Workers : hand'[v] \notin freed'
    BY <2>1, <2>2, <2>4, <2>5 DEF NodePlaces
  <2>8. \A v, u \in Workers : v # u /\ hand'[v] = hand'[u] => hand'[v] = NoTask
    BY <2>4, <2>5 DEF NodePlaces
  <2>9. \A v \in Workers : hand'[v] # NoTask <=> wpc'[v] \in {"exec", "finish", "free"}
    BY <2>4, <2>5 DEF NodePlaces
  <2> QED BY <2>1, <2>6, <2>7, <2>8, <2>9 DEF NodePlaces
<1>9. ASSUME NEW w \in Workers, NEW t \in Tasks, TaskEnqueue(w, t)
      PROVE  opc \notin {"init", "joinFailed", "gone"}
  BY <1>9 DEF TaskEnqueue, NoUseAfterDestroy, NodePlaces
<1> QED
  BY <1>2, <1>3, <1>4, <1>5, <1>6, <1>7, <1>8, <1>9
  DEF Next, OwnerStep, ClientStep, WorkerStep, ClientEnqueue, TaskEnqueue, Gone

-----------------------------------------------------------------------------
(* What holds in every reachable state. *)

\* The inductive invariant holds of every pool.
THEOREM Invariance == Spec => []IInv
<1>1. IInv /\ [Next]_vars => IInv'
  BY StepTypeOK, StepControl, StepCounters, StepTaskPlaces, StepWakeUps, StepNodePlaces
  DEF IInv
<1> QED BY <1>1, InitIInv, PTL DEF Spec

\* scl_threadpool_t keeps its types; in particular the unsigned counters
\* `queued' and `working' never wrap below zero.
THEOREM TypeCorrect == Spec => []TypeOK
<1>1. IInv => TypeOK
  BY DEF IInv
<1> QED BY <1>1, Invariance, PTL

\* scl_threadpool_wait returns only when every task enqueued before the call
\* has run to completion.
THEOREM WaitIsBarrier == Spec => []WaitCompletes
<1>1. IInv => WaitCompletes
  BY DEF IInv, TaskPlaces
<1> QED BY <1>1, Invariance, PTL

\* A task queued in a live pool never waits with every worker asleep, however
\* the signals of scl_threadpool_enqueue are distributed.
THEOREM WakeupsNotLost == Spec => []NoLostWakeup
<1>1. IInv => NoLostWakeup
  BY DEF IInv, WakeUps, NoLostWakeup
<1> QED BY <1>1, Invariance, PTL

\* Tasks are handed to workers in the order they were enqueued.
THEOREM DispatchIsFifo == Spec => []FifoDispatch
<1>1. IInv => FifoDispatch
  BY DEF IInv, TaskPlaces
<1> QED BY <1>1, Invariance, PTL

\* destroy() and the error path of init() destroy the mutex and the condition
\* variable only after every worker thread has returned.
THEOREM DestroyIsSafe == Spec => []NoUseAfterDestroy
<1>1. IInv => NoUseAfterDestroy
  BY DEF IInv, Control
<1> QED BY <1>1, Invariance, PTL

\* A task node goes back to the allocator once: by the worker that ran it, or
\* by destroy() if no worker took it, and by nobody while it is linked or held.
THEOREM NodesFreed == Spec => []NodesFreedOnce
<1>1. ASSUME IInv PROVE NodesFreedOnce
  <2> USE <1>1, ConstantsAssumption DEF IInv, TaskPlaces
  <2>1. freed \cap {hand[w] : w \in Workers} = {} BY DEF NodePlaces
  <2>2. CASE opc # "gone"
    <3>1. freed \subseteq Elems(started) BY <2>2 DEF NodePlaces
    <3>2. Elems(started) \cap Elems(queue) = {} BY <2>2, LinkedIsNew
    <3> QED BY <2>1, <2>2, <3>1, <3>2 DEF NodesFreedOnce
  <2>3. CASE opc = "gone"
    <3>1. queue = <<>> BY <2>3 DEF NodePlaces
    <3>2. Elems(queue) = {} BY <3>1, ElemsOfSeqs
    <3> QED BY <2>1, <2>3, <3>2 DEF NodesFreedOnce, NodePlaces
  <2> QED BY <2>2, <2>3
<1> QED BY <1>1, Invariance, PTL
=============================================================================
