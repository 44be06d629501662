---------------------------- MODULE MergeThreads ----------------------------
(***************************************************************************)
(* scl_sort_merge_sort_mt (libs/sort/merge/scl_merge.c): the call on a     *)
(* range <<lo, hi>> of the array is task[<<lo, hi>>].  A call may hand its *)
(* left half to a thread; calls of different threads interleave, and every *)
(* element is merged through the one scratch buffer tmp.                   *)
(***************************************************************************)
EXTENDS Integers, FiniteSets

CONSTANT ParCutoff    \* SCL_MSORT_PAR_CUTOFF: ranges below it are not shared out

VARIABLES
  given,   \* history: the array as the call found it
  base,    \* the array, on 0..n-1, of <<key, tag>>
  tmp,     \* the scratch buffer, same positions
  task     \* the calls, by range

Whole == <<0, Cardinality(DOMAIN base)>>
Mid(r) == r[1] + (r[2] - r[1]) \div 2
Left(r) == <<r[1], Mid(r)>>
Right(r) == <<Mid(r), r[2]>>
IsDone(r) == task[r].pc = "done"
Idle == [pc |-> "none", depth |-> 0, li |-> 0, ri |-> 0, ti |-> 0]
Call(depth) == [Idle EXCEPT !.pc = "enter", !.depth = depth]
NoTask(n) == [r \in {p \in (0..n) \X (0..n) : p[1] <= p[2]} |-> Idle]

\* for (t = 1; t < threads; t <<= 1) depth++
DepthFor(threads) == CHOOSE d \in 0..threads : 2^d >= threads /\ (d = 0 \/ 2^(d - 1) < threads)
merge_sort_mt(a, threads) ==
  /\ given = a /\ base = a
  /\ tmp = a      \* not initialised in the code, and never read before it is written
  /\ task = [NoTask(Cardinality(DOMAIN a)) EXCEPT
               ![<<0, Cardinality(DOMAIN a)>>] = Call(DepthFor(threads))]

-----------------------------------------------------------------------------
IsShared(r) == task[r].depth > 0 /\ r[2] - r[1] >= ParCutoff

msort_small(r) ==
  /\ task[r].pc = "enter" /\ r[2] - r[1] < 2
  /\ task' = [task EXCEPT ![r].pc = "done"]
  /\ UNCHANGED <<given, base, tmp>>

\* msort_seq sorts the left half first.
msort_seq(r) ==
  /\ task[r].pc = "enter" /\ r[2] - r[1] >= 2 /\ ~IsShared(r)
  /\ task' = [task EXCEPT ![r].pc = "left", ![r].depth = 0, ![Left(r)] = Call(0)]
  /\ UNCHANGED <<given, base, tmp>>

\* The thread of the left half was made: the right half is sorted meanwhile.
msort_par(r) ==
  /\ task[r].pc = "enter" /\ r[2] - r[1] >= 2 /\ IsShared(r)
  /\ task' = [task EXCEPT ![r].pc = "join", ![Left(r)] = Call(task[r].depth - 1),
                          ![Right(r)] = Call(task[r].depth - 1)]
  /\ UNCHANGED <<given, base, tmp>>
\* It was not: the left half is sorted here, with no more threads.
msort_par_inline(r) ==
  /\ task[r].pc = "enter" /\ r[2] - r[1] >= 2 /\ IsShared(r)
  /\ task' = [task EXCEPT ![r].pc = "left", ![Left(r)] = Call(0)]
  /\ UNCHANGED <<given, base, tmp>>

AfterLeft(r) ==
  /\ task[r].pc = "left" /\ IsDone(Left(r))
  /\ task' = [task EXCEPT ![r].pc = "join",
                          ![Right(r)] = Call(IF task[r].depth > 0 THEN task[r].depth - 1 ELSE 0)]
  /\ UNCHANGED <<given, base, tmp>>

Joined_NoJoin(r) == IsDone(Right(r))
\* The right half has returned and the thread, if there is one, is joined.
Joined(r) == IsDone(Left(r)) /\ IsDone(Right(r))
thread_join(r) ==
  /\ task[r].pc = "join" /\ Joined(r)
  /\ task' = [task EXCEPT ![r].pc = "merge", ![r].li = r[1], ![r].ri = Mid(r), ![r].ti = r[1]]
  /\ UNCHANGED <<given, base, tmp>>

\* One element of msort_merge.
msort_merge(r) ==
  LET t == task[r]
      left == t.li < Mid(r) /\ (t.ri < r[2] => base[t.li][1] <= base[t.ri][1])
  IN /\ t.pc = "merge" /\ t.ti < r[2]
     /\ tmp' = [tmp EXCEPT ![t.ti] = base[IF left THEN t.li ELSE t.ri]]
     /\ task' = [task EXCEPT ![r].ti = @ + 1, ![r].li = IF left THEN @ + 1 ELSE @,
                             ![r].ri = IF left THEN @ ELSE @ + 1]
     /\ UNCHANGED <<given, base>>
msort_copy(r) ==
  /\ task[r].pc = "merge" /\ task[r].ti = r[2]
  /\ base' = [i \in DOMAIN base |-> IF i \in r[1]..(r[2] - 1) THEN tmp[i] ELSE base[i]]
  /\ task' = [task EXCEPT ![r].pc = "done"]
  /\ UNCHANGED <<given, tmp>>

MtNext ==
  \E r \in DOMAIN task :
    \/ msort_small(r) \/ msort_seq(r) \/ msort_par(r) \/ msort_par_inline(r)
    \/ AfterLeft(r) \/ thread_join(r) \/ msort_merge(r) \/ msort_copy(r)
MtDone == IsDone(Whole)

-----------------------------------------------------------------------------
(* What a sort promises. *)

IsSorted(a) == \A i, j \in DOMAIN a : i < j => a[i][1] <= a[j][1]
IsStable(a) == \A i, j \in DOMAIN a : (i < j /\ a[i][1] = a[j][1]) => a[i][2] < a[j][2]
SameKeys(a, b) ==
  /\ DOMAIN a = DOMAIN b
  /\ \A k \in {a[i][1] : i \in DOMAIN a} \cup {b[i][1] : i \in DOMAIN b} :
       Cardinality({i \in DOMAIN a : a[i][1] = k}) = Cardinality({i \in DOMAIN b : b[i][1] = k})

\* When scl_sort_merge_sort_mt returns, the array is sorted and stable,
\* whatever threads it got and in whatever order they merged through the one
\* scratch buffer; the element a thread has still to merge is never lost.
ThreadsSort == MtDone => SameKeys(base, given) /\ IsSorted(base) /\ IsStable(base)
=============================================================================
