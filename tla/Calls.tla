------------------------------- MODULE Calls -------------------------------
(***************************************************************************)
(* The call interface the containers share.  A container is a C structure  *)
(* (st) that changes only inside calls; ret is the last call: the          *)
(* function, its arguments, the scl_error_t it returned and what it wrote  *)
(* to its out parameter.  kind says which container a behaviour is about.  *)
(* A call that allocates takes mem, whether the allocator has memory.      *)
(***************************************************************************)
EXTENDS Integers, Sequences, FiniteSetsExt, Functions, TLC

VARIABLES kind, st, ret

vars == <<kind, st, ret>>

None == -1
Null == 0
NoCall == [op |-> "init", args |-> <<>>, err |-> "OK", out |-> None]

\* A destroyed structure.
Gone == [count |-> 0]

\* A call of op that leaves the structure as t and returns err and out.
Done(op, args, t, err, out) ==
  /\ st' = t
  /\ ret' = [op |-> op, args |-> args, err |-> err, out |-> out]
  /\ UNCHANGED kind

\* A call that returns err and leaves the structure as it is.
Fail(op, args, err) == Done(op, args, st, err, None)

\* A call that only reads.
Read(op, args, out) == Done(op, args, st, "OK", out)

\* A search that yields the least of the hits, or NOT_FOUND.
FirstOf(op, args, hits) ==
  IF hits = {} THEN Fail(op, args, "NOT_FOUND") ELSE Read(op, args, Min(hits))

\* The least power of two that is at least n.
BitCeil(n) == CHOOSE p \in {2^k : k \in 0..16} : p >= n /\ (p = 1 \/ p \div 2 < n)

-----------------------------------------------------------------------------
(* Nodes on the heap: a function from addresses to node records. *)

Fresh(heap) == CHOOSE n \in 1..(Cardinality(DOMAIN heap) + 1) :
                 n \notin DOMAIN heap /\ \A m \in 1..(n - 1) : m \in DOMAIN heap
NewNode(heap, node) == (Fresh(heap) :> node) @@ heap
FreeNode(heap, n) == Restrict(heap, DOMAIN heap \ {n})
=============================================================================
