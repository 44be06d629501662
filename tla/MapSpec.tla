------------------------------ MODULE MapSpec ------------------------------
(***************************************************************************)
(* What a map promises: a function m from the keys it holds to their       *)
(* values, the calls that change it and what each returns.  ret is the     *)
(* call: its function, arguments, error and result.                        *)
(***************************************************************************)
EXTENDS Integers, Sequences, FiniteSetsExt, Functions, SequencesExt, TLC

VARIABLES m, ret

None == -1

Call(op) == ret'.op = op
Returns(err, out) == ret'.err = err /\ ret'.out = out
Fails(err) == m' = m /\ Returns(err, None)
Answers(out) == m' = m /\ Returns("OK", out)

Insert(k, v) ==
  /\ Call("insert")
  /\ Fails("OUT_OF_MEMORY") \/ (m' = (k :> v) @@ m /\ Returns("OK", None))

Drop(k) ==
  /\ Call("remove")
  /\ IF k \notin DOMAIN m THEN Fails("NOT_FOUND")
     ELSE m' = Restrict(m, DOMAIN m \ {k}) /\ Returns("OK", None)

Find(k) ==
  Call("find") /\ IF k \notin DOMAIN m THEN Fails("NOT_FOUND") ELSE Answers(m[k])

Held(k) == Call("contains") /\ Answers(k \in DOMAIN m)

Extreme(op, Least(_)) ==
  Call(op) /\ IF DOMAIN m = {} THEN Fails("EMPTY") ELSE Answers(Least(DOMAIN m))

Sorted == SetToSortSeq(DOMAIN m, LAMBDA a, b : a < b)

Whole ==
  \/ Call("count") /\ Answers(Cardinality(DOMAIN m))
  \/ Extreme("min", Min) \/ Extreme("max", Max)
  \/ Call("inorder") /\ Answers([i \in DOMAIN Sorted |-> <<Sorted[i], m[Sorted[i]]>>])
  \/ Call("destroy") /\ \/ Fails("OUT_OF_MEMORY")
                        \/ m' = <<>> /\ Returns("OK", None)

Next ==
  \/ Whole
  \/ Len(ret'.args) > 0 /\ LET k == ret'.args[1] IN
       \/ Len(ret'.args) = 2 /\ Insert(k, ret'.args[2])
       \/ Drop(k) \/ Find(k) \/ Held(k)
=============================================================================
