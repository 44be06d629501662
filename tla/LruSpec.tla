------------------------------ MODULE LruSpec ------------------------------
(***************************************************************************)
(* What an LRU cache promises: at most limit entries, by age in q (the     *)
(* most recently used first), and only the least recently used one may be  *)
(* given up for a new one.  A put that then finds no memory has given it   *)
(* up for nothing.                                                         *)
(***************************************************************************)
EXTENDS Integers, Sequences, SequencesExt

VARIABLES q, limit, ret

None == -1

Call(op) == ret'.op = op
Returns(err, out) == ret'.err = err /\ ret'.out = out

Held == {q[i][1] : i \in 1..Len(q)}
Without(k) == SelectSeq(q, LAMBDA e : e[1] # k)
ValueOf(k) == (CHOOSE e \in Range(q) : e[1] = k)[2]

Put(k, v) ==
  LET kept == IF k \in Held THEN Without(k) ELSE IF Len(q) = limit THEN Front(q) ELSE q
  IN /\ Call("put")
     /\ \/ q' = <<<<k, v>>>> \o kept /\ Returns("OK", None)
        \/ k \notin Held /\ q' = kept /\ Returns("OUT_OF_MEMORY", None)

Absent(k) == k \notin Held /\ q' = q /\ Returns("NOT_FOUND", None)
Get(k) ==
  /\ Call("get")
  /\ Absent(k) \/ (k \in Held /\ q' = <<<<k, ValueOf(k)>>>> \o Without(k) /\ Returns("OK", ValueOf(k)))
Drop(k) ==
  Call("remove") /\ (Absent(k) \/ (k \in Held /\ q' = Without(k) /\ Returns("OK", None)))

Next ==
  \/ Call("count") /\ q' = q /\ Returns("OK", Len(q))
  \/ (Call("clear") \/ Call("destroy")) /\ q' = <<>> /\ Returns("OK", None)
  \/ Len(ret'.args) > 0 /\ LET k == ret'.args[1] IN
       \/ Len(ret'.args) = 2 /\ Put(k, ret'.args[2])
       \/ Get(k) \/ Drop(k)
       \/ Call("contains") /\ q' = q /\ Returns("OK", k \in Held)
=============================================================================
