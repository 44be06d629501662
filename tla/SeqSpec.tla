------------------------------ MODULE SeqSpec ------------------------------
(***************************************************************************)
(* What a sequence container promises: a sequence q of values, the calls   *)
(* that change it and what each returns.  ret is the call: its function,   *)
(* arguments, error and result.  limit is the number of elements that a    *)
(* container of fixed size holds, None when it grows.                      *)
(***************************************************************************)
EXTENDS Integers, Sequences, SequencesExt

CONSTANT Values
VARIABLES q, limit, ret

None == -1

Call(op, args) == ret'.op = op /\ ret'.args = args
Returns(err, out) == ret'.err = err /\ ret'.out = out
Fails(err) == q' = q /\ Returns(err, None)

\* No memory, or no room: the sequence stays.
NoRoom == Fails("OUT_OF_MEMORY") \/ (Len(q) = limit /\ Fails("FULL"))

PushBack(v) ==
  Call("push_back", <<v>>) /\ (NoRoom \/ (q' = Append(q, v) /\ Returns("OK", None)))
Adds(v) == \* returns the index
  Call("append", <<v>>) /\ (NoRoom \/ (q' = Append(q, v) /\ Returns("OK", Len(q))))
PushFront(v) ==
  Call("push_front", <<v>>) /\ (NoRoom \/ (q' = <<v>> \o q /\ Returns("OK", None)))
PushOver(v) == \* drops the oldest when full
  Call("push_over", <<v>>) /\ Len(q) = limit /\ q' = Append(Tail(q), v) /\ Returns("OK", None)
Insert(i, v) ==
  /\ Call("insert", <<i, v>>)
  /\ NoRoom \/ IF i > Len(q) THEN Fails("INVALID_INDEX")
               ELSE q' = InsertAt(q, i + 1, v) /\ Returns("OK", None)
Assign(i, v) ==
  /\ Call("set", <<i, v>>)
  /\ IF i >= Len(q) THEN Fails("INVALID_INDEX") ELSE q' = ReplaceAt(q, i + 1, v) /\ Returns("OK", None)

Taken(op, rest, x) == \* an element leaves, or is only looked at (rest = q)
  Call(op, <<>>) /\ IF q = <<>> THEN Fails("EMPTY") ELSE q' = rest /\ Returns("OK", x)
Ends ==
  \/ Taken("pop_front", Tail(q), Head(q))
  \/ Taken("pop_back", Front(q), Last(q))
  \/ Taken("front", q, Head(q))
  \/ Taken("back", q, Last(q))

At(i) ==
  \/ Call("get", <<i>>) /\ IF i >= Len(q) THEN Fails("INVALID_INDEX")
                           ELSE q' = q /\ Returns("OK", q[i + 1])
  \/ Call("remove_at", <<i>>) /\ IF i >= Len(q) THEN Fails("INVALID_INDEX")
                                 ELSE q' = RemoveAt(q, i + 1) /\ Returns("OK", q[i + 1])

First(v) == (CHOOSE i \in 1..Len(q) : q[i] = v /\ \A j \in 1..(i - 1) : q[j] # v) - 1
Lookup(op, v, rest, outs) ==
  /\ Call(op, <<v>>)
  /\ IF v \notin Range(q) THEN Fails("NOT_FOUND")
     ELSE q' = rest /\ \E out \in outs : Returns("OK", out)
ByValue(v) ==
  \/ Lookup("search", v, q, {First(v)})
  \/ Lookup("bsearch", v, q, {i - 1 : i \in {j \in 1..Len(q) : q[j] = v}})
  \/ Lookup("find", v, q, {v})
  \/ Lookup("remove", v, RemoveFirst(q, v), {None})

Whole ==
  \/ Call("destroy", <<>>) /\ q' = <<>> /\ Returns("OK", None)
  \/ Call("resize", <<>>) /\ q' = q /\ \E err \in {"OK", "OUT_OF_MEMORY"} : Returns(err, None)

Next ==
  \/ Whole \/ Ends
  \/ \E i \in 0..(Len(q) + 1) : At(i)
  \/ \E v \in Values :
       \/ PushBack(v) \/ Adds(v) \/ PushFront(v) \/ PushOver(v) \/ ByValue(v)
       \/ \E i \in 0..(Len(q) + 1) : Insert(i, v) \/ Assign(i, v)
=============================================================================
