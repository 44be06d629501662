------------------------------ MODULE LFStack ------------------------------
(***************************************************************************)
(* structures/lfstack: the intrusive Treiber stack whose head is a         *)
(* {pointer, tag} pair swapped by a double-width compare-exchange, used in *)
(* the pool pattern its header prescribes: nodes are recycled between push *)
(* and pop and never freed.  Each atomic access is a step, so a thread may *)
(* sleep between reading a node's link and its compare-exchange while the  *)
(* node leaves the stack and comes back (the ABA hazard).                  *)
(***************************************************************************)
EXTENDS Naturals, Sequences

CONSTANTS
  Callers,  \* the threads that push and pop
  Nodes,
  Nil,      \* the null pointer
  MaxOps    \* bound: calls that may be started (the tag is 64 bits wide)

ASSUME NilAssumption == Nil \notin Nodes

VARIABLES
  head,     \* [lo |-> node pointer, hi |-> tag]
  next,     \* the link word at the start of each node
  pc,
  old,      \* local `old': the head last observed
  new,      \* local `neu.lo' of a pop
  node,     \* the node a push is about to insert
  held,     \* per thread, the nodes it has popped and not pushed back
  calls,    \* history: calls started
  content   \* history: the nodes on the stack, top first

vars == <<head, next, pc, old, new, node, held, calls, content>>

Goto(t, l) == pc' = [pc EXCEPT ![t] = l]

Start(t) == pc[t] = "idle" /\ calls < MaxOps /\ calls' = calls + 1

\* The stack starts empty and every node belongs to some thread.
Init ==
  /\ head = [lo |-> Nil, hi |-> 0]
  /\ next = [n \in Nodes |-> Nil]
  /\ pc = [t \in Callers |-> "idle"]
  /\ old = [t \in Callers |-> head]
  /\ new = [t \in Callers |-> Nil]
  /\ node = [t \in Callers |-> Nil]
  /\ \E f \in [Nodes -> Callers] :
       held = [t \in Callers |-> {n \in Nodes : f[n] = t}]
  /\ calls = 0
  /\ content = <<>>

Push(t, n) ==
  /\ Start(t)
  /\ n \in held[t]
  /\ node' = [node EXCEPT ![t] = n]
  /\ old' = [old EXCEPT ![t] = head]
  /\ Goto(t, "link")
  /\ UNCHANGED <<head, next, new, held, content>>

PushLink(t) ==
  /\ pc[t] = "link"
  /\ next' = [next EXCEPT ![node[t]] = old[t].lo]
  /\ Goto(t, "pushCas")
  /\ UNCHANGED <<head, old, new, node, held, calls, content>>

PushCas(t) ==
  /\ pc[t] = "pushCas"
  /\ old[t] = head
  /\ head' = [lo |-> node[t], hi |-> old[t].hi + 1]
  /\ content' = <<node[t]>> \o content
  /\ held' = [held EXCEPT ![t] = @ \ {node[t]}]
  /\ Goto(t, "idle")
  /\ UNCHANGED <<next, old, new, node, calls>>

\* Mutant: the observed head is not taken over.
PushCasFails_KeepsOld(t) ==
  /\ pc[t] = "pushCas"
  /\ old[t] # head
  /\ Goto(t, "link")
  /\ UNCHANGED <<head, next, old, new, node, held, calls, content>>

\* A failed compare-exchange leaves the observed head in `old'.
PushCasFails(t) ==
  /\ pc[t] = "pushCas"
  /\ old[t] # head
  /\ old' = [old EXCEPT ![t] = head]
  /\ Goto(t, "link")
  /\ UNCHANGED <<head, next, new, node, held, calls, content>>

Pop(t) ==
  /\ Start(t)
  /\ old' = [old EXCEPT ![t] = head]
  /\ Goto(t, "read")
  /\ UNCHANGED <<head, next, new, node, held, content>>

PopEmpty(t) ==
  /\ pc[t] = "read"
  /\ old[t].lo = Nil
  /\ Goto(t, "idle")
  /\ UNCHANGED <<head, next, old, new, node, held, calls, content>>

\* The link of a node that may no longer be on the stack.
PopRead(t) ==
  /\ pc[t] = "read"
  /\ old[t].lo # Nil
  /\ new' = [new EXCEPT ![t] = next[old[t].lo]]
  /\ Goto(t, "popCas")
  /\ UNCHANGED <<head, next, old, node, held, calls, content>>

\* Mutant: only the pointer half of the head is compared.
PopCas_PointerOnly(t) ==
  /\ pc[t] = "popCas"
  /\ old[t].lo = head.lo
  /\ head' = [lo |-> new[t], hi |-> old[t].hi + 1]
  /\ content' = IF content = <<>> THEN content ELSE Tail(content)
  /\ held' = [held EXCEPT ![t] = @ \cup {old[t].lo}]
  /\ Goto(t, "idle")
  /\ UNCHANGED <<next, old, new, node, calls>>

PopCas(t) ==
  /\ pc[t] = "popCas"
  /\ old[t] = head
  /\ head' = [lo |-> new[t], hi |-> old[t].hi + 1]
  /\ content' = Tail(content)
  /\ held' = [held EXCEPT ![t] = @ \cup {old[t].lo}]
  /\ Goto(t, "idle")
  /\ UNCHANGED <<next, old, new, node, calls>>

\* Mutant: the link is not read again for the newly observed head.
PopCasFails_KeepsLink(t) ==
  /\ pc[t] = "popCas"
  /\ old[t] # head
  /\ old' = [old EXCEPT ![t] = head]
  /\ Goto(t, IF head.lo = Nil THEN "read" ELSE "popCas")
  /\ UNCHANGED <<head, next, new, node, held, calls, content>>

PopCasFails(t) ==
  /\ pc[t] = "popCas"
  /\ old[t] # head
  /\ old' = [old EXCEPT ![t] = head]
  /\ Goto(t, "read")
  /\ UNCHANGED <<head, next, new, node, held, calls, content>>

Finished == calls = MaxOps /\ (\A t \in Callers : pc[t] = "idle") /\ UNCHANGED vars

Step(t) ==
  \/ PushLink(t) \/ PushCas(t) \/ PushCasFails(t)
  \/ PopEmpty(t) \/ PopRead(t) \/ PopCas(t) \/ PopCasFails(t)

Next ==
  \/ \E t \in Callers : (\E n \in Nodes : Push(t, n)) \/ Pop(t) \/ Step(t)
  \/ Finished

Spec == Init /\ [][Next]_vars

\* Callers keep running.
FairSpec == Spec /\ \A t \in Callers : WF_vars(Step(t))

-----------------------------------------------------------------------------
(* Properties *)

Heads == [lo : Nodes \cup {Nil}, hi : Nat]

TypeOK ==
  /\ head \in Heads
  /\ next \in [Nodes -> Nodes \cup {Nil}]
  /\ pc \in [Callers -> {"idle", "link", "pushCas", "read", "popCas"}]
  /\ old \in [Callers -> Heads]
  /\ new \in [Callers -> Nodes \cup {Nil}]
  /\ node \in [Callers -> Nodes \cup {Nil}]
  /\ held \in [Callers -> SUBSET Nodes]
  /\ calls \in Nat
  /\ content \in Seq(Nodes)

\* The links form the stack: following `next' from the head visits exactly
\* what was pushed and not popped, newest first, and ends in NULL.  A
\* compare-exchange that succeeds on a stale link would break the chain.
StackShape ==
  /\ head.lo = IF content = <<>> THEN Nil ELSE content[1]
  /\ \A i \in 1 .. Len(content) :
       next[content[i]] = IF i < Len(content) THEN content[i + 1] ELSE Nil

\* Every node is in exactly one place: once on the stack, or with exactly one
\* thread.  A pool slot is never lost and never handed to two threads.
NodesConserved ==
  /\ \A i, j \in 1 .. Len(content) : content[i] = content[j] => i = j
  /\ \A t \in Callers : \A i \in 1 .. Len(content) : content[i] \notin held[t]
  /\ \A t, u \in Callers : t # u => held[t] \cap held[u] = {}
  /\ \A n \in Nodes : \/ \E i \in 1 .. Len(content) : content[i] = n
                      \/ \E t \in Callers : n \in held[t]

\* A push or pop whose head is the current head has a matching tag; any
\* change of the head since it was loaded shows in the tag.
TagsOrdered ==
  \A t \in Callers : pc[t] # "idle" =>
    /\ old[t].hi <= head.hi
    /\ old[t].hi = head.hi => old[t].lo = head.lo

\* What each thread knows about the links before its compare-exchange.
LinksKnown ==
  \A t \in Callers :
    /\ pc[t] \in {"link", "pushCas"} => node[t] \in held[t]
    /\ pc[t] = "pushCas" => next[node[t]] = old[t].lo
    /\ pc[t] = "popCas" => old[t].lo \in Nodes /\ (old[t] = head => new[t] = next[old[t].lo])

IInv == TypeOK /\ StackShape /\ NodesConserved /\ TagsOrdered /\ LinksKnown

\* Every call returns: a compare-exchange fails only because another call has
\* succeeded, and there are finitely many.
CallsReturn == \A t \in Callers : (pc[t] # "idle") ~> (pc[t] = "idle")
=============================================================================
