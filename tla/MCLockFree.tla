----------------------------- MODULE MCLockFree -----------------------------
(***************************************************************************)
(* Two threads on one structure without a lock: the intrusive stack of     *)
(* LFStack (kind "lfstack"), or one of the containers of Shared.  The      *)
(* threads are not declared symmetric: the run checks liveness, for which  *)
(* symmetry is unsound.                                                    *)
(***************************************************************************)
EXTENDS LFStack, Shared

allVars == <<vars, kind, sh, loc>>

Unused ==
  /\ head = [lo |-> Nil, hi |-> 0] /\ next = [n \in Nodes |-> Nil]
  /\ pc = [t \in Callers |-> "idle"] /\ old = [t \in Callers |-> head]
  /\ new = [t \in Callers |-> Nil] /\ node = new
  /\ held = [t \in Callers |-> IF t = CHOOSE u \in Callers : TRUE THEN Nodes ELSE {}]
  /\ calls = 0 /\ content = <<>>

MCInit ==
  \/ Init /\ kind = "lfstack" /\ sh = Null /\ loc = [t \in Threads |-> Idle]
  \/ Unused /\ SharedInit

MCNext ==
  \/ kind = "lfstack" /\ Next /\ UNCHANGED <<kind, sh, loc>>
  \/ kind # "lfstack" /\ SharedNext /\ UNCHANGED vars

MCSpec == MCInit /\ [][MCNext]_allVars

\* Threads keep running.
MCFairSpec ==
  MCSpec /\ \A t \in Callers : WF_allVars(kind = "lfstack" /\ Step(t) /\ UNCHANGED <<kind, sh, loc>>)
=============================================================================
