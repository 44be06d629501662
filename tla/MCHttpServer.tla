---------------------------- MODULE MCHttpServer ----------------------------
(***************************************************************************)
(* The server, or its pool without a server: in the second kind of         *)
(* behaviour the threads make any calls of scl_tcp_pool in any order.      *)
(* Threads and slots are not declared symmetric: the run checks liveness,  *)
(* for which symmetry is unsound.                                          *)
(***************************************************************************)
EXTENDS HttpServer

serverVars == <<running, started, sem, asleep, at, tmp, open, ctl, arrivals>>

NoServer ==
  /\ running = FALSE /\ started = FALSE
  /\ sem = 0 /\ asleep = {}
  /\ at = [t \in Threads |-> "none"]
  /\ tmp = FALSE /\ open = 0
  /\ main = "gone" /\ tojoin = <<>> /\ call = "destroy"
  /\ starts = 0 /\ arrivals = 0 /\ badJoin = FALSE /\ failed = FALSE

MCInit == Init \/ (InitPool /\ NoServer)

MCNext == Next \/ (main = "gone" /\ NextPool /\ UNCHANGED serverVars)

MCSpec == MCInit /\ [][MCNext]_vars /\ Fairness
=============================================================================
