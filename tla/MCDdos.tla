------------------------------- MODULE MCDdos -------------------------------
(* Small instances of Ddos for TLC. *)
EXTENDS Ddos, TLC

CONSTANTS a, b, c

\* Two addresses collide on slot 0, so one is displaced to slot 1.
Colliding == (a :> 0) @@ (b :> 0) @@ (c :> 1)

\* The two that share their home slot are interchangeable; c is watched.
Symmetry == Permutations({a, b})
=============================================================================
