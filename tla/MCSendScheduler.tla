-------------------------- MODULE MCSendScheduler --------------------------
(* Small instances of SendScheduler; peers and positions are interchangeable. *)
EXTENDS SendScheduler, TLC

Symmetry == Permutations(Peer) \cup Permutations(Position)
=============================================================================
