-------------------------- MODULE MCScarcityIndex --------------------------
(* A small instance of ScarcityIndex: peers, buckets and positions are
   interchangeable, so the states are taken modulo their permutations. *)
EXTENDS ScarcityIndex, TLC

Symmetry == Permutations(Peer) \cup Permutations(Position) \cup Permutations(Data)
=============================================================================
