--------------------------- MODULE Advertisement ---------------------------
(***************************************************************************)
(* What the bitmap streams of one node promise: what a peer has been told  *)
(* only grows, and is true.                                                *)
(***************************************************************************)
CONSTANTS Peer, Data, Position

VARIABLES
  valid,   \* valid[d]: positions of d this node has validated
  view     \* view[p][d]: positions of d that p takes this node to hold

adVars == <<valid, view>>

AdInit ==
  /\ valid = [d \in Data |-> {}]
  /\ view = [p \in Peer |-> [d \in Data |-> {}]]

(* A position is validated. *)
Validated(d, pos) ==
  /\ valid' = [valid EXCEPT ![d] = @ \cup {pos}]
  /\ UNCHANGED view

(* A peer learns of some of what is valid. *)
Learn(p) ==
  /\ view' \in [Peer -> [Data -> SUBSET Position]]
  /\ \A d \in Data : view[p][d] \subseteq view'[p][d] /\ view'[p][d] \subseteq valid[d]
  /\ \A q \in Peer \ {p} : view'[q] = view[q]
  /\ UNCHANGED valid

AdNext ==
  \/ \E d \in Data, pos \in Position : Validated(d, pos)
  \/ \E p \in Peer : Learn(p)

AdSpec == AdInit /\ [][AdNext]_adVars
=============================================================================
