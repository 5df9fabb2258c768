------------------------- MODULE MCPartialMessages -------------------------
(* Small instances of PartialMessages: a node that gossips with the two of a
   mesh; a node between two mesh peers, one of them with a fanout node. *)
EXTENDS PartialMessages, TLC

CONSTANTS a, b, c, f, d

Link == {{a, b}}
Star == {{a, b}, {a, c}}

Nowhere == [n \in {} |-> {}]
ToB     == [n \in {f} |-> {b}]

OneAttestation    == [n \in Node |-> IF n = a THEN {<<d, 1>>} ELSE {}]
ThreeAttestations ==
  [n \in Node |-> CASE n = a -> {<<d, 1>>, <<d, 2>>} [] n = f -> {<<d, 3>>} [] OTHER -> {}]
=============================================================================
