--------------------------- MODULE Dissemination ---------------------------
(***************************************************************************)
(* What forwarding attestations comes to, whatever the strategy: in one    *)
(* slot, a node comes to hold attestations that somebody published, passes *)
(* each through verification once, and is through with all of them when    *)
(* its slot ends.  Abstract specification of PartialMessages.              *)
(***************************************************************************)
CONSTANTS
  Node,
  Fanout,   \* nodes that only publish
  Own       \* Own[n]: the attestations n may publish

VARIABLES
  published,  \* published[n]: what n published
  held,       \* held[n]: what n has
  validated,  \* validated[n]: what of it is verified, or its own
  ended       \* nodes that have ended the slot

dissVars == <<published, held, validated, ended>>

DissInit ==
  /\ published = [n \in Node |-> {}]
  /\ held = [n \in Node |-> {}]
  /\ validated = [n \in Node |-> {}]
  /\ ended = {}

Everything == UNION {published[n] : n \in Node}

(* A node's own attestation needs no verification, unless it came from another
   node before and is with the verifier. *)
Publish(n, x) ==
  /\ n \notin ended /\ x \in Own[n] \ published[n]
  /\ published' = [published EXCEPT ![n] = @ \cup {x}]
  /\ IF n \in Fanout \/ x \in held[n]
     THEN UNCHANGED <<held, validated>>
     ELSE /\ held' = [held EXCEPT ![n] = @ \cup {x}]
          /\ validated' = [validated EXCEPT ![n] = @ \cup {x}]
  /\ UNCHANGED ended

(* Only what was published comes, and it comes once. *)
Receive(n, S) ==
  /\ n \notin ended /\ S \subseteq Everything \ held[n]
  /\ held' = [held EXCEPT ![n] = @ \cup S]
  /\ UNCHANGED <<published, validated, ended>>

(* Verification has a result once. *)
Verify(n, S) ==
  /\ n \notin ended /\ S \subseteq held[n] \ validated[n]
  /\ validated' = [validated EXCEPT ![n] = @ \cup S]
  /\ UNCHANGED <<published, held, ended>>

End(n) ==
  /\ n \notin ended
  /\ ended' = ended \cup {n}
  /\ held' = [held EXCEPT ![n] = {}]
  /\ validated' = [validated EXCEPT ![n] = {}]
  /\ UNCHANGED published

DissNext ==
  \E n \in Node :
    \/ \E x \in Own[n] : Publish(n, x)
    \/ \E S \in SUBSET Everything : Receive(n, S) \/ Verify(n, S)
    \/ End(n)

DissSpec == DissInit /\ [][DissNext]_dissVars
=============================================================================
