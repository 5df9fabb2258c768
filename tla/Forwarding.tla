---------------------------- MODULE Forwarding ----------------------------
(***************************************************************************)
(* What the send policy of att_propagation promises of one node and slot,  *)
(* without the counts, levels and passes that carry it out: a send is one  *)
(* step, to a peer that is not being sent to, of at most a message of what *)
(* is validated and scarcest among what the peer lacks; what a peer is     *)
(* taken to hold is only ever added to.  Abstract specification of         *)
(* SendScheduler.                                                          *)
(***************************************************************************)
EXTENDS Integers, FiniteSets

CONSTANTS
  Peer,
  Candidate,
  MaxAttsPerMessage,
  SendBudgetB         \* sends below which bitmap peers are served

VARIABLES
  validated,  \* what the node may send
  holds,      \* holds[p]: what p is taken to hold
  sent,       \* sent[p]: what of it was sent to p
  role,       \* mesh roles
  busy        \* peers being sent to

forwardVars == <<validated, holds, sent, role, busy>>

ForwardInit ==
  /\ validated = {}
  /\ holds = [p \in Peer |-> {}]
  /\ sent = [p \in Peer |-> {}]
  /\ role = [p \in Peer |-> "connected"]
  /\ busy = {}

HolderCount(c) == Cardinality({p \in Peer : c \in holds[p]})

Mesh(r) == {p \in Peer : role[p] = r}

(* Below this many holders a candidate is scarce enough for a bitmap peer. *)
ScarceLimit == Cardinality(Mesh("push")) + Cardinality(Mesh("bitmap")) \div 2 + 1

Validate(S) ==
  /\ validated' = validated \cup S
  /\ UNCHANGED <<holds, sent, role, busy>>

(* p says that it has S, by sending or by advertising it. *)
Learn(p, S) ==
  /\ holds' = [holds EXCEPT ![p] = @ \cup S]
  /\ UNCHANGED <<validated, sent, role, busy>>

(* Push peers always, bitmap peers with spare budget and only what is scarce. *)
Permitted(p, S) ==
  \/ role[p] = "push"
  \/ /\ role[p] = "bitmap"
     /\ Cardinality(busy) < SendBudgetB
     /\ \A c \in S : HolderCount(c) < ScarceLimit

Send(p, S) ==
  /\ p \notin busy
  /\ S # {} /\ S \subseteq validated \ holds[p]
  /\ Cardinality(S) <= MaxAttsPerMessage
  /\ Permitted(p, S)
  /\ \A c \in S, left \in validated \ (holds[p] \cup S) :
       HolderCount(c) <= HolderCount(left)
  /\ holds' = [holds EXCEPT ![p] = @ \cup S]
  /\ sent' = [sent EXCEPT ![p] = @ \cup S]
  /\ busy' = busy \cup {p}
  /\ UNCHANGED <<validated, role>>

(* A send to p ends, whatever became of it, and p may leave its mesh with it. *)
Release(p) ==
  /\ busy' = busy \ {p}
  /\ role' \in {role, [role EXCEPT ![p] = "connected"]}
  /\ UNCHANGED <<validated, holds, sent>>

ChangeRoles(roles) ==
  /\ role' = roles
  /\ UNCHANGED <<validated, holds, sent, busy>>

ForwardNext ==
  \/ \E S \in SUBSET Candidate : Validate(S)
  \/ \E p \in Peer, S \in SUBSET Candidate : Learn(p, S) \/ Send(p, S)
  \/ \E p \in Peer : Release(p)
  \/ \E roles \in [Peer -> {"connected", "push", "bitmap"}] : ChangeRoles(roles)

ForwardSpec == ForwardInit /\ [][ForwardNext]_forwardVars
=============================================================================
