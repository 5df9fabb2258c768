----------------------------- MODULE VerifyGate -----------------------------
(***************************************************************************)
(* What a batch verifier promises its users, whatever it does inside: a    *)
(* first-in, first-out gate.  Items enter in some order and are released,  *)
(* each at most once, in that order.  Abstract specification of Verifier.  *)
(***************************************************************************)
EXTENDS Integers, Sequences

CONSTANT Item

VARIABLES
  entered,   \* items in the order in which they were submitted
  released   \* items in the order in which they were released

gateVars == <<entered, released>>

GateInit ==
  /\ entered = <<>>
  /\ released = <<>>

Enter(i) ==
  /\ entered' = Append(entered, i)
  /\ UNCHANGED released

Release ==
  /\ Len(released) < Len(entered)
  /\ released' = Append(released, entered[Len(released) + 1])
  /\ UNCHANGED entered

GateNext == (\E i \in Item : Enter(i)) \/ Release

GateSpec == GateInit /\ [][GateNext]_gateVars
=============================================================================
