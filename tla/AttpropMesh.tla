---------------------------- MODULE AttpropMesh ----------------------------
(***************************************************************************)
(* The push and bitmap meshes of one topic, of several nodes at once:      *)
(* node/attprop/mesh.go and its callers in eventloop.go.                   *)
(*                                                                         *)
(* Every node keeps a role for each of its peers and negotiates it with    *)
(* GRAFT and PRUNE on a control stream per direction, which keeps order.   *)
(* A control writer that is full drops the frame.  Between every two nodes *)
(* a stream set comes up once, at each end when its event loop gets to it, *)
(* and stays up.                                                           *)
(*                                                                         *)
(* Time is in the order of events only: a backoff is armed or it is over.  *)
(***************************************************************************)
EXTENDS Integers, Sequences, FiniteSets

CONSTANTS
  Node,
  Links,                             \* pairs {n, p} of nodes with a connection
  PushDlow, PushD, PushDhigh,        \* push mesh: trigger, target, cap
  BitmapDlow, BitmapD, BitmapDhigh,  \* bitmap mesh: trigger, target, cap
  WriterBuf                          \* control frames that fit between two nodes

ASSUME NodeAssumption == IsFiniteSet(Node)
ASSUME LinkAssumption == \A l \in Links : l \subseteq Node /\ Cardinality(l) = 2
ASSUME DegreeAssumption ==
  /\ PushDlow \in Nat /\ PushD \in Nat /\ PushDhigh \in Nat
  /\ BitmapDlow \in Nat /\ BitmapD \in Nat /\ BitmapDhigh \in Nat
  /\ PushDlow <= PushD /\ PushD <= PushDhigh
  /\ BitmapDlow <= BitmapD /\ BitmapD <= BitmapDhigh
ASSUME BufferAssumption == WriterBuf \in Nat \ {0}

Role == {"connected", "push", "bitmap"}

VARIABLES
  up,             \* up[n]: peers whose writers n has registered
  role,           \* role[n][p]: what p is to n
  pushBackoff,    \* pushBackoff[n]: peers n may not graft into its push mesh
  bitmapBackoff,  \* bitmapBackoff[n]: nor into its bitmap mesh
  control         \* control[n][p]: frames from n to p, sent and not handled

vars == <<up, role, pushBackoff, bitmapBackoff, control>>

(* A control frame carries at most one prune and one graft, in that order. *)
Mesh  == {"none", "push", "bitmap", "full"}
Frame == [prune : Mesh, graft : Mesh]
Graft(mesh) == [prune |-> "none", graft |-> mesh]
Prune(mesh) == [prune |-> mesh, graft |-> "none"]
Redirect    == [prune |-> "push", graft |-> "bitmap"]
NoReply     == [prune |-> "none", graft |-> "none"]

-----------------------------------------------------------------------------
(* Operators *)

InRole(roles, r) == {p \in DOMAIN roles : roles[p] = r}
Size(roles, r)   == Cardinality(InRole(roles, r))

(* The queue with a frame offered to it: a full one drops the frame. *)
TryEnqueue(queue, frame) ==
  IF Len(queue) < WriterBuf THEN Append(queue, frame) ELSE queue

(* n's control queues after frames[p] was sent to every p it is defined for.  A
   peer that is not up has no writer. *)
Sent(n, queues, frames) ==
  [p \in Node |-> IF p \in DOMAIN frames \cap up[n] THEN TryEnqueue(queues[p], frames[p])
                  ELSE queues[p]]

(* Mutant: one peer more than the cap. *)
RoleAfterGraftOneMore(roles, p, mesh) ==
  CASE mesh = "push" /\ Size(roles, "push") <= PushDhigh         -> "push"
    [] mesh = "push" /\ Size(roles, "push") > PushDhigh
                     /\ Size(roles, "bitmap") <= BitmapDhigh     -> "bitmap"
    [] mesh = "bitmap" /\ Size(roles, "bitmap") <= BitmapDhigh   -> "bitmap"
    [] OTHER                                                     -> roles[p]

(* What p is to a node after p asked to be grafted: the mesh it asked for if
   that has room; the bitmap mesh instead of a full push mesh. *)
RoleAfterGraft(roles, p, mesh) ==
  CASE mesh = "push" /\ Size(roles, "push") < PushDhigh         -> "push"
    [] mesh = "push" /\ Size(roles, "push") >= PushDhigh
                     /\ Size(roles, "bitmap") < BitmapDhigh     -> "bitmap"
    [] mesh = "bitmap" /\ Size(roles, "bitmap") < BitmapDhigh   -> "bitmap"
    [] OTHER                                                    -> roles[p]

(* Mutant: a full bitmap mesh redirects too, to the push mesh. *)
ReplyToGraftBack(roles, mesh) ==
  CASE mesh = "push" /\ Size(roles, "push") >= PushDhigh ->
         IF Size(roles, "bitmap") < BitmapDhigh THEN Redirect ELSE Prune("full")
    [] mesh = "bitmap" /\ Size(roles, "bitmap") >= BitmapDhigh ->
         [prune |-> "bitmap", graft |-> "push"]
    [] OTHER -> NoReply

(* Mutant: the peer is not told that it was redirected. *)
ReplyToGraftSilent(roles, mesh) ==
  CASE mesh = "push" /\ Size(roles, "push") >= PushDhigh
                     /\ Size(roles, "bitmap") >= BitmapDhigh -> Prune("full")
    [] mesh = "bitmap" /\ Size(roles, "bitmap") >= BitmapDhigh -> Prune("bitmap")
    [] OTHER -> NoReply

(* Silence accepts; a full mesh redirects or rejects. *)
ReplyToGraft(roles, mesh) ==
  CASE mesh = "push" /\ Size(roles, "push") >= PushDhigh ->
         IF Size(roles, "bitmap") < BitmapDhigh THEN Redirect ELSE Prune("full")
    [] mesh = "bitmap" /\ Size(roles, "bitmap") >= BitmapDhigh -> Prune("bitmap")
    [] OTHER -> NoReply

(* A prune of one mesh leaves the other alone; of both, it leaves neither. *)
RoleAfterPrune(roles, p, mesh) ==
  IF mesh = "full" \/ mesh = roles[p] THEN "connected" ELSE roles[p]

-----------------------------------------------------------------------------
(* Events of one node's loop *)

(* The stream set to p is registered: p starts as a connected peer. *)
PeerUp(n, p) ==
  /\ {n, p} \in Links
  /\ p \notin up[n]
  /\ up'   = [up EXCEPT ![n] = @ \cup {p}]
  /\ role' = [role EXCEPT ![n][p] = "connected"]
  /\ UNCHANGED <<pushBackoff, bitmapBackoff, control>>

(* A control frame from p: its prune, then its graft, then the reply. *)
ReceiveControl(n, p) ==
  LET frame  == Head(control[p][n])
      taken  == [control EXCEPT ![p][n] = Tail(@)]
      pruned == [role[n] EXCEPT ![p] = RoleAfterPrune(role[n], p, frame.prune)]
      reply  == ReplyToGraft(pruned, frame.graft)
      replies == [q \in {r \in {p} : reply # NoReply} |-> reply]
      armed(backoff, mesh) == IF frame.prune \in {mesh, "full"}
                              THEN [backoff EXCEPT ![n] = @ \cup {p}] ELSE backoff
  IN  /\ control[p][n] # <<>>
      /\ role' = [role EXCEPT ![n] =
                    [pruned EXCEPT ![p] = RoleAfterGraft(pruned, p, frame.graft)]]
      /\ pushBackoff'   = armed(pushBackoff, "push")
      /\ bitmapBackoff' = armed(bitmapBackoff, "bitmap")
      /\ control' = [taken EXCEPT ![n] = Sent(n, @, replies)]
      /\ UNCHANGED up

(* As many peers of a set as are wanted and there are.  The code takes them in
   the order of their identifiers; here any. *)
Pick(S, wanted) ==
  {T \in SUBSET S :
     \/ T = S /\ Cardinality(S) <= wanted
     \/ T = {} /\ wanted <= 0
     \/ Cardinality(T) = wanted /\ wanted < Cardinality(S)}

Shortage(size, Dlow, D) == IF size < Dlow THEN D - size ELSE 0

Among(n, roles, r)  == up[n] \cap InRole(roles, r)
Assign(roles, S, r) == [p \in DOMAIN roles |-> IF p \in S THEN r ELSE roles[p]]

(* Push top-up: fresh peers, and peers of the bitmap mesh once there are none. *)
FillPush(n, roles) ==
  LET fresh     == Among(n, roles, "connected") \ pushBackoff[n]
      promoting == Among(n, roles, "bitmap") \ pushBackoff[n]
      short     == Shortage(Size(roles, "push"), PushDlow, PushD)
  IN  UNION {{Assign(roles, F \cup P, "push") :
                P \in Pick(promoting, short - Cardinality(F))} : F \in Pick(fresh, short)}

(* Bitmap top-up: fresh peers only. *)
FillBitmap(n, roles) ==
  {Assign(roles, F, "bitmap") :
     F \in Pick(Among(n, roles, "connected") \ bitmapBackoff[n],
               Shortage(Size(roles, "bitmap"), BitmapDlow, BitmapD))}

Trim(n, roles, r, Dhigh) ==
  {Assign(roles, X, "connected") : X \in Pick(Among(n, roles, r), Size(roles, r) - Dhigh)}

(* Mesh maintenance: push top-up and trim, then bitmap top-up and trim; the
   grafts are sent before the prunes. *)
Heartbeat(n) ==
  \E filled \in FillPush(n, role[n]) :
  \E trimmed \in Trim(n, filled, "push", PushDhigh) :
  \E both \in FillBitmap(n, trimmed) :
  \E final \in Trim(n, both, "bitmap", BitmapDhigh) :
    LET changed(a, b) == {p \in Node : a[p] # b[p]}
        toPush    == changed(role[n], filled)
        toBitmap  == changed(trimmed, both)
        offPush   == changed(filled, trimmed)
        offBitmap == changed(both, final)
        grafts == [p \in toPush \cup toBitmap |->
                     Graft(IF p \in toPush THEN "push" ELSE "bitmap")]
        prunes == [p \in offPush \cup offBitmap |->
                     Prune(IF p \in offPush THEN "push" ELSE "bitmap")]
    IN  /\ role' = [role EXCEPT ![n] = final]
        /\ pushBackoff'   = [pushBackoff EXCEPT ![n] = @ \cup offPush]
        /\ bitmapBackoff' = [bitmapBackoff EXCEPT ![n] = @ \cup offBitmap]
        /\ control' = [control EXCEPT ![n] = Sent(n, Sent(n, @, grafts), prunes)]
        /\ UNCHANGED up

(* PruneBackoff has passed since p was pruned. *)
PushBackoffEnds(n, p) ==
  /\ p \in pushBackoff[n]
  /\ pushBackoff' = [pushBackoff EXCEPT ![n] = @ \ {p}]
  /\ UNCHANGED <<up, role, bitmapBackoff, control>>

BitmapBackoffEnds(n, p) ==
  /\ p \in bitmapBackoff[n]
  /\ bitmapBackoff' = [bitmapBackoff EXCEPT ![n] = @ \ {p}]
  /\ UNCHANGED <<up, role, pushBackoff, control>>

-----------------------------------------------------------------------------

Init ==
  /\ up = [n \in Node |-> {}]
  /\ role = [n \in Node |-> [p \in Node |-> "connected"]]
  /\ pushBackoff = [n \in Node |-> {}]
  /\ bitmapBackoff = [n \in Node |-> {}]
  /\ control = [n \in Node |-> [p \in Node |-> <<>>]]

Next ==
  \E n \in Node :
    \/ Heartbeat(n)
    \/ \E p \in Node : PeerUp(n, p)
    \/ \E p \in Node : ReceiveControl(n, p)
    \/ \E p \in pushBackoff[n] : PushBackoffEnds(n, p)
    \/ \E p \in bitmapBackoff[n] : BitmapBackoffEnds(n, p)

Spec == Init /\ [][Next]_vars

(* Stream sets come up at both ends, and frames are written, read and handled. *)
FairSpec ==
  /\ Spec
  /\ \A l \in Links : \A n \in l : \A p \in l \ {n} :
       WF_vars(PeerUp(n, p)) /\ WF_vars(ReceiveControl(n, p))

(* The heartbeat timer of every node goes on, and backoffs pass. *)
LiveSpec ==
  /\ FairSpec
  /\ \A n \in Node : WF_vars(Heartbeat(n))
  /\ \A n, p \in Node : WF_vars(PushBackoffEnds(n, p)) /\ WF_vars(BitmapBackoffEnds(n, p))

-----------------------------------------------------------------------------
(* Properties *)

TypeOK ==
  /\ up \in [Node -> SUBSET Node]
  /\ role \in [Node -> [Node -> Role]]
  /\ pushBackoff \in [Node -> SUBSET Node]
  /\ bitmapBackoff \in [Node -> SUBSET Node]
  /\ control \in [Node -> [Node -> Seq(Frame)]]
  /\ \A n, p \in Node : Len(control[n][p]) <= WriterBuf

(* The caps are hard: whatever grafts cross or are redirected, no mesh ever
   exceeds its Dhigh, so a heartbeat never has to prune. *)
DegreeBounds ==
  \A n \in Node : /\ Size(role[n], "push") <= PushDhigh
                  /\ Size(role[n], "bitmap") <= BitmapDhigh

Settled(n, p) == /\ p \in up[n] /\ n \in up[p]
                 /\ control[n][p] = <<>> /\ control[p][n] = <<>>

(* The meshes are symmetric (§B2a): when nothing is under way between two
   nodes, each is to the other what the other is to it. *)
SymmetricMeshes ==
  \A n, p \in Node : Settled(n, p) => role[n][p] = role[p][n]

Quiet == \A n, p \in Node : control[n][p] = <<>>

(* Negotiations end: but for new heartbeats, grafts, redirects and rejections
   are not answered for ever. *)
HeartbeatsStop == <>[][\A n \in Node : ~Heartbeat(n)]_vars
ExchangesEnd   == HeartbeatsStop => <>[]Quiet

(* Where the caps leave room for every peer of a tree, and no frame is lost,
   crossing and redirected grafts and late stream sets included, the meshes
   settle, and settle symmetric. *)
MeshesForm == <>[](Quiet /\ SymmetricMeshes)

(* The meshes are symmetric (§B2a), or the next heartbeats make them so: two
   nodes do not disagree for ever on what they are to each other. *)
SymmetryReturns == []<>SymmetricMeshes
=============================================================================
