--------------------------- MODULE SendScheduler ---------------------------
(***************************************************************************)
(* The send scheduler of one att_propagation manager, on top of the        *)
(* scarcity index of its active slot: node/attprop/eventloop.go.           *)
(*                                                                         *)
(* One event loop goroutine owns the state and dispatches one event at a   *)
(* time; nearly every event ends in trySelectAndSend, a pass over the      *)
(* peers in map order.  The pass is a loop here too (pass, todo), so that  *)
(* the per-peer sender goroutines, which take frames from their work       *)
(* channel, write them and post what happened, run in between; no other    *)
(* event is dispatched before the pass is over.                            *)
(*                                                                         *)
(* Posted events wait in counters, not in a queue: the goroutine that      *)
(* posts may be delayed as long as it likes, so they reach the loop in any *)
(* order.  Mesh roles are an input here.                                   *)
(***************************************************************************)
EXTENDS ScarcityIndex, Sequences

CONSTANTS
  SendBudgetB,     \* cfg.SendBudgetB: data sends below which bitmap peers are served
  ReadersPerPeer,  \* readers of a peer's stream set; each ends with a peerDownEvent
  MaxSessions      \* bound: stream sets that come up per peer

ASSUME BudgetAssumption  == SendBudgetB \in Nat
ASSUME SessionAssumption == ReadersPerPeer \in Nat \ {0} /\ MaxSessions \in Nat

Role == {"connected", "push", "bitmap"}

VARIABLES
  senders,            \* peers with a data sender
  role,               \* mesh roles; "connected" where the mesh knows nothing
  inFlight,           \* peers whose data sender is busy as far as the loop knows
  activeData,         \* busy data senders, as counted by the loop
  sentFull,           \* sentFull[p]: buckets whose full data went to p
  sendAllToPushMesh,  \* inside the first pass of a tick: partial chunks go out
  pass,               \* "idle", or the loop of trySelectAndSend being run
  todo                \* senders this loop has not visited

VARIABLES
  work,       \* work[p]: frames in the sender's channel, of capacity one
  writing,    \* writing[p]: the frame being written, as a sequence of at most one
  broken,     \* peers whose sender goroutine ended on a write error
  readers,    \* readers[p]: readers still running on p's stream set
  sessions,   \* sessions[p]: stream sets that came up so far
  sendDones,  \* sendDones[p]: posted sendDoneEvents
  peerDowns   \* peerDowns[p]: posted peerDownEvents

VARIABLES     \* history, read by the properties only
  spare,      \* busy senders that were given a frame as bitmap peers
  handed,     \* handed[p]: candidates given to p's sender, in any session
  known       \* known[p]: buckets whose full data was written to p's stream

schedVars  == <<senders, role, inFlight, activeData, sentFull, sendAllToPushMesh>>
passVars   == <<pass, todo>>
senderVars == <<work, writing, broken, readers, sessions, sendDones, peerDowns>>
historyVars == <<spare, handed, known>>
vars == <<slotVars, schedVars, passVars, senderVars, historyVars>>

-----------------------------------------------------------------------------
(* Operators *)

PeersInRole(r) == {p \in Peer : role[p] = r}

(* Exclusive: bitmap peers are served from the levels below it. *)
BitmapHolderLimit ==
  Cardinality(PeersInRole("push")) + Cardinality(PeersInRole("bitmap")) \div 2 + 1

(* selectForPeer has a chunk for p. *)
HasChunk(p, allowPartial, limit) ==
  \E D \in Draws(p, limit) : allowPartial \/ Cardinality(D) = MaxAttsPerMessage

(* dispatch ends in trySelectAndSend. *)
StartPass(up) == pass' = "push" /\ todo' = up

Idle == pass = "idle"

-----------------------------------------------------------------------------
(* Events that change the slot state *)

InboundData(p, d, P) ==
  /\ Idle
  /\ ReceiveBatch(p, d, P)
  /\ StartPass(senders)
  /\ UNCHANGED <<schedVars, senderVars, historyVars>>

InboundBitmap(p, d, P) ==
  /\ Idle
  /\ ReceiveAvailable(p, d, P)
  /\ StartPass(senders)
  /\ UNCHANGED <<schedVars, senderVars, historyVars>>

OnValidated(batch) ==
  /\ Idle
  /\ Validated(batch)
  /\ StartPass(senders)
  /\ UNCHANGED <<schedVars, senderVars, historyVars>>

OnPublishLocal(c) ==
  /\ Idle
  /\ PublishLocal(c)
  /\ StartPass(senders)
  /\ UNCHANGED <<schedVars, senderVars, historyVars>>

-----------------------------------------------------------------------------
(* Events that change who is served *)

(* A heartbeat or an inbound control frame: the mesh may give any role. *)
MeshChange(roles) ==
  /\ Idle
  /\ role' = roles
  /\ StartPass(senders)
  /\ UNCHANGED <<slotVars, senders, inFlight, activeData, sentFull,
                 sendAllToPushMesh, senderVars, historyVars>>

(* A new stream set.  If the peer is up already, the new set is reset, and
   its readers, which run already, end. *)
OnPeerUp(p) ==
  /\ Idle
  /\ sessions[p] < MaxSessions
  /\ sessions' = [sessions EXCEPT ![p] = @ + 1]
  /\ \/ /\ p \notin senders
        /\ senders' = senders \cup {p}
        /\ role'    = [role EXCEPT ![p] = "connected"]
        /\ readers' = [readers EXCEPT ![p] = ReadersPerPeer]
        /\ known'   = [known EXCEPT ![p] = {}]
        /\ UNCHANGED peerDowns
     \/ /\ p \in senders
        /\ peerDowns' = [peerDowns EXCEPT ![p] = @ + ReadersPerPeer]
        /\ UNCHANGED <<senders, role, readers, known>>
  /\ StartPass(senders \cup {p})
  /\ UNCHANGED <<slotVars, inFlight, activeData, sentFull, sendAllToPushMesh,
                 work, writing, broken, sendDones, spare, handed>>

(* Mutant: the charge stays on the account. *)
ReleaseBudgetForgotten(p) ==
  /\ inFlight' = inFlight \ {p}
  /\ spare'    = spare \ {p}
  /\ UNCHANGED activeData

(* p's send is over: its charge leaves the account, if there is one. *)
ReleaseBudget(p) ==
  /\ activeData' = activeData - (IF p \in inFlight THEN 1 ELSE 0)
  /\ inFlight'   = inFlight \ {p}
  /\ spare'      = spare \ {p}

(* Mutant: what went out in full on the old stream is remembered. *)
ForgetPeerButSentFull(p) ==
  /\ senders' = senders \ {p}
  /\ role'    = [role EXCEPT ![p] = "connected"]
  /\ UNCHANGED sentFull

ForgetPeer(p) ==
  /\ senders'  = senders \ {p}
  /\ role'     = [role EXCEPT ![p] = "connected"]
  /\ sentFull' = [sentFull EXCEPT ![p] = {}]

(* p's writers are closed and its streams reset: its readers end, and so does
   a sender with a frame still to write; each posts one more event. *)
ResetStreams(p) ==
  LET failing == p \in senders \ broken /\ work[p] \o writing[p] # <<>>
  IN  /\ peerDowns' = [peerDowns EXCEPT ![p] =
                         @ - 1 + readers[p] + (IF failing THEN 1 ELSE 0)]
      /\ readers'   = [readers EXCEPT ![p] = 0]
      /\ work'      = [work EXCEPT ![p] = <<>>]
      /\ writing'   = [writing EXCEPT ![p] = <<>>]
      /\ broken'    = broken \ {p}

(* The first peerDownEvent that finds the peer present tears it down; later
   ones find nothing to do.  What the peer is known to hold stays. *)
OnPeerDown(p) ==
  /\ Idle
  /\ peerDowns[p] > 0
  /\ ReleaseBudget(p)
  /\ ResetStreams(p)
  /\ ForgetPeer(p)
  /\ StartPass(senders \ {p})
  /\ UNCHANGED <<slotVars, sendAllToPushMesh, sessions, sendDones, handed, known>>

(* Mutant: the freed slot is not used before the next event. *)
OnSendDoneNoPass(p) ==
  /\ Idle
  /\ sendDones[p] > 0
  /\ sendDones' = [sendDones EXCEPT ![p] = @ - 1]
  /\ ReleaseBudget(p)
  /\ UNCHANGED <<slotVars, senders, role, sentFull, sendAllToPushMesh, passVars, work,
                 writing, broken, readers, sessions, peerDowns, handed, known>>

OnSendDone(p) ==
  /\ Idle
  /\ sendDones[p] > 0
  /\ sendDones' = [sendDones EXCEPT ![p] = @ - 1]
  /\ ReleaseBudget(p)
  /\ StartPass(senders)
  /\ UNCHANGED <<slotVars, senders, role, sentFull, sendAllToPushMesh, work, writing,
                 broken, readers, sessions, peerDowns, handed, known>>

(* Mutant: the tick does not flush partial chunks. *)
OnTickHolds ==
  /\ Idle
  /\ StartPass(senders)
  /\ UNCHANGED <<slotVars, schedVars, senderVars, historyVars>>

(* A tick flushes: two passes, partial push chunks included in the first. *)
OnTick ==
  /\ Idle
  /\ sendAllToPushMesh' = TRUE
  /\ StartPass(senders)
  /\ UNCHANGED <<slotVars, senders, role, inFlight, activeData, sentFull,
                 senderVars, historyVars>>

-----------------------------------------------------------------------------
(* trySelectAndSend *)

(* Mutant: a busy push peer is served too. *)
ServePushBusy(p) ==
  /\ pass = "push"
  /\ hand = NoChunk
  /\ p \in todo
  /\ todo' = todo \ {p}
  /\ \/ /\ role[p] = "push"
        /\ SelectOneChunkForPeer(p, sendAllToPushMesh, NoHolderCountLimit)
     \/ /\ \/ role[p] # "push"
           \/ ~HasChunk(p, sendAllToPushMesh, NoHolderCountLimit)
        /\ UNCHANGED slotVars
  /\ UNCHANGED <<schedVars, pass, senderVars, historyVars>>

(* One iteration of the push loop, exempt from the budget. *)
ServePush(p) ==
  /\ pass = "push"
  /\ hand = NoChunk
  /\ p \in todo
  /\ todo' = todo \ {p}
  /\ \/ /\ p \notin inFlight
        /\ role[p] = "push"
        /\ SelectOneChunkForPeer(p, sendAllToPushMesh, NoHolderCountLimit)
     \/ /\ \/ p \in inFlight
           \/ role[p] # "push"
           \/ ~HasChunk(p, sendAllToPushMesh, NoHolderCountLimit)
        /\ UNCHANGED slotVars
  /\ UNCHANGED <<schedVars, pass, senderVars, historyVars>>

PushLoopDone ==
  /\ pass = "push"
  /\ hand = NoChunk
  /\ todo = {}
  /\ pass' = "bitmap"
  /\ todo' = senders
  /\ UNCHANGED <<slotVars, schedVars, senderVars, historyVars>>

(* Mutant: the budget is not looked at again between two bitmap peers. *)
ServeBitmapOverBudget(p) ==
  /\ pass = "bitmap"
  /\ hand = NoChunk
  /\ p \in todo
  /\ todo' = todo \ {p}
  /\ \/ /\ p \notin inFlight
        /\ role[p] = "bitmap"
        /\ SelectOneChunkForPeer(p, TRUE, BitmapHolderLimit)
     \/ /\ \/ p \in inFlight
           \/ role[p] # "bitmap"
           \/ ~HasChunk(p, TRUE, BitmapHolderLimit)
        /\ UNCHANGED slotVars
  /\ UNCHANGED <<schedVars, pass, senderVars, historyVars>>

(* One iteration of the bitmap loop: spare budget, scarce candidates. *)
ServeBitmap(p) ==
  /\ pass = "bitmap"
  /\ hand = NoChunk
  /\ activeData < SendBudgetB
  /\ p \in todo
  /\ todo' = todo \ {p}
  /\ \/ /\ p \notin inFlight
        /\ role[p] = "bitmap"
        /\ SelectOneChunkForPeer(p, TRUE, BitmapHolderLimit)
     \/ /\ \/ p \in inFlight
           \/ role[p] # "bitmap"
           \/ ~HasChunk(p, TRUE, BitmapHolderLimit)
        /\ UNCHANGED slotVars
  /\ UNCHANGED <<schedVars, pass, senderVars, historyVars>>

BitmapLoopDone ==
  /\ pass = "bitmap"
  /\ hand = NoChunk
  /\ todo = {} \/ activeData >= SendBudgetB
  /\ IF sendAllToPushMesh THEN StartPass(senders) ELSE pass' = "idle" /\ todo' = {}
  /\ sendAllToPushMesh' = FALSE
  /\ UNCHANGED <<slotVars, senders, role, inFlight, activeData, sentFull,
                 senderVars, historyVars>>

(* The frame of a chunk: full data for the buckets new to the peer's stream. *)
Frame(p, C) == [cands |-> C, full |-> {c[1] : c \in C} \ sentFull[p]]

(* send: the chunk goes to the sender's channel ... *)
Enqueue ==
  LET p == hand.peer
      f == Frame(p, hand.cands)
  IN  /\ hand # NoChunk
      /\ work[p] = <<>>
      /\ HandOver
      /\ work'       = [work EXCEPT ![p] = <<f>>]
      /\ inFlight'   = inFlight \cup {p}
      /\ sentFull'   = [sentFull EXCEPT ![p] = @ \cup f.full]
      /\ activeData' = activeData + 1
      /\ spare'      = IF pass = "bitmap" THEN spare \cup {p} ELSE spare
      /\ handed'     = [handed EXCEPT ![p] = @ \cup hand.cands]
      /\ UNCHANGED <<senders, role, sendAllToPushMesh, passVars, writing, broken,
                     readers, sessions, sendDones, peerDowns, known>>

(* ... or, if that is full, back. *)
QueueFull ==
  /\ hand # NoChunk
  /\ work[hand.peer] # <<>>
  /\ RollbackChunk
  /\ UNCHANGED <<schedVars, passVars, senderVars, historyVars>>

-----------------------------------------------------------------------------
(* The sender goroutine and the readers of an up peer *)

Take(p) ==
  /\ p \notin broken
  /\ work[p] # <<>> /\ writing[p] = <<>>
  /\ writing' = [writing EXCEPT ![p] = work[p]]
  /\ work'    = [work EXCEPT ![p] = <<>>]
  /\ UNCHANGED <<slotVars, schedVars, passVars, broken, readers, sessions,
                 sendDones, peerDowns, historyVars>>

WriteSucceeds(p) ==
  /\ writing[p] # <<>>
  /\ writing'   = [writing EXCEPT ![p] = <<>>]
  /\ sendDones' = [sendDones EXCEPT ![p] = @ + 1]
  /\ known'     = [known EXCEPT ![p] = @ \cup Head(writing[p]).full]
  /\ UNCHANGED <<slotVars, schedVars, passVars, work, broken, readers, sessions,
                 peerDowns, spare, handed>>

WriteFails(p) ==
  /\ writing[p] # <<>>
  /\ writing'   = [writing EXCEPT ![p] = <<>>]
  /\ broken'    = broken \cup {p}
  /\ peerDowns' = [peerDowns EXCEPT ![p] = @ + 1]
  /\ UNCHANGED <<slotVars, schedVars, passVars, work, readers, sessions,
                 sendDones, historyVars>>

ReaderEnds(p) ==
  /\ readers[p] > 0
  /\ readers'   = [readers EXCEPT ![p] = @ - 1]
  /\ peerDowns' = [peerDowns EXCEPT ![p] = @ + 1]
  /\ UNCHANGED <<slotVars, schedVars, passVars, work, writing, broken, sessions,
                 sendDones, historyVars>>

-----------------------------------------------------------------------------

Init ==
  /\ SlotInit
  /\ senders = {}
  /\ role = [p \in Peer |-> "connected"]
  /\ inFlight = {}
  /\ activeData = 0
  /\ sentFull = [p \in Peer |-> {}]
  /\ sendAllToPushMesh = FALSE
  /\ pass = "idle"
  /\ todo = {}
  /\ work = [p \in Peer |-> <<>>]
  /\ writing = [p \in Peer |-> <<>>]
  /\ broken = {}
  /\ readers = [p \in Peer |-> 0]
  /\ sessions = [p \in Peer |-> 0]
  /\ sendDones = [p \in Peer |-> 0]
  /\ peerDowns = [p \in Peer |-> 0]
  /\ spare = {}
  /\ handed = [p \in Peer |-> {}]
  /\ known = [p \in Peer |-> {}]

SlotEvent ==
  \/ \E p \in Peer, d \in Data, P \in SUBSET Position \ {{}} : InboundData(p, d, P)
  \/ \E p \in Peer, d \in Data, P \in SUBSET Position \ {{}} : InboundBitmap(p, d, P)
  \/ \E batch \in inVerifier : OnValidated(batch)
  \/ \E c \in Candidate : OnPublishLocal(c)

PeerEvent ==
  \/ \E roles \in [Peer -> Role] : MeshChange(roles)
  \/ \E p \in Peer : OnPeerUp(p)
  \/ \E p \in Peer : OnPeerDown(p)
  \/ \E p \in Peer : OnSendDone(p)
  \/ OnTick

PassStep ==
  \/ \E p \in todo : ServePush(p)
  \/ PushLoopDone
  \/ \E p \in todo : ServeBitmap(p)
  \/ BitmapLoopDone
  \/ Enqueue
  \/ QueueFull

SenderStep(p) == Take(p) \/ WriteSucceeds(p) \/ WriteFails(p)

Next ==
  \/ SlotEvent
  \/ PeerEvent
  \/ PassStep
  \/ \E p \in Peer : SenderStep(p)
  \/ \E p \in Peer : ReaderEnds(p)

Spec == Init /\ [][Next]_vars

(* The loop runs its passes to the end and every posted event is dispatched
   (the channel is first in, first out, so other events do not overtake it
   for ever: strong fairness); ticks are posted for ever; a write ends. *)
Fairness ==
  /\ WF_vars(PassStep)
  /\ SF_vars(OnTick)
  /\ \A p \in Peer : SF_vars(OnSendDone(p)) /\ SF_vars(OnPeerDown(p))
  /\ \A p \in Peer : WF_vars(SenderStep(p))

FairSpec == Spec /\ Fairness

-----------------------------------------------------------------------------
(* Properties *)

FrameType == [cands : SUBSET Candidate, full : SUBSET Data]
AtMostOne(S) == {<<>>} \cup {<<x>> : x \in S}

SchedTypeOK ==
  /\ senders \subseteq Peer
  /\ role \in [Peer -> Role]
  /\ inFlight \subseteq Peer
  /\ activeData \in Nat
  /\ sentFull \in [Peer -> SUBSET Data]
  /\ sendAllToPushMesh \in BOOLEAN
  /\ pass \in {"idle", "push", "bitmap"}
  /\ todo \subseteq Peer
  /\ work \in [Peer -> AtMostOne(FrameType)]
  /\ writing \in [Peer -> AtMostOne(FrameType)]
  /\ broken \subseteq Peer
  /\ readers \in [Peer -> 0 .. ReadersPerPeer]
  /\ sessions \in [Peer -> 0 .. MaxSessions]
  /\ sendDones \in [Peer -> Nat]
  /\ peerDowns \in [Peer -> Nat]
  /\ spare \subseteq inFlight
  /\ handed \in [Peer -> SUBSET Candidate]
  /\ known \in [Peer -> SUBSET Data]

(* The budget account is right: activeData is the number of busy data senders,
   through completions, failures and tear-downs in any order, late ones of an
   earlier stream set included. *)
BudgetExact == inFlight \subseteq senders /\ activeData = Cardinality(inFlight)

(* Bitmap peers only get spare capacity: never more than SendBudgetB sends are
   under way that were started for bitmap peers, however roles, completions
   and tear-downs change in the meantime (§F1). *)
BitmapBudget == Cardinality(spare) <= SendBudgetB

(* An event of p is still to come, and a pass with it: its sender is busy, still
   has a frame of an earlier stream set, or ended on an error. *)
Awaited(p) ==
  \/ p \in inFlight \cup broken
  \/ work[p] # <<>> \/ writing[p] # <<>>
  \/ sendDones[p] > 0

(* When the loop waits for the next event, nothing sendable is left waiting
   with it, unless an event of that peer is to come: no push peer lacks a full
   chunk, and while there is budget no bitmap peer lacks anything known to be
   held by fewer peers than the limit (§F4). *)
NothingSendableWhenIdle ==
  Idle => \A p \in senders : ~Awaited(p) =>
    LET lacking == validated \ peerAvail[p]
    IN  /\ role[p] = "push" => Cardinality(lacking) < MaxAttsPerMessage
        /\ role[p] = "bitmap" /\ activeData < SendBudgetB =>
             \A c \in lacking : Cardinality(Holders(c)) >= BitmapHolderLimit

(* Strict one-in-flight flow control (§F1): a data sender never holds two
   frames, so its channel is never full when the loop hands one over. *)
StrictOneInFlight ==
  \A p \in Peer : Len(work[p]) + Len(writing[p]) <= 1

(* Nothing is given to a peer's sender twice, in any number of sessions; a
   roll-back is not a send. *)
NeverSentTwice ==
  [][\A p \in Peer :
       p \in inFlight' \ inFlight =>
         Head(work'[p]).cands \cap handed[p] = {}]_vars

(* A frame that names a bucket by its hash only follows, on the same stream,
   one that carried the full data, so the receiver can resolve it: across
   reconnects, roll-backs and completions reported late, for every frame that
   can still be written. *)
HashAfterFullData ==
  \A p \in Peer \ broken :
    LET pipe == writing[p] \o work[p]
    IN  \A i \in DOMAIN pipe : \A c \in pipe[i].cands :
          c[1] \in known[p] \cup UNION {pipe[j].full : j \in 1 .. i}

(* What p is taken to hold when the chunk in hand is left out, which is either
   handed to p's sender or taken back before any other event. *)
SettledAvail(p) == IF hand.peer = p THEN peerAvail[p] \ hand.cands ELSE peerAvail[p]

(* The policy is kept by the running loop: with counts and levels that change while
   several peers are served, a chunk committed before it is handed over, roll-backs,
   late completions and reconnects, each send is to an idle peer, within the budget,
   of the scarcest it lacks by who really holds what, and nothing a peer is taken to
   hold is forgotten. *)
Forwards == INSTANCE Forwarding WITH holds <- [p \in Peer |-> SettledAvail(p)],
                                     sent  <- handed,
                                     busy  <- inFlight
ForwardSpec == Forwards!ForwardSpec

(* Push peers receive all our data over time (§F3): whatever is validated is
   eventually counted as held by a peer that stays up in the push mesh; ticks
   flush what never fills a chunk. *)
PushPeersGetEverything ==
  \A p \in Peer, c \in Candidate :
    (c \in validated /\ p \in senders /\ role[p] = "push")
      ~> (c \in peerAvail[p] \/ p \notin senders \/ role[p] # "push")
=============================================================================
