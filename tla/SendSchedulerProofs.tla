------------------------ MODULE SendSchedulerProofs ------------------------
(***************************************************************************)
(* Proofs about SendScheduler, for any peers, buckets, positions, chunk    *)
(* size, budget, and number of stream sets.                                *)
(*                                                                         *)
(* The scheduler changes the slot's state through the operations of the    *)
(* scarcity index only, so the invariant of the index carries over to it.  *)
(* With the index at hand, the invariant of the scheduler's own state: who *)
(* may be handed a chunk (HandInv), the budget account (AccountInv), what  *)
(* was handed over before (HandedInv), what a frame may name by its hash   *)
(* (PipeInv), what a loop leaves behind (WaitInv), and why a chunk in hand *)
(* may be sent (HandScarce), from which the scheduler is shown to          *)
(* implement the send policy, Forwarding.                                  *)
(***************************************************************************)
EXTENDS SendScheduler, ScarcityIndexProofs, SequenceTheorems

-----------------------------------------------------------------------------
(* The loop, and the invariant of the index *)

(* A loop only ever visits peers that are up; the other variables that decide
   what it draws keep their types. *)
LoopInv ==
  /\ senders \subseteq Peer
  /\ role \in [Peer -> Role]
  /\ sendAllToPushMesh \in BOOLEAN
  /\ pass \in {"idle", "push", "bitmap"}
  /\ todo \subseteq senders

(* A new manager has no peers and its loop is idle. *)
LEMMA InitLoopInv == Init => LoopInv
BY DEF Init, LoopInv, Role

(* Peers come and go only when no loop is being run, and each time a new loop
   over the peers that are left begins. *)
LEMMA NextLoopInv == LoopInv /\ [Next]_vars => LoopInv'
<1> SUFFICES ASSUME LoopInv, [Next]_vars PROVE LoopInv'
  OBVIOUS
<1> USE DEF LoopInv, Role
<1>1. CASE SlotEvent
  BY <1>1 DEF SlotEvent, InboundData, InboundBitmap, OnValidated, OnPublishLocal,
              StartPass, schedVars
<1>2. ASSUME NEW roles \in [Peer -> Role], MeshChange(roles) PROVE LoopInv'
  BY <1>2 DEF MeshChange, StartPass
<1>3. ASSUME NEW p \in Peer, OnPeerUp(p) PROVE LoopInv'
  BY <1>3 DEF OnPeerUp, StartPass
<1>4. ASSUME NEW p \in Peer, OnPeerDown(p) PROVE LoopInv'
  BY <1>4 DEF OnPeerDown, ForgetPeer, StartPass
<1>5. ASSUME NEW p \in Peer, OnSendDone(p) PROVE LoopInv'
  BY <1>5 DEF OnSendDone, StartPass
<1>6. CASE OnTick
  BY <1>6 DEF OnTick, StartPass
<1>7. CASE PassStep
  BY <1>7 DEF PassStep, ServePush, PushLoopDone, ServeBitmap, BitmapLoopDone, Enqueue,
              QueueFull, StartPass, schedVars, passVars
<1>8. ASSUME NEW p \in Peer, SenderStep(p) \/ ReaderEnds(p) PROVE LoopInv'
  BY <1>8 DEF SenderStep, Take, WriteSucceeds, WriteFails, ReaderEnds, schedVars, passVars
<1>9. CASE UNCHANGED vars
  BY <1>9 DEF vars, schedVars, passVars
<1> QED
  BY <1>1, <1>2, <1>3, <1>4, <1>5, <1>6, <1>7, <1>8, <1>9 DEF Next, PeerEvent

(* mesh.go counts a peer in one mesh at most, so the limit for bitmap peers is
   one of the limits the index is specified for. *)
LEMMA BitmapHolderLimitType ==
  ASSUME LoopInv
  PROVE  BitmapHolderLimit \in HolderCountLimit
<1> DEFINE push   == PeersInRole("push")
           bitmap == PeersInRole("bitmap")
<1>1. IsFiniteSet(Peer) /\ push \subseteq Peer /\ bitmap \subseteq Peer
      /\ push \cap bitmap = {}
  BY PeerAssumption DEF PeersInRole
<1>2. IsFiniteSet(push) /\ IsFiniteSet(bitmap) /\ IsFiniteSet(push \cup bitmap)
  BY <1>1, FS_Subset, FS_Union
<1>3. Cardinality(push \cup bitmap) <= Cardinality(Peer)
  BY <1>1, FS_Subset
<1>4. Cardinality(push \cup bitmap) = Cardinality(push) + Cardinality(bitmap)
  <2>1. Cardinality(push \cap bitmap) = 0
    BY <1>1, FS_EmptySet
  <2>2. Cardinality(push \cup bitmap)
          = Cardinality(push) + Cardinality(bitmap) - Cardinality(push \cap bitmap)
    BY <1>2, FS_Union
  <2> QED BY <1>2, <2>1, <2>2, FS_CardinalityType
<1>5. Cardinality(push) \in Nat /\ Cardinality(bitmap) \in Nat /\ Cardinality(Peer) \in Nat
  BY <1>1, <1>2, FS_CardinalityType
<1>6. \A n \in Nat : n \div 2 \in Nat /\ n \div 2 <= n
  OBVIOUS
<1>7. Cardinality(bitmap) \div 2 \in Nat /\ Cardinality(bitmap) \div 2 <= Cardinality(bitmap)
  BY <1>5, <1>6
<1> HIDE DEF push, bitmap
<1>8. Cardinality(push) + Cardinality(bitmap) \div 2 + 1 \in 1 .. Cardinality(Peer) + 1
  BY <1>3, <1>4, <1>5, <1>7
<1> QED BY <1>8 DEF push, bitmap, BitmapHolderLimit, HolderCountLimit

(* Whatever the scheduler does is an operation of the index or leaves the
   slot's state alone. *)
LEMMA StepOfIndex == LoopInv /\ [Next]_vars => [SlotNext]_slotVars
<1> SUFFICES ASSUME LoopInv, [Next]_vars PROVE SlotNext \/ UNCHANGED slotVars
  OBVIOUS
<1>1. CASE SlotEvent
  BY <1>1 DEF SlotEvent, InboundData, InboundBitmap, OnValidated, OnPublishLocal, SlotNext
<1>2. CASE PeerEvent
  BY <1>2 DEF PeerEvent, MeshChange, OnPeerUp, OnPeerDown, OnSendDone, OnTick
<1>3. ASSUME NEW p \in todo, ServePush(p) PROVE SlotNext \/ UNCHANGED slotVars
  <2>1. p \in Peer /\ sendAllToPushMesh \in BOOLEAN
        /\ NoHolderCountLimit \in HolderCountLimit
    BY DEF LoopInv, HolderCountLimit
  <2> QED BY <1>3, <2>1 DEF ServePush, SlotNext
<1>4. ASSUME NEW p \in todo, ServeBitmap(p) PROVE SlotNext \/ UNCHANGED slotVars
  <2>1. p \in Peer /\ TRUE \in BOOLEAN /\ BitmapHolderLimit \in HolderCountLimit
    BY BitmapHolderLimitType DEF LoopInv
  <2> QED BY <1>4, <2>1 DEF ServeBitmap, SlotNext
<1>5. CASE PushLoopDone \/ BitmapLoopDone \/ Enqueue \/ QueueFull
  BY <1>5 DEF PushLoopDone, BitmapLoopDone, Enqueue, QueueFull, SlotNext
<1>6. ASSUME NEW p \in Peer, SenderStep(p) \/ ReaderEnds(p) PROVE UNCHANGED slotVars
  BY <1>6 DEF SenderStep, Take, WriteSucceeds, WriteFails, ReaderEnds
<1>7. CASE UNCHANGED vars
  BY <1>7 DEF vars
<1> QED BY <1>1, <1>2, <1>3, <1>4, <1>5, <1>6, <1>7 DEF Next, PassStep

(* The loop's variables keep their types and a loop only visits peers that are
   up. *)
THEOREM LoopIsSound == Spec => []LoopInv
BY InitLoopInv, NextLoopInv, PTL DEF Spec

(* What the steps say together: a behaviour of the scheduler is one of the index,
   which is how what is proved of the index carries over. *)
LEMMA BehavesAsIndex == Spec => SlotSpec
<1>1. Init => SlotInit
  BY DEF Init
<1> QED BY <1>1, StepOfIndex, LoopIsSound, PTL DEF Spec, SlotSpec

(* The index is consistent in every reachable state of the scheduler. *)
THEOREM IndexOfScheduler == Spec => []IndexInv
BY BehavesAsIndex, IndexConsistent, PTL

-----------------------------------------------------------------------------
(* The chunk in hand and the budget account *)

(* A chunk is only in hand inside a loop, for a peer that is up and idle; a
   chunk for a bitmap peer only while there is budget. *)
HandInv ==
  hand # NoChunk =>
    /\ pass # "idle"
    /\ hand.peer \in senders \ inFlight
    /\ pass = "bitmap" => activeData < SendBudgetB

(* Every busy sender is charged once, those given a frame as bitmap peers
   within the budget. *)
AccountInv ==
  /\ BudgetExact
  /\ spare \subseteq inFlight
  /\ BitmapBudget

BudgetInv == LoopInv /\ HandInv /\ AccountInv

(* Releasing a peer's charge keeps the account exact whether or not there is
   one: a late or repeated completion finds nothing to release. *)
LEMMA ReleaseKeepsAccount ==
  ASSUME NEW p \in Peer, LoopInv, AccountInv, ReleaseBudget(p),
         senders' = senders \/ senders' = senders \ {p}
  PROVE  AccountInv'
<1>1. IsFiniteSet(Peer) /\ inFlight \subseteq Peer /\ spare \subseteq Peer
  BY PeerAssumption DEF LoopInv, AccountInv, BudgetExact
<1>2. IsFiniteSet(inFlight) /\ IsFiniteSet(spare)
  BY <1>1, FS_Subset
<1>3. Cardinality(inFlight \ {p}) =
        IF p \in inFlight THEN Cardinality(inFlight) - 1 ELSE Cardinality(inFlight)
  BY <1>2, FS_RemoveElement
<1>4. Cardinality(inFlight) \in Nat /\ Cardinality(spare) \in Nat
  BY <1>2, FS_CardinalityType
<1>5. BudgetExact'
  BY <1>3, <1>4 DEF ReleaseBudget, AccountInv, BudgetExact
<1>6. Cardinality(spare \ {p}) <= Cardinality(spare) /\ Cardinality(spare \ {p}) \in Nat
  BY <1>2, FS_Subset, FS_CardinalityType
<1>7. BitmapBudget'
  BY <1>4, <1>6, BudgetAssumption DEF ReleaseBudget, AccountInv, BitmapBudget
<1> QED BY <1>5, <1>7 DEF ReleaseBudget, AccountInv

(* Charging an idle peer keeps it exact; a bitmap peer is only charged while
   fewer than SendBudgetB senders are busy, so those serving bitmap peers stay
   within the budget. *)
LEMMA EnqueueKeepsAccount ==
  ASSUME BudgetInv, Enqueue
  PROVE  AccountInv'
<1> DEFINE p == hand.peer
<1>1. p \in senders \ inFlight /\ (pass = "bitmap" => activeData < SendBudgetB)
  BY DEF BudgetInv, HandInv, Enqueue
<1>2. IsFiniteSet(inFlight)
  BY PeerAssumption, FS_Subset DEF BudgetInv, LoopInv, AccountInv, BudgetExact
<1>3. Cardinality(inFlight \cup {p}) = Cardinality(inFlight) + 1
      /\ Cardinality(inFlight) \in Nat
  BY <1>1, <1>2, FS_AddElement, FS_CardinalityType
<1>4. inFlight' = inFlight \cup {p} /\ activeData' = activeData + 1
      /\ senders' = senders
      /\ spare' = IF pass = "bitmap" THEN spare \cup {p} ELSE spare
  BY DEF Enqueue
<1>5. BudgetExact'
  BY <1>1, <1>3, <1>4 DEF BudgetInv, AccountInv, BudgetExact
<1>6. BitmapBudget'
  <2>1. CASE pass = "bitmap"
    <3>1. spare \cup {p} \subseteq inFlight \cup {p} /\ IsFiniteSet(inFlight \cup {p})
      BY <1>2, FS_AddElement DEF BudgetInv, AccountInv
    <3>2. Cardinality(spare \cup {p}) <= Cardinality(inFlight \cup {p})
          /\ Cardinality(spare \cup {p}) \in Nat
      BY <3>1, FS_Subset, FS_CardinalityType
    <3>3. Cardinality(inFlight) = activeData
      BY DEF BudgetInv, AccountInv, BudgetExact
    <3> QED BY <2>1, <1>1, <1>3, <1>4, <3>2, <3>3, BudgetAssumption DEF BitmapBudget
  <2>2. CASE pass # "bitmap"
    BY <2>2, <1>4 DEF BudgetInv, AccountInv, BitmapBudget
  <2> QED BY <2>1, <2>2
<1> QED BY <1>1, <1>4, <1>5, <1>6 DEF BudgetInv, AccountInv

(* A new manager has no sends under way. *)
LEMMA InitBudgetInv == Init => BudgetInv
<1> SUFFICES ASSUME Init PROVE BudgetInv
  OBVIOUS
<1>1. LoopInv
  BY InitLoopInv
<1>2. Cardinality({}) = 0
  BY FS_EmptySet
<1>3. AccountInv
  BY <1>2, BudgetAssumption DEF Init, AccountInv, BudgetExact, BitmapBudget
<1>4. HandInv
  BY DEF Init, SlotInit, HandInv
<1> QED BY <1>1, <1>3, <1>4 DEF BudgetInv

(* The steps that leave the account alone, or hand a chunk out. *)
LEMMA NextBudgetInv == BudgetInv /\ [Next]_vars => BudgetInv'
<1> SUFFICES ASSUME BudgetInv, [Next]_vars PROVE BudgetInv'
  OBVIOUS
<1>1. LoopInv /\ LoopInv' /\ HandInv /\ AccountInv
  BY NextLoopInv DEF BudgetInv
<1>2. ASSUME UNCHANGED <<senders, inFlight, activeData, spare>> PROVE AccountInv'
  BY <1>1, <1>2 DEF AccountInv, BudgetExact, BitmapBudget
<1>3. CASE SlotEvent
  <2>1. hand' = NoChunk /\ UNCHANGED <<senders, inFlight, activeData, spare>>
    BY <1>3 DEF SlotEvent, InboundData, InboundBitmap, OnValidated, OnPublishLocal,
                ReceiveBatch, ReceiveAvailable, Validated, PublishLocal, MarkHolders,
                schedVars, historyVars, NoChunk
  <2> QED BY <1>1, <1>2, <2>1 DEF BudgetInv, HandInv, NoChunk
<1>4. CASE PeerEvent
  <2>1. hand' = NoChunk
    BY <1>1, <1>4 DEF PeerEvent, MeshChange, OnPeerUp, OnPeerDown, OnSendDone, OnTick,
                      Idle, HandInv, slotVars
  <2>2. AccountInv'
    <3>1. ASSUME NEW p \in Peer, OnPeerUp(p) PROVE AccountInv'
      BY <1>1, <3>1 DEF OnPeerUp, AccountInv, BudgetExact, BitmapBudget
    <3>2. ASSUME NEW p \in Peer, OnPeerDown(p) PROVE AccountInv'
      BY <1>1, <3>2, ReleaseKeepsAccount DEF OnPeerDown, ForgetPeer
    <3>3. ASSUME NEW p \in Peer, OnSendDone(p) PROVE AccountInv'
      BY <1>1, <3>3, ReleaseKeepsAccount DEF OnSendDone
    <3>4. ASSUME OnTick \/ \E roles \in [Peer -> Role] : MeshChange(roles)
          PROVE AccountInv'
      BY <1>2, <3>4 DEF OnTick, MeshChange, historyVars
    <3> QED BY <1>4, <3>1, <3>2, <3>3, <3>4 DEF PeerEvent
  <2> QED BY <1>1, <2>1, <2>2 DEF BudgetInv, HandInv, NoChunk
<1>5. ASSUME NEW p \in todo, ServePush(p) \/ ServeBitmap(p) PROVE BudgetInv'
  <2>1. UNCHANGED <<senders, inFlight, activeData, spare, pass>> /\ p \in senders
    BY <1>1, <1>5 DEF ServePush, ServeBitmap, schedVars, historyVars, LoopInv
  <2>2. CASE hand' = NoChunk
    BY <1>1, <1>2, <2>1, <2>2 DEF BudgetInv, HandInv, NoChunk
  <2>3. CASE hand' # NoChunk
    <3>1. hand'.peer = p /\ p \notin inFlight /\ pass # "idle"
          /\ (pass = "bitmap" => activeData < SendBudgetB)
      <4>1. CASE ServePush(p)
        BY <2>3, <4>1 DEF ServePush, SelectOneChunkForPeer, slotVars, NoChunk
      <4>2. CASE ServeBitmap(p)
        <5>1. pass = "bitmap" /\ activeData < SendBudgetB
          BY <4>2, Zenon DEF ServeBitmap
        <5>2. p \notin inFlight /\ SelectOneChunkForPeer(p, TRUE, BitmapHolderLimit)
          BY <2>3, <4>2, Zenon DEF ServeBitmap, slotVars
        <5>3. hand'.peer = p
          BY <5>2 DEF SelectOneChunkForPeer
        <5> QED BY <5>1, <5>2, <5>3
      <4> QED BY <1>5, <4>1, <4>2
    <3> QED BY <1>1, <1>2, <2>1, <3>1 DEF BudgetInv, HandInv, NoChunk
  <2> QED BY <2>2, <2>3
<1>6. CASE PushLoopDone \/ BitmapLoopDone
  <2>1. hand' = NoChunk /\ UNCHANGED <<senders, inFlight, activeData, spare>>
    BY <1>6 DEF PushLoopDone, BitmapLoopDone, slotVars, schedVars, historyVars, NoChunk
  <2> QED BY <1>1, <1>2, <2>1 DEF BudgetInv, HandInv, NoChunk
<1>7. CASE Enqueue
  BY <1>1, <1>7, EnqueueKeepsAccount DEF BudgetInv, HandInv, Enqueue, HandOver, NoChunk
<1>8. CASE QueueFull
  <2>1. hand' = NoChunk /\ UNCHANGED <<senders, inFlight, activeData, spare>>
    BY <1>8 DEF QueueFull, RollbackChunk, schedVars, historyVars, NoChunk
  <2> QED BY <1>1, <1>2, <2>1 DEF BudgetInv, HandInv, NoChunk
<1>9. ASSUME \/ \E p \in Peer : SenderStep(p) \/ ReaderEnds(p)
             \/ UNCHANGED vars
      PROVE  BudgetInv'
  <2>1. UNCHANGED <<hand, senders, inFlight, activeData, spare, pass>>
    BY <1>9 DEF SenderStep, Take, WriteSucceeds, WriteFails, ReaderEnds, vars, slotVars,
                schedVars, passVars, historyVars
  <2> QED BY <1>1, <1>2, <2>1 DEF BudgetInv, HandInv, NoChunk
<1> QED BY <1>3, <1>4, <1>5, <1>6, <1>7, <1>8, <1>9 DEF Next, PassStep

(* eventloop.go's account, whatever arrives in whatever order: chunks are only
   handed to idle peers that are up, and every busy sender is charged once. *)
THEOREM BudgetInvariant == Spec => []BudgetInv
BY InitBudgetInv, NextBudgetInv, PTL DEF Spec

(* activeData is the number of busy senders, through completions, failures and
   tear-downs, late ones of an earlier stream set included. *)
THEOREM BudgetIsExact == Spec => []BudgetExact
<1>1. BudgetInv => BudgetExact
  BY DEF BudgetInv, AccountInv
<1> QED BY <1>1, BudgetInvariant, PTL

(* Never more than SendBudgetB sends started for bitmap peers are under way. *)
THEOREM BitmapBudgetHolds == Spec => []BitmapBudget
<1>1. BudgetInv => BitmapBudget
  BY DEF BudgetInv, AccountInv
<1> QED BY <1>1, BudgetInvariant, PTL

-----------------------------------------------------------------------------
(* Types *)

(* What types alone leave to show once the account is known. *)
SenderTypes ==
  /\ sentFull \in [Peer -> SUBSET Data]
  /\ work \in [Peer -> AtMostOne(FrameType)]
  /\ writing \in [Peer -> AtMostOne(FrameType)]
  /\ broken \subseteq Peer
  /\ readers \in [Peer -> 0 .. ReadersPerPeer]
  /\ sessions \in [Peer -> 0 .. MaxSessions]
  /\ sendDones \in [Peer -> Nat]
  /\ peerDowns \in [Peer -> Nat]
  /\ handed \in [Peer -> SUBSET Candidate]
  /\ known \in [Peer -> SUBSET Data]

(* A chunk in hand has the type of a frame's candidates. *)
LEMMA HandTypes ==
  ASSUME IndexInv, hand # NoChunk
  PROVE  hand.peer \in Peer /\ hand.cands \subseteq Candidate
BY IndexInvUnfolded DEF IndexInv, HandCommitted, TypeOK

(* A frame names buckets that exist. *)
LEMMA FrameHasType ==
  ASSUME SenderTypes, NEW p \in Peer, NEW C \in SUBSET Candidate
  PROVE  Frame(p, C) \in FrameType /\ Frame(p, C).full \subseteq Data
<1>1. \A c \in C : c[1] \in Data
  BY DEF Candidate
<1>2. {c[1] : c \in C} \ sentFull[p] \subseteq Data
  BY <1>1
<1> QED BY <1>2 DEF Frame, FrameType

(* A sequence of at most one element is empty or has its element as head. *)
LEMMA AtMostOneCases ==
  ASSUME NEW S, NEW s \in AtMostOne(S)
  PROVE  \/ s = <<>>
         \/ \E x \in S : s = <<x>> /\ Head(s) = x /\ s # <<>>
BY DEF AtMostOne

(* A new manager. *)
LEMMA InitSenderTypes == Init => SenderTypes
BY SessionAssumption DEF Init, SenderTypes, AtMostOne

(* No step of the loop, of a sender or of a reader leaves the types; a
   tear-down consumes one event and posts those of the readers it ends. *)
LEMMA NextSenderTypes == IndexInv /\ SenderTypes /\ [Next]_vars => SenderTypes'
<1> SUFFICES ASSUME IndexInv, SenderTypes, [Next]_vars PROVE SenderTypes'
  OBVIOUS
<1>1. ASSUME UNCHANGED <<sentFull, senderVars, handed, known>> PROVE SenderTypes'
  BY <1>1 DEF SenderTypes, senderVars
<1>2. CASE SlotEvent
  BY <1>1, <1>2 DEF SlotEvent, InboundData, InboundBitmap, OnValidated, OnPublishLocal,
                    schedVars, historyVars
<1>3. ASSUME \E roles \in [Peer -> Role] : MeshChange(roles) PROVE SenderTypes'
  BY <1>1, <1>3 DEF MeshChange, historyVars
<1>4. ASSUME NEW p \in Peer, OnPeerUp(p) PROVE SenderTypes'
  <2>1. UNCHANGED <<sentFull, work, writing, broken, sendDones, handed>>
    BY <1>4 DEF OnPeerUp
  <2>2. sessions' \in [Peer -> 0 .. MaxSessions]
    BY <1>4, SessionAssumption DEF OnPeerUp, SenderTypes
  <2>3. readers' \in [Peer -> 0 .. ReadersPerPeer] /\ peerDowns' \in [Peer -> Nat]
        /\ known' \in [Peer -> SUBSET Data]
    BY <1>4, SessionAssumption DEF OnPeerUp, SenderTypes
  <2> QED BY <2>1, <2>2, <2>3 DEF SenderTypes
<1>5. ASSUME NEW p \in Peer, OnPeerDown(p) PROVE SenderTypes'
  <2>1. UNCHANGED <<sessions, sendDones, handed, known>>
    BY <1>5 DEF OnPeerDown
  <2>2. sentFull' \in [Peer -> SUBSET Data]
    BY <1>5 DEF OnPeerDown, ForgetPeer, SenderTypes
  <2>3. work' \in [Peer -> AtMostOne(FrameType)] /\ writing' \in [Peer -> AtMostOne(FrameType)]
        /\ broken' \subseteq Peer
    BY <1>5 DEF OnPeerDown, ResetStreams, SenderTypes, AtMostOne
  <2>4. readers' \in [Peer -> 0 .. ReadersPerPeer]
    BY <1>5, SessionAssumption DEF OnPeerDown, ResetStreams, SenderTypes
  <2>5. peerDowns' \in [Peer -> Nat]
    <3>1. peerDowns[p] \in Nat /\ peerDowns[p] > 0 /\ readers[p] \in Nat
      BY <1>5, SessionAssumption DEF OnPeerDown, SenderTypes
    <3>2. PICK n \in {0, 1} :
            peerDowns' = [peerDowns EXCEPT ![p] = peerDowns[p] - 1 + readers[p] + n]
      BY <1>5 DEF OnPeerDown, ResetStreams
    <3>3. peerDowns[p] - 1 + readers[p] + n \in Nat
      BY <3>1
    <3> QED BY <3>2, <3>3 DEF SenderTypes
  <2> QED BY <2>1, <2>2, <2>3, <2>4, <2>5 DEF SenderTypes
<1>6. ASSUME NEW p \in Peer, OnSendDone(p) PROVE SenderTypes'
  BY <1>6 DEF OnSendDone, SenderTypes
<1>7. CASE OnTick
  BY <1>1, <1>7 DEF OnTick, historyVars
<1>8. CASE PushLoopDone \/ BitmapLoopDone \/ QueueFull
           \/ \E p \in todo : ServePush(p) \/ ServeBitmap(p)
  BY <1>1, <1>8 DEF PushLoopDone, BitmapLoopDone, QueueFull, ServePush, ServeBitmap,
                    schedVars, historyVars
<1>9. CASE Enqueue
  <2> DEFINE p == hand.peer
             f == Frame(p, hand.cands)
  <2>1. p \in Peer /\ hand.cands \subseteq Candidate
    BY <1>9, HandTypes DEF Enqueue
  <2>2. f \in FrameType /\ f.full \subseteq Data
    BY <2>1, FrameHasType
  <2>3. /\ work'     = [work EXCEPT ![p] = <<f>>]
        /\ sentFull' = [sentFull EXCEPT ![p] = @ \cup f.full]
        /\ handed'   = [handed EXCEPT ![p] = @ \cup hand.cands]
        /\ UNCHANGED <<writing, broken, readers, sessions, sendDones, peerDowns, known>>
    BY <1>9 DEF Enqueue
  <2> HIDE DEF p, f
  <2>4. work' \in [Peer -> AtMostOne(FrameType)]
    BY <2>2, <2>3 DEF SenderTypes, AtMostOne
  <2>5. sentFull' \in [Peer -> SUBSET Data]
    BY <2>2, <2>3 DEF SenderTypes
  <2>6. handed' \in [Peer -> SUBSET Candidate]
    BY <2>1, <2>3 DEF SenderTypes
  <2> QED BY <2>3, <2>4, <2>5, <2>6 DEF SenderTypes
<1>10. ASSUME NEW p \in Peer, Take(p) \/ WriteFails(p) PROVE SenderTypes'
  <2>1. <<>> \in AtMostOne(FrameType)
    BY DEF AtMostOne
  <2>2. CASE Take(p)
    BY <2>1, <2>2 DEF Take, SenderTypes, schedVars, historyVars
  <2>3. CASE WriteFails(p)
    BY <2>1, <2>3 DEF WriteFails, SenderTypes, schedVars, historyVars
  <2> QED BY <1>10, <2>2, <2>3
<1>11. ASSUME NEW p \in Peer, WriteSucceeds(p) PROVE SenderTypes'
  <2>1. writing[p] \in AtMostOne(FrameType) /\ writing[p] # <<>>
    BY <1>11 DEF WriteSucceeds, SenderTypes
  <2>2. Head(writing[p]) \in FrameType
    BY <2>1, AtMostOneCases
  <2>3. Head(writing[p]).full \subseteq Data
    BY <2>2 DEF FrameType
  <2>4. known' \in [Peer -> SUBSET Data]
    BY <1>11, <2>3 DEF WriteSucceeds, SenderTypes
  <2>5. writing' \in [Peer -> AtMostOne(FrameType)] /\ sendDones' \in [Peer -> Nat]
    BY <1>11 DEF WriteSucceeds, SenderTypes, AtMostOne
  <2>6. UNCHANGED <<sentFull, work, broken, readers, sessions, peerDowns, handed>>
    BY <1>11 DEF WriteSucceeds, schedVars
  <2> QED BY <2>4, <2>5, <2>6 DEF SenderTypes
<1>12. ASSUME NEW p \in Peer, ReaderEnds(p) PROVE SenderTypes'
  BY <1>12, SessionAssumption DEF ReaderEnds, SenderTypes, schedVars, historyVars
<1>13. CASE UNCHANGED vars
  BY <1>1, <1>13 DEF vars, schedVars, historyVars
<1> QED
  BY <1>2, <1>3, <1>4, <1>5, <1>6, <1>7, <1>8, <1>9, <1>10, <1>11, <1>12, <1>13
  DEF Next, PeerEvent, PassStep, SenderStep

(* Frames, events and history variables keep their types. *)
THEOREM SenderTypesHold == Spec => []SenderTypes
BY InitSenderTypes, NextSenderTypes, IndexOfScheduler, PTL DEF Spec

(* The scheduler's variables keep their types; no counter goes below zero. *)
THEOREM TypesOfScheduler == Spec => []SchedTypeOK
<1>1. BudgetInv /\ SenderTypes => SchedTypeOK
  <2> SUFFICES ASSUME BudgetInv, SenderTypes PROVE SchedTypeOK
    OBVIOUS
  <2>1. IsFiniteSet(inFlight) /\ inFlight \subseteq Peer
    BY PeerAssumption, FS_Subset DEF BudgetInv, LoopInv, AccountInv, BudgetExact
  <2>2. activeData \in Nat
    BY <2>1, FS_CardinalityType DEF BudgetInv, AccountInv, BudgetExact
  <2> QED BY <2>1, <2>2 DEF SchedTypeOK, BudgetInv, LoopInv, AccountInv, SenderTypes
<1> QED BY <1>1, BudgetInvariant, SenderTypesHold, PTL

-----------------------------------------------------------------------------
(* Nothing is sent twice *)

(* What was handed to a peer's sender stays marked as held by the peer, and a
   chunk in hand, which a full queue would unmark, has nothing of it. *)
HandedInv ==
  /\ \A p \in Peer : handed[p] \subseteq peerAvail[p]
  /\ hand # NoChunk => handed[hand.peer] \cap hand.cands = {}

(* Marking holders only ever adds to what peers are known to hold. *)
LEMMA MarkHoldersGrows ==
  ASSUME TypeOK, NEW p \in Peer, NEW C, MarkHolders(p, C)
  PROVE  \A q \in Peer : peerAvail[q] \subseteq peerAvail'[q]
BY DEF MarkHolders, TypeOK

(* A new manager has sent nothing. *)
LEMMA InitHandedInv == Init => HandedInv
BY DEF Init, SlotInit, HandedInv

(* Draws avoid what a peer is marked with, and only a roll-back removes marks:
   those of its own chunk. *)
LEMMA NextHandedInv ==
  LoopInv /\ IndexInv /\ SenderTypes /\ HandedInv /\ [Next]_vars => HandedInv'
<1> SUFFICES ASSUME LoopInv, IndexInv, SenderTypes, HandedInv, [Next]_vars PROVE HandedInv'
  OBVIOUS
<1>1. TypeOK /\ handed \in [Peer -> SUBSET Candidate]
  BY IndexInvUnfolded DEF IndexInv, SenderTypes
<1>2. ASSUME UNCHANGED <<slotVars, handed>> PROVE HandedInv'
  BY <1>2 DEF HandedInv, slotVars, NoChunk
<1>3. CASE SlotEvent
  <2>1. hand' = NoChunk /\ handed' = handed
    BY <1>3 DEF SlotEvent, InboundData, InboundBitmap, OnValidated, OnPublishLocal,
                ReceiveBatch, ReceiveAvailable, Validated, PublishLocal, historyVars, NoChunk
  <2>2. \A q \in Peer : peerAvail[q] \subseteq peerAvail'[q]
    BY <1>1, <1>3, MarkHoldersGrows
    DEF SlotEvent, InboundData, InboundBitmap, OnValidated, OnPublishLocal,
        ReceiveBatch, ReceiveAvailable, Validated, PublishLocal
  <2> QED BY <2>1, <2>2 DEF HandedInv, NoChunk
<1>4. CASE PeerEvent
  BY <1>2, <1>4 DEF PeerEvent, MeshChange, OnPeerUp, OnPeerDown, OnSendDone, OnTick, historyVars
<1>5. ASSUME NEW p \in todo, ServePush(p) \/ ServeBitmap(p) PROVE HandedInv'
  <2>1. p \in Peer /\ handed' = handed
    BY <1>5 DEF ServePush, ServeBitmap, LoopInv, historyVars
  <2>2. CASE UNCHANGED slotVars
    BY <1>2, <2>1, <2>2
  <2>3. ASSUME NEW allowPartial, NEW limit \in HolderCountLimit,
               SelectOneChunkForPeer(p, allowPartial, limit)
        PROVE  HandedInv'
    <3>1. PICK D \in Draws(p, limit) :
            MarkHolders(p, D) /\ hand' = [peer |-> p, cands |-> D]
      BY <2>3 DEF SelectOneChunkForPeer
    <3>2. D \cap peerAvail[p] = {}
      BY <2>1, <3>1, DrawsAreValidated, IndexInvUnfolded
    <3>3. \A q \in Peer : peerAvail[q] \subseteq peerAvail'[q]
      BY <1>1, <2>1, <3>1, MarkHoldersGrows
    <3>4. hand'.peer = p /\ hand'.cands = D
      BY <3>1
    <3>5. handed[p] \cap D = {}
      BY <2>1, <3>2 DEF HandedInv
    <3> QED BY <2>1, <3>3, <3>4, <3>5 DEF HandedInv
  <2>4. NoHolderCountLimit \in HolderCountLimit /\ BitmapHolderLimit \in HolderCountLimit
    BY BitmapHolderLimitType DEF HolderCountLimit
  <2> QED BY <1>5, <2>2, <2>3, <2>4 DEF ServePush, ServeBitmap
<1>6. CASE PushLoopDone \/ BitmapLoopDone
  BY <1>2, <1>6 DEF PushLoopDone, BitmapLoopDone, historyVars
<1>7. CASE Enqueue
  <2>1. hand # NoChunk /\ hand' = NoChunk /\ peerAvail' = peerAvail
        /\ handed' = [handed EXCEPT ![hand.peer] = @ \cup hand.cands]
    BY <1>7 DEF Enqueue, HandOver, NoChunk
  <2>2. hand.cands \subseteq peerAvail[hand.peer]
    BY <2>1 DEF IndexInv, HandCommitted
  <2> QED BY <1>1, <2>1, <2>2 DEF HandedInv, NoChunk
<1>8. CASE QueueFull
  <2>1. hand # NoChunk /\ hand' = NoChunk /\ handed' = handed
        /\ peerAvail' = [peerAvail EXCEPT
                           ![hand.peer] = @ \ (hand.cands \cap peerAvail[hand.peer])]
    BY <1>8 DEF QueueFull, RollbackChunk, UnmarkHolders, historyVars, NoChunk
  <2>2. handed[hand.peer] \cap hand.cands = {} /\ peerAvail \in [Peer -> SUBSET Candidate]
    BY <1>1, <2>1 DEF HandedInv, TypeOK
  <2> QED BY <1>1, <2>1, <2>2 DEF HandedInv, NoChunk
<1>9. ASSUME \/ \E p \in Peer : SenderStep(p) \/ ReaderEnds(p)
             \/ UNCHANGED vars
      PROVE  HandedInv'
  BY <1>2, <1>9 DEF SenderStep, Take, WriteSucceeds, WriteFails, ReaderEnds, vars, historyVars
<1> QED BY <1>3, <1>4, <1>5, <1>6, <1>7, <1>8, <1>9 DEF Next, PassStep

(* What a peer's sender was handed is marked as held by the peer for good. *)
THEOREM HandedStaysMarked == Spec => []HandedInv
BY InitHandedInv, NextHandedInv, LoopIsSound, IndexOfScheduler, SenderTypesHold, PTL DEF Spec

(* Nothing is handed to a peer's sender twice, in any number of sessions. *)
THEOREM NothingSentTwice == Spec => NeverSentTwice
<1> DEFINE Fresh ==
      \A p \in Peer :
        p \in inFlight' \ inFlight => Head(work'[p]).cands \cap handed[p] = {}
<1>1. IndexInv /\ SenderTypes /\ HandedInv /\ [Next]_vars => [Fresh]_vars
  <2> SUFFICES ASSUME IndexInv, SenderTypes, HandedInv, Next,
                      NEW p \in Peer, p \in inFlight' \ inFlight
               PROVE  Head(work'[p]).cands \cap handed[p] = {}
    BY DEF vars
  <2>1. Enqueue /\ p = hand.peer
    BY DEF Next, SlotEvent, InboundData, InboundBitmap, OnValidated, OnPublishLocal,
           PeerEvent, MeshChange, OnPeerUp, OnPeerDown, OnSendDone, OnTick, ReleaseBudget,
           PassStep, ServePush, PushLoopDone, ServeBitmap, BitmapLoopDone, QueueFull, Enqueue,
           SenderStep, Take, WriteSucceeds, WriteFails, ReaderEnds, schedVars
  <2>2. work'[p] = <<Frame(p, hand.cands)>>
    BY <2>1 DEF Enqueue, SenderTypes
  <2>3. Head(work'[p]).cands = hand.cands
    BY <2>2 DEF Frame
  <2> QED BY <2>1, <2>3 DEF HandedInv, Enqueue
<1> QED
  BY <1>1, IndexOfScheduler, SenderTypesHold, HandedStaysMarked, PTL DEF Spec, NeverSentTwice

-----------------------------------------------------------------------------
(* A hash follows its data *)

FullsOf(pipe) == UNION {pipe[i].full : i \in DOMAIN pipe}

(* Every frame of a part of the pipe names buckets in full or of the set K. *)
Resolvable(pipe, K) ==
  \A i \in DOMAIN pipe : \A c \in pipe[i].cands : c[1] \in K \cup pipe[i].full

(* While a sender can still write, whatever was sent in full according to the
   loop is on the stream or in the pipe, and every frame is resolvable by what
   goes before it.  A peer that is not up has an empty pipe and no record of
   what was sent in full, so a new stream starts from nothing. *)
PipeInv ==
  /\ \A p \in Peer \ senders :
       work[p] = <<>> /\ writing[p] = <<>> /\ sentFull[p] = {} /\ p \notin broken
  /\ \A p \in Peer \ broken :
       /\ Resolvable(writing[p], known[p])
       /\ Resolvable(work[p], known[p] \cup FullsOf(writing[p]))
       /\ sentFull[p] \subseteq known[p] \cup FullsOf(writing[p]) \cup FullsOf(work[p])

(* An empty part carries nothing and has nothing to resolve. *)
LEMMA EmptyPart ==
  /\ FullsOf(<<>>) = {}
  /\ \A K : Resolvable(<<>>, K)
BY DEF FullsOf, Resolvable

(* A part of one frame carries what the frame carries. *)
LEMMA OneFrame ==
  ASSUME NEW f
  PROVE  /\ FullsOf(<<f>>) = f.full
         /\ \A K : Resolvable(<<f>>, K) <=> \A c \in f.cands : c[1] \in K \cup f.full
BY DEF FullsOf, Resolvable

(* A new manager's pipes are empty. *)
LEMMA InitPipeInv == Init => PipeInv
BY EmptyPart DEF Init, PipeInv

(* The order of the pipe is kept from the loop to the stream, and a stream's
   record goes with the stream. *)
LEMMA NextPipeInv ==
  LoopInv /\ HandInv /\ SenderTypes /\ PipeInv /\ [Next]_vars => PipeInv'
<1> SUFFICES ASSUME LoopInv, HandInv, SenderTypes, PipeInv, [Next]_vars PROVE PipeInv'
  OBVIOUS
<1>1. ASSUME UNCHANGED <<senders, work, writing, sentFull, broken, known>> PROVE PipeInv'
  BY <1>1 DEF PipeInv
<1>2. CASE SlotEvent \/ OnTick \/ (\E roles \in [Peer -> Role] : MeshChange(roles))
           \/ (\E p \in Peer : OnSendDone(p) \/ ReaderEnds(p))
           \/ (\E p \in todo : ServePush(p) \/ ServeBitmap(p))
           \/ PushLoopDone \/ BitmapLoopDone \/ QueueFull \/ UNCHANGED vars
  BY <1>1, <1>2
  DEF SlotEvent, InboundData, InboundBitmap, OnValidated, OnPublishLocal, OnTick, MeshChange,
      OnSendDone, ReaderEnds, ServePush, ServeBitmap, PushLoopDone, BitmapLoopDone,
      QueueFull, vars, schedVars, senderVars, historyVars
<1>3. ASSUME NEW p \in Peer, OnPeerUp(p) PROVE PipeInv'
  <2>1. UNCHANGED <<sentFull, work, writing, broken>>
    BY <1>3 DEF OnPeerUp
  <2>2. CASE p \in senders
    BY <1>1, <1>3, <2>1, <2>2 DEF OnPeerUp
  <2>3. CASE p \notin senders
    <3>1. senders' = senders \cup {p} /\ known' = [known EXCEPT ![p] = {}]
      BY <1>3, <2>3 DEF OnPeerUp
    <3>2. work[p] = <<>> /\ writing[p] = <<>> /\ sentFull[p] = {}
      BY <2>3 DEF PipeInv
    <3>3. \A q \in Peer : q # p => known'[q] = known[q]
      BY <3>1 DEF SenderTypes
    <3> QED BY ZenonT(40), <2>1, <3>1, <3>2, <3>3, EmptyPart DEF PipeInv
  <2> QED BY <2>2, <2>3
<1>4. ASSUME NEW p \in Peer, OnPeerDown(p) PROVE PipeInv'
  <2>1. /\ senders' = senders \ {p} /\ broken' = broken \ {p}
        /\ sentFull' = [sentFull EXCEPT ![p] = {}]
        /\ work' = [work EXCEPT ![p] = <<>>] /\ writing' = [writing EXCEPT ![p] = <<>>]
        /\ known' = known
    BY <1>4 DEF OnPeerDown, ForgetPeer, ResetStreams
  <2>2. /\ work'[p] = <<>> /\ writing'[p] = <<>> /\ sentFull'[p] = {}
        /\ \A q \in Peer : q # p => /\ work'[q] = work[q] /\ writing'[q] = writing[q]
                                   /\ sentFull'[q] = sentFull[q]
    BY <2>1 DEF SenderTypes
  <2>3. ASSUME NEW q \in Peer \ senders'
        PROVE  work'[q] = <<>> /\ writing'[q] = <<>> /\ sentFull'[q] = {} /\ q \notin broken'
    BY <2>1, <2>2, <2>3 DEF PipeInv
  <2>4. ASSUME NEW q \in Peer \ broken', q # p
        PROVE  /\ Resolvable(writing'[q], known'[q])
               /\ Resolvable(work'[q], known'[q] \cup FullsOf(writing'[q]))
               /\ sentFull'[q] \subseteq known'[q] \cup FullsOf(writing'[q]) \cup FullsOf(work'[q])
    BY <2>1, <2>2, <2>4 DEF PipeInv
  <2>5. /\ Resolvable(writing'[p], known'[p])
        /\ Resolvable(work'[p], known'[p] \cup FullsOf(writing'[p]))
        /\ sentFull'[p] \subseteq known'[p] \cup FullsOf(writing'[p]) \cup FullsOf(work'[p])
    BY <2>2, EmptyPart
  <2> QED BY <2>3, <2>4, <2>5 DEF PipeInv
<1>5. CASE Enqueue
  <2> DEFINE p == hand.peer
             f == Frame(p, hand.cands)
  <2>1. p \in senders /\ p \in Peer /\ work[p] = <<>>
    BY <1>5 DEF Enqueue, HandInv, LoopInv
  <2>2. /\ work'     = [work EXCEPT ![p] = <<f>>]
        /\ sentFull' = [sentFull EXCEPT ![p] = @ \cup f.full]
        /\ UNCHANGED <<senders, writing, broken, known>>
    BY <1>5 DEF Enqueue
  <2>3. \A c \in f.cands : c[1] \in sentFull[p] \cup f.full
    BY DEF Frame
  <2> HIDE DEF p, f
  <2>4. /\ work'[p] = <<f>> /\ sentFull'[p] = sentFull[p] \cup f.full
        /\ \A q \in Peer : q # p => work'[q] = work[q] /\ sentFull'[q] = sentFull[q]
    BY <2>1, <2>2 DEF SenderTypes
  <2>5. ASSUME p \notin broken
        PROVE  /\ Resolvable(<<f>>, known[p] \cup FullsOf(writing[p]))
               /\ sentFull[p] \cup f.full
                    \subseteq known[p] \cup FullsOf(writing[p]) \cup FullsOf(<<f>>)
    <3>1. sentFull[p] \subseteq known[p] \cup FullsOf(writing[p])
      BY <2>1, <2>5, EmptyPart DEF PipeInv
    <3> QED BY <2>3, <3>1, OneFrame
  <2> QED BY <2>1, <2>2, <2>4, <2>5 DEF PipeInv
<1>6. ASSUME NEW p \in Peer, Take(p) PROVE PipeInv'
  <2>1. /\ writing[p] = <<>> /\ work[p] # <<>>
        /\ writing' = [writing EXCEPT ![p] = work[p]] /\ work' = [work EXCEPT ![p] = <<>>]
        /\ UNCHANGED <<senders, sentFull, broken, known>>
    BY <1>6 DEF Take, schedVars, historyVars
  <2>2. /\ writing'[p] = work[p] /\ work'[p] = <<>>
        /\ \A q \in Peer : q # p => work'[q] = work[q] /\ writing'[q] = writing[q]
    BY <2>1 DEF SenderTypes
  <2>3. p \in senders
    BY <2>1 DEF PipeInv
  <2>4. ASSUME p \notin broken
        PROVE  Resolvable(work[p], known[p]) /\ sentFull[p] \subseteq known[p] \cup FullsOf(work[p])
    <3>1. known[p] \cup FullsOf(writing[p]) = known[p]
      BY <2>1, EmptyPart
    <3> QED BY <2>4, <3>1 DEF PipeInv
  <2> QED BY SMTT(20), <2>1, <2>2, <2>3, <2>4, EmptyPart DEF PipeInv
<1>7. ASSUME NEW p \in Peer, WriteSucceeds(p) PROVE PipeInv'
  <2>1. PICK f \in FrameType : writing[p] = <<f>> /\ Head(writing[p]) = f
    BY <1>7, AtMostOneCases DEF WriteSucceeds, SenderTypes
  <2>2. /\ writing' = [writing EXCEPT ![p] = <<>>]
        /\ known' = [known EXCEPT ![p] = @ \cup f.full]
        /\ UNCHANGED <<senders, work, sentFull, broken>>
    BY <1>7, <2>1 DEF WriteSucceeds, schedVars
  <2>3. /\ writing'[p] = <<>> /\ known'[p] = known[p] \cup f.full
        /\ \A q \in Peer : q # p => known'[q] = known[q] /\ writing'[q] = writing[q]
    BY <2>2 DEF SenderTypes
  <2>4. FullsOf(writing[p]) = f.full
    BY <2>1, OneFrame
  <2>5. known'[p] \cup FullsOf(writing'[p]) = known[p] \cup FullsOf(writing[p])
    BY <2>3, <2>4, EmptyPart
  <2>6. p \in senders
    BY <2>1 DEF PipeInv
  <2>7. ASSUME NEW q \in Peer \ senders'
        PROVE  work'[q] = <<>> /\ writing'[q] = <<>> /\ sentFull'[q] = {} /\ q \notin broken'
    BY <2>2, <2>3, <2>6, <2>7 DEF PipeInv
  <2>8. ASSUME NEW q \in Peer \ broken', q # p
        PROVE  /\ Resolvable(writing'[q], known'[q])
               /\ Resolvable(work'[q], known'[q] \cup FullsOf(writing'[q]))
               /\ sentFull'[q] \subseteq known'[q] \cup FullsOf(writing'[q]) \cup FullsOf(work'[q])
    BY <2>2, <2>3, <2>8 DEF PipeInv
  <2>9. ASSUME p \notin broken'
        PROVE  /\ Resolvable(writing'[p], known'[p])
               /\ Resolvable(work'[p], known'[p] \cup FullsOf(writing'[p]))
               /\ sentFull'[p] \subseteq known'[p] \cup FullsOf(writing'[p]) \cup FullsOf(work'[p])
    BY <2>2, <2>3, <2>5, <2>9, EmptyPart DEF PipeInv
  <2> QED BY <2>7, <2>8, <2>9 DEF PipeInv
<1>8. ASSUME NEW p \in Peer, WriteFails(p) PROVE PipeInv'
  <2>1. /\ writing[p] # <<>> /\ writing' = [writing EXCEPT ![p] = <<>>]
        /\ broken' = broken \cup {p} /\ UNCHANGED <<senders, work, sentFull, known>>
    BY <1>8 DEF WriteFails, schedVars, historyVars
  <2>2. \A q \in Peer : q # p => writing'[q] = writing[q]
    BY <2>1 DEF SenderTypes
  <2>3. p \in senders
    BY <2>1 DEF PipeInv
  <2> QED BY <2>1, <2>2, <2>3 DEF PipeInv
<1> QED
  BY <1>2, <1>3, <1>4, <1>5, <1>6, <1>7, <1>8 DEF Next, PeerEvent, PassStep, SenderStep

(* The pipe between the loop and the stream keeps what makes hashes resolvable,
   through failures and reconnects. *)
THEOREM PipeIsResolvable == Spec => []PipeInv
<1>1. BudgetInv => LoopInv /\ HandInv
  BY DEF BudgetInv
<1> QED
  BY <1>1, InitPipeInv, NextPipeInv, BudgetInvariant, SenderTypesHold, PTL DEF Spec

(* A frame that names a bucket by its hash follows, on the same stream, one that
   carried the full data. *)
THEOREM HashFollowsFullData == Spec => []HashAfterFullData
<1>1. SenderTypes /\ PipeInv => HashAfterFullData
  <2> SUFFICES ASSUME SenderTypes, PipeInv, NEW p \in Peer \ broken
               PROVE  LET pipe == writing[p] \o work[p]
                      IN  \A i \in DOMAIN pipe : \A c \in pipe[i].cands :
                            c[1] \in known[p] \cup UNION {pipe[j].full : j \in 1 .. i}
    BY DEF HashAfterFullData
  <2>1. writing[p] \in AtMostOne(FrameType) /\ work[p] \in AtMostOne(FrameType)
    BY DEF SenderTypes
  <2>2. /\ Resolvable(writing[p], known[p])
        /\ Resolvable(work[p], known[p] \cup FullsOf(writing[p]))
    BY DEF PipeInv
  <2>3. CASE writing[p] = <<>>
    <3>1. CASE work[p] = <<>>
      BY <2>3, <3>1
    <3>2. ASSUME NEW f \in FrameType, work[p] = <<f>>
          PROVE  LET pipe == writing[p] \o work[p]
                 IN  \A i \in DOMAIN pipe : \A c \in pipe[i].cands :
                       c[1] \in known[p] \cup UNION {pipe[j].full : j \in 1 .. i}
      <4>1. writing[p] \o work[p] = <<f>> /\ DOMAIN <<f>> = {1} /\ 1 .. 1 = {1}
        BY <2>3, <3>2
      <4>2. \A c \in f.cands : c[1] \in known[p] \cup f.full
        BY <2>2, <2>3, <3>2, EmptyPart, OneFrame
      <4> QED BY <4>1, <4>2
    <3> QED BY <2>1, <3>1, <3>2, AtMostOneCases
  <2>4. ASSUME NEW f \in FrameType, writing[p] = <<f>>
        PROVE  LET pipe == writing[p] \o work[p]
               IN  \A i \in DOMAIN pipe : \A c \in pipe[i].cands :
                     c[1] \in known[p] \cup UNION {pipe[j].full : j \in 1 .. i}
    <3>1. \A c \in f.cands : c[1] \in known[p] \cup f.full
      BY <2>2, <2>4, OneFrame
    <3>2. CASE work[p] = <<>>
      <4>1. writing[p] \o work[p] = <<f>> /\ DOMAIN <<f>> = {1} /\ 1 .. 1 = {1}
        BY <2>4, <3>2
      <4> QED BY <3>1, <4>1
    <3>3. ASSUME NEW g \in FrameType, work[p] = <<g>>
          PROVE  LET pipe == writing[p] \o work[p]
                 IN  \A i \in DOMAIN pipe : \A c \in pipe[i].cands :
                       c[1] \in known[p] \cup UNION {pipe[j].full : j \in 1 .. i}
      <4> DEFINE pipe == <<f>> \o <<g>>
      <4>1. /\ pipe \in Seq(FrameType) /\ Len(pipe) = 2
            /\ pipe[1] = f /\ pipe[2] = g
        <5>1. <<f>> \in Seq(FrameType) /\ <<g>> \in Seq(FrameType)
          OBVIOUS
        <5>2. Len(<<f>>) = 1 /\ Len(<<g>>) = 1 /\ <<f>>[1] = f /\ <<g>>[1] = g
          OBVIOUS
        <5> QED BY <5>1, <5>2, ConcatProperties
      <4>2. \A c \in g.cands : c[1] \in known[p] \cup f.full \cup g.full
        BY <2>2, <2>4, <3>3, OneFrame
      <4> HIDE DEF pipe
      <4>3. DOMAIN pipe = {1, 2} /\ 1 .. 1 = {1} /\ 1 .. 2 = {1, 2}
        BY <4>1
      <4>4. \A i \in DOMAIN pipe : \A c \in pipe[i].cands :
              c[1] \in known[p] \cup UNION {pipe[j].full : j \in 1 .. i}
        BY <3>1, <4>1, <4>2, <4>3
      <4> QED BY <2>4, <3>3, <4>4 DEF pipe
    <3> QED BY <2>1, <3>2, <3>3, AtMostOneCases
  <2> QED BY <2>1, <2>3, <2>4, AtMostOneCases
<1> QED BY <1>1, SenderTypesHold, PipeIsResolvable, PTL

-----------------------------------------------------------------------------
(* Nothing sendable is left waiting *)

(* Holders of c besides the peer a chunk in hand is meant for. *)
SettledCount(c) == holderCount[c] - (IF c \in hand.cands THEN 1 ELSE 0)

(* p is a push peer the loop being run has been to, or will not come to. *)
PushVisited(p) == role[p] = "push" /\ (pass = "push" => p \notin todo)

(* p is a bitmap peer the loop being run has been to; between two passes, one it
   had the budget to get to. *)
BitmapVisited(p) ==
  /\ role[p] = "bitmap"
  /\ \/ pass = "idle" /\ activeData < SendBudgetB
     \/ pass = "bitmap" /\ p \notin todo

(* What a loop leaves behind at a peer it could serve: less than a chunk at a push
   peer, nothing scarce at a bitmap peer. *)
LeftAt(p) ==
  /\ PushVisited(p) => Cardinality(validated \ peerAvail[p]) < MaxAttsPerMessage
  /\ BitmapVisited(p) =>
       \A c \in validated \ peerAvail[p] : SettledCount(c) >= BitmapHolderLimit

WaitInv == \A p \in senders : ~Awaited(p) /\ hand.peer # p => LeftAt(p)

(* No chunk for p means that what p lacks, of few enough holders, makes none. *)
LEMMA NoChunkMeansLittle ==
  ASSUME CountsAndLevels, NEW p \in Peer, NEW allowPartial \in BOOLEAN, NEW limit,
         ~HasChunk(p, allowPartial, limit)
  PROVE  /\ Cardinality(Eligible(p, limit)) < MaxAttsPerMessage
         /\ allowPartial => Eligible(p, limit) = {}
<1> DEFINE E == Eligible(p, limit)
<1>1. E \subseteq Candidate
  BY EligibleExact DEF CountsAndLevels
<1>2. IsFiniteSet(E) /\ Cardinality(E) \in Nat
  BY <1>1, CandidateFinite
<1>3. CASE E = {}
  BY <1>3, FS_EmptySet, ChunkAssumption
<1>4. CASE E # {}
  <2>1. PICK D \in Draws(p, limit) :
          Cardinality(D) = IF Cardinality(E) < MaxAttsPerMessage
                           THEN Cardinality(E) ELSE MaxAttsPerMessage
    BY <1>4, DrawsExist
  <2>2. ~allowPartial /\ Cardinality(D) # MaxAttsPerMessage
    BY DEF HasChunk
  <2> QED BY <1>2, <2>1, <2>2, ChunkAssumption
<1> QED BY <1>3, <1>4

(* A manager without peers leaves nobody waiting. *)
LEMMA InitWaitInv == Init => WaitInv
BY DEF Init, WaitInv

(* A chunk drawn for p changes nothing for another peer: what it lacks is the
   same, and the chunk does not count before it is handed over. *)
LEMMA SelectKeepsOthers ==
  ASSUME IndexInv, NEW p \in Peer, NEW allowPartial, NEW limit,
         SelectOneChunkForPeer(p, allowPartial, limit)
  PROVE  /\ hand'.peer = p /\ validated' = validated
         /\ \A q \in Peer \ {p} : peerAvail'[q] = peerAvail[q]
         /\ \A c \in Candidate : SettledCount(c)' = SettledCount(c)
<1>1. PICK D \in Draws(p, limit) : MarkHolders(p, D) /\ hand' = [peer |-> p, cands |-> D]
  BY DEF SelectOneChunkForPeer
<1>2. CountsAndLevels /\ hand = NoChunk
  BY IndexInvUnfolded DEF SelectOneChunkForPeer
<1>3. D \cap peerAvail[p] = {}
  BY <1>2, DrawsAreValidated
<1>4. \A q \in Peer \ {p} : peerAvail'[q] = peerAvail[q]
  BY <1>1, <1>2 DEF MarkHolders, CountsAndLevels
<1>5. ASSUME NEW c \in Candidate PROVE SettledCount(c)' = SettledCount(c)
  <2>1. holderCount'[c] = IF c \in D THEN holderCount[c] + 1 ELSE holderCount[c]
    BY <1>1, <1>3 DEF MarkHolders
  <2>2. holderCount[c] \in Nat
    BY <1>2 DEF CountsAndLevels
  <2> QED BY <1>1, <1>2, <2>1, <2>2 DEF SettledCount, NoChunk
<1> QED BY <1>1, <1>4, <1>5 DEF SelectOneChunkForPeer, verifyVars

(* A chunk that comes back changes nothing for another peer. *)
LEMMA RollbackKeepsOthers ==
  ASSUME IndexInv, RollbackChunk
  PROVE  /\ hand.peer \in Peer /\ hand' = NoChunk /\ validated' = validated
         /\ \A q \in Peer \ {hand.peer} : peerAvail'[q] = peerAvail[q]
         /\ \A c \in Candidate : SettledCount(c)' = SettledCount(c)
<1>1. CountsAndLevels /\ hand.peer \in Peer /\ hand.cands \subseteq peerAvail[hand.peer]
  BY IndexInvUnfolded DEF RollbackChunk, HandCommitted
<1>2. \A q \in Peer \ {hand.peer} : peerAvail'[q] = peerAvail[q]
  BY <1>1 DEF RollbackChunk, UnmarkHolders, CountsAndLevels
<1>3. ASSUME NEW c \in Candidate PROVE SettledCount(c)' = SettledCount(c)
  <2>1. holderCount'[c] = IF c \in hand.cands THEN holderCount[c] - 1 ELSE holderCount[c]
    BY <1>1 DEF RollbackChunk, UnmarkHolders
  <2>2. holderCount[c] \in Nat /\ hand' = NoChunk
    BY <1>1 DEF CountsAndLevels, RollbackChunk
  <2> QED BY <2>1, <2>2 DEF SettledCount, NoChunk
<1> QED BY <1>1, <1>2, <1>3 DEF RollbackChunk, verifyVars

(* The limit is at least one. *)
LEMMA LimitIsPositive == BitmapHolderLimit \in Nat \ {0}
<1>1. IsFiniteSet(PeersInRole("push")) /\ IsFiniteSet(PeersInRole("bitmap"))
  BY PeerAssumption, FS_Subset DEF PeersInRole
<1>2. Cardinality(PeersInRole("push")) \in Nat /\ Cardinality(PeersInRole("bitmap")) \in Nat
  BY <1>1, FS_CardinalityType
<1>3. \A n \in Nat : n \div 2 \in Nat
  OBVIOUS
<1>4. Cardinality(PeersInRole("bitmap")) \div 2 \in Nat
  BY <1>2, <1>3
<1> QED BY <1>2, <1>4 DEF BitmapHolderLimit

(* The count is a number. *)
LEMMA SettledCountType ==
  ASSUME CountsAndLevels, NEW c \in Candidate PROVE SettledCount(c) \in Int
<1>1. holderCount[c] \in Nat
  BY DEF CountsAndLevels
<1> QED BY <1>1 DEF SettledCount

(* What was left at p stays left while the loop is not at p, p's knowledge does
   not change, nothing loses a holder and nobody begins to wait for p. *)
LEMMA LeftAtStays ==
  ASSUME NEW p \in senders, LoopInv, CountsAndLevels, CountsAndLevels', LeftAt(p),
         UNCHANGED <<role, pass, validated>>, pass = "idle" => activeData' = activeData,
         p \in todo => p \in todo',
         peerAvail'[p] = peerAvail[p],
         \A c \in Candidate : SettledCount(c)' >= SettledCount(c)
  PROVE  LeftAt(p)'
<1>1. BitmapHolderLimit' = BitmapHolderLimit /\ BitmapHolderLimit \in Int
  BY LimitIsPositive DEF BitmapHolderLimit, PeersInRole
<1>2. (PushVisited(p)' => PushVisited(p)) /\ (BitmapVisited(p)' => BitmapVisited(p))
  BY DEF PushVisited, BitmapVisited
<1>3. \A c \in Candidate : SettledCount(c) \in Int /\ SettledCount(c)' \in Int
  BY DEF CountsAndLevels, SettledCount
<1>4. validated \subseteq Candidate
  BY DEF CountsAndLevels
<1>5. ASSUME BitmapVisited(p)', NEW c \in validated' \ peerAvail'[p]
      PROVE  SettledCount(c)' >= BitmapHolderLimit'
  <2>1. c \in validated \ peerAvail[p] /\ c \in Candidate
    BY <1>4, <1>5
  <2>2. SettledCount(c) >= BitmapHolderLimit
    BY <1>2, <1>5, <2>1 DEF LeftAt
  <2> QED BY <1>1, <1>3, <2>1, <2>2
<1> QED BY <1>2, <1>5 DEF LeftAt

(* A step of the loop for p, or of p's chunk, leaves what was left at others. *)
LEMMA OthersStayServed ==
  ASSUME LoopInv, WaitInv, IndexInv, IndexInv', NEW p \in Peer,
         hand.peer \in {NoPeer, p},
         UNCHANGED <<senders, role, pass, validated>>,
         pass = "idle" => activeData' = activeData,
         todo \ {p} \subseteq todo',
         \A q \in Peer \ {p} :
           peerAvail'[q] = peerAvail[q] /\ (~Awaited(q)' => ~Awaited(q)),
         \A c \in Candidate : SettledCount(c)' >= SettledCount(c)
  PROVE  \A q \in senders' \ {p} : ~Awaited(q)' /\ hand'.peer # q => LeftAt(q)'
<1> SUFFICES ASSUME NEW q \in senders \ {p}, ~Awaited(q)' PROVE LeftAt(q)'
  OBVIOUS
<1>1. q \in Peer /\ CountsAndLevels /\ CountsAndLevels'
  BY IndexInvUnfolded DEF LoopInv, IndexInv, TypeOK, CountsAndLevels
<1>2. LeftAt(q)
  BY <1>1, PeerAssumption DEF WaitInv
<1>3. q \in todo => q \in todo'
  OBVIOUS
<1> QED BY <1>1, <1>2, <1>3, LeftAtStays DEF LoopInv

(* No step leaves a peer with less than the loop would have given it, unless an
   event of the peer is to come. *)
LEMMA NextWaitInv ==
  BudgetInv /\ IndexInv /\ SenderTypes /\ WaitInv /\ [Next]_vars => WaitInv'
<1> SUFFICES ASSUME BudgetInv, IndexInv, SenderTypes, WaitInv, [Next]_vars PROVE WaitInv'
  OBVIOUS
<1>1. LoopInv /\ LoopInv' /\ HandInv /\ CountsAndLevels /\ IndexInv' /\ CountsAndLevels'
      /\ SenderTypes'
  <2>1. IndexInv'
    BY StepOfIndex, NextIndexInv DEF BudgetInv
  <2> QED BY <2>1, IndexInvUnfolded, NextLoopInv, NextSenderTypes
          DEF BudgetInv, IndexInv, TypeOK, CountsAndLevels
<1>2. ASSUME StartPass(senders') PROVE WaitInv'
  BY <1>2 DEF StartPass, WaitInv, LeftAt, PushVisited, BitmapVisited
<1>3. CASE SlotEvent
  <2>1. StartPass(senders) /\ senders' = senders
    BY <1>3 DEF SlotEvent, InboundData, InboundBitmap, OnValidated, OnPublishLocal, schedVars
  <2> QED BY <1>2, <2>1
<1>4. CASE PeerEvent
  <2>1. StartPass(senders')
    BY <1>4 DEF PeerEvent, MeshChange, OnPeerUp, OnPeerDown, ForgetPeer, OnSendDone, OnTick,
                StartPass
  <2> QED BY <1>2, <2>1
<1>5. ASSUME NEW p \in todo, ServePush(p) PROVE WaitInv'
  <2>1. p \in Peer /\ p \in senders /\ hand = NoChunk /\ pass = "push"
        /\ UNCHANGED <<senders, role, pass, activeData>>
        /\ todo' = todo \ {p} /\ \A q \in Peer : Awaited(q)' = Awaited(q)
    BY <1>1, <1>5 DEF ServePush, LoopInv, schedVars, senderVars, Awaited
  <2>2. CASE SelectOneChunkForPeer(p, sendAllToPushMesh, NoHolderCountLimit)
    <3>1. /\ hand'.peer = p /\ validated' = validated
          /\ \A q \in Peer \ {p} : peerAvail'[q] = peerAvail[q]
          /\ \A c \in Candidate : SettledCount(c)' = SettledCount(c)
      BY <2>1, <2>2, SelectKeepsOthers
    <3>2. \A c \in Candidate : SettledCount(c)' >= SettledCount(c)
      BY <1>1, <3>1, SettledCountType
    <3>3. \A q \in senders' \ {p} : ~Awaited(q)' /\ hand'.peer # q => LeftAt(q)'
      BY <1>1, <2>1, <3>1, <3>2, OthersStayServed DEF NoChunk
    <3> QED BY <3>1, <3>3 DEF WaitInv
  <2>3. CASE UNCHANGED slotVars
            /\ (p \in inFlight \/ role[p] # "push"
                \/ ~HasChunk(p, sendAllToPushMesh, NoHolderCountLimit))
    <3>1. /\ hand' = hand /\ validated' = validated /\ peerAvail' = peerAvail
          /\ holderCount' = holderCount
      BY <2>3 DEF slotVars
    <3>2. \A c \in Candidate : SettledCount(c)' >= SettledCount(c)
      BY <1>1, <3>1, SettledCountType DEF SettledCount
    <3>3. \A q \in senders' \ {p} : ~Awaited(q)' /\ hand'.peer # q => LeftAt(q)'
      BY <1>1, <2>1, <3>1, <3>2, OthersStayServed DEF NoChunk
    <3>4. ASSUME ~Awaited(p)' PROVE LeftAt(p)'
      <4>1. p \notin inFlight
        BY <2>1, <3>4 DEF Awaited
      <4>2. ASSUME role[p] = "push"
            PROVE  Cardinality(validated \ peerAvail[p]) < MaxAttsPerMessage
        <5>1. Cardinality(Eligible(p, NoHolderCountLimit)) < MaxAttsPerMessage
          BY <1>1, <2>1, <2>3, <4>1, <4>2, NoChunkMeansLittle DEF LoopInv
        <5>2. Eligible(p, NoHolderCountLimit) = validated \ peerAvail[p]
          BY <1>1, <2>1, EligibleExact DEF NoHolderCountLimit
        <5> QED BY <5>1, <5>2
      <4> QED BY <2>1, <3>1, <4>2 DEF LeftAt, PushVisited, BitmapVisited
    <3> QED BY <3>3, <3>4 DEF WaitInv
  <2> QED BY <1>5, <2>2, <2>3 DEF ServePush
<1>6. ASSUME NEW p \in todo, ServeBitmap(p) PROVE WaitInv'
  <2>1. p \in Peer /\ p \in senders /\ hand = NoChunk /\ pass = "bitmap"
        /\ UNCHANGED <<senders, role, pass, activeData>>
        /\ todo' = todo \ {p} /\ \A q \in Peer : Awaited(q)' = Awaited(q)
    BY <1>1, <1>6 DEF ServeBitmap, LoopInv, schedVars, senderVars, Awaited
  <2>2. CASE SelectOneChunkForPeer(p, TRUE, BitmapHolderLimit)
    <3>1. /\ hand'.peer = p /\ validated' = validated
          /\ \A q \in Peer \ {p} : peerAvail'[q] = peerAvail[q]
          /\ \A c \in Candidate : SettledCount(c)' = SettledCount(c)
      BY <2>1, <2>2, SelectKeepsOthers
    <3>2. \A c \in Candidate : SettledCount(c)' >= SettledCount(c)
      BY <1>1, <3>1, SettledCountType
    <3>3. \A q \in senders' \ {p} : ~Awaited(q)' /\ hand'.peer # q => LeftAt(q)'
      BY <1>1, <2>1, <3>1, <3>2, OthersStayServed DEF NoChunk
    <3> QED BY <3>1, <3>3 DEF WaitInv
  <2>3. CASE UNCHANGED slotVars
            /\ (p \in inFlight \/ role[p] # "bitmap" \/ ~HasChunk(p, TRUE, BitmapHolderLimit))
    <3>1. /\ hand' = hand /\ validated' = validated /\ peerAvail' = peerAvail
          /\ holderCount' = holderCount
      BY <2>3 DEF slotVars
    <3>2. \A c \in Candidate : SettledCount(c)' >= SettledCount(c)
      BY <1>1, <3>1, SettledCountType DEF SettledCount
    <3>3. \A q \in senders' \ {p} : ~Awaited(q)' /\ hand'.peer # q => LeftAt(q)'
      BY <1>1, <2>1, <3>1, <3>2, OthersStayServed DEF NoChunk
    <3>4. ASSUME ~Awaited(p)' PROVE LeftAt(p)'
      <4>1. p \notin inFlight
        BY <2>1, <3>4 DEF Awaited
      <4>2. BitmapHolderLimit' = BitmapHolderLimit /\ BitmapHolderLimit \in Nat
        BY <2>1, LimitIsPositive DEF BitmapHolderLimit, PeersInRole
      <4>3. ASSUME role[p] = "bitmap", NEW c \in validated \ peerAvail[p]
            PROVE  SettledCount(c)' >= BitmapHolderLimit'
        <5>1. Eligible(p, BitmapHolderLimit) = {}
          BY <1>1, <2>1, <2>3, <4>1, <4>3, NoChunkMeansLittle
        <5>2. holderCount[c] >= BitmapHolderLimit
          <6>1. ~(BitmapHolderLimit >= 0 => holderCount[c] < BitmapHolderLimit)
            BY <1>1, <2>1, <4>3, <5>1, EligibleExact
          <6>2. holderCount[c] \in Nat
            BY <1>1, <4>3 DEF CountsAndLevels
          <6> QED BY <4>2, <6>1, <6>2
        <5>3. SettledCount(c)' = holderCount[c]
          BY <1>1, <2>1, <3>1 DEF SettledCount, NoChunk, CountsAndLevels
        <5> QED BY <4>2, <5>2, <5>3
      <4>4. role[p] = "push" => Cardinality(validated \ peerAvail[p]) < MaxAttsPerMessage
        BY <2>1, <3>4, PeerAssumption DEF WaitInv, LeftAt, PushVisited, NoChunk
      <4> QED BY <2>1, <3>1, <4>3, <4>4 DEF LeftAt, PushVisited, BitmapVisited
    <3> QED BY <3>3, <3>4 DEF WaitInv
  <2> QED BY <1>6, <2>2, <2>3, Zenon DEF ServeBitmap
<1>7. CASE PushLoopDone
  <2>1. /\ pass = "push" /\ todo = {} /\ pass' = "bitmap" /\ todo' = senders
        /\ UNCHANGED <<hand, senders, role, validated, peerAvail>>
        /\ \A q \in Peer : Awaited(q)' = Awaited(q)
    BY <1>7 DEF PushLoopDone, slotVars, schedVars, senderVars, Awaited
  <2>2. ASSUME NEW q \in senders', ~Awaited(q)', hand'.peer # q PROVE LeftAt(q)'
    <3>1. q \in Peer /\ LeftAt(q)
      BY <1>1, <2>1, <2>2 DEF WaitInv, LoopInv
    <3> QED BY <2>1, <2>2, <3>1 DEF LeftAt, PushVisited, BitmapVisited
  <2> QED BY <2>2 DEF WaitInv
<1>8. CASE BitmapLoopDone
  <2>1. CASE sendAllToPushMesh
    BY <1>2, <1>8, <2>1 DEF BitmapLoopDone
  <2>2. CASE ~sendAllToPushMesh
    <3>1. /\ pass = "bitmap" /\ (todo = {} \/ activeData >= SendBudgetB)
          /\ pass' = "idle" /\ todo' = {}
          /\ UNCHANGED <<hand, senders, role, activeData, validated, peerAvail, holderCount>>
          /\ \A q \in Peer : Awaited(q)' = Awaited(q)
      BY <1>8, <2>2 DEF BitmapLoopDone, slotVars, senderVars, Awaited
    <3>2. ASSUME NEW q \in senders', ~Awaited(q)', hand'.peer # q PROVE LeftAt(q)'
      <4>1. q \in Peer /\ LeftAt(q)
        BY <1>1, <3>1, <3>2 DEF WaitInv, LoopInv
      <4>2. BitmapHolderLimit' = BitmapHolderLimit
        BY <3>1 DEF BitmapHolderLimit, PeersInRole
      <4>3. \A c : SettledCount(c)' = SettledCount(c)
        BY <3>1 DEF SettledCount
      <4>4. BitmapVisited(q)' => BitmapVisited(q)
        <5>1. activeData \in Nat
          BY <1>1, PeerAssumption, FS_Subset, FS_CardinalityType
          DEF BudgetInv, AccountInv, BudgetExact, LoopInv
        <5> QED BY <3>1, <5>1, BudgetAssumption DEF BitmapVisited
      <4>5. PushVisited(q)' => PushVisited(q)
        BY <3>1 DEF PushVisited
      <4> QED BY <3>1, <4>1, <4>2, <4>3, <4>4, <4>5 DEF LeftAt
    <3> QED BY <3>2 DEF WaitInv
  <2> QED BY <2>1, <2>2
<1>9. CASE Enqueue
  <2>0. PICK p : p = hand.peer
    OBVIOUS
  <2>1. p \in Peer /\ p \in senders /\ pass # "idle"
    BY <1>1, <2>0, <1>9 DEF Enqueue, HandInv, LoopInv
  <2>2. /\ UNCHANGED <<senders, role, pass, todo, validated, peerAvail, holderCount>>
        /\ hand' = NoChunk /\ p \in inFlight'
        /\ \A q \in Peer \ {p} : Awaited(q)' = Awaited(q)
    BY <1>1, <1>9, <2>0, <2>1 DEF Enqueue, HandOver, passVars, SenderTypes, Awaited
  <2>3. \A c \in Candidate : SettledCount(c)' >= SettledCount(c)
    BY <1>1, <2>2 DEF SettledCount, NoChunk, CountsAndLevels
  <2>4. \A q \in senders' \ {p} : ~Awaited(q)' /\ hand'.peer # q => LeftAt(q)'
    BY <1>1, <2>0, <2>1, <2>2, <2>3, OthersStayServed
  <2>5. Awaited(p)'
    BY <2>2 DEF Awaited
  <2> QED BY <2>4, <2>5 DEF WaitInv
<1>10. CASE QueueFull
  <2>0. PICK p : p = hand.peer
    OBVIOUS
  <2>1. UNCHANGED <<senders, role, pass, todo, activeData>> /\ work[p] # <<>>
        /\ \A q \in Peer : Awaited(q)' = Awaited(q)
    BY <1>10, <2>0 DEF QueueFull, schedVars, passVars, senderVars, Awaited
  <2>2. /\ p \in Peer /\ validated' = validated
        /\ \A q \in Peer \ {p} : peerAvail'[q] = peerAvail[q]
        /\ \A c \in Candidate : SettledCount(c)' = SettledCount(c)
    BY <1>10, <2>0, RollbackKeepsOthers DEF QueueFull
  <2>3. \A c \in Candidate : SettledCount(c)' >= SettledCount(c)
    BY <1>1, <2>2, SettledCountType
  <2>4. \A q \in senders' \ {p} : ~Awaited(q)' /\ hand'.peer # q => LeftAt(q)'
    BY <1>1, <2>0, <2>1, <2>2, <2>3, OthersStayServed
  <2>5. Awaited(p)'
    BY <2>1, <2>2 DEF Awaited
  <2> QED BY <2>4, <2>5 DEF WaitInv
<1>11. ASSUME \A q \in Peer : ~Awaited(q)' => ~Awaited(q),
              UNCHANGED <<slotVars, schedVars, passVars>>
       PROVE  WaitInv'
  <2>1. UNCHANGED <<hand, senders, role, pass, todo, activeData, validated, peerAvail, holderCount>>
    BY <1>11 DEF slotVars, schedVars, passVars
  <2>2. \A c \in Candidate : SettledCount(c)' >= SettledCount(c)
    BY <1>1, <2>1, SettledCountType DEF SettledCount
  <2>3. ASSUME NEW q \in senders', ~Awaited(q)', hand'.peer # q PROVE LeftAt(q)'
    <3>1. q \in senders /\ q \in Peer /\ LeftAt(q)
      BY <1>1, <1>11, <2>1, <2>3 DEF WaitInv, LoopInv
    <3> QED BY <1>1, <2>1, <2>2, <3>1, LeftAtStays
  <2> QED BY <2>3 DEF WaitInv
<1>12. ASSUME NEW p \in Peer, SenderStep(p) \/ ReaderEnds(p) PROVE WaitInv'
  <2>1. UNCHANGED <<slotVars, schedVars, passVars>>
    BY <1>12 DEF SenderStep, Take, WriteSucceeds, WriteFails, ReaderEnds
  <2>2. ASSUME NEW q \in Peer, Awaited(q) PROVE Awaited(q)'
    <3>1. /\ \A r \in Peer : sendDones[r] \in Nat
          /\ inFlight' = inFlight
      BY <1>12 DEF SenderTypes, SenderStep, Take, WriteSucceeds, WriteFails, ReaderEnds, schedVars
    <3>2. CASE Take(p)
      BY <2>2, <3>1, <3>2 DEF Take, Awaited, SenderTypes
    <3>3. CASE WriteSucceeds(p)
      BY <2>2, <3>1, <3>3 DEF WriteSucceeds, Awaited, SenderTypes
    <3>4. CASE WriteFails(p)
      BY <2>2, <3>1, <3>4 DEF WriteFails, Awaited, SenderTypes
    <3>5. CASE ReaderEnds(p)
      BY <2>2, <3>1, <3>5 DEF ReaderEnds, Awaited
    <3> QED BY <1>12, <3>2, <3>3, <3>4, <3>5 DEF SenderStep
  <2> QED BY <1>11, <2>1, <2>2
<1>13. CASE UNCHANGED vars
  <2>1. \A q \in Peer : Awaited(q)' = Awaited(q)
    BY <1>13 DEF vars, schedVars, senderVars, Awaited
  <2> QED BY <1>11, <1>13, <2>1 DEF vars
<1> QED BY <1>3, <1>4, <1>5, <1>6, <1>7, <1>8, <1>9, <1>10, <1>12, <1>13 DEF Next, PassStep

(* Between any two steps, the peers a loop has been to lack nothing it could have
   sent them. *)
THEOREM LoopLeavesNothing == Spec => []WaitInv
BY InitWaitInv, NextWaitInv, BudgetInvariant, IndexOfScheduler, SenderTypesHold, PTL DEF Spec

(* trySelectAndSend, run after every event that could make something sendable,
   leaves nothing sendable waiting at a peer of which no event is to come: in any
   order of completions, failures, tear-downs and reconnects. *)
THEOREM NothingIsLeftWaiting == Spec => []NothingSendableWhenIdle
<1>1. BudgetInv /\ IndexInv /\ WaitInv => NothingSendableWhenIdle
  <2> SUFFICES ASSUME BudgetInv, IndexInv, WaitInv, Idle, NEW p \in senders, ~Awaited(p)
               PROVE  /\ role[p] = "push" =>
                           Cardinality(validated \ peerAvail[p]) < MaxAttsPerMessage
                      /\ role[p] = "bitmap" /\ activeData < SendBudgetB =>
                           \A c \in validated \ peerAvail[p] :
                             Cardinality(Holders(c)) >= BitmapHolderLimit
    BY DEF NothingSendableWhenIdle
  <2>1. p \in Peer /\ hand = NoChunk /\ pass = "idle" /\ CountsAndLevels
    BY IndexInvUnfolded DEF BudgetInv, LoopInv, HandInv, Idle
  <2>2. LeftAt(p)
    BY <2>1, PeerAssumption DEF WaitInv, NoChunk
  <2>3. \A c \in validated : SettledCount(c) = Cardinality(Holders(c))
    BY <2>1 DEF SettledCount, NoChunk, CountsAndLevels, HolderCountExact
  <2> QED BY <2>1, <2>2, <2>3 DEF LeftAt, PushVisited, BitmapVisited
<1> QED BY <1>1, LoopLeavesNothing, BudgetInvariant, IndexOfScheduler, PTL

-----------------------------------------------------------------------------
(* The send policy *)

(* A chunk in hand may be sent by the counts that leave it out: its peer is in the
   mesh the loop serves, for a bitmap peer all of it is scarce, and nothing left
   for the peer is scarcer.  Drawn with the counts before it was committed, it
   stays so, because until it is handed over or taken back only senders move. *)
HandScarce ==
  hand # NoChunk =>
    /\ role[hand.peer] = pass
    /\ pass = "bitmap" => \A c \in hand.cands : SettledCount(c) < BitmapHolderLimit
    /\ \A c \in hand.cands, left \in validated \ peerAvail[hand.peer] :
         SettledCount(c) <= SettledCount(left)

(* What selectForPeer draws below a limit. *)
LEMMA DrawnChunk ==
  ASSUME IndexInv, NEW p \in Peer, NEW allowPartial, NEW limit \in HolderCountLimit,
         SelectOneChunkForPeer(p, allowPartial, limit)
  PROVE  /\ hand'.peer = p
         /\ limit >= 0 => \A c \in hand'.cands : SettledCount(c)' < limit
         /\ \A c \in hand'.cands, left \in validated' \ peerAvail'[p] :
              SettledCount(c)' <= SettledCount(left)'
<1>1. PICK D \in Draws(p, limit) : MarkHolders(p, D) /\ hand' = [peer |-> p, cands |-> D]
  BY DEF SelectOneChunkForPeer
<1>2. CountsAndLevels /\ hand = NoChunk /\ validated' = validated
  BY IndexInvUnfolded DEF SelectOneChunkForPeer, verifyVars
<1>3. D \subseteq validated /\ validated \subseteq Candidate
  BY <1>2, DrawsAreValidated DEF CountsAndLevels
<1>4. \A c \in Candidate : SettledCount(c)' = SettledCount(c)
  BY SelectKeepsOthers
<1>5. \A c \in Candidate : SettledCount(c) = holderCount[c]
  BY <1>2 DEF SettledCount, NoChunk, CountsAndLevels
<1>6. peerAvail'[p] = peerAvail[p] \cup D
  BY <1>1, <1>2 DEF MarkHolders, CountsAndLevels
<1>7. ASSUME limit >= 0, NEW c \in D PROVE holderCount[c] < limit
  <2>1. c \in Eligible(p, limit)
    BY DEF Draws
  <2> QED BY <1>2, <1>7, <2>1, EligibleExact
<1>8. \A c \in D, left \in validated \ (peerAvail[p] \cup D) :
        holderCount[c] <= holderCount[left]
  BY <1>2, DrawsAreScarcest
<1> QED BY <1>1, <1>2, <1>3, <1>4, <1>5, <1>6, <1>7, <1>8

(* A new manager has nothing in hand. *)
LEMMA InitHandScarce == Init => HandScarce
BY DEF Init, SlotInit, HandScarce

(* A draw establishes it, a hand-over or a roll-back empties the hand, and an
   event finds it empty. *)
LEMMA NextHandScarce ==
  BudgetInv /\ IndexInv /\ HandScarce /\ [Next]_vars => HandScarce'
<1> SUFFICES ASSUME BudgetInv, IndexInv, HandScarce, [Next]_vars PROVE HandScarce'
  OBVIOUS
<1>1. LoopInv /\ HandInv
  BY DEF BudgetInv
<1>2. ASSUME hand' = NoChunk PROVE HandScarce'
  BY <1>2 DEF HandScarce, NoChunk
<1>3. CASE SlotEvent
  <2>1. hand' = NoChunk
    BY <1>3 DEF SlotEvent, InboundData, InboundBitmap, OnValidated, OnPublishLocal,
                ReceiveBatch, ReceiveAvailable, Validated, PublishLocal, NoChunk
  <2> QED BY <1>2, <2>1
<1>4. CASE PeerEvent
  <2>1. hand' = NoChunk
    BY <1>1, <1>4 DEF PeerEvent, MeshChange, OnPeerUp, OnPeerDown, OnSendDone, OnTick,
                      Idle, HandInv, slotVars, NoChunk
  <2> QED BY <1>2, <2>1
<1>5. ASSUME NEW p \in todo, ServePush(p) PROVE HandScarce'
  <2>1. p \in Peer /\ hand = NoChunk /\ pass = "push" /\ UNCHANGED <<role, pass>>
        /\ NoHolderCountLimit \in HolderCountLimit
    BY <1>1, <1>5 DEF ServePush, LoopInv, schedVars, HolderCountLimit
  <2>2. CASE UNCHANGED slotVars
    BY <1>2, <2>1, <2>2 DEF slotVars, NoChunk
  <2>3. CASE ~UNCHANGED slotVars
    <3>1. role[p] = "push" /\ SelectOneChunkForPeer(p, sendAllToPushMesh, NoHolderCountLimit)
      BY <1>5, <2>3, Zenon DEF ServePush
    <3> QED BY <2>1, <3>1, DrawnChunk DEF HandScarce
  <2> QED BY <2>2, <2>3
<1>6. ASSUME NEW p \in todo, ServeBitmap(p) PROVE HandScarce'
  <2>1. p \in Peer /\ hand = NoChunk /\ pass = "bitmap" /\ UNCHANGED <<role, pass>>
    BY <1>1, <1>6 DEF ServeBitmap, LoopInv, schedVars
  <2>2. BitmapHolderLimit \in HolderCountLimit /\ BitmapHolderLimit >= 0
        /\ BitmapHolderLimit' = BitmapHolderLimit
    BY <1>1, <2>1, BitmapHolderLimitType, LimitIsPositive DEF BitmapHolderLimit, PeersInRole
  <2>3. CASE UNCHANGED slotVars
    BY <1>2, <2>1, <2>3 DEF slotVars, NoChunk
  <2>4. CASE ~UNCHANGED slotVars
    <3>1. role[p] = "bitmap" /\ SelectOneChunkForPeer(p, TRUE, BitmapHolderLimit)
      BY <1>6, <2>4, Zenon DEF ServeBitmap
    <3> QED BY <2>1, <2>2, <3>1, DrawnChunk DEF HandScarce
  <2> QED BY <2>3, <2>4
<1>7. CASE PushLoopDone \/ BitmapLoopDone \/ Enqueue \/ QueueFull
  <2>1. hand' = NoChunk
    BY <1>7 DEF PushLoopDone, BitmapLoopDone, Enqueue, QueueFull, HandOver, RollbackChunk,
                slotVars, NoChunk
  <2> QED BY <1>2, <2>1
<1>8. ASSUME \/ \E p \in Peer : SenderStep(p) \/ ReaderEnds(p)
             \/ UNCHANGED vars
      PROVE  HandScarce'
  <2>1. UNCHANGED <<slotVars, role, pass>>
    BY <1>8 DEF SenderStep, Take, WriteSucceeds, WriteFails, ReaderEnds, vars, schedVars,
                passVars
  <2> QED BY <2>1 DEF HandScarce, slotVars, SettledCount, BitmapHolderLimit, PeersInRole
<1> QED BY <1>3, <1>4, <1>5, <1>6, <1>7, <1>8 DEF Next, PassStep

(* Whatever is in hand may be sent, in any order of events. *)
THEOREM HandIsScarce == Spec => []HandScarce
BY InitHandScarce, NextHandScarce, BudgetInvariant, IndexOfScheduler, PTL DEF Spec

(* The policy counts sets as the scheduler does. *)
LEMMA SameCardinality == \A S : Forwards!Cardinality(S) = Cardinality(S)
BY DEF Forwards!Cardinality, Cardinality

(* The policy's count of who holds what is the index's count, without the chunk
   in hand. *)
LEMMA SettledHolders ==
  ASSUME IndexInv, NEW c \in Candidate
  PROVE  Forwards!HolderCount(c) = SettledCount(c)
<1>1. /\ CountsAndLevels /\ holderCount[c] = Cardinality(Holders(c)) /\ HandCommitted
      /\ (hand.peer = NoPeer => hand.cands = {})
  BY IndexInvUnfolded DEF CountsAndLevels, HolderCountExact
<1>2. CASE c \notin hand.cands
  <2>1. {p \in Peer : c \in SettledAvail(p)} = Holders(c)
    BY <1>2 DEF SettledAvail, Holders
  <2>2. Forwards!HolderCount(c) = Cardinality(Holders(c))
    BY <2>1, SameCardinality DEF Forwards!HolderCount
  <2> QED BY <1>1, <1>2, <2>2, HoldersFinite DEF SettledCount
<1>3. CASE c \in hand.cands
  <2>1. hand.peer \in Holders(c)
    BY <1>1, <1>3 DEF HandCommitted, Holders, NoChunk
  <2>2. {p \in Peer : c \in SettledAvail(p)} = Holders(c) \ {hand.peer}
    BY <1>3 DEF SettledAvail, Holders
  <2>3. Forwards!HolderCount(c) = Cardinality(Holders(c) \ {hand.peer})
    BY <2>2, SameCardinality DEF Forwards!HolderCount
  <2> QED BY <1>1, <1>3, <2>1, <2>3, HoldersFinite, FS_RemoveElement DEF SettledCount
<1> QED BY <1>2, <1>3

(* The policy's limit is the code's. *)
LEMMA SameLimit == Forwards!ScarceLimit = BitmapHolderLimit
BY SameCardinality DEF Forwards!ScarceLimit, Forwards!Mesh, BitmapHolderLimit, PeersInRole

(* A chunk drawn or taken back is no news of what its peer holds. *)
LEMMA DrawnOrTakenBack ==
  ASSUME IndexInv,
         \/ RollbackChunk
         \/ \E p \in Peer, limit \in HolderCountLimit, allowPartial \in BOOLEAN :
              SelectOneChunkForPeer(p, allowPartial, limit)
  PROVE  validated' = validated /\ \A q \in Peer : SettledAvail(q)' = SettledAvail(q)
<1>1. CountsAndLevels /\ HandCommitted
  BY IndexInvUnfolded
<1>2. CASE RollbackChunk
  <2>1. /\ hand.peer \in Peer /\ hand' = NoChunk /\ validated' = validated
        /\ \A q \in Peer \ {hand.peer} : peerAvail'[q] = peerAvail[q]
    BY <1>2, RollbackKeepsOthers
  <2>2. peerAvail'[hand.peer] = peerAvail[hand.peer] \ hand.cands
    BY <1>1, <1>2, <2>1 DEF RollbackChunk, UnmarkHolders, CountsAndLevels
  <2> QED BY <2>1, <2>2, PeerAssumption DEF SettledAvail, NoChunk
<1>3. ASSUME NEW p \in Peer, NEW limit, NEW allowPartial,
             SelectOneChunkForPeer(p, allowPartial, limit)
      PROVE  validated' = validated /\ \A q \in Peer : SettledAvail(q)' = SettledAvail(q)
  <2>1. PICK D \in Draws(p, limit) : MarkHolders(p, D) /\ hand' = [peer |-> p, cands |-> D]
    BY <1>3 DEF SelectOneChunkForPeer
  <2>2. D \cap peerAvail[p] = {}
    BY <1>1, DrawsAreValidated
  <2>3. peerAvail'[p] = peerAvail[p] \cup D
    BY <1>1, <2>1 DEF MarkHolders, CountsAndLevels
  <2>4. hand = NoChunk /\ validated' = validated
        /\ \A q \in Peer \ {p} : peerAvail'[q] = peerAvail[q]
    BY <1>3, SelectKeepsOthers DEF SelectOneChunkForPeer
  <2> QED BY <2>1, <2>2, <2>3, <2>4, PeerAssumption DEF SettledAvail, NoChunk
<1> QED BY <1>2, <1>3

(* A chunk that reaches the sender's channel is a send the policy allows. *)
LEMMA EnqueueIsSend ==
  ASSUME BudgetInv, IndexInv, SenderTypes, HandScarce, Enqueue
  PROVE  Forwards!Send(hand.peer, hand.cands)
<1> DEFINE p == hand.peer
           S == hand.cands
           settled == [q \in Peer |-> SettledAvail(q)]
<1>1. /\ hand # NoChunk /\ p \in senders \ inFlight /\ pass # "idle"
      /\ (pass = "bitmap" => activeData < SendBudgetB)
      /\ pass \in {"idle", "push", "bitmap"} /\ p \in Peer
      /\ activeData = Cardinality(inFlight)
  BY DEF Enqueue, BudgetInv, HandInv, LoopInv, AccountInv, BudgetExact
<1>2. /\ CountsAndLevels /\ S # {} /\ S \subseteq validated \cap peerAvail[p]
      /\ Cardinality(S) <= MaxAttsPerMessage /\ validated \subseteq Candidate
  BY <1>1, IndexInvUnfolded DEF HandCommitted, CountsAndLevels
<1>3. settled[p] = peerAvail[p] \ S
  BY <1>1 DEF SettledAvail
<1>4. S \subseteq validated \ settled[p]
  BY <1>2, <1>3
<1>5. Forwards!Permitted(p, S)
  <2>1. CASE pass = "push"
    BY <1>1, <2>1 DEF HandScarce, Forwards!Permitted
  <2>2. CASE pass = "bitmap"
    <3>1. role[p] = "bitmap" /\ Cardinality(inFlight) < SendBudgetB
      BY <1>1, <2>2 DEF HandScarce
    <3>2. \A c \in S : Forwards!HolderCount(c) < Forwards!ScarceLimit
      BY <1>1, <1>2, <2>2, SettledHolders, SameLimit DEF HandScarce
    <3> QED BY <3>1, <3>2, SameCardinality DEF Forwards!Permitted
  <2> QED BY <1>1, <2>1, <2>2
<1>6. \A c \in S, left \in validated \ (settled[p] \cup S) :
        Forwards!HolderCount(c) <= Forwards!HolderCount(left)
  <2>1. validated \ (settled[p] \cup S) = validated \ peerAvail[p]
    BY <1>2, <1>3
  <2> QED BY <1>1, <1>2, <2>1, SettledHolders DEF HandScarce
<1>7. settled' = [settled EXCEPT ![p] = @ \cup S]
  <2>1. hand' = NoChunk /\ peerAvail' = peerAvail
    BY DEF Enqueue, HandOver
  <2>2. \A q \in Peer : SettledAvail(q)' = IF q = p THEN SettledAvail(q) \cup S ELSE SettledAvail(q)
    BY <1>1, <1>2, <2>1, PeerAssumption DEF SettledAvail, NoChunk
  <2> QED BY <1>1, <2>2
<1>8. /\ handed' = [handed EXCEPT ![p] = @ \cup S] /\ inFlight' = inFlight \cup {p}
      /\ UNCHANGED <<validated, role>>
  BY DEF Enqueue, HandOver
<1> QED BY <1>1, <1>2, <1>4, <1>5, <1>6, <1>7, <1>8, SameCardinality DEF Forwards!Send

(* Every step of the loop, of a sender or of a reader is a step of the policy or
   none. *)
LEMMA StepOfPolicy ==
  ASSUME BudgetInv, IndexInv, SenderTypes, HandScarce, [Next]_vars
  PROVE  [Forwards!ForwardNext]_(Forwards!forwardVars)
<1> DEFINE settled == [q \in Peer |-> SettledAvail(q)]
<1>1. LoopInv /\ LoopInv' /\ HandInv /\ CountsAndLevels
  BY NextLoopInv, IndexInvUnfolded DEF BudgetInv
<1>2. ASSUME UNCHANGED <<validated, role, inFlight, handed>>,
             \A q \in Peer : SettledAvail(q)' = SettledAvail(q)
      PROVE  UNCHANGED Forwards!forwardVars
  BY <1>2 DEF Forwards!forwardVars
<1>3. ASSUME UNCHANGED <<peerAvail, hand>> PROVE \A q \in Peer : SettledAvail(q)' = SettledAvail(q)
  BY <1>3 DEF SettledAvail
<1>4. ASSUME NEW p \in Peer, NEW d \in Data, NEW P \in SUBSET Position,
             InboundData(p, d, P) \/ InboundBitmap(p, d, P)
      PROVE  Forwards!ForwardNext
  <2>1. {d} \X P \in SUBSET Candidate
    BY DEF Candidate
  <2>2. hand = NoChunk /\ hand' = NoChunk /\ MarkHolders(p, {d} \X P)
        /\ UNCHANGED <<validated, role, inFlight, handed>>
    BY <1>4 DEF InboundData, InboundBitmap, ReceiveBatch, ReceiveAvailable, schedVars,
                historyVars, NoChunk
  <2>3. \A q \in Peer : peerAvail'[q] =
          IF q = p THEN peerAvail[q] \cup ({d} \X P) ELSE peerAvail[q]
    BY <1>1, <2>2 DEF MarkHolders, CountsAndLevels
  <2>4. \A q \in Peer : SettledAvail(q)' =
          IF q = p THEN SettledAvail(q) \cup ({d} \X P) ELSE SettledAvail(q)
    BY <2>2, <2>3, PeerAssumption DEF SettledAvail, NoChunk
  <2>5. settled' = [settled EXCEPT ![p] = @ \cup ({d} \X P)]
    BY <2>4
  <2>6. Forwards!Learn(p, {d} \X P)
    BY <2>2, <2>5 DEF Forwards!Learn
  <2> QED BY <2>1, <2>6 DEF Forwards!ForwardNext
<1>5. ASSUME (\E batch \in inVerifier : OnValidated(batch)) \/ (\E c \in Candidate : OnPublishLocal(c))
      PROVE  Forwards!ForwardNext
  <2>1. PICK S \in SUBSET Candidate : validated' = validated \cup S
    <3>1. inVerifier \subseteq SUBSET Candidate
      BY IndexInvUnfolded
    <3> QED BY <1>5, <3>1 DEF OnValidated, OnPublishLocal, Validated, PublishLocal
  <2>2. UNCHANGED <<peerAvail, hand, role, inFlight, handed>>
    BY <1>5 DEF OnValidated, OnPublishLocal, Validated, PublishLocal, schedVars, historyVars
  <2>3. settled' = settled
    BY <1>3, <2>2
  <2>4. Forwards!Validate(S)
    BY <2>1, <2>2, <2>3 DEF Forwards!Validate
  <2> QED BY <2>1, <2>4 DEF Forwards!ForwardNext
<1>6. ASSUME (\E roles \in [Peer -> Role] : MeshChange(roles)) \/ (\E p \in Peer : OnPeerUp(p))
      PROVE  Forwards!ForwardNext
  <2>1. UNCHANGED <<validated, peerAvail, hand, inFlight, handed>>
    BY <1>6 DEF MeshChange, OnPeerUp, slotVars, historyVars
  <2>2. settled' = settled
    BY <1>3, <2>1
  <2>3. role' \in [Peer -> {"connected", "push", "bitmap"}]
    BY <1>1 DEF LoopInv, Role
  <2>4. Forwards!ChangeRoles(role')
    BY <2>1, <2>2 DEF Forwards!ChangeRoles
  <2> QED BY <2>3, <2>4 DEF Forwards!ForwardNext
<1>7. ASSUME NEW p \in Peer, OnPeerDown(p) \/ OnSendDone(p) PROVE Forwards!ForwardNext
  <2>1. UNCHANGED <<validated, peerAvail, hand, handed>> /\ inFlight' = inFlight \ {p}
        /\ role' \in {role, [role EXCEPT ![p] = "connected"]}
    BY <1>7 DEF OnPeerDown, OnSendDone, ReleaseBudget, ForgetPeer, slotVars
  <2>2. settled' = settled
    BY <1>3, <2>1
  <2>3. Forwards!Release(p)
    BY <2>1, <2>2 DEF Forwards!Release
  <2> QED BY <2>3 DEF Forwards!ForwardNext
<1>8. ASSUME \/ OnTick \/ PushLoopDone \/ BitmapLoopDone
             \/ \E p \in Peer : SenderStep(p) \/ ReaderEnds(p)
             \/ UNCHANGED vars
      PROVE  UNCHANGED Forwards!forwardVars
  <2>1. UNCHANGED <<slotVars, role, inFlight, handed>>
    BY <1>8 DEF OnTick, PushLoopDone, BitmapLoopDone, SenderStep, Take, WriteSucceeds,
                WriteFails, ReaderEnds, vars, schedVars, historyVars
  <2> QED BY <1>2, <1>3, <2>1 DEF slotVars
<1>9. ASSUME NEW p \in todo, ServePush(p) \/ ServeBitmap(p) PROVE UNCHANGED Forwards!forwardVars
  <2>1. p \in Peer /\ sendAllToPushMesh \in BOOLEAN
        /\ NoHolderCountLimit \in HolderCountLimit /\ BitmapHolderLimit \in HolderCountLimit
        /\ UNCHANGED <<role, inFlight, handed>>
    BY <1>1, <1>9, BitmapHolderLimitType
    DEF LoopInv, HolderCountLimit, ServePush, ServeBitmap, schedVars, historyVars
  <2>2. CASE UNCHANGED slotVars
    BY <1>2, <1>3, <2>1, <2>2 DEF slotVars
  <2>3. CASE ~UNCHANGED slotVars
    <3>1. \/ SelectOneChunkForPeer(p, sendAllToPushMesh, NoHolderCountLimit)
          \/ SelectOneChunkForPeer(p, TRUE, BitmapHolderLimit)
      BY <1>9, <2>3, Zenon DEF ServePush, ServeBitmap
    <3>2. \E limit \in HolderCountLimit, allowPartial \in BOOLEAN :
            SelectOneChunkForPeer(p, allowPartial, limit)
      BY <2>1, <3>1
    <3> QED BY <1>2, <2>1, <3>2, DrawnOrTakenBack
  <2> QED BY <2>2, <2>3
<1>10. CASE Enqueue
  <2>1. hand.peer \in Peer /\ hand.cands \in SUBSET Candidate
    BY <1>10, HandTypes DEF Enqueue
  <2> QED BY <1>10, <2>1, EnqueueIsSend DEF Forwards!ForwardNext
<1>11. CASE QueueFull
  <2>1. UNCHANGED <<role, inFlight, handed>>
    BY <1>11 DEF QueueFull, schedVars, historyVars
  <2> QED BY <1>2, <1>11, <2>1, DrawnOrTakenBack DEF QueueFull
<1> QED
  BY <1>4, <1>5, <1>6, <1>7, <1>8, <1>9, <1>10, <1>11
  DEF Next, SlotEvent, PeerEvent, PassStep

(* eventloop.go carries out the send policy, for any peers, budget and chunk size
   and in any order of events: every frame handed to a sender was, when handed
   over, a send to an idle peer of the right mesh, within the budget, of the
   scarcest the peer lacks; a chunk rolled back leaves no trace, and nothing else
   is ever taken off what a peer is known to hold. *)
THEOREM ImplementsForwarding == Spec => ForwardSpec
<1>1. Init => Forwards!ForwardInit
  BY PeerAssumption
  DEF Init, SlotInit, NoChunk, SettledAvail, Forwards!ForwardInit
<1>2. BudgetInv /\ IndexInv /\ SenderTypes /\ HandScarce /\ [Next]_vars
        => [Forwards!ForwardNext]_(Forwards!forwardVars)
  BY StepOfPolicy
<1> QED
  BY <1>1, <1>2, BudgetInvariant, IndexOfScheduler, SenderTypesHold, HandIsScarce, PTL
  DEF Spec, ForwardSpec, Forwards!ForwardSpec

-----------------------------------------------------------------------------
(* One frame in flight *)

(* The frames of a channel or a write, of which there is one at most. *)
Frames(part) == IF part = <<>> THEN 0 ELSE 1

(* What p's sender has of the loop: frames, a completion not dispatched yet, or
   the error it ended with. *)
Underway(p) ==
  Frames(work[p]) + Frames(writing[p]) + sendDones[p] + (IF p \in broken THEN 1 ELSE 0)

(* While p has had one stream set, its sender has one thing of the loop at most,
   and none when the loop takes it to be free.  A second stream set breaks this:
   the completion of a frame of the first frees the sender of the second. *)
OneSendInv ==
  \A p \in Peer :
    /\ sessions[p] = 0 => p \notin senders /\ Underway(p) = 0
    /\ sessions[p] <= 1 => Underway(p) <= 1
    /\ sessions[p] <= 1 /\ p \in senders \ inFlight => Underway(p) = 0

(* The parts of what is under way are numbers, and so is their sum. *)
LEMMA UnderwayType ==
  ASSUME SenderTypes, NEW p \in Peer
  PROVE  /\ sendDones[p] \in Nat /\ sessions[p] \in Nat
         /\ Underway(p) \in Nat
<1>1. sendDones[p] \in Nat /\ sessions[p] \in Nat
  BY SessionAssumption DEF SenderTypes
<1>2. Frames(work[p]) \in {0, 1} /\ Frames(writing[p]) \in {0, 1}
  BY DEF Frames
<1> QED BY <1>1, <1>2 DEF Underway

(* A part with at most one frame is as long as it has frames. *)
LEMMA FramesAreLength ==
  ASSUME NEW part \in AtMostOne(FrameType)
  PROVE  Len(part) = Frames(part)
<1>1. ASSUME part = <<>> PROVE Len(part) = Frames(part)
  BY <1>1 DEF Frames
<1>2. ASSUME NEW f, part = <<f>> PROVE Len(part) = Frames(part)
  BY <1>2 DEF Frames
<1> QED BY <1>1, <1>2 DEF AtMostOne

(* What a step that leaves p's stream set and claim alone has to show. *)
LEMMA OneSendStays ==
  ASSUME OneSendInv, NEW p \in Peer, sessions'[p] = sessions[p],
         p \in senders' => p \in senders, p \in inFlight => p \in inFlight',
         Underway(p)' = Underway(p)
  PROVE  /\ sessions'[p] = 0 => p \notin senders' /\ Underway(p)' = 0
         /\ sessions'[p] <= 1 => Underway(p)' <= 1
         /\ sessions'[p] <= 1 /\ p \in senders' \ inFlight' => Underway(p)' = 0
BY DEF OneSendInv

(* A manager without streams. *)
LEMMA InitOneSendInv == Init => OneSendInv
BY DEF Init, OneSendInv, Underway, Frames

(* A frame moves on, a completion is dispatched, streams are reset: the one thing
   under way changes its place or goes. *)
LEMMA NextOneSendInv ==
  BudgetInv /\ SenderTypes /\ OneSendInv /\ [Next]_vars => OneSendInv'
<1> SUFFICES ASSUME BudgetInv, SenderTypes, OneSendInv, [Next]_vars PROVE OneSendInv'
  OBVIOUS
<1> DEFINE Holds(p) ==
      /\ sessions[p] = 0 => p \notin senders /\ Underway(p) = 0
      /\ sessions[p] <= 1 => Underway(p) <= 1
      /\ sessions[p] <= 1 /\ p \in senders \ inFlight => Underway(p) = 0
<1>1. /\ LoopInv /\ HandInv /\ inFlight \subseteq senders
      /\ \A p \in Peer : Holds(p)
  BY DEF BudgetInv, AccountInv, BudgetExact, OneSendInv
<1>2. ASSUME UNCHANGED <<senders, inFlight, work, writing, broken, sessions, sendDones>>
      PROVE  OneSendInv'
  BY <1>2, OneSendStays DEF OneSendInv, Underway
<1>3. CASE SlotEvent \/ OnTick \/ (\E roles \in [Peer -> Role] : MeshChange(roles))
           \/ (\E p \in Peer : ReaderEnds(p))
           \/ (\E p \in todo : ServePush(p) \/ ServeBitmap(p))
           \/ PushLoopDone \/ BitmapLoopDone \/ QueueFull \/ UNCHANGED vars
  BY <1>2, <1>3
  DEF SlotEvent, InboundData, InboundBitmap, OnValidated, OnPublishLocal, OnTick, MeshChange,
      ReaderEnds, ServePush, ServeBitmap, PushLoopDone, BitmapLoopDone,
      QueueFull, vars, schedVars, senderVars, historyVars
<1>4. ASSUME NEW p \in Peer, OnPeerUp(p) PROVE OneSendInv'
  <2>1. /\ UNCHANGED <<inFlight, work, writing, broken, sendDones>>
        /\ sessions'[p] = sessions[p] + 1 /\ sessions[p] \in Nat
        /\ \A q \in Peer : q # p => sessions'[q] = sessions[q] /\ (q \in senders' <=> q \in senders)
    BY <1>4, UnderwayType DEF OnPeerUp, SenderTypes
  <2>2. \A q \in Peer : Underway(q)' = Underway(q)
    BY <2>1 DEF Underway
  <2>3. Holds(p)'
    BY <1>1, <2>1, <2>2
  <2>4. ASSUME NEW q \in Peer, q # p PROVE Holds(q)'
    BY <1>1, <2>1, <2>2, <2>4
  <2> QED BY <2>3, <2>4 DEF OneSendInv
<1>5. ASSUME NEW p \in Peer, OnPeerDown(p) PROVE OneSendInv'
  <2>1. /\ sessions' = sessions /\ sendDones' = sendDones
        /\ senders' = senders \ {p} /\ inFlight' = inFlight \ {p} /\ broken' = broken \ {p}
        /\ work'[p] = <<>> /\ writing'[p] = <<>>
        /\ \A q \in Peer : q # p => work'[q] = work[q] /\ writing'[q] = writing[q]
    BY <1>5 DEF OnPeerDown, ForgetPeer, ReleaseBudget, ResetStreams, SenderTypes
  <2>2. Underway(p)' = sendDones[p] /\ sendDones[p] <= Underway(p) /\ sendDones[p] \in Nat
        /\ Underway(p) \in Nat
    BY <2>1, UnderwayType DEF Underway, Frames
  <2>3. Holds(p)'
    BY <1>1, <2>1, <2>2
  <2>4. ASSUME NEW q \in Peer, q # p PROVE Holds(q)'
    BY <1>1, <2>1, <2>4 DEF Underway
  <2> QED BY <2>3, <2>4 DEF OneSendInv
<1>6. ASSUME NEW p \in Peer, OnSendDone(p) PROVE OneSendInv'
  <2>1. /\ UNCHANGED <<senders, work, writing, broken, sessions>>
        /\ inFlight' = inFlight \ {p}
        /\ sendDones'[p] = sendDones[p] - 1 /\ sendDones[p] > 0
        /\ \A q \in Peer : q # p => sendDones'[q] = sendDones[q]
    BY <1>6 DEF OnSendDone, ReleaseBudget, SenderTypes
  <2>2. Underway(p)' = Underway(p) - 1 /\ Underway(p) \in Nat /\ Underway(p) >= 1
    BY <2>1, UnderwayType DEF Underway, Frames
  <2>3. Holds(p)'
    BY <1>1, <2>1, <2>2
  <2>4. ASSUME NEW q \in Peer, q # p PROVE Holds(q)'
    BY <1>1, <2>1, <2>4 DEF Underway
  <2> QED BY <2>3, <2>4 DEF OneSendInv
<1>7. CASE Enqueue
  <2>0. PICK p : p = hand.peer
    OBVIOUS
  <2>1. p \in senders \ inFlight /\ p \in Peer /\ work[p] = <<>>
    BY <1>1, <1>7, <2>0 DEF Enqueue, HandInv, LoopInv
  <2>2. /\ UNCHANGED <<senders, writing, broken, sessions, sendDones>>
        /\ inFlight' = inFlight \cup {p}
        /\ work'[p] # <<>>
        /\ \A q \in Peer : q # p => work'[q] = work[q]
    BY <1>7, <2>0, <2>1 DEF Enqueue, SenderTypes
  <2>3. Underway(p)' = Underway(p) + 1 /\ Underway(p) \in Nat
    BY <2>1, <2>2, UnderwayType DEF Underway, Frames
  <2>4. Holds(p)'
    BY <1>1, <2>1, <2>2, <2>3
  <2>5. ASSUME NEW q \in Peer, q # p PROVE Holds(q)'
    BY <1>1, <2>2, <2>5 DEF Underway
  <2> QED BY <2>4, <2>5 DEF OneSendInv
<1>8. ASSUME NEW p \in Peer, SenderStep(p) PROVE OneSendInv'
  <2>1. UNCHANGED <<senders, inFlight, sessions>>
    BY <1>8 DEF SenderStep, Take, WriteSucceeds, WriteFails, schedVars
  <2>2. \A q \in Peer \ {p} : Underway(q)' = Underway(q)
    BY <1>8 DEF SenderStep, Take, WriteSucceeds, WriteFails, SenderTypes, Underway
  <2>3. CASE Take(p)
    <3>1. work'[p] = <<>> /\ writing'[p] = work[p] /\ writing[p] = <<>>
          /\ UNCHANGED <<broken, sendDones>>
      BY <2>3 DEF Take, SenderTypes
    <3>2. Underway(p)' = Underway(p)
      BY <3>1, UnderwayType DEF Underway, Frames
    <3> QED BY <2>1, <2>2, <3>2, OneSendStays DEF OneSendInv
  <2>4. CASE WriteSucceeds(p)
    <3>1. writing'[p] = <<>> /\ writing[p] # <<>> /\ sendDones'[p] = sendDones[p] + 1
          /\ UNCHANGED <<work, broken>>
      BY <2>4 DEF WriteSucceeds, SenderTypes
    <3>2. Underway(p)' = Underway(p)
      BY <3>1, UnderwayType DEF Underway, Frames
    <3> QED BY <2>1, <2>2, <3>2, OneSendStays DEF OneSendInv
  <2>5. CASE WriteFails(p)
    <3>1. writing'[p] = <<>> /\ writing[p] # <<>> /\ broken' = broken \cup {p}
          /\ UNCHANGED <<work, sendDones>>
      BY <2>5 DEF WriteFails, SenderTypes
    <3>2. Underway(p)' <= Underway(p) /\ Underway(p) >= 1 /\ Underway(p) \in Nat
          /\ Underway(p)' \in Nat
      BY <3>1, UnderwayType DEF Underway, Frames
    <3>3. Holds(p)'
      BY <1>1, <2>1, <3>2
    <3> QED BY <1>1, <2>1, <2>2, <3>3 DEF OneSendInv
  <2> QED BY <1>8, <2>3, <2>4, <2>5 DEF SenderStep
<1> QED BY <1>3, <1>4, <1>5, <1>6, <1>7, <1>8 DEF Next, PeerEvent, PassStep

(* The claim on a peer's sender is exact on its first stream set. *)
THEOREM OneSendOnFirstStreams == Spec => []OneSendInv
BY InitOneSendInv, NextOneSendInv, BudgetInvariant, SenderTypesHold, PTL DEF Spec

(* Strict one-in-flight flow control, as long as no peer's streams come up a
   second time. *)
THEOREM OneFrameWithoutReconnects ==
  ASSUME MaxSessions <= 1
  PROVE  Spec => []StrictOneInFlight
<1>1. SenderTypes /\ OneSendInv => StrictOneInFlight
  <2> SUFFICES ASSUME SenderTypes, OneSendInv, NEW p \in Peer
               PROVE  Len(work[p]) + Len(writing[p]) <= 1
    BY DEF StrictOneInFlight
  <2>1. sessions[p] <= 1
    BY SessionAssumption DEF SenderTypes
  <2>2. /\ work[p] \in AtMostOne(FrameType) /\ writing[p] \in AtMostOne(FrameType)
        /\ sendDones[p] \in Nat
    BY DEF SenderTypes
  <2>3. Underway(p) <= 1
    BY <2>1 DEF OneSendInv
  <2>4. Frames(work[p]) + Frames(writing[p]) <= 1
    BY <2>2, <2>3 DEF Underway, Frames
  <2> QED BY <2>2, <2>4, FramesAreLength
<1> QED BY <1>1, OneSendOnFirstStreams, SenderTypesHold, PTL

(* On its first stream set a peer's channel is never full when a chunk was drawn
   for it: no roll-back, and no chunk drawn in vain. *)
ChunkFindsRoom ==
  hand # NoChunk /\ sessions[hand.peer] <= 1 => work[hand.peer] = <<>>

(* rollbackChunk is reached after a reconnect only. *)
THEOREM RollbackNeedsReconnect == Spec => []ChunkFindsRoom
<1>1. BudgetInv /\ SenderTypes /\ OneSendInv => ChunkFindsRoom
  <2> SUFFICES ASSUME BudgetInv, SenderTypes, OneSendInv,
                      hand # NoChunk, sessions[hand.peer] <= 1
               PROVE  work[hand.peer] = <<>>
    BY DEF ChunkFindsRoom
  <2>1. hand.peer \in Peer /\ hand.peer \in senders \ inFlight
    BY DEF BudgetInv, LoopInv, HandInv
  <2> QED BY <2>1, UnderwayType DEF OneSendInv, Underway, Frames
<1> QED BY <1>1, OneSendOnFirstStreams, SenderTypesHold, BudgetInvariant, PTL
=============================================================================
