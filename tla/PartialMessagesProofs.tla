----------------------- MODULE PartialMessagesProofs -----------------------
(***************************************************************************)
(* Proofs about PartialMessages, for any nodes and meshes, any limits and  *)
(* either strategy.                                                        *)
(*                                                                         *)
(* Counts are compared with sets of peers: every request that was sent and *)
(* every forward has a peer of its own, so the counts bound the sets, or   *)
(* the other way about.  What a node takes another to have is compared     *)
(* with that other node and the messages on their way to it, in order.     *)
(***************************************************************************)
EXTENDS PartialMessages, FiniteSetTheorems, SequenceTheorems, TLAPS

-----------------------------------------------------------------------------
(* Types *)

LEMMA CountedType ==
  ASSUME NEW c \in [Attestation -> Nat], NEW atts
  PROVE  Counted(c, atts) \in [Attestation -> Nat]
BY DEF Counted

(* The index stays a family of sets of attestations. *)
LEMMA IndexType ==
  ASSUME TypeOK, NEW n \in Node, NEW atts \in SUBSET Attestation
  PROVE  /\ IndexAddValidated(n, atts) \in [Count -> SUBSET Attestation]
         /\ IndexBump(n, atts) \in [Count -> SUBSET Attestation]
<1>1. levels[n] \in [Count -> SUBSET Attestation]
  BY DEF TypeOK
<1>2. \A k \in Count : levels[n][k] \in SUBSET Attestation
  BY <1>1
<1> QED BY <1>2 DEF IndexAddValidated, IndexBump

(* What is sent to a peer is made of attestations and data. *)
LEMMA SelectionType ==
  ASSUME TypeOK, NEW n \in Node, NEW p \in Node
  PROVE  /\ AttestationsToSend(n, p) \subseteq Attestation
         /\ IndexedFor(n, p) \subseteq Attestation
         /\ ListFor(n, p) \subseteq Attestation
<1>1. AttestationsToSend(n, p) \subseteq Attestation
  BY DEF TypeOK, AttestationsToSend
<1>2. IndexedFor(n, p) \subseteq Attestation
  <2>1. levels[n] \in [Count -> SUBSET Attestation]
    BY DEF TypeOK
  <2> QED BY <2>1 DEF IndexedFor
<1>3. ListFor(n, p) \subseteq Attestation
  BY DEF TypeOK, ListFor, News
<1> QED BY <1>1, <1>2, <1>3

LEMMA DataOfType ==
  ASSUME NEW atts \in SUBSET Attestation
  PROVE  DataOf(atts) \subseteq Data
BY DEF DataOf, Attestation

LEMMA MessageType ==
  ASSUME TypeOK, NEW n \in Node, NEW p \in Node, NEW list \in SUBSET Attestation,
         NEW reqs \in SUBSET Attestation, NEW atts \in SUBSET Attestation
  PROVE  Message(n, p, list, reqs, atts) \in RPC
<1>1. FullMetadata(n, p, list \cup reqs) \in SUBSET Data
  BY DEF TypeOK, FullMetadata
<1>2. FullBatches(n, p, atts) \in SUBSET Data
  BY DEF TypeOK, FullBatches
<1> QED BY <1>1, <1>2 DEF Message, RPC

LEMMA SentType ==
  ASSUME NEW queue \in Seq(RPC), NEW rpc \in RPC
  PROVE  Sent(queue, rpc) \in Seq(RPC)
BY DEF Sent

LEMMA PeersType ==
  ASSUME TypeOK, NEW n \in Node
  PROVE  MeshPeers(n) \subseteq Node /\ Peers(n) \subseteq Node
BY DEF TypeOK, MeshPeers, Peers

(* A tick's local variables are typed, and it ends with them as they were. *)
LEMMA TypeVisit ==
  ASSUME TypeOK, NEW n \in Node, NEW p \in Node, VisitPeer(n, p)
  PROVE  TypeOK'
<1> DEFINE atts == AttestationsToSend(n, p)
           list == ListFor(n, p)
           reqs == wants[p] \ sentRequests[n][p]
           rpc  == Message(n, p, list, reqs, atts)
<1>1. /\ atts \in SUBSET Attestation /\ list \in SUBSET Attestation
      /\ reqs \in SUBSET Attestation
  BY SelectionType DEF TypeOK
<1>2. rpc \in RPC
  BY <1>1, MessageType
<1>3. rpc.dataFull \in SUBSET Data /\ rpc.metaFull \in SUBSET Data
  BY <1>2 DEF RPC
<1>4. Sent(chan[n][p], rpc) \in Seq(RPC)
  BY <1>2, SentType DEF TypeOK
<1>5. Counted(sendCount[n], atts) \in [Attestation -> Nat]
  BY CountedType DEF TypeOK
<1> HIDE DEF atts, list, reqs, rpc
<1>6. PublishTo(n, p) /\ available' = [available EXCEPT ![n][p] = @ \cup atts]
      /\ sendCount' = [sendCount EXCEPT ![n] = Counted(@, atts)]
      /\ sentAvailable' = [sentAvailable EXCEPT ![n][p] = @ \cup list]
      /\ sentRequests' = [sentRequests EXCEPT ![n][p] = @ \cup reqs]
      /\ sentDataFull' = [sentDataFull EXCEPT ![n][p] = @ \cup rpc.dataFull]
      /\ sentMetaFull' = [sentMetaFull EXCEPT ![n][p] = @ \cup rpc.metaFull]
      /\ chan' = [chan EXCEPT ![n][p] = Sent(@, rpc)]
  BY DEF VisitPeer, PublishTo, atts, list, reqs, rpc
<1>7. available' \in [Node -> [Node -> SUBSET Attestation]]
  BY <1>1, <1>6 DEF TypeOK
<1>8. sendCount' \in [Node -> [Attestation -> Nat]]
  BY <1>5, <1>6 DEF TypeOK
<1>9. /\ sentAvailable' \in [Node -> [Node -> SUBSET Attestation]]
      /\ sentRequests' \in [Node -> [Node -> SUBSET Attestation]]
  BY <1>1, <1>6 DEF TypeOK
<1>10. /\ sentDataFull' \in [Node -> [Node -> SUBSET Data]]
       /\ sentMetaFull' \in [Node -> [Node -> SUBSET Data]]
  BY <1>3, <1>6 DEF TypeOK
<1>11. chan' \in [Node -> [Node -> Seq(RPC)]]
  BY <1>4, <1>6 DEF TypeOK
<1>12. pendingWant' \in [Node -> [Node -> SUBSET Attestation]]
  BY <1>6 DEF TypeOK, PublishTo, VoidRequests
<1>13. /\ gossip' \in [Node -> SUBSET Node] /\ listTo' \in [Node -> SUBSET Node]
       /\ serving' \subseteq Node /\ ticking' \in Node \cup {NoNode}
       /\ wants' \in [Node -> SUBSET Attestation]
  BY DEF TypeOK, VisitPeer
<1> QED BY <1>7, <1>8, <1>9, <1>10, <1>11, <1>12, <1>13 DEF TypeOK, VisitPeer

LEMMA TypeDraw ==
  ASSUME TypeOK, NEW n \in Node, NEW p \in Node, NEW chunk, DrawChunk(n, p, chunk)
  PROVE  TypeOK' /\ chunk \in SUBSET Attestation
<1> DEFINE more == IndexedFor(n, p) # chunk
           tell == SendAvailableWithData /\ more /\ p \notin gossip[n] /\ p \notin told
           list == IF tell THEN validated[n] \ sentAvailable[n][p] ELSE {}
           rpc  == Message(n, p, list, {}, chunk)
<1>1. chunk \in SUBSET Attestation /\ list \in SUBSET Attestation
  BY SelectionType DEF TypeOK, DrawChunk, News, Chunks
<1>2. rpc \in RPC
  BY <1>1, MessageType
<1>3. rpc.dataFull \in SUBSET Data /\ rpc.metaFull \in SUBSET Data
  BY <1>2 DEF RPC
<1>4. Sent(chan[n][p], rpc) \in Seq(RPC)
  BY <1>2, SentType DEF TypeOK
<1>5. Counted(sendCount[n], chunk) \in [Attestation -> Nat]
  BY CountedType DEF TypeOK
<1>6. IndexBump(n, chunk) \in [Count -> SUBSET Attestation]
  BY <1>1, IndexType
<1> HIDE DEF more, tell, list, rpc
<1>7. /\ available' = [available EXCEPT ![n][p] = @ \cup chunk]
      /\ sendCount' = [sendCount EXCEPT ![n] = Counted(@, chunk)]
      /\ levels' = [levels EXCEPT ![n] = IndexBump(n, chunk)]
      /\ sentAvailable' = [sentAvailable EXCEPT ![n][p] = @ \cup list]
      /\ sentDataFull' = [sentDataFull EXCEPT ![n][p] = @ \cup rpc.dataFull]
      /\ sentMetaFull' = [sentMetaFull EXCEPT ![n][p] = @ \cup rpc.metaFull]
      /\ told' = IF list # {} THEN told \cup {p} ELSE told
      /\ chan' = [chan EXCEPT ![n][p] = Sent(@, rpc)]
  BY DEF DrawChunk, News, more, tell, list, rpc
<1>8. /\ available' \in [Node -> [Node -> SUBSET Attestation]]
      /\ sentAvailable' \in [Node -> [Node -> SUBSET Attestation]]
  BY <1>1, <1>7 DEF TypeOK
<1>9. /\ sendCount' \in [Node -> [Attestation -> Nat]]
      /\ levels' \in [Node -> [Count -> SUBSET Attestation]]
  BY <1>5, <1>6, <1>7 DEF TypeOK
<1>10. /\ sentDataFull' \in [Node -> [Node -> SUBSET Data]]
       /\ sentMetaFull' \in [Node -> [Node -> SUBSET Data]]
  BY <1>3, <1>7 DEF TypeOK
<1>11. chan' \in [Node -> [Node -> Seq(RPC)]]
  BY <1>4, <1>7 DEF TypeOK
<1>12. told' \subseteq Node /\ serving' \subseteq Node
  BY <1>7, PeersType DEF TypeOK, DrawChunk, News
<1> QED BY <1>1, <1>8, <1>9, <1>10, <1>11, <1>12 DEF TypeOK, DrawChunk, News, peerVars

LEMMA TypeClose ==
  ASSUME TypeOK, NEW n \in Node, CloseTick(n)
  PROVE  TypeOK'
<1> DEFINE list == [p \in Node |-> IF p \in gossip[n] THEN ListFor(n, p) ELSE {}]
           reqs == [p \in Node |-> IF p \in gossip[n] THEN wants[p] \ sentRequests[n][p] ELSE {}]
           rpc  == [p \in Node |-> Message(n, p, list[p], reqs[p], {})]
<1>1. \A p \in Node : list[p] \in SUBSET Attestation /\ reqs[p] \in SUBSET Attestation
  BY SelectionType DEF TypeOK
<1>2. \A p \in Node : rpc[p] \in RPC
  BY <1>1, MessageType
<1>3. \A p \in Node : rpc[p].metaFull \in SUBSET Data
  BY <1>2 DEF RPC
<1>4. \A p \in Node : Sent(chan[n][p], rpc[p]) \in Seq(RPC)
  <2> HIDE DEF rpc
  <2>1. \A p \in Node : chan[n][p] \in Seq(RPC)
    BY DEF TypeOK
  <2> QED BY <1>2, <2>1, SentType
<1> HIDE DEF list, reqs, rpc
<1>5. /\ pendingWant' = [pendingWant EXCEPT ![n] =
                           [p \in Node |-> IF p \in Peers(n) THEN {} ELSE @[p]]]
      /\ sentAvailable' = [sentAvailable EXCEPT ![n] = [p \in Node |-> @[p] \cup list[p]]]
      /\ sentRequests' = [sentRequests EXCEPT ![n] = [p \in Node |-> @[p] \cup reqs[p]]]
      /\ sentMetaFull' = [sentMetaFull EXCEPT ![n] = [p \in Node |-> @[p] \cup rpc[p].metaFull]]
      /\ chan' = [chan EXCEPT ![n] = [p \in Node |-> Sent(@[p], rpc[p])]]
  BY DEF CloseTick, list, reqs, rpc
<1>6. pendingWant' \in [Node -> [Node -> SUBSET Attestation]]
  BY <1>5 DEF TypeOK
<1>7. /\ sentAvailable' \in [Node -> [Node -> SUBSET Attestation]]
      /\ sentRequests' \in [Node -> [Node -> SUBSET Attestation]]
  BY <1>1, <1>5 DEF TypeOK
<1>8. sentMetaFull' \in [Node -> [Node -> SUBSET Data]]
  BY <1>3, <1>5 DEF TypeOK
<1>9. chan' \in [Node -> [Node -> Seq(RPC)]]
  BY <1>4, <1>5 DEF TypeOK
<1> QED BY <1>6, <1>7, <1>8, <1>9 DEF TypeOK, CloseTick

LEMMA TypeReceive ==
  ASSUME TypeOK, NEW n \in Node, NEW p \in Node, OnIncomingRPC(n, p)
  PROVE  TypeOK'
<1> DEFINE rpc   == Head(chan[p][n])
           known == identities[n] \cup rpc.metaFull \cup rpc.dataFull
           got   == {a \in rpc.sent : a[1] \in known}
           new   == got \ held[n]
<1>1. chan[p][n] \in Seq(RPC) /\ chan[p][n] # <<>>
  BY DEF TypeOK, OnIncomingRPC, Known
<1>2. rpc \in RPC /\ Tail(chan[p][n]) \in Seq(RPC)
  BY <1>1
<1>3. /\ rpc.available \in SUBSET Attestation /\ rpc.requests \in SUBSET Attestation
      /\ rpc.sent \in SUBSET Attestation
      /\ rpc.metaFull \in SUBSET Data /\ rpc.dataFull \in SUBSET Data
  BY <1>2 DEF RPC
<1> HIDE DEF rpc
<1>4. known \in SUBSET Data /\ got \in SUBSET Attestation /\ new \in SUBSET Attestation
  BY <1>3 DEF TypeOK
<1>5. DataOf(rpc.available \cup rpc.requests \cup got) \subseteq Data
  BY <1>3, <1>4, DataOfType
<1>6. {{a \in new : a[1] = d} : d \in DataOf(new)} \subseteq SUBSET Attestation
  BY <1>4
<1> HIDE DEF known, got, new
<1>7. /\ identities' = [identities EXCEPT ![n] = known]
      /\ buckets' = [buckets EXCEPT ![n] =
                       @ \cup DataOf(rpc.available \cup rpc.requests \cup got)]
      /\ available' = [available EXCEPT ![n][p] = @ \cup rpc.available \cup got]
      /\ pendingWant' = [pendingWant EXCEPT ![n][p] = @ \cup rpc.requests]
      /\ gossip' = [gossip EXCEPT ![n] = IF ShowsGossip(rpc) THEN @ \cup {p} ELSE @]
      /\ held' = [held EXCEPT ![n] = @ \cup new]
      /\ verifying' = [verifying EXCEPT ![n] =
                         @ \cup {{a \in new : a[1] = d} : d \in DataOf(new)}]
      /\ chan' = [chan EXCEPT ![p][n] = Tail(@)]
  BY DEF OnIncomingRPC, Known, rpc, known, got, new
<1>8. /\ identities' \in [Node -> SUBSET Data] /\ buckets' \in [Node -> SUBSET Data]
  BY <1>4, <1>5, <1>7 DEF TypeOK
<1>9. /\ available' \in [Node -> [Node -> SUBSET Attestation]]
      /\ pendingWant' \in [Node -> [Node -> SUBSET Attestation]]
  <2>1. /\ available' = [available EXCEPT ![n][p] = @ \cup rpc.available \cup got]
        /\ pendingWant' = [pendingWant EXCEPT ![n][p] = @ \cup rpc.requests]
    BY <1>7
  <2> QED BY <1>3, <1>4, <2>1 DEF TypeOK
<1>10. gossip' \in [Node -> SUBSET Node] /\ held' \in [Node -> SUBSET Attestation]
  <2>1. held' \in [Node -> SUBSET Attestation]
    <3>1. held' = [held EXCEPT ![n] = @ \cup new]
      BY <1>7
    <3> QED BY <1>4, <3>1 DEF TypeOK
  <2>2. gossip' \in [Node -> SUBSET Node]
    <3>1. gossip' = [gossip EXCEPT ![n] = IF ShowsGossip(rpc) THEN @ \cup {p} ELSE @]
      BY <1>7
    <3> QED BY <3>1 DEF TypeOK
  <2> QED BY <2>1, <2>2
<1>11. verifying' \in [Node -> SUBSET (SUBSET Attestation)]
  BY <1>6, <1>7 DEF TypeOK
<1>12. chan' \in [Node -> [Node -> Seq(RPC)]]
  BY <1>2, <1>7 DEF TypeOK
<1>13. UNCHANGED <<strategy, phase, published, validated, sendCount, requestCount, levels,
                   sentAvailable, sentRequests, sentVars, listTo, tickVars>>
  BY DEF OnIncomingRPC, Known
<1> QED BY <1>8, <1>9, <1>10, <1>11, <1>12, <1>13 DEF TypeOK, sentVars, tickVars

LEMMA TypeFanout ==
  ASSUME TypeOK, NEW n \in Node, NEW a \in Own[n], FanoutPublish(n, a)
  PROVE  TypeOK'
<1> DEFINE rpc == [available |-> {}, requests |-> {}, metaFull |-> {},
                   sent |-> {a}, dataFull |-> {a[1]}]
<1>1. a \in Attestation
  BY OwnAssumption DEF Attestation
<1>2. rpc \in RPC
  BY <1>1 DEF RPC, Attestation
<1>3. \A p \in Node : Append(chan[n][p], rpc) \in Seq(RPC)
  BY <1>2 DEF TypeOK
<1> HIDE DEF rpc
<1>4. chan' = [chan EXCEPT ![n] =
        [p \in Node |-> IF p \in FanoutPeers[n] THEN Append(@[p], rpc) ELSE @[p]]]
  BY DEF FanoutPublish, rpc
<1>5. chan' \in [Node -> [Node -> Seq(RPC)]]
  BY <1>3, <1>4 DEF TypeOK
<1>6. published' \in [Node -> SUBSET Attestation]
  BY <1>1 DEF TypeOK, FanoutPublish
<1> QED BY <1>5, <1>6 DEF TypeOK, FanoutPublish, slotVars, sentVars, peerVars, tickVars

LEMMA TypePublish ==
  ASSUME TypeOK, NEW n \in Node, NEW a \in Own[n], PublishLocal(n, a)
  PROVE  TypeOK'
<1>1. a \in Attestation /\ a[1] \in Data
  BY OwnAssumption DEF Attestation
<1>2. IndexAddValidated(n, {a}) \in [Count -> SUBSET Attestation]
  BY <1>1, IndexType
<1>3. /\ validated' \in [Node -> SUBSET Attestation]
      /\ levels' \in [Node -> [Count -> SUBSET Attestation]]
  <2> USE <1>1, <1>2 DEF TypeOK
  <2>1. CASE a \notin held[n]
    <3>1. /\ validated' = [validated EXCEPT ![n] = @ \cup {a}]
          /\ levels' = [levels EXCEPT ![n] = IndexAddValidated(n, {a})]
      BY <2>1 DEF PublishLocal
    <3>2. validated' \in [Node -> SUBSET Attestation]
      BY <3>1
    <3>3. levels' \in [Node -> [Count -> SUBSET Attestation]]
      BY <3>1
    <3> QED BY <3>2, <3>3
  <2>2. CASE a \in held[n]
    <3>1. UNCHANGED <<validated, levels>>
      BY <2>2 DEF PublishLocal
    <3> QED BY <3>1
  <2> QED BY <2>1, <2>2
<1>4. /\ published' \in [Node -> SUBSET Attestation] /\ identities' \in [Node -> SUBSET Data]
      /\ buckets' \in [Node -> SUBSET Data] /\ held' \in [Node -> SUBSET Attestation]
  BY <1>1 DEF TypeOK, PublishLocal
<1> QED BY <1>3, <1>4 DEF TypeOK, PublishLocal, sentVars, peerVars, tickVars

LEMMA TypeValidate ==
  ASSUME TypeOK, NEW n \in Node, NEW atts, MarkValidated(n, atts)
  PROVE  TypeOK' /\ atts \in SUBSET Attestation
<1>1. atts \in SUBSET Attestation
  BY DEF TypeOK, MarkValidated
<1>2. IndexAddValidated(n, atts) \in [Count -> SUBSET Attestation]
  BY <1>1, IndexType
<1>3. /\ validated' \in [Node -> SUBSET Attestation]
      /\ levels' \in [Node -> [Count -> SUBSET Attestation]]
  <2> USE <1>1, <1>2 DEF TypeOK
  <2>1. CASE DataOf(atts) \subseteq buckets[n]
    <3>1. /\ validated' = [validated EXCEPT ![n] = @ \cup atts]
          /\ levels' = [levels EXCEPT ![n] = IndexAddValidated(n, atts)]
      BY <2>1 DEF MarkValidated
    <3> QED BY <3>1
  <2>2. CASE ~(DataOf(atts) \subseteq buckets[n])
    <3>1. validated' = validated /\ levels' = levels
      BY <2>2 DEF MarkValidated
    <3> QED BY <3>1
  <2> QED BY <2>1, <2>2
<1>4. verifying' \in [Node -> SUBSET (SUBSET Attestation)]
  BY DEF TypeOK, MarkValidated
<1> QED BY <1>1, <1>3, <1>4 DEF TypeOK, MarkValidated, sentVars, peerVars, tickVars

LEMMA TypeSlotEnd ==
  ASSUME TypeOK, NEW n \in Node, SlotEnd(n)
  PROVE  TypeOK'
<1>1. /\ buckets' \in [Node -> SUBSET Data] /\ held' \in [Node -> SUBSET Attestation]
      /\ validated' \in [Node -> SUBSET Attestation]
      /\ phase' \in [Node -> {"fresh", "away", "open", "closed"}]
  BY DEF TypeOK, SlotEnd
<1>2. /\ sendCount' \in [Node -> [Attestation -> Nat]]
      /\ requestCount' \in [Node -> [Attestation -> Nat]]
      /\ levels' \in [Node -> [Count -> SUBSET Attestation]]
  BY DEF TypeOK, SlotEnd
<1>3. /\ available' \in [Node -> [Node -> SUBSET Attestation]]
      /\ pendingWant' \in [Node -> [Node -> SUBSET Attestation]]
      /\ sentAvailable' \in [Node -> [Node -> SUBSET Attestation]]
      /\ sentRequests' \in [Node -> [Node -> SUBSET Attestation]]
  BY DEF TypeOK, SlotEnd
<1> QED BY <1>1, <1>2, <1>3 DEF TypeOK, SlotEnd, sentVars, peerVars, tickVars

LEMMA TypeAsk ==
  ASSUME TypeOK, NEW n \in Node, NEW p \in Node, NEW d \in Data, SelectIWantTargets(n, p, d)
  PROVE  TypeOK'
<1>1. Askable(n, p, d) \in SUBSET Attestation
  BY DEF TypeOK, Askable
<1>2. Counted(requestCount[n], Askable(n, p, d)) \in [Attestation -> Nat]
  BY CountedType DEF TypeOK
<1>3. requestCount' \in [Node -> [Attestation -> Nat]]
  BY <1>2 DEF TypeOK, SelectIWantTargets
<1>4. wants' \in [Node -> SUBSET Attestation] /\ asking' \subseteq Node \X Data
  BY <1>1 DEF TypeOK, SelectIWantTargets
<1> QED BY <1>3, <1>4 DEF TypeOK, SelectIWantTargets, sentVars, peerVars

LEMMA TypeRest ==
  ASSUME TypeOK, NEW n \in Node, NEW p \in Node, NEW ps,
         SlotStart(n) \/ DropRPC(n, p) \/ OnEmitGossip(n, ps) \/ PublishTick(n)
  PROVE  TypeOK'
<1>1. CASE SlotStart(n)
  BY <1>1 DEF TypeOK, SlotStart, slotVars, sentVars, peerVars, tickVars
<1>2. CASE DropRPC(n, p)
  <2>1. Tail(chan[p][n]) \in Seq(RPC)
    BY <1>2 DEF TypeOK, DropRPC
  <2>2. chan' \in [Node -> [Node -> Seq(RPC)]]
    BY <1>2, <2>1 DEF TypeOK, DropRPC
  <2> QED BY <1>2, <2>2 DEF TypeOK, DropRPC, slotVars, sentVars, peerVars, tickVars
<1>3. CASE OnEmitGossip(n, ps)
  <2>1. gossip' \in [Node -> SUBSET Node] /\ listTo' \in [Node -> SUBSET Node]
    BY <1>3 DEF TypeOK, OnEmitGossip, Gossiping
  <2> QED BY <1>3, <2>1 DEF TypeOK, OnEmitGossip, slotVars, sentVars, tickVars
<1>4. CASE PublishTick(n)
  <2>1. asking' \subseteq Node \X Data
    BY <1>4 DEF TypeOK, PublishTick
  <2> QED BY <1>4, <2>1, PeersType DEF TypeOK, PublishTick, slotVars, sentVars, peerVars
<1> QED BY <1>1, <1>2, <1>3, <1>4

LEMMA TypeInit == Init => TypeOK
<1> SUFFICES ASSUME Init PROVE TypeOK
  OBVIOUS
<1>1. <<>> \in Seq(RPC)
  OBVIOUS
<1> QED BY <1>1, FlagAssumption DEF Init, TypeOK

LEMMA TypeStep == TypeOK /\ [Next]_vars => TypeOK'
<1> SUFFICES ASSUME TypeOK, [Next]_vars PROVE TypeOK'
  OBVIOUS
<1>1. CASE UNCHANGED vars
  BY <1>1 DEF TypeOK, vars, slotVars, sentVars, peerVars, tickVars
<1>2. ASSUME NEW n \in Node, NodeStep(n) PROVE TypeOK'
  BY <1>2, TypeRest, TypeSlotEnd, TypePublish, TypeFanout, TypeReceive, TypeValidate
     DEF NodeStep
<1>3. ASSUME NEW n \in Node, TickStep(n) PROVE TypeOK'
  BY <1>3, TypeAsk, TypeVisit, TypeDraw, TypeClose DEF TickStep
<1> QED BY <1>1, <1>2, <1>3 DEF Next

(* Every variable has its type. *)
THEOREM TypesOfPartial == Spec => []TypeOK
BY TypeInit, TypeStep, PTL DEF Spec

-----------------------------------------------------------------------------
(* The level index *)

(* Actions by which no node validates or forwards anything. *)
LEMMA IndexKept ==
  ASSUME NEW n, NEW p, NEW x, NEW y,
         \/ SlotStart(n) \/ FanoutPublish(n, x) \/ DropRPC(n, p) \/ OnIncomingRPC(n, p)
         \/ OnEmitGossip(n, x) \/ PublishTick(n) \/ SelectIWantTargets(n, p, y) \/ CloseTick(n)
  PROVE  UNCHANGED <<strategy, validated, sendCount, levels>>
<1>1. CASE SlotStart(n) BY <1>1 DEF SlotStart, slotVars
<1>2. CASE FanoutPublish(n, x) BY <1>2 DEF FanoutPublish, slotVars
<1>3. CASE DropRPC(n, p) BY <1>3 DEF DropRPC, slotVars
<1>4. CASE OnIncomingRPC(n, p) BY <1>4 DEF OnIncomingRPC, Known
<1>5. CASE OnEmitGossip(n, x) BY <1>5 DEF OnEmitGossip, slotVars
<1>6. CASE PublishTick(n) BY <1>6 DEF PublishTick, slotVars
<1>7. CASE SelectIWantTargets(n, p, y) BY <1>7 DEF SelectIWantTargets
<1>8. CASE CloseTick(n) BY <1>8 DEF CloseTick
<1> QED BY <1>1, <1>2, <1>3, <1>4, <1>5, <1>6, <1>7, <1>8

(* Newly validated attestations enter at their level. *)
LEMMA IndexAdd ==
  ASSUME TypeOK, IndexInvariant, strategy = "priority", NEW n \in Node, NEW atts \in SUBSET Attestation,
         validated' = [validated EXCEPT ![n] = @ \cup atts],
         levels' = [levels EXCEPT ![n] = IndexAddValidated(n, atts)],
         sendCount' = sendCount
  PROVE  IndexInvariant'
<1> SUFFICES ASSUME NEW m \in Node, NEW k \in Count
             PROVE  levels'[m][k] = {x \in validated'[m] : sendCount'[m][x] = k}
  BY DEF IndexInvariant
<1>1. levels[m][k] = {x \in validated[m] : sendCount[m][x] = k}
  BY DEF IndexInvariant
<1>2. CASE m = n
  <2>1. levels'[n][k] = levels[n][k] \cup {x \in atts : sendCount[n][x] = k}
    BY DEF TypeOK, IndexAddValidated
  <2>2. validated'[n] = validated[n] \cup atts
    BY DEF TypeOK
  <2> QED BY <1>1, <1>2, <2>1, <2>2
<1>3. CASE m # n
  BY <1>1, <1>3 DEF TypeOK
<1> QED BY <1>2, <1>3

(* What is forwarded moves up a level, or out of the index. *)
LEMMA IndexBumped ==
  ASSUME TypeOK, IndexInvariant, strategy = "priority", NEW n \in Node, NEW atts \in SUBSET validated[n],
         sendCount' = [sendCount EXCEPT ![n] = Counted(@, atts)],
         levels' = [levels EXCEPT ![n] = IndexBump(n, atts)],
         validated' = validated
  PROVE  IndexInvariant'
<1> SUFFICES ASSUME NEW m \in Node, NEW k \in Count
             PROVE  levels'[m][k] = {x \in validated'[m] : sendCount'[m][x] = k}
  BY DEF IndexInvariant
<1>1. levels[m][k] = {x \in validated[m] : sendCount[m][x] = k}
  BY DEF IndexInvariant
<1>2. CASE m = n
  <2>1. levels'[n][k] = (levels[n][k] \ atts) \cup {x \in atts : sendCount[n][x] + 1 = k}
    BY DEF TypeOK, IndexBump
  <2>2. \A x \in Attestation :
          sendCount'[n][x] = IF x \in atts THEN sendCount[n][x] + 1 ELSE sendCount[n][x]
    BY DEF TypeOK, Counted
  <2>3. validated[n] \subseteq Attestation
    BY DEF TypeOK
  <2> QED BY <1>1, <1>2, <2>1, <2>2, <2>3
<1>3. CASE m # n
  BY <1>1, <1>3 DEF TypeOK
<1> QED BY <1>2, <1>3

(* The index holds what is validated and below the ceiling. *)
LEMMA IndexedIsSendable ==
  ASSUME TypeOK, IndexInvariant, strategy = "priority", NEW n \in Node, NEW p \in Node
  PROVE  IndexedFor(n, p) = AttestationsToSend(n, p)
<1>1. \A x \in validated[n] : sendCount[n][x] < MaxPeersPerAttestation <=> sendCount[n][x] \in Count
  BY LimitAssumption DEF TypeOK, Count
<1>2. UNION {levels[n][k] : k \in Count} = {x \in validated[n] : sendCount[n][x] \in Count}
  BY DEF IndexInvariant
<1> QED BY <1>1, <1>2 DEF IndexedFor, AttestationsToSend

LEMMA IndexStep == TypeOK /\ IndexInvariant /\ [Next]_vars => IndexInvariant'
<1> SUFFICES ASSUME TypeOK, IndexInvariant, [Next]_vars PROVE IndexInvariant'
  OBVIOUS
<1>1. ASSUME UNCHANGED <<strategy, validated, sendCount, levels>> PROVE IndexInvariant'
  BY <1>1 DEF IndexInvariant
<1>2. CASE UNCHANGED vars
  BY <1>1, <1>2 DEF vars, slotVars
<1>3. ASSUME NEW n \in Node, SlotEnd(n) PROVE IndexInvariant'
  <2>1. /\ validated' = [validated EXCEPT ![n] = {}]
        /\ sendCount' = [sendCount EXCEPT ![n] = [x \in Attestation |-> 0]]
        /\ levels' = [levels EXCEPT ![n] = [k \in Count |-> {}]]
        /\ strategy' = strategy
    BY <1>3 DEF SlotEnd
  <2> SUFFICES ASSUME strategy = "priority", NEW m \in Node, NEW k \in Count
               PROVE  levels'[m][k] = {x \in validated'[m] : sendCount'[m][x] = k}
    BY <2>1 DEF IndexInvariant
  <2>2. CASE m = n
    BY <2>1, <2>2 DEF TypeOK
  <2>3. CASE m # n
    BY <2>1, <2>3 DEF TypeOK, IndexInvariant
  <2> QED BY <2>2, <2>3
<1>4. ASSUME NEW n \in Node, NEW x \in Own[n], PublishLocal(n, x) PROVE IndexInvariant'
  <2>1. x \in Attestation
    BY OwnAssumption DEF Attestation
  <2>2. strategy' = strategy /\ sendCount' = sendCount
    BY <1>4 DEF PublishLocal
  <2>3. CASE x \in held[n]
    BY <1>1, <1>4, <2>2, <2>3 DEF PublishLocal
  <2>4. CASE x \notin held[n] /\ strategy = "priority"
    <3>1. /\ validated' = [validated EXCEPT ![n] = @ \cup {x}]
          /\ levels' = [levels EXCEPT ![n] = IndexAddValidated(n, {x})]
      BY <1>4, <2>4 DEF PublishLocal
    <3>2. {x} \in SUBSET Attestation
      BY <2>1
    <3> QED BY <2>2, <2>4, <3>1, <3>2, IndexAdd
  <2>5. CASE strategy # "priority"
    BY <2>2, <2>5 DEF IndexInvariant
  <2> QED BY <2>3, <2>4, <2>5
<1>5. ASSUME NEW n \in Node, NEW atts \in verifying[n], MarkValidated(n, atts) PROVE IndexInvariant'
  <2>1. atts \in SUBSET Attestation
    BY DEF TypeOK
  <2>2. strategy' = strategy /\ sendCount' = sendCount
    BY <1>5 DEF MarkValidated
  <2>3. CASE ~(DataOf(atts) \subseteq buckets[n])
    BY <1>1, <1>5, <2>2, <2>3 DEF MarkValidated
  <2>4. CASE DataOf(atts) \subseteq buckets[n] /\ strategy = "priority"
    <3>1. /\ validated' = [validated EXCEPT ![n] = @ \cup atts]
          /\ levels' = [levels EXCEPT ![n] = IndexAddValidated(n, atts)]
      BY <1>5, <2>4 DEF MarkValidated
    <3> QED BY <2>1, <2>2, <2>4, <3>1, IndexAdd
  <2>5. CASE strategy # "priority"
    BY <2>2, <2>5 DEF IndexInvariant
  <2> QED BY <2>3, <2>4, <2>5
<1>6. ASSUME NEW n \in Node, NEW p \in Node, VisitPeer(n, p) PROVE IndexInvariant'
  BY <1>6 DEF VisitPeer, IndexInvariant
<1>7. ASSUME NEW n \in Node, NEW p \in Node, NEW chunk, DrawChunk(n, p, chunk) PROVE IndexInvariant'
  <2>1. /\ sendCount' = [sendCount EXCEPT ![n] = Counted(@, chunk)]
        /\ levels' = [levels EXCEPT ![n] = IndexBump(n, chunk)]
        /\ strategy = "priority" /\ validated' = validated
        /\ chunk \in SUBSET IndexedFor(n, p)
    BY <1>7 DEF DrawChunk, News, Chunks
  <2>2. chunk \in SUBSET validated[n]
    BY <2>1, IndexedIsSendable DEF AttestationsToSend
  <2> QED BY <2>1, <2>2, IndexBumped
<1> QED BY <1>1, <1>2, <1>3, <1>4, <1>5, <1>6, <1>7, IndexKept DEF Next, NodeStep, TickStep

(* The index holds every attestation at its forward count, and nothing else. *)
THEOREM IndexIsExact == Spec => []IndexInvariant
<1>1. Init => IndexInvariant
  BY DEF Init, IndexInvariant
<1> QED BY <1>1, IndexStep, TypesOfPartial, PTL DEF Spec

-----------------------------------------------------------------------------
(* Gossip peers *)

(* What is under way between ticks and during one.  Whoever is advertised to or
   asked is a gossip peer, a tick that chooses requests visits all of them, and
   no message that shows its sender to be one goes through the mesh. *)
ListsGossip == \A n \in Node : listTo[n] \subseteq gossip[n]

AskingGossip ==
  /\ \A pd \in asking : ticking # NoNode /\ pd[1] \in gossip[ticking]
  /\ \A p \in Node : wants[p] # {} => ticking # NoNode /\ p \in gossip[ticking]
  /\ ticking # NoNode /\ strategy = "partial" => gossip[ticking] \subseteq serving

Innocent(n, p, rpc) ==
  /\ rpc.requests # {} => ShowsGossip(rpc)
  /\ p \in MeshPeers(n) => ~ShowsGossip(rpc)

MeshInnocent ==
  \A n, p \in Node : \A i \in 1 .. Len(chan[n][p]) : Innocent(n, p, chan[n][p][i])

GossipInv ==
  TypeOK /\ ListsGossip /\ AskingGossip /\ MeshInnocent /\ MeshNotGossip /\ RequestsAreServed

LEMMA MeshSymmetric ==
  ASSUME NEW n \in Node, NEW p \in Node
  PROVE  p \in MeshPeers(n) <=> n \in MeshPeers(p)
<1>1. {n, p} = {p, n}
  OBVIOUS
<1> QED BY <1>1 DEF MeshPeers

(* What is said of all messages of a queue holds of the rest, *)
LEMMA TailOf ==
  ASSUME NEW q \in Seq(RPC), q # <<>>
  PROVE  /\ Tail(q) \in Seq(RPC) /\ Len(Tail(q)) = Len(q) - 1
         /\ \A i \in 1 .. Len(Tail(q)) : Tail(q)[i] = q[i + 1] /\ i + 1 \in 1 .. Len(q)
         /\ Head(q) = q[1] /\ 1 \in 1 .. Len(q) /\ Head(q) \in RPC
OBVIOUS

(* and of a queue with one more, if it holds of that one. *)
LEMMA SentOf ==
  ASSUME NEW q \in Seq(RPC), NEW rpc \in RPC, NEW i \in 1 .. Len(Sent(q, rpc))
  PROVE  \/ i \in 1 .. Len(q) /\ Sent(q, rpc)[i] = q[i]
         \/ i = Len(q) + 1 /\ Sent(q, rpc)[i] = rpc
<1>1. CASE Sent(q, rpc) = q
  BY <1>1
<1>2. CASE Sent(q, rpc) = Append(q, rpc)
  <2>1. Len(Append(q, rpc)) = Len(q) + 1
    OBVIOUS
  <2>2. i \in 1 .. Len(q) => Append(q, rpc)[i] = q[i]
    OBVIOUS
  <2>3. Append(q, rpc)[Len(q) + 1] = rpc
    OBVIOUS
  <2> QED BY <1>2, <2>1, <2>2, <2>3
<1> QED BY <1>1, <1>2 DEF Sent

(* A step leaves a queue as it is, takes its head or puts a message at its end. *)
LEMMA InnocentKept ==
  ASSUME TypeOK, MeshInnocent, strategy' = strategy,
         \A n, p \in Node :
           \/ chan'[n][p] = chan[n][p]
           \/ chan[n][p] # <<>> /\ chan'[n][p] = Tail(chan[n][p])
           \/ \E rpc \in RPC : Innocent(n, p, rpc) /\ chan'[n][p] = Sent(chan[n][p], rpc)
  PROVE  MeshInnocent'
<1> SUFFICES ASSUME NEW n \in Node, NEW p \in Node, NEW i \in 1 .. Len(chan'[n][p])
             PROVE  Innocent(n, p, chan'[n][p][i])
  BY DEF MeshInnocent, Innocent, ShowsGossip
<1>1. chan[n][p] \in Seq(RPC)
  BY DEF TypeOK
<1>2. \A j \in 1 .. Len(chan[n][p]) : Innocent(n, p, chan[n][p][j])
  BY DEF MeshInnocent
<1>3. CASE chan'[n][p] = chan[n][p]
  BY <1>2, <1>3
<1>4. CASE chan[n][p] # <<>> /\ chan'[n][p] = Tail(chan[n][p])
  BY <1>1, <1>2, <1>4, TailOf
<1>5. ASSUME NEW rpc \in RPC, Innocent(n, p, rpc), chan'[n][p] = Sent(chan[n][p], rpc)
      PROVE  Innocent(n, p, chan'[n][p][i])
  <2>1. \/ i \in 1 .. Len(chan[n][p]) /\ chan'[n][p][i] = chan[n][p][i]
        \/ chan'[n][p][i] = rpc
    BY <1>1, <1>5, SentOf
  <2> QED BY <1>2, <1>5, <2>1
<1> QED BY <1>3, <1>4, <1>5

LEMMA GossipVisit ==
  ASSUME GossipInv, NEW n \in Node, NEW p \in Node, VisitPeer(n, p)
  PROVE  GossipInv'
<1> DEFINE atts == AttestationsToSend(n, p)
           list == ListFor(n, p)
           reqs == wants[p] \ sentRequests[n][p]
           rpc  == Message(n, p, list, reqs, atts)
<1>1. TypeOK /\ TypeOK'
  BY TypeVisit DEF GossipInv
<1>2. /\ strategy = "partial" /\ strategy' = strategy /\ ticking = n /\ asking = {}
      /\ asking' = {} /\ p \in serving
      /\ gossip' = [gossip EXCEPT ![n] = @ \ {p}]
      /\ listTo' = [listTo EXCEPT ![n] = @ \ {p}]
      /\ serving' = serving \ {p}
      /\ wants' = [wants EXCEPT ![p] = {}]
  BY DEF VisitPeer
<1>3. /\ ticking' = IF serving = {p} THEN NoNode ELSE n
      /\ pendingWant' = [pendingWant EXCEPT ![n][p] = {}]
      /\ chan' = [chan EXCEPT ![n][p] = Sent(@, rpc)]
  BY DEF VisitPeer, PublishTo, VoidRequests
<1>4. n # NoNode
  BY NodeAssumption
<1>5. /\ \A m \in Node : gossip'[m] = IF m = n THEN gossip[m] \ {p} ELSE gossip[m]
      /\ \A m \in Node : listTo'[m] = IF m = n THEN listTo[m] \ {p} ELSE listTo[m]
      /\ \A q \in Node : wants'[q] = IF q = p THEN {} ELSE wants[q]
  BY <1>1, <1>2 DEF TypeOK
<1>6. ListsGossip'
  BY <1>5 DEF GossipInv, ListsGossip
<1>7. AskingGossip'
  <2>1. gossip[n] \subseteq serving /\ \A q \in Node : wants[q] # {} => q \in gossip[n]
    BY <1>2, <1>4 DEF GossipInv, AskingGossip
  <2> QED BY <1>2, <1>3, <1>4, <1>5, <2>1 DEF AskingGossip
<1>8. MeshInnocent'
  <2>1. rpc \in RPC
    BY <1>1, SelectionType, MessageType DEF TypeOK
  <2>2. rpc.requests = reqs /\ rpc.available = list
    BY DEF Message
  <2>3. p \in MeshPeers(n) => list = {} /\ reqs = {}
    <3> SUFFICES ASSUME p \in MeshPeers(n) PROVE list = {} /\ reqs = {}
      OBVIOUS
    <3>1. p \notin gossip[n]
      BY DEF GossipInv, MeshNotGossip
    <3>2. p \notin listTo[n] /\ wants[p] = {}
      BY <3>1, <1>2 DEF GossipInv, ListsGossip, AskingGossip
    <3> QED BY <3>2 DEF ListFor, News
  <2> HIDE DEF rpc, list, reqs
  <2>4. Innocent(n, p, rpc)
    BY <1>2, <2>2, <2>3 DEF Innocent, ShowsGossip
  <2>5. \A m, q \in Node :
          IF m = n /\ q = p THEN chan'[m][q] = Sent(chan[m][q], rpc) ELSE chan'[m][q] = chan[m][q]
    <3>1. chan' = [chan EXCEPT ![n][p] = Sent(@, rpc)]
      BY <1>3
    <3> QED BY <1>1, <3>1 DEF TypeOK
  <2> QED BY <1>1, <1>2, <2>1, <2>4, <2>5, InnocentKept DEF GossipInv
<1>9. MeshNotGossip'
  BY <1>5 DEF GossipInv, MeshNotGossip
<1>10. RequestsAreServed'
  <2>1. \A m, q \in Node : pendingWant'[m][q] = IF m = n /\ q = p THEN {} ELSE pendingWant[m][q]
    <3>1. pendingWant' = [pendingWant EXCEPT ![n][p] = {}]
      BY <1>3
    <3>2. pendingWant \in [Node -> [Node -> SUBSET Attestation]]
      BY <1>1 DEF TypeOK
    <3> QED BY <3>1, <3>2
  <2> QED BY <1>5, <2>1 DEF GossipInv, RequestsAreServed
<1> QED BY <1>1, <1>6, <1>7, <1>8, <1>9, <1>10 DEF GossipInv

LEMMA GossipDraw ==
  ASSUME GossipInv, NEW n \in Node, NEW p \in Node, NEW chunk, DrawChunk(n, p, chunk)
  PROVE  GossipInv'
<1> DEFINE more == IndexedFor(n, p) # chunk
           tell == SendAvailableWithData /\ more /\ p \notin gossip[n] /\ p \notin told
           list == IF tell THEN validated[n] \ sentAvailable[n][p] ELSE {}
           rpc  == Message(n, p, list, {}, chunk)
<1>1. TypeOK /\ TypeOK' /\ chunk \in SUBSET Attestation
  BY TypeDraw DEF GossipInv
<1>2. /\ strategy = "priority" /\ chunk # {}
      /\ UNCHANGED <<strategy, ticking, asking, wants, gossip, listTo, pendingWant>>
  BY DEF DrawChunk, News, Chunks, peerVars
<1>3. chan' = [chan EXCEPT ![n][p] = Sent(@, rpc)]
  BY DEF DrawChunk, News
<1>4. ListsGossip' /\ AskingGossip' /\ MeshNotGossip' /\ RequestsAreServed'
  BY <1>2 DEF GossipInv, ListsGossip, AskingGossip, MeshNotGossip, RequestsAreServed
<1>5. MeshInnocent'
  <2>1. list \in SUBSET Attestation
    BY <1>1 DEF TypeOK
  <2>2. rpc \in RPC
    BY <1>1, <2>1, MessageType
  <2>3. rpc.requests = {} /\ rpc.sent = chunk
    BY DEF Message
  <2> HIDE DEF rpc
  <2>4. Innocent(n, p, rpc)
    BY <1>2, <2>3 DEF Innocent, ShowsGossip
  <2>5. \A m, q \in Node :
          IF m = n /\ q = p THEN chan'[m][q] = Sent(chan[m][q], rpc) ELSE chan'[m][q] = chan[m][q]
    BY <1>1, <1>3 DEF TypeOK
  <2> QED BY <1>1, <1>2, <2>2, <2>4, <2>5, InnocentKept DEF GossipInv
<1> QED BY <1>1, <1>4, <1>5 DEF GossipInv

LEMMA GossipClose ==
  ASSUME GossipInv, NEW n \in Node, CloseTick(n)
  PROVE  GossipInv'
<1> DEFINE list == [p \in Node |-> IF p \in gossip[n] THEN ListFor(n, p) ELSE {}]
           reqs == [p \in Node |-> IF p \in gossip[n] THEN wants[p] \ sentRequests[n][p] ELSE {}]
           rpc  == [p \in Node |-> Message(n, p, list[p], reqs[p], {})]
<1>1. TypeOK /\ TypeOK'
  BY TypeClose DEF GossipInv
<1>2. /\ strategy = "priority" /\ strategy' = strategy /\ asking' = {}
      /\ gossip' = [gossip EXCEPT ![n] = {}]
      /\ listTo' = [listTo EXCEPT ![n] = {}]
      /\ ticking' = NoNode
      /\ wants' = [p \in Node |-> {}]
      /\ pendingWant' = [pendingWant EXCEPT ![n] =
                           [p \in Node |-> IF p \in Peers(n) THEN {} ELSE @[p]]]
      /\ chan' = [chan EXCEPT ![n] = [p \in Node |-> Sent(@[p], rpc[p])]]
  BY DEF CloseTick
<1>3. /\ \A m \in Node : gossip'[m] = IF m = n THEN {} ELSE gossip[m]
      /\ \A m \in Node : listTo'[m] = IF m = n THEN {} ELSE listTo[m]
  BY <1>1, <1>2 DEF TypeOK
<1>4. ListsGossip' /\ MeshNotGossip'
  BY <1>3 DEF GossipInv, ListsGossip, MeshNotGossip
<1>5. AskingGossip'
  BY <1>2 DEF AskingGossip
<1>6. RequestsAreServed'
  <2>1. \A m, q \in Node : pendingWant'[m][q] =
          IF m = n /\ q \in Peers(n) THEN {} ELSE pendingWant[m][q]
    BY <1>1, <1>2 DEF TypeOK
  <2> QED BY <1>3, <2>1 DEF GossipInv, RequestsAreServed, Peers
<1>7. MeshInnocent'
  <2>1. \A q \in Node : list[q] \in SUBSET Attestation /\ reqs[q] \in SUBSET Attestation
    <3>1. \A q \in Node : ListFor(n, q) \subseteq Attestation
      BY <1>1, SelectionType
    <3>2. \A q \in Node : wants[q] \subseteq Attestation
      BY <1>1 DEF TypeOK
    <3> QED BY <3>1, <3>2
  <2>2. \A q \in Node : q \notin gossip[n] => list[q] = {} /\ reqs[q] = {}
    OBVIOUS
  <2> HIDE DEF list, reqs
  <2>3. \A q \in Node : /\ rpc[q] \in RPC /\ rpc[q].requests = reqs[q]
                        /\ rpc[q].available = list[q] /\ rpc[q].sent = {}
    <3> SUFFICES ASSUME NEW q \in Node
                 PROVE  /\ rpc[q] \in RPC /\ rpc[q].requests = reqs[q]
                        /\ rpc[q].available = list[q] /\ rpc[q].sent = {}
      OBVIOUS
    <3>1. Message(n, q, list[q], reqs[q], {}) \in RPC
      BY <1>1, <2>1, MessageType
    <3> QED BY <3>1 DEF Message
  <2> HIDE DEF rpc
  <2>4. \A q \in Node : Innocent(n, q, rpc[q])
    BY <2>2, <2>3 DEF Innocent, ShowsGossip, GossipInv, MeshNotGossip
  <2>5. \A m, q \in Node :
          IF m = n THEN chan'[m][q] = Sent(chan[m][q], rpc[q]) ELSE chan'[m][q] = chan[m][q]
    BY <1>1, <1>2 DEF TypeOK
  <2> QED BY <1>1, <1>2, <2>3, <2>4, <2>5, InnocentKept DEF GossipInv
<1> QED BY <1>1, <1>4, <1>5, <1>6, <1>7 DEF GossipInv

LEMMA GossipReceive ==
  ASSUME GossipInv, NEW n \in Node, NEW p \in Node, OnIncomingRPC(n, p)
  PROVE  GossipInv'
<1> DEFINE rpc == Head(chan[p][n])
<1>1. TypeOK /\ TypeOK'
  BY TypeReceive DEF GossipInv
<1>2. /\ ticking = NoNode /\ chan[p][n] # <<>>
      /\ UNCHANGED <<strategy, ticking, asking, wants, serving, listTo>>
  BY DEF OnIncomingRPC, Known, tickVars
<1>3. chan' = [chan EXCEPT ![p][n] = Tail(@)]
  BY DEF OnIncomingRPC, Known
<1>4. gossip' = [gossip EXCEPT ![n] = IF ShowsGossip(rpc) THEN @ \cup {p} ELSE @]
  BY DEF OnIncomingRPC, Known
<1>5. pendingWant' = [pendingWant EXCEPT ![n][p] = @ \cup rpc.requests]
  BY DEF OnIncomingRPC, Known
<1>6. chan[p][n] \in Seq(RPC)
  BY <1>1 DEF TypeOK
<1>7. Innocent(p, n, rpc)
  BY <1>2, <1>6, TailOf DEF GossipInv, MeshInnocent
<1> HIDE DEF rpc
<1>8. \A m \in Node : \/ gossip'[m] = gossip[m]
                      \/ m = n /\ ShowsGossip(rpc) /\ gossip'[m] = gossip[m] \cup {p}
  <2>1. gossip \in [Node -> SUBSET Node]
    BY <1>1 DEF TypeOK
  <2> QED BY <1>4, <2>1
<1>9. ShowsGossip(rpc) => p \in gossip'[n]
  <2>1. gossip \in [Node -> SUBSET Node]
    BY <1>1 DEF TypeOK
  <2> QED BY <1>4, <2>1
<1>10. ListsGossip'
  BY <1>2, <1>8 DEF GossipInv, ListsGossip
<1>11. AskingGossip'
  BY <1>2 DEF GossipInv, AskingGossip
<1>12. MeshNotGossip'
  BY <1>7, <1>8, MeshSymmetric DEF GossipInv, MeshNotGossip, Innocent
<1>13. RequestsAreServed'
  <2>1. pendingWant \in [Node -> [Node -> SUBSET Attestation]]
    BY <1>1 DEF TypeOK
  <2>2. \A m, q \in Node : pendingWant'[m][q] =
          IF m = n /\ q = p THEN pendingWant[m][q] \cup rpc.requests ELSE pendingWant[m][q]
    BY <1>5, <2>1
  <2> QED BY <1>7, <1>8, <1>9, <2>2 DEF GossipInv, RequestsAreServed, Innocent
<1>14. MeshInnocent'
  <2>1. chan \in [Node -> [Node -> Seq(RPC)]]
    BY <1>1 DEF TypeOK
  <2>2. \A m, q \in Node :
          IF m = p /\ q = n THEN chan'[m][q] = Tail(chan[m][q]) ELSE chan'[m][q] = chan[m][q]
    BY <1>3, <2>1
  <2> QED BY <1>1, <1>2, <2>2, InnocentKept DEF GossipInv
<1> QED BY <1>1, <1>10, <1>11, <1>12, <1>13, <1>14 DEF GossipInv

LEMMA GossipDrop ==
  ASSUME GossipInv, NEW n \in Node, NEW p \in Node, DropRPC(n, p)
  PROVE  GossipInv'
<1>1. TypeOK /\ TypeOK'
  BY TypeRest DEF GossipInv
<1>2. /\ chan[p][n] # <<>> /\ chan' = [chan EXCEPT ![p][n] = Tail(@)]
      /\ UNCHANGED <<strategy, ticking, asking, wants, serving, listTo, gossip, pendingWant>>
  BY DEF DropRPC, tickVars, peerVars, slotVars
<1>3. ListsGossip' /\ AskingGossip' /\ MeshNotGossip' /\ RequestsAreServed'
  BY <1>2 DEF GossipInv, ListsGossip, AskingGossip, MeshNotGossip, RequestsAreServed
<1>4. MeshInnocent'
  <2>1. \A m, q \in Node :
          IF m = p /\ q = n THEN chan'[m][q] = Tail(chan[m][q]) ELSE chan'[m][q] = chan[m][q]
    BY <1>1, <1>2 DEF TypeOK
  <2> QED BY <1>1, <1>2, <2>1, InnocentKept DEF GossipInv
<1> QED BY <1>1, <1>3, <1>4 DEF GossipInv

LEMMA GossipFanout ==
  ASSUME GossipInv, NEW n \in Node, NEW a \in Own[n], FanoutPublish(n, a)
  PROVE  GossipInv'
<1> DEFINE rpc == [available |-> {}, requests |-> {}, metaFull |-> {},
                   sent |-> {a}, dataFull |-> {a[1]}]
<1>1. TypeOK /\ TypeOK'
  BY TypeFanout DEF GossipInv
<1>2. UNCHANGED <<strategy, ticking, asking, wants, serving, listTo, gossip, pendingWant>>
  BY DEF FanoutPublish, tickVars, peerVars, slotVars
<1>3. ListsGossip' /\ AskingGossip' /\ MeshNotGossip' /\ RequestsAreServed'
  BY <1>2 DEF GossipInv, ListsGossip, AskingGossip, MeshNotGossip, RequestsAreServed
<1>4. MeshInnocent'
  <2>1. a \in Attestation /\ a[1] \in Data
    BY OwnAssumption DEF Attestation
  <2>2. rpc \in RPC
    BY <2>1 DEF RPC
  <2>3. \A m, q \in Node : Innocent(m, q, rpc) /\ Sent(chan[m][q], rpc) = Append(chan[m][q], rpc)
    BY DEF Innocent, ShowsGossip, Sent
  <2> HIDE DEF rpc
  <2>4. chan' = [chan EXCEPT ![n] =
          [p \in Node |-> IF p \in FanoutPeers[n] THEN Append(@[p], rpc) ELSE @[p]]]
    BY DEF FanoutPublish, rpc
  <2>5. \A m, q \in Node :
          chan'[m][q] = chan[m][q] \/ chan'[m][q] = Append(chan[m][q], rpc)
    BY <1>1, <2>4 DEF TypeOK
  <2> QED BY <1>1, <1>2, <2>2, <2>3, <2>5, InnocentKept DEF GossipInv
<1> QED BY <1>1, <1>3, <1>4 DEF GossipInv

LEMMA GossipTick ==
  ASSUME GossipInv, NEW n \in Node, PublishTick(n)
  PROVE  GossipInv'
<1>1. TypeOK /\ TypeOK'
  BY TypeRest DEF GossipInv
<1>2. /\ ticking = NoNode /\ ticking' = n
      /\ asking' = {pd \in gossip[n] \X buckets[n] : Askable(n, pd[1], pd[2]) # {}}
      /\ serving' = Peers(n)
      /\ UNCHANGED <<strategy, wants, listTo, gossip, pendingWant, chan>>
  BY DEF PublishTick, peerVars, slotVars
<1>3. n # NoNode
  BY NodeAssumption
<1>4. AskingGossip'
  BY <1>2, <1>3 DEF GossipInv, AskingGossip, Peers
<1>5. ListsGossip' /\ MeshNotGossip' /\ RequestsAreServed'
  BY <1>2 DEF GossipInv, ListsGossip, MeshNotGossip, RequestsAreServed
<1>6. MeshInnocent'
  BY <1>1, <1>2, InnocentKept DEF GossipInv
<1> QED BY <1>1, <1>4, <1>5, <1>6 DEF GossipInv

LEMMA GossipAsk ==
  ASSUME GossipInv, NEW n \in Node, NEW p \in Node, NEW d \in Data, SelectIWantTargets(n, p, d)
  PROVE  GossipInv'
<1>1. TypeOK /\ TypeOK'
  BY TypeAsk DEF GossipInv
<1>2. /\ ticking = n /\ <<p, d>> \in asking
      /\ asking' = asking \ {<<p, d>>}
      /\ wants' = [wants EXCEPT ![p] = @ \cup Askable(n, p, d)]
      /\ UNCHANGED <<strategy, ticking, serving, listTo, gossip, pendingWant, chan>>
  BY DEF SelectIWantTargets, peerVars
<1>3. n # NoNode
  BY NodeAssumption
<1>4. AskingGossip'
  <2>1. p \in gossip[n]
    BY <1>2 DEF GossipInv, AskingGossip
  <2>2. \A q \in Node : q # p => wants'[q] = wants[q]
    BY <1>1, <1>2 DEF TypeOK
  <2> QED BY <1>2, <1>3, <2>1, <2>2 DEF GossipInv, AskingGossip
<1>5. ListsGossip' /\ MeshNotGossip' /\ RequestsAreServed'
  BY <1>2 DEF GossipInv, ListsGossip, MeshNotGossip, RequestsAreServed
<1>6. MeshInnocent'
  BY <1>1, <1>2, InnocentKept DEF GossipInv
<1> QED BY <1>1, <1>4, <1>5, <1>6 DEF GossipInv

LEMMA GossipHeartbeat ==
  ASSUME GossipInv, NEW n \in Node, NEW ps, OnEmitGossip(n, ps)
  PROVE  GossipInv'
<1>1. TypeOK /\ TypeOK'
  BY TypeRest DEF GossipInv
<1>2. /\ ticking = NoNode /\ ps \cap MeshPeers(n) = {}
      /\ gossip' = [gossip EXCEPT ![n] = @ \cup ps]
      /\ listTo' = [listTo EXCEPT ![n] = @ \cup ps]
      /\ UNCHANGED <<strategy, ticking, asking, wants, serving, pendingWant, chan>>
  BY DEF OnEmitGossip, tickVars, slotVars
<1>3. \A m \in Node : /\ gossip'[m] = IF m = n THEN gossip[m] \cup ps ELSE gossip[m]
                      /\ listTo'[m] = IF m = n THEN listTo[m] \cup ps ELSE listTo[m]
  BY <1>1, <1>2 DEF TypeOK
<1>4. AskingGossip'
  BY <1>2 DEF GossipInv, AskingGossip
<1>5. ListsGossip' /\ MeshNotGossip' /\ RequestsAreServed'
  BY <1>2, <1>3 DEF GossipInv, ListsGossip, MeshNotGossip, RequestsAreServed
<1>6. MeshInnocent'
  BY <1>1, <1>2, InnocentKept DEF GossipInv
<1> QED BY <1>1, <1>4, <1>5, <1>6 DEF GossipInv

LEMMA GossipSlotEnd ==
  ASSUME GossipInv, NEW n \in Node, SlotEnd(n)
  PROVE  GossipInv'
<1>1. TypeOK /\ TypeOK'
  BY TypeSlotEnd DEF GossipInv
<1>2. /\ pendingWant' = [pendingWant EXCEPT ![n] = [p \in Node |-> {}]]
      /\ UNCHANGED <<strategy, ticking, asking, wants, serving, listTo, gossip, chan>>
  BY DEF SlotEnd, tickVars, peerVars
<1>3. \A m, q \in Node : pendingWant'[m][q] = IF m = n THEN {} ELSE pendingWant[m][q]
  BY <1>1, <1>2 DEF TypeOK
<1>4. ListsGossip' /\ AskingGossip' /\ MeshNotGossip' /\ RequestsAreServed'
  BY <1>2, <1>3 DEF GossipInv, ListsGossip, AskingGossip, MeshNotGossip, RequestsAreServed
<1>5. MeshInnocent'
  BY <1>1, <1>2, InnocentKept DEF GossipInv
<1> QED BY <1>1, <1>4, <1>5 DEF GossipInv

LEMMA GossipStep == GossipInv /\ [Next]_vars => GossipInv'
<1> SUFFICES ASSUME GossipInv, [Next]_vars PROVE GossipInv'
  OBVIOUS
<1>1. TypeOK'
  BY TypeStep DEF GossipInv
<1>2. ASSUME UNCHANGED <<strategy, ticking, asking, wants, serving, listTo, gossip, pendingWant, chan>>
      PROVE  GossipInv'
  <2>1. ListsGossip' /\ AskingGossip' /\ MeshNotGossip' /\ RequestsAreServed'
    BY <1>2 DEF GossipInv, ListsGossip, AskingGossip, MeshNotGossip, RequestsAreServed
  <2>2. MeshInnocent'
    BY <1>2, InnocentKept DEF GossipInv
  <2> QED BY <1>1, <2>1, <2>2 DEF GossipInv
<1>3. CASE UNCHANGED vars
  BY <1>2, <1>3 DEF vars, slotVars, peerVars, tickVars
<1>4. ASSUME NEW n \in Node, SlotStart(n) PROVE GossipInv'
  BY <1>2, <1>4 DEF SlotStart, slotVars, peerVars, tickVars
<1>5. ASSUME NEW n \in Node, NEW a \in Own[n], PublishLocal(n, a) PROVE GossipInv'
  BY <1>2, <1>5 DEF PublishLocal, peerVars, tickVars
<1>6. ASSUME NEW n \in Node, NEW atts, MarkValidated(n, atts) PROVE GossipInv'
  BY <1>2, <1>6 DEF MarkValidated, peerVars, tickVars
<1>7. ASSUME NEW n \in Node, NodeStep(n) PROVE GossipInv'
  BY <1>4, <1>5, <1>6, <1>7, GossipSlotEnd, GossipFanout, GossipDrop, GossipReceive,
     GossipHeartbeat, GossipTick DEF NodeStep
<1>8. ASSUME NEW n \in Node, TickStep(n) PROVE GossipInv'
  BY <1>8, GossipAsk, GossipVisit, GossipDraw, GossipClose DEF TickStep
<1> QED BY <1>3, <1>7, <1>8 DEF Next

LEMMA GossipInit == Init => GossipInv
<1> SUFFICES ASSUME Init PROVE GossipInv
  OBVIOUS
<1>1. NoNode \notin Node
  BY NodeAssumption
<1> QED BY <1>1, TypeInit
        DEF Init, GossipInv, ListsGossip, AskingGossip, MeshInnocent, MeshNotGossip, RequestsAreServed

LEMMA GossipHolds == Spec => []GossipInv
BY GossipInit, GossipStep, PTL DEF Spec

(* No message makes a gossip peer of a mesh peer. *)
THEOREM MeshStaysPush == Spec => []MeshNotGossip
<1>1. GossipInv => MeshNotGossip
  BY DEF GossipInv
<1> QED BY <1>1, GossipHolds, PTL

(* Every request that waits is from a peer the next tick visits. *)
THEOREM RequestsGetServed == Spec => []RequestsAreServed
<1>1. GossipInv => RequestsAreServed
  BY DEF GossipInv
<1> QED BY <1>1, GossipHolds, PTL

-----------------------------------------------------------------------------
(* Forward counts *)

(* One more peer for what has one more forward. *)
LEMMA OneMorePeer ==
  ASSUME NEW S \in SUBSET Node, NEW T \in SUBSET Node, NEW p \in Node, p \notin S, S \cup {p} \subseteq T
  PROVE  Cardinality(S) + 1 <= Cardinality(T) /\ Cardinality(S) \in Nat
<1>1. IsFiniteSet(S) /\ IsFiniteSet(T)
  BY NodeAssumption, FS_Subset
<1>2. Cardinality(S \cup {p}) = Cardinality(S) + 1
  BY <1>1, FS_AddElement
<1>3. Cardinality(S \cup {p}) <= Cardinality(T)
  BY <1>1, FS_Subset
<1>4. Cardinality(S) \in Nat /\ Cardinality(T) \in Nat
  BY <1>1, FS_CardinalityType
<1> QED BY <1>2, <1>3, <1>4

LEMMA MorePeers ==
  ASSUME NEW S \in SUBSET Node, NEW T \in SUBSET Node, S \subseteq T
  PROVE  Cardinality(S) <= Cardinality(T) /\ Cardinality(S) \in Nat /\ Cardinality(T) \in Nat
<1>1. IsFiniteSet(S) /\ IsFiniteSet(T)
  BY NodeAssumption, FS_Subset
<1> QED BY <1>1, FS_Subset, FS_CardinalityType

(* Counts that stay, while peers are only found to have more. *)
LEMMA SendsKept ==
  ASSUME SendsCounted, TypeOK, sendCount' = sendCount,
         \A n, p \in Node : available[n][p] \subseteq available'[n][p]
  PROVE  SendsCounted'
<1> SUFFICES ASSUME NEW n \in Node, NEW x \in Attestation
             PROVE  /\ sendCount'[n][x] <= MaxPeersPerAttestation
                    /\ sendCount'[n][x] <= Cardinality({p \in Node : x \in available'[n][p]})
  BY DEF SendsCounted
<1> DEFINE S == {p \in Node : x \in available[n][p]}
           T == {p \in Node : x \in available'[n][p]}
<1>1. sendCount[n][x] <= MaxPeersPerAttestation /\ sendCount[n][x] <= Cardinality(S)
  BY DEF SendsCounted
<1>2. S \subseteq T /\ S \in SUBSET Node /\ T \in SUBSET Node
  OBVIOUS
<1>3. sendCount[n][x] \in Nat
  BY DEF TypeOK
<1> HIDE DEF S, T
<1>4. Cardinality(S) <= Cardinality(T) /\ Cardinality(S) \in Nat /\ Cardinality(T) \in Nat
  BY <1>2, MorePeers
<1>5. sendCount[n][x] <= Cardinality(T)
  BY <1>1, <1>3, <1>4
<1> QED BY <1>1, <1>5 DEF T

(* A forward to a peer that is not known to have it. *)
LEMMA SendsForward ==
  ASSUME SendsCounted, TypeOK, NEW n \in Node, NEW p \in Node,
         NEW atts \in SUBSET AttestationsToSend(n, p),
         sendCount' = [sendCount EXCEPT ![n] = Counted(@, atts)],
         available' = [available EXCEPT ![n][p] = @ \cup atts]
  PROVE  SendsCounted'
<1> SUFFICES ASSUME NEW m \in Node, NEW x \in Attestation
             PROVE  /\ sendCount'[m][x] <= MaxPeersPerAttestation
                    /\ sendCount'[m][x] <= Cardinality({q \in Node : x \in available'[m][q]})
  BY DEF SendsCounted
<1> DEFINE S == {q \in Node : x \in available[m][q]}
           T == {q \in Node : x \in available'[m][q]}
<1>1. sendCount[m][x] <= MaxPeersPerAttestation /\ sendCount[m][x] <= Cardinality(S)
  BY DEF SendsCounted
<1>2. sendCount[m][x] \in Nat /\ MaxPeersPerAttestation \in Nat
  BY LimitAssumption DEF TypeOK
<1>3. \A q \in Node :
        available'[m][q] = IF m = n /\ q = p THEN available[m][q] \cup atts ELSE available[m][q]
  BY DEF TypeOK
<1>4. S \subseteq T /\ S \in SUBSET Node /\ T \in SUBSET Node
  BY <1>3
<1>5. sendCount'[m][x] = IF m = n /\ x \in atts THEN sendCount[m][x] + 1 ELSE sendCount[m][x]
  BY DEF TypeOK, Counted
<1>6. CASE m = n /\ x \in atts
  <2>1. sendCount[m][x] < MaxPeersPerAttestation /\ x \notin available[n][p]
    BY <1>6 DEF AttestationsToSend
  <2>2. p \notin S /\ p \in T
    <3>1. available'[m][p] = available[m][p] \cup atts
      BY <1>3, <1>6
    <3>2. p \notin S
      BY <1>6, <2>1
    <3>3. p \in T
      BY <1>6, <3>1
    <3> QED BY <3>2, <3>3
  <2> HIDE DEF S, T
  <2>3. Cardinality(S) + 1 <= Cardinality(T) /\ Cardinality(S) \in Nat /\ Cardinality(T) \in Nat
    BY <1>4, <2>2, OneMorePeer, MorePeers
  <2>4. sendCount[m][x] + 1 <= MaxPeersPerAttestation /\ sendCount[m][x] + 1 <= Cardinality(T)
    BY <1>1, <1>2, <2>1, <2>3
  <2> QED BY <1>5, <1>6, <2>4 DEF T
<1>7. CASE ~(m = n /\ x \in atts)
  <2> HIDE DEF S, T
  <2>1. Cardinality(S) <= Cardinality(T) /\ Cardinality(S) \in Nat /\ Cardinality(T) \in Nat
    BY <1>4, MorePeers
  <2>2. sendCount[m][x] <= Cardinality(T)
    BY <1>1, <1>2, <2>1
  <2> QED BY <1>1, <1>5, <1>7, <2>2 DEF T
<1> QED BY <1>6, <1>7

LEMMA SendsStep == TypeOK /\ IndexInvariant /\ SendsCounted /\ [Next]_vars => SendsCounted'
<1> SUFFICES ASSUME TypeOK, IndexInvariant, SendsCounted, [Next]_vars PROVE SendsCounted'
  OBVIOUS
<1>1. ASSUME UNCHANGED <<sendCount, available>> PROVE SendsCounted'
  BY <1>1 DEF SendsCounted
<1>2. CASE UNCHANGED vars
  BY <1>1, <1>2 DEF vars, slotVars
<1>3. ASSUME NEW n \in Node, NEW a, PublishLocal(n, a) \/ FanoutPublish(n, a) PROVE SendsCounted'
  BY <1>1, <1>3 DEF PublishLocal, FanoutPublish, slotVars
<1>4. ASSUME NEW n \in Node, NEW x, SlotStart(n) \/ OnEmitGossip(n, x) \/ PublishTick(n) PROVE SendsCounted'
  BY <1>1, <1>4 DEF SlotStart, OnEmitGossip, PublishTick, slotVars
<1>5. ASSUME NEW n \in Node, NEW p \in Node, DropRPC(n, p) PROVE SendsCounted'
  BY <1>1, <1>5 DEF DropRPC, slotVars
<1>6. ASSUME NEW n \in Node, NEW atts, MarkValidated(n, atts) PROVE SendsCounted'
  BY <1>1, <1>6 DEF MarkValidated
<1>7. ASSUME NEW n \in Node, NEW p, NEW d, SelectIWantTargets(n, p, d) \/ CloseTick(n)
      PROVE  SendsCounted'
  BY <1>1, <1>7 DEF SelectIWantTargets, CloseTick
<1>8. ASSUME NEW n \in Node, SlotEnd(n) PROVE SendsCounted'
  <2>1. /\ sendCount' = [sendCount EXCEPT ![n] = [x \in Attestation |-> 0]]
        /\ available' = [available EXCEPT ![n] = [p \in Node |-> {}]]
    BY <1>8 DEF SlotEnd
  <2> SUFFICES ASSUME NEW m \in Node, NEW x \in Attestation
               PROVE  /\ sendCount'[m][x] <= MaxPeersPerAttestation
                      /\ sendCount'[m][x] <= Cardinality({q \in Node : x \in available'[m][q]})
    BY DEF SendsCounted
  <2>2. CASE m = n
    <3>1. sendCount'[m][x] = 0
      BY <2>1, <2>2 DEF TypeOK
    <3>2. Cardinality({q \in Node : x \in available'[m][q]}) \in Nat
      BY MorePeers
    <3> QED BY <3>1, <3>2, LimitAssumption
  <2>3. CASE m # n
    <3>1. sendCount'[m] = sendCount[m] /\ available'[m] = available[m]
      BY <2>1, <2>3 DEF TypeOK
    <3> QED BY <3>1 DEF SendsCounted
  <2> QED BY <2>2, <2>3
<1>9. ASSUME NEW n \in Node, NEW p \in Node, OnIncomingRPC(n, p) PROVE SendsCounted'
  <2> DEFINE rpc   == Head(chan[p][n])
             known == identities[n] \cup rpc.metaFull \cup rpc.dataFull
             got   == {a \in rpc.sent : a[1] \in known}
  <2>1. available' = [available EXCEPT ![n][p] = @ \cup rpc.available \cup got] /\ sendCount' = sendCount
    BY <1>9 DEF OnIncomingRPC, Known
  <2> HIDE DEF rpc, known, got
  <2>2. \A m, q \in Node : available[m][q] \subseteq available'[m][q]
    <3>1. available \in [Node -> [Node -> SUBSET Attestation]]
      BY DEF TypeOK
    <3> QED BY <2>1, <3>1
  <2> QED BY <2>1, <2>2, SendsKept
<1>10. ASSUME NEW n \in Node, NEW p \in Node, VisitPeer(n, p) PROVE SendsCounted'
  <2>1. /\ sendCount' = [sendCount EXCEPT ![n] = Counted(@, AttestationsToSend(n, p))]
        /\ available' = [available EXCEPT ![n][p] = @ \cup AttestationsToSend(n, p)]
    BY <1>10 DEF VisitPeer, PublishTo
  <2> QED BY <2>1, SendsForward
<1>11. ASSUME NEW n \in Node, NEW p \in Node, NEW chunk, DrawChunk(n, p, chunk) PROVE SendsCounted'
  <2>1. /\ sendCount' = [sendCount EXCEPT ![n] = Counted(@, chunk)]
        /\ available' = [available EXCEPT ![n][p] = @ \cup chunk]
        /\ strategy = "priority" /\ chunk \in SUBSET IndexedFor(n, p)
    BY <1>11 DEF DrawChunk, News, Chunks
  <2>2. chunk \in SUBSET AttestationsToSend(n, p)
    BY <2>1, IndexedIsSendable
  <2> QED BY <2>1, <2>2, SendsForward
<1>12. ASSUME NEW n \in Node, NodeStep(n) PROVE SendsCounted'
  BY <1>3, <1>4, <1>5, <1>6, <1>8, <1>9, <1>12 DEF NodeStep
<1>13. ASSUME NEW n \in Node, TickStep(n) PROVE SendsCounted'
  BY <1>7, <1>10, <1>11, <1>13 DEF TickStep
<1> QED BY <1>2, <1>12, <1>13 DEF Next

(* No attestation is forwarded to more peers than the ceiling allows, and no forward
   is counted that did not go to a new peer. *)
THEOREM SendsAreCounted == Spec => []SendsCounted
<1>1. Init => SendsCounted
  <2> SUFFICES ASSUME Init, NEW n \in Node, NEW x \in Attestation
               PROVE  /\ sendCount[n][x] <= MaxPeersPerAttestation
                      /\ sendCount[n][x] <= Cardinality({p \in Node : x \in available[n][p]})
    BY DEF SendsCounted
  <2>1. Cardinality({p \in Node : x \in available[n][p]}) \in Nat
    BY MorePeers
  <2>2. sendCount[n][x] = 0
    BY DEF Init
  <2> QED BY <2>1, <2>2, LimitAssumption
<1> QED BY <1>1, SendsStep, TypesOfPartial, IndexIsExact, PTL DEF Spec

-----------------------------------------------------------------------------
(* Requests *)

(* Peers that n has asked for x, or will before its tick ends. *)
Asked(n, x) ==
  {p \in Node : x \in sentRequests[n][p] \/ (ticking = n /\ x \in wants[p])}

RequestsCounted ==
  \A n \in Node, x \in Attestation :
    /\ requestCount[n][x] <= MaxIWantPerPosition
    /\ Cardinality(Asked(n, x)) <= requestCount[n][x]

(* Counts that stay, while nobody else is asked. *)
LEMMA RequestsKept ==
  ASSUME RequestsCounted, requestCount' = requestCount, TypeOK,
         \A n \in Node, x \in Attestation : Asked(n, x)' \subseteq Asked(n, x)
  PROVE  RequestsCounted'
<1> SUFFICES ASSUME NEW n \in Node, NEW x \in Attestation
             PROVE  /\ requestCount'[n][x] <= MaxIWantPerPosition
                    /\ Cardinality(Asked(n, x)') <= requestCount'[n][x]
  BY DEF RequestsCounted
<1>1. requestCount[n][x] <= MaxIWantPerPosition /\ Cardinality(Asked(n, x)) <= requestCount[n][x]
  BY DEF RequestsCounted
<1>2. Asked(n, x)' \in SUBSET Node /\ Asked(n, x) \in SUBSET Node
  BY DEF Asked
<1>3. /\ Cardinality(Asked(n, x)') <= Cardinality(Asked(n, x))
      /\ Cardinality(Asked(n, x)') \in Nat /\ Cardinality(Asked(n, x)) \in Nat
  BY <1>2, MorePeers
<1>4. requestCount[n][x] \in Nat
  BY DEF TypeOK
<1> QED BY <1>1, <1>3, <1>4

LEMMA RequestsAsk ==
  ASSUME TypeOK, RequestsCounted, NEW n \in Node, NEW p \in Node, NEW d \in Data,
         SelectIWantTargets(n, p, d)
  PROVE  RequestsCounted'
<1> DEFINE chosen == Askable(n, p, d)
<1>1. /\ requestCount' = [requestCount EXCEPT ![n] = Counted(@, chosen)]
      /\ wants' = [wants EXCEPT ![p] = @ \cup chosen]
      /\ UNCHANGED <<sentRequests, ticking>>
  BY DEF SelectIWantTargets
<1> SUFFICES ASSUME NEW m \in Node, NEW x \in Attestation
             PROVE  /\ requestCount'[m][x] <= MaxIWantPerPosition
                    /\ Cardinality(Asked(m, x)') <= requestCount'[m][x]
  BY DEF RequestsCounted
<1>2. requestCount[m][x] <= MaxIWantPerPosition /\ Cardinality(Asked(m, x)) <= requestCount[m][x]
  BY DEF RequestsCounted
<1>3. requestCount[m][x] \in Nat /\ MaxIWantPerPosition \in Nat
  BY LimitAssumption DEF TypeOK
<1>4. ticking = n
  BY DEF SelectIWantTargets
<1>5. requestCount'[m][x] = IF m = n /\ x \in chosen THEN requestCount[m][x] + 1 ELSE requestCount[m][x]
  BY <1>1 DEF TypeOK, Counted
<1>6. \A q \in Node : wants'[q] = IF q = p THEN wants[q] \cup chosen ELSE wants[q]
  BY <1>1 DEF TypeOK
<1>7. Asked(m, x)' \in SUBSET Node /\ Asked(m, x) \in SUBSET Node
  BY DEF Asked
<1>8. CASE m = n /\ x \in chosen
  <2>1. requestCount[m][x] < MaxIWantPerPosition
    BY <1>8 DEF Askable
  <2>2. Asked(m, x)' \subseteq Asked(m, x) \cup {p}
    BY <1>1, <1>6 DEF Asked
  <2>3. IsFiniteSet(Asked(m, x)) /\ IsFiniteSet(Asked(m, x) \cup {p})
    BY <1>7, NodeAssumption, FS_Subset, FS_AddElement
  <2>4. Cardinality(Asked(m, x)') <= Cardinality(Asked(m, x) \cup {p})
    BY <2>2, <2>3, FS_Subset
  <2>5. Cardinality(Asked(m, x) \cup {p}) <= Cardinality(Asked(m, x)) + 1
    <3>1. Cardinality(Asked(m, x)) \in Nat
      BY <2>3, FS_CardinalityType
    <3>2. CASE p \in Asked(m, x)
      <4>1. Asked(m, x) \cup {p} = Asked(m, x)
        BY <3>2
      <4>2. Cardinality(Asked(m, x) \cup {p}) = Cardinality(Asked(m, x))
        BY Zenon, <4>1
      <4> QED BY <3>1, <4>2
    <3>3. CASE p \notin Asked(m, x)
      <4>1. Cardinality(Asked(m, x) \cup {p}) = Cardinality(Asked(m, x)) + 1
        BY <2>3, <3>3, FS_AddElement
      <4> QED BY <3>1, <4>1
    <3> QED BY <3>2, <3>3
  <2>6. /\ Cardinality(Asked(m, x)) \in Nat /\ Cardinality(Asked(m, x)') \in Nat
        /\ Cardinality(Asked(m, x) \cup {p}) \in Nat
    BY <1>7, <2>3, MorePeers, FS_CardinalityType
  <2>7. requestCount[m][x] + 1 <= MaxIWantPerPosition /\ Cardinality(Asked(m, x)') <= requestCount[m][x] + 1
    BY <1>2, <1>3, <2>1, <2>4, <2>5, <2>6
  <2> QED BY <1>5, <1>8, <2>7
<1>9. CASE ~(m = n /\ x \in chosen)
  <2>1. Asked(m, x)' \subseteq Asked(m, x)
    BY <1>1, <1>4, <1>6, <1>9 DEF Asked
  <2>2. /\ Cardinality(Asked(m, x)') <= Cardinality(Asked(m, x))
        /\ Cardinality(Asked(m, x)') \in Nat /\ Cardinality(Asked(m, x)) \in Nat
    BY <1>7, <2>1, MorePeers
  <2> QED BY <1>2, <1>3, <1>5, <1>9, <2>2
<1> QED BY <1>8, <1>9

LEMMA RequestsSlotEnd ==
  ASSUME TypeOK, RequestsCounted, NEW n \in Node, SlotEnd(n)
  PROVE  RequestsCounted'
<1>1. /\ requestCount' = [requestCount EXCEPT ![n] = [x \in Attestation |-> 0]]
      /\ sentRequests' = [sentRequests EXCEPT ![n] = [p \in Node |-> {}]]
      /\ ticking = NoNode /\ ticking' = NoNode
  BY DEF SlotEnd, tickVars
<1>2. NoNode \notin Node
  BY NodeAssumption
<1> SUFFICES ASSUME NEW m \in Node, NEW x \in Attestation
             PROVE  /\ requestCount'[m][x] <= MaxIWantPerPosition
                    /\ Cardinality(Asked(m, x)') <= requestCount'[m][x]
  BY DEF RequestsCounted
<1>3. CASE m = n
  <2>1. requestCount'[m][x] = 0
    BY <1>1, <1>3 DEF TypeOK
  <2>2. \A q \in Node : sentRequests'[m][q] = {}
    BY <1>1, <1>3 DEF TypeOK
  <2>3. Asked(m, x)' = {}
    BY <1>1, <1>2, <2>2 DEF Asked
  <2>4. Cardinality(Asked(m, x)') = 0
    BY <2>3, FS_EmptySet
  <2> QED BY <2>1, <2>4, LimitAssumption
<1>4. CASE m # n
  <2>1. requestCount'[m] = requestCount[m] /\ sentRequests'[m] = sentRequests[m]
    BY <1>1, <1>4 DEF TypeOK
  <2>2. Asked(m, x)' = Asked(m, x)
    BY <1>1, <1>2, <2>1 DEF Asked
  <2> QED BY <2>1, <2>2 DEF RequestsCounted
<1> QED BY <1>3, <1>4

LEMMA RequestsVisit ==
  ASSUME TypeOK, RequestsCounted, NEW n \in Node, NEW p \in Node, VisitPeer(n, p)
  PROVE  RequestsCounted'
<1>1. ticking = n /\ ticking' \in {n, NoNode} /\ requestCount' = requestCount
  BY DEF VisitPeer
<1>2. /\ sentRequests' = [sentRequests EXCEPT ![n][p] = @ \cup (wants[p] \ sentRequests[n][p])]
      /\ wants' = [wants EXCEPT ![p] = {}]
  BY DEF VisitPeer, PublishTo
<1>3. NoNode \notin Node
  BY NodeAssumption
<1>4. \A m, q \in Node : \A x \in sentRequests'[m][q] :
        x \in sentRequests[m][q] \/ (m = n /\ q = p /\ x \in wants[p])
  BY <1>2 DEF TypeOK
<1>5. \A q \in Node : wants'[q] \subseteq wants[q]
  BY <1>2 DEF TypeOK
<1>6. \A m \in Node, x \in Attestation : Asked(m, x)' \subseteq Asked(m, x)
  BY <1>1, <1>3, <1>4, <1>5 DEF Asked
<1> QED BY <1>1, <1>6, RequestsKept

LEMMA RequestsClose ==
  ASSUME TypeOK, RequestsCounted, NEW n \in Node, CloseTick(n)
  PROVE  RequestsCounted'
<1> DEFINE reqs == [p \in Node |-> IF p \in gossip[n] THEN wants[p] \ sentRequests[n][p] ELSE {}]
<1>1. ticking = n /\ ticking' = NoNode /\ requestCount' = requestCount
  BY DEF CloseTick
<1>2. sentRequests' = [sentRequests EXCEPT ![n] = [p \in Node |-> @[p] \cup reqs[p]]]
  BY DEF CloseTick
<1>3. NoNode \notin Node
  BY NodeAssumption
<1>4. \A q \in Node : reqs[q] \subseteq wants[q]
  OBVIOUS
<1> HIDE DEF reqs
<1>5. \A m, q \in Node : \A x \in sentRequests'[m][q] :
        x \in sentRequests[m][q] \/ (m = n /\ x \in wants[q])
  BY <1>2, <1>4 DEF TypeOK
<1>6. \A m \in Node, x \in Attestation : Asked(m, x)' \subseteq Asked(m, x)
  BY <1>1, <1>3, <1>5 DEF Asked
<1> QED BY <1>1, <1>6, RequestsKept

LEMMA RequestsStep == GossipInv /\ RequestsCounted /\ [Next]_vars => RequestsCounted'
<1> SUFFICES ASSUME GossipInv, RequestsCounted, [Next]_vars PROVE RequestsCounted'
  OBVIOUS
<1> USE DEF GossipInv
<1>1. ASSUME UNCHANGED <<requestCount, sentRequests, ticking, wants>> PROVE RequestsCounted'
  BY <1>1 DEF RequestsCounted, Asked
<1>2. CASE UNCHANGED vars
  BY <1>1, <1>2 DEF vars, slotVars, tickVars
<1>3. ASSUME NEW n, NEW a, PublishLocal(n, a) \/ FanoutPublish(n, a) \/ MarkValidated(n, a)
      PROVE  RequestsCounted'
  BY <1>1, <1>3 DEF PublishLocal, FanoutPublish, MarkValidated, slotVars, tickVars
<1>4. ASSUME NEW n, NEW x, SlotStart(n) \/ OnEmitGossip(n, x)
      PROVE  RequestsCounted'
  BY <1>1, <1>4 DEF SlotStart, OnEmitGossip, slotVars, tickVars
<1>5. ASSUME NEW n, NEW p, DropRPC(n, p) \/ OnIncomingRPC(n, p)
      PROVE  RequestsCounted'
  BY <1>1, <1>5 DEF DropRPC, OnIncomingRPC, Known, slotVars, tickVars
<1>6. ASSUME NEW n, NEW p, NEW chunk, DrawChunk(n, p, chunk)
      PROVE  RequestsCounted'
  BY <1>1, <1>6 DEF DrawChunk, News
<1>7. ASSUME NEW n \in Node, PublishTick(n) PROVE RequestsCounted'
  <2>1. ticking = NoNode /\ UNCHANGED <<requestCount, sentRequests, wants>>
    BY <1>7 DEF PublishTick, slotVars
  <2>2. \A q \in Node : wants'[q] = {}
    BY <2>1 DEF AskingGossip
  <2>3. \A m \in Node, x \in Attestation : Asked(m, x)' \subseteq Asked(m, x)
    BY <2>1, <2>2 DEF Asked
  <2> QED BY <2>1, <2>3, RequestsKept
<1>8. ASSUME NEW n \in Node, NodeStep(n) PROVE RequestsCounted'
  BY <1>3, <1>4, <1>5, <1>7, <1>8, RequestsSlotEnd DEF NodeStep
<1>9. ASSUME NEW n \in Node, TickStep(n) PROVE RequestsCounted'
  BY <1>6, <1>9, RequestsAsk, RequestsVisit, RequestsClose DEF TickStep
<1> QED BY <1>2, <1>8, <1>9 DEF Next

(* No attestation is requested from more peers than the cap on requests allows. *)
THEOREM RequestsAreCapped == Spec => []RequestsCapped
<1>1. Init => RequestsCounted
  <2> SUFFICES ASSUME Init, NEW n \in Node, NEW x \in Attestation
               PROVE  /\ requestCount[n][x] <= MaxIWantPerPosition
                      /\ Cardinality(Asked(n, x)) <= requestCount[n][x]
    BY DEF RequestsCounted
  <2>1. Asked(n, x) = {}
    BY NodeAssumption DEF Init, Asked
  <2> QED BY <2>1, FS_EmptySet, LimitAssumption DEF Init
<1>2. TypeOK /\ RequestsCounted => RequestsCapped
  <2> SUFFICES ASSUME TypeOK, RequestsCounted, NEW n \in Node, NEW x \in Attestation
               PROVE  Cardinality({p \in Node : x \in sentRequests[n][p]}) <= MaxIWantPerPosition
    BY DEF RequestsCapped
  <2> DEFINE S == {p \in Node : x \in sentRequests[n][p]}
  <2>1. S \in SUBSET Node /\ Asked(n, x) \in SUBSET Node /\ S \subseteq Asked(n, x)
    BY DEF Asked
  <2> HIDE DEF S
  <2>2. /\ Cardinality(S) <= Cardinality(Asked(n, x))
        /\ Cardinality(S) \in Nat /\ Cardinality(Asked(n, x)) \in Nat
    BY <2>1, MorePeers
  <2>3. requestCount[n][x] <= MaxIWantPerPosition /\ Cardinality(Asked(n, x)) <= requestCount[n][x]
    BY DEF RequestsCounted
  <2>4. requestCount[n][x] \in Nat /\ MaxIWantPerPosition \in Nat
    BY LimitAssumption DEF TypeOK
  <2>5. Cardinality(S) <= MaxIWantPerPosition
    BY <2>2, <2>3, <2>4
  <2> QED BY <2>5 DEF S
<1> QED BY <1>1, <1>2, RequestsStep, GossipHolds, TypesOfPartial, PTL DEF Spec

-----------------------------------------------------------------------------
(* Ticks *)

(* Mesh peers that a tick of the partial strategy has visited have got all there is. *)
Drained ==
  ticking # NoNode /\ strategy = "partial" =>
    \A p \in MeshPeers(ticking) \ serving : Sendable(ticking, p) = {}

LEMMA SendableToMesh ==
  ASSUME MeshNotGossip, NEW n \in Node, NEW p \in MeshPeers(n)
  PROVE  Sendable(n, p) = AttestationsToSend(n, p)
<1>1. p \notin gossip[n]
  BY DEF MeshNotGossip
<1> QED BY <1>1 DEF Sendable, AttestationsToSend

(* A visit leaves nothing for its peer, and no more for the others. *)
LEMMA VisitDrains ==
  ASSUME TypeOK, MeshNotGossip, NEW n \in Node, NEW p \in Node, VisitPeer(n, p)
  PROVE  /\ \A q \in Node : Sendable(n, q)' \subseteq Sendable(n, q)
         /\ p \in MeshPeers(n) => Sendable(n, p)' = {}
<1> DEFINE atts == AttestationsToSend(n, p)
<1>1. /\ validated' = validated
      /\ sendCount' = [sendCount EXCEPT ![n] = Counted(@, atts)]
      /\ available' = [available EXCEPT ![n][p] = @ \cup atts]
  BY DEF VisitPeer, PublishTo
<1>2. p \in MeshPeers(n) => Sendable(n, p) = atts
  BY SendableToMesh
<1> HIDE DEF atts
<1>3. \A x \in validated[n] : sendCount[n][x] \in Nat /\ sendCount'[n][x] \in {sendCount[n][x], sendCount[n][x] + 1}
  BY <1>1 DEF TypeOK, Counted
<1>4. \A q \in Node : available'[n][q] = IF q = p THEN available[n][q] \cup atts ELSE available[n][q]
  BY <1>1 DEF TypeOK
<1>5. MaxPeersPerAttestation \in Nat
  BY LimitAssumption
<1>6. \A q \in Node : Sendable(n, q)' \subseteq Sendable(n, q)
  BY <1>1, <1>3, <1>4, <1>5 DEF Sendable
<1>7. \A x \in Sendable(n, p)' : x \notin atts
  BY <1>4 DEF Sendable
<1> QED BY <1>2, <1>6, <1>7

LEMMA DrainedStep == GossipInv /\ Drained /\ [Next]_vars => Drained'
<1> SUFFICES ASSUME GossipInv, Drained, [Next]_vars PROVE Drained'
  OBVIOUS
<1> USE DEF GossipInv
<1>0. NoNode \notin Node
  BY NodeAssumption
<1>1. CASE UNCHANGED vars
  BY <1>1 DEF Drained, Sendable, vars, slotVars, tickVars
<1>2. ASSUME NEW n \in Node, NodeStep(n), ~PublishTick(n) PROVE ticking' = NoNode
  BY <1>2 DEF NodeStep, SlotStart, SlotEnd, PublishLocal, FanoutPublish, DropRPC, OnIncomingRPC, Known,
              MarkValidated, OnEmitGossip, tickVars
<1>3. ASSUME NEW n \in Node, PublishTick(n) PROVE Drained'
  BY <1>3 DEF PublishTick, Drained, Peers
<1>4. ASSUME NEW n \in Node, NEW p, NEW d, SelectIWantTargets(n, p, d) PROVE Drained'
  BY <1>4 DEF SelectIWantTargets, Drained, Sendable
<1>5. ASSUME NEW n \in Node, NEW p \in Node, VisitPeer(n, p) PROVE Drained'
  <2>1. /\ strategy' = strategy /\ strategy = "partial" /\ ticking = n /\ serving' = serving \ {p}
        /\ ticking' \in {n, NoNode}
    BY <1>5 DEF VisitPeer
  <2>2. \A q \in MeshPeers(n) \ serving' : Sendable(n, q)' = {}
    <3> SUFFICES ASSUME NEW q \in MeshPeers(n) \ serving' PROVE Sendable(n, q)' = {}
      OBVIOUS
    <3>1. q \in Node
      BY DEF MeshPeers
    <3>2. CASE q = p
      BY <1>5, <3>2, VisitDrains
    <3>3. CASE q # p
      <4>1. Sendable(n, q) = {}
        BY <1>0, <2>1, <3>3 DEF Drained
      <4>2. Sendable(n, q)' \subseteq Sendable(n, q)
        BY <1>5, <3>1, VisitDrains
      <4> QED BY <4>1, <4>2
    <3> QED BY <3>2, <3>3
  <2>3. CASE ticking' = NoNode
    BY <2>3 DEF Drained
  <2>4. CASE ticking' = n
    BY <2>2, <2>4 DEF Drained
  <2> QED BY <2>1, <2>3, <2>4
<1>6. ASSUME NEW n \in Node, NEW p, NEW chunk, DrawChunk(n, p, chunk) \/ CloseTick(n) PROVE Drained'
  BY <1>6 DEF DrawChunk, News, CloseTick, Drained
<1>7. ASSUME NEW n \in Node, NodeStep(n) PROVE Drained'
  BY <1>2, <1>3, <1>7 DEF Drained
<1>8. ASSUME NEW n \in Node, TickStep(n) PROVE Drained'
  BY <1>4, <1>5, <1>6, <1>8 DEF TickStep
<1> QED BY <1>1, <1>7, <1>8 DEF Next

(* A tick that ends leaves nothing for any mesh peer. *)
LEMMA TickDrainsStep ==
  ASSUME GossipInv, IndexInvariant, Drained, [Next]_vars, NEW n \in Node, ticking = n, ticking' = NoNode,
         NEW p \in MeshPeers(n)
  PROVE  Sendable(n, p)' = {}
<1>0. n # NoNode /\ p \in Node
  BY NodeAssumption DEF MeshPeers
<1>1. CASE UNCHANGED vars
  BY <1>0, <1>1 DEF vars, tickVars
<1>2. ASSUME NEW m \in Node, NodeStep(m) PROVE FALSE
  BY <1>0, <1>2 DEF NodeStep, SlotStart, SlotEnd, PublishLocal, FanoutPublish, DropRPC, OnIncomingRPC, Known,
                    MarkValidated, OnEmitGossip, PublishTick
<1>3. ASSUME NEW m \in Node, NEW q, NEW d, NEW chunk,
             SelectIWantTargets(m, q, d) \/ DrawChunk(m, q, chunk)
      PROVE  FALSE
  BY <1>0, <1>3 DEF SelectIWantTargets, DrawChunk, News
<1>4. ASSUME NEW m \in Node, NEW q \in Node, VisitPeer(m, q) PROVE Sendable(n, p)' = {}
  <2>1. m = n /\ strategy = "partial" /\ serving = {q}
    BY <1>0, <1>4 DEF VisitPeer
  <2>2. CASE p = q
    BY <1>4, <2>1, <2>2, VisitDrains DEF GossipInv
  <2>3. CASE p # q
    <3>1. Sendable(n, p) = {}
      BY <1>0, <2>1, <2>3 DEF Drained
    <3>2. Sendable(n, p)' \subseteq Sendable(n, p)
      BY <1>0, <1>4, <2>1, VisitDrains DEF GossipInv
    <3> QED BY <3>1, <3>2
  <2> QED BY <2>2, <2>3
<1>5. ASSUME NEW m \in Node, CloseTick(m) PROVE Sendable(n, p)' = {}
  <2>1. m = n /\ strategy = "priority" /\ Needy(n) = {} /\ UNCHANGED <<validated, sendCount, available>>
    BY <1>5 DEF CloseTick
  <2>2. IndexedFor(n, p) = {}
    BY <1>0, <2>1 DEF Needy, Peers
  <2>3. Sendable(n, p) = {}
    BY <1>0, <2>1, <2>2, IndexedIsSendable, SendableToMesh DEF GossipInv
  <2> QED BY <2>1, <2>3 DEF Sendable
<1> QED BY <1>1, <1>2, <1>3, <1>4, <1>5 DEF Next, TickStep

(* Nothing that can be sent to a mesh peer outlives a tick. *)
THEOREM TicksDrain == Spec => TickDrains
<1>1. Init => Drained
  BY DEF Init, Drained
<1>2. GossipInv /\ IndexInvariant /\ Drained /\ [Next]_vars =>
        [\A n \in Node : ticking = n /\ ticking' = NoNode =>
           \A p \in MeshPeers(n) : Sendable(n, p)' = {}]_vars
  BY TickDrainsStep
<1> QED BY <1>1, <1>2, DrainedStep, GossipHolds, IndexIsExact, PTL DEF Spec, TickDrains

LEMMA LeastForwardedStep ==
  ASSUME GossipInv, IndexInvariant, [Next]_vars, strategy = "priority", NEW n \in Node, ticking = n,
         NEW p \in MeshPeers(n), NEW x \in Sendable(n, p) \cap available'[n][p],
         NEW y \in Sendable(n, p)'
  PROVE  sendCount[n][x] <= sendCount[n][y]
<1>0. n # NoNode /\ p \in Node /\ x \notin available[n][p]
  BY NodeAssumption DEF MeshPeers, Sendable
<1>1. ASSUME available' = available PROVE FALSE
  BY <1>0, <1>1
<1>2. ASSUME NEW m \in Node, NodeStep(m) PROVE FALSE
  BY <1>0, <1>2 DEF NodeStep, SlotStart, SlotEnd, PublishLocal, FanoutPublish, DropRPC, OnIncomingRPC, Known,
                    MarkValidated, OnEmitGossip, PublishTick
<1>3. ASSUME NEW m \in Node, NEW q, NEW d, SelectIWantTargets(m, q, d) \/ VisitPeer(m, q) \/ CloseTick(m)
      PROVE  FALSE
  BY <1>1, <1>3 DEF SelectIWantTargets, VisitPeer, CloseTick
<1>4. ASSUME NEW m \in Node, NEW q \in Node, NEW chunk, DrawChunk(m, q, chunk)
      PROVE  sendCount[n][x] <= sendCount[n][y]
  <2>1. /\ m = n /\ chunk \in Chunks(n, q) /\ validated' = validated
        /\ available' = [available EXCEPT ![n][q] = @ \cup chunk]
        /\ sendCount' = [sendCount EXCEPT ![n] = Counted(@, chunk)]
    BY <1>4 DEF DrawChunk, News
  <2>2. \A r \in Node : available'[n][r] = IF r = q THEN available[n][r] \cup chunk ELSE available[n][r]
    BY <2>1 DEF GossipInv, TypeOK
  <2>3. q = p /\ x \in chunk
    BY <1>0, <2>2
  <2>4. y \in validated[n] /\ y \notin available[n][p] /\ y \notin chunk /\ sendCount'[n][y] < MaxPeersPerAttestation
    BY <1>0, <2>1, <2>2, <2>3 DEF Sendable
  <2>5. x \in validated[n] /\ sendCount[n][x] \in Count /\ sendCount[n][y] \in Count
    <3>1. \A z \in validated[n] : sendCount[n][z] \in Nat
      BY DEF GossipInv, TypeOK
    <3>2. sendCount'[n][y] = sendCount[n][y]
      BY <2>1, <2>4 DEF GossipInv, TypeOK, Counted
    <3>3. x \in validated[n] /\ sendCount[n][x] < MaxPeersPerAttestation
      BY DEF Sendable
    <3> QED BY <2>4, <3>1, <3>2, <3>3, LimitAssumption DEF Count
  <2>6. y \in IndexedFor(n, p) \ chunk
    <3>1. y \in Sendable(n, p)
      BY <2>4, <2>5, LimitAssumption DEF Sendable, Count
    <3> QED BY <1>0, <2>4, <3>1, IndexedIsSendable, SendableToMesh DEF GossipInv
  <2>7. Level(n, x) <= Level(n, y)
    BY <2>1, <2>3, <2>6 DEF Chunks
  <2>8. ASSUME NEW z \in validated[n], sendCount[n][z] \in Count PROVE Level(n, z) = sendCount[n][z]
    <3>1. \A k \in Count : z \in levels[n][k] <=> sendCount[n][z] = k
      BY DEF IndexInvariant
    <3> QED BY <2>8, <3>1 DEF Level
  <2> QED BY <2>4, <2>5, <2>7, <2>8
<1>5. CASE UNCHANGED vars
  BY <1>1, <1>5 DEF vars, slotVars
<1> QED BY <1>2, <1>3, <1>4, <1>5 DEF Next, TickStep

(* What is drawn for a mesh peer was forwarded no more often than what has to wait. *)
THEOREM LeastForwardedGoesFirst == Spec => LeastForwardedFirst
<1>1. GossipInv /\ IndexInvariant /\ [Next]_vars =>
        [strategy = "priority" =>
           \A n \in Node : \A p \in MeshPeers(n) :
             \A x \in Sendable(n, p) \cap available'[n][p], y \in Sendable(n, p)' :
               ticking = n => sendCount[n][x] <= sendCount[n][y]]_vars
  BY LeastForwardedStep
<1> QED BY <1>1, GossipHolds, IndexIsExact, PTL DEF Spec, LeastForwardedFirst
=============================================================================
