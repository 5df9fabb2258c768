----------------------- MODULE PartialDeliveryProofs ------------------------
(***************************************************************************)
(* Proofs about what PartialMessages delivers: what one node takes another *)
(* to have, or to be able to tell from its hash, against that other node   *)
(* and the messages on their way to it, in order.                          *)
(***************************************************************************)
EXTENDS PartialMessagesProofs

-----------------------------------------------------------------------------
(* What a node holds *)

(* What is validated is held, what is held has known data, and a node that has
   ended the slot has no state a late answer of the verifier could reach. *)
HeldInv ==
  /\ StartPhase # "away" => \A n \in Node : phase[n] # "away"
  /\ \A n \in Node : phase[n] = "closed" => buckets[n] = {}
  /\ \A n \in Node : validated[n] \subseteq held[n]
  /\ \A n \in Node : \A x \in held[n] : x[1] \in identities[n]
  /\ \A n \in Node : phase[n] # "closed" => \A s \in verifying[n] : s \subseteq held[n]

LEMMA HeldReceive ==
  ASSUME TypeOK, HeldInv, NEW n \in Node, NEW p \in Node, OnIncomingRPC(n, p)
  PROVE  HeldInv'
<1> DEFINE rpc   == Head(chan[p][n])
           known == identities[n] \cup rpc.metaFull \cup rpc.dataFull
           got   == {a \in rpc.sent : a[1] \in known}
           new   == got \ held[n]
<1>1. /\ identities' = [identities EXCEPT ![n] = known]
      /\ held' = [held EXCEPT ![n] = @ \cup new]
      /\ verifying' = [verifying EXCEPT ![n] =
                         @ \cup {{a \in new : a[1] = d} : d \in DataOf(new)}]
      /\ phase' = phase /\ validated' = validated
  BY DEF OnIncomingRPC, Known
<1>2. phase[n] # "closed"
  BY DEF OnIncomingRPC, Known, AcceptsSlot
<1>3. \A x \in new : x[1] \in known
  OBVIOUS
<1>4. identities[n] \subseteq known
  OBVIOUS
<1>5. \A m \in Node : m # n => buckets'[m] = buckets[m]
  BY DEF OnIncomingRPC, Known, TypeOK
<1> HIDE DEF rpc, known, got, new
<1>6. /\ \A m \in Node : identities'[m] = IF m = n THEN known ELSE identities[m]
      /\ \A m \in Node : held'[m] = IF m = n THEN held[m] \cup new ELSE held[m]
  BY <1>1 DEF TypeOK
<1>7. \A m \in Node : phase'[m] # "closed" => \A s \in verifying'[m] : s \subseteq held'[m]
  <2> SUFFICES ASSUME NEW m \in Node, phase[m] # "closed", NEW s \in verifying'[m] PROVE s \subseteq held'[m]
    BY <1>1
  <2>1. s \in verifying[m] \/ (m = n /\ s \in {{a \in new : a[1] = d} : d \in DataOf(new)})
    <3>1. verifying' = [verifying EXCEPT ![n] =
                          @ \cup {{a \in new : a[1] = d} : d \in DataOf(new)}]
      BY <1>1
    <3>2. verifying \in [Node -> SUBSET (SUBSET Attestation)]
      BY DEF TypeOK
    <3> QED BY <3>1, <3>2
  <2>2. CASE s \in verifying[m]
    BY <1>6, <2>2 DEF HeldInv
  <2>3. CASE m = n /\ s \in {{a \in new : a[1] = d} : d \in DataOf(new)}
    BY <1>6, <2>3
  <2> QED BY <2>1, <2>2, <2>3
<1>8. \A m \in Node : \A x \in held'[m] : x[1] \in identities'[m]
  <2> SUFFICES ASSUME NEW m \in Node, NEW x \in held'[m] PROVE x[1] \in identities'[m]
    OBVIOUS
  <2>1. CASE x \in held[m]
    <3>1. x[1] \in identities[m]
      BY <2>1 DEF HeldInv
    <3> QED BY <1>4, <1>6, <3>1
  <2>2. CASE m = n /\ x \in new
    <3>1. x[1] \in known
      BY <1>3, <2>2
    <3> QED BY <1>6, <2>2, <3>1
  <2> QED BY <1>6, <2>1, <2>2
<1>9. \A m \in Node : validated'[m] \subseteq held'[m]
  BY <1>1, <1>6 DEF HeldInv
<1>10. \A m \in Node : phase'[m] = "closed" => buckets'[m] = {}
  BY <1>1, <1>2, <1>5 DEF HeldInv
<1> QED BY <1>1, <1>7, <1>8, <1>9, <1>10 DEF HeldInv

LEMMA HeldPublish ==
  ASSUME TypeOK, HeldInv, NEW n \in Node, NEW a \in Own[n], PublishLocal(n, a)
  PROVE  HeldInv'
<1>1. /\ phase[n] = "open" /\ phase' = phase /\ verifying' = verifying
      /\ identities' = [identities EXCEPT ![n] = @ \cup {a[1]}]
      /\ buckets' = [buckets EXCEPT ![n] = @ \cup {a[1]}]
      /\ held' = [held EXCEPT ![n] = @ \cup {a}]
  BY DEF PublishLocal
<1>2. validated' = validated \/ validated' = [validated EXCEPT ![n] = @ \cup {a}]
  <2>1. CASE a \in held[n]
    BY <2>1 DEF PublishLocal
  <2>2. CASE a \notin held[n]
    BY <2>2 DEF PublishLocal
  <2> QED BY <2>1, <2>2
<1>3. /\ \A m \in Node : identities'[m] = IF m = n THEN identities[m] \cup {a[1]} ELSE identities[m]
      /\ \A m \in Node : buckets'[m] = IF m = n THEN buckets[m] \cup {a[1]} ELSE buckets[m]
      /\ \A m \in Node : held'[m] = IF m = n THEN held[m] \cup {a} ELSE held[m]
  BY <1>1 DEF TypeOK
<1>4. \A m \in Node : validated'[m] \subseteq held'[m]
  <2> SUFFICES ASSUME NEW m \in Node, NEW x \in validated'[m] PROVE x \in held'[m]
    OBVIOUS
  <2>1. x \in validated[m] \/ (m = n /\ x = a)
    BY <1>2 DEF TypeOK
  <2> QED BY <1>3, <2>1 DEF HeldInv
<1>5. \A m \in Node : \A x \in held'[m] : x[1] \in identities'[m]
  <2> SUFFICES ASSUME NEW m \in Node, NEW x \in held'[m] PROVE x[1] \in identities'[m]
    OBVIOUS
  <2>1. CASE x \in held[m]
    <3>1. x[1] \in identities[m]
      BY <2>1 DEF HeldInv
    <3> QED BY <1>3, <3>1
  <2>2. CASE m = n /\ x = a
    BY <1>3, <2>2
  <2> QED BY <1>3, <2>1, <2>2
<1> QED BY <1>1, <1>3, <1>4, <1>5 DEF HeldInv

LEMMA HeldValidate ==
  ASSUME TypeOK, HeldInv, NEW n \in Node, NEW atts \in verifying[n], MarkValidated(n, atts)
  PROVE  HeldInv'
<1>1. /\ UNCHANGED <<phase, buckets, held, identities>>
      /\ verifying' = [verifying EXCEPT ![n] = @ \ {atts}]
  BY DEF MarkValidated
<1>2. \/ validated' = validated
      \/ DataOf(atts) \subseteq buckets[n] /\ validated' = [validated EXCEPT ![n] = @ \cup atts]
  BY DEF MarkValidated
<1>3. \A m \in Node : verifying'[m] \subseteq verifying[m]
  BY <1>1 DEF TypeOK
<1>4. \A m \in Node : validated'[m] \subseteq held[m]
  <2>1. CASE validated' = validated
    BY <2>1 DEF HeldInv
  <2>2. CASE DataOf(atts) \subseteq buckets[n] /\ validated' = [validated EXCEPT ![n] = @ \cup atts]
    <3>1. \A m \in Node : validated'[m] = IF m = n THEN validated[m] \cup atts ELSE validated[m]
      BY <2>2 DEF TypeOK
    <3>2. atts \subseteq held[n]
      <4>1. CASE phase[n] # "closed"
        BY <4>1 DEF HeldInv
      <4>2. CASE phase[n] = "closed"
        <5>1. DataOf(atts) = {}
          BY <2>2, <4>2 DEF HeldInv
        <5>2. \A x \in atts : x[1] \in DataOf(atts)
          BY DEF DataOf
        <5> QED BY <5>1, <5>2
      <4> QED BY <4>1, <4>2
    <3> QED BY <3>1, <3>2 DEF HeldInv
  <2> QED BY <1>2, <2>1, <2>2
<1> QED BY <1>1, <1>3, <1>4 DEF HeldInv

LEMMA HeldSlot ==
  ASSUME TypeOK, HeldInv, NEW n \in Node, SlotStart(n) \/ SlotEnd(n)
  PROVE  HeldInv'
<1>1. CASE SlotStart(n)
  <2>1. /\ phase[n] # "closed" /\ phase' = [phase EXCEPT ![n] = "open"]
        /\ UNCHANGED <<buckets, held, validated, identities, verifying>>
    BY <1>1 DEF SlotStart, slotVars
  <2>2. \A m \in Node : phase'[m] = IF m = n THEN "open" ELSE phase[m]
    BY <2>1 DEF TypeOK
  <2> QED BY <2>1, <2>2 DEF HeldInv
<1>2. CASE SlotEnd(n)
  <2>1. /\ phase' = [phase EXCEPT ![n] = "closed"]
        /\ buckets' = [buckets EXCEPT ![n] = {}]
        /\ held' = [held EXCEPT ![n] = {}]
        /\ validated' = [validated EXCEPT ![n] = {}]
        /\ UNCHANGED <<identities, verifying>>
    BY <1>2 DEF SlotEnd
  <2>2. \A m \in Node :
          /\ m = n => phase'[m] = "closed" /\ buckets'[m] = {} /\ held'[m] = {} /\ validated'[m] = {}
          /\ m # n => /\ phase'[m] = phase[m] /\ buckets'[m] = buckets[m]
                      /\ held'[m] = held[m] /\ validated'[m] = validated[m]
    BY <2>1 DEF TypeOK
  <2> QED BY <2>1, <2>2 DEF HeldInv
<1> QED BY <1>1, <1>2

(* Actions that leave alone what a node holds and knows. *)
LEMMA HeldKept ==
  ASSUME NEW n, NEW p, NEW x, NEW y,
         \/ FanoutPublish(n, x) \/ DropRPC(n, p) \/ OnEmitGossip(n, x) \/ PublishTick(n)
         \/ SelectIWantTargets(n, p, y) \/ VisitPeer(n, p) \/ DrawChunk(n, p, y) \/ CloseTick(n)
  PROVE  UNCHANGED <<phase, identities, buckets, held, validated, verifying>>
<1>1. CASE FanoutPublish(n, x) BY <1>1 DEF FanoutPublish, slotVars
<1>2. CASE DropRPC(n, p) BY <1>2 DEF DropRPC, slotVars
<1>3. CASE OnEmitGossip(n, x) BY <1>3 DEF OnEmitGossip, slotVars
<1>4. CASE PublishTick(n) BY <1>4 DEF PublishTick, slotVars
<1>5. CASE SelectIWantTargets(n, p, y) BY <1>5 DEF SelectIWantTargets
<1>6. CASE VisitPeer(n, p) BY <1>6 DEF VisitPeer
<1>7. CASE DrawChunk(n, p, y) BY <1>7 DEF DrawChunk, News
<1>8. CASE CloseTick(n) BY <1>8 DEF CloseTick
<1> QED BY <1>1, <1>2, <1>3, <1>4, <1>5, <1>6, <1>7, <1>8

LEMMA HeldStep == TypeOK /\ HeldInv /\ [Next]_vars => HeldInv'
<1> SUFFICES ASSUME TypeOK, HeldInv, [Next]_vars PROVE HeldInv'
  OBVIOUS
<1>1. ASSUME UNCHANGED <<phase, identities, buckets, held, validated, verifying>> PROVE HeldInv'
  BY <1>1 DEF HeldInv
<1>2. CASE UNCHANGED vars
  BY <1>1, <1>2 DEF vars, slotVars
<1>3. ASSUME NEW n \in Node, NodeStep(n) PROVE HeldInv'
  BY <1>1, <1>3, HeldKept, HeldSlot, HeldPublish, HeldReceive, HeldValidate DEF NodeStep
<1>4. ASSUME NEW n \in Node, TickStep(n) PROVE HeldInv'
  BY <1>1, <1>4, HeldKept DEF TickStep
<1> QED BY <1>2, <1>3, <1>4 DEF Next

LEMMA HeldHolds == Spec => []HeldInv
<1>1. Init => HeldInv
  BY FlagAssumption DEF Init, HeldInv
<1> QED BY <1>1, HeldStep, TypesOfPartial, PTL DEF Spec

-----------------------------------------------------------------------------
(* Hashes *)

(* One of the first k messages of queue q carries data e. *)
Tells(q, k, e) == \E j \in 1 .. k : e \in q[j].metaFull \cup q[j].dataFull

(* A receiver that knows the data in I can tell each batch of q when its turn comes, *)
Resolvable(q, I) ==
  \A i \in 1 .. Len(q) : \A x \in q[i].sent : x[1] \in I \/ Tells(q, i, x[1])

(* and will know all of S at the end of q. *)
TellsAll(q, I, S) == \A e \in S : e \in I \/ Tells(q, Len(q), e)

SentFull(n, p) == sentDataFull[n][p] \cup sentMetaFull[n][p]

(* What was sent in full once, and is not sent again, is known to the peer or still
   ahead of everything that will be sent. *)
Delivered ==
  \A n, p \in Node : phase[p] # "closed" =>
    /\ Resolvable(chan[n][p], identities[p])
    /\ TellsAll(chan[n][p], identities[p], SentFull(n, p))

(* A message whose batch is told by the message, or by one before it. *)
Explained(n, p, rpc) ==
  /\ \A x \in rpc.sent : x[1] \in rpc.dataFull \cup SentFull(n, p)
  /\ rpc.available \cup rpc.requests \cup rpc.sent = {} => rpc.metaFull \cup rpc.dataFull = {}

LEMMA QueueSent ==
  ASSUME NEW q \in Seq(RPC), NEW rpc \in RPC, NEW I, NEW S, Resolvable(q, I), TellsAll(q, I, S),
         \A x \in rpc.sent : x[1] \in rpc.dataFull \cup S,
         rpc.available \cup rpc.requests \cup rpc.sent = {} => rpc.metaFull \cup rpc.dataFull = {}
  PROVE  /\ Resolvable(Sent(q, rpc), I)
         /\ TellsAll(Sent(q, rpc), I, S \cup rpc.metaFull \cup rpc.dataFull)
<1>1. CASE rpc.available \cup rpc.requests \cup rpc.sent = {}
  <2>1. Sent(q, rpc) = q
    BY <1>1 DEF Sent
  <2>2. S \cup rpc.metaFull \cup rpc.dataFull = S
    BY <1>1
  <2> QED BY <2>1, <2>2
<1>2. CASE rpc.available \cup rpc.requests \cup rpc.sent # {}
  <2> DEFINE r == Append(q, rpc)
  <2>1. Sent(q, rpc) = r
    BY <1>2 DEF Sent
  <2>2. Len(r) = Len(q) + 1 /\ Len(q) \in Nat /\ r[Len(q) + 1] = rpc
    OBVIOUS
  <2>3. \A i \in 1 .. Len(q) : r[i] = q[i]
    OBVIOUS
  <2> HIDE DEF r
  <2>4. ASSUME NEW i \in 1 .. Len(q), NEW e, Tells(q, i, e)
        PROVE  Tells(r, i, e)
    BY <2>2, <2>3, <2>4 DEF Tells
  <2>5. ASSUME NEW e, Tells(q, Len(q), e) PROVE Tells(r, Len(r), e)
    BY <2>2, <2>3, <2>5 DEF Tells
  <2>6. ASSUME NEW e \in rpc.metaFull \cup rpc.dataFull PROVE Tells(r, Len(r), e)
    BY <2>2, <2>6 DEF Tells
  <2>7. TellsAll(r, I, S \cup rpc.metaFull \cup rpc.dataFull)
    BY <2>5, <2>6 DEF TellsAll
  <2>8. Resolvable(r, I)
    <3> SUFFICES ASSUME NEW i \in 1 .. Len(r), NEW x \in r[i].sent PROVE x[1] \in I \/ Tells(r, i, x[1])
      BY DEF Resolvable
    <3>1. CASE i \in 1 .. Len(q)
      <4>1. x \in q[i].sent
        BY <2>3, <3>1
      <4>2. x[1] \in I \/ Tells(q, i, x[1])
        BY <3>1, <4>1 DEF Resolvable
      <4> QED BY <2>4, <3>1, <4>2
    <3>2. CASE i = Len(r)
      <4>1. x[1] \in rpc.dataFull \cup S
        BY <2>2, <3>2
      <4> QED BY <2>7, <3>2, <4>1 DEF TellsAll
    <3> QED BY <2>2, <3>1, <3>2
  <2> QED BY <2>1, <2>7, <2>8
<1> QED BY <1>1, <1>2

LEMMA QueueTail ==
  ASSUME NEW q \in Seq(RPC), q # <<>>, NEW I, NEW S, Resolvable(q, I), TellsAll(q, I, S)
  PROVE  LET J == I \cup Head(q).metaFull \cup Head(q).dataFull
         IN /\ \A x \in Head(q).sent : x[1] \in J
            /\ Resolvable(Tail(q), J)
            /\ TellsAll(Tail(q), J, S)
<1> DEFINE J == I \cup Head(q).metaFull \cup Head(q).dataFull
           r == Tail(q)
<1>1. /\ Len(r) = Len(q) - 1 /\ Len(q) \in Nat /\ 1 \in 1 .. Len(q)
      /\ \A i \in 1 .. Len(r) : r[i] = q[i + 1] /\ i + 1 \in 1 .. Len(q)
      /\ Head(q) = q[1]
  BY TailOf
<1> HIDE DEF r
<1>2. ASSUME NEW k \in 1 .. Len(q), NEW e, Tells(q, k, e) PROVE e \in J \/ Tells(r, k - 1, e)
  <2>1. PICK j \in 1 .. k : e \in q[j].metaFull \cup q[j].dataFull
    BY <1>2 DEF Tells
  <2>2. CASE j = 1
    BY <1>1, <2>1, <2>2
  <2>3. CASE j # 1
    <3>1. j - 1 \in 1 .. k - 1 /\ j - 1 \in 1 .. Len(r)
      BY <1>1, <2>3
    <3>2. r[j - 1] = q[j]
      BY <1>1, <3>1
    <3> QED BY <2>1, <3>1, <3>2 DEF Tells
  <2> QED BY <2>2, <2>3
<1>3. \A x \in Head(q).sent : x[1] \in J
  <2> SUFFICES ASSUME NEW x \in q[1].sent PROVE x[1] \in J
    BY <1>1
  <2>1. x[1] \in I \/ Tells(q, 1, x[1])
    BY <1>1 DEF Resolvable
  <2>2. \A j \in 1 .. 1 : j = 1
    OBVIOUS
  <2> QED BY <1>1, <2>1, <2>2 DEF Tells
<1>4. Resolvable(r, J)
  <2> SUFFICES ASSUME NEW i \in 1 .. Len(r), NEW x \in r[i].sent PROVE x[1] \in J \/ Tells(r, i, x[1])
    BY DEF Resolvable
  <2>1. x[1] \in I \/ Tells(q, i + 1, x[1])
    BY <1>1 DEF Resolvable
  <2>2. (i + 1) - 1 = i
    OBVIOUS
  <2> HIDE DEF J
  <2>3. Tells(q, i + 1, x[1]) => x[1] \in J \/ Tells(r, i, x[1])
    BY <1>1, <1>2, <2>2
  <2> QED BY <2>1, <2>3 DEF J
<1>5. TellsAll(r, J, S)
  <2> SUFFICES ASSUME NEW e \in S PROVE e \in J \/ Tells(r, Len(r), e)
    BY DEF TellsAll
  <2>1. e \in I \/ Tells(q, Len(q), e)
    BY DEF TellsAll
  <2>2. Len(q) \in 1 .. Len(q)
    BY <1>1
  <2> HIDE DEF J
  <2>3. Tells(q, Len(q), e) => e \in J \/ Tells(r, Len(q) - 1, e)
    BY <1>2, <2>2
  <2> QED BY <1>1, <2>1, <2>3 DEF J
<1> QED BY <1>3, <1>4, <1>5 DEF r

LEMMA QueueMore ==
  ASSUME NEW q, NEW I, NEW J, NEW S, NEW T, I \subseteq J, T \subseteq S, Resolvable(q, I), TellsAll(q, I, S)
  PROVE  Resolvable(q, J) /\ TellsAll(q, J, T)
<1>1. Resolvable(q, J)
  BY DEF Resolvable
<1>2. TellsAll(q, J, T)
  BY DEF TellsAll
<1> QED BY <1>1, <1>2

(* Every message that is made is explained. *)
LEMMA MessageExplained ==
  ASSUME HeldInv, NEW n \in Node, NEW p \in Node, NEW list, NEW reqs, NEW atts \in SUBSET validated[n]
  PROVE  Explained(n, p, Message(n, p, list, reqs, atts))
<1> DEFINE rpc == Message(n, p, list, reqs, atts)
<1>1. /\ rpc.available = list /\ rpc.requests = reqs /\ rpc.sent = atts
      /\ rpc.metaFull = FullMetadata(n, p, list \cup reqs) /\ rpc.dataFull = FullBatches(n, p, atts)
  BY DEF Message
<1>2. ASSUME NEW x \in atts PROVE x[1] \in FullBatches(n, p, atts) \cup SentFull(n, p)
  <2>1. x[1] \in DataOf(atts)
    BY DEF DataOf
  <2>2. x[1] \in identities[n]
    BY DEF HeldInv
  <2> QED BY <2>1, <2>2 DEF FullBatches, SentFull
<1>3. ASSUME list \cup reqs \cup atts = {}
      PROVE  FullMetadata(n, p, list \cup reqs) \cup FullBatches(n, p, atts) = {}
  <2>1. DataOf(list \cup reqs) = {} /\ DataOf(atts) = {}
    BY <1>3 DEF DataOf
  <2> QED BY <2>1 DEF FullMetadata, FullBatches
<1> HIDE DEF rpc
<1> QED BY <1>1, <1>2, <1>3 DEF Explained, rpc

(* What a step may do to the messages from n to p: nothing, append one, take one. *)
Stays(n, p) ==
  /\ chan'[n][p] = chan[n][p] /\ identities[p] \subseteq identities'[p]
  /\ SentFull(n, p)' \subseteq SentFull(n, p)

Grows(n, p) ==
  /\ identities[p] \subseteq identities'[p]
  /\ \E rpc \in RPC : /\ Explained(n, p, rpc)
                      /\ chan'[n][p] = Sent(chan[n][p], rpc)
                      /\ SentFull(n, p)' \subseteq SentFull(n, p) \cup rpc.metaFull \cup rpc.dataFull

Shrinks(n, p) ==
  /\ chan[n][p] # <<>> /\ chan'[n][p] = Tail(chan[n][p])
  /\ identities'[p] = identities[p] \cup Head(chan[n][p]).metaFull \cup Head(chan[n][p]).dataFull
  /\ SentFull(n, p)' \subseteq SentFull(n, p)

LEMMA DeliveredKept ==
  ASSUME TypeOK, Delivered,
         \A n, p \in Node : phase'[p] # "closed" =>
           phase[p] # "closed" /\ (Stays(n, p) \/ Grows(n, p) \/ Shrinks(n, p))
  PROVE  Delivered'
<1> SUFFICES ASSUME NEW n \in Node, NEW p \in Node, phase'[p] # "closed"
             PROVE  /\ Resolvable(chan'[n][p], identities'[p])
                    /\ TellsAll(chan'[n][p], identities'[p], SentFull(n, p)')
  BY DEF Delivered, Resolvable, TellsAll, Tells
<1>1. chan[n][p] \in Seq(RPC)
  BY DEF TypeOK
<1>2. Resolvable(chan[n][p], identities[p]) /\ TellsAll(chan[n][p], identities[p], SentFull(n, p))
  BY DEF Delivered
<1>3. CASE Stays(n, p)
  BY <1>2, <1>3, QueueMore DEF Stays
<1>4. CASE Grows(n, p)
  <2>1. PICK rpc \in RPC : /\ Explained(n, p, rpc)
                           /\ chan'[n][p] = Sent(chan[n][p], rpc)
                           /\ SentFull(n, p)' \subseteq SentFull(n, p) \cup rpc.metaFull \cup rpc.dataFull
    BY <1>4 DEF Grows
  <2>2. /\ Resolvable(Sent(chan[n][p], rpc), identities[p])
        /\ TellsAll(Sent(chan[n][p], rpc), identities[p], SentFull(n, p) \cup rpc.metaFull \cup rpc.dataFull)
    BY <1>1, <1>2, <2>1, QueueSent DEF Explained
  <2>3. identities[p] \subseteq identities'[p]
    BY <1>4 DEF Grows
  <2> QED BY <2>1, <2>2, <2>3, QueueMore
<1>5. CASE Shrinks(n, p)
  <2>1. /\ Resolvable(Tail(chan[n][p]), identities'[p])
        /\ TellsAll(Tail(chan[n][p]), identities'[p], SentFull(n, p))
    <3>1. /\ chan[n][p] # <<>>
          /\ identities'[p] =
               identities[p] \cup Head(chan[n][p]).metaFull \cup Head(chan[n][p]).dataFull
      BY <1>5 DEF Shrinks
    <3>2. LET J == identities[p] \cup Head(chan[n][p]).metaFull \cup Head(chan[n][p]).dataFull
          IN Resolvable(Tail(chan[n][p]), J) /\ TellsAll(Tail(chan[n][p]), J, SentFull(n, p))
      BY <1>1, <1>2, <3>1, QueueTail
    <3> QED BY <3>1, <3>2
  <2>2. chan'[n][p] = Tail(chan[n][p]) /\ SentFull(n, p)' \subseteq SentFull(n, p)
    BY <1>5 DEF Shrinks
  <2> QED BY <2>1, <2>2, QueueMore
<1> QED BY <1>3, <1>4, <1>5

LEMMA DeliveredVisit ==
  ASSUME TypeOK, HeldInv, Delivered, NEW n \in Node, NEW p \in Node, VisitPeer(n, p)
  PROVE  Delivered'
<1> DEFINE atts == AttestationsToSend(n, p)
           list == ListFor(n, p)
           reqs == wants[p] \ sentRequests[n][p]
           rpc  == Message(n, p, list, reqs, atts)
<1>1. /\ atts \in SUBSET Attestation /\ list \in SUBSET Attestation
      /\ reqs \in SUBSET Attestation
  BY SelectionType DEF TypeOK
<1>2. rpc \in RPC
  BY <1>1, MessageType
<1>3. Explained(n, p, rpc)
  <2>1. atts \in SUBSET validated[n]
    BY DEF AttestationsToSend
  <2> QED BY <2>1, MessageExplained
<1> HIDE DEF rpc
<1>4. /\ sentDataFull' = [sentDataFull EXCEPT ![n][p] = @ \cup rpc.dataFull]
      /\ sentMetaFull' = [sentMetaFull EXCEPT ![n][p] = @ \cup rpc.metaFull]
      /\ chan' = [chan EXCEPT ![n][p] = Sent(@, rpc)]
      /\ phase' = phase /\ identities' = identities
  BY DEF VisitPeer, PublishTo, rpc
<1>5. \A m, q \in Node :
        /\ chan'[m][q] = IF m = n /\ q = p THEN Sent(chan[m][q], rpc) ELSE chan[m][q]
        /\ sentDataFull'[m][q] =
             IF m = n /\ q = p THEN sentDataFull[m][q] \cup rpc.dataFull ELSE sentDataFull[m][q]
        /\ sentMetaFull'[m][q] =
             IF m = n /\ q = p THEN sentMetaFull[m][q] \cup rpc.metaFull ELSE sentMetaFull[m][q]
  BY <1>4 DEF TypeOK
<1>6. \A m, q \in Node : Stays(m, q) \/ Grows(m, q)
  BY <1>2, <1>3, <1>4, <1>5 DEF Stays, Grows, SentFull
<1> QED BY <1>4, <1>6, DeliveredKept

LEMMA DeliveredDraw ==
  ASSUME TypeOK, IndexInvariant, HeldInv, Delivered, NEW n \in Node, NEW p \in Node, NEW chunk,
         DrawChunk(n, p, chunk)
  PROVE  Delivered'
<1> DEFINE more == IndexedFor(n, p) # chunk
           tell == SendAvailableWithData /\ more /\ p \notin gossip[n] /\ p \notin told
           list == IF tell THEN validated[n] \ sentAvailable[n][p] ELSE {}
           rpc  == Message(n, p, list, {}, chunk)
<1>1. chunk \in SUBSET validated[n] /\ validated[n] \in SUBSET Attestation
  <2>1. strategy = "priority" /\ chunk \in SUBSET IndexedFor(n, p)
    BY DEF DrawChunk, News, Chunks
  <2>2. IndexedFor(n, p) \subseteq validated[n]
    BY <2>1, IndexedIsSendable DEF AttestationsToSend
  <2> QED BY <2>1, <2>2 DEF TypeOK
<1>2. rpc \in RPC
  BY <1>1, MessageType
<1>3. Explained(n, p, rpc)
  BY <1>1, MessageExplained
<1> HIDE DEF rpc
<1>4. /\ sentDataFull' = [sentDataFull EXCEPT ![n][p] = @ \cup rpc.dataFull]
      /\ sentMetaFull' = [sentMetaFull EXCEPT ![n][p] = @ \cup rpc.metaFull]
      /\ chan' = [chan EXCEPT ![n][p] = Sent(@, rpc)]
      /\ phase' = phase /\ identities' = identities
  BY DEF DrawChunk, News, rpc
<1>5. \A m, q \in Node :
        /\ chan'[m][q] = IF m = n /\ q = p THEN Sent(chan[m][q], rpc) ELSE chan[m][q]
        /\ sentDataFull'[m][q] =
             IF m = n /\ q = p THEN sentDataFull[m][q] \cup rpc.dataFull ELSE sentDataFull[m][q]
        /\ sentMetaFull'[m][q] =
             IF m = n /\ q = p THEN sentMetaFull[m][q] \cup rpc.metaFull ELSE sentMetaFull[m][q]
  BY <1>4 DEF TypeOK
<1>6. \A m, q \in Node : Stays(m, q) \/ Grows(m, q)
  BY <1>2, <1>3, <1>4, <1>5 DEF Stays, Grows, SentFull
<1> QED BY <1>4, <1>6, DeliveredKept

LEMMA DeliveredClose ==
  ASSUME TypeOK, HeldInv, Delivered, NEW n \in Node, CloseTick(n)
  PROVE  Delivered'
<1> DEFINE list == [p \in Node |-> IF p \in gossip[n] THEN ListFor(n, p) ELSE {}]
           reqs == [p \in Node |-> IF p \in gossip[n] THEN wants[p] \ sentRequests[n][p] ELSE {}]
           rpc  == [p \in Node |-> Message(n, p, list[p], reqs[p], {})]
<1>1. \A q \in Node : list[q] \in SUBSET Attestation /\ reqs[q] \in SUBSET Attestation
  <2>1. \A q \in Node : ListFor(n, q) \subseteq Attestation
    BY SelectionType
  <2>2. \A q \in Node : wants[q] \subseteq Attestation
    BY DEF TypeOK
  <2> QED BY <2>1, <2>2
<1> HIDE DEF list, reqs
<1>2. \A q \in Node : rpc[q] \in RPC /\ Explained(n, q, rpc[q])
  <2> SUFFICES ASSUME NEW q \in Node PROVE rpc[q] \in RPC /\ Explained(n, q, rpc[q])
    OBVIOUS
  <2>1. rpc[q] = Message(n, q, list[q], reqs[q], {})
    OBVIOUS
  <2>2. {} \in SUBSET validated[n]
    OBVIOUS
  <2> HIDE DEF rpc
  <2> QED BY <1>1, <2>1, <2>2, MessageType, MessageExplained
<1> HIDE DEF rpc
<1>3. /\ sentMetaFull' = [sentMetaFull EXCEPT ![n] = [p \in Node |-> @[p] \cup rpc[p].metaFull]]
      /\ chan' = [chan EXCEPT ![n] = [p \in Node |-> Sent(@[p], rpc[p])]]
      /\ phase' = phase /\ identities' = identities /\ sentDataFull' = sentDataFull
  BY DEF CloseTick, rpc, list, reqs
<1>4. \A m, q \in Node :
        /\ chan'[m][q] = IF m = n THEN Sent(chan[m][q], rpc[q]) ELSE chan[m][q]
        /\ sentMetaFull'[m][q] =
             IF m = n THEN sentMetaFull[m][q] \cup rpc[q].metaFull ELSE sentMetaFull[m][q]
  BY <1>3 DEF TypeOK
<1>5. \A m, q \in Node : Stays(m, q) \/ Grows(m, q)
  <2> SUFFICES ASSUME NEW m \in Node, NEW q \in Node PROVE Stays(m, q) \/ Grows(m, q)
    OBVIOUS
  <2>1. CASE m = n
    <3>1. chan'[m][q] = Sent(chan[m][q], rpc[q])
      BY <1>4, <2>1
    <3>2. SentFull(m, q)' \subseteq SentFull(m, q) \cup rpc[q].metaFull \cup rpc[q].dataFull
      BY <1>3, <1>4, <2>1 DEF SentFull
    <3> QED BY <1>2, <1>3, <2>1, <3>1, <3>2 DEF Grows
  <2>2. CASE m # n
    BY <1>3, <1>4, <2>2 DEF Stays, SentFull
  <2> QED BY <2>1, <2>2
<1> QED BY <1>3, <1>5, DeliveredKept

LEMMA DeliveredFanout ==
  ASSUME TypeOK, Delivered, NEW n \in Node, NEW a \in Own[n], FanoutPublish(n, a)
  PROVE  Delivered'
<1> DEFINE rpc == [available |-> {}, requests |-> {}, metaFull |-> {},
                   sent |-> {a}, dataFull |-> {a[1]}]
<1>1. a \in Attestation /\ a[1] \in Data
  BY OwnAssumption DEF Attestation
<1>2. rpc \in RPC
  BY <1>1 DEF RPC
<1>3. \A m, q \in Node : Explained(m, q, rpc) /\ Sent(chan[m][q], rpc) = Append(chan[m][q], rpc)
  BY DEF Explained, Sent
<1> HIDE DEF rpc
<1>4. /\ chan' = [chan EXCEPT ![n] =
           [p \in Node |-> IF p \in FanoutPeers[n] THEN Append(@[p], rpc) ELSE @[p]]]
      /\ UNCHANGED <<phase, identities, sentDataFull, sentMetaFull>>
  BY DEF FanoutPublish, rpc, sentVars
<1>5. \A m, q \in Node :
        chan'[m][q] = chan[m][q] \/ chan'[m][q] = Append(chan[m][q], rpc)
  BY <1>4 DEF TypeOK
<1>6. \A m, q \in Node : SentFull(m, q)' = SentFull(m, q)
  BY <1>4 DEF SentFull
<1>7. ASSUME NEW m \in Node, NEW q \in Node PROVE Stays(m, q) \/ Grows(m, q)
  <2>1. identities' = identities /\ SentFull(m, q)' = SentFull(m, q)
    BY <1>4, <1>6
  <2>2. CASE chan'[m][q] = chan[m][q]
    BY <2>1, <2>2 DEF Stays
  <2>3. CASE chan'[m][q] = Append(chan[m][q], rpc)
    <3>1. chan'[m][q] = Sent(chan[m][q], rpc) /\ Explained(m, q, rpc)
      BY <1>3, <2>3
    <3> QED BY <1>2, <2>1, <3>1 DEF Grows
  <2> QED BY <1>5, <2>2, <2>3
<1> QED BY <1>4, <1>7, DeliveredKept

(* Whoever takes a message in order knows what it carries from then on. *)
LEMMA DeliveredReceive ==
  ASSUME TypeOK, Delivered, NEW n \in Node, NEW p \in Node, OnIncomingRPC(n, p)
  PROVE  Delivered'
<1> DEFINE rpc == Head(chan[p][n])
<1>1. /\ chan[p][n] # <<>>
      /\ chan' = [chan EXCEPT ![p][n] = Tail(@)]
      /\ identities' = [identities EXCEPT ![n] = identities[n] \cup rpc.metaFull \cup rpc.dataFull]
      /\ UNCHANGED <<phase, sentDataFull, sentMetaFull>>
  BY DEF OnIncomingRPC, Known, sentVars
<1> HIDE DEF rpc
<1>2. /\ \A m, q \in Node : chan'[m][q] = IF m = p /\ q = n THEN Tail(chan[m][q]) ELSE chan[m][q]
      /\ \A q \in Node : identities'[q] =
           IF q = n THEN identities[n] \cup rpc.metaFull \cup rpc.dataFull ELSE identities[q]
  BY <1>1 DEF TypeOK
<1>3. \A m, q \in Node : SentFull(m, q)' = SentFull(m, q)
  BY <1>1 DEF SentFull
<1>4. Shrinks(p, n)
  BY <1>1, <1>2, <1>3 DEF Shrinks, rpc
<1>5. \A m, q \in Node : (m = p /\ q = n) \/ Stays(m, q)
  BY <1>2, <1>3 DEF Stays
<1> QED BY <1>1, <1>4, <1>5, DeliveredKept

(* Only who has ended the slot drops a message. *)
LEMMA DeliveredDrop ==
  ASSUME StartPhase # "away", TypeOK, HeldInv, Delivered, NEW n \in Node, NEW p \in Node, DropRPC(n, p)
  PROVE  Delivered'
<1>1. /\ chan' = [chan EXCEPT ![p][n] = Tail(@)]
      /\ UNCHANGED <<phase, identities, sentDataFull, sentMetaFull>>
  BY DEF DropRPC, sentVars
<1>2. phase[n] = "closed"
  BY DEF DropRPC, AcceptsSlot, HeldInv, TypeOK
<1>3. \A m, q \in Node : chan'[m][q] = IF m = p /\ q = n THEN Tail(chan[m][q]) ELSE chan[m][q]
  BY <1>1 DEF TypeOK
<1>4. \A m, q \in Node : SentFull(m, q)' = SentFull(m, q)
  BY <1>1 DEF SentFull
<1>5. \A m, q \in Node : phase'[q] # "closed" => Stays(m, q)
  BY <1>1, <1>2, <1>3, <1>4 DEF Stays
<1> QED BY <1>1, <1>5, DeliveredKept

LEMMA DeliveredRest ==
  ASSUME TypeOK, Delivered,
         \A p \in Node : identities[p] \subseteq identities'[p],
         \A p \in Node : phase'[p] # "closed" => phase[p] # "closed",
         UNCHANGED <<chan, sentDataFull, sentMetaFull>>
  PROVE  Delivered'
<1>1. \A m, q \in Node : SentFull(m, q)' = SentFull(m, q)
  BY DEF SentFull
<1>2. \A m, q \in Node : Stays(m, q)
  BY <1>1 DEF Stays
<1> QED BY <1>2, DeliveredKept

LEMMA DeliveredStep ==
  ASSUME StartPhase # "away", TypeOK, IndexInvariant, HeldInv, Delivered, [Next]_vars
  PROVE  Delivered'
<1>1. ASSUME UNCHANGED <<chan, sentDataFull, sentMetaFull, phase, identities>> PROVE Delivered'
  BY <1>1, DeliveredRest
<1>2. CASE UNCHANGED vars
  BY <1>1, <1>2 DEF vars, sentVars
<1>3. ASSUME NEW n \in Node, SlotStart(n) PROVE Delivered'
  <2>1. /\ phase[n] # "closed" /\ phase' = [phase EXCEPT ![n] = "open"]
        /\ UNCHANGED <<chan, sentDataFull, sentMetaFull, identities>>
    BY <1>3 DEF SlotStart, sentVars
  <2>2. \A p \in Node : phase'[p] # "closed" => phase[p] # "closed"
    BY <2>1 DEF TypeOK
  <2> QED BY <2>1, <2>2, DeliveredRest
<1>4. ASSUME NEW n \in Node, SlotEnd(n) PROVE Delivered'
  <2>1. /\ phase' = [phase EXCEPT ![n] = "closed"]
        /\ UNCHANGED <<chan, sentDataFull, sentMetaFull, identities>>
    BY <1>4 DEF SlotEnd, sentVars
  <2>2. \A p \in Node : phase'[p] # "closed" => phase[p] # "closed"
    BY <2>1 DEF TypeOK
  <2> QED BY <2>1, <2>2, DeliveredRest
<1>5. ASSUME NEW n \in Node, NEW a, PublishLocal(n, a) PROVE Delivered'
  <2>1. /\ identities' = [identities EXCEPT ![n] = @ \cup {a[1]}]
        /\ UNCHANGED <<chan, sentDataFull, sentMetaFull, phase>>
    BY <1>5 DEF PublishLocal, sentVars
  <2>2. \A p \in Node : identities[p] \subseteq identities'[p]
    BY <2>1 DEF TypeOK
  <2> QED BY <2>1, <2>2, DeliveredRest
<1>6. ASSUME NEW n \in Node, NEW x, MarkValidated(n, x) \/ OnEmitGossip(n, x) \/ PublishTick(n)
      PROVE  Delivered'
  BY <1>1, <1>6 DEF MarkValidated, OnEmitGossip, PublishTick, sentVars
<1>7. ASSUME NEW n \in Node, NEW p, NEW d, SelectIWantTargets(n, p, d) PROVE Delivered'
  BY <1>1, <1>7 DEF SelectIWantTargets, sentVars
<1>8. ASSUME NEW n \in Node, NodeStep(n) PROVE Delivered'
  BY <1>3, <1>4, <1>5, <1>6, <1>8, DeliveredFanout, DeliveredDrop, DeliveredReceive DEF NodeStep
<1>9. ASSUME NEW n \in Node, TickStep(n) PROVE Delivered'
  BY <1>7, <1>9, DeliveredVisit, DeliveredDraw, DeliveredClose DEF TickStep
<1> QED BY <1>2, <1>8, <1>9 DEF Next

DeliveredInTime == StartPhase # "away" => Delivered

LEMMA DeliveredHolds == Spec => []DeliveredInTime
<1>1. Init => DeliveredInTime
  <2> SUFFICES ASSUME Init PROVE Delivered
    BY DEF DeliveredInTime
  <2>1. \A n, p \in Node : chan[n][p] = <<>> /\ SentFull(n, p) = {}
    BY DEF Init, SentFull
  <2> QED BY <2>1 DEF Delivered, Resolvable, TellsAll
<1>2. TypeOK /\ IndexInvariant /\ HeldInv /\ DeliveredInTime /\ [Next]_vars => DeliveredInTime'
  BY DeliveredStep DEF DeliveredInTime
<1> QED BY <1>1, <1>2, HeldHolds, TypesOfPartial, IndexIsExact, PTL DEF Spec

(* Every batch can be told by its receiver when its turn comes, if no node starts
   the slot late. *)
THEOREM HashesGetResolved == Spec => []HashesResolvable
<1>1. DeliveredInTime => HashesResolvable
  <2> SUFFICES ASSUME Delivered, NEW n \in Node, NEW p \in Node, phase[p] # "closed",
                      NEW i \in 1 .. Len(chan[n][p]), NEW e \in DataOf(chan[n][p][i].sent)
               PROVE  e \in identities[p]
                        \cup UNION {chan[n][p][j].metaFull \cup chan[n][p][j].dataFull : j \in 1 .. i}
    BY DEF HashesResolvable, DeliveredInTime
  <2>1. PICK x \in chan[n][p][i].sent : e = x[1]
    BY DEF DataOf
  <2>2. e \in identities[p] \/ Tells(chan[n][p], i, e)
    BY <2>1 DEF Delivered, Resolvable
  <2> QED BY <2>2 DEF Tells
<1> QED BY <1>1, DeliveredHolds, PTL

-----------------------------------------------------------------------------
(* What one node takes another to have *)

OnItsWay(q, x) == \E i \in 1 .. Len(q) : x \in q[i].sent

(* A sender that holds H says nothing else of itself. *)
Honest(q, H) == \A i \in 1 .. Len(q) : q[i].available \cup q[i].sent \subseteq H

Informed ==
  \A n, p \in Gossiping : phase[p] # "closed" =>
    /\ \A x \in available[n][p] : x \in held[p] \/ OnItsWay(chan[n][p], x)
    /\ Honest(chan[p][n], held[p])

LEMMA QueueLonger ==
  ASSUME NEW q \in Seq(RPC), NEW rpc \in RPC
  PROVE  /\ \A x : OnItsWay(q, x) => OnItsWay(Sent(q, rpc), x)
         /\ \A x \in rpc.sent : OnItsWay(Sent(q, rpc), x)
         /\ \A H : Honest(q, H) /\ rpc.available \cup rpc.sent \subseteq H => Honest(Sent(q, rpc), H)
<1>1. CASE rpc.available \cup rpc.requests \cup rpc.sent = {}
  <2>1. Sent(q, rpc) = q
    BY <1>1 DEF Sent
  <2> QED BY <1>1, <2>1
<1>2. CASE rpc.available \cup rpc.requests \cup rpc.sent # {}
  <2> DEFINE r == Append(q, rpc)
  <2>1. Sent(q, rpc) = r
    BY <1>2 DEF Sent
  <2>2. Len(r) = Len(q) + 1 /\ Len(q) \in Nat /\ r[Len(q) + 1] = rpc
    OBVIOUS
  <2>3. \A i \in 1 .. Len(q) : r[i] = q[i]
    OBVIOUS
  <2> HIDE DEF r
  <2>4. \A x : OnItsWay(q, x) => OnItsWay(r, x)
    BY <2>2, <2>3 DEF OnItsWay
  <2>5. \A x \in rpc.sent : OnItsWay(r, x)
    BY <2>2 DEF OnItsWay
  <2>6. \A i \in 1 .. Len(r) : i \in 1 .. Len(q) \/ i = Len(q) + 1
    BY <2>2
  <2>7. \A H : Honest(q, H) /\ rpc.available \cup rpc.sent \subseteq H => Honest(r, H)
    BY <2>2, <2>3, <2>6 DEF Honest
  <2> QED BY <2>1, <2>4, <2>5, <2>7
<1> QED BY <1>1, <1>2

LEMMA QueueShorter ==
  ASSUME NEW q \in Seq(RPC), q # <<>>
  PROVE  /\ \A x : OnItsWay(q, x) => x \in Head(q).sent \/ OnItsWay(Tail(q), x)
         /\ \A H : Honest(q, H) => Honest(Tail(q), H) /\ Head(q).available \cup Head(q).sent \subseteq H
<1> DEFINE r == Tail(q)
<1>1. /\ Len(r) = Len(q) - 1 /\ Len(q) \in Nat /\ 1 \in 1 .. Len(q)
      /\ \A i \in 1 .. Len(r) : r[i] = q[i + 1] /\ i + 1 \in 1 .. Len(q)
      /\ Head(q) = q[1]
  BY TailOf
<1> HIDE DEF r
<1>2. ASSUME NEW x, OnItsWay(q, x) PROVE x \in Head(q).sent \/ OnItsWay(r, x)
  <2>1. PICK i \in 1 .. Len(q) : x \in q[i].sent
    BY <1>2 DEF OnItsWay
  <2>2. CASE i = 1
    BY <1>1, <2>1, <2>2
  <2>3. CASE i # 1
    <3>1. i - 1 \in 1 .. Len(r) /\ r[i - 1] = q[i]
      BY <1>1, <2>3
    <3> QED BY <2>1, <3>1 DEF OnItsWay
  <2> QED BY <2>2, <2>3
<1>3. ASSUME NEW H, Honest(q, H)
      PROVE  Honest(r, H) /\ Head(q).available \cup Head(q).sent \subseteq H
  BY <1>1, <1>3 DEF Honest
<1> QED BY <1>2, <1>3 DEF r

(* What a step has to respect: messages do not vanish, and nobody is thought to have
   what is neither there nor coming. *)
LEMMA InformedKept ==
  ASSUME Informed,
         \A n, p \in Gossiping : phase'[p] # "closed" =>
           /\ phase[p] # "closed" /\ held[p] \subseteq held'[p]
           /\ \A x : OnItsWay(chan[n][p], x) => OnItsWay(chan'[n][p], x) \/ x \in held'[p]
           /\ \A x \in available'[n][p] :
                x \in available[n][p] \/ x \in held'[p] \/ OnItsWay(chan'[n][p], x)
           /\ Honest(chan[p][n], held[p]) => Honest(chan'[p][n], held'[p])
  PROVE  Informed'
<1> SUFFICES ASSUME NEW n \in Gossiping, NEW p \in Gossiping, phase'[p] # "closed"
             PROVE  /\ \A x \in available'[n][p] : x \in held'[p] \/ OnItsWay(chan'[n][p], x)
                    /\ Honest(chan'[p][n], held'[p])
  BY DEF Informed, OnItsWay, Honest, Gossiping
<1>1. /\ \A x \in available[n][p] : x \in held[p] \/ OnItsWay(chan[n][p], x)
      /\ Honest(chan[p][n], held[p])
  BY DEF Informed
<1> QED BY <1>1

(* A tick of n sends its messages; what it sends, it holds. *)
LEMMA InformedSend ==
  ASSUME TypeOK, Informed, NEW n \in Node, NEW rpc \in [Node -> RPC],
         \A q \in Node : rpc[q].available \cup rpc[q].sent \subseteq held[n],
         UNCHANGED <<phase, held>>,
         \A m, q \in Node :
           \/ chan'[m][q] = chan[m][q] /\ available'[m][q] = available[m][q]
           \/ /\ m = n /\ chan'[m][q] = Sent(chan[m][q], rpc[q])
              /\ available'[m][q] \subseteq available[m][q] \cup rpc[q].sent
  PROVE  Informed'
<1> SUFFICES ASSUME NEW m \in Gossiping, NEW p \in Gossiping, phase[p] # "closed"
             PROVE  /\ \A x : OnItsWay(chan[m][p], x) => OnItsWay(chan'[m][p], x) \/ x \in held'[p]
                    /\ \A x \in available'[m][p] :
                         x \in available[m][p] \/ x \in held'[p] \/ OnItsWay(chan'[m][p], x)
                    /\ Honest(chan[p][m], held[p]) => Honest(chan'[p][m], held'[p])
  BY InformedKept
<1>1. m \in Node /\ p \in Node /\ rpc[p] \in RPC /\ rpc[m] \in RPC
  BY DEF Gossiping
<1>2. chan[m][p] \in Seq(RPC) /\ chan[p][m] \in Seq(RPC)
  BY <1>1 DEF TypeOK
<1>3. \/ chan'[m][p] = chan[m][p] /\ available'[m][p] = available[m][p]
      \/ /\ chan'[m][p] = Sent(chan[m][p], rpc[p])
         /\ available'[m][p] \subseteq available[m][p] \cup rpc[p].sent
  BY <1>1
<1>4. \/ chan'[p][m] = chan[p][m]
      \/ p = n /\ chan'[p][m] = Sent(chan[p][m], rpc[m])
  BY <1>1
<1>5. /\ \A x : OnItsWay(chan[m][p], x) => OnItsWay(chan'[m][p], x)
      /\ \A x \in available'[m][p] : x \in available[m][p] \/ OnItsWay(chan'[m][p], x)
  BY <1>1, <1>2, <1>3, QueueLonger
<1>6. Honest(chan[p][m], held[p]) => Honest(chan'[p][m], held[p])
  BY <1>1, <1>2, <1>4, QueueLonger
<1> QED BY <1>5, <1>6

LEMMA InformedVisit ==
  ASSUME TypeOK, HeldInv, Informed, NEW n \in Node, NEW p \in Node, VisitPeer(n, p)
  PROVE  Informed'
<1> DEFINE atts == AttestationsToSend(n, p)
           list == ListFor(n, p)
           reqs == wants[p] \ sentRequests[n][p]
           rpc  == Message(n, p, list, reqs, atts)
<1>1. /\ atts \in SUBSET Attestation /\ list \in SUBSET Attestation
      /\ reqs \in SUBSET Attestation
  BY SelectionType DEF TypeOK
<1>2. rpc \in RPC
  BY <1>1, MessageType
<1>3. list \cup atts \subseteq held[n]
  BY DEF AttestationsToSend, ListFor, News, HeldInv
<1>4. rpc.available = list /\ rpc.sent = atts
  BY DEF Message
<1> HIDE DEF rpc, list, atts, reqs
<1>5. /\ available' = [available EXCEPT ![n][p] = @ \cup atts]
      /\ chan' = [chan EXCEPT ![n][p] = Sent(@, rpc)]
      /\ UNCHANGED <<phase, held>>
  BY DEF VisitPeer, PublishTo, rpc, atts, list, reqs
<1>6. \A m, q \in Node :
        \/ chan'[m][q] = chan[m][q] /\ available'[m][q] = available[m][q]
        \/ /\ m = n /\ chan'[m][q] = Sent(chan[m][q], rpc)
           /\ available'[m][q] \subseteq available[m][q] \cup rpc.sent
  BY <1>4, <1>5 DEF TypeOK
<1> DEFINE all == [q \in Node |-> rpc]
<1>7. all \in [Node -> RPC] /\ \A q \in Node : all[q] = rpc
  BY <1>2
<1> HIDE DEF all
<1>8. \A q \in Node : all[q].available \cup all[q].sent \subseteq held[n]
  BY <1>3, <1>4, <1>7
<1>9. \A m, q \in Node :
        \/ chan'[m][q] = chan[m][q] /\ available'[m][q] = available[m][q]
        \/ /\ m = n /\ chan'[m][q] = Sent(chan[m][q], all[q])
           /\ available'[m][q] \subseteq available[m][q] \cup all[q].sent
  BY <1>6, <1>7
<1> QED BY <1>5, <1>7, <1>8, <1>9, InformedSend

LEMMA InformedDraw ==
  ASSUME TypeOK, IndexInvariant, HeldInv, Informed, NEW n \in Node, NEW p \in Node, NEW chunk,
         DrawChunk(n, p, chunk)
  PROVE  Informed'
<1> DEFINE more == IndexedFor(n, p) # chunk
           tell == SendAvailableWithData /\ more /\ p \notin gossip[n] /\ p \notin told
           list == IF tell THEN validated[n] \ sentAvailable[n][p] ELSE {}
           rpc  == Message(n, p, list, {}, chunk)
<1>1. chunk \in SUBSET validated[n] /\ validated[n] \in SUBSET Attestation
  <2>1. strategy = "priority" /\ chunk \in SUBSET IndexedFor(n, p)
    BY DEF DrawChunk, News, Chunks
  <2>2. IndexedFor(n, p) \subseteq validated[n]
    BY <2>1, IndexedIsSendable DEF AttestationsToSend
  <2> QED BY <2>1, <2>2 DEF TypeOK
<1>2. rpc \in RPC
  BY <1>1, MessageType
<1>3. list \cup chunk \subseteq held[n]
  BY <1>1 DEF HeldInv
<1>4. rpc.available = list /\ rpc.sent = chunk
  BY DEF Message
<1> HIDE DEF rpc, list
<1>5. /\ available' = [available EXCEPT ![n][p] = @ \cup chunk]
      /\ chan' = [chan EXCEPT ![n][p] = Sent(@, rpc)]
      /\ UNCHANGED <<phase, held>>
  BY DEF DrawChunk, News, rpc, list
<1>6. \A m, q \in Node :
        \/ chan'[m][q] = chan[m][q] /\ available'[m][q] = available[m][q]
        \/ /\ m = n /\ chan'[m][q] = Sent(chan[m][q], rpc)
           /\ available'[m][q] \subseteq available[m][q] \cup rpc.sent
  BY <1>4, <1>5 DEF TypeOK
<1> DEFINE all == [q \in Node |-> rpc]
<1>7. all \in [Node -> RPC] /\ \A q \in Node : all[q] = rpc
  BY <1>2
<1> HIDE DEF all
<1>8. \A q \in Node : all[q].available \cup all[q].sent \subseteq held[n]
  BY <1>3, <1>4, <1>7
<1>9. \A m, q \in Node :
        \/ chan'[m][q] = chan[m][q] /\ available'[m][q] = available[m][q]
        \/ /\ m = n /\ chan'[m][q] = Sent(chan[m][q], all[q])
           /\ available'[m][q] \subseteq available[m][q] \cup all[q].sent
  BY <1>6, <1>7
<1> QED BY <1>5, <1>7, <1>8, <1>9, InformedSend

LEMMA InformedClose ==
  ASSUME TypeOK, HeldInv, Informed, NEW n \in Node, CloseTick(n)
  PROVE  Informed'
<1> DEFINE list == [p \in Node |-> IF p \in gossip[n] THEN ListFor(n, p) ELSE {}]
           reqs == [p \in Node |-> IF p \in gossip[n] THEN wants[p] \ sentRequests[n][p] ELSE {}]
           rpc  == [p \in Node |-> Message(n, p, list[p], reqs[p], {})]
<1>1. \A q \in Node : list[q] \in SUBSET Attestation /\ reqs[q] \in SUBSET Attestation
  <2>1. \A q \in Node : ListFor(n, q) \subseteq Attestation
    BY SelectionType
  <2>2. \A q \in Node : wants[q] \subseteq Attestation
    BY DEF TypeOK
  <2> QED BY <2>1, <2>2
<1>2. \A q \in Node : list[q] \subseteq held[n]
  BY DEF ListFor, News, HeldInv
<1> HIDE DEF list, reqs
<1>3. \A q \in Node : rpc[q] \in RPC /\ rpc[q].available = list[q] /\ rpc[q].sent = {}
  <2> SUFFICES ASSUME NEW q \in Node
               PROVE  rpc[q] \in RPC /\ rpc[q].available = list[q] /\ rpc[q].sent = {}
    OBVIOUS
  <2>1. Message(n, q, list[q], reqs[q], {}) \in RPC
    BY <1>1, MessageType
  <2> QED BY <2>1 DEF Message
<1>4. rpc \in [Node -> RPC]
  BY <1>3
<1> HIDE DEF rpc
<1>5. /\ chan' = [chan EXCEPT ![n] = [p \in Node |-> Sent(@[p], rpc[p])]]
      /\ UNCHANGED <<phase, held, available>>
  BY DEF CloseTick, rpc, list, reqs
<1>6. \A m, q \in Node : \/ chan'[m][q] = chan[m][q]
                         \/ m = n /\ chan'[m][q] = Sent(chan[m][q], rpc[q])
  BY <1>5 DEF TypeOK
<1>7. \A q \in Node : rpc[q].available \cup rpc[q].sent \subseteq held[n]
  BY <1>2, <1>3
<1> QED BY <1>4, <1>5, <1>6, <1>7, InformedSend

(* The receiver can tell the batch, so all of it is held from then on; and what the
   sender says of itself is true. *)
LEMMA InformedReceive ==
  ASSUME TypeOK, Delivered, Informed, NEW n \in Node, NEW p \in Node, OnIncomingRPC(n, p)
  PROVE  Informed'
<1> DEFINE rpc   == Head(chan[p][n])
           known == identities[n] \cup rpc.metaFull \cup rpc.dataFull
           got   == {a \in rpc.sent : a[1] \in known}
           new   == got \ held[n]
<1>1. chan[p][n] \in Seq(RPC) /\ chan[p][n] # <<>> /\ phase[n] # "closed"
  BY DEF TypeOK, OnIncomingRPC, Known, AcceptsSlot
<1>2. got = rpc.sent
  <2>1. \A x \in rpc.sent : x[1] \in known
    <3>1. Resolvable(chan[p][n], identities[n]) /\ TellsAll(chan[p][n], identities[n], SentFull(p, n))
      BY <1>1 DEF Delivered
    <3> QED BY <1>1, <3>1, QueueTail
  <2> QED BY <2>1
<1>3. /\ available' = [available EXCEPT ![n][p] = @ \cup rpc.available \cup got]
      /\ held' = [held EXCEPT ![n] = @ \cup new]
      /\ chan' = [chan EXCEPT ![p][n] = Tail(@)]
      /\ phase' = phase
  BY DEF OnIncomingRPC, Known
<1>4. \A m \in Node : held[m] \subseteq held'[m]
  BY <1>3 DEF TypeOK
<1>5. rpc.sent \subseteq held'[n]
  <2>1. held'[n] = held[n] \cup new
    BY <1>3 DEF TypeOK
  <2> QED BY <1>2, <2>1
<1> HIDE DEF rpc, known, got, new
<1>6. /\ \A m, q \in Node : chan'[m][q] = IF m = p /\ q = n THEN Tail(chan[m][q]) ELSE chan[m][q]
      /\ \A m, q \in Node : available'[m][q] =
           IF m = n /\ q = p THEN available[m][q] \cup rpc.available \cup got ELSE available[m][q]
  BY <1>3 DEF TypeOK
<1>7. /\ \A x : OnItsWay(chan[p][n], x) => x \in rpc.sent \/ OnItsWay(chan'[p][n], x)
      /\ \A H : Honest(chan[p][n], H) => Honest(chan'[p][n], H) /\ rpc.available \cup rpc.sent \subseteq H
  BY <1>1, <1>6, QueueShorter DEF rpc
<1>8. \A H, J : Honest(chan'[p][n], H) /\ H \subseteq J => Honest(chan'[p][n], J)
  BY DEF Honest
<1>9. \A m, q \in Node : \A H, J : Honest(chan[m][q], H) /\ H \subseteq J => Honest(chan[m][q], J)
  BY DEF Honest
<1> SUFFICES ASSUME NEW m \in Gossiping, NEW q \in Gossiping, phase[q] # "closed"
             PROVE  /\ \A x : OnItsWay(chan[m][q], x) => OnItsWay(chan'[m][q], x) \/ x \in held'[q]
                    /\ \A x \in available'[m][q] :
                         x \in available[m][q] \/ x \in held'[q] \/ OnItsWay(chan'[m][q], x)
                    /\ Honest(chan[q][m], held[q]) => Honest(chan'[q][m], held'[q])
  BY <1>3, <1>4, InformedKept DEF Gossiping
<1>10. m \in Node /\ q \in Node
  BY DEF Gossiping
<1>11. \A x : OnItsWay(chan[m][q], x) => OnItsWay(chan'[m][q], x) \/ x \in held'[q]
  <2>1. CASE m = p /\ q = n
    BY <1>5, <1>7, <2>1
  <2>2. CASE ~(m = p /\ q = n)
    BY <1>6, <1>10, <2>2
  <2> QED BY <2>1, <2>2
<1>12. \A x \in available'[m][q] : x \in available[m][q] \/ x \in held'[q]
  <2>1. CASE m = n /\ q = p
    <3>1. Honest(chan[p][n], held[p])
      BY <2>1 DEF Informed
    <3>2. rpc.available \cup rpc.sent \subseteq held'[p]
      BY <1>4, <1>7, <3>1
    <3> QED BY <1>2, <1>6, <2>1, <3>2
  <2>2. CASE ~(m = n /\ q = p)
    BY <1>6, <1>10, <2>2
  <2> QED BY <2>1, <2>2
<1>13. Honest(chan[q][m], held[q]) => Honest(chan'[q][m], held'[q])
  <2>1. CASE q = p /\ m = n
    BY <1>4, <1>7, <1>8, <2>1
  <2>2. CASE ~(q = p /\ m = n)
    BY <1>4, <1>6, <1>9, <1>10, <2>2
  <2> QED BY <2>1, <2>2
<1> QED BY <1>11, <1>12, <1>13

LEMMA InformedDrop ==
  ASSUME StartPhase # "away", TypeOK, HeldInv, Informed, NEW n \in Node, NEW p \in Node, DropRPC(n, p)
  PROVE  Informed'
<1>1. /\ chan' = [chan EXCEPT ![p][n] = Tail(@)]
      /\ UNCHANGED <<phase, held, available>>
  BY DEF DropRPC, slotVars
<1>2. phase[n] = "closed"
  BY DEF DropRPC, AcceptsSlot, HeldInv, TypeOK
<1>3. \A m, q \in Node : chan'[m][q] = IF m = p /\ q = n THEN Tail(chan[m][q]) ELSE chan[m][q]
  BY <1>1 DEF TypeOK
<1>4. chan[p][n] \in Seq(RPC) /\ chan[p][n] # <<>>
  BY DEF TypeOK, DropRPC
<1>5. \A H : Honest(chan[p][n], H) => Honest(chan'[p][n], H)
  BY <1>3, <1>4, QueueShorter
<1> SUFFICES ASSUME NEW m \in Gossiping, NEW q \in Gossiping, phase[q] # "closed"
             PROVE  /\ chan'[m][q] = chan[m][q]
                    /\ Honest(chan[q][m], held[q]) => Honest(chan'[q][m], held'[q])
  BY <1>1, InformedKept
<1>6. m \in Node /\ q \in Node
  BY DEF Gossiping
<1> QED BY <1>1, <1>2, <1>3, <1>5, <1>6

(* Steps that send and take no message between nodes that forward. *)
LEMMA InformedRest ==
  ASSUME Informed,
         \A n, p \in Gossiping : phase'[p] # "closed" =>
           /\ phase[p] # "closed" /\ held[p] \subseteq held'[p]
           /\ chan'[n][p] = chan[n][p] /\ chan'[p][n] = chan[p][n]
           /\ available'[n][p] \subseteq available[n][p]
  PROVE  Informed'
<1>1. \A q, H, J : Honest(q, H) /\ H \subseteq J => Honest(q, J)
  BY DEF Honest
<1> QED BY <1>1, InformedKept

LEMMA InformedStep ==
  ASSUME StartPhase # "away", TypeOK, IndexInvariant, HeldInv, Delivered, Informed, [Next]_vars
  PROVE  Informed'
<1>1. ASSUME UNCHANGED <<phase, held, chan, available>> PROVE Informed'
  BY <1>1, InformedRest
<1>2. CASE UNCHANGED vars
  BY <1>1, <1>2 DEF vars, slotVars
<1>3. ASSUME NEW n \in Node, SlotStart(n) PROVE Informed'
  <2>1. /\ phase[n] # "closed" /\ phase' = [phase EXCEPT ![n] = "open"]
        /\ UNCHANGED <<held, chan, available>>
    BY <1>3 DEF SlotStart, slotVars
  <2>2. \A p \in Gossiping : phase'[p] # "closed" => phase[p] # "closed"
    BY <2>1 DEF TypeOK, Gossiping
  <2> QED BY <2>1, <2>2, InformedRest
<1>4. ASSUME NEW n \in Node, SlotEnd(n) PROVE Informed'
  <2>1. /\ phase' = [phase EXCEPT ![n] = "closed"]
        /\ held' = [held EXCEPT ![n] = {}]
        /\ available' = [available EXCEPT ![n] = [p \in Node |-> {}]]
        /\ chan' = chan
    BY <1>4 DEF SlotEnd
  <2>2. \A p \in Node : phase'[p] # "closed" => phase[p] # "closed" /\ held'[p] = held[p]
    BY <2>1 DEF TypeOK
  <2>3. \A m, p \in Node : available'[m][p] \subseteq available[m][p]
    BY <2>1 DEF TypeOK
  <2> QED BY <2>1, <2>2, <2>3, InformedRest DEF Gossiping
<1>5. ASSUME NEW n \in Node, NEW a, PublishLocal(n, a) PROVE Informed'
  <2>1. held' = [held EXCEPT ![n] = @ \cup {a}] /\ UNCHANGED <<phase, chan, available>>
    BY <1>5 DEF PublishLocal
  <2>2. \A p \in Gossiping : held[p] \subseteq held'[p]
    BY <2>1 DEF TypeOK, Gossiping
  <2> QED BY <2>1, <2>2, InformedRest
<1>6. ASSUME NEW n \in Node, NEW a, FanoutPublish(n, a) PROVE Informed'
  <2>1. /\ n \in Fanout /\ UNCHANGED <<phase, held, available>>
        /\ \E q : chan' = [chan EXCEPT ![n] = q]
    BY <1>6 DEF FanoutPublish, slotVars
  <2>2. \A m \in Gossiping : chan'[m] = chan[m]
    BY <2>1 DEF TypeOK, Gossiping
  <2> QED BY <2>1, <2>2, InformedRest
<1>7. ASSUME NEW n \in Node, NEW x, MarkValidated(n, x) \/ OnEmitGossip(n, x) \/ PublishTick(n)
      PROVE  Informed'
  BY <1>1, <1>7 DEF MarkValidated, OnEmitGossip, PublishTick, slotVars
<1>8. ASSUME NEW n \in Node, NEW p, NEW d, SelectIWantTargets(n, p, d) PROVE Informed'
  BY <1>1, <1>8 DEF SelectIWantTargets
<1>9. ASSUME NEW n \in Node, NodeStep(n) PROVE Informed'
  BY <1>3, <1>4, <1>5, <1>6, <1>7, <1>9, InformedDrop, InformedReceive DEF NodeStep
<1>10. ASSUME NEW n \in Node, TickStep(n) PROVE Informed'
  BY <1>8, <1>10, InformedVisit, InformedDraw, InformedClose DEF TickStep
<1> QED BY <1>2, <1>9, <1>10 DEF Next

InformedInTime == StartPhase # "away" => Informed

(* What a node takes another to have is there, or on its way, if no node starts
   the slot late. *)
THEOREM KnowledgeIsTrue == Spec => []KnownOrOnItsWay
<1>1. Init => InformedInTime
  <2> SUFFICES ASSUME Init PROVE Informed
    BY DEF InformedInTime
  <2>1. \A n, p \in Gossiping : chan[n][p] = <<>> /\ available[n][p] = {}
    BY DEF Init, Gossiping
  <2> QED BY <2>1 DEF Informed, Honest
<1>2. (TypeOK /\ IndexInvariant /\ HeldInv /\ DeliveredInTime /\ InformedInTime /\ [Next]_vars)
        => InformedInTime'
  BY InformedStep DEF InformedInTime, DeliveredInTime
<1>3. InformedInTime => KnownOrOnItsWay
  <2> SUFFICES ASSUME Informed, NEW n \in Gossiping, NEW p \in Gossiping, phase[p] # "closed",
                      NEW x \in available[n][p]
               PROVE  x \in held[p] \cup UNION {chan[n][p][i].sent : i \in 1 .. Len(chan[n][p])}
    BY DEF KnownOrOnItsWay, InformedInTime
  <2>1. x \in held[p] \/ OnItsWay(chan[n][p], x)
    BY DEF Informed
  <2> QED BY <2>1 DEF OnItsWay
<1> QED BY <1>1, <1>2, <1>3, DeliveredHolds, HeldHolds, TypesOfPartial, IndexIsExact, PTL DEF Spec

-----------------------------------------------------------------------------
(* What is said once: advertisements and requests *)

Announced(q, x) == \E i \in 1 .. Len(q) : x \in q[i].available
Requested(q, x) == \E i \in 1 .. Len(q) : x \in q[i].requests

(* Nobody asks p for what p has not validated: p advertises what it has validated,
   the others take it to have that and what they hold themselves, and ask for what
   they do not hold. *)
Backed ==
  \A n, p \in Gossiping : phase[p] # "closed" =>
    /\ \A x : Announced(chan[p][n], x) => x \in validated[p]
    /\ \A x \in available[n][p] : x \in validated[p] \/ x \in held[n]
    /\ \A x : Requested(chan[n][p], x) => x \in validated[p]
    /\ \A x \in pendingWant[p][n] : x \in validated[p]
    /\ ticking = n => \A x \in wants[p] : x \in validated[p]

(* What n said to p has come to something, or will. *)
NotLost ==
  \A n, p \in Gossiping : phase[p] # "closed" =>
    /\ \A x \in sentAvailable[n][p] : x \in available[p][n] \/ Announced(chan[n][p], x)
    /\ \A x \in sentRequests[n][p] :
         \/ Requested(chan[n][p], x) \/ x \in pendingWant[p][n] \/ x \in available[p][n]
         \/ sendCount[p][x] = MaxPeersPerAttestation

LEMMA SaidLonger ==
  ASSUME NEW q \in Seq(RPC), NEW rpc \in RPC
  PROVE  /\ \A x : Announced(Sent(q, rpc), x) <=> Announced(q, x) \/ x \in rpc.available
         /\ \A x : Requested(Sent(q, rpc), x) <=> Requested(q, x) \/ x \in rpc.requests
<1>1. CASE rpc.available \cup rpc.requests \cup rpc.sent = {}
  <2>1. Sent(q, rpc) = q
    BY <1>1 DEF Sent
  <2>2. rpc.available = {} /\ rpc.requests = {}
    BY <1>1
  <2> QED BY <2>1, <2>2
<1>2. CASE rpc.available \cup rpc.requests \cup rpc.sent # {}
  <2> DEFINE r == Append(q, rpc)
  <2>1. Sent(q, rpc) = r
    BY <1>2 DEF Sent
  <2>2. Len(r) = Len(q) + 1 /\ Len(q) \in Nat /\ r[Len(q) + 1] = rpc
    OBVIOUS
  <2>3. \A i \in 1 .. Len(q) : r[i] = q[i]
    OBVIOUS
  <2> HIDE DEF r
  <2>4. /\ \A i \in 1 .. Len(r) : i \in 1 .. Len(q) \/ i = Len(q) + 1
        /\ \A i \in 1 .. Len(q) : i \in 1 .. Len(r)
        /\ Len(q) + 1 \in 1 .. Len(r)
    BY <2>2
  <2>5. \A x : Announced(r, x) <=> Announced(q, x) \/ x \in rpc.available
    BY <2>2, <2>3, <2>4 DEF Announced
  <2>6. \A x : Requested(r, x) <=> Requested(q, x) \/ x \in rpc.requests
    BY <2>2, <2>3, <2>4 DEF Requested
  <2> QED BY <2>1, <2>5, <2>6
<1> QED BY <1>1, <1>2

LEMMA SaidShorter ==
  ASSUME NEW q \in Seq(RPC), q # <<>>
  PROVE  /\ \A x : Announced(q, x) <=> x \in Head(q).available \/ Announced(Tail(q), x)
         /\ \A x : Requested(q, x) <=> x \in Head(q).requests \/ Requested(Tail(q), x)
<1> DEFINE r == Tail(q)
<1>1. /\ Len(r) = Len(q) - 1 /\ Len(q) \in Nat /\ 1 \in 1 .. Len(q)
      /\ \A i \in 1 .. Len(r) : r[i] = q[i + 1] /\ i + 1 \in 1 .. Len(q)
      /\ Head(q) = q[1]
  BY TailOf
<1> HIDE DEF r
<1>2. \A i \in 1 .. Len(q) : i = 1 \/ (i - 1 \in 1 .. Len(r) /\ r[i - 1] = q[i])
  BY <1>1
<1>3. \A x : Announced(q, x) <=> x \in q[1].available \/ Announced(r, x)
  <2> SUFFICES ASSUME NEW x PROVE Announced(q, x) <=> x \in q[1].available \/ Announced(r, x)
    OBVIOUS
  <2>1. Announced(q, x) => x \in q[1].available \/ Announced(r, x)
    BY <1>2 DEF Announced
  <2>2. x \in q[1].available \/ Announced(r, x) => Announced(q, x)
    BY <1>1 DEF Announced
  <2> QED BY <2>1, <2>2
<1>4. \A x : Requested(q, x) <=> x \in q[1].requests \/ Requested(r, x)
  <2> SUFFICES ASSUME NEW x PROVE Requested(q, x) <=> x \in q[1].requests \/ Requested(r, x)
    OBVIOUS
  <2>1. Requested(q, x) => x \in q[1].requests \/ Requested(r, x)
    BY <1>2 DEF Requested
  <2>2. x \in q[1].requests \/ Requested(r, x) => Requested(q, x)
    BY <1>1 DEF Requested
  <2> QED BY <2>1, <2>2
<1> QED BY <1>1, <1>3, <1>4 DEF r

(* What a step has to respect for the one, *)
LEMMA BackedKept ==
  ASSUME Backed,
         \A n, p \in Gossiping : phase'[p] # "closed" =>
           /\ phase[p] # "closed" /\ validated[p] \subseteq validated'[p]
           /\ \A x : Announced(chan'[p][n], x) => Announced(chan[p][n], x) \/ x \in validated'[p]
           /\ \A x \in available'[n][p] :
                \/ x \in available[n][p] /\ held[n] \subseteq held'[n]
                \/ x \in validated'[p] \/ x \in held'[n]
           /\ \A x : Requested(chan'[n][p], x) => Requested(chan[n][p], x) \/ x \in validated'[p]
           /\ \A x \in pendingWant'[p][n] : x \in pendingWant[p][n] \/ x \in validated'[p]
           /\ ticking' = n => \A x \in wants'[p] : (ticking = n /\ x \in wants[p]) \/ x \in validated'[p]
  PROVE  Backed'
<1> SUFFICES ASSUME NEW n \in Gossiping, NEW p \in Gossiping, phase'[p] # "closed"
             PROVE  /\ \A x : Announced(chan'[p][n], x) => x \in validated'[p]
                    /\ \A x \in available'[n][p] : x \in validated'[p] \/ x \in held'[n]
                    /\ \A x : Requested(chan'[n][p], x) => x \in validated'[p]
                    /\ \A x \in pendingWant'[p][n] : x \in validated'[p]
                    /\ ticking' = n => \A x \in wants'[p] : x \in validated'[p]
  BY DEF Backed, Announced, Requested, Gossiping
<1>1. /\ \A x : Announced(chan[p][n], x) => x \in validated[p]
      /\ \A x \in available[n][p] : x \in validated[p] \/ x \in held[n]
      /\ \A x : Requested(chan[n][p], x) => x \in validated[p]
      /\ \A x \in pendingWant[p][n] : x \in validated[p]
      /\ ticking = n => \A x \in wants[p] : x \in validated[p]
  BY DEF Backed
<1>2. validated[p] \subseteq validated'[p]
  OBVIOUS
<1>3. \A x : Announced(chan'[p][n], x) => x \in validated'[p]
  BY <1>1, <1>2
<1>4. \A x \in available'[n][p] : x \in validated'[p] \/ x \in held'[n]
  BY <1>1, <1>2
<1>5. \A x : Requested(chan'[n][p], x) => x \in validated'[p]
  BY <1>1, <1>2
<1>6. \A x \in pendingWant'[p][n] : x \in validated'[p]
  BY <1>1, <1>2
<1>7. ticking' = n => \A x \in wants'[p] : x \in validated'[p]
  BY <1>1, <1>2
<1> QED BY <1>3, <1>4, <1>5, <1>6, <1>7

(* and for the other. *)
LEMMA NotLostKept ==
  ASSUME TypeOK, NotLost,
         \A n, p \in Gossiping : phase'[p] # "closed" =>
           /\ phase[p] # "closed" /\ available[p][n] \subseteq available'[p][n]
           /\ \A x \in sentAvailable'[n][p] : x \in sentAvailable[n][p] \/ Announced(chan'[n][p], x)
           /\ \A x : Announced(chan[n][p], x) => Announced(chan'[n][p], x) \/ x \in available'[p][n]
           /\ \A x \in sentRequests'[n][p] : x \in sentRequests[n][p] \/ Requested(chan'[n][p], x)
           /\ \A x : Requested(chan[n][p], x) => Requested(chan'[n][p], x) \/ x \in pendingWant'[p][n]
           /\ \A x \in pendingWant[p][n] :
                \/ x \in pendingWant'[p][n] \/ x \in available'[p][n]
                \/ sendCount'[p][x] = MaxPeersPerAttestation
           /\ \A x \in Attestation : sendCount[p][x] = MaxPeersPerAttestation =>
                                      sendCount'[p][x] = MaxPeersPerAttestation
  PROVE  NotLost'
<1> SUFFICES ASSUME NEW n \in Gossiping, NEW p \in Gossiping, phase'[p] # "closed"
             PROVE  /\ \A x \in sentAvailable'[n][p] : x \in available'[p][n] \/ Announced(chan'[n][p], x)
                    /\ \A x \in sentRequests'[n][p] :
                         \/ Requested(chan'[n][p], x) \/ x \in pendingWant'[p][n] \/ x \in available'[p][n]
                         \/ sendCount'[p][x] = MaxPeersPerAttestation
  BY DEF NotLost, Announced, Requested, Gossiping
<1>1. /\ \A x \in sentAvailable[n][p] : x \in available[p][n] \/ Announced(chan[n][p], x)
      /\ \A x \in sentRequests[n][p] :
           \/ Requested(chan[n][p], x) \/ x \in pendingWant[p][n] \/ x \in available[p][n]
           \/ sendCount[p][x] = MaxPeersPerAttestation
  BY DEF NotLost
<1>2. \A x \in sentAvailable'[n][p] : x \in available'[p][n] \/ Announced(chan'[n][p], x)
  BY <1>1
<1>3. ASSUME NEW x \in sentRequests'[n][p]
      PROVE  \/ Requested(chan'[n][p], x) \/ x \in pendingWant'[p][n] \/ x \in available'[p][n]
             \/ sendCount'[p][x] = MaxPeersPerAttestation
  <2>1. x \in sentRequests[n][p] => x \in Attestation
    BY DEF TypeOK, Gossiping
  <2> QED BY <1>1, <2>1
<1> QED BY <1>2, <1>3

(* A message of n to p, sent and taken note of: it is made of what n has validated
   and of what it wants. *)
Says(n, p, rpc) ==
  /\ chan'[n][p] = Sent(chan[n][p], rpc)
  /\ available[n][p] \subseteq available'[n][p]
  /\ available'[n][p] \subseteq available[n][p] \cup rpc.sent
  /\ sentAvailable'[n][p] \subseteq sentAvailable[n][p] \cup rpc.available
  /\ sentRequests'[n][p] \subseteq sentRequests[n][p] \cup rpc.requests
  /\ rpc.available \cup rpc.sent \subseteq validated[n] /\ rpc.requests \subseteq wants[p]

Silent(n, p) ==
  /\ chan'[n][p] = chan[n][p] /\ available'[n][p] = available[n][p]
  /\ sentAvailable'[n][p] = sentAvailable[n][p] /\ sentRequests'[n][p] = sentRequests[n][p]

(* A step of n's tick.  A request that it voids is one for what it has not validated,
   or what it forwards or has forwarded often enough. *)
Speaks(n) ==
  /\ UNCHANGED <<phase, held, validated>>
  /\ \A m, q \in Node : Silent(m, q) \/ (m = n /\ \E rpc \in RPC : Says(m, q, rpc))
  /\ \A m, q \in Node : pendingWant'[m][q] \subseteq pendingWant[m][q]
  /\ \A m, q \in Node : \A x \in pendingWant[m][q] :
       \/ x \in pendingWant'[m][q] \/ x \notin validated[m] \/ x \in available'[m][q]
       \/ sendCount'[m][x] = MaxPeersPerAttestation
  /\ \A m \in Node, x \in Attestation :
       sendCount[m][x] = MaxPeersPerAttestation => sendCount'[m][x] = MaxPeersPerAttestation
  /\ ticking = n /\ ticking' \in {n, NoNode} /\ \A q \in Node : wants'[q] \subseteq wants[q]

LEMMA BackedSpeak ==
  ASSUME TypeOK, HeldInv, Backed, NEW n \in Node, Speaks(n)
  PROVE  Backed'
<1> SUFFICES ASSUME NEW m \in Gossiping, NEW p \in Gossiping, phase[p] # "closed"
             PROVE  /\ \A x : Announced(chan'[p][m], x) => Announced(chan[p][m], x) \/ x \in validated'[p]
                    /\ \A x \in available'[m][p] : x \in available[m][p] \/ x \in held'[m]
                    /\ \A x : Requested(chan'[m][p], x) => Requested(chan[m][p], x) \/ x \in validated'[p]
                    /\ pendingWant'[p][m] \subseteq pendingWant[p][m]
                    /\ ticking' = m => ticking = m /\ wants'[p] \subseteq wants[p]
  BY BackedKept DEF Speaks
<1>1. m \in Node /\ p \in Node /\ m # NoNode
  BY NodeAssumption DEF Gossiping
<1>2. chan[m][p] \in Seq(RPC) /\ chan[p][m] \in Seq(RPC)
  BY <1>1 DEF TypeOK
<1>3. \A k \in Node : validated[k] \subseteq held[k]
  BY DEF HeldInv
<1>4. held' = held /\ validated' = validated
  BY DEF Speaks
<1>5. ASSUME NEW x, Announced(chan'[p][m], x) PROVE Announced(chan[p][m], x) \/ x \in validated'[p]
  <2>1. CASE Silent(p, m)
    BY <1>5, <2>1 DEF Silent
  <2>2. ASSUME NEW rpc \in RPC, Says(p, m, rpc) PROVE Announced(chan[p][m], x) \/ x \in validated'[p]
    BY <1>2, <1>4, <1>5, <2>2, SaidLonger DEF Says
  <2> QED BY <1>1, <2>1, <2>2 DEF Speaks
<1>6. \A x \in available'[m][p] : x \in available[m][p] \/ x \in held'[m]
  <2>1. CASE Silent(m, p)
    BY <2>1 DEF Silent
  <2>2. ASSUME NEW rpc \in RPC, Says(m, p, rpc)
        PROVE  \A x \in available'[m][p] : x \in available[m][p] \/ x \in held'[m]
    BY <1>1, <1>3, <1>4, <2>2 DEF Says
  <2> QED BY <1>1, <2>1, <2>2 DEF Speaks
<1>7. ASSUME NEW x, Requested(chan'[m][p], x) PROVE Requested(chan[m][p], x) \/ x \in validated'[p]
  <2>1. CASE Silent(m, p)
    BY <1>7, <2>1 DEF Silent
  <2>2. ASSUME NEW rpc \in RPC, m = n, Says(m, p, rpc)
        PROVE  Requested(chan[m][p], x) \/ x \in validated'[p]
    <3>1. \A y \in wants[p] : y \in validated[p]
      BY <2>2 DEF Backed, Speaks
    <3> QED BY <1>2, <1>4, <1>7, <2>2, <3>1, SaidLonger DEF Says
  <2> QED BY <1>1, <2>1, <2>2 DEF Speaks
<1>8. /\ pendingWant'[p][m] \subseteq pendingWant[p][m]
      /\ ticking' = m => ticking = m /\ wants'[p] \subseteq wants[p]
  BY <1>1 DEF Speaks
<1> QED BY <1>5, <1>6, <1>7, <1>8

LEMMA NotLostSpeak ==
  ASSUME TypeOK, Backed, NotLost, NEW n \in Node, Speaks(n)
  PROVE  NotLost'
<1> SUFFICES ASSUME NEW m \in Gossiping, NEW p \in Gossiping, phase[p] # "closed"
             PROVE  /\ available[p][m] \subseteq available'[p][m]
                    /\ \A x \in sentAvailable'[m][p] : x \in sentAvailable[m][p] \/ Announced(chan'[m][p], x)
                    /\ \A x : Announced(chan[m][p], x) => Announced(chan'[m][p], x)
                    /\ \A x \in sentRequests'[m][p] : x \in sentRequests[m][p] \/ Requested(chan'[m][p], x)
                    /\ \A x : Requested(chan[m][p], x) => Requested(chan'[m][p], x)
                    /\ \A x \in pendingWant[p][m] :
                         \/ x \in pendingWant'[p][m] \/ x \in available'[p][m]
                         \/ sendCount'[p][x] = MaxPeersPerAttestation
                    /\ \A x \in Attestation : sendCount[p][x] = MaxPeersPerAttestation =>
                                               sendCount'[p][x] = MaxPeersPerAttestation
  BY NotLostKept DEF Speaks
<1>1. m \in Node /\ p \in Node
  BY DEF Gossiping
<1>2. chan[m][p] \in Seq(RPC)
  BY <1>1 DEF TypeOK
<1>3. /\ \A x : Announced(chan[m][p], x) => Announced(chan'[m][p], x)
      /\ \A x : Requested(chan[m][p], x) => Requested(chan'[m][p], x)
      /\ \A x \in sentAvailable'[m][p] : x \in sentAvailable[m][p] \/ Announced(chan'[m][p], x)
      /\ \A x \in sentRequests'[m][p] : x \in sentRequests[m][p] \/ Requested(chan'[m][p], x)
  <2> DEFINE P == /\ \A x : Announced(chan[m][p], x) => Announced(chan'[m][p], x)
                  /\ \A x : Requested(chan[m][p], x) => Requested(chan'[m][p], x)
                  /\ \A x \in sentAvailable'[m][p] : x \in sentAvailable[m][p] \/ Announced(chan'[m][p], x)
                  /\ \A x \in sentRequests'[m][p] : x \in sentRequests[m][p] \/ Requested(chan'[m][p], x)
  <2>1. CASE Silent(m, p)
    BY <2>1 DEF Silent
  <2>2. ASSUME NEW rpc \in RPC, Says(m, p, rpc) PROVE P
    <3>1. /\ \A x : Announced(chan'[m][p], x) <=> Announced(chan[m][p], x) \/ x \in rpc.available
          /\ \A x : Requested(chan'[m][p], x) <=> Requested(chan[m][p], x) \/ x \in rpc.requests
      BY <1>2, <2>2, SaidLonger DEF Says
    <3> QED BY <2>2, <3>1 DEF Says
  <2> QED BY <1>1, <2>1, <2>2 DEF Speaks
<1>4. available[p][m] \subseteq available'[p][m]
  BY <1>1 DEF Speaks, Silent, Says
<1>5. \A x \in pendingWant[p][m] :
        \/ x \in pendingWant'[p][m] \/ x \in available'[p][m]
        \/ sendCount'[p][x] = MaxPeersPerAttestation
  <2>1. \A x \in pendingWant[p][m] : x \in validated[p]
    BY DEF Backed
  <2> QED BY <1>1, <2>1 DEF Speaks
<1>6. \A x \in Attestation :
        sendCount[p][x] = MaxPeersPerAttestation => sendCount'[p][x] = MaxPeersPerAttestation
  BY <1>1 DEF Speaks
<1> QED BY <1>3, <1>4, <1>5, <1>6

(* The ceiling is reached for good. *)
LEMMA CeilingStays ==
  ASSUME NEW n \in Node, NEW p \in Node, TypeOK, NEW atts \in SUBSET AttestationsToSend(n, p),
         sendCount' = [sendCount EXCEPT ![n] = Counted(@, atts)]
  PROVE  \A m \in Node, x \in Attestation :
           sendCount[m][x] = MaxPeersPerAttestation => sendCount'[m][x] = MaxPeersPerAttestation
<1>1. \A m \in Node, x \in Attestation :
        sendCount'[m][x] = IF m = n /\ x \in atts THEN sendCount[m][x] + 1 ELSE sendCount[m][x]
  BY DEF TypeOK, Counted
<1>2. \A x \in atts : sendCount[n][x] < MaxPeersPerAttestation
  BY DEF AttestationsToSend
<1>3. MaxPeersPerAttestation \in Nat /\ \A m \in Node, x \in Attestation : sendCount[m][x] \in Nat
  BY LimitAssumption DEF TypeOK
<1> QED BY <1>1, <1>2, <1>3

(* What p asked for is validated, so it is among what p is sent, or was sent, unless
   the ceiling is reached. *)
LEMMA AskedIsSent ==
  ASSUME TypeOK, SendsCounted, NEW n \in Node, NEW p \in Node, NEW x \in pendingWant[n][p] \cap validated[n]
  PROVE  \/ x \in AttestationsToSend(n, p) \/ x \in available[n][p]
         \/ sendCount[n][x] = MaxPeersPerAttestation
<1>1. x \in Attestation
  BY DEF TypeOK
<1>2. sendCount[n][x] \in Nat /\ sendCount[n][x] <= MaxPeersPerAttestation /\ MaxPeersPerAttestation \in Nat
  <2>1. sendCount[n][x] \in Nat
    BY <1>1 DEF TypeOK
  <2>2. sendCount[n][x] <= MaxPeersPerAttestation
    BY <1>1 DEF SendsCounted
  <2> QED BY <2>1, <2>2, LimitAssumption
<1> QED BY <1>2 DEF AttestationsToSend

LEMMA SpeaksVisit ==
  ASSUME TypeOK, SendsCounted, NEW n \in Node, NEW p \in Node, VisitPeer(n, p)
  PROVE  Speaks(n)
<1> DEFINE atts == AttestationsToSend(n, p)
           list == ListFor(n, p)
           reqs == wants[p] \ sentRequests[n][p]
           rpc  == Message(n, p, list, reqs, atts)
<1>1. /\ atts \in SUBSET Attestation /\ list \in SUBSET Attestation
      /\ reqs \in SUBSET Attestation
  BY SelectionType DEF TypeOK
<1>2. rpc \in RPC
  BY <1>1, MessageType
<1>3. list \cup atts \subseteq validated[n] /\ reqs \subseteq wants[p]
  BY DEF AttestationsToSend, ListFor, News
<1>4. rpc.available = list /\ rpc.requests = reqs /\ rpc.sent = atts
  BY DEF Message
<1> HIDE DEF rpc, list, atts, reqs
<1>5. /\ available' = [available EXCEPT ![n][p] = @ \cup atts]
      /\ sendCount' = [sendCount EXCEPT ![n] = Counted(@, atts)]
      /\ pendingWant' = [pendingWant EXCEPT ![n][p] = {}]
      /\ sentAvailable' = [sentAvailable EXCEPT ![n][p] = @ \cup list]
      /\ sentRequests' = [sentRequests EXCEPT ![n][p] = @ \cup reqs]
      /\ chan' = [chan EXCEPT ![n][p] = Sent(@, rpc)]
      /\ UNCHANGED <<phase, held, validated>>
      /\ ticking = n /\ ticking' \in {n, NoNode} /\ wants' = [wants EXCEPT ![p] = {}]
  BY DEF VisitPeer, PublishTo, VoidRequests, rpc, atts, list, reqs
<1>6. /\ \A m, q \in Node : m # n \/ q # p => Silent(m, q)
      /\ Says(n, p, rpc)
  <2>1. \A m, q \in Node :
          /\ m # n \/ q # p => available'[m][q] = available[m][q]
          /\ m = n /\ q = p => available'[m][q] = available[m][q] \cup atts
    BY <1>5 DEF TypeOK
  <2>2. \A m, q \in Node :
          /\ m # n \/ q # p => sentAvailable'[m][q] = sentAvailable[m][q]
          /\ m = n /\ q = p => sentAvailable'[m][q] = sentAvailable[m][q] \cup list
    BY <1>5 DEF TypeOK
  <2>3. \A m, q \in Node :
          /\ m # n \/ q # p => sentRequests'[m][q] = sentRequests[m][q]
          /\ m = n /\ q = p => sentRequests'[m][q] = sentRequests[m][q] \cup reqs
    BY <1>5 DEF TypeOK
  <2>4. \A m, q \in Node :
          /\ m # n \/ q # p => chan'[m][q] = chan[m][q]
          /\ m = n /\ q = p => chan'[m][q] = Sent(chan[m][q], rpc)
    BY <1>5 DEF TypeOK
  <2> QED BY <1>3, <1>4, <2>1, <2>2, <2>3, <2>4 DEF Silent, Says
<1>7. \A m, q \in Node : Silent(m, q) \/ (m = n /\ \E r \in RPC : Says(m, q, r))
  BY <1>2, <1>6
<1>8. \A m, q \in Node : pendingWant'[m][q] = IF m = n /\ q = p THEN {} ELSE pendingWant[m][q]
  BY <1>5 DEF TypeOK
<1>9. \A m \in Node, x \in Attestation :
        sendCount[m][x] = MaxPeersPerAttestation => sendCount'[m][x] = MaxPeersPerAttestation
  BY <1>5, CeilingStays DEF atts
<1>10. \A m, q \in Node : \A x \in pendingWant[m][q] :
         \/ x \in pendingWant'[m][q] \/ x \notin validated[m] \/ x \in available'[m][q]
         \/ sendCount'[m][x] = MaxPeersPerAttestation
  <2> SUFFICES ASSUME NEW x \in pendingWant[n][p], x \in validated[n]
               PROVE  x \in available'[n][p] \/ sendCount'[n][x] = MaxPeersPerAttestation
    BY <1>8
  <2>1. x \in atts \/ x \in available[n][p] \/ sendCount[n][x] = MaxPeersPerAttestation
    BY AskedIsSent DEF atts
  <2>2. x \in Attestation /\ available'[n][p] = available[n][p] \cup atts
    BY <1>5 DEF TypeOK
  <2> QED BY <1>9, <2>1, <2>2
<1>11. \A q \in Node : wants'[q] \subseteq wants[q]
  BY <1>5 DEF TypeOK
<1>12. \A m, q \in Node : pendingWant'[m][q] \subseteq pendingWant[m][q]
  BY <1>8
<1> QED BY <1>5, <1>7, <1>9, <1>10, <1>11, <1>12 DEF Speaks

LEMMA SpeaksDraw ==
  ASSUME TypeOK, IndexInvariant, NEW n \in Node, NEW p \in Node, NEW chunk, DrawChunk(n, p, chunk)
  PROVE  Speaks(n)
<1> DEFINE more == IndexedFor(n, p) # chunk
           tell == SendAvailableWithData /\ more /\ p \notin gossip[n] /\ p \notin told
           list == IF tell THEN validated[n] \ sentAvailable[n][p] ELSE {}
           rpc  == Message(n, p, list, {}, chunk)
<1>1. chunk \in SUBSET AttestationsToSend(n, p)
  <2>1. strategy = "priority" /\ chunk \in SUBSET IndexedFor(n, p)
    BY DEF DrawChunk, News, Chunks
  <2> QED BY <2>1, IndexedIsSendable
<1>2. list \cup chunk \subseteq validated[n] /\ validated[n] \subseteq Attestation
  BY <1>1 DEF TypeOK, AttestationsToSend
<1>3. rpc \in RPC
  BY <1>2, MessageType
<1>4. rpc.available = list /\ rpc.requests = {} /\ rpc.sent = chunk
  BY DEF Message
<1> HIDE DEF rpc, list
<1>5. /\ available' = [available EXCEPT ![n][p] = @ \cup chunk]
      /\ sendCount' = [sendCount EXCEPT ![n] = Counted(@, chunk)]
      /\ sentAvailable' = [sentAvailable EXCEPT ![n][p] = @ \cup list]
      /\ chan' = [chan EXCEPT ![n][p] = Sent(@, rpc)]
      /\ UNCHANGED <<phase, held, validated, pendingWant, sentRequests, ticking, wants>>
      /\ ticking = n
  BY DEF DrawChunk, News, rpc, list
<1>6. /\ \A m, q \in Node : m # n \/ q # p => Silent(m, q)
      /\ Says(n, p, rpc)
  <2>1. \A m, q \in Node :
          /\ m # n \/ q # p => available'[m][q] = available[m][q]
          /\ m = n /\ q = p => available'[m][q] = available[m][q] \cup chunk
    BY <1>5 DEF TypeOK
  <2>2. \A m, q \in Node :
          /\ m # n \/ q # p => sentAvailable'[m][q] = sentAvailable[m][q]
          /\ m = n /\ q = p => sentAvailable'[m][q] = sentAvailable[m][q] \cup list
    BY <1>5 DEF TypeOK
  <2>3. \A m, q \in Node :
          /\ m # n \/ q # p => chan'[m][q] = chan[m][q]
          /\ m = n /\ q = p => chan'[m][q] = Sent(chan[m][q], rpc)
    BY <1>5 DEF TypeOK
  <2> QED BY <1>2, <1>4, <1>5, <2>1, <2>2, <2>3 DEF Silent, Says
<1>7. \A m, q \in Node : Silent(m, q) \/ (m = n /\ \E r \in RPC : Says(m, q, r))
  BY <1>3, <1>6
<1>8. \A m \in Node, x \in Attestation :
        sendCount[m][x] = MaxPeersPerAttestation => sendCount'[m][x] = MaxPeersPerAttestation
  BY <1>1, <1>5, CeilingStays
<1> QED BY <1>5, <1>7, <1>8 DEF Speaks

LEMMA SpeaksClose ==
  ASSUME TypeOK, IndexInvariant, SendsCounted, NEW n \in Node, CloseTick(n)
  PROVE  Speaks(n)
<1> DEFINE list == [p \in Node |-> IF p \in gossip[n] THEN ListFor(n, p) ELSE {}]
           reqs == [p \in Node |-> IF p \in gossip[n] THEN wants[p] \ sentRequests[n][p] ELSE {}]
           rpc  == [p \in Node |-> Message(n, p, list[p], reqs[p], {})]
<1>1. \A q \in Node : list[q] \in SUBSET Attestation /\ reqs[q] \in SUBSET Attestation
  <2>1. \A q \in Node : ListFor(n, q) \subseteq Attestation
    BY SelectionType
  <2>2. \A q \in Node : wants[q] \subseteq Attestation
    BY DEF TypeOK
  <2> QED BY <2>1, <2>2
<1>2. \A q \in Node : list[q] \subseteq validated[n] /\ reqs[q] \subseteq wants[q]
  BY DEF ListFor, News
<1> HIDE DEF list, reqs
<1>3. \A q \in Node : /\ rpc[q] \in RPC /\ rpc[q].available = list[q]
                      /\ rpc[q].requests = reqs[q] /\ rpc[q].sent = {}
  <2> SUFFICES ASSUME NEW q \in Node
               PROVE  /\ rpc[q] \in RPC /\ rpc[q].available = list[q]
                      /\ rpc[q].requests = reqs[q] /\ rpc[q].sent = {}
    OBVIOUS
  <2>1. Message(n, q, list[q], reqs[q], {}) \in RPC
    BY <1>1, MessageType
  <2> QED BY <2>1 DEF Message
<1> HIDE DEF rpc
<1>4. /\ strategy = "priority" /\ Needy(n) = {}
      /\ pendingWant' = [pendingWant EXCEPT ![n] =
                           [p \in Node |-> IF p \in Peers(n) THEN {} ELSE @[p]]]
      /\ sentAvailable' = [sentAvailable EXCEPT ![n] = [p \in Node |-> @[p] \cup list[p]]]
      /\ sentRequests' = [sentRequests EXCEPT ![n] = [p \in Node |-> @[p] \cup reqs[p]]]
      /\ chan' = [chan EXCEPT ![n] = [p \in Node |-> Sent(@[p], rpc[p])]]
      /\ UNCHANGED <<phase, held, validated, available, sendCount>>
      /\ ticking = n /\ ticking' = NoNode /\ wants' = [p \in Node |-> {}]
  BY DEF CloseTick, rpc, list, reqs
<1>5. \A m, q \in Node : Silent(m, q) \/ (m = n /\ \E r \in RPC : Says(m, q, r))
  <2> SUFFICES ASSUME NEW m \in Node, NEW q \in Node
               PROVE  /\ m # n => Silent(m, q)
                      /\ m = n => Says(m, q, rpc[q])
    BY <1>3
  <2>1. /\ m # n => sentAvailable'[m][q] = sentAvailable[m][q]
        /\ m = n => sentAvailable'[m][q] = sentAvailable[m][q] \cup list[q]
    BY <1>4 DEF TypeOK
  <2>2. /\ m # n => sentRequests'[m][q] = sentRequests[m][q]
        /\ m = n => sentRequests'[m][q] = sentRequests[m][q] \cup reqs[q]
    BY <1>4 DEF TypeOK
  <2>3. /\ m # n => chan'[m][q] = chan[m][q]
        /\ m = n => chan'[m][q] = Sent(chan[m][q], rpc[q])
    BY <1>4 DEF TypeOK
  <2> QED BY <1>2, <1>3, <1>4, <2>1, <2>2, <2>3 DEF Silent, Says
<1>6. \A m, q \in Node :
        pendingWant'[m][q] = IF m = n /\ q \in Peers(n) THEN {} ELSE pendingWant[m][q]
  BY <1>4 DEF TypeOK
<1>7. \A m, q \in Node : \A x \in pendingWant[m][q] :
        \/ x \in pendingWant'[m][q] \/ x \notin validated[m] \/ x \in available'[m][q]
        \/ sendCount'[m][x] = MaxPeersPerAttestation
  <2> SUFFICES ASSUME NEW q \in Peers(n) \cap Node, NEW x \in pendingWant[n][q], x \in validated[n]
               PROVE  x \in available[n][q] \/ sendCount[n][x] = MaxPeersPerAttestation
    BY <1>4, <1>6
  <2>1. x \in AttestationsToSend(n, q) \/ x \in available[n][q] \/ sendCount[n][x] = MaxPeersPerAttestation
    BY AskedIsSent
  <2>2. AttestationsToSend(n, q) = {}
    BY <1>4, IndexedIsSendable DEF Needy
  <2> QED BY <2>1, <2>2
<1>8. \A q \in Node : wants'[q] \subseteq wants[q]
  BY <1>4
<1>9. \A m, q \in Node : pendingWant'[m][q] \subseteq pendingWant[m][q]
  BY <1>6
<1> QED BY <1>4, <1>5, <1>7, <1>8, <1>9 DEF Speaks

(* What n hears from p. *)
LEMMA Hears ==
  ASSUME TypeOK, NEW n \in Node, NEW p \in Node, OnIncomingRPC(n, p)
  PROVE  LET rpc == Head(chan[p][n]) IN
         /\ phase[n] # "closed" /\ chan[p][n] \in Seq(RPC) /\ chan[p][n] # <<>>
         /\ UNCHANGED <<phase, validated, sendCount, sentAvailable, sentRequests, ticking, wants>>
         /\ \A m \in Node : held[m] \subseteq held'[m]
         /\ \A m, q \in Node : chan'[m][q] = IF m = p /\ q = n THEN Tail(chan[m][q]) ELSE chan[m][q]
         /\ \A m, q \in Node : m # n \/ q # p => available'[m][q] = available[m][q]
         /\ available[n][p] \cup rpc.available \subseteq available'[n][p]
         /\ available'[n][p] \subseteq available[n][p] \cup rpc.available \cup held'[n]
         /\ \A m, q \in Node : m # n \/ q # p => pendingWant'[m][q] = pendingWant[m][q]
         /\ pendingWant'[n][p] = pendingWant[n][p] \cup rpc.requests
<1> DEFINE rpc   == Head(chan[p][n])
           known == identities[n] \cup rpc.metaFull \cup rpc.dataFull
           got   == {a \in rpc.sent : a[1] \in known}
           new   == got \ held[n]
<1>1. /\ available' = [available EXCEPT ![n][p] = @ \cup rpc.available \cup got]
      /\ pendingWant' = [pendingWant EXCEPT ![n][p] = @ \cup rpc.requests]
      /\ held' = [held EXCEPT ![n] = @ \cup new]
      /\ chan' = [chan EXCEPT ![p][n] = Tail(@)]
      /\ UNCHANGED <<phase, validated, sendCount, sentAvailable, sentRequests, ticking, wants>>
      /\ chan[p][n] # <<>>
  BY DEF OnIncomingRPC, Known, tickVars
<1>2. phase[n] # "closed" /\ chan[p][n] \in Seq(RPC)
  BY DEF TypeOK, OnIncomingRPC, AcceptsSlot
<1>3. got \subseteq held[n] \cup new
  OBVIOUS
<1> HIDE DEF rpc, known, got, new
<1>4. \A m \in Node : held'[m] = IF m = n THEN held[m] \cup new ELSE held[m]
  BY <1>1 DEF TypeOK
<1>5. \A m, q \in Node : available'[m][q] =
        IF m = n /\ q = p THEN available[m][q] \cup rpc.available \cup got ELSE available[m][q]
  BY <1>1 DEF TypeOK
<1>6. \A m, q \in Node : pendingWant'[m][q] =
        IF m = n /\ q = p THEN pendingWant[m][q] \cup rpc.requests ELSE pendingWant[m][q]
  BY <1>1 DEF TypeOK
<1>7. \A m, q \in Node : chan'[m][q] = IF m = p /\ q = n THEN Tail(chan[m][q]) ELSE chan[m][q]
  BY <1>1 DEF TypeOK
<1>8. \A m \in Node : held[m] \subseteq held'[m]
  BY <1>4
<1>9. /\ \A m, q \in Node : m # n \/ q # p => available'[m][q] = available[m][q]
      /\ available[n][p] \cup rpc.available \subseteq available'[n][p]
      /\ available'[n][p] \subseteq available[n][p] \cup rpc.available \cup held'[n]
  BY <1>3, <1>4, <1>5
<1>10. /\ \A m, q \in Node : m # n \/ q # p => pendingWant'[m][q] = pendingWant[m][q]
       /\ pendingWant'[n][p] = pendingWant[n][p] \cup rpc.requests
  BY <1>6
<1> QED BY <1>1, <1>2, <1>7, <1>8, <1>9, <1>10 DEF rpc

LEMMA BackedHear ==
  ASSUME TypeOK, Backed, NEW n \in Node, NEW p \in Node, OnIncomingRPC(n, p)
  PROVE  Backed'
<1> DEFINE rpc == Head(chan[p][n])
<1>1. /\ phase[n] # "closed" /\ chan[p][n] \in Seq(RPC) /\ chan[p][n] # <<>>
      /\ UNCHANGED <<phase, validated, ticking, wants>>
      /\ \A m \in Node : held[m] \subseteq held'[m]
      /\ \A m, q \in Node : chan'[m][q] = IF m = p /\ q = n THEN Tail(chan[m][q]) ELSE chan[m][q]
      /\ \A m, q \in Node : m # n \/ q # p => available'[m][q] = available[m][q]
      /\ available'[n][p] \subseteq available[n][p] \cup rpc.available \cup held'[n]
      /\ \A m, q \in Node : m # n \/ q # p => pendingWant'[m][q] = pendingWant[m][q]
      /\ pendingWant'[n][p] = pendingWant[n][p] \cup rpc.requests
  BY Hears
<1>2. /\ \A x : Announced(chan[p][n], x) <=> x \in rpc.available \/ Announced(Tail(chan[p][n]), x)
      /\ \A x : Requested(chan[p][n], x) <=> x \in rpc.requests \/ Requested(Tail(chan[p][n]), x)
  BY <1>1, SaidShorter
<1> HIDE DEF rpc
<1> SUFFICES ASSUME NEW m \in Gossiping, NEW q \in Gossiping, phase[q] # "closed"
             PROVE  /\ \A x : Announced(chan'[q][m], x) => Announced(chan[q][m], x)
                    /\ \A x \in available'[m][q] : x \in available[m][q] \/ x \in validated[q] \/ x \in held'[m]
                    /\ \A x : Requested(chan'[m][q], x) => Requested(chan[m][q], x)
                    /\ \A x \in pendingWant'[q][m] : x \in pendingWant[q][m] \/ x \in validated[q]
  BY <1>1, BackedKept DEF Gossiping
<1>3. m \in Node /\ q \in Node
  BY DEF Gossiping
<1>4. /\ \A x : Announced(chan'[q][m], x) => Announced(chan[q][m], x)
      /\ \A x : Requested(chan'[m][q], x) => Requested(chan[m][q], x)
  BY <1>1, <1>2, <1>3
<1>5. \A x \in available'[m][q] : x \in available[m][q] \/ x \in validated[q] \/ x \in held'[m]
  <2>1. CASE m = n /\ q = p
    <3>1. \A x : Announced(chan[p][n], x) => x \in validated[p]
      BY <2>1 DEF Backed
    <3>2. \A x \in rpc.available : x \in validated[p]
      BY <1>2, <3>1
    <3> QED BY <1>1, <2>1, <3>2
  <2>2. CASE ~(m = n /\ q = p)
    BY <1>1, <1>3, <2>2
  <2> QED BY <2>1, <2>2
<1>6. \A x \in pendingWant'[q][m] : x \in pendingWant[q][m] \/ x \in validated[q]
  <2>1. CASE q = n /\ m = p
    <3>1. \A x : Requested(chan[p][n], x) => x \in validated[n]
      BY <2>1 DEF Backed
    <3>2. \A x \in rpc.requests : x \in validated[n]
      BY <1>2, <3>1
    <3> QED BY <1>1, <2>1, <3>2
  <2>2. CASE ~(q = n /\ m = p)
    BY <1>1, <1>3, <2>2
  <2> QED BY <2>1, <2>2
<1> QED BY <1>4, <1>5, <1>6

LEMMA NotLostHear ==
  ASSUME TypeOK, NotLost, NEW n \in Node, NEW p \in Node, OnIncomingRPC(n, p)
  PROVE  NotLost'
<1> DEFINE rpc == Head(chan[p][n])
<1>1. /\ phase[n] # "closed" /\ chan[p][n] \in Seq(RPC) /\ chan[p][n] # <<>>
      /\ UNCHANGED <<phase, sendCount, sentAvailable, sentRequests>>
      /\ \A m, q \in Node : chan'[m][q] = IF m = p /\ q = n THEN Tail(chan[m][q]) ELSE chan[m][q]
      /\ \A m, q \in Node : m # n \/ q # p => available'[m][q] = available[m][q]
      /\ available[n][p] \cup rpc.available \subseteq available'[n][p]
      /\ \A m, q \in Node : m # n \/ q # p => pendingWant'[m][q] = pendingWant[m][q]
      /\ pendingWant'[n][p] = pendingWant[n][p] \cup rpc.requests
  BY Hears
<1>2. /\ \A x : Announced(chan[p][n], x) <=> x \in rpc.available \/ Announced(Tail(chan[p][n]), x)
      /\ \A x : Requested(chan[p][n], x) <=> x \in rpc.requests \/ Requested(Tail(chan[p][n]), x)
  BY <1>1, SaidShorter
<1> HIDE DEF rpc
<1> SUFFICES ASSUME NEW m \in Gossiping, NEW q \in Gossiping
             PROVE  /\ available[q][m] \subseteq available'[q][m]
                    /\ \A x : Announced(chan[m][q], x) => Announced(chan'[m][q], x) \/ x \in available'[q][m]
                    /\ \A x : Requested(chan[m][q], x) => Requested(chan'[m][q], x) \/ x \in pendingWant'[q][m]
                    /\ pendingWant[q][m] \subseteq pendingWant'[q][m]
  BY <1>1, NotLostKept
<1>3. m \in Node /\ q \in Node
  BY DEF Gossiping
<1>4. CASE m = p /\ q = n
  <2>1. chan'[m][q] = Tail(chan[m][q])
    BY <1>1, <1>3, <1>4
  <2>2. /\ \A x : Announced(chan[m][q], x) => Announced(chan'[m][q], x) \/ x \in available'[q][m]
        /\ \A x : Requested(chan[m][q], x) => Requested(chan'[m][q], x) \/ x \in pendingWant'[q][m]
    BY <1>1, <1>2, <1>4, <2>1
  <2> QED BY <1>1, <1>4, <2>2
<1>5. CASE ~(m = p /\ q = n)
  <2>1. chan'[m][q] = chan[m][q] /\ available'[q][m] = available[q][m] /\ pendingWant'[q][m] = pendingWant[q][m]
    BY <1>1, <1>3, <1>5
  <2> QED BY <2>1
<1> QED BY <1>4, <1>5

LEMMA SaidDrop ==
  ASSUME StartPhase # "away", TypeOK, HeldInv, NEW n \in Node, NEW p \in Node, DropRPC(n, p)
  PROVE  /\ Backed => Backed'
         /\ NotLost => NotLost'
<1>1. /\ chan' = [chan EXCEPT ![p][n] = Tail(@)]
      /\ UNCHANGED <<phase, held, validated, available, pendingWant, sendCount,
                     sentAvailable, sentRequests, ticking, wants>>
  BY DEF DropRPC, slotVars, tickVars
<1>2. phase[n] = "closed"
  BY DEF DropRPC, AcceptsSlot, HeldInv, TypeOK
<1>3. \A m, q \in Node : chan'[m][q] = IF m = p /\ q = n THEN Tail(chan[m][q]) ELSE chan[m][q]
  BY <1>1 DEF TypeOK
<1>4. chan[p][n] \in Seq(RPC) /\ chan[p][n] # <<>>
  BY DEF TypeOK, DropRPC
<1>5. \A m, q \in Node :
        /\ \A x : Announced(chan'[m][q], x) => Announced(chan[m][q], x)
        /\ \A x : Requested(chan'[m][q], x) => Requested(chan[m][q], x)
  BY <1>3, <1>4, SaidShorter
<1>6. \A m, q \in Node : phase[q] # "closed" => chan'[m][q] = chan[m][q]
  BY <1>2, <1>3
<1>7. Backed => Backed'
  BY <1>1, <1>5, BackedKept DEF Gossiping
<1>8. NotLost => NotLost'
  BY <1>1, <1>6, NotLostKept DEF Gossiping
<1> QED BY <1>7, <1>8

(* Steps that take no message and void no request of a node that goes on. *)
LEMMA SaidRest ==
  ASSUME TypeOK,
         \A n, p \in Gossiping : phase'[p] # "closed" =>
           /\ phase[p] # "closed" /\ validated[p] \subseteq validated'[p]
           /\ chan'[n][p] = chan[n][p] /\ chan'[p][n] = chan[p][n]
           /\ available'[n][p] = {} \/ (available'[n][p] = available[n][p] /\ held[n] \subseteq held'[n])
           /\ available'[p][n] = available[p][n]
           /\ pendingWant'[p][n] = pendingWant[p][n]
           /\ sentAvailable'[n][p] \subseteq sentAvailable[n][p]
           /\ sentRequests'[n][p] \subseteq sentRequests[n][p]
           /\ sendCount'[p] = sendCount[p]
           /\ ticking' = n => \A x \in wants'[p] : ticking = n /\ x \in wants[p]
  PROVE  /\ Backed => Backed'
         /\ NotLost => NotLost'
<1>1. Backed => Backed'
  BY BackedKept
<1>2. NotLost => NotLost'
  BY NotLostKept
<1> QED BY <1>1, <1>2

LEMMA BackedAsk ==
  ASSUME TypeOK, Backed, NEW n \in Node, NEW p \in Node, NEW d, SelectIWantTargets(n, p, d)
  PROVE  Backed'
<1>1. /\ UNCHANGED <<phase, held, validated, chan, available, pendingWant, ticking>>
      /\ ticking = n
      /\ wants' = [wants EXCEPT ![p] = @ \cup Askable(n, p, d)]
  BY DEF SelectIWantTargets
<1>2. Askable(n, p, d) \subseteq available[n][p] \ held[n]
  BY DEF Askable
<1>3. \A q \in Node : wants'[q] = IF q = p THEN wants[q] \cup Askable(n, p, d) ELSE wants[q]
  BY <1>1 DEF TypeOK
<1>4. ASSUME NEW q \in Gossiping, phase[q] # "closed", n \in Gossiping, NEW x \in wants'[q]
      PROVE  x \in wants[q] \/ x \in validated[q]
  <2>1. \A y \in available[n][q] : y \in validated[q] \/ y \in held[n]
    BY <1>4 DEF Backed
  <2> QED BY <1>2, <1>3, <1>4, <2>1 DEF Gossiping
<1> QED BY <1>1, <1>4, BackedKept

LEMMA SaidStep ==
  ASSUME StartPhase # "away", GossipInv, IndexInvariant, SendsCounted, HeldInv, Backed, NotLost, [Next]_vars
  PROVE  Backed' /\ NotLost'
<1> USE DEF GossipInv
<1>1. ASSUME UNCHANGED <<phase, held, validated, chan, available, pendingWant, sentAvailable,
                         sentRequests, sendCount, ticking, wants>>
      PROVE  Backed' /\ NotLost'
  BY <1>1, SaidRest
<1>2. CASE UNCHANGED vars
  BY <1>1, <1>2 DEF vars, slotVars, tickVars
<1>3. ASSUME NEW n \in Node, SlotStart(n) PROVE Backed' /\ NotLost'
  <2>1. /\ phase[n] # "closed" /\ phase' = [phase EXCEPT ![n] = "open"]
        /\ UNCHANGED <<held, validated, chan, available, pendingWant, sentAvailable,
                       sentRequests, sendCount, ticking, wants>>
    BY <1>3 DEF SlotStart, slotVars, tickVars
  <2>2. \A p \in Gossiping : phase'[p] # "closed" => phase[p] # "closed"
    BY <2>1 DEF TypeOK, Gossiping
  <2> QED BY <2>1, <2>2, SaidRest
<1>4. ASSUME NEW n \in Node, SlotEnd(n) PROVE Backed' /\ NotLost'
  <2>1. /\ phase' = [phase EXCEPT ![n] = "closed"]
        /\ held' = [held EXCEPT ![n] = {}]
        /\ validated' = [validated EXCEPT ![n] = {}]
        /\ sendCount' = [sendCount EXCEPT ![n] = [a \in Attestation |-> 0]]
        /\ available' = [available EXCEPT ![n] = [p \in Node |-> {}]]
        /\ pendingWant' = [pendingWant EXCEPT ![n] = [p \in Node |-> {}]]
        /\ sentAvailable' = [sentAvailable EXCEPT ![n] = [p \in Node |-> {}]]
        /\ sentRequests' = [sentRequests EXCEPT ![n] = [p \in Node |-> {}]]
        /\ UNCHANGED <<chan, ticking, wants>>
    BY <1>4 DEF SlotEnd, tickVars
  <2>2. \A p \in Node : phase'[p] # "closed" => p # n /\ phase[p] # "closed"
    BY <2>1 DEF TypeOK
  <2>3. \A m \in Node : m # n =>
          /\ held'[m] = held[m] /\ validated'[m] = validated[m] /\ sendCount'[m] = sendCount[m]
          /\ available'[m] = available[m] /\ pendingWant'[m] = pendingWant[m]
          /\ sentAvailable'[m] = sentAvailable[m] /\ sentRequests'[m] = sentRequests[m]
    BY <2>1 DEF TypeOK
  <2>4. \A q \in Node : available'[n][q] = {} /\ sentAvailable'[n][q] = {} /\ sentRequests'[n][q] = {}
    BY <2>1 DEF TypeOK
  <2> QED BY <2>1, <2>2, <2>3, <2>4, SaidRest DEF Gossiping
<1>5. ASSUME NEW n \in Node, NEW a, PublishLocal(n, a) PROVE Backed' /\ NotLost'
  <2>1. /\ held' = [held EXCEPT ![n] = @ \cup {a}]
        /\ UNCHANGED <<phase, chan, available, pendingWant, sentAvailable, sentRequests,
                       sendCount, ticking, wants>>
    BY <1>5 DEF PublishLocal, tickVars
  <2>2. \A m \in Node : held[m] \subseteq held'[m]
    BY <2>1 DEF TypeOK
  <2>3. \A m \in Node : validated[m] \subseteq validated'[m]
    <3>1. validated' = validated \/ validated' = [validated EXCEPT ![n] = @ \cup {a}]
      BY <1>5 DEF PublishLocal
    <3>2. validated \in [Node -> SUBSET Attestation]
      BY DEF TypeOK
    <3> QED BY <3>1, <3>2
  <2> QED BY <2>1, <2>2, <2>3, SaidRest DEF Gossiping
<1>6. ASSUME NEW n \in Node, NEW a, FanoutPublish(n, a) PROVE Backed' /\ NotLost'
  <2>1. /\ n \in Fanout
        /\ UNCHANGED <<phase, held, validated, available, pendingWant, sentAvailable,
                       sentRequests, sendCount, ticking, wants>>
        /\ \E q : chan' = [chan EXCEPT ![n] = q]
    BY <1>6 DEF FanoutPublish, slotVars, tickVars
  <2>2. \A m \in Gossiping : chan'[m] = chan[m]
    BY <2>1 DEF TypeOK, Gossiping
  <2> QED BY <2>1, <2>2, SaidRest
<1>7. ASSUME NEW n \in Node, NEW atts, MarkValidated(n, atts) PROVE Backed' /\ NotLost'
  <2>1. UNCHANGED <<phase, held, chan, available, pendingWant, sentAvailable, sentRequests,
                    sendCount, ticking, wants>>
    BY <1>7 DEF MarkValidated, tickVars
  <2>2. \A m \in Node : validated[m] \subseteq validated'[m]
    <3>1. validated' = validated \/ validated' = [validated EXCEPT ![n] = @ \cup atts]
      BY <1>7 DEF MarkValidated
    <3>2. validated \in [Node -> SUBSET Attestation]
      BY DEF TypeOK
    <3> QED BY <3>1, <3>2
  <2> QED BY <2>1, <2>2, SaidRest DEF Gossiping
<1>8. ASSUME NEW n \in Node, NEW x, OnEmitGossip(n, x) PROVE Backed' /\ NotLost'
  BY <1>1, <1>8 DEF OnEmitGossip, slotVars, tickVars
<1>9. ASSUME NEW n \in Node, PublishTick(n) PROVE Backed' /\ NotLost'
  <2>1. /\ ticking = NoNode
        /\ UNCHANGED <<phase, held, validated, chan, available, pendingWant, sentAvailable,
                       sentRequests, sendCount, wants>>
    BY <1>9 DEF PublishTick, slotVars
  <2>2. \A q \in Node : wants[q] = {}
    BY <2>1 DEF AskingGossip
  <2> QED BY <2>1, <2>2, SaidRest DEF Gossiping
<1>10. ASSUME NEW n \in Node, NEW p \in Node, NEW d, SelectIWantTargets(n, p, d)
       PROVE  Backed' /\ NotLost'
  <2>1. UNCHANGED <<phase, chan, available, pendingWant, sentAvailable, sentRequests, sendCount>>
    BY <1>10 DEF SelectIWantTargets
  <2>2. NotLost'
    BY <2>1, NotLostKept
  <2> QED BY <1>10, <2>2, BackedAsk
<1>11. ASSUME NEW n \in Node, NodeStep(n) PROVE Backed' /\ NotLost'
  BY <1>3, <1>4, <1>5, <1>6, <1>7, <1>8, <1>9, <1>11, SaidDrop, BackedHear, NotLostHear DEF NodeStep
<1>12. ASSUME NEW n \in Node, Speaks(n) PROVE Backed' /\ NotLost'
  BY <1>12, BackedSpeak, NotLostSpeak
<1>13. ASSUME NEW n \in Node, TickStep(n) PROVE Backed' /\ NotLost'
  BY <1>10, <1>12, <1>13, SpeaksVisit, SpeaksDraw, SpeaksClose DEF TickStep
<1> QED BY <1>2, <1>11, <1>13 DEF Next

SaidInTime == StartPhase # "away" => Backed /\ NotLost

(* No advertisement and no request comes to nothing, if no node starts the slot
   late: gossip is said once, so what is lost would be missing for good. *)
THEOREM GossipIsNotLost == Spec => []GossipNotLost
<1>1. Init => SaidInTime
  <2> SUFFICES ASSUME Init PROVE Backed /\ NotLost
    BY DEF SaidInTime
  <2>1. \A n, p \in Gossiping :
          /\ chan[n][p] = <<>> /\ available[n][p] = {} /\ pendingWant[n][p] = {} /\ wants[p] = {}
          /\ sentAvailable[n][p] = {} /\ sentRequests[n][p] = {}
    BY DEF Init, Gossiping
  <2>2. \A x : ~Announced(<<>>, x) /\ ~Requested(<<>>, x)
    BY DEF Announced, Requested
  <2> QED BY <2>1, <2>2 DEF Backed, NotLost
<1>2. (GossipInv /\ IndexInvariant /\ SendsCounted /\ HeldInv /\ SaidInTime /\ [Next]_vars)
        => SaidInTime'
  BY SaidStep DEF SaidInTime
<1>3. GossipInv /\ SaidInTime => GossipNotLost
  <2> SUFFICES ASSUME RequestsAreServed, NotLost, NEW n \in Gossiping, NEW p \in Gossiping, phase[p] # "closed"
               PROVE  /\ sentAvailable[n][p] \subseteq available[p][n]
                           \cup UNION {chan[n][p][i].available : i \in 1 .. Len(chan[n][p])}
                      /\ \A x \in sentRequests[n][p] :
                           \/ \E i \in 1 .. Len(chan[n][p]) : x \in chan[n][p][i].requests
                           \/ x \in pendingWant[p][n] /\ n \in gossip[p]
                           \/ x \in available[p][n]
                           \/ sendCount[p][x] = MaxPeersPerAttestation
    BY DEF GossipNotLost, SaidInTime, GossipInv
  <2>1. ASSUME NEW x \in sentAvailable[n][p]
        PROVE  x \in available[p][n] \cup UNION {chan[n][p][i].available : i \in 1 .. Len(chan[n][p])}
    <3>1. x \in available[p][n] \/ Announced(chan[n][p], x)
      BY DEF NotLost
    <3> QED BY <3>1 DEF Announced
  <2>2. pendingWant[p][n] # {} => n \in gossip[p]
    BY DEF RequestsAreServed, Gossiping
  <2>3. \A x \in sentRequests[n][p] :
          \/ Requested(chan[n][p], x) \/ x \in pendingWant[p][n] \/ x \in available[p][n]
          \/ sendCount[p][x] = MaxPeersPerAttestation
    BY DEF NotLost
  <2> QED BY <2>1, <2>2, <2>3 DEF Requested
<1> QED BY <1>1, <1>2, <1>3, GossipHolds, HeldHolds, SendsAreCounted, IndexIsExact, PTL DEF Spec

-----------------------------------------------------------------------------
(* The verifier *)

(* On a node that has not ended the slot, what is held is validated or with the
   verifier, in one submission that can be filed when it comes back. *)
GateInv ==
  \A n \in Node : phase[n] # "closed" =>
    /\ held[n] = validated[n] \cup UNION verifying[n]
    /\ \A S \in verifying[n] : S \cap validated[n] = {}
    /\ \A S, T \in verifying[n] : S # T => S \cap T = {}
    /\ DataOf(held[n]) \subseteq buckets[n]

LEMMA GateReceive ==
  ASSUME TypeOK, GateInv, NEW n \in Node, NEW p \in Node, OnIncomingRPC(n, p)
  PROVE  GateInv'
<1> DEFINE rpc   == Head(chan[p][n])
           known == identities[n] \cup rpc.metaFull \cup rpc.dataFull
           got   == {a \in rpc.sent : a[1] \in known}
           new   == got \ held[n]
           batch(d) == {a \in new : a[1] = d}
           batches == {batch(d) : d \in DataOf(new)}
<1>1. /\ phase[n] # "closed" /\ UNCHANGED <<phase, validated>>
      /\ held' = [held EXCEPT ![n] = @ \cup new]
      /\ verifying' = [verifying EXCEPT ![n] = @ \cup batches]
      /\ buckets' = [buckets EXCEPT ![n] = @ \cup DataOf(rpc.available \cup rpc.requests \cup got)]
  BY DEF OnIncomingRPC, Known, AcceptsSlot
<1>2. /\ \A m \in Node : held'[m] = IF m = n THEN held[m] \cup new ELSE held[m]
      /\ \A m \in Node : verifying'[m] = IF m = n THEN verifying[m] \cup batches ELSE verifying[m]
  BY <1>1 DEF TypeOK
<1>3. \A m \in Node : m # n => buckets'[m] = buckets[m]
  BY <1>1 DEF TypeOK
<1>4. DataOf(new) \cup buckets[n] \subseteq buckets'[n]
  <2>1. DataOf(new) \subseteq DataOf(rpc.available \cup rpc.requests \cup got)
    BY DEF DataOf
  <2> QED BY <1>1, <2>1 DEF TypeOK
<1>5. UNION batches = new
  BY DEF DataOf
<1>6. \A S, T \in batches : S # T => S \cap T = {}
  OBVIOUS
<1>7. new \cap held[n] = {}
  OBVIOUS
<1> HIDE DEF rpc, known, got, new, batches
<1> SUFFICES ASSUME NEW m \in Node, phase[m] # "closed"
             PROVE  /\ held'[m] = validated[m] \cup UNION verifying'[m]
                    /\ \A S \in verifying'[m] : S \cap validated[m] = {}
                    /\ \A S, T \in verifying'[m] : S # T => S \cap T = {}
                    /\ DataOf(held'[m]) \subseteq buckets'[m]
  BY <1>1 DEF GateInv, DataOf
<1>8. /\ held[m] = validated[m] \cup UNION verifying[m]
      /\ \A S \in verifying[m] : S \cap validated[m] = {}
      /\ \A S, T \in verifying[m] : S # T => S \cap T = {}
      /\ DataOf(held[m]) \subseteq buckets[m]
  BY DEF GateInv
<1>9. CASE m # n
  <2>1. held'[m] = held[m] /\ verifying'[m] = verifying[m] /\ buckets'[m] = buckets[m]
    BY <1>2, <1>3, <1>9
  <2> QED BY <1>8, <2>1
<1>10. CASE m = n
  <2>1. held'[n] = held[n] \cup new /\ verifying'[n] = verifying[n] \cup batches
    BY <1>2
  <2>2. \A S \in batches : S \subseteq new
    BY <1>5
  <2>3. \A S \in verifying[n] : S \subseteq held[n]
    BY <1>8, <1>10
  <2>4. held'[n] = validated[n] \cup UNION verifying'[n]
    BY <1>5, <1>8, <1>10, <2>1
  <2>5. \A S \in verifying'[n] : S \cap validated[n] = {}
    BY <1>7, <1>8, <1>10, <2>1, <2>2
  <2>6. \A S \in verifying[n], T \in batches : S \cap T = {}
    BY <1>7, <2>2, <2>3
  <2>7. \A S, T \in verifying'[n] : S # T => S \cap T = {}
    BY <1>6, <1>8, <1>10, <2>1, <2>6
  <2>8. DataOf(held'[n]) \subseteq buckets'[n]
    BY <1>4, <1>8, <1>10, <2>1 DEF DataOf
  <2> QED BY <1>10, <2>4, <2>5, <2>7, <2>8
<1> QED BY <1>9, <1>10

LEMMA GatePublish ==
  ASSUME TypeOK, GateInv, NEW n \in Node, NEW a \in Own[n], PublishLocal(n, a)
  PROVE  GateInv'
<1>1. /\ phase[n] = "open" /\ UNCHANGED <<phase, verifying>>
      /\ buckets' = [buckets EXCEPT ![n] = @ \cup {a[1]}]
      /\ held' = [held EXCEPT ![n] = @ \cup {a}]
  BY DEF PublishLocal
<1>2. /\ a \in held[n] => validated' = validated
      /\ a \notin held[n] => validated' = [validated EXCEPT ![n] = @ \cup {a}]
  BY DEF PublishLocal
<1>3. /\ \A m \in Node : buckets'[m] = IF m = n THEN buckets[m] \cup {a[1]} ELSE buckets[m]
      /\ \A m \in Node : held'[m] = IF m = n THEN held[m] \cup {a} ELSE held[m]
      /\ \A m \in Node : validated'[m] =
           IF m = n /\ a \notin held[n] THEN validated[m] \cup {a} ELSE validated[m]
  BY <1>1, <1>2 DEF TypeOK
<1> SUFFICES ASSUME NEW m \in Node, phase[m] # "closed"
             PROVE  /\ held'[m] = validated'[m] \cup UNION verifying[m]
                    /\ \A S \in verifying[m] : S \cap validated'[m] = {}
                    /\ DataOf(held'[m]) \subseteq buckets'[m]
  BY <1>1 DEF GateInv, DataOf
<1>4. /\ held[m] = validated[m] \cup UNION verifying[m]
      /\ \A S \in verifying[m] : S \cap validated[m] = {}
      /\ DataOf(held[m]) \subseteq buckets[m]
  BY DEF GateInv
<1>5. \A S \in verifying[m] : S \subseteq held[m]
  BY <1>4
<1>6. held'[m] = validated'[m] \cup UNION verifying[m]
  BY <1>3, <1>4
<1>7. \A S \in verifying[m] : S \cap validated'[m] = {}
  <2>1. validated'[m] = validated[m] \/ (a \notin held[m] /\ validated'[m] = validated[m] \cup {a})
    BY <1>3
  <2> QED BY <1>4, <1>5, <2>1
<1>8. DataOf(held'[m]) \subseteq buckets'[m]
  BY <1>3, <1>4 DEF DataOf
<1> QED BY <1>6, <1>7, <1>8

LEMMA GateValidate ==
  ASSUME TypeOK, GateInv, NEW n \in Node, NEW atts \in verifying[n], MarkValidated(n, atts)
  PROVE  GateInv'
<1>1. /\ UNCHANGED <<phase, buckets, held>>
      /\ verifying' = [verifying EXCEPT ![n] = @ \ {atts}]
      /\ DataOf(atts) \subseteq buckets[n] => validated' = [validated EXCEPT ![n] = @ \cup atts]
      /\ ~(DataOf(atts) \subseteq buckets[n]) => validated' = validated
  BY DEF MarkValidated
<1>2. \A m \in Node : verifying'[m] = IF m = n THEN verifying[m] \ {atts} ELSE verifying[m]
  BY <1>1 DEF TypeOK
<1>3. \A m \in Node : m # n => validated'[m] = validated[m]
  BY <1>1 DEF TypeOK
<1> SUFFICES ASSUME NEW m \in Node, phase[m] # "closed"
             PROVE  /\ held[m] = validated'[m] \cup UNION verifying'[m]
                    /\ \A S \in verifying'[m] : S \cap validated'[m] = {}
                    /\ \A S, T \in verifying'[m] : S # T => S \cap T = {}
                    /\ DataOf(held[m]) \subseteq buckets[m]
  BY <1>1 DEF GateInv
<1>4. /\ held[m] = validated[m] \cup UNION verifying[m]
      /\ \A S \in verifying[m] : S \cap validated[m] = {}
      /\ \A S, T \in verifying[m] : S # T => S \cap T = {}
      /\ DataOf(held[m]) \subseteq buckets[m]
  BY DEF GateInv
<1>5. CASE m # n
  BY <1>2, <1>3, <1>4, <1>5
<1>6. CASE m = n
  <2>1. DataOf(atts) \subseteq buckets[n]
    <3>1. atts \subseteq held[n]
      BY <1>4, <1>6
    <3> QED BY <1>4, <1>6, <3>1 DEF DataOf
  <2>2. validated'[n] = validated[n] \cup atts /\ verifying'[n] = verifying[n] \ {atts}
    BY <1>1, <1>2, <2>1 DEF TypeOK
  <2>3. held[n] = validated'[n] \cup UNION verifying'[n]
    BY <1>4, <1>6, <2>2
  <2>4. \A S \in verifying'[n] : S \cap validated'[n] = {}
    BY <1>4, <1>6, <2>2
  <2>5. \A S, T \in verifying'[n] : S # T => S \cap T = {}
    BY <1>4, <1>6, <2>2
  <2> QED BY <1>4, <1>6, <2>3, <2>4, <2>5
<1> QED BY <1>5, <1>6

LEMMA GateStep == TypeOK /\ GateInv /\ [Next]_vars => GateInv'
<1> SUFFICES ASSUME TypeOK, GateInv, [Next]_vars PROVE GateInv'
  OBVIOUS
<1>1. ASSUME UNCHANGED <<phase, identities, buckets, held, validated, verifying>> PROVE GateInv'
  BY <1>1 DEF GateInv
<1>2. CASE UNCHANGED vars
  BY <1>1, <1>2 DEF vars, slotVars
<1>3. ASSUME NEW n \in Node, SlotStart(n) \/ SlotEnd(n) PROVE GateInv'
  <2>1. CASE SlotStart(n)
    <3>1. /\ phase[n] # "closed" /\ phase' = [phase EXCEPT ![n] = "open"]
          /\ UNCHANGED <<buckets, held, validated, verifying>>
      BY <2>1 DEF SlotStart, slotVars
    <3>2. \A m \in Node : phase'[m] # "closed" => phase[m] # "closed"
      BY <3>1 DEF TypeOK
    <3> QED BY <3>1, <3>2 DEF GateInv
  <2>2. CASE SlotEnd(n)
    <3>1. /\ phase' = [phase EXCEPT ![n] = "closed"]
          /\ buckets' = [buckets EXCEPT ![n] = {}]
          /\ held' = [held EXCEPT ![n] = {}]
          /\ validated' = [validated EXCEPT ![n] = {}]
          /\ verifying' = verifying
      BY <2>2 DEF SlotEnd
    <3>2. \A m \in Node : phase'[m] # "closed" =>
            /\ phase[m] # "closed" /\ buckets'[m] = buckets[m]
            /\ held'[m] = held[m] /\ validated'[m] = validated[m]
      BY <3>1 DEF TypeOK
    <3> QED BY <3>1, <3>2 DEF GateInv
  <2> QED BY <1>3, <2>1, <2>2
<1>4. ASSUME NEW n \in Node, NodeStep(n) PROVE GateInv'
  BY <1>1, <1>3, <1>4, HeldKept, GatePublish, GateReceive, GateValidate DEF NodeStep
<1>5. ASSUME NEW n \in Node, TickStep(n) PROVE GateInv'
  BY <1>1, <1>5, HeldKept DEF TickStep
<1> QED BY <1>2, <1>4, <1>5 DEF Next

(* Until a node ends the slot, everything it holds is validated or in exactly one
   submission to the verifier, whatever it publishes itself and however often it
   receives it: nothing is verified twice, and nothing waits for no answer. *)
THEOREM HeldIsWithVerifier == Spec => []GateInv
<1>1. Init => GateInv
  BY DEF Init, GateInv, DataOf
<1> QED BY <1>1, GateStep, TypesOfPartial, PTL DEF Spec

-----------------------------------------------------------------------------
(* When a link is at rest *)

(* A mesh peer to which nothing is left to send, with nothing on its way to it and
   nothing at its verifier, lacks no validated attestation, save those that were
   forwarded as often as they may be. *)
MeshAgrees ==
  StartPhase # "away" =>
    \A n \in Gossiping : \A p \in MeshPeers(n) :
      /\ phase[p] # "closed"
      /\ Sendable(n, p) = {} /\ chan[n][p] = <<>> /\ verifying[p] = {}
      => \A x \in validated[n] : x \in validated[p] \/ sendCount[n][x] = MaxPeersPerAttestation

(* The push over the mesh is complete: what a tick drained and the network has
   delivered is what the peer has, so that no sequence of ticks, crossing batches
   and late answers of the verifier leaves two mesh peers apart for good. *)
THEOREM MeshAgreesAtRest == Spec => []MeshAgrees
<1>1. /\ TypeOK /\ SendsCounted /\ KnownOrOnItsWay /\ GateInv
      => MeshAgrees
  <2> SUFFICES ASSUME TypeOK, SendsCounted, KnownOrOnItsWay, GateInv, StartPhase # "away",
                      NEW n \in Gossiping, NEW p \in MeshPeers(n),
                      phase[p] # "closed", Sendable(n, p) = {}, chan[n][p] = <<>>,
                      verifying[p] = {}, NEW x \in validated[n]
               PROVE  x \in validated[p] \/ sendCount[n][x] = MaxPeersPerAttestation
    BY DEF MeshAgrees
  <2>1. n \in Node /\ p \in Gossiping /\ p \in Node
    BY MeshAssumption DEF MeshPeers, Gossiping
  <2>2. x \in Attestation /\ sendCount[n][x] \in Nat
    BY <2>1 DEF TypeOK
  <2>3. sendCount[n][x] <= MaxPeersPerAttestation
    BY <2>1, <2>2 DEF SendsCounted
  <2>4. CASE x \in available[n][p]
    <3>1. available[n][p] \subseteq
            held[p] \cup UNION {chan[n][p][i].sent : i \in 1 .. Len(chan[n][p])}
      BY <2>1 DEF KnownOrOnItsWay
    <3>2. UNION {chan[n][p][i].sent : i \in 1 .. Len(chan[n][p])} = {}
      OBVIOUS
    <3>3. held[p] = validated[p] \cup UNION verifying[p]
      BY <2>1 DEF GateInv
    <3>4. UNION verifying[p] = {}
      OBVIOUS
    <3> QED BY <2>4, <3>1, <3>2, <3>3, <3>4
  <2>5. CASE x \notin available[n][p]
    <3>1. ~(sendCount[n][x] < MaxPeersPerAttestation)
      BY <2>5 DEF Sendable
    <3> QED BY <2>2, <2>3, <3>1, LimitAssumption
  <2> QED BY <2>4, <2>5
<1> QED BY <1>1, TypesOfPartial, SendsAreCounted, KnowledgeIsTrue, HeldIsWithVerifier, PTL

(* When nothing is on its way between two nodes, and the one asked has no tick due
   for the other, what was requested was received, or came when it had been
   forwarded as often as it may be. *)
RequestsAnswered ==
  StartPhase # "away" =>
    \A n, p \in Gossiping :
      /\ phase[n] # "closed" /\ phase[p] # "closed"
      /\ chan[n][p] = <<>> /\ chan[p][n] = <<>> /\ n \notin gossip[p]
      => \A x \in sentRequests[n][p] : x \in held[n] \/ sendCount[p][x] = MaxPeersPerAttestation

(* A request is made once: it is not forgotten on either side, by the tick that
   voids what it served or by the heartbeat that comes in between. *)
THEOREM RequestsAnsweredAtRest == Spec => []RequestsAnswered
<1>1. KnownOrOnItsWay /\ GossipNotLost => RequestsAnswered
  <2> SUFFICES ASSUME KnownOrOnItsWay, GossipNotLost, StartPhase # "away",
                      NEW n \in Gossiping, NEW p \in Gossiping,
                      phase[n] # "closed", phase[p] # "closed",
                      chan[n][p] = <<>>, chan[p][n] = <<>>, n \notin gossip[p],
                      NEW x \in sentRequests[n][p]
               PROVE  x \in held[n] \/ sendCount[p][x] = MaxPeersPerAttestation
    BY DEF RequestsAnswered
  <2>1. x \in available[p][n] \/ sendCount[p][x] = MaxPeersPerAttestation
    <3>1. \/ \E i \in 1 .. Len(chan[n][p]) : x \in chan[n][p][i].requests
          \/ x \in pendingWant[p][n] /\ n \in gossip[p]
          \/ x \in available[p][n]
          \/ sendCount[p][x] = MaxPeersPerAttestation
      BY DEF GossipNotLost
    <3>2. ~ \E i \in 1 .. Len(chan[n][p]) : x \in chan[n][p][i].requests
      OBVIOUS
    <3> QED BY <3>1, <3>2
  <2>2. available[p][n] \subseteq
          held[n] \cup UNION {chan[p][n][i].sent : i \in 1 .. Len(chan[p][n])}
    BY DEF KnownOrOnItsWay
  <2>3. UNION {chan[p][n][i].sent : i \in 1 .. Len(chan[p][n])} = {}
    OBVIOUS
  <2> QED BY <2>1, <2>2, <2>3
<1> QED BY <1>1, KnowledgeIsTrue, GossipIsNotLost, PTL

-----------------------------------------------------------------------------
(* The abstract specification *)

Sourced(x) == \E m \in Node : x \in published[m]

(* What is held or on its way was published by somebody. *)
SourcesInv ==
  /\ \A n, p \in Node : \A i \in 1 .. Len(chan[n][p]) : \A x \in chan[n][p][i].sent : Sourced(x)
  /\ \A n \in Node : \A x \in held[n] : Sourced(x)

LEMMA SourcedMeans == \A x : Sourced(x) <=> x \in Disseminated!Everything
BY DEF Sourced, Disseminated!Everything

(* Steps that forget no publication, and send or file only what has one. *)
LEMMA SourcesKept ==
  ASSUME TypeOK, SourcesInv,
         \A n \in Node : published[n] \subseteq published'[n],
         \A n, p \in Node :
           \/ chan'[n][p] = chan[n][p]
           \/ chan[n][p] # <<>> /\ chan'[n][p] = Tail(chan[n][p])
           \/ \E rpc \in RPC : /\ chan'[n][p] = Sent(chan[n][p], rpc)
                               /\ \A x \in rpc.sent : Sourced(x)',
         \A n \in Node : \A x \in held'[n] : x \in held[n] \/ Sourced(x)'
  PROVE  SourcesInv'
<1>1. \A x : Sourced(x) => Sourced(x)'
  BY DEF Sourced
<1>2. \A n \in Node : \A x \in held'[n] : Sourced(x)'
  BY <1>1 DEF SourcesInv
<1>3. ASSUME NEW n \in Node, NEW p \in Node, NEW i \in 1 .. Len(chan'[n][p]),
             NEW x \in chan'[n][p][i].sent
      PROVE  Sourced(x)'
  <2>1. chan[n][p] \in Seq(RPC)
    BY DEF TypeOK
  <2>2. \A j \in 1 .. Len(chan[n][p]) : \A y \in chan[n][p][j].sent : Sourced(y)
    BY DEF SourcesInv
  <2>3. CASE chan'[n][p] = chan[n][p]
    BY <1>1, <1>3, <2>2, <2>3
  <2>4. CASE chan[n][p] # <<>> /\ chan'[n][p] = Tail(chan[n][p])
    <3>1. chan'[n][p][i] = chan[n][p][i + 1] /\ i + 1 \in 1 .. Len(chan[n][p])
      BY <1>3, <2>1, <2>4, TailOf
    <3>2. Sourced(x)
      BY <1>3, <2>2, <3>1
    <3> QED BY <1>1, <3>2
  <2>5. ASSUME NEW rpc \in RPC, chan'[n][p] = Sent(chan[n][p], rpc), \A y \in rpc.sent : Sourced(y)'
        PROVE  Sourced(x)'
    <3>1. \/ i \in 1 .. Len(chan[n][p]) /\ chan'[n][p][i] = chan[n][p][i]
          \/ chan'[n][p][i] = rpc
      BY <1>3, <2>1, <2>5, SentOf
    <3> QED BY <1>1, <1>3, <2>2, <2>5, <3>1
  <2> QED BY <2>3, <2>4, <2>5
<1> QED BY <1>2, <1>3 DEF SourcesInv

LEMMA SourcesFanout ==
  ASSUME TypeOK, SourcesInv, NEW n \in Node, NEW a \in Own[n], FanoutPublish(n, a)
  PROVE  SourcesInv'
<1> DEFINE rpc == [available |-> {}, requests |-> {}, metaFull |-> {},
                   sent |-> {a}, dataFull |-> {a[1]}]
<1>1. a \in Attestation /\ a[1] \in Data
  BY OwnAssumption DEF Attestation
<1>2. rpc \in RPC /\ rpc.sent = {a}
  BY <1>1 DEF RPC
<1>3. \A m, q \in Node : Sent(chan[m][q], rpc) = Append(chan[m][q], rpc)
  BY DEF Sent
<1> HIDE DEF rpc
<1>4. /\ chan' = [chan EXCEPT ![n] =
           [p \in Node |-> IF p \in FanoutPeers[n] THEN Append(@[p], rpc) ELSE @[p]]]
      /\ published' = [published EXCEPT ![n] = @ \cup {a}] /\ held' = held
  BY DEF FanoutPublish, slotVars, rpc
<1>5. \A m, q \in Node : chan'[m][q] = chan[m][q] \/ chan'[m][q] = Sent(chan[m][q], rpc)
  BY <1>3, <1>4 DEF TypeOK
<1>6. Sourced(a)' /\ \A m \in Node : published[m] \subseteq published'[m]
  <2>1. \A m \in Node : published'[m] = IF m = n THEN published[m] \cup {a} ELSE published[m]
    BY <1>4 DEF TypeOK
  <2> QED BY <2>1 DEF Sourced
<1> QED BY <1>2, <1>4, <1>5, <1>6, SourcesKept

LEMMA SourcesPublish ==
  ASSUME TypeOK, SourcesInv, NEW n \in Node, NEW a \in Own[n], PublishLocal(n, a)
  PROVE  SourcesInv'
<1>1. /\ published' = [published EXCEPT ![n] = @ \cup {a}]
      /\ held' = [held EXCEPT ![n] = @ \cup {a}] /\ chan' = chan
  BY DEF PublishLocal
<1>2. \A m \in Node : published'[m] = IF m = n THEN published[m] \cup {a} ELSE published[m]
  BY <1>1 DEF TypeOK
<1>3. \A m \in Node : held'[m] = IF m = n THEN held[m] \cup {a} ELSE held[m]
  BY <1>1 DEF TypeOK
<1>4. Sourced(a)' /\ \A m \in Node : published[m] \subseteq published'[m]
  BY <1>2 DEF Sourced
<1>5. \A m \in Node : \A x \in held'[m] : x \in held[m] \/ Sourced(x)'
  BY <1>3, <1>4
<1> QED BY <1>1, <1>4, <1>5, SourcesKept

(* What a node comes to hold by a message is new to it and was in the message. *)
LEMMA Files ==
  ASSUME TypeOK, NEW n \in Node, NEW p \in Node, OnIncomingRPC(n, p)
  PROVE  \E new \in SUBSET Head(chan[p][n]).sent :
           /\ new \cap held[n] = {} /\ held' = [held EXCEPT ![n] = @ \cup new]
           /\ phase[n] # "closed" /\ chan[p][n] # <<>>
           /\ chan' = [chan EXCEPT ![p][n] = Tail(@)]
           /\ UNCHANGED <<phase, published, validated>>
<1> DEFINE rpc == Head(chan[p][n])
           got == {a \in rpc.sent : a[1] \in identities[n] \cup rpc.metaFull \cup rpc.dataFull}
           new == got \ held[n]
<1>1. /\ held' = [held EXCEPT ![n] = @ \cup new]
      /\ phase[n] # "closed" /\ chan[p][n] # <<>>
      /\ chan' = [chan EXCEPT ![p][n] = Tail(@)]
      /\ UNCHANGED <<phase, published, validated>>
  BY DEF OnIncomingRPC, Known, AcceptsSlot
<1>2. new \in SUBSET rpc.sent /\ new \cap held[n] = {}
  OBVIOUS
<1> QED BY <1>1, <1>2

LEMMA SourcesReceive ==
  ASSUME TypeOK, SourcesInv, NEW n \in Node, NEW p \in Node, OnIncomingRPC(n, p)
  PROVE  SourcesInv'
<1>1. PICK new \in SUBSET Head(chan[p][n]).sent :
        /\ held' = [held EXCEPT ![n] = @ \cup new] /\ chan[p][n] # <<>>
        /\ chan' = [chan EXCEPT ![p][n] = Tail(@)] /\ published' = published
  BY Files
<1>2. \A x \in new : Sourced(x)
  <2>1. Head(chan[p][n]) = chan[p][n][1] /\ 1 \in 1 .. Len(chan[p][n])
    BY <1>1, TailOf DEF TypeOK
  <2> QED BY <1>1, <2>1 DEF SourcesInv
<1>3. \A x : Sourced(x) => Sourced(x)'
  BY <1>1 DEF Sourced
<1>4. \A m \in Node : held'[m] = IF m = n THEN held[m] \cup new ELSE held[m]
  BY <1>1 DEF TypeOK
<1>5. \A m, q \in Node : \/ chan'[m][q] = chan[m][q]
                         \/ chan[m][q] # <<>> /\ chan'[m][q] = Tail(chan[m][q])
  BY <1>1 DEF TypeOK
<1>6. \A m \in Node : \A x \in held'[m] : x \in held[m] \/ Sourced(x)'
  BY <1>2, <1>3, <1>4
<1> QED BY <1>1, <1>5, <1>6, SourcesKept

(* Actions that publish nothing. *)
LEMMA PublishedKept ==
  ASSUME NEW n, NEW p, NEW x, NEW y,
         \/ SlotStart(n) \/ SlotEnd(n) \/ DropRPC(n, p) \/ OnEmitGossip(n, x) \/ PublishTick(n)
         \/ MarkValidated(n, x) \/ SelectIWantTargets(n, p, y)
         \/ VisitPeer(n, p) \/ DrawChunk(n, p, y) \/ CloseTick(n)
  PROVE  published' = published
<1>1. CASE SlotStart(n) BY <1>1 DEF SlotStart
<1>2. CASE SlotEnd(n) BY <1>2 DEF SlotEnd
<1>3. CASE DropRPC(n, p) BY <1>3 DEF DropRPC
<1>4. CASE OnEmitGossip(n, x) BY <1>4 DEF OnEmitGossip
<1>5. CASE PublishTick(n) BY <1>5 DEF PublishTick
<1>6. CASE MarkValidated(n, x) BY <1>6 DEF MarkValidated
<1>7. CASE SelectIWantTargets(n, p, y) BY <1>7 DEF SelectIWantTargets
<1>8. CASE VisitPeer(n, p) BY <1>8 DEF VisitPeer
<1>9. CASE DrawChunk(n, p, y) BY <1>9 DEF DrawChunk, News
<1>10. CASE CloseTick(n) BY <1>10 DEF CloseTick
<1> QED BY <1>1, <1>2, <1>3, <1>4, <1>5, <1>6, <1>7, <1>8, <1>9, <1>10

LEMMA SourcesSpeak ==
  ASSUME TypeOK, HeldInv, SourcesInv, NEW n \in Node, Speaks(n), published' = published
  PROVE  SourcesInv'
<1>1. \A x : Sourced(x) => Sourced(x)'
  BY DEF Sourced
<1>2. ASSUME NEW m \in Node, NEW q \in Node
      PROVE  \/ chan'[m][q] = chan[m][q]
             \/ \E rpc \in RPC : /\ chan'[m][q] = Sent(chan[m][q], rpc)
                                 /\ \A x \in rpc.sent : Sourced(x)'
  <2>1. chan'[m][q] = chan[m][q]
        \/ \E rpc \in RPC : chan'[m][q] = Sent(chan[m][q], rpc) /\ rpc.sent \subseteq validated[m]
    BY DEF Speaks, Silent, Says
  <2>2. \A x \in validated[m] : Sourced(x)'
    BY <1>1 DEF HeldInv, SourcesInv
  <2> QED BY <2>1, <2>2
<1>3. held' = held
  BY DEF Speaks
<1> QED BY <1>2, <1>3, SourcesKept

LEMMA SourcesStep ==
  TypeOK /\ IndexInvariant /\ SendsCounted /\ HeldInv /\ SourcesInv /\ [Next]_vars => SourcesInv'
<1> SUFFICES ASSUME TypeOK, IndexInvariant, SendsCounted, HeldInv, SourcesInv, [Next]_vars
             PROVE  SourcesInv'
  OBVIOUS
<1>1. ASSUME UNCHANGED <<published, held, chan>> PROVE SourcesInv'
  BY <1>1 DEF SourcesInv, Sourced
<1>2. CASE UNCHANGED vars
  BY <1>1, <1>2 DEF vars, slotVars
<1>3. ASSUME NEW n \in Node, SlotStart(n) PROVE SourcesInv'
  BY <1>1, <1>3 DEF SlotStart, slotVars
<1>4. ASSUME NEW n \in Node, SlotEnd(n) PROVE SourcesInv'
  <2>1. held' = [held EXCEPT ![n] = {}] /\ UNCHANGED <<published, chan>>
    BY <1>4 DEF SlotEnd
  <2>2. \A m \in Node : held'[m] \subseteq held[m]
    BY <2>1 DEF TypeOK
  <2> QED BY <2>1, <2>2, SourcesKept
<1>5. ASSUME NEW n \in Node, NEW p \in Node, DropRPC(n, p) PROVE SourcesInv'
  <2>1. chan[p][n] # <<>> /\ chan' = [chan EXCEPT ![p][n] = Tail(@)] /\ UNCHANGED <<published, held>>
    BY <1>5 DEF DropRPC, slotVars
  <2>2. \A m, q \in Node : \/ chan'[m][q] = chan[m][q]
                           \/ chan[m][q] # <<>> /\ chan'[m][q] = Tail(chan[m][q])
    BY <2>1 DEF TypeOK
  <2> QED BY <2>1, <2>2, SourcesKept
<1>6. ASSUME NEW n \in Node, NEW atts, MarkValidated(n, atts) PROVE SourcesInv'
  BY <1>1, <1>6 DEF MarkValidated
<1>7. ASSUME NEW n \in Node, NEW x, OnEmitGossip(n, x) \/ PublishTick(n) PROVE SourcesInv'
  BY <1>1, <1>7 DEF OnEmitGossip, PublishTick, slotVars
<1>8. ASSUME NEW n \in Node, NodeStep(n) PROVE SourcesInv'
  BY <1>3, <1>4, <1>5, <1>6, <1>7, <1>8, SourcesPublish, SourcesFanout, SourcesReceive DEF NodeStep
<1>9. ASSUME NEW n \in Node, NEW p \in Node, NEW d, SelectIWantTargets(n, p, d) PROVE SourcesInv'
  BY <1>1, <1>9 DEF SelectIWantTargets
<1>10. ASSUME NEW n \in Node, TickStep(n) PROVE SourcesInv'
  <2>1. CASE \E p \in Node, d \in Data : SelectIWantTargets(n, p, d)
    BY <1>9, <2>1
  <2>2. ASSUME NEW p \in Node, VisitPeer(n, p) PROVE SourcesInv'
    <3>1. Speaks(n)
      BY <2>2, SpeaksVisit
    <3>2. published' = published
      BY <2>2 DEF VisitPeer
    <3> QED BY <3>1, <3>2, SourcesSpeak
  <2>3. ASSUME NEW p \in Node, NEW chunk, DrawChunk(n, p, chunk) PROVE SourcesInv'
    <3>1. Speaks(n)
      BY <2>3, SpeaksDraw
    <3>2. published' = published
      BY <2>3 DEF DrawChunk, News
    <3> QED BY <3>1, <3>2, SourcesSpeak
  <2>4. CASE CloseTick(n)
    <3>1. Speaks(n)
      BY <2>4, SpeaksClose
    <3>2. published' = published
      BY <2>4 DEF CloseTick
    <3> QED BY <3>1, <3>2, SourcesSpeak
  <2> QED BY <1>10, <2>1, <2>2, <2>3, <2>4 DEF TickStep
<1> QED BY <1>2, <1>8, <1>10 DEF Next

LEMMA SourcesHold == Spec => []SourcesInv
<1>1. Init => SourcesInv
  <2> SUFFICES ASSUME Init PROVE SourcesInv
    OBVIOUS
  <2>1. \A n, p \in Node : chan[n][p] = <<>> /\ held[n] = {}
    BY DEF Init
  <2> QED BY <2>1 DEF SourcesInv
<1> QED BY <1>1, SourcesStep, TypesOfPartial, IndexIsExact, SendsAreCounted, HeldHolds, PTL DEF Spec

(* A step that starts, ends, files or promotes nothing is none to the abstract
   specification. *)
LEMMA DissStutters ==
  ASSUME \A m \in Node : phase'[m] = "closed" <=> phase[m] = "closed",
         UNCHANGED <<published, held, validated>>
  PROVE  UNCHANGED Disseminated!dissVars
<1>1. {m \in Node : phase'[m] = "closed"} = {m \in Node : phase[m] = "closed"}
  OBVIOUS
<1> QED BY <1>1 DEF Disseminated!dissVars

LEMMA DissSlotEnd ==
  ASSUME TypeOK, NEW n \in Node, SlotEnd(n)
  PROVE  Disseminated!End(n)
<1>1. /\ phase[n] = "open" /\ phase' = [phase EXCEPT ![n] = "closed"]
      /\ held' = [held EXCEPT ![n] = {}]
      /\ validated' = [validated EXCEPT ![n] = {}]
      /\ published' = published
  BY DEF SlotEnd
<1>2. {m \in Node : phase'[m] = "closed"} = {m \in Node : phase[m] = "closed"} \cup {n}
  BY <1>1 DEF TypeOK
<1>3. n \notin {m \in Node : phase[m] = "closed"}
  BY <1>1
<1> QED BY <1>1, <1>2, <1>3 DEF Disseminated!End

LEMMA DissPublish ==
  ASSUME TypeOK, NEW n \in Node, NEW a \in Own[n], PublishLocal(n, a) \/ FanoutPublish(n, a)
  PROVE  Disseminated!Publish(n, a)
<1>1. CASE PublishLocal(n, a)
  <2>1. /\ n \notin Fanout /\ phase[n] = "open" /\ phase' = phase /\ a \in Own[n] \ published[n]
        /\ published' = [published EXCEPT ![n] = @ \cup {a}]
        /\ held' = [held EXCEPT ![n] = @ \cup {a}]
    BY <1>1 DEF PublishLocal
  <2>2. n \notin {m \in Node : phase[m] = "closed"}
    BY <2>1
  <2>3. CASE a \in held[n]
    <3>1. validated' = validated
      BY <1>1, <2>3 DEF PublishLocal
    <3>2. held' = held
      BY <2>1, <2>3 DEF TypeOK
    <3> QED BY <2>1, <2>2, <2>3, <3>1, <3>2 DEF Disseminated!Publish
  <2>4. CASE a \notin held[n]
    <3>1. validated' = [validated EXCEPT ![n] = @ \cup {a}]
      BY <1>1, <2>4 DEF PublishLocal
    <3> QED BY <2>1, <2>2, <2>4, <3>1 DEF Disseminated!Publish
  <2> QED BY <2>3, <2>4
<1>2. CASE FanoutPublish(n, a)
  <2>1. /\ n \in Fanout /\ phase[n] = "open" /\ a \in Own[n] \ published[n]
        /\ published' = [published EXCEPT ![n] = @ \cup {a}]
        /\ UNCHANGED <<phase, held, validated>>
    BY <1>2 DEF FanoutPublish, slotVars
  <2>2. n \notin {m \in Node : phase[m] = "closed"}
    BY <2>1
  <2> QED BY <2>1, <2>2 DEF Disseminated!Publish
<1> QED BY <1>1, <1>2

LEMMA DissReceive ==
  ASSUME TypeOK, SourcesInv, NEW n \in Node, NEW p \in Node, OnIncomingRPC(n, p)
  PROVE  \E S \in SUBSET Disseminated!Everything : Disseminated!Receive(n, S)
<1>1. PICK new \in SUBSET Head(chan[p][n]).sent :
        /\ new \cap held[n] = {} /\ held' = [held EXCEPT ![n] = @ \cup new]
        /\ phase[n] # "closed" /\ chan[p][n] # <<>>
        /\ UNCHANGED <<phase, published, validated>>
  BY Files
<1>2. new \in SUBSET Disseminated!Everything
  <2>1. Head(chan[p][n]) = chan[p][n][1] /\ 1 \in 1 .. Len(chan[p][n])
    BY <1>1, TailOf DEF TypeOK
  <2>2. \A x \in new : Sourced(x)
    BY <1>1, <2>1 DEF SourcesInv
  <2> QED BY <2>2, SourcedMeans
<1>3. n \notin {m \in Node : phase[m] = "closed"}
  BY <1>1
<1>4. new \subseteq Disseminated!Everything \ held[n]
  BY <1>1, <1>2
<1>5. Disseminated!Receive(n, new)
  BY <1>1, <1>3, <1>4 DEF Disseminated!Receive
<1> QED BY <1>2, <1>5

LEMMA DissValidate ==
  ASSUME TypeOK, HeldInv, GateInv, SourcesInv,
         NEW n \in Node, NEW atts \in verifying[n], MarkValidated(n, atts)
  PROVE  \/ UNCHANGED Disseminated!dissVars
         \/ \E S \in SUBSET Disseminated!Everything : Disseminated!Verify(n, S)
<1>1. /\ UNCHANGED <<phase, published, held>>
      /\ DataOf(atts) \subseteq buckets[n] => validated' = [validated EXCEPT ![n] = @ \cup atts]
      /\ ~(DataOf(atts) \subseteq buckets[n]) => validated' = validated
  BY DEF MarkValidated
<1>2. ASSUME validated' = validated PROVE UNCHANGED Disseminated!dissVars
  BY <1>1, <1>2, DissStutters
<1>3. CASE phase[n] = "closed"
  <2>1. buckets[n] = {}
    BY <1>3 DEF HeldInv
  <2>2. DataOf(atts) \subseteq buckets[n] => atts = {}
    BY <2>1 DEF DataOf
  <2>3. validated' = validated
    <3>1. validated \in [Node -> SUBSET Attestation]
      BY DEF TypeOK
    <3>2. CASE DataOf(atts) \subseteq buckets[n]
      <4>1. validated' = [validated EXCEPT ![n] = @ \cup {}]
        BY <1>1, <2>2, <3>2
      <4> QED BY <3>1, <4>1
    <3> QED BY <1>1, <3>2
  <2> QED BY <1>2, <2>3
<1>4. CASE phase[n] # "closed" /\ DataOf(atts) \subseteq buckets[n]
  <2>1. atts \subseteq held[n] \ validated[n]
    <3>1. atts \subseteq held[n] /\ atts \cap validated[n] = {}
      BY <1>4 DEF HeldInv, GateInv
    <3> QED BY <3>1
  <2>2. atts \in SUBSET Disseminated!Everything
    BY <2>1, SourcedMeans DEF SourcesInv
  <2>3. n \notin {m \in Node : phase[m] = "closed"}
    BY <1>4
  <2>4. {m \in Node : phase'[m] = "closed"} = {m \in Node : phase[m] = "closed"}
    BY <1>1
  <2>5. Disseminated!Verify(n, atts)
    BY <1>1, <1>4, <2>1, <2>3, <2>4 DEF Disseminated!Verify
  <2> QED BY <2>2, <2>5
<1> QED BY <1>1, <1>2, <1>3, <1>4

LEMMA DissStep ==
  TypeOK /\ HeldInv /\ GateInv /\ SourcesInv /\ [Next]_vars
    => [Disseminated!DissNext]_(Disseminated!dissVars)
<1> SUFFICES ASSUME TypeOK, HeldInv, GateInv, SourcesInv, [Next]_vars
             PROVE  Disseminated!DissNext \/ UNCHANGED Disseminated!dissVars
  OBVIOUS
<1>1. CASE UNCHANGED vars
  BY <1>1, DissStutters DEF vars, slotVars
<1>2. ASSUME NEW n \in Node, SlotStart(n) PROVE UNCHANGED Disseminated!dissVars
  <2>1. /\ phase[n] # "closed" /\ phase' = [phase EXCEPT ![n] = "open"]
        /\ UNCHANGED <<published, held, validated>>
    BY <1>2 DEF SlotStart, slotVars
  <2>2. \A m \in Node : phase'[m] = "closed" <=> phase[m] = "closed"
    BY <2>1 DEF TypeOK
  <2> QED BY <2>1, <2>2, DissStutters
<1>3. ASSUME NEW n \in Node, SlotEnd(n) PROVE Disseminated!DissNext
  BY <1>3, DissSlotEnd DEF Disseminated!DissNext
<1>4. ASSUME NEW n \in Node, NEW a \in Own[n], PublishLocal(n, a) \/ FanoutPublish(n, a)
      PROVE  Disseminated!DissNext
  BY <1>4, DissPublish DEF Disseminated!DissNext
<1>5. ASSUME NEW n \in Node, NEW p \in Node, OnIncomingRPC(n, p) PROVE Disseminated!DissNext
  BY <1>5, DissReceive DEF Disseminated!DissNext
<1>6. ASSUME NEW n \in Node, NEW atts \in verifying[n], MarkValidated(n, atts)
      PROVE  Disseminated!DissNext \/ UNCHANGED Disseminated!dissVars
  BY <1>6, DissValidate DEF Disseminated!DissNext
<1>7. ASSUME NEW n, NEW p, NEW x, NEW y,
             \/ DropRPC(n, p) \/ OnEmitGossip(n, x) \/ PublishTick(n)
             \/ SelectIWantTargets(n, p, y) \/ VisitPeer(n, p) \/ DrawChunk(n, p, y) \/ CloseTick(n)
      PROVE  UNCHANGED Disseminated!dissVars
  <2>1. UNCHANGED <<phase, held, validated>>
    BY <1>7, HeldKept
  <2>2. published' = published
    BY <1>7, PublishedKept
  <2> QED BY <2>1, <2>2, DissStutters
<1>8. ASSUME NEW n \in Node, NodeStep(n)
      PROVE  Disseminated!DissNext \/ UNCHANGED Disseminated!dissVars
  BY <1>2, <1>3, <1>4, <1>5, <1>6, <1>7, <1>8 DEF NodeStep
<1>9. ASSUME NEW n \in Node, TickStep(n) PROVE UNCHANGED Disseminated!dissVars
  BY <1>7, <1>9 DEF TickStep
<1> QED BY <1>1, <1>8, <1>9 DEF Next

(* Both strategies implement dissemination, in any network and with slots that
   start and end at any time: what a node holds was published by somebody, is
   verified once unless it is its own, and is gone for good when the slot ends
   (partial.go and partial_priority.go: publishLocal, onIncomingRPC, markValidated,
   SlotEnd). *)
THEOREM ImplementsDissemination == Spec => DissSpec
<1>1. Init => Disseminated!DissInit
  <2> SUFFICES ASSUME Init PROVE Disseminated!DissInit
    OBVIOUS
  <2>1. {n \in Node : phase[n] = "closed"} = {}
    BY FlagAssumption DEF Init
  <2> QED BY <2>1 DEF Init, Disseminated!DissInit
<1>2. Spec => [](TypeOK /\ HeldInv /\ GateInv /\ SourcesInv)
  BY TypesOfPartial, HeldHolds, HeldIsWithVerifier, SourcesHold, PTL
<1>3. Spec => Disseminated!DissInit /\ [][Disseminated!DissNext]_(Disseminated!dissVars)
  BY <1>1, <1>2, DissStep, PTL DEF Spec
<1> QED BY <1>3 DEF DissSpec, Disseminated!DissSpec
=============================================================================
