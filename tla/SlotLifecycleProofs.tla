------------------------ MODULE SlotLifecycleProofs ------------------------
(***************************************************************************)
(* Proofs about SlotLifecycle, for any data and positions, any number of   *)
(* slots, and streams of any length.                                       *)
(***************************************************************************)
EXTENDS SlotLifecycle, TLAPS

(* Where slots are: what is kept belongs to the slot that is open, or to the
   first one before it started; the peer is at most one ahead. *)
SlotInv ==
  /\ peerSlot <= DriverSlot + 1
  /\ \A k \in Kind : \A i \in 1 .. Len(stream[k]) : SlotOf[stream[k][i].data] <= peerSlot
  /\ \A p \in publishing : SlotOf[p[1]] <= DriverSlot
  /\ \A b \in buckets : /\ b[1] = highestClosedSlot + 1
                        /\ activeSlot = 0 => highestClosedSlot = 0
  /\ \A i \in 1 .. Len(verifying) :
       /\ verifying[i].slot <= highestClosedSlot + 1
       /\ verifying[i].slot = highestClosedSlot + 1 /\ activeSlot = 0 => highestClosedSlot = 0

(* VerifiedOnce position by position. *)
InVerifier(s, d, pos) ==
  \E i \in 1 .. Len(verifying) :
    verifying[i].slot = s /\ verifying[i].data = d /\ pos \in verifying[i].positions

OnceInv ==
  /\ \A s \in Slot, d \in Data : validated[s][d] \subseteq atts[s][d]
  /\ \A i \in 1 .. Len(verifying) : verifying[i].slot > highestClosedSlot =>
       verifying[i].positions \subseteq
         atts[verifying[i].slot][verifying[i].data] \ validated[verifying[i].slot][verifying[i].data]
  /\ \A s \in Slot, d \in Data : s > highestClosedSlot =>
       \A pos \in atts[s][d] \ validated[s][d] : InVerifier(s, d, pos)
  /\ \A i, j \in 1 .. Len(verifying) :
       /\ i # j /\ verifying[i].slot > highestClosedSlot
       /\ verifying[i].slot = verifying[j].slot /\ verifying[i].data = verifying[j].data
       => verifying[i].positions \cap verifying[j].positions = {}

(* On a stream read by one who knows I: hashes can be resolved, and what was
   named in full, N, is known or on its way.  Data with a bucket is known. *)
Res(q, I) ==
  \A i \in 1 .. Len(q) :
    q[i].full \/ q[i].data \in I \/ \E j \in 1 .. i - 1 : q[j].full /\ q[j].data = q[i].data

Covers(q, I, N) == \A d \in N : d \in I \/ \E i \in 1 .. Len(q) : q[i].full /\ q[i].data = d

HashInv ==
  /\ Res(stream["push"], identities) /\ Covers(stream["push"], identities, named["push"])
  /\ Res(stream["bitmap"], identities \cup dropped)
  /\ Covers(stream["bitmap"], identities \cup dropped, named["bitmap"])
  /\ \A b \in buckets : b[2] \in identities

-----------------------------------------------------------------------------
(* Types *)

(* A node that has not started has the types. *)
LEMMA InitTypes == Init => TypeOK
BY SlotAssumption DEF Init, TypeOK, Slot

(* Adding positions to one bucket changes no other. *)
LEMMA AddPositions ==
  ASSUME NEW f \in [Slot -> [Data -> SUBSET Position]],
         NEW s \in Slot, NEW d \in Data, NEW P \in SUBSET Position,
         NEW g, g = [f EXCEPT ![s][d] = @ \cup P]
  PROVE  /\ g \in [Slot -> [Data -> SUBSET Position]]
         /\ g[s][d] = f[s][d] \cup P
         /\ \A t \in Slot, e \in Data : /\ f[t][e] \subseteq g[t][e]
                                        /\ ~(t = s /\ e = d) => g[t][e] = f[t][e]
<1>1. /\ g \in [Slot -> [Data -> SUBSET Position]]
      /\ g[s][d] = f[s][d] \cup P
      /\ \A t \in Slot, e \in Data : ~(t = s /\ e = d) => g[t][e] = f[t][e]
  OBVIOUS
<1> QED BY <1>1

(* Entering a batch in the bucket it makes keeps the types. *)
LEMMA AddReceivedTypes ==
  ASSUME TypeOK, NEW s \in Slot, NEW d \in Data, NEW positions \in SUBSET Position,
         AddReceived(s, d, positions)
  PROVE  /\ buckets' \subseteq Slot \X Data
         /\ atts' \in [Slot -> [Data -> SUBSET Position]]
         /\ verifying' \in Seq(Submission)
         /\ \A t \in Slot, e \in Data : atts'[t][e] # {} => <<t, e>> \in buckets'
<1> DEFINE new == positions \ atts[s][d]
<1>1. [slot |-> s, data |-> d, positions |-> new] \in Submission
  BY DEF Submission, TypeOK
<1>2. verifying' \in Seq(Submission)
  BY <1>1 DEF TypeOK, AddReceived
<1> QED BY <1>2 DEF TypeOK, AddReceived

(* What is read is data of some slot. *)
LEMMA HeadTypes ==
  ASSUME TypeOK, NEW k \in Kind, stream[k] # <<>>
  PROVE  /\ Head(stream[k]) \in Item /\ Head(stream[k]) = stream[k][1]
         /\ 1 \in 1 .. Len(stream[k])
         /\ Head(stream[k]).data \in Data /\ Head(stream[k]).full \in BOOLEAN
         /\ Head(stream[k]).positions \in SUBSET Position
         /\ SlotOf[Head(stream[k]).data] \in Slot
         /\ [stream EXCEPT ![k] = Tail(@)] \in [Kind -> Seq(Item)]
<1>1. Head(stream[k]) \in Item /\ Tail(stream[k]) \in Seq(Item)
      /\ Head(stream[k]) = stream[k][1] /\ 1 \in 1 .. Len(stream[k])
  BY DEF TypeOK
<1> QED BY <1>1, SlotAssumption DEF Item, TypeOK

(* The slots a batch may be filed under, as far as they are accepted. *)
LEMMA FiledSlot ==
  ASSUME TypeOK, NEW d \in Data, NEW s \in SlotForHash(d), AcceptsSlot(s)
  PROVE  /\ s \in Slot
         /\ (\E b \in buckets : b[1] = s) \/ s = activeSlot \/ (~LifecycleStarted /\ s = 1)
<1> DEFINE known == {t \in Slot : <<t, d>> \in buckets}
<1>1. CASE known # {}
  <2>1. s \in Slot /\ <<s, d>> \in buckets
    BY <1>1 DEF SlotForHash
  <2>2. <<s, d>>[1] = s
    OBVIOUS
  <2> QED BY <2>1, <2>2
<1>2. CASE known = {}
  <2>1. s = IF LifecycleStarted THEN activeSlot ELSE 1
    BY <1>2 DEF SlotForHash
  <2>2. s \in Slot
    BY <2>1, SlotAssumption DEF TypeOK, AcceptsSlot, Slot
  <2> QED BY <2>1, <2>2
<1> QED BY <1>1, <1>2

(* A batch that is read keeps the types. *)
LEMMA InboundDataTypes == ASSUME TypeOK, OnInboundData PROVE TypeOK'
<1> DEFINE batch == Head(stream["push"])
<1>1. "push" \in Kind /\ stream["push"] # <<>>
  BY DEF OnInboundData, Kind
<1>2. /\ batch.data \in Data /\ batch.positions \in SUBSET Position
      /\ stream' \in [Kind -> Seq(Item)]
  BY <1>1, HeadTypes DEF OnInboundData
<1>3. CASE UNCHANGED <<identities, buckets, atts, verifying>>
  BY <1>2, <1>3 DEF TypeOK, OnInboundData, ownVars, peerVars
<1>4. CASE \E s \in SlotForHash(batch.data) : AcceptsSlot(s) /\ AddReceived(s, batch.data, batch.positions)
  <2>1. PICK s \in SlotForHash(batch.data) :
          AcceptsSlot(s) /\ AddReceived(s, batch.data, batch.positions)
    BY <1>4
  <2>2. s \in Slot
    BY <1>2, <2>1, FiledSlot
  <2>3. /\ buckets' \subseteq Slot \X Data
        /\ atts' \in [Slot -> [Data -> SUBSET Position]]
        /\ verifying' \in Seq(Submission)
        /\ \A t \in Slot, e \in Data : atts'[t][e] # {} => <<t, e>> \in buckets'
    BY <1>2, <2>1, <2>2, AddReceivedTypes
  <2>4. identities' \subseteq Data
    BY <1>2 DEF TypeOK, OnInboundData
  <2> QED BY <1>2, <2>3, <2>4 DEF TypeOK, OnInboundData, ownVars, peerVars
<1>5. CASE /\ identities' = identities \cup {batch.data}
           /\ UNCHANGED <<buckets, atts, verifying>>
  BY <1>2, <1>5 DEF TypeOK, OnInboundData, ownVars, peerVars
<1> QED BY <1>3, <1>4, <1>5 DEF OnInboundData

(* Every step keeps the types. *)
LEMMA NextTypeOK == TypeOK /\ [Next]_vars => TypeOK'
<1> SUFFICES ASSUME TypeOK, [Next]_vars PROVE TypeOK'
  OBVIOUS
<1>1. ASSUME NEW s \in Slot, SlotStart(s) PROVE TypeOK'
  BY <1>1, SlotAssumption DEF TypeOK, SlotStart, Forget, Slot, ownVars, peerVars
<1>2. ASSUME NEW s \in Slot, SlotEnd(s) PROVE TypeOK'
  BY <1>2, SlotAssumption DEF TypeOK, SlotEnd, Forget, Slot, ownVars, peerVars
<1>3. ASSUME NEW d \in Data, NEW pos \in Position, PublishLocal(d, pos) PROVE TypeOK'
  <2>1. publishing' \subseteq Data \X Position /\ publishedIn' \subseteq Slot
    <3>1. <<d, pos>> \in Data \X Position /\ SlotOf[d] \in Slot
      BY SlotAssumption
    <3> QED BY <1>3, <3>1 DEF TypeOK, PublishLocal
  <2> QED BY <1>3, <2>1 DEF TypeOK, PublishLocal, slotVars, peerVars
<1>4. ASSUME NEW d \in Data, NEW pos \in Position, OnPublishLocal(d, pos) PROVE TypeOK'
  <2>1. SlotOf[d] \in Slot
    BY SlotAssumption
  <2>2. CASE AcceptsSlot(SlotOf[d])
    <3>1. /\ buckets' = buckets \cup {<<SlotOf[d], d>>}
          /\ identities' = identities \cup {d}
          /\ publishing' = publishing \ {<<d, pos>>}
          /\ atts' = [atts EXCEPT ![SlotOf[d]][d] = @ \cup {pos}]
          /\ \/ validated' = validated
             \/ validated' = [validated EXCEPT ![SlotOf[d]][d] = @ \cup {pos}]
      BY <1>4, <2>2 DEF OnPublishLocal
    <3>2. /\ atts' \in [Slot -> [Data -> SUBSET Position]]
          /\ \A t \in Slot, e \in Data : atts'[t][e] # {} => <<t, e>> \in buckets'
      BY <2>1, <3>1, AddPositions DEF TypeOK
    <3>3. validated' \in [Slot -> [Data -> SUBSET Position]]
      <4>1. validated \in [Slot -> [Data -> SUBSET Position]] /\ {pos} \in SUBSET Position
        BY DEF TypeOK
      <4>2. CASE validated' = [validated EXCEPT ![SlotOf[d]][d] = @ \cup {pos}]
        BY <2>1, <4>1, <4>2, AddPositions
      <4> QED BY <3>1, <4>1, <4>2
    <3>4. /\ buckets' \subseteq Slot \X Data /\ identities' \subseteq Data
          /\ publishing' \subseteq Data \X Position
      BY <2>1, <3>1 DEF TypeOK
    <3> QED BY <1>4, <3>2, <3>3, <3>4 DEF TypeOK, OnPublishLocal, peerVars
  <2>3. CASE ~AcceptsSlot(SlotOf[d])
    BY <1>4, <2>3 DEF TypeOK, OnPublishLocal, slotVars, peerVars
  <2> QED BY <2>2, <2>3
<1>5. CASE OnInboundData
  BY <1>5, InboundDataTypes
<1>6. CASE OnInboundBitmap
  <2>1. "bitmap" \in Kind /\ stream["bitmap"] # <<>>
    BY <1>6 DEF OnInboundBitmap, Kind
  <2>2. /\ Head(stream["bitmap"]).data \in Data /\ SlotOf[Head(stream["bitmap"]).data] \in Slot
        /\ stream' \in [Kind -> Seq(Item)]
    BY <1>6, <2>1, HeadTypes DEF OnInboundBitmap
  <2>3. buckets' \subseteq Slot \X Data /\ buckets \subseteq buckets'
        /\ identities' \subseteq Data /\ dropped' \subseteq Data
    BY <1>6, <2>2 DEF TypeOK, OnInboundBitmap
  <2> QED BY <1>6, <2>2, <2>3 DEF TypeOK, OnInboundBitmap, ownVars, peerVars
<1>7. CASE OnValidated
  <2>1. Head(verifying) \in Submission /\ verifying' \in Seq(Submission)
    BY <1>7 DEF OnValidated, TypeOK
  <2>2. validated' \in [Slot -> [Data -> SUBSET Position]]
    BY <1>7, <2>1 DEF OnValidated, TypeOK, Submission
  <2> QED BY <1>7, <2>1, <2>2 DEF TypeOK, OnValidated, ownVars, peerVars
<1>8. ASSUME NEW k \in Kind, NEW d \in Data, NEW P \in SUBSET Position, PeerWrites(k, d, P)
      PROVE  TypeOK'
  <2>1. (d \notin named[k]) \in BOOLEAN
    OBVIOUS
  <2>2. [data |-> d, full |-> d \notin named[k], positions |-> P] \in Item
    BY <2>1, Zenon DEF Item
  <2>3. stream' \in [Kind -> Seq(Item)] /\ named' \in [Kind -> SUBSET Data]
    BY <1>8, <2>2 DEF PeerWrites, TypeOK
  <2> QED BY <1>8, <2>3 DEF TypeOK, PeerWrites, slotVars, ownVars
<1>9. CASE PeerSlotStart
  BY <1>9, SlotAssumption DEF TypeOK, PeerSlotStart, slotVars, ownVars
<1>10. CASE UNCHANGED vars
  BY <1>10 DEF TypeOK, vars, slotVars, ownVars, peerVars
<1> QED
  BY <1>1, <1>2, <1>3, <1>4, <1>5, <1>6, <1>7, <1>8, <1>9, <1>10 DEF Next, Kind

(* The variables keep their types; only buckets hold attestations. *)
THEOREM TypesOfSlots == Spec => []TypeOK
BY InitTypes, NextTypeOK, PTL DEF Spec

-----------------------------------------------------------------------------
(* Slots *)

(* The slot of a batch that is accepted is the first that is not closed. *)
LEMMA AcceptedIsNext ==
  ASSUME TypeOK, SlotInv, NEW d \in Data, NEW s \in SlotForHash(d), AcceptsSlot(s)
  PROVE  /\ s \in Slot /\ s = highestClosedSlot + 1
         /\ activeSlot = 0 => highestClosedSlot = 0
<1>1. /\ s \in Slot
      /\ (\E b \in buckets : b[1] = s) \/ s = activeSlot \/ (~LifecycleStarted /\ s = 1)
  BY FiledSlot
<1>2. s > highestClosedSlot /\ highestClosedSlot \in Nat /\ s # 0
      /\ (activeSlot # 0 => activeSlot = highestClosedSlot + 1)
  BY <1>1 DEF TypeOK, AcceptsSlot, Slot
<1>3. CASE \E b \in buckets : b[1] = s
  BY <1>1, <1>3 DEF SlotInv
<1>4. CASE s = activeSlot
  BY <1>1, <1>2, <1>4
<1>5. CASE ~LifecycleStarted /\ s = 1
  BY <1>1, <1>2, <1>5 DEF LifecycleStarted
<1> QED BY <1>1, <1>3, <1>4, <1>5

(* So is that of data the peer or the node itself has sent. *)
LEMMA OwnSlotIsNext ==
  ASSUME TypeOK, SlotInv, NEW d \in Data, SlotOf[d] <= DriverSlot + 1, AcceptsSlot(SlotOf[d])
  PROVE  /\ SlotOf[d] \in Slot /\ SlotOf[d] = highestClosedSlot + 1
         /\ activeSlot = 0 => highestClosedSlot = 0
BY SlotAssumption DEF TypeOK, AcceptsSlot, LifecycleStarted, DriverSlot, Slot

(* What AddReceived does to the verifier's queue. *)
LEMMA AddReceivedQueue ==
  ASSUME TypeOK, NEW s \in Slot, NEW d \in Data, NEW P \in SUBSET Position, AddReceived(s, d, P)
  PROVE  \/ P \subseteq atts[s][d] /\ verifying' = verifying
         \/ /\ Len(verifying') = Len(verifying) + 1 /\ Len(verifying) \in Nat
            /\ \A i \in 1 .. Len(verifying) : verifying'[i] = verifying[i]
            /\ verifying'[Len(verifying) + 1].slot = s
            /\ verifying'[Len(verifying) + 1].data = d
            /\ verifying'[Len(verifying) + 1].positions = P \ atts[s][d]
<1> DEFINE new == P \ atts[s][d]
<1>1. CASE new = {}
  BY <1>1 DEF AddReceived
<1>2. CASE new # {}
  <2>1. [slot |-> s, data |-> d, positions |-> new] \in Submission
    BY DEF Submission, TypeOK
  <2>2. verifying' = Append(verifying, [slot |-> s, data |-> d, positions |-> new])
    BY <1>2 DEF AddReceived
  <2>3. /\ Len(verifying') = Len(verifying) + 1 /\ Len(verifying) \in Nat
        /\ \A i \in 1 .. Len(verifying) : verifying'[i] = verifying[i]
        /\ verifying'[Len(verifying) + 1] = [slot |-> s, data |-> d, positions |-> new]
    BY <2>1, <2>2 DEF TypeOK
  <2> QED BY <2>3
<1> QED BY <1>1, <1>2

(* Reading a frame leaves those behind it. *)
LEMMA ReadLeaves ==
  ASSUME TypeOK, SlotInv, NEW k \in Kind, stream[k] # <<>>,
         stream' = [stream EXCEPT ![k] = Tail(@)], peerSlot' = peerSlot
  PROVE  \A l \in Kind : \A i \in 1 .. Len(stream'[l]) : SlotOf[stream'[l][i].data] <= peerSlot'
<1>1. /\ stream[k] \in Seq(Item) /\ Len(Tail(stream[k])) = Len(stream[k]) - 1
      /\ Len(stream[k]) \in Nat
      /\ \A i \in 1 .. Len(stream[k]) - 1 : Tail(stream[k])[i] = stream[k][i + 1]
  BY DEF TypeOK
<1>2. \A i \in 1 .. Len(Tail(stream[k])) : SlotOf[Tail(stream[k])[i].data] <= peerSlot
  BY <1>1 DEF SlotInv
<1>3. \A l \in Kind : stream'[l] = IF l = k THEN Tail(stream[k]) ELSE stream[l]
  BY DEF TypeOK
<1> QED BY <1>2, <1>3 DEF SlotInv

(* Nothing is kept yet. *)
LEMMA InitSlots == Init => SlotInv
BY DEF Init, SlotInv, DriverSlot

(* A batch is filed under the first slot that is not closed, or nowhere. *)
LEMMA InboundDataSlots == ASSUME TypeOK, SlotInv, OnInboundData PROVE SlotInv'
<1> DEFINE batch == Head(stream["push"])
<1>1. /\ "push" \in Kind /\ stream["push"] # <<>>
      /\ batch.data \in Data /\ batch.positions \in SUBSET Position
  BY HeadTypes DEF OnInboundData, Kind
<1>2. /\ UNCHANGED <<activeSlot, highestClosedSlot, publishing, peerSlot>>
      /\ stream' = [stream EXCEPT !["push"] = Tail(@)]
  BY DEF OnInboundData, ownVars, peerVars
<1>3. /\ peerSlot' <= DriverSlot' + 1
      /\ \A p \in publishing' : SlotOf[p[1]] <= DriverSlot'
      /\ \A k \in Kind : \A i \in 1 .. Len(stream'[k]) : SlotOf[stream'[k][i].data] <= peerSlot'
  BY <1>1, <1>2, ReadLeaves DEF SlotInv, DriverSlot
<1>4. CASE UNCHANGED <<buckets, verifying>>
  BY <1>2, <1>3, <1>4 DEF SlotInv
<1>5. CASE \E s \in SlotForHash(batch.data) : AcceptsSlot(s) /\ AddReceived(s, batch.data, batch.positions)
  <2>1. PICK s \in SlotForHash(batch.data) :
          AcceptsSlot(s) /\ AddReceived(s, batch.data, batch.positions)
    BY <1>5
  <2>2. s \in Slot /\ s = highestClosedSlot + 1 /\ (activeSlot = 0 => highestClosedSlot = 0)
    BY <1>1, <2>1, AcceptedIsNext
  <2>3. buckets' = buckets \cup {<<s, batch.data>>} /\ <<s, batch.data>>[1] = s
    BY <2>1 DEF AddReceived
  <2>4. \A b \in buckets' : /\ b[1] = highestClosedSlot + 1
                            /\ activeSlot = 0 => highestClosedSlot = 0
    BY <2>2, <2>3 DEF SlotInv
  <2>5. \A i \in 1 .. Len(verifying') :
          \/ verifying'[i].slot = s
          \/ i \in 1 .. Len(verifying) /\ verifying'[i] = verifying[i]
    BY <1>1, <2>1, <2>2, AddReceivedQueue
  <2>6. \A i \in 1 .. Len(verifying') :
          /\ verifying'[i].slot <= highestClosedSlot + 1
          /\ verifying'[i].slot = highestClosedSlot + 1 /\ activeSlot = 0 => highestClosedSlot = 0
    BY <2>2, <2>5 DEF SlotInv, Slot
  <2> QED BY <1>2, <1>3, <2>4, <2>6 DEF SlotInv
<1> QED BY <1>4, <1>5 DEF OnInboundData

(* Every step keeps the slots where they are. *)
LEMMA NextSlots == TypeOK /\ SlotInv /\ [Next]_vars => SlotInv'
<1> SUFFICES ASSUME TypeOK, SlotInv, [Next]_vars PROVE SlotInv'
  OBVIOUS
<1> USE DEF SlotInv
<1>1. ASSUME NEW s \in Slot, SlotStart(s) PROVE SlotInv'
  <2>1. /\ activeSlot = 0 /\ activeSlot' = highestClosedSlot + 1 /\ highestClosedSlot \in Nat
        /\ buckets' \subseteq buckets
        /\ UNCHANGED <<highestClosedSlot, publishing, verifying, stream, peerSlot>>
    BY <1>1 DEF TypeOK, SlotStart, Forget, ownVars, peerVars
  <2>2. DriverSlot' = DriverSlot + 1 /\ DriverSlot = highestClosedSlot
    BY <2>1 DEF DriverSlot
  <2>3. peerSlot \in Nat /\ peerSlot' <= DriverSlot' + 1
    BY <2>1, <2>2 DEF TypeOK
  <2>4. \A p \in publishing' : SlotOf[p[1]] <= DriverSlot'
    <3>1. ASSUME NEW p \in publishing PROVE SlotOf[p[1]] \in Nat
      BY SlotAssumption DEF TypeOK, Slot
    <3> QED BY <2>1, <2>2, <3>1
  <2> QED BY <2>1, <2>3, <2>4
<1>2. ASSUME NEW s \in Slot, SlotEnd(s) PROVE SlotInv'
  <2>1. /\ s # 0 /\ activeSlot = s /\ activeSlot' = 0 /\ highestClosedSlot' = s
        /\ s = highestClosedSlot + 1 /\ highestClosedSlot \in Nat
        /\ buckets' = {b \in buckets : b[1] \notin {s}}
        /\ UNCHANGED <<publishing, verifying, stream, peerSlot>>
    BY <1>2 DEF TypeOK, SlotEnd, Forget, Slot, ownVars, peerVars
  <2>2. DriverSlot' = DriverSlot
    BY <2>1 DEF DriverSlot
  <2>3. buckets' = {}
    BY <2>1
  <2>4. ASSUME NEW i \in 1 .. Len(verifying) PROVE verifying[i].slot <= highestClosedSlot' /\ verifying[i].slot \in Nat
    <3>1. verifying[i] \in Submission
      BY DEF TypeOK
    <3> QED BY <2>1, <3>1 DEF Submission, Slot
  <2> QED BY <2>1, <2>2, <2>3, <2>4
<1>3. ASSUME NEW d \in Data, NEW pos \in Position, PublishLocal(d, pos) PROVE SlotInv'
  <2>1. <<d, pos>>[1] = d /\ SlotOf[d] = activeSlot /\ SlotOf[d] # 0
    BY <1>3, SlotAssumption DEF PublishLocal, Slot
  <2>2. \A p \in publishing' : SlotOf[p[1]] <= DriverSlot'
    BY <1>3, <2>1 DEF PublishLocal, DriverSlot, TypeOK
  <2> QED BY <1>3, <2>2 DEF PublishLocal, slotVars, peerVars, DriverSlot
<1>4. ASSUME NEW d \in Data, NEW pos \in Position, OnPublishLocal(d, pos) PROVE SlotInv'
  <2>1. /\ publishing' \subseteq publishing /\ <<d, pos>>[1] = d /\ <<d, pos>> \in publishing
        /\ UNCHANGED <<activeSlot, highestClosedSlot, verifying, stream, peerSlot>>
    BY <1>4 DEF OnPublishLocal, peerVars
  <2>2. CASE AcceptsSlot(SlotOf[d])
    <3>1. SlotOf[d] <= DriverSlot + 1
      BY <2>1, SlotAssumption DEF DriverSlot, TypeOK, Slot
    <3>2. SlotOf[d] = highestClosedSlot + 1 /\ (activeSlot = 0 => highestClosedSlot = 0)
      BY <2>2, <3>1, OwnSlotIsNext
    <3>3. buckets' = buckets \cup {<<SlotOf[d], d>>} /\ <<SlotOf[d], d>>[1] = SlotOf[d]
      BY <1>4, <2>2 DEF OnPublishLocal
    <3> QED BY <2>1, <3>2, <3>3 DEF DriverSlot
  <2>3. CASE ~AcceptsSlot(SlotOf[d])
    BY <1>4, <2>1, <2>3 DEF OnPublishLocal, slotVars, DriverSlot
  <2> QED BY <2>2, <2>3
<1>5. CASE OnInboundData
  BY <1>5, InboundDataSlots
<1>6. CASE OnInboundBitmap
  <2> DEFINE md == Head(stream["bitmap"])
  <2>1. /\ "bitmap" \in Kind /\ stream["bitmap"] # <<>>
        /\ stream' = [stream EXCEPT !["bitmap"] = Tail(@)]
        /\ UNCHANGED <<activeSlot, highestClosedSlot, publishing, verifying, peerSlot>>
    BY <1>6 DEF OnInboundBitmap, Kind, ownVars, peerVars
  <2>2. md.data \in Data /\ md = stream["bitmap"][1] /\ 1 \in 1 .. Len(stream["bitmap"])
        /\ SlotOf[md.data] \in Slot
    BY <2>1, HeadTypes
  <2>3. \A k \in Kind : \A i \in 1 .. Len(stream'[k]) : SlotOf[stream'[k][i].data] <= peerSlot'
    BY <2>1, ReadLeaves
  <2>4. CASE buckets' = buckets
    BY <2>1, <2>3, <2>4 DEF DriverSlot
  <2>5. CASE AcceptsSlot(SlotOf[md.data]) /\ buckets' = buckets \cup {<<SlotOf[md.data], md.data>>}
    <3>1. SlotOf[md.data] <= DriverSlot + 1
      BY <2>1, <2>2 DEF DriverSlot, TypeOK, Slot
    <3>2. SlotOf[md.data] = highestClosedSlot + 1 /\ (activeSlot = 0 => highestClosedSlot = 0)
      BY <2>2, <2>5, <3>1, OwnSlotIsNext
    <3>3. <<SlotOf[md.data], md.data>>[1] = SlotOf[md.data]
      OBVIOUS
    <3> QED BY <2>1, <2>3, <2>5, <3>2, <3>3 DEF DriverSlot
  <2> QED BY <1>6, <2>4, <2>5 DEF OnInboundBitmap
<1>7. CASE OnValidated
  <2>1. /\ verifying # <<>> /\ verifying' = Tail(verifying) /\ verifying \in Seq(Submission)
        /\ UNCHANGED <<activeSlot, highestClosedSlot, buckets, publishing, stream, peerSlot>>
    BY <1>7 DEF OnValidated, TypeOK, ownVars, peerVars
  <2>2. /\ Len(verifying') = Len(verifying) - 1 /\ Len(verifying) \in Nat
        /\ \A i \in 1 .. Len(verifying) - 1 : verifying'[i] = verifying[i + 1]
    BY <2>1
  <2> QED BY <2>1, <2>2 DEF DriverSlot
<1>8. ASSUME NEW k \in Kind, NEW d \in Data, NEW P \in SUBSET Position, PeerWrites(k, d, P)
      PROVE  SlotInv'
  <2> DEFINE item == [data |-> d, full |-> d \notin named[k], positions |-> P]
  <2>1. /\ SlotOf[d] = peerSlot
        /\ stream' = [stream EXCEPT ![k] = Append(@, item)] /\ item.data = d
        /\ UNCHANGED <<activeSlot, highestClosedSlot, buckets, publishing, verifying, peerSlot>>
    BY <1>8 DEF PeerWrites, slotVars, ownVars
  <2>2. item \in Item
    <3>1. (d \notin named[k]) \in BOOLEAN
      OBVIOUS
    <3> QED BY <3>1, Zenon DEF Item
  <2> HIDE DEF item
  <2>3. /\ \A i \in 1 .. Len(stream'[k]) :
             \/ stream'[k][i] = item
             \/ i \in 1 .. Len(stream[k]) /\ stream'[k][i] = stream[k][i]
        /\ \A l \in Kind \ {k} : stream'[l] = stream[l]
    <3>1. /\ stream'[k] = Append(stream[k], item)
          /\ \A l \in Kind \ {k} : stream'[l] = stream[l]
      BY <2>1 DEF TypeOK
    <3>2. /\ stream[k] \in Seq(Item) /\ Len(stream[k]) \in Nat
          /\ Len(Append(stream[k], item)) = Len(stream[k]) + 1
          /\ \A i \in 1 .. Len(stream[k]) : Append(stream[k], item)[i] = stream[k][i]
          /\ Append(stream[k], item)[Len(stream[k]) + 1] = item
      BY <2>2 DEF TypeOK
    <3> QED BY <3>1, <3>2
  <2>4. \A l \in Kind : \A i \in 1 .. Len(stream'[l]) : SlotOf[stream'[l][i].data] <= peerSlot'
    BY <2>1, <2>3 DEF TypeOK
  <2> QED BY <2>1, <2>4 DEF DriverSlot
<1>9. CASE PeerSlotStart
  <2>1. \A k \in Kind : \A i \in 1 .. Len(stream[k]) : SlotOf[stream[k][i].data] \in Nat
    <3>1. ASSUME NEW k \in Kind, NEW i \in 1 .. Len(stream[k])
          PROVE  SlotOf[stream[k][i].data] \in Nat
      <4>1. stream[k][i] \in Item
        BY DEF TypeOK
      <4> QED BY <4>1, SlotAssumption DEF Item, Slot
    <3> QED BY <3>1
  <2> QED BY <1>9, <2>1 DEF PeerSlotStart, slotVars, ownVars, DriverSlot, TypeOK
<1>10. CASE UNCHANGED vars
  BY <1>10 DEF vars, slotVars, ownVars, peerVars, DriverSlot
<1> QED
  BY <1>1, <1>2, <1>3, <1>4, <1>5, <1>6, <1>7, <1>8, <1>9, <1>10 DEF Next, Kind

(* Whatever arrives late, only the slot that is open, or the first one before it
   starts, has state. *)
THEOREM SlotsInOrder == Spec => []SlotInv
BY InitTypes, NextTypeOK, InitSlots, NextSlots, PTL DEF Spec

(* acceptsSlot and onSlotEnd: a closed slot never has state again. *)
THEOREM ClosedSlotsEmpty == Spec => []ClosedSlotsStayEmpty
<1>1. TypeOK /\ SlotInv => ClosedSlotsStayEmpty
  BY DEF TypeOK, SlotInv, ClosedSlotsStayEmpty
<1> QED BY <1>1, TypesOfSlots, SlotsInOrder, PTL

-----------------------------------------------------------------------------
(* What is not closed is kept *)

(* eventloop.go only ever drops slots that are closed, or older than the one that
   starts: whatever was there before SlotStart stays. *)
THEOREM SlotsGrow == Spec => SlotsOnlyGrow
<1> DEFINE Grow == \A s \in Slot, d \in Data : s > highestClosedSlot' =>
                     /\ <<s, d>> \in buckets => <<s, d>> \in buckets'
                     /\ atts[s][d] \subseteq atts'[s][d]
                     /\ validated[s][d] \subseteq validated'[s][d]
<1>1. ASSUME TypeOK, [Next]_vars PROVE Grow
  <2>1. ASSUME NEW s \in Slot, SlotStart(s) PROVE Grow
    BY <1>1, <2>1 DEF SlotStart, Forget, TypeOK, Slot
  <2>2. ASSUME NEW s \in Slot, SlotEnd(s) PROVE Grow
    BY <1>1, <2>2 DEF SlotEnd, Forget, TypeOK, Slot
  <2>3. ASSUME NEW d \in Data, NEW pos \in Position, OnPublishLocal(d, pos) PROVE Grow
    <3>1. SlotOf[d] \in Slot /\ {pos} \in SUBSET Position
          /\ atts \in [Slot -> [Data -> SUBSET Position]]
          /\ validated \in [Slot -> [Data -> SUBSET Position]]
      BY <1>1, SlotAssumption DEF TypeOK
    <3>2. CASE UNCHANGED slotVars
      BY <3>2 DEF slotVars
    <3>3. CASE /\ buckets \subseteq buckets'
               /\ atts' = [atts EXCEPT ![SlotOf[d]][d] = @ \cup {pos}]
               /\ \/ validated' = validated
                  \/ validated' = [validated EXCEPT ![SlotOf[d]][d] = @ \cup {pos}]
      <4>1. \A s \in Slot, e \in Data : atts[s][e] \subseteq atts'[s][e]
        BY <3>1, <3>3, AddPositions
      <4>2. \A s \in Slot, e \in Data : validated[s][e] \subseteq validated'[s][e]
        <5>1. CASE validated' = [validated EXCEPT ![SlotOf[d]][d] = @ \cup {pos}]
          BY <3>1, <5>1, AddPositions
        <5> QED BY <3>3, <5>1
      <4> QED BY <3>3, <4>1, <4>2
    <3> QED BY <2>3, <3>2, <3>3 DEF OnPublishLocal
  <2>4. CASE OnInboundData
    <3> DEFINE batch == Head(stream["push"])
    <3>1. batch.data \in Data /\ batch.positions \in SUBSET Position
          /\ validated' = validated
      BY <1>1, <2>4, HeadTypes DEF OnInboundData, Kind
    <3>2. CASE UNCHANGED <<buckets, atts>>
      BY <3>1, <3>2
    <3>3. ASSUME NEW s \in SlotForHash(batch.data), AcceptsSlot(s),
                 AddReceived(s, batch.data, batch.positions)
          PROVE  Grow
      <4>1. s \in Slot /\ atts \in [Slot -> [Data -> SUBSET Position]]
        BY <1>1, <3>1, <3>3, FiledSlot DEF TypeOK
      <4>2. buckets \subseteq buckets' /\ atts' = [atts EXCEPT ![s][batch.data] = @ \cup batch.positions]
        BY <3>3 DEF AddReceived
      <4>3. \A t \in Slot, e \in Data : atts[t][e] \subseteq atts'[t][e]
        BY <3>1, <4>1, <4>2, AddPositions
      <4> QED BY <3>1, <4>2, <4>3
    <3> QED BY <2>4, <3>2, <3>3 DEF OnInboundData
  <2>5. CASE OnInboundBitmap
    BY <2>5 DEF OnInboundBitmap
  <2>6. CASE OnValidated
    <3> DEFINE v == Head(verifying)
    <3>1. v.slot \in Slot /\ v.data \in Data /\ v.positions \in SUBSET Position
          /\ validated \in [Slot -> [Data -> SUBSET Position]]
      <4>1. v \in Submission
        BY <1>1, <2>6 DEF OnValidated, TypeOK
      <4> QED BY <1>1, <4>1 DEF TypeOK, Submission
    <3>2. CASE validated' = validated
      BY <2>6, <3>2 DEF OnValidated
    <3>3. CASE validated' = [validated EXCEPT ![v.slot][v.data] = @ \cup v.positions]
      <4>1. \A s \in Slot, e \in Data : validated[s][e] \subseteq validated'[s][e]
        BY <3>1, <3>3, AddPositions
      <4> QED BY <2>6, <4>1 DEF OnValidated
    <3> QED BY <2>6, <3>2, <3>3 DEF OnValidated
  <2>7. CASE UNCHANGED slotVars
    BY <2>7 DEF slotVars
  <2> QED
    BY <1>1, <2>1, <2>2, <2>3, <2>4, <2>5, <2>6, <2>7
    DEF Next, PublishLocal, PeerWrites, PeerSlotStart, vars, Kind
<1> QED
  BY <1>1, TypesOfSlots, PTL DEF Spec, SlotsOnlyGrow

-----------------------------------------------------------------------------
(* Hashes *)

(* Reading a frame whose data is remembered, if it comes in full, leaves the
   hashes behind it resolvable. *)
LEMMA ReadKeepsHashes ==
  ASSUME NEW q \in Seq(Item), q # <<>>, NEW I, NEW I2, I \subseteq I2, NEW N,
         Res(q, I), Covers(q, I, N), Head(q).full => Head(q).data \in I2
  PROVE  Res(Tail(q), I2) /\ Covers(Tail(q), I2, N)
<1>1. /\ Len(q) \in Nat /\ Len(q) >= 1 /\ Len(Tail(q)) = Len(q) - 1 /\ Head(q) = q[1]
      /\ \A i \in 1 .. Len(q) - 1 : Tail(q)[i] = q[i + 1]
  OBVIOUS
<1>2. ASSUME NEW j \in 1 .. Len(q), q[j].full
      PROVE  q[j].data \in I2 \/ (j - 1 \in 1 .. Len(q) - 1 /\ Tail(q)[j - 1] = q[j])
  BY <1>1, <1>2
<1>3. Res(Tail(q), I2)
  <2>1. ASSUME NEW i \in 1 .. Len(q) - 1
        PROVE  \/ q[i + 1].full \/ q[i + 1].data \in I2
               \/ \E j \in 1 .. i - 1 : Tail(q)[j].full /\ Tail(q)[j].data = q[i + 1].data
    <3>1. i + 1 \in 1 .. Len(q) /\ (i + 1) - 1 = i
      BY <1>1
    <3>2. \/ q[i + 1].full \/ q[i + 1].data \in I
          \/ \E j \in 1 .. i : q[j].full /\ q[j].data = q[i + 1].data
      BY <3>1 DEF Res
    <3>3. ASSUME NEW j \in 1 .. i, q[j].full, q[j].data = q[i + 1].data
          PROVE  \/ q[i + 1].data \in I2
                 \/ \E m \in 1 .. i - 1 : Tail(q)[m].full /\ Tail(q)[m].data = q[i + 1].data
      <4>1. j \in 1 .. Len(q)
        BY <1>1
      <4>2. CASE q[j].data \in I2
        BY <3>3, <4>2
      <4>3. CASE j - 1 \in 1 .. Len(q) - 1 /\ Tail(q)[j - 1] = q[j]
        <5>1. j - 1 \in 1 .. i - 1
          BY <1>1, <4>3
        <5> QED BY <3>3, <4>3, <5>1
      <4> QED BY <1>2, <3>3, <4>1, <4>2, <4>3
    <3> QED BY <3>2, <3>3
  <2> QED BY <1>1, <2>1 DEF Res
<1>4. Covers(Tail(q), I2, N)
  <2>1. ASSUME NEW d \in N
        PROVE  d \in I2 \/ \E i \in 1 .. Len(q) - 1 : Tail(q)[i].full /\ Tail(q)[i].data = d
    <3>1. CASE d \in I
      BY <3>1
    <3>2. ASSUME NEW j \in 1 .. Len(q), q[j].full, q[j].data = d
          PROVE  d \in I2 \/ \E i \in 1 .. Len(q) - 1 : Tail(q)[i].full /\ Tail(q)[i].data = d
      BY <1>2, <3>2
    <3> QED BY <3>1, <3>2 DEF Covers
  <2> QED BY <1>1, <2>1 DEF Covers
<1> QED BY <1>3, <1>4

(* So does writing one that names its data in full unless it did before. *)
LEMMA WriteKeepsHashes ==
  ASSUME NEW q \in Seq(Item), NEW I, NEW N, NEW item \in Item, item.full <=> item.data \notin N,
         Res(q, I), Covers(q, I, N)
  PROVE  Res(Append(q, item), I) /\ Covers(Append(q, item), I, N \cup {item.data})
<1> DEFINE r == Append(q, item)
<1>1. /\ Len(q) \in Nat /\ Len(r) = Len(q) + 1 /\ r[Len(q) + 1] = item
      /\ \A i \in 1 .. Len(q) : r[i] = q[i]
  OBVIOUS
<1> HIDE DEF r
<1>2. \A d \in N : d \in I \/ \E i \in 1 .. Len(q) : r[i].full /\ r[i].data = d
  BY <1>1 DEF Covers
<1>3. Res(r, I)
  <2>1. ASSUME NEW i \in 1 .. Len(q)
        PROVE  \/ r[i].full \/ r[i].data \in I
               \/ \E j \in 1 .. i - 1 : r[j].full /\ r[j].data = r[i].data
    <3>1. \/ q[i].full \/ q[i].data \in I
          \/ \E j \in 1 .. i - 1 : q[j].full /\ q[j].data = q[i].data
      BY DEF Res
    <3>2. \A j \in 1 .. i - 1 : r[j] = q[j]
      BY <1>1
    <3> QED BY <1>1, <3>1, <3>2
  <2>2. \/ item.full \/ item.data \in I
        \/ \E j \in 1 .. (Len(q) + 1) - 1 : r[j].full /\ r[j].data = item.data
    BY <1>1, <1>2
  <2>3. \A i \in 1 .. Len(r) : i \in 1 .. Len(q) \/ i = Len(q) + 1
    BY <1>1
  <2> QED BY <1>1, <2>1, <2>2, <2>3 DEF Res
<1>4. Covers(r, I, N \cup {item.data})
  <2>1. ASSUME NEW d \in N
        PROVE  d \in I \/ \E i \in 1 .. Len(r) : r[i].full /\ r[i].data = d
    BY <1>1, <1>2
  <2>2. item.data \in N \/ item.full
    OBVIOUS
  <2>3. Len(q) + 1 \in 1 .. Len(r)
    BY <1>1
  <2> QED BY <1>1, <2>1, <2>2, <2>3 DEF Covers
<1> QED BY <1>3, <1>4 DEF r

(* What is known only helps. *)
LEMMA KnowingMore ==
  ASSUME NEW q, NEW I, NEW I2, I \subseteq I2, NEW N, Res(q, I), Covers(q, I, N)
  PROVE  Res(q, I2) /\ Covers(q, I2, N)
BY DEF Res, Covers

(* Nothing is named before anything is sent. *)
LEMMA InitHashes == Init => HashInv
BY DEF Init, HashInv, Res, Covers, Kind

(* Every step keeps hashes resolvable. *)
LEMMA NextHashes == TypeOK /\ HashInv /\ [Next]_vars => HashInv'
<1> SUFFICES ASSUME TypeOK, HashInv, [Next]_vars PROVE HashInv'
  OBVIOUS
<1>1. CASE OnInboundData
  <2> DEFINE batch == Head(stream["push"])
  <2>1. /\ stream["push"] # <<>> /\ stream["push"] \in Seq(Item)
        /\ stream'["push"] = Tail(stream["push"]) /\ stream'["bitmap"] = stream["bitmap"]
        /\ identities \subseteq identities'
        /\ UNCHANGED <<named, dropped>>
    BY <1>1 DEF OnInboundData, TypeOK, Kind, peerVars
  <2>2. batch.full => batch.data \in identities'
    BY <1>1 DEF OnInboundData, Resolved
  <2>3. Res(stream'["push"], identities') /\ Covers(stream'["push"], identities', named["push"])
    BY <2>1, <2>2, ReadKeepsHashes DEF HashInv
  <2>4. identities \cup dropped \subseteq identities' \cup dropped'
    BY <2>1
  <2>5. /\ Res(stream["bitmap"], identities' \cup dropped')
        /\ Covers(stream["bitmap"], identities' \cup dropped', named["bitmap"])
    BY <2>4, KnowingMore DEF HashInv
  <2>6. \A b \in buckets' : b[2] \in identities'
    <3>1. \A b \in buckets' : b \in buckets \/ (b[2] = batch.data /\ batch.data \in identities')
      <4>1. CASE Resolved(batch)
        <5>1. identities' = identities \cup {batch.data}
              /\ \E s \in SlotForHash(batch.data) :
                   AddReceived(s, batch.data, batch.positions) \/ buckets' = buckets
          BY <1>1, <4>1 DEF OnInboundData
        <5> HIDE DEF batch
        <5>2. \E s : buckets' \subseteq buckets \cup {<<s, batch.data>>}
          BY <5>1 DEF AddReceived
        <5> QED BY <5>1, <5>2
      <4>2. CASE ~Resolved(batch)
        BY <1>1, <4>2 DEF OnInboundData
      <4> QED BY <4>1, <4>2
    <3> QED BY <2>1, <3>1 DEF HashInv
  <2> QED BY <2>1, <2>3, <2>5, <2>6 DEF HashInv
<1>2. CASE OnInboundBitmap
  <2> DEFINE md == Head(stream["bitmap"])
  <2>1. /\ stream["bitmap"] # <<>> /\ stream["bitmap"] \in Seq(Item)
        /\ stream'["bitmap"] = Tail(stream["bitmap"]) /\ stream'["push"] = stream["push"]
        /\ identities \subseteq identities' /\ named' = named
        /\ identities \cup dropped \subseteq identities' \cup dropped'
    BY <1>2 DEF OnInboundBitmap, TypeOK, Kind, peerVars
  <2>2. md.full => md.data \in identities' \cup dropped'
    BY <1>2 DEF OnInboundBitmap, Resolved
  <2>3. /\ Res(stream'["bitmap"], identities' \cup dropped')
        /\ Covers(stream'["bitmap"], identities' \cup dropped', named["bitmap"])
    BY <2>1, <2>2, ReadKeepsHashes DEF HashInv
  <2>4. Res(stream["push"], identities') /\ Covers(stream["push"], identities', named["push"])
    BY <2>1, KnowingMore DEF HashInv
  <2>5. \A b \in buckets' : b[2] \in identities'
    BY <1>2 DEF OnInboundBitmap, HashInv
  <2> QED BY <2>1, <2>3, <2>4, <2>5 DEF HashInv
<1>3. ASSUME NEW k \in Kind, NEW d \in Data, NEW P \in SUBSET Position, PeerWrites(k, d, P)
      PROVE  HashInv'
  <2> DEFINE item == [data |-> d, full |-> d \notin named[k], positions |-> P]
  <2>1. /\ stream'[k] = Append(stream[k], item) /\ named'[k] = named[k] \cup {d}
        /\ \A l \in Kind \ {k} : stream'[l] = stream[l] /\ named'[l] = named[l]
        /\ UNCHANGED <<identities, dropped, buckets>> /\ stream[k] \in Seq(Item)
    BY <1>3 DEF PeerWrites, TypeOK, slotVars
  <2>2. item \in Item /\ item.data = d /\ (item.full <=> d \notin named[k])
    <3>1. (d \notin named[k]) \in BOOLEAN
      OBVIOUS
    <3> QED BY <3>1, Zenon DEF Item
  <2> HIDE DEF item
  <2>3. ASSUME NEW I, Res(stream[k], I), Covers(stream[k], I, named[k])
        PROVE  Res(stream'[k], I) /\ Covers(stream'[k], I, named'[k])
    <3>1. \A N : \A q \in Seq(Item) :
            Res(q, I) /\ Covers(q, I, N) /\ (item.full <=> item.data \notin N)
              => Res(Append(q, item), I) /\ Covers(Append(q, item), I, N \cup {item.data})
      BY <2>2, WriteKeepsHashes
    <3> QED BY <2>1, <2>2, <2>3, <3>1
  <2>4. CASE k = "push"
    BY <2>1, <2>3, <2>4 DEF HashInv, Kind
  <2>5. CASE k = "bitmap"
    BY <2>1, <2>3, <2>5 DEF HashInv, Kind
  <2> QED BY <2>4, <2>5 DEF Kind
<1>4. ASSUME NEW d \in Data, NEW pos \in Position, OnPublishLocal(d, pos) PROVE HashInv'
  <2>1. identities \subseteq identities' /\ UNCHANGED <<stream, named, dropped>>
    BY <1>4 DEF OnPublishLocal, peerVars
  <2>2. identities \cup dropped \subseteq identities' \cup dropped'
    BY <2>1
  <2>3. \A b \in buckets' : b[2] \in identities'
    BY <1>4 DEF OnPublishLocal, HashInv, slotVars
  <2> QED BY <2>1, <2>2, <2>3, KnowingMore DEF HashInv
<1>5. ASSUME UNCHANGED <<identities, stream, named, dropped>>, buckets' \subseteq buckets
      PROVE  HashInv'
  BY <1>5 DEF HashInv
<1>6. ASSUME NEW s \in Slot, SlotStart(s) \/ SlotEnd(s) PROVE HashInv'
  BY <1>5, <1>6 DEF SlotStart, SlotEnd, Forget, peerVars
<1>7. ASSUME NEW d \in Data, NEW pos \in Position, PublishLocal(d, pos) PROVE HashInv'
  BY <1>5, <1>7 DEF PublishLocal, slotVars, peerVars
<1>8. CASE OnValidated \/ PeerSlotStart \/ UNCHANGED vars
  BY <1>5, <1>8 DEF OnValidated, PeerSlotStart, vars, slotVars, peerVars
<1> QED
  BY <1>1, <1>2, <1>3, <1>4, <1>6, <1>7, <1>8 DEF Next, Kind

(* identities.Put, before onInboundData looks at the slot and after
   onInboundBitmap has: no hash of a push frame is ever unknown, and one of
   metadata only if the data came with metadata that was dropped and the node
   still has no bucket for it. *)
THEOREM HashesAreKnown == Spec => []HashesResolvable
<1>1. TypeOK /\ HashInv => HashesResolvable
  <2> SUFFICES ASSUME TypeOK, HashInv PROVE HashesResolvable
    OBVIOUS
  <2>1. ASSUME NEW k \in Kind, NEW X, Res(stream[k], identities \cup X)
        PROVE  ResolvableBut(k, X)
    <3>1. DOMAIN stream[k] = 1 .. Len(stream[k])
      BY DEF TypeOK
    <3> QED BY <2>1, <3>1 DEF Res, ResolvableBut
  <2> DEFINE unheld == {d \in dropped : \A s \in Slot : <<s, d>> \notin buckets}
  <2>2. identities \cup {} = identities /\ identities \cup unheld = identities \cup dropped
    BY DEF HashInv
  <2> QED BY <2>1, <2>2 DEF HashInv, HashesResolvable, Kind
<1>2. Spec => []HashInv
  BY InitHashes, NextHashes, TypesOfSlots, PTL DEF Spec
<1> QED BY <1>1, <1>2, TypesOfSlots, PTL

-----------------------------------------------------------------------------
(* Verification *)

(* Nothing is held yet. *)
LEMMA InitOnce == Init => OnceInv
BY DEF Init, OnceInv

(* A result that is not accepted is one of a closed slot. *)
LEMMA LateResultIsOfClosedSlot ==
  ASSUME TypeOK, SlotInv, NEW i \in 1 .. Len(verifying), ~AcceptsSlot(verifying[i].slot)
  PROVE  verifying[i].slot <= highestClosedSlot
<1>1. verifying[i] \in Submission
  BY DEF TypeOK
<1>2. verifying[i].slot \in Nat /\ highestClosedSlot \in Nat
  BY <1>1 DEF Submission, Slot, TypeOK
<1>3. /\ verifying[i].slot <= highestClosedSlot + 1
      /\ verifying[i].slot = highestClosedSlot + 1 /\ activeSlot = 0 => highestClosedSlot = 0
      /\ activeSlot # 0 => activeSlot = highestClosedSlot + 1
  BY DEF TypeOK, SlotInv
<1> QED BY <1>2, <1>3 DEF AcceptsSlot, LifecycleStarted

(* Received positions that are new are submitted once. *)
LEMMA ReceivedOnce ==
  ASSUME TypeOK, OnceInv, NEW s \in Slot, NEW d \in Data, NEW P \in SUBSET Position,
         AddReceived(s, d, P), UNCHANGED <<validated, highestClosedSlot>>
  PROVE  OnceInv'
<1>1. /\ atts \in [Slot -> [Data -> SUBSET Position]]
      /\ atts' = [atts EXCEPT ![s][d] = @ \cup P]
  BY DEF TypeOK, AddReceived
<1>2. /\ atts'[s][d] = atts[s][d] \cup P
      /\ \A t \in Slot, e \in Data : /\ atts[t][e] \subseteq atts'[t][e]
                                     /\ ~(t = s /\ e = d) => atts'[t][e] = atts[t][e]
  BY <1>1, AddPositions
<1>3. \A i \in 1 .. Len(verifying) : verifying[i].slot \in Slot /\ verifying[i].data \in Data
  <2>1. \A i \in 1 .. Len(verifying) : verifying[i] \in Submission
    BY DEF TypeOK
  <2> QED BY <2>1 DEF Submission
<1>4. CASE P \subseteq atts[s][d] /\ verifying' = verifying
  <2>1. \A t \in Slot, e \in Data : atts'[t][e] = atts[t][e]
    BY <1>2, <1>4
  <2> QED BY <1>3, <1>4, <2>1 DEF OnceInv, InVerifier
<1>5. CASE /\ Len(verifying') = Len(verifying) + 1 /\ Len(verifying) \in Nat
           /\ \A i \in 1 .. Len(verifying) : verifying'[i] = verifying[i]
           /\ verifying'[Len(verifying) + 1].slot = s
           /\ verifying'[Len(verifying) + 1].data = d
           /\ verifying'[Len(verifying) + 1].positions = P \ atts[s][d]
  <2> DEFINE n == Len(verifying) + 1
  <2>1. \A i \in 1 .. Len(verifying') : i = n \/ i \in 1 .. Len(verifying)
    BY <1>5
  <2>2. n \in 1 .. Len(verifying') /\ n \notin 1 .. Len(verifying)
        /\ \A i \in 1 .. Len(verifying) : i \in 1 .. Len(verifying')
    BY <1>5
  <2>3. /\ verifying'[n].slot = s /\ verifying'[n].data = d
        /\ verifying'[n].positions = P \ atts[s][d]
        /\ \A i \in 1 .. Len(verifying) : verifying'[i] = verifying[i]
    BY <1>5
  <2> HIDE DEF n
  <2>4. \A t \in Slot, e \in Data : validated'[t][e] \subseteq atts'[t][e]
    BY <1>2 DEF OnceInv
  <2>5. ASSUME NEW i \in 1 .. Len(verifying'), verifying'[i].slot > highestClosedSlot
        PROVE  verifying'[i].positions \subseteq
                 atts'[verifying'[i].slot][verifying'[i].data]
                   \ validated'[verifying'[i].slot][verifying'[i].data]
    <3>1. CASE i = n
      <4>1. validated[s][d] \subseteq atts[s][d] /\ atts'[s][d] = atts[s][d] \cup P
        BY <1>2 DEF OnceInv
      <4> QED BY <2>3, <3>1, <4>1
    <3>2. CASE i \in 1 .. Len(verifying)
      <4>1. verifying'[i] = verifying[i] /\ verifying[i].slot \in Slot /\ verifying[i].data \in Data
        BY <1>3, <2>3, <3>2
      <4>2. verifying[i].positions \subseteq
              atts[verifying[i].slot][verifying[i].data]
                \ validated[verifying[i].slot][verifying[i].data]
        BY <2>5, <3>2, <4>1 DEF OnceInv
      <4>3. atts[verifying[i].slot][verifying[i].data] \subseteq
              atts'[verifying[i].slot][verifying[i].data]
        BY <1>2, <4>1
      <4> QED BY <4>1, <4>2, <4>3
    <3> QED BY <2>1, <3>1, <3>2
  <2>6. ASSUME NEW t \in Slot, NEW e \in Data, t > highestClosedSlot,
               NEW pos \in atts'[t][e] \ validated'[t][e]
        PROVE  InVerifier(t, e, pos)'
    <3>1. CASE pos \in atts[t][e]
      <4>1. InVerifier(t, e, pos)
        BY <2>6, <3>1 DEF OnceInv
      <4>2. PICK i \in 1 .. Len(verifying) :
              verifying[i].slot = t /\ verifying[i].data = e /\ pos \in verifying[i].positions
        BY <4>1 DEF InVerifier
      <4> QED BY <2>2, <2>3, <4>2 DEF InVerifier
    <3>2. CASE pos \notin atts[t][e]
      <4>1. t = s /\ e = d /\ pos \in P
        BY <1>2, <2>6, <3>2
      <4> QED BY <2>2, <2>3, <3>2, <4>1 DEF InVerifier
    <3> QED BY <3>1, <3>2
  <2>7. ASSUME NEW i \in 1 .. Len(verifying'), NEW j \in 1 .. Len(verifying'),
               i # j, verifying'[i].slot > highestClosedSlot,
               verifying'[i].slot = verifying'[j].slot, verifying'[i].data = verifying'[j].data
        PROVE  verifying'[i].positions \cap verifying'[j].positions = {}
    <3>1. ASSUME NEW m \in 1 .. Len(verifying), verifying[m].slot = s, verifying[m].data = d,
                 s > highestClosedSlot
          PROVE  verifying[m].positions \subseteq atts[s][d]
      BY <3>1 DEF OnceInv
    <3>2. CASE i = n
      BY <2>1, <2>3, <2>7, <3>1, <3>2
    <3>3. CASE j = n
      BY <2>1, <2>3, <2>7, <3>1, <3>3
    <3>4. CASE i \in 1 .. Len(verifying) /\ j \in 1 .. Len(verifying)
      BY <2>3, <2>7, <3>4 DEF OnceInv
    <3> QED BY <2>1, <3>2, <3>3, <3>4
  <2> QED BY <2>4, <2>5, <2>6, <2>7 DEF OnceInv
<1> QED BY <1>4, <1>5, AddReceivedQueue

(* A result is entered for what is held, and leaves the other submissions. *)
LEMMA ValidatedOnce ==
  ASSUME TypeOK, SlotInv, OnceInv, OnValidated
  PROVE  OnceInv'
<1> DEFINE v == verifying[1]
<1>1. /\ Len(verifying) \in Nat /\ 1 \in 1 .. Len(verifying) /\ Head(verifying) = v
      /\ Len(verifying') = Len(verifying) - 1
      /\ \A i \in 1 .. Len(verifying) - 1 : verifying'[i] = verifying[i + 1]
      /\ \A i \in 1 .. Len(verifying) : verifying[i] \in Submission
      /\ UNCHANGED <<atts, highestClosedSlot, buckets>>
  BY DEF OnValidated, TypeOK
<1>2. /\ \A i \in 1 .. Len(verifying) : verifying[i].slot \in Slot /\ verifying[i].data \in Data
      /\ v.positions \in SUBSET Position
      /\ atts \in [Slot -> [Data -> SUBSET Position]]
      /\ validated \in [Slot -> [Data -> SUBSET Position]]
  BY <1>1 DEF Submission, TypeOK
(* Seen from a slot that is not closed, the result is always entered. *)
<1>3. /\ v.slot > highestClosedSlot =>
           validated'[v.slot][v.data] = validated[v.slot][v.data] \cup v.positions
      /\ \A t \in Slot, e \in Data :
           /\ validated[t][e] \subseteq validated'[t][e]
           /\ t <= highestClosedSlot \/ ~(t = v.slot /\ e = v.data) =>
                validated'[t][e] = validated[t][e]
  <2>1. CASE AcceptsSlot(v.slot) /\ <<v.slot, v.data>> \in buckets
    <3>1. validated' = [validated EXCEPT ![v.slot][v.data] = @ \cup v.positions]
      BY <1>1, <2>1 DEF OnValidated
    <3>2. v.slot \in Slot /\ v.data \in Data
      BY <1>1, <1>2
    <3>3. /\ validated'[v.slot][v.data] = validated[v.slot][v.data] \cup v.positions
          /\ \A t \in Slot, e \in Data :
               /\ validated[t][e] \subseteq validated'[t][e]
               /\ ~(t = v.slot /\ e = v.data) => validated'[t][e] = validated[t][e]
      BY <1>2, <3>1, <3>2, AddPositions
    <3>4. v.slot > highestClosedSlot /\ highestClosedSlot \in Nat
      BY <2>1 DEF AcceptsSlot, TypeOK
    <3>5. \A t \in Slot : t <= highestClosedSlot => t # v.slot
      BY <3>2, <3>4 DEF Slot
    <3> QED BY <3>3, <3>5
  <2>2. CASE ~(AcceptsSlot(v.slot) /\ <<v.slot, v.data>> \in buckets)
    <3>1. validated' = validated
      BY <1>1, <2>2 DEF OnValidated
    <3>2. v.slot > highestClosedSlot => v.positions = {}
      <4>1. CASE ~AcceptsSlot(v.slot)
        <5>1. v.slot <= highestClosedSlot /\ v.slot \in Nat /\ highestClosedSlot \in Nat
          BY <1>1, <1>2, <4>1, LateResultIsOfClosedSlot DEF Slot, TypeOK
        <5> QED BY <5>1
      <4>2. CASE <<v.slot, v.data>> \notin buckets
        <5>1. atts[v.slot][v.data] = {}
          BY <1>1, <1>2, <4>2 DEF TypeOK
        <5> QED BY <1>1, <5>1 DEF OnceInv
      <4> QED BY <2>2, <4>1, <4>2
    <3> QED BY <1>2, <3>1, <3>2
  <2> QED BY <2>1, <2>2
<1>4. \A t \in Slot, e \in Data : validated'[t][e] \subseteq atts'[t][e]
  <2> SUFFICES ASSUME NEW t \in Slot, NEW e \in Data PROVE validated'[t][e] \subseteq atts[t][e]
    BY <1>1
  <2>1. t > highestClosedSlot \/ t <= highestClosedSlot
    BY DEF TypeOK, Slot
  <2>2. validated[t][e] \subseteq atts[t][e]
        /\ (v.slot > highestClosedSlot => v.positions \subseteq atts[v.slot][v.data])
    BY <1>1 DEF OnceInv
  <2>3. CASE t = v.slot /\ e = v.data /\ t > highestClosedSlot
    BY <1>3, <2>2, <2>3
  <2> QED BY <1>3, <2>1, <2>2, <2>3
(* What is behind the head of the queue has moved by one. *)
<1>5. \A i \in 1 .. Len(verifying') :
        i + 1 \in 1 .. Len(verifying) /\ i + 1 # 1 /\ verifying'[i] = verifying[i + 1]
  BY <1>1
<1>6. ASSUME NEW i \in 1 .. Len(verifying'), verifying'[i].slot > highestClosedSlot
      PROVE  verifying'[i].positions \subseteq
               atts'[verifying'[i].slot][verifying'[i].data]
                 \ validated'[verifying'[i].slot][verifying'[i].data]
  <2> DEFINE w == verifying[i + 1]
  <2>1. /\ verifying'[i] = w /\ w.slot > highestClosedSlot
        /\ w.slot \in Slot /\ w.data \in Data /\ i + 1 \in 1 .. Len(verifying) /\ i + 1 # 1
    BY <1>2, <1>5, <1>6
  <2>2. w.positions \subseteq atts[w.slot][w.data] \ validated[w.slot][w.data]
    BY <2>1 DEF OnceInv
  <2>3. w.slot = v.slot /\ w.data = v.data => w.positions \cap v.positions = {}
    BY <1>1, <2>1 DEF OnceInv
  <2>4. CASE w.slot = v.slot /\ w.data = v.data
    <3>1. validated'[w.slot][w.data] = validated[w.slot][w.data] \cup v.positions
      BY <1>3, <2>1, <2>4
    <3> QED BY <1>1, <2>1, <2>2, <2>3, <2>4, <3>1
  <2>5. CASE ~(w.slot = v.slot /\ w.data = v.data)
    <3>1. validated'[w.slot][w.data] = validated[w.slot][w.data]
      BY <1>3, <2>1, <2>5
    <3> QED BY <1>1, <2>1, <2>2, <3>1
  <2> QED BY <2>4, <2>5
<1>7. ASSUME NEW t \in Slot, NEW e \in Data, t > highestClosedSlot,
             NEW pos \in atts[t][e] \ validated'[t][e]
      PROVE  InVerifier(t, e, pos)'
  <2>1. InVerifier(t, e, pos)
    BY <1>3, <1>7 DEF OnceInv
  <2>2. PICK i \in 1 .. Len(verifying) :
          verifying[i].slot = t /\ verifying[i].data = e /\ pos \in verifying[i].positions
    BY <2>1 DEF InVerifier
  <2>3. i # 1
    BY <1>3, <1>7, <2>2
  <2>4. i - 1 \in 1 .. Len(verifying') /\ verifying'[i - 1] = verifying[i]
    BY <1>1, <2>3
  <2> QED BY <2>2, <2>4 DEF InVerifier
<1>8. ASSUME NEW i \in 1 .. Len(verifying'), NEW j \in 1 .. Len(verifying'),
             i # j, verifying'[i].slot > highestClosedSlot,
             verifying'[i].slot = verifying'[j].slot, verifying'[i].data = verifying'[j].data
      PROVE  verifying'[i].positions \cap verifying'[j].positions = {}
  <2>1. /\ i + 1 \in 1 .. Len(verifying) /\ verifying'[i] = verifying[i + 1]
        /\ j + 1 \in 1 .. Len(verifying) /\ verifying'[j] = verifying[j + 1]
    BY <1>5
  <2>2. i + 1 # j + 1
    BY <1>8
  <2>3. \A k, l \in 1 .. Len(verifying) :
          /\ k # l /\ verifying[k].slot > highestClosedSlot
          /\ verifying[k].slot = verifying[l].slot /\ verifying[k].data = verifying[l].data
          => verifying[k].positions \cap verifying[l].positions = {}
    BY DEF OnceInv
  <2>4. /\ verifying[i + 1].slot > highestClosedSlot
        /\ verifying[i + 1].slot = verifying[j + 1].slot
        /\ verifying[i + 1].data = verifying[j + 1].data
    BY <1>8, <2>1
  <2>5. verifying[i + 1].positions \cap verifying[j + 1].positions = {}
    BY ONLY <2>1, <2>2, <2>3, <2>4
  <2> QED BY ONLY <2>1, <2>5
<1> QED BY <1>1, <1>4, <1>6, <1>7, <1>8 DEF OnceInv

(* Every step keeps it: only what is closed is forgotten. *)
LEMMA NextOnce == TypeOK /\ SlotInv /\ OnceInv /\ [Next]_vars => OnceInv'
<1> SUFFICES ASSUME TypeOK, SlotInv, OnceInv, [Next]_vars PROVE OnceInv'
  OBVIOUS
<1> DEFINE Forgotten(S) ==
      /\ \A t \in Slot, e \in Data :
           /\ t \in S => atts'[t][e] = {} /\ validated'[t][e] = {}
           /\ t \notin S => atts'[t][e] = atts[t][e] /\ validated'[t][e] = validated[t][e]
      /\ verifying' = verifying
<1>1. \A i \in 1 .. Len(verifying) : verifying[i].slot \in Slot /\ verifying[i].data \in Data
  <2>1. \A i \in 1 .. Len(verifying) : verifying[i] \in Submission
    BY DEF TypeOK
  <2> QED BY <2>1 DEF Submission
<1>2. ASSUME NEW S, Forgotten(S), highestClosedSlot' >= highestClosedSlot,
             highestClosedSlot \in Nat, highestClosedSlot' \in Nat,
             \A t \in Slot : t > highestClosedSlot' => t \notin S
      PROVE  OnceInv'
  <2>1. \A t \in Slot : t > highestClosedSlot' => t > highestClosedSlot /\ t \notin S
    BY <1>2 DEF Slot
  <2>2. \A t \in Slot, e \in Data : validated'[t][e] \subseteq atts'[t][e]
    <3> SUFFICES ASSUME NEW t \in Slot, NEW e \in Data PROVE validated'[t][e] \subseteq atts'[t][e]
      OBVIOUS
    <3>1. CASE t \in S
      BY <1>2, <3>1
    <3>2. CASE t \notin S
      BY <1>2, <3>2 DEF OnceInv
    <3> QED BY <3>1, <3>2
  <2>3. ASSUME NEW i \in 1 .. Len(verifying), verifying[i].slot > highestClosedSlot'
        PROVE  verifying[i].positions \subseteq
                 atts'[verifying[i].slot][verifying[i].data]
                   \ validated'[verifying[i].slot][verifying[i].data]
    BY <1>1, <1>2, <2>1, <2>3 DEF OnceInv
  <2>4. ASSUME NEW t \in Slot, NEW e \in Data, t > highestClosedSlot',
               NEW pos \in atts'[t][e] \ validated'[t][e]
        PROVE  InVerifier(t, e, pos)'
    <3>1. InVerifier(t, e, pos)
      BY <1>2, <2>1, <2>4 DEF OnceInv
    <3> QED BY <1>2, <3>1 DEF InVerifier
  <2>5. ASSUME NEW i \in 1 .. Len(verifying), NEW j \in 1 .. Len(verifying),
               i # j, verifying[i].slot > highestClosedSlot',
               verifying[i].slot = verifying[j].slot, verifying[i].data = verifying[j].data
        PROVE  verifying[i].positions \cap verifying[j].positions = {}
    BY <1>1, <2>1, <2>5 DEF OnceInv
  <2> QED BY <1>2, <2>2, <2>3, <2>4, <2>5 DEF OnceInv
<1> HIDE DEF Forgotten
<1>3. ASSUME NEW s \in Slot, SlotStart(s) PROVE OnceInv'
  <2>1. highestClosedSlot' = highestClosedSlot /\ highestClosedSlot \in Nat /\ s = highestClosedSlot + 1
    BY <1>3 DEF SlotStart, TypeOK
  <2>2. Forgotten(1 .. s - 1)
    BY <1>3 DEF SlotStart, Forget, Forgotten
  <2> QED BY <1>2, <2>1, <2>2 DEF Slot
<1>4. ASSUME NEW s \in Slot, SlotEnd(s) PROVE OnceInv'
  <2>1. highestClosedSlot' = s /\ highestClosedSlot \in Nat /\ s = highestClosedSlot + 1
    BY <1>4 DEF SlotEnd, TypeOK, Slot
  <2>2. Forgotten({s})
    BY <1>4 DEF SlotEnd, Forget, Forgotten
  <2> QED BY <1>2, <2>1, <2>2 DEF Slot
<1>5. CASE UNCHANGED <<atts, validated, verifying, highestClosedSlot>>
  BY <1>5 DEF OnceInv, InVerifier
<1>6. ASSUME NEW d \in Data, NEW pos \in Position, OnPublishLocal(d, pos) PROVE OnceInv'
  <2> DEFINE s == SlotOf[d]
  <2>1. s \in Slot /\ {pos} \in SUBSET Position /\ UNCHANGED <<verifying, highestClosedSlot>>
        /\ atts \in [Slot -> [Data -> SUBSET Position]]
        /\ validated \in [Slot -> [Data -> SUBSET Position]]
    BY <1>6, SlotAssumption DEF OnPublishLocal, TypeOK
  <2>2. CASE UNCHANGED <<atts, validated>>
    BY <1>5, <2>1, <2>2
  <2>3. CASE /\ atts' = [atts EXCEPT ![s][d] = @ \cup {pos}] /\ pos \in atts[s][d]
             /\ validated' = validated
    <3>1. atts[s][d] \cup {pos} = atts[s][d]
      BY <2>3
    <3>2. atts' = atts
      BY <2>1, <2>3, <3>1
    <3> QED BY <1>5, <2>1, <2>3, <3>2
  <2>4. CASE /\ atts' = [atts EXCEPT ![s][d] = @ \cup {pos}] /\ pos \notin atts[s][d]
             /\ validated' = [validated EXCEPT ![s][d] = @ \cup {pos}]
    <3>1. \A t \in Slot, e \in Data :
            /\ atts'[t][e] \subseteq atts[t][e] \cup {pos}
            /\ atts[t][e] \subseteq atts'[t][e]
            /\ validated[t][e] \subseteq validated'[t][e]
            /\ ~(t = s /\ e = d) => atts'[t][e] = atts[t][e] /\ validated'[t][e] = validated[t][e]
      BY <2>1, <2>4, AddPositions
    <3>2. atts'[s][d] = atts[s][d] \cup {pos} /\ validated'[s][d] = validated[s][d] \cup {pos}
      BY <2>1, <2>4, AddPositions
    <3>3. \A t \in Slot, e \in Data :
            /\ validated'[t][e] \subseteq atts'[t][e]
            /\ atts'[t][e] \ validated'[t][e] = atts[t][e] \ validated[t][e]
      <4> SUFFICES ASSUME NEW t \in Slot, NEW e \in Data
                   PROVE  /\ validated'[t][e] \subseteq atts'[t][e]
                          /\ atts'[t][e] \ validated'[t][e] = atts[t][e] \ validated[t][e]
        OBVIOUS
      <4>1. validated[t][e] \subseteq atts[t][e]
        BY DEF OnceInv
      <4>2. CASE t = s /\ e = d
        BY <2>4, <3>2, <4>1, <4>2
      <4>3. CASE ~(t = s /\ e = d)
        BY <3>1, <4>1, <4>3
      <4> QED BY <4>2, <4>3
    <3> QED BY <1>1, <2>1, <3>3 DEF OnceInv, InVerifier
  <2> QED BY <1>6, <2>2, <2>3, <2>4 DEF OnPublishLocal, slotVars
<1>7. CASE OnInboundData
  <2> DEFINE batch == Head(stream["push"])
  <2>1. batch.data \in Data /\ batch.positions \in SUBSET Position
        /\ UNCHANGED <<validated, highestClosedSlot>>
    BY <1>7, HeadTypes DEF OnInboundData, Kind
  <2>2. CASE UNCHANGED <<atts, verifying>>
    BY <1>5, <2>1, <2>2
  <2>3. ASSUME NEW s \in SlotForHash(batch.data), AcceptsSlot(s),
               AddReceived(s, batch.data, batch.positions)
        PROVE  OnceInv'
    <3>1. s \in Slot
      BY <2>1, <2>3, FiledSlot
    <3> QED BY <2>1, <2>3, <3>1, ReceivedOnce
  <2> QED BY <1>7, <2>2, <2>3 DEF OnInboundData
<1>8. CASE OnValidated
  BY <1>8, ValidatedOnce
<1>9. CASE OnInboundBitmap \/ PeerSlotStart \/ UNCHANGED vars
  BY <1>5, <1>9 DEF OnInboundBitmap, PeerSlotStart, vars, slotVars
<1>10. ASSUME NEW d \in Data, NEW pos \in Position, PublishLocal(d, pos) PROVE OnceInv'
  BY <1>5, <1>10 DEF PublishLocal, slotVars
<1>11. ASSUME NEW k \in Kind, NEW d \in Data, NEW P \in SUBSET Position, PeerWrites(k, d, P)
       PROVE  OnceInv'
  BY <1>5, <1>11 DEF PeerWrites, slotVars
<1> QED
  BY <1>3, <1>4, <1>6, <1>7, <1>8, <1>9, <1>10, <1>11 DEF Next, Kind

(* What is held is validated or in the verifier, whatever is late. *)
LEMMA OnceInvariant == Spec => []OnceInv
BY InitOnce, NextOnce, TypesOfSlots, SlotsInOrder, PTL DEF Spec

(* onValidated and encodeBatch: what can be forwarded is held. *)
THEOREM ForwardedIsHeld == Spec => []ValidatedIsHeld
<1>1. OnceInv => ValidatedIsHeld
  BY DEF OnceInv, ValidatedIsHeld
<1> QED BY <1>1, OnceInvariant, PTL

(* onInboundData and addReceived: in a slot that is not closed, what is held is
   validated or in exactly one submission. *)
THEOREM VerifiedExactlyOnce == Spec => []VerifiedOnce
<1>1. ASSUME TypeOK, OnceInv PROVE VerifiedOnce
  <2> SUFFICES ASSUME NEW s \in Slot, NEW d \in Data, s > highestClosedSlot
               PROVE  LET at == {i \in DOMAIN verifying : verifying[i].slot = s /\ verifying[i].data = d}
                      IN  /\ atts[s][d] \ validated[s][d] = UNION {verifying[i].positions : i \in at}
                          /\ \A i, j \in at :
                               i # j => verifying[i].positions \cap verifying[j].positions = {}
    BY DEF VerifiedOnce
  <2> DEFINE at == {i \in DOMAIN verifying : verifying[i].slot = s /\ verifying[i].data = d}
  <2>1. DOMAIN verifying = 1 .. Len(verifying)
    BY <1>1 DEF TypeOK
  <2>2. ASSUME NEW pos \in atts[s][d] \ validated[s][d]
        PROVE  \E i \in at : pos \in verifying[i].positions
    BY <1>1, <2>1 DEF OnceInv, InVerifier
  <2>3. ASSUME NEW i \in at PROVE verifying[i].positions \subseteq atts[s][d] \ validated[s][d]
    BY <1>1, <2>1 DEF OnceInv
  <2>4. \A i, j \in at : i # j => verifying[i].positions \cap verifying[j].positions = {}
    BY <1>1, <2>1 DEF OnceInv
  <2> HIDE DEF at
  <2>5. atts[s][d] \ validated[s][d] = UNION {verifying[i].positions : i \in at}
    BY <2>2, <2>3
  <2> QED BY <2>4, <2>5 DEF at
<1> QED BY <1>1, TypesOfSlots, OnceInvariant, PTL
=============================================================================
