------------------------ MODULE BitmapWriterProofs ------------------------
(***************************************************************************)
(* Proofs about BitmapWriter, for any peers, data, positions, bitmap size  *)
(* and number of stream sets.                                              *)
(***************************************************************************)
EXTENDS BitmapWriter, TLAPS

Bitmaps == [Data -> SUBSET Position]

(* What is said of this node's positions is true of them, wherever it is said. *)
TruthInv ==
  /\ \A d \in Data : lastEmitted[d] \subseteq validated[d]
  /\ \A p \in Peer, d \in Data :
       /\ pending[p][d] \subseteq validated[d]
       /\ sentAvailable[p][d] \subseteq validated[d]
       /\ view[p][d] \subseteq validated[d]
  /\ \A p \in Peer : \A md \in frame[p] : md.available \subseteq validated[md.data]
  /\ \A p \in Peer : \A i \in 1 .. Len(stream[p]) : \A md \in stream[p][i] :
       md.available \subseteq validated[md.data]

-----------------------------------------------------------------------------
(* Lemmas about the operators *)

(* A metadata item has its types. *)
LEMMA NextTypes ==
  ASSUME TypeOK, NEW p \in Peer
  PROVE  /\ NextMetadatas(p) \subseteq Metadata
         /\ \A d \in Data : NewIDs(p, d) \subseteq Position /\ IDsOrBitmap(p, d) \subseteq Position
<1>1. \A d \in Data : NewIDs(p, d) \subseteq Position /\ IDsOrBitmap(p, d) \subseteq Position
  BY DEF TypeOK, NewIDs, IDsOrBitmap
<1>2. ASSUME NEW md \in NextMetadatas(p) PROVE md \in Metadata
  <2>1. PICK d \in Data :
          md = [data |-> d, full |-> d \notin sentFull[p], available |-> IDsOrBitmap(p, d)]
    BY DEF NextMetadatas
  <2>2. (d \notin sentFull[p]) \in BOOLEAN
    OBVIOUS
  <2>3. IDsOrBitmap(p, d) \in SUBSET Position
    BY <1>1
  <2> HIDE DEF IDsOrBitmap
  <2> QED BY <2>1, <2>2, <2>3, Zenon DEF Metadata
<1> QED BY <1>1, <1>2

(* What comes next for a peer has all that is queued and was not told. *)
LEMMA NextCovers ==
  ASSUME NEW p \in Peer, NEW d \in Data
  PROVE  /\ NewIDs(p, d) \subseteq IDsOrBitmap(p, d)
         /\ IDsOrBitmap(p, d) \subseteq sentAvailable[p][d] \cup pending[p][d]
         /\ NewIDs(p, d) # {} =>
              \E md \in NextMetadatas(p) : md.data = d /\ NewIDs(p, d) \subseteq md.available
<1>1. /\ NewIDs(p, d) \subseteq IDsOrBitmap(p, d)
      /\ IDsOrBitmap(p, d) \subseteq sentAvailable[p][d] \cup pending[p][d]
  BY DEF IDsOrBitmap, NewIDs
<1>2. ASSUME NewIDs(p, d) # {}
      PROVE  \E md \in NextMetadatas(p) : md.data = d /\ NewIDs(p, d) \subseteq md.available
  <2> DEFINE md == [data |-> d, full |-> d \notin sentFull[p], available |-> IDsOrBitmap(p, d)]
  <2>1. md \in NextMetadatas(p)
    BY <1>2 DEF NextMetadatas
  <2> QED BY <1>1, <2>1
<1> QED BY <1>1, <1>2

(* Queueing for peers that are up keeps the types. *)
LEMMA EnqueueTypes ==
  ASSUME TypeOK, NEW P, P \subseteq writers, NEW bitmaps \in Bitmaps, Enqueue(P, bitmaps)
  PROVE  pending' \in [Peer -> Bitmaps] /\ work' \subseteq writers
BY DEF TypeOK, Enqueue, Bitmaps

-----------------------------------------------------------------------------
(* Types *)

(* A new node has the types. *)
LEMMA InitTypes == Init => TypeOK
BY SessionAssumption DEF Init, TypeOK, Nothing, Role

(* Every step keeps them. *)
LEMMA NextTypeOK == TypeOK /\ [Next]_vars => TypeOK'
<1> SUFFICES ASSUME TypeOK, [Next]_vars PROVE TypeOK'
  OBVIOUS
<1>1. CASE UNCHANGED vars
  BY <1>1 DEF TypeOK, vars, eventVars, writerVars, peerVars
<1>2. ASSUME NEW d \in Data, NEW pos \in Position, Validate(d, pos) PROVE TypeOK'
  BY <1>2 DEF TypeOK, Validate, writerVars, peerVars
<1>3. CASE EmitBitmaps
  <2>1. ChangedAvailable \in Bitmaps /\ InMesh("bitmap") \subseteq writers
    BY DEF ChangedAvailable, Bitmaps, TypeOK, InMesh
  <2>2. pending' \in [Peer -> Bitmaps] /\ work' \subseteq writers
    BY <1>3, <2>1, EnqueueTypes DEF EmitBitmaps
  <2> QED BY <1>3, <2>2 DEF TypeOK, EmitBitmaps, peerVars, Bitmaps
<1>4. CASE EmitPushMeshBitmaps
  <2>1. validated \in Bitmaps /\ InMesh("push") \subseteq writers
    BY DEF Bitmaps, TypeOK, InMesh
  <2>2. pending' \in [Peer -> Bitmaps] /\ work' \subseteq writers
    BY <1>4, <2>1, EnqueueTypes DEF EmitPushMeshBitmaps
  <2> QED BY <1>4, <2>2 DEF TypeOK, EmitPushMeshBitmaps, eventVars, peerVars, Bitmaps
<1>5. ASSUME NEW p \in Peer, OnPeerUp(p) PROVE TypeOK'
  <2>1. sessions' \in 0 .. MaxSessions
    BY <1>5, SessionAssumption DEF OnPeerUp, TypeOK
  <2>2. /\ pending' \in [Peer -> Bitmaps] /\ sentAvailable' \in [Peer -> Bitmaps]
        /\ work' \subseteq writers' /\ writers' \subseteq Peer
    BY <1>5 DEF OnPeerUp, TypeOK, NewWriter, Nothing, Bitmaps
  <2>3. /\ pc' \in [Peer -> {"wait", "woken", "write", "failed"}]
        /\ role' \in [Peer -> Role]
        /\ frame' \in [Peer -> SUBSET Metadata] /\ sentFull' \in [Peer -> SUBSET Data]
    BY <1>5 DEF OnPeerUp, TypeOK, NewWriter, Role
  <2> QED BY <1>5, <2>1, <2>2, <2>3 DEF TypeOK, OnPeerUp, peerVars, Bitmaps
<1>6. ASSUME NEW p \in Peer, OnPeerDown(p) PROVE TypeOK'
  <2>1. PICK n \in 0 .. Len(stream[p]) : stream' = [stream EXCEPT ![p] = SubSeq(@, 1, n)]
    BY <1>6 DEF OnPeerDown
  <2>2. SubSeq(stream[p], 1, n) \in Seq(SUBSET Metadata)
    BY DEF TypeOK
  <2>3. stream' \in [Peer -> Seq(SUBSET Metadata)]
    BY <2>1, <2>2 DEF TypeOK
  <2> QED BY <1>6, <2>3 DEF TypeOK, OnPeerDown, NewWriter, Nothing, Role
<1>7. ASSUME NEW p \in Peer, NEW r \in Role, MeshChange(p, r) PROVE TypeOK'
  <2>1. pending' \in [Peer -> Bitmaps] /\ work' \subseteq writers
    <3>1. CASE r = "bitmap"
      <4>1. validated \in Bitmaps /\ {p} \cap writers \subseteq writers
        BY DEF Bitmaps, TypeOK
      <4> QED BY <1>7, <3>1, <4>1, EnqueueTypes DEF MeshChange
    <3>2. CASE r # "bitmap"
      BY <1>7, <3>2 DEF MeshChange, TypeOK, Bitmaps
    <3> QED BY <3>1, <3>2
  <2> QED BY <1>7, <2>1 DEF TypeOK, MeshChange, peerVars, Bitmaps
<1>8. ASSUME NEW p \in Peer, Wake(p) PROVE TypeOK'
  BY <1>8 DEF TypeOK, Wake, eventVars, peerVars
<1>9. ASSUME NEW p \in Peer, GetNextBitmap(p) PROVE TypeOK'
  <2>1. /\ frame' \in [Peer -> SUBSET Metadata]
        /\ sentFull' \in [Peer -> SUBSET Data]
    BY <1>9, NextTypes DEF TypeOK, GetNextBitmap, Metadata
  <2>2. sentAvailable' \in [Peer -> [Data -> SUBSET Position]]
    BY <1>9, NextTypes DEF TypeOK, GetNextBitmap
  <2> QED BY <1>9, <2>1, <2>2 DEF TypeOK, GetNextBitmap, Nothing, eventVars, peerVars
<1>10. ASSUME NEW p \in Peer, WriteSucceeds(p) \/ WriteFails(p) PROVE TypeOK'
  <2>1. Append(stream[p], frame[p]) \in Seq(SUBSET Metadata)
    BY DEF TypeOK
  <2>2. stream' \in [Peer -> Seq(SUBSET Metadata)]
    BY ZenonT(40), <1>10, <2>1 DEF WriteSucceeds, WriteFails, TypeOK, peerVars
  <2> QED BY <1>10, <2>2 DEF TypeOK, WriteSucceeds, WriteFails, eventVars, peerVars
<1>11. ASSUME NEW p \in Peer, OnInboundBitmap(p) PROVE TypeOK'
  <2>1. PICK items \in Foldable(p, Head(stream[p])) :
       /\ identities' = [identities EXCEPT ![p] =
                           @ \cup {md.data : md \in {i \in items : i.full}}]
       /\ view' = [view EXCEPT ![p] = [d \in Data |->
                     @[d] \cup UNION {md.available : md \in {i \in items : i.data = d}}]]
    BY <1>11 DEF OnInboundBitmap
  <2>2. stream[p] \in Seq(SUBSET Metadata) /\ stream[p] # <<>>
    BY <1>11 DEF OnInboundBitmap, TypeOK
  <2>3. Head(stream[p]) \subseteq Metadata /\ Tail(stream[p]) \in Seq(SUBSET Metadata)
    BY <2>2
  <2>4. items \subseteq Metadata
    BY <2>3 DEF Foldable
  <2>5. identities' \in [Peer -> SUBSET Data]
    BY <2>1, <2>4 DEF TypeOK, Metadata
  <2>6. view' \in [Peer -> [Data -> SUBSET Position]]
    <3>1. \A d \in Data : UNION {md.available : md \in {i \in items : i.data = d}} \subseteq Position
      BY <2>4 DEF Metadata
    <3> QED BY <2>1, <3>1 DEF TypeOK
  <2>7. stream' \in [Peer -> Seq(SUBSET Metadata)]
    BY <1>11, <2>3 DEF OnInboundBitmap, TypeOK
  <2> QED BY <1>11, <2>5, <2>6, <2>7 DEF TypeOK, OnInboundBitmap, eventVars, writerVars
<1> QED BY <1>1, <1>2, <1>3, <1>4, <1>5, <1>6, <1>7, <1>8, <1>9, <1>10, <1>11 DEF Next

(* Type correctness: only registered writers are ever queued anything. *)
THEOREM TypesOfBitmapWriter == Spec => []TypeOK
BY InitTypes, NextTypeOK, PTL DEF Spec

-----------------------------------------------------------------------------
(* Truth *)

(* A node that has validated nothing has claimed nothing. *)
LEMMA InitTruth == Init => TruthInv
BY DEF Init, TruthInv, Nothing

(* Queueing what is validated is true. *)
LEMMA EnqueueTrue ==
  ASSUME TypeOK, TruthInv, NEW P, NEW bitmaps \in Bitmaps, Enqueue(P, bitmaps),
         \A d \in Data : bitmaps[d] \subseteq validated[d]
  PROVE  \A p \in Peer, d \in Data : pending'[p][d] \subseteq validated[d]
BY DEF TypeOK, TruthInv, Enqueue

(* A claim stays true, and no step makes a false one. *)
LEMMA NextTruth == TypeOK /\ TruthInv /\ [Next]_vars => TruthInv'
<1> SUFFICES ASSUME TypeOK, TruthInv, [Next]_vars PROVE TruthInv'
  OBVIOUS
<1>1. CASE UNCHANGED vars
  BY <1>1 DEF TruthInv, vars, eventVars, writerVars, peerVars
<1>2. ASSUME NEW d \in Data, NEW pos \in Position, Validate(d, pos) PROVE TruthInv'
  <2>1. \A e \in Data : validated[e] \subseteq validated'[e]
    BY <1>2 DEF Validate, TypeOK
  <2>2. /\ \A p \in Peer : \A md \in frame[p] : md.data \in Data
        /\ \A p \in Peer : \A i \in 1 .. Len(stream[p]) : \A md \in stream[p][i] : md.data \in Data
    BY DEF TypeOK, Metadata
  <2>3. UNCHANGED <<lastEmitted, pending, sentAvailable, view, frame, stream>>
    BY <1>2 DEF Validate, writerVars, peerVars
  <2> QED BY <2>1, <2>2, <2>3 DEF TruthInv
<1>3. CASE EmitBitmaps
  <2>1. /\ ChangedAvailable \in Bitmaps
        /\ \A d \in Data : ChangedAvailable[d] \subseteq validated[d]
    BY DEF ChangedAvailable, Bitmaps, TypeOK
  <2>2. \A p \in Peer, d \in Data : pending'[p][d] \subseteq validated[d]
    BY <1>3, <2>1, EnqueueTrue DEF EmitBitmaps
  <2>3. /\ lastEmitted' = validated
        /\ UNCHANGED <<validated, sentAvailable, view, frame, stream>>
    BY <1>3 DEF EmitBitmaps, peerVars
  <2> QED BY <2>2, <2>3 DEF TruthInv
<1>4. CASE EmitPushMeshBitmaps
  <2>1. \A p \in Peer, d \in Data : pending'[p][d] \subseteq validated[d]
    BY <1>4, EnqueueTrue DEF EmitPushMeshBitmaps, TypeOK, Bitmaps
  <2>2. UNCHANGED <<validated, lastEmitted, sentAvailable, view, frame, stream>>
    BY <1>4 DEF EmitPushMeshBitmaps, eventVars, peerVars
  <2> QED BY <2>1, <2>2 DEF TruthInv
<1>5. ASSUME NEW p \in Peer, OnPeerUp(p) \/ OnPeerDown(p) PROVE TruthInv'
  <2>1. UNCHANGED <<validated, lastEmitted, view>>
    BY <1>5 DEF OnPeerUp, OnPeerDown, peerVars
  <2>2. \A q \in Peer, d \in Data : /\ pending'[q][d] \subseteq pending[q][d]
                                   /\ sentAvailable'[q][d] \subseteq sentAvailable[q][d]
    <3>1. NewWriter(p)
      BY <1>5 DEF OnPeerUp, OnPeerDown
    <3>2. ASSUME NEW q \in Peer, NEW d \in Data
          PROVE  /\ pending'[q][d] \subseteq pending[q][d]
                 /\ sentAvailable'[q][d] \subseteq sentAvailable[q][d]
      <4>1. CASE q = p
        BY <3>1, <4>1 DEF NewWriter, Nothing, TypeOK
      <4>2. CASE q # p
        BY <3>1, <4>2 DEF NewWriter, TypeOK
      <4> QED BY <4>1, <4>2
    <3> QED BY <3>2
  <2>3. \A q \in Peer : frame'[q] \subseteq frame[q]
    BY <1>5 DEF OnPeerUp, OnPeerDown, NewWriter, TypeOK
  <2>4. \A q \in Peer : \A i \in 1 .. Len(stream'[q]) :
          i \in 1 .. Len(stream[q]) /\ stream'[q][i] = stream[q][i]
    <3>1. CASE OnPeerUp(p)
      BY <3>1 DEF OnPeerUp, peerVars
    <3>2. CASE OnPeerDown(p)
      <4>1. PICK n \in 0 .. Len(stream[p]) : stream' = [stream EXCEPT ![p] = SubSeq(@, 1, n)]
        BY <3>2 DEF OnPeerDown
      <4>2. ASSUME NEW q \in Peer, NEW i \in 1 .. Len(stream'[q])
            PROVE  i \in 1 .. Len(stream[q]) /\ stream'[q][i] = stream[q][i]
        BY <4>1 DEF TypeOK
      <4> QED BY <4>2
    <3> QED BY <1>5, <3>1, <3>2
  <2> QED BY <2>1, <2>2, <2>3, <2>4 DEF TruthInv
<1>7. ASSUME NEW p \in Peer, NEW r \in Role, MeshChange(p, r) PROVE TruthInv'
  <2>1. \A q \in Peer, d \in Data : pending'[q][d] \subseteq validated[d]
    <3>1. CASE r = "bitmap"
      BY <1>7, <3>1, EnqueueTrue DEF MeshChange, TypeOK, Bitmaps
    <3>2. CASE r # "bitmap"
      BY <1>7, <3>2 DEF MeshChange, TruthInv
    <3> QED BY <3>1, <3>2
  <2>2. UNCHANGED <<validated, lastEmitted, sentAvailable, view, frame, stream>>
    BY <1>7 DEF MeshChange, peerVars
  <2> QED BY <2>1, <2>2 DEF TruthInv
<1>8. ASSUME NEW p \in Peer, Wake(p) PROVE TruthInv'
  BY <1>8 DEF TruthInv, Wake, eventVars, peerVars
<1>9. ASSUME NEW p \in Peer, GetNextBitmap(p) PROVE TruthInv'
  <2>1. \A d \in Data : NewIDs(p, d) \subseteq validated[d] /\ IDsOrBitmap(p, d) \subseteq validated[d]
    BY NextCovers DEF TruthInv
  <2>2. \A q \in Peer, d \in Data : /\ pending'[q][d] \subseteq validated[d]
                                   /\ sentAvailable'[q][d] \subseteq validated[d]
    BY <1>9, <2>1 DEF GetNextBitmap, TypeOK, TruthInv, Nothing
  <2>3. \A md \in NextMetadatas(p) : md.available \subseteq validated[md.data]
    BY <2>1 DEF NextMetadatas
  <2>4. \A q \in Peer : \A md \in frame'[q] : md.available \subseteq validated[md.data]
    BY <1>9, <2>3 DEF GetNextBitmap, TypeOK, TruthInv
  <2>5. UNCHANGED <<validated, lastEmitted, view, stream>>
    BY <1>9 DEF GetNextBitmap, eventVars, peerVars
  <2> QED BY <2>2, <2>4, <2>5 DEF TruthInv
<1>10. ASSUME NEW p \in Peer, WriteSucceeds(p) \/ WriteFails(p) PROVE TruthInv'
  <2>1. \A q \in Peer : frame'[q] \subseteq frame[q]
    BY <1>10 DEF WriteSucceeds, WriteFails, TypeOK
  <2>2. ASSUME NEW q \in Peer, NEW i \in 1 .. Len(stream'[q]), NEW md \in stream'[q][i]
        PROVE  md.available \subseteq validated[md.data]
    <3>1. CASE stream'[q] = stream[q]
      BY <3>1, <2>2 DEF TruthInv
    <3>2. CASE stream'[q] = Append(stream[q], frame[q])
      <4>1. stream[q] \in Seq(SUBSET Metadata)
        BY DEF TypeOK
      <4>2. \/ i \in 1 .. Len(stream[q]) /\ stream'[q][i] = stream[q][i]
            \/ stream'[q][i] = frame[q]
        BY <3>2, <4>1
      <4> QED BY <2>2, <4>2 DEF TruthInv
    <3>3. stream'[q] = stream[q] \/ stream'[q] = Append(stream[q], frame[q])
      BY <1>10 DEF WriteSucceeds, WriteFails, peerVars, TypeOK
    <3> QED BY <3>1, <3>2, <3>3
  <2>3. UNCHANGED <<validated, lastEmitted, pending, sentAvailable, view>>
    BY <1>10 DEF WriteSucceeds, WriteFails, eventVars, peerVars
  <2> QED BY <2>1, <2>2, <2>3 DEF TruthInv
<1>11. ASSUME NEW p \in Peer, OnInboundBitmap(p) PROVE TruthInv'
  <2>1. PICK items \in Foldable(p, Head(stream[p])) :
          view' = [view EXCEPT ![p] = [d \in Data |->
                     @[d] \cup UNION {md.available : md \in {i \in items : i.data = d}}]]
    BY <1>11 DEF OnInboundBitmap
  <2>2. stream[p] \in Seq(SUBSET Metadata) /\ stream[p] # <<>>
    BY <1>11 DEF OnInboundBitmap, TypeOK
  <2>3. \A md \in items : md.available \subseteq validated[md.data]
    <3>1. items \subseteq stream[p][1] /\ 1 \in 1 .. Len(stream[p])
      BY <2>1, <2>2 DEF Foldable
    <3> QED BY <3>1 DEF TruthInv
  <2>4. \A q \in Peer, d \in Data : view'[q][d] \subseteq validated[d]
    BY <2>1, <2>3 DEF TypeOK, TruthInv
  <2>5. ASSUME NEW q \in Peer, NEW i \in 1 .. Len(stream'[q])
        PROVE  \E j \in 1 .. Len(stream[q]) : stream'[q][i] = stream[q][j]
    <3>1. CASE q = p
      <4>1. stream'[p] = Tail(stream[p])
        BY <1>11 DEF OnInboundBitmap, TypeOK
      <4>2. i + 1 \in 1 .. Len(stream[p]) /\ stream'[p][i] = stream[p][i + 1]
        BY <2>2, <2>5, <3>1, <4>1
      <4> QED BY <3>1, <4>2
    <3>2. CASE q # p
      BY <1>11, <2>5, <3>2 DEF OnInboundBitmap, TypeOK
    <3> QED BY <3>1, <3>2
  <2>6. \A q \in Peer : \A i \in 1 .. Len(stream'[q]) : \A md \in stream'[q][i] :
          md.available \subseteq validated[md.data]
    BY <2>5 DEF TruthInv
  <2>7. UNCHANGED <<validated, lastEmitted, pending, sentAvailable, frame>>
    BY <1>11 DEF OnInboundBitmap, eventVars, writerVars
  <2> QED BY <2>4, <2>6, <2>7 DEF TruthInv
<1> QED BY <1>1, <1>2, <1>3, <1>4, <1>5, <1>7, <1>8, <1>9, <1>10, <1>11 DEF Next

-----------------------------------------------------------------------------
(* The promise *)

(* A new node is a new one of the abstract specification. *)
LEMMA InitPromised == Init => Promised!AdInit
BY DEF Init, Nothing, Promised!AdInit

(* Every step validates, teaches one peer something true, or is of no concern to
   the abstract specification. *)
LEMMA StepPromised ==
  TypeOK /\ TypeOK' /\ TruthInv /\ TruthInv' /\ [Next]_vars => [Promised!AdNext]_(Promised!adVars)
<1> SUFFICES ASSUME TypeOK, TypeOK', TruthInv, TruthInv', [Next]_vars
             PROVE  [Promised!AdNext]_(Promised!adVars)
  OBVIOUS
<1>1. ASSUME NEW d \in Data, NEW pos \in Position, Validate(d, pos) PROVE Promised!AdNext
  <2>1. Promised!Validated(d, pos)
    BY <1>1 DEF Validate, Promised!Validated, peerVars
  <2> QED BY <2>1 DEF Promised!AdNext
<1>2. ASSUME NEW p \in Peer, OnInboundBitmap(p) PROVE Promised!AdNext
  <2>1. PICK items \in Foldable(p, Head(stream[p])) :
          view' = [view EXCEPT ![p] = [d \in Data |->
                     @[d] \cup UNION {md.available : md \in {i \in items : i.data = d}}]]
    BY <1>2 DEF OnInboundBitmap
  <2>2. \A d \in Data : view[p][d] \subseteq view'[p][d]
    BY <2>1 DEF TypeOK
  <2>3. \A q \in Peer \ {p} : view'[q] = view[q]
    BY <2>1 DEF TypeOK
  <2>4. validated' = validated /\ view' \in [Peer -> [Data -> SUBSET Position]]
    BY <1>2 DEF OnInboundBitmap, eventVars, TypeOK
  <2>5. \A d \in Data : view'[p][d] \subseteq validated[d]
    BY <2>4 DEF TruthInv
  <2>6. Promised!Learn(p)
    BY <2>2, <2>3, <2>4, <2>5 DEF Promised!Learn
  <2> QED BY <2>6 DEF Promised!AdNext
<1>3. CASE UNCHANGED <<validated, view>>
  BY <1>3 DEF Promised!adVars
<1>4. \/ \E d \in Data, pos \in Position : Validate(d, pos)
      \/ \E p \in Peer : OnInboundBitmap(p)
      \/ UNCHANGED <<validated, view>>
  BY DEF Next, vars, eventVars, writerVars, peerVars, EmitBitmaps, EmitPushMeshBitmaps, OnPeerUp,
         OnPeerDown, MeshChange, Wake, GetNextBitmap, WriteSucceeds, WriteFails
<1> QED BY <1>1, <1>2, <1>3, <1>4

(* The bitmap streams implement their promise: whatever is queued, coalesced,
   sent as a difference or lost with a stream, a peer's view of this node only
   grows and is true (bitmap_writer.go, onInboundBitmap). *)
THEOREM ImplementsPromise == Spec => AdSpec
<1>1. Spec => [](TypeOK /\ TruthInv)
  BY InitTypes, NextTypeOK, InitTruth, NextTruth, PTL DEF Spec
<1>2. Spec => Promised!AdInit /\ [][Promised!AdNext]_(Promised!adVars)
  BY <1>1, InitPromised, StepPromised, PTL DEF Spec
<1> QED BY <1>2 DEF AdSpec, Promised!AdSpec

-----------------------------------------------------------------------------
(* Nothing is forgotten *)

(* Every step keeps the floor's memory covered by each bitmap peer's writer. *)
LEMMA NextNothingForgotten ==
  TypeOK /\ TruthInv /\ NothingForgotten /\ [Next]_vars => NothingForgotten'
<1> SUFFICES ASSUME TypeOK, TruthInv, NothingForgotten, [Next]_vars,
                    NEW q \in Peer, q \in writers', role'[q] = "bitmap", NEW d \in Data
             PROVE  lastEmitted'[d] \subseteq sentAvailable'[q][d] \cup pending'[q][d]
  BY NextTypeOK DEF NothingForgotten, InMesh, TypeOK
<1> DEFINE Covered == lastEmitted[d] \subseteq sentAvailable[q][d] \cup pending[q][d]
<1>1. q \in writers /\ role[q] = "bitmap" => Covered
  BY DEF NothingForgotten, InMesh
<1>2. lastEmitted[d] \subseteq validated[d]
  BY DEF TruthInv
<1>3. CASE UNCHANGED vars
  BY <1>1, <1>3 DEF vars, eventVars, writerVars
<1>4. ASSUME NEW e \in Data, NEW pos \in Position, Validate(e, pos)
      PROVE  lastEmitted'[d] \subseteq sentAvailable'[q][d] \cup pending'[q][d]
  BY <1>1, <1>4 DEF Validate, writerVars
<1>5. CASE EmitBitmaps
  <2>1. q \in InMesh("bitmap") /\ Covered
    BY <1>1, <1>5 DEF EmitBitmaps, InMesh
  <2>2. pending'[q][d] = IF ChangedAvailable[d] # {} THEN ChangedAvailable[d] ELSE pending[q][d]
    BY <1>5, <2>1 DEF EmitBitmaps, Enqueue
  <2>3. lastEmitted' = validated /\ sentAvailable' = sentAvailable
    BY <1>5 DEF EmitBitmaps
  <2> QED BY <1>2, <2>1, <2>2, <2>3 DEF ChangedAvailable
<1>6. CASE EmitPushMeshBitmaps
  <2>1. q \notin InMesh("push") /\ Covered /\ lastEmitted' = lastEmitted
    BY <1>1, <1>6 DEF EmitPushMeshBitmaps, InMesh, eventVars
  <2> QED BY <1>6, <2>1 DEF EmitPushMeshBitmaps, Enqueue
<1>7. ASSUME NEW p \in Peer, OnPeerUp(p) \/ OnPeerDown(p)
      PROVE  lastEmitted'[d] \subseteq sentAvailable'[q][d] \cup pending'[q][d]
  <2>1. role' = [role EXCEPT ![p] = "connected"] /\ NewWriter(p) /\ lastEmitted' = lastEmitted
    BY <1>7 DEF OnPeerUp, OnPeerDown
  <2>2. q # p
    BY <2>1 DEF TypeOK
  <2>3. q \in writers /\ role[q] = "bitmap"
    BY <1>7, <2>1, <2>2 DEF OnPeerUp, OnPeerDown, TypeOK
  <2> QED BY <1>1, <2>1, <2>2, <2>3 DEF NewWriter, TypeOK
<1>8. ASSUME NEW p \in Peer, NEW r \in Role, MeshChange(p, r)
      PROVE  lastEmitted'[d] \subseteq sentAvailable'[q][d] \cup pending'[q][d]
  <2>1. UNCHANGED <<lastEmitted, writers, sentAvailable>> /\ role' = [role EXCEPT ![p] = r]
    BY <1>8 DEF MeshChange
  <2>2. CASE q = p
    <3>1. r = "bitmap" /\ q \in {p} \cap writers
      BY <2>1, <2>2 DEF TypeOK
    <3>2. pending'[q][d] = IF validated[d] # {} THEN validated[d] ELSE pending[q][d]
      BY <1>8, <3>1 DEF MeshChange, Enqueue
    <3> QED BY <1>2, <2>1, <3>2
  <2>3. CASE q # p
    <3>1. Covered
      BY <1>1, <2>1, <2>3 DEF TypeOK
    <3>2. pending'[q][d] = pending[q][d]
      BY <1>8, <2>3 DEF MeshChange, Enqueue
    <3> QED BY <2>1, <3>1, <3>2
  <2> QED BY <2>2, <2>3
<1>9. ASSUME NEW p \in Peer, GetNextBitmap(p)
      PROVE  lastEmitted'[d] \subseteq sentAvailable'[q][d] \cup pending'[q][d]
  <2>1. Covered /\ lastEmitted' = lastEmitted
    BY <1>1, <1>9 DEF GetNextBitmap, eventVars
  <2>2. CASE q = p
    <3>1. sentAvailable'[q][d] = sentAvailable[q][d] \cup NewIDs(p, d)
      BY <1>9, <2>2 DEF GetNextBitmap, TypeOK
    <3> QED BY <2>1, <2>2, <3>1 DEF NewIDs
  <2>3. CASE q # p
    BY <1>9, <2>1, <2>3 DEF GetNextBitmap, TypeOK
  <2> QED BY <2>2, <2>3
<1>10. CASE \E p \in Peer : Wake(p) \/ WriteSucceeds(p) \/ WriteFails(p) \/ OnInboundBitmap(p)
  BY <1>1, <1>10 DEF Wake, WriteSucceeds, WriteFails, OnInboundBitmap, eventVars, writerVars
<1> QED BY <1>3, <1>4, <1>5, <1>6, <1>7, <1>8, <1>9, <1>10 DEF Next

(* A change is emitted once, to the peers of the bitmap mesh at that time; a
   peer that enters the mesh later is told of it all the same
   (bitmap_stream.go emitBitmaps, eventloop.go sendFullBitmapTo). *)
THEOREM NeverForgets == Spec => []NothingForgotten
<1>1. Init => NothingForgotten
  BY DEF Init, NothingForgotten, InMesh, Nothing
<1> QED BY <1>1, InitTypes, NextTypeOK, InitTruth, NextTruth, NextNothingForgotten, PTL DEF Spec

-----------------------------------------------------------------------------
(* No lost wake-up *)

(* Queueing signals what it queues. *)
LEMMA EnqueueSignals ==
  ASSUME TypeOK, NEW P, NEW bitmaps \in Bitmaps, Enqueue(P, bitmaps), NEW q \in Peer
  PROVE  work \subseteq work' /\ (pending'[q] = pending[q] \/ q \in work')
<1>1. work \subseteq work'
  BY DEF Enqueue
<1>2. pending' = [p \in Peer |-> [d \in Data |->
                    IF p \in P /\ bitmaps[d] # {} THEN bitmaps[d] ELSE pending[p][d]]]
  BY DEF Enqueue
<1>3. pending[q] = [d \in Data |-> pending[q][d]]
  BY DEF TypeOK
<1>4. CASE q \notin P
  BY <1>1, <1>2, <1>3, <1>4
<1>5. CASE bitmaps = Nothing
  BY <1>1, <1>2, <1>3, <1>5 DEF Nothing
<1>6. CASE q \in P /\ bitmaps # Nothing
  BY <1>1, <1>6 DEF Enqueue
<1> QED BY <1>4, <1>5, <1>6

(* Every step keeps the signal of what is queued. *)
LEMMA NextQueuedIsSignalled == TypeOK /\ QueuedIsSignalled /\ [Next]_vars => QueuedIsSignalled'
<1> SUFFICES ASSUME TypeOK, QueuedIsSignalled, [Next]_vars,
                    NEW q \in Peer, q \in writers', pending'[q] # Nothing
             PROVE  q \in work' \/ pc'[q] \in {"woken", "failed"}
  BY NextTypeOK DEF QueuedIsSignalled, TypeOK
<1>1. q \in writers /\ pending[q] # Nothing => q \in work \/ pc[q] \in {"woken", "failed"}
  BY DEF QueuedIsSignalled
<1>2. CASE UNCHANGED vars
  BY <1>1, <1>2 DEF vars, eventVars, writerVars
<1>3. CASE \E d \in Data, pos \in Position : Validate(d, pos)
  BY <1>1, <1>3 DEF Validate, writerVars
<1>4. CASE EmitBitmaps
  <2>1. ChangedAvailable \in Bitmaps
    BY DEF ChangedAvailable, Bitmaps, TypeOK
  <2>2. work \subseteq work' /\ (pending'[q] = pending[q] \/ q \in work')
    BY <1>4, <2>1, EnqueueSignals DEF EmitBitmaps
  <2> QED BY <1>1, <1>4, <2>2 DEF EmitBitmaps
<1>5. CASE EmitPushMeshBitmaps
  <2>1. work \subseteq work' /\ (pending'[q] = pending[q] \/ q \in work')
    BY <1>5, EnqueueSignals DEF EmitPushMeshBitmaps, Bitmaps, TypeOK
  <2> QED BY <1>1, <1>5, <2>1 DEF EmitPushMeshBitmaps, eventVars
<1>6. ASSUME NEW p \in Peer, OnPeerUp(p) \/ OnPeerDown(p)
      PROVE  q \in work' \/ pc'[q] \in {"woken", "failed"}
  <2>1. NewWriter(p)
    BY <1>6 DEF OnPeerUp, OnPeerDown
  <2>2. q # p
    BY <2>1 DEF NewWriter, TypeOK
  <2>3. q \in writers
    BY <1>6, <2>2 DEF OnPeerUp, OnPeerDown
  <2> QED BY <1>1, <2>1, <2>2, <2>3 DEF NewWriter, TypeOK
<1>7. ASSUME NEW p \in Peer, NEW r \in Role, MeshChange(p, r)
      PROVE  q \in work' \/ pc'[q] \in {"woken", "failed"}
  <2>1. work \subseteq work' /\ (pending'[q] = pending[q] \/ q \in work')
    <3>1. CASE r = "bitmap"
      BY <1>7, <3>1, EnqueueSignals DEF MeshChange, Bitmaps, TypeOK
    <3>2. CASE r # "bitmap"
      BY <1>7, <3>2 DEF MeshChange
    <3> QED BY <3>1, <3>2
  <2> QED BY <1>1, <1>7, <2>1 DEF MeshChange
<1>8. ASSUME NEW p \in Peer, Wake(p) \/ GetNextBitmap(p) \/ WriteSucceeds(p) \/ WriteFails(p)
      PROVE  q \in work' \/ pc'[q] \in {"woken", "failed"}
  <2>1. q \in writers
    BY <1>8 DEF Wake, GetNextBitmap, WriteSucceeds, WriteFails, eventVars
  <2>2. CASE q = p
    BY <1>1, <1>8, <2>1, <2>2 DEF Wake, GetNextBitmap, WriteSucceeds, WriteFails, TypeOK
  <2>3. CASE q # p
    BY <1>1, <1>8, <2>1, <2>3 DEF Wake, GetNextBitmap, WriteSucceeds, WriteFails, TypeOK
  <2> QED BY <2>2, <2>3
<1>9. CASE \E p \in Peer : OnInboundBitmap(p)
  BY <1>1, <1>9 DEF OnInboundBitmap, eventVars, writerVars
<1> QED BY <1>2, <1>3, <1>4, <1>5, <1>6, <1>7, <1>8, <1>9 DEF Next

(* The work channel holds one token, and a send that finds it full is dropped:
   no writer sleeps on a full queue all the same (bitmap_writer.go
   enqueueBitmaps and the writer's loop). *)
THEOREM NoLostWakeUp == Spec => []QueuedIsSignalled
<1>1. Init => QueuedIsSignalled
  BY DEF Init, QueuedIsSignalled
<1> QED BY <1>1, InitTypes, NextTypeOK, NextQueuedIsSignalled, PTL DEF Spec

-----------------------------------------------------------------------------
(* Nothing is lost between a writer and its peer *)

(* The first n items of p's stream name d in full. *)
NamedBy(p, n, d) == \E i \in 1 .. n : \E md \in stream[p][i] : md.full /\ md.data = d

(* Only a writer that is writing has a frame. *)
FrameInv(p) == pc[p] # "write" => frame[p] = {}

(* What p's writer has named in full is known to p or named on the way. *)
NamedInv(p) ==
  \A d \in Data : pc[p] # "failed" /\ d \in sentFull[p] =>
    \/ d \in identities[p]
    \/ NamedBy(p, Len(stream[p]), d)
    \/ \E md \in frame[p] : md.full /\ md.data = d

(* Every hash can be resolved when it is read. *)
ResolvedInv(p) ==
  /\ \A i \in 1 .. Len(stream[p]) : \A md \in stream[p][i] :
       md.full \/ md.data \in identities[p] \/ NamedBy(p, i - 1, md.data)
  /\ \A md \in frame[p] :
       md.full \/ md.data \in identities[p] \/ NamedBy(p, Len(stream[p]), md.data)

(* What counts as told is in the view, on the way or being written. *)
ToldInv(p) ==
  \A d \in Data, pos \in Position : pc[p] # "failed" /\ pos \in sentAvailable[p][d] =>
    \/ pos \in view[p][d]
    \/ \E i \in 1 .. Len(stream[p]) : \E md \in stream[p][i] : md.data = d /\ pos \in md.available
    \/ \E md \in frame[p] : md.data = d /\ pos \in md.available

PipeInv(p) == FrameInv(p) /\ NamedInv(p) /\ ResolvedInv(p) /\ ToldInv(p)

(* The frame at the head is folded whole. *)
LEMMA FoldsWhole ==
  ASSUME TypeOK, NEW p \in Peer, ResolvedInv(p), stream[p] # <<>>
  PROVE  /\ Foldable(p, Head(stream[p])) = {Head(stream[p])}
         /\ Head(stream[p]) = stream[p][1] /\ Len(stream[p]) \in Nat /\ Len(stream[p]) >= 1
<1>1. stream[p] \in Seq(SUBSET Metadata)
  BY DEF TypeOK
<1>2. Head(stream[p]) = stream[p][1] /\ Len(stream[p]) \in Nat /\ Len(stream[p]) >= 1
  BY <1>1
<1>3. \A md \in stream[p][1] : md.full \/ md.data \in identities[p]
  BY <1>2 DEF ResolvedInv, NamedBy
<1>4. {md \in Head(stream[p]) : Known(p, md)} = Head(stream[p])
  BY <1>2, <1>3 DEF Known
<1> QED BY <1>2, <1>4 DEF Foldable

(* A writer that does nothing, or wakes, keeps all of it. *)
LEMMA PipeAlone ==
  ASSUME NEW p \in Peer, PipeInv(p),
         pc'[p] = pc[p] \/ (pc[p] = "wait" /\ pc'[p] = "woken"),
         frame'[p] = frame[p], sentFull'[p] = sentFull[p], sentAvailable'[p] = sentAvailable[p],
         stream'[p] = stream[p], identities'[p] = identities[p], view'[p] = view[p]
  PROVE  PipeInv(p)'
BY DEF PipeInv, FrameInv, NamedInv, ResolvedInv, ToldInv, NamedBy

(* A new writer has named nothing, and what is left of the stream was resolved. *)
LEMMA PipeNew ==
  ASSUME TypeOK, NEW p \in Peer, PipeInv(p), NewWriter(p), identities' = identities,
         NEW n \in 0 .. Len(stream[p]), stream'[p] = SubSeq(stream[p], 1, n)
  PROVE  PipeInv(p)'
<1>1. stream[p] \in Seq(SUBSET Metadata)
  BY DEF TypeOK
<1>2. Len(stream'[p]) = n /\ \A i \in 1 .. n : stream'[p][i] = stream[p][i]
  BY <1>1
<1>3. /\ pc'[p] = "wait" /\ frame'[p] = {} /\ sentFull'[p] = {}
      /\ \A d \in Data : sentAvailable'[p][d] = {}
  BY DEF NewWriter, TypeOK, Nothing
<1>4. \A i \in 1 .. Len(stream'[p]) : \A md \in stream'[p][i] :
        md.full \/ md.data \in identities'[p] \/ NamedBy(p, i - 1, md.data)'
  BY <1>1, <1>2 DEF PipeInv, ResolvedInv, NamedBy
<1>5. FrameInv(p)' /\ NamedInv(p)' /\ ToldInv(p)'
  BY <1>3 DEF FrameInv, NamedInv, ToldInv
<1>6. ResolvedInv(p)'
  BY <1>3, <1>4 DEF ResolvedInv
<1> QED BY <1>5, <1>6 DEF PipeInv

(* The next frame names in full what was not named before, and has what counts
   as told from then on. *)
LEMMA PipeNext ==
  ASSUME TypeOK, NEW p \in Peer, PipeInv(p), GetNextBitmap(p)
  PROVE  PipeInv(p)'
<1>1. /\ pc[p] = "woken" /\ frame[p] = {}
      /\ frame'[p] = NextMetadatas(p)
      /\ sentFull'[p] = sentFull[p] \cup {md.data : md \in NextMetadatas(p)}
      /\ pc'[p] = IF NextMetadatas(p) = {} THEN "wait" ELSE "write"
      /\ UNCHANGED <<stream, identities, view>>
  BY DEF GetNextBitmap, TypeOK, PipeInv, FrameInv, peerVars
<1>2. \A d \in Data : sentAvailable'[p][d] = sentAvailable[p][d] \cup NewIDs(p, d)
  BY DEF GetNextBitmap, TypeOK
<1>3. ASSUME NEW md \in NextMetadatas(p)
      PROVE  md.data \in Data /\ (md.full <=> md.data \notin sentFull[p])
  <2> PICK d \in Data :
        md = [data |-> d, full |-> d \notin sentFull[p], available |-> IDsOrBitmap(p, d)]
    BY DEF NextMetadatas
  <2> QED BY Zenon
<1>4. \A md \in NextMetadatas(p) : md.full \/ md.data \in sentFull[p]
  BY <1>3
<1>5. FrameInv(p)'
  BY <1>1 DEF FrameInv
<1>6. NamedInv(p)'
  BY <1>1, <1>3 DEF NamedInv, PipeInv, NamedBy
<1>7. ResolvedInv(p)'
  BY <1>1, <1>3, <1>4 DEF NamedInv, PipeInv, ResolvedInv, NamedBy
<1>8. ToldInv(p)'
  <2> SUFFICES ASSUME NEW d \in Data, NEW pos \in Position, pos \in sentAvailable'[p][d]
               PROVE  \/ pos \in view'[p][d]
                      \/ \E i \in 1 .. Len(stream'[p]) : \E md \in stream'[p][i] :
                           md.data = d /\ pos \in md.available
                      \/ \E md \in frame'[p] : md.data = d /\ pos \in md.available
    BY DEF ToldInv
  <2>1. CASE pos \in sentAvailable[p][d]
    BY <1>1, <2>1 DEF PipeInv, ToldInv
  <2>2. CASE pos \in NewIDs(p, d)
    BY <1>1, <2>2, NextCovers
  <2> QED BY <1>2, <2>1, <2>2
<1> QED BY <1>5, <1>6, <1>7, <1>8 DEF PipeInv

(* What is written follows what was written. *)
LEMMA PipeWritten ==
  ASSUME TypeOK, NEW p \in Peer, PipeInv(p), WriteSucceeds(p)
  PROVE  PipeInv(p)'
<1>1. stream[p] \in Seq(SUBSET Metadata)
  BY DEF TypeOK
<1>2. /\ pc[p] = "write" /\ pc'[p] = "wait" /\ frame'[p] = {}
      /\ stream'[p] = Append(stream[p], frame[p])
      /\ UNCHANGED <<sentFull, sentAvailable, identities, view>>
  BY DEF WriteSucceeds, TypeOK
<1> PICK n : n = Len(stream[p])
  OBVIOUS
<1>3. /\ n \in Nat /\ Len(stream'[p]) = n + 1 /\ stream'[p][n + 1] = frame[p]
      /\ \A i \in 1 .. n : stream'[p][i] = stream[p][i]
  BY <1>1, <1>2
<1>4. \A k \in 0 .. n : \A d : NamedBy(p, k, d) => NamedBy(p, k, d)'
  BY <1>3 DEF NamedBy
<1>5. \A d : (\E md \in frame[p] : md.full /\ md.data = d) => NamedBy(p, n + 1, d)'
  BY <1>3 DEF NamedBy
<1>6. \A d : NamedBy(p, n, d) => NamedBy(p, n + 1, d)'
  BY <1>3 DEF NamedBy
<1>7. FrameInv(p)'
  BY <1>2 DEF FrameInv
<1>8. NamedInv(p)'
  BY <1>2, <1>3, <1>5, <1>6 DEF NamedInv, PipeInv
<1>9. ResolvedInv(p)'
  <2> SUFFICES ASSUME NEW i \in 1 .. n + 1, NEW md \in stream'[p][i]
               PROVE  md.full \/ md.data \in identities'[p] \/ NamedBy(p, i - 1, md.data)'
    BY <1>2, <1>3 DEF ResolvedInv
  <2>1. CASE i = n + 1
    <3>1. md \in frame[p] /\ i - 1 = n
      BY <1>3, <2>1
    <3>2. md.full \/ md.data \in identities[p] \/ NamedBy(p, n, md.data)
      BY <3>1 DEF PipeInv, ResolvedInv
    <3>3. NamedBy(p, n, md.data) => NamedBy(p, n, md.data)'
      BY <1>3, <1>4
    <3> QED BY <1>2, <3>1, <3>2, <3>3
  <2>2. CASE i # n + 1
    <3>1. i \in 1 .. n /\ i - 1 \in 0 .. n /\ md \in stream[p][i]
      BY <1>3, <2>2
    <3>2. md.full \/ md.data \in identities[p] \/ NamedBy(p, i - 1, md.data)
      BY <3>1 DEF PipeInv, ResolvedInv
    <3> QED BY <1>2, <1>4, <3>1, <3>2
  <2> QED BY <2>1, <2>2
<1>10. ToldInv(p)'
  BY <1>2, <1>3 DEF ToldInv, PipeInv
<1> QED BY <1>7, <1>8, <1>9, <1>10 DEF PipeInv

(* A write that fails ends the writer; what was written before can be read. *)
LEMMA PipeFailed ==
  ASSUME TypeOK, NEW p \in Peer, PipeInv(p), WriteFails(p)
  PROVE  PipeInv(p)'
<1>1. pc'[p] = "failed" /\ frame'[p] = {} /\ UNCHANGED <<stream, identities>>
  BY DEF WriteFails, TypeOK, peerVars
<1> QED BY <1>1 DEF PipeInv, FrameInv, NamedInv, ResolvedInv, ToldInv, NamedBy

(* What is read is known and in the view from then on. *)
LEMMA PipeRead ==
  ASSUME TypeOK, NEW p \in Peer, PipeInv(p), OnInboundBitmap(p)
  PROVE  PipeInv(p)'
<1>1. stream[p] \in Seq(SUBSET Metadata) /\ stream[p] # <<>>
  BY DEF OnInboundBitmap, TypeOK
<1> PICK n : n = Len(stream[p])
  OBVIOUS
<1> DEFINE head == stream[p][1]
<1>2. Foldable(p, Head(stream[p])) = {head} /\ n \in Nat /\ n >= 1
  BY <1>1, FoldsWhole DEF PipeInv
<1>3. /\ identities'[p] = identities[p] \cup {md.data : md \in {i \in head : i.full}}
      /\ \A d \in Data : view'[p][d] =
           view[p][d] \cup UNION {md.available : md \in {i \in head : i.data = d}}
      /\ stream'[p] = Tail(stream[p])
      /\ UNCHANGED <<pc, frame, sentFull, sentAvailable>>
  BY <1>2 DEF OnInboundBitmap, TypeOK, writerVars
<1>4. Len(stream'[p]) = n - 1 /\ \A i \in 1 .. n - 1 : stream'[p][i] = stream[p][i + 1]
  BY <1>1, <1>3
<1>5. \A i \in 1 .. n : i = 1 \/ (i - 1 \in 1 .. n - 1 /\ stream'[p][i - 1] = stream[p][i])
  <2>1. \A i \in 1 .. n : i = 1 \/ (i - 1 \in 1 .. n - 1 /\ i - 1 + 1 = i)
    BY <1>2
  <2> QED BY <1>4, <2>1
<1>6. ASSUME NEW k \in 1 .. n, NEW d, NamedBy(p, k, d)
      PROVE  d \in identities'[p] \/ NamedBy(p, k - 1, d)'
  <2>1. PICK i \in 1 .. k : \E md \in stream[p][i] : md.full /\ md.data = d
    BY <1>6 DEF NamedBy
  <2>2. i \in 1 .. n /\ (i = 1 \/ i - 1 \in 1 .. k - 1)
    BY <1>2, <2>1
  <2> QED BY <1>3, <1>5, <2>1, <2>2 DEF NamedBy
<1>7. identities[p] \subseteq identities'[p]
  BY <1>3
<1>8. FrameInv(p)'
  BY <1>3 DEF FrameInv, PipeInv
<1>9. NamedInv(p)'
  <2> SUFFICES ASSUME NEW d \in Data, pc[p] # "failed", d \in sentFull[p]
               PROVE  \/ d \in identities'[p] \/ NamedBy(p, n - 1, d)'
                      \/ \E md \in frame[p] : md.full /\ md.data = d
    BY <1>3, <1>4 DEF NamedInv
  <2>1. n \in 1 .. n
    BY <1>2
  <2> QED BY <1>6, <1>7, <2>1 DEF NamedInv, PipeInv
<1>10. ResolvedInv(p)'
  <2>1. ASSUME NEW i \in 1 .. n - 1, NEW md \in stream'[p][i]
        PROVE  md.full \/ md.data \in identities'[p] \/ NamedBy(p, i - 1, md.data)'
    <3>1. i \in 1 .. n /\ i + 1 \in 1 .. n /\ i + 1 - 1 = i /\ md \in stream[p][i + 1]
      BY <1>2, <1>4, <2>1
    <3>2. md.full \/ md.data \in identities[p] \/ NamedBy(p, i, md.data)
      BY <3>1 DEF PipeInv, ResolvedInv
    <3> QED BY <1>6, <1>7, <3>1, <3>2
  <2>2. ASSUME NEW md \in frame[p]
        PROVE  md.full \/ md.data \in identities'[p] \/ NamedBy(p, n - 1, md.data)'
    <3>1. n \in 1 .. n
      BY <1>2
    <3>2. md.full \/ md.data \in identities[p] \/ NamedBy(p, n, md.data)
      BY DEF PipeInv, ResolvedInv
    <3> QED BY <1>6, <1>7, <3>1, <3>2
  <2> QED BY <1>3, <1>4, <2>1, <2>2 DEF ResolvedInv
<1>11. ToldInv(p)'
  <2> SUFFICES ASSUME NEW d \in Data, NEW pos \in Position, pc[p] # "failed",
                      pos \in sentAvailable[p][d]
               PROVE  \/ pos \in view'[p][d]
                      \/ \E i \in 1 .. n - 1 : \E md \in stream'[p][i] :
                           md.data = d /\ pos \in md.available
                      \/ \E md \in frame[p] : md.data = d /\ pos \in md.available
    BY <1>3, <1>4 DEF ToldInv
  <2>1. CASE \E i \in 1 .. n : \E md \in stream[p][i] : md.data = d /\ pos \in md.available
    <3>1. PICK i \in 1 .. n : \E md \in stream[p][i] : md.data = d /\ pos \in md.available
      BY <2>1
    <3>2. CASE i = 1
      BY <1>3, <3>1, <3>2
    <3>3. CASE i # 1
      BY <1>5, <3>1, <3>3
    <3> QED BY <3>2, <3>3
  <2> QED BY <1>3, <2>1 DEF ToldInv, PipeInv
<1> QED BY <1>8, <1>9, <1>10, <1>11 DEF PipeInv

(* Every step keeps all of it, for every peer. *)
LEMMA NextPipe ==
  TypeOK /\ (\A p \in Peer : PipeInv(p)) /\ [Next]_vars => (\A p \in Peer : PipeInv(p))'
<1> SUFFICES ASSUME TypeOK, \A p \in Peer : PipeInv(p), [Next]_vars, NEW q \in Peer
             PROVE  PipeInv(q)'
  OBVIOUS
<1>1. CASE \/ UNCHANGED vars
           \/ \E d \in Data, pos \in Position : Validate(d, pos)
           \/ EmitBitmaps \/ EmitPushMeshBitmaps
           \/ \E p \in Peer, r \in Role : MeshChange(p, r)
  <2>1. UNCHANGED <<pc, frame, sentFull, sentAvailable, stream, identities, view>>
    BY <1>1 DEF vars, eventVars, writerVars, peerVars, Validate, EmitBitmaps, EmitPushMeshBitmaps,
                MeshChange
  <2> QED BY <2>1, PipeAlone
<1>2. ASSUME NEW p \in Peer, OnPeerUp(p) \/ OnPeerDown(p) PROVE PipeInv(q)'
  <2>1. NewWriter(p) /\ UNCHANGED <<identities, view>>
    BY <1>2 DEF OnPeerUp, OnPeerDown, peerVars
  <2>2. CASE q = p
    <3>1. Len(stream[p]) \in Nat /\ stream[p] = SubSeq(stream[p], 1, Len(stream[p]))
      BY DEF TypeOK
    <3>2. \E n \in 0 .. Len(stream[p]) : stream'[p] = SubSeq(stream[p], 1, n)
      <4>1. CASE OnPeerUp(p)
        BY <3>1, <4>1 DEF OnPeerUp, peerVars
      <4>2. CASE OnPeerDown(p)
        BY <4>2 DEF OnPeerDown, TypeOK
      <4> QED BY <1>2, <4>1, <4>2
    <3> QED BY <2>1, <2>2, <3>2, PipeNew
  <2>3. CASE q # p
    <3>1. stream'[q] = stream[q]
      BY <1>2, <2>3 DEF OnPeerUp, OnPeerDown, peerVars, TypeOK
    <3>2. /\ pc'[q] = pc[q] /\ frame'[q] = frame[q]
          /\ sentFull'[q] = sentFull[q] /\ sentAvailable'[q] = sentAvailable[q]
      BY <2>1, <2>3 DEF NewWriter
    <3> QED BY <2>1, <3>1, <3>2, PipeAlone
  <2> QED BY <2>2, <2>3
<1>3. ASSUME NEW p \in Peer, Wake(p) PROVE PipeInv(q)'
  <2>1. /\ pc'[q] = pc[q] \/ (pc[q] = "wait" /\ pc'[q] = "woken")
        /\ UNCHANGED <<frame, sentFull, sentAvailable, stream, identities, view>>
    BY <1>3 DEF Wake, peerVars, TypeOK
  <2> QED BY <2>1, PipeAlone
<1>4. ASSUME NEW p \in Peer,
             GetNextBitmap(p) \/ WriteSucceeds(p) \/ WriteFails(p) \/ OnInboundBitmap(p)
      PROVE  PipeInv(q)'
  <2>1. CASE q = p
    BY <1>4, <2>1, PipeNext, PipeWritten, PipeFailed, PipeRead
  <2>2. CASE q # p
    <3>1. /\ pc'[q] = pc[q] /\ frame'[q] = frame[q]
          /\ sentFull'[q] = sentFull[q] /\ sentAvailable'[q] = sentAvailable[q]
          /\ stream'[q] = stream[q] /\ identities'[q] = identities[q] /\ view'[q] = view[q]
      BY <1>4, <2>2 DEF GetNextBitmap, WriteSucceeds, WriteFails, OnInboundBitmap, peerVars,
                        writerVars, TypeOK
    <3> QED BY <3>1, PipeAlone
  <2> QED BY <2>1, <2>2
<1> QED BY <1>1, <1>2, <1>3, <1>4 DEF Next

(* A new node has no writers. *)
LEMMA InitPipe == Init => \A p \in Peer : PipeInv(p)
BY DEF Init, PipeInv, FrameInv, NamedInv, ResolvedInv, ToldInv, Nothing

(* Only what was not told before is sent, and nothing that counts as told is
   lost while the stream lives (bitmap_writer.go getNewIDsOrBitmap). *)
THEOREM DifferencesSuffice == Spec => []DifferencesAddUp
<1>1. ASSUME TypeOK, \A p \in Peer : PipeInv(p) PROVE DifferencesAddUp
  <2> SUFFICES ASSUME NEW p \in writers, pc[p] # "failed", NEW d \in Data
               PROVE  LET items == frame[p] \cup UNION {stream[p][i] : i \in DOMAIN stream[p]}
                      IN  sentAvailable[p][d] \subseteq
                            view[p][d] \cup UNION {md.available : md \in {i \in items : i.data = d}}
    BY DEF DifferencesAddUp
  <2>1. p \in Peer /\ ToldInv(p) /\ DOMAIN stream[p] = 1 .. Len(stream[p])
    BY <1>1 DEF PipeInv, TypeOK
  <2>2. sentAvailable[p][d] \subseteq Position
    BY <1>1, <2>1 DEF TypeOK
  <2> QED BY <2>1, <2>2 DEF ToldInv
<1> QED BY <1>1, InitTypes, NextTypeOK, InitPipe, NextPipe, PTL DEF Spec

(* A hash is never read before the data it stands for (bitmap_writer.go
   getNextBitmap, bitmap_stream.go onInboundBitmap). *)
THEOREM HashesAreResolved == Spec => []HashesResolvable
<1>1. ASSUME TypeOK, \A p \in Peer : PipeInv(p) PROVE HashesResolvable
  <2> SUFFICES ASSUME NEW p \in Peer
               PROVE  LET pipe == Append(stream[p], frame[p])
                          fulls(i) == {md.data : md \in {m \in pipe[i] : m.full}}
                      IN  \A i \in DOMAIN pipe : \A md \in pipe[i] :
                            md.full \/ md.data \in identities[p] \cup UNION {fulls(j) : j \in 1 .. i - 1}
    BY DEF HashesResolvable
  <2> DEFINE pipe == Append(stream[p], frame[p])
             n == Len(stream[p])
  <2>1. stream[p] \in Seq(SUBSET Metadata)
    BY <1>1 DEF TypeOK
  <2>2. /\ n \in Nat /\ DOMAIN pipe = 1 .. n + 1 /\ pipe[n + 1] = frame[p]
        /\ \A i \in 1 .. n : pipe[i] = stream[p][i]
    BY <2>1
  <2>3. ASSUME NEW i \in 1 .. n + 1, NEW md \in pipe[i]
        PROVE  \/ md.full \/ md.data \in identities[p]
               \/ \E j \in 1 .. i - 1 : \E m \in pipe[j] : m.full /\ m.data = md.data
    <3>1. md.full \/ md.data \in identities[p] \/ NamedBy(p, i - 1, md.data)
      <4>1. CASE i = n + 1
        <5>1. md \in frame[p] /\ i - 1 = n
          BY <2>2, <2>3, <4>1
        <5> HIDE DEF pipe
        <5> QED BY <1>1, <5>1 DEF PipeInv, ResolvedInv
      <4>2. CASE i # n + 1
        <5>1. i \in 1 .. n /\ md \in stream[p][i]
          BY <2>2, <2>3, <4>2
        <5> QED BY <1>1, <5>1 DEF PipeInv, ResolvedInv
      <4> QED BY <4>1, <4>2
    <3>2. \A j \in 1 .. i - 1 : j \in 1 .. n /\ pipe[j] = stream[p][j]
      BY <2>2
    <3> HIDE DEF pipe, n
    <3> QED BY <3>1, <3>2 DEF NamedBy
  <2> HIDE DEF pipe
  <2>4. ASSUME NEW i \in 1 .. n + 1, NEW md \in pipe[i]
        PROVE  md.full \/ md.data \in identities[p]
                 \cup UNION {{k.data : k \in {m \in pipe[j] : m.full}} : j \in 1 .. i - 1}
    BY <2>3
  <2> QED BY <2>2, <2>4 DEF pipe
<1> QED BY <1>1, InitTypes, NextTypeOK, InitPipe, NextPipe, PTL DEF Spec

-----------------------------------------------------------------------------
(* A peer at rest *)

(* A peer of the bitmap mesh whose writer sleeps without a token, and to which
   nothing is on its way, knows exactly what this node has validated, once the
   floor has seen it. *)
QuietPeersKnow ==
  \A p \in InMesh("bitmap") :
    pc[p] = "wait" /\ p \notin work /\ stream[p] = <<>> /\ lastEmitted = validated
      => view[p] = validated

(* The floor, which emits a change once, the writers, which send differences, and
   the tokens, which coalesce, leave nothing out between them: when all is quiet
   there is no peer that would have to be told again, whatever role changes, lost
   streams and failed writes went before (emitBitmaps, sendFullBitmapTo,
   newBitmapWriter, getNextBitmap). *)
THEOREM QuietPeersAreUpToDate == Spec => []QuietPeersKnow
<1>1. TypeOK /\ TruthInv /\ NothingForgotten /\ QueuedIsSignalled /\ DifferencesAddUp
      /\ (\A p \in Peer : PipeInv(p)) => QuietPeersKnow
  <2> SUFFICES ASSUME TypeOK, TruthInv, NothingForgotten, QueuedIsSignalled, DifferencesAddUp,
                      \A p \in Peer : PipeInv(p), NEW p \in InMesh("bitmap"),
                      pc[p] = "wait", p \notin work, stream[p] = <<>>, lastEmitted = validated
               PROVE  view[p] = validated
    BY DEF QuietPeersKnow
  <2>1. p \in writers /\ p \in Peer
    BY DEF InMesh, TypeOK
  <2>2. ASSUME NEW d \in Data PROVE view[p][d] = validated[d]
    <3>1. pending[p][d] = {}
      <4>1. pending[p] = Nothing
        BY <2>1 DEF QueuedIsSignalled
      <4> QED BY <4>1 DEF Nothing
    <3>2. validated[d] \subseteq sentAvailable[p][d]
      BY <3>1 DEF NothingForgotten
    <3>3. frame[p] = {}
      BY <2>1 DEF PipeInv, FrameInv
    <3>4. sentAvailable[p][d] \subseteq view[p][d]
      <4> DEFINE items == frame[p] \cup UNION {stream[p][i] : i \in DOMAIN stream[p]}
      <4>1. sentAvailable[p][d] \subseteq
              view[p][d] \cup UNION {md.available : md \in {i \in items : i.data = d}}
        BY <2>1 DEF DifferencesAddUp
      <4>2. items = {}
        BY <3>3
      <4> HIDE DEF items
      <4> QED BY <4>1, <4>2
    <3>5. view[p][d] \subseteq validated[d]
      BY <2>1 DEF TruthInv
    <3> QED BY <3>2, <3>4, <3>5
  <2>3. view[p] \in Bitmaps /\ validated \in Bitmaps
    BY <2>1 DEF TypeOK, Bitmaps
  <2> QED BY <2>2, <2>3 DEF Bitmaps
<1> QED
  BY <1>1, InitTypes, NextTypeOK, InitTruth, NextTruth, InitPipe, NextPipe,
     NeverForgets, NoLostWakeUp, DifferencesSuffice, PTL DEF Spec
=============================================================================
