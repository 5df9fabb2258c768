-------------------------- MODULE PartialMessages --------------------------
(***************************************************************************)
(* The two strategies that forward attestations as partial messages of     *)
(* GossipSub: node/partial.go and node/partial_priority.go, with the       *)
(* identity caches of node/att_data_hash.go and the driver runPartial of   *)
(* node/node.go.  Several nodes, one topic and one slot.                   *)
(*                                                                         *)
(* A node pushes to its mesh peers.  With the others it gossips: it        *)
(* advertises what it has validated, they request what they miss, and it   *)
(* serves the requests.  All of it is sent by a periodic tick, which runs  *)
(* in the loop of GossipSub and holds the manager's mutex throughout.  A   *)
(* tick reads nothing that another node writes, so its steps stand         *)
(* together here: nothing else happens while one is under way.             *)
(*                                                                         *)
(* A configuration flag selects the strategy; it is chosen once, in Init.  *)
(* Channels between nodes are reliable and keep order.                     *)
(***************************************************************************)
EXTENDS Integers, Sequences, FiniteSets

CONSTANTS
  Node,
  Data,                    \* attestation data: the forks seen in this slot
  Position,                \* committee positions
  Mesh,                    \* pairs {n, p} of nodes in each other's mesh
  Fanout,                  \* nodes that only publish
  FanoutPeers,             \* FanoutPeers[n]: whom fanout node n publishes to
  Own,                     \* Own[n]: the attestations n publishes
  StartPhase,              \* phase in which all nodes begin
  Ending,                  \* nodes whose drivers get to the end of the slot
  MaxPeersPerAttestation,  \* peers one attestation is forwarded to
  MaxIWantPerPosition,     \* requests for one attestation
  MaxPerMessage,           \* attestations in one message (priority)
  DisableIHaveGossip,      \* no advertisements
  SendAvailableWithData,   \* advertise to mesh peers too (priority)
  NoNode

ASSUME NodeAssumption == IsFiniteSet(Node) /\ Fanout \subseteq Node /\ NoNode \notin Node
ASSUME MeshAssumption == \A l \in Mesh : l \subseteq Node \ Fanout
ASSUME OwnAssumption == Own \in [Node -> SUBSET (Data \X Position)]
ASSUME FanoutAssumption == FanoutPeers \in [Fanout -> SUBSET (Node \ Fanout)]
ASSUME LimitAssumption ==
  /\ MaxPeersPerAttestation \in Nat \ {0}
  /\ MaxIWantPerPosition \in Nat \ {0}
  /\ MaxPerMessage \in Nat \ {0}
ASSUME FlagAssumption ==
  /\ DisableIHaveGossip \in BOOLEAN /\ SendAvailableWithData \in BOOLEAN
  /\ StartPhase \in {"fresh", "away", "open"}

Attestation == Data \X Position
DataOf(atts) == {a[1] : a \in atts}

(* Forward counts below the ceiling: the levels of the index. *)
Count == 0 .. MaxPeersPerAttestation - 1

(* One message between two nodes.  Metadata and batches name their data by its
   hash, except those in metaFull and dataFull, which carry the data itself. *)
RPC == [available : SUBSET Attestation, requests : SUBSET Attestation,
        metaFull  : SUBSET Data,
        sent      : SUBSET Attestation, dataFull : SUBSET Data]

VARIABLES
  strategy,       \* "partial" or "priority", the same for all
  phase,          \* phase[n]: where n's driver stands with regard to the slot
  published,      \* published[n]: what selfPublish has been through
  identities,     \* identities[n]: data n can tell from its hash
  buckets,        \* buckets[n]: data n keeps state for
  held,           \* held[n]: attestations received or published
  validated,      \* validated[n]: those that may be forwarded
  verifying,      \* verifying[n]: sets of attestations with the verifier
  sendCount,      \* sendCount[n][a]: peers a was forwarded to
  requestCount,   \* requestCount[n][a]: requests made for a
  levels,         \* levels[n][k]: entries with sendCount k (priority)
  available,      \* available[n][p]: what p has, as n knows
  pendingWant,    \* pendingWant[n][p]: what p requested from n
  sentAvailable,  \* sentAvailable[n][p]: what n advertised to p
  sentRequests,   \* sentRequests[n][p]: what n requested from p
  sentDataFull,   \* sentDataFull[n][p]: data p was sent with a batch
  sentMetaFull,   \* sentMetaFull[n][p]: data p was sent with metadata
  gossip,         \* gossip[n]: peers n treats as gossip peers
  listTo,         \* listTo[n]: those the next tick advertises to
  chan,           \* chan[n][p]: messages from n to p
  ticking,        \* the node whose tick is under way, or NoNode
  asking,         \* of that tick: pairs of peer and data to choose requests for
  wants,          \* wants[p]: what it chose to request from p
  serving,        \* peers it has yet to visit (priority: in this pass)
  told            \* mesh peers it has advertised to (priority)

slotVars == <<buckets, held, validated, sendCount, requestCount, levels,
              available, pendingWant, sentAvailable, sentRequests>>
sentVars == <<sentDataFull, sentMetaFull>>
peerVars == <<gossip, listTo>>
tickVars == <<ticking, asking, wants, serving, told>>
vars == <<strategy, phase, published, identities, verifying, chan,
          slotVars, sentVars, peerVars, tickVars>>

-----------------------------------------------------------------------------
(* Operators *)

Gossiping == Node \ Fanout
MeshPeers(n) == {p \in Node \ {n} : {n, p} \in Mesh}

(* The peers a tick of n is called with: GossipSub adds the mesh each time. *)
Peers(n) == MeshPeers(n) \cup gossip[n]

(* "fresh": no slot was started yet, and every slot is accepted; "away": in an
   earlier slot, or between two. *)
AcceptsSlot(n) == phase[n] \in {"fresh", "open"}

(* Mutant: a message with data counts as gossip as well. *)
ShowsGossipAnyMetadata(rpc) == rpc.available \cup rpc.requests # {}

(* Mutant: only an advertisement counts as gossip. *)
ShowsGossipAvailable(rpc) ==
  /\ rpc.available # {}
  /\ strategy = "priority" => rpc.sent = {}

(* Metadata marks its sender as a gossip peer; the priority strategy excepts
   what mesh peers attach to data. *)
ShowsGossip(rpc) ==
  /\ rpc.available \cup rpc.requests # {}
  /\ strategy = "priority" => rpc.sent = {}

(* n's level index with newly validated attestations entered. *)
IndexAddValidated(n, atts) ==
  [k \in Count |->
     IF strategy = "priority"
     THEN levels[n][k] \cup {a \in atts : sendCount[n][a] = k} ELSE levels[n][k]]

(* Mutant: the entry stays at its old level. *)
IndexBumpKeeps(n, atts) ==
  [k \in Count |->
     levels[n][k] \cup {a \in atts : sendCount[n][a] + 1 = k}]

(* n's level index after atts were forwarded once more: each moves up a level,
   and from the last one out. *)
IndexBump(n, atts) ==
  [k \in Count |->
     (levels[n][k] \ atts) \cup {a \in atts : sendCount[n][a] + 1 = k}]

(* The counts in c with those of atts one higher. *)
Counted(c, atts) == [a \in Attestation |-> IF a \in atts THEN c[a] + 1 ELSE c[a]]

(* Mutant: no limit to the requests. *)
AskableUncapped(n, p, d) == {a \in available[n][p] \ held[n] : a[1] = d}

(* What n may request from p of data d. *)
Askable(n, p, d) ==
  {a \in available[n][p] \ held[n] :
     a[1] = d /\ requestCount[n][a] < MaxIWantPerPosition}

(* Mutant: what a peer has is not looked at. *)
ClaimsTwice(n, p) ==
  {a \in validated[n] :
     /\ sendCount[n][a] < MaxPeersPerAttestation
     /\ p \in gossip[n] => a \in pendingWant[n][p]}

(* What n has to send to p: to a gossip peer only what it requested. *)
AttestationsToSend(n, p) ==
  {a \in validated[n] :
     /\ sendCount[n][a] < MaxPeersPerAttestation
     /\ a \notin available[n][p]
     /\ p \in gossip[n] => a \in pendingWant[n][p]}

(* Mutant: the last level is left out. *)
IndexedForButLast(n, p) ==
  {a \in UNION {levels[n][k] : k \in Count \ {MaxPeersPerAttestation - 1}} :
     /\ a \notin available[n][p]
     /\ p \in gossip[n] => a \in pendingWant[n][p]}

(* The same, read off the level index. *)
IndexedFor(n, p) ==
  {a \in UNION {levels[n][k] : k \in Count} :
     /\ a \notin available[n][p]
     /\ p \in gossip[n] => a \in pendingWant[n][p]}

Level(n, a) == CHOOSE k \in Count : a \in levels[n][k]

(* Mutant: a chunk in any order. *)
ChunksUnordered(n, p) ==
  {c \in SUBSET IndexedFor(n, p) :
     /\ c # {}
     /\ \/ Cardinality(c) = MaxPerMessage
        \/ Cardinality(c) < MaxPerMessage /\ c = IndexedFor(n, p)}

(* The chunks that may be drawn for p: as many as a message holds, from the
   lowest levels.  Ties are broken by bucket and position in the code; here any
   choice is allowed. *)
Chunks(n, p) ==
  {c \in SUBSET IndexedFor(n, p) :
     /\ c # {}
     /\ \/ Cardinality(c) = MaxPerMessage
        \/ Cardinality(c) < MaxPerMessage /\ c = IndexedFor(n, p)
     /\ \A a \in c, b \in IndexedFor(n, p) \ c : Level(n, a) <= Level(n, b)}

(* Mutant: full data goes to the first peer only. *)
FullBatchesOnce(n, p, atts) ==
  (DataOf(atts) \cap identities[n]) \ UNION {sentDataFull[n][q] : q \in Node}

(* The data of atts that a batch to p carries in full: once per peer. *)
FullBatches(n, p, atts) == (DataOf(atts) \cap identities[n]) \ sentDataFull[n][p]

(* The same for metadata. *)
FullMetadata(n, p, atts) == (DataOf(atts) \cap identities[n]) \ sentMetaFull[n][p]

(* What n has that it did not tell p of yet. *)
News(n, p) == validated[n] \ sentAvailable[n][p]

(* What n advertises to gossip peer p: once per heartbeat, and only news. *)
ListFor(n, p) == IF p \in listTo[n] THEN News(n, p) ELSE {}

Message(n, p, list, reqs, atts) ==
  [available |-> list, requests |-> reqs, metaFull |-> FullMetadata(n, p, list \cup reqs),
   sent |-> atts, dataFull |-> FullBatches(n, p, atts)]

(* A queue with a message, unless there is nothing in it. *)
Sent(queue, rpc) ==
  IF rpc.available \cup rpc.requests \cup rpc.sent = {} THEN queue ELSE Append(queue, rpc)

-----------------------------------------------------------------------------
(* The driver *)

SlotStart(n) ==
  /\ ticking = NoNode
  /\ phase[n] \in {"fresh", "away"}
  /\ phase' = [phase EXCEPT ![n] = "open"]
  /\ UNCHANGED <<strategy, published, identities, verifying, chan,
                 slotVars, sentVars, peerVars, tickVars>>

(* The driver publishes all of its attestations in a slot or none, before it ends
   the slot. *)
SlotEnd(n) ==
  /\ ticking = NoNode
  /\ phase[n] = "open" /\ n \in Ending
  /\ published[n] \in {{}, Own[n]}
  /\ phase'         = [phase EXCEPT ![n] = "closed"]
  /\ buckets'       = [buckets EXCEPT ![n] = {}]
  /\ held'          = [held EXCEPT ![n] = {}]
  /\ validated'     = [validated EXCEPT ![n] = {}]
  /\ sendCount'     = [sendCount EXCEPT ![n] = [a \in Attestation |-> 0]]
  /\ requestCount'  = [requestCount EXCEPT ![n] = [a \in Attestation |-> 0]]
  /\ levels'        = [levels EXCEPT ![n] = [k \in Count |-> {}]]
  /\ available'     = [available EXCEPT ![n] = [p \in Node |-> {}]]
  /\ pendingWant'   = [pendingWant EXCEPT ![n] = [p \in Node |-> {}]]
  /\ sentAvailable' = [sentAvailable EXCEPT ![n] = [p \in Node |-> {}]]
  /\ sentRequests'  = [sentRequests EXCEPT ![n] = [p \in Node |-> {}]]
  /\ UNCHANGED <<strategy, published, identities, verifying, chan,
                 sentVars, peerVars, tickVars>>

(* selfPublish of a node that is not a fanout node: the attestation is validated
   at once. *)
PublishLocal(n, a) ==
  /\ ticking = NoNode
  /\ n \notin Fanout /\ phase[n] = "open"
  /\ a \in Own[n] \ published[n]
  /\ published'  = [published EXCEPT ![n] = @ \cup {a}]
  /\ identities' = [identities EXCEPT ![n] = @ \cup {a[1]}]
  /\ buckets'    = [buckets EXCEPT ![n] = @ \cup {a[1]}]
  /\ held'       = [held EXCEPT ![n] = @ \cup {a}]
  /\ IF a \in held[n]
     THEN UNCHANGED <<validated, levels>>
     ELSE /\ validated' = [validated EXCEPT ![n] = @ \cup {a}]
          /\ levels'    = [levels EXCEPT ![n] = IndexAddValidated(n, {a})]
  /\ UNCHANGED <<strategy, phase, verifying, sendCount, requestCount, available, pendingWant,
                 sentAvailable, sentRequests, chan, sentVars, peerVars, tickVars>>

(* A fanout node sends its attestation to all its peers and keeps no state. *)
FanoutPublish(n, a) ==
  /\ ticking = NoNode
  /\ n \in Fanout /\ phase[n] = "open"
  /\ a \in Own[n] \ published[n]
  /\ published' = [published EXCEPT ![n] = @ \cup {a}]
  /\ chan' = [chan EXCEPT ![n] =
       [p \in Node |->
          IF p \in FanoutPeers[n]
          THEN Append(@[p], [available |-> {}, requests |-> {}, metaFull |-> {},
                             sent |-> {a}, dataFull |-> {a[1]}])
          ELSE @[p]]]
  /\ UNCHANGED <<strategy, phase, identities, verifying,
                 slotVars, sentVars, peerVars, tickVars>>

-----------------------------------------------------------------------------
(* Callbacks of GossipSub and of the verifier *)

(* A message that the slot does not accept is dropped as a whole: what it says of
   identities is lost too. *)
DropRPC(n, p) ==
  /\ ticking = NoNode
  /\ chan[p][n] # <<>> /\ ~AcceptsSlot(n)
  /\ chan' = [chan EXCEPT ![p][n] = Tail(@)]
  /\ UNCHANGED <<strategy, phase, published, identities, verifying,
                 slotVars, sentVars, peerVars, tickVars>>

(* The data n can tell from its hash once it has read a message. *)
Known(n, rpc) == identities[n] \cup rpc.metaFull \cup rpc.dataFull

(* Metadata first, then batches.  A batch whose hash is unknown is dropped; the
   rest of it is new to the node or not, and what is new goes to the verifier,
   one submission per batch. *)
OnIncomingRPC(n, p) ==
  /\ ticking = NoNode
  /\ chan[p][n] # <<>> /\ AcceptsSlot(n)
  /\ LET rpc   == Head(chan[p][n])
         known == Known(n, rpc)
         got   == {a \in rpc.sent : a[1] \in known}
         new   == got \ held[n]
     IN /\ identities'  = [identities EXCEPT ![n] = known]
        /\ buckets'     = [buckets EXCEPT ![n] =
                             @ \cup DataOf(rpc.available \cup rpc.requests \cup got)]
        /\ available'   = [available EXCEPT ![n][p] = @ \cup rpc.available \cup got]
        /\ pendingWant' = [pendingWant EXCEPT ![n][p] = @ \cup rpc.requests]
        /\ gossip'      = [gossip EXCEPT ![n] = IF ShowsGossip(rpc) THEN @ \cup {p} ELSE @]
        /\ held'        = [held EXCEPT ![n] = @ \cup new]
        /\ verifying'   = [verifying EXCEPT ![n] =
                             @ \cup {{a \in new : a[1] = d} : d \in DataOf(new)}]
  /\ chan' = [chan EXCEPT ![p][n] = Tail(@)]
  /\ UNCHANGED <<strategy, phase, published, validated, sendCount, requestCount, levels,
                 sentAvailable, sentRequests, sentVars, listTo, tickVars>>

(* Mutant: it is not looked whether there is a bucket. *)
MarkValidatedAnyway(n, atts) ==
  /\ ticking = NoNode
  /\ atts \in verifying[n]
  /\ verifying' = [verifying EXCEPT ![n] = @ \ {atts}]
  /\ validated' = [validated EXCEPT ![n] = @ \cup atts]
  /\ levels'    = [levels EXCEPT ![n] = IndexAddValidated(n, atts)]
  /\ UNCHANGED <<strategy, phase, published, identities, buckets, held, sendCount,
                 requestCount, available, pendingWant, sentAvailable, sentRequests,
                 chan, sentVars, peerVars, tickVars>>

(* The verifier calls back; without a bucket there is nothing to promote. *)
MarkValidated(n, atts) ==
  /\ ticking = NoNode
  /\ atts \in verifying[n]
  /\ verifying' = [verifying EXCEPT ![n] = @ \ {atts}]
  /\ IF DataOf(atts) \subseteq buckets[n]
     THEN /\ validated' = [validated EXCEPT ![n] = @ \cup atts]
          /\ levels'    = [levels EXCEPT ![n] = IndexAddValidated(n, atts)]
     ELSE UNCHANGED <<validated, levels>>
  /\ UNCHANGED <<strategy, phase, published, identities, buckets, held, sendCount,
                 requestCount, available, pendingWant, sentAvailable, sentRequests,
                 chan, sentVars, peerVars, tickVars>>

(* The heartbeat of GossipSub selects some peers outside the mesh. *)
OnEmitGossip(n, ps) ==
  /\ ticking = NoNode
  /\ ~DisableIHaveGossip
  /\ n \in Gossiping
  /\ ps \subseteq Gossiping \ (MeshPeers(n) \cup {n})
  /\ gossip' = [gossip EXCEPT ![n] = @ \cup ps]
  /\ listTo' = [listTo EXCEPT ![n] = @ \cup ps]
  /\ UNCHANGED <<strategy, phase, published, identities, verifying, chan,
                 slotVars, sentVars, tickVars>>

-----------------------------------------------------------------------------
(* The publish tick *)

(* Peers for which a tick of n changes anything; a tick without any is no step. *)
Due(n) == {p \in Peers(n) :
             p \in gossip[n] \/ pendingWant[n][p] # {} \/ AttestationsToSend(n, p) # {}}

PublishTick(n) ==
  /\ ticking = NoNode
  /\ n \in Gossiping
  /\ buckets[n] # {} /\ Due(n) # {}
  /\ ticking' = n
  /\ asking'  = {pd \in gossip[n] \X buckets[n] : Askable(n, pd[1], pd[2]) # {}}
  /\ serving' = Peers(n)
  /\ UNCHANGED <<strategy, phase, published, identities, verifying, chan,
                 slotVars, sentVars, peerVars, wants, told>>

(* The requests for one bucket and gossip peer are chosen and counted, whether or
   not they will be sent.  Go visits the peers in any order. *)
SelectIWantTargets(n, p, d) ==
  /\ ticking = n
  /\ <<p, d>> \in asking
  /\ asking' = asking \ {<<p, d>>}
  /\ LET chosen == Askable(n, p, d)
     IN /\ requestCount' = [requestCount EXCEPT ![n] = Counted(@, chosen)]
        /\ wants' = [wants EXCEPT ![p] = @ \cup chosen]
  /\ UNCHANGED <<strategy, phase, published, identities, verifying, chan, buckets, held,
                 validated, sendCount, levels, available, pendingWant, sentAvailable,
                 sentRequests, sentVars, peerVars, ticking, serving, told>>

(* Mutant: the requests of all peers are void, once one is served. *)
VoidAllRequests(n, p) == [pendingWant EXCEPT ![n] = [q \in Node |-> {}]]

(* The requests of p are void after a tick, served or not. *)
VoidRequests(n, p) == [pendingWant EXCEPT ![n][p] = {}]

(* Partial strategy: all that p gets from this tick, in one message. *)
PublishTo(n, p) ==
  LET atts == AttestationsToSend(n, p)
      list == ListFor(n, p)
      reqs == wants[p] \ sentRequests[n][p]
      rpc  == Message(n, p, list, reqs, atts)
  IN /\ available'     = [available EXCEPT ![n][p] = @ \cup atts]
     /\ sendCount'     = [sendCount EXCEPT ![n] = Counted(@, atts)]
     /\ pendingWant'   = VoidRequests(n, p)
     /\ sentAvailable' = [sentAvailable EXCEPT ![n][p] = @ \cup list]
     /\ sentRequests'  = [sentRequests EXCEPT ![n][p] = @ \cup reqs]
     /\ sentDataFull'  = [sentDataFull EXCEPT ![n][p] = @ \cup rpc.dataFull]
     /\ sentMetaFull'  = [sentMetaFull EXCEPT ![n][p] = @ \cup rpc.metaFull]
     /\ chan'          = [chan EXCEPT ![n][p] = Sent(@, rpc)]

(* A gossip peer is served once and dropped; a heartbeat or a message of its own
   brings it back. *)
VisitPeer(n, p) ==
  /\ strategy = "partial"
  /\ ticking = n /\ asking = {}
  /\ p \in serving
  /\ PublishTo(n, p)
  /\ gossip'  = [gossip EXCEPT ![n] = @ \ {p}]
  /\ listTo'  = [listTo EXCEPT ![n] = @ \ {p}]
  /\ serving' = serving \ {p}
  /\ ticking' = IF serving = {p} THEN NoNode ELSE n
  /\ wants'   = [wants EXCEPT ![p] = {}]
  /\ UNCHANGED <<strategy, phase, published, identities, verifying, buckets, held,
                 validated, requestCount, levels, asking, told>>

(* Priority strategy: peers there is a chunk for. *)
Needy(n) == {p \in Peers(n) : IndexedFor(n, p) # {}}

(* One chunk to one peer, committed before the next is drawn.  Passes over the
   peers follow each other until nobody needs anything.  A mesh peer for which
   there is more than this chunk is told what the node has, once a tick. *)
DrawChunk(n, p, chunk) ==
  /\ strategy = "priority"
  /\ ticking = n /\ asking = {}
  /\ p \in Needy(n)
  /\ p \in serving \/ serving \cap Needy(n) = {}
  /\ chunk \in Chunks(n, p)
  /\ LET more == IndexedFor(n, p) # chunk
         tell == SendAvailableWithData /\ more /\ p \notin gossip[n] /\ p \notin told
         list == IF tell THEN News(n, p) ELSE {}
         rpc  == Message(n, p, list, {}, chunk)
     IN /\ available'     = [available EXCEPT ![n][p] = @ \cup chunk]
        /\ sendCount'     = [sendCount EXCEPT ![n] = Counted(@, chunk)]
        /\ levels'        = [levels EXCEPT ![n] = IndexBump(n, chunk)]
        /\ sentAvailable' = [sentAvailable EXCEPT ![n][p] = @ \cup list]
        /\ sentDataFull'  = [sentDataFull EXCEPT ![n][p] = @ \cup rpc.dataFull]
        /\ sentMetaFull'  = [sentMetaFull EXCEPT ![n][p] = @ \cup rpc.metaFull]
        /\ told'          = IF list # {} THEN told \cup {p} ELSE told
        /\ chan'          = [chan EXCEPT ![n][p] = Sent(@, rpc)]
  /\ serving' = (IF p \in serving THEN serving ELSE Peers(n)) \ {p}
  /\ UNCHANGED <<strategy, phase, published, identities, verifying, buckets, held,
                 validated, requestCount, pendingWant, sentRequests, peerVars,
                 ticking, asking, wants>>

(* When all chunks are out: requests are void, every gossip peer gets its metadata
   in a message of its own and is dropped. *)
CloseTick(n) ==
  /\ strategy = "priority"
  /\ ticking = n /\ asking = {}
  /\ Needy(n) = {}
  /\ LET list == [p \in Node |-> IF p \in gossip[n] THEN ListFor(n, p) ELSE {}]
         reqs == [p \in Node |-> IF p \in gossip[n] THEN wants[p] \ sentRequests[n][p] ELSE {}]
         rpc  == [p \in Node |-> Message(n, p, list[p], reqs[p], {})]
     IN /\ pendingWant'   = [pendingWant EXCEPT ![n] =
                               [p \in Node |-> IF p \in Peers(n) THEN {} ELSE @[p]]]
        /\ sentAvailable' = [sentAvailable EXCEPT ![n] = [p \in Node |-> @[p] \cup list[p]]]
        /\ sentRequests'  = [sentRequests EXCEPT ![n] = [p \in Node |-> @[p] \cup reqs[p]]]
        /\ sentMetaFull'  = [sentMetaFull EXCEPT ![n] =
                               [p \in Node |-> @[p] \cup rpc[p].metaFull]]
        /\ chan' = [chan EXCEPT ![n] = [p \in Node |-> Sent(@[p], rpc[p])]]
  /\ gossip'  = [gossip EXCEPT ![n] = {}]
  /\ listTo'  = [listTo EXCEPT ![n] = {}]
  /\ ticking' = NoNode
  /\ wants'   = [p \in Node |-> {}]
  /\ serving' = {}
  /\ told'    = {}
  /\ UNCHANGED <<strategy, phase, published, identities, verifying, buckets, held, validated,
                 sendCount, requestCount, levels, available, sentDataFull, asking>>

-----------------------------------------------------------------------------
(* Specification *)

Init ==
  /\ strategy \in {"partial", "priority"}
  /\ phase         = [n \in Node |-> StartPhase]
  /\ published     = [n \in Node |-> {}]
  /\ identities    = [n \in Node |-> {}]
  /\ buckets       = [n \in Node |-> {}]
  /\ held          = [n \in Node |-> {}]
  /\ validated     = [n \in Node |-> {}]
  /\ verifying     = [n \in Node |-> {}]
  /\ sendCount     = [n \in Node |-> [a \in Attestation |-> 0]]
  /\ requestCount  = [n \in Node |-> [a \in Attestation |-> 0]]
  /\ levels        = [n \in Node |-> [k \in Count |-> {}]]
  /\ available     = [n \in Node |-> [p \in Node |-> {}]]
  /\ pendingWant   = [n \in Node |-> [p \in Node |-> {}]]
  /\ sentAvailable = [n \in Node |-> [p \in Node |-> {}]]
  /\ sentRequests  = [n \in Node |-> [p \in Node |-> {}]]
  /\ sentDataFull  = [n \in Node |-> [p \in Node |-> {}]]
  /\ sentMetaFull  = [n \in Node |-> [p \in Node |-> {}]]
  /\ gossip        = [n \in Node |-> {}]
  /\ listTo        = [n \in Node |-> {}]
  /\ chan          = [n \in Node |-> [p \in Node |-> <<>>]]
  /\ ticking       = NoNode
  /\ asking        = {}
  /\ wants         = [p \in Node |-> {}]
  /\ serving       = {}
  /\ told          = {}

TickStep(n) ==
  \/ \E p \in Node, d \in Data : SelectIWantTargets(n, p, d)
  \/ \E p \in Node : VisitPeer(n, p)
  \/ \E p \in Node, chunk \in SUBSET validated[n] : DrawChunk(n, p, chunk)
  \/ CloseTick(n)

NodeStep(n) ==
  \/ SlotStart(n) \/ SlotEnd(n)
  \/ \E a \in Own[n] : PublishLocal(n, a) \/ FanoutPublish(n, a)
  \/ \E p \in Node : DropRPC(n, p) \/ OnIncomingRPC(n, p)
  \/ \E atts \in verifying[n] : MarkValidated(n, atts)
  \/ \E ps \in SUBSET Node : OnEmitGossip(n, ps)
  \/ PublishTick(n)

Next == \E n \in Node : NodeStep(n) \/ TickStep(n)

Spec == Init /\ [][Next]_vars

(* Messages are delivered and the verifier calls back; there are only finitely many
   of both, so it need not be said of each.  Tickers keep ticking, and heartbeats
   select every peer again and again.  Each of these may have to wait for a tick,
   which comes and goes, hence strong fairness.  Nothing makes a driver start,
   publish or end a slot. *)
Fairness ==
  /\ WF_vars(\E n \in Node : TickStep(n))
  /\ SF_vars(\E n \in Node : \/ \E p \in Node : OnIncomingRPC(n, p)
                             \/ \E atts \in verifying[n] : MarkValidated(n, atts))
  /\ \A n \in Gossiping : SF_vars(PublishTick(n))
  /\ \A n \in Gossiping : \A p \in Gossiping \ (MeshPeers(n) \cup {n}) :
       SF_vars(\E ps \in SUBSET Node : p \in ps /\ OnEmitGossip(n, ps))

LiveSpec == Spec /\ Fairness

-----------------------------------------------------------------------------
(* Properties *)

TypeOK ==
  /\ strategy \in {"partial", "priority"}
  /\ phase \in [Node -> {"fresh", "away", "open", "closed"}]
  /\ published \in [Node -> SUBSET Attestation]
  /\ identities \in [Node -> SUBSET Data]
  /\ buckets \in [Node -> SUBSET Data]
  /\ held \in [Node -> SUBSET Attestation]
  /\ validated \in [Node -> SUBSET Attestation]
  /\ verifying \in [Node -> SUBSET (SUBSET Attestation)]
  /\ sendCount \in [Node -> [Attestation -> Nat]]
  /\ requestCount \in [Node -> [Attestation -> Nat]]
  /\ levels \in [Node -> [Count -> SUBSET Attestation]]
  /\ available \in [Node -> [Node -> SUBSET Attestation]]
  /\ pendingWant \in [Node -> [Node -> SUBSET Attestation]]
  /\ sentAvailable \in [Node -> [Node -> SUBSET Attestation]]
  /\ sentRequests \in [Node -> [Node -> SUBSET Attestation]]
  /\ sentDataFull \in [Node -> [Node -> SUBSET Data]]
  /\ sentMetaFull \in [Node -> [Node -> SUBSET Data]]
  /\ gossip \in [Node -> SUBSET Node]
  /\ listTo \in [Node -> SUBSET Node]
  /\ chan \in [Node -> [Node -> Seq(RPC)]]
  /\ ticking \in Node \cup {NoNode}
  /\ asking \subseteq Node \X Data
  /\ wants \in [Node -> SUBSET Attestation]
  /\ serving \subseteq Node
  /\ told \subseteq Node

(* The cap on requests holds of what is sent: for one attestation no more peers
   are asked than the cap allows, however many ticks and heartbeats go by. *)
RequestsCapped ==
  \A n \in Node, x \in Attestation :
    Cardinality({p \in Node : x \in sentRequests[n][p]}) <= MaxIWantPerPosition

(* Forward counts are right: within the ceiling, and every forward has its peer, so
   no peer is counted twice and none is sent the same attestation twice. *)
SendsCounted ==
  \A n \in Node, x \in Attestation :
    /\ sendCount[n][x] <= MaxPeersPerAttestation
    /\ sendCount[n][x] <= Cardinality({p \in Node : x \in available[n][p]})

(* When no node starts the slot late, none is wrong about another that has not
   ended it: what n takes p to have p holds, or it is on its way to p. *)
KnownOrOnItsWay ==
  StartPhase # "away" =>
    \A n, p \in Gossiping : phase[p] # "closed" =>
      available[n][p] \subseteq
        held[p] \cup UNION {chan[n][p][i].sent : i \in 1 .. Len(chan[n][p])}

(* Nor is a batch sent whose hash its receiver cannot tell, whichever of the two
   kinds of message carried the data before. *)
HashesResolvable ==
  StartPhase # "away" =>
    \A n, p \in Node : phase[p] # "closed" =>
      \A i \in 1 .. Len(chan[n][p]) :
        DataOf(chan[n][p][i].sent) \subseteq
          identities[p] \cup UNION {chan[n][p][j].metaFull \cup chan[n][p][j].dataFull : j \in 1 .. i}

(* Two nodes in each other's mesh never come to treat each other as gossip peers,
   which would stop the push: not by what is attached to data either. *)
MeshNotGossip == \A n \in Node : gossip[n] \cap MeshPeers(n) = {}

(* A request waits only while its peer is up for the next tick; one that is
   remembered for a peer no tick visits would never be served. *)
RequestsAreServed ==
  \A n \in Node, p \in Node : pendingWant[n][p] # {} => p \in gossip[n]

(* Gossip is said once: what was advertised to a peer is not advertised to it
   again, nor a request repeated.  So, when no node starts the slot late, none is
   lost on a node that has not ended it: an advertisement is on its way or known,
   and a request is on its way, waits for the next tick, was answered, or came
   when the attestation had been forwarded as often as it may be. *)
GossipNotLost ==
  StartPhase # "away" =>
    \A n, p \in Gossiping : phase[p] # "closed" =>
      /\ sentAvailable[n][p] \subseteq
           available[p][n] \cup UNION {chan[n][p][i].available : i \in 1 .. Len(chan[n][p])}
      /\ \A x \in sentRequests[n][p] :
           \/ \E i \in 1 .. Len(chan[n][p]) : x \in chan[n][p][i].requests
           \/ x \in pendingWant[p][n] /\ n \in gossip[p]
           \/ x \in available[p][n]
           \/ sendCount[p][x] = MaxPeersPerAttestation

(* Invariant of the level index: an attestation is on exactly the level of its
   forward count while it is validated and below the ceiling, and on none else. *)
IndexInvariant ==
  strategy = "priority" =>
    \A n \in Node, k \in Count :
      levels[n][k] = {x \in validated[n] : sendCount[n][x] = k}

(* What a node has for a mesh peer. *)
Sendable(n, p) ==
  {x \in validated[n] : sendCount[n][x] < MaxPeersPerAttestation /\ x \notin available[n][p]}

(* Nothing sendable is dropped: a tick does not end while a mesh peer lacks what
   the node could forward to it, whatever the message size. *)
TickDrains ==
  [][\A n \in Node : ticking = n /\ ticking' = NoNode =>
       \A p \in MeshPeers(n) : Sendable(n, p)' = {}]_vars

(* Least-forwarded first: what a mesh peer is sent was forwarded no more often than
   what it has to wait for, as the counts have it, not the index. *)
LeastForwardedFirst ==
  [][strategy = "priority" =>
       \A n \in Node : \A p \in MeshPeers(n) :
         \A x \in Sendable(n, p) \cap available'[n][p], y \in Sendable(n, p)' :
           ticking = n => sendCount[n][x] <= sendCount[n][y]]_vars

(* Whatever the strategy, whoever is slow, drops messages or ends the slot early:
   nothing is held that nobody published, it is held and verified once, and a node
   that has ended the slot never has anything again, a late result included. *)
Disseminated == INSTANCE Dissemination WITH ended <- {n \in Node : phase[n] = "closed"}
DissSpec     == Disseminated!DissSpec

(* What is published gets to everyone, over the mesh or by gossip, and is validated
   there, unless somebody ends the slot first. *)
Converges ==
  \A x \in Attestation :
    (\E n \in Node : x \in published[n])
      ~> \/ \A n \in Gossiping : x \in validated[n]
         \/ \E n \in Node : phase[n] = "closed"

=============================================================================
