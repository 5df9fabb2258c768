# Verification of batched-attestation-sim

TLA+ specifications of the forwarding core of this repository, model-checked
with TLC, and proofs about them checked with TLAPS. Paths below are relative to
`src/cmd/attestation/` unless they start with `src/`.

The program simulates how validators' attestations spread in one committee
subnet. A node publishes its own attestation, receives others' in batches, has
every batch verified by a slow batch verifier, and forwards what is verified.
Three strategies share that frame: `partial` and `partial_priority` ride on
GossipSub's partial messages, `att_propagation` is a protocol of its own on
libp2p streams. All three are modelled, with the verifier they share.

## 1. Inventory

| component | source | state | operations | interacts through |
|---|---|---|---|---|
| batch verifier | `verify/verify.go` | queue, notify channel of capacity one, `stopped`, Run's timer | `Submit`, `SubmitAndWait`, `Run`, `Stop` | call backs into the strategies |
| attprop mesh | `node/attprop/mesh.go` | role and two backoffs per peer | `onGraft`, `onPrune`, `heartbeat` | control frames between nodes |
| scarcity index | `node/attprop/state.go` | buckets, available bitmaps, holder counts, levels | `markHolder`, `addReceived`, `indexAddValidated`, `selectOneChunkForPeer`, `rollbackChunk` | called by the event loop only |
| event loop, send scheduler | `node/attprop/eventloop.go` | senders, in-flight flags, budget account, `sentFull` | `dispatch` of twelve events, `trySelectAndSend`, `send` | events channel in, sender goroutines out |
| slot lifecycle | `node/attprop/eventloop.go`, `attprop.go` | active slot, highest closed slot, slots | `SlotStart`, `SlotEnd`, `acceptsSlot`, `slotForHash` | a second, unbuffered channel into the loop |
| bitmap stream | `node/attprop/bitmap_stream.go`, `bitmap_writer.go` | last advertised bitmaps, replaceable queue | emit, fold in | bitmap frames |
| stream set-up | `node/attprop/wire.go`, `attprop.go` | opening claims, pending halves | open, accept, `readLoop`, `post` | libp2p streams, events |
| identity caches | `node/attprop/att_data_hash.go`, `node/att_data_hash.go` | hash to data | `Put`, `Get` | every message that names data by hash |
| partial manager | `node/partial.go` | buckets, forward and request counts, per peer what it has, wants and was told | `publishLocal`, `onIncomingRPC`, `onEmitGossip`, publish tick, slot start and end | pubsub, verifier |
| partial-priority manager | `node/partial_priority.go` | the same, and an index by forward counts | the same, with a tick that draws chunks in passes over the peers | pubsub, verifier |
| node driver | `node/node.go` | slots, managers, shutdown | run, publish, stop | all of the above |
| the rest | fanout, bandwidth, tracers, network, config, main, `pb`, `src/simctl`, `src/analysis` | little or none | input, output, logging | |

What is hard here:

* *Concurrency.* The manager's state has one owner, its event loop, but readers,
  sender goroutines, timers and verifier call backs post events from outside,
  and these can be late: an event carries a peer, never the stream set it
  belongs to. The verifier mixes a mutex, a one-token channel and a timer.
* *Ordering.* Slot boundaries come over another channel than publications;
  grafts cross; a graft can arrive before the peer's stream set is registered.
* *Failure.* Writes fail, streams reset, peers come back, control frames are
  dropped by a full writer, a full sender queue makes a committed draw roll back;
  what a peer was told or asked is never repeated, so a message that is dropped
  at a slot's boundary is not made up for.
* *Timeouts.* Partial batches wait for a tick, batches for the window, grafts
  for the backoff.

What makes each component correct:

* verifier: every submission is called back exactly once and in order, no
  wake-up is lost, the window holds, Stop ends it;
* index: the holder count equals the holders, the index holds exactly what is
  validated at its count, each candidate is verified once, draws are scarcest;
* scheduler: the budget account is exact, bitmap peers only get spare budget,
  one frame in flight per peer, nothing sent twice, a hash never precedes its
  data on a stream, nothing sendable waits for an unrelated event, push peers
  are sent everything;
* mesh: the caps hold, negotiations end, the two ends agree;
* slot lifecycle: a closed slot never regains state, an open one loses none, what is
  held is verified once;
* bitmap writer: the differences add up to what is validated;
* stream set-up: at most one live stream set per pair, both ends up or neither;
* partial strategies: a tick sends all there is to send, least forwarded first;
  counts, caps and the index stay right over many ticks; what a node takes its
  peers to have is true; hashes can be resolved; a mesh peer is never taken for a
  gossip peer; no request is forgotten; what is published gets to everyone.

`PROJECT.json` lists the components with their status and every hazard with its
line and the properties that cover it.

## 2. Modules

| module | models | built on |
|---|---|---|
| `ScarcityIndex` | `state.go` for one (topic, slot), the operations the event loop calls on it | |
| `Forwarding` | the send policy alone: who may be sent what, with a send as one step and no counts, levels or passes (abstract) | |
| `SendScheduler` | `eventloop.go` for one node: the loop, its passes, the sender goroutines, readers | `EXTENDS ScarcityIndex`, instantiates `Forwarding` |
| `VerifyGate` | what a verifier promises: a first-in, first-out gate (abstract) | |
| `Verifier` | `verify.go` | instantiates `VerifyGate` |
| `AttpropMesh` | `mesh.go` and its callers, several nodes and their control streams | |
| `Advertisement` | what the bitmap streams of a node promise its peers (abstract) | |
| `BitmapWriter` | `bitmap_writer.go`, `bitmap_stream.go` and their callers: one node, its peers' writers and what the peers read | instantiates `Advertisement` |
| `SlotLifecycle` | the slots of a node, its driver in `node.go`, and what is filed, dropped or remembered when events meet slot boundaries | |
| `Dissemination` | what forwarding comes to, whatever the strategy: what is published is held, verified once, and dropped at the slot's end (abstract) | |
| `PartialMessages` | `partial.go`, `partial_priority.go`, their identity cache and `runPartial` with `selfPublish`: several nodes, their mesh, gossip and channels | instantiates `Dissemination` |
| `ScarcityIndexProofs`, `SendSchedulerProofs`, `VerifierProofs`, `AttpropMeshProofs`, `BitmapWriterProofs`, `SlotLifecycleProofs`, `PartialMessagesProofs` | theorems | the modules they name |
| `PartialDeliveryProofs` | theorems about what is on its way between nodes | `EXTENDS PartialMessagesProofs` |
| `MC...` | small instances for TLC | |

### ScarcityIndex

A candidate is a pair of an attestation_data and a position, as in the code. The
maps of a bucket are sets and functions over all candidates. `levels` is a
function with a domain 0..n-1, the Go slice; it grows as `ensureLevel` does.
`MarkHolders` is `markHolder` for a set of positions at once. A draw
(`Draws`) is any outcome of the walk of the levels over Go maps: it ends at
`MaxAttsPerMessage`, in any order inside a level, but leaves a bucket of a level
unfinished only at the very end. `hand` is the chunk between
`selectOneChunkForPeer` and the end of `send`: the only moment the code's state
is half-way, and the place where a full queue makes it roll back.
An envelope is one batch per step, since the code handles batches one after the
other and schedules only after the last one; scheduling in between is one more
behaviour, not one less. Indices out of range and batches with unequal lengths
are dropped by the code before anything changes, and are left out.

### SendScheduler and Forwarding

`dispatch` is an event action followed by `StartPass`; a pass is a loop of
`ServePush`, `PushLoopDone`, `ServeBitmap`, `BitmapLoopDone` over the senders in
any order (Go map order), with `Enqueue` or `QueueFull` for each chunk drawn. No
event is dispatched before the pass ends (`Idle`); the sender goroutines run in
between. A tick runs two passes, the first with `sendAllToPushMesh`. A sender's
channel has capacity one (`work`), plus the frame being written (`writing`).
Posted events are counted, not queued, so that they are dispatched in any order:
the goroutine that posts may be delayed between its work and its post. Mesh
roles are given by `MeshChange`, any at any time, since this module asks what
the scheduler does whatever the mesh decides. `spare`, `handed` and `known` are
history variables: the send started for a bitmap peer, what was ever handed
over, and what full data the present stream has carried.

`Forwarding` says what all this is for, and shares no definition with it: a send is
one step, to a peer that is not being sent to, of what is validated and held by fewest
peers among what that peer lacks; push peers always, bitmap peers within the budget and
only what is scarce; what a peer is taken to hold is only added to. `ForwardSpec` is
that policy under a mapping: a chunk in hand, though it is counted already, is not held
yet (`SettledAvail`), a peer is being sent to while it is `inFlight`, and the send takes
place at `Enqueue`. So the draw, made earlier and from the levels, has to be right by who
really holds what at the hand-over; a draw and its roll-back have to cancel out; and
completions, tear-downs and reconnects may free a sender, but take back nothing a peer
was sent.

### Verifier and VerifyGate

Each critical section of the mutex is a step. `notify` is the token; `timer` is
the Go timer with its channel (a fired timer waits there until it is received
or reset, as since Go 1.23), `timerRunning` is Run's own belief about it.
`SubmitAndWait` is `Submit` for the verifier's state. A call back per step lets
submitters, who are often called back strategies, run in between.

### AttpropMesh

Roles and backoffs of every node, one control queue per direction that loses
what exceeds `WriterBuf`. `ReceiveControl` is `onInboundControl`: the prune of
the frame, its graft, the reply. `Heartbeat` is the whole maintenance: push
top-up with fresh peers, then promotions, push trim, bitmap top-up, bitmap trim,
and the frames. The code picks peers in the order of their identifiers; the
module picks any. Stream sets come up separately at each end (`PeerUp`), and
frames may arrive before that. Wall-clock backoffs are sets: armed, then over.

### BitmapWriter and Advertisement

One node tells its peers what it has validated. The event loop's steps are
`Validate`, the two timers (`EmitBitmaps`, `EmitPushMeshBitmaps`), `OnPeerUp`,
`OnPeerDown` and `MeshChange`, any role at any time, with the seeding of a peer
that enters the bitmap mesh; as in the code a role may change before `OnPeerUp`.
A writer's goroutine is `Wake` (the token of the channel of capacity one is
taken), `GetNextBitmap` (the critical section) and `WriteSucceeds` or
`WriteFails`; the event loop runs in between. The code queues bitmaps of the
same data and reads the last one, so `pending` keeps the last one. A frame is a
set of metadata items, each with the positions it adds; whether ids or a bitmap
carry them is the code's cost rule (`IDsOrBitmap`). An attestation_data belongs
to one slot, so the pair (slot, hash) of the code is a member of `Data`. On the
other side `OnInboundBitmap` folds the head of the stream, stopping at a hash it
does not know; Go map order makes any item of the frame the one it stops at.
`OnPeerDown` leaves any prefix of what was written to be read. A peer keeps what
it was told when a stream set ends, since the code keeps a departed peer's bits.
Old frames are read before those of a new stream set; since each stream set names
its data anew and views only grow, the other order adds nothing. The switch
`DisableBitmapSends` is taken as off.

### SlotLifecycle

`SlotStart` and `SlotEnd` are one step each: the driver waits until the event loop
has handled the command. A publication is posted (`publishing`) and dispatched by
`OnPublishLocal`, before or after the end of its slot, since Go's `select` takes
commands and events in any order. `verifying` holds submissions together with the
validatedEvents they become; both are first in, first out. Frames of the push and
bitmap streams of one peer are read by `OnInboundData` and `OnInboundBitmap`, the
frames of a stream in order, the two streams in any; a frame carries one batch
or one metadata item. The peer is the environment: another node, whose
driver is at most one slot ahead or behind. `buckets`, `atts` and `validated` are
kept per slot and data, because push data is filed under the slot the code
resolves for it, not under its own. Holder counts and the scheduler's use of the
slots are in the other modules. The peer does not reconnect; a new stream set would
name its data in full again. `dropped` is a history variable: data that was named
in full in metadata of a slot that was not accepted.

### PartialMessages and Dissemination

Several nodes run one of the two strategies, the same for all, chosen in `Init`.
`priorityAttestationManager` differs from `partialAttestationManager` in its tick, its
index and in when metadata makes a gossip peer, so that one module serves for
both; `strategy` stands in the guards and expressions where they differ. The
positions of a bucket and the buckets of a slot are one set of attestations, a pair of
data and position each; bitmaps are sets.

A tick locks the manager and reads the map of peers in Go's order. It is split
into the steps whose order matters: `PublishTick`, then a `SelectIWantTargets` for each
peer and bucket, then either one `VisitPeer` per peer (`partial`) or `DrawChunk`s in
passes and `CloseTick` (`partial_priority`). While a tick is under way nothing else
happens: it holds the node's mutex, and no step of one node reads or writes what is
another's but the channels, to which a tick only appends. A tick in which no peer
has anything due is no step. `Peers(n)` is the map a tick is called with: GossipSub
adds the mesh each time (external), gossip peers are in it from a heartbeat or a message of
theirs until they are served. A draw takes `MaxPerMessage` entries from the lowest
levels; ties, which the code breaks by bucket and position, may go any way, and the
peers of a pass come in any order.

`OnIncomingRPC` is the whole handler: the metadata, then the batches. A message
is one record: what is advertised and requested, what is sent, and which data go in
full. `DropRPC` is the same handler for a slot that is not accepted. A channel between
two nodes keeps order and loses nothing (libp2p streams). The verifier is the
set of submissions it has not called back; that it calls back is `Verifier`'s result.

There is one topic and one slot. `StartPhase` says where the drivers are at the
beginning: before the first slot, where every slot is accepted ("fresh"), away in an
earlier one ("away"), or in the slot ("open"). `Ending` are the nodes whose drivers may get
to its end. A fanout node only publishes (`FanoutPublish`, to `FanoutPeers`). Every peer
asks for partial messages, and GossipSub's mesh does not change; it forgets the
state of a group after ten heartbeats, longer than a slot.

`Dissemination` keeps of all this what nodes published, hold and have validated, and
which ended the slot; the refinement takes `ended` to be the nodes whose `phase` is
"closed". Its `Receive` files any set of published attestations that is not held, its
`Verify` promotes what is held and not validated, and nothing else may change either
set before `End`; ticks, channels, gossip and counts are stutters.

## 3. Runs

| run | instance | question | result |
|---|---|---|---|
| `scarcity_index` | 3 peers, 2 buckets, 2 positions, N = 2, symmetric | counts, index, draws and roll-backs under every order of operations | holds |
| `send_scheduler` | 2 peers, 2 positions, N = 1, B = 1, one stream set | budget for bitmap peers, completeness of a pass, one frame in flight, and the refinement of `Forwarding` | holds |
| `send_reconnect` | 1 peer, 3 positions, N = 2, B = 1, two stream sets, fair | the account, repeats, hashes and delivery over a reconnect | holds |
| `verifier` | 2 items, 4 submissions, fair | wake-ups, termination, what Stop drains, the gate | holds |
| `mesh_caps` | a node between two others, caps 1, no wanted bitmap peers, one frame per writer, fair | degree bounds with redirects, rejections and losses; negotiations end | holds |
| `mesh_forms` | a node between two others, caps 2, two frames per writer, fair | the meshes settle, symmetric | holds |
| `bitmap_writer` | 2 peers, 1 datum, 2 positions, bitmaps of 3 bytes, two stream sets, push peers told as well, fair | wake-ups, nothing forgotten, differences, hashes, truth, delivery | holds |
| `slot_lifecycle` | 2 slots with a datum each, 2 positions, two frames per stream | closed slots, verification once, hashes | holds |
| `partial_push` | both strategies: a node between two mesh peers, one fed by a fanout node, 3 attestations, one per message, ceiling 2, a whole slot | counts, index, order, completeness of a tick, knowledge of peers, hashes, mesh and gossip apart, and the refinement of `Dissemination` | holds |
| `partial_gossip` | both strategies: two mesh peers and a third node, 1 attestation, one request allowed, fair | the cap on requests, no advertisement or request lost, everybody gets everything | holds |
| `strict_one_in_flight` | 1 peer, 3 positions, two stream sets | one frame in flight over a reconnect | violated |
| `mesh_crossing` | 3 nodes, all linked, caps 2 | meshes become symmetric again | violated |

**Bounds.** `scarcity_index` has no bound besides its constants: with three
peers a candidate's count ranges over 0..3, beyond the one level the index
starts with (`InitLevels` = 1), so growth happens; two buckets and two
positions with N = 2 give draws that cut a bucket, cross buckets and cross
levels. In the scheduler, `MaxSessions` bounds stream sets per peer: two are
enough for a late event of the first to meet the second. Two peers and B = 1 are
the least where one peer's send keeps another from being served. In
`send_scheduler` a message holds one of two candidates, so a draw leaves
something behind that must not be scarcer, and a peer needs several passes and
completions; partial chunks that are held back (N = 2) and the roll-backs of a
refused send are in `send_reconnect`. Three
positions are needed for the queue-full branch: one frame completed in the first
session, one in the channel, one to be refused. In the verifier, `MaxSubmits` = 4
allows a batch of two, submissions during it, and another batch behind it.
In the mesh the number of nodes and the writer's depth are the bounds; a node
with two peers and caps of one is the least that redirects (one push, one
bitmap) and rejects. There a node wants no bitmap peers of its own (the flag
allows 0) and gets them by redirects; `mesh_forms` has both kinds of top-up. In the bitmap writer, two
positions give one id or two, on either side of the three bytes at which the
whole bitmap is sent; two stream sets let a peer come back, or two peers share
`lastEmitted`. Two slots give a closed, an open and a coming one; two frames put
a hash behind its data, two positions let batches overlap. With the partial strategies, two peers and a third attestation by a
fanout node give passes over several peers, a ceiling that is reached in the middle
of one, and chunks with more behind them; with gossip switched off all its
behaviours are pushes, slot start and slot end. Gossip needs one attestation, two
nodes that can be asked for it and a cap of one; the space with ends of slots and a
second attestation is beyond reach, which is where the proofs come in. Deadlock
is checked except for the verifier, the slots and the partial strategies, which
end: submissions are bounded and Run exits, the driver runs `MaxSlot` slots, and
once nobody has anything to send, a tick is no step.

**Fairness.** Of the verifier: Run is a goroutine whose sleeps end and whose
call backs return (weak fairness), and an armed timer fires. Nobody has to
submit or to stop. Of the scheduler: the loop runs its passes to the end, a
write ends in success or failure, and every posted event is dispatched; the
events channel is first in, first out, so others do not overtake it for ever,
which is strong fairness here since a pass disables dispatch in between. Ticks
are posted by a timer for ever. Of the mesh: stream sets come up at both ends and
frames are written, read and handled; for `mesh_forms` and
`mesh_crossing` heartbeats recur and backoffs pass as well. Of the bitmap
streams: the floor timer recurs, goroutines run, writes end, a failed writer's
peerDownEvent is dispatched, and frames are read. Of the partial strategies
(`partial_gossip`): a tick that has begun goes on, since it is a loop; messages are
delivered and the verifier calls back; publish tickers and heartbeats recur, and
GossipSub, which picks gossip peers at random, picks each of them again and
again. All but the first may find a tick under way and have to wait, so their
fairness is strong: a tick of one node does in the model stop the others, though it does not
in the program. Nothing makes a driver start or publish.

**What the violations say.** Each is a statement of a comment or document that
the code does not keep; `PROJECT.json` has the quotes.

* `strict_one_in_flight`: a peer sends, its write succeeds, its stream breaks, it
  reconnects, and a new frame is handed over; only now is the first completion
  dispatched. It carries the peer alone, so it frees the new sender, which gets
  a second frame. The account stays exact (`BudgetExact` holds) and the queue
  absorbs the frame or the roll-back undoes it (`QueueFull`), so the effect is a
  second frame of head-of-line delay, not a lost one. `node.go` connects to
  each peer once; a second stream set comes from an embedding that connects again,
  which the manager provides for (`clearSendStreamsOpening`, `eventloop.go:374`).
* `mesh_crossing`: without any loss, two nodes disagree for ever, by crossing
  grafts for different meshes, or by a graft that arrives before `onPeerUp` resets
  the role. Both meshes are large enough, so no heartbeat touches them again.
  `mesh_forms` shows that a tree with room for all settles nevertheless.

Other things seen while modelling have no run of their own:

* A batch of `att_propagation` that is on its way when its slot ends: `SlotEnd` deletes
  the buckets by which `slotForHash` (`eventloop.go:993`) would recognise it, so it is
  filed, verified, forwarded and advertised as data of the next slot, if that has begun.
* `requestCount` "tracks how many gossip peers we have asked for each missing position"
  (`partial.go:101`). It is bumped when a request is chosen (`partial.go:587`), before the
  filter that keeps one from being sent to the same peer again; so a peer that is asked and does not
  answer is counted at every tick it comes up for, and one such peer can use up the
  cap. What is sent stays within the cap (`RequestsCapped`).
* A partial message that arrives before its slot is started at the receiver, or while the
  verdict on the slot is no, is dropped (`partial.go:842`). Its sender has already marked
  what it sent as held, its requests as made and its data as named in full, and
  repeats none of it; "each peer that needs a position receives it exactly
  once" (`src/ideas/partial-priority.md:82`) then has to come from other peers.
  `KnownOrOnItsWay`, `HashesResolvable` and `GossipNotLost` are stated for nodes that do not
  start late.
* Bitmap peers are served one level higher than documented: `+ 1` in `eventloop.go:582`,
  against "below pushPeers + bitmapPeers/2" in the comment at 558-560.
* Stop "drains" (`verify.go:51-52`, 186) only what was queued before a
  verification that is under way: Run returns right after it (`verify.go:139`).
  `StopDrains` states what does hold.
* Metadata of a slot that is not accepted is dropped before the data it carries in
  full is stored (`bitmap_stream.go:184`). The peer has marked it as sent and uses
  the hash from then on; when the slot is accepted at last, that frame is dropped with
  `CRITICAL GOT BITMAP HASH WITHOUT MESSAGE`, until the data comes on the push
  stream or by a publication. `HashesResolvable` excepts this data until then, that is, until the node has a bucket
  for it; it bounds what is lost by the drop and does not say that nothing is.
* A control frame that a full writer drops is said to be made up for by the next
  heartbeat (`eventloop.go:189-191`); a lost redirect is not, while both meshes are
  within their bounds.
* `onGraft` with both meshes full does not look at the role the peer has already: a
  peer that is counted in the full mesh is told PRUNE:FULL and yet kept in its role.
* The backlog behind the error log `invalid_bitmap_send_peer`
  (`eventloop.go:572-596`) includes push peers whose send is under way, so the
  error is logged in correct schedules.

## 4. Proofs

The proofs hold for all values of the constants under the named assumptions in
the modules (finite sets, a chunk size and a number of levels of at least one,
natural bounds).

**ScarcityIndexProofs.** `IndexInv` is the conjunction of `TypeOK`,
`HolderCountExact`, `IndexExact`, `VerifiedOnce` and `HandCommitted` (the last two are
proved, and not properties of a run). None of the
middle ones is inductive alone: a roll-back keeps the counts natural only
because they equal the number of holders; moving a candidate to its next level
works only if it is in the level of its count; and indexing a validated batch
keeps the index exact only because a batch in the verifier is disjoint from what
is validated. The lemmas `MarkHoldersKeepsIndex`, `UnmarkHoldersKeepsIndex` and
`IndexedKeepsIndex` carry the index part once for all the operations built from
these operators; one lemma per operation does the rest. `DrawsAreScarcest` looks
into the walk: a candidate left behind on a lower level would contradict that
lower levels are exhausted first. From it `DrawsScarcestFirst` follows for real
holders, since counts are exact. `DrawsExist` is the converse of these: whenever a peer
lacks something below the limit, there is a draw that takes all of it or fills a
message. The proof takes a smallest walk of the levels that is large enough, which
exists because all there is is one; if it were too large, leaving out its last candidate
would give a smaller one. `RollbackLeavesNoTrace` states what a roll-back does to the
index: each candidate of the chunk is drawable for the peer again, on the level of one
holder less, which is where it was; it needs the chunk to be committed (`HandCommitted`)
and the counts to be exact.

**VerifierProofs.** `RunInv` adds to the run's invariants that a Run which
believes in its timer has one armed or fired, and that it does so whenever it
is past taking a batch. With this, going back to sleep after the token was
drained is safe. `Conservation` goes through three lemmas on concatenation.
`ImplementsGate` shows that `CallBack` releases exactly the next item
(`NextInOrder`, from `Conservation`), and that all other steps but `Submit`
stutter. `DrainInv` follows what Stop found into the batch: a batch is the whole
queue, so a Run that ends has nothing of it left.

**SendSchedulerProofs.** A chain of invariants, each on top of the ones before.
`LoopInv` (a pass only visits registered peers) makes every step of the loop an
operation of the index or a stutter, with a limit the index is specified for. This is no
result, since the module is built from these operations; the lemma `BehavesAsIndex` only
carries `IndexInv` over instead of proving it again. `HandInv` and `AccountInv` follow the
account: a chunk is only in hand for a peer that is up and idle, for a bitmap
peer only while there is budget, and releasing is idempotent, which is why late
completions of an old stream set do not disturb it. `HandedInv` says that what
was ever handed over stays marked as held, and that a chunk in hand, the only
one that can be unmarked, is disjoint from it; with `SelectOneChunkForPeer`
drawing only what is unmarked, nothing goes out twice. `PipeInv` splits a
sender's pipe into what is written, what is being written and what is queued:
every frame is resolvable by what precedes it, and `sentFull` claims nothing that
is not on its way. Its first part, that a peer which is down has an empty pipe
and an empty `sentFull`, is what a reconnect needs.

`WaitInv` is about a pass under way: it says of each peer the loops have been past,
and no event of which is to come (`Awaited`), that what is left at it is less than a
chunk, or not scarce. A peer that is passed over satisfies it by `NoChunkMeansLittle`,
hence by `DrawsExist`; one that was served is awaited; and serving the others only
raises counts. At the end of a pass every peer has been visited, which is
`NothingSendableWhenIdle`. `OneSendInv` counts what is under way for a peer: frames queued,
being written, completions and errors not yet dispatched. On a first stream set there is at
most one, and none when the loop takes the sender to be free; so a sender holds one frame
if nobody reconnects (`OneFrameWithoutReconnects`, which assumes `MaxSessions <= 1`), and the
roll-back for a full queue needs a reconnect (`RollbackNeedsReconnect`). With a second
stream set `strict_one_in_flight` shows the opposite.

`ImplementsForwarding` is the refinement of the send policy. Its invariant is
`HandScarce`: the peer of a chunk in hand is in the mesh the loop serves, all of the
chunk is below the limit if that is the bitmap mesh, and nothing left for the peer is
held by fewer, by the counts without the chunk. `DrawnChunk` gets it from the levels
(`DrawsAreScarcest`, `EligibleExact`), and it stays because only senders move before the
hand-over. `SettledHolders` shows that the counts without the chunk are the policy's
holders, which needs that they are exact and that the chunk is committed; with the
account (`AccountInv`) `EnqueueIsSend` follows. `DrawnOrTakenBack` shows that a draw and
a roll-back are stutters: what is drawn was not held, so that taking it back restores
what was. The run has one stream set per peer and so no roll-backs; the proof covers them.

**AttpropMeshProofs.** `CapsInv` speaks of one node at a time and needs nothing
of the frames: `GraftFits` is the case distinction of `onGraft`, and
`FillPushFits` adds up fresh and promoted peers (`PickBounded` twice, the
second time with what the first left over) against the shortage, which
`ShortageFits` keeps under the cap. It is why no heartbeat ever trims (`TrimIsIdle`):
`HeartbeatsNeverPrune` states that a heartbeat arms no backoff, takes nobody out of a
mesh, and sends each peer at most one frame, a graft; both trims of `mesh.go` are dead
code as long as grafts are checked against the caps. `RepliesEnd` is the safety part of
`ExchangesEnd`: each frame handled is answered by at most one, of strictly lower `Rank`
(a push graft by a redirect or a rejection, a bitmap graft by a rejection, a prune by
nothing), and a frame never has an effect on a third node. What it leaves to TLC is that frames
are delivered at all.

**BitmapWriterProofs.** Three invariants. `TruthInv` says that positions claimed
anywhere, in a queue, a frame, a stream or a view, are validated; with it every step
is one of `Advertisement` or a stutter (`ImplementsPromise`), and what the floor
remembers is among what a new bitmap peer is seeded with (`NeverForgets`).
`EnqueueSignals` gives `NoLostWakeUp`: a queue changes only together with the
token, and a writer that goes back to wait either found its queue empty or finds
a token. `PipeInv` speaks of one peer at a time: what its writer has named in
full, and what it counts as told, is known to the peer or ahead on the stream. The
parts need each other: that a frame is folded whole, which `ToldInv` needs, is
what `ResolvedInv` says of the head of the stream (`FoldsWhole`), and that
needs `NamedInv` when the next hash is written. `QuietPeersAreUpToDate` puts the
properties together: where the floor has emitted everything, a bitmap peer whose
writer sleeps without a token and whose streams are empty knows exactly what is validated.
It is the safety part of `BitmapPeersLearn`: being quiet is never being behind.

**SlotLifecycleProofs.** `SlotInv` says where slots are: with a peer at most one slot
ahead, all buckets are of the slot after the highest closed one, and between slots
there are none, unless nothing has started yet. Closed slots are empty by it, and a
result that is not accepted is one of a closed slot (`LateResultIsOfClosedSlot`):
without that, a position could be left in no submission and not validated. `OnceInv`
is `VerifiedOnce` position by position over the queue of the verifier; an
arriving batch adds what is not held (`ReceivedOnce`), a result moves the queue by
one (`ValidatedOnce`). `HashInv` adds to `HashesResolvable` that what the peer has
named in full is known or on its way, and that data with a bucket is known; `ReadKeepsHashes` and `WriteKeepsHashes` carry
it for both streams.

**PartialMessagesProofs.** Each property has the strengthening it needs, on top of
`TypeOK`. `IndexInvariant` is inductive with it: `IndexBumped` and `IndexAdd` say
what a draw and a validation do to the levels. `GossipInv` keeps gossip and
mesh apart over the channels: requests, and advertisements without data, are only ever
on their way between nodes that are not mesh peers (`MeshInnocent`), and a tick chooses
requests for gossip peers only (`AskingGossip`); from it follow `MeshNotGossip` and
`RequestsAreServed` (a peer with a request pending is up for the next tick). For `SendsCounted` the set of peers
an attestation is held by grows with every forward, because a peer is only drawn for what it
is not known to have. `RequestsCapped` needs the count of those asked or chosen to be
asked in this tick (`Asked`): this, and not what was sent, is what the counter
bounds. `TickDrains` rests on `Drained`: a tick of `partial` visits every mesh peer
once, and nothing becomes sendable to a peer that was visited; a tick of
`partial_priority` ends when no level has anything for a peer, which by `IndexInvariant` is
when there is nothing.

**PartialDeliveryProofs.** `Delivered` says of each channel that every hash on
it, and every one its sender may put there next, is explained by the receiver's cache or
by an earlier message (`Resolvable`, `TellsAll`): the records of data sent in full
with batches and with metadata may be separate, because both go over the same
channel. `HeldInv` orders a node's sets: what is validated or being verified is held,
and has its bucket. `Informed` is `KnownOrOnItsWay` together with its converse on the channels: what
a message says of its sender is true (`Honest`), up to the end of its slot.

`GossipNotLost` needs `Backed`: nobody is asked for what it has not validated, which goes
in a circle through advertisements on their way, what the other is taken to have, and
requests on their way and pending. With it a tick that voids the requests of a peer has
answered them, or found them at the ceiling (`NotLost`). `GateInv` says that what a node of an
open slot holds is validated or in one submission to the verifier. Together these give
two theorems about links at rest, the safety part of `Converges`: `MeshAgreesAtRest` (a mesh
peer with nothing to come lacks nothing below the ceiling) and `RequestsAnsweredAtRest`.

`ImplementsDissemination` shows that every step is one of `Dissemination` or a stutter.
`SourcesInv` is its strengthening: what is held or on its way was published by
somebody, since a publication is never taken back, not even by the end of a slot. `Files` says what a
message adds, and `DissReceive`, `DissValidate`, `DissPublish` and `DissSlotEnd` map
the four handlers that matter; for a result of the verifier `GateInv` shows that it promotes
what is held and not validated, and after the end of the slot `MarkValidated` finds no bucket.

**Only model-checked.** Liveness (`EveryItemVerified`, `StopReturns`,
`PushPeersGetEverything`, `ExchangesEnd`, `MeshesForm`, `BitmapPeersLearn`, `Converges`) is out of TLAPS's reach,
as are ENABLED and induction over data with the provers at hand; the modules
that are proved about avoid recursive operators for the same reason.
Every invariant, action property and refinement of a passing run is proved, `StrictOneInFlight`
for one stream set, as its run has it. Of most liveness properties the safety part is
proved as well: `NothingIsLeftWaiting` for `PushPeersGetEverything`, `RepliesEnd` for
`ExchangesEnd`, `QuietPeersAreUpToDate` for `BitmapPeersLearn`, `GossipIsNotLost` and the
theorems about links at rest for `Converges`.

**Only proved.** The type invariants of all modules, `VerifiedOnce` of the index, `Conservation` and
`WindowRespected` of the verifier, `ValidatedIsHeld` and `SlotsOnlyGrow` of the slots,
`RequestsAreServed` of the partial strategies, and what is defined in the proof modules
(`WaitInv`, `OneSendInv`, `ChunkFindsRoom`, `HeartbeatOnlyGrafts`, `RepliesDescend`,
`QuietPeersKnow`, `GateInv`, `MeshAgrees`, `RequestsAnswered`) are theorems and in no run.

## 5. Not modelled

Bytes on the wire and their encoding, sizes, latencies and logging; errors of
`proto.Marshal`, which do not occur; several topics, whose managers share
nothing but the host; `src/simctl` and `src/analysis`, which prepare and evaluate
experiments; generated code.
The identity caches never forget; their growth over many slots is no matter of
these models. The set-up and the end of streams (`wire.go`): a stream set is there or not,
readers and posters that block while the process shuts down are not seen. The
fanout publisher of `att_propagation`, which keeps no state. The classic mode of
`node.go`, plain GossipSub. GossipSub itself: mesh, heartbeats and the map
of peer states are an environment of `PartialMessages`, as the code uses them;
a mesh that changes during a slot is left out.

## 6. Plan

1. `StreamSetup`: `wire.go`, two nodes: the opening claim, pending halves,
   duplicates, resets, `post` after the loop has ended. Properties: at most one
   registered stream set, both ends up eventually, no poster stuck.
2. Mesh churn: `PeerDown` in `AttpropMesh`, and roles without a peer behind them.
3. Several slots in `PartialMessages`, a mesh that changes, and peers that do not ask
   for partial messages.
4. A composition for `att_propagation`: several nodes with index, gate and lossy
   streams, and the dissemination `Converges` states for the partial strategies.
5. Proofs: when there is a composition for `att_propagation`, that it implements
   `Dissemination` as well; an abstract specification of a slot for `SlotLifecycle`; and
   bounds on how long a peer can hold another up (a rank for `TickDrains` and passes).
