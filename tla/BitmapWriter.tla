---------------------------- MODULE BitmapWriter ----------------------------
(***************************************************************************)
(* The bitmap streams of one node for one (topic, slot): what it has       *)
(* validated is advertised to the peers of its bitmap mesh.                *)
(* node/attprop/bitmap_stream.go and bitmap_writer.go, with their callers  *)
(* in eventloop.go.                                                        *)
(*                                                                         *)
(* The event loop queues full bitmaps: for all bitmap peers when the floor *)
(* timer finds a change, for one peer when it enters the mesh.  A peer's   *)
(* writer goroutine coalesces what is queued for it and writes only what   *)
(* it has not told that peer before.  The peer folds what it reads into    *)
(* its own view (onInboundBitmap).                                         *)
(*                                                                         *)
(* An attestation_data belongs to one slot, so the writer's keys (slot,    *)
(* hash) are the members of Data.                                          *)
(***************************************************************************)
EXTENDS Integers, Sequences, FiniteSets

CONSTANTS
  Peer, Data, Position,
  BitmapBytes,           \* the size of a committee bitmap
  EnablePushMeshBitmap,  \* whether push peers are told as well
  MaxSessions            \* bound: stream sets that come up

ASSUME PositionAssumption == IsFiniteSet(Position)
ASSUME BytesAssumption    == BitmapBytes \in Nat
ASSUME PushAssumption     == EnablePushMeshBitmap \in BOOLEAN
ASSUME SessionAssumption  == MaxSessions \in Nat

estimatedAvailableIDBytes == 2

Role == {"connected", "push", "bitmap"}

VARIABLES
  validated,      \* validated[d]: positions of d this node has validated
  lastEmitted,    \* lastEmitted[d]: those of them the floor has seen
  role,           \* role[p] in this node's meshes
  writers,        \* peers with a registered bitmap writer
  sessions,       \* stream sets that came up
  pending,        \* pending[p][d]: the last bitmap of d queued for p, or {}
  work,           \* peers whose writer's work channel holds its token
  pc,             \* pc[p]: where p's writer goroutine is
  frame,          \* frame[p]: the frame it is writing
  sentFull,       \* sentFull[p]: data p's writer has named in full
  sentAvailable,  \* sentAvailable[p][d]: positions it has told p
  stream,         \* stream[p]: frames written and not folded
  identities,     \* identities[p]: data p can resolve a hash of
  view            \* view[p][d]: positions of d p takes this node to hold

eventVars  == <<validated, lastEmitted, role, writers, sessions>>
writerVars == <<pending, work, pc, frame, sentFull, sentAvailable>>
peerVars   == <<stream, identities, view>>
vars       == <<eventVars, writerVars, peerVars>>

Metadata == [data : Data, full : BOOLEAN, available : SUBSET Position]
Nothing  == [d \in Data |-> {}]

-----------------------------------------------------------------------------
(* Queueing *)

(* The peers of a mesh that have a writer. *)
InMesh(r) == {p \in writers : role[p] = r}

(* Mutant: a bitmap that is queued already is kept. *)
EnqueueFirst(P, bitmaps) ==
  /\ pending' = [p \in Peer |-> [d \in Data |->
                   IF p \in P /\ pending[p][d] = {} THEN bitmaps[d] ELSE pending[p][d]]]
  /\ work' = IF bitmaps = Nothing THEN work ELSE work \cup P

(* Mutant: only a writer with an empty queue is woken, before it is filled. *)
EnqueueUnsignalled(P, bitmaps) ==
  /\ pending' = [p \in Peer |-> [d \in Data |->
                   IF p \in P /\ bitmaps[d] # {} THEN bitmaps[d] ELSE pending[p][d]]]
  /\ work' = work \cup {p \in P : pending[p] # Nothing}

(* Bitmaps are queued for the writers of P, which are woken.  Bitmaps of the
   same data replace each other: each has all of the one before. *)
Enqueue(P, bitmaps) ==
  /\ pending' = [p \in Peer |-> [d \in Data |->
                   IF p \in P /\ bitmaps[d] # {} THEN bitmaps[d] ELSE pending[p][d]]]
  /\ work' = IF bitmaps = Nothing THEN work ELSE work \cup P

(* What changed since the floor last looked. *)
ChangedAvailable ==
  [d \in Data |-> IF lastEmitted[d] = validated[d] THEN {} ELSE validated[d]]

-----------------------------------------------------------------------------
(* Events of this node's loop *)

Validate(d, pos) ==
  /\ pos \notin validated[d]
  /\ validated' = [validated EXCEPT ![d] = @ \cup {pos}]
  /\ UNCHANGED <<lastEmitted, role, writers, sessions, writerVars, peerVars>>

(* Mutant: a new writer remembers what the one before named in full. *)
NewWriterRemembers(p) ==
  /\ pending' = [pending EXCEPT ![p] = Nothing]
  /\ work' = work \ {p}
  /\ pc' = [pc EXCEPT ![p] = "wait"]
  /\ frame' = [frame EXCEPT ![p] = {}]
  /\ sentAvailable' = [sentAvailable EXCEPT ![p] = Nothing]
  /\ UNCHANGED sentFull

(* A writer that has sent nothing. *)
NewWriter(p) ==
  /\ pending' = [pending EXCEPT ![p] = Nothing]
  /\ work' = work \ {p}
  /\ pc' = [pc EXCEPT ![p] = "wait"]
  /\ frame' = [frame EXCEPT ![p] = {}]
  /\ sentFull' = [sentFull EXCEPT ![p] = {}]
  /\ sentAvailable' = [sentAvailable EXCEPT ![p] = Nothing]

(* Mutant: the peer keeps the role a graft gave it before. *)
OnPeerUpKeepsRole(p) ==
  /\ p \notin writers
  /\ sessions < MaxSessions
  /\ sessions' = sessions + 1
  /\ writers' = writers \cup {p}
  /\ NewWriter(p)
  /\ UNCHANGED <<validated, lastEmitted, role, peerVars>>

OnPeerUp(p) ==
  /\ p \notin writers
  /\ sessions < MaxSessions
  /\ sessions' = sessions + 1
  /\ writers' = writers \cup {p}
  /\ role' = [role EXCEPT ![p] = "connected"]
  /\ NewWriter(p)
  /\ UNCHANGED <<validated, lastEmitted, peerVars>>

(* p's streams are reset, for whatever reason: of what was written, p handles
   what it has read.  What is queued is lost with the writer. *)
OnPeerDown(p) ==
  /\ p \in writers
  /\ writers' = writers \ {p}
  /\ role' = [role EXCEPT ![p] = "connected"]
  /\ NewWriter(p)
  /\ \E n \in 0 .. Len(stream[p]) : stream' = [stream EXCEPT ![p] = SubSeq(@, 1, n)]
  /\ UNCHANGED <<validated, lastEmitted, sessions, identities, view>>

(* A graft, a prune or a heartbeat changes what p is, up or not.  A peer that
   enters the bitmap mesh is queued everything (sendFullBitmapTo). *)
MeshChange(p, r) ==
  /\ role[p] # r
  /\ role' = [role EXCEPT ![p] = r]
  /\ IF r = "bitmap" THEN Enqueue({p} \cap writers, validated) ELSE UNCHANGED <<pending, work>>
  /\ UNCHANGED <<validated, lastEmitted, writers, sessions, pc, frame, sentFull,
                 sentAvailable, peerVars>>

(* The floor timer: what changed goes to all bitmap peers; without any, the
   change is left for later. *)
EmitBitmaps ==
  /\ InMesh("bitmap") # {}
  /\ lastEmitted # validated
  /\ lastEmitted' = validated
  /\ Enqueue(InMesh("bitmap"), ChangedAvailable)
  /\ UNCHANGED <<validated, role, writers, sessions, pc, frame, sentFull,
                 sentAvailable, peerVars>>

(* The push timer: push peers are told everything, and only what is new to a
   peer is written. *)
EmitPushMeshBitmaps ==
  /\ EnablePushMeshBitmap
  /\ InMesh("push") # {}
  /\ Enqueue(InMesh("push"), validated)
  /\ UNCHANGED <<eventVars, pc, frame, sentFull, sentAvailable, peerVars>>

-----------------------------------------------------------------------------
(* A writer's goroutine *)

Wake(p) ==
  /\ pc[p] = "wait" /\ p \in work
  /\ work' = work \ {p}
  /\ pc' = [pc EXCEPT ![p] = "woken"]
  /\ UNCHANGED <<eventVars, pending, frame, sentFull, sentAvailable, peerVars>>

NewIDs(p, d) == pending[p][d] \ sentAvailable[p][d]

(* The positions of a metadata item: the new ones, or when a bitmap is shorter,
   all that p was ever told. *)
IDsOrBitmap(p, d) ==
  IF Cardinality(NewIDs(p, d)) * estimatedAvailableIDBytes > BitmapBytes
  THEN sentAvailable[p][d] \cup NewIDs(p, d)
  ELSE NewIDs(p, d)

NextMetadatas(p) ==
  {[data |-> d, full |-> d \notin sentFull[p], available |-> IDsOrBitmap(p, d)] :
     d \in {e \in Data : NewIDs(p, e) # {}}}

(* Mutant: what is validated by now counts as told, not what was queued. *)
GetNextBitmapTellsLess(p) ==
  /\ pc[p] = "woken"
  /\ pending' = [pending EXCEPT ![p] = Nothing]
  /\ sentAvailable' = [sentAvailable EXCEPT ![p] = validated]
  /\ sentFull' = [sentFull EXCEPT ![p] = @ \cup {md.data : md \in NextMetadatas(p)}]
  /\ frame' = [frame EXCEPT ![p] = NextMetadatas(p)]
  /\ pc' = [pc EXCEPT ![p] = IF NextMetadatas(p) = {} THEN "wait" ELSE "write"]
  /\ UNCHANGED <<eventVars, work, peerVars>>

(* One frame of everything queued that p was not told before. *)
GetNextBitmap(p) ==
  /\ pc[p] = "woken"
  /\ pending' = [pending EXCEPT ![p] = Nothing]
  /\ sentAvailable' = [sentAvailable EXCEPT ![p] = [d \in Data |-> @[d] \cup NewIDs(p, d)]]
  /\ sentFull' = [sentFull EXCEPT ![p] = @ \cup {md.data : md \in NextMetadatas(p)}]
  /\ frame' = [frame EXCEPT ![p] = NextMetadatas(p)]
  /\ pc' = [pc EXCEPT ![p] = IF NextMetadatas(p) = {} THEN "wait" ELSE "write"]
  /\ UNCHANGED <<eventVars, work, peerVars>>

WriteSucceeds(p) ==
  /\ pc[p] = "write"
  /\ stream' = [stream EXCEPT ![p] = Append(@, frame[p])]
  /\ frame' = [frame EXCEPT ![p] = {}]
  /\ pc' = [pc EXCEPT ![p] = "wait"]
  /\ UNCHANGED <<eventVars, pending, work, sentFull, sentAvailable, identities, view>>

(* The goroutine ends; its peerDownEvent is on the way. *)
WriteFails(p) ==
  /\ pc[p] = "write"
  /\ frame' = [frame EXCEPT ![p] = {}]
  /\ pc' = [pc EXCEPT ![p] = "failed"]
  /\ UNCHANGED <<eventVars, pending, work, sentFull, sentAvailable, peerVars>>

-----------------------------------------------------------------------------
(* The peer *)

Known(p, md) == md.full \/ md.data \in identities[p]

(* A frame's items are folded in their order, up to the first hash that is not
   known. *)
Foldable(p, items) ==
  LET known == {md \in items : Known(p, md)}
  IN  IF known = items THEN {items} ELSE SUBSET known

(* Mutant: a frame's positions replace those known. *)
OnInboundBitmapReplaces(p) ==
  /\ stream[p] # <<>>
  /\ stream' = [stream EXCEPT ![p] = Tail(@)]
  /\ \E items \in Foldable(p, Head(stream[p])) :
       /\ identities' = [identities EXCEPT ![p] =
                           @ \cup {md.data : md \in {i \in items : i.full}}]
       /\ view' = [view EXCEPT ![p] = [d \in Data |->
                     UNION {md.available : md \in {i \in items : i.data = d}}]]
  /\ UNCHANGED <<eventVars, writerVars>>

(* The head of the stream: its data becomes known, its positions are added to
   what p takes this node to hold. *)
OnInboundBitmap(p) ==
  /\ stream[p] # <<>>
  /\ stream' = [stream EXCEPT ![p] = Tail(@)]
  /\ \E items \in Foldable(p, Head(stream[p])) :
       /\ identities' = [identities EXCEPT ![p] =
                           @ \cup {md.data : md \in {i \in items : i.full}}]
       /\ view' = [view EXCEPT ![p] = [d \in Data |->
                     @[d] \cup UNION {md.available : md \in {i \in items : i.data = d}}]]
  /\ UNCHANGED <<eventVars, writerVars>>

-----------------------------------------------------------------------------

Init ==
  /\ validated = Nothing
  /\ lastEmitted = Nothing
  /\ role = [p \in Peer |-> "connected"]
  /\ writers = {}
  /\ sessions = 0
  /\ pending = [p \in Peer |-> Nothing]
  /\ work = {}
  /\ pc = [p \in Peer |-> "wait"]
  /\ frame = [p \in Peer |-> {}]
  /\ sentFull = [p \in Peer |-> {}]
  /\ sentAvailable = [p \in Peer |-> Nothing]
  /\ stream = [p \in Peer |-> <<>>]
  /\ identities = [p \in Peer |-> {}]
  /\ view = [p \in Peer |-> Nothing]

Next ==
  \/ \E d \in Data, pos \in Position : Validate(d, pos)
  \/ EmitBitmaps
  \/ EmitPushMeshBitmaps
  \/ \E p \in Peer :
       \/ OnPeerUp(p) \/ OnPeerDown(p)
       \/ \E r \in Role : MeshChange(p, r)
       \/ Wake(p) \/ GetNextBitmap(p) \/ WriteSucceeds(p) \/ WriteFails(p)
       \/ OnInboundBitmap(p)

Spec == Init /\ [][Next]_vars

(* The floor timer goes on, writers run, writes end, failures are reported, and
   what is written is read. *)
FairSpec ==
  /\ Spec
  /\ WF_vars(EmitBitmaps)
  /\ \A p \in Peer :
       /\ WF_vars(Wake(p)) /\ WF_vars(GetNextBitmap(p))
       /\ WF_vars(WriteSucceeds(p) \/ WriteFails(p))
       /\ WF_vars(pc[p] = "failed" /\ OnPeerDown(p))
       /\ WF_vars(OnInboundBitmap(p))

-----------------------------------------------------------------------------
(* Properties *)

TypeOK ==
  /\ validated \in [Data -> SUBSET Position]
  /\ lastEmitted \in [Data -> SUBSET Position]
  /\ role \in [Peer -> Role]
  /\ writers \subseteq Peer
  /\ sessions \in 0 .. MaxSessions
  /\ pending \in [Peer -> [Data -> SUBSET Position]]
  /\ work \subseteq writers
  /\ pc \in [Peer -> {"wait", "woken", "write", "failed"}]
  /\ frame \in [Peer -> SUBSET Metadata]
  /\ sentFull \in [Peer -> SUBSET Data]
  /\ sentAvailable \in [Peer -> [Data -> SUBSET Position]]
  /\ stream \in [Peer -> Seq(SUBSET Metadata)]
  /\ identities \in [Peer -> SUBSET Data]
  /\ view \in [Peer -> [Data -> SUBSET Position]]

(* No wake-up is lost: a writer with something queued has its token or is about
   to look. *)
QueuedIsSignalled ==
  \A p \in writers : pending[p] # Nothing => p \in work \/ pc[p] \in {"woken", "failed"}

(* What the floor has emitted is not emitted again, so every peer of the bitmap
   mesh, whenever it entered it, has been told of it or has it queued. *)
NothingForgotten ==
  \A p \in InMesh("bitmap") : \A d \in Data :
    lastEmitted[d] \subseteq sentAvailable[p][d] \cup pending[p][d]

(* The differences add up: what a writer takes to have been told is in the
   peer's view, on its way or being written. *)
DifferencesAddUp ==
  \A p \in writers : pc[p] # "failed" =>
    LET items == frame[p] \cup UNION {stream[p][i] : i \in DOMAIN stream[p]}
    IN  \A d \in Data :
          sentAvailable[p][d] \subseteq
            view[p][d] \cup UNION {md.available : md \in {i \in items : i.data = d}}

(* Every hash on the way can be resolved by what goes before it: the data is
   named in full once per stream set, and that frame is never skipped. *)
HashesResolvable ==
  \A p \in Peer :
    LET pipe == Append(stream[p], frame[p])
        fulls(i) == {md.data : md \in {m \in pipe[i] : m.full}}
    IN  \A i \in DOMAIN pipe : \A md \in pipe[i] :
          md.full \/ md.data \in identities[p] \cup UNION {fulls(j) : j \in 1 .. i - 1}

(* The streams implement what they promise. *)
Promised == INSTANCE Advertisement WITH valid <- validated
AdSpec   == Promised!AdSpec

(* A peer that stays in the bitmap mesh learns everything that is validated. *)
BitmapPeersLearn ==
  \A p \in Peer :
    <>[](p \in writers /\ role[p] = "bitmap") => <>[](view[p] = validated)
=============================================================================
