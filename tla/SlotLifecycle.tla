--------------------------- MODULE SlotLifecycle ---------------------------
(***************************************************************************)
(* The slots of one node: its driver starts and ends them one after the    *)
(* other, while publications, results of the verifier, and what a peer     *)
(* sends on its push and bitmap streams arrive whenever they do.           *)
(* node/attprop/eventloop.go, bitmap_stream.go, attprop.go, att_data_hash  *)
(* .go, and the driver runAttProp of node/node.go.                         *)
(*                                                                         *)
(* An attestation_data belongs to one slot.  Push frames do not name the   *)
(* slot; both streams name data in full once and by its hash afterwards.   *)
(* The peer is the environment: another node, with a driver of its own     *)
(* that is at most one slot ahead or behind.                               *)
(***************************************************************************)
EXTENDS Integers, Sequences, FiniteSets

CONSTANTS
  Data, Position,
  MaxSlot,     \* bound: the slots that are run
  SlotOf,      \* the slot of each attestation_data
  MaxFrames    \* bound: frames of a stream on the way

Slot == 1 .. MaxSlot
Kind == {"push", "bitmap"}

ASSUME SlotAssumption  == MaxSlot \in Nat \ {0} /\ SlotOf \in [Data -> Slot]
ASSUME FrameAssumption == MaxFrames \in Nat

VARIABLES
  activeSlot,         \* the slot that is open, or 0
  highestClosedSlot,
  buckets,            \* <<slot, data>> of the buckets there are
  atts,               \* atts[s][d]: positions held in slot s
  validated,          \* validated[s][d]: those of them that are validated
  identities,         \* data whose hash can be resolved
  publishing,         \* publishLocalEvents that are posted
  publishedIn,        \* slots the node has published in
  verifying,          \* submissions to the verifier and their validatedEvents
  stream,             \* stream[k]: frames of the peer on the way
  named,              \* named[k]: data the peer has named in full on k
  peerSlot,           \* the slot the peer is in
  dropped             \* data whose full metadata was dropped

slotVars == <<buckets, atts, validated>>
ownVars  == <<publishing, publishedIn>>
peerVars == <<named, peerSlot>>
vars     == <<activeSlot, highestClosedSlot, slotVars, identities, ownVars, verifying,
              stream, peerVars, dropped>>

Item       == [data : Data, full : BOOLEAN, positions : SUBSET Position]
Submission == [slot : Slot, data : Data, positions : SUBSET Position]

LifecycleStarted == activeSlot # 0 \/ highestClosedSlot # 0

(* The slot the node's driver is in, open or just closed. *)
DriverSlot == IF activeSlot # 0 THEN activeSlot ELSE highestClosedSlot

AcceptsSlot(s) ==
  /\ s > highestClosedSlot
  /\ LifecycleStarted => activeSlot = s

(* The slot of a bucket of that data, any if there are several; else the slot
   that is open now. *)
SlotForHash(d) ==
  LET known == {s \in Slot : <<s, d>> \in buckets}
  IN  IF known # {} THEN known ELSE {IF LifecycleStarted THEN activeSlot ELSE 1}

-----------------------------------------------------------------------------
(* The driver and its slots *)

(* The buckets of the slots in S are dropped. *)
Forget(S) ==
  /\ buckets' = {b \in buckets : b[1] \notin S}
  /\ atts' = [s \in Slot |-> [d \in Data |-> IF s \in S THEN {} ELSE atts[s][d]]]
  /\ validated' = [s \in Slot |-> [d \in Data |-> IF s \in S THEN {} ELSE validated[s][d]]]

(* The driver and the event loop meet: the call returns when the loop is done. *)
SlotStart(s) ==
  /\ activeSlot = 0 /\ s = highestClosedSlot + 1
  /\ s <= peerSlot + 1
  /\ activeSlot' = s
  /\ Forget(1 .. s - 1)
  /\ UNCHANGED <<highestClosedSlot, identities, ownVars, verifying, stream, peerVars, dropped>>

SlotEnd(s) ==
  /\ activeSlot = s
  /\ activeSlot' = 0
  /\ highestClosedSlot' = s
  /\ Forget({s})
  /\ UNCHANGED <<identities, ownVars, verifying, stream, peerVars, dropped>>

(* The driver posts its own attestation, at most once in a slot. *)
PublishLocal(d, pos) ==
  /\ activeSlot = SlotOf[d] /\ activeSlot \notin publishedIn
  /\ publishing' = publishing \cup {<<d, pos>>}
  /\ publishedIn' = publishedIn \cup {activeSlot}
  /\ UNCHANGED <<activeSlot, highestClosedSlot, slotVars, identities, verifying, stream,
                 peerVars, dropped>>

-----------------------------------------------------------------------------
(* Events *)

(* It may come after the end of its slot: the two come over different channels. *)
OnPublishLocal(d, pos) ==
  /\ <<d, pos>> \in publishing
  /\ publishing' = publishing \ {<<d, pos>>}
  /\ LET s == SlotOf[d]
     IN  IF AcceptsSlot(s)
         THEN /\ identities' = identities \cup {d}
              /\ buckets' = buckets \cup {<<s, d>>}
              /\ atts' = [atts EXCEPT ![s][d] = @ \cup {pos}]
              /\ validated' = IF pos \in atts[s][d] THEN validated
                              ELSE [validated EXCEPT ![s][d] = @ \cup {pos}]
         ELSE UNCHANGED <<slotVars, identities>>
  /\ UNCHANGED <<activeSlot, highestClosedSlot, publishedIn, verifying, stream, peerVars, dropped>>

(* Mutant: what is received is verified again. *)
AddReceivedAgain(s, d, positions) ==
  /\ buckets' = buckets \cup {<<s, d>>}
  /\ atts' = [atts EXCEPT ![s][d] = @ \cup positions]
  /\ verifying' = Append(verifying, [slot |-> s, data |-> d, positions |-> positions])

(* New positions of d go to the verifier. *)
AddReceived(s, d, positions) ==
  LET new == positions \ atts[s][d]
  IN  /\ buckets' = buckets \cup {<<s, d>>}
      /\ atts' = [atts EXCEPT ![s][d] = @ \cup positions]
      /\ verifying' = IF new = {} THEN verifying
                      ELSE Append(verifying, [slot |-> s, data |-> d, positions |-> new])

Resolved(item) == item.full \/ item.data \in identities

(* Mutant: the data is remembered only if its slot is accepted. *)
OnInboundDataForgets ==
  /\ stream["push"] # <<>>
  /\ stream' = [stream EXCEPT !["push"] = Tail(@)]
  /\ LET batch == Head(stream["push"])
     IN  IF Resolved(batch)
         THEN \E s \in SlotForHash(batch.data) :
                  IF AcceptsSlot(s)
                  THEN /\ identities' = identities \cup {batch.data}
                       /\ AddReceived(s, batch.data, batch.positions)
                  ELSE UNCHANGED <<identities, buckets, atts, verifying>>
         ELSE UNCHANGED <<identities, buckets, atts, verifying>>
  /\ UNCHANGED <<activeSlot, highestClosedSlot, validated, ownVars, peerVars, dropped>>

(* Data is remembered whatever becomes of the batch. *)
OnInboundData ==
  /\ stream["push"] # <<>>
  /\ stream' = [stream EXCEPT !["push"] = Tail(@)]
  /\ LET batch == Head(stream["push"])
     IN  IF Resolved(batch)
         THEN /\ identities' = identities \cup {batch.data}
              /\ \E s \in SlotForHash(batch.data) :
                   IF AcceptsSlot(s) THEN AddReceived(s, batch.data, batch.positions)
                   ELSE UNCHANGED <<buckets, atts, verifying>>
         ELSE UNCHANGED <<identities, buckets, atts, verifying>>
  /\ UNCHANGED <<activeSlot, highestClosedSlot, validated, ownVars, peerVars, dropped>>

(* Mutant: the slot is not looked at. *)
OnInboundBitmapAnySlot ==
  /\ stream["bitmap"] # <<>>
  /\ stream' = [stream EXCEPT !["bitmap"] = Tail(@)]
  /\ LET md == Head(stream["bitmap"])
         s  == SlotOf[md.data]
     IN  IF Resolved(md)
         THEN /\ identities' = identities \cup {md.data}
              /\ buckets' = buckets \cup {<<s, md.data>>}
         ELSE UNCHANGED <<identities, buckets>>
  /\ UNCHANGED <<activeSlot, highestClosedSlot, atts, validated, ownVars, verifying, peerVars,
                 dropped>>

(* Metadata names its slot.  When that is not accepted, data that comes in full
   is not remembered either. *)
OnInboundBitmap ==
  /\ stream["bitmap"] # <<>>
  /\ stream' = [stream EXCEPT !["bitmap"] = Tail(@)]
  /\ LET md == Head(stream["bitmap"])
         s  == SlotOf[md.data]
     IN  /\ IF AcceptsSlot(s) /\ Resolved(md)
            THEN /\ identities' = identities \cup {md.data}
                 /\ buckets' = buckets \cup {<<s, md.data>>}
            ELSE UNCHANGED <<identities, buckets>>
         /\ dropped' = IF md.full /\ ~AcceptsSlot(s) THEN dropped \cup {md.data} ELSE dropped
  /\ UNCHANGED <<activeSlot, highestClosedSlot, atts, validated, ownVars, verifying, peerVars>>

(* The verifier answers in order, however late. *)
OnValidated ==
  /\ verifying # <<>>
  /\ verifying' = Tail(verifying)
  /\ LET v == Head(verifying)
     IN  validated' = IF AcceptsSlot(v.slot) /\ <<v.slot, v.data>> \in buckets
                      THEN [validated EXCEPT ![v.slot][v.data] = @ \cup v.positions]
                      ELSE validated
  /\ UNCHANGED <<activeSlot, highestClosedSlot, buckets, atts, identities, ownVars, stream,
                 peerVars, dropped>>

-----------------------------------------------------------------------------
(* The peer *)

(* It sends data of the slot it is in, in full the first time on a stream.  The
   positions of metadata change nothing here. *)
PeerWrites(k, d, positions) ==
  /\ peerSlot = SlotOf[d]
  /\ Len(stream[k]) < MaxFrames
  /\ stream' = [stream EXCEPT ![k] =
                  Append(@, [data |-> d, full |-> d \notin named[k], positions |-> positions])]
  /\ named' = [named EXCEPT ![k] = @ \cup {d}]
  /\ UNCHANGED <<activeSlot, highestClosedSlot, slotVars, identities, ownVars, verifying,
                 peerSlot, dropped>>

PeerSlotStart ==
  /\ peerSlot < MaxSlot /\ peerSlot <= DriverSlot
  /\ peerSlot' = peerSlot + 1
  /\ UNCHANGED <<activeSlot, highestClosedSlot, slotVars, identities, ownVars, verifying,
                 stream, named, dropped>>

-----------------------------------------------------------------------------

Init ==
  /\ activeSlot = 0 /\ highestClosedSlot = 0
  /\ buckets = {}
  /\ atts = [s \in Slot |-> [d \in Data |-> {}]]
  /\ validated = [s \in Slot |-> [d \in Data |-> {}]]
  /\ identities = {}
  /\ publishing = {} /\ publishedIn = {}
  /\ verifying = <<>>
  /\ stream = [k \in Kind |-> <<>>]
  /\ named = [k \in Kind |-> {}]
  /\ peerSlot = 0
  /\ dropped = {}

Next ==
  \/ \E s \in Slot : SlotStart(s) \/ SlotEnd(s)
  \/ \E d \in Data, pos \in Position : PublishLocal(d, pos) \/ OnPublishLocal(d, pos)
  \/ OnInboundData \/ OnInboundBitmap \/ OnValidated
  \/ \E d \in Data : \/ PeerWrites("bitmap", d, {})
                     \/ \E batch \in SUBSET Position \ {{}} : PeerWrites("push", d, batch)
  \/ PeerSlotStart

Spec == Init /\ [][Next]_vars

-----------------------------------------------------------------------------
(* Properties *)

(* Only buckets hold attestations. *)
TypeOK ==
  /\ activeSlot \in 0 .. MaxSlot /\ highestClosedSlot \in 0 .. MaxSlot
  /\ activeSlot # 0 => activeSlot = highestClosedSlot + 1
  /\ buckets \subseteq Slot \X Data
  /\ atts \in [Slot -> [Data -> SUBSET Position]]
  /\ validated \in [Slot -> [Data -> SUBSET Position]]
  /\ \A s \in Slot, d \in Data : atts[s][d] # {} => <<s, d>> \in buckets
  /\ identities \subseteq Data
  /\ publishing \subseteq Data \X Position
  /\ publishedIn \subseteq Slot
  /\ verifying \in Seq(Submission)
  /\ stream \in [Kind -> Seq(Item)]
  /\ named \in [Kind -> SUBSET Data]
  /\ peerSlot \in 0 .. MaxSlot
  /\ dropped \subseteq Data

(* A closed slot never has state again, whatever arrives late. *)
ClosedSlotsStayEmpty == \A b \in buckets : b[1] > highestClosedSlot

(* What can be forwarded is held: encodeBatch looks up the attestation of every
   position it is given. *)
ValidatedIsHeld ==
  \A s \in Slot, d \in Data : validated[s][d] \subseteq atts[s][d]

(* In a slot that is not closed, what is held and not validated is in exactly one
   submission, and what is validated in none. *)
VerifiedOnce ==
  \A s \in Slot, d \in Data : s > highestClosedSlot =>
    LET at == {i \in DOMAIN verifying : verifying[i].slot = s /\ verifying[i].data = d}
    IN  /\ atts[s][d] \ validated[s][d] = UNION {verifying[i].positions : i \in at}
        /\ \A i, j \in at : i # j => verifying[i].positions \cap verifying[j].positions = {}

(* What is not closed is never lost: a slot keeps what came before it started. *)
SlotsOnlyGrow ==
  [][\A s \in Slot, d \in Data : s > highestClosedSlot' =>
       /\ <<s, d>> \in buckets => <<s, d>> \in buckets'
       /\ atts[s][d] \subseteq atts'[s][d]
       /\ validated[s][d] \subseteq validated'[s][d]]_vars

(* Every hash on stream k can be resolved when it is read, but for those in X. *)
ResolvableBut(k, X) ==
  \A i \in DOMAIN stream[k] :
    LET item == stream[k][i]
    IN  \/ item.full
        \/ item.data \in identities \cup X
        \/ \E j \in 1 .. i - 1 : stream[k][j].full /\ stream[k][j].data = item.data

(* A hash of a push frame can always be resolved, slots accepted or not; one of
   the bitmap stream can, unless the metadata with the data was dropped because
   its slot was not open, and then only until anything else makes the data known:
   what the node has a bucket for, it can resolve. *)
HashesResolvable ==
  /\ ResolvableBut("push", {})
  /\ ResolvableBut("bitmap", {d \in dropped : \A s \in Slot : <<s, d>> \notin buckets})

=============================================================================
