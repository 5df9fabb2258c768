--------------------------- MODULE ScarcityIndex ---------------------------
(***************************************************************************)
(* The state one att_propagation manager keeps for one (topic, slot):      *)
(* node/attprop/state.go.  Every attestation_data seen for the slot has a  *)
(* bucket; a candidate is one committee position of one bucket.  Peers'    *)
(* knowledge is kept as one available bitmap per (bucket, peer), counted   *)
(* per candidate in holderCount, and the validated candidates are indexed  *)
(* by that count in levels, which is what the send scheduler draws from.   *)
(*                                                                         *)
(* The event loop owns this state and handles one event at a time, so each *)
(* operation is one step.  A chunk that was drawn stays in the hands of    *)
(* the scheduler until it is handed to the peer's sender or rolled back;   *)
(* nothing else runs in between (hand).                                    *)
(***************************************************************************)
EXTENDS Integers, FiniteSets

CONSTANTS
  Data,               \* attestation_data values, each with a bucket of its own
  Position,           \* committee positions
  Peer,               \* peers of this node on the topic
  MaxAttsPerMessage,  \* cfg.MaxAttsPerMessage, the chunk size N
  InitLevels,         \* levels the index starts with: cfg.MaxPeersPerAtt
  NoPeer              \* nobody: there is no chunk in hand

ASSUME PeerAssumption  == IsFiniteSet(Peer) /\ NoPeer \notin Peer
ASSUME DataAssumption  == IsFiniteSet(Data) /\ IsFiniteSet(Position)
ASSUME ChunkAssumption == MaxAttsPerMessage \in Nat \ {0}
ASSUME LevelAssumption == InitLevels \in Nat \ {0}

Candidate == Data \X Position

VARIABLES
  atts,         \* candidates whose signature we possess, in any bucket
  validating,   \* received, verification not finished
  validated,    \* forwardable
  inVerifier,   \* submissions the verifier has not called back for
  peerAvail,    \* peerAvail[p]: candidates p is known to hold
  holderCount,  \* holderCount[c]: peers known to hold c
  levels,       \* levels[k]: indexed candidates whose holder count is k
  hand          \* the chunk drawn and not yet handed over or rolled back

verifyVars == <<atts, validating, validated, inVerifier>>
indexVars  == <<peerAvail, holderCount, levels>>
slotVars   == <<atts, validating, validated, inVerifier,
                peerAvail, holderCount, levels, hand>>

NoChunk == [peer |-> NoPeer, cands |-> {}]

(* No limit for push peers; push + bitmap/2 + 1 for bitmap peers. *)
NoHolderCountLimit == -1
HolderCountLimit == {NoHolderCountLimit} \cup 1 .. Cardinality(Peer) + 1

-----------------------------------------------------------------------------
(* Operators *)

Level(k) == IF k \in DOMAIN levels THEN levels[k] ELSE {}

(* DOMAIN levels is always an initial segment 0 .. n-1; growing it to hold
   level k adds the empty levels below k too. *)
EnsureLevels(K) == DOMAIN levels \cup UNION {0 .. k : k \in K}

(* The index after every candidate of C moved up one level, where it was
   indexed at all. *)
BumpedUp(C) ==
  [k \in EnsureLevels({holderCount[c] + 1 : c \in C}) |->
     {c \in Level(k) : ~(c \in C /\ holderCount[c] = k)}
       \cup {c \in C : holderCount[c] + 1 = k /\ c \in Level(holderCount[c])}]

(* Mutant: the roll-back forgets the index. *)
BumpedDownForgotten(C) == levels

(* The index after every candidate of C moved down one level. *)
BumpedDown(C) ==
  [k \in DOMAIN levels |->
     {c \in levels[k] : ~(c \in C /\ holderCount[c] = k)}
       \cup {c \in C : holderCount[c] - 1 = k /\ c \in Level(holderCount[c])}]

(* Mutant: newly validated candidates are taken to have no holder yet. *)
IndexedAtZero(C) == [levels EXCEPT ![0] = @ \cup C]

(* The index with the newly validated candidates C at their holder counts. *)
Indexed(C) ==
  [k \in EnsureLevels({holderCount[c] : c \in C}) |->
     Level(k) \cup {c \in C : holderCount[c] = k}]

(* Mutant: a bit that was set already counts again. *)
MarkHoldersAgain(p, C) ==
  /\ peerAvail'   = [peerAvail EXCEPT ![p] = @ \cup C]
  /\ holderCount' = [c \in Candidate |->
                       IF c \in C THEN holderCount[c] + 1 ELSE holderCount[c]]
  /\ levels'      = BumpedUp(C)

(* Every candidate of C is now known to be held by p: the single funnel for
   what a peer was learned to hold.  Only bits that were clear count. *)
MarkHolders(p, C) ==
  LET flipped == C \ peerAvail[p]
  IN  /\ peerAvail'   = [peerAvail EXCEPT ![p] = @ \cup flipped]
      /\ holderCount' = [c \in Candidate |->
                           IF c \in flipped THEN holderCount[c] + 1 ELSE holderCount[c]]
      /\ levels'      = BumpedUp(flipped)

(* Undoes MarkHolders(p, C) for a chunk the sender could not take. *)
UnmarkHolders(p, C) ==
  LET cleared == C \cap peerAvail[p]
  IN  /\ peerAvail'   = [peerAvail EXCEPT ![p] = @ \ cleared]
      /\ holderCount' = [c \in Candidate |->
                           IF c \in cleared THEN holderCount[c] - 1 ELSE holderCount[c]]
      /\ levels'      = BumpedDown(cleared)

(* Candidates p lacks, from the levels below an exclusive limit. *)
Eligible(p, limit) ==
  {c \in UNION {levels[k] : k \in {j \in DOMAIN levels : limit >= 0 => j < limit}} :
     c \notin peerAvail[p]}

(* Mutant: any N eligible candidates, common ones included. *)
DrawsAnyLevel(p, limit) ==
  {D \in SUBSET Eligible(p, limit) : Cardinality(D) \in 1 .. MaxAttsPerMessage}

(* The draws a walk of the levels from 0 upwards can end with.  It stops at
   MaxAttsPerMessage candidates; the order of the buckets in a level and of
   the positions in a bucket is that of Go maps, so any, but a bucket is left
   only when it is exhausted: at most one bucket of the last level is cut. *)
Draws(p, limit) ==
  LET eligible == Eligible(p, limit)
      complete(k) == {c \in eligible : c \in levels[k]}
      cutBuckets(D, k) ==
        {d \in Data : /\ \E c \in complete(k) \cap D : c[1] = d
                      /\ \E c \in complete(k) \ D : c[1] = d}
  IN  {D \in SUBSET eligible :
         /\ D # {}
         /\ Cardinality(D) =
              IF Cardinality(eligible) < MaxAttsPerMessage
              THEN Cardinality(eligible) ELSE MaxAttsPerMessage
         /\ \A j, k \in DOMAIN levels :
              j < k /\ complete(k) \cap D # {} => complete(j) \subseteq D
         /\ \A k \in DOMAIN levels : Cardinality(cutBuckets(D, k)) <= 1}

-----------------------------------------------------------------------------
(* Operations *)

(* A data batch of bucket d with positions P arrives from p: p holds all of
   it, and what is new goes to the verifier. *)
ReceiveBatch(p, d, P) ==
  LET received == {d} \X P
      new      == received \ atts
  IN  /\ hand = NoChunk
      /\ MarkHolders(p, received)
      /\ atts'       = atts \cup new
      /\ validating' = validating \cup new
      /\ inVerifier' = IF new = {} THEN inVerifier ELSE inVerifier \cup {new}
      /\ UNCHANGED <<validated, hand>>

(* p advertises, on the bitmap stream, positions P of bucket d. *)
ReceiveAvailable(p, d, P) ==
  /\ hand = NoChunk
  /\ MarkHolders(p, {d} \X P)
  /\ UNCHANGED <<atts, validating, validated, inVerifier, hand>>

(* The verifier's callback for one submission: its candidates become
   forwardable, each at the holder count it has by now. *)
Validated(batch) ==
  LET new == batch \ validated
  IN  /\ hand = NoChunk
      /\ batch \in inVerifier
      /\ inVerifier' = inVerifier \ {batch}
      /\ validating' = validating \ new
      /\ validated'  = validated \cup new
      /\ levels'     = Indexed(new)
      /\ UNCHANGED <<atts, peerAvail, holderCount, hand>>

(* This node's own attestation: no verification, unless it is there already. *)
PublishLocal(c) ==
  /\ hand = NoChunk
  /\ c \notin atts
  /\ atts'      = atts \cup {c}
  /\ validated' = validated \cup {c}
  /\ levels'    = Indexed({c})
  /\ UNCHANGED <<validating, inVerifier, peerAvail, holderCount, hand>>

(* Mutant: the draw is not committed to the peer. *)
SelectUncommitted(p, allowPartial, limit) ==
  /\ hand = NoChunk
  /\ \E D \in Draws(p, limit) :
       /\ allowPartial \/ Cardinality(D) = MaxAttsPerMessage
       /\ hand' = [peer |-> p, cands |-> D]
  /\ UNCHANGED <<verifyVars, indexVars>>

(* The scarcest chunk p lacks, committed as it is drawn; unless allowPartial,
   only a full one. *)
SelectOneChunkForPeer(p, allowPartial, limit) ==
  /\ hand = NoChunk
  /\ \E D \in Draws(p, limit) :
       /\ allowPartial \/ Cardinality(D) = MaxAttsPerMessage
       /\ MarkHolders(p, D)
       /\ hand' = [peer |-> p, cands |-> D]
  /\ UNCHANGED verifyVars

(* The chunk in hand went to the sender's queue. *)
HandOver ==
  /\ hand # NoChunk
  /\ hand' = NoChunk
  /\ UNCHANGED <<atts, validating, validated, inVerifier,
                 peerAvail, holderCount, levels>>

(* The sender's queue was full: the chunk in hand is taken back. *)
RollbackChunk ==
  /\ hand # NoChunk
  /\ UnmarkHolders(hand.peer, hand.cands)
  /\ hand' = NoChunk
  /\ UNCHANGED verifyVars

-----------------------------------------------------------------------------

SlotInit ==
  /\ atts        = {}
  /\ validating  = {}
  /\ validated   = {}
  /\ inVerifier  = {}
  /\ peerAvail   = [p \in Peer |-> {}]
  /\ holderCount = [c \in Candidate |-> 0]
  /\ levels      = [k \in 0 .. InitLevels - 1 |-> {}]
  /\ hand        = NoChunk

SlotNext ==
  \/ \E p \in Peer, d \in Data, P \in SUBSET Position \ {{}} : ReceiveBatch(p, d, P)
  \/ \E p \in Peer, d \in Data, P \in SUBSET Position \ {{}} : ReceiveAvailable(p, d, P)
  \/ \E batch \in inVerifier : Validated(batch)
  \/ \E c \in Candidate : PublishLocal(c)
  \/ \E p \in Peer, allowPartial \in BOOLEAN, limit \in HolderCountLimit :
       SelectOneChunkForPeer(p, allowPartial, limit)
  \/ HandOver
  \/ RollbackChunk

SlotSpec == SlotInit /\ [][SlotNext]_slotVars

-----------------------------------------------------------------------------
(* Properties *)

TypeOK ==
  /\ atts \subseteq Candidate
  /\ validating \subseteq Candidate
  /\ validated \subseteq Candidate
  /\ inVerifier \subseteq SUBSET Candidate
  /\ peerAvail \in [Peer -> SUBSET Candidate]
  /\ holderCount \in [Candidate -> Nat]
  /\ 0 \in DOMAIN levels
  /\ \A k \in DOMAIN levels :
       k \in Nat /\ 0 .. k \subseteq DOMAIN levels /\ levels[k] \subseteq Candidate
  /\ hand \in [peer : Peer \cup {NoPeer}, cands : SUBSET Candidate]
  /\ hand.peer = NoPeer => hand.cands = {}

Holders(c) == {p \in Peer : c \in peerAvail[p]}

(* The scarcity metric is what it claims to be: holderCount is the number of
   peers whose available bit is set, through inbound data, advertisements,
   our own sends and roll-backs in any order. *)
HolderCountExact == \A c \in Candidate : holderCount[c] = Cardinality(Holders(c))

(* The index holds exactly the validated candidates, each in the one level of
   its holder count: nothing validated is unreachable for the scheduler and
   nothing unvalidated, stale or duplicated can be drawn. *)
IndexExact ==
  /\ \A c \in validated : holderCount[c] \in DOMAIN levels
  /\ \A k \in DOMAIN levels :
       levels[k] = {c \in validated : holderCount[c] = k}

(* The verification gate: what we possess is validated or on its way through
   the verifier, never both, and every candidate on its way is in exactly one
   submission, so none is verified twice and none waits for no callback. *)
VerifiedOnce ==
  /\ atts = validating \cup validated
  /\ validating \cap validated = {}
  /\ validating = UNION inVerifier
  /\ \A S, T \in inVerifier : S # T => S \cap T = {}

(* A chunk in hand consists of validated candidates, and is already committed
   to the peer, so the next peer served in the pass sees the new counts. *)
HandCommitted ==
  hand # NoChunk =>
    /\ hand.peer \in Peer
    /\ hand.cands # {}
    /\ hand.cands \subseteq validated \cap peerAvail[hand.peer]
    /\ Cardinality(hand.cands) <= MaxAttsPerMessage

(* A draw is fair to scarcity: nothing the peer lacks and might have been sent
   is held by fewer peers than something drawn, and nothing drawn was already
   known to the peer (§E2). *)
ScarcestFirst ==
  [][hand = NoChunk /\ hand' # NoChunk =>
       LET p == hand'.peer
       IN  /\ hand'.cands \cap peerAvail[p] = {}
           /\ \A drawn \in hand'.cands, left \in validated \ peerAvail'[p] :
                Cardinality(Holders(drawn)) <= Cardinality(Holders(left))]_slotVars

(* A roll-back leaves no trace: the candidates are drawable for the peer again
   and count one holder less. *)
RollbackRestores ==
  [][hand # NoChunk /\ hand' = NoChunk /\ peerAvail' # peerAvail =>
       \A c \in hand.cands :
         /\ c \notin peerAvail'[hand.peer]
         /\ c \in levels'[Cardinality(Holders(c)) - 1]]_slotVars
=============================================================================
