------------------------ MODULE ScarcityIndexProofs ------------------------
(***************************************************************************)
(* Proofs about ScarcityIndex, for any finite sets of peers, buckets and   *)
(* positions, any chunk size and any initial number of levels.             *)
(*                                                                         *)
(* The inductive invariant is the conjunction of the five state            *)
(* invariants.  Its core is the pair (HolderCountExact, IndexExact): a     *)
(* roll-back keeps counts natural only because they equal the number of    *)
(* holders, and an operation finds the candidates it moves only because    *)
(* the index is exact, so neither is inductive alone.                      *)
(***************************************************************************)
EXTENDS ScarcityIndex, FiniteSetTheorems, TLAPS

(* The scarcity index with its counts and its gate is consistent. *)
IndexInv ==
  /\ TypeOK
  /\ HolderCountExact
  /\ IndexExact
  /\ VerifiedOnce
  /\ HandCommitted

(* The part of the invariant the index operations preserve on their own. *)
CountsAndLevels ==
  /\ peerAvail \in [Peer -> SUBSET Candidate]
  /\ holderCount \in [Candidate -> Nat]
  /\ validated \subseteq Candidate
  /\ 0 \in DOMAIN levels
  /\ \A k \in DOMAIN levels :
       k \in Nat /\ 0 .. k \subseteq DOMAIN levels /\ levels[k] \subseteq Candidate
  /\ HolderCountExact
  /\ IndexExact

-----------------------------------------------------------------------------
(* Lemmas about the operators *)

(* Growing the index keeps its levels an initial segment and reaches every
   level asked for. *)
LEMMA EnsureLevelsSegment ==
  ASSUME CountsAndLevels, NEW K \in SUBSET Nat
  PROVE  /\ 0 \in EnsureLevels(K)
         /\ K \subseteq EnsureLevels(K)
         /\ DOMAIN levels \subseteq EnsureLevels(K)
         /\ \A k \in EnsureLevels(K) : k \in Nat /\ 0 .. k \subseteq EnsureLevels(K)
<1>1. \A k \in EnsureLevels(K) :
        k \in DOMAIN levels \/ \E j \in K : k \in 0 .. j
  BY DEF EnsureLevels
<1>2. \A j \in K : 0 .. j \subseteq EnsureLevels(K)
  BY DEF EnsureLevels
<1>3. K \subseteq EnsureLevels(K)
  BY <1>2
<1>4. ASSUME NEW k \in EnsureLevels(K)
      PROVE  k \in Nat /\ 0 .. k \subseteq EnsureLevels(K)
  <2>1. CASE k \in DOMAIN levels
    BY <2>1 DEF CountsAndLevels, EnsureLevels
  <2>2. CASE \E j \in K : k \in 0 .. j
    BY <2>2, <1>2
  <2> QED BY <2>1, <2>2, <1>1
<1> QED BY <1>3, <1>4 DEF CountsAndLevels, EnsureLevels

(* While the index is exact, a level that does not exist holds nothing. *)
LEMMA LevelExact ==
  ASSUME CountsAndLevels, NEW k \in Nat
  PROVE  Level(k) = {c \in validated : holderCount[c] = k}
BY DEF CountsAndLevels, IndexExact, Level

(* Setting one peer's bits adds that peer to the holders of what was clear. *)
LEMMA HoldersGrow ==
  ASSUME CountsAndLevels, NEW p \in Peer, NEW C \in SUBSET Candidate,
         MarkHolders(p, C), NEW c \in Candidate
  PROVE  /\ c \in C \ peerAvail[p] =>
              Holders(c)' = Holders(c) \cup {p} /\ p \notin Holders(c)
         /\ c \notin C \ peerAvail[p] => Holders(c)' = Holders(c)
BY DEF CountsAndLevels, MarkHolders, Holders

(* Clearing one peer's bits removes that peer from the holders of what was
   set. *)
LEMMA HoldersShrink ==
  ASSUME CountsAndLevels, NEW p \in Peer, NEW C \in SUBSET Candidate,
         UnmarkHolders(p, C), NEW c \in Candidate
  PROVE  /\ c \in C \cap peerAvail[p] =>
              Holders(c)' = Holders(c) \ {p} /\ p \in Holders(c)
         /\ c \notin C \cap peerAvail[p] => Holders(c)' = Holders(c)
BY DEF CountsAndLevels, UnmarkHolders, Holders

(* The holders of a candidate can be counted. *)
LEMMA HoldersFinite ==
  ASSUME NEW c PROVE IsFiniteSet(Holders(c)) /\ Cardinality(Holders(c)) \in Nat
BY PeerAssumption, FS_Subset, FS_CardinalityType DEF Holders

-----------------------------------------------------------------------------
(* The index operations *)

(* Marking holders, as received data, advertisements and draws do, keeps the
   counts equal to the holders and every validated candidate in its level. *)
LEMMA MarkHoldersKeepsIndex ==
  ASSUME CountsAndLevels, NEW p \in Peer, NEW C \in SUBSET Candidate,
         MarkHolders(p, C), validated' = validated
  PROVE  CountsAndLevels'
<1> DEFINE F == C \ peerAvail[p]
           K == {holderCount[c] + 1 : c \in F}
<1>1. F \in SUBSET Candidate /\ K \in SUBSET Nat
  BY DEF CountsAndLevels
<1>2. /\ peerAvail' = [peerAvail EXCEPT ![p] = @ \cup F]
      /\ holderCount' = [c \in Candidate |->
                           IF c \in F THEN holderCount[c] + 1 ELSE holderCount[c]]
      /\ levels' = BumpedUp(F)
  BY DEF MarkHolders
<1>3. holderCount' \in [Candidate -> Nat] /\ peerAvail' \in [Peer -> SUBSET Candidate]
  BY <1>1, <1>2 DEF CountsAndLevels
<1>4. HolderCountExact'
  <2> SUFFICES ASSUME NEW c \in Candidate
               PROVE  holderCount'[c] = Cardinality(Holders(c)')
    BY DEF HolderCountExact, Holders
  <2>1. holderCount[c] = Cardinality(Holders(c))
    BY DEF CountsAndLevels, HolderCountExact
  <2>2. CASE c \in F
    <3>1. Holders(c)' = Holders(c) \cup {p} /\ p \notin Holders(c)
      BY <2>2, HoldersGrow
    <3>2. Cardinality(Holders(c) \cup {p}) = Cardinality(Holders(c)) + 1
      BY <3>1, HoldersFinite, FS_AddElement
    <3> QED BY <1>2, <2>1, <2>2, <3>1, <3>2
  <2>3. CASE c \notin F
    BY <1>2, <2>1, <2>3, HoldersGrow
  <2> QED BY <2>2, <2>3
<1>5. DOMAIN levels' = EnsureLevels(K)
  BY <1>2 DEF BumpedUp
<1>6. ASSUME NEW k \in DOMAIN levels'
      PROVE  levels'[k] = {c \in validated : holderCount'[c] = k}
  <2>1. k \in Nat
    BY <1>1, <1>5, EnsureLevelsSegment
  <2>2. levels'[k] =
          {c \in Level(k) : ~(c \in F /\ holderCount[c] = k)}
            \cup {c \in F : holderCount[c] + 1 = k /\ c \in Level(holderCount[c])}
    BY <1>2, <1>5 DEF BumpedUp
  <2>3. \A c \in F : c \in Level(holderCount[c]) <=> c \in validated
    BY <1>1, LevelExact DEF CountsAndLevels
  <2>4. Level(k) = {c \in validated : holderCount[c] = k}
    BY <2>1, LevelExact
  <2>5. validated \subseteq Candidate /\ \A c \in Candidate : holderCount[c] \in Nat
    BY DEF CountsAndLevels
  <2> QED BY <1>1, <1>2, <2>1, <2>2, <2>3, <2>4, <2>5
<1>7. ASSUME NEW c \in validated PROVE holderCount'[c] \in DOMAIN levels'
  <2>1. c \in Candidate /\ holderCount[c] \in DOMAIN levels
    BY DEF CountsAndLevels, IndexExact
  <2>2. CASE c \in F
    BY <1>1, <1>2, <1>5, <2>1, <2>2, EnsureLevelsSegment
  <2>3. CASE c \notin F
    BY <1>1, <1>2, <1>5, <2>1, <2>3, EnsureLevelsSegment
  <2> QED BY <2>2, <2>3
<1>8. /\ 0 \in DOMAIN levels'
      /\ \A k \in DOMAIN levels' :
           /\ k \in Nat /\ 0 .. k \subseteq DOMAIN levels'
           /\ levels'[k] \subseteq Candidate
  <2>1. 0 \in DOMAIN levels'
    BY <1>1, <1>5, EnsureLevelsSegment
  <2>2. \A k \in DOMAIN levels' : k \in Nat /\ 0 .. k \subseteq DOMAIN levels'
    BY <1>1, <1>5, EnsureLevelsSegment
  <2>3. \A k \in DOMAIN levels' : levels'[k] \subseteq Candidate
    BY <1>6 DEF CountsAndLevels
  <2> QED BY <2>1, <2>2, <2>3
<1>9. IndexExact'
  BY <1>6, <1>7, validated' = validated DEF IndexExact
<1> QED BY <1>3, <1>4, <1>8, <1>9, validated' = validated DEF CountsAndLevels

(* Taking a chunk back keeps them too. *)
LEMMA UnmarkHoldersKeepsIndex ==
  ASSUME CountsAndLevels, NEW p \in Peer, NEW C \in SUBSET Candidate,
         UnmarkHolders(p, C), validated' = validated
  PROVE  CountsAndLevels'
<1> DEFINE F == C \cap peerAvail[p]
<1>1. F \in SUBSET Candidate
  BY DEF CountsAndLevels
<1>2. /\ peerAvail' = [peerAvail EXCEPT ![p] = @ \ F]
      /\ holderCount' = [c \in Candidate |->
                           IF c \in F THEN holderCount[c] - 1 ELSE holderCount[c]]
      /\ levels' = BumpedDown(F)
  BY DEF UnmarkHolders
<1>3. ASSUME NEW c \in Candidate
      PROVE  holderCount'[c] = Cardinality(Holders(c)') /\ holderCount'[c] \in Nat
  <2>1. holderCount[c] = Cardinality(Holders(c))
    BY DEF CountsAndLevels, HolderCountExact
  <2>2. CASE c \in F
    <3>1. Holders(c)' = Holders(c) \ {p} /\ p \in Holders(c)
      BY <2>2, HoldersShrink
    <3>2. /\ Cardinality(Holders(c) \ {p}) = Cardinality(Holders(c)) - 1
          /\ Cardinality(Holders(c) \ {p}) \in Nat
      BY <3>1, HoldersFinite, FS_RemoveElement, FS_CardinalityType
    <3> QED BY <1>2, <2>1, <2>2, <3>1, <3>2
  <2>3. CASE c \notin F
    BY <1>2, <2>1, <2>3, HoldersShrink, HoldersFinite
  <2> QED BY <2>2, <2>3
<1>4. holderCount' \in [Candidate -> Nat] /\ peerAvail' \in [Peer -> SUBSET Candidate]
  BY <1>1, <1>2, <1>3 DEF CountsAndLevels
<1>5. HolderCountExact'
  BY <1>3 DEF HolderCountExact, Holders
<1>6. DOMAIN levels' = DOMAIN levels
  BY <1>2 DEF BumpedDown
<1>7. ASSUME NEW k \in DOMAIN levels'
      PROVE  levels'[k] = {c \in validated : holderCount'[c] = k}
  <2>1. k \in Nat
    BY <1>6 DEF CountsAndLevels
  <2>2. levels'[k] =
          {c \in levels[k] : ~(c \in F /\ holderCount[c] = k)}
            \cup {c \in F : holderCount[c] - 1 = k /\ c \in Level(holderCount[c])}
    BY <1>2, <1>6 DEF BumpedDown
  <2>3. \A c \in F : c \in Level(holderCount[c]) <=> c \in validated
    BY <1>1, LevelExact DEF CountsAndLevels
  <2>4. levels[k] = {c \in validated : holderCount[c] = k}
    BY <1>6 DEF CountsAndLevels, IndexExact
  <2>5. validated \subseteq Candidate /\ \A c \in Candidate : holderCount[c] \in Nat
    BY DEF CountsAndLevels
  <2> QED BY <1>1, <1>2, <2>1, <2>2, <2>3, <2>4, <2>5
<1>8. ASSUME NEW c \in validated PROVE holderCount'[c] \in DOMAIN levels'
  <2>1. c \in Candidate /\ holderCount[c] \in DOMAIN levels
    BY DEF CountsAndLevels, IndexExact
  <2>2. holderCount'[c] \in 0 .. holderCount[c]
    BY <1>2, <1>3, <2>1 DEF CountsAndLevels
  <2> QED BY <1>6, <2>1, <2>2 DEF CountsAndLevels
<1>9. IndexExact'
  BY <1>7, <1>8, validated' = validated DEF IndexExact
<1> QED BY <1>4, <1>5, <1>6, <1>7, <1>9, validated' = validated DEF CountsAndLevels

(* Indexing newly validated candidates at their current holder counts keeps
   them, whatever was learned about the holders while they were verified. *)
LEMMA IndexedKeepsIndex ==
  ASSUME CountsAndLevels, NEW C \in SUBSET Candidate,
         validated' = validated \cup C, levels' = Indexed(C),
         UNCHANGED <<peerAvail, holderCount>>
  PROVE  CountsAndLevels'
<1> DEFINE K == {holderCount[c] : c \in C}
<1>1. K \in SUBSET Nat
  BY DEF CountsAndLevels
<1>2. DOMAIN levels' = EnsureLevels(K)
  BY DEF Indexed
<1>3. HolderCountExact'
  BY DEF CountsAndLevels, HolderCountExact, Holders
<1>4. ASSUME NEW k \in DOMAIN levels'
      PROVE  levels'[k] = {c \in validated' : holderCount'[c] = k}
  <2>1. k \in Nat
    BY <1>1, <1>2, EnsureLevelsSegment
  <2>2. levels'[k] = Level(k) \cup {c \in C : holderCount[c] = k}
    BY <1>2 DEF Indexed
  <2> QED BY <2>1, <2>2, LevelExact
<1>5. ASSUME NEW c \in validated' PROVE holderCount'[c] \in DOMAIN levels'
  <2>1. CASE c \in C
    BY <1>1, <1>2, <2>1, EnsureLevelsSegment
  <2>2. CASE c \in validated
    BY <1>1, <1>2, <2>2, EnsureLevelsSegment DEF CountsAndLevels, IndexExact
  <2> QED BY <2>1, <2>2
<1>6. IndexExact'
  BY <1>4, <1>5 DEF IndexExact
<1>7. 0 \in DOMAIN levels' /\ \A k \in DOMAIN levels' : k \in Nat /\ 0 .. k \subseteq DOMAIN levels'
  BY <1>1, <1>2, EnsureLevelsSegment
<1>8. validated' \subseteq Candidate
  BY DEF CountsAndLevels
<1>9. \A k \in DOMAIN levels' : levels'[k] \subseteq Candidate
  BY <1>4, <1>8
<1> QED BY <1>3, <1>6, <1>7, <1>8, <1>9 DEF CountsAndLevels

-----------------------------------------------------------------------------
(* The draw *)

(* There are finitely many candidates, so every draw can be counted. *)
LEMMA CandidateFinite ==
  ASSUME NEW S \in SUBSET Candidate
  PROVE  IsFiniteSet(S) /\ Cardinality(S) \in Nat
<1>1. IsFiniteSet(Candidate)
  BY DataAssumption, FS_Product DEF Candidate
<1> QED BY <1>1, FS_Subset, FS_CardinalityType

(* Whatever the limit, a draw takes validated candidates the peer lacks, at
   least one and no more than a message holds. *)
LEMMA DrawsAreValidated ==
  ASSUME CountsAndLevels, NEW p \in Peer, NEW limit, NEW D \in Draws(p, limit)
  PROVE  /\ D # {}
         /\ D \subseteq validated
         /\ D \cap peerAvail[p] = {}
         /\ Cardinality(D) <= MaxAttsPerMessage
<1>1. D \in SUBSET Eligible(p, limit) /\ D # {}
  BY DEF Draws
<1>2. Eligible(p, limit) \subseteq validated /\ Eligible(p, limit) \cap peerAvail[p] = {}
  BY DEF Eligible, CountsAndLevels, IndexExact
<1>3. Cardinality(Eligible(p, limit)) \in Nat
  BY <1>2, CandidateFinite DEF CountsAndLevels
<1>4. Cardinality(D) = IF Cardinality(Eligible(p, limit)) < MaxAttsPerMessage
                       THEN Cardinality(Eligible(p, limit)) ELSE MaxAttsPerMessage
  BY DEF Draws
<1>5. Cardinality(D) <= MaxAttsPerMessage
  BY <1>3, <1>4, ChunkAssumption
<1> QED BY <1>1, <1>2, <1>5

(* Nothing left behind below the limit is scarcer than what was drawn. *)
LEMMA DrawsAreScarcest ==
  ASSUME CountsAndLevels, NEW p \in Peer, NEW limit \in HolderCountLimit,
         NEW D \in Draws(p, limit),
         NEW drawn \in D, NEW left \in validated \ (peerAvail[p] \cup D)
  PROVE  holderCount[drawn] <= holderCount[left]
<1> DEFINE j == holderCount[left]
           k == holderCount[drawn]
<1>1. drawn \in Eligible(p, limit) /\ drawn \in validated
  BY DrawsAreValidated DEF Draws
<1>2. j \in DOMAIN levels /\ k \in DOMAIN levels /\ j \in Nat /\ k \in Nat
  BY <1>1 DEF CountsAndLevels, IndexExact
<1>3. left \in levels[j] /\ drawn \in levels[k]
  BY <1>1, <1>2 DEF CountsAndLevels, IndexExact
<1>4. limit \in Int
  <2>1. Cardinality(Peer) \in Nat
    BY PeerAssumption, FS_CardinalityType
  <2> QED BY <2>1 DEF HolderCountLimit, NoHolderCountLimit
<1>5. limit >= 0 => k < limit
  <2>1. PICK i \in DOMAIN levels : drawn \in levels[i] /\ (limit >= 0 => i < limit)
    BY <1>1 DEF Eligible
  <2>2. i = k
    BY <2>1 DEF CountsAndLevels, IndexExact
  <2> QED BY <2>1, <2>2
<1>6. SUFFICES ASSUME j < k PROVE FALSE
  BY <1>2
<1>7. left \in Eligible(p, limit)
  BY <1>2, <1>3, <1>4, <1>5, <1>6 DEF Eligible
<1>8. {c \in Eligible(p, limit) : c \in levels[k]} \cap D # {}
  BY <1>1, <1>3
<1>9. {c \in Eligible(p, limit) : c \in levels[j]} \subseteq D
  BY <1>2, <1>6, <1>8 DEF Draws
<1> QED BY <1>3, <1>7, <1>9

(* While the index is exact, what may be drawn for a peer is what it lacks of
   the validated, as far as the limit goes. *)
LEMMA EligibleExact ==
  ASSUME CountsAndLevels, NEW p \in Peer, NEW limit
  PROVE  Eligible(p, limit) =
           {c \in validated \ peerAvail[p] : limit >= 0 => holderCount[c] < limit}
BY DEF CountsAndLevels, IndexExact, Eligible

(* A finite set of candidates has one that no other is above. *)
LEMMA MostCommonOne ==
  ASSUME NEW S \in SUBSET Candidate, S # {}, holderCount \in [Candidate -> Nat]
  PROVE  \E top \in S : \A c \in S : holderCount[c] <= holderCount[top]
<1> DEFINE above(c) == {b \in S : holderCount[b] >= holderCount[c]}
           Tops == {above(c) : c \in S}
<1>1. Tops \subseteq FiniteSubsetsOf(S) /\ Tops # {}
  <2>1. \A T \in SUBSET S : IsFiniteSet(T)
    BY CandidateFinite
  <2> QED BY <2>1 DEF FiniteSubsetsOf
<1>2. PICK T \in Tops : \A U \in Tops : ~(<<U, T>> \in StrictSubsetOrdering(S))
  BY <1>1, FS_StrictSubsetOrderingWellFounded, WFMin
<1>3. PICK top \in S : T = above(top)
  BY <1>2
<1>4. ASSUME NEW c \in S PROVE holderCount[c] <= holderCount[top]
  <2>1. SUFFICES ASSUME holderCount[c] > holderCount[top] PROVE FALSE
    OBVIOUS
  <2>2. \A b \in S : holderCount[b] \in Nat
    OBVIOUS
  <2>3. above(c) \subseteq above(top) /\ top \in above(top) \ above(c)
    BY <2>1, <2>2
  <2>4. <<above(c), T>> \in StrictSubsetOrdering(S)
    BY <1>3, <2>3 DEF StrictSubsetOrdering
  <2> QED BY <1>2, <2>4
<1> QED BY <1>4

(* The walk of the levels: eligible candidates, scarcest level first, buckets
   of the last level one after the other. *)
Walked(p, limit, D) ==
  LET eligible == Eligible(p, limit)
  IN  /\ D \subseteq eligible
      /\ \A j, k \in DOMAIN levels :
           j < k /\ {c \in eligible : c \in levels[k]} \cap D # {}
             => {c \in eligible : c \in levels[j]} \subseteq D
      /\ \A k \in DOMAIN levels : \A a, b \in {c \in eligible : c \in levels[k]} \cap D :
           \A c, e \in {c \in eligible : c \in levels[k]} \ D :
             a[1] = c[1] /\ b[1] = e[1] => a[1] = b[1]

(* The walk can stop one candidate earlier: at the last level, in the bucket
   that is cut already, if there is one. *)
LEMMA WalkedOneLess ==
  ASSUME CountsAndLevels, NEW p \in Peer, NEW limit, NEW D, Walked(p, limit, D), D # {}
  PROVE  \E last \in D : Walked(p, limit, D \ {last})
<1> DEFINE eligible == Eligible(p, limit)
           on(k) == {c \in eligible : c \in levels[k]}
<1>1. /\ eligible \subseteq validated /\ D \subseteq eligible
      /\ validated \subseteq Candidate /\ holderCount \in [Candidate -> Nat]
  BY EligibleExact DEF Walked, CountsAndLevels
<1>2. PICK top \in D : \A c \in D : holderCount[c] <= holderCount[top]
  BY <1>1, MostCommonOne
<1>3. \A k \in DOMAIN levels : k \in Nat /\ on(k) = {c \in eligible : holderCount[c] = k}
  BY <1>1 DEF CountsAndLevels, IndexExact
<1>4. \A c \in eligible : holderCount[c] \in DOMAIN levels /\ holderCount[c] \in Nat
  BY <1>1 DEF CountsAndLevels, IndexExact
<1> DEFINE m == holderCount[top]
<1>5. m \in DOMAIN levels /\ top \in on(m) /\ m \in Nat
  BY <1>1, <1>2, <1>3, <1>4
<1>6. \E last \in on(m) \cap D :
        \A a \in on(m) \cap D, c \in on(m) \ D : a[1] = c[1] => last[1] = a[1]
  <2>1. CASE \E a \in on(m) \cap D, c \in on(m) \ D : a[1] = c[1]
    <3>1. PICK a \in on(m) \cap D, c \in on(m) \ D : a[1] = c[1]
      BY <2>1
    <3>2. \A b \in on(m) \cap D, e \in on(m) \ D : b[1] = e[1] => a[1] = b[1]
      BY <1>5, <3>1 DEF Walked
    <3> QED BY <3>1, <3>2
  <2>2. CASE ~\E a \in on(m) \cap D, c \in on(m) \ D : a[1] = c[1]
    BY <1>2, <1>5, <2>2
  <2> QED BY <2>1, <2>2
<1>7. PICK last \in on(m) \cap D :
        \A a \in on(m) \cap D, c \in on(m) \ D : a[1] = c[1] => last[1] = a[1]
  BY <1>6
<1> DEFINE E == D \ {last}
<1>8. ASSUME NEW j \in DOMAIN levels, NEW k \in DOMAIN levels, j < k, on(k) \cap E # {}
      PROVE  on(j) \subseteq E
  <2>1. on(j) \subseteq D
    BY <1>8 DEF Walked
  <2>2. k <= m
    BY <1>1, <1>2, <1>3, <1>8
  <2>3. last \notin on(j)
    BY <1>3, <1>5, <1>7, <1>8, <2>2
  <2> QED BY <2>1, <2>3
<1>9. ASSUME NEW k \in DOMAIN levels, NEW a \in on(k) \cap E, NEW b \in on(k) \cap E,
             NEW c \in on(k) \ E, NEW e \in on(k) \ E, a[1] = c[1], b[1] = e[1]
      PROVE  a[1] = b[1]
  <2>1. CASE k = m
    <3>1. \A x \in on(m) \cap E, y \in on(m) \ E : x[1] = y[1] => last[1] = x[1]
      BY <1>7
    <3> QED BY <1>9, <2>1, <3>1
  <2>2. CASE k # m
    <3>1. c \notin D /\ e \notin D
      BY <1>3, <1>5, <1>7, <1>9, <2>2
    <3> QED BY <1>9, <3>1 DEF Walked
  <2> QED BY <2>1, <2>2
<1>10. Walked(p, limit, E)
  BY <1>1, <1>8, <1>9 DEF Walked
<1> QED BY <1>7, <1>10

(* selectForPeer comes back with a chunk whenever there is something for the
   peer below the limit: with everything there is, or with a full chunk. *)
LEMMA DrawsExist ==
  ASSUME CountsAndLevels, NEW p \in Peer, NEW limit, Eligible(p, limit) # {}
  PROVE  \E D \in Draws(p, limit) :
           Cardinality(D) = IF Cardinality(Eligible(p, limit)) < MaxAttsPerMessage
                            THEN Cardinality(Eligible(p, limit)) ELSE MaxAttsPerMessage
<1> DEFINE eligible == Eligible(p, limit)
           enough == IF Cardinality(eligible) < MaxAttsPerMessage
                     THEN Cardinality(eligible) ELSE MaxAttsPerMessage
           Walks == {D \in SUBSET eligible : Walked(p, limit, D) /\ Cardinality(D) >= enough}
<1>1. eligible \subseteq validated /\ eligible \subseteq Candidate
  BY EligibleExact DEF CountsAndLevels
<1>2. IsFiniteSet(eligible) /\ \A D \in SUBSET eligible : IsFiniteSet(D) /\ Cardinality(D) \in Nat
  BY <1>1, CandidateFinite
<1>3. Cardinality(eligible) \in Nat \ {0}
  BY <1>2, FS_EmptySet
<1>4. enough \in Nat \ {0} /\ enough <= Cardinality(eligible)
  BY <1>3, ChunkAssumption
<1>5. Walked(p, limit, eligible)
  BY DEF Walked
<1>6. Walks # {} /\ Walks \subseteq FiniteSubsetsOf(eligible)
  BY <1>2, <1>4, <1>5 DEF FiniteSubsetsOf
<1>7. PICK D \in Walks : \A E \in Walks : ~(<<E, D>> \in StrictSubsetOrdering(eligible))
  BY <1>6, FS_StrictSubsetOrderingWellFounded, WFMin
<1> HIDE DEF enough
<1>8. D \subseteq eligible /\ Walked(p, limit, D) /\ Cardinality(D) >= enough
  BY <1>7
<1>9. D # {}
  BY <1>4, <1>8, FS_EmptySet
<1>10. Cardinality(D) = enough
  <2>1. PICK last \in D : Walked(p, limit, D \ {last})
    BY <1>8, <1>9, WalkedOneLess
  <2>2. Cardinality(D \ {last}) = Cardinality(D) - 1
    BY <1>2, <1>8, FS_RemoveElement
  <2>3. <<D \ {last}, D>> \in StrictSubsetOrdering(eligible)
    BY <1>8 DEF StrictSubsetOrdering
  <2>4. D \ {last} \notin Walks
    BY <1>7, <2>3
  <2>5. ~(Cardinality(D \ {last}) >= enough)
    BY <1>8, <2>1, <2>4
  <2> QED BY <1>2, <1>4, <1>8, <2>2, <2>5
<1>11. ASSUME NEW k \in DOMAIN levels
       PROVE  LET on == {c \in eligible : c \in levels[k]}
                  cut == {d \in Data : /\ \E c \in on \cap D : c[1] = d
                                       /\ \E c \in on \ D : c[1] = d}
              IN  Cardinality(cut) <= 1
  <2> DEFINE on == {c \in eligible : c \in levels[k]}
             cut == {d \in Data : /\ \E c \in on \cap D : c[1] = d
                                  /\ \E c \in on \ D : c[1] = d}
  <2>1. \A d, e \in cut : d = e
    BY <1>8 DEF Walked
  <2> HIDE DEF cut
  <2>2. ASSUME NEW d \in cut PROVE Cardinality(cut) <= 1
    <3>1. cut = {d}
      BY <2>1, <2>2
    <3>2. Cardinality({d}) = 1
      BY FS_Singleton
    <3> QED BY <3>1, <3>2
  <2>3. Cardinality(cut) <= 1
    <3>1. CASE cut = {}
      BY <3>1, FS_EmptySet
    <3> QED BY <2>2, <3>1
  <2> QED BY <2>3 DEF cut
<1>12. D \in Draws(p, limit)
  BY <1>8, <1>9, <1>10, <1>11 DEF Draws, Walked, enough
<1> QED BY <1>10, <1>12 DEF enough

-----------------------------------------------------------------------------
(* The invariant *)

(* The parts of the invariant, as the lemmas on the operators assume them. *)
LEMMA IndexInvUnfolded ==
  IndexInv <=> /\ CountsAndLevels
               /\ atts \subseteq Candidate
               /\ validating \subseteq Candidate
               /\ inVerifier \subseteq SUBSET Candidate
               /\ hand \in [peer : Peer \cup {NoPeer}, cands : SUBSET Candidate]
               /\ (hand.peer = NoPeer => hand.cands = {})
               /\ VerifiedOnce
               /\ HandCommitted
BY DEF IndexInv, TypeOK, CountsAndLevels

(* A new slot's index is consistent. *)
LEMMA InitIndexInv == SlotInit => IndexInv
<1> SUFFICES ASSUME SlotInit PROVE IndexInv
  OBVIOUS
<1>1. \A c \in Candidate : Holders(c) = {}
  BY DEF SlotInit, Holders
<1>2. HolderCountExact
  BY <1>1, FS_EmptySet DEF SlotInit, HolderCountExact
<1>3. IndexExact
  BY DEF SlotInit, IndexExact
<1>4. 0 \in DOMAIN levels
      /\ \A k \in DOMAIN levels :
           k \in Nat /\ 0 .. k \subseteq DOMAIN levels /\ levels[k] \subseteq Candidate
  BY LevelAssumption DEF SlotInit
<1>5. TypeOK
  BY <1>4 DEF SlotInit, TypeOK, NoChunk
<1>6. VerifiedOnce /\ HandCommitted
  BY DEF SlotInit, VerifiedOnce, HandCommitted
<1> QED BY <1>2, <1>3, <1>5, <1>6 DEF IndexInv

(* onInboundData keeps the invariant: what is new is in exactly one submission. *)
LEMMA ReceiveBatchKeepsInv ==
  ASSUME IndexInv, NEW p \in Peer, NEW d \in Data, NEW P \in SUBSET Position,
         ReceiveBatch(p, d, P)
  PROVE  IndexInv'
<1> DEFINE received == {d} \X P
           new      == received \ atts
<1>1. received \in SUBSET Candidate /\ new \in SUBSET Candidate
  BY DEF Candidate
<1>2. CountsAndLevels /\ VerifiedOnce
  BY IndexInvUnfolded
<1>3. CountsAndLevels'
  BY <1>1, <1>2, MarkHoldersKeepsIndex DEF ReceiveBatch
<1>4. VerifiedOnce'
  <2>1. new \cap validating = {} /\ new \cap validated = {}
    BY <1>2 DEF VerifiedOnce
  <2>2. \A S \in inVerifier : S \cap new = {}
    BY <1>2, <2>1 DEF VerifiedOnce
  <2>3. (UNION inVerifier)' = validating'
    <3>1. UNION (inVerifier \cup {new}) = (UNION inVerifier) \cup new
      OBVIOUS
    <3>2. inVerifier' = inVerifier \cup {new} \/ (new = {} /\ inVerifier' = inVerifier)
      BY DEF ReceiveBatch
    <3>3. validating' = (UNION inVerifier) \cup new
      BY <1>2 DEF VerifiedOnce, ReceiveBatch
    <3> HIDE DEF new
    <3> QED BY <3>1, <3>2, <3>3
  <2>4. \A S, T \in inVerifier' : S # T => S \cap T = {}
    BY ZenonT(40), <1>2, <2>2 DEF VerifiedOnce, ReceiveBatch
  <2>5. atts' = validating' \cup validated' /\ validating' \cap validated' = {}
    BY <1>2, <2>1 DEF VerifiedOnce, ReceiveBatch
  <2> QED BY <2>3, <2>4, <2>5 DEF VerifiedOnce
<1>5. HandCommitted'
  BY DEF ReceiveBatch, HandCommitted
<1>6. /\ atts' \subseteq Candidate /\ validating' \subseteq Candidate
      /\ inVerifier' \subseteq SUBSET Candidate
      /\ hand' = hand
  BY <1>1, IndexInvUnfolded DEF ReceiveBatch
<1> QED BY <1>3, <1>4, <1>5, <1>6, IndexInvUnfolded
        DEF IndexInv, TypeOK, CountsAndLevels

(* onInboundBitmap keeps the invariant, also for candidates nobody sent yet. *)
LEMMA ReceiveAvailableKeepsInv ==
  ASSUME IndexInv, NEW p \in Peer, NEW d \in Data, NEW P \in SUBSET Position,
         ReceiveAvailable(p, d, P)
  PROVE  IndexInv'
<1>1. {d} \X P \in SUBSET Candidate
  BY DEF Candidate
<1>2. CountsAndLevels'
  BY <1>1, IndexInvUnfolded, MarkHoldersKeepsIndex DEF ReceiveAvailable
<1>3. VerifiedOnce' /\ HandCommitted'
  BY DEF ReceiveAvailable, IndexInv, VerifiedOnce, HandCommitted
<1> QED BY <1>2, <1>3 DEF ReceiveAvailable, IndexInv, TypeOK, CountsAndLevels

(* onValidated keeps the invariant: a submission's candidates become drawable. *)
LEMMA ValidatedKeepsInv ==
  ASSUME IndexInv, NEW batch \in inVerifier, Validated(batch)
  PROVE  IndexInv'
<1> DEFINE new == batch \ validated
<1>1. CountsAndLevels /\ VerifiedOnce /\ batch \in SUBSET Candidate
  BY IndexInvUnfolded
<1>2. new \in SUBSET Candidate /\ new = batch /\ batch \subseteq validating
  BY <1>1 DEF VerifiedOnce
<1>3. CountsAndLevels'
  BY <1>1, <1>2, IndexedKeepsIndex DEF Validated
<1>4. VerifiedOnce'
  <2>1. \A S \in inVerifier \ {batch} : S \cap batch = {}
    BY <1>1 DEF VerifiedOnce
  <2>2. UNION (inVerifier \ {batch}) = validating \ batch
    BY <1>1, <2>1 DEF VerifiedOnce
  <2> QED BY <1>1, <1>2, <2>2 DEF Validated, VerifiedOnce
<1>5. HandCommitted'
  BY DEF Validated, HandCommitted
<1> QED BY <1>2, <1>3, <1>4, <1>5 DEF Validated, IndexInv, TypeOK, CountsAndLevels

(* onPublishLocal keeps the invariant: it bypasses the verifier only for what
   was not received. *)
LEMMA PublishLocalKeepsInv ==
  ASSUME IndexInv, NEW c \in Candidate, PublishLocal(c)
  PROVE  IndexInv'
<1>1. CountsAndLevels'
  BY IndexInvUnfolded, IndexedKeepsIndex DEF PublishLocal
<1>2. VerifiedOnce'
  BY DEF PublishLocal, IndexInv, VerifiedOnce
<1>3. HandCommitted'
  BY DEF PublishLocal, HandCommitted
<1> QED BY <1>1, <1>2, <1>3 DEF PublishLocal, IndexInv, TypeOK, CountsAndLevels

(* selectOneChunkForPeer keeps the invariant: what is drawn is committed. *)
LEMMA SelectOneChunkKeepsInv ==
  ASSUME IndexInv, NEW p \in Peer, NEW allowPartial, NEW limit,
         SelectOneChunkForPeer(p, allowPartial, limit)
  PROVE  IndexInv'
<1>1. CountsAndLevels
  BY IndexInvUnfolded
<1>2. PICK D \in Draws(p, limit) :
        MarkHolders(p, D) /\ hand' = [peer |-> p, cands |-> D]
  BY DEF SelectOneChunkForPeer
<1>3. D # {} /\ D \subseteq validated /\ Cardinality(D) <= MaxAttsPerMessage
  BY <1>1, DrawsAreValidated
<1>4. D \in SUBSET Candidate /\ validated' = validated
  BY <1>1, <1>3 DEF CountsAndLevels, SelectOneChunkForPeer, verifyVars
<1>5. CountsAndLevels'
  BY <1>1, <1>2, <1>4, MarkHoldersKeepsIndex
<1>6. D \subseteq peerAvail'[p]
  BY <1>1, <1>2 DEF CountsAndLevels, MarkHolders
<1>7. HandCommitted'
  BY <1>2, <1>3, <1>4, <1>6 DEF HandCommitted
<1>8. VerifiedOnce'
  BY DEF IndexInv, VerifiedOnce, SelectOneChunkForPeer, verifyVars
<1>9. hand' \in [peer : Peer \cup {NoPeer}, cands : SUBSET Candidate]
      /\ (hand'.peer = NoPeer => hand'.cands = {})
  BY <1>2, <1>4, PeerAssumption
<1> QED BY <1>5, <1>7, <1>8, <1>9
        DEF SelectOneChunkForPeer, verifyVars, IndexInv, TypeOK, CountsAndLevels

(* A hand-over to the sender changes no count. *)
LEMMA HandOverKeepsInv ==
  ASSUME IndexInv, HandOver PROVE IndexInv'
<1>1. hand' = NoChunk
  BY DEF HandOver
<1>2. CountsAndLevels'
  BY IndexInvUnfolded
     DEF HandOver, CountsAndLevels, HolderCountExact, IndexExact, Holders
<1>3. VerifiedOnce' /\ HandCommitted'
  BY DEF HandOver, IndexInv, VerifiedOnce, HandCommitted
<1> QED BY <1>1, <1>2, <1>3 DEF HandOver, NoChunk, IndexInv, TypeOK, CountsAndLevels

(* rollbackChunk keeps the invariant: bits, counts and levels go back together. *)
LEMMA RollbackChunkKeepsInv ==
  ASSUME IndexInv, RollbackChunk PROVE IndexInv'
<1>1. hand.peer \in Peer /\ hand.cands \in SUBSET Candidate
  BY DEF RollbackChunk, IndexInv, HandCommitted, TypeOK
<1>2. CountsAndLevels'
  BY <1>1, IndexInvUnfolded, UnmarkHoldersKeepsIndex DEF RollbackChunk, verifyVars
<1>3. hand' = NoChunk
  BY DEF RollbackChunk
<1>4. VerifiedOnce' /\ HandCommitted'
  BY DEF RollbackChunk, verifyVars, IndexInv, VerifiedOnce, HandCommitted
<1> QED BY <1>2, <1>3, <1>4
        DEF RollbackChunk, verifyVars, NoChunk, IndexInv, TypeOK, CountsAndLevels

(* Every operation on the slot's state keeps the invariant. *)
LEMMA NextIndexInv == IndexInv /\ [SlotNext]_slotVars => IndexInv'
<1> SUFFICES ASSUME IndexInv, [SlotNext]_slotVars PROVE IndexInv'
  OBVIOUS
<1>1. ASSUME NEW p \in Peer, NEW d \in Data, NEW P \in SUBSET Position \ {{}},
             ReceiveBatch(p, d, P)
      PROVE  IndexInv'
  BY <1>1, ReceiveBatchKeepsInv
<1>2. ASSUME NEW p \in Peer, NEW d \in Data, NEW P \in SUBSET Position \ {{}},
             ReceiveAvailable(p, d, P)
      PROVE  IndexInv'
  BY <1>2, ReceiveAvailableKeepsInv
<1>3. ASSUME NEW batch \in inVerifier, Validated(batch) PROVE IndexInv'
  BY <1>3, ValidatedKeepsInv
<1>4. ASSUME NEW c \in Candidate, PublishLocal(c) PROVE IndexInv'
  BY <1>4, PublishLocalKeepsInv
<1>5. ASSUME NEW p \in Peer, NEW allowPartial \in BOOLEAN, NEW limit \in HolderCountLimit,
             SelectOneChunkForPeer(p, allowPartial, limit)
      PROVE  IndexInv'
  BY <1>5, SelectOneChunkKeepsInv
<1>6. CASE HandOver
  BY <1>6, HandOverKeepsInv
<1>7. CASE RollbackChunk
  BY <1>7, RollbackChunkKeepsInv
<1>8. CASE UNCHANGED slotVars
  BY <1>8 DEF slotVars, IndexInv, TypeOK, HolderCountExact, Holders, IndexExact,
              VerifiedOnce, HandCommitted
<1> QED BY <1>1, <1>2, <1>3, <1>4, <1>5, <1>6, <1>7, <1>8 DEF SlotNext

-----------------------------------------------------------------------------
(* The theorems *)

(* The scarcity index is consistent in every reachable state: counts equal
   holders, levels hold exactly the validated candidates of their count, each
   received candidate is verified once, and a chunk in hand is committed. *)
THEOREM IndexConsistent == SlotSpec => []IndexInv
BY InitIndexInv, NextIndexInv, PTL DEF SlotSpec

(* The slot's variables keep their types; the levels stay an initial segment of
   the naturals, which is why indexing by a count never leaves the slice. *)
THEOREM TypesOfIndex == SlotSpec => []TypeOK
<1>1. IndexInv => TypeOK
  BY IndexInvUnfolded DEF IndexInv
<1> QED BY IndexConsistent, <1>1, PTL

(* A chunk in hand is validated, committed and no larger than a message. *)
THEOREM ChunkIsCommitted == SlotSpec => []HandCommitted
<1>1. IndexInv => HandCommitted
  BY DEF IndexInv
<1> QED BY IndexConsistent, <1>1, PTL

(* holderCount is the number of known holders, whatever the interleaving of
   received data, advertisements, sends and roll-backs. *)
THEOREM HolderCountIsExact == SlotSpec => []HolderCountExact
<1>1. IndexInv => HolderCountExact
  BY DEF IndexInv
<1> QED BY IndexConsistent, <1>1, PTL

(* The scheduler's index holds exactly what may be sent, where it is looked
   for. *)
THEOREM IndexIsExact == SlotSpec => []IndexExact
<1>1. IndexInv => IndexExact
  BY DEF IndexInv
<1> QED BY IndexConsistent, <1>1, PTL

(* Nothing is verified twice and nothing received waits for no callback. *)
THEOREM EverythingVerifiedOnce == SlotSpec => []VerifiedOnce
<1>1. IndexInv => VerifiedOnce
  BY DEF IndexInv
<1> QED BY IndexConsistent, <1>1, PTL

(* Every draw is the scarcest the peer can be sent, measured by who really is
   known to hold what. *)
THEOREM DrawsScarcestFirst == SlotSpec => ScarcestFirst
<1> DEFINE Fair ==
      hand = NoChunk /\ hand' # NoChunk =>
       LET p == hand'.peer
       IN  /\ hand'.cands \cap peerAvail[p] = {}
           /\ \A drawn \in hand'.cands, left \in validated \ peerAvail'[p] :
                Cardinality(Holders(drawn)) <= Cardinality(Holders(left))
<1>1. ASSUME IndexInv, NEW p \in Peer, NEW allowPartial, NEW limit \in HolderCountLimit,
             SelectOneChunkForPeer(p, allowPartial, limit)
      PROVE  Fair
  <2>1. CountsAndLevels
    BY <1>1, IndexInvUnfolded
  <2>2. PICK D \in Draws(p, limit) :
          MarkHolders(p, D) /\ hand' = [peer |-> p, cands |-> D]
    BY <1>1 DEF SelectOneChunkForPeer
  <2>3. D \cap peerAvail[p] = {} /\ D \subseteq validated
    BY <2>1, DrawsAreValidated
  <2>4. peerAvail'[p] = peerAvail[p] \cup D
    BY <2>1, <2>2 DEF MarkHolders, CountsAndLevels
  <2>5. ASSUME NEW drawn \in D, NEW left \in validated \ peerAvail'[p]
        PROVE  Cardinality(Holders(drawn)) <= Cardinality(Holders(left))
    <3>1. holderCount[drawn] <= holderCount[left]
      BY <1>1, <2>1, <2>4, DrawsAreScarcest
    <3>2. drawn \in Candidate /\ left \in Candidate
      BY <2>1, <2>3 DEF CountsAndLevels
    <3> QED BY <2>1, <3>1, <3>2 DEF CountsAndLevels, HolderCountExact
  <2> QED BY <2>2, <2>3, <2>5
<1>2. IndexInv /\ [SlotNext]_slotVars => [Fair]_slotVars
  <2> SUFFICES ASSUME IndexInv, SlotNext, hand = NoChunk, hand' # NoChunk PROVE Fair
    BY DEF slotVars
  <2>1. \E p \in Peer, allowPartial \in BOOLEAN, limit \in HolderCountLimit :
          SelectOneChunkForPeer(p, allowPartial, limit)
    BY DEF SlotNext, ReceiveBatch, ReceiveAvailable, Validated, PublishLocal,
           HandOver, RollbackChunk
  <2> QED BY <1>1, <2>1
<1> QED BY <1>2, IndexConsistent, PTL DEF SlotSpec, ScarcestFirst

(* A rolled back candidate is drawable for its peer again and counts one holder
   less: rollbackChunk undoes what the draw committed, and nothing else changes
   what a chunk's peer is known to hold. *)
THEOREM RollbackLeavesNoTrace == SlotSpec => RollbackRestores
<1> DEFINE Restored ==
      hand # NoChunk /\ hand' = NoChunk /\ peerAvail' # peerAvail =>
        \A c \in hand.cands :
          /\ c \notin peerAvail'[hand.peer]
          /\ c \in levels'[Cardinality(Holders(c)) - 1]
<1>1. ASSUME IndexInv, RollbackChunk, NEW c \in hand.cands
      PROVE  c \notin peerAvail'[hand.peer] /\ c \in levels'[Cardinality(Holders(c)) - 1]
  <2> DEFINE p == hand.peer
  <2>1. /\ p \in Peer /\ hand.cands \in SUBSET Candidate
        /\ hand.cands \subseteq validated \cap peerAvail[p]
    BY <1>1 DEF RollbackChunk, IndexInv, HandCommitted, TypeOK
  <2>2. CountsAndLevels /\ CountsAndLevels'
    BY <1>1, RollbackChunkKeepsInv, IndexInvUnfolded DEF IndexInv, TypeOK, CountsAndLevels
  <2>3. /\ peerAvail' = [peerAvail EXCEPT ![p] = @ \ (hand.cands \cap peerAvail[p])]
        /\ holderCount'[c] = holderCount[c] - 1
        /\ validated' = validated
    BY <1>1, <2>1 DEF RollbackChunk, UnmarkHolders, verifyVars
  <2>4. c \notin peerAvail'[p]
    BY <2>1, <2>2, <2>3 DEF CountsAndLevels
  <2>5. c \in levels'[holderCount'[c]]
    BY <2>1, <2>2, <2>3 DEF CountsAndLevels, IndexExact
  <2>6. holderCount[c] = Cardinality(Holders(c))
    BY <2>1, <2>2 DEF CountsAndLevels, HolderCountExact
  <2> QED BY <2>3, <2>4, <2>5, <2>6
<1>2. IndexInv /\ [SlotNext]_slotVars => [Restored]_slotVars
  <2> SUFFICES ASSUME IndexInv, SlotNext, hand # NoChunk, hand' = NoChunk,
                      peerAvail' # peerAvail
               PROVE  Restored
    BY DEF slotVars
  <2>1. RollbackChunk
    BY DEF SlotNext, ReceiveBatch, ReceiveAvailable, Validated, PublishLocal,
           SelectOneChunkForPeer, HandOver
  <2> QED BY <1>1, <2>1
<1> QED BY <1>2, IndexConsistent, PTL DEF SlotSpec, RollbackRestores
=============================================================================
