------------------------- MODULE AttpropMeshProofs -------------------------
(***************************************************************************)
(* Proofs about AttpropMesh, for any nodes and links, any degrees and any  *)
(* writer's depth: the caps of the two meshes are never exceeded.          *)
(*                                                                         *)
(* The argument is about one node's roles at a time.  What a frame says    *)
(* does not matter to it: whatever a peer asks for, it gets a place only   *)
(* where there is one.                                                     *)
(***************************************************************************)
EXTENDS AttpropMesh, FiniteSetTheorems, TLAPS

Roles == [Node -> Role]

Within(roles) == Size(roles, "push") <= PushDhigh /\ Size(roles, "bitmap") <= BitmapDhigh

(* Every node's roles are roles, and within the caps. *)
CapsInv == role \in [Node -> Roles] /\ \A n \in Node : Within(role[n])

-----------------------------------------------------------------------------
(* Lemmas about the operators *)

(* The size of a mesh is a number of nodes. *)
LEMMA SizeIsNat ==
  ASSUME NEW roles \in Roles, NEW r
  PROVE  /\ IsFiniteSet(InRole(roles, r)) /\ InRole(roles, r) \subseteq Node
         /\ Size(roles, r) \in Nat
<1>1. InRole(roles, r) \subseteq Node
  BY DEF InRole, Roles
<1> QED BY <1>1, NodeAssumption, FS_Subset, FS_CardinalityType DEF Size

(* A mesh that only loses peers does not grow. *)
LEMMA FewerInRole ==
  ASSUME NEW a \in Roles, NEW b \in Roles, NEW r, InRole(b, r) \subseteq InRole(a, r)
  PROVE  Size(b, r) <= Size(a, r)
BY SizeIsNat, FS_Subset DEF Size

(* Giving the peers of a set one role takes at most as many more places. *)
LEMMA AssignGrows ==
  ASSUME NEW roles \in Roles, NEW S \in SUBSET Node, NEW r \in Role
  PROVE  /\ Assign(roles, S, r) \in Roles
         /\ Size(Assign(roles, S, r), r) <= Size(roles, r) + Cardinality(S)
         /\ \A q \in Role \ {r} : Size(Assign(roles, S, r), q) <= Size(roles, q)
<1> DEFINE new == Assign(roles, S, r)
<1>1. new \in Roles
  BY DEF Assign, Roles
<1>2. InRole(new, r) = InRole(roles, r) \cup S
  BY DEF InRole, Assign, Roles
<1>3. Size(new, r) <= Size(roles, r) + Cardinality(S)
  <2>1. IsFiniteSet(S) /\ IsFiniteSet(InRole(roles, r)) /\ IsFiniteSet(InRole(roles, r) \cap S)
    BY NodeAssumption, SizeIsNat, FS_Subset
  <2>2. Cardinality(InRole(roles, r) \cup S)
          = Cardinality(InRole(roles, r)) + Cardinality(S) - Cardinality(InRole(roles, r) \cap S)
    BY <2>1, FS_Union
  <2>3. /\ Cardinality(InRole(roles, r)) \in Nat /\ Cardinality(S) \in Nat
        /\ Cardinality(InRole(roles, r) \cap S) \in Nat
    BY <2>1, FS_CardinalityType
  <2> QED BY <1>2, <2>2, <2>3 DEF Size
<1>4. ASSUME NEW q \in Role \ {r} PROVE Size(new, q) <= Size(roles, q)
  <2>1. InRole(new, q) \subseteq InRole(roles, q)
    BY DEF InRole, Assign, Roles
  <2> QED BY <1>1, <2>1, FewerInRole
<1> QED BY <1>1, <1>3, <1>4

(* No more peers are picked than are wanted. *)
LEMMA PickBounded ==
  ASSUME NEW S \in SUBSET Node, NEW wanted \in Nat, NEW T \in Pick(S, wanted)
  PROVE  T \subseteq S /\ Cardinality(T) \in Nat /\ Cardinality(T) <= wanted
<1>1. T \subseteq S /\ IsFiniteSet(T)
  BY NodeAssumption, FS_Subset DEF Pick
<1>2. Cardinality(T) \in Nat /\ Cardinality({}) = 0
  BY <1>1, FS_CardinalityType, FS_EmptySet
<1> QED BY <1>1, <1>2 DEF Pick

(* A shortage is what is missing to the target, which the cap allows. *)
LEMMA ShortageFits ==
  ASSUME NEW size \in Nat, NEW Dlow \in Nat, NEW D \in Nat, NEW Dhigh \in Nat,
         Dlow <= D, D <= Dhigh, size <= Dhigh
  PROVE  Shortage(size, Dlow, D) \in Nat /\ size + Shortage(size, Dlow, D) <= Dhigh
BY DEF Shortage

(* Making one peer a push or bitmap peer takes a place in that mesh only. *)
LEMMA OnePlace ==
  ASSUME NEW roles \in Roles, NEW p \in Node, NEW r \in Role
  PROVE  LET new == [roles EXCEPT ![p] = r]
         IN  /\ new \in Roles
             /\ Size(new, r) <= Size(roles, r) + 1
             /\ \A q \in Role \ {r} : Size(new, q) <= Size(roles, q)
<1>1. [roles EXCEPT ![p] = r] = Assign(roles, {p}, r)
  BY DEF Assign, Roles
<1>2. Cardinality({p}) = 1 /\ {p} \in SUBSET Node
  BY FS_Singleton
<1>3. /\ Assign(roles, {p}, r) \in Roles
      /\ Size(Assign(roles, {p}, r), r) <= Size(roles, r) + Cardinality({p})
      /\ \A q \in Role \ {r} : Size(Assign(roles, {p}, r), q) <= Size(roles, q)
  BY <1>2, AssignGrows
<1> QED BY <1>1, <1>2, <1>3

(* A peer that is pruned leaves its mesh or keeps its role. *)
LEMMA PruneFits ==
  ASSUME NEW roles \in Roles, Within(roles), NEW p \in Node, NEW mesh \in Mesh
  PROVE  LET pruned == [roles EXCEPT ![p] = RoleAfterPrune(roles, p, mesh)]
         IN  pruned \in Roles /\ Within(pruned)
<1> DEFINE pruned == [roles EXCEPT ![p] = RoleAfterPrune(roles, p, mesh)]
<1>1. CASE RoleAfterPrune(roles, p, mesh) = roles[p]
  <2>1. pruned = roles
    BY <1>1 DEF Roles
  <2> QED BY <2>1
<1>2. CASE RoleAfterPrune(roles, p, mesh) = "connected"
  <2>1. /\ pruned \in Roles
        /\ Size(pruned, "push") <= Size(roles, "push")
        /\ Size(pruned, "bitmap") <= Size(roles, "bitmap")
    BY <1>2, OnePlace DEF Role
  <2> QED BY <2>1, SizeIsNat, DegreeAssumption DEF Within
<1> QED BY <1>1, <1>2 DEF RoleAfterPrune

(* A peer that asks to be grafted gets a place only where there is one. *)
LEMMA GraftFits ==
  ASSUME NEW roles \in Roles, Within(roles), NEW p \in Node, NEW mesh \in Mesh
  PROVE  LET grafted == [roles EXCEPT ![p] = RoleAfterGraft(roles, p, mesh)]
         IN  grafted \in Roles /\ Within(grafted)
<1> DEFINE grafted == [roles EXCEPT ![p] = RoleAfterGraft(roles, p, mesh)]
<1>0. Size(roles, "push") \in Nat /\ Size(roles, "bitmap") \in Nat
  BY SizeIsNat
<1>1. CASE RoleAfterGraft(roles, p, mesh) = roles[p]
  <2>1. grafted = roles
    BY <1>1 DEF Roles
  <2> QED BY <2>1
<1>2. CASE RoleAfterGraft(roles, p, mesh) = "push" /\ Size(roles, "push") < PushDhigh
  <2>1. /\ grafted \in Roles
        /\ Size(grafted, "push") <= Size(roles, "push") + 1
        /\ Size(grafted, "bitmap") <= Size(roles, "bitmap")
    BY <1>2, OnePlace DEF Role
  <2>2. Size(grafted, "push") \in Nat /\ Size(grafted, "bitmap") \in Nat
    BY <2>1, SizeIsNat
  <2> QED BY <1>0, <1>2, <2>1, <2>2, DegreeAssumption DEF Within
<1>3. CASE RoleAfterGraft(roles, p, mesh) = "bitmap" /\ Size(roles, "bitmap") < BitmapDhigh
  <2>1. /\ grafted \in Roles
        /\ Size(grafted, "bitmap") <= Size(roles, "bitmap") + 1
        /\ Size(grafted, "push") <= Size(roles, "push")
    BY <1>3, OnePlace DEF Role
  <2>2. Size(grafted, "push") \in Nat /\ Size(grafted, "bitmap") \in Nat
    BY <2>1, SizeIsNat
  <2> QED BY <1>0, <1>3, <2>1, <2>2, DegreeAssumption DEF Within
<1>4. \/ RoleAfterGraft(roles, p, mesh) = roles[p]
      \/ RoleAfterGraft(roles, p, mesh) = "push" /\ Size(roles, "push") < PushDhigh
      \/ RoleAfterGraft(roles, p, mesh) = "bitmap" /\ Size(roles, "bitmap") < BitmapDhigh
  BY DEF RoleAfterGraft
<1> QED BY <1>1, <1>2, <1>3, <1>4

(* The push top-up takes what is missing to the target at most, fresh peers and
   promoted ones together; promoted ones leave the bitmap mesh. *)
LEMMA FillPushFits ==
  ASSUME NEW n \in Node, NEW roles \in Roles, Within(roles), NEW filled \in FillPush(n, roles)
  PROVE  filled \in Roles /\ Within(filled)
<1> DEFINE fresh     == Among(n, roles, "connected") \ pushBackoff[n]
           promoting == Among(n, roles, "bitmap") \ pushBackoff[n]
           short     == Shortage(Size(roles, "push"), PushDlow, PushD)
<1>1. Size(roles, "push") \in Nat /\ Size(roles, "bitmap") \in Nat
  BY SizeIsNat
<1>2. short \in Nat /\ Size(roles, "push") + short <= PushDhigh
  <2> HIDE DEF short
  <2> QED BY <1>1, ShortageFits, DegreeAssumption DEF Within, short
<1>3. fresh \in SUBSET Node /\ promoting \in SUBSET Node
  BY SizeIsNat DEF Among
<1>4. \E F \in Pick(fresh, short) : \E P \in Pick(promoting, short - Cardinality(F)) :
        filled = Assign(roles, F \cup P, "push")
  BY DEF FillPush
<1>40. PICK F \in Pick(fresh, short) : \E P \in Pick(promoting, short - Cardinality(F)) :
         filled = Assign(roles, F \cup P, "push")
  BY <1>4
<1>41. PICK P \in Pick(promoting, short - Cardinality(F)) : filled = Assign(roles, F \cup P, "push")
  BY <1>40
<1> HIDE DEF fresh, promoting, short
<1>5. F \subseteq fresh /\ Cardinality(F) \in Nat /\ Cardinality(F) <= short
  BY <1>2, <1>3, PickBounded
<1>6. short - Cardinality(F) \in Nat
  BY <1>2, <1>5
<1>7. P \subseteq promoting /\ Cardinality(P) \in Nat /\ Cardinality(P) <= short - Cardinality(F)
  BY <1>3, <1>6, PickBounded
<1>8. F \cup P \in SUBSET Node /\ Cardinality(F \cup P) \in Nat /\ Cardinality(F \cup P) <= short
  <2>1. IsFiniteSet(F) /\ IsFiniteSet(P) /\ IsFiniteSet(F \cap P) /\ IsFiniteSet(F \cup P)
    BY <1>3, <1>5, <1>7, NodeAssumption, FS_Subset
  <2>2. Cardinality(F \cup P) = Cardinality(F) + Cardinality(P) - Cardinality(F \cap P)
    BY <2>1, FS_Union
  <2>3. Cardinality(F \cup P) \in Nat /\ Cardinality(F \cap P) \in Nat
    BY <2>1, FS_CardinalityType
  <2> QED BY <1>2, <1>3, <1>5, <1>7, <2>2, <2>3
<1>9. /\ filled \in Roles
      /\ Size(filled, "push") <= Size(roles, "push") + Cardinality(F \cup P)
      /\ Size(filled, "bitmap") <= Size(roles, "bitmap")
  BY <1>41, <1>8, AssignGrows DEF Role
<1>10. Size(filled, "push") \in Nat /\ Size(filled, "bitmap") \in Nat
  BY <1>9, SizeIsNat
<1> QED BY <1>1, <1>2, <1>8, <1>9, <1>10, DegreeAssumption DEF Within

(* The bitmap top-up takes what is missing to the target at most. *)
LEMMA FillBitmapFits ==
  ASSUME NEW n \in Node, NEW roles \in Roles, Within(roles), NEW filled \in FillBitmap(n, roles)
  PROVE  filled \in Roles /\ Within(filled)
<1> DEFINE fresh == Among(n, roles, "connected") \ bitmapBackoff[n]
           short == Shortage(Size(roles, "bitmap"), BitmapDlow, BitmapD)
<1>1. Size(roles, "push") \in Nat /\ Size(roles, "bitmap") \in Nat
  BY SizeIsNat
<1>2. short \in Nat /\ Size(roles, "bitmap") + short <= BitmapDhigh
  <2> HIDE DEF short
  <2> QED BY <1>1, ShortageFits, DegreeAssumption DEF Within, short
<1>3. fresh \in SUBSET Node
  BY SizeIsNat DEF Among
<1>4. PICK F \in Pick(fresh, short) : filled = Assign(roles, F, "bitmap")
  BY DEF FillBitmap
<1> HIDE DEF fresh, short
<1>5. F \in SUBSET Node /\ Cardinality(F) \in Nat /\ Cardinality(F) <= short
  BY <1>2, <1>3, PickBounded
<1>6. /\ filled \in Roles
      /\ Size(filled, "bitmap") <= Size(roles, "bitmap") + Cardinality(F)
      /\ Size(filled, "push") <= Size(roles, "push")
  BY <1>4, <1>5, AssignGrows DEF Role
<1>7. Size(filled, "push") \in Nat /\ Size(filled, "bitmap") \in Nat
  BY <1>6, SizeIsNat
<1> QED BY <1>1, <1>2, <1>5, <1>6, <1>7, DegreeAssumption DEF Within

(* Trimming a mesh adds to none. *)
LEMMA TrimFits ==
  ASSUME NEW n \in Node, NEW roles \in Roles, Within(roles), NEW r \in Role, NEW Dhigh \in Nat,
         NEW trimmed \in Trim(n, roles, r, Dhigh)
  PROVE  trimmed \in Roles /\ Within(trimmed)
<1>1. PICK X \in Pick(Among(n, roles, r), Size(roles, r) - Dhigh) :
        trimmed = Assign(roles, X, "connected")
  BY DEF Trim
<1>2. X \in SUBSET Node
  BY <1>1, SizeIsNat DEF Pick, Among
<1>3. /\ trimmed \in Roles
      /\ Size(trimmed, "push") <= Size(roles, "push")
      /\ Size(trimmed, "bitmap") <= Size(roles, "bitmap")
  BY <1>1, <1>2, AssignGrows DEF Role
<1>4. /\ Size(trimmed, "push") \in Nat /\ Size(trimmed, "bitmap") \in Nat
      /\ Size(roles, "push") \in Nat /\ Size(roles, "bitmap") \in Nat
  BY <1>3, SizeIsNat
<1> QED BY <1>3, <1>4, DegreeAssumption DEF Within

-----------------------------------------------------------------------------
(* The invariant *)

(* No event takes a mesh beyond its cap. *)
LEMMA CapsStep ==
  ASSUME CapsInv, TypeOK, [Next]_vars
  PROVE  CapsInv'
<1> SUFFICES ASSUME role' # role PROVE CapsInv'
  BY DEF CapsInv, Within, Size, InRole
<1>1. PICK n \in Node : \/ Heartbeat(n)
                        \/ \E p \in Node : PeerUp(n, p)
                        \/ \E p \in Node : ReceiveControl(n, p)
  BY DEF Next, vars, PushBackoffEnds, BitmapBackoffEnds
<1>2. role[n] \in Roles /\ Within(role[n])
  BY DEF CapsInv
<1>3. SUFFICES \E final \in Roles : Within(final) /\ role' = [role EXCEPT ![n] = final]
  BY DEF CapsInv
<1>4. CASE Heartbeat(n)
  <2>1. PICK filled \in FillPush(n, role[n]) :
        \E trimmed \in Trim(n, filled, "push", PushDhigh) :
        \E both \in FillBitmap(n, trimmed) :
        \E final \in Trim(n, both, "bitmap", BitmapDhigh) :
          role' = [role EXCEPT ![n] = final]
    BY <1>4 DEF Heartbeat
  <2>2. filled \in Roles /\ Within(filled)
    BY <1>2, FillPushFits
  <2>3. PICK trimmed \in Trim(n, filled, "push", PushDhigh) :
        \E both \in FillBitmap(n, trimmed) :
        \E final \in Trim(n, both, "bitmap", BitmapDhigh) :
          role' = [role EXCEPT ![n] = final]
    BY <2>1
  <2>4. trimmed \in Roles /\ Within(trimmed)
    BY <2>2, TrimFits, DegreeAssumption DEF Role
  <2>5. PICK both \in FillBitmap(n, trimmed) :
        \E final \in Trim(n, both, "bitmap", BitmapDhigh) :
          role' = [role EXCEPT ![n] = final]
    BY <2>3
  <2>6. both \in Roles /\ Within(both)
    BY <2>4, FillBitmapFits
  <2>7. PICK final \in Trim(n, both, "bitmap", BitmapDhigh) : role' = [role EXCEPT ![n] = final]
    BY <2>5
  <2>8. final \in Roles /\ Within(final)
    BY <2>6, TrimFits, DegreeAssumption DEF Role
  <2> QED BY <2>7, <2>8
<1>5. ASSUME NEW p \in Node, PeerUp(n, p)
      PROVE  \E final \in Roles : Within(final) /\ role' = [role EXCEPT ![n] = final]
  <2> DEFINE final == [role[n] EXCEPT ![p] = "connected"]
  <2>1. role' = [role EXCEPT ![n] = final]
    BY <1>5 DEF PeerUp
  <2>2. /\ final \in Roles
        /\ Size(final, "push") <= Size(role[n], "push")
        /\ Size(final, "bitmap") <= Size(role[n], "bitmap")
    BY <1>2, OnePlace DEF Role
  <2>3. Within(final)
    <3>1. /\ Size(final, "push") \in Nat /\ Size(final, "bitmap") \in Nat
          /\ Size(role[n], "push") \in Nat /\ Size(role[n], "bitmap") \in Nat
      BY <1>2, <2>2, SizeIsNat
    <3> QED BY <1>2, <2>2, <3>1, DegreeAssumption DEF Within
  <2> QED BY <2>1, <2>2, <2>3
<1>6. ASSUME NEW p \in Node, ReceiveControl(n, p)
      PROVE  \E final \in Roles : Within(final) /\ role' = [role EXCEPT ![n] = final]
  <2> DEFINE frame  == Head(control[p][n])
             pruned == [role[n] EXCEPT ![p] = RoleAfterPrune(role[n], p, frame.prune)]
             final  == [pruned EXCEPT ![p] = RoleAfterGraft(pruned, p, frame.graft)]
  <2>1. role' = [role EXCEPT ![n] = final]
    BY <1>6 DEF ReceiveControl
  <2>2. frame.prune \in Mesh /\ frame.graft \in Mesh
    <3>1. control[p][n] \in Seq(Frame) /\ control[p][n] # <<>>
      BY <1>6 DEF TypeOK, ReceiveControl
    <3>2. Head(control[p][n]) \in Frame
      BY <3>1
    <3> QED BY <3>2 DEF Frame
  <2>3. pruned \in Roles /\ Within(pruned)
    BY <1>2, <2>2, PruneFits
  <2> HIDE DEF pruned
  <2>4. final \in Roles /\ Within(final)
    BY <2>2, <2>3, GraftFits
  <2> QED BY <2>1, <2>4
<1> QED BY <1>1, <1>4, <1>5, <1>6

-----------------------------------------------------------------------------
(* Types *)

(* A queue of frames within the writer's depth stays one. *)
Queue == {q \in Seq(Frame) : Len(q) <= WriterBuf}

(* Offering a frame to a writer leaves a queue within its depth. *)
LEMMA OfferFits ==
  ASSUME NEW q \in Queue, NEW f \in Frame
  PROVE  TryEnqueue(q, f) \in Queue
BY BufferAssumption DEF TryEnqueue, Queue

(* So does sending frames to any peers. *)
LEMMA SentFits ==
  ASSUME NEW n, NEW queues \in [Node -> Queue], NEW frames,
         \A p \in DOMAIN frames : frames[p] \in Frame
  PROVE  Sent(n, queues, frames) \in [Node -> Queue]
<1> SUFFICES ASSUME NEW p \in Node
             PROVE  (IF p \in DOMAIN frames \cap up[n] THEN TryEnqueue(queues[p], frames[p])
                     ELSE queues[p]) \in Queue
  BY DEF Sent
<1>1. queues[p] \in Queue
  OBVIOUS
<1>2. p \in DOMAIN frames => TryEnqueue(queues[p], frames[p]) \in Queue
  BY <1>1, OfferFits
<1> QED BY <1>1, <1>2

(* The frames of the protocol are frames. *)
LEMMA FrameTypes ==
  /\ \A mesh \in Mesh : Graft(mesh) \in Frame /\ Prune(mesh) \in Frame
  /\ \A roles, mesh : ReplyToGraft(roles, mesh) \in Frame
<1>1. \A mesh \in Mesh : Graft(mesh) \in Frame /\ Prune(mesh) \in Frame
  BY DEF Graft, Prune, Frame, Mesh
<1>2. Redirect \in Frame /\ NoReply \in Frame
  BY DEF Redirect, NoReply, Frame, Mesh
<1> QED BY <1>1, <1>2 DEF ReplyToGraft, Mesh

(* Type correctness as a typed state of every variable. *)
TypeInv ==
  /\ up \in [Node -> SUBSET Node]
  /\ role \in [Node -> Roles]
  /\ pushBackoff \in [Node -> SUBSET Node]
  /\ bitmapBackoff \in [Node -> SUBSET Node]
  /\ control \in [Node -> [Node -> Queue]]

(* The two ways to say it agree. *)
LEMMA TypesAgree == TypeInv <=> TypeOK
<1>1. TypeInv => TypeOK
  <2> SUFFICES ASSUME TypeInv PROVE TypeOK
    OBVIOUS
  <2>1. control \in [Node -> [Node -> Seq(Frame)]]
    BY DEF TypeInv, Queue
  <2>2. \A n, p \in Node : Len(control[n][p]) <= WriterBuf
    BY DEF TypeInv, Queue
  <2> QED BY <2>1, <2>2 DEF TypeInv, TypeOK, Roles
<1>2. TypeOK => TypeInv
  <2> SUFFICES ASSUME TypeOK PROVE TypeInv
    OBVIOUS
  <2>1. \A n, p \in Node : control[n][p] \in Queue
    BY DEF TypeOK, Queue
  <2>2. control \in [Node -> [Node -> Queue]]
    BY <2>1 DEF TypeOK
  <2> QED BY <2>2 DEF TypeOK, TypeInv, Roles
<1> QED BY <1>1, <1>2

(* What a heartbeat does once its top-ups and trims are chosen. *)
HeartbeatEffect(n, filled, trimmed, both, final) ==
  LET changed(a, b) == {p \in Node : a[p] # b[p]}
      toPush    == changed(role[n], filled)
      toBitmap  == changed(trimmed, both)
      offPush   == changed(filled, trimmed)
      offBitmap == changed(both, final)
      grafts == [p \in toPush \cup toBitmap |->
                   Graft(IF p \in toPush THEN "push" ELSE "bitmap")]
      prunes == [p \in offPush \cup offBitmap |->
                   Prune(IF p \in offPush THEN "push" ELSE "bitmap")]
  IN  /\ role' = [role EXCEPT ![n] = final]
      /\ pushBackoff'   = [pushBackoff EXCEPT ![n] = @ \cup offPush]
      /\ bitmapBackoff' = [bitmapBackoff EXCEPT ![n] = @ \cup offBitmap]
      /\ control' = [control EXCEPT ![n] = Sent(n, Sent(n, @, grafts), prunes)]
      /\ UNCHANGED up

(* Every event keeps the types. *)
LEMMA TypeStep ==
  ASSUME TypeInv, CapsInv, [Next]_vars
  PROVE  TypeInv'
<1>0. role' \in [Node -> Roles]
  BY TypesAgree, CapsStep DEF CapsInv
<1>1. CASE UNCHANGED vars
  BY <1>1 DEF TypeInv, vars
<1>2. ASSUME NEW n \in Node, Heartbeat(n) PROVE TypeInv'
  <2>1. PICK filled \in FillPush(n, role[n]) :
        \E trimmed \in Trim(n, filled, "push", PushDhigh) :
        \E both \in FillBitmap(n, trimmed) :
        \E final \in Trim(n, both, "bitmap", BitmapDhigh) :
          HeartbeatEffect(n, filled, trimmed, both, final)
    BY <1>2 DEF Heartbeat, HeartbeatEffect
  <2>2. PICK trimmed, both, final : HeartbeatEffect(n, filled, trimmed, both, final)
    BY <2>1
  <2> DEFINE changed(a, b) == {p \in Node : a[p] # b[p]}
             toPush    == changed(role[n], filled)
             toBitmap  == changed(trimmed, both)
             offPush   == changed(filled, trimmed)
             offBitmap == changed(both, final)
             grafts == [p \in toPush \cup toBitmap |->
                          Graft(IF p \in toPush THEN "push" ELSE "bitmap")]
             prunes == [p \in offPush \cup offBitmap |->
                          Prune(IF p \in offPush THEN "push" ELSE "bitmap")]
  <2>3. /\ \A p \in DOMAIN grafts : grafts[p] \in Frame
        /\ \A p \in DOMAIN prunes : prunes[p] \in Frame
    BY FrameTypes DEF Mesh
  <2>4. control' = [control EXCEPT ![n] = Sent(n, Sent(n, @, grafts), prunes)]
    BY <2>2 DEF HeartbeatEffect
  <2>5. control' \in [Node -> [Node -> Queue]]
    <3> HIDE DEF grafts, prunes
    <3>1. control[n] \in [Node -> Queue]
      BY DEF TypeInv
    <3>2. Sent(n, control[n], grafts) \in [Node -> Queue]
      BY <2>3, <3>1, SentFits
    <3>3. Sent(n, Sent(n, control[n], grafts), prunes) \in [Node -> Queue]
      BY <2>3, <3>2, SentFits
    <3> QED BY <2>4, <3>3 DEF TypeInv
  <2>6. /\ up' \in [Node -> SUBSET Node]
        /\ pushBackoff' \in [Node -> SUBSET Node]
        /\ bitmapBackoff' \in [Node -> SUBSET Node]
    BY <2>2 DEF HeartbeatEffect, TypeInv
  <2> QED BY <1>0, <2>5, <2>6 DEF TypeInv
<1>3. ASSUME NEW n \in Node, NEW p \in Node, PeerUp(n, p) PROVE TypeInv'
  BY <1>0, <1>3 DEF PeerUp, TypeInv
<1>4. ASSUME NEW n \in Node, NEW p \in Node, ReceiveControl(n, p) PROVE TypeInv'
  <2> DEFINE frame  == Head(control[p][n])
             pruned == [role[n] EXCEPT ![p] = RoleAfterPrune(role[n], p, frame.prune)]
             reply  == ReplyToGraft(pruned, frame.graft)
             replies == [q \in {r \in {p} : reply # NoReply} |-> reply]
             taken == [control EXCEPT ![p][n] = Tail(@)]
  <2>1. taken \in [Node -> [Node -> Queue]]
    <3>1. control[p][n] \in Queue /\ control[p][n] # <<>>
      BY <1>4 DEF TypeInv, ReceiveControl
    <3>2. Tail(control[p][n]) \in Queue
      BY <3>1, BufferAssumption DEF Queue
    <3> QED BY <3>2 DEF TypeInv
  <2>2. \A q \in DOMAIN replies : replies[q] \in Frame
    BY FrameTypes
  <2>3. control' = [taken EXCEPT ![n] = Sent(n, taken[n], replies)]
    BY <1>4 DEF ReceiveControl, TypeInv
  <2>4. control' \in [Node -> [Node -> Queue]]
    <3> HIDE DEF taken, replies
    <3>1. Sent(n, taken[n], replies) \in [Node -> Queue]
      BY <2>1, <2>2, SentFits
    <3> QED BY <2>1, <2>3, <3>1
  <2>5. /\ up' \in [Node -> SUBSET Node]
        /\ pushBackoff' \in [Node -> SUBSET Node]
        /\ bitmapBackoff' \in [Node -> SUBSET Node]
    BY <1>4 DEF ReceiveControl, TypeInv
  <2> QED BY <1>0, <2>4, <2>5 DEF TypeInv
<1>5. ASSUME NEW n \in Node, NEW p \in Node, PushBackoffEnds(n, p) \/ BitmapBackoffEnds(n, p)
      PROVE  TypeInv'
  BY <1>5 DEF PushBackoffEnds, BitmapBackoffEnds, TypeInv
<1>6. ASSUME NEW n \in Node, NEW p \in pushBackoff[n] \cup bitmapBackoff[n] PROVE p \in Node
  BY <1>6 DEF TypeInv
<1> QED BY <1>1, <1>2, <1>3, <1>4, <1>5, <1>6 DEF Next

(* The invariant of the specification. *)
THEOREM MeshInvariant == Spec => [](TypeInv /\ CapsInv)
<1>1. Init => TypeInv /\ CapsInv
  <2> SUFFICES ASSUME Init PROVE TypeInv /\ CapsInv
    OBVIOUS
  <2>1. <<>> \in Queue
    BY BufferAssumption DEF Queue
  <2>2. TypeInv
    BY <2>1 DEF Init, TypeInv, Roles, Role
  <2>3. ASSUME NEW n \in Node PROVE Within(role[n])
    <3>1. InRole(role[n], "push") = {} /\ InRole(role[n], "bitmap") = {}
      BY DEF Init, InRole
    <3> QED BY <3>1, FS_EmptySet, DegreeAssumption DEF Within, Size
  <2> QED BY <2>2, <2>3 DEF TypeInv, CapsInv
<1>2. TypeInv /\ CapsInv /\ [Next]_vars => (TypeInv /\ CapsInv)'
  BY TypesAgree, CapsStep, TypeStep
<1> QED BY <1>1, <1>2, PTL DEF Spec

(* Type correctness of the meshes: in particular, what is queued for a peer fits
   the control writer. *)
THEOREM TypesOfMesh == Spec => []TypeOK
BY MeshInvariant, TypesAgree, PTL

(* The caps of both meshes hold at every node, whatever frames cross, are lost or
   are redirected (meshState.onGraft, onPrune, heartbeat and their callers). *)
THEOREM DegreesBounded == Spec => []DegreeBounds
<1>1. CapsInv => DegreeBounds
  BY DEF CapsInv, DegreeBounds, Within
<1> QED BY <1>1, MeshInvariant, PTL

-----------------------------------------------------------------------------
(* What a heartbeat does *)

(* No peer is trimmed from a mesh within its cap. *)
LEMMA TrimIsIdle ==
  ASSUME NEW n \in Node, NEW roles \in Roles, NEW r \in Role, NEW Dhigh \in Nat,
         Size(roles, r) <= Dhigh, NEW trimmed \in Trim(n, roles, r, Dhigh)
  PROVE  trimmed = roles
<1>1. PICK X \in Pick(Among(n, roles, r), Size(roles, r) - Dhigh) :
        trimmed = Assign(roles, X, "connected")
  BY DEF Trim
<1>2. Among(n, roles, r) \subseteq Node /\ Size(roles, r) \in Nat
  BY SizeIsNat DEF Among
<1>3. X \subseteq Among(n, roles, r) /\ IsFiniteSet(X) /\ IsFiniteSet(Among(n, roles, r))
  BY <1>1, <1>2, NodeAssumption, FS_Subset DEF Pick
<1>4. Cardinality(X) \in Nat /\ Cardinality(Among(n, roles, r)) \in Nat
  BY <1>3, FS_CardinalityType
<1>5. X = {} \/ Cardinality(X) = 0
  <2>1. Size(roles, r) - Dhigh <= 0
    BY <1>2
  <2> DEFINE wanted == Size(roles, r) - Dhigh
             S == Among(n, roles, r)
  <2>2. \/ X = S /\ Cardinality(S) <= wanted
        \/ X = {}
        \/ Cardinality(X) = wanted
    BY <1>1 DEF Pick
  <2>3. wanted \in Int /\ wanted <= 0
    BY <1>2
  <2> HIDE DEF wanted, S
  <2> QED BY <1>4, <2>2, <2>3 DEF S
<1>6. X = {}
  BY <1>3, <1>5, FS_EmptySet
<1> QED BY <1>1, <1>6 DEF Assign, Roles

(* Sending no frame leaves the queues as they are. *)
LEMMA SendingNothing ==
  ASSUME NEW n, NEW queues, NEW frames, DOMAIN frames = {}
  PROVE  Sent(n, queues, frames) = [p \in Node |-> queues[p]]
BY DEF Sent

(* A heartbeat takes no peer out of a mesh and arms no backoff: a push peer stays
   one, a bitmap peer stays one or becomes a push peer, and to each peer at most
   one frame is sent, which carries no prune. *)
HeartbeatOnlyGrafts ==
  [][\A n \in Node : Heartbeat(n) =>
       /\ UNCHANGED <<pushBackoff, bitmapBackoff>>
       /\ \A p \in Node :
            /\ role[n][p] = "push" => role'[n][p] = "push"
            /\ role[n][p] = "bitmap" => role'[n][p] \in {"push", "bitmap"}
            /\ \/ control'[n][p] = control[n][p]
               \/ \E mesh \in {"push", "bitmap"} :
                    control'[n][p] = Append(control[n][p], Graft(mesh))]_vars

LEMMA HeartbeatStep ==
  ASSUME TypeInv, CapsInv, NEW n \in Node, Heartbeat(n)
  PROVE  /\ UNCHANGED <<pushBackoff, bitmapBackoff>>
         /\ \A p \in Node :
              /\ role[n][p] = "push" => role'[n][p] = "push"
              /\ role[n][p] = "bitmap" => role'[n][p] \in {"push", "bitmap"}
              /\ \/ control'[n][p] = control[n][p]
                 \/ \E mesh \in {"push", "bitmap"} :
                      control'[n][p] = Append(control[n][p], Graft(mesh))
<1>1. PICK filled \in FillPush(n, role[n]) :
      \E trimmed \in Trim(n, filled, "push", PushDhigh) :
      \E both \in FillBitmap(n, trimmed) :
      \E final \in Trim(n, both, "bitmap", BitmapDhigh) :
        HeartbeatEffect(n, filled, trimmed, both, final)
  BY DEF Heartbeat, HeartbeatEffect
<1>2. PICK trimmed \in Trim(n, filled, "push", PushDhigh) :
      \E both \in FillBitmap(n, trimmed) :
      \E final \in Trim(n, both, "bitmap", BitmapDhigh) :
        HeartbeatEffect(n, filled, trimmed, both, final)
  BY <1>1
<1>3. PICK both \in FillBitmap(n, trimmed) :
      \E final \in Trim(n, both, "bitmap", BitmapDhigh) :
        HeartbeatEffect(n, filled, trimmed, both, final)
  BY <1>2
<1>4. PICK final \in Trim(n, both, "bitmap", BitmapDhigh) :
        HeartbeatEffect(n, filled, trimmed, both, final)
  BY <1>3
<1>5. role[n] \in Roles /\ Within(role[n])
  BY DEF CapsInv
<1>6. filled \in Roles /\ Within(filled)
  BY <1>5, FillPushFits
<1>7. trimmed = filled
  BY <1>6, TrimIsIdle, DegreeAssumption DEF Within, Role
<1>8. both \in Roles /\ Within(both)
  BY <1>6, <1>7, FillBitmapFits
<1>9. final = both
  BY <1>8, TrimIsIdle, DegreeAssumption DEF Within, Role
<1>10. \A p \in Node : filled[p] = role[n][p] \/ (filled[p] = "push" /\ role[n][p] # "push")
  <2>1. PICK F, P : F \subseteq Among(n, role[n], "connected")
                    /\ P \subseteq Among(n, role[n], "bitmap")
                    /\ filled = Assign(role[n], F \cup P, "push")
    BY DEF FillPush, Pick
  <2> QED BY <1>5, <2>1 DEF Assign, Among, InRole, Roles
<1>11. \A p \in Node : both[p] = filled[p] \/ (both[p] = "bitmap" /\ filled[p] = "connected")
  <2>1. PICK F : F \subseteq Among(n, filled, "connected") /\ both = Assign(filled, F, "bitmap")
    BY <1>3, <1>7 DEF FillBitmap, Pick
  <2> QED BY <1>6, <2>1 DEF Assign, Among, InRole, Roles
<1> DEFINE toPush   == {p \in Node : role[n][p] # filled[p]}
           toBitmap == {p \in Node : trimmed[p] # both[p]}
           grafts == [p \in toPush \cup toBitmap |->
                        Graft(IF p \in toPush THEN "push" ELSE "bitmap")]
           prunes == [p \in {} |-> Prune(IF p \in {} THEN "push" ELSE "bitmap")]
<1>12. /\ role' = [role EXCEPT ![n] = final]
       /\ pushBackoff'   = [pushBackoff EXCEPT ![n] = @ \cup {}]
       /\ bitmapBackoff' = [bitmapBackoff EXCEPT ![n] = @ \cup {}]
       /\ control' = [control EXCEPT ![n] = Sent(n, Sent(n, @, grafts), prunes)]
  <2>1. {p \in Node : filled[p] # trimmed[p]} = {} /\ {p \in Node : both[p] # final[p]} = {}
    BY <1>7, <1>9
  <2>2. {} \cup {} = {}
    OBVIOUS
  <2> QED BY <1>4, <2>1, <2>2 DEF HeartbeatEffect
<1>13. pushBackoff' = pushBackoff /\ bitmapBackoff' = bitmapBackoff
  BY <1>12 DEF TypeInv
<1>14. role'[n] = both
  BY <1>9, <1>12 DEF TypeInv
<1>15. ASSUME NEW p \in Node
       PROVE  \/ control'[n][p] = control[n][p]
              \/ \E mesh \in {"push", "bitmap"} :
                   control'[n][p] = Append(control[n][p], Graft(mesh))
  <2> DEFINE sent == Sent(n, control[n], grafts)
  <2>1. control'[n][p] = sent[p]
    <3>1. control'[n] = Sent(n, sent, prunes)
      BY <1>12 DEF TypeInv
    <3>2. DOMAIN prunes = {}
      OBVIOUS
    <3> HIDE DEF sent, prunes
    <3> QED BY <3>1, <3>2, SendingNothing
  <2>2. sent[p] = control[n][p] \/ (p \in DOMAIN grafts /\ sent[p] = Append(control[n][p], grafts[p]))
    <3> HIDE DEF grafts
    <3> QED BY DEF Sent, TryEnqueue
  <2>3. p \in DOMAIN grafts => grafts[p] \in {Graft("push"), Graft("bitmap")}
    OBVIOUS
  <2> HIDE DEF sent, grafts
  <2> QED BY <2>1, <2>2, <2>3
<1>16. \A p \in Node : /\ role[n][p] = "push" => both[p] = "push"
                       /\ role[n][p] = "bitmap" => both[p] \in {"push", "bitmap"}
  BY <1>10, <1>11
<1> QED BY <1>13, <1>14, <1>15, <1>16

(* The trims of meshState.heartbeat are never reached: since a graft finds its
   place or is turned away, a mesh that was formed is not taken apart again by the
   node's own maintenance, whatever the degrees are. *)
THEOREM HeartbeatsNeverPrune == Spec => HeartbeatOnlyGrafts
<1>1. TypeInv /\ CapsInv /\ [Next]_vars =>
      [\A n \in Node : Heartbeat(n) =>
         /\ UNCHANGED <<pushBackoff, bitmapBackoff>>
         /\ \A p \in Node :
              /\ role[n][p] = "push" => role'[n][p] = "push"
              /\ role[n][p] = "bitmap" => role'[n][p] \in {"push", "bitmap"}
              /\ \/ control'[n][p] = control[n][p]
                 \/ \E mesh \in {"push", "bitmap"} :
                      control'[n][p] = Append(control[n][p], Graft(mesh))]_vars
  BY HeartbeatStep
<1> QED BY <1>1, MeshInvariant, PTL DEF Spec, HeartbeatOnlyGrafts

-----------------------------------------------------------------------------
(* What is answered *)

(* What a frame may still cause: a graft into the push mesh a redirect, a graft
   into the bitmap mesh a rejection, and anything else nothing. *)
Rank(frame) == CASE frame.graft = "push" -> 2
                 [] frame.graft = "bitmap" -> 1
                 [] OTHER -> 0

(* A frame that is handled is gone, and it is answered by one frame at most, to its
   sender, that can cause strictly less. *)
RepliesDescend ==
  [][\A n \in Node : \A p \in Node \ {n} : ReceiveControl(n, p) =>
       /\ control'[p] = [control[p] EXCEPT ![n] = Tail(@)]
       /\ \A q \in Node \ {p} : control'[n][q] = control[n][q]
       /\ \/ control'[n][p] = control[n][p]
          \/ \E frame \in Frame :
               /\ control'[n][p] = Append(control[n][p], frame)
               /\ Rank(frame) < Rank(Head(control[p][n]))]_vars

LEMMA ReplyRank ==
  ASSUME NEW roles, NEW frame \in Frame, ReplyToGraft(roles, frame.graft) # NoReply
  PROVE  Rank(ReplyToGraft(roles, frame.graft)) < Rank(frame)
<1> DEFINE reply == ReplyToGraft(roles, frame.graft)
<1>1. \/ frame.graft = "push" /\ reply \in {Redirect, Prune("full")}
      \/ frame.graft = "bitmap" /\ reply = Prune("bitmap")
  BY DEF ReplyToGraft
<1>2. Redirect.graft = "bitmap" /\ Prune("full").graft = "none" /\ Prune("bitmap").graft = "none"
  BY DEF Redirect, Prune
<1> HIDE DEF reply
<1>3. \/ Rank(frame) = 2 /\ Rank(reply) \in {0, 1}
      \/ Rank(frame) = 1 /\ Rank(reply) = 0
  BY <1>1, <1>2 DEF Rank
<1>4. Rank(reply) < Rank(frame)
  BY <1>3
<1> QED BY <1>4 DEF reply

LEMMA RepliesDescendStep ==
  ASSUME TypeInv, NEW n \in Node, NEW p \in Node \ {n}, ReceiveControl(n, p)
  PROVE  /\ control'[p] = [control[p] EXCEPT ![n] = Tail(@)]
         /\ \A q \in Node \ {p} : control'[n][q] = control[n][q]
         /\ \/ control'[n][p] = control[n][p]
            \/ \E frame \in Frame :
                 /\ control'[n][p] = Append(control[n][p], frame)
                 /\ Rank(frame) < Rank(Head(control[p][n]))
<1> DEFINE frame  == Head(control[p][n])
           pruned == [role[n] EXCEPT ![p] = RoleAfterPrune(role[n], p, frame.prune)]
           reply  == ReplyToGraft(pruned, frame.graft)
           replies == [q \in {r \in {p} : reply # NoReply} |-> reply]
<1>1. control' = [[control EXCEPT ![p][n] = Tail(@)] EXCEPT ![n] = Sent(n, @, replies)]
  BY DEF ReceiveControl
<1>2. frame \in Frame
  BY DEF ReceiveControl, TypeInv, Queue
<1>3. reply \in Frame
  BY FrameTypes
<1>4. reply # NoReply => Rank(reply) < Rank(frame)
  <2> HIDE DEF frame, pruned
  <2> QED BY <1>2, ReplyRank
<1>5. /\ \A q \in DOMAIN replies : q = p /\ reply # NoReply /\ replies[q] = reply
  OBVIOUS
<1> HIDE DEF frame, pruned, reply, replies
<1>6. control'[p] = [control[p] EXCEPT ![n] = Tail(@)] /\ control'[n] = Sent(n, control[n], replies)
  BY <1>1 DEF TypeInv
<1>7. \A q \in Node : \/ control'[n][q] = control[n][q]
                      \/ /\ q \in DOMAIN replies
                         /\ control'[n][q] = Append(control[n][q], replies[q])
  BY <1>6 DEF Sent, TryEnqueue
<1>8. \A q \in Node \ {p} : control'[n][q] = control[n][q]
  BY <1>5, <1>7
<1>9. \/ control'[n][p] = control[n][p]
      \/ control'[n][p] = Append(control[n][p], reply) /\ reply # NoReply
  BY <1>5, <1>7
<1>10. \/ control'[n][p] = control[n][p]
       \/ \E f \in Frame : control'[n][p] = Append(control[n][p], f) /\ Rank(f) < Rank(frame)
  BY <1>3, <1>4, <1>9
<1> QED BY <1>6, <1>8, <1>10 DEF frame

(* An exchange opened by one graft is three frames long at most, with full meshes
   and crossing grafts as well: nothing a node sends on its own account between two
   heartbeats can go back and forth (Manager.onInboundControl, meshState.onGraft). *)
THEOREM RepliesEnd == Spec => RepliesDescend
<1>1. TypeInv /\ [Next]_vars =>
      [\A n \in Node : \A p \in Node \ {n} : ReceiveControl(n, p) =>
         /\ control'[p] = [control[p] EXCEPT ![n] = Tail(@)]
         /\ \A q \in Node \ {p} : control'[n][q] = control[n][q]
         /\ \/ control'[n][p] = control[n][p]
            \/ \E frame \in Frame :
                 /\ control'[n][p] = Append(control[n][p], frame)
                 /\ Rank(frame) < Rank(Head(control[p][n]))]_vars
  BY RepliesDescendStep
<1> QED BY <1>1, MeshInvariant, PTL DEF Spec, RepliesDescend
=============================================================================
