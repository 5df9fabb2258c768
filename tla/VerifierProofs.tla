--------------------------- MODULE VerifierProofs ---------------------------
(***************************************************************************)
(* Verifier, for every set of items and every number of submissions:       *)
(* nothing is lost, repeated or reordered between submission and call      *)
(* back, no wake-up is lost, and the verifier implements a first-in,       *)
(* first-out gate.                                                         *)
(***************************************************************************)
EXTENDS Verifier, SequenceTheorems, TLAPS

(* What the wake-up argument needs besides NoLostWakeup itself: a loop that
   believes in its timer has one, and goes back to its wait with one after a
   batch, so what was submitted during the batch is not slept on. *)
RunInv ==
  /\ TypeOK
  /\ timerRunning => timer # "off"
  /\ pc \in {"verify", "check"} => timerRunning
  /\ Conservation
  /\ NoLostWakeup

(* A sequence that is not empty is its head and its tail. *)
LEMMA ConsHeadTail ==
  ASSUME NEW S, NEW s \in Seq(S), s # <<>>
  PROVE  Head(s) \in S /\ Tail(s) \in Seq(S) /\ s = <<Head(s)>> \o Tail(s)
  BY HeadTailProperties

(* Moving the head of the middle part to the end of the first changes nothing
   of the whole. *)
LEMMA ShiftHead ==
  ASSUME NEW S, NEW a \in Seq(S), NEW b \in Seq(S), NEW c \in Seq(S), b # <<>>
  PROVE  /\ Append(a, Head(b)) \in Seq(S)
         /\ Append(a, Head(b)) \o Tail(b) \o c = a \o b \o c
<1>1. /\ Head(b) \in S /\ Tail(b) \in Seq(S) /\ <<Head(b)>> \in Seq(S)
      /\ b = <<Head(b)>> \o Tail(b)
  BY ConsHeadTail
<1>2. Append(a, Head(b)) = a \o <<Head(b)>>
  BY <1>1, AppendIsConcat
<1>3. (a \o <<Head(b)>>) \o Tail(b) = a \o (<<Head(b)>> \o Tail(b))
  BY <1>1, ConcatAssociative
<1> QED
  BY <1>1, <1>2, <1>3

(* Appending to the last part appends to the whole. *)
LEMMA AppendLast ==
  ASSUME NEW S, NEW a \in Seq(S), NEW b \in Seq(S), NEW c \in Seq(S), NEW e \in S
  PROVE  a \o b \o Append(c, e) = Append(a \o b \o c, e)
<1>1. a \o b \in Seq(S) /\ <<e>> \in Seq(S) /\ (a \o b) \o c \in Seq(S)
  BY ConcatProperties
<1>2. Append(c, e) = c \o <<e>> /\ Append((a \o b) \o c, e) = ((a \o b) \o c) \o <<e>>
  BY <1>1, AppendIsConcat
<1>3. ((a \o b) \o c) \o <<e>> = (a \o b) \o (c \o <<e>>)
  BY <1>1, ConcatAssociative
<1> QED
  BY <1>2, <1>3

(* The parts of what was submitted add up. *)
LEMMA PartsAddUp ==
  ASSUME TypeOK, Conservation
  PROVE  /\ Len(verified) \in Nat /\ Len(batch) \in Nat /\ Len(queue) \in Nat
         /\ Len(submitted) = Len(verified) + Len(batch) + Len(queue)
<1>1. /\ verified \in Seq(Item) /\ batch \in Seq(Item) /\ queue \in Seq(Item)
      /\ submitted = (verified \o batch) \o queue
  BY DEF TypeOK, Conservation
<1>2. verified \o batch \in Seq(Item) /\ Len(verified \o batch) = Len(verified) + Len(batch)
  BY <1>1, ConcatProperties
<1>3. Len(submitted) = Len(verified \o batch) + Len(queue)
  BY <1>1, <1>2, ConcatProperties
<1> QED
  BY <1>1, <1>2, <1>3, LenProperties

(* A new verifier has nothing to verify and nobody to wake. *)
LEMMA RunInit == Init => RunInv
<1> SUFFICES ASSUME Init PROVE RunInv
  OBVIOUS
<1>1. <<>> \in Seq(Item) /\ Len(<<>>) = 0 /\ <<>> \o <<>> = <<>>
  BY EmptySeq, ConcatEmptySeq, ConcatProperties
<1>2. TypeOK
  <2>1. /\ queue \in Seq(Item) /\ batch \in Seq(Item)
        /\ submitted \in Seq(Item) /\ verified \in Seq(Item)
    BY <1>1 DEF Init
  <2>2. beforeStop \in 0 .. Len(submitted)
    BY <1>1 DEF Init
  <2> QED
    BY <2>1, <2>2 DEF Init, TypeOK
<1>3. Conservation
  BY <1>1 DEF Init, Conservation
<1> QED
  BY <1>2, <1>3 DEF Init, RunInv, NoLostWakeup

(* A submission at the end of the queue is one at the end of the whole. *)
LEMMA SubmitConserves ==
  ASSUME RunInv, NEW i \in Item
  PROVE  verified \o batch \o Append(queue, i) = Append(submitted, i)
<1>1. /\ verified \in Seq(Item) /\ batch \in Seq(Item) /\ queue \in Seq(Item)
      /\ submitted = verified \o batch \o queue
  BY DEF RunInv, TypeOK, Conservation
<1>2. verified \o batch \o Append(queue, i) = Append(verified \o batch \o queue, i)
  BY <1>1, AppendLast
<1> QED
  BY <1>1, <1>2

(* Every critical section of the mutex keeps Run's invariant. *)
LEMMA RunStep == RunInv /\ [Next]_vars => RunInv'
<1> SUFFICES ASSUME RunInv, [Next]_vars PROVE RunInv'
  OBVIOUS
<1> USE DEF RunInv, TypeOK, Conservation, NoLostWakeup
<1>1. ASSUME NEW i \in Item, Submit(i) PROVE RunInv'
  <2>1. verified \o batch \o Append(queue, i) = Append(submitted, i)
    BY SubmitConserves
  <2>2. Append(queue, i) \in Seq(Item) /\ Append(submitted, i) \in Seq(Item)
        /\ Len(Append(submitted, i)) = Len(submitted) + 1
    BY AppendProperties
  <2> QED
    BY <1>1, <2>1, <2>2 DEF Submit
<1>2. CASE Stop
  <2>1. Due \in 0 .. Len(submitted)
    BY PartsAddUp DEF Due
  <2> QED
    BY <1>2, <2>1 DEF Stop
<1>3. CASE TimerFires
  BY <1>3 DEF TimerFires
<1>4. CASE Notified
  BY <1>4 DEF Notified
<1>5. CASE WindowOver
  BY <1>5 DEF WindowOver
<1>6. CASE Accumulate
  BY <1>6 DEF Accumulate
<1>7. CASE FindEmpty
  BY <1>7 DEF FindEmpty
<1>8. CASE TakeBatch
  <2>1. batch = <<>>
    BY <1>8 DEF TakeBatch
  <2>2. verified \o queue \in Seq(Item) /\ <<>> \in Seq(Item)
    BY ConcatProperties, EmptySeq
  <2>3. verified \o <<>> = verified /\ (verified \o queue) \o <<>> = verified \o queue
    BY <2>2, ConcatEmptySeq
  <2>4. Conservation'
    BY <1>8, <2>1, <2>3 DEF TakeBatch
  <2>5. TypeOK'
    BY <1>8, <2>2 DEF TakeBatch
  <2> QED
    BY <1>8, <2>4, <2>5 DEF TakeBatch
<1>9. CASE CallBack
  <2>1. /\ Append(verified, Head(batch)) \in Seq(Item)
        /\ Append(verified, Head(batch)) \o Tail(batch) \o queue = submitted
        /\ Tail(batch) \in Seq(Item)
    BY SMTT(20), <1>9, ShiftHead, ConsHeadTail DEF CallBack
  <2> QED
    BY <1>9, <2>1 DEF CallBack
<1>10. CASE BatchDone
  BY <1>10 DEF BatchDone
<1>11. CASE Check
  BY <1>11 DEF Check
<1>12. CASE UNCHANGED vars
  BY <1>12 DEF vars
<1> HIDE DEF RunInv, TypeOK, Conservation, NoLostWakeup
<1> QED
  BY <1>1, <1>2, <1>3, <1>4, <1>5, <1>6, <1>7, <1>8, <1>9, <1>10, <1>11, <1>12
  DEF Next, Run

(* Run's invariant holds throughout, whatever is submitted and whenever the
   verifier is stopped. *)
THEOREM RunInvariant == Spec => []RunInv
<1> QED
  BY RunInit, RunStep, PTL DEF Spec

(* The verifier's variables keep their types; what is in a batch is only there
   while it is being verified. *)
THEOREM TypesOfVerifier == Spec => []TypeOK
<1>1. RunInv => TypeOK
  BY DEF RunInv
<1> QED
  BY <1>1, RunInvariant, PTL

(* verify.go's queue swap: every submission is called back, in the batch or in
   the queue, exactly once and in order. *)
THEOREM SubmissionsConserved == Spec => []Conservation
<1>1. RunInv => Conservation
  BY DEF RunInv
<1> QED
  BY <1>1, RunInvariant, PTL

(* verify.go's notify channel: Run never sleeps on work without a token or a
   timer to wake it, and never on a stop without a token. *)
THEOREM NoWakeupLost == Spec => []NoLostWakeup
<1>1. RunInv => NoLostWakeup
  BY DEF RunInv
<1> QED
  BY <1>1, RunInvariant, PTL

(* verify.go's timerRunning: a batch is only taken when the window of the one
   before is over, or the verifier is stopped. *)
THEOREM WindowIsRespected == Spec => WindowRespected
<1>1. ASSUME RunInv, [Next]_vars, pc = "lock", pc' = "verify"
      PROVE  timer = "off" \/ stopped
  <2>1. TakeBatch
    BY <1>1 DEF Next, Run, Submit, Stop, TimerFires, Notified, WindowOver, Accumulate,
                FindEmpty, CallBack, BatchDone, Check, vars
  <2> QED
    BY <1>1, <2>1 DEF TakeBatch, RunInv, TypeOK
<1> QED
  BY <1>1, RunInvariant, PTL DEF Spec, WindowRespected

-----------------------------------------------------------------------------

(* What Stop has left to be drained is in the batch or done as soon as Run has
   taken a batch; before that it is submitted, and Run will not end over it. *)
DrainInv ==
  /\ pc = "exited" => stopped
  /\ stopped /\ pc \in {"verify", "check"} => beforeStop <= Len(verified) + Len(batch)
  /\ StopDrains

(* Every step keeps it: a batch is the whole queue, and a stopped Run finds
   either nothing in the queue or nothing left of its batch when it ends. *)
LEMMA DrainStep == RunInv /\ RunInv' /\ DrainInv /\ [Next]_vars => DrainInv'
<1> SUFFICES ASSUME RunInv, RunInv', DrainInv, [Next]_vars PROVE DrainInv'
  OBVIOUS
<1>1. /\ Len(verified) \in Nat /\ Len(batch) \in Nat /\ Len(queue) \in Nat
      /\ Len(submitted) = Len(verified) + Len(batch) + Len(queue)
      /\ beforeStop \in 0 .. Len(submitted)
  BY PartsAddUp DEF RunInv, TypeOK
<1>2. /\ verified \in Seq(Item) /\ batch \in Seq(Item)
      /\ batch # <<>> => pc = "verify"
      /\ batch = <<>> => Len(batch) = 0
      /\ queue = <<>> => Len(queue) = 0
  BY EmptySeq DEF RunInv, TypeOK
<1> USE DEF DrainInv, StopDrains
<1>3. CASE Stop
  BY <1>1, <1>2, <1>3 DEF Stop, Due
<1>4. CASE FindEmpty
  BY <1>1, <1>2, <1>4 DEF FindEmpty
<1>5. CASE TakeBatch
  BY <1>1, <1>2, <1>5 DEF TakeBatch
<1>6. CASE CallBack
  <2>1. Len(verified') + Len(batch') = Len(verified) + Len(batch)
    BY <1>2, <1>6, HeadTailProperties, AppendProperties DEF CallBack
  <2> QED
    BY <1>1, <2>1, <1>6 DEF CallBack
<1>7. CASE Check
  BY <1>1, <1>2, <1>7 DEF Check
<1>8. CASE BatchDone
  BY <1>8 DEF BatchDone
<1>9. CASE \E i \in Item : Submit(i)
  BY <1>9 DEF Submit
<1>10. CASE TimerFires \/ Notified \/ WindowOver \/ Accumulate \/ UNCHANGED vars
  BY <1>10 DEF TimerFires, Notified, WindowOver, Accumulate, vars
<1> HIDE DEF DrainInv, StopDrains
<1> QED
  BY <1>3, <1>4, <1>5, <1>6, <1>7, <1>8, <1>9, <1>10 DEF Next, Run

(* verify.go's Stop: Run has called back all that was submitted before the stop
   when it ends, save what was queued during a verification. *)
THEOREM StopLeavesDrained == Spec => []StopDrains
<1>1. Init => DrainInv
  <2>1. Len(<<>>) = 0
    BY EmptySeq
  <2> QED
    BY <2>1 DEF Init, DrainInv, StopDrains
<1>2. DrainInv => StopDrains
  BY DEF DrainInv
<1> QED
  BY <1>1, <1>2, RunInvariant, DrainStep, PTL DEF Spec

-----------------------------------------------------------------------------

(* The next item to be called back is the first that was not. *)
LEMMA NextInOrder ==
  ASSUME RunInv, batch # <<>>
  PROVE  /\ Len(verified) < Len(submitted)
         /\ Head(batch) = submitted[Len(verified) + 1]
<1>1. /\ verified \in Seq(Item) /\ batch \in Seq(Item) /\ queue \in Seq(Item)
      /\ submitted = (verified \o batch) \o queue
  BY DEF RunInv, TypeOK, Conservation
<1> DEFINE n == Len(verified) + 1
<1>2. /\ verified \o batch \in Seq(Item)
      /\ Len(verified \o batch) = Len(verified) + Len(batch)
      /\ \A k \in 1 .. Len(verified) + Len(batch) :
           (verified \o batch)[k] = IF k <= Len(verified) THEN verified[k]
                                     ELSE batch[k - Len(verified)]
  BY <1>1, ConcatProperties
<1>3. /\ Len(submitted) = Len(verified \o batch) + Len(queue)
      /\ \A k \in 1 .. Len(verified \o batch) + Len(queue) :
           submitted[k] = IF k <= Len(verified \o batch) THEN (verified \o batch)[k]
                          ELSE queue[k - Len(verified \o batch)]
  BY <1>1, <1>2, ConcatProperties
<1>4. /\ Len(batch) \in Nat /\ Len(batch) > 0 /\ Len(verified) \in Nat
      /\ Len(queue) \in Nat /\ Head(batch) = batch[1]
  BY <1>1, HeadTailProperties, LenProperties, EmptySeq
<1>5. submitted[n] = (verified \o batch)[n]
  BY <1>2, <1>3, <1>4
<1>6. (verified \o batch)[n] = batch[1]
  BY <1>2, <1>4
<1> QED
  BY <1>2, <1>3, <1>4, <1>5, <1>6

(* verify.go implements a first-in, first-out gate: a call back is a release of
   the next item, and everything but Submit stutters otherwise. *)
THEOREM ImplementsGate == Spec => GateSpec
<1>1. Init => Gate!GateInit
  BY DEF Init, Gate!GateInit
<1>2. ASSUME RunInv, [Next]_vars
      PROVE  [Gate!GateNext]_(Gate!gateVars)
  <2>1. CASE \E i \in Item : Submit(i)
    BY <2>1 DEF Submit, Gate!GateNext, Gate!Enter
  <2>2. CASE CallBack
    <3>1. batch # <<>>
      BY <2>2 DEF CallBack
    <3>2. Gate!Release
      BY <1>2, <2>2, <3>1, NextInOrder DEF CallBack, Gate!Release
    <3> QED
      BY <3>2 DEF Gate!GateNext
  <2>3. CASE ~CallBack /\ ~\E i \in Item : Submit(i)
    BY <1>2, <2>3 DEF Next, Run, Stop, TimerFires, Notified, WindowOver, Accumulate,
      FindEmpty, TakeBatch, BatchDone, Check, vars, Gate!gateVars
  <2> QED
    BY <2>1, <2>2, <2>3
<1> QED
  BY <1>1, <1>2, RunInvariant, PTL DEF Spec, GateSpec, Gate!GateSpec
=============================================================================
