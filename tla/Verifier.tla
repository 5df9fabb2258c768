------------------------------ MODULE Verifier ------------------------------
(***************************************************************************)
(* The batch verifier every strategy shares: verify/verify.go.             *)
(*                                                                         *)
(* Submitters append to a queue under a mutex and leave a token in notify, *)
(* a channel of capacity one.  The goroutine Run waits for the token or    *)
(* for the batch-window timer, takes the whole queue once the window since *)
(* the last batch is over, sleeps for the verification, and calls back the *)
(* items one by one.  Each critical section of the mutex is one step; what *)
(* happens between two of them interleaves with submitters, the timer and  *)
(* Stop.                                                                   *)
(***************************************************************************)
EXTENDS Integers, Sequences

CONSTANTS
  Item,        \* what a submission carries
  MaxSubmits   \* bound: submissions in a behaviour

ASSUME SubmitAssumption == MaxSubmits \in Nat

VARIABLES
  queue,         \* submitted and not taken
  notify,        \* the token is in the channel
  stopped,       \* Stop was called
  pc,            \* where Run is: "wait", "lock", "verify", "check", "exited"
  timer,         \* "off", "running" or "fired": its tick waits in timer.C
  timerRunning,  \* Run's own idea of it
  batch          \* taken and not called back

VARIABLES        \* history, read by the properties only
  submitted,     \* every submission, in order
  verified,      \* every call back, in order
  beforeStop     \* how many have to be called back in spite of Stop

vars == <<queue, notify, stopped, pc, timer, timerRunning, batch,
          submitted, verified, beforeStop>>

-----------------------------------------------------------------------------
(* Submit and Stop, from any goroutine *)

(* Mutant: no token is left. *)
SubmitSilent(i) ==
  /\ Len(submitted) < MaxSubmits
  /\ queue'     = Append(queue, i)
  /\ submitted' = Append(submitted, i)
  /\ UNCHANGED <<notify, stopped, pc, timer, timerRunning, batch, verified, beforeStop>>

(* Submit; SubmitAndWait is the same with a caller that waits for the call
   back. *)
Submit(i) ==
  /\ Len(submitted) < MaxSubmits
  /\ queue'     = Append(queue, i)
  /\ notify'    = TRUE
  /\ submitted' = Append(submitted, i)
  /\ UNCHANGED <<stopped, pc, timer, timerRunning, batch, verified, beforeStop>>

(* What a Stop that comes now has to leave drained: all there is, but if a
   verification is under way only its batch. *)
Due == IF pc \in {"verify", "check"} THEN Len(verified) + Len(batch) ELSE Len(submitted)

(* Mutant: Run is not woken. *)
StopSilent ==
  /\ ~stopped
  /\ stopped'    = TRUE
  /\ beforeStop' = Due
  /\ UNCHANGED <<queue, notify, pc, timer, timerRunning, batch, submitted, verified>>

(* Stop, up to its wait for Run's end. *)
Stop ==
  /\ ~stopped
  /\ stopped'    = TRUE
  /\ notify'     = TRUE
  /\ beforeStop' = Due
  /\ UNCHANGED <<queue, pc, timer, timerRunning, batch, submitted, verified>>

TimerFires ==
  /\ timer = "running"
  /\ timer' = "fired"
  /\ UNCHANGED <<queue, notify, stopped, pc, timerRunning, batch, submitted,
                 verified, beforeStop>>

-----------------------------------------------------------------------------
(* Run *)

(* select: the token, or ... *)
Notified ==
  /\ pc = "wait"
  /\ notify
  /\ notify' = FALSE
  /\ pc' = "lock"
  /\ UNCHANGED <<queue, stopped, timer, timerRunning, batch, submitted, verified,
                 beforeStop>>

(* ... the timer; if both are ready, either. *)
WindowOver ==
  /\ pc = "wait"
  /\ timer = "fired"
  /\ timer' = "off"
  /\ timerRunning' = FALSE
  /\ pc' = "lock"
  /\ UNCHANGED <<queue, notify, stopped, batch, submitted, verified, beforeStop>>

(* The critical section drains the token; with the window still open, the
   queue goes on accumulating. *)
Accumulate ==
  /\ pc = "lock"
  /\ timerRunning /\ ~stopped
  /\ notify' = FALSE
  /\ pc' = "wait"
  /\ UNCHANGED <<queue, stopped, timer, timerRunning, batch, submitted, verified,
                 beforeStop>>

(* Mutant: a stopped Run does not look at the queue. *)
FindEmptyOrStopped ==
  /\ pc = "lock"
  /\ ~timerRunning \/ stopped
  /\ queue = <<>> \/ stopped
  /\ notify' = FALSE
  /\ pc' = IF stopped THEN "exited" ELSE "wait"
  /\ UNCHANGED <<queue, stopped, timer, timerRunning, batch, submitted, verified,
                 beforeStop>>

(* Nothing to verify: end, or wait again. *)
FindEmpty ==
  /\ pc = "lock"
  /\ ~timerRunning \/ stopped
  /\ queue = <<>>
  /\ notify' = FALSE
  /\ pc' = IF stopped THEN "exited" ELSE "wait"
  /\ UNCHANGED <<queue, stopped, timer, timerRunning, batch, submitted, verified,
                 beforeStop>>

(* Mutant: the timer is not armed again. *)
TakeBatchNoTimer ==
  /\ pc = "lock"
  /\ ~timerRunning \/ stopped
  /\ queue # <<>>
  /\ notify' = FALSE
  /\ batch' = queue
  /\ queue' = <<>>
  /\ timerRunning' = TRUE
  /\ pc' = "verify"
  /\ UNCHANGED <<timer, stopped, submitted, verified, beforeStop>>

(* The queue becomes the batch and the next window opens. *)
TakeBatch ==
  /\ pc = "lock"
  /\ ~timerRunning \/ stopped
  /\ queue # <<>>
  /\ notify' = FALSE
  /\ batch' = queue
  /\ queue' = <<>>
  /\ timer' = "running"
  /\ timerRunning' = TRUE
  /\ pc' = "verify"
  /\ UNCHANGED <<stopped, submitted, verified, beforeStop>>

(* Mutant: the latest item of the batch first. *)
CallBackLatest ==
  /\ pc = "verify"
  /\ batch # <<>>
  /\ batch' = SubSeq(batch, 1, Len(batch) - 1)
  /\ verified' = Append(verified, batch[Len(batch)])
  /\ UNCHANGED <<queue, notify, stopped, pc, timer, timerRunning, submitted, beforeStop>>

(* verifyBatch, after its sleep: one call back. *)
CallBack ==
  /\ pc = "verify"
  /\ batch # <<>>
  /\ batch' = Tail(batch)
  /\ verified' = Append(verified, Head(batch))
  /\ UNCHANGED <<queue, notify, stopped, pc, timer, timerRunning, submitted, beforeStop>>

BatchDone ==
  /\ pc = "verify"
  /\ batch = <<>>
  /\ pc' = "check"
  /\ UNCHANGED <<queue, notify, stopped, timer, timerRunning, batch, submitted,
                 verified, beforeStop>>

(* Stopped in the meantime: end, whatever was queued since. *)
Check ==
  /\ pc = "check"
  /\ pc' = IF stopped THEN "exited" ELSE "wait"
  /\ UNCHANGED <<queue, notify, stopped, timer, timerRunning, batch, submitted,
                 verified, beforeStop>>

-----------------------------------------------------------------------------

Init ==
  /\ queue = <<>>
  /\ notify = FALSE
  /\ stopped = FALSE
  /\ pc = "wait"
  /\ timer = "off"
  /\ timerRunning = FALSE
  /\ batch = <<>>
  /\ submitted = <<>>
  /\ verified = <<>>
  /\ beforeStop = 0

Run ==
  \/ Notified
  \/ WindowOver
  \/ Accumulate
  \/ FindEmpty
  \/ TakeBatch
  \/ CallBack
  \/ BatchDone
  \/ Check

Next ==
  \/ \E i \in Item : Submit(i)
  \/ Stop
  \/ TimerFires
  \/ Run

Spec == Init /\ [][Next]_vars

(* Run is a goroutine whose sleeps end and whose call backs return, and a
   running timer fires.  Nobody has to submit or to stop. *)
FairSpec == Spec /\ WF_vars(Run) /\ WF_vars(TimerFires)

-----------------------------------------------------------------------------
(* Properties *)

TypeOK ==
  /\ queue \in Seq(Item)
  /\ notify \in BOOLEAN
  /\ stopped \in BOOLEAN
  /\ pc \in {"wait", "lock", "verify", "check", "exited"}
  /\ timer \in {"off", "running", "fired"}
  /\ timerRunning \in BOOLEAN
  /\ batch \in Seq(Item)
  /\ submitted \in Seq(Item)
  /\ verified \in Seq(Item)
  /\ beforeStop \in 0 .. Len(submitted)
  /\ batch # <<>> => pc = "verify"
  /\ ~timerRunning => timer = "off"

(* Every submission is called back, waits in the batch or waits in the queue,
   in exactly one of these, and in the order of submission: no interleaving of
   submitters with the swap of the queue loses, repeats or reorders one. *)
Conservation == submitted = verified \o batch \o queue

(* No lost wake-up: when Run sleeps with something to do, the token or the
   timer is there to wake it; a stop does not wait for the timer. *)
NoLostWakeup ==
  pc = "wait" => /\ queue # <<>> => notify \/ timer # "off"
                 /\ stopped => notify

(* The batch window holds: unless it is stopped, Run takes a batch only when
   the timer it armed for the one before has fired and been received. *)
WindowRespected ==
  [][pc = "lock" /\ pc' = "verify" => timer = "off" \/ stopped]_vars

(* Everything submitted is called back at last, unless the verifier is
   stopped. *)
EveryItemVerified ==
  \A n \in 1 .. MaxSubmits :
    n <= Len(submitted) ~> Len(verified) >= n \/ stopped

(* Stop returns, whatever Run was doing and however often others submit. *)
StopReturns == stopped ~> pc = "exited"

(* Run does not end before what Stop found is called back, even if the window is
   open and others go on submitting; but what was queued during a verification is
   not part of it. *)
StopDrains == pc = "exited" => Len(verified) >= beforeStop

(* The verifier is a first-in, first-out gate. *)
Gate == INSTANCE VerifyGate WITH entered <- submitted, released <- verified
GateSpec == Gate!GateSpec
=============================================================================
