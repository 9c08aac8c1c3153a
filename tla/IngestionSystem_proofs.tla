----------------------- MODULE IngestionSystem_proofs -----------------------
(***************************************************************************)
(* Proofs about IngestionSystem: it implements IngestionLifecycle and      *)
(* JobOutbox, whose theorems hold in it therefore, and no item is left     *)
(* without a job.                                                          *)
(***************************************************************************)
EXTENDS IngestionSystem, TLAPS

\* The two parts once more, with what is proved about them.
LP == INSTANCE IngestionLifecycle_proofs
OP == INSTANCE JobOutbox_proofs WITH Aggregates <- Items, Unroutable <- {}

-----------------------------------------------------------------------------
(* The parts are the parts of the system.                                  *)

\* What the parts assume of the constants, the system assumes.
LEMMA Assumptions == LP!ConstantsAssumption /\ OP!OutboxAssumption
BY SystemAssumption DEF LP!ConstantsAssumption, OP!OutboxAssumption

\* Statements on the outbox.
LEMMA OutboxStatements ==
    ASSUME NEW a
    PROVE  /\ Outbox!Sent(a) <=> OP!Sent(a)
           /\ Outbox!Waiting(a) = OP!Waiting(a)
           /\ Outbox!DiscardRefused(a) <=> OP!DiscardRefused(a)
           /\ Outbox!Enqueue(a) <=> OP!Enqueue(a)
           /\ Outbox!Supersede(a) <=> OP!Supersede(a)
           /\ Outbox!Receive(a) <=> OP!Receive(a)
           /\ Outbox!Return(a) <=> OP!Return(a)
BY DEF Outbox!Sent, Outbox!Waiting, Outbox!DiscardRefused, Outbox!Enqueue, Outbox!Supersede,
       Outbox!Receive, Outbox!Return, Outbox!NewRow,
       OP!Sent, OP!Waiting, OP!DiscardRefused, OP!Enqueue, OP!Supersede, OP!Receive, OP!Return,
       OP!NewRow

\* Steps of publishers.
LEMMA OutboxPublishers ==
    ASSUME NEW p
    PROVE  /\ Outbox!ClaimBatch(p) <=> OP!ClaimBatch(p)
           /\ Outbox!Dispatch(p) <=> OP!Dispatch(p)
           /\ Outbox!DispatchFails(p) <=> OP!DispatchFails(p)
           /\ Outbox!MarkPublished(p) <=> OP!MarkPublished(p)
           /\ Outbox!MarkFailed(p) <=> OP!MarkFailed(p)
           /\ Outbox!Abandon(p) <=> OP!Abandon(p)
<1>1. Outbox!ClaimBatch(p) <=> OP!ClaimBatch(p)
  <2>0. \A S : Outbox!Cardinality(S) = OP!Cardinality(S)
    BY DEF Outbox!Cardinality, OP!Cardinality
  <2>1. Outbox!Batch = OP!Batch
    <3>1. \A j : Outbox!Claimable(j) <=> OP!Claimable(j)
      BY DEF Outbox!Claimable, OP!Claimable
    <3>2. \A j : {k \in 1..(j - 1) : Outbox!Claimable(k)} = {k \in 1..(j - 1) : OP!Claimable(k)}
      BY <3>1
    <3> QED
      BY <3>1, <3>2, <2>0 DEF Outbox!Batch, OP!Batch
  <2>2. \A r : Outbox!ClaimedRow(r) = OP!ClaimedRow(r)
    BY DEF Outbox!ClaimedRow, OP!ClaimedRow
  <2>3. Outbox!Busy(p) <=> OP!Busy(p)
    BY DEF Outbox!Busy, OP!Busy
  <2>4. [j \in DOMAIN outbox |->
           IF j \in Outbox!Batch THEN Outbox!ClaimedRow(outbox[j]) ELSE outbox[j]]
        = [j \in DOMAIN outbox |-> IF j \in OP!Batch THEN OP!ClaimedRow(outbox[j]) ELSE outbox[j]]
    BY <2>1, <2>2
  <2> QED
    BY <2>0, <2>1, <2>3, <2>4, Zenon DEF Outbox!ClaimBatch, OP!ClaimBatch
<1>2. Outbox!Dispatch(p) <=> OP!Dispatch(p)
  BY DEF Outbox!Dispatch, Outbox!Busy, Outbox!Routable, Outbox!Job,
         OP!Dispatch, OP!Busy, OP!Routable, OP!Job
<1>3. Outbox!DispatchFails(p) <=> OP!DispatchFails(p)
  BY DEF Outbox!DispatchFails, Outbox!Busy, Outbox!Routable, Outbox!Job, Outbox!Failure,
     Outbox!Settled, Outbox!OwnedBy, Outbox!Done,
         OP!DispatchFails, OP!Busy, OP!Routable, OP!Job, OP!Failure, OP!Settled, OP!OwnedBy, OP!Done
<1>4. Outbox!MarkPublished(p) <=> OP!MarkPublished(p)
  BY DEF Outbox!MarkPublished, Outbox!Busy, Outbox!Job, Outbox!Settle,
     Outbox!Settled, Outbox!OwnedBy, Outbox!Done,
         OP!MarkPublished, OP!Busy, OP!Job, OP!Settle, OP!Settled, OP!OwnedBy, OP!Done
<1>5. Outbox!MarkFailed(p) <=> OP!MarkFailed(p)
  BY DEF Outbox!MarkFailed, Outbox!Busy, Outbox!Routable, Outbox!Job, Outbox!Settle,
     Outbox!Settled, Outbox!OwnedBy, Outbox!Done,
         OP!MarkFailed, OP!Busy, OP!Routable, OP!Job, OP!Settle, OP!Settled, OP!OwnedBy, OP!Done
<1>6. Outbox!Abandon(p) <=> OP!Abandon(p)
  BY DEF Outbox!Abandon, Outbox!Busy, Outbox!Failure,
         OP!Abandon, OP!Busy, OP!Failure
<1> QED
  BY <1>1, <1>2, <1>3, <1>4, <1>5, <1>6

\* Steps of workers.
LEMMA LifecycleWorkers ==
    ASSUME NEW w
    PROVE  /\ Lifecycle!Claim(w) <=> LP!Claim(w)
           /\ Lifecycle!ClaimRefused(w) <=> LP!ClaimRefused(w)
           /\ Lifecycle!RenewLease(w) <=> LP!RenewLease(w)
           /\ Lifecycle!LoseLease(w) <=> LP!LoseLease(w)
           /\ Lifecycle!FinishProcessing(w) <=> LP!FinishProcessing(w)
           /\ Lifecycle!Complete(w) <=> LP!Complete(w)
           /\ Lifecycle!CompleteLost(w) <=> LP!CompleteLost(w)
           /\ Lifecycle!CompleteRaises(w) <=> LP!CompleteRaises(w)
           /\ Lifecycle!MarkFailed(w) <=> LP!MarkFailed(w)
           /\ Lifecycle!MarkFailedRaises(w) <=> LP!MarkFailedRaises(w)
           /\ Lifecycle!ScheduleRetry(w) <=> LP!ScheduleRetry(w)
           /\ Lifecycle!RetryRefused(w) <=> LP!RetryRefused(w)
           /\ Lifecycle!OutcomeLost(w) <=> LP!OutcomeLost(w)
           /\ Lifecycle!ReapExpired(w) <=> LP!ReapExpired(w)
           /\ Lifecycle!Crash(w) <=> LP!Crash(w)
           /\ Lifecycle!DatabaseError(w) <=> LP!DatabaseError(w)
           /\ Lifecycle!AnswerLost(w) <=> LP!AnswerLost(w)
<1>1. Lifecycle!Claim(w) <=> LP!Claim(w)
  BY DEF Lifecycle!Claim, Lifecycle!ClaimItem, Lifecycle!Claimable,
         Lifecycle!ClaimedRow, LP!Claim, LP!ClaimItem, LP!Claimable, LP!ClaimedRow
<1>2. Lifecycle!ClaimRefused(w) <=> LP!ClaimRefused(w)
  BY DEF Lifecycle!ClaimRefused, Lifecycle!Claimable, Lifecycle!Stop, Lifecycle!Idle,
         LP!ClaimRefused, LP!Claimable, LP!Stop, LP!Idle
<1>3. Lifecycle!RenewLease(w) <=> LP!RenewLease(w)
  BY DEF Lifecycle!RenewLease, Lifecycle!Beating, Lifecycle!OwnedBy, Lifecycle!RenewalTimes,
         LP!RenewLease, LP!Beating, LP!OwnedBy, LP!RenewalTimes
<1>4. Lifecycle!LoseLease(w) <=> LP!LoseLease(w)
  BY DEF Lifecycle!LoseLease, Lifecycle!Beating, Lifecycle!OwnedBy, Lifecycle!Stop,
         Lifecycle!Idle, Lifecycle!RenewalTimes,
         LP!LoseLease, LP!Beating, LP!OwnedBy, LP!Stop, LP!Idle, LP!RenewalTimes
<1>5. Lifecycle!FinishProcessing(w) <=> LP!FinishProcessing(w)
  BY DEF Lifecycle!FinishProcessing, Lifecycle!Begin, LP!FinishProcessing, LP!Begin
<1>6. Lifecycle!Complete(w) <=> LP!Complete(w)
  BY DEF Lifecycle!Complete, Lifecycle!CompleteItem, Lifecycle!Owns, Lifecycle!OwnedBy,
         Lifecycle!EndAccepted, Lifecycle!AppClock, Lifecycle!ReleaseRow,
         Lifecycle!Stop, Lifecycle!Idle, LP!Complete, LP!CompleteItem, LP!Owns,
         LP!OwnedBy, LP!EndAccepted, LP!AppClock, LP!ReleaseRow, LP!Stop, LP!Idle
<1>7. Lifecycle!CompleteLost(w) <=> LP!CompleteLost(w)
  BY DEF Lifecycle!CompleteLost, Lifecycle!Owns, Lifecycle!OwnedBy, Lifecycle!Stop,
         Lifecycle!Idle, LP!CompleteLost, LP!Owns, LP!OwnedBy, LP!Stop, LP!Idle
<1>8. Lifecycle!CompleteRaises(w) <=> LP!CompleteRaises(w)
  BY DEF Lifecycle!CompleteRaises, Lifecycle!Owns, Lifecycle!OwnedBy,
         Lifecycle!EndAccepted, Lifecycle!AppClock, Lifecycle!Begin, LP!CompleteRaises,
         LP!Owns, LP!OwnedBy, LP!EndAccepted, LP!AppClock, LP!Begin
<1>9. Lifecycle!MarkFailed(w) <=> LP!MarkFailed(w)
  BY DEF Lifecycle!MarkFailed, Lifecycle!AttemptsLeft, Lifecycle!Owns,
         Lifecycle!OwnedBy, Lifecycle!EndAccepted, Lifecycle!AppClock,
         Lifecycle!ReleaseRow, Lifecycle!Stop, Lifecycle!Idle, LP!MarkFailed,
         LP!AttemptsLeft, LP!Owns, LP!OwnedBy, LP!EndAccepted, LP!AppClock,
         LP!ReleaseRow, LP!Stop, LP!Idle
<1>10. Lifecycle!MarkFailedRaises(w) <=> LP!MarkFailedRaises(w)
  BY DEF Lifecycle!MarkFailedRaises, Lifecycle!AttemptsLeft, Lifecycle!Owns,
         Lifecycle!OwnedBy, Lifecycle!EndAccepted, Lifecycle!AppClock, Lifecycle!Stop,
         Lifecycle!Idle, LP!MarkFailedRaises, LP!AttemptsLeft, LP!Owns, LP!OwnedBy,
         LP!EndAccepted, LP!AppClock, LP!Stop, LP!Idle
<1>11. Lifecycle!ScheduleRetry(w) <=> LP!ScheduleRetry(w)
  BY DEF Lifecycle!ScheduleRetry, Lifecycle!AttemptsLeft, Lifecycle!Owns,
         Lifecycle!OwnedBy, Lifecycle!ReleaseRow, Lifecycle!Stop, Lifecycle!Idle,
         LP!ScheduleRetry, LP!AttemptsLeft, LP!Owns, LP!OwnedBy, LP!ReleaseRow, LP!Stop,
         LP!Idle
<1>12. Lifecycle!RetryRefused(w) <=> LP!RetryRefused(w)
  BY DEF Lifecycle!RetryRefused, Lifecycle!AttemptsLeft, Lifecycle!Owns,
         Lifecycle!OwnedBy, Lifecycle!Stop, Lifecycle!Idle, LP!RetryRefused,
         LP!AttemptsLeft, LP!Owns, LP!OwnedBy, LP!Stop, LP!Idle
<1>13. Lifecycle!OutcomeLost(w) <=> LP!OutcomeLost(w)
  BY DEF Lifecycle!OutcomeLost, Lifecycle!Owns, Lifecycle!OwnedBy, Lifecycle!Stop,
         Lifecycle!Idle, LP!OutcomeLost, LP!Owns, LP!OwnedBy, LP!Stop, LP!Idle
<1>14. Lifecycle!ReapExpired(w) <=> LP!ReapExpired(w)
  BY DEF Lifecycle!ReapExpired, Lifecycle!EndAccepted, Lifecycle!AppClock,
         LP!ReapExpired, LP!EndAccepted, LP!AppClock
<1>15. Lifecycle!Crash(w) <=> LP!Crash(w)
  BY DEF Lifecycle!Crash, Lifecycle!Fault, Lifecycle!Stop, Lifecycle!Idle, LP!Crash,
         LP!Fault, LP!Stop, LP!Idle
<1>16. Lifecycle!DatabaseError(w) <=> LP!DatabaseError(w)
  BY DEF Lifecycle!DatabaseError, Lifecycle!Fault, Lifecycle!Beating, Lifecycle!Begin,
         Lifecycle!Stop, Lifecycle!Idle, LP!DatabaseError, LP!Fault, LP!Beating,
         LP!Begin, LP!Stop, LP!Idle
<1>17. Lifecycle!AnswerLost(w) <=> LP!AnswerLost(w)
  BY DEF Lifecycle!AnswerLost, Lifecycle!Fault, Lifecycle!ClaimItem,
         Lifecycle!Claimable, Lifecycle!ClaimedRow, Lifecycle!CompleteItem,
         Lifecycle!Owns, Lifecycle!OwnedBy, Lifecycle!EndAccepted, Lifecycle!AppClock,
         Lifecycle!ReleaseRow, Lifecycle!Begin, Lifecycle!Stop, Lifecycle!Idle,
         LP!AnswerLost, LP!Fault, LP!ClaimItem, LP!Claimable, LP!ClaimedRow,
         LP!CompleteItem, LP!Owns, LP!OwnedBy, LP!EndAccepted, LP!AppClock,
         LP!ReleaseRow, LP!Begin, LP!Stop, LP!Idle
<1> QED
  BY <1>1, <1>2, <1>3, <1>4, <1>5, <1>6, <1>7, <1>8, <1>9, <1>10, <1>11, <1>12, <1>13,
     <1>14, <1>15, <1>16, <1>17

\* Steps of items.
LEMMA LifecycleItems ==
    ASSUME NEW i, NEW w
    PROVE  /\ Lifecycle!AddItem(i) <=> LP!AddItem(i)
           /\ Lifecycle!BeginClaim(w, i) <=> LP!BeginClaim(w, i)
BY DEF Lifecycle!AddItem, Lifecycle!BeginClaim, LP!AddItem, LP!BeginClaim

\* Time, and the first states.
LEMMA SameStartAndTime ==
    /\ Lifecycle!Init <=> LP!Init
    /\ Outbox!Init <=> OP!Init
    /\ Lifecycle!Tick <=> LP!Tick
    /\ Outbox!Tick <=> OP!Tick
BY DEF Lifecycle!Init, Lifecycle!Idle, Lifecycle!Tick, Outbox!Init, Outbox!Tick,
       LP!Init, LP!Idle, LP!Tick, OP!Init, OP!Tick

-----------------------------------------------------------------------------
(* A step of the system, by its parts.                                     *)

\* Steps of workers that leave outbox, broker and stranded items alone.
WorkerStep(w) ==
    \/ LP!ClaimRefused(w) \/ LP!RenewLease(w) \/ LP!LoseLease(w) \/ LP!FinishProcessing(w)
    \/ LP!Complete(w) \/ LP!CompleteLost(w) \/ LP!CompleteRaises(w)
    \/ LP!MarkFailed(w) \/ LP!MarkFailedRaises(w) \/ LP!RetryRefused(w) \/ LP!OutcomeLost(w)
    \/ LP!ReapExpired(w) \/ LP!AnswerLost(w)

PublisherStep(p) ==
    \/ OP!ClaimBatch(p) \/ OP!Dispatch(p) \/ OP!DispatchFails(p)
    \/ OP!MarkPublished(p) \/ OP!MarkFailed(p) \/ OP!Abandon(p)

\* Steps of one side, and of both together.
StepByParts ==
    \/ LP!Tick /\ OP!Tick /\ UNCHANGED stranded
    \/ \E i \in Items :
         /\ LP!AddItem(i) /\ OP!Enqueue(i)
         /\ UNCHANGED <<publishers, queue, failures, stranded>>
    \/ \E w \in Workers, i \in Items : LP!BeginClaim(w, i) /\ OP!Receive(i) /\ UNCHANGED stranded
    \/ \E w \in Workers :
         \/ LP!Claim(w) /\ stranded' = stranded \ {workers[w].item} /\ UNCHANGED outboxVars
         \/ WorkerStep(w) /\ UNCHANGED <<outboxVars, stranded>>
         \/ /\ LP!ScheduleRetry(w) /\ OP!Supersede(workers[w].item)
            /\ UNCHANGED <<publishers, queue, failures, stranded>>
         \/ LP!Crash(w) /\ OP!Return(workers[w].item) /\ UNCHANGED stranded
         \/ /\ LP!DatabaseError(w) /\ UNCHANGED outboxVars
            /\ stranded' = IF workers[w].step = "claiming" THEN stranded \cup {workers[w].item}
                                                           ELSE stranded
         \/ /\ workers[w].step # "idle" /\ OP!Return(workers[w].item)
            /\ UNCHANGED <<itemVars, stranded>>
    \/ \E p \in Publishers : PublisherStep(p) /\ UNCHANGED <<itemVars, stranded>>

\* Every step of the system is of these.
LEMMA NextByParts ==
    ASSUME Next
    PROVE  StepByParts
<1>1. CASE Tick
  BY <1>1, SameStartAndTime DEF Tick, StepByParts
<1>2. CASE \E i \in Items : AddItem(i)
  BY <1>2, LifecycleItems, OutboxStatements DEF AddItem, StepByParts
<1>3. CASE \E w \in Workers, i \in Items : Receive(w, i)
  BY <1>3, LifecycleItems, OutboxStatements DEF Receive, StepByParts
<1>4. ASSUME NEW w \in Workers, Claim(w)
      PROVE  StepByParts
  BY <1>4, LifecycleWorkers DEF Claim, StepByParts
<1>5. ASSUME NEW w \in Workers,
             Handle(w) \/ RetryRefused(w) \/ RenewLease(w) \/ ReapExpired(w) \/ AnswerLost(w)
      PROVE  StepByParts
  <2>1. WorkerStep(w) /\ UNCHANGED <<outboxVars, stranded>>
    BY <1>5, LifecycleWorkers
       DEF Handle, RetryRefused, RenewLease, ReapExpired, AnswerLost, WorkerStep
  <2> QED
    BY <2>1 DEF StepByParts
<1>6. ASSUME NEW w \in Workers, ScheduleRetry(w)
      PROVE  StepByParts
  BY <1>6, LifecycleWorkers, OutboxStatements DEF ScheduleRetry, StepByParts
<1>7. ASSUME NEW w \in Workers, Crash(w)
      PROVE  StepByParts
  BY <1>7, LifecycleWorkers, OutboxStatements DEF Crash, StepByParts
<1>8. ASSUME NEW w \in Workers, DatabaseError(w)
      PROVE  StepByParts
  BY <1>8, LifecycleWorkers DEF DatabaseError, StepByParts
<1>9. ASSUME NEW w \in Workers, Redeliver(w)
      PROVE  StepByParts
  BY <1>9, OutboxStatements DEF Redeliver, StepByParts
<1>10. ASSUME NEW p \in Publishers, Publish(p) \/ PublishFails(p)
       PROVE  StepByParts
  <2>1. PublisherStep(p) /\ UNCHANGED <<itemVars, stranded>>
    BY <1>10, OutboxPublishers DEF Publish, Outbox!Publish, Outbox!GoOn, PublishFails, PublisherStep
  <2> QED
    BY <2>1 DEF StepByParts
<1> QED
  BY <1>1, <1>2, <1>3, <1>4, <1>5, <1>6, <1>7, <1>8, <1>9, <1>10 DEF Next

\* What happens to the items is a step of the lifecycle.
LEMMA LifecycleStep ==
    ASSUME StepByParts
    PROVE  [LP!Next]_(LP!vars)
<1>1. CASE \E w \in Workers : WorkerStep(w)
  BY <1>1 DEF WorkerStep, LP!Next
<1>2. CASE UNCHANGED <<clock, itemVars>>
  BY <1>2 DEF LP!vars, itemVars
<1>3. CASE \E w \in Workers :
                LP!Claim(w) \/ LP!ScheduleRetry(w) \/ LP!Crash(w) \/ LP!DatabaseError(w)
  BY <1>3 DEF LP!Next
<1>4. CASE LP!Tick \/ (\E i \in Items : LP!AddItem(i))
              \/ \E w \in Workers, i \in Items : LP!BeginClaim(w, i)
  BY <1>4 DEF LP!Next
<1>5. ASSUME NEW w \in Workers, OP!Return(workers[w].item), UNCHANGED itemVars
      PROVE  UNCHANGED <<clock, itemVars>>
  BY <1>5 DEF OP!Return
<1>6. ASSUME NEW p \in Publishers, PublisherStep(p), UNCHANGED itemVars
      PROVE  UNCHANGED <<clock, itemVars>>
  BY <1>6 DEF PublisherStep, OP!ClaimBatch, OP!Dispatch, OP!DispatchFails, OP!MarkPublished,
              OP!MarkFailed, OP!Abandon
<1> QED
  BY <1>1, <1>2, <1>3, <1>4, <1>5, <1>6 DEF StepByParts

-----------------------------------------------------------------------------
(* The inductive invariant.                                                *)

\* What may still start item i, its outbox rows apart.
OnItsWay(i) ==
    \/ queue[i] > 0
    \/ \E w \in Workers : workers[w].step = "claiming" /\ workers[w].item = i
    \/ i \in stranded

\* Rows of the outbox are about items that were added.
RowsOfItems == \A j \in DOMAIN outbox : items[outbox[j].aggregate].status # "ABSENT"

\* A message comes from the outbox: one that waits, and one that a worker has.
MessagesWereSent ==
    /\ \A i \in Items : queue[i] > 0 => OP!Sent(i)
    /\ \A w \in Workers : workers[w].step # "idle" => OP!Sent(workers[w].item)

OneJob == \A i \in Items : \A j, k \in OP!Waiting(i) : j = k

WaitingHasWork ==
    \A i \in Items : items[i].status = "PENDING" => OP!Waiting(i) # {} \/ OnItsWay(i)

\* A claim that its row still knows, and that has been dispatched, ...
Standing(c) ==
    /\ c.dispatched
    /\ outbox[c.row].state = "waiting"
    /\ outbox[c.row].attempt = c.attempt
    /\ outbox[c.row].lease # 0

\* ... may be marked published at any time: by then other work has to be there.
DispatchedIsOnItsWay ==
    \A p \in Publishers : \A c \in OP!Claims(p) :
        Standing(c) /\ items[outbox[c.row].aggregate].status = "PENDING"
        => OnItsWay(outbox[c.row].aggregate)

SInv ==
    /\ LP!IInv
    /\ OP!OInv
    /\ stranded \in SUBSET Items
    /\ RowsOfItems
    /\ MessagesWereSent
    /\ OneJob
    /\ WaitingHasWork
    /\ DispatchedIsOnItsWay

\* What happens to outbox and broker is a step of the outbox.
LEMMA OutboxStep ==
    ASSUME SInv, StepByParts
    PROVE  [OP!Next]_(OP!vars)
<1>1. ASSUME NEW w \in Workers, workers[w].step # "idle"
      PROVE  workers[w].item \in Items /\ OP!Sent(workers[w].item)
  BY <1>1 DEF SInv, MessagesWereSent, LP!IInv, LP!TokensHandedOut
<1>2. CASE LP!Tick /\ OP!Tick
  BY <1>2 DEF OP!Next
<1>3. CASE \E i \in Items : /\ LP!AddItem(i) /\ OP!Enqueue(i)
                            /\ UNCHANGED <<publishers, queue, failures, stranded>>
  BY <1>3 DEF LP!AddItem, OP!AddRow, OP!Next
<1>4. CASE \E w \in Workers, i \in Items : LP!BeginClaim(w, i) /\ OP!Receive(i)
  BY <1>4 DEF OP!Next
<1>5. ASSUME NEW w \in Workers, LP!Claim(w) \/ WorkerStep(w) \/ LP!DatabaseError(w),
             UNCHANGED outboxVars
      PROVE  UNCHANGED OP!vars
  <2>1. UNCHANGED clock
    BY <1>5 DEF WorkerStep, LP!Claim, LP!ClaimRefused, LP!RenewLease, LP!LoseLease,
                LP!FinishProcessing, LP!Complete, LP!CompleteLost, LP!CompleteRaises,
                LP!MarkFailed, LP!MarkFailedRaises, LP!RetryRefused, LP!OutcomeLost,
                LP!ReapExpired, LP!DatabaseError, LP!AnswerLost
  <2> QED
    BY <1>5, <2>1 DEF outboxVars, OP!vars
<1>6. ASSUME NEW w \in Workers, LP!ScheduleRetry(w), OP!Supersede(workers[w].item),
             UNCHANGED <<publishers, queue, failures, stranded>>
      PROVE  OP!Next
  <2>1. workers[w].step # "idle" /\ UNCHANGED clock
    BY <1>6 DEF LP!ScheduleRetry
  <2>2. OP!RetryRow(workers[w].item)
    BY <1>1, <1>6, <2>1 DEF OP!RetryRow
  <2> QED
    BY <1>1, <2>1, <2>2 DEF OP!Next
<1>7. ASSUME NEW w \in Workers, LP!Crash(w) \/ workers[w].step # "idle", OP!Return(workers[w].item)
      PROVE  OP!Next
  BY <1>1, <1>7 DEF LP!Crash, OP!Next
<1>8. ASSUME NEW p \in Publishers, PublisherStep(p)
      PROVE  OP!Next
  BY <1>8 DEF PublisherStep, OP!Next
<1> QED
  BY <1>2, <1>3, <1>4, <1>5, <1>6, <1>7, <1>8 DEF StepByParts

\* The invariants of the parts hold on.
LEMMA PartsInvariant ==
    ASSUME SInv, StepByParts
    PROVE  LP!IInv' /\ OP!OInv'
<1>1. LP!IInv'
  <2>1. LP!IInv /\ [LP!Next]_(LP!vars)
    BY LifecycleStep DEF SInv
  <2>2. CASE LP!Next
    BY <2>1, <2>2, Assumptions, LP!Invariance
  <2>3. CASE UNCHANGED LP!vars
    BY <2>1, <2>3, Assumptions, LP!StutterInvariant
  <2> QED
    BY <2>1, <2>2, <2>3
<1>2. OP!OInv'
  BY OutboxStep, Assumptions, OP!NextInvariant DEF SInv
<1> QED
  BY <1>1, <1>2

-----------------------------------------------------------------------------
(* Steps that leave the rows of the outbox and the claims alone.           *)

\* The rows of the outbox are about items.
LEMMA RowsAboutItems ==
    ASSUME OP!OInv, NEW j \in DOMAIN outbox
    PROVE  outbox[j].aggregate \in Items
BY Assumptions, OP!RowsAreRows DEF OP!OInv, OP!JobRow

\* No item starts to wait, and what is on its way to a waiting item stays so.
LEMMA RowsAndClaimsStay ==
    ASSUME SInv, LP!IInv', OP!OInv', stranded' \in SUBSET Items, UNCHANGED <<outbox, publishers>>,
           \A i \in Items :
               /\ items[i].status # "ABSENT" => items'[i].status # "ABSENT"
               /\ items'[i].status = "PENDING" =>
                      items[i].status = "PENDING" /\ (OnItsWay(i) => OnItsWay(i)'),
           MessagesWereSent'
    PROVE  SInv'
<1>1. \A j \in DOMAIN outbox : outbox[j].aggregate \in Items
  BY RowsAboutItems DEF SInv
<1>2. RowsOfItems'
  BY <1>1 DEF SInv, RowsOfItems
<1>3. \A i \in Items : OP!Waiting(i)' = OP!Waiting(i)
  BY DEF OP!Waiting
<1>4. OneJob' /\ WaitingHasWork'
  BY <1>3 DEF SInv, OneJob, WaitingHasWork
<1>5. DispatchedIsOnItsWay'
  <2> SUFFICES ASSUME NEW p \in Publishers, NEW c \in OP!Claims(p), Standing(c),
                      items'[outbox[c.row].aggregate].status = "PENDING"
               PROVE  OnItsWay(outbox[c.row].aggregate)'
    BY DEF DispatchedIsOnItsWay, OP!Claims, OP!Elements, Standing
  <2>1. c.row \in DOMAIN outbox
    BY DEF SInv, OP!OInv, OP!ClaimsHandedOut
  <2> QED
    BY <1>1, <2>1 DEF SInv, DispatchedIsOnItsWay
<1> QED
  BY <1>2, <1>4, <1>5 DEF SInv

\* No worker takes up a message, and the broker's stay: a worker that was about to claim
\* a waiting item is so still, or the item is known as stranded.
LEMMA NoNewMessage ==
    ASSUME SInv, LP!IInv', OP!OInv', stranded' \in SUBSET Items,
           UNCHANGED <<outbox, publishers, queue>>,
           \A v \in Workers : workers'[v].step # "idle" =>
               workers[v].step # "idle" /\ workers'[v].item = workers[v].item,
           \A i \in Items :
               /\ items[i].status # "ABSENT" => items'[i].status # "ABSENT"
               /\ items'[i].status = "PENDING" => /\ items[i].status = "PENDING"
                                                  /\ i \in stranded => i \in stranded',
           \A v \in Workers :
               workers[v].step = "claiming" /\ items'[workers[v].item].status = "PENDING" =>
                   workers'[v] = workers[v] \/ workers[v].item \in stranded'
    PROVE  SInv'
<1>1. MessagesWereSent'
  BY DEF SInv, MessagesWereSent, OP!Sent
<1>2. \A i \in Items : items'[i].status = "PENDING" /\ OnItsWay(i) => OnItsWay(i)'
  BY DEF OnItsWay
<1> QED
  BY <1>1, <1>2, RowsAndClaimsStay

\* What a step of worker w does to the workers.
LEMMA WorkersEffect ==
    ASSUME SInv, NEW w \in Workers, WorkerStep(w) \/ LP!DatabaseError(w) \/ LP!Crash(w)
    PROVE  /\ \A v \in Workers \ {w} : workers'[v] = workers[v]
           /\ workers'[w].step # "idle" =>
                  workers[w].step # "idle" /\ workers'[w].item = workers[w].item
<1>1. \/ UNCHANGED workers
      \/ LP!RenewLease(w)
      \/ LP!Stop(w)
      \/ \E s \in LP!Steps : LP!Begin(w, s) /\ workers[w].step # "idle"
  <2>1. CASE LP!ClaimRefused(w) \/ LP!LoseLease(w) \/ LP!CompleteLost(w) \/ LP!MarkFailedRaises(w)
             \/ LP!RetryRefused(w) \/ LP!OutcomeLost(w) \/ LP!MarkFailed(w) \/ LP!Complete(w)
             \/ LP!Crash(w)
    BY <2>1 DEF LP!ClaimRefused, LP!LoseLease, LP!CompleteLost, LP!MarkFailedRaises,
                LP!RetryRefused, LP!OutcomeLost, LP!MarkFailed, LP!Complete, LP!Crash
  <2>2. CASE LP!RenewLease(w) \/ LP!ReapExpired(w)
    BY <2>2 DEF LP!ReapExpired
  <2>3. CASE LP!FinishProcessing(w) \/ LP!CompleteRaises(w)
                \/ LP!AnswerLost(w) \/ LP!DatabaseError(w)
    BY <2>3 DEF LP!FinishProcessing, LP!CompleteRaises, LP!AnswerLost, LP!DatabaseError,
                LP!CompleteItem, LP!Beating, LP!Steps
  <2> QED
    BY <2>1, <2>2, <2>3 DEF WorkerStep
<1>2. LP!TypeOK
  BY DEF SInv, LP!IInv
<1>3. CASE LP!Stop(w)
  BY <1>2, <1>3, Assumptions, LP!StopEffect DEF LP!Idle
<1>4. CASE \E s \in LP!Steps : LP!Begin(w, s) /\ workers[w].step # "idle"
  BY <1>2, <1>4, Assumptions, LP!BeginEffect
<1>5. CASE LP!RenewLease(w)
  <2>1. workers[w] \in LP!Worker
    BY <1>2 DEF LP!TypeOK
  <2>2. workers' = [workers EXCEPT ![w] = [workers[w] EXCEPT !.beat = clock]]
    BY <1>5, Zenon DEF LP!RenewLease
  <2>3. workers[w].step # "idle"
    BY <1>5 DEF LP!RenewLease, LP!Beating
  <2> QED
    BY <1>2, <2>1, <2>2, <2>3 DEF LP!TypeOK, LP!Worker
<1> QED
  BY <1>1, <1>3, <1>4, <1>5

\* What it does to the items: none starts to wait.
LEMMA ItemsEffect ==
    ASSUME SInv, NEW w \in Workers, WorkerStep(w) \/ LP!DatabaseError(w) \/ LP!Crash(w)
    PROVE  \A i \in Items :
               /\ items[i].status # "ABSENT" => items'[i].status # "ABSENT"
               /\ items'[i].status = "PENDING" => items[i].status = "PENDING"
<1>1. \/ UNCHANGED items
      \/ LP!RenewLease(w)
      \/ LP!ReapExpired(w)
      \/ LP!ClaimItem(w)
      \/ \E s \in {"COMPLETED", "FAILED"} : LP!ReleaseRow(workers[w].item, s)
                                            /\ workers[w].step # "idle"
  BY DEF WorkerStep, LP!ClaimRefused, LP!LoseLease, LP!CompleteLost, LP!MarkFailedRaises,
         LP!RetryRefused, LP!OutcomeLost, LP!Complete, LP!MarkFailed, LP!FinishProcessing,
         LP!CompleteRaises, LP!AnswerLost, LP!DatabaseError, LP!CompleteItem, LP!Crash
<1>2. LP!TypeOK /\ LP!TokensHandedOut
  BY DEF SInv, LP!IInv
<1>3. CASE LP!RenewLease(w)
  BY <1>2, <1>3 DEF LP!RenewLease, LP!TypeOK, LP!Row
<1>4. CASE LP!ReapExpired(w)
  BY <1>2, <1>4, Assumptions, LP!ReapExpiredEffect
<1>5. CASE LP!ClaimItem(w)
  BY <1>2, <1>5, Assumptions, LP!ClaimItemEffect
<1>6. ASSUME NEW s \in {"COMPLETED", "FAILED"}, LP!ReleaseRow(workers[w].item, s),
             workers[w].step # "idle"
      PROVE  \A i \in Items :
               /\ items[i].status # "ABSENT" => items'[i].status # "ABSENT"
               /\ items'[i].status = "PENDING" => items[i].status = "PENDING"
  <2>1. workers[w].item \in Items /\ s \in LP!Statuses
    BY <1>2, <1>6 DEF LP!TokensHandedOut, LP!Statuses
  <2> QED
    BY <1>2, <1>6, <2>1, Assumptions, LP!ReleaseRowEffect
<1> QED
  BY <1>1, <1>3, <1>4, <1>5, <1>6

\* A worker that was about to claim an item claims it, or is refused because the item
\* does not wait.
LEMMA ClaimingEnds ==
    ASSUME SInv, NEW w \in Workers, WorkerStep(w), workers[w].step = "claiming",
           items'[workers[w].item].status = "PENDING"
    PROVE  workers'[w] = workers[w]
<1>1. workers[w].item \in Items /\ LP!TypeOK /\ LP!TokensHandedOut /\ LP!PendingIsClaimable
  BY DEF SInv, LP!IInv, LP!TokensHandedOut
<1>2. \/ LP!ClaimRefused(w)
      \/ LP!RenewLease(w) \/ LP!ReapExpired(w)
      \/ LP!ClaimItem(w)
  BY DEF WorkerStep, LP!LoseLease, LP!FinishProcessing, LP!Complete, LP!CompleteItem,
         LP!CompleteLost, LP!CompleteRaises, LP!MarkFailed, LP!MarkFailedRaises,
         LP!RetryRefused, LP!OutcomeLost, LP!AnswerLost, LP!Beating
<1>3. CASE LP!ClaimRefused(w)
  BY <1>1, <1>3 DEF LP!ClaimRefused, LP!Claimable, LP!PendingIsClaimable
<1>4. CASE LP!RenewLease(w) \/ LP!ReapExpired(w)
  BY <1>4 DEF LP!RenewLease, LP!Beating, LP!ReapExpired
<1>5. CASE LP!ClaimItem(w)
  BY <1>1, <1>5, Assumptions, LP!ClaimItemEffect
<1> QED
  BY <1>2, <1>3, <1>4, <1>5

\* Workers that leave outbox and broker alone.
LEMMA WorkerKeepsWork ==
    ASSUME SInv, LP!IInv', OP!OInv', NEW w \in Workers, UNCHANGED outboxVars,
           \/ WorkerStep(w) /\ UNCHANGED stranded
           \/ /\ LP!DatabaseError(w)
              /\ stranded' = IF workers[w].step = "claiming" THEN stranded \cup {workers[w].item}
                                                             ELSE stranded
    PROVE  SInv'
<1>1. UNCHANGED <<outbox, publishers, queue>>
  BY DEF outboxVars
<1>2. stranded' \in SUBSET Items /\ stranded \subseteq stranded'
  BY DEF SInv, LP!IInv, LP!TokensHandedOut
<1>3. \A v \in Workers : workers'[v].step # "idle" =>
               workers[v].step # "idle" /\ workers'[v].item = workers[v].item
  BY WorkersEffect
<1>4. \A v \in Workers :
               workers[v].step = "claiming" /\ items'[workers[v].item].status = "PENDING" =>
                   workers'[v] = workers[v] \/ workers[v].item \in stranded'
  <2>1. \A v \in Workers \ {w} : workers'[v] = workers[v]
    BY WorkersEffect
  <2> QED
    BY <2>1, ClaimingEnds
<1> QED
  BY <1>1, <1>2, <1>3, <1>4, ItemsEffect, NoNewMessage

\* An answered claim: the item runs.
LEMMA ClaimKeepsWork ==
    ASSUME SInv, LP!IInv', OP!OInv', NEW w \in Workers, LP!Claim(w),
           stranded' = stranded \ {workers[w].item}, UNCHANGED outboxVars
    PROVE  SInv'
<1>1. LP!TypeOK /\ LP!TokensHandedOut
  BY DEF SInv, LP!IInv
<1>2. /\ LP!ClaimItem(w)
      /\ workers[w].step = "claiming"
      /\ workers' = [workers EXCEPT ![w] = [step |-> "processing", item |-> @.item,
                                            attempt |-> items[@.item].attempt + 1, tx |-> 0,
                                            beat |-> clock]]
  BY DEF LP!Claim, LP!ClaimItem
<1>3. /\ items[workers[w].item].status # "ABSENT"
      /\ items'[workers[w].item].status = "RUNNING"
      /\ \A j \in Items \ {workers[w].item} : items'[j] = items[j]
  BY <1>1, <1>2, Assumptions, LP!ClaimItemEffect
<1>4. /\ workers'[w].item = workers[w].item
      /\ \A v \in Workers \ {w} : workers'[v] = workers[v]
  BY <1>1, <1>2 DEF LP!TypeOK
<1> QED
  BY <1>2, <1>3, <1>4, NoNewMessage DEF SInv, outboxVars

\* Time passes.
LEMMA TickKeepsWork ==
    ASSUME SInv, LP!IInv', OP!OInv', LP!Tick, OP!Tick, UNCHANGED stranded
    PROVE  SInv'
BY NoNewMessage DEF SInv, LP!Tick, OP!Tick

\* A worker takes a message up: the broker has one less, and the worker goes to claim.
LEMMA ReceiveKeepsWork ==
    ASSUME SInv, LP!IInv', OP!OInv', NEW w \in Workers, NEW i \in Items,
           LP!BeginClaim(w, i), OP!Receive(i), UNCHANGED stranded
    PROVE  SInv'
<1>1. LP!TypeOK /\ OP!TypeOK
  BY DEF SInv, LP!IInv, OP!OInv
<1>2. /\ workers'[w].step = "claiming" /\ workers'[w].item = i /\ workers[w].step = "idle"
      /\ \A v \in Workers \ {w} : workers'[v] = workers[v]
  BY <1>1 DEF LP!BeginClaim, LP!TypeOK
<1>3. queue[i] > 0 /\ queue'[i] = queue[i] - 1 /\ \A j \in Items \ {i} : queue'[j] = queue[j]
  BY <1>1 DEF OP!Receive, OP!TypeOK
<1>4. MessagesWereSent'
  <2>1. OP!Sent(i)
    BY <1>3 DEF SInv, MessagesWereSent
  <2>2. \A j \in Items : queue'[j] > 0 => queue[j] > 0
    BY <1>1, <1>3 DEF OP!TypeOK
  <2>3. UNCHANGED outbox
    BY DEF OP!Receive
  <2> QED
    BY <1>2, <2>1, <2>2, <2>3 DEF SInv, MessagesWereSent, OP!Sent
<1>5. \A j \in Items : OnItsWay(j) => OnItsWay(j)'
  BY <1>2, <1>3 DEF OnItsWay
<1> QED
  BY <1>4, <1>5, RowsAndClaimsStay DEF SInv, LP!BeginClaim, OP!Receive

\* The message of a dead worker, or one that took too long, waits again.
LEMMA ReturnKeepsWork ==
    ASSUME SInv, LP!IInv', OP!OInv', NEW w \in Workers, workers[w].step # "idle",
           OP!Return(workers[w].item), UNCHANGED stranded,
           LP!Crash(w) \/ UNCHANGED itemVars
    PROVE  SInv'
<1> DEFINE i == workers[w].item
<1>1. i \in Items /\ OP!TypeOK
  BY DEF SInv, LP!IInv, LP!TokensHandedOut, OP!OInv
<1>2. OP!Sent(i) /\ queue'[i] = queue[i] + 1 /\ \A j \in Items \ {i} : queue'[j] = queue[j]
  BY <1>1 DEF OP!Return, OP!TypeOK
<1>3. queue[i] \in Nat /\ queue'[i] > 0
  BY <1>1, <1>2 DEF OP!TypeOK
<1>4. /\ \A v \in Workers \ {w} : workers'[v] = workers[v]
      /\ workers'[w].step # "idle" => workers'[w].item = i
      /\ UNCHANGED items
  BY WorkersEffect DEF itemVars, LP!Crash
<1>5. MessagesWereSent'
  BY <1>2, <1>4 DEF SInv, MessagesWereSent, OP!Sent, OP!Return
<1>6. \A j \in Items : OnItsWay(j) => OnItsWay(j)'
  BY <1>2, <1>3, <1>4 DEF OnItsWay
<1> QED
  BY <1>4, <1>5, <1>6, RowsAndClaimsStay DEF SInv, OP!Return

-----------------------------------------------------------------------------
(* Steps that make an item wait, and write its job.                        *)

\* Item i starts to wait with a new row, and none of its older rows waits.
LEMMA JobAdded ==
    ASSUME SInv, LP!IInv', OP!OInv', UNCHANGED <<publishers, queue, stranded>>,
           NEW i \in Items, items'[i].status = "PENDING",
           \A j \in Items \ {i} : items'[j] = items[j],
           NEW n, n \notin DOMAIN outbox, DOMAIN outbox' = DOMAIN outbox \cup {n},
           outbox'[n] = OP!NewRow(i),
           \A j \in DOMAIN outbox :
               /\ outbox'[j].aggregate = outbox[j].aggregate
               /\ outbox'[j].sent = outbox[j].sent
               /\ IF outbox[j].aggregate = i THEN outbox'[j].state # "waiting"
                                             ELSE outbox'[j] = outbox[j],
           \A v \in Workers :
               /\ workers'[v].step # "idle" =>
                      workers[v].step # "idle" /\ workers'[v].item = workers[v].item
               /\ workers[v].step = "claiming" => workers'[v] = workers[v]
    PROVE  SInv'
<1>1. \A j \in DOMAIN outbox : outbox[j].aggregate \in Items
  BY RowsAboutItems DEF SInv
<1>2. outbox'[n].aggregate = i /\ outbox'[n].state = "waiting"
  BY DEF OP!NewRow
<1>3. RowsOfItems'
  BY <1>1, <1>2 DEF SInv, RowsOfItems
<1>4. MessagesWereSent'
  <2>1. \A a : OP!Sent(a) => OP!Sent(a)'
    BY DEF OP!Sent
  <2> QED
    BY <2>1 DEF SInv, MessagesWereSent
<1>5. OP!Waiting(i)' = {n}
  BY <1>2 DEF OP!Waiting
<1>6. \A a \in Items \ {i} : OP!Waiting(a)' = OP!Waiting(a)
  BY <1>1, <1>2 DEF OP!Waiting
<1>7. \A a \in Items : OnItsWay(a) => OnItsWay(a)'
  BY DEF OnItsWay
<1>8. OneJob'
  BY <1>5, <1>6 DEF SInv, OneJob
<1>9. WaitingHasWork'
  BY <1>5, <1>6, <1>7 DEF SInv, WaitingHasWork
<1>10. DispatchedIsOnItsWay'
  <2> SUFFICES ASSUME NEW p \in Publishers, NEW c \in OP!Claims(p), Standing(c)',
                      items'[outbox'[c.row].aggregate].status = "PENDING"
               PROVE  OnItsWay(outbox[c.row].aggregate)'
    BY DEF DispatchedIsOnItsWay, OP!Claims, OP!Elements
  <2>1. c.row \in DOMAIN outbox
    BY DEF SInv, OP!OInv, OP!ClaimsHandedOut
  <2>2. outbox[c.row].aggregate # i /\ outbox'[c.row] = outbox[c.row]
    BY <2>1 DEF Standing
  <2>3. Standing(c) /\ items[outbox[c.row].aggregate].status = "PENDING"
    BY <1>1, <2>1, <2>2 DEF Standing
  <2> QED
    BY <1>1, <1>7, <2>1, <2>2, <2>3 DEF SInv, DispatchedIsOnItsWay
<1> QED
  BY <1>3, <1>4, <1>8, <1>9, <1>10 DEF SInv

\* A row written behind the others.
LEMMA RowAppended ==
    ASSUME NEW S, NEW m \in Nat, NEW O \in [1..m -> S], NEW r, outbox' = Append(O, r)
    PROVE  /\ DOMAIN outbox' = (1..m) \cup {m + 1} /\ m + 1 \notin 1..m
           /\ outbox'[m + 1] = r /\ \A j \in 1..m : outbox'[j] = O[j]
<1>1. O \in Seq(S) /\ Len(O) = m
  BY Assumptions, OP!FunctionIsSequence
<1> QED
  BY <1>1

\* add_item writes the item and its job; there were no jobs of it.
LEMMA AddItemKeepsWork ==
    ASSUME SInv, LP!IInv', OP!OInv', NEW i \in Items, LP!AddItem(i), OP!Enqueue(i),
           UNCHANGED <<publishers, queue, failures, stranded>>
    PROVE  SInv'
<1>1. LP!TypeOK /\ OP!TypeOK
  BY DEF SInv, LP!IInv, OP!OInv
<1>2. items'[i].status = "PENDING" /\ \A j \in Items \ {i} : items'[j] = items[j]
  BY <1>1 DEF LP!AddItem, LP!TypeOK, LP!Row
<1>3. \A j \in DOMAIN outbox : outbox[j].aggregate # i
  BY DEF SInv, RowsOfItems, LP!AddItem
<1> DEFINE m == Len(outbox)
<1>4. m \in Nat /\ DOMAIN outbox = 1..m /\ outbox \in [1..m -> OP!JobRow]
  BY <1>1, Assumptions, OP!RowsAreRows
<1> HIDE DEF m
<1>5. /\ DOMAIN outbox' = DOMAIN outbox \cup {m + 1} /\ m + 1 \notin DOMAIN outbox
      /\ outbox'[m + 1] = OP!NewRow(i)
      /\ \A j \in DOMAIN outbox : outbox'[j] = outbox[j]
  BY <1>4, RowAppended DEF OP!Enqueue
<1>6. UNCHANGED workers
  BY DEF LP!AddItem
<1> QED
  BY <1>2, <1>3, <1>5, <1>6, JobAdded

\* schedule_retry releases the item, fails the rows of it that wait, and writes its job.
LEMMA ScheduleRetryKeepsWork ==
    ASSUME SInv, LP!IInv', OP!OInv', NEW w \in Workers, LP!ScheduleRetry(w),
           OP!Supersede(workers[w].item), UNCHANGED <<publishers, queue, failures, stranded>>
    PROVE  SInv'
<1> DEFINE i == workers[w].item
           m == Len(outbox)
           O == [j \in DOMAIN outbox |-> IF j \in OP!Waiting(i)
                                         THEN [outbox[j] EXCEPT !.state = "failed"]
                                         ELSE outbox[j]]
<1>1. LP!TypeOK /\ OP!TypeOK
  BY DEF SInv, LP!IInv, OP!OInv
<1>2. workers[w].step = "retrying" /\ LP!ReleaseRow(i, "PENDING") /\ LP!Stop(w)
  BY DEF LP!ScheduleRetry
<1>3. i \in Items
  BY <1>2 DEF SInv, LP!IInv, LP!TokensHandedOut
<1>4. items'[i].status = "PENDING" /\ \A j \in Items \ {i} : items'[j] = items[j]
  BY <1>1, <1>2, <1>3, Assumptions, LP!ReleaseRowEffect DEF LP!Statuses
<1>5. workers'[w].step = "idle" /\ \A v \in Workers \ {w} : workers'[v] = workers[v]
  BY <1>1, <1>2, Assumptions, LP!StopEffect DEF LP!Idle
<1>6. m \in Nat /\ DOMAIN outbox = 1..m /\ outbox \in [1..m -> OP!JobRow]
  BY <1>1, Assumptions, OP!RowsAreRows
<1> HIDE DEF m, i
<1>7. outbox' = Append(O, OP!NewRow(i))
  BY DEF OP!Supersede, i
<1>8. \A j \in DOMAIN outbox :
          /\ O[j].aggregate = outbox[j].aggregate /\ O[j].sent = outbox[j].sent
          /\ IF outbox[j].aggregate = i THEN O[j].state # "waiting" ELSE O[j] = outbox[j]
  BY <1>6 DEF OP!Waiting, OP!JobRow
<1>9. O \in [1..m -> {O[j] : j \in 1..m}]
  BY <1>6
<1> HIDE DEF O
<1>10. /\ DOMAIN outbox' = DOMAIN outbox \cup {m + 1} /\ m + 1 \notin DOMAIN outbox
       /\ outbox'[m + 1] = OP!NewRow(i)
       /\ \A j \in DOMAIN outbox : outbox'[j] = O[j]
  BY <1>6, <1>7, <1>9, RowAppended
<1> QED
  BY <1>2, <1>3, <1>4, <1>5, <1>8, <1>10, JobAdded

-----------------------------------------------------------------------------
(* Steps of publishers.                                                    *)

\* No row starts to wait, and one ceases to when its item is on its way.
RowsKeepWork ==
    /\ DOMAIN outbox' = DOMAIN outbox
    /\ \A j \in DOMAIN outbox :
         /\ outbox'[j].aggregate = outbox[j].aggregate
         /\ outbox[j].sent > 0 => outbox'[j].sent > 0
         /\ outbox'[j].state = "waiting" => outbox[j].state = "waiting"
         /\ outbox[j].state = "waiting" /\ outbox'[j].state # "waiting"
            /\ items[outbox[j].aggregate].status = "PENDING"
            => OnItsWay(outbox[j].aggregate)'

\* A claim that stands stood before, or its item is on its way.
ClaimsKeepWork ==
    \A p \in Publishers : \A c \in OP!Claims(p)' :
        Standing(c)' => \/ c \in OP!Claims(p) /\ Standing(c)
                        \/ OnItsWay(outbox[c.row].aggregate)'

\* The messages that are added were sent.
MessagesAdded == \A i \in Items : queue'[i] = queue[i] \/ (queue'[i] > 0 /\ OP!Sent(i)')

\* Such steps keep the work of every item that waits.
LEMMA PublisherKeepsWork ==
    ASSUME SInv, LP!IInv', OP!OInv', UNCHANGED <<items, workers, stranded>>,
           RowsKeepWork, ClaimsKeepWork, MessagesAdded
    PROVE  SInv'
<1>1. \A j \in DOMAIN outbox : outbox[j].aggregate \in Items
  BY RowsAboutItems DEF SInv
<1>2. RowsOfItems'
  BY DEF SInv, RowsOfItems, RowsKeepWork
<1>3. MessagesWereSent'
  <2>1. \A a : OP!Sent(a) => OP!Sent(a)'
    BY DEF OP!Sent, RowsKeepWork
  <2> QED
    BY <2>1 DEF SInv, MessagesWereSent, MessagesAdded
<1>4. \A i \in Items : OnItsWay(i) => OnItsWay(i)'
  BY DEF OnItsWay, MessagesAdded
<1>5. \A i \in Items : OP!Waiting(i)' \subseteq OP!Waiting(i)
  BY DEF OP!Waiting, RowsKeepWork
<1>6. OneJob'
  BY <1>5 DEF SInv, OneJob
<1>7. WaitingHasWork'
  <2> SUFFICES ASSUME NEW i \in Items, items[i].status = "PENDING", ~ OnItsWay(i)'
               PROVE  OP!Waiting(i)' # {}
    BY DEF WaitingHasWork
  <2>1. PICK j \in OP!Waiting(i) : TRUE
    BY <1>4 DEF SInv, WaitingHasWork
  <2>2. j \in DOMAIN outbox /\ outbox[j].aggregate = i /\ outbox[j].state = "waiting"
    BY DEF OP!Waiting, RowsKeepWork
  <2>3. outbox'[j].aggregate = i /\ outbox'[j].state = "waiting"
    BY <2>2 DEF RowsKeepWork
  <2>4. j \in OP!Waiting(i)'
    BY <2>2, <2>3 DEF OP!Waiting, RowsKeepWork
  <2> QED
    BY <2>4
<1>8. DispatchedIsOnItsWay'
  <2> SUFFICES ASSUME NEW p \in Publishers, NEW c \in OP!Claims(p)', Standing(c)',
                      items[outbox'[c.row].aggregate].status = "PENDING"
               PROVE  OnItsWay(outbox[c.row].aggregate)'
    BY DEF DispatchedIsOnItsWay
  <2>1. CASE c \in OP!Claims(p) /\ Standing(c)
    <3>1. c.row \in DOMAIN outbox
      BY <2>1 DEF SInv, OP!OInv, OP!ClaimsHandedOut
    <3>2. OnItsWay(outbox[c.row].aggregate) /\ outbox[c.row].aggregate \in Items
          /\ outbox'[c.row].aggregate = outbox[c.row].aggregate
      BY <1>1, <2>1, <3>1 DEF SInv, DispatchedIsOnItsWay, RowsKeepWork
    <3> QED
      BY <1>4, <3>2
  <2> QED
    BY <2>1 DEF ClaimsKeepWork
<1> QED
  BY <1>2, <1>3, <1>6, <1>7, <1>8 DEF SInv

\* A claim gives its rows a number that no claim has.
LEMMA ClaimBatchKeepsWork ==
    ASSUME SInv, LP!IInv', OP!OInv', NEW p \in Publishers, OP!ClaimBatch(p),
           UNCHANGED <<itemVars, stranded>>
    PROVE  SInv'
<1>1. OP!TypeOK
  BY DEF SInv, OP!OInv
<1>2. /\ DOMAIN outbox' = DOMAIN outbox
      /\ \A j \in DOMAIN outbox :
           \/ outbox'[j] = outbox[j]
           \/ outbox'[j] = OP!ClaimedRow(outbox[j])
  BY DEF OP!ClaimBatch
<1>3. \A j \in DOMAIN outbox : outbox[j] \in OP!JobRow /\ outbox[j].attempt \in Nat
  BY <1>1, Assumptions, OP!RowsAreRows
<1>4. \A j \in DOMAIN outbox :
        /\ outbox'[j].aggregate = outbox[j].aggregate /\ outbox'[j].sent = outbox[j].sent
        /\ outbox'[j].state = outbox[j].state
        /\ outbox'[j] = outbox[j] \/ outbox'[j].attempt = outbox[j].attempt + 1
  <2>1. \A r \in OP!JobRow :
          /\ OP!ClaimedRow(r).aggregate = r.aggregate /\ OP!ClaimedRow(r).sent = r.sent
          /\ OP!ClaimedRow(r).state = r.state /\ OP!ClaimedRow(r).attempt = r.attempt + 1
    BY DEF OP!ClaimedRow, OP!JobRow
  <2> QED
    BY <1>2, <1>3, <2>1
<1>5. ASSUME NEW q \in Publishers, NEW c \in OP!Claims(q)', Standing(c)'
      PROVE  c \in OP!Claims(q) /\ Standing(c)
  <2>1. c \in OP!Claims(q)
    <3>1. PICK f : publishers' = [publishers EXCEPT ![p] = f]
                   /\ \A k \in DOMAIN f : f[k].dispatched = FALSE
      BY ZenonT(30) DEF OP!ClaimBatch
    <3>2. publishers'[p] = f /\ \A r \in Publishers \ {p} : publishers'[r] = publishers[r]
      BY <1>1, <3>1 DEF OP!TypeOK
    <3>3. q # p
      BY <1>5, <3>1, <3>2 DEF OP!Claims, OP!Elements, Standing
    <3> QED
      BY <3>2, <3>3 DEF OP!Claims, OP!Elements
  <2>2. c.row \in DOMAIN outbox /\ c.attempt \in 1..outbox[c.row].attempt
    BY <2>1 DEF SInv, OP!OInv, OP!ClaimsHandedOut
  <2>3. outbox'[c.row] = outbox[c.row]
    BY <1>3, <1>4, <1>5, <2>2 DEF Standing
  <2> QED
    BY <1>5, <2>1, <2>3 DEF Standing
<1>6. UNCHANGED <<items, workers, stranded, queue>>
  BY DEF OP!ClaimBatch, itemVars
<1>7. RowsKeepWork
  BY <1>2, <1>4 DEF RowsKeepWork
<1>8. ClaimsKeepWork
  BY <1>5 DEF ClaimsKeepWork
<1>9. MessagesAdded
  BY <1>6 DEF MessagesAdded
<1> QED
  BY <1>6, <1>7, <1>8, <1>9, PublisherKeepsWork

\* A message goes out: its item is on its way.
LEMMA DispatchKeepsWork ==
    ASSUME SInv, LP!IInv', OP!OInv', NEW p \in Publishers, OP!Dispatch(p),
           UNCHANGED <<itemVars, stranded>>
    PROVE  SInv'
<1> DEFINE r == OP!Job(p).row
           a == outbox[r].aggregate
<1>1. OP!OInv /\ OP!TypeOK
  BY DEF SInv, OP!OInv
<1>2. /\ r \in DOMAIN outbox
      /\ outbox' \in Seq(OP!JobRow) /\ Len(outbox') = Len(outbox)
      /\ \A j \in DOMAIN outbox : outbox'[j] = IF j = r THEN OP!SentOnce(outbox[j]) ELSE outbox[j]
      /\ \A q \in Publishers \ {p} : publishers'[q] = publishers[q]
      /\ \A c \in OP!Elements(publishers'[p]) : c \in OP!Claims(p) \/ c.row = r
  BY <1>1, Assumptions, OP!DispatchEffect
<1>3. DOMAIN outbox' = DOMAIN outbox
  BY <1>1, <1>2 DEF OP!TypeOK
<1>4. \A j \in DOMAIN outbox :
        /\ outbox'[j].aggregate = outbox[j].aggregate /\ outbox'[j].state = outbox[j].state
        /\ outbox'[j].attempt = outbox[j].attempt /\ outbox'[j].lease = outbox[j].lease
        /\ outbox[j].sent > 0 => outbox'[j].sent > 0
        /\ j = r => outbox'[j].sent > 0
  <2>1. \A j \in DOMAIN outbox : outbox[j] \in OP!JobRow
    BY <1>1, Assumptions, OP!RowsAreRows
  <2>2. \A j \in OP!JobRow : /\ OP!SentOnce(j).aggregate = j.aggregate /\ OP!SentOnce(j).state = j.state
                             /\ OP!SentOnce(j).attempt = j.attempt /\ OP!SentOnce(j).lease = j.lease
                             /\ OP!SentOnce(j).sent > 0
    BY DEF OP!SentOnce, OP!JobRow
  <2> QED
    BY <1>2, <2>1, <2>2
<1>5. a \in Items
  BY <1>1, <1>2, RowsAboutItems
<1>6. queue'[a] = queue[a] + 1 /\ \A i \in Items \ {a} : queue'[i] = queue[i]
  BY <1>1, <1>5 DEF OP!Dispatch, OP!TypeOK
<1>7. queue'[a] > 0
  BY <1>1, <1>5, <1>6 DEF OP!TypeOK
<1>8. RowsKeepWork
  BY <1>3, <1>4 DEF RowsKeepWork
<1>9. ClaimsKeepWork
  <2> SUFFICES ASSUME NEW q \in Publishers, NEW c \in OP!Claims(q)', Standing(c)', c.row # r
               PROVE  c \in OP!Claims(q) /\ Standing(c)
    BY <1>2, <1>4, <1>7 DEF ClaimsKeepWork, OnItsWay
  <2>1. c \in OP!Claims(q)
    BY <1>2 DEF OP!Claims
  <2>2. c.row \in DOMAIN outbox
    BY <1>1, <2>1 DEF OP!OInv, OP!ClaimsHandedOut
  <2> QED
    BY <1>4, <2>1, <2>2 DEF Standing
<1>10. MessagesAdded
  <2> SUFFICES ASSUME NEW i \in Items, queue'[i] # queue[i]
               PROVE  queue'[i] > 0 /\ OP!Sent(i)'
    BY DEF MessagesAdded
  <2>1. i = a
    BY <1>6
  <2>2. r \in DOMAIN outbox' /\ outbox'[r].aggregate = i /\ outbox'[r].sent > 0
    BY <1>2, <1>3, <1>4, <2>1
  <2> QED
    BY <1>7, <2>1, <2>2 DEF OP!Sent
<1>11. UNCHANGED <<items, workers, stranded>>
  BY DEF itemVars
<1> QED
  BY <1>8, <1>9, <1>10, <1>11, PublisherKeepsWork

\* The first job of p is settled: as published only if it was dispatched.
Settles(p, state) ==
    /\ OP!Busy(p) /\ OP!Done(p)
    /\ state = "waiting" \/ (state = "published" /\ OP!Job(p).dispatched)
    /\ DOMAIN outbox' = DOMAIN outbox
    /\ \A j \in DOMAIN outbox :
         /\ outbox'[j].aggregate = outbox[j].aggregate
         /\ outbox'[j].attempt = outbox[j].attempt
         /\ outbox[j].sent > 0 => outbox'[j].sent > 0
         /\ \/ outbox'[j].state = outbox[j].state /\ outbox'[j].lease = outbox[j].lease
            \/ /\ j = OP!Job(p).row /\ OP!OwnedBy(j, OP!Job(p).attempt)
               /\ outbox'[j].state = state

\* A row that ceases to wait was dispatched by a claim that stood.
LEMMA SettlingKeepsWork ==
    ASSUME SInv, LP!IInv', OP!OInv', UNCHANGED <<items, workers, stranded>>,
           NEW p \in Publishers, NEW state, Settles(p, state), MessagesAdded
    PROVE  SInv'
<1> DEFINE r == OP!Job(p).row
<1>1. OP!OInv /\ OP!TypeOK /\ clock \in Nat /\ clock > 0
  BY DEF SInv, OP!OInv, OP!TypeOK
<1>2. OP!Busy(p) /\ OP!Done(p)
  BY DEF Settles
<1>3. OP!Job(p) \in OP!Claims(p) /\ r \in DOMAIN outbox
  BY <1>1, <1>2, Assumptions, OP!FirstJob
<1>4. \A q \in Publishers : OP!Claims(q)' \subseteq OP!Claims(q)
  <2>1. OP!ClaimsLeft
    BY <1>1, <1>2, Assumptions, OP!DoneEffect
  <2> QED
    BY <2>1 DEF OP!ClaimsLeft, OP!Claims
<1>5. \A j \in DOMAIN outbox : OP!OwnedBy(j, OP!Job(p).attempt) => outbox[j].lease # 0
  BY <1>1 DEF OP!OwnedBy
<1>6. ClaimsKeepWork
  <2> SUFFICES ASSUME NEW q \in Publishers, NEW c \in OP!Claims(q)', Standing(c)'
               PROVE  c \in OP!Claims(q) /\ Standing(c)
    BY DEF ClaimsKeepWork
  <2>1. c \in OP!Claims(q)
    BY <1>4
  <2>2. c.row \in DOMAIN outbox
    BY <1>1, <2>1 DEF OP!OInv, OP!ClaimsHandedOut
  <2>3. Standing(c)
    BY <1>5, <2>2 DEF Settles, Standing, OP!OwnedBy
  <2> QED
    BY <2>1, <2>3
<1>7. RowsKeepWork
  <2>1. ASSUME NEW j \in DOMAIN outbox, outbox[j].state = "waiting", outbox'[j].state # "waiting",
               items[outbox[j].aggregate].status = "PENDING"
        PROVE  OnItsWay(outbox[j].aggregate)'
    <3>1. /\ j = r /\ OP!OwnedBy(j, OP!Job(p).attempt) /\ OP!Job(p).dispatched
          /\ outbox'[j].aggregate = outbox[j].aggregate
      BY <2>1 DEF Settles
    <3>2. Standing(OP!Job(p))
      BY <1>5, <3>1 DEF Standing, OP!OwnedBy
    <3>3. OnItsWay(outbox[j].aggregate)
      BY <1>3, <2>1, <3>1, <3>2 DEF SInv, DispatchedIsOnItsWay
    <3>4. outbox[j].aggregate \in Items
      BY <1>1, RowsAboutItems
    <3>5. \A i \in Items : OnItsWay(i) => OnItsWay(i)'
      BY DEF OnItsWay, MessagesAdded
    <3> QED
      BY <3>1, <3>3, <3>4, <3>5
  <2>2. \A j \in DOMAIN outbox : outbox'[j].state = "waiting" => outbox[j].state = "waiting"
    BY DEF Settles, OP!OwnedBy
  <2> QED
    BY <2>1, <2>2 DEF Settles, RowsKeepWork
<1> QED
  BY <1>6, <1>7, PublisherKeepsWork

\* A job is marked published.
LEMMA MarkPublishedKeepsWork ==
    ASSUME SInv, LP!IInv', OP!OInv', NEW p \in Publishers, OP!MarkPublished(p),
           UNCHANGED <<itemVars, stranded>>
    PROVE  SInv'
<1>1. OP!Busy(p) /\ OP!Job(p).dispatched /\ OP!Done(p) /\ outbox' = OP!Settled(p, "published")
  BY DEF OP!MarkPublished, OP!Settle
<1>2. /\ DOMAIN outbox' = DOMAIN outbox
      /\ \A j \in DOMAIN outbox :
           /\ outbox'[j].aggregate = outbox[j].aggregate /\ outbox'[j].attempt = outbox[j].attempt
           /\ outbox'[j].sent = outbox[j].sent
           /\ \/ outbox'[j] = outbox[j]
              \/ /\ j = OP!Job(p).row /\ OP!OwnedBy(j, OP!Job(p).attempt)
                 /\ outbox'[j].state = "published"
  BY <1>1, Assumptions, OP!SettledRows DEF SInv, OP!RowStates
<1>3. Settles(p, "published")
  BY <1>1, <1>2 DEF Settles
<1>4. MessagesAdded /\ UNCHANGED <<items, workers, stranded>>
  BY DEF OP!MarkPublished, MessagesAdded, itemVars
<1> QED
  BY <1>3, <1>4, SettlingKeepsWork

\* A batch is given up.
LEMMA AbandonKeepsWork ==
    ASSUME SInv, LP!IInv', OP!OInv', NEW p \in Publishers, OP!Abandon(p),
           UNCHANGED <<itemVars, stranded>>
    PROVE  SInv'
<1>1. UNCHANGED <<items, workers, stranded, queue, outbox>>
  BY DEF OP!Abandon, itemVars
<1>2. \A q \in Publishers : OP!Claims(q)' \subseteq OP!Claims(q)
  <2>1. publishers'[p] = <<>> /\ \A q \in Publishers \ {p} : publishers'[q] = publishers[q]
    BY DEF OP!Abandon, SInv, OP!OInv, OP!TypeOK
  <2> QED
    BY <2>1 DEF OP!Claims, OP!Elements
<1>3. RowsKeepWork
  BY <1>1 DEF RowsKeepWork
<1>4. ClaimsKeepWork
  BY <1>1, <1>2 DEF ClaimsKeepWork, Standing
<1>5. MessagesAdded
  BY <1>1 DEF MessagesAdded
<1> QED
  BY <1>1, <1>3, <1>4, <1>5, PublisherKeepsWork

\* Dispatching raises: the job waits on, and its message may have gone out.
LEMMA DispatchFailsKeepsWork ==
    ASSUME SInv, LP!IInv', OP!OInv', NEW p \in Publishers, OP!DispatchFails(p),
           UNCHANGED <<itemVars, stranded>>
    PROVE  SInv'
<1> DEFINE r == OP!Job(p).row
           O == OP!Settled(p, "waiting")
<1>1. OP!OInv /\ OP!TypeOK
  BY DEF SInv, OP!OInv
<1>2. /\ OP!Busy(p) /\ OP!Done(p)
      /\ \/ outbox' = O /\ UNCHANGED queue
         \/ /\ outbox' = [O EXCEPT ![r].sent = @ + 1]
            /\ queue' = [queue EXCEPT ![outbox[r].aggregate] = @ + 1]
  BY DEF OP!DispatchFails
<1>3. r \in DOMAIN outbox
  BY <1>1, <1>2, Assumptions, OP!FirstJob
<1>4. /\ O \in Seq(OP!JobRow) /\ DOMAIN O = DOMAIN outbox
      /\ \A j \in DOMAIN outbox :
           /\ O[j].aggregate = outbox[j].aggregate /\ O[j].attempt = outbox[j].attempt
           /\ O[j].sent = outbox[j].sent
           /\ \/ O[j] = outbox[j]
              \/ j = r /\ OP!OwnedBy(j, OP!Job(p).attempt) /\ O[j].state = "waiting"
  BY <1>1, <1>2, Assumptions, OP!SettledRows DEF OP!RowStates
<1> HIDE DEF O
<1>5. UNCHANGED <<items, workers, stranded>>
  BY DEF itemVars
<1>6. CASE outbox' = O /\ UNCHANGED queue
  <2>1. Settles(p, "waiting")
    BY <1>2, <1>4, <1>6 DEF Settles
  <2>2. MessagesAdded
    BY <1>6 DEF MessagesAdded
  <2> QED
    BY <1>5, <2>1, <2>2, SettlingKeepsWork
<1>7. CASE /\ outbox' = [O EXCEPT ![r].sent = @ + 1]
           /\ queue' = [queue EXCEPT ![outbox[r].aggregate] = @ + 1]
  <2>1. \A j \in DOMAIN O : O[j] \in OP!JobRow
    BY <1>4
  <2>2. /\ DOMAIN outbox' = DOMAIN outbox
        /\ outbox'[r] = OP!SentOnce(O[r])
        /\ \A j \in DOMAIN outbox \ {r} : outbox'[j] = O[j]
    <3>1. DOMAIN outbox' = DOMAIN O /\ outbox'[r] = [O[r] EXCEPT !.sent = @ + 1]
          /\ \A j \in DOMAIN O \ {r} : outbox'[j] = O[j]
      BY <1>3, <1>4, <1>7
    <3> QED
      BY <1>4, <3>1 DEF OP!SentOnce
  <2>3. \A j \in OP!JobRow : /\ OP!SentOnce(j).aggregate = j.aggregate /\ OP!SentOnce(j).state = j.state
                             /\ OP!SentOnce(j).attempt = j.attempt /\ OP!SentOnce(j).lease = j.lease
                             /\ OP!SentOnce(j).sent > 0
    BY DEF OP!SentOnce, OP!JobRow
  <2>4. \A j \in DOMAIN outbox :
          /\ outbox'[j].aggregate = O[j].aggregate /\ outbox'[j].state = O[j].state
          /\ outbox'[j].attempt = O[j].attempt /\ outbox'[j].lease = O[j].lease
          /\ O[j].sent > 0 => outbox'[j].sent > 0
          /\ j = r => outbox'[j].sent > 0
    BY <1>4, <2>1, <2>2, <2>3
  <2>5. Settles(p, "waiting")
    BY <1>2, <1>4, <2>2, <2>4 DEF Settles
  <2>6. MessagesAdded
    <3> SUFFICES ASSUME NEW i \in Items, queue'[i] # queue[i]
                 PROVE  queue'[i] > 0 /\ OP!Sent(i)'
      BY DEF MessagesAdded
    <3>1. i = outbox[r].aggregate /\ queue'[i] > 0
      BY <1>1, <1>7 DEF OP!TypeOK
    <3>2. r \in DOMAIN outbox' /\ outbox'[r].aggregate = i /\ outbox'[r].sent > 0
      BY <1>3, <1>4, <2>2, <2>4, <3>1
    <3> QED
      BY <3>1, <3>2 DEF OP!Sent
  <2> QED
    BY <1>5, <2>5, <2>6, SettlingKeepsWork
<1> QED
  BY <1>2, <1>6, <1>7

-----------------------------------------------------------------------------
(* The invariant is inductive.                                             *)

\* At first there is nothing.
LEMMA InitSystem == Init => SInv
<1> SUFFICES ASSUME Init
             PROVE  SInv
  OBVIOUS
<1>1. LP!Init /\ OP!Init /\ stranded = {}
  BY SameStartAndTime DEF Init
<1>2. LP!IInv /\ OP!OInv
  BY <1>1, Assumptions, LP!InitInvariant, OP!InitInvariant
<1>3. outbox = <<>> /\ queue = [a \in Items |-> 0] /\ publishers = [p \in Publishers |-> <<>>]
  BY <1>1 DEF OP!Init
<1>4. \A i \in Items : items[i].status = "ABSENT"
  BY <1>1 DEF LP!Init
<1>5. \A w \in Workers : workers[w].step = "idle"
  BY <1>1 DEF LP!Init, LP!Idle
<1>6. RowsOfItems /\ OneJob
  BY <1>3 DEF RowsOfItems, OneJob, OP!Waiting
<1>7. MessagesWereSent
  BY <1>3, <1>5 DEF MessagesWereSent
<1>8. WaitingHasWork
  BY <1>4 DEF WaitingHasWork
<1>9. DispatchedIsOnItsWay
  BY <1>3 DEF DispatchedIsOnItsWay, OP!Claims, OP!Elements
<1> QED
  BY <1>1, <1>2, <1>6, <1>7, <1>8, <1>9 DEF SInv

\* Every step keeps the work of every item that waits.
LEMMA NextSystem ==
    ASSUME SInv, [Next]_vars
    PROVE  SInv'
<1>1. CASE Next
  <2>1. StepByParts
    BY <1>1, NextByParts
  <2>2. LP!IInv' /\ OP!OInv'
    BY <2>1, PartsInvariant
  <2>3. CASE LP!Tick /\ OP!Tick /\ UNCHANGED stranded
    BY <2>2, <2>3, TickKeepsWork
  <2>4. ASSUME NEW i \in Items, LP!AddItem(i), OP!Enqueue(i),
               UNCHANGED <<publishers, queue, failures, stranded>>
        PROVE  SInv'
    BY <2>2, <2>4, AddItemKeepsWork
  <2>5. ASSUME NEW w \in Workers, NEW i \in Items, LP!BeginClaim(w, i), OP!Receive(i),
               UNCHANGED stranded
        PROVE  SInv'
    BY <2>2, <2>5, ReceiveKeepsWork
  <2>6. ASSUME NEW w \in Workers, LP!Claim(w), stranded' = stranded \ {workers[w].item},
               UNCHANGED outboxVars
        PROVE  SInv'
    BY <2>2, <2>6, ClaimKeepsWork
  <2>7. ASSUME NEW w \in Workers, UNCHANGED outboxVars,
               \/ WorkerStep(w) /\ UNCHANGED stranded
               \/ /\ LP!DatabaseError(w)
                  /\ stranded' = IF workers[w].step = "claiming"
                                 THEN stranded \cup {workers[w].item} ELSE stranded
        PROVE  SInv'
    BY <2>2, <2>7, WorkerKeepsWork
  <2>8. ASSUME NEW w \in Workers, LP!ScheduleRetry(w), OP!Supersede(workers[w].item),
               UNCHANGED <<publishers, queue, failures, stranded>>
        PROVE  SInv'
    BY <2>2, <2>8, ScheduleRetryKeepsWork
  <2>9. ASSUME NEW w \in Workers, OP!Return(workers[w].item), UNCHANGED stranded,
               LP!Crash(w) \/ (workers[w].step # "idle" /\ UNCHANGED itemVars)
        PROVE  SInv'
    BY <2>2, <2>9, ReturnKeepsWork DEF LP!Crash
  <2>10. ASSUME NEW p \in Publishers, PublisherStep(p), UNCHANGED <<itemVars, stranded>>
         PROVE  SInv'
    <3>1. ~ OP!MarkFailed(p)
      BY DEF OP!MarkFailed, OP!Routable
    <3> QED
      BY <2>2, <2>10, <3>1, ClaimBatchKeepsWork, DispatchKeepsWork, DispatchFailsKeepsWork,
         MarkPublishedKeepsWork, AbandonKeepsWork DEF PublisherStep
  <2> QED
    BY <2>1, <2>3, <2>4, <2>5, <2>6, <2>7, <2>8, <2>9, <2>10 DEF StepByParts
<1>2. CASE UNCHANGED vars
  <2>1. UNCHANGED <<clock, items, chunks, workers, faults, outbox, publishers, queue, failures,
                    stranded>>
    BY <1>2 DEF vars, itemVars, outboxVars
  <2>2. LP!IInv' /\ OP!OInv'
    BY <2>1, Assumptions, LP!StutterInvariant, OP!NextInvariant DEF SInv, LP!vars, OP!vars
  <2> QED
    BY <2>1, <2>2, NoNewMessage DEF SInv
<1> QED
  BY <1>1, <1>2

\* The invariant holds always: items and outbox keep their own invariants, rows and
\* messages are about items that exist, and each waiting item has its work.
THEOREM SystemInvariant == Spec => []SInv
<1>1. Init => SInv
  BY InitSystem
<1>2. SInv /\ [Next]_vars => SInv'
  BY NextSystem
<1> QED
  BY <1>1, <1>2, PTL DEF Spec

-----------------------------------------------------------------------------
(* What the invariant gives.                                               *)

\* At most one outbox row of an item waits: the discard of schedule_retry comes before
\* its enqueue, in one transaction with the item's release.
THEOREM OneWaitingJobOfAnItem == Spec => []OneWaitingJob
<1>1. SInv => OneWaitingJob
  BY OutboxStatements DEF SInv, OneJob, OneWaitingJob
<1> QED
  BY <1>1, SystemInvariant, PTL

\* A PENDING item has an outbox row to publish, a message, or a worker about to claim
\* it, whatever publishers and workers crash or come late; or its claim ended in an error.
THEOREM PendingItemsHaveJobs == Spec => []PendingHasJob
<1>1. SInv => PendingHasJob
  BY OutboxStatements DEF SInv, WaitingHasWork, OnItsWay, PendingHasJob
<1> QED
  BY <1>1, SystemInvariant, PTL

\* Both tables, the workers, the publishers and the broker have their types.
THEOREM SystemTypes == Spec => []TypeOK
<1>1. LP!TypeOK <=> Lifecycle!TypeOK
  BY DEF LP!TypeOK, LP!Row, LP!Statuses, LP!Worker, LP!Steps,
         Lifecycle!TypeOK, Lifecycle!Row, Lifecycle!Statuses, Lifecycle!Worker, Lifecycle!Steps
<1>2. OP!TypeOK <=> Outbox!TypeOK
  <2>1. OP!JobRow = Outbox!JobRow
    BY DEF OP!JobRow, OP!RowStates, Outbox!JobRow, Outbox!RowStates
  <2>2. OP!Claimed = Outbox!Claimed
    BY DEF OP!Claimed, Outbox!Claimed
  <2> QED
    BY <2>1, <2>2 DEF OP!TypeOK, Outbox!TypeOK
<1>3. SInv => TypeOK
  BY <1>1, <1>2 DEF SInv, LP!IInv, OP!OInv, TypeOK
<1> QED
  BY <1>3, SystemInvariant, PTL

-----------------------------------------------------------------------------
(* The system implements its parts.                                        *)

\* The outbox and the broker let items change only as IngestionLifecycle says: what is
\* proved of the lifecycle, with workers that take up any item at any time, is true here.
THEOREM SystemImplementsLifecycle == Spec => ImplementsLifecycle
<1>1. Init => Lifecycle!Init
  BY DEF Init
<1>2. [Next]_vars => [Lifecycle!Next]_(Lifecycle!vars)
  <2>1. CASE Next
    <3>1. LP!Next => Lifecycle!Next
      BY LifecycleWorkers, LifecycleItems, SameStartAndTime DEF LP!Next, Lifecycle!Next
    <3>2. LP!vars = Lifecycle!vars /\ (LP!vars)' = (Lifecycle!vars)'
      BY DEF LP!vars, Lifecycle!vars
    <3> QED
      BY <2>1, <3>1, <3>2, NextByParts, LifecycleStep
  <2>2. CASE UNCHANGED vars
    BY <2>2 DEF vars, itemVars, Lifecycle!vars
  <2> QED
    BY <2>1, <2>2
<1> QED
  BY <1>1, <1>2, PTL DEF Spec, ImplementsLifecycle, Lifecycle!Spec

\* Items and workers use the outbox only as JobOutbox allows: a job is written for an
\* item that was added, another one only after a message of the item has gone out, and
\* a message comes back only when there was one.
THEOREM SystemImplementsOutbox == Spec => ImplementsOutbox
<1>1. Init => Outbox!Init
  BY DEF Init
<1>2. SInv /\ [Next]_vars => [Outbox!Next]_(Outbox!vars)
  <2> SUFFICES ASSUME SInv, [Next]_vars
               PROVE  [Outbox!Next]_(Outbox!vars)
    OBVIOUS
  <2>1. CASE Next
    <3>1. OP!Next => Outbox!Next
      <4>1. \A a \in Items : /\ OP!AddRow(a) => Outbox!AddRow(a)
                             /\ OP!RetryRow(a) => Outbox!RetryRow(a)
        BY OutboxStatements DEF OP!AddRow, OP!RetryRow, Outbox!AddRow, Outbox!RetryRow
      <4> QED
        BY <4>1, OutboxStatements, OutboxPublishers, SameStartAndTime DEF OP!Next, Outbox!Next
    <3>2. OP!vars = Outbox!vars /\ (OP!vars)' = (Outbox!vars)'
      BY DEF OP!vars, Outbox!vars
    <3> QED
      BY <2>1, <3>1, <3>2, NextByParts, OutboxStep
  <2>2. CASE UNCHANGED vars
    BY <2>2 DEF vars, outboxVars, Outbox!vars
  <2> QED
    BY <2>1, <2>2
<1> QED
  BY <1>1, <1>2, SystemInvariant, PTL DEF Spec, ImplementsOutbox, Outbox!Spec

=============================================================================
