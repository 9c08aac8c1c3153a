-------------------------- MODULE IngestionSystem --------------------------
(***************************************************************************)
(* Ingestion as it runs: IngestionLifecycle and JobOutbox over one         *)
(* database and one broker.  Adding an item writes its row and its outbox  *)
(* row in one transaction; publishers turn outbox rows into Celery         *)
(* messages; a message makes a worker claim the item it names; a failed    *)
(* attempt releases the item, discards the waiting outbox rows and writes  *)
(* a new one, again in one transaction.  Tasks are acknowledged late: a    *)
(* message is used up when its task ends, by an exception too, and goes    *)
(* back to the queue when its worker process dies.                         *)
(***************************************************************************)
EXTENDS Naturals, Sequences

CONSTANTS
    Items, Workers, MaxAttempts, LeaseDuration, Skew, NoItem,
    Publishers, BatchLimit, PublishLease,
    MaxClock, MaxFaults, MaxFailures, MaxRows, MaxQueue

ASSUME SystemAssumption ==
    /\ MaxAttempts \in Nat \ {0} /\ LeaseDuration \in Nat \ {0} /\ Skew \in [Workers -> Nat]
    /\ NoItem \notin Items
    /\ BatchLimit \in Nat \ {0} /\ PublishLease \in Nat \ {0}
    /\ MaxClock \in Nat \ {0} /\ MaxFaults \in Nat /\ MaxFailures \in Nat
    /\ MaxRows \in Nat /\ MaxQueue \in Nat

VARIABLES
    clock,
    items, chunks, workers, faults,         \* IngestionLifecycle
    outbox, publishers, queue, failures,    \* JobOutbox, one aggregate per item
    stranded    \* the items whose last message ended in an error before the claim

itemVars == <<items, chunks, workers, faults>>
outboxVars == <<outbox, publishers, queue, failures>>
vars == <<clock, itemVars, outboxVars, stranded>>

Lifecycle == INSTANCE IngestionLifecycle
Outbox == INSTANCE JobOutbox WITH Aggregates <- Items, Unroutable <- {}

TypeOK ==
    /\ Lifecycle!TypeOK
    /\ Outbox!TypeOK
    /\ stranded \in SUBSET Items

Init ==
    /\ Lifecycle!Init
    /\ Outbox!Init
    /\ stranded = {}

-----------------------------------------------------------------------------
(* Transactions on both tables.                                            *)

AddItem(i) ==
    /\ Lifecycle!AddItem(i)
    /\ Outbox!Enqueue(i)
    /\ UNCHANGED <<publishers, queue, failures, stranded>>

ScheduleRetryWithoutJob(w) ==
    /\ Lifecycle!ScheduleRetry(w)
    /\ UNCHANGED <<outboxVars, stranded>>

ScheduleRetry(w) ==
    /\ Lifecycle!ScheduleRetry(w)
    /\ Outbox!Supersede(workers[w].item)
    /\ UNCHANGED <<publishers, queue, failures, stranded>>

\* A publish lease is still written on a row that would be discarded: the CHECK
\* constraint fails the transaction and the error leaves the task.
RetryRefused(w) ==
    /\ Lifecycle!RetryRefused(w)
    /\ Outbox!DiscardRefused(workers[w].item)
    /\ UNCHANGED <<outboxVars, stranded>>

-----------------------------------------------------------------------------
(* The broker.                                                             *)

Receive(w, i) ==
    /\ Lifecycle!BeginClaim(w, i)
    /\ Outbox!Receive(i)
    /\ UNCHANGED stranded

\* A message whose task runs longer than the visibility timeout comes again.
Redeliver(w) ==
    /\ workers[w].step # "idle"
    /\ Outbox!Return(workers[w].item)
    /\ UNCHANGED <<itemVars, stranded>>

CrashLosingMessage(w) == Lifecycle!Crash(w) /\ UNCHANGED <<outboxVars, stranded>>

\* reject_on_worker_lost: the message of a dead worker goes back to the queue.
Crash(w) ==
    /\ Lifecycle!Crash(w)
    /\ Outbox!Return(workers[w].item)
    /\ UNCHANGED stranded

\* An error that leaves the task uses its message up.
DatabaseError(w) ==
    /\ Lifecycle!DatabaseError(w)
    /\ stranded' = IF workers[w].step = "claiming" THEN stranded \cup {workers[w].item}
                                                   ELSE stranded
    /\ UNCHANGED outboxVars

-----------------------------------------------------------------------------
(* Steps on one side only.                                                 *)

Claim(w) ==
    /\ Lifecycle!Claim(w)
    /\ stranded' = stranded \ {workers[w].item}
    /\ UNCHANGED outboxVars

\* The other steps of handle that end or go on without a fault.
Handle(w) ==
    /\ \/ Lifecycle!ClaimRefused(w)
       \/ Lifecycle!FinishProcessing(w)
       \/ Lifecycle!LoseLease(w)
       \/ Lifecycle!Complete(w)
       \/ Lifecycle!CompleteLost(w)
       \/ Lifecycle!CompleteRaises(w)
       \/ Lifecycle!MarkFailed(w)
       \/ Lifecycle!MarkFailedRaises(w)
       \/ Lifecycle!OutcomeLost(w)
    /\ UNCHANGED <<outboxVars, stranded>>

RenewLease(w) == Lifecycle!RenewLease(w) /\ UNCHANGED <<outboxVars, stranded>>

ReapExpired(w) == Lifecycle!ReapExpired(w) /\ UNCHANGED <<outboxVars, stranded>>

AnswerLost(w) == Lifecycle!AnswerLost(w) /\ UNCHANGED <<outboxVars, stranded>>

Publish(p) == Outbox!Publish(p) /\ UNCHANGED <<itemVars, stranded>>

GoOnPublishing(p) == Outbox!GoOn(p) /\ UNCHANGED <<itemVars, stranded>>

PublishFails(p) ==
    /\ Outbox!DispatchFails(p) \/ Outbox!Abandon(p)
    /\ UNCHANGED <<itemVars, stranded>>

Tick == Lifecycle!Tick /\ Outbox!Tick /\ UNCHANGED stranded

-----------------------------------------------------------------------------

\* What a worker does next with the message it has, faults apart.
Proceed(w) == Claim(w) \/ Handle(w) \/ ScheduleRetry(w) \/ RetryRefused(w)

Next ==
    \/ Tick
    \/ \E i \in Items : AddItem(i)
    \/ \E w \in Workers, i \in Items : Receive(w, i)
    \/ \E w \in Workers :
         \/ Claim(w)
         \/ Handle(w)
         \/ ScheduleRetry(w)
         \/ RetryRefused(w)
         \/ RenewLease(w)
         \/ ReapExpired(w)
         \/ Crash(w)
         \/ DatabaseError(w)
         \/ AnswerLost(w)
         \/ Redeliver(w)
    \/ \E p \in Publishers : Publish(p) \/ PublishFails(p)

Spec == Init /\ [][Next]_vars

\* Celery runs workers for ever and gives each waiting message its turn.
WorkersRun ==
    /\ \A w \in Workers : WF_vars(Proceed(w))
    /\ \A i \in Items : SF_vars(\E w \in Workers : Receive(w, i))

\* A run of publish_outbox that has claimed a batch goes on with it.  Nothing says that
\* a run begins: nothing in the repository schedules or sends it.
PublishersGoOn == \A p \in Publishers : WF_vars(GoOnPublishing(p))

FairSpec == Spec /\ WF_vars(Tick) /\ WorkersRun /\ PublishersGoOn

-----------------------------------------------------------------------------
(* Properties.                                                             *)

\* The composition drives the item table only as IngestionLifecycle allows ...
ImplementsLifecycle == Lifecycle!Spec

\* ... and the outbox only as JobOutbox allows.
ImplementsOutbox == Outbox!Spec

\* The discard before the enqueue keeps at most one job of an item waiting, so that
\* retries do not pile up work for the same item.
OneWaitingJob ==
    \A i \in Items : \A j, k \in Outbox!Waiting(i) : j = k

\* A waiting item always has work on its way to it: an outbox row to publish, a
\* message in the broker, or a worker about to claim it.  The one exception is an
\* item whose claim ended in a database error, which used its message up.
PendingHasJob ==
    \A i \in Items :
        items[i].status = "PENDING" =>
            \/ Outbox!Waiting(i) # {}
            \/ queue[i] > 0
            \/ \E w \in Workers : workers[w].step = "claiming" /\ workers[w].item = i
            \/ i \in stranded

\* An item whose message is in the broker is started, after each retry, redelivery and
\* worker crash too; and while no message is there, it is started or a row of it comes
\* where the next run of publish_outbox can claim it.  Whether there is a next run is
\* not said here.  The exception is that of PendingHasJob.
PendingMovesOn ==
    \A i \in Items :
        LET Started == items[i].status # "PENDING" \/ i \in stranded
        IN  /\ (items[i].status = "PENDING" /\ queue[i] > 0) ~> Started
            /\ (items[i].status = "PENDING")
               ~> (Started \/ \E j \in Outbox!Waiting(i) : Outbox!Claimable(j))

\* A failed attempt that still owns its item and has attempts left gets its retry:
\* "Unknown processor failures are retryable to avoid permanently losing work."
RetryIsAccepted ==
    [][\A w \in Workers : ~RetryRefused(w)]_vars

=============================================================================
