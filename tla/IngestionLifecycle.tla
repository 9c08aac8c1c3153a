------------------------- MODULE IngestionLifecycle -------------------------
(***************************************************************************)
(* The lifecycle of ingestion items: the row of ingestion.ingestion_items  *)
(* that PostgreSQL keeps for each item, its chunk set, and the Celery      *)
(* worker processes that run IngestionJobHandler.handle on it.             *)
(*                                                                         *)
(* A worker owns an attempt of an item while the row is RUNNING, carries   *)
(* the worker's attempt number (the fencing token) and its lease has not   *)
(* expired.  Leases are written from the worker's own clock and compared   *)
(* with now() of the database, which PostgreSQL fixes when the transaction *)
(* begins: `tx' remembers that time for the transaction a worker has open, *)
(* so its UPDATE may be evaluated with a time that has passed.  A renewal  *)
(* has no other effect than its UPDATE, so it is one step, with the time   *)
(* it began chosen from those since `beat', when the last one came back.   *)
(*                                                                         *)
(* Messages are not modelled here: a worker may be handed any item at any  *)
(* time, which covers every duplicated, delayed or redelivered message.    *)
(* IngestionSystem adds the outbox and the broker.                         *)
(***************************************************************************)
EXTENDS Naturals

CONSTANTS
    Items,          \* the ingestion items
    Workers,        \* the worker processes
    MaxAttempts,    \* INGESTION_MAX_ATTEMPTS
    LeaseDuration,  \* INGESTION_LEASE_SECONDS
    Skew,           \* how far the clock of each worker is ahead of the database's
    MaxClock,       \* bound: the last instant of the database's clock
    MaxFaults,      \* bound: how many crashes and database errors happen
    NoItem          \* stands for "no item"

ASSUME ConstantsAssumption ==
    /\ MaxAttempts \in Nat \ {0}
    /\ LeaseDuration \in Nat \ {0}
    /\ Skew \in [Workers -> Nat]
    /\ MaxClock \in Nat \ {0}
    /\ MaxFaults \in Nat
    /\ NoItem \notin Items

VARIABLES
    clock,      \* the database's clock
    items,      \* the row of each item
    chunks,     \* the attempt that wrote the item's chunk set, 0 when it has none
    workers,    \* what each worker process is doing
    faults      \* the crashes and database errors so far

vars == <<clock, items, chunks, workers, faults>>

-----------------------------------------------------------------------------
(* Rows and workers.  Time starts at 1, so that 0 stands for SQL's NULL.   *)

Statuses == {"ABSENT", "PENDING", "RUNNING", "COMPLETED", "FAILED"}

Row == [status : Statuses, attempt : 0..MaxAttempts, lease : Nat, started : Nat]

\* claiming: the claim transaction is open.  processing: loading, extracting and
\* chunking.  completing, failing, retrying: the transaction of
\* replace_chunks_and_mark_completed, mark_failed or schedule_retry is open.
Steps == {"idle", "claiming", "processing", "completing", "failing", "retrying"}

Worker == [step : Steps, item : Items \cup {NoItem},
           attempt : 0..MaxAttempts, tx : Nat, beat : Nat]

Idle == [step |-> "idle", item |-> NoItem, attempt |-> 0, tx |-> 0, beat |-> 0]

TypeOK ==
    /\ clock \in 1..MaxClock
    /\ items \in [Items -> Row]
    /\ chunks \in [Items -> 0..MaxAttempts]
    /\ workers \in [Workers -> Worker]
    /\ faults \in Nat

Init ==
    /\ clock = 1
    /\ items = [i \in Items |->
                  [status |-> "ABSENT", attempt |-> 0, lease |-> 0, started |-> 0]]
    /\ chunks = [i \in Items |-> 0]
    /\ workers = [w \in Workers |-> Idle]
    /\ faults = 0

AppClock(w) == clock + Skew[w]

\* The handler has claimed the item and has not returned.
Handling(w) == workers[w].step \notin {"idle", "claiming"}

Holds(w, i) == Handling(w) /\ workers[w].item = i

\* The processor and heartbeat tasks of _run_claimed_item are running.
Beating(w) == workers[w].step \in {"processing", "completing"}

\* When a renewal of the handler that comes to its UPDATE now may have begun.
RenewalTimes(w) == workers[w].beat .. clock

-----------------------------------------------------------------------------
(* Guards of the statements, each with the variants a slip in the WHERE    *)
(* clause or in the comparison would give.                                 *)

ClaimableWhileLeased(i, t) ==
    items[i].attempt < MaxAttempts /\ items[i].status \in {"PENDING", "RUNNING"}

ClaimableAtLimit(i, t) ==
    /\ items[i].attempt <= MaxAttempts
    /\ \/ items[i].status = "PENDING"
       \/ items[i].status = "RUNNING" /\ items[i].lease <= t

\* WHERE clause of claim_item.
Claimable(i, t) ==
    /\ items[i].attempt < MaxAttempts
    /\ \/ items[i].status = "PENDING"
       \/ items[i].status = "RUNNING" /\ items[i].lease <= t

OwnedByAnyAttempt(i, n, t) == items[i].status = "RUNNING" /\ items[i].lease > t

OwnedInAnyStatus(i, n, t) == items[i].attempt = n

\* WHERE clause of every other statement on the row.
OwnedBy(i, n, t) ==
    /\ items[i].status = "RUNNING"
    /\ items[i].attempt = n
    /\ items[i].lease > t

\* The worker's open transaction still finds the row of its own attempt.
Owns(w) == OwnedBy(workers[w].item, workers[w].attempt, workers[w].tx)

AttemptsLeftOffByOne(n) == n <= MaxAttempts

\* schedule_retry releases the item for another attempt, or gives up.
AttemptsLeft(n) == n < MaxAttempts

\* The CHECK constraint completed_not_before_started accepts the worker's time.
EndAccepted(i, w) == AppClock(w) >= items[i].started

-----------------------------------------------------------------------------
(* What the statements do to a row, and the steps to a worker.             *)

ClaimedRowSameToken(r, at) ==
    [r EXCEPT !.status = "RUNNING", !.lease = at + LeaseDuration,
              !.started = IF @ = 0 THEN at ELSE @]

ClaimedRow(r, at) ==
    [status |-> "RUNNING", attempt |-> r.attempt + 1, lease |-> at + LeaseDuration,
     started |-> IF r.started = 0 THEN at ELSE r.started]

\* mark_completed, mark_failed and release_for_retry all give up the lease.
ReleaseRow(i, status) == items' = [items EXCEPT ![i].status = status, ![i].lease = 0]

\* The worker opens the transaction of `step': now() is fixed here.  The heartbeat
\* goes on beside the completion only.
Begin(w, step) ==
    workers' = [workers EXCEPT ![w].step = step, ![w].tx = clock,
                               ![w].beat = IF step = "completing" THEN @ ELSE 0]

\* handle returns, or an exception leaves the task.
Stop(w) == workers' = [workers EXCEPT ![w] = Idle]

Fault == faults < MaxFaults /\ faults' = faults + 1

-----------------------------------------------------------------------------
(* IngestionLifecycleService.                                              *)

AddItem(i) ==
    /\ items[i].status = "ABSENT"
    /\ items' = [items EXCEPT ![i].status = "PENDING"]
    /\ UNCHANGED <<clock, chunks, workers, faults>>

\* A worker is handed a message for item i and reads its clock for the claim.
BeginClaim(w, i) ==
    /\ workers[w].step = "idle"
    /\ items[i].status # "ABSENT"
    /\ workers' = [workers EXCEPT
                     ![w] = [step |-> "claiming", item |-> i, attempt |-> 0, tx |-> clock,
                             beat |-> 0]]
    /\ UNCHANGED <<clock, items, chunks, faults>>

\* The claim statement commits on the row.
ClaimItem(w) ==
    LET i == workers[w].item IN
    /\ workers[w].step = "claiming"
    /\ Claimable(i, workers[w].tx)
    /\ items' = [items EXCEPT ![i] = ClaimedRow(@, workers[w].tx + Skew[w])]
    /\ UNCHANGED chunks

Claim(w) ==
    /\ ClaimItem(w)
    /\ workers' = [workers EXCEPT
                     ![w] = [step |-> "processing", item |-> @.item,
                             attempt |-> items[@.item].attempt + 1, tx |-> 0,
                             beat |-> clock]]
    /\ UNCHANGED <<clock, faults>>

\* The claim finds nothing and handle returns: the message is used up.
ClaimRefused(w) ==
    /\ workers[w].step = "claiming"
    /\ ~Claimable(workers[w].item, workers[w].tx)
    /\ Stop(w)
    /\ UNCHANGED <<clock, items, chunks, faults>>

\* LeasedJobHeartbeat.run: one renewal.  The worker reads its clock for the new lease
\* and begins the transaction, both before the UPDATE may have to wait: the lease may
\* have ended by now, and the new one may end sooner than one from now would.
RenewLease(w) ==
    LET i == workers[w].item IN
    /\ Beating(w)
    /\ \E t \in RenewalTimes(w) :
         /\ OwnedBy(i, workers[w].attempt, t)
         /\ items' = [items EXCEPT ![i].lease = t + Skew[w] + LeaseDuration]
    /\ workers' = [workers EXCEPT ![w].beat = clock]
    /\ UNCHANGED <<clock, chunks, faults>>

\* The renewal matches no row: the processor is cancelled, handle returns.
LoseLease(w) ==
    /\ Beating(w)
    /\ \E t \in RenewalTimes(w) : ~OwnedBy(workers[w].item, workers[w].attempt, t)
    /\ Stop(w)
    /\ UNCHANGED <<clock, items, chunks, faults>>

\* The processor has its chunks, or raises a permanent error, or raises a
\* transient or unknown one; an error stops the heartbeat first.
FinishProcessing(w) ==
    /\ workers[w].step = "processing"
    /\ \/ Begin(w, "completing")
       \/ Begin(w, "failing")
       \/ Begin(w, "retrying")
    /\ UNCHANGED <<clock, items, chunks, faults>>

\* replace_chunks_and_mark_completed commits chunk set and status together.
CompleteItem(w) ==
    LET i == workers[w].item IN
    /\ workers[w].step = "completing"
    /\ items[i].status # "COMPLETED"
    /\ Owns(w)
    /\ EndAccepted(i, w)
    /\ ReleaseRow(i, "COMPLETED")
    /\ chunks' = [chunks EXCEPT ![i] = workers[w].attempt]

Complete(w) == CompleteItem(w) /\ Stop(w) /\ UNCHANGED <<clock, faults>>

\* mark_completed matches no row: rolled back, IngestionLeaseLost, handle returns.
CompleteLost(w) ==
    /\ workers[w].step = "completing"
    /\ items[workers[w].item].status # "COMPLETED"
    /\ ~Owns(w)
    /\ Stop(w)
    /\ UNCHANGED <<clock, items, chunks, faults>>

\* ChunkSetImmutable, or the CHECK constraint refuses completed_at: rolled back,
\* and the handler takes it for an unknown processor failure.
CompleteRaises(w) ==
    LET i == workers[w].item IN
    /\ workers[w].step = "completing"
    /\ items[i].status = "COMPLETED" \/ (Owns(w) /\ ~EndAccepted(i, w))
    /\ Begin(w, "retrying")
    /\ UNCHANGED <<clock, items, chunks, faults>>

\* mark_failed, called for a permanent error or by schedule_retry on the last attempt.
MarkFailed(w) ==
    LET i == workers[w].item IN
    /\ \/ workers[w].step = "failing"
       \/ workers[w].step = "retrying" /\ ~AttemptsLeft(workers[w].attempt)
    /\ Owns(w)
    /\ EndAccepted(i, w)
    /\ ReleaseRow(i, "FAILED")
    /\ Stop(w)
    /\ UNCHANGED <<clock, chunks, faults>>

\* ... its CHECK constraint refuses completed_at: the error leaves the task.
MarkFailedRaises(w) ==
    /\ \/ workers[w].step = "failing"
       \/ workers[w].step = "retrying" /\ ~AttemptsLeft(workers[w].attempt)
    /\ Owns(w)
    /\ ~EndAccepted(workers[w].item, w)
    /\ Stop(w)
    /\ UNCHANGED <<clock, items, chunks, faults>>

\* schedule_retry with attempts left: release_for_retry matches the row.
ScheduleRetry(w) ==
    /\ workers[w].step = "retrying"
    /\ AttemptsLeft(workers[w].attempt)
    /\ Owns(w)
    /\ ReleaseRow(workers[w].item, "PENDING")
    /\ Stop(w)
    /\ UNCHANGED <<clock, chunks, faults>>

\* ... but the database refuses the outbox statements of the same transaction
\* (IngestionSystem says when): rolled back, and the error leaves the task.
RetryRefused(w) ==
    /\ workers[w].step = "retrying"
    /\ AttemptsLeft(workers[w].attempt)
    /\ Owns(w)
    /\ Stop(w)
    /\ UNCHANGED <<clock, items, chunks, faults>>

\* mark_failed or schedule_retry matches no row; the handler ignores it.
OutcomeLost(w) ==
    /\ workers[w].step \in {"failing", "retrying"}
    /\ ~Owns(w)
    /\ Stop(w)
    /\ UNCHANGED <<clock, items, chunks, faults>>

\* reap_expired_items, run by the process of w at the time of its statement.
ReapExpired(w) ==
    LET expired == {i \in Items : /\ items[i].status = "RUNNING"
                                  /\ items[i].lease <= clock
                                  /\ items[i].attempt >= MaxAttempts}
    IN  /\ expired # {}
        /\ \A i \in expired : EndAccepted(i, w)
        /\ items' = [i \in Items |-> IF i \in expired
                                     THEN [items[i] EXCEPT !.status = "FAILED", !.lease = 0]
                                     ELSE items[i]]
        /\ UNCHANGED <<clock, chunks, workers, faults>>

-----------------------------------------------------------------------------
(* Faults.                                                                 *)

\* The worker process dies; PostgreSQL rolls its transaction back.
Crash(w) ==
    /\ workers[w].step # "idle"
    /\ Fault
    /\ Stop(w)
    /\ UNCHANGED <<clock, items, chunks>>

\* A statement fails.  In the processor it is an unknown failure, in the
\* heartbeat the lease counts as lost, elsewhere the error leaves the task.
DatabaseError(w) ==
    /\ workers[w].step # "idle"
    /\ Fault
    /\ \/ Beating(w) /\ Begin(w, "retrying")
       \/ Stop(w)
    /\ UNCHANGED <<clock, items, chunks>>

\* A transaction commits and its answer is lost: the worker sees an error.
AnswerLost(w) ==
    /\ Fault
    /\ \/ ClaimItem(w) /\ Stop(w)
       \/ CompleteItem(w) /\ Begin(w, "retrying")
    /\ UNCHANGED clock

Tick ==
    /\ clock < MaxClock
    /\ clock' = clock + 1
    /\ UNCHANGED <<items, chunks, workers, faults>>

-----------------------------------------------------------------------------

Next ==
    \/ Tick
    \/ \E i \in Items : AddItem(i)
    \/ \E w \in Workers, i \in Items : BeginClaim(w, i)
    \/ \E w \in Workers :
         \/ Claim(w)
         \/ ClaimRefused(w)
         \/ RenewLease(w)
         \/ LoseLease(w)
         \/ FinishProcessing(w)
         \/ Complete(w)
         \/ CompleteLost(w)
         \/ CompleteRaises(w)
         \/ MarkFailed(w)
         \/ MarkFailedRaises(w)
         \/ ScheduleRetry(w)
         \/ RetryRefused(w)
         \/ OutcomeLost(w)
         \/ ReapExpired(w)
         \/ Crash(w)
         \/ DatabaseError(w)
         \/ AnswerLost(w)

Spec == Init /\ [][Next]_vars

-----------------------------------------------------------------------------
(* Properties.                                                             *)

\* Two handlers never carry the same attempt number of one item, however late
\* one of them is: the attempt number that claim_item returns fences its holder.
FencingToken ==
    \A v, w \in Workers : \A i \in Items :
        Holds(v, i) /\ Holds(w, i) /\ workers[v].attempt = workers[w].attempt => v = w

\* A chunk set exists exactly for completed items and was written by the attempt
\* the row names: replace_for_item never shows chunks of an attempt that lost.
ChunksOfCompletingAttempt ==
    \A i \in Items :
        chunks[i] = IF items[i].status = "COMPLETED" THEN items[i].attempt ELSE 0

\* No item waits as PENDING with its attempts used up, where claim_item would
\* refuse it for ever: schedule_retry fails it on the last attempt.
PendingIsClaimable ==
    \A i \in Items : items[i].status = "PENDING" => items[i].attempt < MaxAttempts

\* While the lease of a running item is alive, its row changes only by the
\* handler that holds its attempt number: it renews the lease, or lets go.
LiveLeaseRespected ==
    [][\A i \in Items :
         items[i].status = "RUNNING" /\ items[i].lease > clock /\ items'[i] # items[i]
         => \E w \in Workers :
              /\ Holds(w, i)
              /\ workers[w].attempt = items[i].attempt
              /\ \/ items'[i] = [items[i] EXCEPT !.lease = items'[i].lease]
                 \/ workers'[w].step \in {"idle", "retrying"}]_vars

\* The abstract job whose promise the lifecycle keeps.
Job == INSTANCE LeasedJob WITH
           Jobs <- Items,
           status <- [i \in Items |-> items[i].status],
           attempt <- [i \in Items |-> items[i].attempt],
           output <- chunks

\* Items start, complete, retry and fail only as a LeasedJob does.
ImplementsLeasedJob == Job!Spec

=============================================================================
