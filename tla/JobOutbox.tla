----------------------------- MODULE JobOutbox -----------------------------
(***************************************************************************)
(* The transactional outbox: the rows of platform.job_outbox, the          *)
(* publishers (runs of OutboxPublisher.publish_pending, in any number of   *)
(* processes) that lease rows in batches and dispatch them to the Celery   *)
(* broker, and the queue of delivered messages.                            *)
(*                                                                         *)
(* A row of the outbox is written in the transaction of the aggregate it   *)
(* is about (Enqueue, Discard: see IngestionSystem).  Rows are kept in     *)
(* the order of created_at.                                                *)
(***************************************************************************)
EXTENDS Naturals, Sequences, FiniteSets

CONSTANTS
    Aggregates,     \* the aggregates that jobs are about
    Unroutable,     \* those whose job type is missing from TASK_BY_JOB_TYPE
    Publishers,     \* the processes that run publish_outbox
    BatchLimit,     \* OUTBOX_PUBLISH_BATCH_SIZE
    PublishLease,   \* OUTBOX_PUBLISH_LEASE_SECONDS
    MaxClock,       \* bound: the last instant of the clock
    MaxFailures,    \* bound: how many crashes, errors and broker failures happen
    MaxRows,        \* bound: how many rows are written
    MaxQueue        \* bound: how many messages of an aggregate the broker returns

ASSUME OutboxAssumption ==
    /\ Unroutable \subseteq Aggregates
    /\ BatchLimit \in Nat \ {0}
    /\ PublishLease \in Nat \ {0}
    /\ MaxClock \in Nat \ {0}
    /\ MaxFailures \in Nat
    /\ MaxRows \in Nat
    /\ MaxQueue \in Nat

VARIABLES
    clock,          \* the clock (publishers and database agree on it)
    failures,       \* the crashes, errors and broker failures so far
    outbox,         \* the rows, oldest first
    publishers,     \* the jobs each publisher has claimed and not dealt with
    queue           \* for each aggregate, how many messages wait in the broker

vars == <<clock, failures, outbox, publishers, queue>>

-----------------------------------------------------------------------------
(* lease 0 is SQL's NULL; sent counts the messages dispatched for the row. *)

RowStates == {"waiting", "published", "failed"}

\* The CHECK constraints published_job_has_no_lease and failed_job_has_no_lease.
JobRow == {r \in [aggregate : Aggregates, state : RowStates, attempt : Nat, lease : Nat,
                  sent : Nat] :
             r.state # "waiting" => r.lease = 0}

NewRow(a) == [aggregate |-> a, state |-> "waiting", attempt |-> 0, lease |-> 0, sent |-> 0]

\* A claimed job: the row, the attempt number of the claim, and whether the
\* publisher has dispatched it already.
Claimed == [row : Nat \ {0}, attempt : Nat, dispatched : BOOLEAN]

TypeOK ==
    /\ clock \in 1..MaxClock
    /\ failures \in 0..MaxFailures
    /\ outbox \in Seq(JobRow)
    /\ Len(outbox) <= MaxRows
    /\ publishers \in [Publishers -> Seq(Claimed)]
    /\ queue \in [Aggregates -> Nat]

Init ==
    /\ clock = 1
    /\ failures = 0
    /\ outbox = <<>>
    /\ publishers = [p \in Publishers |-> <<>>]
    /\ queue = [a \in Aggregates |-> 0]

Failure == failures < MaxFailures /\ failures' = failures + 1

-----------------------------------------------------------------------------
(* The rows an operation looks at.                                         *)

ClaimableWhileLeased(j) == outbox[j].state = "waiting"

\* WHERE clause of claim_unpublished_batch.
Claimable(j) ==
    /\ outbox[j].state = "waiting"
    /\ outbox[j].lease = 0 \/ outbox[j].lease <= clock

\* ORDER BY created_at LIMIT BatchLimit: those with fewer claimable rows before
\* them than the limit.
Batch == {j \in DOMAIN outbox :
            /\ Claimable(j)
            /\ Cardinality({k \in 1..(j - 1) : Claimable(k)}) < BatchLimit}

OwnedByAnyAttempt(j, n) == outbox[j].state = "waiting" /\ outbox[j].lease > clock

\* WHERE clause of mark_published, mark_failed and release_publish_claim.
OwnedBy(j, n) ==
    /\ outbox[j].state = "waiting"
    /\ outbox[j].attempt = n
    /\ outbox[j].lease > clock

Waiting(a) == {j \in DOMAIN outbox : outbox[j].aggregate = a /\ outbox[j].state = "waiting"}

\* The CHECK constraint failed_job_has_no_lease refuses discard_pending_for_aggregate,
\* which sets failed_at and leaves lease_expires_at as it is.
DiscardRefused(a) == \E j \in Waiting(a) : outbox[j].lease # 0

-----------------------------------------------------------------------------
(* Statements of OutboxRepository inside another unit of work.             *)

Enqueue(a) ==
    /\ Len(outbox) < MaxRows
    /\ outbox' = Append(outbox, NewRow(a))

SupersedeWithoutDiscard(a) == Enqueue(a)

\* discard_pending_for_aggregate and enqueue, the two outbox statements of
\* schedule_retry.
Supersede(a) ==
    /\ Len(outbox) < MaxRows
    /\ ~DiscardRefused(a)
    /\ outbox' = Append([j \in DOMAIN outbox |->
                           IF j \in Waiting(a)
                           THEN [outbox[j] EXCEPT !.state = "failed"]
                           ELSE outbox[j]],
                        NewRow(a))

-----------------------------------------------------------------------------
(* OutboxPublisher.publish_pending.                                        *)

Job(p) == Head(publishers[p])

Busy(p) == publishers[p] # <<>>

Routable(p) == outbox[Job(p).row].aggregate \notin Unroutable

Done(p) == publishers' = [publishers EXCEPT ![p] = Tail(@)]

\* The statement matches the claimed row and leaves it in `state', without lease;
\* a statement that matches nothing is reported and forgotten.
SettledKeepingLease(p, state) ==
    [outbox EXCEPT ![Job(p).row] = IF OwnedBy(Job(p).row, Job(p).attempt)
                                   THEN [@ EXCEPT !.state = state]
                                   ELSE @]

Settled(p, state) ==
    [outbox EXCEPT ![Job(p).row] = IF OwnedBy(Job(p).row, Job(p).attempt)
                                   THEN [@ EXCEPT !.state = state, !.lease = 0]
                                   ELSE @]

Settle(p, state) == outbox' = Settled(p, state) /\ Done(p)

ClaimedRowSameToken(r) == [r EXCEPT !.lease = clock + PublishLease]

ClaimedRow(r) == [r EXCEPT !.attempt = @ + 1, !.lease = clock + PublishLease]

\* A publisher starts a run and leases a batch; RETURNING gives it in any order.
ClaimBatch(p) ==
    /\ ~Busy(p)
    /\ Batch # {}
    /\ outbox' = [j \in DOMAIN outbox |-> IF j \in Batch THEN ClaimedRow(outbox[j])
                                                         ELSE outbox[j]]
    /\ \E order \in [1..Cardinality(Batch) -> Batch] :
         /\ {order[n] : n \in DOMAIN order} = Batch
         /\ publishers' = [publishers EXCEPT
              ![p] = [n \in DOMAIN order |-> [row |-> order[n],
                                              attempt |-> outbox'[order[n]].attempt,
                                              dispatched |-> FALSE]]]
    /\ UNCHANGED <<clock, failures, queue>>

Dispatch(p) ==
    LET j == Job(p).row
        a == outbox[j].aggregate
    IN  /\ Busy(p)
        /\ Routable(p)
        /\ ~Job(p).dispatched
        /\ queue' = [queue EXCEPT ![a] = @ + 1]
        /\ outbox' = [outbox EXCEPT ![j].sent = @ + 1]
        /\ publishers' = [publishers EXCEPT ![p][1].dispatched = TRUE]
        /\ UNCHANGED <<clock, failures>>

\* Dispatching raises, before or after the broker took the message: the claim is
\* released either way.
DispatchFails(p) ==
    LET j == Job(p).row
        a == outbox[j].aggregate
    IN  /\ Busy(p)
        /\ Routable(p)
        /\ ~Job(p).dispatched
        /\ Failure
        /\ \/ outbox' = Settled(p, "waiting") /\ UNCHANGED queue
           \/ /\ outbox' = [Settled(p, "waiting") EXCEPT ![j].sent = @ + 1]
              /\ queue' = [queue EXCEPT ![a] = @ + 1]
        /\ Done(p)
        /\ UNCHANGED clock

MarkPublishedEarly(p) ==
    /\ Busy(p)
    /\ Routable(p)
    /\ Settle(p, "published")
    /\ UNCHANGED <<clock, failures, queue>>

MarkPublishedOrWait(p) ==
    /\ Busy(p)
    /\ Job(p).dispatched
    /\ OwnedBy(Job(p).row, Job(p).attempt)
    /\ Settle(p, "published")
    /\ UNCHANGED <<clock, failures, queue>>

MarkPublished(p) ==
    /\ Busy(p)
    /\ Job(p).dispatched
    /\ Settle(p, "published")
    /\ UNCHANGED <<clock, failures, queue>>

\* The job type has no task.
MarkFailed(p) ==
    /\ Busy(p)
    /\ ~Routable(p)
    /\ Settle(p, "failed")
    /\ UNCHANGED <<clock, failures, queue>>

\* The process dies or a statement fails: the rest of the batch keeps its lease.
\* (Bound: only while the clock can still reach the end of that lease.)
Abandon(p) ==
    /\ Busy(p)
    /\ clock + PublishLease <= MaxClock
    /\ Failure
    /\ publishers' = [publishers EXCEPT ![p] = <<>>]
    /\ UNCHANGED <<clock, outbox, queue>>

\* A run goes on with the batch it has claimed.
GoOn(p) == Dispatch(p) \/ MarkPublished(p) \/ MarkFailed(p)

Publish(p) == ClaimBatch(p) \/ GoOn(p)

-----------------------------------------------------------------------------
(* The outbox by itself.  Its surroundings write a row for an aggregate,   *)
(* take messages from the broker, and, once one of its messages has gone   *)
(* out, write another row for it and discard those that wait.              *)

Sent(a) == \E j \in DOMAIN outbox : outbox[j].aggregate = a /\ outbox[j].sent > 0

AddRow(a) == Enqueue(a) /\ UNCHANGED <<clock, failures, publishers, queue>>

RetryRow(a) ==
    /\ Sent(a)
    /\ Supersede(a)
    /\ UNCHANGED <<clock, failures, publishers, queue>>

Receive(a) ==
    /\ queue[a] > 0
    /\ queue' = [queue EXCEPT ![a] = @ - 1]
    /\ UNCHANGED <<clock, failures, outbox, publishers>>

\* The broker delivers an unacknowledged message again.
Return(a) ==
    /\ Sent(a)
    /\ queue[a] < MaxQueue
    /\ queue' = [queue EXCEPT ![a] = @ + 1]
    /\ UNCHANGED <<clock, failures, outbox, publishers>>

Tick ==
    /\ clock < MaxClock
    /\ clock' = clock + 1
    /\ UNCHANGED <<failures, outbox, publishers, queue>>

Next ==
    \/ Tick
    \/ \E a \in Aggregates : AddRow(a) \/ RetryRow(a) \/ Receive(a) \/ Return(a)
    \/ \E p \in Publishers :
         \/ ClaimBatch(p)
         \/ Dispatch(p)
         \/ DispatchFails(p)
         \/ MarkPublished(p)
         \/ MarkFailed(p)
         \/ Abandon(p)

Spec == Init /\ [][Next]_vars

\* Time passes, and a run that has begun goes on.  Nothing says that a run begins:
\* no schedule or task of the repository sends publish_outbox.
FairSpec ==
    /\ Spec
    /\ WF_vars(Tick)
    /\ \A p \in Publishers : WF_vars(GoOn(p))

-----------------------------------------------------------------------------
(* Properties.                                                             *)

HasClaim(p, j, n) == \E k \in DOMAIN publishers[p] : /\ publishers[p][k].row = j
                                                     /\ publishers[p][k].attempt = n

\* The attempt number that claim_unpublished_batch returns belongs to one
\* publisher, so a publisher that comes back late cannot settle another's claim.
ClaimToken ==
    \A p, q \in Publishers : \A j \in DOMAIN outbox : \A n \in 0..outbox[j].attempt :
        HasClaim(p, j, n) /\ HasClaim(q, j, n) => p = q

\* A row is marked published only after its message went to the broker, and is
\* dispatched at most once for each claim: duplicates come from lost claims only.
DispatchedAtLeastOnce ==
    \A j \in DOMAIN outbox :
        /\ outbox[j].state = "published" => outbox[j].sent > 0
        /\ outbox[j].sent <= outbox[j].attempt

\* While a publish lease is alive the row changes only by a publisher that holds
\* the claim (SKIP LOCKED, the lease and the discard guard keep the others off).
LivePublishLeaseRespected ==
    [][\A j \in DOMAIN outbox :
         /\ outbox[j].state = "waiting"
         /\ outbox[j].lease > clock
         /\ outbox'[j] # [outbox[j] EXCEPT !.sent = outbox'[j].sent]
         => \E p \in Publishers : HasClaim(p, j, outbox[j].attempt)
                                  /\ ~HasClaim(p, j, outbox[j].attempt)']_vars

\* A run comes to the end of its batch, past failed dispatches and rows it has lost to
\* others, and no row it took stays out of reach: the row is settled, or the next run
\* may claim it, also when this one died in the middle.  Whether there is a next run
\* is not said here.
ClaimedRowsComeBack ==
    \A p \in Publishers : \A j \in 1..MaxRows :
        (j \in DOMAIN outbox /\ HasClaim(p, j, outbox[j].attempt))
        ~> (/\ j \in DOMAIN outbox
            /\ \A n \in 0..outbox[j].attempt : ~HasClaim(p, j, n)
            /\ outbox[j].state # "waiting" \/ Claimable(j))

=============================================================================
