--------------------------- MODULE EmbeddingRuns ---------------------------
(***************************************************************************)
(* Embedding runs: the rows of knowledge.embedding_runs, the vectors that  *)
(* each pair of an ingestion item and an embedding model shows, callers of *)
(* EmbeddingLifecycleService.create_run, the workers that run              *)
(* EmbeddingJobHandler.handle, and the recovery task that beat starts.     *)
(*                                                                         *)
(* There is no outbox: a message is sent after the commit of the run, and  *)
(* when that fails the recovery task has to find the run.                  *)
(*                                                                         *)
(* Time is abstract.  A lease is live until it expires, which can happen   *)
(* at any moment, and a renewal that comes in time changes nothing.        *)
(* Statements compare it with now() of their transaction's beginning, so   *)
(* an expired lease may still count for them (OwnedBy, Renew).             *)
(***************************************************************************)
EXTENDS Naturals, Sequences, FiniteSets

CONSTANTS
    Targets,        \* the pairs of an ingestion item and an embedding model
    Requests,       \* the requests that create runs
    Workers,        \* the worker processes
    Recoveries,     \* the processes that run recover_embeddings
    MaxAttempts,    \* EMBEDDING_MAX_ATTEMPTS
    BatchSize,      \* EMBEDDING_RECOVERY_BATCH_SIZE
    MaxRuns,        \* bound: how many runs are created
    MaxFailures,    \* bound: how many crashes, errors and broker failures happen
    NoTarget        \* stands for "no target"

ASSUME EmbeddingAssumption ==
    /\ MaxAttempts \in Nat \ {0}
    /\ BatchSize \in Nat \ {0}
    /\ MaxRuns \in Nat
    /\ MaxFailures \in Nat
    /\ NoTarget \notin Targets

VARIABLES
    runs,           \* the rows, oldest first
    vectors,        \* the run and attempt whose vectors each target shows
    queue,          \* the runs with a message in the broker
    requests,       \* what each request is doing
    workers,        \* what each worker is doing
    recoveries,     \* what each recovery is doing
    failures        \* the crashes, errors and broker failures so far

vars == <<runs, vectors, queue, requests, workers, recoveries, failures>>

-----------------------------------------------------------------------------

\* old: created_at is at least the recovery age ago.
Run == {r \in [target : Targets, status : {"PENDING", "RUNNING", "COMPLETED", "FAILED"},
               attempt : 0..MaxAttempts, lease : {"none", "live", "expired"}, old : BOOLEAN] :
          (r.status = "RUNNING") <=> (r.lease # "none")}

NoVectors == [run |-> 0, attempt |-> 0]

\* checked: no run of the target was in flight.  dispatching: the run is committed.
IdleRequest == [step |-> "idle", target |-> NoTarget, run |-> 0]

\* processing: from the claim to the transaction that ends the attempt; it only reads
\* until then.  dispatching: the run is released and committed.
IdleWorker == [step |-> "idle", run |-> 0, attempt |-> 0]

\* reaping, pending, expired: about to run that transaction.  dispatching: the
\* message of each run in todo is sent.
IdleRecovery == [step |-> "reaping", todo |-> {}]

TypeOK ==
    /\ runs \in Seq(Run)
    /\ Len(runs) <= MaxRuns
    /\ vectors \in [Targets -> [run : {0} \cup DOMAIN runs, attempt : 0..MaxAttempts]]
    /\ queue \subseteq DOMAIN runs
    /\ requests \in [Requests -> [step : {"idle", "checked", "dispatching"},
                                  target : Targets \cup {NoTarget},
                                  run : {0} \cup DOMAIN runs]]
    /\ workers \in [Workers -> [step : {"idle", "processing", "dispatching"},
                                run : {0} \cup DOMAIN runs, attempt : 0..MaxAttempts]]
    /\ recoveries \in [Recoveries -> [step : {"reaping", "pending", "expired", "dispatching"},
                                      todo : SUBSET DOMAIN runs]]
    /\ failures \in 0..MaxFailures

Init ==
    /\ runs = <<>>
    /\ vectors = [t \in Targets |-> NoVectors]
    /\ queue = {}
    /\ requests = [c \in Requests |-> IdleRequest]
    /\ workers = [w \in Workers |-> IdleWorker]
    /\ recoveries = [q \in Recoveries |-> IdleRecovery]
    /\ failures = 0

Failure == failures < MaxFailures /\ failures' = failures + 1

-----------------------------------------------------------------------------
(* The rows that the statements match.                                     *)

Ended(j) == runs[j].status \in {"COMPLETED", "FAILED"}

InFlight(t) == {j \in DOMAIN runs : runs[j].target = t /\ ~Ended(j)}

\* WHERE clause of claim_run.
Claimable(j) ==
    /\ runs[j].attempt < MaxAttempts
    /\ runs[j].status = "PENDING" \/ runs[j].lease = "expired"

OwnedByAnyAttempt(j, n) == runs[j].status = "RUNNING"

OwnedInAnyStatus(j, n) == runs[j].attempt = n

\* WHERE clause of _owned_by.  It compares the lease with now(), which was fixed when
\* the transaction began: a lease that has expired since then, or was even found expired
\* by a recovery, still counts.  So an expired lease may count or not (LoseLease).
OwnedBy(j, n) ==
    /\ runs[j].status = "RUNNING"
    /\ runs[j].attempt = n

Owns(w) == OwnedBy(workers[w].run, workers[w].attempt)

\* ORDER BY created_at LIMIT BatchSize.
Oldest(S) == {j \in S : Cardinality({k \in S : k < j}) < BatchSize}

\* ORDER BY lease_expires_at LIMIT BatchSize: the expiry times are not modelled, so
\* the earliest may be any.
Some(S) == {T \in SUBSET S : \/ T = S /\ Cardinality(S) <= BatchSize
                             \/ Cardinality(T) = BatchSize}

ReleasedKeepingLease(S, status) ==
    [j \in DOMAIN runs |-> IF j \in S THEN [runs[j] EXCEPT !.status = status] ELSE runs[j]]

\* Rows after a statement that ends an attempt: the lease is given up.
Released(S, status) ==
    [j \in DOMAIN runs |-> IF j \in S
                           THEN [runs[j] EXCEPT !.status = status, !.lease = "none"]
                           ELSE runs[j]]

-----------------------------------------------------------------------------
(* EmbeddingLifecycleService.create_run.                                   *)

\* find_in_flight_run; if there is one, EmbeddingRunAlreadyInFlight.
CheckInFlight(c, t) ==
    /\ requests[c].step = "idle"
    /\ InFlight(t) = {}
    /\ requests' = [requests EXCEPT ![c] = [IdleRequest EXCEPT !.step = "checked", !.target = t]]
    /\ UNCHANGED <<runs, vectors, queue, workers, recoveries, failures>>

\* The run is inserted and committed.
Add(c) ==
    /\ requests[c].step = "checked"
    /\ Len(runs) < MaxRuns
    /\ runs' = Append(runs, [target |-> requests[c].target, status |-> "PENDING",
                             attempt |-> 0, lease |-> "none", old |-> FALSE])
    /\ requests' = [requests EXCEPT ![c].step = "dispatching", ![c].run = Len(runs')]
    /\ UNCHANGED <<vectors, queue, workers, recoveries, failures>>

AddUnguarded(c) == Add(c)

\* The unique index uq_embedding_runs_in_flight lets it in ...
AddRun(c) == Add(c) /\ InFlight(requests[c].target) = {}

\* ... or not: the error goes to the caller.
AddRefused(c) ==
    /\ requests[c].step = "checked"
    /\ InFlight(requests[c].target) # {}
    /\ requests' = [requests EXCEPT ![c] = IdleRequest]
    /\ UNCHANGED <<runs, vectors, queue, workers, recoveries, failures>>

\* _dispatch_best_effort; when dispatching raises, or the process dies before it, the
\* run stays without a message.
DispatchCreated(c) ==
    /\ requests[c].step = "dispatching"
    /\ \/ queue' = queue \cup {requests[c].run} /\ UNCHANGED failures
       \/ Failure /\ UNCHANGED queue
    /\ requests' = [requests EXCEPT ![c] = IdleRequest]
    /\ UNCHANGED <<runs, vectors, workers, recoveries>>

-----------------------------------------------------------------------------
(* EmbeddingJobHandler.handle.                                             *)

Stop(w) == workers' = [workers EXCEPT ![w] = IdleWorker]

\* The broker hands out a message of run j; another of the same run may be left.
Take(w, j) ==
    /\ workers[w].step = "idle"
    /\ j \in queue
    /\ queue' \in {queue, queue \ {j}}

ClaimRun(j) ==
    /\ Claimable(j)
    /\ runs' = [runs EXCEPT ![j].status = "RUNNING", ![j].attempt = @ + 1,
                            ![j].lease = "live"]

Claim(w, j) ==
    /\ Take(w, j)
    /\ ClaimRun(j)
    /\ workers' = [workers EXCEPT ![w] = [step |-> "processing", run |-> j,
                                          attempt |-> runs'[j].attempt]]
    /\ UNCHANGED <<vectors, requests, recoveries, failures>>

ClaimRefused(w, j) ==
    /\ Take(w, j)
    /\ ~Claimable(j)
    /\ UNCHANGED <<runs, vectors, requests, workers, recoveries, failures>>

\* The claim is committed, its answer is lost, and the error uses the message up.
ClaimAnswerLost(w, j) ==
    /\ Take(w, j)
    /\ ClaimRun(j)
    /\ Failure
    /\ UNCHANGED <<vectors, requests, workers, recoveries>>

\* persist_vectors_and_mark_completed: the vectors of the target's chunks are
\* replaced, and the run is completed, if it is still this attempt's.
PersistRun(w) ==
    LET j == workers[w].run IN
    /\ workers[w].step = "processing"
    /\ Owns(w)
    /\ runs' = Released({j}, "COMPLETED")
    /\ vectors' = [vectors EXCEPT ![runs[j].target] = [run |-> j, attempt |-> workers[w].attempt]]

Persist(w) ==
    /\ PersistRun(w)
    /\ Stop(w)
    /\ UNCHANGED <<queue, requests, recoveries, failures>>

\* It is committed and its answer is lost: an unknown failure for the handler, which
\* goes on to schedule_retry.
PersistAnswerLost(w) ==
    /\ PersistRun(w)
    /\ Failure
    /\ UNCHANGED <<queue, requests, workers, recoveries>>

\* After a permanent error, or after any other one in the last attempt.
MarkFailed(w) ==
    /\ workers[w].step = "processing"
    /\ Owns(w)
    /\ runs' = Released({workers[w].run}, "FAILED")
    /\ Stop(w)
    /\ UNCHANGED <<vectors, queue, requests, recoveries, failures>>

\* After a transient or unexpected error.
ScheduleRetry(w) ==
    /\ workers[w].step = "processing"
    /\ workers[w].attempt < MaxAttempts
    /\ Owns(w)
    /\ runs' = Released({workers[w].run}, "PENDING")
    /\ workers' = [workers EXCEPT ![w].step = "dispatching"]
    /\ UNCHANGED <<vectors, queue, requests, recoveries, failures>>

\* The heartbeat renews a lease that has expired since the renewal began.  One that is
\* alive stays so.
Renew(w) ==
    LET j == workers[w].run IN
    /\ workers[w].step = "processing"
    /\ Owns(w)
    /\ runs[j].lease = "expired"
    /\ runs' = [runs EXCEPT ![j].lease = "live"]
    /\ UNCHANGED <<vectors, queue, requests, workers, recoveries, failures>>

\* The heartbeat finds the lease lost and cancels the processor, or the statement
\* that ends the attempt matches no row and is rolled back: nothing more is done.
LoseLease(w) ==
    /\ workers[w].step = "processing"
    /\ Owns(w) => runs[workers[w].run].lease = "expired"
    /\ Stop(w)
    /\ UNCHANGED <<runs, vectors, queue, requests, recoveries, failures>>

\* _dispatch_best_effort after the retry was committed.
DispatchRetry(w) ==
    /\ workers[w].step = "dispatching"
    /\ \/ queue' = queue \cup {workers[w].run} /\ UNCHANGED failures
       \/ Failure /\ UNCHANGED queue
    /\ Stop(w)
    /\ UNCHANGED <<runs, vectors, requests, recoveries>>

\* The process dies and its message goes back to the queue, or a statement fails
\* and the error uses the message up.
Fail(w) ==
    /\ workers[w].step # "idle"
    /\ Failure
    /\ queue' \in {queue, queue \cup {workers[w].run}}
    /\ Stop(w)
    /\ UNCHANGED <<runs, vectors, requests, recoveries>>

-----------------------------------------------------------------------------
(* EmbeddingRecoveryService.recover.                                       *)

GoOn(q, step, more) ==
    recoveries' = [recoveries EXCEPT ![q] = [step |-> step, todo |-> @.todo \cup more]]

ExhaustedOffByOne ==
    {j \in DOMAIN runs : runs[j].lease = "expired" /\ runs[j].attempt > MaxAttempts}

\* WHERE clause of fail_exhausted_expired_runs.
Exhausted == {j \in DOMAIN runs : runs[j].lease = "expired" /\ runs[j].attempt >= MaxAttempts}

ReapExpired(q) ==
    /\ recoveries[q].step = "reaping"
    /\ runs' = Released(Exhausted, "FAILED")
    /\ GoOn(q, "pending", {})
    /\ UNCHANGED <<vectors, queue, requests, workers, failures>>

FindStalePending(q) ==
    /\ recoveries[q].step = "pending"
    /\ GoOn(q, "expired", Oldest({j \in DOMAIN runs : runs[j].status = "PENDING" /\ runs[j].old}))
    /\ UNCHANGED <<runs, vectors, queue, requests, workers, failures>>

FindExpired(q) ==
    /\ recoveries[q].step = "expired"
    /\ \E found \in Some({j \in DOMAIN runs : runs[j].lease = "expired"}) :
         GoOn(q, "dispatching", found)
    /\ UNCHANGED <<runs, vectors, queue, requests, workers, failures>>

\* One message is sent, or dispatching it raises.
Redispatch(q) ==
    /\ recoveries[q].step = "dispatching"
    /\ \E j \in recoveries[q].todo :
         /\ \/ queue' = queue \cup {j} /\ UNCHANGED failures
            \/ Failure /\ UNCHANGED queue
         /\ recoveries' = [recoveries EXCEPT ![q].todo = @ \ {j}]
    /\ UNCHANGED <<runs, vectors, requests, workers>>

\* recover returns; beat starts it again.
Recovered(q) ==
    /\ recoveries[q].step = "dispatching"
    /\ recoveries[q].todo = {}
    /\ recoveries' = [recoveries EXCEPT ![q] = IdleRecovery]
    /\ UNCHANGED <<runs, vectors, queue, requests, workers, failures>>

\* The process dies, or a statement fails: what it had found is forgotten.
FailRecovery(q) ==
    /\ recoveries[q] # IdleRecovery
    /\ Failure
    /\ recoveries' = [recoveries EXCEPT ![q] = IdleRecovery]
    /\ UNCHANGED <<runs, vectors, queue, requests, workers>>

Recover(q) ==
    ReapExpired(q) \/ FindStalePending(q) \/ FindExpired(q) \/ Redispatch(q) \/ Recovered(q)

-----------------------------------------------------------------------------
(* Time and the broker.                                                    *)

Expire(j) ==
    /\ runs[j].lease = "live"
    /\ runs' = [runs EXCEPT ![j].lease = "expired"]
    /\ UNCHANGED <<vectors, queue, requests, workers, recoveries, failures>>

\* The age of a run that has ended plays no part.
Age(j) ==
    /\ ~runs[j].old
    /\ ~Ended(j)
    /\ runs' = [runs EXCEPT ![j].old = TRUE]
    /\ UNCHANGED <<vectors, queue, requests, workers, recoveries, failures>>

\* A message whose task takes longer than the visibility timeout comes again.
Redeliver(w) ==
    /\ workers[w].step # "idle"
    /\ workers[w].run \notin queue
    /\ queue' = queue \cup {workers[w].run}
    /\ UNCHANGED <<runs, vectors, requests, workers, recoveries, failures>>

-----------------------------------------------------------------------------

Proceed(w) ==
    \/ Persist(w)
    \/ MarkFailed(w)
    \/ ScheduleRetry(w)
    \/ LoseLease(w)
    \/ DispatchRetry(w)

Receive(w, j) == Claim(w, j) \/ ClaimRefused(w, j)

Next ==
    \/ \E c \in Requests :
         \/ \E t \in Targets : CheckInFlight(c, t)
         \/ AddRun(c)
         \/ AddRefused(c)
         \/ DispatchCreated(c)
    \/ \E w \in Workers :
         \/ \E j \in DOMAIN runs : Receive(w, j) \/ ClaimAnswerLost(w, j)
         \/ Proceed(w)
         \/ Renew(w)
         \/ PersistAnswerLost(w)
         \/ Fail(w)
         \/ Redeliver(w)
    \/ \E q \in Recoveries : Recover(q) \/ FailRecovery(q)
    \/ \E j \in DOMAIN runs : Expire(j) \/ Age(j)

Spec == Init /\ [][Next]_vars

\* A lease that no handler renews runs out, and rows grow old.
TimePasses ==
    \A j \in 1..MaxRuns :
        /\ WF_vars(/\ j \in DOMAIN runs
                   /\ \A w \in Workers : workers[w].run # j
                   /\ Expire(j))
        /\ WF_vars(j \in DOMAIN runs /\ Age(j))

\* Celery runs workers for ever and gives each waiting message its turn; beat starts
\* the recovery again and again.
FairSpec ==
    /\ Spec
    /\ TimePasses
    /\ \A w \in Workers : WF_vars(Proceed(w))
    /\ \A j \in 1..MaxRuns : SF_vars(j \in DOMAIN runs /\ \E w \in Workers : Receive(w, j))
    /\ \A q \in Recoveries : WF_vars(Recover(q))

-----------------------------------------------------------------------------
(* Properties.                                                             *)

\* However requests race, a target never has two runs in flight.
OneRunInFlight == \A t \in Targets : \A j, k \in InFlight(t) : j = k

\* A target shows the vectors of its newest completed run, written by the attempt
\* that completed it, and no others: neither an older run that finishes late, nor a
\* given-up attempt, replaces them.
VectorsOfNewestCompletedRun ==
    \A t \in Targets :
        LET completed == {j \in DOMAIN runs : runs[j].target = t /\ runs[j].status = "COMPLETED"}
        IN  IF completed = {}
            THEN vectors[t] = NoVectors
            ELSE \E j \in completed :
                   /\ \A k \in completed : k <= j
                   /\ vectors[t] = [run |-> j, attempt |-> runs[j].attempt]

\* A run that has ended stays as it is: late workers, lost answers, recoveries and
\* redeliveries do not start it again or end it twice.
EndedRunsStay == [][\A j \in DOMAIN runs : Ended(j) => runs'[j] = runs[j]]_vars

\* Every run ends, although nothing but a best-effort message starts it and recovery
\* sends only BatchSize messages at a time: "PostgreSQL keeps the PENDING run
\* durable; the recovery task will redispatch it."
EveryRunEnds ==
    \A j \in 1..MaxRuns : (j \in DOMAIN runs) ~> (j \in DOMAIN runs /\ Ended(j))

=============================================================================
