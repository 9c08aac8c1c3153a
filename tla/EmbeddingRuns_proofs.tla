------------------------- MODULE EmbeddingRuns_proofs -------------------------
(***************************************************************************)
(* Proofs about EmbeddingRuns, for any targets, requests, workers,         *)
(* recoveries and numbers of attempts, runs and failures.                  *)
(***************************************************************************)
EXTENDS EmbeddingRuns, SequenceTheorems, TLAPS

-----------------------------------------------------------------------------
(* The inductive invariant.                                                *)

\* A run that has not ended is the newest of its target.
InFlightIsNewest ==
    \A j, k \in DOMAIN runs : ~Ended(j) /\ runs[k].target = runs[j].target => k <= j

\* What a request goes on with is there.
RequestsNamed ==
    \A c \in Requests :
        /\ requests[c].step = "checked" => requests[c].target \in Targets
        /\ requests[c].step = "dispatching" => requests[c].run \in DOMAIN runs

\* The attempt number that a worker carries was handed out by the run: numbers
\* to come are larger.
AttemptsHandedOut ==
    \A w \in Workers :
        workers[w].step # "idle" => /\ workers[w].run \in DOMAIN runs
                                    /\ workers[w].attempt <= runs[workers[w].run].attempt

\* Two workers never process a run in the same attempt.
AttemptsApart ==
    \A v, w \in Workers :
        /\ v # w
        /\ workers[v].step = "processing" /\ workers[w].step = "processing"
        /\ workers[v].run = workers[w].run
        => workers[v].attempt # workers[w].attempt

EInv ==
    /\ TypeOK
    /\ RequestsNamed
    /\ AttemptsHandedOut
    /\ AttemptsApart
    /\ InFlightIsNewest
    /\ VectorsOfNewestCompletedRun

-----------------------------------------------------------------------------
(* Rows.                                                                   *)

\* A function on 1..n is a sequence.
LEMMA FunctionIsSequence ==
    ASSUME NEW S, NEW n \in Nat, NEW f \in [1..n -> S]
    PROVE  f \in Seq(S) /\ Len(f) = n
BY SeqDef, LenProperties

\* The rows are a function.
LEMMA RunsAreRows ==
    ASSUME TypeOK
    PROVE  Len(runs) \in Nat /\ DOMAIN runs = 1..Len(runs) /\ runs \in [1..Len(runs) -> Run]
BY LenProperties DEF TypeOK

\* The rows are still there, and no attempt number has gone back.
RowsGrow ==
    /\ runs' \in Seq(Run)
    /\ DOMAIN runs \subseteq DOMAIN runs'
    /\ \A j \in DOMAIN runs : /\ runs'[j].target = runs[j].target
                              /\ runs'[j].attempt >= runs[j].attempt

\* The same rows are still there.
RowsStay == RowsGrow /\ Len(runs') = Len(runs) /\ DOMAIN runs' = DOMAIN runs

\* One row is written.
LEMMA RowWritten ==
    ASSUME TypeOK, NEW j \in DOMAIN runs, NEW R \in Run,
           R.target = runs[j].target, R.attempt >= runs[j].attempt,
           runs' = [runs EXCEPT ![j] = R]
    PROVE  RowsStay /\ runs'[j] = R /\ \A k \in DOMAIN runs \ {j} : runs'[k] = runs[k]
<1>1. Len(runs) \in Nat /\ DOMAIN runs = 1..Len(runs) /\ runs \in [1..Len(runs) -> Run]
  BY RunsAreRows
<1>2. runs' \in [1..Len(runs) -> Run] /\ runs'[j] = R
      /\ \A k \in DOMAIN runs \ {j} : runs'[k] = runs[k]
  BY <1>1
<1>3. runs' \in Seq(Run) /\ Len(runs') = Len(runs)
  BY <1>1, <1>2, FunctionIsSequence
<1>4. \A k \in DOMAIN runs : runs[k].attempt \in Nat
  BY <1>1, EmbeddingAssumption DEF Run
<1>5. \A k \in DOMAIN runs : /\ runs'[k].target = runs[k].target
                             /\ runs'[k].attempt >= runs[k].attempt
  BY <1>2, <1>4
<1> QED
  BY <1>1, <1>2, <1>3, <1>5 DEF RowsStay, RowsGrow

\* An attempt is ended: the rows of S get the status and give up the lease.
LEMMA RowsReleased ==
    ASSUME TypeOK, NEW S, NEW status \in {"PENDING", "COMPLETED", "FAILED"},
           runs' = Released(S, status)
    PROVE  /\ RowsStay
           /\ \A j \in DOMAIN runs :
                /\ runs'[j].attempt = runs[j].attempt
                /\ j \in S => runs'[j].status = status
                /\ j \notin S => runs'[j] = runs[j]
<1>1. Len(runs) \in Nat /\ DOMAIN runs = 1..Len(runs) /\ runs \in [1..Len(runs) -> Run]
  BY RunsAreRows
<1>2. ASSUME NEW j \in DOMAIN runs
      PROVE  /\ runs'[j] \in Run
             /\ runs'[j].target = runs[j].target
             /\ runs'[j].attempt = runs[j].attempt
             /\ runs[j].attempt \in Nat
             /\ j \in S => runs'[j].status = status
             /\ j \notin S => runs'[j] = runs[j]
  <2> DEFINE R == [runs[j] EXCEPT !.status = status, !.lease = "none"]
  <2>1. runs'[j] = IF j \in S THEN R ELSE runs[j]
    BY DEF Released
  <2>2. runs[j] \in Run /\ runs[j].attempt \in Nat
    BY <1>1, EmbeddingAssumption DEF Run
  <2>3. /\ R \in Run /\ R.target = runs[j].target /\ R.attempt = runs[j].attempt
        /\ R.status = status
    BY <2>2 DEF Run
  <2> HIDE DEF R
  <2> QED
    BY <2>1, <2>2, <2>3
<1>3. runs' \in [1..Len(runs) -> Run]
  BY <1>1, <1>2 DEF Released
<1>4. runs' \in Seq(Run) /\ Len(runs') = Len(runs) /\ DOMAIN runs' = DOMAIN runs
  BY <1>1, <1>3, FunctionIsSequence
<1> QED
  BY <1>2, <1>4 DEF RowsStay, RowsGrow

-----------------------------------------------------------------------------
(* What a step on existing rows leaves.                                    *)

Request == [step : {"idle", "checked", "dispatching"}, target : Targets \cup {NoTarget},
            run : {0} \cup DOMAIN runs]
Worker == [step : {"idle", "processing", "dispatching"}, run : {0} \cup DOMAIN runs,
           attempt : 0..MaxAttempts]
Recovery == [step : {"reaping", "pending", "expired", "dispatching"}, todo : SUBSET DOMAIN runs]
Shown == [run : {0} \cup DOMAIN runs, attempt : 0..MaxAttempts]

\* Runs that have ended stay as they are.
EndedStay == \A j \in DOMAIN runs : Ended(j) => runs'[j] = runs[j]

\* A worker that is not idle afterwards is where it was, or on its way out.
NoWorkerStarts ==
    \A w \in Workers :
        \/ workers'[w].step = "idle"
        \/ /\ workers[w].step # "idle"
           /\ workers'[w].run = workers[w].run
           /\ workers'[w].attempt = workers[w].attempt
           /\ workers'[w].step = "processing" => workers[w].step = "processing"

\* The numbers in use stay handed out, and the handlers apart.
LEMMA AttemptsKept ==
    ASSUME EInv, RowsGrow, NoWorkerStarts
    PROVE  AttemptsHandedOut' /\ AttemptsApart'
<1>1. AttemptsHandedOut'
  <2> SUFFICES ASSUME NEW w \in Workers, workers'[w].step # "idle"
               PROVE  /\ workers'[w].run \in DOMAIN runs'
                      /\ workers'[w].attempt <= runs'[workers'[w].run].attempt
    BY DEF AttemptsHandedOut
  <2>1. /\ workers'[w].run = workers[w].run /\ workers'[w].attempt = workers[w].attempt
        /\ workers[w].run \in DOMAIN runs
        /\ workers[w].attempt <= runs[workers[w].run].attempt
    BY DEF NoWorkerStarts, EInv, AttemptsHandedOut
  <2>2. /\ runs'[workers[w].run].attempt >= runs[workers[w].run].attempt
        /\ workers[w].run \in DOMAIN runs'
    BY <2>1 DEF RowsGrow
  <2>3. /\ workers[w].attempt \in Nat /\ runs[workers[w].run].attempt \in Nat
        /\ runs'[workers[w].run].attempt \in Nat
    BY <2>1, <2>2, RunsAreRows, LenProperties, EmbeddingAssumption
       DEF EInv, TypeOK, Run, RowsGrow
  <2> QED
    BY <2>1, <2>2, <2>3
<1>2. AttemptsApart'
  BY DEF NoWorkerStarts, EInv, AttemptsApart
<1> QED
  BY <1>1, <1>2

\* Nothing is completed, so what the targets show is right as it was.
LEMMA VectorsKept ==
    ASSUME TypeOK, VectorsOfNewestCompletedRun, RowsStay, EndedStay, UNCHANGED vectors,
           \A j \in DOMAIN runs : runs'[j].status = "COMPLETED" => runs[j].status = "COMPLETED"
    PROVE  VectorsOfNewestCompletedRun'
<1> SUFFICES ASSUME NEW t \in Targets
             PROVE  LET completed == {j \in DOMAIN runs' : runs'[j].target = t
                                                           /\ runs'[j].status = "COMPLETED"}
                    IN  IF completed = {}
                        THEN vectors'[t] = NoVectors
                        ELSE \E j \in completed :
                               /\ \A k \in completed : k <= j
                               /\ vectors'[t] = [run |-> j, attempt |-> runs'[j].attempt]
  BY DEF VectorsOfNewestCompletedRun, NoVectors
<1> DEFINE completed == {j \in DOMAIN runs : runs[j].target = t /\ runs[j].status = "COMPLETED"}
<1>1. completed = {j \in DOMAIN runs' : runs'[j].target = t /\ runs'[j].status = "COMPLETED"}
  BY DEF RowsStay, RowsGrow, EndedStay, Ended
<1>2. \A j \in completed : runs'[j] = runs[j]
  BY DEF EndedStay, Ended
<1>3. IF completed = {}
      THEN vectors[t] = NoVectors
      ELSE \E j \in completed :
             /\ \A k \in completed : k <= j
             /\ vectors[t] = [run |-> j, attempt |-> runs[j].attempt]
  BY DEF VectorsOfNewestCompletedRun
<1> HIDE DEF completed
<1> QED
  BY <1>1, <1>2, <1>3

\* A step that writes rows, and says what it does elsewhere.
LEMMA StepOnRows ==
    ASSUME EInv, RowsStay, EndedStay,
           vectors' \in [Targets -> Shown], queue' \subseteq DOMAIN runs,
           requests' \in [Requests -> Request], workers' \in [Workers -> Worker],
           recoveries' \in [Recoveries -> Recovery], Failure \/ UNCHANGED failures,
           RequestsNamed', AttemptsHandedOut', AttemptsApart', VectorsOfNewestCompletedRun'
    PROVE  EInv'
<1>1. failures' \in 0..MaxFailures
  BY EmbeddingAssumption DEF EInv, TypeOK, Failure
<1>2. runs' \in Seq(Run) /\ Len(runs') = Len(runs) /\ DOMAIN runs' = DOMAIN runs
  BY DEF RowsStay, RowsGrow
<1>3. TypeOK'
  BY <1>1, <1>2 DEF EInv, TypeOK, Request, Worker, Recovery, Shown
<1>4. InFlightIsNewest'
  BY DEF EInv, InFlightIsNewest, RowsStay, RowsGrow, EndedStay, Ended
<1> QED
  BY <1>3, <1>4 DEF EInv

\* Rows that are not written are the same.
LEMMA SameRows ==
    ASSUME TypeOK, UNCHANGED runs
    PROVE  RowsStay /\ EndedStay
<1>1. \A j \in DOMAIN runs : runs[j].attempt \in Nat
  BY RunsAreRows, EmbeddingAssumption DEF Run
<1> QED
  BY <1>1 DEF TypeOK, RowsStay, RowsGrow, EndedStay

\* A step that completes no run and starts no worker.
LEMMA QuietStep ==
    ASSUME EInv, RowsStay, EndedStay, UNCHANGED vectors,
           \A j \in DOMAIN runs : runs'[j].status = "COMPLETED" => runs[j].status = "COMPLETED",
           queue' \subseteq DOMAIN runs, requests' \in [Requests -> Request],
           workers' \in [Workers -> Worker], recoveries' \in [Recoveries -> Recovery],
           Failure \/ UNCHANGED failures, RequestsNamed', NoWorkerStarts
    PROVE  EInv'
<1>1. AttemptsHandedOut' /\ AttemptsApart'
  BY AttemptsKept DEF RowsStay
<1>2. VectorsOfNewestCompletedRun'
  BY VectorsKept DEF EInv
<1>3. vectors' \in [Targets -> Shown]
  BY DEF EInv, TypeOK, Shown
<1> QED
  BY <1>1, <1>2, <1>3, StepOnRows

\* What a step leaves alone has its types still.
LEMMA Typed ==
    ASSUME EInv
    PROVE  /\ queue \subseteq DOMAIN runs
           /\ vectors \in [Targets -> Shown]
           /\ requests \in [Requests -> Request]
           /\ workers \in [Workers -> Worker]
           /\ recoveries \in [Recoveries -> Recovery]
BY DEF EInv, TypeOK, Request, Worker, Recovery, Shown

\* Requests stay named while rows and requests do.
LEMMA RequestsStay ==
    ASSUME EInv, RowsStay, UNCHANGED requests
    PROVE  RequestsNamed'
BY DEF EInv, RequestsNamed, RowsStay

\* Workers that stay where they are do not start.
LEMMA WorkersStay ==
    ASSUME UNCHANGED workers
    PROVE  NoWorkerStarts
BY DEF NoWorkerStarts

-----------------------------------------------------------------------------
(* create_run.                                                             *)

\* A request looks, is refused, or sends its message.
LEMMA RequestStep ==
    ASSUME EInv, NEW c \in Requests,
           \/ \E t \in Targets : CheckInFlight(c, t)
           \/ AddRefused(c)
           \/ DispatchCreated(c)
    PROVE  EInv' /\ EndedStay
<1> DEFINE Checked(t) == [IdleRequest EXCEPT !.step = "checked", !.target = t]
<1>1. /\ UNCHANGED <<runs, vectors, workers, recoveries>>
      /\ Failure \/ UNCHANGED failures
      /\ queue' = queue \/ (queue' = queue \cup {requests[c].run}
                            /\ requests[c].step = "dispatching")
      /\ \/ \E t \in Targets : requests' = [requests EXCEPT ![c] = Checked(t)]
         \/ requests' = [requests EXCEPT ![c] = IdleRequest]
  BY DEF CheckInFlight, AddRefused, DispatchCreated
<1>2. /\ IdleRequest \in Request /\ IdleRequest.step = "idle"
      /\ \A t \in Targets : /\ Checked(t) \in Request
                            /\ Checked(t).step = "checked" /\ Checked(t).target = t
  BY DEF IdleRequest, Request
<1> HIDE DEF Checked
<1>3. requests' \in [Requests -> Request]
  BY <1>1, <1>2, Typed
<1>4. RequestsNamed'
  BY <1>1, <1>2, Typed DEF EInv, RequestsNamed
<1>5. queue' \subseteq DOMAIN runs
  BY <1>1, Typed DEF EInv, RequestsNamed
<1>6. RowsStay /\ EndedStay
  BY <1>1, SameRows DEF EInv
<1> QED
  BY <1>1, <1>3, <1>4, <1>5, <1>6, Typed, WorkersStay, QuietStep

\* A run is added when its target has none in flight: it is the newest, and ends
\* after all that were completed.
LEMMA AddRunStep ==
    ASSUME EInv, NEW c \in Requests, AddRun(c)
    PROVE  EInv' /\ EndedStay
<1> DEFINE t == requests[c].target
           n == Len(runs) + 1
           R == [target |-> t, status |-> "PENDING", attempt |-> 0, lease |-> "none", old |-> FALSE]
<1>1. /\ requests[c].step = "checked" /\ Len(runs) < MaxRuns /\ runs' = Append(runs, R)
      /\ requests' = [requests EXCEPT ![c].step = "dispatching", ![c].run = Len(runs')]
      /\ UNCHANGED <<vectors, queue, workers, recoveries, failures>>
      /\ InFlight(t) = {}
  BY DEF AddRun, Add
<1>2. t \in Targets
  BY <1>1 DEF EInv, RequestsNamed
<1>3. R \in Run /\ R.target = t /\ R.status = "PENDING" /\ R.attempt = 0
  BY <1>2, EmbeddingAssumption DEF Run
<1>4. Len(runs) \in Nat /\ DOMAIN runs = 1..Len(runs) /\ runs \in [1..Len(runs) -> Run]
      /\ runs \in Seq(Run)
  BY RunsAreRows DEF EInv, TypeOK
<1> HIDE DEF R
<1>5. /\ runs' \in Seq(Run) /\ Len(runs') = n /\ runs'[n] = R
      /\ \A j \in DOMAIN runs : runs'[j] = runs[j]
  BY <1>1, <1>3, <1>4, AppendProperties
<1>6. DOMAIN runs' = DOMAIN runs \cup {n} /\ n \notin DOMAIN runs /\ \A j \in DOMAIN runs : j <= n
  BY <1>4, <1>5, LenProperties
<1>7. Len(runs') <= MaxRuns
  BY <1>1, <1>4, <1>5, EmbeddingAssumption
<1>8. RowsGrow
  BY <1>4, <1>5, <1>6, EmbeddingAssumption DEF RowsGrow, Run
<1>9. AttemptsHandedOut' /\ AttemptsApart'
  BY <1>1, <1>8, AttemptsKept, WorkersStay
<1>10. requests' \in [Requests -> [step : {"idle", "checked", "dispatching"},
                                   target : Targets \cup {NoTarget},
                                   run : {0} \cup DOMAIN runs']]
       /\ RequestsNamed'
  <2> DEFINE Q == [requests[c] EXCEPT !.step = "dispatching", !.run = n]
  <2>1. requests' = [requests EXCEPT ![c] = Q]
    BY <1>1, <1>5, Zenon
  <2>2. \A d \in Requests : requests[d] \in Request
    BY Typed
  <2>3. Q.step = "dispatching" /\ Q.run = n /\ Q.target = t
    BY <2>2 DEF Request
  <2>4. Q \in [step : {"idle", "checked", "dispatching"}, target : Targets \cup {NoTarget},
               run : {0} \cup DOMAIN runs']
    BY <1>6, <2>2 DEF Request
  <2> HIDE DEF Q
  <2>5. requests'[c] = Q /\ \A d \in Requests \ {c} : requests'[d] = requests[d]
    BY <2>1, Typed
  <2>6. \A d \in Requests : requests'[d] \in [step : {"idle", "checked", "dispatching"},
                target : Targets \cup {NoTarget}, run : {0} \cup DOMAIN runs']
    BY <1>6, <2>2, <2>4, <2>5 DEF Request
  <2>7. requests' \in [Requests -> [step : {"idle", "checked", "dispatching"},
                target : Targets \cup {NoTarget}, run : {0} \cup DOMAIN runs']]
    BY <2>1, <2>6, Typed
  <2>8. RequestsNamed'
    BY <1>6, <2>3, <2>5 DEF EInv, RequestsNamed
  <2> QED
    BY <2>7, <2>8
<1>11. /\ vectors' \in [Targets -> [run : {0} \cup DOMAIN runs', attempt : 0..MaxAttempts]]
       /\ queue' \subseteq DOMAIN runs' /\ failures' \in 0..MaxFailures
  BY <1>1, <1>6 DEF EInv, TypeOK
<1>12. workers' \in [Workers -> [step : {"idle", "processing", "dispatching"},
                                 run : {0} \cup DOMAIN runs', attempt : 0..MaxAttempts]]
  BY <1>1, <1>6 DEF EInv, TypeOK
<1>13. recoveries' \in [Recoveries -> [step : {"reaping", "pending", "expired", "dispatching"},
                                       todo : SUBSET DOMAIN runs']]
  BY <1>1, <1>6 DEF EInv, TypeOK
<1>14. TypeOK'
  BY <1>5, <1>7, <1>10, <1>11, <1>12, <1>13 DEF TypeOK
<1>15. InFlightIsNewest'
  <2>1. \A j \in DOMAIN runs : runs[j].target = t => Ended(j)
    BY <1>1 DEF InFlight
  <2> QED
    BY <1>3, <1>4, <1>5, <1>6, <2>1 DEF EInv, InFlightIsNewest, Ended
<1>16. VectorsOfNewestCompletedRun'
  <2> SUFFICES ASSUME NEW u \in Targets
               PROVE  LET completed == {j \in DOMAIN runs' : runs'[j].target = u
                                                             /\ runs'[j].status = "COMPLETED"}
                      IN  IF completed = {}
                          THEN vectors'[u] = NoVectors
                          ELSE \E j \in completed :
                                 /\ \A k \in completed : k <= j
                                 /\ vectors'[u] = [run |-> j, attempt |-> runs'[j].attempt]
    BY DEF VectorsOfNewestCompletedRun, NoVectors
  <2> DEFINE completed == {j \in DOMAIN runs : runs[j].target = u /\ runs[j].status = "COMPLETED"}
  <2>1. completed = {j \in DOMAIN runs' : runs'[j].target = u /\ runs'[j].status = "COMPLETED"}
    BY <1>3, <1>5, <1>6
  <2>2. \A j \in completed : runs'[j] = runs[j]
    BY <1>5
  <2>3. IF completed = {}
        THEN vectors[u] = NoVectors
        ELSE \E j \in completed :
               /\ \A k \in completed : k <= j
               /\ vectors[u] = [run |-> j, attempt |-> runs[j].attempt]
    BY DEF EInv, VectorsOfNewestCompletedRun
  <2> HIDE DEF completed
  <2> QED
    BY <1>1, <2>1, <2>2, <2>3, ZenonT(30)
<1> QED
  BY <1>5, <1>9, <1>10, <1>14, <1>15, <1>16 DEF EInv, EndedStay

-----------------------------------------------------------------------------
(* EmbeddingJobHandler.handle.                                             *)

\* A worker that stops starts nothing.
LEMMA StopEffect ==
    ASSUME EInv, NEW w \in Workers, Stop(w)
    PROVE  workers' \in [Workers -> Worker] /\ NoWorkerStarts
<1>1. IdleWorker \in Worker /\ IdleWorker.step = "idle"
  BY EmbeddingAssumption DEF IdleWorker, Worker
<1> QED
  BY <1>1, Typed DEF Stop, NoWorkerStarts

\* What a worker works on is there.
LEMMA WorkersRun ==
    ASSUME EInv, NEW w \in Workers, workers[w].step # "idle"
    PROVE  workers[w].run \in DOMAIN runs
BY DEF EInv, AttemptsHandedOut

\* A row that is claimed was pending or had lost its lease, and its next attempt starts.
LEMMA ClaimedRow ==
    ASSUME EInv, NEW j \in DOMAIN runs, ClaimRun(j)
    PROVE  /\ RowsStay /\ EndedStay
           /\ runs'[j].attempt \in 1..MaxAttempts /\ runs'[j].attempt = runs[j].attempt + 1
           /\ runs'[j].status = "RUNNING"
           /\ \A k \in DOMAIN runs \ {j} : runs'[k] = runs[k]
<1> DEFINE R == [runs[j] EXCEPT !.status = "RUNNING", !.attempt = runs[j].attempt + 1,
                              !.lease = "live"]
<1>1. TypeOK /\ runs[j] \in Run
  BY RunsAreRows DEF EInv
<1>2. runs' = [runs EXCEPT ![j] = R]
  BY <1>1 DEF ClaimRun, Run
<1>3. /\ runs[j].attempt \in Nat /\ runs[j].attempt + 1 \in 1..MaxAttempts
      /\ ~ Ended(j)
  BY <1>1, EmbeddingAssumption DEF ClaimRun, Claimable, Ended, Run
<1>4. /\ R \in Run /\ R.target = runs[j].target /\ R.status = "RUNNING"
      /\ R.attempt = runs[j].attempt + 1 /\ R.attempt >= runs[j].attempt
  <2> DEFINE n == runs[j].attempt + 1
             r == runs[j]
  <2>1. /\ r \in [target : Targets, status : {"PENDING", "RUNNING", "COMPLETED", "FAILED"},
                  attempt : 0..MaxAttempts, lease : {"none", "live", "expired"}, old : BOOLEAN]
        /\ n \in 0..MaxAttempts /\ n >= r.attempt
    BY <1>1, <1>3, EmbeddingAssumption DEF Run
  <2> HIDE DEF n, r
  <2>2. R = [r EXCEPT !.status = "RUNNING", !.attempt = n, !.lease = "live"]
    BY DEF n, r
  <2>3. /\ R \in Run /\ R.target = r.target /\ R.status = "RUNNING"
        /\ R.attempt = n
    BY <2>1, <2>2 DEF Run
  <2> QED
    BY <2>1, <2>3 DEF n, r
<1> HIDE DEF R
<1>5. RowsStay /\ runs'[j] = R /\ \A k \in DOMAIN runs \ {j} : runs'[k] = runs[k]
  BY <1>1, <1>2, <1>4, RowWritten
<1> QED
  BY <1>3, <1>4, <1>5 DEF EndedStay

\* A worker that claims a run carries a number that nobody has.
LEMMA ClaimStep ==
    ASSUME EInv, NEW w \in Workers, NEW j \in DOMAIN runs, Claim(w, j)
    PROVE  EInv' /\ EndedStay
<1> DEFINE n == runs'[j].attempt
           W == [step |-> "processing", run |-> j, attempt |-> n]
<1>1. /\ workers[w].step = "idle" /\ queue' \subseteq queue /\ ClaimRun(j)
      /\ workers' = [workers EXCEPT ![w] = W]
      /\ UNCHANGED <<vectors, requests, recoveries, failures>>
  BY DEF Claim, Take
<1>2. /\ RowsStay /\ EndedStay
      /\ n \in 1..MaxAttempts /\ n = runs[j].attempt + 1
      /\ runs'[j].status = "RUNNING"
      /\ \A k \in DOMAIN runs \ {j} : runs'[k] = runs[k]
  BY <1>1, ClaimedRow
<1>3. W \in Worker /\ W.step = "processing" /\ W.run = j /\ W.attempt = n
  BY <1>2, EmbeddingAssumption DEF Worker
<1>4. n \in Nat /\ runs[j].attempt \in Nat
  BY <1>2, RunsAreRows, EmbeddingAssumption DEF EInv, Run
<1> HIDE DEF W, n
<1>5. /\ workers' \in [Workers -> Worker] /\ workers'[w] = W
      /\ \A v \in Workers \ {w} : workers'[v] = workers[v]
  BY <1>1, <1>3, Typed
<1>6. \A v \in Workers \ {w} : workers[v].step # "idle" =>
            /\ workers[v].run \in DOMAIN runs
            /\ workers[v].attempt <= runs[workers[v].run].attempt
            /\ workers[v].attempt \in Nat
  BY Typed, EmbeddingAssumption DEF EInv, AttemptsHandedOut, Worker
<1>7. AttemptsHandedOut'
  <2> SUFFICES ASSUME NEW v \in Workers, workers'[v].step # "idle"
               PROVE  /\ workers'[v].run \in DOMAIN runs'
                      /\ workers'[v].attempt <= runs'[workers'[v].run].attempt
    BY DEF AttemptsHandedOut
  <2>1. CASE v = w
    BY <1>2, <1>3, <1>4, <1>5, <2>1 DEF RowsStay, n
  <2>2. CASE v # w /\ workers[v].run = j
    BY <1>2, <1>4, <1>5, <1>6, <2>2, SMTT(30) DEF RowsStay, n
  <2>3. CASE v # w /\ workers[v].run # j
    BY <1>2, <1>5, <1>6, <2>3 DEF RowsStay
  <2> QED
    BY <2>1, <2>2, <2>3
<1>8. AttemptsApart'
  <2>1. \A v \in Workers \ {w} :
            workers[v].step = "processing" /\ workers[v].run = j => workers[v].attempt # n
    BY <1>2, <1>4, <1>6
  <2> QED
    BY <1>3, <1>5, <2>1 DEF EInv, AttemptsApart
<1>9. VectorsOfNewestCompletedRun'
  BY <1>1, <1>2, VectorsKept DEF EInv
<1> QED
  BY <1>1, <1>2, <1>5, <1>7, <1>8, <1>9, Typed, RequestsStay, StepOnRows

\* The run is claimed, or not, and no worker has it.
LEMMA ClaimWithoutWorkerStep ==
    ASSUME EInv, NEW w \in Workers, NEW j \in DOMAIN runs,
           ClaimRefused(w, j) \/ ClaimAnswerLost(w, j)
    PROVE  EInv' /\ EndedStay
<1>1. /\ queue' \subseteq queue /\ UNCHANGED <<vectors, requests, workers, recoveries>>
      /\ Failure \/ UNCHANGED failures
      /\ UNCHANGED runs \/ ClaimRun(j)
  BY DEF ClaimRefused, ClaimAnswerLost, Take
<1>2. RowsStay /\ EndedStay
      /\ \A k \in DOMAIN runs : runs'[k].status = "COMPLETED" => runs[k].status = "COMPLETED"
  BY <1>1, ClaimedRow, SameRows DEF EInv
<1> QED
  BY <1>1, <1>2, Typed, RequestsStay, WorkersStay, QuietStep

\* A row that its worker owns is running.
LEMMA OwnedRow ==
    ASSUME EInv, NEW w \in Workers, workers[w].step = "processing", Owns(w)
    PROVE  /\ workers[w].run \in DOMAIN runs
           /\ ~ Ended(workers[w].run)
           /\ runs[workers[w].run].attempt = workers[w].attempt
BY WorkersRun DEF Owns, OwnedBy, Ended

\* The vectors of a run that is completed are those of the newest completed run:
\* only the newest run of a target can still be completed.
LEMMA PersistStep ==
    ASSUME EInv, NEW w \in Workers, Persist(w) \/ PersistAnswerLost(w)
    PROVE  EInv' /\ EndedStay
<1> DEFINE j == workers[w].run
           t == runs[j].target
           V == [run |-> j, attempt |-> workers[w].attempt]
<1>1. /\ workers[w].step = "processing" /\ Owns(w)
      /\ runs' = Released({j}, "COMPLETED") /\ vectors' = [vectors EXCEPT ![t] = V]
      /\ UNCHANGED <<queue, requests, recoveries>>
      /\ Failure \/ UNCHANGED failures
      /\ Stop(w) \/ UNCHANGED workers
  BY DEF Persist, PersistAnswerLost, PersistRun
<1>2. j \in DOMAIN runs /\ ~ Ended(j) /\ runs[j].attempt = workers[w].attempt
  BY <1>1, OwnedRow
<1>3. /\ RowsStay
      /\ \A k \in DOMAIN runs : /\ runs'[k].attempt = runs[k].attempt
                                /\ k = j => runs'[k].status = "COMPLETED"
                                /\ k # j => runs'[k] = runs[k]
  <2>1. /\ RowsStay
        /\ \A k \in DOMAIN runs : /\ runs'[k].attempt = runs[k].attempt
                                  /\ k \in {j} => runs'[k].status = "COMPLETED"
                                  /\ k \notin {j} => runs'[k] = runs[k]
    BY <1>1, RowsReleased DEF EInv
  <2> QED
    BY <2>1
<1>4. EndedStay
  BY <1>2, <1>3 DEF EndedStay
<1>5. t \in Targets /\ V \in Shown
  BY <1>2, RunsAreRows DEF EInv, Run, Shown
<1>6. /\ vectors' \in [Targets -> Shown] /\ vectors'[t] = V
      /\ \A u \in Targets \ {t} : vectors'[u] = vectors[u]
  BY <1>1, <1>5, Typed
<1>7. workers' \in [Workers -> Worker] /\ NoWorkerStarts
  BY <1>1, StopEffect, WorkersStay, Typed
<1>8. VectorsOfNewestCompletedRun'
  <2> SUFFICES ASSUME NEW u \in Targets
               PROVE  LET completed == {k \in DOMAIN runs' : runs'[k].target = u
                                                             /\ runs'[k].status = "COMPLETED"}
                      IN  IF completed = {}
                          THEN vectors'[u] = NoVectors
                          ELSE \E k \in completed :
                                 /\ \A l \in completed : l <= k
                                 /\ vectors'[u] = [run |-> k, attempt |-> runs'[k].attempt]
    BY DEF VectorsOfNewestCompletedRun, NoVectors
  <2> DEFINE before == {k \in DOMAIN runs : runs[k].target = u /\ runs[k].status = "COMPLETED"}
             after == {k \in DOMAIN runs' : runs'[k].target = u /\ runs'[k].status = "COMPLETED"}
  <2>1. CASE u # t
    <3>1. after = before /\ \A k \in before : runs'[k] = runs[k]
      BY <1>2, <1>3, <2>1 DEF RowsStay, RowsGrow, Ended
    <3>2. IF before = {}
          THEN vectors[u] = NoVectors
          ELSE \E k \in before :
                 /\ \A l \in before : l <= k
                 /\ vectors[u] = [run |-> k, attempt |-> runs[k].attempt]
      BY DEF EInv, VectorsOfNewestCompletedRun
    <3> HIDE DEF before, after
    <3>3. IF after = {}
          THEN vectors'[u] = NoVectors
          ELSE \E k \in after :
                 /\ \A l \in after : l <= k
                 /\ vectors'[u] = [run |-> k, attempt |-> runs'[k].attempt]
      BY <1>6, <2>1, <3>1, <3>2
    <3> QED
      BY <3>3 DEF after
  <2>2. CASE u = t
    <3>1. j \in after
      BY <1>2, <1>3, <2>2 DEF RowsStay, RowsGrow
    <3>2. \A k \in after : k <= j
      BY <1>2, <1>3, <2>2 DEF EInv, InFlightIsNewest, RowsStay, RowsGrow
    <3>3. vectors'[u] = [run |-> j, attempt |-> runs'[j].attempt]
      BY <1>2, <1>3, <1>6, <2>2
    <3> HIDE DEF after, j
    <3>4. after # {} /\ \E k \in after : /\ \A l \in after : l <= k
                                         /\ vectors'[u] = [run |-> k, attempt |-> runs'[k].attempt]
      BY <3>1, <3>2, <3>3
    <3> QED
      BY <3>4 DEF after
  <2> QED
    BY <2>1, <2>2
<1>9. AttemptsHandedOut' /\ AttemptsApart'
  BY <1>3, <1>7, AttemptsKept DEF RowsStay
<1> QED
  BY <1>1, <1>3, <1>4, <1>6, <1>7, <1>8, <1>9, Typed, RequestsStay, StepOnRows

\* An attempt fails for good, or goes back to be retried.
LEMMA FailedAttemptStep ==
    ASSUME EInv, NEW w \in Workers, MarkFailed(w) \/ ScheduleRetry(w)
    PROVE  EInv' /\ EndedStay
<1> DEFINE j == workers[w].run
           W == [workers[w] EXCEPT !.step = "dispatching"]
<1>1. /\ workers[w].step = "processing" /\ Owns(w)
      /\ runs' = Released({j}, "FAILED") \/ runs' = Released({j}, "PENDING")
      /\ Stop(w) \/ workers' = [workers EXCEPT ![w] = W]
      /\ UNCHANGED <<vectors, queue, requests, recoveries, failures>>
  BY Zenon DEF MarkFailed, ScheduleRetry
<1>2. j \in DOMAIN runs /\ ~ Ended(j)
  BY <1>1, OwnedRow
<1>3. /\ RowsStay
      /\ \A k \in DOMAIN runs : /\ k = j => runs'[k].status # "COMPLETED"
                                /\ k # j => runs'[k] = runs[k]
  BY <1>1, RowsReleased DEF EInv
<1>4. EndedStay
  BY <1>2, <1>3 DEF EndedStay
<1>5. workers' \in [Workers -> Worker] /\ NoWorkerStarts
  <2>1. workers[w] \in Worker
    BY Typed
  <2>2. /\ W \in Worker /\ W.step = "dispatching" /\ W.run = workers[w].run
        /\ W.attempt = workers[w].attempt
    BY <2>1 DEF Worker
  <2> HIDE DEF W
  <2>3. CASE workers' = [workers EXCEPT ![w] = W]
    BY <1>1, <2>2, <2>3, Typed DEF NoWorkerStarts
  <2> QED
    BY <1>1, <2>3, StopEffect
<1> QED
  BY <1>1, <1>3, <1>4, <1>5, Typed, RequestsStay, QuietStep

\* A worker stops, or a message comes again.
LEMMA WorkerStopStep ==
    ASSUME EInv, NEW w \in Workers,
           LoseLease(w) \/ DispatchRetry(w) \/ Fail(w) \/ Redeliver(w)
    PROVE  EInv' /\ EndedStay
<1>1. /\ workers[w].step # "idle"
      /\ queue' = queue \/ queue' = queue \cup {workers[w].run}
      /\ Failure \/ UNCHANGED failures
      /\ Stop(w) \/ UNCHANGED workers
      /\ UNCHANGED <<runs, vectors, requests, recoveries>>
  BY DEF LoseLease, DispatchRetry, Fail, Redeliver
<1>2. RowsStay /\ EndedStay
  BY <1>1, SameRows DEF EInv
<1>3. queue' \subseteq DOMAIN runs
  BY <1>1, WorkersRun, Typed
<1>4. workers' \in [Workers -> Worker] /\ NoWorkerStarts
  BY <1>1, StopEffect, WorkersStay, Typed
<1> QED
  BY <1>1, <1>2, <1>3, <1>4, Typed, RequestsStay, QuietStep

-----------------------------------------------------------------------------
(* EmbeddingRecoveryService.recover, time.                                 *)

\* Expired leases of runs that have had all their attempts: those runs fail.
LEMMA ReapExpiredStep ==
    ASSUME EInv, NEW q \in Recoveries, ReapExpired(q)
    PROVE  EInv' /\ EndedStay
<1>1. /\ runs' = Released(Exhausted, "FAILED")
      /\ recoveries' = [recoveries EXCEPT ![q] = [step |-> "pending",
                                                  todo |-> recoveries[q].todo \cup {}]]
      /\ UNCHANGED <<vectors, queue, requests, workers, failures>>
  BY DEF ReapExpired, GoOn
<1>2. \A j \in Exhausted : j \in DOMAIN runs /\ ~ Ended(j)
  BY RunsAreRows DEF EInv, Exhausted, Ended, Run
<1>3. /\ RowsStay
      /\ \A k \in DOMAIN runs : /\ k \in Exhausted => runs'[k].status # "COMPLETED"
                                /\ k \notin Exhausted => runs'[k] = runs[k]
  <2>1. /\ RowsStay
        /\ \A k \in DOMAIN runs : /\ k \in Exhausted => runs'[k].status = "FAILED"
                                  /\ k \notin Exhausted => runs'[k] = runs[k]
    BY <1>1, RowsReleased DEF EInv
  <2> QED
    BY <2>1
<1>4. EndedStay
  BY <1>2, <1>3 DEF EndedStay
<1>5. recoveries' \in [Recoveries -> Recovery]
  BY <1>1, Typed DEF Recovery
<1> QED
  BY <1>1, <1>3, <1>4, <1>5, Typed, RequestsStay, WorkersStay, QuietStep

\* A recovery finds runs, sends a message, or ends.
LEMMA RecoveryStep ==
    ASSUME EInv, NEW q \in Recoveries,
           \/ FindStalePending(q) \/ FindExpired(q) \/ Redispatch(q)
           \/ Recovered(q) \/ FailRecovery(q)
    PROVE  EInv' /\ EndedStay
<1>1. UNCHANGED <<runs, vectors, requests, workers>>
      /\ (Failure \/ UNCHANGED failures)
  BY DEF FindStalePending, FindExpired, Redispatch, Recovered, FailRecovery
<1>2. recoveries[q] \in Recovery /\ recoveries[q].todo \subseteq DOMAIN runs
  BY Typed DEF Recovery
<1>3. queue' \subseteq DOMAIN runs
  BY <1>2, Typed DEF FindStalePending, FindExpired, Redispatch, Recovered, FailRecovery
<1>4. \E R \in Recovery : recoveries' = [recoveries EXCEPT ![q] = R]
  <2>1. \A step \in {"expired", "dispatching"}, more \in SUBSET DOMAIN runs :
            [step |-> step, todo |-> recoveries[q].todo \cup more] \in Recovery
    BY <1>2 DEF Recovery
  <2>2. CASE FindStalePending(q)
    <3> DEFINE found == Oldest({j \in DOMAIN runs : runs[j].status = "PENDING" /\ runs[j].old})
    <3>1. found \in SUBSET DOMAIN runs
      BY DEF Oldest
    <3>2. recoveries' = [recoveries EXCEPT ![q] = [step |-> "expired",
                                                   todo |-> recoveries[q].todo \cup found]]
      BY <2>2 DEF FindStalePending, GoOn
    <3> HIDE DEF found
    <3> QED
      BY <2>1, <3>1, <3>2
  <2>3. CASE FindExpired(q)
    <3>1. PICK found \in SUBSET DOMAIN runs :
              recoveries' = [recoveries EXCEPT ![q] = [step |-> "dispatching",
                                                       todo |-> recoveries[q].todo \cup found]]
      BY <2>3 DEF FindExpired, GoOn, Some
    <3> QED
      BY <2>1, <3>1
  <2>4. CASE Redispatch(q)
    <3>1. PICK j : recoveries' = [recoveries EXCEPT ![q].todo = @ \ {j}]
      BY <2>4 DEF Redispatch
    <3> DEFINE R == [recoveries[q] EXCEPT !.todo = recoveries[q].todo \ {j}]
    <3>2. recoveries' = [recoveries EXCEPT ![q] = R]
      BY <3>1, <1>2, Typed DEF Recovery
    <3>3. R \in Recovery
      BY <1>2 DEF Recovery
    <3> HIDE DEF R
    <3> QED
      BY <3>2, <3>3
  <2>5. CASE Recovered(q) \/ FailRecovery(q)
    <3>1. IdleRecovery \in Recovery
      BY DEF IdleRecovery, Recovery
    <3> QED
      BY <2>5, <3>1 DEF Recovered, FailRecovery
  <2> QED
    BY <2>2, <2>3, <2>4, <2>5
<1>5. recoveries' \in [Recoveries -> Recovery]
  BY <1>4, Typed
<1>6. RowsStay /\ EndedStay
  BY <1>1, SameRows DEF EInv
<1> QED
  BY <1>1, <1>3, <1>5, <1>6, Typed, RequestsStay, WorkersStay, QuietStep

\* A lease runs out or lives again, or a run grows old.
LEMMA TimeStep ==
    ASSUME EInv, NEW j \in DOMAIN runs,
           Expire(j) \/ Age(j) \/ \E w \in Workers : workers[w].run = j /\ Renew(w)
    PROVE  EInv' /\ EndedStay
<1> DEFINE Expired == [runs[j] EXCEPT !.lease = "expired"]
           Renewed == [runs[j] EXCEPT !.lease = "live"]
           Aged == [runs[j] EXCEPT !.old = TRUE]
<1>1. /\ UNCHANGED <<vectors, queue, requests, workers, recoveries, failures>>
      /\ \/ runs' = [runs EXCEPT ![j] = Expired] /\ runs[j].lease = "live"
         \/ runs' = [runs EXCEPT ![j] = Renewed] /\ runs[j].lease = "expired"
         \/ runs' = [runs EXCEPT ![j] = Aged] /\ ~ Ended(j)
  <2>1. CASE Expire(j)
    BY <2>1, Zenon DEF Expire
  <2>2. CASE Age(j)
    BY <2>2, Zenon DEF Age
  <2>3. ASSUME NEW w \in Workers, workers[w].run = j, Renew(w)
        PROVE  /\ UNCHANGED <<vectors, queue, requests, workers, recoveries, failures>>
               /\ runs' = [runs EXCEPT ![j] = Renewed] /\ runs[j].lease = "expired"
    BY <2>3, Zenon DEF Renew
  <2> QED
    BY <2>1, <2>2, <2>3, Zenon
<1>2. TypeOK /\ runs[j] \in Run /\ runs[j].attempt \in Nat
  BY RunsAreRows, EmbeddingAssumption DEF EInv, Run
<1>3. ~ Ended(j)
  BY <1>1, <1>2 DEF Ended, Run
<1>4. /\ runs[j].lease = "live" => Expired \in Run
      /\ Expired.target = runs[j].target /\ Expired.attempt = runs[j].attempt
      /\ Expired.status = runs[j].status
      /\ runs[j].lease = "expired" => Renewed \in Run
      /\ Renewed.target = runs[j].target /\ Renewed.attempt = runs[j].attempt
      /\ Renewed.status = runs[j].status
      /\ Aged \in Run
      /\ Aged.target = runs[j].target /\ Aged.attempt = runs[j].attempt
      /\ Aged.status = runs[j].status
  BY <1>2 DEF Run
<1> HIDE DEF Expired, Renewed, Aged
<1>5. PICK R \in Run : /\ runs' = [runs EXCEPT ![j] = R] /\ R.target = runs[j].target
                       /\ R.attempt = runs[j].attempt /\ R.status = runs[j].status
  BY <1>1, <1>4
<1>6. RowsStay /\ runs'[j] = R /\ \A k \in DOMAIN runs \ {j} : runs'[k] = runs[k]
  <2>1. R.attempt >= runs[j].attempt
    BY <1>2, <1>5
  <2> QED
    BY <1>2, <1>5, <2>1, RowWritten
<1>7. EndedStay /\ \A k \in DOMAIN runs : runs'[k].status = runs[k].status
  BY <1>3, <1>5, <1>6 DEF EndedStay
<1> QED
  BY <1>1, <1>6, <1>7, Typed, RequestsStay, WorkersStay, QuietStep

-----------------------------------------------------------------------------
(* The theorems.                                                           *)

\* At first there is nothing.
LEMMA InitInvariant == Init => EInv
<1> SUFFICES ASSUME Init PROVE EInv
  OBVIOUS
<1>1. runs = <<>> /\ runs \in Seq(Run) /\ Len(runs) = 0 /\ DOMAIN runs = {}
  BY EmptySeq DEF Init
<1>2. TypeOK
  BY <1>1, EmbeddingAssumption
     DEF Init, TypeOK, NoVectors, IdleRequest, IdleWorker, IdleRecovery
<1> QED
  BY <1>1, <1>2 DEF Init, EInv, RequestsNamed, AttemptsHandedOut, AttemptsApart,
     InFlightIsNewest, VectorsOfNewestCompletedRun, IdleRequest, IdleWorker

\* Every step keeps the invariant, and the runs that have ended.
LEMMA NextInvariant ==
    ASSUME EInv, [Next]_vars
    PROVE  EInv' /\ EndedStay
<1>1. CASE UNCHANGED vars
  <2>1. EInv'
    BY <1>1 DEF vars, EInv, TypeOK, RequestsNamed, AttemptsHandedOut, AttemptsApart,
       InFlightIsNewest, VectorsOfNewestCompletedRun, Ended
  <2> QED
    BY <1>1, <2>1 DEF vars, EndedStay
<1>2. ASSUME NEW c \in Requests,
             (\E t \in Targets : CheckInFlight(c, t)) \/ AddRun(c) \/ AddRefused(c)
             \/ DispatchCreated(c)
      PROVE  EInv' /\ EndedStay
  BY <1>2, RequestStep, AddRunStep
<1>3. ASSUME NEW w \in Workers, NEW j \in DOMAIN runs, Receive(w, j) \/ ClaimAnswerLost(w, j)
      PROVE  EInv' /\ EndedStay
  BY <1>3, ClaimStep, ClaimWithoutWorkerStep DEF Receive
<1>4. ASSUME NEW w \in Workers,
             \/ Proceed(w) \/ Renew(w) \/ PersistAnswerLost(w)
             \/ Fail(w) \/ Redeliver(w)
      PROVE  EInv' /\ EndedStay
  <2>1. CASE Renew(w)
    <3>1. workers[w].run \in DOMAIN runs
      BY <2>1, WorkersRun DEF Renew
    <3> QED
      BY <2>1, <3>1, TimeStep
  <2> QED
    BY <1>4, <2>1, PersistStep, FailedAttemptStep, WorkerStopStep DEF Proceed
<1>5. ASSUME NEW q \in Recoveries, Recover(q) \/ FailRecovery(q)
      PROVE  EInv' /\ EndedStay
  BY <1>5, ReapExpiredStep, RecoveryStep DEF Recover
<1>6. ASSUME NEW j \in DOMAIN runs, Expire(j) \/ Age(j)
      PROVE  EInv' /\ EndedStay
  BY <1>6, TimeStep
<1> QED
  BY <1>1, <1>2, <1>3, <1>4, <1>5, <1>6 DEF Next

\* The invariant holds always.
THEOREM EmbeddingInvariant == Spec => []EInv
<1>1. EInv /\ [Next]_vars => EInv'
  BY NextInvariant
<1> QED
  BY <1>1, InitInvariant, PTL DEF Spec

\* The tables, the broker's messages and what the processes carry have their types:
\* no message, request, worker or recovery names a run that is not there.
THEOREM EmbeddingTypes == Spec => []TypeOK
<1>1. EInv => TypeOK
  BY DEF EInv
<1> QED
  BY <1>1, EmbeddingInvariant, PTL

\* However create_run, workers and recoveries interleave, a target never has two
\* runs in flight.
THEOREM OneRunPerTarget == Spec => []OneRunInFlight
<1>1. EInv => OneRunInFlight
  <2> SUFFICES ASSUME EInv, NEW t \in Targets, NEW j \in InFlight(t), NEW k \in InFlight(t)
               PROVE  j = k
    BY DEF OneRunInFlight
  <2>1. j \in DOMAIN runs /\ k \in DOMAIN runs /\ j <= k /\ k <= j
    BY DEF EInv, InFlightIsNewest, InFlight
  <2> QED
    BY <2>1, RunsAreRows DEF EInv
<1> QED
  BY <1>1, EmbeddingInvariant, PTL

\* A target shows the vectors of its newest completed run, as the attempt that
\* completed it wrote them, although attempts that lost their lease work on and
\* statements are committed whose answer is lost.
THEOREM VectorsShown == Spec => []VectorsOfNewestCompletedRun
<1>1. EInv => VectorsOfNewestCompletedRun
  BY DEF EInv
<1> QED
  BY <1>1, EmbeddingInvariant, PTL

\* No two workers process one run in the same attempt: the attempt number is a
\* fencing token that claim_run hands out once.
THEOREM AttemptsAreApart == Spec => []AttemptsApart
<1>1. EInv => AttemptsApart
  BY DEF EInv
<1> QED
  BY <1>1, EmbeddingInvariant, PTL

\* A run that has ended is never written again.
THEOREM EndedRuns == Spec => EndedRunsStay
<1>1. EInv /\ [Next]_vars
      => [\A j \in DOMAIN runs : Ended(j) => runs'[j] = runs[j]]_vars
  BY NextInvariant DEF EndedStay
<1> QED
  BY <1>1, EmbeddingInvariant, PTL DEF Spec, EndedRunsStay

=============================================================================
