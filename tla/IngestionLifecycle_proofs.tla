---------------------- MODULE IngestionLifecycle_proofs ----------------------
(***************************************************************************)
(* Proofs about IngestionLifecycle, for any items, workers, lease          *)
(* duration, clock skew and number of attempts.                            *)
(***************************************************************************)
EXTENDS IngestionLifecycle, Integers, TLAPS

-----------------------------------------------------------------------------
(* The inductive invariant.                                                *)

\* A lease is written exactly while the row is RUNNING.
LeaseOnlyWhileRunning ==
    \A i \in Items : items[i].lease = 0 <=> items[i].status # "RUNNING"

\* A worker with a message works on an item, and the attempt number a handler
\* carries was handed out by the row: numbers to come are larger.
TokensHandedOut ==
    \A w \in Workers :
        /\ workers[w].step # "idle" => workers[w].item \in Items
        /\ Handling(w) => /\ workers[w].attempt <= items[workers[w].item].attempt
                          /\ items[workers[w].item].status # "ABSENT"

\* An item that is not there yet has neither attempts nor chunks.
AbsentIsBlank == \A i \in Items : items[i].status = "ABSENT" => items[i].attempt = 0

\* now() of an open transaction is a time that has passed.
TransactionsBegan == \A w \in Workers : workers[w].tx <= clock

IInv ==
    /\ TypeOK
    /\ LeaseOnlyWhileRunning
    /\ TokensHandedOut
    /\ AbsentIsBlank
    /\ TransactionsBegan
    /\ FencingToken
    /\ ChunksOfCompletingAttempt
    /\ PendingIsClaimable

-----------------------------------------------------------------------------
(* What the steps of a worker may do to the handlers.                      *)

\* Every handler of the next state is one of this state, on the same attempt.
NoNewHandler ==
    \A w \in Workers : Handling(w)' => /\ Handling(w)
                                      /\ workers'[w].item = workers[w].item
                                      /\ workers'[w].attempt = workers[w].attempt

\* Attempt numbers of rows never fall, and rows do not vanish.
RowsGrow ==
    \A i \in Items : /\ items'[i].attempt >= items[i].attempt
                     /\ items[i].status # "ABSENT" => items'[i].status # "ABSENT"

\* A step that starts no handler and takes no attempt number back keeps the
\* numbers in use handed out and the handlers apart.
LEMMA NoNewHandlerKeepsTokens ==
    ASSUME TypeOK, TypeOK', TokensHandedOut, FencingToken, NoNewHandler, RowsGrow,
           \A w \in Workers : workers'[w].step # "idle" => workers'[w].item \in Items
    PROVE  TokensHandedOut' /\ FencingToken'
<1>1. TokensHandedOut'
  <2> SUFFICES ASSUME NEW w \in Workers, Handling(w)'
               PROVE  /\ workers'[w].attempt <= items'[workers'[w].item].attempt
                      /\ items'[workers'[w].item].status # "ABSENT"
    BY DEF TokensHandedOut, Handling
  <2>1. /\ Handling(w)
        /\ workers'[w].item = workers[w].item
        /\ workers'[w].attempt = workers[w].attempt
    BY DEF NoNewHandler
  <2>2. workers[w].item \in Items
    BY <2>1 DEF TokensHandedOut, Handling
  <2>3. /\ workers[w].attempt <= items[workers[w].item].attempt
        /\ items[workers[w].item].status # "ABSENT"
    BY <2>1 DEF TokensHandedOut
  <2>4. /\ items'[workers[w].item].attempt >= items[workers[w].item].attempt
        /\ items'[workers[w].item].status # "ABSENT"
    BY <2>2, <2>3 DEF RowsGrow
  <2>5. /\ workers[w].attempt \in Int
        /\ items[workers[w].item].attempt \in Int
        /\ items'[workers[w].item].attempt \in Int
    BY <2>2 DEF TypeOK, Row, Worker
  <2> QED
    BY <2>1, <2>3, <2>4, <2>5
<1>2. FencingToken'
  BY DEF FencingToken, NoNewHandler, Holds
<1> QED
  BY <1>1, <1>2

-----------------------------------------------------------------------------
(* What the statements and the steps of a worker do, as facts to cite.     *)

\* Stop leaves one worker idle and the others as they are.
LEMMA StopEffect ==
    ASSUME TypeOK, NEW w \in Workers, Stop(w)
    PROVE  /\ workers' \in [Workers -> Worker]
           /\ workers'[w] = Idle
           /\ \A v \in Workers \ {w} : workers'[v] = workers[v]
<1>1. Idle \in Worker
  BY ConstantsAssumption DEF Idle, Worker, Steps
<1> QED
  BY <1>1 DEF TypeOK, Stop

\* Begin fixes the transaction time of one handler and keeps its item and attempt.
LEMMA BeginEffect ==
    ASSUME TypeOK, NEW w \in Workers, NEW step \in Steps, Begin(w, step)
    PROVE  /\ workers' \in [Workers -> Worker]
           /\ workers'[w].step = step
           /\ workers'[w].item = workers[w].item
           /\ workers'[w].attempt = workers[w].attempt
           /\ workers'[w].tx = clock
           /\ \A v \in Workers \ {w} : workers'[v] = workers[v]
<1> DEFINE b == IF step = "completing" THEN workers[w].beat ELSE 0
           W == [workers[w] EXCEPT !.step = step, !.tx = clock, !.beat = b]
<1>1. workers' = [workers EXCEPT ![w] = W]
  BY Zenon DEF Begin
<1>2. workers[w] \in Worker /\ clock \in Nat /\ b \in Nat
  BY ConstantsAssumption DEF TypeOK, Worker
<1> HIDE DEF b
<1>3. /\ W \in Worker
      /\ W.step = step
      /\ W.item = workers[w].item
      /\ W.attempt = workers[w].attempt
      /\ W.tx = clock
  BY <1>2 DEF Worker
<1> HIDE DEF W
<1> QED
  BY <1>1, <1>3 DEF TypeOK

\* A renewal writes some lease and notes when it came back.
LEMMA RenewLeaseEffect ==
    ASSUME TypeOK, NEW w \in Workers, NEW i \in Items, workers[w].item = i, RenewLease(w)
    PROVE  /\ items[i].status = "RUNNING"
           /\ items[i].attempt = workers[w].attempt
           /\ \E l \in Nat \ {0} : items' = [items EXCEPT ![i] = [items[i] EXCEPT !.lease = l]]
           /\ workers' \in [Workers -> Worker]
           /\ workers'[w].step = workers[w].step
           /\ workers'[w].item = workers[w].item
           /\ workers'[w].attempt = workers[w].attempt
           /\ workers'[w].tx = workers[w].tx
           /\ \A v \in Workers \ {w} : workers'[v] = workers[v]
<1> DEFINE W == [workers[w] EXCEPT !.beat = clock]
<1>1. PICK t \in RenewalTimes(w) :
        /\ OwnedBy(i, workers[w].attempt, t)
        /\ items' = [items EXCEPT ![i].lease = t + Skew[w] + LeaseDuration]
  BY DEF RenewLease
<1> DEFINE l == t + Skew[w] + LeaseDuration
<1>2. workers[w] \in Worker /\ clock \in Nat
  BY ConstantsAssumption DEF TypeOK
<1>3. workers[w].beat \in Nat
  BY <1>2 DEF Worker
<1>4. t \in Nat
  BY <1>2, <1>3 DEF RenewalTimes
<1>5. l \in Nat \ {0}
  BY <1>4, ConstantsAssumption
<1>6. items' = [items EXCEPT ![i] = [items[i] EXCEPT !.lease = l]]
  BY <1>1, Zenon
<1> HIDE DEF l
<1>7. workers' = [workers EXCEPT ![w] = W]
  BY Zenon DEF RenewLease
<1>8. W \in Worker /\ W.step = workers[w].step /\ W.item = workers[w].item
      /\ W.attempt = workers[w].attempt /\ W.tx = workers[w].tx
  BY <1>2 DEF Worker
<1> HIDE DEF W
<1>9. /\ workers' \in [Workers -> Worker]
      /\ workers'[w] = W
      /\ \A v \in Workers \ {w} : workers'[v] = workers[v]
  BY <1>7, <1>8 DEF TypeOK
<1>10. items[i].status = "RUNNING" /\ items[i].attempt = workers[w].attempt
  BY <1>1 DEF OwnedBy
<1> QED
  BY <1>5, <1>6, <1>8, <1>9, <1>10

\* ReleaseRow changes status and lease of one row, and nothing else.
LEMMA ReleaseRowEffect ==
    ASSUME TypeOK, NEW i \in Items, NEW status \in Statuses, ReleaseRow(i, status)
    PROVE  /\ items' \in [Items -> Row]
           /\ items'[i].status = status
           /\ items'[i].lease = 0
           /\ items'[i].attempt = items[i].attempt
           /\ \A j \in Items \ {i} : items'[j] = items[j]
<1> DEFINE R == [items[i] EXCEPT !.status = status, !.lease = 0]
<1>1. items' = [items EXCEPT ![i] = R]
  BY Zenon DEF ReleaseRow
<1>2. items[i] \in Row
  BY DEF TypeOK
<1>3. /\ R \in Row
      /\ R.status = status
      /\ R.lease = 0
      /\ R.attempt = items[i].attempt
  BY <1>2 DEF Row
<1> HIDE DEF R
<1> QED
  BY <1>1, <1>3 DEF TypeOK

\* claim_item counts the attempt up, sets the lease, and leaves the other rows.
LEMMA ClaimItemEffect ==
    ASSUME TypeOK, TokensHandedOut, NEW w \in Workers, NEW i,
           i = workers[w].item, ClaimItem(w)
    PROVE  /\ i \in Items
           /\ items[i].status \in {"PENDING", "RUNNING"}
           /\ items[i].attempt < MaxAttempts
           /\ items[i].status = "RUNNING" => items[i].lease <= workers[w].tx
           /\ items' \in [Items -> Row]
           /\ items'[i].status = "RUNNING"
           /\ items'[i].attempt = items[i].attempt + 1
           /\ items'[i].lease # 0
           /\ \A j \in Items \ {i} : items'[j] = items[j]
           /\ chunks' = chunks
<1> DEFINE R == ClaimedRow(items[i], workers[w].tx + Skew[w])
<1>1. i \in Items
  BY DEF ClaimItem, TokensHandedOut
<1>2. items' = [items EXCEPT ![i] = R]
  BY Zenon DEF ClaimItem
<1>3. /\ items[i] \in Row
      /\ workers[w].tx \in Nat
      /\ Skew[w] \in Nat
      /\ LeaseDuration \in Nat \ {0}
      /\ MaxAttempts \in Nat
  BY <1>1, ConstantsAssumption DEF TypeOK, Worker
<1>4. Claimable(i, workers[w].tx)
  BY DEF ClaimItem
<1>5. /\ R \in Row
      /\ R.status = "RUNNING"
      /\ R.attempt = items[i].attempt + 1
      /\ R.lease # 0
  BY <1>3, <1>4 DEF ClaimedRow, Claimable, Row, Statuses
<1> HIDE DEF R
<1> QED
  BY <1>1, <1>2, <1>4, <1>5 DEF TypeOK, Claimable, ClaimItem

\* The completing transaction ends the row and writes the chunk set of its attempt.
LEMMA CompleteItemEffect ==
    ASSUME TypeOK, TokensHandedOut, NEW w \in Workers, NEW i,
           i = workers[w].item, CompleteItem(w)
    PROVE  /\ i \in Items
           /\ items[i].status = "RUNNING"
           /\ items[i].attempt = workers[w].attempt
           /\ ReleaseRow(i, "COMPLETED")
           /\ chunks' = [chunks EXCEPT ![i] = items[i].attempt]
BY DEF CompleteItem, TokensHandedOut, Owns, OwnedBy

-----------------------------------------------------------------------------
(* The invariant is inductive.  Most steps touch the workers only.         *)

WorkersInOrder ==
    \A w \in Workers : /\ workers[w].step # "idle" => workers[w].item \in Items
                       /\ workers[w].tx <= clock

\* The steps that change workers and leave the rows alone.
LEMMA WorkersOnlyStep ==
    ASSUME IInv, TypeOK', NoNewHandler, WorkersInOrder', UNCHANGED <<items, chunks>>
    PROVE  IInv'
<1>1. RowsGrow
  BY DEF RowsGrow, IInv, TypeOK, Row
<1>2. TokensHandedOut' /\ FencingToken'
  BY <1>1, NoNewHandlerKeepsTokens DEF IInv, WorkersInOrder
<1> QED
  BY <1>2 DEF IInv, LeaseOnlyWhileRunning, AbsentIsBlank, TransactionsBegan,
              WorkersInOrder, ChunksOfCompletingAttempt, PendingIsClaimable

\* Stopping a worker keeps the workers in order ...
LEMMA StopWorkers ==
    ASSUME IInv, NEW w \in Workers, Stop(w), clock' = clock
    PROVE  /\ workers' \in [Workers -> Worker]
           /\ NoNewHandler
           /\ WorkersInOrder'
<1>1. /\ workers' \in [Workers -> Worker]
      /\ workers'[w] = Idle
      /\ \A v \in Workers \ {w} : workers'[v] = workers[v]
  BY StopEffect DEF IInv
<1>2. NoNewHandler
  BY <1>1 DEF NoNewHandler, Handling, Idle
<1>3. ASSUME NEW v \in Workers
      PROVE  /\ workers'[v].step # "idle" => workers'[v].item \in Items
             /\ workers'[v].tx <= clock'
  <2>1. CASE v = w
    BY <1>1, <2>1 DEF Idle, IInv, TypeOK
  <2>2. CASE v # w
    BY <1>1, <2>2 DEF IInv, TokensHandedOut, TransactionsBegan
  <2> QED
    BY <2>1, <2>2
<1> QED
  BY <1>1, <1>2, <1>3 DEF WorkersInOrder

\* ... and so does the next transaction of a handler.
LEMMA BeginWorkers ==
    ASSUME IInv, NEW w \in Workers, NEW step \in Steps, Handling(w), Begin(w, step),
           clock' = clock
    PROVE  /\ workers' \in [Workers -> Worker]
           /\ NoNewHandler
           /\ WorkersInOrder'
<1>1. /\ workers' \in [Workers -> Worker]
      /\ workers'[w].item = workers[w].item
      /\ workers'[w].attempt = workers[w].attempt
      /\ workers'[w].tx = clock
      /\ \A v \in Workers \ {w} : workers'[v] = workers[v]
  BY BeginEffect DEF IInv
<1>2. NoNewHandler
  BY <1>1 DEF NoNewHandler, Handling
<1>3. ASSUME NEW v \in Workers
      PROVE  /\ workers'[v].step # "idle" => workers'[v].item \in Items
             /\ workers'[v].tx <= clock'
  <2>1. CASE v = w
    BY <1>1, <2>1 DEF IInv, TypeOK, TokensHandedOut, Handling
  <2>2. CASE v # w
    BY <1>1, <2>2 DEF IInv, TokensHandedOut, TransactionsBegan
  <2> QED
    BY <2>1, <2>2
<1> QED
  BY <1>1, <1>2, <1>3 DEF WorkersInOrder

\* A worker lets go of its message and nothing else happens.
LEMMA StopStep ==
    ASSUME IInv, NEW w \in Workers, Stop(w), faults' \in Nat,
           UNCHANGED <<clock, items, chunks>>
    PROVE  IInv'
<1>1. /\ workers' \in [Workers -> Worker]
      /\ NoNewHandler
      /\ WorkersInOrder'
  BY StopWorkers
<1>2. TypeOK'
  BY <1>1 DEF IInv, TypeOK
<1> QED
  BY <1>1, <1>2, WorkersOnlyStep

\* A handler goes on to another transaction and nothing else happens.
LEMMA BeginStep ==
    ASSUME IInv, NEW w \in Workers, NEW step \in Steps, Handling(w), Begin(w, step),
           faults' \in Nat, UNCHANGED <<clock, items, chunks>>
    PROVE  IInv'
<1>1. /\ workers' \in [Workers -> Worker]
      /\ NoNewHandler
      /\ WorkersInOrder'
  BY BeginWorkers
<1>2. TypeOK'
  BY <1>1 DEF IInv, TypeOK
<1> QED
  BY <1>1, <1>2, WorkersOnlyStep

\* A handler's statement takes item i out of RUNNING: to COMPLETED with its
\* chunks, to FAILED, or back to PENDING while attempts are left.
LEMMA ReleaseStep ==
    ASSUME IInv, NEW i \in Items, NEW status \in {"COMPLETED", "FAILED", "PENDING"},
           items[i].status = "RUNNING", ReleaseRow(i, status),
           status = "PENDING" => items[i].attempt < MaxAttempts,
           chunks' = IF status = "COMPLETED"
                     THEN [chunks EXCEPT ![i] = items[i].attempt] ELSE chunks,
           workers' \in [Workers -> Worker], NoNewHandler, WorkersInOrder',
           clock' = clock, faults' \in Nat
    PROVE  IInv'
<1>1. /\ items' \in [Items -> Row]
      /\ items'[i].status = status
      /\ items'[i].lease = 0
      /\ items'[i].attempt = items[i].attempt
      /\ \A j \in Items \ {i} : items'[j] = items[j]
  BY ReleaseRowEffect DEF IInv, Statuses
<1>2. /\ items[i].attempt \in 0..MaxAttempts
      /\ chunks \in [Items -> 0..MaxAttempts]
      /\ \A j \in Items : items[j].attempt \in Int
  BY DEF IInv, TypeOK, Row
<1>3. TypeOK'
  BY <1>1, <1>2 DEF IInv, TypeOK
<1>4. RowsGrow
  BY <1>1, <1>2 DEF RowsGrow
<1>5. TokensHandedOut' /\ FencingToken'
  BY <1>3, <1>4, NoNewHandlerKeepsTokens DEF IInv, WorkersInOrder
<1>6. LeaseOnlyWhileRunning'
  BY <1>1 DEF IInv, LeaseOnlyWhileRunning
<1>7. AbsentIsBlank'
  BY <1>1 DEF IInv, AbsentIsBlank
<1>8. ChunksOfCompletingAttempt'
  BY <1>1, <1>2 DEF IInv, ChunksOfCompletingAttempt
<1>9. PendingIsClaimable'
  BY <1>1 DEF IInv, PendingIsClaimable
<1> QED
  BY <1>3, <1>5, <1>6, <1>7, <1>8, <1>9 DEF IInv, TransactionsBegan, WorkersInOrder

\* The claim statement by itself keeps what the invariant says of rows and chunks.
LEMMA ClaimItemKeepsRows ==
    ASSUME IInv, NEW w \in Workers, ClaimItem(w)
    PROVE  /\ items' \in [Items -> Row]
           /\ RowsGrow
           /\ LeaseOnlyWhileRunning'
           /\ AbsentIsBlank'
           /\ ChunksOfCompletingAttempt'
           /\ PendingIsClaimable'
<1> DEFINE i == workers[w].item
<1>1. /\ i \in Items
      /\ items[i].status \in {"PENDING", "RUNNING"}
      /\ items' \in [Items -> Row]
      /\ items'[i].status = "RUNNING"
      /\ items'[i].attempt = items[i].attempt + 1
      /\ items'[i].lease # 0
      /\ \A j \in Items \ {i} : items'[j] = items[j]
      /\ chunks' = chunks
  BY ClaimItemEffect DEF IInv
<1> HIDE DEF i
<1>2. \A j \in Items : items[j].attempt \in Int
  BY DEF IInv, TypeOK, Row
<1>3. RowsGrow
  BY <1>1, <1>2 DEF RowsGrow
<1>4. LeaseOnlyWhileRunning'
  BY <1>1 DEF IInv, LeaseOnlyWhileRunning
<1>5. AbsentIsBlank'
  BY <1>1 DEF IInv, AbsentIsBlank
<1>6. ChunksOfCompletingAttempt'
  BY <1>1 DEF IInv, ChunksOfCompletingAttempt
<1>7. PendingIsClaimable'
  BY <1>1 DEF IInv, PendingIsClaimable
<1> QED
  BY <1>1, <1>3, <1>4, <1>5, <1>6, <1>7

\* A claim whose answer is lost starts no handler.
LEMMA LostClaimStep ==
    ASSUME IInv, NEW w \in Workers, ClaimItem(w), Stop(w), clock' = clock, faults' \in Nat
    PROVE  IInv'
<1>1. /\ workers' \in [Workers -> Worker]
      /\ NoNewHandler
      /\ WorkersInOrder'
  BY StopWorkers
<1>2. /\ items' \in [Items -> Row]
      /\ RowsGrow
      /\ LeaseOnlyWhileRunning'
      /\ AbsentIsBlank'
      /\ ChunksOfCompletingAttempt'
      /\ PendingIsClaimable'
  BY ClaimItemKeepsRows
<1>3. TypeOK'
  BY <1>1, <1>2 DEF IInv, TypeOK, ClaimItem
<1>4. TokensHandedOut' /\ FencingToken'
  BY <1>1, <1>2, <1>3, NoNewHandlerKeepsTokens DEF IInv, WorkersInOrder
<1> QED
  BY <1>1, <1>2, <1>3, <1>4 DEF IInv, TransactionsBegan, WorkersInOrder

\* A claim that is answered starts a handler on a number nobody carries yet.
LEMMA ClaimStep ==
    ASSUME IInv, NEW w \in Workers, Claim(w)
    PROVE  IInv'
<1>0. PICK i \in Items : i = workers[w].item
  BY ClaimItemEffect DEF IInv, Claim
<1> DEFINE W == [step |-> "processing", item |-> i,
                 attempt |-> items[i].attempt + 1, tx |-> 0, beat |-> clock]
<1>1. /\ items[i].attempt < MaxAttempts
      /\ items'[i].status = "RUNNING"
      /\ items'[i].attempt = items[i].attempt + 1
  BY <1>0, ClaimItemEffect DEF IInv, Claim
<1>2. /\ items' \in [Items -> Row]
      /\ RowsGrow
      /\ LeaseOnlyWhileRunning'
      /\ AbsentIsBlank'
      /\ ChunksOfCompletingAttempt'
      /\ PendingIsClaimable'
  BY ClaimItemKeepsRows DEF Claim
<1>3. /\ workers[w] \in Worker
      /\ items[i].attempt \in 0..MaxAttempts
      /\ MaxAttempts \in Nat
      /\ clock \in Nat
  BY ConstantsAssumption DEF IInv, TypeOK, Row
<1>4. /\ W \in Worker
      /\ W.step = "processing"
      /\ W.item = i
      /\ W.tx = 0
      /\ W.attempt = items[i].attempt + 1
  BY <1>1, <1>3 DEF Worker, Steps
<1>5. workers' = [workers EXCEPT ![w] = W]
  BY <1>0 DEF Claim
<1> HIDE DEF W
<1>6. /\ workers' \in [Workers -> Worker]
      /\ workers'[w] = W
      /\ \A v \in Workers \ {w} : workers'[v] = workers[v]
  BY <1>4, <1>5 DEF IInv, TypeOK
<1>7. TypeOK'
  BY <1>2, <1>6 DEF IInv, TypeOK, Claim, ClaimItem
<1>8. TokensHandedOut'
  <2> SUFFICES ASSUME NEW v \in Workers
               PROVE  /\ workers'[v].step # "idle" => workers'[v].item \in Items
                      /\ Handling(v)' =>
                           /\ workers'[v].attempt <= items'[workers'[v].item].attempt
                           /\ items'[workers'[v].item].status # "ABSENT"
    BY DEF TokensHandedOut
  <2>1. CASE v = w
    BY <1>1, <1>3, <1>4, <1>6, <2>1
  <2>2. CASE v # w
    <3>1. workers'[v] = workers[v]
      BY <1>6, <2>2
    <3>2. CASE workers[v].step = "idle"
      BY <3>1, <3>2 DEF Handling
    <3>3. CASE workers[v].step # "idle"
      <4>1. workers[v].item \in Items
        BY <3>3 DEF IInv, TokensHandedOut
      <4>2. /\ workers[v].attempt \in Int
            /\ items[workers[v].item].attempt \in Int
            /\ items'[workers[v].item].attempt \in Int
        BY <1>2, <4>1 DEF IInv, TypeOK, Worker, Row
      <4> QED
        BY <1>2, <3>1, <4>1, <4>2 DEF IInv, TokensHandedOut, Handling, RowsGrow
    <3> QED
      BY <3>2, <3>3
  <2> QED
    BY <2>1, <2>2
<1>9. FencingToken'
  <2>1. \A v \in Workers \ {w} :
           Holds(v, i) => workers[v].attempt <= items[i].attempt /\ workers[v].attempt \in Int
    BY DEF IInv, TokensHandedOut, Holds, TypeOK, Worker
  <2>2. \A v \in Workers \ {w} : Holds(v, i)' => workers'[v].attempt # workers'[w].attempt
    BY <1>3, <1>4, <1>6, <2>1 DEF Holds, Handling
  <2>3. \A j \in Items : Holds(w, j)' => j = i
    BY <1>4, <1>6 DEF Holds
  <2> QED
    BY <1>6, <2>2, <2>3 DEF IInv, FencingToken, Holds, Handling
<1>10. TransactionsBegan'
  BY <1>3, <1>4, <1>6 DEF IInv, TransactionsBegan, Claim
<1> QED
  BY <1>2, <1>7, <1>8, <1>9, <1>10 DEF IInv

\* The steps that change rows and leave the workers alone.
LEMMA RowsOnlyStep ==
    ASSUME IInv, items' \in [Items -> Row], RowsGrow,
           LeaseOnlyWhileRunning', AbsentIsBlank', PendingIsClaimable',
           ChunksOfCompletingAttempt',
           UNCHANGED <<clock, chunks, workers, faults>>
    PROVE  IInv'
<1>1. TypeOK'
  BY DEF IInv, TypeOK
<1>2. NoNewHandler
  BY DEF NoNewHandler, Handling
<1>3. TokensHandedOut' /\ FencingToken'
  BY <1>1, <1>2, NoNewHandlerKeepsTokens DEF IInv, TokensHandedOut
<1> QED
  BY <1>1, <1>3 DEF IInv, TransactionsBegan

\* add_item writes a PENDING row without attempts, where there was none.
LEMMA AddItemStep ==
    ASSUME IInv, NEW i \in Items, AddItem(i)
    PROVE  IInv'
<1> DEFINE R == [items[i] EXCEPT !.status = "PENDING"]
<1>1. items' = [items EXCEPT ![i] = R] /\ items[i].status = "ABSENT"
  BY Zenon DEF AddItem
<1>2. /\ items[i] \in Row
      /\ MaxAttempts \in Nat \ {0}
  BY ConstantsAssumption DEF IInv, TypeOK
<1>3. /\ R \in Row
      /\ R.status = "PENDING"
      /\ R.attempt = items[i].attempt
      /\ R.lease = items[i].lease
  BY <1>2 DEF Row, Statuses
<1> HIDE DEF R
<1>4. /\ items' \in [Items -> Row]
      /\ items'[i] = R
      /\ \A j \in Items \ {i} : items'[j] = items[j]
      /\ \A j \in Items : items[j].attempt \in Int
  BY <1>1, <1>3 DEF IInv, TypeOK, Row
<1>5. RowsGrow
  BY <1>3, <1>4 DEF RowsGrow
<1>6. LeaseOnlyWhileRunning' /\ AbsentIsBlank'
  BY <1>1, <1>3, <1>4 DEF IInv, LeaseOnlyWhileRunning, AbsentIsBlank
<1>7. PendingIsClaimable'
  BY <1>1, <1>2, <1>3, <1>4 DEF IInv, PendingIsClaimable, AbsentIsBlank
<1>8. ChunksOfCompletingAttempt'
  BY <1>1, <1>3, <1>4 DEF IInv, ChunksOfCompletingAttempt, AddItem
<1> QED
  BY <1>4, <1>5, <1>6, <1>7, <1>8, RowsOnlyStep DEF AddItem

\* A renewal extends the lease of a RUNNING row.
LEMMA RenewLeaseStep ==
    ASSUME IInv, NEW w \in Workers, RenewLease(w)
    PROVE  IInv'
<1>1. PICK i \in Items : i = workers[w].item
  BY DEF IInv, TokensHandedOut, RenewLease, Beating
<1>2. PICK l \in Nat \ {0} : items' = [items EXCEPT ![i] = [items[i] EXCEPT !.lease = l]]
  BY <1>1, RenewLeaseEffect DEF IInv
<1> DEFINE R == [items[i] EXCEPT !.lease = l]
<1>3. items' = [items EXCEPT ![i] = R] /\ items[i].status = "RUNNING"
  BY <1>1, <1>2, RenewLeaseEffect DEF IInv
<1>4. items[i] \in Row
  BY DEF IInv, TypeOK
<1>5. /\ R \in Row
      /\ R.status = items[i].status
      /\ R.attempt = items[i].attempt
      /\ R.lease # 0
  BY <1>4 DEF Row
<1> HIDE DEF R
<1>6. /\ items' \in [Items -> Row]
      /\ items'[i] = R
      /\ \A j \in Items \ {i} : items'[j] = items[j]
      /\ \A j \in Items : items[j].attempt \in Int
  BY <1>3, <1>5 DEF IInv, TypeOK, Row
<1>7. RowsGrow
  BY <1>5, <1>6 DEF RowsGrow
<1>8. LeaseOnlyWhileRunning' /\ AbsentIsBlank'
  BY <1>3, <1>5, <1>6 DEF IInv, LeaseOnlyWhileRunning, AbsentIsBlank
<1>9. PendingIsClaimable' /\ ChunksOfCompletingAttempt'
  BY <1>3, <1>5, <1>6
     DEF IInv, PendingIsClaimable, ChunksOfCompletingAttempt, RenewLease
<1>10. /\ workers' \in [Workers -> Worker]
      /\ \A v \in Workers : /\ workers'[v].step = workers[v].step
                             /\ workers'[v].item = workers[v].item
                             /\ workers'[v].attempt = workers[v].attempt
                             /\ workers'[v].tx = workers[v].tx
  BY <1>1, RenewLeaseEffect DEF IInv
<1>11. TypeOK'
  BY <1>6, <1>10 DEF IInv, TypeOK, RenewLease
<1>12. NoNewHandler
  BY <1>10 DEF NoNewHandler, Handling
<1>13. \A v \in Workers : workers'[v].step # "idle" => workers'[v].item \in Items
  BY <1>10 DEF IInv, TokensHandedOut
<1>14. TokensHandedOut' /\ FencingToken'
  BY <1>7, <1>11, <1>12, <1>13, NoNewHandlerKeepsTokens DEF IInv
<1>15. TransactionsBegan'
  BY <1>10 DEF IInv, TransactionsBegan, RenewLease
<1> QED
  BY <1>8, <1>9, <1>11, <1>14, <1>15 DEF IInv

\* What the reaper does to each row.
LEMMA ReapExpiredEffect ==
    ASSUME TypeOK, NEW w \in Workers, ReapExpired(w)
    PROVE  /\ items' \in [Items -> Row]
           /\ \A i \in Items :
                \/ items'[i] = items[i]
                \/ /\ items[i].status = "RUNNING"
                   /\ items[i].lease <= clock
                   /\ items'[i].status = "FAILED"
                   /\ items'[i].lease = 0
                   /\ items'[i].attempt = items[i].attempt
<1> DEFINE expired == {i \in Items : /\ items[i].status = "RUNNING"
                                     /\ items[i].lease <= clock
                                     /\ items[i].attempt >= MaxAttempts}
           R(i) == [items[i] EXCEPT !.status = "FAILED", !.lease = 0]
<1>1. items' = [i \in Items |-> IF i \in expired THEN R(i) ELSE items[i]]
  BY Zenon DEF ReapExpired
<1>2. ASSUME NEW i \in Items
      PROVE  /\ R(i) \in Row
             /\ R(i).status = "FAILED"
             /\ R(i).lease = 0
             /\ R(i).attempt = items[i].attempt
  <2>1. items[i] \in Row
    BY DEF TypeOK
  <2> QED
    BY <2>1 DEF Row, Statuses
<1>3. \A i \in expired : items[i].status = "RUNNING" /\ items[i].lease <= clock
  OBVIOUS
<1> HIDE DEF expired, R
<1> QED
  BY <1>1, <1>2, <1>3 DEF TypeOK

\* fail_exhausted_expired_items fails rows that have no attempts left.
LEMMA ReapExpiredStep ==
    ASSUME IInv, NEW w \in Workers, ReapExpired(w)
    PROVE  IInv'
<1>1. /\ items' \in [Items -> Row]
      /\ \A i \in Items :
           \/ items'[i] = items[i]
           \/ /\ items[i].status = "RUNNING"
              /\ items'[i].status = "FAILED"
              /\ items'[i].lease = 0
              /\ items'[i].attempt = items[i].attempt
  BY ReapExpiredEffect DEF IInv
<1>2. RowsGrow
  BY <1>1 DEF RowsGrow, IInv, TypeOK, Row
<1>3. LeaseOnlyWhileRunning' /\ AbsentIsBlank'
  BY <1>1 DEF IInv, LeaseOnlyWhileRunning, AbsentIsBlank
<1>4. PendingIsClaimable' /\ ChunksOfCompletingAttempt'
  BY <1>1 DEF IInv, PendingIsClaimable, ChunksOfCompletingAttempt, ReapExpired
<1> QED
  BY <1>1, <1>2, <1>3, <1>4, RowsOnlyStep DEF ReapExpired

\* A worker that takes up a message handles nothing yet.
LEMMA BeginClaimStep ==
    ASSUME IInv, NEW w \in Workers, NEW i \in Items, BeginClaim(w, i)
    PROVE  IInv'
<1> DEFINE W == [step |-> "claiming", item |-> i, attempt |-> 0, tx |-> clock,
               beat |-> 0]
<1>1. workers' = [workers EXCEPT ![w] = W]
  BY DEF BeginClaim
<1>2. W \in Worker /\ clock \in Nat
  BY ConstantsAssumption DEF IInv, TypeOK, Worker, Steps
<1>3. /\ W.step = "claiming"
      /\ W.item = i
      /\ W.tx = clock
  OBVIOUS
<1> HIDE DEF W
<1>4. /\ workers' \in [Workers -> Worker]
      /\ workers'[w] = W
      /\ \A v \in Workers \ {w} : workers'[v] = workers[v]
  BY <1>1, <1>2 DEF IInv, TypeOK
<1>5. TypeOK'
  BY <1>4 DEF IInv, TypeOK, BeginClaim
<1>6. NoNewHandler
  BY <1>3, <1>4 DEF NoNewHandler, Handling
<1>7. WorkersInOrder'
  BY <1>2, <1>3, <1>4
     DEF IInv, TokensHandedOut, TransactionsBegan, WorkersInOrder, BeginClaim
<1> QED
  BY <1>5, <1>6, <1>7, WorkersOnlyStep DEF BeginClaim

\* Time passes: transactions that began stay in the past.
LEMMA TickStep ==
    ASSUME IInv, Tick
    PROVE  IInv'
<1>1. TypeOK' /\ NoNewHandler
  BY ConstantsAssumption DEF IInv, TypeOK, Tick, NoNewHandler, Handling
<1>2. WorkersInOrder'
  BY ConstantsAssumption
     DEF IInv, TokensHandedOut, TransactionsBegan, WorkersInOrder, Tick, TypeOK, Worker
<1> QED
  BY <1>1, <1>2, WorkersOnlyStep DEF Tick

\* A handler ends its attempt, and with it the item's RUNNING status.
LEMMA EndStep ==
    ASSUME IInv, NEW w \in Workers, Handling(w), Owns(w), Stop(w),
           NEW status \in {"FAILED", "PENDING"}, ReleaseRow(workers[w].item, status),
           status = "PENDING" => AttemptsLeft(workers[w].attempt),
           UNCHANGED <<clock, chunks, faults>>
    PROVE  IInv'
<1>0. PICK i \in Items : i = workers[w].item
  BY DEF IInv, TokensHandedOut, Handling
<1>1. /\ items[i].status = "RUNNING"
      /\ status = "PENDING" => items[i].attempt < MaxAttempts
  BY <1>0 DEF Owns, OwnedBy, AttemptsLeft
<1>2. /\ workers' \in [Workers -> Worker]
      /\ NoNewHandler
      /\ WorkersInOrder'
  BY StopWorkers
<1> QED
  BY <1>0, <1>1, <1>2, ReleaseStep DEF IInv, TypeOK

\* The completing transaction commits, with or without its answer.
LEMMA CompleteItemStep ==
    ASSUME IInv, NEW w \in Workers, CompleteItem(w), clock' = clock, faults' \in Nat,
           Stop(w) \/ Begin(w, "retrying")
    PROVE  IInv'
<1>0. PICK i \in Items : i = workers[w].item
  BY CompleteItemEffect DEF IInv
<1>1. /\ items[i].status = "RUNNING"
      /\ ReleaseRow(i, "COMPLETED")
      /\ chunks' = [chunks EXCEPT ![i] = items[i].attempt]
  BY <1>0, CompleteItemEffect DEF IInv
<1>2. /\ workers' \in [Workers -> Worker]
      /\ NoNewHandler
      /\ WorkersInOrder'
  BY StopWorkers, BeginWorkers DEF CompleteItem, Handling, Steps
<1> QED
  BY <1>1, <1>2, ReleaseStep

\* Every step of the lifecycle, faults included, keeps the inductive invariant.
THEOREM Invariance ==
    ASSUME IInv, Next
    PROVE  IInv'
<1>1. CASE Tick
  BY <1>1, TickStep
<1>2. ASSUME NEW i \in Items, AddItem(i)
      PROVE  IInv'
  BY <1>2, AddItemStep
<1>3. ASSUME NEW w \in Workers, NEW i \in Items, BeginClaim(w, i)
      PROVE  IInv'
  BY <1>3, BeginClaimStep
<1>4. ASSUME NEW w \in Workers,
             \/ ClaimRefused(w)
             \/ LoseLease(w)
             \/ CompleteLost(w)
             \/ MarkFailedRaises(w)
             \/ RetryRefused(w)
             \/ OutcomeLost(w)
             \/ Crash(w)
      PROVE  IInv'
  <2>1. /\ Stop(w)
        /\ UNCHANGED <<clock, items, chunks>>
        /\ faults' = faults \/ faults' = faults + 1
    BY <1>4 DEF ClaimRefused, LoseLease, CompleteLost, MarkFailedRaises,
                RetryRefused, OutcomeLost, Crash, Fault
  <2> QED
    BY <2>1, StopStep DEF IInv, TypeOK
<1>5. ASSUME NEW w \in Workers, FinishProcessing(w)
      PROVE  IInv'
  <2>1. /\ Handling(w)
        /\ \E step \in Steps : Begin(w, step)
        /\ UNCHANGED <<clock, items, chunks, faults>>
    BY <1>5 DEF FinishProcessing, Handling, Steps
  <2> QED
    BY <2>1, BeginStep DEF IInv, TypeOK
<1>6. ASSUME NEW w \in Workers, CompleteRaises(w)
      PROVE  IInv'
  <2>1. /\ Handling(w)
        /\ Begin(w, "retrying")
        /\ UNCHANGED <<clock, items, chunks, faults>>
    BY <1>6 DEF CompleteRaises, Handling
  <2> QED
    BY <2>1, BeginStep DEF IInv, TypeOK, Steps
<1>7. ASSUME NEW w \in Workers, DatabaseError(w)
      PROVE  IInv'
  <2>1. UNCHANGED <<clock, items, chunks>> /\ faults' \in Nat
    BY <1>7 DEF DatabaseError, Fault, IInv, TypeOK
  <2>2. CASE Stop(w)
    BY <2>1, <2>2, StopStep
  <2>3. CASE Beating(w) /\ Begin(w, "retrying")
    BY <2>1, <2>3, BeginStep DEF Beating, Handling, Steps
  <2> QED
    BY <1>7, <2>2, <2>3 DEF DatabaseError
<1>8. ASSUME NEW w \in Workers, Claim(w)
      PROVE  IInv'
  BY <1>8, ClaimStep
<1>9. ASSUME NEW w \in Workers, RenewLease(w)
      PROVE  IInv'
  BY <1>9, RenewLeaseStep
<1>10. ASSUME NEW w \in Workers, Complete(w)
       PROVE  IInv'
  BY <1>10, CompleteItemStep DEF Complete, IInv, TypeOK
<1>11. ASSUME NEW w \in Workers, MarkFailed(w)
       PROVE  IInv'
  BY <1>11, EndStep DEF MarkFailed, Handling
<1>12. ASSUME NEW w \in Workers, ScheduleRetry(w)
       PROVE  IInv'
  BY <1>12, EndStep DEF ScheduleRetry, Handling
<1>13. ASSUME NEW w \in Workers, ReapExpired(w)
       PROVE  IInv'
  BY <1>13, ReapExpiredStep
<1>14. ASSUME NEW w \in Workers, AnswerLost(w)
       PROVE  IInv'
  <2>1. clock' = clock /\ faults' \in Nat
    BY <1>14 DEF AnswerLost, Fault, IInv, TypeOK
  <2>2. CASE ClaimItem(w) /\ Stop(w)
    BY <2>1, <2>2, LostClaimStep
  <2>3. CASE CompleteItem(w) /\ Begin(w, "retrying")
    BY <2>1, <2>3, CompleteItemStep
  <2> QED
    BY <1>14, <2>2, <2>3 DEF AnswerLost
<1> QED
  BY <1>1, <1>2, <1>3, <1>4, <1>5, <1>6, <1>7, <1>8, <1>9, <1>10, <1>11, <1>12,
     <1>13, <1>14 DEF Next

\* The empty table satisfies the invariant.
LEMMA InitInvariant == Init => IInv
<1> SUFFICES ASSUME Init PROVE IInv
  OBVIOUS
<1>1. TypeOK
  BY ConstantsAssumption DEF Init, TypeOK, Row, Worker, Statuses, Steps, Idle
<1>2. /\ \A i \in Items : /\ items[i].status = "ABSENT"
                          /\ items[i].attempt = 0
                          /\ items[i].lease = 0
                          /\ chunks[i] = 0
      /\ \A w \in Workers : workers[w].step = "idle" /\ workers[w].tx = 0
  BY DEF Init, Idle
<1> QED
  BY <1>1, <1>2 DEF IInv, TypeOK, LeaseOnlyWhileRunning, TokensHandedOut, AbsentIsBlank,
     TransactionsBegan, FencingToken, ChunksOfCompletingAttempt, PendingIsClaimable,
     Handling, Holds

\* So does a state after it in which nothing changed.
LEMMA StutterInvariant == ASSUME IInv, UNCHANGED vars PROVE IInv'
BY DEF vars, IInv, TypeOK, LeaseOnlyWhileRunning, TokensHandedOut, AbsentIsBlank,
     TransactionsBegan, FencingToken, ChunksOfCompletingAttempt, PendingIsClaimable,
     Handling, Holds

\* The inductive invariant holds in every behaviour of the lifecycle.
THEOREM InvariantHolds == Spec => []IInv
<1>1. IInv /\ [Next]_vars => IInv'
  BY Invariance, StutterInvariant
<1> QED
  BY <1>1, InitInvariant, PTL DEF Spec

-----------------------------------------------------------------------------
(* The safety properties of the runs, for every instance.                  *)

\* Rows, chunk sets and workers keep their types; no attempt number passes MaxAttempts.
THEOREM TypeCorrectness == Spec => []TypeOK
BY InvariantHolds, PTL DEF IInv

\* The attempt number fences: two handlers never share one, whatever the clocks do.
THEOREM Fencing == Spec => []FencingToken
BY InvariantHolds, PTL DEF IInv

\* The chunks on show are those of the attempt that completed the item.
THEOREM ChunksAreOfCompletingAttempt == Spec => []ChunksOfCompletingAttempt
BY InvariantHolds, PTL DEF IInv

\* A waiting item can always be claimed.
THEOREM PendingItemsAreClaimable == Spec => []PendingIsClaimable
BY InvariantHolds, PTL DEF IInv

-----------------------------------------------------------------------------
(* Live leases.                                                            *)

\* What LiveLeaseRespected allows to happen to item i by the hand of w.
HolderActs(w, i) ==
    /\ Holds(w, i)
    /\ workers[w].attempt = items[i].attempt
    /\ \/ items'[i] = [items[i] EXCEPT !.lease = items'[i].lease]
       \/ workers'[w].step \in {"idle", "retrying"}

\* A statement with the WHERE clause of _owned_by, by a handler that then stops
\* or goes on to its retry, touches its own item only.
LEMMA ReleaseByHolder ==
    ASSUME IInv, NEW w \in Workers, Handling(w), Owns(w),
           Stop(w) \/ Begin(w, "retrying"),
           NEW status \in Statuses, ReleaseRow(workers[w].item, status),
           NEW i \in Items, items'[i] # items[i]
    PROVE  HolderActs(w, i)
<1>1. workers'[w].step \in {"idle", "retrying"}
  BY StopEffect, BeginEffect DEF IInv, Steps, Idle
<1>2. workers[w].item \in Items
  BY DEF IInv, TokensHandedOut, Handling
<1>3. workers[w].item = i
  BY <1>2, ReleaseRowEffect DEF IInv
<1> QED
  BY <1>1, <1>3 DEF HolderActs, Holds, Owns, OwnedBy

\* A renewal is made by the holder and changes the lease only.
LEMMA RenewByHolder ==
    ASSUME IInv, NEW w \in Workers, RenewLease(w), NEW i \in Items, items'[i] # items[i]
    PROVE  HolderActs(w, i)
<1> DEFINE Renewed(l) == [items[i] EXCEPT !.lease = l]
<1>1. PICK j \in Items : j = workers[w].item
  BY DEF IInv, TokensHandedOut, RenewLease, Beating
<1>2. PICK m \in Nat \ {0} : items' = [items EXCEPT ![j] = [items[j] EXCEPT !.lease = m]]
  BY <1>1, RenewLeaseEffect DEF IInv
<1>3. j = i
  BY <1>2 DEF IInv, TypeOK
<1>4. items' = [items EXCEPT ![i] = Renewed(m)]
  BY <1>3, <1>2
<1>5. items[i].attempt = workers[w].attempt
  BY <1>1, <1>3, RenewLeaseEffect DEF IInv
<1>6. \A l : Renewed(l).lease = l
  BY DEF IInv, TypeOK, Row
<1>7. items'[i] = Renewed(items'[i].lease)
  <2> HIDE DEF Renewed
  <2> QED
    BY <1>4, <1>6 DEF IInv, TypeOK
<1> QED
  BY <1>1, <1>3, <1>7, <1>5 DEF HolderActs, Holds, RenewLease, Beating, Handling

\* The claim looks at the lease with a time that has passed: it leaves a live one alone.
LEMMA ClaimSparesLiveLease ==
    ASSUME IInv, NEW w \in Workers, ClaimItem(w),
           NEW i \in Items, items[i].status = "RUNNING", items[i].lease > clock
    PROVE  items'[i] = items[i]
<1>1. /\ workers[w].tx <= clock
      /\ workers[w].tx \in Int
      /\ clock \in Int
      /\ items[i].lease \in Int
  BY ConstantsAssumption DEF IInv, TransactionsBegan, TypeOK, Worker, Row
<1> QED
  BY <1>1, ClaimItemEffect DEF IInv

\* Every step respects the live leases.
LEMMA LiveLeaseStep ==
    ASSUME IInv, Next, NEW i \in Items,
           items[i].status = "RUNNING", items[i].lease > clock, items'[i] # items[i]
    PROVE  \E w \in Workers : HolderActs(w, i)
<1>1. ASSUME NEW w \in Workers, CompleteItem(w), Stop(w) \/ Begin(w, "retrying")
      PROVE  HolderActs(w, i)
  BY <1>1, ReleaseByHolder DEF CompleteItem, Handling, Statuses
<1>2. ASSUME NEW w \in Workers, MarkFailed(w) \/ ScheduleRetry(w)
      PROVE  HolderActs(w, i)
  <2>1. /\ Handling(w)
        /\ Owns(w)
        /\ Stop(w)
        /\ \E status \in Statuses : ReleaseRow(workers[w].item, status)
    BY <1>2 DEF MarkFailed, ScheduleRetry, Handling, Statuses
  <2> QED
    BY <2>1, ReleaseByHolder
<1>3. ASSUME NEW w \in Workers, ClaimItem(w)
      PROVE  FALSE
  BY <1>3, ClaimSparesLiveLease
<1>4. ASSUME NEW w \in Workers, ReapExpired(w)
      PROVE  FALSE
  BY <1>4, ReapExpiredEffect, ConstantsAssumption DEF IInv, TypeOK, Row
<1>5. ASSUME NEW j \in Items, AddItem(j)
      PROVE  FALSE
  BY <1>5 DEF AddItem, IInv, TypeOK
<1>6. ASSUME NEW w \in Workers, AnswerLost(w)
      PROVE  HolderActs(w, i)
  BY <1>1, <1>3, <1>6 DEF AnswerLost
<1> QED
  BY <1>1, <1>2, <1>3, <1>4, <1>5, <1>6, RenewByHolder
     DEF Next, Tick, BeginClaim, Claim, ClaimRefused, LoseLease, FinishProcessing,
         Complete, CompleteLost, CompleteRaises, MarkFailedRaises, RetryRefused,
         OutcomeLost, Crash, DatabaseError

\* No other process takes a running item away while its lease is alive.
THEOREM LiveLeases == Spec => LiveLeaseRespected
<1>1. ASSUME IInv, [Next]_vars
      PROVE  [\A i \in Items :
                items[i].status = "RUNNING" /\ items[i].lease > clock
                /\ items'[i] # items[i]
                => \E w \in Workers :
                     /\ Holds(w, i)
                     /\ workers[w].attempt = items[i].attempt
                     /\ \/ items'[i] = [items[i] EXCEPT !.lease = items'[i].lease]
                        \/ workers'[w].step \in {"idle", "retrying"}]_vars
  BY <1>1, LiveLeaseStep, Zenon DEF HolderActs
<1> QED
  BY <1>1, InvariantHolds, PTL DEF Spec, LiveLeaseRespected

-----------------------------------------------------------------------------
(* IngestionLifecycle implements LeasedJob.                                *)

\* Steps that show the abstract job nothing new.
LEMMA JobStutter ==
    ASSUME \A i \in Items : /\ items'[i].status = items[i].status
                            /\ items'[i].attempt = items[i].attempt,
           chunks' = chunks
    PROVE  UNCHANGED Job!vars
BY DEF Job!vars

\* The claim statement is a Start of the abstract job.
LEMMA ClaimItemStarts ==
    ASSUME IInv, NEW w \in Workers, ClaimItem(w)
    PROVE  Job!Next
<1>1. PICK i \in Items : i = workers[w].item
  BY ClaimItemEffect DEF IInv
<1>2. /\ items[i].status \in {"PENDING", "RUNNING"}
      /\ items[i].attempt < MaxAttempts
      /\ items'[i].status = "RUNNING"
      /\ items'[i].attempt = items[i].attempt + 1
      /\ \A j \in Items \ {i} : items'[j] = items[j]
      /\ chunks' = chunks
  BY <1>1, ClaimItemEffect DEF IInv
<1>3. Job!Start(i)
  BY <1>2 DEF Job!Start
<1> QED
  BY <1>3 DEF Job!Next

\* The completing transaction is its Complete.
LEMMA CompleteItemCompletes ==
    ASSUME IInv, NEW w \in Workers, CompleteItem(w)
    PROVE  Job!Next
<1>1. PICK i \in Items : i = workers[w].item
  BY CompleteItemEffect DEF IInv
<1>2. /\ items[i].status = "RUNNING"
      /\ ReleaseRow(i, "COMPLETED")
      /\ chunks' = [chunks EXCEPT ![i] = items[i].attempt]
  BY <1>1, CompleteItemEffect DEF IInv
<1>3. /\ items'[i].status = "COMPLETED"
      /\ items'[i].attempt = items[i].attempt
      /\ \A j \in Items \ {i} : items'[j] = items[j]
  BY <1>2, ReleaseRowEffect DEF IInv, Statuses
<1>4. Job!Complete(i)
  BY <1>2, <1>3 DEF Job!Complete
<1> QED
  BY <1>4 DEF Job!Next

\* add_item is its Submit.
LEMMA AddItemSubmits ==
    ASSUME IInv, NEW i \in Items, AddItem(i)
    PROVE  Job!Next
<1> DEFINE R == [items[i] EXCEPT !.status = "PENDING"]
<1>1. items' = [items EXCEPT ![i] = R]
  BY Zenon DEF AddItem
<1>2. R.status = "PENDING" /\ R.attempt = items[i].attempt
  BY DEF IInv, TypeOK, Row
<1> HIDE DEF R
<1>3. /\ items'[i].status = "PENDING"
      /\ items'[i].attempt = items[i].attempt
      /\ \A j \in Items \ {i} : items'[j] = items[j]
  BY <1>1, <1>2 DEF IInv, TypeOK
<1>4. items[i].status = "ABSENT" /\ chunks' = chunks
  BY DEF AddItem
<1>5. Job!Submit(i)
  BY <1>3, <1>4 DEF Job!Submit
<1> QED
  BY <1>5 DEF Job!Next

\* schedule_retry with attempts left is its Retry.
LEMMA ScheduleRetryRetries ==
    ASSUME IInv, NEW w \in Workers, ScheduleRetry(w)
    PROVE  Job!Next
<1>1. PICK i \in Items : i = workers[w].item
  BY DEF IInv, TokensHandedOut, ScheduleRetry
<1>2. /\ items[i].status = "RUNNING"
      /\ items[i].attempt < MaxAttempts
      /\ ReleaseRow(i, "PENDING")
      /\ chunks' = chunks
  BY <1>1 DEF ScheduleRetry, Owns, OwnedBy, AttemptsLeft
<1>3. /\ items'[i].status = "PENDING"
      /\ items'[i].attempt = items[i].attempt
      /\ \A j \in Items \ {i} : items'[j] = items[j]
  BY <1>2, ReleaseRowEffect DEF IInv, Statuses
<1>4. Job!Retry(i)
  BY <1>2, <1>3 DEF Job!Retry
<1> QED
  BY <1>4 DEF Job!Next

\* mark_failed is its Fail, for one job.
LEMMA MarkFailedFails ==
    ASSUME IInv, NEW w \in Workers, MarkFailed(w)
    PROVE  Job!Next
<1>1. PICK i \in Items : i = workers[w].item
  BY DEF IInv, TokensHandedOut, MarkFailed
<1>2. /\ items[i].status = "RUNNING"
      /\ ReleaseRow(i, "FAILED")
      /\ chunks' = chunks
  BY <1>1 DEF MarkFailed, Owns, OwnedBy
<1>3. /\ items'[i].status = "FAILED"
      /\ items'[i].attempt = items[i].attempt
      /\ \A j \in Items \ {i} : items'[j] = items[j]
  BY <1>2, ReleaseRowEffect DEF IInv, Statuses
<1>4. Job!Fail({i})
  BY <1>2, <1>3 DEF Job!Fail
<1> QED
  BY <1>4 DEF Job!Next

\* The reaper is its Fail, for all expired jobs at once.
LEMMA ReapExpiredFails ==
    ASSUME IInv, NEW w \in Workers, ReapExpired(w)
    PROVE  Job!Next
<1>0. PICK S \in SUBSET Items : S = {i \in Items : items'[i] # items[i]}
  OBVIOUS
<1>1. \A i \in Items :
        \/ items'[i] = items[i]
        \/ /\ items[i].status = "RUNNING"
           /\ items'[i].status = "FAILED"
           /\ items'[i].attempt = items[i].attempt
  BY ReapExpiredEffect DEF IInv
<1>2. \A i \in Items :
        /\ i \in S => items[i].status = "RUNNING"
        /\ items'[i].status = IF i \in S THEN "FAILED" ELSE items[i].status
        /\ items'[i].attempt = items[i].attempt
  BY <1>0, <1>1
<1>3. Job!Fail(S)
  BY <1>2 DEF Job!Fail, ReapExpired
<1> QED
  BY <1>3 DEF Job!Next

\* Every step of the lifecycle is a step of the abstract job or a stutter.
LEMMA JobStep ==
    ASSUME IInv, Next
    PROVE  Job!Next \/ UNCHANGED Job!vars
<1>1. ASSUME NEW w \in Workers, RenewLease(w)
      PROVE  UNCHANGED Job!vars
  <2>1. PICK i \in Items : i = workers[w].item
    BY <1>1 DEF RenewLease, Beating, IInv, TokensHandedOut
  <2>2. PICK l \in Nat \ {0} : items' = [items EXCEPT ![i] = [items[i] EXCEPT !.lease = l]]
    BY <1>1, <2>1, RenewLeaseEffect DEF IInv
  <2> DEFINE R == [items[i] EXCEPT !.lease = l]
  <2>3. items' = [items EXCEPT ![i] = R]
    BY <2>2
  <2>4. R.status = items[i].status /\ R.attempt = items[i].attempt
    BY DEF IInv, TypeOK, Row
  <2> HIDE DEF R
  <2> QED
    BY <1>1, <2>3, <2>4, JobStutter DEF RenewLease, IInv, TypeOK
<1>2. ASSUME NEW w \in Workers, AnswerLost(w)
      PROVE  Job!Next
  BY <1>2, ClaimItemStarts, CompleteItemCompletes DEF AnswerLost
<1>3. CASE UNCHANGED <<items, chunks>>
  BY <1>3, JobStutter
<1> QED
  BY <1>1, <1>2, <1>3, AddItemSubmits, ClaimItemStarts, CompleteItemCompletes,
     ScheduleRetryRetries, MarkFailedFails, ReapExpiredFails
     DEF Next, Tick, BeginClaim, Claim, ClaimRefused, LoseLease, FinishProcessing,
         Complete, CompleteLost, CompleteRaises, MarkFailedRaises, RetryRefused,
         OutcomeLost, Crash, DatabaseError

\* Whatever clocks, leases, crashes and lost answers do, an item only shows
\* the life of a LeasedJob.
THEOREM Implements == Spec => ImplementsLeasedJob
<1>1. Init => Job!Init
  BY DEF Init, Job!Init
<1>2. IInv /\ [Next]_vars => [Job!Next]_(Job!vars)
  <2>1. ASSUME UNCHANGED vars
        PROVE  UNCHANGED Job!vars
    BY <2>1 DEF vars, Job!vars
  <2> QED
    BY <2>1, JobStep
<1> QED
  BY <1>1, <1>2, InvariantHolds, PTL DEF Spec, ImplementsLeasedJob, Job!Spec

=============================================================================
