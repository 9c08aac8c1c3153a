----------------------------- MODULE LeasedJob -----------------------------
(***************************************************************************)
(* What a leased job of AtlasRAG promises, whatever the workers, clocks,   *)
(* leases and crashes below it do: an attempt is started at most           *)
(* MaxAttempts times, attempts are numbered one after the other, only the  *)
(* attempt that is running ends a job, a job ends once, and the output a   *)
(* completed job shows is the output of the attempt that completed it.     *)
(*                                                                         *)
(* IngestionLifecycle implements this specification (theorem Implements    *)
(* of IngestionLifecycle_proofs).                                          *)
(***************************************************************************)
EXTENDS Naturals

CONSTANTS
    Jobs,           \* the jobs
    MaxAttempts     \* how many attempts a job may be given

VARIABLES
    status,     \* of each job
    attempt,    \* the number of attempts started so far
    output      \* the attempt whose output the job shows, 0 when it shows none

vars == <<status, attempt, output>>

Statuses == {"ABSENT", "PENDING", "RUNNING", "COMPLETED", "FAILED"}

Init ==
    /\ status = [j \in Jobs |-> "ABSENT"]
    /\ attempt = [j \in Jobs |-> 0]
    /\ output = [j \in Jobs |-> 0]

Submit(j) ==
    /\ status[j] = "ABSENT"
    /\ status' = [status EXCEPT ![j] = "PENDING"]
    /\ UNCHANGED <<attempt, output>>

\* A running job may be started again: its attempt is then given up.
Start(j) ==
    /\ status[j] \in {"PENDING", "RUNNING"}
    /\ attempt[j] < MaxAttempts
    /\ status' = [status EXCEPT ![j] = "RUNNING"]
    /\ attempt' = [attempt EXCEPT ![j] = @ + 1]
    /\ UNCHANGED output

Complete(j) ==
    /\ status[j] = "RUNNING"
    /\ status' = [status EXCEPT ![j] = "COMPLETED"]
    /\ output' = [output EXCEPT ![j] = attempt[j]]
    /\ UNCHANGED attempt

Retry(j) ==
    /\ status[j] = "RUNNING"
    /\ attempt[j] < MaxAttempts
    /\ status' = [status EXCEPT ![j] = "PENDING"]
    /\ UNCHANGED <<attempt, output>>

\* Several jobs may be failed at once.
Fail(S) ==
    /\ \A j \in S : status[j] = "RUNNING"
    /\ status' = [j \in Jobs |-> IF j \in S THEN "FAILED" ELSE status[j]]
    /\ UNCHANGED <<attempt, output>>

Next ==
    \/ \E j \in Jobs : Submit(j) \/ Start(j) \/ Complete(j) \/ Retry(j)
    \/ \E S \in SUBSET Jobs : Fail(S)

Spec == Init /\ [][Next]_vars

=============================================================================
