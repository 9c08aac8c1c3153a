-------------------------- MODULE GroupMembership --------------------------
(***************************************************************************)
(* Nested groups: the active rows of iam.group_memberships, the status of  *)
(* the principals they join, and concurrent requests that run              *)
(* GroupMembershipService.add_group_member and remove_group_member.        *)
(*                                                                         *)
(* A request is one transaction at READ COMMITTED: each of its statements  *)
(* sees what others have committed by then.  PrincipalRepository.find_by_id *)
(* is SELECT ... FOR UPDATE, so a request locks the group, then the        *)
(* member, and keeps both until it ends; nothing else is locked.           *)
(***************************************************************************)
EXTENDS Naturals

CONSTANTS
    Groups,         \* the group principals
    Users,          \* the user principals
    Requests,       \* the requests that may run at the same time
    MaxChanges,     \* bound: how often principals change their status
    NoPrincipal     \* stands for "no principal"

Principals == Groups \cup Users

ASSUME GroupAssumption ==
    /\ Groups \cap Users = {}
    /\ NoPrincipal \notin Principals
    /\ MaxChanges \in Nat

VARIABLES
    status,         \* of each principal
    memberships,    \* the pairs <<group, member>> of the active rows
    requests,       \* what each request is doing
    changes         \* the status changes so far

vars == <<status, memberships, requests, changes>>

-----------------------------------------------------------------------------

\* locking_group, locking_member: about to lock that principal.  checking: both
\* are locked.  writing: has_active_membership and would_create_cycle said no.
Steps == {"idle", "locking_group", "locking_member", "checking", "writing"}

Request == [step : Steps, op : {"add", "remove", "none"},
            group : Groups \cup {NoPrincipal}, member : Principals \cup {NoPrincipal}]

Idle == [step |-> "idle", op |-> "none", group |-> NoPrincipal, member |-> NoPrincipal]

TypeOK ==
    /\ status \in [Principals -> {"active", "inactive", "retired"}]
    /\ memberships \in SUBSET (Groups \X Principals)
    /\ requests \in [Requests -> Request]
    /\ \A r \in Requests :
         IF requests[r].step = "idle"
         THEN requests[r] = Idle
         ELSE requests[r].group \in Groups /\ requests[r].member \in Principals
    /\ changes \in 0..MaxChanges

Init ==
    /\ status = [p \in Principals |-> "active"]
    /\ memberships = {}
    /\ requests = [r \in Requests |-> Idle]
    /\ changes = 0

-----------------------------------------------------------------------------
(* Row locks.                                                              *)

HasLockedGroupOnly(r) ==
    IF requests[r].step \in {"locking_member", "checking", "writing"}
    THEN {requests[r].group} ELSE {}

HasLocked(r) ==
    CASE requests[r].step = "locking_member" -> {requests[r].group}
      [] requests[r].step \in {"checking", "writing"} ->
           {requests[r].group, requests[r].member}
      [] OTHER -> {}

\* find_by_id does not wait for another transaction.
Free(r, p) == \A q \in Requests \ {r} : p \notin HasLocked(q)

-----------------------------------------------------------------------------
(* The recursive query of would_create_cycle.                              *)

\* b is among the groups that the recursive query finds below a: it is in every
\* set that holds a's member groups and the member groups of its elements.
Reaches(edges, a, b) ==
    \A S \in SUBSET Groups :
        (/\ \A g \in Groups : <<a, g>> \in edges => g \in S
         /\ \A g \in S, h \in Groups : <<g, h>> \in edges => h \in S)
        => b \in S

WouldCreateCycle(g, m) == m \in Groups /\ Reaches(memberships, m, g)

-----------------------------------------------------------------------------
(* GroupMembershipService.                                                 *)

GoTo(r, step) == requests' = [requests EXCEPT ![r].step = step]

EndedKeepingTargets(r) == [requests EXCEPT ![r].step = "idle"]

Ended(r) == [requests EXCEPT ![r] = Idle]

\* The request commits, or ends with an exception and is rolled back.
End(r) == requests' = Ended(r)

\* GroupSelfMembership is raised before the transaction.
Start(r, op, g, m) ==
    /\ requests[r].step = "idle"
    /\ op = "add" => g # m
    /\ requests' = [requests EXCEPT
                      ![r] = [step |-> "locking_group", op |-> op, group |-> g, member |-> m]]
    /\ UNCHANGED <<status, memberships, changes>>

\* _ensure_active, for requests that add.
Accepted(r, p) == requests[r].op = "add" => status[p] = "active"

LockGroup(r) ==
    LET g == requests[r].group IN
    /\ requests[r].step = "locking_group"
    /\ Free(r, g)
    /\ IF Accepted(r, g) THEN GoTo(r, "locking_member") ELSE End(r)
    /\ UNCHANGED <<status, memberships, changes>>

LockMember(r) ==
    LET m == requests[r].member IN
    /\ requests[r].step = "locking_member"
    /\ Free(r, m)
    /\ IF Accepted(r, m) THEN GoTo(r, "checking") ELSE End(r)
    /\ UNCHANGED <<status, memberships, changes>>

\* GroupMembershipAlreadyExists or GroupCycleDetected ends a request that adds.
Check(r) ==
    LET g == requests[r].group
        m == requests[r].member
    IN  /\ requests[r].step = "checking"
        /\ requests[r].op = "add"
        /\ IF <<g, m>> \in memberships \/ WouldCreateCycle(g, m)
           THEN End(r) ELSE GoTo(r, "writing")
        /\ UNCHANGED <<status, memberships, changes>>

Add(r) ==
    /\ requests[r].step = "writing"
    /\ memberships' = memberships \cup {<<requests[r].group, requests[r].member>>}
    /\ End(r)
    /\ UNCHANGED <<status, changes>>

\* close_active_membership; when no row is active, GroupMembershipNotFound.
Remove(r) ==
    /\ requests[r].step = "checking"
    /\ requests[r].op = "remove"
    /\ memberships' = memberships \ {<<requests[r].group, requests[r].member>>}
    /\ End(r)
    /\ UNCHANGED <<status, changes>>

\* The request fails: a lost connection, or PostgreSQL breaks a deadlock.
Abort(r) ==
    /\ requests[r].step # "idle"
    /\ End(r)
    /\ UNCHANGED <<status, memberships, changes>>

-----------------------------------------------------------------------------
(* PrincipalLifecycleService, for groups and users without the superadmin  *)
(* role: activate, deactivate or retire, under the principal's row lock.   *)

CanBecome(p, s) ==
    /\ status[p] # "retired"
    /\ status[p] # s

SetStatusUnlocked(p, s) ==
    /\ CanBecome(p, s)
    /\ changes < MaxChanges
    /\ changes' = changes + 1
    /\ status' = [status EXCEPT ![p] = s]
    /\ UNCHANGED <<memberships, requests>>

SetStatus(p, s) ==
    /\ CanBecome(p, s)
    /\ \A r \in Requests : p \notin HasLocked(r)
    /\ changes < MaxChanges
    /\ changes' = changes + 1
    /\ status' = [status EXCEPT ![p] = s]
    /\ UNCHANGED <<memberships, requests>>

-----------------------------------------------------------------------------

Next ==
    \/ \E r \in Requests, op \in {"add", "remove"}, g \in Groups, m \in Principals :
         Start(r, op, g, m)
    \/ \E r \in Requests :
         \/ LockGroup(r)
         \/ LockMember(r)
         \/ Check(r)
         \/ Add(r)
         \/ Remove(r)
         \/ Abort(r)
    \/ \E p \in Principals, s \in {"active", "inactive", "retired"} : SetStatus(p, s)

Spec == Init /\ [][Next]_vars

-----------------------------------------------------------------------------
(* Properties.                                                             *)

\* However requests interleave, no group is a member of itself, and no two or three
\* groups are members of each other in a circle: any two edges of so short a circle
\* share a group, so the requests that add them cannot run at the same time.
NoShortCycle ==
    \A g, h, k \in Groups :
        /\ <<g, g>> \notin memberships
        /\ ~(<<g, h>> \in memberships /\ <<h, g>> \in memberships)
        /\ ~(<<g, h>> \in memberships /\ <<h, k>> \in memberships /\ <<k, g>> \in memberships)

\* A row is added only while its group and its member are active, even when one of
\* them is deactivated or retired at the same time.
OnlyActiveJoin ==
    [][\A g \in Groups, m \in Principals :
         <<g, m>> \in memberships' \ memberships =>
             status[g] = "active" /\ status[m] = "active"]_vars

\* docs/adr/keycloak/identity-architecture.md: "the active membership graph must
\* be acyclic".
Acyclic == \A g \in Groups : ~Reaches(memberships, g, g)

=============================================================================
