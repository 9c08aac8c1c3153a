----------------------------- MODULE AccessControl -----------------------------
(***************************************************************************)
(* Who a caller is and what it may manage: the rows of iam.principals,     *)
(* iam.user_identifier, iam.user_roles and iam.principal_permissions, and  *)
(* the requests that log users in, authorize them, and activate,           *)
(* deactivate and retire principals, assign and revoke the superadmin role *)
(* and grant and revoke permissions.                                       *)
(*                                                                         *)
(* A step is a statement, or the last statements of a transaction with its *)
(* commit.  A request authenticates and is authorized in transactions of   *)
(* their own, before the one of its operation.  The permissions of the     *)
(* management routes are one permission here, the superadmin role is the   *)
(* only role, and groups are in GroupMembership.                           *)
(***************************************************************************)
EXTENDS Integers, FiniteSets

CONSTANTS
    Users,       \* identifiers a user's principal may get
    Identities,  \* pairs of issuer and subject
    Requests,    \* requests served at the same time
    Superadmin,  \* the principal of the superadmin role, there from migration 0013
    RoleRow,     \* its row in iam.roles
    JitEnabled,  \* IDENTITY_JIT_ENABLED
    None

ASSUME JitAssumption == JitEnabled \in BOOLEAN
ASSUME NamesAssumption ==
    /\ Superadmin \notin Users
    /\ RoleRow \notin Users \cup {Superadmin}
    /\ None \notin Users \cup Identities \cup Requests \cup {Superadmin, RoleRow}

VARIABLES
    principals,  \* rows of iam.principals
    identities,  \* the identity in the user's row of iam.user_identifier
    assigned,    \* users with an unrevoked row for the superadmin role
    granted,     \* principals with an unrevoked grant of the permission
    locked,      \* the request that holds a row FOR UPDATE, or None
    requests     \* where each request is

vars == <<principals, identities, assigned, granted, locked, requests>>

Principals == Users \cup {Superadmin}
Statuses == {"absent", "active", "inactive", "retired"}
Removals == {"deactivate", "retire"}
Operations == Removals \cup {"activate", "grant", "revoke permission", "assign", "revoke role"}

Unauthenticated == {"idle", "provision", "insert identity", "collided"}
Phases == Unauthenticated \cup
    {"authenticated", "effective read", "authorized", "lock principal", "lock role",
     "check removal", "insert assignment", "write"}

Request ==
    [phase : Phases, identity : Identities \cup {None}, actor : Users \cup {None},
     effective : SUBSET Principals, op : Operations \cup {None},
     target : Principals \cup {None}]

Idle == [phase |-> "idle", identity |-> None, actor |-> None,
         effective |-> {}, op |-> None, target |-> None]

\* The rows, without those that are closed: valid_to or revoked_at is set.
IdentifierRows == [Users -> Identities \cup {None}]
UserRoleRows == SUBSET Users
PermissionRows == SUBSET Principals

TypeOK ==
    /\ principals \in [Principals -> Statuses]
    /\ identities \in IdentifierRows
    /\ assigned \in UserRoleRows
    /\ granted \in PermissionRows
    /\ locked \in [Principals \cup {RoleRow} -> Requests \cup {None}]
    /\ requests \in [Requests -> Request]
    /\ \A r \in Requests :
        requests[r].phase \notin Unauthenticated => requests[r].actor \in Users

\* After migration 0013: the role and its grants, and nobody who has it.
Init ==
    /\ principals = [p \in Principals |-> IF p = Superadmin THEN "active" ELSE "absent"]
    /\ identities = [u \in Users |-> None]
    /\ assigned = {}
    /\ granted = {Superadmin}
    /\ locked = [x \in Principals \cup {RoleRow} |-> None]
    /\ requests = [r \in Requests |-> Idle]

-----------------------------------------------------------------------------
(* Helpers *)

At(r, phase) == requests[r].phase = phase
Goto(r, phase) == requests' = [requests EXCEPT ![r].phase = phase]

\* The end of a request's transaction, by commit, rollback or refusal.
End(r) ==
    /\ requests' = [requests EXCEPT ![r] = Idle]
    /\ locked' = [x \in DOMAIN locked |-> IF locked[x] = r THEN None ELSE locked[x]]

Rows == <<principals, identities, assigned, granted>>

\* FOR UPDATE waits for a row somebody else holds; so does the FOR KEY SHARE
\* with which a foreign key looks at the row it references.
Free(x, r) == locked[x] \in {None, r}

FindByOidcSubject(i) == {u \in Users : identities[u] = i}

HasSuperadminRole(u) == u \in assigned /\ principals[u] = "active"
ActiveSuperadmins == {u \in Users : HasSuperadminRole(u)}

EffectivePrincipals(u) ==
    IF principals[u] # "active" THEN {}
    ELSE {u} \cup {p \in {Superadmin} : u \in assigned /\ principals[p] = "active"}

-----------------------------------------------------------------------------
(* IdentityResolver *)

\* A user that was found must be usable; a refused request is over.
Authenticate(r, i, u) ==
    requests' = [requests EXCEPT ![r] =
        IF principals[u] = "active"
        THEN [Idle EXCEPT !.phase = "authenticated", !.identity = i, !.actor = u]
        ELSE Idle]

\* Mutant: an identity nobody has is let through without a principal.
ResolveWithoutUser(r, i) ==
    /\ At(r, "idle")
    /\ FindByOidcSubject(i) = {}
    /\ requests' = [requests EXCEPT ![r] =
            [Idle EXCEPT !.phase = "authenticated", !.identity = i]]
    /\ UNCHANGED <<Rows, locked>>

Resolve(r, i) ==
    /\ At(r, "idle")
    /\ \/ \E u \in FindByOidcSubject(i) : Authenticate(r, i, u)
       \/ /\ FindByOidcSubject(i) = {}
          /\ JitEnabled
          /\ requests' = [requests EXCEPT ![r] =
                [Idle EXCEPT !.phase = "provision", !.identity = i]]
    /\ UNCHANGED <<Rows, locked>>

\* _provision looks again, in the transaction that will insert.
Recheck(r) ==
    LET i == requests[r].identity
    IN  /\ At(r, "provision")
        /\ \/ \E u \in FindByOidcSubject(i) : Authenticate(r, i, u)
           \/ FindByOidcSubject(i) = {} /\ Goto(r, "insert identity")
        /\ UNCHANGED <<Rows, locked>>

\* Mutant: without uq_user_identifiers_active_identity.
ProvisionTwice(r) ==
    LET i == requests[r].identity
    IN  /\ At(r, "insert identity")
        /\ \E u \in Users :
            /\ principals[u] = "absent"
            /\ principals' = [principals EXCEPT ![u] = "active"]
            /\ identities' = [identities EXCEPT ![u] = i]
            /\ requests' = [requests EXCEPT ![r].phase = "authenticated", ![r].actor = u]
        /\ UNCHANGED <<assigned, granted, locked>>

\* provision_user inserts the principal, the user and the identifier, and the
\* commit; the unique index refuses an identity that has come in between, and
\* then nothing of the three rows is left.
Provision(r) ==
    LET i == requests[r].identity
    IN  /\ At(r, "insert identity")
        /\ \/ /\ FindByOidcSubject(i) = {}
              /\ \E u \in Users :
                    /\ principals[u] = "absent"
                    /\ principals' = [principals EXCEPT ![u] = "active"]
                    /\ identities' = [identities EXCEPT ![u] = i]
                    /\ requests' = [requests EXCEPT ![r].phase = "authenticated",
                                                    ![r].actor = u]
           \/ /\ FindByOidcSubject(i) # {}
              /\ Goto(r, "collided")
              /\ UNCHANGED <<principals, identities>>
        /\ UNCHANGED <<assigned, granted, locked>>

\* _resolve_after_conflict
ResolveAfterConflict(r) ==
    LET i == requests[r].identity
    IN  /\ At(r, "collided")
        /\ \E u \in FindByOidcSubject(i) : Authenticate(r, i, u)
        /\ UNCHANGED <<Rows, locked>>

-----------------------------------------------------------------------------
(* PermissionAuthorizationService: two statements, not one snapshot *)

ReadEffectivePrincipals(r) ==
    /\ At(r, "authenticated")
    /\ requests' = [requests EXCEPT ![r].phase = "effective read",
                        ![r].effective = EffectivePrincipals(requests[r].actor)]
    /\ UNCHANGED <<Rows, locked>>

RequirePermission(r) ==
    /\ At(r, "effective read")
    /\ requests' = [requests EXCEPT ![r] =
            IF requests[r].effective \cap granted = {} THEN Idle
            ELSE [@ EXCEPT !.phase = "authorized", !.effective = {}]]
    /\ UNCHANGED <<Rows, locked>>

-----------------------------------------------------------------------------
(* The operations, up to their first lock *)

Begin(r, op, p, phase) ==
    /\ At(r, "authorized")
    /\ principals[p] # "absent"
    /\ requests' = [requests EXCEPT ![r].phase = phase, ![r].op = op, ![r].target = p]
    /\ UNCHANGED <<Rows, locked>>

\* activate_principal, deactivate_principal, retire_principal
BeginOnPrincipal(r, op, p) ==
    op \in Removals \cup {"activate"} /\ Begin(r, op, p, "lock principal")

\* grant_permission
BeginGrant(r, p) == Begin(r, "grant", p, "lock principal")

\* revoke_permission: what the superadmin role may do is not taken from it.
BeginRevokePermission(r, p) ==
    p # Superadmin /\ Begin(r, "revoke permission", p, "write")

\* assign_role and revoke_role look for an active assignment without a lock.
\* assign_role does not ask whether the user is active.
BeginAssign(r, u) == u \notin assigned /\ Begin(r, "assign", u, "insert assignment")
BeginRevokeRole(r, u) == u \in assigned /\ Begin(r, "revoke role", u, "lock role")

\* The script, which has no actor: the user assigns the role to itself.
Bootstrap(r, u) ==
    /\ At(r, "idle")
    /\ principals[u] = "active"
    /\ u \notin assigned
    /\ requests' = [requests EXCEPT ![r] =
            [Idle EXCEPT !.phase = "insert assignment", !.op = "assign",
                         !.actor = u, !.target = u]]
    /\ UNCHANGED <<Rows, locked>>

-----------------------------------------------------------------------------
(* Locks and checks *)

HasActiveGrant(p) == p \in granted

\* What the principal must be for the operation to go on.
Accepts(op, p) ==
    \/ op = "activate" /\ principals[p] = "inactive"
    \/ op = "deactivate" /\ principals[p] = "active" /\ p # Superadmin
    \/ op = "retire" /\ principals[p] # "retired" /\ p # Superadmin
    \/ op = "grant" /\ principals[p] = "active" /\ ~ HasActiveGrant(p)

\* Mutant: find_by_id without FOR UPDATE.
ReadPrincipal(r) ==
    LET op == requests[r].op
        p == requests[r].target
    IN  /\ At(r, "lock principal")
        /\ Accepts(op, p)
        /\ Goto(r, IF op \in Removals THEN "lock role" ELSE "write")
        /\ UNCHANGED <<Rows, locked>>

\* principals.find_by_id is FOR UPDATE.
LockPrincipal(r) ==
    LET op == requests[r].op
        p == requests[r].target
    IN  /\ At(r, "lock principal")
        /\ Free(p, r)
        /\ \/ /\ Accepts(op, p)
              /\ locked' = [locked EXCEPT ![p] = r]
              /\ Goto(r, IF op \in Removals THEN "lock role" ELSE "write")
           \/ ~ Accepts(op, p) /\ End(r)
        /\ UNCHANGED Rows

\* Mutant: find_superadmin_role_id where lock_superadmin_role should be.
ReadRole(r) ==
    /\ At(r, "lock role")
    /\ Goto(r, "check removal")
    /\ UNCHANGED <<Rows, locked>>

\* lock_superadmin_role
LockRole(r) ==
    /\ At(r, "lock role")
    /\ Free(RoleRow, r)
    /\ locked' = [locked EXCEPT ![RoleRow] = r]
    /\ Goto(r, "check removal")
    /\ UNCHANGED Rows

MayBeRemoved(u) == ~ HasSuperadminRole(u) \/ Cardinality(ActiveSuperadmins) > 1

\* Mutant: a revocation locks the user's principal too, after the role.
CheckAndLockUser(r) ==
    LET u == requests[r].target
    IN  /\ At(r, "check removal")
        /\ MayBeRemoved(u)
        /\ Goto(r, IF requests[r].op = "revoke role" THEN "lock principal" ELSE "write")
        /\ UNCHANGED <<Rows, locked>>

\* protect_user_removal, under the role's lock; LastSuperadminViolation ends it.
CheckRemoval(r) ==
    LET u == requests[r].target
    IN  /\ At(r, "check removal")
        /\ \/ MayBeRemoved(u) /\ Goto(r, "write") /\ UNCHANGED locked
           \/ ~ MayBeRemoved(u) /\ End(r)
        /\ UNCHANGED Rows

-----------------------------------------------------------------------------
(* The writes, each with its commit *)

Written == [activate |-> "active", deactivate |-> "inactive", retire |-> "retired"]

\* PrincipalRepository._update_status, which has no WHERE on the status.
WriteStatus(r) ==
    LET op == requests[r].op
    IN  /\ At(r, "write")
        /\ op \in DOMAIN Written
        /\ principals' = [principals EXCEPT ![requests[r].target] = Written[op]]
        /\ End(r)
        /\ UNCHANGED <<identities, assigned, granted>>

\* add_grant.  The row names the actor, so it waits while its principal is
\* locked; so do the writes that follow.
AddGrant(r) ==
    /\ At(r, "write")
    /\ requests[r].op = "grant"
    /\ Free(requests[r].actor, r)
    /\ granted' = granted \cup {requests[r].target}
    /\ End(r)
    /\ UNCHANGED <<principals, identities, assigned>>

\* revoke_active_grant; PermissionGrantNotFound when there is none.
RevokeActiveGrant(r) ==
    /\ At(r, "write")
    /\ requests[r].op = "revoke permission"
    /\ Free(requests[r].actor, r)
    /\ granted' = granted \ {requests[r].target}
    /\ End(r)
    /\ UNCHANGED <<principals, identities, assigned>>

\* close_active_assignment
CloseAssignment(r) ==
    /\ At(r, "write")
    /\ requests[r].op = "revoke role"
    /\ Free(requests[r].actor, r)
    /\ assigned' = assigned \ {requests[r].target}
    /\ End(r)
    /\ UNCHANGED <<principals, identities, granted>>

\* add_assignment: its foreign keys look at the role's row and at the actor's;
\* the partial unique index refuses a second active assignment.
InsertAssignment(r) ==
    /\ At(r, "insert assignment")
    /\ Free(RoleRow, r)
    /\ Free(requests[r].actor, r)
    /\ assigned' = assigned \cup {requests[r].target}
    /\ End(r)
    /\ UNCHANGED <<principals, identities, granted>>

\* The client goes away, the process dies, or the database ends a deadlock.
Abort(r) ==
    /\ ~ At(r, "idle")
    /\ End(r)
    /\ UNCHANGED Rows

-----------------------------------------------------------------------------

Login(r) ==
    \/ \E i \in Identities : Resolve(r, i)
    \/ Recheck(r)
    \/ Provision(r)
    \/ ResolveAfterConflict(r)

Authorize(r) == ReadEffectivePrincipals(r) \/ RequirePermission(r)

Start(r) ==
    \/ \E op \in Operations, p \in Principals : BeginOnPrincipal(r, op, p)
    \/ \E p \in Principals : BeginGrant(r, p) \/ BeginRevokePermission(r, p)
    \/ \E u \in Users : BeginAssign(r, u) \/ BeginRevokeRole(r, u)
    \/ \E u \in Users : Bootstrap(r, u)

Operate(r) ==
    \/ LockPrincipal(r)
    \/ LockRole(r)
    \/ CheckRemoval(r)
    \/ WriteStatus(r)
    \/ AddGrant(r)
    \/ RevokeActiveGrant(r)
    \/ CloseAssignment(r)
    \/ InsertAssignment(r)

Next == \E r \in Requests : Login(r) \/ Authorize(r) \/ Start(r) \/ Operate(r) \/ Abort(r)

Spec == Init /\ [][Next]_vars

-----------------------------------------------------------------------------
(* Properties *)

InControl == {u \in Users : HasSuperadminRole(u) /\ EffectivePrincipals(u) \cap granted # {}}

\* Once a superadmin can manage the system one always can, whatever is
\* deactivated, retired, revoked or taken away by requests that run at the same
\* time, two superadmins that remove each other included.
SuperadminKept == [][InControl # {} => InControl' # {}]_vars

\* A retired principal is never used again: the UPDATE that activates would
\* clear deleted_at, and only the row lock keeps a retirement from coming
\* between the check and the UPDATE.
RetiredStaysRetired ==
    [][\A p \in Principals : principals[p] = "retired" => principals'[p] = "retired"]_vars

\* Two first logins of one identity make one user, no user is left without its
\* identity, a request acts for the user of the identity it came with, and
\* IdentityProvisioningConflict is never raised.
IdentityIsOneUser ==
    /\ \A u \in Users : principals[u] = "absent" <=> identities[u] = None
    /\ \A i \in Identities : Cardinality(FindByOidcSubject(i)) <= 1
    /\ \A r \in Requests :
        LET q == requests[r]
        IN  /\ q.actor # None /\ q.identity # None => identities[q.actor] = q.identity
            /\ q.phase = "collided" => FindByOidcSubject(q.identity) # {}

\* The row r's next statement locks FOR UPDATE, if any.
Wanted(r) ==
    CASE At(r, "lock principal") -> {requests[r].target}
      [] At(r, "lock role") -> {RoleRow}
      [] OTHER -> {}

Waits(r, s) == r # s /\ \E x \in Wanted(r) : locked[x] = s

\* Principals are locked before the role, everywhere: requests that wait for
\* each other's FOR UPDATE locks never form a circle.  (With a wait for the
\* actor's row, which a foreign key makes, they can.)
LocksInOrder ==
    \A waiting \in (SUBSET Requests) \ {{}} :
        \E r \in waiting : \A s \in waiting : ~ Waits(r, s)

=============================================================================
