------------------------- MODULE AccessControl_proofs -------------------------
(***************************************************************************)
(* Proofs about AccessControl, for any users, identities and requests.     *)
(***************************************************************************)
EXTENDS AccessControl, FiniteSetTheorems, TLAPS

-----------------------------------------------------------------------------
(* The inductive invariant.                                                *)

\* A request that has locked a principal is past that statement, and one that
\* has locked the role wants no other lock.
LocksOf(r) ==
    /\ \A p \in Principals : locked[p] = r =>
            requests[r].phase \in {"lock role", "check removal", "write"}
    /\ locked[RoleRow] = r => requests[r].phase \in {"check removal", "write"}

\* What a principal must be for its status to be written.
MayWrite(op, p) ==
    /\ op = "activate" => principals[p] = "inactive"
    /\ op = "deactivate" => principals[p] = "active"
    /\ op = "retire" => principals[p] # "retired"
    /\ op \in Removals => p # Superadmin

RoleOps == Removals \cup {"revoke role"}

\* What a request has checked and locked is as it was.  A request that is about
\* to take a superadmin away has left another one.
Holds(r) ==
    LET op == requests[r].op
        p == requests[r].target
        phase == requests[r].phase
    IN  /\ phase \in {"lock principal", "lock role", "check removal", "write", "insert assignment"} =>
              p \in Principals /\ principals[p] # "absent"
        /\ phase = "lock principal" => op \in Removals \cup {"activate", "grant"}
        /\ phase \in {"lock role", "check removal"} =>
              op \in RoleOps /\ (op = "revoke role" => p \in Users)
        /\ phase = "check removal" => locked[RoleRow] = r
        /\ phase \in {"lock role", "check removal", "write"} /\ op \in DOMAIN Written =>
              locked[p] = r /\ MayWrite(op, p)
        /\ phase = "write" =>
              /\ op \in RoleOps =>
                    locked[RoleRow] = r /\ p \in Users /\ \E u \in ActiveSuperadmins : u # p
              /\ op = "revoke permission" => p # Superadmin
        /\ phase = "insert assignment" => p \in Users

\* A request is that of the user of its identity.
Identified(r) ==
    LET q == requests[r]
    IN  /\ q.phase \in {"provision", "insert identity", "collided"} => q.identity \in Identities
        /\ q.actor # None /\ q.identity # None => identities[q.actor] = q.identity
        /\ q.phase = "collided" => \E u \in Users : identities[u] = q.identity

Local(r) == LocksOf(r) /\ Holds(r) /\ Identified(r)

\* The superadmin role can be used and may do what it may.
RoleUsable == principals[Superadmin] = "active" /\ Superadmin \in granted

\* Identities and users that are not absent belong to each other.
OneUserEach ==
    /\ \A u \in Users : principals[u] = "absent" <=> identities[u] = None
    /\ \A u, w \in Users : identities[u] = identities[w] /\ identities[u] # None => u = w

\* A request that has not been authorized, and will not be.
Quiet(r) ==
    /\ requests[r].phase \in Unauthenticated \cup
            {"authenticated", "effective read", "insert assignment"}
    /\ Superadmin \notin requests[r].effective

\* Nobody has been made superadmin yet, so nobody may do anything.
Untouched ==
    /\ assigned = {}
    /\ granted = {Superadmin}
    /\ \A u \in Users : principals[u] \in {"absent", "active"}
    /\ \A r \in Requests : Quiet(r)

AInv ==
    /\ TypeOK
    /\ \A r \in Requests : Local(r)
    /\ RoleUsable
    /\ OneUserEach
    /\ assigned \subseteq {u \in Users : principals[u] # "absent"}
    /\ Untouched \/ ActiveSuperadmins # {}

-----------------------------------------------------------------------------
(* What a step of one request leaves to the others.                        *)

\* What a request holds stays while its locks, the principals it has locked and
\* the other superadmins do.
LEMMA LocalStays ==
    ASSUME AInv, NEW q \in Requests, requests'[q] = requests[q],
           \A x \in DOMAIN locked : locked[x] = q <=> locked'[x] = q,
           \A p \in Principals : principals[p] # "absent" => principals'[p] # "absent",
           \A p \in Principals : locked[p] = q /\ principals[p] # "absent"
                                    => principals'[p] = principals[p],
           \A u \in Users : identities[u] # None => identities'[u] = identities[u],
           locked[RoleRow] = q => ActiveSuperadmins \subseteq ActiveSuperadmins'
    PROVE  Local(q)'
<1> USE DEF Local
<1>1. Local(q) /\ DOMAIN locked = Principals \cup {RoleRow}
  BY DEF AInv, TypeOK
<1>2. LocksOf(q)'
  BY <1>1 DEF LocksOf
<1>3. Holds(q)'
  <2> DEFINE op == requests[q].op
             p == requests[q].target
             phase == requests[q].phase
  <2>1. requests'[q].op = op /\ requests'[q].target = p /\ requests'[q].phase = phase
    OBVIOUS
  <2>2. phase \in {"lock principal", "lock role", "check removal", "write", "insert assignment"} =>
            p \in Principals /\ principals[p] # "absent" /\ principals'[p] # "absent"
    BY <1>1 DEF Holds
  <2>3. phase \in {"lock role", "check removal", "write"} /\ op \in DOMAIN Written =>
            /\ locked'[p] = q
            /\ op = "activate" => principals'[p] = "inactive"
            /\ op = "deactivate" => principals'[p] = "active"
            /\ op = "retire" => principals'[p] # "retired"
            /\ op \in Removals => p # Superadmin
    BY <1>1, <2>2 DEF Holds, MayWrite
  <2>4. phase = "check removal" \/ (phase = "write" /\ op \in RoleOps) => locked'[RoleRow] = q
    BY <1>1 DEF Holds
  <2>5. phase = "write" /\ op \in RoleOps => p \in Users /\ \E u \in ActiveSuperadmins' : u # p
    BY <1>1 DEF Holds
  <2>6. /\ phase = "lock principal" => op \in Removals \cup {"activate", "grant"}
        /\ phase \in {"lock role", "check removal"} =>
                op \in RoleOps /\ (op = "revoke role" => p \in Users)
        /\ phase = "write" => (op = "revoke permission" => p # Superadmin)
        /\ phase = "insert assignment" => p \in Users
    BY <1>1 DEF Holds
  <2> HIDE DEF op, p, phase
  <2> QED
    BY <2>1, <2>2, <2>3, <2>4, <2>5, <2>6 DEF Holds, MayWrite
<1>4. Identified(q)'
  <2> DEFINE i == requests[q].identity
             a == requests[q].actor
  <2>1. i \in Identities \cup {None} /\ a \in Users \cup {None}
    BY DEF AInv, TypeOK, Request
  <2>2. a # None /\ i # None => identities'[a] = i
    BY <1>1, <2>1 DEF Identified
  <2>3. requests[q].phase = "collided" => \E u \in Users : identities'[u] = i
    <3>1. requests[q].phase = "collided" => i # None /\ \E u \in Users : identities[u] = i
      BY <1>1, NamesAssumption DEF Identified
    <3> QED
      BY <3>1
  <2> QED
    BY <1>1, <2>2, <2>3 DEF Identified
<1> QED
  BY <1>2, <1>3, <1>4

\* A request that ends holds nothing, and leaves the locks of the others.
LEMMA EndEffect ==
    ASSUME TypeOK, NEW r \in Requests, End(r)
    PROVE  /\ requests' \in [Requests -> Request]
           /\ \A q \in Requests :
                requests'[q].phase \notin Unauthenticated => requests'[q].actor \in Users
           /\ locked' \in [Principals \cup {RoleRow} -> Requests \cup {None}]
           /\ Local(r)' /\ Quiet(r)'
           /\ \A q \in Requests \ {r} :
                /\ requests'[q] = requests[q]
                /\ \A x \in DOMAIN locked : locked[x] = q <=> locked'[x] = q
<1>1. /\ Idle \in Request /\ Idle.phase = "idle" /\ Idle.actor = None
      /\ Idle.effective = {} /\ Idle.identity = None
  BY DEF Idle, Request, Phases, Unauthenticated
<1>2. requests' \in [Requests -> Request] /\ requests'[r] = Idle
  BY <1>1 DEF TypeOK, End
<1>3. /\ locked' \in [Principals \cup {RoleRow} -> Requests \cup {None}]
      /\ \A x \in DOMAIN locked : locked'[x] # r
      /\ \A q \in Requests \ {r}, x \in DOMAIN locked : locked[x] = q <=> locked'[x] = q
  BY NamesAssumption DEF TypeOK, End
<1>4. \A q \in Requests \ {r} : requests'[q] = requests[q]
  BY DEF TypeOK, End
<1>5. LocksOf(r)'
  BY <1>3 DEF LocksOf, TypeOK
<1>6. Holds(r)' /\ Identified(r)' /\ Quiet(r)'
  BY <1>1, <1>2 DEF Holds, Identified, Quiet, Unauthenticated
<1>7. \A q \in Requests :
        requests'[q].phase \notin Unauthenticated => requests'[q].actor \in Users
  BY <1>1, <1>2, <1>4 DEF TypeOK, Unauthenticated
<1> QED
  BY <1>2, <1>3, <1>4, <1>5, <1>6, <1>7 DEF Local

\* A transaction that ends, with writes that leave the others what they hold.
LEMMA EndStep ==
    ASSUME AInv, NEW r \in Requests, End(r), UNCHANGED identities,
           principals' \in [Principals -> Statuses],
           assigned' \in UserRoleRows, granted' \in PermissionRows,
           RoleUsable', OneUserEach',
           assigned' \subseteq {u \in Users : principals'[u] # "absent"},
           (Untouched /\ UNCHANGED Rows) \/ ActiveSuperadmins' # {},
           \A p \in Principals : principals[p] # "absent" => principals'[p] # "absent",
           \A p \in Principals : principals'[p] = principals[p] \/ locked[p] = r,
           locked[RoleRow] = r \/ ActiveSuperadmins \subseteq ActiveSuperadmins'
    PROVE  AInv'
<1>1. /\ requests' \in [Requests -> Request]
      /\ \A q \in Requests :
            requests'[q].phase \notin Unauthenticated => requests'[q].actor \in Users
      /\ locked' \in [Principals \cup {RoleRow} -> Requests \cup {None}]
      /\ Local(r)' /\ Quiet(r)'
      /\ \A q \in Requests \ {r} :
            /\ requests'[q] = requests[q]
            /\ \A x \in DOMAIN locked : locked[x] = q <=> locked'[x] = q
  BY EndEffect DEF AInv
<1>2. TypeOK'
  BY <1>1 DEF AInv, TypeOK
<1>3. ASSUME NEW q \in Requests \ {r}
      PROVE  Local(q)'
  BY <1>1, <1>3, LocalStays
<1>4. ASSUME Untouched, UNCHANGED Rows
      PROVE  Untouched'
  <2>1. ASSUME NEW q \in Requests \ {r}
        PROVE  Quiet(q)'
    BY <1>1, <1>4, <2>1 DEF Untouched, Quiet
  <2> QED
    BY <1>1, <1>4, <2>1 DEF Untouched, Rows
<1> QED
  BY <1>1, <1>2, <1>3, <1>4 DEF AInv

\* What is about rows stays when they do.
LEMMA SameRows ==
    ASSUME AInv, UNCHANGED Rows
    PROVE  /\ RoleUsable' /\ OneUserEach'
           /\ assigned' \subseteq {u \in Users : principals'[u] # "absent"}
           /\ ActiveSuperadmins' = ActiveSuperadmins
BY DEF AInv, Rows, RoleUsable, OneUserEach, ActiveSuperadmins, HasSuperadminRole

\* A transaction that ends without a write.
LEMMA RefusedStep ==
    ASSUME AInv, NEW r \in Requests, End(r), UNCHANGED Rows
    PROVE  AInv'
<1>1. /\ UNCHANGED identities
      /\ principals' = principals /\ assigned' = assigned /\ granted' = granted
  BY DEF Rows
<1> QED
  BY <1>1, SameRows, EndStep DEF AInv, TypeOK

\* A request that goes on, with the tables as they are, and may lock a row.
LEMMA MoveStep ==
    ASSUME AInv, NEW r \in Requests, NEW R \in Request,
           requests' = [requests EXCEPT ![r] = R],
           R.phase \notin Unauthenticated => R.actor \in Users,
           UNCHANGED Rows,
           locked' = locked
             \/ \E x \in DOMAIN locked : Free(x, r) /\ locked' = [locked EXCEPT ![x] = r],
           Local(r)', Untouched => Quiet(r)'
    PROVE  AInv'
<1>1. /\ locked' \in [Principals \cup {RoleRow} -> Requests \cup {None}]
      /\ \A q \in Requests \ {r}, x \in DOMAIN locked : locked[x] = q <=> locked'[x] = q
  BY NamesAssumption DEF AInv, TypeOK, Free
<1>2. requests'[r] = R /\ \A q \in Requests \ {r} : requests'[q] = requests[q]
  BY DEF AInv, TypeOK
<1>3. TypeOK'
  BY <1>1, <1>2 DEF AInv, TypeOK, Rows
<1>4. ASSUME NEW q \in Requests \ {r}
      PROVE  Local(q)'
  BY <1>1, <1>2, <1>4, LocalStays, SameRows DEF Rows
<1>5. ASSUME Untouched
      PROVE  Untouched'
  BY <1>2, <1>5 DEF Untouched, Quiet, Rows
<1> QED
  BY <1>3, <1>4, <1>5, SameRows DEF AInv

\* A request that has no locks goes on without one.
LEMMA UnlockedMove ==
    ASSUME AInv, NEW r \in Requests, NEW R \in Request,
           requests[r].phase \notin {"lock role", "check removal", "write"},
           requests' = [requests EXCEPT ![r] = R],
           R.phase \notin Unauthenticated => R.actor \in Users,
           UNCHANGED <<Rows, locked>>,
           Holds(r)', Identified(r)', Untouched => Quiet(r)'
    PROVE  AInv'
<1>1. LocksOf(r)'
  BY DEF AInv, Local, LocksOf
<1> QED
  BY <1>1, MoveStep DEF Local

-----------------------------------------------------------------------------
(* Logging in.                                                             *)

\* A user that was found is let in, if it is active.
LEMMA AuthenticateStep ==
    ASSUME AInv, NEW r \in Requests, NEW i \in Identities, NEW u \in FindByOidcSubject(i),
           requests[r].phase \in Unauthenticated, Authenticate(r, i, u),
           UNCHANGED <<Rows, locked>>
    PROVE  AInv'
<1> DEFINE A == [Idle EXCEPT !.phase = "authenticated", !.identity = i, !.actor = u]
           R == IF principals[u] = "active" THEN A ELSE Idle
<1>1. requests' = [requests EXCEPT ![r] = R] /\ requests'[r] = R
  BY DEF Authenticate, AInv, TypeOK
<1>2. u \in Users /\ identities[u] = i
  BY DEF FindByOidcSubject
<1>3. /\ Idle \in Request /\ Idle.phase = "idle" /\ Idle.effective = {}
      /\ Idle.actor = None /\ Idle.identity = None
  BY DEF Idle, Request, Phases, Unauthenticated
<1>4. /\ A \in Request /\ A.phase = "authenticated" /\ A.effective = {}
      /\ A.actor = u /\ A.identity = i
  BY <1>2 DEF Idle, Request, Phases
<1>5. identities' = identities
  BY DEF Rows
<1> HIDE DEF A
<1>6. /\ R \in Request /\ R.phase \in {"idle", "authenticated"} /\ R.effective = {}
      /\ R.phase \notin Unauthenticated => R.actor \in Users
      /\ R.actor # None /\ R.identity # None => identities'[R.actor] = R.identity
  BY <1>2, <1>3, <1>4, <1>5 DEF Unauthenticated
<1> HIDE DEF R
<1>7. Holds(r)' /\ Identified(r)' /\ Quiet(r)'
  BY <1>1, <1>6 DEF Holds, Identified, Quiet, Unauthenticated
<1>8. requests[r].phase \notin {"lock role", "check removal", "write"}
  BY DEF Unauthenticated
<1> QED
  BY <1>1, <1>6, <1>7, <1>8, UnlockedMove

\* An identity that nobody has goes on to be provisioned.
LEMMA ResolveStep ==
    ASSUME AInv, NEW r \in Requests, NEW i \in Identities, Resolve(r, i)
    PROVE  AInv'
<1> DEFINE R == [Idle EXCEPT !.phase = "provision", !.identity = i]
<1>1. requests[r].phase = "idle" /\ UNCHANGED <<Rows, locked>>
  BY DEF Resolve, At
<1>2. ASSUME NEW u \in FindByOidcSubject(i), Authenticate(r, i, u)
      PROVE  AInv'
  BY <1>1, <1>2, AuthenticateStep DEF Unauthenticated
<1>3. CASE requests' = [requests EXCEPT ![r] = R]
  <2>1. /\ R \in Request /\ R.phase = "provision" /\ R.effective = {}
        /\ R.actor = None /\ R.identity = i
    BY DEF Idle, Request, Phases, Unauthenticated
  <2>2. requests'[r] = R
    BY <1>3 DEF AInv, TypeOK
  <2> HIDE DEF R
  <2>3. Holds(r)' /\ Identified(r)' /\ Quiet(r)'
    BY <2>1, <2>2 DEF Holds, Identified, Quiet, Unauthenticated
  <2> QED
    BY <1>1, <1>3, <2>1, <2>3, UnlockedMove DEF Unauthenticated
<1> QED
  BY <1>2, <1>3 DEF Resolve

\* A request that goes on to another phase, before it is authorized.
LEMMA UnauthenticatedMove ==
    ASSUME AInv, NEW r \in Requests, requests[r].phase \in Unauthenticated,
           NEW phase \in Unauthenticated, Goto(r, phase), UNCHANGED <<Rows, locked>>,
           phase \in {"provision", "insert identity", "collided"} =>
                requests[r].identity \in Identities,
           phase = "collided" => FindByOidcSubject(requests[r].identity) # {}
    PROVE  AInv'
<1> DEFINE R == [requests[r] EXCEPT !.phase = phase]
<1>1. requests[r] \in Request
  BY DEF AInv, TypeOK
<1>2. /\ R \in Request /\ R.phase = phase /\ R.identity = requests[r].identity
      /\ R.actor = requests[r].actor /\ R.effective = requests[r].effective
  BY <1>1 DEF Request, Phases
<1>3. requests' = [requests EXCEPT ![r] = R]
  BY Zenon DEF Goto
<1>4. requests'[r] = R
  BY <1>3 DEF AInv, TypeOK
<1> HIDE DEF R
<1>5. Identified(r) /\ identities' = identities
  BY DEF AInv, Local, Rows
<1>6. Holds(r)'
  BY <1>2, <1>4 DEF Holds, Unauthenticated
<1>7. Identified(r)'
  BY <1>2, <1>4, <1>5 DEF Identified, FindByOidcSubject
<1>8. Untouched => Quiet(r)'
  BY <1>2, <1>4 DEF Untouched, Quiet
<1> QED
  BY <1>2, <1>3, <1>6, <1>7, <1>8, UnlockedMove DEF Unauthenticated

\* _provision finds a user that has come in between, or goes on to the inserts.
LEMMA RecheckStep ==
    ASSUME AInv, NEW r \in Requests, Recheck(r)
    PROVE  AInv'
<1>1. requests[r].phase = "provision" /\ UNCHANGED <<Rows, locked>>
  BY DEF Recheck, At
<1>2. requests[r].identity \in Identities
  BY <1>1 DEF AInv, Local, Identified
<1>3. CASE \E u \in FindByOidcSubject(requests[r].identity) :
                Authenticate(r, requests[r].identity, u)
  BY <1>1, <1>2, <1>3, AuthenticateStep DEF Unauthenticated
<1>4. CASE Goto(r, "insert identity")
  BY <1>1, <1>2, <1>4, UnauthenticatedMove DEF Unauthenticated
<1> QED
  BY <1>3, <1>4 DEF Recheck

\* After the unique violation the winner's user is found.
LEMMA ResolveAfterConflictStep ==
    ASSUME AInv, NEW r \in Requests, ResolveAfterConflict(r)
    PROVE  AInv'
<1>1. requests[r].phase = "collided" /\ UNCHANGED <<Rows, locked>>
  BY DEF ResolveAfterConflict, At
<1>2. requests[r].identity \in Identities
  BY <1>1 DEF AInv, Local, Identified
<1> QED
  BY <1>1, <1>2, AuthenticateStep DEF ResolveAfterConflict, Unauthenticated

\* A new user gets an identity that nobody has, or the request has collided.
LEMMA ProvisionStep ==
    ASSUME AInv, NEW r \in Requests, Provision(r)
    PROVE  AInv'
<1> DEFINE i == requests[r].identity
<1>1. /\ requests[r].phase = "insert identity"
      /\ UNCHANGED <<assigned, granted, locked>>
  BY DEF Provision, At
<1>2. i \in Identities /\ i # None
  BY <1>1, NamesAssumption DEF AInv, Local, Identified
<1>3. CASE /\ FindByOidcSubject(i) # {} /\ Goto(r, "collided")
           /\ UNCHANGED <<principals, identities>>
  BY <1>1, <1>2, <1>3, UnauthenticatedMove DEF Unauthenticated, Rows
<1>4. ASSUME FindByOidcSubject(i) = {},
             NEW u \in Users, principals[u] = "absent",
             principals' = [principals EXCEPT ![u] = "active"],
             identities' = [identities EXCEPT ![u] = i],
             requests' = [requests EXCEPT ![r].phase = "authenticated", ![r].actor = u]
      PROVE  AInv'
  <2> DEFINE R == [requests[r] EXCEPT !.phase = "authenticated", !.actor = u]
  <2>1. requests[r] \in Request
    BY DEF AInv, TypeOK
  <2>2. /\ R \in Request /\ R.phase = "authenticated" /\ R.identity = i
        /\ R.actor = u /\ R.effective = requests[r].effective
    BY <2>1 DEF Request, Phases
  <2>3. requests' = [requests EXCEPT ![r] = R]
    BY <1>4, Zenon
  <2>4. requests'[r] = R /\ \A q \in Requests \ {r} : requests'[q] = requests[q]
    BY <2>3 DEF AInv, TypeOK
  <2> HIDE DEF R, i
  <2>5. /\ principals'[u] = "active" /\ identities'[u] = i
        /\ \A p \in Principals \ {u} : principals'[p] = principals[p]
        /\ \A w \in Users \ {u} : identities'[w] = identities[w]
        /\ principals' \in [Principals -> Statuses] /\ identities' \in IdentifierRows
    BY <1>2, <1>4 DEF AInv, TypeOK, Principals, Statuses, IdentifierRows
  <2>6. TypeOK'
    BY <1>1, <1>4, <2>2, <2>3, <2>4, <2>5, ZenonT(30) DEF AInv, TypeOK
  <2>7. ActiveSuperadmins \subseteq ActiveSuperadmins'
    BY <1>1, <1>4, <2>5 DEF ActiveSuperadmins, HasSuperadminRole, Principals
  <2>8. identities[u] = None
    BY <1>4 DEF AInv, OneUserEach
  <2>9. ASSUME NEW q \in Requests \ {r}
        PROVE  Local(q)'
    BY <1>1, <1>4, <2>4, <2>5, <2>7, <2>8, <2>9, LocalStays
  <2>10. Local(r)'
    <3>1. LocksOf(r)'
      BY <1>1 DEF AInv, Local, LocksOf
    <3>2. Holds(r)' /\ Identified(r)'
      BY <2>2, <2>4, <2>5 DEF Holds, Identified
    <3> QED
      BY <3>1, <3>2 DEF Local
  <2>11. RoleUsable'
    BY <1>1, <1>4, <2>5, NamesAssumption DEF AInv, RoleUsable, Principals
  <2>12. OneUserEach'
    <3>1. \A w \in Users : identities[w] # i
      BY <1>4 DEF FindByOidcSubject
    <3>2. \A w \in Users \ {u} : principals'[w] = principals[w]
      BY <2>5 DEF Principals
    <3> QED
      BY <1>2, <2>5, <3>1, <3>2 DEF AInv, OneUserEach, i
  <2>13. assigned' \subseteq {w \in Users : principals'[w] # "absent"}
    BY <1>1, <2>5 DEF AInv, Principals
  <2>14. ASSUME Untouched
         PROVE  Untouched'
    <3>1. Quiet(r)'
      BY <2>2, <2>4, <2>14 DEF Untouched, Quiet
    <3>2. \A q \in Requests \ {r} : Quiet(q)'
      BY <2>4, <2>14 DEF Untouched, Quiet
    <3> QED
      BY <1>1, <2>5, <2>14, <3>1, <3>2 DEF Untouched, Principals
  <2> QED
    BY <2>6, <2>7, <2>9, <2>10, <2>11, <2>12, <2>13, <2>14 DEF AInv
<1> QED
  BY <1>3, <1>4 DEF Provision

-----------------------------------------------------------------------------
(* Being authorized, and starting.                                         *)

\* What a user may do: before there is a superadmin it is not what the role may.
LEMMA ReadEffectivePrincipalsStep ==
    ASSUME AInv, NEW r \in Requests, ReadEffectivePrincipals(r)
    PROVE  AInv'
<1> DEFINE a == requests[r].actor
           R == [requests[r] EXCEPT !.phase = "effective read",
                                    !.effective = EffectivePrincipals(a)]
<1>1. requests[r].phase = "authenticated" /\ UNCHANGED <<Rows, locked>>
  BY DEF ReadEffectivePrincipals, At
<1>2. requests[r] \in Request /\ a \in Users
  BY <1>1 DEF AInv, TypeOK, Unauthenticated
<1>3. /\ EffectivePrincipals(a) \in SUBSET Principals
      /\ assigned = {} => Superadmin \notin EffectivePrincipals(a)
  BY <1>2, NamesAssumption DEF EffectivePrincipals, Principals
<1>4. /\ R \in Request /\ R.phase = "effective read" /\ R.identity = requests[r].identity
      /\ R.actor = a /\ R.effective = EffectivePrincipals(a)
  BY <1>2, <1>3 DEF Request, Phases
<1>5. requests' = [requests EXCEPT ![r] = R]
  BY Zenon DEF ReadEffectivePrincipals
<1>6. requests'[r] = R
  BY <1>5 DEF AInv, TypeOK
<1>7. Identified(r) /\ identities' = identities
  BY <1>1 DEF AInv, Local, Rows
<1> HIDE DEF R
<1>8. Holds(r)'
  BY <1>4, <1>6 DEF Holds
<1>9. Identified(r)'
  BY <1>4, <1>6, <1>7 DEF Identified
<1>10. Untouched => Quiet(r)'
  BY <1>3, <1>4, <1>6 DEF Untouched, Quiet
<1> QED
  BY <1>1, <1>2, <1>4, <1>5, <1>8, <1>9, <1>10, UnlockedMove

\* Nobody who may do nothing is authorized.
LEMMA RequirePermissionStep ==
    ASSUME AInv, NEW r \in Requests, RequirePermission(r)
    PROVE  AInv'
<1> DEFINE A == [requests[r] EXCEPT !.phase = "authorized", !.effective = {}]
           R == IF requests[r].effective \cap granted = {} THEN Idle ELSE A
<1>1. requests[r].phase = "effective read" /\ UNCHANGED <<Rows, locked>>
  BY DEF RequirePermission, At
<1>2. requests[r] \in Request /\ requests[r].actor \in Users
  BY <1>1 DEF AInv, TypeOK, Unauthenticated
<1>3. /\ A \in Request /\ A.phase = "authorized" /\ A.identity = requests[r].identity
      /\ A.actor = requests[r].actor /\ A.effective = {}
  BY <1>2 DEF Request, Phases
<1>4. /\ Idle \in Request /\ Idle.phase = "idle" /\ Idle.effective = {}
      /\ Idle.actor = None /\ Idle.identity = None
  BY DEF Idle, Request, Phases, Unauthenticated
<1>5. requests' = [requests EXCEPT ![r] = R]
  BY Zenon DEF RequirePermission
<1>6. requests'[r] = R
  BY <1>5 DEF AInv, TypeOK
<1>7. Identified(r) /\ identities' = identities
  BY <1>1 DEF AInv, Local, Rows
<1>8. Untouched => R = Idle
  BY DEF Untouched, Quiet
<1> HIDE DEF A
<1>9. /\ R \in Request /\ R.phase \in {"authorized", "idle"} /\ R.effective = {}
      /\ R.phase \notin Unauthenticated => R.actor \in Users
      /\ R.actor # None /\ R.identity # None => identities'[R.actor] = R.identity
  BY <1>2, <1>3, <1>4, <1>7 DEF Unauthenticated, Identified
<1> HIDE DEF R
<1>10. Holds(r)' /\ Identified(r)'
  BY <1>6, <1>9 DEF Holds, Identified
<1>11. Untouched => Quiet(r)'
  BY <1>4, <1>6, <1>8 DEF Quiet, Unauthenticated
<1> QED
  BY <1>1, <1>5, <1>9, <1>10, <1>11, UnlockedMove

\* An operation that starts wants a lock it may want, or writes what it may.
LEMMA BeginStep ==
    ASSUME AInv, NEW r \in Requests, NEW op \in Operations, NEW p \in Principals,
           NEW phase \in {"lock principal", "lock role", "write", "insert assignment"},
           Begin(r, op, p, phase),
           phase = "lock principal" => op \in Removals \cup {"activate", "grant"},
           phase = "lock role" => op = "revoke role" /\ p \in Users,
           phase = "write" => op = "revoke permission" /\ p # Superadmin,
           phase = "insert assignment" => p \in Users
    PROVE  AInv'
<1> DEFINE R == [requests[r] EXCEPT !.phase = phase, !.op = op, !.target = p]
<1>1. requests[r].phase = "authorized" /\ UNCHANGED <<Rows, locked>> /\ principals[p] # "absent"
  BY DEF Begin, At
<1>2. requests[r] \in Request /\ requests[r].actor \in Users
  BY <1>1 DEF AInv, TypeOK, Unauthenticated
<1>3. /\ R \in Request /\ R.phase = phase /\ R.identity = requests[r].identity
      /\ R.actor = requests[r].actor /\ R.op = op /\ R.target = p
  BY <1>2 DEF Request, Phases
<1>4. requests' = [requests EXCEPT ![r] = R]
  BY Zenon DEF Begin
<1>5. requests'[r] = R
  BY <1>4 DEF AInv, TypeOK
<1>6. Identified(r) /\ identities' = identities /\ principals' = principals
  BY DEF AInv, Local, Rows, Begin
<1> HIDE DEF R
<1>7. op \notin RoleOps \/ phase # "write"
  BY DEF RoleOps, Removals
<1>8. op \in DOMAIN Written => phase \notin {"lock role", "write"}
  BY DEF Written, Removals
<1>9. Holds(r)'
  BY <1>1, <1>3, <1>5, <1>6, <1>7, <1>8 DEF Holds, RoleOps
<1>10. Identified(r)'
  BY <1>3, <1>5, <1>6 DEF Identified
<1>11. ~ Untouched
  BY <1>1 DEF Untouched, Quiet, Unauthenticated
<1> QED
  BY <1>1, <1>2, <1>3, <1>4, <1>9, <1>10, <1>11, UnlockedMove

\* The operations that a request is authorized for.
LEMMA StartStep ==
    ASSUME AInv, NEW r \in Requests,
           \/ \E op \in Operations, p \in Principals : BeginOnPrincipal(r, op, p)
           \/ \E p \in Principals : BeginGrant(r, p) \/ BeginRevokePermission(r, p)
           \/ \E u \in Users : BeginAssign(r, u) \/ BeginRevokeRole(r, u)
    PROVE  AInv'
<1> USE DEF Operations, Removals
<1>1. ASSUME NEW op \in Operations, NEW p \in Principals, BeginOnPrincipal(r, op, p)
      PROVE  AInv'
  BY <1>1, BeginStep DEF BeginOnPrincipal
<1>2. ASSUME NEW p \in Principals, BeginGrant(r, p)
      PROVE  AInv'
  BY <1>2, BeginStep DEF BeginGrant
<1>3. ASSUME NEW p \in Principals, BeginRevokePermission(r, p)
      PROVE  AInv'
  BY <1>3, BeginStep DEF BeginRevokePermission
<1>4. ASSUME NEW u \in Users, BeginAssign(r, u)
      PROVE  AInv'
  BY <1>4, BeginStep DEF BeginAssign, Principals
<1>5. ASSUME NEW u \in Users, BeginRevokeRole(r, u)
      PROVE  AInv'
  BY <1>5, BeginStep DEF BeginRevokeRole, Principals
<1> QED
  BY <1>1, <1>2, <1>3, <1>4, <1>5

\* The script assigns the role without being authorized.
LEMMA BootstrapStep ==
    ASSUME AInv, NEW r \in Requests, NEW u \in Users, Bootstrap(r, u)
    PROVE  AInv'
<1> DEFINE R == [Idle EXCEPT !.phase = "insert assignment", !.op = "assign",
                             !.actor = u, !.target = u]
<1>1. /\ requests[r].phase = "idle" /\ UNCHANGED <<Rows, locked>>
      /\ principals' = principals /\ principals[u] = "active"
      /\ requests' = [requests EXCEPT ![r] = R]
  BY DEF Bootstrap, At, Rows
<1>2. /\ R \in Request /\ R.phase = "insert assignment" /\ R.op = "assign" /\ R.target = u
      /\ R.actor = u /\ R.identity = None /\ R.effective = {}
  BY DEF Idle, Request, Phases, Operations, Principals
<1>3. requests'[r] = R
  BY <1>1 DEF AInv, TypeOK
<1> HIDE DEF R
<1>4. Holds(r)' /\ Identified(r)' /\ Quiet(r)'
  BY <1>1, <1>2, <1>3 DEF Holds, Identified, Quiet, Principals
<1> QED
  BY <1>1, <1>2, <1>4, UnlockedMove

-----------------------------------------------------------------------------
(* Locks and checks.                                                       *)

\* A request past its first statement shows that there is a superadmin.
LEMMA SomebodyInControl ==
    ASSUME AInv, NEW r \in Requests,
           requests[r].phase \in {"lock principal", "lock role", "check removal", "write"}
    PROVE  ~ Untouched /\ ActiveSuperadmins # {}
BY DEF AInv, Untouched, Quiet, Unauthenticated

\* A request that has locked a row, and then has what its next statement needs.
LEMMA LockedMove ==
    ASSUME AInv, NEW r \in Requests,
           requests[r].phase \in {"lock principal", "lock role", "check removal", "write"},
           NEW phase \in {"lock role", "check removal", "write"}, Goto(r, phase),
           locked' = locked
             \/ \E x \in DOMAIN locked : Free(x, r) /\ locked' = [locked EXCEPT ![x] = r],
           locked'[RoleRow] = r => phase \in {"check removal", "write"},
           UNCHANGED Rows, Holds(r)'
    PROVE  AInv'
<1> DEFINE R == [requests[r] EXCEPT !.phase = phase]
<1>1. requests[r] \in Request /\ requests[r].actor \in Users
  BY DEF AInv, TypeOK, Unauthenticated
<1>2. /\ R \in Request /\ R.phase = phase /\ R.identity = requests[r].identity
      /\ R.actor = requests[r].actor
  BY <1>1 DEF Request, Phases
<1>3. requests' = [requests EXCEPT ![r] = R]
  BY Zenon DEF Goto
<1>4. requests'[r] = R
  BY <1>3 DEF AInv, TypeOK
<1> HIDE DEF R
<1>5. LocksOf(r)'
  BY <1>2, <1>4 DEF LocksOf
<1>6. Identified(r) /\ identities' = identities
  BY DEF AInv, Local, Rows
<1>7. Identified(r)'
  BY <1>2, <1>4, <1>6 DEF Identified
<1> QED
  BY <1>1, <1>2, <1>3, <1>5, <1>7, SomebodyInControl, MoveStep DEF Local

\* The principal of an operation is locked before what it must be is looked at.
LEMMA LockPrincipalStep ==
    ASSUME AInv, NEW r \in Requests, LockPrincipal(r)
    PROVE  AInv'
<1> DEFINE op == requests[r].op
           p == requests[r].target
           phase == IF op \in Removals THEN "lock role" ELSE "write"
<1>1. requests[r].phase = "lock principal" /\ Free(p, r) /\ UNCHANGED Rows
      /\ principals' = principals
  BY DEF LockPrincipal, At, Rows
<1>2. CASE End(r)
  BY <1>1, <1>2, RefusedStep
<1>3. CASE /\ Accepts(op, p) /\ locked' = [locked EXCEPT ![p] = r]
           /\ Goto(r, phase)
  <2>1. /\ p \in Principals /\ principals[p] # "absent"
        /\ op \in Removals \cup {"activate", "grant"}
    BY <1>1 DEF AInv, Local, Holds
  <2>2. /\ DOMAIN locked = Principals \cup {RoleRow} /\ p # RoleRow
        /\ locked[RoleRow] # r /\ locked'[RoleRow] = locked[RoleRow] /\ locked'[p] = r
    BY <1>1, <1>3, <2>1, NamesAssumption DEF AInv, TypeOK, Local, LocksOf, Principals
  <2>3. /\ requests'[r].phase = phase /\ requests'[r].op = op /\ requests'[r].target = p
    BY <1>3 DEF Goto, AInv, TypeOK, Request
  <2>4. MayWrite(op, p)'
    BY <1>1, <1>3, <2>1, <2>3 DEF Accepts, MayWrite, Removals
  <2>5. phase = "lock role" => op \in RoleOps /\ op # "revoke role"
    BY DEF RoleOps, Removals
  <2>6. phase = "write" => op \notin RoleOps /\ op # "revoke permission"
    BY <2>1 DEF RoleOps, Removals
  <2>7. phase \in {"lock role", "write"}
    OBVIOUS
  <2> HIDE DEF phase
  <2>8. Holds(r)'
    BY <1>1, <2>1, <2>2, <2>3, <2>4, <2>5, <2>6, <2>7 DEF Holds
  <2> QED
    BY <1>1, <1>3, <2>1, <2>2, <2>7, <2>8, LockedMove
<1> QED
  BY <1>2, <1>3 DEF LockPrincipal

\* The role is locked after the principal.
LEMMA LockRoleStep ==
    ASSUME AInv, NEW r \in Requests, LockRole(r)
    PROVE  AInv'
<1> DEFINE op == requests[r].op
           p == requests[r].target
<1>1. /\ requests[r].phase = "lock role" /\ UNCHANGED Rows /\ principals' = principals
      /\ Free(RoleRow, r) /\ locked' = [locked EXCEPT ![RoleRow] = r]
      /\ Goto(r, "check removal")
  BY DEF LockRole, At, Rows
<1>2. /\ p \in Principals /\ principals[p] # "absent"
      /\ op \in RoleOps /\ (op = "revoke role" => p \in Users)
      /\ op \in DOMAIN Written => locked[p] = r /\ MayWrite(op, p)
  BY <1>1 DEF AInv, Local, Holds
<1>3. /\ DOMAIN locked = Principals \cup {RoleRow} /\ p # RoleRow
      /\ locked'[p] = locked[p] /\ locked'[RoleRow] = r
  BY <1>1, <1>2, NamesAssumption DEF AInv, TypeOK, Principals
<1>4. /\ requests'[r].phase = "check removal" /\ requests'[r].op = op
      /\ requests'[r].target = p
  BY <1>1 DEF Goto, AInv, TypeOK, Request
<1>5. op \in DOMAIN Written => MayWrite(op, p)'
  BY <1>1, <1>2, <1>4 DEF MayWrite
<1>6. Holds(r)'
  BY <1>1, <1>2, <1>3, <1>4, <1>5 DEF Holds
<1> QED
  BY <1>1, <1>3, <1>6, LockedMove

\* Of more than one there is another one.
LEMMA AnotherOne ==
    ASSUME NEW S, Cardinality(S) > 1, NEW x
    PROVE  \E y \in S : y # x
<1> SUFFICES ASSUME \A y \in S : y = x
             PROVE  FALSE
  OBVIOUS
<1>1. S = {} \/ S = {x}
  OBVIOUS
<1>2. Cardinality({}) = 0 /\ Cardinality({x}) = 1
  BY FS_EmptySet, FS_Singleton
<1> QED
  BY <1>1, <1>2

\* A superadmin is taken away only when there is another one.
LEMMA CheckRemovalStep ==
    ASSUME AInv, NEW r \in Requests, CheckRemoval(r)
    PROVE  AInv'
<1> DEFINE op == requests[r].op
           p == requests[r].target
<1>1. requests[r].phase = "check removal" /\ UNCHANGED Rows /\ principals' = principals
  BY DEF CheckRemoval, At, Rows
<1>2. CASE End(r)
  BY <1>1, <1>2, RefusedStep
<1>3. CASE MayBeRemoved(p) /\ Goto(r, "write") /\ UNCHANGED locked
  <2>1. /\ p \in Principals /\ principals[p] # "absent" /\ locked[RoleRow] = r
        /\ op \in RoleOps /\ (op = "revoke role" => p \in Users)
        /\ op \in DOMAIN Written => locked[p] = r /\ MayWrite(op, p)
    BY <1>1 DEF AInv, Local, Holds
  <2>2. p \in Users
    BY <2>1 DEF RoleOps, Removals, Written, MayWrite, Principals
  <2>3. \E u \in ActiveSuperadmins : u # p
    <3>1. CASE HasSuperadminRole(p)
      BY <1>3, <3>1, AnotherOne DEF MayBeRemoved
    <3>2. CASE ~ HasSuperadminRole(p)
      BY <1>1, <3>2, SomebodyInControl DEF ActiveSuperadmins
    <3> QED
      BY <3>1, <3>2
  <2>4. ActiveSuperadmins' = ActiveSuperadmins
    BY <1>1, SameRows
  <2>5. /\ requests'[r].phase = "write" /\ requests'[r].op = op
        /\ requests'[r].target = p
    BY <1>3 DEF Goto, AInv, TypeOK, Request
  <2>6. op \in DOMAIN Written => MayWrite(op, p)'
    BY <1>1, <2>1, <2>5 DEF MayWrite
  <2>7. op # "revoke permission"
    BY <2>1 DEF RoleOps, Removals
  <2>8. Holds(r)'
    BY <1>1, <1>3, <2>1, <2>2, <2>3, <2>4, <2>5, <2>6, <2>7 DEF Holds
  <2> QED
    BY <1>1, <1>3, <2>8, LockedMove
<1> QED
  BY <1>2, <1>3 DEF CheckRemoval

-----------------------------------------------------------------------------
(* The writes.                                                             *)

\* A status is written as the check that went before it had it; a superadmin
\* that goes leaves another.
LEMMA WriteStatusStep ==
    ASSUME AInv, NEW r \in Requests, WriteStatus(r)
    PROVE  AInv'
<1> DEFINE op == requests[r].op
           p == requests[r].target
<1>1. /\ requests[r].phase = "write" /\ op \in DOMAIN Written /\ End(r)
      /\ principals' = [principals EXCEPT ![p] = Written[op]]
      /\ identities' = identities /\ assigned' = assigned /\ granted' = granted
  BY DEF WriteStatus, At
<1>2. /\ p \in Principals /\ principals[p] # "absent"
      /\ locked[p] = r /\ MayWrite(op, p)
      /\ op \in RoleOps =>
            locked[RoleRow] = r /\ p \in Users /\ \E u \in ActiveSuperadmins : u # p
  BY <1>1 DEF AInv, Local, Holds
<1>3. /\ op \in Removals \cup {"activate"}
      /\ Written[op] \in {"active", "inactive", "retired"}
      /\ op = "activate" => Written[op] = "active"
      /\ op \in Removals => p # Superadmin /\ op \in RoleOps
  <2>1. op \in Removals \cup {"activate"} /\ (op \in Removals => p # Superadmin)
    BY <1>1, <1>2 DEF Written, Removals, MayWrite
  <2>2. /\ Written["activate"] = "active" /\ Written["deactivate"] = "inactive"
        /\ Written["retire"] = "retired"
    BY DEF Written
  <2> QED
    BY <2>1, <2>2 DEF Removals, RoleOps
<1>4. /\ principals' \in [Principals -> Statuses] /\ principals'[p] = Written[op]
      /\ \A w \in Principals \ {p} : principals'[w] = principals[w]
  BY <1>1, <1>2, <1>3 DEF AInv, TypeOK, Statuses
<1>5. ActiveSuperadmins' # {}
  <2>1. CASE op \in Removals
    BY <1>1, <1>2, <1>3, <1>4, <2>1 DEF ActiveSuperadmins, HasSuperadminRole, Principals
  <2>2. CASE op = "activate"
    BY <1>1, <1>3, <1>4, <2>2, SomebodyInControl
       DEF ActiveSuperadmins, HasSuperadminRole, Principals
  <2> QED
    BY <1>3, <2>1, <2>2
<1>6. locked[RoleRow] = r \/ ActiveSuperadmins \subseteq ActiveSuperadmins'
  BY <1>1, <1>2, <1>3, <1>4 DEF ActiveSuperadmins, HasSuperadminRole, Principals
<1>7. RoleUsable'
  BY <1>1, <1>2, <1>3, <1>4 DEF AInv, RoleUsable, Principals
<1>8. \A w \in Users : principals'[w] = "absent" <=> principals[w] = "absent"
  BY <1>2, <1>3, <1>4 DEF Principals
<1>9. OneUserEach' /\ assigned' \subseteq {u \in Users : principals'[u] # "absent"}
  BY <1>1, <1>8 DEF AInv, OneUserEach
<1>10. \A w \in Principals : /\ principals[w] # "absent" => principals'[w] # "absent"
                             /\ principals'[w] = principals[w] \/ locked[w] = r
  BY <1>2, <1>3, <1>4
<1>11. assigned' \in UserRoleRows /\ granted' \in PermissionRows
  BY <1>1 DEF AInv, TypeOK
<1> QED
  BY <1>1, <1>4, <1>5, <1>6, <1>7, <1>9, <1>10, <1>11, EndStep

\* A grant is added or taken away, but not the superadmin role's.
LEMMA GrantStep ==
    ASSUME AInv, NEW r \in Requests, AddGrant(r) \/ RevokeActiveGrant(r)
    PROVE  AInv'
<1> DEFINE p == requests[r].target
<1>1. /\ requests[r].phase = "write" /\ End(r)
      /\ identities' = identities /\ assigned' = assigned /\ principals' = principals
      /\ \/ granted' = granted \cup {p}
         \/ granted' = granted \ {p} /\ requests[r].op = "revoke permission"
  BY DEF AddGrant, RevokeActiveGrant, At
<1>2. p \in Principals /\ (requests[r].op = "revoke permission" => p # Superadmin)
  BY <1>1 DEF AInv, Local, Holds
<1>3. granted' \in PermissionRows /\ RoleUsable'
  BY <1>1, <1>2 DEF AInv, TypeOK, RoleUsable, PermissionRows
<1>4. ActiveSuperadmins' = ActiveSuperadmins /\ ActiveSuperadmins # {}
  BY <1>1, SomebodyInControl DEF ActiveSuperadmins, HasSuperadminRole
<1>5. OneUserEach' /\ assigned' \subseteq {u \in Users : principals'[u] # "absent"}
  BY <1>1 DEF AInv, OneUserEach
<1>6. principals' \in [Principals -> Statuses] /\ assigned' \in UserRoleRows
  BY <1>1 DEF AInv, TypeOK
<1> QED
  BY <1>1, <1>3, <1>4, <1>5, <1>6, EndStep

\* The superadmin that loses the role leaves another.
LEMMA CloseAssignmentStep ==
    ASSUME AInv, NEW r \in Requests, CloseAssignment(r)
    PROVE  AInv'
<1> DEFINE p == requests[r].target
<1>1. /\ requests[r].phase = "write" /\ requests[r].op = "revoke role" /\ End(r)
      /\ identities' = identities /\ granted' = granted /\ principals' = principals
      /\ assigned' = assigned \ {p}
  BY DEF CloseAssignment, At
<1>2. locked[RoleRow] = r /\ \E u \in ActiveSuperadmins : u # p
  BY <1>1 DEF AInv, Local, Holds, RoleOps
<1>3. ActiveSuperadmins' # {}
  BY <1>1, <1>2 DEF ActiveSuperadmins, HasSuperadminRole
<1>4. RoleUsable' /\ OneUserEach' /\ assigned' \subseteq {u \in Users : principals'[u] # "absent"}
  BY <1>1 DEF AInv, OneUserEach, RoleUsable
<1>5. /\ principals' \in [Principals -> Statuses] /\ assigned' \in UserRoleRows
      /\ granted' \in PermissionRows
  BY <1>1 DEF AInv, TypeOK, UserRoleRows
<1> QED
  BY <1>1, <1>2, <1>3, <1>4, <1>5, EndStep

\* The first assignment is of an active user: nobody could deactivate it.
LEMMA InsertAssignmentStep ==
    ASSUME AInv, NEW r \in Requests, InsertAssignment(r)
    PROVE  AInv'
<1> DEFINE p == requests[r].target
<1>1. /\ requests[r].phase = "insert assignment" /\ End(r)
      /\ identities' = identities /\ granted' = granted /\ principals' = principals
      /\ assigned' = assigned \cup {p}
  BY DEF InsertAssignment, At
<1>2. p \in Users /\ principals[p] # "absent"
  BY <1>1 DEF AInv, Local, Holds
<1>3. ActiveSuperadmins \subseteq ActiveSuperadmins'
  BY <1>1 DEF ActiveSuperadmins, HasSuperadminRole
<1>4. ActiveSuperadmins' # {}
  <2>1. CASE Untouched
    BY <1>1, <1>2, <2>1 DEF Untouched, ActiveSuperadmins, HasSuperadminRole
  <2> QED
    BY <1>3, <2>1 DEF AInv
<1>5. RoleUsable' /\ OneUserEach' /\ assigned' \subseteq {u \in Users : principals'[u] # "absent"}
  BY <1>1, <1>2 DEF AInv, OneUserEach, RoleUsable
<1>6. /\ principals' \in [Principals -> Statuses] /\ assigned' \in UserRoleRows
      /\ granted' \in PermissionRows
  BY <1>1, <1>2 DEF AInv, TypeOK, UserRoleRows
<1> QED
  BY <1>1, <1>3, <1>4, <1>5, <1>6, EndStep

-----------------------------------------------------------------------------
(* The invariant.                                                          *)

\* The rows that migration 0013 leaves.
LEMMA InitInvariant == Init => AInv
<1> SUFFICES ASSUME Init
             PROVE  AInv
  OBVIOUS
<1>1. /\ Idle \in Request /\ Idle.phase = "idle" /\ Idle.actor = None
      /\ Idle.effective = {} /\ Idle.identity = None
  BY DEF Idle, Request, Phases, Unauthenticated
<1>2. /\ principals \in [Principals -> Statuses] /\ principals[Superadmin] = "active"
      /\ \A u \in Users : principals[u] = "absent"
  BY NamesAssumption DEF Init, Principals, Statuses
<1>3. /\ identities \in IdentifierRows /\ \A u \in Users : identities[u] = None
      /\ locked \in [Principals \cup {RoleRow} -> Requests \cup {None}]
      /\ \A x \in DOMAIN locked : locked[x] = None
  BY DEF Init, IdentifierRows
<1>4. /\ assigned = {} /\ granted = {Superadmin}
      /\ requests \in [Requests -> Request] /\ \A r \in Requests : requests[r] = Idle
  BY <1>1 DEF Init
<1>5. TypeOK
  BY <1>1, <1>2, <1>3, <1>4 DEF TypeOK, Unauthenticated, UserRoleRows, PermissionRows, Principals
<1>6. ASSUME NEW r \in Requests
      PROVE  Local(r) /\ Quiet(r)
  <2>1. LocksOf(r)
    BY <1>3, NamesAssumption DEF LocksOf
  <2> QED
    BY <1>1, <1>4, <2>1 DEF Local, Holds, Identified, Quiet, Unauthenticated
<1>7. RoleUsable /\ OneUserEach /\ Untouched
  BY <1>2, <1>3, <1>4, <1>6 DEF RoleUsable, OneUserEach, Untouched
<1> QED
  BY <1>4, <1>5, <1>6, <1>7 DEF AInv

\* Every step of every request keeps the invariant.
LEMMA NextInvariant == AInv /\ [Next]_vars => AInv'
<1> SUFFICES ASSUME AInv, [Next]_vars
             PROVE  AInv'
  OBVIOUS
<1>1. ASSUME NEW r \in Requests, Login(r)
      PROVE  AInv'
  BY <1>1, ResolveStep, RecheckStep, ProvisionStep, ResolveAfterConflictStep DEF Login
<1>2. ASSUME NEW r \in Requests, Authorize(r)
      PROVE  AInv'
  BY <1>2, ReadEffectivePrincipalsStep, RequirePermissionStep DEF Authorize
<1>3. ASSUME NEW r \in Requests, Start(r)
      PROVE  AInv'
  BY <1>3, StartStep, BootstrapStep DEF Start
<1>4. ASSUME NEW r \in Requests, Operate(r)
      PROVE  AInv'
  BY <1>4, LockPrincipalStep, LockRoleStep, CheckRemovalStep, WriteStatusStep, GrantStep,
     CloseAssignmentStep, InsertAssignmentStep DEF Operate
<1>5. ASSUME NEW r \in Requests, Abort(r)
      PROVE  AInv'
  BY <1>5, RefusedStep DEF Abort
<1>6. CASE UNCHANGED vars
  <2> USE <1>6 DEF vars
  <2>1. TypeOK' /\ RoleUsable' /\ OneUserEach'
    BY DEF AInv, TypeOK, RoleUsable, OneUserEach
  <2>2. ActiveSuperadmins' = ActiveSuperadmins
    BY DEF ActiveSuperadmins, HasSuperadminRole
  <2>3. ASSUME NEW r \in Requests
        PROVE  Local(r)' /\ (Quiet(r) => Quiet(r)')
    BY LocalStays, <2>2 DEF Quiet
  <2>4. Untouched => Untouched'
    BY <2>3 DEF Untouched
  <2> QED
    BY <2>1, <2>2, <2>3, <2>4 DEF AInv
<1> QED
  BY <1>1, <1>2, <1>3, <1>4, <1>5, <1>6 DEF Next

-----------------------------------------------------------------------------
(* What it shows.                                                          *)

\* The statements that change a status or an assignment.
LEMMA RowSteps ==
    ASSUME [Next]_vars
    PROVE  \/ UNCHANGED <<principals, assigned>>
           \/ \E r \in Requests : \/ Provision(r)
                                  \/ WriteStatus(r)
                                  \/ CloseAssignment(r)
                                  \/ InsertAssignment(r)
<1>1. CASE UNCHANGED vars
  BY <1>1 DEF vars
<1>2. ASSUME NEW r \in Requests, Login(r) \/ Authorize(r) \/ Start(r) \/ Abort(r)
      PROVE  UNCHANGED <<principals, assigned>> \/ Provision(r)
  BY <1>2 DEF Login, Resolve, Recheck, ResolveAfterConflict, Authorize,
     ReadEffectivePrincipals, RequirePermission, Start, BeginOnPrincipal, BeginGrant,
     BeginRevokePermission, BeginAssign, BeginRevokeRole, Begin, Bootstrap, Abort, Rows
<1>3. ASSUME NEW r \in Requests, Operate(r)
      PROVE  \/ UNCHANGED <<principals, assigned>>
             \/ WriteStatus(r) \/ CloseAssignment(r) \/ InsertAssignment(r)
  BY <1>3 DEF Operate, LockPrincipal, LockRole, CheckRemoval, AddGrant, RevokeActiveGrant, Rows
<1> QED
  BY <1>1, <1>2, <1>3 DEF Next

\* A superadmin that is taken away leaves another.
LEMMA AnotherSuperadmin ==
    ASSUME AInv, [Next]_vars, ActiveSuperadmins # {}
    PROVE  ActiveSuperadmins' # {}
<1> USE DEF ActiveSuperadmins, HasSuperadminRole, Principals
<1>1. CASE UNCHANGED <<principals, assigned>>
  BY <1>1
<1>2. ASSUME NEW r \in Requests, Provision(r)
      PROVE  ActiveSuperadmins' # {}
  BY <1>2 DEF Provision, AInv, TypeOK
<1>3. ASSUME NEW r \in Requests, InsertAssignment(r)
      PROVE  ActiveSuperadmins' # {}
  BY <1>3 DEF InsertAssignment
<1>4. ASSUME NEW r \in Requests, CloseAssignment(r)
      PROVE  ActiveSuperadmins' # {}
  <2>1. \E u \in ActiveSuperadmins : u # requests[r].target
    BY <1>4 DEF CloseAssignment, AInv, Local, Holds, At, RoleOps
  <2> QED
    BY <1>4, <2>1 DEF CloseAssignment
<1>5. ASSUME NEW r \in Requests, WriteStatus(r)
      PROVE  ActiveSuperadmins' # {}
  <2> DEFINE op == requests[r].op
             p == requests[r].target
  <2>1. /\ requests[r].phase = "write" /\ op \in DOMAIN Written /\ assigned' = assigned
        /\ principals' = [principals EXCEPT ![p] = Written[op]]
    BY <1>5 DEF WriteStatus, At
  <2>2. /\ p \in Principals
        /\ op = "activate" => principals[p] = "inactive"
        /\ op \in RoleOps => \E u \in ActiveSuperadmins : u # p
    BY <2>1 DEF AInv, Local, Holds, MayWrite
  <2>3. op = "activate" \/ op \in RoleOps
    BY <2>1 DEF Written, RoleOps, Removals
  <2>4. \A w \in Principals \ {p} : principals'[w] = principals[w]
    BY <2>1 DEF AInv, TypeOK
  <2>5. \E u \in ActiveSuperadmins : u # p
    BY <2>2, <2>3
  <2> QED
    BY <2>1, <2>4, <2>5
<1> QED
  BY <1>1, <1>2, <1>3, <1>4, <1>5, RowSteps

\* Whoever is an active superadmin may manage the system.
LEMMA InControlIsSuperadmin ==
    ASSUME RoleUsable
    PROVE  InControl = ActiveSuperadmins
BY DEF RoleUsable, InControl, ActiveSuperadmins, HasSuperadminRole, EffectivePrincipals

\* What a request holds, and what is true of all rows, at every time.
THEOREM AccessInvariant == Spec => []AInv
<1>1. Init => AInv
  BY InitInvariant
<1>2. AInv /\ [Next]_vars => AInv'
  BY NextInvariant
<1> QED
  BY <1>1, <1>2, PTL DEF Spec

\* The rows and the requests have their shapes.
THEOREM AccessTypes == Spec => []TypeOK
<1>1. AInv => TypeOK
  BY DEF AInv
<1> QED
  BY <1>1, AccessInvariant, PTL

\* Two first logins of one identity make one user, and a request acts for the
\* user of the identity that it came with.
THEOREM OneUserPerIdentity == Spec => []IdentityIsOneUser
<1>1. ASSUME AInv
      PROVE  IdentityIsOneUser
  <2>1. \A u \in Users : principals[u] = "absent" <=> identities[u] = None
    BY <1>1 DEF AInv, OneUserEach
  <2>2. ASSUME NEW i \in Identities
        PROVE  Cardinality(FindByOidcSubject(i)) <= 1
    <3>1. \A u, w \in FindByOidcSubject(i) : u = w
      BY <1>1, NamesAssumption DEF AInv, OneUserEach, FindByOidcSubject
    <3>2. CASE FindByOidcSubject(i) = {}
      BY <3>2, FS_EmptySet
    <3>3. ASSUME NEW u \in FindByOidcSubject(i)
          PROVE  Cardinality(FindByOidcSubject(i)) <= 1
      <4>1. FindByOidcSubject(i) = {u}
        BY <3>1
      <4>2. Cardinality({u}) = 1
        BY FS_Singleton
      <4> QED
        BY <4>1, <4>2
    <3> QED
      BY <3>2, <3>3
  <2>3. ASSUME NEW r \in Requests
        PROVE  Identified(r)
    BY <1>1 DEF AInv, Local
  <2> QED
    BY <2>1, <2>2, <2>3 DEF IdentityIsOneUser, Identified, FindByOidcSubject
<1> QED
  BY <1>1, AccessInvariant, PTL

\* Requests that wait for each other's FOR UPDATE locks form no circle: one that
\* has the role waits for nobody, and one that has a principal only for the role.
THEOREM LockOrder == Spec => []LocksInOrder
<1>1. ASSUME AInv
      PROVE  LocksInOrder
  <2> SUFFICES ASSUME NEW waiting \in SUBSET Requests, waiting # {}
               PROVE  \E r \in waiting : \A s \in waiting : ~ Waits(r, s)
    BY DEF LocksInOrder
  <2>1. \A s \in Requests : LocksOf(s)
    BY <1>1 DEF AInv, Local
  <2>2. CASE \E r \in waiting : requests[r].phase \notin {"lock principal", "lock role"}
    <3>1. PICK r \in waiting : requests[r].phase \notin {"lock principal", "lock role"}
      BY <2>2
    <3>2. Wanted(r) = {}
      BY <3>1 DEF Wanted, At
    <3> QED
      BY <3>2 DEF Waits
  <2>3. CASE /\ \A r \in waiting : requests[r].phase \in {"lock principal", "lock role"}
             /\ \E r \in waiting : requests[r].phase = "lock role"
    <3>1. PICK r \in waiting : requests[r].phase = "lock role"
      BY <2>3
    <3>2. Wanted(r) = {RoleRow}
      BY <3>1 DEF Wanted, At
    <3>3. \A s \in waiting : locked[RoleRow] # s
      BY <2>1, <2>3 DEF LocksOf
    <3> QED
      BY <3>2, <3>3 DEF Waits
  <2>4. CASE \A r \in waiting : requests[r].phase = "lock principal"
    <3>1. PICK r \in waiting : TRUE
      OBVIOUS
    <3>2. Wanted(r) = {requests[r].target} /\ requests[r].target \in Principals
      BY <1>1, <2>4, <3>1 DEF Wanted, At, AInv, Local, Holds
    <3>3. \A s \in waiting : locked[requests[r].target] # s
      BY <2>1, <2>4, <3>2 DEF LocksOf
    <3> QED
      BY <3>2, <3>3 DEF Waits
  <2> QED
    BY <2>2, <2>3, <2>4
<1> QED
  BY <1>1, AccessInvariant, PTL

\* Once a superadmin can manage the system one always can, whatever requests
\* that run at the same time deactivate, retire, revoke or take away.
THEOREM SuperadminStays == Spec => SuperadminKept
<1>1. AInv /\ AInv' /\ [Next]_vars => [InControl # {} => InControl' # {}]_vars
  <2> SUFFICES ASSUME AInv, AInv', [Next]_vars, InControl # {}
               PROVE  InControl' # {}
    OBVIOUS
  <2>1. InControl = ActiveSuperadmins
    BY InControlIsSuperadmin DEF AInv
  <2>2. ActiveSuperadmins' # {}
    BY <2>1, AnotherSuperadmin
  <2>3. PICK u \in Users : u \in assigned' /\ principals'[u] = "active"
    BY <2>2 DEF ActiveSuperadmins, HasSuperadminRole
  <2>4. principals'[Superadmin] = "active" /\ Superadmin \in granted'
    BY DEF AInv, RoleUsable
  <2> QED
    BY <2>3, <2>4 DEF InControl, HasSuperadminRole, EffectivePrincipals
<1> QED
  BY <1>1, AccessInvariant, PTL DEF Spec, SuperadminKept

\* A retired principal is never used again: the row lock keeps a retirement from
\* coming between the check of an activation and its UPDATE.
THEOREM RetiredPrincipals == Spec => RetiredStaysRetired
<1> DEFINE Kept == \A p \in Principals : principals[p] = "retired" => principals'[p] = "retired"
<1>1. AInv /\ [Next]_vars => [Kept]_vars
  <2> SUFFICES ASSUME AInv, [Next]_vars
               PROVE  Kept
    OBVIOUS
  <2>1. CASE principals' = principals
    BY <2>1
  <2>2. ASSUME NEW r \in Requests, Provision(r)
        PROVE  Kept
    BY <2>2 DEF Provision, AInv, TypeOK
  <2>3. ASSUME NEW r \in Requests, WriteStatus(r)
        PROVE  Kept
    <3> DEFINE op == requests[r].op
               q == requests[r].target
    <3>1. /\ requests[r].phase = "write" /\ op \in DOMAIN Written
          /\ principals' = [principals EXCEPT ![q] = Written[op]]
      BY <2>3 DEF WriteStatus, At
    <3>2. q \in Principals /\ principals[q] # "retired"
      BY <3>1 DEF AInv, Local, Holds, MayWrite, Written
    <3> QED
      BY <3>1, <3>2 DEF AInv, TypeOK
  <2> QED
    BY <2>1, <2>2, <2>3, RowSteps DEF CloseAssignment, InsertAssignment
<1> QED
  BY <1>1, AccessInvariant, PTL DEF Spec, RetiredStaysRetired

=============================================================================
