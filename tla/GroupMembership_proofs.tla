----------------------- MODULE GroupMembership_proofs -----------------------
(***************************************************************************)
(* Proofs about GroupMembership, for any groups, users and requests.       *)
(***************************************************************************)
EXTENDS GroupMembership, TLAPS

-----------------------------------------------------------------------------
(* The inductive invariant.                                                *)

\* Row locks exclude each other.
LocksExclusive ==
    \A q, r \in Requests : q # r => HasLocked(q) \cap HasLocked(r) = {}

\* A request that adds joins two different principals, and between its check and its
\* insert neither it nor the others let its member reach its group in two steps.
WritesAreChecked ==
    \A r \in Requests :
        LET g == requests[r].group
            m == requests[r].member
        IN  /\ requests[r].op = "add" => g # m
            /\ requests[r].step = "writing" =>
                 /\ requests[r].op = "add"
                 /\ <<m, g>> \notin memberships
                 /\ \A x \in Groups : ~(<<m, x>> \in memberships /\ <<x, g>> \in memberships)

\* Both principals of a request that adds are active from the moment it locks them.
LockedAreActive ==
    \A r \in Requests :
        requests[r].op = "add" => \A p \in HasLocked(r) : status[p] = "active"

GInv ==
    /\ TypeOK
    /\ LocksExclusive
    /\ WritesAreChecked
    /\ LockedAreActive
    /\ NoShortCycle

-----------------------------------------------------------------------------
(* The recursive query.                                                    *)

\* It finds what is one step below a.
LEMMA ReachesInOneStep ==
    ASSUME NEW edges, NEW a, NEW b \in Groups, <<a, b>> \in edges
    PROVE  Reaches(edges, a, b)
BY DEF Reaches

\* It finds what is two steps below a.
LEMMA ReachesInTwoSteps ==
    ASSUME NEW edges, NEW a, NEW x \in Groups, NEW b \in Groups,
           <<a, x>> \in edges, <<x, b>> \in edges
    PROVE  Reaches(edges, a, b)
BY DEF Reaches

-----------------------------------------------------------------------------
(* Each step keeps the invariant.                                          *)

\* A request that ends leaves no lock behind.
LEMMA EndEffect ==
    ASSUME TypeOK, NEW r \in Requests, End(r)
    PROVE  /\ requests' \in [Requests -> Request]
           /\ requests'[r] = Idle
           /\ HasLocked(r)' = {}
           /\ \A q \in Requests \ {r} : requests'[q] = requests[q]
           /\ \A q \in Requests \ {r} : HasLocked(q)' = HasLocked(q)
<1>1. Idle \in Request
  BY DEF Idle, Request, Steps
<1>2. requests' \in [Requests -> Request] /\ requests'[r] = Idle
  BY <1>1 DEF TypeOK, End, Ended
<1>3. \A q \in Requests \ {r} : requests'[q] = requests[q]
  BY DEF TypeOK, End, Ended
<1>4. HasLocked(r)' = {}
  BY <1>2 DEF HasLocked, Idle
<1>5. \A q \in Requests \ {r} : HasLocked(q)' = HasLocked(q)
  BY <1>3 DEF HasLocked
<1> QED
  BY <1>2, <1>3, <1>4, <1>5

\* A request that goes on keeps its targets.
LEMMA GoToEffect ==
    ASSUME TypeOK, NEW r \in Requests, NEW step \in Steps, GoTo(r, step)
    PROVE  /\ requests' \in [Requests -> Request]
           /\ requests'[r].step = step
           /\ requests'[r].op = requests[r].op
           /\ requests'[r].group = requests[r].group
           /\ requests'[r].member = requests[r].member
           /\ \A q \in Requests \ {r} : requests'[q] = requests[q]
           /\ \A q \in Requests \ {r} : HasLocked(q)' = HasLocked(q)
<1> DEFINE R == [requests[r] EXCEPT !.step = step]
<1>1. requests' = [requests EXCEPT ![r] = R]
  BY Zenon DEF GoTo
<1>2. requests[r] \in Request
  BY DEF TypeOK
<1>3. /\ R \in Request
      /\ R.step = step
      /\ R.op = requests[r].op
      /\ R.group = requests[r].group
      /\ R.member = requests[r].member
  BY <1>2 DEF Request
<1> HIDE DEF R
<1>4. \A q \in Requests \ {r} : requests'[q] = requests[q]
  BY <1>1 DEF TypeOK
<1>5. \A q \in Requests \ {r} : HasLocked(q)' = HasLocked(q)
  BY <1>4 DEF HasLocked
<1> QED
  BY <1>1, <1>3, <1>4, <1>5 DEF TypeOK

\* Ending a request, with memberships and status as they are, keeps the invariant.
LEMMA EndStep ==
    ASSUME GInv, NEW r \in Requests, End(r), UNCHANGED <<status, memberships, changes>>
    PROVE  GInv'
<1>1. /\ requests' \in [Requests -> Request]
      /\ requests'[r] = Idle
      /\ HasLocked(r)' = {}
      /\ \A q \in Requests \ {r} : requests'[q] = requests[q]
      /\ \A q \in Requests \ {r} : HasLocked(q)' = HasLocked(q)
  BY EndEffect DEF GInv
<1>2. TypeOK'
  BY <1>1 DEF GInv, TypeOK, Idle
<1>3. LocksExclusive'
  BY <1>1 DEF GInv, LocksExclusive
<1>4. WritesAreChecked'
  BY <1>1 DEF GInv, WritesAreChecked, Idle
<1>5. LockedAreActive'
  BY <1>1 DEF GInv, LockedAreActive, Idle
<1> QED
  BY <1>2, <1>3, <1>4, <1>5 DEF GInv, NoShortCycle

\* A request that takes a lock.
LEMMA LockStep ==
    ASSUME GInv, NEW r \in Requests, NEW p, NEW step \in {"locking_member", "checking"},
           requests[r].step # "idle", Free(r, p), Accepted(r, p), GoTo(r, step),
           HasLocked(r)' \subseteq HasLocked(r) \cup {p},
           UNCHANGED <<status, memberships, changes>>
    PROVE  GInv'
<1>1. /\ requests' \in [Requests -> Request]
      /\ requests'[r].step = step
      /\ requests'[r].op = requests[r].op
      /\ requests'[r].group = requests[r].group
      /\ requests'[r].member = requests[r].member
      /\ \A q \in Requests \ {r} : requests'[q] = requests[q]
      /\ \A q \in Requests \ {r} : HasLocked(q)' = HasLocked(q)
  BY GoToEffect DEF GInv, Steps
<1>2. TypeOK'
  BY <1>1 DEF GInv, TypeOK
<1>3. LocksExclusive'
  BY <1>1 DEF GInv, LocksExclusive, Free
<1>4. WritesAreChecked'
  BY <1>1 DEF GInv, WritesAreChecked
<1>5. LockedAreActive'
  BY <1>1 DEF GInv, LockedAreActive, Accepted
<1> QED
  BY <1>2, <1>3, <1>4, <1>5 DEF GInv, NoShortCycle

\* A request locks its group, or finds it not active.
LEMMA LockGroupStep ==
    ASSUME GInv, NEW r \in Requests, LockGroup(r)
    PROVE  GInv'
<1>1. CASE End(r)
  BY <1>1, EndStep DEF LockGroup
<1>2. CASE Accepted(r, requests[r].group) /\ GoTo(r, "locking_member")
  <2>1. /\ requests'[r].step = "locking_member"
        /\ requests'[r].group = requests[r].group
    BY <1>2, GoToEffect DEF GInv, Steps
  <2>2. HasLocked(r)' = {requests[r].group}
    BY <2>1 DEF HasLocked
  <2> QED
    BY <1>2, <2>2, LockStep DEF LockGroup
<1> QED
  BY <1>1, <1>2 DEF LockGroup

\* A request locks its member, or finds it not active.
LEMMA LockMemberStep ==
    ASSUME GInv, NEW r \in Requests, LockMember(r)
    PROVE  GInv'
<1>1. CASE End(r)
  BY <1>1, EndStep DEF LockMember
<1>2. CASE Accepted(r, requests[r].member) /\ GoTo(r, "checking")
  <2>1. /\ requests'[r].step = "checking"
        /\ requests'[r].group = requests[r].group
        /\ requests'[r].member = requests[r].member
    BY <1>2, GoToEffect DEF GInv, Steps
  <2>2. /\ HasLocked(r) = {requests[r].group}
        /\ HasLocked(r)' = {requests[r].group, requests[r].member}
    BY <2>1 DEF HasLocked, LockMember
  <2> QED
    BY <1>2, <2>2, LockStep DEF LockMember
<1> QED
  BY <1>1, <1>2 DEF LockMember

\* A request whose check finds no way from its member to its group.
LEMMA CheckStep ==
    ASSUME GInv, NEW r \in Requests, Check(r)
    PROVE  GInv'
<1> DEFINE g == requests[r].group
           m == requests[r].member
<1>1. CASE End(r)
  BY <1>1, EndStep DEF Check
<1>2. CASE ~WouldCreateCycle(g, m) /\ GoTo(r, "writing")
  <2>1. /\ requests' \in [Requests -> Request]
        /\ requests'[r].step = "writing"
        /\ requests'[r].op = requests[r].op
        /\ requests'[r].group = requests[r].group
        /\ requests'[r].member = requests[r].member
        /\ \A q \in Requests \ {r} : requests'[q] = requests[q]
        /\ \A q \in Requests \ {r} : HasLocked(q)' = HasLocked(q)
    BY <1>2, GoToEffect DEF GInv, Steps
  <2>2. HasLocked(r)' = HasLocked(r)
    BY <2>1 DEF HasLocked, Check
  <2>3. g \in Groups /\ memberships \in SUBSET (Groups \X Principals)
    BY DEF GInv, TypeOK, Check
  <2>4. /\ <<m, g>> \notin memberships
        /\ \A x \in Groups : ~(<<m, x>> \in memberships /\ <<x, g>> \in memberships)
    <3>1. CASE m \in Groups
      BY <1>2, <2>3, <3>1, ReachesInOneStep, ReachesInTwoSteps DEF WouldCreateCycle
    <3>2. CASE m \notin Groups
      BY <2>3, <3>2
    <3> QED
      BY <3>1, <3>2
  <2>5. TypeOK'
    BY <2>1 DEF GInv, TypeOK, Check
  <2>6. LocksExclusive'
    BY <2>1, <2>2 DEF GInv, LocksExclusive
  <2>7. WritesAreChecked'
    BY <2>1, <2>4 DEF GInv, WritesAreChecked, Check
  <2>8. LockedAreActive'
    BY <2>1, <2>2 DEF GInv, LockedAreActive, Check
  <2> QED
    BY <2>5, <2>6, <2>7, <2>8 DEF GInv, NoShortCycle, Check
<1> QED
  BY <1>1, <1>2 DEF Check

\* A request that starts has locked nothing yet.
LEMMA StartStep ==
    ASSUME GInv, NEW r \in Requests, NEW op \in {"add", "remove"},
           NEW g \in Groups, NEW m \in Principals, Start(r, op, g, m)
    PROVE  GInv'
<1> DEFINE R == [step |-> "locking_group", op |-> op, group |-> g, member |-> m]
<1>1. requests' = [requests EXCEPT ![r] = R]
  BY DEF Start
<1>2. /\ R \in Request
      /\ R.step = "locking_group"
      /\ R.op = op
      /\ R.group = g
      /\ R.member = m
  BY DEF Request, Steps
<1> HIDE DEF R
<1>3. /\ requests' \in [Requests -> Request]
      /\ requests'[r] = R
      /\ \A q \in Requests \ {r} : requests'[q] = requests[q]
  BY <1>1, <1>2 DEF GInv, TypeOK
<1>4. /\ HasLocked(r)' = {}
      /\ \A q \in Requests \ {r} : HasLocked(q)' = HasLocked(q)
  BY <1>2, <1>3 DEF HasLocked
<1>5. TypeOK'
  BY <1>2, <1>3 DEF GInv, TypeOK, Start
<1>6. LocksExclusive'
  BY <1>3, <1>4 DEF GInv, LocksExclusive
<1>7. WritesAreChecked'
  BY <1>2, <1>3 DEF GInv, WritesAreChecked, Start
<1>8. LockedAreActive'
  BY <1>3, <1>4 DEF GInv, LockedAreActive, Start
<1> QED
  BY <1>5, <1>6, <1>7, <1>8 DEF GInv, NoShortCycle, Start

\* The row that a request adds closes no short circle, and opens no short way
\* between the targets of another request: they share no principal.
LEMMA AddStep ==
    ASSUME GInv, NEW r \in Requests, Add(r)
    PROVE  GInv'
<1>0. PICK g \in Groups, m \in Principals : g = requests[r].group /\ m = requests[r].member
  BY DEF GInv, TypeOK, Add
<1>1. /\ requests' \in [Requests -> Request]
      /\ requests'[r] = Idle
      /\ HasLocked(r)' = {}
      /\ \A q \in Requests \ {r} : requests'[q] = requests[q]
      /\ \A q \in Requests \ {r} : HasLocked(q)' = HasLocked(q)
  BY EndEffect DEF GInv, Add
<1>2. memberships' = memberships \cup {<<g, m>>}
  BY <1>0 DEF Add
<1>3. /\ g # m
      /\ <<m, g>> \notin memberships
      /\ \A x \in Groups : ~(<<m, x>> \in memberships /\ <<x, g>> \in memberships)
  BY <1>0 DEF GInv, WritesAreChecked, Add
<1>4. TypeOK'
  BY <1>1, <1>2 DEF GInv, TypeOK, Add, Idle
<1>5. LocksExclusive'
  BY <1>1 DEF GInv, LocksExclusive
<1>6. WritesAreChecked'
  <2> SUFFICES ASSUME NEW q \in Requests \ {r}, requests[q].step = "writing"
               PROVE  /\ <<requests[q].member, requests[q].group>> \notin memberships'
                      /\ \A x \in Groups :
                           ~(/\ <<requests[q].member, x>> \in memberships'
                             /\ <<x, requests[q].group>> \in memberships')
    BY <1>1 DEF GInv, WritesAreChecked, Idle
  <2>1. /\ g \notin {requests[q].group, requests[q].member}
        /\ m \notin {requests[q].group, requests[q].member}
    BY <1>0 DEF GInv, LocksExclusive, HasLocked, Add
  <2> QED
    BY <1>2, <2>1 DEF GInv, WritesAreChecked
<1>7. LockedAreActive'
  BY <1>1 DEF GInv, LockedAreActive, Add, Idle
<1>8. NoShortCycle'
  <2> SUFFICES ASSUME NEW a \in Groups, NEW b \in Groups, NEW c \in Groups
               PROVE  /\ <<a, a>> \notin memberships'
                      /\ ~(<<a, b>> \in memberships' /\ <<b, a>> \in memberships')
                      /\ ~(/\ <<a, b>> \in memberships'
                           /\ <<b, c>> \in memberships'
                           /\ <<c, a>> \in memberships')
    BY DEF NoShortCycle
  <2>1. \A x, y : <<x, y>> \in memberships' =>
                    <<x, y>> \in memberships \/ (x = g /\ y = m)
    BY <1>2
  <2>2. /\ <<a, a>> \notin memberships
        /\ ~(<<a, b>> \in memberships /\ <<b, a>> \in memberships)
        /\ ~(<<a, b>> \in memberships /\ <<b, c>> \in memberships /\ <<c, a>> \in memberships)
    BY DEF GInv, NoShortCycle
  <2>3. <<a, a>> \notin memberships'
    BY <1>3, <2>1, <2>2
  <2>4. ~(<<a, b>> \in memberships' /\ <<b, a>> \in memberships')
    BY <1>3, <2>1, <2>2
  <2>5. ~(<<a, b>> \in memberships' /\ <<b, c>> \in memberships' /\ <<c, a>> \in memberships')
    BY <1>3, <2>1, <2>2
  <2> QED
    BY <2>3, <2>4, <2>5
<1> QED
  BY <1>4, <1>5, <1>6, <1>7, <1>8 DEF GInv

\* Closing a membership opens no way between groups.
LEMMA RemoveStep ==
    ASSUME GInv, NEW r \in Requests, Remove(r)
    PROVE  GInv'
<1>1. /\ requests' \in [Requests -> Request]
      /\ requests'[r] = Idle
      /\ HasLocked(r)' = {}
      /\ \A q \in Requests \ {r} : requests'[q] = requests[q]
      /\ \A q \in Requests \ {r} : HasLocked(q)' = HasLocked(q)
  BY EndEffect DEF GInv, Remove
<1>2. memberships' \subseteq memberships
  BY DEF Remove
<1>3. TypeOK'
  BY <1>1, <1>2 DEF GInv, TypeOK, Remove, Idle
<1>4. LocksExclusive'
  BY <1>1 DEF GInv, LocksExclusive
<1>5. WritesAreChecked'
  BY <1>1, <1>2 DEF GInv, WritesAreChecked, Idle
<1>6. LockedAreActive'
  BY <1>1 DEF GInv, LockedAreActive, Remove, Idle
<1>7. NoShortCycle'
  BY <1>2 DEF GInv, NoShortCycle
<1> QED
  BY <1>3, <1>4, <1>5, <1>6, <1>7 DEF GInv

\* A status changes only while no request has the principal locked.
LEMMA SetStatusStep ==
    ASSUME GInv, NEW p \in Principals, NEW s \in {"active", "inactive", "retired"},
           SetStatus(p, s)
    PROVE  GInv'
<1>1. TypeOK'
  BY GroupAssumption DEF GInv, TypeOK, SetStatus
<1>2. \A r \in Requests : HasLocked(r)' = HasLocked(r) /\ p \notin HasLocked(r)
  BY DEF SetStatus, HasLocked
<1>3. \A x : x # p /\ status[x] = "active" /\ x \in Principals => status'[x] = "active"
  BY DEF SetStatus, GInv, TypeOK
<1>4. \A r \in Requests : HasLocked(r) \subseteq Principals
  BY DEF GInv, TypeOK, HasLocked, Principals
<1>5. LockedAreActive'
  BY <1>2, <1>3, <1>4 DEF GInv, LockedAreActive, SetStatus
<1>6. LocksExclusive'
  BY <1>2 DEF GInv, LocksExclusive
<1>7. WritesAreChecked' /\ NoShortCycle'
  BY DEF GInv, WritesAreChecked, NoShortCycle, SetStatus
<1> QED
  BY <1>1, <1>5, <1>6, <1>7 DEF GInv

\* Every step keeps the inductive invariant.
LEMMA GroupInvariance ==
    ASSUME GInv, Next
    PROVE  GInv'
<1>1. ASSUME NEW r \in Requests, Abort(r)
      PROVE  GInv'
  BY <1>1, EndStep DEF Abort
<1> QED
  BY <1>1, StartStep, LockGroupStep, LockMemberStep, CheckStep, AddStep, RemoveStep,
     SetStatusStep DEF Next

\* No memberships, no requests: the invariant holds.
LEMMA GroupInit == Init => GInv
BY GroupAssumption DEF Init, GInv, TypeOK, Idle, Request, Steps, LocksExclusive, HasLocked,
   WritesAreChecked, LockedAreActive, NoShortCycle

\* A step that changes nothing keeps it.
LEMMA GroupStutter == ASSUME GInv, UNCHANGED vars PROVE GInv'
BY DEF vars, GInv, TypeOK, LocksExclusive, HasLocked, WritesAreChecked, LockedAreActive,
   NoShortCycle

\* The inductive invariant holds in every behaviour.
THEOREM GroupInvariant == Spec => []GInv
<1>1. GInv /\ [Next]_vars => GInv'
  BY GroupInvariance, GroupStutter
<1> QED
  BY <1>1, GroupInit, PTL DEF Spec

-----------------------------------------------------------------------------
(* The properties.                                                         *)

\* Rows, statuses and requests keep their types.
THEOREM GroupTypes == Spec => []TypeOK
BY GroupInvariant, PTL DEF GInv

\* The row locks rule out every circle of up to three groups, for any number of
\* groups and concurrent requests (longer ones they do not: see Acyclic).
THEOREM ShortCyclesExcluded == Spec => []NoShortCycle
BY GroupInvariant, PTL DEF GInv

\* Nobody joins, or is joined to, a group after being deactivated or retired.
THEOREM OnlyActivePrincipalsJoin == Spec => OnlyActiveJoin
<1>1. ASSUME GInv, [Next]_vars, NEW g \in Groups, NEW m \in Principals,
             <<g, m>> \in memberships' \ memberships
      PROVE  status[g] = "active" /\ status[m] = "active"
  <2>1. ASSUME NEW r \in Requests, Add(r)
        PROVE  status[g] = "active" /\ status[m] = "active"
    <3>1. g = requests[r].group /\ m = requests[r].member
      BY <1>1, <2>1 DEF Add
    <3>2. requests[r].op = "add" /\ HasLocked(r) = {g, m}
      BY <1>1, <2>1, <3>1 DEF GInv, WritesAreChecked, HasLocked, Add
    <3> QED
      BY <1>1, <3>2 DEF GInv, LockedAreActive
  <2> QED
    BY <1>1, <2>1 DEF Next, vars, Start, LockGroup, LockMember, Check, Remove, Abort, SetStatus
<1>2. GInv /\ [Next]_vars =>
        [\A g \in Groups, m \in Principals :
           <<g, m>> \in memberships' \ memberships =>
               status[g] = "active" /\ status[m] = "active"]_vars
  BY <1>1
<1> QED
  BY <1>2, GroupInvariant, PTL DEF Spec, OnlyActiveJoin

=============================================================================
