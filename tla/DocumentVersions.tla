-------------------------- MODULE DocumentVersions --------------------------
(***************************************************************************)
(* The rows of knowledge.documents, knowledge.document_versions and        *)
(* knowledge.document_acl, and the requests that create, publish, withdraw *)
(* and archive versions, create and delete documents, and grant and revoke *)
(* access to them.                                                         *)
(*                                                                         *)
(* A request is one transaction at READ COMMITTED.  Its steps are its      *)
(* statements; a request that meets a row another one has locked has to    *)
(* wait.  The last statement and the commit are one step, because what the *)
(* statement writes is not seen before the commit, and what it writes      *)
(* about is locked.  Versions whose effective period is open have `to` 0,  *)
(* SQL's NULL; times start at 1.  A new identifier is random, so it does   *)
(* not matter which unused one a row gets.                                 *)
(***************************************************************************)
EXTENDS Integers, FiniteSets

CONSTANTS
    Documents,  \* identifiers a document may get
    Keys,       \* canonical keys
    Versions,   \* identifiers a version may get
    Grantees,   \* pairs of a principal and a permission
    Requests,   \* transactions that may run at the same time
    MaxTime,    \* effective times a client may name are 1 .. MaxTime
    None

ASSUME TimeAssumption == MaxTime \in Nat
ASSUME NoneAssumption ==
    None \notin Documents \cup Keys \cup Versions \cup Grantees \cup Requests
ASSUME RowsAssumption == Documents \cap Versions = {}

VARIABLES
    documents,  \* rows of knowledge.documents
    versions,   \* rows of knowledge.document_versions
    grants,     \* unrevoked rows of knowledge.document_acl
    locked,     \* the request that holds a row FOR UPDATE, or None
    requests    \* where each request is in its transaction

dvars == <<documents, versions, grants, locked, requests>>

Times == 1 .. MaxTime
Rows == Documents \cup Versions
Statuses == {"absent", "draft", "published", "withdrawn", "archived"}

DocumentRow == [state : {"absent", "active", "deleted"}, key : Keys \cup {None}]

VersionRow ==
    [document : Documents \cup {None}, status : Statuses,
     from : Times \cup {0}, to : Times \cup {0}]

Grants == SUBSET (Documents \X Grantees)

\* Besides the phases of this module a request may be in those of a module
\* that shares the rows; `version` and `open` name rows, `at` is the time of
\* the call's argument.
Phases == {"idle", "key checked", "document checked", "publish", "withdraw",
           "archive", "open version awaited", "open version locked", "grant", "revoke"}

Request ==
    [phase : Phases, document : Documents \cup {None}, key : Keys \cup {None},
     version : Versions \cup {None}, open : Versions \cup {None}, at : Times \cup {0},
     grantee : Grantees \cup {None}]

Idle == [phase |-> "idle", document |-> None, key |-> None,
         version |-> None, open |-> None, at |-> 0, grantee |-> None]

TypeOK ==
    /\ documents \in [Documents -> DocumentRow]
    /\ versions \in [Versions -> VersionRow]
    /\ grants \in Grants
    /\ locked \in [Rows -> Requests \cup {None}]
    /\ requests \in [Requests -> Request]

Init ==
    /\ documents = [d \in Documents |-> [state |-> "absent", key |-> None]]
    /\ versions = [v \in Versions |->
            [document |-> None, status |-> "absent", from |-> 0, to |-> 0]]
    /\ grants = {}
    /\ locked = [x \in Rows |-> None]
    /\ requests = [r \in Requests |-> Idle]

-----------------------------------------------------------------------------
(* Helpers *)

\* FOR UPDATE: the row is free, and stays with r until its transaction ends.
Free(x) == locked[x] = None

\* The end of a transaction: its locks go with it.
Release(r) == [x \in Rows |-> IF locked[x] = r THEN None ELSE locked[x]]

End(r) ==
    /\ requests' = [requests EXCEPT ![r] = Idle]
    /\ locked' = Release(r)

OfDocument(d) == {v \in Versions : versions[v].document = d}

\* The column effective_period is tstzrange(from, to, '[)'), NULL for a draft.
Covers(row, t) == row.from # 0 /\ row.from <= t /\ (row.to = 0 \/ t < row.to)

PeriodsOverlap(a, b) ==
    /\ a.from # 0 /\ b.from # 0
    /\ a.to = 0 \/ b.from < a.to
    /\ b.to = 0 \/ a.from < b.to

\* Mutant: the table without the exclusion constraint.
NoExclusion(rows, v) == TRUE

\* The exclusion constraint for the row v, with the rows as rows has them.
ExclusionHolds(rows, v) ==
    \A w \in Versions \ {v} :
        rows[w].document = rows[v].document => ~ PeriodsOverlap(rows[w], rows[v])

FindOpenEffectiveVersion(d) ==
    {v \in OfDocument(d) : versions[v].from # 0 /\ versions[v].to = 0}

FindEffectiveAt(d, t) == {v \in OfDocument(d) : Covers(versions[v], t)}

\* Mutant: the old version ends just before the new one starts.
CloseTooEarly(row, at) == [row EXCEPT !.to = at - 1]

CloseEffectivePeriod(row, at) == [row EXCEPT !.to = at]

SetPublished(row, at) == [row EXCEPT !.status = "published", !.from = at]
SetWithdrawn(row, at) == [row EXCEPT !.status = "withdrawn", !.to = at]
SetArchived(row) == [row EXCEPT !.status = "archived"]

-----------------------------------------------------------------------------
(* Documents *)

\* create_document: canonical_key_exists; deleted documents keep their key.
CheckCanonicalKey(r, k) ==
    /\ requests[r].phase = "idle"
    /\ \A d \in Documents : documents[d].key # k
    /\ requests' = [requests EXCEPT ![r] = [Idle EXCEPT !.phase = "key checked", !.key = k]]
    /\ UNCHANGED <<documents, versions, grants, locked>>

\* The insert; the unique constraint refuses a key that came in between.
InsertDocument(r) ==
    LET k == requests[r].key
        d == CHOOSE e \in Documents : documents[e].state = "absent"
    IN  /\ requests[r].phase = "key checked"
        /\ \/ /\ \E e \in Documents : documents[e].state = "absent"
              /\ \A e \in Documents : documents[e].key # k
              /\ documents' = [documents EXCEPT ![d] = [state |-> "active", key |-> k]]
           \/ /\ \E e \in Documents : documents[e].key = k
              /\ UNCHANGED documents
        /\ End(r)
        /\ UNCHANGED <<versions, grants>>

\* delete_document is a single UPDATE of an active row.
SoftDelete(d) ==
    /\ Free(d)
    /\ documents[d].state = "active"
    /\ documents' = [documents EXCEPT ![d].state = "deleted"]
    /\ UNCHANGED <<versions, grants, locked, requests>>

-----------------------------------------------------------------------------
(* Access control lists.  A principal that is granted something is locked  *)
(* in iam.principals too; AccessControl has those locks.                   *)

\* Mutant: _require_active_document with lock=False.
ReadForAcl(r, phase, d, g) ==
    /\ requests[r].phase = "idle"
    /\ documents[d].state = "active"
    /\ requests' = [requests EXCEPT ![r] =
            [Idle EXCEPT !.phase = phase, !.document = d, !.grantee = g]]
    /\ UNCHANGED <<documents, versions, grants, locked>>

\* _require_active_document(lock=True) of grant_acl and revoke_acl.
LockForAcl(r, phase, d, g) ==
    /\ requests[r].phase = "idle"
    /\ Free(d)
    /\ documents[d].state = "active"
    /\ requests' = [requests EXCEPT ![r] =
            [Idle EXCEPT !.phase = phase, !.document = d, !.grantee = g]]
    /\ locked' = [locked EXCEPT ![d] = r]
    /\ UNCHANGED <<documents, versions, grants>>

\* has_unrevoked_grant does not look at expires_at: a grant that has expired
\* is in the way of a new one until it is revoked.
CreateGrant(d, g) == grants \cup {<<d, g>>}

GrantAcl(r) ==
    /\ requests[r].phase = "grant"
    /\ grants' = CreateGrant(requests[r].document, requests[r].grantee)
    /\ End(r)
    /\ UNCHANGED <<documents, versions>>

\* The row may have been revoked before, and the CHECK refuses a time before
\* granted_at, which another host's clock has set.
RevokeGrant(d, g) == {grants \ {<<d, g>>}, grants}

RevokeAcl(r) ==
    /\ requests[r].phase = "revoke"
    /\ grants' \in RevokeGrant(requests[r].document, requests[r].grantee)
    /\ End(r)
    /\ UNCHANGED <<documents, versions>>

-----------------------------------------------------------------------------
(* Versions *)

\* create_version looks at the document without locking it ...
RequireActiveDocument(r, d) ==
    /\ requests[r].phase = "idle"
    /\ documents[d].state = "active"
    /\ requests' = [requests EXCEPT ![r] =
            [Idle EXCEPT !.phase = "document checked", !.document = d]]
    /\ UNCHANGED <<documents, versions, grants, locked>>

\* ... and inserts the draft: the foreign key needs the document's row, which
\* a soft delete leaves there, and waits while it is locked FOR UPDATE.  The
\* unique constraint refuses a label that the document has already; labels are
\* left out, so a document with versions may have it or not.
InsertVersion(r) ==
    LET d == requests[r].document
        v == CHOOSE w \in Versions : versions[w].status = "absent"
    IN  /\ requests[r].phase = "document checked"
        /\ Free(d)
        /\ \/ /\ \E w \in Versions : versions[w].status = "absent"
              /\ versions' = [versions EXCEPT ![v] =
                    [document |-> d, status |-> "draft", from |-> 0, to |-> 0]]
           \/ OfDocument(d) # {} /\ UNCHANGED versions
        /\ End(r)
        /\ UNCHANGED <<documents, grants>>

\* Mutant: find_by_id(lock=False).
ReadForTransition(r, v, phase, at) ==
    /\ requests[r].phase = "idle"
    /\ requests' = [requests EXCEPT ![r] =
            [Idle EXCEPT !.phase = phase, !.document = versions[v].document,
                         !.version = v, !.at = at]]
    /\ UNCHANGED <<documents, versions, grants, locked>>

\* find_by_id(lock=True) of the three transitions, and the checks of the row:
\* a refused request ends and leaves nothing.
LockForTransition(r, v, phase, at) ==
    /\ requests[r].phase = "idle"
    /\ Free(v)
    /\ requests' = [requests EXCEPT ![r] =
            [Idle EXCEPT !.phase = phase, !.document = versions[v].document,
                         !.version = v, !.at = at]]
    /\ locked' = [locked EXCEPT ![v] = r]
    /\ UNCHANGED <<documents, versions, grants>>

BeginPublish(r, v, at) ==
    versions[v].status = "draft" /\ LockForTransition(r, v, "publish", at)

BeginWithdraw(r, v, at) ==
    /\ versions[v].status = "published"
    /\ at > versions[v].from
    /\ LockForTransition(r, v, "withdraw", at)

BeginArchive(r, v) ==
    versions[v].status = "withdrawn" /\ LockForTransition(r, v, "archive", 0)

\* Mutant: find_open_effective_version(lock=False).
ReadOpen(r) ==
    LET open == FindOpenEffectiveVersion(requests[r].document)
    IN  /\ requests[r].phase = "publish"
        /\ requests' = [requests EXCEPT ![r].phase = "open version locked",
                        ![r].open = IF open = {} THEN None ELSE CHOOSE o \in open : TRUE]
        /\ UNCHANGED <<documents, versions, grants, locked>>

\* find_open_effective_version(lock=True) takes the row it sees when the
\* statement begins, if there is one.
FindOpen(r) ==
    LET open == FindOpenEffectiveVersion(requests[r].document)
    IN  /\ requests[r].phase = "publish"
        /\ requests' = [requests EXCEPT ![r].phase =
                            IF open = {} THEN "open version locked" ELSE "open version awaited",
                        ![r].open = IF open = {} THEN None ELSE CHOOSE o \in open : TRUE]
        /\ UNCHANGED <<documents, versions, grants, locked>>

\* Mutant: the statement is repeated until it finds the version still open.
LockOpenOnly(r) ==
    LET o == requests[r].open
    IN  /\ requests[r].phase = "open version awaited"
        /\ Free(o)
        /\ versions[o].to = 0
        /\ \/ requests[r].at <= versions[o].from /\ End(r)
           \/ /\ requests[r].at > versions[o].from
              /\ requests' = [requests EXCEPT ![r].phase = "open version locked"]
              /\ locked' = [locked EXCEPT ![o] = r]
        /\ UNCHANGED <<documents, versions, grants>>

\* Once the row is free it is read again.  One that is not open any more is
\* not returned, and one that has become open meanwhile is not looked for.
LockOpen(r) ==
    LET o == requests[r].open
        still == versions[o].to = 0
    IN  /\ requests[r].phase = "open version awaited"
        /\ Free(o)
        /\ \/ still /\ requests[r].at <= versions[o].from /\ End(r)
           \/ /\ still /\ requests[r].at > versions[o].from
              /\ requests' = [requests EXCEPT ![r].phase = "open version locked"]
              /\ locked' = [locked EXCEPT ![o] = r]
           \/ /\ ~ still
              /\ requests' = [requests EXCEPT ![r].phase = "open version locked", ![r].open = None]
              /\ UNCHANGED locked
        /\ UNCHANGED <<documents, versions, grants>>

\* close_effective_period of the open version, set_published, and the commit;
\* the exclusion constraint makes it DocumentVersionOverlap.
Publish(r) ==
    LET v == requests[r].version
        o == requests[r].open
        at == requests[r].at
        closed == IF o = None THEN versions
                  ELSE [versions EXCEPT ![o] = CloseEffectivePeriod(@, at)]
        rows == [closed EXCEPT ![v] = SetPublished(@, at)]
    IN  /\ requests[r].phase = "open version locked"
        /\ \/ ExclusionHolds(rows, v) /\ versions' = rows
           \/ ~ ExclusionHolds(rows, v) /\ UNCHANGED versions
        /\ End(r)
        /\ UNCHANGED <<documents, grants>>

\* set_withdrawn and the commit; here the constraint's IntegrityError is not
\* translated.
Withdraw(r) ==
    LET v == requests[r].version
        rows == [versions EXCEPT ![v] = SetWithdrawn(@, requests[r].at)]
    IN  /\ requests[r].phase = "withdraw"
        /\ \/ ExclusionHolds(rows, v) /\ versions' = rows
           \/ ~ ExclusionHolds(rows, v) /\ UNCHANGED versions
        /\ End(r)
        /\ UNCHANGED <<documents, grants>>

Archive(r) ==
    /\ requests[r].phase = "archive"
    /\ versions' = [versions EXCEPT ![requests[r].version] = SetArchived(@)]
    /\ End(r)
    /\ UNCHANGED <<documents, grants>>

\* A statement fails, the connection breaks, the process dies, or the
\* database ends a deadlock of two inserts under the exclusion constraint.
Abort(r) ==
    /\ requests[r].phase # "idle"
    /\ End(r)
    /\ UNCHANGED <<documents, versions, grants>>

-----------------------------------------------------------------------------

\* What a request that has begun does next of its own.
Continue(r) ==
    \/ InsertDocument(r)
    \/ InsertVersion(r)
    \/ FindOpen(r)
    \/ LockOpen(r)
    \/ Publish(r)
    \/ Withdraw(r)
    \/ Archive(r)
    \/ GrantAcl(r)
    \/ RevokeAcl(r)

DocumentCall(r) == \E k \in Keys : CheckCanonicalKey(r, k)

AclCall(r) ==
    \E d \in Documents, g \in Grantees, phase \in {"grant", "revoke"} :
        LockForAcl(r, phase, d, g)

VersionCall(r) ==
    \/ \E d \in Documents : RequireActiveDocument(r, d)
    \/ \E v \in Versions, at \in Times : BeginPublish(r, v, at)
    \/ \E v \in Versions, at \in Times : BeginWithdraw(r, v, at)
    \/ \E v \in Versions : BeginArchive(r, v)

Start(r) == DocumentCall(r) \/ AclCall(r) \/ VersionCall(r)

Next ==
    \/ \E r \in Requests : Start(r) \/ Continue(r) \/ Abort(r)
    \/ \E d \in Documents : SoftDelete(d)

Spec == Init /\ [][Next]_dvars

\* A coroutine that is ready is resumed.  Those that wait for a row are served
\* in the order in which they came: SF for the statement that waits.
Fairness == \A r \in Requests : WF_dvars(Continue(r)) /\ SF_dvars(LockOpen(r))

FairSpec == Spec /\ Fairness

-----------------------------------------------------------------------------
(* Properties *)

\* find_effective_at reads one_or_none: at every time at most one version of a
\* document is effective, though two first versions may be published at once.
EffectiveAtMostOne ==
    \A d \in Documents, t \in Times : Cardinality(FindEffectiveAt(d, t)) <= 1

\* publish_version closes the period of the version before it exactly where
\* the new one starts: a published version that has ended has a successor
\* there, whatever was withdrawn, refused or aborted in between.
EndsWhereSuccessorStarts ==
    \A v \in Versions :
        versions[v].status = "published" /\ versions[v].to # 0
            => \E w \in OfDocument(versions[v].document) : versions[w].from = versions[v].to

\* An effective period that has ended only ever gets shorter, and that of a
\* withdrawn version stays.  close_effective_period has no WHERE on the status:
\* the row lock alone keeps a publication from moving the end of a version
\* withdrawn after the publication had read it; set_withdrawn overwrites an end,
\* and the constraint alone keeps it from running into the successor's period.
EndedPeriodsStay ==
    [][\A v \in Versions : versions[v].to # 0 =>
            /\ versions'[v].from = versions[v].from
            /\ versions'[v].to \in 1 .. versions[v].to
            /\ versions[v].status # "published" => versions'[v].to = versions[v].to]_dvars

Rank == [s \in Statuses |-> CASE s = "absent" -> 0 [] s = "draft" -> 1
            [] s = "published" -> 2 [] s = "withdrawn" -> 3 [] s = "archived" -> 4]

\* Statuses go forward one at a time under concurrent requests, although the
\* UPDATEs of the repository do not look at the status.
StatusStepsForward ==
    [][\A v \in Versions : versions'[v].status # versions[v].status =>
            Rank[versions'[v].status] = Rank[versions[v].status] + 1]_dvars

\* grant_acl and revoke_acl change the list of a document that is not deleted:
\* this holds when the row is written, because the document stays locked.
AclOfActiveDocuments ==
    [][\A d \in Documents, g \in Grantees :
            (<<d, g>> \in grants) # (<<d, g>> \in grants')
                => documents[d].state = "active"]_dvars

\* A publication that waits for the open version's row, which a withdrawal or
\* another publication holds, comes to an end: there is no circle of waits.
TransitionsEnd ==
    \A r \in Requests :
        requests[r].version # None ~> requests[r].version = None

=============================================================================
