----------------------- MODULE ArtifactUploads_proofs -----------------------
(***************************************************************************)
(* Proofs about DocumentVersions and ArtifactUploads, for any documents,   *)
(* versions, requests, times, artifacts and calls.  The first part is of   *)
(* DocumentVersions alone; what is proved there is used in the second,     *)
(* where the calls work on its rows.                                       *)
(***************************************************************************)
EXTENDS ArtifactUploads, FiniteSetTheorems, TLAPS

-----------------------------------------------------------------------------
(* The versions and the requests on them: the inductive invariant.         *)

\* Effective periods begin with the publication, and are not empty.
RowShapes ==
    \A v \in Versions :
        /\ versions[v].status \in {"absent", "draft"} <=> versions[v].from = 0
        /\ versions[v].to # 0 => versions[v].from # 0 /\ versions[v].from < versions[v].to

Publishing == {"publish", "open version awaited", "open version locked"}

\* A transition has its version locked, and the version is as it was checked.
VersionHeld(r) ==
    LET q == requests[r]
        v == q.version
    IN  /\ q.phase \in Publishing \cup {"withdraw", "archive"} =>
              v \in Versions /\ locked[v] = r
        /\ q.phase \in Publishing => versions[v].status = "draft" /\ q.at # 0
                                     /\ q.document = versions[v].document
        /\ q.phase = "withdraw" => versions[v].status = "published" /\ q.at > versions[v].from
        /\ q.phase = "archive" => versions[v].status = "withdrawn"

\* A publication waits for a version of its document that has been published,
\* and the one it has locked is open still and starts before its own time.
OpenHeld(r) ==
    LET q == requests[r]
        o == q.open
    IN  /\ q.phase = "open version awaited" =>
              o \in Versions /\ versions[o].from # 0 /\ versions[o].document = q.document
        /\ q.phase = "open version locked" /\ o # None =>
              /\ o \in Versions /\ locked[o] = r /\ versions[o].document = q.document
              /\ versions[o].from # 0 /\ versions[o].to = 0 /\ q.at > versions[o].from

\* A request on an access control list has its document locked and active.
DocumentHeld(r) ==
    LET q == requests[r]
    IN  /\ q.phase = "key checked" => q.key \in Keys
        /\ q.phase \in {"document checked", "grant", "revoke"} => q.document \in Documents
        /\ q.phase \in {"grant", "revoke"} =>
              /\ q.grantee \in Grantees
              /\ locked[q.document] = r
              /\ documents[q.document].state = "active"

Held(r) == VersionHeld(r) /\ OpenHeld(r) /\ DocumentHeld(r)

\* What the exclusion constraint says of the table.
Exclusive ==
    \A v, w \in Versions :
        v # w /\ versions[v].document = versions[w].document
            => ~ PeriodsOverlap(versions[v], versions[w])

VInv ==
    /\ TypeOK
    /\ RowShapes
    /\ \A r \in Requests : Held(r)
    /\ Exclusive
    /\ EndsWhereSuccessorStarts

-----------------------------------------------------------------------------
(* What a step of one request leaves to the others.                        *)

\* What a request holds stays as it is while the rows it has locked, and the
\* locks, do, and no published version becomes a draft.
LEMMA HeldStays ==
    ASSUME VInv, NEW q \in Requests, requests'[q] = requests[q],
           \A x \in Rows : locked[x] = q => locked'[x] = q,
           \A v \in Versions : locked[v] = q /\ versions[v].status # "absent"
                                    => versions'[v] = versions[v],
           \A v \in Versions : versions[v].from # 0 =>
                versions'[v].from # 0 /\ versions'[v].document = versions[v].document,
           \A d \in Documents : locked[d] = q /\ documents[d].state = "active"
                                    => documents'[d] = documents[d]
    PROVE  Held(q)'
<1>1. Held(q)
  BY DEF VInv
<1>2. VersionHeld(q)'
  BY <1>1 DEF Held, VersionHeld, Publishing, Rows
<1>3. OpenHeld(q)'
  <2> DEFINE o == requests[q].open
  <2>1. CASE requests[q].phase = "open version locked" /\ o # None
    <3>1. /\ o \in Versions /\ locked[o] = q /\ versions[o].document = requests[q].document
          /\ versions[o].from # 0 /\ versions[o].to = 0 /\ requests[q].at > versions[o].from
      BY <1>1, <2>1 DEF Held, OpenHeld
    <3>2. versions[o].status # "absent"
      BY <3>1 DEF VInv, RowShapes
    <3>3. versions'[o] = versions[o] /\ locked'[o] = q
      BY <3>1, <3>2 DEF Rows
    <3> QED
      BY <2>1, <3>1, <3>3 DEF OpenHeld
  <2>2. CASE requests[q].phase # "open version locked" \/ o = None
    BY <1>1, <2>2 DEF Held, OpenHeld
  <2> QED
    BY <2>1, <2>2
<1>4. DocumentHeld(q)'
  BY <1>1 DEF Held, DocumentHeld, Rows
<1> QED
  BY <1>2, <1>3, <1>4 DEF Held

\* A request that ends holds nothing, and leaves the locks of the others.
LEMMA EndEffect ==
    ASSUME TypeOK, NEW r \in Requests, End(r)
    PROVE  /\ requests' \in [Requests -> Request]
           /\ locked' \in [Rows -> Requests \cup {None}]
           /\ Held(r)'
           /\ \A q \in Requests \ {r} :
                /\ requests'[q] = requests[q]
                /\ \A x \in Rows : locked[x] = q => locked'[x] = q
<1>1. Idle \in Request /\ Idle.phase = "idle"
  BY DEF Idle, Request, Phases
<1>2. requests' \in [Requests -> Request] /\ requests'[r] = Idle
  BY <1>1 DEF TypeOK, End
<1>3. Held(r)'
  BY <1>1, <1>2 DEF Held, VersionHeld, OpenHeld, DocumentHeld, Publishing
<1>4. /\ locked' \in [Rows -> Requests \cup {None}]
      /\ \A q \in Requests \ {r}, x \in Rows : locked[x] = q => locked'[x] = q
  BY DEF TypeOK, End, Release
<1> QED
  BY <1>2, <1>3, <1>4 DEF TypeOK, End

\* A step that ends a transaction keeps the invariant if its writes keep what
\* is about rows, and leave alone what others have locked.
LEMMA EndStep ==
    ASSUME VInv, NEW r \in Requests, End(r),
           documents' \in [Documents -> DocumentRow],
           versions' \in [Versions -> VersionRow],
           grants' \in Grants,
           RowShapes', Exclusive', EndsWhereSuccessorStarts',
           \A v \in Versions : versions[v].from # 0 =>
                versions'[v].from # 0 /\ versions'[v].document = versions[v].document,
           \A v \in Versions : versions'[v] # versions[v] =>
                                    versions[v].status = "absent" \/ locked[v] = r,
           \A d \in Documents : documents'[d] # documents[d] => documents[d].state # "active"
    PROVE  VInv'
<1>1. /\ requests' \in [Requests -> Request]
      /\ locked' \in [Rows -> Requests \cup {None}]
      /\ Held(r)'
      /\ \A q \in Requests \ {r} :
            /\ requests'[q] = requests[q]
            /\ \A x \in Rows : locked[x] = q => locked'[x] = q
  BY EndEffect DEF VInv
<1>2. ASSUME NEW q \in Requests \ {r}
      PROVE  Held(q)'
  BY <1>1, <1>2, HeldStays
<1>3. TypeOK'
  BY <1>1 DEF TypeOK
<1> QED
  BY <1>1, <1>2, <1>3 DEF VInv

\* Nothing about rows changes with the tables unchanged.
LEMMA SameRows ==
    ASSUME VInv, UNCHANGED versions
    PROVE  RowShapes' /\ Exclusive' /\ EndsWhereSuccessorStarts'
BY DEF VInv, RowShapes, Exclusive, PeriodsOverlap, EndsWhereSuccessorStarts, OfDocument

\* A transaction that ends without a write.
LEMMA RefusedStep ==
    ASSUME VInv, NEW r \in Requests, End(r), UNCHANGED <<documents, versions, grants>>
    PROVE  VInv'
BY EndStep, SameRows DEF VInv, TypeOK

\* A request that goes on, with the tables as they are, and may lock a row.
LEMMA MoveStep ==
    ASSUME VInv, NEW r \in Requests, NEW R \in Request,
           requests' = [requests EXCEPT ![r] = R],
           UNCHANGED <<documents, versions, grants>>,
           locked' = locked \/ \E x \in Rows : Free(x) /\ locked' = [locked EXCEPT ![x] = r],
           Held(r)'
    PROVE  VInv'
<1>1. /\ locked' \in [Rows -> Requests \cup {None}]
      /\ \A q \in Requests \ {r}, x \in Rows : locked[x] = q => locked'[x] = q
  BY NoneAssumption DEF VInv, TypeOK, Free
<1>2. TypeOK'
  BY <1>1 DEF VInv, TypeOK
<1>3. ASSUME NEW q \in Requests \ {r}
      PROVE  Held(q)'
  <2>1. requests'[q] = requests[q]
    BY DEF VInv, TypeOK
  <2> QED
    BY <1>1, <2>1, HeldStays
<1> QED
  BY <1>2, <1>3, SameRows DEF VInv

-----------------------------------------------------------------------------
(* Documents and access control lists.                                     *)

\* create_document has looked for its key.
LEMMA CheckCanonicalKeyStep ==
    ASSUME VInv, NEW r \in Requests, NEW k \in Keys, CheckCanonicalKey(r, k)
    PROVE  VInv'
<1> DEFINE R == [Idle EXCEPT !.phase = "key checked", !.key = k]
<1>1. R \in Request /\ R.phase = "key checked" /\ R.key = k
  BY DEF Idle, Request, Phases
<1>2. requests' = [requests EXCEPT ![r] = R] /\ requests'[r] = R
  BY DEF CheckCanonicalKey, VInv, TypeOK
<1> HIDE DEF R
<1>3. Held(r)'
  BY <1>1, <1>2 DEF Held, VersionHeld, OpenHeld, DocumentHeld, Publishing
<1> QED
  BY <1>1, <1>2, <1>3, MoveStep DEF CheckCanonicalKey

\* create_document inserts an active document, or its key is taken.
LEMMA InsertDocumentStep ==
    ASSUME VInv, NEW r \in Requests, InsertDocument(r)
    PROVE  VInv'
<1> DEFINE d == CHOOSE e \in Documents : documents[e].state = "absent"
           k == requests[r].key
<1>1. CASE UNCHANGED documents
  BY <1>1, RefusedStep DEF InsertDocument
<1>2. CASE /\ \E e \in Documents : documents[e].state = "absent"
           /\ documents' = [documents EXCEPT ![d] = [state |-> "active", key |-> k]]
  <2>1. d \in Documents /\ documents[d].state = "absent"
    BY <1>2
  <2> HIDE DEF d
  <2>2. k \in Keys
    BY DEF InsertDocument, VInv, Held, DocumentHeld
  <2>3. documents' \in [Documents -> DocumentRow]
    BY <1>2, <2>1, <2>2 DEF VInv, TypeOK, DocumentRow
  <2>4. \A e \in Documents : documents'[e] # documents[e] => documents[e].state # "active"
    BY <1>2, <2>1 DEF VInv, TypeOK
  <2>5. End(r) /\ UNCHANGED <<versions, grants>>
    BY DEF InsertDocument
  <2> QED
    BY <2>3, <2>4, <2>5, EndStep, SameRows DEF VInv, TypeOK
<1> QED
  BY <1>1, <1>2 DEF InsertDocument

\* delete_document changes a document that no request has locked.
LEMMA SoftDeleteStep ==
    ASSUME VInv, NEW d \in Documents, SoftDelete(d)
    PROVE  VInv'
<1>1. documents' \in [Documents -> DocumentRow]
  BY DEF SoftDelete, VInv, TypeOK, DocumentRow
<1>2. ASSUME NEW q \in Requests
      PROVE  Held(q)'
  <2>1. \A e \in Documents : locked[e] = q => documents'[e] = documents[e]
    BY NoneAssumption DEF SoftDelete, Free, VInv, TypeOK
  <2> QED
    BY <2>1, HeldStays DEF SoftDelete
<1> QED
  BY <1>1, <1>2, SameRows DEF SoftDelete, VInv, TypeOK

\* grant_acl and revoke_acl lock their document while it is active.
LEMMA LockForAclStep ==
    ASSUME VInv, NEW r \in Requests, NEW phase \in {"grant", "revoke"},
           NEW d \in Documents, NEW g \in Grantees, LockForAcl(r, phase, d, g)
    PROVE  VInv'
<1> DEFINE R == [Idle EXCEPT !.phase = phase, !.document = d, !.grantee = g]
<1>1. R \in Request /\ R.phase = phase /\ R.document = d /\ R.grantee = g
  BY DEF Idle, Request, Phases
<1>2. requests' = [requests EXCEPT ![r] = R] /\ requests'[r] = R
  BY DEF LockForAcl, VInv, TypeOK
<1> HIDE DEF R
<1>3. locked' = [locked EXCEPT ![d] = r] /\ locked'[d] = r /\ Free(d)
  BY DEF LockForAcl, VInv, TypeOK, Rows
<1>4. documents'[d].state = "active"
  BY DEF LockForAcl
<1>5. Held(r)'
  BY <1>1, <1>2, <1>3, <1>4 DEF Held, VersionHeld, OpenHeld, DocumentHeld, Publishing
<1> QED
  BY <1>1, <1>2, <1>3, <1>5, MoveStep DEF LockForAcl, Rows

\* grant_acl and revoke_acl write their row.
LEMMA AclWriteStep ==
    ASSUME VInv, NEW r \in Requests, GrantAcl(r) \/ RevokeAcl(r)
    PROVE  VInv'
<1> DEFINE pair == <<requests[r].document, requests[r].grantee>>
<1>1. pair \in Documents \X Grantees
  BY DEF GrantAcl, RevokeAcl, VInv, Held, DocumentHeld
<1> HIDE DEF pair
<1>2. grants' \in {grants \cup {pair}, grants \ {pair}, grants}
  BY DEF GrantAcl, RevokeAcl, CreateGrant, RevokeGrant, pair
<1>3. grants' \in Grants
  BY <1>1, <1>2 DEF VInv, TypeOK, Grants
<1>4. End(r) /\ UNCHANGED <<documents, versions>>
  BY DEF GrantAcl, RevokeAcl
<1> QED
  BY <1>3, <1>4, EndStep, SameRows DEF VInv, TypeOK

-----------------------------------------------------------------------------
(* Versions.                                                               *)

\* create_version has seen its document, and locks nothing.
LEMMA RequireActiveDocumentStep ==
    ASSUME VInv, NEW r \in Requests, NEW d \in Documents, RequireActiveDocument(r, d)
    PROVE  VInv'
<1> DEFINE R == [Idle EXCEPT !.phase = "document checked", !.document = d]
<1>1. R \in Request /\ R.phase = "document checked" /\ R.document = d
  BY DEF Idle, Request, Phases
<1>2. requests' = [requests EXCEPT ![r] = R] /\ requests'[r] = R
  BY DEF RequireActiveDocument, VInv, TypeOK
<1> HIDE DEF R
<1>3. Held(r)'
  BY <1>1, <1>2 DEF Held, VersionHeld, OpenHeld, DocumentHeld, Publishing
<1> QED
  BY <1>1, <1>2, <1>3, MoveStep DEF RequireActiveDocument

\* create_version inserts a draft, which has no period, or is refused.
LEMMA InsertVersionStep ==
    ASSUME VInv, NEW r \in Requests, InsertVersion(r)
    PROVE  VInv'
<1> DEFINE v == CHOOSE w \in Versions : versions[w].status = "absent"
           d == requests[r].document
           row == [document |-> d, status |-> "draft", from |-> 0, to |-> 0]
<1>1. CASE UNCHANGED versions
  BY <1>1, RefusedStep DEF InsertVersion
<1>2. CASE /\ \E w \in Versions : versions[w].status = "absent"
           /\ versions' = [versions EXCEPT ![v] = row]
  <2>1. v \in Versions /\ versions[v].status = "absent"
    BY <1>2
  <2> HIDE DEF v
  <2>2. d \in Documents
    BY DEF InsertVersion, VInv, Held, DocumentHeld
  <2>3. /\ row \in VersionRow /\ row.from = 0 /\ row.to = 0 /\ row.status = "draft"
    BY <2>2 DEF VersionRow, Statuses
  <2>4. versions'[v] = row /\ \A w \in Versions \ {v} : versions'[w] = versions[w]
    BY <1>2, <2>1 DEF VInv, TypeOK
  <2>5. versions' \in [Versions -> VersionRow]
    BY <1>2, <2>1, <2>3 DEF VInv, TypeOK
  <2> HIDE DEF row
  <2>6. versions[v].from = 0
    BY <2>1 DEF VInv, RowShapes
  <2>7. RowShapes'
    BY <2>3, <2>4 DEF VInv, RowShapes
  <2>8. Exclusive'
    BY <2>3, <2>4 DEF VInv, Exclusive, PeriodsOverlap
  <2>9. EndsWhereSuccessorStarts'
    <3>1. ASSUME NEW w \in Versions, versions'[w].status = "published", versions'[w].to # 0
          PROVE  \E x \in Versions : /\ versions'[x].document = versions'[w].document
                                     /\ versions'[x].from = versions'[w].to
      <4>1. w # v /\ versions'[w] = versions[w]
        BY <2>3, <2>4, <3>1
      <4>2. PICK x \in OfDocument(versions[w].document) : versions[x].from = versions[w].to
        BY <3>1, <4>1 DEF VInv, EndsWhereSuccessorStarts
      <4>3. x \in Versions /\ versions[x].document = versions[w].document /\ x # v
        BY <2>6, <3>1, <4>1, <4>2 DEF OfDocument
      <4>4. versions'[x] = versions[x]
        BY <2>4, <4>3
      <4> QED
        BY <4>1, <4>2, <4>3, <4>4
    <3> QED
      BY <3>1 DEF EndsWhereSuccessorStarts, OfDocument
  <2>10. End(r) /\ UNCHANGED <<documents, grants>>
    BY DEF InsertVersion
  <2> QED
    BY <2>1, <2>4, <2>5, <2>6, <2>7, <2>8, <2>9, <2>10, EndStep DEF VInv, TypeOK
<1> QED
  BY <1>1, <1>2 DEF InsertVersion

\* Every transition locks a version as it should be, for a later time if it ends one.
LEMMA LockForTransitionStep ==
    ASSUME VInv, NEW r \in Requests, NEW v \in Versions, NEW at \in Times \cup {0},
           NEW phase \in {"publish", "withdraw", "archive"},
           LockForTransition(r, v, phase, at),
           phase = "publish" => versions[v].status = "draft" /\ at # 0,
           phase = "withdraw" => versions[v].status = "published" /\ at > versions[v].from,
           phase = "archive" => versions[v].status = "withdrawn"
    PROVE  VInv'
<1> DEFINE R == [Idle EXCEPT !.phase = phase, !.document = versions[v].document,
                             !.version = v, !.at = at]
<1>1. versions[v].document \in Documents \cup {None}
  BY DEF VInv, TypeOK, VersionRow
<1>2. /\ R \in Request /\ R.phase = phase /\ R.document = versions[v].document
      /\ R.version = v /\ R.at = at
  BY <1>1 DEF Idle, Request, Phases
<1>3. requests' = [requests EXCEPT ![r] = R] /\ requests'[r] = R
  BY DEF LockForTransition, VInv, TypeOK
<1> HIDE DEF R
<1>4. locked' = [locked EXCEPT ![v] = r] /\ locked'[v] = r /\ Free(v)
  BY DEF LockForTransition, VInv, TypeOK, Rows
<1>5. UNCHANGED versions
  BY DEF LockForTransition
<1>6. VersionHeld(r)'
  BY <1>2, <1>3, <1>4, <1>5 DEF VersionHeld, Publishing
<1>7. Held(r)'
  BY <1>2, <1>3, <1>6, ZenonT(30) DEF Held, OpenHeld, DocumentHeld
<1> QED
  BY <1>2, <1>3, <1>4, <1>7, MoveStep, ZenonT(30) DEF LockForTransition, Rows

\* The checks of the three transitions are what LockForTransitionStep asks.
LEMMA BeginTransitionStep ==
    ASSUME VInv, NEW r \in Requests, NEW v \in Versions, NEW at \in Times,
           BeginPublish(r, v, at) \/ BeginWithdraw(r, v, at) \/ BeginArchive(r, v)
    PROVE  VInv'
<1>1. at # 0
  BY DEF Times
<1>2. CASE BeginPublish(r, v, at)
  BY <1>1, <1>2, LockForTransitionStep DEF BeginPublish
<1>3. CASE BeginWithdraw(r, v, at)
  BY <1>3, LockForTransitionStep DEF BeginWithdraw
<1>4. CASE BeginArchive(r, v)
  BY <1>4, LockForTransitionStep DEF BeginArchive
<1> QED
  BY <1>2, <1>3, <1>4

\* A publication that goes on keeps what it has locked.
LEMMA PublicationGoesOn ==
    ASSUME VInv, NEW r \in Requests, requests[r].phase \in Publishing,
           NEW phase \in Publishing, NEW o \in Versions \cup {None},
           requests' = [requests EXCEPT ![r].phase = phase, ![r].open = o],
           UNCHANGED <<documents, versions, grants>>,
           locked' = locked \/ (o \in Versions /\ Free(o) /\ locked' = [locked EXCEPT ![o] = r]),
           phase = "open version awaited" =>
                o \in Versions /\ versions[o].from # 0 /\ versions[o].document = requests[r].document,
           phase = "open version locked" /\ o # None =>
                /\ locked'[o] = r /\ versions[o].document = requests[r].document
                /\ versions[o].from # 0 /\ versions[o].to = 0
                /\ requests[r].at > versions[o].from
    PROVE  VInv'
<1> DEFINE R == [requests[r] EXCEPT !.phase = phase, !.open = o]
<1>1. requests[r] \in Request
  BY DEF VInv, TypeOK
<1>2. /\ R \in Request /\ R.phase = phase /\ R.open = o
      /\ R.version = requests[r].version /\ R.at = requests[r].at
      /\ R.document = requests[r].document
  BY <1>1 DEF Request, Phases, Publishing
<1>3. requests' = [requests EXCEPT ![r] = R]
  BY Zenon
<1>4. requests'[r] = R
  BY <1>3 DEF VInv, TypeOK
<1> HIDE DEF R
<1>5. VersionHeld(r)
  BY DEF VInv, Held
<1>6. locked'[requests[r].version] = r
  BY <1>5, NoneAssumption DEF VersionHeld, VInv, TypeOK, Free, Rows
<1>7. VersionHeld(r)'
  BY <1>2, <1>4, <1>5, <1>6 DEF VersionHeld, Publishing
<1>8. OpenHeld(r)'
  BY <1>2, <1>4 DEF OpenHeld, Publishing
<1>9. DocumentHeld(r)'
  BY <1>2, <1>4 DEF DocumentHeld, Publishing
<1> QED
  BY <1>2, <1>3, <1>7, <1>8, <1>9, MoveStep DEF Held, Rows

\* The open version that a publication finds has been published.
LEMMA FindOpenStep ==
    ASSUME VInv, NEW r \in Requests, FindOpen(r)
    PROVE  VInv'
<1> DEFINE open == FindOpenEffectiveVersion(requests[r].document)
           o == IF open = {} THEN None ELSE CHOOSE x \in open : TRUE
           phase == IF open = {} THEN "open version locked" ELSE "open version awaited"
<1>1. requests' = [requests EXCEPT ![r].phase = phase, ![r].open = o]
  BY Zenon DEF FindOpen
<1>2. CASE open = {}
  BY <1>1, <1>2, NoneAssumption, PublicationGoesOn DEF FindOpen, Publishing
<1>3. CASE open # {}
  <2>1. o \in open /\ phase = "open version awaited"
    BY <1>3
  <2>2. o \in Versions /\ versions[o].from # 0 /\ versions[o].document = requests[r].document
    BY <2>1 DEF FindOpenEffectiveVersion, OfDocument
  <2> HIDE DEF o, open
  <2> QED
    BY <1>1, <2>1, <2>2, PublicationGoesOn DEF FindOpen, Publishing
<1> QED
  BY <1>2, <1>3

\* The open version that a publication locks is open still.
LEMMA LockOpenStep ==
    ASSUME VInv, NEW r \in Requests, LockOpen(r)
    PROVE  VInv'
<1> DEFINE o == requests[r].open
<1>1. /\ o \in Versions /\ versions[o].from # 0 /\ o # None
      /\ versions[o].document = requests[r].document
  BY NoneAssumption DEF LockOpen, VInv, Held, OpenHeld
<1>2. requests[r].phase \in Publishing /\ Free(o) /\ UNCHANGED <<documents, versions, grants>>
  BY DEF LockOpen, Publishing
<1>3. CASE End(r)
  BY <1>2, <1>3, RefusedStep
<1>4. CASE /\ versions[o].to = 0 /\ requests[r].at > versions[o].from
           /\ requests' = [requests EXCEPT ![r].phase = "open version locked"]
           /\ locked' = [locked EXCEPT ![o] = r]
  <2>1. requests' = [requests EXCEPT ![r].phase = "open version locked", ![r].open = o]
    BY <1>4 DEF VInv, TypeOK, Request
  <2>2. locked'[o] = r
    BY <1>1, <1>4 DEF VInv, TypeOK, Rows
  <2> HIDE DEF o
  <2> QED
    BY <1>1, <1>2, <1>4, <2>1, <2>2, PublicationGoesOn DEF Publishing
<1>5. CASE /\ requests' = [requests EXCEPT ![r].phase = "open version locked", ![r].open = None]
           /\ UNCHANGED locked
  BY <1>2, <1>5, PublicationGoesOn DEF Publishing
<1> QED
  BY <1>3, <1>4, <1>5 DEF LockOpen

-----------------------------------------------------------------------------
(* The writes of the transitions.                                          *)

\* What a publication writes: the open version ends where the new one starts.
LEMMA PublishEffect ==
    ASSUME VInv, NEW r \in Requests, Publish(r), ~ UNCHANGED versions
    PROVE  LET v == requests[r].version
               o == requests[r].open
               at == requests[r].at
           IN  /\ v \in Versions /\ versions[v].status = "draft"
               /\ locked[v] = r
               /\ at \in Times
               /\ o # None => /\ o \in Versions \ {v} /\ locked[o] = r
                              /\ versions[o].document = versions[v].document
                              /\ versions[o].from # 0 /\ versions[o].to = 0
                              /\ at > versions[o].from
                              /\ versions'[o] = CloseEffectivePeriod(versions[o], at)
               /\ versions'[v] = SetPublished(versions[v], at)
               /\ \A w \in Versions \ {v, o} : versions'[w] = versions[w]
               /\ versions' = [w \in Versions |-> versions'[w]]
               /\ ExclusionHolds(versions', v)
<1> DEFINE v == requests[r].version
           o == requests[r].open
           at == requests[r].at
           closed == IF o = None THEN versions
                     ELSE [versions EXCEPT ![o] = CloseEffectivePeriod(@, at)]
           rows == [closed EXCEPT ![v] = SetPublished(@, at)]
<1>1. /\ v \in Versions /\ versions[v].status = "draft"
      /\ locked[v] = r
      /\ at # 0 /\ requests[r].document = versions[v].document
  BY DEF Publish, VInv, Held, VersionHeld, Publishing
<1>2. at \in Times
  BY <1>1 DEF VInv, TypeOK, Request
<1>3. o # None => /\ o \in Versions /\ locked[o] = r
                  /\ versions[o].document = requests[r].document
                  /\ versions[o].from # 0 /\ versions[o].to = 0 /\ at > versions[o].from
  BY DEF Publish, VInv, Held, OpenHeld
<1>4. o # v
  BY <1>1, <1>3, NoneAssumption DEF VInv, RowShapes
<1>5. versions' = rows /\ ExclusionHolds(rows, v)
  BY DEF Publish
<1>6. DOMAIN versions = Versions
  BY DEF VInv, TypeOK
<1> HIDE DEF v, o, at
<1>7. /\ closed[v] = versions[v]
      /\ DOMAIN closed = Versions
      /\ \A w \in Versions \ {o} : closed[w] = versions[w]
      /\ o # None => closed[o] = CloseEffectivePeriod(versions[o], at)
  BY <1>1, <1>3, <1>4, <1>6
<1> HIDE DEF closed
<1>8. /\ versions'[v] = SetPublished(versions[v], at)
      /\ \A w \in Versions \ {v} : versions'[w] = closed[w]
      /\ versions' = [w \in Versions |-> versions'[w]]
  BY <1>1, <1>5, <1>7
<1> QED
  BY <1>1, <1>2, <1>3, <1>4, <1>5, <1>7, <1>8 DEF v, o, at

\* The rows that CloseEffectivePeriod and SetPublished return.
LEMMA PublishRows ==
    ASSUME NEW row \in VersionRow, NEW at \in Times
    PROVE  /\ CloseEffectivePeriod(row, at) \in VersionRow
           /\ CloseEffectivePeriod(row, at).from = row.from
           /\ CloseEffectivePeriod(row, at).to = at
           /\ CloseEffectivePeriod(row, at).status = row.status
           /\ CloseEffectivePeriod(row, at).document = row.document
           /\ SetPublished(row, at) \in VersionRow
           /\ SetPublished(row, at).from = at
           /\ SetPublished(row, at).to = row.to
           /\ SetPublished(row, at).status = "published"
           /\ SetPublished(row, at).document = row.document
BY DEF CloseEffectivePeriod, SetPublished, VersionRow, Statuses

\* The row that SetWithdrawn and SetArchived return.
LEMMA EndRows ==
    ASSUME NEW row \in VersionRow, NEW at \in Times
    PROVE  /\ SetWithdrawn(row, at) \in VersionRow
           /\ SetWithdrawn(row, at).from = row.from
           /\ SetWithdrawn(row, at).to = at
           /\ SetWithdrawn(row, at).status = "withdrawn"
           /\ SetWithdrawn(row, at).document = row.document
           /\ SetArchived(row) \in VersionRow
           /\ SetArchived(row).from = row.from
           /\ SetArchived(row).to = row.to
           /\ SetArchived(row).status = "archived"
           /\ SetArchived(row).document = row.document
BY DEF SetWithdrawn, SetArchived, VersionRow, Statuses

\* The exclusion constraint covers the new period; the one that was closed only
\* got shorter, and ends where the new one starts.
LEMMA PublishStep ==
    ASSUME VInv, NEW r \in Requests, Publish(r)
    PROVE  VInv'
<1> DEFINE v == requests[r].version
           o == requests[r].open
           at == requests[r].at
<1>1. End(r) /\ UNCHANGED <<documents, grants>>
  BY DEF Publish
<1>2. CASE UNCHANGED versions
  BY <1>1, <1>2, RefusedStep
<1>3. CASE ~ UNCHANGED versions
  <2>1. /\ v \in Versions /\ versions[v].status = "draft" /\ locked[v] = r /\ at \in Times
        /\ o # None => /\ o \in Versions \ {v} /\ locked[o] = r
                       /\ versions[o].document = versions[v].document
                       /\ versions[o].from # 0 /\ versions[o].to = 0 /\ at > versions[o].from
                       /\ versions'[o] = CloseEffectivePeriod(versions[o], at)
        /\ versions'[v] = SetPublished(versions[v], at)
        /\ \A w \in Versions \ {v, o} : versions'[w] = versions[w]
        /\ versions' = [w \in Versions |-> versions'[w]]
        /\ ExclusionHolds(versions', v)
    BY <1>3, PublishEffect
  <2> HIDE DEF v, o, at
  <2>2. \A w \in Versions : versions[w] \in VersionRow
    BY DEF VInv, TypeOK
  <2>3. versions[v].from = 0 /\ versions[v].to = 0
    BY <2>1 DEF VInv, RowShapes
  <2>4. /\ versions'[v] \in VersionRow /\ versions'[v].status = "published"
        /\ versions'[v].from = at /\ versions'[v].to = 0
        /\ versions'[v].document = versions[v].document
    BY <2>1, <2>2, <2>3, PublishRows
  <2>5. o # None => /\ versions'[o] \in VersionRow /\ versions'[o].status = versions[o].status
                    /\ versions'[o].from = versions[o].from /\ versions'[o].to = at
                    /\ versions'[o].document = versions[o].document
    BY <2>1, <2>2, PublishRows
  <2>6. versions' \in [Versions -> VersionRow]
    <3>1. \A w \in Versions : versions'[w] \in VersionRow
      BY <2>1, <2>2, <2>4, <2>5, NoneAssumption
    <3> QED
      BY <2>1, <3>1
  <2>7. \A w \in Versions \ {v} :
            /\ versions'[w].document = versions[w].document
            /\ versions'[w].status = versions[w].status
            /\ versions'[w].from = versions[w].from
            /\ versions'[w].to = versions[w].to
                \/ (versions[w].to = 0 /\ versions[w].from # 0
                        /\ at > versions[w].from /\ versions'[w].to = at)
    <3>1. ASSUME NEW w \in Versions \ {v}, w = o
          PROVE  /\ versions'[w].document = versions[w].document
                 /\ versions'[w].status = versions[w].status
                 /\ versions'[w].from = versions[w].from
                 /\ versions[w].to = 0 /\ versions[w].from # 0
                 /\ at > versions[w].from /\ versions'[w].to = at
      BY <2>1, <2>5, <3>1, NoneAssumption
    <3>2. ASSUME NEW w \in Versions \ {v}, w # o
          PROVE  versions'[w] = versions[w]
      BY <2>1, <3>2
    <3> QED
      BY <3>1, <3>2
  <2>8. RowShapes'
    <3>1. ASSUME NEW w \in Versions \ {v}
          PROVE  /\ versions'[w].status \in {"absent", "draft"} <=> versions'[w].from = 0
                 /\ versions'[w].to # 0 =>
                        versions'[w].from # 0 /\ versions'[w].from < versions'[w].to
      BY <2>7, <3>1 DEF VInv, RowShapes
    <3>2. at # 0
      BY <2>1 DEF Times
    <3> QED
      BY <2>4, <3>1, <3>2 DEF RowShapes
  <2>9. Exclusive'
    <3>1. ASSUME NEW w \in Versions, NEW x \in Versions, w # x, w # v, x # v,
                 versions'[w].document = versions'[x].document,
                 PeriodsOverlap(versions'[w], versions'[x])
          PROVE  FALSE
      <4>1. versions[w].document = versions[x].document
        BY <2>7, <3>1
      <4>2. PeriodsOverlap(versions[w], versions[x])
        <5> DEFINE a == versions[w]
                   b == versions[x]
        <5>1. a.from \in Nat /\ a.to \in Nat /\ b.from \in Nat /\ b.to \in Nat /\ at \in Nat
          BY <2>1, <2>2 DEF VersionRow, Times
        <5>2. /\ versions'[w].from = a.from /\ (versions'[w].to = a.to \/ a.to = 0)
              /\ versions'[x].from = b.from /\ (versions'[x].to = b.to \/ b.to = 0)
          BY <2>7, <3>1
        <5>3. at # 0
          BY <2>1 DEF Times
        <5> QED
          BY <2>7, <3>1, <5>1, <5>2, <5>3 DEF PeriodsOverlap
      <4> QED
        BY <3>1, <4>1, <4>2 DEF VInv, Exclusive
    <3>2. \A w \in Versions \ {v} : versions'[w].document = versions'[v].document =>
              /\ ~ PeriodsOverlap(versions'[w], versions'[v])
              /\ ~ PeriodsOverlap(versions'[v], versions'[w])
      BY <2>1 DEF ExclusionHolds, PeriodsOverlap
    <3> QED
      BY <3>1, <3>2 DEF Exclusive
  <2>10. EndsWhereSuccessorStarts'
    <3>1. ASSUME NEW w \in Versions, versions'[w].status = "published", versions'[w].to # 0
          PROVE  \E x \in Versions : /\ versions'[x].document = versions'[w].document
                                     /\ versions'[x].from = versions'[w].to
      <4>1. CASE w = o
        BY <2>1, <2>4, <2>5, <4>1, NoneAssumption
      <4>2. CASE w # o
        <5>1. versions'[w] = versions[w]
          BY <2>1, <2>4, <3>1, <4>2
        <5>2. PICK x \in OfDocument(versions[w].document) : versions[x].from = versions[w].to
          BY <3>1, <5>1 DEF VInv, EndsWhereSuccessorStarts
        <5>3. x \in Versions /\ versions[x].document = versions[w].document /\ x # v
          BY <2>3, <3>1, <5>1, <5>2 DEF OfDocument
        <5>4. versions'[x].document = versions[x].document /\ versions'[x].from = versions[x].from
          BY <2>7, <5>3
        <5> QED
          BY <5>1, <5>2, <5>3, <5>4
      <4> QED
        BY <4>1, <4>2
    <3> QED
      BY <3>1 DEF EndsWhereSuccessorStarts, OfDocument
  <2>11. \A w \in Versions : versions[w].from # 0 =>
              versions'[w].from # 0 /\ versions'[w].document = versions[w].document
    BY <2>3, <2>7
  <2>12. \A w \in Versions : versions'[w] # versions[w] => locked[w] = r
    BY <2>1, NoneAssumption
  <2> QED
    BY <1>1, <2>6, <2>7, <2>8, <2>9, <2>10, <2>11, <2>12, EndStep DEF VInv, TypeOK
<1> QED
  BY <1>2, <1>3

\* A withdrawal that the exclusion constraint lets through.
LEMMA WithdrawEffect ==
    ASSUME VInv, NEW r \in Requests, Withdraw(r), ~ UNCHANGED versions
    PROVE  LET v == requests[r].version
               at == requests[r].at
           IN  /\ v \in Versions /\ versions[v].status = "published"
               /\ locked[v] = r
               /\ at \in Times /\ at > versions[v].from
               /\ versions' = [versions EXCEPT ![v] = SetWithdrawn(versions[v], at)]
               /\ versions'[v] = SetWithdrawn(versions[v], at)
               /\ ExclusionHolds(versions', v)
<1> DEFINE v == requests[r].version
           at == requests[r].at
<1>1. /\ v \in Versions /\ versions[v].status = "published"
      /\ locked[v] = r /\ at > versions[v].from
  BY DEF Withdraw, VInv, Held, VersionHeld
<1>2. versions[v].from \in Nat /\ at \in Times \cup {0}
  BY <1>1 DEF VInv, TypeOK, VersionRow, Request, Times
<1>3. versions' = [versions EXCEPT ![v] = SetWithdrawn(versions[v], at)]
  BY DEF Withdraw
<1>4. versions'[v] = SetWithdrawn(versions[v], at)
  BY <1>1, <1>3 DEF VInv, TypeOK
<1>5. ExclusionHolds(versions', v)
  BY DEF Withdraw
<1> QED
  BY <1>1, <1>2, <1>3, <1>4, <1>5 DEF Times

\* A row that is rewritten with its document and start keeps the successors of
\* the others.
LEMMA SuccessorsStay ==
    ASSUME VInv, NEW v \in Versions, DOMAIN versions' = Versions,
           \A w \in Versions \ {v} : versions'[w] = versions[w],
           versions'[v].document = versions[v].document,
           versions'[v].from = versions[v].from,
           versions'[v].status # "published"
    PROVE  EndsWhereSuccessorStarts'
<1>1. ASSUME NEW w \in Versions, versions'[w].status = "published", versions'[w].to # 0
      PROVE  \E x \in Versions : /\ versions'[x].document = versions'[w].document
                                 /\ versions'[x].from = versions'[w].to
  <2>1. versions'[w] = versions[w]
    BY <1>1
  <2>2. PICK x \in Versions : /\ versions[x].document = versions[w].document
                              /\ versions[x].from = versions[w].to
    BY <1>1, <2>1 DEF VInv, EndsWhereSuccessorStarts, OfDocument
  <2>3. versions'[x].document = versions[x].document /\ versions'[x].from = versions[x].from
    OBVIOUS
  <2> QED
    BY <2>1, <2>2, <2>3
<1> QED
  BY <1>1 DEF EndsWhereSuccessorStarts, OfDocument

\* The exclusion constraint covers the period with its new end.
LEMMA WithdrawStep ==
    ASSUME VInv, NEW r \in Requests, Withdraw(r)
    PROVE  VInv'
<1> DEFINE v == requests[r].version
           at == requests[r].at
<1>1. End(r) /\ UNCHANGED <<documents, grants>>
  BY DEF Withdraw
<1>2. CASE UNCHANGED versions
  BY <1>1, <1>2, RefusedStep
<1>3. CASE ~ UNCHANGED versions
  <2>1. /\ v \in Versions /\ versions[v].status = "published" /\ locked[v] = r
        /\ at \in Times /\ at > versions[v].from
        /\ versions' = [versions EXCEPT ![v] = SetWithdrawn(versions[v], at)]
        /\ versions'[v] = SetWithdrawn(versions[v], at)
        /\ ExclusionHolds(versions', v)
    BY <1>3, WithdrawEffect
  <2> HIDE DEF v, at
  <2>2. \A w \in Versions : versions[w] \in VersionRow
    BY DEF VInv, TypeOK
  <2>3. /\ versions'[v] \in VersionRow /\ versions'[v].status = "withdrawn"
        /\ versions'[v].from = versions[v].from /\ versions'[v].to = at
        /\ versions'[v].document = versions[v].document
    BY <2>1, <2>2, EndRows
  <2>4. /\ \A w \in Versions \ {v} : versions'[w] = versions[w]
        /\ versions' \in [Versions -> VersionRow]
    BY <2>1, <2>3 DEF VInv, TypeOK
  <2>5. versions[v].from # 0
    BY <2>1 DEF VInv, RowShapes
  <2>6. RowShapes'
    BY <2>1, <2>3, <2>4, <2>5 DEF VInv, RowShapes
  <2>7. Exclusive'
    <3>1. \A w \in Versions \ {v} : versions'[w].document = versions'[v].document =>
              /\ ~ PeriodsOverlap(versions'[w], versions'[v])
              /\ ~ PeriodsOverlap(versions'[v], versions'[w])
      BY <2>1 DEF ExclusionHolds, PeriodsOverlap
    <3> QED
      BY <2>4, <3>1 DEF VInv, Exclusive
  <2>8. EndsWhereSuccessorStarts'
    BY <2>1, <2>3, <2>4, SuccessorsStay
  <2> QED
    BY <1>1, <2>1, <2>3, <2>4, <2>6, <2>7, <2>8, EndStep DEF VInv, TypeOK
<1> QED
  BY <1>2, <1>3

\* An archive changes a status and no period.
LEMMA ArchiveStep ==
    ASSUME VInv, NEW r \in Requests, Archive(r)
    PROVE  VInv'
<1> DEFINE v == requests[r].version
<1>1. End(r) /\ UNCHANGED <<documents, grants>>
  BY DEF Archive
<1>2. v \in Versions /\ versions[v].status = "withdrawn" /\ locked[v] = r
  BY DEF Archive, VInv, Held, VersionHeld
<1>3. versions' = [versions EXCEPT ![v] = SetArchived(versions[v])]
  BY DEF Archive
<1> HIDE DEF v
<1>4. versions[v] \in VersionRow
  BY <1>2 DEF VInv, TypeOK
<1>5. versions'[v] = SetArchived(versions[v])
  BY <1>2, <1>3 DEF VInv, TypeOK
<1>6. /\ SetArchived(versions[v]) \in VersionRow
      /\ versions'[v].status = "archived" /\ versions'[v].to = versions[v].to
      /\ versions'[v].from = versions[v].from
      /\ versions'[v].document = versions[v].document
  BY <1>4, <1>5 DEF SetArchived, VersionRow, Statuses
<1>7. /\ \A w \in Versions \ {v} : versions'[w] = versions[w]
      /\ versions' \in [Versions -> VersionRow]
  BY <1>2, <1>3, <1>6 DEF VInv, TypeOK
<1>8. RowShapes'
  BY <1>2, <1>6, <1>7 DEF VInv, RowShapes
<1>9. Exclusive'
  BY <1>6, <1>7 DEF VInv, Exclusive, PeriodsOverlap
<1>10. EndsWhereSuccessorStarts'
  BY <1>2, <1>6, <1>7, SuccessorsStay
<1> QED
  BY <1>1, <1>2, <1>6, <1>7, <1>8, <1>9, <1>10, EndStep DEF VInv, TypeOK

-----------------------------------------------------------------------------
(* The invariant.                                                          *)

\* It holds of empty tables and idle requests.
LEMMA VersionsInit == Init => VInv
<1> SUFFICES ASSUME Init PROVE VInv
  OBVIOUS
<1>1. TypeOK
  BY SMTT(30) DEF Init, TypeOK, DocumentRow, VersionRow, Statuses, Grants, Idle, Request, Phases
<1>2. RowShapes /\ Exclusive /\ EndsWhereSuccessorStarts
  BY DEF Init, RowShapes, Exclusive, PeriodsOverlap, EndsWhereSuccessorStarts
<1>3. \A r \in Requests : Held(r)
  BY DEF Init, Idle, Held, VersionHeld, OpenHeld, DocumentHeld, Publishing
<1> QED
  BY <1>1, <1>2, <1>3 DEF VInv

\* It holds after a step that changes nothing.
LEMMA VersionsStutter == ASSUME VInv, UNCHANGED dvars PROVE VInv'
<1>1. \A r \in Requests : Held(r)'
  BY ZenonT(30) DEF dvars, VInv, Held, VersionHeld, OpenHeld, DocumentHeld
<1> QED
  BY <1>1, SameRows DEF dvars, VInv, TypeOK

\* Whatever a request does of its own keeps it.
LEMMA ContinueStep ==
    ASSUME VInv, NEW r \in Requests, Continue(r)
    PROVE  VInv'
BY InsertDocumentStep, InsertVersionStep, FindOpenStep, LockOpenStep, PublishStep,
   WithdrawStep, ArchiveStep, AclWriteStep DEF Continue

\* So does the beginning of a request.
LEMMA StartStep ==
    ASSUME VInv, NEW r \in Requests, Start(r)
    PROVE  VInv'
<1>1. CASE DocumentCall(r)
  BY <1>1, CheckCanonicalKeyStep DEF DocumentCall
<1>2. CASE AclCall(r)
  BY <1>2, LockForAclStep DEF AclCall
<1>3. CASE \E d \in Documents : RequireActiveDocument(r, d)
  BY <1>3, RequireActiveDocumentStep
<1>4. CASE \E v \in Versions, at \in Times :
                BeginPublish(r, v, at) \/ BeginWithdraw(r, v, at)
  BY <1>4, BeginTransitionStep
<1>5. CASE \E v \in Versions : BeginArchive(r, v)
  BY <1>5, LockForTransitionStep DEF BeginArchive
<1> QED
  BY <1>1, <1>2, <1>3, <1>4, <1>5 DEF Start, VersionCall

\* Every step keeps the invariant.
LEMMA VersionsInvariance ==
    ASSUME VInv, [Next]_dvars
    PROVE  VInv'
<1>1. ASSUME NEW r \in Requests, Abort(r)
      PROVE  VInv'
  BY <1>1, RefusedStep DEF Abort
<1> QED
  BY <1>1, StartStep, ContinueStep, SoftDeleteStep, VersionsStutter DEF Next

\* The inductive invariant holds in every behaviour.
THEOREM VersionsInvariant == Spec => []VInv
BY VersionsInit, VersionsInvariance, PTL DEF Spec

-----------------------------------------------------------------------------
(* The properties.                                                         *)

\* Rows, locks and requests keep their types.
THEOREM VersionTypes == Spec => []TypeOK
BY VersionsInvariant, PTL DEF VInv

\* find_effective_at finds one version or none, for any number of versions and
\* concurrent transitions.
THEOREM OneEffectiveVersion == Spec => []EffectiveAtMostOne
<1>1. VInv => EffectiveAtMostOne
  <2> SUFFICES ASSUME VInv, NEW d \in Documents, NEW t \in Times
               PROVE  Cardinality(FindEffectiveAt(d, t)) <= 1
    BY DEF EffectiveAtMostOne
  <2>1. ASSUME NEW v \in FindEffectiveAt(d, t), NEW w \in FindEffectiveAt(d, t)
        PROVE  v = w
    <3>1. /\ v \in Versions /\ w \in Versions /\ versions[v].document = versions[w].document
          /\ Covers(versions[v], t) /\ Covers(versions[w], t)
      BY DEF FindEffectiveAt, OfDocument
    <3>2. /\ versions[v].from \in Nat /\ versions[v].to \in Nat
          /\ versions[w].from \in Nat /\ versions[w].to \in Nat /\ t \in Nat
      BY <3>1 DEF VInv, TypeOK, VersionRow, Times
    <3>3. PeriodsOverlap(versions[v], versions[w])
      BY <3>1, <3>2 DEF Covers, PeriodsOverlap
    <3> QED
      BY <3>1, <3>3 DEF VInv, Exclusive
  <2>2. CASE FindEffectiveAt(d, t) = {}
    BY <2>2, FS_EmptySet
  <2>3. CASE FindEffectiveAt(d, t) # {}
    <3>1. PICK v : v \in FindEffectiveAt(d, t)
      BY <2>3
    <3>2. FindEffectiveAt(d, t) = {v}
      BY <2>1, <3>1
    <3>3. Cardinality({v}) = 1
      BY FS_Singleton, Zenon
    <3> QED
      BY <3>2, <3>3
  <2> QED
    BY <2>2, <2>3
<1> QED
  BY <1>1, VersionsInvariant, PTL

\* A published version that has ended has its successor there.
THEOREM SuccessorsJoin == Spec => []EndsWhereSuccessorStarts
BY VersionsInvariant, PTL DEF VInv

\* What a step may do to a version.
LEMMA VersionSteps ==
    ASSUME VInv, [Next]_dvars, ~ UNCHANGED versions
    PROVE  \E r \in Requests :
                InsertVersion(r) \/ Publish(r) \/ Withdraw(r) \/ Archive(r)
BY DEF Next, dvars, Start, Continue, Abort, SoftDelete, DocumentCall, AclCall, VersionCall,
       CheckCanonicalKey, LockForAcl, RequireActiveDocument, BeginPublish, BeginWithdraw,
       BeginArchive, LockForTransition, InsertDocument, FindOpen, LockOpen, GrantAcl, RevokeAcl

\* What an insert writes: a version that was not there.
LEMMA InsertEffect ==
    ASSUME VInv, NEW r \in Requests, InsertVersion(r), NEW v \in Versions,
           versions'[v] # versions[v]
    PROVE  versions[v].status = "absent" /\ versions[v].to = 0 /\ versions'[v].status = "draft"
<1> DEFINE w == CHOOSE x \in Versions : versions[x].status = "absent"
<1>1. /\ \E x \in Versions : versions[x].status = "absent"
      /\ versions' = [versions EXCEPT ![w] = [document |-> requests[r].document,
                            status |-> "draft", from |-> 0, to |-> 0]]
  BY DEF InsertVersion
<1>2. w \in Versions /\ versions[w].status = "absent"
  BY <1>1
<1> HIDE DEF w
<1>3. v = w /\ versions'[v].status = "draft"
  BY <1>1, <1>2 DEF VInv, TypeOK
<1> QED
  BY <1>2, <1>3 DEF VInv, RowShapes

\* What an archive writes: the status of a withdrawn version.
LEMMA ArchiveEffect ==
    ASSUME VInv, NEW r \in Requests, Archive(r), NEW v \in Versions,
           versions'[v] # versions[v]
    PROVE  /\ versions[v].status = "withdrawn" /\ versions'[v].status = "archived"
           /\ versions'[v].from = versions[v].from /\ versions'[v].to = versions[v].to
<1>1. versions[requests[r].version].status = "withdrawn" /\ requests[r].version \in Versions
  BY DEF Archive, VInv, Held, VersionHeld
<1>2. versions' = [versions EXCEPT ![requests[r].version] = SetArchived(@)]
  BY DEF Archive
<1>3. v = requests[r].version /\ versions'[v] = SetArchived(versions[v])
  BY <1>1, <1>2 DEF VInv, TypeOK
<1>4. versions[v] \in VersionRow
  BY DEF VInv, TypeOK
<1> QED
  BY <1>1, <1>3, <1>4 DEF SetArchived, VersionRow

\* An ended period gets shorter at most, and that of a withdrawn version stays.
\* A withdrawal cannot move an end into the successor that starts there.
THEOREM EndedPeriods == Spec => EndedPeriodsStay
<1>1. ASSUME VInv, [Next]_dvars, NEW v \in Versions, versions[v].to # 0
      PROVE  /\ versions'[v].from = versions[v].from
             /\ versions'[v].to \in 1 .. versions[v].to
             /\ versions[v].status # "published" => versions'[v].to = versions[v].to
  <2>1. versions[v] \in VersionRow /\ versions[v].from # 0 /\ versions[v].from < versions[v].to
    BY <1>1 DEF VInv, TypeOK, RowShapes
  <2>2. versions[v].from \in Nat /\ versions[v].to \in Nat
    BY <2>1 DEF VersionRow, Times
  <2>3. CASE versions'[v] = versions[v]
    BY <1>1, <2>2, <2>3
  <2>4. CASE versions'[v] # versions[v]
    <3>1. PICK r \in Requests : InsertVersion(r) \/ Publish(r) \/ Withdraw(r) \/ Archive(r)
      BY <1>1, <2>4, VersionSteps
    <3>2. CASE InsertVersion(r)
      BY <1>1, <2>4, <3>2, InsertEffect
    <3>3. CASE Publish(r)
      <4>1. versions[requests[r].version].status = "draft"
        BY <1>1, <2>4, <3>3, PublishEffect
      <4>2. v # requests[r].version
        BY <1>1, <2>1, <4>1 DEF VInv, RowShapes
      <4>3. v # requests[r].open
        BY <1>1, <2>4, <3>3, NoneAssumption, PublishEffect
      <4> QED
        BY <1>1, <2>4, <3>3, <4>2, <4>3, PublishEffect
    <3>4. CASE Withdraw(r)
      <4> DEFINE at == requests[r].at
      <4>1. v = requests[r].version
        BY <1>1, <2>4, <3>4, WithdrawEffect DEF VInv, TypeOK
      <4>2. /\ versions[v].status = "published"
            /\ at \in Times /\ at > versions[v].from
            /\ versions'[v] = SetWithdrawn(versions[v], at)
            /\ ExclusionHolds(versions', v)
            /\ \A w \in Versions \ {v} : versions'[w] = versions[w]
        BY <1>1, <2>4, <3>4, <4>1, WithdrawEffect DEF VInv, TypeOK
      <4> HIDE DEF at
      <4>3. /\ versions'[v].from = versions[v].from /\ versions'[v].to = at
            /\ versions'[v].document = versions[v].document
        BY <2>1, <4>2, EndRows
      <4>4. PICK w \in Versions : /\ versions[w].document = versions[v].document
                                  /\ versions[w].from = versions[v].to
        BY <1>1, <4>2 DEF VInv, EndsWhereSuccessorStarts, OfDocument
      <4>5. w # v /\ versions'[w] = versions[w]
        BY <2>1, <2>2, <4>2, <4>4
      <4>6. versions[w].to \in Nat /\ (versions[w].to # 0 => versions[w].from < versions[w].to)
        BY <1>1 DEF VInv, TypeOK, RowShapes, VersionRow, Times
      <4>7. ~ PeriodsOverlap(versions'[w], versions'[v])
        BY <4>2, <4>3, <4>4, <4>5 DEF ExclusionHolds
      <4>8. at \in Nat /\ at # 0
        BY <4>2 DEF Times
      <4>9. at <= versions[v].to
        BY <1>1, <2>1, <2>2, <4>3, <4>4, <4>5, <4>6, <4>7, <4>8 DEF PeriodsOverlap
      <4> QED
        BY <2>2, <4>2, <4>3, <4>8, <4>9
    <3>5. CASE Archive(r)
      BY <1>1, <2>2, <2>4, <3>5, ArchiveEffect
    <3> QED
      BY <3>1, <3>2, <3>3, <3>4, <3>5
  <2> QED
    BY <2>3, <2>4
<1>2. VInv /\ [Next]_dvars =>
        [\A v \in Versions : versions[v].to # 0 =>
            /\ versions'[v].from = versions[v].from
            /\ versions'[v].to \in 1 .. versions[v].to
            /\ versions[v].status # "published" => versions'[v].to = versions[v].to]_dvars
  BY <1>1
<1> QED
  BY <1>2, VersionsInvariant, PTL DEF Spec, EndedPeriodsStay

\* Statuses go forward one at a time, because the checked row stays locked.
THEOREM StatusSteps == Spec => StatusStepsForward
<1>1. ASSUME VInv, [Next]_dvars, NEW v \in Versions,
             versions'[v].status # versions[v].status
      PROVE  Rank[versions'[v].status] = Rank[versions[v].status] + 1
  <2>1. PICK r \in Requests : InsertVersion(r) \/ Publish(r) \/ Withdraw(r) \/ Archive(r)
    BY <1>1, VersionSteps
  <2>2. versions[v] \in VersionRow
    BY <1>1 DEF VInv, TypeOK
  <2>3. CASE InsertVersion(r)
    BY <1>1, <2>3, InsertEffect DEF Rank, Statuses
  <2>4. CASE Publish(r)
    <3>1. v = requests[r].version
      <4>1. v # requests[r].open
        BY <1>1, <2>2, <2>4, NoneAssumption, PublishEffect, PublishRows
      <4> QED
        BY <1>1, <2>4, <4>1, PublishEffect
    <3>2. versions[v].status = "draft" /\ versions'[v].status = "published"
      BY <1>1, <2>2, <2>4, <3>1, PublishEffect, PublishRows
    <3> QED
      BY <3>2 DEF Rank, Statuses
  <2>5. CASE Withdraw(r)
    <3>1. v = requests[r].version
      BY <1>1, <2>5, WithdrawEffect DEF VInv, TypeOK
    <3>2. /\ versions[v].status = "published" /\ requests[r].at \in Times
          /\ versions'[v] = SetWithdrawn(versions[v], requests[r].at)
      BY <1>1, <2>5, <3>1, WithdrawEffect
    <3>3. versions'[v].status = "withdrawn"
      BY <2>2, <3>2, EndRows
    <3> QED
      BY <3>2, <3>3 DEF Rank, Statuses
  <2>6. CASE Archive(r)
    BY <1>1, <2>6, ArchiveEffect DEF Rank, Statuses
  <2> QED
    BY <2>1, <2>3, <2>4, <2>5, <2>6
<1>2. VInv /\ [Next]_dvars =>
        [\A v \in Versions : versions'[v].status # versions[v].status =>
            Rank[versions'[v].status] = Rank[versions[v].status] + 1]_dvars
  BY <1>1
<1> QED
  BY <1>2, VersionsInvariant, PTL DEF Spec, StatusStepsForward

\* Access control lists change while their document is active only.
THEOREM AclChangesOfActiveDocuments == Spec => AclOfActiveDocuments
<1>1. ASSUME VInv, [Next]_dvars, NEW d \in Documents, NEW g \in Grantees,
             (<<d, g>> \in grants) # (<<d, g>> \in grants')
      PROVE  documents[d].state = "active"
  <2>1. PICK r \in Requests : GrantAcl(r) \/ RevokeAcl(r)
    BY <1>1 DEF Next, dvars, Start, Continue, Abort, SoftDelete, DocumentCall, AclCall,
         VersionCall, CheckCanonicalKey, LockForAcl, RequireActiveDocument, BeginPublish,
         BeginWithdraw, BeginArchive, LockForTransition, InsertDocument, InsertVersion,
         FindOpen, LockOpen, Publish, Withdraw, Archive
  <2>2. d = requests[r].document
    BY <1>1, <2>1 DEF GrantAcl, RevokeAcl, CreateGrant, RevokeGrant
  <2> QED
    BY <1>1, <2>1, <2>2 DEF GrantAcl, RevokeAcl, VInv, Held, DocumentHeld
<1>2. VInv /\ [Next]_dvars =>
        [\A d \in Documents, g \in Grantees :
            (<<d, g>> \in grants) # (<<d, g>> \in grants')
                => documents[d].state = "active"]_dvars
  BY <1>1
<1> QED
  BY <1>2, VersionsInvariant, PTL DEF Spec, AclOfActiveDocuments

-----------------------------------------------------------------------------
(* The uploads: the inductive invariant, rows and locks.                   *)

\* A version belongs to a document.
VersionsHaveDocuments ==
    \A v \in Versions : versions[v].status # "absent" => versions[v].document \in Documents

\* The stages of a call that names a version and means to add an artifact to it.
Targeted == {"lock document", "lock version", "put", "add"}

\* What a call may rely on about its document and its version: what it has seen of
\* rows that stay, and what it has locked.
TargetHeld(c) ==
    LET q == calls[c]
        d == q.document
        v == q.version
    IN  /\ q.stage \in {"create version", "insert version"} \cup Targeted => d \in Documents
        /\ q.stage = "insert version" =>
              requests[c].phase = "document checked" /\ requests[c].document = d
        /\ q.stage \in Targeted =>
              v \in Versions /\ versions[v].status # "absent" /\ versions[v].document = d
        /\ q.stage \in {"lock version", "put", "add"} =>
              locked[d] = c /\ documents[d].state = "active"
        /\ q.stage \in {"put", "add"} => locked[v] = c /\ versions[v].status = "draft"
        /\ q.stage = "register" => v \in Versions

RowsInv ==
    /\ VInv
    /\ VersionsHaveDocuments
    /\ \A c \in Callers : TargetHeld(c)

-----------------------------------------------------------------------------
(* What a step of one request leaves to the others.                        *)

\* What request q may rely on stays as it is.
KeptFor(q) ==
    /\ requests'[q] = requests[q]
    /\ \A x \in Rows : locked[x] = q => locked'[x] = q
    /\ \A v \in Versions : versions[v].status # "absent" =>
          /\ versions'[v].status # "absent" /\ versions'[v].document = versions[v].document
          /\ locked[v] = q => versions'[v] = versions[v]
    /\ \A d \in Documents : locked[d] = q /\ documents[d].state = "active" =>
          documents'[d] = documents[d]

\* What is written on versions: a new draft, or a version that is locked.
LEMMA VersionWrites ==
    ASSUME VInv, NEW r \in Requests, InsertVersion(r) \/ Publish(r) \/ Withdraw(r) \/ Archive(r),
           NEW v \in Versions, versions'[v] # versions[v]
    PROVE  \/ /\ versions[v].status = "absent" /\ versions'[v].status = "draft"
              /\ versions'[v].document = requests[r].document
              /\ versions'[v].document \in Documents
           \/ /\ locked[v] = r /\ versions[v].status # "absent"
              /\ versions'[v].status # "absent" /\ versions'[v].document = versions[v].document
<1>1. versions[v] \in VersionRow
  BY DEF VInv, TypeOK
<1>2. CASE InsertVersion(r)
  <2> DEFINE w == CHOOSE x \in Versions : versions[x].status = "absent"
  <2>1. /\ \E x \in Versions : versions[x].status = "absent"
        /\ versions' = [versions EXCEPT ![w] = [document |-> requests[r].document,
                                                status |-> "draft", from |-> 0, to |-> 0]]
    BY <1>2 DEF InsertVersion
  <2>2. w \in Versions /\ versions[w].status = "absent"
    BY <2>1
  <2> HIDE DEF w
  <2>3. requests[r].document \in Documents
    BY <1>2 DEF InsertVersion, VInv, Held, DocumentHeld
  <2>4. w = v /\ versions'[v].status = "draft" /\ versions'[v].document = requests[r].document
    BY <2>1, <2>2 DEF VInv, TypeOK
  <2> QED
    BY <2>2, <2>3, <2>4
<1>3. CASE Publish(r)
  <2> DEFINE p == requests[r].version
             o == requests[r].open
             at == requests[r].at
  <2>1. /\ p \in Versions /\ locked[p] = r /\ at \in Times
        /\ versions[p].status = "draft"
        /\ o # None => /\ o \in Versions \ {p} /\ locked[o] = r /\ versions[o].from # 0
                       /\ versions'[o] = CloseEffectivePeriod(versions[o], at)
        /\ versions'[p] = SetPublished(versions[p], at)
        /\ \A w \in Versions \ {p, o} : versions'[w] = versions[w]
    BY <1>3, PublishEffect
  <2> HIDE DEF p, o, at
  <2>2. CASE v = p
    BY <1>1, <2>1, <2>2, PublishRows
  <2>3. CASE v = o
    <3>1. o # None
      BY <2>3, NoneAssumption
    <3>2. versions[v].status # "absent"
      BY <2>1, <2>3, <3>1 DEF VInv, RowShapes
    <3> QED
      BY <1>1, <2>1, <2>3, <3>1, <3>2, PublishRows
  <2> QED
    BY <2>1, <2>2, <2>3
<1>4. CASE Withdraw(r)
  <2> DEFINE p == requests[r].version
             at == requests[r].at
  <2>1. /\ p \in Versions /\ locked[p] = r /\ at \in Times
        /\ versions[p].status = "published"
        /\ versions' = [versions EXCEPT ![p] = SetWithdrawn(versions[p], at)]
        /\ versions'[p] = SetWithdrawn(versions[p], at)
    BY <1>4, WithdrawEffect
  <2> HIDE DEF p, at
  <2>2. v = p
    BY <2>1 DEF VInv, TypeOK
  <2> QED
    BY <1>1, <2>1, <2>2, EndRows
<1>5. CASE Archive(r)
  <2> DEFINE p == requests[r].version
  <2>1. p \in Versions /\ locked[p] = r /\ versions[p].status # "absent"
    BY <1>5 DEF Archive, VInv, Held, VersionHeld
  <2>2. versions' = [versions EXCEPT ![p] = SetArchived(@)]
    BY <1>5 DEF Archive
  <2> HIDE DEF p
  <2>3. v = p /\ versions'[v] = SetArchived(versions[v])
    BY <2>1, <2>2 DEF VInv, TypeOK
  <2> QED
    BY <1>1, <2>1, <2>3 DEF SetArchived, VersionRow
<1> QED
  BY <1>2, <1>3, <1>4, <1>5

\* A request leaves the places and the locks of the others alone.
LEMMA OthersStay ==
    ASSUME VInv, NEW r \in Requests, Start(r) \/ Continue(r) \/ Abort(r),
           NEW q \in Requests \ {r}
    PROVE  requests'[q] = requests[q] /\ \A x \in Rows : locked[x] = q => locked'[x] = q
<1>1. CASE End(r)
  BY <1>1, EndEffect DEF VInv
<1>2. ASSUME NEW R, NEW x \in Rows, requests' = [requests EXCEPT ![r] = R],
             UNCHANGED locked \/ (Free(x) /\ locked' = [locked EXCEPT ![x] = r])
      PROVE  requests'[q] = requests[q] /\ \A y \in Rows : locked[y] = q => locked'[y] = q
  BY <1>2, NoneAssumption DEF VInv, TypeOK, Free
<1>3. ASSUME NEW R, requests' = [requests EXCEPT ![r] = R], UNCHANGED locked
      PROVE  requests'[q] = requests[q] /\ \A y \in Rows : locked[y] = q => locked'[y] = q
  BY <1>3 DEF VInv, TypeOK
<1>4. CASE DocumentCall(r)
  BY <1>3, <1>4 DEF DocumentCall, CheckCanonicalKey
<1>5. CASE AclCall(r)
  BY <1>2, <1>5 DEF AclCall, LockForAcl, Rows
<1>6. CASE VersionCall(r)
  BY <1>2, <1>3, <1>6 DEF VersionCall, RequireActiveDocument, BeginPublish, BeginWithdraw,
       BeginArchive, LockForTransition, Rows
<1>7. CASE FindOpen(r)
  BY <1>7 DEF FindOpen, VInv, TypeOK
<1>8. CASE LockOpen(r) /\ ~ End(r)
  <2>1. requests[r].open \in Versions
    BY <1>8 DEF LockOpen, VInv, Held, OpenHeld
  <2>2. requests'[q] = requests[q]
    BY <1>8 DEF LockOpen, VInv, TypeOK
  <2> QED
    BY <1>8, <2>1, <2>2, NoneAssumption DEF LockOpen, VInv, TypeOK, Free, Rows
<1> QED
  BY <1>1, <1>4, <1>5, <1>6, <1>7, <1>8 DEF Start, Continue, Abort, InsertDocument,
     InsertVersion, Publish, Withdraw, Archive, GrantAcl, RevokeAcl

\* Of documents a request writes only new rows.
LEMMA DocumentWrites ==
    ASSUME VInv, NEW r \in Requests, Start(r) \/ Continue(r) \/ Abort(r),
           NEW d \in Documents, documents'[d] # documents[d]
    PROVE  InsertDocument(r) /\ documents[d].state = "absent"
<1>1. InsertDocument(r)
  BY DEF Start, Continue, Abort, DocumentCall, AclCall, VersionCall, CheckCanonicalKey,
     LockForAcl, RequireActiveDocument, BeginPublish, BeginWithdraw, BeginArchive,
     LockForTransition, InsertVersion, FindOpen, LockOpen, Publish, Withdraw, Archive,
     GrantAcl, RevokeAcl
<1> DEFINE e == CHOOSE x \in Documents : documents[x].state = "absent"
<1>2. /\ \E x \in Documents : documents[x].state = "absent"
      /\ documents' = [documents EXCEPT ![e] = [state |-> "active", key |-> requests[r].key]]
  BY <1>1 DEF InsertDocument
<1>3. e \in Documents /\ documents[e].state = "absent"
  BY <1>2
<1> HIDE DEF e
<1> QED
  BY <1>1, <1>2, <1>3 DEF VInv, TypeOK

\* A step of a request keeps what is about rows, and what the others rely on.
LEMMA RequestKeeps ==
    ASSUME VInv, VersionsHaveDocuments, NEW r \in Requests,
           Start(r) \/ Continue(r) \/ Abort(r)
    PROVE  /\ VInv' /\ VersionsHaveDocuments'
           /\ \A q \in Requests \ {r} : KeptFor(q)
<1>1. VInv'
  BY StartStep, ContinueStep, RefusedStep DEF Abort
<1>2. ASSUME NEW v \in Versions, versions'[v] # versions[v]
      PROVE  \/ /\ versions[v].status = "absent" /\ versions'[v].document \in Documents
             \/ /\ locked[v] = r /\ versions[v].status # "absent"
                /\ versions'[v].status # "absent" /\ versions'[v].document = versions[v].document
  <2>1. InsertVersion(r) \/ Publish(r) \/ Withdraw(r) \/ Archive(r)
    BY <1>2 DEF Start, Continue, Abort, DocumentCall, AclCall, VersionCall, CheckCanonicalKey,
       LockForAcl, RequireActiveDocument, BeginPublish, BeginWithdraw, BeginArchive,
       LockForTransition, InsertDocument, FindOpen, LockOpen, GrantAcl, RevokeAcl
  <2> QED
    BY <1>2, <2>1, VersionWrites
<1>3. ASSUME NEW v \in Versions, versions[v].status # "absent"
      PROVE  /\ versions'[v].status # "absent" /\ versions'[v].document = versions[v].document
             /\ versions'[v] # versions[v] => locked[v] = r
  BY <1>2, <1>3
<1>4. ASSUME NEW v \in Versions, versions'[v].status # "absent"
      PROVE  versions'[v].document \in Documents
  <2>1. CASE versions'[v] = versions[v]
    BY <1>4, <2>1 DEF VersionsHaveDocuments
  <2>2. CASE versions'[v] # versions[v]
    <3>1. CASE versions[v].status = "absent"
      BY <1>2, <1>3, <2>2, <3>1
    <3>2. CASE versions[v].status # "absent"
      BY <1>3, <3>2 DEF VersionsHaveDocuments
    <3> QED
      BY <3>1, <3>2
  <2> QED
    BY <2>1, <2>2
<1>5. ASSUME NEW q \in Requests \ {r}
      PROVE  KeptFor(q)
  <2>1. \A d \in Documents : documents[d].state = "active" => documents'[d] = documents[d]
    BY DocumentWrites
  <2>2. requests'[q] = requests[q] /\ \A x \in Rows : locked[x] = q => locked'[x] = q
    BY OthersStay
  <2> QED
    BY <1>3, <2>1, <2>2 DEF KeptFor
<1> QED
  BY <1>1, <1>4, <1>5 DEF VersionsHaveDocuments

\* So does the end of a request that leaves the tables alone,
LEMMA EndKeeps ==
    ASSUME VInv, VersionsHaveDocuments, NEW r \in Requests, End(r),
           UNCHANGED <<documents, versions, grants>>
    PROVE  /\ VInv' /\ VersionsHaveDocuments'
           /\ \A q \in Requests \ {r} : KeptFor(q)
<1>1. VInv'
  BY RefusedStep
<1>2. \A q \in Requests \ {r} :
          requests'[q] = requests[q] /\ \A x \in Rows : locked[x] = q => locked'[x] = q
  BY EndEffect DEF VInv
<1> QED
  BY <1>1, <1>2 DEF KeptFor, VersionsHaveDocuments

\* a lock on a row that is free,
LEMMA LockKeeps ==
    ASSUME VInv, VersionsHaveDocuments, NEW r \in Requests, NEW x \in Rows, Free(x),
           locked' = [locked EXCEPT ![x] = r],
           UNCHANGED <<documents, versions, grants, requests>>
    PROVE  /\ VInv' /\ VersionsHaveDocuments'
           /\ \A q \in Requests : KeptFor(q)
<1>1. \A q \in Requests, y \in Rows : locked[y] = q => locked'[y] = q
  BY NoneAssumption DEF VInv, TypeOK, Free
<1>2. Held(r)'
  BY <1>1, HeldStays
<1>3. requests[r] \in Request /\ requests' = [requests EXCEPT ![r] = requests[r]]
  BY DEF VInv, TypeOK
<1>4. VInv'
  BY <1>2, <1>3, MoveStep
<1> QED
  BY <1>1, <1>4 DEF KeptFor, VersionsHaveDocuments

\* a document that is deleted,
LEMMA DeletionKeeps ==
    ASSUME VInv, VersionsHaveDocuments, NEW d \in Documents, SoftDelete(d)
    PROVE  /\ VInv' /\ VersionsHaveDocuments'
           /\ \A q \in Requests : KeptFor(q)
<1>1. VInv'
  BY SoftDeleteStep
<1>2. \A q \in Requests, e \in Documents : locked[e] = q => documents'[e] = documents[e]
  BY NoneAssumption DEF SoftDelete, Free, VInv, TypeOK
<1> QED
  BY <1>1, <1>2 DEF SoftDelete, KeptFor, VersionsHaveDocuments

\* and a step that does not touch the rows.
LEMMA NothingKeeps ==
    ASSUME VInv, VersionsHaveDocuments, UNCHANGED dvars
    PROVE  /\ VInv' /\ VersionsHaveDocuments'
           /\ \A q \in Requests : KeptFor(q)
<1>1. VInv'
  BY VersionsStutter
<1> QED
  BY <1>1 DEF dvars, KeptFor, VersionsHaveDocuments

-----------------------------------------------------------------------------
(* What the calls rely on.                                                 *)

\* It stays as long as the call does and others leave it alone.
LEMMA TargetStays ==
    ASSUME NEW q \in Callers, TargetHeld(q), KeptFor(q), calls'[q] = calls[q]
    PROVE  TargetHeld(q)'
BY ZenonT(30) DEF TargetHeld, KeptFor, Rows, Targeted

\* A call that names no rows, and one that is over, rely on nothing.
LEMMA NoTarget ==
    ASSUME NEW c \in Callers,
           calls'[c].stage \notin
                {"create version", "insert version", "register"} \cup Targeted
    PROVE  TargetHeld(c)'
BY DEF TargetHeld, Targeted

\* The step of one call keeps what is about rows if it keeps what the others
\* rely on and the call finds what it relies on next.
LEMMA OneCallSteps ==
    ASSUME RowsInv, NEW c \in Callers, VInv', VersionsHaveDocuments',
           \A q \in Requests \ {c} : KeptFor(q),
           \A q \in Callers \ {c} : calls'[q] = calls[q],
           TargetHeld(c)'
    PROVE  RowsInv'
<1>1. ASSUME NEW q \in Callers \ {c}
      PROVE  TargetHeld(q)'
  BY CallersAssumption, TargetStays DEF RowsInv
<1> QED
  BY <1>1 DEF RowsInv

\* And a step of no call keeps it.
LEMMA NoCallSteps ==
    ASSUME RowsInv, VInv', VersionsHaveDocuments',
           \A q \in Callers : KeptFor(q), UNCHANGED calls
    PROVE  RowsInv'
<1>1. ASSUME NEW q \in Callers
      PROVE  TargetHeld(q)'
  BY TargetStays DEF RowsInv
<1> QED
  BY <1>1 DEF RowsInv

-----------------------------------------------------------------------------
(* The steps of the calls, and the rows.                                   *)

\* The other calls are where they were.
LEMMA CallWrites ==
    ASSUME UploadsTypeOK, NEW c \in Callers, NEW C, calls' = [calls EXCEPT ![c] = C]
    PROVE  calls'[c] = C /\ \A q \in Callers \ {c} : calls'[q] = calls[q]
BY DEF UploadsTypeOK

\* A call that is over names nothing.
LEMMA ReturnWrites ==
    ASSUME UploadsTypeOK, NEW c \in Callers, Return(c)
    PROVE  /\ calls'[c] = NoCall /\ TargetHeld(c)'
           /\ \A q \in Callers \ {c} : calls'[q] = calls[q]
<1>1. calls'[c] = NoCall /\ \A q \in Callers \ {c} : calls'[q] = calls[q]
  BY CallWrites DEF Return
<1>2. calls'[c].stage = "idle"
  BY <1>1 DEF NoCall
<1> QED
  BY <1>1, <1>2, NoTarget DEF Targeted

\* A call that goes on keeps its arguments and what it has found.
LEMMA GotoWrites ==
    ASSUME UploadsTypeOK, NEW c \in Callers, NEW s, Goto(c, s)
    PROVE  /\ calls'[c] = [calls[c] EXCEPT !.stage = s]
           /\ calls'[c].stage = s
           /\ calls'[c].document = calls[c].document /\ calls'[c].version = calls[c].version
           /\ calls'[c].artifact = calls[c].artifact
           /\ calls'[c].key = calls[c].key /\ calls'[c].pipeline = calls[c].pipeline
           /\ \A q \in Callers \ {c} : calls'[q] = calls[q]
<1>1. calls[c] \in Call
  BY DEF UploadsTypeOK
<1>2. calls' = [calls EXCEPT ![c] = [calls[c] EXCEPT !.stage = s]]
  BY DEF Goto
<1>3. calls'[c] = [calls[c] EXCEPT !.stage = s] /\ \A q \in Callers \ {c} : calls'[q] = calls[q]
  BY <1>2, CallWrites
<1> QED
  BY <1>1, <1>3 DEF Call

\* The pipeline's document does not exist yet.
LEMMA IngestCheckKeyRows ==
    ASSUME RowsInv, UploadsTypeOK, NEW c \in Callers, NEW k \in Keys, NEW ak \in ArtifactKeys,
           IngestCheckKey(c, k, ak)
    PROVE  RowsInv'
<1>1. Start(c) /\ c \in Requests
  BY CallersAssumption DEF IngestCheckKey, Start, DocumentCall
<1> DEFINE C == [NoCall EXCEPT !.stage = "create document", !.pipeline = TRUE, !.key = ak]
<1>2. C.stage = "create document" /\ calls' = [calls EXCEPT ![c] = C]
  BY DEF IngestCheckKey, NoCall
<1> HIDE DEF C
<1>3. /\ calls'[c].stage = "create document"
      /\ \A q \in Callers \ {c} : calls'[q] = calls[q]
  BY <1>2, CallWrites
<1>4. TargetHeld(c)'
  BY <1>3, NoTarget DEF Targeted
<1> QED
  BY <1>1, <1>3, <1>4, RequestKeeps, OneCallSteps DEF RowsInv

\* The call goes on with the document it has inserted.
LEMMA IngestCreateDocumentRows ==
    ASSUME RowsInv, UploadsTypeOK, NEW c \in Callers, IngestCreateDocument(c)
    PROVE  RowsInv'
<1>1. Continue(c) /\ c \in Requests
  BY CallersAssumption DEF IngestCreateDocument, Continue
<1>2. /\ VInv' /\ VersionsHaveDocuments'
      /\ \A q \in Requests \ {c} : KeptFor(q)
  BY <1>1, RequestKeeps DEF RowsInv
<1>3. CASE Return(c)
  BY <1>2, <1>3, ReturnWrites, OneCallSteps
<1>4. CASE ~ Return(c)
  <2> DEFINE d == CHOOSE e \in Documents : documents'[e] # documents[e]
             C == [calls[c] EXCEPT !.stage = "create version", !.document = d]
  <2>1. documents' # documents /\ calls' = [calls EXCEPT ![c] = C]
    BY <1>4 DEF IngestCreateDocument
  <2>2. \E e \in Documents : documents'[e] # documents[e]
    BY <1>2, <2>1 DEF RowsInv, VInv, TypeOK
  <2>3. d \in Documents
    BY <2>2
  <2> HIDE DEF d
  <2>4. C.stage = "create version" /\ C.document = d
    BY DEF UploadsTypeOK, Call
  <2> HIDE DEF C
  <2>5. calls'[c] = C /\ \A q \in Callers \ {c} : calls'[q] = calls[q]
    BY <2>1, CallWrites
  <2>6. TargetHeld(c)'
    BY <2>3, <2>4, <2>5 DEF TargetHeld, Targeted
  <2> QED
    BY <1>2, <2>5, <2>6, OneCallSteps
<1> QED
  BY <1>3, <1>4

\* The call has seen its document active, and create_version knows it.
LEMMA IngestRequireDocumentRows ==
    ASSUME RowsInv, UploadsTypeOK, NEW c \in Callers, IngestRequireDocument(c)
    PROVE  RowsInv'
<1> DEFINE d == calls[c].document
<1>1. c \in Requests /\ d \in Documents
  BY CallersAssumption DEF IngestRequireDocument, At, RowsInv, TargetHeld
<1>2. CASE RequireActiveDocument(c, d) /\ Goto(c, "insert version")
  <2>1. Start(c)
    BY <1>1, <1>2 DEF Start, VersionCall
  <2>2. requests'[c].phase = "document checked" /\ requests'[c].document = d
    BY <1>1, <1>2 DEF RequireActiveDocument, RowsInv, VInv, TypeOK, Idle
  <2>3. /\ calls'[c].stage = "insert version" /\ calls'[c].document = d
        /\ \A q \in Callers \ {c} : calls'[q] = calls[q]
    BY <1>2, GotoWrites
  <2>4. TargetHeld(c)'
    BY <1>1, <2>2, <2>3 DEF TargetHeld, Targeted
  <2> QED
    BY <1>1, <2>1, <2>3, <2>4, RequestKeeps, OneCallSteps DEF RowsInv
<1>3. CASE Return(c) /\ UNCHANGED dvars
  BY <1>1, <1>3, ReturnWrites, NothingKeeps, OneCallSteps DEF RowsInv
<1> QED
  BY <1>2, <1>3 DEF IngestRequireDocument

\* The call goes on with the version it has inserted, a draft of its document.
LEMMA IngestCreateVersionRows ==
    ASSUME RowsInv, UploadsTypeOK, NEW c \in Callers, IngestCreateVersion(c)
    PROVE  RowsInv'
<1>1. Continue(c) /\ c \in Requests /\ InsertVersion(c)
  BY CallersAssumption DEF IngestCreateVersion, Continue
<1>2. /\ VInv' /\ VersionsHaveDocuments'
      /\ \A q \in Requests \ {c} : KeptFor(q)
  BY <1>1, RequestKeeps DEF RowsInv
<1>3. CASE Return(c)
  BY <1>2, <1>3, ReturnWrites, OneCallSteps
<1>4. CASE ~ Return(c)
  <2> DEFINE v == CHOOSE w \in Versions : versions'[w] # versions[w]
             C == [calls[c] EXCEPT !.stage = "lock document", !.version = v]
             d == calls[c].document
  <2>1. versions' # versions /\ calls' = [calls EXCEPT ![c] = C]
    BY <1>4 DEF IngestCreateVersion
  <2>2. \E w \in Versions : versions'[w] # versions[w]
    BY <1>2, <2>1 DEF RowsInv, VInv, TypeOK
  <2>3. v \in Versions /\ versions'[v] # versions[v]
    BY <2>2
  <2> HIDE DEF v
  <2>4. d \in Documents /\ requests[c].document = d
    BY DEF IngestCreateVersion, At, RowsInv, TargetHeld
  <2>5. versions'[v].status = "draft" /\ versions'[v].document = d
    BY <1>1, <2>3, <2>4, InsertEffect, VersionWrites DEF RowsInv
  <2>6. C.stage = "lock document" /\ C.document = d /\ C.version = v
    BY DEF UploadsTypeOK, Call
  <2> HIDE DEF C, d
  <2>7. calls'[c] = C /\ \A q \in Callers \ {c} : calls'[q] = calls[q]
    BY <2>1, CallWrites
  <2>8. TargetHeld(c)'
    BY <2>3, <2>4, <2>5, <2>6, <2>7 DEF TargetHeld, Targeted
  <2> QED
    BY <1>2, <2>7, <2>8, OneCallSteps
<1> QED
  BY <1>3, <1>4

\* The route's call names a version and its document.
LEMMA UploadCallRows ==
    ASSUME RowsInv, UploadsTypeOK, NEW c \in Callers, NEW v \in Versions,
           NEW ak \in ArtifactKeys, UploadCall(c, v, ak)
    PROVE  RowsInv'
<1> DEFINE d == versions[v].document
           C == [NoCall EXCEPT !.stage = "lock document", !.key = ak,
                               !.document = d, !.version = v]
<1>1. d \in Documents /\ versions[v].status # "absent"
  BY DEF UploadCall, RowsInv, VersionsHaveDocuments
<1>2. /\ C.stage = "lock document" /\ C.document = d /\ C.version = v
      /\ calls' = [calls EXCEPT ![c] = C] /\ UNCHANGED dvars
  BY DEF UploadCall, NoCall
<1> HIDE DEF C
<1>3. calls'[c] = C /\ \A q \in Callers \ {c} : calls'[q] = calls[q]
  BY <1>2, CallWrites
<1>4. TargetHeld(c)'
  BY <1>1, <1>2, <1>3 DEF TargetHeld, Targeted, dvars
<1> QED
  BY <1>2, <1>3, <1>4, CallersAssumption, NothingKeeps, OneCallSteps DEF RowsInv

\* create_artifact names a version.
LEMMA RegisterCheckRows ==
    ASSUME RowsInv, UploadsTypeOK, NEW c \in Callers, NEW v \in Versions,
           NEW ak \in ArtifactKeys, RegisterCheck(c, v, ak)
    PROVE  RowsInv'
<1> DEFINE a == CHOOSE b \in Artifacts : ~ Used(b)
           C == [NoCall EXCEPT !.stage = "register", !.version = v, !.key = ak,
                               !.artifact = a]
<1>1. /\ C.stage = "register" /\ C.version = v
      /\ calls' = [calls EXCEPT ![c] = C] /\ UNCHANGED dvars
  BY DEF RegisterCheck, NoCall
<1> HIDE DEF C
<1>2. calls'[c] = C /\ \A q \in Callers \ {c} : calls'[q] = calls[q]
  BY <1>1, CallWrites
<1>3. TargetHeld(c)'
  BY <1>1, <1>2 DEF TargetHeld, Targeted
<1> QED
  BY <1>1, <1>2, <1>3, CallersAssumption, NothingKeeps, OneCallSteps DEF RowsInv

\* _validate_target locks the document while it is active.
LEMMA LockDocumentRows ==
    ASSUME RowsInv, UploadsTypeOK, NEW c \in Callers, LockDocument(c)
    PROVE  RowsInv'
<1> DEFINE d == calls[c].document
<1>1. /\ d \in Documents /\ Free(d) /\ c \in Requests
      /\ calls[c].version \in Versions /\ versions[calls[c].version].status # "absent"
      /\ versions[calls[c].version].document = d
  BY CallersAssumption DEF LockDocument, At, RowsInv, TargetHeld, Targeted
<1>2. CASE /\ documents[d].state = "active"
           /\ locked' = [locked EXCEPT ![d] = c]
           /\ Goto(c, "lock version")
  <2>1. UNCHANGED <<documents, versions, grants, requests>>
    BY DEF LockDocument
  <2>2. locked'[d] = c /\ d \in Rows
    BY <1>1, <1>2 DEF RowsInv, VInv, TypeOK, Rows
  <2>3. /\ calls'[c].stage = "lock version" /\ calls'[c].document = d
        /\ calls'[c].version = calls[c].version
        /\ \A q \in Callers \ {c} : calls'[q] = calls[q]
    BY <1>2, GotoWrites
  <2>4. TargetHeld(c)'
    BY <1>1, <1>2, <2>1, <2>2, <2>3 DEF TargetHeld, Targeted
  <2> QED
    BY <1>1, <1>2, <2>1, <2>2, <2>3, <2>4, LockKeeps, OneCallSteps DEF RowsInv
<1>3. CASE Return(c) /\ UNCHANGED locked
  BY <1>1, <1>3, ReturnWrites, NothingKeeps, OneCallSteps DEF LockDocument, RowsInv, dvars
<1> QED
  BY <1>2, <1>3 DEF LockDocument

\* Then it locks the version while it is a draft, or the call is refused.
LEMMA LockDraftRows ==
    ASSUME RowsInv, UploadsTypeOK, NEW c \in Callers, LockDraft(c)
    PROVE  RowsInv'
<1> DEFINE v == calls[c].version
           a == CHOOSE b \in Artifacts : ~ Used(b)
           C == [calls[c] EXCEPT !.stage = "put", !.artifact = a]
<1>1. /\ v \in Versions /\ Free(v) /\ c \in Requests
      /\ TargetHeld(c) /\ calls[c].stage = "lock version"
      /\ calls[c].document \in Documents
  BY CallersAssumption DEF LockDraft, At, RowsInv, TargetHeld, Targeted
<1>2. CASE /\ versions[v].status = "draft"
           /\ locked' = [locked EXCEPT ![v] = c]
           /\ calls' = [calls EXCEPT ![c] = C]
           /\ UNCHANGED requests
  <2>1. UNCHANGED <<documents, versions, grants, requests>>
    BY <1>2 DEF LockDraft
  <2>2. v \in Rows /\ locked'[v] = c /\ \A x \in Rows : locked[x] = c => locked'[x] = c
    BY <1>1, <1>2 DEF RowsInv, VInv, TypeOK, Rows
  <2>3. C.stage = "put" /\ C.document = calls[c].document /\ C.version = v
    BY DEF UploadsTypeOK, Call
  <2> HIDE DEF C
  <2>4. calls'[c] = C /\ \A q \in Callers \ {c} : calls'[q] = calls[q]
    BY <1>2, CallWrites
  <2>5. TargetHeld(c)'
    BY <1>1, <1>2, <2>1, <2>2, <2>3, <2>4 DEF TargetHeld, Targeted, Rows
  <2> QED
    BY <1>1, <1>2, <2>1, <2>2, <2>4, <2>5, LockKeeps, OneCallSteps DEF RowsInv
<1>3. CASE Return(c) /\ End(c)
  BY <1>1, <1>3, ReturnWrites, EndKeeps, OneCallSteps DEF LockDraft, RowsInv
<1> QED
  BY <1>2, <1>3 DEF LockDraft

\* The rows stay locked through the call of the object store.
LEMMA PutObjectRows ==
    ASSUME RowsInv, UploadsTypeOK, NEW c \in Callers, PutObject(c)
    PROVE  RowsInv'
<1>1. c \in Requests
  BY CallersAssumption
<1>2. CASE Goto(c, "add") /\ UNCHANGED <<locked, requests>>
  <2>1. UNCHANGED dvars
    BY <1>2 DEF PutObject, dvars
  <2>2. /\ calls'[c].stage = "add" /\ calls'[c].document = calls[c].document
        /\ calls'[c].version = calls[c].version
        /\ \A q \in Callers \ {c} : calls'[q] = calls[q]
    BY <1>2, GotoWrites
  <2>3. TargetHeld(c) /\ calls[c].stage = "put"
    BY DEF PutObject, At, RowsInv
  <2>4. TargetHeld(c)'
    BY <2>1, <2>2, <2>3 DEF TargetHeld, Targeted, dvars
  <2> QED
    BY <1>1, <2>1, <2>2, <2>4, NothingKeeps, OneCallSteps DEF RowsInv
<1>3. CASE Return(c) /\ End(c)
  BY <1>1, <1>3, ReturnWrites, EndKeeps, OneCallSteps DEF PutObject, RowsInv
<1> QED
  BY <1>2, <1>3 DEF PutObject

\* Every way out of the insert ends the transaction.
LEMMA AddArtifactRows ==
    ASSUME RowsInv, UploadsTypeOK, NEW c \in Callers, AddArtifact(c)
    PROVE  RowsInv'
<1>1. c \in Requests /\ End(c) /\ UNCHANGED <<documents, versions, grants>>
  BY CallersAssumption DEF AddArtifact
<1>2. CASE Return(c)
  BY <1>1, <1>2, ReturnWrites, EndKeeps, OneCallSteps DEF RowsInv
<1>3. ASSUME NEW s \in {"create run", "compensate"}, Goto(c, s)
      PROVE  RowsInv'
  <2>1. calls'[c].stage = s /\ \A q \in Callers \ {c} : calls'[q] = calls[q]
    BY <1>3, GotoWrites
  <2>2. TargetHeld(c)'
    BY <2>1, NoTarget DEF Targeted
  <2> QED
    BY <1>1, <2>1, <2>2, EndKeeps, OneCallSteps DEF RowsInv
<1> QED
  BY <1>2, <1>3 DEF AddArtifact

\* The calls that have no transaction open leave the rows alone.
LEMMA OutsideRows ==
    ASSUME RowsInv, UploadsTypeOK, NEW c \in Callers,
           Compensate(c) \/ CreateRun(c) \/ QueueItem(c) \/ RegisterInsert(c)
    PROVE  RowsInv'
<1>1. c \in Requests /\ UNCHANGED dvars
  BY CallersAssumption DEF Compensate, CreateRun, QueueItem, RegisterInsert
<1>2. CASE Return(c)
  BY <1>1, <1>2, ReturnWrites, NothingKeeps, OneCallSteps DEF RowsInv
<1>3. CASE Goto(c, "add item")
  <2>1. calls'[c].stage = "add item" /\ \A q \in Callers \ {c} : calls'[q] = calls[q]
    BY <1>3, GotoWrites
  <2>2. TargetHeld(c)'
    BY <2>1, NoTarget DEF Targeted
  <2> QED
    BY <1>1, <2>1, <2>2, NothingKeeps, OneCallSteps DEF RowsInv
<1> QED
  BY <1>2, <1>3 DEF Compensate, CreateRun, QueueItem, RegisterInsert

\* A crash rolls back what is open.
LEMMA CrashRows ==
    ASSUME RowsInv, UploadsTypeOK, NEW c \in Callers, Crash(c)
    PROVE  RowsInv'
BY CallersAssumption, ReturnWrites, EndKeeps, OneCallSteps DEF Crash, RowsInv

\* Every step keeps what is about rows and locks.
LEMMA RowsInvariance ==
    ASSUME RowsInv, UploadsTypeOK, [UploadsNext]_vars
    PROVE  RowsInv'
<1>1. ASSUME NEW c \in Callers, CallStep(c) \/ Crash(c)
      PROVE  RowsInv'
  BY <1>1, IngestCreateDocumentRows, IngestRequireDocumentRows, IngestCreateVersionRows,
     LockDocumentRows, LockDraftRows, PutObjectRows, AddArtifactRows, OutsideRows, CrashRows
     DEF CallStep
<1>2. CASE UNCHANGED <<dvars, calls>>
  BY <1>2, CallersAssumption, NothingKeeps, NoCallSteps DEF RowsInv
<1>3. ASSUME NEW r \in Requests \ Callers, Start(r) \/ Continue(r) \/ Abort(r), UNCHANGED avars
      PROVE  RowsInv'
  BY <1>3, CallersAssumption, RequestKeeps, NoCallSteps DEF RowsInv, avars
<1>4. ASSUME NEW d \in Documents, SoftDelete(d), UNCHANGED avars
      PROVE  RowsInv'
  BY <1>4, CallersAssumption, DeletionKeeps, NoCallSteps DEF RowsInv, avars
<1> QED
  BY <1>1, <1>2, <1>3, <1>4, IngestCheckKeyRows, UploadCallRows, RegisterCheckRows
     DEF UploadsNext, Transition, LoadItem, vars, avars

-----------------------------------------------------------------------------
(* The inductive invariant: artifacts and objects.                         *)

\* The stages of a call that has the identifier of an artifact.
Holding == {"put", "add", "compensate", "create run", "add item", "register"}

\* What a call knows of its artifact: whether the row and the object are there.
ArtifactHeld(c) ==
    LET q == calls[c]
        a == q.artifact
    IN  /\ a # None <=> q.stage \in Holding
        /\ a # None => items[a] = "none"
        /\ q.stage \in {"put", "add", "register"} => artifacts[a].status = "absent"
        /\ q.stage = "register" => a \notin objects
        /\ q.stage \in {"add", "create run", "add item"} => a \in objects
        /\ q.stage \in {"create run", "add item"} => artifacts[a].status # "absent"
        /\ q.stage = "compensate" =>
              artifacts[a].status = "absent" \/ "answer lost" \in trouble[a]

\* No two calls have the same artifact.
OneHolder ==
    \A b, c \in Callers :
        calls[b].artifact = calls[c].artifact /\ calls[b].artifact # None => b = c

\* What is to hold of an artifact.
ArtifactOK(a) ==
    /\ items[a] # "none" => a \in objects
    /\ items[a] # "object missing"
    /\ artifacts[a].status # "absent" /\ artifacts[a].uploaded /\ a \notin objects
          => "answer lost" \in trouble[a]
    /\ a \in objects /\ artifacts[a].status = "absent" /\ (\A c \in Callers : calls[c].artifact # a)
          => trouble[a] # {}

ObjectsInv ==
    /\ UploadsTypeOK
    /\ \A c \in Callers : ArtifactHeld(c)
    /\ OneHolder
    /\ \A a \in Artifacts : ArtifactOK(a)

UInv == RowsInv /\ ObjectsInv

-----------------------------------------------------------------------------
(* What the steps of a call have in common.                                *)

AvarsTypeOK ==
    /\ artifacts \in [Artifacts -> ArtifactRow]
    /\ objects \subseteq Artifacts
    /\ items \in [Artifacts -> {"none", "queued", "loaded", "object missing", "unavailable"}]
    /\ calls \in [Callers -> Call]
    /\ trouble \in [Artifacts -> SUBSET Faults]

\* All but the artifact a stays as it is, for the step of a call that has it,
\* gets it or gives it back; with None for a, nothing but the call changes.
OnlyAbout(c, a) ==
    /\ \A b \in Artifacts \ {a} :
          /\ items'[b] = items[b] /\ artifacts'[b] = artifacts[b] /\ trouble'[b] = trouble[b]
          /\ b \in objects' <=> b \in objects
    /\ \A q \in Callers \ {c} : calls'[q] = calls[q]
    /\ calls[c].artifact \in {a, None} /\ calls'[c].artifact \in {a, None}

\* Such a step keeps the invariant if it does for its own call and artifact, and
\* no other call has the artifact.
LEMMA OneArtifactStep ==
    ASSUME ObjectsInv, TypeOK', AvarsTypeOK', NEW c \in Callers, NEW a, OnlyAbout(c, a),
           a # None => \A q \in Callers \ {c} : calls[q].artifact # a,
           ArtifactHeld(c)', a \in Artifacts => ArtifactOK(a)'
    PROVE  ObjectsInv'
<1>1. UploadsTypeOK'
  BY DEF AvarsTypeOK, UploadsTypeOK
<1>2. ASSUME NEW q \in Callers \ {c}
      PROVE  ArtifactHeld(q)'
  <2>1. ArtifactHeld(q) /\ calls'[q] = calls[q]
    BY DEF ObjectsInv, OnlyAbout
  <2>2. calls[q].artifact \in Artifacts \cup {None}
    BY DEF ObjectsInv, UploadsTypeOK, Call
  <2>3. CASE calls[q].artifact = None
    BY <2>1, <2>3 DEF ArtifactHeld, Holding
  <2>4. CASE calls[q].artifact # None
    <3> DEFINE b == calls[q].artifact
    <3>1. b \in Artifacts \ {a}
      BY <2>2, <2>4
    <3>2. /\ items'[b] = items[b] /\ artifacts'[b] = artifacts[b] /\ trouble'[b] = trouble[b]
          /\ b \in objects' <=> b \in objects
      BY <3>1 DEF OnlyAbout
    <3> QED
      BY <2>1, <3>2 DEF ArtifactHeld
  <2> QED
    BY <2>3, <2>4
<1>3. OneHolder'
  BY DEF OneHolder, ObjectsInv, OnlyAbout
<1>4. ASSUME NEW b \in Artifacts, b # a
      PROVE  ArtifactOK(b)'
  <2>1. b # None
    BY ArtifactsAssumption
  <2>2. \A q \in Callers : calls'[q].artifact = b <=> calls[q].artifact = b
    BY <1>4, <2>1 DEF OnlyAbout
  <2>3. /\ items'[b] = items[b] /\ artifacts'[b] = artifacts[b] /\ trouble'[b] = trouble[b]
        /\ b \in objects' <=> b \in objects
    BY <1>4 DEF OnlyAbout
  <2>4. ArtifactOK(b)
    BY DEF ObjectsInv
  <2> QED
    BY <2>2, <2>3, <2>4 DEF ArtifactOK
<1> QED
  BY <1>1, <1>2, <1>3, <1>4 DEF ObjectsInv

\* The same for a step that changes calls only and has no artifact.
LEMMA NoArtifactStep ==
    ASSUME ObjectsInv, TypeOK', NEW c \in Callers, NEW C \in Call, OnlyCalls,
           calls' = [calls EXCEPT ![c] = C],
           calls[c].stage \notin Holding, C.stage \notin Holding, C.artifact = None
    PROVE  ObjectsInv'
<1>1. AvarsTypeOK'
  BY DEF AvarsTypeOK, ObjectsInv, UploadsTypeOK, OnlyCalls
<1>2. calls'[c] = C /\ \A q \in Callers \ {c} : calls'[q] = calls[q]
  BY CallWrites DEF ObjectsInv
<1>3. calls[c].artifact = None
  BY DEF ObjectsInv, ArtifactHeld
<1>4. OnlyAbout(c, None)
  BY <1>2, <1>3 DEF OnlyAbout, OnlyCalls
<1>5. ArtifactHeld(c)'
  BY <1>2 DEF ArtifactHeld, Holding
<1> QED
  BY <1>1, <1>4, <1>5, ArtifactsAssumption, OneArtifactStep

\* Calls are calls when one returns or goes on.
LEMMA CallTypes ==
    ASSUME UploadsTypeOK, NEW c \in Callers
    PROVE  /\ NoCall \in Call /\ NoCall.stage = "idle" /\ NoCall.artifact = None
           /\ \A s \in Stages : [calls[c] EXCEPT !.stage = s] \in Call
           /\ Return(c) => calls' \in [Callers -> Call]
           /\ \A s \in Stages : Goto(c, s) => calls' \in [Callers -> Call]
<1>1. NoCall \in Call /\ NoCall.stage = "idle" /\ NoCall.artifact = None
  BY DEF NoCall, Call, Stages
<1>2. calls[c] \in Call
  BY DEF UploadsTypeOK
<1>3. \A s \in Stages : [calls[c] EXCEPT !.stage = s] \in Call
  BY <1>2 DEF Call
<1>4. \A s \in Stages : Goto(c, s) => calls' = [calls EXCEPT ![c] = [calls[c] EXCEPT !.stage = s]]
  BY DEF Goto
<1> QED
  BY <1>1, <1>3, <1>4 DEF UploadsTypeOK, Return

\* A call that ends before it has an artifact.
LEMMA ReturnEarly ==
    ASSUME ObjectsInv, TypeOK', NEW c \in Callers, OnlyCalls, Return(c),
           calls[c].stage \notin Holding
    PROVE  ObjectsInv'
<1>1. NoCall \in Call /\ NoCall.stage = "idle" /\ NoCall.artifact = None
  BY CallTypes DEF ObjectsInv
<1> QED
  BY <1>1, NoArtifactStep DEF Return, Holding

\* A new identifier is that of no row, object, item or call.
LEMMA NewIdentifier ==
    ASSUME ObjectsInv, \E b \in Artifacts : ~ Used(b)
    PROVE  LET a == CHOOSE b \in Artifacts : ~ Used(b)
           IN  /\ a \in Artifacts /\ a # None
               /\ artifacts[a].status = "absent" /\ a \notin objects /\ items[a] = "none"
               /\ \A c \in Callers : calls[c].artifact # a
<1> DEFINE a == CHOOSE b \in Artifacts : ~ Used(b)
<1>1. a \in Artifacts /\ ~ Used(a)
  OBVIOUS
<1> HIDE DEF a
<1>2. items[a] = "none"
  BY <1>1 DEF Used, ObjectsInv, ArtifactOK
<1> QED
  BY <1>1, <1>2, ArtifactsAssumption DEF Used, a

-----------------------------------------------------------------------------
(* The steps of the calls, and their artifacts.                            *)

\* Up to the version's row lock a call has no artifact.
LEMMA EarlySteps ==
    ASSUME ObjectsInv, TypeOK', NEW c \in Callers,
           \/ \E k \in Keys, ak \in ArtifactKeys : IngestCheckKey(c, k, ak)
           \/ IngestCreateDocument(c)
           \/ IngestRequireDocument(c)
           \/ IngestCreateVersion(c)
           \/ \E v \in Versions, ak \in ArtifactKeys : UploadCall(c, v, ak)
           \/ LockDocument(c)
    PROVE  ObjectsInv'
<1>1. calls[c] \in Call /\ calls[c].stage \notin Holding /\ OnlyCalls
  BY DEF ObjectsInv, UploadsTypeOK, Holding, At, IngestCheckKey, IngestCreateDocument,
     IngestRequireDocument, IngestCreateVersion, UploadCall, LockDocument
<1>2. calls[c].artifact = None
  BY <1>1 DEF ObjectsInv, ArtifactHeld
<1>3. ASSUME NEW C \in Call, calls' = [calls EXCEPT ![c] = C],
             C.stage \notin Holding, C.artifact = None
      PROVE  ObjectsInv'
  BY <1>1, <1>3, NoArtifactStep
<1>4. CASE Return(c)
  BY <1>1, <1>4, ReturnEarly
<1>5. ASSUME NEW s \in Stages \ Holding, Goto(c, s)
      PROVE  ObjectsInv'
  <2> DEFINE C == [calls[c] EXCEPT !.stage = s]
  <2>1. C \in Call /\ C.stage \notin Holding /\ C.artifact = None
    BY <1>1, <1>2, <1>5 DEF Call
  <2>2. calls' = [calls EXCEPT ![c] = C]
    BY <1>5 DEF Goto
  <2> HIDE DEF C
  <2> QED
    BY <1>3, <2>1, <2>2
<1>6. ASSUME NEW k \in Keys, NEW ak \in ArtifactKeys, IngestCheckKey(c, k, ak)
      PROVE  ObjectsInv'
  <2> DEFINE C == [NoCall EXCEPT !.stage = "create document", !.pipeline = TRUE, !.key = ak]
  <2>1. C \in Call /\ C.stage \notin Holding /\ C.artifact = None
    BY DEF NoCall, Call, Stages, Holding
  <2>2. calls' = [calls EXCEPT ![c] = C]
    BY <1>6 DEF IngestCheckKey
  <2> HIDE DEF C
  <2> QED
    BY <1>3, <2>1, <2>2
<1>7. ASSUME NEW v \in Versions, NEW ak \in ArtifactKeys, UploadCall(c, v, ak)
      PROVE  ObjectsInv'
  <2> DEFINE d == versions[v].document
             C == [NoCall EXCEPT !.stage = "lock document", !.key = ak,
                                 !.document = d, !.version = v]
  <2>1. d \in Documents \cup {None}
    BY DEF ObjectsInv, UploadsTypeOK, TypeOK, VersionRow
  <2>2. calls' = [calls EXCEPT ![c] = C]
    BY <1>7 DEF UploadCall
  <2> HIDE DEF d
  <2>3. C \in Call /\ C.stage \notin Holding /\ C.artifact = None
    BY <2>1 DEF NoCall, Call, Stages, Holding
  <2> HIDE DEF C
  <2> QED
    BY <1>3, <2>2, <2>3
<1>8. CASE IngestCreateDocument(c) /\ ~ Return(c)
  <2> DEFINE d == CHOOSE e \in Documents : documents'[e] # documents[e]
             C == [calls[c] EXCEPT !.stage = "create version", !.document = d]
  <2>1. documents' # documents /\ calls' = [calls EXCEPT ![c] = C]
    BY <1>8 DEF IngestCreateDocument
  <2>2. /\ documents = [e \in Documents |-> documents[e]]
        /\ documents' = [e \in Documents |-> documents'[e]]
    BY DEF ObjectsInv, UploadsTypeOK, TypeOK
  <2>3. \E e \in Documents : documents'[e] # documents[e]
    BY <2>1, <2>2
  <2>4. d \in Documents
    BY <2>3
  <2> HIDE DEF d
  <2>5. C \in Call /\ C.stage \notin Holding /\ C.artifact = None
    BY <1>1, <1>2, <2>4 DEF Call, Stages, Holding
  <2> HIDE DEF C
  <2> QED
    BY <1>3, <2>1, <2>5
<1>9. CASE IngestCreateVersion(c) /\ ~ Return(c)
  <2> DEFINE v == CHOOSE w \in Versions : versions'[w] # versions[w]
             C == [calls[c] EXCEPT !.stage = "lock document", !.version = v]
  <2>1. versions' # versions /\ calls' = [calls EXCEPT ![c] = C]
    BY <1>9 DEF IngestCreateVersion
  <2>2. /\ versions = [w \in Versions |-> versions[w]]
        /\ versions' = [w \in Versions |-> versions'[w]]
    BY DEF ObjectsInv, UploadsTypeOK, TypeOK
  <2>3. \E w \in Versions : versions'[w] # versions[w]
    BY <2>1, <2>2
  <2>4. v \in Versions
    BY <2>3
  <2> HIDE DEF v
  <2>5. C \in Call /\ C.stage \notin Holding /\ C.artifact = None
    BY <1>1, <1>2, <2>4 DEF Call, Stages, Holding
  <2> HIDE DEF C
  <2> QED
    BY <1>3, <2>1, <2>5
<1>10. CASE IngestRequireDocument(c) \/ LockDocument(c)
  <2>1. {"insert version", "lock version"} \subseteq Stages \ Holding
    BY DEF Stages, Holding
  <2> QED
    BY <1>4, <1>5, <1>10, <2>1 DEF IngestRequireDocument, LockDocument
<1> QED
  BY <1>4, <1>6, <1>7, <1>8, <1>9, <1>10

\* A call that gets a new identifier, for an upload or for a row of its own.
LEMMA NewArtifactStep ==
    ASSUME ObjectsInv, TypeOK', NEW c \in Callers, NEW C \in Call, OnlyCalls,
           calls' = [calls EXCEPT ![c] = C], calls[c].stage \notin Holding,
           \E b \in Artifacts : ~ Used(b),
           C.stage \in {"put", "register"},
           C.artifact = CHOOSE b \in Artifacts : ~ Used(b)
    PROVE  ObjectsInv'
<1> DEFINE a == C.artifact
<1>1. /\ a \in Artifacts /\ a # None
      /\ artifacts[a].status = "absent" /\ a \notin objects /\ items[a] = "none"
      /\ \A q \in Callers : calls[q].artifact # a
  BY NewIdentifier
<1>2. C.artifact = a
  OBVIOUS
<1> HIDE DEF a
<1>3. calls'[c] = C /\ \A q \in Callers \ {c} : calls'[q] = calls[q]
  BY CallWrites DEF ObjectsInv
<1>4. AvarsTypeOK'
  BY DEF AvarsTypeOK, ObjectsInv, UploadsTypeOK, OnlyCalls
<1>5. calls[c].artifact = None
  BY DEF ObjectsInv, ArtifactHeld
<1>6. OnlyAbout(c, a)
  BY <1>2, <1>3, <1>5 DEF OnlyAbout, OnlyCalls
<1>7. ArtifactHeld(c)'
  <2>1. /\ items'[a] = "none" /\ artifacts'[a].status = "absent" /\ a \notin objects'
        /\ calls'[c].artifact = a /\ calls'[c].stage = C.stage
    BY <1>1, <1>2, <1>3 DEF OnlyCalls
  <2> QED
    BY <1>1, <2>1 DEF ArtifactHeld, Holding
<1>8. ArtifactOK(a)'
  BY <1>1 DEF ArtifactOK, OnlyCalls
<1> QED
  BY <1>1, <1>4, <1>6, <1>7, <1>8, OneArtifactStep

\* The version is a draft and is locked: the upload gets its identifier.
LEMMA LockDraftArtifacts ==
    ASSUME ObjectsInv, TypeOK', NEW c \in Callers, LockDraft(c)
    PROVE  ObjectsInv'
<1> DEFINE a == CHOOSE b \in Artifacts : ~ Used(b)
           C == [calls[c] EXCEPT !.stage = "put", !.artifact = a]
<1>1. calls[c] \in Call /\ calls[c].stage \notin Holding /\ OnlyCalls
  BY DEF LockDraft, At, Holding, ObjectsInv, UploadsTypeOK
<1>2. CASE (\E b \in Artifacts : ~ Used(b)) /\ calls' = [calls EXCEPT ![c] = C]
  <2>1. a \in Artifacts
    BY <1>2
  <2> HIDE DEF a
  <2>2. C \in Call /\ C.stage = "put" /\ C.artifact = a
    BY <1>1, <2>1 DEF Call, Stages
  <2> HIDE DEF C
  <2> QED
    BY <1>1, <1>2, <2>2, NewArtifactStep DEF a
<1>3. CASE Return(c)
  BY <1>1, <1>3, ReturnEarly
<1> QED
  BY <1>2, <1>3 DEF LockDraft

\* create_artifact's row names an object that the service has not put.
LEMMA RegisterCheckArtifacts ==
    ASSUME ObjectsInv, TypeOK', NEW c \in Callers, NEW v \in Versions,
           NEW ak \in ArtifactKeys, RegisterCheck(c, v, ak)
    PROVE  ObjectsInv'
<1> DEFINE a == CHOOSE b \in Artifacts : ~ Used(b)
           C == [NoCall EXCEPT !.stage = "register", !.version = v, !.key = ak,
                               !.artifact = a]
<1>1. /\ calls[c].stage \notin Holding /\ OnlyCalls /\ \E b \in Artifacts : ~ Used(b)
      /\ calls' = [calls EXCEPT ![c] = C]
  BY DEF RegisterCheck, At, Holding
<1>2. a \in Artifacts
  BY <1>1
<1> HIDE DEF a
<1>3. C \in Call /\ C.stage = "register" /\ C.artifact = a
  BY <1>2 DEF NoCall, Call, Stages
<1> HIDE DEF C
<1> QED
  BY <1>1, <1>3, NewArtifactStep DEF a

\* A call that has an artifact is the only one that does, and no item has it.
LEMMA HeldArtifact ==
    ASSUME ObjectsInv, NEW c \in Callers, calls[c].stage \in Holding
    PROVE  LET a == calls[c].artifact
           IN  /\ a \in Artifacts /\ a # None /\ items[a] = "none"
               /\ \A q \in Callers \ {c} : calls[q].artifact # a
<1>1. calls[c].artifact # None /\ items[calls[c].artifact] = "none"
  BY DEF ObjectsInv, ArtifactHeld
<1>2. calls[c].artifact \in Artifacts
  BY <1>1 DEF ObjectsInv, UploadsTypeOK, Call
<1> QED
  BY <1>1, <1>2 DEF ObjectsInv, OneHolder

\* A call that works on its artifact, and keeps it or is over.
LEMMA HolderStep ==
    ASSUME ObjectsInv, TypeOK', NEW c \in Callers, calls[c].stage \in Holding,
           NEW a, a = calls[c].artifact,
           artifacts' \in [Artifacts -> ArtifactRow], objects' \subseteq Artifacts,
           items' \in [Artifacts -> {"none", "queued", "loaded", "object missing", "unavailable"}],
           trouble' \in [Artifacts -> SUBSET Faults],
           \A b \in Artifacts \ {a} :
              /\ items'[b] = items[b] /\ artifacts'[b] = artifacts[b] /\ trouble'[b] = trouble[b]
              /\ b \in objects' <=> b \in objects,
           Return(c) \/ \E s \in Holding : Goto(c, s) /\ ArtifactHeld(c)',
           ArtifactOK(a)'
    PROVE  ObjectsInv'
<1>1. UploadsTypeOK
  BY DEF ObjectsInv
<1>2. \A q \in Callers \ {c} : a # None /\ calls[q].artifact # a
  BY HeldArtifact
<1>3. CASE Return(c)
  <2>1. /\ calls'[c].stage = "idle" /\ calls'[c].artifact = None
        /\ \A q \in Callers \ {c} : calls'[q] = calls[q]
    BY <1>1, <1>3, ReturnWrites, CallTypes
  <2>2. AvarsTypeOK'
    BY <1>1, <1>3, CallTypes DEF AvarsTypeOK
  <2>3. ArtifactHeld(c)'
    BY <2>1 DEF ArtifactHeld, Holding
  <2>4. OnlyAbout(c, a)
    BY <2>1 DEF OnlyAbout
  <2> QED
    BY <1>2, <2>2, <2>3, <2>4, OneArtifactStep
<1>4. ASSUME NEW s \in Holding, Goto(c, s), ArtifactHeld(c)'
      PROVE  ObjectsInv'
  <2>1. calls'[c].artifact = a /\ \A q \in Callers \ {c} : calls'[q] = calls[q]
    BY <1>1, <1>4, GotoWrites
  <2>2. s \in Stages
    BY <1>4 DEF Holding, Stages
  <2>3. AvarsTypeOK'
    BY <1>1, <1>4, <2>2, CallTypes DEF AvarsTypeOK
  <2>4. OnlyAbout(c, a)
    BY <2>1 DEF OnlyAbout
  <2> QED
    BY <1>2, <1>4, <2>3, <2>4, OneArtifactStep
<1> QED
  BY <1>3, <1>4

\* A put that raises leaves a trace in `trouble`, with the object or without.
LEMMA PutObjectArtifacts ==
    ASSUME ObjectsInv, TypeOK', NEW c \in Callers, PutObject(c)
    PROVE  ObjectsInv'
<1>1. PICK a : a = calls[c].artifact
  OBVIOUS
<1>2. calls[c].stage = "put" /\ "put" \in Holding /\ "add" \in Holding
  BY DEF PutObject, At, Holding
<1>3. /\ a \in Artifacts /\ a # None /\ items[a] = "none"
      /\ artifacts[a].status = "absent"
  BY <1>1, <1>2, HeldArtifact DEF ObjectsInv, ArtifactHeld
<1>4. /\ artifacts' = artifacts /\ items' = items
      /\ artifacts' \in [Artifacts -> ArtifactRow]
      /\ items' \in [Artifacts -> {"none", "queued", "loaded", "object missing", "unavailable"}]
  BY DEF PutObject, ObjectsInv, UploadsTypeOK
<1>5. /\ objects' \in {objects, objects \cup {a}} /\ objects' \subseteq Artifacts
  BY <1>1, <1>3 DEF PutObject, ObjectsInv, UploadsTypeOK
<1>6. CASE objects' = objects \cup {a} /\ Goto(c, "add") /\ UNCHANGED trouble
  <2>1. calls'[c].stage = "add" /\ calls'[c].artifact = a
    BY <1>1, <1>6, GotoWrites DEF ObjectsInv
  <2>2. ArtifactHeld(c)'
    BY <1>3, <1>4, <1>6, <2>1 DEF ArtifactHeld, Holding
  <2>3. ArtifactOK(a)'
    BY <1>3, <1>4, <1>6, <2>1 DEF ArtifactOK
  <2>4. trouble' \in [Artifacts -> SUBSET Faults]
    BY <1>6 DEF ObjectsInv, UploadsTypeOK
  <2> QED
    BY <1>1, <1>2, <1>4, <1>5, <1>6, <2>2, <2>3, <2>4, HolderStep, ZenonT(30)
<1>7. CASE trouble' = [trouble EXCEPT ![a] = @ \cup {"put raised"}] /\ Return(c)
  <2>1. /\ trouble' \in [Artifacts -> SUBSET Faults] /\ trouble'[a] # {}
        /\ \A b \in Artifacts \ {a} : trouble'[b] = trouble[b]
    BY <1>3, <1>7 DEF ObjectsInv, UploadsTypeOK, Faults
  <2>2. ArtifactOK(a)'
    BY <1>3, <1>4, <2>1 DEF ArtifactOK
  <2> QED
    BY <1>1, <1>2, <1>4, <1>5, <1>7, <2>1, <2>2, HolderStep, ZenonT(30)
<1> QED
  BY <1>1, <1>6, <1>7 DEF PutObject

\* The row is inserted while the object is there; if that fails, or seems to,
\* the call goes on to delete the object.
LEMMA AddArtifactArtifacts ==
    ASSUME ObjectsInv, TypeOK', NEW c \in Callers, AddArtifact(c)
    PROVE  ObjectsInv'
<1> DEFINE row == NewRow(calls[c].version, calls[c].key, TRUE)
<1>1. PICK a : a = calls[c].artifact
  OBVIOUS
<1>2. /\ calls[c].stage = "add" /\ "add" \in Holding
      /\ "create run" \in Holding /\ "compensate" \in Holding
  BY DEF AddArtifact, At, Holding
<1>3. /\ a \in Artifacts /\ a # None /\ items[a] = "none"
      /\ artifacts[a].status = "absent" /\ a \in objects
  BY <1>1, <1>2, HeldArtifact DEF ObjectsInv, ArtifactHeld
<1>4. /\ objects' = objects /\ items' = items /\ objects' \subseteq Artifacts
      /\ items' \in [Artifacts -> {"none", "queued", "loaded", "object missing", "unavailable"}]
  BY DEF AddArtifact, ObjectsInv, UploadsTypeOK
<1>5. row \in ArtifactRow /\ row.status = "available"
  <2>1. calls[c] \in Call
    BY DEF ObjectsInv, UploadsTypeOK
  <2> QED
    BY <2>1 DEF NewRow, ArtifactRow, ArtifactStatuses, Call
<1>6. ASSUME artifacts' = [artifacts EXCEPT ![a] = row]
      PROVE  /\ artifacts' \in [Artifacts -> ArtifactRow] /\ artifacts'[a].status # "absent"
             /\ \A b \in Artifacts \ {a} : artifacts'[b] = artifacts[b]
  BY <1>3, <1>5, <1>6 DEF ObjectsInv, UploadsTypeOK
<1>7. CASE /\ artifacts' = [artifacts EXCEPT ![a] = row] /\ UNCHANGED trouble
           /\ Goto(c, "create run") \/ Return(c)
  <2>1. trouble' \in [Artifacts -> SUBSET Faults]
    BY <1>7 DEF ObjectsInv, UploadsTypeOK
  <2>2. ArtifactOK(a)'
    BY <1>3, <1>4, <1>6, <1>7 DEF ArtifactOK
  <2>3. ASSUME Goto(c, "create run")
        PROVE  ArtifactHeld(c)'
    <3>1. calls'[c].stage = "create run" /\ calls'[c].artifact = a
      BY <1>1, <2>3, GotoWrites DEF ObjectsInv
    <3> QED
      BY <1>3, <1>4, <1>6, <1>7, <3>1 DEF ArtifactHeld, Holding
  <2> QED
    BY <1>1, <1>2, <1>4, <1>6, <1>7, <2>1, <2>2, <2>3, HolderStep
<1>8. CASE /\ artifacts' = [artifacts EXCEPT ![a] = row] /\ Goto(c, "compensate")
           /\ trouble' = [trouble EXCEPT ![a] = @ \cup {"answer lost"}]
  <2>1. /\ trouble' \in [Artifacts -> SUBSET Faults] /\ "answer lost" \in trouble'[a]
        /\ \A b \in Artifacts \ {a} : trouble'[b] = trouble[b]
    BY <1>3, <1>8 DEF ObjectsInv, UploadsTypeOK, Faults
  <2>2. ArtifactOK(a)'
    BY <1>3, <1>4, <1>6, <1>8, <2>1 DEF ArtifactOK
  <2>3. calls'[c].stage = "compensate" /\ calls'[c].artifact = a
    BY <1>1, <1>8, GotoWrites DEF ObjectsInv
  <2>4. ArtifactHeld(c)'
    BY <1>3, <1>4, <2>1, <2>3 DEF ArtifactHeld, Holding
  <2> QED
    BY <1>1, <1>2, <1>4, <1>6, <1>8, <2>1, <2>2, <2>4, HolderStep, ZenonT(30)
<1>9. CASE Goto(c, "compensate") /\ UNCHANGED <<artifacts, trouble>>
  <2>1. /\ artifacts' \in [Artifacts -> ArtifactRow]
        /\ trouble' \in [Artifacts -> SUBSET Faults]
    BY <1>9 DEF ObjectsInv, UploadsTypeOK
  <2>2. calls'[c].stage = "compensate" /\ calls'[c].artifact = a
    BY <1>1, <1>9, GotoWrites DEF ObjectsInv
  <2>3. ArtifactHeld(c)' /\ ArtifactOK(a)'
    BY <1>3, <1>4, <1>9, <2>2 DEF ArtifactHeld, ArtifactOK, Holding
  <2> QED
    BY <1>1, <1>2, <1>4, <1>9, <2>1, <2>3, HolderStep
<1> QED
  BY <1>1, <1>7, <1>8, <1>9 DEF AddArtifact

\* The compensation deletes an object whose row is not there, or is there after
\* all although the answer was lost; a deletion that fails leaves a trace.
LEMMA CompensateArtifacts ==
    ASSUME ObjectsInv, TypeOK', NEW c \in Callers, Compensate(c)
    PROVE  ObjectsInv'
<1>1. PICK a : a = calls[c].artifact
  OBVIOUS
<1>2. calls[c].stage = "compensate" /\ "compensate" \in Holding
  BY DEF Compensate, At, Holding
<1>3. /\ a \in Artifacts /\ a # None /\ items[a] = "none" /\ ArtifactOK(a)
      /\ artifacts[a].status = "absent" \/ "answer lost" \in trouble[a]
  BY <1>1, <1>2, HeldArtifact DEF ObjectsInv, ArtifactHeld
<1>4. /\ artifacts' = artifacts /\ items' = items /\ Return(c)
      /\ artifacts' \in [Artifacts -> ArtifactRow]
      /\ items' \in [Artifacts -> {"none", "queued", "loaded", "object missing", "unavailable"}]
  BY DEF Compensate, ObjectsInv, UploadsTypeOK
<1>5. CASE objects' = objects \ {a} /\ UNCHANGED trouble
  <2>1. objects' \subseteq Artifacts /\ trouble' \in [Artifacts -> SUBSET Faults]
    BY <1>5 DEF ObjectsInv, UploadsTypeOK
  <2>2. ArtifactOK(a)'
    BY <1>3, <1>4, <1>5 DEF ArtifactOK
  <2> QED
    BY <1>1, <1>2, <1>4, <1>5, <2>1, <2>2, HolderStep, ZenonT(30)
<1>6. CASE trouble' = [trouble EXCEPT ![a] = @ \cup {"delete failed"}] /\ UNCHANGED objects
  <2>1. /\ trouble' \in [Artifacts -> SUBSET Faults] /\ objects' \subseteq Artifacts
        /\ trouble'[a] = trouble[a] \cup {"delete failed"}
        /\ \A b \in Artifacts \ {a} : trouble'[b] = trouble[b]
    BY <1>3, <1>6 DEF ObjectsInv, UploadsTypeOK, Faults
  <2>2. ArtifactOK(a)'
    BY <1>3, <1>4, <1>6, <2>1 DEF ArtifactOK
  <2> QED
    BY <1>1, <1>2, <1>4, <1>6, <2>1, <2>2, HolderStep, ZenonT(30)
<1> QED
  BY <1>1, <1>5, <1>6 DEF Compensate, DeleteObject

\* The pipeline goes on with the row and the object there.
LEMMA CreateRunArtifacts ==
    ASSUME ObjectsInv, TypeOK', NEW c \in Callers, CreateRun(c)
    PROVE  ObjectsInv'
<1>1. PICK a : a = calls[c].artifact
  OBVIOUS
<1>2. calls[c].stage = "create run" /\ {"create run", "add item"} \subseteq Holding
  BY DEF CreateRun, At, Holding
<1>3. /\ a \in Artifacts /\ a # None /\ items[a] = "none"
      /\ artifacts[a].status # "absent" /\ a \in objects
  BY <1>1, <1>2, HeldArtifact DEF ObjectsInv, ArtifactHeld
<1>4. OnlyCalls
  BY DEF CreateRun
<1>5. /\ artifacts' \in [Artifacts -> ArtifactRow] /\ objects' \subseteq Artifacts
      /\ items' \in [Artifacts -> {"none", "queued", "loaded", "object missing", "unavailable"}]
      /\ trouble' \in [Artifacts -> SUBSET Faults]
  BY <1>4 DEF OnlyCalls, ObjectsInv, UploadsTypeOK
<1>6. ArtifactOK(a)'
  BY <1>3, <1>4 DEF OnlyCalls, ArtifactOK
<1>7. ASSUME Goto(c, "add item")
      PROVE  ArtifactHeld(c)'
  <2>1. calls'[c].stage = "add item" /\ calls'[c].artifact = a
    BY <1>1, <1>7, GotoWrites DEF ObjectsInv
  <2> QED
    BY <1>3, <1>4, <2>1 DEF OnlyCalls, ArtifactHeld, Holding
<1> QED
  BY <1>1, <1>2, <1>4, <1>5, <1>6, <1>7, HolderStep DEF CreateRun, OnlyCalls

\* The item that is queued has its object.
LEMMA QueueItemArtifacts ==
    ASSUME ObjectsInv, TypeOK', NEW c \in Callers, QueueItem(c)
    PROVE  ObjectsInv'
<1>1. PICK a : a = calls[c].artifact
  OBVIOUS
<1>2. calls[c].stage = "add item" /\ "add item" \in Holding
  BY DEF QueueItem, At, Holding
<1>3. a \in Artifacts /\ artifacts[a].status # "absent" /\ a \in objects
  BY <1>1, <1>2, HeldArtifact DEF ObjectsInv, ArtifactHeld
<1>4. /\ UNCHANGED <<artifacts, objects, trouble>> /\ Return(c)
      /\ items' = [items EXCEPT ![a] = "queued"]
  BY <1>1 DEF QueueItem
<1>5. /\ artifacts' \in [Artifacts -> ArtifactRow] /\ objects' \subseteq Artifacts
      /\ items' \in [Artifacts -> {"none", "queued", "loaded", "object missing", "unavailable"}]
      /\ items'[a] = "queued" /\ \A b \in Artifacts \ {a} : items'[b] = items[b]
      /\ trouble' \in [Artifacts -> SUBSET Faults]
  BY <1>3, <1>4 DEF ObjectsInv, UploadsTypeOK
<1>6. ArtifactOK(a)'
  BY <1>3, <1>4, <1>5 DEF ArtifactOK
<1> QED
  BY <1>1, <1>2, <1>4, <1>5, <1>6, HolderStep

\* A registered row is not one of an upload.
LEMMA RegisterInsertArtifacts ==
    ASSUME ObjectsInv, TypeOK', NEW c \in Callers, RegisterInsert(c)
    PROVE  ObjectsInv'
<1> DEFINE row == NewRow(calls[c].version, calls[c].key, FALSE)
<1>1. PICK a : a = calls[c].artifact
  OBVIOUS
<1>2. calls[c].stage = "register" /\ "register" \in Holding
  BY DEF RegisterInsert, At, Holding
<1>3. /\ a \in Artifacts /\ items[a] = "none" /\ a \notin objects
      /\ artifacts[a].status = "absent"
  BY <1>1, <1>2, HeldArtifact DEF ObjectsInv, ArtifactHeld
<1>4. /\ UNCHANGED <<objects, items, trouble>> /\ Return(c)
      /\ artifacts' \in {artifacts, [artifacts EXCEPT ![a] = row]}
  BY <1>1 DEF RegisterInsert
<1>5. row \in ArtifactRow /\ row.uploaded = FALSE
  <2>1. calls[c] \in Call
    BY DEF ObjectsInv, UploadsTypeOK
  <2> QED
    BY <2>1 DEF NewRow, ArtifactRow, ArtifactStatuses, Call
<1>6. /\ artifacts' \in [Artifacts -> ArtifactRow] /\ objects' \subseteq Artifacts
      /\ artifacts'[a] \in {artifacts[a], row}
      /\ \A b \in Artifacts \ {a} : artifacts'[b] = artifacts[b]
      /\ items' \in [Artifacts -> {"none", "queued", "loaded", "object missing", "unavailable"}]
      /\ trouble' \in [Artifacts -> SUBSET Faults]
  BY <1>3, <1>4, <1>5 DEF ObjectsInv, UploadsTypeOK
<1>7. ArtifactOK(a)'
  <2>1. artifacts'[a].status = "absent" \/ artifacts'[a].uploaded = FALSE
    BY <1>3, <1>5, <1>6
  <2>2. items'[a] = "none" /\ a \notin objects'
    BY <1>3, <1>4
  <2> QED
    BY <2>1, <2>2 DEF ArtifactOK
<1> QED
  BY <1>1, <1>2, <1>4, <1>6, <1>7, HolderStep

\* A crash gives the artifact up, and leaves a trace.
LEMMA CrashArtifacts ==
    ASSUME ObjectsInv, TypeOK', NEW c \in Callers, Crash(c)
    PROVE  ObjectsInv'
<1>1. PICK a : a = calls[c].artifact
  OBVIOUS
<1>2. /\ UNCHANGED <<artifacts, objects, items>> /\ Return(c)
      /\ trouble' = [b \in Artifacts |-> IF b = a THEN trouble[b] \cup {"crash"} ELSE trouble[b]]
  BY <1>1 DEF Crash
<1>3. CASE calls[c].stage \notin Holding
  <2>1. a = None
    BY <1>1, <1>3 DEF ObjectsInv, ArtifactHeld
  <2>2. trouble' = trouble
    BY <1>2, <2>1, ArtifactsAssumption DEF ObjectsInv, UploadsTypeOK
  <2> QED
    BY <1>2, <1>3, <2>2, ReturnEarly DEF OnlyCalls
<1>4. CASE calls[c].stage \in Holding
  <2>1. a \in Artifacts /\ items[a] = "none" /\ ArtifactOK(a)
    BY <1>1, <1>4, HeldArtifact DEF ObjectsInv
  <2>2. /\ artifacts' \in [Artifacts -> ArtifactRow] /\ objects' \subseteq Artifacts
        /\ items' \in [Artifacts -> {"none", "queued", "loaded", "object missing", "unavailable"}]
        /\ trouble' \in [Artifacts -> SUBSET Faults]
        /\ trouble'[a] = trouble[a] \cup {"crash"}
        /\ \A b \in Artifacts \ {a} : trouble'[b] = trouble[b]
    BY <1>2, <2>1 DEF ObjectsInv, UploadsTypeOK, Faults
  <2>3. ArtifactOK(a)'
    BY <1>2, <2>1, <2>2 DEF ArtifactOK
  <2> QED
    BY <1>1, <1>2, <1>4, <2>2, <2>3, HolderStep
<1> QED
  BY <1>3, <1>4

-----------------------------------------------------------------------------
(* The steps of no call.                                                   *)

\* _transition changes the status of a row that is there to another.
LEMMA TransitionArtifacts ==
    ASSUME ObjectsInv, TypeOK', NEW a \in Artifacts, NEW s \in ArtifactStatuses, Transition(a, s)
    PROVE  ObjectsInv'
<1>1. /\ UNCHANGED <<objects, items, calls, trouble>>
      /\ artifacts' = [artifacts EXCEPT ![a].status = s]
  BY DEF Transition, SetStatus
<1>2. artifacts[a] \in ArtifactRow
  BY DEF ObjectsInv, UploadsTypeOK
<1>3. artifacts[a].status # "absent" /\ s # "absent"
  <2>1. artifacts[a].status \in ArtifactStatuses /\ s \in ValidTransitions[artifacts[a].status]
    BY <1>2 DEF Transition, ArtifactRow
  <2> QED
    BY <2>1 DEF ValidTransitions, ArtifactStatuses
<1>4. /\ artifacts' \in [Artifacts -> ArtifactRow]
      /\ artifacts'[a].status # "absent" /\ artifacts'[a].uploaded = artifacts[a].uploaded
      /\ \A b \in Artifacts \ {a} : artifacts'[b] = artifacts[b]
  BY <1>1, <1>2, <1>3 DEF ObjectsInv, UploadsTypeOK, ArtifactRow
<1>5. UploadsTypeOK' /\ OneHolder'
  BY <1>1, <1>4 DEF ObjectsInv, UploadsTypeOK, OneHolder
<1>6. ASSUME NEW c \in Callers
      PROVE  ArtifactHeld(c)'
  <2>1. ArtifactHeld(c) /\ calls[c].artifact \in Artifacts \cup {None}
    BY DEF ObjectsInv, UploadsTypeOK, Call
  <2>2. CASE calls[c].artifact = a
    BY <1>1, <1>3, <1>4, <2>1, <2>2 DEF ArtifactHeld
  <2>3. CASE calls[c].artifact \in Artifacts \ {a}
    BY <1>1, <1>4, <2>1, <2>3 DEF ArtifactHeld
  <2>4. CASE calls[c].artifact = None
    BY <1>1, <2>1, <2>4 DEF ArtifactHeld, Holding
  <2> QED
    BY <2>1, <2>2, <2>3, <2>4
<1>7. ASSUME NEW b \in Artifacts
      PROVE  ArtifactOK(b)'
  <2>1. ArtifactOK(b)
    BY DEF ObjectsInv
  <2>2. CASE b = a
    BY <1>1, <1>3, <1>4, <2>1, <2>2 DEF ArtifactOK
  <2>3. CASE b # a
    BY <1>1, <1>4, <2>1, <2>3 DEF ArtifactOK
  <2> QED
    BY <2>2, <2>3
<1> QED
  BY <1>5, <1>6, <1>7 DEF ObjectsInv

\* The worker finds the object of the item it loads.
LEMMA LoadItemArtifacts ==
    ASSUME ObjectsInv, TypeOK', NEW a \in Artifacts, LoadItem(a)
    PROVE  ObjectsInv'
<1>1. items[a] = "queued" /\ UNCHANGED <<artifacts, objects, calls, trouble>>
  BY DEF LoadItem
<1>2. a \in objects
  BY <1>1 DEF ObjectsInv, ArtifactOK
<1>3. /\ items' \in [Artifacts -> {"none", "queued", "loaded", "object missing", "unavailable"}]
      /\ items'[a] \in {"loaded", "unavailable"}
      /\ \A b \in Artifacts \ {a} : items'[b] = items[b]
  BY <1>2 DEF LoadItem, ObjectFound, ObjectsInv, UploadsTypeOK
<1>4. UploadsTypeOK' /\ OneHolder'
  BY <1>1, <1>3 DEF ObjectsInv, UploadsTypeOK, OneHolder
<1>5. ASSUME NEW c \in Callers
      PROVE  ArtifactHeld(c)'
  <2>1. ArtifactHeld(c) /\ calls[c].artifact \in Artifacts \cup {None}
    BY DEF ObjectsInv, UploadsTypeOK, Call
  <2>2. calls[c].artifact # a
    BY <1>1, <2>1, ArtifactsAssumption DEF ArtifactHeld
  <2> QED
    BY <1>1, <1>3, <2>1, <2>2 DEF ArtifactHeld
<1>6. ASSUME NEW b \in Artifacts
      PROVE  ArtifactOK(b)'
  <2>1. ArtifactOK(b)
    BY DEF ObjectsInv
  <2>2. CASE b = a
    BY <1>1, <1>2, <1>3, <2>1, <2>2 DEF ArtifactOK
  <2>3. CASE b # a
    BY <1>1, <1>3, <2>1, <2>3 DEF ArtifactOK
  <2> QED
    BY <2>2, <2>3
<1> QED
  BY <1>4, <1>5, <1>6 DEF ObjectsInv

\* Where calls, artifacts and objects stay as they are, so does what is about them.
LEMMA SameArtifacts ==
    ASSUME ObjectsInv, TypeOK', UNCHANGED avars
    PROVE  ObjectsInv'
<1>1. UploadsTypeOK' /\ OneHolder'
  BY DEF avars, ObjectsInv, UploadsTypeOK, OneHolder
<1>2. \A c \in Callers : ArtifactHeld(c)'
  BY DEF avars, ObjectsInv, ArtifactHeld
<1>3. \A a \in Artifacts : ArtifactOK(a)'
  BY DEF avars, ObjectsInv, ArtifactOK
<1> QED
  BY <1>1, <1>2, <1>3 DEF ObjectsInv

-----------------------------------------------------------------------------
(* The invariant.                                                          *)

\* It holds of empty tables, an empty bucket and no calls.
LEMMA UploadsStart == UploadsInit => UInv
<1> SUFFICES ASSUME UploadsInit PROVE UInv
  OBVIOUS
<1>1. VInv
  BY VersionsInit DEF UploadsInit
<1>2. VersionsHaveDocuments
  BY DEF UploadsInit, Init, VersionsHaveDocuments
<1>3. \A c \in Callers : calls[c].stage = "idle" /\ calls[c].artifact = None /\ calls[c] \in Call
  BY DEF UploadsInit, NoCall, Call, Stages
<1>4. \A c \in Callers : TargetHeld(c)
  BY <1>3 DEF TargetHeld, Targeted
<1>5. \A c \in Callers : ArtifactHeld(c)
  BY <1>3 DEF ArtifactHeld, Holding
<1>6. OneHolder
  BY <1>3 DEF OneHolder
<1>7. UploadsTypeOK
  BY <1>1, <1>3 DEF VInv, UploadsInit, UploadsTypeOK, ArtifactRow, ArtifactStatuses
<1>8. \A a \in Artifacts : ArtifactOK(a)
  BY DEF UploadsInit, ArtifactOK
<1> QED
  BY <1>1, <1>2, <1>4, <1>5, <1>6, <1>7, <1>8 DEF UInv, RowsInv, ObjectsInv

\* Every step keeps it.
LEMMA UploadsInvariance ==
    ASSUME UInv, [UploadsNext]_vars
    PROVE  UInv'
<1>1. RowsInv /\ ObjectsInv /\ UploadsTypeOK
  BY DEF UInv, ObjectsInv
<1>2. RowsInv' /\ TypeOK'
  BY <1>1, RowsInvariance DEF RowsInv, VInv
<1>3. ASSUME NEW c \in Callers, CallStep(c) \/ Crash(c)
      PROVE  ObjectsInv'
  BY <1>1, <1>2, <1>3, EarlySteps, LockDraftArtifacts, PutObjectArtifacts, AddArtifactArtifacts,
     CompensateArtifacts, CreateRunArtifacts, QueueItemArtifacts, RegisterInsertArtifacts,
     CrashArtifacts DEF CallStep
<1>4. ASSUME NEW c \in Callers,
             \/ \E k \in Keys, ak \in ArtifactKeys : IngestCheckKey(c, k, ak)
             \/ \E v \in Versions, ak \in ArtifactKeys : UploadCall(c, v, ak)
             \/ \E v \in Versions, ak \in ArtifactKeys : RegisterCheck(c, v, ak)
      PROVE  ObjectsInv'
  BY <1>1, <1>2, <1>4, EarlySteps, RegisterCheckArtifacts
<1>5. ASSUME UNCHANGED avars
      PROVE  ObjectsInv'
  BY <1>1, <1>2, <1>5, SameArtifacts
<1>6. ASSUME NEW a \in Artifacts, (\E s \in ArtifactStatuses : Transition(a, s)) \/ LoadItem(a)
      PROVE  ObjectsInv'
  BY <1>1, <1>2, <1>6, TransitionArtifacts, LoadItemArtifacts
<1>7. ObjectsInv'
  BY <1>3, <1>4, <1>5, <1>6 DEF UploadsNext, vars
<1> QED
  BY <1>2, <1>7 DEF UInv

\* The inductive invariant holds in every behaviour.
THEOREM UploadsInvariant == UploadsSpec => []UInv
BY UploadsStart, UploadsInvariance, PTL DEF UploadsSpec

-----------------------------------------------------------------------------
(* The properties.                                                         *)

\* Artifacts, objects, items and calls keep their types.
THEOREM UploadTypes == UploadsSpec => []UploadsTypeOK
<1>1. UInv => UploadsTypeOK
  BY DEF UInv, ObjectsInv
<1> QED
  BY <1>1, UploadsInvariant, PTL

\* Nothing the pipeline has queued fails because the object is not there: the
\* compensation deletes it only on paths on which nothing is queued.
THEOREM QueuedItemsHaveObjects == UploadsSpec => []QueuedItemHasObject
<1>1. UInv => QueuedItemHasObject
  BY DEF UInv, ObjectsInv, ArtifactOK, QueuedItemHasObject
<1> QED
  BY <1>1, UploadsInvariant, PTL

\* An uploaded row without its object is one whose commit had its answer lost.
THEOREM RowsHaveObjects == UploadsSpec => []RowHasObject
<1>1. UInv => RowHasObject
  BY DEF UInv, ObjectsInv, ArtifactOK, RowHasObject
<1> QED
  BY <1>1, UploadsInvariant, PTL

\* An object without a row is that of an upload under way or of one that failed.
THEOREM ObjectsHaveRows == UploadsSpec => []NoOrphans
<1>1. UInv => NoOrphans
  BY DEF UInv, ObjectsInv, UploadsTypeOK, ArtifactOK, NoOrphans
<1> QED
  BY <1>1, UploadsInvariant, PTL

\* What DocumentVersions promises of effective periods holds with uploads too,
\* whose row locks are taken besides those of its own requests.
THEOREM UploadsKeepPeriods == UploadsSpec => [](Exclusive /\ EndsWhereSuccessorStarts)
<1>1. UInv => Exclusive /\ EndsWhereSuccessorStarts
  BY DEF UInv, RowsInv, VInv
<1> QED
  BY <1>1, UploadsInvariant, PTL

\* An upload's row joins a version that is a draft of an active document when the
\* row is committed, because both stay locked through the call of the store.
THEOREM UploadsOfDrafts == UploadsSpec => UploadsJoinDrafts
<1>1. ASSUME UInv, [UploadsNext]_vars, NEW a \in Artifacts,
             artifacts[a].status = "absent", artifacts'[a].status # "absent",
             artifacts'[a].uploaded
      PROVE  LET v == artifacts'[a].version
             IN  /\ versions[v].status = "draft"
                 /\ documents[versions[v].document].state = "active"
  <2>1. artifacts \in [Artifacts -> ArtifactRow]
    BY <1>1 DEF UInv, ObjectsInv, UploadsTypeOK
  <2>2. \A s : /\ ~ Transition(a, s)
              /\ \A b \in Artifacts \ {a} : Transition(b, s) => artifacts'[a] = artifacts[a]
    BY <1>1, <2>1 DEF Transition, SetStatus, ValidTransitions
  <2>3. ASSUME NEW c \in Callers, RegisterInsert(c)
        PROVE  FALSE
    BY <1>1, <2>1, <2>3 DEF RegisterInsert, NewRow
  <2>4. PICK c \in Callers : AddArtifact(c)
    BY <1>1, <2>1, <2>2, <2>3
       DEF UploadsNext, CallStep, IngestCheckKey, UploadCall, RegisterCheck, IngestCreateDocument,
           IngestRequireDocument, IngestCreateVersion, LockDocument, LockDraft, PutObject,
           Compensate, CreateRun, QueueItem, Crash, LoadItem, OnlyCalls, vars, avars
  <2>5. artifacts' = [artifacts EXCEPT ![calls[c].artifact] =
                                    NewRow(calls[c].version, calls[c].key, TRUE)]
    BY <1>1, <2>4 DEF AddArtifact
  <2>6. artifacts'[a].version = calls[c].version
    BY <1>1, <2>1, <2>5 DEF NewRow
  <2>7. TargetHeld(c) /\ calls[c].stage = "add"
    BY <1>1, <2>4 DEF UInv, RowsInv, AddArtifact, At
  <2> QED
    BY <2>6, <2>7 DEF TargetHeld, Targeted
<1>2. UInv /\ [UploadsNext]_vars =>
        [\A a \in Artifacts :
            artifacts[a].status = "absent"
                    /\ artifacts'[a].status # "absent" /\ artifacts'[a].uploaded
                => LET v == artifacts'[a].version
                   IN  versions[v].status = "draft"
                       /\ documents[versions[v].document].state = "active"]_vars
  BY <1>1
<1> QED
  BY <1>2, UploadsInvariant, PTL DEF UploadsSpec, UploadsJoinDrafts

=============================================================================
