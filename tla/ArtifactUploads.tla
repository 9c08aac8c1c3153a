--------------------------- MODULE ArtifactUploads ---------------------------
(***************************************************************************)
(* Uploads of artifacts and the ingestion pipeline that calls them.  A row *)
(* of knowledge.document_artifacts names an object in the object store,    *)
(* and the two cannot be written together: the object is put while the     *)
(* transaction that will add the row is open, and is deleted again when    *)
(* the service believes that the row was not committed.                    *)
(*                                                                         *)
(* The documents and versions, their row locks and the requests that       *)
(* publish, withdraw and delete are those of DocumentVersions.  A call is  *)
(* one of the requests there; which step of the call comes next is in      *)
(* `calls`.  The storage key of an upload is made of the artifact's        *)
(* identifier, so the object has the same name here.                       *)
(***************************************************************************)
EXTENDS DocumentVersions

CONSTANTS
    Artifacts,     \* identifiers an artifact may get
    ArtifactKeys,  \* artifact keys a client may name
    Callers        \* the requests that upload; the others work on versions

ASSUME CallersAssumption == Callers \subseteq Requests
ASSUME ArtifactsAssumption == None \notin Artifacts \cup ArtifactKeys

VARIABLES
    artifacts,  \* rows of knowledge.document_artifacts
    objects,    \* the names in the bucket
    items,      \* ingestion items of the pipeline, by their artifact
    calls,      \* where each call is
    trouble     \* the faults an artifact's upload has met; not in the code

avars == <<artifacts, objects, items, calls, trouble>>
vars == <<dvars, avars>>

ArtifactStatuses == {"absent", "available", "missing", "retired", "deleted"}
Faults == {"put raised", "delete failed", "answer lost", "crash"}

ArtifactRow ==
    [status : ArtifactStatuses, version : Versions \cup {None},
     key : ArtifactKeys \cup {None}, uploaded : BOOLEAN]

Stages == {"idle", "create document", "create version", "insert version",
           "lock document", "lock version", "put", "add", "compensate",
           "create run", "add item", "register"}

Call ==
    [stage : Stages, pipeline : BOOLEAN, document : Documents \cup {None},
     version : Versions \cup {None}, key : ArtifactKeys \cup {None},
     artifact : Artifacts \cup {None}]

NoCall == [stage |-> "idle", pipeline |-> FALSE, document |-> None,
           version |-> None, key |-> None, artifact |-> None]

UploadsTypeOK ==
    /\ TypeOK
    /\ artifacts \in [Artifacts -> ArtifactRow]
    /\ objects \subseteq Artifacts
    /\ items \in [Artifacts -> {"none", "queued", "loaded", "object missing", "unavailable"}]
    /\ calls \in [Callers -> Call]
    /\ trouble \in [Artifacts -> SUBSET Faults]

UploadsInit ==
    /\ Init
    /\ artifacts = [a \in Artifacts |-> [status |-> "absent", version |-> None,
                                         key |-> None, uploaded |-> FALSE]]
    /\ objects = {}
    /\ items = [a \in Artifacts |-> "none"]
    /\ calls = [c \in Callers |-> NoCall]
    /\ trouble = [a \in Artifacts |-> {}]

-----------------------------------------------------------------------------
(* Helpers *)

OnlyCalls == UNCHANGED <<artifacts, objects, items, trouble>>

At(c, stage) == calls[c].stage = stage
Goto(c, stage) == calls' = [calls EXCEPT ![c].stage = stage]
Return(c) == calls' = [calls EXCEPT ![c] = NoCall]

\* Rows and names in use; a new identifier is none of them.
Used(a) ==
    \/ artifacts[a].status # "absent"
    \/ a \in objects
    \/ trouble[a] # {}
    \/ \E c \in Callers : calls[c].artifact = a

ArtifactKeyExists(v, k) ==
    \E a \in Artifacts : artifacts[a].status # "absent"
                         /\ artifacts[a].version = v /\ artifacts[a].key = k

NewRow(v, k, uploaded) ==
    [status |-> "available", version |-> v, key |-> k, uploaded |-> uploaded]

-----------------------------------------------------------------------------
(* The pipeline: five transactions of five services, one after the other.  *)

IngestCheckKey(c, k, ak) ==
    /\ At(c, "idle")
    /\ CheckCanonicalKey(c, k)
    /\ calls' = [calls EXCEPT ![c] =
            [NoCall EXCEPT !.stage = "create document", !.pipeline = TRUE, !.key = ak]]
    /\ OnlyCalls

IngestCreateDocument(c) ==
    /\ At(c, "create document")
    /\ InsertDocument(c)
    /\ IF documents' = documents THEN Return(c)
       ELSE calls' = [calls EXCEPT ![c].stage = "create version",
                        ![c].document = CHOOSE d \in Documents : documents'[d] # documents[d]]
    /\ OnlyCalls

IngestRequireDocument(c) ==
    LET d == calls[c].document
    IN  /\ At(c, "create version")
        /\ \/ RequireActiveDocument(c, d) /\ Goto(c, "insert version")
           \/ documents[d].state = "deleted" /\ Return(c) /\ UNCHANGED dvars
        /\ OnlyCalls

IngestCreateVersion(c) ==
    /\ At(c, "insert version")
    /\ InsertVersion(c)
    /\ IF versions' = versions THEN Return(c)
       ELSE calls' = [calls EXCEPT ![c].stage = "lock document",
                        ![c].version = CHOOSE v \in Versions : versions'[v] # versions[v]]
    /\ OnlyCalls

\* The chunking configuration is read only now, and may be refused.
CreateRun(c) ==
    /\ At(c, "create run")
    /\ Goto(c, "add item") \/ Return(c)
    /\ OnlyCalls
    /\ UNCHANGED dvars

\* add_item and its outbox row; IngestionSystem has what follows.
QueueItem(c) ==
    /\ At(c, "add item")
    /\ items' = [items EXCEPT ![calls[c].artifact] = "queued"]
    /\ Return(c)
    /\ UNCHANGED <<dvars, artifacts, objects, trouble>>

-----------------------------------------------------------------------------
(* upload *)

\* Mutant: the target is not validated.
UploadUnvalidated(c, v, ak) ==
    /\ At(c, "idle")
    /\ requests[c].phase = "idle"
    /\ versions[v].status # "absent"
    /\ calls' = [calls EXCEPT ![c] =
            [NoCall EXCEPT !.stage = "put", !.key = ak,
                           !.document = versions[v].document, !.version = v]]
    /\ OnlyCalls
    /\ UNCHANGED dvars

\* The route: any document and version a client names.
UploadCall(c, v, ak) ==
    /\ At(c, "idle")
    /\ requests[c].phase = "idle"
    /\ versions[v].status # "absent"
    /\ calls' = [calls EXCEPT ![c] =
            [NoCall EXCEPT !.stage = "lock document", !.key = ak,
                           !.document = versions[v].document, !.version = v]]
    /\ OnlyCalls
    /\ UNCHANGED dvars

\* _validate_target, first half: the document FOR UPDATE, and not deleted.
LockDocument(c) ==
    LET d == calls[c].document
    IN  /\ At(c, "lock document")
        /\ Free(d)
        /\ \/ /\ documents[d].state = "active"
              /\ locked' = [locked EXCEPT ![d] = c]
              /\ Goto(c, "lock version")
           \/ /\ documents[d].state = "deleted"
              /\ Return(c)
              /\ UNCHANGED locked
        /\ OnlyCalls
        /\ UNCHANGED <<documents, versions, grants, requests>>

\* Mutant: the version is read with lock=False.
ReadDraft(c) ==
    LET v == calls[c].version
        a == CHOOSE b \in Artifacts : ~ Used(b)
    IN  /\ At(c, "lock version")
        /\ versions[v].status = "draft" /\ ~ ArtifactKeyExists(v, calls[c].key)
        /\ \E b \in Artifacts : ~ Used(b)
        /\ calls' = [calls EXCEPT ![c].stage = "put", ![c].artifact = a]
        /\ OnlyCalls
        /\ UNCHANGED dvars

\* Second half: the version FOR UPDATE, which must be a draft.  Then the file
\* is validated, which may fail, and the keys are looked up.
LockDraft(c) ==
    LET v == calls[c].version
        a == CHOOSE b \in Artifacts : ~ Used(b)
    IN  /\ At(c, "lock version")
        /\ Free(v)
        /\ \/ /\ versions[v].status = "draft"
              /\ ~ ArtifactKeyExists(v, calls[c].key)
              /\ \E b \in Artifacts : ~ Used(b)
              /\ locked' = [locked EXCEPT ![v] = c]
              /\ calls' = [calls EXCEPT ![c].stage = "put", ![c].artifact = a]
              /\ UNCHANGED requests
           \/ Return(c) /\ End(c)
        /\ OnlyCalls
        /\ UNCHANGED <<documents, versions, grants>>

\* The object store answers, or raises with the object stored or not.  Then
\* `uploaded` is still False, and nothing is compensated.
PutObject(c) ==
    LET a == calls[c].artifact
    IN  /\ At(c, "put")
        /\ \/ /\ objects' = objects \cup {a}
              /\ Goto(c, "add")
              /\ UNCHANGED <<trouble, locked, requests>>
           \/ /\ \/ objects' = objects \cup {a}
                 \/ UNCHANGED objects
              /\ trouble' = [trouble EXCEPT ![a] = @ \cup {"put raised"}]
              /\ Return(c)
              /\ End(c)
        /\ UNCHANGED <<documents, versions, grants, artifacts, items>>

\* Mutant: only the object store's errors are compensated, not the database's.
AddUncompensated(c) ==
    LET a == calls[c].artifact
        v == calls[c].version
    IN  /\ At(c, "add")
        /\ \/ /\ ~ ArtifactKeyExists(v, calls[c].key)
              /\ artifacts' = [artifacts EXCEPT ![a] = NewRow(v, calls[c].key, TRUE)]
           \/ UNCHANGED artifacts
        /\ Return(c)
        /\ End(c)
        /\ UNCHANGED <<documents, versions, grants, objects, items, trouble>>

\* Mutant: `committed` is never set to True.
AddNeverCommitted(c) ==
    LET a == calls[c].artifact
        v == calls[c].version
    IN  /\ At(c, "add")
        /\ \/ /\ ~ ArtifactKeyExists(v, calls[c].key)
              /\ artifacts' = [artifacts EXCEPT ![a] = NewRow(v, calls[c].key, TRUE)]
           \/ UNCHANGED artifacts
        /\ Goto(c, "compensate")
        /\ End(c)
        /\ UNCHANGED <<documents, versions, grants, objects, items, trouble>>

\* The insert and the commit.  The transaction is over, by commit or rollback,
\* before the `finally` runs; an exception leads to the compensation, also
\* when it is only the answer of the commit that was lost.
AddArtifact(c) ==
    LET a == calls[c].artifact
        v == calls[c].version
        inserted == [artifacts EXCEPT ![a] = NewRow(v, calls[c].key, TRUE)]
    IN  /\ At(c, "add")
        /\ \/ /\ ~ ArtifactKeyExists(v, calls[c].key)
              /\ artifacts' = inserted
              /\ IF calls[c].pipeline THEN Goto(c, "create run") ELSE Return(c)
              /\ UNCHANGED trouble
           \/ /\ ~ ArtifactKeyExists(v, calls[c].key)
              /\ artifacts' = inserted
              /\ trouble' = [trouble EXCEPT ![a] = @ \cup {"answer lost"}]
              /\ Goto(c, "compensate")
           \/ Goto(c, "compensate") /\ UNCHANGED <<artifacts, trouble>>
        /\ End(c)
        /\ UNCHANGED <<documents, versions, grants, objects, items>>

DeleteObject(a) == objects \ {a}

\* Mutant: a return in the `finally` swallows the exception.
CompensateAndGoOn(c) ==
    /\ At(c, "compensate")
    /\ objects' = DeleteObject(calls[c].artifact)
    /\ IF calls[c].pipeline THEN Goto(c, "create run") ELSE Return(c)
    /\ UNCHANGED <<dvars, artifacts, items, trouble>>

\* _best_effort_delete logs what the object store raises; upload raises what
\* it had raised before.
Compensate(c) ==
    LET a == calls[c].artifact
    IN  /\ At(c, "compensate")
        /\ \/ objects' = DeleteObject(a) /\ UNCHANGED trouble
           \/ /\ trouble' = [trouble EXCEPT ![a] = @ \cup {"delete failed"}]
              /\ UNCHANGED objects
        /\ Return(c)
        /\ UNCHANGED <<dvars, artifacts, items>>

\* The process of the call dies; the database rolls back what is open.
Crash(c) ==
    /\ ~ At(c, "idle")
    /\ trouble' = [a \in Artifacts |->
            IF a = calls[c].artifact THEN trouble[a] \cup {"crash"} ELSE trouble[a]]
    /\ Return(c)
    /\ End(c)
    /\ UNCHANGED <<documents, versions, grants, artifacts, objects, items>>

-----------------------------------------------------------------------------
(* DocumentArtifactManagementService, which no route offers *)

\* create_artifact names an object of its own and reads the version unlocked.
RegisterCheck(c, v, ak) ==
    /\ At(c, "idle")
    /\ requests[c].phase = "idle"
    /\ versions[v].status = "draft"
    /\ \E b \in Artifacts : ~ Used(b)
    /\ calls' = [calls EXCEPT ![c] =
            [NoCall EXCEPT !.stage = "register", !.version = v, !.key = ak,
                           !.artifact = CHOOSE b \in Artifacts : ~ Used(b)]]
    /\ OnlyCalls
    /\ UNCHANGED dvars

\* The foreign key waits while the version is locked FOR UPDATE, no longer.
RegisterInsert(c) ==
    LET v == calls[c].version
        k == calls[c].key
    IN  /\ At(c, "register")
        /\ Free(v)
        /\ \/ /\ ~ ArtifactKeyExists(v, k)
              /\ artifacts' = [artifacts EXCEPT ![calls[c].artifact] = NewRow(v, k, FALSE)]
           \/ ArtifactKeyExists(v, k) /\ UNCHANGED artifacts
        /\ Return(c)
        /\ UNCHANGED <<dvars, objects, items, trouble>>

ValidTransitions ==
    [available |-> {"missing", "retired"}, missing |-> {"available", "retired"},
     retired |-> {"deleted"}, deleted |-> {}, absent |-> {}]

SetStatus(a, status) == [artifacts EXCEPT ![a].status = status]

\* _transition under the artifact's row lock; the object stays where it is.
Transition(a, status) ==
    /\ status \in ValidTransitions[artifacts[a].status]
    /\ artifacts' = SetStatus(a, status)
    /\ UNCHANGED <<dvars, objects, items, calls, trouble>>

-----------------------------------------------------------------------------
(* The worker *)

\* What the bucket answers for a row's storage key: the object, or NoSuchKey.
ObjectFound(a) == a \in objects

\* ArtifactLoader.load for the item, and what DefaultIngestionProcessor makes
\* of its errors: both refusals are permanent.  A store that cannot be reached
\* is retried and leaves the item as it is.
LoadItem(a) ==
    /\ items[a] = "queued"
    /\ items' = [items EXCEPT ![a] =
            IF artifacts[a].status # "available" THEN "unavailable"
            ELSE IF ObjectFound(a) THEN "loaded" ELSE "object missing"]
    /\ UNCHANGED <<dvars, artifacts, objects, calls, trouble>>

-----------------------------------------------------------------------------

CallStep(c) ==
    \/ IngestCreateDocument(c)
    \/ IngestRequireDocument(c)
    \/ IngestCreateVersion(c)
    \/ LockDocument(c)
    \/ LockDraft(c)
    \/ PutObject(c)
    \/ AddArtifact(c)
    \/ Compensate(c)
    \/ CreateRun(c)
    \/ QueueItem(c)
    \/ RegisterInsert(c)

UploadsNext ==
    \/ \E c \in Callers :
          \/ \E k \in Keys, ak \in ArtifactKeys : IngestCheckKey(c, k, ak)
          \/ \E v \in Versions, ak \in ArtifactKeys : UploadCall(c, v, ak)
          \/ \E v \in Versions, ak \in ArtifactKeys : RegisterCheck(c, v, ak)
          \/ CallStep(c)
          \/ Crash(c)
    \/ \E a \in Artifacts, s \in ArtifactStatuses : Transition(a, s)
    \/ \E a \in Artifacts : LoadItem(a)
    \/ /\ \/ \E r \in Requests \ Callers : Start(r) \/ Continue(r) \/ Abort(r)
          \/ \E d \in Documents : SoftDelete(d)
       /\ UNCHANGED avars

UploadsSpec == UploadsInit /\ [][UploadsNext]_vars

-----------------------------------------------------------------------------
(* Properties *)

\* The item a pipeline has queued never fails for want of its object: the
\* upload deletes an object only on a path that raises, and then the pipeline
\* goes no further, even when the row was committed after all.
QueuedItemHasObject == \A a \in Artifacts : items[a] # "object missing"

\* The row of an upload names an object that is there.  One fault breaks this,
\* a commit whose answer is lost: the compensation then deletes the object of
\* a committed row.
RowHasObject ==
    \A a \in Artifacts :
        artifacts[a].status # "absent" /\ artifacts[a].uploaded /\ a \notin objects
            => "answer lost" \in trouble[a]

\* Without a fault of the store or a crash an upload that is over leaves an
\* object only together with its row, whatever it was refused for.
NoOrphans ==
    \A a \in objects :
        artifacts[a].status = "absent" /\ (\A c \in Callers : calls[c].artifact # a)
            => trouble[a] # {}

\* "artifacts can only be added to a draft version" of a document that is not
\* deleted: for uploads this holds at the commit, because both rows stay
\* locked through the call of the object store.
UploadsJoinDrafts ==
    [][\A a \in Artifacts :
        artifacts[a].status = "absent" /\ artifacts'[a].status # "absent" /\ artifacts'[a].uploaded
            => LET v == artifacts'[a].version
               IN  versions[v].status = "draft"
                   /\ documents[versions[v].document].state = "active"]_vars

=============================================================================
