------------------------------ MODULE Ingestion ------------------------------
(***************************************************************************)
(* One knowledge base: its documents, the crawl that feeds it, and the four *)
(* stores a document is spread over -- its row and its passages in          *)
(* PostgreSQL, its points in the vector store, its bytes in object storage, *)
(* its jobs in the queue.  Only the first two are transactional.            *)
(*                                                                          *)
(* Console requests (UploadDocument, RetryDocumentIngestion, DeleteDocument,*)
(* DeleteKnowledgeBase, CreateDataSource, ResyncDataSource) and worker jobs *)
(* (process_document_upload, process_url_crawl) run concurrently, one call  *)
(* to a store per action.  A document's passages are one value, the run     *)
(* that wrote them: a job inserts all of them or fails on the first that    *)
(* is there already (uq_document_chunks_document_ordinal).                  *)
(***************************************************************************)
EXTENDS ReadCommitted, Sequences

CONSTANTS
    KB, Source,      \* the knowledge base's row and its crawl's
    Docs,            \* rows of documents, those not inserted yet included
    Urls,            \* the pages the crawl can find
    Runs,            \* identities of runs: the chunk ids one makes
    None,
    UseCases,        \* the console requests this instance makes
    Faults,          \* what may go wrong in it
    MaxRequests,     \* bound: console requests begun
    MaxFailures,     \* bound: faults
    MaxEvents        \* bound: requests and faults together

Passages(d) == <<"passages", d>>

FaultKinds == {"storage", "provider", "vectors", "broker", "database", "worker", "console",
               "revoked"}

Contents == {"text", "blank"}          \* blank: nothing in it can be indexed

ASSUME IngestionAssumption ==
    /\ Rows = {KB, Source} \cup Docs \cup {Passages(d) : d \in Docs}
    /\ KB # Source /\ {KB, Source} \cap Docs = {}
    /\ ({KB, Source} \cup Docs) \cap {Passages(d) : d \in Docs} = {}
    /\ None \notin Rows \cup Urls \cup Contents
    /\ Runs \subseteq Nat \ {0} /\ 1 \in Runs
    /\ IsFiniteSet(Requests) /\ Docs # {} /\ Faults \subseteq FaultKinds
    /\ {MaxRequests, MaxFailures, MaxEvents} \subseteq Nat

VARIABLES
    req,         \* each request or job: its kind, next call, what it has read
    vectors,     \* the points of each document, by the run that upserted them
    objects,     \* the stored bytes of each document
    jobs,        \* how many jobs are queued for each document and the source
    authorized,  \* whether the member the jobs act for still may
    begun,       \* history: the console requests so far, and of which kinds
    failures,    \* history: the faults so far, and of which kinds
    crossed      \* history: documents that two were at work on at once

storeVars == <<vectors, objects>>
envVars == <<authorized, begun>>
stateVars == <<db, draft, req, vectors, objects, jobs, authorized, begun, failures>>
vars == <<stateVars, crossed>>

-----------------------------------------------------------------------------
NoDoc == [state |-> "absent", url |-> None, status |-> "processing"]
NewDoc(url) == [state |-> "live", url |-> url, status |-> "processing"]

(* The calls of each request, in order; RestOf says what a job does next.   *)
UploadDocument == <<"readKB", "putNew", "insertDoc", "commit", "enqueueDoc">>
RetryDocumentIngestion == <<"readKB", "readDoc", "saveRetried", "commit", "enqueueDoc">>
DeleteKeepsPoints ==                                             \* mutant
    <<"readKB", "readDoc", "deletePassages", "deleteObject", "saveDeleted", "commit">>
DeleteDocument ==
    <<"readKB", "readDoc", "dropVectors", "deletePassages", "deleteObject", "saveDeleted",
      "commit">>
DeleteKnowledgeBase == <<"readKB", "readAll", "checkAtRest">>
PurgeDocument == <<"dropVectors", "deletePassages", "deleteObject", "saveDeleted">>
DropKnowledgeBase == <<"saveKB", "commit">>
CreateDataSource == <<"readKB", "insertSource", "commit", "enqueueSource">>
ResyncDataSource == <<"readKB", "readSource", "saveSyncing", "commit", "enqueueSource">>

UploadCommitsTheClearing ==                                      \* mutant
    <<"authorize", "load", "get", "deletePassages", "commit", "dropVectors", "embed",
      "insertPassages", "upsert", "saveReady", "commit">>
UploadKeepsPoints ==                                             \* mutant
    <<"authorize", "load", "get", "deletePassages", "embed", "insertPassages", "upsert",
      "saveReady", "commit">>
UploadKeepsPassages ==                                           \* mutant
    <<"authorize", "load", "get", "dropVectors", "embed", "insertPassages", "upsert",
      "saveReady", "commit">>
ProcessDocumentUpload ==
    <<"authorize", "load", "get", "deletePassages", "dropVectors", "embed", "insertPassages",
      "upsert", "saveReady", "commit">>
MarkFailed == <<"saveFailed", "commit">>

Claim == <<"authorize", "saveSyncing", "commit">>
IndexOnePage ==
    <<"authorize", "lookUp", "savePage", "putPage", "deletePassages", "dropVectors", "embed",
      "insertPassages", "upsert", "saveReady", "commit">>
BlankPage == <<"saveFailed", "commit">>
FinishCrawl == <<"authorize", "saveSynced", "commit">>
CrawlFailed == <<"saveError", "commit">>

Script ==
    [upload |-> UploadDocument,          retry |-> RetryDocumentIngestion,
     delete |-> DeleteDocument,          deleteKB |-> DeleteKnowledgeBase,
     purge  |-> PurgeDocument,           dropKB |-> DropKnowledgeBase,
     create |-> CreateDataSource,        resync |-> ResyncDataSource,
     ingest |-> ProcessDocumentUpload,   ingestFailed |-> MarkFailed,
     crawl  |-> Claim,                   page |-> IndexOnePage,
     blankPage |-> BlankPage,            finish |-> FinishCrawl,
     crawlFailed |-> CrawlFailed,        turn |-> << >>]

ConsoleKinds == {"upload", "retry", "delete", "deleteKB", "purge", "dropKB", "create", "resync"}
CrawlKinds == {"crawl", "turn", "page", "blankPage", "finish", "crawlFailed"}
WorkerKinds == {"ingest", "ingestFailed"} \cup CrawlKinds

(* uuid4: which unused identity it is makes no difference. *)
AnyOf(ids) == CHOOSE x \in ids : TRUE

Idle == [kind |-> "idle", step |-> 1, doc |-> None, read |-> NoRows, content |-> "text",
         url |-> None, run |-> 0, todo |-> {}, seen |-> {}]

At(p, call) ==
    /\ req[p].kind # "idle"
    /\ req[p].step <= Len(Script[req[p].kind])
    /\ Script[req[p].kind][req[p].step] = call

IsLast(p) == req[p].step = Len(Script[req[p].kind])

Advance(p) == req' = [req EXCEPT ![p].step = @ + 1]
Turn(p, kind) == req' = [req EXCEPT ![p].kind = kind, ![p].step = 1]
Finish(p) == req' = [req EXCEPT ![p] = Idle]
Doc(p) == req[p].doc
Copy(p, r) == req[p].read[r]

(* A knowledge base with one indexed document: uploaded, or from its crawl.  *)
Init ==
    /\ \E url \in Urls \cup {None} :
        LET first == AnyOf(Docs)
        IN  /\ DbInit([r \in Rows |->
                   CASE r = KB     -> [deleted |-> FALSE]
                     [] r = Source -> [status |-> IF url = None THEN "absent" ELSE "ready"]
                     [] r = first  -> [NewDoc(url) EXCEPT !.status = "ready"]
                     [] r \in Docs \ {first} -> NoDoc
                     [] OTHER -> [run |-> IF r = Passages(first) THEN 1 ELSE 0]])
            /\ vectors = [d \in Docs |-> IF d = first THEN {1} ELSE {}]
            /\ objects = [d \in Docs |-> IF d = first THEN "text" ELSE None]
    /\ req = [p \in Requests |-> Idle]
    /\ jobs = [x \in Docs \cup {Source} |-> 0]
    /\ authorized = TRUE
    /\ begun = [count |-> 0, kinds |-> {}]
    /\ failures = [count |-> 0, kinds |-> {}]
    /\ crossed = {}

-----------------------------------------------------------------------------
(* Console requests arrive; a worker takes a job.                           *)
MayHappen == begun.count + failures.count < MaxEvents
OneMore(history, kind) ==
    [count |-> history.count + 1, kinds |-> history.kinds \cup {kind}]

Begin(p, kind, d) ==
    /\ kind \in UseCases /\ begun.count < MaxRequests /\ MayHappen
    /\ req[p].kind = "idle"
    /\ begun' = OneMore(begun, kind)
    /\ req' = [req EXCEPT ![p] = [Idle EXCEPT !.kind = kind, !.doc = d]]
    /\ UNCHANGED <<dbVars, storeVars, jobs, authorized, failures>>

Arrive(p) ==
    \/ Begin(p, "upload", None) \/ Begin(p, "deleteKB", None)
    \/ db[Source].status = "absent" /\ Begin(p, "create", None)
    \/ db[Source].status # "absent" /\ Begin(p, "resync", None)
    \/ \E kind \in {"retry", "delete"}, d \in Docs :
           db[d].state # "absent" /\ Begin(p, kind, d)

(* Runs are told apart by the chunk ids they make, fresh each time.         *)
RunsInUse ==
    (UNION {vectors[d] : d \in Docs}) \cup {db[Passages(d)].run : d \in Docs}
    \cup {req[p].run : p \in Requests}
FreshRuns == Runs \ RunsInUse

TakeJob(p) ==
    /\ req[p].kind = "idle" /\ FreshRuns # {}
    /\ \E x \in Docs \cup {Source} :
        /\ jobs[x] > 0
        /\ jobs' = [jobs EXCEPT ![x] = @ - 1]
        /\ req' = [req EXCEPT ![p] =
               [Idle EXCEPT !.kind = IF x = Source THEN "crawl" ELSE "ingest",
                            !.doc = IF x = Source THEN None ELSE x,
                            !.run = AnyOf(FreshRuns)]]
    /\ UNCHANGED <<dbVars, storeVars, authorized, begun, failures>>

-----------------------------------------------------------------------------
(* Every call can raise.  A console request rolls back and answers with an  *)
(* error; a job rolls back and then records the failure in a transaction of *)
(* its own, except that a page's failure is only counted.                   *)
RecoverUnrecorded(p) == Finish(p)                                \* mutant
Recover(p) ==
    CASE req[p].kind = "ingest"             -> Turn(p, "ingestFailed")
      [] req[p].kind \in {"crawl", "finish", "turn"} -> Turn(p, "crawlFailed")
      [] req[p].kind \in {"page", "blankPage"} -> Turn(p, "turn")
      [] OTHER                              -> Finish(p)

Raise(p) ==
    /\ DropRows(p)
    /\ Recover(p)
    /\ UNCHANGED <<storeVars, jobs, envVars>>

(* What a rejected request and a dropped job do. *)
Refuse(p) ==
    /\ DropRows(p)
    /\ Finish(p)
    /\ UNCHANGED <<storeVars, jobs, envVars, failures>>

Go(p) ==
    /\ Advance(p)
    /\ UNCHANGED <<dbVars, storeVars, jobs, envVars, failures>>

-----------------------------------------------------------------------------
(* Reads. *)
Keep(p, r) ==
    /\ req' = [req EXCEPT ![p].step = @ + 1,
           ![p].read = [x \in DOMAIN @ \cup {r} |-> IF x = r THEN Seen(p, r) ELSE @[x]]]
    /\ UNCHANGED <<dbVars, storeVars, jobs, envVars, failures>>

ReadKB(p) ==
    /\ At(p, "readKB")
    /\ IF Seen(p, KB).deleted THEN Refuse(p) ELSE Go(p)

ReadDoc(p) ==
    /\ At(p, "readDoc")
    /\ IF Seen(p, Doc(p)).state = "live" THEN Keep(p, Doc(p)) ELSE Refuse(p)

ReadSource(p) == At(p, "readSource") /\ Keep(p, Source)

(* DeleteKnowledgeBase lists the documents, then the sources, and refuses   *)
(* while something among them is being worked on.                           *)
LiveDocs(p) == {d \in Docs : Seen(p, d).state = "live"}
AtRest(p) ==
    /\ \A d \in req[p].todo : Copy(p, d).status # "processing"
    /\ Seen(p, Source).status # "syncing"

NextPurge(p, docs, read) ==
    req' = [req EXCEPT ![p] =
        IF docs = {} THEN [@ EXCEPT !.kind = "dropKB", !.step = 1, !.doc = None, !.todo = {}]
        ELSE LET d == AnyOf(docs)
             IN  [@ EXCEPT !.kind = "purge", !.step = 1, !.doc = d, !.todo = docs \ {d},
                           !.read = read]]

ReadAll(p) ==
    /\ At(p, "readAll")
    /\ req' = [req EXCEPT ![p].step = @ + 1, ![p].todo = LiveDocs(p),
                          ![p].read = [d \in LiveDocs(p) |-> Seen(p, d)]]
    /\ UNCHANGED <<dbVars, storeVars, jobs, envVars, failures>>

CheckAtRest(p) ==
    /\ At(p, "checkAtRest")
    /\ IF AtRest(p)
       THEN /\ NextPurge(p, req[p].todo, req[p].read)
            /\ UNCHANGED <<dbVars, storeVars, jobs, envVars, failures>>
       ELSE Refuse(p)

(* establish_job_context: a job whose member may no longer act is dropped.  *)
Authorize(p) ==
    /\ At(p, "authorize")
    /\ IF authorized THEN Go(p) ELSE Refuse(p)

Load(p) ==
    /\ At(p, "load")
    /\ IF Seen(p, Doc(p)).state = "live" THEN Go(p) ELSE Raise(p) /\ UNCHANGED failures

Get(p) ==
    /\ At(p, "get")
    /\ IF objects[Doc(p)] # None
       THEN /\ req' = [req EXCEPT ![p].step = @ + 1, ![p].content = objects[Doc(p)]]
            /\ UNCHANGED <<dbVars, storeVars, jobs, envVars, failures>>
       ELSE Raise(p) /\ UNCHANGED failures

(* The page's document, or the identity of the one to insert. *)
Unused == {d \in Docs : db[d].state = "absent" /\ objects[d] = None
                        /\ \A q \in Requests : d \notin Wrote(q) /\ Doc(q) # d}
AtUrl(p, url) == {d \in LiveDocs(p) : Seen(p, d).url = url}

LookUp(p) ==
    /\ At(p, "lookUp")
    /\ LET found == AtUrl(p, req[p].url)
       IN  /\ found \cup Unused # {}
           /\ req' = [req EXCEPT ![p].step = @ + 1,
                  ![p].doc = AnyOf(IF found # {} THEN found ELSE Unused)]
    /\ UNCHANGED <<dbVars, storeVars, jobs, envVars, failures>>

-----------------------------------------------------------------------------
(* Writes of rows. *)
Write(p, r, value) ==
    /\ Put(p, [x \in {r} |-> value])
    /\ Advance(p)
    /\ UNCHANGED <<storeVars, jobs, envVars, failures>>

(* uq_documents_source_url_per_kb: one live document per page.  An insert   *)
(* waits for a transaction that may yet free or take the place.             *)
UrlHolders(p, d, url) ==
    {e \in Docs \ {d} : url # None /\ Seen(p, e).url = url /\ Seen(p, e).state = "live"}
UrlContenders(p, d, url) ==
    {e \in Docs \ {d} : \E q \in Requests \ {p} :
        e \in Wrote(q) /\ url # None /\ draft[q][e].url = url}

InsertLive(p, d, row) ==
    /\ UrlContenders(p, d, row.url) = {}
    /\ IF UrlHolders(p, d, row.url) = {} THEN Write(p, d, row)
       ELSE Free(p, d) /\ Raise(p) /\ UNCHANGED failures

WholeRow(p, d, status) == [NewDoc(db[d].url) EXCEPT !.status = status]  \* mutant
WithStatus(p, d, status) == [Seen(p, d) EXCEPT !.status = status]

(* SqlDocumentRepository.save writes the status and the deletion as read.   *)
SaveRetried(p) ==
    LET row == [Copy(p, Doc(p)) EXCEPT !.status = "processing"]
    IN  IF Seen(p, Doc(p)).state = "deleted" THEN InsertLive(p, Doc(p), row)
        ELSE Write(p, Doc(p), row)

SaveDoc(p) ==
    \/ At(p, "insertDoc") /\ Write(p, Doc(p), NewDoc(None))
    \/ At(p, "saveRetried") /\ SaveRetried(p)
    \/ At(p, "saveReady") /\ Write(p, Doc(p), WithStatus(p, Doc(p), "ready"))
    \/ At(p, "saveFailed") /\ Write(p, Doc(p), WithStatus(p, Doc(p), "failed"))
    \/ /\ At(p, "savePage")
       /\ IF Seen(p, Doc(p)).state = "absent" THEN InsertLive(p, Doc(p), NewDoc(req[p].url))
          ELSE Write(p, Doc(p), WithStatus(p, Doc(p), "processing"))

SaveDeleted(p) ==
    /\ At(p, "saveDeleted")
    /\ Put(p, [x \in {Doc(p)} |-> [Copy(p, x) EXCEPT !.state = "deleted"]])
    /\ IF req[p].kind = "purge" THEN NextPurge(p, req[p].todo, req[p].read) ELSE Advance(p)
    /\ UNCHANGED <<storeVars, jobs, envVars, failures>>

SaveOther(p) ==
    \/ At(p, "saveKB") /\ Write(p, KB, [deleted |-> TRUE])
    \/ At(p, "insertSource") /\ Write(p, Source, [status |-> "idle"])
    \/ At(p, "saveSyncing") /\ Write(p, Source, [status |-> "syncing"])
    \/ At(p, "saveSynced") /\ Write(p, Source, [status |-> "ready"])
    \/ At(p, "saveError") /\ Write(p, Source, [status |-> "error"])

(* DELETE FROM document_chunks: the rows there when it starts; those that   *)
(* another transaction holds are waited for, and none that it has put in    *)
(* their place is deleted.  `read` remembers what the statement found.      *)
DeletePassages(p) ==
    /\ At(p, "deletePassages")
    /\ LET r == Passages(Doc(p))
           found == IF r \in DOMAIN req[p].read THEN Copy(p, r) ELSE Seen(p, r)
       IN  IF found.run = 0 THEN Go(p)
           ELSE /\ Free(p, r)
                /\ IF Seen(p, r) = found THEN Write(p, r, [run |-> 0]) ELSE Go(p)

DeleteWaits(p) ==
    LET r == Passages(Doc(p))
    IN  /\ At(p, "deletePassages")
        /\ r \notin DOMAIN req[p].read /\ Seen(p, r).run # 0 /\ ~Free(p, r)
        /\ req' = [req EXCEPT ![p].read =
               [x \in DOMAIN @ \cup {r} |-> IF x = r THEN Seen(p, r) ELSE @[x]]]
        /\ UNCHANGED <<dbVars, storeVars, jobs, envVars, failures>>

InsertPassages(p) ==
    /\ At(p, "insertPassages")
    /\ LET r == Passages(Doc(p))
       IN  /\ Free(p, r)
           /\ IF Seen(p, r).run = 0 THEN Write(p, r, [run |-> req[p].run])
              ELSE Raise(p) /\ UNCHANGED failures

-----------------------------------------------------------------------------
(* The other stores. *)
DropVectors(p) ==
    /\ At(p, "dropVectors")
    /\ vectors' = [vectors EXCEPT ![Doc(p)] = {}]
    /\ Advance(p)
    /\ UNCHANGED <<dbVars, objects, jobs, envVars, failures>>

(* A document with nothing to index fails; a page with nothing is recorded  *)
(* as failed in the same transaction.                                       *)
Embed(p) ==
    /\ At(p, "embed")
    /\ IF req[p].content = "text" THEN Go(p)
       ELSE IF req[p].kind = "ingest" THEN Raise(p) /\ UNCHANGED failures
       ELSE Turn(p, "blankPage") /\ UNCHANGED <<dbVars, storeVars, jobs, envVars, failures>>

Upsert(p) ==
    /\ At(p, "upsert")
    /\ vectors' = [vectors EXCEPT ![Doc(p)] = @ \cup {req[p].run}]
    /\ Advance(p)
    /\ UNCHANGED <<dbVars, objects, jobs, envVars, failures>>

PutNew(p) ==
    /\ At(p, "putNew") /\ Unused # {}
    /\ \E content \in Contents :
        /\ objects' = [objects EXCEPT ![AnyOf(Unused)] = content]
        /\ req' = [req EXCEPT ![p].step = @ + 1, ![p].doc = AnyOf(Unused)]
    /\ UNCHANGED <<dbVars, vectors, jobs, envVars, failures>>

PutPage(p) ==
    /\ At(p, "putPage")
    /\ objects' = [objects EXCEPT ![Doc(p)] = req[p].content]
    /\ Advance(p)
    /\ UNCHANGED <<dbVars, vectors, jobs, envVars, failures>>

DeleteObject(p) ==
    /\ At(p, "deleteObject")
    /\ objects' = [objects EXCEPT ![Doc(p)] = None]
    /\ Advance(p)
    /\ UNCHANGED <<dbVars, vectors, jobs, envVars, failures>>

(* The last call of an upload, a retry, a new crawl and a re-sync. *)
Enqueue(p) ==
    /\ At(p, "enqueueDoc") \/ At(p, "enqueueSource")
    /\ LET x == IF At(p, "enqueueDoc") THEN Doc(p) ELSE Source
       IN  jobs' = [jobs EXCEPT ![x] = @ + 1]
    /\ Finish(p)
    /\ UNCHANGED <<dbVars, storeVars, envVars, failures>>

-----------------------------------------------------------------------------
Commit(p) ==
    /\ At(p, "commit")
    /\ CommitRows(p)
    /\ CASE ~IsLast(p) -> Advance(p)
         [] req[p].kind \in {"crawl", "page", "blankPage"} -> Turn(p, "turn")
         [] OTHER -> Finish(p)
    /\ UNCHANGED <<storeVars, jobs, envVars, failures>>

(* The crawler finds another page, or has found them all. *)
NextPage(p) ==
    /\ req[p].kind = "turn"
    /\ \/ \E url \in Urls \ req[p].seen, content \in Contents :
              req' = [req EXCEPT ![p].kind = "page", ![p].step = 1, ![p].doc = None,
                  ![p].url = url, ![p].content = content, ![p].read = NoRows,
                  ![p].seen = @ \cup {url}]
       \/ Turn(p, "finish")
    /\ UNCHANGED <<dbVars, storeVars, jobs, envVars, failures>>

(* What a transaction is waiting to write. *)
Wants ==
    [p \in Requests |->
        CASE \E call \in {"saveReady", "saveFailed", "saveDeleted"} : At(p, call) -> {Doc(p)}
          [] At(p, "saveRetried") -> {Doc(p)} \cup UrlContenders(p, Doc(p), Copy(p, Doc(p)).url)
          [] At(p, "savePage") -> {Doc(p)} \cup UrlContenders(p, Doc(p), req[p].url)
          [] \E call \in {"saveSyncing", "saveSynced", "saveError"} : At(p, call) -> {Source}
          [] At(p, "saveKB") -> {KB}
          [] At(p, "insertPassages") -> {Passages(Doc(p))}
          [] At(p, "deletePassages") /\ Passages(Doc(p)) \in DOMAIN req[p].read
                -> {Passages(Doc(p))}
          [] OTHER -> {}]

DeadlockVictim(p) ==
    /\ Deadlocked(p, Wants) /\ Raise(p)
    /\ failures' = [failures EXCEPT !.kinds = @ \cup {"deadlock"}]

-----------------------------------------------------------------------------
(* What goes wrong. *)
Fault(kind) ==
    /\ kind \in Faults /\ failures.count < MaxFailures /\ MayHappen
    /\ failures' = OneMore(failures, kind)

(* A call raises before it has had its effect, or (the vector store) after; *)
(* object storage that will not delete is logged and passed over.           *)
CallFails(p) ==
    \/ /\ \E call \in {"putNew", "putPage", "get"} : At(p, call)
       /\ Fault("storage") /\ Raise(p)
    \/ /\ At(p, "deleteObject")
       /\ Fault("storage") /\ Advance(p) /\ UNCHANGED <<dbVars, storeVars, jobs, envVars>>
    \/ At(p, "embed") /\ Fault("provider") /\ Raise(p)
    \/ At(p, "dropVectors") /\ Fault("vectors") /\ Raise(p)
    \/ /\ At(p, "upsert") /\ Fault("vectors")
       /\ DropRows(p) /\ Recover(p)
       /\ \E runs \in {{}, {req[p].run}} :
              vectors' = [vectors EXCEPT ![Doc(p)] = @ \cup runs]
       /\ UNCHANGED <<objects, jobs, envVars>>
    \/ At(p, "enqueueDoc") /\ Fault("broker") /\ Raise(p)
    \/ At(p, "enqueueSource") /\ Fault("broker") /\ Raise(p)
    \/ /\ \E call \in {"saveReady", "saveFailed", "saveDeleted", "commit"} : At(p, call)
       /\ Fault("database") /\ Raise(p)
    \/ req[p].kind = "turn" /\ Fault("provider") /\ Raise(p)      \* the crawler itself

(* A worker that dies gives its job back to the queue (acks_late); a        *)
(* console request that dies is gone.                                       *)
Crash(p) ==
    /\ req[p].kind # "idle"
    /\ \/ /\ req[p].kind \in WorkerKinds /\ Fault("worker")
          /\ LET x == IF req[p].kind \in CrawlKinds THEN Source ELSE Doc(p)
             IN  jobs' = [jobs EXCEPT ![x] = @ + 1]
       \/ req[p].kind \in ConsoleKinds /\ Fault("console") /\ UNCHANGED jobs
    /\ DropRows(p)
    /\ Finish(p)
    /\ UNCHANGED <<storeVars, envVars>>

Revoke ==
    /\ authorized /\ Fault("revoked")
    /\ authorized' = FALSE
    /\ UNCHANGED <<dbVars, req, storeVars, jobs, begun>>

Call(p) ==
    \/ TakeJob(p)
    \/ ReadKB(p) \/ ReadDoc(p) \/ ReadSource(p) \/ ReadAll(p) \/ CheckAtRest(p)
    \/ Authorize(p) \/ Load(p) \/ Get(p) \/ LookUp(p)
    \/ SaveDoc(p) \/ SaveDeleted(p) \/ SaveOther(p)
    \/ DeletePassages(p) \/ DeleteWaits(p) \/ InsertPassages(p)
    \/ DropVectors(p) \/ Embed(p) \/ Upsert(p) \/ PutNew(p) \/ PutPage(p) \/ DeleteObject(p)
    \/ Enqueue(p) \/ Commit(p) \/ NextPage(p) \/ DeadlockVictim(p)

AtWorkOn(p, d) == Doc(p) = d \/ d \in req[p].todo \cup Wrote(p)
Crossing(d) == Cardinality({p \in Requests : AtWorkOn(p, d)}) > 1

Next ==
    /\ \/ \E p \in Requests : Arrive(p) \/ Call(p) \/ CallFails(p) \/ Crash(p)
       \/ Revoke
    /\ crossed' = crossed \cup {d \in Docs : Crossing(d)'}

Spec == Init /\ [][Next]_vars

(* A live process goes on to its next call, PostgreSQL lets waiters through *)
(* in turn, and a free worker takes a job.                                  *)
FairSpec == Spec /\ \A p \in Requests : SF_stateVars(Call(p))

-----------------------------------------------------------------------------
OnlyFailed(kinds) == failures.kinds \subseteq kinds

(* Nobody is at work on a document, and nobody is about to be.              *)
Quiet(d) == jobs[d] = 0 /\ \A p \in Requests : ~AtWorkOn(p, d)

(* No call failed.  The job of a worker that died is run again, but a page   *)
(* is indexed again only if the crawler finds it again.                     *)
FromPage(d) == db[d].url # None
RunsWereFinished(d) == OnlyFailed(IF FromPage(d) THEN {} ELSE {"worker"})

Answers(d) == db[d].state = "live" /\ db[d].status = "ready"

(* A retry that has read the row writes it back as it was: the row of a     *)
(* document that was deleted meanwhile is live again, its run still to come.*)
Revivable == "retry" \in begun.kinds /\ begun.kinds \cap {"delete", "deleteKB"} # {}
Lasts(d) == d \notin crossed \/ ~Revivable

(* A ready document has passages.  The status and the passages are written  *)
(* by one transaction, so this holds however runs overlap and wherever one  *)
(* is cut off: nothing that deletes passages commits without writing others *)
(* or taking the status back (index_blocks, _mark_ready, purge_document).   *)
ReadyHasPassages == \A d \in Docs : Answers(d) => db[Passages(d)].run # 0

(* A ready document that nobody is working on is found by a search, and by  *)
(* nothing but its own passages: the points are those of the run whose      *)
(* passages are stored.  Points are not transactional, so this is about the *)
(* order of the calls of runs, and of what each leaves behind.  An upload   *)
(* may be run several times at once, and deleted meanwhile unless a retry   *)
(* brings it back: a run that began before the deletion could end as ready  *)
(* over points the deletion had missed.  A page is run by one at a time.    *)
Searchable(d) == vectors[d] = {db[Passages(d)].run}

ReadyIsSearchable ==
    \A d \in Docs :
        /\ Answers(d) /\ Quiet(d) /\ RunsWereFinished(d)
        /\ IF FromPage(d) THEN d \notin crossed ELSE Lasts(d)
        => Searchable(d)

(* "An orphaned vector still matches a search, so a deleted document keeps  *)
(* answering questions": once a deletion has committed and nobody works on  *)
(* the document, no point of it is left.                                    *)
DeletedDoesNotAnswer ==
    \A d \in Docs :
        db[d].state = "deleted" /\ Quiet(d) /\ d \notin crossed => vectors[d] = {}

(* A deletion is for good: no later call of anyone brings the row back,     *)
(* except a retry that was at work on the document at the same time.        *)
DeletedStaysDeleted ==
    [][\A d \in Docs :
         db[d].state = "deleted" /\ Lasts(d) => db'[d].state = "deleted"]_db

(* "Running twice produces the same state as running once": a document with *)
(* text in it, whose runs are over, is ready (when no call fails).          *)
RunsAgree ==
    \A d \in Docs :
        /\ db[d].state = "live" /\ objects[d] = "text"
        /\ Quiet(d) /\ RunsWereFinished(d) /\ d \notin crossed
        => db[d].status = "ready"

(* "A document must never be left in processing": every run ends it, ready  *)
(* or failed, and a crawl that has begun ends too.                          *)
ProcessingEnds ==
    /\ \A d \in Docs :
        (db[d].state = "live" /\ db[d].status = "processing")
            ~> ~(db[d].state = "live" /\ db[d].status = "processing")
    /\ db[Source].status = "syncing" ~> db[Source].status # "syncing"

=============================================================================
