--------------------------- MODULE IngestionProofs ---------------------------
(******************************************************************************)
(* Documents in four stores, for any number of overlapping runs, deletions,   *)
(* crashes and faults.  Each result rests on the ones before it:              *)
(*   - a ready document has its passages (IInv, about one transaction);       *)
(*   - a deletion leaves no points and is for good (KInv, about who is at     *)
(*     work on what);                                                         *)
(*   - runs that are over have left the document ready (RInv, about what is   *)
(*     still to come);                                                        *)
(*   - a ready document has the points of its passages (SInv, about two       *)
(*     stores that share no transaction).                                     *)
(* For the first no lock is needed.  What a draft says of a document and of   *)
(* its passages is such that committing it, over whatever others have         *)
(* committed meanwhile, never leaves the document ready without passages.     *)
(******************************************************************************)
EXTENDS IngestionInvariant, FiniteSetTheorems, TLAPS

-----------------------------------------------------------------------------
(* Where in a use case its calls are. *)
LEMMA Scripts ==
    /\ Script["upload"] = UploadDocument /\ Script["retry"] = RetryDocumentIngestion
    /\ Script["delete"] = DeleteDocument /\ Script["deleteKB"] = DeleteKnowledgeBase
    /\ Script["purge"] = PurgeDocument /\ Script["dropKB"] = DropKnowledgeBase
    /\ Script["create"] = CreateDataSource /\ Script["resync"] = ResyncDataSource
    /\ Script["ingest"] = ProcessDocumentUpload /\ Script["ingestFailed"] = MarkFailed
    /\ Script["crawl"] = Claim /\ Script["page"] = IndexOnePage
    /\ Script["blankPage"] = BlankPage /\ Script["finish"] = FinishCrawl
    /\ Script["crawlFailed"] = CrawlFailed /\ Script["turn"] = << >>
    /\ DOMAIN Script = {"upload", "retry", "delete", "deleteKB", "purge", "dropKB",
          "create", "resync", "ingest", "ingestFailed", "crawl", "page", "blankPage",
          "finish", "crawlFailed", "turn"}
BY DEF Script

LEMMA AtScript ==
    ASSUME NEW p \in Requests, SoundReq(req[p]), NEW call, At(p, call)
    PROVE  /\ req[p].kind \in DOMAIN Script
           /\ Len(Script[req[p].kind]) \in Nat
           /\ req[p].step \in 1..Len(Script[req[p].kind])
           /\ Script[req[p].kind][req[p].step] = call
<1>1. req[p].kind \in DOMAIN Script
  BY DEF At, SoundReq, Kinds
<1>2. Len(Script[req[p].kind]) \in Nat
  BY <1>1, Scripts DEF UploadDocument, RetryDocumentIngestion, DeleteDocument,
     DeleteKnowledgeBase, PurgeDocument, DropKnowledgeBase, CreateDataSource,
     ResyncDataSource, ProcessDocumentUpload, MarkFailed, Claim, IndexOnePage, BlankPage,
     FinishCrawl, CrawlFailed
<1> QED BY <1>1, <1>2 DEF At, SoundReq

LEMMA IngestCalls ==
    ASSUME NEW p \in Requests, SoundReq(req[p]), NEW call, At(p, call),
           req[p].kind = "ingest"
    PROVE  LET i == req[p].step
           IN  /\ i \in 1..10
               /\ call = "deletePassages" <=> i = 4
               /\ call = "insertPassages" <=> i = 7
               /\ call = "saveReady" <=> i = 9
               /\ call = "commit" <=> i = 10
               /\ call \notin {"savePage", "saveDeleted", "saveRetried", "readAll", "checkAtRest",
                               "lookUp", "putNew", "readDoc", "insertDoc", "saveFailed", "enqueueDoc",
                               "enqueueSource"}
<1> DEFINE i == req[p].step
<1>1. /\ Len(ProcessDocumentUpload) = 10 /\ i \in 1..Len(ProcessDocumentUpload)
      /\ call = ProcessDocumentUpload[i]
  <2>1. Len(ProcessDocumentUpload) = 10
    BY DEF ProcessDocumentUpload
  <2> QED BY <2>1, AtScript, Scripts
<1> HIDE DEF i
<1>2. i \in {1, 2, 3, 4, 5, 6, 7, 8, 9, 10}
  BY <1>1
<1> QED BY <1>1, <1>2 DEF ProcessDocumentUpload, i

LEMMA PageCalls ==
    ASSUME NEW p \in Requests, SoundReq(req[p]), NEW call, At(p, call),
           req[p].kind = "page"
    PROVE  LET i == req[p].step
           IN  /\ i \in 1..11
               /\ call = "lookUp" <=> i = 2
               /\ call = "savePage" <=> i = 3
               /\ call = "deletePassages" <=> i = 5
               /\ call = "embed" <=> i = 7
               /\ call = "insertPassages" <=> i = 8
               /\ call = "saveReady" <=> i = 10
               /\ call = "commit" <=> i = 11
               /\ call \notin {"saveDeleted", "saveRetried", "readAll", "checkAtRest", "putNew", "readDoc",
                               "insertDoc", "saveFailed", "enqueueDoc", "enqueueSource"}
<1> DEFINE i == req[p].step
<1>1. Len(IndexOnePage) = 11 /\ i \in 1..Len(IndexOnePage) /\ call = IndexOnePage[i]
  <2>1. Len(IndexOnePage) = 11
    BY DEF IndexOnePage
  <2> QED BY <2>1, AtScript, Scripts
<1> HIDE DEF i
<1>2. i \in {1, 2, 3, 4, 5, 6, 7, 8, 9, 10, 11}
  BY <1>1
<1> QED BY <1>1, <1>2 DEF IndexOnePage, i

LEMMA DeleteCalls ==
    ASSUME NEW p \in Requests, SoundReq(req[p]), NEW call, At(p, call),
           req[p].kind = "delete"
    PROVE  LET i == req[p].step
           IN  /\ i \in 1..7
               /\ call = "readDoc" <=> i = 2
               /\ call = "deletePassages" <=> i = 4
               /\ call = "saveDeleted" <=> i = 6
               /\ call = "commit" <=> i = 7
               /\ call \notin {"savePage", "saveReady", "saveRetried", "insertPassages",
                               "readAll", "checkAtRest", "lookUp", "putNew", "insertDoc", "saveFailed",
                               "enqueueDoc", "enqueueSource", "embed"}
<1>1. /\ req[p].step \in 1..Len(DeleteDocument)
      /\ DeleteDocument[req[p].step] = call
  BY AtScript, Scripts
<1> QED
  BY ONLY <1>1 DEF DeleteDocument

LEMMA PurgeCalls ==
    ASSUME NEW p \in Requests, SoundReq(req[p]), NEW call, At(p, call),
           req[p].kind = "purge"
    PROVE  LET i == req[p].step
           IN  /\ i \in 1..4
               /\ call = "deletePassages" <=> i = 2
               /\ call = "saveDeleted" <=> i = 4
               /\ call \notin {"savePage", "saveReady", "saveRetried", "insertPassages",
                               "readAll", "checkAtRest", "lookUp", "putNew", "commit", "readDoc",
                               "insertDoc", "saveFailed", "enqueueDoc", "enqueueSource",
                               "embed"}
BY AtScript, Scripts DEF PurgeDocument

LEMMA RetryCalls ==
    ASSUME NEW p \in Requests, SoundReq(req[p]), NEW call, At(p, call),
           req[p].kind = "retry"
    PROVE  LET i == req[p].step
           IN  /\ call = "readDoc" <=> i = 2
               /\ call = "saveRetried" <=> i = 3
               /\ call \notin {"savePage", "saveReady", "saveDeleted", "insertPassages",
                               "deletePassages", "readAll", "checkAtRest", "lookUp", "putNew",
                               "insertDoc", "saveFailed", "embed"}
<1> DEFINE i == req[p].step
<1>1. /\ Len(RetryDocumentIngestion) = 5 /\ i \in 1..Len(RetryDocumentIngestion)
      /\ call = RetryDocumentIngestion[i]
  <2>1. Len(RetryDocumentIngestion) = 5
    BY DEF RetryDocumentIngestion
  <2> QED BY <2>1, AtScript, Scripts
<1> HIDE DEF i
<1>2. i \in {1, 2, 3, 4, 5}
  BY <1>1
<1> QED BY <1>1, <1>2 DEF RetryDocumentIngestion, i

LEMMA UploadCalls ==
    ASSUME NEW p \in Requests, SoundReq(req[p]), NEW call, At(p, call),
           req[p].kind = "upload"
    PROVE  LET i == req[p].step
           IN  /\ call = "putNew" <=> i = 2
               /\ call = "insertDoc" <=> i = 3
               /\ call \notin {"readDoc", "saveFailed", "lookUp"}
BY AtScript, Scripts DEF UploadDocument

LEMMA OtherCalls ==
    ASSUME NEW p \in Requests, SoundReq(req[p]), NEW call, At(p, call),
           req[p].kind \notin {"ingest", "page", "delete", "purge", "retry"}
    PROVE  /\ call \notin {"savePage", "saveReady", "saveDeleted", "saveRetried",
                           "insertPassages", "deletePassages", "lookUp", "readDoc", "embed"}
           /\ call = "saveFailed" => req[p].kind \in {"ingestFailed", "blankPage"}
           /\ call \in {"insertDoc", "putNew"} => req[p].kind = "upload"
           /\ call \in {"readAll", "checkAtRest"} => req[p].kind = "deleteKB"
<1> DEFINE k == req[p].kind
<1>1. k \in DOMAIN Script /\ req[p].step \in 1..Len(Script[k])
      /\ call = Script[k][req[p].step] /\ k = req[p].kind
  BY AtScript
<1> HIDE DEF k
<1>2. CASE k = "upload"
  BY <1>1, <1>2, Scripts DEF UploadDocument
<1>3. CASE k = "deleteKB"
  BY <1>1, <1>3, Scripts DEF DeleteKnowledgeBase
<1>4. CASE k = "dropKB"
  BY <1>1, <1>4, Scripts DEF DropKnowledgeBase
<1>5. CASE k = "create"
  BY <1>1, <1>5, Scripts DEF CreateDataSource
<1>6. CASE k = "resync"
  BY <1>1, <1>6, Scripts DEF ResyncDataSource
<1>7. CASE k = "ingestFailed"
  BY <1>1, <1>7, Scripts DEF MarkFailed
<1>8. CASE k = "crawl"
  BY <1>1, <1>8, Scripts DEF Claim
<1>9. CASE k = "blankPage"
  BY <1>1, <1>9, Scripts DEF BlankPage
<1>10. CASE k = "finish"
  BY <1>1, <1>10, Scripts DEF FinishCrawl
<1>11. CASE k = "crawlFailed"
  BY <1>1, <1>11, Scripts DEF CrawlFailed
<1>12. CASE k = "turn"
  BY <1>1, <1>12, Scripts
<1>13. k \in DOMAIN Script \ {"ingest", "page", "delete", "purge", "retry"}
  BY <1>1 DEF k
<1> QED BY <1>2, <1>3, <1>4, <1>5, <1>6, <1>7, <1>8, <1>9, <1>10, <1>11, <1>12, <1>13, Scripts

-----------------------------------------------------------------------------
(* Ways in which one request moves. *)
OnlyMoves(p) ==
    /\ DOMAIN req' = Requests /\ DOMAIN draft' = Requests
    /\ db' = db
    /\ \A q \in Requests \ {p} : req'[q] = req[q] /\ draft'[q] = draft[q]

MovesSoundly(p) == OnlyMoves(p) /\ Sound(req'[p], draft'[p])

LEMMA IdleSound == SoundReq(Idle)
BY DEF Idle, SoundReq, HasDoc, Fields, Kinds, NoRows, WorkerKinds, CrawlKinds

LEMMA NothingWritten ==
    ASSUME NEW q, ~Paged(q), ~Inserted(q)
    PROVE  SoundDraft(q, NoRows)
BY DEF SoundDraft, NoRows

(* The next call of the same use case, with nothing written: every window   *)
(* is entered by a call that writes.                                        *)
LEMMA NextCall ==
    ASSUME NEW p \in Requests, SoundReq(req[p]), NEW call, At(p, call),
           call \notin {"savePage", "deletePassages", "insertPassages", "saveReady",
                        "saveDeleted", "commit"},
           NEW w, SoundDraft(req[p], w),
           NEW q, q.kind = req[p].kind, q.step = req[p].step + 1,
           q.doc = req[p].doc \/ call \in {"lookUp", "putNew"}
    PROVE  SoundDraft(q, w)
<1> DEFINE o == req[p]
<1>0. o.step \in Nat
  BY DEF SoundReq
<1>1. CASE o.kind = "ingest"
  <2>1. /\ call \notin {"lookUp", "putNew"} /\ o.step \notin {4, 7, 9, 10}
    BY <1>1, IngestCalls
  <2>2. /\ ~Paged(q) /\ ~Paged(o) /\ q.doc = o.doc
        /\ Inserted(q) => Inserted(o)
        /\ Marked(o) => Marked(q)
        /\ Clearing(o) => Clearing(q)
    BY <1>0, <1>1, <2>1 DEF Paged, Inserted, Marked, Clearing
  <2> QED BY <2>2 DEF SoundDraft
<1>2. CASE o.kind = "page"
  <2>1. /\ call # "putNew" /\ o.step \notin {3, 5, 8, 10, 11}
        /\ call = "lookUp" => o.step = 2
    BY <1>2, PageCalls
  <2>2. /\ Paged(q) => Paged(o) /\ q.doc = o.doc
        /\ Inserted(q) => Inserted(o) /\ q.doc = o.doc
        /\ Marked(o) => Marked(q) /\ q.doc = o.doc
        /\ ~Clearing(o)
    BY <1>0, <1>2, <2>1 DEF Paged, Inserted, Marked, Clearing
  <2> QED BY <2>2 DEF SoundDraft
<1>3. CASE o.kind = "delete"
  <2>1. /\ call \notin {"lookUp", "putNew"} /\ o.step \notin {4, 6, 7}
    BY <1>3, DeleteCalls
  <2>2. /\ ~Paged(q) /\ ~Inserted(q) /\ ~Marked(o) /\ q.doc = o.doc
        /\ Clearing(o) => Clearing(q)
    BY <1>0, <1>3, <2>1 DEF Paged, Inserted, Marked, Clearing
  <2> QED BY <2>2 DEF SoundDraft
<1>4. CASE o.kind = "purge"
  <2>1. /\ call \notin {"lookUp", "putNew"} /\ o.step \in {1, 3}
    BY <1>4, PurgeCalls
  <2>2. /\ ~Paged(q) /\ ~Inserted(q) /\ ~Marked(o) /\ q.doc = o.doc
        /\ Clearing(o) => Clearing(q)
    BY <1>0, <1>4, <2>1 DEF Paged, Inserted, Marked, Clearing
  <2> QED BY <2>2 DEF SoundDraft
<1>5. CASE o.kind \notin {"ingest", "page", "delete", "purge"}
  <2>1. ~Paged(q) /\ ~Inserted(q) /\ ~Marked(o) /\ ~Clearing(o)
    BY <1>5 DEF Paged, Inserted, Marked, Clearing
  <2> QED BY <2>1 DEF SoundDraft
<1> QED BY <1>1, <1>2, <1>3, <1>4, <1>5

(* What the next call leaves of a request. *)
LEMMA NextReq ==
    ASSUME NEW p \in Requests, SoundReq(req[p]), NEW call, At(p, call), call # "readDoc",
           NEW q, DOMAIN q = Fields, q.kind = req[p].kind, q.step = req[p].step + 1,
           q.run = req[p].run, q.todo = req[p].todo,
           DOMAIN req[p].read \subseteq DOMAIN q.read,
           \A d \in Docs \cap DOMAIN q.read : IsDoc(q.read[d]),
           \/ q.doc = req[p].doc /\ call \notin {"lookUp", "putNew"}
           \/ q.doc \in Docs /\ call \in {"lookUp", "putNew"}
    PROVE  SoundReq(q)
<1> DEFINE o == req[p]
<1>1. o.step \in Nat \ {0} /\ q.step >= 2
  BY DEF SoundReq
<1>2. o.kind \in {"retry", "delete"} => o.step # 2 /\ call \notin {"lookUp", "putNew"}
  BY RetryCalls, DeleteCalls
<1>3. o.kind = "page" => (o.step = 2 <=> call = "lookUp") /\ call # "putNew"
  BY PageCalls
<1>4. o.kind \in {"ingest", "purge"} => call \notin {"lookUp", "putNew"}
  BY IngestCalls, PurgeCalls
<1>5. o.kind \in {"ingestFailed", "blankPage"} => call \notin {"lookUp", "putNew"}
  BY OtherCalls
<1>6. o.kind = "upload" => (o.step = 2 <=> call = "putNew") /\ call # "lookUp"
  BY UploadCalls
<1>7. q.kind \in {"retry", "delete"} /\ q.step >= 3 => q.doc \in DOMAIN q.read
  BY <1>1, <1>2 DEF SoundReq
<1>8. HasDoc(q) => q.doc \in Docs
  <2>1. CASE q.doc = o.doc
    <3>1. HasDoc(q) => HasDoc(o) \/ (o.step = 2 /\ o.kind \in {"page", "upload"})
      BY <1>1 DEF HasDoc
    <3> QED BY <1>3, <1>6, <2>1, <3>1 DEF SoundReq
  <2> QED BY <2>1
<1>9. q.kind = "purge" => {q.doc} \cup q.todo \subseteq Docs \cap DOMAIN q.read
  BY <1>4 DEF SoundReq
<1> QED BY <1>1, <1>7, <1>8, <1>9 DEF SoundReq

LEMMA StepKeepsReq ==
    ASSUME NEW p \in Requests, SoundReq(req[p]), NEW call, At(p, call),
           call \notin {"readDoc", "lookUp", "putNew"},
           NEW q, q = [req[p] EXCEPT !.step = @ + 1]
    PROVE  /\ SoundReq(q)
           /\ q.kind = req[p].kind /\ q.step = req[p].step + 1 /\ q.doc = req[p].doc
           /\ q.run = req[p].run /\ q.read = req[p].read /\ q.todo = req[p].todo
<1>1. req[p].step \in Nat \ {0} /\ DOMAIN req[p] = Fields
  BY DEF SoundReq
<1>2. /\ DOMAIN q = Fields /\ q.kind = req[p].kind /\ q.step = req[p].step + 1
      /\ q.doc = req[p].doc /\ q.run = req[p].run /\ q.read = req[p].read
      /\ q.todo = req[p].todo
  BY <1>1 DEF Fields
<1>3. \A d \in Docs \cap DOMAIN q.read : IsDoc(q.read[d])
  BY <1>2 DEF SoundReq
<1> HIDE DEF Fields
<1>4. SoundReq(q)
  BY <1>2, <1>3, NextReq
<1> QED BY <1>2, <1>4

LEMMA GoesOn ==
    ASSUME IInv, NEW p \in Requests, NEW call, At(p, call),
           call \notin {"savePage", "deletePassages", "insertPassages", "saveReady",
                        "saveDeleted", "commit"},
           OnlyMoves(p), draft'[p] = draft[p],
           SoundReq(req'[p]), req'[p].kind = req[p].kind, req'[p].step = req[p].step + 1,
           req'[p].doc = req[p].doc \/ call \in {"lookUp", "putNew"}
    PROVE  MovesSoundly(p)
BY NextCall DEF IInv, Sound, MovesSoundly

LEMMA AdvanceSound ==
    ASSUME IInv, NEW p \in Requests, NEW call, At(p, call),
           call \notin {"readDoc", "savePage", "deletePassages", "insertPassages",
                        "saveReady", "saveDeleted", "commit", "lookUp", "putNew"},
           Advance(p), UNCHANGED dbVars
    PROVE  MovesSoundly(p)
<1>1. /\ DOMAIN req = Requests /\ DOMAIN draft = Requests /\ SoundReq(req[p])
  BY DEF IInv, Sound
<1> DEFINE q == [req[p] EXCEPT !.step = @ + 1]
<1>2. OnlyMoves(p) /\ req'[p] = q /\ draft'[p] = draft[p]
  BY <1>1 DEF Advance, OnlyMoves, dbVars
<1>3. /\ SoundReq(q) /\ q.kind = req[p].kind /\ q.step = req[p].step + 1
      /\ q.doc = req[p].doc
  BY <1>1, StepKeepsReq
<1> HIDE DEF q
<1> QED BY <1>2, <1>3, GoesOn

LEMMA TurnSound ==
    ASSUME NEW o, SoundReq(o), NEW kind \in Kinds,
           kind \notin {"purge", "deleteKB", "retry", "delete", "ingest"},
           kind \in WorkerKinds => o.kind \in WorkerKinds,
           kind \in {"ingestFailed", "blankPage"} => o.doc \in Docs,
           NEW q, q = [o EXCEPT !.kind = kind, !.step = 1]
    PROVE  /\ SoundReq(q) /\ q.kind = kind /\ q.step = 1 /\ q.doc = o.doc
           /\ ~Paged(q) /\ ~Inserted(q) /\ ~Marked(q) /\ ~Clearing(q)
<1>1. /\ DOMAIN q = Fields /\ q.kind = kind /\ q.step = 1 /\ q.doc = o.doc
      /\ q.run = o.run /\ q.read = o.read
  BY DEF Fields, SoundReq
<1>2. SoundReq(q)
  BY <1>1 DEF SoundReq, HasDoc
<1> QED BY <1>1, <1>2 DEF Paged, Inserted, Marked, Clearing

LEMMA RecoverSound ==
    ASSUME IInv, NEW p \in Requests, Recover(p), DropRows(p)
    PROVE  MovesSoundly(p)
<1>1. /\ DOMAIN req = Requests /\ DOMAIN draft = Requests /\ SoundReq(req[p])
  BY DEF IInv, Sound
<1>2. SoundReq(req'[p]) /\ ~Paged(req'[p]) /\ ~Inserted(req'[p])
  <2>1. ASSUME NEW kind \in {"ingestFailed", "crawlFailed", "turn"}, Turn(p, kind),
               req[p].kind \in WorkerKinds, kind = "ingestFailed" => req[p].kind = "ingest"
        PROVE  SoundReq(req'[p]) /\ ~Paged(req'[p]) /\ ~Inserted(req'[p])
    <3>1. kind \in Kinds
      BY Scripts DEF Kinds
    <3>2. req'[p] = [req[p] EXCEPT !.kind = kind, !.step = 1]
      BY <1>1, <2>1 DEF Turn
    <3>3. kind \notin {"purge", "retry", "delete", "ingest"}
      OBVIOUS
    <3> DEFINE o == req[p]
               q == req'[p]
    <3>4. /\ SoundReq(o) /\ o.kind \in WorkerKinds
          /\ q = [o EXCEPT !.kind = kind, !.step = 1]
          /\ kind \in {"ingestFailed", "blankPage"} => o.doc \in Docs
      BY <1>1, <2>1, <3>2 DEF SoundReq, HasDoc
    <3> HIDE DEF o, q
    <3>5. SoundReq(q) /\ ~Paged(q) /\ ~Inserted(q)
      BY <3>1, <3>3, <3>4, TurnSound
    <3> QED BY <3>5 DEF q
  <2>2. CASE Finish(p)
    <3>1. req'[p] = Idle
      BY <1>1, <2>2 DEF Finish
    <3> QED BY <3>1, IdleSound DEF Paged, Inserted, Idle
  <2>3. CASE req[p].kind = "ingest"
    BY <2>1, <2>3 DEF Recover, WorkerKinds
  <2>4. CASE req[p].kind \in {"crawl", "finish", "turn"}
    BY <2>1, <2>4 DEF Recover, WorkerKinds, CrawlKinds
  <2>5. CASE req[p].kind \in {"page", "blankPage"}
    BY <2>1, <2>5 DEF Recover, WorkerKinds, CrawlKinds
  <2> QED BY <2>2, <2>3, <2>4, <2>5 DEF Recover
<1>3. OnlyMoves(p) /\ draft'[p] = NoRows
  BY <1>1 DEF DropRows, OnlyMoves, Recover, Turn, Finish
<1> QED BY <1>2, <1>3, NothingWritten DEF MovesSoundly, Sound

LEMMA FinishSound ==
    ASSUME IInv, NEW p \in Requests, Finish(p), DropRows(p)
    PROVE  MovesSoundly(p)
<1>1. DOMAIN req = Requests /\ DOMAIN draft = Requests
  BY DEF IInv
<1>2. OnlyMoves(p) /\ draft'[p] = NoRows /\ req'[p] = Idle
  BY <1>1 DEF DropRows, OnlyMoves, Finish
<1>3. ~Paged(Idle) /\ ~Inserted(Idle)
  BY DEF Paged, Inserted, Idle
<1> QED BY <1>2, <1>3, IdleSound, NothingWritten DEF MovesSoundly, Sound

-----------------------------------------------------------------------------
(* What a transaction sees, and how it writes. *)
LEMMA SeenDocs ==
    ASSUME IInv, NEW p \in Requests, NEW d \in Docs
    PROVE  IsDoc(Seen(p, d))
BY DEF IInv, Sound, SoundDraft, Seen, Wrote

LEMMA RowsApart ==
    /\ \A d \in Docs : KB # Passages(d) /\ Source # Passages(d)
    /\ \A d, e \in Docs : d # Passages(e)
    /\ \A d, e : Passages(d) = Passages(e) => d = e
    /\ KB \notin Docs /\ Source \notin Docs
BY IngestionAssumption DEF Passages

(* One more row in a draft. *)
Holds(w, v, r, value) ==
    /\ DOMAIN w = DOMAIN v \cup {r} /\ w[r] = value
    /\ \A x \in DOMAIN v : x # r => w[x] = v[x]

LEMMA PutOne ==
    ASSUME IInv, NEW p \in Requests, NEW r, NEW new, DOMAIN new = {r}, Put(p, new),
           DOMAIN req' = Requests, \A q \in Requests \ {p} : req'[q] = req[q]
    PROVE  OnlyMoves(p) /\ Holds(draft'[p], draft[p], r, new[r])
<1>1. DOMAIN req = Requests /\ DOMAIN draft = Requests
  BY DEF IInv
<1>2. draft' = [draft EXCEPT ![p] =
           [x \in DOMAIN draft[p] \cup {r} |-> IF x = r THEN new[r] ELSE draft[p][x]]]
      /\ db' = db
  BY DEF Put, Wrote
<1> QED BY <1>1, <1>2 DEF OnlyMoves, Holds

LEMMA WriteMoves ==
    ASSUME IInv, NEW p \in Requests, NEW r, NEW value, Write(p, r, value)
    PROVE  /\ OnlyMoves(p) /\ req'[p] = [req[p] EXCEPT !.step = @ + 1]
           /\ Holds(draft'[p], draft[p], r, value)
<1> DEFINE new == [x \in {r} |-> value]
<1>1. /\ DOMAIN req' = Requests /\ \A q \in Requests \ {p} : req'[q] = req[q]
      /\ req'[p] = [req[p] EXCEPT !.step = @ + 1]
  BY DEF IInv, Write, Advance
<1>2. Put(p, new) /\ DOMAIN new = {r} /\ new[r] = value
  BY DEF Write
<1> HIDE DEF new
<1>3. OnlyMoves(p) /\ Holds(draft'[p], draft[p], r, new[r])
  BY <1>1, <1>2, PutOne
<1> QED BY <1>1, <1>2, <1>3

(* A row that is neither a document's nor its passages'. *)
LEMMA WriteOther ==
    ASSUME IInv, NEW p \in Requests, NEW call, At(p, call),
           call \notin {"readDoc", "savePage", "deletePassages", "insertPassages",
                        "saveReady", "saveDeleted", "commit", "lookUp", "putNew"},
           NEW r \in {KB, Source}, NEW value, Write(p, r, value)
    PROVE  MovesSoundly(p)
<1> DEFINE q == [req[p] EXCEPT !.step = @ + 1]
           w == draft'[p]
<1>1. Sound(req[p], draft[p])
  BY DEF IInv
<1>2. /\ SoundReq(q) /\ q.kind = req[p].kind /\ q.step = req[p].step + 1
      /\ q.doc = req[p].doc
  BY <1>1, StepKeepsReq DEF Sound
<1>3. /\ OnlyMoves(p) /\ req'[p] = q /\ DOMAIN w = DOMAIN draft[p] \cup {r}
      /\ \A x \in DOMAIN draft[p] : x # r => w[x] = draft[p][x]
  BY WriteMoves DEF Holds
<1> HIDE DEF q, w
<1>4. SoundDraft(req[p], w)
  <2>1. /\ r \notin Docs /\ \A d \in Docs : r # Passages(d)
    BY RowsApart
  <2>2. Paged(req[p]) => req[p].doc \in DOMAIN w
    BY <1>1, <1>3 DEF Sound, SoundDraft
  <2>3. Inserted(req[p]) => Passages(req[p].doc) \in DOMAIN w
                            /\ w[Passages(req[p].doc)].run # 0
    <3>1. Inserted(req[p]) => req[p].doc \in Docs
      BY <1>1 DEF Sound, SoundReq, HasDoc, Inserted
    <3> QED BY <1>1, <1>3, <2>1, <3>1 DEF Sound, SoundDraft
  <2> QED BY <1>1, <1>3, <2>1, <2>2, <2>3 DEF Sound, SoundDraft
<1>5. SoundDraft(q, w)
  BY <1>1, <1>2, <1>4, NextCall DEF Sound
<1> QED BY <1>2, <1>3, <1>5 DEF MovesSoundly, Sound, w

-----------------------------------------------------------------------------
(* Another use case, or another part of one, goes on with the draft. *)
LEMMA Restarts ==
    ASSUME IInv, NEW p \in Requests, OnlyMoves(p), draft'[p] = draft[p],
           ~Marked(req[p]), ~Clearing(req[p]),
           SoundReq(req'[p]), ~Paged(req'[p]), ~Inserted(req'[p])
    PROVE  MovesSoundly(p)
<1>1. SoundDraft(req[p], draft[p])
  BY DEF IInv, Sound
<1>2. SoundDraft(req'[p], draft[p])
  BY <1>1 DEF SoundDraft
<1> QED BY <1>2 DEF MovesSoundly, Sound

(* A document's row: ready only from the run that has inserted its passages,*)
(* and not while the request is clearing them.                              *)
LEMMA DocWritten ==
    ASSUME NEW o, NEW q, NEW v, NEW w, NEW d \in Docs, NEW row,
           Sound(o, v), SoundReq(q),
           Holds(w, v, d, row),
           IsDoc(row), Ready(row) => Marked(q) /\ d = q.doc /\ Inserted(o),
           ~Marked(o),
           Clearing(o) => d = o.doc \/ (Clearing(q) /\ q.doc = o.doc),
           Paged(q) => q.doc \in DOMAIN w,
           Inserted(q) => Inserted(o) /\ q.doc = o.doc
    PROVE  Sound(q, w)
<1> USE DEF Holds
<1>1. \A e \in Docs : d # Passages(e)
  BY RowsApart
<1>2. \A e \in Docs \cap DOMAIN w :
          IsDoc(w[e]) /\ (Ready(w[e]) => Marked(q) /\ e = q.doc)
  BY DEF Sound, SoundDraft
<1>3. ASSUME NEW e \in Docs, Passages(e) \in DOMAIN w, w[Passages(e)].run = 0
      PROVE  e \in DOMAIN w \/ (e = q.doc /\ Clearing(q))
  <2>1. Passages(e) \in DOMAIN v /\ v[Passages(e)].run = 0
    BY <1>1, <1>3
  <2>2. e \in DOMAIN v \/ (e = o.doc /\ Clearing(o))
    BY <2>1 DEF Sound, SoundDraft
  <2> QED BY <2>2
<1>4. ASSUME Inserted(q)
      PROVE  Passages(q.doc) \in DOMAIN w /\ w[Passages(q.doc)].run # 0
  <2>1. q.doc \in Docs
    BY <1>4 DEF Sound, SoundReq, HasDoc, Inserted
  <2> QED BY <1>1, <1>4, <2>1 DEF Sound, SoundDraft
<1> QED BY <1>2, <1>3, <1>4 DEF Sound, SoundDraft

(* The passages of the request's document. *)
LEMMA PassagesWritten ==
    ASSUME NEW o, NEW q, NEW v, NEW w, NEW row,
           Sound(o, v), SoundReq(q), q.doc = o.doc,
           Holds(w, v, Passages(o.doc), row),
           o.doc \in Docs,
           row.run = 0 => o.doc \in DOMAIN v \/ Clearing(q),
           Paged(q) => Paged(o),
           Marked(o) => Marked(q),
           Inserted(q) => row.run # 0
    PROVE  Sound(q, w)
<1> USE DEF Holds
<1>1. /\ \A e \in Docs : e # Passages(o.doc)
      /\ \A e \in Docs : Passages(e) = Passages(o.doc) => e = o.doc
  BY RowsApart
<1>2. \A e \in Docs \cap DOMAIN w :
          IsDoc(w[e]) /\ (Ready(w[e]) => Marked(q) /\ e = q.doc)
  BY <1>1 DEF Sound, SoundDraft
<1>3. ASSUME NEW e \in Docs, Passages(e) \in DOMAIN w, w[Passages(e)].run = 0
      PROVE  e \in DOMAIN w \/ (e = q.doc /\ Clearing(q))
  <2>1. CASE e = o.doc
    BY <1>3, <2>1
  <2>2. CASE e # o.doc
    <3>1. Passages(e) \in DOMAIN v /\ v[Passages(e)].run = 0
      BY <1>1, <1>3, <2>2
    <3> QED BY <2>2, <3>1 DEF Sound, SoundDraft
  <2> QED BY <2>1, <2>2
<1> QED BY <1>2, <1>3 DEF Sound, SoundDraft

-----------------------------------------------------------------------------
(* Requests and jobs that begin. *)
LEMMA ArriveSound ==
    ASSUME IInv, NEW p \in Requests, Arrive(p)
    PROVE  MovesSoundly(p)
<1>1. PICK kind \in {"upload", "deleteKB", "create", "resync", "retry", "delete"},
           d \in Docs \cup {None} :
               Begin(p, kind, d) /\ (kind \in {"retry", "delete"} => d \in Docs)
  BY DEF Arrive
<1> DEFINE q == [Idle EXCEPT !.kind = kind, !.doc = d]
<1>2. /\ DOMAIN req = Requests /\ DOMAIN draft = Requests /\ req[p].kind = "idle"
      /\ ~Marked(req[p]) /\ ~Clearing(req[p])
  BY <1>1 DEF IInv, Begin, Marked, Clearing
<1>3. OnlyMoves(p) /\ draft'[p] = draft[p] /\ req'[p] = q
  BY <1>1, <1>2 DEF Begin, OnlyMoves, dbVars
<1>4. /\ DOMAIN q = Fields /\ q.kind = kind /\ q.step = 1 /\ q.doc = d /\ q.run = 0
      /\ q.read = NoRows /\ q.todo = {}
  BY DEF Idle, Fields
<1>5. kind \in Kinds /\ kind \notin WorkerKinds
  BY Scripts DEF Kinds, WorkerKinds, CrawlKinds
<1> HIDE DEF q
<1>6. SoundReq(q) /\ ~Paged(q) /\ ~Inserted(q)
  BY <1>1, <1>4, <1>5 DEF SoundReq, HasDoc, Paged, Inserted, NoRows
<1> QED BY <1>2, <1>3, <1>6, Restarts

LEMMA TakeJobSound ==
    ASSUME IInv, NEW p \in Requests, TakeJob(p)
    PROVE  MovesSoundly(p)
<1> DEFINE run == AnyOf(FreshRuns)
<1>1. PICK x \in Docs \cup {Source} :
          req' = [req EXCEPT ![p] =
               [Idle EXCEPT !.kind = IF x = Source THEN "crawl" ELSE "ingest",
                            !.doc = IF x = Source THEN None ELSE x,
                            !.run = run]]
  BY DEF TakeJob
<1>2. run \in Nat \ {0}
  BY IngestionAssumption DEF TakeJob, FreshRuns, AnyOf
<1> HIDE DEF run
<1> DEFINE q == req'[p]
<1>3. /\ DOMAIN req = Requests /\ DOMAIN draft = Requests /\ req[p].kind = "idle"
      /\ ~Marked(req[p]) /\ ~Clearing(req[p])
  BY DEF IInv, TakeJob, Marked, Clearing
<1>4. OnlyMoves(p) /\ draft'[p] = draft[p]
  BY <1>1, <1>3 DEF TakeJob, OnlyMoves, dbVars
<1>5. /\ DOMAIN q = Fields /\ q.step = 1 /\ q.run = run /\ q.read = NoRows
      /\ \/ q.kind = "crawl"
         \/ q.kind = "ingest" /\ q.doc \in Docs
  BY <1>1, <1>3 DEF Idle, Fields
<1>6. {"crawl", "ingest"} \subseteq Kinds
  BY Scripts DEF Kinds
<1> HIDE DEF q
<1>7. SoundReq(q) /\ ~Paged(q) /\ ~Inserted(q)
  BY <1>2, <1>5, <1>6 DEF SoundReq, HasDoc, Paged, Inserted, NoRows
<1> QED BY <1>3, <1>4, <1>7, Restarts DEF q

LEMMA KeepSound ==
    ASSUME IInv, NEW p \in Requests, NEW r, Keep(p, r),
           \/ At(p, "readDoc") /\ r = Doc(p)
           \/ At(p, "readSource")
    PROVE  MovesSoundly(p)
<1> DEFINE q == req'[p]
<1>1. /\ DOMAIN req = Requests /\ DOMAIN draft = Requests /\ SoundReq(req[p])
      /\ DOMAIN req[p] = Fields /\ req[p].step \in Nat
  BY DEF IInv, Sound, SoundReq
<1>2. OnlyMoves(p) /\ draft'[p] = draft[p]
  BY <1>1 DEF Keep, OnlyMoves, dbVars
<1>3. /\ DOMAIN q = Fields /\ q.kind = req[p].kind /\ q.step = req[p].step + 1
      /\ q.doc = req[p].doc /\ q.run = req[p].run /\ q.todo = req[p].todo
      /\ q.read = [x \in DOMAIN req[p].read \cup {r} |->
                      IF x = r THEN Seen(p, r) ELSE req[p].read[x]]
  BY <1>1 DEF Keep, Fields
<1> HIDE DEF q
<1>4. \A d \in Docs \cap DOMAIN q.read : IsDoc(q.read[d])
  BY <1>1, <1>3, SeenDocs DEF SoundReq
<1>5. SoundReq(q)
  <2>1. CASE At(p, "readSource")
    <3>1. q.doc = req[p].doc /\ "readSource" \notin {"lookUp", "putNew"} /\ "readSource" # "readDoc"
      BY <1>3
    <3>2. DOMAIN req[p].read \subseteq DOMAIN q.read
      BY <1>3
    <3> HIDE DEF Fields
    <3> QED BY <1>1, <1>3, <1>4, <2>1, <3>1, <3>2, NextReq
  <2>2. CASE At(p, "readDoc") /\ r = Doc(p)
    <3>1. q.doc \in DOMAIN q.read
      BY <1>3, <2>2 DEF Doc
    <3>2. req[p].kind \in {"retry", "delete"}
      BY <1>1, <2>2, IngestCalls, PageCalls, PurgeCalls, OtherCalls
    <3> QED BY <1>1, <1>3, <1>4, <3>1, <3>2 DEF SoundReq, HasDoc
  <2> QED BY <2>1, <2>2
<1> QED BY <1>2, <1>3, <1>5, GoesOn DEF q

LEMMA RefuseSound ==
    ASSUME IInv, NEW p \in Requests, Refuse(p)
    PROVE  MovesSoundly(p)
BY FinishSound DEF Refuse

LEMMA RaiseSound ==
    ASSUME IInv, NEW p \in Requests, Raise(p)
    PROVE  MovesSoundly(p)
BY RecoverSound DEF Raise

LEMMA ReadsSound ==
    ASSUME IInv, NEW p \in Requests,
           \/ ReadKB(p) \/ ReadDoc(p) \/ ReadSource(p) \/ Authorize(p) \/ Load(p)
    PROVE  MovesSoundly(p)
<1>1. CASE ReadKB(p)
  BY <1>1, RefuseSound, AdvanceSound DEF ReadKB, Go
<1>2. CASE ReadDoc(p)
  BY <1>2, RefuseSound, KeepSound DEF ReadDoc
<1>3. CASE ReadSource(p)
  BY <1>3, KeepSound DEF ReadSource
<1>4. CASE Authorize(p)
  BY <1>4, RefuseSound, AdvanceSound DEF Authorize, Go
<1>5. CASE Load(p)
  BY <1>5, RaiseSound, AdvanceSound DEF Load, Go
<1> QED BY <1>1, <1>2, <1>3, <1>4, <1>5

LEMMA GetSound ==
    ASSUME IInv, NEW p \in Requests, Get(p)
    PROVE  MovesSoundly(p)
<1>1. CASE Raise(p)
  BY <1>1, RaiseSound
<1>2. CASE /\ req' = [req EXCEPT ![p].step = @ + 1, ![p].content = objects[Doc(p)]]
           /\ UNCHANGED dbVars
  <2>1. /\ DOMAIN req = Requests /\ DOMAIN draft = Requests /\ SoundReq(req[p])
        /\ DOMAIN req[p] = Fields /\ At(p, "get")
    BY DEF IInv, Sound, SoundReq, Get
  <2> DEFINE q == req'[p]
  <2>2. OnlyMoves(p) /\ draft'[p] = draft[p]
    BY <1>2, <2>1 DEF OnlyMoves, dbVars
  <2>3. /\ DOMAIN q = Fields /\ q.kind = req[p].kind /\ q.step = req[p].step + 1
        /\ q.doc = req[p].doc /\ q.run = req[p].run /\ q.todo = req[p].todo
        /\ q.read = req[p].read
    BY <1>2, <2>1 DEF Fields
  <2> HIDE DEF q
  <2>4. \A d \in Docs \cap DOMAIN q.read : IsDoc(q.read[d])
    BY <2>1, <2>3 DEF SoundReq
  <2> HIDE DEF Fields
  <2>5. SoundReq(q)
    BY <2>1, <2>3, <2>4, NextReq
  <2> QED BY <2>1, <2>2, <2>3, <2>5, GoesOn DEF q
<1> QED BY <1>1, <1>2 DEF Get, dbVars

(* A page finds its document, an upload chooses its own. *)
LEMMA FindsDoc ==
    ASSUME IInv, NEW p \in Requests, NEW call \in {"lookUp", "putNew"}, At(p, call),
           NEW d \in Docs,
           req' = [req EXCEPT ![p].step = @ + 1, ![p].doc = d], UNCHANGED dbVars
    PROVE  MovesSoundly(p)
<1>1. /\ DOMAIN req = Requests /\ DOMAIN draft = Requests /\ SoundReq(req[p])
      /\ DOMAIN req[p] = Fields
  BY DEF IInv, Sound, SoundReq
<1> DEFINE q == req'[p]
<1>2. OnlyMoves(p) /\ draft'[p] = draft[p]
  BY <1>1 DEF OnlyMoves, dbVars
<1>3. /\ DOMAIN q = Fields /\ q.kind = req[p].kind /\ q.step = req[p].step + 1
      /\ q.doc = d /\ q.run = req[p].run /\ q.todo = req[p].todo
      /\ q.read = req[p].read
  BY <1>1 DEF Fields
<1> HIDE DEF q
<1>4. \A e \in Docs \cap DOMAIN q.read : IsDoc(q.read[e])
  BY <1>1, <1>3 DEF SoundReq
<1> HIDE DEF Fields
<1>5. SoundReq(q)
  BY <1>1, <1>3, <1>4, NextReq
<1> QED BY <1>1, <1>2, <1>3, <1>5, GoesOn DEF q

LEMMA LookUpSound ==
    ASSUME IInv, NEW p \in Requests, LookUp(p)
    PROVE  MovesSoundly(p)
<1> DEFINE found == AtUrl(p, req[p].url)
           d == AnyOf(IF found # {} THEN found ELSE Unused)
<1>1. d \in Docs
  BY DEF LookUp, AnyOf, AtUrl, LiveDocs, Unused
<1>2. At(p, "lookUp") /\ req' = [req EXCEPT ![p].step = @ + 1, ![p].doc = d]
      /\ UNCHANGED dbVars
  BY DEF LookUp
<1> HIDE DEF d
<1> QED BY <1>1, <1>2, FindsDoc

LEMMA PutNewSound ==
    ASSUME IInv, NEW p \in Requests, PutNew(p)
    PROVE  MovesSoundly(p)
<1> DEFINE d == AnyOf(Unused)
<1>1. d \in Docs
  BY DEF PutNew, AnyOf, Unused
<1>2. At(p, "putNew") /\ req' = [req EXCEPT ![p].step = @ + 1, ![p].doc = d]
      /\ UNCHANGED dbVars
  BY DEF PutNew
<1> HIDE DEF d
<1> QED BY <1>1, <1>2, FindsDoc

-----------------------------------------------------------------------------
(* Writes of documents' rows. *)
LEMMA WriteDocSound ==
    ASSUME IInv, NEW p \in Requests,
           NEW call \in {"insertDoc", "saveRetried", "saveReady", "saveFailed", "savePage",
                         "saveDeleted"},
           At(p, call), req[p].kind # "purge",
           NEW row, IsDoc(row), Ready(row) => call = "saveReady", Write(p, Doc(p), row)
    PROVE  MovesSoundly(p)
<1> DEFINE o == req[p]
           q == [o EXCEPT !.step = @ + 1]
           v == draft[p]
           w == draft'[p]
<1>1. Sound(o, v) /\ SoundReq(o) /\ o.step \in Nat
  BY DEF IInv, Sound, SoundReq
<1>2. /\ SoundReq(q) /\ q.kind = o.kind /\ q.step = o.step + 1 /\ q.doc = o.doc
  BY <1>1, StepKeepsReq
<1>3. OnlyMoves(p) /\ req'[p] = q /\ Holds(w, v, o.doc, row)
  BY WriteMoves DEF Doc
<1>4. \/ call = "insertDoc" /\ o.kind = "upload" /\ o.step = 3
      \/ call = "saveRetried" /\ o.kind = "retry"
      \/ call = "saveReady" /\ o.kind = "ingest" /\ o.step = 9
      \/ call = "saveReady" /\ o.kind = "page" /\ o.step = 10
      \/ call = "saveFailed" /\ o.kind \in {"ingestFailed", "blankPage"}
      \/ call = "savePage" /\ o.kind = "page" /\ o.step = 3
      \/ call = "saveDeleted" /\ o.kind = "delete"
  <2>1. CASE o.kind \in {"ingest", "page", "delete", "retry", "upload"}
    BY <1>1, <2>1, IngestCalls, PageCalls, DeleteCalls, RetryCalls, UploadCalls, OtherCalls
  <2>2. CASE o.kind \notin {"ingest", "page", "delete", "retry", "upload"}
    BY <1>1, <2>2, OtherCalls
  <2> QED BY <2>1, <2>2
<1> HIDE DEF q, w, v
<1>5. o.doc \in Docs
  BY <1>1, <1>4 DEF SoundReq, HasDoc
<1>6. /\ Ready(row) => Marked(q) /\ o.doc = q.doc /\ Inserted(o)
      /\ ~Marked(o)
      /\ Paged(q) => q.doc \in DOMAIN w
      /\ Inserted(q) => Inserted(o)
  BY <1>2, <1>3, <1>4 DEF Marked, Inserted, Paged, Holds
<1> HIDE DEF o
<1>7. Sound(q, w)
  BY <1>1, <1>2, <1>3, <1>5, <1>6, DocWritten
<1> QED BY <1>3, <1>7 DEF MovesSoundly, w

LEMMA InsertLiveSound ==
    ASSUME IInv, NEW p \in Requests, NEW call \in {"saveRetried", "savePage"},
           At(p, call), req[p].kind # "purge",
           NEW row, IsDoc(row), ~Ready(row), InsertLive(p, Doc(p), row)
    PROVE  MovesSoundly(p)
BY WriteDocSound, RaiseSound DEF InsertLive

LEMMA SaveDocSound ==
    ASSUME IInv, NEW p \in Requests, SaveDoc(p)
    PROVE  MovesSoundly(p)
<1>1. SoundReq(req[p])
  BY DEF IInv, Sound
<1>2. req[p].kind # "purge"
  BY <1>1, PurgeCalls DEF SaveDoc
<1>3. \A url : IsDoc(NewDoc(url)) /\ ~Ready(NewDoc(url))
  BY DEF IsDoc, Ready, NewDoc
<1>4. ASSUME NEW call \in {"saveReady", "saveFailed", "savePage"}, At(p, call),
             NEW status, status = "ready" => call = "saveReady",
             Write(p, Doc(p), WithStatus(p, Doc(p), status))
      PROVE  MovesSoundly(p)
  <2>1. Doc(p) \in Docs
    <3>1. \/ req[p].kind = "ingest"
          \/ req[p].kind = "page" /\ req[p].step >= 3
          \/ req[p].kind \in {"ingestFailed", "blankPage"}
      <4>1. CASE req[p].kind \in {"ingest", "page", "delete", "retry", "upload"}
        BY <1>1, <1>4, <4>1, IngestCalls, PageCalls, DeleteCalls, RetryCalls, UploadCalls,
           OtherCalls
      <4>2. CASE req[p].kind \notin {"ingest", "page", "delete", "retry", "upload"}
        BY <1>1, <1>2, <1>4, <4>2, OtherCalls
      <4> QED BY <4>1, <4>2
    <3> QED BY <1>1, <3>1 DEF SoundReq, HasDoc, Doc
  <2>2. IsDoc(Seen(p, Doc(p)))
    BY <2>1, SeenDocs
  <2> DEFINE row == WithStatus(p, Doc(p), status)
  <2>3. IsDoc(row) /\ (Ready(row) => call = "saveReady")
    BY <1>4, <2>2 DEF IsDoc, Ready, WithStatus
  <2> HIDE DEF row
  <2>4. Write(p, Doc(p), row)
    BY <1>4 DEF row
  <2> QED BY <1>2, <1>4, <2>3, <2>4, WriteDocSound
<1>5. CASE At(p, "insertDoc") /\ Write(p, Doc(p), NewDoc(None))
  BY <1>2, <1>3, <1>5, WriteDocSound
<1>6. CASE At(p, "saveRetried") /\ SaveRetried(p)
  <2> DEFINE row == [Copy(p, Doc(p)) EXCEPT !.status = "processing"]
  <2>1. req[p].kind = "retry" /\ req[p].step = 3
    <3>1. CASE req[p].kind \in {"ingest", "page", "delete", "retry", "upload"}
      BY <1>1, <1>6, <3>1, IngestCalls, PageCalls, DeleteCalls, RetryCalls, UploadCalls,
         OtherCalls
    <3>2. CASE req[p].kind \notin {"ingest", "page", "delete", "retry", "upload"}
      BY <1>1, <1>2, <1>6, <3>2, OtherCalls
    <3> QED BY <3>1, <3>2
  <2>2. IsDoc(Copy(p, Doc(p)))
    BY <1>1, <2>1 DEF SoundReq, HasDoc, Copy, Doc
  <2>3. IsDoc(row) /\ ~Ready(row)
    BY <2>2 DEF IsDoc, Ready
  <2>4. InsertLive(p, Doc(p), row) \/ Write(p, Doc(p), row)
    BY <1>6 DEF SaveRetried
  <2> HIDE DEF row
  <2> QED BY <1>2, <1>6, <2>3, <2>4, WriteDocSound, InsertLiveSound
<1>7. CASE At(p, "saveReady") /\ Write(p, Doc(p), WithStatus(p, Doc(p), "ready"))
  BY <1>4, <1>7
<1>8. CASE At(p, "saveFailed") /\ Write(p, Doc(p), WithStatus(p, Doc(p), "failed"))
  BY <1>4, <1>8
<1>9. CASE At(p, "savePage") /\ InsertLive(p, Doc(p), NewDoc(req[p].url))
  BY <1>2, <1>3, <1>9, InsertLiveSound
<1>10. CASE At(p, "savePage") /\ Write(p, Doc(p), WithStatus(p, Doc(p), "processing"))
  BY <1>4, <1>10
<1> QED BY <1>5, <1>6, <1>7, <1>8, <1>9, <1>10 DEF SaveDoc

LEMMA SaveOtherSound ==
    ASSUME IInv, NEW p \in Requests, SaveOther(p)
    PROVE  MovesSoundly(p)
BY WriteOther DEF SaveOther

(* The next document of a deleted knowledge base, or the end of them. *)
LEMMA NextPurgeReq ==
    ASSUME NEW p \in Requests, DOMAIN req = Requests, SoundReq(req[p]),
           NEW docs, docs \subseteq Docs, NEW read, docs \subseteq DOMAIN read,
           \A d \in Docs \cap DOMAIN read : IsDoc(read[d]),
           NextPurge(p, docs, read)
    PROVE  /\ DOMAIN req' = Requests /\ \A q \in Requests \ {p} : req'[q] = req[q]
           /\ SoundReq(req'[p]) /\ ~Paged(req'[p]) /\ ~Inserted(req'[p])
<1> DEFINE q == req'[p]
<1>1. /\ DOMAIN req' = Requests /\ \A r \in Requests \ {p} : req'[r] = req[r]
  BY DEF NextPurge
<1>2. DOMAIN req[p] = Fields
  BY DEF SoundReq
<1>3. CASE docs = {}
  <2>1. q = [req[p] EXCEPT !.kind = "dropKB", !.step = 1, !.doc = None, !.todo = {}]
    BY <1>3 DEF NextPurge
  <2>2. DOMAIN q = Fields /\ q.kind = "dropKB" /\ q.step = 1 /\ q.read = req[p].read
    BY <1>2, <2>1 DEF Fields
  <2> HIDE DEF q
  <2>3. SoundReq(q)
    BY <2>2, Scripts DEF SoundReq, HasDoc, Kinds, WorkerKinds, CrawlKinds
  <2> QED BY <1>1, <2>2, <2>3 DEF Paged, Inserted, q
<1>4. CASE docs # {}
  <2> DEFINE d == AnyOf(docs)
  <2>1. d \in docs
    BY <1>4 DEF AnyOf
  <2>2. q = [req[p] EXCEPT !.kind = "purge", !.step = 1, !.doc = d, !.todo = docs \ {d},
                           !.read = read]
    BY <1>4 DEF NextPurge
  <2> HIDE DEF d
  <2>3. /\ DOMAIN q = Fields /\ q.kind = "purge" /\ q.step = 1 /\ q.doc = d
        /\ q.todo = docs \ {d} /\ q.read = read
    BY <1>2, <2>2 DEF Fields
  <2> HIDE DEF q
  <2>4. SoundReq(q)
    BY <2>1, <2>3, Scripts DEF SoundReq, HasDoc, Kinds, WorkerKinds, CrawlKinds
  <2> QED BY <1>1, <2>3, <2>4 DEF Paged, Inserted, q
<1> QED BY <1>3, <1>4

LEMMA ReadAllSound ==
    ASSUME IInv, NEW p \in Requests, ReadAll(p)
    PROVE  MovesSoundly(p)
<1> DEFINE q == req'[p]
           read == [d \in LiveDocs(p) |-> Seen(p, d)]
<1>1. /\ DOMAIN req = Requests /\ DOMAIN draft = Requests /\ SoundReq(req[p])
      /\ DOMAIN req[p] = Fields /\ req[p].step \in Nat /\ At(p, "readAll")
  BY DEF IInv, Sound, SoundReq, ReadAll
<1>2. req[p].kind = "deleteKB"
  BY <1>1, IngestCalls, PageCalls, DeleteCalls, PurgeCalls, RetryCalls, OtherCalls
<1>3. /\ LiveDocs(p) \subseteq Docs /\ DOMAIN read = LiveDocs(p)
      /\ \A d \in Docs \cap DOMAIN read : IsDoc(read[d])
  BY SeenDocs DEF LiveDocs
<1>4. OnlyMoves(p) /\ draft'[p] = draft[p]
  BY <1>1 DEF ReadAll, OnlyMoves, dbVars
<1>5. q = [req[p] EXCEPT !.step = @ + 1, !.todo = LiveDocs(p), !.read = read]
  BY <1>1 DEF ReadAll
<1> HIDE DEF q, read
<1>6. /\ DOMAIN q = Fields /\ q.kind = req[p].kind /\ q.step = req[p].step + 1
      /\ q.doc = req[p].doc /\ q.run = req[p].run /\ q.todo = LiveDocs(p)
      /\ q.read = read
  BY <1>1, <1>5 DEF Fields
<1>7. SoundReq(q)
  BY <1>1, <1>2, <1>3, <1>6 DEF SoundReq, HasDoc
<1>8. ~Marked(req[p]) /\ ~Clearing(req[p]) /\ ~Paged(q) /\ ~Inserted(q)
  BY <1>2, <1>6 DEF Marked, Clearing, Paged, Inserted
<1> QED BY <1>4, <1>7, <1>8, Restarts DEF q

LEMMA CheckAtRestSound ==
    ASSUME IInv, NEW p \in Requests, CheckAtRest(p)
    PROVE  MovesSoundly(p)
<1>1. CASE Refuse(p)
  BY <1>1, RefuseSound
<1>2. CASE NextPurge(p, req[p].todo, req[p].read) /\ UNCHANGED dbVars
  <2>1. /\ DOMAIN req = Requests /\ DOMAIN draft = Requests /\ SoundReq(req[p])
        /\ At(p, "checkAtRest")
    BY DEF IInv, Sound, CheckAtRest
  <2>2. req[p].kind = "deleteKB"
    BY <2>1, IngestCalls, PageCalls, DeleteCalls, PurgeCalls, RetryCalls, OtherCalls
  <2>3. /\ req[p].todo \subseteq Docs /\ req[p].todo \subseteq DOMAIN req[p].read
        /\ \A d \in Docs \cap DOMAIN req[p].read : IsDoc(req[p].read[d])
    BY <2>1, <2>2 DEF SoundReq
  <2>4. /\ DOMAIN req' = Requests /\ \A q \in Requests \ {p} : req'[q] = req[q]
        /\ SoundReq(req'[p]) /\ ~Paged(req'[p]) /\ ~Inserted(req'[p])
    BY <1>2, <2>1, <2>3, NextPurgeReq
  <2>5. OnlyMoves(p) /\ draft'[p] = draft[p]
    BY <1>2, <2>1, <2>4 DEF OnlyMoves, dbVars
  <2> QED BY <2>2, <2>4, <2>5, Restarts DEF Marked, Clearing
<1> QED BY <1>1, <1>2 DEF CheckAtRest, dbVars

LEMMA SaveDeletedSound ==
    ASSUME IInv, NEW p \in Requests, SaveDeleted(p)
    PROVE  MovesSoundly(p)
<1> DEFINE o == req[p]
           d == Doc(p)
           row == [Copy(p, d) EXCEPT !.state = "deleted"]
           new == [x \in {d} |-> [Copy(p, x) EXCEPT !.state = "deleted"]]
<1>1. /\ DOMAIN req = Requests /\ Sound(o, draft[p]) /\ SoundReq(o)
      /\ At(p, "saveDeleted")
  BY DEF IInv, Sound, SaveDeleted
<1>2. \/ o.kind = "delete" /\ o.step = 6
      \/ o.kind = "purge" /\ o.step = 4
  <2>1. CASE o.kind \in {"ingest", "page", "delete", "retry", "purge"}
    BY <1>1, <2>1, IngestCalls, PageCalls, DeleteCalls, RetryCalls, PurgeCalls
  <2>2. CASE o.kind \notin {"ingest", "page", "delete", "retry", "purge"}
    BY <1>1, <2>2, OtherCalls
  <2> QED BY <2>1, <2>2
<1>3. d \in Docs /\ IsDoc(Copy(p, d))
  BY <1>1, <1>2 DEF SoundReq, HasDoc, Doc, Copy
<1>4. IsDoc(row) /\ ~Ready(row)
  BY <1>3 DEF IsDoc, Ready
<1>5. DOMAIN new = {d} /\ new[d] = row /\ new = [x \in {d} |-> row]
  OBVIOUS
<1>6. CASE o.kind = "delete"
  <2>1. Write(p, d, row)
    BY <1>5, <1>6 DEF SaveDeleted, Write
  <2> HIDE DEF row
  <2> QED BY <1>1, <1>4, <1>6, <2>1, WriteDocSound
<1>7. CASE o.kind = "purge"
  <2>1. Put(p, new) /\ NextPurge(p, o.todo, o.read)
    BY <1>7 DEF SaveDeleted
  <2>2. /\ o.todo \subseteq Docs /\ o.todo \subseteq DOMAIN o.read
        /\ \A e \in Docs \cap DOMAIN o.read : IsDoc(o.read[e])
    BY <1>1, <1>7 DEF SoundReq
  <2>3. /\ DOMAIN req' = Requests /\ \A q \in Requests \ {p} : req'[q] = req[q]
        /\ SoundReq(req'[p]) /\ ~Paged(req'[p]) /\ ~Inserted(req'[p])
    BY <1>1, <2>1, <2>2, NextPurgeReq
  <2> HIDE DEF new, row
  <2>4. OnlyMoves(p) /\ Holds(draft'[p], draft[p], d, row)
    BY <1>5, <2>1, <2>3, PutOne
  <2>5. ~Marked(o) /\ d = o.doc
    BY <1>7 DEF Marked, Doc
  <2> HIDE DEF d, o
  <2>6. Sound(req'[p], draft'[p])
    BY <1>1, <1>3, <1>4, <2>3, <2>4, <2>5, DocWritten
  <2> QED BY <2>4, <2>6 DEF MovesSoundly
<1> QED BY <1>2, <1>6, <1>7

-----------------------------------------------------------------------------
(* Passages. *)
LEMMA DeletesAt ==
    ASSUME NEW p \in Requests, SoundReq(req[p]), At(p, "deletePassages")
    PROVE  /\ req[p].doc \in Docs
           /\ \/ req[p].kind = "ingest" /\ req[p].step = 4
              \/ req[p].kind = "page" /\ req[p].step = 5
              \/ req[p].kind = "delete" /\ req[p].step = 4
              \/ req[p].kind = "purge" /\ req[p].step = 2
<1>1. CASE req[p].kind \in {"ingest", "page", "delete", "retry", "purge"}
  BY <1>1, IngestCalls, PageCalls, DeleteCalls, RetryCalls, PurgeCalls DEF SoundReq, HasDoc
<1>2. CASE req[p].kind \notin {"ingest", "page", "delete", "retry", "purge"}
  BY <1>2, OtherCalls
<1> QED BY <1>1, <1>2

LEMMA DeletePassagesSound ==
    ASSUME IInv, NEW p \in Requests, DeletePassages(p)
    PROVE  MovesSoundly(p)
<1> DEFINE o == req[p]
           q == [o EXCEPT !.step = @ + 1]
           v == draft[p]
           w == draft'[p]
<1>1. /\ DOMAIN req = Requests /\ DOMAIN draft = Requests
      /\ Sound(o, v) /\ SoundReq(o) /\ At(p, "deletePassages")
  BY DEF IInv, Sound, DeletePassages
<1>2. /\ SoundReq(q) /\ q.kind = o.kind /\ q.step = o.step + 1 /\ q.doc = o.doc
  BY <1>1, StepKeepsReq
<1>3. /\ o.doc \in Docs
      /\ \/ o.kind = "ingest" /\ o.step = 4
         \/ o.kind = "page" /\ o.step = 5
         \/ o.kind = "delete" /\ o.step = 4
         \/ o.kind = "purge" /\ o.step = 2
  BY <1>1, DeletesAt
<1>4. CASE Go(p)
  <2>1. OnlyMoves(p) /\ req'[p] = q /\ w = v
    BY <1>1, <1>4 DEF Go, Advance, OnlyMoves, dbVars
  <2> HIDE DEF q, v, w
  <2>2. ~Marked(o) /\ ~Clearing(o) /\ ~Inserted(q) /\ (Paged(q) => Paged(o))
    BY <1>2, <1>3 DEF Marked, Clearing, Inserted, Paged
  <2>3. SoundDraft(q, v)
    BY <1>1, <1>2, <2>2 DEF Sound, SoundDraft
  <2> QED BY <1>2, <2>1, <2>3 DEF MovesSoundly, Sound, w
<1>5. CASE Write(p, Passages(Doc(p)), [run |-> 0])
  <2>1. /\ OnlyMoves(p) /\ req'[p] = q /\ Holds(w, v, Passages(o.doc), [run |-> 0])
    BY <1>5, WriteMoves DEF Doc
  <2> HIDE DEF q, v, w
  <2>2. /\ o.doc \in Docs /\ ~Marked(o) /\ ~Inserted(q)
        /\ Paged(q) => Paged(o)
        /\ o.kind # "page" => Clearing(q)
        /\ o.kind = "page" => Paged(o)
    BY <1>1, <1>2, <1>3 DEF Marked, Clearing, Inserted, Paged, SoundReq, HasDoc
  <2>3. o.doc \in DOMAIN v \/ Clearing(q)
    BY <1>1, <2>2 DEF Sound, SoundDraft
  <2> HIDE DEF o
  <2>4. Sound(q, w)
    BY <1>1, <1>2, <2>1, <2>2, <2>3, PassagesWritten
  <2> QED BY <2>1, <2>4 DEF MovesSoundly, w
<1> QED BY <1>4, <1>5 DEF DeletePassages

LEMMA DeleteWaitsSound ==
    ASSUME IInv, NEW p \in Requests, DeleteWaits(p)
    PROVE  MovesSoundly(p)
<1> DEFINE o == req[p]
           q == req'[p]
           r == Passages(Doc(p))
<1>1. /\ DOMAIN req = Requests /\ DOMAIN draft = Requests /\ Sound(o, draft[p])
      /\ DOMAIN o = Fields
  BY DEF IInv, Sound, SoundReq
<1>2. req' = [req EXCEPT ![p].read =
          [x \in DOMAIN @ \cup {r} |-> IF x = r THEN Seen(p, r) ELSE @[x]]]
  BY DEF DeleteWaits
<1>3. OnlyMoves(p) /\ draft'[p] = draft[p]
  BY <1>1, <1>2 DEF DeleteWaits, OnlyMoves, dbVars
<1>4. /\ DOMAIN q = Fields /\ q.kind = o.kind /\ q.step = o.step
      /\ q.doc = o.doc /\ q.run = o.run /\ q.todo = o.todo
      /\ q.read = [x \in DOMAIN o.read \cup {r} |-> IF x = r THEN Seen(p, r) ELSE o.read[x]]
  BY <1>1, <1>2 DEF Fields
<1> HIDE DEF q
<1>5. SoundReq(q)
  <2>1. \A d \in Docs : d # r
    BY <1>1, RowsApart, DeletesAt DEF Sound, DeleteWaits, Doc
  <2>2. /\ DOMAIN o.read \subseteq DOMAIN q.read
        /\ \A d \in Docs \cap DOMAIN q.read : IsDoc(q.read[d])
    BY <1>1, <1>4, <2>1 DEF Sound, SoundReq
  <2> QED BY <1>1, <1>4, <2>2 DEF Sound, SoundReq, HasDoc
<1>6. SoundDraft(q, draft[p])
  BY <1>1, <1>4 DEF Sound, SoundDraft, Marked, Clearing, Paged, Inserted
<1> QED BY <1>3, <1>5, <1>6 DEF MovesSoundly, Sound, q

LEMMA InsertPassagesSound ==
    ASSUME IInv, NEW p \in Requests, InsertPassages(p)
    PROVE  MovesSoundly(p)
<1>1. CASE Raise(p)
  BY <1>1, RaiseSound
<1>2. CASE Write(p, Passages(Doc(p)), [run |-> req[p].run])
  <2> DEFINE o == req[p]
             q == [o EXCEPT !.step = @ + 1]
             v == draft[p]
             w == draft'[p]
  <2>1. Sound(o, v) /\ SoundReq(o) /\ At(p, "insertPassages")
    BY DEF IInv, Sound, InsertPassages
  <2>2. /\ SoundReq(q) /\ q.kind = o.kind /\ q.step = o.step + 1 /\ q.doc = o.doc
    BY <2>1, StepKeepsReq
  <2>3. \/ o.kind = "ingest" /\ o.step = 7
        \/ o.kind = "page" /\ o.step = 8
    <3>1. CASE o.kind \in {"ingest", "page", "delete", "retry", "purge"}
      BY <2>1, <3>1, IngestCalls, PageCalls, DeleteCalls, RetryCalls, PurgeCalls
    <3>2. CASE o.kind \notin {"ingest", "page", "delete", "retry", "purge"}
      BY <2>1, <3>2, OtherCalls
    <3> QED BY <3>1, <3>2
  <2>4. OnlyMoves(p) /\ req'[p] = q /\ Holds(w, v, Passages(o.doc), [run |-> o.run])
    BY <1>2, WriteMoves DEF Doc
  <2> HIDE DEF q, v, w
  <2>5. /\ o.doc \in Docs /\ ~Marked(o) /\ [run |-> o.run].run # 0
        /\ Paged(q) => Paged(o)
    BY <2>1, <2>2, <2>3 DEF Marked, Paged, SoundReq, HasDoc, WorkerKinds, CrawlKinds
  <2> HIDE DEF o
  <2>6. Sound(q, w)
    BY <2>1, <2>2, <2>4, <2>5, PassagesWritten
  <2> QED BY <2>4, <2>6 DEF MovesSoundly, w
<1> QED BY <1>1, <1>2 DEF InsertPassages

-----------------------------------------------------------------------------
(* The other stores: the rows stay as they are. *)
LEMMA StoresSound ==
    ASSUME IInv, NEW p \in Requests,
           \/ DropVectors(p) \/ Upsert(p) \/ PutPage(p) \/ DeleteObject(p)
    PROVE  MovesSoundly(p)
BY AdvanceSound DEF DropVectors, Upsert, PutPage, DeleteObject

(* The request becomes another part of its run, with what it has written. *)
LEMMA TurnGoesOn ==
    ASSUME IInv, NEW p \in Requests, NEW kind \in {"blankPage", "finish", "turn"},
           req[p].kind \in {"page", "turn"}, kind = "blankPage" => req[p].doc \in Docs,
           ~Marked(req[p]), Turn(p, kind), UNCHANGED dbVars
    PROVE  MovesSoundly(p)
<1> DEFINE o == req[p]
           q == req'[p]
<1>1. /\ DOMAIN req = Requests /\ DOMAIN draft = Requests /\ SoundReq(o)
  BY DEF IInv, Sound
<1>2. OnlyMoves(p) /\ draft'[p] = draft[p] /\ q = [o EXCEPT !.kind = kind, !.step = 1]
  BY <1>1 DEF Turn, OnlyMoves, dbVars
<1>3. kind \in Kinds /\ o.kind \in WorkerKinds /\ ~Clearing(o)
  BY Scripts DEF Kinds, WorkerKinds, CrawlKinds, Clearing
<1>4. /\ kind \notin {"purge", "retry", "delete", "ingest"}
      /\ kind \in {"ingestFailed", "blankPage"} => o.doc \in Docs
  OBVIOUS
<1> HIDE DEF q
<1>5. SoundReq(q) /\ ~Paged(q) /\ ~Inserted(q)
  <2> HIDE DEF o
  <2> QED BY <1>1, <1>2, <1>3, <1>4, TurnSound
<1> QED BY <1>2, <1>3, <1>5, Restarts DEF q

LEMMA EmbedsAt ==
    ASSUME NEW p \in Requests, SoundReq(req[p]), At(p, "embed"), req[p].kind # "ingest"
    PROVE  req[p].kind = "page" /\ req[p].step = 7
<1>1. CASE req[p].kind \in {"page", "delete", "retry", "purge"}
  BY <1>1, PageCalls, DeleteCalls, RetryCalls, PurgeCalls
<1>2. CASE req[p].kind \notin {"ingest", "page", "delete", "retry", "purge"}
  BY <1>2, OtherCalls
<1> QED BY <1>1, <1>2

LEMMA EmbedSound ==
    ASSUME IInv, NEW p \in Requests, Embed(p)
    PROVE  MovesSoundly(p)
<1>1. SoundReq(req[p]) /\ At(p, "embed")
  BY DEF IInv, Sound, Embed
<1>2. CASE Go(p)
  BY <1>1, <1>2, AdvanceSound DEF Go
<1>3. CASE Raise(p)
  BY <1>3, RaiseSound
<1>4. CASE Turn(p, "blankPage") /\ UNCHANGED dbVars /\ req[p].kind # "ingest"
  <2>1. req[p].kind = "page" /\ req[p].step = 7
    BY <1>1, <1>4, EmbedsAt
  <2>2. req[p].doc \in Docs /\ ~Marked(req[p])
    BY <1>1, <2>1 DEF SoundReq, HasDoc, Marked
  <2> QED BY <1>4, <2>1, <2>2, TurnGoesOn
<1> QED BY <1>2, <1>3, <1>4 DEF Embed, dbVars

LEMMA EnqueueSound ==
    ASSUME IInv, NEW p \in Requests, Enqueue(p)
    PROVE  MovesSoundly(p)
<1>1. /\ DOMAIN req = Requests /\ DOMAIN draft = Requests /\ SoundReq(req[p])
  BY DEF IInv, Sound
<1>2. OnlyMoves(p) /\ draft'[p] = draft[p] /\ req'[p] = Idle
  BY <1>1 DEF Enqueue, Finish, OnlyMoves, dbVars
<1>3. req[p].kind \notin {"ingest", "page", "delete", "purge"}
  BY <1>1, IngestCalls, PageCalls, DeleteCalls, PurgeCalls DEF Enqueue
<1>4. ~Marked(req[p]) /\ ~Clearing(req[p]) /\ ~Paged(Idle) /\ ~Inserted(Idle)
  BY <1>3 DEF Marked, Clearing, Paged, Inserted, Idle
<1> QED BY <1>2, <1>4, IdleSound, Restarts

LEMMA NextPageSound ==
    ASSUME IInv, NEW p \in Requests, NextPage(p)
    PROVE  MovesSoundly(p)
<1> DEFINE o == req[p]
           q == req'[p]
<1>1. /\ DOMAIN req = Requests /\ DOMAIN draft = Requests /\ SoundReq(o)
      /\ o.kind = "turn" /\ ~Marked(o) /\ ~Clearing(o)
  BY DEF IInv, Sound, NextPage, Marked, Clearing
<1>2. CASE Turn(p, "finish")
  BY <1>1, <1>2, TurnGoesOn DEF NextPage
<1>3. ASSUME NEW url, NEW content,
             req' = [req EXCEPT ![p].kind = "page", ![p].step = 1, ![p].doc = None,
                  ![p].url = url, ![p].content = content, ![p].read = NoRows,
                  ![p].seen = @ \cup {url}]
      PROVE  MovesSoundly(p)
  <2>1. /\ OnlyMoves(p) /\ draft'[p] = draft[p]
    BY <1>1, <1>3 DEF NextPage, OnlyMoves, dbVars
  <2>2. q = [o EXCEPT !.kind = "page", !.step = 1, !.doc = None, !.url = url,
                  !.content = content, !.read = NoRows, !.seen = @ \cup {url}]
    BY <1>1, <1>3
  <2>3. DOMAIN o = Fields
    BY <1>1 DEF SoundReq
  <2> HIDE DEF o, q
  <2>4. /\ DOMAIN q = Fields /\ q.kind = "page" /\ q.step = 1 /\ q.read = NoRows
        /\ q.run = o.run
    BY <2>2, <2>3 DEF Fields
  <2>5. SoundReq(q)
    BY <1>1, <2>4, Scripts DEF SoundReq, HasDoc, Kinds, WorkerKinds, CrawlKinds, NoRows
  <2> QED BY <1>1, <2>1, <2>4, <2>5, Restarts DEF Paged, Inserted, o, q
<1> QED BY <1>2, <1>3 DEF NextPage

(* Faults. *)
LEMMA CallFailsSound ==
    ASSUME IInv, NEW p \in Requests, CallFails(p)
    PROVE  MovesSoundly(p)
<1>1. CASE Raise(p)
  BY <1>1, RaiseSound
<1>2. CASE At(p, "deleteObject") /\ Advance(p) /\ UNCHANGED dbVars
  BY <1>2, AdvanceSound
<1>3. CASE DropRows(p) /\ Recover(p)
  BY <1>3, RecoverSound
<1> QED BY <1>1, <1>2, <1>3 DEF CallFails, dbVars

LEMMA CrashSound ==
    ASSUME IInv, NEW p \in Requests, Crash(p)
    PROVE  MovesSoundly(p)
BY FinishSound DEF Crash

LEMMA CallSound ==
    ASSUME IInv, NEW p \in Requests, Call(p), ~Commit(p)
    PROVE  MovesSoundly(p)
<1>1. CASE TakeJob(p)
  BY <1>1, TakeJobSound
<1>2. CASE \/ ReadKB(p) \/ ReadDoc(p) \/ ReadSource(p) \/ Authorize(p) \/ Load(p)
  BY <1>2, ReadsSound
<1>3. CASE ReadAll(p) \/ CheckAtRest(p) \/ Get(p) \/ LookUp(p)
  BY <1>3, ReadAllSound, CheckAtRestSound, GetSound, LookUpSound
<1>4. CASE SaveDoc(p) \/ SaveDeleted(p) \/ SaveOther(p)
  BY <1>4, SaveDocSound, SaveDeletedSound, SaveOtherSound
<1>5. CASE DeletePassages(p) \/ DeleteWaits(p) \/ InsertPassages(p)
  BY <1>5, DeletePassagesSound, DeleteWaitsSound, InsertPassagesSound
<1>6. CASE DropVectors(p) \/ Upsert(p) \/ PutPage(p) \/ DeleteObject(p)
  BY <1>6, StoresSound
<1>7. CASE Embed(p) \/ PutNew(p) \/ Enqueue(p) \/ NextPage(p)
  BY <1>7, EmbedSound, PutNewSound, EnqueueSound, NextPageSound
<1>8. CASE DeadlockVictim(p)
  BY <1>8, RaiseSound DEF DeadlockVictim
<1> QED BY <1>1, <1>2, <1>3, <1>4, <1>5, <1>6, <1>7, <1>8 DEF Call

-----------------------------------------------------------------------------
(* The commit, over whatever others have committed since the reads. *)
LEMMA CommitKeepsReady ==
    ASSUME IInv, NEW p \in Requests, Commit(p)
    PROVE  (\A d \in Docs : IsDoc(db[d]))' /\ ReadyHasPassages'
<1> DEFINE o == req[p]
           w == draft[p]
<1>1. /\ Sound(o, w) /\ SoundReq(o) /\ At(p, "commit")
  BY DEF IInv, Sound, Commit
<1>2. /\ db' = [r \in Rows |-> Seen(p, r)]
      /\ Docs \subseteq Rows /\ {Passages(d) : d \in Docs} \subseteq Rows
  BY IngestionAssumption DEF Commit, CommitRows
<1>3. \A d \in Docs : db'[d] = Seen(p, d) /\ db'[Passages(d)] = Seen(p, Passages(d))
  BY <1>2
<1>4. ~Clearing(o) /\ (Marked(o) => Inserted(o))
  BY <1>1, IngestCalls, DeleteCalls, PurgeCalls DEF Clearing, Marked, Inserted, SoundReq
<1>5. ASSUME NEW d \in Docs, Ready(Seen(p, d))
      PROVE  Seen(p, Passages(d)).run # 0
  <2>1. CASE d \in DOMAIN w
    <3>1. d = o.doc /\ Inserted(o)
      BY <1>1, <1>4, <1>5, <2>1 DEF Sound, SoundDraft, Seen, Wrote
    <3> QED BY <1>1, <3>1 DEF Sound, SoundDraft, Seen, Wrote
  <2>2. CASE d \notin DOMAIN w
    <3>1. db[Passages(d)].run # 0
      BY <1>5, <2>2 DEF IInv, ReadyHasPassages, Answers, Ready, Seen, Wrote
    <3>2. Passages(d) \in DOMAIN w => w[Passages(d)].run # 0
      BY <1>1, <1>4, <2>2 DEF Sound, SoundDraft
    <3> QED BY <3>1, <3>2 DEF Seen, Wrote
  <2> QED BY <2>1, <2>2
<1> QED BY <1>3, <1>5, SeenDocs DEF ReadyHasPassages, Answers, Ready

LEMMA CommitLast ==
    ASSUME NEW p \in Requests, SoundReq(req[p]), At(p, "commit"), ~IsLast(p)
    PROVE  req[p].kind \notin {"ingest", "page"}
<1>1. Len(ProcessDocumentUpload) = 10 /\ Len(IndexOnePage) = 11
  BY DEF ProcessDocumentUpload, IndexOnePage
<1> QED BY <1>1, Scripts, IngestCalls, PageCalls DEF IsLast

LEMMA CommitMoves ==
    ASSUME IInv, NEW p \in Requests, Commit(p)
    PROVE  /\ DOMAIN req' = Requests /\ DOMAIN draft' = Requests
           /\ \A q \in Requests \ {p} : req'[q] = req[q] /\ draft'[q] = draft[q]
           /\ Sound(req'[p], draft'[p])
<1> DEFINE o == req[p]
           q == req'[p]
<1>1. /\ DOMAIN req = Requests /\ DOMAIN draft = Requests /\ SoundReq(o)
      /\ At(p, "commit")
  BY DEF IInv, Sound, Commit
<1>2. /\ DOMAIN req' = Requests /\ DOMAIN draft' = Requests /\ draft'[p] = NoRows
      /\ \A r \in Requests \ {p} : req'[r] = req[r] /\ draft'[r] = draft[r]
  BY <1>1 DEF Commit, CommitRows, Advance, Turn, Finish
<1>3. SoundReq(q) /\ ~Paged(q) /\ ~Inserted(q)
  <2>1. CASE ~IsLast(p) /\ Advance(p)
    <3>1. q = [o EXCEPT !.step = @ + 1]
      BY <1>1, <2>1 DEF Advance
    <3>2. SoundReq(q) /\ q.kind = o.kind
      BY <1>1, <3>1, StepKeepsReq
    <3>3. o.kind \notin {"ingest", "page"}
      BY <1>1, <2>1, CommitLast
    <3> QED BY <3>2, <3>3 DEF Paged, Inserted
  <2>2. CASE Turn(p, "turn") /\ o.kind \in {"crawl", "page", "blankPage"}
    <3>1. q = [o EXCEPT !.kind = "turn", !.step = 1]
      BY <1>1, <2>2 DEF Turn
    <3>2. /\ "turn" \in Kinds /\ o.kind \in WorkerKinds
          /\ "turn" \notin {"purge", "retry", "delete", "ingest"}
          /\ "turn" \notin {"ingestFailed", "blankPage"}
      BY <2>2, Scripts DEF Kinds, WorkerKinds, CrawlKinds
    <3> HIDE DEF o, q
    <3> QED BY <1>1, <3>1, <3>2, TurnSound
  <2>3. CASE Finish(p)
    <3>1. q = Idle
      BY <1>1, <2>3 DEF Finish
    <3> QED BY <3>1, IdleSound DEF Paged, Inserted, Idle
  <2> QED BY <2>1, <2>2, <2>3 DEF Commit
<1> QED BY <1>2, <1>3, NothingWritten DEF Sound

-----------------------------------------------------------------------------
LEMMA InitSound == Init => IInv
<1> SUFFICES ASSUME Init PROVE IInv
  OBVIOUS
<1> DEFINE first == AnyOf(Docs)
<1>1. PICK url : DbInit([r \in Rows |->
                   CASE r = KB     -> [deleted |-> FALSE]
                     [] r = Source -> [status |-> IF url = None THEN "absent" ELSE "ready"]
                     [] r = first  -> [NewDoc(url) EXCEPT !.status = "ready"]
                     [] r \in Docs \ {first} -> NoDoc
                     [] OTHER -> [run |-> IF r = Passages(first) THEN 1 ELSE 0]])
  BY DEF Init
<1>2. first \in Docs
  BY IngestionAssumption DEF AnyOf
<1> HIDE DEF first
<1>3. /\ DOMAIN req = Requests /\ DOMAIN draft = Requests
      /\ \A p \in Requests : req[p] = Idle /\ draft[p] = NoRows
  BY <1>1 DEF Init, DbInit
<1>4. \A p \in Requests : Sound(req[p], draft[p])
  BY <1>3, IdleSound, NothingWritten DEF Sound, Paged, Inserted, Idle
<1>5. ASSUME NEW d \in Docs
      PROVE  /\ db[d] = IF d = first THEN [NewDoc(url) EXCEPT !.status = "ready"] ELSE NoDoc
             /\ db[Passages(first)].run = 1
  <2>1. /\ d \in Rows /\ d # KB /\ d # Source /\ Passages(first) \in Rows
        /\ Passages(first) \notin Docs /\ Passages(first) # KB /\ Passages(first) # Source
    BY <1>2, RowsApart, IngestionAssumption
  <2>2. db[Passages(first)] = [run |-> 1]
    BY <1>1, <1>2, <2>1 DEF DbInit
  <2>3. db[d] = IF d = first THEN [NewDoc(url) EXCEPT !.status = "ready"] ELSE NoDoc
    BY <1>1, <2>1 DEF DbInit
  <2> QED BY <2>2, <2>3
<1>6. \A d \in Docs : IsDoc(db[d]) /\ (Ready(db[d]) => d = first)
  BY <1>5 DEF IsDoc, Ready, NewDoc, NoDoc
<1>7. ReadyHasPassages
  BY <1>5, <1>6 DEF ReadyHasPassages, Answers, Ready
<1> QED BY <1>3, <1>4, <1>6, <1>7 DEF IInv

LEMMA NextSound == IInv /\ [Next]_vars => IInv'
<1> SUFFICES ASSUME IInv, [Next]_vars PROVE IInv'
  OBVIOUS
<1>1. ASSUME NEW p \in Requests, MovesSoundly(p)
      PROVE  IInv'
  BY <1>1 DEF MovesSoundly, OnlyMoves, IInv, ReadyHasPassages, Answers
<1>2. ASSUME NEW p \in Requests, Arrive(p) \/ CallFails(p) \/ Crash(p)
      PROVE  IInv'
  BY <1>1, <1>2, ArriveSound, CallFailsSound, CrashSound
<1>3. ASSUME NEW p \in Requests, Commit(p)
      PROVE  IInv'
  <2>1. (\A d \in Docs : IsDoc(db[d]))' /\ ReadyHasPassages'
    BY <1>3, CommitKeepsReady
  <2>2. \A q \in Requests : Sound(req'[q], draft'[q])
    BY <1>3, CommitMoves DEF IInv
  <2> QED BY <1>3, <2>1, <2>2, CommitMoves DEF IInv
<1>4. ASSUME NEW p \in Requests, Call(p)
      PROVE  IInv'
  BY <1>1, <1>3, <1>4, CallSound
<1>5. CASE Revoke
  BY <1>5 DEF Revoke, dbVars, IInv, ReadyHasPassages, Answers
<1>6. CASE UNCHANGED vars
  BY <1>6 DEF vars, stateVars, dbVars, IInv, ReadyHasPassages, Answers
<1> QED BY <1>2, <1>4, <1>5, <1>6 DEF Next

(* A ready document has its passages, however many runs and deletions       *)
(* overlap and wherever any of them is cut off.                             *)
THEOREM ReadyDocumentsHavePassages == Spec => []ReadyHasPassages
<1>1. IInv => ReadyHasPassages
  BY DEF IInv
<1> QED BY <1>1, InitSound, NextSound, PTL DEF Spec

-----------------------------------------------------------------------------
(* Who may be at work on a document, and what deletions leave.              *)
(* KInv: a document that was never crossed has one request at work on it at *)
(* most, so that a deletion that has taken its points is not followed by a  *)
(* run that puts others there.  Keeping is what each move does for KInv, a  *)
(* commit apart: only p's part of the state changes, p's new part fits, and *)
(* what p comes to be at work on counts as crossed when another was there.  *)
(* Where each call is made:                                                 *)

(* Where each call is made: the use case and how far it is. *)
Place(o, call) ==
    /\ call = "readKB" =>
          /\ o.kind \in {"upload", "retry", "delete", "deleteKB", "create", "resync"}
          /\ o.step = 1
    /\ call = "putNew" => o.kind = "upload" /\ o.step = 2
    /\ call = "insertDoc" => o.kind = "upload" /\ o.step = 3
    /\ call = "commit" =>
          \/ o.kind \in {"dropKB", "ingestFailed", "blankPage", "crawlFailed"} /\ o.step = 2
          \/ o.kind \in {"create", "crawl", "finish"} /\ o.step = 3
          \/ o.kind \in {"upload", "retry", "resync"} /\ o.step = 4
          \/ o.kind = "delete" /\ o.step = 7
          \/ o.kind = "ingest" /\ o.step = 10
          \/ o.kind = "page" /\ o.step = 11
    /\ call = "enqueueDoc" => o.kind \in {"upload", "retry"} /\ o.step = 5
    /\ call = "readDoc" => o.kind \in {"retry", "delete"} /\ o.step = 2
    /\ call = "saveRetried" => o.kind = "retry" /\ o.step = 3
    /\ call = "dropVectors" =>
          \/ o.kind = "purge" /\ o.step = 1
          \/ o.kind = "delete" /\ o.step = 3
          \/ o.kind = "ingest" /\ o.step = 5
          \/ o.kind = "page" /\ o.step = 6
    /\ call = "deletePassages" =>
          \/ o.kind = "purge" /\ o.step = 2
          \/ o.kind \in {"delete", "ingest"} /\ o.step = 4
          \/ o.kind = "page" /\ o.step = 5
    /\ call = "deleteObject" =>
          \/ o.kind = "purge" /\ o.step = 3
          \/ o.kind = "delete" /\ o.step = 5
    /\ call = "saveDeleted" =>
          \/ o.kind = "purge" /\ o.step = 4
          \/ o.kind = "delete" /\ o.step = 6
    /\ call = "readSource" => o.kind = "resync" /\ o.step = 2
    /\ call = "readAll" => o.kind = "deleteKB" /\ o.step = 2
    /\ call = "checkAtRest" => o.kind = "deleteKB" /\ o.step = 3
    /\ call = "saveKB" => o.kind = "dropKB" /\ o.step = 1
    /\ call = "insertSource" => o.kind = "create" /\ o.step = 2
    /\ call = "enqueueSource" =>
          \/ o.kind = "create" /\ o.step = 4
          \/ o.kind = "resync" /\ o.step = 5
    /\ call = "saveSyncing" =>
          \/ o.kind = "crawl" /\ o.step = 2
          \/ o.kind = "resync" /\ o.step = 3
    /\ call = "authorize" => o.kind \in {"ingest", "crawl", "page", "finish"} /\ o.step = 1
    /\ call = "load" => o.kind = "ingest" /\ o.step = 2
    /\ call = "get" => o.kind = "ingest" /\ o.step = 3
    /\ call = "embed" =>
          \/ o.kind = "ingest" /\ o.step = 6
          \/ o.kind = "page" /\ o.step = 7
    /\ call = "insertPassages" =>
          \/ o.kind = "ingest" /\ o.step = 7
          \/ o.kind = "page" /\ o.step = 8
    /\ call = "upsert" =>
          \/ o.kind = "ingest" /\ o.step = 8
          \/ o.kind = "page" /\ o.step = 9
    /\ call = "saveReady" =>
          \/ o.kind = "ingest" /\ o.step = 9
          \/ o.kind = "page" /\ o.step = 10
    /\ call = "saveFailed" => o.kind \in {"ingestFailed", "blankPage"} /\ o.step = 1
    /\ call = "lookUp" => o.kind = "page" /\ o.step = 2
    /\ call = "savePage" => o.kind = "page" /\ o.step = 3
    /\ call = "putPage" => o.kind = "page" /\ o.step = 4
    /\ call = "saveSynced" => o.kind = "finish" /\ o.step = 2
    /\ call = "saveError" => o.kind = "crawlFailed" /\ o.step = 1

(* The call each step of a use case makes. *)
CallOf(o, call) ==
    /\ o.kind = "upload" => o.step \in 1..5
    /\ o.kind = "upload" /\ o.step = 1 => call = "readKB"
    /\ o.kind = "upload" /\ o.step = 2 => call = "putNew"
    /\ o.kind = "upload" /\ o.step = 3 => call = "insertDoc"
    /\ o.kind = "upload" /\ o.step = 4 => call = "commit"
    /\ o.kind = "upload" /\ o.step = 5 => call = "enqueueDoc"
    /\ o.kind = "retry" => o.step \in 1..5
    /\ o.kind = "retry" /\ o.step = 1 => call = "readKB"
    /\ o.kind = "retry" /\ o.step = 2 => call = "readDoc"
    /\ o.kind = "retry" /\ o.step = 3 => call = "saveRetried"
    /\ o.kind = "retry" /\ o.step = 4 => call = "commit"
    /\ o.kind = "retry" /\ o.step = 5 => call = "enqueueDoc"
    /\ o.kind = "delete" => o.step \in 1..7
    /\ o.kind = "delete" /\ o.step = 1 => call = "readKB"
    /\ o.kind = "delete" /\ o.step = 2 => call = "readDoc"
    /\ o.kind = "delete" /\ o.step = 3 => call = "dropVectors"
    /\ o.kind = "delete" /\ o.step = 4 => call = "deletePassages"
    /\ o.kind = "delete" /\ o.step = 5 => call = "deleteObject"
    /\ o.kind = "delete" /\ o.step = 6 => call = "saveDeleted"
    /\ o.kind = "delete" /\ o.step = 7 => call = "commit"
    /\ o.kind = "deleteKB" => o.step \in 1..3
    /\ o.kind = "deleteKB" /\ o.step = 1 => call = "readKB"
    /\ o.kind = "deleteKB" /\ o.step = 2 => call = "readAll"
    /\ o.kind = "deleteKB" /\ o.step = 3 => call = "checkAtRest"
    /\ o.kind = "purge" => o.step \in 1..4
    /\ o.kind = "purge" /\ o.step = 1 => call = "dropVectors"
    /\ o.kind = "purge" /\ o.step = 2 => call = "deletePassages"
    /\ o.kind = "purge" /\ o.step = 3 => call = "deleteObject"
    /\ o.kind = "purge" /\ o.step = 4 => call = "saveDeleted"
    /\ o.kind = "dropKB" => o.step \in 1..2
    /\ o.kind = "dropKB" /\ o.step = 1 => call = "saveKB"
    /\ o.kind = "dropKB" /\ o.step = 2 => call = "commit"
    /\ o.kind = "create" => o.step \in 1..4
    /\ o.kind = "create" /\ o.step = 1 => call = "readKB"
    /\ o.kind = "create" /\ o.step = 2 => call = "insertSource"
    /\ o.kind = "create" /\ o.step = 3 => call = "commit"
    /\ o.kind = "create" /\ o.step = 4 => call = "enqueueSource"
    /\ o.kind = "resync" => o.step \in 1..5
    /\ o.kind = "resync" /\ o.step = 1 => call = "readKB"
    /\ o.kind = "resync" /\ o.step = 2 => call = "readSource"
    /\ o.kind = "resync" /\ o.step = 3 => call = "saveSyncing"
    /\ o.kind = "resync" /\ o.step = 4 => call = "commit"
    /\ o.kind = "resync" /\ o.step = 5 => call = "enqueueSource"
    /\ o.kind = "ingest" => o.step \in 1..10
    /\ o.kind = "ingest" /\ o.step = 1 => call = "authorize"
    /\ o.kind = "ingest" /\ o.step = 2 => call = "load"
    /\ o.kind = "ingest" /\ o.step = 3 => call = "get"
    /\ o.kind = "ingest" /\ o.step = 4 => call = "deletePassages"
    /\ o.kind = "ingest" /\ o.step = 5 => call = "dropVectors"
    /\ o.kind = "ingest" /\ o.step = 6 => call = "embed"
    /\ o.kind = "ingest" /\ o.step = 7 => call = "insertPassages"
    /\ o.kind = "ingest" /\ o.step = 8 => call = "upsert"
    /\ o.kind = "ingest" /\ o.step = 9 => call = "saveReady"
    /\ o.kind = "ingest" /\ o.step = 10 => call = "commit"
    /\ o.kind = "ingestFailed" => o.step \in 1..2
    /\ o.kind = "ingestFailed" /\ o.step = 1 => call = "saveFailed"
    /\ o.kind = "ingestFailed" /\ o.step = 2 => call = "commit"
    /\ o.kind = "crawl" => o.step \in 1..3
    /\ o.kind = "crawl" /\ o.step = 1 => call = "authorize"
    /\ o.kind = "crawl" /\ o.step = 2 => call = "saveSyncing"
    /\ o.kind = "crawl" /\ o.step = 3 => call = "commit"
    /\ o.kind = "page" => o.step \in 1..11
    /\ o.kind = "page" /\ o.step = 1 => call = "authorize"
    /\ o.kind = "page" /\ o.step = 2 => call = "lookUp"
    /\ o.kind = "page" /\ o.step = 3 => call = "savePage"
    /\ o.kind = "page" /\ o.step = 4 => call = "putPage"
    /\ o.kind = "page" /\ o.step = 5 => call = "deletePassages"
    /\ o.kind = "page" /\ o.step = 6 => call = "dropVectors"
    /\ o.kind = "page" /\ o.step = 7 => call = "embed"
    /\ o.kind = "page" /\ o.step = 8 => call = "insertPassages"
    /\ o.kind = "page" /\ o.step = 9 => call = "upsert"
    /\ o.kind = "page" /\ o.step = 10 => call = "saveReady"
    /\ o.kind = "page" /\ o.step = 11 => call = "commit"
    /\ o.kind = "blankPage" => o.step \in 1..2
    /\ o.kind = "blankPage" /\ o.step = 1 => call = "saveFailed"
    /\ o.kind = "blankPage" /\ o.step = 2 => call = "commit"
    /\ o.kind = "finish" => o.step \in 1..3
    /\ o.kind = "finish" /\ o.step = 1 => call = "authorize"
    /\ o.kind = "finish" /\ o.step = 2 => call = "saveSynced"
    /\ o.kind = "finish" /\ o.step = 3 => call = "commit"
    /\ o.kind = "crawlFailed" => o.step \in 1..2
    /\ o.kind = "crawlFailed" /\ o.step = 1 => call = "saveError"
    /\ o.kind = "crawlFailed" /\ o.step = 2 => call = "commit"

LEMMA Places ==
    ASSUME NEW p \in Requests, SoundReq(req[p]), NEW call, At(p, call)
    PROVE  Place(req[p], call) /\ CallOf(req[p], call)
<1> DEFINE k == req[p].kind
           i == req[p].step
<1>1. k \in DOMAIN Script /\ i \in 1..Len(Script[k]) /\ call = Script[k][i]
  BY AtScript
<1> HIDE DEF k, i
<1>2. CASE k = "upload"
  <2>1. Len(UploadDocument) = 5
    BY DEF UploadDocument
  <2>2. i \in 1..5 /\ call = UploadDocument[i]
    BY <1>1, <1>2, <2>1, Scripts
  <2>3. i \in {1, 2, 3, 4, 5}
    BY <2>2
  <2>4. \A o : o.kind = "upload" /\ o.step = i => Place(o, call) /\ CallOf(o, call)
    BY <2>2, <2>3 DEF UploadDocument, Place, CallOf
  <2> QED BY <1>2, <2>4 DEF k, i
<1>3. CASE k = "retry"
  <2>1. Len(RetryDocumentIngestion) = 5
    BY DEF RetryDocumentIngestion
  <2>2. i \in 1..5 /\ call = RetryDocumentIngestion[i]
    BY <1>1, <1>3, <2>1, Scripts
  <2>3. i \in {1, 2, 3, 4, 5}
    BY <2>2
  <2>4. \A o : o.kind = "retry" /\ o.step = i => Place(o, call) /\ CallOf(o, call)
    BY <2>2, <2>3 DEF RetryDocumentIngestion, Place, CallOf
  <2> QED BY <1>3, <2>4 DEF k, i
<1>4. CASE k = "delete"
  <2>1. Len(DeleteDocument) = 7
    BY DEF DeleteDocument
  <2>2. i \in 1..7 /\ call = DeleteDocument[i]
    BY <1>1, <1>4, <2>1, Scripts
  <2>3. i \in {1, 2, 3, 4, 5, 6, 7}
    BY <2>2
  <2>4. \A o : o.kind = "delete" /\ o.step = i => Place(o, call) /\ CallOf(o, call)
    BY <2>2, <2>3 DEF DeleteDocument, Place, CallOf
  <2> QED BY <1>4, <2>4 DEF k, i
<1>5. CASE k = "deleteKB"
  <2>1. Len(DeleteKnowledgeBase) = 3
    BY DEF DeleteKnowledgeBase
  <2>2. i \in 1..3 /\ call = DeleteKnowledgeBase[i]
    BY <1>1, <1>5, <2>1, Scripts
  <2>3. i \in {1, 2, 3}
    BY <2>2
  <2>4. \A o : o.kind = "deleteKB" /\ o.step = i => Place(o, call) /\ CallOf(o, call)
    BY <2>2, <2>3 DEF DeleteKnowledgeBase, Place, CallOf
  <2> QED BY <1>5, <2>4 DEF k, i
<1>6. CASE k = "purge"
  <2>1. Len(PurgeDocument) = 4
    BY DEF PurgeDocument
  <2>2. i \in 1..4 /\ call = PurgeDocument[i]
    BY <1>1, <1>6, <2>1, Scripts
  <2>3. i \in {1, 2, 3, 4}
    BY <2>2
  <2>4. \A o : o.kind = "purge" /\ o.step = i => Place(o, call) /\ CallOf(o, call)
    BY <2>2, <2>3 DEF PurgeDocument, Place, CallOf
  <2> QED BY <1>6, <2>4 DEF k, i
<1>7. CASE k = "dropKB"
  <2>1. Len(DropKnowledgeBase) = 2
    BY DEF DropKnowledgeBase
  <2>2. i \in 1..2 /\ call = DropKnowledgeBase[i]
    BY <1>1, <1>7, <2>1, Scripts
  <2>3. i \in {1, 2}
    BY <2>2
  <2>4. \A o : o.kind = "dropKB" /\ o.step = i => Place(o, call) /\ CallOf(o, call)
    BY <2>2, <2>3 DEF DropKnowledgeBase, Place, CallOf
  <2> QED BY <1>7, <2>4 DEF k, i
<1>8. CASE k = "create"
  <2>1. Len(CreateDataSource) = 4
    BY DEF CreateDataSource
  <2>2. i \in 1..4 /\ call = CreateDataSource[i]
    BY <1>1, <1>8, <2>1, Scripts
  <2>3. i \in {1, 2, 3, 4}
    BY <2>2
  <2>4. \A o : o.kind = "create" /\ o.step = i => Place(o, call) /\ CallOf(o, call)
    BY <2>2, <2>3 DEF CreateDataSource, Place, CallOf
  <2> QED BY <1>8, <2>4 DEF k, i
<1>9. CASE k = "resync"
  <2>1. Len(ResyncDataSource) = 5
    BY DEF ResyncDataSource
  <2>2. i \in 1..5 /\ call = ResyncDataSource[i]
    BY <1>1, <1>9, <2>1, Scripts
  <2>3. i \in {1, 2, 3, 4, 5}
    BY <2>2
  <2>4. \A o : o.kind = "resync" /\ o.step = i => Place(o, call) /\ CallOf(o, call)
    BY <2>2, <2>3 DEF ResyncDataSource, Place, CallOf
  <2> QED BY <1>9, <2>4 DEF k, i
<1>10. CASE k = "ingest"
  <2>1. Len(ProcessDocumentUpload) = 10
    BY DEF ProcessDocumentUpload
  <2>2. i \in 1..10 /\ call = ProcessDocumentUpload[i]
    BY <1>1, <1>10, <2>1, Scripts
  <2>3. i \in {1, 2, 3, 4, 5, 6, 7, 8, 9, 10}
    BY <2>2
  <2>4. \A o : o.kind = "ingest" /\ o.step = i => Place(o, call) /\ CallOf(o, call)
    BY <2>2, <2>3 DEF ProcessDocumentUpload, Place, CallOf
  <2> QED BY <1>10, <2>4 DEF k, i
<1>11. CASE k = "ingestFailed"
  <2>1. Len(MarkFailed) = 2
    BY DEF MarkFailed
  <2>2. i \in 1..2 /\ call = MarkFailed[i]
    BY <1>1, <1>11, <2>1, Scripts
  <2>3. i \in {1, 2}
    BY <2>2
  <2>4. \A o : o.kind = "ingestFailed" /\ o.step = i => Place(o, call) /\ CallOf(o, call)
    BY <2>2, <2>3 DEF MarkFailed, Place, CallOf
  <2> QED BY <1>11, <2>4 DEF k, i
<1>12. CASE k = "crawl"
  <2>1. Len(Claim) = 3
    BY DEF Claim
  <2>2. i \in 1..3 /\ call = Claim[i]
    BY <1>1, <1>12, <2>1, Scripts
  <2>3. i \in {1, 2, 3}
    BY <2>2
  <2>4. \A o : o.kind = "crawl" /\ o.step = i => Place(o, call) /\ CallOf(o, call)
    BY <2>2, <2>3 DEF Claim, Place, CallOf
  <2> QED BY <1>12, <2>4 DEF k, i
<1>13. CASE k = "page"
  <2>1. Len(IndexOnePage) = 11
    BY DEF IndexOnePage
  <2>2. i \in 1..11 /\ call = IndexOnePage[i]
    BY <1>1, <1>13, <2>1, Scripts
  <2>3. i \in {1, 2, 3, 4, 5, 6, 7, 8, 9, 10, 11}
    BY <2>2
  <2>4. \A o : o.kind = "page" /\ o.step = i => Place(o, call) /\ CallOf(o, call)
    BY <2>2, <2>3 DEF IndexOnePage, Place, CallOf
  <2> QED BY <1>13, <2>4 DEF k, i
<1>14. CASE k = "blankPage"
  <2>1. Len(BlankPage) = 2
    BY DEF BlankPage
  <2>2. i \in 1..2 /\ call = BlankPage[i]
    BY <1>1, <1>14, <2>1, Scripts
  <2>3. i \in {1, 2}
    BY <2>2
  <2>4. \A o : o.kind = "blankPage" /\ o.step = i => Place(o, call) /\ CallOf(o, call)
    BY <2>2, <2>3 DEF BlankPage, Place, CallOf
  <2> QED BY <1>14, <2>4 DEF k, i
<1>15. CASE k = "finish"
  <2>1. Len(FinishCrawl) = 3
    BY DEF FinishCrawl
  <2>2. i \in 1..3 /\ call = FinishCrawl[i]
    BY <1>1, <1>15, <2>1, Scripts
  <2>3. i \in {1, 2, 3}
    BY <2>2
  <2>4. \A o : o.kind = "finish" /\ o.step = i => Place(o, call) /\ CallOf(o, call)
    BY <2>2, <2>3 DEF FinishCrawl, Place, CallOf
  <2> QED BY <1>15, <2>4 DEF k, i
<1>16. CASE k = "crawlFailed"
  <2>1. Len(CrawlFailed) = 2
    BY DEF CrawlFailed
  <2>2. i \in 1..2 /\ call = CrawlFailed[i]
    BY <1>1, <1>16, <2>1, Scripts
  <2>3. i \in {1, 2}
    BY <2>2
  <2>4. \A o : o.kind = "crawlFailed" /\ o.step = i => Place(o, call) /\ CallOf(o, call)
    BY <2>2, <2>3 DEF CrawlFailed, Place, CallOf
  <2> QED BY <1>16, <2>4 DEF k, i
<1>17. CASE k = "turn"
  BY <1>1, <1>17, Scripts
<1> QED BY <1>1, Scripts, <1>2, <1>3, <1>4, <1>5, <1>6, <1>7, <1>8, <1>9, <1>10, <1>11,
           <1>12, <1>13, <1>14, <1>15, <1>16, <1>17

-----------------------------------------------------------------------------
(* What a move leaves to the others.                                        *)

(* What others did before stays done. *)
Grows == crossed \subseteq crossed' /\ begun.kinds \subseteq begun'.kinds

LEMMA LastsBefore ==
    ASSUME Grows, NEW d, Lasts(d)'
    PROVE  Lasts(d)
BY DEF Grows, Lasts, Revivable

(* Another request: the rows are as they were, and only what p is at work   *)
(* on has changed.                                                          *)
LEMMA OthersFit ==
    ASSUME KInv, NEW p \in Requests, NEW q \in Requests \ {p}, Grows,
           req'[q] = req[q], draft'[q] = draft[q], db' = db,
           \A d \in Docs : vectors'[d] = vectors[d] \/ d = Doc(p)
    PROVE  Fit(q)'
<1> DEFINE o == req[q]
           w == draft[q]
<1>1. FitDraft(q)'
  <2>1. FitDraft(q)
    BY DEF KInv, Fit
  <2> QED BY <2>1, LastsBefore DEF FitDraft, Empty, Wrote, Doc
<1>2. FitRows(q)'
  BY DEF KInv, Fit, FitRows, Knows, Copy, Doc, Grows
<1>3. FitStores(q)'
  <2> SUFFICES ASSUME NEW d \in Docs \ crossed'
               PROVE  (/\ Cleared(q, d) => vectors[d] = {}
                       /\ d = Doc(q) /\ AtRow(q)
                            => db[d].state # "deleted" /\ Seen(q, d).state # "deleted")'
    BY DEF FitStores
  <2>1. d \in Docs \ crossed
    BY DEF Grows
  <2>2. Alone(d)
    BY <2>1 DEF KInv, DocsFit
  <2>3. Cleared(q, d)' => Cleared(q, d) /\ AtWorkOn(q, d)
    BY DEF Cleared, Wrote, Doc, AtWorkOn
  <2>4. Cleared(q, d)' => vectors'[d] = vectors[d]
    BY <2>2, <2>3 DEF Alone, AtWorkOn
  <2> QED BY <2>1, <2>3, <2>4 DEF KInv, Fit, FitStores, AtRow, Seen, Wrote, Doc
<1>4. FitKinds(q)'
  BY DEF KInv, Fit, FitKinds, Wrote, Grows, Deletion
<1> QED BY <1>1, <1>2, <1>3, <1>4 DEF Fit

(* The documents. *)
Joins(p) == \A d \in Docs : AtWorkOn(p, d)' =>
    \/ AtWorkOn(p, d) \/ db[d].state # "absent"
    \/ \A q \in Requests \ {p} : ~AtWorkOn(q, d)

LEMMA AloneNext ==
    ASSUME DOMAIN req' = Requests, DOMAIN draft' = Requests,
           crossed' = crossed \cup {d \in Docs : Crossing(d)'}, NEW d \in Docs \ crossed'
    PROVE  Alone(d)'
<1> DEFINE S == {p \in Requests : AtWorkOn(p, d)'}
<1>1. ~(Cardinality(S) > 1)
  BY DEF Crossing
<1>2. IsFiniteSet(S)
  BY IngestionAssumption, FS_Subset
<1>3. SUFFICES ASSUME NEW p \in S, NEW q \in S, p # q PROVE FALSE
  BY DEF Alone
<1>4. {p, q} \subseteq S /\ Cardinality({p, q}) = 2
  <2>1. IsFiniteSet({p}) /\ Cardinality({p}) = 1
    BY FS_Singleton
  <2>2. Cardinality({p} \cup {q}) = Cardinality({p}) + 1
    BY <1>3, <2>1, FS_AddElement
  <2>3. {p} \cup {q} = {p, q}
    OBVIOUS
  <2> QED BY <1>3, <2>1, <2>2, <2>3
<1>5. Cardinality({p, q}) <= Cardinality(S) /\ Cardinality(S) \in Nat
  BY <1>2, <1>4, FS_Subset, FS_CardinalityType
<1> QED BY <1>1, <1>4, <1>5

-----------------------------------------------------------------------------
(* How requests go on, and what a move must show for KInv to be kept.       *)

(* The next call of the same request, and where a failed one goes on. *)
Stepped(q, o) ==
    /\ q.kind = o.kind /\ q.step = o.step + 1 /\ q.doc = o.doc /\ q.run = o.run
    /\ q.read = o.read /\ q.content = o.content /\ q.url = o.url /\ q.todo = o.todo

Restarted(q, o, kind) ==
    /\ q.kind = kind /\ q.step = 1 /\ q.doc = o.doc /\ q.run = o.run
    /\ q.read = o.read /\ q.content = o.content /\ q.url = o.url /\ q.todo = o.todo

Recovered(q, o) ==
    \/ q = Idle
    \/ o.kind = "ingest" /\ Restarted(q, o, "ingestFailed")
    \/ o.kind \in {"crawl", "finish", "turn"} /\ Restarted(q, o, "crawlFailed")
    \/ o.kind \in {"page", "blankPage"} /\ Restarted(q, o, "turn")

LEMMA AdvanceMoves ==
    ASSUME IInv, NEW p \in Requests, Advance(p), UNCHANGED dbVars
    PROVE  OnlyMoves(p) /\ draft'[p] = draft[p] /\ Stepped(req'[p], req[p])
<1>1. /\ DOMAIN req = Requests /\ DOMAIN draft = Requests /\ DOMAIN req[p] = Fields
  BY DEF IInv, Sound, SoundReq
<1>2. req'[p] = [req[p] EXCEPT !.step = @ + 1]
  BY <1>1 DEF Advance
<1>3. Stepped(req'[p], req[p])
  BY <1>1, <1>2 DEF Stepped, Fields
<1> QED BY <1>1, <1>3 DEF Advance, OnlyMoves, dbVars

LEMMA TurnMoves ==
    ASSUME IInv, NEW p \in Requests, NEW kind, Turn(p, kind)
    PROVE  /\ DOMAIN req' = Requests /\ \A q \in Requests \ {p} : req'[q] = req[q]
           /\ Restarted(req'[p], req[p], kind)
<1>1. DOMAIN req = Requests /\ DOMAIN req[p] = Fields
  BY DEF IInv, Sound, SoundReq
<1>2. req'[p] = [req[p] EXCEPT !.kind = kind, !.step = 1]
  BY <1>1 DEF Turn
<1>3. Restarted(req'[p], req[p], kind)
  BY <1>1, <1>2 DEF Restarted, Fields
<1> QED BY <1>1, <1>3 DEF Turn

LEMMA DropMoves ==
    ASSUME IInv, NEW p \in Requests, DropRows(p), Recover(p) \/ Finish(p)
    PROVE  OnlyMoves(p) /\ draft'[p] = NoRows /\ Recovered(req'[p], req[p])
<1>1. /\ DOMAIN req = Requests /\ DOMAIN draft = Requests
  BY DEF IInv
<1>2. /\ DOMAIN draft' = Requests /\ db' = db /\ draft'[p] = NoRows
      /\ \A q \in Requests \ {p} : draft'[q] = draft[q]
  BY <1>1 DEF DropRows
<1>3. CASE Finish(p)
  BY <1>1, <1>2, <1>3 DEF Finish, OnlyMoves, Recovered
<1>4. CASE Recover(p) /\ ~Finish(p)
  <2>1. PICK kind : /\ Turn(p, kind)
                    /\ \/ kind = "ingestFailed" /\ req[p].kind = "ingest"
                       \/ kind = "crawlFailed" /\ req[p].kind \in {"crawl", "finish", "turn"}
                       \/ kind = "turn" /\ req[p].kind \in {"page", "blankPage"}
    BY <1>4 DEF Recover
  <2>2. /\ DOMAIN req' = Requests /\ \A q \in Requests \ {p} : req'[q] = req[q]
        /\ Restarted(req'[p], req[p], kind)
    BY <2>1, TurnMoves
  <2> QED BY <1>2, <2>1, <2>2 DEF OnlyMoves, Recovered
<1> QED BY <1>3, <1>4

-----------------------------------------------------------------------------
(* What keeps an invariant of the documents: p's own part of it, and what   *)
(* its move does to the rest.                                               *)
Stores ==
    /\ DOMAIN vectors' = Docs /\ DOMAIN objects' = Docs
    /\ DOMAIN jobs' = Docs \cup {Source} /\ \A x \in Docs \cup {Source} : jobs'[x] \in Nat

Keeping(p) ==
    /\ OnlyMoves(p) /\ Fit(p)' /\ Stores /\ Joins(p)
    /\ \A d \in Docs : vectors'[d] = vectors[d] \/ d = Doc(p)
    /\ \A d \in Docs : db[d].state = "absent" => jobs'[d] = 0
    /\ \A d \in Docs \ crossed : db[d].state = "deleted" => vectors'[d] = {}
    /\ \A r \in Wrote(p)' : r \in Wrote(p) \/ Free(p, r)

Crosses == crossed' = crossed \cup {d \in Docs : Crossing(d)'}

LEMMA KeptDocs ==
    ASSUME KInv, NEW p \in Requests, Keeping(p), Grows, Crosses
    PROVE  KInv'
<1>1. /\ DOMAIN req' = Requests /\ DOMAIN draft' = Requests /\ db' = db
      /\ \A q \in Requests \ {p} : req'[q] = req[q] /\ draft'[q] = draft[q]
  BY DEF Keeping, OnlyMoves
<1>2. \A q \in Requests \ {p} : Wrote(q)' = Wrote(q)
                                /\ \A d : AtWorkOn(q, d)' <=> AtWorkOn(q, d)
  BY <1>1 DEF Wrote, AtWorkOn, Doc
<1>3. OneWriter'
  <2>1. SUFFICES ASSUME NEW q \in Requests \ {p}, NEW r \in Wrote(p)', r \in Wrote(q)'
                 PROVE  FALSE
    BY <1>2 DEF KInv, OneWriter
  <2> QED BY <1>2, <2>1 DEF Keeping, KInv, OneWriter, Free
<1>4. ASSUME NEW d \in Docs, db[d].state = "absent"
      PROVE  jobs'[d] = 0 /\ Alone(d)'
  <2>1. Alone(d) /\ jobs'[d] = 0
    BY <1>4 DEF KInv, DocsFit, Keeping
  <2>2. ASSUME NEW q \in Requests \ {p}, AtWorkOn(q, d), AtWorkOn(p, d)'
        PROVE  FALSE
    <3>1. AtWorkOn(p, d)
      BY <1>4, <2>2 DEF Keeping, Joins
    <3> QED BY <2>1, <2>2, <3>1 DEF Alone
  <2> QED BY <1>2, <2>1, <2>2 DEF Alone
<1>5. \A d \in Docs \ crossed' : d \in Docs \ crossed /\ Alone(d)'
  BY <1>1, AloneNext DEF Crosses, Grows
<1>6. DocsFit'
  BY <1>1, <1>4, <1>5 DEF KInv, DocsFit, Keeping, Stores, Grows, Deletion
<1>7. \A q \in Requests : Fit(q)'
  BY <1>1, OthersFit DEF Keeping
<1> QED BY <1>3, <1>6, <1>7 DEF KInv

-----------------------------------------------------------------------------
(* The calls that neither find a row nor touch the points.                  *)

LEMMA QuietlyKept ==
    ASSUME KInv, NEW p \in Requests, OnlyMoves(p), Fit(p)', Joins(p),
           vectors' = vectors, jobs' = jobs,
           DOMAIN objects' = Docs,
           \A r \in Wrote(p)' : r \in Wrote(p) \/ Free(p, r)
    PROVE  Keeping(p)
BY DEF Keeping, KInv, DocsFit, Stores

(* A call that neither finds a row nor begins a deletion of points.         *)
LEMMA FitGoesOn ==
    ASSUME KInv, IInv, Grows, NEW p \in Requests, NEW call, At(p, call),
           call \notin {"commit", "readDoc", "load", "lookUp", "putNew", "insertDoc",
                        "dropVectors"},
           OnlyMoves(p), draft'[p] = draft[p],
           req'[p].kind = req[p].kind, req'[p].step = req[p].step + 1,
           req'[p].doc = req[p].doc, req'[p].todo = req[p].todo,
           req[p].kind = "retry" => req'[p].read = req[p].read,
           vectors' = vectors
    PROVE  Fit(p)' /\ Joins(p) /\ Wrote(p)' = Wrote(p)
<1>1. CallOf(req[p], call) /\ req[p].step \in Nat /\ Fit(p)
  BY Places DEF IInv, Sound, SoundReq, KInv
<1>2. db' = db
  BY DEF OnlyMoves
<1>3. FitDraft(p)'
  <2>1. Empty(p)' => Empty(p)
    BY <1>1 DEF Empty, CallOf
  <2>2. req[p].kind = "upload" => req'[p].step # 4
    BY <1>1 DEF CallOf
  <2> QED BY <1>1, <1>2, <2>1, <2>2, LastsBefore DEF Fit, FitDraft, Wrote, Doc
<1>4. FitRows(p)'
  <2>1. req[p].kind = "retry" /\ req'[p].step >= 3 => req[p].step >= 3
    BY <1>1 DEF CallOf
  <2>2. req[p].kind = "upload" => (req'[p].step \in 3..4 => req[p].step \in 3..4)
                                /\ (req'[p].step >= 5 => req[p].step >= 5)
    BY <1>1 DEF CallOf
  <2> QED BY <1>1, <1>2, <2>1, <2>2 DEF Fit, FitRows, Knows, Copy, Doc, Grows
<1>5. FitStores(p)'
  <2>1. AtRow(p)' => AtRow(p)
    BY <1>1 DEF AtRow, CallOf
  <2>2. \A d : Cleared(p, d)' => Cleared(p, d)
    BY <1>1 DEF Cleared, CallOf, Wrote, Doc
  <2> QED BY <1>1, <1>2, <2>1, <2>2 DEF Fit, FitStores, Seen, Wrote, Doc, Grows
<1>6. FitKinds(p)'
  BY <1>1 DEF Fit, FitKinds, Wrote, Grows, Deletion
<1> QED BY <1>3, <1>4, <1>5, <1>6 DEF Fit, Joins, AtWorkOn, Wrote, Doc

(* A transaction that is over, by a failure or an end. *)
LEMMA FitRecovered ==
    ASSUME KInv, IInv, Grows, NEW p \in Requests,
           OnlyMoves(p), Wrote(p)' = {}, Recovered(req'[p], req[p])
    PROVE  Fit(p)' /\ Joins(p)
<1>1. Fit(p) /\ db' = db
  BY DEF KInv, OnlyMoves
<1>2. Wrote(p)' = {}
  OBVIOUS
<1>3. FitDraft(p)'
  BY <1>2 DEF FitDraft, Recovered, Restarted, Idle
<1>4. FitRows(p)'
  BY <1>1 DEF Fit, FitRows, Knows, Recovered, Restarted, Idle, Doc
<1>5. FitStores(p)'
  BY <1>2 DEF FitStores, Cleared, AtRow, Recovered, Restarted, Idle
<1>6. FitKinds(p)'
  BY <1>2 DEF FitKinds, Recovered, Restarted, Idle
<1>7. Joins(p)
  <2>1. \A d \in Docs : AtWorkOn(p, d)' => AtWorkOn(p, d)
    <3>1. CASE req'[p] = Idle
      BY <1>2, <3>1, IngestionAssumption DEF AtWorkOn, Doc, Idle
    <3>2. CASE req'[p].doc = req[p].doc /\ req'[p].todo = req[p].todo
      BY <1>2, <3>2 DEF AtWorkOn, Doc
    <3> QED BY <3>1, <3>2 DEF Recovered, Restarted
  <2> QED BY <2>1 DEF Joins
<1> QED BY <1>3, <1>4, <1>5, <1>6, <1>7 DEF Fit

-----------------------------------------------------------------------------
(* Gates, failures, arrivals, jobs taken, pages found.                      *)

LEMMA CallOn ==
    ASSUME KInv, IInv, Crosses, NEW p \in Requests, NEW call, At(p, call),
           call \notin {"commit", "readDoc", "load", "lookUp", "putNew", "insertDoc",
                        "dropVectors"},
           Advance(p), UNCHANGED <<dbVars, vectors, jobs, begun>>, DOMAIN objects' = Docs
    PROVE  Keeping(p)
<1>1. OnlyMoves(p) /\ draft'[p] = draft[p] /\ Stepped(req'[p], req[p])
  BY AdvanceMoves DEF dbVars
<1>2. Grows
  BY DEF Grows, Crosses
<1>3. Fit(p)' /\ Joins(p) /\ Wrote(p)' = Wrote(p)
  BY <1>1, <1>2, FitGoesOn DEF Stepped
<1> QED BY <1>1, <1>3, QuietlyKept DEF KInv, DocsFit

LEMMA GoKeeps ==
    ASSUME KInv, IInv, Crosses, NEW p \in Requests, NEW call, At(p, call),
           call \notin {"commit", "readDoc", "load", "lookUp", "putNew", "insertDoc",
                        "dropVectors"},
           Go(p)
    PROVE  Keeping(p)
BY CallOn DEF Go, dbVars, storeVars, envVars, KInv, DocsFit

LEMMA EndKeeps ==
    ASSUME KInv, IInv, Crosses, NEW p \in Requests,
           DropRows(p), Recover(p) \/ Finish(p), UNCHANGED <<vectors, begun>>,
           DOMAIN objects' = Docs,
           DOMAIN jobs' = Docs \cup {Source}, \A x \in Docs \cup {Source} : jobs'[x] \in Nat,
           \A d \in Docs : db[d].state = "absent" => jobs'[d] = 0
    PROVE  Keeping(p)
<1>1. OnlyMoves(p) /\ draft'[p] = NoRows /\ Recovered(req'[p], req[p])
  BY DropMoves
<1>2. Grows
  BY DEF Grows, Crosses
<1>3. Fit(p)' /\ Joins(p) /\ Wrote(p)' = {}
  BY <1>1, <1>2, FitRecovered DEF Wrote, NoRows
<1> QED BY <1>1, <1>3 DEF Keeping, KInv, DocsFit, Stores

LEMMA RaiseKeeps ==
    ASSUME KInv, IInv, Crosses, NEW p \in Requests, Raise(p)
    PROVE  Keeping(p)
BY EndKeeps DEF Raise, storeVars, envVars, KInv, DocsFit

LEMMA RefuseKeeps ==
    ASSUME KInv, IInv, Crosses, NEW p \in Requests, Refuse(p)
    PROVE  Keeping(p)
BY EndKeeps DEF Refuse, storeVars, envVars, KInv, DocsFit

LEMMA ArriveMoves ==
    ASSUME IInv, NEW p \in Requests, Arrive(p)
    PROVE  /\ OnlyMoves(p) /\ draft'[p] = draft[p]
           /\ req[p].kind = "idle"
           /\ \E kind \in {"upload", "deleteKB", "create", "resync", "retry", "delete"} :
                 /\ begun' = OneMore(begun, kind)
                 /\ req'[p].kind = kind /\ req'[p].step = 1 /\ req'[p].read = NoRows
                 /\ req'[p].todo = {} /\ req'[p].run = 0
                 /\ \/ req'[p].doc = None /\ kind \notin {"retry", "delete"}
                    \/ req'[p].doc \in Docs /\ db[req'[p].doc].state # "absent"
                       /\ kind \in {"retry", "delete"}
           /\ UNCHANGED <<vectors, objects, jobs, authorized, failures>>
<1>1. PICK kind \in {"upload", "deleteKB", "create", "resync", "retry", "delete"},
           d \in Docs \cup {None} :
               /\ Begin(p, kind, d)
               /\ \/ d = None /\ kind \notin {"retry", "delete"}
                  \/ d \in Docs /\ db[d].state # "absent" /\ kind \in {"retry", "delete"}
  BY DEF Arrive
<1>2. DOMAIN req = Requests /\ DOMAIN draft = Requests
  BY DEF IInv
<1>3. req'[p] = [Idle EXCEPT !.kind = kind, !.doc = d]
  BY <1>1, <1>2 DEF Begin
<1>4. /\ req'[p].kind = kind /\ req'[p].step = 1 /\ req'[p].read = NoRows
      /\ req'[p].todo = {} /\ req'[p].run = 0 /\ req'[p].doc = d
  BY <1>3 DEF Idle
<1>5. OnlyMoves(p) /\ draft'[p] = draft[p] /\ req[p].kind = "idle"
      /\ UNCHANGED <<vectors, objects, jobs, authorized, failures>>
      /\ begun' = OneMore(begun, kind)
  BY <1>1, <1>2 DEF Begin, OnlyMoves, dbVars, storeVars
<1> QED BY <1>1, <1>4, <1>5

LEMMA ArriveKeeps ==
    ASSUME KInv, IInv, Crosses, NEW p \in Requests, Arrive(p)
    PROVE  Keeping(p)
<1>1. PICK kind \in {"upload", "deleteKB", "create", "resync", "retry", "delete"} :
                 /\ begun' = OneMore(begun, kind)
                 /\ req'[p].kind = kind /\ req'[p].step = 1 /\ req'[p].read = NoRows
                 /\ req'[p].todo = {} /\ req'[p].run = 0
                 /\ \/ req'[p].doc = None /\ kind \notin {"retry", "delete"}
                    \/ req'[p].doc \in Docs /\ db[req'[p].doc].state # "absent"
                       /\ kind \in {"retry", "delete"}
  BY ArriveMoves
<1>2. /\ OnlyMoves(p) /\ draft'[p] = draft[p] /\ db' = db /\ req[p].kind = "idle"
      /\ UNCHANGED <<vectors, objects, jobs>>
  BY ArriveMoves DEF OnlyMoves
<1>3. begun'.kinds = begun.kinds \cup {kind}
  BY <1>1 DEF OneMore
<1>4. Wrote(p) = {} /\ Wrote(p)' = {}
  BY <1>2 DEF KInv, Fit, FitDraft, Empty, Wrote
<1>5. None \notin Docs
  BY IngestionAssumption
<1>6. Fit(p)'
  <2>1. FitDraft(p)'
    BY <1>1, <1>4 DEF FitDraft
  <2>2. FitRows(p)'
    BY <1>1, <1>2, <1>3, <1>5 DEF FitRows, Knows, Doc
  <2>3. FitStores(p)'
    BY <1>1, <1>4 DEF FitStores, Cleared, AtRow
  <2>4. FitKinds(p)'
    BY <1>1, <1>3, <1>4 DEF FitKinds, Deletion
  <2> QED BY <2>1, <2>2, <2>3, <2>4 DEF Fit
<1>7. Joins(p)
  BY <1>1, <1>4, <1>5 DEF Joins, AtWorkOn, Doc
<1> QED BY <1>2, <1>4, <1>6, <1>7, QuietlyKept DEF KInv, DocsFit

LEMMA TakeJobMoves ==
    ASSUME IInv, NEW p \in Requests, TakeJob(p)
    PROVE  /\ OnlyMoves(p) /\ draft'[p] = draft[p] /\ req[p].kind = "idle"
           /\ \E x \in Docs \cup {Source} :
                 /\ jobs[x] > 0 /\ jobs' = [jobs EXCEPT ![x] = @ - 1]
                 /\ req'[p].step = 1 /\ req'[p].read = NoRows /\ req'[p].todo = {}
                 /\ \/ x = Source /\ req'[p].kind = "crawl" /\ req'[p].doc = None
                    \/ x \in Docs /\ req'[p].kind = "ingest" /\ req'[p].doc = x
           /\ UNCHANGED <<vectors, objects, authorized, begun, failures>>
<1>1. PICK x \in Docs \cup {Source} :
          /\ jobs[x] > 0 /\ jobs' = [jobs EXCEPT ![x] = @ - 1]
          /\ req' = [req EXCEPT ![p] =
               [Idle EXCEPT !.kind = IF x = Source THEN "crawl" ELSE "ingest",
                            !.doc = IF x = Source THEN None ELSE x,
                            !.run = AnyOf(FreshRuns)]]
  BY DEF TakeJob
<1>2. DOMAIN req = Requests /\ DOMAIN draft = Requests
  BY DEF IInv
<1>3. req'[p] = [Idle EXCEPT !.kind = IF x = Source THEN "crawl" ELSE "ingest",
                            !.doc = IF x = Source THEN None ELSE x,
                            !.run = AnyOf(FreshRuns)]
  BY <1>1, <1>2
<1>4. /\ req'[p].step = 1 /\ req'[p].read = NoRows /\ req'[p].todo = {}
      /\ \/ x = Source /\ req'[p].kind = "crawl" /\ req'[p].doc = None
         \/ x \in Docs /\ req'[p].kind = "ingest" /\ req'[p].doc = x
  BY <1>3 DEF Idle
<1>5. OnlyMoves(p) /\ draft'[p] = draft[p] /\ req[p].kind = "idle"
      /\ UNCHANGED <<vectors, objects, authorized, begun, failures>>
  BY <1>1, <1>2 DEF TakeJob, OnlyMoves, dbVars, storeVars
<1> QED BY <1>1, <1>4, <1>5

LEMMA TakeJobKeeps ==
    ASSUME KInv, IInv, Crosses, NEW p \in Requests, TakeJob(p)
    PROVE  Keeping(p)
<1>1. PICK x \in Docs \cup {Source} :
                 /\ jobs[x] > 0 /\ jobs' = [jobs EXCEPT ![x] = @ - 1]
                 /\ req'[p].step = 1 /\ req'[p].read = NoRows /\ req'[p].todo = {}
                 /\ \/ x = Source /\ req'[p].kind = "crawl" /\ req'[p].doc = None
                    \/ x \in Docs /\ req'[p].kind = "ingest" /\ req'[p].doc = x
  BY TakeJobMoves
<1>2. /\ OnlyMoves(p) /\ draft'[p] = draft[p] /\ db' = db /\ req[p].kind = "idle"
      /\ UNCHANGED <<vectors, objects, begun>>
  BY TakeJobMoves DEF OnlyMoves
<1>3. Wrote(p) = {} /\ Wrote(p)' = {}
  BY <1>2 DEF KInv, Fit, FitDraft, Empty, Wrote
<1>4. None \notin Docs /\ Source \notin Docs
  BY IngestionAssumption
<1>5. x \in Docs => db[x].state # "absent"
  BY <1>1 DEF KInv, DocsFit
<1>6. Fit(p)'
  <2>1. FitDraft(p)'
    BY <1>1, <1>3 DEF FitDraft
  <2>2. FitRows(p)'
    BY <1>1, <1>2, <1>4, <1>5 DEF FitRows, Knows, Doc
  <2>3. FitStores(p)'
    BY <1>1, <1>3 DEF FitStores, Cleared, AtRow
  <2>4. FitKinds(p)'
    BY <1>1, <1>3 DEF FitKinds
  <2> QED BY <2>1, <2>2, <2>3, <2>4 DEF Fit
<1>7. Joins(p)
  BY <1>1, <1>3, <1>4, <1>5 DEF Joins, AtWorkOn, Doc
<1>8. /\ DOMAIN jobs' = Docs \cup {Source} /\ \A y \in Docs \cup {Source} : jobs'[y] \in Nat
      /\ \A d \in Docs : db[d].state = "absent" => jobs'[d] = 0
  BY <1>1, <1>5 DEF KInv, DocsFit
<1> QED BY <1>2, <1>3, <1>6, <1>7, <1>8 DEF Keeping, KInv, DocsFit, Stores

-----------------------------------------------------------------------------
(* Reads.                                                                   *)

LEMMA KeepMoves ==
    ASSUME IInv, NEW p \in Requests, NEW r, Keep(p, r)
    PROVE  /\ OnlyMoves(p) /\ draft'[p] = draft[p]
           /\ req'[p].kind = req[p].kind /\ req'[p].step = req[p].step + 1
           /\ req'[p].doc = req[p].doc /\ req'[p].run = req[p].run
           /\ req'[p].todo = req[p].todo /\ req'[p].content = req[p].content
           /\ req'[p].url = req[p].url
           /\ req'[p].read = [x \in DOMAIN req[p].read \cup {r} |->
                                 IF x = r THEN Seen(p, r) ELSE req[p].read[x]]
<1> DEFINE q == req'[p]
<1>1. /\ DOMAIN req = Requests /\ DOMAIN draft = Requests /\ DOMAIN req[p] = Fields
  BY DEF IInv, Sound, SoundReq
<1>2. OnlyMoves(p) /\ draft'[p] = draft[p]
  BY <1>1 DEF Keep, OnlyMoves, dbVars
<1>3. q = [req[p] EXCEPT !.step = @ + 1,
           !.read = [x \in DOMAIN @ \cup {r} |-> IF x = r THEN Seen(p, r) ELSE @[x]]]
  BY <1>1 DEF Keep
<1> HIDE DEF q
<1>4. /\ q.kind = req[p].kind /\ q.step = req[p].step + 1
      /\ q.doc = req[p].doc /\ q.run = req[p].run
      /\ q.todo = req[p].todo /\ q.content = req[p].content /\ q.url = req[p].url
      /\ q.read = [x \in DOMAIN req[p].read \cup {r} |->
                      IF x = r THEN Seen(p, r) ELSE req[p].read[x]]
  BY <1>1, <1>3 DEF Fields
<1> QED BY <1>2, <1>4 DEF q

(* The row that is not deleted for a reader is not deleted. *)
LEMMA SeenLive ==
    ASSUME KInv, NEW p \in Requests, NEW d \in Docs \ crossed, Seen(p, d).state = "live"
    PROVE  db[d].state # "deleted"
<1>1. CASE d \in Wrote(p)
  BY <1>1 DEF KInv, Fit, FitDraft, Seen, Lasts
<1>2. CASE d \notin Wrote(p)
  BY <1>2 DEF Seen
<1> QED BY <1>1, <1>2

(* It finds its row alive, and stays at work on it. *)
LEMMA FoundLive ==
    ASSUME KInv, IInv, Crosses, NEW p \in Requests, NEW call \in {"readDoc", "load"},
           At(p, call), Doc(p) \in Docs, Seen(p, Doc(p)).state = "live",
           OnlyMoves(p), draft'[p] = draft[p],
           req'[p].kind = req[p].kind, req'[p].step = req[p].step + 1,
           req'[p].doc = req[p].doc, req'[p].todo = req[p].todo,
           call = "readDoc" => req'[p].read[Doc(p)] = Seen(p, Doc(p)),
           UNCHANGED <<vectors, objects, jobs, begun>>
    PROVE  Keeping(p)
<1>1. CallOf(req[p], call) /\ Place(req[p], call) /\ Fit(p) /\ db' = db /\ Grows
  BY Places DEF IInv, Sound, SoundReq, KInv, OnlyMoves, Grows, Crosses
<1>2. \/ req[p].kind \in {"retry", "delete"} /\ req[p].step = 2 /\ call = "readDoc"
      \/ req[p].kind = "ingest" /\ req[p].step = 2
  BY <1>1 DEF Place
<1>3. Wrote(p)' = Wrote(p) /\ Doc(p)' = Doc(p)
  BY DEF Wrote, Doc
<1>4. FitDraft(p)'
  BY <1>1, <1>2, <1>3, LastsBefore DEF Fit, FitDraft, Empty
<1>5. FitRows(p)'
  BY <1>1, <1>2, <1>3 DEF Fit, FitRows, Knows, Copy
<1>6. FitStores(p)'
  <2> SUFFICES ASSUME NEW d \in Docs \ crossed'
               PROVE  (/\ Cleared(p, d) => vectors[d] = {}
                       /\ d = Doc(p) /\ AtRow(p)
                            => db[d].state # "deleted" /\ Seen(p, d).state # "deleted")'
    BY DEF FitStores
  <2>1. d \in Docs \ crossed
    BY <1>1 DEF Grows
  <2>2. Cleared(p, d)' => Cleared(p, d)
    BY <1>2, <1>3 DEF Cleared, Wrote
  <2>3. d = Doc(p) => db[d].state # "deleted"
    BY <2>1, SeenLive
  <2> QED BY <1>1, <1>3, <2>1, <2>2, <2>3 DEF Fit, FitStores, Seen, Wrote
<1>7. FitKinds(p)'
  BY <1>1, <1>3 DEF Fit, FitKinds, Deletion
<1>8. Joins(p)
  BY <1>3 DEF Joins, AtWorkOn
<1> QED BY <1>3, <1>4, <1>5, <1>6, <1>7, <1>8, QuietlyKept DEF Fit, KInv, DocsFit

LEMMA ReadDocKeeps ==
    ASSUME KInv, IInv, Crosses, NEW p \in Requests, ReadDoc(p)
    PROVE  Keeping(p)
<1>1. CASE Refuse(p)
  BY <1>1, RefuseKeeps
<1>2. CASE Keep(p, Doc(p)) /\ Seen(p, Doc(p)).state = "live"
  <2>1. At(p, "readDoc") /\ SoundReq(req[p])
    BY DEF ReadDoc, IInv, Sound
  <2>2. req[p].kind \in {"retry", "delete"}
    BY <2>1, Places DEF Place
  <2>3. Doc(p) \in Docs
    BY <2>1, <2>2 DEF SoundReq, HasDoc, Doc
  <2>4. UNCHANGED <<vectors, objects, jobs, begun>>
    BY <1>2 DEF Keep, storeVars, envVars
  <2>5. /\ OnlyMoves(p) /\ draft'[p] = draft[p]
        /\ req'[p].kind = req[p].kind /\ req'[p].step = req[p].step + 1
        /\ req'[p].doc = req[p].doc /\ req'[p].todo = req[p].todo
        /\ req'[p].read = [x \in DOMAIN req[p].read \cup {Doc(p)} |->
                               IF x = Doc(p) THEN Seen(p, Doc(p)) ELSE req[p].read[x]]
    BY <1>2, KeepMoves
  <2>6. req'[p].read[Doc(p)] = Seen(p, Doc(p))
    BY <2>5
  <2> QED BY <1>2, <2>1, <2>3, <2>4, <2>5, <2>6, FoundLive
<1> QED BY <1>1, <1>2 DEF ReadDoc

LEMMA LoadKeeps ==
    ASSUME KInv, IInv, Crosses, NEW p \in Requests, Load(p)
    PROVE  Keeping(p)
<1>1. CASE Raise(p)
  BY <1>1, RaiseKeeps
<1>2. CASE Go(p) /\ Seen(p, Doc(p)).state = "live"
  <2>1. At(p, "load") /\ SoundReq(req[p])
    BY DEF Load, IInv, Sound
  <2>2. req[p].kind = "ingest"
    BY <2>1, Places DEF Place
  <2>3. Doc(p) \in Docs
    BY <2>1, <2>2 DEF SoundReq, HasDoc, Doc
  <2>4. UNCHANGED <<vectors, objects, jobs, begun>> /\ UNCHANGED dbVars /\ Advance(p)
    BY <1>2 DEF Go, storeVars, envVars
  <2> QED BY <1>2, <2>1, <2>3, <2>4, AdvanceMoves, FoundLive DEF Stepped
<1> QED BY <1>1, <1>2 DEF Load

LEMMA ReadSourceKeeps ==
    ASSUME KInv, IInv, Crosses, NEW p \in Requests, ReadSource(p)
    PROVE  Keeping(p)
<1>1. At(p, "readSource") /\ SoundReq(req[p]) /\ Keep(p, Source)
  BY DEF ReadSource, IInv, Sound
<1>2. req[p].kind # "retry"
  BY <1>1, Places DEF Place
<1>3. UNCHANGED <<vectors, objects, jobs, begun>> /\ Grows
  BY <1>1 DEF Keep, storeVars, envVars, Grows, Crosses
<1>4. Fit(p)' /\ Joins(p) /\ Wrote(p)' = Wrote(p)
  BY <1>1, <1>2, <1>3, KeepMoves, FitGoesOn
<1> QED BY <1>1, <1>3, <1>4, KeepMoves, QuietlyKept DEF KInv, DocsFit

LEMMA GetMoves ==
    ASSUME IInv, NEW p \in Requests, Get(p)
    PROVE  \/ Raise(p) /\ UNCHANGED failures /\ objects[Doc(p)] = None
           \/ /\ OnlyMoves(p) /\ draft'[p] = draft[p]
              /\ req'[p].kind = req[p].kind /\ req'[p].step = req[p].step + 1
              /\ req'[p].doc = req[p].doc /\ req'[p].run = req[p].run
              /\ req'[p].todo = req[p].todo /\ req'[p].url = req[p].url
              /\ req'[p].read = req[p].read
              /\ req'[p].content = objects[Doc(p)] /\ objects[Doc(p)] # None
              /\ UNCHANGED <<vectors, objects, jobs, authorized, begun, failures>>
<1>1. /\ DOMAIN req = Requests /\ DOMAIN draft = Requests /\ DOMAIN req[p] = Fields
  BY DEF IInv, Sound, SoundReq
<1>2. CASE /\ req' = [req EXCEPT ![p].step = @ + 1, ![p].content = objects[Doc(p)]]
           /\ UNCHANGED <<dbVars, storeVars, jobs, envVars, failures>>
           /\ objects[Doc(p)] # None
  <2>1. req'[p] = [req[p] EXCEPT !.step = @ + 1, !.content = objects[Doc(p)]]
    BY <1>1, <1>2
  <2>2. /\ req'[p].kind = req[p].kind /\ req'[p].step = req[p].step + 1
        /\ req'[p].doc = req[p].doc /\ req'[p].run = req[p].run
        /\ req'[p].todo = req[p].todo /\ req'[p].url = req[p].url
        /\ req'[p].read = req[p].read /\ req'[p].content = objects[Doc(p)]
    BY <1>1, <2>1 DEF Fields
  <2> QED BY <1>1, <1>2, <2>2 DEF OnlyMoves, dbVars, storeVars, envVars
<1> QED BY <1>2 DEF Get

LEMMA GetKeeps ==
    ASSUME KInv, IInv, Crosses, NEW p \in Requests, Get(p)
    PROVE  Keeping(p)
<1>1. CASE Raise(p)
  BY <1>1, RaiseKeeps
<1>2. CASE ~Raise(p)
  <2>1. At(p, "get") /\ Grows
    BY <1>2, GetMoves DEF Get, Grows, Crosses
  <2>2. Fit(p)' /\ Joins(p) /\ Wrote(p)' = Wrote(p)
    BY <1>2, <2>1, GetMoves, FitGoesOn
  <2> QED BY <1>2, <2>2, GetMoves, QuietlyKept DEF KInv, DocsFit
<1> QED BY <1>1, <1>2

-----------------------------------------------------------------------------
(* A document found for a page, or made for an upload.                      *)

LEMMA FindsMoves ==
    ASSUME IInv, NEW p \in Requests, NEW d,
           req' = [req EXCEPT ![p].step = @ + 1, ![p].doc = d], UNCHANGED dbVars
    PROVE  /\ OnlyMoves(p) /\ draft'[p] = draft[p]
           /\ req'[p].kind = req[p].kind /\ req'[p].step = req[p].step + 1
           /\ req'[p].doc = d /\ req'[p].run = req[p].run
           /\ req'[p].todo = req[p].todo /\ req'[p].url = req[p].url
           /\ req'[p].read = req[p].read /\ req'[p].content = req[p].content
<1>1. /\ DOMAIN req = Requests /\ DOMAIN draft = Requests /\ DOMAIN req[p] = Fields
  BY DEF IInv, Sound, SoundReq
<1>2. req'[p] = [req[p] EXCEPT !.step = @ + 1, !.doc = d]
  BY <1>1
<1>3. /\ req'[p].kind = req[p].kind /\ req'[p].step = req[p].step + 1
      /\ req'[p].doc = d /\ req'[p].run = req[p].run
      /\ req'[p].todo = req[p].todo /\ req'[p].url = req[p].url
      /\ req'[p].read = req[p].read /\ req'[p].content = req[p].content
  BY <1>1, <1>2 DEF Fields
<1> QED BY <1>1, <1>3 DEF OnlyMoves, dbVars

LEMMA UnusedDocs ==
    ASSUME KInv, NEW d \in Unused
    PROVE  /\ d \in Docs /\ db[d].state = "absent" /\ objects[d] = None
           /\ \A q \in Requests : ~AtWorkOn(q, d)
BY DEF Unused, AtWorkOn, KInv, Fit, FitRows, Knows

(* A page or an upload has its document: one nobody has, or a live one.     *)
LEMMA FoundKept ==
    ASSUME KInv, IInv, Crosses, NEW p \in Requests, NEW call \in {"lookUp", "putNew"},
           At(p, call), NEW d \in Docs,
           req' = [req EXCEPT ![p].step = @ + 1, ![p].doc = d], UNCHANGED dbVars,
           UNCHANGED <<vectors, jobs, begun>>, DOMAIN objects' = Docs,
           d \in Unused \/ (call = "lookUp" /\ Seen(p, d).state = "live")
    PROVE  Keeping(p)
<1>1. Place(req[p], call) /\ Fit(p) /\ db' = db /\ Grows
  BY Places DEF IInv, Sound, SoundReq, KInv, dbVars, Grows, Crosses
<1>2. /\ OnlyMoves(p) /\ draft'[p] = draft[p]
      /\ req'[p].kind = req[p].kind /\ req'[p].step = req[p].step + 1
      /\ req'[p].doc = d /\ req'[p].todo = req[p].todo
  BY FindsMoves
<1>3. req[p].step = 2 /\ \/ req[p].kind = "page" /\ call = "lookUp"
                         \/ req[p].kind = "upload" /\ call = "putNew"
  BY <1>1 DEF Place
<1>4. Wrote(p)' = Wrote(p) /\ Doc(p)' = d
  BY <1>2 DEF Wrote, Doc
<1>5. d \in Unused \/ (req[p].kind = "page" /\ db[d].state = "live")
  <2>1. req[p].kind = "page" => Wrote(p) = {}
    BY <1>1, <1>3 DEF Fit, FitDraft, Empty
  <2> QED BY <1>3, <2>1 DEF Seen
<1>6. FitDraft(p)'
  BY <1>1, <1>2, <1>3, <1>4, LastsBefore DEF Fit, FitDraft, Empty
<1>7. FitRows(p)'
  <2>1. req[p].kind = "upload" => db[d].state = "absent"
    BY <1>5, UnusedDocs
  <2>2. req'[p].kind # "retry"
    BY <1>2, <1>3
  <2>3. ASSUME NEW e \in Docs, Knows(p, e)'
        PROVE  db'[e].state # "absent"
    <3>1. e \in req[p].todo
      BY <1>2, <1>3, <2>3 DEF Knows
    <3> QED BY <1>1, <3>1 DEF Fit, FitRows, Knows
  <2>4. req'[p].kind = "upload" => db'[Doc(p)'].state = "absent"
    BY <1>1, <1>2, <1>4, <2>1
  <2> QED BY <2>2, <2>3, <2>4 DEF FitRows
<1>8. FitStores(p)'
  <2> SUFFICES ASSUME NEW e \in Docs \ crossed'
               PROVE  (/\ Cleared(p, e) => vectors[e] = {}
                       /\ e = Doc(p) /\ AtRow(p)
                            => db[e].state # "deleted" /\ Seen(p, e).state # "deleted")'
    BY DEF FitStores
  <2>1. e \in Docs \ crossed
    BY <1>1 DEF Grows
  <2>2. Cleared(p, e)' => Cleared(p, e)
    BY <1>2, <1>3, <1>4 DEF Cleared, Wrote
  <2>3. db[d].state # "deleted" /\ Seen(p, d).state # "deleted"
    BY <1>5, UnusedDocs DEF Seen, AtWorkOn
  <2> QED BY <1>1, <1>2, <1>4, <2>1, <2>2, <2>3 DEF Fit, FitStores, Seen, Wrote
<1>9. FitKinds(p)'
  BY <1>1, <1>2, <1>3, <1>4 DEF Fit, FitKinds, Deletion
<1>10. Joins(p)
  <2>1. db[d].state # "absent" \/ \A q \in Requests : ~AtWorkOn(q, d)
    BY <1>5, UnusedDocs
  <2> QED BY <1>2, <1>4, <2>1 DEF Joins, AtWorkOn, Doc
<1> QED BY <1>2, <1>4, <1>6, <1>7, <1>8, <1>9, <1>10, QuietlyKept DEF Fit

LEMMA LookUpKeeps ==
    ASSUME KInv, IInv, Crosses, NEW p \in Requests, LookUp(p)
    PROVE  Keeping(p)
<1> DEFINE found == AtUrl(p, req[p].url)
           d == AnyOf(IF found # {} THEN found ELSE Unused)
<1>1. d \in Docs /\ (d \in Unused \/ Seen(p, d).state = "live")
  BY DEF LookUp, AnyOf, AtUrl, LiveDocs, Unused
<1>2. /\ At(p, "lookUp") /\ req' = [req EXCEPT ![p].step = @ + 1, ![p].doc = d]
      /\ UNCHANGED dbVars /\ UNCHANGED <<vectors, objects, jobs, begun>>
  BY DEF LookUp, storeVars, envVars
<1> HIDE DEF d
<1> QED BY <1>1, <1>2, FoundKept DEF KInv, DocsFit

LEMMA PutNewKeeps ==
    ASSUME KInv, IInv, Crosses, NEW p \in Requests, PutNew(p)
    PROVE  Keeping(p)
<1> DEFINE d == AnyOf(Unused)
<1>1. d \in Docs /\ d \in Unused
  BY DEF PutNew, AnyOf, Unused
<1>2. /\ At(p, "putNew") /\ req' = [req EXCEPT ![p].step = @ + 1, ![p].doc = d]
      /\ UNCHANGED dbVars /\ UNCHANGED <<vectors, jobs, begun>> /\ DOMAIN objects' = Docs
  BY DEF PutNew, envVars, KInv, DocsFit
<1> HIDE DEF d
<1> QED BY <1>1, <1>2, FoundKept

-----------------------------------------------------------------------------
(* A document's row in p's draft. *)
LEMMA FitDocWritten ==
    ASSUME KInv, IInv, Crosses, NEW p \in Requests,
           NEW call \in {"insertDoc", "saveRetried", "saveReady", "saveFailed", "savePage",
                         "saveDeleted"},
           At(p, call), req[p].kind # "purge", Doc(p) \in Docs,
           NEW row, Write(p, Doc(p), row),
           row.state \in {"live", "deleted"},
           db[Doc(p)].state = "deleted" /\ Lasts(Doc(p)) => row.state = "deleted",
           row.state = "deleted" => Deletion,
           row.state = "deleted" /\ Doc(p) \notin crossed =>
               vectors[Doc(p)] = {} /\ ~AtRow(p)
    PROVE  Keeping(p)
<1> DEFINE d == Doc(p)
<1>1. CallOf(req[p], call) /\ Place(req[p], call) /\ Fit(p)
  BY Places DEF IInv, Sound, SoundReq, KInv
<1>2. /\ OnlyMoves(p) /\ Holds(draft'[p], draft[p], d, row)
      /\ req'[p] = [req[p] EXCEPT !.step = @ + 1]
      /\ UNCHANGED <<vectors, objects, jobs, begun>>
  BY WriteMoves DEF Write, storeVars, envVars
<1>3. DOMAIN req[p] = Fields /\ req[p].step \in Nat
  BY DEF IInv, Sound, SoundReq
<1>4. /\ req'[p].kind = req[p].kind /\ req'[p].step = req[p].step + 1
      /\ req'[p].doc = req[p].doc /\ req'[p].todo = req[p].todo
      /\ req'[p].read = req[p].read
  BY <1>2, <1>3 DEF Fields
<1>5. \/ req[p].kind = "upload" /\ req[p].step = 3
      \/ req[p].kind = "retry" /\ req[p].step = 3
      \/ req[p].kind = "ingest" /\ req[p].step = 9
      \/ req[p].kind = "page" /\ req[p].step \in {3, 10}
      \/ req[p].kind \in {"ingestFailed", "blankPage"} /\ req[p].step = 1
      \/ req[p].kind = "delete" /\ req[p].step = 6
  BY <1>1 DEF Place
<1>6. /\ Doc(p)' = d /\ Wrote(p)' = Wrote(p) \cup {d} /\ Seen(p, d)' = row
      /\ \A e \in Wrote(p) : e # d => draft'[p][e] = draft[p][e]
      /\ draft'[p][d] = row /\ db' = db /\ Grows
  BY <1>2, <1>4 DEF Wrote, Seen, Doc, Holds, OnlyMoves, Grows, Crosses
<1>7. FitDraft(p)'
  <2>1. ~Empty(p)'
    BY <1>4, <1>5 DEF Empty
  <2> QED BY <1>1, <1>4, <1>5, <1>6, <2>1, LastsBefore DEF Fit, FitDraft
<1>8. FitRows(p)'
  BY <1>1, <1>4, <1>5, <1>6 DEF Fit, FitRows, Knows, Copy, Grows
<1>9. FitStores(p)'
  <2> SUFFICES ASSUME NEW e \in Docs \ crossed'
               PROVE  (/\ Cleared(p, e) => vectors[e] = {}
                       /\ e = Doc(p) /\ AtRow(p)
                            => db[e].state # "deleted" /\ Seen(p, e).state # "deleted")'
    BY DEF FitStores
  <2>1. e \in Docs \ crossed
    BY <1>6 DEF Grows
  <2>2. Cleared(p, e)' => Cleared(p, e) \/ (e = d /\ row.state = "deleted")
    BY <1>4, <1>5, <1>6 DEF Cleared
  <2>3. AtRow(p)' => AtRow(p)
    BY <1>4, <1>5 DEF AtRow
  <2> QED BY <1>1, <1>2, <1>6, <2>1, <2>2, <2>3 DEF Fit, FitStores
<1>10. FitKinds(p)'
  BY <1>1, <1>2, <1>4, <1>6 DEF Fit, FitKinds, Deletion
<1>11. Joins(p)
  BY <1>4, <1>6 DEF Joins, AtWorkOn
<1>12. \A r \in Wrote(p)' : r \in Wrote(p) \/ Free(p, r)
  BY <1>6 DEF Write, Put
<1> QED BY <1>2, <1>7, <1>8, <1>9, <1>10, <1>11, <1>12, QuietlyKept DEF Fit, KInv, DocsFit

-----------------------------------------------------------------------------
(* Writes of rows.                                                          *)

LEMMA SaveDocKeeps ==
    ASSUME KInv, IInv, Crosses, NEW p \in Requests, SaveDoc(p)
    PROVE  Keeping(p)
<1> DEFINE d == Doc(p)
<1>1. /\ SoundReq(req[p]) /\ Sound(req[p], draft[p]) /\ Fit(p) /\ DocsFit
      /\ \A call : At(p, call) => Place(req[p], call)
  BY Places DEF IInv, Sound, KInv
<1>2. /\ At(p, "insertDoc") => req[p].kind = "upload" /\ req[p].step = 3
      /\ At(p, "saveRetried") => req[p].kind = "retry" /\ req[p].step = 3
      /\ At(p, "savePage") => req[p].kind = "page" /\ req[p].step = 3
      /\ At(p, "saveReady") => \/ req[p].kind = "ingest" /\ req[p].step = 9
                               \/ req[p].kind = "page" /\ req[p].step = 10
      /\ At(p, "saveFailed") => req[p].kind \in {"ingestFailed", "blankPage"}
  BY <1>1 DEF Place
<1>3. d \in Docs /\ req[p].kind # "purge"
  BY <1>1, <1>2 DEF SaveDoc, SoundReq, HasDoc, Doc
<1>4. CASE At(p, "insertDoc") /\ Write(p, d, NewDoc(None))
  <2>1. db[d].state = "absent"
    BY <1>1, <1>2, <1>4 DEF Fit, FitRows
  <2> QED BY <1>3, <1>4, <2>1, FitDocWritten DEF NewDoc
<1>5. CASE At(p, "saveRetried") /\ SaveRetried(p)
  <2> DEFINE row == [Copy(p, d) EXCEPT !.status = "processing"]
  <2>1. Copy(p, d).state = "live" /\ IsDoc(Copy(p, d)) /\ "retry" \in begun.kinds
    BY <1>1, <1>2, <1>3, <1>5 DEF Fit, FitRows, SoundReq, Copy, Doc
  <2>2. row.state = "live"
    BY <2>1 DEF IsDoc
  <2>3. ~(db[d].state = "deleted" /\ Lasts(d))
    BY <1>1, <1>2, <1>3, <1>5, <2>1 DEF DocsFit, Deletion, Lasts, Revivable, Fit, FitStores,
                                         AtRow
  <2>4. Write(p, d, row) \/ Raise(p)
    BY <1>5 DEF SaveRetried, InsertLive
  <2> HIDE DEF row
  <2> QED BY <1>3, <1>5, <2>2, <2>3, <2>4, FitDocWritten, RaiseKeeps
<1>6. ASSUME NEW call \in {"saveReady", "saveFailed", "savePage"}, At(p, call),
             call = "savePage" => Seen(p, d).state # "absent",
             NEW status, Write(p, d, WithStatus(p, d, status))
      PROVE  Keeping(p)
  <2> DEFINE row == WithStatus(p, d, status)
  <2>1. IsDoc(Seen(p, d))
    BY <1>3, SeenDocs
  <2>2. row.state = Seen(p, d).state
    BY <2>1 DEF IsDoc, WithStatus
  <2>3. Seen(p, d).state # "absent"
    <3>1. CASE d \in Wrote(p)
      BY <1>1, <1>3, <3>1 DEF Fit, FitDraft, Seen
    <3>2. CASE d \notin Wrote(p)
      <4>1. CASE req[p].kind \in {"ingest", "ingestFailed"}
        BY <1>1, <1>3, <3>2, <4>1 DEF Fit, FitRows, Knows, Seen
      <4>2. CASE req[p].kind \in {"page", "blankPage"}
        BY <1>1, <1>2, <1>6, <3>2, <4>2 DEF Fit, FitDraft, Paged, SoundDraft, Sound, Wrote, Doc
      <4> QED BY <1>2, <1>6, <4>1, <4>2
    <3> QED BY <3>1, <3>2
  <2>4. Seen(p, d).state \in {"live", "deleted"}
    BY <1>1, <1>3, <2>3 DEF DocsFit, Fit, FitDraft, Seen
  <2>5. db[d].state = "deleted" /\ Lasts(d) => Seen(p, d).state = "deleted"
    BY <1>1, <1>3 DEF Fit, FitDraft, Seen
  <2>6. Seen(p, d).state = "deleted" => Deletion
    BY <1>1, <1>3 DEF DocsFit, Fit, FitKinds, Seen
  <2>7. ASSUME Seen(p, d).state = "deleted", d \notin crossed
        PROVE  vectors[d] = {} /\ ~AtRow(p)
    <3>1. ~AtRow(p)
      BY <1>1, <1>3, <2>7 DEF Fit, FitStores
    <3>2. vectors[d] = {}
      BY <1>1, <1>3, <2>7 DEF DocsFit, Fit, FitStores, Cleared, Seen
    <3> QED BY <3>1, <3>2
  <2> HIDE DEF row
  <2>8. Write(p, d, row)
    BY <1>6 DEF row
  <2> QED BY <1>3, <1>6, <2>2, <2>4, <2>5, <2>6, <2>7, <2>8, FitDocWritten
<1>7. CASE At(p, "saveReady") /\ Write(p, d, WithStatus(p, d, "ready"))
  BY <1>6, <1>7
<1>8. CASE At(p, "saveFailed") /\ Write(p, d, WithStatus(p, d, "failed"))
  BY <1>6, <1>8
<1>9. CASE /\ At(p, "savePage") /\ Seen(p, d).state # "absent"
           /\ Write(p, d, WithStatus(p, d, "processing"))
  BY <1>6, <1>9
<1>10. CASE /\ At(p, "savePage") /\ Seen(p, d).state = "absent"
            /\ InsertLive(p, d, NewDoc(req[p].url))
  <2> DEFINE row == NewDoc(req[p].url)
  <2>1. row.state = "live"
    BY DEF NewDoc
  <2>2. db[d].state # "deleted"
    BY <1>1, <1>3, <1>10 DEF Fit, FitDraft, Seen
  <2>3. Write(p, d, row) \/ Raise(p)
    BY <1>10 DEF InsertLive
  <2> HIDE DEF row
  <2> QED BY <1>3, <1>10, <2>1, <2>2, <2>3, FitDocWritten, RaiseKeeps
<1> QED BY <1>4, <1>5, <1>7, <1>8, <1>9, <1>10 DEF SaveDoc

LEMMA NextPurgeMoves ==
    ASSUME IInv, NEW p \in Requests, NEW docs, NEW read, NextPurge(p, docs, read)
    PROVE  /\ DOMAIN req' = Requests /\ \A q \in Requests \ {p} : req'[q] = req[q]
           /\ req'[p].step = 1 /\ req'[p].run = req[p].run /\ req'[p].url = req[p].url
           /\ req'[p].content = req[p].content
           /\ \/ /\ docs = {} /\ req'[p].kind = "dropKB" /\ req'[p].doc = None
                 /\ req'[p].todo = {} /\ req'[p].read = req[p].read
              \/ /\ docs # {} /\ req'[p].kind = "purge" /\ req'[p].doc \in docs
                 /\ req'[p].todo = docs \ {req'[p].doc} /\ req'[p].read = read
<1>1. DOMAIN req = Requests /\ DOMAIN req[p] = Fields
  BY DEF IInv, Sound, SoundReq
<1>2. CASE docs = {}
  <2>1. req'[p] = [req[p] EXCEPT !.kind = "dropKB", !.step = 1, !.doc = None, !.todo = {}]
    BY <1>1, <1>2 DEF NextPurge
  <2> QED BY <1>1, <1>2, <2>1 DEF NextPurge, Fields
<1>3. CASE docs # {}
  <2> DEFINE d == AnyOf(docs)
  <2>1. d \in docs
    BY <1>3 DEF AnyOf
  <2>2. req'[p] = [req[p] EXCEPT !.kind = "purge", !.step = 1, !.doc = d,
                                 !.todo = docs \ {d}, !.read = read]
    BY <1>1, <1>3 DEF NextPurge
  <2> HIDE DEF d
  <2>3. /\ req'[p].kind = "purge" /\ req'[p].step = 1 /\ req'[p].doc = d
        /\ req'[p].todo = docs \ {d} /\ req'[p].read = read /\ req'[p].run = req[p].run
        /\ req'[p].url = req[p].url /\ req'[p].content = req[p].content
    BY <1>1, <2>2 DEF Fields
  <2> QED BY <1>1, <1>3, <2>1, <2>3 DEF NextPurge
<1> QED BY <1>2, <1>3

(* The documents that are listed are there, and from here on at work on. *)
LEMMA ReadAllMoves ==
    ASSUME IInv, NEW p \in Requests, ReadAll(p)
    PROVE  /\ OnlyMoves(p) /\ draft'[p] = draft[p] /\ req[p].kind = "deleteKB"
           /\ req[p].step = 2 /\ req'[p].kind = req[p].kind /\ req'[p].step = req[p].step + 1
           /\ req'[p].doc = req[p].doc /\ req'[p].run = req[p].run
           /\ req'[p].content = req[p].content
           /\ req'[p].todo = LiveDocs(p)
           /\ req'[p].read = [d \in LiveDocs(p) |-> Seen(p, d)]
           /\ UNCHANGED <<vectors, objects, jobs, authorized, begun, failures>>
<1> DEFINE q == req'[p]
           read == [d \in LiveDocs(p) |-> Seen(p, d)]
<1>1. /\ DOMAIN req = Requests /\ DOMAIN draft = Requests /\ DOMAIN req[p] = Fields
      /\ SoundReq(req[p]) /\ At(p, "readAll")
  BY DEF IInv, Sound, SoundReq, ReadAll
<1>2. req[p].kind = "deleteKB" /\ req[p].step = 2
  BY <1>1, Places DEF Place
<1>3. /\ OnlyMoves(p) /\ draft'[p] = draft[p]
      /\ UNCHANGED <<vectors, objects, jobs, authorized, begun, failures>>
  BY <1>1 DEF ReadAll, OnlyMoves, dbVars, storeVars, envVars
<1>4. q = [req[p] EXCEPT !.step = @ + 1, !.todo = LiveDocs(p), !.read = read]
  BY <1>1 DEF ReadAll
<1> HIDE DEF q, read
<1>5. /\ q.kind = req[p].kind /\ q.step = req[p].step + 1 /\ q.doc = req[p].doc
      /\ q.run = req[p].run /\ q.content = req[p].content
      /\ q.todo = LiveDocs(p) /\ q.read = read
  BY <1>1, <1>4 DEF Fields
<1> QED BY <1>2, <1>3, <1>5 DEF q, read

LEMMA ReadAllKeeps ==
    ASSUME KInv, IInv, Crosses, NEW p \in Requests, ReadAll(p)
    PROVE  Keeping(p)
<1>1. Fit(p) /\ req[p].kind = "deleteKB" /\ req'[p].kind = "deleteKB"
  BY ReadAllMoves DEF KInv
<1>2. Wrote(p) = {} /\ Deletion
  BY <1>1 DEF Fit, FitDraft, Empty, FitKinds
<1>3. \A d \in LiveDocs(p) : d \in Docs /\ db[d].state # "absent"
  BY <1>2 DEF LiveDocs, Seen
<1>4. Wrote(p)' = {} /\ db' = db /\ Grows
  BY <1>2, ReadAllMoves DEF OnlyMoves, Wrote, Grows, Crosses
<1>5. Fit(p)'
  <2>1. FitDraft(p)'
    BY <1>1, <1>4 DEF FitDraft
  <2>2. FitRows(p)'
    BY <1>1, <1>3, <1>4, ReadAllMoves DEF FitRows, Knows
  <2>3. FitStores(p)'
    BY <1>1, <1>4 DEF FitStores, Cleared, AtRow
  <2>4. FitKinds(p)'
    BY <1>2, <1>4, ReadAllMoves DEF FitKinds, Deletion
  <2> QED BY <1>1, <2>1, <2>2, <2>3, <2>4 DEF Fit
<1>6. Joins(p)
  BY <1>3, <1>4, ReadAllMoves DEF Joins, AtWorkOn, Doc
<1> QED BY <1>4, <1>5, <1>6, ReadAllMoves, QuietlyKept DEF KInv, DocsFit

LEMMA CheckAtRestKeeps ==
    ASSUME KInv, IInv, Crosses, NEW p \in Requests, CheckAtRest(p)
    PROVE  Keeping(p)
<1>1. CASE Refuse(p)
  BY <1>1, RefuseKeeps
<1>2. CASE ~Refuse(p)
  <2> DEFINE docs == req[p].todo
  <2>1. /\ NextPurge(p, docs, req[p].read)
        /\ UNCHANGED <<dbVars, storeVars, jobs, envVars, failures>>
    BY <1>2 DEF CheckAtRest
  <2>2. req[p].kind = "deleteKB" /\ Fit(p) /\ SoundReq(req[p])
    BY Places DEF CheckAtRest, IInv, Sound, Place, KInv
  <2>3. Wrote(p) = {} /\ Deletion
    BY <2>2 DEF Fit, FitDraft, Empty, FitKinds
  <2>4. \A d \in docs : d \in Docs /\ db[d].state # "absent"
    BY <2>2 DEF Fit, FitRows, Knows, SoundReq
  <2>5. OnlyMoves(p) /\ draft'[p] = draft[p] /\ Wrote(p)' = {} /\ db' = db /\ Grows
    BY <2>1, <2>3, NextPurgeMoves DEF OnlyMoves, dbVars, Wrote, IInv, Grows, Crosses, envVars
  <2>6. /\ req'[p].step = 1 /\ req'[p].kind \in {"dropKB", "purge"}
        /\ {req'[p].doc} \cup req'[p].todo \subseteq docs \cup {None}
        /\ req'[p].todo \subseteq docs
    BY <2>1, NextPurgeMoves
  <2>7. None \notin Docs
    BY IngestionAssumption
  <2> HIDE DEF docs
  <2>8. Fit(p)'
    <3>1. FitDraft(p)'
      BY <2>5, <2>6 DEF FitDraft
    <3>2. FitRows(p)'
      BY <2>4, <2>5, <2>6, <2>7 DEF FitRows, Knows, Doc
    <3>3. FitStores(p)'
      BY <2>5, <2>6 DEF FitStores, Cleared, AtRow
    <3>4. FitKinds(p)'
      BY <2>1, <2>3, <2>5 DEF FitKinds, Deletion, envVars
    <3> QED BY <3>1, <3>2, <3>3, <3>4 DEF Fit
  <2>9. Joins(p)
    BY <2>4, <2>5, <2>6, <2>7 DEF Joins, AtWorkOn, Doc
  <2> QED BY <2>1, <2>5, <2>8, <2>9, QuietlyKept DEF KInv, DocsFit, storeVars
<1> QED BY <1>1, <1>2

LEMMA SaveDeletedKeeps ==
    ASSUME KInv, IInv, Crosses, NEW p \in Requests, SaveDeleted(p)
    PROVE  Keeping(p)
<1> DEFINE o == req[p]
           d == Doc(p)
           row == [Copy(p, d) EXCEPT !.state = "deleted"]
           new == [x \in {d} |-> [Copy(p, x) EXCEPT !.state = "deleted"]]
<1>1. /\ Sound(o, draft[p]) /\ SoundReq(o) /\ Fit(p) /\ At(p, "saveDeleted")
  BY DEF IInv, Sound, SaveDeleted, KInv
<1>2. \/ o.kind = "delete" /\ o.step = 6
      \/ o.kind = "purge" /\ o.step = 4
  BY <1>1, Places DEF Place
<1>3. d \in Docs /\ IsDoc(Copy(p, d))
  BY <1>1, <1>2 DEF SoundReq, HasDoc, Doc, Copy
<1>4. row.state = "deleted" /\ Deletion /\ (d \notin crossed => vectors[d] = {})
  BY <1>1, <1>2, <1>3 DEF IsDoc, Fit, FitKinds, FitStores, Cleared
<1>5. DOMAIN new = {d} /\ new[d] = row /\ new = [x \in {d} |-> row]
  OBVIOUS
<1>6. CASE o.kind = "delete"
  <2>1. Write(p, d, row) /\ ~AtRow(p)
    BY <1>5, <1>6 DEF SaveDeleted, Write, AtRow
  <2> HIDE DEF row
  <2> QED BY <1>1, <1>3, <1>4, <1>6, <2>1, FitDocWritten
<1>7. CASE o.kind = "purge"
  <2>1. Put(p, new) /\ NextPurge(p, o.todo, o.read)
    BY <1>7 DEF SaveDeleted
  <2>2. /\ DOMAIN req' = Requests /\ \A q \in Requests \ {p} : req'[q] = req[q]
        /\ req'[p].step = 1 /\ req'[p].kind \in {"dropKB", "purge"}
        /\ req'[p].doc \in o.todo \cup {None}
        /\ req'[p].todo \subseteq o.todo
    BY <2>1, NextPurgeMoves
  <2> HIDE DEF new, row
  <2>3. OnlyMoves(p) /\ Holds(draft'[p], draft[p], d, row)
    BY <1>5, <2>1, <2>2, PutOne
  <2>4. /\ Wrote(p)' = Wrote(p) \cup {d} /\ draft'[p][d] = row /\ db' = db /\ Grows
        /\ \A e \in Wrote(p) : e # d => draft'[p][e] = draft[p][e]
        /\ UNCHANGED <<vectors, objects, jobs, begun>>
    BY <2>3 DEF Wrote, Holds, OnlyMoves, Grows, Crosses, SaveDeleted, envVars, storeVars
  <2>5. None \notin Docs
    BY IngestionAssumption
  <2>6. Fit(p)'
    <3>1. FitDraft(p)'
      BY <1>1, <1>4, <2>2, <2>4, LastsBefore DEF Fit, FitDraft, Empty
    <3>2. FitRows(p)'
      <4>1. \A e \in Docs : Knows(p, e)' => Knows(p, e)
        BY <1>7, <2>2, <2>5 DEF Knows, Doc
      <4> QED BY <1>1, <2>2, <2>4, <4>1 DEF Fit, FitRows
    <3>3. FitStores(p)'
      BY <1>1, <1>4, <2>2, <2>4 DEF Fit, FitStores, Cleared, AtRow, Grows
    <3>4. FitKinds(p)'
      BY <1>4, <2>4 DEF FitKinds, Deletion
    <3> QED BY <3>1, <3>2, <3>3, <3>4 DEF Fit
  <2>7. Joins(p)
    BY <2>2, <2>4, <2>5 DEF Joins, AtWorkOn, Doc
  <2>8. \A r \in Wrote(p)' : r \in Wrote(p) \/ Free(p, r)
    BY <1>5, <2>1, <2>4 DEF Put
  <2> QED BY <2>3, <2>4, <2>6, <2>7, <2>8, QuietlyKept DEF KInv, DocsFit
<1> QED BY <1>2, <1>6, <1>7

-----------------------------------------------------------------------------
(* A row that is no document's. *)
LEMMA WriteAside ==
    ASSUME KInv, IInv, Crosses, NEW p \in Requests,
           NEW call \in {"saveKB", "insertSource", "saveSyncing", "saveSynced", "saveError",
                         "deletePassages", "insertPassages"},
           At(p, call), NEW r, r \notin Docs, NEW value, Write(p, r, value)
    PROVE  Keeping(p)
<1>1. Place(req[p], call) /\ CallOf(req[p], call) /\ Fit(p)
  BY Places DEF IInv, Sound, SoundReq, KInv
<1>2. /\ OnlyMoves(p) /\ Holds(draft'[p], draft[p], r, value)
      /\ req'[p] = [req[p] EXCEPT !.step = @ + 1]
      /\ UNCHANGED <<vectors, objects, jobs, begun>>
  BY WriteMoves DEF Write, storeVars, envVars
<1>3. DOMAIN req[p] = Fields /\ req[p].step \in Nat
  BY DEF IInv, Sound, SoundReq
<1>4. /\ req'[p].kind = req[p].kind /\ req'[p].step = req[p].step + 1
      /\ req'[p].doc = req[p].doc /\ req'[p].todo = req[p].todo
      /\ req'[p].read = req[p].read
  BY <1>2, <1>3 DEF Fields
<1>5. /\ Doc(p)' = Doc(p) /\ Wrote(p)' = Wrote(p) \cup {r}
      /\ \A e \in Docs : (e \in Wrote(p)' <=> e \in Wrote(p)) /\ Seen(p, e)' = Seen(p, e)
      /\ \A e \in Docs \cap Wrote(p) : draft'[p][e] = draft[p][e]
      /\ db' = db /\ Grows
  BY <1>2, <1>4 DEF Wrote, Seen, Doc, Holds, OnlyMoves, Grows, Crosses
<1>6. FitDraft(p)'
  <2>1. ~Empty(p)'
    BY <1>1, <1>4 DEF Empty, Place
  <2>2. ~(req'[p].kind = "blankPage" \/ (req'[p].kind = "upload" /\ req'[p].step = 4))
    BY <1>1, <1>4 DEF Place
  <2> QED BY <1>1, <1>5, <2>1, <2>2, LastsBefore DEF Fit, FitDraft
<1>7. FitRows(p)'
  <2>1. req[p].kind \notin {"upload", "retry"}
    BY <1>1 DEF Place
  <2> QED BY <1>1, <1>4, <1>5, <2>1 DEF Fit, FitRows, Knows
<1>8. FitStores(p)'
  <2>1. AtRow(p)' => AtRow(p)
    BY <1>1, <1>4 DEF AtRow, Place
  <2>2. \A e \in Docs : Cleared(p, e)' => Cleared(p, e)
    BY <1>1, <1>4, <1>5 DEF Cleared, Place
  <2> QED BY <1>1, <1>2, <1>5, <2>1, <2>2 DEF Fit, FitStores, Grows
<1>9. FitKinds(p)'
  BY <1>1, <1>2, <1>4, <1>5 DEF Fit, FitKinds, Deletion
<1>10. Joins(p)
  BY <1>4, <1>5 DEF Joins, AtWorkOn
<1>11. \A x \in Wrote(p)' : x \in Wrote(p) \/ Free(p, x)
  BY <1>5 DEF Write, Put
<1> QED BY <1>2, <1>6, <1>7, <1>8, <1>9, <1>10, <1>11, QuietlyKept DEF Fit, KInv, DocsFit

LEMMA SaveOtherKeeps ==
    ASSUME KInv, IInv, Crosses, NEW p \in Requests, SaveOther(p)
    PROVE  Keeping(p)
BY WriteAside, RowsApart DEF SaveOther

-----------------------------------------------------------------------------
(* Passages, points and bytes.                                              *)

LEMMA GateKeeps ==
    ASSUME KInv, IInv, Crosses, NEW p \in Requests, ReadKB(p) \/ Authorize(p)
    PROVE  Keeping(p)
BY GoKeeps, RefuseKeeps DEF ReadKB, Authorize

LEMMA DeletePassagesKeeps ==
    ASSUME KInv, IInv, Crosses, NEW p \in Requests, DeletePassages(p)
    PROVE  Keeping(p)
<1>1. Doc(p) \in Docs
  BY DeletesAt DEF DeletePassages, IInv, Sound, Doc
<1>2. Passages(Doc(p)) \notin Docs
  BY <1>1, RowsApart
<1> QED BY <1>2, GoKeeps, WriteAside DEF DeletePassages

LEMMA WaitsMoves ==
    ASSUME IInv, NEW p \in Requests, DeleteWaits(p)
    PROVE  /\ OnlyMoves(p) /\ draft'[p] = draft[p]
           /\ req'[p].kind = req[p].kind /\ req'[p].step = req[p].step
           /\ req'[p].doc = req[p].doc /\ req'[p].run = req[p].run
           /\ req'[p].todo = req[p].todo /\ req'[p].content = req[p].content
           /\ req'[p].url = req[p].url
           /\ req'[p].read = [x \in DOMAIN req[p].read \cup {Passages(Doc(p))} |->
                                 IF x = Passages(Doc(p)) THEN Seen(p, x) ELSE req[p].read[x]]
<1> DEFINE o == req[p]
           q == req'[p]
           r == Passages(Doc(p))
<1>1. /\ DOMAIN req = Requests /\ DOMAIN draft = Requests /\ DOMAIN o = Fields
  BY DEF IInv, Sound, SoundReq
<1>2. req' = [req EXCEPT ![p].read =
          [x \in DOMAIN @ \cup {r} |-> IF x = r THEN Seen(p, r) ELSE @[x]]]
  BY DEF DeleteWaits
<1>3. OnlyMoves(p) /\ draft'[p] = draft[p]
  BY <1>1, <1>2 DEF DeleteWaits, OnlyMoves, dbVars
<1>4. /\ q.kind = o.kind /\ q.step = o.step /\ q.content = o.content /\ q.url = o.url
      /\ q.doc = o.doc /\ q.run = o.run /\ q.todo = o.todo
      /\ q.read = [x \in DOMAIN o.read \cup {r} |-> IF x = r THEN Seen(p, r) ELSE o.read[x]]
  BY <1>1, <1>2 DEF Fields
<1> QED BY <1>3, <1>4

LEMMA DeleteWaitsKeeps ==
    ASSUME KInv, IInv, Crosses, NEW p \in Requests, DeleteWaits(p)
    PROVE  Keeping(p)
<1>1. /\ OnlyMoves(p) /\ draft'[p] = draft[p] /\ db' = db
      /\ req'[p].kind = req[p].kind /\ req'[p].step = req[p].step
      /\ req'[p].doc = req[p].doc /\ req'[p].todo = req[p].todo
  BY WaitsMoves DEF OnlyMoves
<1>2. Fit(p) /\ req[p].kind # "retry" /\ UNCHANGED <<vectors, objects, jobs, begun>>
  BY DeletesAt DEF KInv, DeleteWaits, storeVars, envVars, IInv, Sound
<1>3. Wrote(p)' = Wrote(p) /\ Doc(p)' = Doc(p) /\ Grows
  BY <1>1, <1>2 DEF Wrote, Doc, Grows, Crosses
<1>4. FitDraft(p)'
  BY <1>1, <1>2, <1>3, LastsBefore DEF Fit, FitDraft, Empty
<1>5. FitRows(p)'
  BY <1>1, <1>2, <1>3 DEF Fit, FitRows, Knows
<1>6. FitStores(p)'
  BY <1>1, <1>2, <1>3 DEF Fit, FitStores, Cleared, AtRow, Seen, Grows, Wrote
<1>7. FitKinds(p)'
  BY <1>1, <1>2, <1>3 DEF Fit, FitKinds, Deletion
<1>8. Joins(p)
  BY <1>1, <1>3 DEF Joins, AtWorkOn
<1> QED BY <1>1, <1>2, <1>3, <1>4, <1>5, <1>6, <1>7, <1>8, QuietlyKept DEF Fit, KInv, DocsFit

LEMMA InsertPassagesKeeps ==
    ASSUME KInv, IInv, Crosses, NEW p \in Requests, InsertPassages(p)
    PROVE  Keeping(p)
<1>1. At(p, "insertPassages") /\ SoundReq(req[p])
  BY DEF InsertPassages, IInv, Sound
<1>2. \/ req[p].kind = "ingest"
      \/ req[p].kind = "page" /\ req[p].step >= 3
  BY <1>1, Places DEF Place
<1>3. Passages(Doc(p)) \notin Docs
  BY <1>1, <1>2, RowsApart DEF SoundReq, HasDoc, Doc
<1> QED BY <1>3, RaiseKeeps, WriteAside DEF InsertPassages

(* The points of p's document change, and only those. *)
LEMMA FitMoved ==
    ASSUME KInv, IInv, Crosses, NEW p \in Requests,
           NEW call \in {"dropVectors", "upsert"}, At(p, call), Advance(p), UNCHANGED dbVars,
           UNCHANGED <<objects, jobs, begun>>,
           NEW points, vectors' = [vectors EXCEPT ![Doc(p)] = points],
           call = "dropVectors" => points = {}
    PROVE  Keeping(p)
<1> DEFINE d == Doc(p)
<1>1. /\ Place(req[p], call) /\ CallOf(req[p], call) /\ Fit(p) /\ DocsFit /\ SoundReq(req[p])
  BY Places DEF IInv, Sound, KInv
<1>2. OnlyMoves(p) /\ draft'[p] = draft[p] /\ Stepped(req'[p], req[p]) /\ db' = db /\ Grows
  BY AdvanceMoves DEF dbVars, Grows, Crosses
<1>3. Wrote(p)' = Wrote(p) /\ Doc(p)' = Doc(p) /\ \A e : Seen(p, e)' = Seen(p, e)
  BY <1>2 DEF Wrote, Doc, Stepped, Seen
<1>4. d \in Docs /\ req[p].kind \notin {"upload", "retry", "blankPage"}
  BY <1>1 DEF Place, SoundReq, HasDoc, Doc
<1>5. /\ DOMAIN vectors' = Docs
      /\ \A e \in Docs : vectors'[e] = IF e = d THEN points ELSE vectors[e]
  BY <1>1, <1>4 DEF DocsFit
<1>6. AtRow(p)' => AtRow(p)
  BY <1>1, <1>2 DEF AtRow, Place, Stepped
<1>7. call = "upsert" => AtRow(p) /\ req[p].kind \in {"ingest", "page"}
  BY <1>1 DEF Place, AtRow
<1>8. ASSUME d \notin crossed, call = "upsert"
      PROVE  /\ db[d].state # "deleted" /\ Seen(p, d).state # "deleted" /\ ~Cleared(p, d)'
  <2>1. db[d].state # "deleted" /\ Seen(p, d).state # "deleted"
    BY <1>1, <1>4, <1>7, <1>8 DEF Fit, FitStores
  <2> QED BY <1>2, <1>3, <1>7, <1>8, <2>1 DEF Cleared, Stepped, Seen, Wrote
<1>9. FitDraft(p)'
  <2>1. Empty(p)' => Empty(p)
    BY <1>1, <1>2 DEF Empty, CallOf, Place, Stepped
  <2> QED BY <1>1, <1>2, <1>3, <1>4, <2>1, LastsBefore DEF Fit, FitDraft, Stepped
<1>10. FitRows(p)'
  BY <1>1, <1>2, <1>3, <1>4 DEF Fit, FitRows, Knows, Stepped
<1>11. FitStores(p)'
  <2> SUFFICES ASSUME NEW e \in Docs \ crossed'
               PROVE  (/\ Cleared(p, e) => vectors[e] = {}
                       /\ e = Doc(p) /\ AtRow(p)
                            => db[e].state # "deleted" /\ Seen(p, e).state # "deleted")'
    BY DEF FitStores
  <2>1. e \in Docs \ crossed
    BY <1>2 DEF Grows
  <2>2. CASE e = d
    BY <1>1, <1>2, <1>3, <1>5, <1>6, <1>8, <2>1, <2>2 DEF Fit, FitStores
  <2>3. CASE e # d
    <3>1. Cleared(p, e)' => Cleared(p, e)
      BY <1>2, <1>3, <2>3 DEF Cleared
    <3> QED BY <1>1, <1>3, <1>5, <2>1, <2>3, <3>1 DEF Fit, FitStores
  <2> QED BY <2>2, <2>3
<1>12. FitKinds(p)'
  BY <1>1, <1>2, <1>3 DEF Fit, FitKinds, Deletion, Stepped
<1>13. Joins(p)
  BY <1>2, <1>3 DEF Joins, AtWorkOn, Stepped
<1>14. \A e \in Docs \ crossed : db[e].state = "deleted" => vectors'[e] = {}
  BY <1>1, <1>5, <1>8 DEF DocsFit
<1> QED BY <1>1, <1>2, <1>3, <1>5, <1>9, <1>10, <1>11, <1>12, <1>13, <1>14
        DEF Keeping, Fit, DocsFit, Stores

LEMMA PointsKeeps ==
    ASSUME KInv, IInv, Crosses, NEW p \in Requests, DropVectors(p) \/ Upsert(p)
    PROVE  Keeping(p)
BY FitMoved DEF DropVectors, Upsert, envVars, dbVars

LEMMA ObjectsKeeps ==
    ASSUME KInv, IInv, Crosses, NEW p \in Requests, PutPage(p) \/ DeleteObject(p)
    PROVE  Keeping(p)
<1>1. DOMAIN objects = Docs
  BY DEF KInv, DocsFit
<1>2. DOMAIN objects' = Docs
  BY <1>1 DEF PutPage, DeleteObject
<1> QED BY <1>2, CallOn DEF PutPage, DeleteObject, envVars, dbVars

LEMMA EmbedKeeps ==
    ASSUME KInv, IInv, Crosses, NEW p \in Requests, Embed(p)
    PROVE  Keeping(p)
<1>1. CASE Go(p)
  BY <1>1, GoKeeps DEF Embed
<1>2. CASE Raise(p)
  BY <1>2, RaiseKeeps
<1>3. CASE /\ Turn(p, "blankPage") /\ UNCHANGED <<dbVars, storeVars, jobs, envVars, failures>>
           /\ req[p].kind # "ingest"
  <2>1. SoundReq(req[p]) /\ Sound(req[p], draft[p]) /\ At(p, "embed") /\ Fit(p)
    BY DEF IInv, Sound, Embed, KInv
  <2>2. req[p].kind = "page" /\ req[p].step = 7
    BY <1>3, <2>1, EmbedsAt
  <2>3. Restarted(req'[p], req[p], "blankPage") /\ OnlyMoves(p) /\ draft'[p] = draft[p]
    BY <1>3, TurnMoves DEF OnlyMoves, dbVars, IInv
  <2>4. Wrote(p)' = Wrote(p) /\ Doc(p)' = Doc(p) /\ db' = db /\ Grows
        /\ UNCHANGED <<vectors, objects, jobs, begun>>
    BY <1>3, <2>3 DEF Wrote, Doc, Restarted, dbVars, storeVars, envVars, Grows, Crosses
  <2>5. Doc(p) \in Wrote(p)
    BY <2>1, <2>2 DEF Sound, SoundDraft, Paged, Doc, Wrote
  <2>6. FitDraft(p)'
    BY <2>1, <2>2, <2>3, <2>4, <2>5, LastsBefore DEF Fit, FitDraft, Empty, Restarted
  <2>7. FitRows(p)'
    BY <2>1, <2>2, <2>3, <2>4 DEF Fit, FitRows, Knows, Restarted
  <2>8. FitStores(p)'
    BY <2>1, <2>2, <2>3, <2>4 DEF Fit, FitStores, Cleared, AtRow, Restarted, Grows, Seen, Wrote
  <2>9. FitKinds(p)'
    BY <2>1, <2>2, <2>3, <2>4 DEF Fit, FitKinds, Restarted, Deletion
  <2>10. Joins(p)
    BY <2>3, <2>4 DEF Joins, AtWorkOn, Restarted
  <2> QED BY <2>3, <2>4, <2>6, <2>7, <2>8, <2>9, <2>10, QuietlyKept DEF Fit, KInv, DocsFit
<1> QED BY <1>1, <1>2, <1>3 DEF Embed

LEMMA NextPageMoves ==
    ASSUME IInv, NEW p \in Requests, NextPage(p)
    PROVE  /\ OnlyMoves(p) /\ draft'[p] = draft[p] /\ req[p].kind = "turn"
           /\ UNCHANGED <<vectors, objects, jobs, authorized, begun, failures>>
           /\ req'[p].todo = req[p].todo /\ req'[p].run = req[p].run /\ req'[p].step = 1
           /\ \/ req'[p].kind = "finish" /\ req'[p].doc = req[p].doc /\ req'[p].read = req[p].read
              \/ req'[p].kind = "page" /\ req'[p].doc = None /\ req'[p].read = NoRows
                 /\ req'[p].url \in Urls /\ req'[p].content \in Contents
<1>1. DOMAIN req = Requests /\ DOMAIN draft = Requests /\ DOMAIN req[p] = Fields
  BY DEF IInv, Sound, SoundReq
<1>2. /\ req[p].kind = "turn" /\ UNCHANGED dbVars
      /\ UNCHANGED <<vectors, objects, jobs, authorized, begun, failures>>
  BY DEF NextPage, storeVars, envVars
<1>3. CASE Turn(p, "finish")
  <2>1. /\ DOMAIN req' = Requests /\ \A q \in Requests \ {p} : req'[q] = req[q]
        /\ Restarted(req'[p], req[p], "finish")
    BY <1>3, TurnMoves
  <2> QED BY <1>1, <1>2, <2>1 DEF Restarted, OnlyMoves, dbVars
<1>4. ASSUME NEW url \in Urls, NEW content \in Contents,
             req' = [req EXCEPT ![p].kind = "page", ![p].step = 1, ![p].doc = None,
                  ![p].url = url, ![p].content = content, ![p].read = NoRows,
                  ![p].seen = @ \cup {url}]
      PROVE  /\ OnlyMoves(p) /\ draft'[p] = draft[p]
             /\ req'[p].todo = req[p].todo /\ req'[p].run = req[p].run /\ req'[p].step = 1
             /\ req'[p].kind = "page" /\ req'[p].doc = None /\ req'[p].read = NoRows
             /\ req'[p].url = url /\ req'[p].content = content
  <2>1. OnlyMoves(p) /\ draft'[p] = draft[p]
    BY <1>1, <1>2, <1>4 DEF OnlyMoves, dbVars
  <2>2. req'[p] = [req[p] EXCEPT !.kind = "page", !.step = 1, !.doc = None, !.url = url,
                  !.content = content, !.read = NoRows, !.seen = @ \cup {url}]
    BY <1>1, <1>4
  <2>3. /\ req'[p].todo = req[p].todo /\ req'[p].run = req[p].run /\ req'[p].step = 1
        /\ req'[p].kind = "page" /\ req'[p].doc = None /\ req'[p].read = NoRows
        /\ req'[p].url = url /\ req'[p].content = content
    BY <1>1, <2>2 DEF Fields
  <2> QED BY <2>1, <2>3
<1>5. CASE ~Turn(p, "finish")
  <2>1. PICK url \in Urls, content \in Contents :
           req' = [req EXCEPT ![p].kind = "page", ![p].step = 1, ![p].doc = None,
                  ![p].url = url, ![p].content = content, ![p].read = NoRows,
                  ![p].seen = @ \cup {url}]
    <3>1. \E url \in Urls \ req[p].seen, content \in Contents :
             req' = [req EXCEPT ![p].kind = "page", ![p].step = 1, ![p].doc = None,
                    ![p].url = url, ![p].content = content, ![p].read = NoRows,
                    ![p].seen = @ \cup {url}]
      BY <1>5 DEF NextPage
    <3> QED BY <3>1
  <2> QED BY <1>2, <1>4, <2>1
<1> QED BY <1>2, <1>3, <1>5

LEMMA NextPageKeeps ==
    ASSUME KInv, IInv, Crosses, NEW p \in Requests, NextPage(p)
    PROVE  Keeping(p)
<1>1. /\ OnlyMoves(p) /\ draft'[p] = draft[p] /\ req[p].kind = "turn"
      /\ UNCHANGED <<vectors, objects, jobs, authorized, begun, failures>>
      /\ req'[p].todo = req[p].todo /\ req'[p].step = 1
      /\ req'[p].kind \in {"finish", "page"} /\ req'[p].doc \in {req[p].doc, None}
  BY NextPageMoves
<1>2. Fit(p) /\ db' = db /\ Grows
  BY <1>1 DEF KInv, OnlyMoves, Grows, Crosses
<1>3. Wrote(p) = {} /\ Wrote(p)' = {}
  BY <1>1, <1>2 DEF Fit, FitDraft, Empty, Wrote
<1>4. None \notin Docs
  BY IngestionAssumption
<1>5. FitDraft(p)'
  BY <1>1, <1>3 DEF FitDraft
<1>6. FitRows(p)'
  BY <1>1, <1>2 DEF Fit, FitRows, Knows
<1>7. FitStores(p)'
  BY <1>1, <1>3 DEF FitStores, Cleared, AtRow
<1>8. FitKinds(p)'
  BY <1>1, <1>3 DEF FitKinds
<1>9. Joins(p)
  BY <1>1, <1>3, <1>4 DEF Joins, AtWorkOn, Doc
<1> QED BY <1>1, <1>3, <1>5, <1>6, <1>7, <1>8, <1>9, QuietlyKept DEF Fit, KInv, DocsFit

-----------------------------------------------------------------------------
(* The last calls, faults, crashes; all moves but a commit.                 *)

LEMMA EnqueueMoves ==
    ASSUME IInv, NEW p \in Requests, Enqueue(p)
    PROVE  /\ OnlyMoves(p) /\ draft'[p] = draft[p] /\ req'[p] = Idle
           /\ \/ req[p].kind \in {"upload", "retry"} /\ req[p].step = 5
                 /\ jobs' = [jobs EXCEPT ![Doc(p)] = @ + 1]
              \/ req[p].kind \in {"create", "resync"} /\ req[p].step \in 4..5
                 /\ (req[p].kind = "resync" => req[p].step = 5)
                 /\ jobs' = [jobs EXCEPT ![Source] = @ + 1]
           /\ UNCHANGED <<vectors, objects, authorized, begun, failures>>
<1>1. /\ DOMAIN req = Requests /\ DOMAIN draft = Requests
      /\ \A call : At(p, call) => Place(req[p], call)
  BY Places DEF IInv, Sound
<1>2. OnlyMoves(p) /\ draft'[p] = draft[p] /\ req'[p] = Idle
      /\ UNCHANGED <<vectors, objects, authorized, begun, failures>>
  BY <1>1 DEF Enqueue, OnlyMoves, Finish, dbVars, storeVars, envVars
<1>3. /\ At(p, "enqueueDoc") => req[p].kind \in {"upload", "retry"} /\ req[p].step = 5
      /\ At(p, "enqueueSource") => \/ req[p].kind = "create" /\ req[p].step = 4
                                   \/ req[p].kind = "resync" /\ req[p].step = 5
  BY <1>1 DEF Place
<1>4. CASE At(p, "enqueueDoc")
  <2>1. jobs' = [jobs EXCEPT ![Doc(p)] = @ + 1]
    BY <1>4 DEF Enqueue
  <2> QED BY <1>2, <1>3, <1>4, <2>1
<1>5. CASE ~At(p, "enqueueDoc") /\ At(p, "enqueueSource")
  <2>1. jobs' = [jobs EXCEPT ![Source] = @ + 1]
    BY <1>5 DEF Enqueue
  <2>2. /\ req[p].kind \in {"create", "resync"} /\ req[p].step \in 4..5
        /\ req[p].kind = "resync" => req[p].step = 5
    BY <1>3, <1>5
  <2> QED BY <1>2, <2>1, <2>2
<1> QED BY <1>4, <1>5 DEF Enqueue

LEMMA EnqueueKeeps ==
    ASSUME KInv, IInv, Crosses, NEW p \in Requests, Enqueue(p)
    PROVE  Keeping(p)
<1>1. /\ OnlyMoves(p) /\ draft'[p] = draft[p] /\ req'[p] = Idle
      /\ \/ req[p].kind \in {"upload", "retry"} /\ req[p].step = 5
            /\ jobs' = [jobs EXCEPT ![Doc(p)] = @ + 1]
         \/ req[p].kind \in {"create", "resync"} /\ req[p].step \in 4..5
            /\ (req[p].kind = "resync" => req[p].step = 5)
            /\ jobs' = [jobs EXCEPT ![Source] = @ + 1]
      /\ UNCHANGED <<vectors, objects, begun>>
  BY EnqueueMoves
<1>2. Fit(p) /\ DocsFit /\ Grows /\ SoundReq(req[p])
  BY <1>1 DEF KInv, Grows, Crosses, IInv, Sound
<1>3. Wrote(p) = {} /\ Wrote(p)' = {}
  BY <1>1, <1>2 DEF Fit, FitDraft, Empty, Wrote
<1>4. Fit(p)' /\ Joins(p)
  BY <1>1, <1>2, <1>3, FitRecovered DEF Recovered
<1>5. CASE req[p].kind \in {"upload", "retry"} /\ req[p].step = 5
  <2>1. Doc(p) \in Docs
    BY <1>2, <1>5 DEF SoundReq, HasDoc, Doc
  <2>2. db[Doc(p)].state # "absent"
    BY <1>2, <1>5, <2>1 DEF Fit, FitRows, Knows
  <2>3. jobs' = [jobs EXCEPT ![Doc(p)] = @ + 1]
    BY <1>1, <1>5
  <2>4. /\ DOMAIN jobs' = Docs \cup {Source} /\ \A x \in Docs \cup {Source} : jobs'[x] \in Nat
        /\ \A d \in Docs : db[d].state = "absent" => jobs'[d] = 0
    BY <1>2, <2>1, <2>2, <2>3 DEF DocsFit
  <2> QED BY <1>1, <1>2, <1>3, <1>4, <2>4 DEF Keeping, DocsFit, Stores
<1>6. CASE req[p].kind \in {"create", "resync"}
  <2>1. Source \notin Docs /\ jobs' = [jobs EXCEPT ![Source] = @ + 1]
    BY <1>1, <1>6, IngestionAssumption
  <2>2. /\ DOMAIN jobs' = Docs \cup {Source} /\ \A x \in Docs \cup {Source} : jobs'[x] \in Nat
        /\ \A d \in Docs : db[d].state = "absent" => jobs'[d] = 0
    BY <1>2, <2>1 DEF DocsFit
  <2> QED BY <1>1, <1>2, <1>3, <1>4, <2>2 DEF Keeping, DocsFit, Stores
<1> QED BY <1>1, <1>5, <1>6

(* What goes wrong. *)
LEMMA CallFailsKeeps ==
    ASSUME KInv, IInv, Crosses, NEW p \in Requests, CallFails(p)
    PROVE  Keeping(p)
<1>1. CASE Raise(p)
  BY <1>1, RaiseKeeps
<1>2. CASE At(p, "deleteObject") /\ Advance(p) /\ UNCHANGED <<dbVars, storeVars, jobs, envVars>>
  <2>1. UNCHANGED <<dbVars, vectors, jobs, begun>> /\ DOMAIN objects' = Docs
    BY <1>2 DEF storeVars, envVars, KInv, DocsFit, dbVars
  <2> QED BY <1>2, <2>1, CallOn
<1>3. ASSUME At(p, "upsert"), DropRows(p), Recover(p), UNCHANGED <<objects, jobs, envVars>>,
             NEW runs, vectors' = [vectors EXCEPT ![Doc(p)] = @ \cup runs]
      PROVE  Keeping(p)
  <2>1. OnlyMoves(p) /\ draft'[p] = NoRows /\ Recovered(req'[p], req[p])
    BY <1>3, DropMoves
  <2>2. Fit(p) /\ DocsFit /\ Grows /\ SoundReq(req[p]) /\ Place(req[p], "upsert")
    BY <1>3, Places DEF KInv, Grows, Crosses, IInv, Sound, envVars
  <2>3. Doc(p) \in Docs /\ AtRow(p)
    BY <2>2 DEF Place, SoundReq, HasDoc, Doc, AtRow
  <2>4. Fit(p)' /\ Joins(p) /\ Wrote(p)' = {}
    BY <2>1, <2>2, FitRecovered DEF Wrote, NoRows
  <2>5. Doc(p) \notin crossed => db[Doc(p)].state # "deleted"
    BY <2>2, <2>3 DEF Fit, FitStores
  <2>6. /\ DOMAIN vectors' = Docs /\ \A d \in Docs : d # Doc(p) => vectors'[d] = vectors[d]
    BY <1>3, <2>2 DEF DocsFit
  <2> QED BY <1>3, <2>1, <2>2, <2>4, <2>5, <2>6 DEF Keeping, DocsFit, Stores
<1> QED BY <1>1, <1>2, <1>3 DEF CallFails

LEMMA CrashKeeps ==
    ASSUME KInv, IInv, Crosses, NEW p \in Requests, Crash(p)
    PROVE  Keeping(p)
<1>1. DocsFit /\ Fit(p) /\ SoundReq(req[p]) /\ Source \notin Docs
  BY IngestionAssumption DEF KInv, IInv, Sound
<1>2. UNCHANGED <<vectors, begun>> /\ DOMAIN objects' = Docs /\ DropRows(p) /\ Finish(p)
  BY <1>1 DEF Crash, storeVars, envVars, DocsFit
<1>3. CASE jobs' = jobs
  BY <1>1, <1>2, <1>3, EndKeeps DEF DocsFit
<1>4. ASSUME NEW x \in Docs \cup {Source}, jobs' = [jobs EXCEPT ![x] = @ + 1],
             x \in Docs => db[x].state # "absent"
      PROVE  Keeping(p)
  <2>1. /\ DOMAIN jobs' = Docs \cup {Source} /\ \A y \in Docs \cup {Source} : jobs'[y] \in Nat
        /\ \A d \in Docs : db[d].state = "absent" => jobs'[d] = 0
    BY <1>1, <1>4 DEF DocsFit
  <2> QED BY <1>2, <2>1, EndKeeps
<1>5. CASE req[p].kind \in {"ingest", "ingestFailed"}
  <2>1. Doc(p) \in Docs /\ db[Doc(p)].state # "absent"
    BY <1>1, <1>5 DEF SoundReq, HasDoc, Doc, Fit, FitRows, Knows
  <2> QED BY <1>3, <1>4, <1>5, <2>1 DEF Crash, CrawlKinds, ConsoleKinds
<1>6. CASE req[p].kind \notin {"ingest", "ingestFailed"}
  BY <1>1, <1>3, <1>4, <1>6 DEF Crash, CrawlKinds, ConsoleKinds, WorkerKinds
<1> QED BY <1>5, <1>6

LEMMA CallKeeps ==
    ASSUME KInv, IInv, Crosses, NEW p \in Requests, Call(p), ~Commit(p)
    PROVE  Keeping(p)
<1>1. CASE TakeJob(p) \/ ReadKB(p) \/ ReadDoc(p) \/ ReadSource(p) \/ Authorize(p)
  BY <1>1, TakeJobKeeps, GateKeeps, ReadDocKeeps, ReadSourceKeeps
<1>2. CASE Load(p) \/ ReadAll(p) \/ CheckAtRest(p) \/ Get(p) \/ LookUp(p)
  BY <1>2, LoadKeeps, ReadAllKeeps, CheckAtRestKeeps, GetKeeps, LookUpKeeps
<1>3. CASE SaveDoc(p) \/ SaveDeleted(p) \/ SaveOther(p)
  BY <1>3, SaveDocKeeps, SaveDeletedKeeps, SaveOtherKeeps
<1>4. CASE DeletePassages(p) \/ DeleteWaits(p) \/ InsertPassages(p)
  BY <1>4, DeletePassagesKeeps, DeleteWaitsKeeps, InsertPassagesKeeps
<1>5. CASE DropVectors(p) \/ Upsert(p) \/ PutPage(p) \/ DeleteObject(p)
  BY <1>5, PointsKeeps, ObjectsKeeps
<1>6. CASE Embed(p) \/ PutNew(p) \/ Enqueue(p) \/ NextPage(p)
  BY <1>6, EmbedKeeps, PutNewKeeps, EnqueueKeeps, NextPageKeeps
<1>7. CASE DeadlockVictim(p)
  BY <1>7, RaiseKeeps DEF DeadlockVictim
<1> QED BY <1>1, <1>2, <1>3, <1>4, <1>5, <1>6, <1>7 DEF Call

(* Nothing of the documents moves. *)
LEMMA StillKInv ==
    ASSUME KInv, UNCHANGED <<dbVars, req, vectors, objects, jobs, begun>>,
           crossed \subseteq crossed'
    PROVE  KInv'
<1>1. Grows /\ db' = db /\ draft' = draft
  BY DEF Grows, dbVars
<1>2. ASSUME NEW q \in Requests
      PROVE  Fit(q)'
  <2>1. FitDraft(q)'
    BY <1>1, LastsBefore DEF KInv, Fit, FitDraft, Empty, Wrote, Doc
  <2>2. FitRows(q)'
    BY <1>1 DEF KInv, Fit, FitRows, Knows, Copy, Doc
  <2>3. FitStores(q)'
    BY <1>1 DEF KInv, Fit, FitStores, Cleared, AtRow, Seen, Wrote, Doc, Grows
  <2>4. FitKinds(q)'
    BY <1>1 DEF KInv, Fit, FitKinds, Wrote, Deletion
  <2> QED BY <2>1, <2>2, <2>3, <2>4 DEF Fit
<1>3. DocsFit'
  BY <1>1 DEF KInv, DocsFit, Alone, AtWorkOn, Doc, Wrote, Deletion, Grows
<1>4. OneWriter'
  BY <1>1 DEF KInv, OneWriter, Wrote
<1> QED BY <1>2, <1>3, <1>4 DEF KInv

-----------------------------------------------------------------------------
(* A commit: the draft becomes rows, and nobody else held them.             *)

(* The end of a transaction, and where its request goes on. *)
LEMMA CommitEnds ==
    ASSUME IInv, NEW p \in Requests, Commit(p)
    PROVE  /\ DOMAIN req' = Requests /\ DOMAIN draft' = Requests /\ draft'[p] = NoRows
           /\ \A q \in Requests \ {p} : req'[q] = req[q] /\ draft'[q] = draft[q]
           /\ \A d \in Docs : db'[d] = Seen(p, d) /\ db'[Passages(d)] = Seen(p, Passages(d))
           /\ UNCHANGED <<vectors, objects, jobs, authorized, begun, failures>>
           /\ Place(req[p], "commit")
           /\ \/ /\ req[p].kind \in {"upload", "retry", "resync", "create"}
                 /\ Stepped(req'[p], req[p])
              \/ /\ req[p].kind \in {"crawl", "page", "blankPage"}
                 /\ Restarted(req'[p], req[p], "turn")
              \/ /\ req[p].kind \in {"dropKB", "ingestFailed", "crawlFailed", "finish", "delete",
                                     "ingest"}
                 /\ req'[p] = Idle
<1>1. /\ DOMAIN req = Requests /\ DOMAIN draft = Requests /\ SoundReq(req[p])
      /\ At(p, "commit") /\ DOMAIN req[p] = Fields
  BY DEF IInv, Sound, SoundReq, Commit
<1>2. Place(req[p], "commit")
  BY <1>1, Places
<1>3. /\ DOMAIN req' = Requests /\ DOMAIN draft' = Requests /\ draft'[p] = NoRows
      /\ \A q \in Requests \ {p} : req'[q] = req[q] /\ draft'[q] = draft[q]
      /\ UNCHANGED <<vectors, objects, jobs, authorized, begun, failures>>
  BY <1>1 DEF Commit, CommitRows, Advance, Turn, Finish, storeVars, envVars
<1>4. \A d \in Docs : db'[d] = Seen(p, d) /\ db'[Passages(d)] = Seen(p, Passages(d))
  <2>1. Docs \subseteq Rows /\ {Passages(d) : d \in Docs} \subseteq Rows
    BY IngestionAssumption
  <2> QED BY <2>1 DEF Commit, CommitRows
<1>5. IsLast(p) <=> req[p].kind \notin {"upload", "retry", "resync", "create"}
  <2>1. /\ Len(UploadDocument) = 5 /\ Len(RetryDocumentIngestion) = 5
        /\ Len(ResyncDataSource) = 5 /\ Len(CreateDataSource) = 4
        /\ Len(DropKnowledgeBase) = 2 /\ Len(MarkFailed) = 2 /\ Len(BlankPage) = 2
        /\ Len(CrawlFailed) = 2 /\ Len(Claim) = 3 /\ Len(FinishCrawl) = 3
        /\ Len(DeleteDocument) = 7 /\ Len(ProcessDocumentUpload) = 10 /\ Len(IndexOnePage) = 11
    BY DEF UploadDocument, RetryDocumentIngestion, ResyncDataSource, CreateDataSource,
           DropKnowledgeBase, MarkFailed, BlankPage, CrawlFailed, Claim, FinishCrawl,
           DeleteDocument, ProcessDocumentUpload, IndexOnePage
  <2>2. CASE req[p].kind \in {"upload", "retry", "resync", "create"}
    <3>1. /\ req[p].kind = "create" => req[p].step = 3
          /\ req[p].kind \in {"upload", "retry", "resync"} => req[p].step = 4
      BY <1>2, <2>2 DEF Place
    <3>2. /\ req[p].kind = "create" => Len(Script[req[p].kind]) = 4
          /\ req[p].kind \in {"upload", "retry", "resync"} => Len(Script[req[p].kind]) = 5
      BY <2>1, Scripts
    <3>3. req[p].step # Len(Script[req[p].kind])
      BY <2>2, <3>1, <3>2
    <3> QED BY <2>2, <3>3 DEF IsLast
  <2>3. CASE req[p].kind \notin {"upload", "retry", "resync", "create"}
    <3>1. req[p].step = Len(Script[req[p].kind])
      BY <1>2, <2>1, <2>3, Scripts DEF Place
    <3> QED BY <2>3, <3>1 DEF IsLast
  <2> QED BY <2>2, <2>3
<1>6. CASE req[p].kind \in {"upload", "retry", "resync", "create"}
  <2>1. req'[p] = [req[p] EXCEPT !.step = @ + 1]
    BY <1>1, <1>5, <1>6 DEF Commit, Advance
  <2>2. Stepped(req'[p], req[p])
    BY <1>1, <2>1 DEF Stepped, Fields
  <2> QED BY <1>2, <1>3, <1>4, <1>6, <2>2
<1>7. CASE req[p].kind \in {"crawl", "page", "blankPage"}
  <2>1. Turn(p, "turn")
    BY <1>5, <1>7 DEF Commit
  <2>2. Restarted(req'[p], req[p], "turn")
    BY <2>1, TurnMoves
  <2> QED BY <1>2, <1>3, <1>4, <1>7, <2>2
<1>8. CASE req[p].kind \notin {"upload", "retry", "resync", "create", "crawl", "page", "blankPage"}
  <2>1. req[p].kind \in {"dropKB", "ingestFailed", "crawlFailed", "finish", "delete", "ingest"}
    BY <1>2, <1>8 DEF Place
  <2>2. req'[p] = Idle
    BY <1>1, <1>5, <1>8 DEF Commit, Finish
  <2> QED BY <1>2, <1>3, <1>4, <2>1, <2>2
<1> QED BY <1>6, <1>7, <1>8

LEMMA CommitKInv ==
    ASSUME KInv, IInv, Crosses, NEW p \in Requests, Commit(p)
    PROVE  KInv'
<1>1. /\ DOMAIN req' = Requests /\ DOMAIN draft' = Requests /\ draft'[p] = NoRows
      /\ \A q \in Requests \ {p} : req'[q] = req[q] /\ draft'[q] = draft[q]
      /\ \A d \in Docs : db'[d] = Seen(p, d)
      /\ UNCHANGED <<vectors, objects, jobs, begun>>
      /\ Place(req[p], "commit")
  BY CommitEnds
<1>2. \/ req[p].kind \in {"upload", "retry", "resync", "create"} /\ Stepped(req'[p], req[p])
      \/ req[p].kind \in {"crawl", "page", "blankPage"} /\ Restarted(req'[p], req[p], "turn")
      \/ req'[p] = Idle
  BY CommitEnds
<1>3. /\ Fit(p) /\ DocsFit /\ OneWriter /\ Grows /\ None \notin Docs
      /\ \A q \in Requests : Fit(q) /\ SoundReq(req[q])
  BY <1>1, IngestionAssumption DEF KInv, Grows, Crosses, IInv, Sound
<1>4. /\ Wrote(p)' = {} /\ \A q \in Requests \ {p} : Wrote(q)' = Wrote(q)
      /\ \A d \in Docs : AtWorkOn(p, d)' => AtWorkOn(p, d)
      /\ \A q \in Requests \ {p}, d \in Docs : AtWorkOn(q, d)' <=> AtWorkOn(q, d)
  BY <1>1, <1>2, <1>3 DEF Wrote, NoRows, AtWorkOn, Doc, Stepped, Restarted, Idle
<1>5. ASSUME NEW d \in Docs
      PROVE  /\ d \in Wrote(p) => db'[d] = draft[p][d] /\ draft[p][d].state \in {"live", "deleted"}
             /\ d \notin Wrote(p) => db'[d] = db[d]
  BY <1>1, <1>3 DEF Seen, Fit, FitDraft
<1>6. OneWriter'
  BY <1>3, <1>4 DEF OneWriter
<1>7. \A d \in Docs \ crossed' : d \in Docs \ crossed /\ Alone(d)'
  BY <1>1, <1>3, AloneNext DEF Crosses, Grows
<1>8. DocsFit'
  <2>1. \A d \in Docs : db'[d].state = "absent" => jobs'[d] = 0 /\ Alone(d)'
    BY <1>1, <1>3, <1>4, <1>5 DEF DocsFit, Alone
  <2>2. \A d \in Docs : db'[d].state \in {"absent", "live", "deleted"}
    BY <1>3, <1>5 DEF DocsFit
  <2>3. \A d \in Docs : db'[d].state = "deleted" => Deletion'
    BY <1>1, <1>3, <1>5 DEF DocsFit, Deletion, Fit, FitKinds
  <2>4. \A d \in Docs \ crossed' : db'[d].state = "deleted" => vectors'[d] = {}
    BY <1>1, <1>3, <1>5, <1>7 DEF DocsFit, Fit, FitStores, Cleared
  <2> QED BY <1>1, <1>3, <1>7, <2>1, <2>2, <2>3, <2>4 DEF DocsFit
<1>9. ASSUME NEW q \in Requests \ {p}
      PROVE  Fit(q)'
  <2>1. req'[q] = req[q] /\ draft'[q] = draft[q] /\ Doc(q)' = Doc(q) /\ Wrote(q)' = Wrote(q)
    BY <1>1 DEF Doc, Wrote
  <2>2. \A d \in Docs \cap Wrote(q) : db'[d] = db[d]
    BY <1>3, <1>5 DEF OneWriter
  <2>3. ASSUME NEW d \in Docs, Alone(d), AtWorkOn(q, d)
        PROVE  db'[d] = db[d]
    <3>1. d \notin Wrote(p)
      BY <2>3 DEF Alone, AtWorkOn
    <3> QED BY <1>5, <3>1
  <2>4. FitDraft(q)'
    BY <1>3, <2>1, <2>2, LastsBefore DEF Fit, FitDraft, Empty
  <2>5. FitRows(q)'
    <3>1. \A d \in Docs : db[d].state # "absent" => db'[d].state # "absent"
      BY <1>5
    <3>2. CASE req[q].kind = "upload" /\ req[q].step \in 3..4
      <4>1. Doc(q) \in Docs /\ AtWorkOn(q, Doc(q)) /\ db[Doc(q)].state = "absent"
        BY <1>3, <3>2 DEF SoundReq, HasDoc, Doc, AtWorkOn, Fit, FitRows
      <4>2. db'[Doc(q)] = db[Doc(q)]
        BY <1>3, <2>3, <4>1 DEF DocsFit
      <4> QED BY <1>1, <1>3, <2>1, <3>1, <4>1, <4>2 DEF Fit, FitRows, Knows, Copy
    <3>3. CASE ~(req[q].kind = "upload" /\ req[q].step \in 3..4)
      BY <1>1, <1>3, <2>1, <3>1, <3>3 DEF Fit, FitRows, Knows, Copy
    <3> QED BY <3>2, <3>3
  <2>6. FitStores(q)'
    <3> SUFFICES ASSUME NEW d \in Docs \ crossed'
                 PROVE  (/\ Cleared(q, d) => vectors[d] = {}
                         /\ d = Doc(q) /\ AtRow(q)
                              => db[d].state # "deleted" /\ Seen(q, d).state # "deleted")'
      BY DEF FitStores
    <3>1. d \in Docs \ crossed /\ Alone(d)
      BY <1>3, <1>7 DEF DocsFit
    <3>2. Cleared(q, d)' => Cleared(q, d)
      BY <2>1 DEF Cleared
    <3>3. CASE d = Doc(q)
      <4>1. db'[d] = db[d]
        BY <2>3, <3>1, <3>3 DEF AtWorkOn
      <4> QED BY <1>1, <1>3, <2>1, <3>1, <3>2, <4>1 DEF Fit, FitStores, Seen, AtRow
    <3>4. CASE d # Doc(q)
      BY <1>1, <1>3, <2>1, <3>1, <3>2, <3>4 DEF Fit, FitStores
    <3> QED BY <3>3, <3>4
  <2>7. FitKinds(q)'
    BY <1>1, <1>3, <2>1 DEF Fit, FitKinds, Deletion
  <2> QED BY <2>4, <2>5, <2>6, <2>7 DEF Fit
<1>10. Fit(p)'
  <2>1. \/ /\ req[p].kind = "upload" /\ req[p].step = 4 /\ req'[p].kind = "upload"
           /\ req'[p].step = 5 /\ req'[p].doc = req[p].doc /\ req'[p].todo = req[p].todo
        \/ /\ req[p].kind = "retry" /\ req[p].step = 4 /\ req'[p].kind = "retry"
           /\ req'[p].step = 5 /\ req'[p].doc = req[p].doc /\ req'[p].todo = req[p].todo
           /\ req'[p].read = req[p].read
        \/ req'[p].kind \in {"resync", "create", "turn"} /\ req'[p].todo = req[p].todo
        \/ req'[p].kind = "idle" /\ req'[p].todo = {}
    BY <1>1, <1>2 DEF Place, Stepped, Restarted, Idle
  <2>2. FitDraft(p)'
    BY <1>4, <2>1 DEF FitDraft
  <2>3. FitRows(p)'
    <3>1. \A d \in Docs : db[d].state # "absent" => db'[d].state # "absent"
      BY <1>5
    <3>2. req[p].kind = "upload" /\ req[p].step = 4 => Doc(p) \in Wrote(p)
      BY <1>3 DEF Fit, FitDraft
    <3>3. \A d \in Docs : Knows(p, d)' =>
            Knows(p, d) \/ (d = Doc(p) /\ req[p].kind = "upload" /\ req[p].step = 4)
      BY <2>1 DEF Knows, Doc
    <3>4. \A d \in Docs : Knows(p, d)' => db'[d].state # "absent"
      BY <1>3, <1>5, <3>1, <3>2, <3>3 DEF Fit, FitRows
    <3> QED BY <1>1, <1>3, <2>1, <3>4 DEF Fit, FitRows, Copy, Doc
  <2>4. FitStores(p)'
    BY <1>1, <1>3, <1>4, <2>1 DEF Fit, FitStores, Cleared, AtRow, Seen, Grows, Doc
  <2>5. FitKinds(p)'
    BY <1>4, <2>1 DEF FitKinds
  <2> QED BY <2>2, <2>3, <2>4, <2>5 DEF Fit
<1> QED BY <1>6, <1>8, <1>9, <1>10 DEF KInv

LEMMA Starts ==
    ASSUME Init
    PROVE  /\ AnyOf(Docs) \in Docs
           /\ \A p \in Requests : req[p] = Idle /\ draft[p] = NoRows
           /\ \E url \in Urls \cup {None} :
                 /\ \A d \in Docs : db[d] = IF d = AnyOf(Docs)
                                            THEN [NewDoc(url) EXCEPT !.status = "ready"]
                                            ELSE NoDoc
                 /\ \A d \in Docs : db[Passages(d)] = [run |-> IF d = AnyOf(Docs) THEN 1 ELSE 0]
<1> DEFINE first == AnyOf(Docs)
<1>1. PICK url \in Urls \cup {None} : DbInit([r \in Rows |->
                   CASE r = KB     -> [deleted |-> FALSE]
                     [] r = Source -> [status |-> IF url = None THEN "absent" ELSE "ready"]
                     [] r = first  -> [NewDoc(url) EXCEPT !.status = "ready"]
                     [] r \in Docs \ {first} -> NoDoc
                     [] OTHER -> [run |-> IF r = Passages(first) THEN 1 ELSE 0]])
  BY DEF Init
<1>2. first \in Docs
  BY IngestionAssumption DEF AnyOf
<1> HIDE DEF first
<1>3. \A p \in Requests : req[p] = Idle /\ draft[p] = NoRows
  BY <1>1 DEF Init, DbInit
<1>4. ASSUME NEW d \in Docs
      PROVE  /\ db[d] = IF d = first THEN [NewDoc(url) EXCEPT !.status = "ready"] ELSE NoDoc
             /\ db[Passages(d)] = [run |-> IF d = first THEN 1 ELSE 0]
  <2>1. /\ d \in Rows /\ d # KB /\ d # Source /\ Passages(d) \in Rows
        /\ Passages(d) \notin Docs /\ Passages(d) # KB /\ Passages(d) # Source
        /\ Passages(d) = Passages(first) <=> d = first
    BY <1>2, RowsApart, IngestionAssumption
  <2>2. db[Passages(d)] = [run |-> IF Passages(d) = Passages(first) THEN 1 ELSE 0]
    BY <1>1, <1>2, <2>1 DEF DbInit
  <2>3. db[d] = IF d = first THEN [NewDoc(url) EXCEPT !.status = "ready"] ELSE NoDoc
    BY <1>1, <2>1 DEF DbInit
  <2> QED BY <2>1, <2>2, <2>3
<1> QED BY <1>2, <1>3, <1>4 DEF first

LEMMA InitKInv == Init => KInv
<1> SUFFICES ASSUME Init PROVE KInv
  OBVIOUS
<1>1. /\ \A p \in Requests : req[p] = Idle /\ draft[p] = NoRows
      /\ \A d \in Docs : db[d].state \in {"absent", "live"}
  <2>1. \A url : /\ [NewDoc(url) EXCEPT !.status = "ready"].state = "live"
                 /\ NoDoc.state = "absent"
    BY DEF NewDoc, NoDoc
  <2> QED BY <2>1, Starts
<1>2. None \notin Docs
  BY IngestionAssumption
<1>3. \A p \in Requests : Wrote(p) = {} /\ \A d \in Docs : ~AtWorkOn(p, d)
  BY <1>1, <1>2 DEF Wrote, NoRows, AtWorkOn, Doc, Idle
<1>4. DocsFit
  BY <1>1, <1>3 DEF Init, DocsFit, Alone
<1>5. \A p \in Requests : Fit(p)
  BY <1>1, <1>3 DEF Fit, FitDraft, FitRows, FitStores, FitKinds, Empty, Knows, Cleared, AtRow,
                    Idle
<1> QED BY <1>3, <1>4, <1>5 DEF KInv, OneWriter

LEMMA NextKInv == KInv /\ IInv /\ [Next]_vars => KInv'
<1> SUFFICES ASSUME KInv, IInv, [Next]_vars PROVE KInv'
  OBVIOUS
<1>1. Next => Crosses
  BY DEF Next, Crosses
<1>2. ASSUME NEW p \in Requests, Crosses, Keeping(p), begun.kinds \subseteq begun'.kinds
      PROVE  KInv'
  BY <1>2, KeptDocs DEF Grows, Crosses
<1>3. ASSUME NEW p \in Requests, Crosses, Arrive(p)
      PROVE  KInv'
  <2>1. begun.kinds \subseteq begun'.kinds
    BY <1>3, ArriveMoves DEF OneMore
  <2> QED BY <1>2, <1>3, <2>1, ArriveKeeps
<1>4. ASSUME NEW p \in Requests, Crosses, Call(p) \/ CallFails(p) \/ Crash(p)
      PROVE  KInv'
  <2>1. begun' = begun
    BY <1>4 DEF Call, CallFails, Crash, TakeJob, ReadKB, ReadDoc, ReadSource, ReadAll,
         CheckAtRest, Authorize, Load, Get, LookUp, SaveDoc, SaveRetried, InsertLive, SaveDeleted, SaveOther, Write,
         DeletePassages, DeleteWaits, InsertPassages, DropVectors, Embed, Upsert, PutNew, PutPage,
         DeleteObject, Enqueue, Commit, NextPage, DeadlockVictim, Raise, Refuse, Go, Keep, envVars
  <2> QED BY <1>2, <1>4, <2>1, CallKeeps, CommitKInv, CallFailsKeeps, CrashKeeps
<1>5. CASE Next /\ Revoke
  <2>1. UNCHANGED <<dbVars, req, vectors, objects, jobs, begun>>
    BY <1>5 DEF Revoke, storeVars
  <2>2. crossed \subseteq crossed'
    BY <1>1, <1>5 DEF Crosses
  <2> QED BY <2>1, <2>2, StillKInv
<1>6. CASE UNCHANGED vars
  <2>1. UNCHANGED <<dbVars, req, vectors, objects, jobs, begun>> /\ crossed \subseteq crossed'
    BY <1>6 DEF vars, stateVars, dbVars
  <2> QED BY <2>1, StillKInv
<1> QED BY <1>1, <1>3, <1>4, <1>5, <1>6 DEF Next

(* Once a deletion has committed and nobody is at work on the document, no  *)
(* point of it is left to answer a search (purge_document deletes the points*)
(* before the row), for any number of requests, faults and crashes.         *)
THEOREM DeletedDocumentsDoNotAnswer == Spec => []DeletedDoesNotAnswer
<1>1. KInv => DeletedDoesNotAnswer
  BY DEF KInv, DocsFit, DeletedDoesNotAnswer
<1> QED BY <1>1, InitSound, NextSound, InitKInv, NextKInv, PTL DEF Spec

(* A deletion is for good: SqlDocumentRepository.save brings a row back only*)
(* for a retry that had read it before the deletion committed.              *)
THEOREM DeletionsLast == Spec => DeletedStaysDeleted
<1> DEFINE Last == \A d \in Docs :
              db[d].state = "deleted" /\ Lasts(d) => db'[d].state = "deleted"
<1>1. KInv /\ IInv /\ [Next]_vars => [Last]_db
  <2> SUFFICES ASSUME KInv, IInv, [Next]_vars, db' # db
               PROVE  Last
    OBVIOUS
  <2>1. PICK p \in Requests : Commit(p)
    <3>1. ASSUME NEW p \in Requests, Arrive(p) \/ CallFails(p) \/ Crash(p)
          PROVE  FALSE
      BY <3>1, ArriveSound, CallFailsSound, CrashSound DEF MovesSoundly, OnlyMoves
    <3>2. ASSUME NEW p \in Requests, Call(p), ~Commit(p)
          PROVE  FALSE
      BY <3>2, CallSound DEF MovesSoundly, OnlyMoves
    <3> QED BY <3>1, <3>2 DEF Next, Revoke, vars, stateVars, dbVars
  <2>2. \A d \in Docs : db'[d] = Seen(p, d)
    BY <2>1, CommitEnds
  <2>3. FitDraft(p)
    BY DEF KInv, Fit
  <2> QED BY <2>2, <2>3 DEF Seen, FitDraft
<1>2. Spec => [](KInv /\ IInv)
  BY InitSound, NextSound, InitKInv, NextKInv, PTL DEF Spec
<1> QED BY <1>1, <1>2, PTL DEF Spec, DeletedStaysDeleted

-----------------------------------------------------------------------------
(* What runs that were not overlapped find, and what is still to come.      *)
(* RInv: a document with text in it that is not ready has a job queued, or  *)
(* somebody who will queue one or end it; of a document that was never      *)
(* crossed, a run finds the bytes it read and no passages but its own.      *)
(* Upholding is what each move does for RInv, a commit apart.               *)

(* What keeps RInv when p makes a move other than a commit.                 *)
Carries(p) ==
    \A d \in Docs \ crossed' : Wanted(d)' =>
        \/ StillToCome(d)'
        \/ Wanted(d) /\ ~Promises(p, d) /\ (jobs'[d] = jobs[d])

Tells ==
    /\ "kinds" \in DOMAIN failures'
    /\ failures.kinds \subseteq failures'.kinds
    /\ authorized' \/ "revoked" \in failures'.kinds

Upholding(p) ==
    /\ OnlyMoves(p) /\ Own(p)' /\ Carries(p) /\ Tells
    /\ \A d \in Docs : objects'[d] = objects[d] \/ AtWorkOn(p, d)'

LEMMA FinishedBefore ==
    ASSUME Tells, NEW d, RunsWereFinished(d)', db'[d].url = db[d].url
    PROVE  RunsWereFinished(d)
BY DEF Tells, RunsWereFinished, OnlyFailed, FromPage

LEMMA OthersOwn ==
    ASSUME RInv, KInv', NEW p \in Requests, Upholding(p), Grows, NEW q \in Requests \ {p}
    PROVE  Own(q)'
<1>1. req'[q] = req[q] /\ draft'[q] = draft[q] /\ db' = db /\ Own(q) /\ Tells
  BY DEF Upholding, OnlyMoves, RInv
<1>2. Wrote(q)' = Wrote(q) /\ Doc(q)' = Doc(q)
  BY <1>1 DEF Wrote, Doc
<1>3. OwnDraft(q)'
  BY <1>1, <1>2 DEF Own, OwnDraft, Deleter, Past, Within
<1>4. OwnUrl(q)'
  BY <1>1, <1>2 DEF Own, OwnUrl, Past, Copy
<1>5. Undisturbed(q)'
  <2> SUFFICES ASSUME NEW d \in Docs \ crossed', d = Doc(q) PROVE Undisturbed(q)'
    BY <1>2 DEF Undisturbed
  <2>1. Alone(d)' /\ d \in Docs \ crossed
    BY DEF KInv, DocsFit, Grows
  <2>2. ~AtWorkOn(p, d)'
    BY <1>2, <2>1 DEF Alone, AtWorkOn
  <2>3. objects'[d] = objects[d]
    BY <2>1, <2>2 DEF Upholding
  <2>4. RunsWereFinished(d)' => RunsWereFinished(d)
    BY <1>1, FinishedBefore
  <2>5. \A r : Seen(q, r)' = Seen(q, r)
    BY <1>1, <1>2 DEF Seen
  <2>6. Undisturbed(q)
    BY <1>1 DEF Own
  <2> QED BY <1>1, <1>2, <2>1, <2>3, <2>4, <2>5, <2>6 DEF Undisturbed, Past, Within
<1>6. NeverWaited(q)'
  BY <1>1 DEF Own, NeverWaited, Grows
<1> QED BY <1>3, <1>4, <1>5, <1>6 DEF Own

LEMMA UpheldDocs ==
    ASSUME RInv, KInv', NEW p \in Requests, Upholding(p), Grows
    PROVE  RInv'
<1>1. db' = db /\ \A q \in Requests \ {p} : req'[q] = req[q]
  BY DEF Upholding, OnlyMoves
<1>2. ASSUME NEW d \in Docs \ crossed', Wanted(d)'
      PROVE  db'[d].status = "ready" \/ StillToCome(d)'
  <2>1. d \in Docs \ crossed
    BY DEF Grows
  <2>2. CASE ~StillToCome(d)'
    <3>1. Wanted(d) /\ ~Promises(p, d) /\ jobs'[d] = jobs[d]
      BY <1>2, <2>2 DEF Upholding, Carries
    <3>2. db[d].status = "ready" \/ StillToCome(d)
      BY <2>1, <3>1 DEF RInv, RDocs
    <3>3. \A q \in Requests : Promises(q, d) => Promises(q, d)'
      BY <1>1, <3>1 DEF Promises, Doc
    <3> QED BY <1>1, <3>1, <3>2, <3>3 DEF StillToCome
  <2> QED BY <2>2
<1>3. RDocs'
  BY <1>2 DEF RDocs, Upholding, Tells
<1>4. \A q \in Requests : Own(q)'
  BY OthersOwn DEF Upholding
<1> QED BY <1>3, <1>4 DEF RInv

-----------------------------------------------------------------------------
(* A call after which all that was to come is still to come. *)
LEMMA StillUpholds ==
    ASSUME RInv, NEW p \in Requests, OnlyMoves(p), Own(p)',
           UNCHANGED <<jobs, authorized, failures>>,
           \A d \in Docs : objects'[d] = objects[d]
                           \/ (AtWorkOn(p, d)' /\ (objects'[d] = "text" /\ db[d].state = "live"
                                                     => Promises(p, d)')),
           \A d \in Docs : Promises(p, d) => Promises(p, d)'
    PROVE  Upholding(p)
<1>1. db' = db /\ Tells
  BY DEF OnlyMoves, Tells, RInv, RDocs
<1>2. Carries(p)
  <2> SUFFICES ASSUME NEW d \in Docs \ crossed', Wanted(d)', ~StillToCome(d)'
               PROVE  Wanted(d) /\ ~Promises(p, d) /\ jobs'[d] = jobs[d]
    BY DEF Carries
  <2>1. ~Promises(p, d)'
    BY DEF StillToCome
  <2>2. objects'[d] = objects[d]
    BY <1>1, <2>1 DEF Wanted
  <2>3. RunsWereFinished(d)
    BY <1>1, FinishedBefore DEF Wanted
  <2> QED BY <1>1, <2>1, <2>2, <2>3 DEF Wanted
<1> QED BY <1>1, <1>2 DEF Upholding

(* The rows of documents and passages are as they were in p's draft. *)
SameDraft(p) ==
    \A d \in Docs : \A r \in {d, Passages(d)} :
        /\ r \in Wrote(p)' <=> r \in Wrote(p)
        /\ r \in Wrote(p) => draft'[p][r] = draft[p][r]

LEMMA OwnGoesOn ==
    ASSUME KInv, IInv, RInv, Grows, NEW p \in Requests, NEW call, At(p, call),
           call \notin {"commit", "readDoc", "get", "lookUp", "putPage", "deletePassages",
                        "insertPassages", "insertDoc", "saveRetried", "saveReady", "saveFailed",
                        "savePage", "saveDeleted", "readAll", "checkAtRest"},
           OnlyMoves(p), SameDraft(p), Stepped(req'[p], req[p]), Tells,
           \A d \in Docs : objects'[d] = objects[d] \/ req[p].kind \in {"delete", "purge"}
    PROVE  Own(p)'
<1>1. /\ CallOf(req[p], call) /\ SoundReq(req[p]) /\ Own(p) /\ db' = db
      /\ \A d \in Docs \cap Wrote(p) : draft[p][d].state \in {"live", "deleted"}
  BY Places DEF IInv, Sound, RInv, OnlyMoves, KInv, Fit, FitDraft
<1>2. /\ Doc(p)' = Doc(p) /\ req'[p].kind = req[p].kind /\ req'[p].step = req[p].step + 1
      /\ req'[p].run = req[p].run /\ req'[p].url = req[p].url
      /\ req'[p].content = req[p].content /\ req'[p].read = req[p].read
      /\ req'[p].todo = req[p].todo
  BY DEF Stepped, Doc
<1>3. \A d \in Docs : Seen(p, d)' = Seen(p, d) /\ Seen(p, Passages(d))' = Seen(p, Passages(d))
  BY <1>1 DEF Seen, SameDraft
<1>4. /\ Past(p, "ingest", 10)' => Past(p, "ingest", 10)
      /\ Past(p, "page", 11)' => Past(p, "page", 11)
      /\ Past(p, "ingest", 8)' => Past(p, "ingest", 8)
      /\ Past(p, "page", 9)' => Past(p, "page", 9)
      /\ Past(p, "page", 3)' => Past(p, "page", 3)
      /\ Past(p, "page", 4)' => Past(p, "page", 4)
      /\ Past(p, "page", 5)' => Past(p, "page", 5)
      /\ Past(p, "ingest", 4)' => Past(p, "ingest", 4)
      /\ Within(p, "ingest", 5, 7)' => Within(p, "ingest", 5, 7)
      /\ Within(p, "page", 6, 8)' => Within(p, "page", 6, 8)
      /\ Within(p, "ingest", 1, 7)' => Within(p, "ingest", 1, 7)
      /\ req[p].kind \in {"retry", "delete"} /\ req'[p].step >= 3 => req[p].step >= 3
  BY <1>1, <1>2 DEF Past, Within, CallOf, SoundReq
<1>5. /\ HasDoc(req[p]) => Doc(p) \in Docs
      /\ Past(p, "ingest", 8) \/ Past(p, "page", 9) \/ Past(p, "page", 4)
         \/ Past(p, "ingest", 10) \/ Past(p, "page", 11) \/ Within(p, "ingest", 1, 7)
         \/ req[p].kind = "blankPage" => HasDoc(req[p])
  BY <1>1 DEF SoundReq, Doc, HasDoc, Past, Within
<1>6. OwnDraft(p)'
  <2>1. OwnDraft(p)
    BY <1>1 DEF Own
  <2>2. ASSUME NEW d \in Docs \cap Wrote(p)'
        PROVE  \/ d = Doc(p)' /\ req'[p].kind \in {"upload", "retry", "ingest", "ingestFailed",
                                                   "page", "blankPage"}
               \/ Deleter(p)' /\ draft'[p][d].state = "deleted"
    <3>1. d \in Wrote(p) /\ draft'[p][d] = draft[p][d]
      BY DEF SameDraft
    <3> QED BY <1>2, <2>1, <3>1 DEF OwnDraft, Deleter
  <2>3. ASSUME NEW d \in Docs, Passages(d) \in Wrote(p)'
        PROVE  \/ d = Doc(p)' /\ req'[p].kind \in {"ingest", "page", "blankPage", "delete",
                                                   "purge"}
               \/ Deleter(p)' /\ d \in Wrote(p)'
    <3>1. Passages(d) \in Wrote(p) /\ (d \in Wrote(p) => d \in Wrote(p)')
      BY <2>3 DEF SameDraft
    <3> QED BY <1>2, <2>1, <3>1 DEF OwnDraft, Deleter
  <2>4. Past(p, "ingest", 10)' \/ Past(p, "page", 11)'
           => Doc(p)' \in Wrote(p)' /\ draft'[p][Doc(p)'].status = "ready"
    BY <1>2, <1>4, <1>5, <2>1 DEF OwnDraft, SameDraft
  <2>5. Past(p, "ingest", 8)' \/ Past(p, "page", 9)'
           => draft'[p][Passages(Doc(p)')].run = req'[p].run
    <3>1. Past(p, "ingest", 8) \/ Past(p, "page", 9) => Inserted(req[p])
      BY DEF Past, Inserted
    <3>2. Past(p, "ingest", 8) \/ Past(p, "page", 9)
             => Doc(p) \in Docs /\ Passages(Doc(p)) \in Wrote(p)
      BY <1>5, <3>1 DEF IInv, Sound, SoundDraft, Wrote, Doc
    <3> QED BY <1>2, <1>4, <2>1, <3>2 DEF OwnDraft, SameDraft
  <2>6. Within(p, "ingest", 1, 7)' /\ Passages(Doc(p)') \in Wrote(p)'
           => draft'[p][Passages(Doc(p)')].run = 0
    BY <1>2, <1>4, <1>5, <2>1 DEF OwnDraft, SameDraft
  <2> QED BY <2>2, <2>3, <2>4, <2>5, <2>6 DEF OwnDraft
<1>7. OwnUrl(p)'
  <2>1. \A d : Copy(p, d)' = Copy(p, d)
    BY <1>2 DEF Copy
  <2>2. Past(p, "page", 4) \/ req[p].kind = "blankPage" => Doc(p) \in Wrote(p)
    BY <1>1 DEF Past, KInv, Fit, FitDraft, IInv, Sound, SoundDraft, Paged, Wrote, Doc
  <2> QED BY <1>1, <1>2, <1>4, <1>5, <2>1, <2>2 DEF Own, OwnUrl, SameDraft
<1>8. Undisturbed(p)'
  <2> SUFFICES ASSUME Doc(p) \in Docs \ crossed'
               PROVE  Undisturbed(p)'
    BY <1>2 DEF Undisturbed
  <2>1. Doc(p) \in Docs \ crossed
    BY DEF Grows
  <2>2. RunsWereFinished(Doc(p))' => RunsWereFinished(Doc(p))
    BY <1>1, <1>2, FinishedBefore
  <2>3. CASE req[p].kind \in {"delete", "purge"}
    BY <1>2, <2>3 DEF Undisturbed, Past, Within
  <2>4. CASE objects'[Doc(p)] = objects[Doc(p)]
    BY <1>1, <1>2, <1>3, <1>4, <2>1, <2>2, <2>4 DEF Own, Undisturbed
  <2> QED BY <2>1, <2>3, <2>4
<1>9. NeverWaited(p)'
  BY <1>1, <1>2 DEF Own, NeverWaited, Grows
<1> QED BY <1>6, <1>7, <1>8, <1>9 DEF Own

-----------------------------------------------------------------------------
(* Ends of transactions, arrivals, gates and reads.                         *)

(* A transaction that is over without a commit. *)
LEMMA EndUpholds ==
    ASSUME KInv, IInv, RInv, Crosses, NEW p \in Requests,
           DropRows(p), Recover(p) \/ Finish(p), objects' = objects, Tells,
           \A d \in Docs : jobs'[d] = jobs[d] \/ jobs'[d] > 0,
           \A d \in Docs \ crossed' :
               Wanted(d)' /\ Promises(p, d) => jobs'[d] > 0 /\ req'[p] = Idle
    PROVE  Upholding(p)
<1>1. OnlyMoves(p) /\ draft'[p] = NoRows /\ Recovered(req'[p], req[p]) /\ db' = db
  BY DropMoves DEF OnlyMoves
<1>2. Wrote(p)' = {} /\ Own(p) /\ None \notin Docs /\ crossed \subseteq crossed'
  BY <1>1, IngestionAssumption DEF Wrote, NoRows, RInv, Crosses
<1>3. OwnDraft(p)'
  BY <1>1, <1>2 DEF OwnDraft, Past, Within, Recovered, Restarted, Idle
<1>4. OwnUrl(p)'
  BY <1>1, <1>2 DEF OwnUrl, Past, Recovered, Restarted, Idle
<1>5. Undisturbed(p)'
  <2> SUFFICES ASSUME NEW d \in Docs \ crossed', d = Doc(p)', req'[p].kind = "ingestFailed",
                      RunsWereFinished(d)'
               PROVE  Seen(p, d)'.state # "live" \/ objects'[d] # "text"
    BY <1>1 DEF Undisturbed, Past, Within, Recovered, Restarted, Idle
  <2>1. req[p].kind = "ingest" /\ Doc(p) = d /\ req'[p] # Idle
    BY <1>1 DEF Recovered, Restarted, Idle, Doc
  <2>2. ~Wanted(d)'
    BY <2>1 DEF Promises
  <2>3. Seen(p, d)' = db'[d]
    BY <1>2 DEF Seen
  <2> QED BY <2>2, <2>3 DEF Wanted
<1>6. NeverWaited(p)'
  BY <1>1, <1>2 DEF Own, NeverWaited, Recovered, Restarted, Idle, NoRows
<1>7. Carries(p)
  <2> SUFFICES ASSUME NEW d \in Docs \ crossed', Wanted(d)', ~StillToCome(d)'
               PROVE  Wanted(d) /\ ~Promises(p, d) /\ jobs'[d] = jobs[d]
    BY DEF Carries
  <2>1. jobs'[d] = jobs[d] /\ ~Promises(p, d)
    BY DEF StillToCome
  <2>2. RunsWereFinished(d)
    BY <1>1, FinishedBefore DEF Wanted
  <2> QED BY <1>1, <2>1, <2>2 DEF Wanted
<1> QED BY <1>1, <1>3, <1>4, <1>5, <1>6, <1>7 DEF Upholding, Own

LEMMA RaiseUpholds ==
    ASSUME KInv, IInv, RInv, Crosses, NEW p \in Requests, Raise(p) \/ Refuse(p), Tells,
           \A d \in Docs \ crossed' : Wanted(d)' => ~Promises(p, d)
    PROVE  Upholding(p)
BY EndUpholds DEF Raise, Refuse, storeVars

(* Only runs promise, and a retry or an upload once it has committed. *)
LEMMA NoPromise ==
    ASSUME IInv, NEW p \in Requests, NEW call, At(p, call),
           call \in {"readKB", "readDoc", "checkAtRest", "saveRetried", "savePage", "saveDeleted",
                     "deleteObject", "putNew", "saveFailed", "enqueueSource"}
    PROVE  \A d : ~Promises(p, d)
BY Places DEF IInv, Sound, Place, Promises

LEMMA ArriveUpholds ==
    ASSUME KInv, IInv, RInv, Crosses, NEW p \in Requests, Arrive(p)
    PROVE  Upholding(p)
<1>1. PICK kind \in {"upload", "deleteKB", "create", "resync", "retry", "delete"} :
                 /\ req'[p].kind = kind /\ req'[p].step = 1 /\ req'[p].read = NoRows
                 /\ req'[p].todo = {}
  BY ArriveMoves
<1>2. /\ OnlyMoves(p) /\ draft'[p] = draft[p] /\ db' = db /\ req[p].kind = "idle"
      /\ UNCHANGED <<objects, jobs, authorized, failures>>
  BY ArriveMoves DEF OnlyMoves
<1>3. Wrote(p)' = {}
  BY <1>2 DEF KInv, Fit, FitDraft, Empty, Wrote
<1>4. Own(p)'
  BY <1>1, <1>3 DEF Own, OwnDraft, OwnUrl, Undisturbed, NeverWaited, Past, Within, NoRows
<1>5. \A d \in Docs : Promises(p, d) => Promises(p, d)'
  BY <1>2 DEF Promises
<1> QED BY <1>2, <1>4, <1>5, StillUpholds

LEMMA TakeJobUpholds ==
    ASSUME KInv, IInv, RInv, Crosses, NEW p \in Requests, TakeJob(p)
    PROVE  Upholding(p)
<1>1. PICK x \in Docs \cup {Source} :
                 /\ jobs[x] > 0 /\ jobs' = [jobs EXCEPT ![x] = @ - 1]
                 /\ req'[p].step = 1 /\ req'[p].read = NoRows /\ req'[p].todo = {}
                 /\ \/ x = Source /\ req'[p].kind = "crawl" /\ req'[p].doc = None
                    \/ x \in Docs /\ req'[p].kind = "ingest" /\ req'[p].doc = x
  BY TakeJobMoves
<1>2. /\ OnlyMoves(p) /\ draft'[p] = draft[p] /\ db' = db /\ req[p].kind = "idle"
      /\ UNCHANGED <<objects, authorized, failures>>
  BY TakeJobMoves DEF OnlyMoves
<1>3. Wrote(p)' = {} /\ Tells
  BY <1>2 DEF KInv, Fit, FitDraft, Empty, Wrote, Tells, RInv, RDocs
<1>4. Own(p)'
  BY <1>1, <1>3 DEF Own, OwnDraft, OwnUrl, Undisturbed, NeverWaited, Past, Within, NoRows
<1>5. Carries(p)
  <2> SUFFICES ASSUME NEW d \in Docs \ crossed', Wanted(d)', ~StillToCome(d)'
               PROVE  Wanted(d) /\ ~Promises(p, d) /\ jobs'[d] = jobs[d]
    BY DEF Carries
  <2>1. d # x
    BY <1>1, <1>2, RowsApart DEF StillToCome, Promises, Doc
  <2>2. jobs'[d] = jobs[d]
    BY <1>1, <2>1 DEF KInv, DocsFit
  <2>3. RunsWereFinished(d)
    BY <1>2, <1>3, FinishedBefore DEF Wanted
  <2> QED BY <1>2, <2>2, <2>3 DEF Wanted, Promises
<1> QED BY <1>2, <1>3, <1>4, <1>5 DEF Upholding

-----------------------------------------------------------------------------
(* Reads. *)
LEMMA GoUpholds ==
    ASSUME KInv, IInv, RInv, Crosses, NEW p \in Requests, NEW call, At(p, call),
           call \notin {"commit", "readDoc", "get", "lookUp", "putPage", "deletePassages",
                        "insertPassages", "insertDoc", "saveRetried", "saveReady", "saveFailed",
                        "savePage", "saveDeleted", "readAll", "checkAtRest", "enqueueDoc", "enqueueSource"},
           Advance(p), UNCHANGED dbVars, UNCHANGED <<jobs, authorized, begun, failures>>,
           objects' = objects
    PROVE  Upholding(p)
<1>1. OnlyMoves(p) /\ draft'[p] = draft[p] /\ Stepped(req'[p], req[p])
  BY AdvanceMoves
<1>2. Grows /\ Tells /\ SameDraft(p)
  BY <1>1 DEF Grows, Crosses, Tells, SameDraft, Wrote, RInv, RDocs
<1>3. Own(p)'
  BY <1>1, <1>2, OwnGoesOn
<1>4. \A d \in Docs : Promises(p, d) => Promises(p, d)'
  BY <1>1 DEF Promises, Stepped, Doc, IInv, Sound, SoundReq
<1> QED BY <1>1, <1>3, <1>4, StillUpholds

LEMMA RTells ==
    ASSUME RInv, UNCHANGED <<authorized, failures>>
    PROVE  Tells
BY DEF Tells, RInv, RDocs

LEMMA GateUpholds ==
    ASSUME KInv, IInv, RInv, Crosses, NEW p \in Requests, ReadKB(p) \/ Authorize(p)
    PROVE  Upholding(p)
<1>1. CASE ReadKB(p)
  <2>1. CASE Go(p)
    BY <1>1, <2>1, GoUpholds DEF ReadKB, Go, dbVars, storeVars, envVars
  <2>2. CASE Refuse(p)
    <3>1. Tells /\ \A d : ~Promises(p, d)
      BY <1>1, <2>2, RTells, NoPromise DEF ReadKB, Refuse, envVars
    <3> QED BY <2>2, <3>1, RaiseUpholds
  <2> QED BY <1>1, <2>1, <2>2 DEF ReadKB
<1>2. CASE Authorize(p)
  <2>1. CASE Go(p)
    BY <1>2, <2>1, GoUpholds DEF Authorize, Go, dbVars, storeVars, envVars
  <2>2. CASE Refuse(p) /\ ~authorized
    <3>1. Tells /\ "revoked" \in failures'.kinds
      BY <2>2, RTells DEF Refuse, envVars, RInv, RDocs
    <3>2. \A d : ~RunsWereFinished(d)'
      BY <3>1 DEF RunsWereFinished, OnlyFailed
    <3> QED BY <2>2, <3>1, <3>2, RaiseUpholds DEF Wanted
  <2> QED BY <1>2, <2>1, <2>2 DEF Authorize
<1> QED BY <1>1, <1>2

LEMMA SeenUrl ==
    ASSUME KInv, RInv, NEW p \in Requests, NEW d \in Docs, db[d].state # "absent"
    PROVE  Seen(p, d).url = db[d].url
BY DEF Seen, RInv, Own, OwnUrl

LEMMA ReadDocUpholds ==
    ASSUME KInv, IInv, RInv, Crosses, NEW p \in Requests, ReadDoc(p)
    PROVE  Upholding(p)
<1>1. CASE Refuse(p)
  <2>1. Tells /\ \A d : ~Promises(p, d)
    BY <1>1, RTells, NoPromise DEF ReadDoc, Refuse, envVars
  <2> QED BY <1>1, <2>1, RaiseUpholds
<1>2. CASE Keep(p, Doc(p))
  <2>1. /\ At(p, "readDoc") /\ SoundReq(req[p]) /\ Fit(p) /\ Own(p)
    BY DEF ReadDoc, IInv, Sound, KInv, RInv
  <2>2. req[p].kind \in {"retry", "delete"} /\ req[p].step = 2
    BY <2>1, Places DEF Place
  <2>3. Doc(p) \in Docs /\ db[Doc(p)].state # "absent"
    BY <2>1, <2>2 DEF SoundReq, HasDoc, Doc, Fit, FitRows, Knows
  <2>4. UNCHANGED <<objects, jobs, authorized, failures>> /\ crossed \subseteq crossed'
    BY <1>2 DEF Keep, storeVars, envVars, Crosses
  <2>5. /\ OnlyMoves(p) /\ draft'[p] = draft[p] /\ db' = db
        /\ req'[p].kind = req[p].kind /\ req'[p].step = req[p].step + 1
        /\ req'[p].doc = req[p].doc
        /\ req'[p].read = [x \in DOMAIN req[p].read \cup {Doc(p)} |->
                               IF x = Doc(p) THEN Seen(p, Doc(p)) ELSE req[p].read[x]]
    BY <1>2, KeepMoves DEF OnlyMoves
  <2>6. Wrote(p)' = Wrote(p) /\ Doc(p)' = Doc(p) /\ req'[p].read[Doc(p)] = Seen(p, Doc(p))
    BY <2>5 DEF Wrote, Doc
  <2>7. OwnDraft(p)'
    BY <2>1, <2>2, <2>5, <2>6 DEF Own, OwnDraft, Past, Within, Deleter
  <2>8. OwnUrl(p)'
    BY <2>1, <2>2, <2>3, <2>5, <2>6, SeenUrl DEF Own, OwnUrl, Past, Copy
  <2>9. Undisturbed(p)'
    BY <2>2, <2>5 DEF Undisturbed, Past, Within
  <2>10. NeverWaited(p)'
    <3>1. \A d \in Docs : Passages(d) # Doc(p)
      BY <2>3, RowsApart
    <3> QED BY <2>1, <2>4, <2>5, <3>1 DEF Own, NeverWaited
  <2>11. \A d \in Docs : ~Promises(p, d)
    BY <2>1, NoPromise
  <2> QED BY <2>4, <2>5, <2>7, <2>8, <2>9, <2>10, <2>11, StillUpholds DEF Own
<1> QED BY <1>1, <1>2 DEF ReadDoc

LEMMA ReadSourceUpholds ==
    ASSUME KInv, IInv, RInv, Crosses, NEW p \in Requests, ReadSource(p)
    PROVE  Upholding(p)
<1>1. /\ At(p, "readSource") /\ SoundReq(req[p]) /\ Own(p) /\ Keep(p, Source)
  BY DEF ReadSource, IInv, Sound, RInv
<1>2. req[p].kind = "resync"
  BY <1>1, Places DEF Place
<1>3. UNCHANGED <<objects, jobs, authorized, failures>> /\ crossed \subseteq crossed'
  BY <1>1 DEF Keep, storeVars, envVars, Crosses
<1>4. /\ OnlyMoves(p) /\ draft'[p] = draft[p] /\ db' = db
      /\ req'[p].kind = req[p].kind
      /\ req'[p].read = [x \in DOMAIN req[p].read \cup {Source} |->
                             IF x = Source THEN Seen(p, Source) ELSE req[p].read[x]]
  BY <1>1, KeepMoves DEF OnlyMoves
<1>5. Wrote(p)' = Wrote(p)
  BY <1>4 DEF Wrote
<1>6. OwnDraft(p)'
  BY <1>1, <1>2, <1>4, <1>5 DEF Own, OwnDraft, Past, Within, Deleter
<1>7. OwnUrl(p)'
  BY <1>1, <1>2, <1>4, <1>5 DEF Own, OwnUrl, Past
<1>8. Undisturbed(p)'
  BY <1>2, <1>4 DEF Undisturbed, Past, Within
<1>9. NeverWaited(p)'
  <2>1. \A d \in Docs : Passages(d) # Source
    BY RowsApart
  <2> QED BY <1>1, <1>3, <1>4, <2>1 DEF Own, NeverWaited
<1>10. \A d \in Docs : ~Promises(p, d)
  BY <1>2 DEF Promises
<1> QED BY <1>3, <1>4, <1>6, <1>7, <1>8, <1>9, <1>10, StillUpholds DEF Own

LEMMA LoadUpholds ==
    ASSUME KInv, IInv, RInv, Crosses, NEW p \in Requests, Load(p)
    PROVE  Upholding(p)
<1>1. CASE Go(p)
  BY <1>1, GoUpholds DEF Load, Go, dbVars, storeVars, envVars
<1>2. CASE Raise(p) /\ UNCHANGED failures /\ Seen(p, Doc(p)).state # "live"
  <2>1. req[p].kind = "ingest" /\ req[p].step = 2 /\ Fit(p)
    BY Places DEF Load, IInv, Sound, Place, KInv
  <2>2. db'[Doc(p)].state # "live"
    BY <1>2, <2>1 DEF Fit, FitDraft, Empty, Seen, Raise, DropRows
  <2>3. Tells
    BY <1>2, RTells DEF Raise, envVars
  <2> QED BY <1>2, <2>2, <2>3, RaiseUpholds DEF Wanted, Promises
<1> QED BY <1>1, <1>2 DEF Load

LEMMA GetUpholds ==
    ASSUME KInv, IInv, RInv, Crosses, NEW p \in Requests, Get(p)
    PROVE  Upholding(p)
<1>1. req[p].kind = "ingest" /\ req[p].step = 3 /\ Own(p) /\ crossed \subseteq crossed'
  BY Places DEF Get, IInv, Sound, Place, RInv, Crosses
<1>2. CASE Raise(p) /\ UNCHANGED failures /\ objects[Doc(p)] = None
  <2>1. Tells /\ objects' = objects
    BY <1>2, RTells DEF Raise, envVars, storeVars
  <2>2. objects[Doc(p)] # "text"
    BY <1>2, IngestionAssumption DEF Contents
  <2> QED BY <1>2, <2>1, <2>2, RaiseUpholds DEF Wanted, Promises
<1>3. CASE ~(Raise(p) /\ UNCHANGED failures /\ objects[Doc(p)] = None)
  <2>1. /\ OnlyMoves(p) /\ draft'[p] = draft[p]
        /\ req'[p].kind = req[p].kind /\ req'[p].step = req[p].step + 1
        /\ req'[p].doc = req[p].doc /\ req'[p].run = req[p].run
        /\ req'[p].todo = req[p].todo /\ req'[p].url = req[p].url
        /\ req'[p].read = req[p].read /\ req'[p].content = objects[Doc(p)]
        /\ UNCHANGED <<objects, jobs, authorized, failures>>
    BY <1>3, GetMoves
  <2>2. db' = db /\ Wrote(p)' = Wrote(p) /\ Doc(p)' = Doc(p) /\ \A r : Seen(p, r)' = Seen(p, r)
    BY <2>1 DEF OnlyMoves, Wrote, Doc, Seen
  <2>3. OwnDraft(p)'
    BY <1>1, <2>1, <2>2 DEF Own, OwnDraft, Past, Within, Deleter
  <2>4. OwnUrl(p)'
    BY <1>1, <2>1, <2>2 DEF Own, OwnUrl, Past, Copy
  <2>5. Undisturbed(p)'
    BY <1>1, <2>1, <2>2 DEF Undisturbed, Past, Within
  <2>6. NeverWaited(p)'
    BY <1>1, <2>1 DEF Own, NeverWaited
  <2>7. \A d \in Docs : Promises(p, d) => Promises(p, d)'
    BY <1>1, <2>1, <2>2 DEF Promises
  <2> QED BY <2>1, <2>3, <2>4, <2>5, <2>6, <2>7, StillUpholds DEF Own
<1> QED BY <1>2, <1>3

-----------------------------------------------------------------------------
(* A document found for a page, or made for an upload.                      *)

LEMMA FoundUpholds ==
    ASSUME KInv, IInv, RInv, Crosses, NEW p \in Requests, NEW call \in {"lookUp", "putNew"},
           At(p, call), NEW d \in Docs,
           req' = [req EXCEPT ![p].step = @ + 1, ![p].doc = d], UNCHANGED dbVars,
           UNCHANGED <<jobs, authorized, failures>>,
           \A e \in Docs : objects'[e] = objects[e] \/ e = d,
           d \in Unused \/ objects' = objects,
           d \in Unused \/ (call = "lookUp" /\ Seen(p, d).url = req[p].url)
    PROVE  Upholding(p)
<1>1. Place(req[p], call) /\ Fit(p) /\ Own(p) /\ db' = db /\ crossed \subseteq crossed'
  BY Places DEF IInv, Sound, SoundReq, KInv, dbVars, Crosses, RInv
<1>2. /\ OnlyMoves(p) /\ draft'[p] = draft[p]
      /\ req'[p].kind = req[p].kind /\ req'[p].step = req[p].step + 1
      /\ req'[p].doc = d /\ req'[p].read = req[p].read /\ req'[p].url = req[p].url
  BY FindsMoves
<1>3. req[p].step = 2 /\ \/ req[p].kind = "page" /\ call = "lookUp"
                         \/ req[p].kind = "upload" /\ call = "putNew"
  BY <1>1 DEF Place
<1>4. Wrote(p)' = {} /\ Doc(p)' = d /\ Wrote(p) = {}
  BY <1>1, <1>2, <1>3 DEF Wrote, Doc, Fit, FitDraft, Empty
<1>5. d \in Unused => db[d].state = "absent"
  BY UnusedDocs
<1>6. OwnDraft(p)'
  BY <1>2, <1>3, <1>4 DEF OwnDraft, Past, Within
<1>7. OwnUrl(p)'
  BY <1>1, <1>2, <1>3, <1>4, <1>5 DEF Own, OwnUrl, Past, Seen
<1>8. Undisturbed(p)'
  BY <1>2, <1>3 DEF Undisturbed, Past, Within
<1>9. NeverWaited(p)'
  BY <1>1, <1>2 DEF Own, NeverWaited
<1>10. \A e \in Docs : ~Promises(p, e)
  BY <1>3 DEF Promises
<1>11. AtWorkOn(p, d)' /\ (objects'[d] = objects[d] \/ db[d].state = "absent")
  BY <1>4, <1>5 DEF AtWorkOn
<1> QED BY <1>2, <1>6, <1>7, <1>8, <1>9, <1>10, <1>11, StillUpholds DEF Own

LEMMA LookUpUpholds ==
    ASSUME KInv, IInv, RInv, Crosses, NEW p \in Requests, LookUp(p)
    PROVE  Upholding(p)
<1> DEFINE found == AtUrl(p, req[p].url)
           d == AnyOf(IF found # {} THEN found ELSE Unused)
<1>1. d \in Docs /\ (d \in Unused \/ Seen(p, d).url = req[p].url)
  BY DEF LookUp, AnyOf, AtUrl, LiveDocs, Unused
<1>2. /\ At(p, "lookUp") /\ req' = [req EXCEPT ![p].step = @ + 1, ![p].doc = d]
      /\ UNCHANGED dbVars /\ UNCHANGED <<objects, jobs, authorized, failures>>
  BY DEF LookUp, storeVars, envVars
<1> HIDE DEF d
<1> QED BY <1>1, <1>2, FoundUpholds

LEMMA PutNewUpholds ==
    ASSUME KInv, IInv, RInv, Crosses, NEW p \in Requests, PutNew(p)
    PROVE  Upholding(p)
<1> DEFINE d == AnyOf(Unused)
<1>1. d \in Docs /\ d \in Unused
  BY DEF PutNew, AnyOf, Unused
<1>2. /\ At(p, "putNew") /\ req' = [req EXCEPT ![p].step = @ + 1, ![p].doc = d]
      /\ UNCHANGED dbVars /\ UNCHANGED <<jobs, authorized, failures>>
      /\ \A e \in Docs : objects'[e] = objects[e] \/ e = d
  BY DEF PutNew, envVars, KInv, DocsFit
<1> HIDE DEF d
<1> QED BY <1>1, <1>2, FoundUpholds

-----------------------------------------------------------------------------
(* A document's row in p's draft. *)
LEMMA DocWrittenUpholds ==
    ASSUME KInv, IInv, RInv, Crosses, NEW p \in Requests,
           NEW call \in {"insertDoc", "saveRetried", "saveReady", "saveFailed", "savePage",
                         "saveDeleted"},
           At(p, call), req[p].kind # "purge", Doc(p) \in Docs,
           NEW row, Write(p, Doc(p), row),
           db[Doc(p)].state # "absent" => row.url = db[Doc(p)].url,
           req[p].kind \in {"page", "blankPage"} => row.url # None,
           call = "saveReady" => row.status = "ready",
           call = "saveDeleted" => row.state = "deleted",
           call = "saveFailed" => row.state = Seen(p, Doc(p)).state
    PROVE  Upholding(p)
<1> DEFINE d == Doc(p)
<1>1. /\ CallOf(req[p], call) /\ Place(req[p], call) /\ Own(p) /\ SoundReq(req[p])
      /\ SoundDraft(req[p], draft[p])
  BY Places DEF IInv, Sound, SoundReq, RInv
<1>2. /\ OnlyMoves(p) /\ Holds(draft'[p], draft[p], d, row)
      /\ req'[p] = [req[p] EXCEPT !.step = @ + 1]
      /\ UNCHANGED <<objects, jobs, authorized, failures>>
  BY WriteMoves DEF Write, storeVars, envVars
<1>3. DOMAIN req[p] = Fields /\ req[p].step \in Nat
  BY <1>1 DEF SoundReq
<1>4. /\ req'[p].kind = req[p].kind /\ req'[p].step = req[p].step + 1
      /\ req'[p].doc = req[p].doc /\ req'[p].todo = req[p].todo
      /\ req'[p].read = req[p].read /\ req'[p].run = req[p].run /\ req'[p].url = req[p].url
      /\ req'[p].content = req[p].content
  BY <1>2, <1>3 DEF Fields
<1>5. \/ req[p].kind = "upload" /\ req[p].step = 3
      \/ req[p].kind = "retry" /\ req[p].step = 3
      \/ req[p].kind = "ingest" /\ req[p].step = 9 /\ call = "saveReady"
      \/ req[p].kind = "page" /\ req[p].step = 10 /\ call = "saveReady"
      \/ req[p].kind = "page" /\ req[p].step = 3
      \/ req[p].kind = "ingestFailed" /\ req[p].step = 1 /\ call = "saveFailed"
      \/ req[p].kind = "blankPage" /\ req[p].step = 1
      \/ req[p].kind = "delete" /\ req[p].step = 6 /\ call = "saveDeleted"
  BY <1>1 DEF Place
<1>6. /\ Doc(p)' = d /\ Wrote(p)' = Wrote(p) \cup {d} /\ Seen(p, d)' = row
      /\ \A e \in Wrote(p) : e # d => draft'[p][e] = draft[p][e]
      /\ draft'[p][d] = row /\ db' = db /\ Tells /\ crossed \subseteq crossed'
  BY <1>2, <1>4, RTells DEF Wrote, Seen, Doc, Holds, OnlyMoves, Crosses
<1>7. /\ \A e \in Docs : Passages(e) # d
      /\ \A e \in Docs : Seen(p, Passages(e))' = Seen(p, Passages(e))
  <2>1. \A e \in Docs : Passages(e) # d
    BY RowsApart
  <2> QED BY <1>6, <2>1 DEF Seen
<1>8. OwnDraft(p)'
  <2>1. OwnDraft(p)
    BY <1>1 DEF Own
  <2>2. ASSUME NEW e \in Docs \cap Wrote(p)'
        PROVE  \/ e = Doc(p)' /\ req'[p].kind \in {"upload", "retry", "ingest", "ingestFailed",
                                                   "page", "blankPage"}
               \/ Deleter(p)' /\ draft'[p][e].state = "deleted"
    <3>1. CASE e = d
      BY <1>4, <1>5, <1>6, <3>1 DEF Deleter
    <3>2. CASE e # d
      BY <1>4, <1>6, <2>1, <3>2 DEF OwnDraft, Deleter
    <3> QED BY <3>1, <3>2
  <2>3. ASSUME NEW e \in Docs, Passages(e) \in Wrote(p)'
        PROVE  \/ e = Doc(p)' /\ req'[p].kind \in {"ingest", "page", "blankPage", "delete",
                                                   "purge"}
               \/ Deleter(p)' /\ e \in Wrote(p)'
    BY <1>4, <1>6, <1>7, <2>1, <2>3 DEF OwnDraft, Deleter
  <2>4. Past(p, "ingest", 10)' \/ Past(p, "page", 11)'
           => Doc(p)' \in Wrote(p)' /\ draft'[p][Doc(p)'].status = "ready"
    BY <1>4, <1>5, <1>6 DEF Past
  <2>5. Past(p, "ingest", 8)' \/ Past(p, "page", 9)'
           => draft'[p][Passages(Doc(p)')].run = req'[p].run
    <3>1. Past(p, "ingest", 8)' \/ Past(p, "page", 9)'
             => /\ Past(p, "ingest", 8) \/ Past(p, "page", 9)
                /\ Inserted(req[p])
      BY <1>4, <1>5 DEF Past, Inserted
    <3>2. Inserted(req[p]) => Passages(d) \in Wrote(p)
      BY <1>1 DEF SoundDraft, Wrote, Doc
    <3> QED BY <1>4, <1>6, <1>7, <2>1, <3>1, <3>2 DEF OwnDraft
  <2>6. ~Within(p, "ingest", 1, 7)'
    BY <1>4, <1>5 DEF Within
  <2> QED BY <2>2, <2>3, <2>4, <2>5, <2>6 DEF OwnDraft
<1>9. OwnUrl(p)'
  <2>1. \A e : Copy(p, e)' = Copy(p, e)
    BY <1>4 DEF Copy
  <2>2. /\ Past(p, "page", 3)' => Past(p, "page", 3)
        /\ req[p].kind \in {"retry", "delete"} => req[p].step >= 3
        /\ req[p].kind # "deleteKB"
    BY <1>4, <1>5 DEF Past
  <2>3. \A e \in Docs \cap Wrote(p)' : db'[e].state # "absent" => draft'[p][e].url = db'[e].url
    BY <1>1, <1>6 DEF Own, OwnUrl
  <2>4. /\ req[p].kind = "page" => req[p].url # None
        /\ req[p].kind \in {"retry", "delete"} => Copy(p, Doc(p)).url = db[Doc(p)].url
        /\ Past(p, "page", 3) \/ req[p].kind = "blankPage"
             => db[Doc(p)].state = "absent" \/ db[Doc(p)].url # None
    BY <1>1, <2>2 DEF Own, OwnUrl
  <2> QED BY <1>4, <1>6, <2>1, <2>2, <2>3, <2>4 DEF OwnUrl, Past
<1>10. Undisturbed(p)'
  <2>1. RunsWereFinished(d)' => RunsWereFinished(d)
    BY <1>6, FinishedBefore
  <2> QED BY <1>1, <1>2, <1>4, <1>5, <1>6, <1>7, <2>1 DEF Own, Undisturbed, Past, Within
<1>11. NeverWaited(p)'
  BY <1>1, <1>4, <1>6 DEF Own, NeverWaited
<1>12. \A e \in Docs : Promises(p, e) => Promises(p, e)'
  BY <1>4, <1>5, <1>6 DEF Promises
<1> QED BY <1>2, <1>8, <1>9, <1>10, <1>11, <1>12, StillUpholds DEF Own

-----------------------------------------------------------------------------
(* Writes of rows.                                                          *)

LEMMA RaiseAtRow ==
    ASSUME KInv, IInv, RInv, Crosses, NEW p \in Requests, NEW call \in {"saveRetried", "savePage"},
           At(p, call), Raise(p), UNCHANGED failures
    PROVE  Upholding(p)
<1>1. Tells /\ \A d : ~Promises(p, d)
  BY RTells, NoPromise DEF Raise, envVars
<1> QED BY <1>1, RaiseUpholds

LEMMA SaveDocUpholds ==
    ASSUME KInv, IInv, RInv, Crosses, NEW p \in Requests, SaveDoc(p)
    PROVE  Upholding(p)
<1> DEFINE d == Doc(p)
<1>1. /\ SoundReq(req[p]) /\ Sound(req[p], draft[p]) /\ Fit(p) /\ DocsFit /\ Own(p)
      /\ \A call : At(p, call) => Place(req[p], call)
  BY Places DEF IInv, Sound, KInv, RInv
<1>2. /\ At(p, "insertDoc") => req[p].kind = "upload" /\ req[p].step = 3
      /\ At(p, "saveRetried") => req[p].kind = "retry" /\ req[p].step = 3
      /\ At(p, "savePage") => req[p].kind = "page" /\ req[p].step = 3
      /\ At(p, "saveReady") => \/ req[p].kind = "ingest" /\ req[p].step = 9
                               \/ req[p].kind = "page" /\ req[p].step = 10
      /\ At(p, "saveFailed") => req[p].kind \in {"ingestFailed", "blankPage"}
  BY <1>1 DEF Place
<1>3. d \in Docs /\ req[p].kind # "purge"
  BY <1>1, <1>2 DEF SaveDoc, SoundReq, HasDoc, Doc
<1>4. CASE At(p, "insertDoc") /\ Write(p, d, NewDoc(None))
  <2>1. db[d].state = "absent"
    BY <1>1, <1>2, <1>4 DEF Fit, FitRows
  <2> QED BY <1>2, <1>3, <1>4, <2>1, DocWrittenUpholds
<1>5. CASE At(p, "saveRetried") /\ SaveRetried(p)
  <2> DEFINE row == [Copy(p, d) EXCEPT !.status = "processing"]
  <2>1. /\ IsDoc(Copy(p, d)) /\ req[p].kind = "retry"
        /\ Copy(p, d).url = db[d].url
    BY <1>1, <1>2, <1>3, <1>5 DEF Own, OwnUrl, SoundReq, Copy, Doc
  <2>2. row.url = db[d].url
    BY <2>1 DEF IsDoc
  <2>3. Write(p, d, row) \/ (Raise(p) /\ UNCHANGED failures)
    BY <1>5 DEF SaveRetried, InsertLive
  <2> HIDE DEF row
  <2> QED BY <1>3, <1>5, <2>1, <2>2, <2>3, DocWrittenUpholds, RaiseAtRow
<1>6. ASSUME NEW call \in {"saveReady", "saveFailed", "savePage"}, At(p, call),
             call = "savePage" => Seen(p, d).state # "absent",
             NEW status, call = "saveReady" => status = "ready",
             Write(p, d, WithStatus(p, d, status))
      PROVE  Upholding(p)
  <2> DEFINE row == WithStatus(p, d, status)
  <2>1. IsDoc(Seen(p, d))
    BY <1>3, SeenDocs
  <2>2. row.state = Seen(p, d).state /\ row.url = Seen(p, d).url /\ row.status = status
    BY <2>1 DEF IsDoc, WithStatus
  <2>3. db[d].state # "absent" => row.url = db[d].url
    BY <1>3, <2>2, SeenUrl
  <2>4. ASSUME req[p].kind \in {"page", "blankPage"}
        PROVE  row.url # None
    <3>1. CASE call = "savePage"
      <4>1. Seen(p, d) = db[d] /\ db[d].url # None
        BY <1>1, <1>2, <1>6, <3>1 DEF Fit, FitDraft, Empty, Seen, Own, OwnUrl, Past
      <4> QED BY <2>2, <4>1
    <3>2. CASE call # "savePage"
      <4>1. Past(p, "page", 4) \/ req[p].kind = "blankPage"
        BY <1>2, <1>6, <2>4, <3>2 DEF Past
      <4>2. d \in Wrote(p) /\ draft[p][d].url # None
        BY <1>1, <4>1 DEF Past, Fit, FitDraft, Sound, SoundDraft, Paged, Wrote, Doc, Own, OwnUrl
      <4> QED BY <2>2, <4>2 DEF Seen
    <3> QED BY <3>1, <3>2
  <2> HIDE DEF row
  <2>5. Write(p, d, row)
    BY <1>6 DEF row
  <2> QED BY <1>3, <1>6, <2>2, <2>3, <2>4, <2>5, DocWrittenUpholds
<1>7. CASE At(p, "saveReady") /\ Write(p, d, WithStatus(p, d, "ready"))
  BY <1>6, <1>7
<1>8. CASE At(p, "saveFailed") /\ Write(p, d, WithStatus(p, d, "failed"))
  BY <1>6, <1>8
<1>9. CASE /\ At(p, "savePage") /\ Seen(p, d).state # "absent"
           /\ Write(p, d, WithStatus(p, d, "processing"))
  BY <1>6, <1>9
<1>10. CASE /\ At(p, "savePage") /\ Seen(p, d).state = "absent"
            /\ InsertLive(p, d, NewDoc(req[p].url))
  <2> DEFINE row == NewDoc(req[p].url)
  <2>1. row.url = req[p].url /\ req[p].kind = "page" /\ req[p].url # None
    BY <1>1, <1>2, <1>10 DEF NewDoc, Own, OwnUrl
  <2>2. db[d].state = "absent"
    BY <1>1, <1>3, <1>10 DEF Fit, FitDraft, Seen
  <2>3. Write(p, d, row) \/ (Raise(p) /\ UNCHANGED failures)
    BY <1>10 DEF InsertLive
  <2> HIDE DEF row
  <2> QED BY <1>3, <1>10, <2>1, <2>2, <2>3, DocWrittenUpholds, RaiseAtRow
<1> QED BY <1>4, <1>5, <1>7, <1>8, <1>9, <1>10 DEF SaveDoc

(* Deletions of a knowledge base: the same draft, or one more deleted row.  *)
LEMMA NextPurgeUpholds ==
    ASSUME KInv, IInv, RInv, Crosses, NEW p \in Requests, NEW docs \in SUBSET Docs, NEW read,
           NextPurge(p, docs, read), OnlyMoves(p),
           UNCHANGED <<objects, jobs, authorized, failures>>,
           req[p].kind \in {"deleteKB", "purge"},
           \A d \in docs : read[d].url = db[d].url,
           \A d \in Docs : Passages(d) \in DOMAIN read => Passages(d) \in DOMAIN req[p].read,
           \A d \in Docs \cap Wrote(p)' :
               draft'[p][d].state = "deleted"
               /\ (db[d].state # "absent" => draft'[p][d].url = db[d].url),
           \A d \in Docs : Passages(d) \in Wrote(p)' => d \in Wrote(p)'
    PROVE  Upholding(p)
<1>1. /\ db' = db /\ Own(p) /\ crossed \subseteq crossed' /\ req'[p].kind \in {"purge", "dropKB"}
      /\ req'[p].kind = "purge" =>
            req'[p].doc \in docs /\ req'[p].todo \subseteq docs /\ req'[p].read = read
      /\ req'[p].kind = "dropKB" => req'[p].read = req[p].read
  BY NextPurgeMoves DEF OnlyMoves, RInv, Crosses
<1>2. OwnDraft(p)'
  BY <1>1 DEF OwnDraft, Past, Within, Deleter
<1>3. OwnUrl(p)'
  BY <1>1 DEF OwnUrl, Past, Copy, Doc
<1>4. Undisturbed(p)'
  BY <1>1 DEF Undisturbed, Past, Within
<1>5. NeverWaited(p)'
  BY <1>1 DEF Own, NeverWaited
<1>6. \A d \in Docs : ~Promises(p, d)
  BY DEF Promises
<1> QED BY <1>1, <1>2, <1>3, <1>4, <1>5, <1>6, StillUpholds DEF Own

LEMMA ReadAllUpholds ==
    ASSUME KInv, IInv, RInv, Crosses, NEW p \in Requests, ReadAll(p)
    PROVE  Upholding(p)
<1>1. Fit(p) /\ Own(p) /\ req[p].kind = "deleteKB" /\ req'[p].kind = "deleteKB"
  BY ReadAllMoves DEF KInv, RInv
<1>2. Wrote(p) = {} /\ Wrote(p)' = {} /\ db' = db
  BY <1>1, ReadAllMoves DEF Fit, FitDraft, Empty, Wrote, OnlyMoves
<1>3. OwnDraft(p)'
  BY <1>1, <1>2 DEF OwnDraft, Past, Within
<1>4. OwnUrl(p)'
  <2>1. \A d \in LiveDocs(p) : d \in Docs /\ Seen(p, d).url = db[d].url
    BY <1>2 DEF LiveDocs, Seen
  <2>2. /\ req'[p].todo = LiveDocs(p)
        /\ \A d \in LiveDocs(p) : req'[p].read[d] = Seen(p, d)
    BY ReadAllMoves
  <2>3. (\A d \in req[p].todo : Copy(p, d).url = db[d].url)'
    BY <1>2, <2>1, <2>2 DEF Copy
  <2> QED BY <1>1, <1>2, <2>3 DEF OwnUrl, Past
<1>5. Undisturbed(p)'
  BY <1>1 DEF Undisturbed, Past, Within
<1>6. NeverWaited(p)'
  <2>1. \A d \in Docs : Passages(d) \notin LiveDocs(p)
    BY RowsApart DEF LiveDocs
  <2> QED BY <2>1, ReadAllMoves DEF NeverWaited
<1>7. \A d \in Docs : ~Promises(p, d)
  BY <1>1 DEF Promises
<1> QED BY <1>1, <1>3, <1>4, <1>5, <1>6, <1>7, ReadAllMoves, StillUpholds DEF Own

LEMMA CheckAtRestUpholds ==
    ASSUME KInv, IInv, RInv, Crosses, NEW p \in Requests, CheckAtRest(p)
    PROVE  Upholding(p)
<1>1. CASE Refuse(p)
  <2>1. Tells /\ \A d : ~Promises(p, d)
    BY <1>1, RTells, NoPromise DEF CheckAtRest, Refuse, envVars
  <2> QED BY <1>1, <2>1, RaiseUpholds
<1>2. CASE ~Refuse(p)
  <2>1. NextPurge(p, req[p].todo, req[p].read) /\ UNCHANGED dbVars
        /\ UNCHANGED <<objects, jobs, authorized, failures>>
    BY <1>2 DEF CheckAtRest, storeVars, envVars
  <2>2. req[p].kind = "deleteKB" /\ Fit(p) /\ Own(p) /\ SoundReq(req[p])
    BY Places DEF CheckAtRest, IInv, Sound, Place, KInv, RInv
  <2>3. Wrote(p) = {}
    BY <2>2 DEF Fit, FitDraft, Empty
  <2>4. OnlyMoves(p) /\ Wrote(p)' = {}
    BY <2>1, <2>3, NextPurgeMoves DEF OnlyMoves, dbVars, Wrote, IInv
  <2>5. /\ \A d \in req[p].todo : req[p].read[d].url = db[d].url
        /\ req[p].todo \in SUBSET Docs
    BY <2>2 DEF Own, OwnUrl, Copy, SoundReq
  <2> QED BY <2>1, <2>2, <2>4, <2>5, NextPurgeUpholds
<1> QED BY <1>1, <1>2

LEMMA SaveDeletedUpholds ==
    ASSUME KInv, IInv, RInv, Crosses, NEW p \in Requests, SaveDeleted(p)
    PROVE  Upholding(p)
<1> DEFINE o == req[p]
           d == Doc(p)
           row == [Copy(p, d) EXCEPT !.state = "deleted"]
           new == [x \in {d} |-> [Copy(p, x) EXCEPT !.state = "deleted"]]
<1>1. /\ Sound(o, draft[p]) /\ SoundReq(o) /\ Own(p) /\ At(p, "saveDeleted")
  BY DEF IInv, Sound, SaveDeleted, RInv
<1>2. \/ o.kind = "delete" /\ o.step = 6
      \/ o.kind = "purge" /\ o.step = 4
  BY <1>1, Places DEF Place
<1>3. d \in Docs /\ IsDoc(Copy(p, d))
  BY <1>1, <1>2 DEF SoundReq, HasDoc, Doc, Copy
<1>4. row.state = "deleted" /\ row.url = db[d].url
  <2>1. Copy(p, d).url = db[d].url
    BY <1>1, <1>2, <1>3 DEF Own, OwnUrl
  <2> QED BY <1>3, <2>1 DEF IsDoc
<1>5. DOMAIN new = {d} /\ new[d] = row /\ new = [x \in {d} |-> row]
  OBVIOUS
<1>6. CASE o.kind = "delete"
  <2>1. Write(p, d, row)
    BY <1>5, <1>6 DEF SaveDeleted, Write
  <2> HIDE DEF row
  <2> QED BY <1>1, <1>3, <1>4, <1>6, <2>1, DocWrittenUpholds
<1>7. CASE o.kind = "purge"
  <2>1. Put(p, new) /\ NextPurge(p, o.todo, o.read)
        /\ UNCHANGED <<objects, jobs, authorized, failures>>
    BY <1>7 DEF SaveDeleted, storeVars, envVars
  <2>2. /\ DOMAIN req' = Requests /\ \A q \in Requests \ {p} : req'[q] = req[q]
    BY <2>1, NextPurgeMoves
  <2> HIDE DEF new, row
  <2>3. OnlyMoves(p) /\ Holds(draft'[p], draft[p], d, row)
    BY <1>5, <2>1, <2>2, PutOne
  <2>4. /\ Wrote(p)' = Wrote(p) \cup {d} /\ draft'[p][d] = row
        /\ \A e \in Wrote(p) : e # d => draft'[p][e] = draft[p][e]
    BY <2>3 DEF Wrote, Holds
  <2>5. \A e \in o.todo : e \in Docs /\ o.read[e].url = db[e].url
    BY <1>1, <1>7 DEF SoundReq, Own, OwnUrl, Copy
  <2>6. \A e \in Docs \cap Wrote(p) :
            /\ draft[p][e].state = "deleted"
            /\ db[e].state # "absent" => draft[p][e].url = db[e].url
    BY <1>1, <1>7 DEF Own, OwnDraft, OwnUrl
  <2>7. \A e \in Docs : Passages(e) \in Wrote(p)' => e \in Wrote(p)'
    <3>1. \A e \in Docs : Passages(e) # d
      BY <1>3, RowsApart
    <3> QED BY <1>1, <2>4, <3>1 DEF Own, OwnDraft
  <2>8. \A e \in Docs \cap Wrote(p)' :
            draft'[p][e].state = "deleted"
            /\ (db[e].state # "absent" => draft'[p][e].url = db[e].url)
    BY <1>4, <2>4, <2>6
  <2> QED BY <1>7, <2>1, <2>3, <2>5, <2>7, <2>8, NextPurgeUpholds
<1> QED BY <1>2, <1>6, <1>7

LEMMA SaveOtherUpholds ==
    ASSUME KInv, IInv, RInv, Crosses, NEW p \in Requests, SaveOther(p)
    PROVE  Upholding(p)
<1>1. PICK call, r, value :
         /\ call \in {"saveKB", "insertSource", "saveSyncing", "saveSynced", "saveError"}
         /\ r \in {KB, Source} /\ At(p, call) /\ Write(p, r, value)
  BY DEF SaveOther
<1>2. /\ OnlyMoves(p) /\ Holds(draft'[p], draft[p], r, value) /\ Advance(p)
      /\ UNCHANGED <<objects, jobs, authorized, failures>>
  BY <1>1, WriteMoves DEF Write, storeVars, envVars
<1>3. Stepped(req'[p], req[p])
  <2>1. req'[p] = [req[p] EXCEPT !.step = @ + 1] /\ DOMAIN req[p] = Fields
    BY <1>2 DEF Advance, IInv, Sound, SoundReq
  <2> QED BY <2>1 DEF Stepped, Fields
<1>4. SameDraft(p)
  <2>1. \A d \in Docs : r # d /\ r # Passages(d)
    BY <1>1, RowsApart
  <2> QED BY <1>2, <2>1 DEF SameDraft, Holds, Wrote
<1>5. Grows /\ Tells
  BY <1>1, <1>2, RTells DEF Grows, Crosses, Write, envVars
<1>6. Own(p)'
  BY <1>1, <1>2, <1>3, <1>4, <1>5, OwnGoesOn
<1>7. \A d \in Docs : Promises(p, d) => Promises(p, d)'
  BY <1>3 DEF Promises, Stepped, Doc, IInv, Sound, SoundReq
<1> QED BY <1>2, <1>6, <1>7, StillUpholds

-----------------------------------------------------------------------------
(* Passages.                                                                *)

(* Passages in p's draft. *)
LEMMA PassagesWrittenUpholds ==
    ASSUME KInv, IInv, RInv, Crosses, NEW p \in Requests,
           NEW call \in {"deletePassages", "insertPassages"}, At(p, call),
           NEW row, Write(p, Passages(Doc(p)), row),
           row.run = IF call = "deletePassages" THEN 0 ELSE req[p].run
    PROVE  Upholding(p)
<1> DEFINE r == Passages(Doc(p))
<1>1. Place(req[p], call) /\ Own(p) /\ SoundReq(req[p])
  BY Places DEF IInv, Sound, RInv
<1>2. /\ OnlyMoves(p) /\ Holds(draft'[p], draft[p], r, row)
      /\ req'[p] = [req[p] EXCEPT !.step = @ + 1]
      /\ UNCHANGED <<objects, jobs, authorized, failures>>
  BY WriteMoves DEF Write, storeVars, envVars
<1>3. DOMAIN req[p] = Fields /\ req[p].step \in Nat
  BY <1>1 DEF SoundReq
<1>4. /\ req'[p].kind = req[p].kind /\ req'[p].step = req[p].step + 1
      /\ req'[p].doc = req[p].doc /\ req'[p].todo = req[p].todo
      /\ req'[p].read = req[p].read /\ req'[p].run = req[p].run /\ req'[p].url = req[p].url
      /\ req'[p].content = req[p].content
  BY <1>2, <1>3 DEF Fields
<1>5. \/ req[p].kind = "ingest" /\ req[p].step = 4 /\ call = "deletePassages"
      \/ req[p].kind = "page" /\ req[p].step = 5 /\ call = "deletePassages"
      \/ req[p].kind = "delete" /\ req[p].step = 4
      \/ req[p].kind = "purge" /\ req[p].step = 2
      \/ req[p].kind = "ingest" /\ req[p].step = 7 /\ call = "insertPassages"
      \/ req[p].kind = "page" /\ req[p].step = 8 /\ call = "insertPassages"
  BY <1>1 DEF Place
<1>6. Doc(p) \in Docs
  BY <1>1, <1>5 DEF SoundReq, HasDoc, Doc
<1>7. /\ Doc(p)' = Doc(p) /\ Wrote(p)' = Wrote(p) \cup {r} /\ draft'[p][r] = row
      /\ \A x \in Wrote(p) : x # r => draft'[p][x] = draft[p][x]
      /\ db' = db /\ crossed \subseteq crossed'
  BY <1>2, <1>4 DEF Wrote, Doc, Holds, OnlyMoves, Crosses
<1>8. \A d \in Docs : d # r /\ (Passages(d) = r => d = Doc(p))
  BY <1>6, RowsApart
<1>9. Seen(p, r)' = row
  BY <1>7 DEF Seen
<1>10. OwnDraft(p)'
  <2>1. OwnDraft(p)
    BY <1>1 DEF Own
  <2>2. \A d \in Docs \cap Wrote(p)' : d \in Wrote(p) /\ draft'[p][d] = draft[p][d]
    BY <1>7, <1>8
  <2>3. ASSUME NEW d \in Docs, Passages(d) \in Wrote(p)'
        PROVE  \/ d = Doc(p)' /\ req'[p].kind \in {"ingest", "page", "blankPage", "delete",
                                                   "purge"}
               \/ Deleter(p)' /\ d \in Wrote(p)'
    <3>1. CASE d = Doc(p)
      BY <1>4, <1>5, <1>7, <3>1
    <3>2. CASE d # Doc(p)
      BY <1>4, <1>7, <1>8, <2>1, <2>3, <3>2 DEF OwnDraft, Deleter
    <3> QED BY <3>1, <3>2
  <2>4. ~Past(p, "ingest", 10)' /\ ~Past(p, "page", 11)'
    BY <1>4, <1>5 DEF Past
  <2>5. Past(p, "ingest", 8)' \/ Past(p, "page", 9)' => call = "insertPassages"
    BY <1>4, <1>5 DEF Past
  <2>6. Within(p, "ingest", 1, 7)' => call = "deletePassages"
    BY <1>4, <1>5 DEF Within
  <2>7. \A d \in Docs \cap Wrote(p)' :
          \/ d = Doc(p)' /\ req'[p].kind \in {"upload", "retry", "ingest", "ingestFailed", "page",
                                             "blankPage"}
          \/ Deleter(p)' /\ draft'[p][d].state = "deleted"
    BY <1>4, <1>7, <2>1, <2>2 DEF OwnDraft, Deleter
  <2>8. draft'[p][Passages(Doc(p)')] = row
    BY <1>7
  <2> QED BY <1>4, <2>3, <2>4, <2>5, <2>6, <2>7, <2>8 DEF OwnDraft
<1>11. OwnUrl(p)'
  <2>1. \A d : Copy(p, d)' = Copy(p, d)
    BY <1>4 DEF Copy
  <2>2. Past(p, "page", 4)' => Past(p, "page", 4) /\ Past(p, "page", 3) /\ Doc(p) \in Wrote(p)
    <3>1. Past(p, "page", 4)' => Past(p, "page", 4) /\ Past(p, "page", 3) /\ Paged(req[p])
      BY <1>3, <1>4, <1>5 DEF Past, Paged
    <3>2. Paged(req[p]) => Doc(p) \in Wrote(p)
      BY DEF IInv, Sound, SoundDraft, Wrote, Doc
    <3> QED BY <3>1, <3>2
  <2>3. Past(p, "page", 3)' => Past(p, "page", 3)
    BY <1>1, <1>4, <1>5 DEF Past
  <2>4. \A d \in Docs \cap Wrote(p)' : d \in Wrote(p) /\ draft'[p][d] = draft[p][d]
    BY <1>7, <1>8
  <2>5. req'[p].kind \in {"retry", "delete"} => req[p].step >= 3
    BY <1>4, <1>5
  <2>6. req[p].kind \notin {"blankPage", "deleteKB"}
    BY <1>5
  <2>7. OwnUrl(p)
    BY <1>1 DEF Own
  <2>8. \A d \in Docs \cap Wrote(p)' : db'[d].state # "absent" => draft'[p][d].url = db'[d].url
    BY <1>7, <2>4, <2>7 DEF OwnUrl
  <2>9. Past(p, "page", 4)' => draft'[p][Doc(p)'].url # None
    BY <1>6, <1>7, <1>8, <2>2, <2>7 DEF OwnUrl
  <2>10. (Past(p, "page", 3) \/ req[p].kind = "blankPage"
           => db[Doc(p)].state = "absent" \/ db[Doc(p)].url # None)'
    BY <1>4, <1>7, <2>3, <2>6, <2>7 DEF OwnUrl
  <2>11. /\ (req[p].kind = "page" => req[p].url # None)'
         /\ (req[p].kind \in {"retry", "delete"} /\ req[p].step >= 3
               => Copy(p, Doc(p)).url = db[Doc(p)].url)'
    BY <1>4, <1>7, <2>1, <2>5, <2>7 DEF OwnUrl
  <2>12. (req[p].kind = "purge"
           => \A d \in {Doc(p)} \cup req[p].todo : Copy(p, d).url = db[d].url)'
    BY <1>4, <1>7, <2>1, <2>7 DEF OwnUrl
  <2> QED BY <1>4, <2>6, <2>8, <2>9, <2>10, <2>11, <2>12 DEF OwnUrl
<1>12. Undisturbed(p)'
  <2>1. req[p].kind \notin {"blankPage", "ingestFailed"}
    BY <1>5
  <2>2. Within(p, "ingest", 5, 7)' \/ Within(p, "page", 6, 8)' => Seen(p, r)'.run = 0
    BY <1>4, <1>5, <1>9 DEF Within
  <2>3. /\ Past(p, "ingest", 4)' => Past(p, "ingest", 4)
        /\ Past(p, "page", 5)' => Past(p, "page", 5)
    BY <1>4, <1>5 DEF Past
  <2>4. Seen(p, Passages(Doc(p)))' = Seen(p, r)'
    OBVIOUS
  <2>5. Undisturbed(p)
    BY <1>1 DEF Own
  <2> QED BY <1>2, <1>4, <1>7, <2>1, <2>2, <2>3, <2>4, <2>5 DEF Undisturbed
<1>13. NeverWaited(p)'
  BY <1>1, <1>4, <1>7 DEF Own, NeverWaited
<1>14. \A d \in Docs : Promises(p, d) => Promises(p, d)'
  BY <1>3, <1>4, <1>7 DEF Promises
<1> QED BY <1>2, <1>10, <1>11, <1>12, <1>13, <1>14, StillUpholds DEF Own

LEMMA DeletePassagesUpholds ==
    ASSUME KInv, IInv, RInv, Crosses, NEW p \in Requests, DeletePassages(p)
    PROVE  Upholding(p)
<1> DEFINE r == Passages(Doc(p))
<1>1. At(p, "deletePassages")
  BY DEF DeletePassages
<1>2. CASE Write(p, r, [run |-> 0])
  <2>1. [run |-> 0].run = IF "deletePassages" = "deletePassages" THEN 0 ELSE req[p].run
    OBVIOUS
  <2> QED BY <1>1, <1>2, <2>1, PassagesWrittenUpholds
<1>3. CASE Go(p) /\ (r \in DOMAIN req[p].read \/ Seen(p, r).run = 0)
  <2>1. /\ OnlyMoves(p) /\ draft'[p] = draft[p] /\ Stepped(req'[p], req[p])
        /\ UNCHANGED <<objects, jobs, authorized, failures>> /\ crossed \subseteq crossed'
    BY <1>3, AdvanceMoves DEF Go, storeVars, envVars, Crosses
  <2>2. /\ Place(req[p], "deletePassages") /\ Own(p) /\ SoundReq(req[p])
        /\ SoundDraft(req[p], draft[p])
    BY <1>1, Places DEF IInv, Sound, RInv
  <2>3. \/ req[p].kind = "ingest" /\ req[p].step = 4
        \/ req[p].kind = "page" /\ req[p].step = 5
        \/ req[p].kind = "delete" /\ req[p].step = 4
        \/ req[p].kind = "purge" /\ req[p].step = 2
    BY <2>2 DEF Place
  <2>4. /\ Doc(p)' = Doc(p) /\ Wrote(p)' = Wrote(p) /\ db' = db
        /\ \A x : Seen(p, x)' = Seen(p, x)
        /\ \A x : Copy(p, x)' = Copy(p, x)
    BY <2>1 DEF Stepped, Doc, Wrote, OnlyMoves, Seen, Copy
  <2>5. Doc(p) \in Docs \ crossed' => Seen(p, r).run = 0
    BY <1>3, <2>1, <2>2 DEF Own, NeverWaited
  <2>6. OwnDraft(p)'
    BY <2>1, <2>2, <2>3, <2>4 DEF Own, OwnDraft, Past, Within, Deleter, Stepped
  <2>7. OwnUrl(p)'
    BY <2>1, <2>2, <2>3, <2>4 DEF Own, OwnUrl, Past, Stepped
  <2>8. Undisturbed(p)'
    BY <2>1, <2>2, <2>3, <2>4, <2>5 DEF Own, Undisturbed, Past, Within, Stepped
  <2>9. NeverWaited(p)'
    BY <2>1, <2>2 DEF Own, NeverWaited, Stepped
  <2>10. \A d \in Docs : Promises(p, d) => Promises(p, d)'
    BY <2>1, <2>3, <2>4 DEF Promises, Stepped
  <2> QED BY <2>1, <2>6, <2>7, <2>8, <2>9, <2>10, StillUpholds DEF Own
<1> QED BY <1>2, <1>3 DEF DeletePassages

LEMMA DeleteWaitsUpholds ==
    ASSUME KInv, IInv, RInv, Crosses, NEW p \in Requests, DeleteWaits(p)
    PROVE  Upholding(p)
<1> DEFINE r == Passages(Doc(p))
<1>1. /\ OnlyMoves(p) /\ draft'[p] = draft[p] /\ db' = db
      /\ req'[p].kind = req[p].kind /\ req'[p].step = req[p].step
      /\ req'[p].doc = req[p].doc /\ req'[p].run = req[p].run
      /\ req'[p].todo = req[p].todo /\ req'[p].content = req[p].content
      /\ req'[p].url = req[p].url
      /\ req'[p].read = [x \in DOMAIN req[p].read \cup {r} |->
                             IF x = r THEN Seen(p, x) ELSE req[p].read[x]]
  BY WaitsMoves DEF OnlyMoves
<1>2. /\ UNCHANGED <<objects, jobs, authorized, failures>> /\ crossed \subseteq crossed'
      /\ Own(p) /\ Tells
  BY RTells DEF DeleteWaits, storeVars, envVars, Crosses, RInv
<1>3. Doc(p) \in Docs /\ SoundReq(req[p]) /\ Place(req[p], "deletePassages")
  BY DeletesAt, Places DEF DeleteWaits, IInv, Sound, Doc
<1>4. /\ Doc(p)' = Doc(p) /\ Wrote(p)' = Wrote(p) /\ \A x : Seen(p, x)' = Seen(p, x)
  BY <1>1 DEF Doc, Wrote, Seen
<1>5. Doc(p) \in crossed
  <2> SUFFICES ASSUME Doc(p) \notin crossed PROVE FALSE
    OBVIOUS
  <2>1. Alone(Doc(p))
    BY <1>3 DEF KInv, DocsFit
  <2>2. PICK q \in Requests \ {p} : r \in Wrote(q)
    BY DEF DeleteWaits, Free
  <2>3. Doc(p) = Doc(q) \/ Doc(p) \in Wrote(q)
    BY <1>3, <2>2 DEF RInv, Own, OwnDraft
  <2> QED BY <2>1, <2>2, <2>3 DEF Alone, AtWorkOn
<1>6. \A d \in Docs : d # r /\ (Passages(d) = r => d = Doc(p))
  BY <1>3, RowsApart
<1>7. OwnDraft(p)'
  BY <1>1, <1>2, <1>4 DEF Own, OwnDraft, Past, Within, Deleter
<1>8. OwnUrl(p)'
  <2>1. \A d \in Docs \cap DOMAIN req[p].read : Copy(p, d)' = Copy(p, d)
    BY <1>1, <1>6 DEF Copy
  <2>2. /\ req[p].kind = "delete" => Doc(p) \in Docs \cap DOMAIN req[p].read
        /\ req[p].kind = "purge" => {Doc(p)} \cup req[p].todo \subseteq Docs \cap DOMAIN req[p].read
        /\ req[p].kind \notin {"retry", "deleteKB"}
    BY <1>3 DEF Place, SoundReq, Doc
  <2>3. \A d : Copy(p, d)' = req'[p].read[d]
    BY DEF Copy
  <2> QED BY <1>1, <1>2, <1>4, <2>1, <2>2 DEF Own, OwnUrl, Past
<1>9. Undisturbed(p)'
  BY <1>2, <1>4, <1>5 DEF Undisturbed
<1>10. NeverWaited(p)'
  BY <1>1, <1>2, <1>5, <1>6 DEF Own, NeverWaited
<1>11. \A d \in Docs : Promises(p, d) => Promises(p, d)'
  BY <1>1, <1>4 DEF Promises
<1> QED BY <1>1, <1>2, <1>7, <1>8, <1>9, <1>10, <1>11, StillUpholds DEF Own

LEMMA InsertPassagesUpholds ==
    ASSUME KInv, IInv, RInv, Crosses, NEW p \in Requests, InsertPassages(p)
    PROVE  Upholding(p)
<1>1. At(p, "insertPassages")
  BY DEF InsertPassages
<1>2. CASE Write(p, Passages(Doc(p)), [run |-> req[p].run])
  <2>1. [run |-> req[p].run].run =
            IF "insertPassages" = "deletePassages" THEN 0 ELSE req[p].run
    OBVIOUS
  <2> QED BY <1>1, <1>2, <2>1, PassagesWrittenUpholds
<1>3. CASE Raise(p) /\ UNCHANGED failures /\ Seen(p, Passages(Doc(p))).run # 0
  <2>1. Place(req[p], "insertPassages") /\ Undisturbed(p) /\ crossed \subseteq crossed' /\ Tells
    BY <1>1, <1>3, Places, RTells DEF IInv, Sound, RInv, Own, Crosses, Raise, envVars
  <2>2. Within(p, "ingest", 5, 7) \/ Within(p, "page", 6, 8)
    BY <2>1 DEF Place, Within
  <2>3. Doc(p) \notin Docs \ crossed
    BY <1>3, <2>1, <2>2 DEF Undisturbed
  <2> QED BY <1>3, <2>1, <2>3, RaiseUpholds DEF Promises
<1> QED BY <1>2, <1>3 DEF InsertPassages

-----------------------------------------------------------------------------
(* Points, bytes, the last calls, faults and crashes.                       *)

LEMMA ObjectsUphold ==
    ASSUME KInv, IInv, RInv, Crosses, NEW p \in Requests, PutPage(p) \/ DeleteObject(p)
    PROVE  Upholding(p)
<1>1. PICK call \in {"putPage", "deleteObject"} :
         /\ At(p, call)
         /\ objects' = [objects EXCEPT ![Doc(p)] = IF call = "putPage" THEN req[p].content
                                                                      ELSE None]
  BY DEF PutPage, DeleteObject
<1>2. /\ Advance(p) /\ UNCHANGED <<jobs, authorized, begun, failures>> /\ UNCHANGED dbVars
  BY DEF PutPage, DeleteObject, envVars
<1>3. /\ OnlyMoves(p) /\ draft'[p] = draft[p] /\ Stepped(req'[p], req[p])
      /\ Place(req[p], call) /\ Own(p) /\ SoundReq(req[p])
  BY <1>1, <1>2, AdvanceMoves, Places DEF RInv, IInv, Sound
<1>4. /\ Grows /\ Tells /\ SameDraft(p) /\ Wrote(p)' = Wrote(p) /\ Doc(p)' = Doc(p) /\ db' = db
      /\ \A x : Seen(p, x)' = Seen(p, x)
  BY <1>2, <1>3, RTells DEF Grows, Crosses, SameDraft, Wrote, Doc, Stepped, dbVars, Seen
<1>5. \A d \in Docs : objects'[d] = IF d # Doc(p) THEN objects[d]
                                    ELSE IF call = "putPage" THEN req[p].content ELSE None
  BY <1>1 DEF KInv, DocsFit
<1>6. CASE call = "putPage"
  <2>1. req[p].kind = "page" /\ req[p].step = 4
    BY <1>3, <1>6 DEF Place
  <2>2. req'[p].kind = "page" /\ req'[p].step = 5 /\ req'[p].content = req[p].content
    BY <1>3, <2>1 DEF Stepped
  <2>3. OwnDraft(p)'
    BY <1>3, <1>4, <2>1, <2>2 DEF Own, OwnDraft, Past, Within, Deleter
  <2>4. OwnUrl(p)'
    BY <1>3, <1>4, <2>1, <2>2 DEF Own, OwnUrl, Past, Stepped
  <2>5. Undisturbed(p)'
    BY <1>4, <1>5, <1>6, <2>2 DEF Undisturbed, Past, Within
  <2>6. NeverWaited(p)'
    BY <1>3, <1>4 DEF Own, NeverWaited, Stepped, Grows
  <2>7. \A d : d = Doc(p) => AtWorkOn(p, d)' /\ Promises(p, d)'
    BY <1>4, <2>2 DEF Promises, AtWorkOn
  <2>8. \A d \in Docs : ~Promises(p, d)
    BY <2>1 DEF Promises
  <2>10. \A d \in Docs : objects'[d] = objects[d]
                         \/ (AtWorkOn(p, d)' /\ (objects'[d] = "text" /\ db[d].state = "live"
                                                   => Promises(p, d)'))
    BY <1>5, <2>7
  <2>11. Own(p)'
    BY <2>3, <2>4, <2>5, <2>6 DEF Own
  <2> QED BY <1>2, <1>3, <2>8, <2>10, <2>11, StillUpholds
<1>7. CASE call = "deleteObject"
  <2>1. req[p].kind \in {"delete", "purge"}
    BY <1>3, <1>7 DEF Place
  <2>2. Own(p)'
    BY <1>1, <1>3, <1>4, <1>7, <2>1, OwnGoesOn
  <2>3. None # "text"
    BY IngestionAssumption DEF Contents
  <2>4. \A d \in Docs : objects'[d] = objects[d] \/ (AtWorkOn(p, d)' /\ objects'[d] # "text")
    BY <1>4, <1>5, <1>7, <2>3 DEF AtWorkOn
  <2>5. \A d \in Docs : ~Promises(p, d)
    BY <1>1, <1>7, NoPromise
  <2> QED BY <1>2, <1>3, <2>2, <2>4, <2>5, StillUpholds
<1> QED BY <1>6, <1>7

LEMMA PointsUphold ==
    ASSUME KInv, IInv, RInv, Crosses, NEW p \in Requests, DropVectors(p) \/ Upsert(p)
    PROVE  Upholding(p)
<1>1. CASE DropVectors(p)
  BY <1>1, GoUpholds DEF DropVectors, envVars, dbVars
<1>2. CASE Upsert(p)
  BY <1>2, GoUpholds DEF Upsert, envVars, dbVars
<1> QED BY <1>1, <1>2

LEMMA EmbedUpholds ==
    ASSUME KInv, IInv, RInv, Crosses, NEW p \in Requests, Embed(p)
    PROVE  Upholding(p)
<1>1. /\ At(p, "embed") /\ Place(req[p], "embed") /\ Own(p) /\ SoundReq(req[p])
      /\ SoundDraft(req[p], draft[p]) /\ crossed \subseteq crossed'
  BY Places DEF Embed, IInv, Sound, RInv, Crosses
<1>2. CASE Go(p)
  BY <1>1, <1>2, GoUpholds DEF Go, dbVars, storeVars, envVars
<1>3. ASSUME req[p].content # "text", Doc(p) \in Docs \ crossed'
      PROVE  objects[Doc(p)] # "text"
  BY <1>1, <1>3 DEF Place, Own, Undisturbed, Past
<1>4. CASE Raise(p) /\ UNCHANGED failures /\ req[p].content # "text"
  <2>1. Tells /\ objects' = objects
    BY <1>4, RTells DEF Raise, envVars, storeVars
  <2> QED BY <1>3, <1>4, <2>1, RaiseUpholds DEF Wanted, Promises
<1>5. CASE /\ Turn(p, "blankPage") /\ UNCHANGED <<dbVars, storeVars, jobs, envVars, failures>>
           /\ req[p].kind # "ingest" /\ req[p].content # "text"
  <2>1. req[p].kind = "page" /\ req[p].step = 7
    BY <1>1, <1>5 DEF Place
  <2>2. Restarted(req'[p], req[p], "blankPage") /\ OnlyMoves(p) /\ draft'[p] = draft[p]
    BY <1>5, TurnMoves DEF OnlyMoves, dbVars, IInv
  <2>3. /\ Wrote(p)' = Wrote(p) /\ Doc(p)' = Doc(p) /\ db' = db
        /\ UNCHANGED <<objects, jobs, authorized, failures>> /\ Tells
    BY <1>5, <2>2, RTells DEF Wrote, Doc, Restarted, dbVars, storeVars, envVars
  <2>4. OwnDraft(p)'
    BY <1>1, <2>1, <2>2, <2>3 DEF Own, OwnDraft, Past, Within, Restarted, Deleter
  <2>5. OwnUrl(p)'
    <3>1. Past(p, "page", 3) /\ Past(p, "page", 4)
      BY <2>1 DEF Past
    <3> QED BY <1>1, <2>2, <2>3, <3>1 DEF Own, OwnUrl, Restarted, Past
  <2>6. Undisturbed(p)'
    BY <1>3, <1>5, <2>2, <2>3 DEF Undisturbed, Past, Within, Restarted
  <2>7. NeverWaited(p)'
    BY <1>1, <2>2 DEF Own, NeverWaited, Restarted
  <2>8. Carries(p)
    <3> SUFFICES ASSUME NEW d \in Docs \ crossed', Wanted(d)'
                 PROVE  Wanted(d) /\ ~Promises(p, d) /\ jobs'[d] = jobs[d]
      BY DEF Carries
    <3>1. Wanted(d)
      BY <2>3 DEF Wanted, RunsWereFinished, OnlyFailed, FromPage
    <3>2. d # Doc(p)
      BY <1>3, <1>5, <3>1 DEF Wanted
    <3> QED BY <2>3, <3>1, <3>2 DEF Promises
  <2>9. Own(p)'
    BY <2>4, <2>5, <2>6, <2>7 DEF Own
  <2>10. \A d \in Docs : objects'[d] = objects[d] \/ AtWorkOn(p, d)'
    BY <2>3
  <2> QED BY <2>2, <2>3, <2>8, <2>9, <2>10 DEF Upholding
<1> QED BY <1>2, <1>4, <1>5 DEF Embed

LEMMA NextPageUpholds ==
    ASSUME KInv, IInv, RInv, Crosses, NEW p \in Requests, NextPage(p)
    PROVE  Upholding(p)
<1>1. /\ OnlyMoves(p) /\ draft'[p] = draft[p] /\ req[p].kind = "turn" /\ req'[p].step = 1
      /\ UNCHANGED <<objects, jobs, authorized, failures>>
      /\ \/ req'[p].kind = "finish" /\ req'[p].read = req[p].read
         \/ req'[p].kind = "page" /\ req'[p].read = NoRows /\ req'[p].url \in Urls
  BY NextPageMoves
<1>2. /\ Wrote(p) = {} /\ Wrote(p)' = {} /\ Own(p) /\ crossed \subseteq crossed'
  BY <1>1 DEF KInv, Fit, FitDraft, Empty, Wrote, RInv, Crosses
<1>3. OwnDraft(p)'
  BY <1>1, <1>2 DEF OwnDraft, Past, Within
<1>4. OwnUrl(p)'
  BY <1>1, <1>2, IngestionAssumption DEF OwnUrl, Past
<1>5. Undisturbed(p)'
  BY <1>1 DEF Undisturbed, Past, Within
<1>6. NeverWaited(p)'
  BY <1>1, <1>2 DEF Own, NeverWaited, NoRows
<1>7. \A d \in Docs : ~Promises(p, d)
  BY <1>1 DEF Promises
<1> QED BY <1>1, <1>3, <1>4, <1>5, <1>6, <1>7, StillUpholds DEF Own

LEMMA EnqueueUpholds ==
    ASSUME KInv, IInv, RInv, Crosses, NEW p \in Requests, Enqueue(p)
    PROVE  Upholding(p)
<1>1. /\ OnlyMoves(p) /\ draft'[p] = draft[p] /\ req'[p] = Idle
      /\ \/ req[p].kind \in {"upload", "retry"} /\ req[p].step = 5
            /\ jobs' = [jobs EXCEPT ![Doc(p)] = @ + 1]
         \/ req[p].kind \in {"create", "resync"} /\ req[p].step \in 4..5
            /\ (req[p].kind = "resync" => req[p].step = 5)
            /\ jobs' = [jobs EXCEPT ![Source] = @ + 1]
      /\ UNCHANGED <<objects, authorized, failures>>
  BY EnqueueMoves
<1>2. /\ Wrote(p)' = {} /\ Tells /\ db' = db
  BY <1>1, RTells DEF KInv, Fit, FitDraft, Empty, Wrote, OnlyMoves
<1>3. Own(p)'
  BY <1>1, <1>2 DEF Own, OwnDraft, OwnUrl, Undisturbed, NeverWaited, Past, Within, Idle, NoRows
<1>4. Carries(p)
  <2> SUFFICES ASSUME NEW d \in Docs \ crossed', Wanted(d)', ~StillToCome(d)'
               PROVE  Wanted(d) /\ ~Promises(p, d) /\ jobs'[d] = jobs[d]
    BY DEF Carries
  <2>1. DOMAIN jobs = Docs \cup {Source} /\ jobs[d] \in Nat /\ d # Source
    BY IngestionAssumption DEF KInv, DocsFit
  <2>2. CASE req[p].kind \in {"upload", "retry"} /\ jobs' = [jobs EXCEPT ![Doc(p)] = @ + 1]
    <3>1. d # Doc(p)
      BY <2>1, <2>2 DEF StillToCome
    <3> QED BY <1>1, <1>2, <2>1, <2>2, <3>1
            DEF Wanted, RunsWereFinished, OnlyFailed, FromPage, Promises
  <2>3. CASE req[p].kind \in {"create", "resync"} /\ jobs' = [jobs EXCEPT ![Source] = @ + 1]
    BY <1>1, <1>2, <2>1, <2>3 DEF Wanted, RunsWereFinished, OnlyFailed, FromPage, Promises
  <2> QED BY <1>1, <2>2, <2>3
<1> QED BY <1>1, <1>2, <1>3, <1>4 DEF Upholding

-----------------------------------------------------------------------------
(* What goes wrong: then nothing is promised. *)
LEMMA FaultTells ==
    ASSUME RInv, NEW kind, kind # "worker", UNCHANGED authorized,
           Fault(kind) \/ (kind = "deadlock"
                            /\ failures' = [failures EXCEPT !.kinds = @ \cup {"deadlock"}])
    PROVE  Tells /\ \A d : ~RunsWereFinished(d)' /\ ~Wanted(d)'
<1>1. "kinds" \in DOMAIN failures' /\ failures'.kinds = failures.kinds \cup {kind}
  BY DEF Fault, OneMore, RInv, RDocs
<1>2. Tells
  BY <1>1 DEF Tells, RInv, RDocs
<1>3. \A d : ~RunsWereFinished(d)'
  BY <1>1 DEF RunsWereFinished, OnlyFailed
<1> QED BY <1>2, <1>3 DEF Wanted

LEMMA DeadlockUpholds ==
    ASSUME KInv, IInv, RInv, Crosses, NEW p \in Requests, DeadlockVictim(p)
    PROVE  Upholding(p)
<1>1. Tells /\ \A d : ~Wanted(d)'
  BY FaultTells DEF DeadlockVictim, Raise, envVars
<1> QED BY <1>1, RaiseUpholds DEF DeadlockVictim

LEMMA CallFailsUpholds ==
    ASSUME KInv, IInv, RInv, Crosses, NEW p \in Requests, CallFails(p)
    PROVE  Upholding(p)
<1>1. PICK kind \in {"storage", "provider", "vectors", "broker", "database"} : Fault(kind)
  BY DEF CallFails
<1>2. UNCHANGED authorized
  BY DEF CallFails, Raise, envVars
<1>3. Tells /\ \A d : ~RunsWereFinished(d)' /\ ~Wanted(d)'
  BY <1>1, <1>2, FaultTells
<1>4. CASE Raise(p)
  BY <1>3, <1>4, RaiseUpholds
<1>5. CASE At(p, "deleteObject") /\ Advance(p) /\ UNCHANGED <<dbVars, storeVars, jobs, envVars>>
  <2>1. /\ OnlyMoves(p) /\ draft'[p] = draft[p] /\ Stepped(req'[p], req[p])
        /\ objects' = objects /\ Grows
    BY <1>5, AdvanceMoves DEF storeVars, envVars, Grows, Crosses
  <2>2. SameDraft(p)
    BY <2>1 DEF SameDraft, Wrote
  <2>3. Own(p)'
    BY <1>3, <1>5, <2>1, <2>2, OwnGoesOn
  <2>4. Carries(p)
    BY <1>3 DEF Carries
  <2> QED BY <1>3, <2>1, <2>3, <2>4 DEF Upholding
<1>6. CASE DropRows(p) /\ Recover(p) /\ objects' = objects /\ jobs' = jobs
  BY <1>3, <1>6, EndUpholds
<1> QED BY <1>4, <1>5, <1>6 DEF CallFails

LEMMA CrashUpholds ==
    ASSUME KInv, IInv, RInv, Crosses, NEW p \in Requests, Crash(p)
    PROVE  Upholding(p)
<1>1. /\ DropRows(p) /\ Finish(p) /\ objects' = objects /\ UNCHANGED authorized /\ db' = db
      /\ req'[p] = Idle /\ SoundReq(req[p]) /\ Own(p)
      /\ DOMAIN jobs = Docs \cup {Source} /\ \A x \in Docs \cup {Source} : jobs[x] \in Nat
  BY DEF Crash, storeVars, envVars, DropRows, Finish, IInv, Sound, RInv, KInv, DocsFit
<1>2. CASE req[p].kind \in ConsoleKinds /\ Fault("console") /\ UNCHANGED jobs
  <2>1. Tells /\ \A d : ~Wanted(d)'
    BY <1>1, <1>2, FaultTells
  <2> QED BY <1>1, <1>2, <2>1, EndUpholds
<1>3. ASSUME req[p].kind \in WorkerKinds, Fault("worker"),
             NEW x \in Docs \cup {Source, Doc(p)},
             x = IF req[p].kind \in CrawlKinds THEN Source ELSE Doc(p),
             jobs' = [jobs EXCEPT ![x] = @ + 1]
      PROVE  Upholding(p)
  <2>1. failures'.kinds = failures.kinds \cup {"worker"} /\ "kinds" \in DOMAIN failures'
    BY <1>3 DEF Fault, OneMore
  <2>2. Tells
    BY <1>1, <2>1 DEF Tells, RInv, RDocs
  <2>3. x \in Docs \cup {Source}
    BY <1>1, <1>3 DEF WorkerKinds, SoundReq, HasDoc, Doc
  <2>4. \A d \in Docs : jobs'[d] = jobs[d] \/ jobs'[d] > 0
    BY <1>1, <1>3, <2>3
  <2>5. ASSUME NEW d \in Docs \ crossed', Wanted(d)', Promises(p, d)
        PROVE  jobs'[d] > 0
    <3>1. CASE req[p].kind = "ingest"
      <4>1. x = d
        BY <1>3, <2>5, <3>1 DEF CrawlKinds, Promises
      <4> QED BY <1>1, <1>3, <2>3, <4>1
    <3>2. CASE req[p].kind # "ingest"
      <4>1. Past(p, "page", 3) /\ Doc(p) = d
        <5>1. req[p].kind = "page" /\ req[p].step >= 5 /\ Doc(p) = d
          BY <1>3, <2>5, <3>2 DEF Promises, WorkerKinds, CrawlKinds
        <5> QED BY <1>1, <5>1 DEF Past, SoundReq
      <4>2. FromPage(d)'
        BY <1>1, <2>5, <4>1 DEF Own, OwnUrl, Wanted, FromPage
      <4> QED BY <2>1, <2>5, <4>2 DEF Wanted, RunsWereFinished, OnlyFailed
    <3> QED BY <3>1, <3>2
  <2> QED BY <1>1, <2>2, <2>4, <2>5, EndUpholds
<1> QED BY <1>2, <1>3 DEF Crash

LEMMA CallUpholds ==
    ASSUME KInv, IInv, RInv, Crosses, NEW p \in Requests, Call(p), ~Commit(p)
    PROVE  Upholding(p)
<1>1. CASE TakeJob(p) \/ ReadKB(p) \/ ReadDoc(p) \/ ReadSource(p) \/ Authorize(p)
  BY <1>1, TakeJobUpholds, GateUpholds, ReadDocUpholds, ReadSourceUpholds
<1>2. CASE Load(p) \/ ReadAll(p) \/ CheckAtRest(p) \/ Get(p) \/ LookUp(p)
  BY <1>2, LoadUpholds, ReadAllUpholds, CheckAtRestUpholds, GetUpholds, LookUpUpholds
<1>3. CASE SaveDoc(p) \/ SaveDeleted(p) \/ SaveOther(p)
  BY <1>3, SaveDocUpholds, SaveDeletedUpholds, SaveOtherUpholds
<1>4. CASE DeletePassages(p) \/ DeleteWaits(p) \/ InsertPassages(p)
  BY <1>4, DeletePassagesUpholds, DeleteWaitsUpholds, InsertPassagesUpholds
<1>5. CASE DropVectors(p) \/ Upsert(p) \/ PutPage(p) \/ DeleteObject(p)
  BY <1>5, PointsUphold, ObjectsUphold
<1>6. CASE Embed(p) \/ PutNew(p) \/ Enqueue(p) \/ NextPage(p)
  BY <1>6, EmbedUpholds, PutNewUpholds, EnqueueUpholds, NextPageUpholds
<1>7. CASE DeadlockVictim(p)
  BY <1>7, DeadlockUpholds
<1> QED BY <1>1, <1>2, <1>3, <1>4, <1>5, <1>6, <1>7 DEF Call

-----------------------------------------------------------------------------
(* A commit: a row that becomes live, or is written again, is promised its end.*)

LEMMA CommitRInv ==
    ASSUME KInv, IInv, RInv, Crosses, NEW p \in Requests, Commit(p)
    PROVE  RInv'
<1>1. /\ draft'[p] = NoRows
      /\ \A q \in Requests \ {p} : req'[q] = req[q] /\ draft'[q] = draft[q]
      /\ \A d \in Docs : db'[d] = Seen(p, d) /\ db'[Passages(d)] = Seen(p, Passages(d))
      /\ UNCHANGED <<objects, jobs, authorized, failures>>
      /\ Place(req[p], "commit")
      /\ \/ req[p].kind \in {"upload", "retry", "resync", "create"} /\ Stepped(req'[p], req[p])
         \/ /\ req[p].kind \in {"crawl", "page", "blankPage"}
            /\ Restarted(req'[p], req[p], "turn")
         \/ /\ req[p].kind \in {"dropKB", "ingestFailed", "crawlFailed", "finish", "delete",
                                "ingest"}
            /\ req'[p] = Idle
  BY CommitEnds
<1>2. /\ DocsFit /\ OneWriter /\ Grows /\ crossed \subseteq crossed'
      /\ \A q \in Requests : Fit(q) /\ SoundReq(req[q]) /\ Own(q)
  BY <1>1 DEF KInv, Grows, Crosses, IInv, Sound, RInv, Commit, envVars
<1>3. /\ Wrote(p)' = {} /\ Tells
      /\ \A q \in Requests \ {p} : Wrote(q)' = Wrote(q) /\ Doc(q)' = Doc(q)
  BY <1>1, RTells DEF Wrote, NoRows, Doc
<1>4. \A d \in Docs : /\ d \in Wrote(p) => db'[d] = draft[p][d]
                      /\ d \notin Wrote(p) => db'[d] = db[d]
  BY <1>1 DEF Seen
<1>5. \A d \in Docs : db[d].state # "absent" => db'[d].url = db[d].url
  BY <1>1, SeenUrl
<1>6. ASSUME NEW d \in Docs \ crossed', RunsWereFinished(d)', db[d].state # "absent"
      PROVE  RunsWereFinished(d)
  BY <1>3, <1>5, <1>6, FinishedBefore
<1>7. ASSUME NEW q \in Requests \ {p}
      PROVE  Own(q)'
  <2>1. /\ req'[q] = req[q] /\ draft'[q] = draft[q] /\ Doc(q)' = Doc(q) /\ Wrote(q)' = Wrote(q)
        /\ Own(q) /\ Fit(q) /\ SoundReq(req[q])
    BY <1>1, <1>2, <1>3
  <2>2. OwnDraft(q)'
    BY <2>1 DEF Own, OwnDraft, Deleter, Past, Within
  <2>3. OwnUrl(q)'
    <3>1. OwnUrl(q) /\ \A d : Copy(q, d)' = Copy(q, d)
      BY <2>1 DEF Own, Copy
    <3>2. \A d \in Docs \cap Wrote(q) : db'[d] = db[d]
      BY <1>2, <1>4 DEF OneWriter
    <3>3. \A d \in Docs : Knows(q, d) => db'[d].url = db[d].url
      BY <1>5, <2>1 DEF Fit, FitRows
    <3>4. req[q].kind \in {"retry", "delete"} => Doc(q) \in Docs /\ Knows(q, Doc(q))
      BY <2>1 DEF SoundReq, HasDoc, Doc, Knows
    <3>5. req[q].kind = "purge"
             => \A d \in {Doc(q)} \cup req[q].todo : d \in Docs /\ Knows(q, d)
      BY <2>1 DEF SoundReq, Doc, Knows
    <3>6. ASSUME Past(q, "page", 3) \/ req[q].kind = "blankPage"
          PROVE  db'[Doc(q)].state = "absent" \/ db'[Doc(q)].url # None
      <4>1. Doc(q) \in Docs
        BY <2>1, <3>6 DEF SoundReq, HasDoc, Doc, Past
      <4>2. CASE Doc(q) \in Wrote(p)
        <5>1. ~Alone(Doc(q))
          BY <4>2 DEF Alone, AtWorkOn
        <5>2. db[Doc(q)].state # "absent"
          BY <1>2, <4>1, <5>1 DEF DocsFit
        <5> QED BY <1>5, <3>1, <3>6, <4>1, <5>2 DEF OwnUrl
      <4>3. CASE Doc(q) \notin Wrote(p)
        BY <1>4, <3>1, <3>6, <4>1, <4>3 DEF OwnUrl
      <4> QED BY <4>2, <4>3
    <3>7. /\ Past(q, "page", 3)' <=> Past(q, "page", 3)
          /\ Past(q, "page", 4)' <=> Past(q, "page", 4)
      BY <2>1 DEF Past
    <3>8. (\A d \in Docs \cap Wrote(q) : db[d].state # "absent" => draft[q][d].url = db[d].url)'
      BY <2>1, <3>1, <3>2 DEF OwnUrl
    <3>9. (req[q].kind \in {"retry", "delete"} /\ req[q].step >= 3
             => Copy(q, Doc(q)).url = db[Doc(q)].url)'
      BY <2>1, <3>1, <3>3, <3>4 DEF OwnUrl
    <3>10. (req[q].kind = "purge"
             => \A d \in {Doc(q)} \cup req[q].todo : Copy(q, d).url = db[d].url)'
      BY <2>1, <3>1, <3>3, <3>5 DEF OwnUrl
    <3>11. (req[q].kind = "deleteKB" => \A d \in req[q].todo : Copy(q, d).url = db[d].url)'
      <4>1. req[q].kind = "deleteKB" => \A d \in req[q].todo : d \in Docs /\ Knows(q, d)
        BY <2>1 DEF SoundReq, Knows
      <4> QED BY <2>1, <3>1, <3>3, <4>1 DEF OwnUrl
    <3> QED BY <2>1, <3>1, <3>6, <3>7, <3>8, <3>9, <3>10, <3>11 DEF OwnUrl
  <2>4. Undisturbed(q)'
    <3> SUFFICES ASSUME NEW d, d = Doc(q), d \in Docs \ crossed'
                 PROVE  Undisturbed(q)'
      BY <2>1 DEF Undisturbed
    <3>1. Alone(d) /\ d \in Docs \ crossed
      BY <1>2 DEF DocsFit
    <3>2. ~AtWorkOn(p, d)
      BY <3>1 DEF Alone, AtWorkOn
    <3>3. d \notin Wrote(p) /\ Passages(d) \notin Wrote(p)
      BY <1>2, <3>1, <3>2 DEF AtWorkOn, Own, OwnDraft
    <3>4. db'[d] = db[d] /\ db'[Passages(d)] = db[Passages(d)]
      BY <1>1, <3>1, <3>3 DEF Seen
    <3>5. Seen(q, d)' = Seen(q, d) /\ Seen(q, Passages(d))' = Seen(q, Passages(d))
      BY <2>1, <3>4 DEF Seen
    <3>6. RunsWereFinished(d)' => RunsWereFinished(d)
      BY <1>3, <3>4, FinishedBefore
    <3>7. Undisturbed(q)
      BY <2>1 DEF Own
    <3> QED BY <1>1, <2>1, <3>1, <3>5, <3>6, <3>7 DEF Undisturbed, Past, Within
  <2>5. NeverWaited(q)'
    BY <1>2, <2>1 DEF Own, NeverWaited
  <2> QED BY <2>2, <2>3, <2>4, <2>5 DEF Own
<1>8. \/ req[p].kind = "retry" /\ Stepped(req'[p], req[p])
      \/ req'[p].kind \in {"upload", "resync", "create"} /\ req'[p].read = req[p].read
      \/ req'[p].kind = "turn" /\ req'[p].read = req[p].read
      \/ req'[p].kind = "idle" /\ req'[p].read = NoRows
  BY <1>1 DEF Stepped, Restarted, Idle
<1>9. Own(p)'
  <2>1. OwnDraft(p)'
    BY <1>3, <1>8 DEF OwnDraft, Past, Within, Stepped
  <2>2. OwnUrl(p)'
    <3>1. CASE req[p].kind = "retry" /\ Stepped(req'[p], req[p])
      <4>1. /\ req'[p].kind = "retry" /\ Doc(p)' = Doc(p) /\ Copy(p, Doc(p))' = Copy(p, Doc(p))
            /\ req[p].step = 4
        BY <1>1, <3>1 DEF Stepped, Doc, Copy, Place
      <4>2. Doc(p) \in Docs /\ Knows(p, Doc(p))
        BY <1>2, <3>1 DEF SoundReq, HasDoc, Doc, Knows
      <4>3. db'[Doc(p)].url = db[Doc(p)].url
        BY <1>2, <1>5, <4>2 DEF Fit, FitRows
      <4>4. Copy(p, Doc(p)).url = db[Doc(p)].url
        BY <1>2, <3>1, <4>1 DEF Own, OwnUrl
      <4> QED BY <1>3, <4>1, <4>3, <4>4 DEF OwnUrl, Past
    <3>2. CASE ~(req[p].kind = "retry" /\ Stepped(req'[p], req[p]))
      BY <1>3, <1>8, <3>2 DEF OwnUrl, Past
    <3> QED BY <3>1, <3>2
  <2>3. Undisturbed(p)'
    BY <1>8 DEF Undisturbed, Past, Within, Stepped
  <2>4. NeverWaited(p)'
    BY <1>2, <1>8 DEF Own, NeverWaited, NoRows, Stepped
  <2> QED BY <2>1, <2>2, <2>3, <2>4 DEF Own
<1>10. ASSUME NEW d \in Docs \ crossed', Wanted(d)'
       PROVE  db'[d].status = "ready" \/ StillToCome(d)'
  <2>1. d \in Docs \ crossed /\ db'[d].state = "live" /\ objects[d] = "text"
        /\ RunsWereFinished(d)'
    BY <1>1, <1>2, <1>10 DEF Wanted
  <2>2. CASE d \notin Wrote(p)
    <3>1. db'[d] = db[d]
      BY <1>4, <2>2
    <3>2. Wanted(d)
      BY <1>6, <2>1, <3>1 DEF Wanted
    <3>3. ~Promises(p, d)
      <4>1. ASSUME Doc(p) = d, Past(p, "ingest", 10) \/ Past(p, "page", 11)
            PROVE  FALSE
        BY <1>2, <2>2, <4>1 DEF Own, OwnDraft
      <4>2. \/ req[p].kind = "ingest" /\ req[p].step = 10
            \/ req[p].kind = "page" /\ req[p].step = 11
            \/ req[p].kind \in {"upload", "retry"} /\ req[p].step = 4
            \/ req[p].kind \notin {"ingest", "page", "upload", "retry"}
        BY <1>1 DEF Place
      <4> QED BY <4>1, <4>2 DEF Promises, Past
    <3>4. db[d].status = "ready" \/ StillToCome(d)
      BY <2>1, <3>2 DEF RInv, RDocs
    <3>5. \A q \in Requests : Promises(q, d) => Promises(q, d)'
      BY <1>1, <3>3 DEF Promises, Doc
    <3> QED BY <1>1, <3>1, <3>4, <3>5 DEF StillToCome
  <2>3. CASE d \in Wrote(p)
    <3>1. db'[d] = draft[p][d] /\ Own(p) /\ Fit(p)
      BY <1>2, <1>4, <2>3
    <3>2. d = Doc(p) /\ req[p].kind \in {"upload", "retry", "ingest", "ingestFailed", "page",
                                         "blankPage"}
      BY <2>1, <2>3, <3>1 DEF Own, OwnDraft
    <3>3. CASE req[p].kind \in {"upload", "retry"}
      <4>1. Promises(p, d)'
        BY <1>1, <3>2, <3>3 DEF Promises, Place, Stepped, Doc
      <4> QED BY <4>1 DEF StillToCome
    <3>4. CASE req[p].kind \in {"ingest", "page"}
      <4>1. Past(p, "ingest", 10) \/ Past(p, "page", 11)
        BY <1>1, <3>4 DEF Place, Past
      <4> QED BY <3>1, <3>2, <4>1 DEF Own, OwnDraft
    <3>5. CASE req[p].kind = "blankPage"
      BY <2>1, <3>1, <3>2, <3>5 DEF Own, Undisturbed
    <3>6. CASE req[p].kind = "ingestFailed"
      <4>1. db[d].state # "absent"
        BY <3>1, <3>2, <3>6 DEF Fit, FitRows, Knows
      <4>2. RunsWereFinished(d) /\ Seen(p, d).state = "live"
        BY <1>1, <1>6, <2>1, <4>1
      <4> QED BY <2>1, <3>1, <3>2, <3>6, <4>2 DEF Own, Undisturbed
    <3> QED BY <3>2, <3>3, <3>4, <3>5, <3>6
  <2> QED BY <2>2, <2>3
<1>11. RDocs'
  BY <1>3, <1>10 DEF RDocs, Tells
<1> QED BY <1>7, <1>9, <1>11 DEF RInv

LEMMA InitRInv == Init => RInv
<1> SUFFICES ASSUME Init PROVE RInv
  OBVIOUS
<1>1. \A p \in Requests : req[p] = Idle /\ draft[p] = NoRows
  BY Starts
<1>2. \A d \in Docs : db[d].status = "ready" \/ db[d].state # "live"
  <2>1. \A url : /\ [NewDoc(url) EXCEPT !.status = "ready"].status = "ready"
                 /\ NoDoc.state # "live"
    BY DEF NewDoc, NoDoc
  <2> QED BY <2>1, Starts
<1>3. \A p \in Requests : Wrote(p) = {}
  BY <1>1 DEF Wrote, NoRows
<1>4. \A p \in Requests : Own(p)
  BY <1>1, <1>3 DEF Own, OwnDraft, OwnUrl, Undisturbed, NeverWaited, Past, Within, Idle, NoRows
<1>5. RDocs
  BY <1>2 DEF Init, RDocs, Wanted
<1> QED BY <1>4, <1>5 DEF RInv

(* Nothing of the documents moves. *)
LEMMA StillRInv ==
    ASSUME RInv, UNCHANGED <<dbVars, req, objects, jobs>>, crossed \subseteq crossed', Tells
    PROVE  RInv'
<1>1. db' = db /\ draft' = draft /\ req' = req /\ objects' = objects /\ jobs' = jobs
  BY DEF dbVars
<1>2. \A d : RunsWereFinished(d)' => RunsWereFinished(d)
  BY <1>1, FinishedBefore
<1>3. RDocs'
  <2>1. \A d : Wanted(d)' => Wanted(d)
    BY <1>1, <1>2 DEF Wanted
  <2> QED BY <1>1, <2>1 DEF RInv, RDocs, Tells, StillToCome, Promises, Doc
<1>4. ASSUME NEW q \in Requests
      PROVE  Own(q)'
  <2>1. Own(q)
    BY DEF RInv
  <2>2. OwnDraft(q)'
    BY <1>1, <2>1 DEF Own, OwnDraft, Wrote, Doc, Deleter, Past, Within
  <2>3. OwnUrl(q)'
    BY <1>1, <2>1 DEF Own, OwnUrl, Wrote, Doc, Copy, Past
  <2>4. Undisturbed(q)'
    BY <1>1, <1>2, <2>1 DEF Own, Undisturbed, Wrote, Doc, Seen, Past, Within
  <2>5. NeverWaited(q)'
    BY <1>1, <2>1 DEF Own, NeverWaited
  <2> QED BY <2>2, <2>3, <2>4, <2>5 DEF Own
<1> QED BY <1>3, <1>4 DEF RInv

LEMMA NextRInv == RInv /\ KInv /\ IInv /\ [Next]_vars => RInv'
<1> SUFFICES ASSUME RInv, KInv, IInv, [Next]_vars PROVE RInv'
  OBVIOUS
<1>1. Next => Crosses
  BY DEF Next, Crosses
<1>2. KInv'
  BY NextKInv
<1>3. ASSUME NEW p \in Requests, Crosses, Upholding(p), begun.kinds \subseteq begun'.kinds
      PROVE  RInv'
  BY <1>2, <1>3, UpheldDocs DEF Grows, Crosses
<1>4. ASSUME NEW p \in Requests, Crosses, Arrive(p)
      PROVE  RInv'
  <2>1. begun.kinds \subseteq begun'.kinds
    BY <1>4, ArriveMoves DEF OneMore
  <2> QED BY <1>3, <1>4, <2>1, ArriveUpholds
<1>5. ASSUME NEW p \in Requests, Crosses, Call(p) \/ CallFails(p) \/ Crash(p)
      PROVE  RInv'
  <2>1. begun' = begun
    BY <1>5 DEF Call, CallFails, Crash, TakeJob, ReadKB, ReadDoc, ReadSource, ReadAll,
         CheckAtRest, Authorize, Load, Get, LookUp, SaveDoc, SaveRetried, InsertLive, SaveDeleted, SaveOther, Write,
         DeletePassages, DeleteWaits, InsertPassages, DropVectors, Embed, Upsert, PutNew, PutPage,
         DeleteObject, Enqueue, Commit, NextPage, DeadlockVictim, Raise, Refuse, Go, Keep, envVars
  <2> QED BY <1>3, <1>5, <2>1, CallUpholds, CommitRInv, CallFailsUpholds, CrashUpholds
<1>6. CASE Next /\ Revoke
  <2>1. UNCHANGED <<dbVars, req, objects, jobs>> /\ crossed \subseteq crossed'
    BY <1>1, <1>6 DEF Revoke, storeVars, Crosses
  <2>2. Tells
    BY <1>6 DEF Revoke, Fault, OneMore, Tells
  <2> QED BY <2>1, <2>2, StillRInv
<1>7. CASE UNCHANGED vars
  <2>1. UNCHANGED <<dbVars, req, objects, jobs>> /\ crossed \subseteq crossed'
        /\ UNCHANGED <<authorized, failures>>
    BY <1>7 DEF vars, stateVars, dbVars
  <2> QED BY <2>1, RTells, StillRInv
<1> QED BY <1>1, <1>4, <1>5, <1>6, <1>7 DEF Next

(* However often the job of a document is run, and wherever a worker died, the*)
(* last run leaves the document ready: process_document_upload clears what an*)
(* earlier one left before it indexes.                                      *)
THEOREM RunsEndAlike == Spec => []RunsAgree
<1>1. RInv => RunsAgree
  <2> SUFFICES ASSUME RInv, NEW d \in Docs \ crossed, Wanted(d), Quiet(d)
               PROVE  db[d].status = "ready"
    BY DEF RunsAgree, Wanted
  <2>1. ~StillToCome(d)
    BY DEF StillToCome, Quiet, Promises, AtWorkOn
  <2> QED BY <2>1 DEF RInv, RDocs
<1> QED BY <1>1, InitSound, NextSound, InitKInv, NextKInv, InitRInv, NextRInv, PTL DEF Spec

-----------------------------------------------------------------------------
(* Whose points a document has when runs of it overlap.                     *)
(* SInv: of a document that lasts, the points are those of the run whose    *)
(* passages are stored, or a run is queued or under way that will put its   *)
(* own in their place.  The insert of the passages waits for other runs and *)
(* fails on theirs; that is what makes the points of the last run to insert *)
(* the last to be upserted.  Serving is what each move does for SInv, a     *)
(* commit apart.                                                            *)

(* What keeps SInv when p makes a move other than a commit: where p changes *)
(* the points of a document that lasts, p or another run is there for them. *)
Leaves(p, d) ==
    /\ vectors'[d] = vectors[d] \/ Ingests(p, d)' \/ (Doc(p)' = d /\ Past(p, "page", 7)')
    /\ objects'[d] = objects[d] \/ \A q \in Requests \ {p} : ~AtWorkOn(q, d)
    /\ Redoes(p, d) => Redoes(p, d)' \/ jobs'[d] > 0
    /\ jobs[d] > 0 => jobs'[d] > 0 \/ Ingests(p, d)'
    /\ Ingests(p, d) => \/ Ingests(p, d)' \/ jobs'[d] > 0 \/ objects'[d] # "text"
                        \/ db[Passages(d)].run # 0 /\ Free(p, Passages(d))

Serving(p) ==
    /\ OnlyMoves(p) /\ Tells /\ Noted(p)'
    /\ \A d \in Docs :
          /\ Points(p, d)'
          /\ vectors'[d] = vectors[d] \/ AtWorkOn(p, d)'
          /\ RunsWereFinished(d)' /\ Deletes(p, d) => Deletes(p, d)'
          /\ Calm(d)' => Leaves(p, d)

LEMMA CalmBefore ==
    ASSUME NEW p \in Requests, OnlyMoves(p), Tells, Grows, NEW d \in Docs, Calm(d)',
           RunsWereFinished(d)' /\ Deletes(p, d) => Deletes(p, d)'
    PROVE  Calm(d)
<1>1. db' = db /\ \A q \in Requests \ {p} : req'[q] = req[q] /\ draft'[q] = draft[q]
  BY DEF OnlyMoves
<1>2. RunsWereFinished(d)' /\ db'[d].state = "live" /\ \A q \in Requests : ~Deletes(q, d)'
  BY DEF Calm
<1>3. RunsWereFinished(d)
  BY <1>1, <1>2, FinishedBefore
<1>4. \A q \in Requests \ {p} : Deletes(q, d) => Deletes(q, d)'
  BY <1>1 DEF Deletes, Past, Deleter, Wrote, Doc
<1>5. IF FromPage(d) THEN d \notin crossed ELSE Lasts(d)
  BY <1>1, LastsBefore DEF Calm, FromPage, Grows
<1> QED BY <1>1, <1>2, <1>3, <1>4, <1>5 DEF Calm

(* The run of a page has the document to itself. *)
LEMMA PageAlone ==
    ASSUME KInv, RInv, NEW p \in Requests, NEW d \in Docs, Doc(p) = d, Calm(d),
           Past(p, "page", 3) \/ req[p].kind = "blankPage"
    PROVE  d \notin crossed /\ Alone(d)
BY DEF KInv, DocsFit, RInv, Own, OwnUrl, Calm, FromPage

LEMMA OthersPoints ==
    ASSUME KInv, RInv, SInv, IInv, KInv', RInv', IInv', NEW p \in Requests, Serving(p), Grows,
           NEW q \in Requests \ {p}, NEW d \in Docs
    PROVE  Points(q, d)' /\ Noted(q)'
<1>1. /\ req'[q] = req[q] /\ draft'[q] = draft[q] /\ db' = db
      /\ \A h \in Requests \ {p} : req'[h] = req[h]
      /\ Doc(q)' = Doc(q) /\ Wrote(q)' = Wrote(q)
      /\ Points(q, d) /\ Noted(q)
  BY DEF Serving, OnlyMoves, SInv, Doc, Wrote
<1>2. Noted(q)'
  BY <1>1 DEF Noted
<1>3. Calm(d)' => Calm(d) /\ Leaves(p, d)
  BY CalmBefore DEF Serving
<1>4. Doc(q) = d => AtWorkOn(q, d) /\ AtWorkOn(q, d)'
  BY <1>1 DEF AtWorkOn
<1>5. Fetched(q, d)'
  <2>1. Calm(d)' /\ Doc(q) = d => objects'[d] = objects[d]
    BY <1>3, <1>4 DEF Leaves
  <2> QED BY <1>1, <1>3, <2>1 DEF Points, Fetched, Ingests
<1>6. RunPoints(q, d)'
  <2> SUFFICES ASSUME Ingests(q, d), req[q].step >= 6, Calm(d)', objects'[d] = "text",
                      req[q].step >= 8 \/ Seen(q, Passages(d))'.run = 0
               PROVE  \/ vectors'[d] = IF req[q].step >= 9 THEN {req[q].run} ELSE {}
                      \/ Rerun(d, q)'
    BY <1>1 DEF RunPoints, Ingests
  <2>1. Seen(q, Passages(d))' = Seen(q, Passages(d)) /\ objects[d] = "text"
    BY <1>1, <1>3, <1>4 DEF Seen, Leaves, Ingests
  <2>2. \/ vectors[d] = IF req[q].step >= 9 THEN {req[q].run} ELSE {}
        \/ Rerun(d, q)
    BY <1>1, <1>3, <2>1 DEF Points, RunPoints
  <2>3. CASE Rerun(d, q)
    <3>1. CASE jobs[d] > 0
      BY <1>3, <3>1 DEF Leaves, Rerun
    <3>2. ASSUME NEW h \in Requests \ {q}, h # p, Ingests(h, d)
          PROVE  Rerun(d, q)'
      BY <1>1, <3>2 DEF Rerun, Ingests, Doc
    <3>3. CASE Ingests(p, d)
      <4>1. ASSUME db[Passages(d)].run # 0, Free(p, Passages(d))
            PROVE  FALSE
        <5>1. Passages(d) \notin Wrote(q)
          BY <4>1 DEF Free
        <5>2. req[q].step < 8
          BY <5>1 DEF IInv, Sound, SoundReq, SoundDraft, Inserted, Ingests, Wrote, Doc
        <5>3. Seen(q, Passages(d)).run = 0
          BY <2>1, <5>2 DEF IInv, Sound, SoundReq
        <5> QED BY <4>1, <5>1, <5>3 DEF Seen
      <4> QED BY <1>3, <3>3, <4>1 DEF Leaves, Rerun
    <3> QED BY <2>3, <3>1, <3>2, <3>3 DEF Rerun
  <2>4. CASE vectors'[d] = vectors[d]
    BY <2>2, <2>3, <2>4
  <2>5. CASE Ingests(p, d)'
    BY <2>5 DEF Rerun
  <2>6. CASE Doc(p)' = d /\ Past(p, "page", 7)'
    <3>1. Past(p, "page", 3)'
      BY <2>6 DEF Past, IInv, Sound, SoundReq
    <3>2. (d \notin crossed /\ Alone(d))'
      BY <2>6, <3>1 DEF KInv, DocsFit, RInv, Own, OwnUrl, Calm, FromPage
    <3>3. AtWorkOn(p, d)'
      BY <2>6 DEF AtWorkOn
    <3> QED BY <1>4, <3>2, <3>3 DEF Alone, Ingests
  <2> QED BY <1>3, <2>4, <2>5, <2>6 DEF Leaves
<1>7. PagePoints(q, d)'
  <2> SUFFICES ASSUME Doc(q) = d, d \notin crossed'
               PROVE  PagePoints(q, d)'
    BY <1>1 DEF PagePoints
  <2>1. Alone(d)' /\ d \notin crossed
    BY DEF KInv, DocsFit, Grows
  <2>2. vectors'[d] = vectors[d]
    BY <1>4, <2>1 DEF Serving, Alone
  <2> QED BY <1>1, <2>1, <2>2 DEF Points, PagePoints, Past
<1> QED BY <1>2, <1>5, <1>6, <1>7 DEF Points

LEMMA ServedDocs ==
    ASSUME KInv, RInv, SInv, IInv, KInv', RInv', IInv', NEW p \in Requests, Serving(p), Grows
    PROVE  SInv'
<1>1. /\ db' = db /\ \A q \in Requests \ {p} : req'[q] = req[q]
      /\ Noted(p)' /\ \A d \in Docs : Points(p, d)'
  BY DEF Serving, OnlyMoves
<1>2. ASSUME NEW d \in Docs, Answers(d)', Calm(d)'
      PROVE  Searchable(d)' \/ jobs'[d] > 0 \/ \E q \in Requests : Redoes(q, d)'
  <2>1. Calm(d) /\ Leaves(p, d) /\ Answers(d)
    BY <1>1, <1>2, CalmBefore DEF Serving, Answers
  <2>2. CASE Searchable(d)
    <3>1. CASE vectors'[d] = vectors[d]
      BY <1>1, <2>2, <3>1 DEF Searchable
    <3>2. CASE Ingests(p, d)' \/ (Doc(p)' = d /\ Past(p, "page", 7)')
      <4>1. Redoes(p, d)'
        BY <3>2 DEF Redoes, Ingests
      <4> QED BY <4>1
    <3> QED BY <2>1, <3>1, <3>2 DEF Leaves
  <2>3. CASE jobs[d] > 0
    BY <2>1, <2>3 DEF Leaves, Redoes, Ingests
  <2>4. ASSUME NEW q \in Requests, Redoes(q, d)
        PROVE  jobs'[d] > 0 \/ Redoes(q, d)'
    <3>1. CASE q = p
      BY <2>1, <2>4, <3>1 DEF Leaves
    <3>2. CASE q # p
      BY <1>1, <2>4, <3>2 DEF Redoes, Past, Doc
    <3> QED BY <3>1, <3>2
  <2> QED BY <2>1, <2>2, <2>3, <2>4 DEF SInv, SDocs
<1>3. SDocs'
  BY <1>2 DEF SDocs
<1>4. \A q \in Requests \ {p} : \A d \in Docs : Points(q, d)' /\ Noted(q)'
  BY OthersPoints
<1>5. \A q \in Requests : Noted(q)'
  BY <1>1, <1>4, IngestionAssumption
<1> QED BY <1>1, <1>3, <1>4, <1>5 DEF SInv

-----------------------------------------------------------------------------
(* A request that goes on, that answers for nobody's points, that fails.    *)

(* A call of a request that goes on. *)
Moving(p) ==
    \/ req[p].kind = "ingest" \/ Past(p, "page", 7)'
    \/ Past(p, "delete", 4)' \/ Past(p, "purge", 2)'

LEMMA StepServes ==
    ASSUME KInv, IInv, RInv, SInv, Grows, NEW p \in Requests, OnlyMoves(p), Tells,
           req'[p].kind = req[p].kind, req'[p].step = req[p].step + 1, req'[p].doc = req[p].doc,
           jobs' = jobs,
           \A d \in Docs \cap Wrote(p) : d \in Wrote(p)',
           \A d \in Docs : vectors'[d] = vectors[d] \/ (d = Doc(p) /\ Moving(p)),
           \A d \in Docs : Calm(d) /\ Calm(d)' =>
               objects'[d] = objects[d] \/ \A q \in Requests \ {p} : ~AtWorkOn(q, d),
           \A d \in Docs : d = Doc(p) /\ (Calm(d)' => Calm(d)) => Points(p, d)',
           Noted(p)'
    PROVE  Serving(p)
<1>1. /\ req[p].step \in Nat /\ Doc(p)' = Doc(p)
      /\ \A d : Doc(p) = d => AtWorkOn(p, d)'
  BY DEF IInv, Sound, SoundReq, Doc, AtWorkOn
<1>2. ASSUME NEW d \in Docs
      PROVE  /\ Deletes(p, d) => Deletes(p, d)'
             /\ Redoes(p, d) => Redoes(p, d)'
             /\ Ingests(p, d) => Ingests(p, d)'
  <2>1. /\ Past(p, "delete", 4) => Past(p, "delete", 4)'
        /\ Past(p, "purge", 2) => Past(p, "purge", 2)'
        /\ Past(p, "page", 7) => Past(p, "page", 7)'
    BY <1>1 DEF Past
  <2>2. Deletes(p, d) => Deletes(p, d)'
    BY <1>1, <2>1 DEF Deletes, Deleter
  <2>3. Redoes(p, d) => Redoes(p, d)'
    BY <1>1, <2>1 DEF Redoes
  <2>4. Ingests(p, d) => Ingests(p, d)'
    BY <1>1 DEF Ingests
  <2> QED BY <2>2, <2>3, <2>4
<1>3. ASSUME NEW d \in Docs
      PROVE  Calm(d)' => Calm(d)
  BY <1>2, CalmBefore
<1>4. ASSUME NEW d \in Docs, Calm(d)'
      PROVE  Leaves(p, d)
  <2>1. vectors'[d] = vectors[d] \/ Ingests(p, d)' \/ (Doc(p)' = d /\ Past(p, "page", 7)')
    <3>1. CASE d = Doc(p) /\ (Past(p, "delete", 4)' \/ Past(p, "purge", 2)')
      <4>1. Deletes(p, d)'
        BY <1>1, <3>1 DEF Deletes
      <4> QED BY <1>4, <4>1 DEF Calm
    <3>2. CASE d = Doc(p) /\ req[p].kind = "ingest"
      BY <1>1, <3>2 DEF Ingests
    <3> QED BY <1>1, <3>1, <3>2 DEF Moving
  <2> QED BY <1>2, <1>3, <1>4, <2>1 DEF Leaves
<1>5. \A d \in Docs : Points(p, d)'
  <2>1. \A d \in Docs : d # Doc(p) => Points(p, d)'
    BY <1>1 DEF Points, Fetched, RunPoints, PagePoints, Ingests
  <2> QED BY <1>3, <2>1
<1>6. \A d \in Docs : vectors'[d] = vectors[d] \/ AtWorkOn(p, d)'
  BY <1>1
<1> QED BY <1>2, <1>4, <1>5, <1>6 DEF Serving

(* A move of a request that answers for nobody's points. *)
LEMMA AsideServes ==
    ASSUME KInv, IInv, RInv, SInv, Grows, NEW p \in Requests, OnlyMoves(p), Tells,
           \A d \in Docs : vectors'[d] = vectors[d] \/ (AtWorkOn(p, d)' /\ ~Calm(d)'),
           req'[p].kind \in {"ingest", "page", "delete"} => req'[p].step \in 1..3,
           req'[p].kind = "ingestFailed" => req'[p].step = 1,
           \A d \in Docs : RunsWereFinished(d)' /\ Deletes(p, d) => Deletes(p, d)',
           \A d \in Docs : Calm(d)' =>
               /\ objects'[d] = objects[d] \/ \A q \in Requests \ {p} : ~AtWorkOn(q, d)
               /\ jobs[d] > 0 => jobs'[d] > 0 \/ Ingests(p, d)'
               /\ Redoes(p, d) => jobs'[d] > 0
    PROVE  Serving(p)
<1>1. /\ ~Past(p, "ingest", 4)' /\ ~Past(p, "page", 7)'
      /\ ~Past(p, "ingestFailed", 2)' /\ ~Past(p, "delete", 7)'
  BY DEF Past
<1>2. Noted(p)'
  BY <1>1 DEF Noted, Past
<1>3. \A d \in Docs : Points(p, d)'
  BY DEF Points, Fetched, RunPoints, PagePoints, Ingests, Past
<1>4. \A d \in Docs : Ingests(p, d) => Redoes(p, d)
  BY DEF Ingests, Redoes
<1>5. \A d \in Docs : Calm(d)' => Leaves(p, d)
  BY <1>4 DEF Leaves
<1> QED BY <1>2, <1>3, <1>5 DEF Serving

(* A run of an upload that ends in failure: it has its status to record. *)
LEMMA FailedRunServes ==
    ASSUME KInv, IInv, RInv, SInv, Crosses, NEW p \in Requests, Raise(p), UNCHANGED failures,
           req[p].kind = "ingest",
           \A d \in Docs : d = Doc(p) /\ Calm(d) =>
               objects[d] # "text" \/ (db[Passages(d)].run # 0 /\ Free(p, Passages(d)))
    PROVE  Serving(p)
<1>1. /\ OnlyMoves(p) /\ UNCHANGED <<vectors, objects, jobs, begun>> /\ Tells /\ Grows
      /\ Recover(p) /\ IInv /\ db' = db
  BY DropMoves, RTells DEF Raise, storeVars, envVars, Grows, Crosses, OnlyMoves
<1>2. Restarted(req'[p], req[p], "ingestFailed")
  BY <1>1, TurnMoves DEF Recover
<1>3. /\ Doc(p)' = Doc(p) /\ req'[p].kind = "ingestFailed" /\ req'[p].step = 1
  BY <1>2 DEF Restarted, Doc
<1>4. \A d \in Docs : /\ ~Deletes(p, d)
                      /\ Redoes(p, d) => Redoes(p, d)'
                      /\ Points(p, d)'
  BY <1>3 DEF Deletes, Deleter, Past, Redoes, Points, Fetched, RunPoints, PagePoints, Ingests
<1>5. Noted(p)'
  BY <1>3 DEF Noted
<1>6. ASSUME NEW d \in Docs, Calm(d)'
      PROVE  Leaves(p, d)
  <2>1. Calm(d)
    BY <1>1, <1>4, <1>6, CalmBefore
  <2>2. Ingests(p, d) => \/ objects'[d] # "text"
                         \/ db[Passages(d)].run # 0 /\ Free(p, Passages(d))
    BY <1>1, <2>1 DEF Ingests
  <2> QED BY <1>1, <1>4, <2>2 DEF Leaves
<1> QED BY <1>1, <1>4, <1>5, <1>6 DEF Serving

(* A call that fails: what is promised of points is promised without that. *)
LEMMA FaultServes ==
    ASSUME KInv, IInv, RInv, SInv, Crosses, NEW p \in Requests, DropRows(p),
           Recover(p) \/ Finish(p), Tells, begun' = begun,
           \A d \in Docs :
               \/ vectors'[d] = vectors[d]
               \/ d = Doc(p) /\ req[p].kind \in {"ingest", "page"} /\ Recover(p),
           \A d : ~RunsWereFinished(d)'
    PROVE  Serving(p)
<1>1. OnlyMoves(p) /\ Recovered(req'[p], req[p]) /\ Grows
  BY DropMoves DEF Grows, Crosses
<1>2. /\ req'[p].kind \notin {"ingest", "page", "delete"}
      /\ req'[p].kind = "ingestFailed" => req'[p].step = 1
  BY <1>1 DEF Recovered, Restarted, Idle
<1>3. \A d \in Docs : ~Calm(d)'
  BY DEF Calm
<1>4. req[p].kind \in {"ingest", "page"} /\ Recover(p) => Doc(p)' = Doc(p)
  <2>1. ASSUME req[p].kind \in {"ingest", "page"}, Recover(p)
        PROVE  \E kind : Turn(p, kind)
    BY <2>1 DEF Recover
  <2>2. ASSUME NEW kind, Turn(p, kind)
        PROVE  Doc(p)' = Doc(p)
    BY <2>2, TurnMoves DEF Restarted, Doc
  <2> QED BY <2>1, <2>2
<1>5. \A d \in Docs : vectors'[d] = vectors[d] \/ (AtWorkOn(p, d)' /\ ~Calm(d)')
  BY <1>3, <1>4 DEF AtWorkOn
<1> QED BY <1>1, <1>2, <1>3, <1>5, AsideServes

-----------------------------------------------------------------------------
(* The calls that leave the points alone.                                   *)

LEMMA CallServes ==
    ASSUME KInv, IInv, RInv, SInv, Grows, NEW p \in Requests, NEW call, At(p, call),
           call \notin {"commit", "get", "dropVectors", "upsert", "lookUp", "putNew"},
           OnlyMoves(p), Tells, jobs' = jobs, vectors' = vectors,
           req'[p].kind = req[p].kind, req'[p].step = req[p].step + 1, req'[p].doc = req[p].doc,
           req'[p].run = req[p].run, req'[p].content = req[p].content,
           \A d \in Docs \cap Wrote(p) : d \in Wrote(p)',
           call = "embed" => req[p].content = "text" /\ draft'[p] = draft[p],
           call = "insertPassages" => Seen(p, Passages(Doc(p))).run = 0,
           call \in {"saveFailed", "saveDeleted"} => Doc(p) \in Wrote(p)',
           objects' = objects \/ req[p].kind # "ingest",
           \A d \in Docs : Calm(d) /\ Calm(d)' =>
               objects'[d] = objects[d] \/ \A q \in Requests \ {p} : ~AtWorkOn(q, d)
    PROVE  Serving(p)
<1>1. /\ CallOf(req[p], call) /\ Place(req[p], call) /\ SoundReq(req[p]) /\ req[p].step \in Nat
      /\ db' = db /\ \A q \in Requests \ {p} : req'[q] = req[q]
  BY Places DEF IInv, Sound, SoundReq, OnlyMoves
<1>2. /\ Doc(p)' = Doc(p) /\ Noted(p) /\ \A d \in Docs : Points(p, d)
      /\ \A d \in Docs : Ingests(p, d)' <=> Ingests(p, d)
      /\ \A d \in Docs : Rerun(d, p) => Rerun(d, p)'
      /\ HasDoc(req[p]) => Doc(p) \in Docs
  BY <1>1 DEF Doc, SInv, Ingests, Rerun, SoundReq
<1>3. Noted(p)'
  <2>1. /\ req[p].kind = "ingestFailed" /\ req'[p].step >= 2 => call = "saveFailed"
        /\ req[p].kind = "delete" /\ req'[p].step >= 7 => call = "saveDeleted"
    BY <1>1 DEF CallOf
  <2> QED BY <1>2, <2>1 DEF Noted
<1>4. ASSUME NEW d \in Docs, d = Doc(p), Calm(d)' => Calm(d)
      PROVE  Points(p, d)'
  <2>1. Points(p, d)
    BY <1>2
  <2>2. Fetched(p, d)'
    <3>1. req[p].kind = "ingest" =>
             /\ req'[p].step >= 4 => req[p].step >= 4
             /\ req'[p].step >= 7 => req[p].step >= 7 \/ call = "embed"
      BY <1>1 DEF CallOf
    <3> QED BY <1>2, <1>4, <2>1, <3>1 DEF Points, Fetched, Ingests
  <2>3. RunPoints(p, d)'
    <3> SUFFICES ASSUME Ingests(p, d), req'[p].step >= 6, Calm(d), objects[d] = "text",
                        req'[p].step >= 8 \/ Seen(p, Passages(d))'.run = 0
                 PROVE  \/ vectors[d] = IF req'[p].step >= 9 THEN {req[p].run} ELSE {}
                        \/ Rerun(d, p)
      BY <1>2, <1>4 DEF RunPoints, Ingests
    <3>1. /\ req[p].step \in {6, 7, 9} /\ (req[p].step = 6 => call = "embed")
          /\ (req[p].step = 7 => call = "insertPassages")
      BY <1>1 DEF CallOf, Ingests
    <3>2. req[p].step = 6 => Seen(p, Passages(d)).run = 0
      BY <1>1, <3>1 DEF Seen, Wrote
    <3> QED BY <1>4, <2>1, <3>1, <3>2 DEF Points, RunPoints
  <2>4. PagePoints(p, d)'
    <3>1. req[p].kind = "page" => 
             /\ req'[p].step >= 7 => req[p].step >= 7
             /\ req'[p].step >= 10 <=> req[p].step >= 10
      BY <1>1 DEF CallOf
    <3> QED BY <1>2, <2>1, <3>1 DEF Points, PagePoints, Past, Grows
  <2> QED BY <2>2, <2>3, <2>4 DEF Points
<1>5. \A d \in Docs : d = Doc(p) /\ (Calm(d)' => Calm(d)) => Points(p, d)'
  BY <1>4
<1> QED BY <1>3, <1>5, StepServes

LEMMA GoServes ==
    ASSUME KInv, IInv, RInv, SInv, Crosses, NEW p \in Requests, NEW call, At(p, call),
           call \notin {"commit", "get", "dropVectors", "upsert", "lookUp", "putNew",
                        "insertPassages", "saveFailed", "saveDeleted"},
           call = "embed" => req[p].content = "text",
           Advance(p), UNCHANGED <<db, draft, vectors, objects, jobs, begun>>, Tells
    PROVE  Serving(p)
<1>1. /\ OnlyMoves(p) /\ draft'[p] = draft[p] /\ Stepped(req'[p], req[p])
  BY AdvanceMoves DEF dbVars
<1>2. Grows /\ Wrote(p)' = Wrote(p)
  BY <1>1 DEF Grows, Crosses, Wrote
<1> QED BY <1>1, <1>2, CallServes DEF Stepped

-----------------------------------------------------------------------------
(* Arrivals, jobs, gates and the calls before the first write.              *)

(* A move of a request that has no points to answer for yet. *)
LEMMA EarlyServes ==
    ASSUME KInv, IInv, RInv, SInv, Crosses, NEW p \in Requests, OnlyMoves(p), Tells,
           begun.kinds \subseteq begun'.kinds, vectors' = vectors,
           \/ req[p].kind \in {"idle", "upload", "retry", "deleteKB", "create", "resync", "turn"}
           \/ req[p].kind \in {"page", "delete"} /\ req[p].step \in 1..3,
           req'[p].kind \in {"ingest", "page", "delete"} => req'[p].step \in 1..3,
           req'[p].kind # "ingestFailed",
           \A d \in Docs : objects'[d] = objects[d] \/ \A q \in Requests \ {p} : ~AtWorkOn(q, d),
           \A d \in Docs : jobs[d] > 0 => jobs'[d] > 0 \/ Ingests(p, d)'
    PROVE  Serving(p)
<1>1. Grows
  BY DEF Grows, Crosses
<1>2. \A d \in Docs : ~Deletes(p, d) /\ ~Redoes(p, d)
  BY DEF Deletes, Redoes, Past
<1> QED BY <1>1, <1>2, AsideServes

LEMMA ArriveServes ==
    ASSUME KInv, IInv, RInv, SInv, Crosses, NEW p \in Requests, Arrive(p)
    PROVE  Serving(p)
<1>1. PICK kind \in {"upload", "deleteKB", "create", "resync", "retry", "delete"} :
         begun' = OneMore(begun, kind) /\ req'[p].kind = kind /\ req'[p].step = 1
  BY ArriveMoves
<1>2. /\ OnlyMoves(p) /\ req[p].kind = "idle"
      /\ UNCHANGED <<vectors, objects, jobs, authorized, failures>>
  BY ArriveMoves
<1>3. Tells /\ begun.kinds \subseteq begun'.kinds
  BY <1>1, <1>2, RTells DEF OneMore
<1> QED BY <1>1, <1>2, <1>3, EarlyServes

LEMMA TakeJobServes ==
    ASSUME KInv, IInv, RInv, SInv, Crosses, NEW p \in Requests, TakeJob(p)
    PROVE  Serving(p)
<1>1. PICK x \in Docs \cup {Source} :
         /\ jobs[x] > 0 /\ jobs' = [jobs EXCEPT ![x] = @ - 1] /\ req'[p].step = 1
         /\ \/ x = Source /\ req'[p].kind = "crawl" /\ req'[p].doc = None
            \/ x \in Docs /\ req'[p].kind = "ingest" /\ req'[p].doc = x
  BY TakeJobMoves
<1>2. /\ OnlyMoves(p) /\ req[p].kind = "idle" /\ Tells
      /\ UNCHANGED <<vectors, objects, authorized, begun, failures>>
  BY TakeJobMoves, RTells
<1>3. \A d \in Docs : jobs[d] > 0 => jobs'[d] > 0 \/ Ingests(p, d)'
  <2>1. /\ DOMAIN jobs = Docs \cup {Source} /\ \A d \in Docs : jobs[d] \in Nat /\ d # Source
    BY IngestionAssumption DEF KInv, DocsFit
  <2> QED BY <1>1, <2>1 DEF Ingests, Doc
<1> QED BY <1>1, <1>2, <1>3, EarlyServes

LEMMA NextPageServes ==
    ASSUME KInv, IInv, RInv, SInv, Crosses, NEW p \in Requests, NextPage(p)
    PROVE  Serving(p)
<1>1. /\ OnlyMoves(p) /\ req[p].kind = "turn" /\ req'[p].step = 1
      /\ UNCHANGED <<vectors, objects, jobs, authorized, begun, failures>>
      /\ req'[p].kind \in {"finish", "page"}
  BY NextPageMoves
<1>2. Tells
  BY <1>1, RTells
<1> QED BY <1>1, <1>2, EarlyServes

LEMMA EnqueueServes ==
    ASSUME KInv, IInv, RInv, SInv, Crosses, NEW p \in Requests, Enqueue(p)
    PROVE  Serving(p)
<1>1. PICK x : /\ jobs' = [jobs EXCEPT ![x] = @ + 1]
               /\ req[p].kind \in {"upload", "retry", "create", "resync"}
  BY EnqueueMoves
<1>2. /\ OnlyMoves(p) /\ req'[p] = Idle
      /\ UNCHANGED <<vectors, objects, authorized, begun, failures>>
  BY EnqueueMoves
<1>3. Tells /\ \A d \in Docs : jobs[d] > 0 => jobs'[d] > 0
  BY <1>1, <1>2, RTells DEF KInv, DocsFit
<1> QED BY <1>1, <1>2, <1>3, EarlyServes DEF Idle

(* A page or an upload that looks for its document. *)
LEMMA FindServes ==
    ASSUME KInv, IInv, RInv, SInv, Crosses, NEW p \in Requests, LookUp(p) \/ PutNew(p)
    PROVE  Serving(p)
<1>1. PICK call \in {"lookUp", "putNew"} : At(p, call)
  BY DEF LookUp, PutNew
<1>2. \/ req[p].kind = "page" /\ req[p].step = 2
      \/ req[p].kind = "upload"
  BY <1>1, Places DEF Place, IInv, Sound
<1>3. PICK d : req' = [req EXCEPT ![p].step = @ + 1, ![p].doc = d]
  BY DEF LookUp, PutNew
<1>4. /\ UNCHANGED dbVars /\ UNCHANGED <<vectors, jobs, authorized, begun, failures>>
      /\ \/ objects' = objects
         \/ Unused # {} /\ \E c : objects' = [objects EXCEPT ![AnyOf(Unused)] = c]
  BY DEF LookUp, PutNew, storeVars, envVars
<1>5. /\ OnlyMoves(p) /\ req'[p].kind = req[p].kind /\ req'[p].step = req[p].step + 1
  BY <1>3, <1>4, FindsMoves
<1>6. ASSUME NEW e \in Docs, objects'[e] # objects[e]
      PROVE  \A q \in Requests \ {p} : ~AtWorkOn(q, e)
  <2>1. Unused # {} /\ e = AnyOf(Unused)
    BY <1>4, <1>6 DEF KInv, DocsFit
  <2>2. e \in Unused
    BY <2>1 DEF AnyOf
  <2> QED BY <2>2, UnusedDocs
<1>7. Tells
  BY <1>4, RTells
<1> QED BY <1>2, <1>4, <1>5, <1>6, <1>7, EarlyServes

(* A request that is refused, or fails, before it has touched anything. *)
LEMMA LeavesEarly ==
    ASSUME KInv, IInv, RInv, SInv, Crosses, NEW p \in Requests,
           \/ Refuse(p)
           \/ Raise(p) /\ UNCHANGED failures,
           NEW call \in {"readKB", "readDoc", "checkAtRest", "saveRetried", "savePage"}, At(p, call)
    PROVE  Serving(p)
<1>1. \/ req[p].kind \in {"upload", "retry", "deleteKB", "create", "resync"}
      \/ req[p].kind = "delete" /\ req[p].step \in 1..2
      \/ req[p].kind = "page" /\ req[p].step = 3
  BY Places DEF Place, IInv, Sound
<1>2. /\ OnlyMoves(p) /\ Recovered(req'[p], req[p]) /\ Tells
      /\ UNCHANGED <<vectors, objects, jobs, begun>>
  BY DropMoves, RTells DEF Refuse, Raise, storeVars, envVars
<1>3. req'[p].kind \in {"idle", "turn"}
  BY <1>1, <1>2 DEF Recovered, Restarted, Idle
<1> QED BY <1>1, <1>2, <1>3, EarlyServes

LEMMA GateServes ==
    ASSUME KInv, IInv, RInv, SInv, Crosses, NEW p \in Requests, ReadKB(p) \/ Authorize(p)
    PROVE  Serving(p)
<1>1. PICK call \in {"readKB", "authorize"} :
         /\ At(p, call)
         /\ \/ Go(p)
            \/ Refuse(p) /\ (call = "authorize" => ~authorized)
  BY DEF ReadKB, Authorize
<1>2. Tells
  BY <1>1, RTells DEF Go, Refuse, envVars
<1>3. CASE Go(p)
  BY <1>1, <1>2, <1>3, GoServes DEF Go, dbVars, storeVars, envVars
<1>4. CASE Refuse(p) /\ call = "readKB"
  BY <1>1, <1>4, LeavesEarly
<1>5. CASE Refuse(p) /\ ~authorized
  <2>1. "revoked" \in failures'.kinds
    BY <1>5 DEF Refuse, RInv, RDocs
  <2>2. \A d : ~RunsWereFinished(d)'
    BY <2>1 DEF RunsWereFinished, OnlyFailed
  <2>3. DropRows(p) /\ Finish(p) /\ begun' = begun /\ vectors' = vectors
    BY <1>5 DEF Refuse, envVars, storeVars
  <2> QED BY <1>2, <2>2, <2>3, FaultServes
<1> QED BY <1>1, <1>3, <1>4, <1>5

-----------------------------------------------------------------------------
(* Reads, and writes of rows and passages.                                  *)

LEMMA KeepServes ==
    ASSUME KInv, IInv, RInv, SInv, Crosses, NEW p \in Requests,
           NEW call \in {"readDoc", "readSource"}, At(p, call), NEW r, Keep(p, r)
    PROVE  Serving(p)
<1>1. /\ OnlyMoves(p) /\ draft'[p] = draft[p]
      /\ req'[p].kind = req[p].kind /\ req'[p].step = req[p].step + 1
      /\ req'[p].doc = req[p].doc /\ req'[p].run = req[p].run
      /\ req'[p].content = req[p].content
  BY KeepMoves
<1>2. /\ Tells /\ Grows /\ Wrote(p)' = Wrote(p)
      /\ vectors' = vectors /\ objects' = objects /\ jobs' = jobs
  BY <1>1, RTells DEF Keep, storeVars, envVars, Grows, Crosses, Wrote
<1> QED BY <1>1, <1>2, CallServes

LEMMA ReadServes ==
    ASSUME KInv, IInv, RInv, SInv, Crosses, NEW p \in Requests, ReadDoc(p) \/ ReadSource(p)
    PROVE  Serving(p)
<1>1. CASE ReadDoc(p)
  BY <1>1, KeepServes, LeavesEarly DEF ReadDoc
<1>2. CASE ReadSource(p)
  BY <1>2, KeepServes DEF ReadSource
<1> QED BY <1>1, <1>2

LEMMA ReadAllServes ==
    ASSUME KInv, IInv, RInv, SInv, Crosses, NEW p \in Requests, ReadAll(p)
    PROVE  Serving(p)
<1>1. Tells
  BY ReadAllMoves, RTells
<1> QED BY <1>1, ReadAllMoves, EarlyServes

LEMMA CheckAtRestServes ==
    ASSUME KInv, IInv, RInv, SInv, Crosses, NEW p \in Requests, CheckAtRest(p)
    PROVE  Serving(p)
<1>1. At(p, "checkAtRest") /\ req[p].kind = "deleteKB"
  BY Places DEF CheckAtRest, Place, IInv, Sound
<1>2. CASE Refuse(p)
  BY <1>1, <1>2, LeavesEarly
<1>3. ASSUME NEW docs, NEW read, NextPurge(p, docs, read),
             UNCHANGED <<dbVars, storeVars, jobs, envVars, failures>>
      PROVE  Serving(p)
  <2>1. /\ DOMAIN req' = Requests /\ \A q \in Requests \ {p} : req'[q] = req[q]
        /\ req'[p].kind \in {"dropKB", "purge"}
    BY <1>3, NextPurgeMoves
  <2>2. OnlyMoves(p) /\ Tells /\ UNCHANGED <<vectors, objects, jobs, begun>>
    BY <1>3, <2>1, RTells DEF OnlyMoves, dbVars, storeVars, envVars, IInv
  <2> QED BY <1>1, <2>1, <2>2, EarlyServes
<1> QED BY <1>2, <1>3 DEF CheckAtRest

LEMMA LoadServes ==
    ASSUME KInv, IInv, RInv, SInv, Crosses, NEW p \in Requests, Load(p)
    PROVE  Serving(p)
<1>1. CASE Go(p)
  <2>1. At(p, "load") /\ Tells
    BY <1>1, RTells DEF Load, Go, envVars
  <2> QED BY <1>1, <2>1, GoServes DEF Go, dbVars, storeVars, envVars
<1>2. CASE Raise(p) /\ UNCHANGED failures /\ Seen(p, Doc(p)).state # "live"
  <2>1. req[p].kind = "ingest" /\ req[p].step = 2 /\ Fit(p)
    BY Places DEF Load, IInv, Sound, Place, KInv
  <2>2. db[Doc(p)].state # "live"
    BY <1>2, <2>1 DEF Fit, FitDraft, Empty, Seen
  <2>3. \A d : d = Doc(p) => ~Calm(d)
    BY <2>2 DEF Calm
  <2> QED BY <1>2, <2>1, <2>3, FailedRunServes
<1> QED BY <1>1, <1>2 DEF Load

LEMMA GetServes ==
    ASSUME KInv, IInv, RInv, SInv, Crosses, NEW p \in Requests, Get(p)
    PROVE  Serving(p)
<1>1. req[p].kind = "ingest" /\ req[p].step = 3 /\ "text" # None
  BY Places, IngestionAssumption DEF Get, IInv, Sound, Place, Contents
<1>2. CASE Raise(p) /\ UNCHANGED failures /\ objects[Doc(p)] = None
  <2>1. \A d : d = Doc(p) => objects[d] # "text"
    BY <1>1, <1>2
  <2> QED BY <1>1, <1>2, <2>1, FailedRunServes
<1>3. CASE ~(Raise(p) /\ UNCHANGED failures /\ objects[Doc(p)] = None)
  <2>1. /\ OnlyMoves(p) /\ draft'[p] = draft[p]
        /\ req'[p].kind = req[p].kind /\ req'[p].step = req[p].step + 1
        /\ req'[p].doc = req[p].doc /\ req'[p].content = objects[Doc(p)]
        /\ UNCHANGED <<vectors, objects, jobs, authorized, begun, failures>>
    BY <1>3, GetMoves
  <2>2. /\ Tells /\ Grows /\ Wrote(p)' = Wrote(p)
    BY <2>1, RTells DEF Grows, Crosses, Wrote
  <2>3. Noted(p)' /\ ~Past(p, "page", 7)'
    BY <1>1, <2>1 DEF Noted, Past
  <2>4. ASSUME NEW d \in Docs, d = Doc(p)
        PROVE  Points(p, d)'
    BY <1>1, <2>1, <2>3, <2>4 DEF Points, Fetched, RunPoints, PagePoints, Ingests
  <2> QED BY <1>1, <2>1, <2>2, <2>3, <2>4, StepServes
<1> QED BY <1>2, <1>3

-----------------------------------------------------------------------------
(* Rows and passages in p's draft. *)
LEMMA WriteServes ==
    ASSUME KInv, IInv, RInv, SInv, Crosses, NEW p \in Requests, NEW call, At(p, call),
           call \notin {"commit", "get", "dropVectors", "upsert", "lookUp", "putNew", "embed"},
           NEW r, NEW row, Write(p, r, row),
           call \in {"saveFailed", "saveDeleted"} => r = Doc(p),
           call = "insertPassages" => Seen(p, Passages(Doc(p))).run = 0
    PROVE  Serving(p)
<1>1. /\ OnlyMoves(p) /\ Holds(draft'[p], draft[p], r, row)
      /\ req'[p] = [req[p] EXCEPT !.step = @ + 1]
      /\ UNCHANGED <<vectors, objects, jobs, authorized, begun, failures>>
  BY WriteMoves DEF Write, storeVars, envVars
<1>2. DOMAIN req[p] = Fields /\ req[p].step \in Nat
  BY DEF IInv, Sound, SoundReq
<1>3. /\ req'[p].kind = req[p].kind /\ req'[p].step = req[p].step + 1
      /\ req'[p].doc = req[p].doc /\ req'[p].run = req[p].run
      /\ req'[p].content = req[p].content
  BY <1>1, <1>2 DEF Fields
<1>4. Tells /\ Grows /\ Wrote(p)' = Wrote(p) \cup {r}
  BY <1>1, RTells DEF Grows, Crosses, Wrote, Holds
<1> QED BY <1>1, <1>3, <1>4, CallServes

LEMMA SaveDocServes ==
    ASSUME KInv, IInv, RInv, SInv, Crosses, NEW p \in Requests, SaveDoc(p)
    PROVE  Serving(p)
<1>1. PICK call \in {"insertDoc", "saveRetried", "saveReady", "saveFailed", "savePage"} :
         /\ At(p, call)
         /\ \/ \E row : Write(p, Doc(p), row)
            \/ Raise(p) /\ UNCHANGED failures /\ call \in {"saveRetried", "savePage"}
  BY DEF SaveDoc, SaveRetried, InsertLive
<1>2. CASE \E row : Write(p, Doc(p), row)
  BY <1>1, <1>2, WriteServes
<1> QED BY <1>1, <1>2, LeavesEarly

LEMMA SaveOtherServes ==
    ASSUME KInv, IInv, RInv, SInv, Crosses, NEW p \in Requests, SaveOther(p)
    PROVE  Serving(p)
<1>1. PICK call \in {"saveKB", "insertSource", "saveSyncing", "saveSynced", "saveError"} :
         At(p, call) /\ \E r, row : Write(p, r, row)
  BY DEF SaveOther
<1> QED BY <1>1, WriteServes

LEMMA SaveDeletedServes ==
    ASSUME KInv, IInv, RInv, SInv, Crosses, NEW p \in Requests, SaveDeleted(p)
    PROVE  Serving(p)
<1> DEFINE d == Doc(p)
           row == [Copy(p, d) EXCEPT !.state = "deleted"]
           new == [x \in {d} |-> [Copy(p, x) EXCEPT !.state = "deleted"]]
<1>1. At(p, "saveDeleted") /\ req[p].kind \in {"delete", "purge"}
  BY Places DEF SaveDeleted, IInv, Sound, Place
<1>2. DOMAIN new = {d} /\ new[d] = row /\ new = [x \in {d} |-> row]
  OBVIOUS
<1>3. CASE req[p].kind = "delete"
  <2>1. Write(p, d, row)
    BY <1>2, <1>3 DEF SaveDeleted, Write
  <2> HIDE DEF row
  <2> QED BY <1>1, <2>1, WriteServes
<1>4. CASE req[p].kind = "purge"
  <2>1. Put(p, new) /\ NextPurge(p, req[p].todo, req[p].read) /\ Tells /\ Grows
        /\ UNCHANGED <<vectors, objects, jobs, begun>>
    BY <1>4, RTells DEF SaveDeleted, storeVars, envVars, Grows, Crosses
  <2>2. /\ DOMAIN req' = Requests /\ \A q \in Requests \ {p} : req'[q] = req[q]
        /\ req'[p].kind \in {"purge", "dropKB"}
    BY <2>1, NextPurgeMoves
  <2> HIDE DEF new, row
  <2>3. OnlyMoves(p) /\ Holds(draft'[p], draft[p], d, row)
    BY <1>2, <2>1, <2>2, PutOne
  <2>4. Wrote(p)' = Wrote(p) \cup {d}
    BY <2>3 DEF Wrote, Holds
  <2>5. \A e \in Docs : Deletes(p, e) => Deletes(p, e)'
    BY <1>4, <2>2, <2>4 DEF Deletes, Past
  <2>6. \A e \in Docs : ~Redoes(p, e)
    BY <1>4 DEF Redoes, Past
  <2> QED BY <2>1, <2>2, <2>3, <2>5, <2>6, AsideServes
<1> QED BY <1>1, <1>3, <1>4

LEMMA DeletePassagesServes ==
    ASSUME KInv, IInv, RInv, SInv, Crosses, NEW p \in Requests, DeletePassages(p)
    PROVE  Serving(p)
<1>1. At(p, "deletePassages")
  BY DEF DeletePassages
<1>2. CASE \E row : Write(p, Passages(Doc(p)), row)
  BY <1>1, <1>2, WriteServes
<1>3. CASE Go(p)
  <2>1. Tells
    BY <1>3, RTells DEF Go, envVars
  <2> QED BY <1>1, <1>3, <2>1, GoServes DEF Go, dbVars, storeVars, envVars
<1> QED BY <1>2, <1>3 DEF DeletePassages

LEMMA DeleteWaitsServes ==
    ASSUME KInv, IInv, RInv, SInv, Crosses, NEW p \in Requests, DeleteWaits(p)
    PROVE  Serving(p)
<1>1. /\ OnlyMoves(p) /\ draft'[p] = draft[p] /\ db' = db
      /\ req'[p].kind = req[p].kind /\ req'[p].step = req[p].step
      /\ req'[p].doc = req[p].doc /\ req'[p].run = req[p].run
      /\ req'[p].content = req[p].content
  BY WaitsMoves DEF OnlyMoves
<1>2. /\ Tells /\ Grows /\ UNCHANGED <<vectors, objects, jobs, begun>>
  BY RTells DEF DeleteWaits, storeVars, envVars, Grows, Crosses
<1>3. /\ Doc(p)' = Doc(p) /\ Wrote(p)' = Wrote(p) /\ \A x : Seen(p, x)' = Seen(p, x)
      /\ Noted(p) /\ \A d \in Docs : Points(p, d)
      /\ \A q \in Requests \ {p} : req'[q] = req[q]
  BY <1>1 DEF Doc, Wrote, Seen, SInv, OnlyMoves
<1>4. ASSUME NEW d \in Docs
      PROVE  /\ Deletes(p, d) => Deletes(p, d)'
             /\ Redoes(p, d) <=> Redoes(p, d)'
             /\ Ingests(p, d) <=> Ingests(p, d)'
             /\ Rerun(d, p) => Rerun(d, p)'
  <2>1. Ingests(p, d) <=> Ingests(p, d)'
    BY <1>1, <1>3 DEF Ingests
  <2>2. Rerun(d, p) => Rerun(d, p)'
    BY <1>2, <1>3 DEF Rerun, Ingests, Doc
  <2>3. Redoes(p, d) <=> Redoes(p, d)'
    BY <1>1, <1>3 DEF Redoes, Past
  <2>4. Deletes(p, d) => Deletes(p, d)'
    BY <1>1, <1>3 DEF Deletes, Past
  <2> QED BY <2>1, <2>2, <2>3, <2>4
<1>5. ASSUME NEW d \in Docs
      PROVE  Points(p, d)'
  <2>1. Calm(d)' => Calm(d)
    BY <1>1, <1>2, <1>4, CalmBefore
  <2>2. Points(p, d)
    BY <1>3
  <2>3. Fetched(p, d)'
    BY <1>1, <1>2, <1>4, <2>1, <2>2 DEF Points, Fetched
  <2>4. RunPoints(p, d)'
    BY <1>1, <1>2, <1>3, <1>4, <2>1, <2>2 DEF Points, RunPoints
  <2>5. PagePoints(p, d)'
    BY <1>1, <1>2, <1>3, <2>2 DEF Points, PagePoints, Past, Grows
  <2> QED BY <2>3, <2>4, <2>5 DEF Points
<1>6. Noted(p)'
  BY <1>1, <1>3 DEF Noted
<1>7. \A d \in Docs : Calm(d)' => Leaves(p, d)
  BY <1>2, <1>4 DEF Leaves
<1> QED BY <1>1, <1>2, <1>4, <1>5, <1>6, <1>7 DEF Serving

LEMMA InsertPassagesServes ==
    ASSUME KInv, IInv, RInv, SInv, Crosses, NEW p \in Requests, InsertPassages(p)
    PROVE  Serving(p)
<1> DEFINE r == Passages(Doc(p))
<1>1. /\ At(p, "insertPassages") /\ Own(p) /\ Place(req[p], "insertPassages") /\ Free(p, r)
      /\ SoundReq(req[p])
  BY Places DEF InsertPassages, IInv, Sound, RInv
<1>2. CASE Seen(p, r).run = 0 /\ Write(p, r, [run |-> req[p].run])
  <2> DEFINE row == [run |-> req[p].run]
  <2>1. Write(p, r, row)
    BY <1>2
  <2> HIDE DEF row
  <2> QED BY <1>1, <1>2, <2>1, WriteServes
<1>3. CASE Seen(p, r).run # 0 /\ Raise(p) /\ UNCHANGED failures
  <2>1. CASE req[p].kind = "ingest" /\ req[p].step = 7
    <3>1. r \notin Wrote(p)
      BY <1>1, <1>3, <2>1 DEF Own, OwnDraft, Within, Seen
    <3>2. db[r].run # 0
      BY <1>3, <3>1 DEF Seen
    <3>3. \A d : d = Doc(p) => db[Passages(d)].run # 0 /\ Free(p, Passages(d))
      BY <1>1, <3>2
    <3> QED BY <1>3, <2>1, <3>3, FailedRunServes
  <2>2. CASE req[p].kind = "page" /\ req[p].step = 8
    <3>1. \A d \in Docs : d = Doc(p) => ~Calm(d)
      <4>1. SUFFICES ASSUME NEW d \in Docs, d = Doc(p), Calm(d)
                     PROVE  FALSE
        OBVIOUS
      <4>2. d \notin crossed
        BY <2>2, <4>1, PageAlone DEF Past
      <4> QED BY <1>1, <1>3, <2>2, <4>1, <4>2 DEF Own, Undisturbed, Within
    <3>2. /\ OnlyMoves(p) /\ Recovered(req'[p], req[p]) /\ Tells /\ Grows
          /\ UNCHANGED <<vectors, objects, jobs, begun>>
      BY <1>3, DropMoves, RTells DEF Raise, storeVars, envVars, Grows, Crosses
    <3>3. req'[p].kind \in {"idle", "turn"}
      BY <2>2, <3>2 DEF Recovered, Restarted, Idle
    <3>4. \A d \in Docs : ~Deletes(p, d)
      BY <2>2 DEF Deletes, Past
    <3>5. \A d \in Docs : Calm(d)' => ~Redoes(p, d)
      BY <3>1, <3>2, <3>4, CalmBefore DEF Redoes
    <3> QED BY <3>2, <3>3, <3>4, <3>5, AsideServes
  <2> QED BY <1>1, <1>3, <2>1, <2>2 DEF Place
<1> QED BY <1>1, <1>2, <1>3 DEF InsertPassages

-----------------------------------------------------------------------------
(* Points, bytes, failures and crashes.                                     *)

(* Points deleted, or a run's own put in their place. *)
LEMMA PointsServe ==
    ASSUME KInv, IInv, RInv, SInv, Crosses, NEW p \in Requests, DropVectors(p) \/ Upsert(p)
    PROVE  Serving(p)
<1>1. PICK call \in {"dropVectors", "upsert"} :
         /\ At(p, call)
         /\ vectors' = [vectors EXCEPT ![Doc(p)] =
                           IF call = "dropVectors" THEN {} ELSE @ \cup {req[p].run}]
  BY DEF DropVectors, Upsert
<1>2. /\ Advance(p) /\ UNCHANGED <<objects, jobs, authorized, begun, failures>>
      /\ UNCHANGED dbVars
  BY DEF DropVectors, Upsert, envVars
<1>3. /\ OnlyMoves(p) /\ draft'[p] = draft[p] /\ Stepped(req'[p], req[p]) /\ db' = db
      /\ Place(req[p], call) /\ SoundReq(req[p])
  BY <1>1, <1>2, AdvanceMoves, Places DEF OnlyMoves, IInv, Sound
<1>4. /\ Tells /\ Grows /\ Wrote(p)' = Wrote(p) /\ Doc(p)' = Doc(p)
      /\ \A q \in Requests \ {p} : req'[q] = req[q]
      /\ \A d \in Docs : Points(p, d)
      /\ HasDoc(req[p]) => Doc(p) \in Docs
      /\ DOMAIN vectors = Docs
  BY <1>2, <1>3, RTells
     DEF Grows, Crosses, Wrote, Doc, Stepped, OnlyMoves, SInv, SoundReq, KInv, DocsFit
<1>5. \/ call = "dropVectors" /\ req[p].kind = "ingest" /\ req[p].step = 5
      \/ call = "dropVectors" /\ req[p].kind = "page" /\ req[p].step = 6
      \/ call = "dropVectors" /\ req[p].kind = "purge" /\ req[p].step = 1
      \/ call = "dropVectors" /\ req[p].kind = "delete" /\ req[p].step = 3
      \/ call = "upsert" /\ req[p].kind = "ingest" /\ req[p].step = 8
      \/ call = "upsert" /\ req[p].kind = "page" /\ req[p].step = 9
  BY <1>3 DEF Place
<1>6. /\ req'[p].kind = req[p].kind /\ req'[p].step = req[p].step + 1
      /\ req'[p].doc = req[p].doc /\ req'[p].run = req[p].run
      /\ req'[p].content = req[p].content
  BY <1>3 DEF Stepped
<1>7. Moving(p) /\ Noted(p)'
  BY <1>5, <1>6 DEF Moving, Past, Noted
<1>8. ASSUME NEW d \in Docs, d = Doc(p), Calm(d)' => Calm(d)
      PROVE  Points(p, d)'
  <2>1. vectors'[d] = IF call = "dropVectors" THEN {} ELSE vectors[d] \cup {req[p].run}
    BY <1>1, <1>4, <1>8
  <2>2. Rerun(d, p) => Rerun(d, p)'
    BY <1>2, <1>4 DEF Rerun, Ingests, Doc
  <2>3. Fetched(p, d)'
    BY <1>2, <1>4, <1>5, <1>6, <1>8 DEF Points, Fetched, Ingests
  <2>4. RunPoints(p, d)'
    <3> SUFFICES ASSUME Ingests(p, d)', req'[p].step >= 6, Calm(d)', objects'[d] = "text"
                 PROVE  \/ vectors'[d] = IF req'[p].step >= 9 THEN {req'[p].run} ELSE {}
                        \/ Rerun(d, p)'
      BY DEF RunPoints
    <3>1. Ingests(p, d) /\ Calm(d) /\ objects[d] = "text"
      BY <1>2, <1>4, <1>6, <1>8 DEF Ingests
    <3>2. CASE call = "dropVectors"
      BY <1>5, <1>6, <2>1, <3>1, <3>2 DEF Ingests
    <3>3. CASE call = "upsert"
      <4>1. req[p].step = 8 /\ req'[p].step = 9
        BY <1>5, <1>6, <3>1, <3>3 DEF Ingests
      <4>2. vectors[d] = {} \/ Rerun(d, p)
        BY <1>4, <3>1, <4>1 DEF Points, RunPoints
      <4> QED BY <1>6, <2>1, <2>2, <3>3, <4>1, <4>2
    <3> QED BY <3>2, <3>3
  <2>5. PagePoints(p, d)'
    <3>1. CASE call = "dropVectors"
      BY <1>5, <1>6, <2>1, <3>1 DEF PagePoints, Past
    <3>2. CASE req[p].kind = "page" /\ req[p].step = 9 /\ call = "upsert"
      <4>1. d \notin crossed' => vectors[d] = {}
        BY <1>4, <1>8, <3>2 DEF Points, PagePoints, Past, Grows
      <4> QED BY <1>6, <2>1, <3>2, <4>1 DEF PagePoints
    <3>3. CASE req[p].kind # "page"
      BY <1>6, <3>3 DEF PagePoints, Past
    <3> QED BY <1>5, <3>1, <3>2, <3>3
  <2> QED BY <2>3, <2>4, <2>5 DEF Points
<1>9. \A d \in Docs : vectors'[d] = vectors[d] \/ (d = Doc(p) /\ Moving(p))
  BY <1>1, <1>4, <1>7
<1> QED BY <1>2, <1>3, <1>4, <1>6, <1>7, <1>8, <1>9, StepServes

LEMMA ObjectsServe ==
    ASSUME KInv, IInv, RInv, SInv, Crosses, NEW p \in Requests, PutPage(p) \/ DeleteObject(p)
    PROVE  Serving(p)
<1>1. PICK call \in {"putPage", "deleteObject"} :
         At(p, call) /\ \E c : objects' = [objects EXCEPT ![Doc(p)] = c]
  BY DEF PutPage, DeleteObject
<1>2. /\ Advance(p) /\ UNCHANGED <<vectors, jobs, authorized, begun, failures>>
      /\ UNCHANGED dbVars
  BY DEF PutPage, DeleteObject, envVars
<1>3. /\ OnlyMoves(p) /\ draft'[p] = draft[p] /\ Stepped(req'[p], req[p])
      /\ Place(req[p], call)
  BY <1>1, <1>2, AdvanceMoves, Places DEF IInv, Sound
<1>4. \/ req[p].kind = "page" /\ req[p].step = 4
      \/ req[p].kind = "delete" /\ req[p].step = 5
      \/ req[p].kind = "purge" /\ req[p].step = 3
  BY <1>3 DEF Place
<1>5. /\ Tells /\ Grows /\ Wrote(p)' = Wrote(p)
  BY <1>2, <1>3, RTells DEF Grows, Crosses, Wrote
<1>6. ASSUME NEW d \in Docs, Calm(d), objects'[d] # objects[d]
      PROVE  \A q \in Requests \ {p} : ~AtWorkOn(q, d)
  <2>1. d = Doc(p)
    BY <1>1, <1>6 DEF KInv, DocsFit
  <2>2. ~Deletes(p, d)
    BY <1>6 DEF Calm
  <2>3. Past(p, "page", 3)
    BY <1>4, <2>1, <2>2 DEF Deletes, Past
  <2>4. Alone(d)
    BY <1>6, <2>1, <2>3, PageAlone
  <2> QED BY <2>1, <2>4 DEF Alone, AtWorkOn
<1> QED BY <1>1, <1>2, <1>3, <1>4, <1>5, <1>6, CallServes DEF Stepped

LEMMA EmbedServes ==
    ASSUME KInv, IInv, RInv, SInv, Crosses, NEW p \in Requests, Embed(p)
    PROVE  Serving(p)
<1>1. /\ At(p, "embed") /\ Place(req[p], "embed")
  BY Places DEF Embed, IInv, Sound
<1>2. CASE Go(p) /\ req[p].content = "text"
  <2>1. Tells
    BY <1>2, RTells DEF Go, envVars
  <2> QED BY <1>1, <1>2, <2>1, GoServes DEF Go, dbVars, storeVars, envVars
<1>3. CASE Raise(p) /\ UNCHANGED failures /\ req[p].content # "text" /\ req[p].kind = "ingest"
  <2>1. \A d \in Docs : d = Doc(p) /\ Calm(d) => objects[d] # "text"
    BY <1>1, <1>3 DEF Place, SInv, Points, Fetched, Ingests
  <2> QED BY <1>3, <2>1, FailedRunServes
<1>4. CASE /\ Turn(p, "blankPage") /\ UNCHANGED <<dbVars, storeVars, jobs, envVars, failures>>
           /\ req[p].kind # "ingest"
  <2>1. req[p].kind = "page" /\ req[p].step = 7
    BY <1>1, <1>4 DEF Place
  <2>2. Restarted(req'[p], req[p], "blankPage") /\ OnlyMoves(p)
    BY <1>4, TurnMoves DEF OnlyMoves, dbVars, IInv
  <2>3. /\ Doc(p)' = Doc(p) /\ req'[p].kind = "blankPage" /\ Tells
        /\ UNCHANGED <<vectors, objects, jobs>>
    BY <1>4, <2>2, RTells DEF Doc, Restarted, storeVars, envVars
  <2>4. Noted(p)' /\ \A d \in Docs : Points(p, d)'
    BY <2>3 DEF Noted, Points, Fetched, RunPoints, PagePoints, Ingests, Past
  <2>5. \A d \in Docs : ~Deletes(p, d) /\ ~Ingests(p, d) /\ (Redoes(p, d) => Redoes(p, d)')
    BY <2>1, <2>3 DEF Deletes, Past, Ingests, Redoes
  <2>6. \A d \in Docs : Leaves(p, d)
    BY <2>3, <2>5 DEF Leaves
  <2> QED BY <2>2, <2>3, <2>4, <2>5, <2>6 DEF Serving
<1> QED BY <1>2, <1>3, <1>4 DEF Embed

-----------------------------------------------------------------------------
(* What goes wrong. *)
LEMMA FailsServes ==
    ASSUME KInv, IInv, RInv, SInv, Crosses, NEW p \in Requests,
           DeadlockVictim(p) \/ CallFails(p)
    PROVE  Serving(p)
<1>1. /\ Tells /\ \A d : ~RunsWereFinished(d)'
  <2>1. CASE DeadlockVictim(p)
    BY <2>1, FaultTells DEF DeadlockVictim, Raise, envVars
  <2>2. CASE CallFails(p)
    <3>1. PICK kind \in {"storage", "provider", "vectors", "broker", "database"} : Fault(kind)
      BY <2>2 DEF CallFails
    <3>2. UNCHANGED authorized
      BY <2>2 DEF CallFails, Raise, envVars
    <3> QED BY <3>1, <3>2, FaultTells
  <2> QED BY <2>1, <2>2
<1>2. CASE Raise(p)
  BY <1>1, <1>2, FaultServes DEF Raise, storeVars, envVars
<1>3. CASE At(p, "deleteObject") /\ Advance(p) /\ UNCHANGED <<dbVars, storeVars, jobs, envVars>>
  BY <1>1, <1>3, GoServes DEF dbVars, storeVars, envVars
<1>4. CASE /\ At(p, "upsert") /\ DropRows(p) /\ Recover(p) /\ begun' = begun
           /\ \E runs : vectors' = [vectors EXCEPT ![Doc(p)] = @ \cup runs]
  <2>1. req[p].kind \in {"ingest", "page"}
    BY <1>4, Places DEF IInv, Sound, Place
  <2>2. \A d \in Docs : vectors'[d] = vectors[d] \/ d = Doc(p)
    BY <1>4 DEF KInv, DocsFit
  <2> QED BY <1>1, <1>4, <2>1, <2>2, FaultServes
<1> QED BY <1>2, <1>3, <1>4 DEF DeadlockVictim, CallFails, envVars

LEMMA CrashServes ==
    ASSUME KInv, IInv, RInv, SInv, Crosses, NEW p \in Requests, Crash(p)
    PROVE  Serving(p)
<1>1. /\ DropRows(p) /\ Finish(p) /\ UNCHANGED <<vectors, objects, begun, authorized>>
      /\ SoundReq(req[p]) /\ Own(p) /\ db' = db
      /\ DOMAIN jobs = Docs \cup {Source} /\ \A x \in Docs \cup {Source} : jobs[x] \in Nat
  BY DEF Crash, storeVars, envVars, DropRows, IInv, Sound, RInv, KInv, DocsFit
<1>2. OnlyMoves(p) /\ req'[p] = Idle /\ Grows
  BY <1>1, DropMoves DEF Finish, IInv, Grows, Crosses
<1>3. CASE req[p].kind \in ConsoleKinds /\ Fault("console") /\ UNCHANGED jobs
  <2>1. Tells /\ \A d : ~RunsWereFinished(d)'
    BY <1>1, <1>3, FaultTells
  <2> QED BY <1>1, <2>1, FaultServes
<1>4. ASSUME req[p].kind \in WorkerKinds, Fault("worker"), NEW x,
             x = IF req[p].kind \in CrawlKinds THEN Source ELSE Doc(p),
             jobs' = [jobs EXCEPT ![x] = @ + 1]
      PROVE  Serving(p)
  <2>1. failures'.kinds = failures.kinds \cup {"worker"} /\ "kinds" \in DOMAIN failures'
    BY <1>4 DEF Fault, OneMore
  <2>2. Tells
    BY <1>1, <2>1 DEF Tells, RInv, RDocs
  <2>3. \A d \in Docs : jobs'[d] = jobs[d] \/ jobs'[d] > 0
    BY <1>1, <1>4
  <2>4. \A d \in Docs : ~Deletes(p, d)
    BY <1>4 DEF Deletes, Past, Deleter, WorkerKinds, CrawlKinds
  <2>5. ASSUME NEW d \in Docs, Calm(d)', Redoes(p, d)
        PROVE  jobs'[d] > 0
    <3>1. CASE req[p].kind \in {"ingest", "ingestFailed"}
      <4>1. x = d
        BY <1>4, <2>5, <3>1 DEF CrawlKinds, Redoes
      <4> QED BY <1>1, <1>4, <4>1
    <3>2. CASE req[p].kind \notin {"ingest", "ingestFailed"}
      <4>1. (Past(p, "page", 3) \/ req[p].kind = "blankPage") /\ Doc(p) = d
        BY <1>1, <2>5, <3>2 DEF Redoes, Past, SoundReq
      <4>2. FromPage(d)'
        BY <1>1, <2>5, <4>1 DEF Own, OwnUrl, Calm, FromPage
      <4> QED BY <2>1, <2>5, <4>2 DEF Calm, RunsWereFinished, OnlyFailed
    <3> QED BY <3>1, <3>2
  <2> QED BY <1>1, <1>2, <2>2, <2>3, <2>4, <2>5, AsideServes DEF Idle
<1> QED BY <1>3, <1>4 DEF Crash

LEMMA MovesServe ==
    ASSUME KInv, IInv, RInv, SInv, Crosses, NEW p \in Requests, Call(p), ~Commit(p)
    PROVE  Serving(p)
<1>1. CASE TakeJob(p) \/ ReadKB(p) \/ ReadDoc(p) \/ ReadSource(p) \/ Authorize(p)
  BY <1>1, TakeJobServes, GateServes, ReadServes
<1>2. CASE Load(p) \/ ReadAll(p) \/ CheckAtRest(p) \/ Get(p) \/ LookUp(p) \/ PutNew(p)
  BY <1>2, LoadServes, ReadAllServes, CheckAtRestServes, GetServes, FindServes
<1>3. CASE SaveDoc(p) \/ SaveDeleted(p) \/ SaveOther(p)
  BY <1>3, SaveDocServes, SaveDeletedServes, SaveOtherServes
<1>4. CASE DeletePassages(p) \/ DeleteWaits(p) \/ InsertPassages(p)
  BY <1>4, DeletePassagesServes, DeleteWaitsServes, InsertPassagesServes
<1>5. CASE DropVectors(p) \/ Upsert(p) \/ PutPage(p) \/ DeleteObject(p)
  BY <1>5, PointsServe, ObjectsServe
<1>6. CASE Embed(p) \/ Enqueue(p) \/ NextPage(p) \/ DeadlockVictim(p)
  BY <1>6, EmbedServes, EnqueueServes, NextPageServes, FailsServes
<1> QED BY <1>1, <1>2, <1>3, <1>4, <1>5, <1>6 DEF Call

-----------------------------------------------------------------------------
(* A commit: the run that ends has the points, or another is to come.       *)

(* What a commit leaves of a document that lasts: its row was live before,  *)
(* or there was none yet.                                                   *)
LEMMA CommitCalm ==
    ASSUME KInv, IInv, RInv, SInv, Crosses, NEW p \in Requests, Commit(p),
           NEW d \in Docs, Calm(d)'
    PROVE  \/ Calm(d)
           \/ db[d].state = "absent" /\ d \in Wrote(p)
<1>1. /\ \A q \in Requests \ {p} : req'[q] = req[q] /\ draft'[q] = draft[q]
      /\ db'[d] = Seen(p, d) /\ UNCHANGED <<authorized, failures, begun>>
      /\ Place(req[p], "commit")
  BY CommitEnds
<1>2. /\ Tells /\ Grows /\ Fit(p) /\ Own(p) /\ Noted(p)
      /\ d \in Wrote(p) => db'[d] = draft[p][d]
      /\ d \notin Wrote(p) => db'[d] = db[d]
  BY <1>1, RTells DEF Grows, Crosses, KInv, RInv, SInv, Seen
<1>3. Lasts(d) /\ (FromPage(d)' => d \notin crossed) /\ db'[d].state = "live"
      /\ RunsWereFinished(d)' /\ \A q \in Requests : ~Deletes(q, d)'
  BY <1>2, LastsBefore DEF Calm, Grows, Lasts
<1>4. db[d].state # "deleted"
  BY <1>2, <1>3 DEF Fit, FitDraft
<1>5. ASSUME db[d].state # "absent"
      PROVE  Calm(d)
  <2>1. db'[d].url = db[d].url
    BY <1>1, <1>5, SeenUrl
  <2>2. RunsWereFinished(d)
    BY <1>2, <1>3, <2>1, FinishedBefore
  <2>3. FromPage(d) => d \notin crossed
    BY <1>3, <2>1 DEF FromPage
  <2>4. db[d].state = "live"
    BY <1>4, <1>5 DEF KInv, DocsFit
  <2>5. ASSUME Deletes(p, d) PROVE FALSE
    <3>1. Deleter(p) /\ d \in Wrote(p)
      <4>1. CASE req[p].kind \in {"purge", "dropKB"} /\ d \in Wrote(p)
        BY <4>1 DEF Deleter
      <4>2. CASE d = Doc(p) /\ Past(p, "delete", 4)
        BY <1>1, <1>2, <4>2 DEF Deleter, Past, Place, Noted
      <4>3. CASE d = Doc(p) /\ Past(p, "purge", 2)
        BY <1>1, <4>3 DEF Past, Place
      <4> QED BY <2>5, <4>1, <4>2, <4>3 DEF Deletes
    <3>2. draft[p][d].state = "deleted"
      BY <1>2, <3>1 DEF Own, OwnDraft, Deleter
    <3> QED BY <1>2, <1>3, <3>1, <3>2
  <2>6. \A q \in Requests \ {p} : ~Deletes(q, d)
    BY <1>1, <1>3 DEF Deletes, Past, Wrote, Doc
  <2> QED BY <1>3, <2>2, <2>3, <2>4, <2>5, <2>6 DEF Calm
<1> QED BY <1>2, <1>3, <1>5

(* A run that commits has its own passages, which no other run holds. *)
LEMMA CommitRun ==
    ASSUME KInv, IInv, RInv, NEW p \in Requests, At(p, "commit"),
           req[p].kind \in {"ingest", "page"}
    PROVE  /\ Doc(p) \in Docs /\ Doc(p) \in Wrote(p)
           /\ Passages(Doc(p)) \in Wrote(p)
           /\ draft[p][Passages(Doc(p))].run = req[p].run
           /\ req[p].run # 0
<1>1. /\ Place(req[p], "commit") /\ SoundReq(req[p]) /\ SoundDraft(req[p], draft[p]) /\ Own(p)
  BY Places DEF IInv, Sound, RInv
<1>2. \/ req[p].kind = "ingest" /\ req[p].step = 10
      \/ req[p].kind = "page" /\ req[p].step = 11
  BY <1>1 DEF Place
<1>3. Doc(p) \in Docs /\ Inserted(req[p])
  BY <1>1, <1>2 DEF SoundReq, HasDoc, Doc, Inserted
<1>4. Passages(Doc(p)) \in Wrote(p)
  BY <1>1, <1>3 DEF SoundDraft, Wrote, Doc
<1>5. /\ Past(p, "ingest", 10) \/ Past(p, "page", 11)
      /\ Past(p, "ingest", 8) \/ Past(p, "page", 9)
  BY <1>2 DEF Past
<1>6. req[p].run # 0
  BY <1>1 DEF SoundReq, WorkerKinds, CrawlKinds
<1> QED BY <1>1, <1>3, <1>4, <1>5, <1>6 DEF Own, OwnDraft

LEMMA CommitSeen ==
    ASSUME KInv, IInv, RInv, SInv, Crosses, NEW p \in Requests, Commit(p),
           NEW q \in Requests \ {p}, NEW d \in Docs, Ingests(q, d), Calm(d), Calm(d)',
           Seen(q, Passages(d))'.run = 0
    PROVE  Seen(q, Passages(d)).run = 0
<1>1. /\ draft'[q] = draft[q] /\ req'[q] = req[q]
      /\ db'[d] = Seen(p, d) /\ db'[Passages(d)] = Seen(p, Passages(d))
      /\ Place(req[p], "commit") /\ At(p, "commit") /\ Own(p) /\ SoundDraft(req[p], draft[p])
  BY CommitEnds DEF Commit, RInv, IInv, Sound
<1>2. Wrote(q)' = Wrote(q) /\ db'[d].state = "live"
  BY <1>1 DEF Wrote, Calm
<1>3. CASE Passages(d) \in Wrote(q)
  BY <1>1, <1>2, <1>3 DEF Seen
<1>4. CASE Passages(d) \notin Wrote(q) /\ Passages(d) \notin Wrote(p)
  BY <1>1, <1>2, <1>4 DEF Seen
<1>5. CASE Passages(d) \notin Wrote(q) /\ Passages(d) \in Wrote(p)
  <2>1. draft[p][Passages(d)].run = 0
    BY <1>1, <1>2, <1>5 DEF Seen
  <2>2. ~Clearing(req[p])
    BY <1>1 DEF Clearing, Place
  <2>3. d \in Wrote(p)
    BY <1>1, <1>5, <2>1, <2>2 DEF SoundDraft, Wrote
  <2>4. ~Deleter(p)
    <3>1. Deleter(p) => draft[p][d].state = "deleted"
      BY <1>1, <2>3 DEF Own, OwnDraft, Deleter
    <3>2. db'[d] = draft[p][d]
      BY <1>1, <2>3 DEF Seen
    <3> QED BY <1>2, <3>1, <3>2
  <2>5. d = Doc(p) /\ req[p].kind \in {"ingest", "page", "blankPage"}
    BY <1>1, <1>5, <2>4 DEF Own, OwnDraft, Deleter
  <2>6. req[p].kind = "blankPage"
    BY <1>1, <2>1, <2>5, CommitRun
  <2>7. Alone(d)
    BY <2>5, <2>6, PageAlone
  <2> QED BY <2>5, <2>7 DEF Alone, AtWorkOn, Ingests
<1> QED BY <1>3, <1>4, <1>5

LEMMA CommitPoints ==
    ASSUME KInv, IInv, RInv, SInv, Crosses, NEW p \in Requests, Commit(p),
           NEW q \in Requests \ {p}, NEW d \in Docs
    PROVE  Points(q, d)'
<1>1. /\ \A h \in Requests \ {p} : req'[h] = req[h] /\ draft'[h] = draft[h]
      /\ UNCHANGED <<vectors, objects, jobs>> /\ At(p, "commit")
      /\ db'[Passages(d)] = Seen(p, Passages(d))
  BY CommitEnds DEF Commit
<1>2. /\ Wrote(q)' = Wrote(q) /\ \A h \in Requests \ {p} : Doc(h)' = Doc(h)
      /\ Points(q, d) /\ crossed \subseteq crossed' /\ Fit(q)
      /\ \A h \in Requests \ {p} : Ingests(h, d)' <=> Ingests(h, d)
  BY <1>1 DEF Wrote, Doc, SInv, Crosses, KInv, Ingests
<1>3. Ingests(q, d) /\ Calm(d)' => Calm(d)
  <2>1. Ingests(q, d) => db[d].state # "absent"
    BY <1>2 DEF Fit, FitRows, Knows, Ingests
  <2> QED BY <2>1, CommitCalm
<1>4. Fetched(q, d)'
  BY <1>1, <1>2, <1>3 DEF Points, Fetched
<1>5. RunPoints(q, d)'
  <2> SUFFICES ASSUME Ingests(q, d), req[q].step >= 6, Calm(d)', objects[d] = "text",
                      req[q].step >= 8 \/ Seen(q, Passages(d))'.run = 0
               PROVE  \/ vectors[d] = IF req[q].step >= 9 THEN {req[q].run} ELSE {}
                      \/ Rerun(d, q)'
    BY <1>1, <1>2 DEF RunPoints
  <2>1. \/ vectors[d] = IF req[q].step >= 9 THEN {req[q].run} ELSE {}
        \/ Rerun(d, q)
    <3>1. req[q].step >= 8 \/ Seen(q, Passages(d)).run = 0
      BY <1>3, CommitSeen
    <3> QED BY <1>2, <1>3, <3>1 DEF Points, RunPoints
  <2>2. ASSUME Ingests(p, d) PROVE FALSE
    <3>1. /\ Passages(d) \in Wrote(p) /\ draft[p][Passages(d)].run # 0
      BY <1>1, <2>2, CommitRun DEF Ingests
    <3>2. Passages(d) \notin Wrote(q)
      BY <3>1 DEF KInv, OneWriter
    <3>3. req[q].step < 8
      BY <3>2 DEF IInv, Sound, SoundReq, SoundDraft, Inserted, Ingests, Wrote, Doc
    <3>4. Seen(q, Passages(d))' = db'[Passages(d)]
      BY <1>2, <3>2 DEF Seen
    <3>5. db'[Passages(d)] = draft[p][Passages(d)]
      BY <1>1, <3>1 DEF Seen
    <3> QED BY <3>1, <3>3, <3>4, <3>5 DEF IInv, Sound, SoundReq
  <2>3. Rerun(d, q) => Rerun(d, q)'
    BY <1>1, <1>2, <2>2 DEF Rerun
  <2> QED BY <2>1, <2>3
<1>6. PagePoints(q, d)'
  BY <1>1, <1>2 DEF Points, PagePoints, Past
<1> QED BY <1>4, <1>5, <1>6 DEF Points

(* The end of a run: what it wrote is found, or another run comes to it. *)
LEMMA CommitAnswers ==
    ASSUME KInv, IInv, RInv, SInv, Crosses, NEW p \in Requests, Commit(p),
           NEW d \in Docs, d \in Wrote(p), Answers(d)', Calm(d)'
    PROVE  Searchable(d)' \/ jobs'[d] > 0 \/ \E q \in Requests : Redoes(q, d)'
<1>1. /\ \A h \in Requests \ {p} : req'[h] = req[h]
      /\ UNCHANGED <<vectors, objects, jobs>> /\ At(p, "commit") /\ Place(req[p], "commit")
      /\ db'[d] = draft[p][d] /\ db'[Passages(d)] = Seen(p, Passages(d))
      /\ SoundDraft(req[p], draft[p]) /\ Fit(p) /\ Own(p) /\ Points(p, d)
      /\ crossed \subseteq crossed'
  BY CommitEnds DEF Commit, Seen, IInv, Sound, KInv, RInv, SInv, Crosses
<1>2. Marked(req[p]) /\ d = Doc(p)
  BY <1>1 DEF SoundDraft, Answers, Ready, Wrote, Doc
<1>3. \/ req[p].kind = "ingest" /\ req[p].step = 10
      \/ req[p].kind = "page" /\ req[p].step = 11
  BY <1>1, <1>2 DEF Marked, Place
<1>4. db'[Passages(d)].run = req[p].run
  BY <1>1, <1>2, <1>3, CommitRun DEF Seen
<1>5. CASE req[p].kind = "ingest" /\ req[p].step = 10
  <2>1. db[d].state # "absent"
    BY <1>1, <1>2, <1>5 DEF Fit, FitRows, Knows
  <2>2. Calm(d)
    BY <2>1, CommitCalm
  <2>3. objects[d] = "text"
    BY <1>1, <1>2, <1>5, <2>2 DEF Points, Fetched, Ingests
  <2>4. vectors[d] = {req[p].run} \/ Rerun(d, p)
    BY <1>1, <1>2, <1>5, <2>2, <2>3 DEF Points, RunPoints, Ingests
  <2>5. Rerun(d, p) => jobs'[d] > 0 \/ \E q \in Requests : Redoes(q, d)'
    BY <1>1 DEF Rerun, Ingests, Redoes, Doc
  <2> QED BY <1>1, <1>4, <2>4, <2>5 DEF Searchable
<1>6. CASE req[p].kind = "page" /\ req[p].step = 11
  <2>1. draft[p][d].url # None
    BY <1>1, <1>2, <1>6 DEF Own, OwnUrl, Past
  <2>2. d \notin crossed
    BY <1>1, <2>1 DEF Calm, FromPage
  <2>3. vectors[d] = {req[p].run}
    BY <1>1, <1>2, <1>6, <2>2 DEF Points, PagePoints, Past
  <2> QED BY <1>1, <1>4, <2>3 DEF Searchable
<1> QED BY <1>3, <1>5, <1>6

LEMMA CommitSInv ==
    ASSUME KInv, IInv, RInv, SInv, Crosses, NEW p \in Requests, Commit(p)
    PROVE  SInv'
<1>1. /\ \A h \in Requests \ {p} : req'[h] = req[h] /\ draft'[h] = draft[h]
      /\ UNCHANGED <<vectors, objects, jobs>> /\ Place(req[p], "commit")
      /\ \A d \in Docs : db'[d] = Seen(p, d) /\ db'[Passages(d)] = Seen(p, Passages(d))
      /\ req'[p].kind \in {"upload", "retry", "resync", "create", "turn", "idle"}
  BY CommitEnds DEF Stepped, Restarted, Idle
<1>2. Noted(p) /\ Own(p) /\ Fit(p) /\ At(p, "commit")
  BY DEF SInv, RInv, KInv, Commit
<1>3. \A q \in Requests : Noted(q)'
  <2>1. Noted(p)'
    BY <1>1 DEF Noted
  <2>2. \A q \in Requests \ {p} : Noted(q)'
    BY <1>1 DEF SInv, Noted, Wrote, Doc
  <2> QED BY <2>1, <2>2, IngestionAssumption
<1>4. \A q \in Requests : \A d \in Docs : Points(q, d)'
  <2>1. \A d \in Docs : Points(p, d)'
    BY <1>1 DEF Points, Fetched, RunPoints, PagePoints, Ingests, Past
  <2>2. \A q \in Requests \ {p} : \A d \in Docs : Points(q, d)'
    BY CommitPoints
  <2> QED BY <2>1, <2>2, IngestionAssumption
<1>5. ASSUME NEW d \in Docs, Answers(d)', Calm(d)'
      PROVE  Searchable(d)' \/ jobs'[d] > 0 \/ \E q \in Requests : Redoes(q, d)'
  <2>1. CASE d \in Wrote(p)
    BY <1>5, <2>1, CommitAnswers
  <2>2. CASE d \notin Wrote(p)
    <3>1. db'[d] = db[d] /\ Calm(d) /\ Answers(d)
      BY <1>1, <1>5, <2>2, CommitCalm DEF Seen, Answers
    <3>2. req[p].kind \in {"ingest", "page", "blankPage", "ingestFailed", "delete"} /\ Doc(p) = d
             => FALSE
      <4>1. CASE req[p].kind \in {"ingest", "page"}
        BY <1>2, <2>2, <4>1, CommitRun
      <4>2. CASE req[p].kind = "blankPage"
        BY <1>2, <2>2, <4>2 DEF Fit, FitDraft
      <4>3. CASE req[p].kind \in {"ingestFailed", "delete"}
        BY <1>1, <1>2, <2>2, <4>3 DEF Place, Noted
      <4> QED BY <4>1, <4>2, <4>3
    <3>3. Passages(d) \notin Wrote(p)
      BY <1>1, <1>2, <2>2, <3>2 DEF Own, OwnDraft, Place
    <3>4. db'[Passages(d)] = db[Passages(d)]
      BY <1>1, <3>3 DEF Seen
    <3>5. ~Redoes(p, d)
      BY <3>2 DEF Redoes, Past
    <3>6. \A q \in Requests \ {p} : Redoes(q, d) => Redoes(q, d)'
      BY <1>1 DEF Redoes, Past, Doc
    <3>7. Searchable(d) \/ jobs[d] > 0 \/ \E q \in Requests : Redoes(q, d)
      BY <3>1 DEF SInv, SDocs
    <3> QED BY <1>1, <3>4, <3>5, <3>6, <3>7 DEF Searchable
  <2> QED BY <2>1, <2>2
<1>6. SDocs'
  BY <1>5 DEF SDocs
<1> QED BY <1>3, <1>4, <1>6 DEF SInv

-----------------------------------------------------------------------------
(* The start, the steps, and what follows.                                  *)

(* Nothing of the documents moves. *)
LEMMA StillSInv ==
    ASSUME SInv, UNCHANGED <<dbVars, req, vectors, objects, jobs, begun>>,
           crossed \subseteq crossed', Tells
    PROVE  SInv'
<1>1. /\ db' = db /\ draft' = draft /\ req' = req /\ vectors' = vectors
      /\ objects' = objects /\ jobs' = jobs /\ begun' = begun
  BY DEF dbVars
<1>2. ASSUME NEW d, Calm(d)'
      PROVE  Calm(d)
  <2>1. RunsWereFinished(d)
    BY <1>1, <1>2, FinishedBefore DEF Calm
  <2>2. IF FromPage(d) THEN d \notin crossed ELSE Lasts(d)
    BY <1>1, <1>2 DEF Calm, FromPage, Lasts, Revivable
  <2>3. \A p \in Requests : Deletes(p, d) => Deletes(p, d)'
    BY <1>1 DEF Deletes, Past, Wrote, Doc
  <2> QED BY <1>1, <1>2, <2>1, <2>2, <2>3 DEF Calm
<1>3. ASSUME NEW p \in Requests, NEW d \in Docs
      PROVE  Points(p, d)'
  <2>1. Points(p, d)
    BY DEF SInv
  <2>2. Fetched(p, d)'
    BY <1>1, <1>2, <2>1 DEF Points, Fetched, Ingests, Doc
  <2>3. RunPoints(p, d)'
    BY <1>1, <1>2, <2>1 DEF Points, RunPoints, Ingests, Doc, Seen, Wrote, Rerun
  <2>4. PagePoints(p, d)'
    BY <1>1, <2>1 DEF Points, PagePoints, Past, Doc
  <2> QED BY <2>2, <2>3, <2>4 DEF Points
<1>4. \A p \in Requests : Noted(p)'
  BY <1>1 DEF SInv, Noted, Wrote, Doc
<1>5. SDocs'
  BY <1>1, <1>2 DEF SInv, SDocs, Answers, Searchable, Redoes, Past, Doc
<1> QED BY <1>3, <1>4, <1>5 DEF SInv

LEMMA InitSInv == Init => SInv
<1> SUFFICES ASSUME Init PROVE SInv
  OBVIOUS
<1>1. \A p \in Requests : req[p] = Idle /\ draft[p] = NoRows
  BY Starts
<1>2. \A p \in Requests : Noted(p) /\ \A d \in Docs : Points(p, d)
  BY <1>1 DEF Noted, Points, Fetched, RunPoints, PagePoints, Ingests, Past, Idle
<1>3. ASSUME NEW d \in Docs, Answers(d)
      PROVE  Searchable(d)
  <2>1. d = AnyOf(Docs)
    <3>1. NoDoc.state # "live"
      BY DEF NoDoc
    <3> QED BY <1>3, <3>1, Starts DEF Answers
  <2>2. db[Passages(d)].run = 1
    <3>1. db[Passages(d)] = [run |-> IF d = AnyOf(Docs) THEN 1 ELSE 0]
      BY Starts
    <3>2. d = AnyOf(Docs) => [run |-> IF d = AnyOf(Docs) THEN 1 ELSE 0].run = 1
      OBVIOUS
    <3> QED BY <2>1, <3>1, <3>2
  <2>3. vectors[d] = {1}
    BY <2>1 DEF Init
  <2> QED BY <2>2, <2>3 DEF Searchable
<1> QED BY <1>2, <1>3 DEF SInv, SDocs

LEMMA NextSInv == SInv /\ RInv /\ KInv /\ IInv /\ [Next]_vars => SInv'
<1> SUFFICES ASSUME SInv, RInv, KInv, IInv, [Next]_vars PROVE SInv'
  OBVIOUS
<1>1. Next => Crosses
  BY DEF Next, Crosses
<1>2. KInv' /\ RInv' /\ IInv'
  BY NextKInv, NextRInv, NextSound
<1>3. ASSUME NEW p \in Requests, Crosses, Serving(p), begun.kinds \subseteq begun'.kinds
      PROVE  SInv'
  BY <1>2, <1>3, ServedDocs DEF Grows, Crosses
<1>4. ASSUME NEW p \in Requests, Crosses, Arrive(p)
      PROVE  SInv'
  <2>1. begun.kinds \subseteq begun'.kinds
    BY <1>4, ArriveMoves DEF OneMore
  <2> QED BY <1>3, <1>4, <2>1, ArriveServes
<1>5. ASSUME NEW p \in Requests, Crosses, Call(p) \/ CallFails(p) \/ Crash(p)
      PROVE  SInv'
  <2>1. begun' = begun
    BY <1>5 DEF Call, CallFails, Crash, TakeJob, ReadKB, ReadDoc, ReadSource, ReadAll,
         CheckAtRest, Authorize, Load, Get, LookUp, SaveDoc, SaveRetried, InsertLive, SaveDeleted, SaveOther, Write,
         DeletePassages, DeleteWaits, InsertPassages, DropVectors, Embed, Upsert, PutNew, PutPage,
         DeleteObject, Enqueue, Commit, NextPage, DeadlockVictim, Raise, Refuse, Go, Keep, envVars
  <2>2. CASE Call(p) /\ ~Commit(p)
    BY <1>3, <1>5, <2>1, <2>2, MovesServe
  <2>3. CASE Commit(p)
    BY <1>5, <2>3, CommitSInv
  <2>4. CASE CallFails(p)
    BY <1>3, <1>5, <2>1, <2>4, FailsServes
  <2>5. CASE Crash(p)
    BY <1>3, <1>5, <2>1, <2>5, CrashServes
  <2> QED BY <1>5, <2>2, <2>3, <2>4, <2>5
<1>6. CASE Next /\ Revoke
  <2>1. UNCHANGED <<dbVars, req, vectors, objects, jobs, begun>> /\ crossed \subseteq crossed'
    BY <1>1, <1>6 DEF Revoke, storeVars, Crosses
  <2>2. Tells
    BY <1>6 DEF Revoke, Fault, OneMore, Tells
  <2> QED BY <2>1, <2>2, StillSInv
<1>7. CASE UNCHANGED vars
  <2>1. UNCHANGED <<dbVars, req, vectors, objects, jobs, begun>> /\ crossed \subseteq crossed'
        /\ UNCHANGED <<authorized, failures>>
    BY <1>7 DEF vars, stateVars, dbVars
  <2> QED BY <2>1, RTells, StillSInv
<1> QED BY <1>1, <1>4, <1>5, <1>6, <1>7 DEF Next

(* A ready document that nobody is at work on is found by its own passages and*)
(* by nothing else, even when several jobs indexed it at once: index_blocks *)
(* inserts the passages, and fails on those of another run, before it upserts.*)
THEOREM ReadyDocumentsAreFound == Spec => []ReadyIsSearchable
<1>1. SInv => ReadyIsSearchable
  <2> SUFFICES ASSUME SInv, NEW d \in Docs, Answers(d), Quiet(d), RunsWereFinished(d),
                      IF FromPage(d) THEN d \notin crossed ELSE Lasts(d)
               PROVE  Searchable(d)
    BY DEF ReadyIsSearchable
  <2>1. \A p \in Requests : ~Deletes(p, d) /\ ~Redoes(p, d)
    BY DEF Quiet, AtWorkOn, Deletes, Redoes
  <2>2. Calm(d)
    BY <2>1 DEF Calm, Answers
  <2> QED BY <2>1, <2>2 DEF SInv, SDocs, Quiet
<1> QED BY <1>1, InitSound, NextSound, InitKInv, NextKInv, InitRInv, NextRInv,
           InitSInv, NextSInv, PTL DEF Spec

=============================================================================
