-------------------------- MODULE IngestionInvariant --------------------------
(***************************************************************************)
(* The inductive invariants behind the properties of Ingestion.             *)
(* KInv: who may be at work on a document, and what deletions leave.        *)
(* RInv: what runs that were not overlapped find, and what is still to come.*)
(* SInv: whose points a document has when runs of it overlap.               *)
(***************************************************************************)
EXTENDS Ingestion

Kinds == DOMAIN Script \cup {"idle"}

Fields == {"kind", "step", "doc", "read", "content", "url", "run", "todo", "seen"}

(* A document's row has its columns: what a save leaves alone is there.     *)
IsDoc(row) == DOMAIN row = {"state", "url", "status"}
Ready(row) == row.state = "live" /\ row.status = "ready"

(* Who has a document: an upload and a page once they have found theirs.    *)
HasDoc(q) ==
    \/ q.kind \in {"ingest", "ingestFailed", "blankPage", "retry", "delete"}
    \/ q.kind \in {"page", "upload"} /\ q.step >= 3

(* A run has an identity; what a request has read of documents are rows,    *)
(* and it has read those it saves from what it read.                        *)
SoundReq(q) ==
    /\ DOMAIN q = Fields /\ q.kind \in Kinds /\ q.step \in Nat \ {0}
    /\ q.kind \in WorkerKinds => q.run \in Nat \ {0}
    /\ HasDoc(q) => q.doc \in Docs
    /\ \A d \in Docs \cap DOMAIN q.read : IsDoc(q.read[d])
    /\ q.kind \in {"retry", "delete"} /\ q.step >= 3 => q.doc \in DOMAIN q.read
    /\ q.kind = "deleteKB" => q.todo \subseteq Docs \cap DOMAIN q.read
    /\ q.kind = "purge" => {q.doc} \cup q.todo \subseteq Docs \cap DOMAIN q.read

(* Between a DELETE of the passages and what makes up for it. *)
Clearing(q) ==
    \/ q.kind = "ingest" /\ q.step \in 5..7
    \/ q.kind = "delete" /\ q.step \in 5..6
    \/ q.kind = "purge" /\ q.step \in 3..4

(* Past the row of a page, past the passages, past the ready status. *)
Paged(q) == q.kind = "page" /\ q.step >= 4
Inserted(q) ==
    \/ q.kind = "ingest" /\ q.step >= 8
    \/ q.kind = "page" /\ q.step >= 9
Marked(q) ==
    \/ q.kind = "ingest" /\ q.step >= 10
    \/ q.kind = "page" /\ q.step >= 11

(* What request q may hold in its draft w: a ready document only at the end *)
(* of a run, with the run's own passages; no passages only together with a  *)
(* row that is not ready, or while the request is about to make up for it.  *)
SoundDraft(q, w) ==
    /\ \A d \in Docs \cap DOMAIN w :
          IsDoc(w[d]) /\ (Ready(w[d]) => Marked(q) /\ d = q.doc)
    /\ \A d \in Docs :
          Passages(d) \in DOMAIN w /\ w[Passages(d)].run = 0
              => d \in DOMAIN w \/ (d = q.doc /\ Clearing(q))
    /\ Paged(q) => q.doc \in DOMAIN w
    /\ Inserted(q) => Passages(q.doc) \in DOMAIN w /\ w[Passages(q.doc)].run # 0

Sound(q, w) == SoundReq(q) /\ SoundDraft(q, w)

IInv ==
    /\ DOMAIN req = Requests /\ DOMAIN draft = Requests
    /\ \A d \in Docs : IsDoc(db[d])
    /\ \A p \in Requests : Sound(req[p], draft[p])
    /\ ReadyHasPassages

-----------------------------------------------------------------------------
Past(p, kind, i) == req[p].kind = kind /\ req[p].step >= i
Within(p, kind, i, j) == req[p].kind = kind /\ req[p].step \in i..j

Alone(d) == \A p, q \in Requests : AtWorkOn(p, d) /\ AtWorkOn(q, d) => p = q

(* Nothing written: between transactions, and before a first write.         *)
Empty(p) ==
    \/ req[p].kind \in {"idle", "turn", "deleteKB"}
    \/ req[p].kind = "upload" /\ req[p].step # 4
    \/ req[p].kind \in {"retry", "resync"} /\ req[p].step >= 5
    \/ req[p].kind = "create" /\ req[p].step >= 4
    \/ req[p].kind = "ingest" /\ req[p].step <= 4
    \/ req[p].kind = "page" /\ req[p].step <= 3
    \/ req[p].kind = "ingestFailed" /\ req[p].step <= 1

(* The row was there when p began, and a row never goes away.               *)
Knows(p, d) ==
    \/ /\ d = Doc(p)
       /\ \/ req[p].kind \in {"retry", "delete", "purge", "ingest", "ingestFailed"}
          \/ req[p].kind = "upload" /\ req[p].step >= 5
    \/ d \in req[p].todo

(* At work on a row that was live, or absent, when p found it.              *)
AtRow(p) ==
    \/ req[p].kind \in {"retry", "ingest", "page", "upload"} /\ req[p].step >= 3
    \/ req[p].kind = "blankPage"

(* Past the deletion of the points, or about to commit one.                 *)
Cleared(p, d) ==
    \/ d = Doc(p) /\ req[p].kind = "delete" /\ req[p].step >= 4
    \/ d = Doc(p) /\ req[p].kind = "purge" /\ req[p].step >= 2
    \/ d \in Wrote(p) /\ draft[p][d].state = "deleted"

FitDraft(p) ==
    /\ Empty(p) => Wrote(p) = {}
    /\ req[p].kind = "blankPage" \/ (req[p].kind = "upload" /\ req[p].step = 4)
           => Doc(p) \in Wrote(p)
    /\ \A d \in Docs \cap Wrote(p) :
          /\ draft[p][d].state \in {"live", "deleted"}
          /\ db[d].state = "deleted" /\ Lasts(d) => draft[p][d].state = "deleted"

FitRows(p) ==
    /\ req[p].kind = "retry" => "retry" \in begun.kinds
    /\ req[p].kind = "retry" /\ req[p].step >= 3 => Copy(p, Doc(p)).state = "live"
    /\ \A d \in Docs : Knows(p, d) => db[d].state # "absent"
    /\ req[p].kind = "upload" /\ req[p].step \in 3..4 => db[Doc(p)].state = "absent"

FitStores(p) ==
    \A d \in Docs \ crossed :
        /\ Cleared(p, d) => vectors[d] = {}
        /\ d = Doc(p) /\ AtRow(p) => db[d].state # "deleted" /\ Seen(p, d).state # "deleted"

Deletion == begun.kinds \cap {"delete", "deleteKB"} # {}
FitKinds(p) ==
    /\ req[p].kind \in {"delete", "deleteKB", "purge", "dropKB"} => Deletion
    /\ \A d \in Docs \cap Wrote(p) : draft[p][d].state = "deleted" => Deletion

Fit(p) == FitDraft(p) /\ FitRows(p) /\ FitStores(p) /\ FitKinds(p)

DocsFit ==
    /\ DOMAIN vectors = Docs /\ DOMAIN objects = Docs /\ DOMAIN jobs = Docs \cup {Source}
    /\ \A x \in Docs \cup {Source} : jobs[x] \in Nat
    /\ \A d \in Docs : db[d].state \in {"absent", "live", "deleted"}
    /\ \A d \in Docs : db[d].state = "absent" => jobs[d] = 0 /\ Alone(d)
    /\ \A d \in Docs : db[d].state = "deleted" => Deletion
    /\ \A d \in Docs \ crossed : Alone(d) /\ (db[d].state = "deleted" => vectors[d] = {})

KInv == OneWriter /\ DocsFit /\ \A p \in Requests : Fit(p)

-----------------------------------------------------------------------------
(* Who may hold what. *)
Deleter(p) == req[p].kind \in {"delete", "purge", "dropKB"}

OwnDraft(p) ==
    /\ \A d \in Docs \cap Wrote(p) :
          \/ d = Doc(p) /\ req[p].kind \in {"upload", "retry", "ingest", "ingestFailed", "page",
                                             "blankPage"}
          \/ Deleter(p) /\ draft[p][d].state = "deleted"
    /\ \A d \in Docs : Passages(d) \in Wrote(p) =>
          \/ d = Doc(p) /\ req[p].kind \in {"ingest", "page", "blankPage", "delete", "purge"}
          \/ Deleter(p) /\ d \in Wrote(p)
    /\ Past(p, "ingest", 10) \/ Past(p, "page", 11)
           => Doc(p) \in Wrote(p) /\ draft[p][Doc(p)].status = "ready"
    /\ Past(p, "ingest", 8) \/ Past(p, "page", 9)
           => draft[p][Passages(Doc(p))].run = req[p].run
    /\ Within(p, "ingest", 1, 7) /\ Passages(Doc(p)) \in Wrote(p)
           => draft[p][Passages(Doc(p))].run = 0

(* The page a document is of is written once. *)
OwnUrl(p) ==
    /\ req[p].kind = "page" => req[p].url # None
    /\ \A d \in Docs \cap Wrote(p) : db[d].state # "absent" => draft[p][d].url = db[d].url
    /\ req[p].kind \in {"retry", "delete"} /\ req[p].step >= 3
           => Copy(p, Doc(p)).url = db[Doc(p)].url
    /\ req[p].kind = "deleteKB" => \A d \in req[p].todo : Copy(p, d).url = db[d].url
    /\ req[p].kind = "purge"
           => \A d \in {Doc(p)} \cup req[p].todo : Copy(p, d).url = db[d].url
    /\ Past(p, "page", 3) \/ req[p].kind = "blankPage"
           => db[Doc(p)].state = "absent" \/ db[Doc(p)].url # None
    /\ Past(p, "page", 4) \/ req[p].kind = "blankPage"
           => draft[p][Doc(p)].url # None

Undisturbed(p) ==
    LET d == Doc(p)
    IN  d \in Docs \ crossed =>
        /\ Past(p, "ingest", 4) => objects[d] = req[p].content
        /\ Past(p, "page", 5) => objects[d] = req[p].content
        /\ req[p].kind = "blankPage" => objects[d] # "text"
        /\ Within(p, "ingest", 5, 7) \/ Within(p, "page", 6, 8) => Seen(p, Passages(d)).run = 0
        /\ req[p].kind = "ingestFailed" /\ RunsWereFinished(d)
               => Seen(p, d).state # "live" \/ objects[d] # "text"

NeverWaited(p) == \A d \in Docs : Passages(d) \in DOMAIN req[p].read => d \in crossed

Promises(p, d) ==
    /\ Doc(p) = d
    /\ \/ req[p].kind = "ingest"
       \/ req[p].kind \in {"upload", "retry", "page"} /\ req[p].step >= 5
StillToCome(d) == jobs[d] > 0 \/ \E p \in Requests : Promises(p, d)

Wanted(d) == db[d].state = "live" /\ objects[d] = "text" /\ RunsWereFinished(d)

RDocs ==
    /\ "kinds" \in DOMAIN failures
    /\ authorized \/ "revoked" \in failures.kinds
    /\ \A d \in Docs \ crossed : Wanted(d) => db[d].status = "ready" \/ StillToCome(d)

Own(p) == OwnDraft(p) /\ OwnUrl(p) /\ Undisturbed(p) /\ NeverWaited(p)
RInv == RDocs /\ \A p \in Requests : Own(p)

-----------------------------------------------------------------------------
(* Deletions under way cannot be stopped, when no call of them fails.       *)
Deletes(p, d) ==
    \/ d = Doc(p) /\ Past(p, "delete", 4)
    \/ d = Doc(p) /\ Past(p, "purge", 2)
    \/ req[p].kind \in {"purge", "dropKB"} /\ d \in Wrote(p)

Calm(d) ==
    /\ db[d].state = "live" /\ RunsWereFinished(d)
    /\ IF FromPage(d) THEN d \notin crossed ELSE Lasts(d)
    /\ \A p \in Requests : ~Deletes(p, d)

Ingests(p, d) == Doc(p) = d /\ req[p].kind = "ingest"
Rerun(d, p) == jobs[d] > 0 \/ \E q \in Requests \ {p} : Ingests(q, d)

(* A run of a document that lasts works on the bytes that are stored; once  *)
(* it may go on to insert its passages, the points are its own, or another  *)
(* run is there to clear them away.                                         *)
Fetched(p, d) ==
    Ingests(p, d) =>
        /\ req[p].step >= 4 /\ Calm(d) => req[p].content = objects[d]
        /\ req[p].step >= 7 => req[p].content = "text"

RunPoints(p, d) ==
    /\ Ingests(p, d) /\ req[p].step >= 6 /\ Calm(d) /\ objects[d] = "text"
    /\ req[p].step >= 8 \/ Seen(p, Passages(d)).run = 0
    => \/ vectors[d] = IF req[p].step >= 9 THEN {req[p].run} ELSE {}
       \/ Rerun(d, p)

PagePoints(p, d) ==
    Doc(p) = d /\ d \notin crossed /\ Past(p, "page", 7)
        => vectors[d] = IF req[p].step >= 10 THEN {req[p].run} ELSE {}

Points(p, d) == Fetched(p, d) /\ RunPoints(p, d) /\ PagePoints(p, d)

(* The row is written before the commit. *)
Noted(p) ==
    \/ req[p].kind = "ingestFailed" /\ req[p].step >= 2
    \/ req[p].kind = "delete" /\ req[p].step >= 7
    => Doc(p) \in Wrote(p)

Redoes(p, d) ==
    /\ Doc(p) = d
    /\ req[p].kind \in {"ingest", "ingestFailed", "blankPage"} \/ Past(p, "page", 7)

SDocs ==
    \A d \in Docs :
        Answers(d) /\ Calm(d)
        => Searchable(d) \/ jobs[d] > 0 \/ \E p \in Requests : Redoes(p, d)

SInv == (\A p \in Requests : Noted(p) /\ \A d \in Docs : Points(p, d)) /\ SDocs

=============================================================================
