----------------------------- MODULE UnitOfWork -----------------------------
(***************************************************************************)
(* A request of the console's API: one use case in one unit of work         *)
(* (infrastructure/db/unit_of_work.py).  It reads the rows its use case     *)
(* asks for, statement by statement, decides on what it has read, writes,   *)
(* and commits; a refusal, an error and a crash all roll back.              *)
(*                                                                          *)
(* The modules of the use cases extend this one: a use case is an action    *)
(* that is enabled where its code does not raise.                           *)
(***************************************************************************)
EXTENDS ReadCommitted, Sequences

CONSTANTS
    UseCases,     \* the use cases this instance runs
    MaxRequests   \* bound: requests begun, those a scene has already counted included

ASSUME UnitOfWorkAssumption == MaxRequests \in Nat

VARIABLES
    runs,         \* the use cases of this behaviour's scene (bound)
    req,          \* each request: its use case, what it has to read and has read
    begun,        \* how many requests have begun (bound)
    overwritten   \* history: rows saved over a change the request had not read

uowVars == <<dbVars, runs, req, begun, overwritten>>

Numbers == 0..MaxRequests

-----------------------------------------------------------------------------
(* `plan` is the rows each statement still to come reads, `copy` what the   *)
(* earlier ones returned.                                                   *)
Idle == [kind |-> "idle", id |-> 0, args |-> <<>>, plan |-> <<>>, copy |-> NoRows,
         done |-> FALSE]

UowInit(already) ==
    /\ req = [p \in Requests |-> Idle]
    /\ begun = already
    /\ overwritten = {}

Copy(p, r) == req[p].copy[r]
Arg(p) == req[p].args
Id(p) == req[p].id
Running(p) == req[p].kind # "idle"

(* A request that authenticated and resolved its tenant arrives. *)
Begin(p, kind, args, plan) ==
    /\ kind \in runs /\ begun < MaxRequests
    /\ ~Running(p)
    /\ begun' = begun + 1
    /\ req' = [req EXCEPT ![p] = [Idle EXCEPT !.kind = kind, !.id = begun + 1,
                                              !.args = args, !.plan = plan]]
    /\ UNCHANGED <<dbVars, runs, overwritten>>

(* SELECT.  The session keeps the first copy of an entity it has loaded     *)
(* (SQLAlchemy's identity map): reading a row again changes nothing.        *)
Read(p) ==
    /\ req[p].plan # <<>>
    /\ req' = [req EXCEPT ![p].plan = Tail(@),
                          ![p].copy = [r \in DOMAIN @ \cup Head(req[p].plan) |->
                                          IF r \in DOMAIN @ THEN @[r] ELSE Seen(p, r)]]
    /\ UNCHANGED <<dbVars, runs, begun, overwritten>>

(* The use case has read what it asks for and decides. *)
Decides(p, kind) == req[p].kind = kind /\ req[p].plan = <<>> /\ ~req[p].done

Wrote1(p, new) ==
    /\ Put(p, new)
    /\ overwritten' = overwritten \cup
           {r \in DOMAIN new \cap DOMAIN req[p].copy : db[r] # Copy(p, r)}
    /\ UNCHANGED <<runs, begun>>

(* The last statements of a use case. *)
Save(p, new) ==
    /\ Wrote1(p, new)
    /\ req' = [req EXCEPT ![p].done = TRUE]

SaveRow(p, r, value) == Save(p, [x \in {r} |-> value])

(* A use case that goes on reading after a write, as `next`. *)
SaveAndGoOn(p, new, next, plan) ==
    /\ Wrote1(p, new)
    /\ req' = [req EXCEPT ![p].kind = next, ![p].plan = plan]

Commit(p) ==
    /\ req[p].done
    /\ CommitRows(p)
    /\ req' = [req EXCEPT ![p] = Idle]
    /\ UNCHANGED <<runs, begun, overwritten>>

(* The use case raised, a constraint refused a row, or the worker died. *)
Abandon(p) ==
    /\ Running(p)
    /\ DropRows(p)
    /\ req' = [req EXCEPT ![p] = Idle]
    /\ UNCHANGED <<runs, begun, overwritten>>

NoneOverwritten(rows) == rows \cap overwritten = {}

Ends(p) == Running(p) /\ req'[p].kind = "idle"

=============================================================================
