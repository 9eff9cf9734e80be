---------------------------- MODULE ReadCommitted ----------------------------
(***************************************************************************)
(* PostgreSQL rows under concurrent units of work, as the repositories of  *)
(* this code use them: every request has one transaction, reads at READ     *)
(* COMMITTED (committed rows and its own), and holds each row it has        *)
(* written until it ends.  Nothing in the code locks a row it only reads.   *)
(*                                                                          *)
(* A using module gives the rows their values and the requests their        *)
(* statements; this one says what a statement sees and when it must wait.   *)
(***************************************************************************)
EXTENDS Naturals, FiniteSets

CONSTANTS
    Requests,     \* the requests that may run at the same time
    Rows          \* identities of the rows, those not inserted yet included

VARIABLES
    db,           \* the committed value of each row
    draft         \* what each transaction has written and not committed

dbVars == <<db, draft>>

NoRows == [r \in {} |-> {}]

DbInit(rows) ==
    /\ db = rows
    /\ draft = [p \in Requests |-> NoRows]

Wrote(p) == DOMAIN draft[p]

(* What a statement of p reads in row r, and whether it may write it. *)
Seen(p, r) == IF r \in Wrote(p) THEN draft[p][r] ELSE db[r]
Free(p, r) == \A q \in Requests \ {p} : r \notin Wrote(q)

(* An UPDATE or INSERT of the rows DOMAIN new. *)
Put(p, new) ==
    /\ \A r \in DOMAIN new : Free(p, r)
    /\ draft' = [draft EXCEPT ![p] =
           [r \in Wrote(p) \cup DOMAIN new |->
               IF r \in DOMAIN new THEN new[r] ELSE draft[p][r]]]
    /\ UNCHANGED db

CommitRows(p) ==
    /\ db' = [r \in Rows |-> Seen(p, r)]
    /\ draft' = [draft EXCEPT ![p] = NoRows]

DropNothing(p) == UNCHANGED dbVars                               \* mutant
DropRows(p) ==
    /\ draft' = [draft EXCEPT ![p] = NoRows]
    /\ UNCHANGED db

(* Requests that wait only for each other: wants[p] is what p has yet to    *)
(* write to finish its statement.                                           *)
Deadlocked(p, wants) ==
    \E S \in SUBSET Requests :
        /\ p \in S
        /\ \A q \in S : wants[q] # {} /\ wants[q] \subseteq UNION {Wrote(h) : h \in S \ {q}}

-----------------------------------------------------------------------------
(* No row is in two drafts: what READ COMMITTED's row locks come to. *)
OneWriter == \A p, q \in Requests : p # q => Wrote(p) \cap Wrote(q) = {}

=============================================================================
