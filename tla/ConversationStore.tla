-------------------------- MODULE ConversationStore --------------------------
(***************************************************************************)
(* One conversation as PostgreSQL keeps it, and the transactions that work *)
(* on it.  A request opens a unit of work (SqlAiResourceUnitOfWork), issues *)
(* statements one at a time at READ COMMITTED, and commits or rolls back.   *)
(* The handlers of module Handoff decide what a request writes; this module *)
(* says what each statement does when other transactions are in progress:   *)
(*                                                                          *)
(*   - an UPDATE of the conversation row waits for the transaction that     *)
(*     last wrote it, and tests its WHERE clause on the row it then finds;  *)
(*   - next_seq reads max(seq), committed rows and its own;                 *)
(*   - an INSERT of a message waits for an uncommitted message with the     *)
(*     same (conversation_id, seq), and fails if a committed one has it;    *)
(*   - two transactions waiting for each other are told apart by the        *)
(*     database, which rolls one of them back.                              *)
(*                                                                          *)
(* A request is a write plan: the messages to add before the UPDATE, the    *)
(* UPDATE, and the messages to add after it.                                *)
(***************************************************************************)
EXTENDS Naturals, Sequences

CONSTANTS
    Agents,       \* members working the inbox; each has one request at a time
    Tabs,         \* browser tabs open on the one visitor session
    Teams,        \* the tenant's active, staffed teams
    None          \* SQL NULL

ASSUME StoreAssumption ==
    /\ Agents \cap Tabs = {}
    /\ None \notin Agents \cup Tabs \cup Teams

Requests == Agents \cup Tabs

VARIABLES
    row,          \* the committed conversations row
    thread,       \* the committed conversation_messages, in seq order
    lock,         \* the request whose uncommitted UPDATE holds the row
    tx            \* each request's transaction

storeVars == <<row, thread, lock, tx>>

-----------------------------------------------------------------------------
(* ConversationState.  "resolved" is left out: no use case writes it. *)
States == {"ai_active", "handoff_requested", "unassigned", "assigned", "human_active"}
AgentStates == {"assigned", "human_active"}

Rows == [state : States, team : Teams \cup {None}, agent : Agents \cup {None},
         hold : BOOLEAN, handoffAt : Nat]

NewRow == [state |-> "ai_active", team |-> None, agent |-> None,
           hold |-> FALSE, handoffAt |-> 0]

(* What a message is: its role, and for a system event which one it is. *)
SystemEvents == {"transferred", "back", "waiting", "unavailable"}
InternalComments == {"note", "summary"}
Kinds == {"user", "assistant", "agent"} \cup InternalComments \cup SystemEvents

Messages == [seq : Nat, kind : Kinds, at : Nat]

Updates == {"none", "route", "claim", "reply", "return", "fallback",
            "hold", "release", "touch"}

-----------------------------------------------------------------------------
(* A transaction: `row` is the row as the request last read or wrote it,    *)
(* `new` its uncommitted messages, `seq` the next_seq it has read (0: none).*)
Transactions == [busy : BOOLEAN, poll : {"no", "tail", "notice", "return"},
                 before : Seq(Kinds), update : Updates, after : Seq(Kinds),
                 team : Teams \cup {None}, seq : Nat, row : Rows,
                 new : Seq(Messages), now : Nat]

Idle == [busy |-> FALSE, poll |-> "no", before |-> <<>>, update |-> "none",
         after |-> <<>>, team |-> None, seq |-> 0, row |-> NewRow,
         new |-> <<>>, now |-> 0]

StoreTypeOK ==
    /\ row \in Rows
    /\ thread \in Seq(Messages)
    /\ lock \in Requests \cup {None}
    /\ tx \in [Requests -> Transactions]

StoreInit ==
    /\ row = NewRow
    /\ thread = <<>>
    /\ lock = None
    /\ tx = [p \in Requests |-> Idle]

-----------------------------------------------------------------------------
(* The WHERE clauses and the SET lists of SqlConversationHandoffRepository. *)
RouteAnyWhere(r) == TRUE                                        \* mutant
RouteWhere(r) == r.state \notin AgentStates
ClaimTakenWhere(r) == r.state \in {"unassigned", "assigned"}     \* mutant
ClaimWhere(r) == r.state = "unassigned"

Matches(update, r) ==
    CASE update = "route" -> RouteWhere(r)
      [] update = "claim" -> ClaimWhere(r)
      [] OTHER            -> TRUE

Routed(r, team, now) ==
    [r EXCEPT !.state = IF team = None THEN "handoff_requested" ELSE "unassigned",
              !.team = team, !.agent = None, !.handoffAt = now]
Claimed(r, p)  == [r EXCEPT !.state = "assigned", !.agent = p]
Replied(r)     == [r EXCEPT !.state = "human_active"]
FellBack(r)    == [r EXCEPT !.state = "ai_active", !.team = None, !.agent = None]
HandedBack(r)  == [FellBack(r) EXCEPT !.hold = FALSE]

Written(update, r, p, team, now) ==
    CASE update = "route"    -> Routed(r, team, now)
      [] update = "claim"    -> Claimed(r, p)
      [] update = "reply"    -> Replied(r)
      [] update = "return"   -> HandedBack(r)
      [] update = "fallback" -> FellBack(r)
      [] update = "hold"     -> [r EXCEPT !.hold = TRUE]
      [] update = "release"  -> [r EXCEPT !.hold = FALSE]
      [] OTHER               -> r       \* conversations.save: columns not modelled

-----------------------------------------------------------------------------
(* next_seq: the largest seq the transaction sees, plus one. *)
LastSeq(s) == IF s = <<>> THEN 0 ELSE s[Len(s)].seq
NextSeq(p) == LastSeq(thread \o tx[p].new) + 1

HasSeqUnchecked(s, n) == FALSE                                  \* mutant
HasSeq(s, n) == \E i \in 1..Len(s) : s[i].seq = n

(* The message the plan says to add now. *)
Speaking(p) ==
    /\ tx[p].busy /\ tx[p].poll = "no"
    /\ tx[p].before # <<>> \/ (tx[p].update = "none" /\ tx[p].after # <<>>)

Saying(p) == Head(IF tx[p].before # <<>> THEN tx[p].before ELSE tx[p].after)

(* Who a request waits for: the holder of the row, or the transaction with  *)
(* an uncommitted message at the seq it is about to insert.                 *)
WaitsForRow(p, q) ==
    /\ tx[p].busy /\ tx[p].poll = "no" /\ tx[p].before = <<>>
    /\ tx[p].update # "none"
    /\ lock = q /\ q # p

WaitsForSeq(p, q) ==
    /\ Speaking(p) /\ tx[p].seq # 0
    /\ q # p /\ HasSeq(tx[q].new, tx[p].seq)

-----------------------------------------------------------------------------
(* Leaving the `async with`: nothing the transaction wrote remains. *)
RollbackHoldingRow(p) ==                                   \* mutant
    /\ tx' = [tx EXCEPT ![p] = Idle]
    /\ UNCHANGED <<row, thread, lock>>

Rollback(p) ==
    /\ tx' = [tx EXCEPT ![p] = Idle]
    /\ lock' = IF lock = p THEN None ELSE lock
    /\ UNCHANGED <<row, thread>>

(* An early return: commits a transaction that has written nothing. *)
Leave(p) ==
    /\ tx' = [tx EXCEPT ![p] = Idle]
    /\ UNCHANGED <<row, thread, lock>>

ReadNextSeq(p) ==
    /\ Speaking(p) /\ tx[p].seq = 0
    /\ tx' = [tx EXCEPT ![p].seq = NextSeq(p)]
    /\ UNCHANGED <<row, thread, lock>>

(* The unique constraint on (conversation_id, seq).  The failure of a       *)
(* summary's INSERT is caught by its handler, but the session refuses every *)
(* later statement of a transaction whose flush failed, so it too ends in a *)
(* rollback.                                                                *)
SeqTaken(p) ==
    /\ Speaking(p) /\ tx[p].seq # 0
    /\ HasSeq(thread, tx[p].seq)
    /\ Rollback(p)

AddMessage(p) ==
    /\ Speaking(p) /\ tx[p].seq # 0
    /\ ~HasSeq(thread, tx[p].seq)
    /\ \A q \in Requests : ~WaitsForSeq(p, q)
    /\ tx' = [tx EXCEPT
           ![p].new = Append(@, [seq |-> tx[p].seq, kind |-> Saying(p), at |-> tx[p].now]),
           ![p].before = IF @ # <<>> THEN Tail(@) ELSE @,
           ![p].after = IF tx[p].before # <<>> THEN @ ELSE Tail(@),
           ![p].seq = 0]
    /\ UNCHANGED <<row, thread, lock>>

(* An UPDATE once the row is free.  When no row matches, a claim raises and *)
(* a routing request goes on without its transfer marker.                   *)
AtUpdate(p) ==
    /\ tx[p].busy /\ tx[p].poll = "no" /\ tx[p].before = <<>>
    /\ tx[p].update # "none"
    /\ lock = None

UpdateRow(p) ==
    /\ AtUpdate(p) /\ Matches(tx[p].update, row)
    /\ lock' = p
    /\ tx' = [tx EXCEPT
           ![p].row = Written(tx[p].update, row, p, tx[p].team, tx[p].now),
           ![p].update = "none"]
    /\ UNCHANGED <<row, thread>>

ClaimLost(p) ==
    /\ AtUpdate(p) /\ tx[p].update = "claim" /\ ~Matches("claim", row)
    /\ Rollback(p)

RouteNotMovedMarked(p) ==                                       \* mutant
    /\ AtUpdate(p) /\ tx[p].update = "route" /\ ~Matches("route", row)
    /\ tx' = [tx EXCEPT ![p].update = "none"]
    /\ UNCHANGED <<row, thread, lock>>

RouteNotMoved(p) ==
    /\ AtUpdate(p) /\ tx[p].update = "route" /\ ~Matches("route", row)
    /\ tx' = [tx EXCEPT ![p].update = "none", ![p].after = <<>>]
    /\ UNCHANGED <<row, thread, lock>>

Commit(p) ==
    /\ tx[p].busy /\ tx[p].poll = "no"
    /\ tx[p].before = <<>> /\ tx[p].update = "none" /\ tx[p].after = <<>>
    /\ row' = IF lock = p THEN tx[p].row ELSE row
    /\ thread' = thread \o tx[p].new
    /\ lock' = IF lock = p THEN None ELSE lock
    /\ tx' = [tx EXCEPT ![p] = Idle]

(* PostgreSQL's deadlock detector picks a victim among the waiters. *)
Deadlocked(p) ==
    \E q \in Requests : \/ WaitsForRow(p, q) /\ WaitsForSeq(q, p)
                        \/ WaitsForSeq(p, q) /\ WaitsForRow(q, p)

DeadlockVictim(p) == Deadlocked(p) /\ Rollback(p)

(* The request is cut short: the worker dies, the client goes away and the  *)
(* handler is cancelled, the connection drops.                              *)
CutShort(p) == tx[p].busy /\ Rollback(p)

=============================================================================
