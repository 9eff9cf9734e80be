--------------------------- MODULE HandoffInvariant ---------------------------
(***************************************************************************)
(* The inductive invariant behind the safety properties of Handoff: what a  *)
(* transaction in progress has written so far, and what its plan still owes.*)
(***************************************************************************)
EXTENDS Handoff

(* The word a transaction's uncommitted messages will leave in the thread.  *)
NewWord(s) ==
    IF s # <<>> /\ s[Len(s)].kind \in Telling THEN s[Len(s)].kind ELSE "nothing"

Silence(kinds) == \A i \in 1..Len(kinds) : kinds[i] \notin Telling

(* A message that says who is answering is the last a transaction writes.   *)
SpeaksLast(s) == \A i \in 1..Len(s) : i < Len(s) => s[i].kind \notin Telling

(* The last word of the thread exists: it is some message's.                *)
HasLastWord(s) ==
    Tellings(s) = {} \/ \E i \in Tellings(s) : \A j \in Tellings(s) : j <= i

(* What one transaction did to the row, by the word that goes with it.      *)
Moved(word, r, s) ==
    CASE word = "transferred" ->
           /\ r.state \notin AgentStates
           /\ s.state \in {"handoff_requested", "unassigned"} /\ s.agent = None
           /\ s.team = None <=> s.state = "handoff_requested"
      [] word = "agent" -> s.state = "human_active" /\ s.agent = r.agent /\ s.team = r.team
      [] word \in {"back", "unavailable"} ->
           s.state = "ai_active" /\ s.agent = None /\ s.team = None
      [] OTHER ->
           \/ s.state = r.state /\ s.agent = r.agent /\ s.team = r.team
           \/ /\ r.state = "unassigned" /\ s.state = "assigned"
              /\ s.agent # None /\ s.team = r.team

Marker(update) ==
    CASE update = "route"    -> <<"transferred">>
      [] update = "return"   -> <<"back">>
      [] update = "fallback" -> <<"unavailable">>
      [] OTHER               -> <<>>

(* A transaction's stages: nothing open; a poll that has only read; before  *)
(* the UPDATE; after it, with the row held or with none matched.            *)
Closed(p) == ~tx[p].busy /\ tx[p].poll = "no" /\ tx[p].new = <<>> /\ lock # p

Polling(p) ==
    /\ tx[p].busy /\ tx[p].poll # "no" /\ lock # p /\ tx[p].seq = 0
    /\ tx[p].before = <<>> /\ tx[p].update = "none" /\ tx[p].after = <<>>
    /\ tx[p].new = <<>>

Replying(p) ==
    /\ tx[p].busy /\ tx[p].poll = "no" /\ tx[p].update = "reply"
    /\ tx[p].after = <<>> /\ lock # p
    /\ \/ tx[p].before = <<"agent">> /\ tx[p].new = <<>>
       \/ tx[p].before = <<>> /\ NewWord(tx[p].new) = "agent"

Preparing(p) ==
    /\ tx[p].busy /\ tx[p].poll = "no" /\ tx[p].update \notin {"none", "reply"}
    /\ lock # p
    /\ Silence(tx[p].before) /\ NewWord(tx[p].new) = "nothing"
    /\ tx[p].after = Marker(tx[p].update)
    /\ tx[p].update = "claim" => p \in Agents

Holding(p) ==
    /\ tx[p].busy /\ tx[p].poll = "no" /\ tx[p].update = "none" /\ lock = p
    /\ tx[p].before = <<>>
    /\ \/ tx[p].after = <<>> /\ Moved(NewWord(tx[p].new), row, tx[p].row)
       \/ \E word \in Telling \ {"agent"} :
             /\ tx[p].after = <<word>> /\ NewWord(tx[p].new) = "nothing"
             /\ Moved(word, row, tx[p].row)

Noting(p) ==
    /\ tx[p].busy /\ tx[p].poll = "no" /\ tx[p].update = "none" /\ lock # p
    /\ Silence(tx[p].before) /\ tx[p].after = <<>>
    /\ NewWord(tx[p].new) = "nothing"

Stage(p) ==
    \/ Closed(p) \/ Polling(p) \/ Replying(p)
    \/ Preparing(p) \/ Holding(p) \/ Noting(p)

PlansKept == \A p \in Requests : SpeaksLast(tx[p].new) /\ Stage(p)

(* The uncommitted messages of the one transaction that has any continue    *)
(* the thread, and nobody has read a next_seq beyond the end.               *)
InLine(t, length) ==
    /\ \A i \in 1..Len(t.new) : t.new[i].seq = length + i
    /\ t.seq # 0 /\ t.new # <<>> => t.seq = length + Len(t.new) + 1
    /\ t.seq <= length + Len(t.new) + 1

LinesUp ==
    /\ \A i \in 1..Len(thread) : thread[i].seq = i
    /\ \A p \in Requests : InLine(tx[p], Len(thread))
    /\ \A p, q \in Requests : tx[p].new # <<>> /\ tx[q].new # <<>> => p = q

IInv ==
    /\ TypeOK
    /\ HasLastWord(thread)
    /\ PlansKept
    /\ LinesUp
    /\ RowShape
    /\ ThreadTellsState

=============================================================================
