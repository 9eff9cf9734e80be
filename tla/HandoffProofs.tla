---------------------------- MODULE HandoffProofs ----------------------------
(***************************************************************************)
(* Proofs about Handoff for any agents, tabs, teams, timeouts and bounds:   *)
(* type correctness, the thread's numbering, the agreement of the thread    *)
(* with the row, and that the transactions implement Ownership.             *)
(***************************************************************************)
EXTENDS HandoffInvariant, SequenceTheorems, TLAPS

-----------------------------------------------------------------------------
(* Type correctness.  A claim is only ever planned by an agent, which the   *)
(* type of the row's agent column needs.                                    *)
TInv == TypeOK /\ \A p \in Requests : tx[p].update = "claim" => p \in Agents

LEMMA IdleType == Idle \in Transactions /\ NewRow \in Rows
  BY DEF Idle, Transactions, NewRow, Rows, States, Updates, Kinds, Messages

LEMMA InitTypes == Init => TInv
  <1> SUFFICES ASSUME Init PROVE TInv
    OBVIOUS
  <1> USE IdleType
  <1>1. StoreTypeOK
    BY DEF Init, StoreInit, StoreTypeOK, NewRow, Rows
  <1>2. \A p \in Requests : tx[p].update # "claim"
    BY DEF Init, StoreInit, Idle
  <1>3. TypeOK
    <2>1. clock \in Nat \ {0} /\ begun \in 0..MaxRequests /\ failures \in 0..MaxFailures
      BY HandoffAssumption DEF Init
    <2>2. typing \in BOOLEAN /\ settings \in [ai : BOOLEAN, handoff : BOOLEAN]
      BY Zenon DEF Init
    <2>3. QED
      BY <1>1, <2>1, <2>2, Zenon DEF TypeOK
  <1>4. QED
    BY <1>2, <1>3 DEF TInv

LEMMA WrittenType ==
  ASSUME NEW r \in Rows, NEW p \in Requests, NEW update \in Updates,
         update = "claim" => p \in Agents,
         NEW team \in Teams \cup {None}, NEW now \in Nat
  PROVE  Written(update, r, p, team, now) \in Rows
  BY DEF Written, Rows, Routed, Claimed, Replied, HandedBack, FellBack, States, Updates

-----------------------------------------------------------------------------
(* Every step of Next is one of eleven steps of one transaction, or leaves  *)
(* the store alone.                                                         *)
Planned(p, before, update, after) ==
    \/ update = "reply" /\ before = <<"agent">> /\ after = <<>>
    \/ /\ update \notin {"none", "reply"} /\ Silence(before)
       /\ after = Marker(update) /\ (update = "claim" => p \in Agents)
    \/ update = "none" /\ Silence(before) /\ after = <<>>

Opens(p) ==
    \E poll \in {"no", "tail"}, before \in Seq(Kinds), update \in Updates,
       after \in Seq(Kinds), team \in Teams \cup {None} :
        /\ Open(p, poll, before, update, after, team)
        /\ Planned(p, before, update, after)
        /\ poll = "tail" => before = <<>> /\ update = "none"

PollOn(p) ==
    /\ tx[p].poll # "no"
    /\ \E due \in {"return", "notice"} : tx' = [tx EXCEPT ![p].poll = due]
    /\ UNCHANGED <<row, thread, lock>>

PollActs(p) ==
    /\ tx[p].poll # "no"
    /\ \E notice \in BOOLEAN :
          tx' = [tx EXCEPT
              ![p].poll = "no",
              ![p].before = IF notice THEN <<"waiting">> ELSE <<>>,
              ![p].update = IF notice THEN "none" ELSE "fallback",
              ![p].after = IF notice THEN <<>> ELSE <<"unavailable">>]
    /\ UNCHANGED <<row, thread, lock>>

StoreStep(p) ==
    \/ Opens(p)
    \/ Rollback(p)
    \/ tx[p].poll # "no" /\ Leave(p)
    \/ PollOn(p) \/ PollActs(p)
    \/ ReadNextSeq(p) \/ AddMessage(p)
    \/ UpdateRow(p) \/ RouteNotMoved(p) \/ Commit(p)

LEMMA PlanTypes ==
  /\ <<>> \in Seq(Kinds)
  /\ \A k \in Kinds : <<k>> \in Seq(Kinds)
  /\ \A k, l \in Kinds : <<k, l>> \in Seq(Kinds)
  OBVIOUS

LEMMA Silences ==
  /\ Silence(<<>>)
  /\ \A k \in Kinds \ Telling : Silence(<<k>>)
  /\ \A k, l \in Kinds \ Telling : Silence(<<k, l>>)
  BY DEF Silence

LEMMA KindFacts ==
  /\ {"user", "assistant", "note", "summary", "waiting"} \subseteq Kinds \ Telling
  /\ Telling \subseteq Kinds
  /\ {"agent", "transferred", "back", "unavailable"} = Telling
  /\ "nothing" \notin Telling
  BY DEF Kinds, Telling, InternalComments, SystemEvents

LEMMA AgentOpens ==
  ASSUME NEW a \in Agents, AgentRequest(a)
  PROVE  UNCHANGED storeVars \/ Opens(a)
  <1> USE PlanTypes, Silences, KindFacts DEF Begin
  <1>1. CASE ClaimConversation(a)
    BY <1>1 DEF ClaimConversation, Opens, Planned, Updates, Marker
  <1>2. CASE PostAgentMessage(a)
    <2>1. CASE Begin(a, <<"agent">>, "reply", <<>>, None)
      BY <2>1 DEF Opens, Planned, Updates
    <2>2. CASE Begin(a, <<"note">>, "none", <<>>, None)
      BY <2>2 DEF Opens, Planned, Updates
    <2>3. QED
      BY <1>2, <2>1, <2>2 DEF PostAgentMessage
  <1>3. CASE ReturnConversationToAi(a)
    BY <1>3 DEF ReturnConversationToAi, Opens, Planned, Updates, Marker
  <1>4. CASE SetConversationAiMode(a)
    <2>1. PICK update \in {"hold", "release"} : Begin(a, <<>>, update, <<>>, None)
      BY <1>4 DEF SetConversationAiMode
    <2>2. update \in Updates /\ Marker(update) = <<>>
      BY DEF Updates, Marker
    <2>3. QED
      BY <2>1, <2>2 DEF Opens, Planned
  <1>5. CASE RequestHandoff(a)
    <2>1. PICK team \in Teams \cup {None} :
              Begin(a, <<>>, "route", <<"transferred">>, team)
      BY <1>5 DEF RequestHandoff
    <2>2. QED
      BY <2>1 DEF Opens, Planned, Updates, Marker
  <1>6. CASE SetAgentTyping(a)
    BY <1>6 DEF SetAgentTyping
  <1>7. QED
    BY <1>1, <1>2, <1>3, <1>4, <1>5, <1>6 DEF AgentRequest

LEMMA VisitorOpens ==
  ASSUME NEW v \in Tabs, VisitorRequest(v)
  PROVE  UNCHANGED storeVars \/ Opens(v)
  <1> USE PlanTypes, Silences, KindFacts DEF Begin
  <1>1. CASE SelectHandoffTeam(v)
    <2>1. PICK team \in Teams, before \in {<<>>, <<"user">>, <<"summary">>, <<"user", "summary">>} :
              Begin(v, before, "route", <<"transferred">>, team)
      BY <1>1 DEF SelectHandoffTeam
    <2>2. before \in Seq(Kinds) /\ Silence(before)
      OBVIOUS
    <2>3. QED
      BY <2>1, <2>2 DEF Opens, Planned, Updates, Marker
  <1>2. CASE SendVisitorMessage(v)
    BY <1>2 DEF SendVisitorMessage, Opens, Planned, Updates, Marker
  <1>3. CASE PersistExchange(v)
    BY <1>3 DEF PersistExchange, Opens, Planned, Updates, Marker
  <1>4. CASE AdvanceHandoffFallback(v)
    BY <1>4 DEF AdvanceHandoffFallback, Opens, Planned, Updates, vars, storeVars
  <1>5. QED
    BY <1>1, <1>2, <1>3, <1>4 DEF VisitorRequest

LEMMA StepCases ==
  ASSUME Next
  PROVE  UNCHANGED storeVars \/ \E p \in Requests : StoreStep(p)
  <1>1. ASSUME NEW a \in Agents, AgentRequest(a)
        PROVE  UNCHANGED storeVars \/ StoreStep(a)
    BY <1>1, AgentOpens DEF StoreStep
  <1>2. ASSUME NEW v \in Tabs, VisitorRequest(v)
        PROVE  UNCHANGED storeVars \/ StoreStep(v)
    BY <1>2, VisitorOpens DEF StoreStep
  <1>3. ASSUME NEW v \in Tabs, ReadTail(v)
        PROVE  StoreStep(v)
    BY <1>3 DEF ReadTail, StoreStep, PollOn
  <1>4. ASSUME NEW v \in Tabs, Decide(v)
        PROVE  StoreStep(v)
    <2>1. CASE tx[v].poll # "no" /\ Leave(v)
      BY <2>1 DEF StoreStep
    <2>2. CASE ~(typing \/ (tx[v].poll = "return" /\ (tx[v].row.hold \/ ~settings.ai)))
      <3> DEFINE notice == tx[v].poll = "notice"
      <3>1. notice \in BOOLEAN /\ tx[v].poll # "no"
            /\ (tx[v].poll = "return" <=> ~notice)
        BY <1>4 DEF Decide
      <3>2. PollActs(v)
        BY <1>4, <2>2, <3>1 DEF Decide, PollActs
      <3>3. QED
        BY <3>2 DEF StoreStep
    <2>3. QED
      BY <1>4, <2>1, <2>2 DEF Decide
  <1>5. ASSUME NEW p \in Requests, Statement(p)
        PROVE  StoreStep(p)
    BY <1>5 DEF Statement, StoreStep, SeqTaken, ClaimLost, DeadlockVictim
  <1>6. ASSUME NEW p \in Requests, Crash(p)
        PROVE  StoreStep(p)
    BY <1>6 DEF Crash, CutShort, StoreStep
  <1>7. SaveChatbotSettings \/ Tick => UNCHANGED storeVars
    BY DEF SaveChatbotSettings, Tick
  <1>8. QED
    BY <1>1, <1>2, <1>3, <1>4, <1>5, <1>6, <1>7 DEF Next, Requests

-----------------------------------------------------------------------------
(* A step that gives one transaction a new record of its type. *)
LEMMA OneTransaction ==
  ASSUME TInv, NEW p \in Requests, NEW t \in Transactions,
         t.update = "claim" => p \in Agents,
         tx' = [tx EXCEPT ![p] = t]
  PROVE  /\ tx' \in [Requests -> Transactions]
         /\ \A q \in Requests : tx'[q].update = "claim" => q \in Agents
  BY DEF TInv, TypeOK, StoreTypeOK

LEMMA NextSeqType ==
  ASSUME TInv, NEW p \in Requests
  PROVE  NextSeq(p) \in Nat \ {0}
  <1> DEFINE s == thread \o tx[p].new
  <1>1. s \in Seq(Messages)
    BY DEF TInv, TypeOK, StoreTypeOK, Transactions
  <1> HIDE DEF s
  <1>2. LastSeq(s) \in Nat
    <2>1. CASE s = <<>>
      BY <2>1 DEF LastSeq
    <2>2. CASE s # <<>>
      <3>1. s[Len(s)] \in Messages
        BY <1>1, <2>2
      <3>2. QED
        BY <2>2, <3>1 DEF LastSeq, Messages
    <2>3. QED
      BY <2>1, <2>2
  <1>3. NextSeq(p) = LastSeq(s) + 1
    BY DEF NextSeq, s
  <1>4. QED
    BY <1>2, <1>3

LEMMA StoreStepTypes ==
  ASSUME TInv, NEW p \in Requests, StoreStep(p)
  PROVE  StoreTypeOK' /\ \A q \in Requests : tx'[q].update = "claim" => q \in Agents
  <1> USE IdleType DEF TInv, TypeOK, StoreTypeOK
  <1>t. /\ tx \in [Requests -> Transactions] /\ tx[p] \in Transactions
        /\ p # None
    BY StoreAssumption DEF Requests
  <1>1. CASE Opens(p)
    <2>1. PICK poll \in {"no", "tail"}, before \in Seq(Kinds), update \in Updates,
               after \in Seq(Kinds), team \in Teams \cup {None} :
               Open(p, poll, before, update, after, team) /\ Planned(p, before, update, after)
      BY <1>1 DEF Opens
    <2> DEFINE t == [busy |-> TRUE, poll |-> poll, before |-> before, update |-> update,
                     after |-> after, team |-> team, seq |-> 0, row |-> row,
                     new |-> <<>>, now |-> clock]
    <2>2. t \in Transactions
      BY DEF Transactions
    <2>3. tx' = [tx EXCEPT ![p] = t] /\ UNCHANGED <<row, thread, lock>>
      BY <2>1 DEF Open
    <2>4. t.update = "claim" => p \in Agents
      BY <2>1 DEF Planned
    <2> HIDE DEF t
    <2>5. QED
      BY <2>2, <2>3, <2>4
  <1>2. CASE Rollback(p)
    BY <1>2 DEF Rollback, Idle
  <1>3. CASE Leave(p)
    BY <1>3 DEF Leave, Idle
  <1>4. CASE PollOn(p)
    <2>1. PICK due \in {"return", "notice"} : tx' = [tx EXCEPT ![p].poll = due]
      BY <1>4 DEF PollOn
    <2> DEFINE t == [tx[p] EXCEPT !.poll = due]
    <2>2. t \in Transactions /\ (t.update = "claim" => p \in Agents)
      BY <1>t DEF Transactions
    <2>3. tx' = [tx EXCEPT ![p] = t]
      BY <1>t, <2>1
    <2> HIDE DEF t
    <2>4. QED
      BY <1>4, <2>2, <2>3, OneTransaction DEF PollOn
  <1>5. CASE PollActs(p)
    <2>1. PICK notice \in BOOLEAN :
          tx' = [tx EXCEPT
              ![p].poll = "no",
              ![p].before = IF notice THEN <<"waiting">> ELSE <<>>,
              ![p].update = IF notice THEN "none" ELSE "fallback",
              ![p].after = IF notice THEN <<>> ELSE <<"unavailable">>]
      BY <1>5 DEF PollActs
    <2> DEFINE t == tx'[p]
    <2>2. t \in Transactions /\ t.update # "claim"
      BY <1>t, <2>1, PlanTypes, KindFacts DEF Transactions, Updates
    <2>3. tx' = [tx EXCEPT ![p] = t]
      BY <1>t, <2>1
    <2> HIDE DEF t
    <2>4. UNCHANGED <<row, thread, lock>>
      BY <1>5 DEF PollActs
    <2>5. /\ tx' \in [Requests -> Transactions]
          /\ \A q \in Requests : tx'[q].update = "claim" => q \in Agents
      BY <2>2, <2>3, OneTransaction
    <2>6. QED
      BY <1>5, <2>4, <2>5 DEF PollActs
  <1>6. CASE ReadNextSeq(p)
    <2> DEFINE t == [tx[p] EXCEPT !.seq = NextSeq(p)]
    <2>1. t \in Transactions /\ (t.update = "claim" => p \in Agents)
      BY <1>t, NextSeqType DEF Transactions
    <2>2. tx' = [tx EXCEPT ![p] = t]
      BY <1>6, <1>t DEF ReadNextSeq
    <2> HIDE DEF t
    <2>3. QED
      BY <1>6, <2>1, <2>2, OneTransaction DEF ReadNextSeq
  <1>7. CASE AddMessage(p)
    <2> DEFINE m == [seq |-> tx[p].seq, kind |-> Saying(p), at |-> tx[p].now]
               b == IF tx[p].before # <<>> THEN Tail(tx[p].before) ELSE tx[p].before
               f == IF tx[p].before # <<>> THEN tx[p].after ELSE Tail(tx[p].after)
    <2>1. m \in Messages
      BY <1>7, <1>t DEF AddMessage, Speaking, Saying, Transactions, Messages
    <2>2. b \in Seq(Kinds) /\ f \in Seq(Kinds)
      BY <1>7, <1>t DEF AddMessage, Speaking, Transactions
    <2> DEFINE t == [tx[p] EXCEPT !.new = Append(@, m), !.before = b, !.after = f, !.seq = 0]
    <2>3. tx' = [tx EXCEPT ![p] = t]
      BY <1>7, <1>t DEF AddMessage
    <2>4. UNCHANGED <<row, thread, lock>>
      BY <1>7 DEF AddMessage
    <2> HIDE DEF m, b, f
    <2>5. Append(tx[p].new, m) \in Seq(Messages)
      BY <1>t, <2>1 DEF Transactions
    <2>6. t \in Transactions /\ (t.update = "claim" => p \in Agents)
      BY <1>t, <2>2, <2>5 DEF Transactions
    <2> HIDE DEF t
    <2>7. QED
      BY <2>3, <2>4, <2>6, OneTransaction
  <1>8. CASE UpdateRow(p)
    <2> DEFINE w == Written(tx[p].update, row, p, tx[p].team, tx[p].now)
    <2>1. w \in Rows
      BY <1>t, WrittenType DEF Transactions
    <2>2. tx' = [tx EXCEPT ![p].row = w, ![p].update = "none"]
          /\ lock' = p /\ UNCHANGED <<row, thread>>
      BY <1>8 DEF UpdateRow
    <2> HIDE DEF w
    <2>3. QED
      BY <1>t, <2>1, <2>2 DEF Transactions, Updates
  <1>9. CASE RouteNotMoved(p)
    <2> DEFINE t == [tx[p] EXCEPT !.update = "none", !.after = <<>>]
    <2>1. t \in Transactions /\ t.update # "claim"
      BY <1>t, PlanTypes DEF Transactions, Updates
    <2>2. tx' = [tx EXCEPT ![p] = t]
      BY <1>9, <1>t DEF RouteNotMoved
    <2> HIDE DEF t
    <2>3. QED
      BY <1>9, <2>1, <2>2, OneTransaction DEF RouteNotMoved
  <1>10. CASE Commit(p)
    BY <1>10, <1>t DEF Commit, Transactions, Idle
  <1>11. QED
    BY <1>1, <1>2, <1>3, <1>4, <1>5, <1>6, <1>7, <1>8, <1>9, <1>10 DEF StoreStep

LEMMA EnvTypes ==
  ASSUME TInv, Next
  PROVE  /\ clock' \in Nat \ {0}
         /\ typing' \in BOOLEAN
         /\ settings' \in [ai : BOOLEAN, handoff : BOOLEAN]
         /\ begun' \in 0..MaxRequests
         /\ failures' \in 0..MaxFailures
  <1> USE HandoffAssumption DEF TInv, TypeOK, Open, Begin
  <1>1. ASSUME NEW a \in Agents, AgentRequest(a)
        PROVE  /\ UNCHANGED <<clock, settings, failures>> /\ typing' \in BOOLEAN
               /\ begun' \in 0..MaxRequests
    BY <1>1 DEF AgentRequest, ClaimConversation, PostAgentMessage, ReturnConversationToAi,
                SetConversationAiMode, RequestHandoff, SetAgentTyping
  <1>2. ASSUME NEW v \in Tabs, VisitorRequest(v)
        PROVE  UNCHANGED <<clock, typing, settings, failures>> /\ begun' \in 0..MaxRequests
    BY <1>2 DEF VisitorRequest, SelectHandoffTeam, SendVisitorMessage, PersistExchange,
                AdvanceHandoffFallback, vars
  <1>3. ASSUME NEW p, ReadTail(p) \/ Decide(p) \/ Statement(p)
        PROVE  UNCHANGED envVars
    BY <1>3 DEF ReadTail, Decide, Statement
  <1>4. ASSUME NEW p, Crash(p)
        PROVE  UNCHANGED <<clock, typing, settings, begun>> /\ failures' \in 0..MaxFailures
    BY <1>4 DEF Crash
  <1>5. ASSUME SaveChatbotSettings
        PROVE  /\ UNCHANGED <<clock, typing, failures>> /\ begun' \in 0..MaxRequests
               /\ settings' \in [ai : BOOLEAN, handoff : BOOLEAN]
    BY <1>5 DEF SaveChatbotSettings
  <1>6. ASSUME Tick
        PROVE  /\ UNCHANGED <<settings, begun, failures>> /\ clock' \in Nat \ {0}
               /\ typing' = FALSE
    BY <1>6 DEF Tick
  <1>7. QED
    BY <1>1, <1>2, <1>3, <1>4, <1>5, <1>6 DEF Next, envVars

LEMMA NextTypes == TInv /\ [Next]_vars => TInv'
  <1> SUFFICES ASSUME TInv, [Next]_vars PROVE TInv'
    OBVIOUS
  <1>1. CASE Next
    <2>1. StoreTypeOK' /\ \A q \in Requests : tx'[q].update = "claim" => q \in Agents
      <3>1. CASE UNCHANGED storeVars
        BY <3>1 DEF TInv, TypeOK, StoreTypeOK, storeVars
      <3>2. QED
        BY <1>1, <3>1, StepCases, StoreStepTypes
    <2>2. QED
      BY <1>1, <2>1, EnvTypes, Zenon DEF TInv, TypeOK
  <1>2. CASE UNCHANGED vars
    BY <1>2 DEF vars, TInv, TypeOK, StoreTypeOK
  <1>3. QED
    BY <1>1, <1>2

(* Every reachable state is well typed: the row's columns and the messages  *)
(* keep the values their CHECK constraints allow, and every transaction     *)
(* carries a plan of known kinds.                                           *)
THEOREM TypeCorrect == Spec => []TypeOK
  <1>1. Spec => []TInv
    BY InitTypes, NextTypes, PTL DEF Spec
  <1>2. TInv => TypeOK
    BY DEF TInv
  <1>3. QED
    BY <1>1, <1>2, PTL

-----------------------------------------------------------------------------
(* The thread's numbering.  LinesUp is inductive on its own: a next_seq     *)
(* read early can only be too small, and then the position is taken.        *)
LEMMA LastSeqIsLength ==
  ASSUME TInv, LinesUp, NEW p \in Requests
  PROVE  NextSeq(p) = Len(thread) + Len(tx[p].new) + 1
  <1> DEFINE new == tx[p].new
             s == thread \o new
  <1>1. thread \in Seq(Messages) /\ new \in Seq(Messages)
    BY DEF TInv, TypeOK, StoreTypeOK, Transactions
  <1>2. /\ s \in Seq(Messages) /\ Len(s) = Len(thread) + Len(new)
        /\ Len(thread) \in Nat /\ Len(new) \in Nat
    BY <1>1
  <1>3. \A i \in 1..Len(thread) : thread[i].seq = i
    BY DEF LinesUp
  <1>4. \A i \in 1..Len(new) : new[i].seq = Len(thread) + i
    BY DEF LinesUp, InLine
  <1>5. LastSeq(s) = Len(s)
    <2>1. CASE s = <<>>
      BY <1>2, <2>1 DEF LastSeq
    <2>2. CASE s # <<>> /\ new = <<>>
      <3>1. s = thread /\ Len(thread) \in 1..Len(thread)
        BY <1>1, <1>2, <2>2
      <3>2. QED
        BY <1>3, <2>2, <3>1 DEF LastSeq
    <2>3. CASE s # <<>> /\ new # <<>>
      <3>1. Len(new) \in 1..Len(new) /\ s[Len(s)] = new[Len(new)]
        BY <1>1, <1>2, <2>3
      <3>2. QED
        BY <1>2, <1>4, <2>3, <3>1 DEF LastSeq
    <2>4. QED
      BY <2>1, <2>2, <2>3
  <1>6. QED
    BY <1>2, <1>5 DEF NextSeq

(* A step that adds no message and reads no position. *)
LEMMA QuietStepLinesUp ==
  ASSUME TInv, LinesUp, UNCHANGED thread,
         \A q \in Requests :
            \/ tx'[q].new = tx[q].new /\ tx'[q].seq = tx[q].seq
            \/ tx'[q].new = <<>> /\ tx'[q].seq = 0
  PROVE  LinesUp'
  <1>1. Len(thread) \in Nat /\ Len(<<>>) = 0
    BY DEF TInv, TypeOK, StoreTypeOK
  <1>2. \A q \in Requests : InLine(tx'[q], Len(thread))
    <2> SUFFICES ASSUME NEW q \in Requests PROVE InLine(tx'[q], Len(thread))
      OBVIOUS
    <2>1. CASE tx'[q].new = tx[q].new /\ tx'[q].seq = tx[q].seq
      BY <2>1 DEF LinesUp, InLine
    <2>2. CASE tx'[q].new = <<>> /\ tx'[q].seq = 0
      BY <1>1, <2>2 DEF InLine
    <2>3. QED
      BY <2>1, <2>2
  <1>3. \A q, r \in Requests : tx'[q].new # <<>> /\ tx'[r].new # <<>> => q = r
    BY DEF LinesUp
  <1>4. QED
    BY <1>2, <1>3 DEF LinesUp

LEMMA StoreStepLinesUp ==
  ASSUME TInv, LinesUp, NEW p \in Requests, StoreStep(p)
  PROVE  LinesUp'
  <1>t. /\ tx \in [Requests -> Transactions] /\ tx[p] \in Transactions
        /\ thread \in Seq(Messages) /\ tx[p].new \in Seq(Messages) /\ tx[p].seq \in Nat
        /\ \A q \in Requests : tx[q].new \in Seq(Messages)
    BY DEF TInv, TypeOK, StoreTypeOK, Transactions
  <1>1. CASE Opens(p)
    BY <1>1, <1>t, QuietStepLinesUp DEF Opens, Open
  <1>2. CASE Rollback(p)
    BY <1>2, <1>t, QuietStepLinesUp DEF Rollback, Idle
  <1>3. CASE Leave(p)
    BY <1>3, <1>t, QuietStepLinesUp DEF Leave, Idle
  <1>4. CASE PollOn(p)
    BY <1>4, <1>t, QuietStepLinesUp DEF PollOn, Transactions
  <1>5. CASE PollActs(p)
    BY <1>5, <1>t, QuietStepLinesUp DEF PollActs, Transactions
  <1>6. CASE ReadNextSeq(p)
    <2>1. /\ tx'[p].seq = Len(thread) + Len(tx[p].new) + 1
          /\ tx'[p].new = tx[p].new
      BY <1>6, <1>t, LastSeqIsLength DEF ReadNextSeq, Transactions
    <2>2. /\ thread' = thread
          /\ \A q \in Requests : q # p => tx'[q] = tx[q]
          /\ \A q \in Requests : tx'[q].new = tx[q].new
      BY <1>6, <1>t, <2>1 DEF ReadNextSeq
    <2>3. InLine(tx'[p], Len(thread))
      BY <1>t, <2>1 DEF LinesUp, InLine
    <2>4. QED
      BY <2>2, <2>3 DEF LinesUp
  <1>7. CASE AddMessage(p)
    <2> DEFINE m == [seq |-> tx[p].seq, kind |-> Saying(p), at |-> tx[p].now]
    <2>1. tx[p].seq = Len(thread) + Len(tx[p].new) + 1
      <3>1. CASE tx[p].new # <<>>
        BY <1>7, <3>1 DEF AddMessage, LinesUp, InLine
      <3>2. CASE tx[p].new = <<>>
        <4>1. tx[p].seq <= Len(thread) + 1
          BY <1>t, <3>2 DEF LinesUp, InLine
        <4>2. tx[p].seq \notin 1..Len(thread)
          BY <1>7 DEF AddMessage, HasSeq, LinesUp
        <4>3. QED
          BY <1>7, <1>t, <3>2, <4>1, <4>2 DEF AddMessage
      <3>3. QED
        BY <3>1, <3>2
    <2>2. \A q \in Requests : q # p => tx[q].new = <<>>
      <3>1. CASE tx[p].new # <<>>
        BY <3>1 DEF LinesUp
      <3>2. CASE tx[p].new = <<>>
        <4>1. SUFFICES ASSUME NEW q \in Requests, q # p, tx[q].new # <<>>
                       PROVE  FALSE
          OBVIOUS
        <4>2. 1 \in 1..Len(tx[q].new) /\ tx[q].new[1].seq = Len(thread) + 1
          BY <1>t, <4>1 DEF LinesUp, InLine
        <4>3. HasSeq(tx[q].new, tx[p].seq)
          BY <1>t, <2>1, <3>2, <4>2 DEF HasSeq
        <4>4. QED
          BY <1>7, <4>1, <4>3 DEF AddMessage, WaitsForSeq
      <3>3. QED
        BY <3>1, <3>2
    <2>3. /\ tx'[p].new = Append(tx[p].new, m) /\ tx'[p].seq = 0
          /\ \A q \in Requests : q # p => tx'[q] = tx[q]
          /\ thread' = thread
      BY <1>7, <1>t DEF AddMessage, Transactions
    <2>4. m.seq = Len(thread) + Len(tx[p].new) + 1
      BY <2>1
    <2> HIDE DEF m
    <2>5. InLine(tx'[p], Len(thread))
      <3>1. /\ Len(tx'[p].new) = Len(tx[p].new) + 1
            /\ Len(tx[p].new) \in Nat /\ Len(thread) \in Nat
        BY <1>t, <2>3
      <3>2. ASSUME NEW i \in 1..Len(tx'[p].new)
            PROVE  tx'[p].new[i].seq = Len(thread) + i
        <4>1. CASE i <= Len(tx[p].new)
          <5>1. tx'[p].new[i] = tx[p].new[i]
            BY <1>t, <2>3, <3>1, <4>1
          <5>2. QED
            BY <3>1, <4>1, <5>1 DEF LinesUp, InLine
        <4>2. CASE i = Len(tx[p].new) + 1
          <5>1. tx'[p].new[i] = m
            BY <1>t, <2>3, <4>2
          <5>2. QED
            BY <2>4, <3>1, <4>2, <5>1
        <4>3. QED
          BY <3>1, <4>1, <4>2
      <3>3. QED
        BY <2>3, <3>1, <3>2 DEF InLine
    <2>6. \A q \in Requests : InLine(tx'[q], Len(thread))
      BY <2>3, <2>5 DEF LinesUp
    <2>7. \A q, r \in Requests : tx'[q].new # <<>> /\ tx'[r].new # <<>> => q = r
      BY <2>2, <2>3
    <2>8. QED
      BY <2>3, <2>6, <2>7 DEF LinesUp
  <1>8. CASE UpdateRow(p)
    BY <1>8, <1>t, QuietStepLinesUp DEF UpdateRow, Transactions
  <1>9. CASE RouteNotMoved(p)
    BY <1>9, <1>t, QuietStepLinesUp DEF RouteNotMoved, Transactions
  <1>10. CASE Commit(p)
    <2> DEFINE new == tx[p].new
    <2>1. /\ thread' = thread \o new
          /\ tx'[p].new = <<>> /\ tx'[p].seq = 0
          /\ \A q \in Requests : q # p => tx'[q] = tx[q]
      BY <1>10, <1>t DEF Commit, Idle
    <2>2. CASE new = <<>>
      <3>1. thread' = thread
        BY <1>t, <2>1, <2>2
      <3>2. QED
        BY <2>1, <3>1, QuietStepLinesUp
    <2>3. CASE new # <<>>
      <3>1. \A q \in Requests : q # p => tx[q].new = <<>>
        BY <2>3 DEF LinesUp
      <3>2. /\ Len(thread') = Len(thread) + Len(new)
            /\ Len(thread) \in Nat /\ Len(new) \in Nat
            /\ \A i \in 1..Len(thread') :
                  thread'[i] = IF i <= Len(thread) THEN thread[i] ELSE new[i - Len(thread)]
        BY <1>t, <2>1
      <3>3. \A i \in 1..Len(thread') : thread'[i].seq = i
        <4> SUFFICES ASSUME NEW i \in 1..Len(thread') PROVE thread'[i].seq = i
          OBVIOUS
        <4>1. CASE i <= Len(thread)
          BY <3>2, <4>1 DEF LinesUp
        <4>2. CASE i > Len(thread)
          <5>1. i - Len(thread) \in 1..Len(new) /\ thread'[i] = new[i - Len(thread)]
            BY <3>2, <4>2
          <5>2. new[i - Len(thread)].seq = Len(thread) + (i - Len(thread))
            BY <5>1 DEF LinesUp, InLine
          <5>3. QED
            BY <3>2, <5>1, <5>2
        <4>3. QED
          BY <3>2, <4>1, <4>2
      <3>4. \A q \in Requests : tx'[q].new = <<>> /\ tx'[q].seq <= Len(thread') + 1
        <4> SUFFICES ASSUME NEW q \in Requests
                     PROVE  tx'[q].new = <<>> /\ tx'[q].seq <= Len(thread') + 1
          OBVIOUS
        <4>1. CASE q = p
          BY <2>1, <3>2, <4>1
        <4>2. CASE q # p
          <5>1. tx[q].new = <<>> /\ tx[q].seq <= Len(thread) + 1
            BY <1>t, <3>1, <4>2 DEF LinesUp, InLine
          <5>2. tx[q].seq \in Nat
            BY <1>t DEF Transactions
          <5>3. QED
            BY <2>1, <3>2, <4>2, <5>1, <5>2
        <4>3. QED
          BY <4>1, <4>2
      <3>5. \A q \in Requests : InLine(tx'[q], Len(thread'))
        <4> SUFFICES ASSUME NEW q \in Requests PROVE InLine(tx'[q], Len(thread'))
          OBVIOUS
        <4>1. tx'[q].new = <<>> /\ tx'[q].seq <= Len(thread') + 1
          BY <3>4
        <4>2. Len(tx'[q].new) = 0 /\ Len(thread') \in Nat
          BY <3>2, <4>1
        <4>3. QED
          BY <4>1, <4>2 DEF InLine
      <3>6. QED
        BY <3>3, <3>4, <3>5 DEF LinesUp
    <2>4. QED
      BY <2>2, <2>3
  <1>11. QED
    BY <1>1, <1>2, <1>3, <1>4, <1>5, <1>6, <1>7, <1>8, <1>9, <1>10 DEF StoreStep

(* Positions are 1, 2, 3, ... and one transaction at most holds messages    *)
(* the others cannot see, whatever the number of requests and however they  *)
(* interleave their reads of next_seq with their inserts.                   *)
THEOREM ThreadStaysOneLine == Spec => []ThreadIsOneLine
  <1>1. Init => LinesUp
    BY DEF Init, StoreInit, Idle, LinesUp, InLine
  <1>2. TInv /\ LinesUp /\ [Next]_vars => LinesUp'
    <2> SUFFICES ASSUME TInv, LinesUp, [Next]_vars PROVE LinesUp'
      OBVIOUS
    <2>1. CASE UNCHANGED storeVars
      BY <2>1 DEF storeVars, LinesUp
    <2>2. CASE \E p \in Requests : StoreStep(p)
      BY <2>2, StoreStepLinesUp
    <2>3. QED
      BY <2>1, <2>2, StepCases DEF vars, storeVars
  <1>3. Spec => [](TInv /\ LinesUp)
    BY <1>1, <1>2, InitTypes, NextTypes, PTL DEF Spec
  <1>4. LinesUp => ThreadIsOneLine
    BY DEF LinesUp, ThreadIsOneLine
  <1>5. QED
    BY <1>3, <1>4, PTL


-----------------------------------------------------------------------------
(* What a transaction's messages do to the thread's last word. *)
LEMMA SilentMessages ==
  ASSUME NEW s \in Seq(Messages), SpeaksLast(s), NewWord(s) = "nothing"
  PROVE  \A i \in 1..Len(s) : s[i].kind \notin Telling
  BY KindFacts DEF SpeaksLast, NewWord

LEMMA OneMoreMessage ==
  ASSUME NEW s \in Seq(Messages), SpeaksLast(s), NewWord(s) = "nothing",
         NEW m \in Messages
  PROVE  /\ SpeaksLast(Append(s, m))
         /\ NewWord(Append(s, m)) = IF m.kind \in Telling THEN m.kind ELSE "nothing"
  <1>1. /\ Len(Append(s, m)) = Len(s) + 1 /\ Len(s) \in Nat /\ Append(s, m) # <<>>
        /\ \A i \in 1..Len(s) : Append(s, m)[i] = s[i]
        /\ Append(s, m)[Len(s) + 1] = m
    OBVIOUS
  <1>2. QED
    BY <1>1, SilentMessages DEF SpeaksLast, NewWord

LEMMA LastTelling ==
  ASSUME NEW s \in Seq(Messages), NEW i \in Tellings(s), \A j \in Tellings(s) : j <= i
  PROVE  LastWord(s) = s[i].kind
  <1> DEFINE k == CHOOSE x \in Tellings(s) : \A j \in Tellings(s) : j <= x
  <1>1. k \in Tellings(s) /\ \A j \in Tellings(s) : j <= k
    OBVIOUS
  <1>2. Tellings(s) \subseteq Nat
    BY DEF Tellings
  <1>3. k = i
    <2> HIDE DEF k
    <2>1. k <= i /\ i <= k /\ k \in Nat /\ i \in Nat
      BY <1>1, <1>2
    <2>2. QED
      BY <2>1
  <1>4. LastWord(s) = s[k].kind
    BY DEF LastWord
  <1>5. QED
    BY <1>3, <1>4

LEMMA WordOfThread ==
  ASSUME NEW s \in Seq(Messages), NEW new \in Seq(Messages), SpeaksLast(new),
         HasLastWord(s)
  PROVE  /\ HasLastWord(s \o new)
         /\ LastWord(s \o new) = IF NewWord(new) = "nothing" THEN LastWord(s)
                                 ELSE NewWord(new)
  <1> DEFINE w == s \o new
  <1>1. /\ w \in Seq(Messages) /\ Len(w) = Len(s) + Len(new)
        /\ Len(s) \in Nat /\ Len(new) \in Nat
        /\ \A i \in 1..Len(w) : w[i] = IF i <= Len(s) THEN s[i] ELSE new[i - Len(s)]
    OBVIOUS
  <1> HIDE DEF w
  <1>2. CASE NewWord(new) = "nothing"
    <2>1. Tellings(w) = Tellings(s) /\ \A i \in Tellings(s) : w[i] = s[i]
      <3>1. \A i \in 1..Len(w) : i > Len(s) => w[i].kind \notin Telling
        <4> SUFFICES ASSUME NEW i \in 1..Len(w), i > Len(s)
                     PROVE  w[i].kind \notin Telling
          OBVIOUS
        <4>1. i - Len(s) \in 1..Len(new) /\ w[i] = new[i - Len(s)]
          BY <1>1
        <4>2. QED
          BY <1>2, <4>1, SilentMessages
      <3>2. QED
        BY <1>1, <3>1 DEF Tellings
    <2>2. HasLastWord(w)
      BY <2>1 DEF HasLastWord
    <2>3. LastWord(w) = LastWord(s)
      <3>1. CASE Tellings(s) = {}
        BY <2>1, <3>1 DEF LastWord
      <3>2. CASE Tellings(s) # {}
        <4>1. PICK i \in Tellings(s) : \A j \in Tellings(s) : j <= i
          BY <3>2 DEF HasLastWord
        <4>2. LastWord(s) = s[i].kind
          BY <4>1, LastTelling
        <4>3. i \in Tellings(w) /\ \A j \in Tellings(w) : j <= i
          BY <2>1, <4>1
        <4>4. LastWord(w) = w[i].kind
          BY <1>1, <4>3, LastTelling
        <4>5. QED
          BY <2>1, <4>1, <4>2, <4>4
      <3>3. QED
        BY <3>1, <3>2
    <2>4. QED
      BY <1>2, <2>2, <2>3 DEF w
  <1>3. CASE NewWord(new) # "nothing"
    <2>1. /\ new # <<>> /\ new[Len(new)].kind \in Telling
          /\ NewWord(new) = new[Len(new)].kind
      BY <1>3 DEF NewWord
    <2>2. Len(w) \in 1..Len(w) /\ w[Len(w)] = new[Len(new)]
      <3>1. Len(new) > 0
        BY <1>1, <2>1
      <3>2. Len(w) \in 1..Len(w) /\ ~(Len(w) <= Len(s)) /\ Len(w) - Len(s) = Len(new)
        BY <1>1, <3>1
      <3>3. QED
        BY <1>1, <3>2
    <2>3. Len(w) \in Tellings(w) /\ \A j \in Tellings(w) : j <= Len(w)
      BY <1>1, <2>1, <2>2 DEF Tellings
    <2>4. HasLastWord(w)
      BY <2>3 DEF HasLastWord
    <2>5. LastWord(w) = NewWord(new)
      BY <1>1, <2>1, <2>2, <2>3, LastTelling
    <2>6. QED
      BY <1>3, <2>4, <2>5 DEF w
  <1>4. QED
    BY <1>2, <1>3

-----------------------------------------------------------------------------
(* The stages of a transaction.  A step of one request leaves the others    *)
(* where they are: only the holder of the row ever changes it.              *)
LEMMA OthersKeepTheirStage ==
  ASSUME PlansKept, NEW p \in Requests,
         \A q \in Requests : q # p => tx'[q] = tx[q],
         row' = row \/ lock = p,
         lock' \in {lock, p, None}, lock \in {lock', p, None}
  PROVE  \A q \in Requests : q # p => (SpeaksLast(tx[q].new) /\ Stage(q))'
  <1> SUFFICES ASSUME NEW q \in Requests, q # p
               PROVE  SpeaksLast(tx'[q].new) /\ Stage(q)'
    OBVIOUS
  <1>1. q # None
    BY StoreAssumption DEF Requests
  <1>2. tx'[q] = tx[q] /\ (lock' = q <=> lock = q) /\ (lock = q => row' = row)
    BY <1>1
  <1>3. SpeaksLast(tx[q].new) /\ Stage(q)
    BY DEF PlansKept
  <1>4. Stage(q)'
    <2>1. CASE Closed(q)
      BY <1>2, <2>1 DEF Closed, Stage
    <2>2. CASE Polling(q)
      BY <1>2, <2>2 DEF Polling, Stage
    <2>3. CASE Replying(q)
      BY <1>2, <2>3 DEF Replying, Stage
    <2>4. CASE Preparing(q)
      BY <1>2, <2>4 DEF Preparing, Stage
    <2>5. CASE Holding(q)
      <3>1. row' = row
        BY <1>2, <2>5 DEF Holding
      <3>2. Holding(q)'
        BY <1>2, <2>5, <3>1 DEF Holding
      <3>3. QED
        BY <3>2 DEF Stage
    <2>6. CASE Noting(q)
      BY <1>2, <2>6 DEF Noting, Stage
    <2>7. QED
      BY <1>3, <2>1, <2>2, <2>3, <2>4, <2>5, <2>6 DEF Stage
  <1>5. QED
    BY <1>2, <1>3, <1>4

(* A transaction that opens holds a plan of one of the three shapes. *)
LEMMA OpensStage ==
  ASSUME TInv, PlansKept, NEW p \in Requests, Opens(p)
  PROVE  (SpeaksLast(tx[p].new) /\ Stage(p))' /\ lock # p
  <1>1. PICK poll \in {"no", "tail"}, before \in Seq(Kinds), update \in Updates,
             after \in Seq(Kinds), team \in Teams \cup {None} :
             /\ Open(p, poll, before, update, after, team)
             /\ Planned(p, before, update, after)
             /\ poll = "tail" => before = <<>> /\ update = "none"
    BY DEF Opens
  <1>2. tx \in [Requests -> Transactions]
    BY DEF TInv, TypeOK, StoreTypeOK
  <1>3. /\ tx'[p].busy /\ tx'[p].poll = poll /\ tx'[p].before = before
        /\ tx'[p].update = update /\ tx'[p].after = after /\ tx'[p].seq = 0
        /\ tx'[p].new = <<>> /\ ~tx[p].busy /\ lock' = lock
    BY <1>1, <1>2 DEF Open
  <1>4. lock # p
    BY <1>3 DEF PlansKept, Stage, Closed, Polling, Replying, Preparing, Holding, Noting
  <1>5. SpeaksLast(<<>>) /\ NewWord(<<>>) = "nothing"
    BY DEF SpeaksLast, NewWord
  <1>6. Stage(p)'
    <2>1. CASE poll = "tail"
      <3>1. after = <<>>
        BY <1>1, <2>1 DEF Planned
      <3>2. Polling(p)'
        BY <1>1, <1>3, <1>4, <2>1, <3>1 DEF Polling
      <3>3. QED
        BY <3>2 DEF Stage
    <2>2. CASE poll = "no" /\ update = "reply"
      <3>1. before = <<"agent">> /\ after = <<>>
        BY <1>1, <2>2 DEF Planned
      <3>2. Replying(p)'
        BY <1>3, <1>4, <2>2, <3>1 DEF Replying
      <3>3. QED
        BY <3>2 DEF Stage
    <2>3. CASE poll = "no" /\ update \notin {"none", "reply"}
      <3>1. Silence(before) /\ after = Marker(update) /\ (update = "claim" => p \in Agents)
        BY <1>1, <2>3 DEF Planned
      <3>2. Preparing(p)'
        BY <1>3, <1>4, <1>5, <2>3, <3>1 DEF Preparing
      <3>3. QED
        BY <3>2 DEF Stage
    <2>4. CASE poll = "no" /\ update = "none"
      <3>1. Silence(before) /\ after = <<>>
        BY <1>1, <2>4 DEF Planned
      <3>2. Noting(p)'
        BY <1>3, <1>4, <1>5, <2>4, <3>1 DEF Noting
      <3>3. QED
        BY <3>2 DEF Stage
    <2>5. QED
      BY <1>1, <2>1, <2>2, <2>3, <2>4
  <1>7. QED
    BY <1>3, <1>4, <1>5, <1>6

LEMMA ClosesStage ==
  ASSUME TInv, NEW p \in Requests, tx'[p] = Idle, lock' # p
  PROVE  (SpeaksLast(tx[p].new) /\ Stage(p))'
  BY DEF Idle, SpeaksLast, Stage, Closed

LEMMA PollStage ==
  ASSUME TInv, PlansKept, NEW p \in Requests, PollOn(p) \/ PollActs(p)
  PROVE  (SpeaksLast(tx[p].new) /\ Stage(p))'
  <1>1. tx \in [Requests -> Transactions] /\ tx[p] \in Transactions
    BY DEF TInv, TypeOK, StoreTypeOK
  <1>2. Polling(p)
    BY DEF PollOn, PollActs, PlansKept, Stage, Closed, Replying, Preparing, Holding, Noting
  <1>3. tx'[p].new = <<>> /\ tx'[p].busy /\ lock' = lock /\ tx'[p].seq = 0
    <2>1. tx[p].new = <<>> /\ tx[p].busy /\ tx[p].seq = 0
      BY <1>2 DEF Polling
    <2>2. CASE PollOn(p)
      <3>1. PICK due \in {"return", "notice"} : tx' = [tx EXCEPT ![p].poll = due]
        BY <2>2 DEF PollOn
      <3>2. QED
        BY <1>1, <2>1, <2>2, <3>1 DEF PollOn, Transactions
    <2>3. CASE PollActs(p)
      <3>1. PICK notice \in BOOLEAN :
            tx' = [tx EXCEPT
              ![p].poll = "no",
              ![p].before = IF notice THEN <<"waiting">> ELSE <<>>,
              ![p].update = IF notice THEN "none" ELSE "fallback",
              ![p].after = IF notice THEN <<>> ELSE <<"unavailable">>]
        BY <2>3 DEF PollActs
      <3>2. QED
        BY <1>1, <2>1, <2>3, <3>1 DEF PollActs, Transactions
    <2>4. QED
      BY <2>2, <2>3
  <1>4. SpeaksLast(<<>>) /\ NewWord(<<>>) = "nothing"
    BY DEF SpeaksLast, NewWord
  <1>5. CASE PollOn(p)
    <2>1. Polling(p)'
      BY <1>1, <1>2, <1>3, <1>5 DEF Polling, PollOn, Transactions
    <2>2. QED
      BY <1>3, <1>4, <2>1 DEF Stage
  <1>6. CASE PollActs(p)
    <2>1. PICK notice \in BOOLEAN :
            tx' = [tx EXCEPT
              ![p].poll = "no",
              ![p].before = IF notice THEN <<"waiting">> ELSE <<>>,
              ![p].update = IF notice THEN "none" ELSE "fallback",
              ![p].after = IF notice THEN <<>> ELSE <<"unavailable">>]
      BY <1>6 DEF PollActs
    <2>2. tx'[p].poll = "no"
      BY <1>1, <2>1 DEF Transactions
    <2>3. CASE notice
      <3>1. /\ tx'[p].before = <<"waiting">> /\ tx'[p].update = "none"
            /\ tx'[p].after = <<>>
        BY <1>1, <2>1, <2>3 DEF Transactions
      <3>2. Silence(<<"waiting">>)
        BY Silences, KindFacts
      <3>3. Noting(p)'
        BY <1>2, <1>3, <1>4, <2>2, <3>1, <3>2 DEF Noting, Polling
      <3>4. QED
        BY <1>3, <1>4, <3>3 DEF Stage
    <2>4. CASE ~notice
      <3>1. /\ tx'[p].before = <<>> /\ tx'[p].update = "fallback"
            /\ tx'[p].after = <<"unavailable">>
        BY <1>1, <2>1, <2>4 DEF Transactions
      <3>2. Silence(<<>>)
        BY Silences
      <3>3. Preparing(p)'
        BY <1>2, <1>3, <1>4, <2>2, <3>1, <3>2 DEF Preparing, Polling, Marker
      <3>4. QED
        BY <1>3, <1>4, <3>3 DEF Stage
    <2>5. QED
      BY <2>3, <2>4
  <1>7. QED
    BY <1>5, <1>6

(* Adding the message the plan says: an agent's own word or a silent one    *)
(* before the UPDATE, the marker after it.                                  *)
LEMMA AddStage ==
  ASSUME TInv, PlansKept, NEW p \in Requests, AddMessage(p)
  PROVE  (SpeaksLast(tx[p].new) /\ Stage(p))'
  <1> DEFINE t == tx[p]
             u == tx'[p]
             k == Saying(p)
             m == [seq |-> t.seq, kind |-> k, at |-> t.now]
  <1>1. tx \in [Requests -> Transactions] /\ t \in Transactions
    BY DEF TInv, TypeOK, StoreTypeOK
  <1>2. /\ t.busy /\ t.poll = "no"
        /\ t.before # <<>> \/ (t.before = <<>> /\ t.update = "none" /\ t.after # <<>>)
        /\ t.before \in Seq(Kinds) /\ t.after \in Seq(Kinds) /\ t.new \in Seq(Messages)
        /\ t.seq \in Nat /\ t.now \in Nat
    BY <1>1 DEF AddMessage, Speaking, Transactions
  <1>3. /\ u.busy = t.busy /\ u.poll = t.poll /\ u.update = t.update /\ u.row = t.row
        /\ u.new = Append(t.new, m)
        /\ u.before = IF t.before # <<>> THEN Tail(t.before) ELSE t.before
        /\ u.after = IF t.before # <<>> THEN t.after ELSE Tail(t.after)
        /\ row' = row /\ lock' = lock
    BY <1>1 DEF AddMessage, Transactions
  <1>4. k \in Kinds /\ k = IF t.before # <<>> THEN t.before[1] ELSE t.after[1]
    BY <1>2 DEF Saying
  <1>5. m \in Messages /\ m.kind = k
    BY <1>2, <1>4 DEF Messages
  <1>6. SpeaksLast(t.new) /\ Stage(p)
    BY DEF PlansKept
  <1> HIDE DEF t, u, k, m
  <1>7. ~Closed(p) /\ ~Polling(p)
    BY <1>2 DEF Closed, Polling, t
  <1>8. ASSUME NewWord(t.new) = "nothing"
        PROVE  /\ SpeaksLast(u.new)
               /\ NewWord(u.new) = IF k \in Telling THEN k ELSE "nothing"
    BY <1>2, <1>3, <1>5, <1>6, <1>8, OneMoreMessage
  <1>9. NewWord(<<>>) = "nothing"
    BY DEF NewWord
  <1>10. ASSUME Silence(t.before), t.before # <<>>
         PROVE  Silence(u.before) /\ k \notin Telling
    <2>1. /\ u.before = Tail(t.before) /\ k = t.before[1] /\ 1 \in 1..Len(t.before)
          /\ Len(Tail(t.before)) = Len(t.before) - 1 /\ Len(t.before) \in Nat
          /\ \A i \in 1..Len(t.before) - 1 : Tail(t.before)[i] = t.before[i + 1]
      BY <1>2, <1>3, <1>4, <1>10
    <2>2. QED
      BY <1>10, <2>1 DEF Silence
  <1>11. CASE Replying(p)
    <2>1. t.before = <<"agent">> /\ t.new = <<>>
      BY <1>2, <1>11 DEF Replying, t
    <2>2. k = "agent" /\ u.before = <<>> /\ u.after = <<>>
      BY <1>3, <1>4, <1>11, <2>1 DEF Replying, t
    <2>3. SpeaksLast(u.new) /\ NewWord(u.new) = "agent"
      BY <1>8, <1>9, <2>1, <2>2, KindFacts
    <2>4. Replying(p)'
      BY <1>3, <1>11, <2>2, <2>3 DEF Replying, t, u
    <2>5. QED
      BY <2>3, <2>4 DEF Stage, u
  <1>12. CASE Preparing(p)
    <2>1. t.before # <<>> /\ NewWord(t.new) = "nothing" /\ Silence(t.before)
      BY <1>2, <1>12 DEF Preparing, t
    <2>2. SpeaksLast(u.new) /\ NewWord(u.new) = "nothing" /\ Silence(u.before)
          /\ u.after = t.after
      BY <1>3, <1>8, <1>10, <2>1
    <2>3. Preparing(p)'
      BY <1>3, <1>12, <2>2 DEF Preparing, t, u
    <2>4. QED
      BY <2>2, <2>3 DEF Stage, u
  <1>13. CASE Holding(p)
    <2>1. t.before = <<>> /\ t.after # <<>>
      BY <1>2, <1>13 DEF Holding, t
    <2>2. PICK word \in Telling \ {"agent"} :
             /\ t.after = <<word>> /\ NewWord(t.new) = "nothing"
             /\ Moved(word, row, t.row)
      BY <1>13, <2>1 DEF Holding, t
    <2>3. k = word /\ u.before = <<>> /\ u.after = <<>>
      BY <1>3, <1>4, <2>1, <2>2
    <2>4. SpeaksLast(u.new) /\ NewWord(u.new) = word
      BY <1>8, <2>2, <2>3
    <2>5. Holding(p)'
      BY <1>3, <1>13, <2>2, <2>3, <2>4 DEF Holding, t, u
    <2>6. QED
      BY <2>4, <2>5 DEF Stage, u
  <1>14. CASE Noting(p)
    <2>1. t.before # <<>> /\ NewWord(t.new) = "nothing" /\ Silence(t.before)
      BY <1>2, <1>14 DEF Noting, t
    <2>2. SpeaksLast(u.new) /\ NewWord(u.new) = "nothing" /\ Silence(u.before)
          /\ u.after = t.after
      BY <1>3, <1>8, <1>10, <2>1
    <2>3. Noting(p)'
      BY <1>3, <1>14, <2>2 DEF Noting, t, u
    <2>4. QED
      BY <2>2, <2>3 DEF Stage, u
  <1>15. QED
    BY <1>6, <1>7, <1>11, <1>12, <1>13, <1>14 DEF Stage

(* The UPDATE moves the row in the way its marker, or the agent's message   *)
(* before it, will tell.                                                    *)
LEMMA WrittenMoves ==
  ASSUME NEW r \in Rows, NEW p \in Requests, NEW team \in Teams \cup {None},
         NEW now \in Nat, NEW update \in Updates \ {"none"}, Matches(update, r),
         update = "claim" => p \in Agents
  PROVE  LET w == Written(update, r, p, team, now)
         IN  CASE update = "route" -> Moved("transferred", r, w)
               [] update = "reply" -> Moved("agent", r, w)
               [] update = "return" -> Moved("back", r, w)
               [] update = "fallback" -> Moved("unavailable", r, w)
               [] OTHER -> Moved("nothing", r, w)
  <1> DEFINE w == Written(update, r, p, team, now)
  <1>0. p # None
    BY StoreAssumption DEF Requests
  <1>1. CASE update = "route"
    BY <1>1 DEF Written, Routed, Matches, RouteWhere, Moved, Rows, AgentStates
  <1>2. CASE update = "reply"
    BY <1>2 DEF Written, Replied, Moved, Rows
  <1>3. CASE update = "return"
    BY <1>3 DEF Written, HandedBack, FellBack, Moved, Rows
  <1>4. CASE update = "fallback"
    BY <1>4 DEF Written, FellBack, Moved, Rows
  <1>5. CASE update = "claim"
    BY <1>0, <1>5 DEF Written, Claimed, Matches, ClaimWhere, Moved, Rows
  <1>6. CASE update \in {"hold", "release", "touch"}
    BY <1>6 DEF Written, Moved, Rows
  <1>7. QED
    BY <1>1, <1>2, <1>3, <1>4, <1>5, <1>6 DEF Updates

LEMMA UpdateStage ==
  ASSUME TInv, PlansKept, NEW p \in Requests, UpdateRow(p)
  PROVE  (SpeaksLast(tx[p].new) /\ Stage(p))'
  <1> DEFINE t == tx[p]
             u == tx'[p]
             w == Written(t.update, row, p, t.team, t.now)
  <1>1. /\ tx \in [Requests -> Transactions] /\ t \in Transactions /\ row \in Rows
        /\ t.update = "claim" => p \in Agents
    BY DEF TInv, TypeOK, StoreTypeOK
  <1>2. /\ t.busy /\ t.poll = "no" /\ t.before = <<>> /\ t.update \in Updates \ {"none"}
        /\ t.team \in Teams \cup {None} /\ t.now \in Nat /\ Matches(t.update, row)
    BY <1>1 DEF UpdateRow, AtUpdate, Transactions
  <1>3. /\ u.busy /\ u.poll = "no" /\ u.before = <<>> /\ u.update = "none"
        /\ u.after = t.after /\ u.new = t.new /\ u.row = w
        /\ row' = row /\ lock' = p
    BY <1>1, <1>2 DEF UpdateRow, Transactions
  <1>4. SpeaksLast(t.new) /\ Stage(p)
    BY DEF PlansKept
  <1>5. Replying(p) \/ Preparing(p)
    BY <1>2, <1>4 DEF Stage, Closed, Polling, Holding, Noting
  <1>6. CASE t.update = "reply"
    <2>1. t.after = <<>> /\ NewWord(t.new) = "agent"
      BY <1>2, <1>5, <1>6 DEF Replying, Preparing
    <2>2. Moved("agent", row, w)
      BY <1>1, <1>2, <1>6, WrittenMoves
    <2> HIDE DEF w
    <2>3. Holding(p)'
      BY <1>3, <2>1, <2>2 DEF Holding
    <2>4. QED
      BY <1>3, <1>4, <2>3 DEF Stage
  <1>7. CASE t.update # "reply"
    <2>1. t.after = Marker(t.update) /\ NewWord(t.new) = "nothing"
      BY <1>2, <1>5, <1>7 DEF Replying, Preparing
    <2>2. CASE t.update \in {"route", "return", "fallback"}
      <3>1. PICK word \in Telling \ {"agent"} : t.after = <<word>> /\ Moved(word, row, w)
        <4>1. CASE t.update = "route"
          BY <1>1, <1>2, <2>1, <4>1, WrittenMoves, KindFacts DEF Marker
        <4>2. CASE t.update = "return"
          BY <1>1, <1>2, <2>1, <4>2, WrittenMoves, KindFacts DEF Marker
        <4>3. CASE t.update = "fallback"
          BY <1>1, <1>2, <2>1, <4>3, WrittenMoves, KindFacts DEF Marker
        <4>4. QED
          BY <2>2, <4>1, <4>2, <4>3
      <3> HIDE DEF w
      <3>2. Holding(p)'
        BY <1>3, <2>1, <3>1 DEF Holding
      <3>3. QED
        BY <1>3, <1>4, <3>2 DEF Stage
    <2>3. CASE t.update \notin {"route", "return", "fallback"}
      <3>1. t.after = <<>> /\ Moved("nothing", row, w)
        BY <1>1, <1>2, <1>7, <2>1, <2>3, WrittenMoves DEF Marker
      <3> HIDE DEF w
      <3>2. Holding(p)'
        BY <1>3, <2>1, <3>1 DEF Holding
      <3>3. QED
        BY <1>3, <1>4, <3>2 DEF Stage
    <2>4. QED
      BY <2>2, <2>3
  <1>8. QED
    BY <1>6, <1>7

LEMMA OtherStages ==
  ASSUME TInv, PlansKept, NEW p \in Requests, ReadNextSeq(p) \/ RouteNotMoved(p)
  PROVE  (SpeaksLast(tx[p].new) /\ Stage(p))'
  <1> DEFINE t == tx[p]
             u == tx'[p]
  <1>1. tx \in [Requests -> Transactions] /\ t \in Transactions
    BY DEF TInv, TypeOK, StoreTypeOK
  <1>2. SpeaksLast(t.new) /\ Stage(p)
    BY DEF PlansKept
  <1>3. CASE ReadNextSeq(p)
    <2>1. /\ u.busy = t.busy /\ u.poll = t.poll /\ u.before = t.before /\ u.after = t.after
          /\ u.update = t.update /\ u.new = t.new /\ u.row = t.row
          /\ row' = row /\ lock' = lock /\ t.busy /\ t.poll = "no"
      BY <1>1, <1>3 DEF ReadNextSeq, Speaking, Transactions
    <2>2. Replying(p) \/ Preparing(p) \/ Holding(p) \/ Noting(p)
      BY <1>2, <2>1 DEF Stage, Closed, Polling
    <2>3. CASE Replying(p)
      BY <1>2, <2>1, <2>3 DEF Stage, Replying
    <2>4. CASE Preparing(p)
      BY <1>2, <2>1, <2>4 DEF Stage, Preparing
    <2>5. CASE Holding(p)
      <3>1. Holding(p)'
        BY <2>1, <2>5 DEF Holding
      <3>2. QED
        BY <1>2, <2>1, <3>1 DEF Stage
    <2>6. CASE Noting(p)
      BY <1>2, <2>1, <2>6 DEF Stage, Noting
    <2>7. QED
      BY <2>2, <2>3, <2>4, <2>5, <2>6
  <1>4. CASE RouteNotMoved(p)
    <2>1. /\ u.busy /\ u.poll = "no" /\ u.before = t.before /\ u.after = <<>>
          /\ u.update = "none" /\ u.new = t.new /\ lock' = lock
          /\ t.busy /\ t.poll = "no" /\ t.update = "route"
      BY <1>1, <1>4 DEF RouteNotMoved, AtUpdate, Transactions
    <2>2. Preparing(p)
      BY <1>2, <2>1 DEF Stage, Closed, Polling, Replying, Holding, Noting
    <2>3. Noting(p)'
      BY <2>1, <2>2 DEF Preparing, Noting
    <2>4. QED
      BY <1>2, <2>1, <2>3 DEF Stage
  <1>5. QED
    BY <1>3, <1>4

LEMMA StoreStepPlans ==
  ASSUME TInv, PlansKept, NEW p \in Requests, StoreStep(p)
  PROVE  PlansKept'
  <1>1. /\ tx \in [Requests -> Transactions] /\ lock \in Requests \cup {None}
        /\ p # None
    BY StoreAssumption DEF TInv, TypeOK, StoreTypeOK, Requests
  <1>2. SUFFICES
          /\ (SpeaksLast(tx[p].new) /\ Stage(p))'
          /\ \A q \in Requests : q # p => tx'[q] = tx[q]
          /\ row' = row \/ lock = p
          /\ lock' \in {lock, p, None} /\ lock \in {lock', p, None}
    BY OthersKeepTheirStage DEF PlansKept
  <1>3. CASE Opens(p)
    BY <1>1, <1>3, OpensStage DEF Opens, Open
  <1>4. CASE Rollback(p)
    <2>1. tx'[p] = Idle /\ lock' # p
      BY <1>1, <1>4 DEF Rollback
    <2>2. QED
      BY <1>1, <1>4, <2>1, ClosesStage DEF Rollback
  <1>5. CASE tx[p].poll # "no" /\ Leave(p)
    <2>1. lock # p
      BY <1>5 DEF PlansKept, Stage, Closed, Polling, Replying, Preparing, Holding, Noting
    <2>2. tx'[p] = Idle /\ lock' # p
      BY <1>1, <1>5, <2>1 DEF Leave
    <2>3. QED
      BY <1>1, <1>5, <2>2, ClosesStage DEF Leave
  <1>6. CASE PollOn(p) \/ PollActs(p)
    BY <1>1, <1>6, PollStage DEF PollOn, PollActs
  <1>7. CASE ReadNextSeq(p) \/ RouteNotMoved(p)
    BY <1>1, <1>7, OtherStages DEF ReadNextSeq, RouteNotMoved
  <1>8. CASE AddMessage(p)
    BY <1>1, <1>8, AddStage DEF AddMessage
  <1>9. CASE UpdateRow(p)
    BY <1>1, <1>9, UpdateStage DEF UpdateRow, AtUpdate
  <1>10. CASE Commit(p)
    <2>1. tx'[p] = Idle /\ lock' # p
      BY <1>1, <1>10 DEF Commit
    <2>2. QED
      BY <1>1, <1>10, <2>1, ClosesStage DEF Commit
  <1>11. QED
    BY <1>3, <1>4, <1>5, <1>6, <1>7, <1>8, <1>9, <1>10 DEF StoreStep

-----------------------------------------------------------------------------
(* Only a commit shows anything: it moves the row in the way the word it    *)
(* adds to the thread says.                                                 *)
LEMMA CommitMoves ==
  ASSUME TInv, PlansKept, HasLastWord(thread), NEW p \in Requests, Commit(p)
  PROVE  LET word == NewWord(tx[p].new)
         IN  /\ HasLastWord(thread')
             /\ LastWord(thread') = IF word = "nothing" THEN LastWord(thread) ELSE word
             /\ word \in Telling \cup {"nothing"}
             /\ Moved(word, row, row')
  <1> DEFINE word == NewWord(tx[p].new)
  <1>1. /\ thread \in Seq(Messages) /\ tx[p].new \in Seq(Messages)
        /\ thread' = thread \o tx[p].new
    BY DEF TInv, TypeOK, StoreTypeOK, Transactions, Commit
  <1>2. SpeaksLast(tx[p].new) /\ Stage(p)
    BY DEF PlansKept
  <1>3. /\ HasLastWord(thread')
        /\ LastWord(thread') = IF word = "nothing" THEN LastWord(thread) ELSE word
    BY <1>1, <1>2, WordOfThread
  <1>4. word \in Telling \cup {"nothing"}
    BY DEF NewWord
  <1>5. /\ tx[p].busy /\ tx[p].poll = "no" /\ tx[p].update = "none"
        /\ tx[p].after = <<>>
    BY DEF Commit
  <1>6. Moved(word, row, row')
    <2>1. CASE Holding(p)
      <3>1. lock = p /\ Moved(word, row, tx[p].row)
        BY <1>5, <2>1 DEF Holding
      <3>2. row' = tx[p].row
        BY <3>1 DEF Commit
      <3>3. QED
        BY <3>1, <3>2
    <2>2. CASE Noting(p)
      <3>1. word = "nothing" /\ row' = row
        BY <2>2 DEF Noting, Commit
      <3>2. QED
        BY <3>1 DEF Moved
    <2>3. QED
      BY <1>2, <1>5, <2>1, <2>2 DEF Stage, Closed, Polling, Replying, Preparing
  <1>7. QED
    BY <1>3, <1>4, <1>6

(* The row and the word of the thread change together, or neither does. *)
Shown == <<row, thread>>

LEMMA OnlyCommitsShow ==
  ASSUME NEW p \in Requests, StoreStep(p), Shown' # Shown
  PROVE  Commit(p)
  BY DEF StoreStep, Opens, Open, Rollback, Leave, PollOn, PollActs, ReadNextSeq,
         AddMessage, UpdateRow, RouteNotMoved, Shown

LEMMA CommitTells ==
  ASSUME TInv, PlansKept, HasLastWord(thread), RowShape, ThreadTellsState,
         NEW p \in Requests, Commit(p), row' \in Rows
  PROVE  RowShape' /\ ThreadTellsState'
  <1> DEFINE word == NewWord(tx[p].new)
  <1>1. /\ LastWord(thread') = IF word = "nothing" THEN LastWord(thread) ELSE word
        /\ word \in Telling \cup {"nothing"}
        /\ Moved(word, row, row')
    BY CommitMoves
  <1>2. row \in Rows
    BY DEF TInv, TypeOK, StoreTypeOK
  <1> HIDE DEF word
  <1>3. CASE word = "transferred"
    BY <1>1, <1>3 DEF Moved, RowShape, ThreadTellsState, StatesAfter
  <1>4. CASE word = "agent"
    BY <1>1, <1>4 DEF Moved, RowShape, ThreadTellsState, StatesAfter
  <1>5. CASE word \in {"back", "unavailable"}
    BY <1>1, <1>5 DEF Moved, RowShape, ThreadTellsState, StatesAfter
  <1>6. CASE word = "nothing"
    <2>1. LastWord(thread') = LastWord(thread)
      BY <1>1, <1>6
    <2>2. CASE row'.state = row.state /\ row'.agent = row.agent /\ row'.team = row.team
      BY <2>1, <2>2 DEF RowShape, ThreadTellsState
    <2>3. CASE /\ row.state = "unassigned" /\ row'.state = "assigned"
               /\ row'.agent # None /\ row'.team = row.team
      BY <2>1, <2>3 DEF RowShape, ThreadTellsState, StatesAfter
    <2>4. QED
      BY <1>1, <1>6, <2>2, <2>3 DEF Moved
  <1>7. QED
    BY <1>1, <1>3, <1>4, <1>5, <1>6 DEF Telling

(* The inductive invariant. *)
SafeInv == TInv /\ IInv

LEMMA InitSafe == Init => SafeInv
  <1> SUFFICES ASSUME Init PROVE SafeInv
    OBVIOUS
  <1>1. TInv /\ TypeOK
    BY InitTypes DEF TInv
  <1>2. thread = <<>> /\ row = NewRow /\ lock = None /\ \A p \in Requests : tx[p] = Idle
    BY DEF Init, StoreInit
  <1>3. \A p \in Requests : p # None
    BY StoreAssumption DEF Requests
  <1>4. Tellings(thread) = {}
    BY <1>2 DEF Tellings
  <1>5. HasLastWord(thread)
    BY <1>4 DEF HasLastWord
  <1>6. PlansKept
    BY <1>2, <1>3 DEF PlansKept, Stage, Closed, SpeaksLast, Idle
  <1>7. LinesUp
    BY <1>2 DEF Idle, LinesUp, InLine
  <1>8. RowShape
    BY <1>2 DEF NewRow, RowShape
  <1>9. ThreadTellsState
    BY <1>2, <1>4 DEF NewRow, ThreadTellsState, LastWord, StatesAfter
  <1>10. QED
    BY <1>1, <1>5, <1>6, <1>7, <1>8, <1>9 DEF SafeInv, IInv

LEMMA NextSafe == SafeInv /\ [Next]_vars => SafeInv'
  <1> SUFFICES ASSUME SafeInv, [Next]_vars PROVE SafeInv'
    OBVIOUS
  <1>0. TInv' /\ TypeOK' /\ row' \in Rows
    BY NextTypes DEF SafeInv, TInv, TypeOK, StoreTypeOK
  <1>1. CASE UNCHANGED storeVars
    <2>1. HasLastWord(thread)' /\ LinesUp' /\ RowShape' /\ ThreadTellsState'
      BY <1>1 DEF SafeInv, IInv, storeVars, LinesUp, RowShape, ThreadTellsState
    <2>2. PlansKept'
      BY <1>1 DEF SafeInv, IInv, storeVars, PlansKept, Stage, Closed, Polling, Replying,
                  Preparing, Holding, Noting
    <2>3. QED
      BY <1>0, <2>1, <2>2 DEF SafeInv, IInv
  <1>2. CASE \E p \in Requests : StoreStep(p)
    <2>1. PICK p \in Requests : StoreStep(p)
      BY <1>2
    <2>2. LinesUp' /\ PlansKept'
      BY <2>1, StoreStepLinesUp, StoreStepPlans DEF SafeInv, IInv
    <2>3. HasLastWord(thread)' /\ RowShape' /\ ThreadTellsState'
      <3>1. CASE Shown' = Shown
        BY <3>1 DEF SafeInv, IInv, Shown, RowShape, ThreadTellsState
      <3>2. CASE Shown' # Shown
        <4>1. Commit(p)
          BY <2>1, <3>2, OnlyCommitsShow
        <4>2. QED
          BY <1>0, <4>1, CommitMoves, CommitTells DEF SafeInv, IInv
      <3>3. QED
        BY <3>1, <3>2
    <2>4. QED
      BY <1>0, <2>2, <2>3 DEF SafeInv, IInv
  <1>3. QED
    BY <1>1, <1>2, StepCases DEF vars, storeVars

(* The inductive invariant of all three theorems below: a transaction's     *)
(* uncommitted writes and what its plan still owes always add up to one     *)
(* change of hands with its word.                                           *)
LEMMA SafeAlways == Spec => []SafeInv
  BY InitSafe, NextSafe, PTL DEF Spec

(* The thread never says one thing about who is answering and the row       *)
(* another, for any number of agents and tabs and however their             *)
(* transactions interleave, fail or deadlock.                               *)
THEOREM ThreadAgreesWithRow == Spec => []ThreadTellsState
  <1>1. SafeInv => ThreadTellsState
    BY DEF SafeInv, IInv
  <1>2. QED
    BY <1>1, SafeAlways, PTL

(* Every step that shows is one change of hands. *)
LEMMA StepMoves ==
  ASSUME SafeInv, [Next]_vars
  PROVE  \/ row' = row /\ LastWord(thread') = LastWord(thread)
         \/ \E word \in Telling \cup {"nothing"} :
               /\ LastWord(thread') = IF word = "nothing" THEN LastWord(thread) ELSE word
               /\ Moved(word, row, row')
  <1>1. CASE UNCHANGED storeVars
    BY <1>1 DEF storeVars
  <1>2. ASSUME NEW p \in Requests, StoreStep(p)
        PROVE  Shown' = Shown \/ Commit(p)
    BY <1>2, OnlyCommitsShow
  <1>3. ASSUME NEW p \in Requests, Commit(p)
        PROVE  \E word \in Telling \cup {"nothing"} :
               /\ LastWord(thread') = IF word = "nothing" THEN LastWord(thread) ELSE word
               /\ Moved(word, row, row')
    BY <1>3, CommitMoves DEF SafeInv, IInv
  <1>4. CASE Shown' = Shown
    BY <1>4 DEF Shown
  <1>5. QED
    BY <1>1, <1>2, <1>3, <1>4, StepCases DEF vars, storeVars

(* An agent who has claimed a conversation keeps it until it goes back to   *)
(* the AI: no other request's UPDATE, whatever it read before, replaces the *)
(* agent or requeues the thread.                                            *)
THEOREM AgentsKeepTheirConversations == Spec => KeptUntilReturned
  <1> DEFINE Kept ==
        /\ row.agent # None /\ row'.agent # row.agent => row'.state = "ai_active"
        /\ row.state \in AgentStates => row'.state \in AgentStates \cup {"ai_active"}
  <1>1. ASSUME SafeInv, [Next]_vars PROVE [Kept]_row
    <2>1. CASE row' = row
      BY <2>1
    <2>2. ASSUME NEW word \in Telling \cup {"nothing"}, Moved(word, row, row')
          PROVE  Kept
      <3>1. RowShape /\ row \in Rows
        BY <1>1 DEF SafeInv, IInv, TypeOK, StoreTypeOK
      <3>2. QED
        BY <2>2, <3>1 DEF Moved, RowShape, AgentStates, Rows, States, Telling
    <2>3. QED
      BY <1>1, <2>1, <2>2, StepMoves
  <1>2. QED
    BY <1>1, SafeAlways, PTL DEF Spec, KeptUntilReturned

(* The transactions implement the promise: every commit is one change of    *)
(* hands of Ownership, its word in the thread included, and every other     *)
(* statement, rollback and clock tick is none.                              *)
THEOREM HandoffImplementsOwnership == Spec => ImplementsOwnership
  <1>1. Init => Promise!Init
    <2>1. Init => Tellings(thread) = {}
      BY DEF Init, StoreInit, Tellings
    <2>2. QED
      BY <2>1 DEF Init, StoreInit, NewRow, Promise!Init, LastWord
  <1>2. SafeInv /\ [Next]_vars => [Promise!Next]_(Promise!vars)
    <2> SUFFICES ASSUME SafeInv, [Next]_vars PROVE [Promise!Next]_(Promise!vars)
      OBVIOUS
    <2>1. CASE row' = row /\ LastWord(thread') = LastWord(thread)
      BY <2>1 DEF Promise!vars
    <2>2. ASSUME NEW word \in Telling \cup {"nothing"}, Moved(word, row, row'),
                 LastWord(thread') = IF word = "nothing" THEN LastWord(thread) ELSE word
          PROVE  [Promise!Next]_(Promise!vars)
      <3>1. row' \in Rows
        BY NextTypes DEF SafeInv, TInv, TypeOK, StoreTypeOK
      <3>2. CASE word = "transferred"
        <4>1. Promise!Transfer
          BY <2>2, <3>2 DEF Promise!Transfer, Moved, AgentStates
        <4>2. QED
          BY <4>1 DEF Promise!Next
      <3>3. CASE word = "agent"
        <4>1. Promise!Reply
          BY <2>2, <3>3 DEF Promise!Reply, Moved
        <4>2. QED
          BY <4>1 DEF Promise!Next
      <3>4. CASE word \in {"back", "unavailable"}
        <4>1. Promise!GiveToAi
          BY <2>2, <3>4 DEF Promise!GiveToAi, Moved
        <4>2. QED
          BY <4>1 DEF Promise!Next
      <3>5. CASE word = "nothing"
        <4>1. LastWord(thread') = LastWord(thread)
          BY <2>2, <3>5
        <4>2. CASE row'.state = row.state /\ row'.agent = row.agent
          BY <4>1, <4>2 DEF Promise!vars
        <4>3. CASE row.state = "unassigned" /\ row'.state = "assigned" /\ row'.agent # None
          <5>1. Promise!Claim
            BY <3>1, <4>1, <4>3 DEF Promise!Claim, Rows
          <5>2. QED
            BY <5>1 DEF Promise!Next
        <4>4. QED
          BY <2>2, <3>5, <4>2, <4>3 DEF Moved
      <3>6. QED
        BY <3>2, <3>3, <3>4, <3>5 DEF Telling
    <2>3. QED
      BY <2>1, <2>2, StepMoves
  <1>3. QED
    BY <1>1, <1>2, SafeAlways, PTL DEF Spec, ImplementsOwnership, Promise!Spec

=============================================================================
