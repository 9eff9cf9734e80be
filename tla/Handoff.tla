------------------------------- MODULE Handoff -------------------------------
(***************************************************************************)
(* A widget visitor's conversation changing hands between the AI, a team's  *)
(* queue and a colleague: the use cases of handoff.py, public_handoff.py,   *)
(* public_conversation.py and the durable half of public_chat.py, run       *)
(* concurrently against one conversation.                                   *)
(*                                                                          *)
(* The conversation row exists: it was created by an earlier request.       *)
(* Time is the application clock in units shorter than the two timeouts;    *)
(* a typing indicator's eight seconds are less than one unit.               *)
(***************************************************************************)
EXTENDS ConversationStore

CONSTANTS
    NoticeAfter,  \* WAITING_NOTICE_AFTER
    ReturnAfter,  \* RETURN_TO_AI_AFTER
    Window,       \* turns AdvanceHandoffFallback reads back (20)
    MaxTime,      \* bound: the clock stops here
    Horizon,      \* bound: no new request but a poll begins after this time
    MaxLag,       \* bound: how long a request stays open, in clock units
    MaxRequests,  \* bound: requests begun, polls not counted
    MaxFailures   \* bound: requests cut short

ASSUME HandoffAssumption ==
    /\ NoticeAfter \in Nat /\ ReturnAfter \in Nat /\ 0 < NoticeAfter
    /\ NoticeAfter < ReturnAfter
    /\ Window \in Nat \ {0}
    /\ MaxTime \in Nat /\ Horizon \in Nat /\ MaxLag \in Nat
    /\ MaxRequests \in Nat /\ MaxFailures \in Nat

VARIABLES
    clock,        \* SystemClock
    typing,       \* the "agent" side's typing key in Redis
    settings,     \* tenant_chatbot_settings: ai_chatbot_enabled, allow_human_handoff
    begun,        \* how many requests have begun (bound)
    failures      \* how many were cut short (bound)

envVars == <<clock, typing, settings, begun, failures>>
vars == <<row, thread, lock, tx, clock, typing, settings, begun, failures>>

TypeOK ==
    /\ StoreTypeOK
    /\ clock \in Nat \ {0}
    /\ typing \in BOOLEAN
    /\ settings \in [ai : BOOLEAN, handoff : BOOLEAN]
    /\ begun \in 0..MaxRequests
    /\ failures \in 0..MaxFailures

Init ==
    /\ StoreInit
    /\ clock = 1
    /\ typing = FALSE
    /\ settings = [ai |-> TRUE, handoff |-> TRUE]
    /\ begun = 0
    /\ failures = 0

-----------------------------------------------------------------------------
(* A request opens its transaction, reads the row and plans its writes. *)
Open(p, poll, before, update, after, team) ==
    /\ ~tx[p].busy
    /\ tx' = [tx EXCEPT ![p] =
           [busy |-> TRUE, poll |-> poll, before |-> before, update |-> update,
            after |-> after, team |-> team, seq |-> 0, row |-> row,
            new |-> <<>>, now |-> clock]]
    /\ UNCHANGED <<row, thread, lock, clock, typing, settings, failures>>

Begin(p, before, update, after, team) ==
    /\ begun < MaxRequests /\ clock <= Horizon
    /\ begun' = begun + 1
    /\ Open(p, "no", before, update, after, team)

(* The agent's console. *)
ClaimConversation(a) == Begin(a, <<>>, "claim", <<>>, None)

PostAgentMessage(a) ==
    \/ Begin(a, <<"agent">>, "reply", <<>>, None)
    \/ Begin(a, <<"note">>, "none", <<>>, None)      \* internal

ReturnConversationToAi(a) ==
    /\ settings.ai
    /\ Begin(a, <<>>, "return", <<"back">>, None)

SetConversationAiMode(a) ==
    \E update \in {"hold", "release"} : Begin(a, <<>>, update, <<>>, None)

RequestHandoff(a) ==
    /\ settings.handoff
    /\ \E team \in Teams \cup {None} : Begin(a, <<>>, "route", <<"transferred">>, team)

SetAgentTyping(a) ==
    /\ begun < MaxRequests /\ clock <= Horizon
    /\ begun' = begun + 1
    /\ typing' \in BOOLEAN
    /\ UNCHANGED <<storeVars, clock, settings, failures>>

(* The visitor's widget.  What a transfer writes first depends on the       *)
(* session's memory and on the reason given: nothing, the reason, a summary *)
(* for the colleague, or both.  (The turns of the session _write_transcript *)
(* copies into a thread that has none are left out: they come before the    *)
(* marker, say nothing about who answers and write no row.)                 *)
SelectHandoffTeam(v) ==
    /\ settings.handoff
    /\ \E team \in Teams :
       \E before \in {<<>>, <<"user">>, <<"summary">>, <<"user", "summary">>} :
           Begin(v, before, "route", <<"transferred">>, team)

SendVisitorMessage(v) ==
    /\ row.state # "ai_active"
    /\ Begin(v, <<"user">>, "touch", <<>>, None)

(* AskWidget's answer has been streamed; its exchange is recorded.  The     *)
(* pair shares one next_seq; reading it again for the second message gives  *)
(* the same number, since the first one is this transaction's own.          *)
PersistExchange(v) == Begin(v, <<"user", "assistant">>, "touch", <<>>, None)

-----------------------------------------------------------------------------
(* AdvanceHandoffFallback, on every poll: first the row ... *)
AdvanceHandoffFallback(v) ==
    \/ row.state = "ai_active" /\ ~tx[v].busy /\ UNCHANGED vars
    \/ /\ row.state # "ai_active"
       /\ Open(v, "tail", <<>>, "none", <<>>, None)
       /\ UNCHANGED begun

(* ... then the last turns, and how long the tenant side has been silent: *)
TenantActivity == {"agent"} \cup SystemEvents

Recent == {thread[i] : i \in {j \in 1..Len(thread) : j + Window > Len(thread)}}

ActivityTimes(r) ==
    LET stamps == {m.at : m \in {n \in Recent : n.kind \in TenantActivity}}
    IN  IF stamps # {} THEN stamps
        ELSE IF r.handoffAt # 0 THEN {r.handoffAt} ELSE {}

Silent(v, since, span) == tx[v].now >= since + span

NoticeForgotten(since) == FALSE                                 \* mutant
NoticeSent(since) == \E m \in Recent : m.kind = "waiting" /\ m.at >= since

ReadTail(v) ==
    /\ tx[v].poll = "tail"
    /\ LET times == ActivityTimes(tx[v].row)
           quietFor(span) ==
               times # {} /\ \A t \in times : Silent(v, t, span)
           due == IF quietFor(ReturnAfter) THEN "return"
                  ELSE IF /\ quietFor(NoticeAfter)
                          /\ tx[v].row.state = "unassigned"
                          /\ ~\E t \in times : (\A u \in times : u <= t) /\ NoticeSent(t)
                       THEN "notice"
                       ELSE "no"
       IN  IF due = "no"
           THEN Leave(v)
           ELSE /\ tx' = [tx EXCEPT ![v].poll = due]
                /\ UNCHANGED <<row, thread, lock>>
    /\ UNCHANGED envVars

(* ... then the typing key and, for a return, the two holds. *)
Decide(v) ==
    /\ tx[v].poll \in {"notice", "return"}
    /\ IF typing \/ (tx[v].poll = "return" /\ (tx[v].row.hold \/ ~settings.ai))
       THEN Leave(v)
       ELSE /\ tx' = [tx EXCEPT
                  ![v].poll = "no",
                  ![v].before = IF tx[v].poll = "notice" THEN <<"waiting">> ELSE <<>>,
                  ![v].update = IF tx[v].poll = "return" THEN "fallback" ELSE "none",
                  ![v].after = IF tx[v].poll = "return" THEN <<"unavailable">> ELSE <<>>]
            /\ UNCHANGED <<row, thread, lock>>
    /\ UNCHANGED envVars

-----------------------------------------------------------------------------
Statement(p) ==
    /\ \/ ReadNextSeq(p) \/ SeqTaken(p) \/ AddMessage(p)
       \/ UpdateRow(p) \/ ClaimLost(p) \/ RouteNotMoved(p)
       \/ Commit(p) \/ DeadlockVictim(p)
    /\ UNCHANGED envVars

Crash(p) ==
    /\ failures < MaxFailures
    /\ failures' = failures + 1
    /\ CutShort(p)
    /\ UNCHANGED <<clock, typing, settings, begun>>

(* The tenant's settings screen. *)
SaveChatbotSettings ==
    /\ begun < MaxRequests /\ clock <= Horizon
    /\ begun' = begun + 1
    /\ settings' \in [ai : BOOLEAN, handoff : BOOLEAN] \ {settings}
    /\ UNCHANGED <<storeVars, clock, typing, failures>>

Tick ==
    /\ clock < MaxTime
    /\ \A p \in Requests : tx[p].busy => clock < tx[p].now + MaxLag
    /\ clock' = clock + 1
    /\ typing' = FALSE
    /\ UNCHANGED <<storeVars, settings, begun, failures>>

AgentRequest(a) ==
    \/ ClaimConversation(a) \/ PostAgentMessage(a) \/ ReturnConversationToAi(a)
    \/ SetConversationAiMode(a) \/ RequestHandoff(a) \/ SetAgentTyping(a)

VisitorRequest(v) ==
    \/ SelectHandoffTeam(v) \/ SendVisitorMessage(v) \/ PersistExchange(v)
    \/ AdvanceHandoffFallback(v)

Next ==
    \/ \E a \in Agents : AgentRequest(a)
    \/ \E v \in Tabs : VisitorRequest(v) \/ ReadTail(v) \/ Decide(v)
    \/ \E p \in Requests : Statement(p) \/ Crash(p)
    \/ SaveChatbotSettings
    \/ Tick

Spec == Init /\ [][Next]_vars

(* The database lets every waiter through in its turn (its lock queues are  *)
(* first come, first served, so a request cannot wait for ever while others *)
(* take the row), a live worker issues the next statement, the clock runs,  *)
(* and an open widget keeps polling.  Nobody is obliged to do anything else:*)
(* no agent, admin or visitor request is fair, and neither is a crash.      *)
Fairness ==
    /\ \A p \in Requests : SF_vars(Statement(p))
    /\ \A v \in Tabs : /\ WF_vars(AdvanceHandoffFallback(v))
                       /\ WF_vars(ReadTail(v))
                       /\ WF_vars(Decide(v))
    /\ WF_vars(Tick)

FairSpec == Spec /\ Fairness

-----------------------------------------------------------------------------
(* The thread is one line: positions are 1, 2, 3, ... with no gap and no    *)
(* duplicate, although next_seq is read before it is used and nothing locks *)
(* the thread; and of all the transactions in progress at most one holds    *)
(* messages the others cannot see.  (next_seq, add_many, the unique         *)
(* constraint on (conversation_id, seq).)                                   *)
ThreadIsOneLine ==
    /\ \A i \in 1..Len(thread) : thread[i].seq = i
    /\ \A p, q \in Requests : tx[p].new # <<>> /\ tx[q].new # <<>> => p = q

(* The columns that say who has the conversation agree with its state: with *)
(* the AI or with no team chosen it carries no team and no agent, a queued  *)
(* one has a team and no agent, a claimed one has both.  (Every UPDATE of   *)
(* SqlConversationHandoffRepository, in every order.)                       *)
RowShape ==
    /\ row.state \in {"ai_active", "handoff_requested"} => row.team = None /\ row.agent = None
    /\ row.state = "unassigned" => row.team # None /\ row.agent = None
    /\ row.state = "assigned" => row.team # None /\ row.agent # None

(* What a reader of the thread was last told about who is answering: the    *)
(* last transfer marker, return marker, unavailability notice or agent      *)
(* message.                                                                 *)
Telling == {"agent", "transferred", "back", "unavailable"}

Tellings(s) == {i \in 1..Len(s) : s[i].kind \in Telling}

LastWord(s) ==
    IF Tellings(s) = {} THEN "nothing"
    ELSE s[CHOOSE i \in Tellings(s) : \A j \in Tellings(s) : j <= i].kind

StatesAfter(word) ==
    CASE word = "agent"       -> {"human_active"}
      [] word = "transferred" -> {"handoff_requested", "unassigned", "assigned"}
      [] OTHER                -> {"ai_active"}

(* The thread never says one thing and the row another: after the last      *)
(* transfer marker the conversation is queued or claimed, after an agent's  *)
(* message an agent has it, after a return or unavailability notice the AI  *)
(* does.  (handoff.py: "Every transition here is a real write, never a      *)
(* message that says one happened.")                                        *)
ThreadTellsState == row.state \in StatesAfter(LastWord(thread))

(* The transactions do what Ownership promises: whatever is running at the  *)
(* same time, each commit that changes the row is one change of hands of    *)
(* the promise, its marker included, and every other step is none.          *)
Promise == INSTANCE Ownership WITH
    state <- row.state, agent <- row.agent, word <- LastWord(thread)

ImplementsOwnership == Promise!Spec

(* An agent who claimed a conversation loses it only to the AI, by a return *)
(* or by the timeout: no other claim, transfer or reply replaces the agent  *)
(* or puts a thread an agent has back into a queue.  (claim, route_to_team.)*)
KeptUntilReturned ==
    [][/\ row.agent # None /\ row'.agent # row.agent => row'.state = "ai_active"
       /\ row.state \in AgentStates => row'.state \in AgentStates \cup {"ai_active"}]_row

(* Every request that opens a transaction ends, whoever else wants the row  *)
(* or the next position of the thread: lock waits do not go round in a      *)
(* circle for ever.                                                         *)
RequestsEnd == \A p \in Requests : tx[p].busy ~> ~tx[p].busy

(* What a poll's timeout goes by is gone: an agent has the conversation     *)
(* although it was never transferred, and the last turns are all the        *)
(* visitor's.  Then _last_tenant_activity finds nothing, handoff_at is      *)
(* NULL, and every poll returns without doing anything.                     *)
OutOfSight ==
    row.handoffAt = 0 /\ ~\E m \in Recent : m.kind \in TenantActivity

(* A conversation out of the AI's hands becomes a dead end in one way only: *)
(* once the tenant side has gone quiet for good, the timeout hands it back, *)
(* unless an agent holds it, the tenant has switched the AI off, or the     *)
(* newer turns have pushed the agent's last message out of a window that    *)
(* has no transfer to fall back on.  (AdvanceHandoffFallback, whose comment *)
(* promises there is none; the run's window is short enough to overflow.)   *)
DeadEndsAreUnseen ==
    (clock > Horizon /\ row.state # "ai_active")
        ~> (row.state = "ai_active" \/ row.hold \/ ~settings.ai \/ OutOfSight)

-----------------------------------------------------------------------------
(* What the comments promise and the run Handoff_quiet refutes.            *)

(* The AI never talks over an agent mid-conversation: no AI turn in a       *)
(* thread whose last word about who is answering is an agent's message.     *)
(* (A thread that waits in a queue is the AI's to answer meanwhile.)        *)
(* (ai_may_reply, handoff.py's opening comment; the ask path.)              *)
AiStaysQuiet ==
    \A i \in 1..Len(thread) : thread[i].kind = "assistant" =>
        LastWord(SubSeq(thread, 1, i - 1)) # "agent"

=============================================================================
