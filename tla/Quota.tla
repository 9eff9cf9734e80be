-------------------------------- MODULE Quota --------------------------------
(***************************************************************************)
(* The allowances of one tenant: questions a day (the widget's and the      *)
(* tenant's) and tokens a month.  The counters are Redis keys; the ledger   *)
(* is a table a missing tenant counter is rebuilt from.                     *)
(*                                                                          *)
(* A request is one question, asked on a widget (AskWidget) or in the       *)
(* console (AnswerQuestion).  It makes one call at a time, to Redis, to the  *)
(* ledger or to a provider, and requests interleave between their calls.    *)
(***************************************************************************)
EXTENDS Integers, FiniteSets, Sequences

CONSTANTS
    Requests,       \* questions that may be in progress at the same time
    LastDay,        \* bound: the days 1..LastDay, all in one month
    DayLimit,       \* the tenant's effective_daily_message_limit
    WidgetLimit,    \* the widget's daily_question_limit
    TokenLimit,     \* the tenant's max_tokens_per_month
    Costs,          \* the tokens an answer may be billed
    Faults,         \* what may go wrong
    MaxAsked,       \* bound: questions asked
    MaxFailures     \* bound: faults

FaultKinds == {"redis", "ledger", "provider", "crash", "restart"}

ASSUME QuotaAssumption ==
    /\ LastDay \in Nat \ {0}
    /\ {DayLimit, WidgetLimit, TokenLimit} \subseteq Nat
    /\ Costs # {} /\ Costs \subseteq Nat
    /\ Faults \subseteq FaultKinds
    /\ MaxAsked \in Nat /\ MaxFailures \in Nat

VARIABLES
    redis,          \* the keys that exist, and their counts
    ledger,         \* rows by day, and their tokens (ai_usage_events)
    today,
    req,            \* each request: its next call and what it remembers
    tally,          \* history: what the questions really cost
    failures,       \* history: the faults so far, and of which kinds
    asked

vars == <<redis, ledger, today, req, tally, asked, failures>>

Days == 1..LastDay
WidgetKey(d) == <<"widget", d>>
DayKey(d) == <<"messages", d>>
MonthKey == <<"tokens", 0>>
Keys == ({"widget", "messages"} \X Days) \cup {<<"tokens", 0>>}

-----------------------------------------------------------------------------
(* The calls, in the order a question makes them.                           *)
WidgetCalls == {"widgetIncr", "widgetGiveBack"}
ReserveCalls == {"dayExists", "daySeed", "daySet", "dayIncr", "giveBack"}
BudgetCalls == {"monthExists", "monthSeed", "monthSet", "monthGet"}
RecordCalls == {"recordExists", "recordSeed", "recordSet", "recordIncr"}
ReleaseCalls == {"releaseExists", "releaseDecr"}
LedgerCalls == {"daySeed", "monthSeed", "recordSeed", "ledgerInsert"}
ProviderCalls == {"retrieve", "generate"}
Calls == WidgetCalls \cup ReserveCalls \cup BudgetCalls \cup RecordCalls \cup ReleaseCalls
         \cup LedgerCalls \cup ProviderCalls
RedisCalls == Calls \ (LedgerCalls \cup ProviderCalls)

Idle == [at |-> "idle", day |-> 1, seed |-> 0, cost |-> 0]
At(p, call) == req[p].at = call
Goto(p, call) ==
    req' = [req EXCEPT ![p] = IF call = "idle" THEN Idle ELSE [@ EXCEPT !.at = call]]
GotoWith(p, call, seed) == req' = [req EXCEPT ![p].at = call, ![p].seed = seed]
GotoOn(p, call, day) == req' = [req EXCEPT ![p].at = call, ![p].day = day]

(* Where an exception of a call leads.  A reservation that cannot be made    *)
(* refuses; an allowance that cannot be read refuses and releases; what      *)
(* comes after the answer goes on.                                          *)
AfterError(call) ==
    CASE call \in WidgetCalls \cup ReserveCalls \cup ReleaseCalls -> "idle"
      [] call \in BudgetCalls \cup {"retrieve"}                   -> "releaseExists"
      [] call \in RecordCalls                                     -> "ledgerInsert"
      [] call = "ledgerInsert"                                    -> "idle"

Exists(k) == k \in DOMAIN redis
Count(k) == IF Exists(k) THEN redis[k] ELSE 0
With(k, n) == [j \in DOMAIN redis \cup {k} |-> IF j = k THEN n ELSE redis[j]]
Plus(k, n) == With(k, Count(k) + n)
SetAnyway(k, n) == With(k, n)                                    \* mutant
SetNX(k, n) == IF Exists(k) THEN redis ELSE With(k, n)

(* What the command p is at does to the keys.                               *)
Sent(p) ==
    CASE At(p, "widgetIncr")               -> Plus(WidgetKey(today), 1)
      [] At(p, "widgetGiveBack")           -> Plus(WidgetKey(req[p].day), -1)
      [] At(p, "daySet")                   -> SetNX(DayKey(req[p].day), req[p].seed)
      [] At(p, "dayIncr")                  -> Plus(DayKey(req[p].day), 1)
      [] At(p, "giveBack")                 -> Plus(DayKey(req[p].day), -1)
      [] At(p, "releaseDecr")              -> Plus(DayKey(req[p].day), -1)
      [] req[p].at \in {"monthSet", "recordSet"} -> SetNX(MonthKey, req[p].seed)
      [] At(p, "recordIncr")               -> Plus(MonthKey, req[p].cost)
      [] OTHER                             -> redis

(* A Redis command of p: only the keys and p change.                        *)
Command(p) ==
    /\ redis' = Sent(p)
    /\ UNCHANGED <<ledger, today, tally, asked, failures>>

Init ==
    /\ redis = [k \in {} |-> 0]
    /\ ledger = [answers |-> [d \in Days |-> 0], tokens |-> 0]
    /\ today = 1
    /\ req = [p \in Requests |-> Idle]
    /\ tally = [widget |-> [d \in Days |-> 0], reached |-> [d \in Days |-> 0],
                spent |-> 0, strayed |-> FALSE]
    /\ failures = [count |-> 0, kinds |-> {}]
    /\ asked = 0

-----------------------------------------------------------------------------
(* AskWidget starts with the widget's counter, AnswerQuestion without one.   *)
Ask(p) ==
    /\ At(p, "idle") /\ asked < MaxAsked
    /\ \E first \in {"widgetIncr", "dayExists"} : Goto(p, first)
    /\ asked' = asked + 1
    /\ UNCHANGED <<redis, ledger, today, tally, failures>>

(* RedisWidgetQuotaStore.consume.                                           *)
WidgetAdmittedByOldCount(p) == Count(WidgetKey(today)) <= WidgetLimit  \* mutant
WidgetAdmitted(p) == Sent(p)[WidgetKey(today)] <= WidgetLimit
ConsumeWidget(p) ==
    /\ At(p, "widgetIncr")
    /\ redis' = Sent(p)
    /\ IF WidgetAdmitted(p)
       THEN /\ GotoOn(p, "dayExists", today)
            /\ tally' = [tally EXCEPT !.widget[today] = @ + 1]
       ELSE GotoOn(p, "widgetGiveBack", today) /\ UNCHANGED tally
    /\ UNCHANGED <<ledger, today, asked, failures>>
GiveBackWidget(p) == At(p, "widgetGiveBack") /\ Command(p) /\ Goto(p, "idle")

(* consume_message: _day seeds the key of the day it is, then INCR decides.  *)
LookForDay(p) ==
    /\ At(p, "dayExists")
    /\ Command(p)
    /\ GotoOn(p, IF Exists(DayKey(today)) THEN "dayIncr" ELSE "daySeed", today)

LedgerRows == {row \in Days \X (1..MaxAsked) : row[2] <= ledger.answers[row[1]]}
AnswersSince(day) == Cardinality({row \in LedgerRows : row[1] >= day})

Unledgered == UNCHANGED <<redis, ledger, today, tally, asked, failures>>
SeedDay(p) ==
    /\ At(p, "daySeed")
    /\ GotoWith(p, "daySet", AnswersSince(req[p].day))
    /\ Unledgered
SetDay(p) == At(p, "daySet") /\ Command(p) /\ Goto(p, "dayIncr")

AdmittedByOldCount(p) == Count(DayKey(req[p].day)) <= DayLimit   \* mutant
Admitted(p) == Sent(p)[DayKey(req[p].day)] <= DayLimit
ConsumeMessage(p) ==
    /\ At(p, "dayIncr")
    /\ Command(p)
    /\ Goto(p, IF Admitted(p) THEN "monthExists" ELSE "giveBack")
KeepRefused(p) == At(p, "giveBack") /\ Unledgered /\ Goto(p, "idle")  \* mutant
GiveBack(p) == At(p, "giveBack") /\ Command(p) /\ Goto(p, "idle")

(* tokens_used_this_month, and _assert_within_tenant_budget's comparison.    *)
LookForMonth(p) ==
    /\ At(p, "monthExists")
    /\ Command(p)
    /\ Goto(p, IF Exists(MonthKey) THEN "monthGet" ELSE "monthSeed")
SeedMonth(p) ==
    /\ At(p, "monthSeed")
    /\ GotoWith(p, "monthSet", ledger.tokens)
    /\ Unledgered
SetMonth(p) == At(p, "monthSet") /\ Command(p) /\ Goto(p, "monthGet")

BudgetUnchecked(p) == FALSE                                      \* mutant
BudgetSpent(p) == Count(MonthKey) >= TokenLimit
ReadMonth(p) ==
    /\ At(p, "monthGet")
    /\ Command(p)
    /\ Goto(p, IF BudgetSpent(p) THEN "releaseExists" ELSE "retrieve")

-----------------------------------------------------------------------------
Fails(kind) ==
    /\ kind \in Faults /\ failures.count < MaxFailures
    /\ failures' = [count |-> failures.count + 1, kinds |-> failures.kinds \cup {kind}]

(* The answer.  A question that finds no passage is answered without the     *)
(* model, at the cost of its embedding; the model's answer is streamed after *)
(* the code that would release the message has returned.                    *)
Answered(p, reached, cost) ==
    /\ tally' = [tally EXCEPT !.reached[req[p].day] = @ + reached, !.spent = @ + cost]
    /\ UNCHANGED <<redis, ledger, today, asked>>

LedgerFirst == <<"ledgerInsert", "recordExists">>                 \* mutant
RecordUsage == <<"recordExists", "ledgerInsert">>
RecordAfter(call) == IF call = RecordUsage[1] THEN RecordUsage[2] ELSE "idle"
Record(cost) == IF cost > 0 THEN RecordUsage[1] ELSE "ledgerInsert"
RecordCost(p, cost) == req' = [req EXCEPT ![p].at = Record(cost), ![p].cost = cost]

NoSources(p) ==
    /\ At(p, "retrieve")
    /\ \E cost \in Costs : RecordCost(p, cost) /\ Answered(p, 1, cost)
    /\ UNCHANGED failures
Ground(p) ==
    /\ At(p, "retrieve")
    /\ Goto(p, "generate") /\ Answered(p, 1, 0)
    /\ UNCHANGED failures
Generate(p) ==
    /\ At(p, "generate")
    /\ \E cost \in Costs : RecordCost(p, cost) /\ Answered(p, 0, cost)
    /\ UNCHANGED failures
StreamFails(p) ==
    /\ At(p, "generate")
    /\ \E cost \in Costs : RecordCost(p, cost) /\ Answered(p, 0, cost)
    /\ Fails("provider")

(* _record_usage: record_tokens, then the ledger's row.                     *)
LookToRecord(p) ==
    /\ At(p, "recordExists")
    /\ Command(p)
    /\ Goto(p, IF Exists(MonthKey) THEN "recordIncr" ELSE "recordSeed")
SeedRecord(p) ==
    /\ At(p, "recordSeed")
    /\ GotoWith(p, "recordSet", ledger.tokens)
    /\ Unledgered
SetRecord(p) == At(p, "recordSet") /\ Command(p) /\ Goto(p, "recordIncr")
RecordTokens(p) ==
    At(p, "recordIncr") /\ Command(p) /\ Goto(p, RecordAfter("recordExists"))
InsertRow(p) ==
    /\ At(p, "ledgerInsert")
    /\ ledger' = [ledger EXCEPT !.answers[today] = @ + 1, !.tokens = @ + req[p].cost]
    /\ Goto(p, RecordAfter("ledgerInsert"))
    /\ UNCHANGED <<redis, today, tally, asked, failures>>

(* release_message: of the day it is, if its key exists.                    *)
LookToRelease(p) ==
    /\ At(p, "releaseExists")
    /\ IF Exists(DayKey(today))
       THEN /\ GotoOn(p, "releaseDecr", today)
            /\ tally' = [tally EXCEPT !.strayed = @ \/ today # req[p].day]
       ELSE Goto(p, "idle") /\ UNCHANGED tally
    /\ UNCHANGED <<redis, ledger, today, asked, failures>>
Release(p) == At(p, "releaseDecr") /\ Command(p) /\ Goto(p, "idle")

-----------------------------------------------------------------------------
(* What goes wrong.  A Redis command that raises may have been carried out.  *)
CallRaises(p) ==
    /\ \/ /\ Fails("redis") /\ req[p].at \in RedisCalls
          /\ redis' \in {redis, Sent(p)}
       \/ /\ Fails("ledger") /\ req[p].at \in LedgerCalls
          /\ UNCHANGED redis
       \/ /\ Fails("provider") /\ At(p, "retrieve")
          /\ UNCHANGED redis
    /\ Goto(p, AfterError(req[p].at))
    /\ UNCHANGED <<ledger, today, tally, asked>>

(* The process is killed, or the task cancelled: no handler catches it.      *)
Crash(p) ==
    /\ Fails("crash") /\ ~At(p, "idle")
    /\ Goto(p, "idle")
    /\ UNCHANGED <<redis, ledger, today, tally, asked>>

RestartRedis ==
    /\ Fails("restart")
    /\ redis' = [k \in {} |-> 0]
    /\ UNCHANGED <<ledger, today, req, tally, asked>>

Midnight ==
    /\ today < LastDay
    /\ today' = today + 1
    /\ UNCHANGED <<redis, ledger, req, tally, asked, failures>>

Step(p) ==
    \/ Ask(p)
    \/ ConsumeWidget(p) \/ GiveBackWidget(p)
    \/ LookForDay(p) \/ SeedDay(p) \/ SetDay(p) \/ ConsumeMessage(p) \/ GiveBack(p)
    \/ LookForMonth(p) \/ SeedMonth(p) \/ SetMonth(p) \/ ReadMonth(p)
    \/ NoSources(p) \/ Ground(p) \/ Generate(p) \/ StreamFails(p)
    \/ LookToRecord(p) \/ SeedRecord(p) \/ SetRecord(p) \/ RecordTokens(p) \/ InsertRow(p)
    \/ LookToRelease(p) \/ Release(p)
    \/ CallRaises(p) \/ Crash(p)

Next == (\E p \in Requests : Step(p)) \/ RestartRedis \/ Midnight
Spec == Init /\ [][Next]_vars

-----------------------------------------------------------------------------
(* Every variable has its type; counts may be negative.                     *)
TypeOK ==
    /\ DOMAIN redis \subseteq Keys /\ \A k \in DOMAIN redis : redis[k] \in Int
    /\ ledger \in [answers : [Days -> Nat], tokens : Nat]
    /\ today \in Days
    /\ req \in [Requests -> [at : Calls \cup {"idle"}, day : Days, seed : Nat,
                             cost : Costs \cup {0}]]
    /\ tally \in [widget : [Days -> Nat], reached : [Days -> Nat], spent : Nat,
                 strayed : BOOLEAN]
    /\ failures \in [count : Nat, kinds : SUBSET FaultKinds]
    /\ asked \in Nat

OnlyFailed(kinds) == failures.kinds \subseteq kinds
KeysKept == OnlyFailed(FaultKinds \ {"restart"})
Quiet == \A p \in Requests : At(p, "idle")

(* Of the questions of a day, no more than the tenant's limit reach the      *)
(* providers, or hold the right to: consume_message is atomic, and what it   *)
(* hands back or releases is what it took (tenant_quota.py).  That is, while  *)
(* Redis keeps its keys and no release has strayed to another day.           *)
Holds == BudgetCalls \cup {"retrieve"}
Holders(d) == {p \in Requests : req[p].at \in Holds /\ req[p].day = d}
Taken(d) == tally.reached[d] + Cardinality(Holders(d))
WithinDailyLimit == KeysKept /\ ~tally.strayed => \A d \in Days : Taken(d) <= DayLimit

(* Why: the day's counter covers the questions that reached a provider and   *)
(* those that have yet to reach one, or to hand back what they took.         *)
Owes == Holds \cup {"giveBack", "releaseExists", "releaseDecr"}
Debtors(d) == {p \in Requests : req[p].at \in Owes /\ req[p].day = d}
Debt(d) == tally.reached[d] + Cardinality(Debtors(d))
DebtIsCounted == KeysKept /\ ~tally.strayed => \A d \in Days : Debt(d) <= Count(DayKey(d))

(* The widget takes no more questions in a day than its own limit, however    *)
(* its visitors overlap and whichever of its counter's calls fail, as long   *)
(* as Redis keeps the counter (widget_quota.py).                             *)
WidgetWithinLimit == KeysKept => \A d \in Days : tally.widget[d] <= WidgetLimit

(* With nothing in progress, a counter is what the ledger would rebuild it   *)
(* to: refused and failed questions have been handed back, answered ones     *)
(* have a row.  (Not with faults of Redis or the ledger; and the row of an   *)
(* answer given across midnight is the next day's.)                          *)
RebuildIsExact ==
    Quiet /\ OnlyFailed({"provider"}) =>
        /\ today = 1 /\ Exists(DayKey(1)) => redis[DayKey(1)] = ledger.answers[1]
        /\ Exists(MonthKey) => redis[MonthKey] = ledger.tokens

(* No answer is counted twice in the month, whatever is lost and rebuilt:    *)
(* the counter is written before the ledger it is rebuilt from.              *)
CountedOnce == Count(MonthKey) <= tally.spent

(* The allowance is read before and recorded after: while every cost is      *)
(* recorded, the answers in progress as it is crossed are all that is beyond *)
(* it.                                                                      *)
MaxCost == CHOOSE c \in Costs : \A other \in Costs : other <= c
BoundedOvershoot ==
    TokenLimit > 0 /\ OnlyFailed({"provider"}) =>
        tally.spent <= TokenLimit - 1 + Cardinality(Requests) * MaxCost

=============================================================================
