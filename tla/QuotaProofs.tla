----------------------------- MODULE QuotaProofs -----------------------------
(***************************************************************************)
(* What the counters promise, for any limits, costs and number of questions *)
(* in progress: no more questions than the tenant's limit reach the         *)
(* providers in a day, nor more than a widget's own reach it; the month     *)
(* counts every answer at most once, and exactly while only the providers   *)
(* fail; and the month's allowance is overshot by no more than is in        *)
(* progress.  The day's argument is a debt: its counter never falls below   *)
(* the questions that were answered and those that still owe it something:  *)
(* that hold a reservation, or have yet to hand back or release one.  The   *)
(* month's is a sum over the questions in progress, kept as the size of a   *)
(* set: each question's tokens, as many as its answer cost.                 *)
(***************************************************************************)
EXTENDS Quota, FiniteSetTheorems, TLAPS

(* The limit is claimed while Redis keeps its keys and no release strays to  *)
(* another day; a disturbance is never undone.                              *)
Undisturbed == KeysKept /\ ~tally.strayed

IInv == TypeOK /\ DebtIsCounted /\ WithinDailyLimit

-----------------------------------------------------------------------------
(* Types. *)

LEMMA SomeCost == Costs # {} /\ Costs \subseteq Nat
BY QuotaAssumption

LEMMA RowsAreCounted ==
    ASSUME NEW day \in Days
    PROVE  AnswersSince(day) \in Nat
<1>1. IsFiniteSet(Days) /\ IsFiniteSet(1..MaxAsked)
  <2>1. 1 \in Int /\ LastDay \in Int /\ MaxAsked \in Int
    BY QuotaAssumption
  <2>2. IsFiniteSet(1..LastDay) /\ IsFiniteSet(1..MaxAsked)
    BY ONLY <2>1, FS_Interval, Zenon
  <2> QED BY <2>2 DEF Days
<1>2. IsFiniteSet(Days \X (1..MaxAsked))
  BY <1>1, FS_Product
<1>3. {row \in LedgerRows : row[1] >= day} \subseteq Days \X (1..MaxAsked)
  BY DEF LedgerRows
<1>4. IsFiniteSet({row \in LedgerRows : row[1] >= day})
  BY <1>2, <1>3, FS_Subset
<1> QED BY <1>4, FS_CardinalityType DEF AnswersSince

(* A command leaves Redis a function from keys to integers. *)
LEMMA SentIsTyped ==
    ASSUME TypeOK, NEW p \in Requests
    PROVE  DOMAIN Sent(p) \subseteq Keys /\ \A k \in DOMAIN Sent(p) : Sent(p)[k] \in Int
<1>1. /\ req[p].day \in Days /\ today \in Days
      /\ req[p].seed \in Int /\ req[p].cost \in Int
  <2>1. req[p] \in [at : Calls \cup {"idle"}, day : Days, seed : Nat, cost : Costs \cup {0}]
    BY DEF TypeOK
  <2>2. req[p].cost \in Costs \cup {0} /\ req[p].seed \in Nat /\ req[p].day \in Days
    BY <2>1
  <2>3. today \in Days
    BY DEF TypeOK
  <2>4. Costs \subseteq Int
    BY SomeCost
  <2>5. req[p].cost \in Int
    <3>1. 0 \in Int OBVIOUS
    <3> QED BY <2>2, <2>4, <3>1, Zenon
  <2>6. req[p].seed \in Int
    BY <2>2
  <2> QED BY <2>2, <2>3, <2>5, <2>6
<1>2. \A d \in Days : WidgetKey(d) \in Keys /\ DayKey(d) \in Keys /\ MonthKey \in Keys
  BY DEF Keys, WidgetKey, DayKey, MonthKey
<1>3. ASSUME NEW k \in Keys, NEW n \in Int
      PROVE  /\ DOMAIN With(k, n) \subseteq Keys
             /\ \A j \in DOMAIN With(k, n) : With(k, n)[j] \in Int
  BY <1>3 DEF With, TypeOK
<1>4. ASSUME NEW k \in Keys
      PROVE  Count(k) \in Int
  BY <1>4 DEF Count, Exists, TypeOK
<1>5. ASSUME NEW k \in Keys, NEW n \in Int
      PROVE  /\ DOMAIN Plus(k, n) \subseteq Keys
             /\ \A j \in DOMAIN Plus(k, n) : Plus(k, n)[j] \in Int
  <2>1. Count(k) + n \in Int BY <1>4, <1>5
  <2> QED BY <2>1, <1>3, <1>5 DEF Plus
<1>6. ASSUME NEW k \in Keys, NEW n \in Int
      PROVE  /\ DOMAIN SetNX(k, n) \subseteq Keys
             /\ \A j \in DOMAIN SetNX(k, n) : SetNX(k, n)[j] \in Int
  BY <1>3, <1>6 DEF SetNX, TypeOK
<1>7. DOMAIN redis \subseteq Keys /\ \A k \in DOMAIN redis : redis[k] \in Int
  BY DEF TypeOK
<1> QED BY <1>1, <1>2, <1>5, <1>6, <1>7 DEF Sent

ReqRecords == [at : Calls \cup {"idle"}, day : Days, seed : Nat, cost : Costs \cup {0}]

Tallies == [widget : [Days -> Nat], reached : [Days -> Nat], spent : Nat, strayed : BOOLEAN]
Failures == [count : Nat, kinds : SUBSET FaultKinds]

LEMMA MovesAreTyped ==
    ASSUME TypeOK, NEW p \in Requests, NEW call \in Calls \cup {"idle"}
    PROVE  /\ Goto(p, call) => req' \in [Requests -> ReqRecords]
           /\ \A seed \in Nat : GotoWith(p, call, seed) => req' \in [Requests -> ReqRecords]
           /\ \A day \in Days : GotoOn(p, call, day) => req' \in [Requests -> ReqRecords]
<1>1. req \in [Requests -> ReqRecords]
  BY DEF TypeOK, ReqRecords
<1>2. Idle \in ReqRecords
  BY QuotaAssumption DEF Idle, ReqRecords, Days
<1>3. [req[p] EXCEPT !.at = call] \in ReqRecords
  BY <1>1 DEF ReqRecords
<1>4. ASSUME NEW r \in ReqRecords
      PROVE  [req EXCEPT ![p] = r] \in [Requests -> ReqRecords]
  BY <1>1, <1>4
<1>5. Goto(p, call) => req' \in [Requests -> ReqRecords]
  BY <1>2, <1>3, <1>4 DEF Goto
<1>6. ASSUME NEW seed \in Nat, GotoWith(p, call, seed)
      PROVE  req' \in [Requests -> ReqRecords]
  <2>1. [req[p] EXCEPT !.at = call, !.seed = seed] \in ReqRecords
    BY <1>1, <1>6 DEF ReqRecords
  <2>2. req' = [req EXCEPT ![p] = [req[p] EXCEPT !.at = call, !.seed = seed]]
    BY <1>1, <1>6 DEF GotoWith
  <2> QED BY <2>1, <2>2, <1>4
<1>7. ASSUME NEW day \in Days, GotoOn(p, call, day)
      PROVE  req' \in [Requests -> ReqRecords]
  <2>1. [req[p] EXCEPT !.at = call, !.day = day] \in ReqRecords
    BY <1>1, <1>7 DEF ReqRecords
  <2>2. req' = [req EXCEPT ![p] = [req[p] EXCEPT !.at = call, !.day = day]]
    BY <1>1, <1>7 DEF GotoOn
  <2> QED BY <2>1, <2>2, <1>4
<1> QED BY <1>5, <1>6, <1>7

LEMMA CostsAreTyped ==
    ASSUME TypeOK, NEW p \in Requests, NEW cost \in Costs, RecordCost(p, cost)
    PROVE  req' \in [Requests -> ReqRecords]
<1>1. Record(cost) \in Calls \cup {"idle"}
  BY DEF Record, RecordUsage, Calls, RecordCalls, LedgerCalls
<1>2. req \in [Requests -> ReqRecords]
  BY DEF TypeOK, ReqRecords
<1>3. [req[p] EXCEPT !.at = Record(cost), !.cost = cost] \in ReqRecords
  BY <1>1, <1>2 DEF ReqRecords
<1>4. req' = [req EXCEPT ![p] = [req[p] EXCEPT !.at = Record(cost), !.cost = cost]]
  BY <1>2 DEF RecordCost
<1> QED BY <1>2, <1>3, <1>4

LEMMA TalliesAreTyped ==
    ASSUME TypeOK, NEW p \in Requests, NEW i \in Nat, NEW cost \in Nat, Answered(p, i, cost)
    PROVE  /\ tally' \in Tallies
           /\ tally'.reached = [tally.reached EXCEPT ![req[p].day] = @ + i]
           /\ tally'.strayed = tally.strayed
<1>1. req[p].day \in Days
  BY DEF TypeOK
<1>2. tally \in Tallies
  BY DEF TypeOK, Tallies
<1>3. /\ [tally.reached EXCEPT ![req[p].day] = @ + i] \in [Days -> Nat]
      /\ tally.spent + cost \in Nat
  BY <1>1, <1>2 DEF Tallies
<1>4. tally' = [widget |-> tally.widget,
                reached |-> [tally.reached EXCEPT ![req[p].day] = @ + i],
                spent |-> tally.spent + cost, strayed |-> tally.strayed]
  BY <1>1, <1>2 DEF Answered, Tallies
<1> QED BY <1>2, <1>3, <1>4 DEF Tallies

LEMMA FailuresAreTyped ==
    ASSUME TypeOK, NEW kind \in FaultKinds, Fails(kind)
    PROVE  failures' \in Failures /\ failures'.kinds = failures.kinds \cup {kind}
<1>1. failures \in Failures
  BY DEF TypeOK, Failures
<1> QED BY <1>1 DEF Fails, Failures

LEMMA ErrorsLeadSomewhere ==
    ASSUME NEW call \in Calls \ {"generate"}
    PROVE  AfterError(call) \in Calls \cup {"idle"}
BY DEF AfterError, Calls, WidgetCalls, ReserveCalls, ReleaseCalls, BudgetCalls, RecordCalls,
       LedgerCalls, ProviderCalls

(* A command p sends leaves everything else that is typed alone. *)
LEMMA CommandsAreTyped ==
    ASSUME TypeOK, NEW p \in Requests, redis' \in {redis, Sent(p)},
           req' \in [Requests -> ReqRecords],
           UNCHANGED <<ledger, today, tally, asked>>, failures' \in Failures
    PROVE  TypeOK'
<1>1. DOMAIN redis' \subseteq Keys /\ \A k \in DOMAIN redis' : redis'[k] \in Int
  <2>1. CASE redis' = redis
    BY <2>1 DEF TypeOK
  <2>2. CASE redis' = Sent(p)
    BY <2>2, SentIsTyped
  <2> QED BY <2>1, <2>2
<1> QED BY <1>1 DEF TypeOK, ReqRecords, Failures

LEMMA StepKeepsType ==
    ASSUME TypeOK, NEW p \in Requests, Step(p)
    PROVE  TypeOK'
<1> DEFINE NewReq == req' \in [Requests -> ReqRecords]
<1>0. /\ failures \in Failures /\ asked \in Nat /\ today \in Days /\ req[p].day \in Days
      /\ req \in [Requests -> ReqRecords] /\ ledger.tokens \in Nat
  BY DEF TypeOK, ReqRecords, Failures
<1>c. \A call \in {"idle", "widgetIncr", "widgetGiveBack", "dayExists", "daySeed", "daySet",
                   "dayIncr", "giveBack", "monthExists", "monthSeed", "monthSet", "monthGet",
                   "retrieve", "generate", "recordExists", "recordSeed", "recordSet",
                   "recordIncr", "ledgerInsert", "releaseExists", "releaseDecr"} :
          call \in Calls \cup {"idle"}
  BY DEF Calls, WidgetCalls, ReserveCalls, ReleaseCalls, BudgetCalls, RecordCalls,
         LedgerCalls, ProviderCalls
<1>g. ASSUME NEW call \in Calls \cup {"idle"}, Goto(p, call)
      PROVE  NewReq
  BY <1>g, MovesAreTyped
<1>o. ASSUME NEW call \in Calls \cup {"idle"}, NEW day \in Days, GotoOn(p, call, day)
      PROVE  NewReq
  BY <1>o, MovesAreTyped
<1>w. ASSUME NEW call \in Calls \cup {"idle"}, NEW seed \in Nat, GotoWith(p, call, seed)
      PROVE  NewReq
  BY <1>w, MovesAreTyped
<1>m. ASSUME Command(p), NewReq
      PROVE  TypeOK'
  BY <1>m, <1>0, CommandsAreTyped DEF Command
<1>u. ASSUME Unledgered, NewReq
      PROVE  TypeOK'
  BY <1>u DEF Unledgered, TypeOK, ReqRecords
<1>1. CASE Ask(p)
  <2>1. NewReq BY <1>1, <1>c, <1>g DEF Ask
  <2> QED BY <1>1, <2>1, <1>0 DEF Ask, TypeOK, ReqRecords
<1>2. CASE ConsumeWidget(p)
  <2>1. NewReq BY <1>2, <1>0, <1>c, <1>o DEF ConsumeWidget
  <2>2. tally' \in Tallies
    <3>1. tally \in Tallies BY DEF TypeOK, Tallies
    <3>2. [tally EXCEPT !.widget[today] = @ + 1] \in Tallies
      BY <3>1, <1>0 DEF Tallies
    <3> QED BY <3>1, <3>2, <1>2 DEF ConsumeWidget
  <2>3. DOMAIN redis' \subseteq Keys /\ \A k \in DOMAIN redis' : redis'[k] \in Int
    BY <1>2, SentIsTyped DEF ConsumeWidget
  <2> QED BY <1>2, <2>1, <2>2, <2>3 DEF ConsumeWidget, TypeOK, ReqRecords, Tallies
<1>3. CASE GiveBackWidget(p) BY <1>3, <1>c, <1>g, <1>m DEF GiveBackWidget
<1>4. CASE LookForDay(p) BY <1>4, <1>0, <1>c, <1>o, <1>m DEF LookForDay
<1>5. CASE SeedDay(p) BY <1>5, <1>0, <1>c, <1>w, <1>u, RowsAreCounted DEF SeedDay
<1>6. CASE SetDay(p) BY <1>6, <1>c, <1>g, <1>m DEF SetDay
<1>7. CASE ConsumeMessage(p) BY <1>7, <1>c, <1>g, <1>m DEF ConsumeMessage
<1>8. CASE GiveBack(p) BY <1>8, <1>c, <1>g, <1>m DEF GiveBack
<1>9. CASE LookForMonth(p) BY <1>9, <1>c, <1>g, <1>m DEF LookForMonth
<1>10. CASE SeedMonth(p) BY <1>10, <1>0, <1>c, <1>w, <1>u DEF SeedMonth
<1>11. CASE SetMonth(p) BY <1>11, <1>c, <1>g, <1>m DEF SetMonth
<1>12. CASE ReadMonth(p) BY <1>12, <1>c, <1>g, <1>m DEF ReadMonth
<1>a. ASSUME NewReq, NEW i \in {0, 1}, NEW cost \in Costs \cup {0}, Answered(p, i, cost),
             failures' \in Failures
      PROVE  TypeOK'
  <2>1. cost \in Nat
    <3>1. 0 \in Nat OBVIOUS
    <3> QED BY <3>1, SomeCost, Zenon
  <2>2. tally' \in Tallies
    <3>1. i \in Nat OBVIOUS
    <3> QED BY <3>1, <2>1, <1>a, TalliesAreTyped
  <2> QED BY <1>a, <2>2 DEF Answered, TypeOK, ReqRecords, Tallies, Failures
<1>13. CASE NoSources(p)
  <2>1. PICK cost \in Costs : RecordCost(p, cost) /\ Answered(p, 1, cost)
    BY <1>13 DEF NoSources
  <2>2. failures' \in Failures BY <1>13, <1>0 DEF NoSources
  <2> QED BY <2>1, <2>2, CostsAreTyped, <1>a
<1>14. CASE Ground(p)
  <2>1. NewReq BY <1>14, <1>c, <1>g DEF Ground
  <2>2. Answered(p, 1, 0) /\ failures' \in Failures BY <1>14, <1>0 DEF Ground
  <2> QED BY <2>1, <2>2, <1>a
<1>15. CASE Generate(p)
  <2>1. PICK cost \in Costs : RecordCost(p, cost) /\ Answered(p, 0, cost)
    BY <1>15 DEF Generate
  <2>2. failures' \in Failures BY <1>15, <1>0 DEF Generate
  <2> QED BY <2>1, <2>2, CostsAreTyped, <1>a
<1>16. CASE StreamFails(p)
  <2>1. PICK cost \in Costs : RecordCost(p, cost) /\ Answered(p, 0, cost)
    BY <1>16 DEF StreamFails
  <2>2. failures' \in Failures BY <1>16, FailuresAreTyped DEF StreamFails, FaultKinds
  <2> QED BY <2>1, <2>2, CostsAreTyped, <1>a
<1>17. CASE LookToRecord(p) BY <1>17, <1>c, <1>g, <1>m DEF LookToRecord
<1>18. CASE SeedRecord(p) BY <1>18, <1>0, <1>c, <1>w, <1>u DEF SeedRecord
<1>19. CASE SetRecord(p) BY <1>19, <1>c, <1>g, <1>m DEF SetRecord
<1>20. CASE RecordTokens(p)
  BY <1>20, <1>c, <1>g, <1>m DEF RecordTokens, RecordAfter, RecordUsage
<1>21. CASE InsertRow(p)
  <2>1. NewReq BY <1>21, <1>c, <1>g DEF InsertRow, RecordAfter, RecordUsage
  <2>2. ledger' \in [answers : [Days -> Nat], tokens : Nat]
    <3>1. req[p].cost \in Costs \cup {0} BY <1>0 DEF ReqRecords
    <3>2. req[p].cost \in Nat
      <4>1. 0 \in Nat OBVIOUS
      <4> QED BY <4>1, <3>1, SomeCost, Zenon
    <3>3. ledger \in [answers : [Days -> Nat], tokens : Nat] BY DEF TypeOK
    <3>4. [ledger.answers EXCEPT ![today] = @ + 1] \in [Days -> Nat]
      BY <3>3, <1>0
    <3>5. ledger.tokens + req[p].cost \in Nat
      BY <3>2, <1>0
    <3>6. ledger' = [answers |-> [ledger.answers EXCEPT ![today] = @ + 1],
                     tokens |-> ledger.tokens + req[p].cost]
      BY <1>21, <1>0, <3>3 DEF InsertRow
    <3> QED BY <3>4, <3>5, <3>6
  <2> QED BY <1>21, <2>1, <2>2 DEF InsertRow, TypeOK, ReqRecords
<1>22. CASE LookToRelease(p)
  <2>1. NewReq BY <1>22, <1>0, <1>c, <1>g, <1>o DEF LookToRelease
  <2>2. tally' \in Tallies
    <3>1. tally \in Tallies BY DEF TypeOK, Tallies
    <3>2. [tally EXCEPT !.strayed = @ \/ today # req[p].day] \in Tallies
      BY <3>1 DEF Tallies
    <3> QED BY <3>1, <3>2, <1>22 DEF LookToRelease
  <2> QED BY <1>22, <2>1, <2>2 DEF LookToRelease, TypeOK, ReqRecords, Tallies
<1>23. CASE Release(p) BY <1>23, <1>c, <1>g, <1>m DEF Release
<1>24. CASE CallRaises(p)
  <2>1. req[p].at \in Calls \ {"generate"}
    BY <1>24 DEF CallRaises, At, RedisCalls, Calls, WidgetCalls, ReserveCalls, ReleaseCalls,
                 BudgetCalls, RecordCalls, LedgerCalls, ProviderCalls
  <2>2. NewReq BY <1>24, <2>1, ErrorsLeadSomewhere, <1>g DEF CallRaises
  <2>3. redis' \in {redis, Sent(p)} BY <1>24 DEF CallRaises
  <2>4. \E kind \in FaultKinds : Fails(kind) BY <1>24 DEF CallRaises, FaultKinds
  <2>5. UNCHANGED <<ledger, today, tally, asked>> BY <1>24 DEF CallRaises
  <2> QED BY <2>2, <2>3, <2>4, <2>5, FailuresAreTyped, CommandsAreTyped
<1>25. CASE Crash(p)
  <2>1. NewReq BY <1>25, <1>c, <1>g DEF Crash
  <2>2. redis' \in {redis, Sent(p)} /\ UNCHANGED <<ledger, today, tally, asked>>
    BY <1>25 DEF Crash
  <2>3. failures' \in Failures BY <1>25, FailuresAreTyped DEF Crash, FaultKinds
  <2> QED BY <2>1, <2>2, <2>3, CommandsAreTyped
<1> QED
  BY <1>1, <1>2, <1>3, <1>4, <1>5, <1>6, <1>7, <1>8, <1>9, <1>10, <1>11, <1>12, <1>13, <1>14,
     <1>15, <1>16, <1>17, <1>18, <1>19, <1>20, <1>21, <1>22, <1>23, <1>24, <1>25 DEF Step

LEMMA TypeIsKept ==
    ASSUME TypeOK, [Next]_vars
    PROVE  TypeOK'
<1>1. ASSUME NEW p \in Requests, Step(p) PROVE TypeOK'
  BY <1>1, StepKeepsType
<1>2. CASE RestartRedis
  <2>1. failures' \in Failures
    BY <1>2, FailuresAreTyped DEF RestartRedis, FaultKinds
  <2>2. DOMAIN redis' = {} BY <1>2 DEF RestartRedis
  <2>3. UNCHANGED <<ledger, today, req, tally, asked>> BY <1>2 DEF RestartRedis
  <2> QED BY <2>1, <2>2, <2>3 DEF TypeOK, Failures
<1>3. CASE Midnight
  <2>1. LastDay \in Nat BY QuotaAssumption
  <2>2. today \in 1..LastDay BY DEF TypeOK, Days
  <2>3. today' \in Days BY <1>3, <2>1, <2>2 DEF Midnight, Days
  <2>4. UNCHANGED <<redis, ledger, req, tally, asked, failures>> BY <1>3 DEF Midnight
  <2> QED BY <2>3, <2>4 DEF TypeOK
<1>4. CASE UNCHANGED vars
  BY <1>4 DEF vars, TypeOK
<1> QED BY <1>1, <1>2, <1>3, <1>4 DEF Next

(* Every variable has its type, for any requests, limits, costs and faults. *)
THEOREM TypeCorrect == Spec => []TypeOK
<1>1. Init => TypeOK
  BY QuotaAssumption DEF Init, TypeOK, Idle, Days, Keys, FaultKinds
<1>2. TypeOK /\ [Next]_vars => TypeOK'
  BY TypeIsKept
<1> QED BY <1>1, <1>2, PTL DEF Spec

-----------------------------------------------------------------------------
(* The debt. *)

Having(calls, r, d) == {p \in Requests : r[p].at \in calls /\ r[p].day = d}
One(calls, r, d) == IF r.at \in calls /\ r.day = d THEN 1 ELSE 0

(* p, and no other request, is now at call. *)
Moves(p, call) ==
    /\ req'[p].at = call
    /\ \A q \in Requests \ {p} : req'[q] = req[q]
KeepsDay(p) == req'[p].day = req[p].day

LEMMA FormsOfMoves ==
    ASSUME TypeOK, NEW p \in Requests, NEW call
    PROVE  /\ Goto(p, call) => Moves(p, call) /\ (call # "idle" => KeepsDay(p))
           /\ \A seed : GotoWith(p, call, seed) => Moves(p, call) /\ KeepsDay(p)
           /\ \A day : GotoOn(p, call, day) => Moves(p, call) /\ req'[p].day = day
           /\ \A cost : Record(cost) = call /\ RecordCost(p, cost) =>
                             Moves(p, call) /\ KeepsDay(p)
<1>1. req \in [Requests -> ReqRecords]
  BY DEF TypeOK, ReqRecords
<1>2. Goto(p, call) => Moves(p, call) /\ (call # "idle" => KeepsDay(p))
  BY <1>1 DEF Goto, Moves, KeepsDay, ReqRecords, Idle
<1>3. ASSUME NEW seed, GotoWith(p, call, seed) PROVE Moves(p, call) /\ KeepsDay(p)
  BY <1>1, <1>3 DEF GotoWith, Moves, KeepsDay, ReqRecords
<1>4. ASSUME NEW day, GotoOn(p, call, day) PROVE Moves(p, call) /\ req'[p].day = day
  BY <1>1, <1>4 DEF GotoOn, Moves, ReqRecords
<1>5. ASSUME NEW cost, Record(cost) = call, RecordCost(p, cost)
      PROVE  Moves(p, call) /\ KeepsDay(p)
  BY <1>1, <1>5 DEF RecordCost, Moves, KeepsDay, ReqRecords
<1> QED BY <1>2, <1>3, <1>4, <1>5

LEMMA CountOfMove ==
    ASSUME IsFiniteSet(Requests), NEW calls, NEW d, NEW p \in Requests, NEW call,
           Moves(p, call)
    PROVE  /\ Cardinality(Having(calls, req, d)) \in Nat
           /\ Cardinality(Having(calls, req', d)) =
                  Cardinality(Having(calls, req, d)) + One(calls, req'[p], d)
                      - One(calls, req[p], d)
<1> DEFINE S == Having(calls, req, d)
           T == Having(calls, req', d)
           Was == req[p].at \in calls /\ req[p].day = d
           Is == req'[p].at \in calls /\ req'[p].day = d
<1>1. IsFiniteSet(S) /\ IsFiniteSet(T)
  BY FS_Subset DEF Having
<1>2. Cardinality(S) \in Nat
  BY <1>1, FS_CardinalityType
<1>3. p \in S <=> Was
  BY DEF Having
<1>4. CASE Is
  <2>1. T = S \cup {p} BY <1>4 DEF Having, Moves
  <2>2. Cardinality(S \cup {p}) = IF p \in S THEN Cardinality(S) ELSE Cardinality(S) + 1
    BY <1>1, FS_AddElement
  <2>3. One(calls, req'[p], d) = 1 /\ One(calls, req[p], d) = IF Was THEN 1 ELSE 0
    BY <1>4 DEF One
  <2> HIDE DEF S, T, Was, Is
  <2>4. Cardinality(T) = Cardinality(S) + One(calls, req'[p], d) - One(calls, req[p], d)
    BY <1>2, <1>3, <2>1, <2>2, <2>3
  <2> QED BY <1>2, <2>4 DEF S, T
<1>5. CASE ~Is
  <2>1. T = S \ {p} BY <1>5 DEF Having, Moves
  <2>2. Cardinality(S \ {p}) = IF p \in S THEN Cardinality(S) - 1 ELSE Cardinality(S)
    BY <1>1, FS_RemoveElement
  <2>3. One(calls, req'[p], d) = 0 /\ One(calls, req[p], d) = IF Was THEN 1 ELSE 0
    BY <1>5 DEF One
  <2> HIDE DEF S, T, Was, Is
  <2>4. Cardinality(T) = Cardinality(S) + One(calls, req'[p], d) - One(calls, req[p], d)
    BY <1>2, <1>3, <2>1, <2>2, <2>3
  <2> QED BY <1>2, <2>4 DEF S, T
<1> QED BY <1>4, <1>5

(* The numbers the invariant compares, on one day. *)
LEMMA DayIsTyped ==
    ASSUME TypeOK, NEW d \in Days
    PROVE  /\ Holders(d) = Having(Holds, req, d) /\ Debtors(d) = Having(Owes, req, d)
           /\ tally.reached[d] \in Nat /\ Count(DayKey(d)) \in Int
BY DEF TypeOK, Holders, Debtors, Having, Count, Exists

(* What a command does to a day's counter: only an increment raises it, only *)
(* what is handed back lowers it, and a seed never does.                     *)
LEMMA CountAfterSent ==
    ASSUME TypeOK, NEW d \in Days, NEW p \in Requests, redis' = Sent(p)
    PROVE  LET Today == req[p].day = d
               Back == {"giveBack", "releaseDecr"}
           IN  /\ At(p, "dayIncr") /\ Today => Count(DayKey(d))' = Count(DayKey(d)) + 1
               /\ req[p].at \in Back /\ Today => Count(DayKey(d))' = Count(DayKey(d)) - 1
               /\ ~(req[p].at \in Back /\ Today) => Count(DayKey(d))' >= Count(DayKey(d))
<1> DEFINE D == DayKey(d)
           E == DayKey(req[p].day)
<1>1. Count(D) \in Int
  BY DayIsTyped
<1>2. req[p].seed \in Nat /\ req[p].cost \in Nat
  <2>1. req[p].seed \in Nat /\ req[p].cost \in Costs \cup {0}
    BY DEF TypeOK
  <2>2. 0 \in Nat OBVIOUS
  <2> QED BY <2>1, <2>2, SomeCost, Zenon
<1>3. D # MonthKey /\ \A day : D # WidgetKey(day)
  BY DEF DayKey, MonthKey, WidgetKey
<1>4. E = D <=> req[p].day = d
  BY DEF DayKey
<1>5. ASSUME NEW k, NEW n, redis' = With(k, n)
      PROVE  Count(D)' = IF k = D THEN n ELSE Count(D)
  BY <1>5 DEF With, Count, Exists, DayKey
<1>6. ASSUME NEW k, NEW n, redis' = Plus(k, n)
      PROVE  Count(D)' = IF k = D THEN Count(D) + n ELSE Count(D)
  <2>1. redis' = With(k, Count(k) + n) BY <1>6 DEF Plus
  <2> QED BY <2>1, <1>5
<1>7. ASSUME NEW k, NEW n, redis' = SetNX(k, n)
      PROVE  Count(D)' = IF k = D /\ ~Exists(D) THEN n ELSE Count(D)
  <2>1. CASE Exists(k)
    <3>1. redis' = redis BY <1>7, <2>1 DEF SetNX
    <3>2. Count(D)' = Count(D) BY <3>1 DEF Count, Exists, DayKey
    <3> QED BY <2>1, <3>2
  <2>2. CASE ~Exists(k)
    <3>1. redis' = With(k, n) BY <1>7, <2>2 DEF SetNX
    <3> QED BY <2>2, <3>1, <1>5
  <2> QED BY <2>1, <2>2
<1> HIDE DEF D, E
<1>8. CASE At(p, "dayIncr")
  <2>1. redis' = Plus(E, 1) BY <1>8 DEF Sent, At, E
  <2>2. Count(D)' = IF E = D THEN Count(D) + 1 ELSE Count(D) BY <2>1, <1>6
  <2> QED BY <1>1, <1>4, <1>8, <2>2 DEF At, D
<1>9. CASE req[p].at \in {"giveBack", "releaseDecr"}
  <2>1. redis' = Plus(E, -1) BY <1>9 DEF Sent, At, E
  <2>2. Count(D)' = IF E = D THEN Count(D) + (-1) ELSE Count(D) BY <2>1, <1>6
  <2> QED BY <1>1, <1>4, <1>9, <2>2 DEF At, D
<1>10. CASE At(p, "daySet")
  <2>1. redis' = SetNX(E, req[p].seed) BY <1>10 DEF Sent, At, E
  <2>2. Count(D)' = IF E = D /\ ~Exists(D) THEN req[p].seed ELSE Count(D) BY <2>1, <1>7
  <2>3. ~Exists(D) => Count(D) = 0 BY DEF Count
  <2> QED BY <1>1, <1>2, <1>10, <2>2, <2>3 DEF At, D
<1>11. CASE req[p].at \notin {"dayIncr", "giveBack", "releaseDecr", "daySet"}
  <2>1. \/ \E n : \/ \E day : redis' = Plus(WidgetKey(day), n)
                  \/ redis' = Plus(MonthKey, n) \/ redis' = SetNX(MonthKey, n)
        \/ redis' = redis
    BY <1>11 DEF Sent, At
  <2>2. Count(D)' = Count(D)
    <3>1. CASE redis' = redis BY <3>1 DEF Count, Exists, D, DayKey
    <3>2. ASSUME NEW n, NEW day, redis' = Plus(WidgetKey(day), n) PROVE Count(D)' = Count(D)
      BY <3>2, <1>3, <1>6
    <3>3. ASSUME NEW n, redis' = Plus(MonthKey, n) PROVE Count(D)' = Count(D)
      BY <3>3, <1>3, <1>6
    <3>4. ASSUME NEW n, redis' = SetNX(MonthKey, n) PROVE Count(D)' = Count(D)
      BY <3>4, <1>3, <1>7
    <3> QED BY <2>1, <3>1, <3>2, <3>3, <3>4
  <2> QED BY <1>1, <1>11, <2>2 DEF At, D
<1> QED BY <1>8, <1>9, <1>10, <1>11 DEF At, D

(* The invariant, on one day. *)
Solvent(d) == Debt(d) <= Count(DayKey(d)) /\ Taken(d) <= DayLimit

(* A step keeps a day solvent if the counter pays for it: for what it adds   *)
(* to the questions that reached a provider and to those that owe.           *)
LEMMA Balance ==
    ASSUME IsFiniteSet(Requests), TypeOK, TypeOK', NEW d \in Days, Solvent(d),
           NEW p \in Requests, NEW call, Moves(p, call),
           NEW r \in Nat, tally'.reached[d] = tally.reached[d] + r,
           Count(DayKey(d))' >= Count(DayKey(d)) + r + One(Owes, req'[p], d)
                                    - One(Owes, req[p], d),
           \/ Count(DayKey(d))' <= DayLimit
           \/ r + One(Holds, req'[p], d) <= One(Holds, req[p], d)
    PROVE  Solvent(d)'
<1> DEFINE held == Cardinality(Having(Holds, req, d))
           owed == Cardinality(Having(Owes, req, d))
           heldNow == Cardinality(Having(Holds, req', d))
           owedNow == Cardinality(Having(Owes, req', d))
           count == Count(DayKey(d))
           countNow == Count(DayKey(d))'
           reached == tally.reached[d]
           reachedNow == tally'.reached[d]
           holdsNow == One(Holds, req'[p], d)
           holdsThen == One(Holds, req[p], d)
           owesNow == One(Owes, req'[p], d)
           owesThen == One(Owes, req[p], d)
<1>1. /\ reached \in Nat /\ count \in Int
      /\ reached + owed <= count /\ reached + held <= DayLimit
  BY DayIsTyped DEF Solvent, Debt, Taken
<1>2. /\ reachedNow \in Nat /\ countNow \in Int
      /\ Holders(d)' = Having(Holds, req', d) /\ Debtors(d)' = Having(Owes, req', d)
  <2>1. Holders(d)' = Having(Holds, req', d) /\ Debtors(d)' = Having(Owes, req', d)
    BY DEF Holders, Debtors, Having
  <2>2. reachedNow \in Nat BY DEF TypeOK, Days
  <2>3. countNow \in Int BY DEF TypeOK, Count, Exists, DayKey
  <2> QED BY <2>1, <2>2, <2>3
<1>3. /\ held \in Nat /\ heldNow = held + holdsNow - holdsThen
      /\ owed \in Nat /\ owedNow = owed + owesNow - owesThen
  BY CountOfMove
<1>4. heldNow <= owedNow
  <2>1. Having(Holds, req', d) \subseteq Having(Owes, req', d) BY DEF Having, Owes
  <2>2. IsFiniteSet(Having(Owes, req', d)) BY FS_Subset DEF Having
  <2> QED BY <2>1, <2>2, FS_Subset
<1>5. {holdsNow, holdsThen, owesNow, owesThen} \subseteq {0, 1}
  BY DEF One
<1>6. reachedNow = reached + r /\ countNow >= count + r + owesNow - owesThen
      /\ (countNow <= DayLimit \/ r + holdsNow <= holdsThen)
  OBVIOUS
<1>7. DayLimit \in Nat
  BY QuotaAssumption
<1> HIDE DEF held, owed, heldNow, owedNow, count, countNow, reached, reachedNow, holdsNow,
             holdsThen, owesNow, owesThen
<1>8. reachedNow + owedNow <= countNow
  BY <1>1, <1>2, <1>3, <1>5, <1>6
<1>9. reachedNow + heldNow <= DayLimit
  <2>1. CASE countNow <= DayLimit
    BY <2>1, <1>1, <1>2, <1>3, <1>4, <1>5, <1>6, <1>7, <1>8
  <2>2. CASE r + holdsNow <= holdsThen
    BY <2>2, <1>1, <1>2, <1>3, <1>5, <1>6, <1>7
  <2> QED BY <2>1, <2>2, <1>6
<1> QED
  BY <1>2, <1>8, <1>9 DEF Solvent, Debt, Taken, heldNow, owedNow, countNow, reachedNow

(* Every step but a reservation and an answer: it takes on no debt, and      *)
(* lowers the counter only as it pays one.                                  *)
LEMMA NothingTaken ==
    ASSUME IsFiniteSet(Requests), TypeOK, TypeOK', NEW d \in Days, Solvent(d),
           NEW p \in Requests, NEW call, Moves(p, call),
           redis' \in {redis, Sent(p)}, tally'.reached = tally.reached,
           call \in Owes => req[p].at \in Owes /\ KeepsDay(p),
           call \in Holds => req[p].at \in Holds,
           req[p].at \in {"giveBack", "releaseDecr"} => call \notin Owes
    PROVE  Solvent(d)'
<1>1. Count(DayKey(d)) \in Int /\ tally.reached[d] \in Nat
  BY DayIsTyped
<1>2. Count(DayKey(d))' >= Count(DayKey(d)) + One(Owes, req'[p], d) - One(Owes, req[p], d)
  <2>1. /\ One(Owes, req'[p], d) \in {0, 1} /\ One(Owes, req[p], d) \in {0, 1}
        /\ One(Owes, req'[p], d) = 1 => One(Owes, req[p], d) = 1
    BY DEF One, Moves, KeepsDay
  <2>2. CASE redis' = redis
    <3>1. Count(DayKey(d))' = Count(DayKey(d)) BY <2>2 DEF Count, Exists, DayKey
    <3> QED BY <3>1, <2>1, <1>1
  <2>3. CASE redis' = Sent(p) /\ req[p].at \in {"giveBack", "releaseDecr"} /\ req[p].day = d
    <3>1. Count(DayKey(d))' = Count(DayKey(d)) - 1 BY <2>3, CountAfterSent
    <3>2. One(Owes, req'[p], d) = 0 /\ One(Owes, req[p], d) = 1
      BY <2>3 DEF One, Owes, Moves
    <3> QED BY <3>1, <3>2, <1>1
  <2>4. CASE redis' = Sent(p) /\ ~(req[p].at \in {"giveBack", "releaseDecr"} /\ req[p].day = d)
    <3>1. Count(DayKey(d))' >= Count(DayKey(d)) BY <2>4, CountAfterSent
    <3>2. Count(DayKey(d))' \in Int
      BY DEF TypeOK, Count, Exists, DayKey
    <3> QED BY <3>1, <3>2, <2>1, <1>1
  <2> QED BY <2>2, <2>3, <2>4
<1>3. Holds \subseteq Owes
  BY DEF Owes
<1>4. 0 + One(Holds, req'[p], d) <= One(Holds, req[p], d)
  BY <1>3 DEF One, Moves, KeepsDay
<1>5. /\ tally'.reached[d] = tally.reached[d] + 0
      /\ Count(DayKey(d))' >= Count(DayKey(d)) + 0 + One(Owes, req'[p], d)
                                   - One(Owes, req[p], d)
  BY <1>1, <1>2
<1>6. 0 \in Nat OBVIOUS
<1> QED BY <1>4, <1>5, <1>6, Balance

LEMMA ReservationKeeps ==
    ASSUME IsFiniteSet(Requests), TypeOK, TypeOK', NEW d \in Days, Solvent(d),
           NEW p \in Requests, ConsumeMessage(p)
    PROVE  Solvent(d)'
<1> DEFINE call == IF Admitted(p) THEN "monthExists" ELSE "giveBack"
<1>1. Count(DayKey(d)) \in Int /\ tally.reached[d] \in Nat
  BY DayIsTyped
<1>2. At(p, "dayIncr") /\ redis' = Sent(p) /\ tally' = tally
  BY DEF ConsumeMessage, Command
<1>3. Moves(p, call) /\ KeepsDay(p)
  BY FormsOfMoves DEF ConsumeMessage
<1>4. One(Owes, req[p], d) = 0 /\ One(Holds, req[p], d) = 0
  BY <1>2 DEF At, One, Owes, Holds, BudgetCalls
<1>5. tally'.reached[d] = tally.reached[d] + 0 /\ 0 \in Nat
  BY <1>1, <1>2
<1>6. CASE req[p].day # d
  <2>1. One(Owes, req'[p], d) = 0 /\ One(Holds, req'[p], d) = 0
    BY <1>3, <1>6 DEF One, KeepsDay
  <2>2. Count(DayKey(d))' >= Count(DayKey(d))
    BY <1>2, <1>6, CountAfterSent DEF At
  <2>3. Count(DayKey(d))' \in Int
    BY DEF TypeOK, Count, Exists, DayKey
  <2>4. /\ 0 + One(Holds, req'[p], d) <= One(Holds, req[p], d)
        /\ Count(DayKey(d))' >= Count(DayKey(d)) + 0 + One(Owes, req'[p], d)
                                     - One(Owes, req[p], d)
    BY <1>1, <1>4, <2>1, <2>2, <2>3
  <2> QED BY <1>3, <1>5, <2>4, Balance
<1>7. CASE req[p].day = d /\ Admitted(p)
  <2>1. Count(DayKey(d))' = Count(DayKey(d)) + 1
    BY <1>2, <1>7, CountAfterSent
  <2>2. Count(DayKey(d))' <= DayLimit
    <3>1. Sent(p) = Plus(DayKey(d), 1)
      BY <1>2, <1>7 DEF Sent, At
    <3>2. Count(DayKey(d))' = Sent(p)[DayKey(d)]
      BY <1>2, <3>1 DEF Count, Exists, DayKey, Plus, With
    <3> QED BY <3>2, <1>7 DEF Admitted
  <2>3. One(Owes, req'[p], d) = 1
    BY <1>3, <1>7 DEF Moves, KeepsDay, One, Owes, Holds, BudgetCalls
  <2>4. Count(DayKey(d))' >= Count(DayKey(d)) + 0 + One(Owes, req'[p], d)
                                 - One(Owes, req[p], d)
    BY <1>1, <1>4, <2>1, <2>3
  <2> QED BY <1>3, <1>5, <2>2, <2>4, Balance
<1>8. CASE req[p].day = d /\ ~Admitted(p)
  <2>1. Count(DayKey(d))' = Count(DayKey(d)) + 1
    BY <1>2, <1>8, CountAfterSent
  <2>2. One(Owes, req'[p], d) = 1 /\ One(Holds, req'[p], d) = 0
    BY <1>3, <1>8 DEF Moves, KeepsDay, One, Owes, Holds, BudgetCalls
  <2>3. /\ 0 + One(Holds, req'[p], d) <= One(Holds, req[p], d)
        /\ Count(DayKey(d))' >= Count(DayKey(d)) + 0 + One(Owes, req'[p], d)
                                     - One(Owes, req[p], d)
    BY <1>1, <1>4, <2>1, <2>2
  <2> QED BY <1>3, <1>5, <2>3, Balance
<1> QED BY <1>6, <1>7, <1>8

(* A question that reaches a provider stops owing: the count is its own. *)
LEMMA AnswerKeeps ==
    ASSUME IsFiniteSet(Requests), TypeOK, TypeOK', NEW d \in Days, Solvent(d),
           NEW p \in Requests, At(p, "retrieve"),
           NEW call \in {"generate", "recordExists", "ledgerInsert"}, Moves(p, call),
           NEW cost \in Nat, Answered(p, 1, cost)
    PROVE  Solvent(d)'
<1> DEFINE r == IF req[p].day = d THEN 1 ELSE 0
<1>1. Count(DayKey(d)) \in Int /\ tally.reached[d] \in Nat
  BY DayIsTyped
<1>2. tally'.reached[d] = tally.reached[d] + r
  <2>1. 1 \in Nat OBVIOUS
  <2>2. tally'.reached = [tally.reached EXCEPT ![req[p].day] = @ + 1]
    BY <2>1, TalliesAreTyped
  <2>3. tally.reached \in [Days -> Nat] BY DEF TypeOK
  <2> QED BY <2>2, <2>3, <1>1
<1>3. Count(DayKey(d))' = Count(DayKey(d))
  BY DEF Answered, Count, Exists, DayKey
<1>4. /\ One(Owes, req[p], d) = r /\ One(Holds, req[p], d) = r
      /\ One(Owes, req'[p], d) = 0 /\ One(Holds, req'[p], d) = 0
  BY DEF At, Moves, One, Owes, Holds, BudgetCalls
<1>5. /\ r \in Nat /\ r + One(Holds, req'[p], d) <= One(Holds, req[p], d)
      /\ Count(DayKey(d))' >= Count(DayKey(d)) + r + One(Owes, req'[p], d)
                                   - One(Owes, req[p], d)
  BY <1>1, <1>3, <1>4
<1> HIDE DEF r
<1> QED BY <1>2, <1>5, Balance

(* A step disturbs or does not; what came before it was undisturbed. *)
LEMMA DisturbanceStays ==
    ASSUME TypeOK, Next, Undisturbed'
    PROVE  Undisturbed
<1>1. failures.kinds \subseteq failures'.kinds
  <2>1. \/ failures' = failures
        \/ \E kind \in FaultKinds : Fails(kind)
    BY DEF Next, Step, Ask, ConsumeWidget, GiveBackWidget, LookForDay, SeedDay, SetDay,
           ConsumeMessage, GiveBack, LookForMonth, SeedMonth, SetMonth, ReadMonth, NoSources,
           Ground, Generate, StreamFails, LookToRecord, SeedRecord, SetRecord, RecordTokens,
           InsertRow, LookToRelease, Release, CallRaises, Crash, RestartRedis, Midnight,
           Command, Unledgered, FaultKinds
  <2> QED BY <2>1, FailuresAreTyped
<1>2. tally.strayed => tally'.strayed
  <2>0. tally \in Tallies BY DEF TypeOK, Tallies
  <2>1. \/ tally' = tally
        \/ \E p \in Requests : \/ ConsumeWidget(p) \/ LookToRelease(p)
                               \/ \E i \in {0, 1}, c \in Costs \cup {0} : Answered(p, i, c)
    BY DEF Next, Step, Ask, GiveBackWidget, LookForDay, SeedDay, SetDay,
           ConsumeMessage, GiveBack, LookForMonth, SeedMonth, SetMonth, ReadMonth, NoSources,
           Ground, Generate, StreamFails, LookToRecord, SeedRecord, SetRecord, RecordTokens,
           InsertRow, Release, CallRaises, Crash, RestartRedis, Midnight,
           Command, Unledgered
  <2>2. ASSUME NEW p \in Requests, ConsumeWidget(p) PROVE tally'.strayed = tally.strayed
    BY <2>2, <2>0 DEF ConsumeWidget, Tallies
  <2>3. ASSUME NEW p \in Requests, LookToRelease(p) PROVE tally.strayed => tally'.strayed
    BY <2>3, <2>0 DEF LookToRelease, Tallies
  <2>4. ASSUME NEW p \in Requests, NEW i \in {0, 1}, NEW c \in Costs \cup {0}, Answered(p, i, c)
        PROVE  tally'.strayed = tally.strayed
    BY <2>4, <2>0 DEF Answered, Tallies
  <2> QED BY <2>1, <2>2, <2>3, <2>4
<1> QED BY <1>1, <1>2 DEF Undisturbed, KeysKept, OnlyFailed

LEMMA StepKeepsSolvent ==
    ASSUME IsFiniteSet(Requests), TypeOK, TypeOK', NEW d \in Days, Solvent(d),
           NEW p \in Requests, Step(p), Undisturbed'
    PROVE  Solvent(d)'
<1>d. /\ Holds = {"monthExists", "monthSeed", "monthSet", "monthGet", "retrieve"}
      /\ Owes = {"monthExists", "monthSeed", "monthSet", "monthGet", "retrieve", "giveBack",
                 "releaseExists", "releaseDecr"}
  BY DEF Holds, Owes, BudgetCalls
<1>n. ASSUME NEW call, Moves(p, call), redis' \in {redis, Sent(p)},
             tally'.reached = tally.reached,
             call \in Owes => req[p].at \in Owes /\ KeepsDay(p),
             call \in Holds => req[p].at \in Holds,
             req[p].at \in {"giveBack", "releaseDecr"} => call \notin Owes
      PROVE  Solvent(d)'
  BY <1>n, NothingTaken
<1>c. ASSUME NEW call, Command(p), Moves(p, call),
             call \in Owes => req[p].at \in Owes /\ KeepsDay(p),
             call \in Holds => req[p].at \in Holds,
             req[p].at \in {"giveBack", "releaseDecr"} => call \notin Owes
      PROVE  Solvent(d)'
  BY <1>c, <1>n DEF Command
<1>1. CASE Ask(p)
  <2>1. PICK first \in {"widgetIncr", "dayExists"} : Goto(p, first) BY <1>1 DEF Ask
  <2>2. Moves(p, first) BY <2>1, FormsOfMoves
  <2> QED BY <1>1, <2>2, <1>d, <1>n DEF Ask, At
<1>2. CASE ConsumeWidget(p)
  <2>1. PICK call \in {"dayExists", "widgetGiveBack"} : GotoOn(p, call, today)
    BY <1>2 DEF ConsumeWidget
  <2>2. Moves(p, call) BY <2>1, FormsOfMoves
  <2>3. tally'.reached = tally.reached
    <3>1. tally \in Tallies BY DEF TypeOK, Tallies
    <3> QED BY <1>2, <3>1 DEF ConsumeWidget, Tallies
  <2> QED BY <1>2, <2>2, <2>3, <1>d, <1>n DEF ConsumeWidget, At
<1>3. CASE GiveBackWidget(p)
  BY <1>3, FormsOfMoves, <1>d, <1>c DEF GiveBackWidget, At
<1>4. CASE LookForDay(p)
  <2>1. PICK call \in {"dayIncr", "daySeed"} : GotoOn(p, call, today)
    BY <1>4 DEF LookForDay
  <2> QED BY <1>4, <2>1, FormsOfMoves, <1>d, <1>c DEF LookForDay, At
<1>5. CASE SeedDay(p)
  <2>1. Moves(p, "daySet") BY <1>5, FormsOfMoves DEF SeedDay
  <2> QED BY <1>5, <2>1, <1>d, <1>n DEF SeedDay, Unledgered, At
<1>6. CASE SetDay(p)
  BY <1>6, FormsOfMoves, <1>d, <1>c DEF SetDay, At
<1>7. CASE ConsumeMessage(p)
  BY <1>7, ReservationKeeps
<1>8. CASE GiveBack(p)
  BY <1>8, FormsOfMoves, <1>d, <1>c DEF GiveBack, At
<1>9. CASE LookForMonth(p)
  <2>1. PICK call \in {"monthGet", "monthSeed"} : Goto(p, call)
    BY <1>9 DEF LookForMonth
  <2>2. Moves(p, call) /\ KeepsDay(p) BY <2>1, FormsOfMoves
  <2> QED BY <1>9, <2>2, <1>d, <1>c DEF LookForMonth, At
<1>10. CASE SeedMonth(p)
  <2>1. Moves(p, "monthSet") /\ KeepsDay(p) BY <1>10, FormsOfMoves DEF SeedMonth
  <2> QED BY <1>10, <2>1, <1>d, <1>n DEF SeedMonth, Unledgered, At
<1>11. CASE SetMonth(p)
  BY <1>11, FormsOfMoves, <1>d, <1>c DEF SetMonth, At
<1>12. CASE ReadMonth(p)
  <2>1. PICK call \in {"releaseExists", "retrieve"} : Goto(p, call)
    BY <1>12 DEF ReadMonth
  <2>2. Moves(p, call) /\ KeepsDay(p) BY <2>1, FormsOfMoves
  <2> QED BY <1>12, <2>2, <1>d, <1>c DEF ReadMonth, At
<1>r. \A cost : Record(cost) \in {"recordExists", "ledgerInsert"}
  BY DEF Record, RecordUsage
<1>13. CASE NoSources(p)
  <2>1. PICK cost \in Costs : RecordCost(p, cost) /\ Answered(p, 1, cost)
    BY <1>13 DEF NoSources
  <2>2. Moves(p, Record(cost)) BY <2>1, FormsOfMoves
  <2>3. cost \in Nat BY SomeCost
  <2> QED BY <1>13, <2>1, <2>2, <2>3, <1>r, AnswerKeeps DEF NoSources
<1>14. CASE Ground(p)
  <2>1. Moves(p, "generate") BY <1>14, FormsOfMoves DEF Ground
  <2>2. 0 \in Nat OBVIOUS
  <2> QED BY <1>14, <2>1, <2>2, AnswerKeeps DEF Ground
<1>s. ASSUME NEW cost \in Costs, At(p, "generate"), RecordCost(p, cost), Answered(p, 0, cost)
      PROVE  Solvent(d)'
  <2>1. Moves(p, Record(cost)) BY <1>s, FormsOfMoves
  <2>2. tally'.reached = tally.reached
    <3>1. cost \in Nat /\ 0 \in Nat BY SomeCost
    <3>2. tally'.reached = [tally.reached EXCEPT ![req[p].day] = @ + 0]
      BY <1>s, <3>1, TalliesAreTyped
    <3>3. tally.reached \in [Days -> Nat] /\ req[p].day \in Days BY DEF TypeOK
    <3>4. tally.reached[req[p].day] + 0 = tally.reached[req[p].day] BY <3>3
    <3> QED BY <3>2, <3>3, <3>4
  <2> QED BY <1>s, <2>1, <2>2, <1>r, <1>d, <1>n DEF Answered, At
<1>15. CASE Generate(p)
  BY <1>15, <1>s DEF Generate
<1>16. CASE StreamFails(p)
  BY <1>16, <1>s DEF StreamFails
<1>17. CASE LookToRecord(p)
  <2>1. PICK call \in {"recordIncr", "recordSeed"} : Goto(p, call)
    BY <1>17 DEF LookToRecord
  <2> QED BY <1>17, <2>1, FormsOfMoves, <1>d, <1>c DEF LookToRecord, At
<1>18. CASE SeedRecord(p)
  <2>1. Moves(p, "recordSet") BY <1>18, FormsOfMoves DEF SeedRecord
  <2> QED BY <1>18, <2>1, <1>d, <1>n DEF SeedRecord, Unledgered, At
<1>19. CASE SetRecord(p)
  BY <1>19, FormsOfMoves, <1>d, <1>c DEF SetRecord, At
<1>20. CASE RecordTokens(p)
  <2>1. Moves(p, "ledgerInsert")
    BY <1>20, FormsOfMoves DEF RecordTokens, RecordAfter, RecordUsage
  <2> QED BY <1>20, <2>1, <1>d, <1>c DEF RecordTokens, At
<1>21. CASE InsertRow(p)
  <2>1. Moves(p, "idle")
    BY <1>21, FormsOfMoves DEF InsertRow, RecordAfter, RecordUsage
  <2> QED BY <1>21, <2>1, <1>d, <1>n DEF InsertRow, At
<1>22. CASE LookToRelease(p)
  <2>0. tally \in Tallies BY DEF TypeOK, Tallies
  <2>1. tally'.reached = tally.reached BY <1>22, <2>0 DEF LookToRelease, Tallies
  <2>2. CASE Exists(DayKey(today))
    <3>1. Moves(p, "releaseDecr") /\ req'[p].day = today
      BY <1>22, <2>2, FormsOfMoves DEF LookToRelease
    <3>2. tally' = [tally EXCEPT !.strayed = @ \/ today # req[p].day]
      BY <1>22, <2>2 DEF LookToRelease
    <3>3. tally'.strayed = (tally.strayed \/ today # req[p].day)
      BY <3>2, <2>0 DEF Tallies
    <3>4. KeepsDay(p) BY <3>1, <3>3 DEF KeepsDay, Undisturbed
    <3> QED BY <1>22, <3>1, <3>4, <2>1, <1>d, <1>n DEF LookToRelease, At
  <2>3. CASE ~Exists(DayKey(today))
    <3>1. Moves(p, "idle") BY <1>22, <2>3, FormsOfMoves DEF LookToRelease
    <3> QED BY <1>22, <3>1, <2>1, <1>d, <1>n DEF LookToRelease, At
  <2> QED BY <2>2, <2>3
<1>23. CASE Release(p)
  BY <1>23, FormsOfMoves, <1>d, <1>c DEF Release, At
<1>24. CASE CallRaises(p)
  <2>1. Moves(p, AfterError(req[p].at)) BY <1>24, FormsOfMoves DEF CallRaises
  <2>2. redis' \in {redis, Sent(p)} /\ tally' = tally BY <1>24 DEF CallRaises
  <2>3. req[p].at \in Calls \ {"generate"}
    BY <1>24 DEF CallRaises, At, RedisCalls, Calls, WidgetCalls, ReserveCalls, ReleaseCalls,
                 BudgetCalls, RecordCalls, LedgerCalls, ProviderCalls
  <2>4. \/ AfterError(req[p].at) \in {"idle", "ledgerInsert"}
        \/ AfterError(req[p].at) = "releaseExists" /\ req[p].at \in Holds
    BY <2>3 DEF AfterError, Calls, WidgetCalls, ReserveCalls, ReleaseCalls, BudgetCalls,
                RecordCalls, LedgerCalls, ProviderCalls, Holds
  <2>5. AfterError(req[p].at) # "idle" => KeepsDay(p) BY <1>24, FormsOfMoves DEF CallRaises
  <2> QED BY <2>1, <2>2, <2>4, <2>5, <1>d, <1>n
<1>25. CASE Crash(p)
  <2>1. Moves(p, "idle") BY <1>25, FormsOfMoves DEF Crash
  <2> QED BY <1>25, <2>1, <1>d, <1>n DEF Crash
<1> QED
  BY <1>1, <1>2, <1>3, <1>4, <1>5, <1>6, <1>7, <1>8, <1>9, <1>10, <1>11, <1>12, <1>13, <1>14,
     <1>15, <1>16, <1>17, <1>18, <1>19, <1>20, <1>21, <1>22, <1>23, <1>24, <1>25 DEF Step

LEMMA DebtIsKept ==
    ASSUME IsFiniteSet(Requests)
    PROVE  Spec => []IInv
<1>1. Init => IInv
  <2> SUFFICES ASSUME Init PROVE IInv
    OBVIOUS
  <2>1. TypeOK BY QuotaAssumption DEF Init, TypeOK, Idle, Days, Keys, FaultKinds
  <2>2. ASSUME NEW d \in Days PROVE Solvent(d)
    <3>1. Holders(d) = {} /\ Debtors(d) = {}
      BY DEF Init, Idle, Holders, Debtors, Holds, Owes, BudgetCalls
    <3>2. Cardinality(Holders(d)) = 0 /\ Cardinality(Debtors(d)) = 0
      BY <3>1, FS_EmptySet
    <3>3. tally.reached[d] = 0 /\ Count(DayKey(d)) = 0
      BY DEF Init, Count, Exists
    <3> QED BY <3>2, <3>3, QuotaAssumption DEF Solvent, Debt, Taken
  <2> QED BY <2>1, <2>2 DEF IInv, Solvent, DebtIsCounted, WithinDailyLimit
<1>2. IInv /\ [Next]_vars => IInv'
  <2> SUFFICES ASSUME IInv, [Next]_vars PROVE IInv'
    OBVIOUS
  <2>1. TypeOK' BY TypeIsKept DEF IInv
  <2>2. ASSUME NEW d \in Days, Undisturbed' PROVE Solvent(d)'
    <3>1. CASE UNCHANGED vars
      <4>1. Undisturbed BY <2>2, <3>1 DEF vars, Undisturbed, KeysKept, OnlyFailed
      <4>2. Solvent(d)
        BY <4>1 DEF IInv, Solvent, DebtIsCounted, WithinDailyLimit, Undisturbed
      <4> QED
        BY <4>2, <3>1 DEF vars, Solvent, Debt, Taken, Holders, Debtors, Count, Exists, DayKey
    <3>2. CASE Next
      <4>1. Undisturbed BY <2>2, <3>2, DisturbanceStays DEF IInv
      <4>2. Solvent(d)
        BY <4>1 DEF IInv, Solvent, DebtIsCounted, WithinDailyLimit, Undisturbed
      <4>3. ASSUME NEW p \in Requests, Step(p) PROVE Solvent(d)'
        BY <4>2, <4>3, <2>1, <2>2, StepKeepsSolvent DEF IInv
      <4>4. ~RestartRedis
        <5> SUFFICES ASSUME RestartRedis PROVE FALSE
          OBVIOUS
        <5>1. "restart" \in failures'.kinds
          BY FailuresAreTyped DEF RestartRedis, FaultKinds, IInv
        <5> QED BY <5>1, <2>2 DEF Undisturbed, KeysKept, OnlyFailed, FaultKinds
      <4>5. CASE Midnight
        BY <4>2, <4>5 DEF Midnight, Solvent, Debt, Taken, Holders, Debtors, Count, Exists,
                          DayKey
      <4> QED BY <3>2, <4>3, <4>4, <4>5 DEF Next
    <3> QED BY <3>1, <3>2
  <2>3. DebtIsCounted' /\ WithinDailyLimit'
    BY <2>2 DEF Solvent, DebtIsCounted, WithinDailyLimit, Undisturbed, Days
  <2> QED BY <2>1, <2>3 DEF IInv
<1> QED BY <1>1, <1>2, PTL DEF Spec

(* While Redis keeps its keys and no release strays across midnight, no more *)
(* questions than the tenant's limit reach a provider on any day, however    *)
(* many are in progress, whichever calls fail or are half done, and whoever  *)
(* is killed.                                                               *)
THEOREM DailyLimitHolds ==
    ASSUME IsFiniteSet(Requests)
    PROVE  Spec => []WithinDailyLimit
<1>1. IInv => WithinDailyLimit
  BY DEF IInv
<1> QED BY <1>1, DebtIsKept, PTL

(* And why: the day's counter covers the questions that reached a provider   *)
(* and those that have yet to reach one, or to hand back what they took      *)
(* (consume_message, release_message).                                      *)
THEOREM DayCounterCoversDebt ==
    ASSUME IsFiniteSet(Requests)
    PROVE  Spec => []DebtIsCounted
<1>1. IInv => DebtIsCounted
  BY DEF IInv
<1> QED BY <1>1, DebtIsKept, PTL

-----------------------------------------------------------------------------
(* The widget's own counter.  It covers the questions it let in and those   *)
(* it has yet to give back.                                                 *)
LEMMA CountsChange ==
    ASSUME NEW D, NEW k, NEW n
    PROVE  /\ redis' = Plus(k, n) => Count(D)' = IF k = D THEN Count(D) + n ELSE Count(D)
           /\ redis' = SetNX(k, n) => Count(D)' = IF k = D /\ ~Exists(D) THEN n ELSE Count(D)
           /\ redis' = redis => Count(D)' = Count(D) /\ Exists(D)' = Exists(D)
<1>1. ASSUME NEW j, NEW m, redis' = With(j, m)
      PROVE  Count(D)' = IF j = D THEN m ELSE Count(D)
  BY <1>1 DEF With, Count, Exists
<1>2. redis' = Plus(k, n) => Count(D)' = IF k = D THEN Count(D) + n ELSE Count(D)
  <2> SUFFICES ASSUME redis' = Plus(k, n)
               PROVE  Count(D)' = IF k = D THEN Count(D) + n ELSE Count(D)
    OBVIOUS
  <2>1. redis' = With(k, Count(k) + n) BY DEF Plus
  <2> QED BY <2>1, <1>1
<1>3. redis' = redis => Count(D)' = Count(D) /\ Exists(D)' = Exists(D)
  BY DEF Count, Exists
<1>4. redis' = SetNX(k, n) => Count(D)' = IF k = D /\ ~Exists(D) THEN n ELSE Count(D)
  <2>1. CASE Exists(k)
    BY <2>1, <1>3 DEF SetNX
  <2>2. CASE ~Exists(k)
    BY <2>2, <1>1 DEF SetNX
  <2> QED BY <2>1, <2>2
<1> QED BY <1>2, <1>3, <1>4

LEMMA WidgetAfterSent ==
    ASSUME NEW d \in Days, NEW p \in Requests, redis' = Sent(p)
    PROVE  Count(WidgetKey(d))' =
               IF At(p, "widgetIncr") /\ today = d THEN Count(WidgetKey(d)) + 1
               ELSE IF At(p, "widgetGiveBack") /\ req[p].day = d THEN Count(WidgetKey(d)) + (-1)
               ELSE Count(WidgetKey(d))
<1> DEFINE D == WidgetKey(d)
<1>1. D # MonthKey /\ \A day : D # DayKey(day)
  BY DEF DayKey, MonthKey, WidgetKey
<1>2. \A day : WidgetKey(day) = D <=> day = d
  BY DEF WidgetKey
<1> HIDE DEF D
<1>3. CASE At(p, "widgetIncr")
  <2>1. redis' = Plus(WidgetKey(today), 1) BY <1>3 DEF Sent, At
  <2> QED BY <1>2, <1>3, <2>1, CountsChange DEF D, At
<1>4. CASE At(p, "widgetGiveBack")
  <2>1. redis' = Plus(WidgetKey(req[p].day), -1) BY <1>4 DEF Sent, At
  <2> QED BY <1>2, <1>4, <2>1, CountsChange DEF D, At
<1>5. CASE req[p].at \notin {"widgetIncr", "widgetGiveBack"}
  <2>1. \/ \E day, n : redis' = Plus(DayKey(day), n) \/ redis' = SetNX(DayKey(day), n)
        \/ \E n : redis' = Plus(MonthKey, n) \/ redis' = SetNX(MonthKey, n)
        \/ redis' = redis
    BY <1>5 DEF Sent, At
  <2>2. ASSUME NEW day, NEW n, redis' = Plus(DayKey(day), n) \/ redis' = SetNX(DayKey(day), n)
        PROVE  Count(D)' = Count(D)
    BY <2>2, <1>1, CountsChange
  <2>3. ASSUME NEW n, redis' = Plus(MonthKey, n) \/ redis' = SetNX(MonthKey, n)
        PROVE  Count(D)' = Count(D)
    BY <2>3, <1>1, CountsChange
  <2>4. Count(D)' = Count(D)
    BY <2>1, <2>2, <2>3, CountsChange
  <2> QED BY <1>5, <2>4 DEF D, At
<1> QED BY <1>3, <1>4, <1>5 DEF At

WidgetDebt == {"widgetGiveBack"}
WidgetOk(d) ==
    /\ tally.widget[d] + Cardinality(Having(WidgetDebt, req, d)) <= Count(WidgetKey(d))
    /\ tally.widget[d] <= WidgetLimit

LEMMA WidgetIsTyped ==
    ASSUME TypeOK, NEW d \in Days
    PROVE  Count(WidgetKey(d)) \in Int /\ tally.widget[d] \in Nat
BY DEF TypeOK, Count, Exists

(* Every step but the widget's reservation. *)
LEMMA WidgetUntaken ==
    ASSUME IsFiniteSet(Requests), TypeOK, NEW d \in Days, WidgetOk(d),
           NEW p \in Requests, NEW call, call # "widgetGiveBack", Moves(p, call),
           redis' \in {redis, Sent(p)}, tally'.widget = tally.widget
    PROVE  WidgetOk(d)'
<1> DEFINE count == Count(WidgetKey(d))
           countNow == Count(WidgetKey(d))'
           owed == Cardinality(Having(WidgetDebt, req, d))
           owedNow == Cardinality(Having(WidgetDebt, req', d))
           then == One(WidgetDebt, req[p], d)
<1>1. count \in Int /\ tally.widget[d] \in Nat
  BY WidgetIsTyped
<1>2. owed \in Nat /\ owedNow = owed + One(WidgetDebt, req'[p], d) - then
  BY CountOfMove
<1>3. One(WidgetDebt, req'[p], d) = 0
  BY DEF One, WidgetDebt, Moves
<1>4. /\ then \in {0, 1}
      /\ At(p, "widgetGiveBack") /\ req[p].day = d => then = 1
  BY DEF One, WidgetDebt, At
<1>5. countNow >= count - then
  <2>1. CASE redis' = redis
    <3>1. countNow = count BY <2>1, CountsChange
    <3> QED BY <1>1, <1>4, <3>1
  <2>2. CASE redis' = Sent(p)
    <3>1. countNow = IF At(p, "widgetIncr") /\ today = d THEN count + 1
                     ELSE IF At(p, "widgetGiveBack") /\ req[p].day = d THEN count + (-1)
                     ELSE count
      BY <2>2, WidgetAfterSent
    <3> HIDE DEF count, countNow, then
    <3> QED BY <1>1, <1>4, <3>1
  <2> QED BY <2>1, <2>2
<1>6. countNow \in Int
  <2>1. CASE redis' = redis
    BY <2>1, <1>1, CountsChange
  <2>2. CASE redis' = Sent(p)
    BY <2>2, <1>1, WidgetAfterSent
  <2> QED BY <2>1, <2>2
<1>7. tally.widget[d] + owed <= count /\ tally.widget[d] <= WidgetLimit
  BY DEF WidgetOk
<1>8. tally'.widget[d] = tally.widget[d] /\ Having(WidgetDebt, req', d) = Having(WidgetDebt, req, d)'
  BY DEF Having
<1> HIDE DEF count, countNow, owed, owedNow, then
<1>9. tally.widget[d] + owedNow <= countNow
  BY <1>1, <1>2, <1>3, <1>4, <1>5, <1>6, <1>7
<1> QED BY <1>7, <1>8, <1>9 DEF WidgetOk, countNow, owedNow

LEMMA WidgetReserves ==
    ASSUME IsFiniteSet(Requests), TypeOK, NEW d \in Days, WidgetOk(d),
           NEW p \in Requests, ConsumeWidget(p)
    PROVE  WidgetOk(d)'
<1> DEFINE call == IF WidgetAdmitted(p) THEN "dayExists" ELSE "widgetGiveBack"
           count == Count(WidgetKey(d))
           countNow == Count(WidgetKey(d))'
           owed == Cardinality(Having(WidgetDebt, req, d))
           owedNow == Cardinality(Having(WidgetDebt, req', d))
           widget == tally.widget[d]
           widgetNow == tally'.widget[d]
<1>1. /\ count \in Int /\ widget \in Nat /\ WidgetLimit \in Nat
      /\ tally \in Tallies /\ today \in Days
  BY WidgetIsTyped, QuotaAssumption DEF TypeOK, Tallies
<1>2. At(p, "widgetIncr") /\ redis' = Sent(p)
  BY DEF ConsumeWidget
<1>3. Moves(p, call) /\ req'[p].day = today
  BY FormsOfMoves DEF ConsumeWidget
<1>4. owed \in Nat /\ owedNow = owed + One(WidgetDebt, req'[p], d) - One(WidgetDebt, req[p], d)
  BY <1>3, CountOfMove
<1>5. One(WidgetDebt, req[p], d) = 0
  BY <1>2 DEF At, One, WidgetDebt
<1>6. /\ One(WidgetDebt, req'[p], d) = IF ~WidgetAdmitted(p) /\ today = d THEN 1 ELSE 0
  BY <1>3 DEF Moves, One, WidgetDebt
<1>7. countNow = IF today = d THEN count + 1 ELSE count
  BY <1>2, WidgetAfterSent DEF At
<1>8. widgetNow = IF WidgetAdmitted(p) /\ today = d THEN widget + 1 ELSE widget
  <2>1. CASE WidgetAdmitted(p)
    <3>1. tally' = [tally EXCEPT !.widget[today] = @ + 1] BY <2>1 DEF ConsumeWidget
    <3> QED BY <1>1, <2>1, <3>1 DEF Tallies
  <2>2. CASE ~WidgetAdmitted(p)
    BY <2>2 DEF ConsumeWidget
  <2> QED BY <2>1, <2>2
<1>9. WidgetAdmitted(p) /\ today = d => countNow <= WidgetLimit
  <2> SUFFICES ASSUME WidgetAdmitted(p), today = d  PROVE countNow <= WidgetLimit
    OBVIOUS
  <2>1. redis' = Plus(WidgetKey(d), 1) BY <1>2 DEF Sent, At
  <2>2. countNow = redis'[WidgetKey(d)] BY <2>1 DEF Count, Exists, Plus, With, WidgetKey
  <2> QED BY <1>2, <2>2 DEF WidgetAdmitted
<1>10. widget + owed <= count /\ widget <= WidgetLimit
  BY DEF WidgetOk
<1>11. Having(WidgetDebt, req', d) = Having(WidgetDebt, req, d)'
  BY DEF Having
<1> HIDE DEF call, count, countNow, owed, owedNow, widget, widgetNow
<1>12. widgetNow + owedNow <= countNow /\ widgetNow <= WidgetLimit
  <2>1. CASE today = d /\ WidgetAdmitted(p)
    BY <2>1, <1>1, <1>4, <1>5, <1>6, <1>7, <1>8, <1>9, <1>10
  <2>2. CASE today = d /\ ~WidgetAdmitted(p)
    BY <2>2, <1>1, <1>4, <1>5, <1>6, <1>7, <1>8, <1>10
  <2>3. CASE today # d
    BY <2>3, <1>1, <1>4, <1>5, <1>6, <1>7, <1>8, <1>10
  <2> QED BY <2>1, <2>2, <2>3
<1> QED BY <1>11, <1>12 DEF WidgetOk, countNow, owedNow, widgetNow

(* Every step but the widget's reservation leaves the widget's tally alone.  *)
LEMMA WidgetStep ==
    ASSUME TypeOK, NEW p \in Requests, Step(p)
    PROVE  \/ ConsumeWidget(p)
           \/ /\ \E call : call # "widgetGiveBack" /\ Moves(p, call)
              /\ redis' \in {redis, Sent(p)}
              /\ tally'.widget = tally.widget
<1> DEFINE Elsewhere == \E call : call # "widgetGiveBack" /\ Moves(p, call)
           Sends == redis' \in {redis, Sent(p)}
           Same == tally'.widget = tally.widget
<1>t. tally \in Tallies
  BY DEF TypeOK, Tallies
<1>g. ASSUME NEW call, call # "widgetGiveBack", Goto(p, call)  PROVE Elsewhere
  BY <1>g, FormsOfMoves
<1>o. ASSUME NEW call, call # "widgetGiveBack", NEW day, GotoOn(p, call, day)  PROVE Elsewhere
  BY <1>o, FormsOfMoves
<1>w. ASSUME NEW call, call # "widgetGiveBack", NEW seed, GotoWith(p, call, seed)  PROVE Elsewhere
  BY <1>w, FormsOfMoves
<1>r. ASSUME NEW cost, RecordCost(p, cost)  PROVE Elsewhere
  <2>1. Record(cost) # "widgetGiveBack" BY DEF Record, RecordUsage
  <2> QED BY <1>r, <2>1, FormsOfMoves
<1>a. ASSUME NEW i, NEW cost, Answered(p, i, cost)  PROVE Sends /\ Same
  BY <1>a, <1>t DEF Answered, Tallies
<1>m. Command(p) => Sends /\ Same
  BY DEF Command
<1>u. Unledgered => Sends /\ Same
  BY DEF Unledgered
<1> SUFFICES ASSUME ~ConsumeWidget(p)
             PROVE  Elsewhere /\ Sends /\ Same
  OBVIOUS
<1> HIDE DEF Elsewhere, Sends, Same
<1>1. CASE Ask(p)
  BY <1>1, <1>g DEF Ask, Sends, Same
<1>2. CASE GiveBackWidget(p) \/ SetDay(p) \/ ConsumeMessage(p) \/ GiveBack(p)
  BY <1>2, <1>g, <1>m DEF GiveBackWidget, SetDay, ConsumeMessage, GiveBack
<1>3. CASE LookForDay(p)
  BY <1>3, <1>o, <1>m DEF LookForDay
<1>4. CASE SeedDay(p) \/ SeedMonth(p) \/ SeedRecord(p)
  BY <1>4, <1>w, <1>u DEF SeedDay, SeedMonth, SeedRecord
<1>5. CASE LookForMonth(p) \/ SetMonth(p) \/ ReadMonth(p)
  BY <1>5, <1>g, <1>m DEF LookForMonth, SetMonth, ReadMonth
<1>6. CASE NoSources(p) \/ Generate(p) \/ StreamFails(p)
  BY <1>6, <1>r, <1>a DEF NoSources, Generate, StreamFails
<1>7. CASE Ground(p)
  BY <1>7, <1>g, <1>a DEF Ground
<1>8. CASE LookToRecord(p) \/ SetRecord(p) \/ RecordTokens(p)
  BY <1>8, <1>g, <1>m DEF LookToRecord, SetRecord, RecordTokens, RecordAfter, RecordUsage
<1>9. CASE InsertRow(p)
  BY <1>9, <1>g DEF InsertRow, RecordAfter, RecordUsage, Sends, Same
<1>10. CASE LookToRelease(p)
  <2>1. Elsewhere BY <1>10, <1>o, <1>g DEF LookToRelease
  <2>2. Sends /\ Same BY <1>10, <1>t DEF LookToRelease, Tallies, Sends, Same
  <2> QED BY <2>1, <2>2
<1>11. CASE Release(p)
  BY <1>11, <1>g, <1>m DEF Release
<1>12. CASE CallRaises(p)
  <2>1. req[p].at \in Calls \ {"generate"}
    BY <1>12 DEF CallRaises, At, RedisCalls, Calls, WidgetCalls, ReserveCalls, ReleaseCalls,
                 BudgetCalls, RecordCalls, LedgerCalls, ProviderCalls
  <2>2. AfterError(req[p].at) # "widgetGiveBack"
    BY <2>1 DEF AfterError, Calls, WidgetCalls, ReserveCalls, ReleaseCalls, BudgetCalls,
                RecordCalls, LedgerCalls, ProviderCalls
  <2> QED BY <1>12, <2>2, <1>g DEF CallRaises, Sends, Same
<1>13. CASE Crash(p)
  BY <1>13, <1>g DEF Crash, Sends, Same
<1> QED
  BY <1>1, <1>2, <1>3, <1>4, <1>5, <1>6, <1>7, <1>8, <1>9, <1>10, <1>11, <1>12, <1>13
  DEF Step

(* A fault is never forgotten. *)
LEMMA FaultsStay ==
    ASSUME TypeOK, [Next]_vars
    PROVE  failures.kinds \subseteq failures'.kinds
<1>1. \/ failures' = failures
      \/ \E kind \in FaultKinds : Fails(kind)
  BY DEF Next, Step, Ask, ConsumeWidget, GiveBackWidget, LookForDay, SeedDay, SetDay,
         ConsumeMessage, GiveBack, LookForMonth, SeedMonth, SetMonth, ReadMonth, NoSources,
         Ground, Generate, StreamFails, LookToRecord, SeedRecord, SetRecord, RecordTokens,
         InsertRow, LookToRelease, Release, CallRaises, Crash, RestartRedis, Midnight,
         Command, Unledgered, FaultKinds, vars
<1> QED BY <1>1, FailuresAreTyped

WidgetInv == TypeOK /\ (KeysKept => \A d \in Days : WidgetOk(d))

LEMMA WidgetStaysOk ==
    ASSUME IsFiniteSet(Requests), WidgetInv, [Next]_vars
    PROVE  WidgetInv'
<1>1. TypeOK /\ TypeOK'
  BY TypeIsKept DEF WidgetInv
<1>2. ASSUME KeysKept', NEW d \in Days
      PROVE  WidgetOk(d)'
  <2>1. KeysKept
    BY <1>1, <1>2, FaultsStay DEF KeysKept, OnlyFailed
  <2>2. WidgetOk(d)
    BY <2>1 DEF WidgetInv
  <2>3. ASSUME NEW p \in Requests, Step(p)  PROVE WidgetOk(d)'
    <3>1. CASE ConsumeWidget(p)
      BY <3>1, <2>2, <1>1, WidgetReserves
    <3>2. CASE /\ \E call : call # "widgetGiveBack" /\ Moves(p, call)
               /\ redis' \in {redis, Sent(p)}
               /\ tally'.widget = tally.widget
      BY <3>2, <2>2, <1>1, WidgetUntaken
    <3> QED BY <3>1, <3>2, <2>3, <1>1, WidgetStep
  <2>4. ~RestartRedis
    <3> SUFFICES ASSUME RestartRedis PROVE FALSE
      OBVIOUS
    <3>1. "restart" \in failures'.kinds
      BY <1>1, FailuresAreTyped DEF RestartRedis, FaultKinds
    <3> QED BY <3>1, <1>2 DEF KeysKept, OnlyFailed, FaultKinds
  <2>5. CASE Midnight \/ UNCHANGED vars
    <3>1. UNCHANGED <<redis, req, tally>> BY <2>5 DEF Midnight, vars
    <3> QED BY <2>2, <3>1 DEF WidgetOk, Having, Count, Exists, WidgetKey
  <2> QED BY <2>3, <2>4, <2>5 DEF Next
<1> QED BY <1>1, <1>2 DEF WidgetInv, Days

(* A widget takes no more questions in a day than its own limit, for any     *)
(* number of visitors and any failing call of its counter, while Redis keeps *)
(* the counter: INCR decides by what it returns, and a refusal gives back    *)
(* once (RedisWidgetQuotaStore.consume).                                    *)
THEOREM WidgetLimitHolds ==
    ASSUME IsFiniteSet(Requests)
    PROVE  Spec => []WidgetWithinLimit
<1>1. Init => WidgetInv
  <2> SUFFICES ASSUME Init PROVE WidgetInv
    OBVIOUS
  <2>1. TypeOK BY QuotaAssumption DEF Init, TypeOK, Idle, Days, Keys, FaultKinds
  <2>2. ASSUME NEW d \in Days PROVE WidgetOk(d)
    <3>1. Having(WidgetDebt, req, d) = {}
      BY DEF Init, Idle, Having, WidgetDebt
    <3>2. Cardinality(Having(WidgetDebt, req, d)) = 0
      BY <3>1, FS_EmptySet
    <3>3. tally.widget[d] = 0 /\ Count(WidgetKey(d)) = 0
      BY DEF Init, Count, Exists
    <3> QED BY <3>2, <3>3, QuotaAssumption DEF WidgetOk
  <2> QED BY <2>1, <2>2 DEF WidgetInv
<1>2. WidgetInv /\ [Next]_vars => WidgetInv'
  BY WidgetStaysOk
<1>3. WidgetInv => WidgetWithinLimit
  BY DEF WidgetInv, WidgetWithinLimit, WidgetOk
<1> QED BY <1>1, <1>2, <1>3, PTL DEF Spec

-----------------------------------------------------------------------------
(* The month.  What the answers cost is in the ledger, or is still being    *)
(* recorded: the tokens of the questions at calls, as a set, so that their  *)
(* number is a cardinality.                                                 *)
Worth(calls, r) == IF r.at \in calls THEN r.cost ELSE 0
Tokens(calls, r) == {x \in Requests \X Nat : x[2] \in 1..Worth(calls, r[x[1]])}

Rec == RecordCalls
Bill == RecordCalls \cup {"ledgerInsert"}

LEMMA CostIsNatural ==
    ASSUME TypeOK, NEW p \in Requests
    PROVE  req[p].cost \in Nat /\ req[p].seed \in Nat
<1>1. req[p].seed \in Nat /\ req[p].cost \in Costs \cup {0}
  BY DEF TypeOK
<1>2. 0 \in Nat
  OBVIOUS
<1> QED BY <1>1, <1>2, SomeCost, Zenon

(* One question's tokens are as many as its answer cost. *)
LEMMA TokensOfOne ==
    ASSUME NEW p, NEW n \in Nat
    PROVE  IsFiniteSet({p} \X (1..n)) /\ Cardinality({p} \X (1..n)) = n
<1>1. IsFiniteSet(1..n) /\ Cardinality(1..n) = n
  <2>1. 1 \in Int /\ n \in Int OBVIOUS
  <2>2. /\ IsFiniteSet(1..n)
        /\ Cardinality(1..n) = IF 1 > n THEN 0 ELSE n - 1 + 1
    BY ONLY <2>1, FS_Interval, Zenon
  <2> QED BY <2>2
<1>2. IsFiniteSet({p}) /\ Cardinality({p}) = 1
  BY FS_Singleton
<1>3. IsFiniteSet({p} \X (1..n)) /\ Cardinality({p} \X (1..n)) = Cardinality({p}) * Cardinality(1..n)
  BY <1>1, <1>2, FS_Product
<1> QED BY <1>1, <1>2, <1>3

(* When p moves, the sum changes by what p's part of it does. *)
LEMMA SumOfMove ==
    ASSUME NEW calls, NEW p \in Requests, NEW call, Moves(p, call),
           req[p].cost \in Nat, req'[p].cost \in Nat,
           IsFiniteSet(Tokens(calls, req))
    PROVE  /\ IsFiniteSet(Tokens(calls, req'))
           /\ Cardinality(Tokens(calls, req)) \in Nat
           /\ Cardinality(Tokens(calls, req')) =
                  Cardinality(Tokens(calls, req)) + Worth(calls, req'[p]) - Worth(calls, req[p])
<1> DEFINE Rest == {x \in Tokens(calls, req) : x[1] # p}
           was == Worth(calls, req[p])
           is == Worth(calls, req'[p])
           Was == {p} \X (1..was)
           Is == {p} \X (1..is)
<1>1. was \in Nat /\ is \in Nat
  BY DEF Worth
<1>2. Tokens(calls, req) = Rest \cup Was
  BY <1>1 DEF Tokens
<1>3. Tokens(calls, req') = Rest \cup Is
  <2>1. ASSUME NEW x \in Requests \X Nat
        PROVE  x \in Tokens(calls, req') <=> x \in Rest \/ x \in Is
    <3>1. CASE x[1] = p
      <4>1. x \in Tokens(calls, req') <=> x[2] \in 1..is
        BY <3>1 DEF Tokens
      <4>2. x \in Is <=> x[2] \in 1..is
        BY <3>1
      <4>3. x \notin Rest
        BY <3>1
      <4> QED BY <4>1, <4>2, <4>3
    <3>2. CASE x[1] # p
      <4>1. x[1] \in Requests /\ req'[x[1]] = req[x[1]]
        BY <3>2 DEF Moves
      <4>2. x \notin Is
        BY <3>2
      <4>3. x \in Tokens(calls, req') <=> x \in Tokens(calls, req)
        BY <4>1 DEF Tokens
      <4> QED BY <3>2, <4>2, <4>3
    <3> QED BY <3>1, <3>2
  <2>2. Rest \subseteq Requests \X Nat /\ Is \subseteq Requests \X Nat
    BY <1>1 DEF Tokens
  <2>3. Tokens(calls, req') \subseteq Requests \X Nat
    BY DEF Tokens
  <2> QED BY <2>1, <2>2, <2>3
<1>4. IsFiniteSet(Rest)
  BY FS_Subset
<1>5. Rest \cap Was = {} /\ Rest \cap Is = {}
  OBVIOUS
<1>6. /\ IsFiniteSet(Was) /\ Cardinality(Was) = was
      /\ IsFiniteSet(Is) /\ Cardinality(Is) = is
  BY <1>1, TokensOfOne
<1> HIDE DEF Rest, Was, Is, was, is
<1>7. Cardinality({}) = 0
  BY FS_EmptySet
<1>8. Cardinality(Rest) \in Nat
  BY <1>4, FS_CardinalityType
<1>9. Cardinality(Tokens(calls, req)) = Cardinality(Rest) + was
  <2>1. Cardinality(Rest \cup Was) = Cardinality(Rest) + Cardinality(Was) - Cardinality(Rest \cap Was)
    BY <1>4, <1>6, FS_Union
  <2>2. Cardinality(Rest \cap Was) = 0 BY <1>5, <1>7
  <2>3. Cardinality(Rest \cup Was) = Cardinality(Rest) + was BY <1>1, <1>6, <1>8, <2>1, <2>2
  <2> QED BY <1>2, <2>3
<1>10. /\ IsFiniteSet(Tokens(calls, req'))
       /\ Cardinality(Tokens(calls, req')) = Cardinality(Rest) + is
  <2>1. /\ IsFiniteSet(Rest \cup Is)
        /\ Cardinality(Rest \cup Is) = Cardinality(Rest) + Cardinality(Is) - Cardinality(Rest \cap Is)
    BY <1>4, <1>6, FS_Union
  <2>2. Cardinality(Rest \cap Is) = 0 BY <1>5, <1>7
  <2>3. Cardinality(Rest \cup Is) = Cardinality(Rest) + is BY <1>1, <1>6, <1>8, <2>1, <2>2
  <2> QED BY <1>3, <2>1, <2>3
<1> QED BY <1>1, <1>8, <1>9, <1>10 DEF was, is

(* What a command does to the month's counter. *)
LEMMA MonthAfterSent ==
    ASSUME NEW p \in Requests, redis' = Sent(p)
    PROVE  Count(MonthKey)' =
               IF At(p, "recordIncr") THEN Count(MonthKey) + req[p].cost
               ELSE IF req[p].at \in {"monthSet", "recordSet"} /\ ~Exists(MonthKey) THEN req[p].seed
               ELSE Count(MonthKey)
<1> DEFINE D == MonthKey
<1>1. \A day : DayKey(day) # D /\ WidgetKey(day) # D
  BY DEF DayKey, MonthKey, WidgetKey
<1>d. Count(MonthKey)' = Count(D)'
  BY DEF Count, Exists, MonthKey
<1> HIDE DEF D
<1>2. CASE At(p, "recordIncr")
  <2>1. redis' = Plus(MonthKey, req[p].cost) BY <1>2 DEF Sent, At
  <2>2. Count(D)' = Count(D) + req[p].cost BY <2>1, CountsChange DEF D
  <2> QED BY <1>2, <2>2, <1>d DEF D
<1>3. CASE req[p].at \in {"monthSet", "recordSet"}
  <2>1. redis' = SetNX(MonthKey, req[p].seed) BY <1>3 DEF Sent, At
  <2>2. Count(D)' = IF ~Exists(D) THEN req[p].seed ELSE Count(D) BY <2>1, CountsChange DEF D
  <2> QED BY <1>3, <2>2, <1>d DEF D, At
<1>4. CASE req[p].at \notin {"recordIncr", "monthSet", "recordSet"}
  <2>1. \/ \E day, n : \/ redis' = Plus(DayKey(day), n) \/ redis' = SetNX(DayKey(day), n)
                      \/ redis' = Plus(WidgetKey(day), n)
        \/ redis' = redis
    BY <1>4 DEF Sent, At
  <2>2. ASSUME NEW k, k # D, NEW n, redis' = Plus(k, n) \/ redis' = SetNX(k, n)
        PROVE  Count(D)' = Count(D)
    BY <2>2, CountsChange
  <2>3. Count(D)' = Count(D)
    BY <2>1, <2>2, <1>1, CountsChange
  <2> QED BY <1>4, <2>3, <1>d DEF D, At
<1> QED BY <1>2, <1>3, <1>4 DEF At

(* What a request remembers of a call to the next. *)
LEMMA WhatIsRemembered ==
    ASSUME TypeOK, NEW p \in Requests, NEW call
    PROVE  /\ Goto(p, call) /\ call # "idle" => req'[p].cost = req[p].cost /\ req'[p].seed = req[p].seed
           /\ \A seed : GotoWith(p, call, seed) => req'[p].cost = req[p].cost /\ req'[p].seed = seed
           /\ \A day : GotoOn(p, call, day) => req'[p].cost = req[p].cost /\ req'[p].seed = req[p].seed
           /\ \A cost : RecordCost(p, cost) => req'[p].cost = cost
<1>1. req \in [Requests -> ReqRecords]
  BY DEF TypeOK, ReqRecords
<1>2. Goto(p, call) /\ call # "idle" => req'[p].cost = req[p].cost /\ req'[p].seed = req[p].seed
  BY <1>1 DEF Goto, ReqRecords
<1>3. ASSUME NEW seed, GotoWith(p, call, seed)
      PROVE  req'[p].cost = req[p].cost /\ req'[p].seed = seed
  BY <1>1, <1>3 DEF GotoWith, ReqRecords
<1>4. ASSUME NEW day, GotoOn(p, call, day)
      PROVE  req'[p].cost = req[p].cost /\ req'[p].seed = req[p].seed
  BY <1>1, <1>4 DEF GotoOn, ReqRecords
<1>5. ASSUME NEW cost, RecordCost(p, cost)
      PROVE  req'[p].cost = cost
  BY <1>1, <1>5 DEF RecordCost, ReqRecords
<1> QED BY <1>2, <1>3, <1>4, <1>5

(* The four kinds of step, for the month: an answer is billed, its row is    *)
(* inserted, a seed is read from the ledger, or a question goes on with what *)
(* it has.                                                                  *)
Sets == {"monthSet", "recordSet"}
Billed(p) ==
    \E cost \in Costs :
        /\ req[p].at \in {"retrieve", "generate"}
        /\ Moves(p, Record(cost)) /\ req'[p].cost = cost
        /\ redis' = redis /\ ledger' = ledger
        /\ tally'.spent = tally.spent + cost
Inserted(p) ==
    /\ At(p, "ledgerInsert") /\ Moves(p, "idle")
    /\ redis' = redis /\ tally' = tally
    /\ ledger'.tokens = ledger.tokens + req[p].cost
Seeded(p) ==
    /\ redis' = redis /\ ledger' = ledger /\ tally' = tally
    /\ req'[p].cost = req[p].cost /\ req'[p].seed = ledger.tokens
    /\ \/ At(p, "monthSeed") /\ Moves(p, "monthSet")
       \/ At(p, "recordSeed") /\ Moves(p, "recordSet")
Carried(p, call) ==
    /\ call \notin Sets /\ Moves(p, call)
    /\ redis' \in {redis, Sent(p)} /\ ledger' = ledger /\ tally'.spent = tally.spent
    /\ call \in Bill => req'[p].cost = req[p].cost /\ req[p].at \in Rec
    /\ call \in Rec => req[p].at # "recordIncr"

LEMMA MonthStep ==
    ASSUME TypeOK, NEW p \in Requests, Step(p)
    PROVE  Billed(p) \/ Inserted(p) \/ Seeded(p) \/ \E call : Carried(p, call)
<1> DEFINE Goal == Billed(p) \/ Inserted(p) \/ Seeded(p) \/ \E call : Carried(p, call)
           Sends == redis' \in {redis, Sent(p)} /\ ledger' = ledger /\ tally'.spent = tally.spent
<1>t. tally \in Tallies
  BY DEF TypeOK, Tallies
<1>d. /\ Bill = {"recordExists", "recordSeed", "recordSet", "recordIncr", "ledgerInsert"}
      /\ Rec = {"recordExists", "recordSeed", "recordSet", "recordIncr"}
  BY DEF Bill, Rec, RecordCalls
<1>g. ASSUME NEW call, Goto(p, call), Sends, call \notin Sets,
             call \in Bill => req[p].at \in Rec, call \in Rec => req[p].at # "recordIncr"
      PROVE  Goal
  <2>1. call \in Bill => req'[p].cost = req[p].cost
    BY <1>d, <1>g, WhatIsRemembered
  <2>2. Moves(p, call) BY <1>g, FormsOfMoves
  <2>3. Carried(p, call) BY <1>g, <2>1, <2>2 DEF Carried
  <2> QED BY <2>3
<1>o. ASSUME NEW call, NEW day, GotoOn(p, call, day), Sends, call \notin Sets, call \notin Bill
      PROVE  Goal
  <2>1. Moves(p, call) BY <1>o, FormsOfMoves
  <2>2. call \notin Rec BY <1>d, <1>o
  <2>3. Carried(p, call) BY <1>o, <2>1, <2>2 DEF Carried
  <2> QED BY <2>3
<1>r. ASSUME NEW cost \in Costs, RecordCost(p, cost), NEW i \in {0, 1}, Answered(p, i, cost),
             req[p].at \in {"retrieve", "generate"}
      PROVE  Goal
  <2>1. Moves(p, Record(cost)) /\ req'[p].cost = cost BY <1>r, FormsOfMoves, WhatIsRemembered
  <2>2. tally'.spent = tally.spent + cost BY <1>r, <1>t DEF Answered, Tallies
  <2>3. Billed(p) BY <1>r, <2>1, <2>2 DEF Billed, Answered
  <2> QED BY <2>3
<1>m. Command(p) => Sends
  BY DEF Command
<1>s. Sets = {"monthSet", "recordSet"}
  BY DEF Sets
<1> SUFFICES Goal
  OBVIOUS
<1> HIDE DEF Goal, Sends
<1>1. CASE Ask(p)
  <2>1. Sends BY <1>1 DEF Ask, Sends
  <2> QED BY <1>1, <2>1, <1>g, <1>s, <1>d DEF Ask
<1>2. CASE ConsumeWidget(p)
  <2>1. Sends BY <1>2, <1>t DEF ConsumeWidget, Sends, Tallies
  <2> QED BY <1>2, <2>1, <1>o, <1>s, <1>d DEF ConsumeWidget
<1>3. CASE GiveBackWidget(p) \/ SetDay(p) \/ GiveBack(p) \/ Release(p)
  BY <1>3, <1>m, <1>g, <1>s, <1>d DEF GiveBackWidget, SetDay, GiveBack, Release
<1>4. CASE LookForDay(p)
  BY <1>4, <1>m, <1>o, <1>s, <1>d DEF LookForDay
<1>5. CASE SeedDay(p)
  <2>1. GotoWith(p, "daySet", AnswersSince(req[p].day)) /\ Sends BY <1>5 DEF SeedDay, Unledgered, Sends
  <2>2. Moves(p, "daySet") BY <2>1, FormsOfMoves
  <2>3. Carried(p, "daySet") BY <2>1, <2>2, <1>s, <1>d DEF Carried, Sends
  <2> QED BY <2>3 DEF Goal
<1>6. CASE ConsumeMessage(p)
  BY <1>6, <1>m, <1>g, <1>s, <1>d DEF ConsumeMessage
<1>7. CASE LookForMonth(p) \/ ReadMonth(p)
  BY <1>7, <1>m, <1>g, <1>s, <1>d DEF LookForMonth, ReadMonth
<1>8. CASE SeedMonth(p) \/ SeedRecord(p)
  <2>1. PICK call : /\ GotoWith(p, call, ledger.tokens)
                    /\ \/ call = "monthSet" /\ At(p, "monthSeed")
                       \/ call = "recordSet" /\ At(p, "recordSeed")
    BY <1>8 DEF SeedMonth, SeedRecord
  <2>2. Unledgered BY <1>8 DEF SeedMonth, SeedRecord
  <2>3. Moves(p, call) /\ req'[p].cost = req[p].cost /\ req'[p].seed = ledger.tokens
    BY <2>1, FormsOfMoves, WhatIsRemembered
  <2>4. Seeded(p) BY <2>1, <2>2, <2>3 DEF Seeded, Unledgered
  <2> QED BY <2>4 DEF Goal
<1>9. CASE SetMonth(p)
  BY <1>9, <1>m, <1>g, <1>s, <1>d DEF SetMonth
<1>10. CASE NoSources(p) \/ Generate(p) \/ StreamFails(p)
  BY <1>10, <1>r DEF NoSources, Generate, StreamFails, At
<1>11. CASE Ground(p)
  <2>1. Sends
    <3>1. tally'.spent = tally.spent + 0 BY <1>11, <1>t DEF Ground, Answered, Tallies
    <3>2. tally.spent + 0 = tally.spent BY <1>t DEF Tallies
    <3> QED BY <1>11, <3>1, <3>2 DEF Ground, Answered, Sends
  <2> QED BY <1>11, <2>1, <1>g, <1>s, <1>d DEF Ground
<1>12. CASE LookToRecord(p) \/ SetRecord(p) \/ RecordTokens(p)
  BY <1>12, <1>m, <1>g, <1>s, <1>d DEF LookToRecord, SetRecord, RecordTokens, RecordAfter, RecordUsage, At
<1>13. CASE InsertRow(p)
  <2>1. Moves(p, "idle") BY <1>13, FormsOfMoves DEF InsertRow, RecordAfter, RecordUsage
  <2>2. ledger'.tokens = ledger.tokens + req[p].cost
    <3>1. ledger \in [answers : [Days -> Nat], tokens : Nat] BY DEF TypeOK
    <3> QED BY <1>13, <3>1 DEF InsertRow
  <2>3. Inserted(p) BY <1>13, <2>1, <2>2 DEF Inserted, InsertRow
  <2> QED BY <2>3 DEF Goal
<1>14. CASE LookToRelease(p)
  <2>1. Sends BY <1>14, <1>t DEF LookToRelease, Sends, Tallies
  <2> QED BY <1>14, <2>1, <1>o, <1>g, <1>s, <1>d DEF LookToRelease
<1>15. CASE CallRaises(p)
  <2>1. req[p].at \in Calls \ {"generate"}
    BY <1>15 DEF CallRaises, At, RedisCalls, Calls, WidgetCalls, ReserveCalls, ReleaseCalls,
                 BudgetCalls, RecordCalls, LedgerCalls, ProviderCalls
  <2>2. \/ AfterError(req[p].at) \in {"idle", "releaseExists"}
        \/ AfterError(req[p].at) = "ledgerInsert" /\ req[p].at \in Rec
    BY <2>1 DEF AfterError, Calls, WidgetCalls, ReserveCalls, ReleaseCalls, BudgetCalls,
                RecordCalls, LedgerCalls, ProviderCalls, Rec
  <2>3. Sends /\ Goto(p, AfterError(req[p].at)) BY <1>15 DEF CallRaises, Sends
  <2> QED BY <2>2, <2>3, <1>g, <1>s, <1>d
<1>16. CASE Crash(p)
  <2>1. Sends BY <1>16 DEF Crash, Sends
  <2> QED BY <1>16, <2>1, <1>g, <1>s, <1>d DEF Crash
<1> QED
  BY <1>1, <1>2, <1>3, <1>4, <1>5, <1>6, <1>7, <1>8, <1>9, <1>10, <1>11, <1>12, <1>13, <1>14,
     <1>15, <1>16 DEF Step

LEMMA RecordingIsBilled ==
    ASSUME NEW r, IsFiniteSet(Tokens(Bill, r))
    PROVE  /\ IsFiniteSet(Tokens(Rec, r))
           /\ Cardinality(Tokens(Rec, r)) \in Nat /\ Cardinality(Tokens(Bill, r)) \in Nat
           /\ Cardinality(Tokens(Rec, r)) <= Cardinality(Tokens(Bill, r))
<1>1. Tokens(Rec, r) \subseteq Tokens(Bill, r)
  <2>1. ASSUME NEW q \in Requests  PROVE r[q].at \in Rec => r[q].at \in Bill
    BY DEF Rec, Bill
  <2> QED BY <2>1 DEF Tokens, Worth
<1>2. IsFiniteSet(Tokens(Rec, r)) /\ Cardinality(Tokens(Rec, r)) <= Cardinality(Tokens(Bill, r))
  BY <1>1, FS_Subset
<1> QED BY <1>2, FS_CardinalityType

(* What is in the ledger or still to be inserted was spent; so was what the  *)
(* counter shows or is about to be seeded with, and what is to be recorded.  *)
MonthOk ==
    /\ IsFiniteSet(Tokens(Bill, req))
    /\ ledger.tokens + Cardinality(Tokens(Bill, req)) <= tally.spent
    /\ Count(MonthKey) + Cardinality(Tokens(Rec, req)) <= tally.spent
    /\ \A q \in Requests : req[q].at \in Sets =>
           req[q].seed + Cardinality(Tokens(Rec, req)) <= tally.spent

LEMMA MonthIsTyped ==
    ASSUME TypeOK
    PROVE  Count(MonthKey) \in Int /\ ledger.tokens \in Nat /\ tally.spent \in Nat
BY DEF TypeOK, Count, Exists

LEMMA StepKeepsMonth ==
    ASSUME TypeOK, TypeOK', MonthOk, NEW p \in Requests, Step(p)
    PROVE  MonthOk'
<1> DEFINE bill == Cardinality(Tokens(Bill, req))
           rec == Cardinality(Tokens(Rec, req))
           billNow == Cardinality(Tokens(Bill, req'))
           recNow == Cardinality(Tokens(Rec, req'))
           count == Count(MonthKey)
           countNow == Count(MonthKey)'
           spent == tally.spent
           spentNow == tally'.spent
           rows == ledger.tokens
           rowsNow == ledger'.tokens
           cost == req[p].cost
           costNow == req'[p].cost
<1>1. /\ count \in Int /\ rows \in Nat /\ spent \in Nat
      /\ countNow \in Int /\ rowsNow \in Nat /\ spentNow \in Nat
      /\ cost \in Nat /\ costNow \in Nat
  <2>1. countNow \in Int /\ rowsNow \in Nat /\ spentNow \in Nat
    BY DEF TypeOK, Count, Exists, MonthKey
  <2>2. costNow \in Nat
    <3>1. costNow \in Costs \cup {0} BY DEF TypeOK
    <3>2. 0 \in Nat OBVIOUS
    <3> QED BY <3>1, <3>2, SomeCost, Zenon
  <2> QED BY <2>1, <2>2, MonthIsTyped, CostIsNatural
<1>2. /\ rec \in Nat /\ bill \in Nat /\ rec <= bill
      /\ IsFiniteSet(Tokens(Rec, req)) /\ IsFiniteSet(Tokens(Bill, req))
  BY RecordingIsBilled DEF MonthOk
<1>3. rows + bill <= spent /\ count + rec <= spent
  BY DEF MonthOk
<1>4. ASSUME NEW q \in Requests, req[q].at \in Sets
      PROVE  req[q].seed + rec <= spent /\ req[q].seed \in Nat
  BY <1>4, CostIsNatural DEF MonthOk
<1>5. ASSUME NEW call, Moves(p, call)
      PROVE  /\ IsFiniteSet(Tokens(Bill, req'))
             /\ billNow = bill + Worth(Bill, req'[p]) - Worth(Bill, req[p])
             /\ recNow = rec + Worth(Rec, req'[p]) - Worth(Rec, req[p])
             /\ recNow \in Nat /\ billNow \in Nat /\ recNow <= billNow
  <2>1. /\ IsFiniteSet(Tokens(Bill, req'))
        /\ billNow = bill + Worth(Bill, req'[p]) - Worth(Bill, req[p])
    BY <1>1, <1>2, <1>5, SumOfMove
  <2>2. recNow = rec + Worth(Rec, req'[p]) - Worth(Rec, req[p])
    BY <1>1, <1>2, <1>5, SumOfMove
  <2> QED BY <2>1, <2>2, RecordingIsBilled
<1>6. ASSUME IsFiniteSet(Tokens(Bill, req')), rowsNow + billNow <= spentNow,
             countNow + recNow <= spentNow,
             \A q \in Requests : req'[q].at \in Sets => req'[q].seed + recNow <= spentNow
      PROVE  MonthOk'
  <2>1. Tokens(Bill, req)' = Tokens(Bill, req') /\ Tokens(Rec, req)' = Tokens(Rec, req')
    BY DEF Tokens
  <2> QED BY <1>6, <2>1 DEF MonthOk
<1>7. ASSUME NEW call, Moves(p, call)
      PROVE  \A q \in Requests \ {p} : req'[q] = req[q]
  BY <1>7 DEF Moves
<1>b. /\ Bill = {"recordExists", "recordSeed", "recordSet", "recordIncr", "ledgerInsert"}
      /\ Rec = {"recordExists", "recordSeed", "recordSet", "recordIncr"}
      /\ Sets = {"monthSet", "recordSet"}
  BY DEF Bill, Rec, RecordCalls, Sets
<1>8. CASE Billed(p)
  <2>1. PICK c \in Costs :
           /\ req[p].at \in {"retrieve", "generate"}
           /\ Moves(p, Record(c)) /\ req'[p].cost = c
           /\ redis' = redis /\ ledger' = ledger /\ spentNow = spent + c
    BY <1>8 DEF Billed
  <2>2. c \in Nat BY SomeCost
  <2>3. Worth(Bill, req[p]) = 0 /\ Worth(Rec, req[p]) = 0
    BY <2>1, <1>b DEF Worth
  <2>4. Worth(Bill, req'[p]) = c /\ Worth(Rec, req'[p]) = c
    <3>1. req'[p].at = IF c > 0 THEN "recordExists" ELSE "ledgerInsert"
      BY <2>1 DEF Moves, Record, RecordUsage
    <3> QED BY <2>1, <2>2, <3>1, <1>b DEF Worth
  <2>5. billNow = bill + c /\ recNow = rec + c /\ IsFiniteSet(Tokens(Bill, req'))
    <3>1. billNow = bill + c - 0 /\ recNow = rec + c - 0 /\ IsFiniteSet(Tokens(Bill, req'))
      BY <2>1, <2>3, <2>4, <1>5
    <3> HIDE DEF bill, rec, billNow, recNow
    <3> QED BY <1>2, <2>2, <3>1
  <2>6. countNow = count /\ rowsNow = rows
    BY <2>1 DEF Count, Exists, MonthKey
  <2>7. ASSUME NEW q \in Requests, req'[q].at \in Sets
        PROVE  req'[q].seed + recNow <= spentNow
    <3>1. q # p
      BY <2>1, <2>7, <1>b DEF Moves, Record, RecordUsage
    <3>2. req'[q] = req[q]
      BY <3>1, <2>1, <1>7
    <3>3. req[q].seed + rec <= spent /\ req[q].seed \in Nat
      BY <3>2, <2>7, <1>4
    <3> HIDE DEF rec, recNow, spent, spentNow
    <3> QED BY <3>2, <3>3, <2>1, <2>2, <2>5, <1>1, <1>2
  <2>8. rowsNow + billNow <= spentNow /\ countNow + recNow <= spentNow
    <3> HIDE DEF bill, rec, billNow, recNow, count, countNow, rows, rowsNow, spent, spentNow
    <3> QED BY <2>1, <2>2, <2>5, <2>6, <1>1, <1>2, <1>3
  <2> QED BY <2>5, <2>7, <2>8, <1>6
<1>9. CASE Inserted(p)
  <2>1. /\ At(p, "ledgerInsert") /\ Moves(p, "idle") /\ redis' = redis /\ spentNow = spent
        /\ rowsNow = rows + cost
    BY <1>9 DEF Inserted
  <2>2. /\ Worth(Bill, req[p]) = cost /\ Worth(Rec, req[p]) = 0
        /\ Worth(Bill, req'[p]) = 0 /\ Worth(Rec, req'[p]) = 0
    BY <2>1, <1>b DEF Worth, At, Moves
  <2>3. /\ billNow = bill + 0 - cost /\ recNow = rec + 0 - 0
        /\ IsFiniteSet(Tokens(Bill, req'))
    BY <2>1, <2>2, <1>5
  <2>4. countNow = count
    BY <2>1 DEF Count, Exists, MonthKey
  <2>5. ASSUME NEW q \in Requests, req'[q].at \in Sets
        PROVE  req'[q].seed + recNow <= spentNow
    <3>1. q # p
      BY <2>1, <2>5, <1>b DEF Moves
    <3>2. req'[q] = req[q]
      BY <3>1, <2>1, <1>7
    <3>3. req[q].seed + rec <= spent /\ req[q].seed \in Nat
      BY <3>2, <2>5, <1>4
    <3> HIDE DEF rec, recNow, spent, spentNow
    <3> QED BY <3>2, <3>3, <2>1, <2>3, <1>1, <1>2
  <2>6. rowsNow + billNow <= spentNow /\ countNow + recNow <= spentNow
    <3> HIDE DEF bill, rec, billNow, recNow, count, countNow, rows, rowsNow, spent, spentNow, cost
    <3> QED BY <2>1, <2>3, <2>4, <1>1, <1>2, <1>3
  <2> QED BY <2>3, <2>5, <2>6, <1>6
<1>10. CASE Seeded(p)
  <2>1. /\ redis' = redis /\ rowsNow = rows /\ spentNow = spent
        /\ costNow = cost /\ req'[p].seed = rows
        /\ \/ At(p, "monthSeed") /\ Moves(p, "monthSet")
           \/ At(p, "recordSeed") /\ Moves(p, "recordSet")
    BY <1>10 DEF Seeded
  <2>2. PICK call : Moves(p, call)
    BY <2>1
  <2>3. /\ Worth(Bill, req'[p]) = Worth(Bill, req[p]) /\ Worth(Rec, req'[p]) = Worth(Rec, req[p])
        /\ Worth(Bill, req[p]) \in Nat /\ Worth(Rec, req[p]) \in Nat
    BY <2>1, <1>1, <1>b DEF Worth, At, Moves
  <2>4. billNow = bill /\ recNow = rec /\ IsFiniteSet(Tokens(Bill, req'))
    <3>1. /\ billNow = bill + Worth(Bill, req[p]) - Worth(Bill, req[p])
          /\ recNow = rec + Worth(Rec, req[p]) - Worth(Rec, req[p])
          /\ IsFiniteSet(Tokens(Bill, req'))
      BY <2>2, <2>3, <1>5
    <3> HIDE DEF bill, rec, billNow, recNow
    <3> QED BY <3>1, <2>3, <1>2
  <2>5. countNow = count
    BY <2>1 DEF Count, Exists, MonthKey
  <2>6. ASSUME NEW q \in Requests, req'[q].at \in Sets
        PROVE  req'[q].seed + recNow <= spentNow
    <3>1. CASE q = p
      <4> HIDE DEF bill, rec, recNow, rows, spent, spentNow
      <4> QED BY <3>1, <2>1, <2>4, <1>1, <1>2, <1>3
    <3>2. CASE q # p
      <4>1. req'[q] = req[q]
        BY <3>2, <2>2, <1>7
      <4>2. req[q].seed + rec <= spent
        BY <4>1, <2>6, <1>4
      <4> QED BY <4>1, <4>2, <2>1, <2>4
    <3> QED BY <3>1, <3>2
  <2> QED BY <2>1, <2>4, <2>5, <2>6, <1>3, <1>6
<1>11. ASSUME NEW call, Carried(p, call)  PROVE MonthOk'
  <2>1. /\ call \notin Sets /\ Moves(p, call)
        /\ redis' \in {redis, Sent(p)} /\ rowsNow = rows /\ spentNow = spent
        /\ call \in Bill => costNow = cost /\ req[p].at \in Rec
        /\ call \in Rec => req[p].at # "recordIncr"
    BY <1>11 DEF Carried
  <2>2. /\ Worth(Bill, req[p]) \in Nat /\ Worth(Rec, req[p]) \in Nat
        /\ Worth(Bill, req'[p]) \in Nat /\ Worth(Rec, req'[p]) \in Nat
        /\ Worth(Bill, req'[p]) <= Worth(Bill, req[p])
        /\ Worth(Rec, req'[p]) <= Worth(Rec, req[p])
        /\ At(p, "recordIncr") => Worth(Rec, req'[p]) = 0 /\ Worth(Rec, req[p]) = cost
    BY <2>1, <1>1, <1>b DEF Worth, Moves, At
  <2>3. /\ billNow = bill + Worth(Bill, req'[p]) - Worth(Bill, req[p])
        /\ recNow = rec + Worth(Rec, req'[p]) - Worth(Rec, req[p])
        /\ IsFiniteSet(Tokens(Bill, req')) /\ recNow \in Nat /\ billNow \in Nat
    BY <2>1, <1>5
  <2>4. billNow <= bill /\ recNow <= rec /\ (At(p, "recordIncr") => recNow = rec - cost)
    <3> HIDE DEF bill, rec, billNow, recNow, cost
    <3> QED BY <2>2, <2>3, <1>1, <1>2
  <2>5. countNow + recNow <= spentNow
    <3>1. CASE countNow = count
      <4> HIDE DEF rec, recNow, count, countNow, spent, spentNow
      <4> QED BY <3>1, <2>1, <2>3, <2>4, <1>1, <1>2, <1>3
    <3>2. CASE At(p, "recordIncr") /\ countNow = count + cost
      <4> HIDE DEF rec, recNow, count, countNow, spent, spentNow, cost
      <4> QED BY <3>2, <2>1, <2>3, <2>4, <1>1, <1>2, <1>3
    <3>3. CASE req[p].at \in Sets /\ countNow = req[p].seed
      <4>1. req[p].seed + rec <= spent /\ req[p].seed \in Nat
        BY <3>3, <1>4
      <4> HIDE DEF rec, recNow, countNow, spent, spentNow
      <4> QED BY <3>3, <4>1, <2>1, <2>3, <2>4, <1>1, <1>2
    <3>4. CASE redis' = redis
      BY <3>4, <3>1 DEF Count, Exists, MonthKey
    <3>5. CASE redis' = Sent(p)
      BY <3>5, <3>1, <3>2, <3>3, <1>b, MonthAfterSent
    <3> QED BY <3>4, <3>5, <2>1
  <2>6. ASSUME NEW q \in Requests, req'[q].at \in Sets
        PROVE  req'[q].seed + recNow <= spentNow
    <3>1. q # p
      BY <2>1, <2>6 DEF Moves
    <3>2. req'[q] = req[q]
      BY <3>1, <2>1, <1>7
    <3>3. req[q].seed + rec <= spent /\ req[q].seed \in Nat
      BY <3>2, <2>6, <1>4
    <3> HIDE DEF rec, recNow, spent, spentNow
    <3> QED BY <3>2, <3>3, <2>1, <2>3, <2>4, <1>1, <1>2
  <2>7. rowsNow + billNow <= spentNow
    <3> HIDE DEF bill, billNow, rows, rowsNow, spent, spentNow
    <3> QED BY <2>1, <2>3, <2>4, <1>1, <1>2, <1>3
  <2> QED BY <2>3, <2>5, <2>6, <2>7, <1>6
<1> QED BY <1>8, <1>9, <1>10, <1>11, MonthStep

MonthInv == TypeOK /\ MonthOk

LEMMA MonthStays ==
    ASSUME MonthInv, [Next]_vars
    PROVE  MonthInv'
<1>1. TypeOK /\ TypeOK' /\ MonthOk
  BY TypeIsKept DEF MonthInv
<1>2. ASSUME NEW p \in Requests, Step(p)  PROVE MonthOk'
  BY <1>1, <1>2, StepKeepsMonth
<1>3. CASE RestartRedis
  <2>1. UNCHANGED <<ledger, req, tally>> BY <1>3 DEF RestartRedis
  <2>2. Count(MonthKey)' = 0 BY <1>3 DEF RestartRedis, Count, Exists, MonthKey
  <2>3. /\ Cardinality(Tokens(Rec, req)) \in Nat /\ Cardinality(Tokens(Bill, req)) \in Nat
        /\ Cardinality(Tokens(Rec, req)) <= Cardinality(Tokens(Bill, req))
    BY <1>1, RecordingIsBilled DEF MonthOk
  <2>4. 0 + Cardinality(Tokens(Rec, req)) <= tally.spent
    BY <1>1, <2>3, MonthIsTyped DEF MonthOk
  <2>5. Tokens(Bill, req)' = Tokens(Bill, req) /\ Tokens(Rec, req)' = Tokens(Rec, req)
    BY <2>1 DEF Tokens
  <2> QED BY <1>1, <2>1, <2>2, <2>4, <2>5 DEF MonthInv, MonthOk
<1>4. CASE Midnight \/ UNCHANGED vars
  <2>1. UNCHANGED <<redis, ledger, req, tally>> BY <1>4 DEF Midnight, vars
  <2>2. Tokens(Bill, req)' = Tokens(Bill, req) /\ Tokens(Rec, req)' = Tokens(Rec, req)
    BY <2>1 DEF Tokens
  <2>3. Count(MonthKey)' = Count(MonthKey) BY <2>1 DEF Count, Exists, MonthKey
  <2> QED BY <1>1, <2>1, <2>2, <2>3 DEF MonthInv, MonthOk
<1> QED BY <1>1, <1>2, <1>3, <1>4 DEF Next, MonthInv

LEMMA MonthStartsOk == Init => MonthInv
<1> SUFFICES ASSUME Init PROVE MonthInv
  OBVIOUS
<1>1. TypeOK
  BY QuotaAssumption DEF Init, TypeOK, Idle, Days, Keys, FaultKinds
<1>2. Tokens(Bill, req) = {} /\ Tokens(Rec, req) = {}
  <2>1. \A q \in Requests : Worth(Bill, req[q]) = 0 /\ Worth(Rec, req[q]) = 0
    BY DEF Init, Idle, Worth
  <2>2. 1..0 = {} OBVIOUS
  <2> QED BY <2>1, <2>2 DEF Tokens
<1>3. IsFiniteSet({}) /\ Cardinality({}) = 0
  BY FS_EmptySet
<1>4. Count(MonthKey) = 0 /\ ledger.tokens = 0 /\ tally.spent = 0
  BY DEF Init, Count, Exists
<1>5. \A q \in Requests : req[q].at \notin Sets
  BY DEF Init, Idle, Sets
<1> QED BY <1>1, <1>2, <1>3, <1>4, <1>5 DEF MonthInv, MonthOk

(* No answer is counted twice in the month, for any number of questions and  *)
(* costs and whatever fails, is half done, is lost or is rebuilt: record     *)
(* writes the counter before the ledger it is rebuilt from (_record_usage).  *)
THEOREM AnswersCountedOnce == Spec => []CountedOnce
<1>1. MonthInv /\ [Next]_vars => MonthInv'
  BY MonthStays
<1>2. MonthInv => CountedOnce
  <2> SUFFICES ASSUME MonthInv PROVE CountedOnce
    OBVIOUS
  <2>1. Cardinality(Tokens(Rec, req)) \in Nat
    BY RecordingIsBilled DEF MonthInv, MonthOk
  <2> QED BY <2>1, MonthIsTyped DEF MonthInv, MonthOk, CountedOnce
<1> QED BY <1>1, <1>2, MonthStartsOk, PTL DEF Spec

-----------------------------------------------------------------------------
(* Nothing fails but a provider: no call of Redis or of the ledger, and no   *)
(* request is killed.  Then every question makes the calls in their order,   *)
(* and the counters can be said exactly.                                    *)
Exact == OnlyFailed({"provider"})
Leads ==
    {<<"idle", "widgetIncr">>, <<"idle", "dayExists">>,
     <<"widgetIncr", "dayExists">>, <<"widgetIncr", "widgetGiveBack">>,
     <<"widgetGiveBack", "idle">>,
     <<"dayExists", "dayIncr">>, <<"dayExists", "daySeed">>, <<"daySeed", "daySet">>,
     <<"daySet", "dayIncr">>, <<"dayIncr", "monthExists">>, <<"dayIncr", "giveBack">>,
     <<"giveBack", "idle">>,
     <<"monthExists", "monthGet">>, <<"monthExists", "monthSeed">>,
     <<"monthSeed", "monthSet">>, <<"monthSet", "monthGet">>,
     <<"monthGet", "retrieve">>, <<"monthGet", "releaseExists">>,
     <<"retrieve", "generate">>, <<"retrieve", "recordExists">>,
     <<"retrieve", "ledgerInsert">>, <<"retrieve", "releaseExists">>,
     <<"generate", "recordExists">>, <<"generate", "ledgerInsert">>,
     <<"recordExists", "recordIncr">>, <<"recordExists", "recordSeed">>,
     <<"recordSeed", "recordSet">>, <<"recordSet", "recordIncr">>,
     <<"recordIncr", "ledgerInsert">>, <<"ledgerInsert", "idle">>,
     <<"releaseExists", "releaseDecr">>, <<"releaseExists", "idle">>,
     <<"releaseDecr", "idle">>}
Answering == {"retrieve", "generate"}
IsBilled(p, call) == req[p].at \in Answering /\ call \in Bill
Orderly(p, call) ==
    /\ Moves(p, call) /\ <<req[p].at, call>> \in Leads
    /\ redis' = Sent(p) /\ today' = today
    /\ ~At(p, "ledgerInsert") => ledger' = ledger
    /\ At(p, "ledgerInsert") =>
           ledger' = [ledger EXCEPT !.answers[today] = @ + 1, !.tokens = @ + req[p].cost]
    /\ IsBilled(p, call) => /\ req'[p].cost \in Costs /\ call = Record(req'[p].cost)
                            /\ tally'.spent = tally.spent + req'[p].cost
    /\ ~IsBilled(p, call) => /\ tally'.spent = tally.spent
                             /\ call \in Bill => req'[p].cost = req[p].cost
    /\ call \in Sets => req'[p].seed = ledger.tokens
    /\ call = "daySet" => req'[p].seed = AnswersSince(req[p].day)
    /\ req'[p].day \in {1, today, req[p].day}
    /\ At(p, "dayExists") /\ call = "dayIncr" => Exists(DayKey(today))
    /\ At(p, "releaseExists") /\ call = "idle" => ~Exists(DayKey(today))
    /\ At(p, "monthExists") /\ call = "monthGet" => Exists(MonthKey)
    /\ call = "retrieve" => Count(MonthKey) < TokenLimit

LEMMA HowRequestsMove ==
    ASSUME TypeOK, NEW p \in Requests
    PROVE  /\ \A call : Goto(p, call) /\ call # "idle" =>
                  /\ Moves(p, call) /\ req'[p].day = req[p].day
                  /\ req'[p].cost = req[p].cost /\ req'[p].seed = req[p].seed
           /\ Goto(p, "idle") => Moves(p, "idle") /\ req'[p].day = 1
           /\ \A call, seed : GotoWith(p, call, seed) =>
                  /\ Moves(p, call) /\ req'[p].day = req[p].day
                  /\ req'[p].cost = req[p].cost /\ req'[p].seed = seed
           /\ \A call, day : GotoOn(p, call, day) =>
                  /\ Moves(p, call) /\ req'[p].day = day
                  /\ req'[p].cost = req[p].cost /\ req'[p].seed = req[p].seed
           /\ \A cost : RecordCost(p, cost) =>
                  /\ Moves(p, Record(cost)) /\ req'[p].day = req[p].day
                  /\ req'[p].cost = cost
<1>1. req \in [Requests -> ReqRecords]
  BY DEF TypeOK, ReqRecords
<1>2. Goto(p, "idle") => Moves(p, "idle") /\ req'[p].day = 1
  BY <1>1 DEF Goto, Moves, Idle
<1>3. ASSUME NEW call, Goto(p, call), call # "idle"
      PROVE  /\ Moves(p, call) /\ req'[p].day = req[p].day
             /\ req'[p].cost = req[p].cost /\ req'[p].seed = req[p].seed
  BY <1>3, FormsOfMoves, WhatIsRemembered DEF KeepsDay
<1>4. ASSUME NEW call, NEW seed, GotoWith(p, call, seed)
      PROVE  /\ Moves(p, call) /\ req'[p].day = req[p].day
             /\ req'[p].cost = req[p].cost /\ req'[p].seed = seed
  BY <1>4, FormsOfMoves, WhatIsRemembered DEF KeepsDay
<1>5. ASSUME NEW call, NEW day, GotoOn(p, call, day)
      PROVE  /\ Moves(p, call) /\ req'[p].day = day
             /\ req'[p].cost = req[p].cost /\ req'[p].seed = req[p].seed
  BY <1>5, FormsOfMoves, WhatIsRemembered
<1>6. ASSUME NEW cost, RecordCost(p, cost)
      PROVE  /\ Moves(p, Record(cost)) /\ req'[p].day = req[p].day
             /\ req'[p].cost = cost
  BY <1>6, FormsOfMoves, WhatIsRemembered DEF KeepsDay
<1> QED BY <1>2, <1>3, <1>4, <1>5, <1>6

LEMMA ExactSteps ==
    ASSUME TypeOK, NEW p \in Requests, Step(p), Exact'
    PROVE  \E call : Orderly(p, call)
<1>t. /\ tally \in Tallies /\ Count(MonthKey) \in Int /\ TokenLimit \in Nat
      /\ tally.spent + 0 = tally.spent
  <2>1. tally \in Tallies BY DEF TypeOK, Tallies
  <2> QED BY <2>1, MonthIsTyped, QuotaAssumption DEF Tallies
<1>b. /\ Bill = {"recordExists", "recordSeed", "recordSet", "recordIncr", "ledgerInsert"}
      /\ Sets = {"monthSet", "recordSet"}
  BY DEF Bill, RecordCalls, Sets
<1>f. ASSUME NEW kind \in FaultKinds, Fails(kind)  PROVE kind = "provider"
  <2>1. kind \in failures'.kinds BY <1>f, FailuresAreTyped
  <2> QED BY <2>1 DEF Exact, OnlyFailed
<1>1. CASE Ask(p)
  <2>1. PICK first \in {"widgetIncr", "dayExists"} : Goto(p, first) BY <1>1 DEF Ask
  <2>2. Moves(p, first) /\ req'[p].day = req[p].day BY <2>1, HowRequestsMove
  <2>3. Orderly(p, first)
    BY <1>1, <2>1, <2>2, <1>b DEF Ask, At, Orderly, Leads, IsBilled, Answering, Sent
  <2> QED BY <2>3
<1>2. CASE ConsumeWidget(p)
  <2>1. PICK call \in {"dayExists", "widgetGiveBack"} : GotoOn(p, call, today)
    BY <1>2 DEF ConsumeWidget
  <2>2. Moves(p, call) /\ req'[p].day = today BY <2>1, HowRequestsMove
  <2>3. tally'.spent = tally.spent BY <1>2, <1>t DEF ConsumeWidget, Tallies
  <2>4. Orderly(p, call)
    BY <1>2, <2>1, <2>2, <2>3, <1>b DEF ConsumeWidget, At, Orderly, Leads, IsBilled, Answering
  <2> QED BY <2>4
<1>3. ASSUME NEW call, Command(p), Goto(p, call), <<req[p].at, call>> \in Leads,
             call \notin Sets, call # "daySet", req[p].at \notin Answering,
             req[p].at \notin {"dayExists", "releaseExists", "ledgerInsert"},
             At(p, "monthExists") /\ call = "monthGet" => Exists(MonthKey),
             call = "retrieve" => Count(MonthKey) < TokenLimit
      PROVE  Orderly(p, call)
  <2>1. Moves(p, call) /\ req'[p].day \in {1, req[p].day} BY <1>3, HowRequestsMove
  <2>2. call # "idle" => req'[p].cost = req[p].cost BY <1>3, HowRequestsMove
  <2> QED BY <1>3, <1>b, <2>1, <2>2 DEF Command, Orderly, At, IsBilled
<1>4. CASE GiveBackWidget(p) \/ SetDay(p) \/ GiveBack(p) \/ Release(p)
  BY <1>4, <1>3, <1>b DEF GiveBackWidget, SetDay, GiveBack, Release, At, Leads, Answering
<1>5. CASE LookForDay(p)
  <2>1. PICK call : /\ GotoOn(p, call, today)
                    /\ call = IF Exists(DayKey(today)) THEN "dayIncr" ELSE "daySeed"
    BY <1>5 DEF LookForDay
  <2>2. Moves(p, call) /\ req'[p].day = today BY <2>1, HowRequestsMove
  <2>3. Orderly(p, call)
    BY <1>5, <2>1, <2>2, <1>b DEF LookForDay, Command, At, Orderly, Leads, IsBilled, Answering
  <2> QED BY <2>3
<1>6. CASE SeedDay(p)
  <2>1. /\ Moves(p, "daySet") /\ req'[p].day = req[p].day
        /\ req'[p].seed = AnswersSince(req[p].day)
    BY <1>6, HowRequestsMove DEF SeedDay
  <2>2. Orderly(p, "daySet")
    BY <1>6, <2>1, <1>b DEF SeedDay, Unledgered, At, Orderly, Leads, IsBilled, Answering, Sent
  <2> QED BY <2>2
<1>7. CASE ConsumeMessage(p)
  BY <1>7, <1>3, <1>b DEF ConsumeMessage, At, Leads, Answering
<1>8. CASE LookForMonth(p)
  BY <1>8, <1>3, <1>b DEF LookForMonth, At, Leads, Answering
<1>9. CASE SeedMonth(p)
  <2>1. /\ Moves(p, "monthSet") /\ req'[p].day = req[p].day /\ req'[p].seed = ledger.tokens
    BY <1>9, HowRequestsMove DEF SeedMonth
  <2>2. Orderly(p, "monthSet")
    BY <1>9, <2>1, <1>b DEF SeedMonth, Unledgered, At, Orderly, Leads, IsBilled, Answering, Sent
  <2> QED BY <2>2
<1>10. CASE SetMonth(p)
  BY <1>10, <1>3, <1>b DEF SetMonth, At, Leads, Answering
<1>11. CASE ReadMonth(p)
  BY <1>11, <1>3, <1>b, <1>t DEF ReadMonth, BudgetSpent, At, Leads, Answering
<1>12. ASSUME NEW cost \in Costs, RecordCost(p, cost), NEW i \in {0, 1}, Answered(p, i, cost),
              req[p].at \in Answering
       PROVE  \E call : Orderly(p, call)
  <2>1. Moves(p, Record(cost)) /\ req'[p].day = req[p].day /\ req'[p].cost = cost
    BY <1>12, HowRequestsMove
  <2>2. tally'.spent = tally.spent + cost BY <1>12, <1>t DEF Answered, Tallies
  <2>3. Record(cost) \in {"recordExists", "ledgerInsert"} BY DEF Record, RecordUsage
  <2>4. Orderly(p, Record(cost))
    BY <1>12, <2>1, <2>2, <2>3, <1>b
    DEF Answered, At, Orderly, Leads, IsBilled, Answering, Sent
  <2> QED BY <2>4
<1>13. CASE NoSources(p) \/ Generate(p) \/ StreamFails(p)
  BY <1>13, <1>12 DEF NoSources, Generate, StreamFails, At, Answering
<1>14. CASE Ground(p)
  <2>1. Moves(p, "generate") /\ req'[p].day = req[p].day BY <1>14, HowRequestsMove DEF Ground
  <2>2. tally'.spent = tally.spent + 0 BY <1>14, <1>t DEF Ground, Answered, Tallies
  <2>3. Orderly(p, "generate")
    BY <1>14, <2>1, <2>2, <1>b, <1>t
    DEF Ground, Answered, At, Orderly, Leads, IsBilled, Answering, Sent
  <2> QED BY <2>3
<1>15. CASE LookToRecord(p) \/ SetRecord(p) \/ RecordTokens(p)
  BY <1>15, <1>3, <1>b
  DEF LookToRecord, SetRecord, RecordTokens, RecordAfter, RecordUsage, At, Leads, Answering
<1>16. CASE SeedRecord(p)
  <2>1. /\ Moves(p, "recordSet") /\ req'[p].day = req[p].day /\ req'[p].seed = ledger.tokens
        /\ req'[p].cost = req[p].cost
    BY <1>16, HowRequestsMove DEF SeedRecord
  <2>2. Orderly(p, "recordSet")
    BY <1>16, <2>1, <1>b DEF SeedRecord, Unledgered, At, Orderly, Leads, IsBilled, Answering, Sent
  <2> QED BY <2>2
<1>17. CASE InsertRow(p)
  <2>1. Moves(p, "idle") /\ req'[p].day = 1
    BY <1>17, HowRequestsMove DEF InsertRow, RecordAfter, RecordUsage
  <2>2. Orderly(p, "idle")
    BY <1>17, <2>1, <1>b DEF InsertRow, At, Orderly, Leads, IsBilled, Answering, Sent
  <2> QED BY <2>2
<1>18. CASE LookToRelease(p)
  <2>1. tally'.spent = tally.spent BY <1>18, <1>t DEF LookToRelease, Tallies
  <2>2. CASE Exists(DayKey(today))
    <3>1. Moves(p, "releaseDecr") /\ req'[p].day = today
      BY <1>18, <2>2, HowRequestsMove DEF LookToRelease
    <3>2. Orderly(p, "releaseDecr")
      BY <1>18, <2>1, <3>1, <1>b DEF LookToRelease, At, Orderly, Leads, IsBilled, Answering, Sent
    <3> QED BY <3>2
  <2>3. CASE ~Exists(DayKey(today))
    <3>1. Moves(p, "idle") /\ req'[p].day = 1
      BY <1>18, <2>3, HowRequestsMove DEF LookToRelease
    <3>2. Orderly(p, "idle")
      BY <1>18, <2>1, <2>3, <3>1, <1>b
      DEF LookToRelease, At, Orderly, Leads, IsBilled, Answering, Sent
    <3> QED BY <3>2
  <2> QED BY <2>2, <2>3
<1>19. CASE CallRaises(p)
  <2>1. Fails("provider") /\ At(p, "retrieve") /\ redis' = redis
    BY <1>19, <1>f DEF CallRaises, FaultKinds
  <2>2. AfterError(req[p].at) = "releaseExists"
    BY <2>1 DEF At, AfterError, WidgetCalls, ReserveCalls, ReleaseCalls, BudgetCalls, RecordCalls
  <2>3. Moves(p, "releaseExists") /\ req'[p].day = req[p].day
    BY <1>19, <2>2, HowRequestsMove DEF CallRaises
  <2>4. Orderly(p, "releaseExists")
    BY <1>19, <2>1, <2>3, <1>b DEF CallRaises, At, Orderly, Leads, IsBilled, Answering, Sent
  <2> QED BY <2>4
<1>20. ~Crash(p)
  BY <1>f DEF Crash, FaultKinds
<1> QED
  BY <1>1, <1>2, <1>4, <1>5, <1>6, <1>7, <1>8, <1>9, <1>10, <1>11, <1>13, <1>14,
     <1>15, <1>16, <1>17, <1>18, <1>19, <1>20 DEF Step

(* The month's counter, exactly.  While its key is missing, no question has  *)
(* passed it: nothing was spent, and it is about to be seeded with nothing.  *)
Past == {"monthGet"} \cup Answering \cup Bill
ExactMonth ==
    /\ ledger.tokens + Cardinality(Tokens(Bill, req)) = tally.spent
    /\ Exists(MonthKey) => Count(MonthKey) + Cardinality(Tokens(Rec, req)) = tally.spent
    /\ ~Exists(MonthKey) =>
           /\ tally.spent = 0
           /\ \A q \in Requests :
                  req[q].at \notin Past /\ (At(q, "monthSet") => req[q].seed = 0)

(* Which keys there are after a command. *)
LEMMA KeysAfterSent ==
    ASSUME NEW p \in Requests, redis' = Sent(p)
    PROVE  /\ Exists(MonthKey)' <=> (Exists(MonthKey) \/ req[p].at \in Sets \cup {"recordIncr"})
           /\ \A d : Exists(DayKey(d)) => Exists(DayKey(d))'
           /\ \A d : Exists(DayKey(d))' /\ ~Exists(DayKey(d)) =>
                  req[p].at \in {"daySet", "dayIncr", "giveBack", "releaseDecr"} /\ req[p].day = d
           /\ \A d : req[p].at \in {"daySet", "dayIncr"} /\ req[p].day = d => Exists(DayKey(d))'
<1>1. ASSUME NEW k, NEW n, NEW j, redis' = Plus(k, n) \/ redis' = SetNX(k, n)
      PROVE  j \in DOMAIN redis' <=> j \in DOMAIN redis \/ j = k
  BY <1>1 DEF Plus, SetNX, With, Exists
<1>d. /\ \A d : Exists(DayKey(d)) <=> DayKey(d) \in DOMAIN redis
      /\ \A d : Exists(DayKey(d))' <=> DayKey(d) \in DOMAIN redis'
      /\ Exists(MonthKey) <=> MonthKey \in DOMAIN redis
      /\ Exists(MonthKey)' <=> MonthKey \in DOMAIN redis'
  BY DEF Exists, DayKey, MonthKey
<1>k. /\ \A d : DayKey(d) # MonthKey /\ WidgetKey(d) # MonthKey
      /\ \A d, e : (DayKey(d) = DayKey(e) <=> d = e) /\ DayKey(d) # WidgetKey(e)
  BY DEF DayKey, MonthKey, WidgetKey
<1>s. Sets = {"monthSet", "recordSet"}
  BY DEF Sets
<1>2. CASE At(p, "widgetIncr") \/ At(p, "widgetGiveBack")
  <2>1. PICK d, n : redis' = Plus(WidgetKey(d), n) BY <1>2 DEF Sent, At
  <2> QED BY <1>2, <2>1, <1>1, <1>d, <1>k, <1>s DEF At
<1>3. CASE req[p].at \in {"daySet", "dayIncr", "giveBack", "releaseDecr"}
  <2>1. PICK n : redis' = Plus(DayKey(req[p].day), n) \/ redis' = SetNX(DayKey(req[p].day), n)
    BY <1>3 DEF Sent, At
  <2>2. \A j : j \in DOMAIN redis' <=> j \in DOMAIN redis \/ j = DayKey(req[p].day)
    BY <2>1, <1>1
  <2>3. Exists(MonthKey)' <=> Exists(MonthKey)
    BY <2>2, <1>d, <1>k
  <2>4. \A d : Exists(DayKey(d))' <=> Exists(DayKey(d)) \/ req[p].day = d
    BY <2>2, <1>d, <1>k
  <2>5. req[p].at \notin Sets \cup {"recordIncr"}
    BY <1>3, <1>s
  <2> QED BY <1>3, <2>3, <2>4, <2>5
<1>4. CASE req[p].at \in Sets \cup {"recordIncr"}
  <2>1. PICK n : redis' = Plus(MonthKey, n) \/ redis' = SetNX(MonthKey, n)
    BY <1>4, <1>s DEF Sent, At
  <2> QED BY <1>4, <2>1, <1>1, <1>d, <1>k, <1>s DEF At
<1>5. CASE req[p].at \notin {"widgetIncr", "widgetGiveBack", "daySet", "dayIncr", "giveBack",
                             "releaseDecr", "monthSet", "recordSet", "recordIncr"}
  <2>1. redis' = redis BY <1>5 DEF Sent, At
  <2> QED BY <1>5, <2>1, <1>d, <1>s DEF At
<1> QED BY <1>2, <1>3, <1>4, <1>5, <1>s DEF At

LEMMA ExactMonthKept ==
    ASSUME TypeOK, TypeOK', IsFiniteSet(Tokens(Bill, req)), ExactMonth,
           NEW p \in Requests, NEW call, Orderly(p, call)
    PROVE  ExactMonth'
<1> DEFINE bill == Cardinality(Tokens(Bill, req))
           rec == Cardinality(Tokens(Rec, req))
           billNow == Cardinality(Tokens(Bill, req'))
           recNow == Cardinality(Tokens(Rec, req'))
           count == Count(MonthKey)
           countNow == Count(MonthKey)'
           spent == tally.spent
           spentNow == tally'.spent
           rows == ledger.tokens
           rowsNow == ledger'.tokens
           cost == req[p].cost
           costNow == req'[p].cost
           here == Exists(MonthKey)
           hereNow == Exists(MonthKey)'
<1>1. /\ count \in Int /\ rows \in Nat /\ spent \in Nat /\ countNow \in Int
      /\ cost \in Nat /\ costNow \in Nat
  <2>1. countNow \in Int
    BY DEF TypeOK, Count, Exists, MonthKey
  <2>2. costNow \in Nat
    <3>1. costNow \in Costs \cup {0} BY DEF TypeOK
    <3>2. 0 \in Nat OBVIOUS
    <3> QED BY <3>1, <3>2, SomeCost, Zenon
  <2> QED BY <2>1, <2>2, MonthIsTyped, CostIsNatural
<1>2. /\ rec \in Nat /\ bill \in Nat /\ rec <= bill
      /\ IsFiniteSet(Tokens(Rec, req)) /\ IsFiniteSet(Tokens(Bill, req))
  BY RecordingIsBilled
<1>3. /\ rows + bill = spent
      /\ here => count + rec = spent
      /\ ~here => spent = 0
  BY DEF ExactMonth
<1>4. ASSUME NEW q \in Requests, ~here
      PROVE  req[q].at \notin Past /\ (At(q, "monthSet") => req[q].seed = 0)
  BY <1>4 DEF ExactMonth
<1>b. /\ Bill = {"recordExists", "recordSeed", "recordSet", "recordIncr", "ledgerInsert"}
      /\ Rec = {"recordExists", "recordSeed", "recordSet", "recordIncr"}
      /\ Sets = {"monthSet", "recordSet"} /\ Answering = {"retrieve", "generate"}
      /\ Past = {"monthGet", "retrieve", "generate", "recordExists", "recordSeed", "recordSet",
                 "recordIncr", "ledgerInsert"}
  BY DEF Bill, Rec, RecordCalls, Sets, Past, Answering
<1>o. /\ Moves(p, call) /\ redis' = Sent(p) /\ req'[p].at = call
      /\ \A q \in Requests \ {p} : req'[q] = req[q]
      /\ <<req[p].at, call>> \in Leads
  BY DEF Orderly, Moves
<1>5. /\ billNow = bill + Worth(Bill, req'[p]) - Worth(Bill, req[p])
      /\ recNow = rec + Worth(Rec, req'[p]) - Worth(Rec, req[p])
  BY <1>o, <1>1, <1>2, SumOfMove
<1>6. rowsNow = IF At(p, "ledgerInsert") THEN rows + cost ELSE rows
  <2>1. ledger \in [answers : [Days -> Nat], tokens : Nat] BY DEF TypeOK
  <2> QED BY <2>1 DEF Orderly
<1>7. spentNow = IF IsBilled(p, call) THEN spent + costNow ELSE spent
  BY DEF Orderly
<1>8. /\ hereNow <=> here \/ req[p].at \in {"monthSet", "recordSet", "recordIncr"}
      /\ countNow = IF At(p, "recordIncr") THEN count + cost
                    ELSE IF req[p].at \in {"monthSet", "recordSet"} /\ ~here THEN req[p].seed
                    ELSE count
  BY <1>o, <1>b, KeysAfterSent, MonthAfterSent
(* What p's part of the sums becomes. *)
<1>9. CASE IsBilled(p, call)
  <2>1. /\ Worth(Bill, req[p]) = 0 /\ Worth(Rec, req[p]) = 0
    BY <1>9, <1>b DEF IsBilled, Worth
  <2>2. /\ Worth(Bill, req'[p]) = costNow /\ Worth(Rec, req'[p]) = costNow
    <3>1. call = IF costNow > 0 THEN "recordExists" ELSE "ledgerInsert"
      BY <1>9 DEF Orderly, Record, RecordUsage
    <3> QED BY <3>1, <1>o, <1>b, <1>1 DEF Worth
  <2>3. billNow = bill + costNow - 0 /\ recNow = rec + costNow - 0
    BY <2>1, <2>2, <1>5
  <2>4. /\ req[p].at \in {"retrieve", "generate"} /\ here
    BY <1>9, <1>b, <1>4 DEF IsBilled
  <2>5. rowsNow = rows /\ countNow = count /\ spentNow = spent + costNow /\ hereNow
    BY <1>6, <1>7, <1>8, <1>9, <2>4 DEF At
  <2>6. rowsNow + billNow = spentNow /\ countNow + recNow = spentNow
    <3> HIDE DEF bill, rec, billNow, recNow, count, countNow, rows, rowsNow, spent, spentNow,
                 costNow, here, hereNow
    <3> QED BY <2>3, <2>4, <2>5, <1>1, <1>2, <1>3
  <2>7. Tokens(Bill, req)' = Tokens(Bill, req') /\ Tokens(Rec, req)' = Tokens(Rec, req')
    BY DEF Tokens
  <2> QED BY <2>5, <2>6, <2>7 DEF ExactMonth
<1>10. CASE ~IsBilled(p, call)
  <2>1. /\ Worth(Bill, req'[p]) = IF At(p, "ledgerInsert") THEN 0 ELSE Worth(Bill, req[p])
        /\ At(p, "ledgerInsert") => Worth(Bill, req[p]) = cost
        /\ Worth(Bill, req[p]) \in Nat
    <3>1. call \in Bill => costNow = cost BY <1>10 DEF Orderly
    <3>2. ~(req[p].at \in Answering /\ call \in Bill) BY <1>10 DEF IsBilled
    <3>3. At(p, "ledgerInsert") => call = "idle" BY <1>o DEF Leads, At
    <3>4. ~At(p, "ledgerInsert") => (call \in Bill <=> req[p].at \in Bill)
      BY <1>o, <1>b, <3>2 DEF Leads, At
    <3>5. At(p, "ledgerInsert") => Worth(Bill, req'[p]) = 0 /\ Worth(Bill, req[p]) = cost
      BY <3>3, <1>o, <1>b DEF Worth, At
    <3>6. ~At(p, "ledgerInsert") => Worth(Bill, req'[p]) = Worth(Bill, req[p])
      BY <3>1, <3>4, <1>o DEF Worth
    <3>7. Worth(Bill, req[p]) \in Nat BY <1>1 DEF Worth
    <3> QED BY <3>5, <3>6, <3>7
  <2>2. /\ Worth(Rec, req'[p]) = IF At(p, "recordIncr") THEN 0 ELSE Worth(Rec, req[p])
        /\ At(p, "recordIncr") => Worth(Rec, req[p]) = cost
        /\ Worth(Rec, req[p]) \in Nat
    <3>1. call \in Bill => costNow = cost BY <1>10 DEF Orderly
    <3>2. ~(req[p].at \in Answering /\ call \in Bill) BY <1>10 DEF IsBilled
    <3>3. At(p, "recordIncr") => call = "ledgerInsert" BY <1>o DEF Leads, At
    <3>4. ~At(p, "recordIncr") => (call \in Rec <=> req[p].at \in Rec)
      BY <1>o, <1>b, <3>2 DEF Leads, At
    <3>5. At(p, "recordIncr") => Worth(Rec, req'[p]) = 0 /\ Worth(Rec, req[p]) = cost
      BY <3>3, <1>o, <1>b DEF Worth, At
    <3>6. ~At(p, "recordIncr") => Worth(Rec, req'[p]) = Worth(Rec, req[p])
      BY <3>1, <3>4, <1>o, <1>b DEF Worth
    <3>7. Worth(Rec, req[p]) \in Nat BY <1>1 DEF Worth
    <3> QED BY <3>5, <3>6, <3>7
  <2>3. /\ billNow = IF At(p, "ledgerInsert") THEN bill - cost ELSE bill
        /\ recNow = IF At(p, "recordIncr") THEN rec - cost ELSE rec
    <3> HIDE DEF bill, rec, billNow, recNow, cost
    <3>1. CASE At(p, "ledgerInsert")
      <4>1. ~At(p, "recordIncr") BY <3>1 DEF At
      <4> QED BY <3>1, <4>1, <2>1, <2>2, <1>1, <1>2, <1>5
    <3>2. CASE At(p, "recordIncr")
      <4>1. ~At(p, "ledgerInsert") BY <3>2 DEF At
      <4> QED BY <3>2, <4>1, <2>1, <2>2, <1>1, <1>2, <1>5
    <3>3. CASE ~At(p, "ledgerInsert") /\ ~At(p, "recordIncr")
      BY <3>3, <2>1, <2>2, <1>1, <1>2, <1>5
    <3> QED BY <3>1, <3>2, <3>3
  <2>4. spentNow = spent
    BY <1>7, <1>10
  <2>5. rowsNow + billNow = spentNow
    <3> HIDE DEF bill, billNow, rows, rowsNow, spent, spentNow, cost
    <3> QED BY <2>3, <2>4, <1>1, <1>2, <1>3, <1>6
  <2>6. ASSUME hereNow
        PROVE  countNow + recNow = spentNow
    <3>1. CASE here
      <4>1. countNow = IF At(p, "recordIncr") THEN count + cost ELSE count
        BY <3>1, <1>8
      <4> HIDE DEF rec, recNow, count, countNow, spent, spentNow, cost, here, hereNow
      <4> QED BY <3>1, <4>1, <2>3, <2>4, <1>1, <1>2, <1>3
    <3>2. CASE ~here
      <4>1. At(p, "monthSet") /\ req[p].seed = 0
        BY <3>2, <2>6, <1>4, <1>8, <1>b DEF At
      <4>2. countNow = 0 /\ ~At(p, "recordIncr")
        BY <3>2, <4>1, <1>8 DEF At
      <4> HIDE DEF bill, rec, recNow, count, countNow, rows, spent, spentNow, cost, here, hereNow
      <4> QED BY <3>2, <4>2, <2>3, <2>4, <1>1, <1>2, <1>3
    <3> QED BY <3>1, <3>2
  <2>7. ASSUME ~hereNow
        PROVE  /\ spentNow = 0
               /\ \A q \in Requests :
                      req'[q].at \notin Past /\ (req'[q].at = "monthSet" => req'[q].seed = 0)
    <3>1. ~here /\ req[p].at \notin Past /\ ~At(p, "monthSet")
      BY <2>7, <1>4, <1>8 DEF At
    <3>2. spentNow = 0
      BY <3>1, <2>4, <1>3
    <3>3. call \notin Past
      <4>1. At(p, "monthExists") => call # "monthGet"
        BY <3>1 DEF Orderly
      <4> QED BY <3>1, <4>1, <1>o, <1>b DEF Leads, At
    <3>4. call = "monthSet" => req'[p].seed = 0
      <4>1. rows = 0
        <5> HIDE DEF bill, rows, spent, here
        <5> QED BY <3>1, <1>1, <1>2, <1>3
      <4>2. call = "monthSet" => req'[p].seed = rows
        BY <1>b DEF Orderly
      <4> QED BY <4>1, <4>2
    <3>5. ASSUME NEW q \in Requests
          PROVE  req'[q].at \notin Past /\ (req'[q].at = "monthSet" => req'[q].seed = 0)
      <4>1. CASE q = p
        BY <4>1, <3>3, <3>4, <1>o
      <4>2. CASE q # p
        <5>1. req'[q] = req[q] BY <4>2, <1>o
        <5>2. req[q].at \notin Past /\ (req[q].at = "monthSet" => req[q].seed = 0)
          BY <3>1, <1>4 DEF At
        <5> QED BY <5>1, <5>2
      <4> QED BY <4>1, <4>2
    <3> QED BY <3>2, <3>5
  <2>8. Tokens(Bill, req)' = Tokens(Bill, req') /\ Tokens(Rec, req)' = Tokens(Rec, req')
    BY DEF Tokens
  <2> QED BY <2>5, <2>6, <2>7, <2>8 DEF ExactMonth, At
<1> QED BY <1>9, <1>10

(* How far the answers may go beyond the allowance. *)
InCalls(calls, r) == {q \in Requests : r[q].at \in calls}
OneIn(calls, r) == IF r.at \in calls THEN 1 ELSE 0
SomeCostIsGreatest == \E c \in Costs : \A other \in Costs : other <= c
Overshoot ==
    TokenLimit > 0 =>
        tally.spent + Cardinality(InCalls(Answering, req)) * MaxCost
            <= TokenLimit - 1 + Cardinality(Requests) * MaxCost

LEMMA NumberOfMove ==
    ASSUME IsFiniteSet(Requests), NEW calls, NEW p \in Requests, NEW call, Moves(p, call)
    PROVE  /\ Cardinality(InCalls(calls, req)) \in Nat /\ Cardinality(InCalls(calls, req')) \in Nat
           /\ Cardinality(InCalls(calls, req')) =
                  Cardinality(InCalls(calls, req)) + OneIn(calls, req'[p]) - OneIn(calls, req[p])
<1> DEFINE S == InCalls(calls, req)
           T == InCalls(calls, req')
           Was == req[p].at \in calls
           Is == req'[p].at \in calls
<1>1. IsFiniteSet(S) /\ IsFiniteSet(T)
  BY FS_Subset DEF InCalls
<1>2. Cardinality(S) \in Nat /\ Cardinality(T) \in Nat
  BY <1>1, FS_CardinalityType
<1>3. p \in S <=> Was
  BY DEF InCalls
<1>4. CASE Is
  <2>1. T = S \cup {p} BY <1>4 DEF InCalls, Moves
  <2>2. Cardinality(S \cup {p}) = IF p \in S THEN Cardinality(S) ELSE Cardinality(S) + 1
    BY <1>1, FS_AddElement
  <2>3. OneIn(calls, req'[p]) = 1 /\ OneIn(calls, req[p]) = IF Was THEN 1 ELSE 0
    BY <1>4 DEF OneIn
  <2> HIDE DEF S, T, Was, Is
  <2>4. Cardinality(T) = Cardinality(S) + OneIn(calls, req'[p]) - OneIn(calls, req[p])
    BY <1>2, <1>3, <2>1, <2>2, <2>3
  <2> QED BY <1>2, <2>4 DEF S, T
<1>5. CASE ~Is
  <2>1. T = S \ {p} BY <1>5 DEF InCalls, Moves
  <2>2. Cardinality(S \ {p}) = IF p \in S THEN Cardinality(S) - 1 ELSE Cardinality(S)
    BY <1>1, FS_RemoveElement
  <2>3. OneIn(calls, req'[p]) = 0 /\ OneIn(calls, req[p]) = IF Was THEN 1 ELSE 0
    BY <1>5 DEF OneIn
  <2> HIDE DEF S, T, Was, Is
  <2>4. Cardinality(T) = Cardinality(S) + OneIn(calls, req'[p]) - OneIn(calls, req[p])
    BY <1>2, <1>3, <2>1, <2>2, <2>3
  <2> QED BY <1>2, <2>4 DEF S, T
<1> QED BY <1>4, <1>5

LEMMA ProductsGrow ==
    ASSUME NEW a \in Nat, NEW b \in Nat, NEW m \in Nat
    PROVE  /\ a * m \in Nat
           /\ a <= b => a * m <= b * m
           /\ (a + b) * m = a * m + b * m
OBVIOUS

LEMMA GreatestCost ==
    ASSUME SomeCostIsGreatest
    PROVE  MaxCost \in Nat /\ \A c \in Costs : c <= MaxCost
<1>1. MaxCost \in Costs /\ \A other \in Costs : other <= MaxCost
  BY DEF SomeCostIsGreatest, MaxCost
<1> QED BY <1>1, SomeCost

(* What is being recorded is at most the greatest cost of each question that *)
(* is recording.                                                            *)
LEMMA RecordingIsBounded ==
    ASSUME IsFiniteSet(Requests), TypeOK, SomeCostIsGreatest
    PROVE  /\ Cardinality(Tokens(Rec, req)) \in Nat
           /\ Cardinality(InCalls(Rec, req)) \in Nat
           /\ Cardinality(Tokens(Rec, req)) <= Cardinality(InCalls(Rec, req)) * MaxCost
<1> DEFINE S == InCalls(Rec, req)
           T == 1..MaxCost
<1>1. MaxCost \in Nat /\ \A c \in Costs : c <= MaxCost
  BY GreatestCost
<1>2. Tokens(Rec, req) \subseteq S \X T
  <2> SUFFICES ASSUME NEW x \in Tokens(Rec, req)  PROVE x \in S \X T
    OBVIOUS
  <2>1. x \in Requests \X Nat /\ x[2] \in 1..Worth(Rec, req[x[1]])
    BY DEF Tokens
  <2>2. req[x[1]].at \in Rec /\ x[2] \in 1..req[x[1]].cost
    BY <2>1 DEF Worth
  <2>3. req[x[1]].cost \in Costs \cup {0}
    BY <2>1 DEF TypeOK
  <2>4. req[x[1]].cost \in Nat
    BY <2>1, CostIsNatural
  <2>5. req[x[1]].cost <= MaxCost
    BY <2>3, <1>1
  <2>6. x[2] \in T
    BY <2>2, <2>4, <2>5, <1>1
  <2>7. x[1] \in S
    BY <2>1, <2>2 DEF InCalls
  <2> QED BY <2>1, <2>6, <2>7
<1>3. IsFiniteSet(S)
  BY FS_Subset DEF InCalls
<1>4. IsFiniteSet(T) /\ Cardinality(T) = MaxCost
  <2>1. 1 \in Int /\ MaxCost \in Int BY <1>1
  <2>2. /\ IsFiniteSet(1..MaxCost)
        /\ Cardinality(1..MaxCost) = IF 1 > MaxCost THEN 0 ELSE MaxCost - 1 + 1
    BY ONLY <2>1, FS_Interval, Zenon
  <2> QED BY <2>2, <1>1
<1> HIDE DEF S, T
<1>5. IsFiniteSet(S \X T) /\ Cardinality(S \X T) = Cardinality(S) * Cardinality(T)
  BY <1>3, <1>4, FS_Product
<1>6. IsFiniteSet(Tokens(Rec, req)) /\ Cardinality(Tokens(Rec, req)) <= Cardinality(S \X T)
  BY <1>2, <1>5, FS_Subset
<1> QED BY <1>3, <1>4, <1>5, <1>6, FS_CardinalityType DEF S

LEMMA OvershootKept ==
    ASSUME IsFiniteSet(Requests), SomeCostIsGreatest, TypeOK, ExactMonth, Overshoot,
           NEW p \in Requests, NEW call, Orderly(p, call)
    PROVE  Overshoot'
<1> SUFFICES ASSUME TokenLimit > 0
             PROVE  tally'.spent + Cardinality(InCalls(Answering, req')) * MaxCost
                        <= TokenLimit - 1 + Cardinality(Requests) * MaxCost
  <2>1. InCalls(Answering, req)' = InCalls(Answering, req') BY DEF InCalls
  <2> QED BY <2>1 DEF Overshoot
<1> DEFINE M == MaxCost
           all == Cardinality(Requests)
           now == Cardinality(InCalls(Answering, req'))
           was == Cardinality(InCalls(Answering, req))
           recording == Cardinality(InCalls(Rec, req))
           rec == Cardinality(Tokens(Rec, req))
           spent == tally.spent
           spentNow == tally'.spent
           count == Count(MonthKey)
<1>1. /\ M \in Nat /\ all \in Nat /\ spent \in Nat /\ count \in Int /\ TokenLimit \in Nat
      /\ rec \in Nat /\ recording \in Nat /\ rec <= recording * M
  BY GreatestCost, RecordingIsBounded, MonthIsTyped, FS_CardinalityType, QuotaAssumption
<1>o. Moves(p, call) /\ req'[p].at = call /\ <<req[p].at, call>> \in Leads
  BY DEF Orderly, Moves
<1>2. /\ was \in Nat /\ now \in Nat
      /\ now = was + OneIn(Answering, req'[p]) - OneIn(Answering, req[p])
  BY <1>o, NumberOfMove
<1>3. spent + was * M <= TokenLimit - 1 + all * M
  BY DEF Overshoot
<1>4. spentNow = IF IsBilled(p, call) THEN spent + req'[p].cost ELSE spent
  BY DEF Orderly
<1>b. /\ Answering = {"retrieve", "generate"}
      /\ Bill = {"recordExists", "recordSeed", "recordSet", "recordIncr", "ledgerInsert"}
      /\ Rec = {"recordExists", "recordSeed", "recordSet", "recordIncr"}
  BY DEF Bill, Rec, RecordCalls, Answering
<1>5. CASE IsBilled(p, call)
  <2>1. req'[p].cost \in Nat /\ req'[p].cost <= M
    BY <1>5, GreatestCost, SomeCost DEF Orderly
  <2>2. OneIn(Answering, req[p]) = 1 /\ OneIn(Answering, req'[p]) = 0
    BY <1>5, <1>o, <1>b DEF OneIn, IsBilled
  <2>3. was = now + 1
    <3> HIDE DEF was, now
    <3> QED BY <1>2, <2>2
  <2> HIDE DEF M, all, now, was, spent, spentNow
  <2>4. was * M = now * M + M
    <3>1. (now + 1) * M = now * M + 1 * M BY <1>1, <1>2, ProductsGrow
    <3> QED BY <3>1, <2>3, <1>1
  <2>5. now * M \in Nat /\ all * M \in Nat
    BY <1>1, <1>2, ProductsGrow
  <2>6. spentNow + now * M <= TokenLimit - 1 + all * M
    BY <2>1, <2>4, <2>5, <1>1, <1>3, <1>4, <1>5
  <2> QED BY <2>6 DEF M, all, now, spentNow
<1>6. CASE ~IsBilled(p, call) /\ call = "retrieve"
  <2>1. At(p, "monthGet") /\ count < TokenLimit
    BY <1>6, <1>o DEF Leads, At, Orderly
  <2>2. count + rec = spent
    <3>1. req[p].at \in Past BY <2>1 DEF At, Past
    <3> QED BY <3>1 DEF ExactMonth
  <2>3. now + recording <= all
    <3>1. InCalls(Answering, req') \cap InCalls(Rec, req) = {}
      <4>1. ASSUME NEW q \in Requests, req'[q].at \in Answering  PROVE req[q].at \notin Rec
        <5>1. CASE q = p
          BY <5>1, <2>1, <1>b DEF At
        <5>2. CASE q # p
          BY <5>2, <4>1, <1>o, <1>b DEF Moves
        <5> QED BY <5>1, <5>2
      <4> QED BY <4>1 DEF InCalls
    <3>2. (InCalls(Answering, req') \cup InCalls(Rec, req)) \subseteq Requests
      BY DEF InCalls
    <3>3. IsFiniteSet(InCalls(Answering, req')) /\ IsFiniteSet(InCalls(Rec, req))
      BY FS_Subset DEF InCalls
    <3> DEFINE A == InCalls(Answering, req')
               R == InCalls(Rec, req)
    <3> HIDE DEF A, R
    <3>4. Cardinality(A \cup R) = Cardinality(A) + Cardinality(R) - Cardinality(A \cap R)
      BY <3>3, FS_Union DEF A, R
    <3>5. Cardinality(A \cup R) <= all
      BY <3>2, FS_Subset DEF A, R
    <3>6. Cardinality(A \cap R) = 0
      BY <3>1, FS_EmptySet DEF A, R
    <3>7. Cardinality(A) = now /\ Cardinality(R) = recording
      BY DEF A, R
    <3> HIDE DEF now, recording, all
    <3> QED BY <3>4, <3>5, <3>6, <3>7, <1>1, <1>2
  <2> HIDE DEF M, all, now, was, spent, spentNow, recording, rec, count
  <2>4. now * M + recording * M <= all * M
    <3>1. (now + recording) * M = now * M + recording * M BY <1>1, <1>2, ProductsGrow
    <3>2. now + recording \in Nat BY <1>1, <1>2
    <3>3. (now + recording) * M <= all * M BY <3>2, <2>3, <1>1, ProductsGrow
    <3> QED BY <3>1, <3>3
  <2>5. now * M \in Nat /\ recording * M \in Nat /\ all * M \in Nat
    BY <1>1, <1>2, ProductsGrow
  <2>6. spentNow + now * M <= TokenLimit - 1 + all * M
    BY <2>1, <2>2, <2>4, <2>5, <1>1, <1>4, <1>6
  <2> QED BY <2>6 DEF M, all, now, spentNow
<1>7. CASE ~IsBilled(p, call) /\ call # "retrieve"
  <2>1. OneIn(Answering, req'[p]) = 1 => OneIn(Answering, req[p]) = 1
    BY <1>7, <1>o, <1>b DEF OneIn, Leads
  <2>2. OneIn(Answering, req'[p]) \in {0, 1} /\ OneIn(Answering, req[p]) \in {0, 1}
    BY DEF OneIn
  <2> HIDE DEF M, all, now, was, spent, spentNow
  <2>3. now <= was
    BY <2>1, <2>2, <1>2
  <2>4. now * M <= was * M /\ now * M \in Nat /\ was * M \in Nat /\ all * M \in Nat
    BY <2>3, <1>1, <1>2, ProductsGrow
  <2>5. spentNow + now * M <= TokenLimit - 1 + all * M
    BY <2>4, <1>1, <1>3, <1>4, <1>7
  <2> QED BY <2>5 DEF M, all, now, spentNow
<1> QED BY <1>5, <1>6, <1>7

-----------------------------------------------------------------------------
(* The first day's counter, exactly.  While its key is missing, no question  *)
(* has passed it.                                                           *)
Counted == Owes \cup {"generate"} \cup Bill
ExactDay ==
    today = 1 =>
        /\ \A q \in Requests : req[q].day = 1
        /\ \A d \in Days : d # 1 => ledger.answers[d] = 0
        /\ Exists(DayKey(1)) =>
               Count(DayKey(1)) = ledger.answers[1] + Cardinality(InCalls(Counted, req))
        /\ ~Exists(DayKey(1)) =>
               /\ ledger.answers[1] = 0
               /\ \A q \in Requests :
                      /\ req[q].at \notin Counted \cup {"dayIncr"}
                      /\ At(q, "daySet") => req[q].seed = 0

LEMMA DayAfterSent ==
    ASSUME NEW d, NEW p \in Requests, redis' = Sent(p), req[p].day = d
    PROVE  Count(DayKey(d))' =
               IF At(p, "dayIncr") THEN Count(DayKey(d)) + 1
               ELSE IF req[p].at \in {"giveBack", "releaseDecr"} THEN Count(DayKey(d)) + (-1)
               ELSE IF At(p, "daySet") /\ ~Exists(DayKey(d)) THEN req[p].seed
               ELSE Count(DayKey(d))
<1> DEFINE D == DayKey(d)
<1>1. D # MonthKey /\ \A day : D # WidgetKey(day)
  BY DEF DayKey, MonthKey, WidgetKey
<1> HIDE DEF D
<1>2. CASE At(p, "dayIncr")
  <2>1. redis' = Plus(DayKey(d), 1) BY <1>2 DEF Sent, At
  <2> QED BY <1>2, <2>1, CountsChange DEF At
<1>3. CASE req[p].at \in {"giveBack", "releaseDecr"}
  <2>1. redis' = Plus(DayKey(d), -1) BY <1>3 DEF Sent, At
  <2>2. Count(DayKey(d))' = Count(DayKey(d)) + (-1) BY <2>1, CountsChange
  <2>3. ~At(p, "dayIncr") BY <1>3 DEF At
  <2> QED BY <1>3, <2>2, <2>3
<1>4. CASE At(p, "daySet")
  <2>1. redis' = SetNX(DayKey(d), req[p].seed) BY <1>4 DEF Sent, At
  <2> QED BY <1>4, <2>1, CountsChange DEF At
<1>5. CASE req[p].at \notin {"dayIncr", "giveBack", "releaseDecr", "daySet"}
  <2>1. \/ \E n : \/ \E day : redis' = Plus(WidgetKey(day), n)
                  \/ redis' = Plus(MonthKey, n) \/ redis' = SetNX(MonthKey, n)
        \/ redis' = redis
    BY <1>5 DEF Sent, At
  <2>2. ASSUME NEW k, k # D, NEW n, redis' = Plus(k, n) \/ redis' = SetNX(k, n)
        PROVE  Count(D)' = Count(D)
    BY <2>2, CountsChange
  <2>3. Count(D)' = Count(D)
    BY <2>1, <2>2, <1>1, CountsChange
  <2> QED BY <1>5, <2>3 DEF D, At
<1> QED BY <1>2, <1>3, <1>4, <1>5 DEF At

LEMMA NoRowsNoAnswers ==
    ASSUME TypeOK, \A d \in Days : ledger.answers[d] = 0, NEW day
    PROVE  AnswersSince(day) = 0
<1>1. ASSUME NEW row \in Days \X (1..MaxAsked)
      PROVE  ~(row[2] <= ledger.answers[row[1]])
  <2>1. row[1] \in Days /\ row[2] \in 1..MaxAsked OBVIOUS
  <2>2. ledger.answers[row[1]] = 0 BY <2>1
  <2>3. row[2] > 0 BY <2>1, QuotaAssumption
  <2>4. row[2] \in Int BY <2>1, QuotaAssumption
  <2> QED BY <2>2, <2>3, <2>4
<1>2. LedgerRows = {}
  BY <1>1 DEF LedgerRows
<1>3. {row \in LedgerRows : row[1] >= day} = {}
  BY <1>2
<1> QED BY <1>3, FS_EmptySet DEF AnswersSince

LEMMA ExactDayKept ==
    ASSUME IsFiniteSet(Requests), TypeOK, TypeOK', ExactDay,
           NEW p \in Requests, NEW call, Orderly(p, call)
    PROVE  ExactDay'
<1> SUFFICES ASSUME today' = 1  PROVE ExactDay'
  BY DEF ExactDay
<1> DEFINE now == Cardinality(InCalls(Counted, req'))
           was == Cardinality(InCalls(Counted, req))
           count == Count(DayKey(1))
           countNow == Count(DayKey(1))'
           rows == ledger.answers[1]
           rowsNow == ledger'.answers[1]
           here == Exists(DayKey(1))
           hereNow == Exists(DayKey(1))'
<1>0. 1 \in Days /\ today = 1
  BY QuotaAssumption DEF Days, Orderly
<1>1. /\ \A q \in Requests : req[q].day = 1
      /\ \A d \in Days : d # 1 => ledger.answers[d] = 0
      /\ here => count = rows + was
      /\ ~here => rows = 0
  BY <1>0 DEF ExactDay
<1>2. ASSUME ~here, NEW q \in Requests
      PROVE  /\ req[q].at \notin Counted \cup {"dayIncr"}
             /\ At(q, "daySet") => req[q].seed = 0
  BY <1>0, <1>2 DEF ExactDay
<1>b. /\ Counted = {"monthExists", "monthSeed", "monthSet", "monthGet", "retrieve", "giveBack",
                    "releaseExists", "releaseDecr", "generate", "recordExists", "recordSeed",
                    "recordSet", "recordIncr", "ledgerInsert"}
  BY DEF Counted, Owes, Holds, BudgetCalls, Bill, RecordCalls
<1>o. /\ Moves(p, call) /\ req'[p].at = call /\ <<req[p].at, call>> \in Leads
      /\ redis' = Sent(p) /\ \A q \in Requests \ {p} : req'[q] = req[q]
  BY DEF Orderly, Moves
<1>3. /\ was \in Nat /\ now \in Nat
      /\ now = was + OneIn(Counted, req'[p]) - OneIn(Counted, req[p])
  BY <1>o, NumberOfMove
<1>4. /\ count \in Int /\ rows \in Nat
  BY <1>0, DayIsTyped DEF TypeOK
<1>5. \A q \in Requests : req'[q].day = 1
  <2>1. req'[p].day = 1 BY <1>0, <1>1 DEF Orderly
  <2> QED BY <2>1, <1>o, <1>1
<1>6. /\ rowsNow = IF At(p, "ledgerInsert") THEN rows + 1 ELSE rows
      /\ \A d \in Days : d # 1 => ledger'.answers[d] = 0
  <2>1. ledger \in [answers : [Days -> Nat], tokens : Nat] BY DEF TypeOK
  <2>2. CASE At(p, "ledgerInsert")
    <3>1. ledger' = [ledger EXCEPT !.answers[1] = @ + 1, !.tokens = @ + req[p].cost]
      BY <2>2, <1>0 DEF Orderly
    <3>2. ledger'.answers = [ledger.answers EXCEPT ![1] = @ + 1]
      BY <2>1, <3>1
    <3>3. rowsNow = rows + 1  BY <2>1, <3>2, <1>0
    <3>4. \A d \in Days : d # 1 => ledger'.answers[d] = ledger.answers[d]
      BY <2>1, <3>2
    <3> QED BY <2>2, <3>3, <3>4, <1>1
  <2>3. CASE ~At(p, "ledgerInsert")
    <3> QED BY <2>3, <1>1 DEF Orderly
  <2> QED BY <2>2, <2>3
<1>7. countNow = IF At(p, "dayIncr") THEN count + 1
                 ELSE IF req[p].at \in {"giveBack", "releaseDecr"} THEN count + (-1)
                 ELSE IF At(p, "daySet") /\ ~here THEN req[p].seed
                 ELSE count
  BY <1>o, <1>1, DayAfterSent
<1>8. /\ here => hereNow
      /\ hereNow /\ ~here => req[p].at \in {"daySet", "dayIncr", "giveBack", "releaseDecr"}
      /\ req[p].at \in {"daySet", "dayIncr"} => hereNow
  BY <1>o, <1>1, KeysAfterSent
<1>9. ASSUME hereNow
      PROVE  countNow = rowsNow + now
  <2>1. CASE here
    <3>1. ~(At(p, "releaseExists") /\ call = "idle")
      BY <2>1, <1>0 DEF Orderly
    <3>2. CASE At(p, "dayIncr")
      <4>1. OneIn(Counted, req'[p]) = 1 /\ OneIn(Counted, req[p]) = 0
        BY <3>2, <1>o, <1>b DEF At, OneIn, Leads
      <4>2. countNow = count + 1 /\ rowsNow = rows BY <3>2, <1>6, <1>7 DEF At
      <4> HIDE DEF was, now, count, countNow, rows, rowsNow, here
      <4> QED BY <4>1, <4>2, <2>1, <1>1, <1>3, <1>4
    <3>3. CASE req[p].at \in {"giveBack", "releaseDecr"}
      <4>1. OneIn(Counted, req'[p]) = 0 /\ OneIn(Counted, req[p]) = 1
        BY <3>3, <1>o, <1>b DEF OneIn, Leads
      <4>2. countNow = count + (-1) /\ rowsNow = rows BY <3>3, <1>6, <1>7 DEF At
      <4> HIDE DEF was, now, count, countNow, rows, rowsNow, here
      <4> QED BY <4>1, <4>2, <2>1, <1>1, <1>3, <1>4
    <3>4. CASE At(p, "ledgerInsert")
      <4>1. OneIn(Counted, req'[p]) = 0 /\ OneIn(Counted, req[p]) = 1
        BY <3>4, <1>o, <1>b DEF At, OneIn, Leads
      <4>2. countNow = count /\ rowsNow = rows + 1 BY <3>4, <1>6, <1>7 DEF At
      <4> HIDE DEF was, now, count, countNow, rows, rowsNow, here
      <4> QED BY <4>1, <4>2, <2>1, <1>1, <1>3, <1>4
    <3>5. CASE req[p].at \notin {"dayIncr", "giveBack", "releaseDecr", "ledgerInsert"}
      <4>1. /\ OneIn(Counted, req'[p]) = OneIn(Counted, req[p])
            /\ OneIn(Counted, req[p]) \in {0, 1}
        BY <3>1, <3>5, <1>o, <1>b DEF At, OneIn, Leads
      <4>2. countNow = count /\ rowsNow = rows BY <3>5, <2>1, <1>6, <1>7 DEF At
      <4> HIDE DEF was, now, count, countNow, rows, rowsNow, here
      <4> QED BY <4>1, <4>2, <2>1, <1>1, <1>3, <1>4
    <3> QED BY <3>2, <3>3, <3>4, <3>5 DEF At
  <2>2. CASE ~here
    <3>1. At(p, "daySet") /\ req[p].seed = 0
      BY <2>2, <1>2, <1>8, <1>9, <1>b DEF At
    <3>2. countNow = 0 /\ rowsNow = 0
      BY <3>1, <2>2, <1>1, <1>6, <1>7 DEF At
    <3>3. InCalls(Counted, req') = {}
      <4>1. req'[p].at \notin Counted BY <3>1, <1>o, <1>b DEF At, Leads
      <4>2. ASSUME NEW q \in Requests PROVE req'[q].at \notin Counted
        BY <4>1, <2>2, <1>2, <1>o
      <4> QED BY <4>2 DEF InCalls
    <3>4. now = 0 BY <3>3, FS_EmptySet
    <3> QED BY <3>2, <3>4
  <2> QED BY <2>1, <2>2
<1>10. ASSUME ~hereNow
       PROVE  /\ rowsNow = 0
              /\ \A q \in Requests : /\ req'[q].at \notin Counted \cup {"dayIncr"}
                                     /\ req'[q].at = "daySet" => req'[q].seed = 0
  <2>1. ~here BY <1>8, <1>10
  <2>2. req[p].at \notin Counted \cup {"dayIncr", "daySet"}
    BY <2>1, <1>2, <1>8, <1>10
  <2>3. call \notin Counted \cup {"dayIncr"}
    <3>1. ~(At(p, "dayExists") /\ call = "dayIncr") BY <2>1, <1>0 DEF Orderly
    <3> QED BY <3>1, <2>2, <1>o, <1>b DEF At, Leads
  <2>4. rowsNow = 0
    BY <2>1, <2>2, <1>1, <1>6, <1>b DEF At
  <2>5. call = "daySet" => req'[p].seed = 0
    <3>1. \A d \in Days : ledger.answers[d] = 0 BY <2>1, <1>1
    <3>2. AnswersSince(req[p].day) = 0 BY <3>1, NoRowsNoAnswers
    <3> QED BY <3>2 DEF Orderly
  <2>6. ASSUME NEW q \in Requests
        PROVE  /\ req'[q].at \notin Counted \cup {"dayIncr"}
               /\ req'[q].at = "daySet" => req'[q].seed = 0
    <3>1. CASE q = p
      BY <3>1, <2>3, <2>5, <1>o
    <3>2. CASE q # p
      <4>1. req'[q] = req[q] BY <3>2, <1>o
      <4>2. /\ req[q].at \notin Counted \cup {"dayIncr"}
            /\ req[q].at = "daySet" => req[q].seed = 0
        BY <2>1, <1>2 DEF At
      <4> QED BY <4>1, <4>2
    <3> QED BY <3>1, <3>2
  <2> QED BY <2>4, <2>6
<1>11. InCalls(Counted, req)' = InCalls(Counted, req')
  BY DEF InCalls
<1> QED BY <1>5, <1>6, <1>9, <1>10, <1>11 DEF ExactDay, At

ExactInv == MonthInv /\ (Exact => ExactMonth /\ ExactDay)

LEMMA ExactnessStarts == Init => ExactInv
<1> SUFFICES ASSUME Init PROVE ExactInv
  OBVIOUS
<1>1. MonthInv
  BY MonthStartsOk
<1>2. Cardinality(Tokens(Bill, req)) = 0
  <2>1. \A q \in Requests : Worth(Bill, req[q]) = 0
    BY DEF Init, Idle, Worth
  <2>2. 1..0 = {} OBVIOUS
  <2>3. Tokens(Bill, req) = {} BY <2>1, <2>2 DEF Tokens
  <2> QED BY <2>3, FS_EmptySet
<1>3. /\ ~Exists(MonthKey) /\ ~Exists(DayKey(1)) /\ ledger.tokens = 0 /\ tally.spent = 0
      /\ \A d \in Days : ledger.answers[d] = 0
      /\ \A q \in Requests : req[q].at = "idle" /\ req[q].day = 1
  BY DEF Init, Exists, Idle
<1>4. ExactMonth
  BY <1>2, <1>3 DEF ExactMonth, Past, Answering, Bill, RecordCalls, At
<1>5. ExactDay
  <2>1. 1 \in Days BY QuotaAssumption DEF Days
  <2> QED BY <2>1, <1>3 DEF ExactDay, Counted, Owes, Holds, BudgetCalls, Bill, RecordCalls, At
<1> QED BY <1>1, <1>4, <1>5 DEF ExactInv

LEMMA NothingSpentAtFirst ==
    ASSUME IsFiniteSet(Requests), SomeCostIsGreatest, Init
    PROVE  Overshoot
<1>1. InCalls(Answering, req) = {}
  BY DEF Init, Idle, InCalls, Answering
<1>2. Cardinality(InCalls(Answering, req)) = 0 /\ tally.spent = 0
  BY <1>1, FS_EmptySet DEF Init
<1>3. Cardinality(Requests) \in Nat /\ MaxCost \in Nat /\ TokenLimit \in Nat
  BY FS_CardinalityType, GreatestCost, QuotaAssumption
<1>4. Cardinality(Requests) * MaxCost \in Nat /\ 0 * MaxCost = 0
  BY <1>3, ProductsGrow
<1> DEFINE most == Cardinality(Requests) * MaxCost
<1> HIDE DEF most
<1>5. TokenLimit > 0 => 0 <= TokenLimit - 1 + most
  BY <1>3, <1>4 DEF most
<1> QED BY <1>2, <1>4, <1>5 DEF Overshoot, most

LEMMA ExactnessStays ==
    ASSUME IsFiniteSet(Requests), ExactInv, [Next]_vars
    PROVE  /\ ExactInv'
           /\ SomeCostIsGreatest /\ (Exact => Overshoot) => (Exact => Overshoot)'
<1>1. TypeOK /\ TypeOK' /\ IsFiniteSet(Tokens(Bill, req)) /\ MonthInv'
  BY MonthStays DEF ExactInv, MonthInv, MonthOk
<1>2. Exact' => Exact
  BY <1>1, FaultsStay DEF Exact, OnlyFailed
<1>3. ASSUME Exact'
      PROVE  /\ ExactMonth' /\ ExactDay'
             /\ SomeCostIsGreatest /\ Overshoot => Overshoot'
  <2>1. ExactMonth /\ ExactDay
    BY <1>2, <1>3 DEF ExactInv
  <2>2. ASSUME NEW p \in Requests, Step(p)
        PROVE  /\ ExactMonth' /\ ExactDay'
               /\ SomeCostIsGreatest /\ Overshoot => Overshoot'
    <3>1. PICK call : Orderly(p, call)
      BY <2>2, <1>1, <1>3, ExactSteps
    <3>2. ExactMonth' BY <3>1, <2>1, <1>1, ExactMonthKept
    <3>3. ExactDay' BY <3>1, <2>1, <1>1, ExactDayKept
    <3>4. SomeCostIsGreatest /\ Overshoot => Overshoot' BY <3>1, <2>1, <1>1, OvershootKept
    <3> QED BY <3>2, <3>3, <3>4
  <2>3. ~RestartRedis
    <3> SUFFICES ASSUME RestartRedis PROVE FALSE
      OBVIOUS
    <3>1. "restart" \in failures'.kinds
      BY <1>1, FailuresAreTyped DEF RestartRedis, FaultKinds
    <3> QED BY <3>1, <1>3 DEF Exact, OnlyFailed
  <2>4. CASE Midnight \/ UNCHANGED vars
    <3>1. /\ UNCHANGED <<redis, ledger, req, tally>>
          /\ today' = 1 => today = 1
      <4>1. today' = today + 1 => today' # 1
        <5>1. today \in 1..LastDay /\ LastDay \in Nat BY <1>1, QuotaAssumption DEF TypeOK, Days
        <5> QED BY <5>1
      <4> QED BY <2>4, <4>1 DEF Midnight, vars
    <3>2. /\ Tokens(Bill, req)' = Tokens(Bill, req) /\ Tokens(Rec, req)' = Tokens(Rec, req)
          /\ InCalls(Counted, req)' = InCalls(Counted, req)
          /\ InCalls(Answering, req)' = InCalls(Answering, req)
      BY <3>1 DEF Tokens, InCalls
    <3>3. /\ Count(MonthKey)' = Count(MonthKey) /\ Exists(MonthKey)' = Exists(MonthKey)
          /\ Count(DayKey(1))' = Count(DayKey(1)) /\ Exists(DayKey(1))' = Exists(DayKey(1))
      BY <3>1 DEF Count, Exists, MonthKey, DayKey
    <3>4. ExactMonth' BY <2>1, <3>1, <3>2, <3>3 DEF ExactMonth, At
    <3>5. ExactDay' BY <2>1, <3>1, <3>2, <3>3 DEF ExactDay, At
    <3>6. Overshoot => Overshoot' BY <3>1, <3>2 DEF Overshoot
    <3> QED BY <3>4, <3>5, <3>6
  <2> QED BY <2>2, <2>3, <2>4 DEF Next
<1> QED BY <1>1, <1>2, <1>3 DEF ExactInv

(* While only providers fail, a counter with nothing in progress is what the *)
(* ledger would rebuild it to, for any number of questions, costs and        *)
(* limits: every question that is refused or fails hands back what it took,  *)
(* and every answer is counted as often as it has a row (consume_message,    *)
(* release_message, _record_usage).                                         *)
THEOREM CountersMatchLedger ==
    ASSUME IsFiniteSet(Requests)
    PROVE  Spec => []RebuildIsExact
<1>1. Init => ExactInv
  BY ExactnessStarts
<1>2. ExactInv /\ [Next]_vars => ExactInv'
  BY ExactnessStays
<1>3. ExactInv => RebuildIsExact
  <2> SUFFICES ASSUME ExactInv, Quiet, Exact
               PROVE  /\ today = 1 /\ Exists(DayKey(1)) => redis[DayKey(1)] = ledger.answers[1]
                      /\ Exists(MonthKey) => redis[MonthKey] = ledger.tokens
    BY DEF RebuildIsExact, Exact
  <2>1. ExactMonth /\ ExactDay /\ TypeOK
    BY DEF ExactInv, MonthInv
  <2>2. /\ InCalls(Counted, req) = {} /\ Tokens(Bill, req) = {} /\ Tokens(Rec, req) = {}
    <3>1. \A q \in Requests : req[q].at = "idle" BY DEF Quiet, At
    <3>2. "idle" \notin Counted /\ "idle" \notin Bill /\ "idle" \notin Rec
      BY DEF Counted, Owes, Holds, BudgetCalls, Bill, Rec, RecordCalls
    <3>3. \A q \in Requests : Worth(Bill, req[q]) = 0 /\ Worth(Rec, req[q]) = 0
      BY <3>1, <3>2 DEF Worth
    <3>4. 1..0 = {} OBVIOUS
    <3> QED BY <3>1, <3>2, <3>3, <3>4 DEF InCalls, Tokens
  <2>3. /\ Cardinality(InCalls(Counted, req)) = 0 /\ Cardinality(Tokens(Bill, req)) = 0
        /\ Cardinality(Tokens(Rec, req)) = 0
    BY <2>2, FS_EmptySet
  <2>4. 1 \in Days BY QuotaAssumption DEF Days
  <2>5. /\ ledger.answers[1] \in Nat /\ ledger.tokens \in Nat
    BY <2>1, <2>4 DEF TypeOK
  <2>6. ASSUME today = 1, Exists(DayKey(1))  PROVE redis[DayKey(1)] = ledger.answers[1]
    <3>1. Count(DayKey(1)) = ledger.answers[1] + 0 BY <2>1, <2>3, <2>6 DEF ExactDay
    <3> QED BY <3>1, <2>5, <2>6 DEF Count
  <2>7. ASSUME Exists(MonthKey)  PROVE redis[MonthKey] = ledger.tokens
    <3>1. Count(MonthKey) + 0 = tally.spent /\ ledger.tokens + 0 = tally.spent
      BY <2>1, <2>3, <2>7 DEF ExactMonth
    <3>2. Count(MonthKey) = redis[MonthKey] BY <2>7 DEF Count
    <3>3. Count(MonthKey) \in Int BY <2>1, MonthIsTyped
    <3> QED BY <3>1, <3>2, <3>3, <2>5
  <2> QED BY <2>6, <2>7
<1> QED BY <1>1, <1>2, <1>3, PTL DEF Spec

(* While only providers fail, the month's allowance is passed by no more     *)
(* than one answer of each question in progress, for any limit and any costs *)
(* with a greatest: it is read before an answer and recorded after it.       *)
THEOREM OvershootIsBounded ==
    ASSUME IsFiniteSet(Requests), SomeCostIsGreatest
    PROVE  Spec => []BoundedOvershoot
<1> DEFINE Inv == ExactInv /\ (Exact => Overshoot)
<1>1. Init => Inv
  BY ExactnessStarts, NothingSpentAtFirst
<1>2. Inv /\ [Next]_vars => Inv'
  BY ExactnessStays
<1>3. Inv => BoundedOvershoot
  <2> SUFFICES ASSUME Inv, Exact, TokenLimit > 0
               PROVE  tally.spent <= TokenLimit - 1 + Cardinality(Requests) * MaxCost
    BY DEF BoundedOvershoot, Exact
  <2> DEFINE held == Cardinality(InCalls(Answering, req)) * MaxCost
             most == Cardinality(Requests) * MaxCost
  <2>1. tally.spent + held <= TokenLimit - 1 + most
    BY DEF Overshoot
  <2>2. held \in Nat /\ most \in Nat
    <3>1. IsFiniteSet(InCalls(Answering, req)) BY FS_Subset DEF InCalls
    <3> QED BY <3>1, FS_CardinalityType, GreatestCost, ProductsGrow
  <2>3. tally.spent \in Nat /\ TokenLimit \in Nat
    BY MonthIsTyped, QuotaAssumption DEF ExactInv, MonthInv
  <2> HIDE DEF held, most
  <2>4. tally.spent <= TokenLimit - 1 + most
    BY <2>1, <2>2, <2>3
  <2> QED BY <2>4 DEF most
<1> QED BY <1>1, <1>2, <1>3, PTL DEF Spec

=============================================================================
