-------------------------------- MODULE Chatbot --------------------------------
(***************************************************************************)
(* What a tenant sets up for its visitors, within its plan: widgets, their  *)
(* knowledge bases, the chatbot's settings, the teams that take over, the   *)
(* agents' browsers and the answers' ratings (application/ai_resources:     *)
(* manage_chat_widget.py, manage_presentation.py, manage_chatbot.py,        *)
(* manage_push.py, answer_feedback.py, entitlements.py).                    *)
(* A row is saved whole, as it was read: by any of the edits, every column. *)
(***************************************************************************)
EXTENDS Catalogue

CONSTANTS
    Widgets, Bases, Teams, Ratings,   \* identities of their rows
    Limits,            \* the numbers a plan or a setting may be set to
    TeamNames, DefaultTeamName,
    Endpoints,         \* browsers' push endpoints
    MaxFeedback        \* MAX_FEEDBACK_PER_VISITOR_SESSION

ASSUME ChatbotAssumption ==
    /\ Limits \subseteq Nat /\ MaxFeedback \in Nat
    /\ DefaultTeamName \in TeamNames
    /\ {"none", "member"} \cap Widgets = {}
    /\ IsFiniteSet(Widgets) /\ IsFiniteSet(Bases) /\ IsFiniteSet(Ratings)

Plan == <<"plan">>
Settings == <<"settings">>
Widget(w) == <<"widget", w>>
Visit(w) == <<"visit", w>>            \* a visitor's conversation in the widget
Base(b) == <<"base", b>>
Team(t) == <<"team", t>>
Roster(t, m) == <<"roster", t, m>>
Rating(n) == <<"rating", n>>
Browser(m, e) == <<"browser", m, e>>

WidgetRows == {Widget(w) : w \in Widgets}
BaseRows == {Base(b) : b \in Bases}
TeamRows == {Team(t) : t \in Teams}
RosterRows(t) == {Roster(t, m) : m \in People}
RatingRows == {Rating(n) : n \in Ratings}
BrowserRows == {Browser(m, e) : m \in People, e \in Endpoints}
ChatbotRows ==
    {Plan, Settings} \cup WidgetRows \cup {Visit(w) : w \in Widgets} \cup BaseRows
        \cup TeamRows \cup (UNION {RosterRows(t) : t \in Teams}) \cup RatingRows \cup BrowserRows

PlanValues == [widgets : Limits, bases : Limits, daily : Limits]
SettingsValues == [there : BOOLEAN, on : BOOLEAN, limit : Limits, persona : Numbers]
WidgetValues == [there : BOOLEAN, on : BOOLEAN, base : Bases, cap : Limits,
                 name : Numbers, look : Numbers]
TeamValues == [there : BOOLEAN, active : BOOLEAN, name : TeamNames]
RatingValues == {"none", "member"} \cup Widgets

ChatbotValues(r) ==
    CASE r[1] = "plan"     -> PlanValues
      [] r[1] = "settings" -> SettingsValues
      [] r[1] = "widget"   -> WidgetValues
      [] r[1] = "base"     -> [there : BOOLEAN]
      [] r[1] = "team"     -> TeamValues
      [] r[1] = "rating"   -> RatingValues
      [] OTHER             -> BOOLEAN

-----------------------------------------------------------------------------
(* The plan.  A limit governs creation: what is there already stays. *)
SetTenantEntitlements(p) ==
    /\ Decides(p, "set_plan")
    /\ SaveRow(p, Plan, Arg(p).with)

Count(p, rows) == Cardinality({r \in rows : Copy(p, r).there})
OneMore(count, limit) == count <= limit                           \* mutant
MayCreate(count, limit) == count < limit

WithinCeiling(p, n) == n <= Copy(p, Plan).daily

-----------------------------------------------------------------------------
(* Knowledge bases, of which the documents and crawls are Ingestion's. *)
BaseRoutes(p) ==
    \/ \E plan \in PlanValues : Ask(p, "set_plan", 0, plan, << {Plan} >>)
    \/ \E b \in Bases :
        \/ Ask(p, "create_base", b, {}, << {Plan}, BaseRows >>)
        \/ Ask(p, "delete_base", b, {}, << {Base(b)}, WidgetRows >>)
        \/ \E n \in Ratings : Ask(p, "rate", b, n, << {Base(b)} >>)

CreateKnowledgeBase(p) ==
    /\ Decides(p, "create_base")
    /\ MayCreate(Count(p, BaseRows), Copy(p, Plan).bases)
    /\ Insert(p, Base(Arg(p).on), [there |-> TRUE])

(* A base is only marked deleted, which no foreign key looks at. *)
NoWidgetUses(p, b) == \A w \in WidgetRows : ~(Copy(p, w).there /\ Copy(p, w).base = b)
DeleteKnowledgeBase(p) ==
    /\ Decides(p, "delete_base")
    /\ Copy(p, Base(Arg(p).on)).there
    /\ NoWidgetUses(p, Arg(p).on)
    /\ SaveRow(p, Base(Arg(p).on), [there |-> FALSE])

RecordAnswerFeedback(p) ==
    LET n == Rating(Arg(p).with) IN
    /\ Decides(p, "rate")
    /\ Copy(p, Base(Arg(p).on)).there
    /\ Seen(p, n) = "none"
    /\ SaveRow(p, n, "member")

-----------------------------------------------------------------------------
(* Widgets. *)
WidgetRoutes(p) ==
    \E w \in Widgets :
        \/ \E n \in Limits :
            \/ \E b \in Bases : Ask(p, "create_widget", w, [base |-> b, cap |-> n],
                                    << {Plan}, WidgetRows, {Base(b)} >>)
            \/ Ask(p, "update_widget", w, n, << {Widget(w)}, {Plan} >>)
        \/ \E kind \in {"enable_widget", "disable_widget", "present_widget", "visit"} :
               Ask(p, kind, w, {}, << {Widget(w)} >>)
        \/ Ask(p, "delete_widget", w, {}, << {Widget(w)}, {Visit(w)} >>)
        \/ \E n \in Ratings : Ask(p, "rate_chat", w, n, << {Widget(w)}, RatingRows >>)

WidgetRead(p) == Copy(p, Widget(Arg(p).on))
SaveWidget(p, widget) == WidgetRead(p).there /\ Update(p, Widget(Arg(p).on), widget)

CreateChatWidget(p) ==
    /\ Decides(p, "create_widget")
    /\ MayCreate(Count(p, WidgetRows), Copy(p, Plan).widgets)
    /\ WithinCeiling(p, Arg(p).with.cap)
    /\ Copy(p, Base(Arg(p).with.base)).there
    /\ Insert(p, Widget(Arg(p).on),
              [there |-> TRUE, on |-> TRUE, base |-> Arg(p).with.base, cap |-> Arg(p).with.cap,
               name |-> Id(p), look |-> 0])

SetChatWidgetStatus(p) ==
    \E kind \in {"enable_widget", "disable_widget"} :
        /\ Decides(p, kind)
        /\ SaveWidget(p, [WidgetRead(p) EXCEPT !.on = (kind = "enable_widget")])

(* A cap that is kept is not looked at: the plan may be smaller by now. *)
UpdateTurnsOn(p) ==                                               \* mutant
    /\ Decides(p, "update_widget")
    /\ Arg(p).with = WidgetRead(p).cap \/ WithinCeiling(p, Arg(p).with)
    /\ SaveWidget(p, [WidgetRead(p) EXCEPT !.name = Id(p), !.cap = Arg(p).with, !.on = TRUE])
UpdateChatWidget(p) ==
    /\ Decides(p, "update_widget")
    /\ Arg(p).with = WidgetRead(p).cap \/ WithinCeiling(p, Arg(p).with)
    /\ SaveWidget(p, [WidgetRead(p) EXCEPT !.name = Id(p), !.cap = Arg(p).with])

UpdateWidgetPresentation(p) ==
    /\ Decides(p, "present_widget")
    /\ SaveWidget(p, [WidgetRead(p) EXCEPT !.look = Id(p)])

(* Its ratings go with it; a conversation keeps it, and the foreign key     *)
(* holds for one the count has missed. *)
DeleteChatWidget(p) ==
    LET w == Arg(p).on
        OfIt(rating) == rating = w
    IN  /\ Decides(p, "delete_widget")
        /\ WidgetRead(p).there /\ ~Copy(p, Visit(w))
        /\ Unreferred(p, {Visit(w)}, {TRUE})
        /\ Free(p, Widget(w))
        /\ \A q \in Requests \ {p}, n \in RatingRows : n \in Wrote(q) => ~OfIt(draft[q][n])
        /\ Save(p, IF ~Seen(p, Widget(w)).there THEN NoRows
                   ELSE [x \in {Widget(w)} \cup {n \in RatingRows : OfIt(Seen(p, n))} |->
                            IF x = Widget(w) THEN [Seen(p, x) EXCEPT !.there = FALSE, !.on = FALSE]
                                             ELSE "none"])

(* A visitor's first message, on the copy of a separate lookup: the widget  *)
(* may be disabled by now, and is refused only if it is gone. *)
Opens(p) == WidgetRead(p).there /\ WidgetRead(p).on /\ Referable(p, Widget(Arg(p).on))

EnsureVisitorConversation(p) ==
    /\ Decides(p, "visit")
    /\ Opens(p)
    /\ ~Seen(p, Visit(Arg(p).on))
    /\ SaveRow(p, Visit(Arg(p).on), TRUE)

RecordWidgetFeedback(p) ==
    LET n == Rating(Arg(p).with) IN
    /\ Decides(p, "rate_chat")
    /\ Opens(p)
    /\ MayCreate(Cardinality({x \in RatingRows : Copy(p, x) = Arg(p).on}), MaxFeedback)
    /\ Seen(p, n) = "none"
    /\ SaveRow(p, n, Arg(p).on)

-----------------------------------------------------------------------------
(* The settings: a row made by the first that saves it. *)
SettingsRoutes(p) ==
    \/ \E n \in Limits, kind \in {"turn_chatbot_on", "turn_chatbot_off"} :
           Ask(p, kind, 0, n, << {Plan}, {Settings} >>)
    \/ Ask(p, "set_behaviour", 0, {}, << {Settings} >>)

UpdateChatbotSettings(p) ==
    \E kind \in {"turn_chatbot_on", "turn_chatbot_off"} :
        /\ Decides(p, kind)
        /\ WithinCeiling(p, Arg(p).with)
        /\ SaveRow(p, Settings, [Copy(p, Settings) EXCEPT
                       !.there = TRUE, !.on = (kind = "turn_chatbot_on"), !.limit = Arg(p).with])

UpdateChatbotBehaviour(p) ==
    /\ Decides(p, "set_behaviour")
    /\ SaveRow(p, Settings, [Copy(p, Settings) EXCEPT !.there = TRUE, !.persona = Id(p)])

-----------------------------------------------------------------------------
(* Teams.  The first listing makes the default one. *)
TeamRoutes(p) ==
    \/ Ask(p, "list_teams", 0, {}, <<TeamRows>>)
    \/ \E t \in Teams, members \in SUBSET People, n \in TeamNames :
           Ask(p, "save_team", t, [members |-> members, name |-> n], << {Team(t)} >>)

(* uq_tenant_teams_name: whoever writes a name last waits, and fails. *)
NameIsFree(p, t, n) ==
    \A u \in Teams \ {t} :
        /\ ~(Seen(p, Team(u)).there /\ Seen(p, Team(u)).name = n)
        /\ \A q \in Requests \ {p} : Team(u) \in Wrote(q) => draft[q][Team(u)].name # n

ListTeams(p) ==
    /\ Decides(p, "list_teams")
    /\ IF \E t \in TeamRows : Copy(p, t).there
       THEN Save(p, NoRows)
       ELSE \E t \in Teams :
                /\ NameIsFree(p, t, DefaultTeamName)
                /\ Insert(p, Team(t), [there |-> TRUE, active |-> TRUE, name |-> DefaultTeamName])

(* The team's row first: that is what makes overlapping saves of its roster *)
(* wait for each other. *)
SaveRosterOnly(p) ==                                              \* mutant
    /\ Decides(p, "save_team")
    /\ Copy(p, Team(Arg(p).on)).there
    /\ SaveAndGoOn(p, NoRows, "set_members", << RosterRows(Arg(p).on) >>)
SaveTeam(p) ==
    LET t == Team(Arg(p).on) IN
    /\ Decides(p, "save_team")
    /\ Copy(p, t).there <=> Seen(p, t).there
    /\ NameIsFree(p, Arg(p).on, Arg(p).with.name)
    /\ \E active \in BOOLEAN :
           SaveAndGoOn(p, [x \in {t} |-> [there |-> TRUE, active |-> active, name |-> Arg(p).with.name]],
                       "set_members", << RosterRows(Arg(p).on) >>)

(* DELETE of the roster its statement sees, then INSERT of the one asked. *)
SetMembers(p) ==
    LET asked == {Roster(Arg(p).on, m) : m \in Arg(p).with.members}
        before == {r \in RosterRows(Arg(p).on) : Copy(p, r)}
    IN  /\ Decides(p, "set_members")
        /\ \A r \in asked \ before : ~Seen(p, r)
        /\ Save(p, [r \in asked \cup before |-> r \in asked])

-----------------------------------------------------------------------------
(* The agents' browsers, and who is told that a visitor waits: the team.    *)
(* Nothing is held while the notices are sent; the browsers that are gone   *)
(* by then, whoever has them, are deleted in a transaction of its own. *)
PushRoutes(p) ==
    \/ \E m \in People, e \in Endpoints, kind \in {"subscribe", "unsubscribe"} :
           Ask(p, kind, m, e, <<>>)
    \/ \E t \in Teams : Ask(p, "notify", t, {}, << RosterRows(t), BrowserRows >>)

SubscribeToPush(p) ==
    /\ Decides(p, "subscribe")
    /\ SaveRow(p, Browser(Arg(p).on, Arg(p).with), TRUE)

UnsubscribeFromPush(p) ==
    /\ Decides(p, "unsubscribe")
    /\ SaveRow(p, Browser(Arg(p).on, Arg(p).with), FALSE)

Told(p) ==
    {e \in Endpoints : \E m \in People :
        Copy(p, Roster(Arg(p).on, m)) /\ Copy(p, Browser(m, e))}

NotifyAgentsOfHandoff(p) ==
    /\ Decides(p, "notify")
    /\ \E gone \in SUBSET Told(p) :
           Save(p, [r \in {Browser(m, e) : m \in People, e \in gone} |-> FALSE])

ChatbotRoutes(p) ==
    BaseRoutes(p) \/ WidgetRoutes(p) \/ SettingsRoutes(p) \/ TeamRoutes(p) \/ PushRoutes(p)

ChatbotUseCase(p) ==
    \/ SetTenantEntitlements(p) \/ CreateKnowledgeBase(p) \/ DeleteKnowledgeBase(p)
    \/ RecordAnswerFeedback(p) \/ CreateChatWidget(p) \/ SetChatWidgetStatus(p)
    \/ UpdateChatWidget(p) \/ UpdateWidgetPresentation(p) \/ DeleteChatWidget(p)
    \/ EnsureVisitorConversation(p) \/ RecordWidgetFeedback(p)
    \/ UpdateChatbotSettings(p) \/ UpdateChatbotBehaviour(p)
    \/ ListTeams(p) \/ SaveTeam(p) \/ SetMembers(p)
    \/ SubscribeToPush(p) \/ UnsubscribeFromPush(p) \/ NotifyAgentsOfHandoff(p)

=============================================================================
