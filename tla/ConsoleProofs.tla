----------------------------- MODULE ConsoleProofs -----------------------------
(***************************************************************************)
(* What the console promises of a tenant's models, keys, assistants,        *)
(* widgets, teams and conversations, for any number of them and of requests *)
(* that overlap.                                                            *)
(***************************************************************************)
EXTENDS Console, UnitOfWorkProofs, FiniteSetTheorems, WellFoundedInduction

-----------------------------------------------------------------------------
(* What each request is about, and the rows it has read or will read.       *)
ModelKinds == {"create_model", "update_model", "archive_model", "restore_model", "grant_model"}
KeyKinds == {"store_key", "rotate_key", "revoke_key", "attach_key"}
AssistantKinds == {"update_assistant", "publish_assistant", "archive_assistant",
                   "show_assistant", "give_access", "take_access"}
CatalogueKinds ==
    ModelKinds \cup KeyKinds \cup AssistantKinds
        \cup {"revoke_model", "detach_key", "create_assistant"}

CatalogueAsked(kind, args, known) ==
    /\ kind \in ModelKinds => args.on \in Models /\ Model(args.on) \in known
    /\ kind = "revoke_model" => args.on \in Models /\ AssistantRows \subseteq known
    /\ kind \in KeyKinds => args.on \in Keys /\ Key(args.on) \in known
    /\ kind = "detach_key" => args.on = NoKey
    /\ kind \in {"attach_key", "detach_key"} => args.with \in Models
    /\ kind \in AssistantKinds \cup {"create_assistant"} =>
           args.on \in Assistants /\ args.with.actor \in People
    /\ kind \in AssistantKinds => Assistant(args.on) \in known
    /\ kind \in {"create_assistant", "update_assistant"} => args.with.what \in Models
    /\ kind = "show_assistant" => args.with.what \subseteq People
    /\ kind \in {"give_access", "take_access"} => args.with.what.to \in People
    /\ kind = "give_access" => args.with.what.level \in AccessLevels

WidgetKinds == {"update_widget", "enable_widget", "disable_widget", "present_widget",
                "delete_widget", "visit", "rate_chat"}
SettingsKinds == {"turn_chatbot_on", "turn_chatbot_off"}
BrowserKinds == {"subscribe", "unsubscribe"}
ChatbotKinds ==
    WidgetKinds \cup SettingsKinds \cup BrowserKinds
        \cup {"set_plan", "create_base", "delete_base", "rate", "create_widget", "set_behaviour",
              "list_teams", "save_team", "notify"}

ChatbotAsked(kind, args, known) ==
    /\ kind = "set_plan" => args.with \in PlanValues /\ Plan \in known
    /\ kind \in {"create_base", "delete_base", "rate"} => args.on \in Bases
    /\ kind = "create_base" => Plan \in known /\ BaseRows \subseteq known
    /\ kind = "delete_base" => Base(args.on) \in known /\ WidgetRows \subseteq known
    /\ kind \in {"rate", "rate_chat"} => args.with \in Ratings
    /\ kind = "create_widget" =>
           /\ args.on \in Widgets /\ args.with.base \in Bases /\ args.with.cap \in Limits
           /\ Plan \in known /\ WidgetRows \subseteq known /\ Base(args.with.base) \in known
    /\ kind \in WidgetKinds => args.on \in Widgets /\ Widget(args.on) \in known
    /\ kind = "update_widget" => args.with \in Limits /\ Plan \in known
    /\ kind = "rate_chat" => RatingRows \subseteq known
    /\ kind \in SettingsKinds => args.with \in Limits /\ Plan \in known
    /\ kind \in SettingsKinds \cup {"set_behaviour"} => Settings \in known
    /\ kind \in {"save_team", "set_members"} =>
           args.on \in Teams /\ args.with.members \subseteq People /\ args.with.name \in TeamNames
    /\ kind = "save_team" => known = {Team(args.on)}
    /\ kind = "set_members" => RosterRows(args.on) \subseteq known
    /\ kind \in BrowserKinds => args.on \in People /\ args.with \in Endpoints
    /\ kind = "notify" => args.on \in Teams

DialogueKinds == {"rename", "delete", "append", "recall", "start", "purge"}

DialogueAsked(kind, args, known) ==
    /\ kind \in {"rename", "delete", "append", "remember", "recall"} =>
           args.on \in Conversations /\ Conversation(args.on) \in known
    /\ kind = "recall" => MessagesOf(args.on) \subseteq known
    /\ kind = "start" =>
           args.on \in Assistants /\ args.with.what \in Conversations /\ args.with.actor \in People

Asked(kind, args, known) ==
    CatalogueAsked(kind, args, known) /\ ChatbotAsked(kind, args, known)
        /\ DialogueAsked(kind, args, known)

-----------------------------------------------------------------------------
(* What a request's write of a row has in it as long as it is uncommitted:  *)
(* `old` is the committed value, `copy` what the request has read, and      *)
(* `over` the rows saved over a change.                                     *)
ModelKept(kind, over, r, old, new) ==
    r[1] = "model" /\ r \notin over =>
        (old.there /\ old.archived /\ new.there /\ ~new.archived => kind = "restore_model")

KeyKept(over, r, old, new) ==
    r[1] = "key" /\ r \notin over => (old.there /\ old.revoked /\ new.there => new.revoked)

AssistantKept(over, r, old, new) ==
    r[1] = "assistant" =>
        /\ new.status # "absent"
        /\ r \notin over /\ old.status = "archived" => new.status = "archived"

PlanKept(kind, r) == r[1] = "plan" => kind = "set_plan"

SettingsKept(kind, copy, over, r, old, new) ==
    r[1] = "settings" =>
        /\ \/ Settings \in DOMAIN copy /\ new.limit = copy[Settings].limit
           \/ Plan \in DOMAIN copy /\ new.limit <= copy[Plan].daily
        /\ r \notin over /\ old.there /\ ~old.on /\ new.on => kind = "turn_chatbot_on"

CountIn(copy, rows) == Cardinality({r \in rows : copy[r].there})
WidgetCreated(kind, args, copy, r, old, new) ==
    /\ ~old.there /\ kind = "create_widget" /\ r = Widget(args.on)
    /\ MayCreate(CountIn(copy, WidgetRows), copy[Plan].widgets)
    /\ new.cap <= copy[Plan].daily
    /\ new.base = args.with.base /\ copy[Base(new.base)].there
WidgetEdited(kind, copy, over, r, old, new) ==
    /\ old.there /\ kind # "create_widget"
    /\ r \in DOMAIN copy /\ copy[r].there /\ new.base = copy[r].base
    /\ \/ new.cap = copy[r].cap
       \/ Plan \in DOMAIN copy /\ new.cap <= copy[Plan].daily
    /\ r \notin over /\ new.on /\ ~old.on => kind = "enable_widget"
WidgetKept(kind, args, copy, over, r, old, new) ==
    r[1] = "widget" /\ new.there =>
        WidgetCreated(kind, args, copy, r, old, new) \/ WidgetEdited(kind, copy, over, r, old, new)

BaseCreated(kind, args, copy, r, old) ==
    /\ ~old.there /\ kind = "create_base" /\ r = Base(args.on)
    /\ MayCreate(CountIn(copy, BaseRows), copy[Plan].bases)
BaseDeleted(kind, args, copy, r) ==
    /\ kind = "delete_base" /\ r = Base(args.on)
    /\ \A w \in WidgetRows : ~(copy[w].there /\ copy[w].base = args.on)
BaseKept(kind, args, copy, r, old, new) ==
    r[1] = "base" =>
        IF new.there THEN BaseCreated(kind, args, copy, r, old)
                     ELSE BaseDeleted(kind, args, copy, r)

RatingKept(kind, args, copy, r, old, new) ==
    r[1] = "rating" /\ new \in Widgets =>
        /\ kind = "rate_chat" /\ r = Rating(args.with) /\ new = args.on /\ old = "none"
        /\ MayCreate(Cardinality({x \in RatingRows : copy[x] = args.on}), MaxFeedback)

RosterKept(kind, args, r, new) ==
    r[1] = "roster" =>
        /\ kind = "set_members" /\ r \in RosterRows(args.on)
        /\ new <=> \E m \in args.with.members : r = Roster(args.on, m)

TeamKept(kind, r) == r[1] = "team" => kind \in {"set_members", "list_teams"}

ConversationKept(kind, over, r, old, new) ==
    r[1] = "conversation" /\ r \notin over =>
        (old.there /\ old.recent => (new.there /\ new.recent) \/ kind = "delete")

MessageKept(kind, args, r, new) ==
    r[1] = "message" => IF new THEN kind = "remember" /\ r \in MessagesOf(args.on)
                               ELSE kind \in {"delete", "purge"}

Lasting(kind, args, copy, over, r, old, new) ==
    /\ ModelKept(kind, over, r, old, new)
    /\ KeyKept(over, r, old, new)
    /\ AssistantKept(over, r, old, new)
    /\ PlanKept(kind, r)
    /\ SettingsKept(kind, copy, over, r, old, new)
    /\ WidgetKept(kind, args, copy, over, r, old, new)
    /\ BaseKept(kind, args, copy, r, old, new)
    /\ RatingKept(kind, args, copy, r, old, new)
    /\ RosterKept(kind, args, r, new)
    /\ TeamKept(kind, r)
    /\ ConversationKept(kind, over, r, old, new)
    /\ MessageKept(kind, args, r, new)

-----------------------------------------------------------------------------
(* The invariant. *)
DbOk == \A r \in Rows : db[r] \in ValuesOf(r)

DraftOk(p) ==
    \A r \in Wrote(p) :
        /\ r \in Rows
        /\ draft[p][r] \in ValuesOf(r)
        /\ Lasting(req[p].kind, req[p].args, req[p].copy, overwritten, r, db[r], draft[p][r])
        /\ ~req[p].done => r[1] \in {"team", "message"}

RequestOk(p) ==
    /\ req[p].id \in Numbers
    /\ \A r \in DOMAIN req[p].copy : req[p].copy[r] \in ValuesOf(r)
    /\ Asked(req[p].kind, req[p].args, Known(p))
    /\ req[p].done => Known(p) \subseteq DOMAIN req[p].copy
    /\ req[p].kind = "remember" =>
           LET x == Conversation(req[p].args.on) IN x \in DOMAIN req[p].copy /\ req[p].copy[x].there

IInv ==
    /\ UowInv
    /\ begun \in Numbers
    /\ DbOk
    /\ \A p \in Requests : DraftOk(p) /\ RequestOk(p)

-----------------------------------------------------------------------------
(* What is true of a row's write when it is made: the foreign keys, and how *)
(* a conversation's numbers and summary are computed from what is seen.     *)
After(p, new, x) == IF x \in DOMAIN new THEN new[x] ELSE Seen(p, x)

GrantRule(p, new, r) ==
    r[1] = "grant" /\ ~new[r].there =>
        \E c \in Models : /\ r = ModelGrant(c)
                          /\ Unreferred(p, AssistantRows, {v \in AssistantValues : Uses(c, v)})
                          /\ AssistantRows \cap DOMAIN new = {}

AssistantRule(p, new, r) ==
    r[1] = "assistant" =>
        \/ Referable(p, ModelGrant(new[r].model))
        \/ /\ r \in DOMAIN req[p].copy /\ Copy(p, r).status # "absent"
           /\ new[r].model = Seen(p, r).model

WidgetRule(p, new, r) ==
    r[1] = "widget" /\ ~new[r].there =>
        \E w \in Widgets :
            /\ r = Widget(w) /\ Unreferred(p, {Visit(w)}, {TRUE}) /\ Visit(w) \notin DOMAIN new
            /\ \A n \in RatingRows :
                   /\ After(p, new, n) # w
                   /\ \A q \in Requests \ {p} : n \in Wrote(q) => draft[q][n] # w

VisitRule(p, new, r) ==
    r[1] = "visit" => \E w \in Widgets : r = Visit(w) /\ Referable(p, Widget(w))

RatingRule(p, new, r) ==
    r[1] = "rating" /\ new[r] \in Widgets => Referable(p, Widget(new[r]))

MessageRule(p, new, r) ==
    r[1] = "message" =>
        IF new[r]
        THEN LET v == Arg(p).on
                 seq == NextSeq(p, v)
             IN  /\ req[p].kind = "append" /\ seq < MaxSeq
                 /\ Referable(p, Conversation(v))
                 /\ DOMAIN new = {Message(v, seq), Message(v, seq + 1)}
        ELSE \E v \in Conversations :
                 /\ r \in MessagesOf(v)
                 /\ Conversation(v) \in DOMAIN new /\ ~new[Conversation(v)].there

Cleared(p, new, r) ==
    \E v \in Conversations :
        /\ r = Conversation(v) /\ Unwritten(p, v) /\ new[r].owner = Seen(p, r).owner
        /\ \A x \in MessagesOf(v) : ~After(p, new, x)
Started(p, new, r) ==
    /\ Seen(p, r).owner = Nobody /\ req[p].kind = "start"
    /\ new[r].owner # Nobody
    /\ new[r].folded = {} /\ new[r].through = 0
Remembered(p, new, r) ==
    LET thread == Copy(p, r)
        tail == Tail1(p, Arg(p).on, thread.through)
    IN  /\ req[p].kind = "remember" /\ r = Conversation(Arg(p).on)
        /\ new[r].folded = Compacted(thread, tail).folded
        /\ new[r].through = Compacted(thread, tail).through
Renamed(p, new, r) ==
    /\ req[p].kind = "rename"
    /\ new[r].folded = Copy(p, r).folded /\ new[r].through = Copy(p, r).through
ConversationRule(p, new, r) ==
    r[1] = "conversation" =>
        IF ~new[r].there THEN Cleared(p, new, r)
        ELSE \/ Started(p, new, r)
             \/ /\ r \in DOMAIN req[p].copy /\ Copy(p, r).there /\ Seen(p, r).there
                /\ new[r].owner = Copy(p, r).owner
                /\ Renamed(p, new, r) \/ Remembered(p, new, r)

Rule(p, new, r) ==
    /\ GrantRule(p, new, r)
    /\ AssistantRule(p, new, r)
    /\ WidgetRule(p, new, r)
    /\ VisitRule(p, new, r)
    /\ RatingRule(p, new, r)
    /\ MessageRule(p, new, r)
    /\ ConversationRule(p, new, r)

(* A write of `new`, with which p goes on or is done. *)
GoodWrite(p, new, r) ==
    /\ r \in Rows
    /\ new[r] \in ValuesOf(r)
    /\ Lasting(req'[p].kind, req[p].args, req[p].copy, overwritten', r, db[r], new[r])
    /\ Rule(p, new, r)

Stored(p, new) ==
    /\ OthersStay(p) /\ WrittenBy(p, new)
    /\ \A r \in DOMAIN new : GoodWrite(p, new, r)
    /\ Running(p) /\ req[p].done = FALSE /\ Known(p) = DOMAIN req[p].copy
    /\ req'[p].args = req[p].args /\ req'[p].copy = req[p].copy
    /\ IF req'[p].done
       THEN req'[p].kind = req[p].kind
       ELSE /\ req[p].kind \notin GoesOnKinds /\ req'[p].kind \in GoesOnKinds
            /\ \A r \in DOMAIN new : r[1] \in {"team", "message"}
            /\ req'[p].kind = "set_members" =>
                   req[p].kind = "save_team" /\ Team(Arg(p).on) \in DOMAIN new
    /\ (UowInv /\ RequestOk(p))'
    /\ begun' = begun

Writes(p) == \E new : Stored(p, new)

-----------------------------------------------------------------------------
(* Which row is which, and the values it takes. *)
LEMMA CatalogueRowsAre ==
  /\ \A c \in Models :
        /\ Model(c) \in Rows /\ Model(c)[1] = "model" /\ ValuesOf(Model(c)) = ModelValues
        /\ ModelGrant(c) \in Rows /\ ModelGrant(c)[1] = "grant"
        /\ ValuesOf(ModelGrant(c)) = GrantValues
  /\ \A k \in Keys : Key(k) \in Rows /\ Key(k)[1] = "key" /\ ValuesOf(Key(k)) = KeyValues
  /\ \A a \in Assistants :
        /\ Assistant(a) \in Rows /\ Assistant(a)[1] = "assistant"
        /\ ValuesOf(Assistant(a)) = AssistantValues
        /\ \A m \in People : /\ Access(a, m) \in Rows /\ Access(a, m)[1] = "access"
                             /\ ValuesOf(Access(a, m)) = AccessLevels
  <1>1. CatalogueRows \subseteq Rows /\ \A r \in CatalogueRows : ValuesOf(r) = CatalogueValues(r)
    BY ConsoleAssumption DEF ConsoleRows, ValuesOf
  <1>2. ASSUME NEW c \in Models
        PROVE  Model(c) \in CatalogueRows /\ ModelGrant(c) \in CatalogueRows
    BY DEF CatalogueRows
  <1>3. ASSUME NEW k \in Keys  PROVE Key(k) \in CatalogueRows
    BY DEF CatalogueRows
  <1>4. ASSUME NEW a \in Assistants
        PROVE  /\ Assistant(a) \in CatalogueRows
               /\ \A m \in People : Access(a, m) \in CatalogueRows
    BY DEF CatalogueRows, AssistantRows
  <1>5. /\ \A c : Model(c)[1] = "model" /\ ModelGrant(c)[1] = "grant"
        /\ \A k : Key(k)[1] = "key"
        /\ \A a : Assistant(a)[1] = "assistant"
        /\ \A a, m : Access(a, m)[1] = "access"
    BY DEF Model, ModelGrant, Key, Assistant, Access
  <1>6. ASSUME NEW r
        PROVE  /\ r[1] = "model" => CatalogueValues(r) = ModelValues
               /\ r[1] = "grant" => CatalogueValues(r) = GrantValues
               /\ r[1] = "key" => CatalogueValues(r) = KeyValues
               /\ r[1] = "assistant" => CatalogueValues(r) = AssistantValues
               /\ r[1] = "access" => CatalogueValues(r) = AccessLevels
    BY DEF CatalogueValues
  <1> QED  BY <1>1, <1>2, <1>3, <1>4, <1>5, <1>6

CatalogueTags == {"model", "grant", "key", "assistant", "access"}

LEMMA CatalogueTagged == \A r \in CatalogueRows : r[1] \in CatalogueTags
  <1>1. ASSUME NEW r \in {Model(c) : c \in Models} \cup {ModelGrant(c) : c \in Models}
                             \cup {Key(k) : k \in Keys}
        PROVE  r[1] \in CatalogueTags
    BY DEF Model, ModelGrant, Key, CatalogueTags
  <1>2. ASSUME NEW r \in AssistantRows  PROVE r[1] \in CatalogueTags
    BY DEF AssistantRows, Assistant, CatalogueTags
  <1>3. ASSUME NEW r \in {Access(a, m) : a \in Assistants, m \in People}
        PROVE  r[1] \in CatalogueTags
    BY DEF Access, CatalogueTags
  <1> QED  BY <1>1, <1>2, <1>3 DEF CatalogueRows

LEMMA ChatbotRowsAre ==
  /\ Plan \in Rows /\ Plan[1] = "plan" /\ ValuesOf(Plan) = PlanValues
  /\ Settings \in Rows /\ Settings[1] = "settings" /\ ValuesOf(Settings) = SettingsValues
  /\ \A w \in Widgets :
        /\ Widget(w) \in Rows /\ Widget(w)[1] = "widget" /\ ValuesOf(Widget(w)) = WidgetValues
        /\ Visit(w) \in Rows /\ Visit(w)[1] = "visit" /\ ValuesOf(Visit(w)) = BOOLEAN
  /\ \A b \in Bases :
        Base(b) \in Rows /\ Base(b)[1] = "base" /\ ValuesOf(Base(b)) = [there : BOOLEAN]
  /\ \A t \in Teams :
        /\ Team(t) \in Rows /\ Team(t)[1] = "team" /\ ValuesOf(Team(t)) = TeamValues
        /\ \A m \in People : /\ Roster(t, m) \in Rows /\ Roster(t, m)[1] = "roster"
                             /\ ValuesOf(Roster(t, m)) = BOOLEAN
  /\ \A n \in Ratings :
        Rating(n) \in Rows /\ Rating(n)[1] = "rating" /\ ValuesOf(Rating(n)) = RatingValues
  /\ \A m \in People, e \in Endpoints :
        /\ Browser(m, e) \in Rows /\ Browser(m, e)[1] = "browser"
        /\ ValuesOf(Browser(m, e)) = BOOLEAN
  <1>1. /\ ChatbotRows \subseteq Rows
        /\ \A r \in ChatbotRows : r[1] \notin CatalogueTags => ValuesOf(r) = ChatbotValues(r)
    BY ConsoleAssumption, CatalogueTagged DEF ConsoleRows, ValuesOf
  <1>2. /\ Plan \in ChatbotRows /\ Settings \in ChatbotRows
        /\ \A w \in Widgets : Widget(w) \in ChatbotRows /\ Visit(w) \in ChatbotRows
    BY DEF ChatbotRows, WidgetRows
  <1>3. /\ \A b \in Bases : Base(b) \in ChatbotRows
        /\ \A t \in Teams : Team(t) \in ChatbotRows
        /\ \A n \in Ratings : Rating(n) \in ChatbotRows
    BY DEF ChatbotRows, BaseRows, TeamRows, RatingRows
  <1>4. /\ \A t \in Teams, m \in People : Roster(t, m) \in ChatbotRows
        /\ \A m \in People, e \in Endpoints : Browser(m, e) \in ChatbotRows
    BY DEF ChatbotRows, RosterRows, BrowserRows
  <1>5. /\ Plan[1] = "plan" /\ Settings[1] = "settings"
        /\ \A w : Widget(w)[1] = "widget" /\ Visit(w)[1] = "visit"
        /\ \A b : Base(b)[1] = "base"
        /\ \A t : Team(t)[1] = "team"
        /\ \A n : Rating(n)[1] = "rating"
        /\ \A t, m : Roster(t, m)[1] = "roster"
        /\ \A m, e : Browser(m, e)[1] = "browser"
    BY DEF Plan, Settings, Widget, Visit, Base, Team, Rating, Roster, Browser
  <1>6. ASSUME NEW r
        PROVE  /\ r[1] = "plan" => ChatbotValues(r) = PlanValues
               /\ r[1] = "settings" => ChatbotValues(r) = SettingsValues
               /\ r[1] = "widget" => ChatbotValues(r) = WidgetValues
               /\ r[1] = "base" => ChatbotValues(r) = [there : BOOLEAN]
               /\ r[1] = "team" => ChatbotValues(r) = TeamValues
               /\ r[1] = "rating" => ChatbotValues(r) = RatingValues
               /\ r[1] \in {"visit", "roster", "browser"} => ChatbotValues(r) = BOOLEAN
    BY DEF ChatbotValues
  <1>7. ASSUME NEW r \in ChatbotRows
        PROVE  /\ r \in Rows
               /\ r[1] = "plan" => ValuesOf(r) = PlanValues
               /\ r[1] = "settings" => ValuesOf(r) = SettingsValues
               /\ r[1] = "widget" => ValuesOf(r) = WidgetValues
               /\ r[1] = "base" => ValuesOf(r) = [there : BOOLEAN]
               /\ r[1] = "team" => ValuesOf(r) = TeamValues
               /\ r[1] = "rating" => ValuesOf(r) = RatingValues
               /\ r[1] \in {"visit", "roster", "browser"} => ValuesOf(r) = BOOLEAN
    BY <1>1, <1>6 DEF CatalogueTags
  <1>8. /\ Plan \in Rows /\ ValuesOf(Plan) = PlanValues
        /\ Settings \in Rows /\ ValuesOf(Settings) = SettingsValues
    BY <1>2, <1>5, <1>7
  <1>9. ASSUME NEW w \in Widgets
        PROVE  /\ Widget(w) \in Rows /\ ValuesOf(Widget(w)) = WidgetValues
               /\ Visit(w) \in Rows /\ ValuesOf(Visit(w)) = BOOLEAN
    BY <1>2, <1>5, <1>7
  <1>10. ASSUME NEW b \in Bases
         PROVE  Base(b) \in Rows /\ ValuesOf(Base(b)) = [there : BOOLEAN]
    BY <1>3, <1>5, <1>7
  <1>11. ASSUME NEW t \in Teams
         PROVE  /\ Team(t) \in Rows /\ ValuesOf(Team(t)) = TeamValues
                /\ \A m \in People : Roster(t, m) \in Rows /\ ValuesOf(Roster(t, m)) = BOOLEAN
    BY <1>3, <1>4, <1>5, <1>7
  <1>12. ASSUME NEW n \in Ratings
         PROVE  Rating(n) \in Rows /\ ValuesOf(Rating(n)) = RatingValues
    BY <1>3, <1>5, <1>7
  <1>13. ASSUME NEW m \in People, NEW e \in Endpoints
         PROVE  Browser(m, e) \in Rows /\ ValuesOf(Browser(m, e)) = BOOLEAN
    BY <1>4, <1>5, <1>7
  <1> QED  BY <1>5, <1>8, <1>9, <1>10, <1>11, <1>12, <1>13

ChatbotTags == {"plan", "settings", "widget", "visit", "base", "team", "rating", "roster",
                "browser"}

LEMMA ChatbotTagged == \A r \in ChatbotRows : r[1] \in ChatbotTags
  <1>1. ASSUME NEW r \in {Plan, Settings} \cup WidgetRows \cup {Visit(w) : w \in Widgets}
                             \cup BaseRows
        PROVE  r[1] \in ChatbotTags
    BY DEF WidgetRows, BaseRows, Plan, Settings, Widget, Visit, Base, ChatbotTags
  <1>2. ASSUME NEW r \in TeamRows \cup (UNION {RosterRows(t) : t \in Teams}) \cup RatingRows
                             \cup BrowserRows
        PROVE  r[1] \in ChatbotTags
    BY DEF TeamRows, RosterRows, RatingRows, BrowserRows, Team, Roster, Rating, Browser,
           ChatbotTags
  <1> QED  BY <1>1, <1>2 DEF ChatbotRows

LEMMA DialogueRowsAre ==
  \A v \in Conversations :
      /\ Conversation(v) \in Rows /\ Conversation(v)[1] = "conversation"
      /\ ValuesOf(Conversation(v)) = ConversationValues
      /\ \A n \in Seqs : /\ Message(v, n) \in Rows /\ Message(v, n)[1] = "message"
                         /\ Message(v, n) \in MessagesOf(v)
                         /\ ValuesOf(Message(v, n)) = BOOLEAN
  <1>1. /\ DialogueRows \subseteq Rows
        /\ \A r \in DialogueRows : r[1] \notin CatalogueTags \cup ChatbotTags =>
               ValuesOf(r) = DialogueValues(r)
    BY ConsoleAssumption, CatalogueTagged, ChatbotTagged DEF ConsoleRows, ValuesOf
  <1>2. \A v \in Conversations : /\ Conversation(v) \in DialogueRows
                                 /\ \A n \in Seqs : /\ Message(v, n) \in DialogueRows
                                                    /\ Message(v, n) \in MessagesOf(v)
    BY DEF DialogueRows, MessagesOf
  <1>3. /\ \A v : Conversation(v)[1] = "conversation"
        /\ \A v, n : Message(v, n)[1] = "message"
    BY DEF Conversation, Message
  <1> QED  BY <1>1, <1>2, <1>3 DEF DialogueValues, CatalogueTags, ChatbotTags

LEMMA TableRows ==
  /\ AssistantRows \subseteq Rows /\ WidgetRows \subseteq Rows /\ BaseRows \subseteq Rows
  /\ TeamRows \subseteq Rows /\ RatingRows \subseteq Rows /\ BrowserRows \subseteq Rows
  /\ \A t \in Teams : RosterRows(t) \subseteq Rows
  /\ \A v \in Conversations : MessagesOf(v) \subseteq Rows
  <1>1. AssistantRows \subseteq Rows  BY CatalogueRowsAre DEF AssistantRows
  <1>2. WidgetRows \subseteq Rows /\ BaseRows \subseteq Rows
    BY ChatbotRowsAre DEF WidgetRows, BaseRows
  <1>3. TeamRows \subseteq Rows /\ RatingRows \subseteq Rows /\ BrowserRows \subseteq Rows
    BY ChatbotRowsAre DEF TeamRows, RatingRows, BrowserRows
  <1>4. \A t \in Teams : RosterRows(t) \subseteq Rows  BY ChatbotRowsAre DEF RosterRows
  <1>5. \A v \in Conversations : MessagesOf(v) \subseteq Rows
    BY DialogueRowsAre DEF MessagesOf
  <1> QED  BY <1>1, <1>2, <1>3, <1>4, <1>5

-----------------------------------------------------------------------------
(* The steps every use case is made of. *)
LEMMA LastingGrows ==
  ASSUME NEW kind, NEW args, NEW copy, NEW over, NEW more, over \subseteq more,
         NEW r, NEW old, NEW new, Lasting(kind, args, copy, over, r, old, new)
  PROVE  Lasting(kind, args, copy, more, r, old, new)
  <1>1. \/ ~(WidgetKept(kind, args, copy, over, r, old, new))
        \/ WidgetKept(kind, args, copy, more, r, old, new)
    BY DEF WidgetKept, WidgetEdited
  <1>2. \/ ~(SettingsKept(kind, copy, over, r, old, new))
        \/ SettingsKept(kind, copy, more, r, old, new)
    BY DEF SettingsKept
  <1>3. /\ ModelKept(kind, over, r, old, new) => ModelKept(kind, more, r, old, new)
        /\ KeyKept(over, r, old, new) => KeyKept(more, r, old, new)
        /\ AssistantKept(over, r, old, new) => AssistantKept(more, r, old, new)
        /\ ConversationKept(kind, over, r, old, new) => ConversationKept(kind, more, r, old, new)
    BY DEF ModelKept, KeyKept, AssistantKept, ConversationKept
  <1> QED  BY <1>1, <1>2, <1>3 DEF Lasting

(* What is said of a team or a message does not depend on what was read.    *)
LEMMA LastingElsewhere ==
  ASSUME NEW kind, NEW args, NEW copy, NEW read, NEW over, NEW r, NEW old, NEW new,
         r[1] \in {"team", "message"}, Lasting(kind, args, copy, over, r, old, new)
  PROVE  Lasting(kind, args, read, over, r, old, new)
  BY DEF Lasting, ModelKept, KeyKept, AssistantKept, PlanKept, SettingsKept, WidgetKept, BaseKept,
         RatingKept, RosterKept, TeamKept, ConversationKept, MessageKept

LEMMA OthersKeep ==
  ASSUME IInv, NEW p \in Requests, OthersStay(p), overwritten \subseteq overwritten',
         \A q \in Requests \ {p} : \A r \in Rows \cap Wrote(q) : db'[r] = db[r],
         NEW q \in Requests, q # p
  PROVE  (DraftOk(q) /\ RequestOk(q))'
  <1>1. req'[q] = req[q] /\ draft'[q] = draft[q]  BY DEF OthersStay
  <1>2. DraftOk(q) /\ RequestOk(q)  BY DEF IInv
  <1>3. RequestOk(q)'
    BY <1>1, <1>2 DEF RequestOk, Known
  <1>4. Wrote(q)' = Wrote(q)  BY <1>1 DEF Wrote
  <1>5. DraftOk(q)'
    <2> SUFFICES ASSUME NEW r \in Wrote(q)
                 PROVE  /\ r \in Rows
                        /\ draft[q][r] \in ValuesOf(r)
                        /\ Lasting(req[q].kind, req[q].args, req[q].copy, overwritten', r,
                                   db'[r], draft[q][r])
                        /\ ~req[q].done => r[1] \in {"team", "message"}
      BY <1>1, <1>4 DEF DraftOk
    <2>1. /\ r \in Rows /\ draft[q][r] \in ValuesOf(r)
          /\ Lasting(req[q].kind, req[q].args, req[q].copy, overwritten, r, db[r], draft[q][r])
          /\ ~req[q].done => r[1] \in {"team", "message"}
      BY <1>2 DEF DraftOk
    <2>2. db'[r] = db[r]  BY <2>1
    <2> QED  BY <2>1, <2>2, LastingGrows
  <1> QED  BY <1>3, <1>5

LEMMA SeenOk ==
  ASSUME IInv, NEW p \in Requests, NEW r \in Rows
  PROVE  Seen(p, r) \in ValuesOf(r)
  BY DEF IInv, DbOk, DraftOk, Seen

LEMMA ConsoleBegin ==
  ASSUME IInv, NEW p \in Requests, NEW kind, kind # "idle", kind # "remember",
         NEW args, NEW plan \in Plans,
         Begin(p, kind, args, plan), Asked(kind, args, Planned(plan))
  PROVE  IInv'
  <1>1. UowInv  BY DEF IInv
  <1>2. /\ UowInv' /\ OthersStay(p) /\ db' = db /\ overwritten' = overwritten
        /\ req'[p].kind = kind /\ req'[p].args = args /\ DOMAIN req'[p].copy = {}
        /\ req'[p].id = begun + 1 /\ req'[p].done = FALSE
        /\ Known(p)' = Planned(plan) /\ Wrote(p)' = {}
    BY <1>1, BeginStep
  <1>3. begun' = begun + 1 /\ begun + 1 \in Numbers
    BY UnitOfWorkAssumption DEF Begin, IInv, Numbers
  <1>4. RequestOk(p)'  BY <1>2, <1>3 DEF RequestOk
  <1>5. DraftOk(p)'  BY <1>2 DEF DraftOk
  <1>6. \A q \in Requests \ {p} : (DraftOk(q) /\ RequestOk(q))'
    BY <1>2, OthersKeep
  <1>7. DbOk'  BY <1>2 DEF IInv, DbOk
  <1> QED  BY <1>2, <1>3, <1>4, <1>5, <1>6, <1>7 DEF IInv

LEMMA ConsoleRead ==
  ASSUME IInv, NEW p \in Requests, Read(p)
  PROVE  IInv'
  <1>1. UowInv  BY DEF IInv
  <1>2. /\ UowInv' /\ OthersStay(p) /\ db' = db /\ draft' = draft /\ overwritten' = overwritten
        /\ req'[p].kind = req[p].kind /\ req'[p].args = req[p].args
        /\ req'[p].id = req[p].id /\ req'[p].done = req[p].done
        /\ Known(p)' = Known(p)
        /\ DOMAIN req[p].copy \subseteq DOMAIN req'[p].copy
        /\ \A r \in DOMAIN req[p].copy : req'[p].copy[r] = req[p].copy[r]
        /\ \A r \in DOMAIN req'[p].copy \ DOMAIN req[p].copy :
               r \in Rows /\ req'[p].copy[r] = Seen(p, r)
    BY <1>1, ReadStep
  <1>3. DraftOk(p) /\ RequestOk(p)  BY DEF IInv
  <1>4. RequestOk(p)'
    <2>1. ASSUME NEW r \in DOMAIN req'[p].copy  PROVE req'[p].copy[r] \in ValuesOf(r)
      <3>1. CASE r \in DOMAIN req[p].copy  BY <1>2, <1>3, <3>1 DEF RequestOk
      <3>2. CASE r \notin DOMAIN req[p].copy  BY <1>2, <3>2, SeenOk
      <3> QED  BY <3>1, <3>2
    <2> QED  BY <1>2, <1>3, <2>1 DEF RequestOk
  <1>5. DraftOk(p)'
    <2>1. CASE Wrote(p) = {}  BY <1>2, <2>1 DEF DraftOk, Wrote
    <2>2. CASE req[p].done
      <3>1. DOMAIN req'[p].copy = DOMAIN req[p].copy
        <4>1. DOMAIN req'[p].copy \subseteq Known(p)'  BY DEF Known
        <4> QED  BY <1>2, <1>3, <2>2, <4>1 DEF RequestOk
      <3>2. req'[p].copy = req[p].copy
        BY <1>1, <1>2, <3>1 DEF Read, UowInv, RequestInv, IsRequest
      <3> QED  BY <1>2, <1>3, <3>2 DEF DraftOk, Wrote
    <2>3. CASE ~req[p].done /\ Wrote(p) # {}
      <3> SUFFICES ASSUME NEW r \in Wrote(p)
                   PROVE  Lasting(req[p].kind, req[p].args, req'[p].copy, overwritten, r,
                                  db[r], draft[p][r])
        BY <1>2, <1>3, <2>3 DEF DraftOk, Wrote
      <3>1. /\ Lasting(req[p].kind, req[p].args, req[p].copy, overwritten, r, db[r], draft[p][r])
            /\ r[1] \in {"team", "message"}
        BY <1>3, <2>3 DEF DraftOk
      <3> QED  BY <3>1, LastingElsewhere
    <2> QED  BY <2>1, <2>2, <2>3
  <1>6. \A q \in Requests \ {p} : (DraftOk(q) /\ RequestOk(q))'
    BY <1>2, OthersKeep
  <1>7. DbOk'  BY <1>2 DEF IInv, DbOk
  <1>8. begun' = begun  BY DEF Read
  <1> QED  BY <1>2, <1>4, <1>5, <1>6, <1>7, <1>8 DEF IInv

LEMMA StoredKeeps ==
  ASSUME IInv, NEW p \in Requests, NEW new, Stored(p, new)
  PROVE  IInv'
  <1>1. /\ OthersStay(p) /\ WrittenBy(p, new) /\ (UowInv /\ RequestOk(p))'
        /\ begun' = begun /\ req'[p].args = req[p].args /\ req'[p].copy = req[p].copy
        /\ \A r \in DOMAIN new : GoodWrite(p, new, r)
        /\ IF req'[p].done
           THEN req'[p].kind = req[p].kind
           ELSE /\ req[p].kind \notin GoesOnKinds
                /\ \A r \in DOMAIN new : r[1] \in {"team", "message"}
    BY DEF Stored
  <1>2. db' = db /\ overwritten \subseteq overwritten'  BY <1>1 DEF WrittenBy
  <1>3. DraftOk(p)'
    <2> SUFFICES ASSUME NEW r \in Wrote(p) \cup DOMAIN new
                 PROVE  /\ r \in Rows
                        /\ draft'[p][r] \in ValuesOf(r)
                        /\ Lasting(req'[p].kind, req[p].args, req[p].copy, overwritten', r,
                                   db[r], draft'[p][r])
                        /\ ~req'[p].done => r[1] \in {"team", "message"}
      BY <1>1, <1>2 DEF DraftOk, WrittenBy
    <2>1. CASE r \in DOMAIN new
      <3>1. draft'[p][r] = new[r]  BY <1>1, <2>1 DEF WrittenBy
      <3> QED  BY <1>1, <2>1, <3>1 DEF GoodWrite
    <2>2. CASE r \notin DOMAIN new
      <3>1. draft'[p][r] = draft[p][r] /\ r \in Wrote(p)  BY <1>1, <2>2 DEF WrittenBy
      <3>2. req'[p].done /\ req'[p].kind = req[p].kind
        <4>1. req[p].done = FALSE  BY DEF Stored
        <4> QED  BY <1>1, <3>1, <4>1 DEF IInv, UowInv, RequestInv, Wrote, NoRows
      <3>3. /\ r \in Rows /\ draft[p][r] \in ValuesOf(r)
            /\ Lasting(req[p].kind, req[p].args, req[p].copy, overwritten, r, db[r], draft[p][r])
        BY <3>1 DEF IInv, DraftOk
      <3>4. Lasting(req[p].kind, req[p].args, req[p].copy, overwritten', r, db[r], draft[p][r])
        BY <1>2, <3>3, LastingGrows
      <3> QED  BY <3>1, <3>2, <3>3, <3>4
    <2> QED  BY <2>1, <2>2
  <1>4. \A q \in Requests \ {p} : (DraftOk(q) /\ RequestOk(q))'
    BY <1>1, <1>2, OthersKeep
  <1>5. DbOk'  BY <1>2 DEF IInv, DbOk
  <1> QED  BY <1>1, <1>3, <1>4, <1>5 DEF IInv

LEMMA IdleOk ==
  ASSUME NEW p \in Requests, req'[p] = Idle, Wrote(p)' = {}
  PROVE  (DraftOk(p) /\ RequestOk(p))'
  <1>1. /\ req'[p].kind = "idle" /\ DOMAIN req'[p].copy = {} /\ req'[p].id = 0
        /\ req'[p].done = FALSE
    BY DEF Idle, NoRows
  <1>2. 0 \in Numbers  BY UnitOfWorkAssumption DEF Numbers
  <1>3. \A args, known : Asked("idle", args, known)
    BY DEF Asked, CatalogueAsked, ChatbotAsked, DialogueAsked, ModelKinds, KeyKinds,
           AssistantKinds, WidgetKinds, SettingsKinds, BrowserKinds
  <1> QED  BY <1>1, <1>2, <1>3 DEF DraftOk, RequestOk

LEMMA ConsoleCommit ==
  ASSUME IInv, NEW p \in Requests, Commit(p)
  PROVE  IInv'
  <1>1. UowInv  BY DEF IInv
  <1>2. /\ UowInv' /\ OthersStay(p) /\ req'[p] = Idle /\ Wrote(p)' = {}
        /\ overwritten' = overwritten
        /\ \A r \in Rows : db'[r] = Seen(p, r)
        /\ \A q \in Requests \ {p} : \A r \in Rows \cap Wrote(q) : db'[r] = db[r]
    BY <1>1, CommitStep
  <1>3. (DraftOk(p) /\ RequestOk(p))'  BY <1>2, IdleOk
  <1>4. \A q \in Requests \ {p} : (DraftOk(q) /\ RequestOk(q))'
    BY <1>2, OthersKeep
  <1>5. DbOk'  BY <1>2, SeenOk DEF DbOk
  <1>6. begun' = begun  BY DEF Commit
  <1> QED  BY <1>2, <1>3, <1>4, <1>5, <1>6 DEF IInv

LEMMA ConsoleAbandon ==
  ASSUME IInv, NEW p \in Requests, Abandon(p)
  PROVE  IInv'
  <1>1. UowInv  BY DEF IInv
  <1>2. /\ UowInv' /\ OthersStay(p) /\ req'[p] = Idle /\ Wrote(p)' = {}
        /\ overwritten' = overwritten /\ db' = db
    BY <1>1, AbandonStep
  <1>3. (DraftOk(p) /\ RequestOk(p))'  BY <1>2, IdleOk
  <1>4. \A q \in Requests \ {p} : (DraftOk(q) /\ RequestOk(q))'
    BY <1>2, OthersKeep
  <1>5. DbOk'  BY <1>2 DEF IInv, DbOk
  <1>6. begun' = begun  BY DEF Abandon
  <1> QED  BY <1>2, <1>3, <1>4, <1>5, <1>6 DEF IInv

-----------------------------------------------------------------------------
(* A use case's last save. *)
LEMMA Deciding ==
  ASSUME IInv, NEW p \in Requests, NEW kind, kind # "idle", Decides(p, kind)
  PROVE  /\ Running(p) /\ req[p].done = FALSE /\ req[p].kind = kind
         /\ Known(p) = DOMAIN req[p].copy
         /\ kind \notin GoesOnKinds => Wrote(p) = {} /\ \A r : Seen(p, r) = db[r]
         /\ Id(p) \in Numbers
         /\ Asked(kind, Arg(p), DOMAIN req[p].copy)
         /\ \A r \in DOMAIN req[p].copy : r \in Rows /\ Copy(p, r) \in ValuesOf(r)
  <1>1. UowInv /\ RequestOk(p) /\ RequestInv(p)  BY DEF IInv, UowInv
  <1>2. /\ Running(p) /\ ~req[p].done /\ req[p].kind = kind
        /\ Known(p) = DOMAIN req[p].copy
        /\ kind \notin GoesOnKinds => Wrote(p) = {} /\ \A r : Seen(p, r) = db[r]
    BY <1>1, Decided
  <1>3. req[p].done \in BOOLEAN /\ DOMAIN req[p].copy \subseteq Rows
    BY <1>1 DEF RequestInv, IsRequest
  <1> QED  BY <1>1, <1>2, <1>3 DEF RequestOk, Id, Arg, Copy

(* A row that was read and is not saved over a change is as it was read. *)
AsRead(p, r) == r \in DOMAIN req[p].copy /\ r \notin overwritten' => db[r] = Copy(p, r)

LEMMA SaveStored ==
  ASSUME IInv, NEW p \in Requests, NEW kind, kind # "idle", Decides(p, kind),
         NEW new, Save(p, new),
         ASSUME \A r \in DOMAIN new : AsRead(p, r), NEW r \in DOMAIN new
         PROVE  /\ r \in Rows /\ new[r] \in ValuesOf(r)
                /\ Lasting(kind, Arg(p), req[p].copy, overwritten', r, db[r], new[r])
                /\ Rule(p, new, r)
  PROVE  Writes(p)
  <1>1. /\ Running(p) /\ req[p].done = FALSE /\ req[p].kind = kind
        /\ Known(p) = DOMAIN req[p].copy
    BY Deciding
  <1>2. /\ UowInv' /\ OthersStay(p) /\ WrittenBy(p, new)
        /\ req'[p].kind = req[p].kind /\ req'[p].args = req[p].args
        /\ req'[p].id = req[p].id /\ req'[p].done = TRUE
        /\ req'[p].copy = req[p].copy /\ Known(p)' = Known(p)
    BY <1>1, SaveStep DEF IInv
  <1>3. \A r \in DOMAIN new : AsRead(p, r)
    BY <1>2 DEF AsRead, WrittenBy
  <1>4. \A r \in DOMAIN new : GoodWrite(p, new, r)
    BY <1>1, <1>2, <1>3 DEF GoodWrite, Arg
  <1>5. RequestOk(p)'
    <2>1. RequestOk(p)  BY DEF IInv
    <2> QED  BY <1>1, <1>2, <2>1 DEF RequestOk
  <1>6. begun' = begun  BY DEF Save, Wrote1
  <1>7. Stored(p, new)  BY <1>1, <1>2, <1>4, <1>5, <1>6 DEF Stored
  <1> QED  BY <1>7 DEF Writes

LEMMA RowStored ==
  ASSUME IInv, NEW p \in Requests, NEW kind, kind # "idle", Decides(p, kind),
         NEW r \in Rows, NEW value \in ValuesOf(r), SaveRow(p, r, value),
         ASSUME AsRead(p, r), NEW new, DOMAIN new = {r}, new[r] = value
         PROVE  /\ Lasting(kind, Arg(p), req[p].copy, overwritten', r, db[r], value)
                /\ Rule(p, new, r)
  PROVE  Writes(p)
  <1> DEFINE new == [x \in {r} |-> value]
  <1>1. DOMAIN new = {r} /\ new[r] = value  OBVIOUS
  <1>2. Save(p, new)  BY DEF SaveRow
  <1> HIDE DEF new
  <1>3. ASSUME \A x \in DOMAIN new : AsRead(p, x), NEW x \in DOMAIN new
        PROVE  /\ x \in Rows /\ new[x] \in ValuesOf(x)
               /\ Lasting(kind, Arg(p), req[p].copy, overwritten', x, db[x], new[x])
               /\ Rule(p, new, x)
    <2>1. x = r /\ AsRead(p, r)  BY <1>1, <1>3
    <2> QED  BY <1>1, <2>1
  <1> QED  BY <1>2, <1>3, SaveStored

LEMMA NothingStored ==
  ASSUME IInv, NEW p \in Requests, NEW kind, kind # "idle", Decides(p, kind), Save(p, NoRows)
  PROVE  Writes(p)
  <1>1. DOMAIN NoRows = {}  BY DEF NoRows
  <1> HIDE DEF NoRows
  <1> QED  BY <1>1, SaveStored

LEMMA UpdateStored ==
  ASSUME IInv, NEW p \in Requests, NEW kind, kind # "idle", Decides(p, kind),
         NEW r \in Rows, NEW value \in ValuesOf(r), Update(p, r, value),
         ASSUME AsRead(p, r), Seen(p, r).there, NEW new, DOMAIN new = {r}, new[r] = value
         PROVE  /\ Lasting(kind, Arg(p), req[p].copy, overwritten', r, db[r], value)
                /\ Rule(p, new, r)
  PROVE  Writes(p)
  <1>1. CASE Seen(p, r).there
    <2>1. SaveRow(p, r, value)  BY <1>1 DEF Update
    <2> QED  BY <1>1, <2>1, RowStored
  <1>2. CASE ~Seen(p, r).there
    <2>1. Save(p, NoRows)  BY <1>2 DEF Update
    <2> QED  BY <2>1, NothingStored
  <1> QED  BY <1>1, <1>2

-----------------------------------------------------------------------------
(* Of each kind of row only its own clauses speak. *)
LEMMA CatalogueGood ==
  ASSUME NEW p, NEW new, NEW kind, NEW args, NEW copy, NEW over, NEW r, NEW old, NEW value
  PROVE  /\ r[1] = "model" /\ ModelKept(kind, over, r, old, value) =>
                Lasting(kind, args, copy, over, r, old, value) /\ Rule(p, new, r)
         /\ r[1] = "grant" /\ GrantRule(p, new, r) =>
                Lasting(kind, args, copy, over, r, old, value) /\ Rule(p, new, r)
         /\ r[1] = "key" /\ KeyKept(over, r, old, value) =>
                Lasting(kind, args, copy, over, r, old, value) /\ Rule(p, new, r)
         /\ r[1] = "assistant" /\ AssistantKept(over, r, old, value) /\ AssistantRule(p, new, r) =>
                Lasting(kind, args, copy, over, r, old, value) /\ Rule(p, new, r)
         /\ r[1] \in {"access", "browser"} =>
                Lasting(kind, args, copy, over, r, old, value) /\ Rule(p, new, r)
  <1>1. ASSUME r[1] \in {"model", "grant", "key", "assistant", "access", "browser"}
        PROVE  /\ /\ PlanKept(kind, r) /\ SettingsKept(kind, copy, over, r, old, value)
                  /\ WidgetKept(kind, args, copy, over, r, old, value)
                  /\ BaseKept(kind, args, copy, r, old, value)
                  /\ RatingKept(kind, args, copy, r, old, value)
                  /\ RosterKept(kind, args, r, value) /\ TeamKept(kind, r)
                  /\ ConversationKept(kind, over, r, old, value)
                  /\ MessageKept(kind, args, r, value)
               /\ /\ r[1] # "model" => ModelKept(kind, over, r, old, value)
                  /\ r[1] # "key" => KeyKept(over, r, old, value)
                  /\ r[1] # "assistant" => AssistantKept(over, r, old, value)
    BY <1>1 DEF PlanKept, SettingsKept, WidgetKept, BaseKept, RatingKept, RosterKept, TeamKept,
                ConversationKept, MessageKept, ModelKept, KeyKept, AssistantKept
  <1>2. ASSUME r[1] \in {"model", "grant", "key", "assistant", "access", "browser"}
        PROVE  /\ WidgetRule(p, new, r) /\ VisitRule(p, new, r) /\ RatingRule(p, new, r)
               /\ MessageRule(p, new, r) /\ ConversationRule(p, new, r)
               /\ r[1] # "grant" => GrantRule(p, new, r)
               /\ r[1] # "assistant" => AssistantRule(p, new, r)
    BY <1>2 DEF WidgetRule, VisitRule, RatingRule, MessageRule, ConversationRule, GrantRule,
                AssistantRule
  <1> QED  BY <1>1, <1>2 DEF Lasting, Rule

LEMMA ChatbotGood ==
  ASSUME NEW p, NEW new, NEW kind, NEW args, NEW copy, NEW over, NEW r, NEW old, NEW value
  PROVE  /\ r[1] = "plan" /\ PlanKept(kind, r) =>
                Lasting(kind, args, copy, over, r, old, value) /\ Rule(p, new, r)
         /\ r[1] = "settings" /\ SettingsKept(kind, copy, over, r, old, value) =>
                Lasting(kind, args, copy, over, r, old, value) /\ Rule(p, new, r)
         /\ (r[1] = "widget" /\ WidgetKept(kind, args, copy, over, r, old, value)
             /\ WidgetRule(p, new, r)) =>
                Lasting(kind, args, copy, over, r, old, value) /\ Rule(p, new, r)
         /\ r[1] = "base" /\ BaseKept(kind, args, copy, r, old, value) =>
                Lasting(kind, args, copy, over, r, old, value) /\ Rule(p, new, r)
         /\ r[1] = "visit" /\ VisitRule(p, new, r) =>
                Lasting(kind, args, copy, over, r, old, value) /\ Rule(p, new, r)
         /\ (r[1] = "rating" /\ RatingKept(kind, args, copy, r, old, value)
             /\ RatingRule(p, new, r)) =>
                Lasting(kind, args, copy, over, r, old, value) /\ Rule(p, new, r)
         /\ r[1] = "roster" /\ RosterKept(kind, args, r, value) =>
                Lasting(kind, args, copy, over, r, old, value) /\ Rule(p, new, r)
         /\ r[1] = "team" /\ TeamKept(kind, r) =>
                Lasting(kind, args, copy, over, r, old, value) /\ Rule(p, new, r)
  <1>1. ASSUME r[1] \in {"plan", "settings", "widget", "base", "visit", "rating", "roster", "team"}
        PROVE  /\ /\ ModelKept(kind, over, r, old, value) /\ KeyKept(over, r, old, value)
                  /\ AssistantKept(over, r, old, value)
                  /\ ConversationKept(kind, over, r, old, value)
                  /\ MessageKept(kind, args, r, value)
               /\ /\ r[1] # "plan" => PlanKept(kind, r)
                  /\ r[1] # "settings" => SettingsKept(kind, copy, over, r, old, value)
                  /\ r[1] # "widget" => WidgetKept(kind, args, copy, over, r, old, value)
                  /\ r[1] # "base" => BaseKept(kind, args, copy, r, old, value)
                  /\ r[1] # "rating" => RatingKept(kind, args, copy, r, old, value)
                  /\ r[1] # "roster" => RosterKept(kind, args, r, value)
                  /\ r[1] # "team" => TeamKept(kind, r)
    BY <1>1 DEF PlanKept, SettingsKept, WidgetKept, BaseKept, RatingKept, RosterKept, TeamKept,
                ConversationKept, MessageKept, ModelKept, KeyKept, AssistantKept
  <1>2. ASSUME r[1] \in {"plan", "settings", "widget", "base", "visit", "rating", "roster", "team"}
        PROVE  /\ GrantRule(p, new, r) /\ AssistantRule(p, new, r)
               /\ MessageRule(p, new, r) /\ ConversationRule(p, new, r)
               /\ r[1] # "widget" => WidgetRule(p, new, r)
               /\ r[1] # "visit" => VisitRule(p, new, r)
               /\ r[1] # "rating" => RatingRule(p, new, r)
    BY <1>2 DEF WidgetRule, VisitRule, RatingRule, MessageRule, ConversationRule, GrantRule,
                AssistantRule
  <1> QED  BY <1>1, <1>2 DEF Lasting, Rule

LEMMA DialogueGood ==
  ASSUME NEW p, NEW new, NEW kind, NEW args, NEW copy, NEW over, NEW r, NEW old, NEW value
  PROVE  /\ (r[1] = "conversation" /\ ConversationKept(kind, over, r, old, value)
             /\ ConversationRule(p, new, r)) =>
                Lasting(kind, args, copy, over, r, old, value) /\ Rule(p, new, r)
         /\ r[1] = "message" /\ MessageKept(kind, args, r, value) /\ MessageRule(p, new, r) =>
                Lasting(kind, args, copy, over, r, old, value) /\ Rule(p, new, r)
  <1>1. ASSUME r[1] \in {"conversation", "message"}
        PROVE  /\ ModelKept(kind, over, r, old, value) /\ KeyKept(over, r, old, value)
               /\ AssistantKept(over, r, old, value)
               /\ PlanKept(kind, r) /\ SettingsKept(kind, copy, over, r, old, value)
               /\ WidgetKept(kind, args, copy, over, r, old, value)
               /\ BaseKept(kind, args, copy, r, old, value)
               /\ RatingKept(kind, args, copy, r, old, value)
               /\ RosterKept(kind, args, r, value) /\ TeamKept(kind, r)
               /\ r[1] = "message" => ConversationKept(kind, over, r, old, value)
               /\ r[1] = "conversation" => MessageKept(kind, args, r, value)
    BY <1>1 DEF PlanKept, SettingsKept, WidgetKept, BaseKept, RatingKept, RosterKept, TeamKept,
                ConversationKept, MessageKept, ModelKept, KeyKept, AssistantKept
  <1>2. ASSUME r[1] \in {"conversation", "message"}
        PROVE  /\ GrantRule(p, new, r) /\ AssistantRule(p, new, r)
               /\ WidgetRule(p, new, r) /\ VisitRule(p, new, r) /\ RatingRule(p, new, r)
               /\ r[1] = "message" => ConversationRule(p, new, r)
               /\ r[1] = "conversation" => MessageRule(p, new, r)
    BY <1>2 DEF WidgetRule, VisitRule, RatingRule, MessageRule, ConversationRule, GrantRule,
                AssistantRule
  <1> QED  BY <1>1, <1>2 DEF Lasting, Rule

-----------------------------------------------------------------------------
(* The platform's models. *)
LEMMA ModelRead ==
  ASSUME IInv, NEW p \in Requests, NEW kind \in ModelKinds, Decides(p, kind)
  PROVE  /\ kind # "idle" /\ kind \notin GoesOnKinds
         /\ Arg(p).on \in Models /\ Id(p) \in Numbers
         /\ Model(Arg(p).on) \in DOMAIN req[p].copy /\ Chosen(p) \in ModelValues
         /\ \A r : Seen(p, r) = db[r]
  <1>1. kind # "idle" /\ kind \notin GoesOnKinds  BY DEF ModelKinds, GoesOnKinds
  <1>2. /\ Asked(kind, Arg(p), DOMAIN req[p].copy) /\ Id(p) \in Numbers
        /\ \A r \in DOMAIN req[p].copy : Copy(p, r) \in ValuesOf(r)
        /\ \A r : Seen(p, r) = db[r]
    BY <1>1, Deciding
  <1>3. Arg(p).on \in Models /\ Model(Arg(p).on) \in DOMAIN req[p].copy
    BY <1>2 DEF Asked, CatalogueAsked
  <1> QED  BY <1>1, <1>2, <1>3, CatalogueRowsAre DEF Chosen

LEMMA ModelChanged ==
  ASSUME IInv, NEW p \in Requests, NEW kind \in ModelKinds, Decides(p, kind),
         NEW value \in ModelValues, Update(p, Model(Arg(p).on), value),
         kind = "restore_model" \/ (Chosen(p).archived => value.archived)
  PROVE  Writes(p)
  <1> DEFINE r == Model(Arg(p).on)
  <1>1. /\ kind # "idle" /\ Arg(p).on \in Models /\ r \in DOMAIN req[p].copy
    BY ModelRead
  <1>2. r \in Rows /\ r[1] = "model" /\ ValuesOf(r) = ModelValues
    BY <1>1, CatalogueRowsAre
  <1>3. Chosen(p) = Copy(p, r)  BY DEF Chosen
  <1> HIDE DEF r
  <1>4. ASSUME AsRead(p, r), NEW new
        PROVE  /\ Lasting(kind, Arg(p), req[p].copy, overwritten', r, db[r], value)
               /\ Rule(p, new, r)
    <2>1. ModelKept(kind, overwritten', r, db[r], value)
      BY <1>1, <1>3, <1>4 DEF ModelKept, AsRead
    <2> QED  BY <1>2, <2>1, CatalogueGood
  <1>5. Update(p, r, value)  BY DEF r
  <1> QED  BY <1>1, <1>2, <1>4, <1>5, UpdateStored

LEMMA ModelCreated ==
  ASSUME IInv, NEW p \in Requests, CreateModelConfiguration(p)
  PROVE  Writes(p)
  <1> DEFINE r == Model(Arg(p).on)
             value == [there |-> TRUE, archived |-> FALSE, name |-> Id(p)]
  <1>1. "create_model" \in ModelKinds /\ Decides(p, "create_model")
    BY DEF ModelKinds, CreateModelConfiguration
  <1>2. Arg(p).on \in Models /\ Id(p) \in Numbers /\ \A x : Seen(p, x) = db[x]
    BY <1>1, ModelRead
  <1>3. r \in Rows /\ r[1] = "model" /\ ValuesOf(r) = ModelValues
    BY <1>2, CatalogueRowsAre
  <1>4. value \in ModelValues  BY <1>2 DEF ModelValues
  <1>5. SaveRow(p, r, value) /\ ~db[r].there
    BY <1>2 DEF CreateModelConfiguration, Insert
  <1> HIDE DEF r, value
  <1>6. ASSUME NEW new
        PROVE  /\ Lasting("create_model", Arg(p), req[p].copy, overwritten', r, db[r], value)
               /\ Rule(p, new, r)
    BY <1>3, <1>5, CatalogueGood DEF ModelKept
  <1> QED  BY <1>1, <1>3, <1>4, <1>5, <1>6, RowStored

LEMMA ModelsKept ==
  ASSUME IInv, NEW p \in Requests,
         \/ UpdateModelConfiguration(p) \/ ArchiveModelConfiguration(p)
         \/ RestoreModelConfiguration(p)
  PROVE  Writes(p)
  <1>1. CASE UpdateModelConfiguration(p)
    <2> DEFINE value == [Chosen(p) EXCEPT !.name = Id(p)]
    <2>1. "update_model" \in ModelKinds /\ Decides(p, "update_model")
      BY <1>1 DEF ModelKinds, UpdateModelConfiguration
    <2>2. Chosen(p) \in ModelValues /\ Id(p) \in Numbers  BY <2>1, ModelRead
    <2>3. value \in ModelValues /\ value.archived = Chosen(p).archived
      BY <2>2 DEF ModelValues
    <2>4. Update(p, Model(Arg(p).on), value)  BY <1>1 DEF UpdateModelConfiguration
    <2> HIDE DEF value
    <2> QED  BY <2>1, <2>3, <2>4, ModelChanged
  <1>2. CASE ArchiveModelConfiguration(p)
    <2> DEFINE value == [Chosen(p) EXCEPT !.archived = TRUE]
    <2>1. "archive_model" \in ModelKinds /\ Decides(p, "archive_model")
      BY <1>2 DEF ModelKinds, ArchiveModelConfiguration
    <2>2. Chosen(p) \in ModelValues  BY <2>1, ModelRead
    <2>3. value \in ModelValues /\ value.archived
      BY <2>2 DEF ModelValues
    <2>4. Update(p, Model(Arg(p).on), value)  BY <1>2 DEF ArchiveModelConfiguration
    <2> HIDE DEF value
    <2> QED  BY <2>1, <2>3, <2>4, ModelChanged
  <1>3. CASE RestoreModelConfiguration(p)
    <2> DEFINE value == [Chosen(p) EXCEPT !.archived = FALSE]
    <2>1. "restore_model" \in ModelKinds /\ Decides(p, "restore_model")
      BY <1>3 DEF ModelKinds, RestoreModelConfiguration
    <2>2. Chosen(p) \in ModelValues  BY <2>1, ModelRead
    <2>3. value \in ModelValues  BY <2>2 DEF ModelValues
    <2>4. Update(p, Model(Arg(p).on), value)  BY <1>3 DEF RestoreModelConfiguration
    <2> HIDE DEF value
    <2> QED  BY <2>1, <2>3, <2>4, ModelChanged
  <1> QED  BY <1>1, <1>2, <1>3
LEMMA GrantGiven ==
  ASSUME IInv, NEW p \in Requests, GrantModelConfigurationToTenant(p)
  PROVE  Writes(p)
  <1> DEFINE r == ModelGrant(Arg(p).on)
             value == [there |-> TRUE, key |-> NoKey]
  <1>1. "grant_model" \in ModelKinds /\ Decides(p, "grant_model")
    BY DEF ModelKinds, GrantModelConfigurationToTenant
  <1>2. Arg(p).on \in Models  BY <1>1, ModelRead
  <1>3. r \in Rows /\ r[1] = "grant" /\ ValuesOf(r) = GrantValues
    BY <1>2, CatalogueRowsAre
  <1>4. value \in GrantValues /\ value.there  BY DEF GrantValues
  <1>5. IF Seen(p, r).there THEN Save(p, NoRows) ELSE SaveRow(p, r, value)
    BY DEF GrantModelConfigurationToTenant
  <1> HIDE DEF r, value
  <1>6. ASSUME NEW new, new[r] = value
        PROVE  /\ Lasting("grant_model", Arg(p), req[p].copy, overwritten', r, db[r], value)
               /\ Rule(p, new, r)
    BY <1>3, <1>4, <1>6, CatalogueGood DEF GrantRule
  <1>7. CASE Seen(p, r).there
    BY <1>1, <1>5, <1>7, NothingStored
  <1>8. CASE ~Seen(p, r).there
    <2>1. SaveRow(p, r, value)  BY <1>5, <1>8
    <2> QED  BY <1>1, <1>3, <1>4, <1>6, <2>1, RowStored
  <1> QED  BY <1>7, <1>8

LEMMA GrantTaken ==
  ASSUME IInv, NEW p \in Requests, RevokeModelConfigurationFromTenant(p)
  PROVE  Writes(p)
  <1> DEFINE r == ModelGrant(Arg(p).on)
             value == [there |-> FALSE, key |-> NoKey]
             uses == {v \in AssistantValues : Uses(Arg(p).on, v)}
  <1>1. Decides(p, "revoke_model")  BY DEF RevokeModelConfigurationFromTenant
  <1>2. Arg(p).on \in Models
    BY <1>1, Deciding DEF Asked, CatalogueAsked
  <1>3. r \in Rows /\ r[1] = "grant" /\ ValuesOf(r) = GrantValues
    BY <1>2, CatalogueRowsAre
  <1>4. value \in GrantValues  BY DEF GrantValues
  <1>5. Update(p, r, value) /\ Unreferred(p, AssistantRows, uses)
    BY DEF RevokeModelConfigurationFromTenant
  <1>6. ASSUME NEW new, DOMAIN new = {r}
        PROVE  GrantRule(p, new, r)
    <2>1. AssistantRows \cap DOMAIN new = {}
      BY <1>3, <1>6, CatalogueRowsAre DEF AssistantRows
    <2> QED  BY <1>2, <1>5, <2>1 DEF GrantRule
  <1> HIDE DEF r, value, uses
  <1>7. ASSUME NEW new, DOMAIN new = {r}
        PROVE  /\ Lasting("revoke_model", Arg(p), req[p].copy, overwritten', r, db[r], value)
               /\ Rule(p, new, r)
    BY <1>3, <1>6, <1>7, CatalogueGood
  <1> QED  BY <1>1, <1>3, <1>4, <1>5, <1>7, UpdateStored

(* The tenant's keys. *)
LEMMA KeyIsRead ==
  ASSUME IInv, NEW p \in Requests, NEW kind \in KeyKinds, Decides(p, kind)
  PROVE  /\ kind # "idle"
         /\ Arg(p).on \in Keys /\ Id(p) \in Numbers
         /\ Key(Arg(p).on) \in DOMAIN req[p].copy /\ KeyRead(p) \in KeyValues
         /\ \A r : Seen(p, r) = db[r]
  <1>1. kind # "idle" /\ kind \notin GoesOnKinds  BY DEF KeyKinds, GoesOnKinds
  <1>2. /\ Asked(kind, Arg(p), DOMAIN req[p].copy) /\ Id(p) \in Numbers
        /\ \A r \in DOMAIN req[p].copy : Copy(p, r) \in ValuesOf(r)
        /\ \A r : Seen(p, r) = db[r]
    BY <1>1, Deciding
  <1>3. Arg(p).on \in Keys /\ Key(Arg(p).on) \in DOMAIN req[p].copy
    BY <1>2 DEF Asked, CatalogueAsked
  <1> QED  BY <1>1, <1>2, <1>3, CatalogueRowsAre DEF KeyRead

LEMMA KeyStored ==
  ASSUME IInv, NEW p \in Requests, StoreProviderCredential(p)
  PROVE  Writes(p)
  <1> DEFINE r == Key(Arg(p).on)
             value == [there |-> TRUE, revoked |-> FALSE, secret |-> Id(p)]
  <1>1. "store_key" \in KeyKinds /\ Decides(p, "store_key")
    BY DEF KeyKinds, StoreProviderCredential
  <1>2. Arg(p).on \in Keys /\ Id(p) \in Numbers /\ \A x : Seen(p, x) = db[x]
    BY <1>1, KeyIsRead
  <1>3. r \in Rows /\ r[1] = "key" /\ ValuesOf(r) = KeyValues
    BY <1>2, CatalogueRowsAre
  <1>4. value \in KeyValues  BY <1>2 DEF KeyValues
  <1>5. SaveRow(p, r, value) /\ ~db[r].there
    BY <1>2 DEF StoreProviderCredential, Insert
  <1> HIDE DEF r, value
  <1>6. ASSUME NEW new
        PROVE  /\ Lasting("store_key", Arg(p), req[p].copy, overwritten', r, db[r], value)
               /\ Rule(p, new, r)
    BY <1>3, <1>5, CatalogueGood DEF KeyKept
  <1> QED  BY <1>1, <1>3, <1>4, <1>5, <1>6, RowStored

LEMMA KeyChanged ==
  ASSUME IInv, NEW p \in Requests, NEW kind \in KeyKinds, Decides(p, kind),
         NEW value \in KeyValues, Update(p, Key(Arg(p).on), value), Usable(KeyRead(p))
  PROVE  Writes(p)
  <1> DEFINE r == Key(Arg(p).on)
  <1>1. /\ kind # "idle" /\ Arg(p).on \in Keys /\ r \in DOMAIN req[p].copy
    BY KeyIsRead
  <1>2. r \in Rows /\ r[1] = "key" /\ ValuesOf(r) = KeyValues
    BY <1>1, CatalogueRowsAre
  <1>3. KeyRead(p) = Copy(p, r)  BY DEF KeyRead
  <1> HIDE DEF r
  <1>4. ASSUME AsRead(p, r), NEW new
        PROVE  /\ Lasting(kind, Arg(p), req[p].copy, overwritten', r, db[r], value)
               /\ Rule(p, new, r)
    <2>1. KeyKept(overwritten', r, db[r], value)
      BY <1>1, <1>3, <1>4 DEF KeyKept, AsRead, Usable
    <2> QED  BY <1>2, <2>1, CatalogueGood
  <1>5. Update(p, r, value)  BY DEF r
  <1> QED  BY <1>1, <1>2, <1>4, <1>5, UpdateStored

LEMMA KeysKept ==
  ASSUME IInv, NEW p \in Requests,
         RotateProviderCredential(p) \/ RevokeProviderCredential(p)
  PROVE  Writes(p)
  <1>1. CASE RotateProviderCredential(p)
    <2> DEFINE value == [KeyRead(p) EXCEPT !.secret = Id(p)]
    <2>1. "rotate_key" \in KeyKinds /\ Decides(p, "rotate_key") /\ Usable(KeyRead(p))
      BY <1>1 DEF KeyKinds, RotateProviderCredential
    <2>2. KeyRead(p) \in KeyValues /\ Id(p) \in Numbers  BY <2>1, KeyIsRead
    <2>3. value \in KeyValues  BY <2>2 DEF KeyValues
    <2>4. Update(p, Key(Arg(p).on), value)  BY <1>1 DEF RotateProviderCredential
    <2> HIDE DEF value
    <2> QED  BY <2>1, <2>3, <2>4, KeyChanged
  <1>2. CASE RevokeProviderCredential(p)
    <2> DEFINE value == [KeyRead(p) EXCEPT !.revoked = TRUE]
    <2>1. "revoke_key" \in KeyKinds /\ Decides(p, "revoke_key") /\ Usable(KeyRead(p))
      BY <1>2 DEF KeyKinds, RevokeProviderCredential
    <2>2. KeyRead(p) \in KeyValues  BY <2>1, KeyIsRead
    <2>3. value \in KeyValues  BY <2>2 DEF KeyValues
    <2>4. Update(p, Key(Arg(p).on), value)  BY <1>2 DEF RevokeProviderCredential
    <2> HIDE DEF value
    <2> QED  BY <2>1, <2>3, <2>4, KeyChanged
  <1> QED  BY <1>1, <1>2

LEMMA KeyAttached ==
  ASSUME IInv, NEW p \in Requests, SetModelCredential(p)
  PROVE  Writes(p)
  <1> DEFINE r == ModelGrant(Arg(p).with)
             value == [Seen(p, r) EXCEPT !.key = Arg(p).on]
  <1>1. PICK kind \in {"attach_key", "detach_key"} : Decides(p, kind)
    BY DEF SetModelCredential
  <1>2. Arg(p).with \in Models /\ (Arg(p).on \in Keys \/ Arg(p).on = NoKey)
    BY <1>1, Deciding DEF Asked, CatalogueAsked, KeyKinds
  <1>3. r \in Rows /\ r[1] = "grant" /\ ValuesOf(r) = GrantValues
    BY <1>2, CatalogueRowsAre
  <1>4. Seen(p, r) \in GrantValues /\ Seen(p, r).there /\ SaveRow(p, r, value)
    BY <1>3, SeenOk DEF SetModelCredential
  <1>5. value \in GrantValues /\ value.there
    BY <1>2, <1>4 DEF GrantValues
  <1> HIDE DEF r, value
  <1>6. ASSUME NEW new, new[r] = value
        PROVE  /\ Lasting(kind, Arg(p), req[p].copy, overwritten', r, db[r], value)
               /\ Rule(p, new, r)
    BY <1>3, <1>5, <1>6, CatalogueGood DEF GrantRule
  <1>7. kind # "idle"  BY <1>1
  <1> QED  BY <1>1, <1>3, <1>4, <1>5, <1>6, <1>7, RowStored
(* Assistants. *)
LEMMA AssistantIsRead ==
  ASSUME IInv, NEW p \in Requests, NEW kind \in AssistantKinds, Decides(p, kind)
  PROVE  /\ kind # "idle"
         /\ Arg(p).on \in Assistants /\ Id(p) \in Numbers
         /\ About(p) \in DOMAIN req[p].copy /\ AssistantRead(p) \in AssistantValues
         /\ About(p) \in Rows /\ About(p)[1] = "assistant"
         /\ ValuesOf(About(p)) = AssistantValues
         /\ \A r : Seen(p, r) = db[r]
  <1>1. kind # "idle" /\ kind \notin GoesOnKinds  BY DEF AssistantKinds, GoesOnKinds
  <1>2. /\ Asked(kind, Arg(p), DOMAIN req[p].copy) /\ Id(p) \in Numbers
        /\ \A r \in DOMAIN req[p].copy : Copy(p, r) \in ValuesOf(r)
        /\ \A r : Seen(p, r) = db[r]
    BY <1>1, Deciding
  <1>3. Arg(p).on \in Assistants /\ About(p) \in DOMAIN req[p].copy
    BY <1>2 DEF Asked, CatalogueAsked, About
  <1>4. /\ About(p) \in Rows /\ About(p)[1] = "assistant"
        /\ ValuesOf(About(p)) = AssistantValues
    BY <1>3, CatalogueRowsAre DEF About
  <1> QED  BY <1>1, <1>2, <1>3, <1>4 DEF AssistantRead

LEMMA AssistantSaved ==
  ASSUME IInv, NEW p \in Requests, NEW kind \in AssistantKinds, Decides(p, kind), Loaded(p),
         NEW value \in AssistantValues, SaveAssistant(p, value), value.status # "absent",
         AssistantRead(p).status # "archived" \/ value.status = "archived"
  PROVE  Writes(p)
  <1> DEFINE r == About(p)
  <1>1. /\ kind # "idle" /\ r \in DOMAIN req[p].copy /\ r \in Rows /\ r[1] = "assistant"
        /\ ValuesOf(r) = AssistantValues
    BY AssistantIsRead
  <1>2. AssistantRead(p) = Copy(p, r) /\ Copy(p, r).status # "absent"
    BY DEF AssistantRead, Loaded
  <1>3. /\ value.model # Seen(p, r).model => Referable(p, ModelGrant(value.model))
        /\ SaveRow(p, r, value)
    BY DEF SaveAssistant
  <1> HIDE DEF r
  <1>4. ASSUME AsRead(p, r), NEW new, new[r] = value
        PROVE  /\ Lasting(kind, Arg(p), req[p].copy, overwritten', r, db[r], value)
               /\ Rule(p, new, r)
    <2>1. AssistantKept(overwritten', r, db[r], value)
      BY <1>1, <1>2, <1>4 DEF AssistantKept, AsRead
    <2>2. AssistantRule(p, new, r)
      BY <1>1, <1>2, <1>3, <1>4 DEF AssistantRule
    <2> QED  BY <1>1, <2>1, <2>2, CatalogueGood
  <1> QED  BY <1>1, <1>3, <1>4, RowStored

LEMMA AssistantCreated ==
  ASSUME IInv, NEW p \in Requests, CreateAssistant(p)
  PROVE  Writes(p)
  <1> DEFINE r == About(p)
  <1>1. /\ Decides(p, "create_assistant") /\ "create_assistant" # "idle"
        /\ "create_assistant" \notin GoesOnKinds
    BY DEF CreateAssistant, GoesOnKinds
  <1>2. /\ Arg(p).on \in Assistants /\ Arg(p).with.actor \in People /\ What(p) \in Models
        /\ Id(p) \in Numbers /\ Seen(p, r) = db[r]
    BY <1>1, Deciding DEF Asked, CatalogueAsked, What
  <1>3. r \in Rows /\ r[1] = "assistant" /\ ValuesOf(r) = AssistantValues
    BY <1>2, CatalogueRowsAre DEF About
  <1>4. PICK audience \in {{}, People} :
            SaveRow(p, r, [status |-> "draft", owner |-> Arg(p).with.actor, model |-> What(p),
                           audience |-> audience, name |-> Id(p)])
    BY DEF CreateAssistant
  <1> DEFINE value == [status |-> "draft", owner |-> Arg(p).with.actor, model |-> What(p),
                       audience |-> audience, name |-> Id(p)]
  <1>5. value \in AssistantValues /\ value.status = "draft" /\ value.model = What(p)
    BY <1>2 DEF AssistantValues
  <1>6. db[r].status = "absent" /\ Referable(p, ModelGrant(value.model))
    BY <1>2, <1>5 DEF CreateAssistant
  <1>7. SaveRow(p, r, value)  BY <1>4
  <1> HIDE DEF r, value
  <1>8. ASSUME NEW new, new[r] = value
        PROVE  /\ Lasting("create_assistant", Arg(p), req[p].copy, overwritten', r, db[r], value)
               /\ Rule(p, new, r)
    <2>1. AssistantKept(overwritten', r, db[r], value)
      BY <1>5, <1>6 DEF AssistantKept
    <2>2. AssistantRule(p, new, r)
      BY <1>6, <1>8 DEF AssistantRule
    <2> QED  BY <1>3, <2>1, <2>2, CatalogueGood
  <1> QED  BY <1>1, <1>3, <1>5, <1>7, <1>8, RowStored

LEMMA AssistantsKept ==
  ASSUME IInv, NEW p \in Requests,
         PublishAssistant(p) \/ UpdateAssistant(p) \/ ArchiveAssistant(p)
             \/ ChangeAssistantVisibility(p)
  PROVE  Writes(p)
  <1>1. CASE PublishAssistant(p)
    <2> DEFINE value == [AssistantRead(p) EXCEPT !.status = "published"]
    <2>1. /\ "publish_assistant" \in AssistantKinds /\ Decides(p, "publish_assistant")
          /\ Loaded(p) /\ AssistantRead(p).status # "archived"
      BY <1>1 DEF AssistantKinds, PublishAssistant
    <2>2. AssistantRead(p) \in AssistantValues  BY <2>1, AssistantIsRead
    <2>3. value \in AssistantValues /\ value.status = "published"
      BY <2>2 DEF AssistantValues
    <2>4. SaveAssistant(p, value)  BY <1>1 DEF PublishAssistant
    <2> HIDE DEF value
    <2> QED  BY <2>1, <2>3, <2>4, AssistantSaved
  <1>2. CASE UpdateAssistant(p)
    <2> DEFINE value == [AssistantRead(p) EXCEPT !.model = What(p), !.name = Id(p)]
    <2>1. /\ "update_assistant" \in AssistantKinds /\ Decides(p, "update_assistant")
          /\ Loaded(p)
      BY <1>2 DEF AssistantKinds, UpdateAssistant
    <2>2. AssistantRead(p) \in AssistantValues /\ Id(p) \in Numbers
      BY <2>1, AssistantIsRead
    <2>3. What(p) \in Models
      BY <2>1, Deciding DEF Asked, CatalogueAsked, What
    <2>4. value \in AssistantValues /\ value.status = AssistantRead(p).status
      BY <2>2, <2>3 DEF AssistantValues
    <2>5. SaveAssistant(p, value) /\ AssistantRead(p).status # "absent"
      BY <1>2 DEF UpdateAssistant, Loaded
    <2> HIDE DEF value
    <2> QED  BY <2>1, <2>4, <2>5, AssistantSaved
  <1>3. CASE ArchiveAssistant(p)
    <2> DEFINE value == [AssistantRead(p) EXCEPT !.status = "archived"]
    <2>1. /\ "archive_assistant" \in AssistantKinds /\ Decides(p, "archive_assistant")
          /\ Loaded(p)
      BY <1>3 DEF AssistantKinds, ArchiveAssistant
    <2>2. AssistantRead(p) \in AssistantValues  BY <2>1, AssistantIsRead
    <2>3. value \in AssistantValues /\ value.status = "archived"
      BY <2>2 DEF AssistantValues
    <2>4. SaveAssistant(p, value)  BY <1>3 DEF ArchiveAssistant
    <2> HIDE DEF value
    <2> QED  BY <2>1, <2>3, <2>4, AssistantSaved
  <1>4. CASE ChangeAssistantVisibility(p)
    <2> DEFINE value == [AssistantRead(p) EXCEPT !.audience = What(p)]
    <2>1. /\ "show_assistant" \in AssistantKinds /\ Decides(p, "show_assistant")
          /\ Loaded(p)
      BY <1>4 DEF AssistantKinds, ChangeAssistantVisibility
    <2>2. AssistantRead(p) \in AssistantValues  BY <2>1, AssistantIsRead
    <2>3. What(p) \subseteq People
      BY <2>1, Deciding DEF Asked, CatalogueAsked, What
    <2>4. value \in AssistantValues /\ value.status = AssistantRead(p).status
      BY <2>2, <2>3 DEF AssistantValues
    <2>5. SaveAssistant(p, value) /\ AssistantRead(p).status # "absent"
      BY <1>4 DEF ChangeAssistantVisibility, Loaded
    <2> HIDE DEF value
    <2> QED  BY <2>1, <2>4, <2>5, AssistantSaved
  <1> QED  BY <1>1, <1>2, <1>3, <1>4

LEMMA AccessChanged ==
  ASSUME IInv, NEW p \in Requests,
         GrantAssistantAccess(p) \/ RevokeAssistantAccess(p)
  PROVE  Writes(p)
  <1> DEFINE r == Access(Arg(p).on, What(p).to)
  <1>1. PICK kind \in {"give_access", "take_access"}, level \in AccessLevels :
            Decides(p, kind) /\ SaveRow(p, r, level)
    <2>1. CASE GrantAssistantAccess(p)
      <3>1. Decides(p, "give_access") /\ SaveRow(p, r, What(p).level)
        BY <2>1 DEF GrantAssistantAccess
      <3>2. What(p).level \in AccessLevels
        BY <3>1, Deciding DEF Asked, CatalogueAsked, What
      <3> QED  BY <3>1, <3>2
    <2>2. CASE RevokeAssistantAccess(p)
      BY <2>2 DEF RevokeAssistantAccess, AccessLevels
    <2> QED  BY <2>1, <2>2
  <1>2. Arg(p).on \in Assistants /\ What(p).to \in People /\ kind # "idle"
    BY <1>1, Deciding DEF Asked, CatalogueAsked, What, AssistantKinds
  <1>3. r \in Rows /\ r[1] = "access" /\ ValuesOf(r) = AccessLevels
    BY <1>2, CatalogueRowsAre
  <1> HIDE DEF r
  <1>4. ASSUME NEW new
        PROVE  /\ Lasting(kind, Arg(p), req[p].copy, overwritten', r, db[r], level)
               /\ Rule(p, new, r)
    BY <1>3, CatalogueGood
  <1> QED  BY <1>1, <1>2, <1>3, <1>4, RowStored

LEMMA CatalogueWrites ==
  ASSUME IInv, NEW p \in Requests, CatalogueUseCase(p)
  PROVE  Writes(p)
  BY ModelCreated, ModelsKept, GrantGiven, GrantTaken, KeyStored, KeysKept, KeyAttached,
     AssistantCreated, AssistantsKept, AccessChanged
     DEF CatalogueUseCase
-----------------------------------------------------------------------------
(* The plan, the knowledge bases and their ratings. *)
LEMMA PlanSet ==
  ASSUME IInv, NEW p \in Requests, SetTenantEntitlements(p)
  PROVE  Writes(p)
  <1>1. Decides(p, "set_plan") /\ SaveRow(p, Plan, Arg(p).with)
    BY DEF SetTenantEntitlements
  <1>2. Arg(p).with \in PlanValues  BY <1>1, Deciding DEF Asked, ChatbotAsked
  <1>3. ASSUME NEW new
        PROVE  /\ Lasting("set_plan", Arg(p), req[p].copy, overwritten', Plan, db[Plan], Arg(p).with)
               /\ Rule(p, new, Plan)
    BY ChatbotRowsAre, ChatbotGood DEF PlanKept
  <1> QED  BY <1>1, <1>2, <1>3, ChatbotRowsAre, RowStored

LEMMA BaseMade ==
  ASSUME IInv, NEW p \in Requests, CreateKnowledgeBase(p)
  PROVE  Writes(p)
  <1> DEFINE r == Base(Arg(p).on)
             value == [there |-> TRUE]
  <1>1. /\ Decides(p, "create_base") /\ Insert(p, r, value)
        /\ MayCreate(Count(p, BaseRows), Copy(p, Plan).bases)
        /\ "create_base" # "idle" /\ "create_base" \notin GoesOnKinds
    BY DEF CreateKnowledgeBase, GoesOnKinds
  <1>2. Arg(p).on \in Bases /\ Seen(p, r) = db[r]
    BY <1>1, Deciding DEF Asked, ChatbotAsked
  <1>3. r \in Rows /\ r[1] = "base" /\ ValuesOf(r) = [there : BOOLEAN]
    BY <1>2, ChatbotRowsAre
  <1>4. value \in [there : BOOLEAN] /\ value.there  OBVIOUS
  <1>5. SaveRow(p, r, value) /\ ~db[r].there  BY <1>1, <1>2 DEF Insert
  <1>6. BaseKept("create_base", Arg(p), req[p].copy, r, db[r], value)
    BY <1>1, <1>4, <1>5 DEF BaseKept, BaseCreated, Count, CountIn, Copy
  <1> HIDE DEF r, value
  <1>7. ASSUME NEW new
        PROVE  /\ Lasting("create_base", Arg(p), req[p].copy, overwritten', r, db[r], value)
               /\ Rule(p, new, r)
    BY <1>3, <1>6, ChatbotGood
  <1> QED  BY <1>1, <1>3, <1>4, <1>5, <1>7, RowStored

LEMMA BaseGone ==
  ASSUME IInv, NEW p \in Requests, DeleteKnowledgeBase(p)
  PROVE  Writes(p)
  <1> DEFINE r == Base(Arg(p).on)
             value == [there |-> FALSE]
  <1>1. /\ Decides(p, "delete_base") /\ SaveRow(p, r, value)
        /\ NoWidgetUses(p, Arg(p).on)
    BY DEF DeleteKnowledgeBase
  <1>2. Arg(p).on \in Bases
    BY <1>1, Deciding DEF Asked, ChatbotAsked
  <1>3. r \in Rows /\ r[1] = "base" /\ ValuesOf(r) = [there : BOOLEAN]
    BY <1>2, ChatbotRowsAre
  <1>4. value \in [there : BOOLEAN] /\ ~value.there  OBVIOUS
  <1>5. BaseKept("delete_base", Arg(p), req[p].copy, r, db[r], value)
    BY <1>1, <1>4 DEF BaseKept, BaseDeleted, NoWidgetUses, Copy
  <1> HIDE DEF r, value
  <1>6. ASSUME NEW new
        PROVE  /\ Lasting("delete_base", Arg(p), req[p].copy, overwritten', r, db[r], value)
               /\ Rule(p, new, r)
    BY <1>3, <1>5, ChatbotGood
  <1> QED  BY <1>1, <1>3, <1>4, <1>6, RowStored

LEMMA AnswerRated ==
  ASSUME IInv, NEW p \in Requests, RecordAnswerFeedback(p)
  PROVE  Writes(p)
  <1> DEFINE r == Rating(Arg(p).with)
  <1>1. Decides(p, "rate") /\ SaveRow(p, r, "member")
    BY DEF RecordAnswerFeedback
  <1>2. Arg(p).with \in Ratings
    BY <1>1, Deciding DEF Asked, ChatbotAsked
  <1>3. r \in Rows /\ r[1] = "rating" /\ ValuesOf(r) = RatingValues
    BY <1>2, ChatbotRowsAre
  <1>4. "member" \in RatingValues /\ "member" \notin Widgets
    BY ChatbotAssumption DEF RatingValues
  <1> HIDE DEF r
  <1>5. ASSUME NEW new, new[r] = "member"
        PROVE  /\ Lasting("rate", Arg(p), req[p].copy, overwritten', r, db[r], "member")
               /\ Rule(p, new, r)
    BY <1>3, <1>4, <1>5, ChatbotGood DEF RatingKept, RatingRule
  <1> QED  BY <1>1, <1>3, <1>4, <1>5, RowStored

(* Widgets. *)
LEMMA WidgetIsRead ==
  ASSUME IInv, NEW p \in Requests, NEW kind \in WidgetKinds, Decides(p, kind)
  PROVE  /\ kind # "idle"
         /\ Arg(p).on \in Widgets /\ Id(p) \in Numbers
         /\ Widget(Arg(p).on) \in DOMAIN req[p].copy /\ WidgetRead(p) \in WidgetValues
         /\ \A r : Seen(p, r) = db[r]
  <1>1. kind # "idle" /\ kind \notin GoesOnKinds  BY DEF WidgetKinds, GoesOnKinds
  <1>2. /\ Asked(kind, Arg(p), DOMAIN req[p].copy) /\ Id(p) \in Numbers
        /\ \A r \in DOMAIN req[p].copy : Copy(p, r) \in ValuesOf(r)
        /\ \A r : Seen(p, r) = db[r]
    BY <1>1, Deciding
  <1>3. Arg(p).on \in Widgets /\ Widget(Arg(p).on) \in DOMAIN req[p].copy
    BY <1>2 DEF Asked, ChatbotAsked
  <1> QED  BY <1>1, <1>2, <1>3, ChatbotRowsAre DEF WidgetRead

LEMMA WidgetSaved ==
  ASSUME IInv, NEW p \in Requests, NEW kind \in WidgetKinds, Decides(p, kind),
         NEW value \in WidgetValues, SaveWidget(p, value), value.there,
         value.base = WidgetRead(p).base,
         \/ value.cap = WidgetRead(p).cap
         \/ Plan \in DOMAIN req[p].copy /\ value.cap <= Copy(p, Plan).daily,
         kind = "enable_widget" \/ (value.on => WidgetRead(p).on)
  PROVE  Writes(p)
  <1> DEFINE r == Widget(Arg(p).on)
  <1>1. /\ kind # "idle" /\ Arg(p).on \in Widgets /\ r \in DOMAIN req[p].copy
        /\ Seen(p, r) = db[r]
    BY WidgetIsRead
  <1>2. r \in Rows /\ r[1] = "widget" /\ ValuesOf(r) = WidgetValues
    BY <1>1, ChatbotRowsAre
  <1>3. WidgetRead(p) = Copy(p, r) /\ Copy(p, r) = req[p].copy[r]
        /\ Copy(p, Plan) = req[p].copy[Plan]
    BY DEF WidgetRead, Copy
  <1>4. WidgetRead(p).there /\ Update(p, r, value)  BY DEF SaveWidget
  <1>5. kind # "create_widget"  BY DEF WidgetKinds
  <1> HIDE DEF r
  <1>6. ASSUME AsRead(p, r), db[r].there, NEW new, new[r] = value
        PROVE  /\ Lasting(kind, Arg(p), req[p].copy, overwritten', r, db[r], value)
               /\ Rule(p, new, r)
    <2>1. WidgetEdited(kind, req[p].copy, overwritten', r, db[r], value)
      BY <1>1, <1>3, <1>4, <1>5, <1>6 DEF WidgetEdited, AsRead
    <2>2. WidgetKept(kind, Arg(p), req[p].copy, overwritten', r, db[r], value)
      BY <2>1 DEF WidgetKept
    <2>3. WidgetRule(p, new, r)  BY <1>6 DEF WidgetRule
    <2> QED  BY <1>2, <2>2, <2>3, ChatbotGood
  <1> QED  BY <1>1, <1>2, <1>4, <1>6, UpdateStored

LEMMA WidgetsKept ==
  ASSUME IInv, NEW p \in Requests,
         SetChatWidgetStatus(p) \/ UpdateChatWidget(p) \/ UpdateWidgetPresentation(p)
  PROVE  Writes(p)
  <1>1. CASE SetChatWidgetStatus(p)
    <2>1. PICK kind \in {"enable_widget", "disable_widget"} :
              /\ Decides(p, kind)
              /\ SaveWidget(p, [WidgetRead(p) EXCEPT !.on = (kind = "enable_widget")])
      BY <1>1 DEF SetChatWidgetStatus
    <2> DEFINE value == [WidgetRead(p) EXCEPT !.on = (kind = "enable_widget")]
    <2>2. kind \in WidgetKinds  BY DEF WidgetKinds
    <2>3. WidgetRead(p) \in WidgetValues  BY <2>1, <2>2, WidgetIsRead
    <2>4. /\ value \in WidgetValues /\ value.there = WidgetRead(p).there
          /\ value.base = WidgetRead(p).base /\ value.cap = WidgetRead(p).cap
          /\ value.on = (kind = "enable_widget")
      BY <2>3 DEF WidgetValues
    <2>5. SaveWidget(p, value) /\ WidgetRead(p).there  BY <2>1 DEF SaveWidget
    <2> HIDE DEF value
    <2> QED  BY <2>1, <2>2, <2>4, <2>5, WidgetSaved
  <1>2. CASE UpdateChatWidget(p)
    <2> DEFINE value == [WidgetRead(p) EXCEPT !.name = Id(p), !.cap = Arg(p).with]
    <2>1. /\ "update_widget" \in WidgetKinds /\ Decides(p, "update_widget")
          /\ Arg(p).with = WidgetRead(p).cap \/ WithinCeiling(p, Arg(p).with)
          /\ SaveWidget(p, value)
      BY <1>2 DEF WidgetKinds, UpdateChatWidget
    <2>2. WidgetRead(p) \in WidgetValues /\ Id(p) \in Numbers
      BY <2>1, WidgetIsRead
    <2>3. Arg(p).with \in Limits /\ Plan \in DOMAIN req[p].copy
      BY <2>1, Deciding DEF Asked, ChatbotAsked
    <2>4. /\ value \in WidgetValues /\ value.there = WidgetRead(p).there
          /\ value.base = WidgetRead(p).base /\ value.cap = Arg(p).with
          /\ value.on = WidgetRead(p).on
      BY <2>2, <2>3 DEF WidgetValues
    <2>5. WidgetRead(p).there  BY <2>1 DEF SaveWidget
    <2>6. \/ Arg(p).with = WidgetRead(p).cap
          \/ Arg(p).with <= Copy(p, Plan).daily
      BY <2>1 DEF WithinCeiling
    <2> HIDE DEF value
    <2> QED  BY <2>1, <2>3, <2>4, <2>5, <2>6, WidgetSaved
  <1>3. CASE UpdateWidgetPresentation(p)
    <2> DEFINE value == [WidgetRead(p) EXCEPT !.look = Id(p)]
    <2>1. /\ "present_widget" \in WidgetKinds /\ Decides(p, "present_widget")
          /\ SaveWidget(p, value)
      BY <1>3 DEF WidgetKinds, UpdateWidgetPresentation
    <2>2. WidgetRead(p) \in WidgetValues /\ Id(p) \in Numbers
      BY <2>1, WidgetIsRead
    <2>3. /\ value \in WidgetValues /\ value.there = WidgetRead(p).there
          /\ value.base = WidgetRead(p).base /\ value.cap = WidgetRead(p).cap
          /\ value.on = WidgetRead(p).on
      BY <2>2 DEF WidgetValues
    <2>4. WidgetRead(p).there  BY <2>1 DEF SaveWidget
    <2> HIDE DEF value
    <2> QED  BY <2>1, <2>3, <2>4, WidgetSaved
  <1> QED  BY <1>1, <1>2, <1>3

LEMMA WidgetMade ==
  ASSUME IInv, NEW p \in Requests, CreateChatWidget(p)
  PROVE  Writes(p)
  <1> DEFINE r == Widget(Arg(p).on)
             value == [there |-> TRUE, on |-> TRUE, base |-> Arg(p).with.base,
                       cap |-> Arg(p).with.cap, name |-> Id(p), look |-> 0]
  <1>1. /\ Decides(p, "create_widget") /\ "create_widget" # "idle"
        /\ "create_widget" \notin GoesOnKinds
        /\ MayCreate(Count(p, WidgetRows), Copy(p, Plan).widgets)
        /\ WithinCeiling(p, Arg(p).with.cap)
        /\ Copy(p, Base(Arg(p).with.base)).there
        /\ Insert(p, r, value)
    BY DEF CreateChatWidget, GoesOnKinds
  <1>2. /\ Arg(p).on \in Widgets /\ Arg(p).with.base \in Bases /\ Arg(p).with.cap \in Limits
        /\ Id(p) \in Numbers /\ Seen(p, r) = db[r]
    BY <1>1, Deciding DEF Asked, ChatbotAsked
  <1>3. r \in Rows /\ r[1] = "widget" /\ ValuesOf(r) = WidgetValues
    BY <1>2, ChatbotRowsAre
  <1>4. /\ value \in WidgetValues /\ value.there
        /\ value.base = Arg(p).with.base /\ value.cap = Arg(p).with.cap
    <2>1. 0 \in Numbers  BY UnitOfWorkAssumption DEF Numbers
    <2> QED  BY <1>2, <2>1 DEF WidgetValues
  <1>5. SaveRow(p, r, value) /\ ~db[r].there  BY <1>1, <1>2 DEF Insert
  <1>6. r = Widget(Arg(p).on)  OBVIOUS
  <1> HIDE DEF r, value
  <1>7. WidgetCreated("create_widget", Arg(p), req[p].copy, r, db[r], value)
    BY <1>1, <1>4, <1>5, <1>6 DEF WidgetCreated, Count, CountIn, Copy, WithinCeiling
  <1>8. ASSUME NEW new, new[r] = value
        PROVE  /\ Lasting("create_widget", Arg(p), req[p].copy, overwritten', r, db[r], value)
               /\ Rule(p, new, r)
    <2>1. WidgetKept("create_widget", Arg(p), req[p].copy, overwritten', r, db[r], value)
      BY <1>7 DEF WidgetKept
    <2>2. WidgetRule(p, new, r)  BY <1>4, <1>8 DEF WidgetRule
    <2> QED  BY <1>3, <2>1, <2>2, ChatbotGood
  <1> QED  BY <1>1, <1>3, <1>4, <1>5, <1>8, RowStored
LEMMA WidgetGone ==
  ASSUME IInv, NEW p \in Requests, DeleteChatWidget(p)
  PROVE  Writes(p)
  <1> DEFINE w == Arg(p).on
             r == Widget(w)
             rated == {n \in RatingRows : Seen(p, n) = w}
             new == [x \in {r} \cup rated |->
                        IF x = r THEN [Seen(p, x) EXCEPT !.there = FALSE, !.on = FALSE]
                                 ELSE "none"]
             gone == [Seen(p, r) EXCEPT !.there = FALSE, !.on = FALSE]
  <1>1. /\ Decides(p, "delete_widget") /\ "delete_widget" \in WidgetKinds
        /\ "delete_widget" # "idle"
        /\ Unreferred(p, {Visit(w)}, {TRUE})
        /\ \A q \in Requests \ {p}, n \in RatingRows : n \in Wrote(q) => draft[q][n] # w
        /\ Save(p, IF ~Seen(p, r).there THEN NoRows ELSE new)
    BY DEF DeleteChatWidget, WidgetKinds
  <1>2. w \in Widgets  BY <1>1, WidgetIsRead
  <1>3. r \in Rows /\ r[1] = "widget" /\ ValuesOf(r) = WidgetValues /\ r = Widget(w)
    BY <1>2, ChatbotRowsAre
  <1>4. gone \in WidgetValues /\ ~gone.there
    <2>1. Seen(p, r) \in WidgetValues  BY <1>3, SeenOk
    <2> QED  BY <2>1 DEF WidgetValues
  <1>5. /\ DOMAIN new = {r} \cup rated /\ new[r] = gone
        /\ \A n \in rated : n # r => new[n] = "none"
    OBVIOUS
  <1>6. \A n \in RatingRows : /\ n \in Rows /\ n[1] = "rating" /\ n # r
                              /\ ValuesOf(n) = RatingValues
    BY <1>3, ChatbotRowsAre DEF RatingRows
  <1>7. "none" \in RatingValues /\ "none" \notin Widgets
    BY ChatbotAssumption DEF RatingValues
  <1>8. \A n \in RatingRows : n \in rated <=> Seen(p, n) = w  OBVIOUS
  <1>9. rated \subseteq RatingRows  OBVIOUS
  <1> HIDE DEF new, gone, rated, r, w
  <1>10. WidgetRule(p, new, r)
    <2>1. \A n \in RatingRows : After(p, new, n) # w
      BY <1>2, <1>5, <1>6, <1>7, <1>8 DEF After
    <2>2. Visit(w) \notin DOMAIN new
      <3>1. Visit(w)[1] = "visit"  BY <1>2, ChatbotRowsAre
      <3> QED  BY <1>3, <1>5, <1>6, <1>9, <3>1
    <2> QED  BY <1>1, <1>2, <1>3, <2>1, <2>2 DEF WidgetRule
  <1>11. /\ Lasting("delete_widget", Arg(p), req[p].copy, overwritten', r, db[r], new[r])
         /\ Rule(p, new, r)
    <2>1. WidgetKept("delete_widget", Arg(p), req[p].copy, overwritten', r, db[r], new[r])
      BY <1>4, <1>5 DEF WidgetKept
    <2> QED  BY <1>3, <1>10, <2>1, ChatbotGood
  <1>12. ASSUME NEW n \in rated
         PROVE  /\ n \in Rows /\ new[n] \in ValuesOf(n)
                /\ Lasting("delete_widget", Arg(p), req[p].copy, overwritten', n, db[n], new[n])
                /\ Rule(p, new, n)
    <2>1. new[n] = "none" /\ n[1] = "rating" /\ n \in Rows /\ ValuesOf(n) = RatingValues
      BY <1>5, <1>6, <1>9, <1>12
    <2>2. /\ RatingKept("delete_widget", Arg(p), req[p].copy, n, db[n], new[n])
          /\ RatingRule(p, new, n)
      BY <1>7, <2>1 DEF RatingKept, RatingRule
    <2> QED  BY <1>7, <2>1, <2>2, ChatbotGood
  <1>13. CASE ~Seen(p, r).there
    <2>1. Save(p, NoRows)  BY <1>1, <1>13
    <2> QED  BY <1>1, <2>1, NothingStored
  <1>14. CASE Seen(p, r).there
    <2>1. Save(p, new)  BY <1>1, <1>14
    <2>2. ASSUME NEW x \in DOMAIN new
          PROVE  /\ x \in Rows /\ new[x] \in ValuesOf(x)
                 /\ Lasting("delete_widget", Arg(p), req[p].copy, overwritten', x, db[x], new[x])
                 /\ Rule(p, new, x)
      <3>1. CASE x = r  BY <1>3, <1>4, <1>5, <1>11, <3>1
      <3>2. CASE x # r
        <4>1. x \in rated  BY <1>5, <2>2, <3>2
        <4> QED  BY <1>12, <4>1
      <3> QED  BY <3>1, <3>2
    <2> QED  BY <1>1, <2>1, <2>2, SaveStored
  <1> QED  BY <1>13, <1>14

LEMMA WidgetVisited ==
  ASSUME IInv, NEW p \in Requests, EnsureVisitorConversation(p)
  PROVE  Writes(p)
  <1> DEFINE r == Visit(Arg(p).on)
  <1>1. /\ Decides(p, "visit") /\ "visit" \in WidgetKinds /\ "visit" # "idle"
        /\ SaveRow(p, r, TRUE) /\ Referable(p, Widget(Arg(p).on))
    BY DEF EnsureVisitorConversation, Opens, WidgetKinds
  <1>2. Arg(p).on \in Widgets  BY <1>1, WidgetIsRead
  <1>3. r \in Rows /\ r[1] = "visit" /\ ValuesOf(r) = BOOLEAN
    BY <1>2, ChatbotRowsAre
  <1>4. ASSUME NEW new  PROVE VisitRule(p, new, r)
    BY <1>1, <1>2 DEF VisitRule
  <1> HIDE DEF r
  <1>5. ASSUME NEW new
        PROVE  /\ Lasting("visit", Arg(p), req[p].copy, overwritten', r, db[r], TRUE)
               /\ Rule(p, new, r)
    BY <1>3, <1>4, ChatbotGood
  <1> QED  BY <1>1, <1>3, <1>5, RowStored

LEMMA ChatRated ==
  ASSUME IInv, NEW p \in Requests, RecordWidgetFeedback(p)
  PROVE  Writes(p)
  <1> DEFINE r == Rating(Arg(p).with)
             w == Arg(p).on
  <1>1. /\ Decides(p, "rate_chat") /\ "rate_chat" \in WidgetKinds /\ "rate_chat" # "idle"
        /\ MayCreate(Cardinality({x \in RatingRows : Copy(p, x) = w}), MaxFeedback)
        /\ Seen(p, r) = "none"
        /\ SaveRow(p, r, w) /\ Referable(p, Widget(w))
    BY DEF RecordWidgetFeedback, Opens, WidgetKinds
  <1>2. w \in Widgets /\ Seen(p, r) = db[r]  BY <1>1, WidgetIsRead
  <1>3. Arg(p).with \in Ratings
    BY <1>1, Deciding DEF Asked, ChatbotAsked
  <1>4. r \in Rows /\ r[1] = "rating" /\ ValuesOf(r) = RatingValues /\ w \in RatingValues
    BY <1>2, <1>3, ChatbotRowsAre DEF RatingValues
  <1>5. RatingKept("rate_chat", Arg(p), req[p].copy, r, db[r], w)
    BY <1>1, <1>2 DEF RatingKept, Copy
  <1> HIDE DEF r, w
  <1>6. ASSUME NEW new, new[r] = w
        PROVE  /\ Lasting("rate_chat", Arg(p), req[p].copy, overwritten', r, db[r], w)
               /\ Rule(p, new, r)
    <2>1. RatingRule(p, new, r)  BY <1>1, <1>6 DEF RatingRule
    <2> QED  BY <1>4, <1>5, <2>1, ChatbotGood
  <1> QED  BY <1>1, <1>4, <1>6, RowStored

(* The settings. *)
LEMMA SettingsSaved ==
  ASSUME IInv, NEW p \in Requests, NEW kind, kind # "idle", Decides(p, kind),
         kind \in SettingsKinds \cup {"set_behaviour"},
         NEW value \in SettingsValues, SaveRow(p, Settings, value),
         \/ value.limit = Copy(p, Settings).limit
         \/ Plan \in DOMAIN req[p].copy /\ value.limit <= Copy(p, Plan).daily,
         kind = "turn_chatbot_on" \/ (value.on => Copy(p, Settings).on)
  PROVE  Writes(p)
  <1>1. Settings \in DOMAIN req[p].copy
    BY Deciding DEF Asked, ChatbotAsked
  <1>2. Copy(p, Settings) = req[p].copy[Settings] /\ Copy(p, Plan) = req[p].copy[Plan]
    BY DEF Copy
  <1>3. ASSUME AsRead(p, Settings), NEW new
        PROVE  /\ Lasting(kind, Arg(p), req[p].copy, overwritten', Settings, db[Settings], value)
               /\ Rule(p, new, Settings)
    <2>1. SettingsKept(kind, req[p].copy, overwritten', Settings, db[Settings], value)
      BY <1>1, <1>2, <1>3 DEF SettingsKept, AsRead
    <2> QED  BY <2>1, ChatbotRowsAre, ChatbotGood
  <1> QED  BY <1>3, ChatbotRowsAre, RowStored

LEMMA SettingsChanged ==
  ASSUME IInv, NEW p \in Requests, UpdateChatbotSettings(p) \/ UpdateChatbotBehaviour(p)
  PROVE  Writes(p)
  <1>1. CASE UpdateChatbotSettings(p)
    <2>1. PICK kind \in {"turn_chatbot_on", "turn_chatbot_off"} :
              /\ Decides(p, kind)
              /\ WithinCeiling(p, Arg(p).with)
              /\ SaveRow(p, Settings, [Copy(p, Settings) EXCEPT
                       !.there = TRUE, !.on = (kind = "turn_chatbot_on"), !.limit = Arg(p).with])
      BY <1>1 DEF UpdateChatbotSettings
    <2> DEFINE value == [Copy(p, Settings) EXCEPT
                       !.there = TRUE, !.on = (kind = "turn_chatbot_on"), !.limit = Arg(p).with]
    <2>2. kind # "idle" /\ kind \in SettingsKinds  BY DEF SettingsKinds
    <2>3. /\ Arg(p).with \in Limits /\ Plan \in DOMAIN req[p].copy
          /\ Copy(p, Settings) \in SettingsValues
      BY <2>1, <2>2, Deciding, ChatbotRowsAre DEF Asked, ChatbotAsked
    <2>4. /\ value \in SettingsValues /\ value.limit = Arg(p).with
          /\ value.on = (kind = "turn_chatbot_on")
      BY <2>3 DEF SettingsValues
    <2>5. SaveRow(p, Settings, value) /\ Arg(p).with <= Copy(p, Plan).daily
      BY <2>1 DEF WithinCeiling
    <2> HIDE DEF value
    <2> QED  BY <2>1, <2>2, <2>3, <2>4, <2>5, SettingsSaved
  <1>2. CASE UpdateChatbotBehaviour(p)
    <2> DEFINE value == [Copy(p, Settings) EXCEPT !.there = TRUE, !.persona = Id(p)]
    <2>1. /\ Decides(p, "set_behaviour") /\ "set_behaviour" # "idle"
          /\ SaveRow(p, Settings, value)
      BY <1>2 DEF UpdateChatbotBehaviour
    <2>2. Copy(p, Settings) \in SettingsValues /\ Id(p) \in Numbers
      BY <2>1, Deciding, ChatbotRowsAre DEF Asked, ChatbotAsked
    <2>3. /\ value \in SettingsValues /\ value.limit = Copy(p, Settings).limit
          /\ value.on = Copy(p, Settings).on
      BY <2>2 DEF SettingsValues
    <2> HIDE DEF value
    <2> QED  BY <2>1, <2>3, SettingsSaved
  <1> QED  BY <1>1, <1>2
(* Teams.  A team that is saved goes on to its roster. *)
LEMMA GoOnStored ==
  ASSUME IInv, NEW p \in Requests, NEW kind, kind # "idle", kind \notin GoesOnKinds,
         Decides(p, kind),
         NEW new, NEW next \in GoesOnKinds, NEW plan \in Plans, SaveAndGoOn(p, new, next, plan),
         Asked(next, Arg(p), DOMAIN req[p].copy \cup Planned(plan)),
         next = "remember" =>
             LET x == Conversation(Arg(p).on) IN x \in DOMAIN req[p].copy /\ Copy(p, x).there,
         next = "set_members" => kind = "save_team" /\ Team(Arg(p).on) \in DOMAIN new,
         ASSUME NEW r \in DOMAIN new
         PROVE  /\ r \in Rows /\ new[r] \in ValuesOf(r) /\ r[1] \in {"team", "message"}
                /\ Lasting(next, Arg(p), req[p].copy, overwritten', r, db[r], new[r])
                /\ Rule(p, new, r)
  PROVE  Writes(p)
  <1>1. /\ Running(p) /\ req[p].done = FALSE /\ ~req[p].done /\ req[p].kind = kind
        /\ Known(p) = DOMAIN req[p].copy
    BY Deciding
  <1>2. /\ UowInv' /\ OthersStay(p) /\ WrittenBy(p, new)
        /\ req'[p].kind = next /\ req'[p].args = req[p].args
        /\ req'[p].id = req[p].id /\ req'[p].done = FALSE
        /\ req'[p].copy = req[p].copy
        /\ Known(p)' = DOMAIN req[p].copy \cup Planned(plan)
    BY <1>1, GoOnStep DEF IInv
  <1>3. \A r \in DOMAIN new : GoodWrite(p, new, r)
    BY <1>2 DEF GoodWrite, Arg
  <1>4. RequestOk(p)'
    <2>1. RequestOk(p)  BY DEF IInv
    <2> QED  BY <1>1, <1>2, <2>1 DEF RequestOk, Arg, Copy
  <1>5. begun' = begun  BY DEF SaveAndGoOn, Wrote1
  <1>6. \A r \in DOMAIN new : r[1] \in {"team", "message"}  OBVIOUS
  <1>7. Stored(p, new)  BY <1>1, <1>2, <1>3, <1>4, <1>5, <1>6 DEF Stored
  <1> QED  BY <1>7 DEF Writes

LEMMA DefaultTeam ==
  ASSUME IInv, NEW p \in Requests, ListTeams(p)
  PROVE  Writes(p)
  <1>1. Decides(p, "list_teams") /\ "list_teams" # "idle"  BY DEF ListTeams
  <1>2. CASE \E t \in TeamRows : Copy(p, t).there
    <2>1. Save(p, NoRows)  BY <1>2 DEF ListTeams
    <2> QED  BY <1>1, <2>1, NothingStored
  <1>3. CASE ~\E t \in TeamRows : Copy(p, t).there
    <2>1. PICK t \in Teams :
              Insert(p, Team(t), [there |-> TRUE, active |-> TRUE, name |-> DefaultTeamName])
      BY <1>3 DEF ListTeams
    <2> DEFINE r == Team(t)
               value == [there |-> TRUE, active |-> TRUE, name |-> DefaultTeamName]
    <2>2. r \in Rows /\ r[1] = "team" /\ ValuesOf(r) = TeamValues
      BY ChatbotRowsAre
    <2>3. value \in TeamValues  BY ChatbotAssumption DEF TeamValues
    <2>4. SaveRow(p, r, value)  BY <2>1 DEF Insert
    <2> HIDE DEF r, value
    <2>5. ASSUME NEW new
          PROVE  /\ Lasting("list_teams", Arg(p), req[p].copy, overwritten', r, db[r], value)
                 /\ Rule(p, new, r)
      BY <2>2, ChatbotGood DEF TeamKept
    <2> QED  BY <1>1, <2>2, <2>3, <2>4, <2>5, RowStored
  <1> QED  BY <1>2, <1>3

LEMMA TeamSaved ==
  ASSUME IInv, NEW p \in Requests, SaveTeam(p)
  PROVE  Writes(p)
  <1> DEFINE r == Team(Arg(p).on)
             rest == << RosterRows(Arg(p).on) >>
  <1>1. /\ Decides(p, "save_team") /\ "save_team" # "idle"
        /\ "save_team" \notin GoesOnKinds /\ "set_members" \in GoesOnKinds
    BY DEF SaveTeam, GoesOnKinds
  <1>2. PICK active \in BOOLEAN :
            SaveAndGoOn(p, [x \in {r} |-> [there |-> TRUE, active |-> active,
                                           name |-> Arg(p).with.name]],
                        "set_members", rest)
    BY DEF SaveTeam
  <1> DEFINE value == [there |-> TRUE, active |-> active, name |-> Arg(p).with.name]
             new == [x \in {r} |-> value]
  <1>3. Arg(p).on \in Teams /\ Arg(p).with.members \subseteq People
            /\ Arg(p).with.name \in TeamNames
    BY <1>1, Deciding DEF Asked, ChatbotAsked
  <1>4. r \in Rows /\ r[1] = "team" /\ ValuesOf(r) = TeamValues
    BY <1>3, ChatbotRowsAre
  <1>5. value \in TeamValues  BY <1>3 DEF TeamValues
  <1>6. rest \in Plans /\ Planned(rest) = RosterRows(Arg(p).on)
    BY <1>3, TableRows, PlanOfOne
  <1>7. /\ DOMAIN new = {r} /\ new[r] = value /\ r = Team(Arg(p).on)
        /\ SaveAndGoOn(p, new, "set_members", rest)
    BY <1>2
  <1> HIDE DEF r, rest, value, new
  <1>8. Asked("set_members", Arg(p), DOMAIN req[p].copy \cup Planned(rest))
    BY <1>3, <1>6 DEF Asked, CatalogueAsked, ChatbotAsked, DialogueAsked, ModelKinds, KeyKinds,
                      AssistantKinds, WidgetKinds, SettingsKinds, BrowserKinds
  <1>9. /\ Lasting("set_members", Arg(p), req[p].copy, overwritten', r, db[r], new[r])
        /\ Rule(p, new, r)
    BY <1>4, ChatbotGood DEF TeamKept
  <1>10. ASSUME NEW x \in DOMAIN new
         PROVE  /\ x \in Rows /\ new[x] \in ValuesOf(x) /\ x[1] \in {"team", "message"}
                /\ Lasting("set_members", Arg(p), req[p].copy, overwritten', x, db[x], new[x])
                /\ Rule(p, new, x)
    BY <1>4, <1>5, <1>7, <1>9
  <1>11. Team(Arg(p).on) \in DOMAIN new  BY <1>7
  <1> QED  BY <1>1, <1>6, <1>7, <1>8, <1>10, <1>11, GoOnStored

LEMMA MembersSet ==
  ASSUME IInv, NEW p \in Requests, SetMembers(p)
  PROVE  Writes(p)
  <1> DEFINE t == Arg(p).on
             asked == {Roster(t, m) : m \in Arg(p).with.members}
             before == {r \in RosterRows(t) : Copy(p, r)}
             new == [r \in asked \cup before |-> r \in asked]
  <1>1. Decides(p, "set_members") /\ "set_members" # "idle" /\ Save(p, new)
    BY DEF SetMembers
  <1>2. t \in Teams /\ Arg(p).with.members \subseteq People
    BY <1>1, Deciding DEF Asked, ChatbotAsked
  <1>3. /\ \A r : r \in asked <=> \E m \in Arg(p).with.members : r = Roster(t, m)
        /\ asked \subseteq RosterRows(t) /\ before \subseteq RosterRows(t)
    BY <1>2 DEF RosterRows
  <1>4. \A r \in RosterRows(t) : r \in Rows /\ r[1] = "roster" /\ ValuesOf(r) = BOOLEAN
    BY <1>2, ChatbotRowsAre DEF RosterRows
  <1>5. DOMAIN new = asked \cup before /\ \A r \in DOMAIN new : new[r] = (r \in asked)
    OBVIOUS
  <1>6. t = Arg(p).on  OBVIOUS
  <1> HIDE DEF new, asked, before, t
  <1>7. ASSUME NEW r \in DOMAIN new
        PROVE  /\ r \in Rows /\ new[r] \in ValuesOf(r)
               /\ Lasting("set_members", Arg(p), req[p].copy, overwritten', r, db[r], new[r])
               /\ Rule(p, new, r)
    <2>1. r \in RosterRows(t) /\ r[1] = "roster" /\ (new[r] = TRUE \/ new[r] = FALSE)
      <3>1. CASE r \in asked  BY <1>3, <1>4, <1>5, <1>7, <3>1
      <3>2. CASE r \notin asked  BY <1>3, <1>4, <1>5, <1>7, <3>2
      <3> QED  BY <3>1, <3>2
    <2>2. RosterKept("set_members", Arg(p), r, new[r])
      BY <1>3, <1>5, <1>6, <2>1 DEF RosterKept
    <2> QED  BY <1>4, <2>1, <2>2, ChatbotGood
  <1> QED  BY <1>1, <1>7, SaveStored

(* The agents' browsers. *)
LEMMA BrowserChanged ==
  ASSUME IInv, NEW p \in Requests, SubscribeToPush(p) \/ UnsubscribeFromPush(p)
  PROVE  Writes(p)
  <1> DEFINE r == Browser(Arg(p).on, Arg(p).with)
  <1>1. PICK kind \in BrowserKinds, value \in BOOLEAN : Decides(p, kind) /\ SaveRow(p, r, value)
    BY DEF SubscribeToPush, UnsubscribeFromPush, BrowserKinds
  <1>2. kind # "idle"  BY DEF BrowserKinds
  <1>3. Arg(p).on \in People /\ Arg(p).with \in Endpoints
    BY <1>1, <1>2, Deciding DEF Asked, ChatbotAsked
  <1>4. r \in Rows /\ r[1] = "browser" /\ ValuesOf(r) = BOOLEAN
    BY <1>3, ChatbotRowsAre
  <1> HIDE DEF r
  <1>5. ASSUME NEW new
        PROVE  /\ Lasting(kind, Arg(p), req[p].copy, overwritten', r, db[r], value)
               /\ Rule(p, new, r)
    BY <1>4, CatalogueGood
  <1> QED  BY <1>1, <1>2, <1>4, <1>5, RowStored

LEMMA AgentsTold ==
  ASSUME IInv, NEW p \in Requests, NotifyAgentsOfHandoff(p)
  PROVE  Writes(p)
  <1>1. Decides(p, "notify") /\ "notify" # "idle"  BY DEF NotifyAgentsOfHandoff
  <1>2. PICK gone \in SUBSET Told(p) :
            Save(p, [r \in {Browser(m, e) : m \in People, e \in gone} |-> FALSE])
    BY PTL DEF NotifyAgentsOfHandoff
  <1> DEFINE new == [r \in {Browser(m, e) : m \in People, e \in gone} |-> FALSE]
  <1>3. ASSUME NEW r \in DOMAIN new
        PROVE  r \in Rows /\ r[1] = "browser" /\ ValuesOf(r) = BOOLEAN /\ new[r] = FALSE
    BY ChatbotRowsAre DEF Told
  <1>4. Save(p, new)  BY <1>2
  <1> HIDE DEF new
  <1>5. ASSUME NEW r \in DOMAIN new
        PROVE  /\ r \in Rows /\ new[r] \in ValuesOf(r)
               /\ Lasting("notify", Arg(p), req[p].copy, overwritten', r, db[r], new[r])
               /\ Rule(p, new, r)
    BY <1>3, CatalogueGood
  <1> QED  BY <1>1, <1>4, <1>5, SaveStored

LEMMA ChatbotWrites ==
  ASSUME IInv, NEW p \in Requests, ChatbotUseCase(p)
  PROVE  Writes(p)
  BY PlanSet, BaseMade, BaseGone, AnswerRated, WidgetMade, WidgetsKept, WidgetGone, WidgetVisited,
     ChatRated, SettingsChanged, DefaultTeam, TeamSaved, MembersSet, BrowserChanged, AgentsTold
     DEF ChatbotUseCase
-----------------------------------------------------------------------------
(* Members' conversations. *)
LEMMA ConversationStarted ==
  ASSUME IInv, NEW p \in Requests, StartConversation(p)
  PROVE  Writes(p)
  <1> DEFINE r == Conversation(What(p))
             value == [there |-> TRUE, owner |-> Arg(p).with.actor, title |-> 0, recent |-> TRUE,
                       folded |-> {}, through |-> 0]
  <1>1. /\ Decides(p, "start") /\ "start" # "idle" /\ "start" \notin GoesOnKinds
        /\ Seen(p, r).owner = Nobody /\ ~Seen(p, r).there /\ SaveRow(p, r, value)
    BY DEF StartConversation, Insert, GoesOnKinds
  <1>2. /\ What(p) \in Conversations /\ Arg(p).with.actor \in People
        /\ req[p].kind = "start" /\ Seen(p, r) = db[r]
    BY <1>1, Deciding DEF Asked, DialogueAsked, What
  <1>3. r \in Rows /\ r[1] = "conversation" /\ ValuesOf(r) = ConversationValues
    BY <1>2, DialogueRowsAre
  <1>4. /\ value \in ConversationValues /\ value.owner # Nobody /\ value.there
        /\ value.folded = {} /\ value.through = 0
    <2>1. 0 \in Numbers  BY UnitOfWorkAssumption DEF Numbers
    <2>2. Arg(p).with.actor # Nobody  BY <1>2, DialogueAssumption
    <2> QED  BY <1>2, <2>1, <2>2 DEF ConversationValues
  <1> HIDE DEF r, value
  <1>5. ASSUME NEW new, new[r] = value
        PROVE  /\ Lasting("start", Arg(p), req[p].copy, overwritten', r, db[r], value)
               /\ Rule(p, new, r)
    <2>1. ConversationKept("start", overwritten', r, db[r], value)
      BY <1>1, <1>2 DEF ConversationKept
    <2>2. ConversationRule(p, new, r)
      BY <1>1, <1>2, <1>4, <1>5 DEF ConversationRule, Started
    <2> QED  BY <1>3, <2>1, <2>2, DialogueGood
  <1> QED  BY <1>1, <1>3, <1>4, <1>5, RowStored

LEMMA ThreadIsRead ==
  ASSUME IInv, NEW p \in Requests, NEW kind \in {"rename", "delete", "append", "remember", "recall"},
         Decides(p, kind)
  PROVE  /\ kind # "idle" /\ req[p].kind = kind
         /\ Arg(p).on \in Conversations /\ Id(p) \in Numbers
         /\ Conversation(Arg(p).on) \in DOMAIN req[p].copy /\ Thread(p) \in ConversationValues
         /\ kind # "remember" => \A r : Seen(p, r) = db[r]
         /\ kind = "remember" => Thread(p).there
  <1>1. kind # "idle" /\ (kind # "remember" => kind \notin GoesOnKinds)
    BY DEF GoesOnKinds
  <1>2. /\ Asked(kind, Arg(p), DOMAIN req[p].copy) /\ Id(p) \in Numbers
        /\ \A r \in DOMAIN req[p].copy : Copy(p, r) \in ValuesOf(r)
        /\ kind # "remember" => \A r : Seen(p, r) = db[r]
        /\ req[p].kind = kind
    BY <1>1, Deciding
  <1>3. Arg(p).on \in Conversations /\ Conversation(Arg(p).on) \in DOMAIN req[p].copy
    BY <1>2 DEF Asked, DialogueAsked
  <1>4. kind = "remember" => Thread(p).there
    BY <1>2 DEF IInv, RequestOk, Thread, Copy, Arg
  <1> QED  BY <1>1, <1>2, <1>3, <1>4, DialogueRowsAre DEF Thread

LEMMA ConversationRenamed ==
  ASSUME IInv, NEW p \in Requests, RenameConversation(p)
  PROVE  Writes(p)
  <1> DEFINE r == Conversation(Arg(p).on)
             value == [Thread(p) EXCEPT !.title = Id(p)]
  <1>1. Decides(p, "rename") /\ Thread(p).there /\ Update(p, r, value)
    BY DEF RenameConversation, Owns
  <1>2. /\ Arg(p).on \in Conversations /\ Id(p) \in Numbers /\ req[p].kind = "rename"
        /\ r \in DOMAIN req[p].copy /\ Thread(p) \in ConversationValues
    BY <1>1, ThreadIsRead
  <1>3. r \in Rows /\ r[1] = "conversation" /\ ValuesOf(r) = ConversationValues
    BY <1>2, DialogueRowsAre
  <1>4. /\ value \in ConversationValues /\ value.there /\ value.owner = Thread(p).owner
        /\ value.folded = Thread(p).folded /\ value.through = Thread(p).through
        /\ value.recent = Thread(p).recent
    BY <1>1, <1>2 DEF ConversationValues
  <1>5. Thread(p) = Copy(p, r)  BY DEF Thread
  <1> HIDE DEF r, value
  <1>6. ASSUME AsRead(p, r), Seen(p, r).there, NEW new, new[r] = value
        PROVE  /\ Lasting("rename", Arg(p), req[p].copy, overwritten', r, db[r], value)
               /\ Rule(p, new, r)
    <2>1. ConversationKept("rename", overwritten', r, db[r], value)
      BY <1>2, <1>4, <1>5, <1>6 DEF ConversationKept, AsRead
    <2>2. Renamed(p, new, r)  BY <1>2, <1>4, <1>5, <1>6 DEF Renamed
    <2>3. ConversationRule(p, new, r)
      BY <1>1, <1>2, <1>4, <1>5, <1>6, <2>2 DEF ConversationRule
    <2> QED  BY <1>3, <2>1, <2>3, DialogueGood
  <1> QED  BY <1>1, <1>3, <1>4, <1>6, UpdateStored

LEMMA ConversationsGone ==
  ASSUME IInv, NEW p \in Requests, NEW kind \in {"delete", "purge"}, Decides(p, kind),
         NEW old \in SUBSET Conversations, Save(p, Gone(p, old)),
         \A v \in old : Unwritten(p, v) /\ (kind = "delete" \/ ~Seen(p, Conversation(v)).recent)
  PROVE  Writes(p)
  <1> DEFINE new == Gone(p, old)
  <1>1. kind # "idle" /\ kind \notin GoesOnKinds  BY DEF GoesOnKinds
  <1>2. \A r : Seen(p, r) = db[r]  BY <1>1, Deciding
  <1>3. \A v \in Conversations : /\ Conversation(v) \in Rows /\ Conversation(v)[1] = "conversation"
                                 /\ ValuesOf(Conversation(v)) = ConversationValues
    BY DialogueRowsAre
  <1>4. \A v \in Conversations : \A x \in MessagesOf(v) :
            x \in Rows /\ x[1] = "message" /\ ValuesOf(x) = BOOLEAN
    BY DialogueRowsAre DEF MessagesOf
  <1>5. /\ \A v \in old : Conversation(v) \in DOMAIN new
        /\ \A v \in old : \A x \in MessagesOf(v) : Seen(p, x) => x \in DOMAIN new
        /\ \A x \in DOMAIN new : \/ \E v \in old : x = Conversation(v)
                                 \/ \E v \in old : x \in MessagesOf(v)
    BY DEF Gone
  <1>6. /\ \A x \in DOMAIN new : x[1] = "message" => new[x] = FALSE
        /\ \A x \in DOMAIN new : x[1] # "message" =>
               new[x] = [Seen(p, x) EXCEPT !.there = FALSE]
    BY DEF Gone
  <1> HIDE DEF new
  <1>7. ASSUME NEW v \in old
        PROVE  /\ new[Conversation(v)] \in ConversationValues /\ ~new[Conversation(v)].there
               /\ new[Conversation(v)].owner = Seen(p, Conversation(v)).owner
    <2>1. Seen(p, Conversation(v)) \in ConversationValues  BY <1>3, SeenOk
    <2>2. new[Conversation(v)] = [Seen(p, Conversation(v)) EXCEPT !.there = FALSE]
      BY <1>3, <1>5, <1>6
    <2> QED  BY <2>1, <2>2 DEF ConversationValues
  <1>8. ASSUME NEW v \in old
        PROVE  LET r == Conversation(v)
               IN  /\ Lasting(kind, Arg(p), req[p].copy, overwritten', r, db[r], new[r])
                   /\ Rule(p, new, r)
    <2> DEFINE r == Conversation(v)
    <2>1. ConversationKept(kind, overwritten', r, db[r], new[r])
      BY <1>2 DEF ConversationKept
    <2>2. \A x \in MessagesOf(v) : ~After(p, new, x)
      BY <1>4, <1>5, <1>6 DEF After
    <2>3. ConversationRule(p, new, r)
      BY <1>7, <2>2 DEF ConversationRule, Cleared
    <2>4. r[1] = "conversation"  BY <1>3
    <2> HIDE DEF r
    <2>5. /\ Lasting(kind, Arg(p), req[p].copy, overwritten', r, db[r], new[r])
          /\ Rule(p, new, r)
      BY <2>1, <2>3, <2>4, DialogueGood
    <2> QED  BY <2>5 DEF r
  <1>9. ASSUME NEW r \in DOMAIN new, NEW v \in old, r \in MessagesOf(v)
        PROVE  /\ Lasting(kind, Arg(p), req[p].copy, overwritten', r, db[r], new[r])
               /\ Rule(p, new, r)
    <2>1. r[1] = "message" /\ new[r] = FALSE  BY <1>4, <1>6, <1>9
    <2>2. MessageKept(kind, Arg(p), r, new[r])  BY <2>1 DEF MessageKept
    <2>3. MessageRule(p, new, r)  BY <1>5, <1>7, <1>9, <2>1 DEF MessageRule
    <2> QED  BY <2>1, <2>2, <2>3, DialogueGood
  <1>10. ASSUME NEW r \in DOMAIN new
         PROVE  /\ r \in Rows /\ new[r] \in ValuesOf(r)
                /\ Lasting(kind, Arg(p), req[p].copy, overwritten', r, db[r], new[r])
                /\ Rule(p, new, r)
    <2>1. CASE \E v \in old : r = Conversation(v)
      BY <1>3, <1>7, <1>8, <2>1
    <2>2. CASE \E v \in old : r \in MessagesOf(v)
      <3>1. PICK v \in old : r \in MessagesOf(v)  BY <2>2
      <3>2. r \in Rows /\ ValuesOf(r) = BOOLEAN /\ r[1] = "message"  BY <1>4, <3>1
      <3>3. new[r] = FALSE  BY <1>6, <3>2
      <3> QED  BY <1>9, <3>1, <3>2, <3>3
    <2> QED  BY <1>5, <2>1, <2>2
  <1>11. Save(p, new)  BY DEF new
  <1> QED  BY <1>1, <1>10, <1>11, SaveStored

LEMMA ConversationDeleted ==
  ASSUME IInv, NEW p \in Requests, DeleteConversation(p)
  PROVE  Writes(p)
  <1> DEFINE v == Arg(p).on
  <1>1. /\ Decides(p, "delete") /\ Unwritten(p, v) /\ "delete" # "idle"
        /\ Save(p, IF Seen(p, Conversation(v)).there THEN Gone(p, {v}) ELSE NoRows)
    BY DEF DeleteConversation
  <1>2. v \in Conversations  BY <1>1, ThreadIsRead
  <1>3. CASE Seen(p, Conversation(v)).there
    <2>1. Save(p, Gone(p, {v}))  BY <1>1, <1>3
    <2>2. {v} \in SUBSET Conversations  BY <1>2
    <2> HIDE DEF v
    <2> QED  BY <1>1, <2>1, <2>2, ConversationsGone
  <1>4. CASE ~Seen(p, Conversation(v)).there
    <2>1. Save(p, NoRows)  BY <1>1, <1>4
    <2> QED  BY <1>1, <2>1, NothingStored
  <1> QED  BY <1>3, <1>4

LEMMA ConversationsPurged ==
  ASSUME IInv, NEW p \in Requests, PurgeExpiredConversations(p)
  PROVE  Writes(p)
  <1> DEFINE old == {v \in Conversations :
                        Seen(p, Conversation(v)).there /\ ~Seen(p, Conversation(v)).recent}
  <1>1. /\ Decides(p, "purge") /\ (\A v \in old : Unwritten(p, v)) /\ Save(p, Gone(p, old))
    BY DEF PurgeExpiredConversations
  <1>2. old \in SUBSET Conversations /\ \A v \in old : ~Seen(p, Conversation(v)).recent
    OBVIOUS
  <1> HIDE DEF old
  <1> QED  BY <1>1, <1>2, ConversationsGone
(* Messages are numbered. *)
LEMMA SeqsAreFinite ==
  ASSUME NEW S \in SUBSET Seqs
  PROVE  IsFiniteSet(S) /\ Cardinality(S) \in Nat
  <1>1. IsFiniteSet(Seqs)  BY DialogueAssumption, FS_Interval DEF Seqs
  <1> QED  BY <1>1, FS_Subset, FS_CardinalityType

LEMMA SmallestSeq ==
  ASSUME NEW S \in SUBSET Nat, S # {}
  PROVE  \E x \in S : \A y \in S : x <= y
  <1>1. PICK x \in S : \A y \in S : <<y, x>> \notin OpToRel(<, Nat)
    BY NatLessThanWellFounded, WFMin
  <1>2. \A y \in S : ~(y < x)  BY <1>1 DEF OpToRel
  <1> QED  BY <1>2

LEMMA LargestSeq ==
  ASSUME NEW S \in SUBSET Seqs, S # {}
  PROVE  MaxOf(S) \in S /\ \A y \in S : y <= MaxOf(S)
  <1> DEFINE T == {MaxSeq - n : n \in S}
  <1>1. T \in SUBSET Nat /\ T # {}
    <2>1. \A n \in S : MaxSeq - n \in Nat  BY DialogueAssumption DEF Seqs
    <2> QED  BY <2>1
  <1>2. PICK x \in T : \A y \in T : x <= y  BY <1>1, SmallestSeq
  <1>3. PICK n \in S : x = MaxSeq - n  BY <1>2
  <1>4. \A k \in S : k <= n
    <2> SUFFICES ASSUME NEW k \in S  PROVE k <= n  OBVIOUS
    <2>1. MaxSeq - n <= MaxSeq - k  BY <1>2, <1>3
    <2> QED  BY <2>1, DialogueAssumption DEF Seqs
  <1> QED  BY <1>4 DEF MaxOf

LEMMA SomeAreOlder ==
  ASSUME NEW tail \in SUBSET Seqs, Cardinality(tail) > CompactAfter
  PROVE  Older(tail) # {} /\ Older(tail) \subseteq tail
  <1>1. IsFiniteSet(tail) /\ Cardinality(tail) \in Nat  BY SeqsAreFinite
  <1>2. tail # {}  BY <1>1, FS_EmptySet, DialogueAssumption
  <1>3. PICK n \in tail : \A k \in tail : n <= k  BY <1>2, SmallestSeq DEF Seqs
  <1>4. {k \in tail : k > n} = tail \ {n}
    <2>1. \A k \in tail : k # n <=> k > n  BY <1>3, DialogueAssumption DEF Seqs
    <2> QED  BY <2>1
  <1>5. Cardinality(tail \ {n}) = Cardinality(tail) - 1  BY <1>1, FS_RemoveElement
  <1>6. Cardinality({k \in tail : k > n}) >= RecentTurns
    BY <1>1, <1>4, <1>5, DialogueAssumption
  <1> QED  BY <1>6 DEF Older

LEMMA CompactedIs ==
  ASSUME NEW thread \in ConversationValues, NEW tail \in SUBSET Seqs
  PROVE  /\ Compacted(thread, tail) \in ConversationValues
         /\ Compacted(thread, tail).there = thread.there
         /\ Compacted(thread, tail).owner = thread.owner
         /\ Compacted(thread, tail).recent = thread.recent
         /\ Cardinality(tail) <= CompactAfter => Compacted(thread, tail) = thread
         /\ Cardinality(tail) > CompactAfter =>
                /\ Compacted(thread, tail).folded = thread.folded \cup Older(tail)
                /\ Compacted(thread, tail).through = MaxOf(Older(tail))
  <1>1. Cardinality(tail) \in Nat /\ CompactAfter \in Nat  BY SeqsAreFinite, DialogueAssumption
  <1>2. CASE Cardinality(tail) <= CompactAfter
    BY <1>1, <1>2 DEF Compacted
  <1>3. CASE Cardinality(tail) > CompactAfter
    <2>1. Older(tail) # {} /\ Older(tail) \subseteq tail  BY <1>3, SomeAreOlder
    <2> DEFINE older == Older(tail)
               reach == MaxOf(older)
               folded == thread.folded \cup older
    <2>2. Compacted(thread, tail) = [thread EXCEPT !.folded = folded, !.through = reach]
      BY <1>1, <1>3 DEF Compacted
    <2>3. older \in SUBSET Seqs  BY <2>1
    <2>4. reach \in Seqs  BY <2>1, <2>3, LargestSeq
    <2>5. folded \in SUBSET Seqs  BY <2>3 DEF ConversationValues
    <2>6. ~(Cardinality(tail) <= CompactAfter)  BY <1>1, <1>3
    <2> HIDE DEF reach, folded
    <2>7. /\ Compacted(thread, tail) \in ConversationValues
          /\ Compacted(thread, tail).there = thread.there
          /\ Compacted(thread, tail).owner = thread.owner
          /\ Compacted(thread, tail).recent = thread.recent
          /\ Compacted(thread, tail).folded = folded
          /\ Compacted(thread, tail).through = reach
      BY <2>2, <2>4, <2>5 DEF ConversationValues
    <2> QED  BY <2>6, <2>7 DEF folded, reach
  <1> QED  BY <1>1, <1>2, <1>3

LEMMA TurnAppended ==
  ASSUME IInv, NEW p \in Requests, AppendTurn(p)
  PROVE  Writes(p)
  <1> DEFINE v == Arg(p).on
             seq == NextSeq(p, v)
             new == [x \in {Message(v, seq), Message(v, seq + 1)} |-> TRUE]
  <1>1. /\ Decides(p, "append") /\ "append" # "idle" /\ "append" \notin GoesOnKinds
        /\ "remember" \in GoesOnKinds
        /\ Thread(p).there /\ seq < MaxSeq /\ Referable(p, Conversation(v))
        /\ SaveAndGoOn(p, new, "remember", <<>>)
    BY DEF AppendTurn, GoesOnKinds
  <1>2. v \in Conversations /\ Conversation(v) \in DOMAIN req[p].copy /\ req[p].kind = "append"
    BY <1>1, ThreadIsRead
  <1>3. seq \in Seqs /\ seq + 1 \in Seqs
    <2>1. Cardinality({n \in Seqs : Seen(p, Message(v, n))}) \in Nat  BY SeqsAreFinite
    <2> QED  BY <1>1, <2>1, DialogueAssumption DEF NextSeq, Seqs
  <1>4. /\ \A r \in DOMAIN new : /\ r \in Rows /\ r[1] = "message" /\ ValuesOf(r) = BOOLEAN
                                 /\ r \in MessagesOf(v) /\ new[r] = TRUE
        /\ DOMAIN new = {Message(v, seq), Message(v, seq + 1)}
    BY <1>2, <1>3, DialogueRowsAre
  <1>5. v = Arg(p).on /\ seq = NextSeq(p, v)  OBVIOUS
  <1> HIDE DEF new, seq, v
  <1>6. Asked("remember", Arg(p), DOMAIN req[p].copy \cup Planned(<<>>))
    BY <1>2, <1>5 DEF Asked, CatalogueAsked, ChatbotAsked, DialogueAsked, ModelKinds, KeyKinds,
                      AssistantKinds, WidgetKinds, SettingsKinds, BrowserKinds
  <1>7. ASSUME NEW r \in DOMAIN new
        PROVE  /\ r \in Rows /\ new[r] \in ValuesOf(r) /\ r[1] \in {"team", "message"}
               /\ Lasting("remember", Arg(p), req[p].copy, overwritten', r, db[r], new[r])
               /\ Rule(p, new, r)
    <2>1. r \in Rows /\ r[1] = "message" /\ new[r] = TRUE /\ TRUE \in ValuesOf(r)
      BY <1>4, <1>7
    <2>2. MessageKept("remember", Arg(p), r, new[r])
      BY <1>4, <1>5, <1>7 DEF MessageKept
    <2>3. MessageRule(p, new, r)
      BY <1>1, <1>2, <1>4, <1>5, <2>1 DEF MessageRule
    <2> QED  BY <2>1, <2>2, <2>3, DialogueGood
  <1>8. LET x == Conversation(Arg(p).on) IN x \in DOMAIN req[p].copy /\ Copy(p, x).there
    BY <1>1, <1>2, <1>5 DEF Thread
  <1> QED  BY <1>1, <1>6, <1>7, <1>8, EmptyPlan, GoOnStored

LEMMA TurnRemembered ==
  ASSUME IInv, NEW p \in Requests, Remember(p)
  PROVE  Writes(p)
  <1> DEFINE v == Arg(p).on
             r == Conversation(v)
             titled == IF Thread(p).title = 0 THEN Id(p) ELSE Thread(p).title
             used == [Thread(p) EXCEPT !.recent = TRUE, !.title = titled]
             tail == Tail1(p, v, Thread(p).through)
             value == Compacted(used, tail)
  <1>1. Decides(p, "remember") /\ Update(p, r, value)
    BY DEF Remember
  <1>2. /\ v \in Conversations /\ Id(p) \in Numbers /\ req[p].kind = "remember"
        /\ r \in DOMAIN req[p].copy /\ Thread(p) \in ConversationValues /\ Thread(p).there
    BY <1>1, ThreadIsRead
  <1>3. r \in Rows /\ r[1] = "conversation" /\ ValuesOf(r) = ConversationValues
    BY <1>2, DialogueRowsAre
  <1>4. titled \in Numbers  BY <1>2 DEF ConversationValues
  <1> HIDE DEF titled
  <1>5. /\ used \in ConversationValues /\ used.there /\ used.owner = Thread(p).owner
        /\ used.folded = Thread(p).folded /\ used.through = Thread(p).through /\ used.recent
    BY <1>2, <1>4 DEF ConversationValues
  <1>6. tail \in SUBSET Seqs  BY DEF Tail1
  <1>7. Thread(p) = Copy(p, r) /\ r = Conversation(Arg(p).on)
        /\ tail = Tail1(p, Arg(p).on, Copy(p, r).through)
    BY DEF Thread
  <1> HIDE DEF used, tail
  <1>8. /\ value \in ConversationValues /\ value.there /\ value.owner = Thread(p).owner
        /\ value.recent
    BY <1>5, <1>6, CompactedIs
  <1>9. /\ value.folded = Compacted(Thread(p), tail).folded
        /\ value.through = Compacted(Thread(p), tail).through
    <2>1. Cardinality(tail) \in Nat /\ CompactAfter \in Nat
      BY <1>6, SeqsAreFinite, DialogueAssumption
    <2>2. CASE Cardinality(tail) <= CompactAfter
      <3>1. value = used  BY <1>5, <1>6, <2>2, CompactedIs
      <3>2. Compacted(Thread(p), tail) = Thread(p)  BY <1>2, <1>6, <2>2, CompactedIs
      <3> QED  BY <1>5, <3>1, <3>2
    <2>3. CASE Cardinality(tail) > CompactAfter
      <3>1. /\ value.folded = used.folded \cup Older(tail)
            /\ value.through = MaxOf(Older(tail))
        BY <1>5, <1>6, <2>3, CompactedIs
      <3>2. /\ Compacted(Thread(p), tail).folded = Thread(p).folded \cup Older(tail)
            /\ Compacted(Thread(p), tail).through = MaxOf(Older(tail))
        BY <1>2, <1>6, <2>3, CompactedIs
      <3> QED  BY <1>5, <3>1, <3>2
    <2> QED  BY <2>1, <2>2, <2>3
  <1> HIDE DEF value, r, v
  <1>10. ASSUME Seen(p, r).there, NEW new, new[r] = value
         PROVE  /\ Lasting("remember", Arg(p), req[p].copy, overwritten', r, db[r], value)
                /\ Rule(p, new, r)
    <2>1. ConversationKept("remember", overwritten', r, db[r], value)
      BY <1>8 DEF ConversationKept
    <2>2. Remembered(p, new, r)  BY <1>2, <1>7, <1>9, <1>10 DEF Remembered
    <2>3. ConversationRule(p, new, r)
      BY <1>2, <1>7, <1>8, <1>10, <2>2 DEF ConversationRule
    <2> QED  BY <1>3, <2>1, <2>3, DialogueGood
  <1> QED  BY <1>1, <1>3, <1>8, <1>10, UpdateStored

LEMMA ThreadRecalled ==
  ASSUME IInv, NEW p \in Requests, RecallThread(p)
  PROVE  Writes(p)
  <1>1. Decides(p, "recall") /\ Save(p, NoRows) /\ "recall" # "idle"  BY DEF RecallThread
  <1> QED  BY <1>1, NothingStored

LEMMA DialogueWrites ==
  ASSUME IInv, NEW p \in Requests, DialogueUseCase(p)
  PROVE  Writes(p)
  BY ConversationStarted, ConversationRenamed, ConversationDeleted, ConversationsPurged,
     TurnAppended, TurnRemembered, ThreadRecalled
     DEF DialogueUseCase
-----------------------------------------------------------------------------
(* A request begins. *)
Begun(p) ==
    /\ IInv'
    /\ OthersStay(p) /\ db' = db /\ overwritten' = overwritten
    /\ req'[p].kind \notin GoesOnKinds
    /\ Wrote(p)' = {} /\ DOMAIN req'[p].copy = {}

LEMMA FirstHalf ==
  ASSUME IInv, NEW p \in Requests,
         NEW kind \in CatalogueKinds \cup ChatbotKinds \cup DialogueKinds,
         NEW args, NEW plan \in Plans,
         Begin(p, kind, args, plan), Asked(kind, args, Planned(plan))
  PROVE  Begun(p)
  <1>1. kind # "idle" /\ kind # "remember" /\ kind \notin GoesOnKinds
    BY DEF CatalogueKinds, ChatbotKinds, DialogueKinds, ModelKinds, KeyKinds, AssistantKinds,
           WidgetKinds, SettingsKinds, BrowserKinds, GoesOnKinds
  <1>2. /\ OthersStay(p) /\ db' = db /\ overwritten' = overwritten
        /\ req'[p].kind = kind /\ DOMAIN req'[p].copy = {} /\ Wrote(p)' = {}
    BY <1>1, BeginStep DEF IInv
  <1> QED  BY <1>1, <1>2, ConsoleBegin DEF Begun

LEMMA CatalogueAsks ==
  ASSUME IInv, NEW p \in Requests, NEW kind \in CatalogueKinds, NEW on, NEW with,
         NEW plan \in Plans, Ask(p, kind, on, with, plan),
         CatalogueAsked(kind, [on |-> on, with |-> with], Planned(plan))
  PROVE  Begun(p)
  <1> DEFINE args == [on |-> on, with |-> with]
  <1>1. Begin(p, kind, args, plan)  BY DEF Ask
  <1> HIDE DEF args
  <1>2. ChatbotAsked(kind, args, Planned(plan)) /\ DialogueAsked(kind, args, Planned(plan))
    BY DEF CatalogueKinds, ModelKinds, KeyKinds, AssistantKinds, ChatbotAsked, DialogueAsked,
           WidgetKinds, SettingsKinds, BrowserKinds
  <1>3. CatalogueAsked(kind, args, Planned(plan))  BY DEF args
  <1> QED  BY <1>1, <1>2, <1>3, FirstHalf DEF Asked

LEMMA ChatbotAsks ==
  ASSUME IInv, NEW p \in Requests, NEW kind \in ChatbotKinds, NEW on, NEW with,
         NEW plan \in Plans, Ask(p, kind, on, with, plan),
         ChatbotAsked(kind, [on |-> on, with |-> with], Planned(plan))
  PROVE  Begun(p)
  <1> DEFINE args == [on |-> on, with |-> with]
  <1>1. Begin(p, kind, args, plan)  BY DEF Ask
  <1> HIDE DEF args
  <1>2. CatalogueAsked(kind, args, Planned(plan)) /\ DialogueAsked(kind, args, Planned(plan))
    BY DEF ModelKinds, KeyKinds, AssistantKinds, CatalogueAsked, DialogueAsked,
           ChatbotKinds, WidgetKinds, SettingsKinds, BrowserKinds
  <1>3. ChatbotAsked(kind, args, Planned(plan))  BY DEF args
  <1> QED  BY <1>1, <1>2, <1>3, FirstHalf DEF Asked

LEMMA DialogueAsks ==
  ASSUME IInv, NEW p \in Requests, NEW kind \in DialogueKinds, NEW on, NEW with,
         NEW plan \in Plans, Ask(p, kind, on, with, plan),
         DialogueAsked(kind, [on |-> on, with |-> with], Planned(plan))
  PROVE  Begun(p)
  <1> DEFINE args == [on |-> on, with |-> with]
  <1>1. Begin(p, kind, args, plan)  BY DEF Ask
  <1> HIDE DEF args
  <1>2. CatalogueAsked(kind, args, Planned(plan)) /\ ChatbotAsked(kind, args, Planned(plan))
    BY DEF ModelKinds, KeyKinds, AssistantKinds, CatalogueAsked, ChatbotAsked,
           DialogueKinds, WidgetKinds, SettingsKinds, BrowserKinds
  <1>3. DialogueAsked(kind, args, Planned(plan))  BY DEF args
  <1> QED  BY <1>1, <1>2, <1>3, FirstHalf DEF Asked

LEMMA ModelsAsk ==
  ASSUME IInv, NEW p \in Requests, ModelRoutes(p) \/ KeyRoutes(p)
  PROVE  Begun(p)
  <1>1. ASSUME NEW c \in Models, NEW kind \in ModelKinds,
               Ask(p, kind, c, {}, << {Model(c)} >>)
        PROVE  Begun(p)
    <2>1. << {Model(c)} >> \in Plans /\ Planned(<< {Model(c)} >>) = {Model(c)}
      BY CatalogueRowsAre, PlanOfOne
    <2>2. kind \in CatalogueKinds  BY DEF CatalogueKinds
    <2>3. CatalogueAsked(kind, [on |-> c, with |-> {}], {Model(c)})
      BY DEF CatalogueAsked, ModelKinds, KeyKinds, AssistantKinds
    <2> QED  BY <1>1, <2>1, <2>2, <2>3, CatalogueAsks
  <1>2. ASSUME NEW c \in Models, Ask(p, "revoke_model", c, {}, <<AssistantRows>>)
        PROVE  Begun(p)
    <2>1. <<AssistantRows>> \in Plans /\ Planned(<<AssistantRows>>) = AssistantRows
      BY TableRows, PlanOfOne
    <2>2. "revoke_model" \in CatalogueKinds  BY DEF CatalogueKinds
    <2>3. CatalogueAsked("revoke_model", [on |-> c, with |-> {}], AssistantRows)
      BY DEF CatalogueAsked, ModelKinds, KeyKinds, AssistantKinds
    <2> QED  BY <1>2, <2>1, <2>2, <2>3, CatalogueAsks
  <1>3. ASSUME NEW k \in Keys, NEW kind \in KeyKinds, NEW with,
               kind = "attach_key" => with \in Models,
               Ask(p, kind, k, with, << {Key(k)} >>)
        PROVE  Begun(p)
    <2>1. << {Key(k)} >> \in Plans /\ Planned(<< {Key(k)} >>) = {Key(k)}
      BY CatalogueRowsAre, PlanOfOne
    <2>2. kind \in CatalogueKinds  BY DEF CatalogueKinds
    <2>3. CatalogueAsked(kind, [on |-> k, with |-> with], {Key(k)})
      BY <1>3 DEF CatalogueAsked, ModelKinds, KeyKinds, AssistantKinds
    <2> QED  BY <1>3, <2>1, <2>2, <2>3, CatalogueAsks
  <1>4. ASSUME NEW c \in Models, Ask(p, "detach_key", NoKey, c, <<>>)
        PROVE  Begun(p)
    <2>1. "detach_key" \in CatalogueKinds  BY DEF CatalogueKinds
    <2>2. CatalogueAsked("detach_key", [on |-> NoKey, with |-> c], Planned(<<>>))
      BY DEF CatalogueAsked, ModelKinds, KeyKinds, AssistantKinds
    <2> QED  BY <1>4, <2>1, <2>2, EmptyPlan, CatalogueAsks
  <1>5. CASE ModelRoutes(p)
    BY <1>1, <1>2, <1>5 DEF ModelRoutes, ModelKinds
  <1>6. CASE KeyRoutes(p)
    <2>1. CASE \E k \in Keys, kind \in {"store_key", "rotate_key", "revoke_key"} :
                   Ask(p, kind, k, {}, << {Key(k)} >>)
      BY <1>3, <2>1 DEF KeyKinds
    <2>2. CASE \E k \in Keys, c \in Models : Ask(p, "attach_key", k, c, << {Key(k)} >>)
      BY <1>3, <2>2 DEF KeyKinds
    <2>3. CASE \E c \in Models : Ask(p, "detach_key", NoKey, c, <<>>)
      BY <1>4, <2>3
    <2> QED  BY <1>6, <2>1, <2>2, <2>3 DEF KeyRoutes
  <1> QED  BY <1>5, <1>6

LEMMA AssistantsAsk ==
  ASSUME IInv, NEW p \in Requests, AssistantRoutes(p)
  PROVE  Begun(p)
  <1>1. ASSUME NEW m \in People, NEW a \in Assistants, NEW c \in Models,
               Ask(p, "create_assistant", a, [actor |-> m, what |-> c], << Availability(c) >>)
        PROVE  Begun(p)
    <2>1. << Availability(c) >> \in Plans
      BY CatalogueRowsAre, PlanOfOne DEF Availability
    <2>2. "create_assistant" \in CatalogueKinds  BY DEF CatalogueKinds
    <2>3. CatalogueAsked("create_assistant", [on |-> a, with |-> [actor |-> m, what |-> c]],
                         Planned(<< Availability(c) >>))
      BY DEF CatalogueAsked, ModelKinds, KeyKinds, AssistantKinds
    <2> QED  BY <1>1, <2>1, <2>2, <2>3, CatalogueAsks
  <1>2. ASSUME NEW m \in People, NEW a \in Assistants, NEW kind \in AssistantKinds, NEW with,
               kind = "update_assistant" => with \in Models,
               kind = "show_assistant" => with \subseteq People,
               kind \in {"give_access", "take_access"} => with.to \in People,
               kind = "give_access" => with.level \in AccessLevels,
               NEW more \in Plans, AskAbout(p, kind, m, a, with, more)
        PROVE  Begun(p)
    <2> DEFINE first == << {Assistant(a)}, {Access(a, m)} >>
    <2>1. first \in Plans /\ Planned(first) = {Assistant(a)} \cup {Access(a, m)}
      BY CatalogueRowsAre, PlanOfTwo
    <2>2. Ask(p, kind, a, [actor |-> m, what |-> with], first \o more)
      BY <1>2 DEF AskAbout
    <2> HIDE DEF first
    <2>3. first \o more \in Plans /\ Assistant(a) \in Planned(first \o more)
      BY <2>1, JoinedPlan
    <2>4. kind \in CatalogueKinds  BY DEF CatalogueKinds
    <2>5. CatalogueAsked(kind, [on |-> a, with |-> [actor |-> m, what |-> with]],
                         Planned(first \o more))
      BY <1>2, <2>3 DEF CatalogueAsked, ModelKinds, KeyKinds, AssistantKinds
    <2> QED  BY <2>2, <2>3, <2>4, <2>5, CatalogueAsks
  <1>3. PICK m \in People, a \in Assistants :
        \/ \E c \in Models :
            \/ Ask(p, "create_assistant", a, [actor |-> m, what |-> c], << Availability(c) >>)
            \/ AskAbout(p, "update_assistant", m, a, c, << Availability(c) >>)
        \/ \E kind \in {"publish_assistant", "archive_assistant"} : AskAbout(p, kind, m, a, {}, <<>>)
        \/ \E audience \in {{}, People} : AskAbout(p, "show_assistant", m, a, audience, <<>>)
        \/ \E n \in People :
            \/ \E level \in AccessLevels \ {"none"} :
                   AskAbout(p, "give_access", m, a, [to |-> n, level |-> level], << {Access(a, n)} >>)
            \/ AskAbout(p, "take_access", m, a, [to |-> n], << {Access(a, n)} >>)
    BY DEF AssistantRoutes
  <1>4. CASE \E c \in Models :
            \/ Ask(p, "create_assistant", a, [actor |-> m, what |-> c], << Availability(c) >>)
            \/ AskAbout(p, "update_assistant", m, a, c, << Availability(c) >>)
    <2>1. \A c \in Models : << Availability(c) >> \in Plans
      BY CatalogueRowsAre, PlanOfOne DEF Availability
    <2>2. "update_assistant" \in AssistantKinds  BY DEF AssistantKinds
    <2> QED  BY <1>1, <1>2, <1>4, <2>1, <2>2
  <1>5. CASE \E kind \in {"publish_assistant", "archive_assistant"} :
                 AskAbout(p, kind, m, a, {}, <<>>)
    BY <1>2, <1>5, EmptyPlan DEF AssistantKinds
  <1>6. CASE \E audience \in {{}, People} : AskAbout(p, "show_assistant", m, a, audience, <<>>)
    BY <1>2, <1>6, EmptyPlan DEF AssistantKinds
  <1>7. CASE \E n \in People :
            \/ \E level \in AccessLevels \ {"none"} :
                   AskAbout(p, "give_access", m, a, [to |-> n, level |-> level], << {Access(a, n)} >>)
            \/ AskAbout(p, "take_access", m, a, [to |-> n], << {Access(a, n)} >>)
    <2>1. \A n \in People : << {Access(a, n)} >> \in Plans
      BY CatalogueRowsAre, PlanOfOne
    <2>2. "give_access" \in AssistantKinds /\ "take_access" \in AssistantKinds
      BY DEF AssistantKinds
    <2> QED  BY <1>2, <1>7, <2>1, <2>2
  <1> QED  BY <1>3, <1>4, <1>5, <1>6, <1>7
LEMMA BasesAsk ==
  ASSUME IInv, NEW p \in Requests, BaseRoutes(p)
  PROVE  Begun(p)
  <1>1. ASSUME NEW plan \in PlanValues, Ask(p, "set_plan", 0, plan, << {Plan} >>)
        PROVE  Begun(p)
    <2>1. << {Plan} >> \in Plans /\ Planned(<< {Plan} >>) = {Plan}
      BY ChatbotRowsAre, PlanOfOne
    <2>2. ChatbotAsked("set_plan", [on |-> 0, with |-> plan], {Plan})
      BY DEF ChatbotAsked, WidgetKinds, SettingsKinds, BrowserKinds
    <2> QED  BY <1>1, <2>1, <2>2, ChatbotAsks DEF ChatbotKinds
  <1>2. ASSUME NEW b \in Bases, Ask(p, "create_base", b, {}, << {Plan}, BaseRows >>)
        PROVE  Begun(p)
    <2>1. /\ << {Plan}, BaseRows >> \in Plans
          /\ Planned(<< {Plan}, BaseRows >>) = {Plan} \cup BaseRows
      BY ChatbotRowsAre, TableRows, PlanOfTwo
    <2>2. ChatbotAsked("create_base", [on |-> b, with |-> {}], {Plan} \cup BaseRows)
      BY DEF ChatbotAsked, WidgetKinds, SettingsKinds, BrowserKinds
    <2> QED  BY <1>2, <2>1, <2>2, ChatbotAsks DEF ChatbotKinds
  <1>3. ASSUME NEW b \in Bases, Ask(p, "delete_base", b, {}, << {Base(b)}, WidgetRows >>)
        PROVE  Begun(p)
    <2>1. /\ << {Base(b)}, WidgetRows >> \in Plans
          /\ Planned(<< {Base(b)}, WidgetRows >>) = {Base(b)} \cup WidgetRows
      BY ChatbotRowsAre, TableRows, PlanOfTwo
    <2>2. ChatbotAsked("delete_base", [on |-> b, with |-> {}], {Base(b)} \cup WidgetRows)
      BY DEF ChatbotAsked, WidgetKinds, SettingsKinds, BrowserKinds
    <2> QED  BY <1>3, <2>1, <2>2, ChatbotAsks DEF ChatbotKinds
  <1>4. ASSUME NEW b \in Bases, NEW n \in Ratings, Ask(p, "rate", b, n, << {Base(b)} >>)
        PROVE  Begun(p)
    <2>1. << {Base(b)} >> \in Plans
      BY ChatbotRowsAre, PlanOfOne
    <2>2. ChatbotAsked("rate", [on |-> b, with |-> n], Planned(<< {Base(b)} >>))
      BY DEF ChatbotAsked, WidgetKinds, SettingsKinds, BrowserKinds
    <2> QED  BY <1>4, <2>1, <2>2, ChatbotAsks DEF ChatbotKinds
  <1> QED  BY <1>1, <1>2, <1>3, <1>4 DEF BaseRoutes

LEMMA WidgetsAsk ==
  ASSUME IInv, NEW p \in Requests, WidgetRoutes(p)
  PROVE  Begun(p)
  <1>1. ASSUME NEW w \in Widgets, NEW n \in Limits, NEW b \in Bases,
               Ask(p, "create_widget", w, [base |-> b, cap |-> n],
                   << {Plan}, WidgetRows, {Base(b)} >>)
        PROVE  Begun(p)
    <2> DEFINE known == {Plan} \cup WidgetRows \cup {Base(b)}
    <2>1. /\ << {Plan}, WidgetRows, {Base(b)} >> \in Plans
          /\ Planned(<< {Plan}, WidgetRows, {Base(b)} >>) = known
      BY ChatbotRowsAre, TableRows, PlanOfThree
    <2>2. ChatbotAsked("create_widget", [on |-> w, with |-> [base |-> b, cap |-> n]], known)
      BY DEF ChatbotAsked, WidgetKinds, SettingsKinds, BrowserKinds
    <2> QED  BY <1>1, <2>1, <2>2, ChatbotAsks DEF ChatbotKinds
  <1>2. ASSUME NEW w \in Widgets, NEW kind \in WidgetKinds, NEW with, NEW more \in SUBSET Rows,
               kind = "update_widget" => with \in Limits /\ Plan \in more,
               kind = "rate_chat" => with \in Ratings /\ RatingRows \subseteq more,
               NEW plan \in Plans, Planned(plan) = {Widget(w)} \cup more, Ask(p, kind, w, with, plan)
        PROVE  Begun(p)
    <2>1. kind \in ChatbotKinds  BY DEF ChatbotKinds
    <2>2. ChatbotAsked(kind, [on |-> w, with |-> with], Planned(plan))
      BY <1>2 DEF ChatbotAsked, WidgetKinds, SettingsKinds, BrowserKinds
    <2> QED  BY <1>2, <2>1, <2>2, ChatbotAsks
  <1>3. ASSUME NEW w \in Widgets, NEW n \in Limits,
               Ask(p, "update_widget", w, n, << {Widget(w)}, {Plan} >>)
        PROVE  Begun(p)
    <2>1. /\ << {Widget(w)}, {Plan} >> \in Plans /\ {Plan} \subseteq Rows
          /\ Planned(<< {Widget(w)}, {Plan} >>) = {Widget(w)} \cup {Plan}
      BY ChatbotRowsAre, PlanOfTwo
    <2> QED  BY <1>2, <1>3, <2>1 DEF WidgetKinds
  <1>4. ASSUME NEW w \in Widgets,
               NEW kind \in {"enable_widget", "disable_widget", "present_widget", "visit"},
               Ask(p, kind, w, {}, << {Widget(w)} >>)
        PROVE  Begun(p)
    <2>1. /\ << {Widget(w)} >> \in Plans
          /\ Planned(<< {Widget(w)} >>) = {Widget(w)} \cup {}
      BY ChatbotRowsAre, PlanOfOne
    <2>2. kind \in WidgetKinds /\ kind # "update_widget" /\ kind # "rate_chat"
      BY DEF WidgetKinds
    <2>3. {} \in SUBSET Rows  OBVIOUS
    <2> QED  BY <1>2, <1>4, <2>1, <2>2, <2>3
  <1>5. ASSUME NEW w \in Widgets,
               Ask(p, "delete_widget", w, {}, << {Widget(w)}, {Visit(w)} >>)
        PROVE  Begun(p)
    <2>1. /\ << {Widget(w)}, {Visit(w)} >> \in Plans /\ {Visit(w)} \in SUBSET Rows
          /\ Planned(<< {Widget(w)}, {Visit(w)} >>) = {Widget(w)} \cup {Visit(w)}
      BY ChatbotRowsAre, PlanOfTwo
    <2> QED  BY <1>2, <1>5, <2>1 DEF WidgetKinds
  <1>6. ASSUME NEW w \in Widgets, NEW n \in Ratings,
               Ask(p, "rate_chat", w, n, << {Widget(w)}, RatingRows >>)
        PROVE  Begun(p)
    <2>1. /\ << {Widget(w)}, RatingRows >> \in Plans /\ RatingRows \in SUBSET Rows
          /\ Planned(<< {Widget(w)}, RatingRows >>) = {Widget(w)} \cup RatingRows
      BY ChatbotRowsAre, TableRows, PlanOfTwo
    <2> QED  BY <1>2, <1>6, <2>1 DEF WidgetKinds
  <1> QED  BY <1>1, <1>3, <1>4, <1>5, <1>6 DEF WidgetRoutes

LEMMA SettingsAsk ==
  ASSUME IInv, NEW p \in Requests, SettingsRoutes(p)
  PROVE  Begun(p)
  <1>1. ASSUME NEW n \in Limits, NEW kind \in SettingsKinds,
               Ask(p, kind, 0, n, << {Plan}, {Settings} >>)
        PROVE  Begun(p)
    <2>1. /\ << {Plan}, {Settings} >> \in Plans
          /\ Planned(<< {Plan}, {Settings} >>) = {Plan} \cup {Settings}
      BY ChatbotRowsAre, PlanOfTwo
    <2>2. kind \in ChatbotKinds  BY DEF ChatbotKinds
    <2>3. ChatbotAsked(kind, [on |-> 0, with |-> n], {Plan} \cup {Settings})
      BY DEF ChatbotAsked, WidgetKinds, SettingsKinds, BrowserKinds
    <2> QED  BY <1>1, <2>1, <2>2, <2>3, ChatbotAsks
  <1>2. ASSUME Ask(p, "set_behaviour", 0, {}, << {Settings} >>)
        PROVE  Begun(p)
    <2>1. << {Settings} >> \in Plans /\ Planned(<< {Settings} >>) = {Settings}
      BY ChatbotRowsAre, PlanOfOne
    <2>2. ChatbotAsked("set_behaviour", [on |-> 0, with |-> {}], {Settings})
      BY DEF ChatbotAsked, WidgetKinds, SettingsKinds, BrowserKinds
    <2> QED  BY <1>2, <2>1, <2>2, ChatbotAsks DEF ChatbotKinds
  <1> QED  BY <1>1, <1>2 DEF SettingsRoutes, SettingsKinds

LEMMA TeamsAsk ==
  ASSUME IInv, NEW p \in Requests, TeamRoutes(p) \/ PushRoutes(p)
  PROVE  Begun(p)
  <1>1. ASSUME Ask(p, "list_teams", 0, {}, <<TeamRows>>)
        PROVE  Begun(p)
    <2>1. <<TeamRows>> \in Plans
      BY TableRows, PlanOfOne
    <2>2. ChatbotAsked("list_teams", [on |-> 0, with |-> {}], Planned(<<TeamRows>>))
      BY DEF ChatbotAsked, WidgetKinds, SettingsKinds, BrowserKinds
    <2> QED  BY <1>1, <2>1, <2>2, ChatbotAsks DEF ChatbotKinds
  <1>2. ASSUME NEW t \in Teams, NEW members \in SUBSET People, NEW n \in TeamNames,
               Ask(p, "save_team", t, [members |-> members, name |-> n], << {Team(t)} >>)
        PROVE  Begun(p)
    <2>1. << {Team(t)} >> \in Plans /\ Planned(<< {Team(t)} >>) = {Team(t)}
      BY ChatbotRowsAre, PlanOfOne
    <2>2. ChatbotAsked("save_team", [on |-> t, with |-> [members |-> members, name |-> n]],
                       {Team(t)})
      BY DEF ChatbotAsked, WidgetKinds, SettingsKinds, BrowserKinds
    <2> QED  BY <1>2, <2>1, <2>2, ChatbotAsks DEF ChatbotKinds
  <1>3. ASSUME NEW m \in People, NEW e \in Endpoints, NEW kind \in BrowserKinds,
               Ask(p, kind, m, e, <<>>)
        PROVE  Begun(p)
    <2>1. kind \in ChatbotKinds  BY DEF ChatbotKinds
    <2>2. ChatbotAsked(kind, [on |-> m, with |-> e], Planned(<<>>))
      BY DEF ChatbotAsked, WidgetKinds, SettingsKinds, BrowserKinds
    <2> QED  BY <1>3, <2>1, <2>2, EmptyPlan, ChatbotAsks
  <1>4. ASSUME NEW t \in Teams, Ask(p, "notify", t, {}, << RosterRows(t), BrowserRows >>)
        PROVE  Begun(p)
    <2> DEFINE plan == << RosterRows(t), BrowserRows >>
    <2>1. plan \in Plans
      BY TableRows, PlanOfTwo
    <2>2. ChatbotAsked("notify", [on |-> t, with |-> {}], Planned(plan))
      BY DEF ChatbotAsked, WidgetKinds, SettingsKinds, BrowserKinds
    <2> QED  BY <1>4, <2>1, <2>2, ChatbotAsks DEF ChatbotKinds
  <1> QED  BY <1>1, <1>2, <1>3, <1>4 DEF TeamRoutes, PushRoutes, BrowserKinds

LEMMA ConversationsAsk ==
  ASSUME IInv, NEW p \in Requests, DialogueRoutes(p)
  PROVE  Begun(p)
  <1>1. ASSUME NEW v \in Conversations, NEW kind \in {"rename", "delete", "append"}, NEW with,
               Ask(p, kind, v, with, << {Conversation(v)} >>)
        PROVE  Begun(p)
    <2>1. /\ << {Conversation(v)} >> \in Plans
          /\ Planned(<< {Conversation(v)} >>) = {Conversation(v)}
      BY DialogueRowsAre, PlanOfOne
    <2>2. kind \in DialogueKinds  BY DEF DialogueKinds
    <2>3. DialogueAsked(kind, [on |-> v, with |-> with], {Conversation(v)})
      BY DEF DialogueAsked
    <2> QED  BY <1>1, <2>1, <2>2, <2>3, DialogueAsks
  <1>2. ASSUME NEW m \in People, NEW v \in Conversations, NEW a \in Assistants,
               Ask(p, "start", a, [actor |-> m, what |-> v],
                   << {Assistant(a)}, {Access(a, m)} >>)
        PROVE  Begun(p)
    <2> DEFINE plan == << {Assistant(a)}, {Access(a, m)} >>
    <2>1. plan \in Plans  BY CatalogueRowsAre, PlanOfTwo
    <2>2. DialogueAsked("start", [on |-> a, with |-> [actor |-> m, what |-> v]], Planned(plan))
      BY DEF DialogueAsked
    <2> QED  BY <1>2, <2>1, <2>2, DialogueAsks DEF DialogueKinds
  <1>3. ASSUME Ask(p, "purge", 0, {}, << {Settings} >>)
        PROVE  Begun(p)
    <2>1. << {Settings} >> \in Plans
      BY ChatbotRowsAre, PlanOfOne
    <2>2. DialogueAsked("purge", [on |-> 0, with |-> {}], Planned(<< {Settings} >>))
      BY DEF DialogueAsked
    <2> QED  BY <1>3, <2>1, <2>2, DialogueAsks DEF DialogueKinds
  <1>4. ASSUME NEW v \in Conversations, NEW m \in People,
               Ask(p, "recall", v, m, << {Conversation(v)}, MessagesOf(v) >>)
        PROVE  Begun(p)
    <2> DEFINE plan == << {Conversation(v)}, MessagesOf(v) >>
    <2>1. {Conversation(v)} \in SUBSET Rows /\ MessagesOf(v) \in SUBSET Rows
      BY DialogueRowsAre DEF MessagesOf
    <2>2. plan \in Plans /\ Planned(plan) = {Conversation(v)} \cup MessagesOf(v)
      BY <2>1, PlanOfTwo
    <2> HIDE DEF plan
    <2>3. DialogueAsked("recall", [on |-> v, with |-> m], Planned(plan))
      BY <2>2 DEF DialogueAsked
    <2> QED  BY <1>4, <2>2, <2>3, DialogueAsks DEF DialogueKinds, plan
  <1> QED  BY <1>1, <1>2, <1>3, <1>4 DEF DialogueRoutes

-----------------------------------------------------------------------------
(* The invariant holds. *)
LEMMA ConsoleStarts == Init => IInv
  <1> SUFFICES ASSUME Init PROVE IInv  OBVIOUS
  <1>1. PICK s \in Scenes : DbInit(s.rows) /\ UowInit(s.already)  BY DEF Init
  <1>2. /\ DOMAIN s.rows = Rows /\ s.already \in Numbers
        /\ \A r \in Rows : s.rows[r] \in ValuesOf(r)
    BY ConsoleAssumption
  <1>3. /\ UowInv /\ db = s.rows
        /\ \A p \in Requests : req[p] = Idle /\ draft[p] = NoRows
    BY <1>1, <1>2, UowStarts
  <1>4. DbOk  BY <1>2, <1>3 DEF DbOk
  <1>5. begun \in Numbers  BY <1>1, <1>2 DEF UowInit
  <1>6. ASSUME NEW p \in Requests  PROVE DraftOk(p) /\ RequestOk(p)
    <2>1. /\ req[p].kind = "idle" /\ DOMAIN req[p].copy = {} /\ req[p].id = 0
          /\ req[p].done = FALSE
      BY <1>3 DEF Idle, NoRows
    <2>2. Wrote(p) = {}  BY <1>3 DEF Wrote, NoRows
    <2>3. 0 \in Numbers  BY UnitOfWorkAssumption DEF Numbers
    <2>4. \A args, known : Asked("idle", args, known)
      BY DEF Asked, CatalogueAsked, ChatbotAsked, DialogueAsked, ModelKinds, KeyKinds,
             AssistantKinds, WidgetKinds, SettingsKinds, BrowserKinds
    <2> QED  BY <2>1, <2>2, <2>3, <2>4 DEF DraftOk, RequestOk
  <1> QED  BY <1>3, <1>4, <1>5, <1>6 DEF IInv

LEMMA SecondHalf ==
  ASSUME NEW p \in Requests, req[p].kind \in {"set_members", "remember"},
         CatalogueUseCase(p) \/ ChatbotUseCase(p) \/ DialogueUseCase(p)
  PROVE  SetMembers(p) \/ Remember(p)
  <1>1. \A kind : Decides(p, kind) => kind \in {"set_members", "remember"}  BY DEF Decides
  <1>2. ~CatalogueUseCase(p)
    BY <1>1 DEF CatalogueUseCase, CreateModelConfiguration, UpdateModelConfiguration,
       ArchiveModelConfiguration, RestoreModelConfiguration, GrantModelConfigurationToTenant,
       RevokeModelConfigurationFromTenant, StoreProviderCredential, RotateProviderCredential,
       RevokeProviderCredential, SetModelCredential, CreateAssistant, PublishAssistant,
       UpdateAssistant, ArchiveAssistant, ChangeAssistantVisibility, GrantAssistantAccess,
       RevokeAssistantAccess
  <1>3. DialogueUseCase(p) => Remember(p)
    BY <1>1 DEF DialogueUseCase, StartConversation, RenameConversation, DeleteConversation,
       PurgeExpiredConversations, AppendTurn, RecallThread
  <1>4. /\ ~SetTenantEntitlements(p) /\ ~CreateKnowledgeBase(p) /\ ~DeleteKnowledgeBase(p)
        /\ ~RecordAnswerFeedback(p) /\ ~CreateChatWidget(p) /\ ~SetChatWidgetStatus(p)
        /\ ~UpdateChatWidget(p) /\ ~UpdateWidgetPresentation(p) /\ ~DeleteChatWidget(p)
    <2>1. ~SetTenantEntitlements(p)  BY <1>1 DEF SetTenantEntitlements
    <2>2. ~CreateKnowledgeBase(p)  BY <1>1 DEF CreateKnowledgeBase
    <2>3. ~DeleteKnowledgeBase(p)  BY <1>1 DEF DeleteKnowledgeBase
    <2>4. ~RecordAnswerFeedback(p)  BY <1>1 DEF RecordAnswerFeedback
    <2>5. ~CreateChatWidget(p)  BY <1>1 DEF CreateChatWidget
    <2>6. ~SetChatWidgetStatus(p)  BY <1>1 DEF SetChatWidgetStatus
    <2>7. ~UpdateChatWidget(p)  BY <1>1 DEF UpdateChatWidget
    <2>8. ~UpdateWidgetPresentation(p)  BY <1>1 DEF UpdateWidgetPresentation
    <2>9. ~DeleteChatWidget(p)
      <3>1. ~Decides(p, "delete_widget")  BY <1>1
      <3> QED  BY <3>1 DEF DeleteChatWidget
    <2> QED  BY <2>1, <2>2, <2>3, <2>4, <2>5, <2>6, <2>7, <2>8, <2>9
  <1>5. /\ ~EnsureVisitorConversation(p) /\ ~RecordWidgetFeedback(p)
        /\ ~UpdateChatbotSettings(p) /\ ~UpdateChatbotBehaviour(p)
        /\ ~ListTeams(p) /\ ~SaveTeam(p)
        /\ ~SubscribeToPush(p) /\ ~UnsubscribeFromPush(p) /\ ~NotifyAgentsOfHandoff(p)
    <2>1. ~EnsureVisitorConversation(p)
      <3>1. ~Decides(p, "visit")  BY <1>1
      <3> QED  BY <3>1 DEF EnsureVisitorConversation
    <2>2. ~RecordWidgetFeedback(p)  BY <1>1 DEF RecordWidgetFeedback
    <2>3. ~UpdateChatbotSettings(p)  BY <1>1 DEF UpdateChatbotSettings
    <2>4. ~UpdateChatbotBehaviour(p)  BY <1>1 DEF UpdateChatbotBehaviour
    <2>5. ~ListTeams(p)  BY <1>1 DEF ListTeams
    <2>6. ~SaveTeam(p)  BY <1>1 DEF SaveTeam
    <2>7. ~SubscribeToPush(p)
      <3>1. ~Decides(p, "subscribe")  BY <1>1
      <3> QED  BY <3>1 DEF SubscribeToPush
    <2>8. ~UnsubscribeFromPush(p)
      <3>1. ~Decides(p, "unsubscribe")  BY <1>1
      <3> QED  BY <3>1 DEF UnsubscribeFromPush
    <2>9. ~NotifyAgentsOfHandoff(p)  BY <1>1 DEF NotifyAgentsOfHandoff
    <2> QED  BY <2>1, <2>2, <2>3, <2>4, <2>5, <2>6, <2>7, <2>8, <2>9
  <1> QED  BY <1>2, <1>3, <1>4, <1>5 DEF ChatbotUseCase

(* Every step is a request's: it begins, reads, writes, gives up or commits. *)
Writing(p) ==
    /\ Writes(p)
    /\ req[p].kind = "set_members" => SetMembers(p)
    /\ req[p].kind = "remember" => Remember(p)
NotCommitting(p) == Begun(p) \/ Read(p) \/ Writing(p) \/ Abandon(p)

LEMMA ConsoleMoves ==
  ASSUME IInv, Next
  PROVE  \E p \in Requests :
             \/ NotCommitting(p) /\ roof' = roof /\ unseen' = unseen
             \/ Commit1(p)
  <1>1. ASSUME NEW p \in Requests, Ask1(p)  PROVE Begun(p) /\ roof' = roof /\ unseen' = unseen
    BY <1>1, ModelsAsk, AssistantsAsk, BasesAsk, WidgetsAsk, SettingsAsk, TeamsAsk,
       ConversationsAsk
       DEF Ask1, CatalogueRoutes, ChatbotRoutes
  <1>2. ASSUME NEW p \in Requests, Step1(p)
        PROVE  NotCommitting(p) /\ roof' = roof /\ unseen' = unseen
    <2>1. CASE CatalogueUseCase(p) \/ ChatbotUseCase(p) \/ DialogueUseCase(p)
      <3>1. SetMembers(p) => req[p].kind = "set_members"  BY DEF SetMembers, Decides
      <3>2. Remember(p) => req[p].kind = "remember"  BY DEF Remember, Decides
      <3>3. Writes(p)  BY <2>1, CatalogueWrites, ChatbotWrites, DialogueWrites
      <3>4. Writing(p)  BY <2>1, <3>1, <3>2, <3>3, SecondHalf DEF Writing
      <3> QED  BY <1>2, <3>4 DEF Step1, NotCommitting
    <2> QED  BY <1>2, <2>1 DEF Step1, NotCommitting
  <1> QED  BY <1>1, <1>2 DEF Next, NotCommitting

LEMMA ConsoleKept == IInv /\ [Next]_vars => IInv'
  <1> SUFFICES ASSUME IInv, [Next]_vars PROVE IInv'  OBVIOUS
  <1>1. CASE UNCHANGED vars
    BY <1>1 DEF vars, uowVars, dbVars, IInv, DbOk, DraftOk, RequestOk, UowInv, RequestInv, OneWriter,
                Wrote, Known, Running
  <1>2. ASSUME NEW p \in Requests, NotCommitting(p)  PROVE IInv'
    BY <1>2, ConsoleRead, ConsoleAbandon, StoredKeeps
       DEF NotCommitting, Begun, Writing, Writes
  <1>3. ASSUME NEW p \in Requests, Commit1(p)  PROVE IInv'
    BY <1>3, ConsoleCommit DEF Commit1
  <1> QED  BY <1>1, <1>2, <1>3, ConsoleMoves

LEMMA ConsoleInvariant == Spec => []IInv
  BY ConsoleStarts, ConsoleKept, PTL DEF Spec
-----------------------------------------------------------------------------
(* A committed row changes only by the commit of a request that wrote it.   *)
LEMMA RowsMove ==
  ASSUME IInv, [Next]_vars, NEW r \in Rows, db'[r] # db[r]
  PROVE  \E p \in Requests :
            /\ Commit(p) /\ Ends(p) /\ req[p].done /\ r \in Wrote(p) /\ db'[r] = draft[p][r]
            /\ Lasting(req[p].kind, req[p].args, req[p].copy, overwritten, r, db[r], db'[r])
  <1>1. ASSUME NEW p \in Requests, NotCommitting(p)  PROVE db' = db
    BY <1>1 DEF NotCommitting, Begun, Read, Abandon, DropRows, dbVars, Writing, Writes, Stored,
                WrittenBy
  <1>2. ~UNCHANGED vars  BY DEF vars, uowVars, dbVars
  <1>3. PICK p \in Requests : Commit1(p)
    BY <1>1, <1>2, ConsoleMoves
  <1>4. Commit(p)  BY <1>3 DEF Commit1
  <1>5. db'[r] = Seen(p, r) /\ req[p].done /\ req'[p] = Idle
    BY <1>4, CommitStep DEF IInv, Commit
  <1>6. r \in Wrote(p) /\ db'[r] = draft[p][r]  BY <1>5 DEF Seen
  <1>7. Lasting(req[p].kind, req[p].args, req[p].copy, overwritten, r, db[r], db'[r])
    BY <1>6 DEF IInv, DraftOk
  <1>8. Ends(p)
    <2>1. req[p] # Idle  BY <1>5 DEF Idle
    <2>2. Running(p)  BY <2>1 DEF IInv, UowInv, RequestInv
    <2> QED  BY <1>5, <2>2 DEF Ends, Idle
  <1> QED  BY <1>4, <1>5, <1>6, <1>7, <1>8

LEMMA SwitchesAre ==
  ASSUME NEW r \in Switches
  PROVE  /\ r \in Rows
         /\ \/ r \in WidgetRows /\ r \notin AssistantRows /\ r[1] = "widget"
            \/ /\ r = Settings /\ r \notin WidgetRows \cup AssistantRows
               /\ r[1] = "settings"
            \/ /\ r \in AssistantRows /\ r \notin WidgetRows \cup {Settings}
               /\ r[1] = "assistant"
            \/ /\ r \notin WidgetRows \cup {Settings} \cup AssistantRows
               /\ r[1] \in {"model", "key"}
  <1>1. \A x \in WidgetRows : x[1] = "widget"  BY ChatbotRowsAre DEF WidgetRows
  <1>2. \A x \in AssistantRows : x[1] = "assistant"  BY CatalogueRowsAre DEF AssistantRows
  <1>3. Settings[1] = "settings" /\ Settings \in Rows  BY ChatbotRowsAre
  <1>4. CASE r \in WidgetRows  BY <1>1, <1>2, <1>4, TableRows
  <1>5. CASE r = Settings  BY <1>1, <1>2, <1>3, <1>5
  <1>6. CASE r \in AssistantRows  BY <1>1, <1>2, <1>3, <1>6, TableRows
  <1>7. CASE r \in {Model(c) : c \in Models} \cup {Key(k) : k \in Keys}
    <2>1. r \in Rows /\ r[1] \in {"model", "key"}  BY <1>7, CatalogueRowsAre
    <2> QED  BY <1>1, <1>2, <1>3, <2>1
  <1> QED  BY <1>4, <1>5, <1>6, <1>7 DEF Switches

LEMMA SwitchesUsed ==
  ASSUME NEW f, NEW r \in Switches
  PROVE  /\ r[1] \in {"widget", "settings", "assistant", "model", "key"}
         /\ r[1] \in {"widget", "settings"} =>
                /\ InUse(f, r) => f[r].there /\ f[r].on
                /\ Ended(f, r) => f[r].there /\ ~f[r].on
         /\ r[1] = "assistant" =>
                /\ InUse(f, r) => f[r].status \in {"draft", "published"}
                /\ Ended(f, r) => f[r].status = "archived"
         /\ r[1] = "model" =>
                /\ InUse(f, r) => f[r].there /\ ~f[r].archived
                /\ Ended(f, r) => f[r].there /\ f[r].archived
         /\ r[1] = "key" =>
                /\ InUse(f, r) => f[r].there /\ ~f[r].revoked
                /\ Ended(f, r) => f[r].there /\ f[r].revoked
  <1>1. CASE /\ r \in WidgetRows \cup {Settings} /\ r \notin AssistantRows
             /\ r[1] \in {"widget", "settings"}
    BY <1>1 DEF InUse, Ended
  <1>2. CASE /\ r \in AssistantRows /\ r \notin WidgetRows \cup {Settings}
             /\ r[1] = "assistant"
    BY <1>2 DEF InUse, Ended
  <1>3. CASE /\ r \notin WidgetRows \cup {Settings} \cup AssistantRows
             /\ r[1] \in {"model", "key"}
    BY <1>3 DEF InUse, Ended
  <1> QED  BY <1>1, <1>2, <1>3, SwitchesAre

(* What was switched off, archived or revoked comes back only by a request  *)
(* to enable, turn on or restore it: no other use case, however its copy    *)
(* and the stored row differ, brings it back (the whole-row saves of        *)
(* manage_chat_widget.py, manage_chatbot.py, manage_assistant.py).          *)
THEOREM OffStaysOff == Spec => OffOnPurpose
  <1>1. IInv /\ [Next]_vars =>
            [\A r \in Switches \ overwritten :
                Ended(db, r) /\ InUse(db', r) =>
                    \E p \in Requests :
                        /\ req[p].kind \in {"enable_widget", "turn_chatbot_on", "restore_model"}
                        /\ Ends(p)]_vars
    <2> SUFFICES ASSUME IInv, [Next]_vars, NEW r \in Switches \ overwritten,
                        Ended(db, r), InUse(db', r)
                 PROVE  \E p \in Requests :
                        /\ req[p].kind \in {"enable_widget", "turn_chatbot_on", "restore_model"}
                        /\ Ends(p)
      OBVIOUS
    <2>1. r \in Rows  BY SwitchesAre
    <2>2. /\ r[1] \in {"widget", "settings"} =>
                 db[r].there /\ ~db[r].on /\ db'[r].there /\ db'[r].on
          /\ r[1] = "assistant" =>
                 db[r].status = "archived" /\ db'[r].status \in {"draft", "published"}
          /\ r[1] = "model" => db[r].there /\ db[r].archived /\ db'[r].there /\ ~db'[r].archived
          /\ r[1] = "key" => db[r].there /\ db[r].revoked /\ db'[r].there /\ ~db'[r].revoked
          /\ r[1] \in {"widget", "settings", "assistant", "model", "key"}
      BY SwitchesUsed
    <2>6. db'[r] # db[r]  BY <2>2
    <2>3. PICK p \in Requests :
            /\ Ends(p)
            /\ Lasting(req[p].kind, req[p].args, req[p].copy, overwritten, r, db[r], db'[r])
      BY <2>1, <2>6, RowsMove
    <2> DEFINE kind == req[p].kind
               copy == req[p].copy
    <2>4. /\ ModelKept(kind, overwritten, r, db[r], db'[r])
          /\ KeyKept(overwritten, r, db[r], db'[r])
          /\ AssistantKept(overwritten, r, db[r], db'[r])
          /\ SettingsKept(kind, copy, overwritten, r, db[r], db'[r])
          /\ WidgetKept(kind, req[p].args, copy, overwritten, r, db[r], db'[r])
      BY <2>3 DEF Lasting
    <2> HIDE DEF kind, copy
    <2>5. kind \in {"enable_widget", "turn_chatbot_on", "restore_model"}
      <3>1. CASE r[1] = "widget"
        BY <2>2, <2>4, <3>1 DEF WidgetKept, WidgetCreated, WidgetEdited
      <3>2. CASE r[1] = "settings"  BY <2>2, <2>4, <3>2 DEF SettingsKept
      <3>3. CASE r[1] = "assistant"  BY <2>2, <2>4, <3>3 DEF AssistantKept
      <3>4. CASE r[1] = "model"  BY <2>2, <2>4, <3>4 DEF ModelKept
      <3>5. CASE r[1] = "key"  BY <2>2, <2>4, <3>5 DEF KeyKept
      <3> QED  BY <2>2, <3>1, <3>2, <3>3, <3>4, <3>5
    <2> QED  BY <2>3, <2>5 DEF kind
  <1> QED  BY <1>1, ConsoleInvariant, PTL DEF Spec, OffOnPurpose

(* A conversation used within the retention window stays and stays used,    *)
(* but for its owner's deletion: a purge that overlaps an exchange, and a   *)
(* rename on an older copy, do not take it                                  *)
(* (purge_conversations.py, manage_conversation.py, conversation_memory.py). *)
THEOREM UsedIsKept == Spec => KeptWhileUsed
  <1>1. IInv /\ [Next]_vars =>
            [\A v \in Conversations :
                LET x == Conversation(v) IN
                (db[x].there /\ db[x].recent /\ x \notin overwritten) =>
                    \/ db'[x].there /\ db'[x].recent
                    \/ \E p \in Requests : req[p].kind = "delete" /\ Ends(p)]_vars
    <2> SUFFICES ASSUME IInv, [Next]_vars, NEW v \in Conversations, NEW x, x = Conversation(v),
                        db[x].there, db[x].recent, x \notin overwritten,
                        ~(db'[x].there /\ db'[x].recent)
                 PROVE  \E p \in Requests : req[p].kind = "delete" /\ Ends(p)
      OBVIOUS
    <2>1. x \in Rows /\ x[1] = "conversation" /\ db'[x] # db[x]  BY DialogueRowsAre
    <2>2. PICK p \in Requests :
            /\ Ends(p)
            /\ Lasting(req[p].kind, req[p].args, req[p].copy, overwritten, x, db[x], db'[x])
      BY <2>1, RowsMove
    <2>3. req[p].kind = "delete"  BY <2>1, <2>2 DEF Lasting, ConversationKept
    <2> QED  BY <2>2, <2>3
  <1> QED  BY <1>1, ConsoleInvariant, PTL DEF Spec, KeptWhileUsed
-----------------------------------------------------------------------------
(* A step that commits nothing changes no row and no other request. *)
LEMMA NothingCommitted ==
  ASSUME IInv, NEW p \in Requests, NotCommitting(p)
  PROVE  /\ db' = db /\ OthersStay(p) /\ overwritten \subseteq overwritten'
         /\ IInv'
  <1>1. UowInv  BY DEF IInv
  <1>2. Read(p) => OthersStay(p) /\ db' = db /\ overwritten' = overwritten
    BY <1>1, ReadStep
  <1>3. Abandon(p) => OthersStay(p) /\ db' = db /\ overwritten' = overwritten
    BY <1>1, AbandonStep
  <1>4. Writing(p) => OthersStay(p) /\ db' = db /\ overwritten \subseteq overwritten'
    BY DEF Writing, Writes, Stored, WrittenBy
  <1>5. Begun(p) => OthersStay(p) /\ db' = db /\ overwritten' = overwritten
    BY DEF Begun
  <1>6. IInv'
    BY ConsoleRead, ConsoleAbandon, StoredKeeps DEF NotCommitting, Begun, Writing, Writes
  <1> QED  BY <1>2, <1>3, <1>4, <1>5, <1>6 DEF NotCommitting

-----------------------------------------------------------------------------
(* A team's roster while its save is under way: the save has written the    *)
(* team's row, so the roster it read is still the committed one, and when   *)
(* it is done whoever it has not written is off the roster and stays off.   *)
RosterOk(p) ==
    LET t == req[p].args.on
        members == req[p].args.with.members
    IN  req[p].kind = "set_members" =>
            /\ Team(t) \in Wrote(p)
            /\ \A r \in RosterRows(t) \cap DOMAIN req[p].copy : req[p].copy[r] = db[r]
            /\ req[p].done => \A r \in RosterRows(t) \ Wrote(p) :
                                  db[r] = FALSE /\ \A m \in members : r # Roster(t, m)

RosterInv == \A p \in Requests : RosterOk(p)

LEMMA OneRoster ==
  ASSUME IInv, RosterInv, NEW p \in Requests, NEW q \in Requests, p # q,
         req[p].kind = "set_members", NEW r \in RosterRows(req[p].args.on)
  PROVE  r \notin Wrote(q)
  <1> SUFFICES ASSUME r \in Wrote(q) PROVE FALSE  OBVIOUS
  <1> DEFINE t == req[p].args.on
             u == req[q].args.on
  <1>1. PICK m \in People : r = Roster(t, m)  BY DEF RosterRows
  <1>2. r[1] = "roster"  BY <1>1 DEF Roster
  <1>3. Lasting(req[q].kind, req[q].args, req[q].copy, overwritten, r, db[r], draft[q][r])
    BY DEF IInv, DraftOk
  <1>4. req[q].kind = "set_members" /\ r \in RosterRows(u)
    BY <1>2, <1>3 DEF Lasting, RosterKept
  <1>5. PICK n \in People : r = Roster(u, n)  BY <1>4 DEF RosterRows
  <1>6. t = u  BY <1>1, <1>5 DEF Roster
  <1>7. Team(t) \in Wrote(p) /\ Team(u) \in Wrote(q)  BY <1>4 DEF RosterInv, RosterOk
  <1> QED  BY <1>6, <1>7 DEF IInv, UowInv, OneWriter

(* The other requests' rosters. *)
LEMMA OtherRosters ==
  ASSUME IInv, RosterInv, NEW q \in Requests, OthersStay(q),
         db' = db \/ \A r \in Rows : db'[r] = Seen(q, r),
         NEW p \in Requests, p # q
  PROVE  RosterOk(p)'
  <1>1. req'[p] = req[p] /\ draft'[p] = draft[p] /\ Wrote(p)' = Wrote(p)
    BY DEF OthersStay, Wrote
  <1>2. CASE req[p].kind # "set_members"
    BY <1>1, <1>2 DEF RosterOk
  <1>3. CASE req[p].kind = "set_members"
    <2>1. req[p].args.on \in Teams
      BY <1>3 DEF IInv, RequestOk, Asked, ChatbotAsked
    <2>2. \A r \in RosterRows(req[p].args.on) : db'[r] = db[r]
      <3>1. \A r \in RosterRows(req[p].args.on) : r \in Rows
        BY <2>1, ChatbotRowsAre DEF RosterRows
      <3> QED  BY <1>3, <3>1, OneRoster DEF Seen
    <2>3. RosterOk(p)  BY DEF RosterInv
    <2> QED  BY <1>1, <1>3, <2>2, <2>3 DEF RosterOk
  <1> QED  BY <1>2, <1>3

LEMMA RosterWritten ==
  ASSUME IInv, RosterInv, NEW p \in Requests, Writing(p)
  PROVE  RosterOk(p)'
  <1>1. CASE req[p].kind = "set_members"
    <2> DEFINE t == Arg(p).on
               members == Arg(p).with.members
               asked == {Roster(t, m) : m \in members}
               before == {r \in RosterRows(t) : Copy(p, r)}
               new == [r \in asked \cup before |-> r \in asked]
    <2>1. SetMembers(p)  BY <1>1 DEF Writing
    <2>2. Decides(p, "set_members") /\ Save(p, new)  BY <2>1 DEF SetMembers
    <2>3. /\ t \in Teams /\ UowInv /\ Running(p) /\ Known(p) = DOMAIN req[p].copy
          /\ RosterRows(t) \subseteq Known(p)
      <3>1. UowInv  BY DEF IInv
      <3>2. Running(p) /\ Known(p) = DOMAIN req[p].copy
        BY <2>2, <3>1, Decided DEF Running
      <3> QED  BY <1>1, <3>1, <3>2 DEF IInv, RequestOk, Asked, ChatbotAsked, Arg
    <2>4. /\ WrittenBy(p, new) /\ req'[p].args = req[p].args /\ req'[p].copy = req[p].copy
      BY <2>2, <2>3, SaveStep
    <2>5. DOMAIN new = asked \cup before  OBVIOUS
    <2>6. Team(t) \in Wrote(p) /\ \A r \in RosterRows(t) : Copy(p, r) = db[r]
      BY <1>1, <2>3 DEF RosterInv, RosterOk, Arg, Copy
    <2>7. ASSUME NEW r \in RosterRows(t), r \notin Wrote(p)'
          PROVE  db[r] = FALSE /\ \A m \in members : r # Roster(t, m)
      <3>1. r \notin asked /\ r \notin before  BY <2>4, <2>5, <2>7 DEF WrittenBy
      <3>2. db[r] \in BOOLEAN
        BY <2>3, ChatbotRowsAre DEF RosterRows, IInv, DbOk
      <3> QED  BY <2>6, <3>1, <3>2
    <2>8. Team(t) \in Wrote(p)' /\ db' = db  BY <2>4, <2>6 DEF WrittenBy
    <2> HIDE DEF asked, before, new
    <2> QED  BY <2>4, <2>6, <2>7, <2>8 DEF RosterOk, Arg, Copy
  <1>2. CASE req[p].kind # "set_members"
    <2>1. PICK new : Stored(p, new)  BY DEF Writing, Writes
    <2> SUFFICES ASSUME req'[p].kind = "set_members" PROVE RosterOk(p)'
      BY DEF RosterOk
    <2>2. /\ req[p].kind = "save_team" /\ Team(Arg(p).on) \in DOMAIN new /\ ~req'[p].done
          /\ WrittenBy(p, new) /\ Known(p) = DOMAIN req[p].copy
          /\ req'[p].args = req[p].args /\ req'[p].copy = req[p].copy
      BY <1>2, <2>1 DEF Stored
    <2>3. DOMAIN req[p].copy = {Team(Arg(p).on)} /\ Team(Arg(p).on) \in Wrote(p)'
      BY <2>2 DEF IInv, RequestOk, Asked, ChatbotAsked, Arg, WrittenBy
    <2>4. RosterRows(Arg(p).on) \cap DOMAIN req[p].copy = {}
      BY <2>3 DEF RosterRows, Roster, Team
    <2> QED  BY <2>2, <2>3, <2>4 DEF RosterOk, Arg
  <1> QED  BY <1>1, <1>2

LEMMA RosterKeeps == IInv /\ RosterInv /\ [Next]_vars => RosterInv'
  <1> SUFFICES ASSUME IInv, RosterInv, [Next]_vars PROVE RosterInv'  OBVIOUS
  <1>1. CASE UNCHANGED vars
    BY <1>1 DEF vars, uowVars, dbVars, RosterInv, RosterOk, Wrote
  <1>2. ASSUME NEW p \in Requests, NotCommitting(p)  PROVE RosterInv'
    <2>1. db' = db /\ OthersStay(p)  BY <1>2, NothingCommitted
    <2>2. \A q \in Requests \ {p} : RosterOk(q)'  BY <2>1, OtherRosters
    <2>3. RosterOk(p)'
      <3>1. CASE Begun(p)
        BY <3>1 DEF Begun, RosterOk, GoesOnKinds
      <3>2. CASE Read(p)
        <4>1. /\ Wrote(p)' = Wrote(p) /\ req'[p].kind = req[p].kind
              /\ req'[p].args = req[p].args /\ req'[p].done = req[p].done
              /\ \A r \in DOMAIN req[p].copy : req'[p].copy[r] = req[p].copy[r]
              /\ \A r \in DOMAIN req'[p].copy \ DOMAIN req[p].copy : req'[p].copy[r] = Seen(p, r)
              /\ Known(p)' = Known(p)
          BY <3>2, ReadStep DEF IInv, Wrote
        <4>2. RosterOk(p)  BY DEF RosterInv
        <4>3. req[p].done => DOMAIN req'[p].copy \subseteq DOMAIN req[p].copy
          BY <4>1 DEF IInv, RequestOk, Known
        <4>4. ASSUME ~req[p].done, NEW r \in RosterRows(req[p].args.on)
              PROVE  Seen(p, r) = db[r]
          <5>1. r[1] = "roster"  BY <4>4 DEF RosterRows, Roster
          <5> QED  BY <4>4, <5>1 DEF IInv, DraftOk, Seen
        <4> QED  BY <2>1, <4>1, <4>2, <4>3, <4>4 DEF RosterOk
      <3>3. CASE Writing(p)  BY <3>3, RosterWritten
      <3>4. CASE Abandon(p)
        <4>1. req'[p] = Idle  BY <3>4, AbandonStep DEF IInv
        <4> QED  BY <4>1 DEF RosterOk, Idle
      <3> QED  BY <1>2, <3>1, <3>2, <3>3, <3>4 DEF NotCommitting
    <2> QED  BY <2>2, <2>3 DEF RosterInv
  <1>3. ASSUME NEW p \in Requests, Commit1(p)  PROVE RosterInv'
    <2>1. /\ OthersStay(p) /\ req'[p] = Idle
          /\ \A r \in Rows : db'[r] = Seen(p, r)
      BY <1>3, CommitStep DEF IInv, Commit1
    <2>2. \A q \in Requests \ {p} : RosterOk(q)'  BY <2>1, OtherRosters
    <2>3. RosterOk(p)'  BY <2>1 DEF RosterOk, Idle
    <2> QED  BY <2>2, <2>3 DEF RosterInv
  <1> QED  BY <1>1, <1>2, <1>3, ConsoleMoves

(* When a save of a team ends, the roster is the one it was asked for: of   *)
(* saves that overlap, one waits for the other's rows                       *)
(* (manage_tenant_teams.py, set_members).                                   *)
THEOREM RosterIsTheLastAsked == Spec => RosterIsAsSaved
  <1>1. Init => RosterInv
    <2> SUFFICES ASSUME Init, NEW p \in Requests PROVE RosterOk(p)  BY DEF RosterInv
    <2>1. req[p].kind = "idle"  BY DEF Init, UowInit, Idle
    <2> QED  BY <2>1 DEF RosterOk
  <1>2. IInv /\ RosterInv /\ [Next]_vars =>
            [\A p \in Requests :
                (Commit(p) /\ req[p].kind = "set_members") =>
                    \A m \in People : db'[Roster(Arg(p).on, m)] <=> m \in Arg(p).with.members]_vars
    <2> SUFFICES ASSUME IInv, RosterInv, NEW p \in Requests, Commit(p),
                        req[p].kind = "set_members", NEW m \in People
                 PROVE  db'[Roster(Arg(p).on, m)] <=> m \in Arg(p).with.members
      OBVIOUS
    <2> DEFINE t == Arg(p).on
               members == Arg(p).with.members
               r == Roster(t, m)
    <2>1. req[p].done /\ \A x \in Rows : db'[x] = Seen(p, x)
      BY CommitStep DEF IInv, Commit
    <2>2. t \in Teams  BY DEF IInv, RequestOk, Asked, ChatbotAsked, Arg
    <2>3. r \in Rows /\ r[1] = "roster" /\ r \in RosterRows(t)
      BY <2>2, ChatbotRowsAre DEF RosterRows
    <2>4. m \in members <=> \E n \in members : r = Roster(t, n)
      BY DEF Roster
    <2>5. CASE r \in Wrote(p)
      <3>1. db'[r] = draft[p][r]  BY <2>1, <2>3, <2>5 DEF Seen
      <3>2. Lasting(req[p].kind, req[p].args, req[p].copy, overwritten, r, db[r], draft[p][r])
        BY <2>5 DEF IInv, DraftOk
      <3>3. RosterKept(req[p].kind, req[p].args, r, draft[p][r])
        BY <3>2 DEF Lasting
      <3>4. draft[p][r] <=> \E n \in members : r = Roster(t, n)
        BY <2>3, <3>3 DEF RosterKept, Arg
      <3> QED  BY <2>4, <3>1, <3>4
    <2>6. CASE r \notin Wrote(p)
      <3>1. db'[r] = db[r]  BY <2>1, <2>3, <2>6 DEF Seen
      <3>2. db[r] = FALSE /\ \A n \in members : r # Roster(t, n)
        BY <2>1, <2>3, <2>6 DEF RosterInv, RosterOk, Arg
      <3> QED  BY <2>4, <3>1, <3>2
    <2> QED  BY <2>5, <2>6
  <1> QED  BY <1>1, <1>2, RosterKeeps, ConsoleInvariant, PTL DEF Spec, RosterIsAsSaved

-----------------------------------------------------------------------------
(* What refers to what: row x, with the value v, to row y. *)
Refers(x, v, y) ==
    \/ x \in AssistantRows /\ v.status # "absent" /\ y = ModelGrant(v.model)
    \/ \E w \in Widgets : y = Widget(w) /\ ((x = Visit(w) /\ v = TRUE) \/ (x \in RatingRows /\ v = w))
    \/ \E c \in Conversations : y = Conversation(c) /\ x \in MessagesOf(c) /\ v = TRUE

(* Nothing committed refers to what is gone, nothing drafted to what is     *)
(* gone or will be, and what is drafted as gone is referred to by nothing   *)
(* its request sees.  An assistant that was once there is there.            *)
RefersWell(x, v, y) ==
    Refers(x, v, y) => db[y].there /\ \A q \in Requests : y \in Wrote(q) => draft[q][y].there
LeavesNone(p, y) ==
    \A x \in Rows : Refers(x, Seen(p, x), y) => draft[p][y].there

RefInv ==
    /\ \A x \in Rows, y \in Rows : Refers(x, db[x], y) => db[y].there
    /\ \A p \in Requests : \A x \in Wrote(p), y \in Rows : RefersWell(x, draft[p][x], y)
    /\ \A p \in Requests : \A y \in Wrote(p) : LeavesNone(p, y)
    /\ \A p \in Requests : \A x \in AssistantRows \cap DOMAIN req[p].copy :
           Copy(p, x).status # "absent" => db[x].status # "absent"

LEMMA ReferredAre ==
  ASSUME NEW x, NEW v, NEW y, Refers(x, v, y)
  PROVE  \/ /\ x \in AssistantRows /\ v.status # "absent" /\ y = ModelGrant(v.model)
            /\ x[1] = "assistant" /\ y[1] = "grant"
         \/ \E w \in Widgets :
               /\ y = Widget(w) /\ y[1] = "widget"
               /\ \/ x = Visit(w) /\ v = TRUE /\ x[1] = "visit"
                  \/ x \in RatingRows /\ v = w /\ x[1] = "rating"
         \/ \E c \in Conversations :
               /\ y = Conversation(c) /\ x \in MessagesOf(c) /\ v = TRUE
               /\ x[1] = "message" /\ y[1] = "conversation"
  <1>1. \A a \in AssistantRows : a[1] = "assistant"  BY CatalogueRowsAre DEF AssistantRows
  <1>2. \A n \in RatingRows : n[1] = "rating"  BY ChatbotRowsAre DEF RatingRows
  <1>3. \A c : \A m \in MessagesOf(c) : m[1] = "message"  BY DEF MessagesOf, Message
  <1>4. \A c : ModelGrant(c)[1] = "grant"  BY DEF ModelGrant
  <1>5. \A w \in Widgets : Widget(w)[1] = "widget" /\ Visit(w)[1] = "visit"  BY ChatbotRowsAre
  <1>6. \A c \in Conversations : Conversation(c)[1] = "conversation"  BY DialogueRowsAre
  <1> QED  BY <1>1, <1>2, <1>3, <1>4, <1>5, <1>6 DEF Refers

LEMMA NotReferred ==
  ASSUME NEW x, NEW v, NEW y, y[1] \in {"team", "message"}
  PROVE  ~Refers(x, v, y)
  BY ReferredAre

(* A use case's writes before its last wait for nothing that is referred to. *)
LEMMA SeenIsCommitted ==
  ASSUME IInv, NEW p \in Requests, req[p].done = FALSE, NEW y \in Rows,
         y[1] \notin {"team", "message"}
  PROVE  y \notin Wrote(p) /\ Seen(p, y) = db[y]
  BY DEF IInv, DraftOk, Seen

(* What p writes refers to rows that are there and that nobody is deleting. *)
LEMMA ChildWritten ==
  ASSUME IInv, RefInv, NEW p \in Requests, NEW new, Stored(p, new),
         NEW x \in DOMAIN new, NEW y \in Rows, Refers(x, new[x], y)
  PROVE  db[y].there /\ \A q \in Requests \ {p} : y \in Wrote(q) => draft[q][y].there
  <1>1. Rule(p, new, x) /\ x \in Rows /\ req[p].done = FALSE  BY DEF Stored, GoodWrite
  <1>2. y[1] \notin {"team", "message"}  BY NotReferred
  <1>3. y \notin Wrote(p) /\ Seen(p, y) = db[y]  BY <1>1, <1>2, SeenIsCommitted
  <1>4. ASSUME Referable(p, y)
        PROVE  db[y].there /\ \A q \in Requests \ {p} : y \in Wrote(q) => draft[q][y].there
    BY <1>3, <1>4 DEF Referable
  <1>5. CASE /\ x \in AssistantRows /\ new[x].status # "absent" /\ y = ModelGrant(new[x].model)
             /\ x[1] = "assistant" /\ y[1] = "grant"
    <2>1. CASE Referable(p, y)  BY <1>4, <2>1
    <2>2. CASE ~Referable(p, y)
      <3>1. /\ x \in DOMAIN req[p].copy /\ Copy(p, x).status # "absent"
            /\ new[x].model = Seen(p, x).model
        BY <1>1, <1>5, <2>2 DEF Rule, AssistantRule
      <3>2. db[x].status # "absent"  BY <1>5, <3>1 DEF RefInv
      <3>3. Seen(p, x) = db[x]  BY <1>1, <1>5, SeenIsCommitted
      <3>4. Refers(x, db[x], y)  BY <1>5, <3>1, <3>2, <3>3 DEF Refers
      <3>5. db[y].there  BY <1>1, <3>4 DEF RefInv
      <3>6. ASSUME NEW q \in Requests \ {p}, y \in Wrote(q)  PROVE draft[q][y].there
        <4>1. x \notin Wrote(q)  BY DEF Stored, WrittenBy, Free
        <4>2. Refers(x, Seen(q, x), y)  BY <3>4, <4>1 DEF Seen
        <4>3. LeavesNone(q, y)  BY <3>6 DEF RefInv
        <4> QED  BY <1>1, <4>2, <4>3 DEF LeavesNone
      <3> QED  BY <3>5, <3>6
    <2> QED  BY <2>1, <2>2
  <1>6. CASE \E w \in Widgets :
               /\ y = Widget(w) /\ y[1] = "widget"
               /\ \/ x = Visit(w) /\ new[x] = TRUE /\ x[1] = "visit"
                  \/ x \in RatingRows /\ new[x] = w /\ x[1] = "rating"
    <2>1. PICK w \in Widgets :
               /\ y = Widget(w) /\ y[1] = "widget"
               /\ \/ x = Visit(w) /\ new[x] = TRUE /\ x[1] = "visit"
                  \/ x \in RatingRows /\ new[x] = w /\ x[1] = "rating"
      BY <1>6
    <2>2. CASE x = Visit(w) /\ x[1] = "visit"
      <3>1. PICK u \in Widgets : x = Visit(u) /\ Referable(p, Widget(u))
        BY <1>1, <2>2 DEF Rule, VisitRule
      <3>2. u = w  BY <2>2, <3>1 DEF Visit
      <3> QED  BY <1>4, <2>1, <3>1, <3>2
    <2>3. CASE x \in RatingRows /\ new[x] = w /\ x[1] = "rating"
      BY <1>1, <1>4, <2>1, <2>3 DEF Rule, RatingRule
    <2> QED  BY <2>1, <2>2, <2>3
  <1>7. CASE \E c \in Conversations :
               /\ y = Conversation(c) /\ x \in MessagesOf(c) /\ new[x] = TRUE
               /\ x[1] = "message" /\ y[1] = "conversation"
    <2>1. PICK c \in Conversations :
               /\ y = Conversation(c) /\ x \in MessagesOf(c) /\ new[x] = TRUE
               /\ x[1] = "message" /\ y[1] = "conversation"
      BY <1>7
    <2> DEFINE v == Arg(p).on
               seq == NextSeq(p, v)
    <2>2. /\ Referable(p, Conversation(v)) /\ DOMAIN new = {Message(v, seq), Message(v, seq + 1)}
      BY <1>1, <2>1 DEF Rule, MessageRule
    <2>3. c = v
      <3>1. PICK n \in Seqs : x = Message(c, n)  BY <2>1 DEF MessagesOf
      <3>2. x = Message(v, seq) \/ x = Message(v, seq + 1)  BY <2>2
      <3> HIDE DEF seq, v
      <3> QED  BY <3>1, <3>2 DEF Message
    <2> QED  BY <1>4, <2>1, <2>2, <2>3
  <1> QED  BY <1>5, <1>6, <1>7, ReferredAre

(* What p deletes, nothing p sees after it and nobody's draft refers to.    *)
LEMMA ParentWritten ==
  ASSUME IInv, RefInv, NEW p \in Requests, NEW new, Stored(p, new),
         NEW y \in DOMAIN new, ~new[y].there, NEW x \in Rows
  PROVE  /\ ~Refers(x, After(p, new, x), y)
         /\ \A q \in Requests \ {p} : x \in Wrote(q) => ~Refers(x, draft[q][x], y)
  <1>1. Rule(p, new, y) /\ y \in Rows  BY DEF Stored, GoodWrite
  <1>2. ASSUME x \in AssistantRows, x[1] = "assistant", y[1] = "grant"
        PROVE  /\ ~(/\ After(p, new, x).status # "absent"
                    /\ y = ModelGrant(After(p, new, x).model))
               /\ \A q \in Requests \ {p} :
                     x \in Wrote(q) => ~(/\ draft[q][x].status # "absent"
                                         /\ y = ModelGrant(draft[q][x].model))
    <2>1. PICK c \in Models :
            /\ y = ModelGrant(c)
            /\ Unreferred(p, AssistantRows, {v \in AssistantValues : Uses(c, v)})
            /\ AssistantRows \cap DOMAIN new = {}
      BY <1>1, <1>2 DEF Rule, GrantRule
    <2>2. \A d : ModelGrant(d) = y => d = c  BY <2>1 DEF ModelGrant
    <2>3. After(p, new, x) = Seen(p, x)  BY <1>2, <2>1 DEF After
    <2>4. ValuesOf(x) = AssistantValues  BY <1>2, CatalogueRowsAre DEF AssistantRows
    <2>5. Seen(p, x) \in AssistantValues  BY <2>4, SeenOk
    <2>6. \A q \in Requests : x \in Wrote(q) => draft[q][x] \in AssistantValues
      BY <2>4 DEF IInv, DraftOk
    <2> QED  BY <1>2, <2>1, <2>2, <2>3, <2>5, <2>6 DEF Unreferred, Uses
  <1>3. ASSUME NEW w \in Widgets, y = Widget(w), y[1] = "widget"
        PROVE  /\ ~(x = Visit(w) /\ After(p, new, x) = TRUE)
               /\ ~(x \in RatingRows /\ After(p, new, x) = w)
               /\ \A q \in Requests \ {p} :
                     x \in Wrote(q) => /\ ~(x = Visit(w) /\ draft[q][x] = TRUE)
                                       /\ ~(x \in RatingRows /\ draft[q][x] = w)
    <2>1. PICK u \in Widgets :
            /\ y = Widget(u) /\ Unreferred(p, {Visit(u)}, {TRUE}) /\ Visit(u) \notin DOMAIN new
            /\ \A n \in RatingRows :
                   /\ After(p, new, n) # u
                   /\ \A q \in Requests \ {p} : n \in Wrote(q) => draft[q][n] # u
      BY <1>1, <1>3 DEF Rule, WidgetRule
    <2>2. u = w  BY <1>3, <2>1 DEF Widget
    <2>3. x = Visit(w) => After(p, new, x) = Seen(p, x)  BY <2>1, <2>2 DEF After
    <2>4. x = Visit(w) =>
              Seen(p, x) # TRUE /\ \A q \in Requests \ {p} : x \in Wrote(q) => draft[q][x] # TRUE
      BY <2>1, <2>2 DEF Unreferred
    <2> QED  BY <2>1, <2>2, <2>3, <2>4
  <1>4. ASSUME NEW c \in Conversations, y = Conversation(c), y[1] = "conversation",
               x \in MessagesOf(c)
        PROVE  /\ After(p, new, x) # TRUE
               /\ \A q \in Requests \ {p} : x \notin Wrote(q)
    <2>1. PICK v \in Conversations :
            /\ y = Conversation(v) /\ Unwritten(p, v)
            /\ \A m \in MessagesOf(v) : ~After(p, new, m)
      BY <1>1, <1>4 DEF Rule, ConversationRule, Cleared
    <2>2. v = c  BY <1>4, <2>1 DEF Conversation
    <2> QED  BY <1>4, <2>1, <2>2 DEF Unwritten, Free
  <1>5. ASSUME NEW v, v = After(p, new, x) \/ (\E q \in Requests \ {p} : x \in Wrote(q) /\ v = draft[q][x]),
               Refers(x, v, y)
        PROVE  FALSE
    <2>1. CASE /\ x \in AssistantRows /\ v.status # "absent" /\ y = ModelGrant(v.model)
               /\ x[1] = "assistant" /\ y[1] = "grant"
      BY <1>2, <1>5, <2>1
    <2>2. ASSUME NEW w \in Widgets, y = Widget(w), y[1] = "widget",
                 \/ x = Visit(w) /\ v = TRUE
                 \/ x \in RatingRows /\ v = w
          PROVE  FALSE
      BY <1>3, <1>5, <2>2
    <2>3. ASSUME NEW c \in Conversations, y = Conversation(c), y[1] = "conversation",
                 x \in MessagesOf(c), v = TRUE
          PROVE  FALSE
      <3>1. After(p, new, x) # TRUE /\ \A q \in Requests \ {p} : x \notin Wrote(q)
        BY <1>4, <2>3
      <3> QED  BY ONLY <1>5, <2>3, <3>1
    <2>4. Refers(x, v, y)  BY <1>5
    <2>5. CASE \E w \in Widgets :
              /\ y = Widget(w) /\ y[1] = "widget"
              /\ \/ x = Visit(w) /\ v = TRUE /\ x[1] = "visit"
                 \/ x \in RatingRows /\ v = w /\ x[1] = "rating"
      BY <2>2, <2>5
    <2>6. CASE \E c \in Conversations :
              /\ y = Conversation(c) /\ x \in MessagesOf(c) /\ v = TRUE
              /\ x[1] = "message" /\ y[1] = "conversation"
      BY <2>3, <2>6
    <2> QED  BY ONLY <2>1, <2>4, <2>5, <2>6, ReferredAre
  <1> QED  BY <1>5

LEMMA ReferencesWritten ==
  ASSUME IInv, RefInv, NEW p \in Requests, Writing(p)
  PROVE  RefInv'
  <1>1. PICK new : Stored(p, new)  BY DEF Writing, Writes
  <1>2. /\ OthersStay(p) /\ WrittenBy(p, new) /\ req[p].done = FALSE
        /\ req'[p].copy = req[p].copy
        /\ \A r \in DOMAIN new : r \in Rows
    BY <1>1 DEF Stored, GoodWrite
  <1>3. /\ db' = db /\ Wrote(p)' = Wrote(p) \cup DOMAIN new
        /\ \A x \in Rows : Seen(p, x)' = After(p, new, x)
        /\ \A x \in Wrote(p)' : draft'[p][x] = After(p, new, x)
    BY <1>2 DEF WrittenBy, Seen, After, Wrote
  <1>4. /\ \A q \in Requests \ {p} : Wrote(q)' = Wrote(q) /\ draft'[q] = draft[q]
        /\ \A q \in Requests : req'[q].copy = req[q].copy
        /\ \A q \in Requests \ {p}, x \in Rows : Seen(q, x)' = Seen(q, x)
    BY <1>2, <1>3 DEF OthersStay, Wrote, Seen
  <1>5. ASSUME NEW y \in Rows, y[1] \notin {"team", "message"}, y \in Wrote(p)'
        PROVE  y \in DOMAIN new /\ draft'[p][y] = new[y]
    <2>1. y \notin Wrote(p)  BY <1>2, <1>5, SeenIsCommitted
    <2> QED  BY <1>2, <1>3, <1>5, <2>1 DEF WrittenBy
  (* What p itself writes or has written, against what it deletes. *)
  <1>6. ASSUME NEW y \in Wrote(p)', NEW x \in Rows, Refers(x, After(p, new, x), y)
        PROVE  draft'[p][y].there
    <2>1. y[1] \notin {"team", "message"} /\ y \in Rows
      BY <1>2, <1>3, <1>6, NotReferred DEF IInv, DraftOk
    <2>2. y \in DOMAIN new /\ draft'[p][y] = new[y]  BY <1>5, <2>1, <1>6
    <2> QED  BY <1>1, <1>6, <2>2, ParentWritten
  <1>7. ASSUME NEW y \in Wrote(p)'  PROVE LeavesNone(p, y)'
    BY <1>3, <1>6, <1>7 DEF LeavesNone
  <1>8. ASSUME NEW q \in Requests \ {p}, NEW y \in Wrote(q)'  PROVE LeavesNone(q, y)'
    BY <1>4, <1>8 DEF LeavesNone, RefInv
  <1>9. ASSUME NEW x \in Wrote(p)', NEW y \in Rows, Refers(x, draft'[p][x], y)
        PROVE  db[y].there /\ \A q \in Requests : y \in Wrote(q)' => draft'[q][y].there
    <2>1. x \in Rows  BY <1>2, <1>3 DEF IInv, DraftOk
    <2>2. draft'[p][x] = After(p, new, x)  BY <1>3
    <2>3. db[y].there /\ \A q \in Requests \ {p} : y \in Wrote(q) => draft[q][y].there
      <3>1. CASE x \in DOMAIN new
        <4>1. Refers(x, new[x], y)  BY <1>9, <2>2, <3>1 DEF After
        <4> QED  BY <1>1, <3>1, <4>1, ChildWritten
      <3>2. CASE x \notin DOMAIN new
        <4>1. x \in Wrote(p) /\ draft'[p][x] = draft[p][x]
          BY <1>2, <1>3, <3>2 DEF WrittenBy
        <4> QED  BY <1>9, <4>1 DEF RefInv, RefersWell
      <3> QED  BY <3>1, <3>2
    <2>4. y \in Wrote(p)' => draft'[p][y].there  BY <1>6, <1>9, <2>1, <2>2
    <2> QED  BY <1>4, <2>3, <2>4
  <1>10. ASSUME NEW q \in Requests \ {p}, NEW x \in Wrote(q), NEW y \in Rows,
                Refers(x, draft[q][x], y)
         PROVE  db[y].there /\ \A s \in Requests : y \in Wrote(s)' => draft'[s][y].there
    <2>1. db[y].there /\ \A s \in Requests : y \in Wrote(s) => draft[s][y].there
      BY <1>10 DEF RefInv, RefersWell
    <2>2. x \in Rows  BY DEF IInv, DraftOk
    <2>3. y \in Wrote(p)' => draft'[p][y].there
      <3> SUFFICES ASSUME y \in Wrote(p)' PROVE draft'[p][y].there  OBVIOUS
      <3>1. y \in DOMAIN new /\ draft'[p][y] = new[y]
        BY <1>5, <1>10, NotReferred
      <3> QED  BY <1>1, <1>10, <2>2, <3>1, ParentWritten
    <2> QED  BY <1>4, <2>1, <2>3
  <1>11. \A q \in Requests : \A x \in Wrote(q)', y \in Rows :
             Refers(x, draft'[q][x], y) =>
                 db'[y].there /\ \A s \in Requests : y \in Wrote(s)' => draft'[s][y].there
    BY <1>3, <1>4, <1>9, <1>10
  <1>12. \A q \in Requests : \A y \in Wrote(q)' : LeavesNone(q, y)'  BY <1>7, <1>8
  <1> QED  BY <1>3, <1>4, <1>11, <1>12 DEF RefInv, RefersWell, Copy

LEMMA ReferencesCommitted ==
  ASSUME IInv, RefInv, NEW p \in Requests, Commit(p)
  PROVE  RefInv'
  <1>1. /\ OthersStay(p) /\ req'[p] = Idle /\ Wrote(p)' = {}
        /\ \A r \in Rows : db'[r] = Seen(p, r)
    BY CommitStep DEF IInv
  <1>2. \A q \in Requests \ {p} :
            req'[q] = req[q] /\ Wrote(q)' = Wrote(q) /\ draft'[q] = draft[q]
    BY <1>1 DEF OthersStay, Wrote
  <1>3. ASSUME NEW x \in Rows, NEW y \in Rows, Refers(x, Seen(p, x), y)
        PROVE  Seen(p, y).there
    <2>1. CASE y \in Wrote(p)
      BY <1>3, <2>1 DEF RefInv, LeavesNone, Seen
    <2>2. CASE y \notin Wrote(p) /\ x \in Wrote(p)
      BY <1>3, <2>2 DEF RefInv, RefersWell, Seen
    <2>3. CASE y \notin Wrote(p) /\ x \notin Wrote(p)
      BY <1>3, <2>3 DEF RefInv, Seen
    <2> QED  BY <2>1, <2>2, <2>3
  <1>4. \A x \in Rows, y \in Rows : Refers(x, db'[x], y) => db'[y].there
    BY <1>1, <1>3
  <1>5. ASSUME NEW q \in Requests, NEW x \in Wrote(q)', NEW y \in Rows, Refers(x, draft'[q][x], y)
        PROVE  db'[y].there /\ \A s \in Requests : y \in Wrote(s)' => draft'[s][y].there
    <2>1. q # p /\ x \in Wrote(q) /\ Refers(x, draft[q][x], y)  BY <1>1, <1>2, <1>5
    <2>2. db[y].there /\ \A s \in Requests : y \in Wrote(s) => draft[s][y].there
      BY <2>1 DEF RefInv, RefersWell
    <2> QED  BY <1>1, <1>2, <2>2 DEF Seen
  <1>6. ASSUME NEW q \in Requests, NEW y \in Wrote(q)', NEW x \in Rows, Refers(x, Seen(q, x)', y)
        PROVE  draft'[q][y].there
    <2>1. q # p /\ y \in Wrote(q) /\ draft'[q][y] = draft[q][y]  BY <1>1, <1>2, <1>6
    <2>2. y \in Rows  BY <2>1 DEF IInv, DraftOk
    <2>3. CASE x \in Wrote(q)
      <3>1. Seen(q, x)' = Seen(q, x)  BY <1>2, <2>1, <2>3 DEF Seen
      <3> QED  BY <1>6, <2>1, <3>1 DEF RefInv, LeavesNone
    <2>4. CASE x \notin Wrote(q) /\ x \in Wrote(p)
      <3>1. Seen(q, x)' = draft[p][x]  BY <1>1, <1>2, <2>1, <2>4 DEF Seen
      <3>2. RefersWell(x, draft[p][x], y)  BY <2>2, <2>4 DEF RefInv
      <3> QED  BY <1>6, <2>1, <3>1, <3>2 DEF RefersWell
    <2>5. CASE x \notin Wrote(q) /\ x \notin Wrote(p)
      <3>1. Seen(q, x)' = Seen(q, x)  BY <1>1, <1>2, <2>1, <2>5 DEF Seen
      <3> QED  BY <1>6, <2>1, <3>1 DEF RefInv, LeavesNone
    <2> QED  BY <2>3, <2>4, <2>5
  <1>7. ASSUME NEW q \in Requests, NEW x \in AssistantRows \cap DOMAIN req'[q].copy,
               req'[q].copy[x].status # "absent"
        PROVE  db'[x].status # "absent"
    <2>1. q # p /\ x \in DOMAIN req[q].copy /\ req[q].copy[x].status # "absent"
      <3>1. DOMAIN Idle.copy = {}  BY DEF Idle, NoRows
      <3> QED  BY <1>1, <1>2, <1>7, <3>1
    <2>2. db[x].status # "absent" /\ x \in Rows /\ x[1] = "assistant"
      BY <2>1, TableRows, CatalogueRowsAre DEF RefInv, Copy, AssistantRows
    <2>3. CASE x \in Wrote(p)
      <3>1. draft[p][x].status # "absent"
        BY <2>2, <2>3 DEF IInv, DraftOk, Lasting, AssistantKept
      <3> QED  BY <1>1, <2>2, <2>3, <3>1 DEF Seen
    <2>4. CASE x \notin Wrote(p)  BY <1>1, <2>2, <2>4 DEF Seen
    <2> QED  BY <2>3, <2>4
  <1> QED  BY <1>4, <1>5, <1>6, <1>7 DEF RefInv, RefersWell, LeavesNone, Copy

LEMMA ReferencesElsewhere ==
  ASSUME IInv, RefInv, NEW p \in Requests, Begun(p) \/ Read(p) \/ Abandon(p)
  PROVE  RefInv'
  <1>1. /\ db' = db /\ OthersStay(p)
        /\ Wrote(p)' = {} \/ (draft' = draft /\ Wrote(p)' = Wrote(p))
    <2>1. Begun(p) => db' = db /\ OthersStay(p) /\ Wrote(p)' = {}
      BY DEF Begun
    <2>2. Read(p) => db' = db /\ OthersStay(p) /\ draft' = draft /\ Wrote(p)' = Wrote(p)
      BY ReadStep DEF IInv, Wrote
    <2>3. Abandon(p) => db' = db /\ OthersStay(p) /\ Wrote(p)' = {}
      BY AbandonStep DEF IInv
    <2> QED  BY <2>1, <2>2, <2>3
  <1>2. \A q \in Requests \ {p} :
            req'[q] = req[q] /\ Wrote(q)' = Wrote(q) /\ draft'[q] = draft[q]
    BY <1>1 DEF OthersStay, Wrote
  <1>3. \A q \in Requests : \A x \in Wrote(q)' : x \in Wrote(q) /\ draft'[q][x] = draft[q][x]
    BY <1>1, <1>2
  <1>4. ASSUME NEW q \in Requests, NEW y \in Wrote(q)'  PROVE LeavesNone(q, y)'
    <2>1. LeavesNone(q, y)  BY <1>3, <1>4 DEF RefInv
    <2>2. \A x \in Rows : Seen(q, x)' = Seen(q, x)  BY <1>1, <1>2, <1>4 DEF Seen
    <2> QED  BY <1>3, <1>4, <2>1, <2>2 DEF LeavesNone
  <1>5. ASSUME NEW q \in Requests, NEW x \in Wrote(q)', NEW y \in Rows, Refers(x, draft'[q][x], y)
        PROVE  db'[y].there /\ \A s \in Requests : y \in Wrote(s)' => draft'[s][y].there
    <2>1. x \in Wrote(q) /\ Refers(x, draft[q][x], y)  BY <1>3, <1>5
    <2>2. db[y].there /\ \A s \in Requests : y \in Wrote(s) => draft[s][y].there
      BY <2>1 DEF RefInv, RefersWell
    <2> QED  BY <1>1, <1>3, <2>2
  <1>6. ASSUME NEW q \in Requests, NEW x \in AssistantRows \cap DOMAIN req'[q].copy,
               req'[q].copy[x].status # "absent"
        PROVE  db[x].status # "absent"
    <2>1. CASE q # p  BY <1>2, <1>6, <2>1 DEF RefInv, Copy
    <2>2. CASE q = p /\ (Begun(p) \/ Abandon(p))
      <3>1. DOMAIN req'[p].copy = {}
        BY <2>2, AbandonStep DEF Begun, IInv, Idle, NoRows
      <3> QED  BY <1>6, <2>2, <3>1
    <2>3. CASE q = p /\ Read(p)
      <3>1. /\ \A r \in DOMAIN req[p].copy : req'[p].copy[r] = req[p].copy[r]
            /\ \A r \in DOMAIN req'[p].copy \ DOMAIN req[p].copy : req'[p].copy[r] = Seen(p, r)
            /\ Known(p)' = Known(p)
        BY <2>3, ReadStep DEF IInv
      <3>2. CASE x \in DOMAIN req[p].copy  BY <1>6, <2>3, <3>1, <3>2 DEF RefInv, Copy
      <3>3. CASE x \notin DOMAIN req[p].copy
        <4>1. ~req[p].done
          <5>1. x \in Known(p)  BY <1>6, <2>3, <3>1 DEF Known
          <5> QED  BY <3>3, <5>1 DEF IInv, RequestOk
        <4>2. x \in Rows /\ x[1] = "assistant"
          BY TableRows, CatalogueRowsAre DEF AssistantRows
        <4>3. req[p].done = FALSE  BY <4>1 DEF IInv, UowInv, RequestInv, IsRequest
        <4>4. Seen(p, x) = db[x]  BY <4>2, <4>3, SeenIsCommitted
        <4> QED  BY <1>6, <2>3, <3>1, <3>3, <4>4
      <3> QED  BY <3>2, <3>3
    <2> QED  BY <2>1, <2>2, <2>3
  <1> QED  BY <1>1, <1>4, <1>5, <1>6 DEF RefInv, RefersWell, LeavesNone, Copy

LEMMA ReferencesStart == Init => RefInv
  <1> SUFFICES ASSUME Init PROVE RefInv  OBVIOUS
  <1>1. PICK s \in Scenes : DbInit(s.rows) /\ UowInit(s.already)  BY DEF Init
  <1>2. db = s.rows /\ Referring(s.rows, {})  BY <1>1, ScenesAssumption DEF DbInit
  <1>3. ASSUME NEW p \in Requests  PROVE Wrote(p) = {} /\ DOMAIN req[p].copy = {}
    BY <1>1 DEF DbInit, UowInit, Wrote, Idle, NoRows
  <1>4. \A x \in Rows, y \in Rows : Refers(x, db[x], y) => db[y].there
    BY <1>2 DEF Referring, Refers
  <1> QED  BY <1>3, <1>4 DEF RefInv

LEMMA ReferencesKept == IInv /\ RefInv /\ [Next]_vars => RefInv'
  <1> SUFFICES ASSUME IInv, RefInv, [Next]_vars PROVE RefInv'  OBVIOUS
  <1>1. CASE UNCHANGED vars
    BY <1>1 DEF vars, uowVars, dbVars, RefInv, RefersWell, LeavesNone, Wrote, Seen, Copy
  <1>2. ASSUME NEW p \in Requests, NotCommitting(p)  PROVE RefInv'
    BY <1>2, ReferencesElsewhere, ReferencesWritten DEF NotCommitting
  <1>3. ASSUME NEW p \in Requests, Commit1(p)  PROVE RefInv'
    BY <1>3, ReferencesCommitted DEF Commit1
  <1> QED  BY <1>1, <1>2, <1>3, ConsoleMoves

(* A widget's base is there, or one of the two rows was changed under a     *)
(* request that had read it.                                                *)
BasesHold ==
    \A w \in There(db, WidgetRows) :
        db[Base(db[w].base)].there \/ unseen \cap {w, Base(db[w].base)} # {}

(* What a committing request has read is as it was read, or is `unseen`.    *)
LEMMA ReadOrUnseen ==
  ASSUME IInv, NEW p \in Requests, Commit1(p)
  PROVE  /\ \A r \in Rows : db'[r] = Seen(p, r)
         /\ req[p].done /\ Known(p) \subseteq DOMAIN req[p].copy
         /\ unseen \subseteq unseen'
         /\ \A r \in DOMAIN req[p].copy : r \notin unseen' => db[r] = req[p].copy[r]
         /\ \A r \in Wrote(p) :
               /\ r \in Rows /\ db'[r] = draft[p][r]
               /\ Lasting(req[p].kind, req[p].args, req[p].copy, overwritten, r, db[r], db'[r])
  <1>1. (\A r \in Rows : db'[r] = Seen(p, r)) /\ req[p].done
    BY CommitStep DEF Commit1, Commit, IInv
  <1>2. Known(p) \subseteq DOMAIN req[p].copy  BY <1>1 DEF IInv, RequestOk
  <1>3. unseen' = unseen \cup {r \in DOMAIN req[p].copy : db[r] # Copy(p, r)}
    BY DEF Commit1
  <1>4. \A r \in Wrote(p) :
           /\ r \in Rows /\ db'[r] = draft[p][r]
           /\ Lasting(req[p].kind, req[p].args, req[p].copy, overwritten, r, db[r], db'[r])
    BY <1>1 DEF IInv, DraftOk, Seen
  <1> QED  BY <1>1, <1>2, <1>3, <1>4 DEF Copy

LEMMA BasesKept == IInv /\ BasesHold /\ [Next]_vars => BasesHold'
  <1> SUFFICES ASSUME IInv, BasesHold, [Next]_vars PROVE BasesHold'  OBVIOUS
  <1>1. CASE db' = db /\ unseen' = unseen
    BY <1>1 DEF BasesHold, There
  <1>2. ASSUME NEW p \in Requests, Commit1(p)  PROVE BasesHold'
    <2> SUFFICES ASSUME NEW w \in WidgetRows, db'[w].there, NEW b, b = Base(db'[w].base),
                        w \notin unseen', b \notin unseen'
                 PROVE  db'[b].there
      BY DEF BasesHold, There
    <2> DEFINE kind == req[p].kind
               args == req[p].args
               copy == req[p].copy
    <2>1. /\ \A r \in Rows : db'[r] = Seen(p, r)
          /\ \A r \in DOMAIN copy : r \notin unseen' => db[r] = copy[r]
          /\ \A r \in Wrote(p) :
                Lasting(kind, args, copy, overwritten, r, db[r], db'[r])
          /\ unseen \subseteq unseen' /\ Known(p) \subseteq DOMAIN copy
          /\ Asked(kind, args, Known(p))
      BY <1>2, ReadOrUnseen DEF IInv, RequestOk
    <2>2. w \in Rows /\ w[1] = "widget"  BY TableRows, ChatbotRowsAre DEF WidgetRows
    <2>3. db'[w] \in WidgetValues /\ db'[w].base \in Bases
      <3>1. Seen(p, w) \in ValuesOf(w)  BY <2>2, SeenOk
      <3>2. ValuesOf(w) = WidgetValues  BY ChatbotRowsAre DEF WidgetRows
      <3> QED  BY <2>1, <2>2, <3>1, <3>2 DEF WidgetValues
    <2>4. b \in Rows /\ b[1] = "base"  BY <2>3, ChatbotRowsAre
    <2>5. ASSUME db[w].there, db[w].base = db'[w].base  PROVE db[b].there
      <3>1. w \notin unseen /\ b \notin unseen  BY <2>1
      <3> QED  BY <2>5, <3>1 DEF BasesHold, There
    (* The base as it was. *)
    <2>6. db[b].there
      <3>1. CASE w \notin Wrote(p)
        <4>1. db'[w] = db[w]  BY <2>1, <2>2, <3>1 DEF Seen
        <4> QED  BY <2>5, <4>1
      <3>2. CASE w \in Wrote(p)
        <4>1. \/ WidgetCreated(kind, args, copy, w, db[w], db'[w])
              \/ WidgetEdited(kind, copy, overwritten, w, db[w], db'[w])
          BY <2>1, <2>2, <3>2 DEF Lasting, WidgetKept
        <4>2. CASE WidgetCreated(kind, args, copy, w, db[w], db'[w])
          <5>1. copy[b].there /\ kind = "create_widget" /\ b = Base(args.with.base)
            BY <4>2 DEF WidgetCreated
          <5>2. b \in DOMAIN copy  BY <2>1, <5>1 DEF Asked, ChatbotAsked
          <5> QED  BY <2>1, <5>1, <5>2
        <4>3. CASE WidgetEdited(kind, copy, overwritten, w, db[w], db'[w])
          <5>1. w \in DOMAIN copy /\ copy[w].there /\ db'[w].base = copy[w].base
            BY <4>3 DEF WidgetEdited
          <5> QED  BY <2>1, <2>5, <5>1
        <4> QED  BY <4>1, <4>2, <4>3
      <3> QED  BY <3>1, <3>2
    <2>7. CASE b \notin Wrote(p)  BY <2>1, <2>4, <2>6, <2>7 DEF Seen
    <2>8. CASE b \in Wrote(p) /\ ~db'[b].there
      <3>1. kind = "delete_base" /\ b = Base(args.on)
            /\ ~(copy[w].there /\ copy[w].base = args.on)
        BY <2>1, <2>4, <2>8 DEF Lasting, BaseKept, BaseDeleted
      <3>2. args.on = db'[w].base  BY <3>1 DEF Base
      <3>3. w \in DOMAIN copy /\ db[w] = copy[w]
        <4>1. WidgetRows \subseteq Known(p)  BY <2>1, <3>1 DEF Asked, ChatbotAsked
        <4> QED  BY <2>1, <4>1
      <3>4. ~(db[w].there /\ db[w].base = db'[w].base)  BY <3>1, <3>2, <3>3
      <3>5. w \in Wrote(p)  BY <2>1, <2>2, <3>4 DEF Seen
      <3>6. WidgetEdited(kind, copy, overwritten, w, db[w], db'[w])
        BY <2>1, <2>2, <3>1, <3>5 DEF Lasting, WidgetKept, WidgetCreated
      <3>7. copy[w].there /\ db'[w].base = copy[w].base  BY <3>6 DEF WidgetEdited
      <3> QED  BY <3>3, <3>4, <3>7
    <2> QED  BY <2>7, <2>8
  <1>3. CASE UNCHANGED vars  BY <1>1, <1>3 DEF vars, uowVars, dbVars
  <1>4. ASSUME NEW p \in Requests, NotCommitting(p), unseen' = unseen  PROVE BasesHold'
    BY <1>1, <1>4, NothingCommitted
  <1> QED  BY <1>2, <1>3, <1>4, ConsoleMoves

(* What refers to an assistant's model, to a widget, to a conversation and, *)
(* but for a deletion that overlaps a creation, to a knowledge base, refers *)
(* to what is there: a key the database checks waits for whoever is         *)
(* deleting, a check of the code's own does not                             *)
(* (manage_model_configuration.py, manage_chat_widget.py,                   *)
(* manage_conversation.py).                                                 *)
THEOREM ReferencesAreKept == Spec => []ReferencesHold
  <1>1. Init => BasesHold
    <2> SUFFICES ASSUME Init PROVE BasesHold  OBVIOUS
    <2>1. PICK s \in Scenes : DbInit(s.rows)  BY DEF Init
    <2>2. db = s.rows /\ Referring(s.rows, {})  BY <2>1, ScenesAssumption DEF DbInit
    <2> QED  BY <2>2 DEF Referring, BasesHold
  <1>2. IInv /\ RefInv /\ BasesHold => ReferencesHold
    <2> SUFFICES ASSUME IInv, RefInv, BasesHold PROVE Referring(db, unseen)
      BY DEF ReferencesHold
    <2>1. ASSUME NEW a \in AssistantRows, db[a].status # "absent"
          PROVE  db[ModelGrant(db[a].model)].there
      <3>1. a \in Rows /\ ValuesOf(a) = AssistantValues
        BY CatalogueRowsAre DEF AssistantRows
      <3>2. db[a].model \in Models
        <4>1. DbOk  BY DEF IInv
        <4>2. db[a] \in AssistantValues  BY <3>1, <4>1 DEF DbOk
        <4>3. \A v : v \in AssistantValues => v.model \in Models
          BY ONLY DEF AssistantValues
        <4> QED  BY <4>2, <4>3
      <3>3. ModelGrant(db[a].model) \in Rows  BY <3>2, CatalogueRowsAre
      <3>4. Refers(a, db[a], ModelGrant(db[a].model))  BY <2>1 DEF Refers
      <3> QED  BY <3>1, <3>3, <3>4 DEF RefInv
    <2>2. ASSUME NEW w \in Widgets, db[Visit(w)] \/ (\E n \in RatingRows : db[n] = w)
          PROVE  db[Widget(w)].there
      <3>1. Widget(w) \in Rows /\ Visit(w) \in Rows /\ db[Visit(w)] \in BOOLEAN
        BY ChatbotRowsAre DEF IInv, DbOk
      <3>2. CASE db[Visit(w)]
        <4>1. db[Visit(w)] = TRUE  BY <3>1, <3>2
        <4>3. \A v : v = TRUE => Refers(Visit(w), v, Widget(w))  BY DEF Refers
        <4>2. Refers(Visit(w), db[Visit(w)], Widget(w))  BY <4>1, <4>3
        <4> QED  BY <3>1, <4>2 DEF RefInv
      <3>3. CASE \E n \in RatingRows : db[n] = w
        <4>1. PICK n \in RatingRows : db[n] = w  BY <3>3
        <4>2. Refers(n, db[n], Widget(w))  BY <4>1 DEF Refers
        <4> QED  BY <3>1, <4>2, TableRows DEF RefInv
      <3> QED  BY <2>2, <3>2, <3>3
    <2>3. ASSUME NEW v \in Conversations, NEW x \in MessagesOf(v), db[x]
          PROVE  db[Conversation(v)].there
      <3>1. Conversation(v) \in Rows /\ x \in Rows /\ db[x] \in BOOLEAN
        BY DialogueRowsAre DEF IInv, DbOk, MessagesOf
      <3>2. db[x] = TRUE  BY <2>3, <3>1
      <3>3. Refers(x, db[x], Conversation(v))  BY <3>2 DEF Refers
      <3> QED  BY <3>1, <3>3 DEF RefInv
    <2> QED  BY <2>1, <2>2, <2>3 DEF Referring, BasesHold
  <1> QED
    BY <1>1, <1>2, ReferencesStart, ReferencesKept, BasesKept, ConsoleInvariant, PTL DEF Spec

-----------------------------------------------------------------------------
(* The roof is as high as the plan and as every copy of it; what is set     *)
(* under the plan is below it, committed and as it was read.                *)
Under(plan) == plan.widgets <= roof.widgets /\ plan.bases <= roof.bases /\ plan.daily <= roof.daily

RoofInv ==
    /\ roof \in PlanValues
    /\ Under(db[Plan])
    /\ \A w \in WidgetRows : db[w].there => db[w].cap <= roof.daily
    /\ db[Settings].limit <= roof.daily
    /\ \A p \in Requests :
          /\ Plan \in DOMAIN req[p].copy => Under(req[p].copy[Plan])
          /\ \A w \in WidgetRows \cap DOMAIN req[p].copy :
                 req[p].copy[w].there => req[p].copy[w].cap <= roof.daily
          /\ Settings \in DOMAIN req[p].copy => req[p].copy[Settings].limit <= roof.daily

LEMMA LargerOf ==
  ASSUME NEW a \in Nat, NEW b \in Nat
  PROVE  MaxOf({a, b}) \in {a, b} /\ a <= MaxOf({a, b}) /\ b <= MaxOf({a, b})
  <1>1. \E n \in {a, b} : \A k \in {a, b} : k <= n
    <2>1. CASE a <= b  BY <2>1
    <2>2. CASE b <= a  BY <2>2
    <2> QED  BY <2>1, <2>2
  <1> QED  BY <1>1 DEF MaxOf

LEMMA LimitsAreNumbers ==
  /\ \A x \in PlanValues : x.widgets \in Nat /\ x.bases \in Nat /\ x.daily \in Nat
  /\ \A w \in WidgetRows : w \in Rows /\ w[1] = "widget" /\ \A x \in ValuesOf(w) : x.cap \in Nat
  /\ Settings \in Rows /\ Settings[1] = "settings" /\ \A x \in ValuesOf(Settings) : x.limit \in Nat
  /\ Plan \in Rows /\ Plan[1] = "plan" /\ ValuesOf(Plan) = PlanValues
  <1>1. \A x \in PlanValues : x.widgets \in Nat /\ x.bases \in Nat /\ x.daily \in Nat
    BY ChatbotAssumption DEF PlanValues
  <1>2. \A x \in WidgetValues : x.cap \in Nat  BY ChatbotAssumption DEF WidgetValues
  <1>3. \A x \in SettingsValues : x.limit \in Nat  BY ChatbotAssumption DEF SettingsValues
  <1>4. \A w \in WidgetRows : w \in Rows /\ w[1] = "widget" /\ ValuesOf(w) = WidgetValues
    BY ChatbotRowsAre DEF WidgetRows
  <1> QED  BY <1>1, <1>2, <1>3, <1>4, ChatbotRowsAre

LEMMA RoofStarts == Init => RoofInv
  <1> SUFFICES ASSUME Init PROVE RoofInv  OBVIOUS
  <1>1. PICK s \in Scenes : DbInit(s.rows) /\ UowInit(s.already) /\ roof = s.rows[Plan]
    BY DEF Init
  <1>2. /\ db = s.rows /\ roof = db[Plan] /\ Within(db, roof, {}) /\ db[Settings].limit <= roof.daily
    BY <1>1, ScenesAssumption DEF DbInit
  <1>3. roof \in PlanValues
    BY <1>1, ConsoleAssumption, LimitsAreNumbers
  <1>4. Under(db[Plan])  BY <1>2, <1>3, LimitsAreNumbers DEF Under
  <1>5. \A w \in WidgetRows : db[w].there => db[w].cap <= roof.daily
    BY <1>2 DEF Within, There
  <1>6. \A p \in Requests : DOMAIN req[p].copy = {}
    BY <1>1 DEF UowInit, Idle, NoRows
  <1> QED  BY <1>2, <1>3, <1>4, <1>5, <1>6 DEF RoofInv

(* A request's copies are as low as what is committed. *)
CopiesUnder(p) ==
    /\ Plan \in DOMAIN req[p].copy => Under(req[p].copy[Plan])
    /\ \A w \in WidgetRows \cap DOMAIN req[p].copy :
           req[p].copy[w].there => req[p].copy[w].cap <= roof.daily
    /\ Settings \in DOMAIN req[p].copy => req[p].copy[Settings].limit <= roof.daily

LEMMA CopiesMove ==
  ASSUME IInv, NEW p \in Requests, NotCommitting(p), NEW q \in Requests, NEW r \in Rows,
         r[1] \notin {"team", "message"}, r \in DOMAIN req'[q].copy
  PROVE  \/ r \in DOMAIN req[q].copy /\ req'[q].copy[r] = req[q].copy[r]
         \/ req'[q].copy[r] = db[r]
  <1>1. CASE q # p
    <2>1. req'[q] = req[q]  BY <1>1, NothingCommitted DEF OthersStay
    <2> QED  BY <2>1
  <1>2. CASE q = p /\ (Begun(p) \/ Abandon(p))
    <2>1. DOMAIN req'[p].copy = {}
      BY <1>2, AbandonStep DEF Begun, IInv, Idle, NoRows
    <2> QED  BY <1>2, <2>1
  <1>3. CASE q = p /\ Writing(p)
    BY <1>3 DEF Writing, Writes, Stored
  <1>4. CASE q = p /\ Read(p)
    <2>1. /\ \A x \in DOMAIN req[p].copy : req'[p].copy[x] = req[p].copy[x]
          /\ \A x \in DOMAIN req'[p].copy \ DOMAIN req[p].copy : req'[p].copy[x] = Seen(p, x)
          /\ Known(p)' = Known(p)
      BY <1>4, ReadStep DEF IInv
    <2>2. CASE r \in DOMAIN req[p].copy  BY <1>4, <2>1, <2>2
    <2>3. CASE r \notin DOMAIN req[p].copy
      <3>1. r \in Known(p)  BY <1>4, <2>1 DEF Known
      <3>2. req[p].done = FALSE
        BY <2>3, <3>1 DEF IInv, RequestOk, UowInv, RequestInv, IsRequest
      <3>3. Seen(p, r) = db[r]  BY <3>2, SeenIsCommitted
      <3> QED  BY <1>4, <2>1, <2>3, <3>3
    <2> QED  BY <2>2, <2>3
  <1> QED  BY <1>1, <1>2, <1>3, <1>4 DEF NotCommitting

LEMMA RoofRises ==
  ASSUME IInv, roof \in PlanValues, NEW p \in Requests, Commit1(p)
  PROVE  /\ roof' \in PlanValues
         /\ roof.widgets <= roof'.widgets /\ roof.bases <= roof'.bases /\ roof.daily <= roof'.daily
         /\ db'[Plan].widgets <= roof'.widgets /\ db'[Plan].bases <= roof'.bases
         /\ db'[Plan].daily <= roof'.daily
  <1>1. db'[Plan] \in PlanValues
    <2>1. db'[Plan] = Seen(p, Plan)  BY ReadOrUnseen, LimitsAreNumbers
    <2> QED  BY <2>1, SeenOk, LimitsAreNumbers
  <1>2. DOMAIN roof = {"widgets", "bases", "daily"}  BY DEF PlanValues
  <1> DEFINE up(a, b) == MaxOf({a, b})
  <1>3. /\ DOMAIN roof' = {"widgets", "bases", "daily"}
        /\ roof' = [widgets |-> roof'.widgets, bases |-> roof'.bases, daily |-> roof'.daily]
        /\ roof'.widgets = up(roof.widgets, db'[Plan].widgets)
        /\ roof'.bases = up(roof.bases, db'[Plan].bases)
        /\ roof'.daily = up(roof.daily, db'[Plan].daily)
    BY <1>2 DEF Commit1
  <1>4. /\ roof.widgets \in Limits /\ roof.bases \in Limits /\ roof.daily \in Limits
        /\ db'[Plan].widgets \in Limits /\ db'[Plan].bases \in Limits /\ db'[Plan].daily \in Limits
    BY <1>1 DEF PlanValues
  <1>5. \A a \in Limits, b \in Limits : up(a, b) \in Limits /\ a <= up(a, b) /\ b <= up(a, b)
    <2> SUFFICES ASSUME NEW a \in Limits, NEW b \in Limits
                 PROVE  up(a, b) \in Limits /\ a <= up(a, b) /\ b <= up(a, b)
      OBVIOUS
    <2>1. a \in Nat /\ b \in Nat  BY ChatbotAssumption
    <2> QED  BY <2>1, LargerOf
  <1> HIDE DEF up
  <1>6. roof' \in PlanValues  BY <1>3, <1>4, <1>5 DEF PlanValues
  <1> QED  BY <1>3, <1>4, <1>5, <1>6

LEMMA RoofCommits ==
  ASSUME IInv, RoofInv, NEW p \in Requests, Commit1(p)
  PROVE  RoofInv'
  <1> DEFINE kind == req[p].kind
             copy == req[p].copy
  <1>1. /\ roof' \in PlanValues /\ roof \in PlanValues
        /\ roof.widgets <= roof'.widgets /\ roof.bases <= roof'.bases /\ roof.daily <= roof'.daily
        /\ Under(db[Plan])'
    BY RoofRises DEF RoofInv, Under
  <1>2. /\ \A r \in Rows : db'[r] = Seen(p, r)
        /\ \A r \in Wrote(p) :
              Lasting(kind, req[p].args, copy, overwritten, r, db[r], db'[r])
        /\ req[p].done /\ Known(p) \subseteq DOMAIN copy
        /\ Asked(kind, req[p].args, Known(p))
    BY ReadOrUnseen DEF IInv, RequestOk
  <1>3. Plan \in DOMAIN copy => copy[Plan] \in PlanValues /\ copy[Plan].daily <= roof.daily
    BY LimitsAreNumbers DEF IInv, RequestOk, RoofInv, Under
  <1>4. roof.daily \in Nat /\ roof'.daily \in Nat
        /\ (Plan \in DOMAIN copy => copy[Plan].daily \in Nat)
    BY <1>1, <1>3, LimitsAreNumbers
  <1>5. ASSUME NEW w \in WidgetRows, db'[w].there  PROVE db'[w].cap <= roof'.daily
    <2>1. w \in Rows /\ w[1] = "widget"  BY LimitsAreNumbers
    <2>2. db'[w].cap \in Nat /\ db[w].cap \in Nat
      <3>1. db'[w] \in ValuesOf(w)  BY <1>2, <2>1, SeenOk
      <3>2. db[w] \in ValuesOf(w)  BY <2>1 DEF IInv, DbOk
      <3> QED  BY <3>1, <3>2, LimitsAreNumbers
    <2>3. CASE w \notin Wrote(p)
      <3>1. db'[w] = db[w]  BY <1>2, <2>1, <2>3 DEF Seen
      <3>2. db[w].cap <= roof.daily  BY <1>5, <3>1 DEF RoofInv
      <3> QED  BY <1>1, <1>4, <2>2, <3>1, <3>2
    <2>4. CASE w \in Wrote(p)
      <3>1. \/ WidgetCreated(kind, req[p].args, copy, w, db[w], db'[w])
            \/ WidgetEdited(kind, copy, overwritten, w, db[w], db'[w])
        BY <1>2, <1>5, <2>1, <2>4 DEF Lasting, WidgetKept
      <3>2. \/ Plan \in DOMAIN copy /\ db'[w].cap <= copy[Plan].daily
            \/ w \in DOMAIN copy /\ copy[w].there /\ db'[w].cap = copy[w].cap
        <4>1. CASE WidgetCreated(kind, req[p].args, copy, w, db[w], db'[w])
          BY <1>2, <4>1 DEF WidgetCreated, Asked, ChatbotAsked
        <4>2. CASE WidgetEdited(kind, copy, overwritten, w, db[w], db'[w])
          BY <4>2 DEF WidgetEdited
        <4> QED  BY <3>1, <4>1, <4>2
      <3>3. CASE Plan \in DOMAIN copy /\ db'[w].cap <= copy[Plan].daily
        <4> HIDE DEF copy
        <4> QED  BY <1>1, <1>3, <1>4, <2>2, <3>3
      <3>4. CASE w \in DOMAIN copy /\ copy[w].there /\ db'[w].cap = copy[w].cap
        <4>1. copy[w].cap <= roof.daily  BY <3>4 DEF RoofInv
        <4> HIDE DEF copy
        <4> QED  BY <1>1, <1>4, <2>2, <3>4, <4>1
      <3> QED  BY <3>2, <3>3, <3>4
    <2> QED  BY <2>3, <2>4
  <1>6. db'[Settings].limit <= roof'.daily
    <2>1. db'[Settings].limit \in Nat /\ db[Settings].limit \in Nat
      <3>1. db'[Settings] \in ValuesOf(Settings)  BY <1>2, LimitsAreNumbers, SeenOk
      <3>2. db[Settings] \in ValuesOf(Settings)  BY LimitsAreNumbers DEF IInv, DbOk
      <3> QED  BY <3>1, <3>2, LimitsAreNumbers
    <2>2. CASE Settings \notin Wrote(p)
      <3>1. db'[Settings] = db[Settings]  BY <1>2, <2>2, LimitsAreNumbers DEF Seen
      <3>2. db[Settings].limit <= roof.daily  BY DEF RoofInv
      <3> QED  BY <1>1, <1>4, <2>1, <3>1, <3>2
    <2>3. CASE Settings \in Wrote(p)
      <3>1. \/ Settings \in DOMAIN copy /\ db'[Settings].limit = copy[Settings].limit
            \/ Plan \in DOMAIN copy /\ db'[Settings].limit <= copy[Plan].daily
        BY <1>2, <2>3, LimitsAreNumbers DEF Lasting, SettingsKept
      <3>2. Settings \in DOMAIN copy => copy[Settings].limit <= roof.daily  BY DEF RoofInv
      <3> HIDE DEF copy
      <3> QED  BY <1>1, <1>3, <1>4, <2>1, <3>1, <3>2
    <2> QED  BY <2>2, <2>3
  <1>7. ASSUME NEW q \in Requests  PROVE CopiesUnder(q)'
    <2>1. CASE q = p
      <3>1. DOMAIN req'[p].copy = {}
        BY CommitStep DEF Commit1, IInv, Idle, NoRows
      <3> QED  BY <2>1, <3>1 DEF CopiesUnder
    <2>2. CASE q # p
      <3>1. req'[q] = req[q]
        BY <2>2, CommitStep DEF Commit1, IInv, OthersStay
      <3>2. CopiesUnder(q)  BY DEF RoofInv, CopiesUnder
      <3>3. \A r \in DOMAIN req[q].copy : req[q].copy[r] \in ValuesOf(r)
        BY DEF IInv, RequestOk
      <3>4. Plan \in DOMAIN req[q].copy => Under(req[q].copy[Plan])'
        <4> SUFFICES ASSUME Plan \in DOMAIN req[q].copy PROVE Under(req[q].copy[Plan])'  OBVIOUS
        <4>1. req[q].copy[Plan] \in PlanValues /\ Under(req[q].copy[Plan])
          BY <3>2, <3>3, LimitsAreNumbers DEF CopiesUnder
        <4> DEFINE plan == req[q].copy[Plan]
        <4>2. plan \in PlanValues /\ Under(plan) /\ plan' = plan  BY <3>1, <4>1
        <4> HIDE DEF plan
        <4>3. Under(plan)'
          BY <1>1, <4>2, LimitsAreNumbers DEF Under
        <4> QED  BY <4>3 DEF plan
      <3>5. \A w \in WidgetRows \cap DOMAIN req[q].copy :
               req[q].copy[w].there => req[q].copy[w].cap <= roof'.daily
        BY <1>1, <1>4, <3>2, <3>3, LimitsAreNumbers DEF CopiesUnder
      <3>6. Settings \in DOMAIN req[q].copy => req[q].copy[Settings].limit <= roof'.daily
        BY <1>1, <1>4, <3>2, <3>3, LimitsAreNumbers DEF CopiesUnder
      <3> QED  BY <3>1, <3>4, <3>5, <3>6 DEF CopiesUnder
    <2> QED  BY <2>1, <2>2
  <1> QED  BY <1>1, <1>5, <1>6, <1>7 DEF RoofInv, CopiesUnder

LEMMA RoofKept == IInv /\ RoofInv /\ [Next]_vars => RoofInv'
  <1> SUFFICES ASSUME IInv, RoofInv, [Next]_vars PROVE RoofInv'  OBVIOUS
  <1>1. CASE UNCHANGED vars
    BY <1>1 DEF vars, uowVars, dbVars, RoofInv, Under
  <1>2. ASSUME NEW p \in Requests, NotCommitting(p), roof' = roof  PROVE RoofInv'
    <2>1. db' = db  BY <1>2, NothingCommitted
    <2>2. ASSUME NEW q \in Requests  PROVE CopiesUnder(q)'
      <3>1. CopiesUnder(q)  BY DEF RoofInv, CopiesUnder
      <3>2. Plan \in DOMAIN req'[q].copy => Under(req'[q].copy[Plan])
        BY <1>2, <3>1, CopiesMove, LimitsAreNumbers DEF RoofInv, CopiesUnder
      <3>3. \A w \in WidgetRows \cap DOMAIN req'[q].copy :
               req'[q].copy[w].there => req'[q].copy[w].cap <= roof.daily
        BY <1>2, <3>1, CopiesMove, LimitsAreNumbers DEF RoofInv, CopiesUnder
      <3>4. Settings \in DOMAIN req'[q].copy => req'[q].copy[Settings].limit <= roof.daily
        BY <1>2, <3>1, CopiesMove, LimitsAreNumbers DEF RoofInv, CopiesUnder
      <3> QED  BY <1>2, <3>2, <3>3, <3>4 DEF CopiesUnder, Under
    <2> QED  BY <1>2, <2>1, <2>2 DEF RoofInv, CopiesUnder, Under
  <1> QED  BY <1>1, <1>2, RoofCommits, ConsoleMoves

-----------------------------------------------------------------------------
(* The counts, as long as no row counted was changed under a reader.        *)
CountInv ==
    /\ WidgetRows \cap unseen = {} => Cardinality(There(db, WidgetRows)) <= roof.widgets
    /\ BaseRows \cap unseen = {} => Cardinality(There(db, BaseRows)) <= roof.bases
    /\ RatingRows \cap unseen = {} =>
           \A w \in Widgets : Cardinality({n \in RatingRows : db[n] = w}) <= MaxFeedback

LEMMA TablesAreFinite ==
  IsFiniteSet(WidgetRows) /\ IsFiniteSet(BaseRows) /\ IsFiniteSet(RatingRows)
  <1>1. [w \in Widgets |-> Widget(w)] \in Surjection(Widgets, WidgetRows)
    BY DEF Surjection, WidgetRows
  <1>2. [b \in Bases |-> Base(b)] \in Surjection(Bases, BaseRows)
    BY DEF Surjection, BaseRows
  <1>3. [n \in Ratings |-> Rating(n)] \in Surjection(Ratings, RatingRows)
    BY DEF Surjection, RatingRows
  <1> QED  BY <1>1, <1>2, <1>3, FS_Surjection, ChatbotAssumption

(* One more than fewer than a limit is within it. *)
LEMMA OneMoreFits ==
  ASSUME NEW S, IsFiniteSet(S), NEW x, NEW T \in SUBSET (S \cup {x}),
         NEW limit \in Nat, MayCreate(Cardinality(S), limit)
  PROVE  Cardinality(T) <= limit
  <1>1. Cardinality(S) \in Nat /\ Cardinality(S) < limit
    BY FS_CardinalityType DEF MayCreate
  <1>2. /\ IsFiniteSet(S \cup {x})
        /\ Cardinality(S \cup {x}) = IF x \in S THEN Cardinality(S) ELSE Cardinality(S) + 1
    BY FS_AddElement
  <1>3. IsFiniteSet(S \cup {x}) /\ Cardinality(S \cup {x}) <= Cardinality(S) + 1
    BY <1>1, <1>2
  <1>4. Cardinality(T) <= Cardinality(S \cup {x}) /\ Cardinality(T) \in Nat
        /\ Cardinality(S \cup {x}) \in Nat
    BY <1>3, FS_Subset, FS_CardinalityType
  <1> QED  BY <1>1, <1>3, <1>4, SMT

LEMMA NoMoreFits ==
  ASSUME NEW S, IsFiniteSet(S), NEW T \in SUBSET S, NEW limit \in Nat, NEW more \in Nat,
         Cardinality(S) <= limit, limit <= more
  PROVE  Cardinality(T) <= more
  <1>1. /\ Cardinality(T) <= Cardinality(S) /\ Cardinality(S) \in Nat /\ Cardinality(T) \in Nat
    BY FS_Subset, FS_CardinalityType
  <1> QED  BY <1>1

LEMMA CountsCommitted ==
  ASSUME IInv, RoofInv, CountInv, NEW p \in Requests, Commit1(p)
  PROVE  CountInv'
  <1> DEFINE kind == req[p].kind
             args == req[p].args
             copy == req[p].copy
  <1>1. /\ \A r \in Rows : db'[r] = Seen(p, r)
        /\ \A r \in Wrote(p) : Lasting(kind, args, copy, overwritten, r, db[r], db'[r])
        /\ Known(p) \subseteq DOMAIN copy /\ unseen \subseteq unseen'
        /\ \A r \in DOMAIN copy : r \notin unseen' => db[r] = copy[r]
        /\ Asked(kind, args, Known(p))
    BY ReadOrUnseen DEF IInv, RequestOk
  <1>2. /\ roof.widgets \in Nat /\ roof'.widgets \in Nat /\ roof.widgets <= roof'.widgets
        /\ roof.bases \in Nat /\ roof'.bases \in Nat /\ roof.bases <= roof'.bases
    BY RoofRises, LimitsAreNumbers DEF RoofInv
  <1>3. Plan \in DOMAIN copy =>
            /\ copy[Plan].widgets \in Nat /\ copy[Plan].widgets <= roof.widgets
            /\ copy[Plan].bases \in Nat /\ copy[Plan].bases <= roof.bases
    BY LimitsAreNumbers DEF IInv, RequestOk, RoofInv, Under
  <1> HIDE DEF kind, args, copy
  <1>4. ASSUME WidgetRows \cap unseen' = {}
        PROVE  Cardinality(There(db', WidgetRows)) <= roof'.widgets
    <2>1. WidgetRows \cap unseen = {}  BY <1>1, <1>4
    <2>2. \A w \in WidgetRows : w \in Rows /\ w[1] = "widget"  BY LimitsAreNumbers
    <2>3. IsFiniteSet(There(db, WidgetRows))
      BY TablesAreFinite, FS_Subset DEF There
    <2>4. CASE There(db', WidgetRows) \subseteq There(db, WidgetRows)
      <3>1. Cardinality(There(db, WidgetRows)) <= roof.widgets  BY <2>1 DEF CountInv
      <3> QED  BY <1>2, <2>3, <2>4, <3>1, NoMoreFits
    <2>5. CASE \E w \in WidgetRows : db'[w].there /\ ~db[w].there
      <3>1. ASSUME NEW w \in WidgetRows, db'[w].there, ~db[w].there
            PROVE  WidgetCreated(kind, args, copy, w, db[w], db'[w])
        <4>1. w \in Wrote(p)  BY <1>1, <2>2, <3>1 DEF Seen
        <4> QED  BY <1>1, <2>2, <3>1, <4>1 DEF Lasting, WidgetKept, WidgetEdited
      <3>2. /\ kind = "create_widget"
            /\ MayCreate(CountIn(copy, WidgetRows), copy[Plan].widgets)
        BY <2>5, <3>1 DEF WidgetCreated
      <3>3. There(db', WidgetRows) \subseteq There(db, WidgetRows) \cup {Widget(args.on)}
        BY <3>1 DEF WidgetCreated, There
      <3>4. Plan \in DOMAIN copy /\ WidgetRows \subseteq DOMAIN copy
        BY <1>1, <3>2 DEF Asked, ChatbotAsked
      <3>5. \A w \in WidgetRows : db[w] = copy[w]  BY <1>1, <1>4, <3>4
      <3>6. CountIn(copy, WidgetRows) = Cardinality(There(db, WidgetRows))
        <4>1. {w \in WidgetRows : copy[w].there} = {w \in WidgetRows : db[w].there}
          BY <3>5
        <4> QED  BY <4>1 DEF CountIn, There
      <3>7. Cardinality(There(db', WidgetRows)) <= copy[Plan].widgets
        BY <1>3, <2>3, <3>2, <3>3, <3>4, <3>6, OneMoreFits
      <3>8. Cardinality(There(db', WidgetRows)) \in Nat
        BY TablesAreFinite, FS_Subset, FS_CardinalityType DEF There
      <3> QED  BY <1>2, <1>3, <3>4, <3>7, <3>8
    <2> QED  BY <2>4, <2>5 DEF There
  <1>5. ASSUME BaseRows \cap unseen' = {}
        PROVE  Cardinality(There(db', BaseRows)) <= roof'.bases
    <2>1. BaseRows \cap unseen = {}  BY <1>1, <1>5
    <2>2. \A b \in BaseRows : b \in Rows /\ b[1] = "base"  BY ChatbotRowsAre DEF BaseRows
    <2>3. IsFiniteSet(There(db, BaseRows))
      BY TablesAreFinite, FS_Subset DEF There
    <2>4. CASE There(db', BaseRows) \subseteq There(db, BaseRows)
      <3>1. Cardinality(There(db, BaseRows)) <= roof.bases  BY <2>1 DEF CountInv
      <3> QED  BY <1>2, <2>3, <2>4, <3>1, NoMoreFits
    <2>5. CASE \E b \in BaseRows : db'[b].there /\ ~db[b].there
      <3>1. ASSUME NEW b \in BaseRows, db'[b].there, ~db[b].there
            PROVE  BaseCreated(kind, args, copy, b, db[b])
        <4>1. b \in Wrote(p)  BY <1>1, <2>2, <3>1 DEF Seen
        <4> QED  BY <1>1, <2>2, <3>1, <4>1 DEF Lasting, BaseKept
      <3>2. /\ kind = "create_base"
            /\ MayCreate(CountIn(copy, BaseRows), copy[Plan].bases)
        BY <2>5, <3>1 DEF BaseCreated
      <3>3. There(db', BaseRows) \subseteq There(db, BaseRows) \cup {Base(args.on)}
        BY <3>1 DEF BaseCreated, There
      <3>4. Plan \in DOMAIN copy /\ BaseRows \subseteq DOMAIN copy
        BY <1>1, <3>2 DEF Asked, ChatbotAsked
      <3>5. \A b \in BaseRows : db[b] = copy[b]  BY <1>1, <1>5, <3>4
      <3>6. CountIn(copy, BaseRows) = Cardinality(There(db, BaseRows))
        <4>1. {b \in BaseRows : copy[b].there} = {b \in BaseRows : db[b].there}
          BY <3>5
        <4> QED  BY <4>1 DEF CountIn, There
      <3>7. Cardinality(There(db', BaseRows)) <= copy[Plan].bases
        BY <1>3, <2>3, <3>2, <3>3, <3>4, <3>6, OneMoreFits
      <3>8. Cardinality(There(db', BaseRows)) \in Nat
        BY TablesAreFinite, FS_Subset, FS_CardinalityType DEF There
      <3> QED  BY <1>2, <1>3, <3>4, <3>7, <3>8
    <2> QED  BY <2>4, <2>5 DEF There
  <1>6. ASSUME RatingRows \cap unseen' = {}, NEW w \in Widgets
        PROVE  Cardinality({n \in RatingRows : db'[n] = w}) <= MaxFeedback
    <2> DEFINE of(f) == {n \in RatingRows : f[n] = w}
    <2>1. RatingRows \cap unseen = {}  BY <1>1, <1>6
    <2>2. \A n \in RatingRows : n \in Rows /\ n[1] = "rating"  BY ChatbotRowsAre DEF RatingRows
    <2>3. IsFiniteSet(of(db)) /\ MaxFeedback \in Nat
      BY TablesAreFinite, FS_Subset, ChatbotAssumption
    <2>4. CASE of(db') \subseteq of(db)
      <3>1. Cardinality(of(db)) <= MaxFeedback  BY <2>1 DEF CountInv
      <3> QED  BY <2>3, <2>4, <3>1, NoMoreFits
    <2>5. CASE \E n \in RatingRows : db'[n] = w /\ db[n] # w
      <3>1. ASSUME NEW n \in RatingRows, db'[n] = w, db[n] # w
            PROVE  /\ kind = "rate_chat" /\ n = Rating(args.with) /\ w = args.on
                   /\ MayCreate(Cardinality({x \in RatingRows : copy[x] = args.on}), MaxFeedback)
        <4>1. n \in Wrote(p)  BY <1>1, <2>2, <3>1 DEF Seen
        <4> QED  BY <1>1, <2>2, <3>1, <4>1 DEF Lasting, RatingKept
      <3>2. /\ kind = "rate_chat"
            /\ MayCreate(Cardinality({x \in RatingRows : copy[x] = w}), MaxFeedback)
        BY <2>5, <3>1
      <3>3. of(db') \subseteq of(db) \cup {Rating(args.with)}
        BY <3>1
      <3>4. RatingRows \subseteq DOMAIN copy
        BY <1>1, <3>2 DEF Asked, ChatbotAsked
      <3>5. \A n \in RatingRows : db[n] = copy[n]  BY <1>1, <1>6, <3>4
      <3>6. {x \in RatingRows : copy[x] = w} = of(db)  BY <3>5
      <3> QED  BY <2>3, <3>2, <3>3, <3>6, OneMoreFits
    <2> QED  BY <2>4, <2>5
  <1> QED  BY <1>4, <1>5, <1>6 DEF CountInv

(* A tenant has no more widgets and bases, a visitor's chat no more         *)
(* ratings, than were allowed when the last was made, but for a creation    *)
(* that overlaps another; and no widget and no setting is above the plan    *)
(* whatever overlaps (guard_chat_widget_quota, guard_knowledge_base_quota,  *)
(* guard_widget_daily_limit).                                               *)
THEOREM LimitsAreKept == Spec => []LimitsNeedOverlap
  <1>1. Init => CountInv
    <2> SUFFICES ASSUME Init PROVE CountInv  OBVIOUS
    <2>1. PICK s \in Scenes : DbInit(s.rows) /\ roof = s.rows[Plan] /\ unseen = {}
      BY DEF Init
    <2>2. db = s.rows /\ Within(s.rows, s.rows[Plan], {})
      BY <2>1, ScenesAssumption DEF DbInit
    <2> QED  BY <2>1, <2>2 DEF Within, CountInv
  <1>2. IInv /\ RoofInv /\ CountInv /\ [Next]_vars => CountInv'
    <2> SUFFICES ASSUME IInv, RoofInv, CountInv, [Next]_vars PROVE CountInv'  OBVIOUS
    <2>1. CASE db' = db /\ unseen' = unseen /\ roof' = roof
      BY <2>1 DEF CountInv, There
    <2>2. CASE UNCHANGED vars  BY <2>1, <2>2 DEF vars, uowVars, dbVars
    <2>3. ASSUME NEW p \in Requests, NotCommitting(p), roof' = roof, unseen' = unseen
          PROVE  CountInv'
      BY <2>1, <2>3, NothingCommitted
    <2> QED  BY <2>2, <2>3, CountsCommitted, ConsoleMoves
  <1>3. RoofInv /\ CountInv => LimitsNeedOverlap
    BY DEF RoofInv, CountInv, LimitsNeedOverlap, Within, There
  <1> QED
    BY <1>1, <1>2, <1>3, RoofStarts, RoofKept, ConsoleInvariant, PTL DEF Spec
-----------------------------------------------------------------------------
(* A conversation's messages have the numbers from 1 up: those committed,   *)
(* and those a request sees. *)
ThreadOf(v) == db[Conversation(v)]
Sent(v) == {n \in Seqs : db[Message(v, n)]}
SeenOf(p, v) == {n \in Seqs : Seen(p, Message(v, n))}
Upto(S) == S = 1..Cardinality(S)

(* The summary is of the messages up to `through`; of all but the last few. *)
Summed(thread, sent) ==
    /\ thread.owner # Nobody
    /\ thread.folded = 1..thread.through
    /\ thread.through <= Cardinality(sent)
Fresh(thread, sent) == Cardinality(sent) <= thread.through + CompactAfter

(* The messages of v that p has written are an exchange, or what was left   *)
(* of a conversation that p deletes. *)
Exchanged(p, v) ==
    LET k == Cardinality(Sent(v)) IN
    /\ req[p].kind = "remember" /\ req[p].args.on = v
    /\ SeenOf(p, v) = 1..(k + 2)
    /\ Message(v, k + 1) \in Wrote(p) /\ draft[p][Message(v, k + 1)]
    /\ req[p].done => Conversation(v) \in Wrote(p)
Erased(p, v) ==
    /\ Conversation(v) \in Wrote(p) /\ ~draft[p][Conversation(v)].there
    /\ SeenOf(p, v) = {}

(* What is committed of v, what p has drafted of it, and p's older copy. *)
SentInv(v) ==
    /\ Upto(Sent(v))
    /\ ThreadOf(v).there =>
           /\ Summed(ThreadOf(v), Sent(v))
           /\ Conversation(v) \notin overwritten => Fresh(ThreadOf(v), Sent(v))
MessagesInv(p, v) ==
    /\ Upto(SeenOf(p, v))
    /\ MessagesOf(v) \cap Wrote(p) # {} => Exchanged(p, v) \/ Erased(p, v)
DraftedInv(p, v) ==
    Conversation(v) \in Wrote(p) =>
        LET thread == draft[p][Conversation(v)] IN
        /\ ThreadOf(v).owner # Nobody => thread.owner # Nobody
        /\ thread.there =>
               /\ Summed(thread, SeenOf(p, v))
               /\ Conversation(v) \notin overwritten => Fresh(thread, SeenOf(p, v))
               /\ ThreadOf(v).owner # Nobody => ThreadOf(v).there
CopiedInv(p, v) ==
    Conversation(v) \in DOMAIN req[p].copy =>
        LET thread == Copy(p, Conversation(v)) IN
        thread.there =>
            /\ thread.owner # Nobody /\ ThreadOf(v).owner # Nobody
            /\ thread.folded = 1..thread.through
            /\ ThreadOf(v).there => thread.through <= Cardinality(Sent(v))
MemInv ==
    \A v \in Conversations :
        /\ SentInv(v)
        /\ \A p \in Requests : MessagesInv(p, v) /\ DraftedInv(p, v) /\ CopiedInv(p, v)

(* Numbers one after another. *)
LEMMA HowMany ==
  ASSUME NEW a \in Nat, NEW b \in Nat, a <= b
  PROVE  IsFiniteSet((a + 1)..b) /\ Cardinality((a + 1)..b) = b - a
  <1>1. a + 1 \in Int /\ b \in Int  OBVIOUS
  <1>2. /\ IsFiniteSet((a + 1)..b)
        /\ Cardinality((a + 1)..b) = IF a + 1 > b THEN 0 ELSE b - (a + 1) + 1
    BY <1>1, FS_Interval
  <1> QED  BY <1>2

LEMMA HowManyUpto ==
  ASSUME NEW k \in Nat
  PROVE  Cardinality(1..k) = k /\ Upto(1..k)
  <1>1. 0 \in Nat /\ 0 <= k /\ 0 + 1 = 1 /\ k - 0 = k  OBVIOUS
  <1>2. Cardinality((0 + 1)..k) = k - 0  BY <1>1, HowMany
  <1>3. Cardinality(1..k) = k  BY <1>1, <1>2
  <1> QED  BY <1>3 DEF Upto

LEMMA TailIs ==
  ASSUME NEW S \in SUBSET Seqs, Upto(S), NEW t \in Nat, t <= Cardinality(S)
  PROVE  /\ {n \in S : n > t} = (t + 1)..Cardinality(S)
         /\ Cardinality({n \in S : n > t}) = Cardinality(S) - t
         /\ S \ {n \in S : n > t} = 1..t
  <1>1. Cardinality(S) \in Nat  BY SeqsAreFinite
  <1> DEFINE k == Cardinality(S)
  <1>2. S = 1..k /\ k \in Nat /\ t <= k  BY <1>1 DEF Upto
  <1> HIDE DEF k
  <1>3. {n \in S : n > t} = (t + 1)..k
    <2>1. \A n : n \in S /\ n > t <=> n \in (t + 1)..k  BY <1>2
    <2> QED  BY <2>1
  <1>4. S \ {n \in S : n > t} = 1..t
    <2>1. \A n : n \in S /\ ~(n > t) <=> n \in 1..t  BY <1>2
    <2> QED  BY <2>1
  <1>5. Cardinality((t + 1)..k) = k - t  BY <1>2, HowMany
  <1> QED  BY <1>3, <1>4, <1>5 DEF k

LEMMA OlderIs ==
  ASSUME NEW t \in Nat, NEW m \in Nat, m <= MaxSeq, m - t > CompactAfter
  PROVE  /\ Older((t + 1)..m) = (t + 1)..(m - RecentTurns)
         /\ MaxOf(Older((t + 1)..m)) = m - RecentTurns
         /\ m - RecentTurns \in Nat /\ t < m - RecentTurns
  <1>1. /\ RecentTurns \in Nat /\ RecentTurns # 0 /\ CompactAfter \in Nat
        /\ RecentTurns <= CompactAfter /\ MaxSeq \in Nat
    BY DialogueAssumption
  <1>2. m - RecentTurns \in Nat /\ t < m - RecentTurns  BY <1>1
  <1>3. ASSUME NEW n \in (t + 1)..m
        PROVE  Cardinality({k \in (t + 1)..m : k > n}) = m - n
    <2>1. {k \in (t + 1)..m : k > n} = (n + 1)..m
      <3>1. n \in Nat /\ n > t  BY <1>3
      <3>2. \A k : k \in (t + 1)..m /\ k > n <=> k \in (n + 1)..m  BY <3>1
      <3> QED  BY <3>2
    <2>2. n \in Nat /\ n <= m  BY <1>3
    <2> QED  BY <2>1, <2>2, HowMany
  <1>4. Older((t + 1)..m) = (t + 1)..(m - RecentTurns)
    <2>1. Older((t + 1)..m) = {n \in (t + 1)..m : m - n >= RecentTurns}
      BY <1>3 DEF Older
    <2>2. \A n : n \in (t + 1)..m /\ m - n >= RecentTurns <=> n \in (t + 1)..(m - RecentTurns)
      BY <1>1
    <2> QED  BY <2>1, <2>2
  <1>5. MaxOf(Older((t + 1)..m)) = m - RecentTurns
    <2> DEFINE older == (t + 1)..(m - RecentTurns)
    <2>1. older \in SUBSET Seqs /\ m - RecentTurns \in older
      BY <1>1, <1>2 DEF Seqs
    <2>2. MaxOf(older) \in older /\ \A y \in older : y <= MaxOf(older)
      <3> HIDE DEF older
      <3> QED  BY <2>1, LargestSeq
    <2>3. MaxOf(older) <= m - RecentTurns /\ m - RecentTurns <= MaxOf(older)
      BY <2>1, <2>2
    <2>4. MaxOf(older) \in Int  BY <2>2
    <2>5. MaxOf(older) = m - RecentTurns  BY <1>2, <2>3, <2>4
    <2> QED  BY <1>4, <2>5
  <1> QED  BY <1>2, <1>4, <1>5

(* compact: the summary then reaches to the recent turns. *)
LEMMA CompactedFits ==
  ASSUME NEW thread \in ConversationValues, thread.folded = 1..thread.through,
         NEW S \in SUBSET Seqs, Upto(S), thread.through <= Cardinality(S),
         NEW tail, tail = {n \in S : n > thread.through}
  PROVE  /\ Compacted(thread, tail).folded = 1..Compacted(thread, tail).through
         /\ Compacted(thread, tail).through <= Cardinality(S)
         /\ Cardinality(S) <= Compacted(thread, tail).through + CompactAfter
  <1> DEFINE t == thread.through
             m == Cardinality(S)
             c == Compacted(thread, tail)
  <1>1. /\ RecentTurns \in Nat /\ CompactAfter \in Nat /\ RecentTurns <= CompactAfter
        /\ MaxSeq \in Nat
    BY DialogueAssumption
  <1>2. t \in Nat /\ m \in Nat /\ t <= m /\ thread.folded = 1..t
    BY <1>1, SeqsAreFinite DEF ConversationValues, Seqs
  <1>3. tail = (t + 1)..m /\ Cardinality(tail) = m - t /\ tail \in SUBSET Seqs
    BY <1>2, TailIs
  <1>4. m <= MaxSeq
    <2>1. CASE m = 0  BY <1>1, <2>1
    <2>2. CASE m # 0
      <3>1. m \in 1..m  BY <1>2, <2>2
      <3>2. m \in Seqs  BY <3>1 DEF Upto
      <3> QED  BY <3>2 DEF Seqs
    <2> QED  BY <2>1, <2>2
  <1>5. CASE m - t <= CompactAfter
    <2>1. c = thread  BY <1>3, <1>5, CompactedIs
    <2> HIDE DEF c, m
    <2> QED  BY <1>1, <1>2, <1>5, <2>1 DEF c, m
  <1>6. CASE m - t > CompactAfter
    <2>1. c.folded = thread.folded \cup Older(tail) /\ c.through = MaxOf(Older(tail))
      BY <1>3, <1>6, CompactedIs
    <2> HIDE DEF c, m, t
    <2>2. /\ Older(tail) = (t + 1)..(m - RecentTurns) /\ MaxOf(Older(tail)) = m - RecentTurns
          /\ m - RecentTurns \in Nat /\ t < m - RecentTurns
      BY <1>2, <1>3, <1>4, <1>6, OlderIs
    <2>3. c.through = m - RecentTurns  BY <2>1, <2>2
    <2>4. c.folded = 1..(m - RecentTurns)
      <3>1. (1..t) \cup ((t + 1)..(m - RecentTurns)) = 1..(m - RecentTurns)
        BY <1>2, <2>2
      <3> QED  BY <1>2, <2>1, <2>2, <3>1
    <2>5. c.folded = 1..c.through /\ c.through <= m /\ m <= c.through + CompactAfter
      BY <1>1, <1>2, <2>2, <2>3, <2>4
    <2> QED  BY <2>5 DEF c, m
  <1> QED  BY <1>1, <1>2, <1>5, <1>6

(* A message needs its conversation, and nobody else deletes it meanwhile. *)
LEMMA MessageNeeds ==
  ASSUME IInv, RefInv, NEW v \in Conversations, NEW n \in Seqs
  PROVE  /\ db[Message(v, n)] => ThreadOf(v).there
         /\ \A p \in Requests : Message(v, n) \in Wrote(p) /\ draft[p][Message(v, n)] =>
                /\ ThreadOf(v).there
                /\ \A q \in Requests : Conversation(v) \in Wrote(q) => draft[q][Conversation(v)].there
  <1> DEFINE m == Message(v, n)
             x == Conversation(v)
  <1>1. /\ m \in Rows /\ x \in Rows /\ m \in MessagesOf(v) /\ ValuesOf(m) = BOOLEAN
    BY DialogueRowsAre
  <1>2. Refers(m, TRUE, x)  BY <1>1 DEF Refers
  <1>3. db[m] \in BOOLEAN /\ \A p \in Requests : m \in Wrote(p) => draft[p][m] \in BOOLEAN
    BY <1>1 DEF IInv, DbOk, DraftOk
  <1> HIDE DEF m
  <1>4. db[m] => db[x].there  BY <1>1, <1>2, <1>3 DEF RefInv
  <1>5. \A p \in Requests : m \in Wrote(p) /\ draft[p][m] =>
            db[x].there /\ \A q \in Requests : x \in Wrote(q) => draft[q][x].there
    BY <1>1, <1>2, <1>3 DEF RefInv, RefersWell
  <1> QED  BY <1>4, <1>5 DEF ThreadOf, m

LEMMA SentIsFinite ==
  ASSUME NEW v, NEW p
  PROVE  /\ Sent(v) \in SUBSET Seqs /\ Cardinality(Sent(v)) \in Nat
         /\ SeenOf(p, v) \in SUBSET Seqs /\ Cardinality(SeenOf(p, v)) \in Nat
  <1>1. Sent(v) \in SUBSET Seqs /\ SeenOf(p, v) \in SUBSET Seqs  BY DEF Sent, SeenOf
  <1> QED  BY <1>1, SeqsAreFinite

LEMMA NothingWithout ==
  ASSUME IInv, RefInv, NEW v \in Conversations, ~ThreadOf(v).there
  PROVE  Sent(v) = {}
  BY MessageNeeds DEF Sent

(* Who has appended to a conversation, or deleted it, is alone in it. *)
LEMMA OneExchange ==
  ASSUME IInv, RefInv, MemInv, NEW v \in Conversations, NEW p \in Requests, NEW q \in Requests,
         p # q, MessagesOf(v) \cap Wrote(p) # {}
  PROVE  MessagesOf(v) \cap Wrote(q) = {}
  <1> SUFFICES ASSUME MessagesOf(v) \cap Wrote(q) # {}  PROVE FALSE  OBVIOUS
  <1> DEFINE k == Cardinality(Sent(v))
  <1>1. /\ Exchanged(p, v) \/ Erased(p, v)
        /\ Exchanged(q, v) \/ Erased(q, v)
    BY DEF MemInv, MessagesInv
  <1>2. \A r : ~(r \in Wrote(p) /\ r \in Wrote(q))  BY DEF IInv, UowInv, OneWriter
  <1>3. ASSUME NEW s \in Requests, Exchanged(s, v)
        PROVE  \A t \in Requests : ~Erased(t, v)
    <2>1. k \in Nat  BY SentIsFinite
    <2>2. /\ SeenOf(s, v) = 1..(k + 2) /\ SeenOf(s, v) \subseteq Seqs
          /\ Message(v, k + 1) \in Wrote(s) /\ draft[s][Message(v, k + 1)]
      BY <1>3, SentIsFinite DEF Exchanged
    <2> HIDE DEF k
    <2>3. k + 1 \in 1..(k + 2)  BY <2>1
    <2>4. k + 1 \in Seqs  BY <2>2, <2>3
    <2> QED  BY <2>2, <2>4, MessageNeeds DEF Erased
  <1>4. CASE Exchanged(p, v) /\ Exchanged(q, v)  BY <1>2, <1>4 DEF Exchanged
  <1>5. CASE Erased(p, v) /\ Erased(q, v)  BY <1>2, <1>5 DEF Erased
  <1> QED  BY <1>1, <1>3, <1>4, <1>5

(* Where p has written none of v's messages it sees the committed ones. *)
LEMMA SeenIsSent ==
  ASSUME NEW v, NEW p, MessagesOf(v) \cap Wrote(p) = {}
  PROVE  SeenOf(p, v) = Sent(v)
  <1>1. \A n \in Seqs : Message(v, n) \notin Wrote(p)  BY DEF MessagesOf
  <1> QED  BY <1>1 DEF SeenOf, Sent, Seen

LEMMA MemoryStarts == Init => MemInv
  <1> SUFFICES ASSUME Init PROVE MemInv  OBVIOUS
  <1>1. PICK s \in Scenes : DbInit(s.rows) /\ UowInit(s.already)  BY DEF Init
  <1>2. /\ db = s.rows /\ Remembering(db, {})
        /\ \A v \in Conversations : db[Conversation(v)].there =>
               /\ db[Conversation(v)].owner # Nobody
               /\ Upto(Sent(v))
               /\ db[Conversation(v)].through \in Sent(v) \cup {0}
    BY <1>1, ScenesAssumption DEF DbInit, Upto, Sent
  <1>3. \A p \in Requests : Wrote(p) = {} /\ DOMAIN req[p].copy = {}
    BY <1>1 DEF DbInit, UowInit, Wrote, Idle, NoRows
  <1>4. IInv /\ RefInv  BY ConsoleStarts, ReferencesStart
  <1>5. ASSUME NEW v \in Conversations  PROVE SentInv(v)
    <2>1. CASE ~ThreadOf(v).there
      <3>1. Sent(v) = 1..0  BY <1>4, <2>1, NothingWithout
      <3> QED  BY <2>1, <3>1, HowManyUpto DEF SentInv
    <2>2. CASE ThreadOf(v).there
      <3> DEFINE t == ThreadOf(v).through
                 S == Sent(v)
                 k == Cardinality(S)
                 rest == {n \in Seqs : db[Message(v, n)] /\ n > t}
      <3>1. /\ ThreadOf(v).owner # Nobody /\ S = 1..k /\ Upto(S) /\ t \in S \cup {0}
        BY <1>2, <2>2 DEF ThreadOf, Upto
      <3>2. ThreadOf(v).folded = S \ rest /\ Cardinality(rest) <= CompactAfter
        BY <1>2, <2>2 DEF Remembering, ThreadOf, Sent
      <3>3. rest = {n \in S : n > t}  BY DEF Sent
      <3>4. k \in Nat /\ S \in SUBSET Seqs  BY SentIsFinite
      <3> HIDE DEF t, k, S
      <3>5. t \in Nat /\ t <= k  BY <3>1, <3>4
      <3>6. Cardinality(rest) = k - t /\ S \ rest = 1..t
        BY <3>1, <3>3, <3>4, <3>5, TailIs DEF k
      <3>7. k <= t + CompactAfter  BY <3>2, <3>4, <3>5, <3>6, DialogueAssumption
      <3> QED  BY <3>1, <3>2, <3>5, <3>6, <3>7 DEF SentInv, Summed, Fresh, t, k, S
    <2> QED  BY <2>1, <2>2
  <1>6. ASSUME NEW v \in Conversations, NEW p \in Requests
        PROVE  MessagesInv(p, v) /\ DraftedInv(p, v) /\ CopiedInv(p, v)
    <2>1. SeenOf(p, v) = Sent(v)  BY <1>3, SeenIsSent
    <2> QED  BY <1>3, <1>5, <2>1 DEF MessagesInv, DraftedInv, CopiedInv, SentInv
  <1> QED  BY <1>5, <1>6 DEF MemInv

(* What is committed of a conversation is what its request saw. *)
LEMMA CommittedThread ==
  ASSUME IInv, RefInv, MemInv, NEW p \in Requests, Commit(p), NEW v \in Conversations
  PROVE  /\ Sent(v)' = SeenOf(p, v) /\ ThreadOf(v)' = Seen(p, Conversation(v))
         /\ MessagesOf(v) \cap Wrote(p) # {} => Conversation(v) \in Wrote(p)
         /\ Conversation(v) \notin Wrote(p) => Sent(v)' = Sent(v) /\ ThreadOf(v)' = ThreadOf(v)
         /\ ThreadOf(v).there /\ ThreadOf(v)'.there =>
                Cardinality(Sent(v)) <= Cardinality(Sent(v)')
  <1> DEFINE x == Conversation(v)
             k == Cardinality(Sent(v))
  <1>1. /\ \A r \in Rows : db'[r] = Seen(p, r)
        /\ req[p].done
    BY CommitStep DEF IInv, Commit
  <1>2. x \in Rows /\ \A n \in Seqs : Message(v, n) \in Rows  BY DialogueRowsAre
  <1>3. Sent(v)' = SeenOf(p, v)  BY <1>1, <1>2 DEF Sent, SeenOf
  <1>4. ThreadOf(v)' = Seen(p, x)  BY <1>1, <1>2 DEF ThreadOf
  <1>5. MessagesInv(p, v) /\ DraftedInv(p, v) /\ SentInv(v)  BY DEF MemInv
  <1>6. MessagesOf(v) \cap Wrote(p) # {} => x \in Wrote(p)
    BY <1>1, <1>5 DEF MessagesInv, Exchanged, Erased
  <1>7. ASSUME x \notin Wrote(p)  PROVE Sent(v)' = Sent(v) /\ ThreadOf(v)' = ThreadOf(v)
    BY <1>3, <1>4, <1>6, <1>7, SeenIsSent DEF Seen, ThreadOf
  <1>8. ASSUME ThreadOf(v).there, ThreadOf(v)'.there
        PROVE  k <= Cardinality(SeenOf(p, v))
    <2>1. k \in Nat  BY SentIsFinite
    <2>2. CASE MessagesOf(v) \cap Wrote(p) = {}
      BY <2>1, <2>2, SeenIsSent
    <2>3. CASE Exchanged(p, v)
      <3>1. SeenOf(p, v) = 1..(k + 2)  BY <2>3 DEF Exchanged
      <3>2. k + 2 \in Nat /\ k <= k + 2  BY <2>1
      <3> HIDE DEF k
      <3> QED  BY <3>1, <3>2, HowManyUpto
    <2>4. CASE Erased(p, v)
      BY <1>4, <1>8, <2>4 DEF Erased, Seen
    <2> QED  BY <1>5, <2>2, <2>3, <2>4 DEF MessagesInv
  <1> QED  BY <1>3, <1>4, <1>6, <1>7, <1>8

LEMMA MemoryCommitted ==
  ASSUME IInv, RefInv, MemInv, NEW p \in Requests, Commit(p)
  PROVE  MemInv'
  <1>1. /\ OthersStay(p) /\ req'[p] = Idle /\ Wrote(p)' = {} /\ overwritten' = overwritten
        /\ \A r \in Rows : db'[r] = Seen(p, r)
    BY CommitStep DEF IInv
  <1>2. \A q \in Requests \ {p} :
            req'[q] = req[q] /\ Wrote(q)' = Wrote(q) /\ draft'[q] = draft[q]
    BY <1>1 DEF OthersStay, Wrote
  <1> SUFFICES ASSUME NEW v \in Conversations
               PROVE  /\ SentInv(v)'
                      /\ \A q \in Requests :
                             MessagesInv(q, v)' /\ DraftedInv(q, v)' /\ CopiedInv(q, v)'
    BY DEF MemInv
  <1> DEFINE x == Conversation(v)
  <1>3. /\ Sent(v)' = SeenOf(p, v) /\ ThreadOf(v)' = Seen(p, x)
        /\ MessagesOf(v) \cap Wrote(p) # {} => x \in Wrote(p)
        /\ x \notin Wrote(p) => Sent(v)' = Sent(v) /\ ThreadOf(v)' = ThreadOf(v)
        /\ ThreadOf(v).there /\ ThreadOf(v)'.there =>
               Cardinality(Sent(v)) <= Cardinality(Sent(v)')
    BY CommittedThread
  <1>4. SentInv(v) /\ MessagesInv(p, v) /\ DraftedInv(p, v)  BY DEF MemInv
  <1>5. SentInv(v)'
    <2>1. CASE x \in Wrote(p)
      <3>1. ThreadOf(v)' = draft[p][x]  BY <1>3, <2>1 DEF Seen
      <3> QED  BY <1>1, <1>3, <1>4, <2>1, <3>1 DEF SentInv, MessagesInv, DraftedInv
    <2>2. CASE x \notin Wrote(p)
      BY <1>1, <1>3, <1>4, <2>2 DEF SentInv
    <2> QED  BY <2>1, <2>2
  <1>6. MessagesInv(p, v)' /\ DraftedInv(p, v)' /\ CopiedInv(p, v)'
    <2>1. SeenOf(p, v)' = Sent(v)'  BY <1>1 DEF SeenOf, Sent, Seen
    <2>2. DOMAIN req'[p].copy = {}  BY <1>1 DEF Idle, NoRows
    <2> QED  BY <1>1, <1>5, <2>1, <2>2 DEF MessagesInv, DraftedInv, CopiedInv, SentInv
  <1>7. ASSUME NEW q \in Requests \ {p}
        PROVE  MessagesInv(q, v)' /\ DraftedInv(q, v)' /\ CopiedInv(q, v)'
    <2>1. MessagesInv(q, v) /\ DraftedInv(q, v) /\ CopiedInv(q, v)  BY DEF MemInv
    <2>2. ASSUME MessagesOf(v) \cap Wrote(p) = {}
          PROVE  Sent(v)' = Sent(v) /\ SeenOf(q, v)' = SeenOf(q, v)
      <3>1. Sent(v)' = Sent(v)  BY <1>3, <2>2, SeenIsSent
      <3>2. \A n \in Seqs : db'[Message(v, n)] = db[Message(v, n)]
        BY <1>1, <2>2, DialogueRowsAre DEF Seen
      <3> QED  BY <1>2, <3>1, <3>2 DEF SeenOf, Seen
    <2>3. MessagesInv(q, v)'
      <3>1. CASE MessagesOf(v) \cap Wrote(p) = {}
        BY <1>2, <2>1, <2>2, <3>1 DEF MessagesInv, Exchanged, Erased
      <3>2. CASE MessagesOf(v) \cap Wrote(p) # {}
        <4>1. MessagesOf(v) \cap Wrote(q) = {}  BY <3>2, OneExchange
        <4>2. \A n \in Seqs : Message(v, n) \notin Wrote(q)'
          BY <1>2, <4>1 DEF MessagesOf
        <4>3. SeenOf(q, v)' = Sent(v)'  BY <4>2 DEF SeenOf, Sent, Seen
        <4>4. Upto(SeenOf(q, v)')  BY <1>3, <1>4, <4>3 DEF MessagesInv
        <4> QED  BY <1>2, <4>1, <4>4 DEF MessagesInv, Upto
      <3> QED  BY <3>1, <3>2
    <2>4. DraftedInv(q, v)'
      <3> SUFFICES ASSUME x \in Wrote(q)  PROVE DraftedInv(q, v)'
        BY <1>2 DEF DraftedInv
      <3>1. x \notin Wrote(p)  BY DEF IInv, UowInv, OneWriter
      <3>2. SeenOf(q, v)' = SeenOf(q, v) /\ ThreadOf(v)' = ThreadOf(v)
        BY <1>3, <2>2, <3>1
      <3> QED  BY <1>1, <1>2, <2>1, <3>2 DEF DraftedInv
    <2>5. CopiedInv(q, v)'
      <3> DEFINE thread == req[q].copy[x]
      <3> SUFFICES ASSUME x \in DOMAIN req[q].copy, thread.there
                   PROVE  /\ thread.owner # Nobody /\ ThreadOf(v)'.owner # Nobody
                          /\ thread.folded = 1..thread.through
                          /\ ThreadOf(v)'.there => thread.through <= Cardinality(Sent(v)')
        BY <1>2 DEF CopiedInv, Copy
      <3>1. /\ thread.owner # Nobody /\ ThreadOf(v).owner # Nobody
            /\ thread.folded = 1..thread.through
            /\ ThreadOf(v).there => thread.through <= Cardinality(Sent(v))
        BY <2>1 DEF CopiedInv, Copy
      <3>2. CASE x \notin Wrote(p)  BY <1>3, <3>1, <3>2
      <3>3. CASE x \in Wrote(p)
        <4>1. /\ ThreadOf(v)'.owner # Nobody
              /\ ThreadOf(v)'.there => ThreadOf(v).there
          BY <1>3, <1>4, <3>1, <3>3 DEF DraftedInv, Seen
        <4>2. thread.through \in Int
          <5>1. thread \in ConversationValues
            BY DialogueRowsAre DEF IInv, RequestOk
          <5> QED  BY <5>1, DialogueAssumption DEF ConversationValues, Seqs
        <4>3. Cardinality(Sent(v)) \in Nat /\ Cardinality(Sent(v)') \in Nat
          BY <1>3, SentIsFinite
        <4> HIDE DEF thread
        <4> QED  BY <1>3, <3>1, <4>1, <4>2, <4>3
      <3> QED  BY <3>2, <3>3
    <2> QED  BY <2>3, <2>4, <2>5
  <1> QED  BY <1>5, <1>6, <1>7

(* A step that commits nothing: what is committed, the copies, and what the *)
(* others have drafted. *)
LEMMA MemoryOfOthers ==
  ASSUME IInv, MemInv, NEW p \in Requests, NotCommitting(p), NEW v \in Conversations
  PROVE  /\ Sent(v)' = Sent(v) /\ ThreadOf(v)' = ThreadOf(v) /\ SentInv(v)'
         /\ \A q \in Requests : CopiedInv(q, v)'
         /\ \A q \in Requests \ {p} : MessagesInv(q, v)' /\ DraftedInv(q, v)'
  <1> DEFINE x == Conversation(v)
  <1>1. db' = db /\ OthersStay(p) /\ overwritten \subseteq overwritten' /\ x \in Rows
    BY NothingCommitted, DialogueRowsAre
  <1>2. Sent(v)' = Sent(v) /\ ThreadOf(v)' = ThreadOf(v)  BY <1>1 DEF Sent, ThreadOf
  <1>3. SentInv(v)'  BY <1>1, <1>2 DEF MemInv, SentInv
  <1>4. ASSUME NEW q \in Requests  PROVE CopiedInv(q, v)'
    <2> SUFFICES ASSUME x \in DOMAIN req'[q].copy, req'[q].copy[x].there
                 PROVE  LET thread == req'[q].copy[x] IN
                        /\ thread.owner # Nobody /\ ThreadOf(v).owner # Nobody
                        /\ thread.folded = 1..thread.through
                        /\ ThreadOf(v).there => thread.through <= Cardinality(Sent(v))
      BY <1>2 DEF CopiedInv, Copy
    <2>1. x[1] \notin {"team", "message"}  BY DialogueRowsAre
    <2>2. \/ x \in DOMAIN req[q].copy /\ req'[q].copy[x] = req[q].copy[x]
          \/ req'[q].copy[x] = db[x]
      BY <1>1, <2>1, CopiesMove
    <2>3. CASE x \in DOMAIN req[q].copy /\ req'[q].copy[x] = req[q].copy[x]
      BY <2>3 DEF MemInv, CopiedInv, Copy
    <2>4. CASE req'[q].copy[x] = db[x]
      BY <2>4 DEF MemInv, SentInv, Summed, ThreadOf
    <2> QED  BY <2>2, <2>3, <2>4
  <1>5. ASSUME NEW q \in Requests \ {p}  PROVE MessagesInv(q, v)' /\ DraftedInv(q, v)'
    <2>1. req'[q] = req[q] /\ draft'[q] = draft[q] /\ Wrote(q)' = Wrote(q)
      BY <1>1 DEF OthersStay, Wrote
    <2>2. SeenOf(q, v)' = SeenOf(q, v)  BY <1>1, <2>1 DEF SeenOf, Seen
    <2> QED
      BY <1>1, <1>2, <2>1, <2>2
         DEF MemInv, MessagesInv, DraftedInv, Exchanged, Erased
  <1> QED  BY <1>2, <1>3, <1>4, <1>5

LEMMA MemoryElsewhere ==
  ASSUME IInv, MemInv, NEW p \in Requests, Begun(p) \/ Read(p) \/ Abandon(p)
  PROVE  MemInv'
  <1> SUFFICES ASSUME NEW v \in Conversations  PROVE MessagesInv(p, v)' /\ DraftedInv(p, v)'
    BY MemoryOfOthers DEF MemInv, NotCommitting
  <1>1. db' = db /\ Sent(v)' = Sent(v) /\ ThreadOf(v)' = ThreadOf(v) /\ SentInv(v)
    BY MemoryOfOthers, NothingCommitted DEF NotCommitting, MemInv
  <1>2. CASE Begun(p) \/ Abandon(p)
    <2>1. Wrote(p)' = {}  BY <1>2, AbandonStep DEF IInv, Begun
    <2>2. SeenOf(p, v)' = Sent(v)'  BY <2>1 DEF SeenOf, Sent, Seen
    <2> QED  BY <1>1, <2>1, <2>2 DEF MessagesInv, DraftedInv, SentInv
  <1>3. CASE Read(p)
    <2>1. /\ draft' = draft /\ overwritten' = overwritten
          /\ req'[p].kind = req[p].kind /\ req'[p].args = req[p].args
          /\ req'[p].done = req[p].done
      BY <1>3, ReadStep DEF IInv
    <2>2. Wrote(p)' = Wrote(p) /\ SeenOf(p, v)' = SeenOf(p, v)
      BY <1>1, <2>1 DEF Wrote, SeenOf, Seen
    <2> QED
      BY <1>1, <2>1, <2>2 DEF MemInv, MessagesInv, DraftedInv, Exchanged, Erased
  <1> QED  BY <1>2, <1>3

(* A write, and what it is of a conversation. *)
LEMMA ThreadWriting ==
  ASSUME IInv, MemInv, NEW p \in Requests, NEW new, Stored(p, new), NEW v \in Conversations
  PROVE  /\ Conversation(v) \notin Wrote(p) /\ Seen(p, Conversation(v)) = ThreadOf(v)
         /\ Conversation(v) \in Wrote(p)' <=> Conversation(v) \in DOMAIN new
         /\ Conversation(v) \in DOMAIN new => draft'[p][Conversation(v)] = new[Conversation(v)]
         /\ SeenOf(p, v)' = {n \in Seqs : After(p, new, Message(v, n))}
         /\ Sent(v)' = Sent(v) /\ ThreadOf(v)' = ThreadOf(v)
         /\ MessagesOf(v) \cap Wrote(p) # {} => Exchanged(p, v)
         /\ req[p].kind # "remember" => SeenOf(p, v) = Sent(v)
  <1> DEFINE x == Conversation(v)
  <1>1. x \in Rows /\ x[1] = "conversation" /\ \A n \in Seqs : Message(v, n) \in Rows
    BY DialogueRowsAre
  <1>2. WrittenBy(p, new) /\ req[p].done = FALSE  BY DEF Stored
  <1>3. x \notin Wrote(p) /\ Seen(p, x) = ThreadOf(v)
    BY <1>1, <1>2, SeenIsCommitted DEF ThreadOf
  <1>4. /\ x \in Wrote(p)' <=> x \in DOMAIN new
        /\ x \in DOMAIN new => draft'[p][x] = new[x]
    BY <1>2, <1>3 DEF WrittenBy
  <1>5. \A n \in Seqs : Seen(p, Message(v, n))' = After(p, new, Message(v, n))
    BY <1>2 DEF WrittenBy, Seen, After
  <1>6. SeenOf(p, v)' = {n \in Seqs : After(p, new, Message(v, n))}
    BY <1>5 DEF SeenOf
  <1>7. Sent(v)' = Sent(v) /\ ThreadOf(v)' = ThreadOf(v)
    BY <1>2 DEF WrittenBy, Sent, ThreadOf
  <1>8. MessagesOf(v) \cap Wrote(p) # {} => Exchanged(p, v)
    BY <1>3 DEF MemInv, MessagesInv, Erased
  <1>9. req[p].kind # "remember" => SeenOf(p, v) = Sent(v)
    BY <1>8, SeenIsSent DEF Exchanged
  <1> QED  BY <1>3, <1>4, <1>6, <1>7, <1>8, <1>9

(* An exchange takes the next two numbers. *)
LEMMA TurnWritten ==
  ASSUME IInv, MemInv, NEW p \in Requests, NEW new, Stored(p, new), NEW v \in Conversations,
         NEW m \in MessagesOf(v) \cap DOMAIN new, new[m]
  PROVE  MessagesInv(p, v)' /\ DraftedInv(p, v)'
  <1> DEFINE k == Cardinality(Sent(v))
             seq == NextSeq(p, Arg(p).on)
  <1>1. /\ \A r \in DOMAIN new :
               /\ Lasting(req'[p].kind, req[p].args, req[p].copy, overwritten', r, db[r], new[r])
               /\ Rule(p, new, r)
        /\ req'[p].args = req[p].args
        /\ req'[p].done => req'[p].kind = req[p].kind
        /\ WrittenBy(p, new)
    BY DEF Stored, GoodWrite
  <1>2. m[1] = "message" /\ \A n \in Seqs : Message(v, n)[1] = "message"
    BY DialogueRowsAre DEF MessagesOf
  <1>3. /\ req[p].kind = "append" /\ seq < MaxSeq
        /\ DOMAIN new = {Message(Arg(p).on, seq), Message(Arg(p).on, seq + 1)}
    BY <1>1, <1>2 DEF Rule, MessageRule
  <1>4. Arg(p).on = v
    <2>1. PICK n \in Seqs : m = Message(v, n)  BY DEF MessagesOf
    <2> HIDE DEF seq
    <2>2. m = Message(Arg(p).on, seq) \/ m = Message(Arg(p).on, seq + 1)  BY <1>3
    <2> QED  BY <2>1, <2>2 DEF Message
  <1>5. SeenOf(p, v) = Sent(v)  BY <1>3, ThreadWriting
  <1>6. seq = k + 1
    <2>1. seq = 1 + Cardinality(SeenOf(p, v))  BY <1>4 DEF NextSeq, SeenOf
    <2>2. k \in Nat  BY SentIsFinite
    <2> HIDE DEF seq
    <2> QED  BY <1>5, <2>1, <2>2
  <1>7. k \in Nat /\ MaxSeq \in Nat /\ k + 2 <= MaxSeq
    BY <1>3, <1>6, SentIsFinite, DialogueAssumption
  <1>8. Sent(v) = 1..k  BY DEF MemInv, SentInv, Upto
  <1> HIDE DEF k, seq
  <1>9. DOMAIN new = {Message(v, k + 1), Message(v, k + 2)}
    <2>1. seq + 1 = k + 2  BY <1>6, <1>7
    <2> QED  BY <1>3, <1>4, <1>6, <2>1
  <1>10. k + 1 \in Seqs /\ k + 2 \in Seqs  BY <1>7 DEF Seqs
  <1>11. req'[p].kind = "remember" /\ ~req'[p].done
    <2>1. req'[p].kind = "remember"  BY <1>1, <1>2 DEF Lasting, MessageKept
    <2> QED  BY <1>1, <1>3, <2>1
  <1>12. \A r \in DOMAIN new : new[r]
    <2>1. \A r \in DOMAIN new : r[1] = "message"  BY <1>2, <1>9, <1>10
    <2> QED  BY <1>1, <1>11, <2>1 DEF Lasting, MessageKept
  <1>13. SeenOf(p, v)' = 1..(k + 2)
    <2>1. ASSUME NEW n \in Seqs
          PROVE  After(p, new, Message(v, n)) <=> n \in 1..(k + 2)
      <3>1. Message(v, n) \in DOMAIN new <=> (n = k + 1 \/ n = k + 2)
        BY <1>9 DEF Message
      <3>2. Seen(p, Message(v, n)) <=> n \in 1..k  BY <1>5, <1>8 DEF SeenOf
      <3>3. n \in 1..(k + 2) <=> (n \in 1..k \/ n = k + 1 \/ n = k + 2)
        BY <1>7 DEF Seqs
      <3>4. CASE n = k + 1 \/ n = k + 2
        <4>1. Message(v, n) \in DOMAIN new  BY <3>1, <3>4
        <4>2. new[Message(v, n)]  BY <1>12, <4>1
        <4> QED  BY <3>3, <3>4, <4>1, <4>2 DEF After
      <3>5. CASE ~(n = k + 1 \/ n = k + 2)
        <4>1. Message(v, n) \notin DOMAIN new  BY <3>1, <3>5
        <4> QED  BY <3>2, <3>3, <3>5, <4>1 DEF After
      <3> QED  BY <3>4, <3>5
    <2>2. \A n \in 1..(k + 2) : n \in Seqs  BY <1>7 DEF Seqs
    <2>3. SeenOf(p, v)' = {n \in Seqs : After(p, new, Message(v, n))}  BY ThreadWriting
    <2> QED  BY <2>1, <2>2, <2>3
  <1>14. Upto(SeenOf(p, v)')
    <2>1. k + 2 \in Nat  BY <1>7
    <2> QED  BY <1>13, <2>1, HowManyUpto
  <1>15. Exchanged(p, v)'
    <2>1. Cardinality(Sent(v)') = k  BY ThreadWriting DEF k
    <2>2. Message(v, k + 1) \in Wrote(p)' /\ draft'[p][Message(v, k + 1)]
      BY <1>1, <1>9, <1>12 DEF WrittenBy
    <2> QED  BY <1>1, <1>4, <1>11, <1>13, <2>1, <2>2 DEF Exchanged, Arg
  <1>16. Conversation(v) \notin Wrote(p)'
    <2>1. Conversation(v) \notin DOMAIN new
      BY <1>2, <1>9, <1>10, DialogueRowsAre
    <2> QED  BY <2>1, ThreadWriting
  <1> QED  BY <1>14, <1>15, <1>16 DEF MessagesInv, DraftedInv, Upto

(* A deletion takes every message along. *)
LEMMA ThreadErased ==
  ASSUME IInv, MemInv, NEW p \in Requests, NEW new, Stored(p, new), NEW v \in Conversations,
         Conversation(v) \in DOMAIN new, ~new[Conversation(v)].there
  PROVE  MessagesInv(p, v)' /\ DraftedInv(p, v)'
  <1> DEFINE x == Conversation(v)
  <1>1. ConversationRule(p, new, x) /\ x[1] = "conversation"
    BY DialogueRowsAre DEF Stored, GoodWrite, Rule
  <1>2. PICK u \in Conversations :
            /\ x = Conversation(u) /\ new[x].owner = Seen(p, x).owner
            /\ \A y \in MessagesOf(u) : ~After(p, new, y)
    BY <1>1 DEF ConversationRule, Cleared
  <1>3. u = v  BY <1>2 DEF Conversation
  <1>4. SeenOf(p, v)' = {}
    <2>1. \A n \in Seqs : ~After(p, new, Message(v, n))
      BY <1>2, <1>3, DialogueRowsAre
    <2>2. SeenOf(p, v)' = {n \in Seqs : After(p, new, Message(v, n))}  BY ThreadWriting
    <2> QED  BY <2>1, <2>2
  <1>5. Upto(SeenOf(p, v)')
    <2>1. SeenOf(p, v)' = 1..0  BY <1>4
    <2> QED  BY <2>1, HowManyUpto
  <1>6. /\ x \in Wrote(p)' /\ draft'[p][x] = new[x]
        /\ draft'[p][x].owner = ThreadOf(v).owner /\ ThreadOf(v)' = ThreadOf(v)
    BY <1>2, ThreadWriting
  <1> QED  BY <1>4, <1>5, <1>6 DEF MessagesInv, DraftedInv, Erased, Upto

(* A conversation's row that stays: its summary fits what its request sees. *)
LEMMA SummaryWritten ==
  ASSUME IInv, RefInv, MemInv, NEW p \in Requests, NEW new, Stored(p, new),
         NEW v \in Conversations, Conversation(v) \in DOMAIN new, new[Conversation(v)].there
  PROVE  LET thread == new[Conversation(v)] IN
         /\ Summed(thread, SeenOf(p, v))
         /\ Conversation(v) \notin overwritten' => Fresh(thread, SeenOf(p, v))
         /\ ThreadOf(v).owner # Nobody => ThreadOf(v).there
  <1> DEFINE x == Conversation(v)
             thread == new[x]
             k == Cardinality(Sent(v))
             S == SeenOf(p, v)
  <1>1. /\ ConversationRule(p, new, x) /\ x[1] = "conversation" /\ WrittenBy(p, new)
        /\ ValuesOf(x) = ConversationValues
    BY DialogueRowsAre DEF Stored, GoodWrite, Rule
  <1>2. SentInv(v) /\ MessagesInv(p, v) /\ CopiedInv(p, v)  BY DEF MemInv
  <1>3. /\ Seen(p, x) = ThreadOf(v)
        /\ MessagesOf(v) \cap Wrote(p) # {} => Exchanged(p, v)
        /\ req[p].kind # "remember" => S = Sent(v)
    BY ThreadWriting
  <1>4. k \in Nat /\ Cardinality(S) \in Nat /\ S \in SUBSET Seqs  BY SentIsFinite
  <1>5. CASE Started(p, new, x)
    <2>1. /\ ThreadOf(v).owner = Nobody /\ req[p].kind # "remember" /\ thread.owner # Nobody
          /\ thread.folded = {} /\ thread.through = 0
      BY <1>3, <1>5 DEF Started
    <2>2. ~ThreadOf(v).there  BY <1>2, <2>1 DEF SentInv, Summed
    <2>3. S = {}  BY <1>3, <2>1, <2>2, NothingWithout
    <2>4. Cardinality(S) = 0
      <3>1. S = 1..0  BY <2>3
      <3> QED  BY <3>1, HowManyUpto
    <2>5. thread.folded = 1..thread.through  BY <2>1
    <2> QED  BY <2>1, <2>4, <2>5, DialogueAssumption DEF Summed, Fresh
  <1>6. ASSUME x \in DOMAIN req[p].copy, Copy(p, x).there, ThreadOf(v).there,
               thread.owner = Copy(p, x).owner
        PROVE  /\ thread.owner # Nobody
               /\ Copy(p, x).folded = 1..Copy(p, x).through
               /\ Copy(p, x).through \in Nat /\ Copy(p, x).through <= k
               /\ Copy(p, x) \in ConversationValues
    <2>1. Copy(p, x) \in ConversationValues
      BY <1>1, <1>6 DEF IInv, RequestOk, Copy
    <2>2. Copy(p, x).through \in Nat
      BY <2>1, DialogueAssumption DEF ConversationValues, Seqs
    <2> QED  BY <1>2, <1>6, <2>1, <2>2 DEF CopiedInv
  <1>7. ASSUME x \in DOMAIN req[p].copy, Copy(p, x).there, ThreadOf(v).there,
               thread.owner = Copy(p, x).owner, Renamed(p, new, x)
        PROVE  Summed(thread, S) /\ (x \notin overwritten' => Fresh(thread, S))
    <2>1. S = Sent(v) /\ thread.folded = Copy(p, x).folded /\ thread.through = Copy(p, x).through
      BY <1>3, <1>7 DEF Renamed
    <2>2. Summed(thread, S)  BY <1>6, <1>7, <2>1 DEF Summed
    <2>3. x \notin overwritten' => Copy(p, x) = ThreadOf(v) /\ x \notin overwritten
      BY <1>1, <1>7 DEF WrittenBy, ThreadOf
    <2>4. x \notin overwritten' => Fresh(thread, S)
      BY <1>2, <1>7, <2>1, <2>3 DEF SentInv, Fresh
    <2> QED  BY <2>2, <2>4
  <1>8. ASSUME x \in DOMAIN req[p].copy, Copy(p, x).there, ThreadOf(v).there,
               thread.owner = Copy(p, x).owner, Remembered(p, new, x)
        PROVE  Summed(thread, S) /\ Fresh(thread, S)
    <2> DEFINE old == Copy(p, x)
               tail == Tail1(p, v, old.through)
    <2>1. /\ thread.folded = Compacted(old, tail).folded
          /\ thread.through = Compacted(old, tail).through
      <3>1. x = Conversation(Arg(p).on)  BY <1>8 DEF Remembered
      <3>2. Arg(p).on = v  BY <3>1 DEF Conversation
      <3> QED  BY <1>8, <3>2 DEF Remembered
    <2>2. /\ thread.owner # Nobody /\ old.folded = 1..old.through
          /\ old.through \in Nat /\ old.through <= k /\ old \in ConversationValues
      BY <1>6, <1>8
    <2>3. tail = {n \in S : n > old.through}  BY DEF Tail1, SeenOf
    <2>4. k <= Cardinality(S)
      <3>1. CASE MessagesOf(v) \cap Wrote(p) = {}  BY <1>4, <3>1, SeenIsSent
      <3>2. CASE Exchanged(p, v)
        <4>1. S = 1..(k + 2)  BY <3>2 DEF Exchanged
        <4>2. k + 2 \in Nat /\ k <= k + 2  BY <1>4
        <4> HIDE DEF k, S
        <4>3. Cardinality(S) = k + 2  BY <4>1, <4>2, HowManyUpto
        <4> QED  BY <4>2, <4>3
      <3> QED  BY <1>3, <3>1, <3>2
    <2>5. Upto(S)  BY <1>2 DEF MessagesInv
    <2> HIDE DEF old, tail, S, k
    <2>6. old.through <= Cardinality(S)  BY <1>4, <2>2, <2>4
    <2>7. /\ Compacted(old, tail).folded = 1..Compacted(old, tail).through
          /\ Compacted(old, tail).through <= Cardinality(S)
          /\ Cardinality(S) <= Compacted(old, tail).through + CompactAfter
      BY <1>4, <2>2, <2>3, <2>5, <2>6, CompactedFits
    <2> QED  BY <2>1, <2>2, <2>7 DEF Summed, Fresh
  <1>9. \/ Started(p, new, x)
        \/ /\ x \in DOMAIN req[p].copy /\ Copy(p, x).there /\ ThreadOf(v).there
           /\ thread.owner = Copy(p, x).owner
           /\ Renamed(p, new, x) \/ Remembered(p, new, x)
    BY <1>1, <1>3 DEF ConversationRule
  <1>10. Started(p, new, x) => ThreadOf(v).owner = Nobody  BY <1>3 DEF Started
  <1> QED  BY <1>5, <1>7, <1>8, <1>9, <1>10

(* An exchange that is remembered has its conversation's row saved. *)
LEMMA ExchangeRemembered ==
  ASSUME IInv, RefInv, MemInv, NEW p \in Requests, Remember(p),
         NEW v \in Conversations, Exchanged(p, v)
  PROVE  Conversation(v) \in Wrote(p)'
  <1> DEFINE k == Cardinality(Sent(v))
             x == Conversation(v)
  <1>1. /\ req[p].args.on = v /\ SeenOf(p, v) = 1..(k + 2) /\ SeenOf(p, v) \subseteq Seqs
        /\ Message(v, k + 1) \in Wrote(p) /\ draft[p][Message(v, k + 1)] /\ k \in Nat
    BY SentIsFinite DEF Exchanged
  <1>2. Decides(p, "remember") /\ \E value : Update(p, x, value)
    BY <1>1 DEF Remember, Arg
  <1>3. Running(p) /\ req[p].done = FALSE  BY <1>2, Deciding
  <1> HIDE DEF k
  <1>4. ThreadOf(v).there
    <2>1. k + 1 \in 1..(k + 2)  BY <1>1
    <2> QED  BY <1>1, <2>1, MessageNeeds
  <1>5. Seen(p, x).there
    <2>1. x \in Rows /\ x[1] \notin {"team", "message"}  BY DialogueRowsAre
    <2> QED  BY <1>3, <1>4, <2>1, SeenIsCommitted DEF ThreadOf
  <1>6. PICK value : SaveRow(p, x, value)  BY <1>2, <1>5 DEF Update
  <1> DEFINE new == [y \in {x} |-> value]
  <1>7. Save(p, new) /\ x \in DOMAIN new  BY <1>6 DEF SaveRow
  <1> HIDE DEF new
  <1>8. WrittenBy(p, new)  BY <1>3, <1>7, SaveStep DEF IInv
  <1> QED  BY <1>7, <1>8 DEF WrittenBy

LEMMA MemoryWritten ==
  ASSUME IInv, RefInv, MemInv, NEW p \in Requests, Writing(p)
  PROVE  MemInv'
  <1> SUFFICES ASSUME NEW v \in Conversations  PROVE MessagesInv(p, v)' /\ DraftedInv(p, v)'
    BY MemoryOfOthers DEF MemInv, NotCommitting
  <1> DEFINE x == Conversation(v)
  <1>1. PICK new : Stored(p, new)  BY DEF Writing, Writes
  <1>2. CASE \E m \in MessagesOf(v) \cap DOMAIN new : new[m]
    BY <1>1, <1>2, TurnWritten
  <1>3. CASE x \in DOMAIN new /\ ~new[x].there
    BY <1>1, <1>3, ThreadErased
  <1>4. ASSUME NEW m \in MessagesOf(v) \cap DOMAIN new, ~new[m]
        PROVE  x \in DOMAIN new /\ ~new[x].there
    <2>1. MessageRule(p, new, m) /\ m[1] = "message"
      BY <1>1, DialogueRowsAre DEF Stored, GoodWrite, Rule, MessagesOf
    <2>2. PICK u \in Conversations :
              m \in MessagesOf(u) /\ Conversation(u) \in DOMAIN new /\ ~new[Conversation(u)].there
      BY <1>4, <2>1 DEF MessageRule
    <2>3. u = v  BY <2>2 DEF MessagesOf, Message
    <2> QED  BY <2>2, <2>3
  <1>5. CASE /\ MessagesOf(v) \cap DOMAIN new = {}
             /\ x \in DOMAIN new => new[x].there
    <2>1. /\ WrittenBy(p, new) /\ req'[p].args = req[p].args
          /\ req[p].kind = "remember" => req'[p].kind = "remember"
      BY <1>1 DEF Stored, GoesOnKinds
    <2>2. \A n \in Seqs : Message(v, n) \notin DOMAIN new
      BY <1>5, DialogueRowsAre
    <2>3. /\ SeenOf(p, v)' = {n \in Seqs : After(p, new, Message(v, n))}
          /\ Sent(v)' = Sent(v) /\ ThreadOf(v)' = ThreadOf(v)
          /\ x \in Wrote(p)' <=> x \in DOMAIN new
          /\ x \in DOMAIN new => draft'[p][x] = new[x]
          /\ MessagesOf(v) \cap Wrote(p) # {} => Exchanged(p, v)
      BY <1>1, ThreadWriting
    <2>4. SeenOf(p, v)' = SeenOf(p, v)  BY <2>2, <2>3 DEF After, SeenOf
    <2>5. MessagesOf(v) \cap Wrote(p)' = MessagesOf(v) \cap Wrote(p)
      BY <1>5, <2>1 DEF WrittenBy
    <2>6. Upto(SeenOf(p, v)')  BY <2>4 DEF MemInv, MessagesInv
    <2>7. ASSUME Exchanged(p, v)  PROVE Exchanged(p, v)'
      <3> DEFINE k == Cardinality(Sent(v))
      <3>1. /\ req[p].kind = "remember" /\ req[p].args.on = v /\ SeenOf(p, v) = 1..(k + 2)
            /\ Message(v, k + 1) \in Wrote(p) /\ draft[p][Message(v, k + 1)]
        BY <2>7 DEF Exchanged
      <3>2. x \in Wrote(p)'  BY <2>7, <3>1, ExchangeRemembered DEF Writing
      <3>3. Message(v, k + 1) \notin DOMAIN new
        <4>1. k \in Nat /\ SeenOf(p, v) \subseteq Seqs  BY SentIsFinite
        <4> HIDE DEF k
        <4>2. k + 1 \in 1..(k + 2)  BY <4>1
        <4> QED  BY <2>2, <3>1, <4>1, <4>2
      <3>4. /\ Message(v, k + 1) \in Wrote(p)'
            /\ draft'[p][Message(v, k + 1)] = draft[p][Message(v, k + 1)]
        BY <2>1, <3>1, <3>3 DEF WrittenBy
      <3> QED  BY <2>1, <2>3, <2>4, <3>1, <3>2, <3>4 DEF Exchanged
    <2>8. MessagesInv(p, v)'
      <3>1. MessagesOf(v) \cap Wrote(p)' # {} => Exchanged(p, v)'  BY <2>3, <2>5, <2>7
      <3> QED  BY <2>6, <3>1 DEF MessagesInv, Upto
    <2>9. DraftedInv(p, v)'
      <3>1. CASE x \notin DOMAIN new  BY <2>3, <3>1 DEF DraftedInv
      <3>2. CASE x \in DOMAIN new
        <4>1. /\ Summed(new[x], SeenOf(p, v))
              /\ x \notin overwritten' => Fresh(new[x], SeenOf(p, v))
              /\ ThreadOf(v).owner # Nobody => ThreadOf(v).there
          BY <1>1, <1>5, <3>2, SummaryWritten
        <4>2. draft'[p][x] = new[x]  BY <2>3, <3>2
        <4>3. new[x].owner # Nobody  BY <4>1 DEF Summed
        <4> QED  BY <2>3, <2>4, <4>1, <4>2, <4>3 DEF DraftedInv
      <3> QED  BY <3>1, <3>2
    <2> QED  BY <2>8, <2>9
  <1> QED  BY <1>2, <1>3, <1>4, <1>5

LEMMA MemoryKept == IInv /\ RefInv /\ MemInv /\ [Next]_vars => MemInv'
  <1> SUFFICES ASSUME IInv, RefInv, MemInv, [Next]_vars PROVE MemInv'  OBVIOUS
  <1>1. CASE UNCHANGED vars
    <2>1. db' = db /\ draft' = draft /\ req' = req /\ overwritten' = overwritten
      BY <1>1 DEF vars, uowVars, dbVars
    <2>2. \A v : /\ Sent(v)' = Sent(v) /\ ThreadOf(v)' = ThreadOf(v)
                /\ \A p : /\ SeenOf(p, v)' = SeenOf(p, v) /\ Wrote(p)' = Wrote(p)
                          /\ Copy(p, Conversation(v))' = Copy(p, Conversation(v))
      BY <2>1 DEF Sent, ThreadOf, SeenOf, Seen, Wrote, Copy
    <2>3. \A v : SentInv(v) => SentInv(v)'  BY <2>1, <2>2 DEF SentInv
    <2>4. \A v, p : MessagesInv(p, v) => MessagesInv(p, v)'
      BY <2>1, <2>2 DEF MessagesInv, Exchanged, Erased
    <2>5. \A v, p : DraftedInv(p, v) => DraftedInv(p, v)'  BY <2>1, <2>2 DEF DraftedInv
    <2>6. \A v, p : CopiedInv(p, v) => CopiedInv(p, v)'  BY <2>1, <2>2 DEF CopiedInv
    <2> QED  BY <2>3, <2>4, <2>5, <2>6 DEF MemInv
  <1>2. ASSUME NEW p \in Requests, NotCommitting(p)  PROVE MemInv'
    BY <1>2, MemoryElsewhere, MemoryWritten DEF NotCommitting
  <1>3. ASSUME NEW p \in Requests, Commit1(p)  PROVE MemInv'
    BY <1>3, MemoryCommitted DEF Commit1
  <1> QED  BY <1>1, <1>2, <1>3, ConsoleMoves

-----------------------------------------------------------------------------
(* A message that a question has read goes only with its conversation.      *)
RecalledInv(p, v) ==
    req[p].kind = "recall" =>
        \A n \in Seqs :
            (Message(v, n) \in DOMAIN req[p].copy /\ Copy(p, Message(v, n))) =>
                /\ ThreadOf(v).owner # Nobody
                /\ ThreadOf(v).there => n \in Sent(v)
RecallInv == \A v \in Conversations : \A p \in Requests : RecalledInv(p, v)

LEMMA RecallStarts == Init => RecallInv
  <1> SUFFICES ASSUME Init PROVE RecallInv  OBVIOUS
  <1>1. \A p \in Requests : DOMAIN req[p].copy = {}
    BY DEF Init, DbInit, UowInit, Idle, NoRows
  <1> QED  BY <1>1 DEF RecallInv, RecalledInv

(* What a question reads of a conversation is what is committed of it. *)
LEMMA RecallReads ==
  ASSUME IInv, RefInv, MemInv, NEW p \in Requests, req[p].kind = "recall",
         NEW v \in Conversations, NEW n \in Seqs, Seen(p, Message(v, n))
  PROVE  n \in Sent(v) /\ ThreadOf(v).owner # Nobody
  <1>1. n \in SeenOf(p, v)  BY DEF SeenOf
  <1>2. ~Exchanged(p, v) /\ ~Erased(p, v)  BY <1>1 DEF Exchanged, Erased
  <1>3. MessagesOf(v) \cap Wrote(p) = {}  BY <1>2 DEF MemInv, MessagesInv
  <1>4. n \in Sent(v)  BY <1>1, <1>3, SeenIsSent
  <1>5. ThreadOf(v).there  BY <1>4, MessageNeeds DEF Sent
  <1> QED  BY <1>4, <1>5 DEF MemInv, SentInv, Summed

LEMMA RecallGoesOn ==
  ASSUME IInv, RefInv, MemInv, RecallInv, NEW p \in Requests, NotCommitting(p)
  PROVE  RecallInv'
  <1>1. db' = db /\ OthersStay(p)  BY NothingCommitted
  <1> SUFFICES ASSUME NEW v \in Conversations, NEW q \in Requests, req'[q].kind = "recall",
                      NEW n \in Seqs, Message(v, n) \in DOMAIN req'[q].copy,
                      req'[q].copy[Message(v, n)]
               PROVE  ThreadOf(v).owner # Nobody /\ (ThreadOf(v).there => n \in Sent(v))
    <2>1. \A u \in Conversations : Sent(u)' = Sent(u) /\ ThreadOf(u)' = ThreadOf(u)
      BY <1>1 DEF Sent, ThreadOf
    <2> QED  BY <2>1 DEF RecallInv, RecalledInv, Copy
  <1> DEFINE m == Message(v, n)
  <1>2. ASSUME req[q].kind = "recall", m \in DOMAIN req[q].copy, req'[q].copy[m] = req[q].copy[m]
        PROVE  ThreadOf(v).owner # Nobody /\ (ThreadOf(v).there => n \in Sent(v))
    BY <1>2 DEF RecallInv, RecalledInv, Copy
  <1>3. CASE q # p
    <2>1. req'[q] = req[q]  BY <1>1, <1>3 DEF OthersStay
    <2> QED  BY <1>2, <2>1
  <1>4. CASE q = p /\ (Begun(p) \/ Abandon(p))
    <2>1. DOMAIN req'[p].copy = {}
      BY <1>4, AbandonStep DEF Begun, IInv, Idle, NoRows
    <2> QED  BY <1>4, <2>1
  <1>5. CASE q = p /\ Writing(p)
    <2>1. PICK new : Stored(p, new)  BY <1>5 DEF Writing, Writes
    <2>2. req'[p].copy = req[p].copy /\ req[p].kind = "recall"
      BY <1>5, <2>1 DEF Stored, GoesOnKinds
    <2> QED  BY <1>2, <1>5, <2>2
  <1>6. CASE q = p /\ Read(p)
    <2>1. /\ req'[p].kind = req[p].kind
          /\ \A x \in DOMAIN req[p].copy : req'[p].copy[x] = req[p].copy[x]
          /\ \A x \in DOMAIN req'[p].copy \ DOMAIN req[p].copy : req'[p].copy[x] = Seen(p, x)
      BY <1>6, ReadStep DEF IInv
    <2>2. CASE m \in DOMAIN req[p].copy  BY <1>2, <1>6, <2>1, <2>2
    <2>3. CASE m \notin DOMAIN req[p].copy
      <3>1. Seen(p, m)  BY <1>6, <2>1, <2>3
      <3> QED  BY <1>6, <2>1, <3>1, RecallReads
    <2> QED  BY <2>2, <2>3
  <1> QED  BY <1>3, <1>4, <1>5, <1>6 DEF NotCommitting

(* Messages go only with their conversation, which never comes back. *)
LEMMA RecallCommitted ==
  ASSUME IInv, RefInv, MemInv, RecallInv, NEW p \in Requests, Commit(p)
  PROVE  RecallInv'
  <1>1. OthersStay(p) /\ req'[p] = Idle  BY CommitStep DEF IInv
  <1> SUFFICES ASSUME NEW v \in Conversations, NEW q \in Requests, RecalledInv(q, v)
               PROVE  RecalledInv(q, v)'
    BY DEF RecallInv
  <1>2. CASE q = p
    <2>1. DOMAIN req'[q].copy = {}  BY <1>1, <1>2 DEF Idle, NoRows
    <2> QED  BY <2>1 DEF RecalledInv
  <1>3. CASE q # p
    <2>1. req'[q] = req[q]  BY <1>1, <1>3 DEF OthersStay
    <2>2. /\ Sent(v)' = SeenOf(p, v) /\ ThreadOf(v)' = Seen(p, Conversation(v))
          /\ Conversation(v) \notin Wrote(p) => Sent(v)' = Sent(v) /\ ThreadOf(v)' = ThreadOf(v)
          /\ ThreadOf(v).there /\ ThreadOf(v)'.there =>
                 Cardinality(Sent(v)) <= Cardinality(Sent(v)')
      BY CommittedThread
    <2>3. SentInv(v) /\ MessagesInv(p, v) /\ DraftedInv(p, v)  BY DEF MemInv
    <2>4. ASSUME ThreadOf(v).owner # Nobody
          PROVE  /\ ThreadOf(v)'.owner # Nobody
                 /\ ThreadOf(v)'.there => ThreadOf(v).there
      <3>1. CASE Conversation(v) \notin Wrote(p)  BY <2>2, <2>4, <3>1
      <3>2. CASE Conversation(v) \in Wrote(p)
        BY <2>2, <2>3, <2>4, <3>2 DEF DraftedInv, Seen
      <3> QED  BY <3>1, <3>2
    <2>5. ASSUME ThreadOf(v).there, ThreadOf(v)'.there  PROVE Sent(v) \subseteq Sent(v)'
      <3> DEFINE a == Cardinality(Sent(v))
                 b == Cardinality(SeenOf(p, v))
      <3>1. Sent(v) = 1..a /\ SeenOf(p, v) = 1..b /\ a <= b
        BY <2>2, <2>3, <2>5 DEF SentInv, MessagesInv, Upto
      <3>2. a \in Nat /\ b \in Nat  BY SentIsFinite
      <3> HIDE DEF a, b
      <3>3. 1..a \subseteq 1..b  BY <3>1, <3>2
      <3> QED  BY <2>2, <3>1, <3>3
    <2> QED  BY <2>1, <2>4, <2>5 DEF RecalledInv, Copy
  <1> QED  BY <1>2, <1>3

LEMMA RecallKept ==
  IInv /\ RefInv /\ MemInv /\ RecallInv /\ [Next]_vars => RecallInv'
  <1> SUFFICES ASSUME IInv, RefInv, MemInv, RecallInv, [Next]_vars PROVE RecallInv'  OBVIOUS
  <1>1. CASE UNCHANGED vars
    <2>1. db' = db /\ req' = req  BY <1>1 DEF vars, uowVars, dbVars
    <2>2. \A v \in Conversations : Sent(v)' = Sent(v) /\ ThreadOf(v)' = ThreadOf(v)
      BY <2>1 DEF Sent, ThreadOf
    <2> QED  BY <2>1, <2>2 DEF RecallInv, RecalledInv, Copy
  <1>2. ASSUME NEW p \in Requests, NotCommitting(p)  PROVE RecallInv'
    BY <1>2, RecallGoesOn
  <1>3. ASSUME NEW p \in Requests, Commit1(p)  PROVE RecallInv'
    BY <1>3, RecallCommitted DEF Commit1
  <1> QED  BY <1>1, <1>2, <1>3, ConsoleMoves

(* The newest k of a set of messages are after its others, which are k fewer.*)
LEMMA NewestAreLast ==
  ASSUME NEW S \in SUBSET Seqs, NEW k \in Nat, NEW n \in S \ Newest(k, S), NEW m \in Newest(k, S)
  PROVE  n < m
  <1> DEFINE After1(x) == {j \in S : j > x}
  <1>1. n \in Nat /\ m \in Nat /\ m \in S  BY DEF Newest, Seqs
  <1>2. Cardinality(After1(n)) >= k /\ Cardinality(After1(m)) < k
    <2>1. ~(Cardinality(After1(n)) < k) /\ Cardinality(After1(m)) < k  BY DEF Newest
    <2>2. Cardinality(After1(n)) \in Nat  BY SeqsAreFinite
    <2> HIDE DEF After1
    <2> QED  BY <2>1, <2>2
  <1> SUFFICES ASSUME m <= n  PROVE FALSE  BY <1>1
  <1>3. After1(n) \subseteq After1(m)
    <2>1. \A j \in S : j > n => j > m  BY <1>1 DEF Seqs
    <2> QED  BY <2>1
  <1>4. /\ IsFiniteSet(After1(m))
        /\ Cardinality(After1(n)) \in Nat /\ Cardinality(After1(m)) \in Nat
    BY SeqsAreFinite
  <1> HIDE DEF After1
  <1>5. Cardinality(After1(n)) <= Cardinality(After1(m))  BY <1>3, <1>4, FS_Subset
  <1> QED  BY <1>2, <1>4, <1>5

LEMMA AllButTheNewest ==
  ASSUME NEW S \in SUBSET Seqs, NEW k \in Nat, NEW c \in Nat, k <= c, Cardinality(S) <= c
  PROVE  Cardinality(S \ Newest(k, S)) <= c - k
  <1> DEFINE R == S \ Newest(k, S)
             A == {j \in S : j > MaxOf(R)}
  <1>1. R \in SUBSET Seqs /\ A \in SUBSET Seqs /\ R \cup A \subseteq S  OBVIOUS
  <1>2. CASE R = {}
    <2>1. Cardinality(R) = 0  BY <1>2, FS_EmptySet
    <2> HIDE DEF R
    <2> QED  BY <2>1 DEF R
  <1>3. CASE R # {}
    <2>1. MaxOf(R) \in R /\ \A y \in R : y <= MaxOf(R)
      <3> HIDE DEF R
      <3> QED  BY <1>1, <1>3, LargestSeq
    <2>2. Cardinality(A) >= k
      <3>1. ~(Cardinality(A) < k)  BY <2>1 DEF Newest
      <3>2. Cardinality(A) \in Nat  BY <1>1, SeqsAreFinite
      <3> HIDE DEF A
      <3> QED  BY <3>1, <3>2
    <2>3. R \cap A = {}
      <3>1. \A y \in R : ~(y > MaxOf(R))
        <4>1. \A y \in R : y \in Int  BY DEF Seqs
        <4> HIDE DEF R
        <4> QED  BY <2>1, <4>1
      <3> QED  BY <3>1
    <2> HIDE DEF R, A
    <2>4. /\ IsFiniteSet(R) /\ IsFiniteSet(A) /\ IsFiniteSet(S)
          /\ Cardinality(R) \in Nat /\ Cardinality(A) \in Nat /\ Cardinality(S) \in Nat
      BY <1>1, SeqsAreFinite
    <2>5. Cardinality(R \cup A) = Cardinality(R) + Cardinality(A)
      <3>1. Cardinality(R \cap A) = 0  BY <2>3, FS_EmptySet
      <3>2. Cardinality(R \cup A) = Cardinality(R) + Cardinality(A) - Cardinality(R \cap A)
        BY <2>4, FS_Union
      <3> QED  BY <2>4, <3>1, <3>2
    <2>6. Cardinality(R \cup A) <= Cardinality(S)  BY <1>1, <2>4, FS_Subset
    <2>7. Cardinality(R) <= c - k  BY <2>2, <2>4, <2>5, <2>6
    <2> QED  BY <2>7 DEF R
  <1> QED  BY <1>2, <1>3

(* What a question reads after a summary that is still the committed one. *)
LEMMA TailIsShort ==
  ASSUME IInv, MemInv, RecallInv, NEW p \in Requests, Decides(p, "recall"), Owns(p), StillReaches(p)
  PROVE  Cardinality(Tail2(p)) <= CompactAfter
  <1> DEFINE v == Arg(p).on
             t == Thread(p).through
             S == Sent(v)
             rest == {n \in S : n > t}
  <1>1. /\ v \in Conversations /\ req[p].kind = "recall"
        /\ MessagesOf(v) \subseteq DOMAIN req[p].copy
    <2>1. "recall" # "idle"  OBVIOUS
    <2> QED  BY <2>1, ThreadIsRead, Deciding DEF Asked, DialogueAsked
  <1>2. /\ ThreadOf(v).there /\ ThreadOf(v).through = t /\ Conversation(v) \notin overwritten
    BY DEF StillReaches, ThreadOf
  <1>3. Upto(S) /\ t <= Cardinality(S) /\ Cardinality(S) <= t + CompactAfter
    BY <1>1, <1>2 DEF MemInv, SentInv, Summed, Fresh
  <1>4. t \in Nat
    <2>1. ThreadOf(v) \in ConversationValues
      BY <1>1, DialogueRowsAre DEF IInv, DbOk, ThreadOf
    <2> QED  BY <1>2, <2>1, DialogueAssumption DEF ConversationValues, Seqs
  <1>5. S \in SUBSET Seqs /\ Cardinality(S) \in Nat  BY SentIsFinite
  <1>6. Tail2(p) \subseteq rest
    <2>1. \A n \in Written(p) : n \in S
      <3> SUFFICES ASSUME NEW n \in Seqs, Copy(p, Message(v, n))  PROVE n \in S
        BY DEF Written
      <3>1. Message(v, n) \in DOMAIN req[p].copy  BY <1>1 DEF MessagesOf
      <3> QED  BY <1>1, <1>2, <3>1 DEF RecallInv, RecalledInv
    <2> QED  BY <2>1 DEF Tail2
  <1> HIDE DEF S, t
  <1>7. Cardinality(rest) = Cardinality(S) - t  BY <1>3, <1>4, <1>5, TailIs
  <1>8. IsFiniteSet(rest) /\ Cardinality(rest) \in Nat
    <2>1. rest \in SUBSET Seqs  BY <1>5
    <2> QED  BY <2>1, SeqsAreFinite
  <1> HIDE DEF rest
  <1>9. Cardinality(Tail2(p)) <= Cardinality(rest)  BY <1>6, <1>8, FS_Subset
  <1>10. Cardinality(Tail2(p)) \in Nat
    <2>1. Tail2(p) \in SUBSET Seqs  BY DEF Tail2, Written
    <2> QED  BY <2>1, SeqsAreFinite
  <1> QED  BY <1>3, <1>4, <1>5, <1>7, <1>8, <1>9, <1>10, DialogueAssumption

(* Nothing of a conversation is told to the model twice, what is cut from   *)
(* the summary is older than all that is told, and no more messages wait    *)
(* between the summary and the recent turns than compaction lets stay; for  *)
(* any number of overlapping requests and messages, any COMPACT_AFTER,      *)
(* RECENT_TURNS and length of the summary, but where the summary moved      *)
(* between the two reads or an older copy of the conversation was saved     *)
(* over a newer (assemble, fold_summary, compact, AppendTurn).              *)
THEOREM MemoryGapsAreShort == Spec => []LittleIsUntold
  <1>1. Init => IInv /\ RefInv /\ MemInv /\ RecallInv
    BY ConsoleStarts, ReferencesStart, MemoryStarts, RecallStarts
  <1>2. IInv /\ RefInv /\ MemInv /\ RecallInv /\ [Next]_vars =>
            (IInv /\ RefInv /\ MemInv /\ RecallInv)'
    BY ConsoleKept, ReferencesKept, MemoryKept, RecallKept
  <1>3. IInv /\ MemInv /\ RecallInv => LittleIsUntold
    <2> SUFFICES ASSUME IInv, MemInv, RecallInv, NEW p \in Requests, Decides(p, "recall"), Owns(p)
                 PROVE  LET told == Recalled(p)
                            waiting == Tail2(p) \ RecentOf(Tail2(p))
                        IN  /\ Summary(Thread(p)) \cap RecentOf(Tail2(p)) = {}
                            /\ \A n \in Written(p) \ (told \cup waiting) : \A k \in told : n < k
                            /\ StillReaches(p) => Cardinality(waiting) <= CompactAfter - RecentTurns
      BY DEF LittleIsUntold
    <2> DEFINE v == Arg(p).on
               t == Thread(p).through
               F == Thread(p).folded
               tail == Tail2(p)
    <2>1. /\ v \in Conversations /\ Conversation(v) \in DOMAIN req[p].copy
          /\ Thread(p) \in ConversationValues /\ Thread(p).there
      BY ThreadIsRead DEF Owns
    <2>2. F = 1..t /\ F \in SUBSET Seqs /\ t \in Nat
      <3>1. CopiedInv(p, v)  BY <2>1 DEF MemInv
      <3> QED  BY <2>1, <3>1, DialogueAssumption
                  DEF CopiedInv, Thread, ConversationValues, Seqs
    <2>3. /\ RecentTurns \in Nat /\ CompactAfter \in Nat /\ SummaryLines \in Nat
          /\ RecentTurns <= CompactAfter
      BY DialogueAssumption
    <2>4. /\ tail = {n \in Written(p) : n > t} /\ Written(p) \in SUBSET Seqs
          /\ Summary(Thread(p)) = Newest(SummaryLines, F)
          /\ RecentOf(tail) = Newest(RecentTurns, tail)
          /\ Recalled(p) = Newest(SummaryLines, F) \cup Newest(RecentTurns, tail)
      BY DEF Tail2, Written, Summary, RecentOf, Recalled
    <2>5. /\ \A n \in Newest(SummaryLines, F) : n \in Nat /\ n <= t
          /\ \A n \in Newest(RecentTurns, tail) : n \in Nat /\ n > t
      BY <2>2, <2>4 DEF Newest, Seqs
    <2>6. Summary(Thread(p)) \cap RecentOf(tail) = {}
      <3>1. \A n : ~(n \in Newest(SummaryLines, F) /\ n \in Newest(RecentTurns, tail))
        BY <2>2, <2>5
      <3> QED  BY <2>4, <3>1
    <2>7. ASSUME NEW n \in Written(p) \ (Recalled(p) \cup (tail \ RecentOf(tail))),
                 NEW k \in Recalled(p)
          PROVE  n < k
      <3>1. n \in Nat /\ n \in 1..t /\ n \notin Newest(SummaryLines, F)
        <4>1. n \in Seqs /\ ~(n > t) /\ n \notin Newest(SummaryLines, F)  BY <2>4, <2>7
        <4> HIDE DEF t
        <4> QED  BY <2>2, <4>1 DEF Seqs
      <3>2. CASE k \in Newest(SummaryLines, F)
        <4>1. n \in F \ Newest(SummaryLines, F)  BY <2>2, <3>1
        <4> QED  BY <2>2, <2>3, <3>2, <4>1, NewestAreLast
      <3>3. CASE k \in Newest(RecentTurns, tail)
        <4>1. k \in Nat /\ k > t  BY <2>5, <3>3
        <4> HIDE DEF t
        <4> QED  BY <2>2, <3>1, <4>1
      <3> QED  BY <2>4, <2>7, <3>2, <3>3
    <2>8. StillReaches(p) => Cardinality(tail \ RecentOf(tail)) <= CompactAfter - RecentTurns
      <3> SUFFICES ASSUME StillReaches(p)
                   PROVE  Cardinality(tail \ RecentOf(tail)) <= CompactAfter - RecentTurns
        OBVIOUS
      <3>1. Cardinality(tail) <= CompactAfter /\ tail \in SUBSET Seqs
        BY <2>4, TailIsShort
      <3> HIDE DEF tail
      <3> QED  BY <2>3, <2>4, <3>1, AllButTheNewest
    <2> QED  BY <2>6, <2>7, <2>8
  <1> QED  BY <1>1, <1>2, <1>3, PTL DEF Spec

=============================================================================
