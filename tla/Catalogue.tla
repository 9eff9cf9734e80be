------------------------------- MODULE Catalogue -------------------------------
(***************************************************************************)
(* What a tenant's answers are made with: the platform's models and who may *)
(* use them, the tenant's own provider keys, its assistants and who sees    *)
(* and edits them (application/ai_resources/manage_model_configuration.py,  *)
(* manage_provider_credential.py, manage_assistant.py,                      *)
(* manage_assistant_members.py).  Requests whose permission is missing      *)
(* change nothing and are left out.                                         *)
(***************************************************************************)
EXTENDS UnitOfWork

CONSTANTS
    People,        \* memberships
    Managers,      \* those who hold tenant.assistants.view_all and .manage
    Models, Keys, Assistants, NoKey

ASSUME CatalogueAssumption == Managers \subseteq People /\ NoKey \notin Keys

Model(c) == <<"model", c>>
ModelGrant(c) == <<"grant", c>>
Key(k) == <<"key", k>>
Assistant(a) == <<"assistant", a>>
Access(a, m) == <<"access", a, m>>

AssistantRows == {Assistant(a) : a \in Assistants}
CatalogueRows ==
    {Model(c) : c \in Models} \cup {ModelGrant(c) : c \in Models} \cup {Key(k) : k \in Keys}
        \cup AssistantRows \cup {Access(a, m) : a \in Assistants, m \in People}

ModelValues == [there : BOOLEAN, archived : BOOLEAN, name : Numbers]
GrantValues == [there : BOOLEAN, key : Keys \cup {NoKey}]
KeyValues == [there : BOOLEAN, revoked : BOOLEAN, secret : Numbers]
AssistantValues == [status : {"absent", "draft", "published", "archived"}, owner : People,
                    model : Models, audience : SUBSET People, name : Numbers]
AccessLevels == {"none", "viewer", "editor"}

CatalogueValues(r) ==
    CASE r[1] = "model"       -> ModelValues
      [] r[1] = "grant" -> GrantValues
      [] r[1] = "key"         -> KeyValues
      [] r[1] = "assistant"   -> AssistantValues
      [] r[1] = "access"      -> AccessLevels

-----------------------------------------------------------------------------
(* A request about `on`, `with`, and the rows each of its statements reads. *)
Ask(p, kind, on, with, plan) == Begin(p, kind, [on |-> on, with |-> with], plan)

Insert(p, r, value) == ~Seen(p, r).there /\ SaveRow(p, r, value)

(* UPDATE ... WHERE id: a row deleted since it was read is not written. *)
Update(p, r, value) ==
    Free(p, r) /\ IF Seen(p, r).there THEN SaveRow(p, r, value) ELSE Save(p, NoRows)

(* A foreign key: the row referred to is there, and its deletion waits for  *)
(* the row that refers to it, as that one waits for the deletion. *)
Referable(p, r) ==
    /\ Seen(p, r).there
    /\ \A q \in Requests \ {p} : r \in Wrote(q) => draft[q][r].there

(* No row of `rows` has a value in `referring`, those that refer to what is *)
(* deleted, committed or drafted. *)
Unreferred(p, rows, referring) ==
    \A x \in rows :
        /\ Seen(p, x) \notin referring
        /\ \A q \in Requests \ {p} : x \in Wrote(q) => draft[q][x] \notin referring

-----------------------------------------------------------------------------
(* The platform's models.  An archived one stays in use where it is: it is  *)
(* only not offered any more. *)
ModelRoutes(p) ==
    \E c \in Models :
        \/ \E kind \in {"create_model", "update_model", "archive_model", "restore_model",
                        "grant_model"} : Ask(p, kind, c, {}, << {Model(c)} >>)
        \/ Ask(p, "revoke_model", c, {}, <<AssistantRows>>)

Chosen(p) == Copy(p, Model(Arg(p).on))

CreateModelConfiguration(p) ==
    /\ Decides(p, "create_model")
    /\ Insert(p, Model(Arg(p).on), [there |-> TRUE, archived |-> FALSE, name |-> Id(p)])

UpdateModelConfiguration(p) ==
    /\ Decides(p, "update_model") /\ Chosen(p).there
    /\ Update(p, Model(Arg(p).on), [Chosen(p) EXCEPT !.name = Id(p)])

ArchiveModelConfiguration(p) ==
    /\ Decides(p, "archive_model") /\ Chosen(p).there
    /\ Update(p, Model(Arg(p).on), [Chosen(p) EXCEPT !.archived = TRUE])

RestoreModelConfiguration(p) ==
    /\ Decides(p, "restore_model") /\ Chosen(p).there
    /\ Update(p, Model(Arg(p).on), [Chosen(p) EXCEPT !.archived = FALSE])

(* ON CONFLICT DO NOTHING: of two grants of one model both succeed. *)
GrantModelConfigurationToTenant(p) ==
    LET g == ModelGrant(Arg(p).on) IN
    /\ Decides(p, "grant_model") /\ Chosen(p).there
    /\ Free(p, g)
    /\ IF Seen(p, g).there THEN Save(p, NoRows) ELSE SaveRow(p, g, [there |-> TRUE, key |-> NoKey])

(* Refused while an assistant uses it, an archived one too: counted first,  *)
(* and the foreign key holds for those the count has missed. *)
Uses(c, assistant) == assistant.status # "absent" /\ assistant.model = c
RevokeOnTheCount(p) ==                                            \* mutant
    LET g == ModelGrant(Arg(p).on) IN
    /\ Decides(p, "revoke_model")
    /\ \A a \in AssistantRows : ~Uses(Arg(p).on, Copy(p, a))
    /\ Update(p, g, [there |-> FALSE, key |-> NoKey])
RevokeModelConfigurationFromTenant(p) ==
    LET c == Arg(p).on
        g == ModelGrant(c)
    IN  /\ Decides(p, "revoke_model")
        /\ \A a \in AssistantRows : ~Uses(c, Copy(p, a))
        /\ Unreferred(p, AssistantRows, {v \in AssistantValues : Uses(c, v)})
        /\ Update(p, g, [there |-> FALSE, key |-> NoKey])

-----------------------------------------------------------------------------
(* The tenant's keys.  A key is saved whole: that it is revoked, too. *)
KeyRoutes(p) ==
    \/ \E k \in Keys :
        \/ \E kind \in {"store_key", "rotate_key", "revoke_key"} : Ask(p, kind, k, {}, << {Key(k)} >>)
        \/ \E c \in Models : Ask(p, "attach_key", k, c, << {Key(k)} >>)
    \/ \E c \in Models : Ask(p, "detach_key", NoKey, c, <<>>)

KeyRead(p) == Copy(p, Key(Arg(p).on))
Usable(key) == key.there /\ ~key.revoked

StoreProviderCredential(p) ==
    /\ Decides(p, "store_key")
    /\ Insert(p, Key(Arg(p).on), [there |-> TRUE, revoked |-> FALSE, secret |-> Id(p)])

RotateProviderCredential(p) ==
    /\ Decides(p, "rotate_key") /\ Usable(KeyRead(p))
    /\ Update(p, Key(Arg(p).on), [KeyRead(p) EXCEPT !.secret = Id(p)])

RevokeProviderCredential(p) ==
    /\ Decides(p, "revoke_key") /\ Usable(KeyRead(p))
    /\ Update(p, Key(Arg(p).on), [KeyRead(p) EXCEPT !.revoked = TRUE])

(* UPDATE of the grant, which is not read first: no row is not found. *)
SetModelCredential(p) ==
    LET g == ModelGrant(Arg(p).with) IN
    /\ \/ Decides(p, "attach_key") /\ Usable(KeyRead(p))
       \/ Decides(p, "detach_key")
    /\ Seen(p, g).there
    /\ SaveRow(p, g, [Seen(p, g) EXCEPT !.key = Arg(p).on])

-----------------------------------------------------------------------------
(* Assistants.  Who may see one may be unable to change it. *)
CanAccess(f, a, m) ==
    \/ m = f[Assistant(a)].owner \/ m \in Managers
    \/ f[Access(a, m)] # "none"
    \/ m \in f[Assistant(a)].audience

CanModify(f, a, m) ==
    m = f[Assistant(a)].owner \/ m \in Managers \/ f[Access(a, m)] = "editor"

(* load_visible_assistant, and the rows `more` of the use case. *)
AskAbout(p, kind, actor, a, with, more) ==
    Ask(p, kind, a, [actor |-> actor, what |-> with],
        << {Assistant(a)}, {Access(a, actor)} >> \o more)

Availability(c) == {ModelGrant(c), Model(c)}

AssistantRoutes(p) ==
    \E m \in People, a \in Assistants :
        \/ \E c \in Models :
            \/ Ask(p, "create_assistant", a, [actor |-> m, what |-> c], << Availability(c) >>)
            \/ AskAbout(p, "update_assistant", m, a, c, << Availability(c) >>)
        \/ \E kind \in {"publish_assistant", "archive_assistant"} : AskAbout(p, kind, m, a, {}, <<>>)
        \/ \E audience \in {{}, People} : AskAbout(p, "show_assistant", m, a, audience, <<>>)
        \/ \E n \in People :
            \/ \E level \in AccessLevels \ {"none"} :
                   AskAbout(p, "give_access", m, a, [to |-> n, level |-> level], << {Access(a, n)} >>)
            \/ AskAbout(p, "take_access", m, a, [to |-> n], << {Access(a, n)} >>)

About(p) == Assistant(Arg(p).on)
AssistantRead(p) == Copy(p, About(p))
What(p) == Arg(p).with.what

Loaded(p) ==
    /\ AssistantRead(p).status # "absent"
    /\ CanAccess(req[p].copy, Arg(p).on, Arg(p).with.actor)
    /\ CanModify(req[p].copy, Arg(p).on, Arg(p).with.actor)

Available(p, c) ==
    Copy(p, ModelGrant(c)).there /\ Copy(p, Model(c)).there /\ ~Copy(p, Model(c)).archived

(* Every column as it was read but for what the use case changed.  The      *)
(* foreign key is looked up when the stored model changes. *)
SaveAssistant(p, assistant) ==
    /\ assistant.model # Seen(p, About(p)).model => Referable(p, ModelGrant(assistant.model))
    /\ SaveRow(p, About(p), assistant)

CreateAssistant(p) ==
    /\ Decides(p, "create_assistant")
    /\ Available(p, What(p)) /\ Referable(p, ModelGrant(What(p)))
    /\ Seen(p, About(p)).status = "absent"
    /\ \E audience \in {{}, People} :
           SaveRow(p, About(p), [status |-> "draft", owner |-> Arg(p).with.actor,
                                 model |-> What(p), audience |-> audience, name |-> Id(p)])

PublishAssistant(p) ==
    /\ Decides(p, "publish_assistant") /\ Loaded(p)
    /\ AssistantRead(p).status # "archived"
    /\ SaveAssistant(p, [AssistantRead(p) EXCEPT !.status = "published"])

(* A model that is kept is not asked for again: it may be archived by now. *)
UpdateAssistant(p) ==
    /\ Decides(p, "update_assistant") /\ Loaded(p)
    /\ What(p) # AssistantRead(p).model => Available(p, What(p))
    /\ SaveAssistant(p, [AssistantRead(p) EXCEPT !.model = What(p), !.name = Id(p)])

ArchiveAssistant(p) ==
    /\ Decides(p, "archive_assistant") /\ Loaded(p)
    /\ AssistantRead(p).status # "archived"
    /\ SaveAssistant(p, [AssistantRead(p) EXCEPT !.status = "archived"])

ChangeAssistantVisibility(p) ==
    /\ Decides(p, "show_assistant") /\ Loaded(p)
    /\ SaveAssistant(p, [AssistantRead(p) EXCEPT !.audience = What(p)])

(* Giving what is given and taking what is not do nothing.  The pair is     *)
(* unique: of two that give it at once, one fails. *)
GrantAssistantAccess(p) ==
    LET x == Access(Arg(p).on, What(p).to) IN
    /\ Decides(p, "give_access") /\ Loaded(p)
    /\ Copy(p, x) = "none" /\ Seen(p, x) = "none"
    /\ SaveRow(p, x, What(p).level)

RevokeAssistantAccess(p) ==
    LET x == Access(Arg(p).on, What(p).to) IN
    /\ Decides(p, "take_access") /\ Loaded(p)
    /\ Copy(p, x) # "none"
    /\ SaveRow(p, x, "none")

CatalogueRoutes(p) == ModelRoutes(p) \/ KeyRoutes(p) \/ AssistantRoutes(p)

CatalogueUseCase(p) ==
    \/ CreateModelConfiguration(p) \/ UpdateModelConfiguration(p)
    \/ ArchiveModelConfiguration(p) \/ RestoreModelConfiguration(p)
    \/ GrantModelConfigurationToTenant(p) \/ RevokeModelConfigurationFromTenant(p)
    \/ StoreProviderCredential(p) \/ RotateProviderCredential(p)
    \/ RevokeProviderCredential(p) \/ SetModelCredential(p)
    \/ CreateAssistant(p) \/ PublishAssistant(p) \/ UpdateAssistant(p)
    \/ ArchiveAssistant(p) \/ ChangeAssistantVisibility(p)
    \/ GrantAssistantAccess(p) \/ RevokeAssistantAccess(p)

=============================================================================
