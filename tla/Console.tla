-------------------------------- MODULE Console --------------------------------
(***************************************************************************)
(* A tenant's console over one database: its models, keys and assistants,   *)
(* its chatbot, its members' conversations, with requests that overlap.     *)
(***************************************************************************)
EXTENDS Dialogue

CONSTANT Scenes      \* the databases an instance starts from, each with the use cases it runs

ConsoleRows == CatalogueRows \cup ChatbotRows \cup DialogueRows

ValuesOf(r) ==
    IF r \in CatalogueRows THEN CatalogueValues(r)
    ELSE IF r \in ChatbotRows THEN ChatbotValues(r) ELSE DialogueValues(r)

ASSUME ConsoleAssumption ==
    /\ Rows = ConsoleRows
    /\ \A s \in Scenes :
           /\ DOMAIN s.rows = Rows /\ s.runs \subseteq UseCases /\ s.already \in Numbers
           /\ \A r \in Rows : s.rows[r] \in ValuesOf(r)

-----------------------------------------------------------------------------
(* Rows f that respect the plan, but where the rows `missed` were changed   *)
(* under a request that had read them. *)
There(f, rows) == {r \in rows : f[r].there}
Within(f, plan, missed) ==
    /\ WidgetRows \cap missed = {} => Cardinality(There(f, WidgetRows)) <= plan.widgets
    /\ BaseRows \cap missed = {} => Cardinality(There(f, BaseRows)) <= plan.bases
    /\ RatingRows \cap missed = {} =>
           \A w \in Widgets : Cardinality({n \in RatingRows : f[n] = w}) <= MaxFeedback
    /\ \A w \in There(f, WidgetRows) : f[w].cap <= plan.daily
    /\ f[Settings].there => f[Settings].limit <= plan.daily

(* Rows f that refer to none that is gone. *)
Referring(f, missed) ==
    /\ \A a \in AssistantRows : f[a].status # "absent" => f[ModelGrant(f[a].model)].there
    /\ \A w \in Widgets :
           f[Visit(w)] \/ (\E n \in RatingRows : f[n] = w) => f[Widget(w)].there
    /\ \A v \in Conversations : \A x \in MessagesOf(v) : f[x] => f[Conversation(v)].there
    /\ \A w \in There(f, WidgetRows) :
           f[Base(f[w].base)].there \/ missed \cap {w, Base(f[w].base)} # {}

(* Summaries made of all the messages up to where they reach, with no more  *)
(* messages after them than compaction leaves.                              *)
Remembering(f, lost) ==
    \A v \in Conversations :
        LET thread == f[Conversation(v)]
            rest == {n \in Seqs : f[Message(v, n)] /\ n > thread.through}
        IN  thread.there =>
                /\ thread.folded = {n \in Seqs : f[Message(v, n)]} \ rest
                /\ Conversation(v) \notin lost => Cardinality(rest) <= CompactAfter

(* An instance starts from a tenant within its plan, which was never        *)
(* larger, or below it where it has set no limit; with conversations        *)
(* numbered as they are written. *)
ASSUME ScenesAssumption ==
    \A s \in Scenes :
        /\ Within(s.rows, s.rows[Plan], {}) /\ Referring(s.rows, {}) /\ Remembering(s.rows, {})
        /\ s.rows[Settings].limit <= s.rows[Plan].daily
        /\ \A v \in Conversations :
               LET thread == s.rows[Conversation(v)]
                   written == {n \in Seqs : s.rows[Message(v, n)]}
               IN  thread.there =>
                       /\ thread.owner # Nobody
                       /\ written = 1..Cardinality(written)
                       /\ thread.through \in written \cup {0}

VARIABLES
    roof,        \* history: the most each limit of the plan has been
    unseen       \* history: rows that changed between a request's reading and its commit

vars == <<uowVars, roof, unseen>>

Init ==
    /\ \E s \in Scenes :
           DbInit(s.rows) /\ runs = s.runs /\ roof = s.rows[Plan] /\ UowInit(s.already)
    /\ unseen = {}

Ask1(p) ==
    /\ CatalogueRoutes(p) \/ ChatbotRoutes(p) \/ DialogueRoutes(p)
    /\ UNCHANGED <<roof, unseen>>

Step1(p) ==
    /\ Read(p) \/ CatalogueUseCase(p) \/ ChatbotUseCase(p) \/ DialogueUseCase(p) \/ Abandon(p)
    /\ UNCHANGED <<roof, unseen>>

Commit1(p) ==
    /\ Commit(p)
    /\ roof' = [x \in DOMAIN roof |-> MaxOf({roof[x], db'[Plan][x]})]
    /\ unseen' = unseen \cup {r \in DOMAIN req[p].copy : db[r] # Copy(p, r)}

Next == \E p \in Requests : Ask1(p) \/ Step1(p) \/ Commit1(p)

Spec == Init /\ [][Next]_vars

-----------------------------------------------------------------------------
(* A tenant has no more widgets and knowledge bases, and a visitor's chat   *)
(* no more ratings, than were ever allowed, unless one was created by a     *)
(* request that had counted before another was committed; and a widget's or *)
(* the chatbot's daily limit was never above the plan's, whatever overlaps  *)
(* (guard_chat_widget_quota, guard_knowledge_base_quota,                    *)
(* guard_widget_daily_limit, RecordWidgetFeedback). *)
LimitsNeedOverlap == Within(db, roof, unseen)

(* What was switched off, archived or revoked works again only because a    *)
(* request asked for that; renaming, redecorating, rotating or publishing   *)
(* never do it.  But for a row saved over a change its request had not read.*)
InUse(f, r) ==
    CASE r \in WidgetRows \cup {Settings} -> f[r].there /\ f[r].on
      [] r \in AssistantRows              -> f[r].status \in {"draft", "published"}
      [] r[1] = "model"                   -> f[r].there /\ ~f[r].archived
      [] r[1] = "key"                     -> f[r].there /\ ~f[r].revoked
Ended(f, r) ==
    CASE r \in WidgetRows \cup {Settings} -> f[r].there /\ ~f[r].on
      [] r \in AssistantRows              -> f[r].status = "archived"
      [] r[1] = "model"                   -> f[r].there /\ f[r].archived
      [] r[1] = "key"                     -> f[r].there /\ f[r].revoked
Switches ==
    WidgetRows \cup {Settings} \cup AssistantRows \cup {Model(c) : c \in Models}
        \cup {Key(k) : k \in Keys}
OffOnPurpose ==
    [][\A r \in Switches \ overwritten :
          Ended(db, r) /\ InUse(db', r) =>
              \E p \in Requests :
                  /\ req[p].kind \in {"enable_widget", "turn_chatbot_on", "restore_model"}
                  /\ Ends(p)]_vars

(* What the model is told of a conversation, and what it is not, whatever   *)
(* was appended, renamed, deleted or compacted while the conversation and   *)
(* its messages were being read.  Nothing is told twice.  A message that is *)
(* not told is older than everything told, cut from the summary's front, or *)
(* waits between the summary and the recent turns for the next compaction;  *)
(* and of those there are at most COMPACT_AFTER_MESSAGES - RECENT_TURNS,    *)
(* unless the summary moved between the two reads, or an older copy of the  *)
(* conversation was saved over a newer.  (assemble, fold_summary, compact.) *)
StillReaches(p) ==
    LET v == Conversation(Arg(p).on) IN
    v \notin overwritten /\ db[v].there /\ db[v].through = Thread(p).through

LittleIsUntold ==
    \A p \in Requests : Decides(p, "recall") /\ Owns(p) =>
        LET told == Recalled(p)
            waiting == Tail2(p) \ RecentOf(Tail2(p))
        IN  /\ Summary(Thread(p)) \cap RecentOf(Tail2(p)) = {}
            /\ \A n \in Written(p) \ (told \cup waiting) : \A k \in told : n < k
            /\ StillReaches(p) => Cardinality(waiting) <= CompactAfter - RecentTurns

(* A conversation that was used within the retention window goes only when  *)
(* its owner deletes it, and stays used: neither a purge nor a change of    *)
(* its title makes it old.  But where an older copy was saved over a newer. *)
KeptWhileUsed ==
    [][\A v \in Conversations :
          LET x == Conversation(v) IN
          (db[x].there /\ db[x].recent /\ x \notin overwritten) =>
              \/ db'[x].there /\ db'[x].recent
              \/ \E p \in Requests : req[p].kind = "delete" /\ Ends(p)]_vars

(* Nothing refers to what is gone: an assistant to a model taken from the   *)
(* tenant, a conversation or a rating to a deleted widget, a message to a   *)
(* deleted conversation.  Nor does a widget to a deleted knowledge base,    *)
(* unless the one was deleted by a request that overlapped the other's      *)
(* creation: that reference the database does not keep. *)
ReferencesHold == Referring(db, unseen)

(* A team's roster is the one its last save asked for, never a mix of two:  *)
(* saves that overlap take turns (SaveTeam, set_members). *)
RosterIsAsSaved ==
    [][\A p \in Requests :
          (Commit(p) /\ req[p].kind = "set_members") =>
              \A m \in People : db'[Roster(Arg(p).on, m)] <=> m \in Arg(p).with.members]_vars

=============================================================================
