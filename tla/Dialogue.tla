------------------------------- MODULE Dialogue -------------------------------
(***************************************************************************)
(* A member's conversation with an assistant, and what the model remembers  *)
(* of it: a summary of its older messages and the ones after it             *)
(* (application/ai_resources: manage_conversation.py, conversation_memory.py,*)
(* answer_question.py, purge_conversations.py).                             *)
(***************************************************************************)
EXTENDS Chatbot

CONSTANTS
    Conversations,
    Nobody,           \* owns the identities not yet used
    RecentTurns,      \* RECENT_TURNS
    CompactAfter,     \* COMPACT_AFTER_MESSAGES
    SummaryLines,     \* how many first lines MAX_SUMMARY_CHARS has room for
    MaxSeq            \* bound: messages of a conversation

ASSUME DialogueAssumption ==
    /\ RecentTurns \in Nat \ {0} /\ CompactAfter \in Nat /\ MaxSeq \in Nat
    /\ RecentTurns <= CompactAfter /\ SummaryLines \in Nat
    /\ Nobody \notin People

Conversation(v) == <<"conversation", v>>
Message(v, n) == <<"message", v, n>>

Seqs == 1..MaxSeq
MessagesOf(v) == {Message(v, n) : n \in Seqs}
DialogueRows ==
    {Conversation(v) : v \in Conversations} \cup UNION {MessagesOf(v) : v \in Conversations}

(* `folded` is the messages whose first lines have gone into the summary,   *)
(* `recent` whether the last one is within the retention window. *)
ConversationValues == [there : BOOLEAN, owner : People \cup {Nobody}, title : Numbers, recent : BOOLEAN,
                       folded : SUBSET Seqs, through : {0} \cup Seqs]

DialogueValues(r) == IF r[1] = "conversation" THEN ConversationValues ELSE BOOLEAN

-----------------------------------------------------------------------------
DialogueRoutes(p) ==
    \/ \E m \in People, v \in Conversations :
        \/ \E kind \in {"rename", "delete"} : Ask(p, kind, v, m, << {Conversation(v)} >>)
        \/ \E a \in Assistants : Ask(p, "start", a, [actor |-> m, what |-> v],
                                     << {Assistant(a)}, {Access(a, m)} >>)
        \/ Ask(p, "recall", v, m, << {Conversation(v)}, MessagesOf(v) >>)
    \/ \E v \in Conversations : Ask(p, "append", v, {}, << {Conversation(v)} >>)
    \/ Ask(p, "purge", 0, {}, << {Settings} >>)

Thread(p) == Copy(p, Conversation(Arg(p).on))
Owns(p) == Thread(p).there /\ Thread(p).owner = Arg(p).with

(* Whoever sees an assistant that was published may converse with it, in a  *)
(* conversation with an identity of its own (uuid4). *)
StartConversation(p) ==
    LET v == Conversation(What(p)) IN
    /\ Decides(p, "start")
    /\ AssistantRead(p).status = "published"
    /\ CanAccess(req[p].copy, Arg(p).on, Arg(p).with.actor)
    /\ Seen(p, v).owner = Nobody
    /\ Insert(p, v, [there |-> TRUE, owner |-> Arg(p).with.actor, title |-> 0, recent |-> TRUE,
                     folded |-> {}, through |-> 0])

(* The whole row as it was read: its summary, and when it was last used. *)
RenameConversation(p) ==
    /\ Decides(p, "rename") /\ Owns(p)
    /\ Update(p, Conversation(Arg(p).on), [Thread(p) EXCEPT !.title = Id(p)])

(* A conversation's deletion waits for messages being added to it, and      *)
(* takes those that are there along. *)
Unwritten(p, v) ==
    /\ Free(p, Conversation(v))
    /\ \A x \in MessagesOf(v) : Free(p, x)

Gone(p, conversations) ==
    [x \in {Conversation(v) : v \in conversations}
             \cup UNION {{y \in MessagesOf(v) : Seen(p, y)} : v \in conversations} |->
        IF x[1] = "message" THEN FALSE ELSE [Seen(p, x) EXCEPT !.there = FALSE]]

DeleteConversation(p) ==
    LET v == Arg(p).on IN
    /\ Decides(p, "delete") /\ Owns(p)
    /\ Unwritten(p, v)
    /\ Save(p, IF Seen(p, Conversation(v)).there THEN Gone(p, {v}) ELSE NoRows)

(* One DELETE of every conversation last used before the window. *)
PurgeByCreation(p) ==                                             \* mutant
    LET old == {v \in Conversations : Seen(p, Conversation(v)).there} IN
    /\ Decides(p, "purge")
    /\ \A v \in old : Unwritten(p, v)
    /\ Save(p, Gone(p, old))
PurgeExpiredConversations(p) ==
    LET Old(x) == x.there /\ ~x.recent
        old == {v \in Conversations : Old(Seen(p, Conversation(v)))}
    IN  /\ Decides(p, "purge")
        /\ \A v \in old : Unwritten(p, v)
        /\ Save(p, Gone(p, old))

-----------------------------------------------------------------------------
(* The exchange is appended in a unit of work of its own, once the answer   *)
(* is out; whatever fails in it is swallowed.  Two messages take the next   *)
(* numbers: uq_conversation_messages_seq makes overlapping exchanges wait   *)
(* for each other. *)
NextSeq(p, v) == 1 + Cardinality({n \in Seqs : Seen(p, Message(v, n))})

AppendTurn(p) ==
    LET v == Arg(p).on
        seq == NextSeq(p, v)
    IN  /\ Decides(p, "append") /\ Thread(p).there
        /\ seq < MaxSeq
        /\ Referable(p, Conversation(v))
        /\ SaveAndGoOn(p, [x \in {Message(v, seq), Message(v, seq + 1)} |-> TRUE], "remember", <<>>)

MaxOf(S) == CHOOSE n \in S : \A k \in S : k <= n

(* The messages after `through`, and of them all but the recent turns. *)
Tail1(p, v, through) == {n \in Seqs : n > through /\ Seen(p, Message(v, n))}
Older(tail) == {n \in tail : Cardinality({k \in tail : k > n}) >= RecentTurns}

(* compact: the summary, and how far it reaches. *)
CompactToTheEnd(thread, tail) ==                                  \* mutant
    IF Cardinality(tail) <= CompactAfter THEN thread
    ELSE [thread EXCEPT !.folded = @ \cup Older(tail), !.through = MaxOf(tail)]
Compacted(thread, tail) ==
    IF Cardinality(tail) <= CompactAfter THEN thread
    ELSE [thread EXCEPT !.folded = @ \cup Older(tail), !.through = MaxOf(Older(tail))]

(* record_turn, the title of a first exchange, the compaction, one save. *)
Remember(p) ==
    LET v == Arg(p).on
        titled == IF Thread(p).title = 0 THEN Id(p) ELSE Thread(p).title
        used == [Thread(p) EXCEPT !.recent = TRUE, !.title = titled]
    IN  /\ Decides(p, "remember")
        /\ Update(p, Conversation(v), Compacted(used, Tail1(p, v, Thread(p).through)))

-----------------------------------------------------------------------------
(* What the next question's answer is made from: the conversation, then, in *)
(* a second statement, its messages after `through`.  for_model withholds   *)
(* none of them: what it withholds is only written to visitors' threads.    *)
Newest(k, S) == {n \in S : Cardinality({j \in S : j > n}) < k}

Written(p) == {n \in Seqs : Copy(p, Message(Arg(p).on, n))}
Tail2(p) == {n \in Written(p) : n > Thread(p).through}

(* fold_summary cuts the front of a summary that has grown too long. *)
Summary(thread) == Newest(SummaryLines, thread.folded)

(* assemble: the summary, and the last of the messages after it. *)
RecentOf(tail) == Newest(RecentTurns, tail)
Recalled(p) == Summary(Thread(p)) \cup RecentOf(Tail2(p))

RecallThread(p) == Decides(p, "recall") /\ Owns(p) /\ Save(p, NoRows)

DialogueUseCase(p) ==
    \/ StartConversation(p) \/ RenameConversation(p) \/ DeleteConversation(p)
    \/ PurgeExpiredConversations(p) \/ AppendTurn(p) \/ Remember(p) \/ RecallThread(p)

=============================================================================
