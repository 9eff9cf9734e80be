# A verification of the multi-tenant AI agent platform

TLA+ modules of the parts of the platform where requests, jobs and stores meet,
TLC configurations that check them on small instances, and TLAPS proofs of what
can be proved for every instance. Paths below are relative to
`src/src/iam_platform/` unless they start with `docs/` or `src/`.

1. [The system](#1-the-system)
2. [Modules](#2-modules)
3. [Conversation handoff](#3-conversation-handoff)
4. [Sessions](#4-sessions)
5. [Ingestion](#5-ingestion)
6. [Quota](#6-quota)
7. [Access](#7-access)
8. [Worker runtime](#8-worker-runtime)
9. [Console](#9-console)
10. [Runs, bounds and fairness](#10-runs-bounds-and-fairness)
11. [Proofs](#11-proofs)
12. [Where the code and its documentation disagree](#12-where-the-code-and-its-documentation-disagree)
13. [What is not modelled](#13-what-is-not-modelled)
14. [Plan](#14-plan)

How to run: `tlc -config <run>.cfg <MC module>` for each run of PROJECT.json,
`tlapm <module>.tla` for each module whose name ends in `Proofs`.

## 1. The system

A FastAPI process serves three kinds of client: tenant members in a console,
platform administrators in the same console, and anonymous visitors of a chat
widget on a tenant's site. Celery workers index documents. State is in
PostgreSQL (READ COMMITTED, row-level security per tenant), Redis (counters,
challenges, typing keys, the queue), Qdrant (vectors) and an object store.

| Component | State it keeps | Operations | Meets |
|---|---|---|---|
| Conversation handoff (`application/ai_resources/handoff.py`, `public_handoff.py`, `public_conversation.py`) | `conversations.state`, team, agent, `handoff_at`; system events in the thread | request, choose team, claim, reply, return, AI mode, typing, fallback poll | the store, the widget, settings |
| Conversation store (`infrastructure/db/repositories/governance.py`, `ai_resources.py`) | one row and its messages, numbered by `next_seq` | append, set state, claim, route | everything that writes a thread |
| Widget chat (`public_chat.py`) | a stored exchange; visitor memory in Redis | ask, stream, persist | handoff, quota, answering |
| Sessions and sign-in (`application/identity`) | user and security stamp, password, sessions, refresh-token families, MFA challenges, emailed links | sign in three ways, refresh, log out, revoke, change and reset password, suspend, delete | the API's bearer tokens, platform administration |
| Quotas (`infrastructure/cache/tenant_quota.py`, `widget_quota.py`, `db/usage_ledger.py`) | Redis counters per day and month; the ledger they are rebuilt from | reserve, compare, give back, record, rebuild | widget chat, answering |
| Answering (`answer_question.py`) | none of its own; a turn, a usage row | retrieve, gate, generate, record | quota, vectors, conversation memory |
| Knowledge bases and documents (`manage_knowledge_base.py`, `manage_document.py`, `manage_data_source.py`, `delete_knowledge_base.py`) | rows, bytes, queued jobs | upload, retry, delete, re-sync, delete base | the workers |
| Ingestion workers (`workers/jobs`) | passages, points, statuses | index a file, crawl and index pages, record failure | four stores |
| Worker runtime (`workers/jobs/tasks.py`) | one event loop in a thread | start, submit, drain, stop | Celery's threads |
| Accounts (`application/identity`: `register_user.py`, `oauth_login.py`, `mfa.py`, `login_user.py`) | users, addresses, identities, TOTP methods, failed attempts, lockouts | register, link, unlink, enrol, confirm, count a failure, lock | sign-in |
| Memberships, invitations, roles, overrides (`application/tenancy`, `tenant_authz`) | memberships, roles and their codes, hierarchy, grants, overrides | invite, accept, suspend, revoke, restore, assign, connect | every permission check |
| Platform roles, tenants, impersonation (`application/platform_authz`, `impersonation`) | staff roles, tenants and owners, plan, support sessions | grant, create, suspend, start, end | tenants' administration |
| Models, provider keys, assistants (`manage_model_configuration.py`, `manage_provider_credential.py`, `manage_assistant.py`, `manage_assistant_members.py`) | catalog, grants to tenants, keys, assistants and their audience | offer, archive, grant, rotate, revoke, publish, share | answering |
| Widgets, settings, teams, push, ratings (`manage_chat_widget.py`, `manage_chatbot.py`, `manage_presentation.py`, `manage_push.py`, `answer_feedback.py`) | rows with a plan's limits on their number and values | create, edit, switch, delete, subscribe, rate | handoff, widget chat |
| Members' conversations and memory (`manage_conversation.py`, `conversation_memory.py`, `purge_conversations.py`) | messages, a summary of the older ones | append a turn, compact, rename, delete, purge | answering |
| Rate limits, live events, dashboards, audit | windows in Redis; append-only or read-only | | |

PROJECT.json lists all 35 components with their files and says of each whether it
is modelled, in part or not, and why.

What is hard about them is one theme in several settings. Requests run concurrently
at READ COMMITTED and nothing in the code locks a row it only reads:

- **Read, decide, write.** `next_seq` is read before the insert that uses it; a
  poll decides on a thread it read earlier; most repositories' `save` writes
  *every* column as the request read it, so a concurrent change is undone.
- **Several stores, one transaction.** A document is in PostgreSQL, Qdrant, the
  object store and the queue; a daily allowance is in Redis and in the ledger. A
  failure or a crash between two of them leaves one changed and the other not.
- **Two of the same.** Two tabs poll, two agents claim, a client retries a
  refresh, a queue delivers a job twice.
- **A count, then an insert.** Limits, cycles, the last way into an account and the
  lockout are all decided on a count or a list that another request is about to change.
- **One process, many threads.** Celery's threads share one event loop, its start and
  its stop.
- **Clocks and polls.** The way back from a silent agent is driven by the visitor's
  polls; the day of a quota ends while a question is in progress.

The properties that make each component correct are stated in sections 3 to 9;
PROJECT.json's `hazards` gives the line where each difficulty bites and the
properties that watch it.

## 2. Modules

| Module | Models | Uses |
|---|---|---|
| `ConversationStore` | one conversation as PostgreSQL keeps it: row, thread, row lock, unique sequence, deadlock, rollback | |
| `Handoff` | the use cases that move it between AI, queue and agent, and the clock | `ConversationStore` |
| `Ownership` | abstract: who may answer, one step per change of hands | |
| `HandoffInvariant` | the inductive invariant | `Handoff` |
| `HandoffProofs` | five theorems, the refinement of `Ownership` among them | `HandoffInvariant` |
| `ReadCommitted` | rows under concurrent units of work: drafts, what a statement sees, waiting, deadlock | |
| `Sessions` | the identity use cases as scripts of SQL statements | `ReadCommitted` |
| `SessionsProofs` | five theorems | `Sessions` |
| `Ingestion` | documents in four stores: console requests and worker jobs as scripts of calls | `ReadCommitted` |
| `IngestionInvariant` | its inductive invariants | `Ingestion` |
| `IngestionProofs` | five theorems | `IngestionInvariant` |
| `Quota` | counters, ledger, questions in progress | |
| `QuotaProofs` | seven theorems | `Quota` |
| `UnitOfWork` | a request of the API: reads, decides, saves, commits or rolls back | `ReadCommitted` |
| `Policies` | the hierarchy's reach and the guard against escalation, as functions | |
| `Tenancy` | a tenant's members, invitations, roles, hierarchy and overrides | `UnitOfWork`, `Policies` |
| `Platform` | staff roles, tenants, plans, impersonation | `Tenancy` |
| `Accounts` | registration, identities, TOTP methods, lockout | `UnitOfWork` |
| `Access` | composes the three over one database | `Platform`, `Accounts` |
| `UnitOfWorkProofs` | lemmas: what every step of a unit of work leaves true | `UnitOfWork` |
| `AccessProofs` | six theorems, and the lemmas on paths in the hierarchy | `Access`, `UnitOfWorkProofs` |
| `WorkerRuntime` | the worker's event loop, its threads and its container | |
| `WorkerRuntimeProofs` | three theorems | `WorkerRuntime` |
| `Catalogue` | models, provider keys, assistants | `UnitOfWork` |
| `Chatbot` | widgets, plan, settings, teams, push, ratings | `Catalogue` |
| `Dialogue` | members' conversations, their memory, the purge | `Chatbot` |
| `Console` | composes the three over one database | `Dialogue` |
| `ConsoleProofs` | six theorems | `Console`, `UnitOfWorkProofs` |
| `MCHandoff`, `MCSessions`, `MCIngestion`, `MCQuota`, `MCAccess`, `MCWorkerRuntime`, `MCConsole` | databases to start from, symmetry sets and definitions for TLC | |

Conventions. A request is a process. One action is one SQL statement, one Redis command or one
call to another store, and processes interleave between them; a guard that reads and a write
that follows are never one action unless the code makes them one statement. A use case that is a
straight line is a *script*, the sequence of its calls, and each kind of call is one action: the
guards, the early returns and the failure paths are in that action. A use case that only reads,
decides and saves is one action over `UnitOfWork`: the *plan* is what its statements read, in
order, `Read` is one of them, and the action is enabled where the code does not raise.
Definitions marked `\* mutant` next to a definition are what a plausible bug would make of it;
the mutation table of PROJECT.json substitutes them one at a time, and each property must then
fail.

Variables called *history* in their comments are not in the program. They record
what happened so that a property can say it: how many faults and of which kinds
there have been, which documents two were at work on at once, which rows were
saved over an unread change (`overwritten`), which rows a
request had read that changed before it committed (`unseen`).

Conditions. Several properties hold only while nothing of a named kind overlapped, and say
so with those histories. Every such condition was arrived at from the other side: without it
TLC finds the overlap that breaks the property, and section 12 says what that overlap does.
What such a property still shows is that nothing *else* breaks it: no sequence of requests,
no other overlap, no failure.

## 3. Conversation handoff

`ConversationStore` and `Handoff`, checked by `Handoff_*`, proved about in `HandoffProofs`.

State. `row` and `thread` are the committed conversation and its messages; `tx`
is each request's transaction: the row as it last read or wrote it, the messages
it has added, the `next_seq` it has read, and the *plan* it still has to carry out
(messages, then one UPDATE, then messages). `lock` is the holder of the row.
`clock`, `typing` and `settings` are the application clock, the agent's typing
key in Redis and the tenant's switches. A message is its position, its kind and its
minute; its text is left out, except that a visitor's text may ask for a human.

Actions. Each use case opens a transaction, reads the row, applies its guards and
plans its writes: `ClaimConversation`, `PostAgentMessage`,
`ReturnConversationToAi`, `SetConversationAiMode`, `RequestHandoff`,
`SelectHandoffTeam`, `SendVisitorMessage`, `PersistExchange` (what AskWidget stores),
`SetAgentTyping`, `AdvanceHandoffFallback` (the visitor's poll, with its two more
steps `ReadTail` and `Decide`). `Statement` carries the plan out: `ReadNextSeq`,
`AddMessage`, `SeqTaken` (the unique constraint), `UpdateRow`, `ClaimLost`,
`RouteNotMoved`, `Commit`, `DeadlockVictim`. `Crash` is a request cut short.

What an UPDATE's WHERE clause tests, it tests when the row is free, on the row as
it then is: that is READ COMMITTED's recheck, and it is what makes `claim` safe.

Properties.

- `ThreadIsOneLine`: positions are 1, 2, 3, ... although `next_seq` is read before
  it is used and nothing locks the thread. Proved.
- `ThreadTellsState`: the thread's last word about who is answering agrees with the row,
  at every commit and every crash. Proved.
- `KeptUntilReturned`: an agent loses a conversation only to the AI. Proved.
- `ImplementsOwnership`: with `state`, `agent` and the thread's last word as the
  refinement mapping, every commit is one step of `Ownership` and everything else a
  stutter. Proved.
- `RequestsEnd`: lock waits do not go round for ever. `PostAgentMessage` inserts
  and then updates, the transfers update and then insert, so deadlocks do happen;
  PostgreSQL's detector is an action, and without rollback releasing the lock the
  property fails.
- `DeadEndsAreUnseen`: once the tenant side is quiet, polls hand the conversation back, unless an
  agent holds it, the tenant's AI is off, or it is `OutOfSight`: never transferred (`handoff_at` is
  NULL) and nothing the tenant side did is among the last `Window` turns, so that every poll returns
  at `since is None`. That exception is a dead end the code has (section 12); the run's window
  is small enough for its threads to outgrow, and without the exception TLC reaches it.

Decisions. `next_seq` and `list_after` of a poll are one step (`ReadTail`); typing is read in
`Decide` only when a timeout is due, as in the code. Foreign-key locks (KEY SHARE) do not
conflict with an UPDATE of other columns and are left out. `resolved` is written by no use case;
the entities' transition methods (`Conversation.request_handoff`, `claim`, `return_to_ai`) are
called by none, so the WHERE clauses are the source of the guards. `RequestHandoff` is wired
without a summariser (`chatbot_router.py:410`) and writes no summary; `SelectHandoffTeam` writes
one itself. The turns of the session's memory that `_write_transcript` copies into a thread that has
none yet (`public_handoff.py:388`) are left out: they come before the marker, in the same
transaction, say nothing about who answers and write no row. A session with two conversations (`visitor_conversation.py:61` checks and inserts
under no unique index) is left out.

## 4. Sessions

`ReadCommitted` and `Sessions`, checked by `Sessions_*`, proved about in `SessionsProofs`. Every
property below is proved, but for `RequestsEnd` and the one that is refuted.

State. One account: the rows of the user (status, security stamp), its password,
an emailed link of each kind, sessions and refresh tokens, as `db` (committed) and
`draft` (what each open transaction wrote); `req` (use case, next statement, and
`copy`, each row as the request read it); MFA challenges in Redis. A stamp, a
password and a link's use are named after the request that made them. A token family
and a session are created together and stay together, so the family is the session.

Actions. Fourteen scripts (sign-in by password, OAuth and MFA challenge, refresh,
its reuse branch, logout, logout everywhere, change of e-mail, suspension,
reactivation, deletion, verification, password change and reset). `ReadRow` and
`ReadToken` read; `Admit` and `Refuse` are each use case's guards; `SaveRow` is a
repository's `save`, every column from `copy`; `RevokeAll`, `RevokeWaits`, `RevokeNext`
are `UPDATE ... WHERE revoked_at IS NULL`, with the wait for a row another holds and the
recheck; `Challenge` and `Consume` are Redis and survive a rollback.

Properties that survive every overlap:

- `DeadTokensStayDead`: a rotated or revoked token is never active again. It is not
  obvious: `save` writes what was read, and holds because only an active token is
  saved, always as rotated.
- `FamilyHasHead`: every session has a token that would not be taken for a replay,
  whatever crash falls between the insert of the new one and the mark on the old.
- `RequestsEnd`: use cases take the same rows in different orders and deadlock; all end.

Properties that hold until a save overwrites a change its request had not read.
`overwritten` is the history of the rows that happened to, and each property excuses
only the rows it is about; so a repository that tested what it read (a version
column, or a WHERE clause such as the revocations already have) would make each of
them hold under every overlap:

- `StatusMovesOnPurpose`, `SessionsFollowPassword` (after a
  password change no session signed in with the old one is valid).

No property speaks of a link that is used twice: two requests that read it unused both use it
(section 12), and nothing but the guard `LinkIsValid` would be left of one that excused them.

`ReplayEndsEverything` (after a replay is noticed nothing of the family is usable)
is claimed only when nothing overlaps: a token inserted by a refresh in progress is
not among the rows the revocation saw. `EndedSessionsStayEnded` is refuted.

Left out: expiry and rate limits (they refuse before a write) and audit rows. Lockout,
registration, MFA enrolment and unlinking are in `Accounts` (section 7). A challenge outstanding
across a password change opens a session that no password was checked for; its `password` is
`None` and `SessionsFollowPassword` does not speak of it.

## 5. Ingestion

`ReadCommitted` and `Ingestion`, checked by `Ingestion_*`, proved about in `IngestionProofs`
with the invariants of `IngestionInvariant`.

State. Rows of the knowledge base, its crawl, its documents, and each document's
passages (one value: the run that wrote them, since a job inserts all or fails on the
first that is there); `vectors` (the runs whose points a document has), `objects`
(bytes), `jobs` (queued). `req` is a console request or a job: its script, its next
call, what it read, the page it is at.

Actions. `Begin` and `TakeJob` start them. Each call is an action of its own:
`ReadKB`, `ReadDoc`, `ReadSource`, `ReadAll` and `CheckAtRest` (a knowledge base's documents,
then its sources, before its deletion), `Authorize` (`establish_job_context`),
`Load`, `Get`, `LookUp`, `SaveDoc`, `SaveDeleted`, `SaveOther`, `DeletePassages` (with
`DeleteWaits`), `InsertPassages`, `DropVectors`, `Embed`, `Upsert`, `PutNew`, `PutPage`,
`DeleteObject`, `Enqueue`, `Commit`, `NextPage`. `Recover` is where each kind goes when a
call raises: a job rolls back and records the failure in a transaction of its own; a
page's failure is only counted. `CallFails` fails any of them (an upsert before or after
its effect), `Crash` kills a worker (its job is redelivered) or a console request,
`Revoke` takes away the member the jobs act for, `DeadlockVictim` is PostgreSQL's.

Properties.

- `ReadyHasPassages`: the status and the passages are one transaction; nothing commits
  one without the other, however runs overlap. Proved.
- `ReadyIsSearchable`: a ready document nobody is working on has exactly the points of
  its stored passages. For an upload it holds however many runs overlap and whichever
  workers die, unless a retry can have brought it back from a deletion (`Revivable`); for
  a page, of runs that did not overlap and did not fail. Proved.
- `DeletedDoesNotAnswer`, `RunsAgree`: of documents two were never at work on at once.
  Proved.
- `DeletedStaysDeleted`: unless a retry and a deletion were there and requests overlapped
  on the document. Proved.
- `ProcessingEnds`: nothing stays in processing or syncing, though an upload's run and a
  page take the row and the passages in opposite orders.

The conditions are part of the result: each was weakened until TLC refuted the property
or the condition said what breaks it, and section 12 says what happens outside it.

Observed while modelling: `autoretry_for` of `tasks.py` never fires for uploads, whose
job swallows its exceptions; a failure-marking transaction that itself fails leaves the
document in processing; a knowledge base's deletion that is rolled back has already
dropped the points of documents that live on.

## 6. Quota

`Quota`, checked by `Quota_allowances`, proved about in `QuotaProofs`: all six properties are
theorems.

State. `redis` is the keys that exist and their counts (a widget and a tenant counter
per day, a token counter for the month); `ledger` the rows by day and their tokens;
`req` the call each question is at, the day it reserved, the value it is about to seed,
what its answer cost; `tally` what questions really cost.

Actions. A question's calls in order: `ConsumeWidget`, `GiveBackWidget`; `LookForDay`,
`SeedDay`, `SetDay` (SET NX from the ledger when the key is missing), `ConsumeMessage`,
`GiveBack`; `LookForMonth` ... `ReadMonth`; `NoSources` or `Ground`; `Generate` or
`StreamFails`; `LookToRecord` ... `RecordTokens`; `InsertRow`; and `LookToRelease`,
`Release` when the model was not reached. `CallRaises` fails any call; a Redis command
that raises may have been carried out or not. `RestartRedis` loses every key, `Midnight`
changes the day, `Crash` ends a question anywhere.

Properties.

- `WithinDailyLimit`: no more questions of a day reach a provider, or hold the right to,
  than the limit. `DebtIsCounted` says why: the counter covers those that reached one,
  those that hold a reservation, and those that have yet to give one back. Both are
  claimed while Redis keeps its keys and no release fell on another day.
- `WidgetWithinLimit`: the same of the widget's own counter.
- `RebuildIsExact`: at rest, a counter is what the ledger would rebuild it to.
- `CountedOnce`: no answer is counted twice in the month, whatever is lost and rebuilt;
  it depends on Redis being written before the ledger.
- `BoundedOvershoot`: the tokens beyond the month's allowance are those of the answers in
  progress as it was crossed.

Left out: key expiry, an uncapped tenant, the per-configuration budget (same shape), a
change of limit or time zone mid-question, the split of input and output keys, embedding
spend on a failed retrieval. A restart loses everything; the deployment's append-only file
loses about a second, which is less.

## 7. Access

`UnitOfWork`, `Policies`, `Tenancy`, `Platform`, `Accounts` and `Access`, checked by `Access`,
proved about in `AccessProofs`.

State. The rows of one tenant's people (memberships with their status, grants of roles,
roles with their codes, edges of the hierarchy, invitations, overrides), of the platform
(staff roles and grants, tenants with owners and status, plan, impersonation sessions) and of
accounts (users by status, addresses under their unique index, a row per way in, TOTP methods,
attempts, lockouts). A row is one value: the columns a guard reads, the others named after the
request that wrote them, so that a lost update shows.

Actions. A route (`InvitationRoutes`, `RoleRoutes`, ...) says who asks for what and which
statements the use case will read; `Read` is one of them, the first copy of a row staying, as
SQLAlchemy's identity map keeps it; the use case decides on the copies (`InviteMember`,
`AcceptInvitation`, `MoveMembership`, `AssignMembershipRole`, `CreateRoleHierarchyEdge`,
`CreateAuthorizationOverride`, `GrantPlatformRole`, `SuspendTenant`, `StartImpersonation`,
`RegisterUser`, `RegisterViaOAuth`, `UnlinkOAuthAccount`, `ConfirmTotpEnrollment`,
`RecordFailure`, ...); `Commit` or `Abandon` ends it. Effective permissions (`Authority`,
`MayHold`, `Overridden`) are computed from the copies, in the code's order; `Reached` is the
hierarchy's closure up to `MaxHierarchyDepth`.

Properties.

- `NoPowerFromNowhere`: whatever overlaps, no code is held or offered by a role that nobody
  held at first. The guard against escalation reads the actor's authority long before the
  grant is committed, and the grant of a role and the growth of that role are different
  requests; still every chain of them starts at a holder. Proved.
- `StatusMovesOnPurpose`: a suspended or revoked membership, a suspended tenant, is active
  again only by a request that says so, and a subject that was unlinked opens no account
  again; but for a row saved over a change its request had not read. Proved.
- `InvitationAcceptedOnce`: a link that comes back later gives nothing again. Proved.
- `CyclesNeedOverlap`, `WaysInNeedOverlap`, `LockoutNeedsOverlap`: the hierarchy stays acyclic
  (while `MaxHierarchyDepth` covers the roles), an account keeps a way in and exactly one
  primary TOTP method, and is locked after `max_failed_attempts` wrong passwords in any order
  of refusals and successes, unless two requests decided on the same rows at once. Only that
  overlap is excused: two edges, two unlinks, two confirmations, two counts. Proved.

`ScenesAssumption` says of a database to start from what the program has seen to before: no
cycle, a way into every account, one primary method among those confirmed, accounts with too
many wrong passwords locked out, and nothing yet in the rows that the requests to come number.

Left out. A missing feature of the plan is part of `MayHold`. Settings no guard reads. The
permission check of `CreateUser` (only permitted requests are started). Time passes in
`Accounts` only as a lockout that is over at first. Links, sessions and the rehash of a
password are in `Sessions`. Refusals for the input alone (a weak password, a wrong code, a
rate limit) write nothing.

## 8. Worker runtime

`WorkerRuntime`, checked by `Runtime`, proved about in `WorkerRuntimeProofs`.

State. The fields of `_WorkerRuntime` (`thread`, `loop`, `failed`, `active`, `stopping`),
the life of each thread it has made, its ready and stop events, where each of Celery's
threads and each shutdown is, and the container with its lock and those not yet closed.

Actions. What a thread does under `_state_lock`, or a coroutine between two awaits.
`start`: `FindLoop`, `FindThread`, `StartThread`, `Wake`; `run`: `Accept`, `Return`; the
coroutine: `StartBuilding`, `AwaitLock`, `FindContainer`, `Built`, `BuildFails`, `JobEnds`; the
loop's thread: `Publish`, `StartFails`, `SetReady`, `LoopEnds`, `ThreadEnds`; `stop`: `Stop`,
`Drained`, `Follow`, `Dispose`, `Disposed`, `NothingToStop`, `Join`, `JoinOther`.

Properties.

- `RunsToTheEnd`: while a call is counted, its loop is the one there is, serves, and has not
  been told to stop, whenever a shutdown comes. Proved for any number of threads.
- `SharedContainer`: one container, built on the loop that uses it, and none left open. Proved.
- `EveryoneReturns`: every call returns and every shutdown ends, but for the shutdown that
  looks for the loop between the new thread's start and its publication of the loop: it tells
  nobody to stop and joins a thread that serves for ever (`tasks.py:472`).

Left out: `thread.start()` itself raising, and a `stop` that comes after that; and
`container.shutdown()` raising, after which `stop` still ends the loop and
raises the error, but `_container_lock = None` is skipped (`tasks.py:598`): a lock of the dead loop
stays, and what was not closed stays open.

## 9. Console

`Catalogue`, `Chatbot`, `Dialogue` and `Console`, checked by `Console`, proved about in
`ConsoleProofs`: all six properties are theorems.

State. Models and grants to the tenant, provider keys, assistants with model, visibility and
members; the plan, the chatbot's settings, widgets and their knowledge base, teams and rosters,
browsers' subscriptions, ratings; conversations with their messages, the summary's reach
(`through`) and what went into it (`folded`), and whether they were used within the retention
period (`recent`).

Actions. As in section 7, one use case per action: `CreateModelConfiguration` to
`RevokeModelConfigurationFromTenant`, `StoreProviderCredential` to `SetModelCredential`,
`CreateAssistant` to `RevokeAssistantAccess`; `SetTenantEntitlements`, `CreateKnowledgeBase`,
`CreateChatWidget` to `DeleteChatWidget`, `UpdateChatbotSettings`, `SaveTeam`, `SubscribeToPush`,
`NotifyAgentsOfHandoff`, `RecordWidgetFeedback`, ...; `StartConversation`, `AppendTurn` and its
continuation `Remember` (title, time of use and compaction in one save), `RecallThread`, `RenameConversation`,
`DeleteConversation`, `PurgeExpiredConversations`. Foreign keys and unique indexes are conditions
on the committed rows and on other transactions' drafts (`Unreferred`, `Referable`, `NameIsFree`).

Properties.

- `LittleIsUntold`: what a question tells the model of the conversation (`RecallThread`). It
  reads the conversation, then the messages after its summary (`answer_question.py:541`, `548`),
  and tells the summary, as much of it as `MAX_SUMMARY_CHARS` leaves (`Summary`), and the last
  `RECENT_TURNS` messages (`RecentOf`). Whatever others append, rename, delete or compact between
  and before the two reads: nothing is told twice; a message that is not told is older than all
  that are, cut from the summary's front, or waits for the next compaction; and at most
  `COMPACT_AFTER_MESSAGES - RECENT_TURNS` wait, unless the summary moved between the two reads or
  an older copy was saved over a newer.
- `ReferencesHold`: nothing refers to what is gone, the one reference the database does not
  keep (a widget's knowledge bases) only after an overlap.
- `LimitsNeedOverlap`: no more rows than were ever allowed unless one was counted before
  another was committed; a widget's daily limit and the chatbot's were never above the plan's.
- `OffOnPurpose`, `KeptWhileUsed`: what was switched off, archived or revoked works again, and
  a conversation in use goes, only by a request for that, but for a row saved over a change
  its request had not read.
- `RosterIsAsSaved`: overlapping saves of a team take turns, its members are never a mix.

Left out. The checks of permission and requester that only refuse (only permitted requests
are started), lists, texts and colours. A plan's `None` (unlimited) is a large limit. There is
one visitor's conversation per widget, and time passes only as a conversation that is not
recent at first. Assistants, provider credentials and assistant members have no route since
migration `f1c94a70b2d8`; their use cases are modelled as the code has them. The summary is the
newest messages folded into it: that the oldest line kept may be cut in its middle
(`conversation_memory.py:159`) is not told apart. `for_model` withholds nothing from a member's
own conversation, which is the one the model has.

What a database to start from may be is an assumption of the module, `ScenesAssumption`: within
its plan, nothing referring to what is not there, conversations with their messages numbered in
order and a summary of exactly those it reaches. TLC evaluates it on the scenes of the run. A
conversation that is not there belongs to `Nobody`, who is no user.

## 10. Runs, bounds and fairness

| Run | Expect | Asks |
|---|---|---|
| `Handoff_safety` | pass | Two agents and a tab, three requests, polls without limit, one request cut short: is the thread one line, does it tell the state, does each commit implement `Ownership`? |
| `Handoff_liveness` | pass | Two requests and a crash: does every request end, and which conversations are never handed back? |
| `Handoff_quiet` | violation | Does the AI stay out of a thread an agent has just written in? |
| `Sessions_safety` | pass | Three requests of ten use cases, two at a time, one cut short: what survives every overlap? |
| `Sessions_live` | pass | Two requests of all use cases, one cut short: does every one end? |
| `Sessions_ended` | violation | Does an ended session stay ended? |
| `Ingestion_safety` | pass | Console requests of six kinds with their jobs, two at a time, and faults of eight kinds: do the stores agree? |
| `Ingestion_live` | pass | Retries and re-crawls, one fault: does processing end? |
| `Quota_allowances` | pass | Three questions, two at a time, two days, two faults of five kinds: do the allowances hold? |
| `Access` | pass | Two requests at a time over fourteen databases of members, roles, staff, tenants and accounts: is authority never made up, does no status come back by accident, and what needs an overlap to break? |
| `Runtime` | pass | Two task threads, two shutdowns, three loop threads one after another: is no accepted call cut short, is the container shared, does everyone return? |
| `Console` | pass | Two or three requests, two at a time, over thirteen databases of models, assistants, widgets, teams and conversations: do references, limits, rosters and the memory hold? |

**Bounds.** Two requests in progress are what every race in these components needs: each
is between a request that read and one that wrote in between; the third of
`Sessions_safety` and `Quota_allowances`, which comes before or after, sets up the
state (a token to replay, a counter at its limit) or looks at what is left.
`Handoff_safety` has three concurrent parties because a claim and a reply are by different
agents while the visitor polls.

- `Handoff`: timeouts are 1 and 2 units, so a clock of 3 (safety) reaches both; `MaxLag`
  is how long a transaction may stay open, 3 units being longer than both timeouts;
  `Horizon` is the last unit in which anyone but a poll begins, `MaxTime` leaves the
  polls the time to run out both timeouts after it; `Window` is 8 turns for safety, more
  than the bounded threads have, and 2 for liveness, which an exchange of visitor and AI fills,
  so that an agent's message falls out of it.
- `Sessions`: identities of sessions and tokens exceed the requests that can make one
  (assumed). `Sessions_safety` leaves out OAuth, e-mail change and log out everywhere,
  whose statements are those of a login without a password and of a suspension;
  `Sessions_live` has them.
- `Ingestion`: two documents, so that a page can be a new document beside an existing one
  and a knowledge base has one document purged after another; one URL; as many run
  identities as three requests and two redeliveries can make. `MaxEvents` is 3: three
  requests, or two and a fault, or one and two faults, in any order and overlap. `Ingestion_live` has one
  fault, of a worker, a provider or a store. Faults that the code does not survive (a
  failed enqueue, a revoked member, a dead console request between commit and enqueue)
  leave a document in processing and are the subject of section 12.
- `Quota`: limits of 2 (tenant), 1 (widget) and 1 token, costs 0 or 1, so that each
  allowance is reached and crossed.

- `Access` and `Console`: a *scene* is a database to start from with the use cases it runs,
  those that read or write the same rows; all scenes are initial states of one run, which is
  the whole product cut along rows that nothing shares. A scene may count requests as made
  *already*, so that `MaxRequests = 3` allows two requests in `Access` (its scenes put in the
  database what a third would have set up: an invitation, a suspended member, a failed
  attempt) and three in the scenes of `Console` whose states are few enough. Two members, two
  roles one of which can grow, one override, one invitation, two tenants, two staff users, two
  subjects, four addresses (two of them the subjects' placeholders) are the least for which one
  person can act on another and a row be taken. Codes nobody holds ("unheld") are there for
  `NoPowerFromNowhere` to find. `MaxFailedAttempts = 2` so that two overlapping refusals reach it.
  `MaxHierarchyDepth = 8` exceeds the roles, as in the code it exceeds any sensible hierarchy; a
  longer chain is not seen by the guard.
  In `Console` the limits are 1 or 2, one rating per visit, `CompactAfter = 2` and
  `RecentTurns = 1`, half of it as in the code, and eight messages: the two there and three turns,
  so that a compaction, another turn and a second compaction all happen. `SummaryLines = 2`: the
  second compaction cuts the summary's front, and a later question is not told the first message.
- `Runtime`: two callers, two stoppers, three threads: a start that fails, a loop that is
  stopped and one that replaces it.

`CHECK_DEADLOCK FALSE` in Sessions, Ingestion, Quota, Access and Console: requests are bounded,
and once they are used up the system stops; the same bounded runs would stutter for ever in the
code. In Runtime the number of threads is. The Handoff runs check deadlock, the clock and the
polls going on till the end. Symmetry is over agents, requests or questions, only in runs of
safety properties.

**Fairness.** `SF(Statement(p))` of Handoff and Sessions and `SF(Call(p))` of Ingestion: a
live process goes on, and PostgreSQL's lock queues are first come, first served, so that
a waiter whose row is free again and again gets it. Weak fairness would let a waiter
starve, which the database does not. In Handoff also `WF` of a tab's poll (an open widget
polls on a timer) and of `Tick`. No request begins by fairness, nothing has to fail, and
a crashed request need not return. In Ingestion a free worker takes a queued job, which is
in `Call`. In `WorkerRuntime` threads are scheduled and jobs end (`WF`); the coroutines have
`SF`, because `_container_lock` is an `asyncio.Lock`, whose waiters are served in order, so that
one that finds the lock free again and again gets it. Nobody has to call or to stop.
`Access` and `Console` check only safety and need none.

## 11. Proofs

All statements are for every value of the constants, under the named assumptions of the
modules; two further hypotheses are said in the table.

| Module | Theorem | Says |
|---|---|---|
| `HandoffProofs` | `TypeCorrect` | `Spec => []TypeOK` |
| | `ThreadStaysOneLine` | `Spec => []ThreadIsOneLine` |
| | `ThreadAgreesWithRow` | `Spec => []ThreadTellsState` |
| | `AgentsKeepTheirConversations` | `Spec => KeptUntilReturned` |
| | `HandoffImplementsOwnership` | `Spec => ImplementsOwnership` |
| `SessionsProofs` | `DeadTokens` | `Spec => DeadTokensStayDead` |
| | `StatusIsMovedOnPurpose` | `Spec => StatusMovesOnPurpose` |
| | `SessionsKnowThePassword` | `Spec => []SessionsFollowPassword` |
| | `EveryFamilyHasAHead` | `Spec => []FamilyHasHead` |
| | `ReplayIsAnswered` | `Spec => ReplayEndsEverything` |
| `IngestionProofs` | `ReadyDocumentsHavePassages` | `Spec => []ReadyHasPassages` |
| | `DeletedDocumentsDoNotAnswer` | `Spec => []DeletedDoesNotAnswer` |
| | `DeletionsLast` | `Spec => DeletedStaysDeleted` |
| | `RunsEndAlike` | `Spec => []RunsAgree` |
| | `ReadyDocumentsAreFound` | `Spec => []ReadyIsSearchable` |
| `QuotaProofs` | `TypeCorrect` | `Spec => []TypeOK` |
| | `DailyLimitHolds` | `Spec => []WithinDailyLimit` (*) |
| | `DayCounterCoversDebt` | `Spec => []DebtIsCounted` (*) |
| | `WidgetLimitHolds` | `Spec => []WidgetWithinLimit` (*) |
| | `AnswersCountedOnce` | `Spec => []CountedOnce` |
| | `CountersMatchLedger` | `Spec => []RebuildIsExact` (*) |
| | `OvershootIsBounded` | `Spec => []BoundedOvershoot` (*), if one cost is the greatest |
| `AccessProofs` | `AuthorityIsHandedOn` | `Spec => []NoPowerFromNowhere` |
| | `SuspendedUntilRestored` | `Spec => StatusMovesOnPurpose` |
| | `InvitationUsedOnce` | `Spec => InvitationAcceptedOnce` |
| | `HierarchyStaysAcyclic` | `Spec => []CyclesNeedOverlap` |
| | `AccountsStayOpen` | `Spec => []WaysInNeedOverlap` |
| | `LockedOutInTime` | `Spec => []LockoutNeedsOverlap` |
| `WorkerRuntimeProofs` | `AcceptedCallsRunToTheEnd` | `Spec => []RunsToTheEnd` |
| | `OneLoopAtATime` | at most one loop thread is alive |
| | `JobsShareOneContainer` | `Spec => []SharedContainer` |
| `ConsoleProofs` | `OffStaysOff` | `Spec => OffOnPurpose` |
| | `UsedIsKept` | `Spec => KeptWhileUsed` |
| | `RosterIsTheLastAsked` | `Spec => RosterIsAsSaved` |
| | `ReferencesAreKept` | `Spec => []ReferencesHold` |
| | `LimitsAreKept` | `Spec => []LimitsNeedOverlap` |
| | `MemoryGapsAreShort` | `Spec => []LittleIsUntold` |

(*) the questions in progress, `Requests`, are finitely many. That one cost is the greatest
(`SomeCostIsGreatest`) is what a provider's limit on an answer's length says.

`TypeOK` is an invariant of no run: where it matters it is a theorem. Each `Inv` below is an
inductive invariant: it holds initially, every step keeps it, and it implies the property.

**The thread.** `ThreadIsOneLine` is not inductive: it says nothing of the positions a
transaction has read and not yet used. `LinesUp` adds that the uncommitted messages of any
transaction continue the committed thread and that nobody holds a `next_seq` beyond its end. A
commit can then only extend the line, because two transactions with uncommitted messages would
have to hold the same position, which the unique index makes one of them wait for
(`AddMessage`'s guard).

**The last word.** That the thread tells the state needs to know, of each transaction, how far it
is: `Stage` is a request that is closed, polling, replying (message first, then the row),
preparing (the row first, then the message), holding the row with the message still to come, or
only noting something. `Holding` says what the transaction has done to the row *in terms of the
word it has written or still owes* (`Moved`). As only one transaction holds the row, what it
has moved is the committed row, and its commit changes row and word together. `Moved` is also
the step of `Ownership` the commit stands for: the refinement has one lemma for commits, and
everything else leaves row, agent and last word alone.

**Drafts.** Saves write what was read long before, so the arguments about rows are about what
transactions hold: a step of a request changes its own draft only, a commit makes the draft the
database, and `OneWriter` says that no other draft has that row. What is committed is then what
one request decided, on values that are either as committed or in `overwritten`.

**Dead tokens, status.** `DraftInv`: the only active token a transaction can hold is one
it inserted itself, whose row is still absent from the table and from every other draft.
Everything else it holds for a token is rotated or revoked, and a commit can only kill.
`RowInv` says the same of the account's rows: what a request holds of the user or the password
is what its use case makes of the value it read (`SavedAsRead`), and that value is
the committed one, or the row is in `overwritten`.

**Passwords.** `Stamps` (while neither user nor password was overwritten) follows the security
stamp: a session with the account's stamp, committed, drafted or read, was signed in with the
account's password, as was a login under way that read that stamp. A new stamp comes with every
new password, and `Known` says that the one a change in progress will write is nowhere yet.

**Heads and replays.** `FamilyInv` says that every session, committed or in a draft, has a token
that is not rotated, or is about to: `NewHead` is the token a refresh has inserted and not yet
committed, which it holds in the same draft as the mark on the old one. `ReplayInv` is for when
requests take turns: alone, a reaction to a replay has after each of its calls ended the rows
that call was about, and nothing is inserted behind it.

**Ready documents.** One transaction at a time: `SoundDraft` says, for each place in each script,
what the draft says of a document's status and of its passages. A draft that makes the document
ready has its own passages; one that deletes the passages also moves the status back or
deletes the document; and one that says nothing of the passages says nothing that could make
the document ready. Committing a sound draft over any committed state that satisfies the
property leaves it satisfied; no lock is needed. The other four theorems need to know who else
is there, and rest on three more invariants, each proved on top of the one before.

**Deleted documents.** `KInv`: a document that was never crossed has at most one request at work
on it (`Alone`), so a deletion past its `dropVectors` (`Cleared`) finds no points left and no run
that would put others there. Of a document that was crossed it says only that no draft brings a
deleted row back, unless a retry may (`FitDraft`): a save takes the deletion from the row as it
sees it and holds the row from then on, the retry's alone from what it read. A queue entry of a document implies its row is there, so nobody is at work
on a row that is still absent but the one who will insert it; that is what lets an insert be the
first. `Keeping` is what each move but a commit does for it, `KeptDocs` puts the moves together,
`CommitKInv` is the commit, by `OneWriter` again. `Crossing` counts with `Cardinality`: two
requests at work make it exceed 1 because `Requests` is finite.

**Runs that agree.** `RInv` adds what is still to come: a document with text that is not ready
has a job queued or somebody who will queue one or end it (`Promises`). It is not inductive
without the run's own past: that the bytes it read are the bytes stored, that after clearing
there are no passages but its own (so that its insert cannot be refused), and that a run which
failed had no text or a failed call (`Undisturbed`). A member's revocation drops jobs, so
authorisation is a failure like the others (`RDocs`).

**Points.** The row and the passages are one transaction, the points are not, so `SInv` relates
the stored passages, the points and every run under way. For an upload, whose runs may overlap:
a run that has dropped the points and may still insert its passages has left no points or only
its own, *or another run is queued or under way* that will clear them (`RunPoints`, `Rerun`). Runs
cannot leave points behind each other because the insert comes between the clearing and the
upsert: it waits for another run's uncommitted passages, and fails on its committed ones before
anything is upserted. So of two that overlap one ends in failure, and it does so before its upsert.
A run that fails had no text or was refused by passages that are committed (`Leaves`), and its
failure is still to be recorded; a worker's death leaves its job. For a page, which is one request at a time while
uncrossed, the points are its own outright (`PagePoints`). A deletion under way takes the row
with it and cannot be stopped while no call fails (`Deletes`), so the argument is only about
documents that are `Calm`.

`KInv`, `RInv` and `SInv` were checked by TLC before they were proved: on the instance of
`Ingestion_safety` (772,639 states), and on one document with three requests in progress, four
retries and deletions and a worker's death (1,689,830 states). The second kind of instance
refuted an earlier form of `ReadyIsSearchable`, which knew nothing of `Revivable` (section
12), and the property and `DeletedStaysDeleted` now share that condition.

**The daily limit.** The invariant is the debt: the day's counter is at least the questions
that reached a provider plus those with a reservation plus those yet to give back, each day
by itself. A reservation that increments past the limit owes its increment back, so it holds
no right. Finite sets and cardinalities come from `FiniteSetTheorems`; the condition `KeysKept
/\ ~tally.strayed` is what makes `RestartRedis`, `SetDay` and `Release` go through. The
widget's limit is the same argument without a ledger.

**The month.** A sum over the questions in progress would be defined by recursion and need
induction. `Tokens(calls, r)` is instead a *set*, of as many pairs per question as its answer
cost, whose size is the sum. `MonthInv`: the ledger's tokens with those still to be inserted,
and the counter, or a value about to be seeded, with those still to be recorded, are at most
what was spent. While only providers fail these are
equalities (`ExactMonth`, and `ExactDay` for the day's counter), which at rest is
`RebuildIsExact`. `Overshoot` bounds what was spent, together with the greatest cost for each
question that has passed the check and has no answer yet, by one less than the allowance and
the greatest cost for each question there can be.

**Authority.** `given` is what anybody ever held. Every value of a row, committed, drafted or
read, hands out only given codes (`RowOk`); a request's authority is computed from the copies it
has read, so it is within `given`, and what the guard against escalation lets it write is within
its authority. `MoveOk` is what each use case may do to a row it saves over nothing, from which
the two action properties follow at the commit.

**What overlaps excuse.** The other three properties of `Access` say that what a guard checked on
its copies is still so when its write is committed. `JInv` has the two halves of that. `Rule`
is what a draft may hold of an edge, an account, a way in, a method, an attempt or a lockout
and, with it, what its request found in its copies when it wrote: no path back (`EdgeRule`),
another way in (`Unlinked`), no primary method or one (`Confirmed`), the failures counted
(`Counts`). `Grows` is what a row may have become since a copy of it was read: an account does
not disappear, a way in or a method does not change hands, a confirmed method stays as it is
while the methods are `Settled`. `NumbersSound` keeps the rows of a request under way unused. A
commit then either finds its copies as the database is, and the guard holds of the database, or
leaves a row in `unseen`, which is the excuse. That the code's search, `Reached`, finds every
path needs the hierarchy itself: a search that still grows has grown by a role in every round
(`ChainCloses`), so after as many rounds as there are roles it is closed, and it is the least
such set (`WithinIsLeast`); an edge whose end does not reach its start closes no cycle
(`EdgeAdded`). The induction over the rounds is by a smallest round that fails.

**The worker's loop.** `Counted` says that `_active_calls` is the number of calls between
`Accept` and `Return`; `OneStop` that one shutdown at a time owns the stopping, and that past
its drain nobody is accepted; `OneThread` that the thread known is the only one alive, that a
published loop is its own, and that nothing is signalled before it serves. A shutdown captures
the loop when nobody is counted, and from there on `Accept` refuses, so the loop it stops has no
calls. `OneContainer` adds that who builds holds the lock, and that the container is the only
one open until a shutdown takes it, which then holds it alone.

**The console's rows.** `Lasting` says, use case by use case, what a draft may do to a row that
nothing was overwritten in; `IInv` keeps it of every draft until its commit, where it gives
`OffOnPurpose` and `KeptWhileUsed`. `RosterInv`: a save that has taken the team's row holds a
lock no other save gets past, so the rows it has not read yet are not in any draft.

**References.** `Rule` is what foreign keys and unique indexes demand when a row is written
(`Stored` says a use case writes only such rows). `RefInv` relates two transactions: if one has
written a row that refers, no other has removed, or will find unreferred, the row it refers to.
The widget's bases, which no key guards, are kept while nobody's copy is in `unseen`
(`BasesHold`).

**Limits.** `roof` is the most a plan ever allowed. A request that creates has counted its copies
and found fewer than the plan it read, which is under the roof (`RoofInv`, `CopiesUnder`). If its
copies are what is committed, the rows there are at most its count plus its own one; otherwise a
row it counted is in `unseen`, which is the property's excuse. `CountInv` holds at the commit
that counts, by `FiniteSetTheorems`.

**The memory.** `MemInv`: the messages there are numbered `1..k` with no gap (`SentInv`), what a
request has written of them is the next exchange or their deletion (`MessagesInv`), and what a
draft or a copy says of the summary is true of the messages there or seen (`DraftedInv`,
`CopiedInv`: `folded = 1..through`, and no more than `CompactAfter` after it once remembered).
Compaction reads the messages between `through` and the last `RecentTurns`; that the set it
folds is the interval that was missing is interval arithmetic (`CompactedFits`), and that a rename
or a second turn in between writes neither field is the case analysis. `RecallInv` is about the
question: a message it has read goes only with its conversation. If the reach it read is still
the conversation's, what lies behind it is then no more than `MemInv` allows, `CompactAfter`
(`TailIsShort`), and what waits is that less its newest (`AllButTheNewest`). Both were checked by
TLC on the run's 295,006 states before they were proved.

**Only model-checked.** Liveness and fairness (`RequestsEnd`, `DeadEndsAreUnseen`, `ProcessingEnds`,
`EveryoneReturns`), out of the provers' reach; and the two violations, which are
counterexamples. Every invariant and every action property of a passing run is a theorem.


## 12. Where the code and its documentation disagree

With a run (PROJECT.json's `findings` quotes both sides):

- `Handoff_quiet`: the ask path never reads `Conversation.state` (`public_chat.py:321`), so
  a second tab that asks is answered by the AI in the middle of an agent's conversation. (A thread
  that only waits in a queue is the AI's to answer: `public_conversation.py:133-144`.)
- `Sessions_ended`: a refresh that read the session before a logout saves it back live
  (`refresh_session.py:119`).

Seen while modelling; the condition of a property excludes it, or no property speaks of it:

*Handoff.* Two tabs polling at once both hand the conversation back and both tell the visitor
that nobody is available: `set_state` has no state in its WHERE clause (`governance.py:536`), so
the row count the comment relies on is 1 for both. Two tabs both append the waiting notice
(`public_conversation.py:427`; the docstring at 504 says it holds across two tabs). A poll that
read the thread before an agent's message clears the agent's assignment after it (469; 356-360
says working the conversation resets the clock). A summary whose flush fails poisons the session
and the transfer is lost (`public_handoff.py:521`; 490-493 says the handoff must still succeed).
The timeout returns an agent's conversation (469; `entities.py:737-742` forbids exactly that).
An agent's message on a conversation never transferred, once twenty other turns are newer, is
seen by no poll, and the conversation never goes back to the AI (403; line 341 promises no dead
end): `Handoff_liveness` reaches it, and `DeadEndsAreUnseen` says it is the only one. `PostAgentMessage` does not move
`last_message_at`, which the purge measures by.

*Sessions.* Two overlapping refreshes of one token both succeed (`refresh_session.py:116`;
`docs/05-authentication-flows.md:128`). A login in progress saves a suspended user back as
active, and a changed password's stamp back as the old (`login_user.py:160`;
`manage_users.py:217-221`, `password_reset.py:138-139`). Two resets in progress use one link
(`password_reset.py:143`; `docs/11-schema-global-identity.md:157`). `VerifyMfaChallenge` opens a
session without asking `can_authenticate` (`mfa.py:208`; `entities.py:49`). VerifyEmail with a
link sent before `UpdateUser` changed the address marks the new address verified
(`entities.py:118-120` says that must not be asserted).

*Ingestion.* A job past `_load_document` puts the points of a deleted document back
(`indexing.py:202`; `manage_document.py:277-279` says it is already unable to answer, and
retrieval does not ask whether a document is deleted). A retry that read the document before
its deletion saves it back live (`manage_document.py:206`), and a job that began before the
deletion can then mark it ready over points the deletion did not see. Two overlapping runs of one good
document end with it failed, the second's insert being refused (`indexing.py:173`;
`process_document_upload.py:21-23`: "Running twice produces the same state as running once").
A crawl queued before its knowledge base was deleted writes into it
(`delete_knowledge_base.py:106`; 21-22). A dropped job, or a failed enqueue, leaves a document
in processing (`process_document_upload.py:148`, `manage_knowledge_base.py:283`; 6-8: "Every
exit path is terminal"). A page that fails during a re-crawl is rolled back to ready, but its
points were dropped outside the transaction (`process_url_crawl.py:344`).

*Quota.* A counter rebuilt while answers are in progress misses them (`tenant_quota.py:172`);
the widget's counter restarts from nothing (`widget_quota.py:50`; line 190 of
`docs/22-deployment-and-operations.md` for both); several answers in progress cross the token
allowance together (`answer_question.py:648`); an answer whose stream fails keeps the message it
took (`public_chat.py:414`; 405-409). A message reserved before midnight and released after it
is taken off the new day's counter (`tenant_quota.py:272`).

*Access.* `compute_effective_tenant_state` passes no codes for inherited roles, so a role's
hierarchy grants nothing (`manage_role_hierarchy.py:4-6`). Overrides of one code apply in the order
listed, the last winning, with no ORDER BY (`docs/14-schema-tenant-authorization.md`: deny always
wins). A membership's `save` undoes a concurrent revocation
(`docs/13-schema-tenant-management.md:206`: revoked is terminal), and a revoked or suspended member
who accepts an invitation stays so but receives its roles. Two overlapping edges close a cycle that
`validate_hierarchy_edge` refuses one at a time (`domain/shared/policies.py:73` calls it the one
place where a cycle can be kept out). The token of an impersonation is refused by `authn.py`, its
session being no row of `sessions` (`start_impersonation.py:9-16`).

*Accounts.* Two overlapping unlinks each see the other identity and leave no way in
(`oauth_login.py:228`); two overlapping confirmations make two primary methods (`mfa.py:162`
counts nothing it locks); overlapping refusals each count without the others, and the lockout
comes later than `max_failed_attempts`. Wrong MFA codes never lock an account, and neither the
MFA challenge nor the OAuth sign-in asks for a lockout. An account registered by OAuth without
an e-mail stays pending, and `LoginExisting` asks `is_active` (`oauth_login.py:77`), so it never
signs in again (`entities.py:49-54`: pending must be admitted); anybody may register the address
its placeholder is (`oauth_login.py:156`). An unlinked subject can never be linked again, its
row staying; an OAuth sign-in saves `revoked_at` as it was read, so that an overlapping unlink
is undone. `linking_user_id` is always `None` in the only route, and `UnlinkOAuthAccount` has
none.

*Worker runtime.* `stop` between a thread's start and its loop's publication tells nobody to stop
and waits for ever (`tasks.py:472`; `stop`'s docstring: "Drain work, clean up async resources, and
stop the runtime").

*Console.* The memory has a gap: the context of an answer is the summary and the last
`RECENT_TURNS` messages (`conversation_memory.py:125`), compaction waits for more than twice as
many, so up to as many messages are in neither (lines 5-19 say the summary is of everything
before the recent turns); `LittleIsUntold` says that it is no more. `Conversation.compact` "refuses to move backwards"
(`entities.py:639`), but a rename saves an older summary, reach and time of use over newer ones
(`repositories/ai_resources.py:492`), after which the purge may take a conversation used since.
`ArchiveAssistant`'s docstring says an archived assistant can no longer be modified
(`manage_assistant.py:331`); updating and sharing do not ask. A widget's edit that overlaps its
being disabled enables it again, a key's rotation that overlaps its revocation un-revokes it
(`entities.py:909-911` refuses it one at a time), two edits of the settings lose one. A default
team whose insert is refused poisons the session that the list goes on with
(`manage_chatbot.py:345-348` says it must never take the list down).

## 13. What is not modelled

Reasons, component by component, are in PROJECT.json. In short: text and its functions
(prompts, guardrails, parsing, chunking, ranking) are inputs; dashboards, audit and activity only
append or read; row-level security is one tenant at a time, which every module is; the rate
limiter refuses before anything is written; the browser's console and the demo site call the API;
migrations and scripts run alone. Deletion of a knowledge base is in `Ingestion` with its documents
and in `Console` with the widgets that use it, the two not composed: the one is about stores, the
other about rows.

Hazards without a property, for the record: a poll that decides on a thread read before the
agent's answer (`public_conversation.py:469`), and two polls that both write the notice (`427`); the failing flush of a summary
(`public_handoff.py:521`); a job's upsert after a deletion (`indexing.py:202`), jobs that
outlive their knowledge base (`delete_knowledge_base.py:106`), an enqueue that fails after the
commit (`manage_knowledge_base.py:283`); a counter rebuilt while answers are in progress
(`tenant_quota.py:171`) and an answer that fails after its message was taken
(`answer_question.py:1046`). What the code does there is in section 12; a property that held
would have to exclude them, as `DeletedDoesNotAnswer` or `RebuildIsExact` do.

## 14. Plan

Done, in this order: `ConversationStore` and `Handoff` with `Ownership` (the product's core
promise, and the hardest races), `Sessions`, `Ingestion`, `Quota`, `Access`, `WorkerRuntime`,
`Console`, and the theorems of section 11.

Next theorems: that the detailed modules implement the abstract specifications below.

Next models: the rate limiter's windows beside the lockout; the per-visitor memory in Redis; the
relevance gate and the chunking as pure functions.

Abstract specifications to state: an account's sign-ins without transactions (a session is
opened, refreshed and ended once) for `Sessions` to refine while nothing is overwritten; a
document as absent, searchable or gone for `Ingestion`; a conversation's summary as a set of
messages for `Dialogue`.
