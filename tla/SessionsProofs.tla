---------------------------- MODULE SessionsProofs ----------------------------
(***************************************************************************)
(* What a user's credentials can no longer do, however many requests       *)
(* overlap: a dead refresh token does not come back, a status moves on     *)
(* purpose, sessions follow the password, a family has a head, a replay    *)
(* ends everything.  Saves are unconditional and write what was read long  *)
(* before, so every argument is about drafts: the only active token a      *)
(* transaction can be holding is one it inserted itself, which no          *)
(* committed row and no other draft knows of.                              *)
(***************************************************************************)
EXTENDS Sessions, FiniteSetTheorems, TLAPS

Kinds == DOMAIN Script \cup {"idle"}
Presented == {"refresh", "reuse", "logout"}

(* What the argument needs of a request: the tokens it has read are tokens, *)
(* and a use case that works on a token was given one.                      *)
SoundReq(q) ==
    /\ DOMAIN q = {"kind", "step", "id", "token", "password", "new", "copy", "todo"}
    /\ q.kind \in Kinds /\ q.step \in Nat \ {0}
    /\ q.token \in Tokens \cup {None} /\ q.new \in Tokens \cup {None}
    /\ q.kind \in Presented => q.token \in Tokens
    /\ DOMAIN q.copy = Rows
    /\ \A t \in Tokens : q.copy[t] \in TokenRows

ReqInv ==
    /\ DOMAIN req = Requests
    /\ \A p \in Requests : SoundReq(req[p])

(* What a transaction may hold for a token: nothing absent, and nothing     *)
(* active but a token that is not in the table yet.                         *)
SoundDraft(t, value) ==
    /\ value \in TokenRows /\ value.state # "absent"
    /\ value.state = "active" => db[t].state = "absent"

DraftInv ==
    /\ DOMAIN draft = Requests
    /\ OneWriter
    /\ \A t \in Tokens : db[t] \in TokenRows
    /\ \A p \in Requests : \A t \in Tokens \cap Wrote(p) : SoundDraft(t, draft[p][t])

IInv == ReqInv /\ DraftInv

(* The rest of the argument is about every row.  What is in the table, in a *)
(* draft or in what a request has read is a row of its kind.                *)
Numbered ==
    /\ begun \in 0..MaxRequests
    /\ \A p \in Requests : req[p].kind # "idle" => req[p].id \in 1..begun
    /\ \A p, q \in Requests : p # q /\ req[p].kind # "idle" /\ req[q].kind # "idle"
                                => req[p].id # req[q].id

TypedRows ==
    /\ \A r \in Rows : db[r] \in ValuesOf(r)
    /\ \A p \in Requests :
          /\ req[p].kind = "login" => req[p].password \in Numbers
          /\ \A r \in Rows : Copy(p, r) \in ValuesOf(r)
          /\ \A r \in Rows \cap Wrote(p) : draft[p][r] \in ValuesOf(r)

(* What a request has been admitted with, and where in its use case it is   *)
(* when it has written the account's row.                                   *)
SavesUser == [login |-> 6, oauth |-> 3, mfa |-> 3, logout_all |-> 2, email |-> 3, suspend |-> 3,
              reactivate |-> 3, delete |-> 3, verify |-> 5, change |-> 5, reset |-> 7]
Changes == {"change", "reset"}

Admitted(p) ==
    /\ req[p].kind \in {"suspend", "reactivate"} /\ req[p].step > 2
          => Copy(p, User).status # "deactivated"
    /\ req[p].kind = "login" /\ req[p].step > 4 => req[p].password = Copy(p, Credential).password

InOrder(p) ==
    /\ req[p].kind = "idle" => Wrote(p) = {}
    /\ User \in Wrote(p) => req[p].kind \in DOMAIN SavesUser /\ req[p].step > SavesUser[req[p].kind]
    /\ Credential \in Wrote(p) /\ req[p].kind = "login" => req[p].step > 3
    /\ req[p].kind \in Changes /\ req[p].step > SavesUser[req[p].kind]
          => User \in Wrote(p) /\ draft[p][User].stamp = req[p].id

(* A row that was saved over nothing unread was computed from the row that  *)
(* is still there.                                                          *)
SavedAsRead(p) ==
    /\ User \in Wrote(p) /\ User \notin overwritten =>
          /\ \/ draft[p][User].status = db[User].status
             \/ <<db[User].status, draft[p][User].status>> \in StatusMoves(req[p].kind)
          /\ draft[p][User].stamp \in {db[User].stamp, req[p].id}
    /\ Credential \in Wrote(p) /\ Credential \notin overwritten =>
          \/ draft[p][Credential].password = db[Credential].password
          \/ req[p].kind \in Changes

Waits(p) ==
    /\ req[p].todo \subseteq Sessions \cup Tokens
    /\ req[p].todo # {} => Revoking(p)

RowInv ==
    /\ Numbered
    /\ TypedRows
    /\ \A p \in Requests : Admitted(p) /\ InOrder(p) /\ SavedAsRead(p) /\ Waits(p)

(* The stamp a change will write is nowhere yet, and a session with the     *)
(* stamp of the account has its password: a new stamp comes with every new  *)
(* password.                                                                *)
Known(stamp) ==
    /\ stamp \in 0..begun
    /\ \A q \in Requests : req[q].kind # "idle" => stamp # req[q].id

Follows(s) ==
    /\ Known(s.stamp)
    /\ s.password # None /\ s.stamp = db[User].stamp => s.password = db[Credential].password

Stamps ==
    /\ Known(db[User].stamp)
    /\ db[User].stamp = 0 => db[Credential].password = 0
    /\ \A s \in Sessions : Follows(db[s])
    /\ \A p \in Requests :
          /\ Known(Copy(p, User).stamp)
          /\ \A s \in Sessions : Follows(Copy(p, s))
          /\ \A s \in Sessions \cap Wrote(p) : Follows(draft[p][s])
          /\ req[p].kind = "login" /\ req[p].step > 2 /\ Copy(p, User).stamp = db[User].stamp
                => Copy(p, Credential).password = db[Credential].password

StampInv == NoneOverwritten({User, Credential}) => Stamps

(* Tokens keep their session, which is in the table; a transaction that     *)
(* rotates one, or opens a session, has inserted another that will head the *)
(* family.                                                                  *)
Exists(row) == row.state # "absent"

NewHead(p, s) ==
    \E t \in Tokens \cap Wrote(p) :
        /\ ~Exists(db[t])
        /\ draft[p][t].session = s /\ draft[p][t].state \in {"active", "revoked"}

TokenDrafts(p) ==
    \A t \in Tokens \cap Wrote(p) :
        /\ Exists(db[t]) => draft[p][t].session = db[t].session
        /\ draft[p][t].session \in Sessions /\ Exists(Seen(p, draft[p][t].session))
        /\ draft[p][t].state = "rotated" => NewHead(p, draft[p][t].session)

SessionDrafts(p) ==
    \A s \in Sessions \cap Wrote(p) :
        /\ Exists(draft[p][s])
        /\ ~Exists(db[s]) => NewHead(p, s)

Family(p) ==
    /\ req[p].kind \in Presented => Exists(db[req[p].token])
    /\ req[p].kind \in Presented /\ req[p].step > 1 => SessionOf(p) = db[req[p].token].session
    /\ req[p].kind = "refresh" /\ req[p].step > 2 => Exists(Copy(p, SessionOf(p)))
    /\ req[p].kind = "logout" /\ req[p].step > 3 => Exists(Copy(p, SessionOf(p)))
    /\ req[p].kind = "refresh" /\ req[p].step > 5 => NewHead(p, SessionOf(p))

FamilyInv ==
    /\ FamilyHasHead
    /\ \A t \in Tokens : Exists(db[t]) => db[t].session \in Sessions /\ Exists(db[db[t].session])
    /\ \A p \in Requests : TokenDrafts(p) /\ SessionDrafts(p) /\ Family(p)

(* When requests come one at a time, the one that reacts to a replay finds  *)
(* every row as it is in the table, and what it has revoked stays revoked   *)
(* in what it reads.                                                        *)
Alone == \A p, q \in Requests : req[p].kind # "idle" /\ req[q].kind # "idle" => p = q

Reacts(p) ==
    /\ req[p].todo = {} /\ req[p].step > 1
    /\ req[p].step = 2 => Wrote(p) = {}
    /\ req[p].step > 2 =>
          \A t \in Tokens : db[t].session = SessionOf(p) => Seen(p, t).state # "active"
    /\ req[p].step > 3 => \A s \in Sessions : Seen(p, s).state # "live"

Replays(p) ==
    /\ req[p].kind = "refresh" /\ req[p].step = 1 => Wrote(p) = {}
    /\ req[p].kind = "reuse" => Reacts(p)

ReplayInv == InTurn => Alone /\ \A p \in Requests : Replays(p)

-----------------------------------------------------------------------------
(* Only the use cases that were given a token save one or its session. *)
LEMMA SavesOfPresented ==
    ASSUME NEW k \in DOMAIN Script, NEW i \in 1..Len(Script[k]),
           Script[k][i] \in {"saveToken", "saveSession", "addToken", "readSession", "readToken"}
    PROVE  k \in Presented
<1>1. k \in {"login", "oauth", "mfa", "refresh", "reuse", "logout", "logout_all", "email",
             "suspend", "reactivate", "delete", "verify", "change", "reset"}
  BY DEF Script
<1>2. CASE k = "login"
  <2>1. Script[k] = LoginUser BY <1>2 DEF Script
  <2> QED BY <2>1 DEF LoginUser
<1>3. CASE k = "oauth"
  <2>1. Script[k] = CompleteOAuthLogin BY <1>3 DEF Script
  <2> QED BY <2>1 DEF CompleteOAuthLogin
<1>4. CASE k = "mfa"
  <2>1. Script[k] = VerifyMfaChallenge BY <1>4 DEF Script
  <2> QED BY <2>1 DEF VerifyMfaChallenge
<1>5. CASE k = "logout_all"
  <2>1. Script[k] = LogoutAllDevices BY <1>5 DEF Script
  <2> QED BY <2>1 DEF LogoutAllDevices
<1>6. CASE k = "email"
  <2>1. Script[k] = UpdateUser BY <1>6 DEF Script
  <2> QED BY <2>1 DEF UpdateUser
<1>7. CASE k = "suspend"
  <2>1. Script[k] = SuspendUser BY <1>7 DEF Script
  <2> QED BY <2>1 DEF SuspendUser
<1>8. CASE k = "reactivate"
  <2>1. Script[k] = ReactivateUser BY <1>8 DEF Script
  <2> QED BY <2>1 DEF ReactivateUser
<1>9. CASE k = "delete"
  <2>1. Script[k] = DeleteUser BY <1>9 DEF Script
  <2> QED BY <2>1 DEF DeleteUser
<1>10. CASE k = "verify"
  <2>1. Script[k] = VerifyEmail BY <1>10 DEF Script
  <2> QED BY <2>1 DEF VerifyEmail
<1>11. CASE k = "change"
  <2>1. Script[k] = ChangeMyPassword BY <1>11 DEF Script
  <2> QED BY <2>1 DEF ChangeMyPassword
<1>12. CASE k = "reset"
  <2>1. Script[k] = ResetPassword BY <1>12 DEF Script
  <2> QED BY <2>1 DEF ResetPassword
<1> QED BY <1>1, <1>2, <1>3, <1>4, <1>5, <1>6, <1>7, <1>8, <1>9, <1>10, <1>11, <1>12 DEF Presented

LEMMA ScriptLengths ==
    ASSUME NEW k \in DOMAIN Script
    PROVE  Len(Script[k]) \in Int
BY DEF Script, LoginUser, CompleteOAuthLogin, VerifyMfaChallenge, RefreshSession, RefreshReuse, Logout, LogoutAllDevices, UpdateUser, SuspendUser, ReactivateUser, DeleteUser, VerifyEmail, ChangeMyPassword, ResetPassword

-----------------------------------------------------------------------------
(* What the three ways a draft changes do to it. *)
LEMMA PutSound ==
    ASSUME DraftInv, NEW p \in Requests, NEW new, Put(p, new),
           \A t \in Tokens \cap DOMAIN new : SoundDraft(t, new[t])
    PROVE  DraftInv' /\ UNCHANGED db
<1>1. db' = db /\ DOMAIN draft' = Requests
  BY DEF Put, DraftInv
<1>2. \A q \in Requests : q # p => draft'[q] = draft[q]
  BY DEF Put, DraftInv
<1>3. /\ Wrote(p)' = Wrote(p) \cup DOMAIN new
      /\ \A r \in Wrote(p)' : draft'[p][r] = IF r \in DOMAIN new THEN new[r] ELSE draft[p][r]
  BY DEF Put, DraftInv, Wrote
<1>4. OneWriter'
  <2>1. \A q \in Requests \ {p} : Wrote(q)' = Wrote(q) /\ Wrote(q) \cap DOMAIN new = {}
    BY <1>2 DEF Wrote, Put, Free
  <2> QED BY <1>3, <2>1 DEF OneWriter, DraftInv
<1>5. ASSUME NEW q \in Requests, NEW t \in Tokens \cap Wrote(q)'
      PROVE  SoundDraft(t, draft[q][t])'
  <2>1. CASE q = p
    BY <2>1, <1>1, <1>3 DEF DraftInv, SoundDraft
  <2>2. CASE q # p
    BY <2>2, <1>1, <1>2 DEF DraftInv, SoundDraft, Wrote
  <2> QED BY <2>1, <2>2
<1> QED BY <1>1, <1>4, <1>5 DEF DraftInv

LEMMA DropSound ==
    ASSUME DraftInv, NEW p \in Requests, DropRows(p)
    PROVE  DraftInv' /\ UNCHANGED db
<1>1. db' = db /\ DOMAIN draft' = Requests
  BY DEF DropRows, DraftInv
<1>2. \A q \in Requests : Wrote(q)' = IF q = p THEN {} ELSE Wrote(q)
  BY DEF DropRows, DraftInv, Wrote, NoRows
<1>3. \A q \in Requests : q # p => draft'[q] = draft[q]
  BY DEF DropRows, DraftInv
<1> QED BY <1>1, <1>2, <1>3 DEF DraftInv, OneWriter, SoundDraft

LEMMA CommitSound ==
    ASSUME DraftInv, NEW p \in Requests, CommitRows(p)
    PROVE  /\ DraftInv'
           /\ \A t \in Tokens : db[t].state \in {"rotated", "revoked"}
                                   => db'[t].state \in {"rotated", "revoked"}
<1> USE SessionsAssumption
<1>1. \A t \in Tokens : db'[t] = IF t \in Wrote(p) THEN draft[p][t] ELSE db[t]
  BY DEF CommitRows, Seen
<1>2. DOMAIN draft' = Requests
  BY DEF CommitRows, DraftInv
<1>3. \A q \in Requests : Wrote(q)' = IF q = p THEN {} ELSE Wrote(q)
  BY DEF CommitRows, DraftInv, Wrote, NoRows
<1>4. \A q \in Requests : q # p => draft'[q] = draft[q]
  BY DEF CommitRows, DraftInv
<1>5. OneWriter'
  BY <1>3 DEF DraftInv, OneWriter
<1>6. \A t \in Tokens : db'[t] \in TokenRows
  BY <1>1 DEF DraftInv, SoundDraft
<1>7. ASSUME NEW q \in Requests, NEW t \in Tokens \cap Wrote(q)'
      PROVE  SoundDraft(t, draft[q][t])'
  <2>1. q # p /\ t \in Wrote(q) /\ t \notin Wrote(p) /\ draft'[q][t] = draft[q][t]
    BY <1>3, <1>4 DEF DraftInv, OneWriter
  <2> QED BY <2>1, <1>1 DEF DraftInv, SoundDraft
<1>8. ASSUME NEW t \in Tokens, db[t].state \in {"rotated", "revoked"}
      PROVE  db'[t].state \in {"rotated", "revoked"}
  <2>1. CASE t \in Wrote(p)
    <3>1. SoundDraft(t, draft[p][t])
      BY <2>1 DEF DraftInv
    <3>2. draft[p][t].state \in {"rotated", "revoked"}
      BY <3>1, <1>8 DEF SoundDraft, TokenRows
    <3> QED BY <2>1, <3>2, <1>1
  <2>2. CASE t \notin Wrote(p)
    BY <2>2, <1>1, <1>8
  <2> QED BY <2>1, <2>2
<1> QED BY <1>2, <1>5, <1>6, <1>7, <1>8 DEF DraftInv

LEMMA SeenTokens ==
    ASSUME DraftInv, NEW p \in Requests, NEW t \in Tokens
    PROVE  Seen(p, t) \in TokenRows
BY DEF DraftInv, Seen, SoundDraft

-----------------------------------------------------------------------------
(* The requests' own state. *)
LEMMA OneRequest ==
    ASSUME ReqInv, NEW p \in Requests, NEW q, SoundReq(q), req' = [req EXCEPT ![p] = q]
    PROVE  ReqInv'
BY DEF ReqInv

LEMMA AdvanceKeepsReqs ==
    ASSUME ReqInv, NEW p \in Requests, Advance(p)
    PROVE  ReqInv'
<1>1. SoundReq([req[p] EXCEPT !.step = @ + 1])
  BY DEF ReqInv, SoundReq
<1> QED BY <1>1, OneRequest DEF Advance

LEMMA AccountTyped ==
    ASSUME NEW status, NEW old
    PROVE  /\ DOMAIN Account(status, old) = Rows
           /\ \A t \in Tokens : Account(status, old)[t] \in TokenRows
<1> USE SessionsAssumption
<1>1. AnyOf(Sessions) \in Sessions
  <2>1. Sessions # {}
    BY FS_EmptySet
  <2> QED BY <2>1 DEF AnyOf
<1>2. NewToken(AnyOf(Sessions)) \in TokenRows
  BY <1>1 DEF NewToken, TokenRows
<1>3. \A t \in Tokens : t \notin Sessions /\ t # User /\ t # Credential
  OBVIOUS
<1>4. \A t \in Tokens : Account(status, old)[t] =
          IF t = AnyOf(Tokens) THEN NewToken(AnyOf(Sessions))
          ELSE [state |-> "absent", session |-> None, by |-> None]
  BY <1>3 DEF Account
<1>5. [state |-> "absent", session |-> None, by |-> None] \in TokenRows
  BY DEF TokenRows
<1> QED BY <1>2, <1>4, <1>5 DEF Account

LEMMA IdleSound == SoundReq(Idle)
<1>1. /\ DOMAIN Idle = {"kind", "step", "id", "token", "password", "new", "copy", "todo"}
      /\ Idle.kind = "idle" /\ Idle.step = 1 /\ Idle.token = None /\ Idle.new = None
      /\ Idle.copy = Account("active", FALSE)
  BY DEF Idle
<1>2. DOMAIN Idle.copy = Rows /\ \A t \in Tokens : Idle.copy[t] \in TokenRows
  BY <1>1, AccountTyped
<1>3. "idle" \in Kinds /\ "idle" \notin Presented
  BY DEF Kinds, Presented
<1>4. Idle.step \in Nat \ {0} /\ Idle.kind \in Kinds /\ Idle.kind \notin Presented
  BY <1>1, <1>3
<1>5. Idle.token \in Tokens \cup {None} /\ Idle.new \in Tokens \cup {None}
  BY <1>1
<1>6. DOMAIN Idle = {"kind", "step", "id", "token", "password", "new", "copy", "todo"}
  BY <1>1
<1> QED BY <1>2, <1>4, <1>5, <1>6 DEF SoundReq

LEMMA FinishKeepsReqs ==
    ASSUME ReqInv, NEW p \in Requests, Finish(p)
    PROVE  ReqInv'
BY IdleSound, OneRequest DEF Finish

LEMMA BeginKeepsReqs ==
    ASSUME ReqInv, NEW p \in Requests, NEW kind, NEW token \in Tokens \cup {None}, NEW password,
           kind \in Presented => token \in Tokens, Begin(p, kind, token, password)
    PROVE  ReqInv'
<1> DEFINE q == [Idle EXCEPT !.kind = kind, !.id = begun + 1, !.token = token,
                             !.password = password]
<1>1. /\ DOMAIN q = DOMAIN Idle /\ q.kind = kind /\ q.step = Idle.step /\ q.token = token
      /\ q.new = Idle.new /\ q.copy = Idle.copy
  BY DEF Idle
<1>2. kind \in Kinds
  BY UseCasesAssumption DEF Begin, Kinds
<1>3. SoundReq(q)
  BY <1>1, <1>2, IdleSound DEF SoundReq
<1>4. req' = [req EXCEPT ![p] = q]
  BY DEF Begin
<1> QED BY <1>3, <1>4, OneRequest

LEMMA KeepKeepsReqs ==
    ASSUME IInv, NEW p \in Requests, NEW r, Keep(p, r)
    PROVE  ReqInv'
<1> DEFINE q == [req[p] EXCEPT !.step = @ + 1, !.copy[r] = Seen(p, r)]
<1>1. SoundReq(req[p])
  BY DEF IInv, ReqInv
<1>2. /\ DOMAIN q = DOMAIN req[p] /\ q.kind = req[p].kind /\ q.step = req[p].step + 1
      /\ q.token = req[p].token /\ q.new = req[p].new
      /\ q.copy = [req[p].copy EXCEPT ![r] = Seen(p, r)]
  BY <1>1 DEF SoundReq
<1>3. \A t \in Tokens : q.copy[t] \in TokenRows
  BY <1>1, <1>2, SeenTokens DEF SoundReq, IInv
<1>4. SoundReq(q)
  BY <1>1, <1>2, <1>3 DEF SoundReq
<1>5. req' = [req EXCEPT ![p] = q]
  BY DEF Keep
<1> QED BY <1>4, <1>5, OneRequest DEF IInv

LEMMA ReadTokenKeepsReqs ==
    ASSUME IInv, NEW p \in Requests, ReadToken(p)
    PROVE  ReqInv'
<1> DEFINE r == req[p].token
           q == [req[p] EXCEPT !.step = @ + 1, !.copy[r] = Seen(p, r),
                     !.kind = IF @ = "refresh" /\ WasAlreadyRotated(Seen(p, r))
                              THEN "reuse" ELSE @]
<1>1. SoundReq(req[p])
  BY DEF IInv, ReqInv
<1>2. /\ DOMAIN q = DOMAIN req[p] /\ q.step = req[p].step + 1
      /\ q.kind = req[p].kind \/ (req[p].kind = "refresh" /\ q.kind = "reuse")
      /\ q.token = r /\ q.new = req[p].new
      /\ q.copy = [req[p].copy EXCEPT ![r] = Seen(p, r)]
  BY <1>1 DEF SoundReq
<1>3. \A t \in Tokens : q.copy[t] \in TokenRows
  BY <1>1, <1>2, SeenTokens DEF SoundReq, IInv
<1>4. "reuse" \in Kinds
  BY DEF Kinds, Script
<1>5. SoundReq(q)
  BY <1>1, <1>2, <1>3, <1>4 DEF SoundReq, Presented
<1>6. req' = [req EXCEPT ![p] = q]
  BY DEF ReadToken
<1> QED BY <1>5, <1>6, OneRequest DEF IInv

-----------------------------------------------------------------------------
(* The writes. *)
TokensStayDead ==
    \A t \in Tokens : db[t].state \in {"rotated", "revoked"}
                          => db'[t].state \in {"rotated", "revoked"}

LEMMA AtScript ==
    ASSUME ReqInv, NEW p \in Requests, NEW statement, At(p, statement)
    PROVE  /\ req[p].kind \in DOMAIN Script
           /\ req[p].step \in 1..Len(Script[req[p].kind])
           /\ Script[req[p].kind][req[p].step] = statement
<1>1. Len(Script[req[p].kind]) \in Int
  <2>1. req[p].kind \in DOMAIN Script
    BY DEF ReqInv, SoundReq, Kinds, At
  <2> QED BY <2>1, ScriptLengths
<1> QED BY <1>1 DEF ReqInv, SoundReq, Kinds, At

LEMMA TokenGiven ==
    ASSUME ReqInv, NEW p \in Requests,
           NEW statement \in {"saveToken", "saveSession", "addToken", "readSession", "readToken"},
           At(p, statement)
    PROVE  /\ req[p].token \in Tokens
           /\ Copy(p, req[p].token) \in TokenRows
           /\ SessionOf(p) \in Sessions \cup {None}
<1>1. req[p].kind \in Presented
  BY AtScript, SavesOfPresented
<1>2. req[p].token \in Tokens /\ Copy(p, req[p].token) \in TokenRows
  BY <1>1 DEF ReqInv, SoundReq, Copy
<1> QED BY <1>2 DEF SessionOf, TokenRows

LEMMA OneRow ==
    ASSUME DraftInv, NEW p \in Requests, NEW r, NEW value, Put(p, [x \in {r} |-> value]),
           r \in Tokens => SoundDraft(r, value)
    PROVE  DraftInv' /\ UNCHANGED db
<1> DEFINE new == [x \in {r} |-> value]
<1>1. \A t \in Tokens \cap DOMAIN new : SoundDraft(t, new[t])
  OBVIOUS
<1> HIDE DEF new
<1> QED BY <1>1, PutSound DEF new

LEMMA SaveRowSound ==
    ASSUME IInv, NEW p \in Requests, SaveRow(p)
    PROVE  IInv' /\ UNCHANGED db
<1> USE SessionsAssumption
<1>1. Advance(p)
  BY DEF SaveRow, Write
<1>2. ReqInv'
  BY <1>1, AdvanceKeepsReqs DEF IInv
<1>3. SUFFICES DraftInv' /\ UNCHANGED db
  BY <1>2 DEF IInv
<1>4. ASSUME NEW r \in {User, Credential, ResetLink, EmailLink}, NEW value, Write(p, r, value)
      PROVE  DraftInv' /\ UNCHANGED db
  <2>1. r \notin Tokens
    OBVIOUS
  <2> QED BY <1>4, <2>1, OneRow DEF Write, IInv
<1>5. CASE At(p, "saveToken") /\ Write(p, req[p].token, Rotated(p, Copy(p, req[p].token)))
  <2>1. Copy(p, req[p].token) \in TokenRows
    BY <1>5, TokenGiven DEF IInv
  <2>2. req[p].new \in Tokens \cup {None}
    BY DEF IInv, ReqInv, SoundReq
  <2>3. SoundDraft(req[p].token, Rotated(p, Copy(p, req[p].token)))
    BY <2>1, <2>2 DEF Rotated, TokenRows, SoundDraft
  <2> QED BY <1>5, <2>3, OneRow DEF Write, IInv
<1>6. CASE At(p, "saveSession")
           /\ Write(p, SessionOf(p), SessionAfter(p, Copy(p, SessionOf(p))))
  <2>1. SessionOf(p) \notin Tokens
    <3>1. SessionOf(p) \in Sessions \cup {None}
      BY <1>6, TokenGiven DEF IInv
    <3>2. None \notin Tokens
      OBVIOUS
    <3> QED BY <3>1, <3>2
  <2> QED BY <1>6, <2>1, OneRow DEF Write, IInv
<1> QED BY <1>4, <1>5, <1>6 DEF SaveRow

LEMMA RehashSound ==
    ASSUME IInv, NEW p \in Requests, Rehash(p)
    PROVE  IInv' /\ UNCHANGED db
<1> USE SessionsAssumption
<1>1. ReqInv'
  BY AdvanceKeepsReqs DEF IInv, Rehash
<1>2. CASE UNCHANGED dbVars
  BY <1>1, <1>2 DEF IInv, DraftInv, OneWriter, Wrote, SoundDraft, dbVars
<1>3. CASE Rehashes(p)
  <2>1. Credential \notin Tokens
    OBVIOUS
  <2> QED BY <1>1, <1>3, <2>1, OneRow DEF Rehash, IInv
<1> QED BY <1>2, <1>3 DEF Rehash

LEMMA AddTokenSound ==
    ASSUME IInv, NEW p \in Requests, AddToken(p)
    PROVE  IInv' /\ UNCHANGED db
<1> DEFINE t == AnyOf(Unused(Tokens))
           q == [req[p] EXCEPT !.new = t, !.step = @ + 1]
<1>1. t \in Tokens /\ db[t].state = "absent"
  BY DEF AddToken, AnyOf, Unused
<1>2. SoundReq(req[p])
  BY DEF IInv, ReqInv
<1>3. /\ DOMAIN q = DOMAIN req[p] /\ q.kind = req[p].kind /\ q.step = req[p].step + 1
      /\ q.token = req[p].token /\ q.new = t /\ q.copy = req[p].copy
  BY <1>2 DEF SoundReq
<1>4. SoundReq(q)
  BY <1>1, <1>2, <1>3 DEF SoundReq
<1>5. ReqInv'
  <2>1. req' = [req EXCEPT ![p] = q]
    BY DEF AddToken
  <2> QED BY <1>4, <2>1, OneRequest DEF IInv
<1>6. SessionOf(p) \in Sessions \cup {None}
  BY TokenGiven DEF IInv, AddToken
<1>7. SoundDraft(t, NewToken(SessionOf(p)))
  BY <1>1, <1>6 DEF SoundDraft, NewToken, TokenRows
<1>8. Put(p, [x \in {t} |-> NewToken(SessionOf(p))])
  BY DEF AddToken
<1> QED BY <1>5, <1>7, <1>8, OneRow DEF IInv

LEMMA OpenSessionSound ==
    ASSUME IInv, NEW p \in Requests, OpenSession(p)
    PROVE  IInv' /\ UNCHANGED db
<1> USE SessionsAssumption
<1> DEFINE s == AnyOf(Unused(Sessions))
           t == AnyOf(Unused(Tokens))
           opened == [state |-> "live", stamp |-> Copy(p, User).stamp,
                      password |-> IF req[p].kind = "login" THEN req[p].password ELSE None]
           new == [x \in {s, t} |-> IF x = t THEN NewToken(s) ELSE opened]
<1>1. s \in Sessions /\ t \in Tokens /\ db[t].state = "absent"
  BY DEF OpenSession, AnyOf, Unused
<1>2. ReqInv'
  BY AdvanceKeepsReqs DEF IInv, OpenSession
<1>3. SoundDraft(t, NewToken(s))
  BY <1>1 DEF SoundDraft, NewToken, TokenRows
<1>4. Put(p, new)
  BY DEF OpenSession
<1>5. \A x \in Tokens \cap DOMAIN new : SoundDraft(x, new[x])
  <2>1. Tokens \cap DOMAIN new = {t} /\ new[t] = NewToken(s)
    BY <1>1
  <2> QED BY <2>1, <1>3
<1> HIDE DEF new
<1> QED BY <1>2, <1>4, <1>5, PutSound DEF IInv

LEMMA RevokedIsSound ==
    ASSUME DraftInv, NEW p \in Requests, NEW t \in Tokens
    PROVE  SoundDraft(t, Revoked(p, t))
BY SeenTokens DEF Revoked, SoundDraft, TokenRows

LEMMA RevokeAllSound ==
    ASSUME IInv, NEW p \in Requests, RevokeAll(p)
    PROVE  IInv' /\ UNCHANGED db
<1> DEFINE new == [r \in Targets(p) |-> Revoked(p, r)]
<1>1. ReqInv'
  BY AdvanceKeepsReqs DEF IInv, RevokeAll
<1>2. \A t \in Tokens \cap DOMAIN new : SoundDraft(t, new[t])
  BY RevokedIsSound DEF IInv
<1>3. Put(p, new)
  BY DEF RevokeAll
<1> HIDE DEF new
<1> QED BY <1>1, <1>2, <1>3, PutSound DEF IInv

LEMMA TodoKeepsReqs ==
    ASSUME ReqInv, NEW p \in Requests, NEW todo, NEW step \in {req[p].step, req[p].step + 1},
           req' = [req EXCEPT ![p] = [req[p] EXCEPT !.todo = todo, !.step = step]]
    PROVE  ReqInv'
<1> DEFINE q == [req[p] EXCEPT !.todo = todo, !.step = step]
<1>1. SoundReq(req[p])
  BY DEF ReqInv
<1>2. /\ DOMAIN q = DOMAIN req[p] /\ q.kind = req[p].kind /\ q.step = step
      /\ q.token = req[p].token /\ q.new = req[p].new /\ q.copy = req[p].copy
  BY <1>1 DEF SoundReq
<1>3. SoundReq(q)
  BY <1>1, <1>2 DEF SoundReq
<1> HIDE DEF q
<1> QED BY <1>3, OneRequest DEF q

LEMMA RevokeWaitsSound ==
    ASSUME IInv, NEW p \in Requests, RevokeWaits(p)
    PROVE  IInv' /\ UNCHANGED db
<1>1. req' = [req EXCEPT ![p] = [req[p] EXCEPT !.todo = Targets(p), !.step = req[p].step]]
  BY DEF RevokeWaits, IInv, ReqInv, SoundReq
<1>2. ReqInv'
  BY <1>1, TodoKeepsReqs DEF IInv
<1> QED BY <1>2 DEF RevokeWaits, IInv, DraftInv, OneWriter, Wrote, SoundDraft, dbVars

LEMMA RevokeNextSound ==
    ASSUME IInv, NEW p \in Requests, RevokeNext(p)
    PROVE  IInv' /\ UNCHANGED db
<1>1. PICK r \in req[p].todo :
         /\ IF r \in Unrevoked(p, {r}) THEN Put(p, [x \in {r} |-> Revoked(p, r)])
                                       ELSE UNCHANGED dbVars
         /\ req' = [req EXCEPT ![p].todo = @ \ {r},
                               ![p].step = IF req[p].todo = {r} THEN @ + 1 ELSE @]
  BY DEF RevokeNext
<1>2. ReqInv'
  <2>1. CASE req[p].todo = {r}
    <3>1. req' = [req EXCEPT ![p] = [req[p] EXCEPT !.todo = @ \ {r}, !.step = req[p].step + 1]]
      BY <1>1, <2>1 DEF IInv, ReqInv, SoundReq
    <3> QED BY <3>1, TodoKeepsReqs DEF IInv
  <2>2. CASE req[p].todo # {r}
    <3>1. req' = [req EXCEPT ![p] = [req[p] EXCEPT !.todo = @ \ {r}, !.step = req[p].step]]
      BY <1>1, <2>2 DEF IInv, ReqInv, SoundReq
    <3> QED BY <3>1, TodoKeepsReqs DEF IInv
  <2> QED BY <2>1, <2>2
<1>3. CASE Put(p, [x \in {r} |-> Revoked(p, r)])
  BY <1>2, <1>3, OneRow, RevokedIsSound DEF IInv
<1>4. CASE UNCHANGED dbVars
  BY <1>2, <1>4 DEF IInv, DraftInv, OneWriter, Wrote, SoundDraft, dbVars
<1> QED BY <1>1, <1>3, <1>4

-----------------------------------------------------------------------------
(* The steps that write no row, and the ways a request ends. *)
LEMMA NoRowWritten ==
    ASSUME IInv, ReqInv', UNCHANGED dbVars
    PROVE  IInv' /\ TokensStayDead
<1>1. DraftInv'
  BY DEF IInv, DraftInv, OneWriter, Wrote, SoundDraft, dbVars
<1> QED BY <1>1 DEF IInv, TokensStayDead, dbVars

LEMMA RequestEnds ==
    ASSUME IInv, NEW p \in Requests, CommitRows(p) \/ DropRows(p), Finish(p)
    PROVE  IInv' /\ TokensStayDead
<1>1. ReqInv'
  BY FinishKeepsReqs DEF IInv
<1>2. CASE CommitRows(p)
  BY <1>1, <1>2, CommitSound DEF IInv, TokensStayDead
<1>3. CASE DropRows(p)
  BY <1>1, <1>3, DropSound DEF IInv, TokensStayDead
<1> QED BY <1>2, <1>3

LEMMA ArrivalSound ==
    ASSUME IInv, NEW p \in Requests, Present(p) \/ SignIn(p) \/ ChangeAccount(p)
    PROVE  IInv' /\ TokensStayDead
<1>1. CASE Present(p)
  <2>1. PICK kind \in {"refresh", "logout"}, t \in Tokens : Begin(p, kind, t, None)
    BY <1>1 DEF Present
  <2>2. ReqInv'
    BY <2>1, BeginKeepsReqs DEF IInv
  <2> QED BY <2>1, <2>2, NoRowWritten DEF Begin
<1>2. CASE SignIn(p) \/ ChangeAccount(p)
  <2>1. PICK kind \in {"login", "oauth", "mfa", "logout_all", "email", "suspend", "delete",
                       "reactivate", "verify", "reset", "change"} :
          \E password : Begin(p, kind, None, password)
    BY <1>2 DEF SignIn, ChangeAccount
  <2>2. PICK password : Begin(p, kind, None, password)
    BY <2>1
  <2>3. kind \notin Presented
    BY DEF Presented
  <2>4. ReqInv'
    BY <2>2, <2>3, BeginKeepsReqs DEF IInv
  <2> QED BY <2>2, <2>4, NoRowWritten DEF Begin
<1> QED BY <1>1, <1>2

LEMMA StatementSound ==
    ASSUME IInv, NEW p \in Requests, Statement(p)
    PROVE  IInv' /\ TokensStayDead
<1>1. CASE ReadRow(p)
  <2>1. PICK r : Keep(p, r)
    BY <1>1 DEF ReadRow
  <2> QED BY <2>1, KeepKeepsReqs, NoRowWritten DEF Keep
<1>2. CASE ReadToken(p)
  BY <1>2, ReadTokenKeepsReqs, NoRowWritten DEF ReadToken
<1>3. CASE Admit(p)
  BY <1>3, AdvanceKeepsReqs, NoRowWritten DEF Admit, IInv
<1>4. CASE Refuse(p)
  BY <1>4, RequestEnds DEF Refuse
<1>5. CASE Challenge(p)
  <2>1. CASE CommitRows(p) /\ Finish(p)
    BY <2>1, RequestEnds
  <2>2. CASE Advance(p) /\ UNCHANGED dbVars
    BY <2>2, AdvanceKeepsReqs, NoRowWritten DEF IInv
  <2> QED BY <1>5, <2>1, <2>2 DEF Challenge
<1>6. CASE Consume(p)
  BY <1>6, AdvanceKeepsReqs, NoRowWritten DEF Consume, IInv
<1>7. CASE SaveRow(p) \/ Rehash(p) \/ AddToken(p) \/ OpenSession(p)
           \/ RevokeAll(p) \/ RevokeWaits(p) \/ RevokeNext(p)
  <2>1. IInv' /\ UNCHANGED db
    BY <1>7, SaveRowSound, RehashSound, AddTokenSound, OpenSessionSound, RevokeAllSound,
       RevokeWaitsSound, RevokeNextSound
  <2> QED BY <2>1 DEF TokensStayDead
<1>8. CASE Commit(p) \/ DeadlockVictim(p)
  BY <1>8, RequestEnds DEF Commit, DeadlockVictim
<1> QED BY <1>1, <1>2, <1>3, <1>4, <1>5, <1>6, <1>7, <1>8 DEF Statement

LEMMA StepSound ==
    ASSUME IInv, [Next]_vars
    PROVE  IInv' /\ TokensStayDead
<1>1. ASSUME NEW p \in Requests, Crash(p)
      PROVE  IInv' /\ TokensStayDead
  BY <1>1, RequestEnds DEF Crash
<1>2. CASE UNCHANGED vars
  <2>1. ReqInv'
    BY <1>2 DEF vars, stateVars, IInv, ReqInv, SoundReq
  <2> QED BY <1>2, <2>1, NoRowWritten DEF vars, stateVars, dbVars
<1> QED BY <1>1, <1>2, ArrivalSound, StatementSound DEF Next

LEMMA InitSound == Init => IInv
<1> SUFFICES ASSUME Init PROVE IInv
  OBVIOUS
<1>1. ReqInv
  BY IdleSound DEF Init, ReqInv
<1>2. PICK status \in {"pending", "active"}, old \in BOOLEAN : DbInit(Account(status, old))
  BY DEF Init
<1>3. \A p \in Requests : Wrote(p) = {}
  BY <1>2 DEF DbInit, Wrote, NoRows
<1>4. DOMAIN draft = Requests /\ \A t \in Tokens : db[t] \in TokenRows
  BY <1>2, AccountTyped DEF DbInit
<1> QED BY <1>1, <1>3, <1>4 DEF IInv, DraftInv, OneWriter

-----------------------------------------------------------------------------
(* A refresh token that was rotated or revoked is never good again, however *)
(* many requests overlap and whatever they read before it died.             *)
(* (RefreshToken.rotate, SqlRefreshTokenRepository.save, revoke_family.)    *)
THEOREM DeadTokens == Spec => DeadTokensStayDead
<1>1. IInv /\ [Next]_vars => IInv' /\ [TokensStayDead]_db
  BY StepSound
<1>2. Spec => [][TokensStayDead]_db
  BY InitSound, <1>1, PTL DEF Spec
<1> QED BY <1>2 DEF DeadTokensStayDead, TokensStayDead

-----------------------------------------------------------------------------
(* Where the statements stand in their use cases. *)
AccountRows == {User, Credential, ResetLink, EmailLink}
Revocations == {"revokeFamily", "revokeSessions", "revokeTokens"}

Place(k, i, st) ==
    /\ st = "readUser" =>
          /\ k \in DOMAIN SavesUser \cup {"refresh"}
          /\ k \in DOMAIN SavesUser => i < SavesUser[k]
          /\ k \in {"suspend", "reactivate", "login"} => i = 1
    /\ st = "readCredential" /\ k = "login" => i = 2
    /\ k = "login" /\ i = 2 => st = "readCredential"
    /\ st \in {"readResetLink", "readEmailLink"} => i = 1
    /\ k \in {"reset", "verify", "suspend", "reactivate"} /\ i = 2 => st = "admit"
    /\ k = "login" /\ i = 4 => st = "admit"
    /\ st = "saveUser" => k \in DOMAIN SavesUser /\ i = SavesUser[k]
    /\ k \in Changes /\ i = SavesUser[k] => st = "saveUser"
    /\ st = "rehash" => k = "login" /\ i = 3
    /\ st = "saveCredential" => k \in Changes
    /\ st = "saveResetLink" => k = "reset" /\ i > 2
    /\ st = "saveEmailLink" => k = "verify" /\ i > 2
    /\ st = "open" => k \in {"login", "oauth", "mfa"} /\ i > 3
    /\ st = "open" /\ k = "login" => i > 4
    /\ st = "challenge" => k = "login"
    /\ st = "readToken" => k \in Presented /\ i = 1
    /\ k \in Presented /\ i = 1 => st = "readToken"
    /\ st = "readSession" => k \in Presented /\ i > 1
    /\ k = "refresh" /\ i = 2 => st = "readSession"
    /\ k = "logout" /\ i = 3 => st = "readSession"
    /\ st = "addToken" => k = "refresh" /\ i = 5
    /\ k = "refresh" /\ i = 5 => st = "addToken"
    /\ st = "saveToken" => k = "refresh" /\ i = 6
    /\ st = "saveSession" => \/ k = "refresh" /\ i > 2
                             \/ k = "logout" /\ i > 3
    /\ st \in Revocations => k # "refresh" /\ i > 1

LEMMA Places ==
    ASSUME NEW k \in DOMAIN Script, NEW i \in 1..Len(Script[k])
    PROVE  Place(k, i, Script[k][i])
<1> DEFINE st == Script[k][i]
<1> SUFFICES Place(k, i, st)
  OBVIOUS
<1> USE DEF Place, Presented, Changes, SavesUser, Revocations
<1>0. k \in {"login", "oauth", "mfa", "refresh", "reuse", "logout", "logout_all", "email", "suspend",
             "reactivate", "delete", "verify", "change", "reset"}
  BY DEF Script
<1>1. CASE k = "login"
  <2>1. Script[k] = LoginUser
    BY <1>1 DEF Script
  <2> QED
    BY <1>1, <2>1 DEF LoginUser
<1>2. CASE k = "oauth"
  <2>1. Script[k] = CompleteOAuthLogin
    BY <1>2 DEF Script
  <2> QED
    BY <1>2, <2>1 DEF CompleteOAuthLogin
<1>3. CASE k = "mfa"
  <2>1. Script[k] = VerifyMfaChallenge
    BY <1>3 DEF Script
  <2> QED
    BY <1>3, <2>1 DEF VerifyMfaChallenge
<1>4. CASE k = "refresh"
  <2>1. Script[k] = RefreshSession
    BY <1>4 DEF Script
  <2> QED
    BY <1>4, <2>1 DEF RefreshSession
<1>5. CASE k = "reuse"
  <2>1. Script[k] = RefreshReuse
    BY <1>5 DEF Script
  <2> QED
    BY <1>5, <2>1 DEF RefreshReuse
<1>6. CASE k = "logout"
  <2>1. Script[k] = Logout
    BY <1>6 DEF Script
  <2> QED
    BY <1>6, <2>1 DEF Logout
<1>7. CASE k = "logout_all"
  <2>1. Script[k] = LogoutAllDevices
    BY <1>7 DEF Script
  <2> QED
    BY <1>7, <2>1 DEF LogoutAllDevices
<1>8. CASE k = "email"
  <2>1. Script[k] = UpdateUser
    BY <1>8 DEF Script
  <2> QED
    BY <1>8, <2>1 DEF UpdateUser
<1>9. CASE k = "suspend"
  <2>1. Script[k] = SuspendUser
    BY <1>9 DEF Script
  <2> QED
    BY <1>9, <2>1 DEF SuspendUser
<1>10. CASE k = "reactivate"
  <2>1. Script[k] = ReactivateUser
    BY <1>10 DEF Script
  <2> QED
    BY <1>10, <2>1 DEF ReactivateUser
<1>11. CASE k = "delete"
  <2>1. Script[k] = DeleteUser
    BY <1>11 DEF Script
  <2> QED
    BY <1>11, <2>1 DEF DeleteUser
<1>12. CASE k = "verify"
  <2>1. Script[k] = VerifyEmail
    BY <1>12 DEF Script
  <2> QED
    BY <1>12, <2>1 DEF VerifyEmail
<1>13. CASE k = "change"
  <2>1. Script[k] = ChangeMyPassword
    BY <1>13 DEF Script
  <2> QED
    BY <1>13, <2>1 DEF ChangeMyPassword
<1>14. CASE k = "reset"
  <2>1. Script[k] = ResetPassword
    BY <1>14 DEF Script
  <2> QED
    BY <1>14, <2>1 DEF ResetPassword
<1> QED
  BY <1>0, <1>1, <1>2, <1>3, <1>4, <1>5, <1>6, <1>7, <1>8, <1>9, <1>10, <1>11, <1>12, <1>13, <1>14

LEMMA PlaceOf ==
    ASSUME ReqInv, NEW p \in Requests, NEW st, At(p, st)
    PROVE  /\ Place(req[p].kind, req[p].step, st)
           /\ req[p].kind \in DOMAIN Script /\ req[p].kind # "idle" /\ req[p].step \in Nat
<1>1. /\ req[p].kind \in DOMAIN Script
      /\ req[p].step \in 1..Len(Script[req[p].kind])
      /\ Script[req[p].kind][req[p].step] = st
  BY AtScript
<1> QED
  BY <1>1, Places DEF At, ReqInv, SoundReq

LEMMA RowValues ==
    /\ ValuesOf(User) = UserRows /\ ValuesOf(Credential) = Credentials
    /\ ValuesOf(ResetLink) = LinkRows /\ ValuesOf(EmailLink) = LinkRows
    /\ \A s \in Sessions : ValuesOf(s) = SessionRows /\ s \notin AccountRows \cup Tokens
    /\ \A t \in Tokens : ValuesOf(t) = TokenRows /\ t \notin AccountRows \cup Sessions
    /\ Rows = AccountRows \cup Sessions \cup Tokens
<1> USE SessionsAssumption DEF AccountRows
<1>1. ValuesOf(User) = UserRows
  BY DEF ValuesOf
<1>2. ValuesOf(Credential) = Credentials
  BY DEF ValuesOf
<1>3. ValuesOf(ResetLink) = LinkRows /\ ValuesOf(EmailLink) = LinkRows
  BY DEF ValuesOf
<1>4. ASSUME NEW s \in Sessions PROVE ValuesOf(s) = SessionRows
  <2>1. s \notin AccountRows
    OBVIOUS
  <2> QED
    BY <2>1 DEF ValuesOf
<1>5. ASSUME NEW t \in Tokens PROVE ValuesOf(t) = TokenRows
  <2>1. t \notin AccountRows \cup Sessions
    OBVIOUS
  <2> QED
    BY <2>1 DEF ValuesOf
<1> QED
  BY <1>1, <1>2, <1>3, <1>4, <1>5

(* What a request does to itself while it goes on. *)
GoesOn(p, kind, step) ==
    /\ DOMAIN req' = Requests
    /\ \A q \in Requests \ {p} : req'[q] = req[q]
    /\ req'[p].kind = kind /\ req'[p].step = step /\ req'[p].id = req[p].id
    /\ req'[p].token = req[p].token /\ req'[p].password = req[p].password

LEMMA Advances ==
    ASSUME ReqInv, NEW p \in Requests, Advance(p)
    PROVE  /\ GoesOn(p, req[p].kind, req[p].step + 1)
           /\ req'[p].copy = req[p].copy /\ req'[p].todo = req[p].todo
<1>1. SoundReq(req[p]) /\ DOMAIN req = Requests
  BY DEF ReqInv
<1> DEFINE q == [req[p] EXCEPT !.step = @ + 1]
<1>2. /\ q.kind = req[p].kind /\ q.step = req[p].step + 1 /\ q.id = req[p].id /\ q.token = req[p].token
      /\ q.password = req[p].password /\ q.copy = req[p].copy /\ q.todo = req[p].todo
  BY <1>1 DEF SoundReq
<1>3. req' = [req EXCEPT ![p] = q]
  BY DEF Advance
<1> HIDE DEF q
<1> QED
  BY <1>1, <1>2, <1>3 DEF GoesOn

LEMMA Keeps ==
    ASSUME ReqInv, NEW p \in Requests, NEW r, Keep(p, r)
    PROVE  /\ GoesOn(p, req[p].kind, req[p].step + 1)
           /\ req'[p].copy = [req[p].copy EXCEPT ![r] = Seen(p, r)] /\ req'[p].todo = req[p].todo
<1>1. SoundReq(req[p]) /\ DOMAIN req = Requests
  BY DEF ReqInv
<1> DEFINE q == [req[p] EXCEPT !.step = @ + 1, !.copy[r] = Seen(p, r)]
<1>2. /\ q.kind = req[p].kind /\ q.step = req[p].step + 1 /\ q.id = req[p].id /\ q.token = req[p].token
      /\ q.password = req[p].password /\ q.todo = req[p].todo
      /\ q.copy = [req[p].copy EXCEPT ![r] = Seen(p, r)]
  BY <1>1 DEF SoundReq
<1>3. req' = [req EXCEPT ![p] = q]
  BY DEF Keep
<1> HIDE DEF q
<1> QED
  BY <1>1, <1>2, <1>3 DEF GoesOn

LEMMA ReadsToken ==
    ASSUME ReqInv, NEW p \in Requests, ReadToken(p)
    PROVE  /\ \/ GoesOn(p, req[p].kind, req[p].step + 1)
              \/ req[p].kind = "refresh" /\ GoesOn(p, "reuse", req[p].step + 1)
           /\ req'[p].copy = [req[p].copy EXCEPT ![req[p].token] = Seen(p, req[p].token)]
           /\ req'[p].todo = req[p].todo
<1>1. SoundReq(req[p]) /\ DOMAIN req = Requests
  BY DEF ReqInv
<1> DEFINE r == req[p].token
           q == [req[p] EXCEPT !.step = @ + 1, !.copy[r] = Seen(p, r),
                     !.kind = IF @ = "refresh" /\ WasAlreadyRotated(Seen(p, r))
                              THEN "reuse" ELSE @]
<1>2. /\ q.kind = req[p].kind \/ (req[p].kind = "refresh" /\ q.kind = "reuse")
      /\ q.step = req[p].step + 1 /\ q.id = req[p].id /\ q.token = r
      /\ q.password = req[p].password /\ q.todo = req[p].todo
      /\ q.copy = [req[p].copy EXCEPT ![r] = Seen(p, r)]
  BY <1>1 DEF SoundReq
<1>3. req' = [req EXCEPT ![p] = q]
  BY DEF ReadToken
<1> HIDE DEF q
<1> QED
  BY <1>1, <1>2, <1>3 DEF GoesOn

-----------------------------------------------------------------------------
(* Requests that go on keep the rows as the invariant has them. *)
Reads(r, st) ==
    \/ r = User /\ st = "readUser"
    \/ r = Credential /\ st = "readCredential"
    \/ r = ResetLink /\ st = "readResetLink"
    \/ r = EmailLink /\ st = "readEmailLink"

GoesAs(p, kind) == kind = req[p].kind \/ (req[p].kind = "refresh" /\ kind = "reuse")

LEMMA GoesNumbered ==
    ASSUME Numbered, NEW p \in Requests, req[p].kind # "idle", NEW kind, NEW step,
           GoesOn(p, kind, step), begun' = begun
    PROVE  Numbered'
<1>1. \A q \in Requests : /\ req'[q].id = req[q].id
                          /\ req'[q].kind # "idle" => req[q].kind # "idle"
  BY DEF GoesOn
<1> QED
  BY <1>1 DEF Numbered

LEMMA GoesAdmitted ==
    ASSUME ReqInv, RowInv, NEW p \in Requests, NEW st, At(p, st),
           NEW kind, NEW step \in {req[p].step, req[p].step + 1},
           GoesOn(p, kind, step), GoesAs(p, kind),
           \A r \in AccountRows : Reads(r, st) \/ req'[p].copy[r] = Copy(p, r),
           st = "admit" /\ step # req[p].step => Admits(p)
    PROVE  \A x \in Requests : Admitted(x)'
<1>1. ASSUME NEW x \in Requests \ {p} PROVE Admitted(x)'
  BY DEF GoesOn, RowInv, Admitted, Copy
<1>2. Place(req[p].kind, req[p].step, st) /\ req[p].step \in Nat /\ Admitted(p)
  BY PlaceOf DEF RowInv
<1>3. ASSUME req'[p].kind \in {"suspend", "reactivate"}, req'[p].step > 2
      PROVE  Copy(p, User)'.status # "deactivated"
  <2>1. req[p].kind \in {"suspend", "reactivate"} /\ req[p].kind = kind /\ req[p].step >= 2
    BY <1>2, <1>3 DEF GoesOn, GoesAs
  <2>2. st # "readUser"
    BY <1>2, <2>1 DEF Place
  <2>3. Copy(p, User).status # "deactivated"
    <3>1. CASE req[p].step = 2
      BY <1>2, <1>3, <2>1, <3>1 DEF Place, GoesOn, Admits
    <3>2. CASE req[p].step # 2
      BY <1>2, <2>1, <3>2 DEF Admitted
    <3> QED
      BY <3>1, <3>2
  <2>4. Copy(p, User)' = Copy(p, User)
    BY <2>2, SessionsAssumption DEF Reads, AccountRows, Copy
  <2> QED
    BY <2>3, <2>4
<1>4. ASSUME req'[p].kind = "login", req'[p].step > 4
      PROVE  req'[p].password = Copy(p, Credential)'.password
  <2>1. req[p].kind = "login" /\ req[p].step >= 4
    BY <1>2, <1>4 DEF GoesOn, GoesAs
  <2>2. st # "readCredential"
    BY <1>2, <2>1 DEF Place
  <2>3. req[p].password = Copy(p, Credential).password
    <3>1. CASE req[p].step = 4
      BY <1>2, <1>4, <2>1, <3>1 DEF Place, GoesOn, Admits, LoginAdmits
    <3>2. CASE req[p].step # 4
      BY <1>2, <2>1, <3>2 DEF Admitted
    <3> QED
      BY <3>1, <3>2
  <2>4. Copy(p, Credential)' = Copy(p, Credential)
    BY <2>2, SessionsAssumption DEF Reads, AccountRows, Copy
  <2> QED
    BY <2>3, <2>4 DEF GoesOn
<1>5. Admitted(p)'
  BY <1>3, <1>4 DEF Admitted
<1> QED
  BY <1>1, <1>5

LEMMA NotWaiting ==
    ASSUME RowInv, NEW p \in Requests, NEW st, At(p, st), st \notin Revocations
    PROVE  req[p].todo = {}
BY DEF RowInv, Waits, Revoking, At, Revocations

LEMMA GoesWaiting ==
    ASSUME RowInv, NEW p \in Requests, NEW kind, NEW step, GoesOn(p, kind, step),
           \/ req'[p].todo = {}
           \/ /\ kind = req[p].kind /\ step = req[p].step
              /\ Revoking(p) /\ req'[p].todo \subseteq Sessions \cup Tokens
    PROVE  \A x \in Requests : Waits(x)'
<1>1. ASSUME NEW x \in Requests \ {p} PROVE Waits(x)'
  BY DEF GoesOn, RowInv, Waits, Revoking, At
<1>2. Waits(p)'
  BY DEF GoesOn, Waits, Revoking, At
<1> QED
  BY <1>1, <1>2

(* A statement that writes nothing. *)
LEMMA StandRows ==
    ASSUME ReqInv, RowInv, NEW p \in Requests, NEW st, At(p, st), st # "saveUser",
           NEW kind, NEW step \in {req[p].step, req[p].step + 1},
           GoesOn(p, kind, step), GoesAs(p, kind),
           \A r \in AccountRows : Reads(r, st) \/ req'[p].copy[r] = Copy(p, r),
           st = "admit" /\ step # req[p].step => Admits(p),
           \A r \in Rows : req'[p].copy[r] \in ValuesOf(r),
           \/ req'[p].todo = {}
           \/ /\ kind = req[p].kind /\ step = req[p].step
              /\ Revoking(p) /\ req'[p].todo \subseteq Sessions \cup Tokens,
           UNCHANGED <<dbVars, begun>>, overwritten \subseteq overwritten'
    PROVE  RowInv'
<1>1. Place(req[p].kind, req[p].step, st) /\ req[p].step \in Nat /\ req[p].kind # "idle"
  BY PlaceOf
<1>2. Numbered'
  BY <1>1, GoesNumbered DEF RowInv
<1>3. TypedRows'
  BY DEF RowInv, TypedRows, GoesOn, GoesAs, Copy, Wrote, dbVars
<1>4. \A x \in Requests : Admitted(x)'
  BY GoesAdmitted
<1>5. \A x \in Requests : Waits(x)'
  BY GoesWaiting
<1>6. \A x \in Requests : Wrote(x)' = Wrote(x)
  BY DEF Wrote, dbVars
<1>7. ASSUME NEW x \in Requests PROVE InOrder(x)'
  <2>1. CASE x # p
    BY <1>6, <2>1 DEF RowInv, InOrder, GoesOn, dbVars
  <2>2. CASE x = p
    <3>1. InOrder(p)
      BY DEF RowInv
    <3>2. req[p].kind \in Changes => req[p].step # SavesUser[req[p].kind]
      BY <1>1 DEF Place
    <3>3. kind \in DOMAIN SavesUser => kind = req[p].kind
      BY DEF GoesAs, SavesUser
    <3>4. Changes \subseteq DOMAIN SavesUser /\ \A k \in DOMAIN SavesUser : SavesUser[k] \in Nat
      BY DEF Changes, SavesUser
    <3>5. "refresh" \notin DOMAIN SavesUser /\ "login" \in DOMAIN SavesUser
      BY DEF SavesUser
    <3>6. User \in Wrote(p)' => kind \in DOMAIN SavesUser /\ step > SavesUser[kind]
      BY <1>1, <1>6, <3>1, <3>3, <3>4, <3>5 DEF InOrder, GoesAs
    <3>7. Credential \in Wrote(p)' /\ kind = "login" => step > 3
      BY <1>1, <1>6, <3>1, <3>3, <3>5 DEF InOrder
    <3>8. kind \in Changes /\ step > SavesUser[kind]
             => User \in Wrote(p)' /\ draft'[p][User].stamp = req[p].id
      BY <1>1, <1>6, <3>1, <3>2, <3>3, <3>4 DEF InOrder, dbVars
    <3>9. kind # "idle"
      BY <1>1 DEF GoesAs
    <3> QED
      BY <2>2, <3>6, <3>7, <3>8, <3>9 DEF InOrder, GoesOn
  <2> QED
    BY <2>1, <2>2
<1>8. ASSUME NEW x \in Requests PROVE SavedAsRead(x)'
  <2>1. SavedAsRead(x) /\ InOrder(x)
    BY DEF RowInv
  <2>2. req'[x].id = req[x].id
    BY DEF GoesOn
  <2>3. User \in Wrote(x) => req'[x].kind = req[x].kind
    <3>1. "refresh" \notin DOMAIN SavesUser
      BY DEF SavesUser
    <3> QED
      BY <2>1, <3>1 DEF InOrder, GoesOn, GoesAs
  <2>4. req'[x].kind = req[x].kind \/ req[x].kind \notin Changes
    BY DEF GoesOn, GoesAs, Changes
  <2> QED
    BY <1>6, <2>1, <2>2, <2>3, <2>4 DEF SavedAsRead, dbVars
<1> QED
  BY <1>2, <1>3, <1>4, <1>5, <1>7, <1>8 DEF RowInv

-----------------------------------------------------------------------------
(* A statement that writes. *)
LEMMA PutEffect ==
    ASSUME DraftInv, NEW p \in Requests, NEW new, Put(p, new)
    PROVE  /\ db' = db /\ DOMAIN draft' = Requests
           /\ \A q \in Requests \ {p} : draft'[q] = draft[q] /\ Wrote(q)' = Wrote(q)
           /\ \A q \in Requests \ {p} : Wrote(q) \cap DOMAIN new = {}
           /\ Wrote(p)' = Wrote(p) \cup DOMAIN new
           /\ \A r \in Wrote(p)' : draft'[p][r] = IF r \in DOMAIN new THEN new[r] ELSE draft[p][r]
BY DEF Put, DraftInv, Wrote, Free

LEMMA SavedUnread ==
    ASSUME NEW p \in Requests, NEW st \in Saves, At(p, st), NEW r, r \in Wrote(p)', r \notin Wrote(p),
           overwritten' = overwritten \cup SavedOver(p), r \notin overwritten'
    PROVE  db[r] = Copy(p, r)
BY DEF SavedOver, Wrote

LEMMA IdIsNumber ==
    ASSUME RowInv, NEW p \in Requests, req[p].kind # "idle"
    PROVE  req[p].id \in Numbers /\ req[p].id \in 1..begun
<1>1. begun \in 0..MaxRequests /\ req[p].id \in 1..begun /\ MaxRequests \in Nat
  BY SessionsAssumption DEF RowInv, Numbered
<1> QED
  BY <1>1 DEF Numbers

(* The row of the account is written from what was read, and what was read  *)
(* is what is there unless it was saved over a change.                      *)
LEMMA UserAfterMoves ==
    ASSUME ReqInv, RowInv, NEW p \in Requests, At(p, "saveUser")
    PROVE  /\ UserAfter(p, Copy(p, User)).status = Copy(p, User).status
              \/ <<Copy(p, User).status, UserAfter(p, Copy(p, User)).status>>
                    \in StatusMoves(req[p].kind)
           /\ UserAfter(p, Copy(p, User)).stamp \in {Copy(p, User).stamp, req[p].id}
           /\ req[p].kind \in Changes => UserAfter(p, Copy(p, User)).stamp = req[p].id
           /\ UserAfter(p, Copy(p, User)) \in UserRows
<1> DEFINE u == Copy(p, User)
           v == UserAfter(p, u)
<1>1. u \in UserRows
  BY RowValues, SessionsAssumption DEF RowInv, TypedRows
<1>2. /\ Place(req[p].kind, req[p].step, "saveUser") /\ Admitted(p) /\ req[p].kind # "idle"
      /\ req[p].id \in Numbers
  <2>1. Place(req[p].kind, req[p].step, "saveUser") /\ req[p].kind # "idle"
    BY PlaceOf
  <2> QED
    BY <2>1, IdIsNumber DEF RowInv
<1>3. req[p].kind \in DOMAIN SavesUser /\ req[p].step = SavesUser[req[p].kind]
  BY <1>2 DEF Place
<1> SUFFICES /\ v.status = u.status \/ <<u.status, v.status>> \in StatusMoves(req[p].kind)
             /\ v.stamp \in {u.stamp, req[p].id}
             /\ req[p].kind \in Changes => v.stamp = req[p].id
             /\ v \in UserRows
  OBVIOUS
<1> HIDE DEF u
<1>4. CASE req[p].kind \in {"login", "oauth", "mfa"}
  <2>1. v = u /\ req[p].kind \notin Changes
    BY <1>4 DEF UserAfter, Changes
  <2> QED
    BY <1>1, <2>1
<1>5. CASE req[p].kind = "verify"
  <2>1. v = Verified(u) /\ req[p].kind \notin Changes
    BY <1>5 DEF UserAfter, Changes
  <2>2. CASE u.status = "pending"
    <3>1. v = [u EXCEPT !.status = "active"]
      BY <2>1, <2>2 DEF Verified
    <3>2. v.status = "active" /\ v.stamp = u.stamp /\ v \in UserRows
      BY <1>1, <3>1 DEF UserRows, Statuses
    <3>3. <<"pending", "active">> \in StatusMoves(req[p].kind)
      BY <1>5 DEF StatusMoves
    <3> QED
      BY <2>1, <2>2, <3>2, <3>3
  <2>3. CASE u.status # "pending"
    BY <1>1, <2>1, <2>3 DEF Verified
  <2> QED
    BY <2>2, <2>3
<1>6. CASE req[p].kind = "suspend"
  <2>1. v = [status |-> "suspended", stamp |-> req[p].id] /\ req[p].kind \notin Changes
    BY <1>6 DEF UserAfter, Changes
  <2>2. u.status \in Statuses \ {"deactivated"}
    BY <1>1, <1>2, <1>3, <1>6 DEF Admitted, SavesUser, UserRows, u
  <2>3. <<u.status, "suspended">> \in StatusMoves(req[p].kind)
    BY <1>6, <2>2 DEF StatusMoves
  <2>4. v \in UserRows
    BY <1>2, <2>1 DEF UserRows, Statuses
  <2> QED
    BY <2>1, <2>3, <2>4
<1>7. CASE req[p].kind = "reactivate"
  <2>1. v = [status |-> "active", stamp |-> req[p].id] /\ req[p].kind \notin Changes
    BY <1>7 DEF UserAfter, Changes
  <2>2. u.status \in Statuses \ {"deactivated"}
    BY <1>1, <1>2, <1>3, <1>7 DEF Admitted, SavesUser, UserRows, u
  <2>3. <<u.status, "active">> \in StatusMoves(req[p].kind)
    BY <1>7, <2>2 DEF StatusMoves
  <2>4. v \in UserRows
    BY <1>2, <2>1 DEF UserRows, Statuses
  <2> QED
    BY <2>1, <2>3, <2>4
<1>8. CASE req[p].kind = "delete"
  <2>1. v = [status |-> "deactivated", stamp |-> req[p].id] /\ req[p].kind \notin Changes
    BY <1>8 DEF UserAfter, Changes
  <2>2. <<u.status, "deactivated">> \in StatusMoves(req[p].kind)
    BY <1>1, <1>8 DEF StatusMoves, UserRows
  <2>3. v \in UserRows
    BY <1>2, <2>1 DEF UserRows, Statuses
  <2> QED
    BY <2>1, <2>2, <2>3
<1>9. CASE req[p].kind \in {"logout_all", "email", "change", "reset"}
  <2>1. v = [u EXCEPT !.stamp = req[p].id]
    BY <1>9 DEF UserAfter
  <2>2. v.status = u.status /\ v.stamp = req[p].id /\ v \in UserRows
    BY <1>1, <1>2, <2>1 DEF UserRows
  <2> QED
    BY <2>2
<1> QED
  BY <1>3, <1>4, <1>5, <1>6, <1>7, <1>8, <1>9 DEF SavesUser

LEMMA WriteRows ==
    ASSUME ReqInv, DraftInv, RowInv, NEW p \in Requests, NEW st, At(p, st), st # "admit",
           NEW step \in {req[p].step, req[p].step + 1}, GoesOn(p, req[p].kind, step),
           req'[p].copy = req[p].copy, req'[p].todo = {} \/ (step = req[p].step /\ Revoking(p)
                                             /\ req'[p].todo \subseteq Sessions \cup Tokens),
           NEW new, Put(p, new), \A r \in Rows \cap DOMAIN new : new[r] \in ValuesOf(r),
           User \in DOMAIN new => /\ st = "saveUser" /\ step = req[p].step + 1
                                  /\ new[User] = UserAfter(p, Copy(p, User)),
           st = "saveUser" => User \in DOMAIN new,
           Credential \in DOMAIN new =>
               /\ step = req[p].step + 1
               /\ \/ st = "saveCredential"
                  \/ st = "rehash" /\ new[Credential].password = Copy(p, Credential).password,
           ResetLink \in DOMAIN new => st = "saveResetLink",
           EmailLink \in DOMAIN new => st = "saveEmailLink",
           begun' = begun, overwritten' = overwritten \cup SavedOver(p)
    PROVE  RowInv'
<1> USE SessionsAssumption
<1>1. Place(req[p].kind, req[p].step, st) /\ req[p].step \in Nat /\ req[p].kind # "idle"
  BY PlaceOf
<1>2. /\ db' = db
      /\ \A q \in Requests \ {p} : draft'[q] = draft[q] /\ Wrote(q)' = Wrote(q)
      /\ Wrote(p)' = Wrote(p) \cup DOMAIN new
      /\ \A r \in Wrote(p)' : draft'[p][r] = IF r \in DOMAIN new THEN new[r] ELSE draft[p][r]
  BY PutEffect
<1>3. Numbered'
  BY <1>1, GoesNumbered DEF RowInv
<1>4. TypedRows'
  <2>1. \A x \in Requests : Copy(x, User)' = Copy(x, User) /\ req'[x].copy = req[x].copy
    BY DEF GoesOn, Copy
  <2>2. \A x \in Requests : req'[x].kind = req[x].kind /\ req'[x].password = req[x].password
    BY DEF GoesOn
  <2>3. \A r \in Rows \cap Wrote(p)' : draft'[p][r] \in ValuesOf(r)
    BY <1>2 DEF RowInv, TypedRows
  <2> QED
    BY <1>2, <2>1, <2>2, <2>3 DEF RowInv, TypedRows, Copy
<1>5. \A x \in Requests : Admitted(x)'
  <2>1. \A r \in AccountRows : req'[p].copy[r] = Copy(p, r)
    BY DEF Copy
  <2>2. GoesAs(p, req[p].kind)
    BY DEF GoesAs
  <2> QED
    BY <2>1, <2>2, GoesAdmitted
<1>6. \A x \in Requests : Waits(x)'
  BY GoesWaiting
<1>7. ASSUME NEW x \in Requests \ {p} PROVE InOrder(x)' /\ SavedAsRead(x)'
  BY <1>2 DEF RowInv, InOrder, SavedAsRead, GoesOn
<1>8. InOrder(p) /\ SavedAsRead(p) /\ Admitted(p)
  BY DEF RowInv
<1>9. /\ Changes \subseteq DOMAIN SavesUser /\ "login" \notin Changes
      /\ \A k \in DOMAIN SavesUser : SavesUser[k] \in Nat
  BY DEF Changes, SavesUser
<1>10. InOrder(p)'
  <2>1. User \in Wrote(p)' => req[p].kind \in DOMAIN SavesUser /\ step > SavesUser[req[p].kind]
    BY <1>1, <1>2, <1>8, <1>9 DEF InOrder, Place
  <2>2. Credential \in Wrote(p)' /\ req[p].kind = "login" => step > 3
    BY <1>1, <1>2, <1>8, <1>9 DEF InOrder, Place
  <2>3. ASSUME req[p].kind \in Changes, step > SavesUser[req[p].kind]
        PROVE  User \in Wrote(p)' /\ draft'[p][User].stamp = req[p].id
    <3>1. CASE st = "saveUser"
      <4>1. new[User].stamp = req[p].id
        BY <2>3, <3>1, UserAfterMoves
      <4> QED
        BY <1>2, <3>1, <4>1
    <3>2. CASE st # "saveUser"
      <4>1. req[p].step > SavesUser[req[p].kind]
        BY <1>1, <1>9, <2>3, <3>2 DEF Place
      <4> QED
        BY <1>2, <1>8, <2>3, <3>2, <4>1 DEF InOrder
    <3> QED
      BY <3>1, <3>2
  <2> QED
    BY <1>1, <2>1, <2>2, <2>3 DEF InOrder, GoesOn
<1>11. SavedAsRead(p)'
  <2>1. ASSUME User \in Wrote(p)', User \notin overwritten'
        PROVE  /\ \/ draft'[p][User].status = db[User].status
                  \/ <<db[User].status, draft'[p][User].status>> \in StatusMoves(req[p].kind)
               /\ draft'[p][User].stamp \in {db[User].stamp, req[p].id}
    <3>1. CASE User \in DOMAIN new
      <4>1. User \notin Wrote(p) /\ st = "saveUser"
        BY <1>1, <1>8, <1>9, <3>1 DEF InOrder, Place
      <4>2. db[User] = Copy(p, User)
        BY <2>1, <4>1, SavedUnread DEF Saves
      <4>3. draft'[p][User] = UserAfter(p, Copy(p, User))
        BY <1>2, <2>1, <3>1
      <4>4. /\ UserAfter(p, Copy(p, User)).status = Copy(p, User).status
               \/ <<Copy(p, User).status, UserAfter(p, Copy(p, User)).status>>
                    \in StatusMoves(req[p].kind)
            /\ UserAfter(p, Copy(p, User)).stamp \in {Copy(p, User).stamp, req[p].id}
        BY <4>1, UserAfterMoves
      <4> QED
        BY <4>2, <4>3, <4>4
    <3>2. CASE User \notin DOMAIN new
      BY <1>2, <1>8, <2>1, <3>2 DEF SavedAsRead
    <3> QED
      BY <3>1, <3>2
  <2>2. ASSUME Credential \in Wrote(p)', Credential \notin overwritten'
        PROVE  \/ draft'[p][Credential].password = db[Credential].password
               \/ req[p].kind \in Changes
    <3>1. CASE Credential \in DOMAIN new /\ st = "saveCredential"
      BY <1>1, <3>1 DEF Place
    <3>2. CASE Credential \in DOMAIN new /\ st = "rehash"
      <4>1. Credential \notin Wrote(p)
        BY <1>1, <1>8, <3>2 DEF InOrder, Place
      <4>2. db[Credential] = Copy(p, Credential)
        BY <2>2, <3>2, <4>1, SavedUnread DEF Saves
      <4> QED
        BY <1>2, <2>2, <3>2, <4>2
    <3>3. CASE Credential \notin DOMAIN new
      BY <1>2, <1>8, <2>2, <3>3 DEF SavedAsRead
    <3> QED
      BY <3>1, <3>2, <3>3
  <2> QED
    BY <1>2, <2>1, <2>2 DEF SavedAsRead, GoesOn
<1> QED
  BY <1>3, <1>4, <1>5, <1>6, <1>7, <1>10, <1>11 DEF RowInv

-----------------------------------------------------------------------------
(* The beginning and the end of a request. *)
LEMMA AccountRowsTyped ==
    ASSUME NEW status \in Statuses, NEW old \in BOOLEAN
    PROVE  \A r \in Rows : Account(status, old)[r] \in ValuesOf(r)
<1> USE SessionsAssumption
<1>1. AnyOf(Sessions) \in Sessions
  <2>1. Sessions # {}
    BY FS_EmptySet
  <2> QED
    BY <2>1 DEF AnyOf
<1>2. 0 \in Numbers
  BY DEF Numbers
<1>3. Account(status, old)[User] \in ValuesOf(User)
  BY <1>2, RowValues DEF Account, UserRows
<1>4. Account(status, old)[Credential] \in ValuesOf(Credential)
  BY <1>2, RowValues DEF Account, Credentials
<1>5. ASSUME NEW l \in {ResetLink, EmailLink} PROVE Account(status, old)[l] \in ValuesOf(l)
  <2>1. l \notin Sessions /\ l \notin Tokens /\ l # User /\ l # Credential /\ l \in Rows
    OBVIOUS
  <2>2. Account(status, old)[l] = [used |-> 0]
    BY <2>1 DEF Account
  <2> QED
    BY <1>2, <2>2, RowValues DEF LinkRows
<1>6. ASSUME NEW s \in Sessions PROVE Account(status, old)[s] \in ValuesOf(s)
  <2>1. Account(status, old)[s] = IF s = AnyOf(Sessions)
                               THEN [state |-> "live", stamp |-> 0, password |-> 0]
                               ELSE [state |-> "absent", stamp |-> 0, password |-> None]
    BY DEF Account
  <2>2. /\ [state |-> "live", stamp |-> 0, password |-> 0] \in SessionRows
        /\ [state |-> "absent", stamp |-> 0, password |-> None] \in SessionRows
    BY <1>2 DEF SessionRows
  <2> QED
    BY <2>1, <2>2, RowValues
<1>7. \A t \in Tokens : Account(status, old)[t] \in ValuesOf(t)
  BY AccountTyped, RowValues
<1> QED
  BY <1>3, <1>4, <1>5, <1>6, <1>7, RowValues DEF AccountRows

LEMMA IdleFields ==
    /\ Idle.kind = "idle" /\ Idle.step = 1 /\ Idle.id = 0 /\ Idle.todo = {}
    /\ Idle.copy = Account("active", FALSE)
    /\ \A r \in Rows : Idle.copy[r] \in ValuesOf(r)
<1>1. /\ Idle.kind = "idle" /\ Idle.step = 1 /\ Idle.id = 0 /\ Idle.todo = {}
      /\ Idle.copy = Account("active", FALSE)
  BY DEF Idle
<1> QED
  BY <1>1, AccountRowsTyped DEF Statuses

LEMMA Finishes ==
    ASSUME ReqInv, NEW p \in Requests, Finish(p)
    PROVE  req'[p] = Idle /\ \A q \in Requests \ {p} : req'[q] = req[q]
BY DEF Finish, ReqInv

LEMMA EndEffect ==
    ASSUME DraftInv, NEW p \in Requests, CommitRows(p) \/ DropRows(p)
    PROVE  /\ Wrote(p)' = {} /\ DOMAIN draft' = Requests
           /\ \A q \in Requests \ {p} :
                 /\ draft'[q] = draft[q] /\ Wrote(q)' = Wrote(q)
                 /\ \A r \in Rows \cap Wrote(q) : db'[r] = db[r]
           /\ \A r \in Rows : db'[r] \in {db[r], Seen(p, r)}
           /\ CommitRows(p) => \A r \in Rows : db'[r] = Seen(p, r)
           /\ DropRows(p) => db' = db
<1>1. /\ Wrote(p)' = {} /\ DOMAIN draft' = Requests
      /\ \A q \in Requests \ {p} : draft'[q] = draft[q] /\ Wrote(q)' = Wrote(q)
  BY DEF CommitRows, DropRows, DraftInv, Wrote, NoRows
<1>2. /\ CommitRows(p) => \A r \in Rows : db'[r] = Seen(p, r)
      /\ DropRows(p) => db' = db
  BY DEF CommitRows, DropRows
<1>3. ASSUME NEW q \in Requests \ {p}, NEW r \in Rows \cap Wrote(q) PROVE db'[r] = db[r]
  <2>1. r \notin Wrote(p)
    BY DEF DraftInv, OneWriter
  <2> QED
    BY <1>2, <2>1 DEF Seen
<1> QED
  BY <1>1, <1>2, <1>3

LEMMA EndRows ==
    ASSUME ReqInv, DraftInv, RowInv, NEW p \in Requests, CommitRows(p) \/ DropRows(p), Finish(p),
           begun' = begun, overwritten \subseteq overwritten'
    PROVE  RowInv'
<1> USE SessionsAssumption
<1>1. /\ Wrote(p)' = {}
      /\ \A q \in Requests \ {p} : /\ draft'[q] = draft[q] /\ Wrote(q)' = Wrote(q)
                                   /\ \A r \in Rows \cap Wrote(q) : db'[r] = db[r]
      /\ \A r \in Rows : db'[r] \in {db[r], Seen(p, r)}
  BY EndEffect
<1>2. /\ req'[p] = Idle /\ req'[p].kind = "idle" /\ req'[p].todo = {}
      /\ \A q \in Requests \ {p} : req'[q] = req[q]
  BY Finishes, IdleFields
<1>3. Numbered'
  <2>1. \A q \in Requests : req'[q].kind # "idle" => req'[q] = req[q]
    BY <1>2
  <2> QED
    BY <2>1 DEF RowInv, Numbered
<1>4. TypedRows'
  <2>1. \A r \in Rows : db'[r] \in ValuesOf(r)
    BY <1>1 DEF RowInv, TypedRows, Seen
  <2>2. \A r \in Rows : Copy(p, r)' \in ValuesOf(r)
    BY <1>2, IdleFields DEF Copy
  <2>3. ASSUME NEW q \in Requests \ {p}
        PROVE  /\ req'[q].kind = "login" => req'[q].password \in Numbers
               /\ \A r \in Rows : Copy(q, r)' \in ValuesOf(r)
               /\ \A r \in Rows \cap Wrote(q)' : draft'[q][r] \in ValuesOf(r)
    BY <1>1, <1>2 DEF RowInv, TypedRows, Copy
  <2> QED
    BY <1>1, <1>2, <2>1, <2>2, <2>3 DEF TypedRows
<1>5. Admitted(p)' /\ InOrder(p)' /\ SavedAsRead(p)' /\ Waits(p)'
  <2>1. "idle" \notin Changes
    BY DEF Changes
  <2> QED
    BY <1>1, <1>2, <2>1 DEF Admitted, InOrder, SavedAsRead, Waits
<1>6. ASSUME NEW x \in Requests \ {p}
      PROVE  Admitted(x)' /\ InOrder(x)' /\ SavedAsRead(x)' /\ Waits(x)'
  <2>1. Admitted(x) /\ InOrder(x) /\ SavedAsRead(x) /\ Waits(x)
    BY DEF RowInv
  <2>2. req'[x] = req[x] /\ draft'[x] = draft[x] /\ Wrote(x)' = Wrote(x)
    BY <1>1, <1>2
  <2>3. \A r \in AccountRows \cap Wrote(x) : db'[r] = db[r]
    BY <1>1, RowValues
  <2>4. SavedAsRead(x)'
    BY <2>1, <2>2, <2>3 DEF SavedAsRead, AccountRows
  <2> QED
    BY <2>1, <2>2, <2>4 DEF Admitted, InOrder, Waits, Revoking, At, Copy
<1> QED
  BY <1>3, <1>4, <1>5, <1>6 DEF RowInv

LEMMA Begins ==
    ASSUME ReqInv, NEW p \in Requests, NEW kind, NEW token, NEW password,
           Begin(p, kind, token, password)
    PROVE  /\ \A q \in Requests \ {p} : req'[q] = req[q]
           /\ req[p].kind = "idle" /\ kind \in DOMAIN Script \ {"reuse", "idle"}
           /\ req'[p].kind = kind /\ req'[p].step = 1 /\ req'[p].id = begun + 1
           /\ req'[p].token = token /\ req'[p].password = password /\ req'[p].todo = {}
           /\ req'[p].copy = Account("active", FALSE)
           /\ begun' = begun + 1 /\ begun < MaxRequests /\ UNCHANGED dbVars
<1> DEFINE q == [Idle EXCEPT !.kind = kind, !.id = begun + 1, !.token = token,
                             !.password = password]
<1>1. /\ q.kind = kind /\ q.step = 1 /\ q.token = token /\ q.id = begun + 1
      /\ q.password = password /\ q.copy = Account("active", FALSE) /\ q.todo = {}
  BY DEF Idle
<1>2. req' = [req EXCEPT ![p] = q]
  BY DEF Begin
<1>3. kind \in DOMAIN Script \ {"reuse", "idle"}
  BY UseCasesAssumption DEF Begin, Script
<1> HIDE DEF q
<1> QED
  BY <1>1, <1>2, <1>3 DEF Begin, ReqInv

LEMMA BeginRows ==
    ASSUME ReqInv, RowInv, NEW p \in Requests, NEW kind, NEW token, NEW password,
           Begin(p, kind, token, password), kind = "login" => password \in Numbers,
           overwritten \subseteq overwritten'
    PROVE  RowInv'
<1>1. /\ \A q \in Requests \ {p} : req'[q] = req[q]
      /\ req[p].kind = "idle" /\ kind # "idle"
      /\ req'[p].kind = kind /\ req'[p].step = 1 /\ req'[p].id = begun + 1
      /\ req'[p].password = password /\ req'[p].todo = {}
      /\ req'[p].copy = Account("active", FALSE)
      /\ begun' = begun + 1 /\ begun < MaxRequests
      /\ db' = db /\ draft' = draft /\ \A q \in Requests : Wrote(q)' = Wrote(q)
  <2>1. UNCHANGED dbVars /\ kind # "idle"
    BY Begins
  <2>2. db' = db /\ draft' = draft /\ \A q \in Requests : Wrote(q)' = Wrote(q)
    BY <2>1 DEF dbVars, Wrote
  <2>3. \A q \in Requests \ {p} : req'[q] = req[q]
    BY Begins
  <2>4. req[p].kind = "idle" /\ begun' = begun + 1 /\ begun < MaxRequests
    BY DEF Begin
  <2>5. /\ req'[p].kind = kind /\ req'[p].step = 1 /\ req'[p].id = begun + 1
        /\ req'[p].password = password /\ req'[p].todo = {}
        /\ req'[p].copy = Account("active", FALSE)
    <3> DEFINE q == [Idle EXCEPT !.kind = kind, !.id = begun + 1, !.token = token,
                                 !.password = password]
    <3>1. /\ q.kind = kind /\ q.step = 1 /\ q.id = begun + 1 /\ q.password = password
          /\ q.copy = Account("active", FALSE) /\ q.todo = {}
      BY DEF Idle
    <3>2. req'[p] = q
      BY DEF Begin, ReqInv
    <3> QED
      BY <3>1, <3>2
  <2> QED
    BY <2>1, <2>2, <2>3, <2>4, <2>5
<1>2. Wrote(p) = {} /\ begun \in 0..MaxRequests /\ MaxRequests \in Nat
  BY <1>1, SessionsAssumption DEF RowInv, InOrder, Numbered
<1>3. Numbered'
  <2>1. begun' \in 0..MaxRequests
    BY <1>1, <1>2
  <2>2. \A q \in Requests : req'[q].kind # "idle" => req'[q].id \in 1..begun'
    BY <1>1, <1>2 DEF RowInv, Numbered
  <2>3. ASSUME NEW q \in Requests \ {p}, req'[q].kind # "idle" PROVE req'[q].id # begun + 1
    BY <1>1, <1>2, <2>3 DEF RowInv, Numbered
  <2>4. \A x, y \in Requests : x # y /\ req'[x].kind # "idle" /\ req'[y].kind # "idle"
                                  => req'[x].id # req'[y].id
    BY <1>1, <2>3 DEF RowInv, Numbered
  <2> QED
    BY <2>1, <2>2, <2>4 DEF Numbered
<1>4. TypedRows'
  <2>1. \A r \in Rows : Copy(p, r)' \in ValuesOf(r)
    BY <1>1, AccountRowsTyped DEF Copy, Statuses
  <2> QED
    BY <1>1, <2>1 DEF RowInv, TypedRows, Copy
<1>5. Admitted(p)' /\ InOrder(p)' /\ SavedAsRead(p)' /\ Waits(p)'
  <2>1. kind \in Changes => SavesUser[kind] \in Nat /\ SavesUser[kind] > 1
    BY DEF Changes, SavesUser
  <2> QED
    BY <1>1, <1>2, <2>1 DEF Admitted, InOrder, SavedAsRead, Waits
<1>6. ASSUME NEW x \in Requests \ {p}
      PROVE  Admitted(x)' /\ InOrder(x)' /\ SavedAsRead(x)' /\ Waits(x)'
  BY <1>1 DEF RowInv, Admitted, InOrder, SavedAsRead, Waits, Revoking, At, Copy
<1> QED
  BY <1>3, <1>4, <1>5, <1>6 DEF RowInv

-----------------------------------------------------------------------------
(* Every statement of a use case is one that writes nothing, one that       *)
(* writes rows, or one that ends the request.                               *)
Fetches(p, r, st) ==
    \/ Reads(r, st)
    \/ st = "readToken" /\ r = req[p].token
    \/ st = "readSession" /\ r = SessionOf(p)

GoesOnWaiting(p, step) ==
    \/ req'[p].todo = {}
    \/ step = req[p].step /\ Revoking(p) /\ req'[p].todo \subseteq Sessions \cup Tokens

Standing(p, st, kind, step) ==
    /\ At(p, st) /\ st # "saveUser" /\ st # "addToken"
    /\ GoesOn(p, kind, step) /\ step \in {req[p].step, req[p].step + 1}
    /\ kind # req[p].kind => st = "readToken" /\ req[p].kind = "refresh" /\ kind = "reuse"
    /\ st \notin Revocations => step = req[p].step + 1
    /\ UNCHANGED <<dbVars, begun>>
    /\ \A r \in Rows : \/ req'[p].copy[r] = Copy(p, r) /\ ~Fetches(p, r, st)
                       \/ Fetches(p, r, st) /\ req'[p].copy[r] = Seen(p, r)
    /\ st = "admit" => Admits(p)
    /\ GoesOnWaiting(p, step)

Contents(p, st, new) ==
    \/ st = "saveUser" /\ DOMAIN new = {User} /\ new[User] = UserAfter(p, Copy(p, User))
    \/ /\ st = "saveCredential" /\ DOMAIN new = {Credential}
       /\ new[Credential] = [password |-> req[p].id, oldHash |-> FALSE]
    \/ /\ st = "rehash" /\ DOMAIN new = {Credential}
       /\ new[Credential] = [Copy(p, Credential) EXCEPT !.oldHash = FALSE]
    \/ st = "saveResetLink" /\ DOMAIN new = {ResetLink} /\ new[ResetLink] = [used |-> req[p].id]
    \/ st = "saveEmailLink" /\ DOMAIN new = {EmailLink} /\ new[EmailLink] = [used |-> req[p].id]
    \/ /\ st = "saveToken" /\ DOMAIN new = {req[p].token}
       /\ new[req[p].token] = Rotated(p, Copy(p, req[p].token))
    \/ /\ st = "saveSession" /\ DOMAIN new = {SessionOf(p)}
       /\ new[SessionOf(p)] = SessionAfter(p, Copy(p, SessionOf(p)))
    \/ /\ st = "addToken"
       /\ \E t \in Unused(Tokens) : DOMAIN new = {t} /\ new[t] = NewToken(SessionOf(p))
    \/ /\ st = "open"
       /\ \E s \in Unused(Sessions), t \in Unused(Tokens) :
             /\ DOMAIN new = {s, t} /\ new[t] = NewToken(s)
             /\ new[s] = [state |-> "live", stamp |-> Copy(p, User).stamp,
                          password |-> IF req[p].kind = "login" THEN req[p].password ELSE None]
    \/ /\ st \in Revocations
       /\ \A r \in DOMAIN new : r \in Unrevoked(p, Sessions \cup Tokens) /\ new[r] = Revoked(p, r)

Writing(p, st, step, new) ==
    /\ At(p, st) /\ Put(p, new) /\ Contents(p, st, new)
    /\ GoesOn(p, req[p].kind, step) /\ step \in {req[p].step, req[p].step + 1}
    /\ st \notin Revocations => step = req[p].step + 1
    /\ req'[p].copy = req[p].copy /\ begun' = begun
    /\ GoesOnWaiting(p, step)

Ending(p) ==
    /\ CommitRows(p) \/ DropRows(p)
    /\ CommitRows(p) => \/ req[p].kind = "login"
                        \/ db' = db
                        \/ req[p].step > Len(Script[req[p].kind])
    /\ req[p].kind # "idle"
    /\ Finish(p) /\ begun' = begun

LEMMA AdvanceWaiting ==
    ASSUME ReqInv, RowInv, NEW p \in Requests, NEW st, At(p, st), Advance(p),
           st \notin Revocations \/ req[p].todo = {}
    PROVE  /\ GoesOn(p, req[p].kind, req[p].step + 1) /\ req'[p].copy = req[p].copy
           /\ GoesOnWaiting(p, req[p].step + 1)
<1>1. req[p].todo = {}
  BY NotWaiting
<1> QED
  BY <1>1, Advances DEF GoesOnWaiting

LEMMA AdmitStands ==
    ASSUME ReqInv, RowInv, NEW p \in Requests, NEW st \in {"admit", "challenge", "consume", "rehash"},
           At(p, st), Advance(p), UNCHANGED <<dbVars, begun>>, st = "admit" => Admits(p)
    PROVE  Standing(p, st, req[p].kind, req[p].step + 1)
<1>1. st \notin Revocations
  BY DEF Revocations
<1>2. /\ GoesOn(p, req[p].kind, req[p].step + 1) /\ req'[p].copy = req[p].copy
      /\ GoesOnWaiting(p, req[p].step + 1)
  BY <1>1, AdvanceWaiting
<1>3. \A r \in Rows : req'[p].copy[r] = Copy(p, r) /\ ~Fetches(p, r, st)
  BY <1>2 DEF Copy, Fetches, Reads
<1> QED
  BY <1>2, <1>3 DEF Standing

LEMMA ReadStands ==
    ASSUME ReqInv, RowInv, NEW p \in Requests, ReadRow(p)
    PROVE  \E st : Standing(p, st, req[p].kind, req[p].step + 1)
<1>1. PICK st, r : /\ At(p, st) /\ Keep(p, r)
                   /\ \/ st = "readUser" /\ r = User
                      \/ st = "readCredential" /\ r = Credential
                      \/ st = "readResetLink" /\ r = ResetLink
                      \/ st = "readEmailLink" /\ r = EmailLink
                      \/ st = "readSession" /\ r = SessionOf(p)
  BY DEF ReadRow
<1>2. st \notin Revocations
  BY <1>1 DEF Revocations
<1>3. /\ GoesOn(p, req[p].kind, req[p].step + 1) /\ req'[p].todo = {}
      /\ req'[p].copy = [req[p].copy EXCEPT ![r] = Seen(p, r)]
  BY <1>1, <1>2, NotWaiting, Keeps
<1>4. \A x \in Rows : Fetches(p, x, st) <=> x = r
  BY <1>1, SessionsAssumption DEF Fetches, Reads
<1>5. DOMAIN req[p].copy = Rows
  BY DEF ReqInv, SoundReq
<1>6. \A x \in Rows : \/ req'[p].copy[x] = Copy(p, x) /\ ~Fetches(p, x, st)
                      \/ Fetches(p, x, st) /\ req'[p].copy[x] = Seen(p, x)
  BY <1>3, <1>4, <1>5 DEF Copy
<1>7. UNCHANGED <<dbVars, begun>>
  BY <1>1 DEF Keep, envVars
<1>8. st # "saveUser" /\ st # "addToken" /\ st # "admit"
  BY <1>1
<1> QED
  BY <1>1, <1>3, <1>6, <1>7, <1>8 DEF Standing, GoesOnWaiting

LEMMA ReadTokenStands ==
    ASSUME ReqInv, RowInv, NEW p \in Requests, ReadToken(p)
    PROVE  \E kind : Standing(p, "readToken", kind, req[p].step + 1)
<1>1. At(p, "readToken") /\ UNCHANGED <<dbVars, begun>>
  BY DEF ReadToken, envVars
<1>2. "readToken" \notin Revocations
  BY DEF Revocations
<1>3. req'[p].todo = {}
  BY <1>1, <1>2, NotWaiting, ReadsToken
<1>4. DOMAIN req[p].copy = Rows
  BY DEF ReqInv, SoundReq
<1>5. \A x \in Rows : Fetches(p, x, "readToken") <=> x = req[p].token
  BY DEF Fetches, Reads
<1>6. \A x \in Rows : \/ req'[p].copy[x] = Copy(p, x) /\ ~Fetches(p, x, "readToken")
                      \/ Fetches(p, x, "readToken") /\ req'[p].copy[x] = Seen(p, x)
  BY <1>4, <1>5, ReadsToken DEF Copy
<1>7. CASE GoesOn(p, req[p].kind, req[p].step + 1)
  BY <1>1, <1>3, <1>6, <1>7 DEF Standing, GoesOnWaiting
<1>8. CASE req[p].kind = "refresh" /\ GoesOn(p, "reuse", req[p].step + 1)
  BY <1>1, <1>3, <1>6, <1>8 DEF Standing, GoesOnWaiting
<1> QED
  BY <1>7, <1>8, ReadsToken

LEMMA SaveWrites ==
    ASSUME ReqInv, RowInv, NEW p \in Requests, SaveRow(p)
    PROVE  \E st, new : Writing(p, st, req[p].step + 1, new)
<1>1. PICK st, r, value :
         /\ At(p, st) /\ Write(p, r, value)
         /\ \/ st = "saveUser" /\ r = User /\ value = UserAfter(p, Copy(p, User))
            \/ /\ st = "saveCredential" /\ r = Credential
               /\ value = [password |-> req[p].id, oldHash |-> FALSE]
            \/ st = "saveResetLink" /\ r = ResetLink /\ value = [used |-> req[p].id]
            \/ st = "saveEmailLink" /\ r = EmailLink /\ value = [used |-> req[p].id]
            \/ st = "saveToken" /\ r = req[p].token /\ value = Rotated(p, Copy(p, req[p].token))
            \/ /\ st = "saveSession" /\ r = SessionOf(p)
               /\ value = SessionAfter(p, Copy(p, SessionOf(p)))
  BY DEF SaveRow
<1> DEFINE new == [x \in {r} |-> value]
<1>2. DOMAIN new = {r} /\ new[r] = value
  OBVIOUS
<1>3. Put(p, new) /\ Advance(p) /\ begun' = begun
  BY <1>1 DEF Write, envVars
<1>4. st \notin Revocations
  BY <1>1 DEF Revocations
<1>5. /\ GoesOn(p, req[p].kind, req[p].step + 1) /\ req'[p].copy = req[p].copy
      /\ GoesOnWaiting(p, req[p].step + 1)
  BY <1>1, <1>3, <1>4, AdvanceWaiting
<1> HIDE DEF new
<1>6. Contents(p, st, new)
  BY <1>1, <1>2 DEF Contents
<1>7. Writing(p, st, req[p].step + 1, new)
  BY <1>1, <1>3, <1>4, <1>5, <1>6 DEF Writing
<1> QED
  BY <1>7

LEMMA RehashGoes ==
    ASSUME ReqInv, RowInv, NEW p \in Requests, Rehash(p)
    PROVE  \/ Standing(p, "rehash", req[p].kind, req[p].step + 1)
           \/ \E new : Writing(p, "rehash", req[p].step + 1, new)
<1>1. At(p, "rehash") /\ Advance(p) /\ begun' = begun
  BY DEF Rehash, envVars
<1>2. CASE UNCHANGED dbVars
  BY <1>1, <1>2, AdmitStands
<1>3. CASE ~UNCHANGED dbVars
  <2> DEFINE new == [x \in {Credential} |-> [Copy(p, Credential) EXCEPT !.oldHash = FALSE]]
  <2>1. Put(p, new)
    BY <1>3 DEF Rehash
  <2>2. DOMAIN new = {Credential} /\ new[Credential] = [Copy(p, Credential) EXCEPT !.oldHash = FALSE]
    OBVIOUS
  <2> HIDE DEF new
  <2>3. Contents(p, "rehash", new) /\ "rehash" \notin Revocations
    BY <2>2 DEF Contents, Revocations
  <2>4. /\ GoesOn(p, req[p].kind, req[p].step + 1) /\ req'[p].copy = req[p].copy
        /\ GoesOnWaiting(p, req[p].step + 1)
    BY <1>1, <2>3, AdvanceWaiting
  <2>5. Writing(p, "rehash", req[p].step + 1, new)
    BY <1>1, <2>1, <2>3, <2>4 DEF Writing
  <2> QED
    BY <2>5
<1> QED
  BY <1>2, <1>3

LEMMA AddTokenWrites ==
    ASSUME ReqInv, RowInv, NEW p \in Requests, AddToken(p)
    PROVE  \E new : Writing(p, "addToken", req[p].step + 1, new)
<1> DEFINE t == AnyOf(Unused(Tokens))
           q == [req[p] EXCEPT !.new = t, !.step = @ + 1]
           new == [x \in {t} |-> NewToken(SessionOf(p))]
<1>1. At(p, "addToken") /\ begun' = begun /\ Put(p, new) /\ req' = [req EXCEPT ![p] = q]
  BY DEF AddToken, envVars
<1>2. t \in Unused(Tokens) /\ DOMAIN new = {t} /\ new[t] = NewToken(SessionOf(p))
  BY DEF AddToken, AnyOf
<1>3. SoundReq(req[p]) /\ DOMAIN req = Requests
  BY DEF ReqInv
<1>4. /\ q.kind = req[p].kind /\ q.step = req[p].step + 1 /\ q.id = req[p].id /\ q.token = req[p].token
      /\ q.password = req[p].password /\ q.copy = req[p].copy /\ q.todo = req[p].todo
  BY <1>3 DEF SoundReq
<1>5. "addToken" \notin Revocations
  BY DEF Revocations
<1>6. req[p].todo = {}
  BY <1>1, <1>5, NotWaiting
<1> HIDE DEF new, q, t
<1>7. /\ GoesOn(p, req[p].kind, req[p].step + 1) /\ req'[p].copy = req[p].copy
      /\ GoesOnWaiting(p, req[p].step + 1)
  BY <1>1, <1>3, <1>4, <1>6 DEF GoesOn, GoesOnWaiting
<1>8. Contents(p, "addToken", new)
  BY <1>2 DEF Contents
<1>9. Writing(p, "addToken", req[p].step + 1, new)
  BY <1>1, <1>5, <1>7, <1>8 DEF Writing
<1> QED
  BY <1>9

LEMMA OpenSessionWrites ==
    ASSUME ReqInv, RowInv, NEW p \in Requests, OpenSession(p)
    PROVE  \E new : Writing(p, "open", req[p].step + 1, new)
<1> DEFINE s == AnyOf(Unused(Sessions))
           t == AnyOf(Unused(Tokens))
           opened == [state |-> "live", stamp |-> Copy(p, User).stamp,
                      password |-> IF req[p].kind = "login" THEN req[p].password ELSE None]
           new == [x \in {s, t} |-> IF x = t THEN NewToken(s) ELSE opened]
<1>1. At(p, "open") /\ begun' = begun /\ Put(p, new) /\ Advance(p)
  BY DEF OpenSession, envVars
<1>2. s \in Unused(Sessions) /\ t \in Unused(Tokens)
  BY DEF OpenSession, AnyOf
<1>3. s # t
  BY <1>2, SessionsAssumption DEF Unused
<1>4. DOMAIN new = {s, t} /\ new[t] = NewToken(s) /\ new[s] = opened
  BY <1>3
<1>5. "open" \notin Revocations
  BY DEF Revocations
<1>6. /\ GoesOn(p, req[p].kind, req[p].step + 1) /\ req'[p].copy = req[p].copy
      /\ GoesOnWaiting(p, req[p].step + 1)
  BY <1>1, <1>5, AdvanceWaiting
<1> HIDE DEF new, s, t
<1>7. Contents(p, "open", new)
  BY <1>2, <1>4 DEF Contents
<1>8. Writing(p, "open", req[p].step + 1, new)
  BY <1>1, <1>5, <1>6, <1>7 DEF Writing
<1> QED
  BY <1>8

LEMMA RevokingAt ==
    ASSUME NEW p \in Requests, Revoking(p)
    PROVE  \E st \in Revocations : At(p, st)
BY DEF Revoking, Revocations

LEMMA TargetsAreSessions ==
    ASSUME NEW p \in Requests
    PROVE  Targets(p) \subseteq Unrevoked(p, Sessions \cup Tokens)
BY DEF Targets, Unrevoked, FamilyOf

LEMMA RevokeAllWrites ==
    ASSUME ReqInv, RowInv, NEW p \in Requests, RevokeAll(p)
    PROVE  \E st, new : Writing(p, st, req[p].step + 1, new)
<1>1. PICK st \in Revocations : At(p, st)
  BY RevokingAt DEF RevokeAll
<1> DEFINE new == [r \in Targets(p) |-> Revoked(p, r)]
<1>2. Put(p, new) /\ Advance(p) /\ begun' = begun /\ req[p].todo = {}
  BY DEF RevokeAll, envVars
<1>3. \A r \in DOMAIN new : r \in Unrevoked(p, Sessions \cup Tokens) /\ new[r] = Revoked(p, r)
  BY TargetsAreSessions
<1>4. /\ GoesOn(p, req[p].kind, req[p].step + 1) /\ req'[p].copy = req[p].copy
      /\ GoesOnWaiting(p, req[p].step + 1)
  BY <1>1, <1>2, AdvanceWaiting
<1> HIDE DEF new
<1>5. Contents(p, st, new)
  BY <1>1, <1>3 DEF Contents
<1>6. Writing(p, st, req[p].step + 1, new)
  BY <1>1, <1>2, <1>4, <1>5 DEF Writing
<1> QED
  BY <1>6

LEMMA RevokeWaitsStands ==
    ASSUME ReqInv, RowInv, NEW p \in Requests, RevokeWaits(p)
    PROVE  \E st : Standing(p, st, req[p].kind, req[p].step)
<1>1. PICK st \in Revocations : At(p, st)
  BY RevokingAt DEF RevokeWaits
<1> DEFINE q == [req[p] EXCEPT !.todo = Targets(p)]
<1>2. SoundReq(req[p]) /\ DOMAIN req = Requests
  BY DEF ReqInv
<1>3. req' = [req EXCEPT ![p] = q]
  BY DEF RevokeWaits
<1>4. /\ q.kind = req[p].kind /\ q.step = req[p].step /\ q.id = req[p].id /\ q.token = req[p].token
      /\ q.password = req[p].password /\ q.copy = req[p].copy /\ q.todo = Targets(p)
  BY <1>2 DEF SoundReq
<1> HIDE DEF q
<1>5. /\ GoesOn(p, req[p].kind, req[p].step) /\ req'[p].copy = req[p].copy
      /\ req'[p].todo = Targets(p)
  BY <1>2, <1>3, <1>4 DEF GoesOn
<1>6. GoesOnWaiting(p, req[p].step)
  BY <1>5, TargetsAreSessions DEF GoesOnWaiting, RevokeWaits, Unrevoked
<1>7. st # "saveUser" /\ st # "addToken" /\ st # "admit" /\ \A x \in Rows : ~Fetches(p, x, st)
  BY <1>1 DEF Revocations, Fetches, Reads
<1>8. UNCHANGED <<dbVars, begun>>
  BY DEF RevokeWaits, envVars
<1>9. Standing(p, st, req[p].kind, req[p].step)
  BY <1>1, <1>5, <1>6, <1>7, <1>8 DEF Standing, Copy
<1> QED
  BY <1>9

LEMMA RevokeNextGoes ==
    ASSUME ReqInv, RowInv, NEW p \in Requests, RevokeNext(p)
    PROVE  \/ \E st, step : Standing(p, st, req[p].kind, step)
           \/ \E st, step, new : Writing(p, st, step, new)
<1>1. PICK r \in req[p].todo :
         /\ IF r \in Unrevoked(p, {r}) THEN Put(p, [x \in {r} |-> Revoked(p, r)])
                                       ELSE UNCHANGED dbVars
         /\ req' = [req EXCEPT ![p].todo = @ \ {r},
                               ![p].step = IF req[p].todo = {r} THEN @ + 1 ELSE @]
  BY DEF RevokeNext
<1>2. Waits(p) /\ SoundReq(req[p]) /\ DOMAIN req = Requests
  BY DEF RowInv, ReqInv
<1>3. r \in Sessions \cup Tokens /\ Revoking(p)
  BY <1>1, <1>2 DEF Waits
<1>4. PICK st \in Revocations : At(p, st)
  BY <1>3, RevokingAt
<1> DEFINE step == IF req[p].todo = {r} THEN req[p].step + 1 ELSE req[p].step
           q == [req[p] EXCEPT !.todo = req[p].todo \ {r}, !.step = step]
<1>5. req' = [req EXCEPT ![p] = q]
  BY <1>1, <1>2 DEF SoundReq
<1>6. /\ q.kind = req[p].kind /\ q.step = step /\ q.id = req[p].id /\ q.token = req[p].token
      /\ q.password = req[p].password /\ q.copy = req[p].copy /\ q.todo = req[p].todo \ {r}
  BY <1>2 DEF SoundReq
<1>7. /\ step \in {req[p].step, req[p].step + 1}
      /\ req[p].todo \ {r} = {} \/ step = req[p].step
  BY <1>1
<1> HIDE DEF q, step
<1>8. /\ GoesOn(p, req[p].kind, step) /\ req'[p].copy = req[p].copy
      /\ req'[p].todo = req[p].todo \ {r}
  BY <1>2, <1>5, <1>6 DEF GoesOn
<1>9. GoesOnWaiting(p, step)
  BY <1>2, <1>3, <1>7, <1>8 DEF GoesOnWaiting, Waits
<1>10. begun' = begun
  BY DEF RevokeNext, envVars
<1>11. CASE r \in Unrevoked(p, {r})
  <2> DEFINE new == [x \in {r} |-> Revoked(p, r)]
  <2>1. Put(p, new) /\ DOMAIN new = {r} /\ new[r] = Revoked(p, r)
    BY <1>1, <1>11
  <2> HIDE DEF new
  <2>2. Contents(p, st, new)
    BY <1>3, <1>4, <1>11, <2>1 DEF Contents, Unrevoked
  <2>3. Writing(p, st, step, new)
    BY <1>4, <1>7, <1>8, <1>9, <1>10, <2>1, <2>2 DEF Writing
  <2> QED
    BY <2>3
<1>12. CASE r \notin Unrevoked(p, {r})
  <2>1. st # "saveUser" /\ st # "addToken" /\ st # "admit" /\ \A x \in Rows : ~Fetches(p, x, st)
    BY <1>4 DEF Revocations, Fetches, Reads
  <2>2. UNCHANGED <<dbVars, begun>>
    BY <1>1, <1>10, <1>12
  <2>3. Standing(p, st, req[p].kind, step)
    BY <1>4, <1>7, <1>8, <1>9, <2>1, <2>2 DEF Standing, Copy
  <2> QED
    BY <2>3
<1> QED
  BY <1>11, <1>12

LEMMA StatementForms ==
    ASSUME ReqInv, RowInv, NEW p \in Requests, Statement(p) \/ Crash(p)
    PROVE  \/ \E st, kind, step : Standing(p, st, kind, step)
           \/ \E st, step, new : Writing(p, st, step, new)
           \/ Ending(p)
<1>1. CASE ReadRow(p)
  BY <1>1, ReadStands
<1>2. CASE ReadToken(p)
  BY <1>2, ReadTokenStands
<1>3. CASE Admit(p)
  BY <1>3, AdmitStands DEF Admit, envVars
<1>4. CASE Refuse(p)
  <2>1. req[p].kind # "idle" /\ Finish(p) /\ begun' = begun
    BY <1>4 DEF Refuse, At, envVars
  <2>2. /\ CommitRows(p) \/ DropRows(p)
        /\ CommitRows(p) => req[p].kind = "login" \/ db' = db
    BY <1>4 DEF Refuse, DropRows
  <2> QED
    BY <2>1, <2>2 DEF Ending
<1>5. CASE Challenge(p)
  <2>1. CASE mfa
    <3>1. req[p].kind = "login"
      BY <1>5, PlaceOf DEF Challenge, Place
    <3> QED
      BY <1>5, <2>1, <3>1 DEF Challenge, Ending
  <2>2. CASE ~mfa
    BY <1>5, <2>2, AdmitStands DEF Challenge
  <2> QED
    BY <2>1, <2>2
<1>6. CASE Consume(p)
  BY <1>6, AdmitStands DEF Consume
<1>7. CASE SaveRow(p)
  BY <1>7, SaveWrites
<1>8. CASE Rehash(p)
  BY <1>8, RehashGoes
<1>9. CASE AddToken(p)
  BY <1>9, AddTokenWrites
<1>10. CASE OpenSession(p)
  BY <1>10, OpenSessionWrites
<1>11. CASE RevokeAll(p)
  BY <1>11, RevokeAllWrites
<1>12. CASE RevokeWaits(p)
  BY <1>12, RevokeWaitsStands
<1>13. CASE RevokeNext(p)
  BY <1>13, RevokeNextGoes
<1>14. CASE Commit(p)
  BY <1>14 DEF Commit, Ending, envVars
<1>15. CASE DeadlockVictim(p) \/ Crash(p)
  <2>1. DropRows(p) /\ Finish(p) /\ begun' = begun /\ db' = db
    BY <1>15 DEF DeadlockVictim, Crash, DropRows, envVars
  <2>2. req[p].kind # "idle"
    <3>1. CASE Crash(p)
      BY <3>1 DEF Crash
    <3>2. CASE DeadlockVictim(p)
      <4>1. Wants[p] # {}
        BY <3>2 DEF DeadlockVictim, Deadlocked
      <4>2. req[p].kind = "idle" => req[p].todo = {} /\ \A st : ~At(p, st)
        BY DEF At, RowInv, Waits, Revoking
      <4>3. req[p].kind = "idle" => Wants[p] = {}
        BY <4>2 DEF Wants
      <4> QED
        BY <4>1, <4>3
    <3> QED
      BY <1>15, <3>1, <3>2
  <2> QED
    BY <2>1, <2>2 DEF Ending
<1> QED
  BY <1>1, <1>2, <1>3, <1>4, <1>5, <1>6, <1>7, <1>8, <1>9, <1>10, <1>11, <1>12, <1>13, <1>14, <1>15
     DEF Statement

-----------------------------------------------------------------------------
(* The rows, step by step. *)
LEMMA SeenTyped ==
    ASSUME RowInv, NEW p \in Requests, NEW r \in Rows
    PROVE  Seen(p, r) \in ValuesOf(r) /\ Copy(p, r) \in ValuesOf(r)
BY DEF RowInv, TypedRows, Seen

LEMMA StandingRows ==
    ASSUME ReqInv, RowInv, NEW p \in Requests, NEW st, NEW kind, NEW step,
           Standing(p, st, kind, step), overwritten \subseteq overwritten'
    PROVE  RowInv'
<1> USE DEF Standing
<1>1. GoesAs(p, kind)
  BY DEF GoesAs
<1>2. \A r \in AccountRows : Reads(r, st) \/ req'[p].copy[r] = Copy(p, r)
  <2>1. ASSUME NEW r \in AccountRows, Fetches(p, r, st) PROVE Reads(r, st)
    <3>1. CASE st = "readToken"
      <4>1. req[p].token \in Tokens
        BY <3>1, TokenGiven
      <4>2. r \notin Tokens
        BY SessionsAssumption DEF AccountRows
      <4> QED
        BY <2>1, <3>1, <4>1, <4>2 DEF Fetches
    <3>2. CASE st = "readSession"
      <4>1. SessionOf(p) \in Sessions \cup {None}
        BY <3>2, TokenGiven
      <4>2. r \notin Sessions \cup {None}
        BY SessionsAssumption DEF AccountRows
      <4> QED
        BY <2>1, <3>2, <4>1, <4>2 DEF Fetches
    <3> QED
      BY <2>1, <3>1, <3>2 DEF Fetches
  <2> QED
    BY <2>1, RowValues
<1>3. \A r \in Rows : req'[p].copy[r] \in ValuesOf(r)
  BY SeenTyped
<1>4. /\ At(p, st) /\ st # "saveUser" /\ step \in {req[p].step, req[p].step + 1}
      /\ GoesOn(p, kind, step) /\ UNCHANGED <<dbVars, begun>>
      /\ st = "admit" /\ step # req[p].step => Admits(p)
  OBVIOUS
<1>5. \/ req'[p].todo = {}
      \/ /\ kind = req[p].kind /\ step = req[p].step
         /\ Revoking(p) /\ req'[p].todo \subseteq Sessions \cup Tokens
  <2>1. CASE kind = req[p].kind
    BY <2>1 DEF GoesOnWaiting
  <2>2. CASE kind # req[p].kind
    <3>1. st = "readToken" /\ step = req[p].step + 1 /\ req[p].step \in Nat
      BY <2>2, PlaceOf DEF Revocations
    <3> QED
      BY <3>1 DEF GoesOnWaiting
  <2> QED
    BY <2>1, <2>2
<1> HIDE DEF Standing
<1> QED
  BY <1>1, <1>2, <1>3, <1>4, <1>5, StandRows

LEMMA ContentsTyped ==
    ASSUME ReqInv, DraftInv, RowInv, NEW p \in Requests, NEW st, At(p, st), NEW new, Contents(p, st, new)
    PROVE  \A r \in Rows \cap DOMAIN new : new[r] \in ValuesOf(r)
<1>1. req[p].id \in Numbers /\ Place(req[p].kind, req[p].step, st)
  BY PlaceOf, IdIsNumber
<1>2. CASE st = "saveUser"
  BY <1>2, UserAfterMoves, RowValues DEF Contents, Revocations
<1>3. CASE st = "saveCredential"
  BY <1>1, <1>3, RowValues DEF Contents, Revocations, Credentials
<1>4. CASE st = "rehash"
  <2>1. Copy(p, Credential) \in Credentials
    BY SeenTyped, RowValues, SessionsAssumption
  <2> QED
    BY <1>4, <2>1, RowValues DEF Contents, Revocations, Credentials
<1>5. CASE st = "saveResetLink" \/ st = "saveEmailLink"
  BY <1>1, <1>5, RowValues DEF Contents, Revocations, LinkRows
<1>6. CASE st = "saveToken"
  <2>1. req[p].token \in Tokens /\ Copy(p, req[p].token) \in TokenRows
    BY <1>6, TokenGiven
  <2>2. req[p].new \in Tokens \cup {None}
    BY DEF ReqInv, SoundReq
  <2>3. Rotated(p, Copy(p, req[p].token)) \in TokenRows
    BY <2>1, <2>2 DEF Rotated, TokenRows
  <2> QED
    BY <1>6, <2>1, <2>3, RowValues DEF Contents, Revocations
<1>7. CASE st = "saveSession"
  <2>1. SessionOf(p) \in Sessions \cup {None}
    BY <1>7, TokenGiven
  <2>2. ASSUME SessionOf(p) \in Rows PROVE SessionAfter(p, Copy(p, SessionOf(p))) \in SessionRows
    <3>1. SessionOf(p) \in Sessions
      BY <2>1, <2>2, SessionsAssumption
    <3>2. Copy(p, SessionOf(p)) \in SessionRows
      BY <3>1, SeenTyped, RowValues
    <3> QED
      BY <3>2 DEF SessionAfter, SessionRows
  <2> QED
    BY <1>7, <2>1, <2>2, RowValues, SessionsAssumption DEF Contents, Revocations
<1>8. CASE st = "addToken"
  <2>1. SessionOf(p) \in Sessions \cup {None}
    BY <1>8, TokenGiven
  <2>2. NewToken(SessionOf(p)) \in TokenRows
    BY <2>1 DEF NewToken, TokenRows
  <2>3. PICK t \in Unused(Tokens) : DOMAIN new = {t} /\ new[t] = NewToken(SessionOf(p))
    BY <1>8 DEF Contents, Revocations
  <2>4. t \in Tokens
    BY DEF Unused
  <2> QED
    BY <2>2, <2>3, <2>4, RowValues
<1>9. CASE st = "open"
  <2>1. PICK s \in Unused(Sessions), t \in Unused(Tokens) :
             /\ DOMAIN new = {s, t} /\ new[t] = NewToken(s)
             /\ new[s] = [state |-> "live", stamp |-> Copy(p, User).stamp,
                          password |-> IF req[p].kind = "login" THEN req[p].password ELSE None]
    BY <1>9 DEF Contents, Revocations
  <2>2. s \in Sessions /\ t \in Tokens
    BY DEF Unused
  <2>3. NewToken(s) \in TokenRows
    BY <2>2 DEF NewToken, TokenRows
  <2>4. Copy(p, User).stamp \in Numbers
    <3>1. Copy(p, User) \in UserRows
      BY SeenTyped, RowValues, SessionsAssumption
    <3> QED
      BY <3>1 DEF UserRows
  <2>5. req[p].kind = "login" => req[p].password \in Numbers
    BY DEF RowInv, TypedRows
  <2>6. new[s] \in SessionRows
    BY <2>1, <2>4, <2>5 DEF SessionRows
  <2> QED
    BY <2>1, <2>2, <2>3, <2>6, RowValues
<1>10. CASE st \in Revocations
  <2>1. \A r \in DOMAIN new : r \in Unrevoked(p, Sessions \cup Tokens) /\ new[r] = Revoked(p, r)
    BY <1>10 DEF Contents, Revocations
  <2>2. ASSUME NEW r \in Sessions PROVE Revoked(p, r) \in SessionRows
    <3>1. Seen(p, r) \in SessionRows
      BY SeenTyped, RowValues
    <3> QED
      BY <3>1 DEF Revoked, SessionRows
  <2>3. ASSUME NEW r \in Tokens PROVE Revoked(p, r) \in TokenRows
    <3>1. Seen(p, r) \in TokenRows
      BY SeenTyped, RowValues
    <3> QED
      BY <3>1 DEF Revoked, TokenRows
  <2> QED
    BY <2>1, <2>2, <2>3, RowValues DEF Unrevoked
<1> QED
  BY <1>2, <1>3, <1>4, <1>5, <1>6, <1>7, <1>8, <1>9, <1>10 DEF Contents

(* Which rows of the account a statement writes. *)
LEMMA ContentsPlaced ==
    ASSUME ReqInv, NEW p \in Requests, NEW st, At(p, st), NEW new, Contents(p, st, new)
    PROVE  /\ st # "admit"
           /\ User \in DOMAIN new => st = "saveUser" /\ new[User] = UserAfter(p, Copy(p, User))
           /\ st = "saveUser" => User \in DOMAIN new
           /\ Credential \in DOMAIN new =>
                 \/ st = "saveCredential"
                 \/ st = "rehash" /\ new[Credential] = [Copy(p, Credential) EXCEPT !.oldHash = FALSE]
           /\ ResetLink \in DOMAIN new => st = "saveResetLink"
           /\ EmailLink \in DOMAIN new => st = "saveEmailLink"
           /\ DOMAIN new \cap AccountRows # {} => st \notin Revocations
<1> USE SessionsAssumption DEF AccountRows
<1>1. CASE st \in {"saveUser", "saveCredential", "rehash", "saveResetLink", "saveEmailLink"}
  BY <1>1 DEF Contents, Revocations
<1>2. CASE st = "saveToken"
  BY <1>2, TokenGiven DEF Contents, Revocations
<1>3. CASE st = "saveSession"
  BY <1>3, TokenGiven DEF Contents, Revocations
<1>4. CASE st = "addToken" \/ st = "open"
  BY <1>4 DEF Contents, Revocations, Unused
<1>5. CASE st \in Revocations
  BY <1>5 DEF Contents, Revocations, Unrevoked
<1> QED
  BY <1>1, <1>2, <1>3, <1>4, <1>5 DEF Contents

LEMMA WritingRows ==
    ASSUME IInv, RowInv, NEW p \in Requests, NEW st, NEW step, NEW new, Writing(p, st, step, new),
           overwritten' = overwritten \cup SavedOver(p)
    PROVE  RowInv'
<1>1. At(p, st) /\ Put(p, new) /\ Contents(p, st, new)
  BY DEF Writing
<1>2. \A r \in Rows \cap DOMAIN new : new[r] \in ValuesOf(r)
  BY <1>1, ContentsTyped DEF IInv
<1>3. DOMAIN new \cap AccountRows # {} => step = req[p].step + 1
  BY <1>1, ContentsPlaced DEF Writing, IInv
<1>4. Credential \in DOMAIN new =>
         \/ st = "saveCredential"
         \/ st = "rehash" /\ new[Credential].password = Copy(p, Credential).password
  <2>1. Copy(p, Credential) \in Credentials
    BY SeenTyped, RowValues, SessionsAssumption
  <2>2. [Copy(p, Credential) EXCEPT !.oldHash = FALSE].password = Copy(p, Credential).password
    BY <2>1 DEF Credentials
  <2> QED
    BY <1>1, <2>2, ContentsPlaced DEF IInv
<1>5. /\ st # "admit"
      /\ User \in DOMAIN new => /\ st = "saveUser" /\ step = req[p].step + 1
                                /\ new[User] = UserAfter(p, Copy(p, User))
      /\ st = "saveUser" => User \in DOMAIN new
      /\ Credential \in DOMAIN new => step = req[p].step + 1
      /\ ResetLink \in DOMAIN new => st = "saveResetLink"
      /\ EmailLink \in DOMAIN new => st = "saveEmailLink"
  BY <1>1, <1>3, ContentsPlaced DEF IInv, AccountRows
<1>6. /\ step \in {req[p].step, req[p].step + 1} /\ GoesOn(p, req[p].kind, step)
      /\ req'[p].copy = req[p].copy /\ begun' = begun /\ GoesOnWaiting(p, step)
  BY DEF Writing
<1> QED
  BY <1>1, <1>2, <1>4, <1>5, <1>6, WriteRows DEF IInv, GoesOnWaiting

LEMMA Arrivals ==
    ASSUME RowInv, NEW p \in Requests, Present(p) \/ SignIn(p) \/ ChangeAccount(p)
    PROVE  \E kind, token, password :
              /\ Begin(p, kind, token, password)
              /\ kind = "login" => password \in Numbers
              /\ kind \in Presented => kind \in {"refresh", "logout"} /\ token \in Tokens
                                          /\ db[token].state # "absent"
<1>1. CASE Present(p)
  BY <1>1 DEF Present
<1>2. CASE ChangeAccount(p)
  BY <1>2 DEF ChangeAccount, Presented
<1>3. CASE SignIn(p)
  <2>1. ASSUME NEW n \in 0..db[Credential].password PROVE n \in Numbers
    <3>1. db[Credential] \in Credentials
      BY RowValues, SessionsAssumption DEF RowInv, TypedRows
    <3>2. db[Credential].password \in Numbers
      BY <3>1 DEF Credentials
    <3> QED
      BY <3>2, SessionsAssumption DEF Numbers
  <2> QED
    BY <1>3, <2>1 DEF SignIn, Presented
<1> QED
  BY <1>1, <1>2, <1>3

(* Every step, in the forms the invariants are preserved by. *)
LEMMA StepForms ==
    ASSUME IInv, RowInv, Next
    PROVE  \E p \in Requests :
              /\ overwritten' = overwritten \cup SavedOver(p)
              /\ \/ \E kind, token, password :
                       /\ Begin(p, kind, token, password)
                       /\ kind = "login" => password \in Numbers
                       /\ kind \in Presented => kind \in {"refresh", "logout"} /\ token \in Tokens
                                                   /\ db[token].state # "absent"
                 \/ \E st, kind, step : Standing(p, st, kind, step)
                 \/ \E st, step, new : Writing(p, st, step, new)
                 \/ Ending(p)
<1>1. PICK p \in Requests :
         /\ Present(p) \/ SignIn(p) \/ ChangeAccount(p) \/ Statement(p) \/ Crash(p)
         /\ overwritten' = overwritten \cup SavedOver(p)
  BY DEF Next
<1>2. CASE Present(p) \/ SignIn(p) \/ ChangeAccount(p)
  BY <1>1, <1>2, Arrivals
<1>3. CASE Statement(p) \/ Crash(p)
  BY <1>1, <1>3, StatementForms DEF IInv
<1> QED
  BY <1>1, <1>2, <1>3

LEMMA RowStep ==
    ASSUME IInv, RowInv, [Next]_vars
    PROVE  RowInv'
<1>1. CASE UNCHANGED vars
  BY <1>1 DEF vars, stateVars, RowInv, Numbered, TypedRows, Admitted, InOrder, SavedAsRead, Waits,
              Revoking, At, Copy, Wrote
<1>2. CASE Next
  <2>1. PICK p \in Requests :
              /\ overwritten' = overwritten \cup SavedOver(p)
              /\ \/ \E kind, token, password :
                       /\ Begin(p, kind, token, password)
                       /\ kind = "login" => password \in Numbers
                 \/ \E st, kind, step : Standing(p, st, kind, step)
                 \/ \E st, step, new : Writing(p, st, step, new)
                 \/ Ending(p)
    BY <1>2, StepForms
  <2>2. overwritten \subseteq overwritten'
    BY <2>1
  <2>3. ASSUME NEW kind, NEW token, NEW password, Begin(p, kind, token, password),
               kind = "login" => password \in Numbers
        PROVE  RowInv'
    BY <2>2, <2>3, BeginRows DEF IInv
  <2>4. ASSUME NEW st, NEW kind, NEW step, Standing(p, st, kind, step) PROVE RowInv'
    BY <2>2, <2>4, StandingRows DEF IInv
  <2>5. ASSUME NEW st, NEW step, NEW new, Writing(p, st, step, new) PROVE RowInv'
    BY <2>1, <2>5, WritingRows
  <2>6. CASE Ending(p)
    BY <2>2, <2>6, EndRows DEF IInv, Ending
  <2> QED
    BY <2>1, <2>3, <2>4, <2>5, <2>6
<1> QED
  BY <1>1, <1>2

LEMMA InitRows == Init => RowInv
<1> SUFFICES ASSUME Init PROVE RowInv
  OBVIOUS
<1>1. PICK status \in {"pending", "active"}, old \in BOOLEAN : DbInit(Account(status, old))
  BY DEF Init
<1>2. \A p \in Requests : Wrote(p) = {} /\ req[p] = Idle
  BY <1>1 DEF Init, DbInit, Wrote, NoRows
<1>3. \A r \in Rows : db[r] \in ValuesOf(r)
  BY <1>1, AccountRowsTyped DEF DbInit, Statuses
<1>4. TypedRows
  BY <1>2, <1>3, IdleFields DEF TypedRows, Copy
<1>5. Numbered
  BY <1>2, IdleFields, SessionsAssumption DEF Init, Numbered
<1>6. ASSUME NEW p \in Requests PROVE Admitted(p) /\ InOrder(p) /\ SavedAsRead(p) /\ Waits(p)
  <2>1. "idle" \notin Changes
    BY DEF Changes
  <2> QED
    BY <1>2, <2>1, IdleFields DEF Admitted, InOrder, SavedAsRead, Waits
<1> QED
  BY <1>4, <1>5, <1>6 DEF RowInv

LEMMA RowsAlways == Spec => [](IInv /\ RowInv)
<1>1. IInv /\ RowInv /\ [Next]_vars => IInv' /\ RowInv'
  BY StepSound, RowStep
<1> QED
  BY InitSound, InitRows, <1>1, PTL DEF Spec

-----------------------------------------------------------------------------
(* What a commit does to the account, and that nothing else does anything.  *)
LEMMA OnlyEndsWrite ==
    ASSUME IInv, RowInv, [Next]_vars, NEW r \in Rows, db'[r] # db[r]
    PROVE  \E p \in Requests :
              /\ Ending(p) /\ r \in Wrote(p) /\ db'[r] = draft[p][r] /\ CommitRows(p)
              /\ db' # db
<1>1. CASE UNCHANGED vars
  BY <1>1 DEF vars, stateVars
<1>2. CASE Next
  <2>1. PICK p \in Requests :
                 \/ \E kind, token, password : Begin(p, kind, token, password)
                 \/ \E st, kind, step : Standing(p, st, kind, step)
                 \/ \E st, step, new : Writing(p, st, step, new)
                 \/ Ending(p)
    BY <1>2, StepForms
  <2>2. ASSUME NEW kind, NEW token, NEW password, Begin(p, kind, token, password) PROVE db' = db
    BY <2>2 DEF Begin, dbVars
  <2>3. ASSUME NEW st, NEW kind, NEW step, Standing(p, st, kind, step) PROVE db' = db
    BY <2>3 DEF Standing, dbVars
  <2>4. ASSUME NEW st, NEW step, NEW new, Writing(p, st, step, new) PROVE db' = db
    BY <2>4 DEF Writing, Put
  <2>5. Ending(p)
    BY <2>1, <2>2, <2>3, <2>4
  <2>6. CommitRows(p) /\ db'[r] = Seen(p, r)
    BY <2>5, EndEffect DEF Ending, IInv
  <2> QED
    BY <2>5, <2>6 DEF Seen
<1> QED
  BY <1>1, <1>2

(* An account changes status only by the use case that says so, in the ways *)
(* it may: a suspended or deleted account does not come back because        *)
(* somebody signed in or followed a link.                                   *)
(* (SetUserStatus, DeleteUser, VerifyEmail.)                                *)
THEOREM StatusIsMovedOnPurpose == Spec => StatusMovesOnPurpose
<1> DEFINE OnPurpose ==
         NoneOverwritten({User}) /\ db'[User].status # db[User].status =>
            \E p \in Requests :
               Ends(p) /\ <<db[User].status, db'[User].status>> \in StatusMoves(req[p].kind)
<1>1. IInv /\ RowInv /\ [Next]_vars => OnPurpose
  <2> SUFFICES ASSUME IInv, RowInv, [Next]_vars, User \notin overwritten,
                      db'[User].status # db[User].status
               PROVE  \E p \in Requests : /\ Ends(p)
                         /\ <<db[User].status, db'[User].status>> \in StatusMoves(req[p].kind)
    BY DEF NoneOverwritten
  <2>1. PICK p \in Requests : Ending(p) /\ User \in Wrote(p) /\ db'[User] = draft[p][User]
    BY OnlyEndsWrite, SessionsAssumption
  <2>2. Ends(p)
    <3>1. req'[p].kind = "idle"
      BY <2>1, Finishes, IdleFields DEF Ending, IInv
    <3> QED
      BY <2>1, <3>1 DEF Ending, Ends
  <2>3. <<db[User].status, draft[p][User].status>> \in StatusMoves(req[p].kind)
    BY <2>1 DEF RowInv, SavedAsRead
  <2> QED
    BY <2>1, <2>2, <2>3
<1>2. IInv /\ RowInv /\ [Next]_vars => [OnPurpose]_db
  BY <1>1
<1>3. Spec => [][OnPurpose]_db
  BY RowsAlways, <1>2, PTL DEF Spec
<1> QED
  BY <1>3 DEF StatusMovesOnPurpose

-----------------------------------------------------------------------------
(* Stamps and passwords, step by step. *)
LEMMA GoesKnown ==
    ASSUME NEW p \in Requests, req[p].kind # "idle", NEW kind, NEW step, GoesOn(p, kind, step),
           begun' = begun
    PROVE  \A k : Known(k) => Known(k)'
<1>1. \A q \in Requests : req'[q].id = req[q].id /\ (req'[q].kind # "idle" => req[q].kind # "idle")
  BY DEF GoesOn
<1> QED
  BY <1>1 DEF Known

LEMMA ReadsCommitted ==
    ASSUME ReqInv, RowInv, NEW p \in Requests
    PROVE  /\ At(p, "readUser") => Seen(p, User) = db[User]
           /\ At(p, "readCredential") /\ req[p].kind = "login" => Seen(p, Credential) = db[Credential]
<1>1. InOrder(p)
  BY DEF RowInv
<1>2. ASSUME At(p, "readUser") PROVE User \notin Wrote(p)
  <2>1. Place(req[p].kind, req[p].step, "readUser") /\ req[p].step \in Nat
    BY <1>2, PlaceOf
  <2>2. \A k \in DOMAIN SavesUser : SavesUser[k] \in Nat
    BY DEF SavesUser
  <2> QED
    BY <1>1, <2>1, <2>2 DEF Place, InOrder
<1>3. ASSUME At(p, "readCredential"), req[p].kind = "login" PROVE Credential \notin Wrote(p)
  <2>1. Place(req[p].kind, req[p].step, "readCredential") /\ req[p].step \in Nat
    BY <1>3, PlaceOf
  <2> QED
    BY <1>1, <1>3, <2>1 DEF Place, InOrder
<1> QED
  BY <1>2, <1>3 DEF Seen

LEMMA StandingStamps ==
    ASSUME IInv, RowInv, Stamps, NEW p \in Requests, NEW st, NEW kind, NEW step,
           Standing(p, st, kind, step)
    PROVE  Stamps'
<1> USE SessionsAssumption
<1>1. /\ At(p, st) /\ GoesOn(p, kind, step) /\ begun' = begun /\ db' = db /\ draft' = draft
      /\ step \in {req[p].step, req[p].step + 1}
      /\ kind = req[p].kind \/ kind = "reuse"
      /\ \A r \in Rows : \/ req'[p].copy[r] = Copy(p, r) /\ ~Fetches(p, r, st)
                         \/ Fetches(p, r, st) /\ req'[p].copy[r] = Seen(p, r)
  BY DEF Standing, dbVars
<1>2. ReqInv /\ Place(req[p].kind, req[p].step, st) /\ req[p].step \in Nat /\ req[p].kind # "idle"
  BY <1>1, PlaceOf DEF IInv
<1>3. \A k : Known(k) => Known(k)'
  BY <1>1, <1>2, GoesKnown
<1>4. \A s : Follows(s) => Follows(s)'
  BY <1>1, <1>3 DEF Follows
<1>5. \A x \in Requests \ {p} : req'[x] = req[x]
  BY <1>1 DEF GoesOn
<1>6. \A x \in Requests : Wrote(x)' = Wrote(x)
  BY <1>1 DEF Wrote
<1>7. \A r \in {User, Credential} : Fetches(p, r, st) => Reads(r, st)
  <2>1. st = "readToken" => req[p].token \in Tokens
    BY <1>1, TokenGiven DEF IInv
  <2>2. st = "readSession" => SessionOf(p) \in Sessions \cup {None}
    BY <1>1, TokenGiven DEF IInv
  <2> QED
    BY <2>1, <2>2 DEF Fetches
<1>8. Known(Copy(p, User).stamp)'
  <2>1. Copy(p, User)' \in {Copy(p, User), db[User]}
    BY <1>1, <1>2, <1>7, ReadsCommitted DEF Copy, Reads
  <2>2. Known(Copy(p, User).stamp) /\ Known(db[User].stamp)
    BY DEF Stamps
  <2>3. Known(Copy(p, User)'.stamp)
    BY <2>1, <2>2
  <2> QED
    BY <1>3, <2>3
<1>9. ASSUME NEW s \in Sessions PROVE Follows(Copy(p, s))'
  <2>1. Copy(p, s)' \in {Copy(p, s), Seen(p, s)}
    BY <1>1 DEF Copy
  <2>2. Follows(Copy(p, s)) /\ Follows(Seen(p, s))
    BY DEF Stamps, Seen
  <2>3. Follows(Copy(p, s)')
    BY <2>1, <2>2
  <2> QED
    BY <1>4, <2>3
<1>10. ASSUME kind = "login", step > 2, Copy(p, User)'.stamp = db[User].stamp
       PROVE  Copy(p, Credential)'.password = db[Credential].password
  <2>1. req[p].kind = "login" /\ req[p].step >= 2 /\ st # "readUser"
    BY <1>1, <1>2, <1>10 DEF Place
  <2>2. CASE req[p].step = 2
    <3>1. st = "readCredential"
      BY <1>2, <2>1, <2>2 DEF Place
    <3>2. Copy(p, Credential)' = db[Credential]
      BY <1>1, <1>2, <2>1, <3>1, ReadsCommitted DEF Fetches, Reads, Copy
    <3> QED
      BY <3>2
  <2>3. CASE req[p].step # 2
    <3>1. st # "readCredential"
      BY <1>2, <2>1, <2>3 DEF Place
    <3>2. Copy(p, User)' = Copy(p, User) /\ Copy(p, Credential)' = Copy(p, Credential)
      BY <1>1, <1>7, <2>1, <3>1 DEF Reads, Copy
    <3>3. req[p].step > 2
      BY <1>2, <2>1, <2>3
    <3> QED
      BY <1>10, <2>1, <3>2, <3>3 DEF Stamps
  <2> QED
    BY <2>2, <2>3
<1>11. ASSUME NEW x \in Requests \ {p}
       PROVE  /\ Known(Copy(x, User).stamp)'
              /\ \A s \in Sessions : Follows(Copy(x, s))'
              /\ req'[x].kind = "login" /\ req'[x].step > 2 /\ Copy(x, User)'.stamp = db[User].stamp
                    => Copy(x, Credential)'.password = db[Credential].password
  <2>1. \A r : Copy(x, r)' = Copy(x, r)
    BY <1>5 DEF Copy
  <2> QED
    BY <1>3, <1>4, <1>5, <2>1 DEF Stamps
<1>12. \A x \in Requests : \A s \in Sessions \cap Wrote(x)' : Follows(draft[x][s])'
  BY <1>1, <1>4, <1>6 DEF Stamps
<1>13. /\ Known(db[User].stamp)'
       /\ db'[User].stamp = 0 => db'[Credential].password = 0
       /\ \A s \in Sessions : Follows(db[s])'
  BY <1>1, <1>3, <1>4 DEF Stamps
<1>14. req'[p].kind = kind /\ req'[p].step = step
  BY <1>1 DEF GoesOn
<1> QED
  BY <1>1, <1>8, <1>9, <1>10, <1>11, <1>12, <1>13, <1>14 DEF Stamps

LEMMA WritingStamps ==
    ASSUME IInv, RowInv, Stamps, NEW p \in Requests, NEW st, NEW step, NEW new,
           Writing(p, st, step, new)
    PROVE  Stamps'
<1> USE SessionsAssumption
<1>1. /\ At(p, st) /\ Put(p, new) /\ Contents(p, st, new) /\ GoesOn(p, req[p].kind, step)
      /\ step \in {req[p].step, req[p].step + 1} /\ req'[p].copy = req[p].copy /\ begun' = begun
      /\ st \notin Revocations => step = req[p].step + 1
  BY DEF Writing
<1>2. Place(req[p].kind, req[p].step, st) /\ req[p].step \in Nat /\ req[p].kind # "idle"
  BY <1>1, PlaceOf DEF IInv
<1>3. /\ db' = db
      /\ \A q \in Requests \ {p} : draft'[q] = draft[q] /\ Wrote(q)' = Wrote(q)
      /\ Wrote(p)' = Wrote(p) \cup DOMAIN new
      /\ \A r \in Wrote(p)' : draft'[p][r] = IF r \in DOMAIN new THEN new[r] ELSE draft[p][r]
  BY <1>1, PutEffect DEF IInv
<1>4. \A k : Known(k) => Known(k)'
  BY <1>1, <1>2, GoesKnown
<1>5. \A s : Follows(s) => Follows(s)'
  BY <1>3, <1>4 DEF Follows
<1>6. \A x \in Requests : \A r : Copy(x, r)' = Copy(x, r)
  BY <1>1 DEF GoesOn, Copy
<1>7. ASSUME NEW s \in Sessions \cap DOMAIN new PROVE Follows(new[s])
  <2>1. ASSUME NEW v \in SessionRows, Follows(v), new[s].stamp = v.stamp, new[s].password = v.password
        PROVE  Follows(new[s])
    BY <2>1 DEF Follows
  <2>2. Copy(p, s) \in SessionRows /\ Seen(p, s) \in SessionRows
    BY SeenTyped, RowValues
  <2>3. Follows(Copy(p, s)) /\ Follows(Seen(p, s))
    BY DEF Stamps, Seen
  <2>4. CASE st = "saveSession"
    <3>1. s = SessionOf(p) /\ new[s] = SessionAfter(p, Copy(p, s))
      BY <1>1, <2>4 DEF Contents, Revocations
    <3>2. new[s].stamp = Copy(p, s).stamp /\ new[s].password = Copy(p, s).password
      BY <2>2, <3>1 DEF SessionAfter, SessionRows
    <3> QED
      BY <2>1, <2>2, <2>3, <3>2
  <2>5. CASE st \in Revocations
    <3>1. new[s] = Revoked(p, s)
      BY <1>1, <2>5 DEF Contents, Revocations
    <3>2. new[s].stamp = Seen(p, s).stamp /\ new[s].password = Seen(p, s).password
      BY <2>2, <3>1 DEF Revoked, SessionRows
    <3> QED
      BY <2>1, <2>2, <2>3, <3>2
  <2>6. CASE st = "open"
    <3>1. new[s] = [state |-> "live", stamp |-> Copy(p, User).stamp,
                    password |-> IF req[p].kind = "login" THEN req[p].password ELSE None]
      <4>1. PICK o \in Unused(Sessions), t \in Unused(Tokens) :
             /\ DOMAIN new = {o, t}
             /\ new[o] = [state |-> "live", stamp |-> Copy(p, User).stamp,
                          password |-> IF req[p].kind = "login" THEN req[p].password ELSE None]
        BY <1>1, <2>6 DEF Contents, Revocations
      <4>2. t \in Tokens
        BY DEF Unused
      <4> QED
        BY <4>1, <4>2
    <3>2. Known(new[s].stamp)
      BY <3>1 DEF Stamps
    <3>3. ASSUME new[s].password # None, new[s].stamp = db[User].stamp
          PROVE  new[s].password = db[Credential].password
      <4>1. req[p].kind = "login" /\ new[s].password = req[p].password
        BY <3>1, <3>3
      <4>2. req[p].step > 4
        BY <1>2, <2>6, <4>1 DEF Place
      <4>3. req[p].password = Copy(p, Credential).password
        BY <4>1, <4>2 DEF RowInv, Admitted
      <4>4. req[p].step > 2 /\ Copy(p, User).stamp = db[User].stamp
        BY <1>2, <3>1, <3>3, <4>2
      <4> QED
        BY <4>1, <4>3, <4>4 DEF Stamps
    <3> QED
      BY <3>2, <3>3 DEF Follows
  <2>7. CASE st \notin {"saveSession", "open"} \cup Revocations
    <3>1. req[p].token \in Tokens \/ st # "saveToken"
      BY <1>1, TokenGiven DEF IInv
    <3> QED
      BY <1>1, <2>7, <3>1 DEF Contents, Unused
  <2> QED
    BY <2>4, <2>5, <2>6, <2>7
<1>8. \A s \in Sessions \cap Wrote(p)' : Follows(draft[p][s])'
  <2>1. ASSUME NEW s \in Sessions \cap Wrote(p)' PROVE Follows(draft'[p][s])
    BY <1>3, <1>7, <2>1 DEF Stamps
  <2> QED
    BY <1>5, <2>1
<1>9. ASSUME NEW x \in Requests \ {p} PROVE \A s \in Sessions \cap Wrote(x)' : Follows(draft[x][s])'
  BY <1>3, <1>5 DEF Stamps
<1>10. ASSUME NEW x \in Requests
       PROVE  /\ Known(Copy(x, User).stamp)'
              /\ \A s \in Sessions : Follows(Copy(x, s))'
  BY <1>4, <1>5, <1>6 DEF Stamps
<1>11. ASSUME NEW x \in Requests, req'[x].kind = "login", req'[x].step > 2,
              Copy(x, User).stamp = db[User].stamp
       PROVE  Copy(x, Credential).password = db[Credential].password
  <2>1. CASE x # p
    BY <1>1, <1>11, <2>1 DEF Stamps, GoesOn
  <2>2. CASE x = p
    <3>1. req[p].kind = "login" /\ req[p].step >= 2
      BY <1>1, <1>2, <1>11, <2>2 DEF GoesOn
    <3>2. st # "readCredential"
      BY <1>1 DEF Contents, Revocations
    <3>3. req[p].step # 2
      BY <1>2, <3>1, <3>2 DEF Place
    <3>4. req[p].step > 2
      BY <1>2, <3>1, <3>3
    <3> QED
      BY <1>11, <2>2, <3>1, <3>4 DEF Stamps
  <2> QED
    BY <2>1, <2>2
<1>12. /\ Known(db[User].stamp)'
       /\ db'[User].stamp = 0 => db'[Credential].password = 0
       /\ \A s \in Sessions : Follows(db[s])'
  BY <1>3, <1>4, <1>5 DEF Stamps
<1> QED
  BY <1>3, <1>6, <1>8, <1>9, <1>10, <1>11, <1>12 DEF Stamps

LEMMA IdleAccount ==
    /\ Account("active", FALSE)[User].stamp = 0
    /\ \A s \in Sessions : /\ Account("active", FALSE)[s].stamp = 0
                           /\ Account("active", FALSE)[s].password \in {0, None}
<1> USE SessionsAssumption
<1>1. Account("active", FALSE)[User].stamp = 0
  <2>1. Account("active", FALSE)[User] = [status |-> "active", stamp |-> 0]
    BY DEF Account
  <2>2. ASSUME NEW v, v = [status |-> "active", stamp |-> 0] PROVE v.stamp = 0
    BY <2>2
  <2> QED
    BY <2>1, <2>2
<1>2. ASSUME NEW s \in Sessions
      PROVE  /\ Account("active", FALSE)[s].stamp = 0
             /\ Account("active", FALSE)[s].password \in {0, None}
  <2>1. \/ Account("active", FALSE)[s] = [state |-> "live", stamp |-> 0, password |-> 0]
        \/ Account("active", FALSE)[s] = [state |-> "absent", stamp |-> 0, password |-> None]
    BY DEF Account
  <2>2. ASSUME NEW v, v = [state |-> "live", stamp |-> 0, password |-> 0]
        PROVE  v.stamp = 0 /\ v.password \in {0, None}
    BY <2>2
  <2>3. ASSUME NEW v, v = [state |-> "absent", stamp |-> 0, password |-> None]
        PROVE  v.stamp = 0 /\ v.password \in {0, None}
    BY <2>3
  <2> QED
    BY <2>1, <2>2, <2>3
<1> QED
  BY <1>1, <1>2

LEMMA ChangesAreLong ==
    \A k \in Changes : /\ SavesUser[k] \in Nat /\ Len(Script[k]) \in Nat
                       /\ Len(Script[k]) >= SavesUser[k]
<1>1. Script["change"] = ChangeMyPassword /\ Script["reset"] = ResetPassword
  BY DEF Script
<1>2. Len(ChangeMyPassword) = 7 /\ Len(ResetPassword) = 9
  BY DEF ChangeMyPassword, ResetPassword
<1>3. SavesUser["change"] = 5 /\ SavesUser["reset"] = 7
  BY DEF SavesUser
<1>4. Len(Script["change"]) = 7 /\ Len(Script["reset"]) = 9
  BY <1>1, <1>2
<1>5. ASSUME NEW n, n = 5 \/ n = 7, NEW l, l = 7 \/ l = 9, n = 7 => l = 9
      PROVE  n \in Nat /\ l \in Nat /\ l >= n
  BY <1>5
<1>6. ASSUME NEW k \in Changes PROVE k = "change" \/ k = "reset"
  BY DEF Changes
<1> HIDE DEF Script, SavesUser
<1> QED
  BY <1>3, <1>4, <1>5, <1>6

LEMMA EndingStamps ==
    ASSUME IInv, RowInv, Stamps, NoneOverwritten({User, Credential}),
           NEW p \in Requests, Ending(p)
    PROVE  Stamps'
<1> USE SessionsAssumption
<1>1. /\ CommitRows(p) \/ DropRows(p)
      /\ CommitRows(p) => \/ req[p].kind = "login"
                          \/ db' = db
                          \/ req[p].step > Len(Script[req[p].kind])
      /\ req[p].kind # "idle" /\ begun' = begun
      /\ User \notin overwritten /\ Credential \notin overwritten
  BY DEF Ending, NoneOverwritten
<1>2. req'[p] = Idle /\ \A q \in Requests \ {p} : req'[q] = req[q]
  BY Finishes DEF Ending, IInv
<1>3. /\ Wrote(p)' = {}
      /\ \A q \in Requests \ {p} : draft'[q] = draft[q] /\ Wrote(q)' = Wrote(q)
      /\ \A r \in Rows : db'[r] \in {db[r], Seen(p, r)}
      /\ CommitRows(p) => \A r \in Rows : db'[r] = Seen(p, r)
      /\ DropRows(p) => db' = db
  BY <1>1, EndEffect DEF IInv
<1>4. /\ req[p].id \in 1..begun /\ begun \in Nat /\ req[p].step \in Nat
      /\ \A q \in Requests : req[q].kind # "idle" => req[q].id \in 1..begun
      /\ \A q \in Requests \ {p} : req[q].kind # "idle" => req[q].id # req[p].id
  BY <1>1 DEF RowInv, Numbered, IInv, ReqInv, SoundReq
<1>5. \A k : Known(k) \/ k \in {0, req[p].id} => Known(k)'
  <2>1. \A q \in Requests : req'[q].kind # "idle" => req'[q] = req[q] /\ q # p
    BY <1>2, IdleFields
  <2>2. \A k : Known(k) => Known(k)'
    BY <1>1, <2>1 DEF Known
  <2>3. ASSUME NEW k \in {0, req[p].id} PROVE Known(k)'
    <3>1. k \in 0..begun'
      BY <1>1, <1>4
    <3>2. \A q \in Requests : req'[q].kind # "idle" => k # req'[q].id
      BY <1>4, <2>1
    <3> QED
      BY <3>1, <3>2 DEF Known
  <2> QED
    BY <2>2, <2>3
<1>6. /\ db'[User].stamp \in {db[User].stamp, req[p].id}
      /\ db'[User].stamp = db[User].stamp => db'[Credential].password = db[Credential].password
  <2>1. User \in Rows /\ Credential \in Rows
    OBVIOUS
  <2>2. ASSUME User \in Wrote(p) PROVE draft[p][User].stamp \in {db[User].stamp, req[p].id}
    BY <1>1, <2>2 DEF RowInv, SavedAsRead
  <2>3. db'[User].stamp \in {db[User].stamp, req[p].id}
    BY <1>3, <2>1, <2>2 DEF Seen
  <2>4. ASSUME db'[Credential].password # db[Credential].password
        PROVE  db'[User].stamp # db[User].stamp
    <3>1. CommitRows(p) /\ Credential \in Wrote(p) /\ db' # db
          /\ draft[p][Credential].password # db[Credential].password
      BY <1>1, <1>3, <2>1, <2>4 DEF Seen
    <3>2. req[p].kind \in Changes
      BY <1>1, <3>1 DEF RowInv, SavedAsRead
    <3>3. req[p].kind # "login"
      BY <3>2 DEF Changes
    <3>4. req[p].step > SavesUser[req[p].kind]
      BY <1>1, <1>4, <3>1, <3>2, <3>3, ChangesAreLong
    <3>5. User \in Wrote(p) /\ draft[p][User].stamp = req[p].id
      BY <3>2, <3>4 DEF RowInv, InOrder
    <3>6. db'[User].stamp = req[p].id
      BY <1>3, <2>1, <3>1, <3>5 DEF Seen
    <3>7. db[User].stamp # req[p].id
      BY <1>1 DEF Stamps, Known
    <3> QED
      BY <3>6, <3>7
  <2> QED
    BY <2>3, <2>4
<1>7. ASSUME NEW k, Known(k), k = db'[User].stamp
      PROVE  k = db[User].stamp /\ db'[Credential].password = db[Credential].password
  <2>1. k # req[p].id
    BY <1>1, <1>7 DEF Known
  <2> QED
    BY <1>6, <1>7, <2>1
<1>8. db'[User].stamp = 0 => db'[Credential].password = 0
  <2>1. 0 # req[p].id
    BY <1>4
  <2> QED
    BY <1>6, <2>1 DEF Stamps
<1>9. \A s : Follows(s) => Follows(s)'
  BY <1>5, <1>7 DEF Follows
<1>10. ASSUME NEW s \in Sessions PROVE Follows(db[s])'
  <2>1. db'[s] \in {db[s], Seen(p, s)}
    BY <1>3
  <2>2. Follows(db[s]) /\ Follows(Seen(p, s))
    BY DEF Stamps, Seen
  <2>3. Follows(db'[s])
    BY <2>1, <2>2
  <2> QED
    BY <1>9, <2>3
<1>11. Known(db[User].stamp)'
  <2>1. Known(db[User].stamp)
    BY DEF Stamps
  <2>2. CASE db'[User].stamp = db[User].stamp
    BY <1>5, <2>1, <2>2
  <2>3. CASE db'[User].stamp = req[p].id
    BY <1>5, <2>3
  <2> QED
    BY <1>6, <2>2, <2>3
<1>12. /\ Known(Copy(p, User).stamp)' /\ req'[p].kind # "login" /\ Wrote(p)' = {}
       /\ \A s \in Sessions : Follows(Copy(p, s))'
  <2>1. \A r : Copy(p, r)' = Account("active", FALSE)[r]
    BY <1>2, IdleFields DEF Copy
  <2>2. Copy(p, User)'.stamp = 0
    BY <2>1, IdleAccount
  <2>3. ASSUME NEW s \in Sessions PROVE Follows(Copy(p, s))'
    <3>1. Copy(p, s)'.stamp = 0 /\ Copy(p, s)'.password \in {0, None}
      BY <2>1, IdleAccount
    <3>2. Known(Copy(p, s).stamp)'
      BY <1>5, <3>1
    <3>3. db'[User].stamp = 0 => db'[Credential].password = 0
      BY <1>8
    <3> QED
      BY <3>1, <3>2, <3>3 DEF Follows
  <2> QED
    BY <1>2, <1>3, <1>5, <2>2, <2>3, IdleFields
<1>13. ASSUME NEW x \in Requests \ {p}
       PROVE  /\ Known(Copy(x, User).stamp)'
              /\ \A s \in Sessions : Follows(Copy(x, s))'
              /\ \A s \in Sessions \cap Wrote(x)' : Follows(draft[x][s])'
              /\ req'[x].kind = "login" /\ req'[x].step > 2 /\ Copy(x, User)'.stamp = db'[User].stamp
                    => Copy(x, Credential)'.password = db'[Credential].password
  <2>1. \A r : Copy(x, r)' = Copy(x, r)
    BY <1>2 DEF Copy
  <2>2. Known(Copy(x, User).stamp)
    BY DEF Stamps
  <2>3. Known(Copy(x, User).stamp)' /\ \A s \in Sessions : Follows(Copy(x, s))'
    BY <1>5, <1>9, <2>1 DEF Stamps
  <2>4. \A s \in Sessions \cap Wrote(x)' : Follows(draft[x][s])'
    BY <1>3, <1>9 DEF Stamps
  <2>5. ASSUME req'[x].kind = "login", req'[x].step > 2, Copy(x, User)'.stamp = db'[User].stamp
        PROVE  Copy(x, Credential)'.password = db'[Credential].password
    <3>1. Copy(x, User).stamp = db[User].stamp /\ db'[Credential].password = db[Credential].password
      BY <1>7, <2>1, <2>2, <2>5
    <3>2. Copy(x, Credential).password = db[Credential].password
      BY <1>2, <2>5, <3>1 DEF Stamps
    <3> QED
      BY <2>1, <3>1, <3>2
  <2> QED
    BY <2>3, <2>4, <2>5
<1> QED
  BY <1>8, <1>10, <1>11, <1>12, <1>13 DEF Stamps

LEMMA BeginStamps ==
    ASSUME IInv, RowInv, Stamps, NEW p \in Requests, NEW kind, NEW token, NEW password,
           Begin(p, kind, token, password)
    PROVE  Stamps'
<1> USE SessionsAssumption
<1>1. /\ req'[p].step = 1 /\ req'[p].id = begun + 1 /\ req'[p].copy = Account("active", FALSE)
      /\ \A q \in Requests \ {p} : req'[q] = req[q]
      /\ db' = db /\ draft' = draft /\ begun' = begun + 1 /\ begun \in Nat
      /\ req[p].kind = "idle"
  <2>1. \A q \in Requests \ {p} : req'[q] = req[q]
    BY Begins DEF IInv
  <2>2. req'[p].step = 1 /\ req'[p].id = begun + 1 /\ req'[p].copy = Account("active", FALSE)
    <3> DEFINE q == [Idle EXCEPT !.kind = kind, !.id = begun + 1, !.token = token,
                                 !.password = password]
    <3>1. q.step = 1 /\ q.id = begun + 1 /\ q.copy = Account("active", FALSE)
      BY DEF Idle
    <3>2. req'[p] = q
      BY DEF Begin, IInv, ReqInv
    <3> QED
      BY <3>1, <3>2
  <2>3. begun \in Nat
    BY DEF RowInv, Numbered
  <2> QED
    BY <2>1, <2>2, <2>3 DEF Begin, dbVars
<1>2. \A k : Known(k) => Known(k)'
  <2> SUFFICES ASSUME NEW k, Known(k) PROVE Known(k)'
    OBVIOUS
  <2>1. k \in 0..begun /\ \A q \in Requests : req[q].kind # "idle" => k # req[q].id
    BY DEF Known
  <2>2. k \in 0..begun' /\ k # begun + 1
    BY <1>1, <2>1
  <2>3. \A q \in Requests : req'[q].kind # "idle" => k # req'[q].id
    BY <1>1, <2>1, <2>2
  <2> QED
    BY <2>2, <2>3 DEF Known
<1>3. \A s : Follows(s) => Follows(s)'
  BY <1>1, <1>2 DEF Follows
<1>4. Known(0)'
  <2>1. 0 \in 0..begun' /\ 0 # begun + 1
    BY <1>1
  <2>2. \A q \in Requests : req[q].kind # "idle" => 0 # req[q].id
    BY DEF RowInv, Numbered
  <2>3. \A q \in Requests : req'[q].kind # "idle" => 0 # req'[q].id
    BY <1>1, <2>1, <2>2
  <2> QED
    BY <2>1, <2>3 DEF Known
<1>5. \A x \in Requests : Wrote(x)' = Wrote(x)
  BY <1>1 DEF Wrote
<1>6. /\ Known(Copy(p, User).stamp)'
      /\ \A s \in Sessions : Follows(Copy(p, s))'
  <2>1. \A r : Copy(p, r)' = Account("active", FALSE)[r]
    BY <1>1 DEF Copy
  <2>2. Copy(p, User)'.stamp = 0
    BY <2>1, IdleAccount
  <2>3. ASSUME NEW s \in Sessions PROVE Follows(Copy(p, s))'
    <3>1. Copy(p, s)'.stamp = 0 /\ Copy(p, s)'.password \in {0, None}
      BY <2>1, IdleAccount
    <3>2. Known(Copy(p, s).stamp)'
      BY <1>4, <3>1
    <3>3. db'[User].stamp = 0 => db'[Credential].password = 0
      BY <1>1 DEF Stamps
    <3> QED
      BY <3>1, <3>2, <3>3 DEF Follows
  <2> QED
    BY <1>4, <2>2, <2>3
<1>7. ASSUME NEW x \in Requests \ {p}
      PROVE  /\ Known(Copy(x, User).stamp)'
             /\ \A s \in Sessions : Follows(Copy(x, s))'
             /\ req'[x].kind = "login" /\ req'[x].step > 2 /\ Copy(x, User)'.stamp = db[User].stamp
                   => Copy(x, Credential)'.password = db[Credential].password
  <2>1. \A r : Copy(x, r)' = Copy(x, r)
    BY <1>1 DEF Copy
  <2> QED
    BY <1>1, <1>2, <1>3, <2>1 DEF Stamps
<1>8. \A x \in Requests : \A s \in Sessions \cap Wrote(x)' : Follows(draft[x][s])'
  BY <1>1, <1>3, <1>5 DEF Stamps
<1>9. /\ Known(db[User].stamp)'
      /\ db'[User].stamp = 0 => db'[Credential].password = 0
      /\ \A s \in Sessions : Follows(db[s])'
  BY <1>1, <1>2, <1>3 DEF Stamps
<1> QED
  BY <1>1, <1>6, <1>7, <1>8, <1>9 DEF Stamps

LEMMA StampStep ==
    ASSUME IInv, RowInv, StampInv, [Next]_vars
    PROVE  StampInv'
<1> SUFFICES ASSUME NoneOverwritten({User, Credential})' PROVE Stamps'
  BY DEF StampInv
<1>1. CASE UNCHANGED vars
  <2>1. /\ overwritten' = overwritten /\ db' = db /\ draft' = draft /\ req' = req /\ begun' = begun
    BY <1>1 DEF vars, stateVars
  <2>2. Stamps
    BY <2>1 DEF StampInv, NoneOverwritten
  <2>3. Stamps' <=> Stamps
    BY <2>1 DEF Stamps, Known, Follows, Copy, Wrote
  <2> QED
    BY <2>2, <2>3
<1>2. CASE Next
  <2>1. PICK p \in Requests :
              /\ overwritten' = overwritten \cup SavedOver(p)
              /\ \/ \E kind, token, password : Begin(p, kind, token, password)
                 \/ \E st, kind, step : Standing(p, st, kind, step)
                 \/ \E st, step, new : Writing(p, st, step, new)
                 \/ Ending(p)
    BY <1>2, StepForms
  <2>2. NoneOverwritten({User, Credential})
    BY <2>1 DEF NoneOverwritten
  <2>3. Stamps
    BY <2>2 DEF StampInv
  <2>4. ASSUME NEW kind, NEW token, NEW password, Begin(p, kind, token, password)
        PROVE  Stamps'
    BY <2>3, <2>4, BeginStamps
  <2>5. ASSUME NEW st, NEW kind, NEW step, Standing(p, st, kind, step) PROVE Stamps'
    BY <2>3, <2>5, StandingStamps
  <2>6. ASSUME NEW st, NEW step, NEW new, Writing(p, st, step, new) PROVE Stamps'
    BY <2>3, <2>6, WritingStamps
  <2>7. CASE Ending(p)
    BY <2>2, <2>3, <2>7, EndingStamps
  <2> QED
    BY <2>1, <2>4, <2>5, <2>6, <2>7
<1> QED
  BY <1>1, <1>2

LEMMA FirstAccount ==
    ASSUME NEW status \in Statuses, NEW old \in BOOLEAN
    PROVE  /\ Account(status, old)[User].stamp = 0
           /\ Account(status, old)[Credential].password = 0
           /\ \A s \in Sessions : /\ Account(status, old)[s].stamp = 0
                                  /\ Account(status, old)[s].password \in {0, None}
<1> USE SessionsAssumption
<1>1. Account(status, old)[User].stamp = 0 /\ Account(status, old)[Credential].password = 0
  <2>1. /\ Account(status, old)[User] = [status |-> status, stamp |-> 0]
        /\ Account(status, old)[Credential] = [password |-> 0, oldHash |-> old]
    BY DEF Account
  <2>2. ASSUME NEW v, v = [status |-> status, stamp |-> 0] PROVE v.stamp = 0
    BY <2>2
  <2>3. ASSUME NEW v, v = [password |-> 0, oldHash |-> old] PROVE v.password = 0
    BY <2>3
  <2> QED
    BY <2>1, <2>2, <2>3
<1>2. ASSUME NEW s \in Sessions PROVE Account(status, old)[s] = Account("active", FALSE)[s]
  <2>1. /\ s \in Rows /\ s # User /\ s # Credential
    OBVIOUS
  <2> QED
    BY <2>1 DEF Account
<1> QED
  BY <1>1, <1>2, IdleAccount

LEMMA InitStamps == Init => StampInv
<1> SUFFICES ASSUME Init PROVE Stamps
  BY DEF StampInv
<1>1. PICK status \in {"pending", "active"}, old \in BOOLEAN : DbInit(Account(status, old))
  BY DEF Init
<1>2. \A p \in Requests : Wrote(p) = {} /\ req[p] = Idle
  BY <1>1 DEF Init, DbInit, Wrote, NoRows
<1>3. /\ db[User].stamp = 0 /\ db[Credential].password = 0
      /\ \A s \in Sessions : db[s].stamp = 0 /\ db[s].password \in {0, None}
  BY <1>1, FirstAccount DEF DbInit, Statuses
<1>4. Known(0)
  <2>1. \A q \in Requests : req[q].kind = "idle"
    BY <1>2, IdleFields
  <2> QED
    BY <2>1 DEF Known, Init
<1>5. \A s : s.stamp = 0 /\ s.password \in {0, None} => Follows(s)
  BY <1>3, <1>4 DEF Follows
<1>6. ASSUME NEW p \in Requests
      PROVE  /\ Known(Copy(p, User).stamp) /\ \A s \in Sessions : Follows(Copy(p, s))
             /\ req[p].kind # "login"
  BY <1>2, <1>4, <1>5, IdleFields, IdleAccount DEF Copy
<1> QED
  BY <1>2, <1>3, <1>4, <1>5, <1>6 DEF Stamps

(* A password change ends every session that was signed in with the old     *)
(* one, and no login checked against the old one outlives it, however many  *)
(* requests overlap: as long as neither the account nor its password was    *)
(* saved over a change the saver had not read.                              *)
(* (ChangeMyPassword, ResetPassword, LoginUser.)                            *)
THEOREM SessionsKnowThePassword == Spec => []SessionsFollowPassword
<1>1. IInv /\ RowInv /\ StampInv /\ [Next]_vars => (IInv /\ RowInv /\ StampInv)'
  BY StepSound, RowStep, StampStep
<1>2. StampInv => SessionsFollowPassword
  BY DEF StampInv, Stamps, Follows, SessionsFollowPassword, IsValid
<1> QED
  BY InitSound, InitRows, InitStamps, <1>1, <1>2, PTL DEF Spec

-----------------------------------------------------------------------------
(* Families and their heads, step by step. *)
LEMMA PresentedFamily ==
    ASSUME IInv, FamilyInv, NEW p \in Requests, req[p].kind \in Presented, req[p].step > 1
    PROVE  /\ req[p].token \in Tokens /\ Exists(db[req[p].token])
           /\ SessionOf(p) = db[req[p].token].session
           /\ SessionOf(p) \in Sessions /\ Exists(db[SessionOf(p)])
<1>1. req[p].token \in Tokens
  BY DEF IInv, ReqInv, SoundReq
<1>2. Exists(db[req[p].token]) /\ SessionOf(p) = db[req[p].token].session
  BY DEF FamilyInv, Family
<1> QED
  BY <1>1, <1>2 DEF FamilyInv

LEMMA SeenExists ==
    ASSUME FamilyInv, NEW p \in Requests, NEW s \in Sessions, Exists(db[s])
    PROVE  Exists(Seen(p, s))
BY DEF FamilyInv, SessionDrafts, Seen

LEMMA HeadIsKept ==
    ASSUME IInv, FamilyInv, NEW p \in Requests, NEW st, NEW step, NEW new,
           Writing(p, st, step, new), NEW s, NewHead(p, s)
    PROVE  NewHead(p, s)'
<1>1. PICK t \in Tokens \cap Wrote(p) :
          /\ ~Exists(db[t])
          /\ draft[p][t].session = s /\ draft[p][t].state \in {"active", "revoked"}
  BY DEF NewHead
<1>2. At(p, st) /\ Put(p, new) /\ Contents(p, st, new)
  BY DEF Writing
<1>3. /\ db' = db /\ t \in Wrote(p)'
      /\ draft'[p][t] = IF t \in DOMAIN new THEN new[t] ELSE draft[p][t]
  BY <1>2, PutEffect DEF IInv
<1>4. ASSUME t \in DOMAIN new
      PROVE  new[t].session = s /\ new[t].state \in {"active", "revoked"}
  <2>1. Place(req[p].kind, req[p].step, st)
    BY <1>2, PlaceOf DEF IInv
  <2>2. CASE st \in {"saveUser", "saveCredential", "rehash", "saveResetLink", "saveEmailLink"}
    BY <1>2, <1>4, <2>2, SessionsAssumption DEF Contents, Revocations
  <2>3. CASE st = "saveToken"
    <3>1. req[p].kind = "refresh" /\ DOMAIN new = {req[p].token}
      BY <1>2, <2>1, <2>3 DEF Contents, Revocations, Place
    <3>2. Exists(db[req[p].token])
      BY <3>1 DEF FamilyInv, Family, Presented
    <3> QED
      BY <1>1, <1>4, <3>1, <3>2
  <2>4. CASE st = "saveSession"
    <3>1. SessionOf(p) \in Sessions \cup {None} /\ DOMAIN new = {SessionOf(p)}
      BY <1>2, <2>4, TokenGiven DEF Contents, Revocations, IInv
    <3> QED
      BY <1>4, <3>1, SessionsAssumption
  <2>5. CASE st = "addToken" \/ st = "open"
    <3>1. \A x \in DOMAIN new : x \notin Wrote(p)
      BY <1>2, <2>5 DEF Contents, Revocations, Unused
    <3> QED
      BY <1>4, <3>1
  <2>6. CASE st \in Revocations
    <3>1. new[t] = Revoked(p, t) /\ Seen(p, t) = draft[p][t]
      BY <1>2, <1>4, <2>6 DEF Contents, Revocations, Seen
    <3>2. draft[p][t] \in TokenRows
      BY DEF IInv, DraftInv, SoundDraft
    <3>3. new[t].session = draft[p][t].session /\ new[t].state = "revoked"
      BY <3>1, <3>2 DEF Revoked, TokenRows
    <3> QED
      BY <1>1, <3>3
  <2> QED
    BY <1>2, <2>2, <2>3, <2>4, <2>5, <2>6 DEF Contents
<1>5. /\ ~Exists(db'[t])
      /\ draft'[p][t].session = s /\ draft'[p][t].state \in {"active", "revoked"}
  BY <1>1, <1>3, <1>4
<1> QED
  BY <1>3, <1>5 DEF NewHead, Exists

(* What a statement writes for a token and for a session. *)
LEMMA WrittenTokens ==
    ASSUME IInv, RowInv, FamilyInv, NEW p \in Requests, NEW st, NEW step, NEW new,
           Writing(p, st, step, new), NEW t \in Tokens \cap DOMAIN new
    PROVE  /\ Exists(db[t]) => new[t].session = db[t].session
           /\ new[t].session \in Sessions
           /\ Exists(Seen(p, new[t].session)) \/ new[t].session \in DOMAIN new
           /\ new[t].state = "rotated" => NewHead(p, new[t].session)
<1>1. At(p, st) /\ Contents(p, st, new) /\ Place(req[p].kind, req[p].step, st)
      /\ req[p].step \in Nat
  BY PlaceOf DEF Writing, IInv
<1>2. CASE st \in {"saveUser", "saveCredential", "rehash", "saveResetLink", "saveEmailLink"}
  BY <1>1, <1>2, SessionsAssumption DEF Contents, Revocations
<1>3. CASE st = "saveToken"
  <2>1. /\ req[p].kind = "refresh" /\ req[p].step = 6
        /\ t = req[p].token /\ new[t] = Rotated(p, Copy(p, t))
    BY <1>1, <1>3 DEF Contents, Revocations, Place
  <2>2. /\ SessionOf(p) = db[t].session /\ SessionOf(p) \in Sessions
        /\ Exists(db[SessionOf(p)])
    BY <2>1, PresentedFamily DEF Presented
  <2>3. new[t].session = SessionOf(p)
    <3>1. Copy(p, t) \in TokenRows
      BY <1>1, <1>3, <2>1, TokenGiven DEF IInv
    <3> QED
      BY <2>1, <3>1 DEF Rotated, TokenRows, SessionOf
  <2>4. NewHead(p, SessionOf(p))
    BY <2>1 DEF FamilyInv, Family
  <2> QED
    BY <2>2, <2>3, <2>4, SeenExists
<1>4. CASE st = "saveSession"
  <2>1. SessionOf(p) \in Sessions \cup {None} /\ DOMAIN new = {SessionOf(p)}
    BY <1>1, <1>4, TokenGiven DEF Contents, Revocations, IInv
  <2> QED
    BY <2>1, SessionsAssumption
<1>5. CASE st = "addToken"
  <2>1. /\ req[p].kind = "refresh" /\ req[p].step = 5
        /\ ~Exists(db[t]) /\ new[t] = NewToken(SessionOf(p))
    BY <1>1, <1>5 DEF Contents, Revocations, Place, Unused, Exists
  <2>2. SessionOf(p) \in Sessions /\ Exists(db[SessionOf(p)])
    BY <2>1, PresentedFamily DEF Presented
  <2>3. new[t].session = SessionOf(p) /\ new[t].state = "active"
    BY <2>1 DEF NewToken
  <2> QED
    BY <2>1, <2>2, <2>3, SeenExists
<1>6. CASE st = "open"
  <2>1. PICK s \in Unused(Sessions), o \in Unused(Tokens) :
             DOMAIN new = {s, o} /\ new[o] = NewToken(s)
    BY <1>1, <1>6 DEF Contents, Revocations
  <2>2. s \in Sessions /\ t = o /\ ~Exists(db[t])
    BY <2>1, SessionsAssumption DEF Unused, Exists
  <2>3. new[t].session = s /\ new[t].state = "active"
    BY <2>1, <2>2 DEF NewToken
  <2> QED
    BY <2>1, <2>2, <2>3
<1>7. CASE st \in Revocations
  <2>1. new[t] = Revoked(p, t) /\ t \in Unrevoked(p, Sessions \cup Tokens)
    BY <1>1, <1>7 DEF Contents, Revocations
  <2>2. Seen(p, t) \in TokenRows
    BY SeenTokens DEF IInv
  <2>3. new[t].session = Seen(p, t).session /\ new[t].state = "revoked"
    BY <2>1, <2>2 DEF Revoked, TokenRows
  <2>4. CASE t \in Wrote(p)
    <3>1. Seen(p, t) = draft[p][t]
      BY <2>4 DEF Seen
    <3> QED
      BY <2>3, <2>4, <3>1 DEF FamilyInv, TokenDrafts
  <2>5. CASE t \notin Wrote(p)
    <3>1. Seen(p, t) = db[t] /\ Exists(db[t])
      BY <2>1, <2>5 DEF Seen, Unrevoked, Exists
    <3>2. db[t].session \in Sessions /\ Exists(db[db[t].session])
      BY <3>1 DEF FamilyInv
    <3> QED
      BY <2>3, <3>1, <3>2, SeenExists
  <2> QED
    BY <2>4, <2>5
<1> QED
  BY <1>1, <1>2, <1>3, <1>4, <1>5, <1>6, <1>7 DEF Contents

LEMMA WrittenSessions ==
    ASSUME IInv, RowInv, FamilyInv, NEW p \in Requests, NEW st, NEW step, NEW new,
           Writing(p, st, step, new), NEW s \in Sessions \cap DOMAIN new
    PROVE  Exists(new[s]) /\ (~Exists(db[s]) => NewHead(p, s)')
<1>1. /\ At(p, st) /\ Put(p, new) /\ Contents(p, st, new)
      /\ Place(req[p].kind, req[p].step, st) /\ req[p].step \in Nat
  BY PlaceOf DEF Writing, IInv
<1>2. CASE st \in {"saveUser", "saveCredential", "rehash", "saveResetLink", "saveEmailLink"}
  BY <1>1, <1>2, SessionsAssumption DEF Contents, Revocations
<1>3. CASE st = "saveToken" \/ st = "addToken"
  <2>1. st = "saveToken" => req[p].token \in Tokens
    BY <1>1, TokenGiven DEF IInv
  <2>2. DOMAIN new \subseteq Tokens
    BY <1>1, <1>3, <2>1 DEF Contents, Revocations, Unused
  <2> QED
    BY <2>2, SessionsAssumption
<1>4. CASE st = "saveSession"
  <2>1. /\ s = SessionOf(p) /\ new[s] = SessionAfter(p, Copy(p, s))
        /\ \/ req[p].kind = "refresh" /\ req[p].step > 2
           \/ req[p].kind = "logout" /\ req[p].step > 3
    BY <1>1, <1>4 DEF Contents, Revocations, Place
  <2>2. Exists(Copy(p, s)) /\ Copy(p, s) \in SessionRows
    BY <2>1, SeenTyped, RowValues DEF FamilyInv, Family
  <2>3. Exists(new[s])
    BY <2>1, <2>2 DEF SessionAfter, SessionRows, Exists
  <2>4. Exists(db[s])
    BY <1>1, <2>1, PresentedFamily DEF Presented
  <2> QED
    BY <2>3, <2>4
<1>5. CASE st = "open"
  <2>1. PICK o \in Unused(Sessions), t \in Unused(Tokens) :
             /\ DOMAIN new = {o, t} /\ new[t] = NewToken(o)
             /\ new[o] = [state |-> "live", stamp |-> Copy(p, User).stamp,
                          password |-> IF req[p].kind = "login" THEN req[p].password ELSE None]
    BY <1>1, <1>5 DEF Contents, Revocations
  <2>2. s = o /\ t \in Tokens /\ ~Exists(db[t])
    BY <2>1, SessionsAssumption DEF Unused, Exists
  <2>3. new[s].state = "live"
    BY <2>1, <2>2
  <2>4. new[t].session = s /\ new[t].state = "active"
    BY <2>1, <2>2 DEF NewToken
  <2>5. db' = db /\ t \in Wrote(p)' /\ draft'[p][t] = new[t]
    BY <1>1, <2>1, PutEffect DEF IInv
  <2>6. NewHead(p, s)'
    <3>1. ~Exists(db'[t]) /\ draft'[p][t].session = s /\ draft'[p][t].state = "active"
      BY <2>2, <2>4, <2>5
    <3> QED
      BY <2>2, <2>5, <3>1 DEF NewHead, Exists
  <2> QED
    BY <2>3, <2>6 DEF Exists
<1>6. CASE st \in Revocations
  <2>1. new[s] = Revoked(p, s) /\ s \in Unrevoked(p, Sessions \cup Tokens)
    BY <1>1, <1>6 DEF Contents, Revocations
  <2>2. Seen(p, s) \in SessionRows
    BY SeenTyped, RowValues
  <2>3. Exists(new[s])
    BY <2>1, <2>2 DEF Revoked, SessionRows, Exists
  <2>4. ASSUME ~Exists(db[s]) PROVE NewHead(p, s)
    <3>1. s \in Wrote(p)
      BY <2>1, <2>4 DEF Unrevoked, Seen, Exists
    <3> QED
      BY <2>4, <3>1 DEF FamilyInv, SessionDrafts
  <2> QED
    BY <2>3, <2>4, HeadIsKept
<1> QED
  BY <1>1, <1>2, <1>3, <1>4, <1>5, <1>6 DEF Contents

LEMMA WritingFamily ==
    ASSUME IInv, RowInv, FamilyInv, NEW p \in Requests, NEW st, NEW step, NEW new,
           Writing(p, st, step, new)
    PROVE  FamilyInv'
<1>1. /\ At(p, st) /\ Put(p, new) /\ Contents(p, st, new) /\ GoesOn(p, req[p].kind, step)
      /\ step \in {req[p].step, req[p].step + 1} /\ req'[p].copy = req[p].copy
      /\ Place(req[p].kind, req[p].step, st) /\ req[p].step \in Nat /\ req[p].kind # "idle"
      /\ st \notin Revocations => step = req[p].step + 1
  BY PlaceOf DEF Writing, IInv
<1>2. /\ db' = db
      /\ \A q \in Requests \ {p} : draft'[q] = draft[q] /\ Wrote(q)' = Wrote(q)
      /\ Wrote(p)' = Wrote(p) \cup DOMAIN new
      /\ \A r \in Wrote(p)' : draft'[p][r] = IF r \in DOMAIN new THEN new[r] ELSE draft[p][r]
  BY <1>1, PutEffect DEF IInv
<1>3. ASSUME NEW x \in Requests \ {p}
      PROVE  /\ TokenDrafts(x)' <=> TokenDrafts(x)
             /\ SessionDrafts(x)' <=> SessionDrafts(x)
             /\ Family(x)' <=> Family(x)
  <2>1. /\ req'[x] = req[x] /\ draft'[x] = draft[x] /\ Wrote(x)' = Wrote(x)
    BY <1>1, <1>2 DEF GoesOn
  <2>2. \A s : NewHead(x, s)' <=> NewHead(x, s)
    BY <1>2, <2>1 DEF NewHead
  <2>3. \A s : Seen(x, s)' = Seen(x, s)
    BY <1>2, <2>1 DEF Seen
  <2>4. \A r : Copy(x, r)' = Copy(x, r) /\ SessionOf(x)' = SessionOf(x)
    BY <2>1 DEF Copy, SessionOf
  <2>5. TokenDrafts(x)' <=> TokenDrafts(x)
    BY <1>2, <2>1, <2>2, <2>3 DEF TokenDrafts
  <2>6. SessionDrafts(x)' <=> SessionDrafts(x)
    BY <1>2, <2>1, <2>2 DEF SessionDrafts
  <2>7. Family(x)' <=> Family(x)
    BY <1>2, <2>1, <2>2, <2>4 DEF Family
  <2> QED
    BY <2>5, <2>6, <2>7
<1>4. ASSUME NEW s \in Sessions, Exists(Seen(p, s)) \/ s \in DOMAIN new
      PROVE  Exists(Seen(p, s)')
  <2>1. CASE s \in DOMAIN new
    <3>1. Seen(p, s)' = new[s]
      BY <1>2, <2>1 DEF Seen
    <3> QED
      BY <2>1, <3>1, WrittenSessions
  <2>2. CASE s \notin DOMAIN new
    <3>1. Seen(p, s)' = Seen(p, s)
      BY <1>2, <2>2 DEF Seen
    <3> QED
      BY <1>4, <2>2, <3>1
  <2> QED
    BY <2>1, <2>2
<1>5. ASSUME NEW t \in Tokens \cap Wrote(p)'
      PROVE  /\ Exists(db[t]) => draft'[p][t].session = db[t].session
             /\ draft'[p][t].session \in Sessions
             /\ Exists(Seen(p, draft[p][t].session)')
             /\ draft'[p][t].state = "rotated" => NewHead(p, draft[p][t].session)'
  <2>1. CASE t \in DOMAIN new
    <3>1. draft'[p][t] = new[t]
      BY <1>2, <2>1
    <3>2. /\ Exists(db[t]) => new[t].session = db[t].session
          /\ new[t].session \in Sessions
          /\ Exists(Seen(p, new[t].session)) \/ new[t].session \in DOMAIN new
          /\ new[t].state = "rotated" => NewHead(p, new[t].session)
      BY <2>1, WrittenTokens
    <3> DEFINE s == new[t].session
    <3>3. \A x : x = s /\ NewHead(p, x) => NewHead(p, x)'
      BY HeadIsKept
    <3>4. \A x : x = s => Exists(Seen(p, x)')
      BY <1>4, <3>2
    <3> QED
      BY <3>1, <3>2, <3>3, <3>4
  <2>2. CASE t \notin DOMAIN new
    <3>1. draft'[p][t] = draft[p][t] /\ t \in Wrote(p)
      BY <1>2, <2>2
    <3>2. /\ Exists(db[t]) => draft[p][t].session = db[t].session
          /\ draft[p][t].session \in Sessions /\ Exists(Seen(p, draft[p][t].session))
          /\ draft[p][t].state = "rotated" => NewHead(p, draft[p][t].session)
      BY <3>1 DEF FamilyInv, TokenDrafts
    <3> DEFINE s == draft[p][t].session
    <3>3. \A x : x = s /\ NewHead(p, x) => NewHead(p, x)'
      BY HeadIsKept
    <3>4. \A x : x = s => Exists(Seen(p, x)')
      BY <1>4, <3>2
    <3> QED
      BY <3>1, <3>2, <3>3, <3>4
  <2> QED
    BY <2>1, <2>2
<1>6. TokenDrafts(p)'
  BY <1>2, <1>5 DEF TokenDrafts, Exists
<1>7. SessionDrafts(p)'
  <2>1. ASSUME NEW s \in Sessions \cap Wrote(p)'
        PROVE  Exists(draft'[p][s]) /\ (~Exists(db[s]) => NewHead(p, s)')
    <3>1. CASE s \in DOMAIN new
      BY <1>2, <3>1, WrittenSessions
    <3>2. CASE s \notin DOMAIN new
      <4>1. draft'[p][s] = draft[p][s] /\ s \in Wrote(p)
        BY <1>2, <3>2
      <4>2. Exists(draft[p][s]) /\ (~Exists(db[s]) => NewHead(p, s))
        BY <4>1 DEF FamilyInv, SessionDrafts
      <4> QED
        BY <4>1, <4>2, HeadIsKept
    <3> QED
      BY <3>1, <3>2
  <2> QED
    BY <1>2, <2>1 DEF SessionDrafts, Exists
<1>8. Family(p)'
  <2>1. /\ req'[p].kind = req[p].kind /\ req'[p].step = step /\ req'[p].token = req[p].token
        /\ \A r : Copy(p, r)' = Copy(p, r)
        /\ SessionOf(p)' = SessionOf(p)
    BY <1>1 DEF GoesOn, Copy, SessionOf
  <2>2. st \notin {"readToken", "readSession"}
    BY <1>1 DEF Contents, Revocations
  <2>3. req[p].kind \in Presented => req[p].step > 1
    BY <1>1, <2>2 DEF Place, IInv, ReqInv, SoundReq
  <2>4. req[p].kind = "refresh" /\ step > 2 => req[p].step > 2
    BY <1>1, <2>2 DEF Place
  <2>5. req[p].kind = "logout" /\ step > 3 => req[p].step > 3
    BY <1>1, <2>2 DEF Place
  <2>6. ASSUME req[p].kind = "refresh", step > 5 PROVE NewHead(p, SessionOf(p))'
    <3>1. CASE req[p].step > 5
      <4>1. \A s : s = SessionOf(p) /\ NewHead(p, s) => NewHead(p, s)'
        BY HeadIsKept
      <4> QED
        BY <2>1, <2>6, <3>1, <4>1 DEF FamilyInv, Family
    <3>2. CASE ~(req[p].step > 5)
      <4>1. st = "addToken"
        BY <1>1, <2>6, <3>2 DEF Place
      <4>2. PICK t \in Unused(Tokens) : DOMAIN new = {t} /\ new[t] = NewToken(SessionOf(p))
        BY <1>1, <4>1 DEF Contents, Revocations
      <4>3. t \in Tokens /\ ~Exists(db'[t]) /\ t \in Wrote(p)' /\ draft'[p][t] = new[t]
        BY <1>2, <4>2 DEF Unused, Exists
      <4>4. new[t].session = SessionOf(p) /\ new[t].state = "active"
        BY <4>2 DEF NewToken
      <4> QED
        BY <2>1, <4>3, <4>4 DEF NewHead, Exists
    <3> QED
      BY <3>1, <3>2
  <2> QED
    BY <1>2, <2>1, <2>3, <2>4, <2>5, <2>6 DEF FamilyInv, Family, Exists
<1>9. /\ FamilyHasHead'
      /\ (\A t \in Tokens : Exists(db[t]) => db[t].session \in Sessions /\ Exists(db[db[t].session]))'
  BY <1>2 DEF FamilyInv, FamilyHasHead, Exists
<1> QED
  BY <1>3, <1>6, <1>7, <1>8, <1>9 DEF FamilyInv

LEMMA StandingFamily ==
    ASSUME IInv, RowInv, FamilyInv, NEW p \in Requests, NEW st, NEW kind, NEW step,
           Standing(p, st, kind, step)
    PROVE  FamilyInv'
<1> USE SessionsAssumption
<1>1. /\ At(p, st) /\ GoesOn(p, kind, step) /\ db' = db /\ draft' = draft
      /\ step \in {req[p].step, req[p].step + 1} /\ st # "addToken"
      /\ kind = req[p].kind \/ (req[p].kind = "refresh" /\ kind = "reuse" /\ st = "readToken")
      /\ \A r \in Rows : \/ req'[p].copy[r] = Copy(p, r) /\ ~Fetches(p, r, st)
                         \/ Fetches(p, r, st) /\ req'[p].copy[r] = Seen(p, r)
      /\ Place(req[p].kind, req[p].step, st) /\ req[p].step \in Nat /\ req[p].step >= 1
      /\ req[p].kind # "idle"
  BY PlaceOf DEF Standing, dbVars, IInv, ReqInv, SoundReq
<1>2. \A x \in Requests : /\ Wrote(x)' = Wrote(x)
                          /\ \A s : NewHead(x, s)' <=> NewHead(x, s)
                          /\ \A s : Seen(x, s)' = Seen(x, s)
  BY <1>1 DEF Wrote, NewHead, Seen
<1>3. \A x \in Requests : TokenDrafts(x)' /\ SessionDrafts(x)'
  BY <1>1, <1>2 DEF FamilyInv, TokenDrafts, SessionDrafts
<1>4. ASSUME NEW x \in Requests \ {p} PROVE Family(x)'
  <2>1. req'[x] = req[x]
    BY <1>1 DEF GoesOn
  <2>2. \A r : Copy(x, r)' = Copy(x, r) /\ SessionOf(x)' = SessionOf(x)
    BY <2>1 DEF Copy, SessionOf
  <2> QED
    BY <1>1, <1>2, <2>1, <2>2 DEF FamilyInv, Family
<1>5. ASSUME kind \in Presented PROVE Family(p)'
  <2>1. /\ req'[p].kind = kind /\ req'[p].step = step /\ req'[p].token = req[p].token
        /\ req[p].kind \in Presented /\ req[p].token \in Tokens /\ req[p].token \in Rows
    BY <1>1, <1>5 DEF GoesOn, Presented, IInv, ReqInv, SoundReq
  <2> DEFINE token == req[p].token
  <2>2. Exists(db[token])
    BY <2>1 DEF FamilyInv, Family
  <2>3. Seen(p, token).session = db[token].session
    BY <2>1, <2>2 DEF FamilyInv, TokenDrafts, Seen
  <2>4. db[token].session \in Sessions /\ Exists(db[db[token].session])
    BY <2>1, <2>2 DEF FamilyInv
  <2>5. req[p].step > 1 => SessionOf(p) = db[token].session
    BY <2>1, PresentedFamily
  <2>6. step > 1 => SessionOf(p)' = db[token].session
    <3> SUFFICES ASSUME step > 1 PROVE req'[p].copy[token].session = db[token].session
      BY <2>1 DEF SessionOf, Copy
    <3>1. CASE req[p].step > 1
      <4>1. st # "readToken" /\ SessionOf(p) \in Sessions
        BY <1>1, <2>4, <2>5, <3>1 DEF Place
      <4>2. ~Fetches(p, token, st)
        BY <2>1, <4>1 DEF Fetches, Reads
      <4>3. req'[p].copy[token] = Copy(p, token)
        BY <1>1, <2>1, <4>2
      <4> QED
        BY <2>5, <3>1, <4>3 DEF SessionOf
    <3>2. CASE ~(req[p].step > 1)
      <4>1. st = "readToken"
        BY <1>1, <2>1, <3>2 DEF Place
      <4>2. req'[p].copy[token] = Seen(p, token)
        BY <1>1, <2>1, <4>1 DEF Fetches
      <4> QED
        BY <2>3, <4>2
    <3> QED
      BY <3>1, <3>2
  <2>7. ASSUME \/ kind = "refresh" /\ step > 2
               \/ kind = "logout" /\ step > 3
        PROVE  Exists(Copy(p, SessionOf(p))')
    <3>1. kind = req[p].kind /\ req[p].step > 1
      BY <1>1, <2>7
    <3>2. SessionOf(p)' = SessionOf(p) /\ SessionOf(p) \in Sessions /\ SessionOf(p) = db[token].session
      BY <1>1, <2>4, <2>5, <2>6, <2>7, <3>1
    <3> DEFINE s == SessionOf(p)
    <3>3. Exists(Seen(p, s))
      BY <2>4, <3>2, SeenExists
    <3>4. st = "readSession" \/ Exists(Copy(p, s))
      BY <1>1, <2>7, <3>1 DEF Place, FamilyInv, Family
    <3>5. req'[p].copy[s] = Seen(p, s) \/ (req'[p].copy[s] = Copy(p, s) /\ st # "readSession")
      BY <1>1, <3>2 DEF Fetches
    <3>6. Exists(req'[p].copy[s])
      BY <3>3, <3>4, <3>5
    <3>7. Copy(p, SessionOf(p))' = req'[p].copy[s]
      BY <3>2 DEF Copy
    <3> QED
      BY <3>6, <3>7
  <2>8. ASSUME kind = "refresh", step > 5 PROVE NewHead(p, SessionOf(p))'
    <3>1. req[p].kind = "refresh" /\ req[p].step > 5
      BY <1>1, <2>8 DEF Place
    <3>2. SessionOf(p)' = SessionOf(p)
      BY <1>1, <2>5, <2>6, <2>8, <3>1
    <3>3. NewHead(p, SessionOf(p))
      BY <3>1 DEF FamilyInv, Family
    <3> QED
      BY <1>2, <3>2, <3>3 DEF NewHead
  <2> QED
    BY <1>1, <2>1, <2>2, <2>6, <2>7, <2>8 DEF Family, Exists
<1>6. ASSUME kind \notin Presented PROVE Family(p)'
  <2>1. req'[p].kind \notin Presented
    BY <1>1, <1>6 DEF GoesOn
  <2> QED
    BY <2>1 DEF Family, Presented
<1>7. /\ FamilyHasHead'
      /\ (\A t \in Tokens : Exists(db[t]) => db[t].session \in Sessions /\ Exists(db[db[t].session]))'
  BY <1>1 DEF FamilyInv, FamilyHasHead, Exists
<1> QED
  BY <1>3, <1>4, <1>5, <1>6, <1>7 DEF FamilyInv

LEMMA EndingFamily ==
    ASSUME IInv, RowInv, FamilyInv, NEW p \in Requests, Ending(p)
    PROVE  FamilyInv'
<1> USE SessionsAssumption
<1>1. /\ req'[p] = Idle /\ \A q \in Requests \ {p} : req'[q] = req[q]
      /\ CommitRows(p) \/ DropRows(p)
  BY Finishes DEF Ending, IInv
<1>2. /\ Wrote(p)' = {}
      /\ \A q \in Requests \ {p} :
            /\ draft'[q] = draft[q] /\ Wrote(q)' = Wrote(q)
            /\ \A r \in Rows \cap Wrote(q) : db'[r] = db[r]
      /\ \A r \in Rows : db'[r] \in {db[r], Seen(p, r)}
      /\ CommitRows(p) => \A r \in Rows : db'[r] = Seen(p, r)
      /\ DropRows(p) => db' = db
  BY <1>1, EndEffect DEF IInv
<1>3. ASSUME NEW s \in Sessions, Exists(db[s]) PROVE Exists(db'[s])
  BY <1>2, <1>3, SeenExists
<1>4. ASSUME NEW t \in Tokens, Exists(db[t])
      PROVE  Exists(db'[t]) /\ db'[t].session = db[t].session
  <2>1. ASSUME t \in Wrote(p) PROVE Exists(draft[p][t]) /\ draft[p][t].session = db[t].session
    BY <1>4, <2>1 DEF FamilyInv, TokenDrafts, IInv, DraftInv, SoundDraft, Exists
  <2>2. Exists(Seen(p, t)) /\ Seen(p, t).session = db[t].session
    BY <1>4, <2>1 DEF Seen
  <2> QED
    BY <1>2, <1>4, <2>2
<1>5. ASSUME NEW x \in Requests \ {p}
      PROVE  TokenDrafts(x)' /\ SessionDrafts(x)' /\ Family(x)'
  <2>1. /\ req'[x] = req[x] /\ draft'[x] = draft[x] /\ Wrote(x)' = Wrote(x)
        /\ \A r \in Rows \cap Wrote(x) : db'[r] = db[r]
    BY <1>1, <1>2
  <2>2. \A s : NewHead(x, s) => NewHead(x, s)'
    BY <2>1 DEF NewHead
  <2>3. \A s \in Sessions : Exists(Seen(x, s)) => Exists(Seen(x, s)')
    BY <1>3, <2>1 DEF Seen
  <2>4. \A r : Copy(x, r)' = Copy(x, r) /\ SessionOf(x)' = SessionOf(x)
    BY <2>1 DEF Copy, SessionOf
  <2>5. TokenDrafts(x)'
    <3>1. ASSUME NEW t \in Tokens \cap Wrote(x)
          PROVE  /\ Exists(db'[t]) => draft[x][t].session = db'[t].session
                 /\ draft[x][t].session \in Sessions /\ Exists(Seen(x, draft[x][t].session))
                 /\ draft[x][t].state = "rotated" => NewHead(x, draft[x][t].session)
      BY <2>1 DEF FamilyInv, TokenDrafts
    <3>2. ASSUME NEW t \in Tokens \cap Wrote(x), NEW s, s = draft[x][t].session
          PROVE  Exists(Seen(x, s)') /\ (draft[x][t].state = "rotated" => NewHead(x, s)')
      BY <2>2, <2>3, <3>1, <3>2
    <3> QED
      BY <2>1, <3>1, <3>2 DEF TokenDrafts, Exists
  <2>6. SessionDrafts(x)'
    BY <2>1, <2>2 DEF FamilyInv, SessionDrafts, Exists
  <2>7. Family(x)'
    <3>1. Family(x) /\ (req[x].kind \in Presented => req[x].token \in Tokens)
      BY DEF FamilyInv, IInv, ReqInv, SoundReq
    <3>2. req[x].kind \in Presented => Exists(db[req[x].token])
      BY <3>1 DEF Family
    <3>3. req[x].kind \in Presented => /\ Exists(db'[req[x].token])
                                       /\ db'[req[x].token].session = db[req[x].token].session
      BY <1>4, <3>1, <3>2
    <3>4. req[x].kind = "refresh" /\ req[x].step > 5 => NewHead(x, SessionOf(x))'
      BY <2>2, <2>4, <3>1 DEF Family
    <3> QED
      BY <2>1, <2>4, <3>1, <3>3, <3>4 DEF Family, Exists
  <2> QED
    BY <2>5, <2>6, <2>7
<1>6. TokenDrafts(p)' /\ SessionDrafts(p)' /\ Family(p)'
  <2>1. TokenDrafts(p)' /\ SessionDrafts(p)'
    BY <1>2 DEF TokenDrafts, SessionDrafts
  <2>2. req'[p].kind = "idle"
    BY <1>1, IdleFields
  <2> QED
    BY <2>1, <2>2 DEF Family, Presented
<1>7. ASSUME NEW t \in Tokens, Exists(db'[t])
      PROVE  db'[t].session \in Sessions /\ Exists(db'[db'[t].session])
  <2>1. CASE db'[t] = db[t]
    <3>1. db[t].session \in Sessions /\ Exists(db[db[t].session])
      BY <1>7, <2>1 DEF FamilyInv
    <3> QED
      BY <1>3, <2>1, <3>1
  <2>2. CASE db'[t] # db[t]
    <3>1. CommitRows(p) /\ t \in Wrote(p) /\ db'[t] = draft[p][t]
      BY <1>1, <1>2, <2>2 DEF Seen
    <3>2. draft[p][t].session \in Sessions /\ Exists(Seen(p, draft[p][t].session))
      BY <3>1 DEF FamilyInv, TokenDrafts
    <3> QED
      BY <1>2, <3>1, <3>2
  <2> QED
    BY <2>1, <2>2
<1>8. ASSUME NEW s \in Sessions, Exists(db'[s])
      PROVE  \E t \in Tokens : db'[t].session = s /\ db'[t].state \in {"active", "revoked"}
  <2>1. ASSUME CommitRows(p), NewHead(p, s)
        PROVE  \E t \in Tokens : db'[t].session = s /\ db'[t].state \in {"active", "revoked"}
    <3>1. PICK t \in Tokens \cap Wrote(p) :
             draft[p][t].session = s /\ draft[p][t].state \in {"active", "revoked"}
      BY <2>1 DEF NewHead
    <3>2. db'[t] = draft[p][t]
      BY <1>2, <2>1 DEF Seen
    <3> QED
      BY <3>1, <3>2
  <2>2. CASE ~Exists(db[s])
    <3>1. CommitRows(p) /\ s \in Wrote(p)
      BY <1>1, <1>2, <1>8, <2>2 DEF Seen
    <3>2. NewHead(p, s)
      BY <2>2, <3>1 DEF FamilyInv, SessionDrafts
    <3> QED
      BY <2>1, <3>1, <3>2
  <2>3. CASE Exists(db[s])
    <3>1. PICK t \in Tokens : db[t].session = s /\ db[t].state \in {"active", "revoked"}
      BY <2>3 DEF FamilyInv, FamilyHasHead, Exists
    <3>2. CASE db'[t] = db[t]
      BY <3>1, <3>2
    <3>3. CASE db'[t] # db[t]
      <4>1. CommitRows(p) /\ t \in Wrote(p) /\ db'[t] = draft[p][t]
        BY <1>1, <1>2, <3>3 DEF Seen
      <4>2. draft[p][t].session = s
        BY <3>1, <4>1 DEF FamilyInv, TokenDrafts, Exists
      <4>3. draft[p][t] \in TokenRows /\ draft[p][t].state # "absent"
        BY <4>1 DEF IInv, DraftInv, SoundDraft
      <4>4. draft[p][t].state \in {"active", "revoked", "rotated"}
        BY <4>3 DEF TokenRows
      <4>5. draft[p][t].state = "rotated" => NewHead(p, s)
        BY <4>1, <4>2 DEF FamilyInv, TokenDrafts
      <4> QED
        BY <2>1, <4>1, <4>2, <4>4, <4>5
    <3> QED
      BY <3>2, <3>3
  <2> QED
    BY <2>2, <2>3
<1>9. FamilyHasHead'
  BY <1>8 DEF FamilyHasHead, Exists
<1> QED
  BY <1>5, <1>6, <1>7, <1>9 DEF FamilyInv, Exists

LEMMA BeginFamily ==
    ASSUME IInv, FamilyInv, NEW p \in Requests, NEW kind, NEW token, NEW password,
           Begin(p, kind, token, password), kind \in Presented => Exists(db[token])
    PROVE  FamilyInv'
<1>1. /\ req'[p].kind = kind /\ req'[p].step = 1 /\ req'[p].token = token
      /\ \A q \in Requests \ {p} : req'[q] = req[q]
      /\ db' = db /\ draft' = draft
  <2>1. \A q \in Requests \ {p} : req'[q] = req[q]
    BY Begins DEF IInv
  <2>2. req'[p].kind = kind /\ req'[p].step = 1 /\ req'[p].token = token
    <3> DEFINE q == [Idle EXCEPT !.kind = kind, !.id = begun + 1, !.token = token,
                                 !.password = password]
    <3>1. q.kind = kind /\ q.step = 1 /\ q.token = token
      BY DEF Idle
    <3>2. req'[p] = q
      BY DEF Begin, IInv, ReqInv
    <3> QED
      BY <3>1, <3>2
  <2> QED
    BY <2>1, <2>2 DEF Begin, dbVars
<1>2. \A x \in Requests : TokenDrafts(x)' /\ SessionDrafts(x)'
  BY <1>1 DEF FamilyInv, TokenDrafts, SessionDrafts, NewHead, Seen, Wrote
<1>3. ASSUME NEW x \in Requests \ {p} PROVE Family(x)'
  <2>1. req'[x] = req[x]
    BY <1>1
  <2>2. \A r : Copy(x, r)' = Copy(x, r) /\ SessionOf(x)' = SessionOf(x)
    BY <2>1 DEF Copy, SessionOf
  <2> QED
    BY <1>1, <2>1, <2>2 DEF FamilyInv, Family, NewHead, Wrote
<1>4. Family(p)'
  <2>1. ~(1 > 1) /\ ~(1 > 2) /\ ~(1 > 3) /\ ~(1 > 5)
    OBVIOUS
  <2> QED
    BY <1>1, <2>1 DEF Family, Exists
<1>5. /\ FamilyHasHead'
      /\ (\A t \in Tokens : Exists(db[t]) => db[t].session \in Sessions /\ Exists(db[db[t].session]))'
  BY <1>1 DEF FamilyInv, FamilyHasHead, Exists
<1> QED
  BY <1>2, <1>3, <1>4, <1>5 DEF FamilyInv

LEMMA FamilyStep ==
    ASSUME IInv, RowInv, FamilyInv, [Next]_vars
    PROVE  FamilyInv'
<1>1. CASE UNCHANGED vars
  <2>1. db' = db /\ draft' = draft /\ req' = req
    BY <1>1 DEF vars, stateVars
  <2>2. /\ \A q, r : Copy(q, r)' = Copy(q, r)
        /\ \A q : SessionOf(q)' = SessionOf(q) /\ Wrote(q)' = Wrote(q)
        /\ \A q, r : Seen(q, r)' = Seen(q, r)
    BY <2>1 DEF Copy, SessionOf, Wrote, Seen
  <2> QED
    BY <2>1, <2>2 DEF FamilyInv, FamilyHasHead, TokenDrafts, SessionDrafts, Family, NewHead, Exists
<1>2. CASE Next
  <2>1. PICK p \in Requests :
              \/ \E kind, token, password :
                       /\ Begin(p, kind, token, password)
                       /\ kind \in Presented => db[token].state # "absent"
              \/ \E st, kind, step : Standing(p, st, kind, step)
              \/ \E st, step, new : Writing(p, st, step, new)
              \/ Ending(p)
    BY <1>2, StepForms
  <2>2. ASSUME NEW kind, NEW token, NEW password, Begin(p, kind, token, password),
               kind \in Presented => db[token].state # "absent"
        PROVE  FamilyInv'
    BY <2>2, BeginFamily DEF Exists
  <2>3. ASSUME NEW st, NEW kind, NEW step, Standing(p, st, kind, step) PROVE FamilyInv'
    BY <2>3, StandingFamily
  <2>4. ASSUME NEW st, NEW step, NEW new, Writing(p, st, step, new) PROVE FamilyInv'
    BY <2>4, WritingFamily
  <2>5. CASE Ending(p)
    BY <2>5, EndingFamily
  <2> QED
    BY <2>1, <2>2, <2>3, <2>4, <2>5
<1> QED
  BY <1>1, <1>2

LEMMA FirstFamily ==
    ASSUME NEW status, NEW old
    PROVE  /\ \A s \in Sessions : Account(status, old)[s].state # "absent" => s = AnyOf(Sessions)
           /\ Account(status, old)[AnyOf(Sessions)].state = "live"
           /\ \A t \in Tokens : Account(status, old)[t].state # "absent" => t = AnyOf(Tokens)
           /\ Account(status, old)[AnyOf(Tokens)].session = AnyOf(Sessions)
           /\ Account(status, old)[AnyOf(Tokens)].state = "active"
           /\ AnyOf(Sessions) \in Sessions /\ AnyOf(Tokens) \in Tokens
<1> USE SessionsAssumption
<1>1. AnyOf(Sessions) \in Sessions /\ AnyOf(Tokens) \in Tokens
  <2>1. Sessions # {} /\ Tokens # {}
    BY FS_EmptySet
  <2> QED
    BY <2>1 DEF AnyOf
<1>2. ASSUME NEW s \in Sessions
      PROVE  Account(status, old)[s].state = IF s = AnyOf(Sessions) THEN "live" ELSE "absent"
  <2>1. s \in Rows /\ s # User /\ s # Credential
    OBVIOUS
  <2>2. Account(status, old)[s] = IF s = AnyOf(Sessions)
                                  THEN [state |-> "live", stamp |-> 0, password |-> 0]
                                  ELSE [state |-> "absent", stamp |-> 0, password |-> None]
    BY <2>1 DEF Account
  <2> QED
    BY <2>2
<1>3. ASSUME NEW t \in Tokens
      PROVE  /\ t = AnyOf(Tokens) => Account(status, old)[t] = NewToken(AnyOf(Sessions))
             /\ t # AnyOf(Tokens) => Account(status, old)[t].state = "absent"
  <2>1. t \in Rows /\ t \notin Sessions /\ t # User /\ t # Credential
    OBVIOUS
  <2>2. Account(status, old)[t] = IF t = AnyOf(Tokens) THEN NewToken(AnyOf(Sessions))
                                  ELSE [state |-> "absent", session |-> None, by |-> None]
    BY <2>1 DEF Account
  <2> QED
    BY <2>2
<1>4. /\ NewToken(AnyOf(Sessions)).session = AnyOf(Sessions)
      /\ NewToken(AnyOf(Sessions)).state = "active"
  BY DEF NewToken
<1> QED
  BY <1>1, <1>2, <1>3, <1>4

LEMMA InitFamily == Init => FamilyInv
<1> SUFFICES ASSUME Init PROVE FamilyInv
  OBVIOUS
<1>1. PICK status \in {"pending", "active"}, old \in BOOLEAN : DbInit(Account(status, old))
  BY DEF Init
<1>2. \A p \in Requests : Wrote(p) = {} /\ req[p] = Idle
  BY <1>1 DEF Init, DbInit, Wrote, NoRows
<1>3. db = Account(status, old)
  BY <1>1 DEF DbInit
<1>4. /\ \A s \in Sessions : db[s].state # "absent" => s = AnyOf(Sessions)
      /\ db[AnyOf(Sessions)].state = "live"
      /\ \A t \in Tokens : db[t].state # "absent" => t = AnyOf(Tokens)
      /\ db[AnyOf(Tokens)].session = AnyOf(Sessions) /\ db[AnyOf(Tokens)].state = "active"
      /\ AnyOf(Sessions) \in Sessions /\ AnyOf(Tokens) \in Tokens
  BY <1>3, FirstFamily
<1>5. FamilyHasHead
  BY <1>4 DEF FamilyHasHead
<1>6. \A t \in Tokens : Exists(db[t]) => db[t].session \in Sessions /\ Exists(db[db[t].session])
  BY <1>4 DEF Exists
<1>7. \A p \in Requests : TokenDrafts(p) /\ SessionDrafts(p)
  BY <1>2 DEF TokenDrafts, SessionDrafts
<1>8. \A p \in Requests : Family(p)
  BY <1>2, IdleFields DEF Family, Presented
<1> QED
  BY <1>5, <1>6, <1>7, <1>8 DEF FamilyInv

(* Some token of every session was never rotated, so the client that made   *)
(* the last refresh holds one that is not taken for a replay, however       *)
(* refreshes of one token overlap and wherever requests are cut off.        *)
(* (RefreshSession, LoginUser.)                                             *)
THEOREM EveryFamilyHasAHead == Spec => []FamilyHasHead
<1>1. IInv /\ RowInv /\ FamilyInv /\ [Next]_vars => (IInv /\ RowInv /\ FamilyInv)'
  BY StepSound, RowStep, FamilyStep
<1>2. FamilyInv => FamilyHasHead
  BY DEF FamilyInv
<1> QED
  BY InitSound, InitRows, InitFamily, <1>1, <1>2, PTL DEF Spec

-----------------------------------------------------------------------------
(* The reaction to a replay, step by step. *)
LEMMA ReactionStatements ==
    ASSUME ReqInv, NEW p \in Requests, req[p].kind = "reuse", req[p].step > 1, NEW st, At(p, st)
    PROVE  \/ st = "revokeFamily" /\ req[p].step = 2
           \/ st = "revokeSessions" /\ req[p].step = 3
<1>1. req[p].step \in 1..Len(Script["reuse"]) /\ Script["reuse"][req[p].step] = st
  BY AtScript
<1>2. Script["reuse"] = RefreshReuse
  BY DEF Script
<1> QED
  BY <1>1, <1>2 DEF RefreshReuse

LEMMA ReactionGoes ==
    ASSUME ReqInv, NEW p \in Requests, req[p].kind = "reuse", req[p].step > 1, req[p].todo = {},
           \A r : Free(p, r), Statement(p) \/ Crash(p)
    PROVE  RevokeAll(p) \/ Finish(p)
<1>1. \A st : At(p, st) => st \in {"revokeFamily", "revokeSessions"}
  BY ReactionStatements
<1>2. ~ReadRow(p) /\ ~ReadToken(p) /\ ~Admit(p) /\ ~Refuse(p) /\ ~Challenge(p) /\ ~Consume(p)
  BY <1>1 DEF ReadRow, ReadToken, Admit, Refuse, Challenge, Consume
<1>3. ~SaveRow(p) /\ ~Rehash(p) /\ ~AddToken(p) /\ ~OpenSession(p)
  BY <1>1 DEF SaveRow, Rehash, AddToken, OpenSession
<1>4. ~RevokeWaits(p) /\ ~RevokeNext(p)
  BY DEF RevokeWaits, RevokeNext
<1>5. Commit(p) \/ DeadlockVictim(p) \/ Crash(p) => Finish(p)
  BY DEF Commit, DeadlockVictim, Crash
<1> QED
  BY <1>2, <1>3, <1>4, <1>5 DEF Statement

LEMMA ReactionRevokes ==
    ASSUME IInv, RowInv, FamilyInv, NEW p \in Requests, req[p].kind = "reuse", Reacts(p), RevokeAll(p)
    PROVE  Reacts(p)' /\ req'[p].kind = "reuse"
<1> USE SessionsAssumption
<1> DEFINE new == [r \in Targets(p) |-> Revoked(p, r)]
<1>1. Put(p, new) /\ Advance(p) /\ Revoking(p) /\ req[p].step \in Nat /\ req[p].step > 1
  BY DEF RevokeAll, Reacts, IInv, ReqInv, SoundReq
<1>2. /\ req'[p].kind = "reuse" /\ req'[p].step = req[p].step + 1 /\ req'[p].todo = {}
      /\ SessionOf(p)' = SessionOf(p)
  BY <1>1, Advances DEF IInv, GoesOn, Reacts, SessionOf, Copy
<1>3. /\ db' = db /\ Wrote(p)' = Wrote(p) \cup DOMAIN new
      /\ \A r \in Wrote(p)' : draft'[p][r] = IF r \in DOMAIN new THEN new[r] ELSE draft[p][r]
  BY <1>1, PutEffect DEF IInv
<1>4. /\ \A r \in Targets(p) : Seen(p, r)' = Revoked(p, r)
      /\ \A r : r \notin Targets(p) => Seen(p, r)' = Seen(p, r)
  BY <1>3 DEF Seen
<1>5. /\ \A s \in Sessions : Revoked(p, s).state = "revoked"
      /\ \A t \in Tokens : Revoked(p, t).state = "revoked"
  <2>1. ASSUME NEW s \in Sessions PROVE Revoked(p, s).state = "revoked"
    <3>1. Seen(p, s) \in SessionRows
      BY SeenTyped, RowValues
    <3> QED
      BY <3>1 DEF Revoked, SessionRows
  <2>2. ASSUME NEW t \in Tokens PROVE Revoked(p, t).state = "revoked"
    <3>1. Seen(p, t) \in TokenRows
      BY SeenTokens DEF IInv
    <3> QED
      BY <3>1 DEF Revoked, TokenRows
  <2> QED
    BY <2>1, <2>2
<1>6. PICK st : At(p, st)
  BY <1>1 DEF Revoking
<1>7. /\ req[p].step = 2 \/ req[p].step = 3
      /\ req[p].step = 2 => \A x : At(p, x) <=> x = "revokeFamily"
      /\ req[p].step = 3 => \A x : At(p, x) <=> x = "revokeSessions"
  <2>1. \A x : At(p, x) => x = st
    BY <1>6 DEF At
  <2>2. \/ st = "revokeFamily" /\ req[p].step = 2
        \/ st = "revokeSessions" /\ req[p].step = 3
    BY <1>1, <1>6, ReactionStatements DEF IInv
  <2> QED
    BY <1>6, <2>1, <2>2
<1>8. CASE req[p].step = 2
  <2>1. Targets(p) = Unrevoked(p, FamilyOf(p)) /\ Wrote(p) = {}
    BY <1>7, <1>8 DEF Targets, Reacts
  <2>2. ASSUME NEW t \in Tokens, db'[t].session = SessionOf(p)' PROVE Seen(p, t)'.state # "active"
    <3>1. CASE t \in Targets(p)
      BY <1>4, <1>5, <3>1
    <3>2. CASE t \notin Targets(p)
      <4>1. Seen(p, t).session = SessionOf(p)
        BY <1>2, <1>3, <2>1, <2>2 DEF Seen
      <4>2. Seen(p, t).state \notin {"live", "active"}
        BY <2>1, <3>2, <4>1 DEF Unrevoked, FamilyOf
      <4> QED
        BY <1>4, <3>2, <4>2
    <3> QED
      BY <3>1, <3>2
  <2>3. req'[p].step = 3
    BY <1>2, <1>8
  <2> QED
    BY <1>2, <2>2, <2>3 DEF Reacts
<1>9. CASE req[p].step = 3
  <2>1. Targets(p) = Unrevoked(p, Sessions)
    BY <1>7, <1>9 DEF Targets
  <2>2. ASSUME NEW s \in Sessions PROVE Seen(p, s)'.state # "live"
    <3>1. CASE s \in Targets(p)
      BY <1>4, <1>5, <3>1
    <3>2. CASE s \notin Targets(p)
      BY <1>4, <2>1, <3>2 DEF Unrevoked
    <3> QED
      BY <3>1, <3>2
  <2>3. ASSUME NEW t \in Tokens, db'[t].session = SessionOf(p)' PROVE Seen(p, t)'.state # "active"
    <3>1. t \notin Targets(p)
      BY <2>1 DEF Unrevoked
    <3>2. Seen(p, t).state # "active"
      BY <1>2, <1>3, <1>9, <2>3 DEF Reacts
    <3> QED
      BY <1>4, <3>1, <3>2
  <2>4. req'[p].step = 4
    BY <1>2, <1>9
  <2> QED
    BY <1>2, <2>2, <2>3, <2>4 DEF Reacts
<1> QED
  BY <1>7, <1>8, <1>9

LEMMA ReplayStatement ==
    ASSUME IInv, RowInv, FamilyInv, Alone, \A q \in Requests : Replays(q),
           NEW p \in Requests, Statement(p) \/ Crash(p)
    PROVE  Alone' /\ \A q \in Requests : Replays(q)'
<1>1. /\ \/ \E st, kind, step : Standing(p, st, kind, step)
         \/ \E st, step, new : Writing(p, st, step, new)
         \/ Ending(p)
      /\ req[p].kind # "idle"
  <2>1. \/ \E st, kind, step : Standing(p, st, kind, step)
        \/ \E st, step, new : Writing(p, st, step, new)
        \/ Ending(p)
    BY StatementForms DEF IInv
  <2> QED
    BY <2>1 DEF Standing, Writing, Ending, At
<1>2. \A q \in Requests \ {p} : req[q].kind = "idle" /\ Wrote(q) = {}
  BY <1>1 DEF Alone, RowInv, InOrder
<1>3. \A q \in Requests \ {p} : req'[q] = req[q]
  BY <1>1, Finishes DEF Standing, Writing, Ending, GoesOn, IInv
<1>4. Alone' /\ \A q \in Requests \ {p} : Replays(q)'
  BY <1>2, <1>3 DEF Alone, Replays
<1>5. CASE Finish(p)
  <2>1. req'[p].kind = "idle"
    BY <1>5, Finishes, IdleFields DEF IInv
  <2> QED
    BY <1>4, <2>1 DEF Replays
<1>6. CASE ~Finish(p) /\ req[p].kind = "reuse"
  <2>1. \A r : Free(p, r)
    BY <1>2 DEF Free
  <2>2. Reacts(p)
    BY <1>6 DEF Replays
  <2>3. RevokeAll(p)
    BY <1>6, <2>1, <2>2, ReactionGoes DEF Reacts, IInv
  <2>4. Reacts(p)' /\ req'[p].kind = "reuse"
    BY <1>6, <2>2, <2>3, ReactionRevokes
  <2> QED
    BY <1>4, <2>4 DEF Replays
<1>7. CASE ~Finish(p) /\ req[p].kind # "reuse"
  <2>1. ASSUME NEW st, NEW kind, NEW step, Standing(p, st, kind, step) PROVE Replays(p)'
    <3>1. /\ At(p, st) /\ Place(req[p].kind, req[p].step, st) /\ req[p].step \in Nat \ {0}
          /\ req'[p].kind = kind /\ req'[p].step = step /\ Wrote(p)' = Wrote(p)
      BY <2>1, PlaceOf DEF Standing, GoesOn, IInv, ReqInv, SoundReq, dbVars, Wrote
    <3>2. ASSUME kind = "reuse" PROVE Reacts(p)'
      <4>1. st = "readToken" /\ req[p].kind = "refresh" /\ req[p].step = 1
        BY <1>7, <2>1, <3>1, <3>2 DEF Standing, Place
      <4>2. step = 2 /\ req'[p].todo = {}
        BY <2>1, <4>1 DEF Standing, Revocations, GoesOnWaiting, Revoking, At
      <4>3. Wrote(p)' = {}
        BY <3>1, <4>1 DEF Replays
      <4> QED
        BY <3>1, <4>2, <4>3 DEF Reacts
    <3>3. ~(kind = "refresh" /\ step = 1)
      <4> SUFFICES ASSUME kind = "refresh", step = 1 PROVE FALSE
        OBVIOUS
      <4>1. req[p].step = 1 /\ req[p].kind = "refresh"
        BY <2>1, <3>1 DEF Standing
      <4>2. st = "readToken"
        BY <3>1, <4>1 DEF Place, Presented
      <4> QED
        BY <2>1, <4>1, <4>2 DEF Standing, Revocations
    <3> QED
      BY <3>1, <3>2, <3>3 DEF Replays
  <2>2. ASSUME NEW st, NEW step, NEW new, Writing(p, st, step, new) PROVE Replays(p)'
    <3>1. /\ At(p, st) /\ Place(req[p].kind, req[p].step, st) /\ req[p].step \in Nat \ {0}
          /\ req'[p].kind = req[p].kind /\ req'[p].step = step
      BY <2>2, PlaceOf DEF Writing, GoesOn, IInv, ReqInv, SoundReq
    <3>2. st # "readToken"
      BY <2>2 DEF Writing, Contents, Revocations
    <3>3. ~(req[p].kind = "refresh" /\ step = 1)
      BY <2>2, <3>1, <3>2 DEF Writing, Place, Presented
    <3> QED
      BY <1>7, <3>1, <3>3 DEF Replays
  <2> QED
    BY <1>1, <1>4, <1>7, <2>1, <2>2 DEF Ending
<1> QED
  BY <1>5, <1>6, <1>7

LEMMA ReplayArrival ==
    ASSUME IInv, RowInv, \A q \in Requests : Replays(q), ~overlapped',
           NEW p \in Requests, Present(p) \/ SignIn(p) \/ ChangeAccount(p)
    PROVE  Alone' /\ \A q \in Requests : Replays(q)'
<1>1. PICK kind, token, password : Begin(p, kind, token, password)
  BY Arrivals
<1>2. \A q \in Requests : req[q].kind = "idle" /\ Wrote(q) = {}
  BY <1>1 DEF Begin, RowInv, InOrder
<1>3. /\ \A q \in Requests \ {p} : req'[q] = req[q]
      /\ kind \in DOMAIN Script \ {"reuse", "idle"}
  BY <1>1, Begins DEF IInv
<1>4. req'[p].kind = kind
  <2> DEFINE q == [Idle EXCEPT !.kind = kind, !.id = begun + 1, !.token = token,
                               !.password = password]
  <2>1. q.kind = kind
    BY DEF Idle
  <2>2. req'[p] = q
    BY <1>1 DEF Begin, IInv, ReqInv
  <2> QED
    BY <2>1, <2>2
<1>5. \A q \in Requests : Wrote(q)' = {}
  BY <1>1, <1>2 DEF Begin, dbVars, Wrote
<1> QED
  BY <1>2, <1>3, <1>4, <1>5 DEF Alone, Replays

LEMMA OverlapStays ==
    ASSUME NEW p \in Requests, Present(p) \/ SignIn(p) \/ ChangeAccount(p) \/ Statement(p) \/ Crash(p),
           overlapped
    PROVE  overlapped'
<1>1. CASE Present(p) \/ SignIn(p) \/ ChangeAccount(p)
  BY <1>1 DEF Present, SignIn, ChangeAccount, Begin
<1>2. CASE ReadRow(p) \/ ReadToken(p) \/ Admit(p) \/ Refuse(p) \/ Challenge(p) \/ Consume(p)
  BY <1>2 DEF ReadRow, Keep, ReadToken, Admit, Refuse, Challenge, Consume, envVars
<1>3. CASE SaveRow(p) \/ Rehash(p) \/ AddToken(p) \/ OpenSession(p)
  BY <1>3 DEF SaveRow, Write, Rehash, AddToken, OpenSession, envVars
<1>4. CASE RevokeAll(p) \/ RevokeWaits(p) \/ RevokeNext(p)
  BY <1>4 DEF RevokeAll, RevokeWaits, RevokeNext, envVars
<1>5. CASE Commit(p) \/ DeadlockVictim(p) \/ Crash(p)
  BY <1>5 DEF Commit, DeadlockVictim, Crash, envVars
<1> QED
  BY <1>1, <1>2, <1>3, <1>4, <1>5 DEF Statement

LEMMA ReplayStep ==
    ASSUME IInv, RowInv, FamilyInv, ReplayInv, [Next]_vars
    PROVE  ReplayInv'
<1>1. CASE UNCHANGED vars
  <2>1. db' = db /\ draft' = draft /\ req' = req /\ overlapped' = overlapped
    BY <1>1 DEF vars, stateVars
  <2> QED
    BY <2>1 DEF ReplayInv, InTurn, Alone, Replays, Reacts, Seen, SessionOf, Copy, Wrote
<1>2. CASE Next
  <2> SUFFICES ASSUME ~overlapped' PROVE Alone' /\ \A q \in Requests : Replays(q)'
    BY DEF ReplayInv, InTurn
  <2>1. PICK p \in Requests :
          Present(p) \/ SignIn(p) \/ ChangeAccount(p) \/ Statement(p) \/ Crash(p)
    BY <1>2 DEF Next
  <2>2. ~overlapped
    BY <2>1, OverlapStays
  <2>3. Alone /\ \A q \in Requests : Replays(q)
    BY <2>2 DEF ReplayInv, InTurn
  <2> QED
    BY <2>1, <2>3, ReplayStatement, ReplayArrival
<1> QED
  BY <1>1, <1>2

LEMMA InitReplay == Init => ReplayInv
<1> SUFFICES ASSUME Init PROVE ReplayInv
  OBVIOUS
<1>1. \A p \in Requests : req[p].kind = "idle"
  BY IdleFields DEF Init
<1> QED
  BY <1>1 DEF ReplayInv, Alone, Replays

(* When a replayed token has been noticed and the reaction is committed, no *)
(* token of its family and no session of the account is left to use, when   *)
(* requests come one at a time.  (RefreshSession, was_already_rotated.)     *)
THEOREM ReplayIsAnswered == Spec => ReplayEndsEverything
<1> DEFINE Answered == \A p \in Requests : InTurn /\ ReactsToReplay(p) =>
               /\ \A s \in Sessions : db'[s].state # "live"
               /\ \A t \in Tokens : db[t].session = SessionOf(p) => db'[t].state # "active"
           AllInv == IInv /\ RowInv /\ FamilyInv /\ ReplayInv
<1>1. AllInv /\ [Next]_vars => Answered
  <2> SUFFICES ASSUME IInv, RowInv, FamilyInv, ReplayInv, [Next]_vars,
                      NEW p \in Requests, InTurn, ReactsToReplay(p)
               PROVE  /\ \A s \in Sessions : db'[s].state # "live"
                      /\ \A t \in Tokens : db[t].session = SessionOf(p) => db'[t].state # "active"
    OBVIOUS
  <2>1. Alone /\ Replays(p) /\ req[p].kind = "reuse" /\ req[p].step = 4 /\ db' # db
    BY DEF ReplayInv, ReactsToReplay
  <2>2. PICK q \in Requests :
                 \/ \E kind, token, password : Begin(q, kind, token, password)
                 \/ \E st, kind, step : Standing(q, st, kind, step)
                 \/ \E st, step, new : Writing(q, st, step, new)
                 \/ Ending(q)
    BY <2>1, StepForms DEF vars, stateVars
  <2>3. Ending(q) /\ q = p
    BY <2>1, <2>2 DEF Begin, Standing, Writing, Put, dbVars, Ending, Alone
  <2>4. CommitRows(p)
    BY <2>1, <2>3, EndEffect DEF Ending, IInv
  <2>5. \A r \in Rows : db'[r] = Seen(p, r)
    BY <2>4, EndEffect DEF IInv
  <2>6. 4 > 2 /\ 4 > 3
    OBVIOUS
  <2>7. /\ \A t \in Tokens : db[t].session = SessionOf(p) => Seen(p, t).state # "active"
        /\ \A s \in Sessions : Seen(p, s).state # "live"
    BY <2>1, <2>6 DEF Replays, Reacts
  <2> QED
    BY <2>5, <2>7, SessionsAssumption
<1>2. AllInv /\ [Next]_vars => AllInv'
  BY StepSound, RowStep, FamilyStep, ReplayStep
<1>3. Init => AllInv
  BY InitSound, InitRows, InitFamily, InitReplay
<1>4. AllInv /\ [Next]_vars => [Answered]_db
  BY <1>1
<1>5. Spec => [][Answered]_db
  BY <1>2, <1>3, <1>4, PTL DEF Spec
<1> QED
  BY <1>5 DEF ReplayEndsEverything

=============================================================================
