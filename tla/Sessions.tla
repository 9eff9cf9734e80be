------------------------------ MODULE Sessions ------------------------------
(***************************************************************************)
(* One account's sign-ins: the user row with its security stamp, the        *)
(* password, the sessions and the refresh tokens, and the use cases of      *)
(* application/identity and platform_authz/manage_users.py that write them, *)
(* run concurrently, one SQL statement at a time.                           *)
(*                                                                          *)
(* The repositories' save() is an UPDATE of every column with what the      *)
(* request read; revoke_family and revoke_all_for_user are UPDATEs WHERE    *)
(* revoked_at IS NULL.  A token family is a session's: LoginUser starts one *)
(* of each and RefreshSession keeps both.  Expiry and rate limits refuse a  *)
(* request before it writes and are left out, as are audit rows.            *)
(***************************************************************************)
EXTENDS ReadCommitted, Sequences

CONSTANTS
    User, Credential, ResetLink, EmailLink,     \* rows of their own tables
    Sessions, Tokens,                           \* rows of sessions, refresh_tokens
    None,
    UseCases,        \* the use cases this instance runs
    MaxRequests,  \* bound: requests begun
    MaxFailures   \* bound: requests cut short

ASSUME SessionsAssumption ==
    /\ Rows = {User, Credential, ResetLink, EmailLink} \cup Sessions \cup Tokens
    /\ User # Credential /\ User # ResetLink /\ User # EmailLink
    /\ Credential # ResetLink /\ Credential # EmailLink /\ ResetLink # EmailLink
    /\ {User, Credential, ResetLink, EmailLink} \cap (Sessions \cup Tokens) = {}
    /\ Sessions \cap Tokens = {}
    /\ None \notin Rows
    /\ Cardinality(Sessions) > MaxRequests /\ Cardinality(Tokens) > MaxRequests
    /\ MaxRequests \in Nat /\ MaxFailures \in Nat

VARIABLES
    req,          \* each request: its use case, next statement, what it read
    mfa,          \* whether the account has a usable MFA method
    challenges,   \* MFA challenges in Redis, by the login that made them
    begun,        \* how many requests have begun (bound)
    failures,     \* how many were cut short (bound)
    overlapped,   \* history: two have been in progress at the same time
    overwritten   \* history: rows saved over a change the request had not read

envVars == <<mfa, challenges, begun, failures, overlapped>>
stateVars == <<db, draft, req, mfa, challenges, begun, failures, overlapped>>
vars == <<stateVars, overwritten>>

-----------------------------------------------------------------------------
Statuses == {"pending", "active", "suspended", "deactivated"}

(* A new stamp, a new password and the use of a link are named after the    *)
(* request that made them; 0 is the one the account starts with.            *)
Numbers == 0..MaxRequests

(* `password` of a session is history: the one its sign-in was checked      *)
(* against, None where none was (OAuth, an MFA challenge answered later).   *)
UserRows == [status : Statuses, stamp : Numbers]
Credentials == [password : Numbers, oldHash : BOOLEAN]
LinkRows == [used : Numbers]
SessionRows == [state : {"absent", "live", "revoked"}, stamp : Numbers,
                password : Numbers \cup {None}]
TokenRows == [state : {"absent", "active", "rotated", "revoked"},
              session : Sessions \cup {None}, by : Tokens \cup {None}]

ValuesOf(r) ==
    CASE r = User -> UserRows
      [] r = Credential -> Credentials
      [] r \in {ResetLink, EmailLink} -> LinkRows
      [] r \in Sessions -> SessionRows
      [] r \in Tokens -> TokenRows

CanAuthenticate(u) == u.status \in {"pending", "active"}
IsValid(s, u) == s.state = "live" /\ s.stamp = u.stamp
WasAlreadyRotated(t) == t.state = "rotated"
LinkIsValid(l) == l.used = 0

-----------------------------------------------------------------------------
(* The statements of each use case, in order; a commit follows the last.    *)
(* RefreshSession of a rotated token goes on as RefreshReuse.               *)
LoginUser == <<"readUser", "readCredential", "rehash", "admit", "challenge", "saveUser", "open">>
CompleteOAuthLogin == <<"readUser", "admit", "saveUser", "open">>
VerifyMfaChallenge == <<"readUser", "consume", "saveUser", "open">>
RefreshKeepsNoToken ==                                            \* mutant
    <<"readToken", "readSession", "readUser", "admit", "saveToken", "saveSession">>
RefreshSession ==
    <<"readToken", "readSession", "readUser", "admit", "addToken", "saveToken", "saveSession">>
RefreshReuse == <<"readToken", "revokeFamily", "revokeSessions">>
Logout == <<"readToken", "revokeFamily", "readSession", "saveSession">>
LogoutAllDevices == <<"readUser", "saveUser", "revokeSessions", "revokeTokens">>
UpdateUser == <<"readUser", "admit", "saveUser", "revokeSessions", "revokeTokens">>
SuspendUser == <<"readUser", "admit", "saveUser", "revokeSessions", "revokeTokens">>
ReactivateUser == <<"readUser", "admit", "saveUser">>
DeleteUser == <<"readUser", "admit", "saveUser", "revokeSessions", "revokeTokens">>
VerifyEmail == <<"readEmailLink", "admit", "readUser", "saveEmailLink", "saveUser">>
ChangeMyPassword ==
    <<"readUser", "readCredential", "admit", "saveCredential", "saveUser", "revokeSessions",
      "revokeTokens">>
ResetPassword ==
    <<"readResetLink", "admit", "readUser", "readCredential", "saveCredential",
      "saveResetLink", "saveUser", "revokeSessions", "revokeTokens">>

Script ==
    [login      |-> LoginUser,         oauth      |-> CompleteOAuthLogin,
     mfa        |-> VerifyMfaChallenge, refresh   |-> RefreshSession,
     reuse      |-> RefreshReuse,      logout     |-> Logout,
     logout_all |-> LogoutAllDevices,  email      |-> UpdateUser,
     suspend    |-> SuspendUser,       reactivate |-> ReactivateUser,
     delete     |-> DeleteUser,        verify     |-> VerifyEmail,
     change     |-> ChangeMyPassword,  reset      |-> ResetPassword]

ASSUME UseCasesAssumption == UseCases \subseteq DOMAIN Script \ {"reuse"}

(* uuid4: which of the unused identities it is makes no difference. *)
AnyOf(ids) == CHOOSE r \in ids : TRUE

NewToken(s) == [state |-> "active", session |-> s, by |-> None]

(* The rows as the account's owner first signed in. *)
Account(status, old) ==
    [r \in Rows |->
        CASE r = User       -> [status |-> status, stamp |-> 0]
          [] r = Credential -> [password |-> 0, oldHash |-> old]
          [] r \in Sessions -> IF r = AnyOf(Sessions)
                               THEN [state |-> "live", stamp |-> 0, password |-> 0]
                               ELSE [state |-> "absent", stamp |-> 0, password |-> None]
          [] r \in Tokens   -> IF r = AnyOf(Tokens) THEN NewToken(AnyOf(Sessions))
                               ELSE [state |-> "absent", session |-> None, by |-> None]
          [] OTHER          -> [used |-> 0]]

(* `copy` is what the request has read; no statement uses a row before its  *)
(* read, so what it holds until then makes no difference.                   *)
Idle == [kind |-> "idle", step |-> 1, id |-> 0, token |-> None, password |-> None,
         new |-> None, copy |-> Account("active", FALSE), todo |-> {}]

At(p, statement) ==
    /\ req[p].kind # "idle"
    /\ req[p].step <= Len(Script[req[p].kind])
    /\ Script[req[p].kind][req[p].step] = statement

Advance(p) == req' = [req EXCEPT ![p].step = @ + 1]
Finish(p) == req' = [req EXCEPT ![p] = Idle]

Copy(p, r) == req[p].copy[r]
SessionOf(p) == Copy(p, req[p].token).session

Init ==
    /\ \E status \in {"pending", "active"}, old \in BOOLEAN : DbInit(Account(status, old))
    /\ req = [p \in Requests |-> Idle]
    /\ mfa \in BOOLEAN
    /\ challenges = {}
    /\ begun = 0
    /\ failures = 0
    /\ overlapped = FALSE
    /\ overwritten = {}

-----------------------------------------------------------------------------
(* A request arrives.  The token it presents is one that was handed out,    *)
(* the current one or an older one; the password is any the account had.    *)
Begin(p, kind, token, password) ==
    /\ kind \in UseCases /\ begun < MaxRequests
    /\ req[p].kind = "idle"
    /\ begun' = begun + 1
    /\ overlapped' = (overlapped \/ \E q \in Requests : req[q].kind # "idle")
    /\ req' = [req EXCEPT ![p] = [Idle EXCEPT !.kind = kind, !.id = begun + 1,
                                              !.token = token, !.password = password]]
    /\ UNCHANGED <<dbVars, mfa, challenges, failures>>

Present(p) ==
    \E kind \in {"refresh", "logout"}, t \in Tokens :
        db[t].state # "absent" /\ Begin(p, kind, t, None)

SignIn(p) ==
    \/ \E n \in 0..db[Credential].password : Begin(p, "login", None, n)
    \/ Begin(p, "oauth", None, None)
    \/ \E c \in challenges : Begin(p, "mfa", None, c)

ChangeAccount(p) ==
    \/ \E kind \in {"logout_all", "email", "suspend", "delete", "reactivate", "verify",
                    "reset"} : Begin(p, kind, None, None)
    \/ \E n \in 0..db[Credential].password : Begin(p, "change", None, n)

-----------------------------------------------------------------------------
(* Reads. *)
Keep(p, r) ==
    /\ req' = [req EXCEPT ![p].step = @ + 1,
                          ![p].copy[r] = Seen(p, r)]
    /\ UNCHANGED <<dbVars, envVars>>

ReadRow(p) ==
    \/ At(p, "readUser") /\ Keep(p, User)
    \/ At(p, "readCredential") /\ Keep(p, Credential)
    \/ At(p, "readResetLink") /\ Keep(p, ResetLink)
    \/ At(p, "readEmailLink") /\ Keep(p, EmailLink)
    \/ At(p, "readSession") /\ Keep(p, SessionOf(p))

(* A refresh that presents a rotated token becomes a revocation. *)
ReadToken(p) ==
    /\ At(p, "readToken")
    /\ LET t == Seen(p, req[p].token)
       IN  req' = [req EXCEPT ![p].step = @ + 1,
                       ![p].copy[req[p].token] = t,
                       ![p].kind = IF @ = "refresh" /\ WasAlreadyRotated(t)
                                   THEN "reuse" ELSE @]
    /\ UNCHANGED <<dbVars, envVars>>

(* What each use case asks of what it read. *)
LoginAdmitsAnyPassword(p) == CanAuthenticate(Copy(p, User))      \* mutant
LoginAdmits(p) ==
    CanAuthenticate(Copy(p, User)) /\ req[p].password = Copy(p, Credential).password

RefreshAdmits(p) ==
    /\ Copy(p, req[p].token).state = "active"
    /\ IsValid(Copy(p, SessionOf(p)), Copy(p, User))

Admits(p) ==
    CASE req[p].kind = "login"   -> LoginAdmits(p)
      [] req[p].kind = "oauth"   -> Copy(p, User).status = "active"
      [] req[p].kind = "refresh" -> RefreshAdmits(p)
      [] req[p].kind = "change"  -> req[p].password = Copy(p, Credential).password
      [] req[p].kind = "reset"   -> LinkIsValid(Copy(p, ResetLink))
      [] req[p].kind = "verify"  -> LinkIsValid(Copy(p, EmailLink))
      [] OTHER                   -> Copy(p, User).status # "deactivated"

Admit(p) ==
    /\ At(p, "admit") /\ Admits(p)
    /\ Advance(p)
    /\ UNCHANGED <<dbVars, envVars>>

(* A refused login leaves its block normally and commits (a rehash, the     *)
(* record of the failure); every other refusal raises and rolls back.       *)
Refuse(p) ==
    /\ At(p, "admit") /\ ~Admits(p)
    /\ IF req[p].kind = "login" THEN CommitRows(p) ELSE DropRows(p)
    /\ Finish(p)
    /\ UNCHANGED envVars

(* With MFA a login ends in a challenge instead of a session. *)
Challenge(p) ==
    /\ At(p, "challenge")
    /\ IF mfa
       THEN challenges' = challenges \cup {req[p].id} /\ CommitRows(p) /\ Finish(p)
       ELSE Advance(p) /\ UNCHANGED <<dbVars, challenges>>
    /\ UNCHANGED <<mfa, begun, failures, overlapped>>

(* Redis is not part of the transaction: the challenge is gone even if the  *)
(* transaction does not commit.                                             *)
Consume(p) ==
    /\ At(p, "consume")
    /\ challenges' = challenges \ {req[p].password}
    /\ Advance(p)
    /\ UNCHANGED <<dbVars, mfa, begun, failures, overlapped>>

-----------------------------------------------------------------------------
(* Saves: the row the request read, with its change, every column of it. *)
VerifiedAnyStatus(u) == [u EXCEPT !.status = "active"]           \* mutant
Verified(u) == IF u.status = "pending" THEN [u EXCEPT !.status = "active"] ELSE u

UserAfter(p, u) ==
    CASE req[p].kind \in {"login", "oauth", "mfa"} -> u     \* last_login_at
      [] req[p].kind = "verify"     -> Verified(u)
      [] req[p].kind = "suspend"    -> [status |-> "suspended", stamp |-> req[p].id]
      [] req[p].kind = "delete"     -> [status |-> "deactivated", stamp |-> req[p].id]
      [] req[p].kind = "reactivate" -> [status |-> "active", stamp |-> req[p].id]
      [] OTHER                      -> [u EXCEPT !.stamp = req[p].id]

SessionAfter(p, s) ==
    IF req[p].kind = "logout" THEN [s EXCEPT !.state = "revoked"] ELSE s   \* touch

RotatedStillActive(p, t) == [t EXCEPT !.by = req[p].new]         \* mutant
Rotated(p, t) == [t EXCEPT !.state = "rotated", !.by = req[p].new]

Write(p, r, value) ==
    /\ Put(p, [x \in {r} |-> value])
    /\ Advance(p)
    /\ UNCHANGED envVars

SaveRow(p) ==
    \/ At(p, "saveUser") /\ Write(p, User, UserAfter(p, Copy(p, User)))
    \/ At(p, "saveCredential") /\ Write(p, Credential, [password |-> req[p].id, oldHash |-> FALSE])
    \/ At(p, "saveResetLink") /\ Write(p, ResetLink, [used |-> req[p].id])
    \/ At(p, "saveEmailLink") /\ Write(p, EmailLink, [used |-> req[p].id])
    \/ At(p, "saveToken") /\ Write(p, req[p].token, Rotated(p, Copy(p, req[p].token)))
    \/ At(p, "saveSession") /\ Write(p, SessionOf(p), SessionAfter(p, Copy(p, SessionOf(p))))

(* A correct password whose hash has old parameters is hashed again. *)
Rehashes(p) ==
    Copy(p, Credential).oldHash /\ req[p].password = Copy(p, Credential).password

Rehash(p) ==
    /\ At(p, "rehash")
    /\ IF Rehashes(p)
       THEN Put(p, [x \in {Credential} |-> [Copy(p, Credential) EXCEPT !.oldHash = FALSE]])
       ELSE UNCHANGED dbVars
    /\ Advance(p)
    /\ UNCHANGED envVars

(* Inserts, with identities nobody has. *)
Unused(rows) ==
    {r \in rows : db[r].state = "absent" /\ \A q \in Requests : r \notin Wrote(q)}

AddToken(p) ==
    /\ At(p, "addToken")
    /\ Unused(Tokens) # {}
    /\ LET t == AnyOf(Unused(Tokens))
       IN  /\ Put(p, [x \in {t} |-> NewToken(SessionOf(p))])
           /\ req' = [req EXCEPT ![p].new = t, ![p].step = @ + 1]
    /\ UNCHANGED envVars

OpenSession(p) ==
    /\ At(p, "open")
    /\ Unused(Sessions) # {} /\ Unused(Tokens) # {}
    /\ LET s == AnyOf(Unused(Sessions))
           t == AnyOf(Unused(Tokens))
       IN  Put(p, [x \in {s, t} |->
               IF x = t THEN NewToken(s)
               ELSE [state |-> "live", stamp |-> Copy(p, User).stamp,
                     password |-> IF req[p].kind = "login" THEN req[p].password ELSE None]])
    /\ Advance(p)
    /\ UNCHANGED envVars

-----------------------------------------------------------------------------
(* UPDATE ... WHERE revoked_at IS NULL: the rows that match when the        *)
(* statement starts, each tested again if it had to be waited for.          *)
OnlyPresented(p) == {req[p].token}                               \* mutant
FamilyOf(p) == {t \in Tokens : Seen(p, t).session = SessionOf(p)}

Unrevoked(p, rows) == {r \in rows : Seen(p, r).state \in {"live", "active"}}

Targets(p) ==
    CASE At(p, "revokeFamily")   -> Unrevoked(p, FamilyOf(p))
      [] At(p, "revokeSessions") -> Unrevoked(p, Sessions)
      [] At(p, "revokeTokens")   -> Unrevoked(p, Tokens)
      [] OTHER                   -> {}

Revoking(p) == At(p, "revokeFamily") \/ At(p, "revokeSessions") \/ At(p, "revokeTokens")
Revoked(p, r) == [Seen(p, r) EXCEPT !.state = "revoked"]

RevokeAll(p) ==
    /\ Revoking(p) /\ req[p].todo = {}
    /\ Put(p, [r \in Targets(p) |-> Revoked(p, r)])
    /\ Advance(p)
    /\ UNCHANGED envVars

(* Another transaction holds some of them. *)
RevokeWaits(p) ==
    /\ Revoking(p) /\ req[p].todo = {}
    /\ \E r \in Targets(p) : ~Free(p, r)
    /\ req' = [req EXCEPT ![p].todo = Targets(p)]
    /\ UNCHANGED <<dbVars, envVars>>

RevokeNext(p) ==
    /\ \E r \in req[p].todo :
        /\ Free(p, r)
        /\ IF r \in Unrevoked(p, {r}) THEN Put(p, [x \in {r} |-> Revoked(p, r)])
                                      ELSE UNCHANGED dbVars
        /\ req' = [req EXCEPT ![p].todo = @ \ {r},
                              ![p].step = IF req[p].todo = {r} THEN @ + 1 ELSE @]
    /\ UNCHANGED envVars

-----------------------------------------------------------------------------
Commit(p) ==
    /\ req[p].kind # "idle" /\ req[p].step > Len(Script[req[p].kind])
    /\ CommitRows(p)
    /\ Finish(p)
    /\ UNCHANGED envVars

(* What a request is waiting to write. *)
Wants ==
    [p \in Requests |->
        IF req[p].todo # {} THEN req[p].todo
        ELSE CASE At(p, "saveUser")       -> {User}
               [] At(p, "saveCredential") -> {Credential}
               [] At(p, "rehash")         -> IF Rehashes(p) THEN {Credential} ELSE {}
               [] At(p, "saveResetLink")  -> {ResetLink}
               [] At(p, "saveEmailLink")  -> {EmailLink}
               [] At(p, "saveToken")      -> {req[p].token}
               [] At(p, "saveSession")    -> {SessionOf(p)}
               [] OTHER                   -> {}]

DeadlockVictim(p) ==
    /\ Deadlocked(p, Wants)
    /\ DropRows(p)
    /\ Finish(p)
    /\ UNCHANGED envVars

Crash(p) ==
    /\ req[p].kind # "idle" /\ failures < MaxFailures
    /\ failures' = failures + 1
    /\ DropRows(p)
    /\ Finish(p)
    /\ UNCHANGED <<mfa, challenges, begun, overlapped>>

Statement(p) ==
    \/ ReadRow(p) \/ ReadToken(p) \/ Admit(p) \/ Refuse(p) \/ Challenge(p) \/ Consume(p)
    \/ SaveRow(p) \/ Rehash(p) \/ AddToken(p) \/ OpenSession(p)
    \/ RevokeAll(p) \/ RevokeWaits(p) \/ RevokeNext(p)
    \/ Commit(p) \/ DeadlockVictim(p)

(* The rows p is saving over a change it has not read.                      *)
Saves == {"saveUser", "saveCredential", "rehash", "saveResetLink", "saveEmailLink",
          "saveToken", "saveSession"}
SavedOver(p) ==
    {r \in DOMAIN draft'[p] \ Wrote(p) :
        db[r] # Copy(p, r) /\ \E statement \in Saves : At(p, statement)}

Next ==
    \E p \in Requests :
        /\ Present(p) \/ SignIn(p) \/ ChangeAccount(p) \/ Statement(p) \/ Crash(p)
        /\ overwritten' = overwritten \cup SavedOver(p)

Spec == Init /\ [][Next]_vars

(* PostgreSQL lets waiters through in turn and a live worker goes on to its *)
(* next statement.  Nobody has to make a request, and nothing has to fail.  *)
FairSpec == Spec /\ \A p \in Requests : SF_stateVars(Statement(p))

-----------------------------------------------------------------------------
(* A refresh token that was rotated or revoked is never good again, whoever *)
(* saves it late.  (RefreshToken.rotate, SqlRefreshTokenRepository.)        *)
DeadTokensStayDead ==
    [][\A t \in Tokens : db[t].state \in {"rotated", "revoked"}
                            => db'[t].state \in {"rotated", "revoked"}]_db

(* The client that made the last refresh of a session holds a token that is *)
(* not taken for a replay: some token of every session was never rotated,   *)
(* though the new token and the mark on the old one are two statements and  *)
(* two refreshes of one token may overlap.  (RefreshSession.)               *)
FamilyHasHead ==
    \A s \in Sessions : db[s].state # "absent" =>
        \E t \in Tokens : db[t].session = s /\ db[t].state \in {"active", "revoked"}

(* The saves write every column as read.  What a use case promises of the   *)
(* rows it saves is promised as long as none was saved over a change the    *)
(* saver had not read, however requests overlap: that is the only way to    *)
(* break it.                                                                *)
NoneOverwritten(rows) == rows \cap overwritten = {}

(* An account changes status only by the use case that says so: a suspended *)
(* or deleted account does not come back because somebody signed in or      *)
(* followed a link.  (SetUserStatus, DeleteUser, VerifyEmail.)              *)
StatusMoves(kind) ==
    CASE kind = "suspend"    -> {<<s, "suspended">> : s \in Statuses \ {"deactivated"}}
      [] kind = "reactivate" -> {<<s, "active">> : s \in Statuses \ {"deactivated"}}
      [] kind = "delete"     -> {<<s, "deactivated">> : s \in Statuses}
      [] kind = "verify"     -> {<<"pending", "active">>}
      [] OTHER               -> {}

Ends(p) == req[p].kind # "idle" /\ req'[p].kind = "idle"
StatusMovesOnPurpose ==
    [][NoneOverwritten({User}) /\ db'[User].status # db[User].status =>
         \E p \in Requests :
             Ends(p) /\ <<db[User].status, db'[User].status>> \in StatusMoves(req[p].kind)]_db

(* A password change ends every session that was signed in with the old     *)
(* one, and no login checked against the old one outlives it.               *)
(* (ChangeMyPassword, ResetPassword, LoginUser.)                            *)
SessionsFollowPassword ==
    NoneOverwritten({User, Credential}) =>
        \A s \in Sessions :
                  db[s].password # None /\ IsValid(db[s], db[User])
                      => db[s].password = db[Credential].password

(* When a replayed token has been noticed and the reaction is committed, no *)
(* token of its family and no session of the account is left to use.        *)
(* (RefreshSession, was_already_rotated.)  Only when nothing overlaps: what *)
(* another request inserts meanwhile is not among the rows revoked.         *)
InTurn == ~overlapped
ReactsToReplay(p) == req[p].kind = "reuse" /\ req[p].step = 4 /\ Ends(p) /\ db' # db
ReplayEndsEverything ==
    [][\A p \in Requests : InTurn /\ ReactsToReplay(p) =>
         /\ \A s \in Sessions : db'[s].state # "live"
         /\ \A t \in Tokens : db[t].session = SessionOf(p) => db'[t].state # "active"]_db

(* A session that was ended stays ended: logout "revokes the current        *)
(* session's refresh-token family + session row".  (Logout.)                *)
EndedSessionsStayEnded ==
    [][\A s \in Sessions : db[s].state = "revoked" => db'[s].state = "revoked"]_db

(* Every request ends, though saves take the rows in different orders.      *)
RequestsEnd == \A p \in Requests : req[p].kind # "idle" ~> req[p].kind = "idle"

=============================================================================
