------------------------------- MODULE Accounts -------------------------------
(***************************************************************************)
(* Accounts and the ways into them: registration, a password or a provider's*)
(* subject as an identity of the account, TOTP methods, and the lockout     *)
(* after failed sign-ins (application/identity, and CreateUser of           *)
(* application/platform_authz/manage_users.py).                             *)
(*                                                                          *)
(* A row of identities comes with its credential or its oauth_accounts row  *)
(* and is one row with it here.  The sessions, tokens, links and MFA        *)
(* challenges that these requests also create are Sessions'.  Requests      *)
(* refused for the input alone (a weak password, a wrong code, a rate       *)
(* limit) write nothing and are left out.                                   *)
(***************************************************************************)
EXTENDS UnitOfWork

CONSTANTS
    Addresses,           \* e-mail addresses, placeholders included
    Subjects,            \* accounts at the OAuth provider
    Placeholder,         \* <provider>-<subject>@oauth.invalid, of each subject
    MaxFailedAttempts    \* lockout.max_failed_attempts

ASSUME AccountsAssumption ==
    /\ Placeholder \in [Subjects -> Addresses]
    /\ MaxFailedAttempts \in Nat \ {0}

-----------------------------------------------------------------------------
(* 0 is the account, the method and the attempt that were there at first; a *)
(* request's new ones have its number. *)
Users == Numbers
Nobody == MaxRequests + 1

User(u) == <<"user", u>>
Address(a) == <<"address", a>>           \* users.email, as its unique index has it
PasswordWay(u) == <<"password", u>>
OAuthWay(s) == <<"oauth", s>>
Method(n) == <<"method", n>>
Attempt(n) == <<"attempt", n>>
Lockout(n) == <<"lockout", n>>

UserRows == {User(u) : u \in Users} \cup {Address(a) : a \in Addresses}
PasswordWays == {PasswordWay(u) : u \in Users}
WayRows == PasswordWays \cup {OAuthWay(s) : s \in Subjects}
MethodRows == {Method(n) : n \in Numbers}
AttemptRows == {Attempt(n) : n \in Numbers}
LockoutRows == {Lockout(n) : n \in Numbers}
AccountRows == UserRows \cup WayRows \cup MethodRows \cup AttemptRows \cup LockoutRows

AccountStatus == {"absent", "pending", "active", "suspended", "deactivated"}
Owners == Users \cup {Nobody}
Ways == [of : Owners, active : BOOLEAN]
Methods == [of : Owners, verified : BOOLEAN, primary : BOOLEAN]
Attempts == [result : {"none", "success", "invalid_credentials", "mfa_failed"},
             of : Owners, address : Addresses]
Lockouts == [of : Owners, active : BOOLEAN]

AccountValues(r) ==
    CASE r[1] = "user"    -> AccountStatus
      [] r[1] = "address" -> Owners
      [] r \in WayRows    -> Ways
      [] r[1] = "method"  -> Methods
      [] r[1] = "attempt" -> Attempts
      [] r[1] = "lockout" -> Lockouts

-----------------------------------------------------------------------------
(* Requests.  The user of a session is still there; the holder of an MFA    *)
(* challenge gave a password and has a method.  Nothing routes to linking   *)
(* or unlinking yet. *)
There(u) == db[User(u)] # "absent"
OwnedBy(u, rows) == {r \in rows : db[r].of = u}

VisitorRoutes(p) ==
    \E a \in Addresses :
        \/ Begin(p, "register", a, << UserRows >>)
        \/ Begin(p, "create_user", a, << UserRows >>)
        \/ \E right \in BOOLEAN :
               Begin(p, "login", [address |-> a, right |-> right],
                     << UserRows, LockoutRows, PasswordWays, MethodRows >>)

CallbackRoutes(p) ==
    \E s \in Subjects, a \in Addresses :
        Begin(p, "oauth", [subject |-> s, address |-> a], << {OAuthWay(s)}, UserRows >>)

SignedInRoutes(p) ==
    \E u \in Users :
        /\ There(u)
        /\ \/ \E s \in Subjects :
                  Begin(p, "link_oauth", [subject |-> s, user |-> u],
                        << {OAuthWay(s)}, {User(u)} >>)
           \/ \E w \in OwnedBy(u, WayRows) :
                  Begin(p, "unlink_oauth", [way |-> w, user |-> u], << WayRows >>)
           \/ Begin(p, "start_totp", u, << {User(u)} >>)
           \/ \E m \in OwnedBy(u, MethodRows) :
                  Begin(p, "confirm_totp", m, << {m}, MethodRows >>)
           \/ /\ \E m \in OwnedBy(u, MethodRows) : db[m].verified
              /\ \E right \in BOOLEAN :
                     Begin(p, "verify_mfa", [user |-> u, right |-> right],
                           << UserRows, MethodRows >>)

AccountRoutes(p) == VisitorRoutes(p) \/ CallbackRoutes(p) \/ SignedInRoutes(p)

-----------------------------------------------------------------------------
(* Registration.  The index refuses an address that was taken meanwhile,    *)
(* that of a deleted account too. *)
Holder(p, a) == Copy(p, Address(a))

NewWay(p, w, u) ==
    /\ Seen(p, w).of = Nobody
    /\ SaveRow(p, w, [of |-> u, active |-> TRUE])

OpenAccount(p, status, a, w) ==
    /\ Seen(p, Address(a)) = Nobody /\ Seen(p, w).of = Nobody
    /\ Save(p, [x \in {User(Id(p)), Address(a), w} |->
                   CASE x = User(Id(p)) -> status
                     [] x = Address(a)  -> Id(p)
                     [] x = w           -> [of |-> Id(p), active |-> TRUE]])

(* For an address that has an account it only writes an audit row. *)
RegisterUser(p) ==
    /\ Decides(p, "register")
    /\ Holder(p, Arg(p)) = Nobody
    /\ OpenAccount(p, "pending", Arg(p), PasswordWay(Id(p)))

CreateUser(p) ==
    /\ Decides(p, "create_user")
    /\ Holder(p, Arg(p)) = Nobody
    /\ OpenAccount(p, "active", Arg(p), PasswordWay(Id(p)))

-----------------------------------------------------------------------------
(* OAuth.  save() of an identity writes revoked_at as it was read, save()   *)
(* of a user the status. *)
LoginExisting(p) ==
    LET w == OAuthWay(Arg(p).subject)
        u == Copy(p, w).of
    IN  /\ Decides(p, "oauth")
        /\ u # Nobody /\ Copy(p, w).active
        /\ Copy(p, User(u)) = "active"
        /\ Save(p, [x \in {w, User(u)} |-> Copy(p, x)])

(* The provider has verified the address; a profile without one gets the    *)
(* placeholder, which nobody looks up first. *)
RegisterViaOAuth(p) ==
    LET w == OAuthWay(Arg(p).subject) IN
    /\ Decides(p, "oauth")
    /\ Copy(p, w).of = Nobody
    /\ IF Arg(p).address = Placeholder[Arg(p).subject]
       THEN OpenAccount(p, "pending", Arg(p).address, w)
       ELSE Holder(p, Arg(p).address) = Nobody /\ OpenAccount(p, "active", Arg(p).address, w)

LinkAgain(p) ==                                                   \* mutant
    /\ Decides(p, "link_oauth")
    /\ ~Copy(p, OAuthWay(Arg(p).subject)).active
    /\ Copy(p, User(Arg(p).user)) # "absent"
    /\ SaveRow(p, OAuthWay(Arg(p).subject), [of |-> Arg(p).user, active |-> TRUE])
LinkToCurrentUser(p) ==
    /\ Decides(p, "link_oauth")
    /\ Copy(p, OAuthWay(Arg(p).subject)).of = Nobody
    /\ Copy(p, User(Arg(p).user)) # "absent"
    /\ NewWay(p, OAuthWay(Arg(p).subject), Arg(p).user)

OtherThan(p) == {w \in WayRows \ {Arg(p).way} : Copy(p, w).of = Arg(p).user}
UnlinkCountsRevoked(p) ==                                         \* mutant
    /\ Decides(p, "unlink_oauth")
    /\ OtherThan(p) # {}
    /\ SaveRow(p, Arg(p).way, [Copy(p, Arg(p).way) EXCEPT !.active = FALSE])
UnlinkOAuthAccount(p) ==
    /\ Decides(p, "unlink_oauth")
    /\ \E w \in OtherThan(p) : Copy(p, w).active
    /\ SaveRow(p, Arg(p).way, [Copy(p, Arg(p).way) EXCEPT !.active = FALSE])

-----------------------------------------------------------------------------
(* TOTP.  The first method confirmed is the primary one. *)
MethodsOf(p, u) == {m \in MethodRows : Copy(p, m).of = u}

StartTotpEnrollment(p) ==
    /\ Decides(p, "start_totp")
    /\ Copy(p, User(Arg(p))) # "absent"
    /\ SaveRow(p, Method(Id(p)), [of |-> Arg(p), verified |-> FALSE, primary |-> FALSE])

ConfirmTotpEnrollment(p) ==
    /\ Decides(p, "confirm_totp")
    /\ LET method == Copy(p, Arg(p))
           first == \A m \in MethodsOf(p, method.of) : ~Copy(p, m).primary
       IN  SaveRow(p, Arg(p), [method EXCEPT !.verified = TRUE, !.primary = @ \/ first])

-----------------------------------------------------------------------------
(* Signing in with a password, and a second factor where there is one. *)
(* The attempt, a row of its own, and with it the rows `used`, as they were  *)
(* read. *)
Tried(p, used, result, u, a) ==
    [x \in {Attempt(Id(p))} \cup used |->
        IF x = Attempt(Id(p)) THEN [result |-> result, of |-> u, address |-> a] ELSE Copy(p, x)]
Usable(p, u) == {m \in MethodsOf(p, u) : Copy(p, m).verified}

CanAuthenticate(status) == status \notin {"absent", "suspended", "deactivated"}
LockedOut(p, u) == [of |-> u, active |-> TRUE] \in {Copy(p, l) : l \in LockoutRows}
PasswordOk(p, u) == Arg(p).right /\ Copy(p, PasswordWay(u)) = [of |-> u, active |-> TRUE]

(* With a usable method it writes nothing: it hands out a challenge. *)
LogIn(p) ==
    /\ Decides(p, "login")
    /\ LET u == Holder(p, Arg(p).address) IN
       /\ u # Nobody /\ ~LockedOut(p, u)
       /\ PasswordOk(p, u) /\ CanAuthenticate(Copy(p, User(u)))
       /\ Usable(p, u) = {}
       /\ Save(p, Tried(p, {User(u)}, "success", u, Arg(p).address))

(* The refused attempt is committed: the error is raised after the block.   *)
RefuseLogin(p) ==
    /\ Decides(p, "login")
    /\ LET u == Holder(p, Arg(p).address)
           try == Tried(p, {}, "invalid_credentials", u, Arg(p).address)
       IN  \/ u = Nobody /\ Save(p, try)
           \/ /\ u # Nobody /\ ~LockedOut(p, u)
              /\ ~(PasswordOk(p, u) /\ CanAuthenticate(Copy(p, User(u))))
              /\ SaveAndGoOn(p, try, "count_failures", << AttemptRows \ {Attempt(Id(p))} >>)

LockLater(n) == n > MaxFailedAttempts                             \* mutant
ShouldLock(n) == n >= MaxFailedAttempts

(* The failures of the address in the window, this one included. *)
Failures(p) ==
    1 + Cardinality({r \in AttemptRows \ {Attempt(Id(p))} :
            /\ Copy(p, r).result \notin {"none", "success"}
            /\ Copy(p, r).address = Arg(p).address})

RecordFailure(p) ==
    /\ Decides(p, "count_failures")
    /\ IF ShouldLock(Failures(p))
       THEN SaveRow(p, Lockout(Id(p)), [of |-> Holder(p, Arg(p).address), active |-> TRUE])
       ELSE Save(p, NoRows)

(* A failed code is an attempt that the next failed password counts; it     *)
(* looks at no lockout and makes none. *)
VerifyMfaChallenge(p) ==
    /\ Decides(p, "verify_mfa")
    /\ LET u == Arg(p).user
           address == CHOOSE a \in Addresses : Holder(p, a) = u
       IN  \/ ~Arg(p).right /\ Save(p, Tried(p, {}, "mfa_failed", u, address))
           \/ /\ Arg(p).right
              /\ \E m \in Usable(p, u) :
                     Save(p, Tried(p, {m, User(u)}, "success", u, address))

AccountUseCase(p) ==
    \/ RegisterUser(p) \/ CreateUser(p)
    \/ LoginExisting(p) \/ RegisterViaOAuth(p) \/ LinkToCurrentUser(p) \/ UnlinkOAuthAccount(p)
    \/ StartTotpEnrollment(p) \/ ConfirmTotpEnrollment(p)
    \/ LogIn(p) \/ RefuseLogin(p) \/ RecordFailure(p) \/ VerifyMfaChallenge(p)

=============================================================================
