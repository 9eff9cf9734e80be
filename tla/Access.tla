-------------------------------- MODULE Access --------------------------------
(***************************************************************************)
(* Who may do what and who gets in: a tenant's administration, the          *)
(* platform's, and the accounts, over one database, with requests that      *)
(* overlap.                                                                 *)
(***************************************************************************)
EXTENDS Platform, Accounts

CONSTANT Scenes      \* the databases an instance starts from, each with the use cases it runs

AccessRows == TenancyRows \cup PlatformRows \cup AccountRows

ValuesOf(r) ==
    IF r \in TenancyRows THEN TenancyValues(r)
    ELSE IF r \in PlatformRows THEN PlatformValues(r) ELSE AccountValues(r)

ASSUME AccessAssumption ==
    /\ Rows = AccessRows
    /\ \A s \in Scenes :
           /\ DOMAIN s.rows = Rows /\ s.runs \subseteq UseCases /\ s.already \in Numbers
           /\ \A r \in Rows : s.rows[r] \in ValuesOf(r)

VARIABLES
    given,       \* history: the codes the rows made available at first
    unseen       \* history: rows a request decided on, committed by another meanwhile

vars == <<uowVars, given, unseen>>

-----------------------------------------------------------------------------
(* What the rows make available: to a member, to the next one assigned, and *)
(* to who accepts an invitation. *)
RolesInUse(f) ==
    CustomRoles
        \cup {r \in SystemRoles : \E m \in Members : f[Grant(m, r)]}
        \cup {r \in SystemRoles : \E i \in Invitations :
                 f[Invitation(i)].status = "pending" /\ r \in f[Invitation(i)].roles}
StaffRolesInUse(f) ==
    PlatformCustomRoles \cup {r \in PlatformSystemRoles : \E u \in Staff : f[StaffGrant(u, r)]}

Available(f) ==
    UNION ({CodesOf(f, r) : r \in RolesInUse(f)}
               \cup {Overridden(f, m, "allow") : m \in Members}
               \cup {StaffCodesOf(f, r) : r \in StaffRolesInUse(f)})

Init ==
    /\ \E s \in Scenes :
           DbInit(s.rows) /\ runs = s.runs /\ given = Available(s.rows) /\ UowInit(s.already)
    /\ unseen = {}

(* What another request committed since p read what it decides on: the      *)
(* hierarchy, the account's ways in or its methods, the failed attempts.    *)
DecidedOn(p) ==
    CASE req[p].kind = "unlink_oauth"   -> WayRows
      [] req[p].kind = "confirm_totp"   -> MethodRows
      [] req[p].kind = "count_failures" -> AttemptRows
      [] OTHER                          -> Edges
Missed(p) == {r \in DecidedOn(p) \cap DOMAIN req[p].copy : db[r] # Copy(p, r)}

Ask1(p) ==
    /\ TenancyRoutes(p) \/ PlatformRoutes(p) \/ AccountRoutes(p)
    /\ UNCHANGED <<given, unseen>>

Step1(p) ==
    /\ Read(p) \/ TenancyUseCase(p) \/ PlatformUseCase(p) \/ AccountUseCase(p) \/ Abandon(p)
    /\ UNCHANGED <<given, unseen>>

Commit1(p) ==
    /\ Commit(p)
    /\ unseen' = unseen \cup Missed(p)
    /\ UNCHANGED given

Next == \E p \in Requests : Ask1(p) \/ Step1(p) \/ Commit1(p)

Spec == Init /\ [][Next]_vars

-----------------------------------------------------------------------------
(* A membership that was suspended or revoked, and a tenant that was        *)
(* suspended, is active again only because a request reactivated or         *)
(* restored it; renaming a person or a tenant never does it.  And a         *)
(* provider's subject that was unlinked opens no account ever again.  But   *)
(* for a row saved over a change its request had not read. *)
StatusMovesOnPurpose ==
    [][/\ \A w \in WayRows \ overwritten :
             (db[w].of # Nobody /\ ~db[w].active) => db'[w] = db[w]
       /\ \A x \in {Member(m) : m \in Members} \cup {Tenant(t) : t \in Tenants} :
          (/\ db[x].status \in {"suspended", "revoked"} /\ db'[x].status = "active"
           /\ x \notin overwritten)
              => \E p \in Requests :
                    /\ req[p].kind \in {"reactivate_member", "restore_member", "reactivate_tenant"}
                    /\ Ends(p)]_vars

(* No code is ever held, or offered by a role or an invitation, that was    *)
(* not at first: whatever requests overlap, an authority is handed on and   *)
(* never made up.  (The codes of a system role nobody has are offered by    *)
(* nobody.) *)
NoPowerFromNowhere == Available(db) \subseteq given

(* The hierarchy of roles has no cycle, as long as no edge was committed    *)
(* while another creation had read the hierarchy without it. *)
OnCycle(f, r) ==
    \E e \in EdgesIn(f) : e[1] = r /\ (e[2] = r \/ r \in Reached(EdgesIn(f), e[2]))
Acyclic(f) == \A r \in Roles : ~OnCycle(f, r)
CyclesNeedOverlap ==
    (MaxHierarchyDepth >= Cardinality(Roles) /\ Edges \cap unseen = {}) => Acyclic(db)

(* An invitation is accepted by one request: the link does nothing when it  *)
(* comes back later, so a role taken away since is not given again.  But    *)
(* for two requests that had both read the invitation pending. *)
InvitationAcceptedOnce ==
    [][\A i \in Invitations :
          (db[Invitation(i)].by # 0 /\ Invitation(i) \notin overwritten)
              => db'[Invitation(i)].by = db[Invitation(i)].by]_vars

(* An account keeps a way in, and among its confirmed TOTP methods exactly  *)
(* one primary, unless two requests decided on those rows at the same time: *)
(* each unlinks one of two identities because the other is still there,     *)
(* each confirms the first method (UnlinkOAuthAccount,                      *)
(* ConfirmTotpEnrollment). *)
HasWayIn(f, u) == \E w \in WayRows : f[w].of = u /\ f[w].active
OnePrimary(f, u) ==
    LET confirmed == {m \in MethodRows : f[m].of = u /\ f[m].verified}
    IN  confirmed # {} => Cardinality({m \in confirmed : f[m].primary}) = 1
WaysInNeedOverlap ==
    \A u \in Users : There(u) =>
        /\ WayRows \cap unseen = {} => HasWayIn(db, u)
        /\ MethodRows \cap unseen = {} => OnePrimary(db, u)

(* After max_failed_attempts wrong passwords an account is locked out,      *)
(* whatever succeeded between them and in whatever order they were refused, *)
(* unless attempts were counted that overlapped (LoginUser._record_failure).*)
WrongPasswords(f, u, a) ==
    {r \in AttemptRows : f[r] = [result |-> "invalid_credentials", of |-> u, address |-> a]}
LocksOut(f) ==
    \A u \in Users, a \in Addresses :
        Cardinality(WrongPasswords(f, u, a)) >= MaxFailedAttempts =>
            \E l \in LockoutRows : f[l] = [of |-> u, active |-> TRUE]
LockoutNeedsOverlap == AttemptRows \cap unseen = {} => LocksOut(db)

-----------------------------------------------------------------------------
(* A behaviour starts from a database the program gets to: no cycle, a way  *)
(* into every account, a method that is primary confirmed and somebody's,   *)
(* and nothing yet in the rows of the requests to come.                     *)
SoundAccounts(f, already) ==
    /\ \A u \in Users : (f[User(u)] # "absent" => HasWayIn(f, u)) /\ OnePrimary(f, u)
    /\ LocksOut(f)
    /\ \A m \in MethodRows : /\ f[m].verified => f[m].of # Nobody
                             /\ f[m].primary => f[m].verified
    /\ \A n \in Numbers : n > already => f[Method(n)].of = Nobody /\ ~f[Lockout(n)].active

ASSUME ScenesAssumption ==
    \A s \in Scenes : Acyclic(s.rows) /\ SoundAccounts(s.rows, s.already)

=============================================================================
