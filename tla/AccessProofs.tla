----------------------------- MODULE AccessProofs -----------------------------
(***************************************************************************)
(* What Access promises, for any number of tenants, people, roles, codes,   *)
(* accounts and overlapping requests: authority is handed on and never made *)
(* up, what was suspended comes back on purpose, an invitation is accepted  *)
(* by one request (IInv); the hierarchy has no cycle, an account keeps a    *)
(* way in and one primary method, and is locked out in time (JInv).         *)
(***************************************************************************)
EXTENDS Access, UnitOfWorkProofs, FiniteSetTheorems

-----------------------------------------------------------------------------
(* The invariant.  Codes that are out already: `g` is `given`. *)
IsGiven(g, role) == role \in SystemRoles => SystemCodes[role] \subseteq g
StaffIsGiven(g, role) == role \in PlatformSystemRoles => PlatformSystemCodes[role] \subseteq g

(* A row's value, committed, drafted or read: what it hands out was given.  *)
RowOk(g, r, x) ==
    /\ r[1] \in {"code", "staff_code"} /\ x => r[3] \in g
    /\ r[1] = "grant" /\ x => IsGiven(g, r[3])
    /\ r[1] = "staff_grant" /\ x => StaffIsGiven(g, r[3])
    /\ r[1] = "override" =>
           /\ DOMAIN x = {"state", "member", "code", "effect"}
           /\ x.state = "active" /\ x.effect = "allow" => x.code \in g
    /\ r[1] = "invitation" =>
           /\ DOMAIN x = {"status", "roles", "by"}
           /\ x.by # 0 => x.status = "accepted"
           /\ x.status = "pending" => \A role \in x.roles : IsGiven(g, role)
    /\ r[1] \in {"member", "tenant"} => "status" \in DOMAIN x
    /\ r[1] \in {"password", "oauth"} =>
           x = [of |-> x.of, active |-> x.active] /\ x.active \in BOOLEAN

(* What a request of this kind may do to a row it saves over nothing. *)
Restoring == {"reactivate_member", "restore_member", "reactivate_tenant"}
MoveOk(kind, r, old, new) ==
    /\ r[1] = "invitation" => old.by = 0
    /\ r[1] \in {"password", "oauth"} => (old.of # Nobody /\ ~old.active => new = old)
    /\ r[1] \in {"member", "tenant"} =>
           (old.status \in {"suspended", "revoked"} /\ new.status = "active" => kind \in Restoring)

(* What each request is about, and the rows it has read or will read. *)
MemberKinds == {"suspend_member", "reactivate_member", "revoke_member", "restore_member",
                "update_member", "add_member"}
CodeKinds == {"add_code", "remove_code"}
TenancyKinds ==
    MemberKinds \cup CodeKinds \cup {"invite", "assign_role", "revoke_role", "create_role",
                                     "add_edge", "allow", "deny", "revoke_override"}
StaffGrantKinds == {"grant_staff", "revoke_staff"}
StaffCodeKinds == {"add_staff_code", "remove_staff_code"}
TenantKinds == {"suspend_tenant", "reactivate_tenant", "rename_tenant", "set_profile"}
StaffKinds ==
    StaffGrantKinds \cup StaffCodeKinds \cup TenantKinds
        \cup {"create_staff_role", "create_tenant", "set_entitlements", "impersonate"}

ActorRows(m) == {Member(m)} \cup Grants(m) \cup RoleRows \cup OverrideRows
StaffRows(u) == StaffGrants(u) \cup StaffRoleRows

TenancyAsked(kind, args, known) ==
    /\ kind \in TenancyKinds => args.actor \in Members /\ ActorRows(args.actor) \subseteq known
    /\ kind \in MemberKinds => args.on \in Members /\ Member(args.on) \in known
    /\ kind \in {"add_member", "invite"} => args.with \subseteq Roles
    /\ kind \in {"invite", "accept", "join"} => args.on \in Invitations
    /\ kind \in {"accept", "join"} => args.actor \in Members /\ Invitation(args.on) \in known
    /\ kind = "join" => Member(args.actor) \in known
    /\ kind \in {"assign_role", "revoke_role"} => args.on \in Members /\ args.with \in Roles
    /\ kind \in CodeKinds \cup {"create_role"} => args.on \in CustomRoles
    /\ kind = "create_role" => args.with \subseteq Permissions
    /\ kind \in CodeKinds => args.with \in Permissions
    /\ kind = "revoke_override" => args.on \in Overrides

PlatformAsked(kind, args, known) ==
    /\ kind \in StaffKinds => args.actor \in Staff /\ StaffRows(args.actor) \subseteq known
    /\ kind \in StaffGrantKinds => args.on \in Staff /\ args.with \in PlatformRoles
    /\ kind \in StaffCodeKinds \cup {"create_staff_role"} => args.on \in PlatformCustomRoles
    /\ kind = "create_staff_role" => args.with \subseteq PlatformPermissions
    /\ kind \in StaffCodeKinds => args.with \in PlatformPermissions
    /\ kind \in TenantKinds => args.on \in Tenants /\ Tenant(args.on) \in known

AccountAsked(kind, args, known) ==
    /\ kind = "oauth" => OAuthWay(args.subject) \in known
    /\ kind = "unlink_oauth" => args.way \in WayRows /\ WayRows \subseteq known
    /\ kind = "confirm_totp" => args \in MethodRows

(* What is joined by is an invitation that was pending as it was read. *)
Asked(kind, args, known, copy) ==
    /\ TenancyAsked(kind, args, known)
    /\ PlatformAsked(kind, args, known)
    /\ AccountAsked(kind, args, known)
    /\ kind = "join" => /\ Invitation(args.on) \in DOMAIN copy
                        /\ copy[Invitation(args.on)].status = "pending"

DbOk == \A r \in Rows : RowOk(given, r, db[r])

DraftOk(p) ==
    \A r \in Wrote(p) :
        /\ RowOk(given, r, draft[p][r])
        /\ r \in Rows \ overwritten => MoveOk(req[p].kind, r, db[r], draft[p][r])

RequestOk(p) ==
    /\ \A r \in DOMAIN req[p].copy : RowOk(given, r, req[p].copy[r])
    /\ Asked(req[p].kind, req[p].args, Known(p), req[p].copy)

IInv == UowInv /\ DbOk /\ \A p \in Requests : DraftOk(p) /\ RequestOk(p)

-----------------------------------------------------------------------------
(* Which row is which. *)
LEMMA TenancyTags ==
  /\ \A m : Member(m)[1] = "member"
  /\ \A m, role : Grant(m, role)[1] = "grant" /\ Grant(m, role)[3] = role
  /\ \A role : Role(role)[1] = "role"
  /\ \A role, c : Code(role, c)[1] = "code" /\ Code(role, c)[3] = c
  /\ \A parent, child : Edge(parent, child)[1] = "edge"
  /\ \A o : Override(o)[1] = "override"
  /\ \A i : Invitation(i)[1] = "invitation"
  /\ Entitlements[1] = "entitlements"
  BY DEF Member, Grant, Role, Code, Edge, Override, Invitation, Entitlements

LEMMA PlatformTags ==
  /\ \A u, role : StaffGrant(u, role)[1] = "staff_grant" /\ StaffGrant(u, role)[3] = role
  /\ \A role : StaffRole(role)[1] = "staff_role"
  /\ \A role, c : StaffCode(role, c)[1] = "staff_code" /\ StaffCode(role, c)[3] = c
  /\ \A t : Tenant(t)[1] = "tenant"
  /\ \A t, u : Owner(t, u)[1] = "owner"
  /\ \A i : Impersonation(i)[1] = "impersonation"
  BY DEF StaffGrant, StaffRole, StaffCode, Tenant, Owner, Impersonation

LEMMA AccountTags ==
  /\ \A u : User(u)[1] = "user"
  /\ \A a : Address(a)[1] = "address"
  /\ \A u : PasswordWay(u)[1] = "password"
  /\ \A x : OAuthWay(x)[1] = "oauth"
  /\ \A n : Method(n)[1] = "method"
  /\ \A n : Attempt(n)[1] = "attempt"
  /\ \A n : Lockout(n)[1] = "lockout"
  BY DEF User, Address, PasswordWay, OAuthWay, Method, Attempt, Lockout

LEMMA RowsThere ==
  /\ \A m \in Members : Member(m) \in Rows /\ Grants(m) \subseteq Rows
  /\ RoleRows \subseteq Rows /\ Edges \subseteq Rows /\ OverrideRows \subseteq Rows
  /\ InvitationRows \subseteq Rows /\ Entitlements \in Rows
  /\ \A i \in Invitations : Invitation(i) \in Rows
  /\ \A u \in Staff : StaffGrants(u) \subseteq Rows
  /\ StaffRoleRows \subseteq Rows /\ OwnerRows \subseteq Rows
  /\ \A t \in Tenants : Tenant(t) \in Rows
  /\ \A i \in Impersonations : Impersonation(i) \in Rows
  /\ UserRows \subseteq Rows /\ WayRows \subseteq Rows /\ PasswordWays \subseteq Rows
  /\ MethodRows \subseteq Rows /\ AttemptRows \subseteq Rows /\ LockoutRows \subseteq Rows
  <1>1. TenancyRows \subseteq Rows /\ PlatformRows \subseteq Rows /\ AccountRows \subseteq Rows
    BY AccessAssumption DEF AccessRows
  <1>2. /\ \A m \in Members : Member(m) \in TenancyRows
        /\ \A m \in Members : Grants(m) \subseteq TenancyRows
        /\ RoleRows \subseteq TenancyRows /\ Edges \subseteq TenancyRows
        /\ OverrideRows \subseteq TenancyRows
        /\ InvitationRows \subseteq TenancyRows /\ Entitlements \in TenancyRows
    BY DEF TenancyRows
  <1>3. \A i \in Invitations : Invitation(i) \in InvitationRows  BY DEF InvitationRows
  <1>4. /\ \A u \in Staff : StaffGrants(u) \subseteq PlatformRows
        /\ StaffRoleRows \subseteq PlatformRows /\ OwnerRows \subseteq PlatformRows
        /\ \A t \in Tenants : Tenant(t) \in PlatformRows
        /\ \A i \in Impersonations : Impersonation(i) \in PlatformRows
    BY DEF PlatformRows
  <1>5. /\ UserRows \subseteq AccountRows /\ WayRows \subseteq AccountRows
        /\ PasswordWays \subseteq WayRows
        /\ MethodRows \subseteq AccountRows /\ AttemptRows \subseteq AccountRows
        /\ LockoutRows \subseteq AccountRows
    BY DEF AccountRows, WayRows
  <1> QED  BY <1>1, <1>2, <1>3, <1>4, <1>5

(* Rows about which RowOk and MoveOk say nothing. *)
FreeTags == {"role", "edge", "entitlements", "staff_role", "owner", "impersonation",
             "user", "address", "method", "attempt", "lockout"}

LEMMA FreeRow ==
  ASSUME NEW g, NEW r, r[1] \in FreeTags, NEW x, NEW kind, NEW old
  PROVE  RowOk(g, r, x) /\ MoveOk(kind, r, old, x)
  BY DEF FreeTags, RowOk, MoveOk

-----------------------------------------------------------------------------
(* What an actor may do is what its rows gave it. *)
LEMMA RoleCodesGiven ==
  ASSUME NEW g, NEW f, NEW role, IsGiven(g, role),
         \A c \in Permissions : RowOk(g, Code(role, c), f[Code(role, c)])
  PROVE  CodesOf(f, role) \subseteq g
  <1>1. CASE role \in SystemRoles  BY <1>1 DEF CodesOf, IsGiven
  <1>2. CASE role \notin SystemRoles
    <2> SUFFICES ASSUME NEW c \in Permissions, f[Code(role, c)]  PROVE c \in g
      BY <1>2 DEF CodesOf
    <2>1. RowOk(g, Code(role, c), f[Code(role, c)])  OBVIOUS
    <2>2. Code(role, c)[1] = "code" /\ Code(role, c)[3] = c  BY TenancyTags
    <2> QED  BY <2>1, <2>2 DEF RowOk
  <1> QED  BY <1>1, <1>2

LEMMA HeldGiven ==
  ASSUME IInv, NEW p \in Requests, NEW kind \in TenancyKinds, Decides(p, kind)
  PROVE  Held(p) \subseteq given /\ Arg(p).actor \in Members
  <1> DEFINE f == req[p].copy
             m == Arg(p).actor
  <1>1. kind # "idle"
    BY DEF TenancyKinds, MemberKinds, CodeKinds
  <1>2. m \in Members /\ ActorRows(m) \subseteq DOMAIN f
    BY <1>1, Decided DEF IInv, RequestOk, Asked, TenancyAsked, Arg
  <1>3. \A r \in DOMAIN f : RowOk(given, r, f[r])
    BY DEF IInv, RequestOk
  <1> HIDE DEF f, m
  <1>4. ASSUME NEW role \in Roles, f[Grant(m, role)]
        PROVE  CodesOf(f, role) \subseteq given
    <2>1. IsGiven(given, role)
      <3>1. Grant(m, role) \in DOMAIN f  BY <1>2 DEF ActorRows, Grants
      <3> QED  BY <1>3, <1>4, <3>1, TenancyTags DEF RowOk
    <2>2. CASE role \in SystemRoles  BY <2>1, <2>2 DEF CodesOf, IsGiven
    <2>3. CASE role \notin SystemRoles
      <3>1. \A c \in Permissions : Code(role, c) \in DOMAIN f
        BY <1>2, <2>3 DEF ActorRows, RoleRows, Roles
      <3>2. \A c \in Permissions : RowOk(given, Code(role, c), f[Code(role, c)])
        BY <1>3, <3>1
      <3> QED  BY <2>1, <3>2, RoleCodesGiven
    <2> QED  BY <2>2, <2>3
  <1>5. AssignedCodes(f, m) \subseteq given
    BY <1>4 DEF AssignedCodes
  <1>6. Overridden(f, m, "allow") \subseteq given
    <2> SUFFICES ASSUME NEW o \in Overrides, f[Override(o)].state = "active",
                        f[Override(o)].effect = "allow"
                 PROVE  f[Override(o)].code \in given
      BY DEF Overridden
    <2>1. Override(o) \in DOMAIN f  BY <1>2 DEF ActorRows, OverrideRows
    <2> QED  BY <1>3, <2>1, TenancyTags DEF RowOk
  <1>7. MayHold(f, m) \subseteq given
    BY <1>5, <1>6 DEF MayHold
  <1> QED  BY <1>2, <1>7 DEF Held, f, m

LEMMA StaffHeldGiven ==
  ASSUME IInv, NEW p \in Requests, NEW kind \in StaffKinds, Decides(p, kind)
  PROVE  StaffHolds(req[p].copy, Arg(p).actor) \subseteq given
  <1> DEFINE f == req[p].copy
             u == Arg(p).actor
  <1>1. kind # "idle"
    BY DEF StaffKinds, StaffGrantKinds, StaffCodeKinds, TenantKinds
  <1>2. u \in Staff /\ StaffRows(u) \subseteq DOMAIN f
    BY <1>1, Decided DEF IInv, RequestOk, Asked, PlatformAsked, Arg
  <1>3. \A r \in DOMAIN f : RowOk(given, r, f[r])
    BY DEF IInv, RequestOk
  <1> HIDE DEF f, u
  <1> SUFFICES ASSUME NEW role \in PlatformRoles, f[StaffGrant(u, role)],
                      NEW c \in StaffCodesOf(f, role)
               PROVE  c \in given
    BY DEF StaffHolds, StaffRolesOf, f, u
  <1>4. CASE role \in PlatformSystemRoles
    <2>1. StaffGrant(u, role) \in DOMAIN f  BY <1>2 DEF StaffRows, StaffGrants
    <2>2. StaffIsGiven(given, role)  BY <1>3, <2>1, PlatformTags DEF RowOk
    <2> QED  BY <1>4, <2>2 DEF StaffIsGiven, StaffCodesOf
  <1>5. CASE role \notin PlatformSystemRoles
    <2>1. c \in PlatformPermissions /\ f[StaffCode(role, c)]  BY <1>5 DEF StaffCodesOf
    <2>2. StaffCode(role, c) \in DOMAIN f
      BY <1>2, <1>5, <2>1 DEF StaffRows, StaffRoleRows, PlatformRoles
    <2> QED  BY <1>3, <2>1, <2>2, PlatformTags DEF RowOk
  <1> QED  BY <1>4, <1>5

-----------------------------------------------------------------------------
(* The steps every use case is made of. *)
LEMMA OthersKeep ==
  ASSUME IInv, NEW p \in Requests, OthersStay(p), given' = given,
         overwritten \subseteq overwritten',
         \A q \in Requests \ {p} : \A r \in Rows \cap Wrote(q) : db'[r] = db[r],
         NEW q \in Requests, q # p
  PROVE  (DraftOk(q) /\ RequestOk(q))'
  <1>1. req'[q] = req[q] /\ draft'[q] = draft[q]  BY DEF OthersStay
  <1>2. DraftOk(q) /\ RequestOk(q)  BY DEF IInv
  <1>3. RequestOk(q)'
    BY <1>1, <1>2 DEF RequestOk, Known
  <1>4. Wrote(q)' = Wrote(q)  BY <1>1 DEF Wrote
  <1>5. DraftOk(q)'
    <2> SUFFICES ASSUME NEW r \in Wrote(q)
                 PROVE  /\ RowOk(given, r, draft[q][r])
                        /\ r \in Rows \ overwritten'
                               => MoveOk(req[q].kind, r, db'[r], draft[q][r])
      BY <1>1, <1>4 DEF DraftOk
    <2> QED  BY <1>2 DEF DraftOk
  <1> QED  BY <1>3, <1>5

LEMMA AccessBegin ==
  ASSUME IInv, NEW p \in Requests, given' = given,
         NEW kind, kind \notin {"idle", "join"}, NEW args, NEW plan \in Plans,
         Begin(p, kind, args, plan),
         TenancyAsked(kind, args, Planned(plan)),
         PlatformAsked(kind, args, Planned(plan)),
         AccountAsked(kind, args, Planned(plan))
  PROVE  IInv'
  <1>1. UowInv  BY DEF IInv
  <1>2. /\ UowInv' /\ OthersStay(p) /\ db' = db /\ overwritten' = overwritten
        /\ req'[p].kind = kind /\ req'[p].args = args /\ DOMAIN req'[p].copy = {}
        /\ Known(p)' = Planned(plan) /\ Wrote(p)' = {}
    BY <1>1, BeginStep
  <1>3. RequestOk(p)'  BY <1>2 DEF RequestOk, Asked
  <1>4. DraftOk(p)'  BY <1>2 DEF DraftOk
  <1>5. \A q \in Requests \ {p} : (DraftOk(q) /\ RequestOk(q))'
    BY <1>2, OthersKeep
  <1>6. DbOk'  BY <1>2 DEF IInv, DbOk
  <1> QED  BY <1>2, <1>3, <1>4, <1>5, <1>6 DEF IInv

LEMMA SeenOk ==
  ASSUME IInv, NEW p \in Requests, NEW r \in Rows
  PROVE  RowOk(given, r, Seen(p, r))
  BY DEF IInv, DbOk, DraftOk, Seen

LEMMA AccessRead ==
  ASSUME IInv, NEW p \in Requests, given' = given, Read(p)
  PROVE  IInv'
  <1>1. UowInv  BY DEF IInv
  <1>2. /\ UowInv' /\ OthersStay(p) /\ db' = db /\ draft' = draft /\ overwritten' = overwritten
        /\ req'[p].kind = req[p].kind /\ req'[p].args = req[p].args
        /\ Known(p)' = Known(p)
        /\ DOMAIN req[p].copy \subseteq DOMAIN req'[p].copy
        /\ \A r \in DOMAIN req[p].copy : req'[p].copy[r] = req[p].copy[r]
        /\ \A r \in DOMAIN req'[p].copy \ DOMAIN req[p].copy :
               r \in Rows /\ req'[p].copy[r] = Seen(p, r)
    BY <1>1, ReadStep
  <1>3. RequestOk(p)'
    <2>1. RequestOk(p)  BY DEF IInv
    <2>2. ASSUME NEW r \in DOMAIN req'[p].copy  PROVE RowOk(given, r, req'[p].copy[r])
      <3>1. CASE r \in DOMAIN req[p].copy  BY <1>2, <2>1, <3>1 DEF RequestOk
      <3>2. CASE r \notin DOMAIN req[p].copy  BY <1>2, <3>2, SeenOk
      <3> QED  BY <3>1, <3>2
    <2>3. Asked(req[p].kind, req[p].args, Known(p), req'[p].copy)
      BY <1>2, <2>1 DEF RequestOk, Asked
    <2> QED  BY <1>2, <2>2, <2>3 DEF RequestOk
  <1>4. DraftOk(p)'
    <2>1. DraftOk(p)  BY DEF IInv
    <2> QED  BY <1>2, <2>1 DEF DraftOk, Wrote
  <1>5. \A q \in Requests \ {p} : (DraftOk(q) /\ RequestOk(q))'
    BY <1>2, OthersKeep
  <1>6. DbOk'  BY <1>2 DEF IInv, DbOk
  <1> QED  BY <1>2, <1>3, <1>4, <1>5, <1>6 DEF IInv

(* A use case's writes are good if each row's new value is. *)
WriteOk(p, kind, r, value) ==
    RowOk(given, r, value) /\ (r \in Rows \ overwritten' => MoveOk(kind, r, db[r], value))

LEMMA DraftKeeps ==
  ASSUME IInv, NEW p \in Requests, given' = given, NEW new, WrittenBy(p, new),
         req'[p].kind = req[p].kind \/ Wrote(p) = {},
         \A r \in DOMAIN new : WriteOk(p, req'[p].kind, r, new[r])
  PROVE  DraftOk(p)'
  <1> SUFFICES ASSUME NEW r \in Wrote(p) \cup DOMAIN new
               PROVE  /\ RowOk(given, r, draft'[p][r])
                      /\ r \in Rows \ overwritten'
                             => MoveOk(req'[p].kind, r, db[r], draft'[p][r])
    BY DEF DraftOk, WrittenBy
  <1>1. CASE r \in DOMAIN new
    BY <1>1 DEF WriteOk, WrittenBy
  <1>2. CASE r \notin DOMAIN new
    <2>1. draft'[p][r] = draft[p][r] /\ overwritten \subseteq overwritten'
      BY <1>2 DEF WrittenBy
    <2>2. DraftOk(p) /\ req'[p].kind = req[p].kind  BY <1>2 DEF IInv
    <2> QED  BY <1>2, <2>1, <2>2 DEF DraftOk
  <1> QED  BY <1>1, <1>2

LEMMA AccessSave ==
  ASSUME IInv, NEW p \in Requests, given' = given, Running(p), NEW new, Save(p, new),
         \A r \in DOMAIN new : WriteOk(p, req[p].kind, r, new[r])
  PROVE  IInv'
  <1>1. UowInv  BY DEF IInv
  <1>2. /\ UowInv' /\ OthersStay(p) /\ WrittenBy(p, new)
        /\ req'[p].kind = req[p].kind /\ req'[p].args = req[p].args
        /\ req'[p].copy = req[p].copy /\ Known(p)' = Known(p)
    BY <1>1, SaveStep
  <1>3. RequestOk(p)'
    <2>1. RequestOk(p)  BY DEF IInv
    <2> QED  BY <1>2, <2>1 DEF RequestOk
  <1>4. DraftOk(p)'  BY <1>2, DraftKeeps
  <1>5. db' = db /\ overwritten \subseteq overwritten'  BY <1>2 DEF WrittenBy
  <1>6. \A q \in Requests \ {p} : (DraftOk(q) /\ RequestOk(q))'
    BY <1>2, <1>5, OthersKeep
  <1>7. DbOk'  BY <1>5 DEF IInv, DbOk
  <1> QED  BY <1>2, <1>3, <1>4, <1>6, <1>7 DEF IInv

LEMMA AccessSaveRow ==
  ASSUME IInv, NEW p \in Requests, given' = given, Running(p),
         NEW r, NEW value, SaveRow(p, r, value),
         RowOk(given, r, value),
         (/\ r \in Rows \ overwritten'
          /\ r \in DOMAIN req[p].copy => db[r] = Copy(p, r))
             => MoveOk(req[p].kind, r, db[r], value)
  PROVE  IInv'
  <1> DEFINE new == [x \in {r} |-> value]
  <1>1. DOMAIN new = {r} /\ new[r] = value  OBVIOUS
  <1>2. Save(p, new)  BY DEF SaveRow
  <1> HIDE DEF new
  <1>3. WrittenBy(p, new)  BY <1>2, SaveStep DEF IInv
  <1>4. WriteOk(p, req[p].kind, r, value)
    BY <1>1, <1>3 DEF WriteOk, WrittenBy
  <1> QED  BY <1>1, <1>2, <1>4, AccessSave

(* Rows nothing is promised about may be saved at will. *)
LEMMA AccessSaveFree ==
  ASSUME IInv, NEW p \in Requests, given' = given, Running(p),
         NEW new, Save(p, new), \A r \in DOMAIN new : r[1] \in FreeTags
  PROVE  IInv'
  BY AccessSave, FreeRow DEF WriteOk

LEMMA AccessGoOn ==
  ASSUME IInv, NEW p \in Requests, given' = given, Running(p), ~req[p].done, Wrote(p) = {},
         NEW new, NEW next \in GoesOnKinds, NEW plan \in Plans,
         SaveAndGoOn(p, new, next, plan),
         \A r \in DOMAIN new : WriteOk(p, next, r, new[r]),
         Asked(next, req[p].args, DOMAIN req[p].copy \cup Planned(plan), req[p].copy)
  PROVE  IInv'
  <1>1. UowInv  BY DEF IInv
  <1>2. /\ UowInv' /\ OthersStay(p) /\ WrittenBy(p, new)
        /\ req'[p].kind = next /\ req'[p].args = req[p].args
        /\ req'[p].copy = req[p].copy
        /\ Known(p)' = DOMAIN req[p].copy \cup Planned(plan)
    BY <1>1, GoOnStep
  <1>3. RequestOk(p)'
    <2>1. RequestOk(p)  BY DEF IInv
    <2> QED  BY <1>2, <2>1 DEF RequestOk
  <1>4. DraftOk(p)'  BY <1>2, DraftKeeps
  <1>5. db' = db /\ overwritten \subseteq overwritten'  BY <1>2 DEF WrittenBy
  <1>6. \A q \in Requests \ {p} : (DraftOk(q) /\ RequestOk(q))'
    BY <1>2, <1>5, OthersKeep
  <1>7. DbOk'  BY <1>5 DEF IInv, DbOk
  <1> QED  BY <1>2, <1>3, <1>4, <1>6, <1>7 DEF IInv

LEMMA IdleOk ==
  ASSUME NEW p \in Requests, req'[p] = Idle, Wrote(p)' = {}
  PROVE  (DraftOk(p) /\ RequestOk(p))'
  <1>1. /\ req'[p].kind = "idle" /\ DOMAIN req'[p].copy = {}
    BY DEF Idle, NoRows
  <1> QED
    BY <1>1 DEF DraftOk, RequestOk, Asked, TenancyAsked, PlatformAsked, AccountAsked,
                TenancyKinds, MemberKinds, CodeKinds, StaffKinds, StaffGrantKinds,
                StaffCodeKinds, TenantKinds

LEMMA AccessCommit ==
  ASSUME IInv, NEW p \in Requests, given' = given, Commit(p)
  PROVE  IInv'
  <1>1. UowInv  BY DEF IInv
  <1>2. /\ UowInv' /\ OthersStay(p) /\ req'[p] = Idle /\ Wrote(p)' = {}
        /\ overwritten' = overwritten
        /\ \A r \in Rows : db'[r] = Seen(p, r)
        /\ \A q \in Requests \ {p} : \A r \in Rows \cap Wrote(q) : db'[r] = db[r]
    BY <1>1, CommitStep
  <1>3. (DraftOk(p) /\ RequestOk(p))'  BY <1>2, IdleOk
  <1>4. \A q \in Requests \ {p} : (DraftOk(q) /\ RequestOk(q))'
    BY <1>2, OthersKeep
  <1>5. DbOk'  BY <1>2, SeenOk DEF DbOk
  <1> QED  BY <1>2, <1>3, <1>4, <1>5 DEF IInv

LEMMA AccessAbandon ==
  ASSUME IInv, NEW p \in Requests, given' = given, Abandon(p)
  PROVE  IInv'
  <1>1. UowInv  BY DEF IInv
  <1>2. /\ UowInv' /\ OthersStay(p) /\ req'[p] = Idle /\ Wrote(p)' = {}
        /\ overwritten' = overwritten /\ db' = db
    BY <1>1, AbandonStep
  <1>3. (DraftOk(p) /\ RequestOk(p))'  BY <1>2, IdleOk
  <1>4. \A q \in Requests \ {p} : (DraftOk(q) /\ RequestOk(q))'
    BY <1>2, OthersKeep
  <1>5. DbOk'  BY <1>2 DEF IInv, DbOk
  <1> QED  BY <1>2, <1>3, <1>4, <1>5 DEF IInv

-----------------------------------------------------------------------------
(* The tenant's administration. *)
LEMMA TenancyDecides ==
  ASSUME IInv, NEW p \in Requests, NEW kind \in TenancyKinds \cup {"accept"}, Decides(p, kind)
  PROVE  /\ Running(p) /\ ~req[p].done /\ req[p].kind = kind
         /\ Wrote(p) = {} /\ \A r : Seen(p, r) = db[r]
         /\ TenancyAsked(kind, Arg(p), DOMAIN req[p].copy)
         /\ \A r \in DOMAIN req[p].copy : RowOk(given, r, Copy(p, r))
  <1>1. kind # "idle" /\ kind \notin GoesOnKinds
    BY DEF TenancyKinds, MemberKinds, CodeKinds, GoesOnKinds
  <1>2. UowInv /\ RequestOk(p)  BY DEF IInv
  <1>3. /\ Running(p) /\ ~req[p].done /\ req[p].kind = kind
        /\ Known(p) = DOMAIN req[p].copy
        /\ Wrote(p) = {} /\ \A r : Seen(p, r) = db[r]
    BY <1>1, <1>2, Decided
  <1> QED  BY <1>2, <1>3 DEF RequestOk, Asked, Arg, Copy

LEMMA CanAssignGiven ==
  ASSUME IInv, NEW p \in Requests, NEW kind \in TenancyKinds, Decides(p, kind),
         NEW toSelf, NEW rank, NEW codes, CanAssign(p, toSelf, rank, codes)
  PROVE  codes \subseteq given
  <1>1. codes \subseteq Held(p)  BY DEF CanAssign, CanAssignRole
  <1> QED  BY <1>1, HeldGiven

LEMMA CodesSeenGiven ==
  ASSUME NEW p, NEW roles, NEW g, CodesSeen(p, roles) \subseteq g, NEW role \in roles
  PROVE  IsGiven(g, role)
  <1> DEFINE f == [x \in RoleRows |-> Seen(p, x)]
  <1>1. CodesOf(f, role) \subseteq CodesSeen(p, roles)  BY DEF CodesSeen
  <1> HIDE DEF f
  <1> QED  BY <1>1 DEF CodesOf, IsGiven

LEMMA MembershipSaved ==
  ASSUME IInv, NEW p \in Requests, given' = given,
         NEW kind \in MemberKinds, Decides(p, kind),
         NEW x, "status" \in DOMAIN x, SaveMembership(p, x),
         x.status = "active" => kind \in Restoring \/ x.status = StatusOf(p)
  PROVE  IInv'
  <1>1. kind \in TenancyKinds  BY DEF TenancyKinds
  <1>2. /\ Running(p) /\ req[p].kind = kind
        /\ TenancyAsked(kind, Arg(p), DOMAIN req[p].copy)
    BY <1>1, TenancyDecides
  <1>3. Target(p) \in DOMAIN req[p].copy /\ Target(p)[1] = "member"
    BY <1>2, TenancyTags DEF TenancyAsked, Target
  <1>4. RowOk(given, Target(p), x)  BY <1>3 DEF RowOk
  <1>5. ASSUME db[Target(p)] = Copy(p, Target(p))
        PROVE  MoveOk(kind, Target(p), db[Target(p)], x)
    BY <1>3, <1>5 DEF MoveOk, StatusOf
  <1>6. SaveRow(p, Target(p), x)  BY DEF SaveMembership
  <1> HIDE DEF Target
  <1> QED  BY <1>2, <1>3, <1>4, <1>5, <1>6, AccessSaveRow

LEMMA TargetRead ==
  ASSUME IInv, NEW p \in Requests, NEW kind \in MemberKinds, Decides(p, kind)
  PROVE  "status" \in DOMAIN Copy(p, Target(p))
  <1>1. kind \in TenancyKinds  BY DEF TenancyKinds
  <1>2. /\ TenancyAsked(kind, Arg(p), DOMAIN req[p].copy)
        /\ \A r \in DOMAIN req[p].copy : RowOk(given, r, Copy(p, r))
    BY <1>1, TenancyDecides
  <1>3. Target(p) \in DOMAIN req[p].copy /\ Target(p)[1] = "member"
    BY <1>2, TenancyTags DEF TenancyAsked, Target
  <1> QED  BY <1>2, <1>3 DEF RowOk

LEMMA MembershipMoved ==
  ASSUME IInv, NEW p \in Requests, given' = given,
         NEW kind \in {"suspend_member", "reactivate_member", "revoke_member", "restore_member"},
         Decides(p, kind), MoveMembership(p)
  PROVE  IInv'
  <1> DEFINE to == MembershipMoves[kind].to
             x == [Copy(p, Target(p)) EXCEPT !.status = to]
  <1>1. kind \in MemberKinds /\ req[p].kind = kind  BY DEF MemberKinds, Decides
  <1>2. SaveMembership(p, x)  BY <1>1 DEF MoveMembership
  <1>3. to = "active" => kind \in Restoring  BY DEF MembershipMoves, Restoring
  <1>4. "status" \in DOMAIN Copy(p, Target(p))  BY <1>1, TargetRead
  <1> HIDE DEF to
  <1>5. "status" \in DOMAIN x /\ x.status = to  BY <1>4
  <1> HIDE DEF x
  <1> QED  BY <1>1, <1>2, <1>3, <1>5, MembershipSaved

LEMMA MembershipUpdated ==
  ASSUME IInv, NEW p \in Requests, given' = given, UpdateMembership(p)
  PROVE  IInv'
  <1> DEFINE x == [Copy(p, Target(p)) EXCEPT !.title = Id(p)]
  <1>1. "update_member" \in MemberKinds /\ Decides(p, "update_member")
    BY DEF MemberKinds, UpdateMembership, May
  <1>2. SaveMembership(p, x)  BY DEF UpdateMembership
  <1>3. "status" \in DOMAIN Copy(p, Target(p))  BY <1>1, TargetRead
  <1>4. "status" \in DOMAIN x /\ x.status = Copy(p, Target(p)).status  BY <1>3
  <1> HIDE DEF x
  <1> QED  BY <1>1, <1>2, <1>4, MembershipSaved DEF StatusOf

LEMMA MemberAdded ==
  ASSUME IInv, NEW p \in Requests, given' = given, AddMemberDirectly(p)
  PROVE  IInv'
  <1> DEFINE t == Target(p)
             new == [x \in {t} \cup {Grant(Arg(p).on, r) : r \in Arg(p).with} |->
                        IF x = t THEN [status |-> "active", title |-> Id(p)] ELSE TRUE]
  <1>1. "add_member" \in TenancyKinds /\ Decides(p, "add_member")
    BY DEF TenancyKinds, MemberKinds, AddMemberDirectly, May
  <1>2. /\ Running(p) /\ req[p].kind = "add_member"
        /\ \A r : Seen(p, r) = db[r]
    BY <1>1, TenancyDecides
  <1>3. t[1] = "member" /\ db[t].status = "absent"
    BY <1>2, TenancyTags DEF AddMemberDirectly, Target
  <1>4. CodesSeen(p, Arg(p).with) \subseteq given
    BY <1>1, CanAssignGiven DEF AddMemberDirectly, MayGive
  <1>5. ASSUME NEW r \in DOMAIN new  PROVE WriteOk(p, req[p].kind, r, new[r])
    <2>1. CASE r = t
      <3>1. new[r] = [status |-> "active", title |-> Id(p)]  BY <2>1
      <3>2. "status" \in DOMAIN new[r]  BY <3>1
      <3> HIDE DEF new, t
      <3> QED  BY <1>3, <2>1, <3>2 DEF WriteOk, RowOk, MoveOk
    <2>2. CASE r # t
      <3>1. PICK role \in Arg(p).with : r = Grant(Arg(p).on, role)  BY <2>2
      <3>2. new[r] = TRUE  BY <2>2
      <3>3. IsGiven(given, role)  BY <1>4, <3>1, CodesSeenGiven
      <3>4. r[1] = "grant" /\ r[3] = role  BY <3>1, TenancyTags
      <3> HIDE DEF new, t
      <3> QED  BY <3>2, <3>3, <3>4 DEF WriteOk, RowOk, MoveOk
    <2> QED  BY <2>1, <2>2
  <1>6. Save(p, new)  BY DEF AddMemberDirectly
  <1> HIDE DEF new
  <1> QED  BY <1>2, <1>5, <1>6, AccessSave

LEMMA MemberInvited ==
  ASSUME IInv, NEW p \in Requests, given' = given, InviteMember(p)
  PROVE  IInv'
  <1> DEFINE i == Arg(p).on
             value == [status |-> "pending", roles |-> Arg(p).with, by |-> 0]
  <1>1. "invite" \in TenancyKinds /\ Decides(p, "invite")
    BY DEF TenancyKinds, InviteMember, May
  <1>2. /\ Running(p) /\ \A r : Seen(p, r) = db[r]
        /\ i \in Invitations
    BY <1>1, TenancyDecides DEF TenancyAsked
  <1>3. Invitation(i)[1] = "invitation" /\ Invitation(i) \in Rows
    BY <1>2, TenancyTags, RowsThere
  <1>4. db[Invitation(i)].by = 0
    <2>1. db[Invitation(i)].status = "absent"  BY <1>2 DEF InviteMember
    <2>2. RowOk(given, Invitation(i), db[Invitation(i)])  BY <1>3 DEF IInv, DbOk
    <2> QED  BY <1>3, <2>1, <2>2 DEF RowOk
  <1>5. CodesSeen(p, Arg(p).with) \subseteq given
    BY <1>1, CanAssignGiven DEF InviteMember, MayGive
  <1>6. \A role \in Arg(p).with : IsGiven(given, role)
    BY <1>5, CodesSeenGiven
  <1>7. /\ DOMAIN value = {"status", "roles", "by"}
        /\ value.by = 0 /\ value.roles = Arg(p).with
    OBVIOUS
  <1>8. SaveRow(p, Invitation(i), value)  BY DEF InviteMember
  <1> HIDE DEF value, i
  <1>9. RowOk(given, Invitation(i), value)  BY <1>3, <1>6, <1>7 DEF RowOk
  <1>10. MoveOk(req[p].kind, Invitation(i), db[Invitation(i)], value)
    BY <1>3, <1>4 DEF MoveOk
  <1> QED  BY <1>2, <1>8, <1>9, <1>10, AccessSaveRow

LEMMA InvitationAccepted ==
  ASSUME IInv, NEW p \in Requests, given' = given, AcceptInvitation(p)
  PROVE  IInv'
  <1> DEFINE i == Arg(p).on
             r == Invitation(i)
             new == [x \in {r} |-> [Copy(p, x) EXCEPT !.status = "accepted", !.by = Id(p)]]
             plan == << {Member(Arg(p).actor)} >>
  <1>1. Decides(p, "accept")  BY DEF AcceptInvitation
  <1>2. /\ Running(p) /\ ~req[p].done /\ Wrote(p) = {}
        /\ i \in Invitations /\ Arg(p).actor \in Members /\ r \in DOMAIN req[p].copy
        /\ RowOk(given, r, Copy(p, r))
    BY <1>1, TenancyDecides DEF TenancyAsked
  <1>3. r[1] = "invitation"  BY TenancyTags
  <1>4. Copy(p, r).status = "pending"  BY DEF AcceptInvitation
  <1>5. plan \in Plans /\ Planned(plan) = {Member(Arg(p).actor)}
    BY <1>2, RowsThere, PlanOfOne
  <1>6. SaveAndGoOn(p, new, "join", plan)  BY DEF AcceptInvitation
  <1>7. /\ DOMAIN new = {r} /\ DOMAIN new[r] = DOMAIN Copy(p, r)
        /\ r[1] = "invitation" => new[r].status = "accepted"
    BY <1>2, <1>3 DEF RowOk
  <1> HIDE DEF new, plan, r
  <1>8. WrittenBy(p, new)
    BY <1>6, WriteStep DEF SaveAndGoOn, IInv
  <1>9. WriteOk(p, "join", r, new[r])
    <2>1. RowOk(given, r, new[r])  BY <1>2, <1>3, <1>7 DEF RowOk
    <2>2. r \notin overwritten' => db[r] = Copy(p, r)  BY <1>2, <1>7, <1>8 DEF WrittenBy
    <2>3. Copy(p, r).by = 0  BY <1>2, <1>3, <1>4 DEF RowOk
    <2> QED  BY <1>3, <2>1, <2>2, <2>3 DEF WriteOk, MoveOk
  <1>10. Asked("join", req[p].args, DOMAIN req[p].copy \cup Planned(plan), req[p].copy)
    BY <1>2, <1>4, <1>5 DEF Asked, TenancyAsked, PlatformAsked, AccountAsked, Arg, Copy, r,
       TenancyKinds, MemberKinds, CodeKinds, StaffKinds, StaffGrantKinds, StaffCodeKinds, TenantKinds
  <1>11. "join" \in GoesOnKinds  BY DEF GoesOnKinds
  <1> QED  BY <1>2, <1>5, <1>6, <1>7, <1>9, <1>10, <1>11, AccessGoOn

LEMMA TenantJoined ==
  ASSUME IInv, NEW p \in Requests, given' = given, JoinTenant(p)
  PROVE  IInv'
  <1> DEFINE i == Invitation(Arg(p).on)
             m == Member(Arg(p).actor)
             joins == Copy(p, m).status \in {"absent", "invited"}
             lacking == {g \in {Grant(Arg(p).actor, r) : r \in Copy(p, i).roles} : ~Seen(p, g)}
             new == [x \in lacking \cup (IF joins THEN {m} ELSE {}) |->
                        IF x = m THEN [Copy(p, m) EXCEPT !.status = "active"] ELSE TRUE]
  <1>1. Decides(p, "join")  BY DEF JoinTenant
  <1>2. /\ Running(p) /\ req[p].kind = "join" /\ Known(p) = DOMAIN req[p].copy
    BY <1>1, Decided DEF IInv
  <1>3. /\ m \in DOMAIN req[p].copy /\ i \in DOMAIN req[p].copy
        /\ Copy(p, i).status = "pending"
        /\ RowOk(given, m, Copy(p, m)) /\ RowOk(given, i, Copy(p, i))
    BY <1>2 DEF IInv, RequestOk, Asked, TenancyAsked, Arg, Copy
  <1>4. m[1] = "member" /\ i[1] = "invitation"  BY TenancyTags
  <1>5. Save(p, new)  BY DEF JoinTenant
  <1>6. WrittenBy(p, new)
    <2> HIDE DEF new
    <2> QED  BY <1>2, <1>5, SaveStep DEF IInv
  <1>7. ASSUME NEW r \in DOMAIN new  PROVE WriteOk(p, req[p].kind, r, new[r])
    <2>1. CASE r = m
      <3>1. r \in lacking \/ joins  OBVIOUS
      <3>2. r \notin lacking
        BY <1>4, <2>1, TenancyTags
      <3>3. "status" \in DOMAIN Copy(p, m)  BY <1>3, <1>4 DEF RowOk
      <3>4. "status" \in DOMAIN new[r]  BY <2>1, <3>3
      <3>5. r \notin overwritten' => db[r] = Copy(p, r)
        <4> HIDE DEF new
        <4> QED  BY <1>3, <1>6, <2>1 DEF WrittenBy
      <3>6. Copy(p, r).status \in {"absent", "invited"}  BY <2>1, <3>1, <3>2
      <3> HIDE DEF new, m, joins, lacking
      <3> QED  BY <1>4, <2>1, <3>4, <3>5, <3>6 DEF WriteOk, RowOk, MoveOk
    <2>2. CASE r # m
      <3>1. PICK role \in Copy(p, i).roles : r = Grant(Arg(p).actor, role)  BY <2>2
      <3>2. new[r] = TRUE  BY <2>2
      <3>3. IsGiven(given, role)  BY <1>3, <1>4, <3>1 DEF RowOk
      <3>4. r[1] = "grant" /\ r[3] = role  BY <3>1, TenancyTags
      <3> HIDE DEF new
      <3> QED  BY <3>2, <3>3, <3>4 DEF WriteOk, RowOk, MoveOk
    <2> QED  BY <2>1, <2>2
  <1> HIDE DEF new
  <1> QED  BY <1>2, <1>5, <1>7, AccessSave

(* Grants, codes and edges: whether a row is there. *)
LEMMA FlagSaved ==
  ASSUME IInv, NEW p \in Requests, given' = given, Running(p), NEW r, NEW flag \in BOOLEAN,
         r[1] \in {"grant", "code", "edge", "staff_grant", "staff_code"},
         SaveRow(p, r, flag), flag => RowOk(given, r, TRUE)
  PROVE  IInv'
  <1>1. RowOk(given, r, flag)  BY DEF RowOk
  <1>2. MoveOk(req[p].kind, r, db[r], flag)  BY DEF MoveOk
  <1> QED  BY <1>1, <1>2, AccessSaveRow

LEMMA RoleAssigned ==
  ASSUME IInv, NEW p \in Requests, given' = given, AssignMembershipRole(p)
  PROVE  IInv'
  <1> DEFINE r == Arg(p).with
             g == Grant(Arg(p).on, r)
  <1>1. "assign_role" \in TenancyKinds /\ Decides(p, "assign_role")
    BY DEF TenancyKinds, AssignMembershipRole, May
  <1>2. Running(p)  BY <1>1, TenancyDecides
  <1>3. CodesSeen(p, {r}) \subseteq given
    BY <1>1, CanAssignGiven DEF AssignMembershipRole
  <1>4. IsGiven(given, r)  BY <1>3, CodesSeenGiven
  <1>5. g[1] = "grant" /\ g[3] = r  BY TenancyTags
  <1>6. SaveRow(p, g, TRUE)  BY DEF AssignMembershipRole
  <1> HIDE DEF g, r
  <1> QED  BY <1>2, <1>4, <1>5, <1>6, FlagSaved DEF RowOk

LEMMA RoleTaken ==
  ASSUME IInv, NEW p \in Requests, given' = given, RevokeMembershipRole(p)
  PROVE  IInv'
  <1> DEFINE g == Grant(Arg(p).on, Arg(p).with)
  <1>1. "revoke_role" \in TenancyKinds /\ Decides(p, "revoke_role")
    BY DEF TenancyKinds, RevokeMembershipRole, May
  <1>2. Running(p)  BY <1>1, TenancyDecides
  <1>3. g[1] = "grant"  BY TenancyTags
  <1>4. SaveRow(p, g, FALSE)  BY DEF RevokeMembershipRole
  <1> HIDE DEF g
  <1> QED  BY <1>2, <1>3, <1>4, FlagSaved

LEMMA RoleCreated ==
  ASSUME IInv, NEW p \in Requests, given' = given, CreateCustomRole(p)
  PROVE  IInv'
  <1> DEFINE r == Arg(p).on
             new == [x \in {Role(r)} \cup {Code(r, c) : c \in Arg(p).with} |-> TRUE]
  <1>1. "create_role" \in TenancyKinds /\ Decides(p, "create_role")
    BY DEF TenancyKinds, CreateCustomRole, May
  <1>2. Running(p)  BY <1>1, TenancyDecides
  <1>3. Arg(p).with \subseteq given
    BY <1>1, CanAssignGiven DEF CreateCustomRole
  <1>4. ASSUME NEW x \in DOMAIN new  PROVE WriteOk(p, req[p].kind, x, new[x])
    <2>1. CASE x = Role(r)
      <3>1. x[1] \in FreeTags  BY <2>1, TenancyTags DEF FreeTags
      <3> HIDE DEF new
      <3> QED  BY <3>1, FreeRow DEF WriteOk
    <2>2. CASE x # Role(r)
      <3>1. PICK c \in Arg(p).with : x = Code(r, c)  BY <2>2
      <3>2. x[1] = "code" /\ x[3] \in given  BY <1>3, <3>1, TenancyTags
      <3> HIDE DEF new
      <3> QED  BY <3>2 DEF WriteOk, RowOk, MoveOk
    <2> QED  BY <2>1, <2>2
  <1>5. Save(p, new)  BY DEF CreateCustomRole
  <1> HIDE DEF new
  <1> QED  BY <1>2, <1>4, <1>5, AccessSave

LEMMA CodeAdded ==
  ASSUME IInv, NEW p \in Requests, given' = given, AddPermissionToRole(p)
  PROVE  IInv'
  <1> DEFINE c == Arg(p).with
             x == Code(Arg(p).on, c)
  <1>1. "add_code" \in TenancyKinds /\ Decides(p, "add_code")
    BY DEF TenancyKinds, CodeKinds, AddPermissionToRole, May
  <1>2. Running(p)  BY <1>1, TenancyDecides
  <1>3. c \in given
    <2>1. CodesSeen(p, {Arg(p).on}) \cup {c} \subseteq given
      BY <1>1, CanAssignGiven DEF AddPermissionToRole
    <2> QED  BY <2>1
  <1>4. x[1] = "code" /\ x[3] = c  BY TenancyTags
  <1>5. SaveRow(p, x, TRUE)  BY DEF AddPermissionToRole
  <1> HIDE DEF x, c
  <1> QED  BY <1>2, <1>3, <1>4, <1>5, FlagSaved DEF RowOk

LEMMA CodeRemoved ==
  ASSUME IInv, NEW p \in Requests, given' = given, RemovePermissionFromRole(p)
  PROVE  IInv'
  <1> DEFINE x == Code(Arg(p).on, Arg(p).with)
  <1>1. "remove_code" \in TenancyKinds /\ Decides(p, "remove_code")
    BY DEF TenancyKinds, CodeKinds, RemovePermissionFromRole, May
  <1>2. Running(p)  BY <1>1, TenancyDecides
  <1>3. x[1] = "code"  BY TenancyTags
  <1>4. SaveRow(p, x, FALSE)  BY DEF RemovePermissionFromRole
  <1> HIDE DEF x
  <1> QED  BY <1>2, <1>3, <1>4, FlagSaved

LEMMA EdgeCreated ==
  ASSUME IInv, NEW p \in Requests, given' = given, CreateRoleHierarchyEdge(p)
  PROVE  IInv'
  <1> DEFINE x == Edge(Arg(p).on, Arg(p).with)
  <1>1. "add_edge" \in TenancyKinds /\ Decides(p, "add_edge")
    BY DEF TenancyKinds, CreateRoleHierarchyEdge, May
  <1>2. Running(p)  BY <1>1, TenancyDecides
  <1>3. x[1] = "edge"  BY TenancyTags
  <1>4. SaveRow(p, x, TRUE)  BY DEF CreateRoleHierarchyEdge
  <1> HIDE DEF x
  <1> QED  BY <1>2, <1>3, <1>4, FlagSaved DEF RowOk

LEMMA OverrideCreated ==
  ASSUME IInv, NEW p \in Requests, given' = given, CreateAuthorizationOverride(p)
  PROVE  IInv'
  <1> DEFINE o == Override(Arg(p).on)
             c == Arg(p).with.code
  <1>1. PICK effect \in {"allow", "deny"} :
           /\ Decides(p, effect)
           /\ effect = "allow" => CanAssign(p, Arg(p).with.member = Arg(p).actor, 0, {c})
           /\ SaveRow(p, o, [state |-> "active", member |-> Arg(p).with.member,
                             code |-> c, effect |-> effect])
    BY DEF CreateAuthorizationOverride, May
  <1> DEFINE value == [state |-> "active", member |-> Arg(p).with.member,
                       code |-> c, effect |-> effect]
  <1>2. effect \in TenancyKinds  BY DEF TenancyKinds
  <1>3. Running(p)  BY <1>1, <1>2, TenancyDecides
  <1>4. effect = "allow" => {c} \subseteq given
    BY <1>1, <1>2, CanAssignGiven
  <1>5. o[1] = "override"  BY TenancyTags
  <1>6. /\ DOMAIN value = {"state", "member", "code", "effect"}
        /\ value.effect = effect /\ value.code = c
    OBVIOUS
  <1>7. SaveRow(p, o, value)  BY <1>1
  <1> HIDE DEF value, o, c
  <1>8. RowOk(given, o, value)  BY <1>4, <1>5, <1>6 DEF RowOk
  <1>9. MoveOk(req[p].kind, o, db[o], value)  BY <1>5 DEF MoveOk
  <1> QED  BY <1>3, <1>7, <1>8, <1>9, AccessSaveRow

LEMMA OverrideRevoked ==
  ASSUME IInv, NEW p \in Requests, given' = given, RevokeAuthorizationOverride(p)
  PROVE  IInv'
  <1> DEFINE o == Override(Arg(p).on)
             value == [Seen(p, o) EXCEPT !.state = "revoked"]
  <1>1. "revoke_override" \in TenancyKinds /\ Decides(p, "revoke_override")
    BY DEF TenancyKinds, RevokeAuthorizationOverride, May
  <1>2. Running(p) /\ TenancyAsked("revoke_override", Arg(p), DOMAIN req[p].copy)
    BY <1>1, TenancyDecides
  <1>3. o[1] = "override" /\ o \in Rows
    <2>1. o \in OverrideRows  BY <1>2 DEF TenancyAsked, OverrideRows
    <2> QED  BY <2>1, TenancyTags, RowsThere
  <1>4. RowOk(given, o, Seen(p, o))  BY <1>3, SeenOk
  <1>5. /\ DOMAIN value = {"state", "member", "code", "effect"}
        /\ value.state = "revoked"
    BY <1>3, <1>4 DEF RowOk
  <1>6. SaveRow(p, o, value)  BY DEF RevokeAuthorizationOverride
  <1> HIDE DEF value, o
  <1>7. RowOk(given, o, value)  BY <1>3, <1>5 DEF RowOk
  <1>8. MoveOk(req[p].kind, o, db[o], value)  BY <1>3 DEF MoveOk
  <1> QED  BY <1>2, <1>6, <1>7, <1>8, AccessSaveRow

LEMMA TenancyKept ==
  ASSUME IInv, NEW p \in Requests, given' = given, TenancyUseCase(p)
  PROVE  IInv'
  <1>1. CASE SuspendMembership(p) \/ ReactivateMembership(p) \/ RevokeMembership(p)
                \/ RestoreMembership(p)
    BY <1>1, MembershipMoved
       DEF SuspendMembership, ReactivateMembership, RevokeMembership, RestoreMembership, May
  <1>2. CASE UpdateMembership(p)  BY <1>2, MembershipUpdated
  <1>3. CASE AddMemberDirectly(p)  BY <1>3, MemberAdded
  <1>4. CASE InviteMember(p) \/ AcceptInvitation(p) \/ JoinTenant(p)
    BY <1>4, MemberInvited, InvitationAccepted, TenantJoined
  <1>5. CASE AssignMembershipRole(p) \/ RevokeMembershipRole(p)
    BY <1>5, RoleAssigned, RoleTaken
  <1>6. CASE CreateCustomRole(p) \/ AddPermissionToRole(p) \/ RemovePermissionFromRole(p)
                \/ CreateRoleHierarchyEdge(p)
    BY <1>6, RoleCreated, CodeAdded, CodeRemoved, EdgeCreated
  <1>7. CASE CreateAuthorizationOverride(p) \/ RevokeAuthorizationOverride(p)
    BY <1>7, OverrideCreated, OverrideRevoked
  <1> QED  BY <1>1, <1>2, <1>3, <1>4, <1>5, <1>6, <1>7 DEF TenancyUseCase

(* The tenant's routes: what each asks for is what it decides on. *)
LEMMA AuthorityPlan ==
  ASSUME NEW m \in Members, NEW plan \in Plans
  PROVE  /\ Authority(m) \o plan \in Plans
         /\ Planned(Authority(m) \o plan) = ActorRows(m) \cup Planned(plan)
  <1> DEFINE first == {Member(m)} \cup Grants(m)
             second == RoleRows \cup OverrideRows
  <1>1. first \in SUBSET Rows /\ second \in SUBSET Rows  BY RowsThere
  <1>2. Authority(m) = << first, second >>  BY DEF Authority
  <1>3. ActorRows(m) = first \cup second  BY DEF ActorRows
  <1> HIDE DEF first, second
  <1>4. Authority(m) \in Plans /\ Planned(Authority(m)) = ActorRows(m)
    BY <1>1, <1>2, <1>3, PlanOfTwo
  <1> QED  BY <1>4, JoinedPlan

LEMMA TenancyAsks ==
  ASSUME IInv, NEW p \in Requests, given' = given,
         NEW kind \in TenancyKinds, NEW m \in Members, NEW on, NEW with, NEW plan \in Plans,
         Ask(p, kind, m, on, with, plan),
         LET args == [actor |-> m, on |-> on, with |-> with] IN
         TenancyAsked(kind, args, ActorRows(m) \cup Planned(plan))
  PROVE  IInv'
  <1> DEFINE args == [actor |-> m, on |-> on, with |-> with]
             whole == Authority(m) \o plan
  <1>1. /\ whole \in Plans /\ Planned(whole) = ActorRows(m) \cup Planned(plan)
    BY AuthorityPlan
  <1>2. Begin(p, kind, args, whole) /\ TenancyAsked(kind, args, Planned(whole))
    BY <1>1 DEF Ask
  <1>3. kind \notin {"idle", "join"}
    BY DEF TenancyKinds, MemberKinds, CodeKinds
  <1> HIDE DEF args, whole
  <1>4. PlatformAsked(kind, args, Planned(whole)) /\ AccountAsked(kind, args, Planned(whole))
    BY DEF PlatformAsked, AccountAsked, TenancyKinds, MemberKinds, CodeKinds, StaffKinds,
           StaffGrantKinds, StaffCodeKinds, TenantKinds
  <1> QED  BY <1>1, <1>2, <1>3, <1>4, AccessBegin

LEMMA TenancyBegins ==
  ASSUME IInv, NEW p \in Requests, given' = given, TenancyRoutes(p)
  PROVE  IInv'
  <1> USE DEF TenancyAsked
  <1>1. CASE MembershipRoutes(p)
    <2>1. PICK a \in Members, m \in Members :
             \/ \E kind \in {"suspend_member", "reactivate_member", "revoke_member",
                             "restore_member", "update_member"} :
                    Ask(p, kind, a, m, {}, << {Member(m)} >>)
             \/ \E r \in Roles : Ask(p, "add_member", a, m, {r}, << {Entitlements}, {Member(m)} >>)
      BY <1>1 DEF MembershipRoutes
    <2>2. /\ << {Member(m)} >> \in Plans /\ Planned(<< {Member(m)} >>) = {Member(m)}
          /\ << {Entitlements}, {Member(m)} >> \in Plans
          /\ Planned(<< {Entitlements}, {Member(m)} >>) = {Entitlements} \cup {Member(m)}
      BY RowsThere, PlanOfOne, PlanOfTwo
    <2>3. ASSUME NEW kind \in {"suspend_member", "reactivate_member", "revoke_member",
                               "restore_member", "update_member"},
                 Ask(p, kind, a, m, {}, << {Member(m)} >>)
          PROVE  IInv'
      BY <2>2, <2>3, TenancyAsks DEF TenancyKinds, MemberKinds, CodeKinds
    <2>4. ASSUME NEW r \in Roles, Ask(p, "add_member", a, m, {r}, << {Entitlements}, {Member(m)} >>)
          PROVE  IInv'
      BY <2>2, <2>4, TenancyAsks DEF TenancyKinds, MemberKinds, CodeKinds
    <2> QED  BY <2>1, <2>3, <2>4
  <1>2. CASE InvitationRoutes(p)
    <2>1. PICK a \in Members, i \in Invitations :
             \/ \E r \in Roles : Ask(p, "invite", a, i, {r}, << {Entitlements}, InvitationRows >>)
             \/ Begin(p, "accept", [actor |-> a, on |-> i], << {Invitation(i)} >>)
      BY <1>2 DEF InvitationRoutes
    <2>2. /\ << {Invitation(i)} >> \in Plans /\ Planned(<< {Invitation(i)} >>) = {Invitation(i)}
          /\ << {Entitlements}, InvitationRows >> \in Plans
      BY RowsThere, PlanOfOne, PlanOfTwo
    <2>3. ASSUME NEW r \in Roles, Ask(p, "invite", a, i, {r}, << {Entitlements}, InvitationRows >>)
          PROVE  IInv'
      BY <2>2, <2>3, TenancyAsks DEF TenancyKinds, MemberKinds, CodeKinds
    <2>4. ASSUME Begin(p, "accept", [actor |-> a, on |-> i], << {Invitation(i)} >>)
          PROVE  IInv'
      <3> DEFINE args == [actor |-> a, on |-> i]
      <3>1. /\ TenancyAsked("accept", args, {Invitation(i)})
            /\ PlatformAsked("accept", args, {Invitation(i)})
            /\ AccountAsked("accept", args, {Invitation(i)})
        BY DEF PlatformAsked, AccountAsked, TenancyKinds, MemberKinds, CodeKinds, StaffKinds,
               StaffGrantKinds, StaffCodeKinds, TenantKinds
      <3> HIDE DEF TenancyAsked
      <3> QED  BY <2>2, <2>4, <3>1, AccessBegin
    <2> QED  BY <2>1, <2>3, <2>4
  <1>3. CASE RoleRoutes(p)
    <2>1. PICK a \in Members :
             \/ \E m \in Members, r \in Roles, kind \in {"assign_role", "revoke_role"} :
                    Ask(p, kind, a, m, r, <<>>)
             \/ \E r \in CustomRoles, c \in Permissions :
                    \/ Ask(p, "create_role", a, r, {c}, << {Entitlements} >>)
                    \/ \E kind \in {"add_code", "remove_code"} : Ask(p, kind, a, r, c, <<>>)
             \/ \E r \in Roles, s \in Roles : Ask(p, "add_edge", a, r, s, <<Edges>>)
      BY <1>3 DEF RoleRoutes
    <2>2. /\ << {Entitlements} >> \in Plans /\ << Edges >> \in Plans
      BY RowsThere, PlanOfOne
    <2>3. ASSUME NEW m \in Members, NEW r \in Roles, NEW kind \in {"assign_role", "revoke_role"},
                 Ask(p, kind, a, m, r, <<>>)
          PROVE  IInv'
      BY <2>3, EmptyPlan, TenancyAsks DEF TenancyKinds, MemberKinds, CodeKinds
    <2>4. ASSUME NEW r \in CustomRoles, NEW c \in Permissions,
                 Ask(p, "create_role", a, r, {c}, << {Entitlements} >>)
          PROVE  IInv'
      BY <2>2, <2>4, TenancyAsks DEF TenancyKinds, MemberKinds, CodeKinds
    <2>5. ASSUME NEW r \in CustomRoles, NEW c \in Permissions,
                 NEW kind \in {"add_code", "remove_code"}, Ask(p, kind, a, r, c, <<>>)
          PROVE  IInv'
      BY <2>5, EmptyPlan, TenancyAsks DEF TenancyKinds, MemberKinds, CodeKinds
    <2>6. ASSUME NEW r \in Roles, NEW s \in Roles, Ask(p, "add_edge", a, r, s, <<Edges>>)
          PROVE  IInv'
      BY <2>2, <2>6, TenancyAsks DEF TenancyKinds, MemberKinds, CodeKinds
    <2> QED  BY <2>1, <2>3, <2>4, <2>5, <2>6
  <1>4. CASE OverrideRoutes(p)
    <2>1. PICK a \in Members, o \in Overrides :
             \/ \E m \in Members, c \in Permissions, kind \in {"allow", "deny"} :
                    Ask(p, kind, a, o, [member |-> m, code |-> c], <<>>)
             \/ Ask(p, "revoke_override", a, o, {}, <<>>)
      BY <1>4 DEF OverrideRoutes
    <2>2. ASSUME NEW m \in Members, NEW c \in Permissions, NEW kind \in {"allow", "deny"},
                 Ask(p, kind, a, o, [member |-> m, code |-> c], <<>>)
          PROVE  IInv'
      BY <2>2, EmptyPlan, TenancyAsks DEF TenancyKinds, MemberKinds, CodeKinds
    <2>3. ASSUME Ask(p, "revoke_override", a, o, {}, <<>>)
          PROVE  IInv'
      BY <2>3, EmptyPlan, TenancyAsks DEF TenancyKinds, MemberKinds, CodeKinds
    <2> QED  BY <2>1, <2>2, <2>3
  <1> QED  BY <1>1, <1>2, <1>3, <1>4 DEF TenancyRoutes

-----------------------------------------------------------------------------
(* The platform's side. *)
LEMMA StaffDecides ==
  ASSUME IInv, NEW p \in Requests, NEW kind \in StaffKinds \cup {"end_impersonation"},
         Decides(p, kind)
  PROVE  /\ Running(p) /\ req[p].kind = kind
         /\ \A r : Seen(p, r) = db[r]
         /\ PlatformAsked(kind, Arg(p), DOMAIN req[p].copy)
         /\ \A r \in DOMAIN req[p].copy : RowOk(given, r, Copy(p, r))
  <1>1. kind # "idle" /\ kind \notin GoesOnKinds
    BY DEF StaffKinds, StaffGrantKinds, StaffCodeKinds, TenantKinds, GoesOnKinds
  <1>2. UowInv /\ RequestOk(p)  BY DEF IInv
  <1>3. /\ Running(p) /\ req[p].kind = kind
        /\ Known(p) = DOMAIN req[p].copy /\ \A r : Seen(p, r) = db[r]
    BY <1>1, <1>2, Decided
  <1> QED  BY <1>2, <1>3 DEF RequestOk, Asked, Arg, Copy

LEMMA StaffCanAssignGiven ==
  ASSUME IInv, NEW p \in Requests, NEW kind \in StaffKinds, Decides(p, kind),
         NEW toSelf, NEW rank, NEW codes, StaffCanAssign(p, toSelf, rank, codes)
  PROVE  codes \subseteq given
  <1>1. codes \subseteq StaffHolds(req[p].copy, Arg(p).actor)
    BY DEF StaffCanAssign, CanAssignRole
  <1> QED  BY <1>1, StaffHeldGiven

LEMMA StaffRoleGranted ==
  ASSUME IInv, NEW p \in Requests, given' = given, GrantPlatformRole(p)
  PROVE  IInv'
  <1> DEFINE r == Arg(p).with
             g == StaffGrant(Arg(p).on, r)
  <1>1. "grant_staff" \in StaffKinds /\ Decides(p, "grant_staff")
    BY DEF StaffKinds, StaffGrantKinds, GrantPlatformRole, MayHandle
  <1>2. Running(p)  BY <1>1, StaffDecides
  <1>3. StaffCodesSeen(p, r) \subseteq given
    BY <1>1, StaffCanAssignGiven DEF GrantPlatformRole, MayHandle
  <1>4. StaffIsGiven(given, r)
    BY <1>3 DEF StaffCodesSeen, StaffCodesOf, StaffIsGiven
  <1>5. g[1] = "staff_grant" /\ g[3] = r  BY PlatformTags
  <1>6. SaveRow(p, g, TRUE)  BY DEF GrantPlatformRole
  <1> HIDE DEF g, r
  <1> QED  BY <1>2, <1>4, <1>5, <1>6, FlagSaved DEF RowOk

LEMMA StaffRoleTaken ==
  ASSUME IInv, NEW p \in Requests, given' = given, RevokePlatformRole(p)
  PROVE  IInv'
  <1> DEFINE g == StaffGrant(Arg(p).on, Arg(p).with)
  <1>1. "revoke_staff" \in StaffKinds /\ Decides(p, "revoke_staff")
    BY DEF StaffKinds, StaffGrantKinds, RevokePlatformRole, MayHandle
  <1>2. Running(p)  BY <1>1, StaffDecides
  <1>3. g[1] = "staff_grant"  BY PlatformTags
  <1>4. SaveRow(p, g, FALSE)  BY DEF RevokePlatformRole
  <1> HIDE DEF g
  <1> QED  BY <1>2, <1>3, <1>4, FlagSaved

LEMMA StaffRoleCreated ==
  ASSUME IInv, NEW p \in Requests, given' = given, CreateCustomPlatformRole(p)
  PROVE  IInv'
  <1> DEFINE r == Arg(p).on
             new == [x \in {StaffRole(r)} \cup {StaffCode(r, c) : c \in Arg(p).with} |-> TRUE]
  <1>1. "create_staff_role" \in StaffKinds /\ Decides(p, "create_staff_role")
    BY DEF StaffKinds, CreateCustomPlatformRole, StaffMay
  <1>2. Running(p)  BY <1>1, StaffDecides
  <1>3. Arg(p).with \subseteq given
    BY <1>1, StaffCanAssignGiven DEF CreateCustomPlatformRole
  <1>4. ASSUME NEW x \in DOMAIN new  PROVE WriteOk(p, req[p].kind, x, new[x])
    <2>1. CASE x = StaffRole(r)
      <3>1. x[1] \in FreeTags  BY <2>1, PlatformTags DEF FreeTags
      <3> HIDE DEF new
      <3> QED  BY <3>1, FreeRow DEF WriteOk
    <2>2. CASE x # StaffRole(r)
      <3>1. PICK c \in Arg(p).with : x = StaffCode(r, c)  BY <2>2
      <3>2. x[1] = "staff_code" /\ x[3] \in given  BY <1>3, <3>1, PlatformTags
      <3> HIDE DEF new
      <3> QED  BY <3>2 DEF WriteOk, RowOk, MoveOk
    <2> QED  BY <2>1, <2>2
  <1>5. Save(p, new)  BY DEF CreateCustomPlatformRole
  <1> HIDE DEF new
  <1> QED  BY <1>2, <1>4, <1>5, AccessSave

LEMMA StaffCodeAdded ==
  ASSUME IInv, NEW p \in Requests, given' = given, AddPermissionToPlatformRole(p)
  PROVE  IInv'
  <1> DEFINE c == Arg(p).with
             x == StaffCode(Arg(p).on, c)
  <1>1. "add_staff_code" \in StaffKinds /\ Decides(p, "add_staff_code")
    BY DEF StaffKinds, StaffCodeKinds, AddPermissionToPlatformRole, StaffMay
  <1>2. Running(p)  BY <1>1, StaffDecides
  <1>3. c \in given
    <2>1. StaffCodesSeen(p, Arg(p).on) \cup {c} \subseteq given
      BY <1>1, StaffCanAssignGiven DEF AddPermissionToPlatformRole
    <2> QED  BY <2>1
  <1>4. x[1] = "staff_code" /\ x[3] = c  BY PlatformTags
  <1>5. SaveRow(p, x, TRUE)  BY DEF AddPermissionToPlatformRole
  <1> HIDE DEF x, c
  <1> QED  BY <1>2, <1>3, <1>4, <1>5, FlagSaved DEF RowOk

LEMMA StaffCodeRemoved ==
  ASSUME IInv, NEW p \in Requests, given' = given, RemovePermissionFromPlatformRole(p)
  PROVE  IInv'
  <1> DEFINE x == StaffCode(Arg(p).on, Arg(p).with)
  <1>1. "remove_staff_code" \in StaffKinds /\ Decides(p, "remove_staff_code")
    BY DEF StaffKinds, StaffCodeKinds, RemovePermissionFromPlatformRole, StaffMay
  <1>2. Running(p)  BY <1>1, StaffDecides
  <1>3. x[1] = "staff_code"  BY PlatformTags
  <1>4. SaveRow(p, x, FALSE)  BY DEF RemovePermissionFromPlatformRole
  <1> HIDE DEF x
  <1> QED  BY <1>2, <1>3, <1>4, FlagSaved

LEMMA TenantCreated ==
  ASSUME IInv, NEW p \in Requests, given' = given, CreateTenant(p)
  PROVE  IInv'
  <1> DEFINE t == Tenant(Arg(p).on)
             u == Arg(p).with
             owns == OwnsDefault(req[p].copy, u)
             new == [x \in {t, Owner(Arg(p).on, u)} |->
                        IF x = t THEN [status |-> "active", name |-> Id(p), profile |-> 0]
                        ELSE IF owns THEN "member" ELSE "default"]
  <1>1. "create_tenant" \in StaffKinds /\ Decides(p, "create_tenant")
    BY DEF StaffKinds, CreateTenant, StaffMay
  <1>2. Running(p) /\ \A r : Seen(p, r) = db[r]  BY <1>1, StaffDecides
  <1>3. t[1] = "tenant" /\ db[t].status = "absent"
    BY <1>2, PlatformTags DEF CreateTenant
  <1>4. ASSUME NEW r \in DOMAIN new  PROVE WriteOk(p, req[p].kind, r, new[r])
    <2>1. CASE r = t
      <3>1. new[r] = [status |-> "active", name |-> Id(p), profile |-> 0]  BY <2>1
      <3>2. "status" \in DOMAIN new[r]  BY <3>1
      <3> HIDE DEF new, t
      <3> QED  BY <1>3, <2>1, <3>2 DEF WriteOk, RowOk, MoveOk
    <2>2. CASE r # t
      <3>1. r[1] \in FreeTags  BY <2>2, PlatformTags DEF FreeTags
      <3> HIDE DEF new
      <3> QED  BY <3>1, FreeRow DEF WriteOk
    <2> QED  BY <2>1, <2>2
  <1>5. Save(p, new)  BY DEF CreateTenant
  <1> HIDE DEF new
  <1> QED  BY <1>2, <1>4, <1>5, AccessSave

LEMMA TenantSaved ==
  ASSUME IInv, NEW p \in Requests, given' = given,
         NEW kind \in TenantKinds, Decides(p, kind),
         NEW x, "status" \in DOMAIN x, SaveTenant(p, x),
         x.status = "active" => kind \in Restoring \/ x.status = TenantRead(p).status
  PROVE  IInv'
  <1> DEFINE t == Tenant(Arg(p).on)
  <1>1. kind \in StaffKinds  BY DEF StaffKinds
  <1>2. /\ Running(p) /\ req[p].kind = kind
        /\ PlatformAsked(kind, Arg(p), DOMAIN req[p].copy)
    BY <1>1, StaffDecides
  <1>3. t \in DOMAIN req[p].copy /\ t[1] = "tenant"
    BY <1>2, PlatformTags DEF PlatformAsked
  <1>4. SaveRow(p, t, x)  BY DEF SaveTenant
  <1>5. TenantRead(p) = Copy(p, t)  BY DEF TenantRead
  <1> HIDE DEF t
  <1>6. RowOk(given, t, x)  BY <1>3 DEF RowOk
  <1>7. ASSUME db[t] = Copy(p, t)
        PROVE  MoveOk(kind, t, db[t], x)
    BY <1>3, <1>5, <1>7 DEF MoveOk
  <1> QED  BY <1>2, <1>3, <1>4, <1>6, <1>7, AccessSaveRow

LEMMA TenantWasRead ==
  ASSUME IInv, NEW p \in Requests, NEW kind \in TenantKinds, Decides(p, kind)
  PROVE  "status" \in DOMAIN TenantRead(p)
  <1> DEFINE t == Tenant(Arg(p).on)
  <1>1. kind \in StaffKinds  BY DEF StaffKinds
  <1>2. /\ PlatformAsked(kind, Arg(p), DOMAIN req[p].copy)
        /\ \A r \in DOMAIN req[p].copy : RowOk(given, r, Copy(p, r))
    BY <1>1, StaffDecides
  <1>3. t \in DOMAIN req[p].copy /\ t[1] = "tenant"
    BY <1>2, PlatformTags DEF PlatformAsked
  <1> QED  BY <1>2, <1>3 DEF RowOk, TenantRead

LEMMA TenantMoved ==
  ASSUME IInv, NEW p \in Requests, given' = given,
         NEW kind \in {"suspend_tenant", "reactivate_tenant"}, Decides(p, kind), MoveTenant(p)
  PROVE  IInv'
  <1> DEFINE to == TenantMoves[kind].to
             x == [TenantRead(p) EXCEPT !.status = to]
  <1>1. kind \in TenantKinds /\ req[p].kind = kind  BY DEF TenantKinds, Decides
  <1>2. SaveTenant(p, x)  BY <1>1 DEF MoveTenant
  <1>3. to = "active" => kind \in Restoring  BY DEF TenantMoves, Restoring
  <1>4. "status" \in DOMAIN TenantRead(p)  BY <1>1, TenantWasRead
  <1> HIDE DEF to
  <1>5. "status" \in DOMAIN x /\ x.status = to  BY <1>4
  <1> HIDE DEF x
  <1> QED  BY <1>1, <1>2, <1>3, <1>5, TenantSaved

LEMMA TenantRenamed ==
  ASSUME IInv, NEW p \in Requests, given' = given, RenameTenant(p)
  PROVE  IInv'
  <1> DEFINE x == [TenantRead(p) EXCEPT !.name = Id(p)]
  <1>1. "rename_tenant" \in TenantKinds /\ Decides(p, "rename_tenant")
    BY DEF TenantKinds, RenameTenant, StaffMay
  <1>2. SaveTenant(p, x)  BY DEF RenameTenant
  <1>3. "status" \in DOMAIN TenantRead(p)  BY <1>1, TenantWasRead
  <1>4. "status" \in DOMAIN x /\ x.status = TenantRead(p).status  BY <1>3
  <1> HIDE DEF x
  <1> QED  BY <1>1, <1>2, <1>4, TenantSaved

LEMMA TenantProfiled ==
  ASSUME IInv, NEW p \in Requests, given' = given, SetTenantAssistantProfile(p)
  PROVE  IInv'
  <1> DEFINE x == [TenantRead(p) EXCEPT !.profile = Id(p)]
  <1>1. "set_profile" \in TenantKinds /\ Decides(p, "set_profile")
    BY DEF TenantKinds, SetTenantAssistantProfile, StaffMay
  <1>2. SaveTenant(p, x)  BY DEF SetTenantAssistantProfile
  <1>3. "status" \in DOMAIN TenantRead(p)  BY <1>1, TenantWasRead
  <1>4. "status" \in DOMAIN x /\ x.status = TenantRead(p).status  BY <1>3
  <1> HIDE DEF x
  <1> QED  BY <1>1, <1>2, <1>4, TenantSaved

(* One row, about which nothing is promised. *)
LEMMA FreeRowSaved ==
  ASSUME IInv, NEW p \in Requests, given' = given, Running(p), NEW r, NEW value,
         SaveRow(p, r, value), r[1] \in FreeTags
  PROVE  IInv'
  BY FreeRow, AccessSaveRow

LEMMA PlatformKept ==
  ASSUME IInv, NEW p \in Requests, given' = given, PlatformUseCase(p)
  PROVE  IInv'
  <1>1. CASE GrantPlatformRole(p) \/ RevokePlatformRole(p) \/ CreateCustomPlatformRole(p)
    BY <1>1, StaffRoleGranted, StaffRoleTaken, StaffRoleCreated
  <1>2. CASE AddPermissionToPlatformRole(p) \/ RemovePermissionFromPlatformRole(p)
    BY <1>2, StaffCodeAdded, StaffCodeRemoved
  <1>3. CASE CreateTenant(p)  BY <1>3, TenantCreated
  <1>4. CASE SuspendTenant(p) \/ ReactivateTenant(p)
    BY <1>4, TenantMoved DEF SuspendTenant, ReactivateTenant, StaffMay
  <1>5. CASE RenameTenant(p) \/ SetTenantAssistantProfile(p)
    BY <1>5, TenantRenamed, TenantProfiled
  <1>6. CASE SetTenantEntitlements(p)
    <2>1. "set_entitlements" \in StaffKinds /\ Decides(p, "set_entitlements")
      BY <1>6 DEF StaffKinds, SetTenantEntitlements, StaffMay
    <2>2. SaveRow(p, Entitlements, Arg(p).with)  BY <1>6 DEF SetTenantEntitlements
    <2>3. Entitlements[1] \in FreeTags  BY TenancyTags DEF FreeTags
    <2> QED  BY <2>1, <2>2, <2>3, StaffDecides, FreeRowSaved
  <1>7. CASE StartImpersonation(p)
    <2> DEFINE i == Impersonation(Arg(p).on)
               value == [state |-> "open", by |-> Arg(p).actor, of |-> Arg(p).with]
    <2>1. "impersonate" \in StaffKinds /\ Decides(p, "impersonate")
      BY <1>7 DEF StaffKinds, StartImpersonation, StaffMay
    <2>2. SaveRow(p, i, value)  BY <1>7 DEF StartImpersonation
    <2>3. i[1] \in FreeTags  BY PlatformTags DEF FreeTags
    <2> HIDE DEF i, value
    <2> QED  BY <2>1, <2>2, <2>3, StaffDecides, FreeRowSaved
  <1>8. CASE EndImpersonation(p)
    <2> DEFINE i == Impersonation(Arg(p).on)
               value == [Copy(p, i) EXCEPT !.state = "ended"]
    <2>1. Decides(p, "end_impersonation")  BY <1>8 DEF EndImpersonation
    <2>2. SaveRow(p, i, value)  BY <1>8 DEF EndImpersonation
    <2>3. i[1] \in FreeTags  BY PlatformTags DEF FreeTags
    <2> HIDE DEF i, value
    <2> QED  BY <2>1, <2>2, <2>3, StaffDecides, FreeRowSaved
  <1> QED  BY <1>1, <1>2, <1>3, <1>4, <1>5, <1>6, <1>7, <1>8 DEF PlatformUseCase

LEMMA StaffAuthorityPlan ==
  ASSUME NEW u \in Staff, NEW plan \in Plans
  PROVE  /\ StaffAuthority(u) \o plan \in Plans
         /\ Planned(StaffAuthority(u) \o plan) = StaffRows(u) \cup Planned(plan)
  <1>1. StaffGrants(u) \in SUBSET Rows /\ StaffRoleRows \in SUBSET Rows  BY RowsThere
  <1>2. StaffAuthority(u) \in Plans /\ Planned(StaffAuthority(u)) = StaffRows(u)
    BY <1>1, PlanOfTwo DEF StaffAuthority, StaffRows
  <1> QED  BY <1>2, JoinedPlan

LEMMA StaffAsks ==
  ASSUME IInv, NEW p \in Requests, given' = given,
         NEW kind \in StaffKinds, NEW u \in Staff, NEW on, NEW with, NEW plan \in Plans,
         AskPlatform(p, kind, u, on, with, plan),
         LET args == [actor |-> u, on |-> on, with |-> with] IN
         PlatformAsked(kind, args, StaffRows(u) \cup Planned(plan))
  PROVE  IInv'
  <1> DEFINE args == [actor |-> u, on |-> on, with |-> with]
             whole == StaffAuthority(u) \o plan
  <1>1. /\ whole \in Plans /\ Planned(whole) = StaffRows(u) \cup Planned(plan)
    BY StaffAuthorityPlan
  <1>2. Begin(p, kind, args, whole) /\ PlatformAsked(kind, args, Planned(whole))
    BY <1>1 DEF AskPlatform
  <1>3. kind \notin {"idle", "join"}
    BY DEF StaffKinds, StaffGrantKinds, StaffCodeKinds, TenantKinds
  <1> HIDE DEF args, whole
  <1>4. TenancyAsked(kind, args, Planned(whole)) /\ AccountAsked(kind, args, Planned(whole))
    BY DEF TenancyAsked, AccountAsked, TenancyKinds, MemberKinds, CodeKinds, StaffKinds,
           StaffGrantKinds, StaffCodeKinds, TenantKinds
  <1> QED  BY <1>1, <1>2, <1>3, <1>4, AccessBegin

LEMMA PlatformBegins ==
  ASSUME IInv, NEW p \in Requests, given' = given, PlatformRoutes(p)
  PROVE  IInv'
  <1> USE DEF PlatformAsked
  <1>1. CASE StaffRoleRoutes(p)
    <2>1. PICK a \in Staff :
             \/ \E u \in Staff, r \in PlatformRoles, kind \in {"grant_staff", "revoke_staff"} :
                    AskPlatform(p, kind, a, u, r, <<>>)
             \/ \E r \in PlatformCustomRoles, c \in PlatformPermissions :
                    \/ AskPlatform(p, "create_staff_role", a, r, {c}, <<>>)
                    \/ \E kind \in {"add_staff_code", "remove_staff_code"} :
                           AskPlatform(p, kind, a, r, c, <<>>)
      BY <1>1 DEF StaffRoleRoutes
    <2>2. ASSUME NEW u \in Staff, NEW r \in PlatformRoles,
                 NEW kind \in {"grant_staff", "revoke_staff"}, AskPlatform(p, kind, a, u, r, <<>>)
          PROVE  IInv'
      BY <2>2, EmptyPlan, StaffAsks DEF StaffKinds, StaffGrantKinds, StaffCodeKinds, TenantKinds
    <2>3. ASSUME NEW r \in PlatformCustomRoles, NEW c \in PlatformPermissions,
                 AskPlatform(p, "create_staff_role", a, r, {c}, <<>>)
          PROVE  IInv'
      BY <2>3, EmptyPlan, StaffAsks DEF StaffKinds, StaffGrantKinds, StaffCodeKinds, TenantKinds
    <2>4. ASSUME NEW r \in PlatformCustomRoles, NEW c \in PlatformPermissions,
                 NEW kind \in {"add_staff_code", "remove_staff_code"},
                 AskPlatform(p, kind, a, r, c, <<>>)
          PROVE  IInv'
      BY <2>4, EmptyPlan, StaffAsks DEF StaffKinds, StaffGrantKinds, StaffCodeKinds, TenantKinds
    <2> QED  BY <2>1, <2>2, <2>3, <2>4
  <1>2. CASE TenantRoutes(p) \/ ProfileRoutes(p)
    <2>1. PICK a \in Staff, t \in Tenants :
             \/ \E u \in Staff :
                    AskPlatform(p, "create_tenant", a, t, u, << {Tenant(t)}, OwnerRows >>)
             \/ \E kind \in TenantKinds : AskPlatform(p, kind, a, t, {}, << {Tenant(t)} >>)
      BY <1>2 DEF TenantRoutes, ProfileRoutes, TenantKinds
    <2>2. /\ << {Tenant(t)} >> \in Plans /\ Planned(<< {Tenant(t)} >>) = {Tenant(t)}
          /\ << {Tenant(t)}, OwnerRows >> \in Plans
      BY RowsThere, PlanOfOne, PlanOfTwo
    <2>3. ASSUME NEW u \in Staff,
                 AskPlatform(p, "create_tenant", a, t, u, << {Tenant(t)}, OwnerRows >>)
          PROVE  IInv'
      BY <2>2, <2>3, StaffAsks DEF StaffKinds, StaffGrantKinds, StaffCodeKinds, TenantKinds
    <2>4. ASSUME NEW kind \in TenantKinds, AskPlatform(p, kind, a, t, {}, << {Tenant(t)} >>)
          PROVE  IInv'
      BY <2>2, <2>4, StaffAsks DEF StaffKinds, StaffGrantKinds, StaffCodeKinds, TenantKinds
    <2> QED  BY <2>1, <2>3, <2>4
  <1>3. CASE PlanRoutes(p)
    <2>1. PICK a \in Staff, plan \in EntitlementValues :
             AskPlatform(p, "set_entitlements", a, {}, plan, << {Entitlements} >>)
      BY <1>3 DEF PlanRoutes
    <2>2. << {Entitlements} >> \in Plans  BY RowsThere, PlanOfOne
    <2> QED
      BY <2>1, <2>2, StaffAsks DEF StaffKinds, StaffGrantKinds, StaffCodeKinds, TenantKinds
  <1>4. CASE ImpersonationRoutes(p)
    <2>1. PICK a \in Staff, i \in Impersonations :
             \/ \E m \in Members : AskPlatform(p, "impersonate", a, i, m, <<>>)
             \/ Begin(p, "end_impersonation", [actor |-> a, on |-> i], << {Impersonation(i)} >>)
      BY <1>4 DEF ImpersonationRoutes
    <2>2. ASSUME NEW m \in Members, AskPlatform(p, "impersonate", a, i, m, <<>>)
          PROVE  IInv'
      BY <2>2, EmptyPlan, StaffAsks DEF StaffKinds, StaffGrantKinds, StaffCodeKinds, TenantKinds
    <2>3. ASSUME Begin(p, "end_impersonation", [actor |-> a, on |-> i], << {Impersonation(i)} >>)
          PROVE  IInv'
      <3> DEFINE args == [actor |-> a, on |-> i]
                 plan == << {Impersonation(i)} >>
      <3>1. plan \in Plans  BY RowsThere, PlanOfOne
      <3>2. /\ TenancyAsked("end_impersonation", args, Planned(plan))
            /\ PlatformAsked("end_impersonation", args, Planned(plan))
            /\ AccountAsked("end_impersonation", args, Planned(plan))
        BY DEF TenancyAsked, AccountAsked, TenancyKinds, MemberKinds, CodeKinds, StaffKinds,
               StaffGrantKinds, StaffCodeKinds, TenantKinds
      <3>3. Begin(p, "end_impersonation", args, plan)  BY <2>3
      <3> HIDE DEF PlatformAsked, args, plan
      <3> QED  BY <3>1, <3>2, <3>3, AccessBegin
    <2> QED  BY <2>1, <2>2, <2>3
  <1> QED  BY <1>1, <1>2, <1>3, <1>4 DEF PlatformRoutes

-----------------------------------------------------------------------------
(* The accounts. *)
AccountKinds == {"register", "create_user", "login", "oauth", "link_oauth", "unlink_oauth",
                 "start_totp", "confirm_totp", "verify_mfa"}

LEMMA AccountDecides ==
  ASSUME IInv, NEW p \in Requests, NEW kind \in AccountKinds, Decides(p, kind)
  PROVE  /\ Running(p) /\ ~req[p].done /\ req[p].kind = kind
         /\ Wrote(p) = {} /\ \A r : Seen(p, r) = db[r]
         /\ AccountAsked(kind, Arg(p), DOMAIN req[p].copy)
         /\ \A r \in DOMAIN req[p].copy : RowOk(given, r, Copy(p, r))
  <1>1. kind # "idle" /\ kind \notin GoesOnKinds  BY DEF AccountKinds, GoesOnKinds
  <1>2. UowInv /\ RequestOk(p)  BY DEF IInv
  <1>3. /\ Running(p) /\ ~req[p].done /\ req[p].kind = kind
        /\ Known(p) = DOMAIN req[p].copy
        /\ Wrote(p) = {} /\ \A r : Seen(p, r) = db[r]
    BY <1>1, <1>2, Decided
  <1> QED  BY <1>2, <1>3 DEF RequestOk, Asked, Arg, Copy

WayTags == {"password", "oauth"}

LEMMA NewWayOk ==
  ASSUME NEW p, NEW w, w[1] \in WayTags, db[w].of = Nobody, NEW u, NEW kind
  PROVE  WriteOk(p, kind, w, [of |-> u, active |-> TRUE])
  <1> DEFINE value == [of |-> u, active |-> TRUE]
  <1>1. value = [of |-> value.of, active |-> value.active] /\ value.active \in BOOLEAN
    OBVIOUS
  <1> HIDE DEF value
  <1>2. WriteOk(p, kind, w, value)
    BY <1>1 DEF WriteOk, RowOk, MoveOk, WayTags
  <1> QED  BY <1>2 DEF value

LEMMA AccountOpened ==
  ASSUME IInv, NEW p \in Requests, given' = given, NEW kind \in AccountKinds, Decides(p, kind),
         NEW status, NEW a, NEW w, w[1] \in WayTags, OpenAccount(p, status, a, w)
  PROVE  IInv'
  <1> DEFINE new == [x \in {User(Id(p)), Address(a), w} |->
                        CASE x = User(Id(p)) -> status
                          [] x = Address(a)  -> Id(p)
                          [] x = w           -> [of |-> Id(p), active |-> TRUE]]
  <1>1. Running(p) /\ \A r : Seen(p, r) = db[r]  BY AccountDecides
  <1>2. db[w].of = Nobody  BY <1>1 DEF OpenAccount
  <1>3. User(Id(p))[1] = "user" /\ Address(a)[1] = "address"  BY AccountTags
  <1>4. ASSUME NEW r \in DOMAIN new  PROVE WriteOk(p, req[p].kind, r, new[r])
    <2>1. CASE r = w
      <3>1. w # User(Id(p)) /\ w # Address(a)  BY <1>3 DEF WayTags
      <3>2. new[r] = [of |-> Id(p), active |-> TRUE]  BY <2>1, <3>1
      <3> HIDE DEF new
      <3> QED  BY <1>2, <2>1, <3>2, NewWayOk
    <2>2. CASE r # w
      <3>1. r[1] \in FreeTags  BY <1>3, <2>2 DEF FreeTags
      <3> HIDE DEF new
      <3> QED  BY <3>1, FreeRow DEF WriteOk
    <2> QED  BY <2>1, <2>2
  <1>5. Save(p, new)  BY DEF OpenAccount
  <1> HIDE DEF new
  <1> QED  BY <1>1, <1>4, <1>5, AccessSave

LEMMA AccountRegistered ==
  ASSUME IInv, NEW p \in Requests, given' = given, RegisterUser(p) \/ CreateUser(p)
  PROVE  IInv'
  <1>1. PasswordWay(Id(p))[1] \in WayTags  BY AccountTags DEF WayTags
  <1> QED  BY <1>1, AccountOpened DEF RegisterUser, CreateUser, AccountKinds

LEMMA SignedInWithProvider ==
  ASSUME IInv, NEW p \in Requests, given' = given, LoginExisting(p)
  PROVE  IInv'
  <1> DEFINE w == OAuthWay(Arg(p).subject)
             x == User(Copy(p, w).of)
             new == [y \in {w, x} |-> Copy(p, y)]
  <1>1. "oauth" \in AccountKinds /\ Decides(p, "oauth")  BY DEF AccountKinds, LoginExisting
  <1>2. /\ Running(p)
        /\ w \in DOMAIN req[p].copy /\ RowOk(given, w, Copy(p, w))
    BY <1>1, AccountDecides DEF AccountAsked
  <1>3. w[1] = "oauth" /\ x[1] = "user"  BY AccountTags
  <1>4. Save(p, new)  BY DEF LoginExisting
  <1>5. /\ DOMAIN new = {w, x} /\ new[w] = Copy(p, w)
    OBVIOUS
  <1> HIDE DEF new, w, x
  <1>6. WrittenBy(p, new)  BY <1>2, <1>4, SaveStep DEF IInv
  <1>7. WriteOk(p, req[p].kind, w, new[w])
    <2>1. w \notin overwritten' => db[w] = Copy(p, w)  BY <1>2, <1>5, <1>6 DEF WrittenBy
    <2> QED  BY <1>2, <1>3, <1>5, <2>1 DEF WriteOk, MoveOk
  <1>8. WriteOk(p, req[p].kind, x, new[x])
    BY <1>3, FreeRow DEF WriteOk, FreeTags
  <1> QED  BY <1>2, <1>4, <1>5, <1>7, <1>8, AccessSave

LEMMA RegisteredWithProvider ==
  ASSUME IInv, NEW p \in Requests, given' = given, RegisterViaOAuth(p)
  PROVE  IInv'
  <1> DEFINE w == OAuthWay(Arg(p).subject)
  <1>1. "oauth" \in AccountKinds /\ Decides(p, "oauth")  BY DEF AccountKinds, RegisterViaOAuth
  <1>2. w[1] \in WayTags  BY AccountTags DEF WayTags
  <1>3. \/ OpenAccount(p, "pending", Arg(p).address, w)
        \/ OpenAccount(p, "active", Arg(p).address, w)
    BY DEF RegisterViaOAuth
  <1> HIDE DEF w
  <1> QED  BY <1>1, <1>2, <1>3, AccountOpened

LEMMA ProviderLinked ==
  ASSUME IInv, NEW p \in Requests, given' = given, LinkToCurrentUser(p)
  PROVE  IInv'
  <1> DEFINE w == OAuthWay(Arg(p).subject)
             value == [of |-> Arg(p).user, active |-> TRUE]
  <1>1. "link_oauth" \in AccountKinds /\ Decides(p, "link_oauth")
    BY DEF AccountKinds, LinkToCurrentUser
  <1>2. Running(p) /\ \A r : Seen(p, r) = db[r]  BY <1>1, AccountDecides
  <1>3. w[1] \in WayTags /\ db[w].of = Nobody /\ SaveRow(p, w, value)
    BY <1>2, AccountTags DEF LinkToCurrentUser, NewWay, WayTags
  <1>4. WriteOk(p, req[p].kind, w, value)
    <2> HIDE DEF w
    <2> QED  BY <1>3, NewWayOk
  <1> DEFINE new == [x \in {w} |-> value]
  <1> HIDE DEF w, value
  <1>5. DOMAIN new = {w} /\ new[w] = value  OBVIOUS
  <1>6. Save(p, new)  BY <1>3 DEF SaveRow
  <1> HIDE DEF new
  <1> QED  BY <1>2, <1>4, <1>5, <1>6, AccessSave

LEMMA WayTurnedOff ==
  ASSUME NEW x, x = [of |-> x.of, active |-> x.active], x.active \in BOOLEAN,
         NEW y, y = [x EXCEPT !.active = FALSE]
  PROVE  /\ y = [of |-> y.of, active |-> y.active] /\ y.active \in BOOLEAN
         /\ ~x.active => y = x
  <1>1. PICK o, a : x = [of |-> o, active |-> a] /\ a \in BOOLEAN
    OBVIOUS
  <1>2. y = [of |-> o, active |-> FALSE]  BY <1>1
  <1>3. ~x.active => a = FALSE  BY <1>1
  <1> QED  BY <1>1, <1>2, <1>3

LEMMA ProviderUnlinked ==
  ASSUME IInv, NEW p \in Requests, given' = given, UnlinkOAuthAccount(p)
  PROVE  IInv'
  <1> DEFINE w == Arg(p).way
             value == [Copy(p, w) EXCEPT !.active = FALSE]
  <1>1. "unlink_oauth" \in AccountKinds /\ Decides(p, "unlink_oauth")
    BY DEF AccountKinds, UnlinkOAuthAccount
  <1>2. /\ Running(p)
        /\ w \in WayRows /\ w \in DOMAIN req[p].copy /\ RowOk(given, w, Copy(p, w))
    BY <1>1, AccountDecides DEF AccountAsked
  <1>3. w[1] \in WayTags  BY <1>2, AccountTags DEF WayRows, PasswordWays, WayTags
  <1>4. SaveRow(p, w, value)  BY DEF UnlinkOAuthAccount
  <1>5. /\ Copy(p, w) = [of |-> Copy(p, w).of, active |-> Copy(p, w).active]
        /\ Copy(p, w).active \in BOOLEAN
    BY <1>2, <1>3 DEF RowOk, WayTags
  <1>6. /\ value = [of |-> value.of, active |-> value.active] /\ value.active \in BOOLEAN
        /\ ~Copy(p, w).active => value = Copy(p, w)
    BY <1>5, WayTurnedOff
  <1> HIDE DEF w, value
  <1>7. RowOk(given, w, value)  BY <1>3, <1>6 DEF RowOk, WayTags
  <1>8. ASSUME db[w] = Copy(p, w)  PROVE MoveOk(req[p].kind, w, db[w], value)
    BY <1>3, <1>6, <1>8 DEF MoveOk, WayTags
  <1> QED  BY <1>2, <1>4, <1>7, <1>8, AccessSaveRow

LEMMA TotpEnrolled ==
  ASSUME IInv, NEW p \in Requests, given' = given,
         StartTotpEnrollment(p) \/ ConfirmTotpEnrollment(p)
  PROVE  IInv'
  <1>1. CASE StartTotpEnrollment(p)
    <2> DEFINE value == [of |-> Arg(p), verified |-> FALSE, primary |-> FALSE]
    <2>1. "start_totp" \in AccountKinds /\ Decides(p, "start_totp")
      BY <1>1 DEF AccountKinds, StartTotpEnrollment
    <2>2. SaveRow(p, Method(Id(p)), value)  BY <1>1 DEF StartTotpEnrollment
    <2>3. Method(Id(p))[1] \in FreeTags  BY AccountTags DEF FreeTags
    <2> HIDE DEF value
    <2> QED  BY <2>1, <2>2, <2>3, AccountDecides, FreeRowSaved
  <1>2. CASE ConfirmTotpEnrollment(p)
    <2> DEFINE value == [Copy(p, Arg(p)) EXCEPT !.verified = TRUE,
                            !.primary = @ \/ \A m \in MethodsOf(p, Copy(p, Arg(p)).of) :
                                                 ~Copy(p, m).primary]
    <2>1. "confirm_totp" \in AccountKinds /\ Decides(p, "confirm_totp")
      BY <1>2 DEF AccountKinds, ConfirmTotpEnrollment
    <2>2. SaveRow(p, Arg(p), value)  BY <1>2 DEF ConfirmTotpEnrollment
    <2>3. Arg(p) \in MethodRows /\ Running(p)  BY <2>1, AccountDecides DEF AccountAsked
    <2>4. Arg(p)[1] \in FreeTags  BY <2>3, AccountTags DEF MethodRows, FreeTags
    <2> HIDE DEF value
    <2> QED  BY <2>2, <2>3, <2>4, FreeRowSaved
  <1> QED  BY <1>1, <1>2

LEMMA TriedRows ==
  ASSUME NEW p, NEW used, \A r \in used : r[1] \in FreeTags, NEW result, NEW u, NEW a,
         NEW r \in DOMAIN Tried(p, used, result, u, a)
  PROVE  r[1] \in FreeTags
  BY AccountTags DEF Tried, FreeTags

LEMMA SignedIn ==
  ASSUME IInv, NEW p \in Requests, given' = given, LogIn(p)
  PROVE  IInv'
  <1> DEFINE u == Holder(p, Arg(p).address)
             new == Tried(p, {User(u)}, "success", u, Arg(p).address)
  <1>1. "login" \in AccountKinds /\ Decides(p, "login")  BY DEF AccountKinds, LogIn
  <1>2. Save(p, new)  BY DEF LogIn
  <1>3. \A r \in {User(u)} : r[1] \in FreeTags  BY AccountTags DEF FreeTags
  <1>4. \A r \in DOMAIN new : r[1] \in FreeTags  BY <1>3, TriedRows
  <1> HIDE DEF new
  <1> QED  BY <1>1, <1>2, <1>4, AccountDecides, AccessSaveFree

LEMMA SignInRefused ==
  ASSUME IInv, NEW p \in Requests, given' = given, RefuseLogin(p)
  PROVE  IInv'
  <1> DEFINE u == Holder(p, Arg(p).address)
             new == Tried(p, {}, "invalid_credentials", u, Arg(p).address)
             plan == << AttemptRows \ {Attempt(Id(p))} >>
  <1>1. "login" \in AccountKinds /\ Decides(p, "login")  BY DEF AccountKinds, RefuseLogin
  <1>2. \/ Save(p, new)
        \/ SaveAndGoOn(p, new, "count_failures", plan)
    BY DEF RefuseLogin
  <1>3. \A r \in DOMAIN new : r[1] \in FreeTags  BY TriedRows
  <1>4. plan \in Plans  BY RowsThere, PlanOfOne
  <1>5. Running(p) /\ ~req[p].done /\ Wrote(p) = {}  BY <1>1, AccountDecides
  <1>6. "count_failures" \in GoesOnKinds  BY DEF GoesOnKinds
  <1> HIDE DEF new, plan
  <1>7. Asked("count_failures", req[p].args, DOMAIN req[p].copy \cup Planned(plan), req[p].copy)
    BY DEF Asked, TenancyAsked, PlatformAsked, AccountAsked, TenancyKinds, MemberKinds, CodeKinds,
           StaffKinds, StaffGrantKinds, StaffCodeKinds, TenantKinds
  <1>8. \A r \in DOMAIN new : WriteOk(p, "count_failures", r, new[r])
    BY <1>3, FreeRow DEF WriteOk
  <1> QED  BY <1>2, <1>3, <1>4, <1>5, <1>6, <1>7, <1>8, AccessSaveFree, AccessGoOn

LEMMA FailureRecorded ==
  ASSUME IInv, NEW p \in Requests, given' = given, RecordFailure(p)
  PROVE  IInv'
  <1> DEFINE value == [of |-> Holder(p, Arg(p).address), active |-> TRUE]
  <1>1. Running(p)  BY DEF RecordFailure, Decides, Running
  <1>2. SaveRow(p, Lockout(Id(p)), value) \/ Save(p, NoRows)  BY DEF RecordFailure
  <1>3. Lockout(Id(p))[1] \in FreeTags  BY AccountTags DEF FreeTags
  <1>4. DOMAIN NoRows = {}  BY DEF NoRows
  <1> HIDE DEF value
  <1> QED  BY <1>1, <1>2, <1>3, <1>4, FreeRowSaved, AccessSaveFree

LEMMA ChallengeVerified ==
  ASSUME IInv, NEW p \in Requests, given' = given, VerifyMfaChallenge(p)
  PROVE  IInv'
  <1> DEFINE u == Arg(p).user
             address == CHOOSE a \in Addresses : Holder(p, a) = u
  <1>1. "verify_mfa" \in AccountKinds /\ Decides(p, "verify_mfa")
    BY DEF AccountKinds, VerifyMfaChallenge
  <1>2. Running(p)  BY <1>1, AccountDecides
  <1>3. \/ Save(p, Tried(p, {}, "mfa_failed", u, address))
        \/ \E m \in Usable(p, u) : Save(p, Tried(p, {m, User(u)}, "success", u, address))
    BY DEF VerifyMfaChallenge
  <1> HIDE DEF u, address
  <1>4. CASE Save(p, Tried(p, {}, "mfa_failed", u, address))
    <2>1. \A r \in DOMAIN Tried(p, {}, "mfa_failed", u, address) : r[1] \in FreeTags
      BY TriedRows
    <2> QED  BY <1>2, <1>4, <2>1, AccessSaveFree
  <1>5. ASSUME NEW m \in Usable(p, u), Save(p, Tried(p, {m, User(u)}, "success", u, address))
        PROVE  IInv'
    <2>1. \A r \in {m, User(u)} : r[1] \in FreeTags
      BY AccountTags DEF Usable, MethodsOf, MethodRows, FreeTags
    <2>2. \A r \in DOMAIN Tried(p, {m, User(u)}, "success", u, address) : r[1] \in FreeTags
      BY <2>1, TriedRows
    <2> QED  BY <1>2, <1>5, <2>2, AccessSaveFree
  <1> QED  BY <1>3, <1>4, <1>5

LEMMA AccountsKept ==
  ASSUME IInv, NEW p \in Requests, given' = given, AccountUseCase(p)
  PROVE  IInv'
  BY AccountRegistered, SignedInWithProvider, RegisteredWithProvider, ProviderLinked,
     ProviderUnlinked, TotpEnrolled, SignedIn, SignInRefused, FailureRecorded,
     ChallengeVerified
  DEF AccountUseCase

LEMMA AccountAsks ==
  ASSUME IInv, NEW p \in Requests, given' = given,
         NEW kind \in AccountKinds, NEW args, NEW plan \in Plans, Begin(p, kind, args, plan),
         AccountAsked(kind, args, Planned(plan))
  PROVE  IInv'
  <1>1. kind \notin {"idle", "join"}  BY DEF AccountKinds
  <1>2. TenancyAsked(kind, args, Planned(plan)) /\ PlatformAsked(kind, args, Planned(plan))
    BY DEF AccountKinds, TenancyAsked, PlatformAsked, TenancyKinds, MemberKinds, CodeKinds,
           StaffKinds, StaffGrantKinds, StaffCodeKinds, TenantKinds
  <1> QED  BY <1>1, <1>2, AccessBegin

LEMMA AccountBegins ==
  ASSUME IInv, NEW p \in Requests, given' = given, AccountRoutes(p)
  PROVE  IInv'
  <1> USE DEF AccountAsked, AccountKinds
  <1>1. CASE VisitorRoutes(p)
    <2>1. /\ << UserRows >> \in Plans
          /\ << UserRows, LockoutRows, PasswordWays, MethodRows >> \in Plans
      BY RowsThere, PlanOfOne, PlanOfFour
    <2>2. ASSUME NEW a \in Addresses, NEW kind \in {"register", "create_user"},
                 Begin(p, kind, a, << UserRows >>)
          PROVE  IInv'
      BY <2>1, <2>2, AccountAsks
    <2>3. ASSUME NEW a \in Addresses, NEW right \in BOOLEAN,
                 Begin(p, "login", [address |-> a, right |-> right],
                       << UserRows, LockoutRows, PasswordWays, MethodRows >>)
          PROVE  IInv'
      BY <2>1, <2>3, AccountAsks
    <2> QED  BY <1>1, <2>2, <2>3 DEF VisitorRoutes
  <1>2. CASE CallbackRoutes(p)
    <2>1. PICK s \in Subjects, a \in Addresses :
             Begin(p, "oauth", [subject |-> s, address |-> a], << {OAuthWay(s)}, UserRows >>)
      BY <1>2 DEF CallbackRoutes
    <2>2. OAuthWay(s) \in WayRows  BY DEF WayRows
    <2>3. /\ << {OAuthWay(s)}, UserRows >> \in Plans
          /\ OAuthWay(s) \in Planned(<< {OAuthWay(s)}, UserRows >>)
      BY <2>2, RowsThere, PlanOfTwo
    <2> QED  BY <2>1, <2>3, AccountAsks
  <1>3. CASE SignedInRoutes(p)
    <2>1. PICK u \in Users :
             \/ \E s \in Subjects :
                    Begin(p, "link_oauth", [subject |-> s, user |-> u],
                          << {OAuthWay(s)}, {User(u)} >>)
             \/ \E w \in OwnedBy(u, WayRows) :
                    Begin(p, "unlink_oauth", [way |-> w, user |-> u], << WayRows >>)
             \/ Begin(p, "start_totp", u, << {User(u)} >>)
             \/ \E m \in OwnedBy(u, MethodRows) :
                    Begin(p, "confirm_totp", m, << {m}, MethodRows >>)
             \/ \E right \in BOOLEAN :
                    Begin(p, "verify_mfa", [user |-> u, right |-> right], << UserRows, MethodRows >>)
      BY <1>3 DEF SignedInRoutes
    <2>2. User(u) \in Rows
      <3>1. User(u) \in UserRows  BY DEF UserRows
      <3> QED  BY <3>1, RowsThere
    <2>3. ASSUME NEW s \in Subjects,
                 Begin(p, "link_oauth", [subject |-> s, user |-> u], << {OAuthWay(s)}, {User(u)} >>)
          PROVE  IInv'
      <3>1. OAuthWay(s) \in WayRows  BY DEF WayRows
      <3>2. << {OAuthWay(s)}, {User(u)} >> \in Plans  BY <2>2, <3>1, RowsThere, PlanOfTwo
      <3> QED  BY <2>3, <3>2, AccountAsks
    <2>4. ASSUME NEW w \in WayRows,
                 Begin(p, "unlink_oauth", [way |-> w, user |-> u], << WayRows >>)
          PROVE  IInv'
      <3>1. << WayRows >> \in Plans /\ Planned(<< WayRows >>) = WayRows
        BY RowsThere, PlanOfOne
      <3> QED  BY <2>4, <3>1, AccountAsks
    <2>5. ASSUME Begin(p, "start_totp", u, << {User(u)} >>)
          PROVE  IInv'
      BY <2>2, <2>5, PlanOfOne, AccountAsks
    <2>6. ASSUME NEW m \in MethodRows, Begin(p, "confirm_totp", m, << {m}, MethodRows >>)
          PROVE  IInv'
      BY <2>6, RowsThere, PlanOfTwo, AccountAsks
    <2>7. ASSUME NEW right \in BOOLEAN,
                 Begin(p, "verify_mfa", [user |-> u, right |-> right], << UserRows, MethodRows >>)
          PROVE  IInv'
      BY <2>7, RowsThere, PlanOfTwo, AccountAsks
    <2> QED  BY <2>1, <2>3, <2>4, <2>5, <2>6, <2>7 DEF OwnedBy
  <1> QED  BY <1>1, <1>2, <1>3 DEF AccountRoutes

-----------------------------------------------------------------------------
(* At first: the rows' values are of their tables, and what they hand out   *)
(* is what they make available.                                             *)
LEMMA RowsOfTables ==
  /\ \A r \in TenancyRows :
        \/ \E m \in Members : r = Member(m)
        \/ \E m \in Members, role \in Roles : r = Grant(m, role)
        \/ \E role \in CustomRoles : r = Role(role)
        \/ \E role \in CustomRoles, c \in Permissions : r = Code(role, c)
        \/ \E a, b \in Roles : r = Edge(a, b)
        \/ \E o \in Overrides : r = Override(o)
        \/ \E i \in Invitations : r = Invitation(i)
        \/ r = Entitlements
  /\ \A r \in PlatformRows :
        \/ \E u \in Staff, role \in PlatformRoles : r = StaffGrant(u, role)
        \/ \E role \in PlatformCustomRoles : r = StaffRole(role)
        \/ \E role \in PlatformCustomRoles, c \in PlatformPermissions : r = StaffCode(role, c)
        \/ \E t \in Tenants : r = Tenant(t)
        \/ \E t \in Tenants, u \in Staff : r = Owner(t, u)
        \/ \E i \in Impersonations : r = Impersonation(i)
  /\ \A r \in AccountRows :
        \/ r \in WayRows
        \/ r[1] \in FreeTags
  <1>1. \A r \in TenancyRows :
        \/ \E m \in Members : r = Member(m)
        \/ \E m \in Members, role \in Roles : r = Grant(m, role)
        \/ \E role \in CustomRoles : r = Role(role)
        \/ \E role \in CustomRoles, c \in Permissions : r = Code(role, c)
        \/ \E a, b \in Roles : r = Edge(a, b)
        \/ \E o \in Overrides : r = Override(o)
        \/ \E i \in Invitations : r = Invitation(i)
        \/ r = Entitlements
    BY DEF TenancyRows, Grants, RoleRows, Edges, OverrideRows, InvitationRows
  <1>2. \A r \in PlatformRows :
        \/ \E u \in Staff, role \in PlatformRoles : r = StaffGrant(u, role)
        \/ \E role \in PlatformCustomRoles : r = StaffRole(role)
        \/ \E role \in PlatformCustomRoles, c \in PlatformPermissions : r = StaffCode(role, c)
        \/ \E t \in Tenants : r = Tenant(t)
        \/ \E t \in Tenants, u \in Staff : r = Owner(t, u)
        \/ \E i \in Impersonations : r = Impersonation(i)
    BY DEF PlatformRows, StaffGrants, StaffRoleRows, OwnerRows
  <1>3. \A r \in AccountRows : r \in WayRows \/ r[1] \in FreeTags
    BY AccountTags DEF AccountRows, UserRows, MethodRows, AttemptRows, LockoutRows, FreeTags
  <1> QED  BY <1>1, <1>2, <1>3

LEMMA WayTag ==
  ASSUME NEW r \in WayRows
  PROVE  r[1] \in WayTags
  BY AccountTags DEF WayRows, PasswordWays, WayTags

LEMMA RowOfTenancy ==
  ASSUME NEW f, NEW r \in TenancyRows, f[r] \in TenancyValues(r)
  PROVE  RowOk(Available(f), r, f[r])
  <1>1. CASE \E m \in Members : r = Member(m)
    <2>1. r[1] = "member"  BY <1>1, TenancyTags
    <2>2. f[r] \in Memberships  BY <2>1 DEF TenancyValues
    <2> QED  BY <2>1, <2>2 DEF RowOk, Memberships
  <1>2. ASSUME NEW m \in Members, NEW role \in Roles, r = Grant(m, role)
        PROVE  RowOk(Available(f), r, f[r])
    <2>1. r[1] = "grant" /\ r[3] = role  BY <1>2, TenancyTags
    <2>2. f[r] /\ role \in SystemRoles => SystemCodes[role] \subseteq Available(f)
      BY <1>2 DEF Available, RolesInUse, CodesOf
    <2> QED  BY <2>1, <2>2 DEF RowOk, IsGiven
  <1>3. ASSUME NEW role \in CustomRoles, NEW c \in Permissions, r = Code(role, c)
        PROVE  RowOk(Available(f), r, f[r])
    <2>1. r[1] = "code" /\ r[3] = c  BY <1>3, TenancyTags
    <2>2. f[r] => c \in CodesOf(f, role)  BY <1>3, TenancyAssumption DEF CodesOf
    <2>3. CodesOf(f, role) \subseteq Available(f)  BY DEF Available, RolesInUse
    <2> QED  BY <2>1, <2>2, <2>3 DEF RowOk
  <1>4. ASSUME NEW o \in Overrides, r = Override(o)
        PROVE  RowOk(Available(f), r, f[r])
    <2>1. r[1] = "override"  BY <1>4, TenancyTags
    <2>2. f[r] \in OverrideValues  BY <2>1 DEF TenancyValues
    <2>3. f[r].state = "active" /\ f[r].effect = "allow"
              => f[r].code \in Overridden(f, f[r].member, "allow")
      BY <1>4 DEF Overridden
    <2>4. f[r].member \in Members /\ DOMAIN f[r] = {"state", "member", "code", "effect"}
      BY <2>2 DEF OverrideValues
    <2>5. Overridden(f, f[r].member, "allow") \subseteq Available(f)
      BY <2>4 DEF Available
    <2> QED  BY <2>1, <2>3, <2>4, <2>5 DEF RowOk
  <1>5. ASSUME NEW i \in Invitations, r = Invitation(i)
        PROVE  RowOk(Available(f), r, f[r])
    <2>1. r[1] = "invitation"  BY <1>5, TenancyTags
    <2>2. f[r] \in InvitationValues  BY <2>1 DEF TenancyValues
    <2>3. DOMAIN f[r] = {"status", "roles", "by"} /\ (f[r].by # 0 => f[r].status = "accepted")
      BY <2>2 DEF InvitationValues
    <2>4. ASSUME f[r].status = "pending", NEW role \in f[r].roles, role \in SystemRoles
          PROVE  SystemCodes[role] \subseteq Available(f)
      <3>1. role \in RolesInUse(f)  BY <1>5, <2>4 DEF RolesInUse
      <3> QED  BY <2>4, <3>1 DEF Available, CodesOf
    <2> QED  BY <2>1, <2>3, <2>4 DEF RowOk, IsGiven
  <1>6. CASE \/ \E role \in CustomRoles : r = Role(role)
             \/ \E a, b \in Roles : r = Edge(a, b)
             \/ r = Entitlements
    <2>1. r[1] \in FreeTags  BY <1>6, TenancyTags DEF FreeTags
    <2> QED  BY <2>1, FreeRow
  <1> QED  BY <1>1, <1>2, <1>3, <1>4, <1>5, <1>6, RowsOfTables

LEMMA RowOfPlatform ==
  ASSUME NEW f, NEW r \in PlatformRows, f[r] \in PlatformValues(r)
  PROVE  RowOk(Available(f), r, f[r])
  <1>1. CASE \E t \in Tenants : r = Tenant(t)
    <2>1. r[1] = "tenant"  BY <1>1, PlatformTags
    <2>2. f[r] \in TenantValues  BY <2>1 DEF PlatformValues
    <2> QED  BY <2>1, <2>2 DEF RowOk, TenantValues
  <1>2. ASSUME NEW u \in Staff, NEW role \in PlatformRoles, r = StaffGrant(u, role)
        PROVE  RowOk(Available(f), r, f[r])
    <2>1. r[1] = "staff_grant" /\ r[3] = role  BY <1>2, PlatformTags
    <2>2. f[r] /\ role \in PlatformSystemRoles => PlatformSystemCodes[role] \subseteq Available(f)
      BY <1>2 DEF Available, StaffRolesInUse, StaffCodesOf
    <2> QED  BY <2>1, <2>2 DEF RowOk, StaffIsGiven
  <1>3. ASSUME NEW role \in PlatformCustomRoles, NEW c \in PlatformPermissions,
               r = StaffCode(role, c)
        PROVE  RowOk(Available(f), r, f[r])
    <2>1. r[1] = "staff_code" /\ r[3] = c  BY <1>3, PlatformTags
    <2>2. f[r] => c \in StaffCodesOf(f, role)
      BY <1>3, PlatformAssumption DEF StaffCodesOf
    <2>3. StaffCodesOf(f, role) \subseteq Available(f)  BY DEF Available, StaffRolesInUse
    <2> QED  BY <2>1, <2>2, <2>3 DEF RowOk
  <1>4. CASE \/ \E role \in PlatformCustomRoles : r = StaffRole(role)
             \/ \E t \in Tenants, u \in Staff : r = Owner(t, u)
             \/ \E i \in Impersonations : r = Impersonation(i)
    <2>1. r[1] \in FreeTags  BY <1>4, PlatformTags DEF FreeTags
    <2> QED  BY <2>1, FreeRow
  <1> QED  BY <1>1, <1>2, <1>3, <1>4, RowsOfTables

LEMMA RowOfAccounts ==
  ASSUME NEW f, NEW r \in AccountRows, f[r] \in AccountValues(r)
  PROVE  RowOk(Available(f), r, f[r])
  <1>1. CASE r \in WayRows
    <2>1. r[1] \in WayTags  BY <1>1, WayTag
    <2>2. f[r] \in Ways  BY <1>1, <2>1 DEF AccountValues, WayTags
    <2>3. f[r] = [of |-> f[r].of, active |-> f[r].active] /\ f[r].active \in BOOLEAN
      BY <2>2 DEF Ways
    <2> QED  BY <2>1, <2>3 DEF RowOk, WayTags
  <1>2. CASE r[1] \in FreeTags  BY <1>2, FreeRow
  <1> QED  BY <1>1, <1>2, RowsOfTables

LEMMA AccessStarts == Init => IInv
  <1> SUFFICES ASSUME Init  PROVE IInv
    OBVIOUS
  <1>1. PICK s \in Scenes :
           DbInit(s.rows) /\ runs = s.runs /\ given = Available(s.rows) /\ UowInit(s.already)
    BY DEF Init
  <1>2. /\ DOMAIN s.rows = Rows
        /\ \A r \in Rows : s.rows[r] \in ValuesOf(r)
        /\ Rows = AccessRows
    BY AccessAssumption
  <1>3. db = s.rows /\ \A p \in Requests : draft[p] = NoRows /\ req[p] = Idle
    BY <1>1 DEF DbInit, UowInit
  <1>4. DbOk
    <2> SUFFICES ASSUME NEW r \in Rows  PROVE RowOk(Available(db), r, db[r])
      BY <1>1, <1>3 DEF DbOk
    <2>1. db[r] \in ValuesOf(r) /\ r \in AccessRows  BY <1>2, <1>3
    <2> QED  BY <2>1, RowOfTenancy, RowOfPlatform, RowOfAccounts DEF ValuesOf, AccessRows
  <1>5. UowInv  BY <1>1, <1>2, UowStarts
  <1>6. ASSUME NEW p \in Requests  PROVE DraftOk(p) /\ RequestOk(p)
    <2>1. req[p].kind = "idle" /\ DOMAIN req[p].copy = {} /\ Wrote(p) = {}
      BY <1>3 DEF Idle, NoRows, Wrote
    <2> QED
      BY <2>1 DEF DraftOk, RequestOk, Asked, TenancyAsked, PlatformAsked, AccountAsked,
                  TenancyKinds, MemberKinds, CodeKinds, StaffKinds, StaffGrantKinds,
                  StaffCodeKinds, TenantKinds
  <1> QED  BY <1>4, <1>5, <1>6 DEF IInv

-----------------------------------------------------------------------------
(* No use case changes what is committed: only a commit does. *)
LEMMA OnlyDrafted ==
  /\ \A p, new : Save(p, new) => db' = db
  /\ \A p, r, value : SaveRow(p, r, value) => db' = db
  /\ \A p, new, next, plan : SaveAndGoOn(p, new, next, plan) => db' = db
  BY DEF SaveRow, Save, SaveAndGoOn, Wrote1, Put

LEMMA TenancyDrafts ==
  ASSUME NEW p \in Requests, TenancyUseCase(p)
  PROVE  db' = db
  <1>1. ASSUME SuspendMembership(p) \/ ReactivateMembership(p) \/ RevokeMembership(p)
                  \/ RestoreMembership(p) \/ UpdateMembership(p)
        PROVE  db' = db
    BY <1>1, OnlyDrafted DEF SuspendMembership, ReactivateMembership, RevokeMembership,
       RestoreMembership, UpdateMembership, MoveMembership, SaveMembership
  <1>2. ASSUME AddMemberDirectly(p) \/ InviteMember(p) \/ AcceptInvitation(p) \/ JoinTenant(p)
        PROVE  db' = db
    BY <1>2, OnlyDrafted DEF AddMemberDirectly, InviteMember, AcceptInvitation, JoinTenant
  <1>3. ASSUME AssignMembershipRole(p) \/ RevokeMembershipRole(p) \/ CreateCustomRole(p)
                  \/ AddPermissionToRole(p) \/ RemovePermissionFromRole(p)
        PROVE  db' = db
    BY <1>3, OnlyDrafted DEF AssignMembershipRole, RevokeMembershipRole, CreateCustomRole,
       AddPermissionToRole, RemovePermissionFromRole
  <1>4. ASSUME CreateRoleHierarchyEdge(p) \/ CreateAuthorizationOverride(p)
                  \/ RevokeAuthorizationOverride(p)
        PROVE  db' = db
    BY <1>4, OnlyDrafted DEF CreateRoleHierarchyEdge, CreateAuthorizationOverride,
       RevokeAuthorizationOverride
  <1> QED  BY <1>1, <1>2, <1>3, <1>4 DEF TenancyUseCase

LEMMA PlatformDrafts ==
  ASSUME NEW p \in Requests, PlatformUseCase(p)
  PROVE  db' = db
  <1>1. ASSUME GrantPlatformRole(p) \/ RevokePlatformRole(p) \/ CreateCustomPlatformRole(p)
                  \/ AddPermissionToPlatformRole(p) \/ RemovePermissionFromPlatformRole(p)
        PROVE  db' = db
    BY <1>1, OnlyDrafted DEF GrantPlatformRole, RevokePlatformRole, CreateCustomPlatformRole,
       AddPermissionToPlatformRole, RemovePermissionFromPlatformRole
  <1>2. ASSUME CreateTenant(p) \/ SuspendTenant(p) \/ ReactivateTenant(p) \/ RenameTenant(p)
                  \/ SetTenantAssistantProfile(p)
        PROVE  db' = db
    BY <1>2, OnlyDrafted DEF CreateTenant, SuspendTenant, ReactivateTenant, RenameTenant,
       SetTenantAssistantProfile, MoveTenant, SaveTenant
  <1>3. ASSUME SetTenantEntitlements(p) \/ StartImpersonation(p) \/ EndImpersonation(p)
        PROVE  db' = db
    BY <1>3, OnlyDrafted DEF SetTenantEntitlements, StartImpersonation, EndImpersonation
  <1> QED  BY <1>1, <1>2, <1>3 DEF PlatformUseCase

LEMMA AccountsDraft ==
  ASSUME NEW p \in Requests, AccountUseCase(p)
  PROVE  db' = db
  <1>1. ASSUME RegisterUser(p) \/ CreateUser(p) \/ LoginExisting(p) \/ RegisterViaOAuth(p)
        PROVE  db' = db
    BY <1>1, OnlyDrafted DEF RegisterUser, CreateUser, LoginExisting, RegisterViaOAuth, OpenAccount
  <1>2. ASSUME LinkToCurrentUser(p) \/ UnlinkOAuthAccount(p) \/ StartTotpEnrollment(p)
                  \/ ConfirmTotpEnrollment(p)
        PROVE  db' = db
    BY <1>2, OnlyDrafted DEF LinkToCurrentUser, NewWay, UnlinkOAuthAccount,
       StartTotpEnrollment, ConfirmTotpEnrollment
  <1>3. ASSUME LogIn(p) \/ RefuseLogin(p) \/ RecordFailure(p) \/ VerifyMfaChallenge(p)
        PROVE  db' = db
    BY <1>3, OnlyDrafted DEF LogIn, RefuseLogin, RecordFailure, VerifyMfaChallenge
  <1> QED  BY <1>1, <1>2, <1>3 DEF AccountUseCase

LEMMA OnlyCommitsCount ==
  ASSUME [Next]_vars, db' # db
  PROVE  \E p \in Requests : Commit1(p)
  <1>1. ASSUME NEW p \in Requests, Ask1(p)  PROVE db' = db
    <2>1. \A kind, args, plan : Begin(p, kind, args, plan) => db' = db
      BY DEF Begin, dbVars
    <2>2. CASE TenancyRoutes(p)
      BY <2>1, <2>2 DEF TenancyRoutes, MembershipRoutes, InvitationRoutes, RoleRoutes,
                        OverrideRoutes, Ask
    <2>3. CASE PlatformRoutes(p)
      BY <2>1, <2>3 DEF PlatformRoutes, StaffRoleRoutes, TenantRoutes, ProfileRoutes, PlanRoutes,
                        ImpersonationRoutes, AskPlatform
    <2>4. CASE AccountRoutes(p)
      BY <2>1, <2>4 DEF AccountRoutes, VisitorRoutes, CallbackRoutes, SignedInRoutes
    <2> QED  BY <1>1, <2>2, <2>3, <2>4 DEF Ask1
  <1>2. ASSUME NEW p \in Requests, Step1(p)  PROVE db' = db
    <2>1. Read(p) \/ Abandon(p) => db' = db  BY DEF Read, Abandon, DropRows, dbVars
    <2> QED  BY <1>2, <2>1, TenancyDrafts, PlatformDrafts, AccountsDraft DEF Step1
  <1>3. UNCHANGED vars => db' = db  BY DEF vars, uowVars, dbVars
  <1> QED  BY <1>1, <1>2, <1>3 DEF Next

-----------------------------------------------------------------------------
LEMMA AccessKept == IInv /\ [Next]_vars => IInv'
  <1> SUFFICES ASSUME IInv, [Next]_vars  PROVE IInv'
    OBVIOUS
  <1>1. ASSUME NEW p \in Requests, Ask1(p)  PROVE IInv'
    BY <1>1, TenancyBegins, PlatformBegins, AccountBegins DEF Ask1
  <1>2. ASSUME NEW p \in Requests, Step1(p)  PROVE IInv'
    BY <1>2, AccessRead, AccessAbandon, TenancyKept, PlatformKept, AccountsKept DEF Step1
  <1>3. ASSUME NEW p \in Requests, Commit1(p)  PROVE IInv'
    BY <1>3, AccessCommit DEF Commit1
  <1>4. CASE UNCHANGED vars
    BY <1>4 DEF vars, uowVars, dbVars, IInv, UowInv, OneWriter, RequestInv, Running, Wrote, DbOk,
                DraftOk, RequestOk, Known
  <1> QED  BY <1>1, <1>2, <1>3, <1>4 DEF Next

LEMMA AccessInvariant == Spec => []IInv
  BY AccessStarts, AccessKept, PTL DEF Spec

LEMMA CodesGiven ==
  ASSUME IInv
  PROVE  NoPowerFromNowhere
  <1> USE DEF IInv, DbOk
  <1>1. ASSUME NEW role \in RolesInUse(db)  PROVE CodesOf(db, role) \subseteq given
    <2>1. CASE role \in CustomRoles
      <3>1. \A c \in Permissions : Code(role, c) \in Rows
        BY <2>1, RowsThere DEF RoleRows
      <3>2. role \notin SystemRoles  BY <2>1, TenancyAssumption
      <3> QED  BY <3>1, <3>2, RoleCodesGiven DEF IsGiven
    <2>2. ASSUME role \in SystemRoles, NEW m \in Members, db[Grant(m, role)]
          PROVE  CodesOf(db, role) \subseteq given
      <3>1. RowOk(given, Grant(m, role), db[Grant(m, role)])
        BY <2>2, RowsThere DEF Grants, Roles
      <3>2. IsGiven(given, role)  BY <2>2, <3>1, TenancyTags DEF RowOk
      <3> QED  BY <2>2, <3>2 DEF IsGiven, CodesOf
    <2>3. ASSUME role \in SystemRoles, NEW i \in Invitations,
                 db[Invitation(i)].status = "pending", role \in db[Invitation(i)].roles
          PROVE  CodesOf(db, role) \subseteq given
      <3>1. RowOk(given, Invitation(i), db[Invitation(i)])  BY RowsThere
      <3>2. IsGiven(given, role)  BY <2>3, <3>1, TenancyTags DEF RowOk
      <3> QED  BY <2>3, <3>2 DEF IsGiven, CodesOf
    <2> QED  BY <1>1, <2>1, <2>2, <2>3 DEF RolesInUse
  <1>2. ASSUME NEW m \in Members  PROVE Overridden(db, m, "allow") \subseteq given
    <2> SUFFICES ASSUME NEW o \in Overrides, db[Override(o)].state = "active",
                        db[Override(o)].effect = "allow"
                 PROVE  db[Override(o)].code \in given
      BY DEF Overridden
    <2>1. Override(o) \in Rows  BY RowsThere DEF OverrideRows
    <2>2. RowOk(given, Override(o), db[Override(o)])  BY <2>1, RowsThere
    <2>3. Override(o)[1] = "override"  BY TenancyTags
    <2> QED  BY <2>2, <2>3 DEF RowOk
  <1>3. ASSUME NEW role \in StaffRolesInUse(db)  PROVE StaffCodesOf(db, role) \subseteq given
    <2>1. CASE role \in PlatformCustomRoles
      <3>1. \A c \in PlatformPermissions : StaffCode(role, c) \in Rows
        BY <2>1, RowsThere DEF StaffRoleRows
      <3>2. role \notin PlatformSystemRoles  BY <2>1, PlatformAssumption
      <3> SUFFICES ASSUME NEW c \in PlatformPermissions, db[StaffCode(role, c)]  PROVE c \in given
        BY <3>2 DEF StaffCodesOf
      <3>3. RowOk(given, StaffCode(role, c), db[StaffCode(role, c)])  BY <3>1
      <3> QED  BY <3>3, PlatformTags DEF RowOk
    <2>2. ASSUME role \in PlatformSystemRoles, NEW u \in Staff, db[StaffGrant(u, role)]
          PROVE  StaffCodesOf(db, role) \subseteq given
      <3>1. RowOk(given, StaffGrant(u, role), db[StaffGrant(u, role)])
        BY <2>2, RowsThere DEF StaffGrants, PlatformRoles
      <3>2. StaffIsGiven(given, role)  BY <2>2, <3>1, PlatformTags DEF RowOk
      <3> QED  BY <2>2, <3>2 DEF StaffIsGiven, StaffCodesOf
    <2> QED  BY <1>3, <2>1, <2>2 DEF StaffRolesInUse
  <1> QED  BY <1>1, <1>2, <1>3 DEF NoPowerFromNowhere, Available

(* A committed row changes as MoveOk says, unless it is saved over a change.*)
LEMMA RowsMove ==
  ASSUME IInv, [Next]_vars, NEW r \in Rows \ overwritten, db'[r] # db[r]
  PROVE  \E p \in Requests : Ends(p) /\ MoveOk(req[p].kind, r, db[r], db'[r])
  <1>1. PICK p \in Requests : Commit(p)  BY OnlyCommitsCount DEF Commit1
  <1>2. /\ req'[p] = Idle /\ db'[r] = Seen(p, r)
    BY <1>1, CommitStep DEF IInv
  <1>3. r \in Wrote(p) /\ db'[r] = draft[p][r]  BY <1>2 DEF Seen
  <1>4. MoveOk(req[p].kind, r, db[r], db'[r])  BY <1>3 DEF IInv, DraftOk
  <1>5. Ends(p)
    <2>1. Running(p)
      BY <1>1 DEF Commit, Running, IInv, UowInv, RequestInv, Idle
    <2> QED  BY <1>2, <2>1 DEF Ends, Idle
  <1> QED  BY <1>4, <1>5

-----------------------------------------------------------------------------
(* No code is ever held, or offered by a role or an invitation, that was    *)
(* not at first, for any requests that overlap: CanAssignRole over what the *)
(* actor's rows gave it as they were read (RoleGrantPolicy.can_assign_role).*)
THEOREM AuthorityIsHandedOn == Spec => []NoPowerFromNowhere
  <1>1. IInv => NoPowerFromNowhere  BY CodesGiven
  <1> QED  BY <1>1, AccessInvariant, PTL

(* Suspended and revoked memberships and suspended tenants are active again *)
(* only by a request for that, and an unlinked subject stays unlinked, for  *)
(* any requests that overlap: every save writes the status it has read, or  *)
(* the one its own transition leads to.                                     *)
THEOREM SuspendedUntilRestored == Spec => StatusMovesOnPurpose
  <1> DEFINE Purpose ==
        /\ \A w \in WayRows \ overwritten :
              (db[w].of # Nobody /\ ~db[w].active) => db'[w] = db[w]
        /\ \A x \in {Member(m) : m \in Members} \cup {Tenant(t) : t \in Tenants} :
           (/\ db[x].status \in {"suspended", "revoked"} /\ db'[x].status = "active"
            /\ x \notin overwritten)
               => \E p \in Requests :
                     /\ req[p].kind \in {"reactivate_member", "restore_member", "reactivate_tenant"}
                     /\ Ends(p)
  <1>1. IInv /\ [Next]_vars => Purpose
    <2> SUFFICES ASSUME IInv, [Next]_vars  PROVE Purpose
      OBVIOUS
    <2>1. ASSUME NEW w \in WayRows \ overwritten, db[w].of # Nobody, ~db[w].active,
                 db'[w] # db[w]
          PROVE  FALSE
      <3>1. w \in Rows /\ w[1] \in WayTags  BY RowsThere, WayTag
      <3> QED  BY <2>1, <3>1, RowsMove DEF MoveOk, WayTags
    <2>2. ASSUME NEW x \in {Member(m) : m \in Members} \cup {Tenant(t) : t \in Tenants},
                 db[x].status \in {"suspended", "revoked"}, db'[x].status = "active",
                 x \notin overwritten
          PROVE  \E p \in Requests : req[p].kind \in Restoring /\ Ends(p)
      <3>1. x \in Rows /\ x[1] \in {"member", "tenant"}
        BY RowsThere, TenancyTags, PlatformTags
      <3>2. db'[x] # db[x]  BY <2>2
      <3> QED  BY <2>2, <3>1, <3>2, RowsMove DEF MoveOk
    <2> QED  BY <2>1, <2>2 DEF Restoring
  <1>2. [Next]_vars /\ IInv => [Purpose]_vars  BY <1>1
  <1> QED  BY <1>2, AccessInvariant, PTL DEF Spec, StatusMovesOnPurpose

(* An invitation is accepted by one request, for any requests that overlap, *)
(* unless two had read it pending (AcceptInvitation).                       *)
THEOREM InvitationUsedOnce == Spec => InvitationAcceptedOnce
  <1> DEFINE Once == \A i \in Invitations :
                        (db[Invitation(i)].by # 0 /\ Invitation(i) \notin overwritten)
                            => db'[Invitation(i)].by = db[Invitation(i)].by
  <1>1. IInv /\ [Next]_vars => Once
    <2> SUFFICES ASSUME IInv, [Next]_vars, NEW i \in Invitations, db[Invitation(i)].by # 0,
                        Invitation(i) \notin overwritten, db'[Invitation(i)] # db[Invitation(i)]
                 PROVE  FALSE
      OBVIOUS
    <2> QED  BY RowsThere, TenancyTags, RowsMove DEF MoveOk
  <1>2. [Next]_vars /\ IInv => [Once]_vars  BY <1>1
  <1> QED  BY <1>2, AccessInvariant, PTL DEF Spec, InvitationAcceptedOnce

-----------------------------------------------------------------------------
(* Chains over the hierarchy. *)
Succ(E, R) == R \cup {e[2] : e \in {x \in E : x[1] \in R}}
Closed(E, R) == \A e \in E : e[1] \in R => e[2] \in R
Chain(E, r, k, w) == w = [n \in 0..k |-> IF n = 0 THEN {r} ELSE Succ(E, w[n - 1])]
Within(E, r) == {r} \cup Reached(E, r)

LEMMA SmallestOf ==
  ASSUME NEW S \in SUBSET Nat, S # {}
  PROVE  \E x \in S : \A y \in S : x <= y
  <1>1. PICK x \in S : \A y \in S : <<y, x>> \notin OpToRel(<, Nat)
    BY NatLessThanWellFounded, WFMin
  <1>2. \A y \in S : ~(y < x)  BY <1>1 DEF OpToRel
  <1> QED  BY <1>2

LEMMA ChainExists ==
  ASSUME NEW E, NEW r, NEW k \in Nat
  PROVE  \E w : Chain(E, r, k, w)
  <1> SUFFICES ASSUME ~\E w : Chain(E, r, k, w)  PROVE FALSE
    OBVIOUS
  <1> DEFINE bad == {n \in Nat : ~\E w : Chain(E, r, n, w)}
  <1>1. bad \in SUBSET Nat /\ bad # {}  OBVIOUS
  <1>2. PICK n \in bad : \A m \in bad : n <= m  BY <1>1, SmallestOf
  <1>3. CASE n = 0
    <2> DEFINE w == [m \in 0..0 |-> {r}]
    <2>1. 0..0 = {0}  OBVIOUS
    <2>2. Chain(E, r, 0, w)  BY <2>1 DEF Chain
    <2> QED  BY <1>2, <1>3, <2>2
  <1>4. CASE n # 0
    <2>1. n - 1 \in Nat /\ n \in Nat /\ ~(n <= n - 1)  BY <1>2, <1>4
    <2>2. PICK f : Chain(E, r, n - 1, f)  BY <1>2, <2>1
    <2> DEFINE w == [m \in 0..n |-> IF m = 0 THEN {r} ELSE Succ(E, f[m - 1])]
    <2>3. \A m \in 0..(n - 1) : f[m] = IF m = 0 THEN {r} ELSE Succ(E, f[m - 1])
      BY <2>2 DEF Chain
    <2>4. \A m \in 0..n : m \in 0..(n - 1) => w[m] = f[m]
      BY <2>3
    <2>5. \A m \in 0..n : m # 0 => m - 1 \in 0..(n - 1) /\ m - 1 \in 0..n
      BY <2>1
    <2>6. \A m \in 0..n : w[m] = IF m = 0 THEN {r} ELSE Succ(E, w[m - 1])
      <3> SUFFICES ASSUME NEW m \in 0..n, m # 0  PROVE w[m] = Succ(E, w[m - 1])
        OBVIOUS
      <3>1. w[m - 1] = f[m - 1]  BY <2>4, <2>5
      <3>2. w[m] = Succ(E, f[m - 1])  OBVIOUS
      <3> HIDE DEF w
      <3> QED  BY <3>1, <3>2
    <2>7. w = [m \in 0..n |-> w[m]]  OBVIOUS
    <2> HIDE DEF w
    <2>8. Chain(E, r, n, w)  BY <2>6, <2>7 DEF Chain
    <2> QED  BY <1>2, <2>8
  <1> QED  BY <1>3, <1>4

LEMMA ReachedByChain ==
  ASSUME NEW E, NEW r
  PROVE  \E w : Chain(E, r, MaxHierarchyDepth, w) /\ Reached(E, r) = w[MaxHierarchyDepth] \ {r}
  <1> DEFINE Next1(R) == R \cup {e[2] : e \in {x \in E : x[1] \in R}}
             w == CHOOSE v : v = [n \in 0..MaxHierarchyDepth |->
                                     IF n = 0 THEN {r} ELSE Next1(v[n - 1])]
  <1>1. \E v : v = [n \in 0..MaxHierarchyDepth |-> IF n = 0 THEN {r} ELSE Next1(v[n - 1])]
    <2>1. PICK v : Chain(E, r, MaxHierarchyDepth, v)  BY ChainExists, PoliciesAssumption
    <2>2. \A R : Next1(R) = Succ(E, R)  BY DEF Succ
    <2> HIDE DEF w, Next1
    <2> QED  BY <2>1, <2>2 DEF Chain
  <1>2. w = [n \in 0..MaxHierarchyDepth |-> IF n = 0 THEN {r} ELSE Next1(w[n - 1])]
    BY <1>1
  <1>3. Reached(E, r) = w[MaxHierarchyDepth] \ {r}  BY DEF Reached
  <1>4. Chain(E, r, MaxHierarchyDepth, w)  BY <1>2 DEF Chain, Succ
  <1> QED  BY <1>3, <1>4

(* A chain stays within what is closed. *)
LEMMA ChainStays ==
  ASSUME NEW E, NEW r, NEW k \in Nat, NEW w, Chain(E, r, k, w),
         NEW S, r \in S, Closed(E, S)
  PROVE  \A n \in 0..k : r \in w[n] /\ w[n] \subseteq S
  <1> DEFINE bad == {n \in 0..k : ~(r \in w[n] /\ w[n] \subseteq S)}
  <1> SUFFICES ASSUME bad # {}  PROVE FALSE  OBVIOUS
  <1>1. bad \in SUBSET Nat  OBVIOUS
  <1>2. PICK n \in bad : \A m \in bad : n <= m  BY <1>1, SmallestOf
  <1>3. \A m \in 0..k : w[m] = IF m = 0 THEN {r} ELSE Succ(E, w[m - 1])
    BY DEF Chain
  <1>4. n # 0  BY <1>2, <1>3
  <1>5. n - 1 \in 0..k /\ ~(n <= n - 1)  BY <1>2, <1>4
  <1>6. r \in w[n - 1] /\ w[n - 1] \subseteq S  BY <1>2, <1>5
  <1>7. w[n] = Succ(E, w[n - 1])  BY <1>2, <1>3, <1>4
  <1>8. r \in w[n] /\ w[n] \subseteq S  BY <1>6, <1>7 DEF Succ, Closed
  <1> QED  BY <1>2, <1>8

(* Long enough, it misses nothing: while it grows it grows by one. *)
LEMMA ChainCloses ==
  ASSUME NEW V, IsFiniteSet(V), NEW E \in SUBSET (V \X V), NEW r \in V,
         NEW k \in Nat, k >= Cardinality(V), NEW w, Chain(E, r, k, w)
  PROVE  Closed(E, w[k])
  <1>1. Closed(E, V)  BY DEF Closed
  <1>2. \A n \in 0..k : r \in w[n] /\ w[n] \subseteq V  BY <1>1, ChainStays
  <1>3. \A m \in 0..k : w[m] = IF m = 0 THEN {r} ELSE Succ(E, w[m - 1])
    BY DEF Chain
  <1>f. \A n \in 0..k : /\ IsFiniteSet(w[n]) /\ Cardinality(w[n]) \in Nat
                        /\ Cardinality(w[n]) <= Cardinality(V)
    BY <1>2, FS_Subset, FS_CardinalityType
  <1> DEFINE Ok(n) == Closed(E, w[n]) \/ Cardinality(w[n]) >= n + 1
             bad == {n \in 0..k : ~Ok(n)}
  <1>4. bad = {}
    <2> SUFFICES ASSUME bad # {}  PROVE FALSE  OBVIOUS
    <2>1. bad \in SUBSET Nat  OBVIOUS
    <2>2. PICK n \in bad : \A m \in bad : n <= m  BY <2>1, SmallestOf
    <2>3. n # 0
      <3>1. 0 \in 0..k  OBVIOUS
      <3>2. w[0] = {r}  BY <1>3, <3>1
      <3>3. Cardinality(w[0]) = 1  BY <3>2, FS_Singleton
      <3>4. Ok(0)  BY <3>3
      <3> QED  BY <2>2, <3>4
    <2>4. n - 1 \in 0..k /\ ~(n <= n - 1) /\ n \in 0..k  BY <2>2, <2>3
    <2>5. Ok(n - 1)  BY <2>2, <2>4
    <2>6. w[n] = Succ(E, w[n - 1])  BY <1>3, <2>3, <2>4
    <2>7. CASE Closed(E, w[n - 1])
      <3>1. w[n] = w[n - 1]  BY <2>6, <2>7 DEF Succ, Closed
      <3> QED  BY <2>2, <2>7, <3>1
    <2>8. CASE ~Closed(E, w[n - 1])
      <3>1. Cardinality(w[n - 1]) >= n  BY <2>4, <2>5, <2>8
      <3>2. PICK x \in w[n] : x \notin w[n - 1]  BY <2>6, <2>8 DEF Succ, Closed
      <3>3. w[n - 1] \subseteq w[n]  BY <2>6 DEF Succ
      <3>4. (w[n - 1] \cup {x}) \in SUBSET w[n]  BY <3>2, <3>3
      <3>5. Cardinality(w[n - 1] \cup {x}) = Cardinality(w[n - 1]) + 1
        BY <1>f, <2>4, <3>2, FS_AddElement
      <3>6. Cardinality(w[n - 1] \cup {x}) <= Cardinality(w[n])
        BY <1>f, <2>4, <3>4, FS_Subset
      <3>7. Cardinality(w[n]) \in Nat /\ Cardinality(w[n - 1]) \in Nat  BY <1>f, <2>4
      <3>8. Cardinality(w[n]) >= n + 1  BY <2>4, <3>1, <3>5, <3>6, <3>7
      <3> QED  BY <2>2, <3>8
    <2> QED  BY <2>7, <2>8
  <1>5. k \in 0..k  OBVIOUS
  <1>6. Ok(k)  BY <1>4, <1>5
  <1>7. Cardinality(w[k]) \in Nat /\ Cardinality(w[k]) <= Cardinality(V) /\ Cardinality(V) \in Nat
    BY <1>f, <1>5, FS_CardinalityType
  <1> QED  BY <1>6, <1>7

(* Within is the least set that is closed. *)
LEMMA WithinIsLeast ==
  ASSUME NEW V, IsFiniteSet(V), NEW E \in SUBSET (V \X V), NEW r \in V,
         MaxHierarchyDepth >= Cardinality(V)
  PROVE  /\ r \in Within(E, r) /\ Closed(E, Within(E, r))
         /\ \A S : r \in S /\ Closed(E, S) => Within(E, r) \subseteq S
  <1> DEFINE k == MaxHierarchyDepth
  <1>1. k \in Nat  BY PoliciesAssumption
  <1>2. PICK w : Chain(E, r, k, w) /\ Reached(E, r) = w[k] \ {r}  BY ReachedByChain
  <1>3. k \in 0..k  BY <1>1
  <1> HIDE DEF k
  <1>4. r \in w[k]
    <2>1. r \in V /\ Closed(E, V)  BY DEF Closed
    <2> QED  BY <1>1, <1>2, <1>3, <2>1, ChainStays
  <1>5. Within(E, r) = w[k]  BY <1>2, <1>4 DEF Within
  <1>6. Closed(E, w[k])  BY <1>1, <1>2, ChainCloses DEF k
  <1>7. ASSUME NEW S, r \in S, Closed(E, S)  PROVE w[k] \subseteq S
    BY <1>1, <1>2, <1>3, <1>7, ChainStays
  <1> QED  BY <1>4, <1>5, <1>6, <1>7

NoCycle(E) == \A e \in E : e[1] \notin Within(E, e[2])

LEMMA EdgeAdded ==
  ASSUME NEW V, IsFiniteSet(V), NEW E \in SUBSET (V \X V), NEW a \in V, NEW b \in V,
         MaxHierarchyDepth >= Cardinality(V), NoCycle(E), a \notin Within(E, b)
  PROVE  NoCycle(E \cup {<<a, b>>})
  <1> DEFINE F == E \cup {<<a, b>>}
  <1>1. F \in SUBSET (V \X V)  OBVIOUS
  <1>2. ASSUME NEW x \in V
        PROVE  /\ x \in Within(E, x) /\ Closed(E, Within(E, x))
               /\ \A S : x \in S /\ Closed(E, S) => Within(E, x) \subseteq S
               /\ \A S : x \in S /\ Closed(F, S) => Within(F, x) \subseteq S
    <2>1. /\ x \in Within(E, x) /\ Closed(E, Within(E, x))
          /\ \A S : x \in S /\ Closed(E, S) => Within(E, x) \subseteq S
      BY WithinIsLeast
    <2> HIDE DEF F
    <2>2. \A S : x \in S /\ Closed(F, S) => Within(F, x) \subseteq S
      BY <1>1, WithinIsLeast
    <2> QED  BY <2>1, <2>2
  <1>c. \A S : Closed(E, S) /\ (a \in S => b \in S) => Closed(F, S)
    BY DEF Closed
  <1>3. ASSUME NEW x \in V  PROVE Within(F, x) \subseteq Within(E, x) \cup Within(E, b)
    <2> DEFINE S == Within(E, x) \cup Within(E, b)
    <2>1. x \in S /\ b \in S  BY <1>2
    <2>2. Closed(E, S)  BY <1>2 DEF Closed
    <2> HIDE DEF S, F
    <2>3. Closed(F, S)  BY <1>c, <2>1, <2>2
    <2> QED  BY <1>2, <2>1, <2>3 DEF S
  <1>4. ASSUME NEW x \in V, a \notin Within(E, x)  PROVE Within(F, x) \subseteq Within(E, x)
    <2>1. Closed(F, Within(E, x))  BY <1>2, <1>4, <1>c
    <2> QED  BY <1>2, <2>1
  <1> SUFFICES ASSUME NEW e \in F, e[1] \in Within(F, e[2])  PROVE FALSE
    BY DEF NoCycle
  <1>5. e[1] \in V /\ e[2] \in V  BY <1>1
  <1>6. CASE e = <<a, b>>
    <2>1. a \in Within(F, b)  BY <1>6
    <2> HIDE DEF F
    <2> QED  BY <1>3, <2>1
  <1>7. CASE e \in E
    <2>1. e[1] \notin Within(E, e[2])  BY <1>7 DEF NoCycle
    <2> HIDE DEF F
    <2>2. e[1] \in Within(E, b)  BY <1>3, <1>5, <2>1
    <2>3. a \in Within(E, e[2])  BY <1>4, <1>5, <2>1
    <2>4. e[2] \in Within(E, b)  BY <1>2, <1>7, <2>2 DEF Closed
    <2>5. Within(E, e[2]) \subseteq Within(E, b)  BY <1>2, <1>5, <2>4
    <2> QED  BY <2>3, <2>5
  <1> QED  BY <1>6, <1>7

-----------------------------------------------------------------------------
(* What the hierarchy and the accounts rest on, beside IInv.                *)
AccountTagged == {"user", "password", "oauth", "method", "attempt", "lockout"}
Settled == MethodRows \cap unseen = {}

(* A row's value, and what it may become while `s`, no method was confirmed *)
(* on copies that were not current.                                         *)
Typed(r, x) ==
    /\ r[1] = "address" => x \in Owners
    /\ r[1] \in {"password", "oauth"} => x \in Ways
    /\ r[1] = "method" => /\ x \in Methods
                          /\ x.verified => x.of # Nobody
                          /\ x.primary => x.verified
Grows(s, r, x, y) ==
    /\ r[1] = "user" => (x # "absent" => y # "absent")
    /\ r[1] \in {"password", "oauth", "method"} => (x.of # Nobody => y.of = x.of)
    /\ r[1] = "method" => (s /\ x.verified => y = x)

(* What request p may have written, `f`, in row r. *)
PlainTags == {"member", "grant", "role", "code", "override", "invitation", "entitlements",
              "staff_grant", "staff_role", "staff_code", "tenant", "owner", "impersonation"}

EdgeRule(p, f, r) ==
    /\ req[p].kind = "add_edge" /\ DOMAIN f = {r}
    /\ Arg(p).on \in Roles /\ Arg(p).with \in Roles /\ r = Edge(Arg(p).on, Arg(p).with)
    /\ f[r] = TRUE
    /\ Edges \subseteq DOMAIN req[p].copy
    /\ StaysAcyclic(EdgesIn(req[p].copy), Arg(p).on, Arg(p).with)

UserRule(p, f, r) ==
    /\ f[r] # "absent"
    /\ db[r] # "absent" \/ \E w \in WayRows \cap DOMAIN f : f[w].of = r[2] /\ f[w].active

Unlinked(p, f, r) ==
    /\ req[p].kind = "unlink_oauth" /\ DOMAIN f = {r}
    /\ WayRows \subseteq DOMAIN req[p].copy
    /\ \E w \in WayRows \ {r} : Copy(p, w).of = f[r].of /\ Copy(p, w).active
WayRule(p, f, r) ==
    /\ f[r] \in Ways /\ f[r].of # Nobody /\ db[r].of \in {Nobody, f[r].of}
    /\ f[r].active \/ Unlinked(p, f, r)

Started(p, f, r) == r = Method(Id(p)) /\ ~f[r].verified
Confirmed(p, f, r) ==
    /\ req[p].kind = "confirm_totp" /\ DOMAIN f = {r}
    /\ MethodRows \subseteq DOMAIN req[p].copy
    /\ db[r].of = f[r].of
    /\ LET first == \A m \in MethodsOf(p, f[r].of) : ~Copy(p, m).primary
       IN  f[r] = [Copy(p, r) EXCEPT !.verified = TRUE, !.primary = @ \/ first]
NoPrimary(f, u) == \A m \in MethodRows : f[m].of = u => ~f[m].primary
Used(p, f, r) == f[r].verified /\ r \in DOMAIN req[p].copy /\ f[r] = Copy(p, r)
MethodRule(p, f, r) ==
    /\ r \in MethodRows /\ Typed(r, f[r]) /\ f[r].of # Nobody
    /\ Started(p, f, r) \/ Confirmed(p, f, r) \/ Used(p, f, r)

AttemptRule(p, f, r) ==
    (f[r].result = "invalid_credentials" /\ f[r].of # Nobody) =>
        /\ req[p].kind = "count_failures" /\ r = Attempt(Id(p))
        /\ f[r].of = Holder(p, Arg(p).address) /\ f[r].address = Arg(p).address
LockoutRule(p, f, r) == r = Lockout(Id(p)) /\ f[r].active

Rule(p, f, r) ==
    /\ r[1] \in AccountTagged => r \in Rows
    /\ r[1] = "edge" => EdgeRule(p, f, r)
    /\ r[1] = "user" => UserRule(p, f, r)
    /\ r[1] = "address" => f[r] \in Owners
    /\ r[1] \in {"password", "oauth"} => WayRule(p, f, r)
    /\ r[1] = "method" => MethodRule(p, f, r)
    /\ r[1] = "attempt" => AttemptRule(p, f, r)
    /\ r[1] = "lockout" => LockoutRule(p, f, r)

(* A request counts the failures it has read, and locks out if it should. *)
Counts(p) ==
    /\ Address(Arg(p).address) \in DOMAIN req[p].copy
    /\ AttemptRows \ {Attempt(Id(p))} \subseteq Known(p)
    /\ req[p].done /\ ShouldLock(Failures(p)) =>
           /\ Lockout(Id(p)) \in Wrote(p)
           /\ draft[p][Lockout(Id(p))] = [of |-> Holder(p, Arg(p).address), active |-> TRUE]

DraftSound(p) ==
    /\ \A r \in Wrote(p) : Rule(p, draft[p], r)
    /\ ~req[p].done => \A r \in Wrote(p) : r[1] \in {"invitation", "attempt"}
    /\ req[p].done => req[p].plan = <<>>
    /\ req[p].kind = "count_failures" => Counts(p)

CopySound(p) ==
    \A r \in DOMAIN req[p].copy : Typed(r, Copy(p, r)) /\ Grows(Settled, r, Copy(p, r), db[r])

(* What a request is about, and that it is still there. *)
HierarchyAsked(kind, args, known) ==
    kind = "add_edge" => args.on \in Roles /\ args.with \in Roles /\ Edges \subseteq known
SignInAsked(kind, args, known) ==
    /\ kind = "login" => args.address \in Addresses /\ UserRows \subseteq known
    /\ kind = "oauth" => /\ args.subject \in Subjects /\ OAuthWay(args.subject) \in known
                         /\ UserRows \subseteq known
    /\ kind = "link_oauth" => args.subject \in Subjects /\ args.user \in Users
    /\ kind = "start_totp" => args \in Users
AccountThere(kind, args, known, copy, f) ==
    /\ kind = "unlink_oauth" =>
           /\ args.user \in Users /\ args.way \in WayRows /\ WayRows \subseteq known
           /\ f[args.way].of = args.user
           /\ args.way \in DOMAIN copy => copy[args.way].of = args.user
    /\ kind = "confirm_totp" =>
           /\ args \in MethodRows /\ MethodRows \subseteq known
           /\ f[args].of # Nobody
           /\ args \in DOMAIN copy => copy[args].of # Nobody
    /\ kind = "verify_mfa" =>
           /\ args.user \in Users /\ User(args.user) \in known /\ MethodRows \subseteq known
           /\ f[User(args.user)] # "absent"
           /\ User(args.user) \in DOMAIN copy => copy[User(args.user)] # "absent"
AskedSound(p) ==
    /\ HierarchyAsked(req[p].kind, Arg(p), Known(p))
    /\ SignInAsked(req[p].kind, Arg(p), Known(p))
    /\ AccountThere(req[p].kind, Arg(p), Known(p), req[p].copy, db)

(* The requests' numbers, and the rows they have yet to use. *)
Numbered(p) ==
    Running(p) => /\ Id(p) \in Numbers /\ Id(p) <= begun
                  /\ \A q \in Requests \ {p} : Running(q) => Id(q) # Id(p)
Unused(n) == db[Method(n)].of = Nobody /\ ~db[Lockout(n)].active
NumbersSound ==
    /\ begun \in Numbers
    /\ \A p \in Requests : Numbered(p) /\ (Running(p) => Unused(Id(p)))
    /\ \A n \in Numbers : n > begun => Unused(n)

Sound(p) == DraftSound(p) /\ CopySound(p) /\ AskedSound(p)
WaysKept == WayRows \cap unseen = {} => \A u \in Users : There(u) => HasWayIn(db, u)
PrimaryKept == Settled => \A u \in Users : OnePrimary(db, u)

JInv ==
    /\ NumbersSound
    /\ \A r \in Rows : Typed(r, db[r])
    /\ \A p \in Requests : Sound(p)
    /\ PrimaryKept

-----------------------------------------------------------------------------
(* Whose row is which number's. *)
LEMMA AccountRowsThere ==
  /\ Users = Numbers /\ Nobody \notin Numbers
  /\ \A u \in Users : User(u) \in UserRows /\ User(u) \in Rows /\ User(u)[2] = u
  /\ \A a \in Addresses : Address(a) \in UserRows /\ Address(a) \in Rows
  /\ \A u \in Users : PasswordWay(u) \in WayRows
  /\ \A s \in Subjects : OAuthWay(s) \in WayRows
  /\ \A n \in Numbers : /\ Method(n) \in MethodRows /\ Attempt(n) \in AttemptRows
                        /\ Lockout(n) \in LockoutRows
                        /\ Method(n) \in Rows /\ Attempt(n) \in Rows /\ Lockout(n) \in Rows
  <1>1. Nobody \notin Numbers  BY UnitOfWorkAssumption DEF Nobody, Numbers
  <1>2. \A u : User(u)[2] = u  BY DEF User
  <1>3. /\ \A u \in Users : User(u) \in UserRows /\ PasswordWay(u) \in WayRows
        /\ \A a \in Addresses : Address(a) \in UserRows
        /\ \A s \in Subjects : OAuthWay(s) \in WayRows
    BY DEF UserRows, WayRows, PasswordWays
  <1>4. \A n \in Numbers : /\ Method(n) \in MethodRows /\ Attempt(n) \in AttemptRows
                           /\ Lockout(n) \in LockoutRows
    BY DEF MethodRows, AttemptRows, LockoutRows
  <1> QED  BY <1>1, <1>2, <1>3, <1>4, RowsThere DEF Users

LEMMA NumberOfRow ==
  /\ \A m, n : Method(m) = Method(n) => m = n
  /\ \A m, n : Lockout(m) = Lockout(n) => m = n
  /\ \A a, b, c, d : Edge(a, b) = Edge(c, d) => a = c /\ b = d
  BY DEF Method, Lockout, Edge

LEMMA TagOfRows ==
  /\ \A r \in UserRows : r[1] \in {"user", "address"}
  /\ \A r \in WayRows : r[1] \in {"password", "oauth"}
  /\ \A r \in MethodRows : r[1] = "method"
  /\ \A r \in AttemptRows : r[1] = "attempt"
  /\ \A r \in LockoutRows : r[1] = "lockout"
  /\ \A r \in Edges : r[1] = "edge"
  <1>1. \A r \in UserRows : r[1] \in {"user", "address"}  BY AccountTags DEF UserRows
  <1>2. \A r \in WayRows : r[1] \in {"password", "oauth"}  BY WayTag DEF WayTags
  <1>3. /\ \A r \in MethodRows : r[1] = "method"
        /\ \A r \in AttemptRows : r[1] = "attempt"
        /\ \A r \in LockoutRows : r[1] = "lockout"
    BY AccountTags DEF MethodRows, AttemptRows, LockoutRows
  <1>4. \A r \in Edges : r[1] = "edge"  BY TenancyTags DEF Edges
  <1> QED  BY <1>1, <1>2, <1>3, <1>4

-----------------------------------------------------------------------------
(* How rows grow. *)
LEMMA GrowsNowhere ==
  ASSUME NEW s, NEW r, NEW x
  PROVE  Grows(s, r, x, x)
  BY DEF Grows

LEMMA GrowsOn ==
  ASSUME NEW s, NEW t, t => s, NEW r, NEW x, NEW y, NEW z, Grows(s, r, x, y), Grows(t, r, y, z)
  PROVE  Grows(t, r, x, z)
  <1>1. r[1] = "user" /\ x # "absent" => z # "absent"  BY DEF Grows
  <1>2. r[1] \in {"password", "oauth", "method"} /\ x.of # Nobody => z.of = x.of  BY DEF Grows
  <1>3. r[1] = "method" /\ t /\ x.verified => z = x  BY DEF Grows
  <1> QED  BY <1>1, <1>2, <1>3 DEF Grows

(* Rows of the other tables may have any value. *)
LEMMA PlainRow ==
  ASSUME NEW r, r[1] \notin {"user", "address", "password", "oauth", "method"},
         NEW s, NEW x, NEW y
  PROVE  Typed(r, x) /\ Grows(s, r, x, y)
  BY DEF Typed, Grows

-----------------------------------------------------------------------------
(* The other requests' rules stay true while the rows grow. *)
RowsGrow ==
    /\ Settled' => Settled
    /\ \A r \in Rows : Grows(Settled', r, db[r], db'[r])

LEMMA OthersRule ==
  ASSUME NEW q \in Requests, req'[q] = req[q], draft'[q] = draft[q],
         \A r \in Rows \cap Wrote(q) : db'[r] = db[r],
         NEW r \in Wrote(q), Rule(q, draft[q], r)
  PROVE  Rule(q, draft[q], r)'
  <1>1. r[1] \in AccountTagged => r \in Rows /\ db'[r] = db[r]  BY DEF Rule
  <1> USE DEF Wrote
  <1>2. r[1] = "edge" => EdgeRule(q, draft[q], r)'
    BY DEF Rule, EdgeRule, Arg
  <1>3. r[1] = "user" => UserRule(q, draft[q], r)'
    BY <1>1 DEF Rule, UserRule, AccountTagged
  <1>4. r[1] = "address" => draft'[q][r] \in Owners  BY DEF Rule
  <1>5. r[1] \in {"password", "oauth"} => WayRule(q, draft[q], r)'
    BY <1>1 DEF Rule, WayRule, Unlinked, Copy, AccountTagged
  <1>6. r[1] = "method" => MethodRule(q, draft[q], r)'
    BY <1>1 DEF Rule, MethodRule, Started, Confirmed, Used, Copy, MethodsOf, Id, AccountTagged
  <1>7. r[1] = "attempt" => AttemptRule(q, draft[q], r)'
    BY DEF Rule, AttemptRule, Holder, Copy, Id, Arg
  <1>8. r[1] = "lockout" => LockoutRule(q, draft[q], r)'
    BY DEF Rule, LockoutRule, Id
  <1>9. draft'[q] = draft[q]  OBVIOUS
  <1> QED  BY <1>1, <1>2, <1>3, <1>4, <1>5, <1>6, <1>7, <1>8, <1>9 DEF Rule

LEMMA OthersSound ==
  ASSUME IInv, NEW q \in Requests, req'[q] = req[q], draft'[q] = draft[q],
         \A r \in Rows \cap Wrote(q) : db'[r] = db[r],
         RowsGrow, Sound(q)
  PROVE  Sound(q)'
  <1>1. Wrote(q)' = Wrote(q) /\ Known(q)' = Known(q)  BY DEF Wrote, Known
  <1>2. DraftSound(q)'
    <2>1. \A r \in Wrote(q) : Rule(q, draft[q], r)'
      BY OthersRule DEF Sound, DraftSound
    <2>2. req[q].kind = "count_failures" => Counts(q)'
      BY <1>1 DEF Sound, DraftSound, Counts, Failures, Holder, Copy, Id, Arg
    <2> QED  BY <1>1, <2>1, <2>2 DEF Sound, DraftSound
  <1>3. CopySound(q)'
    <2> SUFFICES ASSUME NEW r \in DOMAIN req[q].copy
                 PROVE  Typed(r, req[q].copy[r]) /\ Grows(Settled', r, req[q].copy[r], db'[r])
      BY DEF CopySound, Copy
    <2>1. Typed(r, req[q].copy[r]) /\ Grows(Settled, r, req[q].copy[r], db[r])
      BY DEF Sound, CopySound, Copy
    <2>2. r \in Rows  BY DEF IInv, UowInv, RequestInv, IsRequest
    <2> QED  BY <2>1, <2>2, GrowsOn DEF RowsGrow
  <1>4. AskedSound(q)'
    <2>1. HierarchyAsked(req[q].kind, Arg(q), Known(q)) /\ SignInAsked(req[q].kind, Arg(q), Known(q))
      BY DEF Sound, AskedSound
    <2>2. AccountThere(req[q].kind, Arg(q), Known(q), req[q].copy, db)
      BY DEF Sound, AskedSound
    <2>3. AccountThere(req[q].kind, Arg(q), Known(q), req[q].copy, db')
      <3>1. \A w \in WayRows : db[w].of \in Users => db'[w].of = db[w].of
        BY RowsThere, TagOfRows, AccountRowsThere DEF RowsGrow, Grows
      <3>2. \A m \in MethodRows : db[m].of # Nobody => db'[m].of # Nobody
        BY RowsThere, TagOfRows DEF RowsGrow, Grows
      <3>3. \A u \in Users : db[User(u)] # "absent" => db'[User(u)] # "absent"
        BY AccountRowsThere, AccountTags DEF RowsGrow, Grows
      <3> QED  BY <2>2, <3>1, <3>2, <3>3 DEF AccountThere
    <2> QED  BY <1>1, <2>1, <2>3 DEF AskedSound, Arg
  <1> QED  BY <1>2, <1>3, <1>4 DEF Sound

-----------------------------------------------------------------------------
(* A request arrives. *)
LEMMA Arrives ==
  ASSUME UowInv, NEW p \in Requests, NEW kind, NEW args, NEW plan, Begin(p, kind, args, plan)
  PROVE  /\ ~Running(p) /\ begun < MaxRequests /\ begun' = begun + 1
         /\ OthersStay(p) /\ db' = db /\ draft' = draft
         /\ req'[p].kind = kind /\ req'[p].args = args /\ req'[p].id = begun + 1
         /\ req'[p].done = FALSE /\ req'[p].plan = plan /\ req'[p].copy = NoRows
         /\ Wrote(p)' = {} /\ Known(p)' = Planned(plan)
  <1> DEFINE new == [Idle EXCEPT !.kind = kind, !.id = begun + 1, !.args = args, !.plan = plan]
  <1>1. /\ new.kind = kind /\ new.args = args /\ new.plan = plan /\ new.id = begun + 1
        /\ new.copy = NoRows /\ new.done = FALSE
    BY DEF Idle
  <1>2. DOMAIN NoRows = {}  BY DEF NoRows
  <1> HIDE DEF new
  <1>3. /\ req' = [req EXCEPT ![p] = new] /\ ~Running(p)
        /\ begun < MaxRequests /\ begun' = begun + 1 /\ db' = db /\ draft' = draft
    BY DEF Begin, dbVars, new
  <1>4. req'[p] = new /\ OthersStay(p)
    BY <1>3 DEF UowInv, OthersStay
  <1>5. draft[p] = NoRows
    <2>1. req[p] = Idle  BY <1>3 DEF UowInv, RequestInv
    <2> QED  BY <2>1 DEF UowInv, RequestInv, Idle, GoesOnKinds
  <1>6. Wrote(p)' = {} /\ Known(p)' = Planned(plan)
    BY <1>1, <1>2, <1>3, <1>4, <1>5 DEF Wrote, Known
  <1> QED  BY <1>1, <1>3, <1>4, <1>6

LEMMA NumbersBegin ==
  ASSUME IInv, NumbersSound, NEW p \in Requests, OthersStay(p), db' = db,
         begun < MaxRequests, begun' = begun + 1, req'[p].id = begun + 1
  PROVE  NumbersSound'
  <1>1. begun \in Nat /\ begun + 1 \in Numbers /\ begun + 1 > begun /\ begun <= begun + 1
    BY UnitOfWorkAssumption DEF NumbersSound, Numbers
  <1>2. ASSUME NEW q \in Requests  PROVE Numbered(q)' /\ (Running(q)' => Unused(Id(q))')
    <2>1. CASE q = p
      <3>1. \A x \in Requests \ {p} : Running(x)' => Id(x)' # begun + 1
        <4> SUFFICES ASSUME NEW x \in Requests \ {p}, Running(x)  PROVE Id(x) # begun + 1
          BY DEF OthersStay, Running, Id
        <4>1. Id(x) \in Nat /\ Id(x) <= begun  BY DEF NumbersSound, Numbered, Numbers
        <4> QED  BY <1>1, <4>1
      <3>2. Unused(begun + 1)  BY <1>1 DEF NumbersSound
      <3> QED  BY <1>1, <2>1, <3>1, <3>2 DEF Numbered, Unused, Id
    <2>2. CASE q # p
      <3>1. req'[q] = req[q]  BY <2>2 DEF OthersStay
      <3> SUFFICES ASSUME Running(q)
                   PROVE  /\ Id(q) \in Numbers /\ Id(q) <= begun + 1
                          /\ \A x \in Requests \ {q} : Running(x)' => Id(x)' # Id(q)
                          /\ Unused(Id(q))
        BY <3>1 DEF Numbered, Running, Id, Unused
      <3>2. Id(q) \in Numbers /\ Id(q) <= begun /\ Unused(Id(q))  BY DEF NumbersSound, Numbered
      <3>3. Id(q) <= begun + 1 /\ Id(q) # begun + 1  BY <1>1, <3>2 DEF Numbers
      <3>4. ASSUME NEW x \in Requests \ {q}, Running(x)'  PROVE Id(x)' # Id(q)
        <4>1. CASE x = p  BY <3>3, <4>1 DEF Id
        <4>2. CASE x # p
          <5>1. Running(x) /\ Id(x)' = Id(x)  BY <3>4, <4>2 DEF OthersStay, Running, Id
          <5> QED  BY <5>1 DEF NumbersSound, Numbered
        <4> QED  BY <4>1, <4>2
      <3> QED  BY <3>2, <3>3, <3>4
    <2> QED  BY <2>1, <2>2
  <1>3. \A n \in Numbers : n > begun + 1 => Unused(n)'
    <2> SUFFICES ASSUME NEW n \in Numbers, n > begun + 1  PROVE Unused(n)
      BY DEF Unused
    <2>1. n > begun  BY <1>1 DEF Numbers
    <2> QED  BY <2>1 DEF NumbersSound
  <1> QED  BY <1>1, <1>2, <1>3 DEF NumbersSound

(* While nothing is committed nothing changes but for the one who moves. *)
LEMMA RowsStay ==
  ASSUME db' = db, unseen' = unseen
  PROVE  RowsGrow
  BY GrowsNowhere DEF RowsGrow, Settled

LEMMA NothingCommitted ==
  ASSUME IInv, JInv, NEW p \in Requests, OthersStay(p), db' = db, unseen' = unseen,
         NumbersSound', Sound(p)'
  PROVE  JInv'
  <1>1. \A q \in Requests \ {p} : Sound(q)'
    BY RowsStay, OthersSound DEF OthersStay, JInv
  <1>2. PrimaryKept'  BY DEF JInv, PrimaryKept, Settled, OnePrimary
  <1> QED  BY <1>1, <1>2 DEF JInv

LEMMA AccountsBegin ==
  ASSUME IInv, JInv, NEW p \in Requests, unseen' = unseen,
         NEW kind, kind # "count_failures", NEW args, NEW plan, Begin(p, kind, args, plan),
         HierarchyAsked(kind, args, Planned(plan)),
         SignInAsked(kind, args, Planned(plan)),
         AccountThere(kind, args, Planned(plan), NoRows, db)
  PROVE  JInv'
  <1>1. /\ begun < MaxRequests /\ begun' = begun + 1
        /\ OthersStay(p) /\ db' = db /\ draft' = draft
        /\ req'[p].kind = kind /\ req'[p].args = args /\ req'[p].id = begun + 1
        /\ req'[p].done = FALSE /\ req'[p].copy = NoRows
        /\ Wrote(p)' = {} /\ Known(p)' = Planned(plan)
    BY Arrives DEF IInv
  <1>2. NumbersSound'  BY <1>1, NumbersBegin DEF JInv
  <1>3. DOMAIN NoRows = {}  BY DEF NoRows
  <1>4. Sound(p)'
    <2>1. DraftSound(p)'  BY <1>1 DEF DraftSound
    <2>2. CopySound(p)'  BY <1>1, <1>3 DEF CopySound
    <2>3. AskedSound(p)'  BY <1>1 DEF AskedSound, Arg
    <2> QED  BY <2>1, <2>2, <2>3 DEF Sound
  <1> QED  BY <1>1, <1>2, <1>4, NothingCommitted

(* Nobody else asks about the hierarchy or an account. *)
AskedKinds == {"add_edge", "login", "oauth", "link_oauth", "start_totp", "unlink_oauth",
               "confirm_totp", "verify_mfa", "count_failures"}

LEMMA OthersBegin ==
  ASSUME IInv, JInv, NEW p \in Requests, unseen' = unseen,
         NEW kind, kind \notin AskedKinds, NEW args, NEW plan, Begin(p, kind, args, plan)
  PROVE  JInv'
  <1>1. /\ HierarchyAsked(kind, args, Planned(plan)) /\ SignInAsked(kind, args, Planned(plan))
        /\ AccountThere(kind, args, Planned(plan), NoRows, db) /\ kind # "count_failures"
    BY DEF AskedKinds, HierarchyAsked, SignInAsked, AccountThere
  <1> QED  BY <1>1, AccountsBegin

LEMMA EdgeAsked ==
  ASSUME IInv, JInv, NEW p \in Requests, unseen' = unseen,
         NEW a \in Members, NEW r \in Roles, NEW s \in Roles,
         Ask(p, "add_edge", a, r, s, <<Edges>>)
  PROVE  JInv'
  <1> DEFINE args == [actor |-> a, on |-> r, with |-> s]
             plan == Authority(a) \o <<Edges>>
  <1>1. args.on = r /\ args.with = s  OBVIOUS
  <1>2. Edges \subseteq Planned(plan)
    BY AuthorityPlan, PlanOfOne, JoinedPlan, RowsThere
  <1>3. Begin(p, "add_edge", args, plan)  BY DEF Ask
  <1> HIDE DEF args, plan
  <1>4. /\ HierarchyAsked("add_edge", args, Planned(plan))
        /\ SignInAsked("add_edge", args, Planned(plan))
        /\ AccountThere("add_edge", args, Planned(plan), NoRows, db)
    BY <1>1, <1>2 DEF HierarchyAsked, SignInAsked, AccountThere
  <1> QED  BY <1>3, <1>4, AccountsBegin

LEMMA TenancyArrives ==
  ASSUME IInv, JInv, NEW p \in Requests, unseen' = unseen, TenancyRoutes(p)
  PROVE  JInv'
  <1>1. ASSUME MembershipRoutes(p)  PROVE JInv'
    BY <1>1, OthersBegin DEF MembershipRoutes, Ask, AskedKinds
  <1>2. ASSUME InvitationRoutes(p)  PROVE JInv'
    BY <1>2, OthersBegin DEF InvitationRoutes, Ask, AskedKinds
  <1>3. ASSUME RoleRoutes(p)  PROVE JInv'
    <2>1. ASSUME NEW a, NEW on, NEW with, NEW plan,
                 NEW kind \in {"assign_role", "revoke_role", "create_role", "add_code", "remove_code"},
                 Ask(p, kind, a, on, with, plan)
          PROVE  JInv'
      BY <2>1, OthersBegin DEF Ask, AskedKinds
    <2> QED  BY <1>3, <2>1, EdgeAsked DEF RoleRoutes
  <1>4. ASSUME OverrideRoutes(p)  PROVE JInv'
    BY <1>4, OthersBegin DEF OverrideRoutes, Ask, AskedKinds
  <1> QED  BY <1>1, <1>2, <1>3, <1>4 DEF TenancyRoutes

LEMMA PlatformArrives ==
  ASSUME IInv, JInv, NEW p \in Requests, unseen' = unseen, PlatformRoutes(p)
  PROVE  JInv'
  <1>1. ASSUME StaffRoleRoutes(p)  PROVE JInv'
    BY <1>1, OthersBegin DEF StaffRoleRoutes, AskPlatform, AskedKinds
  <1>2. ASSUME TenantRoutes(p) \/ ProfileRoutes(p)  PROVE JInv'
    BY <1>2, OthersBegin DEF TenantRoutes, ProfileRoutes, AskPlatform, AskedKinds
  <1>3. ASSUME PlanRoutes(p) \/ ImpersonationRoutes(p)  PROVE JInv'
    BY <1>3, OthersBegin DEF PlanRoutes, ImpersonationRoutes, AskPlatform, AskedKinds
  <1> QED  BY <1>1, <1>2, <1>3 DEF PlatformRoutes

LEMMA AccountsArrive ==
  ASSUME IInv, JInv, NEW p \in Requests, unseen' = unseen, AccountRoutes(p)
  PROVE  JInv'
  <1>0. DOMAIN NoRows = {}  BY DEF NoRows
  <1>1. CASE VisitorRoutes(p)
    <2>1. ASSUME NEW a \in Addresses, NEW kind \in {"register", "create_user"},
                 Begin(p, kind, a, << UserRows >>)
          PROVE  JInv'
      BY <2>1, OthersBegin DEF AskedKinds
    <2>2. ASSUME NEW a \in Addresses, NEW right \in BOOLEAN,
                 Begin(p, "login", [address |-> a, right |-> right],
                       << UserRows, LockoutRows, PasswordWays, MethodRows >>)
          PROVE  JInv'
      <3> DEFINE args == [address |-> a, right |-> right]
                 plan == << UserRows, LockoutRows, PasswordWays, MethodRows >>
      <3>1. args.address = a  OBVIOUS
      <3>2. UserRows \subseteq Planned(plan)  BY RowsThere, PlanOfFour
      <3>3. Begin(p, "login", args, plan)  BY <2>2
      <3> HIDE DEF args, plan
      <3>4. /\ HierarchyAsked("login", args, Planned(plan))
            /\ SignInAsked("login", args, Planned(plan))
            /\ AccountThere("login", args, Planned(plan), NoRows, db)
        BY <3>1, <3>2 DEF HierarchyAsked, SignInAsked, AccountThere
      <3> QED  BY <3>3, <3>4, AccountsBegin
    <2> QED  BY <1>1, <2>1, <2>2 DEF VisitorRoutes
  <1>2. CASE CallbackRoutes(p)
    <2>1. PICK s \in Subjects, a \in Addresses :
             Begin(p, "oauth", [subject |-> s, address |-> a], << {OAuthWay(s)}, UserRows >>)
      BY <1>2 DEF CallbackRoutes
    <2> DEFINE args == [subject |-> s, address |-> a]
               plan == << {OAuthWay(s)}, UserRows >>
    <2>2. args.subject = s  OBVIOUS
    <2>3. UserRows \subseteq Planned(plan) /\ OAuthWay(s) \in Planned(plan)
      <3>1. OAuthWay(s) \in Rows  BY AccountRowsThere, RowsThere
      <3> QED  BY <3>1, RowsThere, PlanOfTwo
    <2>4. Begin(p, "oauth", args, plan)  BY <2>1
    <2> HIDE DEF args, plan
    <2>5. /\ HierarchyAsked("oauth", args, Planned(plan))
          /\ SignInAsked("oauth", args, Planned(plan))
          /\ AccountThere("oauth", args, Planned(plan), NoRows, db)
      BY <2>2, <2>3 DEF HierarchyAsked, SignInAsked, AccountThere
    <2> QED  BY <2>4, <2>5, AccountsBegin
  <1>3. CASE SignedInRoutes(p)
    <2>1. PICK u \in Users :
             /\ There(u)
             /\ \/ \E s \in Subjects :
                       Begin(p, "link_oauth", [subject |-> s, user |-> u],
                             << {OAuthWay(s)}, {User(u)} >>)
                \/ \E w \in OwnedBy(u, WayRows) :
                       Begin(p, "unlink_oauth", [way |-> w, user |-> u], << WayRows >>)
                \/ Begin(p, "start_totp", u, << {User(u)} >>)
                \/ \E m \in OwnedBy(u, MethodRows) :
                       Begin(p, "confirm_totp", m, << {m}, MethodRows >>)
                \/ \E right \in BOOLEAN :
                       Begin(p, "verify_mfa", [user |-> u, right |-> right],
                             << UserRows, MethodRows >>)
      BY <1>3 DEF SignedInRoutes
    <2>2. User(u) \in UserRows /\ u # Nobody  BY AccountRowsThere
    <2>3. ASSUME NEW s \in Subjects,
                 Begin(p, "link_oauth", [subject |-> s, user |-> u], << {OAuthWay(s)}, {User(u)} >>)
          PROVE  JInv'
      <3> DEFINE args == [subject |-> s, user |-> u]
                 plan == << {OAuthWay(s)}, {User(u)} >>
      <3>1. args.subject = s /\ args.user = u  OBVIOUS
      <3>2. Begin(p, "link_oauth", args, plan)  BY <2>3
      <3> HIDE DEF args, plan
      <3>3. /\ HierarchyAsked("link_oauth", args, Planned(plan))
            /\ SignInAsked("link_oauth", args, Planned(plan))
            /\ AccountThere("link_oauth", args, Planned(plan), NoRows, db)
        BY <3>1 DEF HierarchyAsked, SignInAsked, AccountThere
      <3> QED  BY <3>2, <3>3, AccountsBegin
    <2>4. ASSUME NEW w \in OwnedBy(u, WayRows),
                 Begin(p, "unlink_oauth", [way |-> w, user |-> u], << WayRows >>)
          PROVE  JInv'
      <3> DEFINE args == [way |-> w, user |-> u]
                 plan == << WayRows >>
      <3>1. args.way = w /\ args.user = u  OBVIOUS
      <3>2. Begin(p, "unlink_oauth", args, plan)  BY <2>4
      <3>3. Planned(plan) = WayRows  BY RowsThere, PlanOfOne
      <3>4. w \in WayRows /\ db[w].of = u  BY DEF OwnedBy
      <3> HIDE DEF args, plan
      <3>5. /\ HierarchyAsked("unlink_oauth", args, Planned(plan))
            /\ SignInAsked("unlink_oauth", args, Planned(plan))
            /\ AccountThere("unlink_oauth", args, Planned(plan), NoRows, db)
        BY <1>0, <3>1, <3>3, <3>4 DEF HierarchyAsked, SignInAsked, AccountThere
      <3> QED  BY <3>2, <3>5, AccountsBegin
    <2>5. ASSUME Begin(p, "start_totp", u, << {User(u)} >>)
          PROVE  JInv'
      <3> DEFINE plan == << {User(u)} >>
      <3>1. Begin(p, "start_totp", u, plan)  BY <2>5
      <3> HIDE DEF plan
      <3>2. /\ HierarchyAsked("start_totp", u, Planned(plan))
            /\ SignInAsked("start_totp", u, Planned(plan))
            /\ AccountThere("start_totp", u, Planned(plan), NoRows, db)
        BY DEF HierarchyAsked, SignInAsked, AccountThere
      <3> QED  BY <3>1, <3>2, AccountsBegin
    <2>6. ASSUME NEW m \in OwnedBy(u, MethodRows),
                 Begin(p, "confirm_totp", m, << {m}, MethodRows >>)
          PROVE  JInv'
      <3> DEFINE plan == << {m}, MethodRows >>
      <3>1. m \in MethodRows /\ db[m].of = u  BY DEF OwnedBy
      <3>2. MethodRows \subseteq Planned(plan)  BY <3>1, RowsThere, PlanOfTwo
      <3>3. Begin(p, "confirm_totp", m, plan)  BY <2>6
      <3> HIDE DEF plan
      <3>4. /\ HierarchyAsked("confirm_totp", m, Planned(plan))
            /\ SignInAsked("confirm_totp", m, Planned(plan))
            /\ AccountThere("confirm_totp", m, Planned(plan), NoRows, db)
        BY <1>0, <2>2, <3>1, <3>2 DEF HierarchyAsked, SignInAsked, AccountThere
      <3> QED  BY <3>3, <3>4, AccountsBegin
    <2>7. ASSUME NEW right \in BOOLEAN,
                 Begin(p, "verify_mfa", [user |-> u, right |-> right], << UserRows, MethodRows >>)
          PROVE  JInv'
      <3> DEFINE args == [user |-> u, right |-> right]
                 plan == << UserRows, MethodRows >>
      <3>1. args.user = u  OBVIOUS
      <3>2. UserRows \subseteq Planned(plan) /\ MethodRows \subseteq Planned(plan)
        BY RowsThere, PlanOfTwo
      <3>3. Begin(p, "verify_mfa", args, plan)  BY <2>7
      <3> HIDE DEF args, plan
      <3>4. /\ HierarchyAsked("verify_mfa", args, Planned(plan))
            /\ SignInAsked("verify_mfa", args, Planned(plan))
            /\ AccountThere("verify_mfa", args, Planned(plan), NoRows, db)
        BY <1>0, <2>1, <2>2, <3>1, <3>2 DEF HierarchyAsked, SignInAsked, AccountThere, There
      <3> QED  BY <3>3, <3>4, AccountsBegin
    <2> QED  BY <2>1, <2>3, <2>4, <2>5, <2>6, <2>7
  <1> QED  BY <1>1, <1>2, <1>3 DEF AccountRoutes

-----------------------------------------------------------------------------
(* A request reads. *)
LEMMA WroteBeforeDone ==
  ASSUME JInv, NEW p \in Requests, ~req[p].done
  PROVE  \A r \in Rows : r[1] \notin {"invitation", "attempt"} => Seen(p, r) = db[r]
  BY DEF JInv, Sound, DraftSound, Seen

LEMMA NumbersRead ==
  ASSUME IInv, NumbersSound, NEW p \in Requests, OthersStay(p), db' = db, begun' = begun,
         Running(p), Id(p)' = Id(p)
  PROVE  NumbersSound'
  <1>1. ASSUME NEW q \in Requests, Running(q)'  PROVE Running(q) /\ Id(q)' = Id(q)
    BY <1>1 DEF OthersStay, Running, Id
  <1>2. ASSUME NEW q \in Requests  PROVE Numbered(q)' /\ (Running(q)' => Unused(Id(q))')
    <2> SUFFICES ASSUME Running(q)'
                 PROVE  /\ Id(q)' \in Numbers /\ Id(q)' <= begun
                        /\ \A x \in Requests \ {q} : Running(x)' => Id(x)' # Id(q)'
                        /\ Unused(Id(q))
      BY <1>1 DEF Numbered, Unused
    <2>1. Id(q) \in Numbers /\ Id(q) <= begun /\ Unused(Id(q))
      BY <1>1 DEF NumbersSound, Numbered
    <2>2. \A x \in Requests \ {q} : Running(x)' => Id(x)' # Id(q)'
      BY <1>1 DEF NumbersSound, Numbered
    <2> QED  BY <1>1, <2>1, <2>2
  <1>3. \A n \in Numbers : n > begun => Unused(n)'  BY DEF NumbersSound, Unused
  <1> QED  BY <1>2, <1>3 DEF NumbersSound

LEMMA AccountsRead ==
  ASSUME IInv, JInv, NEW p \in Requests, unseen' = unseen, Read(p)
  PROVE  JInv'
  <1>1. /\ OthersStay(p) /\ db' = db /\ draft' = draft
        /\ req'[p].kind = req[p].kind /\ req'[p].args = req[p].args
        /\ req'[p].id = req[p].id /\ req'[p].done = req[p].done
        /\ Known(p)' = Known(p)
        /\ DOMAIN req[p].copy \subseteq DOMAIN req'[p].copy
        /\ \A r \in DOMAIN req[p].copy : req'[p].copy[r] = req[p].copy[r]
        /\ \A r \in DOMAIN req'[p].copy \ DOMAIN req[p].copy :
               r \in Rows /\ req'[p].copy[r] = Seen(p, r)
    BY ReadStep DEF IInv
  <1>2. begun' = begun /\ req[p].plan # <<>>  BY DEF Read
  <1>3. Running(p)  BY <1>2 DEF IInv, UowInv, RequestInv, Idle
  <1>4. NumbersSound'  BY <1>1, <1>2, <1>3, NumbersRead DEF JInv, Id
  <1>5. Sound(p)  BY DEF JInv
  <1>6. ~req[p].done  BY <1>2, <1>5 DEF Sound, DraftSound
  <1>7. DraftSound(p)'
    <2>1. ASSUME NEW r \in Wrote(p)  PROVE Rule(p, draft[p], r)' /\ r[1] \in {"invitation", "attempt"}
      <3>1. r[1] \in {"invitation", "attempt"} /\ Rule(p, draft[p], r)
        BY <1>5, <1>6 DEF Sound, DraftSound
      <3>2. CASE r[1] = "invitation"  BY <3>2 DEF Rule, AccountTagged
      <3>3. CASE r[1] = "attempt"
        <4>1. r \in Rows /\ AttemptRule(p, draft[p], r)  BY <3>1, <3>3 DEF Rule, AccountTagged
        <4>2. AttemptRule(p, draft[p], r)'
          <5>1. req[p].kind = "count_failures" => Address(Arg(p).address) \in DOMAIN req[p].copy
            BY <1>5 DEF Sound, DraftSound, Counts
          <5> QED  BY <1>1, <4>1, <5>1 DEF AttemptRule, Holder, Copy, Id, Arg
        <4> QED  BY <3>3, <4>1, <4>2 DEF Rule, AccountTagged
      <3> QED  BY <3>1, <3>2, <3>3
    <2>2. req[p].kind = "count_failures" => Counts(p)'
      BY <1>1, <1>5, <1>6 DEF Sound, DraftSound, Counts, Id, Arg
    <2> QED  BY <1>1, <1>6, <2>1, <2>2 DEF DraftSound, Wrote
  <1>8. CopySound(p)'
    <2> SUFFICES ASSUME NEW r \in DOMAIN req'[p].copy
                 PROVE  /\ Typed(r, req'[p].copy[r])
                        /\ Grows(Settled, r, req'[p].copy[r], db[r])
      BY <1>1 DEF CopySound, Copy, Settled
    <2>1. CASE r \in DOMAIN req[p].copy
      BY <1>1, <1>5, <2>1 DEF Sound, CopySound, Copy
    <2>2. CASE r \notin DOMAIN req[p].copy
      <3>1. r \in Rows /\ req'[p].copy[r] = Seen(p, r)  BY <1>1, <2>2
      <3>2. CASE r[1] \in {"invitation", "attempt"}  BY <3>2, PlainRow
      <3>3. CASE r[1] \notin {"invitation", "attempt"}
        BY <1>6, <3>1, <3>3, WroteBeforeDone, GrowsNowhere DEF JInv
      <3> QED  BY <3>2, <3>3
    <2> QED  BY <2>1, <2>2
  <1>9. AskedSound(p)'
    <2>1. HierarchyAsked(req[p].kind, Arg(p), Known(p)) /\ SignInAsked(req[p].kind, Arg(p), Known(p))
      BY <1>5 DEF Sound, AskedSound
    <2>2. AccountThere(req[p].kind, Arg(p), Known(p), req[p].copy, db)
      BY <1>5 DEF Sound, AskedSound
    <2>3. AccountThere(req[p].kind, Arg(p), Known(p), req'[p].copy, db)
      <3>1. \A r \in WayRows \cup MethodRows \cup UserRows :
               r \in DOMAIN req'[p].copy => \/ r \in DOMAIN req[p].copy /\ req'[p].copy[r] = req[p].copy[r]
                                            \/ req'[p].copy[r] = db[r]
        <4> SUFFICES ASSUME NEW r \in WayRows \cup MethodRows \cup UserRows,
                            r \in DOMAIN req'[p].copy, r \notin DOMAIN req[p].copy
                     PROVE  req'[p].copy[r] = db[r]
          BY <1>1
        <4>1. r \in Rows /\ req'[p].copy[r] = Seen(p, r)  BY <1>1
        <4>2. r[1] \notin {"invitation", "attempt"}  BY TagOfRows
        <4> QED  BY <1>6, <4>1, <4>2, WroteBeforeDone
      <3>2. \A u \in Users : User(u) \in UserRows  BY AccountRowsThere
      <3> QED  BY <2>2, <3>1, <3>2 DEF AccountThere
    <2> QED  BY <1>1, <2>1, <2>3 DEF AskedSound, Arg
  <1>10. Sound(p)'  BY <1>7, <1>8, <1>9 DEF Sound
  <1> QED  BY <1>1, <1>4, <1>10, NothingCommitted

-----------------------------------------------------------------------------
(* A request writes. *)
LEMMA RuleDrafted ==
  ASSUME NEW p \in Requests, NEW new, NEW r \in DOMAIN new, Rule(p, new, r),
         \A x \in DOMAIN new : draft'[p][x] = new[x],
         DOMAIN draft'[p] = DOMAIN new \/ r[1] \in PlainTags \cup {"attempt", "lockout"},
         db' = db, req'[p].kind = req[p].kind, req'[p].args = req[p].args,
         req'[p].id = req[p].id, req'[p].copy = req[p].copy
  PROVE  Rule(p, draft[p], r)'
  <1>1. DOMAIN draft'[p] = DOMAIN new \/ r[1] \notin {"edge", "user", "password", "oauth", "method"}
    BY DEF PlainTags
  <1>2. r[1] \in AccountTagged => r \in Rows  BY DEF Rule
  <1>3. r[1] = "edge" => EdgeRule(p, draft[p], r)'
    BY <1>1 DEF Rule, EdgeRule, Arg
  <1>4. r[1] = "user" => UserRule(p, draft[p], r)'
    BY <1>1 DEF Rule, UserRule
  <1>5. r[1] = "address" => draft'[p][r] \in Owners  BY DEF Rule
  <1>6. r[1] \in {"password", "oauth"} => WayRule(p, draft[p], r)'
    BY <1>1 DEF Rule, WayRule, Unlinked, Copy
  <1>7. r[1] = "method" => MethodRule(p, draft[p], r)'
    BY <1>1 DEF Rule, MethodRule, Started, Confirmed, Used, Copy, MethodsOf, Id
  <1>8. r[1] = "attempt" => AttemptRule(p, draft[p], r)'
    BY DEF Rule, AttemptRule, Holder, Copy, Id, Arg
  <1>9. r[1] = "lockout" => LockoutRule(p, draft[p], r)'
    BY DEF Rule, LockoutRule, Id
  <1> QED  BY <1>2, <1>3, <1>4, <1>5, <1>6, <1>7, <1>8, <1>9 DEF Rule

(* What was drafted before the decision is an attempt or an invitation. *)
LEMMA RuleStays ==
  ASSUME NEW p \in Requests, NEW r, r[1] \in {"invitation", "attempt"}, Rule(p, draft[p], r),
         draft'[p][r] = draft[p][r], req'[p].kind = req[p].kind,
         req'[p].args = req[p].args, req'[p].id = req[p].id, req'[p].copy = req[p].copy
  PROVE  Rule(p, draft[p], r)'
  <1>1. r[1] = "attempt" => r \in Rows /\ AttemptRule(p, draft[p], r)'
    BY DEF Rule, AccountTagged, AttemptRule, Holder, Copy, Id, Arg
  <1> QED  BY <1>1 DEF Rule, AccountTagged

LEMMA AccountsSave ==
  ASSUME IInv, JInv, NEW p \in Requests, unseen' = unseen, Running(p),
         req[p].plan = <<>>, ~req[p].done, NEW new, Save(p, new),
         \A r \in DOMAIN new : Rule(p, new, r),
         Wrote(p) = {} \/ \A r \in DOMAIN new : r[1] \in PlainTags \cup {"lockout"},
         req[p].kind = "count_failures" => Counts(p)'
  PROVE  JInv'
  <1>1. /\ OthersStay(p) /\ WrittenBy(p, new)
        /\ req'[p].kind = req[p].kind /\ req'[p].args = req[p].args
        /\ req'[p].id = req[p].id /\ req'[p].done = TRUE
        /\ req'[p].copy = req[p].copy /\ Known(p)' = Known(p)
    BY SaveStep DEF IInv
  <1>2. begun' = begun /\ db' = db  BY <1>1 DEF Save, Wrote1, WrittenBy
  <1>3. req'[p].plan = req[p].plan
    BY DEF Save, IInv, UowInv, RequestInv, IsRequest
  <1>4. NumbersSound'  BY <1>1, <1>2, NumbersRead DEF JInv, Id
  <1>5. Sound(p)  BY DEF JInv
  <1>6. ASSUME NEW r \in Wrote(p) \cup DOMAIN new  PROVE Rule(p, draft[p], r)'
    <2>1. CASE r \in DOMAIN new
      <3>1. \A x \in DOMAIN new : draft'[p][x] = new[x]  BY <1>1 DEF WrittenBy
      <3>2. DOMAIN draft'[p] = DOMAIN new \/ r[1] \in PlainTags \cup {"attempt", "lockout"}
        BY <1>1, <2>1 DEF WrittenBy, Wrote
      <3> QED  BY <1>1, <1>2, <2>1, <3>1, <3>2, RuleDrafted
    <2>2. CASE r \notin DOMAIN new
      <3>1. r[1] \in {"invitation", "attempt"} /\ Rule(p, draft[p], r)
        BY <1>5, <2>2 DEF Sound, DraftSound
      <3>2. draft'[p][r] = draft[p][r]  BY <1>1, <2>2 DEF WrittenBy
      <3> QED  BY <1>1, <3>1, <3>2, RuleStays
    <2> QED  BY <2>1, <2>2
  <1>7. DraftSound(p)'
    BY <1>1, <1>3, <1>6 DEF DraftSound, WrittenBy
  <1>8. CopySound(p)'  BY <1>1, <1>2, <1>5 DEF Sound, CopySound, Copy, Settled
  <1>9. AskedSound(p)'  BY <1>1, <1>2, <1>5 DEF Sound, AskedSound, Arg
  <1>10. Sound(p)'  BY <1>7, <1>8, <1>9 DEF Sound
  <1> QED  BY <1>1, <1>2, <1>4, <1>10, NothingCommitted

LEMMA PlainRule ==
  ASSUME NEW p, NEW f, NEW r, r[1] \in PlainTags
  PROVE  Rule(p, f, r)
  BY DEF PlainTags, Rule, AccountTagged

LEMMA PlainSave ==
  ASSUME IInv, JInv, NEW p \in Requests, unseen' = unseen, NEW kind, Decides(p, kind),
         kind \notin {"idle", "count_failures"},
         NEW new, Save(p, new), \A r \in DOMAIN new : r[1] \in PlainTags
  PROVE  JInv'
  <1>1. Running(p) /\ req[p].plan = <<>> /\ ~req[p].done /\ req[p].kind = kind
    BY DEF Decides, Running
  <1>2. \A r \in DOMAIN new : Rule(p, new, r)  BY PlainRule
  <1> QED  BY <1>1, <1>2, AccountsSave

LEMMA PlainSaveRow ==
  ASSUME IInv, JInv, NEW p \in Requests, unseen' = unseen, NEW kind, Decides(p, kind),
         kind \notin {"idle", "count_failures"},
         NEW r, r[1] \in PlainTags, NEW value, SaveRow(p, r, value)
  PROVE  JInv'
  <1> DEFINE new == [x \in {r} |-> value]
  <1>1. DOMAIN new = {r} /\ Save(p, new)  BY DEF SaveRow
  <1> HIDE DEF new
  <1> QED  BY <1>1, PlainSave

(* A use case that goes on counts the attempt it has refused, or has saved  *)
(* the invitation it joins by.                                              *)
LEMMA AccountsGoOn ==
  ASSUME IInv, JInv, NEW p \in Requests, unseen' = unseen, Running(p), ~req[p].done,
         Wrote(p) = {}, NEW new, NEW next \in {"join", "count_failures"}, NEW plan \in Plans,
         SaveAndGoOn(p, new, next, plan),
         next = "join" => \A r \in DOMAIN new : r[1] = "invitation",
         next = "count_failures" =>
             /\ DOMAIN new = {Attempt(Id(p))}
             /\ new[Attempt(Id(p))].of = Holder(p, Arg(p).address)
             /\ new[Attempt(Id(p))].address = Arg(p).address
             /\ Address(Arg(p).address) \in DOMAIN req[p].copy
             /\ AttemptRows \ {Attempt(Id(p))} \subseteq Planned(plan)
  PROVE  JInv'
  <1>0. next \in GoesOnKinds  BY DEF GoesOnKinds
  <1>1. /\ OthersStay(p) /\ WrittenBy(p, new)
        /\ req'[p].kind = next /\ req'[p].args = req[p].args
        /\ req'[p].id = req[p].id /\ req'[p].done = FALSE
        /\ req'[p].copy = req[p].copy
        /\ Known(p)' = DOMAIN req[p].copy \cup Planned(plan)
    BY <1>0, GoOnStep DEF IInv
  <1>2. begun' = begun /\ db' = db  BY <1>1 DEF SaveAndGoOn, Wrote1, WrittenBy
  <1>3. NumbersSound'  BY <1>1, <1>2, NumbersRead DEF JInv, Id
  <1>4. Wrote(p)' = DOMAIN new /\ \A r \in DOMAIN new : draft'[p][r] = new[r]
    BY <1>1 DEF WrittenBy
  <1>5. CASE next = "join"
    <2>1. \A r \in DOMAIN new : r[1] = "invitation" /\ Rule(p, draft[p], r)'
      BY <1>5 DEF Rule, AccountTagged
    <2> QED
      <3>1. DraftSound(p)'  BY <1>1, <1>4, <1>5, <2>1 DEF DraftSound
      <3>2. CopySound(p)'  BY <1>1, <1>2 DEF JInv, Sound, CopySound, Copy, Settled
      <3>3. AskedSound(p)'
        BY <1>1, <1>5 DEF AskedSound, HierarchyAsked, SignInAsked, AccountThere
      <3>4. Sound(p)'  BY <3>1, <3>2, <3>3 DEF Sound
      <3> QED  BY <1>1, <1>2, <1>3, <3>4, NothingCommitted
  <1>6. CASE next = "count_failures"
    <2>0. PICK t : t = Attempt(Id(p))  OBVIOUS
    <2>1. t[1] = "attempt"  BY <2>0, AccountTags
    <2>2. t \in Rows
      <3>1. Id(p) \in Numbers  BY DEF JInv, NumbersSound, Numbered
      <3> QED  BY <2>0, <3>1, AccountRowsThere
    <2>3. DOMAIN new = {t} /\ draft'[p][t] = new[t]  BY <1>4, <1>6, <2>0
    <2>4. AttemptRule(p, draft[p], t)'
      BY <1>1, <1>6, <2>0, <2>3 DEF AttemptRule, Holder, Copy, Id, Arg
    <2>5. Rule(p, draft[p], t)'  BY <2>1, <2>2, <2>4 DEF Rule
    <2>6. Counts(p)'
      BY <1>1, <1>6 DEF Counts, Id, Arg
    <2>7. DraftSound(p)'  BY <1>1, <1>4, <2>1, <2>3, <2>5, <2>6 DEF DraftSound
    <2>8. CopySound(p)'  BY <1>1, <1>2 DEF JInv, Sound, CopySound, Copy, Settled
    <2>9. AskedSound(p)'
      BY <1>1, <1>6 DEF AskedSound, HierarchyAsked, SignInAsked, AccountThere
    <2>10. Sound(p)'  BY <2>7, <2>8, <2>9 DEF Sound
    <2> QED  BY <1>1, <1>2, <1>3, <2>10, NothingCommitted
  <1> QED  BY <1>5, <1>6

-----------------------------------------------------------------------------
(* The tenant's and the platform's administration: an edge of the hierarchy *)
(* is the only row that matters here.                                       *)
LEMMA EdgeSaved ==
  ASSUME IInv, JInv, NEW p \in Requests, unseen' = unseen, CreateRoleHierarchyEdge(p)
  PROVE  JInv'
  <1> DEFINE r == Edge(Arg(p).on, Arg(p).with)
             new == [x \in {r} |-> TRUE]
  <1>1. DOMAIN new = {r} /\ new[r] = TRUE  OBVIOUS
  <1>2. Save(p, new)  BY DEF CreateRoleHierarchyEdge, SaveRow
  <1>3. Decides(p, "add_edge")  BY DEF CreateRoleHierarchyEdge, May
  <1>4. r[1] = "edge"  BY TenancyTags
  <1>5. StaysAcyclic(EdgesIn(req[p].copy), Arg(p).on, Arg(p).with)
    BY DEF CreateRoleHierarchyEdge
  <1>6. /\ Running(p) /\ req[p].plan = <<>> /\ ~req[p].done /\ req[p].kind = "add_edge"
        /\ Known(p) = DOMAIN req[p].copy /\ Wrote(p) = {}
    BY <1>3, Decided DEF IInv, GoesOnKinds, Decides
  <1>7. Arg(p).on \in Roles /\ Arg(p).with \in Roles /\ Edges \subseteq DOMAIN req[p].copy
    BY <1>6 DEF JInv, Sound, AskedSound, HierarchyAsked
  <1>8. EdgeRule(p, new, r)  BY <1>1, <1>5, <1>6, <1>7 DEF EdgeRule
  <1> HIDE DEF r, new
  <1>9. Rule(p, new, r)  BY <1>4, <1>8 DEF Rule, AccountTagged
  <1> QED  BY <1>1, <1>2, <1>6, <1>9, AccountsSave

LEMMA TenancySaves ==
  ASSUME IInv, JInv, NEW p \in Requests, unseen' = unseen, TenancyUseCase(p)
  PROVE  JInv'
  <1>t. /\ \A m : Member(m)[1] \in PlainTags
        /\ \A m, role : Grant(m, role)[1] \in PlainTags
        /\ \A role : Role(role)[1] \in PlainTags
        /\ \A role, c : Code(role, c)[1] \in PlainTags
        /\ \A o : Override(o)[1] \in PlainTags
        /\ \A i : Invitation(i)[1] \in PlainTags
    BY TenancyTags DEF PlainTags
  <1>1. ASSUME SuspendMembership(p) \/ ReactivateMembership(p) \/ RevokeMembership(p)
                  \/ RestoreMembership(p) \/ UpdateMembership(p)
        PROVE  JInv'
    <2>1. PICK kind, value :
             kind \in MemberKinds /\ Decides(p, kind)
                 /\ SaveRow(p, Target(p), value)
      BY <1>1 DEF SuspendMembership, ReactivateMembership, RevokeMembership,
         RestoreMembership, UpdateMembership, MoveMembership, SaveMembership, May, MemberKinds
    <2>2. Target(p)[1] \in PlainTags  BY <1>t DEF Target
    <2>3. kind \notin {"idle", "count_failures"}  BY <2>1 DEF MemberKinds
    <2> QED  BY <2>1, <2>2, <2>3, PlainSaveRow
  <1>2. ASSUME AddMemberDirectly(p)  PROVE JInv'
    <2> DEFINE new == [x \in {Target(p)} \cup {Grant(Arg(p).on, r) : r \in Arg(p).with} |->
                          IF x = Target(p) THEN [status |-> "active", title |-> Id(p)] ELSE TRUE]
    <2>1. Decides(p, "add_member") /\ Save(p, new)  BY <1>2 DEF AddMemberDirectly, May
    <2>2. \A r \in DOMAIN new : r[1] \in PlainTags  BY <1>t DEF Target
    <2> HIDE DEF new
    <2> QED  BY <2>1, <2>2, PlainSave
  <1>3. ASSUME InviteMember(p)  PROVE JInv'
    <2>1. Decides(p, "invite")  BY <1>3 DEF InviteMember, May
    <2>2. \E value : SaveRow(p, Invitation(Arg(p).on), value)  BY <1>3 DEF InviteMember
    <2> QED  BY <1>t, <2>1, <2>2, PlainSaveRow
  <1>4. ASSUME AcceptInvitation(p)  PROVE JInv'
    <2> DEFINE new == [x \in {Invitation(Arg(p).on)} |->
                          [Copy(p, x) EXCEPT !.status = "accepted", !.by = Id(p)]]
               plan == << {Member(Arg(p).actor)} >>
    <2>1. Decides(p, "accept") /\ SaveAndGoOn(p, new, "join", plan)
      BY <1>4 DEF AcceptInvitation
    <2>2. Running(p) /\ ~req[p].done /\ Wrote(p) = {} /\ Arg(p).actor \in Members
      BY <2>1, TenancyDecides DEF TenancyAsked
    <2>3. plan \in Plans  BY <2>2, RowsThere, PlanOfOne
    <2>4. \A r \in DOMAIN new : r[1] = "invitation"  BY TenancyTags
    <2> HIDE DEF new, plan
    <2> QED  BY <2>1, <2>2, <2>3, <2>4, AccountsGoOn
  <1>5. ASSUME JoinTenant(p)  PROVE JInv'
    <2> DEFINE m == Member(Arg(p).actor)
               joins == Copy(p, m).status \in {"absent", "invited"}
               lacking == {g \in {Grant(Arg(p).actor, r) :
                                      r \in Copy(p, Invitation(Arg(p).on)).roles} : ~Seen(p, g)}
               new == [x \in lacking \cup (IF joins THEN {m} ELSE {}) |->
                          IF x = m THEN [Copy(p, m) EXCEPT !.status = "active"] ELSE TRUE]
    <2>1. Decides(p, "join") /\ Save(p, new)  BY <1>5 DEF JoinTenant
    <2>2. \A r \in DOMAIN new : r[1] \in PlainTags  BY <1>t
    <2> HIDE DEF new
    <2> QED  BY <2>1, <2>2, PlainSave
  <1>6. ASSUME AssignMembershipRole(p) \/ RevokeMembershipRole(p)  PROVE JInv'
    <2>1. PICK kind, value :
             kind \in {"assign_role", "revoke_role"} /\ Decides(p, kind)
                 /\ SaveRow(p, Grant(Arg(p).on, Arg(p).with), value)
      BY <1>6 DEF AssignMembershipRole, RevokeMembershipRole, May
    <2> QED  BY <1>t, <2>1, PlainSaveRow
  <1>7. ASSUME CreateCustomRole(p)  PROVE JInv'
    <2> DEFINE r == Arg(p).on
               new == [x \in {Role(r)} \cup {Code(r, c) : c \in Arg(p).with} |-> TRUE]
    <2>1. Decides(p, "create_role") /\ Save(p, new)  BY <1>7 DEF CreateCustomRole, May
    <2>2. \A x \in DOMAIN new : x[1] \in PlainTags  BY <1>t
    <2> HIDE DEF new
    <2> QED  BY <2>1, <2>2, PlainSave
  <1>8. ASSUME AddPermissionToRole(p) \/ RemovePermissionFromRole(p)  PROVE JInv'
    <2>1. PICK kind, value :
             kind \in {"add_code", "remove_code"} /\ Decides(p, kind)
                 /\ SaveRow(p, Code(Arg(p).on, Arg(p).with), value)
      BY <1>8 DEF AddPermissionToRole, RemovePermissionFromRole, May
    <2> QED  BY <1>t, <2>1, PlainSaveRow
  <1>9. ASSUME CreateAuthorizationOverride(p) \/ RevokeAuthorizationOverride(p)  PROVE JInv'
    <2>1. PICK kind, value :
             kind \in {"allow", "deny", "revoke_override"} /\ Decides(p, kind)
                 /\ SaveRow(p, Override(Arg(p).on), value)
      BY <1>9 DEF CreateAuthorizationOverride, RevokeAuthorizationOverride, May
    <2> QED  BY <1>t, <2>1, PlainSaveRow
  <1> QED
    BY <1>1, <1>2, <1>3, <1>4, <1>5, <1>6, <1>7, <1>8, <1>9, EdgeSaved DEF TenancyUseCase

LEMMA PlatformSaves ==
  ASSUME IInv, JInv, NEW p \in Requests, unseen' = unseen, PlatformUseCase(p)
  PROVE  JInv'
  <1>t. /\ \A u, role : StaffGrant(u, role)[1] \in PlainTags
        /\ \A role : StaffRole(role)[1] \in PlainTags
        /\ \A role, c : StaffCode(role, c)[1] \in PlainTags
        /\ \A t : Tenant(t)[1] \in PlainTags
        /\ \A t, u : Owner(t, u)[1] \in PlainTags
        /\ \A i : Impersonation(i)[1] \in PlainTags
        /\ Entitlements[1] \in PlainTags
    BY TenancyTags, PlatformTags DEF PlainTags
  <1>1. ASSUME GrantPlatformRole(p) \/ RevokePlatformRole(p)  PROVE JInv'
    <2>1. PICK kind, value :
             kind \in StaffGrantKinds /\ Decides(p, kind)
                 /\ SaveRow(p, StaffGrant(Arg(p).on, Arg(p).with), value)
      BY <1>1 DEF GrantPlatformRole, RevokePlatformRole, MayHandle, StaffGrantKinds
    <2>2. kind \notin {"idle", "count_failures"}  BY <2>1 DEF StaffGrantKinds
    <2> QED  BY <1>t, <2>1, <2>2, PlainSaveRow
  <1>2. ASSUME CreateCustomPlatformRole(p)  PROVE JInv'
    <2> DEFINE r == Arg(p).on
               new == [x \in {StaffRole(r)} \cup {StaffCode(r, c) : c \in Arg(p).with} |-> TRUE]
    <2>1. Decides(p, "create_staff_role") /\ Save(p, new)
      BY <1>2 DEF CreateCustomPlatformRole, StaffMay
    <2>2. \A x \in DOMAIN new : x[1] \in PlainTags  BY <1>t
    <2> HIDE DEF new
    <2> QED  BY <2>1, <2>2, PlainSave
  <1>3. ASSUME AddPermissionToPlatformRole(p) \/ RemovePermissionFromPlatformRole(p)  PROVE JInv'
    <2>1. PICK kind, value :
             kind \in StaffCodeKinds /\ Decides(p, kind)
                 /\ SaveRow(p, StaffCode(Arg(p).on, Arg(p).with), value)
      BY <1>3 DEF AddPermissionToPlatformRole, RemovePermissionFromPlatformRole, StaffMay,
                  StaffCodeKinds
    <2>2. kind \notin {"idle", "count_failures"}  BY <2>1 DEF StaffCodeKinds
    <2> QED  BY <1>t, <2>1, <2>2, PlainSaveRow
  <1>4. ASSUME CreateTenant(p)  PROVE JInv'
    <2> DEFINE t == Arg(p).on
               u == Arg(p).with
               owns == OwnsDefault(req[p].copy, u)
               new == [x \in {Tenant(t), Owner(t, u)} |->
                          IF x = Tenant(t) THEN [status |-> "active", name |-> Id(p), profile |-> 0]
                          ELSE IF owns THEN "member" ELSE "default"]
    <2>1. Decides(p, "create_tenant") /\ Save(p, new)  BY <1>4 DEF CreateTenant, StaffMay
    <2>2. \A x \in DOMAIN new : x[1] \in PlainTags  BY <1>t
    <2> HIDE DEF new
    <2> QED  BY <2>1, <2>2, PlainSave
  <1>5. ASSUME SuspendTenant(p) \/ ReactivateTenant(p) \/ RenameTenant(p)
                  \/ SetTenantAssistantProfile(p)
        PROVE  JInv'
    <2>1. PICK kind, value :
             kind \in TenantKinds /\ Decides(p, kind)
                 /\ SaveRow(p, Tenant(Arg(p).on), value)
      BY <1>5 DEF SuspendTenant, ReactivateTenant, RenameTenant, SetTenantAssistantProfile,
                  MoveTenant, SaveTenant, StaffMay, TenantKinds
    <2>2. kind \notin {"idle", "count_failures"}  BY <2>1 DEF TenantKinds
    <2> QED  BY <1>t, <2>1, <2>2, PlainSaveRow
  <1>6. ASSUME SetTenantEntitlements(p)  PROVE JInv'
    <2>1. Decides(p, "set_entitlements") /\ SaveRow(p, Entitlements, Arg(p).with)
      BY <1>6 DEF SetTenantEntitlements, StaffMay
    <2> QED  BY <1>t, <2>1, PlainSaveRow
  <1>7. ASSUME StartImpersonation(p) \/ EndImpersonation(p)  PROVE JInv'
    <2>1. PICK kind, value :
             kind \in {"impersonate", "end_impersonation"} /\ Decides(p, kind)
                 /\ SaveRow(p, Impersonation(Arg(p).on), value)
      BY <1>7 DEF StartImpersonation, EndImpersonation, StaffMay
    <2> QED  BY <1>t, <2>1, PlainSaveRow
  <1> QED  BY <1>1, <1>2, <1>3, <1>4, <1>5, <1>6, <1>7 DEF PlatformUseCase

-----------------------------------------------------------------------------
(* The accounts. *)
LEMMA AccountKnows ==
  ASSUME IInv, JInv, NEW p \in Requests, NEW kind \in AccountKinds, Decides(p, kind)
  PROVE  /\ Running(p) /\ req[p].plan = <<>> /\ ~req[p].done /\ req[p].kind = kind
         /\ Wrote(p) = {} /\ \A r : Seen(p, r) = db[r]
         /\ SignInAsked(kind, Arg(p), DOMAIN req[p].copy)
         /\ AccountThere(kind, Arg(p), DOMAIN req[p].copy, req[p].copy, db)
         /\ CopySound(p)
         /\ Id(p) \in Numbers /\ Unused(Id(p))
  <1>1. kind # "idle" /\ kind \notin GoesOnKinds  BY DEF AccountKinds, GoesOnKinds
  <1>2. /\ Running(p) /\ ~req[p].done /\ req[p].kind = kind
        /\ Known(p) = DOMAIN req[p].copy
        /\ Wrote(p) = {} /\ \A r : Seen(p, r) = db[r]
    BY <1>1, Decided DEF IInv
  <1>3. Id(p) \in Numbers /\ Unused(Id(p))  BY <1>2 DEF JInv, NumbersSound, Numbered
  <1> QED  BY <1>2, <1>3 DEF JInv, Sound, AskedSound, Decides

LEMMA AccountSaved ==
  ASSUME IInv, JInv, NEW p \in Requests, unseen' = unseen,
         NEW kind \in AccountKinds, Decides(p, kind), NEW new, Save(p, new),
         \A r \in DOMAIN new : Rule(p, new, r)
  PROVE  JInv'
  <1>1. kind # "count_failures"  BY DEF AccountKinds
  <1> QED  BY <1>1, AccountKnows, AccountsSave

(* A user, a way and an attempt as they are saved. *)
LEMMA UserSaved ==
  ASSUME IInv, JInv, NEW p \in Requests, NEW f, NEW u \in Users,
         User(u) \in DOMAIN req[p].copy, f[User(u)] = Copy(p, User(u)), f[User(u)] # "absent"
  PROVE  Rule(p, f, User(u))
  <1>1. User(u)[1] = "user" /\ User(u) \in Rows  BY AccountTags, AccountRowsThere
  <1>2. Grows(Settled, User(u), Copy(p, User(u)), db[User(u)])  BY DEF JInv, Sound, CopySound
  <1>3. UserRule(p, f, User(u))  BY <1>1, <1>2 DEF Grows, UserRule
  <1> QED  BY <1>1, <1>3 DEF Rule

LEMMA AttemptSaved ==
  ASSUME IInv, JInv, NEW p \in Requests, Id(p) \in Numbers, NEW f,
         LET x == f[Attempt(Id(p))] IN x.result # "invalid_credentials" \/ x.of = Nobody
  PROVE  Rule(p, f, Attempt(Id(p)))
  BY AccountTags, AccountRowsThere DEF Rule, AttemptRule

LEMMA AccountOpens ==
  ASSUME IInv, JInv, NEW p \in Requests, unseen' = unseen,
         NEW kind \in AccountKinds, Decides(p, kind),
         NEW status, status # "absent", NEW a, NEW w \in WayRows, OpenAccount(p, status, a, w)
  PROVE  JInv'
  <1> DEFINE u == User(Id(p))
             new == [x \in {u, Address(a), w} |->
                        CASE x = u          -> status
                          [] x = Address(a) -> Id(p)
                          [] x = w          -> [of |-> Id(p), active |-> TRUE]]
  <1>1. Id(p) \in Numbers /\ \A r : Seen(p, r) = db[r]  BY AccountKnows
  <1>2. u[1] = "user" /\ u[2] = Id(p) /\ u \in Rows /\ Address(a)[1] = "address"
    BY <1>1, AccountTags, AccountRowsThere
  <1>3. w[1] \in {"password", "oauth"} /\ w \in Rows  BY TagOfRows, RowsThere
  <1>4. db[w].of = Nobody /\ Save(p, new)  BY <1>1 DEF OpenAccount
  <1>5. Id(p) # Nobody /\ Id(p) \in Owners  BY <1>1, AccountRowsThere DEF Owners
  <1> HIDE DEF u
  <1>6. u # Address(a) /\ u # w /\ w # Address(a)  BY <1>2, <1>3
  <1>7. /\ DOMAIN new = {u, Address(a), w}
        /\ new[u] = status /\ new[Address(a)] = Id(p) /\ new[w] = [of |-> Id(p), active |-> TRUE]
    BY <1>6
  <1> HIDE DEF new
  <1>8. Rule(p, new, w)
    <2>1. new[w] \in Ways /\ new[w].of = Id(p) /\ new[w].active  BY <1>5, <1>7 DEF Ways
    <2>2. WayRule(p, new, w)  BY <1>4, <1>5, <2>1 DEF WayRule
    <2> QED  BY <1>3, <2>2 DEF Rule
  <1>9. Rule(p, new, u)
    <2>1. UserRule(p, new, u)
      <3>1. w \in WayRows \cap DOMAIN new /\ new[w].of = u[2] /\ new[w].active
        BY <1>2, <1>7
      <3> QED  BY <1>7, <3>1 DEF UserRule
    <2> QED  BY <1>2, <2>1 DEF Rule
  <1>10. Rule(p, new, Address(a))  BY <1>2, <1>5, <1>7 DEF Rule, AccountTagged
  <1> QED  BY <1>4, <1>7, <1>8, <1>9, <1>10, AccountSaved

LEMMA RegistrationSaved ==
  ASSUME IInv, JInv, NEW p \in Requests, unseen' = unseen, RegisterUser(p) \/ CreateUser(p)
  PROVE  JInv'
  <1>1. PICK kind \in {"register", "create_user"}, status \in {"pending", "active"} :
           Decides(p, kind) /\ OpenAccount(p, status, Arg(p), PasswordWay(Id(p)))
    BY DEF RegisterUser, CreateUser
  <1>2. kind \in AccountKinds  BY DEF AccountKinds
  <1>3. PasswordWay(Id(p)) \in WayRows  BY <1>1, <1>2, AccountKnows, AccountRowsThere
  <1> QED  BY <1>1, <1>2, <1>3, AccountOpens

LEMMA ProviderRegistrationSaved ==
  ASSUME IInv, JInv, NEW p \in Requests, unseen' = unseen, RegisterViaOAuth(p)
  PROVE  JInv'
  <1>1. PICK status \in {"pending", "active"} :
           OpenAccount(p, status, Arg(p).address, OAuthWay(Arg(p).subject))
    BY DEF RegisterViaOAuth
  <1>2. Decides(p, "oauth") /\ "oauth" \in AccountKinds  BY DEF AccountKinds, RegisterViaOAuth
  <1>3. OAuthWay(Arg(p).subject) \in WayRows
    BY <1>2, AccountKnows, AccountRowsThere DEF SignInAsked
  <1> QED  BY <1>1, <1>2, <1>3, AccountOpens

LEMMA ProviderSignInSaved ==
  ASSUME IInv, JInv, NEW p \in Requests, unseen' = unseen, LoginExisting(p)
  PROVE  JInv'
  <1> DEFINE w == OAuthWay(Arg(p).subject)
             u == Copy(p, w).of
             new == [x \in {w, User(u)} |-> Copy(p, x)]
  <1>1. Decides(p, "oauth") /\ "oauth" \in AccountKinds /\ Save(p, new)
    BY DEF AccountKinds, LoginExisting
  <1>2. u # Nobody /\ Copy(p, w).active /\ Copy(p, User(u)) = "active"  BY DEF LoginExisting
  <1>3. w \in WayRows /\ w \in DOMAIN req[p].copy /\ UserRows \subseteq DOMAIN req[p].copy
        /\ CopySound(p)
    BY <1>1, AccountKnows, AccountRowsThere DEF SignInAsked
  <1>4. DOMAIN new = {w, User(u)} /\ new[w] = Copy(p, w) /\ new[User(u)] = Copy(p, User(u))
    OBVIOUS
  <1> HIDE DEF new, w
  <1>5. w[1] \in {"password", "oauth"} /\ w \in Rows  BY <1>3, TagOfRows, RowsThere
  <1>6. Copy(p, w) \in Ways /\ Grows(Settled, w, Copy(p, w), db[w])
    BY <1>3, <1>5 DEF CopySound, Typed
  <1>7. Rule(p, new, w)
    <2>1. db[w].of = u  BY <1>2, <1>5, <1>6 DEF Grows
    <2>2. WayRule(p, new, w)  BY <1>2, <1>4, <1>6, <2>1 DEF WayRule
    <2> QED  BY <1>5, <2>2 DEF Rule
  <1>8. u \in Users  BY <1>2, <1>6 DEF Ways, Owners
  <1>9. User(u) \in DOMAIN req[p].copy  BY <1>3, <1>8, AccountRowsThere
  <1> HIDE DEF u
  <1>10. Rule(p, new, User(u))  BY <1>2, <1>4, <1>8, <1>9, UserSaved
  <1> QED  BY <1>1, <1>4, <1>7, <1>10, AccountSaved

LEMMA LinkSaved ==
  ASSUME IInv, JInv, NEW p \in Requests, unseen' = unseen, LinkToCurrentUser(p)
  PROVE  JInv'
  <1> DEFINE w == OAuthWay(Arg(p).subject)
             value == [of |-> Arg(p).user, active |-> TRUE]
             new == [x \in {w} |-> value]
  <1>1. Decides(p, "link_oauth") /\ "link_oauth" \in AccountKinds /\ Save(p, new)
    BY DEF AccountKinds, LinkToCurrentUser, NewWay, SaveRow
  <1>2. w \in WayRows /\ Arg(p).user \in Users /\ \A r : Seen(p, r) = db[r]
    BY <1>1, AccountKnows, AccountRowsThere DEF SignInAsked
  <1>3. db[w].of = Nobody  BY <1>2 DEF LinkToCurrentUser, NewWay
  <1>4. value \in Ways /\ value.of # Nobody /\ value.active
    BY <1>2, AccountRowsThere DEF Ways, Owners
  <1> HIDE DEF value
  <1>5. DOMAIN new = {w} /\ new[w] = value  OBVIOUS
  <1> HIDE DEF new, w
  <1>6. w[1] \in {"password", "oauth"} /\ w \in Rows  BY <1>2, TagOfRows, RowsThere
  <1>7. WayRule(p, new, w)  BY <1>3, <1>4, <1>5 DEF WayRule
  <1>8. Rule(p, new, w)  BY <1>6, <1>7 DEF Rule
  <1> QED  BY <1>1, <1>5, <1>8, AccountSaved

LEMMA UnlinkSaved ==
  ASSUME IInv, JInv, NEW p \in Requests, unseen' = unseen, UnlinkOAuthAccount(p)
  PROVE  JInv'
  <1> DEFINE w == Arg(p).way
             value == [Copy(p, w) EXCEPT !.active = FALSE]
             new == [x \in {w} |-> value]
  <1>1. Decides(p, "unlink_oauth") /\ "unlink_oauth" \in AccountKinds /\ Save(p, new)
    BY DEF AccountKinds, UnlinkOAuthAccount, SaveRow
  <1>2. /\ Arg(p).user \in Users /\ w \in WayRows /\ WayRows \subseteq DOMAIN req[p].copy
        /\ db[w].of = Arg(p).user /\ Copy(p, w).of = Arg(p).user
        /\ CopySound(p) /\ req[p].kind = "unlink_oauth"
    BY <1>1, AccountKnows DEF AccountThere, Copy
  <1>3. PICK v \in WayRows \ {w} : Copy(p, v).of = Arg(p).user /\ Copy(p, v).active
    BY DEF UnlinkOAuthAccount, OtherThan
  <1> HIDE DEF w
  <1>4. w[1] \in {"password", "oauth"} /\ w \in Rows  BY <1>2, TagOfRows, RowsThere
  <1>5. Copy(p, w) \in Ways  BY <1>2, <1>4 DEF CopySound, Typed
  <1>6. value \in Ways /\ value.of = Copy(p, w).of  BY <1>5 DEF Ways
  <1> HIDE DEF value
  <1>7. DOMAIN new = {w} /\ new[w] = value  OBVIOUS
  <1> HIDE DEF new
  <1>8. Unlinked(p, new, w)  BY <1>2, <1>3, <1>6, <1>7 DEF Unlinked
  <1>9. Arg(p).user # Nobody  BY <1>2, AccountRowsThere
  <1>10. WayRule(p, new, w)  BY <1>2, <1>6, <1>7, <1>8, <1>9 DEF WayRule
  <1>11. Rule(p, new, w)  BY <1>4, <1>10 DEF Rule
  <1> QED  BY <1>1, <1>7, <1>11, AccountSaved

LEMMA EnrolmentStarts ==
  ASSUME IInv, JInv, NEW p \in Requests, unseen' = unseen, StartTotpEnrollment(p)
  PROVE  JInv'
  <1> DEFINE m == Method(Id(p))
             value == [of |-> Arg(p), verified |-> FALSE, primary |-> FALSE]
             new == [x \in {m} |-> value]
  <1>1. Decides(p, "start_totp") /\ "start_totp" \in AccountKinds /\ Save(p, new)
    BY DEF AccountKinds, StartTotpEnrollment, SaveRow
  <1>2. m \in MethodRows /\ m \in Rows /\ Arg(p) \in Users
    BY <1>1, AccountKnows, AccountRowsThere DEF SignInAsked
  <1>3. /\ value \in Methods /\ value.of # Nobody /\ ~value.verified /\ ~value.primary
    BY <1>2, AccountRowsThere DEF Methods, Owners
  <1> HIDE DEF value
  <1>4. DOMAIN new = {m} /\ new[m] = value  OBVIOUS
  <1>5. m[1] = "method"  BY AccountTags
  <1>6. Started(p, new, m)  BY <1>3, <1>4 DEF Started
  <1> HIDE DEF new, m
  <1>7. Typed(m, new[m])  BY <1>3, <1>4, <1>5 DEF Typed
  <1>8. MethodRule(p, new, m)  BY <1>2, <1>3, <1>4, <1>6, <1>7 DEF MethodRule
  <1>9. Rule(p, new, m)  BY <1>2, <1>5, <1>8 DEF Rule
  <1> QED  BY <1>1, <1>4, <1>9, AccountSaved

LEMMA EnrolmentConfirms ==
  ASSUME IInv, JInv, NEW p \in Requests, unseen' = unseen, ConfirmTotpEnrollment(p)
  PROVE  JInv'
  <1> DEFINE m == Arg(p)
             first == \A x \in MethodsOf(p, Copy(p, m).of) : ~Copy(p, x).primary
             value == [Copy(p, m) EXCEPT !.verified = TRUE, !.primary = @ \/ first]
             new == [x \in {m} |-> value]
  <1>1. Decides(p, "confirm_totp") /\ "confirm_totp" \in AccountKinds /\ Save(p, new)
    BY DEF AccountKinds, ConfirmTotpEnrollment, SaveRow
  <1>2. /\ m \in MethodRows /\ MethodRows \subseteq DOMAIN req[p].copy
        /\ Copy(p, m).of # Nobody /\ CopySound(p) /\ req[p].kind = "confirm_totp"
    BY <1>1, AccountKnows DEF AccountThere, Copy
  <1> HIDE DEF m
  <1>3. m[1] = "method" /\ m \in Rows  BY <1>2, TagOfRows, RowsThere
  <1>4. Copy(p, m) \in Methods /\ Grows(Settled, m, Copy(p, m), db[m])
    BY <1>2, <1>3 DEF CopySound, Typed
  <1>5. first \in BOOLEAN  OBVIOUS
  <1>6. /\ value \in Methods /\ value.of = Copy(p, m).of /\ value.verified
    <2> HIDE DEF first
    <2> QED  BY <1>4, <1>5 DEF Methods
  <1>7. value = [Copy(p, m) EXCEPT !.verified = TRUE, !.primary = @ \/ first]  OBVIOUS
  <1> HIDE DEF value
  <1>8. DOMAIN new = {m} /\ new[m] = value  OBVIOUS
  <1> HIDE DEF new
  <1>9. db[m].of = new[m].of  BY <1>2, <1>3, <1>4, <1>6, <1>8 DEF Grows
  <1>10. Confirmed(p, new, m)
    <2>1. new[m].of = Copy(p, m).of  BY <1>6, <1>8
    <2> QED  BY <1>2, <1>7, <1>8, <1>9, <2>1 DEF Confirmed
  <1>11. Typed(m, new[m])  BY <1>2, <1>3, <1>6, <1>8 DEF Typed
  <1>12. MethodRule(p, new, m)  BY <1>2, <1>6, <1>8, <1>10, <1>11 DEF MethodRule
  <1>13. Rule(p, new, m)  BY <1>3, <1>12 DEF Rule
  <1> QED  BY <1>1, <1>8, <1>13, AccountSaved

LEMMA HolderKnown ==
  ASSUME IInv, JInv, NEW p \in Requests, Decides(p, "login")
  PROVE  /\ Address(Arg(p).address) \in DOMAIN req[p].copy
         /\ UserRows \subseteq DOMAIN req[p].copy
         /\ Holder(p, Arg(p).address) \in Users \cup {Nobody}
  <1>1. "login" \in AccountKinds  BY DEF AccountKinds
  <1>2. /\ Arg(p).address \in Addresses /\ UserRows \subseteq DOMAIN req[p].copy /\ CopySound(p)
    BY <1>1, AccountKnows DEF SignInAsked
  <1>3. Address(Arg(p).address) \in DOMAIN req[p].copy  BY <1>2, AccountRowsThere
  <1>4. Typed(Address(Arg(p).address), Holder(p, Arg(p).address))
    BY <1>2, <1>3 DEF CopySound, Holder
  <1> QED  BY <1>2, <1>3, <1>4, AccountTags DEF Typed, Owners

LEMMA SignInSaved ==
  ASSUME IInv, JInv, NEW p \in Requests, unseen' = unseen, LogIn(p)
  PROVE  JInv'
  <1> DEFINE u == Holder(p, Arg(p).address)
             new == Tried(p, {User(u)}, "success", u, Arg(p).address)
  <1>1. Decides(p, "login") /\ "login" \in AccountKinds /\ Save(p, new)
    BY DEF AccountKinds, LogIn
  <1>2. u # Nobody /\ Copy(p, User(u)) # "absent"  BY DEF LogIn, CanAuthenticate
  <1>3. u \in Users /\ User(u) \in DOMAIN req[p].copy
    BY <1>1, <1>2, HolderKnown, AccountRowsThere
  <1>4. User(u)[1] = "user"  BY AccountTags
  <1>5. /\ DOMAIN new = {Attempt(Id(p)), User(u)}
        /\ new[Attempt(Id(p))].result = "success"
        /\ new[User(u)] = Copy(p, User(u))
    BY <1>4, AccountTags DEF Tried
  <1> HIDE DEF new
  <1>6. Rule(p, new, Attempt(Id(p)))
    BY <1>1, <1>5, AccountKnows, AttemptSaved
  <1> HIDE DEF u
  <1>7. Rule(p, new, User(u))  BY <1>2, <1>3, <1>5, UserSaved
  <1> QED  BY <1>1, <1>5, <1>6, <1>7, AccountSaved

LEMMA RefusalSaved ==
  ASSUME IInv, JInv, NEW p \in Requests, unseen' = unseen, RefuseLogin(p)
  PROVE  JInv'
  <1> DEFINE u == Holder(p, Arg(p).address)
             new == Tried(p, {}, "invalid_credentials", u, Arg(p).address)
             plan == << AttemptRows \ {Attempt(Id(p))} >>
  <1>1. Decides(p, "login") /\ "login" \in AccountKinds
    BY DEF AccountKinds, RefuseLogin
  <1>2. \/ u = Nobody /\ Save(p, new)
        \/ SaveAndGoOn(p, new, "count_failures", plan)
    BY DEF RefuseLogin
  <1>3. /\ DOMAIN new = {Attempt(Id(p))}
        /\ new[Attempt(Id(p))].of = u /\ new[Attempt(Id(p))].address = Arg(p).address
    BY DEF Tried
  <1>4. plan \in Plans /\ Planned(plan) = AttemptRows \ {Attempt(Id(p))}
    BY RowsThere, PlanOfOne
  <1>5. Running(p) /\ ~req[p].done /\ Wrote(p) = {} /\ Id(p) \in Numbers
    BY <1>1, AccountKnows
  <1> HIDE DEF new, plan
  <1>6. CASE u = Nobody /\ Save(p, new)
    <2>1. Rule(p, new, Attempt(Id(p)))  BY <1>3, <1>5, <1>6, AttemptSaved
    <2> QED  BY <1>1, <1>3, <1>6, <2>1, AccountSaved
  <1>7. CASE SaveAndGoOn(p, new, "count_failures", plan)
    <2>1. Address(Arg(p).address) \in DOMAIN req[p].copy  BY <1>1, HolderKnown
    <2> QED  BY <1>3, <1>4, <1>5, <1>7, <2>1, AccountsGoOn
  <1> QED  BY <1>2, <1>6, <1>7

LEMMA LockoutSaved ==
  ASSUME IInv, JInv, NEW p \in Requests, unseen' = unseen, RecordFailure(p)
  PROVE  JInv'
  <1> DEFINE l == Lockout(Id(p))
             value == [of |-> Holder(p, Arg(p).address), active |-> TRUE]
  <1>1. /\ Running(p) /\ req[p].plan = <<>> /\ ~req[p].done /\ req[p].kind = "count_failures"
    BY DEF RecordFailure, Decides, Running
  <1>2. Counts(p) /\ Id(p) \in Numbers
    BY <1>1 DEF JInv, Sound, DraftSound, NumbersSound, Numbered
  <1>3. l[1] = "lockout" /\ l \in Rows  BY <1>2, AccountTags, AccountRowsThere
  <1>4. PICK new : /\ Save(p, new)
                   /\ IF ShouldLock(Failures(p))
                      THEN DOMAIN new = {l} /\ new[l] = value ELSE DOMAIN new = {}
    <2>1. CASE ShouldLock(Failures(p))
      <3> DEFINE new == [x \in {l} |-> value]
      <3> HIDE DEF l, value
      <3>1. DOMAIN new = {l} /\ new[l] = value  OBVIOUS
      <3>2. Save(p, new)  BY <2>1 DEF RecordFailure, SaveRow, l, value
      <3> QED  BY <2>1, <3>1, <3>2
    <2>2. CASE ~ShouldLock(Failures(p))
      <3>1. DOMAIN NoRows = {} /\ Save(p, NoRows)  BY <2>2 DEF NoRows, RecordFailure
      <3> QED  BY <2>2, <3>1
    <2> QED  BY <2>1, <2>2
  <1>5. /\ req'[p].args = req[p].args /\ req'[p].id = req[p].id /\ req'[p].copy = req[p].copy
        /\ Known(p)' = Known(p) /\ WrittenBy(p, new)
    BY <1>1, <1>4, SaveStep DEF IInv
  <1>6. Counts(p)'
    <2>1. Failures(p)' = Failures(p) /\ Holder(p, Arg(p).address)' = Holder(p, Arg(p).address)
      BY <1>5 DEF Failures, Holder, Copy, Id, Arg
    <2>2. /\ Address(Arg(p).address)' \in DOMAIN req'[p].copy
          /\ AttemptRows \ {Attempt(Id(p)')} \subseteq Known(p)'
      BY <1>2, <1>5 DEF Counts, Id, Arg
    <2>3. ShouldLock(Failures(p)) => l \in Wrote(p)' /\ draft'[p][l] = value
      BY <1>4, <1>5 DEF WrittenBy
    <2>4. Id(p)' = Id(p)  BY <1>5 DEF Id
    <2> QED  BY <2>1, <2>2, <2>3, <2>4 DEF Counts, ShouldLock
  <1>7. \A r \in DOMAIN new : r[1] = "lockout" /\ Rule(p, new, r)
    <2> SUFFICES ASSUME l \in DOMAIN new, DOMAIN new = {l}, new[l] = value
                 PROVE  l[1] = "lockout" /\ Rule(p, new, l)
      BY <1>4
    <2>1. LockoutRule(p, new, l)  BY DEF LockoutRule
    <2> HIDE DEF l
    <2> QED  BY <1>3, <2>1 DEF Rule
  <1> QED  BY <1>1, <1>4, <1>6, <1>7, AccountsSave

LEMMA ChallengeSaved ==
  ASSUME IInv, JInv, NEW p \in Requests, unseen' = unseen, VerifyMfaChallenge(p)
  PROVE  JInv'
  <1> DEFINE u == Arg(p).user
             address == CHOOSE a \in Addresses : Holder(p, a) = u
  <1>1. "verify_mfa" \in AccountKinds /\ Decides(p, "verify_mfa")
    BY DEF AccountKinds, VerifyMfaChallenge
  <1>2. /\ u \in Users /\ User(u) \in DOMAIN req[p].copy /\ MethodRows \subseteq DOMAIN req[p].copy
        /\ Copy(p, User(u)) # "absent" /\ CopySound(p) /\ Id(p) \in Numbers
    BY <1>1, AccountKnows DEF AccountThere, Copy
  <1>3. \/ Save(p, Tried(p, {}, "mfa_failed", u, address))
        \/ \E m \in Usable(p, u) : Save(p, Tried(p, {m, User(u)}, "success", u, address))
    BY DEF VerifyMfaChallenge
  <1> HIDE DEF u, address
  <1>4. CASE Save(p, Tried(p, {}, "mfa_failed", u, address))
    <2> DEFINE new == Tried(p, {}, "mfa_failed", u, address)
    <2>1. DOMAIN new = {Attempt(Id(p))} /\ new[Attempt(Id(p))].result = "mfa_failed"
      BY DEF Tried
    <2> HIDE DEF new
    <2>2. Rule(p, new, Attempt(Id(p)))  BY <1>2, <2>1, AttemptSaved
    <2>3. Save(p, new)  BY <1>4 DEF new
    <2> QED  BY <1>1, <2>1, <2>2, <2>3, AccountSaved
  <1>5. ASSUME NEW m \in Usable(p, u), Save(p, Tried(p, {m, User(u)}, "success", u, address))
        PROVE  JInv'
    <2> DEFINE new == Tried(p, {m, User(u)}, "success", u, address)
    <2>1. m \in MethodRows /\ Copy(p, m).of = u /\ Copy(p, m).verified  BY DEF Usable, MethodsOf
    <2>2. m[1] = "method" /\ m \in Rows /\ User(u)[1] = "user"
      BY <2>1, TagOfRows, RowsThere, AccountTags
    <2>3. /\ DOMAIN new = {Attempt(Id(p)), m, User(u)}
          /\ new[Attempt(Id(p))].result = "success"
          /\ new[m] = Copy(p, m) /\ new[User(u)] = Copy(p, User(u))
      BY <2>2, AccountTags DEF Tried
    <2> HIDE DEF new
    <2>4. Rule(p, new, Attempt(Id(p)))  BY <1>2, <2>3, AttemptSaved
    <2>5. Rule(p, new, User(u))  BY <1>2, <2>3, UserSaved
    <2>6. Rule(p, new, m)
      <3>1. Typed(m, new[m])  BY <1>2, <2>1, <2>3 DEF CopySound
      <3>2. new[m].of # Nobody  BY <1>2, <2>1, <2>3, AccountRowsThere
      <3>3. Used(p, new, m)  BY <1>2, <2>1, <2>3 DEF Used
      <3>4. MethodRule(p, new, m)  BY <2>1, <3>1, <3>2, <3>3 DEF MethodRule
      <3> QED  BY <2>2, <3>4 DEF Rule
    <2>7. Save(p, new)  BY <1>5 DEF new
    <2> QED  BY <1>1, <2>3, <2>4, <2>5, <2>6, <2>7, AccountSaved
  <1> QED  BY <1>3, <1>4, <1>5

LEMMA AccountsWrite ==
  ASSUME IInv, JInv, NEW p \in Requests, unseen' = unseen, AccountUseCase(p)
  PROVE  JInv'
  BY RegistrationSaved, ProviderRegistrationSaved, ProviderSignInSaved, LinkSaved, UnlinkSaved,
     EnrolmentStarts, EnrolmentConfirms, SignInSaved, RefusalSaved, LockoutSaved, ChallengeSaved
  DEF AccountUseCase

-----------------------------------------------------------------------------
(* A request ends: what it commits makes rows grow. *)
LEMMA NumbersEnd ==
  ASSUME IInv, NumbersSound, NEW p \in Requests, OthersStay(p), req'[p] = Idle, begun' = begun,
         \A n \in Numbers : (n # Id(p) \/ ~Running(p)) /\ Unused(n) => Unused(n)',
         Running(p)
  PROVE  NumbersSound'
  <1>1. ~Running(p)'  BY DEF Running, Idle
  <1>2. ASSUME NEW q \in Requests, Running(q)'  PROVE q # p /\ Running(q) /\ Id(q)' = Id(q)
    BY <1>1, <1>2 DEF OthersStay, Running, Id
  <1>3. ASSUME NEW q \in Requests  PROVE Numbered(q)' /\ (Running(q)' => Unused(Id(q))')
    <2> SUFFICES ASSUME Running(q)'
                 PROVE  /\ Id(q)' \in Numbers /\ Id(q)' <= begun
                        /\ \A x \in Requests \ {q} : Running(x)' => Id(x)' # Id(q)'
                        /\ Unused(Id(q))'
      BY DEF Numbered
    <2>1. q # p /\ Running(q) /\ Id(q)' = Id(q)  BY <1>2
    <2>2. Id(q) \in Numbers /\ Id(q) <= begun /\ Unused(Id(q)) /\ Id(q) # Id(p)
      BY <2>1 DEF NumbersSound, Numbered
    <2>3. \A x \in Requests \ {q} : Running(x)' => Id(x)' # Id(q)'
      BY <1>2, <2>1 DEF NumbersSound, Numbered
    <2>4. Unused(Id(q))'
      <3>1. PICK n : n = Id(q)  OBVIOUS
      <3>2. Unused(n)'  BY <2>2, <3>1
      <3> QED  BY <2>1, <3>1, <3>2 DEF Unused
    <2> QED  BY <2>1, <2>2, <2>3, <2>4
  <1>4. \A n \in Numbers : n > begun => Unused(n)'
    <2> SUFFICES ASSUME NEW n \in Numbers, n > begun  PROVE Unused(n)'
      OBVIOUS
    <2>1. Id(p) \in Numbers /\ Id(p) <= begun /\ begun \in Numbers  BY DEF NumbersSound, Numbered
    <2>2. n # Id(p)  BY <2>1 DEF Numbers
    <2> QED  BY <2>2 DEF NumbersSound
  <1> QED  BY <1>3, <1>4 DEF NumbersSound

LEMMA IdleSound ==
  ASSUME NEW p \in Requests, req'[p] = Idle, Wrote(p)' = {}
  PROVE  Sound(p)'
  <1>1. /\ req'[p].kind = "idle" /\ DOMAIN req'[p].copy = {} /\ req'[p].done = FALSE
    BY DEF Idle, NoRows
  <1>2. DraftSound(p)'  BY <1>1 DEF DraftSound
  <1>3. CopySound(p)'  BY <1>1 DEF CopySound
  <1>4. AskedSound(p)'  BY <1>1 DEF AskedSound, HierarchyAsked, SignInAsked, AccountThere
  <1> QED  BY <1>2, <1>3, <1>4 DEF Sound

LEMMA AccountsAbandon ==
  ASSUME IInv, JInv, NEW p \in Requests, unseen' = unseen, Abandon(p)
  PROVE  JInv'
  <1>1. /\ OthersStay(p) /\ req'[p] = Idle /\ Wrote(p)' = {} /\ db' = db
    BY AbandonStep DEF IInv
  <1>2. begun' = begun /\ Running(p)  BY DEF Abandon
  <1>3. NumbersSound'  BY <1>1, <1>2, NumbersEnd DEF JInv, Unused
  <1>4. Sound(p)'  BY <1>1, IdleSound
  <1> QED  BY <1>1, <1>3, <1>4, NothingCommitted

(* What a commit finds: its draft obeys the rules, and what it decided on   *)
(* is as it has read it, unless that is counted.                            *)
LEMMA AtCommit ==
  ASSUME IInv, JInv, NEW p \in Requests, Commit1(p)
  PROVE  /\ UowInv' /\ OthersStay(p) /\ req'[p] = Idle /\ Wrote(p)' = {}
         /\ begun' = begun /\ Running(p)
         /\ \A r \in Rows : db'[r] = Seen(p, r)
         /\ \A r \in Rows : r \in Wrote(p) => db'[r] = draft[p][r]
         /\ \A r \in Rows : r \notin Wrote(p) => db'[r] = db[r]
         /\ \A r \in Wrote(p) : Rule(p, draft[p], r)
         /\ \A q \in Requests \ {p} : \A r \in Rows \cap Wrote(q) : db'[r] = db[r]
         /\ req[p].done /\ req[p].plan = <<>> /\ Known(p) = DOMAIN req[p].copy
         /\ Sound(p) /\ Id(p) \in Numbers /\ Unused(Id(p))
         /\ unseen' = unseen \cup Missed(p)
  <1>1. Commit(p) /\ unseen' = unseen \cup Missed(p)  BY DEF Commit1
  <1>2. /\ UowInv' /\ OthersStay(p) /\ req'[p] = Idle /\ Wrote(p)' = {}
        /\ \A r \in Rows : db'[r] = Seen(p, r)
        /\ \A q \in Requests \ {p} : \A r \in Rows \cap Wrote(q) : db'[r] = db[r]
    BY <1>1, CommitStep DEF IInv
  <1>3. req[p].done /\ begun' = begun  BY <1>1 DEF Commit
  <1>4. Running(p)  BY <1>3 DEF IInv, UowInv, RequestInv, Idle
  <1>5. Sound(p) /\ Id(p) \in Numbers /\ Unused(Id(p))
    BY <1>4 DEF JInv, NumbersSound, Numbered
  <1>6. /\ req[p].plan = <<>> /\ \A r \in Wrote(p) : Rule(p, draft[p], r)
    BY <1>3, <1>5 DEF Sound, DraftSound
  <1>7. Known(p) = DOMAIN req[p].copy  BY <1>6, EmptyPlan DEF Known
  <1>8. /\ \A r \in Rows : r \in Wrote(p) => db'[r] = draft[p][r]
        /\ \A r \in Rows : r \notin Wrote(p) => db'[r] = db[r]
    BY <1>2 DEF Seen
  <1> QED  BY <1>1, <1>2, <1>3, <1>4, <1>5, <1>6, <1>7, <1>8

LEMMA MethodOk ==
  ASSUME JInv, NEW m \in MethodRows
  PROVE  /\ m \in Rows /\ m[1] = "method"
         /\ db[m] = [of |-> db[m].of, verified |-> db[m].verified, primary |-> db[m].primary]
         /\ db[m].of \in Users \cup {Nobody}
         /\ db[m].verified \in BOOLEAN /\ db[m].primary \in BOOLEAN
         /\ db[m].verified => db[m].of \in Users
         /\ db[m].primary => db[m].verified
  <1>1. m \in Rows /\ m[1] = "method"  BY TagOfRows, RowsThere
  <1>2. Typed(m, db[m])  BY <1>1 DEF JInv
  <1>3. db[m] \in Methods /\ (db[m].verified => db[m].of # Nobody) /\ (db[m].primary => db[m].verified)
    BY <1>1, <1>2 DEF Typed
  <1> QED  BY <1>1, <1>3 DEF Methods, Owners

(* The first method confirmed is primary, and no other one is. *)
LEMMA ConfirmedAgain ==
  ASSUME IInv, JInv, NEW p \in Requests, Commit1(p), Settled',
         NEW m \in Wrote(p), Confirmed(p, draft[p], m), m \in MethodRows
  PROVE  LET confirm(first) == [of |-> db[m].of, verified |-> TRUE, primary |-> first]
         IN  /\ Settled
             /\ db[m].primary \/ NoPrimary(db, db[m].of) => draft[p][m] = confirm(TRUE)
             /\ ~(db[m].primary \/ NoPrimary(db, db[m].of)) => draft[p][m] = confirm(FALSE)
  <1>1. unseen' = unseen \cup Missed(p)  BY DEF Commit1
  <1>2. DecidedOn(p) = MethodRows  BY DEF Confirmed, DecidedOn
  <1>3. MethodRows \subseteq DOMAIN req[p].copy  BY DEF Confirmed
  <1>4. Settled  BY <1>1 DEF Settled
  <1>5. \A x \in MethodRows : Copy(p, x) = db[x]
    BY <1>1, <1>2, <1>3 DEF Settled, Missed
  <1> DEFINE first == \A x \in MethodsOf(p, draft[p][m].of) : ~Copy(p, x).primary
  <1>6. /\ draft[p][m] = [Copy(p, m) EXCEPT !.verified = TRUE, !.primary = @ \/ first]
        /\ db[m].of = draft[p][m].of
    BY DEF Confirmed
  <1>7. first <=> NoPrimary(db, db[m].of)  BY <1>5, <1>6 DEF MethodsOf, NoPrimary
  <1>8. /\ Copy(p, m) = db[m] /\ db[m].primary \in BOOLEAN
        /\ db[m] = [of |-> db[m].of, verified |-> db[m].verified, primary |-> db[m].primary]
    BY <1>5, MethodOk
  <1>9. first \in BOOLEAN  OBVIOUS
  <1> HIDE DEF first
  <1> DEFINE also == Copy(p, m).primary \/ first
  <1>10. draft[p][m] = [of |-> db[m].of, verified |-> TRUE, primary |-> also]
    <2>1. draft[p][m] = [Copy(p, m) EXCEPT !.verified = TRUE, !.primary = also]
      BY <1>6
    <2>2. PICK v : v = also  OBVIOUS
    <2>3. draft[p][m] = [db[m] EXCEPT !.verified = TRUE, !.primary = v]  BY <1>8, <2>1, <2>2
    <2> HIDE DEF also
    <2>4. draft[p][m] = [of |-> db[m].of, verified |-> TRUE, primary |-> v]  BY <1>8, <2>3
    <2> QED  BY <2>2, <2>4
  <1>11. CASE db[m].primary \/ NoPrimary(db, db[m].of)
    <2>1. also = TRUE  BY <1>7, <1>8, <1>9, <1>11
    <2> QED  BY <1>4, <1>10, <1>11, <2>1
  <1>12. CASE ~(db[m].primary \/ NoPrimary(db, db[m].of))
    <2>1. also = FALSE  BY <1>7, <1>8, <1>9, <1>12
    <2> QED  BY <1>4, <1>10, <1>12, <2>1
  <1> QED  BY <1>11, <1>12

LEMMA PrimaryThere ==
  ASSUME JInv, Settled, NEW m \in MethodRows, db[m].verified
  PROVE  \E x \in MethodRows : db[x].of = db[m].of /\ db[x].verified /\ db[x].primary
  <1> DEFINE u == db[m].of
             confirmed == {x \in MethodRows : db[x].of = u /\ db[x].verified}
             primary1 == {x \in confirmed : db[x].primary}
  <1>1. u \in Users  BY MethodOk
  <1>2. confirmed # {} => Cardinality(primary1) = 1  BY <1>1 DEF JInv, PrimaryKept, OnePrimary
  <1>3. m \in confirmed  OBVIOUS
  <1>4. primary1 # {}
    <2>1. Cardinality({}) = 0  BY FS_EmptySet
    <2> QED  BY <1>2, <1>3, <2>1
  <1> QED  BY <1>4

LEMMA RowsGrowAtCommit ==
  ASSUME IInv, JInv, NEW p \in Requests, Commit1(p)
  PROVE  RowsGrow
  <1>1. Settled' => Settled  BY DEF Commit1, Settled
  <1>2. ASSUME NEW r \in Rows  PROVE Grows(Settled', r, db[r], db'[r])
    <2>1. CASE r \notin Wrote(p)
      <3>1. db'[r] = db[r]  BY <2>1, AtCommit
      <3> QED  BY <3>1, GrowsNowhere
    <2>2. CASE r \in Wrote(p)
      <3>1. db'[r] = draft[p][r] /\ Rule(p, draft[p], r)  BY <2>2, AtCommit
      <3>2. CASE r[1] = "user"
        BY <3>1, <3>2 DEF Rule, UserRule, Grows
      <3>3. CASE r[1] \in {"password", "oauth"}
        BY <3>1, <3>3 DEF Rule, WayRule, Grows
      <3>4. CASE r[1] = "method"
        <4>1. MethodRule(p, draft[p], r) /\ r \in MethodRows  BY <3>1, <3>4 DEF Rule, MethodRule
        <4>2. CASE Started(p, draft[p], r)
          <5>1. db[r].of = Nobody  BY <4>2, AtCommit DEF Started, Unused
          <5>2. ~db[r].verified  BY <4>1, <5>1, MethodOk, AccountRowsThere
          <5> QED  BY <3>4, <5>1, <5>2 DEF Grows
        <4>3. CASE Confirmed(p, draft[p], r)
          <5>1. db[r].of = draft[p][r].of  BY <4>3 DEF Confirmed
          <5>2. ASSUME Settled', db[r].verified  PROVE draft[p][r] = db[r]
            <6>1. /\ Settled
                  /\ db[r].primary \/ NoPrimary(db, db[r].of)
                         => draft[p][r] = [of |-> db[r].of, verified |-> TRUE, primary |-> TRUE]
                  /\ ~(db[r].primary \/ NoPrimary(db, db[r].of))
                         => draft[p][r] = [of |-> db[r].of, verified |-> TRUE, primary |-> FALSE]
              BY <2>2, <4>1, <4>3, <5>2, ConfirmedAgain
            <6>2. ~NoPrimary(db, db[r].of)  BY <4>1, <5>2, <6>1, PrimaryThere DEF NoPrimary
            <6>3. /\ db[r] = [of |-> db[r].of, verified |-> db[r].verified, primary |-> db[r].primary]
                  /\ db[r].verified = TRUE /\ db[r].primary \in BOOLEAN
              BY <4>1, <5>2, MethodOk
            <6> QED  BY <6>1, <6>2, <6>3
          <5> QED  BY <3>1, <3>4, <5>1, <5>2 DEF Grows
        <4>4. CASE Used(p, draft[p], r)
          <5>1. draft[p][r] = Copy(p, r) /\ draft[p][r].of # Nobody /\ draft[p][r].verified
            BY <4>1, <4>4 DEF Used, MethodRule
          <5>2. Grows(Settled, r, draft[p][r], db[r])
            BY <4>4, <5>1, AtCommit DEF Used, Sound, CopySound
          <5> QED  BY <1>1, <3>1, <3>4, <5>1, <5>2 DEF Grows
        <4> QED  BY <4>1, <4>2, <4>3, <4>4 DEF MethodRule
      <3>5. CASE r[1] \notin {"user", "password", "oauth", "method"}
        BY <3>5 DEF Grows
      <3> QED  BY <3>2, <3>3, <3>4, <3>5
    <2> QED  BY <2>1, <2>2
  <1> QED  BY <1>1, <1>2 DEF RowsGrow

LEMMA PrimaryAtCommit ==
  ASSUME IInv, JInv, NEW p \in Requests, Commit1(p)
  PROVE  PrimaryKept'
  <1> SUFFICES ASSUME Settled', NEW u \in Users  PROVE OnePrimary(db', u)
    BY DEF PrimaryKept, OnePrimary
  <1> DEFINE confirmed == {m \in MethodRows : db[m].of = u /\ db[m].verified}
             confirmed1 == {m \in MethodRows : db'[m].of = u /\ db'[m].verified}
             primary1 == {m \in confirmed : db[m].primary}
             primary2 == {m \in confirmed1 : db'[m].primary}
  <1> SUFFICES ASSUME confirmed1 # {}  PROVE Cardinality(primary2) = 1
    BY DEF OnePrimary
  <1>1. Settled /\ \A r \in Rows : Grows(Settled', r, db[r], db'[r])
    BY RowsGrowAtCommit DEF RowsGrow
  <1>2. confirmed # {} => Cardinality(primary1) = 1  BY <1>1 DEF JInv, PrimaryKept, OnePrimary
  <1>3. \A m \in MethodRows : db[m].verified => db'[m] = db[m]
    BY <1>1, MethodOk DEF Grows
  <1>4. \A m \in MethodRows : m \notin Wrote(p) => db'[m] = db[m]
    BY AtCommit, MethodOk
  <1>5. ASSUME NEW m \in MethodRows, ~db[m].verified, db'[m].verified
        PROVE  m \in Wrote(p) /\ Confirmed(p, draft[p], m) /\ db'[m] = draft[p][m]
    <2>1. m \in Wrote(p) /\ db'[m] = draft[p][m]  BY <1>4, <1>5, AtCommit, MethodOk
    <2>2. MethodRule(p, draft[p], m)  BY <2>1, AtCommit, MethodOk DEF Rule
    <2>3. ~Started(p, draft[p], m)  BY <1>5, <2>1 DEF Started
    <2>4. ~Used(p, draft[p], m)
      <3> SUFFICES ASSUME Used(p, draft[p], m)  PROVE FALSE
        OBVIOUS
      <3>1. Grows(Settled, m, Copy(p, m), db[m])  BY AtCommit DEF Used, Sound, CopySound
      <3>2. Copy(p, m).verified  BY DEF Used
      <3> QED  BY <1>1, <1>5, <3>1, <3>2, MethodOk DEF Grows
    <2> QED  BY <2>1, <2>2, <2>3, <2>4 DEF MethodRule
  <1>6. CASE \A m \in MethodRows : db'[m].verified => db[m].verified
    <2>1. confirmed1 = confirmed  BY <1>3, <1>6
    <2>2. primary2 = primary1  BY <1>3, <2>1
    <2> QED  BY <1>2, <2>1, <2>2
  <1>7. ASSUME NEW m \in MethodRows, ~db[m].verified, db'[m].verified
        PROVE  Cardinality(primary2) = 1
    <2>1. m \in Wrote(p) /\ Confirmed(p, draft[p], m) /\ db'[m] = draft[p][m]  BY <1>5, <1>7
    <2>2. /\ db[m].primary \/ NoPrimary(db, db[m].of)
                 => draft[p][m] = [of |-> db[m].of, verified |-> TRUE, primary |-> TRUE]
          /\ ~(db[m].primary \/ NoPrimary(db, db[m].of))
                 => draft[p][m] = [of |-> db[m].of, verified |-> TRUE, primary |-> FALSE]
      BY <1>7, <2>1, ConfirmedAgain
    <2>3. ~db[m].primary  BY <1>7, MethodOk
    <2>4. NoPrimary(db, db[m].of) \in BOOLEAN  BY DEF NoPrimary
    <2>5. db'[m].of = db[m].of /\ (db'[m].primary <=> NoPrimary(db, db[m].of))
      BY <2>1, <2>2, <2>3
    <2>6. \A x \in MethodRows \ {m} : db'[x] = db[x]
      BY <1>4, <2>1 DEF Confirmed, Wrote
    <2>7. CASE db[m].of # u
      <3>1. confirmed1 = confirmed  BY <1>3, <2>5, <2>6, <2>7
      <3>2. primary2 = primary1  BY <1>3, <3>1
      <3> QED  BY <1>2, <3>1, <3>2
    <2>8. CASE db[m].of = u
      <3>1. confirmed1 = confirmed \cup {m}
        BY <1>3, <1>7, <2>5, <2>6, <2>8
      <3>2. CASE confirmed = {}
        <4>1. NoPrimary(db, db[m].of)  BY <2>8, <3>2, MethodOk DEF NoPrimary
        <4>2. confirmed1 = {m}  BY <3>1, <3>2
        <4>3. db'[m].primary  BY <2>5, <4>1
        <4>4. primary2 = {m}  BY <4>2, <4>3
        <4> QED  BY <4>4, FS_Singleton
      <3>3. CASE confirmed # {}
        <4>1. PICK y \in confirmed : TRUE  BY <3>3
        <4>2. PICK x \in MethodRows : db[x].of = u /\ db[x].primary
          BY <1>1, <4>1, PrimaryThere
        <4>3. ~NoPrimary(db, db[m].of)  BY <2>8, <4>2 DEF NoPrimary
        <4>4. ~db'[m].primary  BY <2>5, <4>3
        <4>5. primary2 = primary1  BY <1>3, <1>7, <3>1, <4>4
        <4> QED  BY <1>2, <3>3, <4>5
      <3> QED  BY <3>2, <3>3
    <2> QED  BY <2>7, <2>8
  <1> QED  BY <1>6, <1>7

LEMMA AccountsCommit ==
  ASSUME IInv, JInv, NEW p \in Requests, Commit1(p)
  PROVE  JInv'
  <1>1. /\ OthersStay(p) /\ req'[p] = Idle /\ Wrote(p)' = {} /\ begun' = begun /\ Running(p)
        /\ \A r \in Rows : r \in Wrote(p) => db'[r] = draft[p][r]
        /\ \A r \in Rows : r \notin Wrote(p) => db'[r] = db[r]
        /\ \A r \in Wrote(p) : Rule(p, draft[p], r)
        /\ \A q \in Requests \ {p} : \A r \in Rows \cap Wrote(q) : db'[r] = db[r]
    BY AtCommit
  <1>2. RowsGrow /\ PrimaryKept'  BY RowsGrowAtCommit, PrimaryAtCommit
  <1>3. ASSUME NEW r \in Rows  PROVE Typed(r, db'[r])
    <2>1. CASE r \notin Wrote(p)  BY <1>1, <2>1 DEF JInv
    <2>2. CASE r \in Wrote(p)
      BY <1>1, <2>2 DEF Rule, WayRule, MethodRule, Typed
    <2> QED  BY <2>1, <2>2
  <1>4. ASSUME NEW n \in Numbers, n # Id(p), Unused(n)  PROVE Unused(n)'
    <2>1. /\ Method(n) \in MethodRows /\ Method(n) \in Rows /\ Lockout(n) \in Rows
          /\ Method(n)[1] = "method" /\ Lockout(n)[1] = "lockout"
      BY AccountRowsThere, AccountTags
    <2>2. db'[Method(n)].of = Nobody
      <3>1. CASE Method(n) \notin Wrote(p)  BY <1>1, <1>4, <2>1, <3>1 DEF Unused
      <3>2. CASE Method(n) \in Wrote(p)
        <4>1. MethodRule(p, draft[p], Method(n))  BY <1>1, <2>1, <3>2 DEF Rule
        <4>2. ~Started(p, draft[p], Method(n))  BY <1>4, NumberOfRow DEF Started
        <4>3. ~Confirmed(p, draft[p], Method(n))
          BY <1>4, <4>1 DEF Confirmed, MethodRule, Unused
        <4>4. ~Used(p, draft[p], Method(n))
          <5> SUFFICES ASSUME Used(p, draft[p], Method(n))  PROVE FALSE
            OBVIOUS
          <5>1. Grows(Settled, Method(n), Copy(p, Method(n)), db[Method(n)])
            BY AtCommit DEF Used, Sound, CopySound
          <5>2. Copy(p, Method(n)).of # Nobody  BY <4>1 DEF Used, MethodRule
          <5> QED  BY <1>4, <2>1, <5>1, <5>2 DEF Grows, Unused
        <4> QED  BY <4>1, <4>2, <4>3, <4>4 DEF MethodRule
      <3> QED  BY <3>1, <3>2
    <2>3. ~db'[Lockout(n)].active
      <3>1. CASE Lockout(n) \notin Wrote(p)  BY <1>1, <1>4, <2>1, <3>1 DEF Unused
      <3>2. CASE Lockout(n) \in Wrote(p)
        BY <1>1, <1>4, <2>1, <3>2, NumberOfRow DEF Rule, LockoutRule
      <3> QED  BY <3>1, <3>2
    <2> QED  BY <2>2, <2>3 DEF Unused
  <1>5. NumbersSound'  BY <1>1, <1>4, NumbersEnd DEF JInv
  <1>6. ASSUME NEW q \in Requests  PROVE Sound(q)'
    <2>1. CASE q = p  BY <1>1, <2>1, IdleSound
    <2>2. CASE q # p  BY <1>1, <1>2, <2>2, OthersSound DEF OthersStay, JInv
    <2> QED  BY <2>1, <2>2
  <1> QED  BY <1>2, <1>3, <1>5, <1>6 DEF JInv

-----------------------------------------------------------------------------
(* Where a behaviour starts. *)
LEMMA AccountRowsOnly ==
  ASSUME NEW r \in Rows, r[1] \in {"user", "address", "password", "oauth", "method"}
  PROVE  r \in AccountRows /\ ValuesOf(r) = AccountValues(r)
  <1>1. r \notin TenancyRows
    BY TenancyTags DEF TenancyRows, Grants, RoleRows, Edges, OverrideRows, InvitationRows
  <1>2. r \notin PlatformRows
    BY PlatformTags DEF PlatformRows, StaffGrants, StaffRoleRows, OwnerRows
  <1> QED  BY <1>1, <1>2, AccessAssumption DEF AccessRows, ValuesOf

LEMMA AccountsStart ==
  ASSUME Init
  PROVE  JInv
  <1>1. PICK s \in Scenes : DbInit(s.rows) /\ runs = s.runs /\ UowInit(s.already)
    BY DEF Init
  <1>2. /\ db = s.rows /\ begun = s.already /\ unseen = {}
        /\ \A p \in Requests : req[p] = Idle /\ draft[p] = NoRows
    BY <1>1 DEF DbInit, UowInit, Init
  <1>3. SoundAccounts(db, begun)  BY <1>2, ScenesAssumption
  <1>4. s.already \in Numbers /\ \A r \in Rows : db[r] \in ValuesOf(r)
    BY <1>2, AccessAssumption
  <1>5. \A p \in Requests : ~Running(p) /\ Wrote(p) = {}
    BY <1>2 DEF Running, Idle, Wrote, NoRows
  <1>6. NumbersSound
    BY <1>2, <1>3, <1>4, <1>5 DEF NumbersSound, Numbered, SoundAccounts, Unused
  <1>7. ASSUME NEW r \in Rows  PROVE Typed(r, db[r])
    <2>1. CASE r[1] \notin {"user", "address", "password", "oauth", "method"}
      BY <2>1, PlainRow
    <2>2. CASE r[1] \in {"user", "address", "password", "oauth", "method"}
      <3>1. r \in AccountRows /\ db[r] \in AccountValues(r)
        BY <1>4, <2>2, AccountRowsOnly
      <3>2. ASSUME r[1] = "address"  PROVE db[r] \in Owners
        <4>1. r \notin WayRows  BY <3>2, TagOfRows
        <4> QED  BY <3>1, <3>2, <4>1 DEF AccountValues
      <3>3. CASE r[1] \in {"password", "oauth"}
        <4>1. r \in WayRows  BY <3>1, <3>3, TagOfRows DEF AccountRows
        <4>2. db[r] \in Ways  BY <3>1, <3>3, <4>1 DEF AccountValues
        <4> QED  BY <3>3, <4>2 DEF Typed
      <3>4. CASE r[1] = "method"
        <4>1. r \in MethodRows /\ r \notin WayRows
          BY <3>1, <3>4, TagOfRows DEF AccountRows
        <4>2. db[r] \in Methods  BY <3>1, <3>4, <4>1 DEF AccountValues
        <4> QED  BY <1>3, <3>4, <4>1, <4>2 DEF Typed, SoundAccounts
      <3> QED  BY <2>2, <3>2, <3>3, <3>4 DEF Typed
    <2> QED  BY <2>1, <2>2
  <1>8. ASSUME NEW p \in Requests  PROVE Sound(p)
    <2>1. /\ req[p].kind = "idle" /\ DOMAIN req[p].copy = {} /\ req[p].done = FALSE
      BY <1>2 DEF Idle, NoRows
    <2>2. DraftSound(p)  BY <1>5, <2>1 DEF DraftSound
    <2>3. CopySound(p)  BY <2>1 DEF CopySound
    <2>4. AskedSound(p)  BY <2>1 DEF AskedSound, HierarchyAsked, SignInAsked, AccountThere
    <2> QED  BY <2>2, <2>3, <2>4 DEF Sound
  <1>9. PrimaryKept  BY <1>3 DEF PrimaryKept, SoundAccounts
  <1> QED  BY <1>6, <1>7, <1>8, <1>9 DEF JInv

LEMMA AccountsKeep == IInv /\ JInv /\ [Next]_vars => JInv'
  <1> SUFFICES ASSUME IInv, JInv, [Next]_vars  PROVE JInv'
    OBVIOUS
  <1>1. ASSUME NEW p \in Requests, Ask1(p)  PROVE JInv'
    BY <1>1, TenancyArrives, PlatformArrives, AccountsArrive DEF Ask1
  <1>2. ASSUME NEW p \in Requests, Step1(p)  PROVE JInv'
    BY <1>2, AccountsRead, TenancySaves, PlatformSaves, AccountsWrite, AccountsAbandon DEF Step1
  <1>3. ASSUME NEW p \in Requests, Commit1(p)  PROVE JInv'
    BY <1>3, AccountsCommit
  <1>4. CASE UNCHANGED vars
    <2>1. req' = req /\ draft' = draft /\ db' = db /\ begun' = begun /\ unseen' = unseen
      BY <1>4 DEF vars, uowVars, dbVars
    <2>2. ASSUME NEW q \in Requests  PROVE Sound(q)'
      BY <2>1, RowsStay, OthersSound DEF JInv
    <2>3. NumbersSound'
      BY <2>1 DEF JInv, NumbersSound, Numbered, Running, Id, Unused
    <2> QED  BY <2>1, <2>2, <2>3 DEF JInv, PrimaryKept, Settled
  <1> QED  BY <1>1, <1>2, <1>3, <1>4 DEF Next

LEMMA AccountsInvariant == Spec => [](IInv /\ JInv)
  <1>1. Init => IInv /\ JInv  BY AccessStarts, AccountsStart
  <1>2. IInv /\ JInv /\ [Next]_vars => IInv' /\ JInv'  BY AccessKept, AccountsKeep
  <1> QED  BY <1>1, <1>2, PTL DEF Spec

-----------------------------------------------------------------------------
(* Only a commit changes the committed rows, and what was missed counts on. *)
LEMMA CommitOrNot ==
  ASSUME [Next]_vars
  PROVE  \/ db' = db /\ unseen \subseteq unseen'
         \/ \E p \in Requests : Commit1(p)
  <1>1. CASE \E p \in Requests : Ask1(p) \/ Step1(p)
    <2>1. unseen' = unseen  BY <1>1 DEF Ask1, Step1
    <2>2. db' # db => \E p \in Requests : Commit1(p)  BY OnlyCommitsCount
    <2> QED  BY <2>1, <2>2
  <1>2. CASE UNCHANGED vars  BY <1>2 DEF vars, uowVars, dbVars
  <1> QED  BY <1>1, <1>2 DEF Next

-----------------------------------------------------------------------------
(* The account's ways in. *)
LEMMA WaysAtCommit ==
  ASSUME IInv, JInv, WaysKept, NEW p \in Requests, Commit1(p)
  PROVE  WaysKept'
  <1> SUFFICES ASSUME WayRows \cap unseen' = {}, NEW u \in Users, db'[User(u)] # "absent"
               PROVE  \E w \in WayRows : db'[w].of = u /\ db'[w].active
    BY DEF WaysKept, There, HasWayIn
  <1>1. /\ \A r \in Rows : r \in Wrote(p) => db'[r] = draft[p][r]
        /\ \A r \in Rows : r \notin Wrote(p) => db'[r] = db[r]
        /\ \A r \in Wrote(p) : Rule(p, draft[p], r)
        /\ unseen' = unseen \cup Missed(p)
    BY AtCommit
  <1>2. User(u) \in Rows /\ User(u)[1] = "user" /\ User(u)[2] = u
    BY AccountRowsThere, AccountTags
  <1>3. \A w \in WayRows : w \in Rows /\ w[1] \in {"password", "oauth"}
    BY RowsThere, TagOfRows
  <1>4. CASE db[User(u)] = "absent"
    <2>1. User(u) \in Wrote(p) /\ UserRule(p, draft[p], User(u))
      BY <1>1, <1>2, <1>4 DEF Rule
    <2>2. PICK w \in WayRows \cap Wrote(p) : draft[p][w].of = u /\ draft[p][w].active
      BY <1>2, <1>4, <2>1 DEF UserRule, Wrote
    <2> QED  BY <1>1, <1>3, <2>2
  <1>5. CASE db[User(u)] # "absent"
    <2>1. PICK w \in WayRows : db[w].of = u /\ db[w].active
      BY <1>1, <1>5 DEF WaysKept, There, HasWayIn
    <2>2. CASE w \notin Wrote(p)  BY <1>1, <1>3, <2>1, <2>2
    <2>3. CASE w \in Wrote(p)
      <3>1. WayRule(p, draft[p], w)  BY <1>1, <1>3, <2>3 DEF Rule
      <3>2. draft[p][w].of = u /\ db'[w] = draft[p][w]
        BY <1>1, <1>3, <2>1, <2>3, <3>1, AccountRowsThere DEF WayRule
      <3>3. CASE draft[p][w].active  BY <3>2, <3>3
      <3>4. CASE Unlinked(p, draft[p], w)
        <4>1. PICK x \in WayRows \ {w} : Copy(p, x).of = u /\ Copy(p, x).active
          BY <3>2, <3>4 DEF Unlinked
        <4>2. DecidedOn(p) = WayRows /\ x \in DOMAIN req[p].copy  BY <3>4 DEF Unlinked, DecidedOn
        <4>3. db[x] = Copy(p, x)  BY <1>1, <4>2 DEF Missed
        <4>4. db'[x] = db[x]  BY <1>1, <1>3, <3>4 DEF Unlinked, Wrote
        <4> QED  BY <4>1, <4>3, <4>4
      <3> QED  BY <3>1, <3>3, <3>4 DEF WayRule
    <2> QED  BY <2>2, <2>3
  <1> QED  BY <1>4, <1>5

(* However the requests overlap, an account has a way in and one primary    *)
(* method, unless two decided on its rows at the same time: what            *)
(* UnlinkOAuthAccount and ConfirmTotpEnrollment check.                      *)
THEOREM AccountsStayOpen == Spec => []WaysInNeedOverlap
  <1>1. Init => WaysKept
    <2> SUFFICES ASSUME Init  PROVE WaysKept
      OBVIOUS
    <2>1. PICK s \in Scenes : DbInit(s.rows)  BY DEF Init
    <2>2. db = s.rows  BY <2>1 DEF DbInit
    <2> QED  BY <2>2, ScenesAssumption DEF WaysKept, There, SoundAccounts
  <1>2. WaysKept /\ IInv /\ JInv /\ [Next]_vars => WaysKept'
    <2> SUFFICES ASSUME WaysKept, IInv, JInv, [Next]_vars  PROVE WaysKept'
      OBVIOUS
    <2>1. CASE db' = db /\ unseen \subseteq unseen'  BY <2>1 DEF WaysKept, There
    <2> QED  BY <2>1, CommitOrNot, WaysAtCommit
  <1>3. WaysKept /\ JInv => WaysInNeedOverlap
    BY DEF WaysKept, JInv, PrimaryKept, Settled, WaysInNeedOverlap
  <1> QED  BY <1>1, <1>2, <1>3, AccountsInvariant, PTL DEF Spec

-----------------------------------------------------------------------------
(* The hierarchy. *)
CyclesNone == Edges \cap unseen = {} => NoCycle(EdgesIn(db))

LEMMA AcyclicIs ==
  ASSUME NEW f
  PROVE  Acyclic(f) <=> NoCycle(EdgesIn(f))
  <1>1. EdgesIn(f) \subseteq Roles \X Roles  BY DEF EdgesIn
  <1>2. \A e \in EdgesIn(f) : e[1] \in Roles  BY <1>1
  <1> QED  BY <1>2 DEF Acyclic, OnCycle, NoCycle, Within

LEMMA CyclesAtCommit ==
  ASSUME IInv, JInv, CyclesNone, NEW p \in Requests, Commit1(p),
         MaxHierarchyDepth >= Cardinality(Roles)
  PROVE  CyclesNone'
  <1> SUFFICES ASSUME Edges \cap unseen' = {}  PROVE NoCycle(EdgesIn(db'))
    BY DEF CyclesNone, NoCycle, EdgesIn, Within
  <1>1. /\ \A r \in Rows : r \in Wrote(p) => db'[r] = draft[p][r]
        /\ \A r \in Rows : r \notin Wrote(p) => db'[r] = db[r]
        /\ \A r \in Wrote(p) : Rule(p, draft[p], r)
        /\ unseen' = unseen \cup Missed(p)
    BY AtCommit
  <1>2. NoCycle(EdgesIn(db))  BY <1>1 DEF CyclesNone
  <1>3. \A r \in Edges : r \in Rows /\ r[1] = "edge"  BY RowsThere, TagOfRows
  <1>4. \A e \in Roles \X Roles : e[1] # e[2] => Edge(e[1], e[2]) \in Edges
    BY NumberOfRow DEF Edges
  <1>5. CASE \A r \in Edges : db'[r] = db[r]
    <2>1. EdgesIn(db') = EdgesIn(db)  BY <1>4, <1>5 DEF EdgesIn
    <2> QED  BY <1>2, <2>1
  <1>6. ASSUME NEW r \in Edges, r \in Wrote(p)  PROVE NoCycle(EdgesIn(db'))
    <2>1. EdgeRule(p, draft[p], r)  BY <1>1, <1>3, <1>6 DEF Rule
    <2> DEFINE a == Arg(p).on
               b == Arg(p).with
    <2>2. /\ a \in Roles /\ b \in Roles /\ r = Edge(a, b) /\ db'[r] = TRUE
          /\ \A x \in Rows : x # r => db'[x] = db[x]
      BY <1>1, <1>3, <1>6, <2>1 DEF EdgeRule, Wrote
    <2>3. StaysAcyclic(EdgesIn(req[p].copy), a, b)  BY <2>1 DEF EdgeRule
    <2>4. \A x \in Edges : db[x] = req[p].copy[x]
      <3>1. DecidedOn(p) = Edges /\ Edges \subseteq DOMAIN req[p].copy
        BY <2>1 DEF EdgeRule, DecidedOn
      <3> QED  BY <1>1, <3>1 DEF Missed, Copy
    <2>5. EdgesIn(req[p].copy) = EdgesIn(db)  BY <1>4, <2>4 DEF EdgesIn
    <2>6. a # b /\ a \notin Within(EdgesIn(db), b)  BY <2>3, <2>5 DEF StaysAcyclic, Within
    <2> HIDE DEF a, b
    <2>7. EdgesIn(db') = EdgesIn(db) \cup {<<a, b>>}
      BY <1>3, <1>4, <2>2, <2>6, NumberOfRow DEF EdgesIn
    <2>8. EdgesIn(db) \in SUBSET (Roles \X Roles)  BY DEF EdgesIn
    <2>9. IsFiniteSet(Roles)  BY TenancyAssumption
    <2>10. NoCycle(EdgesIn(db) \cup {<<a, b>>})
      BY <1>2, <2>2, <2>6, <2>8, <2>9, EdgeAdded
    <2> QED  BY <2>7, <2>10
  <1> QED  BY <1>1, <1>3, <1>5, <1>6

(* However creations overlap, the hierarchy has no cycle, unless one edge   *)
(* was committed while another creation had read the hierarchy without it   *)
(* (validate_hierarchy_edge over the edges read).                           *)
THEOREM HierarchyStaysAcyclic == Spec => []CyclesNeedOverlap
  <1> DEFINE Kept == MaxHierarchyDepth >= Cardinality(Roles) => CyclesNone
  <1>1. Init => Kept
    <2> SUFFICES ASSUME Init  PROVE CyclesNone
      OBVIOUS
    <2>1. PICK s \in Scenes : DbInit(s.rows)  BY DEF Init
    <2>2. db = s.rows  BY <2>1 DEF DbInit
    <2> QED  BY <2>2, ScenesAssumption, AcyclicIs DEF CyclesNone
  <1>2. Kept /\ IInv /\ JInv /\ [Next]_vars => Kept'
    <2> SUFFICES ASSUME CyclesNone, IInv, JInv, [Next]_vars, MaxHierarchyDepth >= Cardinality(Roles)
                 PROVE  CyclesNone'
      OBVIOUS
    <2>1. CASE db' = db /\ unseen \subseteq unseen'  BY <2>1 DEF CyclesNone
    <2> QED  BY <2>1, CommitOrNot, CyclesAtCommit
  <1>3. Kept => CyclesNeedOverlap
    BY AcyclicIs DEF CyclesNone, CyclesNeedOverlap
  <1> HIDE DEF Kept
  <1> QED  BY <1>1, <1>2, <1>3, AccountsInvariant, PTL DEF Spec

-----------------------------------------------------------------------------
(* The lockout. *)
LEMMA AttemptsFinite == IsFiniteSet(AttemptRows)
  <1> DEFINE f == [n \in Numbers |-> Attempt(n)]
  <1>1. IsFiniteSet(Numbers)  BY UnitOfWorkAssumption, FS_Interval DEF Numbers
  <1>2. f \in Surjection(Numbers, AttemptRows)  BY DEF AttemptRows, Surjection
  <1> QED  BY <1>1, <1>2, FS_Surjection

LocksKept == AttemptRows \cap unseen = {} => LocksOut(db)

LEMMA LocksAtCommit ==
  ASSUME IInv, JInv, LocksKept, NEW p \in Requests, Commit1(p)
  PROVE  LocksKept'
  <1> SUFFICES ASSUME AttemptRows \cap unseen' = {}, NEW u \in Users, NEW a \in Addresses,
                      Cardinality(WrongPasswords(db', u, a)) >= MaxFailedAttempts
               PROVE  \E l \in LockoutRows : db'[l] = [of |-> u, active |-> TRUE]
    BY DEF LocksKept, LocksOut, WrongPasswords
  <1>1. /\ \A r \in Rows : r \in Wrote(p) => db'[r] = draft[p][r]
        /\ \A r \in Rows : r \notin Wrote(p) => db'[r] = db[r]
        /\ \A r \in Wrote(p) : Rule(p, draft[p], r)
        /\ unseen' = unseen \cup Missed(p)
        /\ req[p].done /\ Known(p) = DOMAIN req[p].copy
        /\ Sound(p) /\ Id(p) \in Numbers /\ Unused(Id(p))
    BY AtCommit
  <1>2. /\ \A r \in AttemptRows : r \in Rows /\ r[1] = "attempt"
        /\ \A r \in LockoutRows : r \in Rows /\ r[1] = "lockout"
    BY RowsThere, TagOfRows
  <1>3. u # Nobody  BY AccountRowsThere
  <1> DEFINE old == WrongPasswords(db, u, a)
             new == WrongPasswords(db', u, a)
             this == Attempt(Id(p))
  <1>4. old \in SUBSET AttemptRows /\ new \in SUBSET AttemptRows  BY DEF WrongPasswords
  <1>5. IsFiniteSet(old) /\ IsFiniteSet(new)  BY <1>4, AttemptsFinite, FS_Subset
  <1>6. ASSUME NEW r \in new, r \in Wrote(p)
        PROVE  /\ req[p].kind = "count_failures" /\ r = this
               /\ Holder(p, Arg(p).address) = u /\ Arg(p).address = a
    <2>1. draft[p][r] = [result |-> "invalid_credentials", of |-> u, address |-> a]
      BY <1>1, <1>2, <1>4, <1>6 DEF WrongPasswords
    <2>2. AttemptRule(p, draft[p], r)  BY <1>1, <1>2, <1>4, <1>6 DEF Rule
    <2> QED  BY <1>3, <2>1, <2>2 DEF AttemptRule
  <1>7. \A r \in new : r \notin Wrote(p) => r \in old
    BY <1>1, <1>2, <1>4 DEF WrongPasswords
  <1>8. CASE new \subseteq old
    <2>1. Cardinality(new) <= Cardinality(old)  BY <1>5, <1>8, FS_Subset
    <2>2. Cardinality(old) \in Nat /\ Cardinality(new) \in Nat  BY <1>5, FS_CardinalityType
    <2>3. Cardinality(old) >= MaxFailedAttempts  BY <2>1, <2>2, AccountsAssumption
    <2>4. PICK l \in LockoutRows : db[l] = [of |-> u, active |-> TRUE]
      BY <1>1, <2>3 DEF LocksKept, LocksOut
    <2>5. l \notin Wrote(p)
      BY <1>1, <1>2, <2>4 DEF Rule, LockoutRule, Unused
    <2> QED  BY <1>1, <1>2, <2>4, <2>5
  <1>9. CASE ~(new \subseteq old)
    <2>1. PICK r \in new : r \in Wrote(p)  BY <1>7, <1>9
    <2>2. /\ req[p].kind = "count_failures"
          /\ Holder(p, Arg(p).address) = u /\ Arg(p).address = a
      BY <1>6, <2>1
    <2>3. Counts(p)  BY <1>1, <2>2 DEF Sound, DraftSound
    <2> DEFINE counted == {x \in AttemptRows \ {this} :
                              /\ Copy(p, x).result \notin {"none", "success"}
                              /\ Copy(p, x).address = Arg(p).address}
    <2>4. \A x \in AttemptRows \ {this} : Copy(p, x) = db[x]
      <3>1. DecidedOn(p) = AttemptRows  BY <2>2 DEF DecidedOn
      <3> QED  BY <1>1, <2>3, <3>1 DEF Counts, Missed
    <2>5. new \ {this} \subseteq counted
      <3> SUFFICES ASSUME NEW x \in new, x # this  PROVE x \in counted
        OBVIOUS
      <3>1. x \in old  BY <1>6, <1>7
      <3>2. x \in AttemptRows /\ db[x].result = "invalid_credentials" /\ db[x].address = a
        BY <3>1 DEF WrongPasswords
      <3> QED  BY <2>2, <2>4, <3>2
    <2>6. counted \in SUBSET AttemptRows /\ IsFiniteSet(counted) /\ this \notin counted
      BY AttemptsFinite, FS_Subset
    <2>7. /\ Failures(p) = 1 + Cardinality(counted)
          /\ Cardinality(counted) \in Nat /\ Cardinality(new) \in Nat
      BY <1>5, <2>6, FS_CardinalityType DEF Failures
    <2> HIDE DEF counted, this
    <2>8. Cardinality(new) <= Failures(p)
      <3>1. new \in SUBSET (counted \cup {this})  BY <2>5
      <3>2. IsFiniteSet(counted \cup {this}) /\ Cardinality(counted \cup {this}) = Cardinality(counted) + 1
        BY <2>6, FS_AddElement
      <3>3. Cardinality(new) <= Cardinality(counted \cup {this})  BY <3>1, <3>2, FS_Subset
      <3> QED  BY <2>7, <3>2, <3>3
    <2>9. ShouldLock(Failures(p))
      BY <2>7, <2>8, AccountsAssumption DEF ShouldLock
    <2>10. /\ Lockout(Id(p)) \in Wrote(p)
           /\ draft[p][Lockout(Id(p))] = [of |-> u, active |-> TRUE]
      BY <1>1, <2>2, <2>3, <2>9 DEF Counts
    <2>11. Lockout(Id(p)) \in LockoutRows /\ Lockout(Id(p)) \in Rows  BY <1>1, AccountRowsThere
    <2> QED  BY <1>1, <2>10, <2>11
  <1> QED  BY <1>8, <1>9

(* However sign-ins overlap, an account is locked out after                 *)
(* max_failed_attempts wrong passwords, unless attempts were counted that   *)
(* overlapped (LoginUser._record_failure).                                  *)
THEOREM LockedOutInTime == Spec => []LockoutNeedsOverlap
  <1>1. Init => LocksKept
    <2> SUFFICES ASSUME Init  PROVE LocksKept
      OBVIOUS
    <2>1. PICK s \in Scenes : DbInit(s.rows)  BY DEF Init
    <2>2. db = s.rows  BY <2>1 DEF DbInit
    <2> QED  BY <2>2, ScenesAssumption DEF LocksKept, SoundAccounts
  <1>2. LocksKept /\ IInv /\ JInv /\ [Next]_vars => LocksKept'
    <2> SUFFICES ASSUME LocksKept, IInv, JInv, [Next]_vars  PROVE LocksKept'
      OBVIOUS
    <2>1. CASE db' = db /\ unseen \subseteq unseen'  BY <2>1 DEF LocksKept
    <2> QED  BY <2>1, CommitOrNot, LocksAtCommit
  <1>3. LocksKept => LockoutNeedsOverlap  BY DEF LocksKept, LockoutNeedsOverlap
  <1> QED  BY <1>1, <1>2, <1>3, AccountsInvariant, PTL DEF Spec

=============================================================================
