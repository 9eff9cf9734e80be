------------------------------- MODULE Platform -------------------------------
(***************************************************************************)
(* The platform's side of the same database: the staff's roles, the         *)
(* tenants, what a tenant's plan allows, and support impersonation          *)
(* (application/platform_authz, application/impersonation).                 *)
(***************************************************************************)
EXTENDS Tenancy

CONSTANTS
    Staff,                \* users of the platform, who may also own tenants
    PlatformSystemRoles, PlatformCustomRoles,
    PlatformPermissions,
    PlatformSystemCodes,  \* the codes of each system role
    PlatformRank,
    Tenants,              \* by their slugs
    Impersonations        \* identities of impersonation_sessions rows

PlatformRoles == PlatformSystemRoles \cup PlatformCustomRoles

ASSUME PlatformAssumption ==
    /\ PlatformSystemRoles \cap PlatformCustomRoles = {}
    /\ PlatformSystemCodes \in [PlatformSystemRoles -> SUBSET PlatformPermissions]
    /\ PlatformRank \in [PlatformRoles -> Nat]
    /\ {"platform.tenants.create", "platform.tenants.suspend",
        "platform.model_configurations.manage",
        "platform.support.impersonate"} \subseteq PlatformPermissions

-----------------------------------------------------------------------------
StaffGrant(u, r) == <<"staff_grant", u, r>>
StaffRole(r) == <<"staff_role", r>>
StaffCode(r, c) == <<"staff_code", r, c>>
Tenant(t) == <<"tenant", t>>
Owner(t, u) == <<"owner", t, u>>          \* the owner's membership of the tenant
Impersonation(i) == <<"impersonation", i>>

StaffGrants(u) == {StaffGrant(u, r) : r \in PlatformRoles}
StaffRoleRows ==
    {StaffRole(r) : r \in PlatformCustomRoles}
        \cup {StaffCode(r, c) : r \in PlatformCustomRoles, c \in PlatformPermissions}
OwnerRows == {Owner(t, u) : t \in Tenants, u \in Staff}
PlatformRows ==
    (UNION {StaffGrants(u) : u \in Staff}) \cup StaffRoleRows \cup {Tenant(t) : t \in Tenants}
        \cup OwnerRows \cup {Impersonation(i) : i \in Impersonations}

TenantValues == [status : {"absent", "pending", "active", "suspended", "deactivated"},
                 name : Numbers, profile : Numbers]
Ownerships == {"none", "member", "default"}
ImpersonationValues == [state : {"absent", "open", "ended"}, by : Staff, of : Members]

PlatformValues(r) ==
    CASE r[1] = "tenant"        -> TenantValues
      [] r[1] = "owner"         -> Ownerships
      [] r[1] = "impersonation" -> ImpersonationValues
      [] OTHER                  -> BOOLEAN

-----------------------------------------------------------------------------
(* compute_effective_platform_state: the active assignments, then their     *)
(* roles' codes.  Nothing writes an override or an edge of the platform's   *)
(* scope. *)
StaffCodesOf(f, r) ==
    IF r \in PlatformSystemRoles THEN PlatformSystemCodes[r]
    ELSE {c \in PlatformPermissions : f[StaffCode(r, c)]}

StaffRolesOf(f, u) == {r \in PlatformRoles : f[StaffGrant(u, r)]}
StaffHolds(f, u) == UNION {StaffCodesOf(f, r) : r \in StaffRolesOf(f, u)}

StaffAuthority(u) == << StaffGrants(u), StaffRoleRows >>

AskPlatform(p, kind, actor, on, with, plan) ==
    Begin(p, kind, [actor |-> actor, on |-> on, with |-> with], StaffAuthority(actor) \o plan)

StaffMay(p, kind, permission) ==
    Decides(p, kind) /\ permission \in StaffHolds(req[p].copy, Arg(p).actor)

StaffCanAssign(p, toSelf, rank, codes) ==
    LET f == req[p].copy
        u == Arg(p).actor
    IN  CanAssignRole(StaffHolds(f, u), {PlatformRank[r] : r \in StaffRolesOf(f, u)},
                      toSelf, rank, codes)

StaffCodesSeen(p, r) == StaffCodesOf([x \in StaffRoleRows |-> Seen(p, x)], r)
StaffRoleThere(p, r) == r \in PlatformCustomRoles => Seen(p, StaffRole(r))

-----------------------------------------------------------------------------
StaffRoleRoutes(p) ==
    \E a \in Staff :
        \/ \E u \in Staff, r \in PlatformRoles, kind \in {"grant_staff", "revoke_staff"} :
               AskPlatform(p, kind, a, u, r, <<>>)
        \/ \E r \in PlatformCustomRoles, c \in PlatformPermissions :
               \/ AskPlatform(p, "create_staff_role", a, r, {c}, <<>>)
               \/ \E kind \in {"add_staff_code", "remove_staff_code"} :
                      AskPlatform(p, kind, a, r, c, <<>>)

TenantRoutes(p) ==
    \E a \in Staff, t \in Tenants :
        \/ \E u \in Staff : AskPlatform(p, "create_tenant", a, t, u, << {Tenant(t)}, OwnerRows >>)
        \/ \E kind \in {"suspend_tenant", "reactivate_tenant", "rename_tenant"} :
               AskPlatform(p, kind, a, t, {}, << {Tenant(t)} >>)

ProfileRoutes(p) ==
    \E a \in Staff, t \in Tenants :
        AskPlatform(p, "set_profile", a, t, {}, << {Tenant(t)} >>)

PlanRoutes(p) ==
    \E a \in Staff, plan \in EntitlementValues :
        AskPlatform(p, "set_entitlements", a, {}, plan, << {Entitlements} >>)

ImpersonationRoutes(p) ==
    \E a \in Staff, i \in Impersonations :
        \/ \E m \in Members : AskPlatform(p, "impersonate", a, i, m, <<>>)
        \/ Begin(p, "end_impersonation", [actor |-> a, on |-> i], << {Impersonation(i)} >>)

-----------------------------------------------------------------------------
(* The staff's roles.  Granting and revoking ask for no permission but the  *)
(* codes of the role itself. *)
MayHandle(p, kind) ==
    LET r == Arg(p).with IN
    /\ Decides(p, kind)
    /\ StaffRoleThere(p, r)
    /\ StaffCanAssign(p, Arg(p).on = Arg(p).actor, PlatformRank[r], StaffCodesSeen(p, r))

GrantPlatformRole(p) ==
    LET g == StaffGrant(Arg(p).on, Arg(p).with) IN
    /\ MayHandle(p, "grant_staff")
    /\ ~Seen(p, g)
    /\ SaveRow(p, g, TRUE)

RevokePlatformRole(p) ==
    LET g == StaffGrant(Arg(p).on, Arg(p).with) IN
    /\ MayHandle(p, "revoke_staff")
    /\ Seen(p, g)
    /\ SaveRow(p, g, FALSE)

CreateCustomPlatformRole(p) ==
    LET r == Arg(p).on IN
    /\ StaffMay(p, "create_staff_role", "platform.tenants.create")
    /\ ~Seen(p, StaffRole(r))
    /\ StaffCanAssign(p, FALSE, PlatformRank[r], Arg(p).with)
    /\ Save(p, [x \in {StaffRole(r)} \cup {StaffCode(r, c) : c \in Arg(p).with} |-> TRUE])

AddPermissionToPlatformRole(p) ==
    LET r == Arg(p).on
        c == Arg(p).with
    IN  /\ StaffMay(p, "add_staff_code", "platform.tenants.create")
        /\ Seen(p, StaffRole(r))
        /\ StaffCanAssign(p, FALSE, PlatformRank[r], StaffCodesSeen(p, r) \cup {c})
        /\ ~Seen(p, StaffCode(r, c))
        /\ SaveRow(p, StaffCode(r, c), TRUE)

RemovePermissionFromPlatformRole(p) ==
    LET r == Arg(p).on
        c == Arg(p).with
    IN  /\ StaffMay(p, "remove_staff_code", "platform.tenants.create")
        /\ Seen(p, StaffRole(r))
        /\ Seen(p, StaffCode(r, c))
        /\ SaveRow(p, StaffCode(r, c), FALSE)

-----------------------------------------------------------------------------
(* Tenants.  One is created with its owner's membership, which is the       *)
(* owner's default if none of the owner's is: ux_tenant_memberships_one_default *)
(* refuses a second default.                                                *)
OwnsDefault(f, u) == \E t \in Tenants : f[Owner(t, u)] = "default"

CreateTenant(p) ==
    LET t == Arg(p).on
        u == Arg(p).with
        owns == OwnsDefault(req[p].copy, u)
    IN  /\ StaffMay(p, "create_tenant", "platform.tenants.create")
        /\ Copy(p, Tenant(t)).status = "absent" /\ Seen(p, Tenant(t)).status = "absent"
        /\ ~owns => \A s \in Tenants : Seen(p, Owner(s, u)) # "default" /\ Free(p, Owner(s, u))
        /\ Save(p, [x \in {Tenant(t), Owner(t, u)} |->
                       IF x = Tenant(t) THEN [status |-> "active", name |-> Id(p), profile |-> 0]
                       ELSE IF owns THEN "member" ELSE "default"])

(* Every other change saves all the columns of the row that was read. *)
TenantMoves ==
    [suspend_tenant    |-> [from |-> {"pending", "active", "suspended"}, to |-> "suspended"],
     reactivate_tenant |-> [from |-> {"pending", "suspended"},           to |-> "active"]]

TenantRead(p) == Copy(p, Tenant(Arg(p).on))
SaveTenant(p, tenant) == SaveRow(p, Tenant(Arg(p).on), tenant)
MoveTenant(p) ==
    LET move == TenantMoves[req[p].kind] IN
    /\ TenantRead(p).status \in move.from
    /\ SaveTenant(p, [TenantRead(p) EXCEPT !.status = move.to])

SuspendTenant(p) == StaffMay(p, "suspend_tenant", "platform.tenants.suspend") /\ MoveTenant(p)
ReactivateTenant(p) ==
    StaffMay(p, "reactivate_tenant", "platform.tenants.suspend") /\ MoveTenant(p)

RenameTenant(p) ==
    /\ StaffMay(p, "rename_tenant", "platform.tenants.create")
    /\ TenantRead(p).status # "absent"
    /\ SaveTenant(p, [TenantRead(p) EXCEPT !.name = Id(p)])

SetTenantAssistantProfile(p) ==
    /\ StaffMay(p, "set_profile", "platform.model_configurations.manage")
    /\ TenantRead(p).status # "absent"
    /\ SaveTenant(p, [TenantRead(p) EXCEPT !.profile = Id(p)])

(* INSERT ... ON CONFLICT DO UPDATE of every column. *)
SetTenantEntitlements(p) ==
    /\ StaffMay(p, "set_entitlements", "platform.model_configurations.manage")
    /\ SaveRow(p, Entitlements, Arg(p).with)

-----------------------------------------------------------------------------
(* Impersonation of a member of the tenant who is active as it is looked up. *)
StartImpersonation(p) ==
    LET i == Impersonation(Arg(p).on) IN
    /\ StaffMay(p, "impersonate", "platform.support.impersonate")
    /\ Seen(p, Member(Arg(p).with)).status = "active"
    /\ Seen(p, i).state = "absent"
    /\ SaveRow(p, i, [state |-> "open", by |-> Arg(p).actor, of |-> Arg(p).with])

EndImpersonation(p) ==
    LET i == Impersonation(Arg(p).on) IN
    /\ Decides(p, "end_impersonation")
    /\ Copy(p, i).state = "open" /\ Copy(p, i).by = Arg(p).actor
    /\ SaveRow(p, i, [Copy(p, i) EXCEPT !.state = "ended"])

PlatformRoutes(p) ==
    \/ StaffRoleRoutes(p) \/ TenantRoutes(p) \/ ProfileRoutes(p) \/ PlanRoutes(p)
    \/ ImpersonationRoutes(p)

PlatformUseCase(p) ==
    \/ GrantPlatformRole(p) \/ RevokePlatformRole(p) \/ CreateCustomPlatformRole(p)
    \/ AddPermissionToPlatformRole(p) \/ RemovePermissionFromPlatformRole(p)
    \/ CreateTenant(p) \/ SuspendTenant(p) \/ ReactivateTenant(p) \/ RenameTenant(p)
    \/ SetTenantAssistantProfile(p) \/ SetTenantEntitlements(p)
    \/ StartImpersonation(p) \/ EndImpersonation(p)

=============================================================================
