------------------------------- MODULE Tenancy -------------------------------
(***************************************************************************)
(* One tenant's people and what they may do: memberships, invitations,      *)
(* roles, the role hierarchy and the overrides (application/tenancy,        *)
(* application/tenant_authz).  Every use case computes what its actor may   *)
(* do from rows it reads one statement after another, and nothing locks     *)
(* what it has read.                                                        *)
(***************************************************************************)
EXTENDS UnitOfWork, Policies

CONSTANTS
    Members,       \* identities of memberships, one per user
    SystemRoles, CustomRoles,
    Permissions,   \* codes of the tenant's catalog
    SystemCodes,   \* the codes of each system role
    Rank,          \* of each role
    Customizable,  \* codes a custom role may hold
    Invitations, Overrides,   \* identities of their rows
    Addressee      \* the member each invitation is for, by its e-mail address

Roles == SystemRoles \cup CustomRoles

ASSUME TenancyAssumption ==
    /\ SystemRoles \cap CustomRoles = {} /\ IsFiniteSet(Roles)
    /\ SystemCodes \in [SystemRoles -> SUBSET Permissions]
    /\ Rank \in [Roles -> Nat]
    /\ Customizable \subseteq Permissions
    /\ {"tenant.users.manage", "tenant.users.invite", "tenant.roles.manage"} \subseteq Permissions
    /\ Addressee \in [Invitations -> Members]

-----------------------------------------------------------------------------
(* The tables' rows, those not inserted yet included. *)
Member(m) == <<"member", m>>
Grant(m, r) == <<"grant", m, r>>
Role(r) == <<"role", r>>
Code(r, c) == <<"code", r, c>>
Edge(parent, child) == <<"edge", parent, child>>
Override(o) == <<"override", o>>
Invitation(i) == <<"invitation", i>>
Entitlements == <<"entitlements">>

Grants(m) == {Grant(m, r) : r \in Roles}
RoleRows == {Role(r) : r \in CustomRoles} \cup {Code(r, c) : r \in CustomRoles, c \in Permissions}
Edges == {Edge(a, b) : a, b \in Roles} \ {Edge(a, a) : a \in Roles}
OverrideRows == {Override(o) : o \in Overrides}
InvitationRows == {Invitation(i) : i \in Invitations}
TenancyRows ==
    {Member(m) : m \in Members} \cup (UNION {Grants(m) : m \in Members})
        \cup RoleRows \cup Edges \cup OverrideRows \cup InvitationRows \cup {Entitlements}

MembershipStatus == {"absent", "invited", "active", "suspended", "revoked"}
Memberships == [status : MembershipStatus, title : Numbers]
InvitationValues == {v \in [status : {"absent", "pending", "accepted"}, roles : SUBSET Roles,
                            by : Numbers] : v.by # 0 => v.status = "accepted"}
OverrideValues == [state : {"absent", "active", "revoked"}, member : Members,
                   code : Permissions, effect : {"allow", "deny"}]
EntitlementValues == [invite : BOOLEAN, roles : BOOLEAN]

TenancyValues(r) ==
    CASE r[1] = "member"       -> Memberships
      [] r[1] = "invitation"   -> InvitationValues
      [] r[1] = "override"     -> OverrideValues
      [] r[1] = "entitlements" -> EntitlementValues
      [] OTHER                 -> BOOLEAN     \* whether the row is there (a grant: and active)

-----------------------------------------------------------------------------
(* What rows f give membership m.  Roles inherited over the hierarchy add   *)
(* nothing: only the codes of the assigned roles are fetched.  Of an allow  *)
(* and a deny of one code the one listed last counts, and nothing orders    *)
(* the list: the code may be held.                                          *)
CodesOf(f, r) ==
    IF r \in SystemRoles THEN SystemCodes[r] ELSE {c \in Permissions : f[Code(r, c)]}

AssignedCodes(f, m) == UNION {CodesOf(f, r) : r \in {s \in Roles : f[Grant(m, s)]}}

Overridden(f, m, effect) ==
    {f[Override(o)].code : o \in {x \in Overrides :
        /\ f[Override(x)].state = "active"
        /\ f[Override(x)].member = m
        /\ f[Override(x)].effect = effect}}

MayHold(f, m) ==
    IF f[Member(m)].status # "active" \/ \A r \in Roles : ~f[Grant(m, r)] THEN {}
    ELSE (AssignedCodes(f, m) \ Overridden(f, m, "deny")) \cup Overridden(f, m, "allow")

RanksOf(f, m) == {Rank[r] : r \in {s \in Roles : f[Grant(m, s)]}}

(* compute_effective_tenant_state: the membership and its roles, then the   *)
(* edges, the roles' codes and the overrides. *)
Authority(m) == << {Member(m)} \cup Grants(m), RoleRows \cup OverrideRows >>

Held(p) == MayHold(req[p].copy, Arg(p).actor)

CanAssign(p, toSelf, rank, codes) ==
    CanAssignRole(Held(p), RanksOf(req[p].copy, Arg(p).actor), toSelf, rank, codes)

(* A request of `actor` about `on`, `with`. *)
Ask(p, kind, actor, on, with, plan) ==
    Begin(p, kind, [actor |-> actor, on |-> on, with |-> with], Authority(actor) \o plan)

May(p, kind, permission) == Decides(p, kind) /\ permission \in Held(p)

-----------------------------------------------------------------------------
(* The routes: which requests arrive, and what each reads after the actor's *)
(* authority.  A last SELECT of rows the use case does not write is one     *)
(* step with the write it decides: nobody sees the write before the commit. *)
MembershipRoutes(p) ==
    \E a, m \in Members :
        \/ \E kind \in {"suspend_member", "reactivate_member", "revoke_member", "restore_member",
                        "update_member"} : Ask(p, kind, a, m, {}, << {Member(m)} >>)
        \/ \E r \in Roles : Ask(p, "add_member", a, m, {r}, << {Entitlements}, {Member(m)} >>)

InvitationRoutes(p) ==
    \E a \in Members, i \in Invitations :
        \/ \E r \in Roles :
               Ask(p, "invite", a, i, {r}, << {Entitlements}, InvitationRows >>)
        \/ Begin(p, "accept", [actor |-> a, on |-> i], << {Invitation(i)} >>)

RoleRoutes(p) ==
    \E a \in Members :
        \/ \E m \in Members, r \in Roles, kind \in {"assign_role", "revoke_role"} :
               Ask(p, kind, a, m, r, <<>>)
        \/ \E r \in CustomRoles, c \in Permissions :
               \/ Ask(p, "create_role", a, r, {c}, << {Entitlements} >>)
               \/ \E kind \in {"add_code", "remove_code"} : Ask(p, kind, a, r, c, <<>>)
        \/ \E r, s \in Roles : r # s /\ Ask(p, "add_edge", a, r, s, <<Edges>>)

OverrideRoutes(p) ==
    \E a \in Members, o \in Overrides :
        \/ \E m \in Members, c \in Permissions, kind \in {"allow", "deny"} :
               Ask(p, kind, a, o, [member |-> m, code |-> c], <<>>)
        \/ Ask(p, "revoke_override", a, o, {}, <<>>)

-----------------------------------------------------------------------------
(* Memberships: the transition on the copy, then every column of it. *)
MembershipMoves ==
    [suspend_member    |-> [from |-> {"active"},                         to |-> "suspended"],
     reactivate_member |-> [from |-> {"suspended"},                      to |-> "active"],
     revoke_member     |-> [from |-> {"invited", "active", "suspended"}, to |-> "revoked"],
     restore_member    |-> [from |-> {"revoked"},                        to |-> "active"]]

Target(p) == Member(Arg(p).on)
StatusOf(p) == Copy(p, Target(p)).status
SaveMembership(p, membership) == SaveRow(p, Target(p), membership)
MoveMembership(p) ==
    LET move == MembershipMoves[req[p].kind] IN
    /\ StatusOf(p) \in move.from
    /\ SaveMembership(p, [Copy(p, Target(p)) EXCEPT !.status = move.to])

SuspendMembership(p) ==
    May(p, "suspend_member", "tenant.users.manage") /\ MoveMembership(p)

ReactivateMembership(p) ==
    May(p, "reactivate_member", "tenant.users.manage") /\ MoveMembership(p)

RevokeMembership(p) ==
    May(p, "revoke_member", "tenant.users.manage") /\ MoveMembership(p)

RestoreMembership(p) ==
    May(p, "restore_member", "tenant.users.manage") /\ MoveMembership(p)

UpdateRestores(p) ==                                              \* mutant
    /\ May(p, "update_member", "tenant.users.invite")
    /\ StatusOf(p) # "absent"
    /\ SaveMembership(p, [status |-> "active", title |-> Id(p)])
UpdateMembership(p) ==
    /\ May(p, "update_member", "tenant.users.invite")
    /\ StatusOf(p) # "absent"
    /\ SaveMembership(p, [Copy(p, Target(p)) EXCEPT !.title = Id(p)])

CodesSeen(p, roles) == UNION {CodesOf([x \in RoleRows |-> Seen(p, x)], r) : r \in roles}
Exists(p, r) == r \in CustomRoles => Seen(p, Role(r))
MayGive(p, roles) ==
    /\ \A r \in roles : Exists(p, r)
    /\ CanAssign(p, FALSE, 0, CodesSeen(p, roles))

AddMemberDirectly(p) ==
    /\ May(p, "add_member", "tenant.users.invite")
    /\ Copy(p, Entitlements).invite
    /\ MayGive(p, Arg(p).with)
    /\ StatusOf(p) = "absent" /\ Seen(p, Target(p)).status = "absent"
    /\ Save(p, [x \in {Target(p)} \cup {Grant(Arg(p).on, r) : r \in Arg(p).with} |->
                   IF x = Target(p) THEN [status |-> "active", title |-> Id(p)] ELSE TRUE])

-----------------------------------------------------------------------------
(* Invitations.  A second one for an address with a pending one sends       *)
(* nothing; ux_tenant_invitations_pending_per_email refuses it when the     *)
(* first was not committed yet as the request looked. *)
SameAddress(i) == {j \in Invitations : Addressee[j] = Addressee[i]}

InviteMember(p) ==
    LET i == Arg(p).on IN
    /\ May(p, "invite", "tenant.users.invite")
    /\ Copy(p, Entitlements).invite
    /\ MayGive(p, Arg(p).with)
    /\ \A j \in SameAddress(i) : /\ Copy(p, Invitation(j)).status # "pending"
                                 /\ Seen(p, Invitation(j)).status # "pending"
                                 /\ Free(p, Invitation(j))
    /\ Seen(p, Invitation(i)).status = "absent"
    /\ SaveRow(p, Invitation(i), [status |-> "pending", roles |-> Arg(p).with, by |-> 0])

(* The link works while the invitation read is pending; its expiry refuses  *)
(* earlier.  The invitation is saved first, and only then is the membership *)
(* looked for. *)
AcceptAnyInvitation(p) ==                                         \* mutant
    LET i == Arg(p).on IN
    /\ Decides(p, "accept")
    /\ Copy(p, Invitation(i)).status # "absent"
    /\ Addressee[i] = Arg(p).actor
    /\ SaveAndGoOn(p, [x \in {Invitation(i)} |->
                          [Copy(p, x) EXCEPT !.status = "accepted", !.by = Id(p)]],
                   "join", << {Member(Arg(p).actor)} >>)
AcceptInvitation(p) ==
    LET i == Arg(p).on IN
    /\ Decides(p, "accept")
    /\ Copy(p, Invitation(i)).status = "pending"
    /\ Addressee[i] = Arg(p).actor
    /\ SaveAndGoOn(p, [x \in {Invitation(i)} |->
                          [Copy(p, x) EXCEPT !.status = "accepted", !.by = Id(p)]],
                   "join", << {Member(Arg(p).actor)} >>)

(* A new membership or an invited one becomes active; any other stays what  *)
(* it is.  The roles it lacks are added either way. *)
JoinTenant(p) ==
    LET m == Member(Arg(p).actor)
        joins == Copy(p, m).status \in {"absent", "invited"}
        lacking == {g \in {Grant(Arg(p).actor, r) : r \in Copy(p, Invitation(Arg(p).on)).roles} :
                       ~Seen(p, g)}
    IN  /\ Decides(p, "join")
        /\ Copy(p, m).status = "absent" => Seen(p, m).status = "absent"
        /\ Save(p, [x \in lacking \cup (IF joins THEN {m} ELSE {}) |->
                       IF x = m THEN [Copy(p, m) EXCEPT !.status = "active"] ELSE TRUE])

-----------------------------------------------------------------------------
(* Roles.  An assignment is one the member does not have: the partial       *)
(* unique index refuses a second. *)
AssignMembershipRole(p) ==
    LET r == Arg(p).with IN
    /\ May(p, "assign_role", "tenant.roles.manage")
    /\ Exists(p, r)
    /\ Seen(p, Target(p)).status # "absent"
    /\ CanAssign(p, Arg(p).on = Arg(p).actor, Rank[r], CodesSeen(p, {r}))
    /\ ~Seen(p, Grant(Arg(p).on, r))
    /\ SaveRow(p, Grant(Arg(p).on, r), TRUE)

RevokeMembershipRole(p) ==
    LET r == Arg(p).with IN
    /\ May(p, "revoke_role", "tenant.roles.manage")
    /\ Exists(p, r)
    /\ Seen(p, Grant(Arg(p).on, r))
    /\ SaveRow(p, Grant(Arg(p).on, r), FALSE)

CreateCustomRole(p) ==
    LET r == Arg(p).on IN
    /\ May(p, "create_role", "tenant.roles.manage")
    /\ Copy(p, Entitlements).roles
    /\ ~Seen(p, Role(r))
    /\ Arg(p).with \subseteq Customizable
    /\ CanAssign(p, FALSE, Rank[r], Arg(p).with)
    /\ Save(p, [x \in {Role(r)} \cup {Code(r, c) : c \in Arg(p).with} |-> TRUE])

AddPermissionToRole(p) ==
    LET r == Arg(p).on
        c == Arg(p).with
    IN  /\ May(p, "add_code", "tenant.roles.manage")
        /\ Seen(p, Role(r))
        /\ c \in Customizable
        /\ CanAssign(p, FALSE, Rank[r], CodesSeen(p, {r}) \cup {c})
        /\ ~Seen(p, Code(r, c))
        /\ SaveRow(p, Code(r, c), TRUE)

RemovePermissionFromRole(p) ==
    LET r == Arg(p).on
        c == Arg(p).with
    IN  /\ May(p, "remove_code", "tenant.roles.manage")
        /\ Seen(p, Role(r))
        /\ Seen(p, Code(r, c))
        /\ SaveRow(p, Code(r, c), FALSE)

EdgesIn(f) == {e \in Roles \X Roles : e[1] # e[2] /\ f[Edge(e[1], e[2])]}

CreateRoleHierarchyEdge(p) ==
    LET parent == Arg(p).on
        child == Arg(p).with
    IN  /\ May(p, "add_edge", "tenant.roles.manage")
        /\ Exists(p, parent) /\ Exists(p, child)
        /\ StaysAcyclic(EdgesIn(req[p].copy), parent, child)
        /\ CanAssign(p, FALSE, Rank[parent],
                     CodesSeen(p, {child} \cup Reached(EdgesIn(req[p].copy), child)))
        /\ ~Seen(p, Edge(parent, child))
        /\ SaveRow(p, Edge(parent, child), TRUE)

-----------------------------------------------------------------------------
(* Overrides. *)
CreateAuthorizationOverride(p) ==
    LET m == Arg(p).with.member
        c == Arg(p).with.code
        o == Override(Arg(p).on)
    IN  \E effect \in {"allow", "deny"} :
        /\ May(p, effect, "tenant.roles.manage")
        /\ Seen(p, Member(m)).status # "absent"
        /\ effect = "allow" => CanAssign(p, m = Arg(p).actor, 0, {c})
        /\ Seen(p, o).state = "absent"
        /\ SaveRow(p, o, [state |-> "active", member |-> m, code |-> c, effect |-> effect])

(* UPDATE ... WHERE id, whatever was read of it. *)
RevokeAuthorizationOverride(p) ==
    LET o == Override(Arg(p).on) IN
    /\ May(p, "revoke_override", "tenant.roles.manage")
    /\ Seen(p, o).state # "absent"
    /\ SaveRow(p, o, [Seen(p, o) EXCEPT !.state = "revoked"])

TenancyRoutes(p) ==
    MembershipRoutes(p) \/ InvitationRoutes(p) \/ RoleRoutes(p) \/ OverrideRoutes(p)

TenancyUseCase(p) ==
    \/ SuspendMembership(p) \/ ReactivateMembership(p) \/ RevokeMembership(p)
    \/ RestoreMembership(p) \/ UpdateMembership(p) \/ AddMemberDirectly(p)
    \/ InviteMember(p) \/ AcceptInvitation(p) \/ JoinTenant(p)
    \/ AssignMembershipRole(p) \/ RevokeMembershipRole(p) \/ CreateCustomRole(p)
    \/ AddPermissionToRole(p) \/ RemovePermissionFromRole(p) \/ CreateRoleHierarchyEdge(p)
    \/ CreateAuthorizationOverride(p) \/ RevokeAuthorizationOverride(p)

=============================================================================
