------------------------------- MODULE MCAccess -------------------------------
EXTENDS Access, TLC

CONSTANTS ann, bob, owner, clerk, letter, exception, root, sam, admin, support,
          acorn, birch, visit,
          home, work, gullish, heronish, gull, heron, left, right

TenantCodes == {"tenant.users.manage", "tenant.users.invite", "tenant.roles.manage", "unheld"}
PlatformCodes == {"platform.tenants.create", "platform.tenants.suspend",
                  "platform.model_configurations.manage", "platform.support.impersonate",
                  "platform.unheld"}

Joining == {"add_member", "invite", "accept", "update_member", "set_entitlements"}
People == {"suspend_member", "reactivate_member", "revoke_member", "restore_member",
           "update_member", "accept", "revoke_role"}
NewRole == {"create_role", "assign_role", "revoke_role"}
OldRole == {"assign_role", "revoke_role", "add_code", "remove_code", "add_edge"}
Exceptions == {"allow", "deny", "revoke_override", "assign_role", "suspend_member"}
NewStaffRole == {"create_staff_role", "grant_staff", "revoke_staff"}
OldStaffRole == {"grant_staff", "revoke_staff", "add_staff_code", "remove_staff_code"}
NewTenant == {"create_tenant", "rename_tenant", "impersonate", "suspend_member"}
OldTenant == {"suspend_tenant", "reactivate_tenant", "rename_tenant", "set_profile",
              "end_impersonation"}
Opening == {"register", "create_user", "oauth"}
Linking == {"link_oauth", "unlink_oauth", "oauth"}
Enrolling == {"start_totp", "confirm_totp", "verify_mfa", "login"}
Trying == {"login", "verify_mfa", "register"}
Everything == Joining \cup People \cup NewRole \cup OldRole \cup Exceptions
                  \cup NewStaffRole \cup OldStaffRole \cup NewTenant \cup OldTenant
                  \cup Opening \cup Linking \cup Enrolling \cup Trying

McSystemCodes == [r \in {owner} |-> TenantCodes \ {"unheld"}]
McRank == [r \in {owner, clerk} |-> IF r = owner THEN 2 ELSE 1]
McCustomizable == {"tenant.roles.manage", "unheld"}
McAddressee == [i \in {letter} |-> bob]
McPlatformCodes == [r \in {admin} |-> PlatformCodes \ {"platform.unheld"}]
McPlatformRank == [r \in {admin, support} |-> IF r = admin THEN 2 ELSE 1]

McPlaceholder == [s \in {gull, heron} |-> IF s = gull THEN gullish ELSE heronish]

(* ann owns the tenant and root runs the platform; `late` is a tenant some  *)
(* time on: a role of its own that bob had before he was suspended, an      *)
(* exception made for him, a support session, the tenant itself suspended.  *)
Database(late, bobIs) ==
    [r \in TenancyRows \cup PlatformRows |->
        CASE r = Member(ann)       -> [status |-> "active", title |-> 0]
          [] r = Member(bob)       -> [status |-> bobIs, title |-> 0]
          [] r = Invitation(letter) -> [status |-> IF late THEN "pending" ELSE "absent",
                                        roles |-> IF late THEN {clerk} ELSE {}, by |-> 0]
          [] r = Override(exception) -> [state |-> IF late THEN "active" ELSE "absent",
                                         member |-> bob, code |-> "tenant.users.manage",
                                         effect |-> "deny"]
          [] r = Entitlements      -> [invite |-> TRUE, roles |-> TRUE]
          [] r[1] = "tenant"       -> [status |-> IF r[2] = birch THEN "absent"
                                                  ELSE IF late THEN "suspended" ELSE "active",
                                       name |-> 0, profile |-> 0]
          [] r[1] = "owner"        -> IF r = Owner(acorn, root) THEN "default" ELSE "none"
          [] r[1] = "impersonation" -> [state |-> IF late THEN "open" ELSE "absent",
                                        by |-> root, of |-> ann]
          [] OTHER -> \/ r \in {Grant(ann, owner), StaffGrant(root, admin)}
                      \/ late /\ r \in {Role(clerk), Code(clerk, "tenant.roles.manage"),
                                        Grant(bob, clerk), StaffRole(support)}]

(* An account with a password and, later, a subject linked and one unlinked,*)
(* two methods, a lockout that is over, a failed attempt since. *)
AccountsOf(late, status, method, failed) ==
    [r \in AccountRows |->
        CASE r = User(0)          -> status
          [] r \in {User(u) : u \in Users} -> "absent"
          [] r[1] = "address"     -> IF r[2] = home THEN 0 ELSE Nobody
          [] r[1] = "password"    -> [of |-> IF r[2] = 0 THEN 0 ELSE Nobody, active |-> r[2] = 0]
          [] r[1] = "oauth"       -> [of |-> IF late THEN 0 ELSE Nobody,
                                      active |-> late /\ r[2] = gull]
          [] r[1] = "method"      -> [of |-> IF method # "none" /\ r[2] <= 1 THEN 0 ELSE Nobody,
                                      verified |-> method = "confirmed" /\ r[2] = 0,
                                      primary |-> method = "confirmed" /\ r[2] = 0]
          [] r[1] = "attempt"     -> IF failed # "none" /\ r[2] = 0
                                     THEN [result |-> failed, of |-> 0, address |-> home]
                                     ELSE [result |-> "none", of |-> Nobody, address |-> home]
          [] r[1] = "lockout"     -> [of |-> IF late /\ r[2] = 0 THEN 0 ELSE Nobody, active |-> FALSE]]

Scene(database, kinds, already) == [rows |-> database, runs |-> kinds, already |-> already]
OneAccount == AccountsOf(FALSE, "active", "none", "none")

AdministrationScenes ==
    {Scene(Database(FALSE, "absent") @@ OneAccount, Joining, 1),
     Scene(Database(TRUE, "suspended") @@ OneAccount, People, 1),
     Scene(Database(TRUE, "active") @@ OneAccount, Exceptions, 1)}
    \cup {Scene(Database(FALSE, "active") @@ OneAccount, k, 1) : k \in {NewRole, NewStaffRole, NewTenant}}
    \cup {Scene(Database(TRUE, "active") @@ OneAccount, k, 1) : k \in {OldRole, OldStaffRole, OldTenant}}

AccountScenes ==
    {Scene(Database(FALSE, "absent") @@ AccountsOf(TRUE, "active", "none", "none"), k, 1) :
        k \in {Opening, Linking}}
    \cup {Scene(Database(FALSE, "absent") @@ AccountsOf(FALSE, "pending", "started", "none"),
                Enrolling, 1)}
    \cup {Scene(Database(FALSE, "absent") @@ accounts, Trying, 1) :
        accounts \in {AccountsOf(TRUE, "active", "none", "invalid_credentials"),
                      AccountsOf(FALSE, "suspended", "confirmed", "mfa_failed")}}

McScenes == AdministrationScenes \cup AccountScenes
Symmetric == Permutations(Requests)

=============================================================================
