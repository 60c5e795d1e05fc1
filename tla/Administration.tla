--------------------------- MODULE Administration ---------------------------
(***************************************************************************)
(* Accounts, roles, SSO group mappings and SSO providers, and who may      *)
(* change them: api/users.py, api/roles.py, api/sso.py, auth/rbac.py and   *)
(* the sign-in through an identity provider (auth/providers/oidc.py).      *)
(*                                                                         *)
(* A handler first checks what is committed and then writes only the       *)
(* columns it changes; nothing repeats the checks at the commit, and the   *)
(* database enforces no foreign key.  A request is therefore served at     *)
(* once, or it passes its checks and waits (hashing a password, asking the *)
(* identity provider, behind the write lock) while others are served.      *)
(* One request waiting shows every race of two.                            *)
(***************************************************************************)
EXTENDS Tables

CONSTANTS
    LocalNames, SsoNames,   \* accounts an administrator creates; that SSO provisions
    Groups,                 \* groups of the identity provider
    Capabilities,           \* the global capabilities, among them the next three
    ManageUsers, ManageRoles, ManageSso,
    Admin,                  \* the account the first start creates
    MaxRoles, MaxMappings, MaxProviders,    \* bounds on the ids
    MaxRequests,            \* bound on the requests served
    Same                    \* "leave this field alone" of a PATCH

ASSUME AdminAssumption == Admin \in LocalNames
ASSUME NamesAssumption == LocalNames \cap SsoNames = {}
ASSUME CapabilitiesAssumption == {ManageUsers, ManageRoles, ManageSso} \subseteq Capabilities
ASSUME BoundsAssumption ==
    MaxRoles \in Nat \ {0, 1} /\ MaxMappings \in Nat /\ MaxProviders \in Nat /\ MaxRequests \in Nat

VARIABLES
    users,      \* by name; an account is deactivated, never deleted
    roles,      \* by id
    nextRole,   \* a role's id is not given out again
    mappings,   \* SSOGroupRoleMapping by id
    providers,  \* SSOProviderConfig by id: whether it is enabled
    waiting,    \* the request that has passed its checks and not committed
    served      \* history: the last request served, who sent it, and how many were

vars == <<users, roles, nextRole, mappings, providers, waiting, served>>

SuperAdminRole == 1
NoAccessRole == 2
BuiltinRoles == {SuperAdminRole, NoAccessRole}

Nobody == [op |-> "none"]

Init ==
    /\ users = [n \in {Admin} |-> [role |-> SuperAdminRole, active |-> TRUE]]
    /\ roles = [r \in BuiltinRoles |-> [super |-> r = SuperAdminRole, caps |-> {}]]
    /\ nextRole = NoAccessRole + 1
    /\ mappings = [m \in {} |-> Nobody]
    /\ providers = [p \in {} |-> FALSE]
    /\ waiting = Nobody
    /\ served = [op |-> "none", by |-> "nobody", late |-> FALSE, count |-> 0]

Patched(old, new) == IF new = Same THEN old ELSE new

(***************************************************************************)
(* Authority.                                                              *)
(***************************************************************************)

\* A request of an account whose role is gone ends in an error.
MayAct(u) == u \in DOMAIN users /\ users[u].active /\ users[u].role \in DOMAIN roles

RoleOf(u) == roles[users[u].role]
IsSuper(u) == RoleOf(u).super

\* require_global_capability
Can(u, capability) == MayAct(u) /\ (IsSuper(u) \/ capability \in RoleOf(u).caps)

\* Mutant: any capability may be given.
CapsWithin_any(u, caps) == TRUE

\* require_capabilities_within_authority
CapsWithin(u, caps) == IsSuper(u) \/ caps \subseteq RoleOf(u).caps

\* role_within_authority; a role that is gone has no attributes to compare.
RoleWithin(u, r) ==
    \/ IsSuper(u)
    \/ r \in DOMAIN roles /\ ~roles[r].super /\ roles[r].caps \subseteq RoleOf(u).caps

SuperAdmins ==
    {u \in DOMAIN users : users[u].active /\ users[u].role \in DOMAIN roles /\ IsSuper(u)}

\* Mutant: the account itself is counted among the others.
NotLastSuperAdmin_self(n) ==
    users[n].role \in DOMAIN roles /\ (IsSuper(n) => SuperAdmins # {})

\* _require_not_last_super_admin
NotLastSuperAdmin(n) ==
    users[n].role \in DOMAIN roles /\ (IsSuper(n) => SuperAdmins \ {n} # {})

(***************************************************************************)
(* What the requests write at their commit.                                *)
(***************************************************************************)

UserCreated(c) ==
    /\ users' = IF c.name \in DOMAIN users THEN users      \* the name is taken
                ELSE Put(users, c.name, [role |-> c.role, active |-> TRUE])
    /\ UNCHANGED <<roles, nextRole, mappings, providers>>

UserUpdated(c) ==
    /\ users' = [users EXCEPT ![c.name] =
            [role |-> Patched(@.role, c.role), active |-> Patched(@.active, c.active)]]
    /\ UNCHANGED <<roles, nextRole, mappings, providers>>

RoleCreated(c) ==
    /\ nextRole <= MaxRoles
    /\ roles' = Put(roles, nextRole, [super |-> c.super, caps |-> c.caps])
    /\ nextRole' = nextRole + 1
    /\ UNCHANGED <<users, mappings, providers>>

\* The UPDATE of a row that is gone fails.
RoleUpdated(c) ==
    /\ roles' = IF c.role \notin DOMAIN roles THEN roles
                ELSE [roles EXCEPT ![c.role] = [super |-> Patched(@.super, c.super),
                                                caps |-> Patched(@.caps, c.caps)]]
    /\ UNCHANGED <<users, nextRole, mappings, providers>>

\* The ORM takes the role from its accounts first, which the database refuses.
Unused(r) == \A n \in DOMAIN users : users[n].role # r

RoleDeleted(c) ==
    /\ roles' = IF Unused(c.role) THEN Drop(roles, {c.role}) ELSE roles
    /\ UNCHANGED <<users, nextRole, mappings, providers>>

MappingCreated(c) ==
    /\ FreeId(mappings) <= MaxMappings
    /\ mappings' = Put(mappings, FreeId(mappings),
            [order |-> c.order, group |-> c.group, role |-> c.role])
    /\ UNCHANGED <<users, roles, nextRole, providers>>

MappingUpdated(c) ==
    /\ mappings' = IF c.id \notin DOMAIN mappings THEN mappings
                   ELSE [mappings EXCEPT ![c.id] =
                        [order |-> Patched(@.order, c.order),
                         group |-> Patched(@.group, c.group),
                         role |-> Patched(@.role, c.role)]]
    /\ UNCHANGED <<users, roles, nextRole, providers>>

MappingDeleted(c) ==
    /\ mappings' = Drop(mappings, {c.id})
    /\ UNCHANGED <<users, roles, nextRole, providers>>

ProviderCreated(c) ==
    /\ FreeId(providers) <= MaxProviders
    /\ providers' = Put(providers, FreeId(providers), c.enabled)
    /\ UNCHANGED <<users, roles, nextRole, mappings>>

ProviderUpdated(c) ==
    /\ providers' = [p \in DOMAIN providers |->
            IF p = c.id THEN Patched(providers[p], c.enabled) ELSE providers[p]]
    /\ UNCHANGED <<users, roles, nextRole, mappings>>

ProviderDeleted(c) ==
    /\ providers' = Drop(providers, {c.id})
    /\ UNCHANGED <<users, roles, nextRole, mappings>>

Applied(c) ==
    \/ c.op \in {"create_user", "sso_provision"} /\ UserCreated(c)
    \/ c.op \in {"update_user", "sso_sync"} /\ UserUpdated(c)
    \/ c.op = "create_role" /\ RoleCreated(c)
    \/ c.op = "update_role" /\ RoleUpdated(c)
    \/ c.op = "delete_role" /\ RoleDeleted(c)
    \/ c.op = "create_mapping" /\ MappingCreated(c)
    \/ c.op = "update_mapping" /\ MappingUpdated(c)
    \/ c.op = "delete_mapping" /\ MappingDeleted(c)
    \/ c.op = "create_provider" /\ ProviderCreated(c)
    \/ c.op = "update_provider" /\ ProviderUpdated(c)
    \/ c.op = "delete_provider" /\ ProviderDeleted(c)

Serves(op, by, late) ==
    /\ served.count < MaxRequests
    /\ served' = [op |-> op, by |-> by, late |-> late, count |-> served.count + 1]

\* A request whose checks passed: served at once, or it waits.
Passed(by, c) ==
    \/ /\ Applied(c)
       /\ Serves(c.op, by, FALSE)
       /\ UNCHANGED waiting
    \/ /\ waiting = Nobody
       /\ waiting' = c
       /\ UNCHANGED <<users, roles, nextRole, mappings, providers, served>>

\* The waiting request commits.
CommitLate ==
    /\ waiting # Nobody
    /\ Applied(waiting)
    /\ Serves(waiting.op, "nobody", TRUE)
    /\ waiting' = Nobody

\* The waiting request fails, or its client is gone.
GiveUp ==
    /\ waiting # Nobody
    /\ waiting' = Nobody
    /\ UNCHANGED <<users, roles, nextRole, mappings, providers, served>>

Sender(u) == IF IsSuper(u) THEN "super" ELSE "delegate"

(***************************************************************************)
(* api/users.py                                                            *)
(***************************************************************************)

CreateUser(u) ==
    /\ Can(u, ManageUsers)
    /\ \E n \in LocalNames \ DOMAIN users, r \in DOMAIN roles :
        /\ RoleWithin(u, r)
        /\ Passed(Sender(u), [op |-> "create_user", name |-> n, role |-> r])

\* update_user; deactivate_user is the same with active = FALSE alone.
UpdateUser(u) ==
    /\ Can(u, ManageUsers)
    /\ \E n \in DOMAIN users, r \in DOMAIN roles \cup {Same}, active \in {TRUE, FALSE, Same} :
        /\ RoleWithin(u, users[n].role)
        /\ r # Same => /\ RoleWithin(u, r)
                       /\ ~roles[r].super => NotLastSuperAdmin(n)
        /\ active = FALSE => NotLastSuperAdmin(n)
        /\ Passed(Sender(u), [op |-> "update_user", name |-> n,
                              role |-> IF r = users[n].role THEN Same ELSE r,
                              active |-> IF active = users[n].active THEN Same ELSE active])

(***************************************************************************)
(* api/roles.py                                                            *)
(***************************************************************************)

CreateRole(u) ==
    /\ Can(u, ManageRoles)
    /\ \E super \in BOOLEAN, caps \in SUBSET Capabilities :
        /\ super => IsSuper(u)
        /\ CapsWithin(u, caps)
        /\ Passed(Sender(u), [op |-> "create_role", super |-> super, caps |-> caps])

DuplicateRole(u) ==
    /\ Can(u, ManageRoles)
    /\ \E r \in DOMAIN roles :
        /\ RoleWithin(u, r)
        /\ Passed(Sender(u), [op |-> "create_role", super |-> roles[r].super,
                              caps |-> roles[r].caps])

\* _get_editable_role
Editable(u, r) == r \notin BuiltinRoles /\ RoleWithin(u, r)

UpdateRole(u) ==
    /\ Can(u, ManageRoles)
    /\ \E r \in DOMAIN roles, super \in BOOLEAN \cup {Same},
         caps \in (SUBSET Capabilities) \cup {Same} :
        /\ Editable(u, r)
        /\ Patched(roles[r].super, super) => IsSuper(u)
        /\ caps # Same => CapsWithin(u, caps)
        /\ Passed(Sender(u), [op |-> "update_role", role |-> r,
                              super |-> IF super = roles[r].super THEN Same ELSE super,
                              caps |-> IF caps = roles[r].caps THEN Same ELSE caps])

\* Mutant: the mappings to the role are not looked for.
NotMapped_ignored(r) == TRUE

NotMapped(r) == \A m \in DOMAIN mappings : mappings[m].role # r

DeleteRole(u) ==
    /\ Can(u, ManageRoles)
    /\ \E r \in DOMAIN roles :
        /\ Editable(u, r)
        /\ Unused(r) /\ NotMapped(r)
        /\ Passed(Sender(u), [op |-> "delete_role", role |-> r])

(***************************************************************************)
(* api/sso.py                                                              *)
(***************************************************************************)

Orders == 1..MaxMappings

CreateMapping(u) ==
    /\ Can(u, ManageSso)
    /\ \E order \in Orders, g \in Groups, r \in DOMAIN roles :
        /\ RoleWithin(u, r)
        /\ Passed(Sender(u), [op |-> "create_mapping", order |-> order, group |-> g, role |-> r])

UpdateMapping(u) ==
    /\ Can(u, ManageSso)
    /\ \E m \in DOMAIN mappings, order \in Orders \cup {Same}, g \in Groups \cup {Same},
         r \in DOMAIN roles \cup {Same} :
        /\ mappings[m].role \in DOMAIN roles => RoleWithin(u, mappings[m].role)
        /\ r # Same => RoleWithin(u, r)
        /\ Passed(Sender(u), [op |-> "update_mapping", id |-> m, order |-> order,
                              group |-> g, role |-> IF r = mappings[m].role THEN Same ELSE r])

DeleteMapping(u) ==
    /\ Can(u, ManageSso)
    /\ \E m \in DOMAIN mappings : Passed(Sender(u), [op |-> "delete_mapping", id |-> m])

Enabled(p) == p \in DOMAIN providers /\ providers[p]

\* _assert_single_enabled, for a provider other than p
SingleEnabled(p) == \A q \in DOMAIN providers \ {p} : ~Enabled(q)

\* _require_trust_change_within_authority
MayChangeTrust(u) ==
    \A m \in DOMAIN mappings :
        mappings[m].role \in DOMAIN roles => RoleWithin(u, mappings[m].role)

CreateProvider(u) ==
    /\ Can(u, ManageSso)
    /\ MayChangeTrust(u)
    /\ \E enabled \in BOOLEAN :
        /\ enabled => SingleEnabled(0)
        /\ Passed(Sender(u), [op |-> "create_provider", enabled |-> enabled])

UpdateProvider(u) ==
    /\ Can(u, ManageSso)
    /\ \E p \in DOMAIN providers, enabled \in BOOLEAN :
        /\ enabled => MayChangeTrust(u) /\ SingleEnabled(p)
        /\ Passed(Sender(u), [op |-> "update_provider", id |-> p,
                              enabled |-> IF enabled = providers[p] THEN Same ELSE enabled])

DeleteProvider(u) ==
    /\ Can(u, ManageSso)
    /\ \E p \in DOMAIN providers : Passed(Sender(u), [op |-> "delete_provider", id |-> p])

(***************************************************************************)
(* Signing in through the identity provider (oidc.py, complete_login).     *)
(***************************************************************************)

Matching(groups) == {m \in DOMAIN mappings : mappings[m].group \in groups}

\* resolve_group_mapped_role_id: the last match in order wins, Same if there is none.
MappedRoles(groups) ==
    LET last == {m \in Matching(groups) :
            \A n \in Matching(groups) : mappings[n].order <= mappings[m].order}
    IN IF last = {} THEN {Same} ELSE {mappings[m].role : m \in last}

\* find_or_provision_user: an account not seen before gets the mapped role, or none.
Provisioned(n, r) ==
    Passed("nobody", [op |-> "sso_provision", name |-> n,
                      role |-> IF r = Same THEN NoAccessRole ELSE r])

\* complete_login: an active account's role is brought in line with its groups.
CompleteLogin(n, groups) ==
    \E r \in MappedRoles(groups) :
        IF n \notin DOMAIN users THEN Provisioned(n, r)
        ELSE /\ users[n].active
             /\ Passed("nobody", [op |-> "sso_sync", name |-> n, active |-> Same,
                                  role |-> IF r = users[n].role THEN Same ELSE r])

\* sso_callback
SsoCallback(n, groups) ==
    /\ \E p \in DOMAIN providers : Enabled(p)
    /\ CompleteLogin(n, groups)

Next ==
    \/ CommitLate \/ GiveUp
    \/ \E u \in DOMAIN users :
        \/ CreateUser(u) \/ UpdateUser(u)
        \/ CreateRole(u) \/ DuplicateRole(u) \/ UpdateRole(u) \/ DeleteRole(u)
        \/ CreateMapping(u) \/ UpdateMapping(u) \/ DeleteMapping(u)
        \/ CreateProvider(u) \/ UpdateProvider(u) \/ DeleteProvider(u)
    \/ \E n \in SsoNames, groups \in SUBSET Groups : SsoCallback(n, groups)

Spec == Init /\ [][Next]_vars

(***************************************************************************)
(* Properties.                                                             *)
(***************************************************************************)

\* "Refuses to deactivate or demote the only remaining active super-admin" (users.py):
\* the last one is lost only by a request that another one overtook, by the edit of
\* a role, or by the role an SSO sign-in brings.
LastSuperAdminKept ==
    [][SuperAdmins # {} =>
        \/ SuperAdmins' # {}
        \/ served'.late \/ served'.op \in {"update_role", "sso_sync"}]_vars

\* Every account and mapping has a role that exists, and one provider at most is enabled.
RolesExist ==
    /\ \A n \in DOMAIN users : users[n].role \in DOMAIN roles
    /\ \A m \in DOMAIN mappings : mappings[m].role \in DOMAIN roles
OneProviderEnabled == Cardinality({p \in DOMAIN providers : Enabled(p)}) <= 1

\* No foreign key and no constraint says so: it is the checks of the handlers that
\* keep both, as long as no request is overtaken.
ChecksSuffice ==
    [][/\ RolesExist => RolesExist' \/ served'.late
       /\ OneProviderEnabled => OneProviderEnabled' \/ served'.late]_vars

\* What an account, a role or a mapping can do: a role's powers, all powers being
\* those of a super-admin.
Power(r) ==
    IF r \notin DOMAIN roles THEN {}
    ELSE IF roles[r].super THEN Capabilities \cup {"super"} ELSE roles[r].caps

\* What the delegated administrators together may do.
Delegated == UNION {Power(users[n].role) : n \in {u \in DOMAIN users : MayAct(u) /\ ~IsSuper(u)}}

\* What a delegated administrator does leaves whatever has more powers than the
\* delegates together as it was, and gives none of them to anything: deleting a
\* group mapping is the one change that asks for no authority.
AuthorityKept ==
    [][served'.by = "delegate" =>
        /\ \A n \in DOMAIN users' :
            \/ n \in DOMAIN users /\ users'[n] = users[n]
            \/ /\ Power(users[n].role)' \subseteq Delegated
               /\ n \in DOMAIN users => Power(users[n].role) \subseteq Delegated
        /\ \A r \in DOMAIN roles' :
            \/ r \in DOMAIN roles /\ roles'[r] = roles[r]
            \/ Power(r)' \subseteq Delegated /\ Power(r) \subseteq Delegated
        /\ \A m \in DOMAIN mappings' :
            \/ m \in DOMAIN mappings /\ mappings'[m] = mappings[m]
            \/ Power(mappings[m].role)' \subseteq Delegated]_vars
=============================================================================
