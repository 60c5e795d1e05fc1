------------------------ MODULE Administration_proofs ------------------------
(***************************************************************************)
(* The checks of the administration handlers: a delegated administrator    *)
(* changes nothing that has more powers than the delegates together, the   *)
(* last super-admin goes only in the ways the property names, and roles    *)
(* and providers stay consistent as long as no request is overtaken.  For  *)
(* any accounts, roles, capabilities and groups, and any number of         *)
(* requests.                                                               *)
(***************************************************************************)
EXTENDS Administration, FiniteSetTheorems, TLAPS

(***************************************************************************)
(* The inductive invariant.                                                *)
(***************************************************************************)

\* What a request carries once its checks have passed.
RequestOK(c) ==
    /\ c.op \in {"update_user", "sso_sync"} => c.active \in BOOLEAN \cup {Same}
    /\ c.op = "create_role" => c.super \in BOOLEAN
    /\ c.op = "update_role" => c.super \in BOOLEAN \cup {Same}
    /\ c.op = "delete_role" => c.role \notin BuiltinRoles
    /\ c.op = "create_provider" => c.enabled \in BOOLEAN
    /\ c.op = "update_provider" => c.enabled \in BOOLEAN \cup {Same}

UsersInv == \A n \in DOMAIN users : users[n].active \in BOOLEAN

\* A new role never takes the place of one there is, and the built-in roles stay.
RolesInv ==
    /\ nextRole \in Nat
    /\ DOMAIN roles \subseteq 1..(nextRole - 1)
    /\ BuiltinRoles \subseteq DOMAIN roles
    /\ \A r \in DOMAIN roles : roles[r].super \in BOOLEAN

ProvidersInv ==
    /\ DOMAIN providers \subseteq 1..MaxProviders
    /\ \A p \in DOMAIN providers : providers[p] \in BOOLEAN

IInv == UsersInv /\ RolesInv /\ ProvidersInv /\ RequestOK(waiting)

data == <<users, roles, nextRole, mappings, providers>>

(***************************************************************************)
(* Each handler, when it does something at all: it serves a request that   *)
(* its checks let pass, or the request waits.                              *)
(***************************************************************************)

LEMMA PassedFacts ==
    ASSUME NEW by, NEW c, Passed(by, c)
    PROVE  \/ /\ Applied(c) /\ waiting' = waiting
              /\ served'.op = c.op /\ served'.by = by /\ served'.late = FALSE
           \/ waiting' = c /\ UNCHANGED data /\ served' = served
BY DEF Passed, Serves, data

\* The identity of a new provider is a new number.
LEMMA FreeProvider ==
    ASSUME ProvidersInv, FreeId(providers) <= MaxProviders
    PROVE  FreeId(providers) \in 1..MaxProviders
<1>1. MaxProviders \in Nat
    BY BoundsAssumption
<1>2. UNION {1..i : i \in DOMAIN providers} \subseteq 1..MaxProviders
    BY <1>1 DEF ProvidersInv
<1>3. Cardinality(UNION {1..i : i \in DOMAIN providers}) \in Nat
    <2>1. IsFiniteSet(1..MaxProviders)
        BY <1>1, FS_Interval
    <2>2. IsFiniteSet(UNION {1..i : i \in DOMAIN providers})
        BY <1>2, <2>1, FS_Subset
    <2> QED BY <2>2, FS_CardinalityType
<1> DEFINE k == Cardinality(UNION {1..i : i \in DOMAIN providers})
<1>4. FreeId(providers) = 1 + k /\ k \in Nat
    BY <1>3 DEF FreeId
<1> HIDE DEF k
<1> QED BY <1>1, <1>4

LEMMA AppliedKeeps ==
    ASSUME UsersInv, RolesInv, ProvidersInv, NEW c, RequestOK(c), Applied(c)
    PROVE  UsersInv' /\ RolesInv' /\ ProvidersInv'
<1>1. CASE c.op \in {"create_user", "sso_provision"} /\ UserCreated(c)
    <2>1. UsersInv'
        BY <1>1 DEF UserCreated, Put, UsersInv
    <2> QED BY <1>1, <2>1 DEF UserCreated, RolesInv, ProvidersInv
<1>2. CASE c.op \in {"update_user", "sso_sync"} /\ UserUpdated(c)
    <2>1. UsersInv'
        <3>1. c.active \in BOOLEAN \cup {Same}
            BY <1>2 DEF RequestOK
        <3>2. \A n \in DOMAIN users : n # c.name => users'[n] = users[n]
            BY <1>2 DEF UserUpdated
        <3>3. c.name \in DOMAIN users =>
                users'[c.name].active = Patched(users[c.name].active, c.active)
            BY <1>2 DEF UserUpdated
        <3>4. DOMAIN users' = DOMAIN users
            BY <1>2 DEF UserUpdated
        <3> QED BY <3>1, <3>2, <3>3, <3>4 DEF UsersInv, Patched
    <2> QED BY <1>2, <2>1 DEF UserUpdated, RolesInv, ProvidersInv
<1>3. CASE c.op = "create_role" /\ RoleCreated(c)
    <2>1. RolesInv'
        <3>1. /\ nextRole \in Nat /\ nextRole' = nextRole + 1
              /\ DOMAIN roles' = DOMAIN roles \cup {nextRole}
              /\ DOMAIN roles \subseteq 1..(nextRole - 1) /\ BuiltinRoles \subseteq DOMAIN roles
            BY <1>3 DEF RoleCreated, Put, RolesInv
        <3>2. nextRole # 0
            BY <3>1 DEF BuiltinRoles, SuperAdminRole
        <3>3. nextRole' \in Nat /\ DOMAIN roles' \subseteq 1..(nextRole' - 1)
            BY <3>1, <3>2
        <3>4. c.super \in BOOLEAN
            BY <1>3 DEF RequestOK
        <3>5. \A r \in DOMAIN roles' : roles'[r].super =
                IF r = nextRole THEN c.super ELSE roles[r].super
            BY <1>3 DEF RoleCreated, Put
        <3>6. \A r \in DOMAIN roles' : roles'[r].super \in BOOLEAN
            BY <3>1, <3>4, <3>5 DEF RolesInv
        <3> QED BY <3>1, <3>3, <3>6 DEF RolesInv
    <2> QED BY <1>3, <2>1 DEF RoleCreated, UsersInv, ProvidersInv
<1>4. CASE c.op = "update_role" /\ RoleUpdated(c)
    <2>1. RolesInv'
        BY <1>4 DEF RoleUpdated, Patched, RequestOK, RolesInv
    <2> QED BY <1>4, <2>1 DEF RoleUpdated, UsersInv, ProvidersInv
<1>5. CASE c.op = "delete_role" /\ RoleDeleted(c)
    <2>1. RolesInv'
        BY <1>5 DEF RoleDeleted, Drop, RequestOK, RolesInv
    <2> QED BY <1>5, <2>1 DEF RoleDeleted, UsersInv, ProvidersInv
<1>6. CASE \/ c.op = "create_mapping" /\ MappingCreated(c)
           \/ c.op = "update_mapping" /\ MappingUpdated(c)
           \/ c.op = "delete_mapping" /\ MappingDeleted(c)
    BY <1>6 DEF MappingCreated, MappingUpdated, MappingDeleted, UsersInv, RolesInv, ProvidersInv
<1>7. CASE c.op = "create_provider" /\ ProviderCreated(c)
    <2>1. FreeId(providers) \in 1..MaxProviders
        BY <1>7, FreeProvider DEF ProviderCreated
    <2>2. ProvidersInv'
        BY <1>7, <2>1 DEF ProviderCreated, Put, RequestOK, ProvidersInv
    <2> QED BY <1>7, <2>2 DEF ProviderCreated, UsersInv, RolesInv
<1>8. CASE c.op = "update_provider" /\ ProviderUpdated(c)
    BY <1>8 DEF ProviderUpdated, Patched, RequestOK, UsersInv, RolesInv, ProvidersInv
<1>9. CASE c.op = "delete_provider" /\ ProviderDeleted(c)
    BY <1>9 DEF ProviderDeleted, Drop, UsersInv, RolesInv, ProvidersInv
<1> QED BY <1>1, <1>2, <1>3, <1>4, <1>5, <1>6, <1>7, <1>8, <1>9 DEF Applied

LEMMA HandlerRequests ==
    ASSUME IInv, NEW u,
           \/ CreateUser(u) \/ UpdateUser(u)
           \/ CreateRole(u) \/ DuplicateRole(u) \/ UpdateRole(u) \/ DeleteRole(u)
           \/ CreateMapping(u) \/ UpdateMapping(u) \/ DeleteMapping(u)
           \/ CreateProvider(u) \/ UpdateProvider(u) \/ DeleteProvider(u)
    PROVE  \E by, c : RequestOK(c) /\ Passed(by, c)
<1>1. CASE CreateUser(u)
    BY <1>1 DEF CreateUser, RequestOK
<1>2. CASE UpdateUser(u)
    BY <1>2 DEF UpdateUser, RequestOK
<1>3. CASE CreateRole(u)
    BY <1>3 DEF CreateRole, RequestOK
<1>4. CASE DuplicateRole(u)
    BY <1>4 DEF DuplicateRole, RequestOK, IInv, RolesInv
<1>5. CASE UpdateRole(u)
    BY <1>5 DEF UpdateRole, RequestOK
<1>6. CASE DeleteRole(u)
    BY <1>6 DEF DeleteRole, Editable, RequestOK
<1>7. CASE CreateMapping(u)
    BY <1>7 DEF CreateMapping, RequestOK
<1>8. CASE UpdateMapping(u)
    BY <1>8 DEF UpdateMapping, RequestOK
<1>9. CASE DeleteMapping(u)
    BY <1>9 DEF DeleteMapping, RequestOK
<1>10. CASE CreateProvider(u)
    BY <1>10 DEF CreateProvider, RequestOK
<1>11. CASE UpdateProvider(u)
    BY <1>11 DEF UpdateProvider, RequestOK
<1>12. CASE DeleteProvider(u)
    BY <1>12 DEF DeleteProvider, RequestOK
<1> QED BY <1>1, <1>2, <1>3, <1>4, <1>5, <1>6, <1>7, <1>8, <1>9, <1>10, <1>11, <1>12

LEMMA SsoRequests ==
    ASSUME IInv, NEW n, NEW groups, SsoCallback(n, groups)
    PROVE  \E c : RequestOK(c) /\ Passed("nobody", c)
<1>1. PICK r \in MappedRoles(groups) :
        IF n \notin DOMAIN users THEN Provisioned(n, r)
        ELSE /\ users[n].active
             /\ Passed("nobody", [op |-> "sso_sync", name |-> n, active |-> Same,
                                  role |-> IF r = users[n].role THEN Same ELSE r])
    BY DEF SsoCallback, CompleteLogin
<1>2. CASE n \notin DOMAIN users
    BY <1>1, <1>2 DEF Provisioned, RequestOK
<1>3. CASE n \in DOMAIN users
    BY <1>1, <1>3 DEF RequestOK
<1> QED BY <1>2, <1>3

LEMMA InitInv == Init => IInv
<1> SUFFICES ASSUME Init PROVE IInv
    OBVIOUS
<1>1. UsersInv
    BY DEF Init, UsersInv
<1>3. RolesInv
    <2>1. nextRole = 3 /\ BuiltinRoles = {1, 2} /\ DOMAIN roles = {1, 2}
        BY DEF Init, BuiltinRoles, SuperAdminRole, NoAccessRole
    <2>2. \A r \in DOMAIN roles : roles[r].super \in BOOLEAN
        BY DEF Init
    <2> QED BY <2>1, <2>2 DEF RolesInv
<1>2. ProvidersInv /\ RequestOK(waiting)
    BY DEF Init, ProvidersInv, RequestOK, Nobody
<1> QED BY <1>1, <1>2, <1>3 DEF IInv

LEMMA NextInv == IInv /\ [Next]_vars => IInv'
<1> SUFFICES ASSUME IInv, [Next]_vars PROVE IInv'
    OBVIOUS
<1> USE DEF IInv
<1>1. ASSUME UNCHANGED data PROVE UsersInv' /\ RolesInv' /\ ProvidersInv'
    BY <1>1 DEF data, UsersInv, RolesInv, ProvidersInv
<1>2. RequestOK(Nobody)
    BY DEF RequestOK, Nobody
<1>3. ASSUME NEW by, NEW c, RequestOK(c), Passed(by, c) PROVE IInv'
    <2>1. CASE Applied(c) /\ waiting' = waiting
        BY <1>3, <2>1, AppliedKeeps DEF RequestOK
    <2>2. CASE waiting' = c /\ UNCHANGED data
        BY <1>1, <1>3, <2>2 DEF RequestOK
    <2> QED BY <1>3, <2>1, <2>2, PassedFacts
<1>4. CASE CommitLate
    BY <1>2, <1>4, AppliedKeeps DEF CommitLate, RequestOK
<1>5. CASE GiveUp
    BY <1>1, <1>2, <1>5 DEF GiveUp, data, RequestOK
<1>6. CASE UNCHANGED vars
    BY <1>1, <1>6 DEF vars, data, RequestOK
<1> HIDE DEF IInv
<1>7. ASSUME NEW u \in DOMAIN users,
             \/ CreateUser(u) \/ UpdateUser(u)
             \/ CreateRole(u) \/ DuplicateRole(u) \/ UpdateRole(u) \/ DeleteRole(u)
             \/ CreateMapping(u) \/ UpdateMapping(u) \/ DeleteMapping(u)
             \/ CreateProvider(u) \/ UpdateProvider(u) \/ DeleteProvider(u)
      PROVE  IInv'
    <2>1. PICK by, c : RequestOK(c) /\ Passed(by, c)
        BY <1>7, HandlerRequests
    <2> QED BY <2>1, <1>3
<1>8. ASSUME NEW n \in SsoNames, NEW groups \in SUBSET Groups, SsoCallback(n, groups)
      PROVE  IInv'
    <2>1. PICK c : RequestOK(c) /\ Passed("nobody", c)
        BY <1>8, SsoRequests
    <2> QED BY <2>1, <1>3
<1> QED BY <1>4, <1>5, <1>6, <1>7, <1>8 DEF Next

\* What the built-in roles, the ids of roles and the switches of accounts and providers
\* are, in every state the handlers of api/users.py, api/roles.py and api/sso.py reach.
THEOREM SpecIInv == Spec => []IInv
BY InitInv, NextInv, PTL DEF Spec

(***************************************************************************)
(* Delegated administrators.                                               *)
(***************************************************************************)

UsersKept ==
    \A n \in DOMAIN users' :
        \/ n \in DOMAIN users /\ users'[n] = users[n]
        \/ /\ Power(users[n].role)' \subseteq Delegated
           /\ n \in DOMAIN users => Power(users[n].role) \subseteq Delegated

RolesKept ==
    \A r \in DOMAIN roles' :
        \/ r \in DOMAIN roles /\ roles'[r] = roles[r]
        \/ Power(r)' \subseteq Delegated /\ Power(r) \subseteq Delegated

MappingsKept ==
    \A m \in DOMAIN mappings' :
        \/ m \in DOMAIN mappings /\ mappings'[m] = mappings[m]
        \/ Power(mappings[m].role)' \subseteq Delegated

LEMMA SameKept ==
    /\ users' = users => UsersKept
    /\ roles' = roles => RolesKept
    /\ mappings' = mappings => MappingsKept
BY DEF UsersKept, RolesKept, MappingsKept

\* What a delegate may hand out is what the delegates have.
LEMMA DelegatePower ==
    ASSUME NEW u \in DOMAIN users, NEW capability, Can(u, capability), ~IsSuper(u)
    PROVE  /\ \A r : RoleWithin(u, r) => Power(r) \subseteq Delegated
           /\ \A caps : CapsWithin(u, caps) => caps \subseteq Delegated
<1>1. MayAct(u)
    BY DEF Can
<1>2. Power(users[u].role) = RoleOf(u).caps
    BY <1>1 DEF MayAct, Power, IsSuper, RoleOf
<1>3. RoleOf(u).caps \subseteq Delegated
    BY <1>1, <1>2 DEF Delegated
<1>4. \A r : RoleWithin(u, r) => Power(r) \subseteq RoleOf(u).caps
    BY DEF RoleWithin, Power
<1>5. \A caps : CapsWithin(u, caps) => caps \subseteq RoleOf(u).caps
    BY DEF CapsWithin
<1> QED BY <1>3, <1>4, <1>5

LEMMA UserStepKept ==
    ASSUME NEW u \in DOMAIN users, ~IsSuper(u), CreateUser(u) \/ UpdateUser(u)
    PROVE  UsersKept /\ RolesKept /\ MappingsKept
<1>1. CASE UNCHANGED data
    BY <1>1, SameKept DEF data
<1>2. CASE CreateUser(u) /\ ~UNCHANGED data
    <2>1. PICK n \in LocalNames \ DOMAIN users, r \in DOMAIN roles :
            /\ RoleWithin(u, r)
            /\ Passed(Sender(u), [op |-> "create_user", name |-> n, role |-> r])
        BY <1>2 DEF CreateUser
    <2>2. Applied([op |-> "create_user", name |-> n, role |-> r])
        BY <1>2, <2>1, PassedFacts
    <2>3. UserCreated([op |-> "create_user", name |-> n, role |-> r])
        BY <2>2 DEF Applied
    <2>4. users' = Put(users, n, [role |-> r, active |-> TRUE]) /\ UNCHANGED <<roles, mappings>>
        BY <2>3 DEF UserCreated
    <2>5. Power(r) \subseteq Delegated
        BY <1>2, <2>1, DelegatePower DEF CreateUser
    <2>6. Power(r)' = Power(r)
        BY <2>4 DEF Power
    <2>7. DOMAIN users' = DOMAIN users \cup {n} /\ users'[n].role = r
            /\ \A q \in DOMAIN users : users'[q] = users[q]
        BY <2>4 DEF Put
    <2>8. Power(users[n].role)' \subseteq Delegated
        BY <2>4, <2>5, <2>7 DEF Power
    <2>9. UsersKept
        BY <2>7, <2>8 DEF UsersKept
    <2> QED BY <2>4, <2>9, SameKept
<1>3. CASE UpdateUser(u) /\ ~UNCHANGED data
    <2>1. PICK n \in DOMAIN users, r \in DOMAIN roles \cup {Same}, active \in {TRUE, FALSE, Same} :
            /\ RoleWithin(u, users[n].role)
            /\ r # Same => RoleWithin(u, r)
            /\ Passed(Sender(u), [op |-> "update_user", name |-> n,
                                  role |-> IF r = users[n].role THEN Same ELSE r,
                                  active |-> IF active = users[n].active THEN Same ELSE active])
        BY <1>3 DEF UpdateUser
    <2> DEFINE c == [op |-> "update_user", name |-> n,
                     role |-> IF r = users[n].role THEN Same ELSE r,
                     active |-> IF active = users[n].active THEN Same ELSE active]
    <2>2. Applied(c)
        BY <1>3, <2>1, PassedFacts
    <2>3. UserUpdated(c)
        BY <2>2 DEF Applied
    <2>4. users' = [users EXCEPT ![n] = [role |-> Patched(@.role, c.role),
                                         active |-> Patched(@.active, c.active)]]
            /\ UNCHANGED <<roles, mappings>>
        BY <2>3 DEF UserUpdated
    <2>5. DOMAIN users' = DOMAIN users /\ \A q \in DOMAIN users \ {n} : users'[q] = users[q]
        BY <2>4
    <2>6. users'[n].role = users[n].role \/ (r # Same /\ users'[n].role = r)
        BY <2>4 DEF Patched
    <2>7. Power(users[n].role) \subseteq Delegated /\ (r # Same => Power(r) \subseteq Delegated)
        BY <1>3, <2>1, DelegatePower DEF UpdateUser
    <2>8. Power(users[n].role)' \subseteq Delegated
        BY <2>4, <2>6, <2>7 DEF Power
    <2>9. UsersKept
        BY <2>5, <2>7, <2>8 DEF UsersKept
    <2> QED BY <2>4, <2>9, SameKept
<1> QED BY <1>1, <1>2, <1>3

LEMMA RoleStepKept ==
    ASSUME IInv, NEW u \in DOMAIN users, ~IsSuper(u),
           CreateRole(u) \/ DuplicateRole(u) \/ UpdateRole(u) \/ DeleteRole(u)
    PROVE  UsersKept /\ RolesKept /\ MappingsKept
<1>1. CASE UNCHANGED data
    BY <1>1, SameKept DEF data
<1>2. ASSUME NEW super, NEW caps, ~super, caps \subseteq Delegated,
             RoleCreated([op |-> "create_role", super |-> super, caps |-> caps])
      PROVE  UsersKept /\ RolesKept /\ MappingsKept
    <2>1. roles' = Put(roles, nextRole, [super |-> super, caps |-> caps])
            /\ UNCHANGED <<users, mappings>>
        BY <1>2 DEF RoleCreated
    <2>2. PICK id : id = nextRole /\ id \notin DOMAIN roles
        BY DEF IInv, RolesInv
    <2>3. DOMAIN roles' = DOMAIN roles \cup {id}
            /\ roles'[id] = [super |-> super, caps |-> caps]
            /\ \A r \in DOMAIN roles : roles'[r] = roles[r]
        BY <2>1, <2>2 DEF Put
    <2>4. Power(id)' = caps /\ Power(id) = {}
        BY <1>2, <2>2, <2>3 DEF Power
    <2>5. RolesKept
        BY <1>2, <2>3, <2>4 DEF RolesKept
    <2> QED BY <2>1, <2>5, SameKept
<1>3. CASE CreateRole(u) /\ ~UNCHANGED data
    <2>1. PICK super \in BOOLEAN, caps \in SUBSET Capabilities :
            /\ super => IsSuper(u)
            /\ CapsWithin(u, caps)
            /\ Passed(Sender(u), [op |-> "create_role", super |-> super, caps |-> caps])
        BY <1>3 DEF CreateRole
    <2>2. Applied([op |-> "create_role", super |-> super, caps |-> caps])
        BY <1>3, <2>1, PassedFacts
    <2>3. RoleCreated([op |-> "create_role", super |-> super, caps |-> caps])
        BY <2>2 DEF Applied
    <2>4. caps \subseteq Delegated
        BY <1>3, <2>1, DelegatePower DEF CreateRole
    <2> QED BY <1>2, <2>1, <2>3, <2>4
<1>4. CASE DuplicateRole(u) /\ ~UNCHANGED data
    <2>1. PICK r \in DOMAIN roles :
            /\ RoleWithin(u, r)
            /\ Passed(Sender(u), [op |-> "create_role", super |-> roles[r].super,
                                  caps |-> roles[r].caps])
        BY <1>4 DEF DuplicateRole
    <2>2. Applied([op |-> "create_role", super |-> roles[r].super, caps |-> roles[r].caps])
        BY <1>4, <2>1, PassedFacts
    <2>3. RoleCreated([op |-> "create_role", super |-> roles[r].super, caps |-> roles[r].caps])
        BY <2>2 DEF Applied
    <2>4. ~roles[r].super
        BY <2>1 DEF RoleWithin
    <2>5. Power(r) \subseteq Delegated
        BY <1>4, <2>1, DelegatePower DEF DuplicateRole
    <2>6. roles[r].caps \subseteq Delegated
        BY <2>4, <2>5 DEF Power
    <2> QED BY <1>2, <2>3, <2>4, <2>6
<1>5. CASE UpdateRole(u) /\ ~UNCHANGED data
    <2>1. PICK r \in DOMAIN roles, super \in BOOLEAN \cup {Same},
               caps \in (SUBSET Capabilities) \cup {Same} :
            /\ Editable(u, r)
            /\ Patched(roles[r].super, super) => IsSuper(u)
            /\ caps # Same => CapsWithin(u, caps)
            /\ Passed(Sender(u), [op |-> "update_role", role |-> r,
                                  super |-> IF super = roles[r].super THEN Same ELSE super,
                                  caps |-> IF caps = roles[r].caps THEN Same ELSE caps])
        BY <1>5 DEF UpdateRole
    <2> DEFINE c == [op |-> "update_role", role |-> r,
                     super |-> IF super = roles[r].super THEN Same ELSE super,
                     caps |-> IF caps = roles[r].caps THEN Same ELSE caps]
    <2>2. Applied(c)
        BY <1>5, <2>1, PassedFacts
    <2>3. RoleUpdated(c)
        BY <2>2 DEF Applied
    <2>4. roles' = [roles EXCEPT ![r] = [super |-> Patched(@.super, c.super),
                                         caps |-> Patched(@.caps, c.caps)]]
            /\ UNCHANGED <<users, mappings>>
        BY <2>3 DEF RoleUpdated
    <2>5. DOMAIN roles' = DOMAIN roles /\ \A q \in DOMAIN roles \ {r} : roles'[q] = roles[q]
        BY <2>4
    <2>6. ~roles[r].super /\ Power(r) = roles[r].caps
        BY <2>1 DEF Editable, RoleWithin, Power
    <2>7. ~roles'[r].super
        BY <2>1, <2>4, <2>6 DEF Patched, IInv, RolesInv
    <2>8. roles'[r].caps = roles[r].caps \/ (caps # Same /\ roles'[r].caps = caps)
        BY <2>4 DEF Patched
    <2>9. roles[r].caps \subseteq Delegated /\ (caps # Same => caps \subseteq Delegated)
        BY <1>5, <2>1, <2>6, DelegatePower DEF UpdateRole, Editable
    <2>10. Power(r)' \subseteq Delegated /\ Power(r) \subseteq Delegated
        BY <2>5, <2>6, <2>7, <2>8, <2>9 DEF Power
    <2>11. RolesKept
        BY <2>5, <2>10 DEF RolesKept
    <2> QED BY <2>4, <2>11, SameKept
<1>6. CASE DeleteRole(u) /\ ~UNCHANGED data
    <2>1. PICK r : Applied([op |-> "delete_role", role |-> r])
        BY <1>6, PassedFacts DEF DeleteRole
    <2>2. UNCHANGED <<users, mappings>> /\ (roles' = roles \/ roles' = Drop(roles, {r}))
        BY <2>1 DEF Applied, RoleDeleted
    <2>3. RolesKept
        BY <2>2 DEF RolesKept, Drop
    <2> QED BY <2>2, <2>3, SameKept
<1> QED BY <1>1, <1>3, <1>4, <1>5, <1>6

LEMMA SsoStepKept ==
    ASSUME NEW u \in DOMAIN users, ~IsSuper(u),
           \/ CreateMapping(u) \/ UpdateMapping(u) \/ DeleteMapping(u)
           \/ CreateProvider(u) \/ UpdateProvider(u) \/ DeleteProvider(u)
    PROVE  UsersKept /\ RolesKept /\ MappingsKept
<1>1. CASE UNCHANGED data
    BY <1>1, SameKept DEF data
<1>2. CASE CreateMapping(u) /\ ~UNCHANGED data
    <2>1. PICK order \in Orders, g \in Groups, r \in DOMAIN roles :
            /\ RoleWithin(u, r)
            /\ Passed(Sender(u), [op |-> "create_mapping", order |-> order, group |-> g,
                                  role |-> r])
        BY <1>2 DEF CreateMapping
    <2>2. Applied([op |-> "create_mapping", order |-> order, group |-> g, role |-> r])
        BY <1>2, <2>1, PassedFacts
    <2>3. mappings' = Put(mappings, FreeId(mappings), [order |-> order, group |-> g, role |-> r])
            /\ UNCHANGED <<users, roles>>
        BY <2>2 DEF Applied, MappingCreated
    <2>4. Power(r) \subseteq Delegated
        BY <1>2, <2>1, DelegatePower DEF CreateMapping
    <2>5. PICK id : /\ DOMAIN mappings' = DOMAIN mappings \cup {id} /\ mappings'[id].role = r
                    /\ \A m \in DOMAIN mappings : m # id => mappings'[m] = mappings[m]
        BY <2>3 DEF Put
    <2>6. Power(mappings[id].role)' \subseteq Delegated
        BY <2>3, <2>4, <2>5 DEF Power
    <2>7. MappingsKept
        BY <2>5, <2>6 DEF MappingsKept
    <2> QED BY <2>3, <2>7, SameKept
<1>3. CASE UpdateMapping(u) /\ ~UNCHANGED data
    <2>1. PICK m \in DOMAIN mappings, order \in Orders \cup {Same}, g \in Groups \cup {Same},
               r \in DOMAIN roles \cup {Same} :
            /\ mappings[m].role \in DOMAIN roles => RoleWithin(u, mappings[m].role)
            /\ r # Same => RoleWithin(u, r)
            /\ Passed(Sender(u), [op |-> "update_mapping", id |-> m, order |-> order, group |-> g,
                                  role |-> IF r = mappings[m].role THEN Same ELSE r])
        BY <1>3 DEF UpdateMapping
    <2> DEFINE c == [op |-> "update_mapping", id |-> m, order |-> order, group |-> g,
                     role |-> IF r = mappings[m].role THEN Same ELSE r]
    <2>2. Applied(c)
        BY <1>3, <2>1, PassedFacts
    <2>3. /\ mappings' = [mappings EXCEPT ![m] = [order |-> Patched(@.order, c.order),
                                                  group |-> Patched(@.group, c.group),
                                                  role |-> Patched(@.role, c.role)]]
          /\ UNCHANGED <<users, roles>>
        BY <2>2 DEF Applied, MappingUpdated
    <2>4. /\ DOMAIN mappings' = DOMAIN mappings
          /\ \A q \in DOMAIN mappings \ {m} : mappings'[q] = mappings[q]
        BY <2>3
    <2>5. mappings'[m].role = mappings[m].role \/ (r # Same /\ mappings'[m].role = r)
        BY <2>3 DEF Patched
    <2>6. Power(mappings[m].role) \subseteq Delegated /\ (r # Same => Power(r) \subseteq Delegated)
        <3>1. mappings[m].role \notin DOMAIN roles => Power(mappings[m].role) = {}
            BY DEF Power
        <3> QED BY <3>1, <1>3, <2>1, DelegatePower DEF UpdateMapping
    <2>7. Power(mappings[m].role)' \subseteq Delegated
        BY <2>3, <2>5, <2>6 DEF Power
    <2>8. MappingsKept
        BY <2>4, <2>7 DEF MappingsKept
    <2> QED BY <2>3, <2>8, SameKept
<1>4. CASE DeleteMapping(u) /\ ~UNCHANGED data
    <2>1. PICK m : Applied([op |-> "delete_mapping", id |-> m])
        BY <1>4, PassedFacts DEF DeleteMapping
    <2>2. mappings' = Drop(mappings, {m}) /\ UNCHANGED <<users, roles>>
        BY <2>1 DEF Applied, MappingDeleted
    <2>3. MappingsKept
        BY <2>2 DEF MappingsKept, Drop
    <2> QED BY <2>2, <2>3, SameKept
<1>5. CASE (CreateProvider(u) \/ UpdateProvider(u) \/ DeleteProvider(u)) /\ ~UNCHANGED data
    <2>1. PICK c : /\ Applied(c)
                   /\ c.op \in {"create_provider", "update_provider", "delete_provider"}
        BY <1>5, PassedFacts DEF CreateProvider, UpdateProvider, DeleteProvider
    <2>2. UNCHANGED <<users, roles, mappings>>
        BY <2>1 DEF Applied, ProviderCreated, ProviderUpdated, ProviderDeleted
    <2> QED BY <2>2, SameKept
<1> QED BY <1>1, <1>2, <1>3, <1>4, <1>5

\* Who a served request was sent by.
LEMMA DelegateOnly ==
    ASSUME NEW u, NEW c, Passed(Sender(u), c), ~UNCHANGED data, served'.by = "delegate"
    PROVE  ~IsSuper(u)
BY PassedFacts DEF Sender

\* What a delegated administrator does leaves whatever has more powers than the delegates
\* together as it was, and gives none of them away: role_within_authority,
\* require_capabilities_within_authority and the checks of api/users.py, api/roles.py and
\* api/sso.py suffice, for any roles, capabilities and groups.
THEOREM SpecAuthorityKept == Spec => AuthorityKept
<1>1. IInv /\ [Next]_vars => (served'.by = "delegate" => UsersKept /\ RolesKept /\ MappingsKept)
    <2> SUFFICES ASSUME IInv, [Next]_vars, served'.by = "delegate"
                 PROVE  UsersKept /\ RolesKept /\ MappingsKept
        OBVIOUS
    <2>1. CASE UNCHANGED data
        BY <2>1, SameKept DEF data
    <2>2. CASE ~UNCHANGED data
        <3>1. ~CommitLate /\ ~GiveUp /\ Next
            BY <2>2 DEF CommitLate, GiveUp, Serves, data, vars
        <3>2. ASSUME NEW n \in SsoNames, NEW groups \in SUBSET Groups, SsoCallback(n, groups)
              PROVE  FALSE
            <4>1. PICK c : Passed("nobody", c)
                BY <3>2, SsoRequests
            <4> QED BY <4>1, <2>2, PassedFacts
        <3>3. ASSUME NEW u \in DOMAIN users, CreateUser(u) \/ UpdateUser(u)
              PROVE  UsersKept /\ RolesKept /\ MappingsKept
            <4>1. ~IsSuper(u)
                BY <2>2, <3>3, DelegateOnly DEF CreateUser, UpdateUser
            <4> QED BY <3>3, <4>1, UserStepKept
        <3>4. ASSUME NEW u \in DOMAIN users,
                     CreateRole(u) \/ DuplicateRole(u) \/ UpdateRole(u) \/ DeleteRole(u)
              PROVE  UsersKept /\ RolesKept /\ MappingsKept
            <4>1. ~IsSuper(u)
                BY <2>2, <3>4, DelegateOnly DEF CreateRole, DuplicateRole, UpdateRole, DeleteRole
            <4> QED BY <3>4, <4>1, RoleStepKept
        <3>5. ASSUME NEW u \in DOMAIN users,
                     \/ CreateMapping(u) \/ UpdateMapping(u) \/ DeleteMapping(u)
                     \/ CreateProvider(u) \/ UpdateProvider(u) \/ DeleteProvider(u)
              PROVE  UsersKept /\ RolesKept /\ MappingsKept
            <4>1. ~IsSuper(u)
                BY <2>2, <3>5, DelegateOnly DEF CreateMapping, UpdateMapping, DeleteMapping,
                   CreateProvider, UpdateProvider, DeleteProvider
            <4> QED BY <3>5, <4>1, SsoStepKept
        <3> QED BY <3>1, <3>2, <3>3, <3>4, <3>5 DEF Next
    <2> QED BY <2>1, <2>2
<1> QED BY SpecIInv, <1>1, PTL DEF Spec, AuthorityKept, UsersKept, RolesKept, MappingsKept

(***************************************************************************)
(* The last super-admin.                                                   *)
(***************************************************************************)

IsAdmin(n) ==
    n \in DOMAIN users /\ users[n].active /\ users[n].role \in DOMAIN roles
        /\ roles[users[n].role].super

LEMMA AdminIffIn == \A n : n \in SuperAdmins <=> IsAdmin(n)
BY DEF SuperAdmins, IsAdmin, IsSuper, RoleOf

\* Accounts that are created, roles that are created or deleted, mappings and providers.
LEMMA AdminsStay ==
    ASSUME IInv, NEW c, Applied(c), c.op \notin {"update_user", "sso_sync", "update_role"},
           NEW s, IsAdmin(s)
    PROVE  IsAdmin(s)'
<1>1. CASE UserCreated(c)
    BY <1>1 DEF UserCreated, Put, IsAdmin
<1>2. CASE RoleCreated(c)
    <2>1. /\ users' = users
          /\ \A r \in DOMAIN roles : r \in DOMAIN roles' /\ roles'[r] = roles[r]
        BY <1>2 DEF RoleCreated, Put, IInv, RolesInv
    <2> QED BY <2>1 DEF IsAdmin
<1>3. CASE RoleDeleted(c)
    BY <1>3 DEF RoleDeleted, Unused, Drop, IsAdmin
<1>4. CASE UNCHANGED <<users, roles>>
    BY <1>4 DEF IsAdmin
<1> QED BY <1>1, <1>2, <1>3, <1>4 DEF Applied, MappingCreated, MappingUpdated, MappingDeleted,
        ProviderCreated, ProviderUpdated, ProviderDeleted

LEMMA UpdateUserKeepsOne ==
    ASSUME IInv, NEW u, UpdateUser(u), ~UNCHANGED data, NEW s, IsAdmin(s)
    PROVE  \E t : IsAdmin(t)'
<1>1. PICK n \in DOMAIN users, r \in DOMAIN roles \cup {Same}, active \in {TRUE, FALSE, Same} :
        /\ r # Same /\ ~roles[r].super => NotLastSuperAdmin(n)
        /\ active = FALSE => NotLastSuperAdmin(n)
        /\ Passed(Sender(u), [op |-> "update_user", name |-> n,
                              role |-> IF r = users[n].role THEN Same ELSE r,
                              active |-> IF active = users[n].active THEN Same ELSE active])
    BY DEF UpdateUser
<1> DEFINE c == [op |-> "update_user", name |-> n,
                 role |-> IF r = users[n].role THEN Same ELSE r,
                 active |-> IF active = users[n].active THEN Same ELSE active]
<1>2. Applied(c)
    BY <1>1, PassedFacts
<1>3. /\ users' = [users EXCEPT ![n] = [role |-> Patched(@.role, c.role),
                                        active |-> Patched(@.active, c.active)]]
      /\ roles' = roles
    BY <1>2 DEF Applied, UserUpdated
<1>4. DOMAIN users' = DOMAIN users /\ \A q \in DOMAIN users \ {n} : users'[q] = users[q]
    BY <1>3
<1>5. ASSUME NEW t, IsAdmin(t), t # n PROVE IsAdmin(t)'
    BY <1>3, <1>4, <1>5 DEF IsAdmin
<1>6. CASE s # n
    BY <1>5, <1>6
<1>7. CASE s = n /\ NotLastSuperAdmin(n)
    <2>1. IsSuper(n)
        BY <1>7 DEF IsAdmin, IsSuper, RoleOf
    <2>2. PICK t \in SuperAdmins : t # n
        BY <1>7, <2>1 DEF NotLastSuperAdmin
    <2> QED BY <1>5, <2>2, AdminIffIn
<1>8. CASE s = n /\ ~NotLastSuperAdmin(n)
    <2>1. active # FALSE /\ (r # Same => roles[r].super)
        BY <1>1, <1>8
    <2>2. users[n].active = TRUE /\ users[n].role \in DOMAIN roles /\ roles[users[n].role].super
        BY <1>8 DEF IsAdmin, IInv, UsersInv
    <2>3. users'[n].active = TRUE
        BY <1>1, <1>3, <2>1, <2>2 DEF Patched
    <2>4. users'[n].role = users[n].role \/ (r # Same /\ users'[n].role = r)
        BY <1>3 DEF Patched
    <2>5. IsAdmin(n)'
        BY <1>1, <1>3, <1>4, <2>1, <2>2, <2>3, <2>4 DEF IsAdmin
    <2> QED BY <2>5
<1> QED BY <1>6, <1>7, <1>8

\* What the handlers other than update_user, update_role and the sign-in serve.
LEMMA OtherRequests ==
    ASSUME NEW u, ~UNCHANGED data,
           \/ CreateUser(u)
           \/ CreateRole(u) \/ DuplicateRole(u) \/ DeleteRole(u)
           \/ CreateMapping(u) \/ UpdateMapping(u) \/ DeleteMapping(u)
           \/ CreateProvider(u) \/ UpdateProvider(u) \/ DeleteProvider(u)
    PROVE  \E c : Applied(c) /\ c.op \notin {"update_user", "sso_sync", "update_role"}
<1>1. CASE CreateUser(u)
    BY <1>1, PassedFacts DEF CreateUser
<1>2. CASE CreateRole(u) \/ DuplicateRole(u)
    BY <1>2, PassedFacts DEF CreateRole, DuplicateRole
<1>3. CASE DeleteRole(u)
    BY <1>3, PassedFacts DEF DeleteRole
<1>4. CASE CreateMapping(u)
    BY <1>4, PassedFacts DEF CreateMapping
<1>5. CASE UpdateMapping(u)
    BY <1>5, PassedFacts DEF UpdateMapping
<1>6. CASE DeleteMapping(u)
    BY <1>6, PassedFacts DEF DeleteMapping
<1>7. CASE CreateProvider(u) \/ UpdateProvider(u) \/ DeleteProvider(u)
    BY <1>7, PassedFacts DEF CreateProvider, UpdateProvider, DeleteProvider
<1> QED BY <1>1, <1>2, <1>3, <1>4, <1>5, <1>6, <1>7

\* _require_not_last_super_admin does what it says for every request of its own that is
\* not overtaken; the edit of a role and an SSO sign-in do not ask it.
THEOREM SpecLastSuperAdminKept == Spec => LastSuperAdminKept
<1>1. IInv /\ [Next]_vars =>
        (SuperAdmins # {} =>
            \/ SuperAdmins' # {}
            \/ served'.late \/ served'.op \in {"update_role", "sso_sync"})
    <2> SUFFICES ASSUME IInv, [Next]_vars, NEW s, IsAdmin(s), ~served'.late,
                        served'.op \notin {"update_role", "sso_sync"}
                 PROVE  \E t : IsAdmin(t)'
        <3>1. \A t : IsAdmin(t)' => t \in SuperAdmins'
            BY DEF SuperAdmins, IsAdmin, IsSuper, RoleOf
        <3> QED BY <3>1, AdminIffIn
    <2>1. CASE UNCHANGED data
        BY <2>1 DEF data, IsAdmin
    <2>2. CASE ~UNCHANGED data
        <3>1. ~CommitLate /\ ~GiveUp /\ Next
            BY <2>2 DEF CommitLate, GiveUp, Serves, data, vars
        <3>2. ASSUME NEW c, Applied(c), c.op \notin {"update_user", "sso_sync", "update_role"}
              PROVE  IsAdmin(s)'
            BY <3>2, AdminsStay
        <3>3. ASSUME NEW n \in SsoNames, NEW groups \in SUBSET Groups, SsoCallback(n, groups)
              PROVE  IsAdmin(s)'
            <4>1. PICK r \in MappedRoles(groups) :
                    IF n \notin DOMAIN users THEN Provisioned(n, r)
                    ELSE /\ users[n].active
                         /\ Passed("nobody", [op |-> "sso_sync", name |-> n, active |-> Same,
                                              role |-> IF r = users[n].role THEN Same ELSE r])
                BY <3>3 DEF SsoCallback, CompleteLogin
            <4>2. n \notin DOMAIN users
                BY <4>1, <2>2, PassedFacts
            <4>3. PICK c : Passed("nobody", c) /\ c.op = "sso_provision"
                BY <4>1, <4>2 DEF Provisioned
            <4> QED BY <4>3, <3>2, <2>2, PassedFacts
        <3>4. ASSUME NEW u \in DOMAIN users, UpdateRole(u)
              PROVE  FALSE
            BY <3>4, <2>2, PassedFacts DEF UpdateRole
        <3>5. ASSUME NEW u \in DOMAIN users, UpdateUser(u)
              PROVE  \E t : IsAdmin(t)'
            BY <3>5, <2>2, UpdateUserKeepsOne
        <3>6. ASSUME NEW u \in DOMAIN users,
                     \/ CreateUser(u)
                     \/ CreateRole(u) \/ DuplicateRole(u) \/ DeleteRole(u)
                     \/ CreateMapping(u) \/ UpdateMapping(u) \/ DeleteMapping(u)
                     \/ CreateProvider(u) \/ UpdateProvider(u) \/ DeleteProvider(u)
              PROVE  IsAdmin(s)'
            <4>1. PICK c : Applied(c) /\ c.op \notin {"update_user", "sso_sync", "update_role"}
                BY <2>2, <3>6, OtherRequests
            <4> QED BY <4>1, <3>2
        <3> QED BY <3>1, <3>3, <3>4, <3>5, <3>6 DEF Next
    <2> QED BY <2>1, <2>2
<1> QED BY SpecIInv, <1>1, PTL DEF Spec, LastSuperAdminKept

(***************************************************************************)
(* Roles that exist, and one provider enabled.                             *)
(***************************************************************************)

\* A set that can be counted has one element at most exactly if any two are the same.
LEMMA AtMostOne ==
    ASSUME NEW S, IsFiniteSet(S)
    PROVE  Cardinality(S) <= 1 <=> \A x, y \in S : x = y
<1>1. ASSUME Cardinality(S) <= 1, NEW x \in S, NEW y \in S, x # y PROVE FALSE
    <2>1. IsFiniteSet({x}) /\ Cardinality({x}) = 1
        BY FS_Singleton
    <2>2. IsFiniteSet({x} \cup {y}) /\ Cardinality({x} \cup {y}) = 2
        <3>1. y \notin {x}
            BY <1>1
        <3> QED BY <2>1, <3>1, FS_AddElement
    <2>3. Cardinality({x} \cup {y}) <= Cardinality(S)
        <3>1. {x} \cup {y} \in SUBSET S
            OBVIOUS
        <3> QED BY <3>1, FS_Subset
    <2>4. Cardinality(S) \in Nat
        BY FS_CardinalityType
    <2> QED BY <1>1, <2>2, <2>3, <2>4
<1>2. ASSUME \A x, y \in S : x = y PROVE Cardinality(S) <= 1
    <2>1. CASE S = {}
        BY <2>1, FS_EmptySet
    <2>2. CASE S # {}
        <3>1. PICK x : S = {x}
            BY <1>2, <2>2
        <3> QED BY <3>1, FS_Singleton
    <2> QED BY <2>1, <2>2
<1> QED BY <1>1, <1>2

OneEnabled == \A p, q \in DOMAIN providers : Enabled(p) /\ Enabled(q) => p = q

LEMMA OneProviderIff ==
    ASSUME ProvidersInv
    PROVE  OneProviderEnabled <=> OneEnabled
<1>1. IsFiniteSet(1..MaxProviders)
    BY BoundsAssumption, FS_Interval
<1>2. IsFiniteSet({p \in DOMAIN providers : Enabled(p)})
    <2>1. {p \in DOMAIN providers : Enabled(p)} \in SUBSET (1..MaxProviders)
        BY DEF ProvidersInv
    <2> QED BY <1>1, <2>1, FS_Subset
<1> QED BY <1>2, AtMostOne DEF OneProviderEnabled, OneEnabled

Consistent == (RolesExist => RolesExist') /\ (OneEnabled => OneEnabled')

LEMMA SameConsistent == UNCHANGED data => Consistent
BY DEF data, Consistent, RolesExist, OneEnabled, Enabled

LEMMA CreatedConsistent ==
    ASSUME NEW c, UserCreated(c), RolesExist => c.role \in DOMAIN roles
    PROVE  Consistent
<1>1. UNCHANGED <<roles, mappings, providers>>
    BY DEF UserCreated
<1>2. OneEnabled => OneEnabled'
    BY <1>1 DEF OneEnabled, Enabled
<1>3. ASSUME NEW n \in DOMAIN users'
      PROVE  (n \in DOMAIN users /\ users'[n] = users[n]) \/ users'[n].role = c.role
    BY DEF UserCreated, Put
<1> QED BY <1>1, <1>2, <1>3 DEF Consistent, RolesExist

LEMMA UpdatedConsistent ==
    ASSUME NEW c, UserUpdated(c),
           c.role # Same /\ RolesExist =>
                c.role \in DOMAIN roles \/ c.role = users[c.name].role
    PROVE  Consistent
<1>1. UNCHANGED <<roles, mappings, providers>>
    BY DEF UserUpdated
<1>2. OneEnabled => OneEnabled'
    BY <1>1 DEF OneEnabled, Enabled
<1>3. \A n \in DOMAIN users' :
        /\ n \in DOMAIN users
        /\ users'[n].role = users[n].role \/ (c.role # Same /\ n = c.name /\ users'[n].role = c.role)
    BY DEF UserUpdated, Patched
<1> QED BY <1>1, <1>2, <1>3 DEF Consistent, RolesExist

LEMMA RolesGrowConsistent ==
    ASSUME UNCHANGED <<users, mappings, providers>>, DOMAIN roles \subseteq DOMAIN roles'
    PROVE  Consistent
BY DEF Consistent, RolesExist, OneEnabled, Enabled

LEMMA MappingsConsistent ==
    ASSUME UNCHANGED <<users, roles, providers>>,
           \A m \in DOMAIN mappings' :
                \/ m \in DOMAIN mappings /\ mappings'[m].role = mappings[m].role
                \/ mappings'[m].role \in DOMAIN roles
    PROVE  Consistent
BY DEF Consistent, RolesExist, OneEnabled, Enabled

LEMMA UserHandlersConsistent ==
    ASSUME NEW u, CreateUser(u) \/ UpdateUser(u)
    PROVE  Consistent
<1>1. CASE UNCHANGED data
    BY <1>1, SameConsistent
<1>2. CASE CreateUser(u) /\ ~UNCHANGED data
    <2>1. PICK n \in LocalNames \ DOMAIN users, r \in DOMAIN roles :
            Passed(Sender(u), [op |-> "create_user", name |-> n, role |-> r])
        BY <1>2 DEF CreateUser
    <2> DEFINE c == [op |-> "create_user", name |-> n, role |-> r]
    <2>2. Applied(c)
        BY <1>2, <2>1, PassedFacts
    <2>3. UserCreated(c)
        BY <2>2 DEF Applied
    <2> QED BY <2>3, CreatedConsistent
<1>3. CASE UpdateUser(u) /\ ~UNCHANGED data
    <2>1. PICK n \in DOMAIN users, r \in DOMAIN roles \cup {Same}, active \in {TRUE, FALSE, Same} :
            Passed(Sender(u), [op |-> "update_user", name |-> n,
                               role |-> IF r = users[n].role THEN Same ELSE r,
                               active |-> IF active = users[n].active THEN Same ELSE active])
        BY <1>3 DEF UpdateUser
    <2> DEFINE c == [op |-> "update_user", name |-> n,
                     role |-> IF r = users[n].role THEN Same ELSE r,
                     active |-> IF active = users[n].active THEN Same ELSE active]
    <2>2. Applied(c)
        BY <1>3, <2>1, PassedFacts
    <2>3. UserUpdated(c)
        BY <2>2 DEF Applied
    <2>4. c.role # Same => c.role \in DOMAIN roles
        OBVIOUS
    <2> HIDE DEF c
    <2> QED BY <2>3, <2>4, UpdatedConsistent
<1> QED BY <1>1, <1>2, <1>3

LEMMA RoleHandlersConsistent ==
    ASSUME NEW u, CreateRole(u) \/ DuplicateRole(u) \/ UpdateRole(u) \/ DeleteRole(u)
    PROVE  Consistent
<1>1. CASE UNCHANGED data
    BY <1>1, SameConsistent
<1>2. CASE (CreateRole(u) \/ DuplicateRole(u) \/ UpdateRole(u)) /\ ~UNCHANGED data
    <2>1. PICK c : Applied(c) /\ c.op \in {"create_role", "update_role"}
        <3>1. CASE CreateRole(u)
            BY <1>2, <3>1, PassedFacts DEF CreateRole
        <3>2. CASE DuplicateRole(u)
            BY <1>2, <3>2, PassedFacts DEF DuplicateRole
        <3>3. CASE UpdateRole(u)
            BY <1>2, <3>3, PassedFacts DEF UpdateRole
        <3> QED BY <1>2, <3>1, <3>2, <3>3
    <2>2. UNCHANGED <<users, mappings, providers>> /\ DOMAIN roles \subseteq DOMAIN roles'
        BY <2>1 DEF Applied, RoleCreated, RoleUpdated, Put
    <2> QED BY <2>2, RolesGrowConsistent
<1>3. CASE DeleteRole(u) /\ ~UNCHANGED data
    <2>1. PICK r \in DOMAIN roles :
            Unused(r) /\ NotMapped(r) /\ Passed(Sender(u), [op |-> "delete_role", role |-> r])
        BY <1>3 DEF DeleteRole
    <2>2. Applied([op |-> "delete_role", role |-> r])
        BY <1>3, <2>1, PassedFacts
    <2>3. /\ UNCHANGED <<users, mappings, providers>>
          /\ roles' = roles \/ DOMAIN roles' = DOMAIN roles \ {r}
        BY <2>2 DEF Applied, RoleDeleted, Drop
    <2> QED BY <2>1, <2>3 DEF Unused, NotMapped, Consistent, RolesExist, OneEnabled, Enabled
<1> QED BY <1>1, <1>2, <1>3

LEMMA MappingHandlersConsistent ==
    ASSUME NEW u, CreateMapping(u) \/ UpdateMapping(u) \/ DeleteMapping(u)
    PROVE  Consistent
<1>1. CASE UNCHANGED data
    BY <1>1, SameConsistent
<1>2. CASE CreateMapping(u) /\ ~UNCHANGED data
    <2>1. PICK order \in Orders, g \in Groups, r \in DOMAIN roles :
            Passed(Sender(u), [op |-> "create_mapping", order |-> order, group |-> g, role |-> r])
        BY <1>2 DEF CreateMapping
    <2>2. Applied([op |-> "create_mapping", order |-> order, group |-> g, role |-> r])
        BY <1>2, <2>1, PassedFacts
    <2>3. mappings' = Put(mappings, FreeId(mappings), [order |-> order, group |-> g, role |-> r])
            /\ UNCHANGED <<users, roles, providers>>
        BY <2>2 DEF Applied, MappingCreated
    <2>4. \A m \in DOMAIN mappings' :
            \/ m \in DOMAIN mappings /\ mappings'[m].role = mappings[m].role
            \/ mappings'[m].role = r
        BY <2>3 DEF Put
    <2> QED BY <2>3, <2>4, MappingsConsistent
<1>3. CASE UpdateMapping(u) /\ ~UNCHANGED data
    <2>1. PICK m \in DOMAIN mappings, order \in Orders \cup {Same}, g \in Groups \cup {Same},
               r \in DOMAIN roles \cup {Same} :
            Passed(Sender(u), [op |-> "update_mapping", id |-> m, order |-> order, group |-> g,
                               role |-> IF r = mappings[m].role THEN Same ELSE r])
        BY <1>3 DEF UpdateMapping
    <2> DEFINE c == [op |-> "update_mapping", id |-> m, order |-> order, group |-> g,
                     role |-> IF r = mappings[m].role THEN Same ELSE r]
    <2>2. Applied(c)
        BY <1>3, <2>1, PassedFacts
    <2>3. /\ mappings' = [mappings EXCEPT ![m] = [order |-> Patched(@.order, c.order),
                                                  group |-> Patched(@.group, c.group),
                                                  role |-> Patched(@.role, c.role)]]
          /\ UNCHANGED <<users, roles, providers>>
        BY <2>2 DEF Applied, MappingUpdated
    <2>4. \A q \in DOMAIN mappings' :
            /\ q \in DOMAIN mappings
            /\ mappings'[q].role = mappings[q].role \/ (r # Same /\ mappings'[q].role = r)
        BY <2>3 DEF Patched
    <2> QED BY <2>3, <2>4, MappingsConsistent
<1>4. CASE DeleteMapping(u) /\ ~UNCHANGED data
    <2>1. PICK m : Applied([op |-> "delete_mapping", id |-> m])
        BY <1>4, PassedFacts DEF DeleteMapping
    <2>2. mappings' = Drop(mappings, {m}) /\ UNCHANGED <<users, roles, providers>>
        BY <2>1 DEF Applied, MappingDeleted
    <2> QED BY <2>2, MappingsConsistent DEF Drop
<1> QED BY <1>1, <1>2, <1>3, <1>4

LEMMA ProviderHandlersConsistent ==
    ASSUME IInv, NEW u, CreateProvider(u) \/ UpdateProvider(u) \/ DeleteProvider(u)
    PROVE  Consistent
<1>1. CASE UNCHANGED data
    BY <1>1, SameConsistent
<1>2. CASE CreateProvider(u) /\ ~UNCHANGED data
    <2>1. PICK enabled \in BOOLEAN :
            /\ enabled => SingleEnabled(0)
            /\ Passed(Sender(u), [op |-> "create_provider", enabled |-> enabled])
        BY <1>2 DEF CreateProvider
    <2>2. Applied([op |-> "create_provider", enabled |-> enabled])
        BY <1>2, <2>1, PassedFacts
    <2>3. PICK id \in 1..MaxProviders : /\ providers' = Put(providers, id, enabled)
                                        /\ UNCHANGED <<users, roles, mappings>>
        BY <2>2, FreeProvider DEF Applied, ProviderCreated, IInv
    <2>4. 0 \notin DOMAIN providers
        BY DEF IInv, ProvidersInv
    <2>5. OneEnabled => OneEnabled'
        BY <2>1, <2>3, <2>4 DEF OneEnabled, Enabled, SingleEnabled, Put
    <2> QED BY <2>3, <2>5 DEF Consistent, RolesExist
<1>3. CASE UpdateProvider(u) /\ ~UNCHANGED data
    <2>1. PICK p \in DOMAIN providers, enabled \in BOOLEAN :
            /\ enabled => SingleEnabled(p)
            /\ Passed(Sender(u), [op |-> "update_provider", id |-> p,
                                  enabled |-> IF enabled = providers[p] THEN Same ELSE enabled])
        BY <1>3 DEF UpdateProvider
    <2> DEFINE c == [op |-> "update_provider", id |-> p,
                     enabled |-> IF enabled = providers[p] THEN Same ELSE enabled]
    <2>2. Applied(c)
        BY <1>3, <2>1, PassedFacts
    <2>3. /\ providers' = [q \in DOMAIN providers |->
                    IF q = c.id THEN Patched(providers[q], c.enabled) ELSE providers[q]]
          /\ UNCHANGED <<users, roles, mappings>>
        BY <2>2 DEF Applied, ProviderUpdated
    <2>4. /\ DOMAIN providers' = DOMAIN providers
          /\ \A q \in DOMAIN providers \ {p} : providers'[q] = providers[q]
          /\ providers'[p] = providers[p] \/ providers'[p] = enabled
        BY <2>3 DEF Patched
    <2>5. OneEnabled => OneEnabled'
        BY <2>1, <2>4 DEF OneEnabled, Enabled, SingleEnabled
    <2> QED BY <2>3, <2>5 DEF Consistent, RolesExist
<1>4. CASE DeleteProvider(u) /\ ~UNCHANGED data
    <2>1. PICK p : Applied([op |-> "delete_provider", id |-> p])
        BY <1>4, PassedFacts DEF DeleteProvider
    <2>2. providers' = Drop(providers, {p}) /\ UNCHANGED <<users, roles, mappings>>
        BY <2>1 DEF Applied, ProviderDeleted
    <2>3. OneEnabled => OneEnabled'
        BY <2>2 DEF OneEnabled, Enabled, Drop
    <2> QED BY <2>2, <2>3 DEF Consistent, RolesExist
<1> QED BY <1>1, <1>2, <1>3, <1>4

LEMMA SignInConsistent ==
    ASSUME IInv, NEW n, NEW groups, SsoCallback(n, groups)
    PROVE  Consistent
<1>1. CASE UNCHANGED data
    BY <1>1, SameConsistent
<1>2. PICK r \in MappedRoles(groups) :
        IF n \notin DOMAIN users THEN Provisioned(n, r)
        ELSE Passed("nobody", [op |-> "sso_sync", name |-> n, active |-> Same,
                               role |-> IF r = users[n].role THEN Same ELSE r])
    BY DEF SsoCallback, CompleteLogin
<1>3. RolesExist => r = Same \/ r \in DOMAIN roles
    BY DEF MappedRoles, Matching, RolesExist
<1>4. CASE n \notin DOMAIN users /\ ~UNCHANGED data
    <2> DEFINE c == [op |-> "sso_provision", name |-> n,
                     role |-> IF r = Same THEN NoAccessRole ELSE r]
    <2>1. Applied(c)
        BY <1>2, <1>4, PassedFacts DEF Provisioned
    <2>2. UserCreated(c)
        BY <2>1 DEF Applied
    <2>3. NoAccessRole \in DOMAIN roles
        BY DEF IInv, RolesInv, BuiltinRoles
    <2> QED BY <1>3, <2>2, <2>3, CreatedConsistent
<1>5. CASE n \in DOMAIN users /\ ~UNCHANGED data
    <2> DEFINE c == [op |-> "sso_sync", name |-> n, active |-> Same,
                     role |-> IF r = users[n].role THEN Same ELSE r]
    <2>1. Applied(c)
        BY <1>2, <1>5, PassedFacts
    <2>2. UserUpdated(c)
        BY <2>1 DEF Applied
    <2>3. c.role # Same /\ RolesExist => c.role \in DOMAIN roles
        BY <1>3
    <2> HIDE DEF c
    <2> QED BY <2>2, <2>3, UpdatedConsistent
<1> QED BY <1>1, <1>4, <1>5

\* With no foreign key and no constraint, the checks of api/users.py, api/roles.py and
\* api/sso.py keep every account's and mapping's role in being and one provider enabled at
\* most, for any number of roles, mappings and providers, unless a request is overtaken.
THEOREM SpecChecksSuffice == Spec => ChecksSuffice
<1>1. IInv /\ IInv' /\ [Next]_vars =>
        /\ RolesExist => RolesExist' \/ served'.late
        /\ OneProviderEnabled => OneProviderEnabled' \/ served'.late
    <2> SUFFICES ASSUME IInv, IInv', [Next]_vars, ~served'.late
                 PROVE  /\ RolesExist => RolesExist'
                        /\ OneProviderEnabled => OneProviderEnabled'
        OBVIOUS
    <2>1. Consistent
        <3>1. CASE UNCHANGED data
            BY <3>1, SameConsistent
        <3>2. CASE ~UNCHANGED data
            <4>1. ~CommitLate /\ ~GiveUp /\ Next
                BY <3>2 DEF CommitLate, GiveUp, Serves, data, vars
            <4> QED BY <4>1, UserHandlersConsistent, RoleHandlersConsistent,
                       MappingHandlersConsistent, ProviderHandlersConsistent, SignInConsistent
                    DEF Next
        <3> QED BY <3>1, <3>2
    <2>2. OneProviderEnabled <=> OneEnabled
        BY OneProviderIff DEF IInv
    <2>3. OneProviderEnabled' <=> OneEnabled'
        <3>1. ProvidersInv'
            BY DEF IInv
        <3> QED BY <3>1, OneProviderIff, PTL
    <2> QED BY <2>1, <2>2, <2>3 DEF Consistent
<1> QED BY SpecIInv, <1>1, PTL DEF Spec, ChecksSuffice
=============================================================================
