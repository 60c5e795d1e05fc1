---------------------------- MODULE Organisation ----------------------------
(***************************************************************************)
(* Customers, their trees of folders, the sources in them and the grants   *)
(* that a role has on any of the three: api/customers.py, api/folders.py,  *)
(* the place of a source in api/sources.py, the grants of api/roles.py and *)
(* how auth/rbac.py resolves them.                                         *)
(*                                                                         *)
(* As in Administration, a handler checks what is committed and writes     *)
(* later, in one transaction, only the columns it changes, and no foreign  *)
(* key is enforced: a request is served at once, or it passes its checks   *)
(* and waits while others are served.  When a row is deleted the ORM takes *)
(* it from the rows that refer to it, those it finds then.                 *)
(***************************************************************************)
EXTENDS Tables

CONSTANTS
    MaxCustomers, MaxFolders, MaxSources, MaxGrants,    \* bounds on the ids
    MaxRequests,        \* bound on the requests served
    StartCustomers      \* customers there are at first

ASSUME OrgAssumption ==
    /\ MaxCustomers \in Nat /\ MaxFolders \in Nat /\ MaxSources \in Nat
    /\ MaxGrants \in Nat /\ MaxRequests \in Nat
    /\ StartCustomers \in 0..MaxCustomers

VARIABLES
    customers,  \* the ids there are
    folders,    \* by id: customer and parent folder
    sources,    \* by id: customer and folder
    grants,     \* RoleGrant of one role, by id: its scope and whether it gives the capability
    nextId,     \* ids of these three tables are AUTOINCREMENT
    waiting,    \* the request that has passed its checks and not committed
    served      \* history: whether the last request served was overtaken, and how many were

orgVars == <<customers, folders, sources, grants, nextId, waiting, served>>

None == 0
Nobody == [op |-> "none"]

CustomerIds == 1..MaxCustomers
FolderIds == 1..MaxFolders

Scope(type, id) == [type |-> type, id |-> id]

OrgInit ==
    /\ customers = 1..StartCustomers
    /\ folders = [f \in {} |-> Nobody]
    /\ sources = [s \in {} |-> Nobody]
    /\ grants = [g \in {} |-> Nobody]
    /\ nextId = [customer |-> StartCustomers + 1, folder |-> 1, source |-> 1]
    /\ waiting = Nobody
    /\ served = [late |-> FALSE, count |-> 0]

\* Mutant: the folder table without AUTOINCREMENT.
NewFolderId_reused == FreeId(folders)

NewFolderId == nextId.folder

\* delete_scope_grants
WithoutScope(type, id) == Drop(grants, {g \in DOMAIN grants : grants[g].scope = Scope(type, id)})

(***************************************************************************)
(* What the requests write at their commit.                                *)
(***************************************************************************)

CustomerCreated ==
    /\ nextId.customer \in CustomerIds
    /\ customers' = customers \cup {nextId.customer}
    /\ nextId' = [nextId EXCEPT !.customer = @ + 1]
    /\ UNCHANGED <<folders, sources, grants>>

\* A folder cannot be without a customer, so the delete fails where there is one.
CustomerDeleted(c) ==
    /\ IF \E f \in DOMAIN folders : folders[f].customer = c.id
       THEN UNCHANGED <<customers, sources, grants>>
       ELSE /\ customers' = customers \ {c.id}
            /\ sources' = [s \in DOMAIN sources |->
                    IF sources[s].customer = c.id THEN [sources[s] EXCEPT !.customer = None]
                    ELSE sources[s]]
            /\ grants' = WithoutScope("customer", c.id)
    /\ UNCHANGED <<folders, nextId>>

FolderCreated(c) ==
    /\ NewFolderId \in FolderIds
    /\ folders' = Put(folders, NewFolderId, [customer |-> c.customer, parent |-> c.parent])
    /\ nextId' = [nextId EXCEPT !.folder = @ + 1]
    /\ UNCHANGED <<customers, sources, grants>>

\* The UPDATE of a row that is gone fails.
FolderMoved(c) ==
    /\ folders' = IF c.id \in DOMAIN folders THEN [folders EXCEPT ![c.id].parent = c.parent]
                  ELSE folders
    /\ UNCHANGED <<customers, sources, grants, nextId>>

FolderDeleted(c) ==
    /\ folders' = [f \in DOMAIN folders \ {c.id} |->
            IF folders[f].parent = c.id THEN [folders[f] EXCEPT !.parent = None]
            ELSE folders[f]]
    /\ sources' = [s \in DOMAIN sources |->
            IF sources[s].folder = c.id THEN [sources[s] EXCEPT !.folder = None]
            ELSE sources[s]]
    /\ grants' = WithoutScope("folder", c.id)
    /\ UNCHANGED <<customers, nextId>>

SourceCreated(c) ==
    /\ nextId.source <= MaxSources
    /\ sources' = Put(sources, nextId.source, [customer |-> c.customer, folder |-> c.folder])
    /\ nextId' = [nextId EXCEPT !.source = @ + 1]
    /\ UNCHANGED <<customers, folders, grants>>

\* Only the columns that change are written.
SourceMoved(c) ==
    /\ sources' = IF c.id \notin DOMAIN sources THEN sources
                  ELSE [sources EXCEPT ![c.id] =
                    [customer |-> IF c.customer = c.loaded.customer THEN @.customer ELSE c.customer,
                     folder |-> IF c.folder = c.loaded.folder THEN @.folder ELSE c.folder]]
    /\ UNCHANGED <<customers, folders, grants, nextId>>

SourceDeleted(c) ==
    /\ sources' = Drop(sources, {c.id})
    /\ grants' = WithoutScope("source", c.id)
    /\ UNCHANGED <<customers, folders, nextId>>

GrantCreated(c) ==
    /\ FreeId(grants) <= MaxGrants
    /\ grants' = Put(grants, FreeId(grants), [scope |-> c.scope, gives |-> c.gives])
    /\ UNCHANGED <<customers, folders, sources, nextId>>

GrantUpdated(c) ==
    /\ grants' = IF c.id \in DOMAIN grants THEN [grants EXCEPT ![c.id].gives = c.gives]
                 ELSE grants
    /\ UNCHANGED <<customers, folders, sources, nextId>>

GrantDeleted(c) ==
    /\ grants' = Drop(grants, {c.id})
    /\ UNCHANGED <<customers, folders, sources, nextId>>

Applied(c) ==
    \/ c.op = "create_customer" /\ CustomerCreated
    \/ c.op = "delete_customer" /\ CustomerDeleted(c)
    \/ c.op = "create_folder" /\ FolderCreated(c)
    \/ c.op = "move_folder" /\ FolderMoved(c)
    \/ c.op = "delete_folder" /\ FolderDeleted(c)
    \/ c.op = "create_source" /\ SourceCreated(c)
    \/ c.op = "move_source" /\ SourceMoved(c)
    \/ c.op = "delete_source" /\ SourceDeleted(c)
    \/ c.op = "create_grant" /\ GrantCreated(c)
    \/ c.op = "update_grant" /\ GrantUpdated(c)
    \/ c.op = "delete_grant" /\ GrantDeleted(c)

Serves(late) ==
    /\ served.count < MaxRequests
    /\ served' = [late |-> late, count |-> served.count + 1]

\* A request whose checks passed: served at once, or it waits.
Passed(c) ==
    \/ /\ Applied(c)
       /\ Serves(FALSE)
       /\ UNCHANGED waiting
    \/ /\ waiting = Nobody
       /\ waiting' = c
       /\ UNCHANGED <<customers, folders, sources, grants, nextId, served>>

CommitLate ==
    /\ waiting # Nobody
    /\ Applied(waiting)
    /\ Serves(TRUE)
    /\ waiting' = Nobody

GiveUp ==
    /\ waiting # Nobody
    /\ waiting' = Nobody
    /\ UNCHANGED <<customers, folders, sources, grants, nextId, served>>

(***************************************************************************)
(* The folder tree, as the loops over parent_folder_id walk it.            *)
(***************************************************************************)

\* The n-th folder above f, None past the top.
Up(f, n) ==
    LET at[k \in 0..n] ==
            IF k = 0 THEN f
            ELSE IF at[k - 1] \in DOMAIN folders THEN folders[at[k - 1]].parent ELSE None
    IN at[n]

\* f and the folders above it.
Chain(f) == {Up(f, n) : n \in 0..MaxFolders} \ {None}

OnCycle(f) == \E n \in 1..MaxFolders : Up(f, n) = f

(***************************************************************************)
(* api/customers.py, api/folders.py, api/sources.py                        *)
(***************************************************************************)

CreateCustomer == Passed([op |-> "create_customer"])

DeleteCustomer ==
    \E i \in customers :
        /\ \A s \in DOMAIN sources : sources[s].customer # i
        /\ \A f \in DOMAIN folders : folders[f].customer # i
        /\ Passed([op |-> "delete_customer", id |-> i])

\* Mutant: a folder may move below itself.
AboveItself_ignored(p, f) == FALSE

AboveItself(p, f) == f \in Chain(p)

\* _validate_parent; on a cycle without f the loop would not end.
ValidParent(p, customer, f) ==
    p # None =>
        /\ p \in DOMAIN folders /\ folders[p].customer = customer
        /\ \A q \in Chain(p) : ~OnCycle(q)
        /\ ~AboveItself(p, f)

CreateFolder ==
    \E i \in customers, p \in DOMAIN folders \cup {None} :
        /\ ValidParent(p, i, None)
        /\ Passed([op |-> "create_folder", customer |-> i, parent |-> p])

\* update_folder; a new name changes nothing here.
MoveFolder ==
    \E f \in DOMAIN folders, p \in DOMAIN folders \cup {None} :
        /\ ValidParent(p, folders[f].customer, f)
        /\ p # folders[f].parent
        /\ Passed([op |-> "move_folder", id |-> f, parent |-> p])

DeleteFolder ==
    \E f \in DOMAIN folders :
        /\ \A g \in DOMAIN folders : folders[g].parent # f
        /\ \A s \in DOMAIN sources : sources[s].folder # f
        /\ Passed([op |-> "delete_folder", id |-> f])

\* _validate_scope
ValidScope(i, f) ==
    IF f # None THEN f \in DOMAIN folders /\ i \in {None, folders[f].customer}
    ELSE i # None => i \in customers

CreateSource ==
    \E i \in customers \cup {None}, f \in DOMAIN folders \cup {None} :
        /\ ValidScope(i, f)
        /\ Passed([op |-> "create_source", customer |-> i, folder |-> f])

\* update_source, as far as it moves the source.
MoveSource ==
    \E s \in DOMAIN sources, i \in customers \cup {None}, f \in DOMAIN folders \cup {None} :
        /\ ValidScope(i, f)
        /\ <<i, f>> # <<sources[s].customer, sources[s].folder>>
        /\ Passed([op |-> "move_source", id |-> s, customer |-> i, folder |-> f,
                   loaded |-> sources[s]])

DeleteSource == \E s \in DOMAIN sources : Passed([op |-> "delete_source", id |-> s])

(***************************************************************************)
(* The grants of a role (api/roles.py) and what they resolve to (rbac.py). *)
(***************************************************************************)

\* _validate_scope_exists
Scopes ==
    {Scope("customer", i) : i \in customers} \cup {Scope("folder", f) : f \in DOMAIN folders}
        \cup {Scope("source", s) : s \in DOMAIN sources}

CreateGrant ==
    \E scope \in Scopes, gives \in BOOLEAN :
        Passed([op |-> "create_grant", scope |-> scope, gives |-> gives])

UpdateGrant ==
    \E g \in DOMAIN grants :
        Passed([op |-> "update_grant", id |-> g, gives |-> ~grants[g].gives])

DeleteGrant == \E g \in DOMAIN grants : Passed([op |-> "delete_grant", id |-> g])

GrantsOn(scope) == {g \in DOMAIN grants : grants[g].scope = scope}

\* _find_grant: the first of them
Gives(scope) ==
    \E g \in GrantsOn(scope) : grants[g].gives /\ \A h \in GrantsOn(scope) : g <= h

\* The nearest folder at or above f with a grant, None if there is none.
NearestGranted(f) ==
    LET granted(n) == GrantsOn(Scope("folder", Up(f, n))) # {}
        near == {n \in 0..MaxFolders : granted(n) /\ \A m \in 0..(n - 1) : ~granted(m)}
    IN IF near = {} THEN None ELSE Up(f, CHOOSE n \in near : TRUE)

\* resolve_folder_or_customer_capability
ResolveFolderOrCustomer(f, i) ==
    IF NearestGranted(f) # None THEN Gives(Scope("folder", NearestGranted(f)))
    ELSE i # None /\ Gives(Scope("customer", i))

\* resolve_capability, for a role that is not a super-admin's
Resolve(s) ==
    IF GrantsOn(Scope("source", s)) # {} THEN Gives(Scope("source", s))
    ELSE ResolveFolderOrCustomer(sources[s].folder, sources[s].customer)

\* visible_customer_ids
VisibleCustomers ==
    {i \in CustomerIds :
        \/ GrantsOn(Scope("customer", i)) # {}
        \/ \E f \in DOMAIN folders : GrantsOn(Scope("folder", f)) # {} /\ folders[f].customer = i
        \/ \E s \in DOMAIN sources : GrantsOn(Scope("source", s)) # {} /\ sources[s].customer = i}

\* Mutant: a grant on the source itself is not looked at first.
Boundary_folders(s) == NearestGranted(sources[s].folder)

\* folder_path_boundary
Boundary(s) ==
    IF GrantsOn(Scope("source", s)) # {} THEN sources[s].folder
    ELSE NearestGranted(sources[s].folder)

\* _folder_path: the folders shown above a source, up to the boundary
ShownFolders(s) ==
    LET f == sources[s].folder
        b == Boundary(s)
    IN {Up(f, n) : n \in {k \in 0..MaxFolders : \A m \in 0..(k - 1) : Up(f, m) # b}} \ {None}

OrgNext ==
    \/ CommitLate \/ GiveUp
    \/ CreateCustomer \/ DeleteCustomer
    \/ CreateFolder \/ MoveFolder \/ DeleteFolder
    \/ CreateSource \/ MoveSource \/ DeleteSource
    \/ CreateGrant \/ UpdateGrant \/ DeleteGrant

OrgSpec == OrgInit /\ [][OrgNext]_orgVars

(***************************************************************************)
(* Properties.                                                             *)
(***************************************************************************)

\* The folders are trees, each inside one customer, and a source is inside one too.
NoCycle == \A f \in DOMAIN folders : ~OnCycle(f)
FoldersInPlace ==
    \A f \in DOMAIN folders :
        /\ folders[f].customer \in customers
        /\ folders[f].parent # None =>
            /\ folders[f].parent \in DOMAIN folders
            /\ folders[folders[f].parent].customer = folders[f].customer
SourcesInPlace == \A s \in DOMAIN sources : ValidScope(sources[s].customer, sources[s].folder)

Consistent == NoCycle /\ FoldersInPlace /\ SourcesInPlace

\* The checks of the handlers keep the organisation consistent as long as no request
\* is overtaken: on a cycle the walks of _validate_parent and of the grants' resolution
\* would never end, and a parent that is gone is an error in them.
ConsistencyKept == [][Consistent => Consistent' \/ served'.late]_orgVars

\* "Nothing may outlive it and resurface" (sources.py, models.NO_ID_REUSE): a grant
\* that a race left on a deleted scope never applies to a scope created later.
NewScopesStartUngranted ==
    [][\A scope \in Scopes' \ Scopes : GrantsOn(scope)' = {}]_orgVars

\* "A source that's actually visible can't have an intervening ungranted scope between
\* it and whichever scope this finds" (rbac.py): the folders shown above a visible source
\* are, but for the source's own under a grant on the source itself, at or below the scope
\* whose grant shows it; and its customer is in the list of customers.
OnlyGrantedPathsShown ==
    Consistent => \A s \in DOMAIN sources : Resolve(s) =>
        /\ \/ GrantsOn(Scope("source", s)) # {} /\ ShownFolders(s) \subseteq {sources[s].folder}
           \/ \A f \in ShownFolders(s) :
                \/ Chain(f) \cap {g \in FolderIds : Gives(Scope("folder", g))} # {}
                \/ Gives(Scope("customer", sources[s].customer))
        /\ sources[s].customer # None => sources[s].customer \in VisibleCustomers
=============================================================================
