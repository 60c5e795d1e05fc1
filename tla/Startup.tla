------------------------------- MODULE Startup -------------------------------
(***************************************************************************)
(* Starting PerchTail over what the last run left on disk: the move of the *)
(* pre-0.5.0 files into DATA_DIR (data_layout.py), the credential salt and *)
(* its guard (crypto.py, bootstrap.py), the seeds of a first start         *)
(* (bootstrap.py, main.py) and the rotation of the encryption key          *)
(* (rotate_credential_key.py).  The process may die between any two steps. *)
(*                                                                         *)
(* Before that Alembic brings the database to the schema of the code, one  *)
(* revision after the other (migrations/env.py).                           *)
(*                                                                         *)
(* The paths are the default ones.  A key is a pair of the secret in the   *)
(* environment and a salt; of what it protects only the keys used matter.  *)
(* Salts are numbered as they are generated, 0 being an empty file.        *)
(***************************************************************************)
EXTENDS Naturals

CONSTANTS
    Absent,     \* no such file
    Revisions,  \* how many revisions there are in migrations/versions
    MaxSalts,   \* bound on the salts generated
    MaxEvents   \* bound on crashes and what operators do

ASSUME BoundsAssumption ==
    MaxSalts \in Nat \ {0} /\ Revisions \in Nat \ {0} /\ MaxEvents \in Nat

VARIABLES
    old,        \* DATA_DIR's parent, where the files were before 0.5.0: file to content
    new,        \* DATA_DIR
    stage,      \* how far the start is, "down" or "up"
    todo,       \* the files still to move
    copied,     \* whether the first of them is copied by now
    key,        \* the key the process has derived and keeps
    env,        \* CREDENTIAL_ENCRYPTION_KEY: the first secret or the next
    allow,      \* CREDENTIAL_SALT_ALLOW_REGENERATE
    unsynced,   \* the salt is not on the disk yet, only in the system's cache
    away,       \* a salt that is not in DATA_DIR, but elsewhere
    excused,    \* history: why the keys of what is stored may no longer be the process's
    events      \* how much has happened

vars == <<old, new, stage, todo, copied, key, env, allow, unsynced, away, excused, events>>
disk == <<old, new>>
moves == <<todo, copied>>
operators == <<env, allow, away>>

Files == {"salt", "hosts", "journal", "db"}
Secrets == {1, 2}
Empty == 0
Salts == Empty..MaxSalts
NoKey == <<>>
Keys == Secrets \X Salts

\* The database: how many revisions its version is behind, and whether its tables are
\* those of the version, ahead of it ("torn") or without one ("unversioned"); the keys that
\* credentials, MFA secrets and audit rows are under, whether it has unhashed rows, whether
\* commits are in its journal (-wal or -journal), what was seeded, and whether SSO accounts
\* wait to be bound to their issuer.
Database ==
    [behind: 0..Revisions, schema: {"versioned", "torn", "unversioned"},
     creds: SUBSET Keys, mfa: SUBSET Keys, audit: SUBSET Keys, unhashed: BOOLEAN,
     journal: BOOLEAN, seeded: SUBSET {"source", "role", "user", "noAccess"},
     unbound: BOOLEAN]

ASSUME AbsentAssumption == Absent \notin Nat \cup Database

EmptyDatabase ==
    [behind |-> Revisions, schema |-> "versioned", creds |-> {}, mfa |-> {}, audit |-> {}, unhashed |-> FALSE, journal |-> FALSE,
     seeded |-> {}, unbound |-> FALSE]

FirstKey == <<1, 1>>

\* Installations of earlier versions, with the rows their features would have written,
Earlier(creds, mfa, audit, journal) ==
    [EmptyDatabase EXCEPT !.behind = 1, !.creds = creds, !.mfa = mfa, !.audit = audit,
                          !.unhashed = audit = {}, !.journal = journal, !.seeded = {"role", "user"}]

\* ... one of them with SSO accounts.
WithAccountsToBind ==
    [EmptyDatabase EXCEPT !.behind = 1, !.creds = {FirstKey}, !.unhashed = TRUE,
                          !.seeded = {"source", "role", "user"}, !.unbound = TRUE]

EarlierDatabases ==
    {Earlier(creds, mfa, audit, journal) :
        creds \in {{}, {FirstKey}}, mfa \in {{}, {FirstKey}}, audit \in {{}, {FirstKey}},
        journal \in BOOLEAN}
    \cup {WithAccountsToBind}

NoFiles == [f \in Files |-> Absent]

Installed(database) ==
    [f \in Files |-> CASE f = "salt" -> 1 [] f = "db" -> database
                       [] f = "hosts" -> 1
                       [] f = "journal" -> IF database.journal THEN 1 ELSE Absent]

\* A first start, or one after an upgrade.
Init ==
    /\ old \in {NoFiles} \cup {Installed(database) : database \in EarlierDatabases}
    /\ new = NoFiles
    /\ stage = "down" /\ todo = {} /\ copied = FALSE /\ key = NoKey
    /\ env = 1 /\ allow = FALSE
    /\ unsynced = FALSE
    /\ away = Absent
    /\ excused = {}
    /\ events = 0

db == new["db"]
SaltMissing == new["salt"] = Absent

\* _has_salt_dependent_data
Dependent(database) ==
    database # Absent /\ (database.creds # {} \/ database.mfa # {} \/ database.audit # {})

Commit(database) == new' = [new EXCEPT !["db"] = database]

(***************************************************************************)
(* The layout (data_layout.py).                                            *)
(***************************************************************************)

\* Mutant: the database first, what belongs to it after.
Place_dbFirst(f) == CASE f = "db" -> 1 [] f = "salt" -> 2 [] f = "hosts" -> 3 [] f = "journal" -> 4

\* The order in which the files move.
Place(f) == CASE f = "salt" -> 1 [] f = "hosts" -> 2 [] f = "journal" -> 3 [] f = "db" -> 4

\* legacy_moves.  The journal goes where the database goes.
LegacyMoves ==
    {f \in Files :
        /\ old[f] # Absent
        /\ IF f = "journal" THEN old["db"] # Absent /\ new["db"] = Absent
           ELSE new[f] = Absent}

\* Each of the three that may come first moves what is left at the old place.
Enters(s) ==
    /\ stage' = s
    /\ todo' = LegacyMoves
    /\ UNCHANGED copied

Start ==
    /\ stage = "down"
    /\ Enters("entrypoint")
    /\ UNCHANGED <<disk, key, operators, unsynced, excused, events>>

First(f) == f \in todo /\ \A g \in todo : Place(f) <= Place(g)

\* _move: renamed in place, or across filesystems copied and renamed into place.
Move ==
    /\ ~copied
    /\ \E f \in todo :
        /\ First(f)
        /\ new' = [new EXCEPT ![f] = old[f]]
        /\ \/ /\ old' = [old EXCEPT ![f] = Absent]
              /\ todo' = todo \ {f}
              /\ UNCHANGED copied
           \/ /\ copied' = TRUE
              /\ UNCHANGED <<old, todo>>
    /\ UNCHANGED <<stage, key, operators, unsynced, excused, events>>

\* ... and then the original is removed.
Unlink ==
    /\ copied
    /\ \E f \in todo :
        /\ First(f)
        /\ old' = [old EXCEPT ![f] = Absent]
        /\ todo' = todo \ {f}
    /\ copied' = FALSE
    /\ UNCHANGED <<new, stage, key, operators, unsynced, excused, events>>

At(s) == stage = s /\ todo = {}

Goes(s) ==
    /\ stage' = s
    /\ UNCHANGED moves

\* docker-entrypoint.sh goes on with the migrations.
EntrypointDone ==
    /\ At("entrypoint")
    /\ Enters("alembic")
    /\ UNCHANGED <<disk, key, operators, unsynced, excused, events>>

(***************************************************************************)
(* The schema (migrations/env.py, db.py).                                  *)
(***************************************************************************)

Made == IF db = Absent THEN EmptyDatabase ELSE db

Opened(database) == new' = [new EXCEPT !["db"] = [database EXCEPT !.journal = TRUE],
                                       !["journal"] = 1]

\* SQLite writes the journal back and deletes it when the last connection is closed.
Closed(database) == new' = [new EXCEPT !["db"] = [database EXCEPT !.journal = FALSE],
                                       !["journal"] = Absent]

\* A revision creates tables or adds columns.  On SQLite each of these statements is
\* committed by itself, unless a row was written before it.
Revise ==
    /\ At("alembic")
    /\ Made.schema = "versioned" /\ Made.behind > 0
    /\ \E s \in {"versioned", "torn"} : Opened([Made EXCEPT !.schema = s])
    /\ Goes("revision")
    /\ UNCHANGED <<old, key, operators, unsynced, excused, events>>

\* Its version is recorded with the rest of what it writes.
Record ==
    /\ At("revision")
    /\ Opened([db EXCEPT !.behind = @ - 1, !.schema = "versioned"])
    /\ Goes("alembic")
    /\ UNCHANGED <<old, key, operators, unsynced, excused, events>>

\* A revision over tables it has made, or create_all has, raises: upgrade fails, and with it
\* the entrypoint.
ReviseFails ==
    /\ At("alembic")
    /\ Made.schema # "versioned"
    /\ Closed(db)
    /\ Goes("down")
    /\ UNCHANGED <<old, key, operators, unsynced, excused, events>>

\* Nothing is left to run.
Migrate ==
    /\ At("alembic")
    /\ Made.schema = "versioned" /\ Made.behind = 0
    /\ Closed(db)
    /\ Enters("lifespan")
    /\ UNCHANGED <<old, key, operators, unsynced, excused, events>>

\* init_db opens the database in WAL mode and creates the tables there are not, all of them
\* in a new one, with no word of it to Alembic.
InitDb ==
    /\ At("lifespan")
    /\ IF db = Absent
       THEN Opened([EmptyDatabase EXCEPT !.behind = 0, !.schema = "unversioned"])
       ELSE \/ Opened(db)
            \/ db.behind > 0 /\ Opened([db EXCEPT !.schema = "torn"])
    /\ Goes("guard")
    /\ UNCHANGED <<old, key, operators, unsynced, excused, events>>

(***************************************************************************)
(* The salt (crypto.py, bootstrap.py).                                     *)
(***************************************************************************)

\* Mutant: only stored credentials are looked for.
SaltPresent_creds == ~SaltMissing \/ db.creds = {} \/ allow

\* assert_credential_salt_present
SaltPresent == ~SaltMissing \/ ~Dependent(db) \/ allow

Guard ==
    /\ At("guard")
    /\ IF SaltPresent THEN Goes("salt") ELSE Goes("down")
    /\ UNCHANGED <<disk, key, operators, unsynced, excused, events>>

\* A new salt differs from those there were.
FreshSalts == {s \in Salts \ {Empty} :
    /\ s \notin {old["salt"], new["salt"], away}
    /\ \A k \in Keys : Dependent(db) /\ k \in db.creds \cup db.mfa \cup db.audit => k[2] # s}

NextSalt == CHOOSE s \in FreshSalts : TRUE

Replaced(reason) == excused' = IF Dependent(db) THEN excused \cup {reason} ELSE excused

\* _load_or_create_salt for the audit chain's key: the file is read, whatever it holds,
\* or created ...
LoadSalt ==
    /\ At("salt")
    /\ IF SaltMissing
       THEN /\ new' = [new EXCEPT !["salt"] = Empty]
            /\ Goes("writeSalt")
            /\ IF allow THEN Replaced("allowed") ELSE UNCHANGED excused
            /\ UNCHANGED key
       ELSE /\ key' = <<env, new["salt"]>>
            /\ Goes("backfill")
            /\ UNCHANGED <<new, excused>>
    /\ UNCHANGED <<old, operators, unsynced, events>>

\* ... and written, but not synced.
WriteSalt ==
    /\ At("writeSalt") /\ FreshSalts # {}
    /\ new' = [new EXCEPT !["salt"] = NextSalt]
    /\ key' = <<env, NextSalt>>
    /\ unsynced' = TRUE
    /\ Goes("backfill")
    /\ UNCHANGED <<old, operators, excused, events>>

\* The system writes its cache back.
SaltReachesDisk ==
    /\ unsynced
    /\ unsynced' = FALSE
    /\ UNCHANGED <<disk, stage, moves, key, operators, excused, events>>

(***************************************************************************)
(* What a start writes (bootstrap.py).  Each step is a transaction.        *)
(***************************************************************************)

Audited(database) == [database EXCEPT !.audit = @ \cup {key}]

Backfill ==
    /\ At("backfill")
    /\ Commit(IF db.unhashed THEN [Audited(db) EXCEPT !.unhashed = FALSE] ELSE db)
    /\ Goes("source")
    /\ UNCHANGED <<old, key, operators, unsynced, excused, events>>

Seeded(what) == [db EXCEPT !.seeded = @ \cup {what}]

\* seed_system_log_source
SeedSource ==
    /\ At("source")
    /\ Commit(Seeded("source"))
    /\ Goes("role")
    /\ UNCHANGED <<old, key, operators, unsynced, excused, events>>

\* ... or raises, where columns of revisions that were not run are missing.
SeedSourceFails ==
    /\ At("source")
    /\ db.behind > 0
    /\ Goes("down")
    /\ UNCHANGED <<disk, key, operators, unsynced, excused, events>>

\* seed_initial_super_admin: nothing to do once there is a user; otherwise a role whose
\* name must be new, committed before ...
SeedRole ==
    /\ At("role")
    /\ IF "user" \in db.seeded
       THEN /\ Goes("noAccess")
            /\ UNCHANGED new
       ELSE IF "role" \in db.seeded
       THEN /\ Goes("down")
            /\ UNCHANGED new
       ELSE /\ Goes("user")
            /\ Commit(Audited(Seeded("role")))
    /\ UNCHANGED <<old, key, operators, unsynced, excused, events>>

\* ... the account.
SeedUser ==
    /\ At("user")
    /\ Commit(Audited(Seeded("user")))
    /\ Goes("noAccess")
    /\ UNCHANGED <<old, key, operators, unsynced, excused, events>>

\* Mutant: the role is created whether or not it is there.
NoAccessThere_never == FALSE

NoAccessThere == "noAccess" \in db.seeded

\* seed_no_access_role, whose name must be new as well.
SeedNoAccess ==
    /\ At("noAccess")
    /\ IF ~NoAccessThere /\ "noAccess" \in db.seeded
       THEN /\ Goes("down")
            /\ UNCHANGED new
       ELSE /\ Goes("issuers")
            /\ Commit(IF NoAccessThere THEN db ELSE Audited(Seeded("noAccess")))
    /\ UNCHANGED <<old, key, operators, unsynced, excused, events>>

\* backfill_sso_user_issuers decrypts the provider's configuration, or raises.
BindIssuers ==
    /\ At("issuers")
    /\ IF db.unbound /\ ~(db.creds \subseteq {key})
       THEN /\ Goes("down")
            /\ UNCHANGED new
       ELSE /\ Goes("up")
            /\ Commit([db EXCEPT !.unbound = FALSE])
    /\ UNCHANGED <<old, key, operators, unsynced, excused, events>>

\* A request stores a credential or enrolls a second factor, with its audit row.
Encrypt ==
    /\ At("up")
    /\ \/ Commit([Audited(db) EXCEPT !.creds = @ \cup {key}])
       \/ Commit([Audited(db) EXCEPT !.mfa = @ \cup {key}])
    /\ UNCHANGED <<old, stage, moves, key, operators, unsynced, excused, events>>

(***************************************************************************)
(* Crashes and operators.                                                  *)
(***************************************************************************)

Event ==
    /\ events < MaxEvents
    /\ events' = events + 1

Ends == stage' = "down" /\ todo' = {} /\ copied' = FALSE /\ key' = NoKey

\* Alembic, or uvicorn without it, is started by hand.
StartByHand ==
    /\ stage = "down"
    /\ Event
    /\ Enters("alembic") \/ Enters("lifespan")
    /\ UNCHANGED <<disk, key, operators, unsynced, excused>>

\* Stopped in order: the journal is written back and deleted.
Stop ==
    /\ stage = "up"
    /\ Event
    /\ Ends
    /\ Closed(db)
    /\ UNCHANGED <<old, operators, unsynced, excused>>

\* Killed, or a step of the start raises.
Crash ==
    /\ stage # "down"
    /\ Event
    /\ Ends
    /\ UNCHANGED <<disk, operators, unsynced, excused>>

\* The power goes: what SQLite has committed is there, a salt in the cache is not.
PowerLoss ==
    /\ stage # "down"
    /\ Event
    /\ Ends
    /\ new' = IF unsynced THEN [new EXCEPT !["salt"] = Empty] ELSE new
    /\ IF unsynced THEN Replaced("power") ELSE UNCHANGED excused
    /\ unsynced' = FALSE
    /\ UNCHANGED <<old, operators>>

\* A container is recreated without the volume that the salt was on.
LoseSalt ==
    /\ stage = "down" /\ ~SaltMissing /\ away = Absent
    /\ Event
    /\ away' = new["salt"]
    /\ new' = [new EXCEPT !["salt"] = Absent]
    /\ unsynced' = FALSE
    /\ UNCHANGED <<old, stage, moves, key, env, allow, excused>>

\* The operator brings it back where it is missed.
RestoreSalt ==
    /\ stage = "down" /\ away # Absent /\ SaltMissing
    /\ new' = [new EXCEPT !["salt"] = away]
    /\ away' = Absent
    /\ unsynced' = FALSE
    /\ UNCHANGED <<old, stage, moves, key, env, allow, excused, events>>

AllowRegenerate ==
    /\ stage = "down" /\ ~allow
    /\ Event
    /\ allow' = TRUE
    /\ UNCHANGED <<disk, stage, moves, key, env, away, unsynced, excused>>

\* The salt that the rotation script reads, or creates without the guard of a start.
ScriptSalt == IF SaltMissing THEN NextSalt ELSE new["salt"]

\* rotate, run in an installation that has been started before, and not running: the
\* credentials get the new key in one transaction, MFA secrets and the audit chain do
\* not.  The operator then changes the environment.  With --dry-run, or when a row does
\* not decrypt, nothing is written but a salt that was missing.
Rotate ==
    /\ stage = "down" /\ db # Absent /\ env = 1
    /\ SaltMissing => FreshSalts # {}
    /\ Event
    /\ \E dryRun \in BOOLEAN :
        LET rotates == ~dryRun /\ db.creds \subseteq {<<1, ScriptSalt>>}
            rotated == [db EXCEPT !.creds = IF @ = {} THEN {} ELSE {<<2, ScriptSalt>>}]
        IN /\ new' = [new EXCEPT !["salt"] = ScriptSalt,
                                 !["db"] = IF rotates THEN rotated ELSE db]
           /\ env' = IF rotates THEN 2 ELSE 1
           /\ excused' = excused \cup (IF rotates THEN {"rotated"} ELSE {})
                                 \cup (IF SaltMissing /\ Dependent(db) THEN {"script"} ELSE {})
    /\ unsynced' = (unsynced \/ SaltMissing)
    /\ UNCHANGED <<old, stage, moves, key, allow, away>>

StartStep ==
    \/ Start \/ Move \/ Unlink \/ EntrypointDone
    \/ Revise \/ Record \/ ReviseFails \/ Migrate \/ InitDb
    \/ Guard \/ LoadSalt \/ WriteSalt \/ Backfill
    \/ SeedSource \/ SeedSourceFails \/ SeedRole \/ SeedUser \/ SeedNoAccess \/ BindIssuers

Next ==
    \/ StartStep \/ SaltReachesDisk \/ Encrypt
    \/ StartByHand \/ Stop \/ Crash \/ PowerLoss
    \/ LoseSalt \/ RestoreSalt \/ AllowRegenerate \/ Rotate

Spec == Init /\ [][Next]_vars

\* The container is restarted whenever it ends, and a start goes on.
FairSpec == Spec /\ WF_vars(StartStep)

(***************************************************************************)
(* Properties.                                                             *)
(***************************************************************************)

\* "The salt moves first and the database last, so an interrupted move can never leave
\* the database next to a missing salt" (data_layout.py), nor without the journal that
\* holds its last commits: whenever the process died, the database in DATA_DIR has both,
\* unless the operator took the salt away.
NeverWithoutItsSalt ==
    db # Absent =>
        /\ db.journal => new["journal"] # Absent
        /\ Dependent(db) => ~SaltMissing \/ away # Absent

\* "It has to stay stable across restarts or every previously-encrypted credential
\* becomes undecryptable" (_load_or_create_salt): what runs has the key of all that is
\* stored, unless the operator allowed a new salt, the power went before the salt was
\* on the disk, or the rotation script created one beside the guard; after a rotation
\* the credentials have it still, MFA secrets and audit rows do not.
KeysStay ==
    stage = "up" =>
        \/ excused \cap {"allowed", "power", "script"} # {}
        \/ /\ db.creds \subseteq {key}
           /\ "rotated" \in excused \/ db.mfa \cup db.audit \subseteq {key}

\* Seeds and moves are "idempotent" (bootstrap.py): wherever the last start ended, the
\* next ones get the service up again - but for a lost salt, a first start that ended
\* between the first role and its account, accounts to be bound to an issuer whose
\* configuration does not decrypt any more, and tables that Alembic has no version of: of
\* a revision that was cut off, or created by a start without it.
GetsUp ==
    []<>(\/ stage = "up"
         \/ SaltMissing
         \/ db # Absent /\ "role" \in db.seeded /\ "user" \notin db.seeded
         \/ db # Absent /\ db.unbound /\ excused # {}
         \/ db # Absent /\ db.schema # "versioned")
=============================================================================
