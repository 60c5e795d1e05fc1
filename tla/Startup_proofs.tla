---------------------------- MODULE Startup_proofs ----------------------------
(***************************************************************************)
(* Starting over what the last run left: wherever the process died, the    *)
(* database has its salt and its journal, and what runs has the key of all *)
(* that is stored: for any number of salts, crashes and mistakes.          *)
(***************************************************************************)
EXTENDS Startup, TLAPS

(***************************************************************************)
(* The inductive invariant.                                                *)
(***************************************************************************)

Moving == {"entrypoint", "alembic", "lifespan"}
Keyed == {"backfill", "source", "role", "user", "noAccess", "issuers", "up"}
Stages == {"down", "revision", "guard", "salt", "writeSalt"} \cup Moving \cup Keyed

TypeInv ==
    /\ DOMAIN old = Files /\ DOMAIN new = Files
    /\ old["salt"] \in Salts \cup {Absent} /\ new["salt"] \in Salts \cup {Absent}
    /\ old["db"] \in EarlierDatabases \cup {Absent} /\ db \in Database \cup {Absent}
    /\ stage \in Stages
    /\ todo \subseteq Files
    /\ env \in Secrets /\ away \in Salts \cup {Absent}

FlagsInv == copied \in BOOLEAN /\ allow \in BOOLEAN /\ unsynced \in BOOLEAN

\* Where files are still to move nothing else has happened yet; what is to move is
\* there, and what is not, and belongs to the database, is in place or nowhere.
MovesInv ==
    /\ todo # {} => stage \in Moving
    /\ copied => todo # {}
    /\ \A f \in todo : old[f] # Absent
    /\ \A f \in todo : copied /\ First(f) => new[f] # Absent
    /\ \A f \in todo \cap {"salt", "db"} : ~(copied /\ First(f)) => new[f] = Absent
    /\ stage # "down" /\ "salt" \notin todo => old["salt"] = Absent \/ ~SaltMissing
    /\ stage # "down" /\ "db" \notin todo => old["db"] = Absent \/ db # Absent
    /\ "db" \in todo /\ "journal" \notin todo => old["journal"] = Absent \/ new["journal"] # Absent
    /\ stage \notin Moving \cup {"down"} => db # Absent
    /\ stage = "revision" => db.behind > 0

\* A database that has not moved yet has its salt and its journal somewhere.
OldInv ==
    db = Absent /\ old["db"] # Absent =>
        /\ old["db"].journal => old["journal"] # Absent \/ new["journal"] # Absent
        /\ Dependent(old["db"]) => old["salt"] # Absent \/ ~SaltMissing \/ away # Absent

\* A salt left at the old place is the one that was lost, or that is in place.
SaltInv ==
    /\ old["salt"] # Absent /\ ~SaltMissing /\ away = Absent => old["salt"] = new["salt"]
    /\ old["salt"] # Absent /\ SaltMissing /\ away # Absent => old["salt"] = away
    /\ db # Absent /\ SaltMissing /\ away = Absent => old["salt"] = Absent
    /\ unsynced /\ away = Absent => old["salt"] = Absent
    /\ stage = "writeSalt" => new["salt"] = Empty /\ old["salt"] = Absent
    /\ stage \in Keyed => ~SaltMissing

\* The key of an installation, in use or not.
PresentKey == <<env, IF SaltMissing THEN away ELSE new["salt"]>>

Blameless == excused \cap {"allowed", "power", "script"} = {}

UnderKey(database, k) ==
    /\ database.creds \subseteq {k}
    /\ "rotated" \in excused \/ database.mfa \cup database.audit \subseteq {k}

KeyInv ==
    /\ stage \in Keyed => key = PresentKey
    /\ stage = "salt" /\ SaltMissing => ~Dependent(db) \/ allow
    /\ stage = "writeSalt" /\ Blameless => ~Dependent(db)
    /\ db = Absent =>
        /\ env = 1 /\ ~unsynced /\ "rotated" \notin excused
        /\ {old["salt"], new["salt"], away} \subseteq {1, Absent}
    /\ db # Absent /\ Blameless => UnderKey(db, PresentKey)

IInv == TypeInv /\ FlagsInv /\ MovesInv /\ OldInv /\ NeverWithoutItsSalt /\ SaltInv /\ KeyInv

(***************************************************************************)
(* What the steps do to the database.                                      *)
(***************************************************************************)

\* An earlier installation has a database, all under its own key.
LEMMA EarlierAreDatabases ==
    ASSUME NEW d \in EarlierDatabases
    PROVE  /\ d \in Database
           /\ d.creds \subseteq {FirstKey} /\ d.mfa \cup d.audit \subseteq {FirstKey}
<1>1. FirstKey \in Keys
    BY BoundsAssumption DEF FirstKey, Keys, Secrets, Salts, Empty
<1>2. EmptyDatabase \in Database /\ 1 \in 0..Revisions
    BY BoundsAssumption DEF EmptyDatabase, Database
<1>3. ASSUME NEW creds \in {{}, {FirstKey}}, NEW mfa \in {{}, {FirstKey}},
             NEW audit \in {{}, {FirstKey}}, NEW journal \in BOOLEAN,
             d = Earlier(creds, mfa, audit, journal)
      PROVE  /\ d \in Database
             /\ d.creds \subseteq {FirstKey} /\ d.mfa \cup d.audit \subseteq {FirstKey}
    <2>1. /\ creds \subseteq {FirstKey} /\ mfa \subseteq {FirstKey} /\ audit \subseteq {FirstKey}
          /\ creds \subseteq Keys /\ mfa \subseteq Keys /\ audit \subseteq Keys
        BY <1>1, <1>3
    <2>2. (audit = {}) \in BOOLEAN
        OBVIOUS
    <2> QED BY <1>2, <1>3, <2>1, <2>2 DEF Earlier, EmptyDatabase, Database
<1>4. ASSUME d = WithAccountsToBind
      PROVE  /\ d \in Database
             /\ d.creds \subseteq {FirstKey} /\ d.mfa \cup d.audit \subseteq {FirstKey}
    BY <1>1, <1>2, <1>4 DEF WithAccountsToBind, EmptyDatabase, Database
<1>5. \/ \E creds \in {{}, {FirstKey}}, mfa \in {{}, {FirstKey}}, audit \in {{}, {FirstKey}},
            journal \in BOOLEAN : d = Earlier(creds, mfa, audit, journal)
      \/ d = WithAccountsToBind
    BY DEF EarlierDatabases
<1> QED BY <1>3, <1>4, <1>5

LEMMA FreshIsSalt == FreshSalts # {} => NextSalt \in Salts
BY DEF FreshSalts, NextSalt

NoNewKeys(d) == d.creds \cup d.mfa \cup d.audit = {}

SameKeys(d, e) == d.creds = e.creds /\ d.mfa = e.mfa /\ d.audit = e.audit

\* Opening, migrating and closing the database changes its schema and its journal, and
\* creates it if need be.
Schema == Revise \/ Record \/ ReviseFails \/ Migrate \/ InitDb \/ Stop

LEMMA MadeIsDatabase ==
    ASSUME TypeInv
    PROVE  /\ Made \in Database
           /\ db = Absent => NoNewKeys(Made) /\ Made.schema = "versioned" /\ Made.behind > 0
           /\ db # Absent => Made = db
<1>1. EmptyDatabase \in Database
    BY BoundsAssumption DEF EmptyDatabase, Database
<1>2. NoNewKeys(EmptyDatabase) /\ EmptyDatabase.schema = "versioned" /\ EmptyDatabase.behind > 0
    BY BoundsAssumption DEF EmptyDatabase, NoNewKeys
<1> QED BY <1>1, <1>2 DEF Made, TypeInv

LEMMA Opens ==
    ASSUME TypeInv, MovesInv, Schema
    PROVE  /\ DOMAIN new' = Files /\ new'["salt"] = new["salt"]
           /\ db' \in Database
           /\ db = Absent => NoNewKeys(db')
           /\ db # Absent => SameKeys(db', db)
           /\ db'.journal => new'["journal"] # Absent
           /\ UNCHANGED <<old, operators, unsynced, excused>>
<1>1. 1 # Absent
    BY AbsentAssumption
<1>2. ASSUME NEW d, Opened(d) \/ Closed(d), d \in Database, db = Absent => NoNewKeys(d),
             db # Absent => SameKeys(d, db)
      PROVE  /\ DOMAIN new' = Files /\ new'["salt"] = new["salt"]
             /\ db' \in Database
             /\ db = Absent => NoNewKeys(db')
             /\ db # Absent => SameKeys(db', db)
             /\ db'.journal => new'["journal"] # Absent
    <2>1. CASE Opened(d)
        <3>1. db' = [d EXCEPT !.journal = TRUE] /\ new'["journal"] = 1
              /\ DOMAIN new' = Files /\ new'["salt"] = new["salt"]
            BY <2>1 DEF Opened, TypeInv, db, Files
        <3>2. db' \in Database /\ SameKeys(db', d)
            BY <1>2, <3>1 DEF Database, SameKeys
        <3> QED BY <1>1, <1>2, <3>1, <3>2 DEF NoNewKeys, SameKeys
    <2>2. CASE Closed(d)
        <3>1. db' = [d EXCEPT !.journal = FALSE]
              /\ DOMAIN new' = Files /\ new'["salt"] = new["salt"]
            BY <2>2 DEF Closed, TypeInv, db, Files
        <3>2. db' \in Database /\ SameKeys(db', d) /\ ~db'.journal
            BY <1>2, <3>1 DEF Database, SameKeys
        <3> QED BY <1>2, <3>1, <3>2 DEF NoNewKeys, SameKeys
    <2> QED BY <1>2, <2>1, <2>2
<1>3. UNCHANGED <<old, operators, unsynced, excused>>
    BY DEF Schema, Revise, Record, ReviseFails, Migrate, InitDb, Stop
<1>4. PICK d : (Opened(d) \/ Closed(d)) /\ d \in Database /\ (db = Absent => NoNewKeys(d))
               /\ (db # Absent => SameKeys(d, db))
    <2>1. CASE Revise
        <3>1. PICK s \in {"versioned", "torn"} : Opened([Made EXCEPT !.schema = s])
            BY <2>1 DEF Revise
        <3>2. /\ [Made EXCEPT !.schema = s] \in Database
              /\ SameKeys([Made EXCEPT !.schema = s], Made)
            BY MadeIsDatabase DEF Database, SameKeys
        <3> QED BY <3>1, <3>2, MadeIsDatabase DEF NoNewKeys, SameKeys
    <2>2. CASE Record
        <3>1. db # Absent /\ db.behind > 0
            BY <2>2 DEF Record, At, MovesInv, Moving
        <3> DEFINE less == db.behind - 1
        <3>2. db \in Database /\ db.behind \in 0..Revisions
            BY <3>1 DEF TypeInv, Database
        <3>3. less \in 0..Revisions
            BY <3>1, <3>2, BoundsAssumption
        <3>4. Opened([db EXCEPT !.behind = less, !.schema = "versioned"])
            BY <2>2 DEF Record
        <3> HIDE DEF less
        <3>5. /\ [db EXCEPT !.behind = less, !.schema = "versioned"] \in Database
              /\ SameKeys([db EXCEPT !.behind = less, !.schema = "versioned"], db)
            BY <3>2, <3>3 DEF Database, SameKeys
        <3> QED BY <3>1, <3>4, <3>5
    <2>3. CASE ReviseFails \/ Migrate
        <3>1. db # Absent
            BY <2>3, MadeIsDatabase, BoundsAssumption DEF ReviseFails, Migrate, Made, EmptyDatabase
        <3> QED BY <2>3, <3>1 DEF ReviseFails, Migrate, TypeInv, SameKeys
    <2>4. CASE InitDb
        <3> DEFINE made == [EmptyDatabase EXCEPT !.behind = 0, !.schema = "unversioned"]
        <3>1. made \in Database /\ NoNewKeys(made)
            <4>1. EmptyDatabase \in Database /\ NoNewKeys(EmptyDatabase)
                BY BoundsAssumption DEF EmptyDatabase, Database, NoNewKeys
            <4>2. 0 \in 0..Revisions
                BY BoundsAssumption
            <4> QED BY <4>1, <4>2 DEF Database, NoNewKeys
        <3> HIDE DEF made
        <3>2. CASE db = Absent
            BY <2>4, <3>1, <3>2 DEF InitDb, made
        <3>3. CASE db # Absent
            <4>1. /\ [db EXCEPT !.schema = "torn"] \in Database
                  /\ SameKeys([db EXCEPT !.schema = "torn"], db)
                  /\ db \in Database /\ SameKeys(db, db)
                BY <3>3 DEF TypeInv, Database, SameKeys
            <4> QED BY <2>4, <3>3, <4>1 DEF InitDb
        <3> QED BY <3>2, <3>3
    <2>5. CASE Stop
        BY <2>5 DEF Stop, MovesInv, Moving, TypeInv, SameKeys
    <2> QED BY <2>1, <2>2, <2>3, <2>4, <2>5 DEF Schema
<1> QED BY <1>2, <1>3, <1>4

\* What is written while a key is in use is under that key.
Records(d) ==
    /\ d \in Database /\ d.journal = db.journal
    /\ d.creds \subseteq db.creds \cup {key}
    /\ d.mfa \subseteq db.mfa \cup {key} /\ d.audit \subseteq db.audit \cup {key}

Writes ==
    \/ Backfill \/ SeedSource \/ SeedRole \/ SeedUser \/ SeedNoAccess \/ BindIssuers \/ Encrypt

LEMMA AuditedRecords ==
    ASSUME db \in Database, key \in Keys, NEW d \in Database,
           d.journal = db.journal /\ SameKeys(d, db)
    PROVE  /\ Records(d) /\ Records(Audited(d))
           /\ Records([Audited(d) EXCEPT !.creds = @ \cup {key}])
           /\ Records([Audited(d) EXCEPT !.mfa = @ \cup {key}])
           /\ Records([Audited(d) EXCEPT !.unhashed = FALSE])
<1>1. /\ Audited(d) \in Database /\ Audited(d).journal = db.journal
      /\ Audited(d).creds = db.creds /\ Audited(d).mfa = db.mfa
      /\ Audited(d).audit = db.audit \cup {key}
    BY DEF Audited, Database, SameKeys
<1> DEFINE a == Audited(d)
<1>2. a \in Database /\ a.journal = db.journal /\ a.creds = db.creds /\ a.mfa = db.mfa
      /\ a.audit = db.audit \cup {key}
    BY <1>1
<1> HIDE DEF a
<1>3. /\ Records(a)
      /\ Records([a EXCEPT !.creds = @ \cup {key}])
      /\ Records([a EXCEPT !.mfa = @ \cup {key}])
      /\ Records([a EXCEPT !.unhashed = FALSE])
    BY <1>2 DEF Database, Records
<1>4. Records(d)
    BY DEF Records, SameKeys
<1> QED BY <1>3, <1>4 DEF a

LEMMA SeededRecords ==
    ASSUME db \in Database, key \in Keys, NEW what \in {"source", "role", "user", "noAccess"}
    PROVE  Records(Seeded(what)) /\ Records(Audited(Seeded(what)))
<1>1. Seeded(what) \in Database /\ Seeded(what).journal = db.journal /\ SameKeys(Seeded(what), db)
    BY DEF Seeded, Database, SameKeys
<1> QED BY <1>1, AuditedRecords

LEMMA WritesRecord ==
    ASSUME TypeInv, MovesInv, SaltInv, KeyInv, Writes
    PROVE  /\ stage \in Keyed /\ stage' \in Keyed \cup {"down"}
           /\ db # Absent /\ Records(db')
           /\ DOMAIN new' = Files /\ \A f \in Files \ {"db"} : new'[f] = new[f]
           /\ UNCHANGED <<old, moves, key, operators, unsynced, excused>>
<1>1. /\ stage \in Keyed /\ stage' \in Keyed \cup {"down"}
      /\ UNCHANGED <<old, moves, key, operators, unsynced, excused>>
    BY DEF Writes, Backfill, SeedSource, SeedRole, SeedUser, SeedNoAccess, BindIssuers, Encrypt,
           At, Goes, Keyed, moves, operators
<1>2. db \in Database /\ db # Absent
    BY <1>1 DEF Keyed, Moving, TypeInv, MovesInv
<1>3. key \in Keys
    BY <1>1 DEF KeyInv, SaltInv, PresentKey, SaltMissing, TypeInv, Keys
<1>4. Records(db) /\ Records(Audited(db))
    BY <1>2, <1>3, AuditedRecords DEF SameKeys
<1>5. \/ UNCHANGED new
      \/ \E d : Commit(d) /\ Records(d)
    <2>1. CASE Backfill
        <3>1. CASE db.unhashed
            <4>1. Records([Audited(db) EXCEPT !.unhashed = FALSE])
                BY <1>2, <1>3, AuditedRecords DEF SameKeys
            <4> QED BY <2>1, <3>1, <4>1 DEF Backfill
        <3>2. CASE ~db.unhashed
            BY <2>1, <3>2, <1>4 DEF Backfill
        <3> QED BY <3>1, <3>2
    <2>2. CASE SeedSource
        BY <2>2, <1>2, <1>3, SeededRecords DEF SeedSource
    <2>3. CASE SeedRole
        BY <2>3, <1>2, <1>3, SeededRecords DEF SeedRole
    <2>4. CASE SeedUser
        BY <2>4, <1>2, <1>3, SeededRecords DEF SeedUser
    <2>5. CASE SeedNoAccess
        BY <2>5, <1>2, <1>3, <1>4, SeededRecords DEF SeedNoAccess
    <2>6. CASE BindIssuers
        <3>1. Records([db EXCEPT !.unbound = FALSE])
            BY <1>2, <1>3 DEF Records, Database
        <3> QED BY <2>6, <3>1 DEF BindIssuers
    <2>7. CASE Encrypt
        <3>1. /\ Records([Audited(db) EXCEPT !.creds = @ \cup {key}])
              /\ Records([Audited(db) EXCEPT !.mfa = @ \cup {key}])
            BY <1>2, <1>3, AuditedRecords DEF SameKeys
        <3> QED BY <2>7, <3>1 DEF Encrypt
    <2> QED BY <2>1, <2>2, <2>3, <2>4, <2>5, <2>6, <2>7 DEF Writes
<1>6. DOMAIN new' = Files /\ (\A f \in Files \ {"db"} : new'[f] = new[f]) /\ Records(db')
    BY <1>4, <1>5 DEF Commit, TypeInv, Files, db, Records
<1> QED BY <1>1, <1>2, <1>6

\* The rotation script leaves a salt, and of the keys changes those of credentials only.
LEMMA Rotates ==
    ASSUME TypeInv, Rotate
    PROVE  /\ ScriptSalt \in Salts /\ new'["salt"] = ScriptSalt /\ ScriptSalt # Absent
           /\ DOMAIN new' = Files /\ \A f \in Files \ {"salt", "db"} : new'[f] = new[f]
           /\ db \in Database /\ db' \in Database
           /\ db'.journal = db.journal /\ db'.mfa = db.mfa /\ db'.audit = db.audit
           /\ \/ env' = env /\ db'.creds = db.creds
              \/ "rotated" \in excused' /\ db'.creds \subseteq {<<env', ScriptSalt>>}
<1>1. ScriptSalt \in Salts
    BY FreshIsSalt DEF Rotate, ScriptSalt, SaltMissing, TypeInv
<1>2. db \in Database /\ env = 1 /\ stage = "down"
    BY DEF Rotate, TypeInv
<1> DEFINE rotated == [db EXCEPT !.creds = IF @ = {} THEN {} ELSE {<<2, ScriptSalt>>}]
<1>3. \/ /\ new' = [new EXCEPT !["salt"] = ScriptSalt, !["db"] = rotated]
         /\ env' = 2 /\ "rotated" \in excused'
      \/ /\ new' = [new EXCEPT !["salt"] = ScriptSalt, !["db"] = db]
         /\ env' = 1
    <2>1. PICK dryRun \in BOOLEAN :
            LET rotates == ~dryRun /\ db.creds \subseteq {<<1, ScriptSalt>>}
            IN /\ new' = [new EXCEPT !["salt"] = ScriptSalt,
                                     !["db"] = IF rotates THEN rotated ELSE db]
               /\ env' = IF rotates THEN 2 ELSE 1
               /\ excused' = excused \cup (IF rotates THEN {"rotated"} ELSE {})
                                     \cup (IF SaltMissing /\ Dependent(db) THEN {"script"} ELSE {})
        BY Zenon DEF Rotate
    <2> HIDE DEF rotated
    <2>2. CASE ~dryRun /\ db.creds \subseteq {<<1, ScriptSalt>>}
        BY <2>1, <2>2
    <2>3. CASE ~(~dryRun /\ db.creds \subseteq {<<1, ScriptSalt>>})
        BY <2>1, <2>3
    <2> QED BY <2>2, <2>3
<1>4. <<2, ScriptSalt>> \in Keys
    BY <1>1 DEF Keys, Secrets
<1>5. /\ rotated \in Database /\ rotated.journal = db.journal
      /\ rotated.mfa = db.mfa /\ rotated.audit = db.audit
      /\ rotated.creds \subseteq {<<2, ScriptSalt>>}
    BY <1>2, <1>4 DEF Database
<1> HIDE DEF rotated
<1>6. /\ DOMAIN new' = Files /\ (\A f \in Files \ {"salt", "db"} : new'[f] = new[f])
      /\ new'["salt"] = ScriptSalt
      /\ \/ db' = rotated /\ env' = 2 /\ "rotated" \in excused'
         \/ db' = db /\ env' = 1
    BY <1>3 DEF TypeInv, Files, db
<1>7. ScriptSalt # Absent
    BY <1>1, AbsentAssumption, BoundsAssumption DEF Salts, Empty
<1> QED BY <1>1, <1>2, <1>5, <1>6, <1>7

(***************************************************************************)
(* The steps.                                                              *)
(***************************************************************************)

LEMMA FlagsStep ==
    ASSUME FlagsInv, Next
    PROVE  FlagsInv'
<1> USE DEF FlagsInv, moves, operators
<1>1. CASE Start \/ StartByHand \/ EntrypointDone \/ Migrate \/ Guard \/ LoadSalt \/ WriteSalt
    BY <1>1, Zenon DEF Start, StartByHand, EntrypointDone, Migrate, Guard, LoadSalt, WriteSalt,
                       Enters, Goes
<1>9. CASE Revise \/ Record \/ ReviseFails \/ InitDb \/ SeedSourceFails
    BY <1>9, Zenon DEF Revise, Record, ReviseFails, InitDb, SeedSourceFails, Goes
<1>2. CASE Move
    BY <1>2, Zenon DEF Move
<1>3. CASE Unlink
    BY <1>3, Zenon DEF Unlink
<1>4. CASE Writes
    BY <1>4, Zenon DEF Writes, Backfill, SeedSource, SeedRole, SeedUser, SeedNoAccess, BindIssuers,
                       Encrypt, Goes
<1>5. CASE SaltReachesDisk
    BY <1>5, Zenon DEF SaltReachesDisk
<1>6. CASE Stop \/ Crash \/ PowerLoss
    BY <1>6, Zenon DEF Stop, Crash, PowerLoss, Ends
<1>7. CASE LoseSalt \/ RestoreSalt \/ AllowRegenerate
    BY <1>7, Zenon DEF LoseSalt, RestoreSalt, AllowRegenerate
<1>8. CASE Rotate
    <2>1. (unsynced \/ SaltMissing) \in BOOLEAN
        BY Zenon
    <2> QED BY <1>8, <2>1, Zenon DEF Rotate
<1> QED BY <1>1, <1>2, <1>3, <1>4, <1>5, <1>6, <1>7, <1>8, <1>9 DEF Next, StartStep, Writes

\* Steps that leave the files alone.
Bystanders ==
    \/ Start \/ StartByHand \/ EntrypointDone \/ Guard \/ SeedSourceFails
    \/ SaltReachesDisk \/ Crash \/ AllowRegenerate

LEMMA TypeStep ==
    ASSUME IInv, Next
    PROVE  TypeInv'
<1> USE DEF IInv, TypeInv, moves, operators, disk, Stages, Moving, Keyed
<1>1. CASE Bystanders
    BY <1>1 DEF Bystanders, Start, StartByHand, EntrypointDone, Guard, SeedSourceFails,
                SaltReachesDisk, Crash, AllowRegenerate,
                Enters, LegacyMoves, Goes, Ends, db
<1>2. CASE Move
    <2>1. PICK f \in todo :
            /\ new' = [new EXCEPT ![f] = old[f]]
            /\ old' = [old EXCEPT ![f] = Absent] \/ old' = old
            /\ todo' \subseteq todo
        BY <1>2 DEF Move
    <2>2. DOMAIN old' = Files /\ DOMAIN new' = Files
        BY <2>1
    <2>3. /\ old'["salt"] \in Salts \cup {Absent} /\ new'["salt"] \in Salts \cup {Absent}
          /\ old'["db"] \in EarlierDatabases \cup {Absent}
          /\ new'["db"] \in EarlierDatabases \cup Database \cup {Absent}
        BY <2>1 DEF Files, db
    <2> QED BY <1>2, <2>1, <2>2, <2>3, EarlierAreDatabases DEF Move, db
<1>3. CASE Unlink
    <2>1. PICK f \in todo : old' = [old EXCEPT ![f] = Absent] /\ todo' \subseteq todo
        BY <1>3 DEF Unlink
    <2> QED BY <1>3, <2>1 DEF Unlink, Files, db
<1>4. CASE Schema
    <2>1. stage' \in Stages /\ todo' \subseteq Files
        BY <1>4 DEF Schema, Revise, Record, ReviseFails, Migrate, InitDb, Stop, At, Enters,
                    LegacyMoves, Goes, Ends
    <2> QED BY <1>4, <2>1, Opens
<1>5. CASE LoadSalt \/ WriteSalt
    <2>1. Empty \in Salts
        BY BoundsAssumption DEF Salts, Empty
    <2>2. CASE LoadSalt
        BY <2>1, <2>2 DEF LoadSalt, Goes, Files, db
    <2>3. CASE WriteSalt
        BY <2>3, FreshIsSalt DEF WriteSalt, Goes, Files, db
    <2> QED BY <1>5, <2>2, <2>3
<1>6. CASE Writes
    BY <1>6, WritesRecord DEF Records, Files
<1>7. CASE PowerLoss
    BY <1>7, BoundsAssumption DEF PowerLoss, Ends, Files, db, Salts, Empty
<1>8. CASE LoseSalt \/ RestoreSalt
    BY <1>8 DEF LoseSalt, RestoreSalt, Files, db
<1>9. CASE Rotate
    BY <1>9, Rotates DEF Rotate, Files, Secrets
<1> QED BY <1>1, <1>2, <1>3, <1>4, <1>5, <1>6, <1>7, <1>8, <1>9
        DEF Next, StartStep, Bystanders, Schema, Writes

LEMMA MovesStep ==
    ASSUME IInv, Next
    PROVE  MovesInv'
<1> USE DEF IInv, TypeInv, MovesInv, SaltMissing, moves, operators, disk, Moving, Keyed, Files
<1>1. CASE Bystanders
    <2>1. CASE Start \/ StartByHand \/ EntrypointDone
        <3>1. /\ todo = {} /\ UNCHANGED <<old, new, copied>>
              /\ todo' = LegacyMoves /\ stage' \in Moving
            BY <2>1 DEF Start, StartByHand, EntrypointDone, At, Enters
        <3> QED BY <3>1 DEF LegacyMoves, First, db
    <2>2. CASE Guard \/ SeedSourceFails
        BY <2>2 DEF Guard, SeedSourceFails, Goes, At, First, db
    <2>4. CASE SaltReachesDisk \/ AllowRegenerate
        <3>1. UNCHANGED <<old, new, stage, todo, copied>>
            BY <2>4 DEF SaltReachesDisk, AllowRegenerate
        <3> QED BY <3>1 DEF First, db
    <2>3. CASE Crash
        BY <2>3 DEF Crash, Ends, First, db
    <2> QED BY <1>1, <2>1, <2>2, <2>3, <2>4 DEF Bystanders
<1>2. CASE Move
    BY <1>2 DEF Move, First, Place, db
<1>3. CASE Unlink
    BY <1>3 DEF Unlink, First, Place, db
<1>4. CASE Schema
    <2>1. db' # Absent /\ new'["salt"] = new["salt"] /\ UNCHANGED old
        BY <1>4, Opens, AbsentAssumption
    <2>2. CASE Migrate
        <3>1. todo = {} /\ todo' = LegacyMoves /\ stage = "alembic" /\ stage' \in Moving
              /\ copied' = copied
            BY <2>2 DEF Migrate, At, Enters
        <3>2. "db" \notin todo' /\ "journal" \notin todo'
            BY <3>1 DEF LegacyMoves, db
        <3> QED BY <2>1, <3>1, <3>2 DEF LegacyMoves, First
    <2>3. CASE Revise \/ Record \/ ReviseFails \/ InitDb \/ Stop
        <3>1. /\ todo' = {} /\ ~copied'
              /\ stage' # "down" => stage # "down" /\ todo = {}
            BY <2>3 DEF Revise, Record, ReviseFails, InitDb, Stop, At, Goes, Ends
        <3>2. stage' = "revision" => db'.behind > 0
            <4>1. CASE Revise
                <5>1. PICK s : Opened([Made EXCEPT !.schema = s])
                    BY <4>1 DEF Revise
                <5>2. Made \in Database /\ Made.behind > 0
                    BY <4>1, MadeIsDatabase DEF Revise
                <5>3. db' = [[Made EXCEPT !.schema = s] EXCEPT !.journal = TRUE]
                    BY <5>1 DEF Opened, db
                <5> QED BY <5>2, <5>3 DEF Database
            <4>2. CASE ~Revise
                BY <2>3, <4>2 DEF Record, ReviseFails, InitDb, Stop, Goes, Ends
            <4> QED BY <4>1, <4>2
        <3>3. stage' # "down" => (old'["salt"] = Absent \/ new'["salt"] # Absent)
            BY <2>1, <3>1
        <3> QED BY <2>1, <3>1, <3>2, <3>3
    <2> QED BY <1>4, <2>2, <2>3 DEF Schema
<1>5. CASE LoadSalt \/ WriteSalt \/ LoseSalt \/ RestoreSalt
    BY <1>5, FreshIsSalt, AbsentAssumption
       DEF LoadSalt, WriteSalt, LoseSalt, RestoreSalt, At, Goes, Salts, Empty, First, db
<1>6. CASE Writes
    <2>1. db' # Absent
        BY <1>6, WritesRecord, AbsentAssumption DEF Records
    <2>2. todo = {} /\ todo' = {} /\ old' = old /\ new'["salt"] = new["salt"]
          /\ stage # "down" /\ stage' # "revision" /\ copied' = copied
        BY <1>6, WritesRecord
    <2> QED BY <2>1, <2>2
<1>7. CASE PowerLoss \/ Rotate
    BY <1>7 DEF PowerLoss, Rotate, Ends, db
<1> QED BY <1>1, <1>2, <1>3, <1>4, <1>5, <1>6, <1>7 DEF Next, StartStep, Bystanders, Schema, Writes

\* Neither at the old place nor at the new one does a database lose its salt.
LEMMA PlacesStep ==
    ASSUME IInv, Next
    PROVE  OldInv' /\ NeverWithoutItsSalt'
<1> USE DEF IInv, TypeInv, MovesInv, OldInv, NeverWithoutItsSalt, SaltInv, SaltMissing, moves,
            operators, disk, Moving, Keyed, Files
<1>1. CASE Bystanders
    BY <1>1 DEF Bystanders, Start, StartByHand, EntrypointDone, Guard, SeedSourceFails,
                SaltReachesDisk, Crash, AllowRegenerate,
                Enters, Goes, Ends, Dependent, db
<1>2. CASE Move
    BY <1>2 DEF Move, First, Place, Dependent, db
<1>3. CASE Unlink
    BY <1>3 DEF Unlink, First, Place, Dependent, db
<1>4. CASE Schema
    <2>1. db' # Absent
        BY <1>4, Opens, AbsentAssumption
    <2>2. Dependent(db') => Dependent(db)
        BY <1>4, Opens DEF Dependent, NoNewKeys, SameKeys
    <2> QED BY <1>4, <2>1, <2>2, Opens DEF Dependent
<1>5. CASE LoadSalt \/ WriteSalt \/ LoseSalt \/ RestoreSalt
    BY <1>5, FreshIsSalt, AbsentAssumption
       DEF LoadSalt, WriteSalt, LoseSalt, RestoreSalt, At, Goes, Dependent, Salts, Empty, db
<1>6. CASE Writes
    <2>1. db' # Absent /\ db # Absent /\ db'.journal = db.journal
        BY <1>6, WritesRecord, AbsentAssumption DEF Records
    <2>2. stage \in Keyed /\ new'["salt"] = new["salt"] /\ new'["journal"] = new["journal"]
        BY <1>6, WritesRecord
    <2> QED BY <2>1, <2>2
<1>7. CASE PowerLoss
    BY <1>7, AbsentAssumption DEF PowerLoss, Ends, Dependent, Empty, db
<1>8. CASE Rotate
    <2>1. /\ new'["salt"] # Absent /\ db # Absent /\ new'["journal"] = new["journal"]
          /\ db'.journal = db.journal /\ db' # Absent
        BY <1>8, Rotates, AbsentAssumption
    <2> QED BY <2>1
<1> QED BY <1>1, <1>2, <1>3, <1>4, <1>5, <1>6, <1>7, <1>8
        DEF Next, StartStep, Bystanders, Schema, Writes

LEMMA SaltStep ==
    ASSUME IInv, Next
    PROVE  SaltInv'
<1> USE DEF IInv, TypeInv, MovesInv, SaltInv, SaltMissing, moves, operators, disk, Moving, Keyed,
            Files
<1>1. CASE Bystanders
    BY <1>1 DEF Bystanders, Start, StartByHand, EntrypointDone, Guard, SeedSourceFails,
                SaltReachesDisk, Crash, AllowRegenerate,
                Enters, Goes, Ends, At, db
<1>2. CASE Move
    BY <1>2 DEF Move, First, Place, db
<1>3. CASE Unlink
    BY <1>3 DEF Unlink, First, Place, db
<1>4. CASE Schema
    <2>1. stage' \notin Keyed \cup {"writeSalt"}
        BY <1>4 DEF Schema, Revise, Record, ReviseFails, Migrate, InitDb, Stop, Enters, Goes, Ends
    <2>2. db = Absent => stage # "down" /\ todo = {}
        BY <1>4 DEF Schema, Revise, Record, ReviseFails, Migrate, InitDb, Stop, At
    <2> QED BY <1>4, <2>1, <2>2, Opens
<1>5. CASE LoadSalt \/ WriteSalt \/ LoseSalt \/ RestoreSalt
    BY <1>5, FreshIsSalt, AbsentAssumption
       DEF LoadSalt, WriteSalt, LoseSalt, RestoreSalt, At, Goes, Salts, Empty, db
<1>6. CASE Writes
    <2>1. stage \in Keyed /\ stage' \in Keyed \cup {"down"} /\ new'["salt"] = new["salt"]
        BY <1>6, WritesRecord
    <2> QED BY <1>6, <2>1, WritesRecord
<1>7. CASE PowerLoss
    BY <1>7, AbsentAssumption DEF PowerLoss, Ends, Empty, db
<1>8. CASE Rotate
    <2>1. new'["salt"] # Absent
        BY <1>8, Rotates
    <2> QED BY <1>8, <2>1 DEF Rotate, ScriptSalt
<1> QED BY <1>1, <1>2, <1>3, <1>4, <1>5, <1>6, <1>7, <1>8
        DEF Next, StartStep, Bystanders, Schema, Writes

\* Databases with no keys, or the same, are under whatever key they were.
LEMMA NoKeysUnderAny ==
    ASSUME NEW d, d # Absent, NoNewKeys(d) \/ ~Dependent(d), NEW k
    PROVE  UnderKey(d, k)
BY DEF NoNewKeys, Dependent, UnderKey

LEMMA SameUnderKey ==
    ASSUME NEW d, NEW e, NEW k, SameKeys(e, d), UnderKey(d, k)
    PROVE  UnderKey(e, k)
BY DEF SameKeys, UnderKey

\* What is stored stays under the key of the installation, wherever its salt goes.
LEMMA KeyStep ==
    ASSUME IInv, Next
    PROVE  KeyInv'
<1> USE DEF IInv, KeyInv
<1>1. CASE Bystanders
    <2>1. /\ UNCHANGED <<old, new, env, away, excused>>
          /\ unsynced' => unsynced
          /\ allow => allow'
        BY <1>1 DEF Bystanders, Start, StartByHand, EntrypointDone, Guard, SeedSourceFails,
                    SaltReachesDisk, Crash,
                    AllowRegenerate, disk, operators
    <2>2. /\ stage' \in Keyed => stage \in Keyed /\ key' = key
          /\ stage' = "writeSalt" => stage = "writeSalt"
          /\ stage' = "salt" => stage = "salt" \/ SaltPresent
        BY <1>1 DEF Bystanders, Start, StartByHand, EntrypointDone, Guard, SeedSourceFails,
                    SaltReachesDisk, Crash,
                    AllowRegenerate, Enters, Goes, Ends, Keyed
    <2> QED BY <2>1, <2>2 DEF PresentKey, SaltMissing, SaltPresent, Dependent, db, Blameless,
                              UnderKey
<1>2. CASE Move
    <2>1. PICK f \in todo :
            /\ First(f) /\ ~copied
            /\ new' = [new EXCEPT ![f] = old[f]]
            /\ old' = [old EXCEPT ![f] = Absent] \/ old' = old
        BY <1>2 DEF Move
    <2>2. /\ UNCHANGED <<stage, key, env, away, allow, unsynced, excused>>
          /\ stage \in Moving
        BY <1>2 DEF Move, operators, MovesInv
    <2>3. f \in Files /\ DOMAIN new = Files /\ DOMAIN old = Files /\ old[f] # Absent
        BY <2>1 DEF TypeInv, MovesInv
    <2>4. stage \notin Keyed /\ stage # "salt" /\ stage # "writeSalt"
        BY <2>2 DEF Moving, Keyed
    <2>5. CASE f = "db"
        <3>1. /\ db = Absent /\ db' = old["db"] /\ db' \in EarlierDatabases
              /\ new'["salt"] = new["salt"]
            BY <2>1, <2>3, <2>5 DEF MovesInv, TypeInv, db, Files
        <3>2. Dependent(db') => ~SaltMissing \/ away # Absent
            <4>1. "salt" \notin todo
                BY <2>1, <2>5 DEF First, Place
            <4> QED BY <2>2, <2>3, <2>5, <3>1, <4>1 DEF MovesInv, OldInv, Moving, db
        <3>3. Dependent(db') => PresentKey = FirstKey
            BY <3>1, <3>2 DEF PresentKey, SaltMissing, FirstKey
        <3>4. UnderKey(db', PresentKey)
            <4>1. CASE Dependent(db')
                BY <3>1, <3>3, <4>1, EarlierAreDatabases DEF UnderKey
            <4>2. CASE ~Dependent(db')
                BY <2>3, <2>5, <3>1, <4>2, NoKeysUnderAny
            <4> QED BY <4>1, <4>2
        <3> QED BY <2>2, <2>4, <2>3, <2>5, <3>1, <3>4 DEF PresentKey, SaltMissing, UnderKey, db
    <2>6. CASE f = "salt"
        <3>1. /\ SaltMissing /\ new'["salt"] = old["salt"] /\ db' = db
              /\ old'["salt"] \in {old["salt"], Absent}
            BY <2>1, <2>3, <2>6 DEF MovesInv, SaltMissing, db, Files
        <3>2. db # Absent => PresentKey' = PresentKey
            BY <2>2, <2>3, <2>6, <3>1 DEF SaltInv, PresentKey, SaltMissing
        <3> QED BY <2>2, <2>4, <3>1, <3>2 DEF UnderKey, Blameless
    <2>7. CASE f \notin {"db", "salt"}
        <3>1. new'["salt"] = new["salt"] /\ old'["salt"] = old["salt"] /\ db' = db
            BY <2>1, <2>3, <2>7 DEF db, Files
        <3> QED BY <2>2, <2>4, <3>1 DEF UnderKey, Blameless, PresentKey, SaltMissing
    <2> QED BY <2>5, <2>6, <2>7
<1>3. CASE Unlink
    <2>1. /\ UNCHANGED <<new, stage, key, env, away, allow, unsynced, excused>>
          /\ old'["salt"] \in {old["salt"], Absent}
        BY <1>3 DEF Unlink, operators, TypeInv, Files
    <2> QED BY <2>1 DEF UnderKey, Blameless, PresentKey, SaltMissing, Dependent, db
<1>4. CASE Schema
    <2>1. stage' \notin Keyed \cup {"salt", "writeSalt"}
        BY <1>4 DEF Schema, Revise, Record, ReviseFails, Migrate, InitDb, Stop, Enters, Goes, Ends,
                    Keyed
    <2>2. db' # Absent
        BY <1>4, Opens, AbsentAssumption
    <2>3. PresentKey' = PresentKey /\ excused' = excused
        BY <1>4, Opens DEF PresentKey, SaltMissing, operators
    <2>4. ASSUME Blameless
          PROVE  UnderKey(db', PresentKey)
        <3>1. CASE db = Absent
            BY <1>4, <2>2, <3>1, Opens, NoKeysUnderAny
        <3>2. CASE db # Absent
            <4>1. SameKeys(db', db)
                BY <1>4, <3>2, Opens
            <4> QED BY <2>4, <3>2, <4>1, SameUnderKey
        <3> QED BY <3>1, <3>2
    <2> QED BY <2>1, <2>2, <2>3, <2>4 DEF UnderKey, Blameless
<1>5. CASE LoadSalt
    <2>1. db # Absent /\ db' = db /\ UNCHANGED <<env, away, allow, unsynced>>
        BY <1>5 DEF LoadSalt, At, MovesInv, Moving, TypeInv, Files, db, operators
    <2>2. CASE SaltMissing
        <3>1. stage' = "writeSalt" /\ (~Dependent(db) \/ "allowed" \in excused')
            BY <1>5, <2>2 DEF LoadSalt, At, Goes, Replaced
        <3> QED BY <2>1, <3>1, NoKeysUnderAny DEF Blameless, UnderKey, Dependent, Keyed
    <2>3. CASE ~SaltMissing
        <3>1. /\ stage' = "backfill" /\ key' = <<env, new["salt"]>>
              /\ UNCHANGED <<new, excused>>
            BY <1>5, <2>3 DEF LoadSalt, At, Goes
        <3> QED BY <2>1, <2>3, <3>1 DEF Blameless, UnderKey, PresentKey, SaltMissing
    <2> QED BY <2>2, <2>3
<1>6. CASE WriteSalt
    <2>1. /\ db # Absent /\ db' = db /\ UNCHANGED <<env, away, excused>>
          /\ new'["salt"] = NextSalt /\ key' = <<env, NextSalt>> /\ stage' = "backfill"
        BY <1>6 DEF WriteSalt, At, Goes, MovesInv, Moving, TypeInv, Files, db, operators
    <2>2. NextSalt # Absent
        BY <1>6, FreshIsSalt, AbsentAssumption, BoundsAssumption DEF WriteSalt, Salts, Empty
    <2>3. key' = PresentKey'
        BY <2>1, <2>2 DEF PresentKey, SaltMissing
    <2>4. Blameless => ~Dependent(db)
        BY <1>6 DEF WriteSalt, At
    <2> QED BY <2>1, <2>3, <2>4 DEF Blameless, UnderKey, Dependent
<1>7. CASE Writes
    <2>1. /\ stage \in Keyed /\ stage' \in Keyed \cup {"down"}
          /\ db # Absent /\ Records(db') /\ new'["salt"] = new["salt"]
          /\ UNCHANGED <<old, key, operators, unsynced, excused>>
        BY <1>7, WritesRecord DEF Files
    <2>2. PresentKey' = PresentKey /\ key = PresentKey
        BY <2>1 DEF PresentKey, SaltMissing, operators
    <2>3. db' # Absent
        BY <2>1, AbsentAssumption DEF Records
    <2> QED BY <2>1, <2>2, <2>3 DEF Records, UnderKey, Blameless, Keyed
<1>8. CASE PowerLoss
    <2>1. /\ UNCHANGED <<old, env, away, allow>> /\ stage' = "down" /\ db' = db
          /\ ~unsynced => UNCHANGED <<new, excused>> /\ ~unsynced'
          /\ unsynced => excused' = IF Dependent(db) THEN excused \cup {"power"} ELSE excused
        BY <1>8 DEF PowerLoss, Ends, Replaced, TypeInv, Files, db, operators
    <2>2. CASE unsynced
        <3>1. db # Absent
            BY <2>2
        <3> QED BY <2>1, <2>2, <3>1 DEF Blameless, UnderKey, Dependent, Keyed
    <2>3. CASE ~unsynced
        BY <2>1, <2>3 DEF Blameless, UnderKey, PresentKey, SaltMissing, Keyed, db
    <2> QED BY <2>2, <2>3
<1>9. CASE LoseSalt \/ RestoreSalt
    <2>1. /\ UNCHANGED <<old, env, allow, excused>> /\ stage' = "down" /\ db' = db /\ ~unsynced'
          /\ PresentKey' = PresentKey
          /\ {new'["salt"], away'} \subseteq {new["salt"], away, Absent}
        BY <1>9 DEF LoseSalt, RestoreSalt, TypeInv, Files, db, PresentKey, SaltMissing
    <2> QED BY <2>1 DEF Blameless, UnderKey, Keyed
<1>10. CASE Rotate
    <2>1. /\ db # Absent /\ db' # Absent /\ stage' = "down"
          /\ excused \subseteq excused'
          /\ SaltMissing /\ Dependent(db) => "script" \in excused'
        BY <1>10, Rotates, AbsentAssumption DEF Rotate
    <2>2. PresentKey' = <<env', ScriptSalt>>
        BY <1>10, Rotates DEF PresentKey, SaltMissing
    <2>3. ASSUME Blameless'
          PROVE  UnderKey(db, PresentKey)
        BY <2>1, <2>3 DEF Blameless
    <2>4. ASSUME Blameless'
          PROVE  /\ db'.creds \subseteq {PresentKey'}
                 /\ "rotated" \in excused' \/ db'.mfa \cup db'.audit \subseteq {PresentKey'}
        <3>1. CASE SaltMissing
            <4>1. ~Dependent(db)
                BY <2>1, <2>4, <3>1 DEF Blameless
            <4>2. db.creds = {} /\ db.mfa = {} /\ db.audit = {}
                BY <2>1, <4>1 DEF Dependent
            <4> QED BY <1>10, <2>2, <4>2, Rotates
        <3>2. CASE ~SaltMissing
            <4>1. PresentKey = <<env, ScriptSalt>>
                BY <3>2 DEF PresentKey, ScriptSalt
            <4>2. UnderKey(db, PresentKey)
                BY <2>3, <2>4
            <4> QED BY <1>10, <2>1, <2>2, <4>1, <4>2, Rotates DEF UnderKey
        <3> QED BY <3>1, <3>2
    <2> QED BY <2>1, <2>4 DEF UnderKey, Keyed
<1> QED BY <1>1, <1>2, <1>3, <1>4, <1>5, <1>6, <1>7, <1>8, <1>9, <1>10
        DEF Next, StartStep, Bystanders, Schema, Writes

(***************************************************************************)
(* The theorems.                                                           *)
(***************************************************************************)

LEMMA StartupInit ==
    ASSUME Init
    PROVE  IInv
<1>1. TypeInv
    BY BoundsAssumption, EarlierAreDatabases
       DEF Init, TypeInv, NoFiles, Installed, Files, Salts, Empty, Secrets, Stages, db
<1>2. FlagsInv
    BY Zenon DEF Init, FlagsInv
<1>3. MovesInv
    BY DEF Init, MovesInv, Moving
<1>4. OldInv
    BY AbsentAssumption DEF Init, OldInv, NoFiles, Installed, Files
<1>5. NeverWithoutItsSalt /\ SaltInv
    BY AbsentAssumption DEF Init, NeverWithoutItsSalt, SaltInv, NoFiles, Files, Keyed, SaltMissing, db
<1>6. KeyInv
    BY DEF Init, KeyInv, NoFiles, Installed, Files, Keyed, db
<1> QED BY <1>1, <1>2, <1>3, <1>4, <1>5, <1>6 DEF IInv

LEMMA StartupStep ==
    ASSUME IInv, [Next]_vars
    PROVE  IInv'
<1>1. CASE Next
    BY <1>1, FlagsStep, TypeStep, MovesStep, PlacesStep, SaltStep, KeyStep DEF IInv
<1>2. CASE UNCHANGED vars
    BY <1>2 DEF vars, IInv, TypeInv, FlagsInv, MovesInv, OldInv, NeverWithoutItsSalt, SaltInv, KeyInv,
                First, Dependent, PresentKey, SaltMissing, Blameless, UnderKey, db
<1> QED BY <1>1, <1>2

\* The inductive invariant: types, what is still to move, where the salt may be and which
\* key the database is under.
THEOREM SpecIInv == Spec => []IInv
BY StartupInit, StartupStep, PTL DEF Spec

\* Wherever the process died, the database in DATA_DIR has its salt and its journal.
THEOREM SpecNeverWithoutItsSalt == Spec => []NeverWithoutItsSalt
<1>1. IInv => NeverWithoutItsSalt
    BY DEF IInv
<1> QED BY <1>1, SpecIInv, PTL

\* What runs has the key of all that is stored, but for the excuses KeysStay names.
THEOREM SpecKeysStay == Spec => []KeysStay
<1>1. IInv => KeysStay
    BY DEF IInv, TypeInv, MovesInv, KeyInv, KeysStay, Keyed, Moving, Blameless, UnderKey
<1> QED BY <1>1, SpecIInv, PTL

=====
