----------------------------- MODULE AuditChain -----------------------------
(***************************************************************************)
(* The tamper-evident audit log of PerchTail while it is being written:    *)
(* request threads that append rows inside their own database transaction  *)
(* (audit.py, audit_hash_chain.py), the retention sweep that deletes old   *)
(* rows from the front (audit_purge.py), and process restarts with the     *)
(* backfill of rows that predate the chain.                                *)
(*                                                                         *)
(* A row hash is an HMAC over the row and its predecessor's hash.  It is   *)
(* modelled by the serial number of its computation: two computations      *)
(* never give the same hash and nobody without the key can produce one.    *)
(* SQLite in WAL mode gives one write lock, held from the first write of a *)
(* transaction to its end; SELECTs outside a write transaction each see    *)
(* the state committed at that instant.                                    *)
(***************************************************************************)
EXTENDS Integers, Sequences, FiniteSetsExt

CONSTANTS
    Writers,     \* request threads that write audit rows
    NoWriter,    \* nobody holds the write lock
    Retentions,  \* values the admin may give audit_retention_days (0: keep forever)
    Histories,   \* what the database may hold when this version first boots
    FirstHash,   \* the first serial number for hashes computed by this version
    MaxHash,     \* bound: no hash from this serial number on is computed
    MaxTime      \* bound on the clock

NoHash == 0      \* NULL in prev_hash, row_hash and anchor_hash
NoId   == 0      \* NULL in a row id column

Row == [id: Nat \ {NoId}, at: Nat, prev: Nat, hash: Nat, valid: BOOLEAN]

Statuses == {"unknown", "ok", "broken", "race_breaks"}

ChainState == [anchorId: Nat, anchorHash: Nat, cutoffId: Nat,
               status: Statuses, brokenId: Nat]

\* AuditChainState(): the defaults of a freshly inserted singleton row.
NewChainState == [anchorId |-> NoId, anchorHash |-> NoHash, cutoffId |-> NoId,
                  status |-> "unknown", brokenId |-> NoId]

ASSUME WritersAssumption == NoWriter \notin Writers
ASSUME BoundsAssumption ==
    /\ Retentions \subseteq Nat
    /\ FirstHash \in Nat \ {0} /\ MaxHash \in Nat /\ MaxTime \in Nat

\* Ids grow along the log; AuditLog has no AUTOINCREMENT, but a new row's id is
\* above every id present.
SortedById(rows) == \A i, j \in 1..Len(rows) : i < j => rows[i].id < rows[j].id

\* A database this version may find: a log written by an older version (all rows
\* unhashed, or all hashed before FirstHash), at most one state row, and the time.
ASSUME HistoriesAssumption ==
    \A h \in Histories :
        /\ h.log \in Seq(Row) /\ h.chainStates \in Seq(ChainState)
        /\ Len(h.chainStates) <= 1 /\ h.now \in Nat
        /\ SortedById(h.log)
        /\ \A i \in 1..Len(h.log) : h.log[i].hash < FirstHash
        /\ \/ \A i \in 1..Len(h.log) : h.log[i].hash = NoHash
           \/ \A i \in 1..Len(h.log) : h.log[i].hash # NoHash

VARIABLES
    log,          \* committed AuditLog rows in id order
    chainStates,  \* committed AuditChainState rows in rowid order
    writeLock,    \* the transaction that holds SQLite's write lock
    tx,           \* each writer's transaction
    purge,        \* run_audit_purge_sweep (max_instances = 1: one at a time)
    now,          \* the clock, in days
    nextHash,     \* serial number of the next hash
    up            \* the process runs and has passed its startup

vars == <<log, chainStates, writeLock, tx, purge, now, nextHash, up>>

(***************************************************************************)
(* Reads.                                                                  *)
(***************************************************************************)

\* state.anchor_hash if state else None
AnchorHash(states) == IF states = <<>> THEN NoHash ELSE states[1].anchorHash

\* current_chain_tip: the newest row's hash if it has one, else the anchor's.
CurrentChainTip(rows, states) ==
    IF rows # <<>> /\ rows[Len(rows)].hash # NoHash
    THEN rows[Len(rows)].hash
    ELSE AnchorHash(states)

\* The id SQLite gives the next row.
NextId(rows) == IF rows = <<>> THEN 1 ELSE rows[Len(rows)].id + 1

IdleTx == [pc |-> "idle", at |-> 0, rows |-> <<>>]
NoRow == [id |-> NoId, hash |-> NoHash]
IdlePurge == [pc |-> "idle", cutoff |-> 0, first |-> NoId, newest |-> NoRow,
              stateRow |-> 0]

Init ==
    /\ \E h \in Histories : log = h.log /\ chainStates = h.chainStates /\ now = h.now
    /\ writeLock = NoWriter
    /\ tx = [w \in Writers |-> IdleTx]
    /\ purge = IdlePurge
    /\ nextHash = FirstHash
    /\ up = FALSE

Tick ==
    /\ now < MaxTime
    /\ now' = now + 1
    /\ UNCHANGED <<log, chainStates, writeLock, tx, purge, nextHash, up>>

(***************************************************************************)
(* A request that records audit events.                                    *)
(***************************************************************************)

\* The handler flushes a write of its own first: its transaction takes the lock.
FlushEarlier(w) ==
    /\ up
    /\ tx[w].pc = "idle"
    /\ writeLock = NoWriter
    /\ writeLock' = w
    /\ tx' = [tx EXCEPT ![w].pc = "writing"]
    /\ UNCHANGED <<log, chainStates, purge, now, nextHash, up>>

\* record_audit_event builds the entry: its timestamp is taken here, before the
\* lock and long before the row gets its id.
BuildEntry(w) ==
    /\ up
    /\ tx[w].pc \in {"idle", "writing", "added"}
    /\ tx' = [tx EXCEPT ![w].pc = "built", ![w].at = now]
    /\ UNCHANGED <<log, chainStates, writeLock, purge, now, nextHash, up>>

\* Mutant: chain_new_entry without its no-op UPDATE.
TakeWriteLock_skipped(w) ==
    /\ tx[w].pc = "built"
    /\ tx' = [tx EXCEPT ![w].pc = "locked"]
    /\ UNCHANGED <<log, chainStates, writeLock, purge, now, nextHash, up>>

\* _take_write_lock: joins this transaction's lock or waits for another's.
TakeWriteLock(w) ==
    /\ tx[w].pc = "built"
    /\ writeLock \in {NoWriter, w}
    /\ writeLock' = w
    /\ tx' = [tx EXCEPT ![w].pc = "locked"]
    /\ UNCHANGED <<log, chainStates, purge, now, nextHash, up>>

\* What current_chain_tip sees inside w's transaction: rows it already flushed first.
TipSeenBy(w) ==
    IF tx[w].rows # <<>> THEN tx[w].rows[Len(tx[w].rows)].hash
                         ELSE CurrentChainTip(log, chainStates)

\* chain_new_entry after the lock, then session.add: the row is pending.
ChainNewEntry(w) ==
    /\ tx[w].pc = "locked"
    /\ nextHash < MaxHash
    /\ tx' = [tx EXCEPT
                 ![w].pc = "added",
                 ![w].rows = Append(@, [at |-> tx[w].at, prev |-> TipSeenBy(w),
                                        hash |-> nextHash])]
    /\ nextHash' = nextHash + 1
    /\ UNCHANGED <<log, chainStates, writeLock, purge, now, up>>

\* The pending rows of a transaction as they are inserted after the rows present.
Inserted(rows, pending) ==
    rows \o [k \in 1..Len(pending) |->
                [id |-> NextId(rows) + k - 1, at |-> pending[k].at,
                 prev |-> pending[k].prev, hash |-> pending[k].hash, valid |-> TRUE]]

\* session.commit.  An INSERT needs the lock, so a transaction that has none yet
\* takes it here.
Commit(w) ==
    /\ tx[w].pc \in {"writing", "added"}
    /\ writeLock \in {NoWriter, w}
    /\ log' = Inserted(log, tx[w].rows)
    /\ tx' = [tx EXCEPT ![w] = IdleTx]
    /\ writeLock' = NoWriter
    /\ UNCHANGED <<chainStates, purge, now, nextHash, up>>

\* The request fails (an exception, or "database is locked" after the busy timeout).
Rollback(w) ==
    /\ tx[w].pc # "idle"
    /\ tx' = [tx EXCEPT ![w] = IdleTx]
    /\ writeLock' = IF writeLock = w THEN NoWriter ELSE writeLock
    /\ UNCHANGED <<log, chainStates, purge, now, nextHash, up>>

(***************************************************************************)
(* run_audit_purge_sweep.  Its SELECTs run outside a transaction, so every *)
(* step sees what is committed at that moment.                             *)
(***************************************************************************)

\* prefix_condition: id < first_not_old_id, or true() when no row was young.
InPrefix(row, first) == first = NoId \/ row.id < first

\* The first k rows of the log are those that match prefix_condition.
MatchesPrefix(rows, first, k) ==
    \A i \in 1..Len(rows) : i <= k <=> InPrefix(rows[i], first)

\* Mutant: the boundary is the newest young row instead of the oldest.
PurgeScan_newestYoung ==
    /\ up
    /\ purge.pc = "idle"
    /\ \E days \in Retentions \ {0} :
        LET cutoff == now - days
            young == {log[i].id : i \in {j \in 1..Len(log) : log[j].at >= cutoff}}
        IN purge' = [IdlePurge EXCEPT
                        !.pc = "scanned", !.cutoff = cutoff,
                        !.first = IF young = {} THEN NoId ELSE Max(young)]
    /\ UNCHANGED <<log, chainStates, writeLock, tx, now, nextHash, up>>

\* Retention is on: the cutoff, then the smallest id among rows not old enough.
PurgeScan ==
    /\ up
    /\ purge.pc = "idle"
    /\ \E days \in Retentions \ {0} :
        LET cutoff == now - days
            young == {log[i].id : i \in {j \in 1..Len(log) : log[j].at >= cutoff}}
        IN purge' = [IdlePurge EXCEPT
                        !.pc = "scanned", !.cutoff = cutoff,
                        !.first = IF young = {} THEN NoId ELSE Min(young)]
    /\ UNCHANGED <<log, chainStates, writeLock, tx, now, nextHash, up>>

\* newest_purged, and the state row it will go into if there is one.
PurgePickAnchor ==
    /\ purge.pc = "scanned"
    /\ \E k \in 0..Len(log) :
        /\ MatchesPrefix(log, purge.first, k)
        /\ purge' = [purge EXCEPT
                        !.pc = "picked",
                        !.newest = IF k = 0 THEN NoRow
                                   ELSE [id |-> log[k].id, hash |-> log[k].hash],
                        !.stateRow = IF k # 0 /\ chainStates # <<>> THEN 1 ELSE 0]
    /\ UNCHANGED <<log, chainStates, writeLock, tx, now, nextHash, up>>

WithAnchor(state, newest) ==
    [state EXCEPT !.anchorId = newest.id, !.anchorHash = newest.hash]

\* The state row's UPDATE (or INSERT, if none was found).
AnchorWritten(states) ==
    CASE purge.newest = NoRow -> states
      [] purge.newest # NoRow /\ purge.stateRow = 0 ->
            Append(states, WithAnchor(NewChainState, purge.newest))
      [] purge.newest # NoRow /\ purge.stateRow # 0 ->
            [states EXCEPT ![1] = WithAnchor(@, purge.newest)]

\* Mutant: rows are deleted by age alone, wherever they stand in the log.
PurgeDelete_byAge ==
    /\ purge.pc = "picked"
    /\ writeLock = NoWriter
    /\ chainStates' = AnchorWritten(chainStates)
    /\ log' = SelectSeq(log, LAMBDA row : row.at >= purge.cutoff)
    /\ purge' = IdlePurge
    /\ UNCHANGED <<writeLock, tx, now, nextHash, up>>

\* The anchor is flushed and the prefix deleted in one transaction, which waits
\* for the write lock and re-evaluates only the condition, not the boundary.
PurgeDelete ==
    /\ purge.pc = "picked"
    /\ writeLock = NoWriter
    /\ chainStates' = AnchorWritten(chainStates)
    /\ \E k \in 0..Len(log) :
        /\ MatchesPrefix(log, purge.first, k)
        /\ log' = SubSeq(log, k + 1, Len(log))
    /\ purge' = IdlePurge
    /\ UNCHANGED <<writeLock, tx, now, nextHash, up>>

\* The sweep gives up ("database is locked" after the busy timeout).
PurgeFail ==
    /\ purge.pc # "idle"
    /\ purge' = IdlePurge
    /\ UNCHANGED <<log, chainStates, writeLock, tx, now, nextHash, up>>

(***************************************************************************)
(* Startup and crash.                                                      *)
(***************************************************************************)

Unhashed == {i \in 1..Len(log) : log[i].hash = NoHash}

\* backfill_chain_if_needed: rows without a hash are chained in id order.
BackfilledRow(i) ==
    IF i \notin Unhashed THEN log[i]
    ELSE LET before == {j \in Unhashed : j < i}
         IN [log[i] EXCEPT
                !.prev = IF before = {} THEN CurrentChainTip(log, chainStates)
                         ELSE nextHash + Max(before) - 1,
                !.hash = nextHash + i - 1,
                !.valid = TRUE]

Backfilled == [i \in 1..Len(log) |-> BackfilledRow(i)]

\* lifespan: the backfill is committed before requests and jobs can start.
Boot ==
    /\ ~up
    /\ up' = TRUE
    /\ log' = Backfilled
    /\ nextHash' = IF Unhashed = {} THEN nextHash ELSE nextHash + Len(log)
    /\ UNCHANGED <<chainStates, writeLock, tx, purge, now>>

\* The process dies: SQLite rolls back every open transaction.
Crash ==
    /\ up
    /\ up' = FALSE
    /\ writeLock' = NoWriter
    /\ tx' = [w \in Writers |-> IdleTx]
    /\ purge' = IdlePurge
    /\ UNCHANGED <<log, chainStates, now, nextHash>>

WriterStep(w) ==
    \/ FlushEarlier(w) \/ BuildEntry(w) \/ TakeWriteLock(w)
    \/ ChainNewEntry(w) \/ Commit(w) \/ Rollback(w)

PurgeStep == PurgeScan \/ PurgePickAnchor \/ PurgeDelete \/ PurgeFail

Next ==
    \/ \E w \in Writers : WriterStep(w)
    \/ PurgeStep
    \/ Boot \/ Crash \/ Tick

Spec == Init /\ [][Next]_vars

(***************************************************************************)
(* Properties.                                                             *)
(***************************************************************************)

PendingRow == [at: Nat, prev: Nat, hash: Nat]

\* Every variable has its type; cutoffs may lie before the epoch.
TypeOK ==
    /\ log \in Seq(Row)
    /\ chainStates \in Seq(ChainState)
    /\ writeLock \in Writers \cup {NoWriter}
    /\ tx \in [Writers -> [pc: {"idle", "writing", "built", "locked", "added"},
                           at: Nat, rows: Seq(PendingRow)]]
    /\ purge \in [pc: {"idle", "scanned", "picked"}, cutoff: Int, first: Nat,
                  newest: [id: Nat, hash: Nat], stateRow: {0, 1}]
    /\ now \in Nat
    /\ nextHash \in Nat \ {0}
    /\ up \in BOOLEAN

\* The hash row i has to chain from.
ExpectedPrev(rows, states, i) ==
    IF i = 1 THEN AnchorHash(states) ELSE rows[i - 1].hash

\* The chain never forks (audit_hash_chain.py's concurrency note, #213): however
\* requests interleave, abort and crash, and whatever the sweep deletes, each row
\* hashed by this version chains from the row before it, or from the anchor.
ChainUnforked ==
    \A i \in 1..Len(log) :
        log[i].hash >= FirstHash => log[i].prev = ExpectedPrev(log, chainStates, i)

\* A sweep that saw a young row deletes old rows only, even when timestamps and
\* ids disagree and rows are committed while it runs (audit_purge.py's boundary).
SweepSparesYoungRows ==
    [][(purge.pc = "picked" /\ purge.first # NoId) =>
        \A i \in 1..Len(log) :
            log[i].at >= purge.cutoff =>
                \E j \in 1..Len(log') : log'[j] = log[i]]_vars

\* Rows leave the log only from its front and enter it only at its end, so no
\* hole can open in the middle of the id sequence (only the backfill rewrites rows).
OnlyPrefixesLeave ==
    [][(up /\ log' # log) =>
        \/ /\ Len(log') >= Len(log)
           /\ SubSeq(log', 1, Len(log)) = log
        \/ \E k \in 1..Len(log) : log' = SubSeq(log, k + 1, Len(log))]_vars

\* What audit_purge.py's comment claims of every sweep: only rows older than the
\* cutoff are deleted.  The code does not keep it: a sweep that saw no young
\* row deletes every row, those committed since it looked included.
PurgesOnlyOldRows ==
    [][(purge.pc = "picked" /\ up' /\ log' # log) =>
        \A i \in 1..Len(log) :
            log[i].at >= purge.cutoff =>
                \E j \in 1..Len(log') : log'[j] = log[i]]_vars

=============================================================================
