--------------------------- MODULE AuditIntegrity ---------------------------
(***************************************************************************)
(* Verification of the audit chain (audit_integrity.py) beside the writers *)
(* and the retention sweep of AuditChain: the scheduled check, the manual  *)
(* one, the recording of known breaks from the #213 race, and out-of-band  *)
(* edits of the database, which the chain exists to reveal.                *)
(***************************************************************************)
EXTENDS AuditChain

CONSTANTS
    Checkers,  \* "job": run_audit_integrity_check; "manual": the requests that
               \* _manual_verify_lock serialises (verify now, known breaks)
    MaxEdits   \* bound on out-of-band edits

ASSUME CheckersAssumption == Checkers \subseteq {"job", "manual"} /\ MaxEdits \in Nat

\* Row hashes are HMACs over the row and its predecessor's hash: no two rows share
\* one, nor does a row have that of a purged row, which the anchor keeps, and the
\* predecessor, where it is in the log, came before.
ASSUME HashesAssumption ==
    \A h \in Histories :
        /\ AnchorHash(h.chainStates) < FirstHash
        /\ \A i \in 1..Len(h.log) :
            /\ h.log[i].prev < FirstHash
            /\ h.log[i].hash # NoHash =>
                /\ h.log[i].hash # AnchorHash(h.chainStates)
                /\ \A j \in 1..Len(h.log) :
                    /\ h.log[j].hash = h.log[i].hash => j = i
                    /\ h.log[j].prev = h.log[i].hash => i < j

VARIABLES
    check,  \* each checker's progress
    notes,  \* metadata of audit.chain.known_breaks_recorded rows, by row hash
    edits   \* history: the out-of-band edits made so far

ivars == <<vars, check, notes, edits>>

(***************************************************************************)
(* The walk.                                                               *)
(***************************************************************************)

\* _recorded_known_breaks: what the recording rows present in the log list.
RecordedIn(rows) ==
    LET entries == {n \in notes : \E i \in 1..Len(rows) : rows[i].hash = n.entry}
    IN [breaks |-> UNION {n.breaks : n \in entries},
        leaves |-> UNION {n.leaves : n \in entries}]

\* earlier: the anchor and the rows before row i, as hash and id.
Earlier(state, rows, i) ==
    (IF state.anchorHash = NoHash THEN {}
     ELSE {[hash |-> state.anchorHash, id |-> state.anchorId]})
    \cup {[hash |-> rows[j].hash, id |-> rows[j].id] :
            j \in {k \in 1..(i - 1) : rows[k].hash # NoHash}}

ParentKnown(state, rows, i) ==
    \E p \in Earlier(state, rows, i) : p.hash = rows[i].prev

\* The id kept for a race break's parent (None when it is not there).
ParentId(state, rows, i) ==
    Max({NoId} \cup {p.id : p \in {q \in Earlier(state, rows, i) : q.hash = rows[i].prev}})

Linked(state, rows, i) ==
    rows[i].prev = IF i = 1 THEN state.anchorHash ELSE rows[i - 1].hash

\* Mutant: a recorded break whose parent was purged is not accepted any more.
AcceptedBreak_parentPurged(state, recorded, rows, i) ==
    \E b \in recorded.breaks :
        /\ b.id = rows[i].id /\ b.hash = rows[i].hash
        /\ ParentKnown(state, rows, i)

\* The row is recorded as a known break, and its parent is there or was purged.
AcceptedBreak(state, recorded, rows, i) ==
    \E b \in recorded.breaks :
        /\ b.id = rows[i].id /\ b.hash = rows[i].hash
        /\ \/ ParentKnown(state, rows, i)
           \/ b.parent # NoId /\ state.anchorId # NoId /\ b.parent <= state.anchorId

\* Mutant: the parent of a race break is not looked up.
RaceBreak_anyParent(state, recorded, rows, i) ==
    /\ rows[i].valid
    /\ ~Linked(state, rows, i)
    /\ ~AcceptedBreak(state, recorded, rows, i)
    /\ state.cutoffId # NoId /\ rows[i].id <= state.cutoffId

\* The signature of the #213 race, not recorded yet.
RaceBreak(state, recorded, rows, i) ==
    /\ rows[i].valid
    /\ ~Linked(state, rows, i)
    /\ ~AcceptedBreak(state, recorded, rows, i)
    /\ ParentKnown(state, rows, i)
    /\ state.cutoffId # NoId /\ rows[i].id <= state.cutoffId

\* Mutant: recorded rows are not looked for after the walk.
MissingRecorded_unchecked(state, recorded, rows) == {}

\* Recorded rows, not purged, that are gone or changed.
MissingRecorded(state, recorded, rows) ==
    {r.id : r \in {x \in {[id |-> b.id, hash |-> b.hash] : b \in recorded.breaks}
                          \cup recorded.leaves :
                    /\ x.id > state.anchorId
                    /\ ~\E i \in 1..Len(rows) :
                            rows[i].id = x.id /\ rows[i].hash = x.hash}}

\* _walk and verify_chain's classification of what it finds.
Walk(state, recorded, rows) ==
    LET races == {i \in 1..Len(rows) : RaceBreak(state, recorded, rows, i)}
        fine  == {i \in 1..Len(rows) :
                    /\ rows[i].valid
                    /\ \/ Linked(state, rows, i)
                       \/ AcceptedBreak(state, recorded, rows, i)}
        tampered == {rows[i].id : i \in (1..Len(rows)) \ (races \cup fine)}
                        \cup MissingRecorded(state, recorded, rows)
        raceBreaks == {[id |-> rows[i].id, hash |-> rows[i].hash,
                        parent |-> ParentId(state, rows, i)] : i \in races}
    IN [status |-> IF tampered # {} THEN "broken"
                   ELSE IF races # {} THEN "race_breaks" ELSE "ok",
        brokenId |-> IF tampered # {} THEN Min(tampered)
                     ELSE IF races # {} THEN Min({b.id : b \in raceBreaks}) ELSE NoId,
        races |-> raceBreaks]

\* _leaf_rows: rows up to the cutoff that nothing chains from, but for the tip.
LeafRows(state, rows, breakIds) ==
    {[id |-> rows[i].id, hash |-> rows[i].hash] : i \in
        {j \in 1..(Len(rows) - 1) :
            /\ rows[j].id <= state.cutoffId
            /\ rows[j].id \notin breakIds
            /\ rows[j].hash # NoHash
            /\ \A k \in 1..Len(rows) : rows[k].prev # rows[j].hash}}

(***************************************************************************)
(* A check, one SELECT at a time.                                          *)
(***************************************************************************)

NoRecord == [breaks |-> {}, leaves |-> {}]
NoResult == [status |-> "unknown", brokenId |-> NoId, races |-> {}]
IdleCheck == [pc |-> "idle", goal |-> "verify", state |-> NewChainState, found |-> FALSE,
              recorded |-> NoRecord, result |-> NoResult, leaves |-> {}, at |-> 0,
              emptied |-> FALSE]

IInit ==
    /\ Init
    /\ check = [c \in Checkers |-> IdleCheck]
    /\ notes = {}
    /\ edits = {}

\* The state row is read first.  Only a manual request can record known breaks.
CheckLoad(c) ==
    /\ up
    /\ check[c].pc = "idle"
    /\ \E goal \in {"verify"} \cup (IF c = "manual" THEN {"record"} ELSE {}) :
        check' = [check EXCEPT ![c] = [IdleCheck EXCEPT
                    !.pc = "loaded", !.goal = goal,
                    !.found = chainStates # <<>>,
                    !.state = IF chainStates = <<>> THEN NewChainState
                              ELSE chainStates[1]]]
    /\ UNCHANGED <<vars, notes, edits>>

\* _recorded_known_breaks
CheckList(c) ==
    /\ check[c].pc = "loaded"
    /\ check' = [check EXCEPT ![c].pc = "listed", ![c].recorded = RecordedIn(log)]
    /\ UNCHANGED <<vars, notes, edits>>

\* The rows are read and classified; a recording stops here (409) without races.
CheckWalk(c) ==
    /\ check[c].pc = "listed"
    /\ LET result == Walk(check[c].state, check[c].recorded, log)
           walked == [check[c] EXCEPT !.pc = "walked", !.recorded = NoRecord]
       IN \/ /\ check[c].goal = "verify"
             /\ check' = [check EXCEPT ![c] =
                            [walked EXCEPT !.result = [result EXCEPT !.races = {}]]]
          \/ /\ check[c].goal = "record" /\ result.races = {}
             /\ check' = [check EXCEPT ![c] = IdleCheck]
          \/ /\ check[c].goal = "record" /\ result.races # {}
             /\ check' = [check EXCEPT ![c] = [walked EXCEPT !.result = result]]
    /\ UNCHANGED <<vars, notes, edits>>

\* A recording reads the leaves with a SELECT of their own, then builds its entry.
CheckLeaves(c) ==
    /\ check[c].pc = "walked" /\ check[c].goal = "record"
    /\ check' = [check EXCEPT
            ![c].pc = "drafted",
            ![c].leaves = LeafRows(check[c].state, log,
                                   {b.id : b \in check[c].result.races}),
            ![c].at = now]
    /\ UNCHANGED <<vars, notes, edits>>

\* _get_or_create_state: a check that found no state row looks again.
CheckReload(c) ==
    /\ check[c].pc = "walked" /\ check[c].goal = "verify" /\ ~check[c].found
    /\ check' = [check EXCEPT ![c].pc = "reloaded",
                              ![c].found = chainStates # <<>>,
                              ![c].state = IF chainStates = <<>> THEN NewChainState
                                           ELSE chainStates[1]]
    /\ UNCHANGED <<vars, notes, edits>>

\* Only the columns whose value changed since the row was loaded are written.
StatusWritten(old, loaded, result) ==
    [old EXCEPT
        !.status = IF result.status = loaded.status THEN @ ELSE result.status,
        !.brokenId = IF result.brokenId = loaded.brokenId THEN @ ELSE result.brokenId]

\* verify_chain's result is committed.
CheckCommit(c) ==
    /\ check[c].goal = "verify"
    /\ check[c].pc = "reloaded" \/ (check[c].pc = "walked" /\ check[c].found)
    /\ writeLock = NoWriter
    /\ chainStates' =
        IF check[c].found
        THEN [chainStates EXCEPT ![1] =
                    StatusWritten(@, check[c].state, check[c].result)]
        ELSE Append(chainStates,
                    StatusWritten(NewChainState, NewChainState, check[c].result))
    /\ check' = [check EXCEPT ![c] = IdleCheck]
    /\ UNCHANGED <<log, writeLock, tx, purge, now, nextHash, up, notes, edits>>

\* What current_chain_tip gives a recording under the lock: the newest row of that moment,
\* but the session's own copy of the state row, loaded when the recording began.
TipRecorded(c) == CurrentChainTip(log, <<check[c].state>>)

\* record_known_breaks from its audit entry on: the lock is taken, the entry is
\* chained, the log is verified again against the state row loaded at the start.
RecordCommit(c) ==
    /\ check[c].goal = "record" /\ check[c].pc = "drafted"
    /\ writeLock = NoWriter
    /\ nextHash < MaxHash
    /\ LET pending == <<[at |-> check[c].at, prev |-> TipRecorded(c), hash |-> nextHash]>>
           note == [entry |-> nextHash, breaks |-> check[c].result.races,
                    leaves |-> check[c].leaves, emptied |-> check[c].emptied]
           listed == RecordedIn(log)
           recorded == [breaks |-> listed.breaks \cup note.breaks,
                        leaves |-> listed.leaves \cup note.leaves]
           rows == Inserted(log, pending)
       IN /\ log' = rows
          /\ notes' = notes \cup {note}
          /\ chainStates' = [chainStates EXCEPT ![1] =
                StatusWritten(@, check[c].state, Walk(check[c].state, recorded, rows))]
    /\ nextHash' = nextHash + 1
    /\ check' = [check EXCEPT ![c] = IdleCheck]
    /\ UNCHANGED <<writeLock, tx, purge, now, up, edits>>

\* The check fails ("database is locked", or any exception).
CheckFail(c) ==
    /\ check[c].pc # "idle"
    /\ check' = [check EXCEPT ![c] = IdleCheck]
    /\ UNCHANGED <<vars, notes, edits>>

(***************************************************************************)
(* Somebody edits the database file without the key.                       *)
(***************************************************************************)

\* Breaks of the chain that no recording row lists.
UnrecordedBreaks ==
    {i \in 1..Len(log) :
        /\ log[i].prev # ExpectedPrev(log, chainStates, i)
        /\ ~\E b \in RecordedIn(log).breaks : b.hash = log[i].hash}

\* settled: nothing has been deleted yet, and every break is recorded.
EditOf(kind, i) ==
    [kind |-> kind, id |-> log[i].id, hash |-> log[i].hash, tip |-> log[Len(log)].hash,
     settled |-> UnrecordedBreaks = {} /\ \A e \in edits : e.kind # "delete"]

\* A column that compute_row_hash covers is changed (the timestamp, by which retention
\* goes, among them): the row's hash no longer fits its content.
EditRow(i) ==
    /\ writeLock = NoWriter
    /\ log[i].valid
    /\ \E at \in {log[i].at, now} : log' = [log EXCEPT ![i].valid = FALSE, ![i].at = at]
    /\ edits' = edits \cup {EditOf("edit", i)}
    /\ UNCHANGED <<chainStates, writeLock, tx, purge, now, nextHash, up, check, notes>>

DeleteRow(i) ==
    /\ writeLock = NoWriter
    /\ log[i].valid
    /\ log' = SubSeq(log, 1, i - 1) \o SubSeq(log, i + 1, Len(log))
    /\ edits' = edits \cup {EditOf("delete", i)}
    /\ UNCHANGED <<chainStates, writeLock, tx, purge, now, nextHash, up, check, notes>>

\* The ids row i can have where it stands.
IdsInPlace(i) ==
    {id \in 1..(log[Len(log)].id + 1) :
        /\ id # log[i].id
        /\ i > 1 => log[i - 1].id < id
        /\ i < Len(log) => id < log[i + 1].id}

\* The id is the one column that the hash does not cover: a row that is renumbered where
\* it stands still fits its hash.  (Not while a sweep has picked its anchor by id; an id
\* that moves the row among the others is not modelled.)
RenumberRow(i) ==
    /\ writeLock = NoWriter
    /\ purge.pc = "idle"
    /\ \E id \in IdsInPlace(i) : log' = [log EXCEPT ![i].id = id]
    /\ edits' = edits \cup {EditOf("renumber", i)}
    /\ UNCHANGED <<chainStates, writeLock, tx, purge, now, nextHash, up, check, notes>>

OutOfBandEdit ==
    /\ Cardinality(edits) < MaxEdits
    /\ \E i \in 1..Len(log) : EditRow(i) \/ DeleteRow(i) \/ RenumberRow(i)

CheckStep(c) ==
    \/ CheckLoad(c) \/ CheckList(c) \/ CheckWalk(c) \/ CheckReload(c)
    \/ CheckCommit(c) \/ CheckLeaves(c) \/ RecordCommit(c) \/ CheckFail(c)

INext ==
    \/ /\ \/ \E w \in Writers : WriterStep(w)
          \/ PurgeScan \/ PurgePickAnchor \/ PurgeFail \/ Boot \/ Tick
       /\ UNCHANGED <<check, notes, edits>>
    \/ /\ PurgeDelete
       /\ check' = [c \in Checkers |->
                    [check[c] EXCEPT
                        !.emptied = @ \/ (check[c].pc # "idle" /\ log' = <<>>)]]
       /\ UNCHANGED <<notes, edits>>
    \/ /\ Crash
       /\ check' = [c \in Checkers |-> IdleCheck]
       /\ UNCHANGED <<notes, edits>>
    \/ \E c \in Checkers : CheckStep(c)
    \/ OutOfBandEdit

ISpec == IInit /\ [][INext]_ivars

(***************************************************************************)
(* Properties.                                                             *)
(***************************************************************************)

CurrentState == IF chainStates = <<>> THEN NewChainState ELSE chainStates[1]

\* What a check would find if nothing moved while it ran.
Verdict == Walk(CurrentState, RecordedIn(log), log)

\* The forks of the history this database started from.
GenuineForks ==
    UNION {{h.log[i].hash : i \in {j \in 1..Len(h.log) :
                h.log[j].prev # ExpectedPrev(h.log, h.chainStates, j)}} : h \in Histories}

\* Every row that the race forked is gone or recorded.
ForksRecorded ==
    \A i \in 1..Len(log) : log[i].hash \in GenuineForks =>
        \E b \in RecordedIn(log).breaks : b.hash = log[i].hash

\* The entry of a recording under which a sweep emptied the log: it chains from an anchor
\* that was no longer the anchor.
Astray(row) == \E n \in notes : n.emptied /\ n.entry = row.hash

\* auth/models.py on the state row: "there is exactly one chain, so exactly one state
\* row".  The code does not keep it: a check and a sweep that both find none insert one
\* each, and the anchor may be in the one that is never read.
OneStateRow == Len(chainStates) <= 1

\* An untouched log whose forks are recorded verifies, whatever retention has deleted of
\* it (parents of breaks, leaves, the recording row itself) and whatever it deleted while
\* a break was being recorded.  Two things excuse the code, and there is no third: a second
\* state row, and an entry that is Astray, for as long as it is there.
UntouchedLogVerifies ==
    /\ up /\ edits = {} /\ ForksRecorded
    /\ OneStateRow
    /\ \A i \in 1..Len(log) : ~Astray(log[i])
    => Verdict.status = "ok"

\* audit_integrity.py: "Status: 'ok' when every break is a recorded known break".  The code
\* does not keep it: where a sweep empties the log under a recording, the recording's own
\* entry is a break that nothing can record.
RecordedLogVerifies == (up /\ edits = {} /\ ForksRecorded) => Verdict.status = "ok"

\* An edited row that is still there is reported, whatever is recorded, purged or
\* edited besides: its content does not fit its hash, and nothing gives it a new one.
EditedRowsAreReported ==
    \A e \in edits : e.kind = "edit" =>
        ((\E i \in 1..Len(log) : log[i].hash = e.hash) => Verdict.status = "broken")

\* Some row has been given another id.
Renumbered == \E e \in edits : e.kind = "renumber"

\* The first row that is deleted is reported, whatever else is deleted, recorded and purged
\* after it, while it is newer than the anchor and the newest row of that time is still
\* there, if every break had been recorded (audit_integrity.py: a deleted leaf goes
\* unnoticed until then) and the ids, which the hash does not cover, are as they were.
DeletedRowsAreReported ==
    \A e \in edits :
        (/\ e.kind = "delete" /\ e.settled /\ e.hash # e.tip
         /\ ~Renumbered /\ e.id > CurrentState.anchorId
         /\ \E i \in 1..Len(log) : log[i].hash = e.tip) => Verdict.status = "broken"

\* Edits of either kind are reported.
EditsAreReported == EditedRowsAreReported /\ DeletedRowsAreReported

\* audit_hash_chain.py: "altering or deleting a row anywhere in the chain changes every
\* hash after it -- detectable by app.audit_integrity.verify_chain()".  The code does not
\* keep it of a row's id, which compute_row_hash leaves out, nor of the newest row.
AnyEditIsReported == edits # {} => Verdict.status = "broken"

\* Only rows that the race forked are ever recorded as known: an edited log gets
\* no row of its own accepted (record_known_breaks).
OnlyForksAreRecorded ==
    \A n \in notes : \A b \in n.breaks : b.hash \in GenuineForks

\* audit_integrity.py, of what is recorded: "From then on the walk accepts exactly those
\* break rows", as long as the recording is there and no sweep emptied the log under it,
\* whatever retention has deleted since.  The code keeps it while the anchor is below the log; once
\* ids have started again below the anchor's, a parent's id says nothing of its age.
RecordedBreaksAccepted ==
    (up /\ edits = {}) =>
        \A n \in notes : (~n.emptied /\ \E k \in 1..Len(log) : log[k].hash = n.entry) =>
            \A b \in n.breaks : \A i \in 1..Len(log) : log[i].hash = b.hash =>
                AcceptedBreak(CurrentState, RecordedIn(log), log, i)

\* audit_purge.py's comment on the anchor: the next check walks from there "instead of
\* this purge itself looking like a tamper break", so a check that runs alone never
\* calls a log broken that nobody edited.  The code does not keep it: a fork whose
\* parent was purged before an administrator recorded it stays broken.
PurgeIsNoTamperBreak == (up /\ edits = {}) => Verdict.status # "broken"

\* audit_purge.py: a purge does not look like a tamper break on the next check,
\* so without edits no check may ever store "broken".
NoFalseAlarm ==
    edits = {} => \A i \in 1..Len(chainStates) : chainStates[i].status # "broken"

=============================================================================
