----------------------------- MODULE SearchIndex -----------------------------
(***************************************************************************)
(* The indexing sweep of the full-text search (search_index.py): one file  *)
(* after the other is read from its source and committed on its own, while *)
(* files grow and rotate and administrators disable, move and delete the   *)
(* sources being swept (api/sources.py).                                   *)
(*                                                                         *)
(* A file stands for its source and path.  A content is known by its size  *)
(* alone, as the connectors report nothing else.                           *)
(***************************************************************************)
EXTENDS Integers, SequencesExt

CONSTANTS
    Sources, NoSource,
    Files,      \* (source, path) pairs
    SourceOf,   \* the source of each
    Contents,   \* what a file may hold
    Absent,     \* no such file, or one that no rule makes visible
    SizeOf,     \* the size of each content
    MaxEvents   \* bound on edits of administrators, crashes, files that come or go

ASSUME SourcesAssumption ==
    NoSource \notin Sources /\ Absent \notin Contents
ASSUME FilesAssumption ==
    /\ IsFiniteSet(Files) /\ SourceOf \in [Files -> Sources]
    /\ SizeOf \in [Contents -> Nat] /\ MaxEvents \in Nat

VARIABLES
    source,     \* "active": enabled and opted in; "off"; "deleted"
    disk,       \* each file's content, at the location the source now has
    rows,       \* search_index_fts: the content each file's rows were made from
    states,     \* SearchIndexState rows, least recently indexed first
    sweep,      \* run_indexing_sweep (max_instances = 1: one at a time)
    mixedUp,    \* history: sources of which a sweep took one file's state for another's
    events      \* how many of those there have been

vars == <<source, disk, rows, states, sweep, mixedUp, events>>

FilesOf(s) == {f \in Files : SourceOf[f] = s}
Active == {s \in Sources : source[s] = "active"}

IdleSweep == [pc |-> "idle", todo |-> {}, cur |-> NoSource, known |-> <<>>,
              listed |-> <<>>, pending |-> <<>>, attempted |-> FALSE,
              content |-> Absent]

Init ==
    /\ source = [s \in Sources |-> "active"]
    /\ disk \in [Files -> Contents \cup {Absent}]
    /\ rows = [f \in Files |-> Absent]
    /\ states = <<>>
    /\ sweep = IdleSweep
    /\ mixedUp = {}
    /\ events = 0

(***************************************************************************)
(* Helpers.                                                                *)
(***************************************************************************)

\* The members of seq that are in kept, in their order.
Kept(seq, kept) ==
    LET first[n \in 0..Len(seq)] ==
            IF n = 0 THEN <<>>
            ELSE IF seq[n] \in kept THEN Append(first[n - 1], seq[n])
            ELSE first[n - 1]
    IN first[Len(seq)]

\* Mutant: delete_source_index leaves the FTS rows.
RowsWithout_none(ss) == rows

\* delete_source_index of the sources ss.
RowsWithout(ss) == [f \in Files |-> IF SourceOf[f] \in ss THEN Absent ELSE rows[f]]
StatesWithout(ss) == Kept(states, {st \in ToSet(states) : SourceOf[st.file] \notin ss})
StatesOf(s) == Kept(states, {st \in ToSet(states) : SourceOf[st.file] = s})

\* The id SQLite gives the next row: SearchIndexState has no AUTOINCREMENT.
NextStateId == Max({0} \cup {st.id : st \in ToSet(states)}) + 1

\* Mutant: changed files are read in the order of their ids, not the oldest first.
PendingOrders_byId(known, listed) ==
    LET new == {f \in DOMAIN listed : \A st \in ToSet(known) : st.file # f}
        changed == {st \in ToSet(known) :
                        st.file \in DOMAIN listed /\ st.size # listed[st.file]}
        ordered == SortSeq(SetToSeq(changed), LAMBDA a, b : a.id < b.id)
    IN {fresh \o [i \in 1..Len(ordered) |-> ordered[i].file] : fresh \in SetToSeqs(new)}

\* The files to read: new ones in the order of the listing, which is left open,
\* then those whose size changed, least recently indexed first.
PendingOrders(known, listed) ==
    LET new == {f \in DOMAIN listed : \A st \in ToSet(known) : st.file # f}
        changed == {i \in DOMAIN known : /\ known[i].file \in DOMAIN listed
                                         /\ known[i].size # listed[known[i].file]}
        Turn(f) == {i \in changed : known[i].file = f}
    IN {order \in SetToSeqs(new \cup {known[i].file : i \in changed}) :
            \A m, n \in DOMAIN order : m < n =>
                \/ order[m] \in new
                \/ order[n] \notin new /\ \A i \in Turn(order[m]), j \in Turn(order[n]) : i < j}

\* Mutant: only deleted sources count as inactive.
Inactive_deleted == {s \in Sources : source[s] = "deleted"}

\* The sources purge_inactive_source_indexes finds: it goes by the states.
Inactive == {SourceOf[st.file] : st \in ToSet(states)} \ Active

\* _record_attempt: the state row known before, whatever file it is of by now, or a
\* new one, gets the size that was listed and becomes the most recent.
AttemptRecorded(f) ==
    LET size == sweep.listed[f]
        previous == {st.id : st \in {k \in ToSet(sweep.known) : k.file = f}}
        found == {i \in 1..Len(states) : states[i].id \in previous}
    IN IF found = {} THEN Append(states, [id |-> NextStateId, file |-> f, size |-> size])
       ELSE LET i == CHOOSE j \in found : TRUE
            IN Append(RemoveAt(states, i), [states[i] EXCEPT !.size = size])

\* Files whose state row has an id under which another file was known.
TakenFrom(known) ==
    {st.file : st \in {t \in ToSet(states) : \E k \in known : k.id = t.id /\ k.file # t.file}}

(***************************************************************************)
(* The sweep.                                                              *)
(***************************************************************************)

\* purge_inactive_source_indexes, then the sources due.
SweepStart ==
    /\ sweep.pc = "idle"
    /\ rows' = RowsWithout(Inactive)
    /\ states' = StatesWithout(Inactive)
    /\ sweep' = [IdleSweep EXCEPT !.pc = "next", !.todo = Active]
    /\ UNCHANGED <<source, disk, mixedUp, events>>

\* index_source: what is known of the source, before the slow part.
IndexLoad(s) ==
    /\ sweep.pc = "next" /\ s \in sweep.todo
    /\ sweep' = [IdleSweep EXCEPT
            !.pc = "loaded", !.todo = sweep.todo \ {s}, !.cur = s,
            !.known = StatesOf(s)]
    /\ UNCHANGED <<source, disk, rows, states, mixedUp, events>>

\* The listing.  Reading a deleted source's columns raises, and so does the except
\* clause that reads its id: the sweep ends there and evaluates no alert.
IndexList ==
    /\ sweep.pc = "loaded"
    /\ \/ /\ source[sweep.cur] = "deleted"
          /\ sweep' = IdleSweep
       \/ /\ source[sweep.cur] # "deleted"
          /\ LET listed == [f \in {g \in FilesOf(sweep.cur) : disk[g] # Absent} |->
                                SizeOf[disk[f]]]
             IN \E pending \in PendingOrders(sweep.known, listed) :
                    sweep' = [sweep EXCEPT !.pc = "files", !.listed = listed,
                                           !.pending = pending]
    /\ UNCHANGED <<source, disk, rows, states, mixedUp, events>>

\* Mutant: _still_indexed is asked once per source and not once per file.
MayReadOn_asked == sweep.attempted \/ source[sweep.cur] = "active"

\* _still_indexed
MayReadOn == source[sweep.cur] = "active"

\* The next file is read, before anything is written; it may turn out unreadable,
\* binary or too large (Absent), and one that a rule hides by now is read all the same.
IndexRead(f) ==
    /\ sweep.pc = "files" /\ sweep.pending # <<>> /\ f = Head(sweep.pending)
    /\ MayReadOn
    /\ \E content \in {Absent} \cup (IF disk[f] = Absent THEN Contents ELSE {disk[f]}) :
        sweep' = [sweep EXCEPT !.pc = "read", !.attempted = TRUE, !.content = content]
    /\ UNCHANGED <<source, disk, rows, states, mixedUp, events>>

\* The source was disabled, opted out or deleted: nothing more is done for it.
IndexStops ==
    /\ sweep.pc = "files" /\ sweep.pending # <<>>
    /\ ~MayReadOn
    /\ sweep' = [IdleSweep EXCEPT !.pc = "next", !.todo = sweep.todo]
    /\ UNCHANGED <<source, disk, rows, states, mixedUp, events>>

\* The rows and the state of one file are committed together.
IndexWrite(f) ==
    /\ sweep.pc = "read" /\ f = Head(sweep.pending)
    /\ rows' = IF sweep.content = Absent THEN rows ELSE [rows EXCEPT ![f] = sweep.content]
    /\ states' = AttemptRecorded(f)
    /\ mixedUp' = IF TakenFrom({st \in ToSet(sweep.known) : st.file = f}) = {} THEN mixedUp
                  ELSE mixedUp \cup {sweep.cur}
    /\ sweep' = [sweep EXCEPT !.pc = "files", !.pending = Tail(@), !.content = Absent]
    /\ UNCHANGED <<source, disk, events>>

\* Files that were known and are not listed any more.
Gone == {st \in ToSet(sweep.known) : st.file \notin DOMAIN sweep.listed}
StatesNotGone == Kept(states, {st \in ToSet(states) : \A g \in Gone : g.id # st.id})

\* Everything was read, or the time is up after a file at least: what is gone is
\* removed, by the ids of the states that were known.
IndexFinish ==
    /\ sweep.pc = "files"
    /\ sweep.pending = <<>> \/ sweep.attempted
    /\ rows' = [f \in Files |-> IF \E st \in Gone : st.file = f THEN Absent ELSE rows[f]]
    /\ states' = StatesNotGone
    /\ mixedUp' = mixedUp \cup {SourceOf[f] : f \in TakenFrom(Gone)}
    /\ sweep' = [IdleSweep EXCEPT !.pc = "next", !.todo = sweep.todo]
    /\ UNCHANGED <<source, disk, events>>

\* The connection fails, or the write lock is not to be had: on to the next source.
\* A failed flush of a skipped file's state leaves a session that raises once more,
\* outside the try: the sweep ends.
IndexFails ==
    /\ \/ /\ \/ sweep.pc \in {"files", "read"}
             \/ sweep.pc = "loaded" /\ source[sweep.cur] # "deleted"
          /\ sweep' = [IdleSweep EXCEPT !.pc = "next", !.todo = sweep.todo]
       \/ /\ sweep.pc = "read" /\ sweep.content = Absent
          /\ sweep' = IdleSweep
    /\ UNCHANGED <<source, disk, rows, states, mixedUp, events>>

\* Every source had its turn.
SweepEnd ==
    /\ sweep.pc = "next" /\ sweep.todo = {}
    /\ sweep' = IdleSweep
    /\ UNCHANGED <<source, disk, rows, states, mixedUp, events>>

(***************************************************************************)
(* Files, administrators, crashes.                                         *)
(***************************************************************************)

\* A file is appended to, or rotated.
FileWritten(f) ==
    /\ disk[f] # Absent
    /\ \E content \in Contents \ {disk[f]} : disk' = [disk EXCEPT ![f] = content]
    /\ UNCHANGED <<source, rows, states, sweep, mixedUp, events>>

\* A file is created or removed, or a rule makes it visible or not.
FileComesOrGoes(f) ==
    /\ events < MaxEvents
    /\ \E content \in IF disk[f] = Absent THEN Contents ELSE {Absent} :
        disk' = [disk EXCEPT ![f] = content]
    /\ events' = events + 1
    /\ UNCHANGED <<source, rows, states, sweep, mixedUp>>

\* update_source disables the source or opts it out, delete_source deletes it: its
\* index goes in the same transaction.
SwitchOff(s, as) ==
    /\ events < MaxEvents /\ source[s] # "deleted"
    /\ source' = [source EXCEPT ![s] = as]
    /\ rows' = RowsWithout({s})
    /\ states' = StatesWithout({s})
    /\ mixedUp' = mixedUp \ {s}
    /\ events' = events + 1
    /\ UNCHANGED <<disk, sweep>>

\* update_source enables the source and opts it in.
SwitchOn(s) ==
    /\ events < MaxEvents /\ source[s] = "off"
    /\ source' = [source EXCEPT ![s] = "active"]
    /\ events' = events + 1
    /\ UNCHANGED <<disk, rows, states, sweep, mixedUp>>

\* update_source gives the source another host or path: other files, a new index.
Relocate(s) ==
    /\ events < MaxEvents /\ source[s] # "deleted"
    /\ \E other \in [FilesOf(s) -> Contents \cup {Absent}] :
        disk' = [f \in Files |-> IF SourceOf[f] = s THEN other[f] ELSE disk[f]]
    /\ rows' = RowsWithout({s})
    /\ states' = StatesWithout({s})
    /\ mixedUp' = mixedUp \ {s}
    /\ events' = events + 1
    /\ UNCHANGED <<source, sweep>>

\* The process dies, and starts again.
Crash ==
    /\ events < MaxEvents /\ sweep.pc # "down"
    /\ sweep' = [IdleSweep EXCEPT !.pc = "down"]
    /\ events' = events + 1
    /\ UNCHANGED <<source, disk, rows, states, mixedUp>>

Boot ==
    /\ sweep.pc = "down"
    /\ sweep' = IdleSweep
    /\ UNCHANGED <<source, disk, rows, states, mixedUp, events>>

Admin(s) == SwitchOff(s, "off") \/ SwitchOff(s, "deleted") \/ SwitchOn(s) \/ Relocate(s)

SweepStep ==
    \/ SweepStart \/ IndexList \/ IndexStops \/ IndexFinish \/ IndexFails \/ SweepEnd
    \/ \E s \in Sources : IndexLoad(s)
    \/ \E f \in Files : IndexRead(f) \/ IndexWrite(f)

Next ==
    \/ SweepStep \/ Crash \/ Boot
    \/ \E s \in Sources : Admin(s)
    \/ \E f \in Files : FileWritten(f) \/ FileComesOrGoes(f)

\* The scheduler keeps starting sweeps and a sweep goes on.  Of a source that is
\* reached again and again, every file can be read and written now and then when it
\* comes first; nothing says that there is time for a second one.
Fairness ==
    /\ WF_vars(Boot) /\ WF_vars(SweepStep)
    /\ \A f \in Files :
        /\ SF_vars(~sweep.attempted /\ IndexRead(f))
        /\ SF_vars(IndexWrite(f))

Spec == Init /\ [][Next]_vars
FairSpec == Spec /\ Fairness

(***************************************************************************)
(* Properties.                                                             *)
(***************************************************************************)

\* The rows of a file are found again by its state row, when the file is gone or its
\* source switched off: it is there, unless the sweep mixed up two files.
IndexedFilesHaveTheirState ==
    \A f \in Files :
        (rows[f] # Absent /\ SourceOf[f] \notin mixedUp) =>
            \E i \in 1..Len(states) : states[i].file = f

\* A source that is switched off while it is swept keeps the rows of one file at the
\* most, the one being read (index_source stops early).
SwitchedOffKeepsOneFile ==
    \A s \in Sources \ Active :
        \A f, g \in FilesOf(s) : rows[f] # Absent /\ rows[g] # Absent => f = g

\* Though a source may run out of time after one file in every sweep and its logs
\* keep changing, each of them is read again and again (#218): files that turn up and
\* go first are as many as the bound allows.
GrowingLogsGetTheirTurn ==
    \A f \in Files :
        []<>(f \in ToSet(sweep.pending)) =>
            []<>(sweep.pc = "read" /\ Head(sweep.pending) = f)

\* index_source: "rows of a source that's no longer indexed are purged by
\* purge_inactive_source_indexes on the next sweep".  The code does not keep it: rows
\* whose state row was given to another file are never found again.
PurgedOnTheNextSweep ==
    [][(sweep.pc = "idle" /\ sweep'.pc = "next") =>
        \A f \in Files : SourceOf[f] \notin Active => rows'[f] = Absent]_vars

\* What it does keep: the next sweep purges every file not mixed up with another,
\* whatever was written for the source after it had been switched off.
PurgedUnlessMixedUp ==
    [][(sweep.pc = "idle" /\ sweep'.pc = "next") =>
        \A f \in Files : SourceOf[f] \notin Active \cup mixedUp => rows'[f] = Absent]_vars

=============================================================================
