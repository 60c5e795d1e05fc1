------------------------------- MODULE Alerts -------------------------------
(***************************************************************************)
(* Webhook alerts on new lines of indexed files: evaluate_alerts           *)
(* (alerts.py), which runs in the thread of the indexing sweep and after   *)
(* it, and the requests of api/alerts.py.  A webhook takes time, and       *)
(* meanwhile requests are served.                                          *)
(*                                                                         *)
(* A file stands for its source and path.  Every finished line matches     *)
(* every alert's query; a line that is not finished yet matches none.      *)
(* SearchIndexState.indexed_at is only ever compared with last_checked_at, *)
(* so it is known by the files that were indexed after an alert's check.   *)
(***************************************************************************)
EXTENDS Tables, Sequences

CONSTANTS
    Files,          \* numbered in the order of their sources and paths
    MaxAlerts,      \* bound on the ids
    MaxLines,       \* bound on the lines of a file
    MaxHits,        \* _MAX_HITS_PER_FILE
    MaxSent,        \* _MAX_HITS_PER_WEBHOOK
    MaxEvents       \* bound on requests, on changes of files and on faults

ASSUME FilesAssumption == Files \subseteq Nat
ASSUME BoundsAssumption ==
    /\ MaxAlerts \in Nat /\ MaxLines \in Nat /\ MaxEvents \in Nat
    /\ MaxHits \in Nat \ {0} /\ MaxSent \in Nat \ {0}

VARIABLES
    disk,       \* each file: how often it was rotated, its lines, whether the last is unfinished
    listed,     \* the files there are and no rule hides
    index,      \* the indexed files, each as it was when its rows were made
    source,     \* of each file's source: "on" (enabled and opted in), "paused" (opted in only),
                \* "off" or "deleted"
    owner,      \* of the alerts: whether a super-admin, and the files of sources to see
    alerts,     \* Alert rows by id: enabled, scope (the files of one source, or none for
                \* every source) and the files due
    marks,      \* AlertFileState: by alert id and file, the line reported through and, as
                \* history, the turn it is of and whether the alert of that id set it
    sweep,      \* the evaluation under way
    told,       \* history: by id, the lines the alert's webhook was given
    passed,     \* history: by id, the lines it was not given, for one of the known reasons
    again,      \* history: by id, the lines it may be given again
    events      \* how many of those there have been

alertsVars ==
    <<disk, listed, index, source, owner, alerts, marks, sweep, told, passed, again, events>>

Ids == 1..MaxAlerts
Active == {f \in Files : source[f] = "on"}
Nothing == [f \in {} |-> 0]
Idle == [pc |-> "idle", todo |-> <<>>]

Line(f, content, k) == [file |-> f, turn |-> content.turn, number |-> k]
Finished(content) == 1..(IF content.unfinished THEN content.lines - 1 ELSE content.lines)
Lines(f, content) == {Line(f, content, k) : k \in Finished(content)}
Indexed(fs) == UNION {Lines(f, index[f]) : f \in fs \cap DOMAIN index}

AlertsInit ==
    /\ disk = [f \in Files |-> [turn |-> 0, lines |-> 1, unfinished |-> FALSE]]
    /\ listed = Files
    /\ index = Nothing
    /\ source = [f \in Files |-> "on"]
    /\ owner = [admin |-> FALSE, sees |-> Files]
    /\ \E n \in 0..MaxAlerts :
        alerts = [i \in 1..n |-> [enabled |-> TRUE, scope |-> {}, due |-> {}]]
    /\ marks = [i \in Ids |-> Nothing]
    /\ sweep = Idle
    /\ told = [i \in Ids |-> {}]
    /\ passed = [i \in Ids |-> {}]
    /\ again = [i \in Ids |-> {}]
    /\ events = 0

Event == events < MaxEvents /\ events' = events + 1

(***************************************************************************)
(* Evaluation.                                                             *)
(***************************************************************************)

\* The size of a file is all that the indexer compares.
SameSize(c, d) == c.lines = d.lines /\ c.unfinished = d.unfinished

Changed == {f \in Active \cap listed : f \in DOMAIN index => ~SameSize(index[f], disk[f])}

\* The indexed files that a listing of their source no longer names.
Gone == (Active \cap DOMAIN index) \ listed

\* The lines of these files may be reported again, for their marks go.
Reopened(fs) == [i \in Ids |-> again[i] \cup {l \in told[i] : l.file \in fs}]

\* The enabled alerts, loaded at once.
Enabled == {i \in DOMAIN alerts : alerts[i].enabled}
InOrder(ids) == [n \in 1..Cardinality(ids) |->
                    CHOOSE i \in ids : Cardinality({j \in ids : j < i}) = n - 1]

\* run_indexing_sweep reads some of the files that changed and forgets, with the alerts'
\* marks, those that are gone from a listing; then evaluate_alerts begins.
Sweep ==
    /\ sweep.pc = "idle"
    /\ \E read \in SUBSET Changed, gone \in SUBSET Gone :
        /\ index' = [f \in (DOMAIN index \cup read) \ gone |->
                        IF f \in read THEN disk[f] ELSE index[f]]
        /\ alerts' = [i \in DOMAIN alerts |-> [alerts[i] EXCEPT !.due = (@ \cup read) \ gone]]
        /\ marks' = [i \in Ids |-> Drop(marks[i], gone)]
        /\ again' = Reopened(gone)
    /\ sweep' = [pc |-> "next", todo |-> InOrder(Enabled)]
    /\ UNCHANGED <<disk, listed, source, owner, told, passed, events>>

\* Mutant: a file as long as it was is taken for a new one.
StartAfter_equal(i, f) ==
    IF f \in DOMAIN marks[i] /\ marks[i][f].line < index[f].lines THEN marks[i][f].line ELSE 0

\* Mutant: a file that became shorter is not taken for a new one.
StartAfter_kept(i, f) == IF f \in DOMAIN marks[i] THEN marks[i][f].line ELSE 0

\* The line a changed file is searched after: all of it when it became shorter.
StartAfter(i, f) ==
    IF f \in DOMAIN marks[i] /\ marks[i][f].line <= index[f].lines THEN marks[i][f].line ELSE 0

\* search_file_content_after: the first matches past that line.
HitsIn(i, f) ==
    {Line(f, index[f], k) : k \in {n \in Finished(index[f]) :
        n > StartAfter(i, f) /\ n <= StartAfter(i, f) + MaxHits}}

\* _resolve_alert_source_ids: only a super-admin's alert on every source asks whether a
\* source is enabled.
ScopeOf(i) ==
    {f \in owner.sees : /\ source[f] \in {"on", "paused"}
                        /\ alerts[i].scope # {} => f \in alerts[i].scope
                        /\ owner.admin /\ alerts[i].scope = {} => source[f] = "on"}

\* Of the alerts to do, the first is read afresh, since a commit expired it.
Cur == Head(sweep.todo)
NextUp == [pc |-> "next", todo |-> Tail(sweep.todo)]

\* The except clause reads the id of a row that is gone, and that ends the loop.
EvalGone ==
    /\ sweep.pc = "next" /\ sweep.todo # <<>>
    /\ Cur \notin DOMAIN alerts
    /\ sweep' = Idle
    /\ UNCHANGED <<disk, listed, index, source, owner, alerts, marks, told, passed, again, events>>

\* Nothing in scope: nothing is checked, and last_checked_at stays.
EvalBlocked ==
    /\ sweep.pc = "next" /\ sweep.todo # <<>>
    /\ Cur \in DOMAIN alerts /\ ScopeOf(Cur) = {}
    /\ sweep' = NextUp
    /\ UNCHANGED <<disk, listed, index, source, owner, alerts, marks, told, passed, again, events>>

\* _new_hits_for_source_ids: what changed since the last check, and what of it is new.
EvalRead ==
    /\ sweep.pc = "next" /\ sweep.todo # <<>>
    /\ Cur \in DOMAIN alerts /\ ScopeOf(Cur) # {}
    /\ LET changed == alerts[Cur].due \cap ScopeOf(Cur) \cap DOMAIN index
           hits == UNION {HitsIn(Cur, f) : f \in changed}
       IN sweep' = [pc |-> IF hits = {} THEN "commit" ELSE "send", todo |-> sweep.todo,
                    seen |-> [f \in changed |-> index[f]], known |-> marks[Cur],
                    hits |-> hits, sent |-> FALSE, mine |-> TRUE]
    /\ UNCHANGED <<disk, listed, index, source, owner, alerts, marks, told, passed, again, events>>

\* The hits in the order in which they were found, and those the webhook is given: the
\* others are only counted in it.
FoundBefore(g, h) == g.file < h.file \/ (g.file = h.file /\ g.number < h.number)
Sent == {h \in sweep.hits : Cardinality({g \in sweep.hits : FoundBefore(g, h)}) < MaxSent}

\* send_webhook: whether it worked is not looked at.
SendWebhook ==
    /\ sweep.pc = "send"
    /\ \E works \in BOOLEAN :
        /\ sweep' = [sweep EXCEPT !.pc = "commit", !.sent = works]
        /\ told' = IF works /\ sweep.mine THEN [told EXCEPT ![Cur] = @ \cup Sent] ELSE told
    /\ UNCHANGED <<disk, listed, index, source, owner, alerts, marks, passed, again, events>>

\* Lines that the webhook will not be given although they are indexed, and why.
Lost == IF sweep.sent THEN sweep.hits \ Sent ELSE sweep.hits
Skipped(f) ==
    LET hits == {h \in sweep.hits : h.file = f}
    IN IF Cardinality(hits) < MaxHits THEN {}
       ELSE {l \in Lines(f, sweep.seen[f]) : \A h \in hits : l.number > h.number}
FinishedLater(f) ==
    {Line(f, sweep.seen[f], k) : k \in (1..sweep.seen[f].lines) \ Finished(sweep.seen[f])}
Overlooked(f, content, known) ==
    IF /\ f \in DOMAIN known /\ known[f].line <= content.lines
       /\ known[f].turn # content.turn \/ ~known[f].own
    THEN {l \in Lines(f, content) : l.number <= known[f].line} ELSE {}
PassedOver ==
    IF ~sweep.mine THEN Indexed(Files)
    ELSE Lost \cup Indexed(alerts[Cur].due \ DOMAIN sweep.seen) \cup
         UNION {Skipped(f) \cup FinishedLater(f) \cup Overlooked(f, sweep.seen[f], sweep.known) :
                    f \in DOMAIN sweep.seen}

\* _record_watermarks, for the alert that now has the id: it looks each row up again.
MarksRecorded ==
    [f \in DOMAIN marks[Cur] \cup DOMAIN sweep.seen |->
        IF f \in DOMAIN sweep.seen
        THEN [line |-> sweep.seen[f].lines, turn |-> sweep.seen[f].turn, own |-> sweep.mine]
        ELSE marks[Cur][f]]

EvalCommit ==
    /\ sweep.pc = "commit"
    /\ Cur \in DOMAIN alerts
    /\ marks' = [marks EXCEPT ![Cur] = MarksRecorded]
    /\ alerts' = [alerts EXCEPT ![Cur].due = {}]
    /\ passed' = [passed EXCEPT ![Cur] = @ \cup PassedOver]
    /\ sweep' = NextUp
    /\ UNCHANGED <<disk, listed, index, source, owner, told, again, events>>

MayRepeat == again' = IF sweep.mine THEN [again EXCEPT ![Cur] = @ \cup sweep.hits] ELSE again

\* The writes fail, on an alert that is gone or on the database: the except clause then
\* reads the alert's id before it rolls back, and that ends the loop.
EvalFails ==
    /\ sweep.pc = "commit"
    /\ IF Cur \in DOMAIN alerts THEN Event ELSE UNCHANGED events
    /\ sweep' = Idle
    /\ MayRepeat
    /\ UNCHANGED <<disk, listed, index, source, owner, alerts, marks, told, passed>>

\* A query fails, or something else before the webhook is sent: only this alert is skipped.
EvalSkips ==
    /\ \/ sweep.pc = "next" /\ sweep.todo # <<>> /\ Cur \in DOMAIN alerts
       \/ sweep.pc = "send"
    /\ Event
    /\ sweep' = NextUp
    /\ UNCHANGED <<disk, listed, index, source, owner, alerts, marks, told, passed, again>>

SweepEnds ==
    /\ sweep.pc = "next" /\ sweep.todo = <<>>
    /\ sweep' = Idle
    /\ UNCHANGED <<disk, listed, index, source, owner, alerts, marks, told, passed, again, events>>

Crash ==
    /\ sweep.pc \in {"send", "commit"}
    /\ Event
    /\ sweep' = Idle
    /\ MayRepeat
    /\ UNCHANGED <<disk, listed, index, source, owner, alerts, marks, told, passed>>

(***************************************************************************)
(* Files.  The evaluation does not read them, so they change between       *)
(* sweeps only.                                                            *)
(***************************************************************************)

Written(f, content) ==
    /\ sweep.pc = "idle"
    /\ Event
    /\ disk' = [disk EXCEPT ![f] = content]
    /\ UNCHANGED <<listed, index, source, owner, alerts, marks, sweep, told, passed, again>>

\* A file is moved away or hidden by a rule, or is back as it is by then.
SetListed(f) ==
    /\ sweep.pc = "idle"
    /\ Event
    /\ listed' = IF f \in listed THEN listed \ {f} ELSE listed \cup {f}
    /\ UNCHANGED <<disk, index, source, owner, alerts, marks, sweep, told, passed, again>>

\* A line is added, or as much of it as was flushed.
AppendLine(f) ==
    /\ ~disk[f].unfinished /\ disk[f].lines < MaxLines
    /\ \E unfinished \in BOOLEAN :
        Written(f, [disk[f] EXCEPT !.lines = @ + 1, !.unfinished = unfinished])

FinishLine(f) == disk[f].unfinished /\ Written(f, [disk[f] EXCEPT !.unfinished = FALSE])

Rotate(f) ==
    /\ disk[f].lines > 0
    /\ Written(f, [turn |-> disk[f].turn + 1, lines |-> 0, unfinished |-> FALSE])

(***************************************************************************)
(* Requests.  None is served in the short time between two alerts.         *)
(***************************************************************************)

Request == sweep.pc # "next" /\ Event

Forgotten(i) ==
    /\ told' = [told EXCEPT ![i] = {}]
    /\ passed' = [passed EXCEPT ![i] = {}]
    /\ again' = [again EXCEPT ![i] = {}]

\* A source id that the owner may see, or none: every source.
Scopes == {{}} \cup {{f} : f \in {g \in owner.sees : source[g] # "deleted"}}

CreateAlert ==
    /\ Request
    /\ FreeId(alerts) \in Ids
    /\ \E scope \in Scopes :
        alerts' = Put(alerts, FreeId(alerts),
                      [enabled |-> TRUE, scope |-> scope, due |-> DOMAIN index])
    /\ UNCHANGED <<disk, listed, index, source, owner, marks, sweep, told, passed, again>>

UpdateAlert(i) ==
    /\ Request
    /\ i \in DOMAIN alerts
    /\ \E scope \in Scopes \cup {alerts[i].scope}, enabled \in BOOLEAN :
        alerts' = [alerts EXCEPT ![i].scope = scope, ![i].enabled = enabled]
    /\ UNCHANGED <<disk, listed, index, source, owner, marks, sweep, told, passed, again>>

\* An evaluation of the alert goes on, for whichever alert gets its id.
Evaluated(ids) ==
    IF sweep.pc \in {"send", "commit"} /\ Cur \in ids THEN [sweep EXCEPT !.mine = FALSE] ELSE sweep

DeleteAlert(i) ==
    /\ Request
    /\ i \in DOMAIN alerts
    /\ alerts' = Drop(alerts, {i})
    /\ marks' = [marks EXCEPT ![i] = Nothing]
    /\ sweep' = Evaluated({i})
    /\ Forgotten(i)
    /\ UNCHANGED <<disk, listed, index, source, owner>>

\* An administrator gives the owner sources or takes them away, with the role or the
\* account itself: a super-admin sees all of them.
SetOwner ==
    /\ Request
    /\ \E admin \in BOOLEAN, sees \in SUBSET Files :
        /\ admin => sees = Files
        /\ owner' = [admin |-> admin, sees |-> sees]
    /\ UNCHANGED <<disk, listed, index, source, alerts, marks, sweep, told, passed, again>>

\* delete_source_index: rows, states and watermarks go.
Unindexed(f, rows) ==
    /\ index' = Drop(index, {f})
    /\ alerts' = [i \in DOMAIN rows |-> [rows[i] EXCEPT !.due = @ \ {f}]]

\* update_source: the index goes unless the source is still to be indexed where it was.
UpdateSource(f) ==
    /\ Request
    /\ source[f] # "deleted"
    /\ \E status \in {"on", "paused", "off"} :
        /\ source' = [source EXCEPT ![f] = status]
        /\ IF status = "on" THEN UNCHANGED <<index, alerts, marks, again>>
           ELSE /\ Unindexed(f, alerts)
                /\ marks' = [i \in Ids |-> Drop(marks[i], {f})]
                /\ again' = Reopened({f})
    /\ UNCHANGED <<disk, listed, owner, sweep, told, passed>>

\* The same for another place, where a file of the same name is another one.
MoveSource(f) ==
    /\ Request
    /\ source[f] # "deleted"
    /\ \E n \in 0..MaxLines :
        disk' = [disk EXCEPT ![f] = [turn |-> @.turn + 1, lines |-> n, unfinished |-> FALSE]]
    /\ Unindexed(f, alerts)
    /\ marks' = [i \in Ids |-> Drop(marks[i], {f})]
    /\ again' = Reopened({f})
    /\ UNCHANGED <<listed, source, owner, sweep, told, passed>>

\* delete_source: the alerts that name it go too, but not what they reported elsewhere.
DeleteSource(f) ==
    /\ Request
    /\ source[f] # "deleted"
    /\ source' = [source EXCEPT ![f] = "deleted"]
    /\ LET ids == {i \in DOMAIN alerts : alerts[i].scope = {f}}
       IN /\ Unindexed(f, Drop(alerts, ids))
          /\ marks' = [i \in Ids |->
                LET kept == Drop(marks[i], {f})
                IN IF i \in ids THEN [g \in DOMAIN kept |-> [kept[g] EXCEPT !.own = FALSE]]
                   ELSE kept]
          /\ sweep' = Evaluated(ids)
          /\ told' = [i \in Ids |-> IF i \in ids THEN {} ELSE told[i]]
          /\ passed' = [i \in Ids |-> IF i \in ids THEN {} ELSE passed[i]]
          /\ again' = [i \in Ids |-> IF i \in ids THEN {} ELSE again[i]]
    /\ UNCHANGED <<disk, listed, owner>>

(***************************************************************************)
Evaluate == EvalGone \/ EvalBlocked \/ EvalRead \/ SendWebhook \/ EvalCommit \/ SweepEnds

AlertsNext ==
    \/ Sweep \/ Evaluate \/ EvalFails \/ EvalSkips \/ Crash
    \/ \E f \in Files : AppendLine(f) \/ FinishLine(f) \/ Rotate(f) \/ SetListed(f)
    \/ CreateAlert \/ \E i \in Ids : UpdateAlert(i) \/ DeleteAlert(i)
    \/ SetOwner \/ \E f \in Files : UpdateSource(f) \/ MoveSource(f) \/ DeleteSource(f)

AlertsSpec == AlertsInit /\ [][AlertsNext]_alertsVars

(***************************************************************************)
(* Properties.                                                             *)
(***************************************************************************)

\* Every matching line that is indexed has been reported, or will be as soon as the
\* alert is evaluated, or was passed over for one of these reasons: the webhook failed,
\* it was only counted in a webhook with enough hits, its file had more hits than the
\* limit, the line was indexed before it was finished, its file had been rotated or
\* replaced and had grown past the watermark, it was out of scope when the alert was
\* checked, or the watermark is another alert's.  Nothing else loses one.
EveryMatchAccounted ==
    \A i \in DOMAIN alerts : \A f \in DOMAIN index : \A l \in Lines(f, index[f]) :
        \/ l \in told[i] \cup passed[i]
        \/ f \in alerts[i].due /\ l.number > StartAfter(i, f)
        \/ f \in alerts[i].due /\ l \in Overlooked(f, index[f], marks[i])

\* "A re-indexed file only fires for lines past this point, not every old match again"
\* (models.AlertFileState): no line is reported twice to the same webhook, but for the
\* lines of a check that failed after its webhook, of a source that was switched off or
\* moved, and of a file that was gone from a listing or hidden by a rule meanwhile.
NoRepeats ==
    [][\A i \in Ids : SendWebhook /\ sweep.mine /\ Cur = i =>
        Sent \cap told[i] \subseteq again[i]]_alertsVars

\* "Its per-file progress must not outlive it and silence a later alert's first matches"
\* (delete_alert).  The code does not keep it: an alert created during the webhook of a
\* deleted one gets its id, and with it the progress the check then records.
ProgressIsItsOwn ==
    \A i \in DOMAIN alerts : \A f \in DOMAIN marks[i] : marks[i][f].own
=============================================================================
