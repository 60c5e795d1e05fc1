---------------------------- MODULE ScratchStore ----------------------------
(***************************************************************************)
(* The scratch store (scratch.py) under the requests that use it           *)
(* (api/archive.py): opens held until the browser closes the tab,          *)
(* downloads released once streamed, the two cleanup jobs and a restart,   *)
(* which loses the bookkeeping but not the files.                          *)
(*                                                                         *)
(* Every request fetches into a path of its own, so a request stands for   *)
(* its path too.  File sizes are abstracted to one unit each.              *)
(***************************************************************************)
EXTENDS Integers, FiniteSets

CONSTANTS
    Keys,       \* scratch keys: hashes of source, path and member
    Requests,   \* GET /open and /download requests that need scratch
    Downloads,  \* those that are downloads
    MaxBytes    \* scratch_max_gb, in files

ASSUME DownloadsAssumption == Downloads \subseteq Requests
ASSUME MaxBytesAssumption == MaxBytes \in Nat

VARIABLES
    entries,  \* _entries: paths, refcount, and whether idle_seconds have passed
    files,    \* the scratch directory: the paths that exist
    req,      \* where each request and, for an open, its browser tab is
    key,      \* each request's scratch key
    swept,    \* history: requests whose entry a sweep or a restart took
    robbed,   \* history: requests whose reference another one's release took
    stale     \* history: keys whose entry was released by a request in those two

vars == <<entries, files, req, key, swept, robbed, stale>>

NoEntry == [paths |-> {}, refs |-> 0, idle |-> FALSE]

Init ==
    /\ entries = [k \in Keys |-> NoEntry]
    /\ files = {}
    /\ req = [r \in Requests |-> "new"]
    /\ key \in [Requests -> Keys]
    /\ swept = {} /\ robbed = {} /\ stale = {}

Live == {k \in Keys : entries[k] # NoEntry}

\* The requests whose reference is part of the entry's refcount.
Holders(k) ==
    {r \in entries[k].paths : req[r] # "released"}

(***************************************************************************)
(* The store.                                                              *)
(***************************************************************************)

\* Mutant: a key's second viewer is not counted.
Acquired_uncounted(entry, r) ==
    [paths |-> entry.paths \cup {r}, refs |-> 1, idle |-> FALSE]

\* The entry after acquire: a new path, one reference more, just accessed.
Acquired(entry, r) ==
    [paths |-> entry.paths \cup {r}, refs |-> entry.refs + 1, idle |-> FALSE]

\* Mutant: only one of the entry's files is unlinked.
Unlinked_one(ks) == files \ {CHOOSE p \in entries[k].paths : TRUE : k \in ks}

\* The scratch directory after _delete of the entries ks.
Unlinked(ks) == files \ UNION {entries[k].paths : k \in ks}

\* _delete of the entries ks
Deleted(ks) == [k \in Keys |-> IF k \in ks THEN NoEntry ELSE entries[k]]

\* Mutant: release deletes the entry whoever else holds it.
LastReference_any(k) == TRUE

\* The reference being released is the last one.
LastReference(k) == entries[k].refs <= 1

\* release(key): a no-op without an entry; the entry goes with its last reference.
Release(r) ==
    LET k == key[r]
        overtaken == r \in swept \cup robbed
    IN \/ /\ k \notin Live
          /\ UNCHANGED <<entries, files, swept, robbed, stale>>
       \/ /\ k \in Live /\ ~LastReference(k)
          /\ entries' = [entries EXCEPT ![k].refs = @ - 1]
          /\ stale' = IF overtaken THEN stale \cup {k} ELSE stale
          /\ UNCHANGED <<files, swept, robbed>>
       \/ /\ k \in Live /\ LastReference(k)
          /\ entries' = Deleted({k})
          /\ files' = Unlinked({k})
          /\ robbed' = robbed \cup (Holders(k) \ {r})
          /\ stale' = stale \ {k}
          /\ UNCHANGED swept

(***************************************************************************)
(* A request.                                                              *)
(***************************************************************************)

\* _resolve_content registers the fetch; no file exists yet.
Acquire(r) ==
    /\ req[r] = "new"
    /\ req' = [req EXCEPT ![r] = "acquired"]
    /\ entries' = [entries EXCEPT ![key[r]] = Acquired(@, r)]
    /\ UNCHANGED <<files, key, swept, robbed, stale>>

\* _materialize opens the path for writing, whatever became of the entry.  (The
\* agent collector opens it once more for an old agent's answer.)
FetchWrite(r) ==
    /\ req[r] \in {"acquired", "fetching"}
    /\ req' = [req EXCEPT ![r] = "fetching"]
    /\ files' = files \cup {r}
    /\ UNCHANGED <<entries, key, swept, robbed, stale>>

FetchDone(r) ==
    /\ req[r] = "fetching"
    /\ req' = [req EXCEPT ![r] = "fetched"]
    /\ UNCHANGED <<entries, files, key, swept, robbed, stale>>

\* The connector raises; some of them unlink what they wrote.
FetchFails(r) ==
    /\ req[r] \in {"acquired", "fetching"}
    /\ req' = [req EXCEPT ![r] = "failed"]
    /\ files' \in {files, files \ {r}}
    /\ UNCHANGED <<entries, key, swept, robbed, stale>>

\* The audit event is committed, or that raises and nobody releases the reference.
AuditOpen(r) ==
    /\ req[r] = "fetched"
    /\ \E pc \in {"recorded", "leaked"} : req' = [req EXCEPT ![r] = pc]
    /\ UNCHANGED <<entries, files, key, swept, robbed, stale>>

\* FileResponse opens the file, if it is there: a download streams it, an open's
\* content reaches the browser.  Otherwise it raises, which releases nothing.
Serve(r) ==
    /\ req[r] = "recorded"
    /\ req' = [req EXCEPT ![r] =
                CASE r \notin files -> "leaked"
                  [] r \in files /\ r \in Downloads -> "streaming"
                  [] r \in files /\ r \notin Downloads -> "viewing"]
    /\ UNCHANGED <<entries, files, key, swept, robbed, stale>>

\* The except clause, the response's background task, or POST /close when the
\* browser closes the tab.
ReleaseBy(r) ==
    /\ req[r] \in {"failed", "streaming", "viewing"}
    /\ req' = [req EXCEPT ![r] = "released"]
    /\ Release(r)
    /\ UNCHANGED key

\* The response breaks before its background task, or the browser vanishes or its
\* /close is lost.
Vanish(r) ==
    /\ req[r] \in {"streaming", "viewing"}
    /\ req' = [req EXCEPT ![r] = "leaked"]
    /\ UNCHANGED <<entries, files, key, swept, robbed, stale>>

(***************************************************************************)
(* The jobs, the clock and the process.                                    *)
(***************************************************************************)

\* idle_seconds pass: only acquire ever resets last_accessed.
GrowIdle(k) ==
    /\ k \in Live /\ ~entries[k].idle
    /\ entries' = [entries EXCEPT ![k].idle = TRUE]
    /\ UNCHANGED <<files, req, key, swept, robbed, stale>>

\* Mutant: an entry that somebody holds is not swept.
Stale_unreferenced == {k \in Live : entries[k].idle /\ entries[k].refs = 0}

\* The entries sweep_idle deletes.
Stale == {k \in Live : entries[k].idle}

SweepIdle ==
    /\ Stale # {}
    /\ entries' = Deleted(Stale)
    /\ files' = Unlinked(Stale)
    /\ swept' = swept \cup UNION {entries[k].paths : k \in Stale}
    /\ stale' = stale \ Stale
    /\ UNCHANGED <<req, key, robbed>>

\* total_bytes, as the size guard and the health endpoint count it.
TotalBytes(ks) == Cardinality(files \cap UNION {entries[k].paths : k \in ks})

\* The entries enforce_size_guard may evict.
Candidates == {k \in Live : entries[k].refs = 0}

\* Evicts candidates (in an order left open) until the rest is within the limit.
EnforceSizeGuard ==
    /\ TotalBytes(Live) > MaxBytes
    /\ \E evicted \in SUBSET Candidates :
        /\ evicted = Candidates \/ TotalBytes(Live \ evicted) <= MaxBytes
        /\ entries' = Deleted(evicted)
        /\ files' = Unlinked(evicted)
        /\ swept' = swept \cup UNION {entries[k].paths : k \in evicted}
        /\ stale' = stale \ evicted
    /\ UNCHANGED <<req, key, robbed>>

\* The process restarts: requests under way end, tabs stay open in the browser,
\* the new store knows of no file.
Restart ==
    /\ Live # {}
    /\ entries' = [k \in Keys |-> NoEntry]
    /\ req' = [r \in Requests |->
                IF req[r] \in {"new", "viewing", "released"} THEN req[r] ELSE "leaked"]
    /\ swept' = swept \cup UNION {entries[k].paths : k \in Keys}
    /\ stale' = {}
    /\ UNCHANGED <<files, key, robbed>>

RequestStep(r) ==
    \/ Acquire(r) \/ FetchWrite(r) \/ FetchDone(r) \/ FetchFails(r) \/ AuditOpen(r)
    \/ Serve(r) \/ ReleaseBy(r) \/ Vanish(r)

Next ==
    \/ \E r \in Requests : RequestStep(r)
    \/ \E k \in Keys : GrowIdle(k)
    \/ SweepIdle \/ EnforceSizeGuard \/ Restart

\* Time passes and the scheduler keeps running sweep_idle; nothing is assumed of
\* requests, browsers or the size guard.
Fairness == WF_vars(SweepIdle) /\ \A k \in Keys : WF_vars(GrowIdle(k))

Spec == Init /\ [][Next]_vars
FairSpec == Spec /\ Fairness

(***************************************************************************)
(* Properties.                                                             *)
(***************************************************************************)

\* As long as no request releases an entry that is no longer its own, the refcount
\* is the number of requests that have not released theirs, whichever way they end.
RefsCountHolders ==
    \A k \in Live \ stale : entries[k].refs = Cardinality(Holders(k))

\* A release takes the entry from other holders only when the releasing request, or
\* one before it, no longer had a reference to give back.
OnlyStrayReleasesRob ==
    [][robbed' # robbed =>
        \E r \in Requests :
            /\ req[r] # "released" /\ req'[r] = "released"
            /\ r \in swept \cup robbed \/ key[r] \in stale]_vars

\* A file that the store has forgotten belonged to an entry taken from under its
\* holders: the last release and the sweep themselves leave none behind.
ForgottenFilesLostTheirEntry ==
    \A r \in files :
        (\A k \in Keys : r \notin entries[k].paths) => r \in swept \cup robbed

\* The backstop works: every reference is gone at last, though requests die, browsers
\* vanish and commits fail without releasing theirs.
LeaksAreSwept == \A k \in Keys : (k \in Live) ~> (k \notin Live)

\* release's promise, "delete only when the last viewer closes it": a request that
\* has fetched its file and that no sweep or restart overtook still has it.  The code
\* does not keep it: a release of before a sweep takes the reference of a later open.
OnlyTheLastViewerDeletes ==
    \A r \in Requests \ swept :
        req[r] \in {"fetching", "fetched", "recorded", "streaming", "viewing"} => r \in files

=============================================================================
