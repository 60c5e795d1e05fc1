---------------------------- MODULE Files_proofs ----------------------------
(***************************************************************************)
(* What becomes of the content of files.  The scratch store counts the     *)
(* references that are held, and loses files and references only in the    *)
(* ways its properties name: for any keys and requests, sweeps and         *)
(* restarts at any moment and any size limit.  An alert loses no line that *)
(* is indexed, and tells none twice, but for the reasons its properties    *)
(* name: for any files, alerts, requests and faults.                       *)
(***************************************************************************)
EXTENDS ScratchStore, Alerts, FiniteSetTheorems, FunctionTheorems, TLAPS

(***************************************************************************)
(* Scratch store: the inductive invariant.                                 *)
(***************************************************************************)

Entry == [paths: SUBSET Requests, refs: Int, idle: BOOLEAN]

Stages ==
    {"new", "acquired", "fetching", "fetched", "recorded", "failed", "streaming",
     "viewing", "leaked", "released"}

TypeInv ==
    /\ entries \in [Keys -> Entry]
    /\ files \subseteq Requests
    /\ req \in [Requests -> Stages]
    /\ key \in [Requests -> Keys]

\* A path belongs to a request that has acquired this key.
PathsInv == \A k \in Keys : \A r \in entries[k].paths : key[r] = k /\ req[r] # "new"

\* A request that holds a reference is in its entry, or was overtaken.
HeldInv ==
    \A r \in Requests : req[r] \notin {"new", "released"} =>
        r \in swept \cup robbed \/ r \in entries[key[r]].paths

\* So is a file.
FilesInv == \A r \in files : r \in swept \cup robbed \/ r \in entries[key[r]].paths

Counted(k) == k \in Live /\ k \notin stale => entries[k].refs = Cardinality(Holders(k))

RefsInv ==
    /\ \A k \in Keys : IsFiniteSet(entries[k].paths)
    /\ \A k \in Keys : Counted(k)

IInv == TypeInv /\ PathsInv /\ HeldInv /\ FilesInv /\ RefsInv

LEMMA InitInv == Init => IInv
<1> SUFFICES ASSUME Init PROVE IInv
    OBVIOUS
<1>1. TypeInv
    BY DEF Init, TypeInv, NoEntry, Entry, Stages
<1>2. PathsInv /\ HeldInv /\ FilesInv
    BY DEF Init, PathsInv, HeldInv, FilesInv, NoEntry
<1>3. RefsInv
    BY FS_EmptySet DEF Init, RefsInv, Counted, Live, NoEntry
<1> QED BY <1>1, <1>2, <1>3 DEF IInv

(***************************************************************************)
(* Steps that leave the entries alone.                                     *)
(***************************************************************************)

\* A request goes on, without letting go of its reference or taking one.
LEMMA RequestMoves ==
    ASSUME IInv, NEW r \in Requests, NEW stage \in Stages \ {"new", "released"},
           req[r] \notin {"new", "released"}, req' = [req EXCEPT ![r] = stage],
           UNCHANGED <<entries, key, swept, robbed, stale>>,
           files' \subseteq files \cup {r}
    PROVE  IInv'
<1> USE DEF IInv
<1>1. TypeInv'
    BY DEF TypeInv
<1>2. \A q \in Requests : /\ q # r => req'[q] = req[q]
                          /\ req'[q] = "released" <=> req[q] = "released"
                          /\ req'[q] = "new" <=> req[q] = "new"
    BY DEF TypeInv
<1>3. PathsInv'
    BY <1>2 DEF PathsInv, TypeInv, Entry
<1>4. HeldInv'
    BY <1>2 DEF HeldInv
<1>5. FilesInv'
    BY DEF FilesInv, HeldInv
<1>6. RefsInv'
    <2>1. \A k \in Keys : Holders(k)' = Holders(k)
        BY <1>2 DEF Holders, TypeInv, Entry
    <2> QED BY <2>1 DEF RefsInv, Counted, Live
<1> QED BY <1>1, <1>3, <1>4, <1>5, <1>6

LEMMA AcquireKeeps ==
    ASSUME IInv, NEW r \in Requests, Acquire(r)
    PROVE  IInv'
<1> USE DEF IInv
<1>1. PICK k \in Keys : k = key[r]
    BY DEF TypeInv
<1>2. /\ entries' = [entries EXCEPT ![k] = Acquired(@, r)] /\ req' = [req EXCEPT ![r] = "acquired"]
      /\ req[r] = "new" /\ UNCHANGED <<files, key, swept, robbed, stale>>
    BY <1>1 DEF Acquire
<1>3. /\ entries'[k].paths = entries[k].paths \cup {r} /\ entries'[k].refs = entries[k].refs + 1
      /\ entries[k] \in Entry /\ entries'[k] \in Entry
    BY <1>2 DEF TypeInv, Acquired, Entry
<1>4. \A j \in Keys : j # k => entries'[j] = entries[j]
    BY <1>2 DEF TypeInv
<1>5. \A q \in Requests : q # r => req'[q] = req[q]
    BY <1>2 DEF TypeInv
<1>6. req'[r] = "acquired"
    BY <1>2 DEF TypeInv
<1>7. \A j \in Keys : r \notin entries[j].paths
    BY <1>2 DEF PathsInv
<1>8. TypeInv'
    <2>1. entries' \in [Keys -> Entry]
        BY <1>2, <1>3 DEF TypeInv
    <2> QED BY <2>1, <1>2 DEF TypeInv, Stages
<1>9. PathsInv'
    BY <1>1, <1>2, <1>3, <1>4, <1>5, <1>6 DEF PathsInv, TypeInv, Entry
<1>10. HeldInv'
    BY <1>1, <1>2, <1>3, <1>4, <1>5 DEF HeldInv, TypeInv
<1>11. FilesInv'
    BY <1>1, <1>2, <1>3, <1>4 DEF FilesInv, TypeInv
<1>12. ASSUME NEW j \in Keys PROVE IsFiniteSet(entries'[j].paths) /\ Counted(j)'
    <2>1. CASE j # k
        <3>1. Holders(j)' = Holders(j)
            BY <2>1, <1>4, <1>5, <1>7 DEF Holders, TypeInv, Entry
        <3> QED BY <2>1, <3>1, <1>2, <1>4 DEF RefsInv, Counted, Live
    <2>2. CASE j = k
        <3>1. IsFiniteSet(entries[k].paths) /\ IsFiniteSet(entries'[k].paths)
            BY <1>3, FS_AddElement DEF RefsInv
        <3>2. Holders(k)' = Holders(k) \cup {r} /\ r \notin Holders(k)
            BY <1>3, <1>5, <1>6, <1>7 DEF Holders, Entry
        <3>3. IsFiniteSet(Holders(k))
            BY <3>1, FS_Subset DEF Holders
        <3>4. Cardinality(Holders(k)') = Cardinality(Holders(k)) + 1
            BY <3>2, <3>3, FS_AddElement
        <3>5. CASE k \in Live
            BY <2>2, <3>1, <3>4, <3>5, <1>2, <1>3 DEF RefsInv, Counted
        <3>6. CASE k \notin Live
            <4>1. entries[k].refs = 0 /\ entries[k].paths = {}
                BY <3>6 DEF Live, NoEntry
            <4>2. Holders(k) = {}
                BY <4>1 DEF Holders
            <4> QED BY <2>2, <3>1, <3>4, <4>1, <4>2, <1>3, FS_EmptySet DEF Counted
        <3> QED BY <3>5, <3>6
    <2> QED BY <2>1, <2>2
<1> QED BY <1>8, <1>9, <1>10, <1>11, <1>12 DEF RefsInv

LEMMA GrowIdleKeeps ==
    ASSUME IInv, NEW k \in Keys, GrowIdle(k)
    PROVE  IInv'
<1> USE DEF IInv
<1>1. /\ entries' = [entries EXCEPT ![k].idle = TRUE] /\ k \in Live
      /\ UNCHANGED <<files, req, key, swept, robbed, stale>>
    BY DEF GrowIdle
<1>2. \A j \in Keys : /\ entries'[j].paths = entries[j].paths
                      /\ entries'[j].refs = entries[j].refs
                      /\ j # k => entries'[j] = entries[j]
    BY <1>1 DEF TypeInv, Entry
<1>3. TypeInv'
    BY <1>1 DEF TypeInv, Entry
<1>4. PathsInv' /\ HeldInv' /\ FilesInv'
    BY <1>1, <1>2 DEF PathsInv, HeldInv, FilesInv, TypeInv
<1>5. RefsInv'
    <2>1. \A j \in Keys : Holders(j)' = Holders(j)
        BY <1>1, <1>2 DEF Holders
    <2>2. \A j \in Keys : j \in Live' => j \in Live
        BY <1>1, <1>2 DEF Live
    <2> QED BY <2>1, <2>2, <1>1, <1>2 DEF RefsInv, Counted
<1> QED BY <1>3, <1>4, <1>5

(***************************************************************************)
(* Steps that delete entries.                                              *)
(***************************************************************************)

\* Whoever loses the entry with its path is recorded, or lets go itself and leaves
\* no file.
LEMMA DeletionKeeps ==
    ASSUME IInv, NEW S \in SUBSET Keys, entries' = Deleted(S), key' = key,
           files' \subseteq files, swept \subseteq swept', robbed \subseteq robbed',
           req' \in [Requests -> Stages],
           \A q \in Requests : /\ req'[q] = "new" <=> req[q] = "new"
                               /\ req[q] = "released" => req'[q] = "released"
                               /\ key[q] \notin S =>
                                      (req'[q] = "released" <=> req[q] = "released"),
           \A k \in S : \A q \in entries[k].paths :
                q \in swept' \cup robbed' \/ (q \notin files' /\ req'[q] = "released"),
           \A k \in Keys \ S : k \in stale => k \in stale'
    PROVE  IInv'
<1> USE DEF IInv
<1>1. /\ \A k \in S : entries'[k] = NoEntry
      /\ \A k \in Keys \ S : entries'[k] = entries[k]
    BY DEF Deleted
<1>2. TypeInv'
    BY DEF TypeInv, Deleted, NoEntry, Entry
<1>3. PathsInv'
    <2> SUFFICES ASSUME NEW k \in Keys, NEW q \in entries'[k].paths
                 PROVE  key[q] = k /\ req'[q] # "new"
        BY DEF PathsInv
    <2>1. k \notin S
        BY <1>1 DEF NoEntry
    <2>2. q \in entries[k].paths /\ q \in Requests
        BY <2>1, <1>1 DEF TypeInv, Entry
    <2>3. key[q] = k /\ req[q] # "new"
        BY <2>2 DEF PathsInv
    <2> QED BY <2>2, <2>3
<1>4. HeldInv'
    <2> SUFFICES ASSUME NEW q \in Requests, req'[q] \notin {"new", "released"},
                        q \notin swept' \cup robbed'
                 PROVE  q \in entries'[key[q]].paths
        BY DEF HeldInv
    <2>1. q \in entries[key[q]].paths /\ key[q] \in Keys
        <3>1. req[q] \notin {"new", "released"}
            OBVIOUS
        <3> QED BY <3>1 DEF HeldInv, TypeInv
    <2>2. key[q] \notin S
        BY <2>1
    <2> QED BY <2>1, <2>2, <1>1
<1>5. FilesInv'
    <2> SUFFICES ASSUME NEW q \in files', q \notin swept' \cup robbed'
                 PROVE  q \in entries'[key[q]].paths
        BY DEF FilesInv
    <2>1. q \in entries[key[q]].paths /\ key[q] \in Keys
        BY DEF FilesInv, TypeInv
    <2>2. key[q] \notin S
        BY <2>1
    <2> QED BY <2>1, <2>2, <1>1
<1>6. ASSUME NEW k \in Keys PROVE IsFiniteSet(entries'[k].paths) /\ Counted(k)'
    <2>1. CASE k \in S
        BY <2>1, <1>1, FS_EmptySet DEF NoEntry, Counted, Live
    <2>2. CASE k \notin S
        <3>1. Holders(k)' = Holders(k)
            <4>1. \A q \in entries[k].paths : req'[q] = "released" <=> req[q] = "released"
                BY <2>2 DEF PathsInv, TypeInv, Entry
            <4> QED BY <2>2, <4>1, <1>1 DEF Holders
        <3>2. k \in Live' <=> k \in Live
            BY <2>2, <1>1 DEF Live
        <3> QED BY <2>2, <3>1, <3>2, <1>1 DEF RefsInv, Counted
    <2> QED BY <2>1, <2>2
<1> QED BY <1>2, <1>3, <1>4, <1>5, <1>6 DEF RefsInv

\* A release gives back one reference, and the last one takes the entry with it.
LEMMA ReleaseKeeps ==
    ASSUME IInv, NEW r \in Requests, ReleaseBy(r)
    PROVE  IInv'
<1> USE DEF IInv
<1>1. PICK k \in Keys : k = key[r]
    BY DEF TypeInv
<1>2. /\ req' = [req EXCEPT ![r] = "released"] /\ key' = key
      /\ req[r] \notin {"new", "released"}
    BY DEF ReleaseBy
<1>3. /\ req' \in [Requests -> Stages] /\ req'[r] = "released"
      /\ \A q \in Requests : q # r => req'[q] = req[q]
    BY <1>2 DEF TypeInv, Stages
<1>4. \A j \in Keys : j # k => r \notin entries[j].paths
    BY <1>1 DEF PathsInv
<1>5. CASE k \notin Live /\ UNCHANGED <<entries, files, swept, robbed, stale>>
    <2>1. r \notin entries[k].paths
        BY <1>5 DEF Live, NoEntry
    <2>2. \A j \in Keys : Holders(j)' = Holders(j)
        BY <1>3, <1>4, <1>5, <2>1 DEF Holders, TypeInv, Entry
    <2>3. TypeInv' /\ PathsInv'
        BY <1>2, <1>3, <1>5 DEF TypeInv, PathsInv
    <2>4. HeldInv' /\ FilesInv'
        BY <1>2, <1>3, <1>5 DEF HeldInv, FilesInv, TypeInv
    <2>5. RefsInv'
        BY <1>5, <2>2 DEF RefsInv, Counted, Live
    <2> QED BY <2>3, <2>4, <2>5
<1>6. CASE /\ k \in Live /\ entries' = [entries EXCEPT ![k].refs = @ - 1]
           /\ stale' = IF r \in swept \cup robbed THEN stale \cup {k} ELSE stale
           /\ UNCHANGED <<files, swept, robbed>>
    <2>1. \A j \in Keys : /\ entries'[j].paths = entries[j].paths
                          /\ entries'[j] \in Entry
                          /\ j # k => entries'[j] = entries[j]
        BY <1>6 DEF TypeInv, Entry
    <2>2. entries'[k].refs = entries[k].refs - 1
        BY <1>6 DEF TypeInv, Entry
    <2>3. TypeInv'
        <3>1. entries' \in [Keys -> Entry]
            BY <1>6 DEF TypeInv, Entry
        <3> QED BY <3>1, <1>2, <1>3, <1>6 DEF TypeInv
    <2>4. PathsInv'
        <3>1. \A q \in Requests : req'[q] = "new" => req[q] = "new"
            BY <1>3
        <3> QED BY <1>2, <3>1, <2>1 DEF PathsInv, TypeInv, Entry
    <2>5. HeldInv' /\ FilesInv'
        BY <1>2, <1>3, <1>6, <2>1 DEF HeldInv, FilesInv, TypeInv
    <2>6. ASSUME NEW j \in Keys PROVE IsFiniteSet(entries'[j].paths) /\ Counted(j)'
        <3>1. CASE j # k
            <4>1. Holders(j)' = Holders(j)
                BY <3>1, <1>3, <1>4, <2>1 DEF Holders, TypeInv, Entry
            <4> QED BY <3>1, <4>1, <1>6, <2>1 DEF RefsInv, Counted, Live
        <3>2. CASE j = k /\ r \notin swept \cup robbed
            <4>1. r \in entries[k].paths
                BY <3>2, <1>1, <1>2 DEF HeldInv
            <4>2. Holders(k)' = Holders(k) \ {r} /\ r \in Holders(k)
                BY <4>1, <1>2, <1>3, <2>1 DEF Holders, TypeInv, Entry
            <4>3. IsFiniteSet(Holders(k))
                BY FS_Subset DEF Holders, RefsInv
            <4>4. Cardinality(Holders(k)') = Cardinality(Holders(k)) - 1
                BY <4>2, <4>3, FS_RemoveElement
            <4> QED BY <3>2, <4>4, <1>6, <2>1, <2>2 DEF RefsInv, Counted
        <3>3. CASE j = k /\ r \in swept \cup robbed
            BY <3>3, <1>6, <2>1 DEF RefsInv, Counted
        <3> QED BY <3>1, <3>2, <3>3
    <2> QED BY <2>3, <2>4, <2>5, <2>6 DEF RefsInv
<1>7. CASE /\ entries' = Deleted({k}) /\ files' = Unlinked({k})
           /\ robbed' = robbed \cup (Holders(k) \ {r}) /\ stale' = stale \ {k}
           /\ UNCHANGED swept
    <2>1. files' \subseteq files \ entries[k].paths
        BY <1>7 DEF Unlinked
    <2>2. \A q \in entries[k].paths :
            q \in swept' \cup robbed' \/ (q \notin files' /\ req'[q] = "released")
        BY <1>3, <1>7, <2>1 DEF Holders, TypeInv, Entry
    <2>3. \A q \in Requests : /\ req'[q] = "new" <=> req[q] = "new"
                              /\ req[q] = "released" => req'[q] = "released"
                              /\ key[q] \notin {k} =>
                                      (req'[q] = "released" <=> req[q] = "released")
        BY <1>1, <1>2, <1>3
    <2> HIDE DEF IInv
    <2> QED BY <1>2, <1>3, <1>7, <2>1, <2>2, <2>3, DeletionKeeps
<1> QED BY <1>1, <1>5, <1>6, <1>7 DEF ReleaseBy, Release

\* A sweep records whose entry it takes.
LEMMA SweepKeeps ==
    ASSUME IInv, NEW S \in SUBSET Keys, entries' = Deleted(S), files' = Unlinked(S),
           swept' = swept \cup UNION {entries[k].paths : k \in S}, stale' = stale \ S,
           UNCHANGED <<req, key, robbed>>
    PROVE  IInv'
<1>1. req' \in [Requests -> Stages]
    BY DEF IInv, TypeInv
<1>2. files' \subseteq files
    BY DEF Unlinked
<1>3. \A k \in S : \A q \in entries[k].paths : q \in swept'
    OBVIOUS
<1> QED BY <1>1, <1>2, <1>3, DeletionKeeps

\* A restart loses every entry and no file.
LEMMA RestartKeeps ==
    ASSUME IInv, Restart
    PROVE  IInv'
<1>1. entries' = Deleted(Keys)
    BY DEF Restart, Deleted
<1>2. /\ req' \in [Requests -> Stages]
      /\ \A q \in Requests : /\ req'[q] = "new" <=> req[q] = "new"
                             /\ req'[q] = "released" <=> req[q] = "released"
    BY DEF Restart, IInv, TypeInv, Stages
<1>3. \A k \in Keys : \A q \in entries[k].paths : q \in swept'
    BY DEF Restart
<1>4. files' = files /\ key' = key /\ robbed' = robbed /\ swept \subseteq swept'
    BY DEF Restart
<1> QED BY <1>1, <1>2, <1>3, <1>4, DeletionKeeps

LEMMA NextInv == IInv /\ [Next]_vars => IInv'
<1> SUFFICES ASSUME IInv, [Next]_vars PROVE IInv'
    OBVIOUS
<1>1. CASE UNCHANGED vars
    BY <1>1 DEF vars, IInv, TypeInv, PathsInv, HeldInv, FilesInv, RefsInv, Counted, Live,
        Holders
<1>2. CASE \E r \in Requests : RequestStep(r)
    <2> PICK r \in Requests : RequestStep(r)
        BY <1>2
    <2>1. CASE Acquire(r)
        BY <2>1, AcquireKeeps
    <2>2. CASE FetchWrite(r) \/ FetchDone(r) \/ FetchFails(r)
        BY <2>2, RequestMoves DEF FetchWrite, FetchDone, FetchFails, Stages
    <2>3. CASE AuditOpen(r)
        BY <2>3, RequestMoves DEF AuditOpen, Stages
    <2>4. CASE Serve(r)
        <3> PICK stage \in {"leaked", "streaming", "viewing"} :
                req' = [req EXCEPT ![r] = stage]
            BY <2>4 DEF Serve
        <3> QED BY <2>4, RequestMoves DEF Serve, Stages
    <2>5. CASE Vanish(r)
        BY <2>5, RequestMoves DEF Vanish, Stages
    <2>6. CASE ReleaseBy(r)
        BY <2>6, ReleaseKeeps
    <2> QED BY <2>1, <2>2, <2>3, <2>4, <2>5, <2>6 DEF RequestStep
<1>3. CASE \E k \in Keys : GrowIdle(k)
    BY <1>3, GrowIdleKeeps
<1>4. CASE SweepIdle
    <2>1. Stale \in SUBSET Keys
        BY DEF Stale, Live
    <2> QED BY <1>4, <2>1, SweepKeeps DEF SweepIdle
<1>5. CASE EnforceSizeGuard
    <2>1. PICK evicted \in SUBSET Candidates :
            /\ entries' = Deleted(evicted) /\ files' = Unlinked(evicted)
            /\ swept' = swept \cup UNION {entries[k].paths : k \in evicted}
            /\ stale' = stale \ evicted
        BY <1>5 DEF EnforceSizeGuard
    <2>2. evicted \in SUBSET Keys
        BY DEF Candidates, Live
    <2> QED BY <1>5, <2>1, <2>2, SweepKeeps DEF EnforceSizeGuard
<1>6. CASE Restart
    BY <1>6, RestartKeeps
<1> QED BY <1>1, <1>2, <1>3, <1>4, <1>5, <1>6 DEF Next

(***************************************************************************)
(* The theorems.                                                           *)
(***************************************************************************)

\* The inductive invariant: a reference that is held or a file that exists belongs to
\* its key's entry, or was taken from it on record, and the refcount counts them.
THEOREM SpecIInv == Spec => []IInv
<1> QED BY InitInv, NextInv, PTL DEF Spec

\* Whatever requests, sweeps and restarts do, the refcount of scratch.py is the number
\* of holders until a request releases an entry that is no longer its own.
THEOREM SpecRefsCountHolders == Spec => []RefsCountHolders
<1>1. IInv => RefsCountHolders
    BY DEF IInv, RefsInv, Counted, RefsCountHolders, Live
<1> QED BY <1>1, SpecIInv, PTL

\* A file the store knows nothing of was left by a sweep or a restart that overtook its
\* request, or by a release that took another's entry.
THEOREM SpecForgottenFiles == Spec => []ForgottenFilesLostTheirEntry
<1>1. IInv => ForgottenFilesLostTheirEntry
    BY DEF IInv, TypeInv, FilesInv, ForgottenFilesLostTheirEntry
<1> QED BY <1>1, SpecIInv, PTL

\* A release that takes an entry from under others was itself overtaken, or came after
\* one that was.
THEOREM SpecOnlyStrayReleasesRob == Spec => OnlyStrayReleasesRob
<1> DEFINE Stray == robbed' # robbed =>
        \E r \in Requests :
            /\ req[r] # "released" /\ req'[r] = "released"
            /\ r \in swept \cup robbed \/ key[r] \in stale
<1>1. ASSUME IInv, [Next]_vars, robbed' # robbed PROVE Stray
    <2>1. PICK r \in Requests : ReleaseBy(r)
        BY <1>1 DEF vars, Next, RequestStep, Acquire, FetchWrite, FetchDone, FetchFails,
            AuditOpen, Serve, Vanish, GrowIdle, SweepIdle, EnforceSizeGuard, Restart
    <2>2. PICK k \in Keys : k = key[r]
        BY <1>1 DEF IInv, TypeInv
    <2>3. /\ k \in Live /\ entries[k].refs <= 1 /\ entries[k].refs \in Int
          /\ robbed' = robbed \cup (Holders(k) \ {r})
        BY <1>1, <2>1, <2>2 DEF ReleaseBy, Release, LastReference, IInv, TypeInv, Entry
    <2>4. req[r] \notin {"new", "released"} /\ req'[r] = "released"
        BY <1>1, <2>1 DEF ReleaseBy, IInv, TypeInv
    <2>5. ASSUME r \notin swept \cup robbed, k \notin stale PROVE FALSE
        <3>1. r \in Holders(k)
            BY <1>1, <2>2, <2>4, <2>5 DEF IInv, HeldInv, Holders
        <3>2. IsFiniteSet(Holders(k)) /\ entries[k].refs = Cardinality(Holders(k))
            BY <1>1, <2>3, <2>5, FS_Subset DEF IInv, RefsInv, Counted, Holders
        <3>3. IsFiniteSet(Holders(k) \ {r})
              /\ Cardinality(Holders(k) \ {r}) = Cardinality(Holders(k)) - 1
            BY <3>1, <3>2, FS_RemoveElement
        <3>4. Cardinality(Holders(k) \ {r}) = 0
            BY <2>3, <3>2, <3>3, FS_CardinalityType
        <3>5. Holders(k) \ {r} = {}
            BY <3>3, <3>4, FS_EmptySet
        <3> QED BY <1>1, <2>3, <3>5
    <2> QED BY <2>2, <2>4, <2>5
<1>2. IInv /\ [Next]_vars => [Stray]_vars
    BY <1>1
<1> QED BY <1>2, SpecIInv, PTL DEF Spec, OnlyStrayReleasesRob

(***************************************************************************)
(* Alerts: the inductive invariant.                                        *)
(***************************************************************************)

Content == [turn: Nat, lines: Nat, unfinished: BOOLEAN]
Mark == [line: Nat, turn: Nat, own: BOOLEAN]
Numbered == [file: Files, turn: Nat, number: Nat]

\* A table of files.
OfFiles(table, S) == DOMAIN table \subseteq Files /\ \A f \in DOMAIN table : table[f] \in S

Evaluating == sweep.pc \in {"send", "commit"}

\* The rows of the database and what was made of the files; the history variables are
\* sets of lines.
TablesInv ==
    /\ OfFiles(disk, Content) /\ DOMAIN disk = Files
    /\ OfFiles(index, Content)
    /\ DOMAIN source = Files
    /\ DOMAIN alerts \subseteq Ids
    /\ \A i \in DOMAIN alerts : DOMAIN alerts[i] = {"enabled", "scope", "due"}
    /\ DOMAIN marks = Ids /\ \A i \in Ids : OfFiles(marks[i], Mark)
    /\ DOMAIN told = Ids /\ \A i \in Ids : told[i] \subseteq Numbered
    /\ DOMAIN passed = Ids /\ DOMAIN again = Ids

\* The line after which an evaluation searches a file.
After(f) ==
    IF f \in DOMAIN sweep.known /\ sweep.known[f].line <= sweep.seen[f].lines
    THEN sweep.known[f].line ELSE 0

\* What the evaluation of an alert carries.
EvaluationInv ==
    /\ sweep.pc \in {"idle", "next", "send", "commit"}
    /\ Evaluating =>
        /\ DOMAIN sweep = {"pc", "todo", "seen", "known", "hits", "sent", "mine"}
        /\ Cur \in Ids
        /\ OfFiles(sweep.seen, Content) /\ OfFiles(sweep.known, Mark)
        /\ sweep.mine \in BOOLEAN /\ sweep.sent \in BOOLEAN
        /\ sweep.hits = UNION {{Line(f, sweep.seen[f], k) : k \in
                {n \in Finished(sweep.seen[f]) : n > After(f) /\ n <= After(f) + MaxHits}} :
                    f \in DOMAIN sweep.seen}
        /\ \A f \in DOMAIN sweep.seen \cap DOMAIN index : sweep.seen[f] = index[f]
        /\ sweep.mine => Cur \in DOMAIN alerts
        /\ ~sweep.mine => told[Cur] = {}

\* Everything up to a mark that is the alert's own was reported or passed over.
UpTo(f, mark) == {Line(f, mark, k) : k \in 1..mark.line}
Accounted(i, table) ==
    \A f \in DOMAIN table : table[f].own => UpTo(f, table[f]) \subseteq told[i] \cup passed[i]

\* And so was every line of a file that is not due.
AccountsInv ==
    /\ \A i \in Ids : Accounted(i, marks[i])
    /\ Evaluating /\ sweep.mine => Accounted(Cur, sweep.known)
    /\ Evaluating /\ sweep.mine /\ sweep.sent => Sent \subseteq told[Cur]
    /\ \A i \in DOMAIN alerts : \A f \in DOMAIN index \ alerts[i].due :
        Lines(f, index[f]) \subseteq told[i] \cup passed[i]

\* Files are rotated and grow: a later content has a later turn, or as many lines.
NotAfter(turn, n, content) == turn < content.turn \/ (turn = content.turn /\ n <= content.lines)

GrowthInv ==
    /\ \A f \in DOMAIN index : NotAfter(index[f].turn, index[f].lines, disk[f])
    /\ \A i \in Ids : \A f \in DOMAIN marks[i] :
        /\ NotAfter(marks[i][f].turn, marks[i][f].line, disk[f])
        /\ f \in DOMAIN index => NotAfter(marks[i][f].turn, marks[i][f].line, index[f])
    /\ Evaluating => \A f \in DOMAIN sweep.seen :
        /\ NotAfter(sweep.seen[f].turn, sweep.seen[f].lines, disk[f])
        /\ f \in DOMAIN marks[Cur] =>
            NotAfter(marks[Cur][f].turn, marks[Cur][f].line, sweep.seen[f])

\* A line that was told is behind the mark, unless its commit is still to come.
Behind(l, mark) == l.turn < mark.turn \/ (l.turn = mark.turn /\ l.number <= mark.line)

RepeatsInv ==
    /\ \A i \in Ids : \A l \in told[i] \ again[i] : source[l.file] # "deleted" =>
        \/ sweep.pc = "commit" /\ sweep.mine /\ Cur = i /\ l \in sweep.hits
        \/ l.file \in DOMAIN marks[i] /\ Behind(l, marks[i][l.file])
    /\ sweep.pc = "send" /\ sweep.mine => sweep.hits \cap told[Cur] \subseteq again[Cur]

AlertsInv == TablesInv /\ EvaluationInv /\ AccountsInv /\ GrowthInv /\ RepeatsInv

(***************************************************************************)
(* Alerts: the steps.                                                      *)
(***************************************************************************)

LEMMA AlertsInitially == AlertsInit => AlertsInv
<1> SUFFICES ASSUME AlertsInit PROVE AlertsInv
  OBVIOUS
<1>1. DOMAIN index = {} /\ \A i \in Ids : DOMAIN marks[i] = {} /\ told[i] = {}
  BY DEF AlertsInit, Nothing
<1>2. TablesInv
  BY <1>1, BoundsAssumption DEF AlertsInit, TablesInv, OfFiles, Content, Ids
<1>3. sweep.pc = "idle"
  BY DEF AlertsInit, Idle
<1> QED BY <1>1, <1>2, <1>3 DEF AlertsInv, EvaluationInv, Evaluating, AccountsInv, Accounted,
                                GrowthInv, RepeatsInv

\* What a step does that ends an evaluation, or passes to the next, without a commit.
LEMMA NoEvaluation ==
    ASSUME AlertsInv, sweep'.pc \in {"idle", "next"},
           UNCHANGED <<disk, index, source, alerts, marks, told, passed>>,
           DOMAIN again' = Ids /\ \A i \in Ids : again[i] \subseteq again'[i],
           sweep.pc = "commit" /\ sweep.mine => sweep.hits \subseteq again'[Cur]
    PROVE  AlertsInv'
<1>1. ~Evaluating' /\ sweep'.pc # "commit" /\ sweep'.pc # "send"
  BY DEF Evaluating
<1>2. TablesInv'
  BY DEF AlertsInv, TablesInv
<1>3. EvaluationInv'
  BY <1>1 DEF EvaluationInv
<1>4. AccountsInv'
  BY <1>1 DEF AlertsInv, AccountsInv, Accounted, Lines, Line, Finished, UpTo
<1>5. GrowthInv'
  BY <1>1 DEF AlertsInv, GrowthInv
<1>6. RepeatsInv'
  <2> SUFFICES ASSUME NEW i \in Ids, NEW l \in told[i] \ again'[i], source[l.file] # "deleted"
               PROVE  l.file \in DOMAIN marks[i] /\ Behind(l, marks[i][l.file])
    BY <1>1 DEF RepeatsInv, Behind
  <2>1. l \notin again[i]
    OBVIOUS
  <2> QED BY <2>1 DEF AlertsInv, RepeatsInv
<1> QED BY <1>2, <1>3, <1>4, <1>5, <1>6 DEF AlertsInv

LEMMA PassingKeeps ==
    ASSUME AlertsInv, EvalGone \/ EvalBlocked \/ SweepEnds
    PROVE  AlertsInv'
<1>1. /\ sweep'.pc \in {"idle", "next"} /\ sweep.pc = "next"
      /\ UNCHANGED <<disk, index, source, alerts, marks, told, passed, again>>
  BY DEF EvalGone, EvalBlocked, SweepEnds, Idle, NextUp
<1>2. DOMAIN again = Ids
  BY DEF AlertsInv, TablesInv
<1> QED BY <1>1, <1>2, NoEvaluation

LEMMA FailureKeeps ==
    ASSUME AlertsInv, EvalFails \/ Crash
    PROVE  AlertsInv'
<1>1. /\ sweep'.pc \in {"idle", "next"} /\ MayRepeat
      /\ UNCHANGED <<disk, index, source, alerts, marks, told, passed>>
  BY DEF EvalFails, Crash, Idle, NextUp
<1>2. DOMAIN again = Ids
  BY DEF AlertsInv, TablesInv
<1>3. Cur \in Ids
  BY DEF EvalFails, Crash, AlertsInv, EvaluationInv, Evaluating
<1>4. DOMAIN again' = Ids /\ \A i \in Ids : again[i] \subseteq again'[i]
  BY <1>1, <1>2, <1>3 DEF MayRepeat
<1>5. sweep.mine => sweep.hits \subseteq again'[Cur]
  BY <1>1, <1>2, <1>3 DEF MayRepeat
<1> QED BY <1>1, <1>4, <1>5, NoEvaluation

LEMMA SkippingKeeps ==
    ASSUME AlertsInv, EvalSkips
    PROVE  AlertsInv'
<1>1. /\ sweep'.pc \in {"idle", "next"} /\ sweep.pc # "commit"
      /\ UNCHANGED <<disk, index, source, alerts, marks, told, passed, again>>
  BY DEF EvalSkips, NextUp
<1>2. DOMAIN again = Ids
  BY DEF AlertsInv, TablesInv
<1> QED BY <1>1, <1>2, NoEvaluation

\* A sweep indexes files as they are, which is later than any mark, and makes them due;
\* the lines of a file that it forgets may come again.
LEMMA IndexSweepKeeps ==
    ASSUME AlertsInv, Sweep
    PROVE  AlertsInv'
<1>1. PICK read \in SUBSET Changed, gone \in SUBSET Gone :
        /\ index' = [f \in (DOMAIN index \cup read) \ gone |->
                        IF f \in read THEN disk[f] ELSE index[f]]
        /\ alerts' = [i \in DOMAIN alerts |-> [alerts[i] EXCEPT !.due = (@ \cup read) \ gone]]
        /\ marks' = [i \in Ids |-> Drop(marks[i], gone)]
        /\ again' = Reopened(gone)
  BY DEF Sweep
<1>2. read \subseteq Files
  BY DEF Changed, Active
<1>3. /\ sweep.pc = "idle" /\ sweep'.pc = "next"
      /\ UNCHANGED <<disk, source, told, passed>>
  BY DEF Sweep
<1>9. /\ DOMAIN marks' = Ids
      /\ \A i \in Ids : /\ DOMAIN marks'[i] = DOMAIN marks[i] \ gone
                        /\ \A f \in DOMAIN marks'[i] : marks'[i][f] = marks[i][f]
  BY <1>1 DEF Drop
<1>10. /\ DOMAIN again' = Ids
      /\ \A i \in Ids : again'[i] = again[i] \cup {l \in told[i] : l.file \in gone}
  BY <1>1 DEF Reopened
<1>4. TablesInv'
  <2>1. \A i \in Ids : OfFiles(marks'[i], Mark)
    BY <1>9 DEF AlertsInv, TablesInv, OfFiles
  <2>2. OfFiles(index', Content)
    BY <1>1, <1>2 DEF AlertsInv, TablesInv, OfFiles
  <2>3. DOMAIN alerts' = DOMAIN alerts /\ \A i \in DOMAIN alerts : DOMAIN alerts'[i] = DOMAIN alerts[i]
    BY <1>1
  <2> QED BY <1>3, <1>9, <1>10, <2>1, <2>2, <2>3 DEF AlertsInv, TablesInv
<1>5. EvaluationInv' /\ ~Evaluating'
  BY <1>3 DEF EvaluationInv, Evaluating
<1>6. AccountsInv'
  <2>1. \A i \in Ids : Accounted(i, marks[i])'
    BY <1>3, <1>9 DEF AlertsInv, AccountsInv, Accounted, UpTo, Line
  <2>2. ASSUME NEW i \in DOMAIN alerts', NEW f \in DOMAIN index' \ alerts'[i].due
        PROVE  (Lines(f, index[f]) \subseteq told[i] \cup passed[i])'
    <3>1. i \in DOMAIN alerts /\ alerts'[i].due = (alerts[i].due \cup read) \ gone
      BY <1>1 DEF AlertsInv, TablesInv
    <3>2. f \in DOMAIN index \ alerts[i].due /\ index'[f] = index[f]
      BY <1>1, <3>1
    <3>3. Lines(f, index[f]) \subseteq told[i] \cup passed[i]
      BY <3>1, <3>2 DEF AlertsInv, AccountsInv
    <3> QED BY <1>3, <3>2, <3>3
  <2> QED BY <1>5, <2>1, <2>2 DEF AccountsInv
<1>7. GrowthInv'
  <2>1. ASSUME NEW f \in DOMAIN index'
        PROVE  NotAfter(index'[f].turn, index'[f].lines, disk[f])
    <3>1. CASE f \in read
      <4>1. index'[f] = disk[f] /\ disk[f] \in Content
        BY <1>1, <1>2, <3>1 DEF AlertsInv, TablesInv, OfFiles
      <4> QED BY <4>1 DEF NotAfter, Content
    <3>2. CASE f \notin read
      BY <1>1, <3>2 DEF AlertsInv, GrowthInv
    <3> QED BY <3>1, <3>2
  <2>2. ASSUME NEW i \in Ids, NEW f \in DOMAIN marks'[i]
        PROVE  /\ NotAfter(marks'[i][f].turn, marks'[i][f].line, disk[f])
               /\ f \in DOMAIN index' => NotAfter(marks'[i][f].turn, marks'[i][f].line, index'[f])
    BY <1>1, <1>9, <2>2 DEF AlertsInv, GrowthInv
  <2> QED BY <1>3, <1>5, <2>1, <2>2 DEF AlertsInv, GrowthInv, NotAfter
<1>8. RepeatsInv'
  <2>1. ASSUME NEW i \in Ids, NEW l \in told[i] \ again'[i], source[l.file] # "deleted"
        PROVE  l.file \in DOMAIN marks'[i] /\ Behind(l, marks'[i][l.file])
    <3>1. l \notin again[i] /\ l.file \notin gone
      BY <1>10, <2>1
    <3>2. l.file \in DOMAIN marks[i] /\ Behind(l, marks[i][l.file])
      BY <1>3, <2>1, <3>1 DEF AlertsInv, RepeatsInv
    <3> QED BY <1>9, <3>1, <3>2
  <2> QED BY <1>3, <2>1 DEF RepeatsInv, Behind
<1> QED BY <1>4, <1>5, <1>6, <1>7, <1>8 DEF AlertsInv

\* Files change between sweeps, and only to a later content.
LEMMA WrittenKeeps ==
    ASSUME AlertsInv, NEW f \in Files, NEW content \in Content, Written(f, content),
           NotAfter(disk[f].turn, disk[f].lines, content)
    PROVE  AlertsInv'
<1>1. /\ disk' = [disk EXCEPT ![f] = content] /\ sweep.pc = "idle"
      /\ UNCHANGED <<index, source, owner, alerts, marks, sweep, told, passed, again>>
  BY DEF Written
<1>2. TablesInv'
  BY <1>1 DEF AlertsInv, TablesInv, OfFiles
<1>3. EvaluationInv' /\ ~Evaluating /\ ~Evaluating'
  BY <1>1 DEF AlertsInv, EvaluationInv, Evaluating
<1>4. AccountsInv'
  BY <1>1, <1>3 DEF AlertsInv, AccountsInv, Accounted, Lines, Line, Finished, UpTo
<1>5. GrowthInv'
  <2>1. ASSUME NEW g \in Files, NEW turn \in Nat, NEW n \in Nat, NotAfter(turn, n, disk[g])
        PROVE  NotAfter(turn, n, disk'[g])
    <3>1. disk[g] \in Content
      BY DEF AlertsInv, TablesInv, OfFiles
    <3>2. CASE g # f
      BY <1>1, <2>1, <3>2
    <3>3. CASE g = f
      <4>1. disk'[g] = content
        BY <1>1, <3>3 DEF AlertsInv, TablesInv
      <4> QED BY <2>1, <3>1, <3>3, <4>1 DEF NotAfter, Content
    <3> QED BY <3>2, <3>3
  <2>2. ASSUME NEW g \in DOMAIN index PROVE NotAfter(index[g].turn, index[g].lines, disk'[g])
    <3>1. g \in Files /\ index[g].turn \in Nat /\ index[g].lines \in Nat
      BY DEF AlertsInv, TablesInv, OfFiles, Content
    <3>2. NotAfter(index[g].turn, index[g].lines, disk[g])
      BY DEF AlertsInv, GrowthInv
    <3> QED BY <2>1, <3>1, <3>2
  <2>3. ASSUME NEW i \in Ids, NEW g \in DOMAIN marks[i]
        PROVE  NotAfter(marks[i][g].turn, marks[i][g].line, disk'[g])
    <3>1. g \in Files /\ marks[i][g].turn \in Nat /\ marks[i][g].line \in Nat
      BY DEF AlertsInv, TablesInv, OfFiles, Mark
    <3>2. NotAfter(marks[i][g].turn, marks[i][g].line, disk[g])
      BY DEF AlertsInv, GrowthInv
    <3> QED BY <2>1, <3>1, <3>2
  <2> QED BY <1>1, <1>3, <2>2, <2>3 DEF AlertsInv, GrowthInv, NotAfter
<1>6. RepeatsInv'
  BY <1>1 DEF AlertsInv, RepeatsInv, Behind
<1> QED BY <1>2, <1>3, <1>4, <1>5, <1>6 DEF AlertsInv

\* What the invariant speaks of is as it was.
LEMMA OtherKeeps ==
    ASSUME AlertsInv, UNCHANGED <<disk, index, source, alerts, marks, sweep, told, passed, again>>
    PROVE  AlertsInv'
BY DEF AlertsInv, TablesInv, EvaluationInv, AccountsInv, GrowthInv, RepeatsInv, Evaluating, Cur,
       After, Sent, FoundBefore, Line, Lines, Finished, Accounted, UpTo, NotAfter, Behind

LEMMA FilesKeep ==
    ASSUME AlertsInv, NEW f \in Files, AppendLine(f) \/ FinishLine(f) \/ Rotate(f)
    PROVE  AlertsInv'
<1>1. disk[f] \in Content
  BY DEF AlertsInv, TablesInv, OfFiles
<1>2. CASE AppendLine(f)
  <2>1. PICK unfinished \in BOOLEAN :
            Written(f, [disk[f] EXCEPT !.lines = @ + 1, !.unfinished = unfinished])
    BY <1>2 DEF AppendLine
  <2> DEFINE content == [disk[f] EXCEPT !.lines = @ + 1, !.unfinished = unfinished]
           longer == [disk[f] EXCEPT !.lines = @ + 1]
  <2>2. longer \in Content
    BY <1>1 DEF Content
  <2>3. content \in Content
    <3>1. content = [longer EXCEPT !.unfinished = unfinished]
      OBVIOUS
    <3> HIDE DEF content, longer
    <3> QED BY <2>2, <3>1 DEF Content
  <2>4. content.turn = disk[f].turn /\ content.lines = disk[f].lines + 1
    BY <1>1 DEF Content
  <2>5. NotAfter(disk[f].turn, disk[f].lines, content)
    BY <1>1, <2>4 DEF Content, NotAfter
  <2> QED BY <2>1, <2>3, <2>5, WrittenKeeps
<1>3. CASE FinishLine(f)
  <2> DEFINE content == [disk[f] EXCEPT !.unfinished = FALSE]
  <2>1. content \in Content
    BY <1>1 DEF Content
  <2>2. NotAfter(disk[f].turn, disk[f].lines, content)
    BY <1>1 DEF Content, NotAfter
  <2> QED BY <1>3, <2>1, <2>2, WrittenKeeps DEF FinishLine
<1>4. CASE Rotate(f)
  <2> DEFINE content == [turn |-> disk[f].turn + 1, lines |-> 0, unfinished |-> FALSE]
  <2>1. content \in Content /\ NotAfter(disk[f].turn, disk[f].lines, content)
    BY <1>1 DEF Content, NotAfter
  <2> QED BY <1>4, <2>1, WrittenKeeps DEF Rotate
<1> QED BY <1>2, <1>3, <1>4

\* Requests that change rows of alerts, what is seen or what is indexed from now on.
LEMMA RowsKeep ==
    ASSUME AlertsInv,
           UNCHANGED <<disk, index, marks, sweep, told, passed, again>>,
           DOMAIN source' = Files,
           \A f \in Files : source'[f] # "deleted" => source[f] # "deleted",
           DOMAIN alerts \subseteq DOMAIN alerts', DOMAIN alerts' \subseteq Ids,
           \A i \in DOMAIN alerts' : DOMAIN alerts'[i] = {"enabled", "scope", "due"},
           \A i \in DOMAIN alerts' :
                IF i \in DOMAIN alerts THEN alerts'[i].due = alerts[i].due
                ELSE alerts'[i].due = DOMAIN index
    PROVE  AlertsInv'
<1>1. TablesInv'
  BY DEF AlertsInv, TablesInv
<1>2. EvaluationInv'
  BY DEF AlertsInv, EvaluationInv, Evaluating, Cur, Line, Finished, After
<1>3. AccountsInv'
  <2>1. ASSUME NEW i \in DOMAIN alerts', NEW f \in DOMAIN index \ alerts'[i].due
        PROVE  (Lines(f, index[f]) \subseteq told[i] \cup passed[i])'
    <3>1. i \in DOMAIN alerts /\ f \in DOMAIN index \ alerts[i].due
      OBVIOUS
    <3>2. Lines(f, index[f]) \subseteq told[i] \cup passed[i]
      BY <3>1 DEF AlertsInv, AccountsInv
    <3> QED BY <3>2
  <2>2. \A i \in Ids : Accounted(i, marks[i])'
    BY DEF AlertsInv, AccountsInv, Accounted, UpTo, Line
  <2>3. Evaluating' = Evaluating /\ Cur' = Cur /\ Sent' = Sent
    BY DEF Evaluating, Cur, Sent, FoundBefore
  <2> QED BY <2>1, <2>2, <2>3 DEF AlertsInv, AccountsInv, Accounted, UpTo, Line
<1>4. GrowthInv'
  BY DEF AlertsInv, GrowthInv, NotAfter, Evaluating, Cur
<1>5. RepeatsInv'
  <2>1. \A i \in Ids : \A l \in told[i] : l.file \in Files
    BY DEF AlertsInv, TablesInv, Numbered
  <2> QED BY <2>1 DEF AlertsInv, RepeatsInv, Behind, Cur
<1> QED BY <1>1, <1>2, <1>3, <1>4, <1>5 DEF AlertsInv

\* The id of a new row is no other's.
LEMMA NewAlertId ==
    ASSUME DOMAIN alerts \subseteq Ids
    PROVE  FreeId(alerts) \notin DOMAIN alerts
<1> DEFINE below == UNION {1..i : i \in DOMAIN alerts}
<1>1. below \subseteq 1..MaxAlerts
  BY BoundsAssumption DEF Ids
<1>2. IsFiniteSet(below)
  <2>1. IsFiniteSet(1..MaxAlerts)
    BY FS_Interval, BoundsAssumption
  <2> QED BY <1>1, <2>1, FS_Subset
<1>3. Cardinality(below) \in Nat
  BY <1>2, FS_CardinalityType
<1>4. ASSUME NEW i \in DOMAIN alerts PROVE i <= Cardinality(below)
  <2>1. 1..i \subseteq below
    OBVIOUS
  <2>2. i \in Nat \ {0}
    BY BoundsAssumption DEF Ids
  <2>3. Cardinality(1..i) = i
    BY <2>2, FS_Interval
  <2>4. Cardinality(1..i) <= Cardinality(below)
    BY <1>2, <2>1, FS_Subset
  <2> QED BY <2>3, <2>4
<1>5. FreeId(alerts) = 1 + Cardinality(below)
  BY DEF FreeId
<1> HIDE DEF below
<1> QED BY <1>3, <1>4, <1>5

LEMMA RowRequestsKeep ==
    ASSUME AlertsInv,
           \/ CreateAlert \/ \E i \in Ids : UpdateAlert(i)
           \/ SetOwner \/ \E f \in Files : SetListed(f)
    PROVE  AlertsInv'
<1> USE DEF AlertsInv, TablesInv
<1>1. CASE CreateAlert
  <2>1. PICK scope \in Scopes :
            alerts' = Put(alerts, FreeId(alerts),
                          [enabled |-> TRUE, scope |-> scope, due |-> DOMAIN index])
    BY <1>1 DEF CreateAlert
  <2>2. FreeId(alerts) \in Ids \ DOMAIN alerts
    BY <1>1, NewAlertId DEF CreateAlert
  <2> QED BY <1>1, <2>1, <2>2, RowsKeep DEF CreateAlert, Put
<1>2. ASSUME NEW i \in Ids, UpdateAlert(i) PROVE AlertsInv'
  <2>1. PICK scope \in Scopes \cup {alerts[i].scope}, enabled \in BOOLEAN :
            alerts' = [alerts EXCEPT ![i].scope = scope, ![i].enabled = enabled]
    BY <1>2 DEF UpdateAlert
  <2>2. /\ DOMAIN alerts' = DOMAIN alerts
        /\ \A j \in DOMAIN alerts : /\ DOMAIN alerts'[j] = DOMAIN alerts[j]
                                    /\ alerts'[j].due = alerts[j].due
    BY <1>2, <2>1 DEF UpdateAlert
  <2> QED BY <1>2, <2>2, RowsKeep DEF UpdateAlert
<1>3. CASE SetOwner \/ \E f \in Files : SetListed(f)
  BY <1>3, OtherKeeps DEF SetOwner, SetListed
<1> QED BY <1>1, <1>2, <1>3

\* Requests that delete rows: some alerts are forgotten and get their ids back empty, some
\* files lose their index rows, their marks and what was due of them.
Forgets(forgotten) ==
    /\ OfFiles(disk', Content) /\ DOMAIN disk' = Files /\ DOMAIN source' = Files
    /\ \A f \in Files : disk'[f] = disk[f] \/ disk'[f].turn = disk[f].turn + 1
    /\ \A f \in Files : source'[f] # "deleted" => source[f] # "deleted"
    /\ DOMAIN index' \subseteq DOMAIN index /\ \A f \in DOMAIN index' : index'[f] = index[f]
    /\ DOMAIN alerts' \subseteq DOMAIN alerts \ forgotten
    /\ DOMAIN alerts \ forgotten \subseteq DOMAIN alerts'
    /\ \A i \in DOMAIN alerts' :
        /\ DOMAIN alerts'[i] = {"enabled", "scope", "due"}
        /\ \A f \in DOMAIN index' \ alerts'[i].due : f \notin alerts[i].due
    /\ DOMAIN marks' = Ids
    /\ \A i \in Ids : OfFiles(marks'[i], Mark) /\ DOMAIN marks'[i] \subseteq DOMAIN marks[i]
    /\ \A i \in Ids : \A f \in DOMAIN marks'[i] :
        /\ marks'[i][f].line = marks[i][f].line /\ marks'[i][f].turn = marks[i][f].turn
        /\ marks'[i][f].own => marks[i][f].own /\ i \notin forgotten
    /\ sweep' = IF Evaluating /\ Cur \in forgotten THEN [sweep EXCEPT !.mine = FALSE] ELSE sweep
    /\ DOMAIN told' = Ids /\ DOMAIN passed' = Ids /\ DOMAIN again' = Ids
    /\ \A i \in forgotten : told'[i] = {}
    /\ \A i \in Ids \ forgotten :
        /\ told'[i] = told[i] /\ passed'[i] = passed[i] /\ again[i] \subseteq again'[i]
        /\ \A l \in told[i] \ again'[i] : source'[l.file] # "deleted" /\ l.file \in DOMAIN marks[i]
                => l.file \in DOMAIN marks'[i]

LEMMA ForgettingKeeps ==
    ASSUME AlertsInv, NEW forgotten \in SUBSET Ids, Forgets(forgotten)
    PROVE  AlertsInv'
<1> USE DEF Forgets
<1>1. TablesInv'
  BY DEF AlertsInv, TablesInv, OfFiles
<1>2. /\ Evaluating' = Evaluating /\ Cur' = Cur /\ sweep'.pc = sweep.pc
      /\ Evaluating =>
            /\ DOMAIN sweep' = DOMAIN sweep
            /\ sweep'.seen = sweep.seen /\ sweep'.known = sweep.known
            /\ sweep'.hits = sweep.hits /\ sweep'.sent = sweep.sent
            /\ sweep'.mine = (sweep.mine /\ Cur \notin forgotten)
  <2>1. CASE Evaluating /\ Cur \in forgotten
    <3>1. sweep' = [sweep EXCEPT !.mine = FALSE]
      BY <2>1
    <3>2. DOMAIN sweep = {"pc", "todo", "seen", "known", "hits", "sent", "mine"}
      BY <2>1 DEF AlertsInv, EvaluationInv
    <3> QED BY <2>1, <3>1, <3>2 DEF Evaluating, Cur
  <2>2. CASE ~(Evaluating /\ Cur \in forgotten)
    <3>1. sweep' = sweep
      BY <2>2
    <3>2. Evaluating => sweep.mine \in BOOLEAN
      BY DEF AlertsInv, EvaluationInv
    <3> QED BY <2>2, <3>1, <3>2 DEF Evaluating, Cur
  <2> QED BY <2>1, <2>2
<1>3. EvaluationInv'
  <2>1. ~Evaluating => EvaluationInv'
    BY <1>2 DEF AlertsInv, EvaluationInv
  <2>2. ASSUME Evaluating PROVE EvaluationInv'
    <3>1. \A f : After(f)' = After(f)
      BY <1>2, <2>2 DEF After
    <3>2. sweep.hits = UNION {{Line(f, sweep.seen[f], k) : k \in
                {n \in Finished(sweep.seen[f]) : n > After(f) /\ n <= After(f) + MaxHits}} :
                    f \in DOMAIN sweep.seen}
      BY <2>2 DEF AlertsInv, EvaluationInv
    <3>3. (sweep.hits = UNION {{Line(f, sweep.seen[f], k) : k \in
                {n \in Finished(sweep.seen[f]) : n > After(f) /\ n <= After(f) + MaxHits}} :
                    f \in DOMAIN sweep.seen})'
      BY <1>2, <2>2, <3>1, <3>2 DEF Line, Finished
    <3>4. /\ sweep'.mine \in BOOLEAN
          /\ sweep'.mine => Cur' \in DOMAIN alerts'
          /\ ~sweep'.mine => told'[Cur'] = {}
      BY <1>2, <2>2 DEF AlertsInv, EvaluationInv
    <3>5. \A f \in DOMAIN sweep'.seen \cap DOMAIN index' : sweep'.seen[f] = index'[f]
      BY <1>2, <2>2 DEF AlertsInv, EvaluationInv
    <3> HIDE DEF Cur
    <3> QED BY <1>2, <2>2, <3>3, <3>4, <3>5 DEF AlertsInv, EvaluationInv
  <2> QED BY <2>1, <2>2
<1>4. AccountsInv'
  <2>1. ASSUME NEW i \in Ids PROVE Accounted(i, marks[i])'
    <3> SUFFICES ASSUME NEW f \in DOMAIN marks'[i], marks'[i][f].own
                 PROVE  UpTo(f, marks[i][f])' \subseteq told'[i] \cup passed'[i]
      BY DEF Accounted
    <3>1. i \notin forgotten /\ f \in DOMAIN marks[i] /\ marks[i][f].own
      OBVIOUS
    <3>2. UpTo(f, marks[i][f]) \subseteq told[i] \cup passed[i]
      BY <3>1 DEF AlertsInv, AccountsInv, Accounted
    <3>3. UpTo(f, marks[i][f])' = UpTo(f, marks[i][f])
      BY <3>1 DEF UpTo, Line
    <3> QED BY <3>1, <3>2, <3>3
  <2>2. ASSUME Evaluating', sweep'.mine
        PROVE  /\ Accounted(Cur, sweep.known)'
               /\ sweep'.sent => Sent' \subseteq told'[Cur']
    <3>1. Evaluating /\ sweep.mine /\ Cur \in Ids \ forgotten
      BY <1>2, <2>2 DEF AlertsInv, EvaluationInv
    <3>2. Accounted(Cur, sweep.known) /\ (sweep.sent => Sent \subseteq told[Cur])
      BY <3>1 DEF AlertsInv, AccountsInv
    <3>3. Sent' = Sent
      BY <1>2, <3>1 DEF Sent, FoundBefore
    <3> QED BY <1>2, <3>1, <3>2, <3>3 DEF Accounted, UpTo, Line
  <2>3. ASSUME NEW i \in DOMAIN alerts', NEW f \in DOMAIN index' \ alerts'[i].due
        PROVE  (Lines(f, index[f]) \subseteq told[i] \cup passed[i])'
    <3>1. i \in DOMAIN alerts /\ f \in DOMAIN index \ alerts[i].due /\ i \in Ids \ forgotten
      BY DEF AlertsInv, TablesInv
    <3>2. Lines(f, index[f]) \subseteq told[i] \cup passed[i]
      BY <3>1 DEF AlertsInv, AccountsInv
    <3>3. Lines(f, index[f])' = Lines(f, index[f])
      BY <3>1 DEF Lines, Line, Finished
    <3> QED BY <3>1, <3>2, <3>3
  <2> QED BY <2>1, <2>2, <2>3 DEF AccountsInv
<1>5. GrowthInv'
  <2>0. ASSUME NEW g \in Files, NEW turn \in Nat, NEW n \in Nat, NotAfter(turn, n, disk[g])
        PROVE  NotAfter(turn, n, disk'[g])
    <3>1. disk[g].turn \in Nat /\ (disk'[g] = disk[g] \/ disk'[g].turn = disk[g].turn + 1)
      BY DEF AlertsInv, TablesInv, OfFiles, Content
    <3> QED BY <2>0, <3>1 DEF NotAfter
  <2>1. ASSUME NEW f \in DOMAIN index' PROVE NotAfter(index[f].turn, index[f].lines, disk[f])'
    <3>1. f \in DOMAIN index /\ f \in Files /\ index[f].turn \in Nat /\ index[f].lines \in Nat
      BY DEF AlertsInv, TablesInv, OfFiles, Content
    <3> QED BY <2>0, <3>1 DEF AlertsInv, GrowthInv, NotAfter
  <2>2. ASSUME NEW i \in Ids, NEW f \in DOMAIN marks'[i]
        PROVE  /\ NotAfter(marks[i][f].turn, marks[i][f].line, disk[f])'
               /\ f \in DOMAIN index' => NotAfter(marks[i][f].turn, marks[i][f].line, index[f])'
    <3>1. f \in DOMAIN marks[i] /\ f \in Files /\ marks[i][f].turn \in Nat /\ marks[i][f].line \in Nat
      BY DEF AlertsInv, TablesInv, OfFiles, Mark
    <3>2. NotAfter(marks[i][f].turn, marks[i][f].line, disk'[f])
      BY <2>0, <3>1 DEF AlertsInv, GrowthInv
    <3> QED BY <3>1, <3>2 DEF AlertsInv, GrowthInv, NotAfter
  <2>3. ASSUME Evaluating', NEW f \in DOMAIN sweep'.seen
        PROVE  /\ NotAfter(sweep.seen[f].turn, sweep.seen[f].lines, disk[f])'
               /\ f \in DOMAIN marks'[Cur'] =>
                    NotAfter(marks[Cur][f].turn, marks[Cur][f].line, sweep.seen[f])'
    <3>1. Evaluating /\ Cur \in Ids /\ f \in DOMAIN sweep.seen
      BY <1>2, <2>3 DEF AlertsInv, EvaluationInv
    <3>2. NotAfter(sweep.seen[f].turn, sweep.seen[f].lines, disk'[f])
      <4>1. f \in Files /\ sweep.seen[f].turn \in Nat /\ sweep.seen[f].lines \in Nat
        BY <3>1 DEF AlertsInv, EvaluationInv, OfFiles, Content
      <4> QED BY <2>0, <3>1, <4>1 DEF AlertsInv, GrowthInv
    <3>3. f \in DOMAIN marks[Cur] => NotAfter(marks[Cur][f].turn, marks[Cur][f].line, sweep.seen[f])
      BY <3>1 DEF AlertsInv, GrowthInv
    <3> QED BY <1>2, <3>1, <3>2, <3>3 DEF NotAfter
  <2> QED BY <2>1, <2>2, <2>3 DEF GrowthInv
<1>6. RepeatsInv'
  <2>1. ASSUME NEW i \in Ids, NEW l \in told'[i] \ again'[i], source'[l.file] # "deleted"
        PROVE  \/ sweep'.pc = "commit" /\ sweep'.mine /\ Cur' = i /\ l \in sweep'.hits
               \/ l.file \in DOMAIN marks'[i] /\ Behind(l, marks'[i][l.file])
    <3>1. i \notin forgotten /\ l \in told[i] \ again[i]
      OBVIOUS
    <3>2. l.file \in Files
      BY <3>1 DEF AlertsInv, TablesInv, Numbered
    <3>3. \/ sweep.pc = "commit" /\ sweep.mine /\ Cur = i /\ l \in sweep.hits
          \/ l.file \in DOMAIN marks[i] /\ Behind(l, marks[i][l.file])
      BY <2>1, <3>1, <3>2 DEF AlertsInv, RepeatsInv
    <3>4. CASE sweep.pc = "commit" /\ sweep.mine /\ Cur = i /\ l \in sweep.hits
      BY <1>2, <3>1, <3>4 DEF Evaluating
    <3>5. CASE l.file \in DOMAIN marks[i] /\ Behind(l, marks[i][l.file])
      <4>1. l.file \in DOMAIN marks'[i]
        BY <2>1, <3>1, <3>5
      <4> QED BY <3>5, <4>1 DEF Behind
    <3> QED BY <3>3, <3>4, <3>5
  <2>2. ASSUME sweep'.pc = "send", sweep'.mine
        PROVE  sweep'.hits \cap told'[Cur'] \subseteq again'[Cur']
    <3>1. Evaluating /\ sweep.pc = "send"
      BY <1>2, <2>2 DEF Evaluating
    <3>2. sweep.mine /\ Cur \in Ids \ forgotten
      BY <1>2, <2>2, <3>1 DEF AlertsInv, EvaluationInv
    <3>3. sweep.hits \cap told[Cur] \subseteq again[Cur]
      BY <3>1, <3>2 DEF AlertsInv, RepeatsInv
    <3> QED BY <1>2, <3>1, <3>2, <3>3
  <2> QED BY <2>1, <2>2 DEF RepeatsInv, Behind
<1> QED BY <1>1, <1>3, <1>4, <1>5, <1>6 DEF AlertsInv

\* A source's rows, states and marks go; its lines may come again.
LEMMA UnindexingKeeps ==
    ASSUME AlertsInv, NEW f \in Files, Unindexed(f, alerts),
           marks' = [i \in Ids |-> Drop(marks[i], {f})], again' = Reopened({f}),
           UNCHANGED <<sweep, told, passed>>,
           OfFiles(disk', Content), DOMAIN disk' = Files, DOMAIN source' = Files,
           \A g \in Files : disk'[g] = disk[g] \/ disk'[g].turn = disk[g].turn + 1,
           \A g \in Files : source'[g] # "deleted" => source[g] # "deleted"
    PROVE  AlertsInv'
<1>1. /\ index' = Drop(index, {f})
      /\ alerts' = [i \in DOMAIN alerts |-> [alerts[i] EXCEPT !.due = @ \ {f}]]
      /\ again' = [i \in Ids |-> again[i] \cup {l \in told[i] : l.file \in {f}}]
  BY DEF Unindexed, Reopened
<1>2. /\ DOMAIN alerts' = DOMAIN alerts
      /\ \A i \in DOMAIN alerts : /\ DOMAIN alerts'[i] = {"enabled", "scope", "due"}
                                  /\ alerts'[i].due = alerts[i].due \ {f}
  BY <1>1 DEF AlertsInv, TablesInv
<1>3. DOMAIN index' = DOMAIN index \ {f} /\ \A g \in DOMAIN index' : index'[g] = index[g]
  BY <1>1 DEF Drop
<1>4. /\ DOMAIN marks' = Ids
      /\ \A i \in Ids : /\ DOMAIN marks'[i] = DOMAIN marks[i] \ {f}
                        /\ \A g \in DOMAIN marks'[i] : marks'[i][g] = marks[i][g]
  BY DEF Drop
<1>5. \A i \in Ids : OfFiles(marks'[i], Mark)
  BY <1>4 DEF AlertsInv, TablesInv, OfFiles
<1>6. DOMAIN told' = Ids /\ DOMAIN passed' = Ids /\ DOMAIN again' = Ids
  BY <1>1 DEF AlertsInv, TablesInv
<1>7. \A i \in Ids : again[i] \subseteq again'[i] /\ \A l \in told[i] \ again'[i] : l.file # f
  BY <1>1
<1>8. \A i \in DOMAIN alerts' : \A g \in DOMAIN index' \ alerts'[i].due : g \notin alerts[i].due
  BY <1>2, <1>3
<1>9. /\ told' = told /\ passed' = passed
       /\ sweep' = IF Evaluating /\ Cur \in {} THEN [sweep EXCEPT !.mine = FALSE] ELSE sweep
  OBVIOUS
<1>10. \A i \in Ids : \A g \in DOMAIN marks'[i] :
          /\ marks'[i][g].line = marks[i][g].line /\ marks'[i][g].turn = marks[i][g].turn
          /\ marks'[i][g].own => marks[i][g].own
  BY <1>4
<1>11. \A i \in Ids : \A l \in told[i] \ again'[i] :
          l.file \in DOMAIN marks[i] => l.file \in DOMAIN marks'[i]
  BY <1>4, <1>7
<1>12. DOMAIN alerts' \subseteq DOMAIN alerts \ {} /\ DOMAIN alerts \ {} \subseteq DOMAIN alerts'
  BY <1>2
<1>13. \A i \in Ids \ {} :
        /\ told'[i] = told[i] /\ passed'[i] = passed[i] /\ again[i] \subseteq again'[i]
        /\ \A l \in told[i] \ again'[i] : source'[l.file] # "deleted" /\ l.file \in DOMAIN marks[i]
                => l.file \in DOMAIN marks'[i]
  BY <1>7, <1>9, <1>11
<1>14. \A i \in DOMAIN alerts' :
        /\ DOMAIN alerts'[i] = {"enabled", "scope", "due"}
        /\ \A g \in DOMAIN index' \ alerts'[i].due : g \notin alerts[i].due
  BY <1>2, <1>8
<1>15. \A i \in Ids : OfFiles(marks'[i], Mark) /\ DOMAIN marks'[i] \subseteq DOMAIN marks[i]
  BY <1>4, <1>5
<1>16. DOMAIN index' \subseteq DOMAIN index /\ \A g \in DOMAIN index' : index'[g] = index[g]
  BY <1>3
<1> HIDE DEF Cur
<1>17. Forgets({})
  BY <1>4, <1>6, <1>9, <1>10, <1>12, <1>13, <1>14, <1>15, <1>16, Zenon DEF Forgets
<1> QED BY <1>17, ForgettingKeeps

LEMMA SourceUpdatesKeep ==
    ASSUME AlertsInv, \E f \in Files : UpdateSource(f) \/ MoveSource(f)
    PROVE  AlertsInv'
<1> USE DEF AlertsInv, TablesInv
<1>1. PICK f \in Files : UpdateSource(f) \/ MoveSource(f)
  OBVIOUS
<1>2. CASE UpdateSource(f)
  <2>1. PICK status \in {"on", "paused", "off"} :
        /\ source' = [source EXCEPT ![f] = status]
        /\ IF status = "on" THEN UNCHANGED <<index, alerts, marks, again>>
           ELSE /\ Unindexed(f, alerts)
                /\ marks' = [i \in Ids |-> Drop(marks[i], {f})]
                /\ again' = Reopened({f})
    BY <1>2 DEF UpdateSource
  <2>2. /\ source[f] # "deleted" /\ UNCHANGED <<disk, sweep, told, passed>>
    BY <1>2 DEF UpdateSource
  <2>3. DOMAIN source' = Files /\ \A g \in Files : source'[g] # "deleted" => source[g] # "deleted"
    BY <2>1, <2>2
  <2>4. CASE status = "on"
    BY <2>1, <2>2, <2>3, <2>4, RowsKeep
  <2>5. CASE status # "on"
    BY <2>1, <2>2, <2>3, <2>5, UnindexingKeeps
  <2> QED BY <2>4, <2>5
<1>3. CASE MoveSource(f)
  <2>1. PICK n \in 0..MaxLines :
        disk' = [disk EXCEPT ![f] = [turn |-> @.turn + 1, lines |-> n, unfinished |-> FALSE]]
    BY <1>3 DEF MoveSource
  <2>2. disk[f].turn \in Nat /\ n \in Nat
    BY <2>1, BoundsAssumption DEF OfFiles, Content
  <2>3. /\ DOMAIN disk' = Files
        /\ disk'[f] = [turn |-> disk[f].turn + 1, lines |-> n, unfinished |-> FALSE]
        /\ \A g \in Files : g # f => disk'[g] = disk[g]
    BY <2>1
  <2>4. disk'[f] \in Content /\ disk'[f].turn = disk[f].turn + 1
    BY <2>2, <2>3 DEF Content
  <2>5. OfFiles(disk', Content)
    BY <2>3, <2>4 DEF OfFiles
  <2> QED BY <1>3, <2>3, <2>4, <2>5, UnindexingKeeps DEF MoveSource
<1> QED BY <1>1, <1>2, <1>3

LEMMA DeletionsKeep ==
    ASSUME AlertsInv, \/ \E i \in Ids : DeleteAlert(i)
                      \/ \E f \in Files : DeleteSource(f)
    PROVE  AlertsInv'
<1>1. ASSUME NEW i \in Ids, DeleteAlert(i) PROVE AlertsInv'
  <2>1. /\ alerts' = Drop(alerts, {i}) /\ marks' = [marks EXCEPT ![i] = Nothing]
        /\ sweep' = Evaluated({i}) /\ UNCHANGED <<disk, index, source, owner>>
        /\ told' = [told EXCEPT ![i] = {}] /\ passed' = [passed EXCEPT ![i] = {}]
        /\ again' = [again EXCEPT ![i] = {}]
    BY <1>1 DEF DeleteAlert, Forgotten
  <2>2. DOMAIN alerts' = DOMAIN alerts \ {i} /\ \A j \in DOMAIN alerts' : alerts'[j] = alerts[j]
    BY <2>1 DEF Drop
  <2>3. DOMAIN marks'[i] = {}
    BY <2>1 DEF Nothing, AlertsInv, TablesInv
  <2>4. \A j \in Ids : j # i => marks'[j] = marks[j]
    BY <2>1 DEF AlertsInv, TablesInv
  <2>5. sweep' = IF Evaluating /\ Cur \in {i} THEN [sweep EXCEPT !.mine = FALSE] ELSE sweep
    BY <2>1 DEF Evaluated, Evaluating
  <2>6. /\ DOMAIN marks' = Ids /\ DOMAIN told' = Ids /\ DOMAIN passed' = Ids /\ DOMAIN again' = Ids
        /\ DOMAIN source = Files /\ DOMAIN disk = Files /\ OfFiles(disk, Content)
    BY <2>1 DEF AlertsInv, TablesInv
  <2>7. told'[i] = {} /\ \A j \in Ids \ {i} :
            told'[j] = told[j] /\ passed'[j] = passed[j] /\ again'[j] = again[j]
    BY <2>1 DEF AlertsInv, TablesInv
  <2>8. \A j \in Ids : OfFiles(marks'[j], Mark) /\ DOMAIN marks'[j] \subseteq DOMAIN marks[j]
    BY <2>3, <2>4 DEF AlertsInv, TablesInv, OfFiles
  <2>9. \A j \in DOMAIN alerts' : DOMAIN alerts'[j] = {"enabled", "scope", "due"}
    BY <2>2 DEF AlertsInv, TablesInv
  <2>13. Forgets({i})
    BY <2>1, <2>2, <2>3, <2>4, <2>5, <2>6, <2>7, <2>8, <2>9 DEF Forgets
  <2> QED BY <2>13, ForgettingKeeps
<1>2. ASSUME NEW f \in Files, DeleteSource(f) PROVE AlertsInv'
  <2> DEFINE ids == {i \in DOMAIN alerts : alerts[i].scope = {f}}
  <2>1. /\ source' = [source EXCEPT ![f] = "deleted"]
        /\ index' = Drop(index, {f})
        /\ alerts' = [i \in DOMAIN Drop(alerts, ids) |->
                        [Drop(alerts, ids)[i] EXCEPT !.due = @ \ {f}]]
        /\ marks' = [i \in Ids |->
                LET kept == Drop(marks[i], {f})
                IN IF i \in ids THEN [g \in DOMAIN kept |-> [kept[g] EXCEPT !.own = FALSE]]
                   ELSE kept]
        /\ sweep' = Evaluated(ids)
        /\ told' = [i \in Ids |-> IF i \in ids THEN {} ELSE told[i]]
        /\ passed' = [i \in Ids |-> IF i \in ids THEN {} ELSE passed[i]]
        /\ again' = [i \in Ids |-> IF i \in ids THEN {} ELSE again[i]]
        /\ UNCHANGED <<disk, owner>>
    BY <1>2 DEF DeleteSource, Unindexed
  <2>2. ids \in SUBSET Ids /\ ids \subseteq DOMAIN alerts
    BY DEF AlertsInv, TablesInv
  <2> HIDE DEF ids
  <2>3. /\ DOMAIN alerts' = DOMAIN alerts \ ids
        /\ \A i \in DOMAIN alerts' : /\ DOMAIN alerts'[i] = {"enabled", "scope", "due"}
                                     /\ alerts'[i].due = alerts[i].due \ {f}
    BY <2>1 DEF AlertsInv, TablesInv, Drop
  <2>4. DOMAIN index' = DOMAIN index \ {f} /\ \A g \in DOMAIN index' : index'[g] = index[g]
    BY <2>1 DEF Drop
  <2>5. DOMAIN marks' = Ids
    BY <2>1
  <2>6. ASSUME NEW i \in Ids
        PROVE  /\ DOMAIN marks'[i] = DOMAIN marks[i] \ {f} /\ OfFiles(marks'[i], Mark)
               /\ \A g \in DOMAIN marks'[i] :
                    /\ marks'[i][g].line = marks[i][g].line /\ marks'[i][g].turn = marks[i][g].turn
                    /\ marks'[i][g].own => marks[i][g].own /\ i \notin ids
    <3> DEFINE kept == Drop(marks[i], {f})
    <3>1. /\ DOMAIN kept = DOMAIN marks[i] \ {f}
          /\ \A g \in DOMAIN kept : kept[g] = marks[i][g] /\ kept[g] \in Mark /\ g \in Files
      BY DEF Drop, AlertsInv, TablesInv, OfFiles
    <3>2. CASE i \in ids
      <4>1. marks'[i] = [g \in DOMAIN kept |-> [kept[g] EXCEPT !.own = FALSE]]
        BY <2>1, <3>2
      <4> HIDE DEF kept
      <4>2. \A g \in DOMAIN kept : /\ [kept[g] EXCEPT !.own = FALSE] \in Mark
                                   /\ [kept[g] EXCEPT !.own = FALSE].own = FALSE
                                   /\ [kept[g] EXCEPT !.own = FALSE].line = kept[g].line
                                   /\ [kept[g] EXCEPT !.own = FALSE].turn = kept[g].turn
        BY <3>1 DEF Mark
      <4> QED BY <3>1, <4>1, <4>2 DEF OfFiles
    <3>3. CASE i \notin ids
      <4>1. marks'[i] = kept
        BY <2>1, <3>3
      <4> HIDE DEF kept
      <4> QED BY <3>1, <3>3, <4>1 DEF OfFiles
    <3> QED BY <3>2, <3>3
  <2>7. sweep' = IF Evaluating /\ Cur \in ids THEN [sweep EXCEPT !.mine = FALSE] ELSE sweep
    BY <2>1 DEF Evaluated, Evaluating
  <2>8. /\ DOMAIN source' = Files
        /\ \A g \in Files : source'[g] # "deleted" => source[g] # "deleted" /\ g # f
    BY <2>1 DEF AlertsInv, TablesInv
  <2>9. /\ DOMAIN told' = Ids /\ DOMAIN passed' = Ids /\ DOMAIN again' = Ids
        /\ \A i \in ids : told'[i] = {}
        /\ \A i \in Ids \ ids :
            told'[i] = told[i] /\ passed'[i] = passed[i] /\ again'[i] = again[i]
    BY <2>1, <2>2
  <2>10. \A i \in Ids : \A l \in told[i] : l.file \in Files
    BY DEF AlertsInv, TablesInv, Numbered
  <2>11. \A i \in DOMAIN alerts' : \A g \in DOMAIN index' \ alerts'[i].due : g \notin alerts[i].due
    BY <2>3, <2>4
  <2>12. \A i \in Ids \ ids : \A l \in told[i] \ again'[i] :
            source'[l.file] # "deleted" /\ l.file \in DOMAIN marks[i] => l.file \in DOMAIN marks'[i]
    BY <2>6, <2>8, <2>10
  <2>13. OfFiles(disk', Content) /\ DOMAIN disk' = Files /\ disk' = disk
    BY <2>1 DEF AlertsInv, TablesInv
  <2>14. Forgets(ids)
    BY <2>13, <2>2, <2>3, <2>4, <2>5, <2>6, <2>7, <2>8, <2>9, <2>11, <2>12 DEF Forgets
  <2> QED BY <2>2, <2>14, ForgettingKeeps
<1> QED BY <1>1, <1>2

\* A check reads what is due; what it is about to tell was not told before, or may be again.
LEMMA EvalReadKeeps ==
    ASSUME AlertsInv, EvalRead
    PROVE  AlertsInv'
<1> DEFINE changed == alerts[Cur].due \cap ScopeOf(Cur) \cap DOMAIN index
           hits == UNION {HitsIn(Cur, f) : f \in changed}
<1>1. /\ sweep.pc = "next" /\ Cur \in DOMAIN alerts
      /\ sweep' = [pc |-> IF hits = {} THEN "commit" ELSE "send", todo |-> sweep.todo,
                   seen |-> [f \in changed |-> index[f]], known |-> marks[Cur],
                   hits |-> hits, sent |-> FALSE, mine |-> TRUE]
      /\ UNCHANGED <<disk, index, source, owner, alerts, marks, told, passed, again>>
  BY DEF EvalRead
<1>2. /\ changed \subseteq Files /\ changed \subseteq DOMAIN index
      /\ \A f \in changed : source[f] # "deleted"
  BY DEF ScopeOf, AlertsInv, TablesInv, OfFiles
<1> HIDE DEF changed
<1>3. Cur \in Ids /\ \A f \in changed : index[f] \in Content
  BY <1>1, <1>2 DEF AlertsInv, TablesInv, OfFiles
<1>4. /\ Evaluating' /\ ~Evaluating /\ Cur' = Cur
      /\ sweep'.seen = [f \in changed |-> index[f]] /\ sweep'.known = marks[Cur]
      /\ sweep'.hits = hits /\ sweep'.sent = FALSE /\ sweep'.mine = TRUE
      /\ DOMAIN sweep'.seen = changed /\ \A f \in changed : sweep'.seen[f] = index[f]
  <2> HIDE DEF hits
  <2> QED BY <1>1 DEF Evaluating, Cur
<1>5. \A f \in changed : After(f)' = StartAfter(Cur, f)
  BY <1>4 DEF After, StartAfter
<1>6. hits = UNION {{Line(f, index[f], k) : k \in
            {n \in Finished(index[f]) :
                n > StartAfter(Cur, f) /\ n <= StartAfter(Cur, f) + MaxHits}} : f \in changed}
  BY DEF HitsIn
<1>7. TablesInv'
  BY <1>1 DEF AlertsInv, TablesInv
<1>8. EvaluationInv'
  <2>1. (sweep.hits = UNION {{Line(f, sweep.seen[f], k) : k \in
            {n \in Finished(sweep.seen[f]) : n > After(f) /\ n <= After(f) + MaxHits}} :
                f \in DOMAIN sweep.seen})'
    <3> HIDE DEF hits
    <3> QED BY <1>4, <1>5, <1>6 DEF Line, Finished
  <2>2. OfFiles(sweep'.seen, Content) /\ OfFiles(sweep'.known, Mark)
    BY <1>2, <1>3, <1>4 DEF AlertsInv, TablesInv, OfFiles
  <2>3. \A f \in DOMAIN sweep'.seen \cap DOMAIN index' : sweep'.seen[f] = index'[f]
    BY <1>1, <1>4
  <2> HIDE DEF hits
  <2>4. /\ DOMAIN sweep' = {"pc", "todo", "seen", "known", "hits", "sent", "mine"}
        /\ sweep'.pc \in {"idle", "next", "send", "commit"}
    BY <1>1
  <2> HIDE DEF Cur
  <2> QED BY <1>1, <1>3, <1>4, <2>1, <2>2, <2>3, <2>4 DEF EvaluationInv
<1>9. AccountsInv'
  <2>1. \A i \in Ids : Accounted(i, marks[i])'
    BY <1>1 DEF AlertsInv, AccountsInv, Accounted, UpTo, Line
  <2>2. Accounted(Cur, sweep.known)'
    BY <1>1, <1>3, <1>4, <2>1 DEF Accounted, UpTo, Line
  <2>3. \A i \in DOMAIN alerts : \A f \in DOMAIN index \ alerts[i].due :
            (Lines(f, index[f]) \subseteq told[i] \cup passed[i])'
    BY <1>1 DEF AlertsInv, AccountsInv, Lines, Line, Finished
  <2> QED BY <1>1, <1>4, <2>1, <2>2, <2>3 DEF AccountsInv
<1>10. GrowthInv'
  BY <1>1, <1>2, <1>3, <1>4 DEF AlertsInv, GrowthInv, NotAfter
<1>11. RepeatsInv'
  <2>1. \A i \in Ids : \A l \in told[i] \ again[i] : source[l.file] # "deleted" =>
            l.file \in DOMAIN marks[i] /\ Behind(l, marks[i][l.file])
    BY <1>1 DEF AlertsInv, RepeatsInv
  <2>2. ASSUME NEW l \in hits \cap told[Cur], l \notin again[Cur] PROVE FALSE
    <3>1. PICK f \in changed : \E n \in Finished(index[f]) :
            l = Line(f, index[f], n) /\ n > StartAfter(Cur, f)
      BY <1>6, <2>2
    <3>2. PICK k \in Finished(index[f]) : l = Line(f, index[f], k) /\ k > StartAfter(Cur, f)
      BY <3>1
    <3>3. l.file = f /\ l.turn = index[f].turn /\ l.number = k
      BY <3>2 DEF Line
    <3>4. f \in DOMAIN marks[Cur] /\ Behind(l, marks[Cur][f])
      BY <1>2, <1>3, <2>1, <2>2, <3>3
    <3>5. NotAfter(marks[Cur][f].turn, marks[Cur][f].line, index[f])
      BY <1>2, <1>3, <3>4 DEF AlertsInv, GrowthInv
    <3>6. /\ index[f].turn \in Nat /\ index[f].lines \in Nat
          /\ marks[Cur][f].turn \in Nat /\ marks[Cur][f].line \in Nat
      BY <1>3, <3>4 DEF Content, Mark, AlertsInv, TablesInv, OfFiles
    <3>7. marks[Cur][f].line <= index[f].lines /\ l.number <= marks[Cur][f].line
      BY <3>3, <3>4, <3>5, <3>6 DEF Behind, NotAfter
    <3>8. StartAfter(Cur, f) = marks[Cur][f].line
      BY <3>4, <3>7 DEF StartAfter
    <3>9. k \in Int
      BY <1>3 DEF Finished, Content
    <3> QED BY <3>2, <3>3, <3>6, <3>7, <3>8, <3>9
  <2> HIDE DEF hits
  <2> QED BY <1>1, <1>4, <2>1, <2>2 DEF RepeatsInv, Behind
<1> QED BY <1>7, <1>8, <1>9, <1>10, <1>11 DEF AlertsInv

LEMMA SendWebhookKeeps ==
    ASSUME AlertsInv, SendWebhook
    PROVE  AlertsInv'
<1>1. PICK works \in BOOLEAN :
        /\ sweep' = [sweep EXCEPT !.pc = "commit", !.sent = works]
        /\ told' = IF works /\ sweep.mine THEN [told EXCEPT ![Cur] = @ \cup Sent] ELSE told
  BY DEF SendWebhook
<1>2. /\ sweep.pc = "send" /\ Evaluating
      /\ UNCHANGED <<disk, index, source, owner, alerts, marks, passed, again>>
  BY DEF SendWebhook, Evaluating
<1>3. /\ DOMAIN sweep = {"pc", "todo", "seen", "known", "hits", "sent", "mine"}
      /\ Cur \in Ids /\ sweep.mine \in BOOLEAN /\ sweep.sent \in BOOLEAN
  BY <1>2 DEF AlertsInv, EvaluationInv
<1>4. /\ Evaluating' /\ sweep'.pc = "commit" /\ Cur' = Cur /\ DOMAIN sweep' = DOMAIN sweep
      /\ sweep'.seen = sweep.seen /\ sweep'.known = sweep.known /\ sweep'.hits = sweep.hits
      /\ sweep'.mine = sweep.mine /\ sweep'.sent = works
  BY <1>1, <1>3 DEF Evaluating, Cur
<1>5. /\ DOMAIN told' = Ids
      /\ \A i \in Ids : told[i] \subseteq told'[i]
      /\ \A i \in Ids : i # Cur \/ ~sweep.mine => told'[i] = told[i]
      /\ told'[Cur] \subseteq told[Cur] \cup Sent
      /\ works /\ sweep.mine => Sent' \subseteq told'[Cur]
      /\ Sent \subseteq sweep.hits
  <2>1. Sent' = Sent
    BY <1>4 DEF Sent, FoundBefore
  <2> QED BY <1>1, <1>3, <2>1 DEF AlertsInv, TablesInv, Sent
<1>6. sweep.hits \subseteq Numbered
  <2>1. ASSUME NEW f \in DOMAIN sweep.seen, NEW k \in Finished(sweep.seen[f])
        PROVE  Line(f, sweep.seen[f], k) \in Numbered
    <3>1. f \in Files /\ sweep.seen[f] \in Content
      BY <1>2 DEF AlertsInv, EvaluationInv, OfFiles
    <3>2. k \in Nat
      BY <3>1 DEF Finished, Content
    <3> QED BY <3>1, <3>2 DEF Line, Numbered, Content
  <2>2. \A l \in sweep.hits : \E f \in DOMAIN sweep.seen :
            \E k \in Finished(sweep.seen[f]) : l = Line(f, sweep.seen[f], k)
    BY <1>2 DEF AlertsInv, EvaluationInv
  <2> QED BY <2>1, <2>2
<1>7. TablesInv'
  BY <1>2, <1>3, <1>5, <1>6 DEF AlertsInv, TablesInv
<1>8. EvaluationInv'
  <2>1. \A f : After(f)' = After(f)
    BY <1>4 DEF After
  <2>2. (sweep.hits = UNION {{Line(f, sweep.seen[f], k) : k \in
            {n \in Finished(sweep.seen[f]) : n > After(f) /\ n <= After(f) + MaxHits}} :
                f \in DOMAIN sweep.seen})'
    BY <1>2, <1>4, <2>1 DEF AlertsInv, EvaluationInv, Line, Finished
  <2> HIDE DEF Cur
  <2>3. sweep'.mine \in BOOLEAN /\ sweep'.sent \in BOOLEAN
    BY <1>3, <1>4
  <2> QED BY <1>2, <1>3, <1>4, <1>5, <2>2, <2>3 DEF AlertsInv, EvaluationInv
<1>9. AccountsInv'
  <2>1. \A i \in Ids : Accounted(i, marks[i])'
    BY <1>2, <1>5 DEF AlertsInv, AccountsInv, Accounted, UpTo, Line
  <2>2. sweep.mine => Accounted(Cur, sweep.known)'
    BY <1>2, <1>3, <1>4, <1>5 DEF AlertsInv, AccountsInv, Accounted, UpTo, Line
  <2>3. \A i \in DOMAIN alerts : \A f \in DOMAIN index \ alerts[i].due :
            (Lines(f, index[f]) \subseteq told[i] \cup passed[i])'
    <3>1. DOMAIN alerts \subseteq Ids
      BY DEF AlertsInv, TablesInv
    <3> QED BY <1>2, <1>5, <3>1 DEF AlertsInv, AccountsInv, Lines, Line, Finished
  <2> QED BY <1>2, <1>4, <1>5, <2>1, <2>2, <2>3 DEF AccountsInv
<1>10. GrowthInv'
  BY <1>2, <1>4 DEF AlertsInv, GrowthInv, NotAfter
<1>11. RepeatsInv'
  <2>1. ASSUME NEW i \in Ids, NEW l \in told'[i] \ again[i], source[l.file] # "deleted"
        PROVE  \/ sweep.mine /\ Cur = i /\ l \in sweep.hits
               \/ l.file \in DOMAIN marks[i] /\ Behind(l, marks[i][l.file])
    <3>1. CASE l \in told[i]
      BY <1>2, <2>1, <3>1 DEF AlertsInv, RepeatsInv
    <3>2. CASE l \notin told[i]
      BY <1>5, <2>1, <3>2
    <3> QED BY <3>1, <3>2
  <2> QED BY <1>2, <1>4, <2>1 DEF RepeatsInv, Behind
<1> QED BY <1>7, <1>8, <1>9, <1>10, <1>11 DEF AlertsInv

\* A file with lines past the limit has as many hits as the limit.
LEMMA HitsAtTheLimit ==
    ASSUME AlertsInv, Evaluating, NEW f \in DOMAIN sweep.seen, NEW k \in Finished(sweep.seen[f]),
           k > After(f) + MaxHits
    PROVE  Line(f, sweep.seen[f], k) \in Skipped(f)
<1> DEFINE content == sweep.seen[f]
           start == After(f)
           numbers == (start + 1)..(start + MaxHits)
           hits == {h \in sweep.hits : h.file = f}
<1>1. content \in Content /\ start \in Nat
  BY DEF AlertsInv, EvaluationInv, OfFiles, After, Mark
<1>2. MaxHits \in Nat \ {0} /\ k \in Nat
  BY <1>1, BoundsAssumption DEF Finished, Content
<1>3. sweep.hits = UNION {{Line(g, sweep.seen[g], n) : n \in
            {m \in Finished(sweep.seen[g]) : m > After(g) /\ m <= After(g) + MaxHits}} :
                g \in DOMAIN sweep.seen}
  BY DEF AlertsInv, EvaluationInv
<1>4. numbers \subseteq {m \in Finished(content) : m > start /\ m <= start + MaxHits}
  <2> SUFFICES ASSUME NEW n \in numbers
               PROVE  n \in Finished(content) /\ n > start /\ n <= start + MaxHits
    OBVIOUS
  <2>1. n \in Int /\ n > start /\ n <= start + MaxHits
    BY <1>1, <1>2
  <2>2. 1 <= n /\ n <= k
    BY <1>1, <1>2, <2>1
  <2> QED BY <1>1, <1>2, <2>1, <2>2 DEF Finished, Content
<1>5. hits = {Line(f, content, n) : n \in numbers}
  <2>1. ASSUME NEW h \in hits PROVE \E n \in numbers : h = Line(f, content, n)
    <3>1. PICK g \in DOMAIN sweep.seen : \E n \in Finished(sweep.seen[g]) :
            /\ h = Line(g, sweep.seen[g], n)
            /\ n > After(g) /\ n <= After(g) + MaxHits
      BY <1>3
    <3>2. PICK n \in Finished(sweep.seen[g]) :
            /\ h = Line(g, sweep.seen[g], n)
            /\ n > After(g) /\ n <= After(g) + MaxHits
      BY <3>1
    <3>3. g = f
      BY <3>2 DEF Line
    <3>4. n \in Int
      BY <1>1, <3>3 DEF Finished, Content
    <3>5. n \in numbers
      BY <1>1, <1>2, <3>2, <3>3, <3>4
    <3> QED BY <3>2, <3>3, <3>5
  <2>2. ASSUME NEW n \in numbers PROVE Line(f, content, n) \in hits
    <3>1. Line(f, content, n) \in sweep.hits
      BY <1>3, <1>4
    <3>2. Line(f, content, n).file = f
      BY DEF Line
    <3> QED BY <3>1, <3>2
  <2> HIDE DEF hits, content, numbers
  <2> QED BY <2>1, <2>2
<1>6. IsFiniteSet(numbers) /\ Cardinality(numbers) = MaxHits
  <2>1. start + 1 \in Int /\ start + MaxHits \in Int
    BY <1>1, <1>2
  <2> QED BY <1>1, <1>2, <2>1, FS_Interval
<1>7. Cardinality(hits) = MaxHits
  <2> DEFINE line == [n \in numbers |-> Line(f, content, n)]
  <2>1. line \in Bijection(numbers, hits)
    <3>1. line \in [numbers -> hits]
      BY <1>5
    <3>2. ASSUME NEW m \in numbers, NEW n \in numbers, line[m] = line[n] PROVE m = n
      <4>1. Line(f, content, m) = Line(f, content, n)
        BY <3>2
      <4> QED BY <4>1 DEF Line
    <3>3. \A h \in hits : \E n \in numbers : line[n] = h
      BY <1>5
    <3> HIDE DEF line, hits, numbers
    <3> QED BY <3>1, <3>2, <3>3, Fun_IsBij
  <2> HIDE DEF line, hits, numbers
  <2>2. ExistsBijection(numbers, hits)
    BY <2>1 DEF ExistsBijection
  <2> QED BY <1>6, <2>2, FS_Bijection
<1>8. ASSUME NEW h \in hits PROVE k > h.number
  <2>1. PICK n \in numbers : h = Line(f, content, n)
    BY <1>5
  <2>2. h.number = n
    BY <2>1 DEF Line
  <2> QED BY <1>1, <1>2, <2>2
<1>9. Line(f, content, k) \in Lines(f, content) /\ Line(f, content, k).number = k
  BY DEF Lines, Line
<1> HIDE DEF hits, content
<1>10. Skipped(f) = IF Cardinality(hits) < MaxHits THEN {}
                    ELSE {l \in Lines(f, content) : \A h \in hits : l.number > h.number}
  BY DEF Skipped, hits, content
<1> QED BY <1>2, <1>7, <1>8, <1>9, <1>10 DEF content

\* A check tells every line that it has read, or passes it over, or had done so before.
LEMMA ReadIsAccounted ==
    ASSUME AlertsInv, Evaluating, sweep.mine, NEW f \in DOMAIN sweep.seen,
           NEW k \in 1..sweep.seen[f].lines
    PROVE  Line(f, sweep.seen[f], k) \in told[Cur] \cup passed[Cur] \cup PassedOver
<1> DEFINE content == sweep.seen[f]
           l == Line(f, content, k)
<1>1. /\ content \in Content /\ f \in Files /\ OfFiles(sweep.known, Mark)
      /\ k \in Nat /\ k >= 1 /\ k <= content.lines
  BY DEF AlertsInv, EvaluationInv, OfFiles, Content
<1>2. PassedOver = Lost \cup Indexed(alerts[Cur].due \ DOMAIN sweep.seen) \cup
         UNION {Skipped(g) \cup FinishedLater(g) \cup Overlooked(g, sweep.seen[g], sweep.known) :
                    g \in DOMAIN sweep.seen}
  BY DEF PassedOver
<1>3. Skipped(f) \cup FinishedLater(f) \cup Overlooked(f, content, sweep.known) \subseteq PassedOver
  BY <1>2
<1>4. CASE k \notin Finished(content)
  BY <1>3, <1>4 DEF FinishedLater
<1>5. CASE k \in Finished(content) /\ k > After(f) + MaxHits
  BY <1>3, <1>5, HitsAtTheLimit
<1>6. CASE k \in Finished(content) /\ k > After(f) /\ k <= After(f) + MaxHits
  <2>1. l \in sweep.hits
    BY <1>6 DEF AlertsInv, EvaluationInv
  <2>2. sweep.sent => Sent \subseteq told[Cur]
    BY DEF AlertsInv, AccountsInv
  <2> QED BY <1>2, <2>1, <2>2 DEF Lost
<1>7. CASE k \in Finished(content) /\ k <= After(f)
  <2>1. /\ f \in DOMAIN sweep.known /\ sweep.known[f].line <= content.lines
        /\ After(f) = sweep.known[f].line
    BY <1>1, <1>7 DEF After
  <2>2. l \in Lines(f, content) /\ l.number = k /\ l.turn = content.turn
    BY <1>7 DEF Lines, Line
  <2>3. CASE sweep.known[f].turn # content.turn \/ ~sweep.known[f].own
    BY <1>3, <1>7, <2>1, <2>2, <2>3 DEF Overlooked
  <2>4. CASE sweep.known[f].turn = content.turn /\ sweep.known[f].own
    <3>1. UpTo(f, sweep.known[f]) \subseteq told[Cur] \cup passed[Cur]
      BY <2>1, <2>4 DEF AlertsInv, AccountsInv, Accounted
    <3>2. k \in 1..sweep.known[f].line
      BY <1>1, <1>7, <2>1 DEF OfFiles, Mark
    <3>3. l = Line(f, sweep.known[f], k)
      BY <2>4 DEF Line
    <3> QED BY <3>1, <3>2, <3>3 DEF UpTo
  <2> QED BY <2>3, <2>4
<1>8. After(f) \in Nat /\ MaxHits \in Nat
  BY <1>1, BoundsAssumption DEF After, OfFiles, Mark
<1> QED BY <1>1, <1>4, <1>5, <1>6, <1>7, <1>8

\* The mark of a file that was read covers what the check told of it.
LEMMA HitsBehindMark ==
    ASSUME AlertsInv, EvalCommit, sweep.mine, NEW l \in sweep.hits
    PROVE  /\ l.file \in DOMAIN MarksRecorded
           /\ Behind(l, MarksRecorded[l.file])
<1>1. Evaluating /\ Cur \in Ids
  BY DEF EvalCommit, Evaluating, AlertsInv, EvaluationInv
<1>2. PICK f \in DOMAIN sweep.seen : \E n \in Finished(sweep.seen[f]) :
            l = Line(f, sweep.seen[f], n) /\ n > After(f)
  BY <1>1 DEF AlertsInv, EvaluationInv
<1>3. PICK n \in Finished(sweep.seen[f]) : l = Line(f, sweep.seen[f], n) /\ n > After(f)
  BY <1>2
<1>4. l.file = f /\ l.turn = sweep.seen[f].turn /\ l.number = n
  BY <1>3 DEF Line
<1>5. sweep.seen[f] \in Content /\ n \in Nat /\ n <= sweep.seen[f].lines
  <2>1. sweep.seen[f] \in Content
    BY <1>1 DEF AlertsInv, EvaluationInv, OfFiles
  <2> QED BY <2>1 DEF Finished, Content
<1>6. /\ f \in DOMAIN MarksRecorded
      /\ MarksRecorded[f] = [line |-> sweep.seen[f].lines, turn |-> sweep.seen[f].turn,
                             own |-> sweep.mine]
  BY DEF MarksRecorded
<1> QED BY <1>4, <1>5, <1>6 DEF Behind, Content

LEMMA EvalCommitKeeps ==
    ASSUME AlertsInv, EvalCommit
    PROVE  AlertsInv'
<1>1. /\ sweep.pc = "commit" /\ Evaluating /\ Cur \in DOMAIN alerts /\ Cur \in Ids
      /\ marks' = [marks EXCEPT ![Cur] = MarksRecorded]
      /\ alerts' = [alerts EXCEPT ![Cur].due = {}]
      /\ passed' = [passed EXCEPT ![Cur] = @ \cup PassedOver]
      /\ UNCHANGED <<disk, index, source, owner, told, again>>
  BY DEF EvalCommit, Evaluating, AlertsInv, EvaluationInv
<1>2. ~Evaluating' /\ sweep'.pc = "next"
  BY DEF EvalCommit, Evaluating, NextUp
<1>3. /\ OfFiles(sweep.seen, Content) /\ OfFiles(sweep.known, Mark)
      /\ sweep.mine \in BOOLEAN /\ (~sweep.mine => told[Cur] = {})
  BY <1>1 DEF AlertsInv, EvaluationInv
<1>4. /\ DOMAIN marks' = Ids /\ marks'[Cur] = MarksRecorded
      /\ \A i \in Ids : i # Cur => marks'[i] = marks[i]
  BY <1>1 DEF AlertsInv, TablesInv
<1>5. /\ DOMAIN MarksRecorded = DOMAIN marks[Cur] \cup DOMAIN sweep.seen
      /\ \A f \in DOMAIN MarksRecorded : MarksRecorded[f] =
            IF f \in DOMAIN sweep.seen
            THEN [line |-> sweep.seen[f].lines, turn |-> sweep.seen[f].turn, own |-> sweep.mine]
            ELSE marks[Cur][f]
  BY DEF MarksRecorded
<1>6. \A f \in DOMAIN MarksRecorded \cap DOMAIN sweep.seen :
        /\ MarksRecorded[f].line = sweep.seen[f].lines
        /\ MarksRecorded[f].turn = sweep.seen[f].turn
        /\ MarksRecorded[f].own = sweep.mine
  <2> SUFFICES ASSUME NEW f \in DOMAIN MarksRecorded \cap DOMAIN sweep.seen
               PROVE  MarksRecorded[f] = [line |-> sweep.seen[f].lines, turn |-> sweep.seen[f].turn,
                                          own |-> sweep.mine]
    OBVIOUS
  <2> QED BY <1>5
<1>7. /\ DOMAIN passed' = Ids /\ passed'[Cur] = passed[Cur] \cup PassedOver
      /\ \A i \in Ids : passed[i] \subseteq passed'[i]
  BY <1>1 DEF AlertsInv, TablesInv
<1>8. /\ DOMAIN alerts' = DOMAIN alerts /\ alerts'[Cur].due = {}
      /\ \A i \in DOMAIN alerts : DOMAIN alerts'[i] = DOMAIN alerts[i]
      /\ \A i \in DOMAIN alerts : i # Cur => alerts'[i] = alerts[i]
  BY <1>1 DEF AlertsInv, TablesInv
<1>9. TablesInv'
  <2>1. OfFiles(MarksRecorded, Mark)
    <3>1. DOMAIN MarksRecorded \subseteq Files
      BY <1>1, <1>3, <1>5 DEF AlertsInv, TablesInv, OfFiles
    <3>2. ASSUME NEW f \in DOMAIN MarksRecorded PROVE MarksRecorded[f] \in Mark
      <4>1. CASE f \in DOMAIN sweep.seen
        <5>1. sweep.seen[f] \in Content
          BY <1>3, <4>1 DEF OfFiles
        <5>2. sweep.seen[f].lines \in Nat /\ sweep.seen[f].turn \in Nat
          BY <5>1 DEF Content
        <5> HIDE DEF Mark
        <5>3. [line |-> sweep.seen[f].lines, turn |-> sweep.seen[f].turn,
               own |-> sweep.mine] \in Mark
          BY <1>3, <5>2, Zenon DEF Mark
        <5> QED BY <1>5, <4>1, <5>3
      <4>2. CASE f \notin DOMAIN sweep.seen
        BY <1>1, <1>5, <4>2 DEF AlertsInv, TablesInv, OfFiles
      <4> QED BY <4>1, <4>2
    <3> QED BY <3>1, <3>2 DEF OfFiles
  <2>2. \A i \in Ids : OfFiles(marks'[i], Mark)
    BY <1>4, <2>1 DEF AlertsInv, TablesInv
  <2> QED BY <1>1, <1>4, <1>7, <1>8, <2>2 DEF AlertsInv, TablesInv
<1>10. EvaluationInv'
  BY <1>2 DEF EvaluationInv
<1>11. AccountsInv'
  <2>1. ASSUME NEW i \in Ids PROVE Accounted(i, marks[i])'
    <3> SUFFICES ASSUME NEW f \in DOMAIN marks'[i], marks'[i][f].own
                 PROVE  (UpTo(f, marks[i][f]) \subseteq told[i] \cup passed[i])'
      BY DEF Accounted
    <3>1. CASE i # Cur \/ f \notin DOMAIN sweep.seen
      <4>1. f \in DOMAIN marks[i] /\ marks'[i][f] = marks[i][f]
        BY <1>4, <1>5, <3>1
      <4>2. UpTo(f, marks[i][f]) \subseteq told[i] \cup passed[i]
        BY <4>1 DEF AlertsInv, AccountsInv, Accounted
      <4>3. UpTo(f, marks[i][f])' = UpTo(f, marks[i][f])
        BY <4>1 DEF UpTo, Line
      <4> QED BY <1>1, <1>7, <4>2, <4>3
    <3>2. CASE i = Cur /\ f \in DOMAIN sweep.seen
      <4>1. /\ sweep.mine /\ marks'[i][f].line = sweep.seen[f].lines
            /\ marks'[i][f].turn = sweep.seen[f].turn
        BY <1>4, <1>6, <3>2
      <4>2. \A k \in 1..sweep.seen[f].lines :
                Line(f, sweep.seen[f], k) \in told[Cur] \cup passed[Cur] \cup PassedOver
        BY <1>1, <3>2, <4>1, ReadIsAccounted
      <4> QED BY <1>1, <1>7, <3>2, <4>1, <4>2 DEF UpTo, Line
    <3> QED BY <3>1, <3>2
  <2>2. ASSUME NEW i \in DOMAIN alerts, NEW f \in DOMAIN index \ alerts'[i].due
        PROVE  Lines(f, index[f]) \subseteq told[i] \cup passed'[i]
    <3>1. CASE i # Cur \/ f \notin alerts[i].due \cup DOMAIN sweep.seen
      <4>1. f \notin alerts[i].due /\ i \in Ids
        BY <1>8, <3>1 DEF AlertsInv, TablesInv
      <4>2. Lines(f, index[f]) \subseteq told[i] \cup passed[i]
        BY <4>1 DEF AlertsInv, AccountsInv
      <4> QED BY <1>7, <4>1, <4>2
    <3>2. CASE i = Cur /\ sweep.mine /\ f \in DOMAIN sweep.seen
      <4>1. index[f] = sweep.seen[f] /\ index[f] \in Content
        BY <1>1, <1>3, <3>2 DEF AlertsInv, EvaluationInv, OfFiles
      <4>2. Finished(index[f]) \subseteq 1..index[f].lines
        BY <4>1 DEF Finished, Content
      <4>3. \A k \in 1..index[f].lines :
                Line(f, index[f], k) \in told[Cur] \cup passed[Cur] \cup PassedOver
        BY <1>1, <3>2, <4>1, ReadIsAccounted
      <4> QED BY <1>7, <3>2, <4>2, <4>3 DEF Lines
    <3>3. CASE i = Cur /\ sweep.mine /\ f \in alerts[i].due \ DOMAIN sweep.seen
      <4>1. Indexed(alerts[Cur].due \ DOMAIN sweep.seen) \subseteq PassedOver
        BY <3>3 DEF PassedOver
      <4>2. Lines(f, index[f]) \subseteq Indexed(alerts[Cur].due \ DOMAIN sweep.seen)
        BY <3>3 DEF Indexed
      <4> QED BY <1>7, <3>3, <4>1, <4>2
    <3>4. CASE i = Cur /\ ~sweep.mine
      <4>1. f \in Files
        BY DEF AlertsInv, TablesInv, OfFiles
      <4>2. Lines(f, index[f]) \subseteq PassedOver
        BY <3>4, <4>1 DEF PassedOver, Indexed
      <4> QED BY <1>7, <3>4, <4>2
    <3> QED BY <3>1, <3>2, <3>3, <3>4
  <2>3. ASSUME NEW i \in DOMAIN alerts', NEW f \in DOMAIN index' \ alerts'[i].due
        PROVE  (Lines(f, index[f]) \subseteq told[i] \cup passed[i])'
    <3>1. Lines(f, index[f])' = Lines(f, index[f])
      BY <1>1 DEF Lines, Line, Finished
    <3> QED BY <1>1, <1>8, <2>2, <3>1
  <2> QED BY <1>2, <2>1, <2>3 DEF AccountsInv
<1>12. GrowthInv'
  <2>1. ASSUME NEW i \in Ids, NEW f \in DOMAIN marks'[i]
        PROVE  /\ NotAfter(marks'[i][f].turn, marks'[i][f].line, disk[f])
               /\ f \in DOMAIN index => NotAfter(marks'[i][f].turn, marks'[i][f].line, index[f])
    <3>1. CASE i # Cur \/ f \notin DOMAIN sweep.seen
      <4>1. f \in DOMAIN marks[i] /\ marks'[i][f] = marks[i][f]
        BY <1>4, <1>5, <3>1
      <4> QED BY <4>1 DEF AlertsInv, GrowthInv
    <3>2. CASE i = Cur /\ f \in DOMAIN sweep.seen
      <4>1. marks'[i][f].line = sweep.seen[f].lines /\ marks'[i][f].turn = sweep.seen[f].turn
        BY <1>4, <1>6, <3>2
      <4>2. NotAfter(sweep.seen[f].turn, sweep.seen[f].lines, disk[f])
        BY <1>1, <3>2 DEF AlertsInv, GrowthInv
      <4>3. f \in DOMAIN index => index[f] = sweep.seen[f]
        BY <1>1, <3>2 DEF AlertsInv, EvaluationInv
      <4>4. NotAfter(sweep.seen[f].turn, sweep.seen[f].lines, sweep.seen[f])
        BY <1>3, <3>2 DEF OfFiles, Content, NotAfter
      <4> QED BY <4>1, <4>2, <4>3, <4>4
    <3> QED BY <3>1, <3>2
  <2>2. \A f \in DOMAIN index : NotAfter(index[f].turn, index[f].lines, disk[f])
    BY DEF AlertsInv, GrowthInv
  <2> QED BY <1>1, <1>2, <2>1, <2>2 DEF GrowthInv, NotAfter
<1>13. RepeatsInv'
  <2>1. ASSUME NEW i \in Ids, NEW l \in told[i] \ again[i], source[l.file] # "deleted"
        PROVE  l.file \in DOMAIN marks'[i] /\ Behind(l, marks'[i][l.file])
    <3>1. \/ sweep.mine /\ Cur = i /\ l \in sweep.hits
          \/ l.file \in DOMAIN marks[i] /\ Behind(l, marks[i][l.file])
      BY <2>1 DEF AlertsInv, RepeatsInv
    <3>2. CASE sweep.mine /\ Cur = i /\ l \in sweep.hits
      BY <1>4, <3>2, HitsBehindMark
    <3>3. CASE l.file \in DOMAIN marks[i] /\ Behind(l, marks[i][l.file])
      <4> DEFINE f == l.file
      <4>1. CASE i # Cur \/ f \notin DOMAIN sweep.seen
        BY <1>4, <1>5, <3>3, <4>1
      <4>2. CASE i = Cur /\ f \in DOMAIN sweep.seen
        <5>1. /\ f \in DOMAIN marks'[i]
              /\ marks'[i][f].line = sweep.seen[f].lines /\ marks'[i][f].turn = sweep.seen[f].turn
          BY <1>4, <1>5, <1>6, <3>3, <4>2
        <5>2. NotAfter(marks[i][f].turn, marks[i][f].line, sweep.seen[f])
          BY <1>1, <3>3, <4>2 DEF AlertsInv, GrowthInv
        <5>3. /\ marks[i][f].turn \in Nat /\ marks[i][f].line \in Nat
              /\ sweep.seen[f].turn \in Nat /\ sweep.seen[f].lines \in Nat
              /\ l.turn \in Nat /\ l.number \in Nat
          BY <1>3, <3>3, <4>2 DEF AlertsInv, TablesInv, OfFiles, Mark, Content, Numbered
        <5> QED BY <3>3, <5>1, <5>2, <5>3 DEF Behind, NotAfter
      <4> QED BY <4>1, <4>2
    <3> QED BY <3>1, <3>2, <3>3
  <2> QED BY <1>1, <1>2, <2>1 DEF RepeatsInv, Behind
<1> QED BY <1>9, <1>10, <1>11, <1>12, <1>13 DEF AlertsInv

LEMMA AlertsStep == AlertsInv /\ [AlertsNext]_alertsVars => AlertsInv'
<1> SUFFICES ASSUME AlertsInv, [AlertsNext]_alertsVars PROVE AlertsInv'
  OBVIOUS
<1>1. CASE Sweep
  BY <1>1, IndexSweepKeeps
<1>2. CASE Evaluate
  BY <1>2, PassingKeeps, EvalReadKeeps, SendWebhookKeeps, EvalCommitKeeps DEF Evaluate
<1>3. CASE EvalFails \/ EvalSkips \/ Crash
  BY <1>3, FailureKeeps, SkippingKeeps
<1>4. CASE \E f \in Files : AppendLine(f) \/ FinishLine(f) \/ Rotate(f) \/ SetListed(f)
  BY <1>4, FilesKeep, RowRequestsKeep
<1>5. CASE CreateAlert \/ \E i \in Ids : UpdateAlert(i) \/ DeleteAlert(i)
  BY <1>5, RowRequestsKeep, DeletionsKeep
<1>6. CASE SetOwner \/ \E f \in Files : UpdateSource(f) \/ MoveSource(f) \/ DeleteSource(f)
  BY <1>6, RowRequestsKeep, SourceUpdatesKeep, DeletionsKeep
<1>7. CASE UNCHANGED alertsVars
  BY <1>7 DEF alertsVars, AlertsInv, TablesInv, EvaluationInv, AccountsInv, GrowthInv, RepeatsInv,
              Evaluating, Cur, After, Sent, FoundBefore, Line, Lines, Finished, Accounted, UpTo,
              NotAfter, Behind
<1> QED BY <1>1, <1>2, <1>3, <1>4, <1>5, <1>6, <1>7 DEF AlertsNext

\* Everything up to an alert's own mark was reported or passed over, and a mark is never
\* behind what its alert has told: the two sides of AlertFileState (alerts.py).
THEOREM SpecAlertsInv == AlertsSpec => []AlertsInv
BY AlertsInitially, AlertsStep, PTL DEF AlertsSpec

\* No line that is indexed gets lost to an alert but for the reasons EveryMatchAccounted
\* lists, whatever requests, faults and rotations come between (alerts.py).
THEOREM SpecEveryMatchAccounted == AlertsSpec => []EveryMatchAccounted
<1>1. AlertsInv => EveryMatchAccounted
  <2> SUFFICES ASSUME AlertsInv, NEW i \in DOMAIN alerts, NEW f \in DOMAIN index,
                      NEW l \in Lines(f, index[f]), l \notin told[i] \cup passed[i]
               PROVE  /\ f \in alerts[i].due
                      /\ \/ l.number > StartAfter(i, f)
                         \/ l \in Overlooked(f, index[f], marks[i])
    BY DEF EveryMatchAccounted
  <2>1. i \in Ids /\ index[f] \in Content /\ OfFiles(marks[i], Mark)
    BY DEF AlertsInv, TablesInv, OfFiles
  <2>2. f \in alerts[i].due
    BY DEF AlertsInv, AccountsInv
  <2>3. PICK k \in Finished(index[f]) : l = Line(f, index[f], k)
    BY DEF Lines
  <2>4. l.number = k /\ k \in Nat /\ k >= 1
    BY <2>1, <2>3 DEF Line, Finished, Content
  <2> SUFFICES ASSUME l.number <= StartAfter(i, f)
               PROVE  l \in Overlooked(f, index[f], marks[i])
    <3>1. StartAfter(i, f) \in Nat
      BY <2>1 DEF StartAfter, OfFiles, Mark
    <3> QED BY <2>2, <2>4, <3>1
  <2>5. f \in DOMAIN marks[i] /\ marks[i][f].line <= index[f].lines /\ k <= marks[i][f].line
    BY <2>4 DEF StartAfter
  <2>6. marks[i][f].turn # index[f].turn \/ ~marks[i][f].own
    <3> SUFFICES ASSUME marks[i][f].turn = index[f].turn, marks[i][f].own PROVE FALSE
      OBVIOUS
    <3>1. UpTo(f, marks[i][f]) \subseteq told[i] \cup passed[i]
      BY <2>1, <2>5 DEF AlertsInv, AccountsInv, Accounted
    <3>2. l = Line(f, marks[i][f], k) /\ k \in 1..marks[i][f].line
      BY <2>1, <2>3, <2>4, <2>5 DEF Line, OfFiles, Mark
    <3> QED BY <3>1, <3>2 DEF UpTo
  <2> QED BY <2>4, <2>5, <2>6 DEF Overlooked
<1> QED BY <1>1, SpecAlertsInv, PTL

\* A webhook is never given a line twice but for the lines of a check that failed after it,
\* of a source that was switched off or moved, and of a file that was gone or hidden when it
\* was looked for (models.AlertFileState).
THEOREM SpecNoRepeats == AlertsSpec => NoRepeats
<1>1. AlertsInv /\ [AlertsNext]_alertsVars =>
        [\A i \in Ids : SendWebhook /\ sweep.mine /\ Cur = i =>
            Sent \cap told[i] \subseteq again[i]]_alertsVars
  BY DEF AlertsInv, RepeatsInv, SendWebhook, Sent
<1> QED BY <1>1, SpecAlertsInv, PTL DEF AlertsSpec, NoRepeats

=============================================================================
