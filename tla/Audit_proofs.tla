---------------------------- MODULE Audit_proofs ----------------------------
(***************************************************************************)
(* The audit log, for any number of writers, any history the database may  *)
(* start from and any retention: the chain never forks, only prefixes are  *)
(* deleted, and a sweep that saw a young row deletes old rows only.  With  *)
(* the checks beside them, and whatever is edited: only what the race of   *)
(* #213 forked is ever recorded as a known break, and a changed row, or    *)
(* the first that is deleted, is reported.  As long as nobody edits, and   *)
(* ids have not started again: what is recorded stays accepted, and the    *)
(* log verifies.                                                           *)
(***************************************************************************)
EXTENDS AuditIntegrity, SequenceTheorems, WellFoundedInduction, TLAPS

(***************************************************************************)
(* The inductive invariant.                                                *)
(***************************************************************************)

\* A transaction that wrote something holds the lock; nothing runs while down.
LockInv ==
    /\ \A w \in Writers :
        (tx[w].pc \in {"writing", "locked", "added"} \/ tx[w].rows # <<>>)
            => writeLock = w
    /\ ~up => /\ purge.pc = "idle"
              /\ \A w \in Writers : tx[w] = IdleTx

\* Pending rows chain from the committed tip, which cannot move under the lock.
PendingInv ==
    \A w \in Writers : \A k \in 1..Len(tx[w].rows) :
        /\ tx[w].rows[k].hash # NoHash
        /\ tx[w].rows[k].prev =
            IF k = 1 THEN CurrentChainTip(log, chainStates) ELSE tx[w].rows[k - 1].hash

\* Before the first boot rows may all be unhashed; afterwards none is.
HashedInv ==
    /\ up => \A i \in 1..Len(log) : log[i].hash # NoHash
    /\ \/ \A i \in 1..Len(log) : log[i].hash # NoHash
       \/ \A i \in 1..Len(log) : log[i].hash = NoHash /\ log[i].hash < FirstHash

\* The sweep's boundary is still in the log, everything below it is old, and the
\* chosen anchor is the row just below it.
PurgeInv ==
    /\ purge.pc # "idle" /\ purge.first # NoId =>
        /\ \E i \in 1..Len(log) : log[i].id = purge.first
        /\ \A i \in 1..Len(log) :
            log[i].id < purge.first => log[i].at < purge.cutoff
    /\ purge.pc = "picked" /\ purge.first # NoId =>
        \E k \in 0..(Len(log) - 1) :
            /\ log[k + 1].id = purge.first
            /\ purge.newest = IF k = 0 THEN NoRow
                              ELSE [id |-> log[k].id, hash |-> log[k].hash]
    /\ purge.pc = "picked" /\ purge.newest # NoRow =>
        (purge.stateRow = 0 <=> chainStates = <<>>)

\* A state row that the sweep has found stays.
StateInv == purge.stateRow # 0 => chainStates # <<>>

\* What holds whoever edits the database, and what does as long as nobody does.
BaseInv == TypeOK /\ SortedById(log) /\ LockInv /\ PendingInv /\ HashedInv /\ StateInv
ChainInv == ChainUnforked /\ PurgeInv

IInv == BaseInv /\ ChainInv

\* Each step keeps the one, and the two together.
Keeps == BaseInv' /\ (ChainInv => ChainInv')

(***************************************************************************)
(* Lemmas about the operators of the model.                                *)
(***************************************************************************)

\* A non-empty set of naturals has a least element, and Min returns it.
LEMMA MinOfNats ==
    ASSUME NEW S \in SUBSET Nat, S # {}
    PROVE  Min(S) \in S /\ \A y \in S : Min(S) <= y
<1> DEFINE R == {ss \in Nat \X Nat : ss[1] < ss[2]}
<1>1. IsWellFoundedOn(R, Nat)
  BY NatLessThanWellFounded DEF OpToRel
<1>2. \E x \in S : \A y \in S : ~(<<y, x>> \in R)
  <2> HIDE DEF R
  <2> QED BY <1>1, WFMin
<1>3. PICK x \in S : \A y \in S : ~(<<y, x>> \in R)
  BY <1>2
<1>4. ASSUME NEW y \in S PROVE x <= y
  <2>1. ~(<<y, x>> \in R)
    BY <1>3
  <2>2. x \in Nat /\ y \in Nat
    OBVIOUS
  <2> QED BY <2>1, <2>2
<1> QED BY <1>4 DEF Min

\* A non-empty set of naturals below a bound has a greatest element, which Max returns.
LEMMA MaxOfNats ==
    ASSUME NEW S \in SUBSET Nat, S # {}, NEW bound \in Nat, \A x \in S : x <= bound
    PROVE  Max(S) \in S /\ \A y \in S : y <= Max(S)
<1> DEFINE D == {bound - x : x \in S}
<1>1. D \in SUBSET Nat /\ D # {}
  <2>1. ASSUME NEW x \in S PROVE bound - x \in Nat
    <3>1. x \in Nat /\ x <= bound
      OBVIOUS
    <3> QED BY <3>1
  <2> QED BY <2>1
<1>2. Min(D) \in D /\ \A d \in D : Min(D) <= d
  <2> HIDE DEF D
  <2> QED BY <1>1, MinOfNats
<1>3. PICK x \in S : Min(D) = bound - x
  BY <1>2
<1>4. ASSUME NEW y \in S PROVE y <= x
  <2>1. Min(D) <= bound - y
    BY <1>2
  <2>2. x \in Nat /\ y \in Nat
    OBVIOUS
  <2> QED BY <1>3, <2>1, <2>2
<1> QED BY <1>4 DEF Max

\* Committing appends the pending rows, with ids from NextId on.
LEMMA InsertedRows ==
    ASSUME NEW rows \in Seq(Row), NEW pending \in Seq(PendingRow)
    PROVE  /\ Inserted(rows, pending) \in Seq(Row)
           /\ Len(Inserted(rows, pending)) = Len(rows) + Len(pending)
           /\ \A i \in 1..Len(rows) : Inserted(rows, pending)[i] = rows[i]
           /\ \A i \in 1..(Len(rows) + Len(pending)) : i > Len(rows) =>
                Inserted(rows, pending)[i] =
                    [id |-> NextId(rows) + (i - Len(rows)) - 1,
                     at |-> pending[i - Len(rows)].at,
                     prev |-> pending[i - Len(rows)].prev,
                     hash |-> pending[i - Len(rows)].hash,
                     valid |-> TRUE]
<1> DEFINE new == [k \in 1..Len(pending) |->
                    [id |-> NextId(rows) + k - 1, at |-> pending[k].at,
                     prev |-> pending[k].prev, hash |-> pending[k].hash,
                     valid |-> TRUE]]
<1>1. NextId(rows) \in Nat \ {0}
  <2>1. CASE rows = <<>>
    BY <2>1 DEF NextId
  <2>2. CASE rows # <<>>
    <3>1. Len(rows) \in Nat \ {0}
      BY <2>2, EmptySeq, LenProperties
    <3>2. rows[Len(rows)] \in Row
      BY <3>1, ElementOfSeq
    <3> QED BY <2>2, <3>2 DEF NextId, Row, NoId
  <2> QED BY <2>1, <2>2
<1>2. ASSUME NEW k \in 1..Len(pending) PROVE new[k] \in Row
  <2>1. pending[k] \in PendingRow
    BY ElementOfSeq
  <2>2. NextId(rows) + k - 1 \in Nat \ {0}
    BY <1>1
  <2> QED BY <2>1, <2>2 DEF Row, PendingRow, NoId
<1>3. new \in Seq(Row) /\ Len(new) = Len(pending)
  <2>1. Len(pending) \in Nat
    BY LenProperties
  <2>2. new \in [1..Len(pending) -> Row]
    BY <1>2
  <2> HIDE DEF new
  <2> QED BY <2>1, <2>2, SeqDef, LenProperties
<1>4. Inserted(rows, pending) = rows \o new
  BY DEF Inserted
<1>5. \A k \in 1..Len(pending) :
        new[k] = [id |-> NextId(rows) + k - 1, at |-> pending[k].at,
                  prev |-> pending[k].prev, hash |-> pending[k].hash,
                  valid |-> TRUE]
  OBVIOUS
<1> HIDE DEF new
<1>6. /\ rows \o new \in Seq(Row)
      /\ Len(rows \o new) = Len(rows) + Len(new)
      /\ \A i \in 1..(Len(rows) + Len(new)) :
            (rows \o new)[i] = IF i <= Len(rows) THEN rows[i] ELSE new[i - Len(rows)]
  BY <1>3, ConcatProperties
<1>7. ASSUME NEW i \in 1..(Len(rows) + Len(pending)), i > Len(rows)
      PROVE  (rows \o new)[i] = new[i - Len(rows)] /\ i - Len(rows) \in 1..Len(pending)
  <2>1. Len(rows) \in Nat /\ Len(pending) \in Nat
    BY LenProperties
  <2> QED BY <1>3, <1>6, <1>7, <2>1
<1>8. ASSUME NEW i \in 1..Len(rows) PROVE (rows \o new)[i] = rows[i]
  <2>1. Len(rows) \in Nat /\ Len(new) \in Nat
    BY LenProperties, <1>3
  <2> QED BY <1>6, <2>1
<1> QED BY <1>3, <1>4, <1>5, <1>6, <1>7, <1>8

\* The next id is above all there are, so committing keeps the log sorted.
LEMMA NextIdAbove ==
    ASSUME NEW rows \in Seq(Row), SortedById(rows)
    PROVE  NextId(rows) \in Nat \ {0} /\ \A i \in 1..Len(rows) : rows[i].id < NextId(rows)
<1> DEFINE n == Len(rows)
<1>1. n \in Nat /\ \A i \in 1..n : rows[i] \in Row
  BY LenProperties, ElementOfSeq
<1>2. CASE n = 0
  BY <1>1, <1>2, EmptySeq DEF NextId
<1>3. CASE n # 0
  <2>1. rows # <<>> /\ n \in 1..n
    BY <1>1, <1>3, EmptySeq
  <2>2. ASSUME NEW i \in 1..n PROVE rows[i].id <= rows[n].id
    <3>1. rows[i].id \in Nat /\ rows[n].id \in Nat
      BY <1>1, <2>1 DEF Row
    <3>2. i < n => rows[i].id < rows[n].id
      BY <2>1 DEF SortedById
    <3> QED BY <1>1, <3>1, <3>2
  <2>3. \A i \in 1..n : rows[i].id \in Nat
    BY <1>1 DEF Row
  <2> QED BY <2>1, <2>2, <2>3 DEF NextId
<1> QED BY <1>2, <1>3

LEMMA InsertedSorted ==
    ASSUME NEW rows \in Seq(Row), SortedById(rows), NEW pending \in Seq(PendingRow)
    PROVE  SortedById(Inserted(rows, pending))
<1> DEFINE new == Inserted(rows, pending)
           n == Len(rows)
<1>1. n \in Nat /\ Len(pending) \in Nat /\ Len(new) = n + Len(pending)
  BY LenProperties, InsertedRows
<1>2. NextId(rows) \in Nat \ {0} /\ \A i \in 1..n : rows[i].id < NextId(rows)
  BY NextIdAbove
<1>3. ASSUME NEW i \in 1..n PROVE new[i] = rows[i] /\ rows[i].id \in Nat
  <2>1. rows[i] \in Row
    BY ElementOfSeq
  <2> QED BY <2>1, InsertedRows DEF Row
<1>4. ASSUME NEW i \in 1..Len(new), i > n PROVE new[i].id = NextId(rows) + (i - n) - 1
  <2>1. i \in 1..(n + Len(pending))
    BY <1>1
  <2>2. new[i] = [id |-> NextId(rows) + (i - n) - 1, at |-> pending[i - n].at,
                  prev |-> pending[i - n].prev, hash |-> pending[i - n].hash, valid |-> TRUE]
    BY <1>4, <2>1, InsertedRows
  <2> QED BY <2>2
<1> HIDE DEF new
<1> SUFFICES ASSUME NEW i \in 1..Len(new), NEW j \in 1..Len(new), i < j
             PROVE  new[i].id < new[j].id
  BY DEF SortedById, new
<1>5. CASE j <= n
  <2>1. i \in 1..n /\ j \in 1..n
    BY <1>1, <1>5
  <2> QED BY <1>3, <2>1 DEF SortedById
<1> HIDE DEF n
<1>6. CASE j > n /\ i <= n
  <2>1. i \in 1..n /\ new[j].id = NextId(rows) + (j - n) - 1
    BY <1>1, <1>4, <1>6
  <2> QED BY <1>1, <1>2, <1>3, <1>6, <2>1
<1>7. CASE i > n
  <2>1. new[i].id = NextId(rows) + (i - n) - 1 /\ new[j].id = NextId(rows) + (j - n) - 1
    BY <1>1, <1>4, <1>7
  <2> QED BY <1>1, <1>2, <2>1
<1> QED BY <1>1, <1>5, <1>6, <1>7

\* Deleting the first k rows.
LEMMA SuffixRows ==
    ASSUME NEW S, NEW rows \in Seq(S), NEW k \in 0..Len(rows)
    PROVE  /\ SubSeq(rows, k + 1, Len(rows)) \in Seq(S)
           /\ Len(SubSeq(rows, k + 1, Len(rows))) = Len(rows) - k
           /\ \A i \in 1..(Len(rows) - k) : SubSeq(rows, k + 1, Len(rows))[i] = rows[k + i]
<1>1. Len(rows) \in Nat
  BY LenProperties
<1>2. \A i \in (k + 1)..Len(rows) : rows[i] \in S
  BY ElementOfSeq, <1>1
<1>3. k + 1 \in Int /\ Len(rows) \in Int
  BY <1>1
<1>4. /\ SubSeq(rows, k + 1, Len(rows)) \in Seq(S)
      /\ Len(SubSeq(rows, k + 1, Len(rows))) =
            IF k + 1 <= Len(rows) THEN Len(rows) - (k + 1) + 1 ELSE 0
      /\ \A i \in 1..(Len(rows) - (k + 1) + 1) :
            SubSeq(rows, k + 1, Len(rows))[i] = rows[k + 1 + i - 1]
  BY <1>1, <1>2, <1>3, SubSeqProperties
<1>5. Len(rows) - (k + 1) + 1 = Len(rows) - k
  BY <1>1
<1>6. Len(SubSeq(rows, k + 1, Len(rows))) = Len(rows) - k
  BY <1>1, <1>4
<1>7. ASSUME NEW i \in 1..(Len(rows) - k)
      PROVE  SubSeq(rows, k + 1, Len(rows))[i] = rows[k + i]
  <2>1. k + 1 + i - 1 = k + i
    BY <1>1
  <2> QED BY <1>4, <1>5, <2>1
<1> QED BY <1>4, <1>6, <1>7

\* The backfill leaves a hashed log alone and chains an unhashed one row by row.
LEMMA BackfilledRows ==
    ASSUME TypeOK, HashedInv
    PROVE  \/ Unhashed = {} /\ Backfilled = log
           \/ /\ Unhashed # {}
              /\ Backfilled \in Seq(Row)
              /\ Len(Backfilled) = Len(log)
              /\ \A i \in 1..Len(log) :
                    Backfilled[i] = [log[i] EXCEPT
                        !.prev = IF i = 1 THEN AnchorHash(chainStates)
                                 ELSE nextHash + (i - 1) - 1,
                        !.hash = nextHash + i - 1,
                        !.valid = TRUE]
<1>1. log \in Seq(Row) /\ Len(log) \in Nat /\ nextHash \in Nat \ {0}
  BY LenProperties DEF TypeOK
<1>2. CASE \A i \in 1..Len(log) : log[i].hash # NoHash
  <2>1. Unhashed = {}
    BY <1>2 DEF Unhashed
  <2>2. Backfilled = [i \in 1..Len(log) |-> log[i]]
    BY <2>1 DEF Backfilled, BackfilledRow
  <2>3. log = [i \in 1..Len(log) |-> log[i]]
    BY <1>1, LenProperties
  <2> QED BY <2>1, <2>2, <2>3
<1>3. CASE /\ \A i \in 1..Len(log) : log[i].hash = NoHash
           /\ ~ \A i \in 1..Len(log) : log[i].hash # NoHash
  <2>1. Unhashed = 1..Len(log) /\ Unhashed # {}
    BY <1>3 DEF Unhashed
  <2>2. log # <<>> /\ Len(log) \in Nat \ {0}
    BY <1>1, <2>1, EmptySeq
  <2>3. CurrentChainTip(log, chainStates) = AnchorHash(chainStates)
    BY <1>3, <2>2 DEF CurrentChainTip
  <2>4. AnchorHash(chainStates) \in Nat
    <3>1. CASE chainStates = <<>>
      BY <3>1 DEF AnchorHash, NoHash
    <3>2. CASE chainStates # <<>>
      <4>1. chainStates[1] \in ChainState
        BY <3>2, EmptySeq, ElementOfSeq DEF TypeOK
      <4> QED BY <3>2, <4>1 DEF AnchorHash, ChainState
    <3> QED BY <3>1, <3>2
  <2> DEFINE row(i) == [log[i] EXCEPT
                            !.prev = IF i = 1 THEN AnchorHash(chainStates)
                                     ELSE nextHash + (i - 1) - 1,
                            !.hash = nextHash + i - 1,
                            !.valid = TRUE]
  <2>5. ASSUME NEW i \in 1..Len(log)
        PROVE  BackfilledRow(i) = row(i)
    <3>1. {j \in Unhashed : j < i} = 1..(i - 1)
      BY <1>1, <2>1
    <3>2. CASE i = 1
      <4>1. {j \in Unhashed : j < i} = {}
        BY <3>1, <3>2
      <4> QED BY <2>1, <2>3, <3>2, <4>1 DEF BackfilledRow
    <3>3. CASE i # 1
      <4>1. i - 1 \in {j \in Unhashed : j < i}
        BY <1>1, <3>1, <3>3
      <4>2. Max({j \in Unhashed : j < i}) = i - 1
        BY <1>1, <3>1, <4>1 DEF Max
      <4>3. {j \in Unhashed : j < i} # {}
        BY <4>1
      <4> QED BY <2>1, <3>3, <4>2, <4>3 DEF BackfilledRow
    <3> QED BY <3>2, <3>3
  <2>6. ASSUME NEW i \in 1..Len(log)
        PROVE  row(i) \in Row
    <3>1. log[i] \in Row
      BY <1>1, ElementOfSeq
    <3>2. nextHash + i - 1 \in Nat /\ (i # 1 => nextHash + (i - 1) - 1 \in Nat)
      BY <1>1
    <3> QED BY <2>4, <3>1, <3>2 DEF Row
  <2>7. Backfilled \in [1..Len(log) -> Row]
    BY <2>5, <2>6 DEF Backfilled
  <2>8. Backfilled \in Seq(Row) /\ Len(Backfilled) = Len(log)
    BY <1>1, <2>7, SeqDef, LenProperties
  <2>9. \A i \in 1..Len(log) : Backfilled[i] = row(i)
    BY <2>5 DEF Backfilled
  <2> QED BY <2>1, <2>8, <2>9
<1> QED BY <1>2, <1>3 DEF HashedInv

(***************************************************************************)
(* The initial states.                                                     *)
(***************************************************************************)

LEMMA InitEstablishes == Init => IInv
<1> SUFFICES ASSUME Init PROVE IInv
  OBVIOUS
<1>1. PICK h \in Histories : log = h.log /\ chainStates = h.chainStates /\ now = h.now
  BY DEF Init
<1>2. /\ log \in Seq(Row) /\ chainStates \in Seq(ChainState) /\ now \in Nat
      /\ SortedById(log)
      /\ \A i \in 1..Len(log) : log[i].hash < FirstHash
      /\ \/ \A i \in 1..Len(log) : log[i].hash = NoHash
         \/ \A i \in 1..Len(log) : log[i].hash # NoHash
  BY <1>1, HistoriesAssumption
<1>3. FirstHash \in Nat \ {0}
  BY BoundsAssumption
<1>4. ASSUME NEW i \in 1..Len(log) PROVE log[i].hash \in Nat
  <2>1. log[i] \in Row
    BY <1>2, ElementOfSeq
  <2> QED BY <2>1 DEF Row
<1>5. <<>> \in Seq(PendingRow) /\ Len(<<>>) = 0
  BY EmptySeq
<1>6. TypeOK
  <2>1. tx \in [Writers -> [pc: {"idle", "writing", "built", "locked", "added"},
                           at: Nat, rows: Seq(PendingRow)]]
    BY <1>5 DEF Init, IdleTx
  <2>2. purge \in [pc: {"idle", "scanned", "picked"}, cutoff: Int, first: Nat,
                  newest: [id: Nat, hash: Nat], stateRow: {0, 1}]
    BY DEF Init, IdlePurge, NoRow, NoId, NoHash
  <2> QED BY <1>2, <1>3, <2>1, <2>2 DEF Init, TypeOK
<1>7. ChainUnforked
  BY <1>2, <1>3, <1>4 DEF ChainUnforked
<1>8. LockInv
  BY DEF Init, LockInv, IdleTx, IdlePurge
<1>9. PendingInv
  BY <1>5 DEF Init, PendingInv, IdleTx
<1>10. HashedInv
  BY <1>2 DEF Init, HashedInv
<1>11. PurgeInv
  BY DEF Init, PurgeInv, IdlePurge
<1>12. StateInv
  BY DEF Init, StateInv, IdlePurge
<1> QED BY <1>2, <1>6, <1>7, <1>8, <1>9, <1>10, <1>11, <1>12 DEF IInv, BaseInv, ChainInv

(***************************************************************************)
(* Steps that leave the committed rows alone.                              *)
(***************************************************************************)

\* What such a step keeps without further argument.
LEMMA QuietRows ==
    ASSUME BaseInv, UNCHANGED <<log, chainStates>>, up' => up
    PROVE  SortedById(log)' /\ HashedInv' /\ (ChainUnforked => ChainUnforked')
<1>1. SortedById(log)' /\ HashedInv'
  BY DEF BaseInv, SortedById, HashedInv
<1>2. ChainUnforked => ChainUnforked'
  BY DEF ChainUnforked, ExpectedPrev, AnchorHash
<1> QED BY <1>1, <1>2

\* Also when the sweep stays where it is, or ends.
LEMMA QuietStep ==
    ASSUME BaseInv, UNCHANGED <<log, chainStates>>, up' => up,
           purge' = purge \/ purge' = IdlePurge
    PROVE  SortedById(log)' /\ HashedInv' /\ StateInv' /\ (ChainInv => ChainInv')
<1>1. StateInv'
  BY DEF BaseInv, StateInv, IdlePurge
<1>2. PurgeInv => PurgeInv'
  BY DEF PurgeInv, IdlePurge
<1> QED BY <1>1, <1>2, QuietRows DEF ChainInv

\* Pending rows keep their links as long as the committed tip stays.
LEMMA PendingKept ==
    ASSUME PendingInv, UNCHANGED <<log, chainStates>>,
           \A v \in Writers : tx'[v].rows = tx[v].rows
    PROVE  PendingInv'
<1>1. CurrentChainTip(log, chainStates)' = CurrentChainTip(log, chainStates)
  BY DEF CurrentChainTip, AnchorHash
<1> QED BY <1>1 DEF PendingInv

LEMMA TickStep == BaseInv /\ Tick => Keeps
<1> SUFFICES ASSUME BaseInv, Tick PROVE Keeps
  OBVIOUS
<1>1. SortedById(log)' /\ HashedInv' /\ StateInv' /\ (ChainInv => ChainInv')
  BY QuietStep DEF Tick
<1>2. TypeOK'
  BY DEF BaseInv, Tick, TypeOK
<1>3. LockInv' /\ PendingInv'
  BY DEF BaseInv, Tick, LockInv, PendingInv, CurrentChainTip, AnchorHash
<1> QED BY <1>1, <1>2, <1>3 DEF Keeps, BaseInv

LEMMA FlushEarlierStep == ASSUME NEW w \in Writers PROVE BaseInv /\ FlushEarlier(w) => Keeps
<1> SUFFICES ASSUME BaseInv, FlushEarlier(w) PROVE Keeps
  OBVIOUS
<1>1. SortedById(log)' /\ HashedInv' /\ StateInv' /\ (ChainInv => ChainInv')
  BY QuietStep DEF FlushEarlier
<1>2. TypeOK'
  BY DEF BaseInv, FlushEarlier, TypeOK
<1>3. \A v \in Writers : tx'[v].rows = tx[v].rows /\ (v # w => tx'[v] = tx[v])
  BY DEF BaseInv, FlushEarlier, TypeOK
<1>4. LockInv'
  BY <1>3, WritersAssumption DEF BaseInv, FlushEarlier, LockInv, TypeOK
<1>5. PendingInv'
  BY <1>3, PendingKept DEF BaseInv, FlushEarlier
<1> QED BY <1>1, <1>2, <1>4, <1>5 DEF Keeps, BaseInv

LEMMA BuildEntryStep == ASSUME NEW w \in Writers PROVE BaseInv /\ BuildEntry(w) => Keeps
<1> SUFFICES ASSUME BaseInv, BuildEntry(w) PROVE Keeps
  OBVIOUS
<1>1. SortedById(log)' /\ HashedInv' /\ StateInv' /\ (ChainInv => ChainInv')
  BY QuietStep DEF BuildEntry
<1>2. TypeOK'
  BY DEF BaseInv, BuildEntry, TypeOK
<1>3. \A v \in Writers : tx'[v].rows = tx[v].rows /\ (v # w => tx'[v] = tx[v])
  BY DEF BaseInv, BuildEntry, TypeOK
<1>4. tx'[w].pc = "built" /\ up /\ up'
  BY DEF BaseInv, BuildEntry, TypeOK
<1>5. LockInv'
  BY <1>3, <1>4 DEF BaseInv, BuildEntry, LockInv
<1>6. PendingInv'
  BY <1>3, PendingKept DEF BaseInv, BuildEntry
<1> QED BY <1>1, <1>2, <1>5, <1>6 DEF Keeps, BaseInv

LEMMA TakeWriteLockStep ==
    ASSUME NEW w \in Writers PROVE BaseInv /\ TakeWriteLock(w) => Keeps
<1> SUFFICES ASSUME BaseInv, TakeWriteLock(w) PROVE Keeps
  OBVIOUS
<1>1. SortedById(log)' /\ HashedInv' /\ StateInv' /\ (ChainInv => ChainInv')
  BY QuietStep DEF TakeWriteLock
<1>2. TypeOK'
  BY DEF BaseInv, TakeWriteLock, TypeOK
<1>3. \A v \in Writers : tx'[v].rows = tx[v].rows /\ (v # w => tx'[v] = tx[v])
  BY DEF BaseInv, TakeWriteLock, TypeOK
<1>4. up /\ up'
  BY DEF BaseInv, TakeWriteLock, LockInv, IdleTx
<1>5. LockInv'
  BY <1>3, <1>4, WritersAssumption DEF BaseInv, TakeWriteLock, LockInv
<1>6. PendingInv'
  BY <1>3, PendingKept DEF BaseInv, TakeWriteLock
<1> QED BY <1>1, <1>2, <1>5, <1>6 DEF Keeps, BaseInv

LEMMA RollbackStep == ASSUME NEW w \in Writers PROVE BaseInv /\ Rollback(w) => Keeps
<1> SUFFICES ASSUME BaseInv, Rollback(w) PROVE Keeps
  OBVIOUS
<1>1. SortedById(log)' /\ HashedInv' /\ StateInv' /\ (ChainInv => ChainInv')
  BY QuietStep DEF Rollback
<1>2. <<>> \in Seq(PendingRow) /\ Len(<<>>) = 0
  BY EmptySeq
<1>3. TypeOK'
  BY <1>2 DEF BaseInv, Rollback, TypeOK, IdleTx
<1>4. tx'[w] = IdleTx /\ \A v \in Writers : v # w => tx'[v] = tx[v]
  BY DEF BaseInv, Rollback, TypeOK
<1>5. LockInv'
  BY <1>4, WritersAssumption DEF BaseInv, Rollback, LockInv, IdleTx
<1>6. PendingInv'
  <2> SUFFICES ASSUME NEW v \in Writers, NEW k \in 1..Len(tx'[v].rows)
               PROVE  /\ tx'[v].rows[k].hash # NoHash
                      /\ tx'[v].rows[k].prev =
                            IF k = 1 THEN CurrentChainTip(log, chainStates)'
                            ELSE tx'[v].rows[k - 1].hash
    BY DEF PendingInv
  <2>1. v # w
    BY <1>2, <1>4 DEF IdleTx
  <2> QED BY <1>4, <2>1 DEF BaseInv, Rollback, PendingInv, CurrentChainTip, AnchorHash
<1> QED BY <1>1, <1>3, <1>5, <1>6 DEF Keeps, BaseInv

LEMMA ChainNewEntryStep ==
    ASSUME NEW w \in Writers PROVE BaseInv /\ ChainNewEntry(w) => Keeps
<1> SUFFICES ASSUME BaseInv, ChainNewEntry(w) PROVE Keeps
  OBVIOUS
<1> DEFINE row == [at |-> tx[w].at, prev |-> TipSeenBy(w), hash |-> nextHash]
<1>1. SortedById(log)' /\ HashedInv' /\ StateInv' /\ (ChainInv => ChainInv')
  BY QuietStep DEF ChainNewEntry
<1>2. /\ tx[w].rows \in Seq(PendingRow) /\ Len(tx[w].rows) \in Nat
      /\ tx[w].at \in Nat /\ nextHash \in Nat \ {0}
  BY LenProperties DEF BaseInv, TypeOK
<1>3. TipSeenBy(w) \in Nat
  <2>1. CASE tx[w].rows # <<>>
    <3>1. Len(tx[w].rows) \in 1..Len(tx[w].rows)
      BY <1>2, <2>1, EmptySeq
    <3>2. tx[w].rows[Len(tx[w].rows)] \in PendingRow
      BY <1>2, <3>1, ElementOfSeq
    <3> QED BY <2>1, <3>2 DEF TipSeenBy, PendingRow
  <2>2. CASE tx[w].rows = <<>>
    <3>1. AnchorHash(chainStates) \in Nat
      <4>1. chainStates # <<>> => chainStates[1] \in ChainState
        BY EmptySeq, ElementOfSeq DEF BaseInv, TypeOK
      <4> QED BY <4>1 DEF AnchorHash, ChainState, NoHash
    <3>2. log # <<>> => log[Len(log)] \in Row
      <4>1. log \in Seq(Row)
        BY DEF BaseInv, TypeOK
      <4>2. log # <<>> => Len(log) \in 1..Len(log)
        BY <4>1, EmptySeq
      <4> QED BY <4>1, <4>2, ElementOfSeq
    <3> QED BY <2>2, <3>1, <3>2 DEF TipSeenBy, CurrentChainTip, Row
  <2> QED BY <2>1, <2>2
<1>4. row \in PendingRow
  BY <1>2, <1>3 DEF PendingRow
<1>5. /\ tx' = [tx EXCEPT ![w].pc = "added", ![w].rows = Append(tx[w].rows, row)]
      /\ nextHash' = nextHash + 1
      /\ UNCHANGED <<log, chainStates, writeLock, purge, now, up>>
      /\ tx[w].pc = "locked"
  BY DEF ChainNewEntry
<1>6. /\ tx[w].rows # <<>> => row.prev = tx[w].rows[Len(tx[w].rows)].hash
      /\ tx[w].rows = <<>> => row.prev = CurrentChainTip(log, chainStates)
      /\ row.hash = nextHash
  BY DEF TipSeenBy
<1> HIDE DEF row
<1>7. /\ Append(tx[w].rows, row) \in Seq(PendingRow)
      /\ Len(Append(tx[w].rows, row)) = Len(tx[w].rows) + 1
      /\ \A i \in 1..Len(tx[w].rows) : Append(tx[w].rows, row)[i] = tx[w].rows[i]
      /\ Append(tx[w].rows, row)[Len(tx[w].rows) + 1] = row
  BY <1>2, <1>4, AppendProperties
<1>8. TypeOK'
  <2>1. tx' \in [Writers -> [pc: {"idle", "writing", "built", "locked", "added"},
                            at: Nat, rows: Seq(PendingRow)]]
    <3> DEFINE Tx == [pc: {"idle", "writing", "built", "locked", "added"},
                      at: Nat, rows: Seq(PendingRow)]
               entry == [tx[w] EXCEPT !.pc = "added", !.rows = Append(tx[w].rows, row)]
    <3>1. tx \in [Writers -> Tx] /\ tx[w] \in Tx
      BY DEF BaseInv, TypeOK
    <3>2. entry \in Tx
      BY <1>7, <3>1
    <3>3. tx' = [tx EXCEPT ![w] = entry]
      BY <1>5, <3>1
    <3> HIDE DEF entry, Tx
    <3>4. tx' \in [Writers -> Tx]
      BY <3>1, <3>2, <3>3
    <3> QED BY <3>4 DEF Tx
  <2>2. nextHash' \in Nat \ {0}
    BY <1>2, <1>5
  <2>3. TypeOK /\ UNCHANGED <<log, chainStates, writeLock, purge, now, up>>
    BY <1>5 DEF BaseInv
  <2> QED BY <2>1, <2>2, <2>3 DEF TypeOK
<1>9. /\ tx'[w].pc = "added" /\ tx'[w].rows = Append(tx[w].rows, row)
      /\ \A v \in Writers : v # w => tx'[v] = tx[v]
  BY <1>5 DEF BaseInv, TypeOK
<1>10. up /\ writeLock = w
  BY <1>5 DEF BaseInv, LockInv, IdleTx
<1>11. LockInv'
  BY <1>5, <1>9, <1>10 DEF BaseInv, LockInv
<1>12. PendingInv'
  <2>1. CurrentChainTip(log, chainStates)' = CurrentChainTip(log, chainStates)
    BY <1>5 DEF CurrentChainTip, AnchorHash
  <2> SUFFICES ASSUME NEW v \in Writers, NEW k \in 1..Len(tx'[v].rows)
               PROVE  /\ tx'[v].rows[k].hash # NoHash
                      /\ tx'[v].rows[k].prev =
                            IF k = 1 THEN CurrentChainTip(log, chainStates)
                            ELSE tx'[v].rows[k - 1].hash
    BY <2>1 DEF PendingInv
  <2>2. CASE v # w
    BY <1>9, <2>2 DEF BaseInv, PendingInv
  <2>3. CASE v = w /\ k <= Len(tx[w].rows)
    <3>1. k \in 1..Len(tx[w].rows) /\ (k # 1 => k - 1 \in 1..Len(tx[w].rows))
      BY <1>2, <2>3
    <3>2. /\ tx'[v].rows[k] = tx[w].rows[k]
          /\ k # 1 => tx'[v].rows[k - 1] = tx[w].rows[k - 1]
      BY <1>7, <1>9, <2>3, <3>1
    <3> QED BY <2>3, <3>1, <3>2 DEF BaseInv, PendingInv
  <2>4. CASE v = w /\ ~(k <= Len(tx[w].rows))
    <3>1. k = Len(tx[w].rows) + 1
      BY <1>2, <1>7, <1>9, <2>4
    <3>2. tx'[v].rows[k] = row
      BY <1>7, <1>9, <2>4, <3>1
    <3>3. CASE k = 1
      <4>1. tx[w].rows = <<>>
        BY <1>2, <3>1, <3>3, EmptySeq
      <4> QED BY <1>2, <1>6, <3>2, <3>3, <4>1 DEF NoHash
    <3>4. CASE k # 1
      <4>1. tx[w].rows # <<>> /\ k - 1 = Len(tx[w].rows)
        BY <1>2, <3>1, <3>4, EmptySeq
      <4>2. k - 1 \in 1..Len(tx[w].rows)
        BY <1>2, <3>4, <4>1
      <4>3. tx'[v].rows[k - 1] = tx[w].rows[Len(tx[w].rows)]
        BY <1>7, <1>9, <2>4, <4>1, <4>2
      <4> QED BY <1>2, <1>6, <3>2, <3>4, <4>1, <4>3 DEF NoHash
    <3> QED BY <3>3, <3>4
  <2> QED BY <2>2, <2>3, <2>4
<1> QED BY <1>1, <1>8, <1>11, <1>12 DEF Keeps, BaseInv

LEMMA PurgeScanStep == BaseInv /\ PurgeScan => Keeps
<1> SUFFICES ASSUME BaseInv, PurgeScan PROVE Keeps
  OBVIOUS
<1>1. SortedById(log)' /\ HashedInv' /\ (ChainUnforked => ChainUnforked')
  BY QuietRows DEF PurgeScan
<1>2. PICK days \in Retentions \ {0} :
        LET cutoff == now - days
            young == {log[i].id : i \in {j \in 1..Len(log) : log[j].at >= cutoff}}
        IN purge' = [IdlePurge EXCEPT
                        !.pc = "scanned", !.cutoff = cutoff,
                        !.first = IF young = {} THEN NoId ELSE Min(young)]
  BY DEF PurgeScan
<1> DEFINE cutoff == now - days
           young == {log[i].id : i \in {j \in 1..Len(log) : log[j].at >= cutoff}}
<1>3. purge' = [IdlePurge EXCEPT
                    !.pc = "scanned", !.cutoff = cutoff,
                    !.first = IF young = {} THEN NoId ELSE Min(young)]
  BY <1>2
<1>4. \A i \in 1..Len(log) :
        /\ log[i].id \in Nat \ {NoId} /\ log[i].at \in Nat
        /\ log[i].at >= cutoff => log[i].id \in young
  <2> TAKE i \in 1..Len(log)
  <2>1. log[i] \in Row
    BY ElementOfSeq DEF BaseInv, TypeOK
  <2> QED BY <2>1 DEF Row
<1>5. \A x \in young : \E i \in 1..Len(log) : log[i].id = x
  OBVIOUS
<1>6. cutoff \in Int
  BY BoundsAssumption DEF BaseInv, TypeOK
<1> HIDE DEF young, cutoff
<1>7. young # {} => Min(young) \in young /\ \A y \in young : Min(young) <= y
  BY <1>4, <1>5, MinOfNats
<1>8. TypeOK'
  <2>1. purge'.first \in Nat
    BY <1>3, <1>4, <1>5, <1>7 DEF IdlePurge, NoId
  <2>2. purge' \in [pc: {"idle", "scanned", "picked"}, cutoff: Int, first: Nat,
                    newest: [id: Nat, hash: Nat], stateRow: {0, 1}]
    BY <1>3, <1>6, <2>1 DEF IdlePurge, NoRow, NoId, NoHash
  <2> QED BY <2>2 DEF BaseInv, TypeOK, PurgeScan
<1>9. LockInv' /\ PendingInv'
  <2>1. LockInv'
    BY DEF BaseInv, LockInv, PurgeScan
  <2> QED BY <2>1, PendingKept DEF BaseInv, PurgeScan
<1>10. PurgeInv'
  <2>1. purge'.pc = "scanned" /\ purge'.cutoff = cutoff /\ log' = log
    BY <1>3 DEF PurgeScan, IdlePurge
  <2>2. ASSUME purge'.first # NoId
        PROVE  /\ \E i \in 1..Len(log) : log[i].id = purge'.first
               /\ \A i \in 1..Len(log) :
                    log[i].id < purge'.first => log[i].at < cutoff
    <3>1. young # {} /\ purge'.first = Min(young)
      BY <1>3, <2>2 DEF IdlePurge
    <3>2. ASSUME NEW i \in 1..Len(log), log[i].id < purge'.first
          PROVE  log[i].at < cutoff
      <4>1. log[i].id \notin young
        BY <1>4, <1>5, <1>7, <3>1, <3>2
      <4> QED BY <1>4, <1>6, <4>1
    <3> QED BY <1>5, <1>7, <3>1, <3>2
  <2> QED BY <2>1, <2>2 DEF PurgeInv
<1>11. StateInv'
  BY <1>3 DEF StateInv, IdlePurge
<1> QED BY <1>1, <1>8, <1>9, <1>10, <1>11 DEF Keeps, BaseInv, ChainInv

\* The rows below a boundary that is in the log end just before it.
LEMMA BoundaryRow ==
    ASSUME BaseInv, purge.first # NoId, \E i \in 1..Len(log) : log[i].id = purge.first,
           NEW k \in 0..Len(log), MatchesPrefix(log, purge.first, k)
    PROVE  k \in 0..(Len(log) - 1) /\ log[k + 1].id = purge.first
<1>1. Len(log) \in Nat /\ purge.first \in Nat
  BY LenProperties DEF BaseInv, TypeOK
<1>2. ASSUME NEW i \in 1..Len(log)
      PROVE  log[i].id \in Nat /\ (i <= k <=> log[i].id < purge.first)
  <2>1. log[i] \in Row
    BY ElementOfSeq DEF BaseInv, TypeOK
  <2> QED BY <2>1 DEF Row, MatchesPrefix, InPrefix
<1>3. PICK i \in 1..Len(log) : log[i].id = purge.first
  OBVIOUS
<1>4. k < i
  BY <1>1, <1>2, <1>3
<1>5. k + 1 \in 1..Len(log) /\ ~(k + 1 <= k) /\ k + 1 <= i
  BY <1>1, <1>4
<1>6. log[k + 1].id <= log[i].id
  <2>1. CASE k + 1 = i
    BY <1>2, <2>1
  <2>2. CASE k + 1 < i
    BY <1>2, <1>5, <2>2 DEF BaseInv, SortedById
  <2> QED BY <1>5, <2>1, <2>2
<1>7. ~(log[k + 1].id < purge.first) /\ log[k + 1].id \in Nat
  BY <1>2, <1>5
<1> QED BY <1>1, <1>3, <1>5, <1>6, <1>7

LEMMA PurgePickAnchorStep == BaseInv /\ PurgePickAnchor => Keeps
<1> SUFFICES ASSUME BaseInv, PurgePickAnchor PROVE Keeps
  OBVIOUS
<1>1. SortedById(log)' /\ HashedInv' /\ (ChainUnforked => ChainUnforked')
  BY QuietRows DEF PurgePickAnchor
<1>2. PICK k \in 0..Len(log) :
        /\ MatchesPrefix(log, purge.first, k)
        /\ purge' = [purge EXCEPT
                        !.pc = "picked",
                        !.newest = IF k = 0 THEN NoRow
                                   ELSE [id |-> log[k].id, hash |-> log[k].hash],
                        !.stateRow = IF k # 0 /\ chainStates # <<>> THEN 1 ELSE 0]
  BY DEF PurgePickAnchor
<1>3. purge.pc = "scanned" /\ Len(log) \in Nat
  BY LenProperties DEF BaseInv, TypeOK, PurgePickAnchor
<1>4. k # 0 => log[k] \in Row
  BY <1>3, ElementOfSeq DEF BaseInv, TypeOK
<1>5. TypeOK'
  <2>1. purge' \in [pc: {"idle", "scanned", "picked"}, cutoff: Int, first: Nat,
                    newest: [id: Nat, hash: Nat], stateRow: {0, 1}]
    BY <1>2, <1>4 DEF BaseInv, TypeOK, NoRow, NoId, NoHash, Row
  <2> QED BY <2>1 DEF BaseInv, TypeOK, PurgePickAnchor
<1>6. LockInv'
  BY <1>3 DEF BaseInv, LockInv, PurgePickAnchor
<1>7. PendingInv'
  BY PendingKept DEF BaseInv, PurgePickAnchor
<1>8. /\ purge'.first = purge.first /\ purge'.cutoff = purge.cutoff
      /\ purge'.newest = IF k = 0 THEN NoRow
                         ELSE [id |-> log[k].id, hash |-> log[k].hash]
      /\ purge'.stateRow = IF k # 0 /\ chainStates # <<>> THEN 1 ELSE 0
      /\ log' = log /\ chainStates' = chainStates
  BY <1>2 DEF BaseInv, TypeOK, PurgePickAnchor
<1>9. ChainInv => PurgeInv'
  <2> SUFFICES ASSUME ChainInv PROVE PurgeInv'
    OBVIOUS
  <2>1. purge.first # NoId => k \in 0..(Len(log) - 1) /\ log[k + 1].id = purge.first
    BY <1>2, <1>3, BoundaryRow DEF ChainInv, PurgeInv
  <2>2. purge'.newest # NoRow => (purge'.stateRow = 0 <=> chainStates = <<>>)
    BY <1>8
  <2> QED BY <1>3, <1>8, <2>1, <2>2 DEF ChainInv, PurgeInv
<1>10. StateInv'
  BY <1>8 DEF StateInv
<1> QED BY <1>1, <1>5, <1>6, <1>7, <1>9, <1>10 DEF Keeps, BaseInv, ChainInv

LEMMA PurgeFailStep == BaseInv /\ PurgeFail => Keeps
<1> SUFFICES ASSUME BaseInv, PurgeFail PROVE Keeps
  OBVIOUS
<1>1. SortedById(log)' /\ HashedInv' /\ StateInv' /\ (ChainInv => ChainInv')
  BY QuietStep DEF PurgeFail
<1>2. TypeOK'
  BY DEF BaseInv, TypeOK, PurgeFail, IdlePurge, NoRow, NoId, NoHash
<1>3. LockInv'
  BY DEF BaseInv, LockInv, PurgeFail, IdlePurge
<1>4. PendingInv'
  BY PendingKept DEF BaseInv, PurgeFail
<1> QED BY <1>1, <1>2, <1>3, <1>4 DEF Keeps, BaseInv

LEMMA CrashStep == BaseInv /\ Crash => Keeps
<1> SUFFICES ASSUME BaseInv, Crash PROVE Keeps
  OBVIOUS
<1>1. SortedById(log)' /\ HashedInv' /\ StateInv' /\ (ChainInv => ChainInv')
  BY QuietStep DEF Crash
<1>2. <<>> \in Seq(PendingRow) /\ Len(<<>>) = 0
  BY EmptySeq
<1>3. TypeOK'
  <2>1. tx' \in [Writers -> [pc: {"idle", "writing", "built", "locked", "added"},
                            at: Nat, rows: Seq(PendingRow)]]
    BY <1>2 DEF Crash, IdleTx
  <2>2. purge' \in [pc: {"idle", "scanned", "picked"}, cutoff: Int, first: Nat,
                    newest: [id: Nat, hash: Nat], stateRow: {0, 1}]
    BY DEF Crash, IdlePurge, NoRow, NoId, NoHash
  <2>3. up' \in BOOLEAN /\ writeLock' \in Writers \cup {NoWriter}
    BY DEF Crash
  <2> QED BY <2>1, <2>2, <2>3 DEF BaseInv, TypeOK, Crash
<1>4. LockInv'
  BY DEF BaseInv, LockInv, Crash, IdlePurge, IdleTx
<1>5. PendingInv'
  BY <1>2 DEF Crash, PendingInv, IdleTx
<1> QED BY <1>1, <1>3, <1>4, <1>5 DEF Keeps, BaseInv

(***************************************************************************)
(* Steps that change the committed rows.                                   *)
(***************************************************************************)

LEMMA CommitStep == ASSUME NEW w \in Writers PROVE BaseInv /\ Commit(w) => Keeps
<1> SUFFICES ASSUME BaseInv, Commit(w) PROVE Keeps
  OBVIOUS
<1> DEFINE pending == tx[w].rows
           n == Len(log)
<1>1. /\ log \in Seq(Row) /\ n \in Nat
      /\ pending \in Seq(PendingRow) /\ Len(pending) \in Nat
  BY LenProperties DEF BaseInv, TypeOK
<1>2. /\ log' \in Seq(Row)
      /\ Len(log') = n + Len(pending)
      /\ \A i \in 1..n : log'[i] = log[i]
  BY <1>1, InsertedRows DEF Commit
<1>3. up /\ up' /\ writeLock = w /\ chainStates' = chainStates /\ purge' = purge
  <2>1. tx[w].pc # "idle" /\ tx[w] # IdleTx
    BY DEF Commit, IdleTx
  <2>2. up
    BY <2>1 DEF BaseInv, LockInv
  <2> QED BY <2>2 DEF BaseInv, LockInv, Commit
<1>4. tx'[w] = IdleTx /\ \A v \in Writers : v # w => tx'[v] = tx[v] /\ tx[v].rows = <<>>
  BY <1>3 DEF BaseInv, TypeOK, LockInv, Commit
<1>5. ASSUME NEW i \in 1..n
      PROVE  log[i].id \in Nat \ {0} /\ log[i].hash \in Nat /\ log[i].hash # NoHash
  <2>1. log[i] \in Row
    BY <1>1, ElementOfSeq
  <2> QED BY <1>3, <2>1 DEF BaseInv, HashedInv, Row, NoId
<1>6. NextId(log) \in Nat \ {0} /\ \A i \in 1..n : log[i].id < NextId(log)
  BY <1>1, NextIdAbove DEF BaseInv
<1>7. ASSUME NEW i \in 1..Len(log'), ~(i \in 1..n)
      PROVE  /\ i > n /\ i - n \in 1..Len(pending)
             /\ log'[i].id = NextId(log) + (i - n) - 1
             /\ log'[i].prev = pending[i - n].prev
             /\ log'[i].hash = pending[i - n].hash
  <2>1. i > n /\ i - n \in 1..Len(pending) /\ i \in 1..(n + Len(pending))
    BY <1>1, <1>2, <1>7
  <2>2. log' = Inserted(log, pending)
    BY DEF Commit
  <2>3. log'[i] = [id |-> NextId(log) + (i - n) - 1, at |-> pending[i - n].at,
                   prev |-> pending[i - n].prev, hash |-> pending[i - n].hash,
                   valid |-> TRUE]
    BY <1>1, <2>1, <2>2, InsertedRows
  <2> QED BY <2>1, <2>3
<1> HIDE DEF pending, n
<1>8. TypeOK'
  <2>1. <<>> \in Seq(PendingRow)
    BY EmptySeq
  <2>2. tx' \in [Writers -> [pc: {"idle", "writing", "built", "locked", "added"},
                            at: Nat, rows: Seq(PendingRow)]]
    BY <2>1 DEF BaseInv, TypeOK, Commit, IdleTx
  <2> QED BY <1>2, <2>2 DEF BaseInv, TypeOK, Commit
<1>9. SortedById(log)'
  <2>1. SortedById(Inserted(log, pending))
    BY <1>1, InsertedSorted DEF BaseInv
  <2> QED BY <2>1 DEF Commit, SortedById, pending
<1>10. ChainUnforked => ChainUnforked'
  <2> SUFFICES ASSUME ChainUnforked, NEW i \in 1..Len(log'), log'[i].hash >= FirstHash
               PROVE  log'[i].prev = IF i = 1 THEN AnchorHash(chainStates)
                                     ELSE log'[i - 1].hash
    BY <1>3 DEF ChainUnforked, ExpectedPrev
  <2>1. CASE i \in 1..n
    <3>1. i # 1 => i - 1 \in 1..n
      BY <1>1, <2>1
    <3>2. log'[i] = log[i] /\ (i # 1 => log'[i - 1] = log[i - 1])
      BY <1>2, <2>1, <3>1
    <3> QED BY <2>1, <3>2 DEF ChainUnforked, ExpectedPrev, n
  <2>2. CASE ~(i \in 1..n)
    <3> DEFINE k == i - n
    <3>1. k \in 1..Len(pending) /\ i > n /\ log'[i].prev = pending[k].prev
      BY <1>7, <2>2
    <3>2. pending[k].prev = IF k = 1 THEN CurrentChainTip(log, chainStates)
                            ELSE pending[k - 1].hash
      BY <3>1 DEF BaseInv, PendingInv, pending
    <3>3. CASE k # 1
      <4>1. i - 1 \in 1..Len(log') /\ ~(i - 1 \in 1..n) /\ (i - 1) - n = k - 1 /\ i # 1
        BY <1>1, <3>1, <3>3
      <4>2. log'[i - 1].hash = pending[(i - 1) - n].hash
        BY <1>7, <4>1
      <4> QED BY <3>1, <3>2, <3>3, <4>1, <4>2
    <3>4. CASE k = 1 /\ n = 0
      <4>1. log = <<>>
        BY <1>1, <3>4, EmptySeq DEF n
      <4>2. CurrentChainTip(log, chainStates) = AnchorHash(chainStates)
        BY <4>1 DEF CurrentChainTip
      <4> QED BY <3>1, <3>2, <3>4, <4>2
    <3>5. CASE k = 1 /\ n # 0
      <4>1. log # <<>> /\ n \in 1..n /\ i # 1 /\ i - 1 = n
        BY <1>1, <3>5, EmptySeq DEF n
      <4>2. CurrentChainTip(log, chainStates) = log[n].hash
        BY <1>5, <4>1 DEF CurrentChainTip, n
      <4> QED BY <1>2, <3>1, <3>2, <3>5, <4>1, <4>2
    <3> QED BY <1>1, <3>3, <3>4, <3>5
  <2> QED BY <2>1, <2>2
<1>11. LockInv'
  BY <1>3, <1>4, WritersAssumption DEF BaseInv, LockInv, Commit, IdleTx
<1>12. PendingInv'
  <2>1. \A v \in Writers : tx'[v].rows = <<>>
    BY <1>4 DEF IdleTx
  <2> QED BY <2>1, EmptySeq DEF PendingInv
<1>13. HashedInv'
  <2> SUFFICES ASSUME NEW i \in 1..Len(log') PROVE log'[i].hash # NoHash
    BY DEF HashedInv
  <2>1. CASE i \in 1..n
    BY <1>2, <1>5, <2>1
  <2>2. CASE ~(i \in 1..n)
    <3>1. log'[i].hash = pending[i - n].hash /\ i - n \in 1..Len(pending)
      BY <1>7, <2>2
    <3> QED BY <3>1 DEF BaseInv, PendingInv, pending
  <2> QED BY <2>1, <2>2
<1>14. PurgeInv => PurgeInv'
  <2> SUFFICES ASSUME PurgeInv PROVE PurgeInv'
    OBVIOUS
  <2>1. ASSUME purge.pc # "idle", purge.first # NoId,
               NEW i \in 1..Len(log'), log'[i].id < purge.first
        PROVE  i \in 1..n
    <3>1. PICK j \in 1..n : log[j].id = purge.first
      BY <2>1 DEF PurgeInv, n
    <3>2. purge.first < NextId(log) /\ purge.first \in Nat
      BY <1>5, <1>6, <3>1
    <3>3. CASE ~(i \in 1..n)
      <4>1. log'[i].id = NextId(log) + (i - n) - 1 /\ i > n
        BY <1>7, <3>3
      <4> QED BY <1>1, <1>6, <2>1, <3>2, <4>1
    <3> QED BY <3>3
  <2>2. ASSUME purge.pc # "idle", purge.first # NoId
        PROVE  /\ \E i \in 1..Len(log') : log'[i].id = purge.first
               /\ \A i \in 1..Len(log') :
                    log'[i].id < purge.first => log'[i].at < purge.cutoff
    <3>1. PICK i \in 1..n : log[i].id = purge.first
      BY <2>2 DEF PurgeInv, n
    <3>2. i \in 1..Len(log') /\ log'[i].id = purge.first
      BY <1>1, <1>2, <3>1
    <3>3. \A j \in 1..n : log'[j].id < purge.first => log'[j].at < purge.cutoff
      BY <1>2, <2>2 DEF PurgeInv, n
    <3> QED BY <2>1, <2>2, <3>2, <3>3
  <2>3. ASSUME purge.pc = "picked", purge.first # NoId
        PROVE  \E k \in 0..(Len(log') - 1) :
                /\ log'[k + 1].id = purge.first
                /\ purge.newest = IF k = 0 THEN NoRow
                                  ELSE [id |-> log'[k].id, hash |-> log'[k].hash]
    <3>1. PICK k \in 0..(n - 1) :
                /\ log[k + 1].id = purge.first
                /\ purge.newest = IF k = 0 THEN NoRow
                                  ELSE [id |-> log[k].id, hash |-> log[k].hash]
      BY <2>3 DEF PurgeInv, n
    <3>2. k \in 0..(Len(log') - 1) /\ k + 1 \in 1..n /\ (k # 0 => k \in 1..n)
      BY <1>1, <1>2, <3>1
    <3>3. log'[k + 1].id = purge.first /\ (k # 0 => log'[k] = log[k])
      BY <1>2, <3>1, <3>2
    <3> QED BY <3>1, <3>2, <3>3
  <2> QED BY <1>3, <2>2, <2>3 DEF PurgeInv
<1>15. StateInv'
  BY <1>3 DEF BaseInv, StateInv
<1> QED BY <1>8, <1>9, <1>10, <1>11, <1>12, <1>13, <1>14, <1>15 DEF Keeps, BaseInv, ChainInv

\* Writing the anchor: the first state row keeps its hash or gets the purged row's, and
\* gets it unless a check has inserted that row since the sweep looked for one.
LEMMA AnchorWrittenRow ==
    ASSUME TypeOK, StateInv, purge.pc = "picked"
    PROVE  /\ AnchorWritten(chainStates) \in Seq(ChainState)
           /\ chainStates # <<>> => AnchorWritten(chainStates) # <<>>
           /\ purge.newest = NoRow => AnchorWritten(chainStates) = chainStates
           /\ AnchorHash(AnchorWritten(chainStates)) =
                IF purge.newest # NoRow /\ (purge.stateRow # 0 \/ chainStates = <<>>)
                THEN purge.newest.hash ELSE AnchorHash(chainStates)
<1>1. /\ chainStates \in Seq(ChainState) /\ Len(chainStates) \in Nat
      /\ purge.newest.id \in Nat /\ purge.newest.hash \in Nat
  BY LenProperties DEF TypeOK
<1>2. ASSUME NEW c \in ChainState
      PROVE  /\ WithAnchor(c, purge.newest) \in ChainState
             /\ WithAnchor(c, purge.newest).anchorHash = purge.newest.hash
  BY <1>1 DEF WithAnchor, ChainState
<1>3. CASE purge.newest = NoRow
  BY <1>1, <1>3 DEF AnchorWritten
<1>4. CASE purge.newest # NoRow /\ purge.stateRow = 0
  <2> DEFINE fresh == WithAnchor(NewChainState, purge.newest)
  <2>1. NewChainState \in ChainState
    BY DEF NewChainState, ChainState, Statuses, NoId, NoHash
  <2>2. fresh \in ChainState /\ fresh.anchorHash = purge.newest.hash
    BY <1>2, <2>1
  <2>3. AnchorWritten(chainStates) = Append(chainStates, fresh)
    BY <1>4 DEF AnchorWritten
  <2> HIDE DEF fresh
  <2>4. /\ Append(chainStates, fresh) \in Seq(ChainState)
        /\ Len(Append(chainStates, fresh)) = Len(chainStates) + 1
        /\ \A i \in 1..Len(chainStates) : Append(chainStates, fresh)[i] = chainStates[i]
        /\ Append(chainStates, fresh)[Len(chainStates) + 1] = fresh
    BY <1>1, <2>2, AppendProperties
  <2>5. Append(chainStates, fresh) # <<>>
    BY <1>1, <2>4, EmptySeq
  <2>6. CASE chainStates = <<>>
    <3>1. Append(chainStates, fresh)[1] = fresh
      BY <2>4, <2>6, EmptySeq
    <3> QED BY <1>4, <2>2, <2>3, <2>4, <2>5, <2>6, <3>1 DEF AnchorHash
  <2>7. CASE chainStates # <<>>
    <3>1. 1 \in 1..Len(chainStates)
      BY <1>1, <2>7, EmptySeq
    <3> QED BY <1>4, <2>3, <2>4, <2>5, <2>7, <3>1 DEF AnchorHash
  <2> QED BY <2>6, <2>7
<1>5. CASE purge.newest # NoRow /\ purge.stateRow # 0
  <2>1. chainStates # <<>> /\ 1 \in 1..Len(chainStates)
    BY <1>1, <1>5, EmptySeq DEF StateInv
  <2>2. chainStates[1] \in ChainState
    BY <1>1, <2>1, ElementOfSeq
  <2> DEFINE first == WithAnchor(chainStates[1], purge.newest)
  <2>3. AnchorWritten(chainStates) = [chainStates EXCEPT ![1] = first]
    BY <1>5 DEF AnchorWritten
  <2>4. first \in ChainState /\ first.anchorHash = purge.newest.hash
    BY <1>2, <2>2
  <2> HIDE DEF first
  <2>5. /\ [chainStates EXCEPT ![1] = first] \in Seq(ChainState)
        /\ Len([chainStates EXCEPT ![1] = first]) = Len(chainStates)
        /\ [chainStates EXCEPT ![1] = first][1] = first
    BY <1>1, <2>1, <2>4, ExceptSeq
  <2>6. [chainStates EXCEPT ![1] = first] # <<>>
    BY <1>1, <2>1, <2>5, EmptySeq
  <2> QED BY <1>5, <2>3, <2>4, <2>5, <2>6 DEF AnchorHash
<1> QED BY <1>3, <1>4, <1>5

\* Where there is one state row afterwards, the anchor is in the row that is read.
LEMMA AnchorWrittenLength ==
    ASSUME BaseInv, purge.pc = "picked", chainStates' = AnchorWritten(chainStates),
           Len(chainStates') <= 1
    PROVE  /\ Len(chainStates) <= 1
           /\ purge.newest # NoRow => purge.stateRow # 0 \/ chainStates = <<>>
<1>1. chainStates \in Seq(ChainState) /\ Len(chainStates) \in Nat
  BY LenProperties DEF BaseInv, TypeOK
<1>2. CASE purge.newest = NoRow
  BY <1>2 DEF AnchorWritten
<1>3. CASE purge.newest # NoRow /\ purge.stateRow = 0
  <2> DEFINE fresh == WithAnchor(NewChainState, purge.newest)
  <2>1. chainStates' = Append(chainStates, fresh)
    BY <1>3 DEF AnchorWritten
  <2>2. fresh \in ChainState
    <3>1. NewChainState \in ChainState
      BY DEF NewChainState, ChainState, Statuses, NoId, NoHash
    <3>2. purge.newest.id \in Nat /\ purge.newest.hash \in Nat
      BY DEF BaseInv, TypeOK
    <3> QED BY <3>1, <3>2 DEF WithAnchor, ChainState
  <2> HIDE DEF fresh
  <2>3. Len(chainStates') = Len(chainStates) + 1
    BY <1>1, <2>1, <2>2, AppendProperties
  <2>4. Len(chainStates) = 0
    BY <1>1, <2>3
  <2> QED BY <1>1, <2>4, EmptySeq
<1>4. CASE purge.newest # NoRow /\ purge.stateRow # 0
  <2> DEFINE first == WithAnchor(chainStates[1], purge.newest)
  <2>1. chainStates' = [chainStates EXCEPT ![1] = first]
    BY <1>4 DEF AnchorWritten
  <2>2. chainStates # <<>> /\ 1 \in 1..Len(chainStates)
    BY <1>1, <1>4, EmptySeq DEF BaseInv, StateInv
  <2>3. first \in ChainState
    <3>1. chainStates[1] \in ChainState
      BY <1>1, <2>2, ElementOfSeq
    <3>2. purge.newest.id \in Nat /\ purge.newest.hash \in Nat
      BY DEF BaseInv, TypeOK
    <3> QED BY <3>1, <3>2 DEF WithAnchor, ChainState
  <2> HIDE DEF first
  <2>4. Len(chainStates') = Len(chainStates)
    BY <1>1, <2>1, <2>2, <2>3, ExceptSeq
  <2> QED BY <1>4, <2>4
<1> QED BY <1>2, <1>3, <1>4

LEMMA PurgeDeleteStep == BaseInv /\ PurgeDelete => Keeps
<1> SUFFICES ASSUME BaseInv, PurgeDelete PROVE Keeps
  OBVIOUS
<1> DEFINE n == Len(log)
<1>1. PICK k \in 0..n : MatchesPrefix(log, purge.first, k) /\ log' = SubSeq(log, k + 1, n)
  BY DEF PurgeDelete
<1>2. log \in Seq(Row) /\ n \in Nat
  BY LenProperties DEF BaseInv, TypeOK
<1>3. /\ log' \in Seq(Row) /\ Len(log') = n - k
      /\ \A i \in 1..(n - k) : log'[i] = log[k + i]
  BY <1>1, <1>2, SuffixRows
<1>4. /\ purge.pc = "picked" /\ writeLock = NoWriter /\ purge' = IdlePurge
      /\ chainStates' = AnchorWritten(chainStates)
      /\ tx' = tx /\ up' = up /\ writeLock' = writeLock
      /\ now' = now /\ nextHash' = nextHash
  BY DEF PurgeDelete
<1>5. up /\ \A w \in Writers : tx[w].rows = <<>>
  BY <1>4, WritersAssumption DEF BaseInv, LockInv
<1>6. /\ chainStates' \in Seq(ChainState)
      /\ AnchorHash(chainStates') =
            IF purge.newest # NoRow /\ (purge.stateRow # 0 \/ chainStates = <<>>)
            THEN purge.newest.hash ELSE AnchorHash(chainStates)
  BY <1>4, AnchorWrittenRow DEF BaseInv
<1>7. ASSUME NEW i \in 1..(n - k) PROVE k + i \in 1..n
  BY <1>2
<1> HIDE DEF n
<1>8. TypeOK'
  <2>1. purge' \in [pc: {"idle", "scanned", "picked"}, cutoff: Int, first: Nat,
                    newest: [id: Nat, hash: Nat], stateRow: {0, 1}]
    BY <1>4 DEF IdlePurge, NoRow, NoId, NoHash
  <2> QED BY <1>3, <1>4, <1>6, <2>1 DEF BaseInv, TypeOK
<1>9. SortedById(log)'
  <2> SUFFICES ASSUME NEW i \in 1..(n - k), NEW j \in 1..(n - k), i < j
               PROVE  log'[i].id < log'[j].id
    BY <1>3 DEF SortedById
  <2>1. log'[i] = log[k + i] /\ log'[j] = log[k + j]
    BY <1>3
  <2>2. k + i \in 1..n /\ k + j \in 1..n /\ k + i < k + j
    BY <1>2, <1>7
  <2> QED BY <2>1, <2>2 DEF BaseInv, SortedById, n
<1>10. ChainInv => ChainUnforked'
  <2> SUFFICES ASSUME ChainInv, NEW i \in 1..(n - k), log'[i].hash >= FirstHash
               PROVE  log'[i].prev = IF i = 1 THEN AnchorHash(chainStates')
                                     ELSE log'[i - 1].hash
    BY <1>3 DEF ChainUnforked, ExpectedPrev
  <2>1. k + i \in 1..n /\ log'[i] = log[k + i]
    BY <1>3, <1>7
  <2>2. log[k + i].prev = IF k + i = 1 THEN AnchorHash(chainStates)
                          ELSE log[(k + i) - 1].hash
    BY <2>1 DEF ChainInv, ChainUnforked, ExpectedPrev, n
  <2>3. CASE i # 1
    <3>1. i - 1 \in 1..(n - k) /\ k + (i - 1) = (k + i) - 1 /\ k + i # 1
      BY <1>2, <2>3
    <3>2. log'[i - 1] = log[k + (i - 1)]
      BY <1>3, <3>1
    <3> QED BY <2>1, <2>2, <2>3, <3>1, <3>2
  <2>4. CASE i = 1
    <3>1. purge.first # NoId
      <4>1. CASE purge.first = NoId
        <5>1. k + i <= k
          BY <1>1, <2>1, <4>1 DEF MatchesPrefix, InPrefix, n
        <5> QED BY <1>2, <5>1
      <4> QED BY <4>1
    <3>2. k \in 0..(n - 1) /\ log[k + 1].id = purge.first
      BY <1>1, <1>4, <3>1, BoundaryRow DEF n, ChainInv, PurgeInv
    <3>3. PICK m \in 0..(n - 1) :
            /\ log[m + 1].id = purge.first
            /\ purge.newest = IF m = 0 THEN NoRow
                              ELSE [id |-> log[m].id, hash |-> log[m].hash]
      BY <1>4, <3>1 DEF ChainInv, PurgeInv, n
    <3>4. m = k
      <4>1. m + 1 \in 1..n /\ k + 1 \in 1..n
        BY <1>2, <3>2, <3>3
      <4>2. log[m + 1] \in Row /\ log[k + 1] \in Row
        BY <1>2, <4>1, ElementOfSeq DEF n
      <4>3. log[m + 1].id \in Nat /\ log[k + 1].id \in Nat
        BY <4>2 DEF Row
      <4>4. ~(m + 1 < k + 1) /\ ~(k + 1 < m + 1)
        BY <3>2, <3>3, <4>1, <4>3 DEF BaseInv, SortedById, n
      <4> QED BY <1>2, <4>4
    <3>5. CASE k = 0
      BY <1>6, <2>1, <2>2, <2>4, <3>3, <3>4, <3>5
    <3>6. CASE k # 0
      <4>1. k \in 1..n /\ k + 1 # 1 /\ (k + 1) - 1 = k
        BY <1>2, <3>2, <3>6
      <4>2. log[k] \in Row
        BY <1>2, <4>1, ElementOfSeq DEF n
      <4>3. purge.newest # NoRow /\ purge.newest.hash = log[k].hash
        BY <3>3, <3>4, <3>6, <4>2 DEF NoRow, Row, NoId
      <4>4. purge.stateRow # 0 \/ chainStates = <<>>
        BY <1>4, <4>3 DEF ChainInv, PurgeInv
      <4> QED BY <1>6, <2>1, <2>2, <2>4, <4>1, <4>3, <4>4
    <3> QED BY <3>5, <3>6
  <2> QED BY <2>3, <2>4
<1>11. LockInv' /\ PurgeInv' /\ StateInv'
  BY <1>4, <1>5 DEF BaseInv, LockInv, PurgeInv, StateInv, IdlePurge
<1>12. PendingInv'
  BY <1>4, <1>5, EmptySeq DEF PendingInv
<1>13. HashedInv'
  <2> SUFFICES ASSUME NEW i \in 1..(n - k) PROVE log'[i].hash # NoHash
    BY <1>3 DEF HashedInv
  <2>1. k + i \in 1..n /\ log'[i] = log[k + i]
    BY <1>3, <1>7
  <2> QED BY <1>5, <2>1 DEF BaseInv, HashedInv, n
<1> QED BY <1>8, <1>9, <1>10, <1>11, <1>12, <1>13 DEF Keeps, BaseInv, ChainInv

LEMMA BootStep == BaseInv /\ Boot => Keeps
<1> SUFFICES ASSUME BaseInv, Boot PROVE Keeps
  OBVIOUS
<1> DEFINE n == Len(log)
<1>1. log \in Seq(Row) /\ n \in Nat /\ nextHash \in Nat \ {0}
  BY LenProperties DEF BaseInv, TypeOK
<1>2. /\ ~up /\ up' = TRUE /\ log' = Backfilled
      /\ chainStates' = chainStates /\ tx' = tx /\ purge' = purge
      /\ writeLock' = writeLock /\ now' = now
      /\ nextHash' = IF Unhashed = {} THEN nextHash ELSE nextHash + n
  BY DEF Boot
<1>3. purge.pc = "idle" /\ \A w \in Writers : tx[w] = IdleTx
  BY <1>2 DEF BaseInv, LockInv
<1>4. nextHash' \in Nat \ {0}
  BY <1>1, <1>2
<1>5. LockInv' /\ PurgeInv' /\ StateInv'
  BY <1>2, <1>3 DEF BaseInv, LockInv, PurgeInv, StateInv
<1>6. PendingInv'
  BY <1>2, <1>3, EmptySeq DEF PendingInv, IdleTx
<1>7. CASE Unhashed = {} /\ log' = log
  <2>1. TypeOK'
    BY <1>2, <1>4, <1>7 DEF BaseInv, TypeOK
  <2>2. SortedById(log)' /\ (ChainUnforked => ChainUnforked')
    BY <1>2, <1>7 DEF BaseInv, SortedById, ChainUnforked, ExpectedPrev, AnchorHash
  <2>3. HashedInv'
    BY <1>7 DEF HashedInv, Unhashed
  <2> QED BY <1>5, <1>6, <2>1, <2>2, <2>3 DEF Keeps, BaseInv, ChainInv
<1>8. CASE /\ log' \in Seq(Row) /\ Len(log') = n
           /\ \A i \in 1..n :
                log'[i] = [log[i] EXCEPT
                    !.prev = IF i = 1 THEN AnchorHash(chainStates)
                             ELSE nextHash + (i - 1) - 1,
                    !.hash = nextHash + i - 1,
                    !.valid = TRUE]
  <2>1. ASSUME NEW i \in 1..n
        PROVE  /\ log'[i].id = log[i].id
               /\ log'[i].prev = IF i = 1 THEN AnchorHash(chainStates)
                                 ELSE nextHash + (i - 1) - 1
               /\ log'[i].hash = nextHash + i - 1
    <3>1. log[i] \in Row
      BY <1>1, ElementOfSeq
    <3> DEFINE p == IF i = 1 THEN AnchorHash(chainStates) ELSE nextHash + (i - 1) - 1
               h == nextHash + i - 1
    <3>2. log'[i] = [log[i] EXCEPT !.prev = p, !.hash = h, !.valid = TRUE]
      BY <1>8
    <3> HIDE DEF p, h
    <3>3. log'[i].id = log[i].id /\ log'[i].prev = p /\ log'[i].hash = h
      BY <3>1, <3>2 DEF Row
    <3> QED BY <3>3 DEF p, h
  <2> HIDE DEF n
  <2>2. TypeOK'
    BY <1>2, <1>4, <1>8 DEF BaseInv, TypeOK
  <2>3. SortedById(log)'
    BY <1>8, <2>1 DEF BaseInv, SortedById, n
  <2>4. ChainUnforked'
    <3> SUFFICES ASSUME NEW i \in 1..n
                 PROVE  log'[i].prev = IF i = 1 THEN AnchorHash(chainStates)
                                       ELSE log'[i - 1].hash
      BY <1>2, <1>8 DEF ChainUnforked, ExpectedPrev
    <3>1. i # 1 => i - 1 \in 1..n
      BY <1>1
    <3>2. i # 1 => log'[i - 1].hash = nextHash + (i - 1) - 1
      BY <2>1, <3>1
    <3> QED BY <2>1, <3>2
  <2>5. HashedInv'
    <3> SUFFICES ASSUME NEW i \in 1..n PROVE log'[i].hash # NoHash
      BY <1>8 DEF HashedInv
    <3>1. log'[i].hash = nextHash + i - 1
      BY <2>1
    <3> QED BY <1>1, <3>1 DEF NoHash
  <2> QED BY <1>5, <1>6, <2>2, <2>3, <2>4, <2>5 DEF Keeps, BaseInv, ChainInv
<1> QED
  <2>1. TypeOK /\ HashedInv
    BY DEF BaseInv
  <2> QED BY <1>2, <1>7, <1>8, <2>1, BackfilledRows

(***************************************************************************)
(* The chain as it is written: AuditChain's specification.                 *)
(***************************************************************************)

LEMMA StutterStep == BaseInv /\ UNCHANGED vars => Keeps
<1> SUFFICES ASSUME BaseInv, UNCHANGED vars PROVE Keeps
  OBVIOUS
<1>1. SortedById(log)' /\ HashedInv' /\ StateInv' /\ (ChainInv => ChainInv')
  BY QuietStep DEF vars
<1>2. TypeOK' /\ LockInv'
  BY DEF BaseInv, TypeOK, LockInv, vars
<1>3. PendingInv'
  BY PendingKept DEF BaseInv, vars
<1> QED BY <1>1, <1>2, <1>3 DEF Keeps, BaseInv

LEMMA NextPreserves == BaseInv /\ [Next]_vars => Keeps
<1> SUFFICES ASSUME BaseInv, [Next]_vars PROVE Keeps
  OBVIOUS
<1>1. ASSUME NEW w \in Writers, WriterStep(w) PROVE Keeps
  BY <1>1, FlushEarlierStep, BuildEntryStep, TakeWriteLockStep, ChainNewEntryStep,
     CommitStep, RollbackStep DEF WriterStep
<1>2. CASE PurgeStep
  BY <1>2, PurgeScanStep, PurgePickAnchorStep, PurgeDeleteStep, PurgeFailStep DEF PurgeStep
<1>3. CASE Boot \/ Crash \/ Tick
  BY <1>3, BootStep, CrashStep, TickStep
<1>4. CASE UNCHANGED vars
  BY <1>4, StutterStep
<1> QED BY <1>1, <1>2, <1>3, <1>4 DEF Next

\* The inductive invariant holds in every reachable state of audit_hash_chain.py's
\* writers and audit_purge.py's sweep.
THEOREM SpecIInv == Spec => []IInv
<1>1. Init => IInv
  BY InitEstablishes
<1>2. IInv /\ [Next]_vars => IInv'
  BY NextPreserves DEF IInv, Keeps
<1> QED BY <1>1, <1>2, PTL DEF Spec

\* Type correctness of the audit log, its state rows and the transactions.
THEOREM SpecTypeOK == Spec => []TypeOK
<1>1. IInv => TypeOK
  BY DEF IInv, BaseInv
<1> QED BY <1>1, SpecIInv, PTL

\* The chain never forks, for any number of writers, any history and any retention:
\* every row hashed by this version chains from its predecessor or the anchor.
THEOREM SpecChainUnforked == Spec => []ChainUnforked
<1>1. IInv => ChainUnforked
  BY DEF IInv, ChainInv
<1> QED BY <1>1, SpecIInv, PTL

\* Only commits, sweeps and backfills change the rows.
LEMMA RowsChange ==
    ASSUME [Next]_vars, log' # log
    PROVE  PurgeDelete \/ Boot \/ \E w \in Writers : Commit(w)
BY DEF Next, vars, WriterStep, FlushEarlier, BuildEntry, TakeWriteLock,
   ChainNewEntry, Rollback, PurgeStep, PurgeScan, PurgePickAnchor, PurgeFail, Crash, Tick

\* Whatever is written while the sweep runs, a sweep that saw a young row leaves
\* every row at or above its cutoff in the log.
THEOREM SpecSweepSparesYoungRows == Spec => SweepSparesYoungRows
<1> DEFINE Spared == (purge.pc = "picked" /\ purge.first # NoId) =>
                        \A i \in 1..Len(log) :
                            log[i].at >= purge.cutoff =>
                                \E j \in 1..Len(log') : log'[j] = log[i]
<1>1. ASSUME IInv, [Next]_vars PROVE [Spared]_vars
  <2> SUFFICES ASSUME purge.pc = "picked", purge.first # NoId,
                      NEW i \in 1..Len(log), log[i].at >= purge.cutoff
               PROVE  \E j \in 1..Len(log') : log'[j] = log[i]
    OBVIOUS
  <2> USE DEF IInv, BaseInv, ChainInv
  <2>1. log \in Seq(Row) /\ Len(log) \in Nat /\ up
    BY <1>1, LenProperties DEF TypeOK, LockInv
  <2>2. CASE log' = log
    BY <2>2
  <2>3. ASSUME NEW w \in Writers, Commit(w)
        PROVE  \E j \in 1..Len(log') : log'[j] = log[i]
    <3>1. tx[w].rows \in Seq(PendingRow) /\ Len(tx[w].rows) \in Nat
      BY <1>1, LenProperties DEF TypeOK
    <3>2. Len(log') = Len(log) + Len(tx[w].rows) /\ log'[i] = log[i]
      BY <2>1, <2>3, <3>1, InsertedRows DEF Commit
    <3> QED BY <2>1, <3>1, <3>2
  <2>4. CASE PurgeDelete
    <3>1. PICK k \in 0..Len(log) :
            MatchesPrefix(log, purge.first, k) /\ log' = SubSeq(log, k + 1, Len(log))
      BY <2>4 DEF PurgeDelete
    <3>2. /\ Len(log') = Len(log) - k
          /\ \A j \in 1..(Len(log) - k) : log'[j] = log[k + j]
      BY <2>1, <3>1, SuffixRows
    <3>3. log[i] \in Row
      BY <2>1, ElementOfSeq
    <3>4. ~(log[i].id < purge.first)
      <4>1. log[i].id < purge.first => log[i].at < purge.cutoff
        BY <1>1, <2>4 DEF PurgeInv, PurgeDelete
      <4>2. log[i].at \in Nat /\ purge.cutoff \in Int
        BY <1>1, <3>3 DEF TypeOK, Row
      <4> QED BY <4>1, <4>2
    <3>5. i > k
      BY <2>1, <3>1, <3>4 DEF MatchesPrefix, InPrefix
    <3>6. i - k \in 1..(Len(log) - k) /\ k + (i - k) = i
      BY <2>1, <3>5
    <3> QED BY <3>2, <3>6
  <2>5. ~Boot
    BY <2>1 DEF Boot
  <2> QED BY <1>1, <2>2, <2>3, <2>4, <2>5, RowsChange
<1> QED BY <1>1, SpecIInv, PTL DEF Spec, SweepSparesYoungRows

\* Once the backfill is over, rows are only appended and only the front is deleted,
\* by any number of requests and sweeps in any order (_take_write_lock, prefix_condition).
THEOREM SpecOnlyPrefixesLeave == Spec => OnlyPrefixesLeave
<1> DEFINE Kept == (up /\ log' # log) =>
                    \/ /\ Len(log') >= Len(log)
                       /\ SubSeq(log', 1, Len(log)) = log
                    \/ \E k \in 1..Len(log) : log' = SubSeq(log, k + 1, Len(log))
<1>1. ASSUME IInv, [Next]_vars PROVE [Kept]_vars
  <2> SUFFICES ASSUME up, log' # log
               PROVE  \/ /\ Len(log') >= Len(log)
                         /\ SubSeq(log', 1, Len(log)) = log
                      \/ \E k \in 1..Len(log) : log' = SubSeq(log, k + 1, Len(log))
    OBVIOUS
  <2>1. log \in Seq(Row) /\ Len(log) \in Nat
    BY <1>1, LenProperties DEF IInv, BaseInv, TypeOK
  <2>2. ASSUME NEW w \in Writers, Commit(w)
        PROVE  Len(log') >= Len(log) /\ SubSeq(log', 1, Len(log)) = log
    <3>1. tx[w].rows \in Seq(PendingRow) /\ Len(tx[w].rows) \in Nat
      BY <1>1, LenProperties DEF IInv, BaseInv, TypeOK
    <3>2. /\ log' \in Seq(Row) /\ Len(log') = Len(log) + Len(tx[w].rows)
          /\ \A i \in 1..Len(log) : log'[i] = log[i]
      BY <2>1, <2>2, <3>1, InsertedRows DEF Commit
    <3>3. \A i \in 1..Len(log) : log'[i] \in Row
      BY <2>1, <3>2, ElementOfSeq
    <3>4. /\ SubSeq(log', 1, Len(log)) \in Seq(Row)
          /\ Len(SubSeq(log', 1, Len(log))) = IF 1 <= Len(log) THEN Len(log) - 1 + 1 ELSE 0
          /\ \A i \in 1..(Len(log) - 1 + 1) : SubSeq(log', 1, Len(log))[i] = log'[1 + i - 1]
      BY <2>1, <3>3, SubSeqProperties
    <3> DEFINE front == SubSeq(log', 1, Len(log))
    <3>5. front \in Seq(Row) /\ Len(front) = Len(log)
      BY <2>1, <3>4
    <3>6. \A i \in 1..Len(log) : front[i] = log[i]
      BY <2>1, <3>2, <3>4
    <3> HIDE DEF front
    <3>7. front = log
      BY <2>1, <3>5, <3>6, SeqEqual
    <3> QED BY <2>1, <3>1, <3>2, <3>7 DEF front
  <2>3. CASE PurgeDelete
    <3>1. PICK k \in 0..Len(log) : log' = SubSeq(log, k + 1, Len(log))
      BY <2>3 DEF PurgeDelete
    <3>2. CASE k = 0
      <4>1. /\ log' \in Seq(Row) /\ Len(log') = Len(log)
            /\ \A i \in 1..Len(log) : log'[i] = log[i]
        BY <2>1, <3>1, <3>2, SuffixRows
      <4> QED BY <2>1, <4>1, SeqEqual
    <3> QED BY <2>1, <3>1, <3>2
  <2>4. ~Boot
    BY DEF Boot
  <2> QED BY <1>1, <2>2, <2>3, <2>4, RowsChange
<1> QED BY <1>1, SpecIInv, PTL DEF Spec, OnlyPrefixesLeave

(***************************************************************************)
(* The inductive invariant beside the checks and the edits of              *)
(* AuditIntegrity: what keeps a check from taking an edit for the race.    *)
(***************************************************************************)

BreakRow == [id: Nat, hash: Nat, parent: Nat]
LeafRow  == [id: Nat, hash: Nat]
Recorded == [breaks: SUBSET BreakRow, leaves: SUBSET LeafRow]
Result   == [status: Statuses, brokenId: Nat, races: SUBSET BreakRow]
Check == [pc: {"idle", "loaded", "listed", "walked", "drafted", "reloaded"},
          goal: {"verify", "record"}, state: ChainState, found: BOOLEAN,
          recorded: Recorded, result: Result, leaves: SUBSET LeafRow,
          at: Nat, emptied: BOOLEAN]
Note == [entry: Nat, breaks: SUBSET BreakRow, leaves: SUBSET LeafRow, emptied: BOOLEAN]

ChecksTypeOK == check \in [Checkers -> Check] /\ notes \subseteq Note

\* Hashes are given out in order: what is chained last has the highest.
HashesInv ==
    /\ \A i \in 1..Len(log) :
        /\ log[i].hash < nextHash
        /\ log[i].hash # NoHash => \A j \in 1..Len(log) : log[j].hash = log[i].hash => j = i
    /\ \A w \in Writers : \A k \in 1..Len(tx[w].rows) :
        /\ tx[w].rows[k].hash < nextHash
        /\ \A i \in 1..Len(log) : log[i].hash < tx[w].rows[k].hash
        /\ \A m \in 1..(k - 1) : tx[w].rows[m].hash < tx[w].rows[k].hash

\* A row that is hashed, and that the race did not fork.
Honest(row) == row.hash # NoHash /\ row.hash \notin GenuineForks

\* The parent of such a row is the row before it, or nowhere in the log.
HonestInv ==
    \A i \in 1..Len(log) : Honest(log[i]) =>
        \A j \in 1..Len(log) : log[j].hash = log[i].prev => i <= j + 1

\* A hash that no row has any more, and that only the first row may chain from.
Left(hash) ==
    /\ hash < nextHash
    /\ \A i \in 1..Len(log) :
        /\ log[i].hash # NoHash => log[i].hash # hash
        /\ Honest(log[i]) /\ i # 1 => log[i].prev # hash
    /\ \A w \in Writers : \A k \in 1..Len(tx[w].rows) : hash < tx[w].rows[k].hash

\* The anchor is such a hash, and so is the one that a check has loaded, even if a
\* sweep has replaced it since.
AnchorsInv ==
    /\ Left(AnchorHash(chainStates))
    /\ \A c \in Checkers : check[c].pc # "idle" => Left(check[c].state.anchorHash)

\* The anchor that the sweep has picked will be one, once it has deleted its prefix.
PickInv ==
    purge.pc = "picked" /\ purge.newest # NoRow =>
        /\ purge.first = NoId \/ purge.newest.id < purge.first
        /\ purge.newest.hash < nextHash
        /\ \A i \in 1..Len(log) :
            /\ log[i].hash # NoHash /\ log[i].hash = purge.newest.hash
                => log[i].id = purge.newest.id
            /\ Honest(log[i]) /\ log[i].prev = purge.newest.hash =>
                \A j \in 1..(i - 1) : log[j].id <= purge.newest.id
        /\ \A w \in Writers : \A k \in 1..Len(tx[w].rows) :
            purge.newest.hash < tx[w].rows[k].hash

\* What a check carries while the process runs.
ChecksInv ==
    \A c \in Checkers :
        /\ check[c].pc # "idle" => up
        /\ \A b \in check[c].result.races : b.hash \in GenuineForks

\* What the rows, the transactions and the sweep contribute, and all of it.
RowsInv == HashesInv /\ HonestInv /\ PickInv

JInv == BaseInv /\ ChecksTypeOK /\ RowsInv /\ AnchorsInv /\ ChecksInv /\ OnlyForksAreRecorded

\* In a sorted log no id is above the last one.
LEMMA LastIsGreatest ==
    ASSUME NEW rows \in Seq(Row), SortedById(rows), NEW i \in 1..Len(rows)
    PROVE  /\ Len(rows) \in Nat /\ Len(rows) \in 1..Len(rows)
           /\ rows[Len(rows)].id \in Nat /\ rows[i].id <= rows[Len(rows)].id
<1>1. Len(rows) \in Nat /\ Len(rows) \in 1..Len(rows)
  BY LenProperties
<1>2. rows[i] \in Row /\ rows[Len(rows)] \in Row
  BY <1>1, ElementOfSeq
<1>3. CASE i = Len(rows)
  BY <1>1, <1>2, <1>3 DEF Row
<1>4. CASE i < Len(rows)
  <2>1. rows[i].id < rows[Len(rows)].id
    BY <1>1, <1>4 DEF SortedById
  <2> QED BY <1>1, <1>2, <2>1 DEF Row
<1> QED BY <1>1, <1>3, <1>4

\* The id kept for the parent of a race break is one, and that of a candidate if any.
LEMMA ParentIdType ==
    ASSUME NEW state \in ChainState, NEW rows \in Seq(Row), SortedById(rows),
           NEW i \in 1..Len(rows)
    PROVE  LET ids == {p.id : p \in {q \in Earlier(state, rows, i) : q.hash = rows[i].prev}}
           IN /\ ParentId(state, rows, i) \in Nat
              /\ ParentId(state, rows, i) \in {NoId} \cup ids
              /\ \A x \in ids : x \in Nat /\ x <= ParentId(state, rows, i)
<1> DEFINE ids == {p.id : p \in {q \in Earlier(state, rows, i) : q.hash = rows[i].prev}}
           last == rows[Len(rows)].id
           S == {NoId} \cup ids
<1>1. state.anchorId \in Nat
  BY DEF ChainState
<1>2. Len(rows) \in Nat /\ last \in Nat
  BY LastIsGreatest
<1>3. ASSUME NEW x \in ids PROVE x \in Nat /\ x <= state.anchorId + last
  <2>1. PICK p \in Earlier(state, rows, i) : x = p.id
    BY <1>3
  <2>2. CASE p.id = state.anchorId
    BY <1>1, <1>2, <2>1, <2>2
  <2>3. CASE \E j \in 1..(i - 1) : p.id = rows[j].id
    <3>1. PICK j \in 1..Len(rows) : p.id = rows[j].id
      BY <1>2, <2>3
    <3>2. rows[j] \in Row /\ rows[j].id <= last
      BY <3>1, LastIsGreatest, ElementOfSeq
    <3>3. x = rows[j].id /\ rows[j].id \in Nat
      BY <2>1, <3>1, <3>2 DEF Row
    <3> HIDE DEF last
    <3> QED BY <1>1, <1>2, <3>2, <3>3
  <2> QED BY <2>1, <2>2, <2>3 DEF Earlier
<1>4. S \in SUBSET Nat /\ S # {} /\ \A x \in S : x <= state.anchorId + last
  BY <1>1, <1>2, <1>3 DEF NoId
<1>5. ParentId(state, rows, i) = Max(S)
  BY DEF ParentId
<1> HIDE DEF ids, last
<1>6. state.anchorId + last \in Nat
  BY <1>1, <1>2
<1>7. Max(S) \in S /\ \A y \in S : y <= Max(S)
  <2> HIDE DEF S
  <2> QED BY <1>4, <1>6, MaxOfNats
<1>8. /\ ParentId(state, rows, i) \in Nat
      /\ ParentId(state, rows, i) \in {NoId} \cup ids
      /\ \A x \in ids : x \in Nat /\ x <= ParentId(state, rows, i)
  BY <1>4, <1>5, <1>7
<1> QED BY <1>8 DEF ids

\* The walk gives a verdict, and a first row for it, whatever it finds.
LEMMA WalkType ==
    ASSUME NEW state \in ChainState, NEW recorded \in Recorded,
           NEW rows \in Seq(Row), SortedById(rows)
    PROVE  Walk(state, recorded, rows) \in Result
<1> DEFINE races == {i \in 1..Len(rows) : RaceBreak(state, recorded, rows, i)}
           fine  == {i \in 1..Len(rows) :
                        /\ rows[i].valid
                        /\ \/ Linked(state, rows, i)
                           \/ AcceptedBreak(state, recorded, rows, i)}
           tampered == {rows[i].id : i \in (1..Len(rows)) \ (races \cup fine)}
                            \cup MissingRecorded(state, recorded, rows)
           raceBreaks == {[id |-> rows[i].id, hash |-> rows[i].hash,
                           parent |-> ParentId(state, rows, i)] : i \in races}
           raceIds == {b.id : b \in raceBreaks}
<1>1. ASSUME NEW i \in 1..Len(rows) PROVE rows[i].id \in Nat /\ rows[i].hash \in Nat
  <2>1. rows[i] \in Row
    BY ElementOfSeq
  <2> QED BY <2>1 DEF Row
<1>2. races \subseteq 1..Len(rows)
  OBVIOUS
<1> HIDE DEF races, fine
<1>3. raceBreaks \subseteq BreakRow
  <2>1. ASSUME NEW i \in races
        PROVE  [id |-> rows[i].id, hash |-> rows[i].hash,
                parent |-> ParentId(state, rows, i)] \in BreakRow
    <3>1. i \in 1..Len(rows)
      BY <1>2
    <3>2. ParentId(state, rows, i) \in Nat
      BY <3>1, ParentIdType
    <3> QED BY <1>1, <3>1, <3>2 DEF BreakRow
  <2> QED BY <2>1
<1>4. MissingRecorded(state, recorded, rows) \subseteq Nat
  <2> SUFFICES ASSUME NEW x \in {[id |-> b.id, hash |-> b.hash] : b \in recorded.breaks}
                                  \cup recorded.leaves
               PROVE  x.id \in Nat
    BY DEF MissingRecorded
  <2>1. recorded.breaks \subseteq BreakRow /\ recorded.leaves \subseteq LeafRow
    BY DEF Recorded
  <2> QED BY <2>1 DEF BreakRow, LeafRow
<1>5. tampered \subseteq Nat
  <2>1. \A i \in (1..Len(rows)) \ (races \cup fine) : rows[i].id \in Nat
    BY <1>1
  <2> QED BY <1>4, <2>1
<1>6. raceIds \subseteq Nat /\ (races # {} => raceIds # {})
  <2>1. races # {} => raceBreaks # {}
    OBVIOUS
  <2> HIDE DEF raceBreaks
  <2>2. \A b \in raceBreaks : b.id \in Nat
    BY <1>3 DEF BreakRow
  <2> QED BY <2>1, <2>2
<1>7. Walk(state, recorded, rows) =
        [status |-> IF tampered # {} THEN "broken"
                    ELSE IF races # {} THEN "race_breaks" ELSE "ok",
         brokenId |-> IF tampered # {} THEN Min(tampered)
                      ELSE IF races # {} THEN Min(raceIds) ELSE NoId,
         races |-> raceBreaks]
  BY DEF Walk, races, fine
<1> HIDE DEF tampered, raceBreaks, raceIds
<1>8. tampered # {} => Min(tampered) \in Nat
  BY <1>5, MinOfNats
<1>9. races # {} => Min(raceIds) \in Nat
  BY <1>6, MinOfNats
<1> QED BY <1>3, <1>7, <1>8, <1>9 DEF Result, Statuses, NoId

\* What the recording rows list is of the right kind.
LEMMA RecordedInType ==
    ASSUME ChecksTypeOK, NEW rows
    PROVE  RecordedIn(rows) \in Recorded
BY DEF ChecksTypeOK, RecordedIn, Recorded, Note

\* A check writes its status and leaves the anchor alone.
LEMMA StatusWrittenRow ==
    ASSUME NEW old \in ChainState, NEW loaded \in ChainState, NEW result \in Result
    PROVE  /\ StatusWritten(old, loaded, result) \in ChainState
           /\ StatusWritten(old, loaded, result).anchorHash = old.anchorHash
           /\ StatusWritten(old, loaded, result).anchorId = old.anchorId
           /\ StatusWritten(old, loaded, result).cutoffId = old.cutoffId
BY DEF StatusWritten, ChainState, Result

LEMMA StatusWrittenStates ==
    ASSUME NEW states \in Seq(ChainState), NEW loaded \in ChainState, NEW result \in Result
    PROVE  LET new == [states EXCEPT ![1] = StatusWritten(states[1], loaded, result)]
           IN /\ new \in Seq(ChainState) /\ Len(new) = Len(states)
              /\ new = <<>> <=> states = <<>>
              /\ AnchorHash(new) = AnchorHash(states)
<1> DEFINE row == StatusWritten(states[1], loaded, result)
           new == [states EXCEPT ![1] = row]
<1>1. CASE states = <<>>
  <2>1. DOMAIN states = {}
    BY <1>1, EmptySeq, LenProperties
  <2>2. new = [x \in {} |-> IF x = 1 THEN row ELSE states[x]]
    BY <2>1
  <2>3. states = [x \in {} |-> states[x]]
    BY <2>1, LenProperties
  <2>4. new = states
    BY <2>2, <2>3
  <2> QED BY <1>1, <2>4
<1>2. CASE states # <<>>
  <2>1. Len(states) \in Nat /\ 1 \in 1..Len(states)
    BY <1>2, EmptySeq, LenProperties
  <2>2. states[1] \in ChainState
    BY <2>1, ElementOfSeq
  <2>3. row \in ChainState /\ row.anchorHash = states[1].anchorHash
    BY <2>2, StatusWrittenRow
  <2> HIDE DEF row
  <2>4. new \in Seq(ChainState) /\ Len(new) = Len(states) /\ new[1] = row
    BY <2>1, <2>3, ExceptSeq
  <2>5. new # <<>>
    BY <2>1, <2>4, EmptySeq
  <2>6. AnchorHash(new) = AnchorHash(states)
    BY <1>2, <2>3, <2>4, <2>5 DEF AnchorHash
  <2> QED BY <1>2, <2>4, <2>5, <2>6 DEF row
<1> QED BY <1>1, <1>2

(***************************************************************************)
(* What the steps do to the rows.                                          *)
(***************************************************************************)

\* No transaction that does not hold the lock has pending rows.
LEMMA NoPending ==
    ASSUME BaseInv, writeLock = NoWriter
    PROVE  \A w \in Writers : tx[w].rows = <<>> /\ Len(tx[w].rows) = 0
BY WritersAssumption, EmptySeq DEF BaseInv, LockInv

\* Rows leave the log, or change in their content only, while nobody writes: m gives
\* each row that is left its old place.
Thinned(m) ==
    /\ writeLock = NoWriter
    /\ log' \in Seq(Row)
    /\ m \in [1..Len(log') -> 1..Len(log)]
    /\ \A i, j \in 1..Len(log') : i < j => m[i] < m[j]
    /\ \A i \in 1..Len(log') :
        log'[i].id = log[m[i]].id /\ log'[i].prev = log[m[i]].prev /\ log'[i].hash = log[m[i]].hash
    /\ UNCHANGED <<writeLock, tx, nextHash, up>>

LEMMA ThinnedBase ==
    ASSUME BaseInv, NEW m, Thinned(m)
    PROVE  SortedById(log)' /\ HashedInv' /\ PendingInv'
<1>1. /\ m \in [1..Len(log') -> 1..Len(log)] /\ writeLock = NoWriter /\ tx' = tx /\ up' = up
      /\ \A i, j \in 1..Len(log') : i < j => m[i] < m[j]
      /\ \A i \in 1..Len(log') : log'[i].id = log[m[i]].id /\ log'[i].hash = log[m[i]].hash
  BY DEF Thinned
<1>2. SortedById(log)'
  BY <1>1 DEF BaseInv, SortedById
<1>3. HashedInv'
  BY <1>1 DEF BaseInv, HashedInv
<1>4. PendingInv'
  BY <1>1, NoPending DEF PendingInv
<1> QED BY <1>2, <1>3, <1>4

LEMMA ThinnedRows ==
    ASSUME BaseInv, NEW m, Thinned(m)
    PROVE  /\ HashesInv => HashesInv'
           /\ HonestInv => HonestInv'
           /\ \A a \in Nat : Left(a) => Left(a)'
           /\ PickInv /\ purge' = purge => PickInv'
<1>1. /\ m \in [1..Len(log') -> 1..Len(log)] /\ writeLock = NoWriter /\ tx' = tx
      /\ nextHash' = nextHash
      /\ \A i, j \in 1..Len(log') : i < j => m[i] < m[j]
      /\ \A i \in 1..Len(log') : /\ log'[i].id = log[m[i]].id /\ log'[i].hash = log[m[i]].hash
                                 /\ log'[i].prev = log[m[i]].prev
  BY DEF Thinned
<1>2. \A w \in Writers : Len(tx'[w].rows) = 0
  BY <1>1, NoPending
<1>3. Len(log) \in Nat /\ Len(log') \in Nat
  BY LenProperties DEF Thinned, BaseInv, TypeOK
<1>4. \A i \in 1..Len(log') : Honest(log'[i]) <=> Honest(log[m[i]])
  BY <1>1 DEF Honest
<1>5. \A i, j \in 1..Len(log') : m[i] = m[j] => i = j
  BY <1>1, <1>3
<1>6. HashesInv => HashesInv'
  <2> SUFFICES ASSUME HashesInv, NEW i \in 1..Len(log')
               PROVE  /\ log'[i].hash < nextHash
                      /\ log'[i].hash # NoHash =>
                            \A j \in 1..Len(log') : log'[j].hash = log'[i].hash => j = i
    BY <1>1, <1>2 DEF HashesInv
  <2>1. m[i] \in 1..Len(log) /\ log'[i].hash = log[m[i]].hash
    BY <1>1
  <2>2. log'[i].hash < nextHash
    BY <2>1 DEF HashesInv
  <2>3. ASSUME log'[i].hash # NoHash, NEW j \in 1..Len(log'), log'[j].hash = log'[i].hash
        PROVE  j = i
    <3>1. m[j] \in 1..Len(log) /\ log[m[j]].hash = log[m[i]].hash
      BY <1>1, <2>1, <2>3
    <3>2. m[j] = m[i]
      BY <2>1, <2>3, <3>1 DEF HashesInv
    <3> QED BY <1>5, <3>2
  <2> QED BY <2>2, <2>3
<1>7. HonestInv => HonestInv'
  <2> SUFFICES ASSUME HonestInv, NEW i \in 1..Len(log'), Honest(log'[i]),
                      NEW j \in 1..Len(log'), log'[j].hash = log'[i].prev
               PROVE  i <= j + 1
    BY DEF HonestInv
  <2>1. m[i] <= m[j] + 1
    BY <1>1, <1>4 DEF HonestInv
  <2>2. CASE i > j + 1
    <3>1. j + 1 \in 1..Len(log') /\ j < j + 1 /\ j + 1 < i
      BY <1>3, <2>2
    <3>2. m[j] < m[j + 1] /\ m[j + 1] < m[i] /\ m[j] \in Int /\ m[i] \in Int /\ m[j + 1] \in Int
      BY <1>1, <1>3, <3>1
    <3> QED BY <2>1, <3>2
  <2> QED BY <2>2
<1>8. ASSUME NEW a \in Nat, Left(a) PROVE Left(a)'
  <2> SUFFICES ASSUME NEW i \in 1..Len(log')
               PROVE  /\ log'[i].hash # NoHash => log'[i].hash # a
                      /\ Honest(log'[i]) /\ i # 1 => log'[i].prev # a
    BY <1>1, <1>2, <1>8 DEF Left
  <2>1. i # 1 => m[i] # 1
    <3>1. i # 1 => 1 \in 1..Len(log') /\ 1 < i
      BY <1>3
    <3> QED BY <1>1, <1>3, <3>1
  <2> QED BY <1>1, <1>4, <1>8, <2>1 DEF Left
<1>9. ASSUME PickInv, purge' = purge PROVE PickInv'
  <2> SUFFICES ASSUME purge.pc = "picked", purge.newest # NoRow, NEW i \in 1..Len(log')
               PROVE  /\ log'[i].hash # NoHash /\ log'[i].hash = purge.newest.hash
                            => log'[i].id = purge.newest.id
                      /\ Honest(log'[i]) /\ log'[i].prev = purge.newest.hash =>
                            \A j \in 1..(i - 1) : log'[j].id <= purge.newest.id
    BY <1>1, <1>2, <1>9 DEF PickInv
  <2>1. ASSUME NEW j \in 1..(i - 1) PROVE j \in 1..Len(log') /\ m[j] \in 1..(m[i] - 1)
    <3>1. j \in 1..Len(log') /\ j < i
      BY <1>3
    <3>2. m[j] < m[i] /\ m[j] \in 1..Len(log) /\ m[i] \in 1..Len(log)
      BY <1>1, <3>1
    <3> QED BY <1>3, <3>1, <3>2
  <2> QED BY <1>1, <1>4, <1>9, <2>1 DEF PickInv
<1> QED BY <1>6, <1>7, <1>8, <1>9

\* Rows are appended, chained to the newest one if there is one, with hashes above all
\* there are: by a commit, or by a recording while nobody writes.
Extended(pending) ==
    /\ up /\ up' /\ pending \in Seq(PendingRow)
    /\ log' = Inserted(log, pending)
    /\ \A w \in Writers : tx'[w].rows = <<>>
    /\ nextHash' \in Nat /\ nextHash' >= nextHash
    /\ \A k \in 1..Len(pending) :
        /\ pending[k].hash # NoHash /\ pending[k].hash < nextHash'
        /\ k # 1 => pending[k].prev = pending[k - 1].hash
        /\ k = 1 /\ log # <<>> => pending[k].prev = log[Len(log)].hash
        /\ \A i \in 1..Len(log) : log[i].hash < pending[k].hash
        /\ \A m \in 1..(k - 1) : pending[m].hash < pending[k].hash

\* A hash that is below those of all rows to come.
Below(hash, pending) == \A k \in 1..Len(pending) : hash < pending[k].hash

\* The rows before, and each new one as a successor.
LEMMA ExtendedRow ==
    ASSUME BaseInv, NEW pending, Extended(pending)
    PROVE  /\ log' \in Seq(Row) /\ Len(log) \in Nat /\ Len(pending) \in Nat
           /\ Len(log') = Len(log) + Len(pending)
           /\ \A i \in 1..Len(log) : log'[i] = log[i] /\ log[i].hash # NoHash
           /\ \A i \in 1..Len(log') : i > Len(log) =>
                /\ i - Len(log) \in 1..Len(pending)
                /\ log'[i].id = NextId(log) + (i - Len(log)) - 1
                /\ log'[i].hash = pending[i - Len(log)].hash
                /\ i # 1 => i - 1 \in 1..Len(log') /\ log'[i].prev = log'[i - 1].hash
<1>1. /\ log \in Seq(Row) /\ Len(log) \in Nat
      /\ pending \in Seq(PendingRow) /\ Len(pending) \in Nat
  BY LenProperties DEF BaseInv, TypeOK, Extended
<1>2. log' = Inserted(log, pending)
  BY DEF Extended
<1>3. /\ log' \in Seq(Row) /\ Len(log') = Len(log) + Len(pending)
      /\ \A i \in 1..Len(log) : log'[i] = log[i]
  BY <1>1, <1>2, InsertedRows
<1>4. \A i \in 1..Len(log) : log[i].hash # NoHash
  BY DEF BaseInv, HashedInv, Extended
<1>5. ASSUME NEW i \in 1..Len(log'), i > Len(log)
      PROVE  /\ i - Len(log) \in 1..Len(pending)
             /\ log'[i].id = NextId(log) + (i - Len(log)) - 1
             /\ log'[i].prev = pending[i - Len(log)].prev
             /\ log'[i].hash = pending[i - Len(log)].hash
  <2>1. i - Len(log) \in 1..Len(pending) /\ i \in 1..(Len(log) + Len(pending))
    BY <1>1, <1>3, <1>5
  <2>2. log'[i] = [id |-> NextId(log) + (i - Len(log)) - 1, at |-> pending[i - Len(log)].at,
                   prev |-> pending[i - Len(log)].prev, hash |-> pending[i - Len(log)].hash,
                   valid |-> TRUE]
    BY <1>1, <1>2, <1>5, <2>1, InsertedRows
  <2> QED BY <2>1, <2>2
<1>6. ASSUME NEW i \in 1..Len(log'), i > Len(log)
      PROVE  i # 1 => i - 1 \in 1..Len(log') /\ log'[i].prev = log'[i - 1].hash
  <2> DEFINE k == i - Len(log)
  <2>1. k \in 1..Len(pending) /\ log'[i].prev = pending[k].prev
    BY <1>5, <1>6
  <2>2. /\ k # 1 => pending[k].prev = pending[k - 1].hash
        /\ k = 1 /\ log # <<>> => pending[k].prev = log[Len(log)].hash
    BY <2>1 DEF Extended
  <2>3. CASE k # 1
    <3>1. i - 1 \in 1..Len(log') /\ i - 1 > Len(log) /\ (i - 1) - Len(log) = k - 1 /\ i # 1
      BY <1>1, <1>3, <2>1, <2>3
    <3>2. log'[i - 1].hash = pending[(i - 1) - Len(log)].hash
      BY <1>5, <3>1
    <3> QED BY <2>1, <2>2, <2>3, <3>1, <3>2
  <2>4. CASE k = 1 /\ Len(log) = 0
    <3>1. i = 1
      BY <1>1, <2>4
    <3> QED BY <3>1
  <2>5. CASE k = 1 /\ Len(log) # 0
    <3>1. /\ log # <<>> /\ Len(log) \in 1..Len(log) /\ i # 1 /\ i - 1 = Len(log)
          /\ Len(log) \in 1..Len(log')
      BY <1>1, <1>3, <2>5, EmptySeq
    <3>2. log'[Len(log)] = log[Len(log)]
      BY <1>3, <3>1
    <3> QED BY <2>1, <2>2, <2>5, <3>1, <3>2
  <2> HIDE DEF k
  <2> QED BY <2>1, <2>3, <2>4, <2>5, <1>1
<1> QED BY <1>1, <1>3, <1>4, <1>5, <1>6

LEMMA ExtendedHashes ==
    ASSUME BaseInv, NEW pending, Extended(pending), HashesInv
    PROVE  HashesInv' /\ (HonestInv => HonestInv')
<1> DEFINE n == Len(log)
<1>1. /\ n \in Nat /\ Len(log') = n + Len(pending) /\ Len(pending) \in Nat
      /\ \A i \in 1..n : log'[i] = log[i] /\ log[i].hash # NoHash
      /\ \A i \in 1..Len(log') : i > n =>
            /\ i - n \in 1..Len(pending)
            /\ log'[i].hash = pending[i - n].hash
            /\ i # 1 => i - 1 \in 1..Len(log') /\ log'[i].prev = log'[i - 1].hash
  BY ExtendedRow
<1>2. /\ nextHash \in Nat /\ nextHash' \in Nat /\ nextHash <= nextHash'
      /\ pending \in Seq(PendingRow)
  BY DEF Extended, BaseInv, TypeOK
<1>3. \A k \in 1..Len(pending) :
        /\ pending[k].hash < nextHash' /\ pending[k].hash # NoHash /\ pending[k].hash \in Nat
        /\ \A i \in 1..n : log[i].hash < pending[k].hash
        /\ \A m \in 1..(k - 1) : pending[m].hash < pending[k].hash
  <2> TAKE k \in 1..Len(pending)
  <2>1. pending[k] \in PendingRow
    BY <1>2, ElementOfSeq
  <2> QED BY <2>1 DEF Extended, PendingRow
<1>4. ASSUME NEW i \in 1..n PROVE log[i].hash \in Nat /\ log[i].hash < nextHash
  <2>1. log[i] \in Row
    BY ElementOfSeq DEF BaseInv, TypeOK
  <2> QED BY <2>1 DEF Row, HashesInv
<1>5. ASSUME NEW w \in Writers PROVE Len(tx'[w].rows) = 0
  BY EmptySeq DEF Extended
<1> HIDE DEF n
<1>6. ASSUME NEW i \in 1..Len(log'), NEW j \in 1..Len(log'), i < j
      PROVE  log'[i].hash # log'[j].hash
  <2>1. CASE j <= n
    <3>1. i \in 1..n /\ j \in 1..n /\ i # j
      BY <1>1, <1>6, <2>1
    <3> QED BY <1>1, <3>1 DEF HashesInv, n
  <2>2. CASE j > n /\ i <= n
    <3>1. i \in 1..n /\ j - n \in 1..Len(pending)
      BY <1>1, <2>2
    <3>2. log[i].hash < pending[j - n].hash /\ log[i].hash \in Nat /\ pending[j - n].hash \in Nat
      BY <1>3, <1>4, <3>1
    <3> QED BY <1>1, <2>2, <3>1, <3>2
  <2>3. CASE i > n
    <3>1. /\ j > n /\ i - n \in 1..((j - n) - 1)
          /\ j - n \in 1..Len(pending) /\ i - n \in 1..Len(pending)
      BY <1>1, <1>6, <2>3
    <3>2. /\ pending[i - n].hash < pending[j - n].hash
          /\ pending[i - n].hash \in Nat /\ pending[j - n].hash \in Nat
      BY <1>3, <3>1
    <3> QED BY <1>1, <2>3, <3>1, <3>2
  <2> QED BY <1>1, <2>1, <2>2, <2>3
<1>7. ASSUME NEW i \in 1..Len(log') PROVE log'[i].hash < nextHash'
  <2>1. CASE i <= n
    <3>1. i \in 1..n
      BY <1>1, <2>1
    <3> QED BY <1>1, <1>2, <1>4, <3>1
  <2>2. CASE i > n
    BY <1>1, <1>3, <2>2
  <2> QED BY <1>1, <2>1, <2>2
<1>8. \A i, j \in 1..Len(log') : log'[i].hash = log'[j].hash => i = j
  <2>1. \A i, j \in 1..Len(log') : i = j \/ i < j \/ j < i
    BY <1>1
  <2> QED BY <1>6, <2>1
<1>9. HashesInv'
  BY <1>5, <1>7, <1>8 DEF HashesInv
<1>10. ASSUME HonestInv PROVE HonestInv'
  <2> SUFFICES ASSUME NEW i \in 1..Len(log'), Honest(log'[i]),
                      NEW j \in 1..Len(log'), log'[j].hash = log'[i].prev
               PROVE  i <= j + 1
    BY DEF HonestInv
  <2>1. CASE i <= n /\ j <= n
    <3>1. i \in 1..n /\ j \in 1..n
      BY <1>1, <2>1
    <3> QED BY <1>1, <1>10, <3>1 DEF HonestInv, n
  <2>2. CASE i <= n /\ j > n
    BY <1>1, <2>2
  <2>3. CASE i > n
    <3>1. CASE i = 1
      BY <3>1
    <3>2. CASE i # 1
      <4>1. i - 1 \in 1..Len(log') /\ log'[i].prev = log'[i - 1].hash
        BY <1>1, <2>3, <3>2
      <4>2. j = i - 1
        BY <1>8, <4>1
      <4> QED BY <1>1, <4>2
    <3> QED BY <3>1, <3>2
  <2> QED BY <1>1, <2>1, <2>2, <2>3
<1> QED BY <1>9, <1>10

LEMMA ExtendedLeft ==
    ASSUME BaseInv, NEW pending, Extended(pending)
    PROVE  /\ \A a \in Nat : Left(a) /\ Below(a, pending) => Left(a)'
           /\ (/\ HashesInv /\ PickInv /\ purge' = purge
               /\ Below(purge.newest.hash, pending)) => PickInv'
<1> DEFINE n == Len(log)
<1>1. /\ n \in Nat /\ Len(log') = n + Len(pending) /\ Len(pending) \in Nat
      /\ \A i \in 1..n : log'[i] = log[i] /\ log[i].hash # NoHash
      /\ \A i \in 1..Len(log') : i > n =>
            /\ i - n \in 1..Len(pending)
            /\ log'[i].id = NextId(log) + (i - n) - 1
            /\ log'[i].hash = pending[i - n].hash
            /\ i # 1 => i - 1 \in 1..Len(log') /\ log'[i].prev = log'[i - 1].hash
  BY ExtendedRow
<1>2. /\ nextHash \in Nat /\ nextHash' \in Nat /\ nextHash <= nextHash'
      /\ pending \in Seq(PendingRow)
  BY DEF Extended, BaseInv, TypeOK
<1>3. ASSUME NEW w \in Writers PROVE Len(tx'[w].rows) = 0
  BY EmptySeq DEF Extended
<1>4. ASSUME NEW k \in 1..Len(pending) PROVE pending[k].hash \in Nat
  <2>1. pending[k] \in PendingRow
    BY <1>2, ElementOfSeq
  <2> QED BY <2>1 DEF PendingRow
<1>5. ASSUME NEW a \in Nat, Below(a, pending), NEW i \in 1..Len(log'), i > n
      PROVE  log'[i].hash # a
  <2>1. i - n \in 1..Len(pending) /\ log'[i].hash = pending[i - n].hash
    BY <1>1, <1>5
  <2>2. a < pending[i - n].hash /\ pending[i - n].hash \in Nat
    BY <1>4, <1>5, <2>1 DEF Below
  <2> QED BY <2>1, <2>2
<1> HIDE DEF n
<1>6. ASSUME NEW a \in Nat, Left(a), Below(a, pending) PROVE Left(a)'
  <2>1. a < nextHash'
    BY <1>2, <1>6 DEF Left
  <2> SUFFICES ASSUME NEW i \in 1..Len(log')
               PROVE  /\ log'[i].hash # NoHash => log'[i].hash # a
                      /\ Honest(log'[i]) /\ i # 1 => log'[i].prev # a
    BY <1>3, <2>1 DEF Left
  <2>2. CASE i <= n
    <3>1. i \in 1..n
      BY <1>1, <2>2
    <3> QED BY <1>1, <1>6, <3>1 DEF Left, n
  <2>3. CASE i > n
    <3>1. log'[i].hash # a
      BY <1>5, <1>6, <2>3
    <3>2. ASSUME i # 1 PROVE log'[i].prev # a
      <4>1. i - 1 \in 1..Len(log') /\ log'[i].prev = log'[i - 1].hash
        BY <1>1, <2>3, <3>2
      <4>2. CASE i - 1 > n
        BY <1>5, <1>6, <4>1, <4>2
      <4>3. CASE i - 1 <= n
        <5>1. i - 1 \in 1..n
          BY <1>1, <4>1, <4>3
        <5> QED BY <1>1, <1>6, <4>1, <5>1 DEF Left, n
      <4> QED BY <1>1, <4>2, <4>3
    <3> QED BY <3>1, <3>2
  <2> QED BY <1>1, <2>2, <2>3
<1>7. ASSUME HashesInv, PickInv, purge' = purge, Below(purge.newest.hash, pending)
      PROVE  PickInv'
  <2> DEFINE a == purge.newest.hash
             top == purge.newest.id
  <2>1. a \in Nat /\ top \in Nat
    BY DEF BaseInv, TypeOK
  <2> SUFFICES ASSUME purge.pc = "picked", purge.newest # NoRow
               PROVE  PickInv'
    BY <1>7 DEF PickInv
  <2>2. a < nextHash'
    BY <1>2, <1>7, <2>1 DEF PickInv
  <2> SUFFICES ASSUME NEW i \in 1..Len(log')
               PROVE  /\ log'[i].hash # NoHash /\ log'[i].hash = a => log'[i].id = top
                      /\ Honest(log'[i]) /\ log'[i].prev = a =>
                            \A j \in 1..(i - 1) : log'[j].id <= top
    BY <1>3, <1>7, <2>2 DEF PickInv
  <2>3. CASE i <= n
    <3>1. i \in 1..n /\ \A j \in 1..(i - 1) : j \in 1..n
      BY <1>1, <2>3
    <3> QED BY <1>1, <1>7, <3>1 DEF PickInv, n
  <2>4. CASE i > n
    <3>1. log'[i].hash # a
      BY <1>5, <1>7, <2>1, <2>4
    <3>2. ASSUME log'[i].prev = a, NEW j \in 1..(i - 1) PROVE log'[j].id <= top
      <4>1. i # 1 /\ j \in 1..Len(log')
        BY <1>1
      <4>2. i - 1 \in 1..Len(log') /\ log'[i - 1].hash = a
        BY <1>1, <2>4, <3>2, <4>1
      <4>3. i - 1 <= n /\ i - 1 \in 1..n /\ j \in 1..n
        BY <1>1, <1>5, <1>7, <2>1, <4>2
      <4>4. log[i - 1].id = top
        BY <1>1, <1>7, <4>2, <4>3 DEF PickInv, n
      <4>5. log[j].id \in Nat /\ (j = i - 1 \/ log[j].id < log[i - 1].id)
        <5>1. log[j] \in Row
          BY <4>3, ElementOfSeq DEF BaseInv, TypeOK, n
        <5>2. j = i - 1 \/ j < i - 1
          BY <1>1
        <5> QED BY <4>3, <5>1, <5>2 DEF Row, BaseInv, SortedById, n
      <4> QED BY <1>1, <2>1, <4>3, <4>4, <4>5
    <3> QED BY <3>1, <3>2
  <2> QED BY <1>1, <2>3, <2>4
<1> QED BY <1>6, <1>7

(***************************************************************************)
(* The steps and the rows.                                                 *)
(***************************************************************************)

\* Each step keeps what is known of the rows, and every hash that has left.
RowsKept == RowsInv' /\ \A a \in Nat : Left(a) => Left(a)'

\* Nothing is written, nothing picked; transactions may end.
LEMMA QuietRowsKept ==
    ASSUME BaseInv, RowsInv, log' = log, nextHash' \in Nat, nextHash' >= nextHash,
           purge' = purge \/ purge'.pc # "picked",
           \A w \in Writers : tx'[w].rows = tx[w].rows \/ tx'[w].rows = <<>>
    PROVE  RowsKept
<1>1. \A w \in Writers : \A k \in 1..Len(tx'[w].rows) :
        tx'[w].rows = tx[w].rows /\ k \in 1..Len(tx[w].rows)
  BY EmptySeq
<1>2. nextHash \in Nat /\ \A h \in Nat : h < nextHash => h < nextHash'
  BY DEF BaseInv, TypeOK
<1>3. \A i \in 1..Len(log) : log[i].hash \in Nat
  <2> TAKE i \in 1..Len(log)
  <2>1. log[i] \in Row
    BY ElementOfSeq DEF BaseInv, TypeOK
  <2> QED BY <2>1 DEF Row
<1>4. \A w \in Writers : \A k \in 1..Len(tx[w].rows) : tx[w].rows[k].hash \in Nat
  <2> TAKE w \in Writers
  <2> TAKE k \in 1..Len(tx[w].rows)
  <2>1. tx[w].rows[k] \in PendingRow
    BY ElementOfSeq DEF BaseInv, TypeOK
  <2> QED BY <2>1 DEF PendingRow
<1>5. HashesInv'
  BY <1>1, <1>2, <1>3, <1>4 DEF RowsInv, HashesInv
<1>6. HonestInv'
  BY DEF RowsInv, HonestInv
<1>7. PickInv'
  <2>1. purge.newest.hash \in Nat
    BY DEF BaseInv, TypeOK
  <2> QED BY <1>1, <1>2, <2>1 DEF RowsInv, PickInv
<1>8. ASSUME NEW a \in Nat, Left(a) PROVE Left(a)'
  BY <1>1, <1>2, <1>8 DEF Left
<1> QED BY <1>5, <1>6, <1>7, <1>8 DEF RowsKept, RowsInv

LEMMA WriterQuiet ==
    ASSUME BaseInv, NEW w \in Writers,
           FlushEarlier(w) \/ BuildEntry(w) \/ TakeWriteLock(w) \/ Rollback(w)
    PROVE  /\ log' = log /\ nextHash' = nextHash /\ purge' = purge /\ nextHash \in Nat
           /\ chainStates' = chainStates
           /\ \A v \in Writers : tx'[v].rows = tx[v].rows \/ tx'[v].rows = <<>>
<1>1. ASSUME NEW v \in Writers PROVE tx'[v].rows = tx[v].rows \/ tx'[v].rows = <<>>
  <2>1. CASE FlushEarlier(w)
    BY <2>1 DEF BaseInv, TypeOK, FlushEarlier
  <2>2. CASE BuildEntry(w)
    BY <2>2 DEF BaseInv, TypeOK, BuildEntry
  <2>3. CASE TakeWriteLock(w)
    BY <2>3 DEF BaseInv, TypeOK, TakeWriteLock
  <2>4. CASE Rollback(w)
    BY <2>4 DEF BaseInv, TypeOK, Rollback, IdleTx
  <2> QED BY <2>1, <2>2, <2>3, <2>4
<1> QED BY <1>1 DEF FlushEarlier, BuildEntry, TakeWriteLock, Rollback, BaseInv, TypeOK

LEMMA WriterRows ==
    ASSUME BaseInv, RowsInv, NEW w \in Writers,
           FlushEarlier(w) \/ BuildEntry(w) \/ TakeWriteLock(w) \/ Rollback(w)
    PROVE  RowsKept
<1>1. nextHash \in Nat /\ nextHash >= nextHash
  BY DEF BaseInv, TypeOK
<1> QED BY <1>1, WriterQuiet, QuietRowsKept

LEMMA ChainNewEntryRows ==
    ASSUME BaseInv, RowsInv, NEW w \in Writers, ChainNewEntry(w)
    PROVE  RowsKept
<1> DEFINE row == [at |-> tx[w].at, prev |-> TipSeenBy(w), hash |-> nextHash]
<1>1. /\ log' = log /\ purge' = purge /\ nextHash \in Nat /\ nextHash' = nextHash + 1
      /\ tx[w].rows \in Seq(PendingRow) /\ Len(tx[w].rows) \in Nat
  BY LenProperties DEF ChainNewEntry, BaseInv, TypeOK
<1>2. /\ tx' = [tx EXCEPT ![w].pc = "added", ![w].rows = Append(tx[w].rows, row)]
      /\ row.hash = nextHash
  BY DEF ChainNewEntry
<1> HIDE DEF row
<1>3. /\ tx'[w].rows = Append(tx[w].rows, row)
      /\ \A v \in Writers : v # w => tx'[v] = tx[v]
  BY <1>2 DEF BaseInv, TypeOK
<1>4. /\ Len(tx'[w].rows) = Len(tx[w].rows) + 1
      /\ \A k \in 1..Len(tx[w].rows) : tx'[w].rows[k] = tx[w].rows[k]
      /\ tx'[w].rows[Len(tx[w].rows) + 1] = row
  BY <1>1, <1>3
<1>5. ASSUME NEW v \in Writers, NEW k \in 1..Len(tx'[v].rows)
      PROVE  \/ /\ k \in 1..Len(tx[v].rows) /\ tx'[v].rows[k] = tx[v].rows[k]
                /\ \A m \in 1..(k - 1) : tx'[v].rows[m] = tx[v].rows[m]
             \/ /\ tx'[v].rows[k].hash = nextHash
                /\ \A m \in 1..(k - 1) :
                    m \in 1..Len(tx[v].rows) /\ tx'[v].rows[m] = tx[v].rows[m]
  <2>1. CASE v # w
    BY <1>3, <2>1
  <2>2. CASE v = w /\ k = Len(tx[w].rows) + 1
    <3>1. \A m \in 1..(k - 1) : m \in 1..Len(tx[w].rows)
      BY <1>1, <2>2
    <3> QED BY <1>2, <1>4, <2>2, <3>1
  <2>3. CASE v = w /\ k # Len(tx[w].rows) + 1
    <3>1. k \in 1..Len(tx[w].rows) /\ \A m \in 1..(k - 1) : m \in 1..Len(tx[w].rows)
      BY <1>1, <1>4, <2>3
    <3> QED BY <1>4, <2>3, <3>1
  <2> QED BY <2>1, <2>2, <2>3
<1>6. \A i \in 1..Len(log) : log[i].hash \in Nat /\ log[i].hash < nextHash
  <2> TAKE i \in 1..Len(log)
  <2>1. log[i] \in Row
    BY ElementOfSeq DEF BaseInv, TypeOK
  <2> QED BY <2>1 DEF Row, RowsInv, HashesInv
<1>7. \A v \in Writers : \A k \in 1..Len(tx[v].rows) :
        tx[v].rows[k].hash \in Nat /\ tx[v].rows[k].hash < nextHash
  <2> TAKE v \in Writers
  <2> TAKE k \in 1..Len(tx[v].rows)
  <2>1. tx[v].rows[k] \in PendingRow
    BY ElementOfSeq DEF BaseInv, TypeOK
  <2> QED BY <2>1 DEF PendingRow, RowsInv, HashesInv
<1>8. HashesInv'
  <2>1. ASSUME NEW i \in 1..Len(log')
        PROVE  /\ log'[i].hash < nextHash'
               /\ log'[i].hash # NoHash =>
                    \A j \in 1..Len(log') : log'[j].hash = log'[i].hash => j = i
    <3>1. i \in 1..Len(log) /\ log' = log
      BY <1>1
    <3>2. log[i].hash < nextHash'
      BY <1>1, <1>6, <3>1
    <3> QED BY <1>1, <3>1, <3>2 DEF RowsInv, HashesInv
  <2>2. ASSUME NEW v \in Writers, NEW k \in 1..Len(tx'[v].rows)
        PROVE  /\ tx'[v].rows[k].hash < nextHash'
               /\ \A i \in 1..Len(log) : log[i].hash < tx'[v].rows[k].hash
               /\ \A m \in 1..(k - 1) : tx'[v].rows[m].hash < tx'[v].rows[k].hash
    <3>1. CASE /\ k \in 1..Len(tx[v].rows) /\ tx'[v].rows[k] = tx[v].rows[k]
               /\ \A m \in 1..(k - 1) : tx'[v].rows[m] = tx[v].rows[m]
      <4>1. tx[v].rows[k].hash < nextHash'
        BY <1>1, <1>7, <3>1
      <4> QED BY <3>1, <4>1 DEF RowsInv, HashesInv
    <3>2. CASE /\ tx'[v].rows[k].hash = nextHash
               /\ \A m \in 1..(k - 1) :
                    m \in 1..Len(tx[v].rows) /\ tx'[v].rows[m] = tx[v].rows[m]
      <4>1. tx'[v].rows[k].hash = nextHash /\ nextHash < nextHash'
        BY <1>1, <3>2
      <4>2. \A m \in 1..(k - 1) : tx'[v].rows[m].hash < nextHash
        BY <1>7, <3>2
      <4> QED BY <1>6, <4>1, <4>2
    <3> QED BY <1>5, <3>1, <3>2
  <2> QED BY <1>1, <2>1, <2>2 DEF HashesInv
<1>9. HonestInv'
  BY <1>1 DEF RowsInv, HonestInv
<1>10. ASSUME NEW a \in Nat, a < nextHash,
              \A v \in Writers : \A k \in 1..Len(tx[v].rows) : a < tx[v].rows[k].hash
       PROVE  /\ a < nextHash'
              /\ \A v \in Writers : \A k \in 1..Len(tx'[v].rows) : a < tx'[v].rows[k].hash
  <2>1. a < nextHash'
    BY <1>1, <1>10
  <2>2. ASSUME NEW v \in Writers, NEW k \in 1..Len(tx'[v].rows)
        PROVE  a < tx'[v].rows[k].hash
    BY <1>5, <1>10
  <2> QED BY <2>1, <2>2
<1>11. PickInv'
  <2> SUFFICES ASSUME purge.pc = "picked", purge.newest # NoRow PROVE PickInv'
    BY <1>1 DEF PickInv
  <2>1. purge.newest.hash \in Nat
    BY DEF BaseInv, TypeOK
  <2>2. /\ purge.newest.hash < nextHash'
        /\ \A v \in Writers : \A k \in 1..Len(tx'[v].rows) : purge.newest.hash < tx'[v].rows[k].hash
    BY <1>10, <2>1 DEF RowsInv, PickInv
  <2> QED BY <1>1, <2>2 DEF RowsInv, PickInv
<1>12. ASSUME NEW a \in Nat, Left(a) PROVE Left(a)'
  <2>1. /\ a < nextHash'
        /\ \A v \in Writers : \A k \in 1..Len(tx'[v].rows) : a < tx'[v].rows[k].hash
    BY <1>10, <1>12 DEF Left
  <2> QED BY <1>1, <1>12, <2>1 DEF Left
<1> QED BY <1>8, <1>9, <1>11, <1>12 DEF RowsKept, RowsInv

LEMMA CommitExtends ==
    ASSUME BaseInv, RowsInv, NEW w \in Writers, Commit(w)
    PROVE  Extended(tx[w].rows)
<1> DEFINE pending == tx[w].rows
<1>1. /\ log' = Inserted(log, pending) /\ nextHash' = nextHash /\ purge' = purge /\ up' = up
      /\ pending \in Seq(PendingRow) /\ nextHash \in Nat
      /\ tx[w].pc # "idle" /\ tx' = [tx EXCEPT ![w] = IdleTx]
  BY DEF Commit, BaseInv, TypeOK
<1>2. up /\ writeLock = w
  <2>1. up
    BY <1>1 DEF BaseInv, LockInv, IdleTx
  <2> QED BY <2>1 DEF BaseInv, LockInv, Commit
<1>3. \A v \in Writers : tx'[v].rows = <<>>
  BY <1>1, <1>2 DEF BaseInv, TypeOK, LockInv, IdleTx
<1>4. \A k \in 1..Len(pending) :
        /\ pending[k].hash # NoHash /\ pending[k].hash < nextHash
        /\ k # 1 => pending[k].prev = pending[k - 1].hash
        /\ k = 1 /\ log # <<>> => pending[k].prev = log[Len(log)].hash
        /\ \A i \in 1..Len(log) : log[i].hash < pending[k].hash
        /\ \A m \in 1..(k - 1) : pending[m].hash < pending[k].hash
  <2>1. log # <<>> => CurrentChainTip(log, chainStates) = log[Len(log)].hash
    <3>1. log # <<>> => Len(log) \in 1..Len(log)
      BY EmptySeq, LenProperties DEF BaseInv, TypeOK
    <3> QED BY <1>2, <3>1 DEF BaseInv, HashedInv, CurrentChainTip
  <2> QED BY <2>1 DEF BaseInv, PendingInv, RowsInv, HashesInv
<1>5. nextHash' >= nextHash
  BY <1>1
<1> HIDE DEF pending
<1>6. Extended(pending)
  BY <1>1, <1>2, <1>3, <1>4, <1>5 DEF Extended
<1> QED BY <1>6 DEF pending

LEMMA CommitRows ==
    ASSUME BaseInv, RowsInv, NEW w \in Writers, Commit(w)
    PROVE  RowsKept
<1> DEFINE pending == tx[w].rows
<1>1. Extended(pending) /\ purge' = purge
  BY CommitExtends DEF Commit
<1>2. \A a \in Nat : Left(a) => Below(a, pending)
  BY DEF Left, Below
<1>3. purge.pc = "picked" /\ purge.newest # NoRow => Below(purge.newest.hash, pending)
  BY DEF RowsInv, PickInv, Below
<1> HIDE DEF pending
<1>4. PickInv'
  <2>1. CASE purge.pc = "picked" /\ purge.newest # NoRow
    BY <1>1, <1>3, <2>1, ExtendedLeft DEF RowsInv
  <2>2. CASE ~(purge.pc = "picked" /\ purge.newest # NoRow)
    BY <1>1, <2>2 DEF PickInv
  <2> QED BY <2>1, <2>2
<1>5. \A a \in Nat : Left(a) => Left(a)'
  BY <1>1, <1>2, ExtendedLeft
<1> QED BY <1>1, <1>4, <1>5, ExtendedHashes DEF RowsKept, RowsInv

LEMMA PurgePickAnchorRows ==
    ASSUME BaseInv, RowsInv, PurgePickAnchor
    PROVE  RowsKept
<1>1. PICK k \in 0..Len(log) :
        /\ MatchesPrefix(log, purge.first, k)
        /\ purge' = [purge EXCEPT
                        !.pc = "picked",
                        !.newest = IF k = 0 THEN NoRow
                                   ELSE [id |-> log[k].id, hash |-> log[k].hash],
                        !.stateRow = IF k # 0 /\ chainStates # <<>> THEN 1 ELSE 0]
  BY DEF PurgePickAnchor
<1>2. /\ log' = log /\ tx' = tx /\ nextHash' = nextHash /\ Len(log) \in Nat
      /\ purge'.first = purge.first
      /\ purge'.newest = IF k = 0 THEN NoRow ELSE [id |-> log[k].id, hash |-> log[k].hash]
  BY <1>1, LenProperties DEF PurgePickAnchor, BaseInv, TypeOK
<1>3. PickInv'
  <2>1. CASE k = 0
    BY <1>2, <2>1 DEF PickInv
  <2>2. CASE k # 0
    <3>1. k \in 1..Len(log) /\ purge'.newest.id = log[k].id /\ purge'.newest.hash = log[k].hash
      BY <1>2, <2>2
    <3>2. purge.first = NoId \/ log[k].id < purge.first
      BY <1>1, <3>1 DEF MatchesPrefix, InPrefix
    <3>3. log[k].hash < nextHash
      BY <3>1 DEF RowsInv, HashesInv
    <3>4. ASSUME NEW i \in 1..Len(log), log[i].hash # NoHash, log[i].hash = log[k].hash
          PROVE  log[i].id = log[k].id
      BY <3>1, <3>4 DEF RowsInv, HashesInv
    <3>5. ASSUME NEW i \in 1..Len(log), Honest(log[i]), log[i].prev = log[k].hash,
                 NEW j \in 1..(i - 1)
          PROVE  log[j].id <= log[k].id
      <4>1. i <= k + 1
        BY <3>1, <3>5 DEF RowsInv, HonestInv
      <4>2. j \in 1..Len(log) /\ (j = k \/ j < k)
        BY <1>2, <3>1, <4>1
      <4>3. log[j] \in Row /\ log[k] \in Row
        BY <3>1, <4>2, ElementOfSeq DEF BaseInv, TypeOK
      <4>4. j < k => log[j].id < log[k].id
        BY <3>1, <4>2 DEF BaseInv, SortedById
      <4> QED BY <4>2, <4>3, <4>4 DEF Row
    <3>6. \A w \in Writers : \A m \in 1..Len(tx[w].rows) : log[k].hash < tx[w].rows[m].hash
      BY <3>1 DEF RowsInv, HashesInv
    <3> QED BY <1>2, <3>1, <3>2, <3>3, <3>4, <3>5, <3>6 DEF PickInv
  <2> QED BY <2>1, <2>2
<1>4. HashesInv' /\ HonestInv'
  BY <1>2 DEF RowsInv, HashesInv, HonestInv
<1>5. \A a \in Nat : Left(a) => Left(a)'
  BY <1>2 DEF Left
<1> QED BY <1>3, <1>4, <1>5 DEF RowsKept, RowsInv

\* The sweep's delete: the rows left keep their order, and the anchor it writes has left.
LEMMA PurgeDeleteRows ==
    ASSUME BaseInv, RowsInv, PurgeDelete
    PROVE  /\ RowsKept
           /\ \A a \in Nat : purge.newest # NoRow /\ a = purge.newest.hash => Left(a)'
<1> DEFINE n == Len(log)
<1>1. PICK k \in 0..n : MatchesPrefix(log, purge.first, k) /\ log' = SubSeq(log, k + 1, n)
  BY DEF PurgeDelete
<1>2. log \in Seq(Row) /\ n \in Nat
  BY LenProperties DEF BaseInv, TypeOK
<1>3. /\ log' \in Seq(Row) /\ Len(log') = n - k
      /\ \A i \in 1..(n - k) : log'[i] = log[k + i]
  BY <1>1, <1>2, SuffixRows
<1> DEFINE m == [i \in 1..(n - k) |-> k + i]
<1>4. /\ m \in [1..(n - k) -> 1..n]
      /\ \A i \in 1..(n - k) : m[i] = k + i
      /\ \A i, j \in 1..(n - k) : i < j => m[i] < m[j]
  BY <1>2
<1>5. /\ purge.pc = "picked" /\ writeLock = NoWriter /\ purge' = IdlePurge
      /\ UNCHANGED <<writeLock, tx, nextHash, up>>
  BY DEF PurgeDelete
<1> HIDE DEF m
<1>6. Thinned(m)
  BY <1>3, <1>4, <1>5 DEF Thinned
<1>7. PickInv'
  BY <1>5 DEF PickInv, IdlePurge
<1>8. RowsKept
  BY <1>6, <1>7, ThinnedRows DEF RowsKept, RowsInv
<1>9. ASSUME NEW a \in Nat, purge.newest # NoRow, a = purge.newest.hash PROVE Left(a)'
  <2> DEFINE top == purge.newest.id
  <2>1. /\ top \in Nat /\ purge.first \in Nat
        /\ purge.first = NoId \/ top < purge.first
        /\ a < nextHash
        /\ \A i \in 1..n :
            /\ log[i].hash # NoHash /\ log[i].hash = a => log[i].id = top
            /\ Honest(log[i]) /\ log[i].prev = a =>
                \A j \in 1..(i - 1) : log[j].id <= top
    BY <1>5, <1>9 DEF RowsInv, PickInv, BaseInv, TypeOK
  <2>2. ASSUME NEW i \in 1..(n - k)
        PROVE  k + i \in 1..n /\ log[k + i].id \in Nat /\ top < log[k + i].id
    <3>1. k + i \in 1..n
      BY <1>2
    <3>2. log[k + i] \in Row
      BY <1>2, <3>1, ElementOfSeq
    <3>3. log[k + i].id \in Nat
      BY <3>2 DEF Row
    <3>4. purge.first # NoId /\ ~(log[k + i].id < purge.first)
      <4>1. ~(k + i <= k)
        BY <1>2
      <4> QED BY <1>1, <3>1, <4>1 DEF MatchesPrefix, InPrefix
    <3> HIDE DEF top
    <3> QED BY <2>1, <3>1, <3>3, <3>4
  <2> HIDE DEF n, top
  <2>3. ASSUME NEW i \in 1..(n - k)
        PROVE  /\ log'[i].hash # NoHash => log'[i].hash # a
               /\ Honest(log'[i]) /\ i # 1 => log'[i].prev # a
    <3>1. log'[i] = log[k + i] /\ k + i \in 1..n /\ top < log[k + i].id /\ log[k + i].id \in Nat
      BY <1>3, <2>2
    <3>2. log[k + i].hash # NoHash => log[k + i].hash # a
      BY <2>1, <3>1
    <3>3. ASSUME Honest(log[k + i]), i # 1 PROVE log[k + i].prev # a
      <4>1. 1 \in 1..(n - k) /\ k + 1 \in 1..((k + i) - 1)
        BY <1>2, <3>3
      <4>2. top < log[k + 1].id /\ log[k + 1].id \in Nat
        BY <2>2, <4>1
      <4>3. log[k + i].prev = a => log[k + 1].id <= top
        BY <2>1, <3>1, <3>3, <4>1
      <4> QED BY <2>1, <4>2, <4>3
    <3> QED BY <3>1, <3>2, <3>3
  <2>4. \A w \in Writers : Len(tx'[w].rows) = 0
    BY <1>5, NoPending
  <2>5. Left(a)'
    <3> SUFFICES ASSUME NEW i \in 1..Len(log')
                 PROVE  /\ log'[i].hash # NoHash => log'[i].hash # a
                        /\ Honest(log'[i]) /\ i # 1 => log'[i].prev # a
      BY <1>5, <2>1, <2>4 DEF Left
    <3> QED BY <1>3, <2>3
  <2> QED BY <2>5
<1> QED BY <1>8, <1>9

LEMMA BootRows ==
    ASSUME BaseInv, RowsInv, Boot
    PROVE  RowsKept
<1> DEFINE n == Len(log)
<1>1. n \in Nat /\ nextHash \in Nat \ {0}
  BY LenProperties DEF BaseInv, TypeOK
<1>2. /\ ~up /\ log' = Backfilled /\ tx' = tx /\ purge' = purge
      /\ nextHash' = IF Unhashed = {} THEN nextHash ELSE nextHash + n
  BY DEF Boot
<1>3. purge.pc = "idle" /\ \A w \in Writers : tx'[w].rows = <<>> /\ Len(tx'[w].rows) = 0
  BY <1>2, EmptySeq DEF BaseInv, LockInv, IdleTx
<1>4. CASE Unhashed = {} /\ log' = log
  BY <1>1, <1>2, <1>3, <1>4, QuietRowsKept
<1>5. CASE /\ Unhashed # {} /\ log' \in Seq(Row) /\ Len(log') = n
           /\ \A i \in 1..n :
                log'[i] = [log[i] EXCEPT
                    !.prev = IF i = 1 THEN AnchorHash(chainStates)
                             ELSE nextHash + (i - 1) - 1,
                    !.hash = nextHash + i - 1,
                    !.valid = TRUE]
  <2>1. ASSUME NEW i \in 1..n
        PROVE  /\ log'[i].hash = nextHash + i - 1
               /\ i # 1 => log'[i].prev = nextHash + (i - 1) - 1
    <3>1. log[i] \in Row
      BY ElementOfSeq DEF BaseInv, TypeOK
    <3> DEFINE p == IF i = 1 THEN AnchorHash(chainStates) ELSE nextHash + (i - 1) - 1
               h == nextHash + i - 1
    <3>2. log'[i] = [log[i] EXCEPT !.prev = p, !.hash = h, !.valid = TRUE]
      BY <1>5
    <3> HIDE DEF p, h
    <3>3. log'[i].prev = p /\ log'[i].hash = h
      BY <3>1, <3>2 DEF Row
    <3> QED BY <3>3 DEF p, h
  <2> HIDE DEF n
  <2>2. nextHash' = nextHash + n
    BY <1>2, <1>5
  <2>3. HashesInv'
    <3>1. ASSUME NEW i \in 1..n, NEW j \in 1..n
          PROVE  log'[i].hash < nextHash' /\ (log'[j].hash = log'[i].hash => j = i)
      BY <1>1, <2>1, <2>2
    <3> SUFFICES ASSUME NEW i \in 1..Len(log')
                 PROVE  /\ log'[i].hash < nextHash'
                        /\ \A j \in 1..Len(log') : log'[j].hash = log'[i].hash => j = i
      BY <1>3 DEF HashesInv
    <3> QED BY <1>5, <3>1
  <2>4. HonestInv'
    <3>1. ASSUME NEW i \in 1..n, NEW j \in 1..n, log'[j].hash = log'[i].prev
          PROVE  i <= j + 1
      <4>1. CASE i = 1
        BY <4>1
      <4>2. CASE i # 1
        BY <1>1, <2>1, <3>1, <4>2
      <4> QED BY <4>1, <4>2
    <3> QED BY <1>5, <3>1 DEF HonestInv
  <2>5. PickInv'
    BY <1>2, <1>3 DEF PickInv
  <2>6. ASSUME NEW a \in Nat, Left(a) PROVE Left(a)'
    <3>1. a < nextHash /\ a < nextHash'
      BY <1>1, <2>2, <2>6 DEF Left
    <3>2. ASSUME NEW i \in 1..n
          PROVE  log'[i].hash # a /\ (i # 1 => log'[i].prev # a)
      BY <1>1, <2>1, <3>1
    <3> SUFFICES ASSUME NEW i \in 1..Len(log')
                 PROVE  log'[i].hash # a /\ (i # 1 => log'[i].prev # a)
      BY <1>3, <3>1 DEF Left
    <3> QED BY <1>5, <3>2
  <2> QED BY <2>3, <2>4, <2>5, <2>6 DEF RowsKept, RowsInv
<1> QED
  <2>1. TypeOK /\ HashedInv
    BY DEF BaseInv
  <2> QED BY <1>2, <1>4, <1>5, <2>1, BackfilledRows

(***************************************************************************)
(* The steps and the checks.                                               *)
(***************************************************************************)

\* What is to be shown of a step beside the types.
LEMMA AnchorType ==
    ASSUME TypeOK
    PROVE  AnchorHash(chainStates) \in Nat /\ (chainStates # <<>> => chainStates[1] \in ChainState)
<1>1. chainStates # <<>> => chainStates[1] \in ChainState
  BY EmptySeq, ElementOfSeq DEF TypeOK
<1> QED BY <1>1 DEF AnchorHash, ChainState, NoHash

\* Checks that go on with the state row they had keep an anchor that has left.
LEMMA AnchorsKept ==
    ASSUME BaseInv, ChecksTypeOK, AnchorsInv, \A a \in Nat : Left(a) => Left(a)',
           AnchorHash(chainStates') = AnchorHash(chainStates),
           \A c \in Checkers : check'[c].pc # "idle" =>
                check[c].pc # "idle" /\ check'[c].state = check[c].state
    PROVE  AnchorsInv'
<1>1. AnchorHash(chainStates) \in Nat
  BY AnchorType DEF BaseInv
<1>2. Left(AnchorHash(chainStates))'
  BY <1>1 DEF AnchorsInv, Left
<1>3. ASSUME NEW c \in Checkers, check'[c].pc # "idle"
      PROVE  Left(check[c].state.anchorHash)'
  <2>1. check[c].state.anchorHash \in Nat
    BY DEF ChecksTypeOK, Check, ChainState
  <2>2. Left(check[c].state.anchorHash) /\ check'[c].state = check[c].state
    BY <1>3 DEF AnchorsInv
  <2> QED BY <2>1, <2>2 DEF Left
<1> QED BY <1>2, <1>3 DEF AnchorsInv

\* The anchor a check loads has left.
LEMMA LoadedAnchor ==
    ASSUME BaseInv, AnchorsInv, NEW state,
           state = IF chainStates = <<>> THEN NewChainState ELSE chainStates[1]
    PROVE  state \in ChainState /\ Left(state.anchorHash)
<1>1. state \in ChainState
  BY AnchorType DEF BaseInv, NewChainState, ChainState, Statuses, NoId, NoHash
<1>2. state.anchorHash = AnchorHash(chainStates)
  BY DEF AnchorHash, NewChainState
<1> QED BY <1>1, <1>2 DEF AnchorsInv

\* A row that looks like the race's is one of its forks: the parent of any other row is
\* the row before it, or has left.
LEMMA RacesAreForks ==
    ASSUME BaseInv, RowsInv, up, NEW state \in ChainState, Left(state.anchorHash),
           NEW recorded, NEW i \in 1..Len(log), RaceBreak(state, recorded, log, i)
    PROVE  log[i].hash \in GenuineForks
<1> SUFFICES ASSUME log[i].hash \notin GenuineForks PROVE FALSE
  OBVIOUS
<1>1. Honest(log[i])
  BY DEF Honest, BaseInv, HashedInv
<1>2. ~Linked(state, log, i) /\ \E p \in Earlier(state, log, i) : p.hash = log[i].prev
  BY DEF RaceBreak, ParentKnown
<1>3. PICK p \in Earlier(state, log, i) : p.hash = log[i].prev
  BY <1>2
<1>4. CASE p.hash = state.anchorHash
  <2>1. i = 1
    BY <1>1, <1>3, <1>4 DEF Left
  <2> QED BY <1>2, <1>3, <1>4, <2>1 DEF Linked
<1>5. CASE \E j \in 1..(i - 1) : p.hash = log[j].hash
  <2>1. PICK j \in 1..(i - 1) : log[j].hash = log[i].prev
    BY <1>3, <1>5
  <2>2. Len(log) \in Nat
    BY LenProperties DEF BaseInv, TypeOK
  <2>3. j \in 1..Len(log)
    BY <2>2
  <2>4. i <= j + 1
    BY <1>1, <2>1, <2>3 DEF RowsInv, HonestInv
  <2>5. j = i - 1 /\ i # 1
    BY <2>4
  <2> QED BY <1>2, <2>1, <2>5 DEF Linked
<1> QED BY <1>3, <1>4, <1>5 DEF Earlier

\* The state rows are written while nobody else writes.
LEMMA StatesReplaced ==
    ASSUME BaseInv, writeLock = NoWriter, chainStates' \in Seq(ChainState),
           chainStates # <<>> => chainStates' # <<>>,
           UNCHANGED <<log, writeLock, tx, purge, now, nextHash, up>>
    PROVE  BaseInv'
<1>1. TypeOK'
  BY DEF BaseInv, TypeOK
<1>2. SortedById(log)' /\ HashedInv' /\ StateInv' /\ LockInv'
  BY DEF BaseInv, SortedById, HashedInv, StateInv, LockInv
<1>3. PendingInv'
  BY NoPending DEF PendingInv
<1> QED BY <1>1, <1>2, <1>3 DEF BaseInv

\* The steps of a check that leave the database alone, and an idle check.
LEMMA IdleCheckType == IdleCheck \in Check
<1>1. NewChainState \in ChainState
  BY DEF NewChainState, ChainState, Statuses, NoId, NoHash
<1>2. NoRecord \in Recorded /\ NoResult \in Result
  BY DEF NoRecord, Recorded, NoResult, Result, Statuses, NoId
<1> QED BY <1>1, <1>2 DEF IdleCheck, Check

\* What a step of checker c has to establish when it leaves the database alone.
CheckFits(entry) ==
    /\ entry \in Check
    /\ entry.pc # "idle" => up /\ Left(entry.state.anchorHash)
    /\ \A b \in entry.result.races : b.hash \in GenuineForks

LEMMA CheckEntry ==
    ASSUME JInv, NEW c \in Checkers, NEW entry, CheckFits(entry),
           check' = [check EXCEPT ![c] = entry], UNCHANGED <<vars, notes>>
    PROVE  JInv'
<1>1. BaseInv'
  BY StutterStep DEF JInv, Keeps, vars
<1>2. /\ check'[c] = entry /\ \A d \in Checkers : d # c => check'[d] = check[d]
      /\ check' \in [Checkers -> Check]
  BY DEF JInv, ChecksTypeOK, CheckFits
<1>3. ChecksTypeOK'
  BY <1>2 DEF JInv, ChecksTypeOK
<1>4. RowsKept
  <2>1. log' = log /\ nextHash' = nextHash /\ purge' = purge /\ tx' = tx /\ nextHash \in Nat
    BY DEF vars, JInv, BaseInv, TypeOK
  <2> QED BY <2>1, QuietRowsKept DEF JInv
<1>5. AnchorsInv'
  <2>1. Left(AnchorHash(chainStates))'
    BY DEF JInv, AnchorsInv, Left, AnchorHash, vars
  <2>2. ASSUME NEW d \in Checkers, check'[d].pc # "idle"
        PROVE  Left(check[d].state.anchorHash)'
    <3>1. Left(check'[d].state.anchorHash)
      BY <1>2, <2>2 DEF JInv, AnchorsInv, CheckFits
    <3> QED BY <3>1 DEF Left, vars
  <2> QED BY <2>1, <2>2 DEF AnchorsInv
<1>6. ChecksInv'
  BY <1>2 DEF JInv, ChecksInv, CheckFits, vars
<1>7. OnlyForksAreRecorded'
  BY DEF JInv, OnlyForksAreRecorded
<1> QED BY <1>1, <1>3, <1>4, <1>5, <1>6, <1>7 DEF JInv, RowsKept

LEMMA CheckLoadStep == ASSUME JInv, NEW c \in Checkers, CheckLoad(c) PROVE JInv'
<1>1. PICK goal \in {"verify", "record"} :
        check' = [check EXCEPT ![c] = [IdleCheck EXCEPT
                    !.pc = "loaded", !.goal = goal,
                    !.found = chainStates # <<>>,
                    !.state = IF chainStates = <<>> THEN NewChainState
                              ELSE chainStates[1]]]
  BY DEF CheckLoad
<1> DEFINE state == IF chainStates = <<>> THEN NewChainState ELSE chainStates[1]
           found == chainStates # <<>>
           entry == [IdleCheck EXCEPT !.pc = "loaded", !.goal = goal, !.found = found,
                                      !.state = state]
<1>2. state \in ChainState /\ Left(state.anchorHash) /\ found \in BOOLEAN
  BY LoadedAnchor DEF JInv
<1>3. check' = [check EXCEPT ![c] = entry]
  BY <1>1
<1> HIDE DEF state, found
<1>4. entry \in Check
  BY <1>2, IdleCheckType DEF Check
<1>5. entry.state = state /\ entry.result.races = {}
  BY DEF IdleCheck, NoResult
<1> HIDE DEF entry
<1>6. CheckFits(entry)
  BY <1>2, <1>4, <1>5 DEF CheckFits, CheckLoad
<1> QED BY <1>3, <1>6, CheckEntry DEF CheckLoad

LEMMA CheckListStep == ASSUME JInv, NEW c \in Checkers, CheckList(c) PROVE JInv'
<1> DEFINE entry == [check[c] EXCEPT !.pc = "listed", !.recorded = RecordedIn(log)]
<1>1. check' = [check EXCEPT ![c] = entry] /\ check[c].pc # "idle" /\ check[c] \in Check
  BY DEF CheckList, JInv, ChecksTypeOK
<1>2. RecordedIn(log) \in Recorded
  BY RecordedInType DEF JInv
<1>3. entry \in Check /\ entry.state = check[c].state /\ entry.result = check[c].result
  BY <1>1, <1>2 DEF Check
<1> HIDE DEF entry
<1>4. CheckFits(entry)
  BY <1>1, <1>3 DEF CheckFits, JInv, AnchorsInv, ChecksInv
<1> QED BY <1>1, <1>4, CheckEntry DEF CheckList

LEMMA CheckReloadStep == ASSUME JInv, NEW c \in Checkers, CheckReload(c) PROVE JInv'
<1> DEFINE state == IF chainStates = <<>> THEN NewChainState ELSE chainStates[1]
           found == chainStates # <<>>
           entry == [check[c] EXCEPT !.pc = "reloaded", !.found = found, !.state = state]
<1>1. check' = [check EXCEPT ![c] = entry] /\ check[c].pc # "idle" /\ check[c] \in Check
  BY DEF CheckReload, JInv, ChecksTypeOK
<1>2. state \in ChainState /\ Left(state.anchorHash) /\ found \in BOOLEAN
  BY LoadedAnchor DEF JInv
<1> HIDE DEF state, found
<1>3. entry \in Check /\ entry.state = state /\ entry.result = check[c].result
  BY <1>1, <1>2 DEF Check
<1> HIDE DEF entry
<1>4. CheckFits(entry)
  BY <1>1, <1>2, <1>3 DEF CheckFits, JInv, ChecksInv
<1> QED BY <1>1, <1>4, CheckEntry DEF CheckReload

LEMMA IdleCheckFits == ASSUME JInv PROVE CheckFits(IdleCheck)
BY IdleCheckType DEF CheckFits, IdleCheck, NoResult

LEMMA CheckFailStep == ASSUME JInv, NEW c \in Checkers, CheckFail(c) PROVE JInv'
BY IdleCheckFits, CheckEntry DEF CheckFail

\* What the leaves of a recording are.
LEMMA LeafRowsType ==
    ASSUME BaseInv, NEW state, NEW ids
    PROVE  LeafRows(state, log, ids) \subseteq LeafRow
<1> SUFFICES ASSUME NEW i \in 1..(Len(log) - 1)
             PROVE  [id |-> log[i].id, hash |-> log[i].hash] \in LeafRow
  BY DEF LeafRows
<1>1. Len(log) \in Nat
  BY LenProperties DEF BaseInv, TypeOK
<1>2. log[i] \in Row
  BY <1>1, ElementOfSeq DEF BaseInv, TypeOK
<1> QED BY <1>2 DEF Row, LeafRow

LEMMA CheckWalkStep == ASSUME JInv, NEW c \in Checkers, CheckWalk(c) PROVE JInv'
<1> DEFINE result == Walk(check[c].state, check[c].recorded, log)
           walked == [check[c] EXCEPT !.pc = "walked", !.recorded = NoRecord]
           verified == [walked EXCEPT !.result = [result EXCEPT !.races = {}]]
           judged == [walked EXCEPT !.result = result]
<1>1. /\ check[c].pc # "idle" /\ check[c] \in Check /\ UNCHANGED <<vars, notes>>
      /\ \/ check' = [check EXCEPT ![c] = verified]
         \/ check' = [check EXCEPT ![c] = IdleCheck]
         \/ check' = [check EXCEPT ![c] = judged]
  BY DEF CheckWalk, JInv, ChecksTypeOK
<1>2. /\ up /\ Left(check[c].state.anchorHash)
      /\ check[c].state \in ChainState /\ check[c].recorded \in Recorded
  BY <1>1 DEF JInv, AnchorsInv, ChecksInv, Check
<1>3. result \in Result
  BY <1>2, WalkType DEF JInv, BaseInv, TypeOK
<1>4. ASSUME NEW b \in result.races PROVE b.hash \in GenuineForks
  <2>1. PICK i \in 1..Len(log) :
            RaceBreak(check[c].state, check[c].recorded, log, i) /\ b.hash = log[i].hash
    BY <1>4 DEF Walk
  <2> QED BY <1>2, <2>1, RacesAreForks DEF JInv
<1>5. NoRecord \in Recorded
  BY DEF NoRecord, Recorded
<1> HIDE DEF result
<1>6. [result EXCEPT !.races = {}] \in Result
  BY <1>3 DEF Result
<1>7. /\ verified \in Check /\ verified.state = check[c].state
      /\ verified.result.races = {}
  BY <1>1, <1>3, <1>5, <1>6 DEF Check, Result
<1>8. judged \in Check /\ judged.state = check[c].state /\ judged.result = result
  BY <1>1, <1>3, <1>5 DEF Check
<1> HIDE DEF verified, judged
<1>9. CheckFits(verified)
  BY <1>2, <1>7 DEF CheckFits
<1>10. CheckFits(judged)
  BY <1>2, <1>4, <1>8 DEF CheckFits
<1>11. CASE check' = [check EXCEPT ![c] = verified]
  BY <1>1, <1>9, <1>11, CheckEntry
<1>12. CASE check' = [check EXCEPT ![c] = IdleCheck]
  BY <1>1, <1>12, IdleCheckFits, CheckEntry
<1>13. CASE check' = [check EXCEPT ![c] = judged]
  BY <1>1, <1>10, <1>13, CheckEntry
<1> QED BY <1>1, <1>11, <1>12, <1>13

LEMMA CheckLeavesStep == ASSUME JInv, NEW c \in Checkers, CheckLeaves(c) PROVE JInv'
<1> DEFINE leaves == LeafRows(check[c].state, log, {b.id : b \in check[c].result.races})
           drafted == [check[c] EXCEPT !.pc = "drafted", !.leaves = leaves, !.at = now]
<1>1. check' = [check EXCEPT ![c] = drafted] /\ check[c].pc # "idle" /\ check[c] \in Check
  BY DEF CheckLeaves, JInv, ChecksTypeOK
<1>2. leaves \subseteq LeafRow /\ now \in Nat
  BY LeafRowsType DEF JInv, BaseInv, TypeOK
<1> HIDE DEF leaves
<1>3. drafted \in Check /\ drafted.state = check[c].state /\ drafted.result = check[c].result
  BY <1>1, <1>2 DEF Check
<1> HIDE DEF drafted
<1>4. CheckFits(drafted)
  BY <1>1, <1>3 DEF CheckFits, JInv, AnchorsInv, ChecksInv
<1> QED BY <1>1, <1>4, CheckEntry DEF CheckLeaves

\* Commits leave the checker idle and the others as they are.
LEMMA CheckDone ==
    ASSUME JInv, NEW c \in Checkers, check' = [check EXCEPT ![c] = IdleCheck],
           up' = up, \A a \in Nat : Left(a) => Left(a)',
           AnchorHash(chainStates') = AnchorHash(chainStates)
    PROVE  check' \in [Checkers -> Check] /\ AnchorsInv' /\ ChecksInv'
<1>1. /\ check'[c] = IdleCheck /\ \A d \in Checkers : d # c => check'[d] = check[d]
      /\ check' \in [Checkers -> Check]
  BY IdleCheckType DEF JInv, ChecksTypeOK
<1>2. AnchorsInv'
  <2>1. \A d \in Checkers : check'[d].pc # "idle" =>
            check[d].pc # "idle" /\ check'[d].state = check[d].state
    BY <1>1 DEF IdleCheck
  <2> QED BY <2>1, AnchorsKept DEF JInv
<1>3. ChecksInv'
  BY <1>1 DEF JInv, ChecksInv, IdleCheck, NoResult
<1> QED BY <1>1, <1>2, <1>3

LEMMA CheckCommitStep == ASSUME JInv, NEW c \in Checkers, CheckCommit(c) PROVE JInv'
<1>1. /\ writeLock = NoWriter /\ check' = [check EXCEPT ![c] = IdleCheck] /\ notes' = notes
      /\ UNCHANGED <<log, writeLock, tx, purge, now, nextHash, up>>
      /\ check[c].state \in ChainState /\ check[c].result \in Result
      /\ chainStates \in Seq(ChainState)
  BY DEF CheckCommit, JInv, ChecksTypeOK, Check, BaseInv, TypeOK
<1>2. /\ chainStates' \in Seq(ChainState)
      /\ chainStates # <<>> => chainStates' # <<>>
      /\ AnchorHash(chainStates') = AnchorHash(chainStates)
  <2>1. CASE check[c].found
    <3> DEFINE new == [chainStates EXCEPT ![1] =
                        StatusWritten(chainStates[1], check[c].state, check[c].result)]
    <3>1. chainStates' = new
      BY <2>1 DEF CheckCommit
    <3>2. /\ new \in Seq(ChainState) /\ (new = <<>> <=> chainStates = <<>>)
          /\ AnchorHash(new) = AnchorHash(chainStates)
      BY <1>1, StatusWrittenStates
    <3> HIDE DEF new
    <3> QED BY <3>1, <3>2
  <2>2. CASE ~check[c].found
    <3> DEFINE new == StatusWritten(NewChainState, NewChainState, check[c].result)
    <3>1. chainStates' = Append(chainStates, new)
      BY <2>2 DEF CheckCommit
    <3>2. NewChainState \in ChainState
      BY DEF NewChainState, ChainState, Statuses, NoId, NoHash
    <3>3. new \in ChainState /\ new.anchorHash = NoHash
      <4>1. new \in ChainState /\ new.anchorHash = NewChainState.anchorHash
        BY <1>1, <3>2, StatusWrittenRow
      <4> QED BY <4>1 DEF NewChainState
    <3> HIDE DEF new
    <3>4. /\ chainStates' \in Seq(ChainState) /\ chainStates' # <<>>
          /\ \A i \in 1..Len(chainStates) : chainStates'[i] = chainStates[i]
          /\ chainStates'[Len(chainStates) + 1] = new
      BY <1>1, <3>1, <3>3, AppendProperties
    <3>5. CASE chainStates = <<>>
      <4>1. chainStates'[1] = new
        BY <3>4, <3>5, EmptySeq
      <4> QED BY <3>3, <3>4, <3>5, <4>1 DEF AnchorHash
    <3>6. CASE chainStates # <<>>
      <4>1. 1 \in 1..Len(chainStates)
        BY <1>1, <3>6, EmptySeq, LenProperties
      <4> QED BY <3>4, <3>6, <4>1 DEF AnchorHash
    <3> QED BY <3>4, <3>5, <3>6
  <2> QED BY <2>1, <2>2
<1>3. BaseInv'
  BY <1>1, <1>2, StatesReplaced DEF JInv
<1>4. RowsKept
  <2>1. nextHash \in Nat
    BY DEF JInv, BaseInv, TypeOK
  <2> QED BY <1>1, <2>1, QuietRowsKept DEF JInv
<1>5. check' \in [Checkers -> Check] /\ AnchorsInv' /\ ChecksInv'
  BY <1>1, <1>2, <1>4, CheckDone DEF RowsKept
<1> QED BY <1>1, <1>3, <1>4, <1>5 DEF JInv, RowsKept, ChecksTypeOK, OnlyForksAreRecorded

\* A check's commit removes no state row.
LEMMA CheckCommitLength ==
    ASSUME JInv, NEW c \in Checkers, CheckCommit(c)
    PROVE  Len(chainStates) <= Len(chainStates')
<1>1. /\ check[c].state \in ChainState /\ check[c].result \in Result
      /\ chainStates \in Seq(ChainState) /\ Len(chainStates) \in Nat
  BY LenProperties DEF JInv, ChecksTypeOK, Check, BaseInv, TypeOK
<1>2. CASE check[c].found
  <2> DEFINE new == [chainStates EXCEPT ![1] =
                      StatusWritten(chainStates[1], check[c].state, check[c].result)]
  <2>1. chainStates' = new
    BY <1>2 DEF CheckCommit
  <2>2. Len(new) = Len(chainStates)
    BY <1>1, StatusWrittenStates
  <2> HIDE DEF new
  <2> QED BY <1>1, <2>1, <2>2
<1>3. CASE ~check[c].found
  <2> DEFINE new == StatusWritten(NewChainState, NewChainState, check[c].result)
  <2>1. chainStates' = Append(chainStates, new)
    BY <1>3 DEF CheckCommit
  <2>2. NewChainState \in ChainState
    BY DEF NewChainState, ChainState, Statuses, NoId, NoHash
  <2>3. new \in ChainState
    BY <1>1, <2>2, StatusWrittenRow
  <2> HIDE DEF new
  <2>4. Len(chainStates') = Len(chainStates) + 1
    BY <1>1, <2>1, <2>3, AppendProperties
  <2> QED BY <1>1, <2>4
<1> QED BY <1>2, <1>3

\* The tip a recording sees: the newest row's hash, or the anchor it has loaded.
LEMMA TipRecordedType ==
    ASSUME JInv, up, NEW c \in Checkers
    PROVE  /\ TipRecorded(c) \in Nat
           /\ log # <<>> => TipRecorded(c) = log[Len(log)].hash
           /\ log = <<>> => TipRecorded(c) = check[c].state.anchorHash
<1> DEFINE states == <<check[c].state>>
<1>1. log \in Seq(Row) /\ check[c].state \in ChainState
  BY DEF JInv, BaseInv, TypeOK, ChecksTypeOK, Check
<1>2. log # <<>> => Len(log) \in 1..Len(log) /\ log[Len(log)] \in Row /\ log[Len(log)].hash # NoHash
  <2>1. log # <<>> => Len(log) \in 1..Len(log)
    BY <1>1, EmptySeq, LenProperties
  <2> QED BY <1>1, <2>1, ElementOfSeq DEF JInv, BaseInv, HashedInv
<1>3. states # <<>> /\ states[1] = check[c].state
  OBVIOUS
<1>4. AnchorHash(states) = check[c].state.anchorHash
  BY <1>3 DEF AnchorHash
<1> QED BY <1>1, <1>2, <1>4 DEF TipRecorded, CurrentChainTip, Row, ChainState

\* A recording appends its row as a writer would.
LEMMA RecordCommitExtends ==
    ASSUME JInv, NEW c \in Checkers, RecordCommit(c)
    PROVE  /\ Extended(<<[at |-> check[c].at, prev |-> TipRecorded(c), hash |-> nextHash]>>)
           /\ RowsKept
           /\ log' \in Seq(Row) /\ SortedById(log')
           /\ chainStates' \in Seq(ChainState) /\ Len(chainStates') = Len(chainStates)
           /\ chainStates' = <<>> <=> chainStates = <<>>
           /\ AnchorHash(chainStates') = AnchorHash(chainStates)
<1> DEFINE entry == [at |-> check[c].at, prev |-> TipRecorded(c), hash |-> nextHash]
           pending == <<entry>>
           note == [entry |-> nextHash, breaks |-> check[c].result.races,
                    leaves |-> check[c].leaves, emptied |-> check[c].emptied]
           listed == RecordedIn(log)
           recorded == [breaks |-> listed.breaks \cup note.breaks,
                        leaves |-> listed.leaves \cup note.leaves]
           result == Walk(check[c].state, recorded, log')
<1>1. /\ check[c].pc = "drafted" /\ writeLock = NoWriter
      /\ check' = [check EXCEPT ![c] = IdleCheck] /\ notes' = notes \cup {note}
      /\ log' = Inserted(log, pending)
      /\ chainStates' = [chainStates EXCEPT ![1] = StatusWritten(@, check[c].state, result)]
      /\ nextHash' = nextHash + 1
      /\ UNCHANGED <<writeLock, tx, purge, now, up>>
  BY DEF RecordCommit
<1>2. /\ up /\ check[c] \in Check /\ check[c].state \in ChainState
      /\ log \in Seq(Row) /\ SortedById(log) /\ nextHash \in Nat \ {0}
      /\ chainStates \in Seq(ChainState)
  BY <1>1 DEF JInv, ChecksInv, ChecksTypeOK, Check, BaseInv, TypeOK
<1>3. TipRecorded(c) \in Nat /\ (log # <<>> => TipRecorded(c) = log[Len(log)].hash)
  BY <1>2, TipRecordedType
<1>4. pending \in Seq(PendingRow) /\ Len(pending) = 1 /\ pending[1] = entry
  <2>1. entry \in PendingRow
    BY <1>2, <1>3 DEF PendingRow, Check
  <2> HIDE DEF entry
  <2> QED BY <2>1
<1>5. note \in Note
  BY <1>2 DEF Note, Check, Result
<1>6. recorded \in Recorded
  <2>1. listed \in Recorded
    BY RecordedInType DEF JInv
  <2> HIDE DEF listed
  <2> QED BY <1>5, <2>1 DEF Recorded, Note
<1>7. entry.hash = nextHash /\ entry.prev = TipRecorded(c)
  OBVIOUS
<1> HIDE DEF entry, pending, note, recorded, listed
<1>8. Extended(pending)
  <2>1. \A w \in Writers : tx'[w].rows = <<>>
    BY <1>1, NoPending DEF JInv
  <2>2. nextHash' \in Nat /\ nextHash' >= nextHash /\ nextHash < nextHash' /\ nextHash # NoHash
    BY <1>1, <1>2 DEF NoHash
  <2>3. \A i \in 1..Len(log) : log[i].hash < nextHash
    BY DEF JInv, RowsInv, HashesInv
  <2>4. ASSUME NEW k \in 1..Len(pending)
        PROVE  k = 1 /\ pending[k] = entry /\ \A m \in 1..(k - 1) : FALSE
    BY <1>4
  <2> QED BY <1>1, <1>2, <1>3, <1>4, <1>7, <2>1, <2>2, <2>3, <2>4 DEF Extended
<1>9. /\ \A a \in Nat : Left(a) => Below(a, pending)
      /\ purge.pc = "picked" /\ purge.newest # NoRow => Below(purge.newest.hash, pending)
  BY <1>4, <1>7 DEF Left, Below, JInv, RowsInv, PickInv
<1>10. RowsKept
  <2>1. PickInv'
    <3>1. CASE purge.pc = "picked" /\ purge.newest # NoRow
      BY <1>1, <1>8, <1>9, <3>1, ExtendedLeft DEF JInv, RowsInv
    <3>2. CASE ~(purge.pc = "picked" /\ purge.newest # NoRow)
      BY <1>1, <3>2 DEF PickInv
    <3> QED BY <3>1, <3>2
  <2>2. \A a \in Nat : Left(a) => Left(a)'
    BY <1>8, <1>9, ExtendedLeft DEF JInv
  <2> QED BY <1>8, <2>1, <2>2, ExtendedHashes DEF RowsKept, JInv, RowsInv
<1>11. SortedById(log') /\ log' \in Seq(Row)
  BY <1>1, <1>2, <1>4, InsertedRows, InsertedSorted
<1>12. result \in Result
  BY <1>2, <1>6, <1>11, WalkType
<1> HIDE DEF result
<1>13. /\ chainStates' \in Seq(ChainState) /\ Len(chainStates') = Len(chainStates)
       /\ chainStates' = <<>> <=> chainStates = <<>>
       /\ AnchorHash(chainStates') = AnchorHash(chainStates)
  <2> DEFINE new == [chainStates EXCEPT ![1] =
                      StatusWritten(chainStates[1], check[c].state, result)]
  <2>1. chainStates' = new
    BY <1>1
  <2>2. /\ new \in Seq(ChainState) /\ Len(new) = Len(chainStates)
        /\ new = <<>> <=> chainStates = <<>>
        /\ AnchorHash(new) = AnchorHash(chainStates)
    BY <1>2, <1>12, StatusWrittenStates
  <2> HIDE DEF new
  <2> QED BY <2>1, <2>2
<1> QED BY <1>8, <1>10, <1>11, <1>13 DEF pending, entry

LEMMA RecordCommitStep == ASSUME JInv, NEW c \in Checkers, RecordCommit(c) PROVE JInv'
<1> DEFINE pending == <<[at |-> check[c].at, prev |-> TipRecorded(c), hash |-> nextHash]>>
           note == [entry |-> nextHash, breaks |-> check[c].result.races,
                    leaves |-> check[c].leaves, emptied |-> check[c].emptied]
<1>1. /\ writeLock = NoWriter
      /\ check' = [check EXCEPT ![c] = IdleCheck] /\ notes' = notes \cup {note}
      /\ nextHash' = nextHash + 1 /\ nextHash \in Nat
      /\ UNCHANGED <<writeLock, tx, purge, now, up>>
  BY DEF RecordCommit, JInv, BaseInv, TypeOK
<1>2. note \in Note /\ \A b \in note.breaks : b.hash \in GenuineForks
  <2>1. check[c] \in Check /\ nextHash \in Nat
    BY <1>1 DEF JInv, ChecksTypeOK
  <2>2. check[c].pc = "drafted"
    BY DEF RecordCommit
  <2> QED BY <2>1, <2>2 DEF Note, Check, Result, JInv, ChecksInv
<1>3. /\ Extended(pending) /\ RowsKept
      /\ log' \in Seq(Row) /\ SortedById(log')
      /\ chainStates' \in Seq(ChainState) /\ Len(chainStates') = Len(chainStates)
      /\ chainStates' = <<>> <=> chainStates = <<>>
      /\ AnchorHash(chainStates') = AnchorHash(chainStates)
  BY RecordCommitExtends
<1> HIDE DEF pending, note
<1>4. BaseInv'
  <2>1. TypeOK'
    BY <1>1, <1>3 DEF JInv, BaseInv, TypeOK
  <2>2. LockInv' /\ StateInv'
    BY <1>1, <1>3 DEF JInv, BaseInv, LockInv, StateInv
  <2>3. PendingInv'
    BY <1>1, NoPending DEF JInv, PendingInv
  <2>4. HashedInv'
    <3> SUFFICES ASSUME NEW i \in 1..Len(log') PROVE log'[i].hash # NoHash
      BY DEF HashedInv
    <3>1. /\ Len(log) \in Nat /\ Len(log') = Len(log) + Len(pending)
          /\ \A j \in 1..Len(log) : log'[j] = log[j] /\ log[j].hash # NoHash
          /\ \A j \in 1..Len(log') : j > Len(log) =>
                /\ j - Len(log) \in 1..Len(pending)
                /\ log'[j].hash = pending[j - Len(log)].hash
      BY <1>3, ExtendedRow DEF JInv
    <3>2. CASE i <= Len(log)
      BY <3>1, <3>2
    <3>3. CASE i > Len(log)
      BY <1>3, <3>1, <3>3 DEF Extended
    <3> QED BY <3>1, <3>2, <3>3
  <2> QED BY <1>3, <2>1, <2>2, <2>3, <2>4 DEF BaseInv
<1>5. check' \in [Checkers -> Check] /\ AnchorsInv' /\ ChecksInv'
  BY <1>1, <1>3, CheckDone DEF RowsKept
<1>6. ChecksTypeOK' /\ OnlyForksAreRecorded'
  BY <1>1, <1>2, <1>5 DEF JInv, ChecksTypeOK, OnlyForksAreRecorded
<1> QED BY <1>3, <1>4, <1>5, <1>6 DEF JInv, RowsKept

(***************************************************************************)
(* The edits.                                                              *)
(***************************************************************************)

\* An edit thins the log, or changes content that no hash is taken from again.
LEMMA EditKeeps ==
    ASSUME JInv, NEW m, Thinned(m), UNCHANGED <<chainStates, purge, now, check, notes>>
    PROVE  JInv'
<1>1. log' \in Seq(Row) /\ writeLock' = writeLock /\ tx' = tx /\ nextHash' = nextHash /\ up' = up
  BY DEF Thinned
<1>2. TypeOK' /\ LockInv' /\ StateInv'
  BY <1>1 DEF JInv, BaseInv, TypeOK, LockInv, StateInv
<1>3. BaseInv'
  BY <1>2, ThinnedBase DEF JInv, BaseInv
<1>4. RowsKept
  BY ThinnedRows DEF JInv, RowsInv, RowsKept
<1>5. AnchorsInv'
  BY <1>4, AnchorsKept DEF JInv, RowsKept
<1>6. ChecksTypeOK' /\ ChecksInv' /\ OnlyForksAreRecorded'
  BY <1>1 DEF JInv, ChecksTypeOK, ChecksInv, OnlyForksAreRecorded
<1> QED BY <1>3, <1>4, <1>5, <1>6 DEF JInv, RowsKept

\* An edited row has its id, its place in the chain and its hash, but another content.
LEMMA EditedRows ==
    ASSUME BaseInv, NEW i \in 1..Len(log), EditRow(i)
    PROVE  /\ log' \in Seq(Row) /\ Len(log') = Len(log) /\ Len(log) \in Nat
           /\ \A j \in 1..Len(log) : j # i => log'[j] = log[j]
           /\ log'[i].id = log[i].id /\ log'[i].prev = log[i].prev /\ log'[i].hash = log[i].hash
           /\ ~log'[i].valid
<1>1. PICK at \in {log[i].at, now} : log' = [log EXCEPT ![i].valid = FALSE, ![i].at = at]
  BY DEF EditRow
<1> DEFINE row == [log[i] EXCEPT !.valid = FALSE, !.at = at]
<1>2. log \in Seq(Row) /\ Len(log) \in Nat /\ log[i] \in Row /\ now \in Nat
  BY LenProperties, ElementOfSeq DEF BaseInv, TypeOK
<1>3. at \in Nat
  BY <1>2 DEF Row
<1>4. /\ row \in Row /\ row.id = log[i].id /\ row.prev = log[i].prev /\ row.hash = log[i].hash
      /\ row.valid = FALSE
  <2> DEFINE middle == [log[i] EXCEPT !.valid = FALSE]
  <2>1. /\ middle \in Row /\ middle.id = log[i].id /\ middle.prev = log[i].prev
        /\ middle.hash = log[i].hash /\ middle.valid = FALSE
    BY <1>2 DEF Row
  <2>2. row = [middle EXCEPT !.at = at]
    OBVIOUS
  <2> HIDE DEF row, middle
  <2> QED BY <1>3, <2>1, <2>2 DEF Row
<1>5. log' = [log EXCEPT ![i] = row]
  BY <1>1, <1>2
<1> HIDE DEF row
<1> QED BY <1>2, <1>4, <1>5, ExceptSeq

LEMMA EditRowStep == ASSUME JInv, NEW i \in 1..Len(log), EditRow(i) PROVE JInv'
<1> DEFINE m == [j \in 1..Len(log) |-> j]
<1>1. /\ writeLock = NoWriter
      /\ UNCHANGED <<chainStates, writeLock, tx, purge, now, nextHash, up, check, notes>>
  BY DEF EditRow
<1>2. /\ log' \in Seq(Row) /\ Len(log') = Len(log)
      /\ \A j \in 1..Len(log) : j # i => log'[j] = log[j]
      /\ log'[i].id = log[i].id /\ log'[i].prev = log[i].prev /\ log'[i].hash = log[i].hash
  BY EditedRows DEF JInv
<1>3. Thinned(m)
  <2>1. m \in [1..Len(log') -> 1..Len(log)] /\ \A j \in 1..Len(log') : m[j] = j
    BY <1>2
  <2> HIDE DEF m
  <2> QED BY <1>1, <1>2, <2>1 DEF Thinned
<1> QED BY <1>1, <1>3, EditKeeps

\* A renumbered row keeps its place, its hash and its content.
LEMMA RenumberedRows ==
    ASSUME BaseInv, NEW i \in 1..Len(log), RenumberRow(i)
    PROVE  /\ log' \in Seq(Row) /\ Len(log') = Len(log) /\ Len(log) \in Nat
           /\ \A j \in 1..Len(log) :
                /\ log'[j].at = log[j].at /\ log'[j].prev = log[j].prev
                /\ log'[j].hash = log[j].hash /\ log'[j].valid = log[j].valid
           /\ SortedById(log')
<1>1. PICK id \in IdsInPlace(i) : log' = [log EXCEPT ![i].id = id]
  BY DEF RenumberRow
<1> DEFINE row == [log[i] EXCEPT !.id = id]
<1>2. log \in Seq(Row) /\ Len(log) \in Nat /\ log[i] \in Row /\ \A j \in 1..Len(log) : log[j] \in Row
  BY LenProperties, ElementOfSeq DEF BaseInv, TypeOK
<1>3. /\ id \in Nat \ {0} /\ (i > 1 => log[i - 1].id < id)
      /\ i < Len(log) => id < log[i + 1].id
  <2>1. Len(log) \in 1..Len(log)
    BY <1>2
  <2>2. log[Len(log)].id \in Nat
    BY <1>2, <2>1 DEF Row
  <2>3. id \in 1..(log[Len(log)].id + 1)
    BY DEF IdsInPlace
  <2>4. (i > 1 => log[i - 1].id < id) /\ (i < Len(log) => id < log[i + 1].id)
    BY DEF IdsInPlace
  <2> QED BY <2>2, <2>3, <2>4
<1>4. /\ row \in Row /\ row.at = log[i].at /\ row.prev = log[i].prev /\ row.hash = log[i].hash
      /\ row.valid = log[i].valid /\ row.id = id
  BY <1>2, <1>3 DEF Row, NoId
<1>5. log' = [log EXCEPT ![i] = row]
  BY <1>1, <1>2
<1> HIDE DEF row
<1>6. /\ log' \in Seq(Row) /\ Len(log') = Len(log)
      /\ \A j \in 1..Len(log) : log'[j] = IF j = i THEN row ELSE log[j]
  BY <1>2, <1>4, <1>5, ExceptSeq
<1>7. SortedById(log')
  <2> SUFFICES ASSUME NEW j \in 1..Len(log), NEW k \in 1..Len(log), j < k
               PROVE  log'[j].id < log'[k].id
    BY <1>6 DEF SortedById
  <2>1. \A a, b \in 1..Len(log) : a < b => log[a].id < log[b].id
    BY DEF BaseInv, SortedById
  <2>2. \A a \in 1..Len(log) : log[a].id \in Nat
    BY <1>2 DEF Row
  <2>3. CASE j # i /\ k # i
    BY <1>6, <2>1, <2>3
  <2>4. CASE k = i
    <3>1. i - 1 \in 1..Len(log) /\ i > 1 /\ j # i /\ (j = i - 1 \/ j < i - 1)
      BY <1>2, <2>4
    <3>2. log[j].id <= log[i - 1].id
      BY <2>1, <2>2, <3>1
    <3> QED BY <1>3, <1>4, <1>6, <2>2, <2>4, <3>1, <3>2
  <2>5. CASE j = i
    <3>1. i + 1 \in 1..Len(log) /\ i < Len(log) /\ k # i /\ (k = i + 1 \/ i + 1 < k)
      BY <1>2, <2>5
    <3>2. log[i + 1].id <= log[k].id
      BY <2>1, <2>2, <3>1
    <3> QED BY <1>3, <1>4, <1>6, <2>2, <2>5, <3>1, <3>2
  <2> QED BY <2>3, <2>4, <2>5
<1> QED BY <1>2, <1>4, <1>6, <1>7

LEMMA RenumberRowStep == ASSUME JInv, NEW i \in 1..Len(log), RenumberRow(i) PROVE JInv'
<1>1. /\ writeLock = NoWriter /\ purge.pc = "idle"
      /\ UNCHANGED <<chainStates, writeLock, tx, purge, now, nextHash, up, check, notes>>
  BY DEF RenumberRow
<1>2. /\ log' \in Seq(Row) /\ Len(log') = Len(log) /\ Len(log) \in Nat
      /\ \A j \in 1..Len(log) : log'[j].prev = log[j].prev /\ log'[j].hash = log[j].hash
      /\ SortedById(log')
  BY RenumberedRows DEF JInv
<1>3. BaseInv'
  <2>1. TypeOK' /\ LockInv' /\ StateInv'
    BY <1>1, <1>2 DEF JInv, BaseInv, TypeOK, LockInv, StateInv
  <2>2. HashedInv'
    BY <1>1, <1>2 DEF JInv, BaseInv, HashedInv
  <2>3. PendingInv'
    BY <1>1, NoPending DEF JInv, PendingInv
  <2> QED BY <1>2, <2>1, <2>2, <2>3 DEF BaseInv
<1>4. \A j \in 1..Len(log) : Honest(log'[j]) <=> Honest(log[j])
  BY <1>2 DEF Honest
<1>5. RowsKept
  <2>1. HashesInv'
    BY <1>1, <1>2 DEF JInv, RowsInv, HashesInv
  <2>2. HonestInv'
    BY <1>2, <1>4 DEF JInv, RowsInv, HonestInv
  <2>3. PickInv'
    BY <1>1 DEF PickInv
  <2>4. \A a \in Nat : Left(a) => Left(a)'
    BY <1>1, <1>2, <1>4 DEF Left
  <2> QED BY <2>1, <2>2, <2>3, <2>4 DEF RowsKept, RowsInv
<1>6. AnchorsInv'
  BY <1>1, <1>5, AnchorsKept DEF JInv, RowsKept
<1>7. ChecksTypeOK' /\ ChecksInv' /\ OnlyForksAreRecorded'
  BY <1>1 DEF JInv, ChecksTypeOK, ChecksInv, OnlyForksAreRecorded
<1> QED BY <1>3, <1>5, <1>6, <1>7 DEF JInv, RowsKept

LEMMA DeletedRows ==
    ASSUME JInv, NEW i \in 1..Len(log), DeleteRow(i)
    PROVE  /\ log' \in Seq(Row) /\ Len(log') = Len(log) - 1 /\ Len(log) \in Nat
           /\ \A j \in 1..(Len(log) - 1) :
                log'[j] = IF j < i THEN log[j] ELSE log[j + 1]
<1> DEFINE n == Len(log)
           front == SubSeq(log, 1, i - 1)
           rest == SubSeq(log, i + 1, n)
<1>1. /\ log' = front \o rest /\ writeLock = NoWriter
      /\ UNCHANGED <<chainStates, writeLock, tx, purge, now, nextHash, up, check, notes>>
  BY DEF DeleteRow
<1>2. log \in Seq(Row) /\ n \in Nat /\ \A j \in 1..n : log[j] \in Row
  BY LenProperties, ElementOfSeq DEF JInv, BaseInv, TypeOK
<1>3. /\ front \in Seq(Row) /\ Len(front) = i - 1
      /\ \A j \in 1..(i - 1) : front[j] = log[j]
  <2>1. \A j \in 1..(i - 1) : log[j] \in Row
    BY <1>2
  <2>2. /\ front \in Seq(Row)
        /\ Len(front) = IF 1 <= i - 1 THEN (i - 1) - 1 + 1 ELSE 0
        /\ \A j \in 1..((i - 1) - 1 + 1) : front[j] = log[1 + j - 1]
    BY <1>2, <2>1, SubSeqProperties
  <2> HIDE DEF front
  <2> QED BY <1>2, <2>2
<1>4. /\ rest \in Seq(Row) /\ Len(rest) = n - i
      /\ \A j \in 1..(n - i) : rest[j] = log[i + j]
  BY <1>2, SuffixRows
<1> HIDE DEF front, rest, n
<1>5. /\ log' \in Seq(Row) /\ Len(log') = n - 1
      /\ \A j \in 1..(n - 1) : log'[j] = IF j < i THEN log[j] ELSE log[j + 1]
  <2>1. /\ log' \in Seq(Row) /\ Len(log') = (i - 1) + (n - i)
        /\ \A j \in 1..((i - 1) + (n - i)) :
                log'[j] = IF j <= i - 1 THEN front[j] ELSE rest[j - (i - 1)]
    <3>1. /\ front \o rest \in Seq(Row) /\ Len(front \o rest) = Len(front) + Len(rest)
          /\ \A j \in 1..(Len(front) + Len(rest)) :
                (front \o rest)[j] = IF j <= Len(front) THEN front[j]
                                     ELSE rest[j - Len(front)]
      <4>1. front \in Seq(Row) /\ rest \in Seq(Row)
        BY <1>3, <1>4
      <4> QED BY <4>1, ConcatProperties
    <3>2. Len(front) = i - 1 /\ Len(rest) = n - i
      BY <1>3, <1>4
    <3> QED BY <1>1, <3>1, <3>2
  <2>2. i \in 1..n
    BY DEF n
  <2>3. ASSUME NEW j \in 1..(n - 1)
        PROVE  log'[j] = IF j < i THEN log[j] ELSE log[j + 1]
    <3>1. CASE j < i
      BY <1>2, <1>3, <2>1, <2>2, <3>1
    <3>2. CASE ~(j < i)
      <4>1. j - (i - 1) \in 1..(n - i) /\ i + (j - (i - 1)) = j + 1
        BY <1>2, <2>2, <3>2
      <4> QED BY <1>2, <1>4, <2>1, <2>2, <3>2, <4>1
    <3> QED BY <3>1, <3>2
  <2> QED BY <1>2, <2>1, <2>2, <2>3
<1> QED BY <1>2, <1>5 DEF n

LEMMA DeleteRowStep == ASSUME JInv, NEW i \in 1..Len(log), DeleteRow(i) PROVE JInv'
<1> DEFINE m == [j \in 1..(Len(log) - 1) |-> IF j < i THEN j ELSE j + 1]
<1>1. /\ writeLock = NoWriter
      /\ UNCHANGED <<chainStates, writeLock, tx, purge, now, nextHash, up, check, notes>>
  BY DEF DeleteRow
<1>2. /\ log' \in Seq(Row) /\ Len(log') = Len(log) - 1 /\ Len(log) \in Nat
      /\ \A j \in 1..(Len(log) - 1) :
            log'[j] = IF j < i THEN log[j] ELSE log[j + 1]
  BY DeletedRows
<1>3. Thinned(m)
  <2>1. /\ m \in [1..Len(log') -> 1..Len(log)]
        /\ \A j \in 1..Len(log') : m[j] = IF j < i THEN j ELSE j + 1
    BY <1>2
  <2> HIDE DEF m
  <2>2. \A j, k \in 1..Len(log') : j < k => m[j] < m[k]
    BY <1>2, <2>1
  <2>3. \A j \in 1..Len(log') : log'[j] = log[m[j]]
    BY <1>2, <2>1
  <2> QED BY <1>1, <1>2, <2>1, <2>2, <2>3 DEF Thinned
<1> QED BY <1>1, <1>3, EditKeeps

(***************************************************************************)
(* The verified log: AuditIntegrity's specification.                       *)
(***************************************************************************)

LEMMA IInitEstablishes == IInit => JInv
<1> SUFFICES ASSUME IInit PROVE JInv
  OBVIOUS
<1>1. PICK h \in Histories : log = h.log /\ chainStates = h.chainStates
  BY DEF IInit, Init
<1>2. BaseInv
  BY InitEstablishes DEF IInit, IInv
<1>3. /\ nextHash = FirstHash /\ FirstHash \in Nat \ {0} /\ purge = IdlePurge
      /\ \A w \in Writers : tx[w].rows = <<>> /\ Len(tx[w].rows) = 0
  BY BoundsAssumption, EmptySeq DEF IInit, Init, IdleTx
<1>4. Len(log) \in Nat /\ AnchorHash(chainStates) \in Nat
  BY <1>2, LenProperties, AnchorType DEF BaseInv, TypeOK
<1>5. /\ AnchorHash(chainStates) < FirstHash
      /\ \A i \in 1..Len(log) :
            /\ log[i].hash < FirstHash
            /\ log[i].hash # NoHash =>
                /\ log[i].hash # AnchorHash(chainStates)
                /\ \A j \in 1..Len(log) : log[j].hash = log[i].hash => j = i
      /\ \/ \A i \in 1..Len(log) : log[i].hash = NoHash
         \/ \A i \in 1..Len(log) : log[i].hash # NoHash
  BY <1>1, HashesAssumption, HistoriesAssumption
<1>6. ASSUME NEW i \in 1..Len(log), Honest(log[i]), i # 1
      PROVE  i - 1 \in 1..Len(log) /\ log[i].prev = log[i - 1].hash /\ log[i - 1].hash # NoHash
  <2>1. log[i].prev = ExpectedPrev(log, chainStates, i)
    <3>1. log[i].hash \in
            {h.log[k].hash : k \in {j \in 1..Len(h.log) :
                h.log[j].prev # ExpectedPrev(h.log, h.chainStates, j)}}
            => log[i].hash \in GenuineForks
      BY DEF GenuineForks
    <3> QED BY <1>1, <1>6, <3>1 DEF Honest
  <2>2. i - 1 \in 1..Len(log)
    BY <1>4, <1>6
  <2>3. log[i - 1].hash # NoHash
    BY <1>5, <1>6, <2>2 DEF Honest
  <2> QED BY <1>6, <2>1, <2>2, <2>3 DEF ExpectedPrev
<1>7. HashesInv
  BY <1>3, <1>5 DEF HashesInv
<1>8. HonestInv
  <2> SUFFICES ASSUME NEW i \in 1..Len(log), Honest(log[i]),
                      NEW j \in 1..Len(log), log[j].hash = log[i].prev
               PROVE  i <= j + 1
    BY DEF HonestInv
  <2>1. CASE i = 1
    BY <2>1
  <2>2. CASE i # 1
    <3>1. i - 1 \in 1..Len(log) /\ log[j].hash = log[i - 1].hash /\ log[i - 1].hash # NoHash
      BY <1>6, <2>2
    <3>2. j = i - 1
      BY <1>5, <3>1
    <3> QED BY <3>1, <3>2
  <2> QED BY <2>1, <2>2
<1>9. PickInv
  BY <1>3 DEF PickInv, IdlePurge
<1>10. Left(AnchorHash(chainStates))
  <2>1. ASSUME NEW i \in 1..Len(log)
        PROVE  /\ log[i].hash # NoHash => log[i].hash # AnchorHash(chainStates)
               /\ Honest(log[i]) /\ i # 1 => log[i].prev # AnchorHash(chainStates)
    BY <1>5, <1>6
  <2> QED BY <1>3, <1>5, <2>1 DEF Left
<1>11. ChecksTypeOK /\ ChecksInv /\ OnlyForksAreRecorded
  BY IdleCheckType DEF IInit, ChecksTypeOK, ChecksInv, OnlyForksAreRecorded, IdleCheck, NoResult
<1>12. AnchorsInv
  BY <1>10 DEF AnchorsInv, IInit, IdleCheck
<1> QED BY <1>2, <1>7, <1>8, <1>9, <1>11, <1>12 DEF JInv, RowsInv

\* The steps of AuditChain beside which the checks stand still.
LEMMA ChainSteps ==
    ASSUME JInv, UNCHANGED <<check, notes>>,
           \/ \E w \in Writers : WriterStep(w)
           \/ PurgeScan \/ PurgePickAnchor \/ PurgeFail \/ Boot \/ Tick
    PROVE  JInv'
<1>1. Next /\ chainStates' = chainStates /\ (up => up')
  <2>1. Next
    BY DEF Next, PurgeStep
  <2>2. ASSUME NEW w \in Writers, WriterStep(w) PROVE chainStates' = chainStates /\ up' = up
    BY <2>2 DEF WriterStep, FlushEarlier, BuildEntry, TakeWriteLock, ChainNewEntry, Commit, Rollback
  <2>3. CASE PurgeScan \/ PurgePickAnchor \/ PurgeFail \/ Tick
    <3>1. chainStates' = chainStates /\ up' = up
      BY <2>3 DEF PurgeScan, PurgePickAnchor, PurgeFail, Tick
    <3> QED BY <2>1, <3>1
  <2>4. CASE Boot
    <3>1. chainStates' = chainStates /\ up' = TRUE
      BY <2>4 DEF Boot
    <3> QED BY <2>1, <3>1
  <2> QED BY <2>1, <2>2, <2>3, <2>4
<1>2. BaseInv'
  BY <1>1, NextPreserves DEF JInv, Keeps
<1>3. RowsKept
  <2>1. nextHash \in Nat /\ BaseInv /\ RowsInv
    BY DEF JInv, BaseInv, TypeOK
  <2>2. ASSUME NEW w \in Writers, WriterStep(w) PROVE RowsKept
    BY <2>1, <2>2, WriterRows, ChainNewEntryRows, CommitRows DEF WriterStep
  <2>3. CASE PurgeScan
    <3>1. log' = log /\ tx' = tx /\ nextHash' = nextHash /\ purge'.pc # "picked"
      BY <2>3 DEF PurgeScan, IdlePurge
    <3> QED BY <2>1, <3>1, QuietRowsKept
  <2>4. CASE PurgeFail
    <3>1. log' = log /\ tx' = tx /\ nextHash' = nextHash /\ purge'.pc # "picked"
      BY <2>4 DEF PurgeFail, IdlePurge
    <3> QED BY <2>1, <3>1, QuietRowsKept
  <2>5. CASE Tick
    BY <2>1, <2>5, QuietRowsKept DEF Tick
  <2> QED BY <2>1, <2>2, <2>3, <2>4, <2>5, PurgePickAnchorRows, BootRows
<1>4. AnchorsInv'
  BY <1>1, <1>3, AnchorsKept DEF JInv, RowsKept
<1>5. ChecksTypeOK' /\ ChecksInv' /\ OnlyForksAreRecorded'
  BY <1>1 DEF JInv, ChecksTypeOK, ChecksInv, OnlyForksAreRecorded
<1> QED BY <1>2, <1>3, <1>4, <1>5 DEF JInv, RowsKept

LEMMA SweepStep ==
    ASSUME JInv, PurgeDelete, notes' = notes,
           check' = [c \in Checkers |->
                        [check[c] EXCEPT
                            !.emptied = @ \/ (check[c].pc # "idle" /\ log' = <<>>)]]
    PROVE  JInv'
<1>1. BaseInv'
  BY NextPreserves DEF JInv, Keeps, Next, PurgeStep
<1>2. RowsKept /\ \A a \in Nat : purge.newest # NoRow /\ a = purge.newest.hash => Left(a)'
  BY PurgeDeleteRows DEF JInv
<1>3. ASSUME NEW c \in Checkers
      PROVE  /\ check'[c] \in Check /\ check'[c].pc = check[c].pc
             /\ check'[c].state = check[c].state /\ check'[c].result = check[c].result
  <2>1. check[c] \in Check
    BY DEF JInv, ChecksTypeOK
  <2> DEFINE emptied == check[c].emptied \/ (check[c].pc # "idle" /\ log' = <<>>)
  <2>2. check'[c] = [check[c] EXCEPT !.emptied = emptied] /\ emptied \in BOOLEAN
    BY <2>1 DEF Check
  <2> HIDE DEF emptied
  <2> QED BY <2>1, <2>2 DEF Check
<1>4. ChecksTypeOK'
  <2>1. check' \in [Checkers -> Check]
    BY <1>3
  <2> QED BY <2>1 DEF JInv, ChecksTypeOK
<1>5. Left(AnchorHash(chainStates))'
  <2>1. AnchorHash(chainStates) \in Nat /\ purge.newest.hash \in Nat
    BY AnchorType DEF JInv, BaseInv, TypeOK
  <2>2. AnchorHash(chainStates') =
            IF purge.newest # NoRow /\ (purge.stateRow # 0 \/ chainStates = <<>>)
            THEN purge.newest.hash ELSE AnchorHash(chainStates)
    BY AnchorWrittenRow DEF JInv, BaseInv, PurgeDelete
  <2>3. PICK a \in Nat : a = AnchorHash(chainStates')
    BY <2>1, <2>2
  <2>4. Left(a)'
    <3>1. CASE a = AnchorHash(chainStates)
      BY <1>2, <3>1 DEF RowsKept, JInv, AnchorsInv
    <3>2. CASE purge.newest # NoRow /\ a = purge.newest.hash
      BY <1>2, <3>2
    <3> QED BY <2>2, <2>3, <3>1, <3>2
  <2> QED BY <2>3, <2>4 DEF Left
<1>6. ASSUME NEW c \in Checkers, check'[c].pc # "idle"
      PROVE  Left(check[c].state.anchorHash)'
  <2>1. check[c].state.anchorHash \in Nat
    BY DEF JInv, ChecksTypeOK, Check, ChainState
  <2>2. Left(check[c].state.anchorHash) /\ check'[c].state = check[c].state
    BY <1>3, <1>6 DEF JInv, AnchorsInv
  <2>3. \A a \in Nat : Left(a) => Left(a)'
    BY <1>2 DEF RowsKept
  <2>4. PICK a \in Nat : a = check[c].state.anchorHash /\ a = check'[c].state.anchorHash
    BY <2>1, <2>2
  <2>5. Left(a)'
    BY <2>2, <2>3, <2>4
  <2> QED BY <2>4, <2>5 DEF Left
<1>7. AnchorsInv'
  BY <1>5, <1>6 DEF AnchorsInv
<1>8. ChecksInv' /\ OnlyForksAreRecorded'
  BY <1>3 DEF JInv, ChecksInv, OnlyForksAreRecorded, PurgeDelete
<1> QED BY <1>1, <1>2, <1>4, <1>7, <1>8 DEF JInv, RowsKept

LEMMA ICrashStep ==
    ASSUME JInv, Crash, notes' = notes, check' = [c \in Checkers |-> IdleCheck]
    PROVE  JInv'
<1>1. BaseInv'
  BY NextPreserves DEF JInv, Keeps, Next
<1>2. RowsKept
  <2>1. /\ log' = log /\ nextHash' = nextHash /\ nextHash \in Nat /\ purge'.pc # "picked"
        /\ \A w \in Writers : tx'[w].rows = <<>>
    BY DEF Crash, IdlePurge, IdleTx, JInv, BaseInv, TypeOK
  <2> QED BY <2>1, QuietRowsKept DEF JInv
<1>3. AnchorsInv'
  BY <1>2, AnchorsKept DEF JInv, RowsKept, Crash, IdleCheck
<1>4. ChecksTypeOK' /\ ChecksInv' /\ OnlyForksAreRecorded'
  BY IdleCheckType DEF JInv, ChecksTypeOK, ChecksInv, OnlyForksAreRecorded, IdleCheck, NoResult
<1> QED BY <1>1, <1>2, <1>3, <1>4 DEF JInv, RowsKept

LEMMA INextPreserves == JInv /\ [INext]_ivars => JInv'
<1> SUFFICES ASSUME JInv, [INext]_ivars PROVE JInv'
  OBVIOUS
<1>1. CASE /\ \/ \E w \in Writers : WriterStep(w)
              \/ PurgeScan \/ PurgePickAnchor \/ PurgeFail \/ Boot \/ Tick
           /\ UNCHANGED <<check, notes, edits>>
  BY <1>1, ChainSteps
<1>2. CASE /\ PurgeDelete
           /\ check' = [c \in Checkers |->
                            [check[c] EXCEPT
                            !.emptied = @ \/ (check[c].pc # "idle" /\ log' = <<>>)]]
           /\ UNCHANGED <<notes, edits>>
  BY <1>2, SweepStep
<1>3. CASE /\ Crash
           /\ check' = [c \in Checkers |-> IdleCheck]
           /\ UNCHANGED <<notes, edits>>
  BY <1>3, ICrashStep
<1>4. ASSUME NEW c \in Checkers, CheckStep(c) PROVE JInv'
  BY <1>4, CheckLoadStep, CheckListStep, CheckWalkStep, CheckLeavesStep, CheckReloadStep,
     CheckCommitStep, RecordCommitStep, CheckFailStep DEF CheckStep
<1>5. CASE OutOfBandEdit
  BY <1>5, EditRowStep, DeleteRowStep, RenumberRowStep DEF OutOfBandEdit
<1>6. CASE UNCHANGED ivars
  <2>1. BaseInv'
    BY <1>6, StutterStep DEF JInv, Keeps, ivars
  <2>2. RowsInv' /\ AnchorsInv' /\ ChecksTypeOK' /\ ChecksInv' /\ OnlyForksAreRecorded'
    BY <1>6 DEF ivars, vars, JInv, RowsInv, HashesInv, HonestInv, PickInv, AnchorsInv, Left,
       AnchorHash, ChecksTypeOK, ChecksInv, OnlyForksAreRecorded
  <2> QED BY <2>1, <2>2 DEF JInv
<1> QED BY <1>1, <1>2, <1>3, <1>4, <1>5, <1>6 DEF INext

\* What holds of the log, its state rows and the checks, whoever edits the database.
THEOREM ISpecJInv == ISpec => []JInv
<1>1. IInit => JInv
  BY IInitEstablishes
<1>2. JInv /\ [INext]_ivars => JInv'
  BY INextPreserves
<1> QED BY <1>1, <1>2, PTL DEF ISpec

\* record_known_breaks accepts only what the #213 race did: for any history, any number
\* of writers and any edits and sweeps around the checks, a row is recorded as a
\* known break only if it was forked before this version.
THEOREM ISpecOnlyForksAreRecorded == ISpec => []OnlyForksAreRecorded
<1>1. JInv => OnlyForksAreRecorded
  BY DEF JInv
<1> QED BY <1>1, ISpecJInv, PTL

(***************************************************************************)
(* The inductive invariant as long as nobody edits: what was recorded      *)
(* stays accounted for, row by row, until retention has taken it.          *)
(***************************************************************************)

\* A history whose rows nobody edited either, and in which ids have not started again
\* below the anchor's since (as they do once a sweep has emptied the log).
UntouchedHistories ==
    \A h \in Histories :
        /\ \A i \in 1..Len(h.log) : h.log[i].hash # NoHash => h.log[i].valid
        /\ h.chainStates # <<>> =>
            /\ h.chainStates[1].anchorHash # NoHash => h.chainStates[1].anchorId # NoId
            /\ \A i \in 1..Len(h.log) : h.chainStates[1].anchorId < h.log[i].id

ValidInv == \A i \in 1..Len(log) : log[i].hash # NoHash => log[i].valid

\* What this version chains, and what it records, has later hashes than the history.
FreshInv ==
    /\ nextHash >= FirstHash
    /\ notes # {} => \A i \in 1..Len(log) : log[i].hash # NoHash
    /\ \A n \in notes : n.entry < nextHash
    /\ \A w \in Writers : \A k \in 1..Len(tx[w].rows) :
        /\ tx[w].rows[k].hash >= FirstHash
        /\ \A n \in notes : n.entry < tx[w].rows[k].hash

\* The sweep's boundary is still in the log, the chosen anchor just below it, and the
\* state row that a cutoff stands in has been found.
BoundaryInv ==
    /\ purge.pc # "idle" /\ purge.first # NoId =>
        \E i \in 1..Len(log) : log[i].id = purge.first
    /\ purge.pc = "picked" /\ purge.first # NoId =>
        \E k \in 0..(Len(log) - 1) :
            /\ log[k + 1].id = purge.first
            /\ purge.newest = IF k = 0 THEN NoRow
                              ELSE [id |-> log[k].id, hash |-> log[k].hash]
    /\ purge.pc = "picked" /\ purge.newest # NoRow =>
        /\ purge.newest.id # NoId
        /\ purge.stateRow = 0 => CurrentState.cutoffId = NoId

\* A row from before this version is left, or the entry of a recording.
OldRowIn(rows) == \E i \in 1..Len(rows) : rows[i].hash < FirstHash
EntryIn(rows, n) == \E i \in 1..Len(rows) : rows[i].hash = n.entry

AnchorBelow(state, rows) == \A i \in 1..Len(rows) : state.anchorId < rows[i].id

\* Until a sweep has emptied the log the anchor is below it.
AnchorInv ==
    /\ CurrentState.anchorHash # NoHash => CurrentState.anchorId # NoId
    /\ OldRowIn(log) => AnchorBelow(CurrentState, log)
    /\ \A n \in notes : ~n.emptied /\ EntryIn(log, n) => AnchorBelow(CurrentState, log)

SameAnchor(state, other) ==
    /\ state.anchorId = other.anchorId
    /\ state.anchorHash = other.anchorHash
    /\ state.cutoffId = other.cutoffId

\* A recorded row is still there unless it was purged, and so is a break's parent.
Stands(state, rows, x) ==
    \/ x.id <= state.anchorId
    \/ \E i \in 1..Len(rows) : rows[i].id = x.id /\ rows[i].hash = x.hash

ParentStands(state, rows, b, i) ==
    \/ \E j \in 1..(i - 1) : rows[j].hash = rows[i].prev /\ rows[j].id = b.parent
    \/ b.parent # NoId /\ state.anchorId # NoId /\ b.parent <= state.anchorId

Accounted(state, rows, breaks, leaves) ==
    /\ state.cutoffId # NoId
    /\ \A x \in breaks \cup leaves : Stands(state, rows, x)
    /\ \A b \in breaks : \A i \in 1..Len(rows) :
        rows[i].hash = b.hash => rows[i].id = b.id /\ ParentStands(state, rows, b, i)

\* What an anchor was before sweeps moved it.
Older(state, current) ==
    /\ state.anchorId <= current.anchorId
    /\ state.anchorHash # NoHash => state.anchorId # NoId
    /\ state.cutoffId = current.cutoffId

\* A check under which no sweep emptied the log knows an anchor from before, and its draft
\* of a recording is accounted for, as is the recording itself while its entry is there.
Drafting(entry) == (entry.pc = "walked" /\ entry.goal = "record") \/ entry.pc = "drafted"
DraftLeaves(entry) == IF entry.pc = "drafted" THEN entry.leaves ELSE {}

DraftStands(entry, state, rows) ==
    entry.pc # "idle" /\ ~entry.emptied =>
        /\ OldRowIn(rows) => Older(entry.state, state)
        /\ Drafting(entry) =>
            /\ Len(rows) # 0 /\ AnchorBelow(state, rows)
            /\ Accounted(state, rows, entry.result.races, DraftLeaves(entry))

DraftsInv == \A c \in Checkers : DraftStands(check[c], CurrentState, log)

NotesInv ==
    \A n \in notes : ~n.emptied /\ EntryIn(log, n) => Accounted(CurrentState, log, n.breaks, n.leaves)

AccountInv == ValidInv /\ FreshInv /\ BoundaryInv /\ AnchorInv /\ DraftsInv /\ NotesInv

\* While there is one state row at most, a row chains from the one before it or from the
\* anchor, if the race did not fork it and it is not the entry of a recording under which a
\* sweep emptied the log.
LinkedRow(rows, i) ==
    \/ rows[i].hash \in GenuineForks
    \/ Astray(rows[i])
    \/ rows[i].prev = ExpectedPrev(rows, chainStates, i)

LinkedInv == OneStateRow => \A i \in 1..Len(log) : LinkedRow(log, i)

\* What an edit cannot keep is given up with the first one.
KInv == JInv /\ (edits = {} => AccountInv /\ LinkedInv)

(***************************************************************************)
(* What rows and records keep while the log grows and is swept.            *)
(***************************************************************************)

LEMMA CurrentStateType == ASSUME BaseInv PROVE CurrentState \in ChainState
BY AnchorType DEF BaseInv, CurrentState, NewChainState, ChainState, Statuses, NoId, NoHash

LEMMA RowTypes ==
    ASSUME NEW rows \in Seq(Row)
    PROVE  /\ Len(rows) \in Nat
           /\ \A i \in 1..Len(rows) :
                /\ rows[i].id \in Nat \ {0} /\ rows[i].hash \in Nat /\ rows[i].prev \in Nat
                /\ rows[i].valid \in BOOLEAN
<1>1. Len(rows) \in Nat
  BY LenProperties
<1>2. \A i \in 1..Len(rows) : rows[i] \in Row
  BY ElementOfSeq
<1> QED BY <1>1, <1>2 DEF Row, NoId

\* Valid rows of this version are appended, or nothing.
Grown(rows, longer) ==
    /\ Len(longer) >= Len(rows)
    /\ \A i \in 1..Len(rows) : longer[i] = rows[i]
    /\ \A i \in 1..Len(longer) : i > Len(rows) =>
        /\ longer[i].hash >= FirstHash /\ longer[i].valid
        /\ \A j \in 1..Len(rows) : rows[j].id < longer[i].id

LEMMA GrownRows ==
    ASSUME NEW rows \in Seq(Row), NEW longer \in Seq(Row), Grown(rows, longer)
    PROVE  /\ OldRowIn(longer) <=> OldRowIn(rows)
           /\ \A i \in 1..Len(rows) : i \in 1..Len(longer)
           /\ \A i \in 1..Len(longer) : longer[i].hash < FirstHash =>
                i \in 1..Len(rows) /\ longer[i] = rows[i]
<1>1. /\ Len(rows) \in Nat /\ Len(longer) \in Nat /\ FirstHash \in Nat
      /\ \A i \in 1..Len(longer) : longer[i].hash \in Nat
  BY RowTypes, BoundsAssumption
<1>2. \A i \in 1..Len(rows) : i \in 1..Len(longer) /\ longer[i] = rows[i]
  BY <1>1 DEF Grown
<1>3. ASSUME NEW i \in 1..Len(longer), longer[i].hash < FirstHash
      PROVE  i \in 1..Len(rows) /\ longer[i] = rows[i]
  <2>1. ~(i > Len(rows))
    BY <1>1, <1>3 DEF Grown
  <2>2. i \in 1..Len(rows)
    BY <1>1, <2>1
  <2> QED BY <1>2, <2>2
<1>4. OldRowIn(longer) <=> OldRowIn(rows)
  <2>1. ASSUME OldRowIn(longer) PROVE OldRowIn(rows)
    <3>1. PICK i \in 1..Len(longer) : longer[i].hash < FirstHash
      BY <2>1 DEF OldRowIn
    <3>2. i \in 1..Len(rows) /\ rows[i].hash < FirstHash
      BY <1>3, <3>1
    <3> QED BY <3>2 DEF OldRowIn
  <2>2. ASSUME OldRowIn(rows) PROVE OldRowIn(longer)
    <3>1. PICK i \in 1..Len(rows) : rows[i].hash < FirstHash
      BY <2>2 DEF OldRowIn
    <3>2. i \in 1..Len(longer) /\ longer[i].hash < FirstHash
      BY <1>2, <3>1
    <3> QED BY <3>2 DEF OldRowIn
  <2> QED BY <2>1, <2>2
<1> QED BY <1>2, <1>3, <1>4

LEMMA GrownAccounted ==
    ASSUME NEW rows \in Seq(Row), NEW longer \in Seq(Row), Grown(rows, longer),
           NEW state, NEW other, SameAnchor(state, other), NEW breaks, NEW leaves,
           \A b \in breaks : b.hash < FirstHash, Accounted(state, rows, breaks, leaves)
    PROVE  Accounted(other, longer, breaks, leaves)
<1>1. /\ \A i \in 1..Len(rows) : i \in 1..Len(longer) /\ longer[i] = rows[i]
      /\ \A i \in 1..Len(longer) : longer[i].hash < FirstHash =>
                i \in 1..Len(rows) /\ longer[i] = rows[i]
  BY GrownRows DEF Grown
<1>2. other.anchorId = state.anchorId /\ other.cutoffId = state.cutoffId
  BY DEF SameAnchor
<1>3. ASSUME NEW x \in breaks \cup leaves PROVE Stands(other, longer, x)
  BY <1>1, <1>2 DEF Accounted, Stands
<1>4. ASSUME NEW b \in breaks, NEW i \in 1..Len(longer), longer[i].hash = b.hash
      PROVE  longer[i].id = b.id /\ ParentStands(other, longer, b, i)
  <2>1. i \in 1..Len(rows) /\ longer[i] = rows[i]
    BY <1>1, <1>4
  <2>2. rows[i].id = b.id /\ ParentStands(state, rows, b, i)
    BY <1>4, <2>1 DEF Accounted
  <2>3. \A j \in 1..(i - 1) : j \in 1..Len(rows) /\ longer[j] = rows[j]
    <3>1. Len(rows) \in Nat
      BY RowTypes
    <3> QED BY <1>1, <2>1, <3>1
  <2> QED BY <1>2, <2>1, <2>2, <2>3 DEF ParentStands
<1> QED BY <1>2, <1>3, <1>4 DEF Accounted

LEMMA GrownAnchor ==
    ASSUME NEW rows \in Seq(Row), NEW longer \in Seq(Row), Grown(rows, longer),
           NEW state \in ChainState, NEW other, SameAnchor(state, other),
           Len(rows) # 0, AnchorBelow(state, rows)
    PROVE  AnchorBelow(other, longer)
<1> SUFFICES ASSUME NEW i \in 1..Len(longer) PROVE state.anchorId < longer[i].id
  BY DEF AnchorBelow, SameAnchor
<1>1. /\ Len(rows) \in Nat /\ Len(longer) \in Nat /\ state.anchorId \in Nat
      /\ \A j \in 1..Len(rows) : rows[j].id \in Nat
      /\ \A j \in 1..Len(longer) : longer[j].id \in Nat
  BY RowTypes DEF ChainState
<1>2. CASE i <= Len(rows)
  BY <1>1, <1>2 DEF AnchorBelow, Grown
<1>3. CASE i > Len(rows)
  <2>1. 1 \in 1..Len(rows)
    BY <1>1
  <2>2. state.anchorId < rows[1].id /\ rows[1].id < longer[i].id
    BY <1>3, <2>1 DEF AnchorBelow, Grown
  <2> QED BY <1>1, <2>1, <2>2
<1> QED BY <1>1, <1>2, <1>3

\* A sweep takes the first k rows, the last of which becomes the anchor.
Cut(rows, k, rest) ==
    /\ k \in 1..Len(rows) /\ Len(rest) = Len(rows) - k
    /\ \A i \in 1..Len(rest) : rest[i] = rows[k + i]

LEMMA CutAnchor ==
    ASSUME NEW rows \in Seq(Row), SortedById(rows), NEW k, NEW rest, Cut(rows, k, rest),
           NEW other, other.anchorId = rows[k].id
    PROVE  AnchorBelow(other, rest)
<1> SUFFICES ASSUME NEW i \in 1..Len(rest) PROVE rows[k].id < rest[i].id
  BY DEF AnchorBelow
<1>1. Len(rows) \in Nat /\ k \in 1..Len(rows) /\ Len(rest) = Len(rows) - k
  BY RowTypes DEF Cut
<1>2. k + i \in 1..Len(rows) /\ k < k + i
  BY <1>1
<1> QED BY <1>1, <1>2 DEF Cut, SortedById

LEMMA CutAccounted ==
    ASSUME NEW rows \in Seq(Row), SortedById(rows), NEW k, NEW rest, Cut(rows, k, rest),
           NEW state \in ChainState, AnchorBelow(state, rows),
           NEW other, other.anchorId = rows[k].id, other.cutoffId = state.cutoffId,
           NEW breaks \in SUBSET BreakRow, NEW leaves \in SUBSET LeafRow,
           Accounted(state, rows, breaks, leaves)
    PROVE  Accounted(other, rest, breaks, leaves)
<1>1. /\ Len(rows) \in Nat /\ k \in 1..Len(rows) /\ Len(rest) = Len(rows) - k
      /\ \A i \in 1..Len(rows) : rows[i].id \in Nat \ {0}
      /\ \A i \in 1..Len(rest) : rest[i] = rows[k + i] /\ k + i \in 1..Len(rows)
      /\ state.anchorId \in Nat /\ state.anchorId < rows[k].id
  <2>1. /\ Len(rows) \in Nat /\ k \in 1..Len(rows) /\ Len(rest) = Len(rows) - k
        /\ \A i \in 1..Len(rows) : rows[i].id \in Nat \ {0}
    BY RowTypes DEF Cut
  <2>2. \A i \in 1..Len(rest) : k + i \in 1..Len(rows)
    BY <2>1
  <2> QED BY <2>1, <2>2 DEF Cut, AnchorBelow, ChainState
<1>2. ASSUME NEW j \in 1..Len(rows), j <= k PROVE rows[j].id <= other.anchorId
  <2>1. j < k => rows[j].id < rows[k].id
    BY <1>1 DEF SortedById
  <2> QED BY <1>1, <1>2, <2>1
<1>3. ASSUME NEW x \in breaks \cup leaves PROVE Stands(other, rest, x)
  <2>1. x.id \in Nat
    BY DEF BreakRow, LeafRow
  <2>2. CASE x.id <= state.anchorId
    BY <1>1, <2>1, <2>2 DEF Stands
  <2>3. CASE \E j \in 1..Len(rows) : rows[j].id = x.id /\ rows[j].hash = x.hash
    <3>1. PICK j \in 1..Len(rows) : rows[j].id = x.id /\ rows[j].hash = x.hash
      BY <2>3
    <3>2. CASE j <= k
      BY <1>2, <3>1, <3>2 DEF Stands
    <3>3. CASE j > k
      <4>1. j - k \in 1..Len(rest) /\ k + (j - k) = j
        BY <1>1, <3>3
      <4> QED BY <1>1, <3>1, <4>1 DEF Stands
    <3> QED BY <1>1, <3>2, <3>3
  <2> QED BY <2>2, <2>3 DEF Accounted, Stands
<1>4. ASSUME NEW b \in breaks, NEW i \in 1..Len(rest), rest[i].hash = b.hash
      PROVE  rest[i].id = b.id /\ ParentStands(other, rest, b, i)
  <2>1. k + i \in 1..Len(rows) /\ rest[i] = rows[k + i]
    BY <1>1
  <2>2. rows[k + i].id = b.id /\ ParentStands(state, rows, b, k + i)
    BY <1>4, <2>1 DEF Accounted
  <2>3. b.parent \in Nat
    BY DEF BreakRow
  <2>4. CASE \E j \in 1..((k + i) - 1) : rows[j].hash = rows[k + i].prev /\ rows[j].id = b.parent
    <3>1. PICK j \in 1..((k + i) - 1) : rows[j].hash = rows[k + i].prev /\ rows[j].id = b.parent
      BY <2>4
    <3>2. j \in 1..Len(rows)
      BY <1>1, <2>1
    <3>3. CASE j <= k
      <4>1. b.parent <= other.anchorId /\ b.parent # NoId /\ other.anchorId # NoId
        BY <1>1, <1>2, <3>1, <3>2, <3>3 DEF NoId
      <4> QED BY <2>1, <2>2, <4>1 DEF ParentStands
    <3>4. CASE j > k
      <4>1. j - k \in 1..(i - 1) /\ j - k \in 1..Len(rest) /\ k + (j - k) = j
        BY <1>1, <3>4
      <4>2. rest[j - k] = rows[j]
        BY <1>1, <4>1
      <4> QED BY <2>1, <2>2, <3>1, <4>1, <4>2 DEF ParentStands
    <3> QED BY <1>1, <3>3, <3>4
  <2>5. CASE b.parent # NoId /\ state.anchorId # NoId /\ b.parent <= state.anchorId
    <3>1. b.parent <= other.anchorId /\ other.anchorId # NoId
      BY <1>1, <2>3, <2>5 DEF NoId
    <3> QED BY <2>1, <2>2, <2>5, <3>1 DEF ParentStands
  <2> QED BY <2>2, <2>4, <2>5 DEF ParentStands
<1> QED BY <1>3, <1>4 DEF Accounted

(***************************************************************************)
(* What is accounted for makes an untouched log verify.                    *)
(***************************************************************************)

\* The record of a known break is found for its row, and its parent is there or purged.
LEMMA AccountedIsAccepted ==
    ASSUME JInv, AccountInv, up, NEW n \in notes, ~n.emptied, EntryIn(log, n),
           NEW b \in n.breaks, NEW i \in 1..Len(log), log[i].hash = b.hash
    PROVE  AcceptedBreak(CurrentState, RecordedIn(log), log, i)
<1>1. log[i].id = b.id /\ ParentStands(CurrentState, log, b, i)
  BY DEF AccountInv, NotesInv, Accounted
<1>2. b \in RecordedIn(log).breaks
  BY DEF RecordedIn, EntryIn
<1>3. CASE \E j \in 1..(i - 1) : log[j].hash = log[i].prev
  <2>1. PICK j \in 1..(i - 1) : log[j].hash = log[i].prev
    BY <1>3
  <2>2. j \in 1..Len(log) /\ log[j].hash # NoHash
    <3>1. Len(log) \in Nat
      BY LenProperties DEF JInv, BaseInv, TypeOK
    <3> QED BY <3>1 DEF JInv, BaseInv, HashedInv
  <2>3. [hash |-> log[j].hash, id |-> log[j].id] \in Earlier(CurrentState, log, i)
    BY <2>1, <2>2 DEF Earlier
  <2>4. ParentKnown(CurrentState, log, i)
    BY <2>1, <2>3 DEF ParentKnown
  <2> QED BY <1>1, <1>2, <2>4 DEF AcceptedBreak
<1>4. CASE b.parent # NoId /\ CurrentState.anchorId # NoId /\ b.parent <= CurrentState.anchorId
  BY <1>1, <1>2, <1>4 DEF AcceptedBreak
<1> QED BY <1>1, <1>3, <1>4 DEF ParentStands

LEMMA AccountedVerifies ==
    ASSUME KInv PROVE UntouchedLogVerifies
<1> SUFFICES ASSUME up, edits = {}, ForksRecorded, OneStateRow,
                    \A i \in 1..Len(log) : ~Astray(log[i])
             PROVE  Verdict.status = "ok"
  BY DEF UntouchedLogVerifies
<1>1. JInv /\ AccountInv /\ LinkedInv
  BY DEF KInv
<1>8. ASSUME NEW n \in notes, EntryIn(log, n) PROVE ~n.emptied
  BY <1>8 DEF Astray, EntryIn
<1> DEFINE recorded == RecordedIn(log)
           fine == {i \in 1..Len(log) :
                    /\ log[i].valid
                    /\ \/ Linked(CurrentState, log, i)
                       \/ AcceptedBreak(CurrentState, recorded, log, i)}
           races == {i \in 1..Len(log) : RaceBreak(CurrentState, recorded, log, i)}
           tampered == {log[i].id : i \in (1..Len(log)) \ (races \cup fine)}
                        \cup MissingRecorded(CurrentState, recorded, log)
<1>2. ASSUME NEW i \in 1..Len(log)
      PROVE  /\ log[i].valid
             /\ \/ Linked(CurrentState, log, i)
                \/ AcceptedBreak(CurrentState, recorded, log, i)
  <2>1. log[i].valid
    BY <1>1 DEF JInv, BaseInv, HashedInv, AccountInv, ValidInv
  <2>2. CASE log[i].prev = ExpectedPrev(log, chainStates, i)
    <3>1. AnchorHash(chainStates) = CurrentState.anchorHash
      BY DEF AnchorHash, CurrentState, NewChainState
    <3> QED BY <2>1, <2>2, <3>1 DEF ExpectedPrev, Linked
  <2>3. CASE log[i].hash \in GenuineForks
    <3>1. PICK b \in recorded.breaks : b.hash = log[i].hash
      BY <2>3 DEF ForksRecorded
    <3>2. PICK n \in notes : EntryIn(log, n) /\ b \in n.breaks
      BY <3>1 DEF RecordedIn, EntryIn
    <3>3. ~n.emptied
      BY <1>8, <3>2
    <3> QED BY <1>1, <2>1, <3>1, <3>2, <3>3, AccountedIsAccepted
  <2> QED BY <1>1, <2>2, <2>3 DEF LinkedInv, LinkedRow
<1>3. MissingRecorded(CurrentState, recorded, log) = {}
  <2> SUFFICES ASSUME NEW r \in {[id |-> b.id, hash |-> b.hash] : b \in recorded.breaks}
                                    \cup recorded.leaves,
                      r.id > CurrentState.anchorId
               PROVE  \E i \in 1..Len(log) : log[i].id = r.id /\ log[i].hash = r.hash
    BY DEF MissingRecorded
  <2>1. PICK n \in notes : \E x \in n.breaks \cup n.leaves :
            EntryIn(log, n) /\ r.id = x.id /\ r.hash = x.hash
    BY DEF RecordedIn, EntryIn
  <2>2. PICK x \in n.breaks \cup n.leaves : EntryIn(log, n) /\ r.id = x.id /\ r.hash = x.hash
    BY <2>1
  <2>5. Stands(CurrentState, log, x)
    BY <1>1, <1>8, <2>2 DEF AccountInv, NotesInv, Accounted
  <2>3. r.id \in Nat /\ CurrentState.anchorId \in Nat
    <3>1. n \in Note
      BY <1>1 DEF JInv, ChecksTypeOK
    <3>2. x.id \in Nat
      BY <3>1 DEF Note, BreakRow, LeafRow
    <3> QED BY <1>1, <2>2, <3>2, CurrentStateType DEF JInv, ChainState
  <2>4. ~(x.id <= CurrentState.anchorId)
    BY <2>2, <2>3
  <2> QED BY <2>2, <2>4, <2>5 DEF Stands
<1>4. fine = 1..Len(log)
  BY <1>2
<1>5. races = {}
  BY <1>2 DEF RaceBreak
<1>6. tampered = {}
  BY <1>3, <1>4
<1>7. Verdict.status = IF tampered # {} THEN "broken"
                       ELSE IF races # {} THEN "race_breaks" ELSE "ok"
  BY DEF Verdict, Walk
<1> QED BY <1>5, <1>6, <1>7

\* What the history gives, before the first start.
LEMMA InitAccount == ASSUME UntouchedHistories, IInit PROVE AccountInv
<1>1. PICK h \in Histories : log = h.log /\ chainStates = h.chainStates
  BY DEF IInit, Init
<1>2. /\ notes = {} /\ nextHash = FirstHash /\ purge.pc = "idle"
      /\ \A w \in Writers : Len(tx[w].rows) = 0
      /\ \A c \in Checkers : check[c].pc = "idle"
  BY EmptySeq DEF IInit, Init, IdleTx, IdlePurge, IdleCheck
<1>3. ValidInv
  BY <1>1 DEF UntouchedHistories, ValidInv
<1>4. FreshInv
  BY <1>2, BoundsAssumption DEF FreshInv
<1>5. AnchorInv
  <2>1. CASE chainStates = <<>>
    <3>1. CurrentState.anchorId = 0 /\ CurrentState.anchorHash = NoHash
      BY <2>1 DEF CurrentState, NewChainState, NoId
    <3>2. log \in Seq(Row)
      BY <1>1, HistoriesAssumption
    <3>3. \A i \in 1..Len(log) : 0 < log[i].id
      BY <3>2, RowTypes
    <3> QED BY <1>2, <3>1, <3>3 DEF AnchorInv, AnchorBelow
  <2>2. CASE chainStates # <<>>
    <3>1. CurrentState = h.chainStates[1]
      BY <1>1, <2>2 DEF CurrentState
    <3> QED BY <1>1, <1>2, <2>2, <3>1 DEF UntouchedHistories, AnchorInv, AnchorBelow
  <2> QED BY <2>1, <2>2
<1>6. BoundaryInv /\ DraftsInv /\ NotesInv
  BY <1>2 DEF BoundaryInv, DraftsInv, DraftStands, NotesInv
<1> QED BY <1>3, <1>4, <1>5, <1>6 DEF AccountInv

(***************************************************************************)
(* The steps, as long as nobody edits.                                     *)
(***************************************************************************)

\* Only the history holds forks.
LEMMA ForksAreOld == \A h \in GenuineForks : h < FirstHash
BY HistoriesAssumption DEF GenuineForks

\* What a step keeps that leaves the anchor, appends rows of this version or none, and
\* ends checks, sweeps under them or leaves them alone.
Undisturbed ==
    /\ log' \in Seq(Row) /\ Grown(log, log')
    /\ SameAnchor(CurrentState, CurrentState')
    /\ \A n \in notes : EntryIn(log', n) => EntryIn(log, n)
    /\ \A c \in Checkers :
        check'[c] = check[c] \/ check'[c].pc = "idle" \/ check'[c].emptied

LEMMA UndisturbedKeeps ==
    ASSUME JInv, AccountInv, Undisturbed
    PROVE  /\ ValidInv' /\ DraftsInv'
           /\ CurrentState'.anchorHash # NoHash => CurrentState'.anchorId # NoId
           /\ OldRowIn(log') => AnchorBelow(CurrentState', log')
           /\ \A n \in notes : ~n.emptied /\ EntryIn(log', n) =>
                /\ AnchorBelow(CurrentState', log')
                /\ Accounted(CurrentState', log', n.breaks, n.leaves)
<1>1. /\ log \in Seq(Row) /\ log' \in Seq(Row) /\ Grown(log, log')
      /\ SameAnchor(CurrentState, CurrentState') /\ CurrentState \in ChainState
  BY CurrentStateType DEF JInv, BaseInv, TypeOK, Undisturbed
<1>2. Len(log) \in Nat /\ Len(log') \in Nat /\ (OldRowIn(log') <=> OldRowIn(log))
  BY <1>1, GrownRows, RowTypes
<1>3. ValidInv'
  <2> SUFFICES ASSUME NEW i \in 1..Len(log'), log'[i].hash # NoHash PROVE log'[i].valid
    BY DEF ValidInv
  <2>1. CASE i <= Len(log)
    <3>1. i \in 1..Len(log) /\ log'[i] = log[i]
      BY <1>1, <1>2, <2>1 DEF Grown
    <3> QED BY <3>1 DEF AccountInv, ValidInv
  <2>2. CASE i > Len(log)
    BY <1>1, <2>2 DEF Grown
  <2> QED BY <1>2, <2>1, <2>2
<1>4. AnchorBelow(CurrentState, log) /\ Len(log) # 0 => AnchorBelow(CurrentState', log')
  BY <1>1, GrownAnchor
<1>5. OldRowIn(log') => AnchorBelow(CurrentState', log')
  <2>1. OldRowIn(log) => Len(log) # 0
    BY DEF OldRowIn
  <2> QED BY <1>2, <1>4, <2>1 DEF AccountInv, AnchorInv
<1>6. ASSUME NEW n \in notes, ~n.emptied, EntryIn(log', n)
      PROVE  /\ AnchorBelow(CurrentState', log')
             /\ Accounted(CurrentState', log', n.breaks, n.leaves)
  <2>1. EntryIn(log, n)
    BY <1>6 DEF Undisturbed
  <2>2. Len(log) # 0
    BY <2>1 DEF EntryIn
  <2>3. AnchorBelow(CurrentState, log) /\ Accounted(CurrentState, log, n.breaks, n.leaves)
    BY <1>6, <2>1 DEF AccountInv, AnchorInv, NotesInv
  <2>4. \A b \in n.breaks : b.hash < FirstHash
    BY ForksAreOld DEF JInv, OnlyForksAreRecorded
  <2> QED BY <1>1, <1>4, <2>2, <2>3, <2>4, GrownAccounted
<1>7. DraftsInv'
  <2> SUFFICES ASSUME NEW c \in Checkers, check'[c].pc # "idle", ~check'[c].emptied
               PROVE  DraftStands(check'[c], CurrentState', log')
    BY DEF DraftsInv, DraftStands
  <2>1. check'[c] = check[c]
    BY DEF Undisturbed
  <2> DEFINE entry == check[c]
  <2>2. DraftStands(entry, CurrentState, log) /\ entry.pc # "idle" /\ ~entry.emptied
    BY <2>1 DEF AccountInv, DraftsInv
  <2>3. \A b \in entry.result.races : b.hash < FirstHash
    BY ForksAreOld DEF JInv, ChecksInv
  <2> HIDE DEF entry
  <2>4. OldRowIn(log') => Older(entry.state, CurrentState')
    BY <1>1, <1>2, <2>2 DEF DraftStands, Older, SameAnchor
  <2>5. ASSUME Drafting(entry)
        PROVE  /\ Len(log') # 0 /\ AnchorBelow(CurrentState', log')
               /\ Accounted(CurrentState', log', entry.result.races, DraftLeaves(entry))
    <3>1. /\ Len(log) # 0 /\ AnchorBelow(CurrentState, log)
          /\ Accounted(CurrentState, log, entry.result.races, DraftLeaves(entry))
      BY <2>2, <2>5 DEF DraftStands
    <3>2. Len(log') # 0
      BY <1>1, <1>2, <3>1 DEF Grown
    <3> QED BY <1>1, <1>4, <2>3, <3>1, <3>2, GrownAccounted
  <2>6. DraftStands(entry, CurrentState', log')
    BY <2>4, <2>5 DEF DraftStands
  <2> QED BY <2>1, <2>6 DEF entry
<1>8. CurrentState'.anchorHash # NoHash => CurrentState'.anchorId # NoId
  BY <1>1 DEF AccountInv, AnchorInv, SameAnchor
<1> QED BY <1>3, <1>5, <1>6, <1>7, <1>8

LEMMA UndisturbedNotes ==
    ASSUME JInv, AccountInv, Undisturbed, notes' = notes
    PROVE  ValidInv' /\ AnchorInv' /\ DraftsInv' /\ NotesInv'
BY UndisturbedKeeps DEF AnchorInv, NotesInv

\* The log is the same, and so is the state row.
LEMMA SameRows ==
    ASSUME JInv, log' = log, chainStates' = chainStates,
           \A c \in Checkers :
                check'[c] = check[c] \/ check'[c].pc = "idle" \/ check'[c].emptied
    PROVE  Undisturbed
<1>1. log \in Seq(Row) /\ Len(log) \in Nat
  BY RowTypes DEF JInv, BaseInv, TypeOK
<1>2. Grown(log, log)
  BY <1>1 DEF Grown
<1>3. SameAnchor(CurrentState, CurrentState')
  BY DEF SameAnchor, CurrentState
<1> QED BY <1>1, <1>2, <1>3 DEF Undisturbed

\* The sweep goes on where it stood while rows are appended.
LEMMA BoundaryStays ==
    ASSUME JInv, AccountInv, Undisturbed, purge' = purge
    PROVE  BoundaryInv'
<1>1. /\ log \in Seq(Row) /\ log' \in Seq(Row) /\ Grown(log, log')
      /\ SameAnchor(CurrentState, CurrentState')
  BY DEF JInv, BaseInv, TypeOK, Undisturbed
<1>2. /\ Len(log) \in Nat /\ Len(log') \in Nat /\ Len(log') >= Len(log)
      /\ \A i \in 1..Len(log) : i \in 1..Len(log') /\ log'[i] = log[i]
  BY <1>1, GrownRows, RowTypes DEF Grown
<1>3. ASSUME purge.pc # "idle", purge.first # NoId
      PROVE  \E i \in 1..Len(log') : log'[i].id = purge.first
  BY <1>2, <1>3 DEF AccountInv, BoundaryInv
<1>4. ASSUME purge.pc = "picked", purge.first # NoId
      PROVE  \E k \in 0..(Len(log') - 1) :
                /\ log'[k + 1].id = purge.first
                /\ purge.newest = IF k = 0 THEN NoRow
                                  ELSE [id |-> log'[k].id, hash |-> log'[k].hash]
  <2>1. PICK k \in 0..(Len(log) - 1) :
            /\ log[k + 1].id = purge.first
            /\ purge.newest = IF k = 0 THEN NoRow
                              ELSE [id |-> log[k].id, hash |-> log[k].hash]
    BY <1>4 DEF AccountInv, BoundaryInv
  <2>2. k \in 0..(Len(log') - 1) /\ k + 1 \in 1..Len(log) /\ (k # 0 => k \in 1..Len(log))
    BY <1>2
  <2>3. log'[k + 1] = log[k + 1] /\ (k # 0 => log'[k] = log[k])
    BY <1>2, <2>2
  <2> QED BY <2>1, <2>2, <2>3
<1>5. purge.pc = "picked" /\ purge.newest # NoRow =>
        /\ purge.newest.id # NoId
        /\ purge.stateRow = 0 => CurrentState'.cutoffId = NoId
  BY <1>1 DEF AccountInv, BoundaryInv, SameAnchor
<1> QED BY <1>3, <1>4, <1>5 DEF BoundaryInv

LEMMA BoundaryIdle == ASSUME purge'.pc = "idle" PROVE BoundaryInv'
BY DEF BoundaryInv, IdlePurge

\* Pending rows of this version are appended.
LEMMA InsertedGrown ==
    ASSUME NEW rows \in Seq(Row), SortedById(rows), NEW pending \in Seq(PendingRow),
           \A k \in 1..Len(pending) : pending[k].hash >= FirstHash
    PROVE  /\ Inserted(rows, pending) \in Seq(Row)
           /\ Grown(rows, Inserted(rows, pending))
           /\ \A i \in 1..Len(Inserted(rows, pending)) :
                \/ i \in 1..Len(rows) /\ Inserted(rows, pending)[i] = rows[i]
                \/ \E k \in 1..Len(pending) : Inserted(rows, pending)[i].hash = pending[k].hash
<1> DEFINE longer == Inserted(rows, pending)
<1>1. /\ longer \in Seq(Row) /\ Len(rows) \in Nat /\ Len(pending) \in Nat
      /\ Len(longer) = Len(rows) + Len(pending)
      /\ \A i \in 1..Len(rows) : longer[i] = rows[i]
  BY InsertedRows, RowTypes, LenProperties
<1>2. ASSUME NEW i \in 1..Len(longer), i > Len(rows)
      PROVE  /\ i - Len(rows) \in 1..Len(pending)
             /\ longer[i].hash = pending[i - Len(rows)].hash /\ longer[i].valid
             /\ \A j \in 1..Len(rows) : rows[j].id < longer[i].id
  <2>1. i - Len(rows) \in 1..Len(pending) /\ i \in 1..(Len(rows) + Len(pending))
    BY <1>1, <1>2
  <2>2. longer[i] = [id |-> NextId(rows) + (i - Len(rows)) - 1,
                     at |-> pending[i - Len(rows)].at, prev |-> pending[i - Len(rows)].prev,
                     hash |-> pending[i - Len(rows)].hash, valid |-> TRUE]
    BY <1>2, <2>1, InsertedRows
  <2>3. longer[i].id = NextId(rows) + (i - Len(rows)) - 1
    BY <2>2
  <2>4. NextId(rows) \in Nat /\ longer[i].id >= NextId(rows)
    BY <1>1, <2>1, <2>3, NextIdAbove
  <2>5. ASSUME NEW j \in 1..Len(rows) PROVE rows[j].id < longer[i].id
    <3>1. rows[j].id < NextId(rows) /\ rows[j].id \in Nat
      BY NextIdAbove, RowTypes
    <3>2. longer[i].id \in Nat
      BY <1>1, RowTypes
    <3> HIDE DEF longer
    <3> QED BY <2>4, <3>1, <3>2
  <2> QED BY <2>1, <2>2, <2>5
<1> HIDE DEF longer
<1>3. Grown(rows, longer)
  <2>1. Len(longer) >= Len(rows)
    BY <1>1
  <2>2. ASSUME NEW i \in 1..Len(longer), i > Len(rows) PROVE longer[i].hash >= FirstHash
    BY <1>2, <2>2
  <2> QED BY <1>1, <1>2, <2>1, <2>2 DEF Grown
<1>4. ASSUME NEW i \in 1..Len(longer)
      PROVE  \/ i \in 1..Len(rows) /\ longer[i] = rows[i]
             \/ \E k \in 1..Len(pending) : longer[i].hash = pending[k].hash
  <2>1. CASE i <= Len(rows)
    <3>1. i \in 1..Len(rows)
      BY <1>1, <2>1
    <3> QED BY <1>1, <3>1
  <2>2. CASE i > Len(rows)
    BY <1>2, <2>2
  <2> QED BY <1>1, <2>1, <2>2
<1> QED BY <1>1, <1>3, <1>4 DEF longer

\* Nothing is hashed and nothing recorded.
LEMMA FreshStays ==
    ASSUME JInv, AccountInv, notes' = notes, nextHash' = nextHash,
           (\A i \in 1..Len(log) : log[i].hash # NoHash) =>
                \A i \in 1..Len(log') : log'[i].hash # NoHash,
           \A w \in Writers : tx'[w].rows = tx[w].rows \/ tx'[w].rows = <<>>
    PROVE  FreshInv'
<1>1. \A w \in Writers : \A k \in 1..Len(tx'[w].rows) :
        tx'[w].rows = tx[w].rows /\ k \in 1..Len(tx[w].rows)
  BY EmptySeq
<1> QED BY <1>1 DEF AccountInv, FreshInv

LEMMA QuietAccount ==
    ASSUME JInv, AccountInv, notes' = notes, nextHash' = nextHash, log' = log,
           chainStates' = chainStates, purge' = purge \/ purge'.pc = "idle",
           \A c \in Checkers : check'[c] = check[c] \/ check'[c].pc = "idle",
           \A w \in Writers : tx'[w].rows = tx[w].rows \/ tx'[w].rows = <<>>
    PROVE  AccountInv'
<1>1. Undisturbed
  BY SameRows
<1>2. ValidInv' /\ AnchorInv' /\ DraftsInv' /\ NotesInv'
  BY <1>1, UndisturbedNotes
<1>3. FreshInv'
  BY FreshStays
<1>4. BoundaryInv'
  BY <1>1, BoundaryStays, BoundaryIdle
<1> QED BY <1>2, <1>3, <1>4 DEF AccountInv

LEMMA ChainNewEntryAccount ==
    ASSUME JInv, AccountInv, NEW w \in Writers, ChainNewEntry(w), UNCHANGED <<check, notes>>
    PROVE  AccountInv'
<1> DEFINE row == [at |-> tx[w].at, prev |-> TipSeenBy(w), hash |-> nextHash]
<1>1. /\ tx[w].rows \in Seq(PendingRow) /\ Len(tx[w].rows) \in Nat /\ nextHash \in Nat
      /\ nextHash' = nextHash + 1 /\ UNCHANGED <<log, chainStates, purge>>
  BY LenProperties DEF ChainNewEntry, JInv, BaseInv, TypeOK
<1>2. /\ tx' = [tx EXCEPT ![w].pc = "added", ![w].rows = Append(tx[w].rows, row)]
      /\ row.hash = nextHash
  BY DEF ChainNewEntry
<1> HIDE DEF row
<1>3. /\ tx'[w].rows = Append(tx[w].rows, row)
      /\ \A v \in Writers : v # w => tx'[v] = tx[v]
  BY <1>2 DEF JInv, BaseInv, TypeOK
<1>4. /\ Len(tx'[w].rows) = Len(tx[w].rows) + 1
      /\ \A k \in 1..Len(tx[w].rows) : tx'[w].rows[k] = tx[w].rows[k]
      /\ tx'[w].rows[Len(tx[w].rows) + 1] = row
  BY <1>1, <1>3
<1>5. FreshInv'
  <2>1. nextHash' >= FirstHash /\ \A n \in notes : n.entry < nextHash'
    <3>1. FirstHash \in Nat /\ \A n \in notes : n.entry \in Nat
      BY BoundsAssumption DEF JInv, ChecksTypeOK, Note
    <3> QED BY <1>1, <3>1 DEF AccountInv, FreshInv
  <2>2. ASSUME NEW v \in Writers, NEW k \in 1..Len(tx'[v].rows)
        PROVE  /\ tx'[v].rows[k].hash >= FirstHash
               /\ \A n \in notes : n.entry < tx'[v].rows[k].hash
    <3>1. CASE v # w
      BY <1>3, <3>1 DEF AccountInv, FreshInv
    <3>2. CASE v = w /\ k \in 1..Len(tx[w].rows)
      BY <1>4, <3>2 DEF AccountInv, FreshInv
    <3>3. CASE v = w /\ k = Len(tx[w].rows) + 1
      BY <1>2, <1>4, <3>3 DEF AccountInv, FreshInv
    <3>4. v = w => k \in 1..Len(tx[w].rows) \/ k = Len(tx[w].rows) + 1
      BY <1>1, <1>4
    <3> QED BY <3>1, <3>2, <3>3, <3>4
  <2> QED BY <1>1, <2>1, <2>2 DEF AccountInv, FreshInv
<1>6. Undisturbed
  BY <1>1, SameRows
<1> QED BY <1>1, <1>5, <1>6, UndisturbedNotes, BoundaryStays DEF AccountInv

\* Rows are appended whose hashes are fresh.
LEMMA AppendAccount ==
    ASSUME JInv, AccountInv, NEW pending \in Seq(PendingRow), log' = Inserted(log, pending),
           SameAnchor(CurrentState, CurrentState'),
           \A k \in 1..Len(pending) : pending[k].hash >= FirstHash,
           \A k \in 1..Len(pending) : \A n \in notes : n.entry < pending[k].hash,
           \A c \in Checkers : check'[c] = check[c] \/ check'[c].pc = "idle"
    PROVE  /\ Undisturbed
           /\ (\A i \in 1..Len(log) : log[i].hash # NoHash) =>
                \A i \in 1..Len(log') : log'[i].hash # NoHash
<1>1. /\ log \in Seq(Row) /\ log' \in Seq(Row) /\ Grown(log, log')
      /\ \A i \in 1..Len(log') :
            \/ i \in 1..Len(log) /\ log'[i] = log[i]
            \/ \E k \in 1..Len(pending) : log'[i].hash = pending[k].hash
  <2> DEFINE longer == Inserted(log, pending)
  <2>1. log \in Seq(Row) /\ SortedById(log)
    BY DEF JInv, BaseInv, TypeOK
  <2>2. /\ longer \in Seq(Row) /\ Grown(log, longer)
        /\ \A i \in 1..Len(longer) :
            \/ i \in 1..Len(log) /\ longer[i] = log[i]
            \/ \E k \in 1..Len(pending) : longer[i].hash = pending[k].hash
    BY <2>1, InsertedGrown
  <2>3. log' = longer
    OBVIOUS
  <2> HIDE DEF longer
  <2> QED BY <2>1, <2>2, <2>3
<1>2. ASSUME NEW n \in notes, EntryIn(log', n) PROVE EntryIn(log, n)
  <2>1. PICK i \in 1..Len(log') : log'[i].hash = n.entry
    BY <1>2 DEF EntryIn
  <2>2. n.entry \in Nat
    BY DEF JInv, ChecksTypeOK, Note
  <2>3. ~\E k \in 1..Len(pending) : log'[i].hash = pending[k].hash
    <3> SUFFICES ASSUME NEW k \in 1..Len(pending), n.entry = pending[k].hash PROVE FALSE
      BY <2>1
    <3>1. n.entry < pending[k].hash
      OBVIOUS
    <3> QED BY <2>2, <3>1
  <2>4. i \in 1..Len(log) /\ log'[i] = log[i]
    BY <1>1, <2>3
  <2> QED BY <2>1, <2>4 DEF EntryIn
<1>3. FirstHash \in Nat \ {0}
  BY BoundsAssumption
<1>4. (\A i \in 1..Len(log) : log[i].hash # NoHash) =>
        \A i \in 1..Len(log') : log'[i].hash # NoHash
  BY <1>1, <1>3 DEF NoHash
<1> QED BY <1>1, <1>2, <1>4 DEF Undisturbed

LEMMA CommitAccount ==
    ASSUME JInv, AccountInv, NEW w \in Writers, Commit(w), UNCHANGED <<check, notes>>
    PROVE  AccountInv'
<1>1. /\ log' = Inserted(log, tx[w].rows) /\ tx[w].rows \in Seq(PendingRow)
      /\ nextHash' = nextHash /\ purge' = purge /\ chainStates' = chainStates
      /\ tx' = [tx EXCEPT ![w] = IdleTx]
  BY DEF Commit, JInv, BaseInv, TypeOK
<1>2. \A k \in 1..Len(tx[w].rows) :
        tx[w].rows[k].hash >= FirstHash /\ \A n \in notes : n.entry < tx[w].rows[k].hash
  BY DEF AccountInv, FreshInv
<1>3. SameAnchor(CurrentState, CurrentState')
  BY <1>1 DEF SameAnchor, CurrentState
<1>4. /\ Undisturbed
      /\ (\A i \in 1..Len(log) : log[i].hash # NoHash) =>
            \A i \in 1..Len(log') : log'[i].hash # NoHash
  BY <1>1, <1>2, <1>3, AppendAccount
<1>5. FreshInv'
  <2>1. \A v \in Writers : tx'[v].rows = tx[v].rows \/ tx'[v].rows = <<>>
    BY <1>1 DEF JInv, BaseInv, TypeOK, IdleTx
  <2>2. \A v \in Writers : \A k \in 1..Len(tx'[v].rows) :
            tx'[v].rows = tx[v].rows /\ k \in 1..Len(tx[v].rows)
    BY <2>1, EmptySeq
  <2> QED BY <1>1, <1>4, <2>2 DEF AccountInv, FreshInv
<1> QED BY <1>1, <1>4, <1>5, UndisturbedNotes, BoundaryStays DEF AccountInv

LEMMA PurgeScanAccount ==
    ASSUME JInv, AccountInv, PurgeScan, UNCHANGED <<check, notes>> PROVE AccountInv'
<1>1. PICK days \in Retentions \ {0} :
        LET cutoff == now - days
            young == {log[i].id : i \in {j \in 1..Len(log) : log[j].at >= cutoff}}
        IN purge' = [IdlePurge EXCEPT
                        !.pc = "scanned", !.cutoff = cutoff,
                        !.first = IF young = {} THEN NoId ELSE Min(young)]
  BY DEF PurgeScan
<1> DEFINE young == {log[i].id : i \in {j \in 1..Len(log) : log[j].at >= now - days}}
<1>2. purge'.pc = "scanned" /\ purge'.first = IF young = {} THEN NoId ELSE Min(young)
  BY <1>1 DEF IdlePurge
<1>3. UNCHANGED <<log, chainStates, tx, nextHash>>
  BY DEF PurgeScan
<1>4. \A x \in young : x \in Nat /\ \E i \in 1..Len(log) : log[i].id = x
  BY RowTypes DEF JInv, BaseInv, TypeOK
<1> HIDE DEF young
<1>5. young # {} => \E i \in 1..Len(log) : log[i].id = Min(young)
  <2>1. young # {} => Min(young) \in young
    BY <1>4, MinOfNats
  <2> QED BY <1>4, <2>1
<1>6. BoundaryInv'
  BY <1>2, <1>3, <1>5 DEF BoundaryInv
<1>7. Undisturbed /\ FreshInv'
  BY <1>3, SameRows, FreshStays
<1> QED BY <1>6, <1>7, UndisturbedNotes DEF AccountInv

LEMMA PurgePickAnchorAccount ==
    ASSUME JInv, AccountInv, PurgePickAnchor, UNCHANGED <<check, notes>> PROVE AccountInv'
<1>1. PICK k \in 0..Len(log) :
        /\ MatchesPrefix(log, purge.first, k)
        /\ purge' = [purge EXCEPT
                        !.pc = "picked",
                        !.newest = IF k = 0 THEN NoRow
                                   ELSE [id |-> log[k].id, hash |-> log[k].hash],
                        !.stateRow = IF k # 0 /\ chainStates # <<>> THEN 1 ELSE 0]
  BY DEF PurgePickAnchor
<1>2. /\ UNCHANGED <<log, chainStates, tx, nextHash>> /\ purge.pc = "scanned"
      /\ purge'.first = purge.first
      /\ purge'.newest = IF k = 0 THEN NoRow ELSE [id |-> log[k].id, hash |-> log[k].hash]
      /\ purge'.stateRow = IF k # 0 /\ chainStates # <<>> THEN 1 ELSE 0
      /\ log \in Seq(Row) /\ Len(log) \in Nat
  BY <1>1, RowTypes DEF PurgePickAnchor, JInv, BaseInv, TypeOK
<1>3. BoundaryInv'
  <2>1. ASSUME purge.first # NoId
        PROVE  /\ \E i \in 1..Len(log) : log[i].id = purge.first
               /\ k \in 0..(Len(log) - 1) /\ log[k + 1].id = purge.first
    <3>1. \E i \in 1..Len(log) : log[i].id = purge.first
      BY <1>2, <2>1 DEF AccountInv, BoundaryInv
    <3> QED BY <1>1, <2>1, <3>1, BoundaryRow DEF JInv
  <2>2. ASSUME purge'.newest # NoRow
        PROVE  /\ purge'.newest.id # NoId
               /\ purge'.stateRow = 0 => CurrentState.cutoffId = NoId
    <3>1. k # 0 /\ k \in 1..Len(log)
      BY <1>2, <2>2
    <3>2. log[k].id # NoId
      BY <1>2, <3>1, RowTypes DEF NoId
    <3>3. purge'.stateRow = 0 => chainStates = <<>>
      BY <1>2, <3>1
    <3> QED BY <1>2, <3>1, <3>2, <3>3 DEF CurrentState, NewChainState
  <2>3. CurrentState' = CurrentState
    BY <1>2 DEF CurrentState
  <2> QED BY <1>2, <2>1, <2>2, <2>3 DEF BoundaryInv
<1>4. Undisturbed /\ FreshInv'
  BY <1>2, SameRows, FreshStays
<1> QED BY <1>3, <1>4, UndisturbedNotes DEF AccountInv

\* The backfill finds nothing to do, or no row that was ever recorded.
LEMMA BootAccount ==
    ASSUME JInv, AccountInv, Boot, UNCHANGED <<check, notes>> PROVE AccountInv'
<1>1. /\ UNCHANGED <<chainStates, tx, purge>> /\ log' = Backfilled /\ ~up
      /\ nextHash' = IF Unhashed = {} THEN nextHash ELSE nextHash + Len(log)
  BY DEF Boot
<1>2. CASE Unhashed = {}
  <2>1. log' = log /\ nextHash' = nextHash
    BY <1>1, <1>2, BackfilledRows DEF JInv, BaseInv
  <2> QED BY <1>1, <2>1, QuietAccount
<1>3. CASE Unhashed # {}
  <2>1. /\ log' \in Seq(Row) /\ Len(log') = Len(log) /\ Len(log) \in Nat /\ nextHash \in Nat
        /\ nextHash' = nextHash + Len(log) /\ FirstHash \in Nat /\ nextHash >= FirstHash
    BY <1>1, <1>3, BackfilledRows, RowTypes, BoundsAssumption
       DEF JInv, BaseInv, TypeOK, AccountInv, FreshInv
  <2>8. \A i \in 1..Len(log) :
            log'[i] = [log[i] EXCEPT
                        !.prev = IF i = 1 THEN AnchorHash(chainStates)
                                 ELSE nextHash + (i - 1) - 1,
                        !.hash = nextHash + i - 1,
                        !.valid = TRUE]
    BY <1>1, <1>3, BackfilledRows DEF JInv, BaseInv
  <2>2. ASSUME NEW i \in 1..Len(log') PROVE log'[i].valid /\ log'[i].hash >= FirstHash
    <3>1. log[i] \in Row
      BY <2>1, ElementOfSeq DEF JInv, BaseInv, TypeOK
    <3> DEFINE p == IF i = 1 THEN AnchorHash(chainStates) ELSE nextHash + (i - 1) - 1
               h == nextHash + i - 1
    <3>2. log'[i] = [log[i] EXCEPT !.prev = p, !.hash = h, !.valid = TRUE]
      BY <2>1, <2>8
    <3>3. h >= FirstHash
      BY <2>1
    <3> HIDE DEF p, h
    <3>4. log'[i].valid = TRUE /\ log'[i].hash = h
      BY <3>1, <3>2 DEF Row
    <3> QED BY <3>3, <3>4
  <2>3. notes = {}
    BY <1>3 DEF AccountInv, FreshInv, Unhashed
  <2>4. /\ \A c \in Checkers : check[c].pc = "idle"
        /\ purge.pc = "idle" /\ \A w \in Writers : Len(tx[w].rows) = 0
    BY <1>1, EmptySeq DEF JInv, ChecksInv, BaseInv, LockInv, IdleTx
  <2>5. ValidInv' /\ BoundaryInv' /\ DraftsInv' /\ NotesInv'
    BY <1>1, <2>2, <2>3, <2>4 DEF ValidInv, BoundaryInv, DraftsInv, DraftStands, NotesInv
  <2>6. FreshInv'
    <3>1. nextHash' >= FirstHash
      BY <2>1
    <3> QED BY <1>1, <2>3, <2>4, <3>1 DEF FreshInv
  <2>7. AnchorInv'
    <3>1. ~OldRowIn(log')
      <4>1. \A i \in 1..Len(log') : log'[i].hash \in Nat
        BY <2>1, RowTypes
      <4>2. FirstHash \in Nat
        BY BoundsAssumption
      <4> QED BY <2>2, <4>1, <4>2 DEF OldRowIn
    <3>2. CurrentState' = CurrentState
      BY <1>1 DEF CurrentState
    <3> QED BY <2>3, <3>1, <3>2 DEF AnchorInv, AccountInv
  <2> QED BY <2>5, <2>6, <2>7 DEF AccountInv
<1> QED BY <1>2, <1>3

(***************************************************************************)
(* The sweep's delete.                                                     *)
(***************************************************************************)

\* The state row that checks read after the sweep has written its anchor.
LEMMA AnchorWrittenState ==
    ASSUME BaseInv, purge.pc = "picked", chainStates' = AnchorWritten(chainStates)
    PROVE  IF purge.newest # NoRow /\ (purge.stateRow # 0 \/ chainStates = <<>>)
           THEN /\ CurrentState'.anchorId = purge.newest.id
                /\ CurrentState'.anchorHash = purge.newest.hash
                /\ CurrentState'.cutoffId = CurrentState.cutoffId
           ELSE SameAnchor(CurrentState, CurrentState')
<1>1. chainStates \in Seq(ChainState) /\ Len(chainStates) \in Nat
  BY LenProperties DEF BaseInv, TypeOK
<1>2. ASSUME NEW s \in ChainState
      PROVE  /\ WithAnchor(s, purge.newest).anchorId = purge.newest.id
             /\ WithAnchor(s, purge.newest).anchorHash = purge.newest.hash
             /\ WithAnchor(s, purge.newest).cutoffId = s.cutoffId
             /\ WithAnchor(s, purge.newest) \in ChainState
  BY DEF WithAnchor, ChainState, BaseInv, TypeOK
<1>3. NewChainState \in ChainState
  BY DEF NewChainState, ChainState, Statuses, NoId, NoHash
<1>4. CASE purge.newest = NoRow
  BY <1>4 DEF AnchorWritten, CurrentState, SameAnchor
<1>5. CASE purge.newest # NoRow /\ purge.stateRow # 0
  <2>1. chainStates # <<>>
    BY <1>5 DEF BaseInv, StateInv
  <2>2. 1 \in 1..Len(chainStates) /\ chainStates[1] \in ChainState
    BY <1>1, <2>1, EmptySeq, ElementOfSeq
  <2> DEFINE first == WithAnchor(chainStates[1], purge.newest)
  <2>3. chainStates' = [chainStates EXCEPT ![1] = first]
    BY <1>5 DEF AnchorWritten
  <2>4. first \in ChainState
    BY <1>2, <2>2
  <2> HIDE DEF first
  <2>5. /\ chainStates' \in Seq(ChainState) /\ Len(chainStates') = Len(chainStates)
        /\ chainStates'[1] = first
    BY <1>1, <2>2, <2>3, <2>4, ExceptSeq
  <2>6. CurrentState' = first /\ CurrentState = chainStates[1]
    BY <2>1, <2>2, <2>5, EmptySeq DEF CurrentState
  <2> QED BY <1>2, <1>5, <2>2, <2>6 DEF first
<1>6. CASE purge.newest # NoRow /\ purge.stateRow = 0
  <2> DEFINE fresh == WithAnchor(NewChainState, purge.newest)
  <2>1. chainStates' = Append(chainStates, fresh)
    BY <1>6 DEF AnchorWritten
  <2>2. fresh \in ChainState
    BY <1>2, <1>3
  <2> HIDE DEF fresh
  <2>3. /\ chainStates' # <<>>
        /\ \A i \in 1..Len(chainStates) : chainStates'[i] = chainStates[i]
        /\ chainStates'[Len(chainStates) + 1] = fresh
    BY <1>1, <2>1, <2>2, AppendProperties
  <2>4. CASE chainStates = <<>>
    <3>1. CurrentState' = fresh /\ CurrentState = NewChainState
      BY <2>3, <2>4, EmptySeq DEF CurrentState
    <3> QED BY <1>2, <1>3, <1>6, <2>4, <3>1 DEF fresh
  <2>5. CASE chainStates # <<>>
    <3>1. 1 \in 1..Len(chainStates)
      BY <1>1, <2>5, EmptySeq
    <3>2. CurrentState' = CurrentState
      BY <2>3, <2>5, <3>1 DEF CurrentState
    <3> QED BY <1>6, <2>5, <3>2 DEF SameAnchor
  <2> QED BY <2>4, <2>5
<1> QED BY <1>4, <1>5, <1>6

LEMMA CutRows ==
    ASSUME NEW rows \in Seq(Row), NEW k, NEW rest, Cut(rows, k, rest)
    PROVE  /\ OldRowIn(rest) => OldRowIn(rows)
           /\ \A n \in notes : EntryIn(rest, n) => EntryIn(rows, n)
           /\ \A state : AnchorBelow(state, rows) => AnchorBelow(state, rest)
<1>1. Len(rows) \in Nat /\ k \in 1..Len(rows) /\ Len(rest) = Len(rows) - k
  BY RowTypes DEF Cut
<1>2. ASSUME NEW i \in 1..Len(rest) PROVE k + i \in 1..Len(rows) /\ rest[i] = rows[k + i]
  <2>1. k + i \in 1..Len(rows)
    BY <1>1
  <2> QED BY <2>1 DEF Cut
<1> QED BY <1>2 DEF OldRowIn, EntryIn, AnchorBelow

LEMMA PurgeDeleteAccount ==
    ASSUME JInv, AccountInv, PurgeDelete, notes' = notes,
           check' = [c \in Checkers |->
                        [check[c] EXCEPT
                            !.emptied = @ \/ (check[c].pc # "idle" /\ log' = <<>>)]]
    PROVE  AccountInv'
<1>1. PICK k \in 0..Len(log) :
        MatchesPrefix(log, purge.first, k) /\ log' = SubSeq(log, k + 1, Len(log))
  BY DEF PurgeDelete
<1>2. log \in Seq(Row) /\ Len(log) \in Nat /\ SortedById(log) /\ BaseInv
  BY RowTypes DEF JInv, BaseInv, TypeOK
<1>3. /\ log' \in Seq(Row) /\ Len(log') = Len(log) - k
      /\ \A i \in 1..(Len(log) - k) : log'[i] = log[k + i]
  BY <1>1, <1>2, SuffixRows
<1>4. /\ purge.pc = "picked" /\ purge' = IdlePurge /\ tx' = tx /\ nextHash' = nextHash
      /\ chainStates' = AnchorWritten(chainStates)
  BY DEF PurgeDelete
<1>5. ASSUME NEW c \in Checkers
      PROVE  /\ Len(log') = 0 => check'[c].pc = "idle" \/ check'[c].emptied
             /\ Len(log') # 0 => check'[c] = check[c]
  <2>1. check[c] \in Check
    BY DEF JInv, ChecksTypeOK
  <2>2. Len(log') = 0 <=> log' = <<>>
    BY <1>3, EmptySeq
  <2>3. check'[c] = [check[c] EXCEPT
                        !.emptied = @ \/ (check[c].pc # "idle" /\ log' = <<>>)]
    OBVIOUS
  <2>4. CASE log' = <<>>
    BY <2>1, <2>2, <2>3, <2>4 DEF Check
  <2>5. CASE log' # <<>>
    <3>1. check'[c] = [check[c] EXCEPT !.emptied = check[c].emptied]
      BY <2>1, <2>3, <2>5 DEF Check
    <3> QED BY <2>1, <2>2, <2>5, <3>1 DEF Check
  <2> QED BY <2>4, <2>5
<1>6. \A i \in 1..Len(log') : k + i \in 1..Len(log) /\ log'[i] = log[k + i]
  <2> SUFFICES ASSUME NEW i \in 1..Len(log')
               PROVE  k + i \in 1..Len(log) /\ log'[i] = log[k + i]
    OBVIOUS
  <2>1. i \in 1..(Len(log) - k) /\ k + i \in 1..Len(log)
    BY <1>2, <1>3
  <2> QED BY <1>3, <2>1
<1>7. ValidInv' /\ BoundaryInv'
  BY <1>4, <1>6 DEF AccountInv, ValidInv, BoundaryInv, IdlePurge
<1>8. FreshInv'
  BY <1>4, <1>6, FreshStays
<1>9. IF purge.newest # NoRow /\ (purge.stateRow # 0 \/ chainStates = <<>>)
      THEN /\ CurrentState'.anchorId = purge.newest.id
           /\ CurrentState'.anchorHash = purge.newest.hash
           /\ CurrentState'.cutoffId = CurrentState.cutoffId
      ELSE SameAnchor(CurrentState, CurrentState')
  BY <1>2, <1>4, AnchorWrittenState
<1>10. CurrentState'.anchorHash # NoHash => CurrentState'.anchorId # NoId
  BY <1>4, <1>9 DEF AccountInv, BoundaryInv, AnchorInv, SameAnchor
<1>11. CASE Len(log') = 0
  <2>1. DraftsInv'
    BY <1>5, <1>11 DEF DraftsInv, DraftStands
  <2> QED BY <1>7, <1>8, <1>10, <1>11, <2>1 DEF AccountInv, AnchorInv, NotesInv, OldRowIn, EntryIn
<1>12. CASE Len(log') # 0
  <2>1. purge.first # NoId
    <3>1. 1 \in 1..Len(log') /\ ~(k + 1 <= k)
      BY <1>2, <1>3, <1>12
    <3> QED BY <1>1, <1>6, <3>1 DEF MatchesPrefix, InPrefix
  <2>2. k \in 0..(Len(log) - 1) /\ log[k + 1].id = purge.first
    <3>1. \E i \in 1..Len(log) : log[i].id = purge.first
      BY <1>4, <2>1 DEF AccountInv, BoundaryInv
    <3> QED BY <1>1, <1>2, <2>1, <3>1, BoundaryRow
  <2>3. purge.newest = IF k = 0 THEN NoRow ELSE [id |-> log[k].id, hash |-> log[k].hash]
    <3>1. PICK m \in 0..(Len(log) - 1) :
            /\ log[m + 1].id = purge.first
            /\ purge.newest = IF m = 0 THEN NoRow
                              ELSE [id |-> log[m].id, hash |-> log[m].hash]
      BY <1>4, <2>1 DEF AccountInv, BoundaryInv
    <3>2. m = k
      <4>1. k + 1 \in 1..Len(log) /\ m + 1 \in 1..Len(log)
        BY <1>2, <2>2
      <4>2. log[k + 1].id \in Nat /\ log[m + 1].id = log[k + 1].id
        BY <1>2, <2>2, <3>1, <4>1, RowTypes
      <4>3. ~(m + 1 < k + 1) /\ ~(k + 1 < m + 1)
        BY <1>2, <4>1, <4>2 DEF SortedById
      <4> QED BY <4>3
    <3> QED BY <3>1, <3>2
  <2>4. CASE k = 0
    <3>1. Grown(log, log')
      <4>1. Len(log') = Len(log) /\ \A i \in 1..Len(log) : log'[i] = log[i]
        BY <1>2, <1>3, <2>4
      <4> QED BY <1>2, <4>1 DEF Grown
    <3>2. SameAnchor(CurrentState, CurrentState')
      BY <1>9, <2>3, <2>4
    <3>3. \A n \in notes : EntryIn(log', n) => EntryIn(log, n)
      BY <1>6 DEF EntryIn
    <3>4. Undisturbed
      BY <1>3, <1>5, <1>12, <3>1, <3>2, <3>3 DEF Undisturbed
    <3> QED BY <1>7, <1>8, <3>4, UndisturbedNotes DEF AccountInv
  <2>5. CASE k # 0
    <3>1. Cut(log, k, log') /\ k \in 1..Len(log)
      BY <1>2, <1>3, <1>6, <2>5 DEF Cut
    <3>2. /\ OldRowIn(log') => OldRowIn(log)
          /\ \A n \in notes : EntryIn(log', n) => EntryIn(log, n)
          /\ AnchorBelow(CurrentState, log) => AnchorBelow(CurrentState, log')
      BY <1>2, <3>1, CutRows
    <3>3. log[k].id \in Nat \ {0} /\ purge.newest.id = log[k].id
      BY <1>2, <2>3, <2>5, <3>1, RowTypes
    <3>4. purge.newest # NoRow
      BY <3>3 DEF NoRow, NoId
    <3>5. CASE purge.stateRow # 0 \/ chainStates = <<>>
      <4>1. /\ CurrentState'.anchorId = log[k].id
            /\ CurrentState'.cutoffId = CurrentState.cutoffId
        BY <1>9, <3>3, <3>4, <3>5
      <4>2. AnchorBelow(CurrentState', log')
        BY <1>2, <3>1, <4>1, CutAnchor
      <4>3. ASSUME NEW n \in notes, ~n.emptied, EntryIn(log', n)
            PROVE  Accounted(CurrentState', log', n.breaks, n.leaves)
        <5>1. AnchorBelow(CurrentState, log) /\ Accounted(CurrentState, log, n.breaks, n.leaves)
          BY <3>2, <4>3 DEF AccountInv, AnchorInv, NotesInv
        <5>2. n.breaks \in SUBSET BreakRow /\ n.leaves \in SUBSET LeafRow
          BY DEF JInv, ChecksTypeOK, Note
        <5>3. CurrentState \in ChainState
          BY <1>2, CurrentStateType
        <5> QED BY <1>2, <3>1, <4>1, <5>1, <5>2, <5>3, CutAccounted
      <4>4. DraftsInv'
        <5> SUFFICES ASSUME NEW c \in Checkers PROVE DraftStands(check[c], CurrentState', log')
          BY <1>5, <1>12 DEF DraftsInv
        <5> DEFINE entry == check[c]
        <5>1. DraftStands(entry, CurrentState, log) /\ entry \in Check
          BY DEF AccountInv, DraftsInv, JInv, ChecksTypeOK
        <5> HIDE DEF entry
        <5>2. /\ CurrentState.anchorId \in Nat /\ entry.state.anchorId \in Nat
              /\ CurrentState \in ChainState
          BY <1>2, <5>1, CurrentStateType DEF Check, ChainState
        <5>3. ASSUME OldRowIn(log'), Older(entry.state, CurrentState)
              PROVE  Older(entry.state, CurrentState')
          <6>1. CurrentState.anchorId < log[k].id
            BY <3>1, <3>2, <5>3 DEF AccountInv, AnchorInv, AnchorBelow
          <6> QED BY <3>3, <4>1, <5>2, <5>3, <6>1 DEF Older
        <5>4. /\ entry.result.races \in SUBSET BreakRow
              /\ DraftLeaves(entry) \in SUBSET LeafRow
          BY <5>1 DEF Check, Result, DraftLeaves
        <5>5. ASSUME AnchorBelow(CurrentState, log),
                     Accounted(CurrentState, log, entry.result.races, DraftLeaves(entry))
              PROVE  Accounted(CurrentState', log', entry.result.races, DraftLeaves(entry))
          BY <1>2, <3>1, <4>1, <5>2, <5>4, <5>5, CutAccounted
        <5>6. DraftStands(entry, CurrentState', log')
          BY <1>12, <3>2, <4>2, <5>1, <5>3, <5>5 DEF DraftStands
        <5> QED BY <5>6 DEF entry
      <4> QED BY <1>7, <1>8, <1>10, <4>2, <4>3, <4>4 DEF AccountInv, AnchorInv, NotesInv
    <3>6. CASE ~(purge.stateRow # 0 \/ chainStates = <<>>)
      <4>1. SameAnchor(CurrentState, CurrentState') /\ CurrentState.cutoffId = NoId
        BY <1>4, <1>9, <3>4, <3>6 DEF AccountInv, BoundaryInv
      <4>2. \A n \in notes : ~(~n.emptied /\ EntryIn(log', n))
        BY <3>2, <4>1 DEF AccountInv, NotesInv, Accounted
      <4>3. OldRowIn(log') => AnchorBelow(CurrentState', log')
        BY <3>2, <4>1 DEF AccountInv, AnchorInv, AnchorBelow, SameAnchor
      <4>4. ASSUME NEW c \in Checkers PROVE DraftStands(check'[c], CurrentState', log')
        <5> DEFINE entry == check[c]
        <5>1. DraftStands(entry, CurrentState, log) /\ check'[c] = entry
          BY <1>5, <1>12 DEF AccountInv, DraftsInv
        <5> HIDE DEF entry
        <5>2. DraftStands(entry, CurrentState', log')
          BY <3>2, <4>1, <5>1 DEF DraftStands, Accounted, Older, SameAnchor
        <5> QED BY <5>1, <5>2
      <4> QED BY <1>7, <1>8, <1>10, <4>2, <4>3, <4>4
              DEF AccountInv, AnchorInv, NotesInv, DraftsInv
    <3> QED BY <3>5, <3>6
  <2> QED BY <2>4, <2>5
<1> QED BY <1>11, <1>12

(***************************************************************************)
(* The checks.                                                             *)
(***************************************************************************)

\* What a step of checker c has to establish beside CheckFits.
LEMMA CheckAccount ==
    ASSUME JInv, AccountInv, NEW c \in Checkers, NEW entry,
           DraftStands(entry, CurrentState, log),
           check' = [check EXCEPT ![c] = entry], UNCHANGED <<vars, notes>>
    PROVE  AccountInv'
<1>1. /\ check'[c] = entry /\ \A d \in Checkers : d # c => check'[d] = check[d]
      /\ UNCHANGED <<log, chainStates, tx, purge, nextHash>> /\ CurrentState' = CurrentState
  BY DEF JInv, ChecksTypeOK, vars, CurrentState
<1>2. ValidInv' /\ FreshInv' /\ BoundaryInv' /\ AnchorInv' /\ NotesInv'
  BY <1>1 DEF AccountInv, ValidInv, FreshInv, BoundaryInv, AnchorInv, NotesInv
<1>3. DraftsInv'
  BY <1>1 DEF AccountInv, DraftsInv
<1> QED BY <1>2, <1>3 DEF AccountInv

\* A check that has just loaded the state row knows the anchor.
LEMMA FreshDraft ==
    ASSUME JInv, AccountInv, NEW entry, entry.state = CurrentState, ~Drafting(entry)
    PROVE  DraftStands(entry, CurrentState, log)
<1>1. CurrentState \in ChainState
  BY CurrentStateType DEF JInv
<1>2. CurrentState.anchorId \in Nat
  BY <1>1 DEF ChainState
<1>3. Older(CurrentState, CurrentState)
  BY <1>2 DEF Older, AccountInv, AnchorInv
<1> QED BY <1>3 DEF DraftStands

LEMMA CheckLoadAccount ==
    ASSUME JInv, AccountInv, NEW c \in Checkers, CheckLoad(c) PROVE AccountInv'
<1>1. PICK goal \in {"verify", "record"} :
        check' = [check EXCEPT ![c] = [IdleCheck EXCEPT
                    !.pc = "loaded", !.goal = goal,
                    !.found = chainStates # <<>>,
                    !.state = IF chainStates = <<>> THEN NewChainState
                              ELSE chainStates[1]]]
  BY DEF CheckLoad
<1> DEFINE entry == [IdleCheck EXCEPT !.pc = "loaded", !.goal = goal,
                        !.found = chainStates # <<>>,
                        !.state = IF chainStates = <<>> THEN NewChainState
                                  ELSE chainStates[1]]
<1>2. entry.pc = "loaded" /\ entry.state = CurrentState
  BY DEF IdleCheck, CurrentState
<1>3. check' = [check EXCEPT ![c] = entry]
  BY <1>1
<1> HIDE DEF entry
<1>4. DraftStands(entry, CurrentState, log)
  BY <1>2, FreshDraft DEF Drafting
<1> QED BY <1>3, <1>4, CheckAccount DEF CheckLoad

LEMMA CheckListAccount ==
    ASSUME JInv, AccountInv, NEW c \in Checkers, CheckList(c) PROVE AccountInv'
<1> DEFINE entry == [check[c] EXCEPT !.pc = "listed", !.recorded = RecordedIn(log)]
<1>1. check' = [check EXCEPT ![c] = entry] /\ check[c].pc = "loaded" /\ check[c] \in Check
  BY DEF CheckList, JInv, ChecksTypeOK
<1>2. entry.pc = "listed" /\ entry.state = check[c].state /\ entry.emptied = check[c].emptied
  BY <1>1 DEF Check
<1> HIDE DEF entry
<1>3. DraftStands(entry, CurrentState, log)
  BY <1>1, <1>2 DEF DraftStands, Drafting, AccountInv, DraftsInv
<1> QED BY <1>1, <1>3, CheckAccount DEF CheckList

LEMMA CheckReloadAccount ==
    ASSUME JInv, AccountInv, NEW c \in Checkers, CheckReload(c) PROVE AccountInv'
<1> DEFINE entry == [check[c] EXCEPT !.pc = "reloaded", !.found = chainStates # <<>>,
                                     !.state = CurrentState]
<1>1. check' = [check EXCEPT ![c] = entry] /\ check[c] \in Check
  BY DEF CheckReload, CurrentState, JInv, ChecksTypeOK
<1>2. entry.pc = "reloaded" /\ entry.state = CurrentState
  BY <1>1 DEF Check
<1> HIDE DEF entry
<1>3. DraftStands(entry, CurrentState, log)
  BY <1>2, FreshDraft DEF Drafting
<1> QED BY <1>1, <1>3, CheckAccount DEF CheckReload

LEMMA CheckFailAccount ==
    ASSUME JInv, AccountInv, NEW c \in Checkers, CheckFail(c) PROVE AccountInv'
BY CheckAccount DEF CheckFail, DraftStands, IdleCheck

\* The parent's id that a race break is recorded with is that of a row before it, or
\* that of an anchor, old or new.
LEMMA RaceParent ==
    ASSUME JInv, AccountInv, NEW state \in ChainState, Older(state, CurrentState),
           NEW recorded, NEW i \in 1..Len(log), RaceBreak(state, recorded, log, i),
           NEW b, b.parent = ParentId(state, log, i)
    PROVE  ParentStands(CurrentState, log, b, i)
<1> DEFINE ids == {p.id : p \in {q \in Earlier(state, log, i) : q.hash = log[i].prev}}
<1>1. log \in Seq(Row) /\ SortedById(log) /\ Len(log) \in Nat
  BY RowTypes DEF JInv, BaseInv, TypeOK
<1>2. /\ b.parent \in Nat /\ b.parent \in {NoId} \cup ids
      /\ \A x \in ids : x \in Nat /\ x <= b.parent
  BY <1>1, ParentIdType
<1>3. ASSUME NEW q \in Earlier(state, log, i)
      PROVE  \/ /\ q.id = state.anchorId /\ q.id # NoId
             \/ \E j \in 1..(i - 1) : log[j].hash = q.hash /\ log[j].id = q.id /\ q.id # NoId
  <2>1. CASE state.anchorHash # NoHash /\ q = [hash |-> state.anchorHash, id |-> state.anchorId]
    BY <2>1 DEF Older
  <2>2. CASE \E j \in 1..(i - 1) : q = [hash |-> log[j].hash, id |-> log[j].id]
    <3>1. PICK j \in 1..(i - 1) : q = [hash |-> log[j].hash, id |-> log[j].id]
      BY <2>2
    <3>2. j \in 1..Len(log)
      BY <1>1
    <3>3. log[j].id # NoId
      BY <1>1, <3>2, RowTypes DEF NoId
    <3> QED BY <3>1, <3>3
  <2> QED BY <2>1, <2>2 DEF Earlier
<1>4. PICK p \in Earlier(state, log, i) : p.hash = log[i].prev
  BY DEF RaceBreak, ParentKnown
<1>5. b.parent # NoId
  <2>1. p.id \in ids /\ p.id # NoId
    BY <1>3, <1>4
  <2>2. p.id \in Nat /\ p.id <= b.parent
    BY <1>2, <2>1
  <2> QED BY <1>2, <2>1, <2>2 DEF NoId
<1>6. PICK q \in Earlier(state, log, i) : q.hash = log[i].prev /\ q.id = b.parent
  BY <1>2, <1>5
<1>7. CASE q.id = state.anchorId
  <2>1. /\ CurrentState.anchorId \in Nat /\ state.anchorId \in Nat
        /\ state.anchorId <= CurrentState.anchorId
    BY CurrentStateType DEF JInv, ChainState, Older
  <2>2. /\ b.parent # NoId /\ b.parent <= CurrentState.anchorId
        /\ CurrentState.anchorId # NoId
    BY <1>2, <1>5, <1>6, <1>7, <2>1 DEF NoId
  <2> QED BY <2>2 DEF ParentStands
<1>8. CASE \E j \in 1..(i - 1) : log[j].hash = q.hash /\ log[j].id = q.id
  BY <1>6, <1>8 DEF ParentStands
<1> QED BY <1>3, <1>6, <1>7, <1>8

\* The race breaks of a walk are there, whatever sweeps have moved the anchor meanwhile.
LEMMA WalkAccounted ==
    ASSUME JInv, AccountInv, up, NEW state \in ChainState, Left(state.anchorHash),
           OldRowIn(log) => Older(state, CurrentState), NEW recorded,
           Walk(state, recorded, log).races # {}
    PROVE  /\ OldRowIn(log)
           /\ Accounted(CurrentState, log, Walk(state, recorded, log).races, {})
<1> DEFINE races == Walk(state, recorded, log).races
<1>1. ASSUME NEW b \in races
      PROVE  \E i \in 1..Len(log) :
                /\ RaceBreak(state, recorded, log, i) /\ log[i].hash \in GenuineForks
                /\ b = [id |-> log[i].id, hash |-> log[i].hash,
                        parent |-> ParentId(state, log, i)]
  <2>1. PICK i \in 1..Len(log) :
            /\ RaceBreak(state, recorded, log, i)
            /\ b = [id |-> log[i].id, hash |-> log[i].hash, parent |-> ParentId(state, log, i)]
    BY <1>1 DEF Walk
  <2> QED BY <2>1, RacesAreForks DEF JInv
<1> HIDE DEF races
<1>2. PICK b \in races : TRUE
  BY DEF races
<1>3. PICK m \in 1..Len(log) :
        RaceBreak(state, recorded, log, m) /\ log[m].hash \in GenuineForks
  BY <1>1, <1>2
<1>4. OldRowIn(log)
  BY <1>3, ForksAreOld DEF OldRowIn
<1>5. CurrentState.cutoffId # NoId
  BY <1>3, <1>4 DEF RaceBreak, Older
<1>7. ASSUME NEW x \in races
      PROVE  /\ Stands(CurrentState, log, x)
             /\ \A i \in 1..Len(log) : log[i].hash = x.hash =>
                    log[i].id = x.id /\ ParentStands(CurrentState, log, x, i)
  <2>1. PICK k \in 1..Len(log) :
            /\ RaceBreak(state, recorded, log, k)
            /\ x = [id |-> log[k].id, hash |-> log[k].hash, parent |-> ParentId(state, log, k)]
    BY <1>1
  <2>2. x.id = log[k].id /\ x.hash = log[k].hash /\ x.parent = ParentId(state, log, k)
    BY <2>1
  <2>3. ParentStands(CurrentState, log, x, k)
    BY <1>4, <2>1, <2>2, RaceParent
  <2>4. \A i \in 1..Len(log) : log[i].hash = x.hash => i = k
    BY <2>2 DEF JInv, RowsInv, HashesInv, BaseInv, HashedInv
  <2> QED BY <2>2, <2>3, <2>4 DEF Stands
<1>8. Accounted(CurrentState, log, races, {})
  BY <1>5, <1>7 DEF Accounted
<1> QED BY <1>4, <1>8 DEF races

LEMMA CheckWalkAccount ==
    ASSUME JInv, AccountInv, NEW c \in Checkers, CheckWalk(c) PROVE AccountInv'
<1> DEFINE result == Walk(check[c].state, check[c].recorded, log)
           walked == [check[c] EXCEPT !.pc = "walked", !.recorded = NoRecord]
           verified == [walked EXCEPT !.result = [result EXCEPT !.races = {}]]
           judged == [walked EXCEPT !.result = result]
<1>1. /\ check[c].pc = "listed" /\ check[c] \in Check /\ UNCHANGED <<vars, notes>>
      /\ \/ check' = [check EXCEPT ![c] = verified] /\ check[c].goal = "verify"
         \/ check' = [check EXCEPT ![c] = IdleCheck]
         \/ check' = [check EXCEPT ![c] = judged] /\ result.races # {}
  BY DEF CheckWalk, JInv, ChecksTypeOK
<1>2. up /\ Left(check[c].state.anchorHash) /\ check[c].state \in ChainState
  BY <1>1 DEF JInv, AnchorsInv, ChecksInv, Check
<1>3. ~check[c].emptied /\ OldRowIn(log) => Older(check[c].state, CurrentState)
  BY <1>1 DEF AccountInv, DraftsInv, DraftStands
<1>4. result.races # {} /\ ~check[c].emptied =>
        OldRowIn(log) /\ Accounted(CurrentState, log, result.races, {})
  BY <1>2, <1>3, WalkAccounted
<1> HIDE DEF result
<1>5. /\ verified.goal = check[c].goal /\ verified.emptied = check[c].emptied
      /\ verified.state = check[c].state /\ verified.pc = "walked"
  BY <1>1 DEF Check
<1>6. /\ judged.emptied = check[c].emptied /\ judged.state = check[c].state
      /\ judged.result = result /\ judged.pc = "walked"
  BY <1>1 DEF Check
<1> HIDE DEF verified, judged
<1>7. CASE check' = [check EXCEPT ![c] = verified] /\ check[c].goal = "verify"
  <2>1. DraftStands(verified, CurrentState, log)
    BY <1>3, <1>5, <1>7 DEF DraftStands, Drafting
  <2> QED BY <1>1, <1>7, <2>1, CheckAccount
<1>8. CASE check' = [check EXCEPT ![c] = IdleCheck]
  <2>1. DraftStands(IdleCheck, CurrentState, log)
    BY DEF DraftStands, IdleCheck
  <2> QED BY <1>1, <1>8, <2>1, CheckAccount
<1>9. CASE check' = [check EXCEPT ![c] = judged] /\ result.races # {}
  <2>1. OldRowIn(log) => Len(log) # 0 /\ AnchorBelow(CurrentState, log)
    BY DEF OldRowIn, AccountInv, AnchorInv
  <2>2. DraftLeaves(judged) = {}
    BY <1>6 DEF DraftLeaves
  <2>3. DraftStands(judged, CurrentState, log)
    BY <1>3, <1>4, <1>6, <1>9, <2>1, <2>2 DEF DraftStands
  <2> QED BY <1>1, <1>9, <2>3, CheckAccount
<1> QED BY <1>1, <1>7, <1>8, <1>9

\* The leaves of a recording are rows of the log.
LEMMA CheckLeavesAccount ==
    ASSUME JInv, AccountInv, NEW c \in Checkers, CheckLeaves(c) PROVE AccountInv'
<1> DEFINE leaves == LeafRows(check[c].state, log, {b.id : b \in check[c].result.races})
           entry == [check[c] EXCEPT !.pc = "drafted", !.leaves = leaves, !.at = now]
<1>1. /\ check' = [check EXCEPT ![c] = entry] /\ check[c] \in Check /\ UNCHANGED <<vars, notes>>
      /\ check[c].pc = "walked" /\ check[c].goal = "record"
  BY DEF CheckLeaves, JInv, ChecksTypeOK
<1>2. ASSUME NEW x \in leaves PROVE Stands(CurrentState, log, x)
  <2>1. PICK j \in 1..(Len(log) - 1) : x = [id |-> log[j].id, hash |-> log[j].hash]
    BY <1>2 DEF LeafRows
  <2>2. j \in 1..Len(log)
    BY RowTypes DEF JInv, BaseInv, TypeOK
  <2> QED BY <2>1, <2>2 DEF Stands
<1> HIDE DEF leaves
<1>3. /\ entry.pc = "drafted" /\ entry.emptied = check[c].emptied /\ entry.state = check[c].state
      /\ entry.result = check[c].result /\ entry.leaves = leaves
  BY <1>1 DEF Check
<1> HIDE DEF entry
<1>4. DraftStands(check[c], CurrentState, log) /\ Drafting(check[c])
  BY <1>1 DEF AccountInv, DraftsInv, Drafting
<1>5. DraftStands(entry, CurrentState, log)
  BY <1>1, <1>2, <1>3, <1>4 DEF DraftStands, Accounted, DraftLeaves
<1> QED BY <1>1, <1>5, CheckAccount

\* A status is written beside the anchor.
LEMMA StatusAnchor ==
    ASSUME BaseInv, NEW loaded \in ChainState, NEW result \in Result,
           chainStates' = [chainStates EXCEPT
                              ![1] = StatusWritten(chainStates[1], loaded, result)]
    PROVE  SameAnchor(CurrentState, CurrentState')
<1> DEFINE row == StatusWritten(chainStates[1], loaded, result)
<1>1. chainStates \in Seq(ChainState) /\ chainStates' = [chainStates EXCEPT ![1] = row]
  BY DEF BaseInv, TypeOK
<1>2. chainStates' = <<>> <=> chainStates = <<>>
  BY <1>1, StatusWrittenStates
<1>3. CASE chainStates = <<>>
  BY <1>2, <1>3 DEF SameAnchor, CurrentState
<1>4. CASE chainStates # <<>>
  <2>1. 1 \in 1..Len(chainStates) /\ chainStates[1] \in ChainState
    BY <1>1, <1>4, EmptySeq, LenProperties, ElementOfSeq
  <2>2. /\ row \in ChainState /\ row.anchorId = chainStates[1].anchorId
        /\ row.anchorHash = chainStates[1].anchorHash /\ row.cutoffId = chainStates[1].cutoffId
    BY <2>1, StatusWrittenRow
  <2> HIDE DEF row
  <2>3. chainStates'[1] = row
    BY <1>1, <2>1, <2>2, ExceptSeq
  <2> QED BY <1>2, <1>4, <2>2, <2>3 DEF SameAnchor, CurrentState
<1> QED BY <1>3, <1>4

LEMMA CheckCommitAnchor ==
    ASSUME JInv, NEW c \in Checkers, CheckCommit(c) PROVE SameAnchor(CurrentState, CurrentState')
<1>1. /\ check[c].state \in ChainState /\ check[c].result \in Result
      /\ chainStates \in Seq(ChainState) /\ BaseInv
  BY DEF CheckCommit, JInv, ChecksTypeOK, Check, BaseInv, TypeOK
<1>2. CASE check[c].found
  BY <1>1, <1>2, StatusAnchor DEF CheckCommit
<1>3. CASE ~check[c].found
  <2> DEFINE new == StatusWritten(NewChainState, NewChainState, check[c].result)
  <2>1. chainStates' = Append(chainStates, new)
    BY <1>3 DEF CheckCommit
  <2>2. NewChainState \in ChainState
    BY DEF NewChainState, ChainState, Statuses, NoId, NoHash
  <2>3. new \in ChainState /\ SameAnchor(NewChainState, new)
    BY <1>1, <2>2, StatusWrittenRow DEF SameAnchor
  <2> HIDE DEF new
  <2>4. /\ chainStates' # <<>>
        /\ \A i \in 1..Len(chainStates) : chainStates'[i] = chainStates[i]
        /\ chainStates'[Len(chainStates) + 1] = new
    BY <1>1, <2>1, <2>3, AppendProperties
  <2>5. CASE chainStates = <<>>
    <3>1. CurrentState = NewChainState /\ CurrentState' = new
      BY <2>4, <2>5, EmptySeq DEF CurrentState
    <3> QED BY <2>3, <3>1
  <2>6. CASE chainStates # <<>>
    <3>1. 1 \in 1..Len(chainStates)
      BY <1>1, <2>6, EmptySeq, LenProperties
    <3>2. CurrentState' = CurrentState
      BY <2>4, <2>6, <3>1 DEF CurrentState
    <3> QED BY <3>2 DEF SameAnchor
  <2> QED BY <2>5, <2>6
<1> QED BY <1>2, <1>3

LEMMA RecordCommitAnchor ==
    ASSUME JInv, NEW c \in Checkers, RecordCommit(c) PROVE SameAnchor(CurrentState, CurrentState')
<1> DEFINE entry == [at |-> check[c].at, prev |-> TipRecorded(c), hash |-> nextHash]
           pending == <<entry>>
           note == [entry |-> nextHash, breaks |-> check[c].result.races,
                    leaves |-> check[c].leaves, emptied |-> check[c].emptied]
           listed == RecordedIn(log)
           recorded == [breaks |-> listed.breaks \cup note.breaks,
                        leaves |-> listed.leaves \cup note.leaves]
           result == Walk(check[c].state, recorded, log')
<1>1. /\ log' = Inserted(log, pending)
      /\ chainStates' = [chainStates EXCEPT
                            ![1] = StatusWritten(chainStates[1], check[c].state, result)]
  BY DEF RecordCommit
<1>2. /\ check[c] \in Check /\ check[c].state \in ChainState
      /\ log \in Seq(Row) /\ SortedById(log) /\ nextHash \in Nat /\ BaseInv /\ up
  BY DEF JInv, ChecksTypeOK, Check, BaseInv, TypeOK, ChecksInv, RecordCommit
<1>3. pending \in Seq(PendingRow)
  <2>1. entry \in PendingRow
    BY <1>2, TipRecordedType DEF PendingRow, Check
  <2> HIDE DEF entry
  <2> QED BY <2>1
<1>4. note.breaks \subseteq BreakRow /\ note.leaves \subseteq LeafRow
  BY <1>2 DEF Check, Result
<1>5. recorded \in Recorded
  <2>1. listed \in Recorded
    BY RecordedInType DEF JInv
  <2> HIDE DEF listed
  <2> QED BY <1>4, <2>1 DEF Recorded
<1> HIDE DEF pending, recorded
<1>6. log' \in Seq(Row) /\ SortedById(log')
  BY <1>1, <1>2, <1>3, InsertedRows, InsertedSorted
<1>7. result \in Result
  BY <1>2, <1>5, <1>6, WalkType
<1> HIDE DEF result
<1> QED BY <1>1, <1>2, <1>7, StatusAnchor

LEMMA CheckCommitAccount ==
    ASSUME JInv, AccountInv, NEW c \in Checkers, CheckCommit(c) PROVE AccountInv'
<1>1. /\ check' = [check EXCEPT ![c] = IdleCheck] /\ notes' = notes
      /\ UNCHANGED <<log, tx, purge, nextHash>> /\ BaseInv
      /\ check[c].state \in ChainState /\ check[c].result \in Result
      /\ chainStates \in Seq(ChainState)
  BY DEF CheckCommit, JInv, ChecksTypeOK, Check, BaseInv, TypeOK
<1>2. SameAnchor(CurrentState, CurrentState')
  BY CheckCommitAnchor
<1>3. \A d \in Checkers : check'[d] = check[d] \/ check'[d].pc = "idle"
  BY <1>1 DEF JInv, ChecksTypeOK, IdleCheck
<1>4. Undisturbed
  <2>1. log \in Seq(Row) /\ Len(log) \in Nat
    BY RowTypes DEF JInv, BaseInv, TypeOK
  <2>2. Grown(log, log)
    BY <2>1 DEF Grown
  <2> QED BY <1>1, <1>2, <1>3, <2>1, <2>2 DEF Undisturbed
<1>5. FreshInv'
  BY <1>1, FreshStays
<1> QED BY <1>1, <1>4, <1>5, UndisturbedNotes, BoundaryStays DEF AccountInv

LEMMA RecordCommitAccount ==
    ASSUME JInv, AccountInv, NEW c \in Checkers, RecordCommit(c) PROVE AccountInv'
<1> DEFINE entry == [at |-> check[c].at, prev |-> TipRecorded(c), hash |-> nextHash]
           pending == <<entry>>
           note == [entry |-> nextHash, breaks |-> check[c].result.races,
                    leaves |-> check[c].leaves, emptied |-> check[c].emptied]
<1>1. /\ check[c].pc = "drafted" /\ check[c].goal = "record" /\ writeLock = NoWriter
      /\ check' = [check EXCEPT ![c] = IdleCheck] /\ notes' = notes \cup {note}
      /\ log' = Inserted(log, pending)
      /\ nextHash' = nextHash + 1
      /\ UNCHANGED <<tx, purge, up>>
  BY DEF RecordCommit
<1>2. /\ up /\ check[c] \in Check /\ check[c].state \in ChainState
      /\ log \in Seq(Row) /\ SortedById(log) /\ nextHash \in Nat
      /\ chainStates \in Seq(ChainState) /\ BaseInv
  BY <1>1 DEF JInv, ChecksInv, ChecksTypeOK, Check, BaseInv, TypeOK
<1>3. TipRecorded(c) \in Nat
  BY <1>2, TipRecordedType
<1>4. pending \in Seq(PendingRow) /\ Len(pending) = 1 /\ pending[1].hash = nextHash
  <2>1. entry \in PendingRow /\ entry.hash = nextHash
    BY <1>2, <1>3 DEF PendingRow, Check
  <2> HIDE DEF entry
  <2> QED BY <2>1
<1>5. /\ note \in Note /\ note.entry = nextHash /\ note.emptied = check[c].emptied
      /\ note.breaks = check[c].result.races /\ note.leaves = check[c].leaves
      /\ \A b \in note.breaks : b.hash \in GenuineForks
  BY <1>2 DEF Note, Check, Result, JInv, ChecksInv
<1> HIDE DEF entry, pending, note
<1>7. log' \in Seq(Row) /\ SortedById(log')
  BY <1>1, <1>2, <1>4, InsertedRows, InsertedSorted
<1>9. SameAnchor(CurrentState, CurrentState')
  BY RecordCommitAnchor
<1>10. nextHash >= FirstHash /\ \A n \in notes : n.entry < nextHash /\ n.entry \in Nat
  BY DEF AccountInv, FreshInv, JInv, ChecksTypeOK, Note
<1>11. \A k \in 1..Len(pending) : pending[k].hash = nextHash
  BY <1>4
<1>12. \A d \in Checkers : check'[d] = check[d] \/ check'[d].pc = "idle"
  BY <1>1 DEF JInv, ChecksTypeOK, IdleCheck
<1>13. /\ Undisturbed
       /\ (\A i \in 1..Len(log) : log[i].hash # NoHash) =>
            \A i \in 1..Len(log') : log'[i].hash # NoHash
  BY <1>1, <1>4, <1>9, <1>10, <1>11, <1>12, AppendAccount
<1>14. /\ ValidInv' /\ DraftsInv'
       /\ CurrentState'.anchorHash # NoHash => CurrentState'.anchorId # NoId
       /\ OldRowIn(log') => AnchorBelow(CurrentState', log')
       /\ \A n \in notes : ~n.emptied /\ EntryIn(log', n) =>
            /\ AnchorBelow(CurrentState', log')
            /\ Accounted(CurrentState', log', n.breaks, n.leaves)
  BY <1>13, UndisturbedKeeps
<1>15. ~note.emptied => /\ AnchorBelow(CurrentState', log')
                      /\ Accounted(CurrentState', log', note.breaks, note.leaves)
  <2> SUFFICES ASSUME ~note.emptied
               PROVE  /\ AnchorBelow(CurrentState', log')
                      /\ Accounted(CurrentState', log', note.breaks, note.leaves)
    OBVIOUS
  <2>1. /\ Len(log) # 0 /\ AnchorBelow(CurrentState, log)
        /\ Accounted(CurrentState, log, note.breaks, note.leaves)
    BY <1>1, <1>5 DEF AccountInv, DraftsInv, DraftStands, Drafting, DraftLeaves
  <2>2. Grown(log, log')
    BY <1>13 DEF Undisturbed
  <2>3. AnchorBelow(CurrentState', log')
    BY <1>2, <1>7, <1>9, <2>1, <2>2, CurrentStateType, GrownAnchor
  <2>4. \A b \in note.breaks : b.hash < FirstHash
    BY <1>5, ForksAreOld
  <2> QED BY <1>2, <1>7, <1>9, <2>1, <2>2, <2>3, <2>4, GrownAccounted
<1>16. AnchorInv' /\ NotesInv'
  BY <1>1, <1>14, <1>15 DEF AnchorInv, NotesInv
<1>17. FreshInv'
  <2>1. nextHash' >= FirstHash /\ \A n \in notes' : n.entry < nextHash'
    <3>1. FirstHash \in Nat
      BY BoundsAssumption
    <3> QED BY <1>1, <1>2, <1>5, <1>10, <3>1
  <2>2. \A i \in 1..Len(log') : log'[i].hash # NoHash
    BY <1>2, <1>13 DEF BaseInv, HashedInv
  <2>3. \A w \in Writers : Len(tx'[w].rows) = 0
    BY <1>1, <1>2, NoPending
  <2> QED BY <2>1, <2>2, <2>3 DEF FreshInv
<1> QED BY <1>1, <1>13, <1>14, <1>16, <1>17, BoundaryStays DEF AccountInv

(***************************************************************************)
(* The untouched log.                                                      *)
(***************************************************************************)

\* The steps of AuditChain beside which the checks stand still.
LEMMA ChainAccount ==
    ASSUME JInv, AccountInv, UNCHANGED <<check, notes>>,
           \/ \E w \in Writers : WriterStep(w)
           \/ PurgeScan \/ PurgePickAnchor \/ PurgeFail \/ Boot \/ Tick
    PROVE  AccountInv'
<1>1. ASSUME NEW w \in Writers, WriterStep(w) PROVE AccountInv'
  <2>1. CASE FlushEarlier(w) \/ BuildEntry(w) \/ TakeWriteLock(w) \/ Rollback(w)
    <3>1. /\ log' = log /\ nextHash' = nextHash /\ purge' = purge
          /\ chainStates' = chainStates
          /\ \A v \in Writers : tx'[v].rows = tx[v].rows \/ tx'[v].rows = <<>>
      BY <2>1, WriterQuiet DEF JInv
    <3> QED BY <3>1, QuietAccount
  <2> QED BY <1>1, <2>1, ChainNewEntryAccount, CommitAccount DEF WriterStep
<1>2. CASE PurgeFail \/ Tick
  <2>1. /\ log' = log /\ nextHash' = nextHash /\ tx' = tx /\ chainStates' = chainStates
        /\ purge' = purge \/ purge'.pc = "idle"
    BY <1>2 DEF PurgeFail, Tick, IdlePurge
  <2> QED BY <2>1, QuietAccount
<1> QED BY <1>1, <1>2, PurgeScanAccount, PurgePickAnchorAccount, BootAccount

\* In a history, only the forked rows do not chain from the row before.
LEMMA InitLinks == ASSUME IInit PROVE LinkedInv
<1>1. PICK h \in Histories : log = h.log /\ chainStates = h.chainStates
  BY DEF IInit, Init
<1>2. ASSUME NEW i \in 1..Len(log), log[i].prev # ExpectedPrev(log, chainStates, i)
      PROVE  log[i].hash \in GenuineForks
  BY <1>1, <1>2 DEF GenuineForks
<1> QED BY <1>2 DEF LinkedInv, LinkedRow

\* Rows keep their links while the log and the anchor stay.
LEMMA QuietLinks ==
    ASSUME LinkedInv, log' = log, AnchorHash(chainStates') = AnchorHash(chainStates),
           notes \subseteq notes', OneStateRow' => OneStateRow
    PROVE  LinkedInv'
BY DEF LinkedInv, LinkedRow, Astray, ExpectedPrev

\* Rows that are appended are linked; the first of an empty log is shown to be.
LEMMA AppendLinks ==
    ASSUME BaseInv, LinkedInv, NEW pending, Extended(pending),
           AnchorHash(chainStates') = AnchorHash(chainStates),
           notes \subseteq notes', OneStateRow' => OneStateRow,
           log = <<>> /\ log' # <<>> => LinkedRow(log, 1)'
    PROVE  LinkedInv'
<1> SUFFICES ASSUME OneStateRow, NEW i \in 1..Len(log') PROVE LinkedRow(log, i)'
  BY DEF LinkedInv
<1>1. /\ log' \in Seq(Row) /\ Len(log) \in Nat /\ log \in Seq(Row)
      /\ \A j \in 1..Len(log) : log'[j] = log[j]
      /\ i > Len(log) /\ i # 1 => log'[i].prev = log'[i - 1].hash
  BY ExtendedRow DEF BaseInv, TypeOK
<1>2. CASE i <= Len(log)
  <2>1. i \in 1..Len(log) /\ (i # 1 => i - 1 \in 1..Len(log))
    BY <1>1, <1>2
  <2>2. LinkedRow(log, i)
    BY <2>1 DEF LinkedInv
  <2>3. log'[i] = log[i] /\ (i # 1 => log'[i - 1] = log[i - 1])
    BY <1>1, <2>1
  <2> QED BY <2>2, <2>3 DEF LinkedRow, Astray, ExpectedPrev
<1>3. CASE i > Len(log) /\ i # 1
  BY <1>1, <1>3 DEF LinkedRow, ExpectedPrev
<1>4. CASE i > Len(log) /\ i = 1
  <2>1. log = <<>> /\ log' # <<>>
    BY <1>1, <1>4, EmptySeq
  <2> QED BY <1>4, <2>1
<1> QED BY <1>1, <1>2, <1>3, <1>4

LEMMA CommitLinks ==
    ASSUME JInv, LinkedInv, NEW w \in Writers, Commit(w), notes' = notes
    PROVE  LinkedInv'
<1> DEFINE pending == tx[w].rows
<1>1. Extended(pending) /\ chainStates' = chainStates
  BY CommitExtends DEF JInv, Commit
<1>2. /\ log' = Inserted(log, pending) /\ pending \in Seq(PendingRow) /\ Len(pending) \in Nat
      /\ \A k \in 1..Len(pending) :
            k = 1 => pending[k].prev = CurrentChainTip(log, chainStates)
  BY LenProperties DEF Commit, JInv, BaseInv, TypeOK, PendingInv
<1> HIDE DEF pending
<1>3. ASSUME log = <<>>, log' # <<>> PROVE LinkedRow(log, 1)'
  <2>1. /\ log \in Seq(Row) /\ Len(log) = 0 /\ log' \in Seq(Row)
        /\ Len(log') = Len(log) + Len(pending)
    BY <1>1, <1>3, EmptySeq, ExtendedRow DEF JInv, BaseInv, TypeOK
  <2>2. 1 \in 1..Len(pending) /\ 1 \in 1..(Len(log) + Len(pending)) /\ 1 > Len(log)
    BY <1>2, <1>3, <2>1, EmptySeq
  <2>3. Inserted(log, pending)[1].prev = pending[1].prev
    BY <1>2, <2>1, <2>2 DEF Inserted
  <2>4. pending[1].prev = AnchorHash(chainStates)
    BY <1>2, <1>3, <2>2 DEF CurrentChainTip
  <2> QED BY <1>1, <1>2, <2>3, <2>4 DEF LinkedRow, ExpectedPrev
<1> QED BY <1>1, <1>3, AppendLinks DEF JInv, OneStateRow

\* The backfill links all rows, or has nothing to do.
LEMMA BootLinks ==
    ASSUME JInv, LinkedInv, Boot, notes' = notes
    PROVE  LinkedInv'
<1>1. log' = Backfilled /\ chainStates' = chainStates
  BY DEF Boot
<1>2. CASE Unhashed = {}
  <2>1. log' = log
    BY <1>1, <1>2, BackfilledRows DEF JInv, BaseInv
  <2> QED BY <1>1, <2>1, QuietLinks DEF OneStateRow
<1>3. CASE Unhashed # {}
  <2>1. /\ Len(log') = Len(log) /\ Len(log) \in Nat /\ nextHash \in Nat
        /\ \A i \in 1..Len(log) :
            log'[i] = [log[i] EXCEPT
                        !.prev = IF i = 1 THEN AnchorHash(chainStates)
                                 ELSE nextHash + (i - 1) - 1,
                        !.hash = nextHash + i - 1,
                        !.valid = TRUE]
    BY <1>1, <1>3, BackfilledRows, LenProperties DEF JInv, BaseInv, TypeOK
  <2>2. ASSUME NEW i \in 1..Len(log)
        PROVE  /\ log'[i].prev = IF i = 1 THEN AnchorHash(chainStates)
                                 ELSE nextHash + (i - 1) - 1
               /\ log'[i].hash = nextHash + i - 1
    <3>1. log[i] \in Row
      BY ElementOfSeq DEF JInv, BaseInv, TypeOK
    <3> DEFINE p == IF i = 1 THEN AnchorHash(chainStates) ELSE nextHash + (i - 1) - 1
               h == nextHash + i - 1
    <3>2. log'[i] = [log[i] EXCEPT !.prev = p, !.hash = h, !.valid = TRUE]
      BY <2>1
    <3> HIDE DEF p, h
    <3>3. log'[i].prev = p /\ log'[i].hash = h
      BY <3>1, <3>2 DEF Row
    <3> QED BY <3>3 DEF p, h
  <2> SUFFICES ASSUME NEW i \in 1..Len(log)
               PROVE  log'[i].prev = IF i = 1 THEN AnchorHash(chainStates)
                                     ELSE log'[i - 1].hash
    BY <1>1, <2>1 DEF LinkedInv, LinkedRow, ExpectedPrev
  <2>3. i # 1 => i - 1 \in 1..Len(log)
    <3>1. Len(log) \in Nat
      BY <2>1
    <3> QED BY <3>1
  <2>4. i # 1 => log'[i - 1].hash = nextHash + (i - 1) - 1
    BY <2>2, <2>3
  <2> QED BY <2>2, <2>4
<1> QED BY <1>2, <1>3

\* The sweep's anchor is what the first row that is left chains from.
LEMMA PurgeDeleteLinks ==
    ASSUME JInv, AccountInv, LinkedInv, PurgeDelete, notes' = notes
    PROVE  LinkedInv'
<1> DEFINE n == Len(log)
<1>1. PICK k \in 0..n : MatchesPrefix(log, purge.first, k) /\ log' = SubSeq(log, k + 1, n)
  BY DEF PurgeDelete
<1>2. log \in Seq(Row) /\ n \in Nat /\ BaseInv /\ BoundaryInv
  BY LenProperties DEF JInv, BaseInv, TypeOK, AccountInv
<1>3. /\ log' \in Seq(Row) /\ Len(log') = n - k
      /\ \A i \in 1..(n - k) : log'[i] = log[k + i]
  BY <1>1, <1>2, SuffixRows
<1>4. purge.pc = "picked" /\ chainStates' = AnchorWritten(chainStates)
  BY DEF PurgeDelete
<1>5. OneStateRow' => /\ OneStateRow
                      /\ purge.newest # NoRow => purge.stateRow # 0 \/ chainStates = <<>>
  BY <1>2, <1>4, AnchorWrittenLength DEF OneStateRow
<1>6. AnchorHash(chainStates') =
            IF purge.newest # NoRow /\ (purge.stateRow # 0 \/ chainStates = <<>>)
            THEN purge.newest.hash ELSE AnchorHash(chainStates)
  BY <1>2, <1>4, AnchorWrittenRow DEF BaseInv
<1> HIDE DEF n
<1> SUFFICES ASSUME OneStateRow', NEW i \in 1..(n - k) PROVE LinkedRow(log, i)'
  BY <1>3 DEF LinkedInv
<1>7. k + i \in 1..n /\ log'[i] = log[k + i] /\ LinkedRow(log, k + i)
  <2>1. k + i \in 1..n
    BY <1>2
  <2> QED BY <1>3, <1>5, <2>1 DEF LinkedInv, n
<1> SUFFICES ASSUME log[k + i].prev = ExpectedPrev(log, chainStates, k + i)
             PROVE  log'[i].prev = IF i = 1 THEN AnchorHash(chainStates')
                                   ELSE log'[i - 1].hash
  BY <1>7 DEF LinkedRow, Astray, ExpectedPrev
<1>8. CASE i # 1
  <2>1. i - 1 \in 1..(n - k) /\ k + (i - 1) = (k + i) - 1 /\ k + i # 1
    BY <1>2, <1>8
  <2>2. log'[i - 1] = log[k + (i - 1)]
    BY <1>3, <2>1
  <2> QED BY <1>7, <1>8, <2>1, <2>2 DEF ExpectedPrev
<1>9. CASE i = 1
  <2>1. purge.first # NoId
    <3>1. purge.first = NoId => k + i <= k
      BY <1>1, <1>7 DEF MatchesPrefix, InPrefix, n
    <3> QED BY <1>2, <1>9, <3>1
  <2>2. k \in 0..(n - 1) /\ log[k + 1].id = purge.first
    <3>1. \E j \in 1..n : log[j].id = purge.first
      BY <1>2, <1>4, <2>1 DEF BoundaryInv, n
    <3> QED BY <1>1, <1>2, <2>1, <3>1, BoundaryRow DEF n
  <2>3. PICK m \in 0..(n - 1) :
            /\ log[m + 1].id = purge.first
            /\ purge.newest = IF m = 0 THEN NoRow
                              ELSE [id |-> log[m].id, hash |-> log[m].hash]
    BY <1>2, <1>4, <2>1 DEF BoundaryInv, n
  <2>4. m = k
    <3>1. m + 1 \in 1..n /\ k + 1 \in 1..n
      BY <1>2, <2>2, <2>3
    <3>2. log[m + 1].id \in Nat /\ log[k + 1].id \in Nat
      BY <1>2, <3>1, RowTypes DEF n
    <3>3. \A a, b \in 1..n : a < b => log[a].id < log[b].id
      BY <1>2 DEF BaseInv, SortedById, n
    <3>4. ~(m + 1 < k + 1)
      <4>1. m + 1 < k + 1 => log[m + 1].id < log[k + 1].id
        BY <3>1, <3>3
      <4> QED BY <2>2, <2>3, <3>2, <4>1
    <3>5. ~(k + 1 < m + 1)
      <4>1. k + 1 < m + 1 => log[k + 1].id < log[m + 1].id
        BY <3>1, <3>3
      <4> QED BY <2>2, <2>3, <3>2, <4>1
    <3> QED BY <1>2, <3>4, <3>5
  <2>5. CASE k = 0
    BY <1>6, <1>7, <1>9, <2>3, <2>4, <2>5 DEF ExpectedPrev
  <2>6. CASE k # 0
    <3>1. k \in 1..n /\ k + 1 # 1 /\ (k + 1) - 1 = k
      BY <1>2, <2>2, <2>6
    <3>2. log[k].id \in Nat \ {0}
      BY <1>2, <3>1, RowTypes DEF n
    <3>3. purge.newest # NoRow /\ purge.newest.hash = log[k].hash
      BY <2>3, <2>4, <2>6, <3>2 DEF NoRow, NoId
    <3> QED BY <1>5, <1>6, <1>7, <1>9, <3>1, <3>3 DEF ExpectedPrev
  <2> QED BY <2>5, <2>6
<1> QED BY <1>8, <1>9

\* A recording's entry is linked, unless a sweep emptied the log under the recording.
LEMMA RecordCommitLinks ==
    ASSUME JInv, AccountInv, LinkedInv, NEW c \in Checkers, RecordCommit(c)
    PROVE  LinkedInv'
<1> DEFINE entry == [at |-> check[c].at, prev |-> TipRecorded(c), hash |-> nextHash]
           pending == <<entry>>
           note == [entry |-> nextHash, breaks |-> check[c].result.races,
                    leaves |-> check[c].leaves, emptied |-> check[c].emptied]
<1>1. /\ Extended(pending) /\ log' = Inserted(log, pending) /\ notes' = notes \cup {note}
      /\ check[c].pc = "drafted"
      /\ AnchorHash(chainStates') = AnchorHash(chainStates)
      /\ OneStateRow' => OneStateRow
  BY RecordCommitExtends DEF RecordCommit, OneStateRow
<1>2. entry.hash = nextHash /\ note.entry = nextHash /\ note.emptied = check[c].emptied
  OBVIOUS
<1>3. pending \in Seq(PendingRow) /\ Len(pending) = 1 /\ pending[1] = entry
  <2>1. pending \in Seq(PendingRow)
    BY <1>1 DEF Extended
  <2> HIDE DEF entry
  <2> QED BY <2>1
<1> HIDE DEF entry, pending, note
<1>4. ASSUME log = <<>>, log' # <<>> PROVE LinkedRow(log, 1)'
  <2>1. /\ log \in Seq(Row) /\ Len(log) = 0
    BY <1>4, EmptySeq DEF JInv, BaseInv, TypeOK
  <2>2. Inserted(log, pending)[1].hash = pending[1].hash
    <3>1. 1 \in 1..(Len(log) + Len(pending)) /\ 1 > Len(log) /\ 1 - Len(log) = 1
      BY <1>3, <2>1
    <3>2. Inserted(log, pending)[1] =
            [id |-> NextId(log) + (1 - Len(log)) - 1, at |-> pending[1 - Len(log)].at,
             prev |-> pending[1 - Len(log)].prev, hash |-> pending[1 - Len(log)].hash,
             valid |-> TRUE]
      BY <1>3, <2>1, <3>1, InsertedRows
    <3> QED BY <3>1, <3>2
  <2>3. check[c].emptied
    BY <1>1, <2>1 DEF AccountInv, DraftsInv, DraftStands, Drafting
  <2>4. note \in notes' /\ note.emptied /\ note.entry = log'[1].hash
    BY <1>1, <1>2, <1>3, <2>2, <2>3
  <2> QED BY <2>4 DEF LinkedRow, Astray
<1>5. notes \subseteq notes'
  BY <1>1
<1> QED BY <1>1, <1>4, <1>5, AppendLinks DEF JInv

\* The other steps leave the rows and the anchor alone.
LEMMA LinksNext ==
    ASSUME JInv, AccountInv, LinkedInv, [INext]_ivars, ~OutOfBandEdit
    PROVE  LinkedInv'
<1>1. ASSUME NEW w \in Writers, WriterStep(w), notes' = notes PROVE LinkedInv'
  <2>1. CASE Commit(w)
    BY <1>1, <2>1, CommitLinks
  <2>2. CASE ~Commit(w)
    <3>1. log' = log /\ chainStates' = chainStates
      BY <1>1, <2>2 DEF WriterStep, FlushEarlier, BuildEntry, TakeWriteLock, ChainNewEntry,
         Rollback
    <3> QED BY <1>1, <3>1, QuietLinks DEF OneStateRow
  <2> QED BY <2>1, <2>2
<1>2. CASE (PurgeScan \/ PurgePickAnchor \/ PurgeFail \/ Tick \/ Crash \/ UNCHANGED ivars)
           /\ notes' = notes
  <2>1. log' = log /\ chainStates' = chainStates
    BY <1>2 DEF PurgeScan, PurgePickAnchor, PurgeFail, Tick, Crash, ivars, vars
  <2> QED BY <1>2, <2>1, QuietLinks DEF OneStateRow
<1>3. ASSUME NEW c \in Checkers, CheckStep(c) PROVE LinkedInv'
  <2>1. CASE RecordCommit(c)
    BY <2>1, RecordCommitLinks
  <2>2. CASE CheckCommit(c)
    <3>1. /\ log' = log /\ notes' = notes
          /\ AnchorHash(chainStates') = AnchorHash(chainStates)
          /\ OneStateRow' => OneStateRow
      <4>1. AnchorHash(chainStates') = AnchorHash(chainStates)
        BY <2>2, CheckCommitAnchor DEF SameAnchor, CurrentState, AnchorHash, NewChainState
      <4>2. Len(chainStates) <= Len(chainStates') /\ Len(chainStates) \in Nat
        BY <2>2, CheckCommitLength, LenProperties DEF JInv, BaseInv, TypeOK
      <4>3. Len(chainStates') \in Nat
        BY <1>3, INextPreserves, LenProperties DEF JInv, BaseInv, TypeOK, INext
      <4> QED BY <2>2, <4>1, <4>2, <4>3 DEF CheckCommit, OneStateRow
    <3> QED BY <3>1, QuietLinks
  <2>3. CASE ~RecordCommit(c) /\ ~CheckCommit(c)
    <3>1. log' = log /\ chainStates' = chainStates /\ notes' = notes
      BY <1>3, <2>3 DEF CheckStep, CheckLoad, CheckList, CheckWalk, CheckLeaves, CheckReload,
         CheckFail, vars
    <3> QED BY <3>1, QuietLinks DEF OneStateRow
  <2> QED BY <2>1, <2>2, <2>3
<1>4. UNCHANGED ivars => notes' = notes
  BY DEF ivars
<1> QED BY <1>1, <1>2, <1>3, <1>4, BootLinks, PurgeDeleteLinks DEF INext

LEMMA KNextPreserves == KInv /\ [INext]_ivars => KInv'
<1> SUFFICES ASSUME KInv, [INext]_ivars PROVE KInv'
  OBVIOUS
<1>1. JInv /\ JInv'
  BY INextPreserves DEF KInv
<1> SUFFICES ASSUME edits' = {} PROVE AccountInv' /\ LinkedInv'
  BY <1>1 DEF KInv
<1>2. ~OutOfBandEdit
  BY DEF OutOfBandEdit, EditRow, DeleteRow, RenumberRow
<1>8. edits = {}
  <2>1. ASSUME NEW c \in Checkers, CheckStep(c) PROVE edits' = edits
    BY <2>1 DEF CheckStep, CheckLoad, CheckList, CheckWalk, CheckLeaves, CheckReload,
       CheckCommit, RecordCommit, CheckFail
  <2>2. UNCHANGED ivars => edits' = edits
    BY DEF ivars
  <2> QED BY <1>2, <2>1, <2>2 DEF INext
<1>9. AccountInv /\ LinkedInv
  BY <1>8 DEF KInv
<1>10. LinkedInv'
  BY <1>1, <1>2, <1>9, LinksNext
<1> SUFFICES AccountInv'
  BY <1>10
<1>3. CASE /\ \/ \E w \in Writers : WriterStep(w)
              \/ PurgeScan \/ PurgePickAnchor \/ PurgeFail \/ Boot \/ Tick
           /\ UNCHANGED <<check, notes, edits>>
  BY <1>1, <1>3, <1>9, ChainAccount
<1>4. CASE /\ PurgeDelete
           /\ check' = [c \in Checkers |->
                            [check[c] EXCEPT
                            !.emptied = @ \/ (check[c].pc # "idle" /\ log' = <<>>)]]
           /\ UNCHANGED <<notes, edits>>
  BY <1>1, <1>4, <1>9, PurgeDeleteAccount
<1>5. CASE /\ Crash
           /\ check' = [c \in Checkers |-> IdleCheck]
           /\ UNCHANGED <<notes, edits>>
  <2>1. /\ log' = log /\ nextHash' = nextHash /\ chainStates' = chainStates /\ notes' = notes
        /\ purge'.pc = "idle" /\ \A w \in Writers : tx'[w].rows = <<>>
        /\ \A c \in Checkers : check'[c].pc = "idle"
    BY <1>5 DEF Crash, IdlePurge, IdleTx, IdleCheck
  <2> QED BY <1>1, <1>5, <1>9, <2>1, QuietAccount
<1>6. ASSUME NEW c \in Checkers, CheckStep(c) PROVE AccountInv'
  BY <1>1, <1>6, <1>9, CheckLoadAccount, CheckListAccount, CheckWalkAccount,
     CheckLeavesAccount, CheckReloadAccount, CheckCommitAccount, RecordCommitAccount,
     CheckFailAccount DEF CheckStep
<1>7. CASE UNCHANGED ivars
  <2>1. UNCHANGED <<log, nextHash, tx, chainStates, purge, check, notes, edits>>
    BY <1>7 DEF ivars, vars
  <2> QED BY <1>1, <1>9, <2>1, QuietAccount
<1> QED BY <1>2, <1>3, <1>4, <1>5, <1>6, <1>7 DEF INext

\* Retention never makes a log that nobody edited look broken once its forks are recorded
\* (record_known_breaks, _recorded_known_breaks): for any such history, any number of
\* writers, checks and recordings, and sweeps between any two of their steps, a check that
\* runs alone then finds the chain intact, although parents, leaves and recording rows
\* have been purged.  Excepted are a second state row and, while it is there, the entry of
\* a recording under which a sweep emptied the log.
THEOREM ISpecUntouchedLogVerifies ==
    ASSUME UntouchedHistories PROVE ISpec => []UntouchedLogVerifies
<1>1. IInit => KInv
  BY IInitEstablishes, InitAccount, InitLinks DEF KInv
<1>2. KInv /\ [INext]_ivars => KInv'
  BY KNextPreserves
<1>3. KInv => UntouchedLogVerifies
  BY AccountedVerifies
<1> QED BY <1>1, <1>2, <1>3, PTL DEF ISpec

\* A recorded break stays accepted (_walk's acceptance of recorded_breaks): whatever
\* retention deletes after it was recorded, its parent included, and however checks,
\* recordings and sweeps interleave, the walk finds its record and its parent, or a parent
\* that the anchor has passed.  The hypothesis on the histories is what
\* Restarted of MCAuditIntegrity lacks.
THEOREM ISpecRecordedBreaksAccepted ==
    ASSUME UntouchedHistories PROVE ISpec => []RecordedBreaksAccepted
<1>1. IInit => KInv
  BY IInitEstablishes, InitAccount, InitLinks DEF KInv
<1>2. KInv /\ [INext]_ivars => KInv'
  BY KNextPreserves
<1>3. KInv => RecordedBreaksAccepted
  BY AccountedIsAccepted DEF KInv, RecordedBreaksAccepted, EntryIn
<1> QED BY <1>1, <1>2, <1>3, PTL DEF ISpec

(***************************************************************************)
(* The edited rows, whatever else happens.                                 *)
(***************************************************************************)

\* The row that was edited still does not fit its hash, as long as it is there, and no
\* row gets that hash again.
Edited(e) ==
    e.kind = "edit" =>
        /\ e.hash \in Nat /\ e.hash < nextHash
        /\ \A w \in Writers : \A k \in 1..Len(tx[w].rows) : e.hash < tx[w].rows[k].hash
        /\ (\E i \in 1..Len(log) : log[i].hash = e.hash) =>
            \E i \in 1..Len(log) : log[i].hash = e.hash /\ ~log[i].valid

EditedInv == \A e \in edits : Edited(e)

\* Rows and pending rows are old, or have new hashes, and an invalid row stays invalid
\* unless its hash goes with it.
InvalidStay ==
    /\ nextHash \in Nat /\ nextHash' \in Nat /\ nextHash' >= nextHash
    /\ \A w \in Writers : \A k \in 1..Len(tx'[w].rows) :
        \/ k \in 1..Len(tx[w].rows) /\ tx'[w].rows[k] = tx[w].rows[k]
        \/ tx'[w].rows[k].hash \in Nat /\ tx'[w].rows[k].hash >= nextHash
    /\ \A i \in 1..Len(log') :
        \/ \E j \in 1..Len(log) : log[j].hash = log'[i].hash
        \/ log'[i].hash \in Nat /\ log'[i].hash >= nextHash
        \/ \E w \in Writers : \E k \in 1..Len(tx[w].rows) : log'[i].hash = tx[w].rows[k].hash
    /\ \A j \in 1..Len(log) : ~log[j].valid =>
        \/ \E i \in 1..Len(log') : log'[i].hash = log[j].hash /\ ~log'[i].valid
        \/ \A i \in 1..Len(log') : log'[i].hash # log[j].hash

LEMMA EditedKept ==
    ASSUME BaseInv, InvalidStay, NEW e, Edited(e)
    PROVE  Edited(e)'
<1> SUFFICES ASSUME e.kind = "edit"
             PROVE  /\ e.hash \in Nat /\ e.hash < nextHash'
                    /\ \A w \in Writers : \A k \in 1..Len(tx'[w].rows) :
                            e.hash < tx'[w].rows[k].hash
                    /\ (\E i \in 1..Len(log') : log'[i].hash = e.hash) =>
                        \E i \in 1..Len(log') : log'[i].hash = e.hash /\ ~log'[i].valid
  BY DEF Edited
<1>1. /\ e.hash \in Nat /\ e.hash < nextHash
      /\ \A w \in Writers : \A k \in 1..Len(tx[w].rows) : e.hash < tx[w].rows[k].hash
      /\ (\E i \in 1..Len(log) : log[i].hash = e.hash) =>
            \E i \in 1..Len(log) : log[i].hash = e.hash /\ ~log[i].valid
  BY DEF Edited
<1>2. e.hash < nextHash'
  BY <1>1 DEF InvalidStay
<1>3. ASSUME NEW w \in Writers, NEW k \in 1..Len(tx'[w].rows)
      PROVE  e.hash < tx'[w].rows[k].hash
  <2>1. CASE k \in 1..Len(tx[w].rows) /\ tx'[w].rows[k] = tx[w].rows[k]
    BY <1>1, <2>1
  <2>2. CASE tx'[w].rows[k].hash \in Nat /\ tx'[w].rows[k].hash >= nextHash
    BY <1>1, <2>2 DEF InvalidStay
  <2> QED BY <2>1, <2>2 DEF InvalidStay
<1>4. ASSUME NEW i \in 1..Len(log'), log'[i].hash = e.hash
      PROVE  \E j \in 1..Len(log') : log'[j].hash = e.hash /\ ~log'[j].valid
  <2>1. \E j \in 1..Len(log) : log[j].hash = e.hash
    <3>1. ~(log'[i].hash \in Nat /\ log'[i].hash >= nextHash)
      BY <1>1, <1>4 DEF InvalidStay
    <3>2. ASSUME NEW w \in Writers, NEW k \in 1..Len(tx[w].rows)
          PROVE  log'[i].hash # tx[w].rows[k].hash
      <4>1. e.hash < tx[w].rows[k].hash
        BY <1>1
      <4> QED BY <1>1, <1>4, <4>1
    <3> QED BY <1>4, <3>1, <3>2 DEF InvalidStay
  <2>2. PICK j \in 1..Len(log) : log[j].hash = e.hash /\ ~log[j].valid
    BY <1>1, <2>1
  <2> QED BY <1>4, <2>2 DEF InvalidStay
<1> QED BY <1>1, <1>2, <1>3, <1>4

LEMMA QuietEdited ==
    ASSUME BaseInv, log' = log, nextHash' = nextHash,
           \A w \in Writers : tx'[w].rows = tx[w].rows \/ tx'[w].rows = <<>>
    PROVE  InvalidStay
<1>1. nextHash \in Nat /\ nextHash >= nextHash
  BY DEF BaseInv, TypeOK
<1>2. \A w \in Writers : \A k \in 1..Len(tx'[w].rows) :
        k \in 1..Len(tx[w].rows) /\ tx'[w].rows[k] = tx[w].rows[k]
  BY EmptySeq
<1> QED BY <1>1, <1>2 DEF InvalidStay

LEMMA ChainNewEntryEdited ==
    ASSUME BaseInv, NEW w \in Writers, ChainNewEntry(w) PROVE InvalidStay
<1> DEFINE row == [at |-> tx[w].at, prev |-> TipSeenBy(w), hash |-> nextHash]
<1>1. /\ log' = log /\ nextHash \in Nat /\ nextHash' = nextHash + 1
      /\ tx[w].rows \in Seq(PendingRow) /\ Len(tx[w].rows) \in Nat
  BY LenProperties DEF ChainNewEntry, BaseInv, TypeOK
<1>2. /\ tx' = [tx EXCEPT ![w].pc = "added", ![w].rows = Append(tx[w].rows, row)]
      /\ row.hash = nextHash
  BY DEF ChainNewEntry
<1> HIDE DEF row
<1>3. /\ tx'[w].rows = Append(tx[w].rows, row)
      /\ \A v \in Writers : v # w => tx'[v] = tx[v]
  BY <1>2 DEF BaseInv, TypeOK
<1>4. /\ Len(tx'[w].rows) = Len(tx[w].rows) + 1
      /\ \A k \in 1..Len(tx[w].rows) : tx'[w].rows[k] = tx[w].rows[k]
      /\ tx'[w].rows[Len(tx[w].rows) + 1] = row
  BY <1>1, <1>3
<1>5. ASSUME NEW v \in Writers, NEW k \in 1..Len(tx'[v].rows)
      PROVE  \/ k \in 1..Len(tx[v].rows) /\ tx'[v].rows[k] = tx[v].rows[k]
             \/ tx'[v].rows[k].hash \in Nat /\ tx'[v].rows[k].hash >= nextHash
  <2>1. CASE v # w
    BY <1>3, <2>1
  <2>2. CASE v = w /\ k = Len(tx[w].rows) + 1
    BY <1>1, <1>2, <1>4, <2>2
  <2>3. CASE v = w /\ k # Len(tx[w].rows) + 1
    <3>1. k \in 1..Len(tx[w].rows)
      BY <1>1, <1>4, <2>3
    <3> QED BY <1>4, <2>3, <3>1
  <2> QED BY <2>1, <2>2, <2>3
<1> QED BY <1>1, <1>5 DEF InvalidStay

\* Pending rows, or the row of a recording, are appended.
LEMMA AppendEdited ==
    ASSUME BaseInv, NEW pending \in Seq(PendingRow), log' = Inserted(log, pending),
           nextHash' \in Nat, nextHash' >= nextHash,
           \A w \in Writers : tx'[w].rows = tx[w].rows \/ tx'[w].rows = <<>>,
           \A k \in 1..Len(pending) :
            \/ pending[k].hash \in Nat /\ pending[k].hash >= nextHash
            \/ \E w \in Writers : pending = tx[w].rows
    PROVE  InvalidStay
<1>1. nextHash \in Nat /\ log \in Seq(Row) /\ Len(log) \in Nat /\ Len(pending) \in Nat
  BY LenProperties DEF BaseInv, TypeOK
<1>2. \A w \in Writers : \A k \in 1..Len(tx'[w].rows) :
        k \in 1..Len(tx[w].rows) /\ tx'[w].rows[k] = tx[w].rows[k]
  BY EmptySeq
<1>3. /\ Len(log') = Len(log) + Len(pending)
      /\ \A i \in 1..Len(log) : log'[i] = log[i]
  BY <1>1, InsertedRows
<1>4. ASSUME NEW i \in 1..Len(log'), i > Len(log)
      PROVE  \E k \in 1..Len(pending) : log'[i].hash = pending[k].hash
  <2>1. i - Len(log) \in 1..Len(pending) /\ i \in 1..(Len(log) + Len(pending))
    BY <1>1, <1>3, <1>4
  <2>2. log'[i] = [id |-> NextId(log) + (i - Len(log)) - 1,
                   at |-> pending[i - Len(log)].at, prev |-> pending[i - Len(log)].prev,
                   hash |-> pending[i - Len(log)].hash, valid |-> TRUE]
    BY <1>1, <1>4, <2>1, InsertedRows
  <2> QED BY <2>1, <2>2
<1>5. ASSUME NEW i \in 1..Len(log')
      PROVE  \/ \E j \in 1..Len(log) : log[j].hash = log'[i].hash
             \/ log'[i].hash \in Nat /\ log'[i].hash >= nextHash
             \/ \E w \in Writers : \E k \in 1..Len(tx[w].rows) :
                    log'[i].hash = tx[w].rows[k].hash
  <2>1. CASE i <= Len(log)
    <3>1. i \in 1..Len(log)
      BY <1>1, <2>1
    <3> QED BY <1>3, <3>1
  <2>2. CASE i > Len(log)
    <3>1. PICK k \in 1..Len(pending) : log'[i].hash = pending[k].hash
      BY <1>4, <2>2
    <3> QED BY <3>1
  <2> QED BY <1>1, <1>3, <2>1, <2>2
<1>6. \A j \in 1..Len(log) : j \in 1..Len(log') /\ log'[j] = log[j]
  BY <1>1, <1>3
<1> QED BY <1>1, <1>2, <1>5, <1>6 DEF InvalidStay

LEMMA PurgeDeleteEdited ==
    ASSUME BaseInv, HashesInv, PurgeDelete PROVE InvalidStay
<1>1. PICK k \in 0..Len(log) : log' = SubSeq(log, k + 1, Len(log))
  BY DEF PurgeDelete
<1>2. /\ log \in Seq(Row) /\ Len(log) \in Nat /\ nextHash \in Nat
      /\ tx' = tx /\ nextHash' = nextHash
  BY LenProperties DEF BaseInv, TypeOK, PurgeDelete
<1>3. /\ Len(log') = Len(log) - k
      /\ \A i \in 1..(Len(log) - k) : log'[i] = log[k + i]
  BY <1>1, <1>2, SuffixRows
<1>4. ASSUME NEW i \in 1..Len(log') PROVE k + i \in 1..Len(log) /\ log'[i] = log[k + i]
  <2>1. i \in 1..(Len(log) - k) /\ k + i \in 1..Len(log)
    BY <1>2, <1>3
  <2> QED BY <1>3, <2>1
<1>5. \A i \in 1..Len(log) : log[i].hash # NoHash
  BY DEF PurgeDelete, BaseInv, LockInv, HashedInv
<1>6. ASSUME NEW j \in 1..Len(log), NEW i \in 1..Len(log'), log'[i].hash = log[j].hash
      PROVE  log'[i] = log[j]
  <2>1. k + i = j
    BY <1>4, <1>5, <1>6 DEF HashesInv
  <2> QED BY <1>4, <2>1
<1>7. \A i \in 1..Len(log') : \E j \in 1..Len(log) : log[j].hash = log'[i].hash
  BY <1>4
<1>8. nextHash' \in Nat /\ nextHash' >= nextHash
  BY <1>2
<1> QED BY <1>2, <1>6, <1>7, <1>8 DEF InvalidStay

LEMMA BootEdited ==
    ASSUME BaseInv, HashesInv, Boot PROVE InvalidStay
<1>1. /\ tx' = tx /\ log' = Backfilled
      /\ nextHash' = IF Unhashed = {} THEN nextHash ELSE nextHash + Len(log)
      /\ nextHash \in Nat /\ log \in Seq(Row) /\ Len(log) \in Nat
  BY LenProperties DEF Boot, BaseInv, TypeOK
<1>2. CASE Unhashed = {}
  <2>1. log' = log /\ nextHash' = nextHash
    BY <1>1, <1>2, BackfilledRows DEF BaseInv
  <2> QED BY <1>1, <2>1, QuietEdited
<1>3. CASE Unhashed # {}
  <2>1. Len(log') = Len(log)
    BY <1>1, <1>3, BackfilledRows DEF BaseInv
  <2>5. \A i \in 1..Len(log) :
            log'[i] = [log[i] EXCEPT
                        !.prev = IF i = 1 THEN AnchorHash(chainStates)
                                 ELSE nextHash + (i - 1) - 1,
                        !.hash = nextHash + i - 1,
                        !.valid = TRUE]
    BY <1>1, <1>3, BackfilledRows DEF BaseInv
  <2>2. ASSUME NEW i \in 1..Len(log')
        PROVE  log'[i].hash \in Nat /\ log'[i].hash >= nextHash
    <3>1. log[i] \in Row
      BY <1>1, <2>1, ElementOfSeq
    <3> DEFINE p == IF i = 1 THEN AnchorHash(chainStates) ELSE nextHash + (i - 1) - 1
               h == nextHash + i - 1
    <3>2. log'[i] = [log[i] EXCEPT !.prev = p, !.hash = h, !.valid = TRUE]
      BY <2>1, <2>5
    <3>3. h \in Nat /\ h >= nextHash
      BY <1>1, <2>1
    <3> HIDE DEF p, h
    <3>4. log'[i].hash = h
      BY <3>1, <3>2 DEF Row
    <3> QED BY <3>3, <3>4
  <2>3. ASSUME NEW j \in 1..Len(log), NEW i \in 1..Len(log')
        PROVE  log'[i].hash # log[j].hash
    <3>1. log[j].hash \in Nat /\ log[j].hash < nextHash
      BY <1>1, RowTypes DEF HashesInv
    <3> QED BY <1>1, <2>2, <3>1
  <2>4. nextHash' \in Nat /\ nextHash' >= nextHash
    BY <1>1, <1>3
  <2> QED BY <1>1, <2>2, <2>3, <2>4 DEF InvalidStay
<1> QED BY <1>2, <1>3

\* An edit leaves the other invalid rows, and those edited before, as they are.
LEMMA EditRowEdited ==
    ASSUME JInv, EditedInv, NEW i \in 1..Len(log), EditRow(i) PROVE EditedInv'
<1>1. /\ writeLock = NoWriter
      /\ UNCHANGED <<tx, nextHash>> /\ log[i].valid
      /\ edits' = edits \cup {EditOf("edit", i)}
      /\ log \in Seq(Row) /\ nextHash \in Nat /\ nextHash >= nextHash /\ BaseInv
  BY DEF EditRow, JInv, BaseInv, TypeOK
<1>3. /\ Len(log') = Len(log) /\ \A j \in 1..Len(log) : j # i => log'[j] = log[j]
      /\ log'[i].hash = log[i].hash /\ ~log'[i].valid
  BY <1>1, EditedRows
<1>4. \A j \in 1..Len(log) : log'[j].hash = log[j].hash
  BY <1>3
<1>5. InvalidStay
  BY <1>1, <1>3, <1>4 DEF InvalidStay
<1>6. ASSUME NEW e, e = EditOf("edit", i) PROVE Edited(e)'
  <2>1. e.hash = log[i].hash
    BY <1>6 DEF EditOf
  <2>2. e.hash \in Nat /\ e.hash < nextHash'
    BY <1>1, <2>1, RowTypes DEF JInv, RowsInv, HashesInv
  <2>3. \A w \in Writers : Len(tx'[w].rows) = 0
    BY <1>1, NoPending
  <2>4. log'[i].hash = e.hash /\ ~log'[i].valid /\ i \in 1..Len(log')
    BY <1>3, <2>1
  <2> QED BY <2>2, <2>3, <2>4 DEF Edited
<1> SUFFICES ASSUME NEW e \in edits' PROVE Edited(e)'
  BY DEF EditedInv
<1>7. CASE e \in edits
  BY <1>1, <1>5, <1>7, EditedKept DEF EditedInv
<1> QED BY <1>1, <1>6, <1>7

LEMMA DeleteRowEdited ==
    ASSUME JInv, EditedInv, NEW i \in 1..Len(log), DeleteRow(i) PROVE EditedInv'
<1>1. /\ UNCHANGED <<tx, nextHash>> /\ log[i].valid
      /\ edits' = edits \cup {EditOf("delete", i)}
      /\ nextHash \in Nat /\ nextHash >= nextHash /\ BaseInv
  BY DEF DeleteRow, JInv, BaseInv, TypeOK
<1>2. /\ Len(log') = Len(log) - 1 /\ Len(log) \in Nat
      /\ \A j \in 1..(Len(log) - 1) :
            log'[j] = IF j < i THEN log[j] ELSE log[j + 1]
  BY DeletedRows
<1>3. ASSUME NEW j \in 1..Len(log') PROVE \E k \in 1..Len(log) : log[k].hash = log'[j].hash
  <2>1. j \in 1..Len(log) /\ j + 1 \in 1..Len(log)
    BY <1>2
  <2> QED BY <1>2, <2>1
<1>4. ASSUME NEW j \in 1..Len(log), ~log[j].valid PROVE \E k \in 1..Len(log') : log'[k] = log[j]
  <2>1. CASE j < i
    <3>1. j \in 1..Len(log')
      BY <1>2, <2>1
    <3> QED BY <1>2, <2>1, <3>1
  <2>2. CASE j > i
    <3>1. j - 1 \in 1..Len(log') /\ ~(j - 1 < i) /\ (j - 1) + 1 = j
      BY <1>2, <2>2
    <3> QED BY <1>2, <3>1
  <2>3. j # i
    BY <1>1, <1>4
  <2> QED BY <1>2, <2>1, <2>2, <2>3
<1>5. InvalidStay
  BY <1>1, <1>3, <1>4 DEF InvalidStay
<1> SUFFICES ASSUME NEW e \in edits' PROVE Edited(e)'
  BY DEF EditedInv
<1>6. CASE e \in edits
  BY <1>1, <1>5, <1>6, EditedKept DEF EditedInv
<1>7. CASE e = EditOf("delete", i)
  <2>1. e.kind # "edit"
    BY <1>7 DEF EditOf
  <2> QED BY <2>1 DEF Edited
<1> QED BY <1>1, <1>6, <1>7

\* A renumbered row keeps its hash, valid or not.
LEMMA RenumberRowEdited ==
    ASSUME JInv, EditedInv, NEW i \in 1..Len(log), RenumberRow(i) PROVE EditedInv'
<1>1. /\ UNCHANGED <<tx, nextHash>> /\ edits' = edits \cup {EditOf("renumber", i)}
      /\ nextHash \in Nat /\ nextHash >= nextHash /\ BaseInv
  BY DEF RenumberRow, JInv, BaseInv, TypeOK
<1>2. /\ Len(log') = Len(log)
      /\ \A j \in 1..Len(log) : log'[j].hash = log[j].hash /\ log'[j].valid = log[j].valid
  BY <1>1, RenumberedRows
<1>3. InvalidStay
  BY <1>1, <1>2 DEF InvalidStay
<1> SUFFICES ASSUME NEW e \in edits' PROVE Edited(e)'
  BY DEF EditedInv
<1>4. CASE e \in edits
  BY <1>1, <1>3, <1>4, EditedKept DEF EditedInv
<1>5. CASE e = EditOf("renumber", i)
  <2>1. e.kind # "edit"
    BY <1>5 DEF EditOf
  <2> QED BY <2>1 DEF Edited
<1> QED BY <1>1, <1>4, <1>5

LEMMA RecordCommitEdited ==
    ASSUME JInv, NEW c \in Checkers, RecordCommit(c) PROVE InvalidStay
<1> DEFINE entry == [at |-> check[c].at, prev |-> TipRecorded(c), hash |-> nextHash]
           pending == <<entry>>
<1>1. /\ log' = Inserted(log, pending) /\ nextHash' = nextHash + 1 /\ tx' = tx
      /\ nextHash \in Nat /\ log \in Seq(Row) /\ check[c] \in Check /\ BaseInv
  BY DEF RecordCommit, JInv, ChecksTypeOK, BaseInv, TypeOK
<1>2. TipRecorded(c) \in Nat
  <2>1. up
    BY DEF RecordCommit, JInv, ChecksInv
  <2> QED BY <2>1, TipRecordedType
<1>3. pending \in Seq(PendingRow) /\ Len(pending) = 1 /\ pending[1].hash = nextHash
  <2>1. entry \in PendingRow /\ entry.hash = nextHash
    BY <1>1, <1>2 DEF PendingRow, Check
  <2> HIDE DEF entry
  <2> QED BY <2>1
<1> HIDE DEF pending
<1>4. \A k \in 1..Len(pending) : pending[k].hash \in Nat /\ pending[k].hash >= nextHash
  BY <1>1, <1>3
<1>5. nextHash' \in Nat /\ nextHash' >= nextHash
  BY <1>1
<1> QED BY <1>1, <1>3, <1>4, <1>5, AppendEdited

LEMMA WriterEdited ==
    ASSUME BaseInv, NEW w \in Writers, WriterStep(w) PROVE InvalidStay
<1>1. CASE FlushEarlier(w) \/ BuildEntry(w) \/ TakeWriteLock(w) \/ Rollback(w)
  BY <1>1, WriterQuiet, QuietEdited
<1>2. CASE Commit(w)
  <2>1. /\ log' = Inserted(log, tx[w].rows) /\ tx[w].rows \in Seq(PendingRow)
        /\ nextHash' = nextHash /\ nextHash \in Nat /\ nextHash >= nextHash
        /\ \A v \in Writers : tx'[v].rows = tx[v].rows \/ tx'[v].rows = <<>>
    BY <1>2 DEF Commit, BaseInv, TypeOK, IdleTx
  <2> QED BY <2>1, AppendEdited
<1> QED BY <1>1, <1>2, ChainNewEntryEdited DEF WriterStep

LEMMA EditedNext == JInv /\ EditedInv /\ [INext]_ivars => EditedInv'
<1> SUFFICES ASSUME JInv, EditedInv, [INext]_ivars PROVE EditedInv'
  OBVIOUS
<1>1. BaseInv /\ HashesInv
  BY DEF JInv, RowsInv
<1>2. ASSUME InvalidStay, edits' = edits PROVE EditedInv'
  BY <1>1, <1>2, EditedKept DEF EditedInv
<1>3. CASE OutOfBandEdit
  BY <1>3, EditRowEdited, DeleteRowEdited, RenumberRowEdited DEF OutOfBandEdit
<1>4. CASE /\ \/ \E w \in Writers : WriterStep(w)
              \/ PurgeScan \/ PurgePickAnchor \/ PurgeFail \/ Boot \/ Tick
           /\ UNCHANGED <<check, notes, edits>>
  <2>1. CASE PurgeScan \/ PurgePickAnchor \/ PurgeFail \/ Tick
    <3>1. UNCHANGED <<log, nextHash, tx>>
      BY <2>1 DEF PurgeScan, PurgePickAnchor, PurgeFail, Tick
    <3> QED BY <1>1, <1>2, <1>4, <3>1, QuietEdited
  <2> QED BY <1>1, <1>2, <1>4, <2>1, WriterEdited, BootEdited
<1>5. CASE PurgeDelete /\ edits' = edits
  BY <1>1, <1>2, <1>5, PurgeDeleteEdited
<1>6. CASE Crash /\ edits' = edits
  <2>1. log' = log /\ nextHash' = nextHash /\ \A w \in Writers : tx'[w].rows = <<>>
    BY <1>6 DEF Crash, IdleTx
  <2> QED BY <1>1, <1>2, <1>6, <2>1, QuietEdited
<1>7. ASSUME NEW c \in Checkers, CheckStep(c) PROVE EditedInv'
  <2>1. CASE RecordCommit(c)
    <3>1. edits' = edits
      BY <2>1 DEF RecordCommit
    <3> QED BY <1>2, <2>1, <3>1, RecordCommitEdited
  <2>2. CASE ~RecordCommit(c)
    <3>1. UNCHANGED <<log, nextHash, tx, edits>>
      BY <1>7, <2>2 DEF CheckStep, CheckLoad, CheckList, CheckWalk, CheckLeaves,
         CheckReload, CheckCommit, CheckFail, vars
    <3> QED BY <1>1, <1>2, <3>1, QuietEdited
  <2> QED BY <2>1, <2>2
<1>8. CASE UNCHANGED ivars
  <2>1. UNCHANGED <<log, nextHash, tx, edits>>
    BY <1>8 DEF ivars, vars
  <2> QED BY <1>1, <1>2, <2>1, QuietEdited
<1> QED BY <1>3, <1>4, <1>5, <1>6, <1>7, <1>8 DEF INext

\* A row that does not fit its hash is neither fine nor a race break.
LEMMA InvalidIsReported ==
    ASSUME BaseInv, ChecksTypeOK, NEW i \in 1..Len(log), ~log[i].valid
    PROVE  Verdict.status = "broken"
<1> DEFINE recorded == RecordedIn(log)
           races == {k \in 1..Len(log) : RaceBreak(CurrentState, recorded, log, k)}
           fine == {k \in 1..Len(log) :
                    /\ log[k].valid
                    /\ \/ Linked(CurrentState, log, k)
                       \/ AcceptedBreak(CurrentState, recorded, log, k)}
           tampered == {log[k].id : k \in (1..Len(log)) \ (races \cup fine)}
                        \cup MissingRecorded(CurrentState, recorded, log)
<1>1. i \notin fine /\ i \notin races
  BY DEF RaceBreak
<1>2. log[i].id \in tampered
  BY <1>1
<1>3. Verdict.status = IF tampered # {} THEN "broken"
                       ELSE IF races # {} THEN "race_breaks" ELSE "ok"
  BY DEF Verdict, Walk
<1> QED BY <1>2, <1>3

\* The chain reveals every change of what a row's hash covers (verify_chain,
\* compute_row_hash, which leaves the id out): for any history, and any number of edits,
\* renumberings, recordings, sweeps and restarts after it, a row with such a change is
\* reported for as long as it is there.  No fork it is next to, no record of known breaks
\* and no backfill covers it.
THEOREM ISpecEditedRowsAreReported == ISpec => []EditedRowsAreReported
<1>1. IInit => JInv /\ EditedInv
  BY IInitEstablishes DEF IInit, EditedInv
<1>2. JInv /\ EditedInv /\ [INext]_ivars => (JInv /\ EditedInv)'
  BY INextPreserves, EditedNext
<1>3. JInv /\ EditedInv => EditedRowsAreReported
  <2> SUFFICES ASSUME JInv, EditedInv, NEW e \in edits, e.kind = "edit",
                      \E i \in 1..Len(log) : log[i].hash = e.hash
               PROVE  Verdict.status = "broken"
    BY DEF EditedRowsAreReported
  <2>1. PICK i \in 1..Len(log) : ~log[i].valid
    BY DEF EditedInv, Edited
  <2> QED BY <2>1, InvalidIsReported DEF JInv
<1> QED BY <1>1, <1>2, <1>3, PTL DEF ISpec

(***************************************************************************)
(* The deleted rows.  A row that is gone shows in the rows that are left:  *)
(* in the one that chains from it, or in the recording that lists it.  The *)
(* invariant remembers the log S that the first deleted row was taken      *)
(* from, and a ledger of what every hash stands for.  Of the rows of S     *)
(* that are gone and above the anchor, take the last: all after it are     *)
(* there, among them its child, whose parent is then unknown, or the entry *)
(* that lists it, which then misses it.                                    *)
(***************************************************************************)

\* What every row with a hash has, or had, for its id and its predecessor's hash.
Ledger == [Nat -> [id: Nat, prev: Nat]]

Pair(hash, id) == [hash |-> hash, id |-> id]

\* The anchor, those that checks have loaded, and the one the sweep has picked.
Anchors ==
    {Pair(CurrentState.anchorHash, CurrentState.anchorId)}
    \cup {Pair(check[c].state.anchorHash, check[c].state.anchorId) :
            c \in {d \in Checkers : check[d].pc # "idle"}}
    \cup {Pair(purge.newest.hash, purge.newest.id) :
            x \in {y \in {purge.newest} : purge.pc = "picked" /\ y # NoRow}}

Rows == {Pair(log[i].hash, log[i].id) : i \in 1..Len(log)}

\* What is recorded, and what a check under way may record.
Records ==
    {[breaks |-> n.breaks, leaves |-> n.leaves] : n \in notes}
    \cup {[breaks |-> check[c].result.races, leaves |-> check[c].leaves] : c \in Checkers}

\* What is recorded, and what a recording is about to write.
Listed ==
    {[breaks |-> n.breaks, leaves |-> n.leaves] : n \in notes}
    \cup {[breaks |-> check[c].result.races, leaves |-> check[c].leaves] :
            c \in {d \in Checkers : check[d].pc = "drafted"}}

\* The parent of a recorded break, where its id was kept, is the row it chains from.
BreakFits(known, b) == b.parent \in {NoId, known[known[b.hash].prev].id}

Fits(known) ==
    /\ \A h \in Nat : known[h].prev < FirstHash \/ known[h].prev < h
    /\ \A i \in 1..Len(log) : log[i].hash # NoHash =>
        known[log[i].hash].id = log[i].id /\ known[log[i].hash].prev = log[i].prev
    /\ \A a \in Anchors : a.hash # NoHash => known[a.hash].id = a.id
    /\ \A r \in Records : \A b \in r.breaks : BreakFits(known, b)

\* Row j of S has a child further on, or the entry of a recording that lists it.
Guarded(S, j) ==
    \/ \E m \in (j + 1)..Len(S) : S[m].prev = S[j].hash
    \/ \E n \in notes : \E k \in (j + 1)..Len(S) :
        /\ S[k].hash = n.entry
        /\ \E x \in n.breaks \cup n.leaves : x.id = S[j].id /\ x.hash = S[j].hash

Old(hash) ==
    /\ hash < nextHash
    /\ \A w \in Writers : \A k \in 1..Len(tx[w].rows) : hash < tx[w].rows[k].hash

\* S is the log that row e was deleted from.
Remembered(S, e, known) ==
    /\ SortedById(S)
    /\ Len(S) > 0 /\ S[Len(S)].hash = e.tip
    /\ \E d \in 1..Len(S) : S[d].id = e.id /\ S[d].hash = e.hash
    /\ \A i \in 1..Len(S) :
        /\ S[i].hash # NoHash /\ Old(S[i].hash)
        /\ known[S[i].hash].id = S[i].id /\ known[S[i].hash].prev = S[i].prev
    /\ \A j \in 1..(Len(S) - 1) : Guarded(S, j)
    /\ \A i \in 1..Len(log) : log[i].hash # e.hash

\* A row whose deletion has to show as long as the newest row of that time is there.
Shows(e) == e.kind = "delete" /\ e.settled /\ e.hash # e.tip

DeletedInv ==
    \E known \in Ledger :
        /\ Fits(known)
        /\ \A e \in edits : Shows(e) => \E S \in Seq(Row) : Remembered(S, e, known)

\* A row that chains from one that is gone, and was not purged, is tampered with.
LEMMA OrphanIsReported ==
    ASSUME JInv, NEW known \in Ledger, Fits(known), NEW q \in 1..Len(log),
           log[q].hash # NoHash, log[q].prev # NoHash,
           \A i \in 1..Len(log) : log[i].hash # log[q].prev,
           known[log[q].prev].id > CurrentState.anchorId
    PROVE  Verdict.status = "broken"
<1> DEFINE state == CurrentState
           recorded == RecordedIn(log)
           races == {k \in 1..Len(log) : RaceBreak(state, recorded, log, k)}
           fine == {k \in 1..Len(log) :
                    /\ log[k].valid
                    /\ \/ Linked(state, log, k)
                       \/ AcceptedBreak(state, recorded, log, k)}
           tampered == {log[k].id : k \in (1..Len(log)) \ (races \cup fine)}
                        \cup MissingRecorded(state, recorded, log)
<1>1. state \in ChainState /\ log \in Seq(Row) /\ Len(log) \in Nat
  BY CurrentStateType, LenProperties DEF JInv, BaseInv, TypeOK
<1>2. state.anchorId \in Nat /\ known[log[q].prev].id # state.anchorId
  <2>1. log[q].prev \in Nat
    BY <1>1, RowTypes
  <2>2. known[log[q].prev].id \in Nat
    BY <2>1 DEF Ledger
  <2> QED BY <1>1, <2>2 DEF ChainState
<1>3. state.anchorHash # log[q].prev
  <2>1. Pair(state.anchorHash, state.anchorId) \in Anchors
    BY DEF Anchors
  <2> QED BY <1>2, <2>1 DEF Fits, Pair
<1>4. ~Linked(state, log, q)
  <2>1. q # 1 => q - 1 \in 1..Len(log)
    BY <1>1
  <2> QED BY <1>3, <2>1 DEF Linked
<1>5. ~ParentKnown(state, log, q)
  <2> SUFFICES ASSUME NEW p \in Earlier(state, log, q), p.hash = log[q].prev PROVE FALSE
    BY DEF ParentKnown
  <2>1. CASE p = [hash |-> state.anchorHash, id |-> state.anchorId]
    BY <1>3, <2>1
  <2>2. CASE \E j \in 1..(q - 1) : p = [hash |-> log[j].hash, id |-> log[j].id]
    <3>1. PICK j \in 1..(q - 1) : p = [hash |-> log[j].hash, id |-> log[j].id]
      BY <2>2
    <3>2. j \in 1..Len(log)
      BY <1>1
    <3> QED BY <3>1, <3>2
  <2> QED BY <2>1, <2>2 DEF Earlier
<1>6. ~AcceptedBreak(state, recorded, log, q)
  <2> SUFFICES ASSUME NEW b \in recorded.breaks, b.hash = log[q].hash, b.parent # NoId,
                      b.parent <= state.anchorId
               PROVE  FALSE
    BY <1>5 DEF AcceptedBreak
  <2>1. PICK n \in notes : b \in n.breaks
    BY DEF RecordedIn
  <2>2. BreakFits(known, b)
    <3>1. [breaks |-> n.breaks, leaves |-> n.leaves] \in Records
      BY DEF Records
    <3> QED BY <2>1, <3>1 DEF Fits
  <2>3. known[b.hash].prev = log[q].prev
    BY DEF Fits
  <2>4. b.parent = known[log[q].prev].id /\ known[log[q].prev].id \in Nat
    <3>1. log[q].prev \in Nat
      BY <1>1, RowTypes
    <3> QED BY <2>2, <2>3, <3>1 DEF BreakFits, Ledger
  <2> QED BY <1>2, <2>4
<1>7. q \notin races \cup fine
  BY <1>4, <1>5, <1>6 DEF RaceBreak
<1>8. log[q].id \in tampered
  BY <1>7
<1>9. Verdict.status = IF tampered # {} THEN "broken"
                       ELSE IF races # {} THEN "race_breaks" ELSE "ok"
  BY DEF Verdict, Walk
<1> QED BY <1>8, <1>9

\* So is a row that a recording lists, that is gone and was not purged.
LEMMA MissingIsReported ==
    ASSUME ChecksTypeOK, NEW n \in notes, NEW k \in 1..Len(log), log[k].hash = n.entry,
           NEW x \in n.breaks \cup n.leaves, x.id > CurrentState.anchorId,
           \A i \in 1..Len(log) : log[i].hash # x.hash
    PROVE  Verdict.status = "broken"
<1> DEFINE state == CurrentState
           recorded == RecordedIn(log)
           races == {i \in 1..Len(log) : RaceBreak(state, recorded, log, i)}
           fine == {i \in 1..Len(log) :
                    /\ log[i].valid
                    /\ \/ Linked(state, log, i)
                       \/ AcceptedBreak(state, recorded, log, i)}
           tampered == {log[i].id : i \in (1..Len(log)) \ (races \cup fine)}
                        \cup MissingRecorded(state, recorded, log)
           y == [id |-> x.id, hash |-> x.hash]
<1>1. y \in {[id |-> b.id, hash |-> b.hash] : b \in recorded.breaks} \cup recorded.leaves
  <2>1. CASE x \in n.breaks
    BY <2>1 DEF RecordedIn
  <2>2. CASE x \in n.leaves
    <3>1. x \in LeafRow
      BY <2>2 DEF ChecksTypeOK, Note
    <3>2. x = y
      BY <3>1 DEF LeafRow
    <3> HIDE DEF y
    <3> QED BY <2>2, <3>2 DEF RecordedIn
  <2> QED BY <2>1, <2>2
<1>2. y.id \in MissingRecorded(state, recorded, log)
  BY <1>1 DEF MissingRecorded
<1>3. Verdict.status = IF tampered # {} THEN "broken"
                       ELSE IF races # {} THEN "race_breaks" ELSE "ok"
  BY DEF Verdict, Walk
<1> QED BY <1>2, <1>3

\* What the invariant gives.
LEMMA DeletedIsReported ==
    ASSUME JInv, DeletedInv, NEW e \in edits, Shows(e), e.id > CurrentState.anchorId,
           \E i \in 1..Len(log) : log[i].hash = e.tip
    PROVE  Verdict.status = "broken"
<1>1. PICK known \in Ledger, S \in Seq(Row) : Fits(known) /\ Remembered(S, e, known)
  BY DEF DeletedInv
<1> DEFINE n == Len(S)
           anchor == CurrentState.anchorId
           there(j) == \E i \in 1..Len(log) : log[i].hash = S[j].hash
           Gone == {j \in 1..n : S[j].id > anchor /\ ~there(j)}
<1>2. n \in Nat /\ n > 0 /\ anchor \in Nat /\ there(n)
  BY <1>1, LenProperties, CurrentStateType DEF Remembered, JInv, ChainState
<1>3. \A j \in 1..n : S[j].id \in Nat \ {0}
  BY RowTypes
<1>4. Gone # {} /\ Gone \in SUBSET Nat /\ \A j \in Gone : j <= n
  <2>1. PICK d \in 1..n : S[d].id = e.id /\ S[d].hash = e.hash
    BY <1>1 DEF Remembered
  <2>2. ~there(d)
    BY <1>1, <2>1 DEF Remembered
  <2> HIDE DEF there, anchor, n
  <2>3. d \in Gone
    BY <2>1, <2>2 DEF anchor
  <2>4. Gone \subseteq 1..n
    OBVIOUS
  <2> HIDE DEF Gone
  <2> QED BY <1>2, <2>3, <2>4
<1> HIDE DEF Gone
<1>5. PICK j \in Gone : \A k \in Gone : k <= j
  BY <1>2, <1>4, MaxOfNats
<1>6. j \in 1..(n - 1) /\ S[j].id > anchor /\ ~there(j)
  BY <1>2, <1>5 DEF Gone
<1>7. ASSUME NEW m \in (j + 1)..n PROVE there(m)
  <2>1. m \in 1..n /\ j \in 1..n /\ j < m
    BY <1>2, <1>6
  <2>2. S[m].id > anchor
    <3>1. S[j].id < S[m].id
      BY <1>1, <2>1 DEF Remembered, SortedById
    <3> QED BY <1>2, <1>3, <1>6, <2>1, <3>1
  <2>3. m \notin Gone
    BY <1>2, <1>5, <2>1
  <2> QED BY <2>1, <2>2, <2>3 DEF Gone
<1>8. CASE \E m \in (j + 1)..n : S[m].prev = S[j].hash
  <2>1. PICK m \in (j + 1)..n : S[m].prev = S[j].hash
    BY <1>8
  <2>2. PICK q \in 1..Len(log) : log[q].hash = S[m].hash
    BY <1>7
  <2>3. m \in 1..n /\ j \in 1..n
    BY <1>2, <1>6
  <2>4. /\ S[m].hash # NoHash /\ known[S[m].hash].prev = S[m].prev
        /\ S[j].hash # NoHash /\ known[S[j].hash].id = S[j].id
    BY <1>1, <2>3 DEF Remembered
  <2>5. log[q].prev = S[j].hash
    BY <1>1, <2>1, <2>2, <2>4 DEF Fits
  <2> QED BY <1>1, <1>6, <2>2, <2>4, <2>5, OrphanIsReported
<1>9. CASE \E r \in notes : \E k \in (j + 1)..n :
            /\ S[k].hash = r.entry
            /\ \E x \in r.breaks \cup r.leaves : x.id = S[j].id /\ x.hash = S[j].hash
  <2>3. PICK r \in notes : \E k \in (j + 1)..n :
            /\ S[k].hash = r.entry
            /\ \E x \in r.breaks \cup r.leaves : x.id = S[j].id /\ x.hash = S[j].hash
    BY <1>9
  <2>4. PICK x \in r.breaks \cup r.leaves : x.id = S[j].id /\ x.hash = S[j].hash
    BY <2>3
  <2>1. PICK k \in (j + 1)..n : S[k].hash = r.entry
    BY <2>3
  <2>2. PICK q \in 1..Len(log) : log[q].hash = r.entry
    BY <1>7, <2>1
  <2> QED BY <1>6, <2>1, <2>2, <2>4, MissingIsReported DEF JInv
<1> QED BY <1>1, <1>6, <1>8, <1>9 DEF Remembered, Guarded

(***************************************************************************)
(* What a step does to the rows.                                           *)
(***************************************************************************)

\* A hash that a row enters the log with.
New(hash) ==
    /\ hash \in Nat /\ hash >= FirstHash
    /\ \/ hash >= nextHash
       \/ \E w \in Writers : \E k \in 1..Len(tx[w].rows) : hash = tx[w].rows[k].hash

SameRow(a, b) == a.id = b.id /\ a.prev = b.prev /\ a.hash = b.hash

HashesGrow ==
    /\ nextHash \in Nat /\ nextHash' \in Nat /\ nextHash' >= nextHash
    /\ \A w \in Writers : \A k \in 1..Len(tx'[w].rows) :
        \/ k \in 1..Len(tx[w].rows) /\ tx'[w].rows[k] = tx[w].rows[k]
        \/ tx'[w].rows[k].hash \in Nat /\ tx'[w].rows[k].hash >= nextHash

RowsStep ==
    \A i \in 1..Len(log') :
        \/ \E j \in 1..Len(log) : SameRow(log'[i], log[j])
        \/ New(log'[i].hash) /\ log'[i].prev < log'[i].hash

\* No hash is both: what S remembers is never chained again.
LEMMA OldOrNew ==
    ASSUME BaseInv, NEW h \in Nat, New(h), Old(h) PROVE FALSE
<1>1. ~(h < h)
  OBVIOUS
<1>2. CASE h >= nextHash
  <2>1. h < nextHash /\ nextHash \in Nat
    BY DEF Old, BaseInv, TypeOK
  <2> QED BY <2>1, <1>2
<1>3. CASE \E w \in Writers : \E k \in 1..Len(tx[w].rows) : h = tx[w].rows[k].hash
  BY <1>1, <1>3 DEF Old
<1> QED BY <1>2, <1>3 DEF New

LEMMA OldStays ==
    ASSUME HashesGrow, NEW h \in Nat, Old(h) PROVE Old(h)'
<1>1. h < nextHash'
  BY DEF HashesGrow, Old
<1>2. ASSUME NEW w \in Writers, NEW k \in 1..Len(tx'[w].rows) PROVE h < tx'[w].rows[k].hash
  <2>1. CASE k \in 1..Len(tx[w].rows) /\ tx'[w].rows[k] = tx[w].rows[k]
    BY <2>1 DEF Old
  <2>2. CASE tx'[w].rows[k].hash \in Nat /\ tx'[w].rows[k].hash >= nextHash
    BY <2>2 DEF HashesGrow, Old
  <2> QED BY <2>1, <2>2 DEF HashesGrow
<1> QED BY <1>1, <1>2 DEF Old

\* What is known of the hashes so far stays known.
Agrees(known, after) == \A h \in Nat : ~New(h) => after[h] = known[h]

\* A ledger for the rows after the step.
LEMMA LedgerGrows ==
    ASSUME BaseInv, BaseInv', HashesInv', RowsStep, NEW known \in Ledger, Fits(known)
    PROVE  \E after \in Ledger :
            /\ Agrees(known, after)
            /\ \A h \in Nat : after[h].prev < FirstHash \/ after[h].prev < h
            /\ \A i \in 1..Len(log') : log'[i].hash # NoHash =>
                after[log'[i].hash].id = log'[i].id /\ after[log'[i].hash].prev = log'[i].prev
<1> DEFINE There(h) == \E i \in 1..Len(log') : log'[i].hash = h
           at(h) == CHOOSE i \in 1..Len(log') : log'[i].hash = h
           after == [h \in Nat |-> IF New(h) /\ There(h)
                                   THEN [id |-> log'[at(h)].id, prev |-> log'[at(h)].prev]
                                   ELSE known[h]]
<1>1. /\ log' \in Seq(Row) /\ log \in Seq(Row) /\ FirstHash \in Nat \ {0}
      /\ \A i \in 1..Len(log') : log'[i].id \in Nat /\ log'[i].prev \in Nat
                                  /\ log'[i].hash \in Nat
  BY BoundsAssumption, RowTypes DEF BaseInv, TypeOK
<1>2. \A h : There(h) => at(h) \in 1..Len(log') /\ log'[at(h)].hash = h
  OBVIOUS
<1>3. ASSUME NEW i \in 1..Len(log'), log'[i].hash # NoHash
      PROVE  There(log'[i].hash) /\ at(log'[i].hash) = i
  <2>1. There(log'[i].hash)
    OBVIOUS
  <2> HIDE DEF There, at
  <2> QED BY <1>2, <1>3, <2>1 DEF HashesInv
<1>4. \A h \in Nat : after[h] = IF New(h) /\ There(h)
                                THEN [id |-> log'[at(h)].id, prev |-> log'[at(h)].prev]
                                ELSE known[h]
  OBVIOUS
<1>5. \A h \in Nat : known[h] \in [id: Nat, prev: Nat]
  BY DEF Ledger
<1>10. after \in Ledger
  <2> SUFFICES ASSUME NEW h \in Nat
               PROVE  (IF New(h) /\ There(h)
                       THEN [id |-> log'[at(h)].id, prev |-> log'[at(h)].prev]
                       ELSE known[h]) \in [id: Nat, prev: Nat]
    BY DEF Ledger
  <2> HIDE DEF There, at
  <2> QED BY <1>1, <1>2, <1>5
<1> HIDE DEF There, at, after
<1>6. Agrees(known, after)
  BY <1>4 DEF Agrees
<1>7. ASSUME NEW h \in Nat PROVE after[h].prev < FirstHash \/ after[h].prev < h
  <2>1. CASE New(h) /\ There(h)
    <3>5. after[h] = [id |-> log'[at(h)].id, prev |-> log'[at(h)].prev]
      BY <1>4, <2>1
    <3>6. after[h].prev = log'[at(h)].prev
      BY <3>5
    <3>1. at(h) \in 1..Len(log') /\ log'[at(h)].hash = h /\ after[h].prev = log'[at(h)].prev
      BY <1>2, <2>1, <3>6
    <3>2. h # NoHash
      BY <1>1, <2>1 DEF New, NoHash
    <3>3. CASE \E j \in 1..Len(log) : SameRow(log'[at(h)], log[j])
      <4>1. PICK j \in 1..Len(log) : SameRow(log'[at(h)], log[j])
        BY <3>3
      <4>2. log[j].hash = h /\ log[j].prev = after[h].prev
        BY <3>1, <4>1 DEF SameRow
      <4>3. known[h].prev = after[h].prev
        BY <3>2, <4>2 DEF Fits
      <4> QED BY <4>3 DEF Fits
    <3>4. CASE log'[at(h)].prev < log'[at(h)].hash
      BY <3>1, <3>4
    <3> QED BY <3>1, <3>3, <3>4 DEF RowsStep
  <2>2. CASE ~(New(h) /\ There(h))
    BY <1>4, <2>2 DEF Fits
  <2> QED BY <2>1, <2>2
<1>8. ASSUME NEW i \in 1..Len(log'), log'[i].hash # NoHash
      PROVE  after[log'[i].hash].id = log'[i].id /\ after[log'[i].hash].prev = log'[i].prev
  <2>1. log'[i].hash \in Nat /\ There(log'[i].hash) /\ at(log'[i].hash) = i
    BY <1>1, <1>3, <1>8
  <2>2. CASE New(log'[i].hash)
    <3>1. after[log'[i].hash] = [id |-> log'[i].id, prev |-> log'[i].prev]
      BY <1>4, <2>1, <2>2
    <3> QED BY <3>1
  <2>3. CASE ~New(log'[i].hash)
    <3>1. PICK j \in 1..Len(log) : SameRow(log'[i], log[j])
      BY <2>3 DEF RowsStep
    <3>2. after[log'[i].hash] = known[log'[i].hash]
      BY <1>4, <2>1, <2>3
    <3> QED BY <1>8, <3>1, <3>2 DEF SameRow, Fits
  <2> QED BY <2>2, <2>3
<1> QED BY <1>10, <1>6, <1>7, <1>8

\* An anchor's hash, and a row's, is not to be given out again.
LEMMA AnchorsAreOld ==
    ASSUME JInv, NEW a \in Anchors \cup Rows
    PROVE  a.hash \in Nat /\ Old(a.hash)
<1>1. BaseInv /\ AnchorsInv /\ ChecksTypeOK /\ PickInv /\ HashesInv
  BY DEF JInv, RowsInv
<1>2. CASE a = Pair(CurrentState.anchorHash, CurrentState.anchorId)
  <2>1. CurrentState \in ChainState /\ Left(CurrentState.anchorHash)
    BY <1>1, LoadedAnchor DEF CurrentState
  <2>2. a.hash = CurrentState.anchorHash
    BY <1>2 DEF Pair
  <2> QED BY <2>1, <2>2 DEF Left, Old, ChainState
<1>3. CASE \E c \in Checkers : /\ check[c].pc # "idle"
                               /\ a = Pair(check[c].state.anchorHash, check[c].state.anchorId)
  <2>1. PICK c \in Checkers : /\ check[c].pc # "idle"
                              /\ a = Pair(check[c].state.anchorHash, check[c].state.anchorId)
    BY <1>3
  <2>2. check[c].state \in ChainState /\ Left(check[c].state.anchorHash)
    BY <1>1, <2>1 DEF ChecksTypeOK, Check, AnchorsInv
  <2>3. a.hash = check[c].state.anchorHash
    BY <2>1 DEF Pair
  <2> QED BY <2>2, <2>3 DEF Left, Old, ChainState
<1>4. CASE /\ purge.pc = "picked" /\ purge.newest # NoRow
           /\ a = Pair(purge.newest.hash, purge.newest.id)
  <2>1. a.hash = purge.newest.hash /\ purge.newest.hash \in Nat
    BY <1>1, <1>4 DEF Pair, BaseInv, TypeOK
  <2> QED BY <1>1, <1>4, <2>1 DEF PickInv, Old
<1>5. CASE \E i \in 1..Len(log) : a = Pair(log[i].hash, log[i].id)
  <2>1. PICK i \in 1..Len(log) : a = Pair(log[i].hash, log[i].id)
    BY <1>5
  <2>2. a.hash = log[i].hash /\ log[i].hash \in Nat
    BY <1>1, <2>1, RowTypes DEF Pair, BaseInv, TypeOK
  <2> QED BY <1>1, <2>2 DEF HashesInv, Old
<1> QED BY <1>2, <1>3, <1>4, <1>5 DEF Anchors, Rows

RecordsInv == \A r \in Records : \A b \in r.breaks : b.hash \in Nat /\ b.hash < FirstHash

LEMMA RecordsAreOld == JInv => RecordsInv
<1> SUFFICES ASSUME JInv, NEW r \in Records, NEW b \in r.breaks
             PROVE  b.hash \in Nat /\ b.hash < FirstHash
  BY DEF RecordsInv
<1>1. CASE \E n \in notes : r.breaks = n.breaks
  BY <1>1, ForksAreOld DEF JInv, OnlyForksAreRecorded, ChecksTypeOK, Note, BreakRow
<1>2. CASE \E c \in Checkers : r.breaks = check[c].result.races
  BY <1>2, ForksAreOld DEF JInv, ChecksInv, ChecksTypeOK, Check, Result, BreakRow
<1> QED BY <1>1, <1>2 DEF Records

\* A step that takes its anchors from the rows, and records what fits, keeps a ledger.
LEMMA FitsKept ==
    ASSUME JInv, JInv', RowsStep, NEW known \in Ledger, Fits(known),
           Anchors' \subseteq Anchors \cup Rows,
           \A r \in Records' : \A b \in r.breaks :
                BreakFits(known, b) \/ \E s \in Records : b \in s.breaks
    PROVE  \E after \in Ledger : Agrees(known, after) /\ Fits(after)'
<1>1. BaseInv /\ BaseInv' /\ HashesInv'
  BY DEF JInv, RowsInv
<1>2. PICK after \in Ledger :
        /\ Agrees(known, after)
        /\ \A h \in Nat : after[h].prev < FirstHash \/ after[h].prev < h
        /\ \A i \in 1..Len(log') : log'[i].hash # NoHash =>
            after[log'[i].hash].id = log'[i].id /\ after[log'[i].hash].prev = log'[i].prev
  BY <1>1, LedgerGrows
<1>3. ASSUME NEW a \in Anchors', a.hash # NoHash PROVE after[a.hash].id = a.id
  <2>1. a \in Anchors \cup Rows /\ a.hash \in Nat /\ ~New(a.hash)
    BY <1>1, AnchorsAreOld, OldOrNew
  <2>2. known[a.hash].id = a.id
    <3>1. CASE a \in Anchors
      BY <1>3, <3>1 DEF Fits
    <3>2. CASE a \in Rows
      <4>1. PICK i \in 1..Len(log) : a = Pair(log[i].hash, log[i].id)
        BY <3>2 DEF Rows
      <4>2. a.hash = log[i].hash /\ a.id = log[i].id
        BY <4>1 DEF Pair
      <4> QED BY <1>3, <4>2 DEF Fits
    <3> QED BY <2>1, <3>1, <3>2
  <2> QED BY <1>2, <2>1, <2>2 DEF Agrees
<1>4. ASSUME NEW r \in Records', NEW b \in r.breaks PROVE BreakFits(after, b)
  <2>1. BreakFits(known, b)
    BY DEF Fits
  <2>2. b.hash \in Nat /\ b.hash < FirstHash /\ FirstHash \in Nat
    <3>1. RecordsInv'
      BY RecordsAreOld, PTL
    <3> QED BY <3>1, BoundsAssumption DEF RecordsInv
  <2>3. known[b.hash].prev \in Nat /\ known[b.hash].prev < FirstHash
    <3>1. known[b.hash].prev \in Nat
      BY <2>2 DEF Ledger
    <3> QED BY <2>2, <3>1 DEF Fits
  <2>4. \A h \in Nat : h < FirstHash => after[h] = known[h]
    <3> SUFFICES ASSUME NEW h \in Nat, h < FirstHash PROVE ~New(h)
      BY <1>2 DEF Agrees
    <3> QED BY <2>2 DEF New
  <2> QED BY <2>1, <2>2, <2>3, <2>4 DEF BreakFits
<1>5. Fits(after)'
  BY <1>2, <1>3, <1>4 DEF Fits, BreakFits
<1> QED BY <1>2, <1>5

\* The log that a row was deleted from stays remembered.
LEMMA RememberedKept ==
    ASSUME JInv, HashesGrow, RowsStep, notes \subseteq notes',
           NEW known, NEW after, Agrees(known, after), NEW e, NEW S \in Seq(Row),
           Remembered(S, e, known)
    PROVE  Remembered(S, e, after)'
<1>1. BaseInv /\ \A i \in 1..Len(S) : S[i].hash \in Nat
  BY RowTypes DEF JInv
<1>2. ASSUME NEW i \in 1..Len(S)
      PROVE  /\ S[i].hash # NoHash /\ Old(S[i].hash)'
             /\ after[S[i].hash].id = S[i].id /\ after[S[i].hash].prev = S[i].prev
  <2>1. Old(S[i].hash) /\ S[i].hash \in Nat
    BY <1>1 DEF Remembered
  <2>2. ~New(S[i].hash) /\ Old(S[i].hash)'
    BY <1>1, <2>1, OldOrNew, OldStays
  <2>3. after[S[i].hash] = known[S[i].hash]
    BY <2>1, <2>2 DEF Agrees
  <2> QED BY <2>2, <2>3 DEF Remembered
<1>3. ASSUME NEW j \in 1..(Len(S) - 1) PROVE Guarded(S, j)'
  <2>1. Guarded(S, j)
    BY DEF Remembered
  <2> QED BY <2>1 DEF Guarded
<1>4. ASSUME NEW i \in 1..Len(log') PROVE log'[i].hash # e.hash
  <2>1. PICK d \in 1..Len(S) : S[d].hash = e.hash
    BY DEF Remembered
  <2>2. e.hash \in Nat /\ ~New(e.hash)
    BY <1>1, <2>1, OldOrNew DEF Remembered
  <2>3. CASE \E j \in 1..Len(log) : SameRow(log'[i], log[j])
    BY <2>3 DEF SameRow, Remembered
  <2>4. CASE New(log'[i].hash)
    BY <2>2, <2>4
  <2> QED BY <2>3, <2>4 DEF RowsStep
<1>5. /\ SortedById(S) /\ Len(S) > 0 /\ S[Len(S)].hash = e.tip
      /\ \E d \in 1..Len(S) : S[d].id = e.id /\ S[d].hash = e.hash
  BY DEF Remembered
<1> QED BY <1>2, <1>3, <1>4, <1>5 DEF Remembered, SortedById

\* What this version chains has later hashes than the history.
FromFirst ==
    /\ nextHash >= FirstHash
    /\ \A w \in Writers : \A k \in 1..Len(tx[w].rows) : tx[w].rows[k].hash >= FirstHash
    /\ \A n \in notes : n.entry >= FirstHash

\* The first d rows are gone, the others stay, and new ones come after them.
Moved(d) ==
    /\ d \in 0..Len(log) /\ Len(log') >= Len(log) - d
    /\ \A i \in 1..Len(log') : i <= Len(log) - d => SameRow(log'[i], log[i + d])
    /\ \A i \in 1..Len(log') : i > Len(log) - d =>
        /\ New(log'[i].hash) /\ log'[i].prev < log'[i].hash
        /\ \A j \in 1..(i - 1) : log'[j].hash < log'[i].hash

LEMMA MovedRows == ASSUME BaseInv, NEW d, Moved(d) PROVE RowsStep
<1>1. Len(log) \in Nat
  BY LenProperties DEF BaseInv, TypeOK
<1>2. ASSUME NEW i \in 1..Len(log'), i <= Len(log) - d
      PROVE  \E j \in 1..Len(log) : SameRow(log'[i], log[j])
  <2>1. i + d \in 1..Len(log)
    BY <1>1, <1>2 DEF Moved
  <2> QED BY <1>2, <2>1 DEF Moved
<1>3. ASSUME NEW i \in 1..Len(log'), ~(i <= Len(log) - d)
      PROVE  New(log'[i].hash) /\ log'[i].prev < log'[i].hash
  <2>1. i > Len(log) - d
    BY <1>1, <1>3 DEF Moved
  <2> QED BY <2>1 DEF Moved
<1> QED BY <1>2, <1>3 DEF RowsStep

LEMMA QuietMoved == ASSUME BaseInv, log' = log PROVE Moved(0)
<1>1. Len(log) \in Nat
  BY LenProperties DEF BaseInv, TypeOK
<1> QED BY <1>1 DEF Moved, SameRow

LEMMA AppendMoved ==
    ASSUME BaseInv, NEW pending \in Seq(PendingRow), log' = Inserted(log, pending),
           \A k \in 1..Len(pending) :
            /\ New(pending[k].hash) /\ pending[k].prev < pending[k].hash
            /\ \A i \in 1..Len(log) : log[i].hash < pending[k].hash
            /\ \A m \in 1..(k - 1) : pending[m].hash < pending[k].hash
    PROVE  Moved(0)
<1>1. log \in Seq(Row) /\ Len(log) \in Nat /\ Len(pending) \in Nat
  BY LenProperties DEF BaseInv, TypeOK
<1>2. /\ Len(log') = Len(log) + Len(pending)
      /\ \A i \in 1..Len(log) : log'[i] = log[i]
  BY <1>1, InsertedRows
<1>3. ASSUME NEW i \in 1..Len(log'), i > Len(log)
      PROVE  /\ i - Len(log) \in 1..Len(pending)
             /\ log'[i].hash = pending[i - Len(log)].hash
             /\ log'[i].prev = pending[i - Len(log)].prev
  <2>1. i - Len(log) \in 1..Len(pending) /\ i \in 1..(Len(log) + Len(pending))
    BY <1>1, <1>2, <1>3
  <2>2. log'[i] = [id |-> NextId(log) + (i - Len(log)) - 1,
                   at |-> pending[i - Len(log)].at, prev |-> pending[i - Len(log)].prev,
                   hash |-> pending[i - Len(log)].hash, valid |-> TRUE]
    BY <1>1, <1>3, <2>1, InsertedRows
  <2> QED BY <2>1, <2>2
<1>4. ASSUME NEW i \in 1..Len(log'), i > Len(log)
      PROVE  /\ New(log'[i].hash) /\ log'[i].prev < log'[i].hash
             /\ \A j \in 1..(i - 1) : log'[j].hash < log'[i].hash
  <2> DEFINE k == i - Len(log)
  <2>1. k \in 1..Len(pending) /\ log'[i].hash = pending[k].hash /\ log'[i].prev = pending[k].prev
    BY <1>3, <1>4
  <2>2. ASSUME NEW j \in 1..(i - 1) PROVE log'[j].hash < log'[i].hash
    <3>1. CASE j <= Len(log)
      <4>1. j \in 1..Len(log)
        BY <1>1, <3>1
      <4> QED BY <1>2, <2>1, <4>1
    <3>2. CASE j > Len(log)
      <4>1. j \in 1..Len(log') /\ j - Len(log) \in 1..(k - 1)
        BY <1>1, <1>2, <3>2
      <4>2. log'[j].hash = pending[j - Len(log)].hash
        BY <1>3, <3>2, <4>1
      <4> HIDE DEF k
      <4> QED BY <2>1, <4>1, <4>2
    <3> QED BY <1>1, <3>1, <3>2
  <2> HIDE DEF k
  <2> QED BY <2>1, <2>2
<1> QED BY <1>1, <1>2, <1>4 DEF Moved, SameRow

\* The tip has an older hash than what is chained to it.
LEMMA TipIsOld ==
    ASSUME JInv PROVE CurrentChainTip(log, chainStates) \in Nat /\ Old(CurrentChainTip(log, chainStates))
<1>1. /\ BaseInv /\ log \in Seq(Row) /\ Len(log) \in Nat /\ AnchorHash(chainStates) \in Nat
      /\ Left(AnchorHash(chainStates)) /\ HashesInv
  BY AnchorType, LenProperties DEF JInv, BaseInv, TypeOK, AnchorsInv, RowsInv
<1>2. CASE log # <<>> /\ log[Len(log)].hash # NoHash
  <2>1. Len(log) \in 1..Len(log)
    BY <1>1, <1>2, EmptySeq
  <2>2. log[Len(log)].hash \in Nat
    BY <1>1, <2>1, RowTypes
  <2> QED BY <1>1, <1>2, <2>1, <2>2 DEF HashesInv, Old, CurrentChainTip
<1>3. CASE ~(log # <<>> /\ log[Len(log)].hash # NoHash)
  BY <1>1, <1>3 DEF Left, Old, CurrentChainTip
<1> QED BY <1>2, <1>3

LEMMA CommitMoved ==
    ASSUME JInv, FromFirst, NEW w \in Writers, Commit(w) PROVE Moved(0)
<1>1. /\ BaseInv /\ HashesInv /\ log' = Inserted(log, tx[w].rows)
      /\ tx[w].rows \in Seq(PendingRow)
  BY DEF Commit, JInv, BaseInv, TypeOK, RowsInv
<1>2. /\ Len(tx[w].rows) \in Nat
      /\ \A k \in 1..Len(tx[w].rows) : tx[w].rows[k] \in PendingRow
  BY <1>1, LenProperties, ElementOfSeq
<1>3. ASSUME NEW k \in 1..Len(tx[w].rows)
      PROVE  New(tx[w].rows[k].hash) /\ tx[w].rows[k].prev < tx[w].rows[k].hash
  <2>1. tx[w].rows[k].hash \in Nat /\ tx[w].rows[k].hash >= FirstHash
    BY <1>2 DEF PendingRow, FromFirst
  <2>2. CASE k = 1
    <3>1. tx[w].rows[k].prev = CurrentChainTip(log, chainStates)
      BY <2>2 DEF JInv, BaseInv, PendingInv
    <3> QED BY <2>1, <3>1, TipIsOld DEF New, Old
  <2>3. CASE k # 1
    <3>1. tx[w].rows[k].prev = tx[w].rows[k - 1].hash
      BY <2>3 DEF JInv, BaseInv, PendingInv
    <3>2. k - 1 \in 1..(k - 1)
      BY <1>2, <2>3
    <3> QED BY <1>1, <2>1, <3>1, <3>2 DEF New, HashesInv
  <2> QED BY <2>2, <2>3
<1> QED BY <1>1, <1>3, AppendMoved DEF HashesInv

\* So has the tip that a recording sees, be it the anchor of before.
LEMMA TipRecordedIsOld ==
    ASSUME JInv, NEW c \in Checkers, check[c].pc # "idle"
    PROVE  TipRecorded(c) \in Nat /\ Old(TipRecorded(c))
<1>1. /\ BaseInv /\ log \in Seq(Row) /\ Len(log) \in Nat /\ up
      /\ Left(check[c].state.anchorHash) /\ HashesInv
  BY LenProperties DEF JInv, BaseInv, TypeOK, AnchorsInv, RowsInv, ChecksInv
<1>2. TipRecorded(c) \in Nat
  BY <1>1, TipRecordedType
<1>3. CASE log # <<>>
  <2>1. Len(log) \in 1..Len(log) /\ TipRecorded(c) = log[Len(log)].hash
    BY <1>1, <1>3, EmptySeq, TipRecordedType
  <2>2. log[Len(log)].hash # NoHash
    BY <1>1, <2>1 DEF BaseInv, HashedInv
  <2> QED BY <1>1, <1>2, <2>1, <2>2 DEF HashesInv, Old
<1>4. CASE log = <<>>
  <2>1. TipRecorded(c) = check[c].state.anchorHash
    BY <1>1, <1>4, TipRecordedType
  <2> QED BY <1>1, <1>2, <2>1 DEF Left, Old
<1> QED BY <1>3, <1>4

LEMMA RecordCommitMoved ==
    ASSUME JInv, FromFirst, NEW c \in Checkers, RecordCommit(c) PROVE Moved(0)
<1> DEFINE entry == [at |-> check[c].at, prev |-> TipRecorded(c), hash |-> nextHash]
           pending == <<entry>>
<1>1. /\ log' = Inserted(log, pending) /\ nextHash \in Nat
      /\ check[c] \in Check /\ BaseInv /\ HashesInv
  BY DEF RecordCommit, JInv, ChecksTypeOK, BaseInv, TypeOK, RowsInv
<1>2. TipRecorded(c) \in Nat /\ Old(TipRecorded(c))
  BY TipRecordedIsOld DEF RecordCommit
<1>3. /\ pending \in Seq(PendingRow) /\ Len(pending) = 1
      /\ pending[1].hash = nextHash /\ pending[1].prev = TipRecorded(c)
  <2>1. entry \in PendingRow /\ entry.hash = nextHash /\ entry.prev = TipRecorded(c)
    BY <1>1, <1>2 DEF PendingRow, Check
  <2> HIDE DEF entry
  <2> QED BY <2>1
<1> HIDE DEF pending
<1>4. ASSUME NEW k \in 1..Len(pending)
      PROVE  /\ New(pending[k].hash) /\ pending[k].prev < pending[k].hash
             /\ \A i \in 1..Len(log) : log[i].hash < pending[k].hash
             /\ \A m \in 1..(k - 1) : pending[m].hash < pending[k].hash
  <2>1. k = 1
    BY <1>3
  <2>2. New(nextHash)
    BY <1>1 DEF New, FromFirst
  <2> QED BY <1>1, <1>2, <1>3, <2>1, <2>2 DEF Old, HashesInv
<1> QED BY <1>1, <1>3, <1>4, AppendMoved

LEMMA PurgeDeleteMoved == ASSUME BaseInv, PurgeDelete PROVE \E d \in Nat : Moved(d)
<1>1. PICK k \in 0..Len(log) : log' = SubSeq(log, k + 1, Len(log))
  BY DEF PurgeDelete
<1>2. log \in Seq(Row) /\ Len(log) \in Nat
  BY LenProperties DEF BaseInv, TypeOK
<1>3. /\ Len(log') = Len(log) - k
      /\ \A i \in 1..(Len(log) - k) : log'[i] = log[k + i]
  BY <1>1, <1>2, SuffixRows
<1>4. \A i \in 1..Len(log') : i + k = k + i /\ i \in 1..(Len(log) - k)
  BY <1>2, <1>3
<1>5. Moved(k)
  BY <1>2, <1>3, <1>4 DEF Moved, SameRow
<1> QED BY <1>2, <1>5

LEMMA BootMoved == ASSUME JInv, FromFirst, Boot PROVE \E d \in Nat : Moved(d)
<1>1. /\ BaseInv /\ log' = Backfilled /\ nextHash \in Nat /\ log \in Seq(Row) /\ Len(log) \in Nat
      /\ AnchorHash(chainStates) \in Nat /\ AnchorHash(chainStates) < nextHash
  BY LenProperties, AnchorType DEF Boot, JInv, BaseInv, TypeOK, AnchorsInv, Left
<1>2. CASE Unhashed = {}
  <2>1. log' = log
    BY <1>1, <1>2, BackfilledRows DEF BaseInv
  <2> QED BY <1>1, <2>1, QuietMoved
<1>3. CASE Unhashed # {}
  <2>1. Len(log') = Len(log)
    BY <1>1, <1>3, BackfilledRows DEF BaseInv
  <2>5. \A i \in 1..Len(log) :
            log'[i] = [log[i] EXCEPT
                        !.prev = IF i = 1 THEN AnchorHash(chainStates)
                                 ELSE nextHash + (i - 1) - 1,
                        !.hash = nextHash + i - 1,
                        !.valid = TRUE]
    BY <1>1, <1>3, BackfilledRows DEF BaseInv
  <2>2. ASSUME NEW i \in 1..Len(log')
        PROVE  log'[i].hash = nextHash + i - 1 /\ log'[i].prev < nextHash + i - 1
    <3>1. log[i] \in Row
      BY <1>1, <2>1, ElementOfSeq
    <3> DEFINE p == IF i = 1 THEN AnchorHash(chainStates) ELSE nextHash + (i - 1) - 1
               h == nextHash + i - 1
    <3>2. log'[i] = [log[i] EXCEPT !.prev = p, !.hash = h, !.valid = TRUE]
      BY <2>1, <2>5
    <3>3. p < h
      BY <1>1, <2>1
    <3> HIDE DEF p, h
    <3>4. log'[i].hash = h /\ log'[i].prev = p
      BY <3>1, <3>2 DEF Row
    <3> QED BY <3>3, <3>4 DEF h
  <2>3. ASSUME NEW i \in 1..Len(log')
        PROVE  /\ New(log'[i].hash) /\ log'[i].prev < log'[i].hash
               /\ \A j \in 1..(i - 1) : log'[j].hash < log'[i].hash
    <3>1. log'[i].hash = nextHash + i - 1 /\ log'[i].prev < log'[i].hash
      BY <2>2
    <3>2. New(log'[i].hash)
      BY <1>1, <2>1, <3>1, BoundsAssumption DEF New, FromFirst
    <3>3. ASSUME NEW j \in 1..(i - 1) PROVE log'[j].hash < log'[i].hash
      <4>1. j \in 1..Len(log')
        BY <1>1, <2>1
      <4>2. log'[j].hash = nextHash + j - 1
        BY <2>2, <4>1
      <4> QED BY <1>1, <2>1, <3>1, <4>2
    <3> QED BY <3>1, <3>2, <3>3
  <2>4. Moved(Len(log))
    <3>1. \A i \in 1..Len(log') : ~(i <= Len(log) - Len(log))
      BY <1>1, <2>1
    <3>2. Len(log) \in 0..Len(log) /\ Len(log') >= Len(log) - Len(log)
      BY <1>1, <2>1
    <3> QED BY <2>3, <3>1, <3>2 DEF Moved
  <2> QED BY <1>1, <2>4
<1> QED BY <1>2, <1>3

LEMMA EditRowMoved == ASSUME BaseInv, NEW i \in 1..Len(log), EditRow(i) PROVE Moved(0)
<1>1. /\ Len(log') = Len(log) /\ Len(log) \in Nat
      /\ \A j \in 1..Len(log) : j # i => log'[j] = log[j]
      /\ log'[i].id = log[i].id /\ log'[i].prev = log[i].prev /\ log'[i].hash = log[i].hash
  BY EditedRows
<1>2. \A j \in 1..Len(log) : SameRow(log'[j], log[j]) /\ j + 0 = j
  BY <1>1 DEF SameRow
<1> QED BY <1>1, <1>2 DEF Moved

LEMMA DeleteRowRows ==
    ASSUME JInv, NEW i \in 1..Len(log), DeleteRow(i) PROVE RowsStep
<1>1. /\ Len(log') = Len(log) - 1 /\ Len(log) \in Nat
      /\ \A j \in 1..(Len(log) - 1) :
            log'[j] = IF j < i THEN log[j] ELSE log[j + 1]
  BY DeletedRows
<1>2. ASSUME NEW j \in 1..Len(log') PROVE \E k \in 1..Len(log) : log'[j] = log[k]
  <2>1. j \in 1..(Len(log) - 1) /\ j \in 1..Len(log) /\ j + 1 \in 1..Len(log)
    BY <1>1
  <2>2. log'[j] = IF j < i THEN log[j] ELSE log[j + 1]
    BY <1>1, <2>1
  <2> QED BY <2>1, <2>2
<1> QED BY <1>2 DEF RowsStep, SameRow

LEMMA InvalidStayGrows == ASSUME InvalidStay PROVE HashesGrow
BY DEF InvalidStay, HashesGrow

LEMMA HashesGrowNext == ASSUME JInv, [INext]_ivars PROVE HashesGrow
<1>1. BaseInv /\ HashesInv /\ nextHash \in Nat
  BY DEF JInv, RowsInv, BaseInv, TypeOK
<1>2. ASSUME UNCHANGED <<nextHash, tx>> PROVE HashesGrow
  BY <1>1, <1>2 DEF HashesGrow
<1>3. CASE OutOfBandEdit \/ UNCHANGED ivars
  BY <1>2, <1>3 DEF OutOfBandEdit, EditRow, DeleteRow, RenumberRow, ivars, vars
<1>4. CASE \/ \E w \in Writers : WriterStep(w)
           \/ PurgeScan \/ PurgePickAnchor \/ PurgeFail \/ Boot \/ Tick \/ PurgeDelete
  <2>1. CASE PurgeScan \/ PurgePickAnchor \/ PurgeFail \/ Tick \/ PurgeDelete
    BY <1>2, <2>1 DEF PurgeScan, PurgePickAnchor, PurgeFail, Tick, PurgeDelete
  <2>2. CASE \E w \in Writers : WriterStep(w)
    BY <1>1, <2>2, WriterEdited, InvalidStayGrows
  <2>3. CASE Boot
    BY <1>1, <2>3, BootEdited, InvalidStayGrows
  <2> QED BY <1>4, <2>1, <2>2, <2>3
<1>5. CASE Crash
  <2>1. log' = log /\ nextHash' = nextHash /\ \A w \in Writers : tx'[w].rows = <<>>
    BY <1>5 DEF Crash, IdleTx
  <2> QED BY <1>1, <2>1, QuietEdited, InvalidStayGrows
<1>6. ASSUME NEW c \in Checkers, CheckStep(c) PROVE HashesGrow
  <2>1. CASE RecordCommit(c)
    BY <2>1, RecordCommitEdited, InvalidStayGrows
  <2>2. CASE ~RecordCommit(c)
    <3>1. UNCHANGED <<nextHash, tx>>
      BY <1>6, <2>2 DEF CheckStep, CheckLoad, CheckList, CheckWalk, CheckLeaves,
         CheckReload, CheckCommit, CheckFail, vars
    <3> QED BY <1>2, <3>1
  <2> QED BY <2>1, <2>2
<1> QED BY <1>3, <1>4, <1>5, <1>6 DEF INext

\* Recordings are only added, under a new hash.
LEMMA NotesNext ==
    ASSUME [INext]_ivars
    PROVE  notes \subseteq notes' /\ \A n \in notes' : n \in notes \/ n.entry = nextHash
<1>1. CASE \E c \in Checkers : RecordCommit(c)
  BY <1>1 DEF RecordCommit
<1>2. CASE ~\E c \in Checkers : RecordCommit(c)
  <2>1. notes' = notes
    BY <1>2 DEF INext, OutOfBandEdit, EditRow, DeleteRow, RenumberRow, CheckStep, CheckLoad,
       CheckList, CheckWalk, CheckLeaves, CheckReload, CheckCommit, CheckFail, ivars
  <2> QED BY <2>1
<1> QED BY <1>1, <1>2

LEMMA FromFirstNext == ASSUME JInv, FromFirst, [INext]_ivars PROVE FromFirst'
<1>1. HashesGrow /\ \A n \in notes' : n \in notes \/ n.entry = nextHash
  BY HashesGrowNext, NotesNext
<1>2. FirstHash \in Nat
  BY BoundsAssumption
<1>3. nextHash' >= FirstHash /\ \A n \in notes' : n.entry >= FirstHash
  BY <1>1, <1>2 DEF HashesGrow, FromFirst
<1>4. ASSUME NEW w \in Writers, NEW k \in 1..Len(tx'[w].rows)
      PROVE  tx'[w].rows[k].hash >= FirstHash
  <2>1. CASE k \in 1..Len(tx[w].rows) /\ tx'[w].rows[k] = tx[w].rows[k]
    BY <2>1 DEF FromFirst
  <2>2. CASE tx'[w].rows[k].hash \in Nat /\ tx'[w].rows[k].hash >= nextHash
    BY <1>1, <1>2, <2>2 DEF HashesGrow, FromFirst
  <2> QED BY <1>1, <2>1, <2>2 DEF HashesGrow
<1> QED BY <1>3, <1>4 DEF FromFirst

\* No row is given another id.
NoneRenumbered == ~\E i \in 1..Len(log) : RenumberRow(i)

\* Unless a row is deleted or renumbered from outside, the rows that stay keep their order.
LEMMA MovedNext ==
    ASSUME JInv, FromFirst, [INext]_ivars, NoneRenumbered,
           ~\E i \in 1..Len(log) : DeleteRow(i)
    PROVE  \E d \in Nat : Moved(d)
<1>1. BaseInv
  BY DEF JInv
<1>2. ASSUME log' = log PROVE \E d \in Nat : Moved(d)
  BY <1>1, <1>2, QuietMoved
<1>3. CASE OutOfBandEdit
  BY <1>1, <1>3, EditRowMoved DEF OutOfBandEdit, NoneRenumbered
<1>4. CASE \E w \in Writers : WriterStep(w)
  <2>1. PICK w \in Writers : WriterStep(w)
    BY <1>4
  <2>2. CASE Commit(w)
    BY <2>2, CommitMoved
  <2>3. CASE ~Commit(w)
    <3>1. log' = log
      BY <2>1, <2>3 DEF WriterStep, FlushEarlier, BuildEntry, TakeWriteLock, ChainNewEntry,
         Rollback
    <3> QED BY <1>2, <3>1
  <2> QED BY <2>2, <2>3
<1>5. CASE PurgeScan \/ PurgePickAnchor \/ PurgeFail \/ Tick \/ Crash \/ UNCHANGED ivars
  <2>1. log' = log
    BY <1>5 DEF PurgeScan, PurgePickAnchor, PurgeFail, Tick, Crash, ivars, vars
  <2> QED BY <1>2, <2>1
<1>6. ASSUME NEW c \in Checkers, CheckStep(c) PROVE \E d \in Nat : Moved(d)
  <2>1. CASE RecordCommit(c)
    BY <2>1, RecordCommitMoved
  <2>2. CASE ~RecordCommit(c)
    <3>1. log' = log
      BY <1>6, <2>2 DEF CheckStep, CheckLoad, CheckList, CheckWalk, CheckLeaves,
         CheckReload, CheckCommit, CheckFail, vars
    <3> QED BY <1>2, <3>1
  <2> QED BY <2>1, <2>2
<1> QED BY <1>1, <1>3, <1>4, <1>5, <1>6, PurgeDeleteMoved, BootMoved DEF INext

LEMMA RowsNext == ASSUME JInv, FromFirst, [INext]_ivars, NoneRenumbered PROVE RowsStep
<1>1. BaseInv
  BY DEF JInv
<1> QED BY <1>1, DeleteRowRows, MovedNext, MovedRows

(***************************************************************************)
(* What a step does to the anchors.                                        *)
(***************************************************************************)

\* The anchor moves to the one that the sweep has picked, or not at all.
LEMMA CurrentAnchorNext ==
    ASSUME JInv, [INext]_ivars
    PROVE  Pair(CurrentState'.anchorHash, CurrentState'.anchorId) \in Anchors
<1>1. Pair(CurrentState.anchorHash, CurrentState.anchorId) \in Anchors
  BY DEF Anchors
<1>2. ASSUME SameAnchor(CurrentState, CurrentState')
      PROVE  Pair(CurrentState'.anchorHash, CurrentState'.anchorId) \in Anchors
  BY <1>1, <1>2 DEF SameAnchor
<1>3. ASSUME chainStates' = chainStates
      PROVE  Pair(CurrentState'.anchorHash, CurrentState'.anchorId) \in Anchors
  <2>1. CurrentState' = CurrentState
    BY <1>3 DEF CurrentState
  <2> QED BY <1>1, <2>1
<1>4. CASE PurgeDelete
  <2>1. BaseInv /\ purge.pc = "picked" /\ chainStates' = AnchorWritten(chainStates)
    BY <1>4 DEF JInv, PurgeDelete
  <2>2. CASE purge.newest # NoRow /\ (purge.stateRow # 0 \/ chainStates = <<>>)
    <3>1. CurrentState'.anchorId = purge.newest.id /\ CurrentState'.anchorHash = purge.newest.hash
      BY <2>1, <2>2, AnchorWrittenState
    <3>2. Pair(purge.newest.hash, purge.newest.id) \in Anchors
      BY <2>1, <2>2 DEF Anchors
    <3> QED BY <3>1, <3>2
  <2>3. CASE ~(purge.newest # NoRow /\ (purge.stateRow # 0 \/ chainStates = <<>>))
    BY <1>2, <2>1, <2>3, AnchorWrittenState
  <2> QED BY <2>2, <2>3
<1>5. CASE \E c \in Checkers : CheckCommit(c) \/ RecordCommit(c)
  BY <1>2, <1>5, CheckCommitAnchor, RecordCommitAnchor
<1>6. CASE ~PurgeDelete /\ ~\E c \in Checkers : CheckCommit(c) \/ RecordCommit(c)
  <2>1. chainStates' = chainStates
    BY <1>6 DEF INext, WriterStep, FlushEarlier, BuildEntry, TakeWriteLock, ChainNewEntry,
       Commit, Rollback, PurgeScan, PurgePickAnchor, PurgeFail, Boot, Tick, Crash,
       OutOfBandEdit, EditRow, DeleteRow, RenumberRow, CheckStep, CheckLoad, CheckList,
       CheckWalk, CheckLeaves, CheckReload, CheckFail, ivars, vars
  <2> QED BY <1>3, <2>1
<1> QED BY <1>4, <1>5, <1>6

\* The sweep picks a row of the log.
LEMMA PickedAnchorNext ==
    ASSUME JInv, [INext]_ivars, purge'.pc = "picked", purge'.newest # NoRow
    PROVE  Pair(purge'.newest.hash, purge'.newest.id) \in Anchors \cup Rows
<1>1. ASSUME purge' = purge
      PROVE  Pair(purge'.newest.hash, purge'.newest.id) \in Anchors \cup Rows
  BY <1>1 DEF Anchors
<1>2. CASE PurgePickAnchor
  <2>1. purge \in [pc: {"idle", "scanned", "picked"}, cutoff: Int, first: Nat,
                  newest: [id: Nat, hash: Nat], stateRow: {0, 1}]
    BY DEF JInv, BaseInv, TypeOK
  <2>2. PICK k \in 0..Len(log) :
            purge' = [purge EXCEPT
                        !.pc = "picked",
                        !.newest = IF k = 0 THEN NoRow
                                   ELSE [id |-> log[k].id, hash |-> log[k].hash],
                        !.stateRow = IF k # 0 /\ chainStates # <<>> THEN 1 ELSE 0]
    BY <1>2 DEF PurgePickAnchor
  <2>3. purge'.newest = IF k = 0 THEN NoRow ELSE [id |-> log[k].id, hash |-> log[k].hash]
    BY <2>1, <2>2
  <2>4. k \in 1..Len(log) /\ purge'.newest.id = log[k].id /\ purge'.newest.hash = log[k].hash
    <3>1. k # 0
      BY <2>3
    <3>2. purge'.newest = [id |-> log[k].id, hash |-> log[k].hash]
      BY <2>3, <3>1
    <3> QED BY <3>1, <3>2
  <2> QED BY <2>4 DEF Rows
<1>3. CASE ~PurgePickAnchor
  <2>1. purge' = purge \/ purge' = IdlePurge \/ PurgeScan
    BY <1>3 DEF INext, WriterStep, FlushEarlier, BuildEntry, TakeWriteLock, ChainNewEntry,
       Commit, Rollback, PurgeDelete, PurgeFail, Boot, Tick, Crash, OutOfBandEdit, EditRow,
       DeleteRow, RenumberRow, CheckStep, CheckLoad, CheckList, CheckWalk, CheckLeaves,
       CheckReload, CheckFail, CheckCommit, RecordCommit, ivars, vars
  <2>2. purge'.pc # "picked" \/ purge' = purge
    <3>1. CASE purge' = IdlePurge
      BY <3>1 DEF IdlePurge
    <3>2. CASE PurgeScan
      BY <3>2 DEF PurgeScan, IdlePurge
    <3> QED BY <2>1, <3>1, <3>2
  <2> QED BY <1>1, <2>2
<1> QED BY <1>2, <1>3

\* A check keeps the state row it has loaded, or takes the current one.
CheckKeepsAnchor(c) ==
    check'[c].pc # "idle" =>
        \/ check[c].pc # "idle" /\ check'[c].state = check[c].state
        \/ check'[c].state = CurrentState

LEMMA CheckStepAnchor ==
    ASSUME ChecksTypeOK, NEW c \in Checkers, CheckStep(c), NEW d \in Checkers
    PROVE  CheckKeepsAnchor(d)
<1>1. check \in [Checkers -> Check] /\ check[c] \in Check
  BY DEF ChecksTypeOK
<1>2. ASSUME NEW entry, check' = [check EXCEPT ![c] = entry],
             entry.pc # "idle" => \/ check[c].pc # "idle" /\ entry.state = check[c].state
                                  \/ entry.state = CurrentState
      PROVE  CheckKeepsAnchor(d)
  <2>1. check'[d] = IF d = c THEN entry ELSE check[d]
    BY <1>1, <1>2
  <2> QED BY <1>2, <2>1 DEF CheckKeepsAnchor
<1>3. IdleCheck.pc = "idle"
  BY DEF IdleCheck
<1>4. CASE CheckFail(c) \/ CheckCommit(c) \/ RecordCommit(c)
  <2>1. check' = [check EXCEPT ![c] = IdleCheck]
    BY <1>4 DEF CheckFail, CheckCommit, RecordCommit
  <2> QED BY <1>2, <1>3, <2>1
<1>5. CASE CheckLoad(c)
  <2>1. PICK goal : check' = [check EXCEPT ![c] = [IdleCheck EXCEPT
                    !.pc = "loaded", !.goal = goal,
                    !.found = chainStates # <<>>,
                    !.state = IF chainStates = <<>> THEN NewChainState
                              ELSE chainStates[1]]]
    BY <1>5 DEF CheckLoad
  <2> DEFINE entry == [IdleCheck EXCEPT
                    !.pc = "loaded", !.goal = goal,
                    !.found = chainStates # <<>>,
                    !.state = IF chainStates = <<>> THEN NewChainState
                              ELSE chainStates[1]]
  <2>2. entry.state = CurrentState
    BY DEF IdleCheck, CurrentState
  <2>3. check' = [check EXCEPT ![c] = entry]
    BY <2>1
  <2> HIDE DEF entry
  <2> QED BY <1>2, <2>2, <2>3
<1>6. CASE CheckList(c)
  <2> DEFINE entry == [check[c] EXCEPT !.pc = "listed", !.recorded = RecordedIn(log)]
  <2>1. check' = [check EXCEPT ![c] = entry] /\ check[c].pc # "idle"
    BY <1>1, <1>6 DEF CheckList
  <2>2. entry.state = check[c].state
    BY <1>1 DEF Check
  <2> HIDE DEF entry
  <2> QED BY <1>2, <2>1, <2>2
<1>7. CASE CheckReload(c)
  <2> DEFINE state == IF chainStates = <<>> THEN NewChainState ELSE chainStates[1]
             entry == [check[c] EXCEPT !.pc = "reloaded", !.found = chainStates # <<>>,
                                       !.state = state]
  <2>1. check' = [check EXCEPT ![c] = entry] /\ check[c].pc # "idle"
    BY <1>1, <1>7 DEF CheckReload
  <2>2. entry.state = CurrentState
    BY <1>1 DEF Check, CurrentState
  <2> HIDE DEF entry
  <2> QED BY <1>2, <2>1, <2>2
<1>8. CASE CheckWalk(c)
  <2> DEFINE result == Walk(check[c].state, check[c].recorded, log)
             none == [result EXCEPT !.races = {}]
             walked == [check[c] EXCEPT !.pc = "walked", !.recorded = NoRecord]
             verified == [walked EXCEPT !.result = none]
             raced == [walked EXCEPT !.result = result]
  <2>1. /\ check[c].pc # "idle"
        /\ \/ check' = [check EXCEPT ![c] = verified]
           \/ check' = [check EXCEPT ![c] = IdleCheck]
           \/ check' = [check EXCEPT ![c] = raced]
    BY <1>8 DEF CheckWalk
  <2> HIDE DEF result, none
  <2>2. verified.state = check[c].state /\ raced.state = check[c].state
    BY <1>1 DEF Check
  <2> HIDE DEF walked, verified, raced
  <2> QED BY <1>2, <1>3, <2>1, <2>2
<1>9. CASE CheckLeaves(c)
  <2> DEFINE leaves == LeafRows(check[c].state, log, {b.id : b \in check[c].result.races})
             entry == [check[c] EXCEPT !.pc = "drafted", !.leaves = leaves, !.at = now]
  <2>1. check' = [check EXCEPT ![c] = entry] /\ check[c].pc # "idle"
    BY <1>1, <1>9 DEF CheckLeaves
  <2> HIDE DEF leaves
  <2>2. entry.state = check[c].state
    BY <1>1 DEF Check
  <2> HIDE DEF entry
  <2> QED BY <1>2, <2>1, <2>2
<1> QED BY <1>4, <1>5, <1>6, <1>7, <1>8, <1>9 DEF CheckStep

LEMMA CheckAnchorsNext ==
    ASSUME JInv, [INext]_ivars, NEW d \in Checkers PROVE CheckKeepsAnchor(d)
<1>1. ChecksTypeOK /\ check \in [Checkers -> Check] /\ check[d] \in Check
  BY DEF JInv, ChecksTypeOK
<1>2. ASSUME check'[d] = check[d] PROVE CheckKeepsAnchor(d)
  BY <1>2 DEF CheckKeepsAnchor
<1>3. CASE check' = [c \in Checkers |-> [check[c] EXCEPT
                            !.emptied = @ \/ (check[c].pc # "idle" /\ log' = <<>>)]]
  <2> DEFINE emptied == check[d].emptied \/ (check[d].pc # "idle" /\ log' = <<>>)
  <2>1. check'[d] = [check[d] EXCEPT !.emptied = emptied]
    BY <1>3
  <2> HIDE DEF emptied
  <2>2. check'[d].state = check[d].state /\ check'[d].pc = check[d].pc
    BY <1>1, <2>1 DEF Check
  <2> QED BY <2>2 DEF CheckKeepsAnchor
<1>4. CASE check' = [c \in Checkers |-> IdleCheck]
  BY <1>4 DEF CheckKeepsAnchor, IdleCheck
<1>5. CASE \E c \in Checkers : CheckStep(c)
  BY <1>1, <1>5, CheckStepAnchor
<1>6. CASE OutOfBandEdit
  BY <1>2, <1>6 DEF OutOfBandEdit, EditRow, DeleteRow, RenumberRow
<1> QED BY <1>2, <1>3, <1>4, <1>5, <1>6 DEF INext, ivars

LEMMA AnchorsNext == ASSUME JInv, [INext]_ivars PROVE Anchors' \subseteq Anchors \cup Rows
<1>1. Pair(CurrentState'.anchorHash, CurrentState'.anchorId) \in Anchors
  BY CurrentAnchorNext
<1>2. ASSUME NEW c \in Checkers, check'[c].pc # "idle"
      PROVE  Pair(check'[c].state.anchorHash, check'[c].state.anchorId) \in Anchors
  BY <1>2, CheckAnchorsNext DEF CheckKeepsAnchor, Anchors
<1>3. ASSUME purge'.pc = "picked", purge'.newest # NoRow
      PROVE  Pair(purge'.newest.hash, purge'.newest.id) \in Anchors \cup Rows
  BY <1>3, PickedAnchorNext
<1> QED BY <1>1, <1>2, <1>3 DEF Anchors, Pair

(***************************************************************************)
(* What a step may record.                                                 *)
(***************************************************************************)

\* The races that c's walk finds, and the draft it makes of those it has found.
Found(c) == Walk(check[c].state, check[c].recorded, log).races

Draft(c) ==
    [breaks |-> check[c].result.races,
     leaves |-> LeafRows(check[c].state, log, {b.id : b \in check[c].result.races})]

DraftOf(entry) == [breaks |-> entry.result.races, leaves |-> entry.leaves]

\* What a step does to what check d will record.
CheckMoves(d) ==
    \/ /\ check'[d].pc = check[d].pc /\ check'[d].state = check[d].state
       /\ check'[d].result = check[d].result /\ check'[d].leaves = check[d].leaves
    \/ check'[d].result.races = {} /\ check'[d].pc # "drafted"
    \/ check'[d].result = check[d].result /\ check'[d].pc \in {"listed", "reloaded"}
    \/ /\ CheckWalk(d) /\ check'[d].pc = "walked" /\ check'[d].state = check[d].state
       /\ check'[d].result.races = Found(d)
    \/ /\ CheckLeaves(d) /\ check'[d].pc = "drafted" /\ check'[d].result = check[d].result
       /\ DraftOf(check'[d]) = Draft(d)

LEMMA CheckStepMoves ==
    ASSUME ChecksTypeOK, NEW c \in Checkers, CheckStep(c), NEW d \in Checkers
    PROVE  CheckMoves(d)
<1>1. check \in [Checkers -> Check] /\ check[c] \in Check
  BY DEF ChecksTypeOK
<1>2. ASSUME NEW entry, check' = [check EXCEPT ![c] = entry]
      PROVE  IF d = c THEN check'[d] = entry ELSE CheckMoves(d)
  <2>1. check'[d] = IF d = c THEN entry ELSE check[d]
    BY <1>1, <1>2
  <2> QED BY <2>1 DEF CheckMoves
<1>3. ASSUME check' = [check EXCEPT ![c] = IdleCheck] PROVE CheckMoves(d)
  <2>1. IdleCheck.result.races = {} /\ IdleCheck.pc # "drafted"
    BY DEF IdleCheck, NoResult
  <2> HIDE DEF IdleCheck
  <2> QED BY <1>2, <1>3, <2>1 DEF CheckMoves
<1>4. CASE CheckFail(c) \/ CheckCommit(c) \/ RecordCommit(c)
  BY <1>3, <1>4 DEF CheckFail, CheckCommit, RecordCommit
<1>5. CASE CheckLoad(c)
  <2>1. PICK goal : check' = [check EXCEPT ![c] = [IdleCheck EXCEPT
                    !.pc = "loaded", !.goal = goal,
                    !.found = chainStates # <<>>,
                    !.state = IF chainStates = <<>> THEN NewChainState
                              ELSE chainStates[1]]]
    BY <1>5 DEF CheckLoad
  <2> DEFINE entry == [IdleCheck EXCEPT
                    !.pc = "loaded", !.goal = goal,
                    !.found = chainStates # <<>>,
                    !.state = IF chainStates = <<>> THEN NewChainState
                              ELSE chainStates[1]]
  <2>2. entry.result.races = {} /\ entry.pc # "drafted"
    BY DEF IdleCheck, NoResult
  <2>3. check' = [check EXCEPT ![c] = entry]
    BY <2>1
  <2> HIDE DEF entry
  <2> QED BY <1>2, <2>2, <2>3 DEF CheckMoves
<1>6. CASE CheckList(c)
  <2> DEFINE entry == [check[c] EXCEPT !.pc = "listed", !.recorded = RecordedIn(log)]
  <2>1. check' = [check EXCEPT ![c] = entry]
    BY <1>1, <1>6 DEF CheckList
  <2>2. entry.result = check[c].result /\ entry.pc = "listed"
    BY <1>1 DEF Check
  <2> HIDE DEF entry
  <2> QED BY <1>2, <2>1, <2>2 DEF CheckMoves
<1>7. CASE CheckReload(c)
  <2> DEFINE state == IF chainStates = <<>> THEN NewChainState ELSE chainStates[1]
             entry == [check[c] EXCEPT !.pc = "reloaded", !.found = chainStates # <<>>,
                                       !.state = state]
  <2>1. check' = [check EXCEPT ![c] = entry]
    BY <1>1, <1>7 DEF CheckReload
  <2>2. entry.result = check[c].result /\ entry.pc = "reloaded"
    BY <1>1 DEF Check
  <2> HIDE DEF entry
  <2> QED BY <1>2, <2>1, <2>2 DEF CheckMoves
<1>8. CASE CheckWalk(c)
  <2> DEFINE result == Walk(check[c].state, check[c].recorded, log)
             none == [result EXCEPT !.races = {}]
             walked == [check[c] EXCEPT !.pc = "walked", !.recorded = NoRecord]
             verified == [walked EXCEPT !.result = none]
             raced == [walked EXCEPT !.result = result]
  <2>1. \/ check' = [check EXCEPT ![c] = verified]
        \/ check' = [check EXCEPT ![c] = IdleCheck]
        \/ check' = [check EXCEPT ![c] = raced]
    BY <1>8 DEF CheckWalk
  <2>2. none.races = {} /\ result.races = Found(c)
    BY DEF Walk, Found
  <2> HIDE DEF result, none
  <2>3. /\ verified.result = none /\ verified.pc = "walked"
        /\ raced.result = result /\ raced.pc = "walked" /\ raced.state = check[c].state
    BY <1>1 DEF Check
  <2> HIDE DEF walked, verified, raced
  <2>4. CASE check' = [check EXCEPT ![c] = verified]
    BY <1>2, <2>2, <2>3, <2>4 DEF CheckMoves
  <2>5. CASE check' = [check EXCEPT ![c] = raced]
    BY <1>2, <1>8, <2>2, <2>3, <2>5 DEF CheckMoves
  <2> QED BY <1>3, <2>1, <2>4, <2>5
<1>9. CASE CheckLeaves(c)
  <2> DEFINE leaves == LeafRows(check[c].state, log, {b.id : b \in check[c].result.races})
             entry == [check[c] EXCEPT !.pc = "drafted", !.leaves = leaves, !.at = now]
  <2>1. check' = [check EXCEPT ![c] = entry]
    BY <1>1, <1>9 DEF CheckLeaves
  <2>2. Draft(c) = [breaks |-> check[c].result.races, leaves |-> leaves]
    BY DEF Draft
  <2> HIDE DEF leaves
  <2>3. entry.result = check[c].result /\ entry.pc = "drafted" /\ entry.leaves = leaves
    BY <1>1 DEF Check
  <2> HIDE DEF entry
  <2>4. DraftOf(entry) = Draft(c)
    BY <2>2, <2>3 DEF DraftOf
  <2> QED BY <1>2, <1>9, <2>1, <2>3, <2>4 DEF CheckMoves
<1> QED BY <1>4, <1>5, <1>6, <1>7, <1>8, <1>9 DEF CheckStep

LEMMA CheckMovesNext ==
    ASSUME JInv, [INext]_ivars, NEW d \in Checkers PROVE CheckMoves(d)
<1>1. ChecksTypeOK /\ check \in [Checkers -> Check] /\ check[d] \in Check
  BY DEF JInv, ChecksTypeOK
<1>2. ASSUME check'[d] = check[d] PROVE CheckMoves(d)
  BY <1>2 DEF CheckMoves
<1>3. CASE check' = [c \in Checkers |-> [check[c] EXCEPT
                            !.emptied = @ \/ (check[c].pc # "idle" /\ log' = <<>>)]]
  <2> DEFINE emptied == check[d].emptied \/ (check[d].pc # "idle" /\ log' = <<>>)
  <2>1. check'[d] = [check[d] EXCEPT !.emptied = emptied]
    BY <1>3
  <2> HIDE DEF emptied
  <2>2. /\ check'[d].pc = check[d].pc /\ check'[d].state = check[d].state
        /\ check'[d].result = check[d].result /\ check'[d].leaves = check[d].leaves
    BY <1>1, <2>1 DEF Check
  <2> QED BY <2>2 DEF CheckMoves
<1>4. CASE check' = [c \in Checkers |-> IdleCheck]
  BY <1>4 DEF CheckMoves, IdleCheck, NoResult
<1>5. CASE \E c \in Checkers : CheckStep(c)
  BY <1>1, <1>5, CheckStepMoves
<1>6. CASE OutOfBandEdit
  BY <1>2, <1>6 DEF OutOfBandEdit, EditRow, DeleteRow, RenumberRow
<1> QED BY <1>2, <1>3, <1>4, <1>5, <1>6 DEF INext, ivars

\* A new recording lists what was drafted.
LEMMA NewNote ==
    ASSUME [INext]_ivars, NEW n \in notes', n \notin notes
    PROVE  \E c \in Checkers : /\ check[c].pc = "drafted"
                               /\ n.breaks = check[c].result.races /\ n.leaves = check[c].leaves
<1>1. PICK c \in Checkers : RecordCommit(c)
  BY DEF INext, OutOfBandEdit, EditRow, DeleteRow, RenumberRow, CheckStep, CheckLoad,
     CheckList, CheckWalk, CheckLeaves, CheckReload, CheckCommit, CheckFail, ivars
<1>2. n = [entry |-> nextHash, breaks |-> check[c].result.races,
           leaves |-> check[c].leaves, emptied |-> check[c].emptied]
  BY <1>1 DEF RecordCommit
<1> QED BY <1>1, <1>2 DEF RecordCommit

\* A break that is recorded, or kept for a recording, was so before or is found by a walk.
LEMMA RecordsNext ==
    ASSUME JInv, [INext]_ivars, NEW r \in Records', NEW b \in r.breaks
    PROVE  (\E s \in Records : b \in s.breaks) \/ \E c \in Checkers : CheckWalk(c) /\ b \in Found(c)
<1>1. ASSUME NEW c \in Checkers, b \in check[c].result.races
      PROVE  \E s \in Records : b \in s.breaks
  <2>1. DraftOf(check[c]) \in Records /\ DraftOf(check[c]).breaks = check[c].result.races
    BY DEF Records, DraftOf
  <2> QED BY <1>1, <2>1
<1>2. ASSUME NEW n \in notes', r.breaks = n.breaks
      PROVE  \E s \in Records : b \in s.breaks
  <2>1. CASE n \in notes
    <3> DEFINE s == [breaks |-> n.breaks, leaves |-> n.leaves]
    <3>1. s \in Records /\ s.breaks = n.breaks
      BY <2>1 DEF Records
    <3> HIDE DEF s
    <3> QED BY <1>2, <3>1
  <2>2. CASE n \notin notes
    BY <1>1, <1>2, <2>2, NewNote
  <2> QED BY <2>1, <2>2
<1>3. ASSUME NEW d \in Checkers, r.breaks = check'[d].result.races
      PROVE  (\E s \in Records : b \in s.breaks) \/ (CheckWalk(d) /\ b \in Found(d))
  <2>1. CheckMoves(d)
    BY CheckMovesNext
  <2> QED BY <1>1, <1>3, <2>1 DEF CheckMoves
<1>4. \/ \E n \in notes' : r.breaks = n.breaks
      \/ \E d \in Checkers : r.breaks = check'[d].result.races
  BY DEF Records
<1> QED BY <1>2, <1>3, <1>4

\* What is listed was so before, or is drafted.
LEMMA ListedNext ==
    ASSUME JInv, [INext]_ivars, NEW r \in Listed'
    PROVE  \/ r \in Listed \/ r.breaks = {}
           \/ \E c \in Checkers : CheckLeaves(c) /\ r = Draft(c)
<1>1. ASSUME NEW n \in notes', r = [breaks |-> n.breaks, leaves |-> n.leaves]
      PROVE  r \in Listed
  <2>1. CASE n \in notes
    BY <1>1, <2>1 DEF Listed
  <2>2. CASE n \notin notes
    BY <1>1, <2>2, NewNote DEF Listed
  <2> QED BY <2>1, <2>2
<1>2. ASSUME NEW d \in Checkers, check'[d].pc = "drafted", r = DraftOf(check'[d])
      PROVE  r \in Listed \/ r.breaks = {} \/ (CheckLeaves(d) /\ r = Draft(d))
  <2>1. CheckMoves(d)
    BY CheckMovesNext
  <2>2. CASE /\ check'[d].pc = check[d].pc
             /\ check'[d].result = check[d].result /\ check'[d].leaves = check[d].leaves
    BY <1>2, <2>2 DEF Listed, DraftOf
  <2> QED BY <1>2, <2>1, <2>2 DEF CheckMoves
<1>3. \/ \E n \in notes' : r = [breaks |-> n.breaks, leaves |-> n.leaves]
      \/ \E d \in Checkers : check'[d].pc = "drafted" /\ r = DraftOf(check'[d])
  BY DEF Listed, DraftOf
<1> QED BY <1>1, <1>2, <1>3

\* The races a walk reports are rows of the log.
LEMMA WalkRaces ==
    ASSUME NEW state, NEW recorded, NEW b \in Walk(state, recorded, log).races
    PROVE  \E i \in 1..Len(log) :
            /\ RaceBreak(state, recorded, log, i)
            /\ b.id = log[i].id /\ b.hash = log[i].hash /\ b.parent = ParentId(state, log, i)
<1>1. PICK i \in 1..Len(log) :
        /\ RaceBreak(state, recorded, log, i)
        /\ b = [id |-> log[i].id, hash |-> log[i].hash, parent |-> ParentId(state, log, i)]
  BY DEF Walk
<1> QED BY <1>1

\* The row that a walk takes for the parent of a break is the one it chains from.
LEMMA FoundFits ==
    ASSUME JInv, NEW known \in Ledger, Fits(known), NEW c \in Checkers, CheckWalk(c),
           NEW b \in Found(c)
    PROVE  BreakFits(known, b)
<1> DEFINE state == check[c].state
<1>1. /\ log \in Seq(Row) /\ SortedById(log) /\ state \in ChainState
      /\ check[c].pc # "idle" /\ \A i \in 1..Len(log) : log[i].hash # NoHash
  BY DEF CheckWalk, JInv, BaseInv, TypeOK, ChecksTypeOK, Check, ChecksInv, HashedInv
<1>2. PICK i \in 1..Len(log) :
        b.hash = log[i].hash /\ b.parent = ParentId(state, log, i)
  BY WalkRaces DEF Found
<1>3. known[b.hash].prev = log[i].prev
  BY <1>1, <1>2 DEF Fits
<1>4. CASE b.parent = NoId
  BY <1>4 DEF BreakFits
<1>5. CASE b.parent # NoId
  <2>1. b.parent \in {p.id : p \in {q \in Earlier(state, log, i) : q.hash = log[i].prev}}
    BY <1>1, <1>2, <1>5, ParentIdType
  <2>2. PICK p \in Earlier(state, log, i) : p.hash = log[i].prev /\ p.id = b.parent
    BY <2>1
  <2>3. CASE state.anchorHash # NoHash /\ p = [hash |-> state.anchorHash, id |-> state.anchorId]
    <3>1. Pair(state.anchorHash, state.anchorId) \in Anchors
      BY <1>1 DEF Anchors
    <3>2. known[state.anchorHash].id = state.anchorId
      BY <2>3, <3>1 DEF Fits, Pair
    <3>3. p.hash = state.anchorHash /\ p.id = state.anchorId
      BY <2>3
    <3> QED BY <1>3, <2>2, <3>2, <3>3 DEF BreakFits
  <2>4. CASE \E j \in 1..(i - 1) : p = [hash |-> log[j].hash, id |-> log[j].id]
    <3>1. PICK j \in 1..(i - 1) : p = [hash |-> log[j].hash, id |-> log[j].id]
      BY <2>4
    <3>2. j \in 1..Len(log)
      BY <1>1, LenProperties
    <3>3. p.hash = log[j].hash /\ p.id = log[j].id
      BY <3>1
    <3>4. known[log[j].hash].id = log[j].id
      BY <1>1, <3>2 DEF Fits
    <3> QED BY <1>3, <2>2, <3>3, <3>4 DEF BreakFits
  <2> QED BY <2>2, <2>3, <2>4 DEF Earlier
<1> QED BY <1>4, <1>5

(***************************************************************************)
(* The order of the rows, as long as none is deleted.                      *)
(***************************************************************************)

\* What this version has chained is in the order of its hashes.
Ascending ==
    \A i, k \in 1..Len(log) : i < k => log[i].hash < FirstHash \/ log[i].hash < log[k].hash

\* A row of the history comes after the one it chains from.
OldParentsFirst ==
    \A i, j \in 1..Len(log) :
        (/\ log[i].hash # NoHash /\ log[j].hash # NoHash /\ log[j].hash < FirstHash
         /\ log[j].prev = log[i].hash) => i < j

\* The row before a recorded break is recorded too, or has a child further on.
Beside(r) ==
    \A b \in r.breaks : \A i \in 2..Len(log) : log[i].hash = b.hash =>
        \/ \E m \in i..Len(log) : log[m].prev = log[i - 1].hash
        \/ \E x \in r.breaks \cup r.leaves : x.id = log[i - 1].id /\ x.hash = log[i - 1].hash

\* The races a check has found have the ids they had in the log it walked, and no other
\* row before them has any of these.
Placed(entry) ==
    \A b \in entry.result.races : \A i \in 1..Len(log) : log[i].hash = b.hash =>
        /\ log[i].id <= entry.state.cutoffId
        /\ \A x \in entry.result.races : \A j \in 1..(i - 1) :
            x.id = log[j].id => x.hash = log[j].hash

PlacedInv == \A c \in Checkers : check[c].pc = "walked" => Placed(check[c])

OrderInv == Ascending /\ OldParentsFirst /\ PlacedInv /\ \A r \in Listed : Beside(r)

\* A row that stays, in its old place.
LEMMA OldPlace ==
    ASSUME BaseInv, NEW d, Moved(d), NEW i \in 1..Len(log'), log'[i].hash < FirstHash
    PROVE  i <= Len(log) - d /\ i + d \in 1..Len(log) /\ SameRow(log'[i], log[i + d])
<1>1. Len(log) \in Nat /\ FirstHash \in Nat
  BY LenProperties, BoundsAssumption DEF BaseInv, TypeOK
<1>2. i <= Len(log) - d
  <2> SUFFICES ASSUME ~(i <= Len(log) - d) PROVE FALSE
    OBVIOUS
  <2>1. i > Len(log) - d
    BY <1>1 DEF Moved
  <2>2. log'[i].hash \in Nat /\ log'[i].hash >= FirstHash
    BY <2>1 DEF Moved, New
  <2> QED BY <1>1, <2>2
<1>3. i + d \in 1..Len(log)
  BY <1>1, <1>2 DEF Moved
<1> QED BY <1>2, <1>3 DEF Moved

LEMMA MovedAscending ==
    ASSUME BaseInv, NEW d, Moved(d), Ascending PROVE Ascending'
<1>1. Len(log) \in Nat
  BY LenProperties DEF BaseInv, TypeOK
<1> SUFFICES ASSUME NEW i \in 1..Len(log'), NEW k \in 1..Len(log'), i < k
             PROVE  log'[i].hash < FirstHash \/ log'[i].hash < log'[k].hash
  BY DEF Ascending
<1>2. CASE k > Len(log) - d
  <2>1. i \in 1..(k - 1)
    OBVIOUS
  <2> QED BY <1>2, <2>1 DEF Moved
<1>3. CASE ~(k > Len(log) - d)
  <2>1. k <= Len(log) - d /\ i <= Len(log) - d
    BY <1>1, <1>3 DEF Moved
  <2>2. i + d \in 1..Len(log) /\ k + d \in 1..Len(log) /\ i + d < k + d
    BY <1>1, <2>1 DEF Moved
  <2>3. log'[i].hash = log[i + d].hash /\ log'[k].hash = log[k + d].hash
    BY <2>1 DEF Moved, SameRow
  <2> QED BY <2>2, <2>3 DEF Ascending
<1> QED BY <1>2, <1>3

LEMMA MovedParents ==
    ASSUME BaseInv, BaseInv', NEW d, Moved(d), OldParentsFirst,
           NEW known \in Ledger, Fits(known)
    PROVE  OldParentsFirst'
<1> SUFFICES ASSUME NEW i \in 1..Len(log'), NEW j \in 1..Len(log'),
                    log'[i].hash # NoHash, log'[j].hash # NoHash, log'[j].hash < FirstHash,
                    log'[j].prev = log'[i].hash
             PROVE  i < j
  BY DEF OldParentsFirst
<1>1. /\ d \in Nat /\ FirstHash \in Nat
      /\ log'[j].hash \in Nat /\ log'[j].prev \in Nat
  <2>1. log' \in Seq(Row) /\ Len(log) \in Nat
    BY LenProperties DEF BaseInv, TypeOK
  <2>2. log'[j].hash \in Nat /\ log'[j].prev \in Nat
    BY <2>1, RowTypes
  <2> QED BY <2>1, <2>2, BoundsAssumption DEF Moved
<1>2. j + d \in 1..Len(log) /\ SameRow(log'[j], log[j + d])
  BY OldPlace
<1>3. log'[j].prev < FirstHash
  <2>1. known[log[j + d].hash].prev = log[j + d].prev
    BY <1>2 DEF Fits, SameRow
  <2>2. known[log'[j].hash].prev = log'[j].prev
    BY <1>2, <2>1 DEF SameRow
  <2> QED BY <1>1, <2>2 DEF Fits
<1>4. i + d \in 1..Len(log) /\ SameRow(log'[i], log[i + d])
  BY <1>3, OldPlace
<1>5. i + d < j + d
  BY <1>2, <1>4 DEF OldParentsFirst, SameRow
<1> QED BY <1>1, <1>5

LEMMA MovedBeside ==
    ASSUME BaseInv, NEW d, Moved(d), NEW r, Beside(r), \A b \in r.breaks : b.hash < FirstHash
    PROVE  Beside(r)'
<1>1. Len(log) \in Nat /\ Len(log') \in Nat
  BY LenProperties DEF BaseInv, TypeOK, Moved
<1> SUFFICES ASSUME NEW b \in r.breaks, NEW i \in 2..Len(log'), log'[i].hash = b.hash
             PROVE  \/ \E m \in i..Len(log') : log'[m].prev = log'[i - 1].hash
                    \/ \E x \in r.breaks \cup r.leaves :
                        x.id = log'[i - 1].id /\ x.hash = log'[i - 1].hash
  BY DEF Beside
<1>2. /\ i \in 1..Len(log') /\ i <= Len(log) - d
      /\ i + d \in 1..Len(log) /\ SameRow(log'[i], log[i + d])
  BY OldPlace
<1>3. i + d \in 2..Len(log) /\ log[i + d].hash = b.hash
  BY <1>1, <1>2 DEF Moved, SameRow
<1>4. (i + d) - 1 = (i - 1) + d /\ i - 1 \in 1..Len(log') /\ i - 1 <= Len(log) - d
  <2>1. d \in Nat
    BY <1>1 DEF Moved
  <2> QED BY <1>1, <1>2, <2>1
<1>5. SameRow(log'[i - 1], log[(i + d) - 1])
  BY <1>4 DEF Moved
<1>6. CASE \E m \in (i + d)..Len(log) : log[m].prev = log[(i + d) - 1].hash
  <2>1. PICK m \in (i + d)..Len(log) : log[m].prev = log[(i + d) - 1].hash
    BY <1>6
  <2>2. /\ m - d \in i..Len(log') /\ m - d \in 1..Len(log') /\ m - d <= Len(log) - d
        /\ (m - d) + d = m
    BY <1>1, <1>2, <2>1 DEF Moved
  <2>3. SameRow(log'[m - d], log[m])
    BY <2>2 DEF Moved
  <2> QED BY <1>5, <2>1, <2>2, <2>3 DEF SameRow
<1>7. CASE \E x \in r.breaks \cup r.leaves :
            x.id = log[(i + d) - 1].id /\ x.hash = log[(i + d) - 1].hash
  BY <1>5, <1>7 DEF SameRow
<1>8. \/ \E m \in (i + d)..Len(log) : log[m].prev = log[(i + d) - 1].hash
      \/ \E x \in r.breaks \cup r.leaves :
            x.id = log[(i + d) - 1].id /\ x.hash = log[(i + d) - 1].hash
  <2> DEFINE k == i + d
  <2>1. k \in 2..Len(log) /\ log[k].hash = b.hash
    BY <1>3
  <2> HIDE DEF k
  <2>2. \/ \E m \in k..Len(log) : log[m].prev = log[k - 1].hash
        \/ \E x \in r.breaks \cup r.leaves : x.id = log[k - 1].id /\ x.hash = log[k - 1].hash
    BY <2>1 DEF Beside
  <2> QED BY <2>2 DEF k
<1> QED BY <1>6, <1>7, <1>8

LEMMA MovedPlaced ==
    ASSUME BaseInv, NEW d, Moved(d), NEW entry, Placed(entry),
           \A b \in entry.result.races : b.hash < FirstHash
    PROVE  Placed(entry)'
<1>1. Len(log) \in Nat /\ Len(log') \in Nat
  BY LenProperties DEF BaseInv, TypeOK, Moved
<1> SUFFICES ASSUME NEW b \in entry.result.races, NEW i \in 1..Len(log'),
                    log'[i].hash = b.hash
             PROVE  /\ log'[i].id <= entry.state.cutoffId
                    /\ \A x \in entry.result.races : \A j \in 1..(i - 1) :
                        x.id = log'[j].id => x.hash = log'[j].hash
  BY DEF Placed
<1>2. i <= Len(log) - d /\ i + d \in 1..Len(log) /\ SameRow(log'[i], log[i + d])
  BY OldPlace
<1>3. log[i + d].hash = b.hash /\ log'[i].id = log[i + d].id
  BY <1>2 DEF SameRow
<1>4. /\ log[i + d].id <= entry.state.cutoffId
      /\ \A x \in entry.result.races : \A j \in 1..((i + d) - 1) :
            x.id = log[j].id => x.hash = log[j].hash
  <2> DEFINE k == i + d
  <2>1. k \in 1..Len(log) /\ log[k].hash = b.hash
    BY <1>2, <1>3
  <2> HIDE DEF k
  <2>2. /\ log[k].id <= entry.state.cutoffId
        /\ \A x \in entry.result.races : \A j \in 1..(k - 1) :
            x.id = log[j].id => x.hash = log[j].hash
    BY <2>1 DEF Placed
  <2> QED BY <2>2 DEF k
<1>5. ASSUME NEW x \in entry.result.races, NEW j \in 1..(i - 1), x.id = log'[j].id
      PROVE  x.hash = log'[j].hash
  <2>1. /\ j \in 1..Len(log') /\ j <= Len(log) - d /\ j + d \in 1..((i + d) - 1)
    <3>1. d \in Nat
      BY <1>1 DEF Moved
    <3> QED BY <1>1, <1>2, <3>1
  <2>2. SameRow(log'[j], log[j + d])
    BY <2>1 DEF Moved
  <2>3. x.id = log[j + d].id => x.hash = log[j + d].hash
    BY <1>4, <2>1
  <2> QED BY <1>5, <2>2, <2>3 DEF SameRow
<1> QED BY <1>3, <1>4, <1>5

\* What a walk finds is placed: ids are not shared.
LEMMA WalkPlaced ==
    ASSUME JInv, NEW c \in Checkers, CheckWalk(c), NEW entry,
           entry.state = check[c].state, entry.result.races = Found(c)
    PROVE  Placed(entry)
<1> DEFINE state == check[c].state
           recorded == check[c].recorded
           races == Walk(state, recorded, log).races
           n == Len(log)
<1>1. /\ log \in Seq(Row) /\ SortedById(log) /\ HashesInv /\ n \in Nat
      /\ \A i \in 1..n : log[i].hash # NoHash /\ log[i].id \in Nat
  BY LenProperties, RowTypes
     DEF CheckWalk, JInv, BaseInv, TypeOK, ChecksInv, HashedInv, RowsInv
<1>2. entry.result.races = races /\ entry.state = state
  BY DEF Found
<1> HIDE DEF races, n
<1> SUFFICES ASSUME NEW b \in races, NEW i \in 1..n, log[i].hash = b.hash
             PROVE  /\ log[i].id <= state.cutoffId
                    /\ \A x \in races : \A j \in 1..(i - 1) :
                        x.id = log[j].id => x.hash = log[j].hash
  BY <1>2 DEF Placed, n
<1>3. log[i].id <= state.cutoffId
  <2>1. PICK k \in 1..n : RaceBreak(state, recorded, log, k) /\ b.hash = log[k].hash
    BY WalkRaces DEF races, n
  <2>2. k = i
    BY <1>1, <2>1 DEF HashesInv, n
  <2> QED BY <2>1, <2>2 DEF RaceBreak
<1>4. ASSUME NEW x \in races, NEW j \in 1..(i - 1), x.id = log[j].id
      PROVE  x.hash = log[j].hash
  <2>1. PICK k \in 1..n : x.id = log[k].id /\ x.hash = log[k].hash
    BY WalkRaces DEF races, n
  <2>2. k = j
    <3>1. j \in 1..n
      BY <1>1
    <3>2. \A p, q \in 1..n : p < q => log[p].id < log[q].id
      BY <1>1 DEF SortedById, n
    <3>3. ~(k < j)
      <4>1. k < j => log[k].id < log[j].id
        BY <3>1, <3>2
      <4> QED BY <1>1, <1>4, <2>1, <3>1, <4>1
    <3>4. ~(j < k)
      <4>1. j < k => log[j].id < log[k].id
        BY <3>1, <3>2
      <4> QED BY <1>1, <1>4, <2>1, <3>1, <4>1
    <3> QED BY <1>1, <3>1, <3>3, <3>4
  <2> QED BY <2>1, <2>2
<1> QED BY <1>3, <1>4

\* A recording that finds a row without children in front of a break drafts it as a leaf.
LEMMA DraftBeside ==
    ASSUME JInv, Ascending, OldParentsFirst, NEW known \in Ledger, Fits(known),
           NEW c \in Checkers, CheckLeaves(c), Placed(check[c])
    PROVE  Beside(Draft(c))
<1> DEFINE state == check[c].state
           races == check[c].result.races
           ids == {b.id : b \in races}
           n == Len(log)
<1>1. /\ log \in Seq(Row) /\ SortedById(log) /\ state \in ChainState /\ HashesInv
      /\ \A i \in 1..n : log[i].hash # NoHash
  BY DEF CheckLeaves, JInv, BaseInv, TypeOK, ChecksTypeOK, Check, ChecksInv, HashedInv, RowsInv
<1>2. /\ n \in Nat /\ FirstHash \in Nat /\ state.cutoffId \in Nat
      /\ \A i \in 1..n : log[i].id \in Nat /\ log[i].hash \in Nat /\ log[i].prev \in Nat
  BY <1>1, RowTypes, BoundsAssumption DEF ChainState
<1>3. Draft(c).breaks = races /\ Draft(c).leaves = LeafRows(state, log, ids)
  BY DEF Draft
<1> HIDE DEF races
<1> SUFFICES ASSUME NEW b \in races, NEW i \in 2..n, log[i].hash = b.hash,
                    ~\E x \in races \cup LeafRows(state, log, ids) :
                        x.id = log[i - 1].id /\ x.hash = log[i - 1].hash
             PROVE  \E m \in i..n : log[m].prev = log[i - 1].hash
  BY <1>3 DEF Beside
<1>4. i \in 1..n /\ i - 1 \in 1..n /\ i - 1 \in 1..(n - 1) /\ i - 1 < i
  BY <1>2
<1>5. /\ log[i].id <= state.cutoffId
      /\ \A x \in races : \A j \in 1..(i - 1) : x.id = log[j].id => x.hash = log[j].hash
  BY <1>4 DEF Placed, races
<1>6. log[i - 1].id <= state.cutoffId
  <2>1. log[i - 1].id < log[i].id
    BY <1>1, <1>4 DEF SortedById
  <2> QED BY <1>2, <1>4, <1>5, <2>1
<1>7. log[i - 1].id \notin ids
  <2> SUFFICES ASSUME NEW x \in races, x.id = log[i - 1].id PROVE FALSE
    OBVIOUS
  <2>1. i - 1 \in 1..(i - 1)
    BY <1>4
  <2>2. x.hash = log[i - 1].hash
    BY <1>5, <2>1
  <2> QED BY <2>2
<1>8. PICK k \in 1..n : log[k].prev = log[i - 1].hash
  <2> SUFFICES ASSUME \A k \in 1..n : log[k].prev # log[i - 1].hash PROVE FALSE
    OBVIOUS
  <2>1. [id |-> log[i - 1].id, hash |-> log[i - 1].hash] \in LeafRows(state, log, ids)
    BY <1>1, <1>4, <1>6, <1>7 DEF LeafRows
  <2>2. \E x \in LeafRows(state, log, ids) : x.id = log[i - 1].id /\ x.hash = log[i - 1].hash
    BY <2>1
  <2> QED BY <2>2
<1>9. i - 1 < k
  <2>1. CASE log[k].hash < FirstHash
    BY <1>1, <1>4, <1>8, <2>1 DEF OldParentsFirst
  <2>2. CASE ~(log[k].hash < FirstHash)
    <3>1. log[k].prev < FirstHash \/ log[k].prev < log[k].hash
      <4>1. known[log[k].hash].prev = log[k].prev
        BY <1>1 DEF Fits
      <4>2. \A h \in Nat : known[h].prev < FirstHash \/ known[h].prev < h
        BY DEF Fits
      <4> QED BY <1>2, <4>1, <4>2
    <3>2. log[i - 1].hash < log[k].hash
      BY <1>2, <1>4, <1>8, <2>2, <3>1
    <3>3. k # i - 1 /\ ~(k < i - 1)
      BY <1>2, <1>4, <2>2, <3>2 DEF Ascending
    <3> QED BY <1>2, <1>4, <3>3
  <2> QED BY <2>1, <2>2
<1> QED BY <1>2, <1>4, <1>8, <1>9

LEMMA OrderNext ==
    ASSUME JInv, JInv', FromFirst, [INext]_ivars, NoneRenumbered,
           ~\E i \in 1..Len(log) : DeleteRow(i),
           NEW known \in Ledger, Fits(known), OrderInv
    PROVE  OrderInv'
<1>1. BaseInv /\ BaseInv'
  BY DEF JInv
<1>2. PICK d \in Nat : Moved(d)
  BY MovedNext
<1>3. Ascending' /\ OldParentsFirst'
  BY <1>1, <1>2, MovedAscending, MovedParents DEF OrderInv
<1>4. ASSUME NEW r \in Listed' PROVE Beside(r)'
  <2>1. \/ r \in Listed \/ r.breaks = {}
        \/ \E c \in Checkers : CheckLeaves(c) /\ r = Draft(c)
    BY ListedNext
  <2>2. CASE r \in Listed
    <3>1. \A b \in r.breaks : b.hash < FirstHash
      <4>1. r \in Records
        BY <2>2 DEF Listed, Records
      <4> QED BY <4>1, RecordsAreOld DEF RecordsInv
    <3>2. Beside(r)
      BY <2>2 DEF OrderInv
    <3> QED BY <1>1, <1>2, <3>1, <3>2, MovedBeside
  <2>3. CASE r.breaks = {}
    BY <2>3 DEF Beside
  <2>4. CASE \E c \in Checkers : CheckLeaves(c) /\ r = Draft(c)
    <3>1. PICK c \in Checkers : CheckLeaves(c) /\ r = Draft(c)
      BY <2>4
    <3>2. Placed(check[c]) /\ log' = log
      BY <3>1 DEF OrderInv, PlacedInv, CheckLeaves, vars
    <3>3. Beside(r)
      BY <3>1, <3>2, DraftBeside DEF OrderInv
    <3> QED BY <3>2, <3>3 DEF Beside
  <2> QED BY <2>1, <2>2, <2>3, <2>4
<1>5. ASSUME NEW c \in Checkers, check'[c].pc = "walked" PROVE Placed(check[c])'
  <2>1. CheckMoves(c)
    BY CheckMovesNext
  <2>2. CASE check'[c].result.races = {}
    BY <2>2 DEF Placed
  <2>3. CASE /\ check[c].pc = "walked" /\ check'[c].state = check[c].state
             /\ check'[c].result = check[c].result
    <3>1. \A b \in check[c].result.races : b.hash < FirstHash
      BY ForksAreOld DEF JInv, ChecksInv
    <3>2. Placed(check[c])
      BY <2>3 DEF OrderInv, PlacedInv
    <3>3. PICK entry : entry = check[c]
      OBVIOUS
    <3>4. Placed(entry)'
      BY <1>1, <1>2, <3>1, <3>2, <3>3, MovedPlaced
    <3> QED BY <2>3, <3>3, <3>4 DEF Placed
  <2>4. CASE /\ CheckWalk(c) /\ check'[c].state = check[c].state
             /\ check'[c].result.races = Found(c)
    <3>1. PICK entry : entry = check'[c]
      OBVIOUS
    <3>2. Placed(entry) /\ log' = log
      BY <2>4, <3>1, WalkPlaced DEF CheckWalk, vars
    <3> QED BY <3>1, <3>2 DEF Placed
  <2> QED BY <1>5, <2>1, <2>2, <2>3, <2>4 DEF CheckMoves
<1> QED BY <1>3, <1>4, <1>5 DEF OrderInv, PlacedInv

(***************************************************************************)
(* A deletion, and the other steps.                                        *)
(***************************************************************************)

\* In a log whose breaks are all recorded, a row has a child, or a recording after it
\* lists it.
LEMMA SettledGuards ==
    ASSUME JInv, FromFirst, OrderInv, UnrecordedBreaks = {}, NEW j \in 1..(Len(log) - 1)
    PROVE  Guarded(log, j)
<1>1. /\ Len(log) \in Nat /\ FirstHash \in Nat
      /\ \A i \in 1..Len(log) : log[i].hash \in Nat
  BY RowTypes, BoundsAssumption DEF JInv, BaseInv, TypeOK
<1>2. j + 1 \in 2..Len(log) /\ j + 1 \in 1..Len(log) /\ j + 1 # 1 /\ (j + 1) - 1 = j
  BY <1>1
<1>3. CASE log[j + 1].prev = ExpectedPrev(log, chainStates, j + 1)
  <2>1. log[j + 1].prev = log[j].hash
    BY <1>2, <1>3 DEF ExpectedPrev
  <2>2. j + 1 \in (j + 1)..Len(log)
    BY <1>2
  <2> QED BY <2>1, <2>2 DEF Guarded
<1>4. CASE log[j + 1].prev # ExpectedPrev(log, chainStates, j + 1)
  <2>1. PICK b \in RecordedIn(log).breaks : b.hash = log[j + 1].hash
    BY <1>2, <1>4 DEF UnrecordedBreaks
  <2>2. PICK n \in notes : b \in n.breaks /\ \E i \in 1..Len(log) : log[i].hash = n.entry
    BY DEF RecordedIn
  <2>3. PICK k \in 1..Len(log) : log[k].hash = n.entry
    BY <2>2
  <2> DEFINE r == [breaks |-> n.breaks, leaves |-> n.leaves]
  <2>4. r \in Records /\ r \in Listed /\ r.breaks = n.breaks /\ r.leaves = n.leaves
    BY DEF Records, Listed
  <2> HIDE DEF r
  <2>5. b.hash \in Nat /\ b.hash < FirstHash /\ n.entry >= FirstHash
    BY <2>2, <2>4, RecordsAreOld DEF RecordsInv, FromFirst
  <2>6. k \in (j + 1)..Len(log)
    <3>1. log[k].hash \in Nat /\ log[k].hash >= FirstHash /\ log[j + 1].hash < FirstHash
      BY <1>1, <2>1, <2>3, <2>5
    <3>2. ~(k < j + 1)
      <4> SUFFICES ASSUME k < j + 1 PROVE FALSE
        OBVIOUS
      <4>1. log[k].hash < FirstHash \/ log[k].hash < log[j + 1].hash
        BY <1>2 DEF OrderInv, Ascending
      <4> QED BY <1>1, <1>2, <3>1, <4>1
    <3> QED BY <1>1, <3>2
  <2>7. Beside(r)
    BY <2>4 DEF OrderInv
  <2>8. \/ \E m \in (j + 1)..Len(log) : log[m].prev = log[j].hash
        \/ \E x \in n.breaks \cup n.leaves : x.id = log[j].id /\ x.hash = log[j].hash
    <3> DEFINE i == j + 1
    <3>1. i \in 2..Len(log) /\ log[i].hash = b.hash /\ i - 1 = j
      BY <1>2, <2>1
    <3> HIDE DEF i
    <3>2. \/ \E m \in i..Len(log) : log[m].prev = log[i - 1].hash
          \/ \E x \in r.breaks \cup r.leaves : x.id = log[i - 1].id /\ x.hash = log[i - 1].hash
      BY <2>2, <2>4, <2>7, <3>1 DEF Beside
    <3> QED BY <2>4, <3>1, <3>2 DEF i
  <2> QED BY <2>2, <2>3, <2>6, <2>8 DEF Guarded
<1> QED BY <1>3, <1>4

\* The log that the first row is deleted from is remembered.
LEMMA DeletedRemembered ==
    ASSUME JInv, FromFirst, OrderInv, NEW i \in 1..Len(log), DeleteRow(i),
           NEW known \in Ledger, Fits(known), NEW after, Agrees(known, after),
           NEW e, e = EditOf("delete", i), Shows(e), NEW S, S = log
    PROVE  Remembered(S, e, after)'
<1>1. /\ BaseInv /\ HashesInv /\ log \in Seq(Row) /\ SortedById(log) /\ Len(log) \in Nat
      /\ \A k \in 1..Len(log) : log[k].hash \in Nat
      /\ writeLock = NoWriter /\ UNCHANGED <<tx, nextHash, notes>>
  BY RowTypes DEF JInv, RowsInv, BaseInv, TypeOK, DeleteRow
<1>2. /\ e.id = log[i].id /\ e.hash = log[i].hash /\ e.tip = log[Len(log)].hash
      /\ e.hash # e.tip /\ UnrecordedBreaks = {}
  BY DEF EditOf, Shows
<1>3. Len(log) \in 1..Len(log) /\ Len(log) > 0
  BY <1>1
<1>4. \A k \in 1..Len(log) : log[k].hash # NoHash
  BY <1>1, <1>2, <1>3 DEF BaseInv, HashedInv
<1>5. ASSUME NEW k \in 1..Len(S)
      PROVE  /\ Old(S[k].hash)'
             /\ after[S[k].hash].id = S[k].id /\ after[S[k].hash].prev = S[k].prev
  <2>1. S[k].hash \in Nat /\ S[k].hash < nextHash /\ S[k].hash # NoHash
    BY <1>1, <1>4 DEF HashesInv
  <2>2. \A w \in Writers : Len(tx[w].rows) = 0
    BY <1>1, NoPending
  <2>3. Old(S[k].hash)
    BY <2>1, <2>2 DEF Old
  <2>4. ~New(S[k].hash)
    BY <1>1, <2>1, <2>3, OldOrNew
  <2>5. after[S[k].hash] = known[S[k].hash]
    BY <2>1, <2>4 DEF Agrees
  <2>6. known[S[k].hash].id = S[k].id /\ known[S[k].hash].prev = S[k].prev
    BY <2>1 DEF Fits
  <2>7. Old(S[k].hash)'
    BY <1>1, <2>3 DEF Old
  <2> QED BY <2>5, <2>6, <2>7
<1>6. ASSUME NEW k \in 1..Len(log') PROVE log'[k].hash # e.hash
  <2>1. k \in 1..(Len(log) - 1) /\ log'[k] = IF k < i THEN log[k] ELSE log[k + 1]
    BY DeletedRows
  <2>2. PICK m \in 1..Len(log) : m # i /\ log'[k] = log[m]
    <3>1. CASE k < i
      <4>1. k \in 1..Len(log) /\ k # i /\ log'[k] = log[k]
        BY <1>1, <2>1, <3>1
      <4> QED BY <4>1
    <3>2. CASE ~(k < i)
      <4>1. k + 1 \in 1..Len(log) /\ k + 1 # i /\ log'[k] = log[k + 1]
        BY <1>1, <2>1, <3>2
      <4> QED BY <4>1
    <3> QED BY <3>1, <3>2
  <2> QED BY <1>1, <1>2, <1>4, <2>2 DEF HashesInv
<1>7. ASSUME NEW j \in 1..(Len(S) - 1) PROVE Guarded(S, j)'
  <2>1. Guarded(log, j)
    BY <1>2, SettledGuards
  <2> QED BY <1>1, <2>1 DEF Guarded
<1>8. \A k \in 1..Len(S) : /\ S[k].hash # NoHash /\ Old(S[k].hash)'
                           /\ after[S[k].hash].id = S[k].id /\ after[S[k].hash].prev = S[k].prev
  BY <1>4, <1>5
<1>9. /\ SortedById(S) /\ Len(S) > 0 /\ S[Len(S)].hash = e.tip
      /\ \E d \in 1..Len(S) : S[d].id = e.id /\ S[d].hash = e.hash
  BY <1>1, <1>2, <1>3
<1> QED BY <1>6, <1>7, <1>8, <1>9 DEF Remembered, SortedById

Deleted == \E e \in edits : e.kind = "delete"

\* The order of the rows is needed for the first deletion, and lost with it; the ids say
\* nothing any more once a row has been renumbered.
LInv == JInv /\ FromFirst /\ (~Renumbered => DeletedInv /\ (~Deleted => OrderInv))

LEMMA LInitEstablishes == ASSUME IInit PROVE LInv
<1> DEFINE There(n) == \E i \in 1..Len(log) : log[i].hash = n
           at(n) == CHOOSE i \in 1..Len(log) : log[i].hash = n
           anchorId == CurrentState.anchorId
           anchorHash == CurrentState.anchorHash
           known == [n \in Nat |->
                        IF There(n) THEN [id |-> log[at(n)].id, prev |-> log[at(n)].prev]
                        ELSE [id |-> IF n = anchorHash THEN anchorId ELSE NoId,
                              prev |-> NoHash]]
<1>1. PICK h \in Histories : log = h.log /\ chainStates = h.chainStates
  BY DEF IInit, Init
<1>2. JInv /\ BaseInv /\ HashesInv
  BY IInitEstablishes DEF JInv, RowsInv
<1>3. /\ log \in Seq(Row) /\ Len(log) \in Nat /\ FirstHash \in Nat \ {0}
      /\ \A i \in 1..Len(log) : log[i].id \in Nat /\ log[i].prev \in Nat /\ log[i].hash \in Nat
      /\ anchorId \in Nat /\ anchorHash = AnchorHash(chainStates)
  <2>1. log \in Seq(Row) /\ CurrentState \in ChainState
    BY <1>2, CurrentStateType DEF BaseInv, TypeOK
  <2>2. CurrentState.anchorHash = AnchorHash(chainStates)
    BY DEF CurrentState, AnchorHash, NewChainState
  <2> QED BY <2>1, <2>2, RowTypes, BoundsAssumption DEF ChainState
<1>4. \A i \in 1..Len(log) :
        /\ log[i].hash < FirstHash /\ log[i].prev < FirstHash
        /\ log[i].hash # NoHash =>
            /\ log[i].hash # AnchorHash(chainStates)
            /\ \A j \in 1..Len(log) : log[j].prev = log[i].hash => i < j
  BY <1>1, HashesAssumption, HistoriesAssumption
<1>5. /\ nextHash = FirstHash /\ notes = {} /\ edits = {} /\ purge = IdlePurge
      /\ check = [c \in Checkers |-> IdleCheck]
      /\ \A w \in Writers : Len(tx[w].rows) = 0
  BY EmptySeq DEF IInit, Init, IdleTx
<1>6. \A r \in Records : r.breaks = {}
  BY <1>5 DEF Records, IdleCheck, NoResult
<1>7. Anchors \subseteq {Pair(anchorHash, anchorId)}
  BY <1>5 DEF Anchors, IdleCheck, IdlePurge
<1>8. \A n : There(n) => at(n) \in 1..Len(log) /\ log[at(n)].hash = n
  OBVIOUS
<1>9. ASSUME NEW i \in 1..Len(log), log[i].hash # NoHash
      PROVE  There(log[i].hash) /\ at(log[i].hash) = i
  <2>1. There(log[i].hash)
    OBVIOUS
  <2> HIDE DEF There, at
  <2> QED BY <1>2, <1>8, <1>9, <2>1 DEF HashesInv
<1>10. \A n \in Nat : known[n] =
            IF There(n) THEN [id |-> log[at(n)].id, prev |-> log[at(n)].prev]
            ELSE [id |-> IF n = anchorHash THEN anchorId ELSE NoId, prev |-> NoHash]
  OBVIOUS
<1>11. known \in Ledger
  <2> SUFFICES ASSUME NEW n \in Nat
               PROVE  (IF There(n) THEN [id |-> log[at(n)].id, prev |-> log[at(n)].prev]
                       ELSE [id |-> IF n = anchorHash THEN anchorId ELSE NoId,
                             prev |-> NoHash]) \in [id: Nat, prev: Nat]
    BY DEF Ledger
  <2> HIDE DEF There, at, anchorId, anchorHash
  <2>1. CASE There(n)
    <3>1. at(n) \in 1..Len(log)
      BY <1>8, <2>1
    <3> QED BY <1>3, <2>1, <3>1
  <2>2. CASE ~There(n)
    BY <1>3, <2>2 DEF NoId, NoHash
  <2> QED BY <2>1, <2>2
<1> HIDE DEF There, at, known
<1>12. \A n \in Nat : /\ There(n) => known[n].id = log[at(n)].id /\ known[n].prev = log[at(n)].prev
                      /\ ~There(n) => known[n].prev = NoHash
                      /\ ~There(n) /\ n = anchorHash => known[n].id = anchorId
  <2> SUFFICES ASSUME NEW n \in Nat
               PROVE  /\ There(n) => known[n].id = log[at(n)].id /\ known[n].prev = log[at(n)].prev
                      /\ ~There(n) => known[n].prev = NoHash
                      /\ ~There(n) /\ n = anchorHash => known[n].id = anchorId
    OBVIOUS
  <2> HIDE DEF anchorId, anchorHash
  <2>1. CASE There(n)
    <3>1. known[n] = [id |-> log[at(n)].id, prev |-> log[at(n)].prev]
      BY <1>10, <2>1
    <3> QED BY <2>1, <3>1
  <2>2. CASE ~There(n)
    <3>1. known[n] = [id |-> IF n = anchorHash THEN anchorId ELSE NoId, prev |-> NoHash]
      BY <1>10, <2>2
    <3> QED BY <2>2, <3>1
  <2> QED BY <2>1, <2>2
<1>13. Fits(known)
  <2>1. ASSUME NEW n \in Nat PROVE known[n].prev < FirstHash
    <3>1. CASE There(n)
      BY <1>4, <1>8, <1>12, <3>1
    <3>2. CASE ~There(n)
      BY <1>3, <1>12, <3>2 DEF NoHash
    <3> QED BY <3>1, <3>2
  <2>2. ASSUME NEW i \in 1..Len(log), log[i].hash # NoHash
        PROVE  known[log[i].hash].id = log[i].id /\ known[log[i].hash].prev = log[i].prev
    <3>1. There(log[i].hash) /\ at(log[i].hash) = i /\ log[i].hash \in Nat
      BY <1>3, <1>9, <2>2
    <3> QED BY <1>12, <3>1
  <2>3. ASSUME NEW a \in Anchors, a.hash # NoHash PROVE known[a.hash].id = a.id
    <3>1. a.hash = anchorHash /\ a.id = anchorId
      BY <1>7 DEF Pair
    <3>2. ~There(anchorHash)
      BY <1>3, <1>4, <2>3, <3>1 DEF There
    <3>3. anchorHash \in Nat
      BY <1>2, <1>3, AnchorType DEF BaseInv, TypeOK
    <3> QED BY <1>12, <3>1, <3>2, <3>3
  <2> QED BY <1>6, <2>1, <2>2, <2>3 DEF Fits
<1>14. DeletedInv
  BY <1>5, <1>11, <1>13 DEF DeletedInv
<1>15. FromFirst
  BY <1>3, <1>5 DEF FromFirst
<1>16. OrderInv
  <2>1. \A r \in Listed : r.breaks = {}
    BY <1>6 DEF Listed, Records
  <2>2. \A c \in Checkers : check[c].pc # "walked"
    BY <1>5 DEF IdleCheck
  <2> QED BY <1>4, <2>1, <2>2 DEF OrderInv, PlacedInv, Ascending, OldParentsFirst, Beside
<1> QED BY <1>2, <1>14, <1>15, <1>16 DEF LInv

LEMMA FitsNext ==
    ASSUME JInv, JInv', FromFirst, [INext]_ivars, NoneRenumbered, NEW known \in Ledger, Fits(known)
    PROVE  \E after \in Ledger : Agrees(known, after) /\ Fits(after)'
<1>1. RowsStep /\ Anchors' \subseteq Anchors \cup Rows
  BY RowsNext, AnchorsNext
<1>2. ASSUME NEW r \in Records', NEW b \in r.breaks
      PROVE  BreakFits(known, b) \/ \E s \in Records : b \in s.breaks
  BY RecordsNext, FoundFits
<1> QED BY <1>1, <1>2, FitsKept

LEMMA EditsStay == ASSUME [INext]_ivars PROVE edits \subseteq edits'
<1>1. CASE OutOfBandEdit
  BY <1>1 DEF OutOfBandEdit, EditRow, DeleteRow, RenumberRow
<1>2. CASE ~OutOfBandEdit
  BY <1>2 DEF INext, CheckStep, CheckLoad, CheckList, CheckWalk, CheckLeaves, CheckReload,
     CheckCommit, RecordCommit, CheckFail, ivars
<1> QED BY <1>1, <1>2

LEMMA LNextPreserves == LInv /\ [INext]_ivars => LInv'
<1> SUFFICES ASSUME LInv, [INext]_ivars PROVE LInv'
  OBVIOUS
<1>1. JInv /\ JInv' /\ FromFirst /\ FromFirst'
  BY INextPreserves, FromFirstNext DEF LInv
<1> SUFFICES ASSUME ~Renumbered' PROVE DeletedInv' /\ (~Deleted' => OrderInv')
  BY <1>1 DEF LInv
<1>7. ~Renumbered /\ NoneRenumbered
  <2>1. ~Renumbered
    BY EditsStay DEF Renumbered
  <2>2. ASSUME NEW i \in 1..Len(log), RenumberRow(i) PROVE FALSE
    <3>1. EditOf("renumber", i) \in edits' /\ EditOf("renumber", i).kind = "renumber"
      BY <2>2 DEF RenumberRow, EditOf
    <3> QED BY <3>1 DEF Renumbered
  <2> QED BY <2>1, <2>2 DEF NoneRenumbered
<1>2. PICK known \in Ledger :
        /\ Fits(known)
        /\ \A e \in edits : Shows(e) => \E S \in Seq(Row) : Remembered(S, e, known)
  BY <1>7 DEF LInv, DeletedInv
<1>3. PICK after \in Ledger : Agrees(known, after) /\ Fits(after)'
  BY <1>1, <1>2, <1>7, FitsNext
<1>4. ASSUME NEW e \in edits, Shows(e) PROVE \E S \in Seq(Row) : Remembered(S, e, after)'
  <2>1. PICK S \in Seq(Row) : Remembered(S, e, known)
    BY <1>2, <1>4
  <2>2. HashesGrow /\ RowsStep /\ notes \subseteq notes'
    BY <1>1, <1>7, HashesGrowNext, RowsNext, NotesNext
  <2> QED BY <1>1, <1>3, <2>1, <2>2, RememberedKept
<1>5. CASE \E i \in 1..Len(log) : DeleteRow(i)
  <2>1. PICK i \in 1..Len(log) : DeleteRow(i)
    BY <1>5
  <2>2. edits' = edits \cup {EditOf("delete", i)} /\ log \in Seq(Row)
    BY <1>1, <2>1 DEF DeleteRow, JInv, BaseInv, TypeOK
  <2>3. Deleted'
    <3>1. EditOf("delete", i) \in edits' /\ EditOf("delete", i).kind = "delete"
      BY <2>2 DEF EditOf
    <3> QED BY <3>1 DEF Deleted
  <2>4. ASSUME NEW e \in edits', Shows(e) PROVE \E S \in Seq(Row) : Remembered(S, e, after)'
    <3>1. CASE e \in edits
      BY <1>4, <2>4, <3>1
    <3>2. CASE e = EditOf("delete", i)
      <4>1. ~Deleted
        BY <2>4, <3>2 DEF Shows, EditOf, Deleted
      <4>2. OrderInv
        BY <1>7, <4>1 DEF LInv
      <4>3. PICK S \in Seq(Row) : S = log
        BY <2>2
      <4> QED BY <1>1, <1>2, <1>3, <2>1, <2>4, <3>2, <4>2, <4>3, DeletedRemembered
    <3> QED BY <2>2, <3>1, <3>2
  <2> QED BY <1>3, <2>3, <2>4 DEF DeletedInv
<1>6. CASE ~\E i \in 1..Len(log) : DeleteRow(i)
  <2>1. edits \subseteq edits' /\ \A e \in edits' : e \in edits \/ e.kind = "edit"
    <3>1. CASE OutOfBandEdit
      <4>1. PICK i \in 1..Len(log) : EditRow(i)
        BY <1>6, <1>7, <3>1 DEF OutOfBandEdit, NoneRenumbered
      <4>2. edits' = edits \cup {EditOf("edit", i)} /\ EditOf("edit", i).kind = "edit"
        BY <4>1 DEF EditRow, EditOf
      <4> QED BY <4>2
    <3>2. CASE ~OutOfBandEdit
      <4>1. edits' = edits
        BY <3>2 DEF INext, CheckStep, CheckLoad, CheckList, CheckWalk, CheckLeaves,
           CheckReload, CheckCommit, RecordCommit, CheckFail, ivars
      <4> QED BY <4>1
    <3> QED BY <3>1, <3>2
  <2>2. DeletedInv'
    BY <1>3, <1>4, <2>1 DEF DeletedInv, Shows
  <2>3. ~Deleted' => OrderInv'
    <3>1. Deleted => Deleted'
      BY <2>1 DEF Deleted
    <3> QED BY <1>1, <1>2, <1>6, <1>7, <3>1, OrderNext DEF LInv
  <2> QED BY <2>2, <2>3
<1> QED BY <1>5, <1>6

\* The chain reveals a deletion (verify_chain, _recorded_known_breaks): for any history, the
\* first row that is deleted from a log whose breaks are all recorded is reported, as long
\* as it is newer than the anchor, the newest row of that time is there and no row has been
\* given another id.  No later deletion, change, recording, sweep or restart covers it up.
THEOREM ISpecDeletedRowsAreReported == ISpec => []DeletedRowsAreReported
<1>1. IInit => LInv
  BY LInitEstablishes
<1>2. LInv => DeletedRowsAreReported
  <2> SUFFICES ASSUME LInv, NEW e \in edits, e.kind = "delete", e.settled, e.hash # e.tip,
                      ~Renumbered, e.id > CurrentState.anchorId,
                      \E i \in 1..Len(log) : log[i].hash = e.tip
               PROVE  Verdict.status = "broken"
    BY DEF DeletedRowsAreReported
  <2> QED BY DeletedIsReported DEF LInv, Shows
<1> QED BY <1>1, <1>2, LNextPreserves, PTL DEF ISpec

\* Both kinds of edits, as the run states them: changes of what the hash covers, and
\* deletions while the ids are as they were.
THEOREM ISpecEditsAreReported == ISpec => []EditsAreReported
<1>1. EditedRowsAreReported /\ DeletedRowsAreReported => EditsAreReported
  BY DEF EditsAreReported
<1> QED BY <1>1, ISpecEditedRowsAreReported, ISpecDeletedRowsAreReported, PTL

=============================================================================
