---------------------------- MODULE Sources_proofs ----------------------------
(***************************************************************************)
(* What holds of sources, for any number of them and whatever              *)
(* administrators do.  In SearchIndex: one that is switched off while the  *)
(* sweep reads it keeps one file's rows at the most, rows are found again  *)
(* by their file's state row, and the next sweep purges them, whatever     *)
(* crashes and the files themselves do.  In Organisation: a grant that     *)
(* outlives its scope (a source, or the folder or customer it is in) never *)
(* applies to a later one, whatever requests overtake each other; as long  *)
(* as none does the folders stay trees; and the folders shown above a      *)
(* source are those its grant covers.                                      *)
(***************************************************************************)
EXTENDS SearchIndex, Organisation, FiniteSetTheorems, SequenceTheorems, WellFoundedInduction,
        NaturalsInduction, TLAPS

(***************************************************************************)
(* SearchIndex.                                                            *)
(*                                                                         *)
(* The inductive invariant: the sweep only ever reads files of the source  *)
(* it is at, and reading starts before the source is switched off, which   *)
(* removes its rows.                                                       *)
(***************************************************************************)

SweepFields == {"pc", "todo", "cur", "known", "listed", "pending", "attempted", "content"}

TypeInv ==
    /\ source \in [Sources -> {"active", "off", "deleted"}]
    /\ rows \in [Files -> Contents \cup {Absent}]
    /\ disk \in [Files -> Contents \cup {Absent}]
    /\ DOMAIN sweep = SweepFields

PendingInv ==
    /\ sweep.pc \in {"loaded", "files", "read"} => sweep.cur \in Sources
    /\ sweep.pc \in {"files", "read"} => sweep.pending \in Seq(FilesOf(sweep.cur))

\* Nothing is left of a source that is switched off between the reading and the
\* writing of a file.
ReadInv ==
    sweep.pc = "read" =>
        /\ sweep.pending # <<>> /\ sweep.content \in Contents \cup {Absent}
        /\ sweep.cur \notin Active => \A f \in FilesOf(sweep.cur) : rows[f] = Absent

IInv == TypeInv /\ PendingInv /\ ReadInv /\ SwitchedOffKeepsOneFile

\* Steps of the sweep that write nothing new and read nothing.
LEMMA QuietKeeps ==
    ASSUME IInv, UNCHANGED source, rows' \in [Files -> Contents \cup {Absent}],
           \A f \in Files : rows'[f] = rows[f] \/ rows'[f] = Absent,
           disk' \in [Files -> Contents \cup {Absent}], DOMAIN sweep' = SweepFields,
           \/ sweep'.pc \in {"idle", "next", "down"}
           \/ sweep'.pc = "loaded" /\ sweep'.cur \in Sources
           \/ sweep' = sweep
    PROVE  IInv'
<1> USE DEF IInv
<1>1. TypeInv'
    BY DEF TypeInv
<1>2. PendingInv' /\ ReadInv'
    BY DEF PendingInv, ReadInv, Active, FilesOf
<1>3. SwitchedOffKeepsOneFile'
    BY DEF SwitchedOffKeepsOneFile, Active, FilesOf
<1> QED BY <1>1, <1>2, <1>3

\* An administrator's step keeps what the sweep has, and empties what is not active.
LEMMA AdminKeeps ==
    ASSUME IInv, UNCHANGED sweep, source' \in [Sources -> {"active", "off", "deleted"}],
           rows' \in [Files -> Contents \cup {Absent}], disk' \in [Files -> Contents \cup {Absent}],
           \A f \in Files : rows'[f] = rows[f] \/ rows'[f] = Absent,
           \A s \in Active \ Active' : \A f \in FilesOf(s) : rows'[f] = Absent
    PROVE  IInv'
<1> USE DEF IInv
<1>1. TypeInv' /\ PendingInv'
    BY DEF TypeInv, PendingInv, FilesOf
<1>2. ReadInv'
    <2>1. ASSUME sweep.pc = "read", sweep.cur \notin Active',
                 NEW f \in FilesOf(sweep.cur)
          PROVE  rows'[f] = Absent
        <3>1. sweep.cur \in Sources /\ f \in Files
            BY <2>1 DEF PendingInv, FilesOf
        <3> QED BY <2>1, <3>1 DEF ReadInv
    <2> QED BY <2>1 DEF ReadInv, FilesOf
<1>3. SwitchedOffKeepsOneFile'
    <2>1. ASSUME NEW s \in Sources \ Active', NEW f \in FilesOf(s), NEW g \in FilesOf(s),
                 rows'[f] # Absent, rows'[g] # Absent
          PROVE  f = g
        <3>1. f \in Files /\ g \in Files /\ s \notin Active
            BY <2>1 DEF FilesOf
        <3> QED BY <2>1, <3>1 DEF SwitchedOffKeepsOneFile
    <2> QED BY <2>1 DEF SwitchedOffKeepsOneFile, FilesOf
<1> QED BY <1>1, <1>2, <1>3

\* An idle sweep has every field.
LEMMA IdleFields == DOMAIN IdleSweep = SweepFields /\ IdleSweep.pc = "idle"
BY DEF IdleSweep, SweepFields

LEMMA InitInv == Init => IInv
<1> SUFFICES ASSUME Init PROVE IInv
    OBVIOUS
<1>1. TypeInv
    BY IdleFields DEF Init, TypeInv
<1>2. PendingInv /\ ReadInv
    BY IdleFields DEF Init, PendingInv, ReadInv
<1>3. SwitchedOffKeepsOneFile
    BY DEF Init, SwitchedOffKeepsOneFile, FilesOf
<1> QED BY <1>1, <1>2, <1>3 DEF IInv

\* The steps of a sweep that is not at a file, and those that abandon one.
LEMMA PlainSteps ==
    ASSUME IInv,
           \/ SweepStart \/ (\E s \in Sources : IndexLoad(s)) \/ IndexStops \/ IndexFinish
           \/ IndexFails
           \/ SweepEnd \/ Crash \/ Boot
    PROVE  IInv'
<1>1. UNCHANGED <<source, disk>>
    BY DEF SweepStart, IndexLoad, IndexStops, IndexFinish, IndexFails, SweepEnd, Crash, Boot
<1>2. rows' \in [Files -> Contents \cup {Absent}]
        /\ \A f \in Files : rows'[f] = rows[f] \/ rows'[f] = Absent
    <2>1. CASE SweepStart
        BY <2>1 DEF SweepStart, RowsWithout, IInv, TypeInv
    <2>2. CASE IndexFinish
        BY <2>2 DEF IndexFinish, IInv, TypeInv
    <2>3. CASE UNCHANGED rows
        BY <2>3 DEF IInv, TypeInv
    <2> QED BY <2>1, <2>2, <2>3
            DEF IndexLoad, IndexStops, IndexFails, SweepEnd, Crash, Boot
<1>3. /\ DOMAIN sweep' = SweepFields
      /\ \/ sweep'.pc \in {"idle", "next", "down"}
         \/ sweep'.pc = "loaded" /\ sweep'.cur \in Sources
    <2>1. CASE sweep' = IdleSweep
        BY <2>1, IdleFields
    <2>2. CASE SweepStart
        BY <2>2 DEF SweepStart, IdleSweep, SweepFields
    <2>3. CASE \E todo : sweep' = [IdleSweep EXCEPT !.pc = "next", !.todo = todo]
        BY <2>3 DEF IdleSweep, SweepFields
    <2>4. CASE \E s \in Sources : IndexLoad(s)
        BY <2>4 DEF IndexLoad, IdleSweep, SweepFields
    <2>5. CASE Crash
        BY <2>5 DEF Crash, IdleSweep, SweepFields
    <2> QED BY <2>1, <2>2, <2>3, <2>4, <2>5
            DEF IndexStops, IndexFinish, IndexFails, SweepEnd, Boot
<1> QED BY <1>1, <1>2, <1>3, QuietKeeps DEF IInv, TypeInv

\* The files to read are files of the source that was listed.
LEMMA PendingFiles ==
    ASSUME NEW known, NEW s, NEW listed, DOMAIN listed \subseteq FilesOf(s),
           NEW pending \in PendingOrders(known, listed)
    PROVE  pending \in Seq(FilesOf(s))
<1>1. PICK S \in SUBSET DOMAIN listed : pending \in SetToSeqs(S)
    BY DEF PendingOrders
<1>2. Cardinality(S) \in Nat
    <2>1. S \subseteq Files /\ IsFiniteSet(Files)
        BY FilesAssumption DEF FilesOf
    <2> QED BY <2>1, FS_Subset, FS_CardinalityType
<1>3. pending \in [1..Cardinality(S) -> S]
    BY <1>1 DEF SetToSeqs
<1>4. pending \in [1..Cardinality(S) -> FilesOf(s)]
    BY <1>3
<1> QED BY <1>2, <1>4

LEMMA ListKeeps ==
    ASSUME IInv, IndexList
    PROVE  IInv'
<1>1. UNCHANGED <<source, rows, disk>> /\ sweep.pc = "loaded"
    BY DEF IndexList
<1>2. CASE sweep' = IdleSweep
    BY <1>1, <1>2, IdleFields, QuietKeeps DEF IInv, TypeInv
<1>3. CASE sweep' # IdleSweep
    <2>1. PICK listed, pending :
            /\ DOMAIN listed \subseteq FilesOf(sweep.cur)
            /\ pending \in PendingOrders(sweep.known, listed)
            /\ sweep' = [sweep EXCEPT !.pc = "files", !.listed = listed, !.pending = pending]
        BY <1>3 DEF IndexList
    <2>2. PICK s \in Sources : s = sweep.cur
        BY <1>1 DEF IInv, PendingInv
    <2>3. pending \in Seq(FilesOf(s))
        <3>1. PICK known : known = sweep.known
            OBVIOUS
        <3> QED BY <2>1, <2>2, <3>1, PendingFiles
    <2>4. DOMAIN sweep = SweepFields
        BY DEF IInv, TypeInv
    <2>5. /\ DOMAIN sweep' = SweepFields /\ sweep'.pc = "files" /\ sweep'.cur = s
          /\ sweep'.pending = pending
        BY <2>1, <2>2, <2>4 DEF SweepFields
    <2>6. TypeInv'
        BY <1>1, <2>5 DEF IInv, TypeInv
    <2>7. PendingInv' /\ ReadInv'
        BY <2>3, <2>5 DEF PendingInv, ReadInv, FilesOf
    <2>8. SwitchedOffKeepsOneFile'
        BY <1>1 DEF IInv, SwitchedOffKeepsOneFile, Active
    <2> QED BY <2>6, <2>7, <2>8 DEF IInv
<1> QED BY <1>2, <1>3

LEMMA ReadKeeps ==
    ASSUME IInv, NEW f \in Files, IndexRead(f)
    PROVE  IInv'
<1>1. /\ UNCHANGED <<source, rows, disk>> /\ sweep.pc = "files" /\ sweep.pending # <<>>
      /\ source[sweep.cur] = "active"
    BY DEF IndexRead, MayReadOn
<1>2. PICK content \in Contents \cup {Absent} :
        sweep' = [sweep EXCEPT !.pc = "read", !.attempted = TRUE, !.content = content]
    BY DEF IndexRead, IInv, TypeInv
<1>3. DOMAIN sweep = SweepFields
    BY DEF IInv, TypeInv
<1>4. /\ DOMAIN sweep' = SweepFields /\ sweep'.pc = "read" /\ sweep'.cur = sweep.cur
      /\ sweep'.pending = sweep.pending /\ sweep'.content = content
    BY <1>2, <1>3 DEF SweepFields
<1>5. TypeInv' /\ PendingInv'
    BY <1>1, <1>4 DEF IInv, TypeInv, PendingInv, FilesOf
<1>6. ReadInv'
    BY <1>1, <1>4 DEF IInv, PendingInv, ReadInv, Active
<1>7. SwitchedOffKeepsOneFile'
    BY <1>1 DEF IInv, SwitchedOffKeepsOneFile, Active
<1> QED BY <1>5, <1>6, <1>7 DEF IInv

LEMMA WriteKeeps ==
    ASSUME IInv, NEW f \in Files, IndexWrite(f)
    PROVE  IInv'
<1>1. /\ UNCHANGED <<source, disk>> /\ sweep.pc = "read" /\ f = Head(sweep.pending)
      /\ rows' = IF sweep.content = Absent THEN rows ELSE [rows EXCEPT ![f] = sweep.content]
      /\ sweep' = [sweep EXCEPT !.pc = "files", !.pending = Tail(@), !.content = Absent]
    BY DEF IndexWrite
<1>2. DOMAIN sweep = SweepFields
    BY DEF IInv, TypeInv
<1>3. PICK s \in Sources : s = sweep.cur
    BY <1>1 DEF IInv, PendingInv
<1>4. sweep.pending \in Seq(FilesOf(s)) /\ sweep.pending # <<>>
    BY <1>1, <1>3 DEF IInv, PendingInv, ReadInv
<1>5. f \in FilesOf(s) /\ Tail(sweep.pending) \in Seq(FilesOf(s))
    BY <1>1, <1>4
<1>6. /\ DOMAIN sweep' = SweepFields /\ sweep'.pc = "files" /\ sweep'.cur = s
      /\ sweep'.pending = Tail(sweep.pending)
    BY <1>1, <1>2, <1>3 DEF SweepFields
<1>7. rows' \in [Files -> Contents \cup {Absent}] /\ \A g \in Files : g # f => rows'[g] = rows[g]
    BY <1>1 DEF IInv, TypeInv, ReadInv
<1>8. TypeInv' /\ PendingInv' /\ ReadInv'
    BY <1>1, <1>5, <1>6, <1>7 DEF IInv, TypeInv, PendingInv, ReadInv, FilesOf
<1>9. SwitchedOffKeepsOneFile'
    <2>1. ASSUME NEW t \in Sources \ Active, NEW g \in FilesOf(t), NEW h \in FilesOf(t),
                 rows'[g] # Absent, rows'[h] # Absent
          PROVE  g = h
        <3>1. g \in Files /\ h \in Files
            BY DEF FilesOf
        <3>2. CASE t = s
            <4>1. rows[g] = Absent /\ rows[h] = Absent
                BY <1>1, <1>3, <3>2 DEF IInv, ReadInv
            <4> QED BY <1>7, <2>1, <3>1, <4>1
        <3>3. CASE t # s
            <4>1. g # f /\ h # f
                BY <1>5, <3>3 DEF FilesOf
            <4> QED BY <1>7, <2>1, <3>1, <4>1 DEF IInv, SwitchedOffKeepsOneFile
        <3> QED BY <3>2, <3>3
    <2> QED BY <1>1, <2>1 DEF SwitchedOffKeepsOneFile, Active, FilesOf
<1> QED BY <1>8, <1>9 DEF IInv

\* A file that changes, comes or goes is not the index's.
LEMMA FilesKeep ==
    ASSUME IInv, NEW f \in Files, FileWritten(f) \/ FileComesOrGoes(f)
    PROVE  IInv'
<1>1. UNCHANGED <<source, rows, sweep>>
    BY DEF FileWritten, FileComesOrGoes
<1>2. disk' \in [Files -> Contents \cup {Absent}]
    BY DEF FileWritten, FileComesOrGoes, IInv, TypeInv
<1> QED BY <1>1, <1>2, QuietKeeps DEF IInv, TypeInv

\* update_source and delete_source remove the rows of what they switch off.
LEMMA AdminStepKeeps ==
    ASSUME IInv, NEW s \in Sources, Admin(s)
    PROVE  IInv'
<1> USE DEF IInv, TypeInv
<1>1. ASSUME NEW as \in {"off", "deleted"}, SwitchOff(s, as) PROVE IInv'
    <2>1. /\ source' = [source EXCEPT ![s] = as] /\ rows' = RowsWithout({s})
          /\ UNCHANGED <<disk, sweep>>
        BY <1>1 DEF SwitchOff
    <2>2. rows' \in [Files -> Contents \cup {Absent}]
            /\ \A f \in Files : rows'[f] = rows[f] \/ rows'[f] = Absent
        BY <2>1 DEF RowsWithout
    <2>3. \A t \in Active \ Active' : \A f \in FilesOf(t) : rows'[f] = Absent
        BY <2>1 DEF Active, FilesOf, RowsWithout
    <2>4. source' \in [Sources -> {"active", "off", "deleted"}]
        BY <2>1
    <2>5. disk' \in [Files -> Contents \cup {Absent}] /\ sweep' = sweep
        BY <2>1
    <2> HIDE DEF IInv
    <2> QED BY <2>2, <2>3, <2>4, <2>5, AdminKeeps
<1>2. CASE SwitchOn(s)
    <2>1. source' = [source EXCEPT ![s] = "active"] /\ UNCHANGED <<disk, rows, sweep>>
        BY <1>2 DEF SwitchOn
    <2>2. Active \ Active' = {} /\ source' \in [Sources -> {"active", "off", "deleted"}]
        BY <2>1 DEF Active
    <2> QED BY <2>1, <2>2, AdminKeeps
<1>3. CASE Relocate(s)
    <2>1. /\ rows' = RowsWithout({s}) /\ UNCHANGED <<source, sweep>>
        BY <1>3 DEF Relocate
    <2>2. PICK other \in [FilesOf(s) -> Contents \cup {Absent}] :
            disk' = [f \in Files |-> IF SourceOf[f] = s THEN other[f] ELSE disk[f]]
        BY <1>3 DEF Relocate
    <2>3. disk' \in [Files -> Contents \cup {Absent}]
        BY <2>2 DEF FilesOf
    <2>4. rows' \in [Files -> Contents \cup {Absent}]
            /\ \A f \in Files : rows'[f] = rows[f] \/ rows'[f] = Absent
        BY <2>1 DEF RowsWithout
    <2>5. DOMAIN sweep' = SweepFields /\ sweep' = sweep
        BY <2>1
    <2> HIDE DEF IInv
    <2> QED BY <2>1, <2>3, <2>4, <2>5, QuietKeeps
<1> QED BY <1>1, <1>2, <1>3 DEF Admin

LEMMA NextInv == IInv /\ [Next]_vars => IInv'
<1> SUFFICES ASSUME IInv, [Next]_vars PROVE IInv'
    OBVIOUS
<1>1. CASE UNCHANGED vars
    BY <1>1 DEF vars, IInv, TypeInv, PendingInv, ReadInv, SwitchedOffKeepsOneFile, Active
<1>2. CASE IndexList
    BY <1>2, ListKeeps
<1>3. CASE \E f \in Files : IndexRead(f) \/ IndexWrite(f)
    BY <1>3, ReadKeeps, WriteKeeps
<1>4. CASE \E f \in Files : FileWritten(f) \/ FileComesOrGoes(f)
    BY <1>4, FilesKeep
<1>5. CASE \E s \in Sources : Admin(s)
    BY <1>5, AdminStepKeeps
<1>6. CASE \E s \in Sources : IndexLoad(s)
    BY <1>6, PlainSteps
<1>7. CASE \/ SweepStart \/ IndexStops \/ IndexFinish \/ IndexFails \/ SweepEnd \/ Crash
           \/ Boot
    BY <1>7, PlainSteps
<1> QED BY <1>1, <1>2, <1>3, <1>4, <1>5, <1>6, <1>7 DEF Next, SweepStep

\* The inductive invariant: the sweep reads files of one source only, one that was
\* indexed when it began reading.
THEOREM SpecIInv == Spec => []IInv
<1> QED BY InitInv, NextInv, PTL DEF Spec

\* Switching a source off while it is swept leaves at most the file being read behind
\* in the index (index_source asks _still_indexed before each file).
THEOREM SpecSwitchedOffKeepsOneFile == Spec => []SwitchedOffKeepsOneFile
<1>1. IInv => SwitchedOffKeepsOneFile
    BY DEF IInv
<1> QED BY <1>1, SpecIInv, PTL

(***************************************************************************)
(* The state rows of the index: a file whose rows are there has one.  That *)
(* needs what Kept keeps, whose recursive function is shown to exist by    *)
(* induction over the length of the sequence.                              *)
(***************************************************************************)

\* A set of numbers has a least one.
LEMMA Least ==
    ASSUME NEW S \in SUBSET Nat, NEW n \in S
    PROVE  \E m \in S : \A k \in S : m <= k
<1> DEFINE R == {ss \in Nat \X Nat : ss[1] < ss[2]}
<1>1. IsWellFoundedOn(R, Nat)
    BY NatLessThanWellFounded DEF OpToRel
<1>2. PICK m \in S : \A k \in S : ~(<<k, m>> \in R)
    <2> HIDE DEF R
    <2>1. S \subseteq Nat /\ S # {}
        OBVIOUS
    <2> QED BY <1>1, <2>1, WFMin
<1>3. ASSUME NEW k \in S, k < m PROVE FALSE
    <2>1. <<k, m>> \in R
        BY <1>3
    <2> QED BY <1>2, <2>1
<1>4. \A k \in S : m <= k
    BY <1>3
<1> QED BY <1>4

LEMMA Induction ==
    ASSUME NEW S, 0 \in S, \A n \in Nat : n \in S => n + 1 \in S
    PROVE  Nat \subseteq S
<1>1. ASSUME NEW n \in Nat, n \notin S PROVE FALSE
    <2> DEFINE T == Nat \ S
    <2>1. PICK m \in T : \A k \in T : m <= k
        <3>1. n \in T /\ T \in SUBSET Nat
            BY <1>1
        <3> HIDE DEF T
        <3> QED BY <3>1, Least
    <2>2. m \in Nat /\ m # 0
        OBVIOUS
    <2>3. m - 1 \in Nat /\ (m - 1) + 1 = m /\ ~(m <= m - 1)
        BY <2>2
    <2>4. m - 1 \in S
        BY <2>1, <2>3
    <2> QED BY <2>3, <2>4
<1> QED BY <1>1

\* The function Kept defines, up to n.
KeptStep(g, seq, kept, n) ==
    g = [k \in 0..n |-> IF k = 0 THEN <<>>
            ELSE IF seq[k] \in kept THEN Append(g[k - 1], seq[k]) ELSE g[k - 1]]

LEMMA KeptExists ==
    ASSUME NEW seq, NEW kept, NEW n \in Nat
    PROVE  \E g : KeptStep(g, seq, kept, n)
<1> DEFINE I == {m \in Nat : \E g : KeptStep(g, seq, kept, m)}
<1>1. 0 \in I
    <2>1. KeptStep([k \in 0..0 |-> <<>>], seq, kept, 0)
        BY DEF KeptStep
    <2> QED BY <2>1
<1>2. ASSUME NEW m \in Nat, m \in I PROVE m + 1 \in I
    <2>1. PICK g : KeptStep(g, seq, kept, m)
        BY <1>2
    <2> DEFINE next == IF seq[m + 1] \in kept THEN Append(g[m], seq[m + 1]) ELSE g[m]
               h == [k \in 0..(m + 1) |-> IF k = m + 1 THEN next ELSE g[k]]
    <2>2. h[m + 1] = next /\ \A k \in 0..m : h[k] = g[k]
        BY SMT
    <2>3. \A k \in 0..m : g[k] = IF k = 0 THEN <<>>
            ELSE IF seq[k] \in kept THEN Append(g[k - 1], seq[k]) ELSE g[k - 1]
        BY <2>1 DEF KeptStep
    <2>4. h = [k \in 0..(m + 1) |-> h[k]]
        OBVIOUS
    <2> HIDE DEF h
    <2>5. ASSUME NEW k \in 0..(m + 1)
          PROVE  h[k] = IF k = 0 THEN <<>>
            ELSE IF seq[k] \in kept THEN Append(h[k - 1], seq[k]) ELSE h[k - 1]
        <3>1. CASE k = m + 1
            <4>1. k # 0 /\ k - 1 = m /\ m \in 0..m
                BY <3>1
            <4>2. h[k] = next /\ h[k - 1] = g[m]
                BY <3>1, <4>1, <2>2
            <4> QED BY <3>1, <4>1, <4>2
        <3>2. CASE k \in 0..m
            <4>1. k # 0 => k - 1 \in 0..m
                BY <3>2
            <4> QED BY <3>2, <4>1, <2>2, <2>3
        <3> QED BY <3>1, <3>2
    <2>6. KeptStep(h, seq, kept, m + 1)
        BY <2>4, <2>5 DEF KeptStep
    <2> QED BY <2>6
<1> HIDE DEF I
<1>3. n \in I
    BY <1>1, <1>2, Induction
<1> QED BY <1>3 DEF I

LEMMA KeptValue ==
    ASSUME NEW S, NEW seq \in Seq(S), NEW kept, NEW g, KeptStep(g, seq, kept, Len(seq))
    PROVE  g[Len(seq)] \in Seq(S) /\ ToSet(g[Len(seq)]) = ToSet(seq) \cap kept
<1> DEFINE Is(m) == g[m] \in Seq(S) /\ ToSet(g[m]) = {seq[i] : i \in 1..m} \cap kept
           I == {m \in Nat : m <= Len(seq) => Is(m)}
<1>1. \A k \in 0..Len(seq) : g[k] = IF k = 0 THEN <<>>
        ELSE IF seq[k] \in kept THEN Append(g[k - 1], seq[k]) ELSE g[k - 1]
    BY DEF KeptStep
<1>2. 0 \in I
    <2>1. g[0] = <<>>
        BY <1>1
    <2>2. ToSet(<<>>) = {} /\ 1..0 = {} /\ <<>> \in Seq(S)
        BY DEF ToSet
    <2> QED BY <2>1, <2>2
<1>3. ASSUME NEW m \in Nat, m \in I PROVE m + 1 \in I
    <2> SUFFICES ASSUME m + 1 <= Len(seq) PROVE Is(m + 1)
        OBVIOUS
    <2>1. Is(m)
        BY <1>3
    <2> HIDE DEF I
    <2> DEFINE x == seq[m + 1]
    <2>2. x \in S
        OBVIOUS
    <2>3. {seq[i] : i \in 1..(m + 1)} = {seq[i] : i \in 1..m} \cup {x}
        <3>1. 1..(m + 1) = 1..m \cup {m + 1}
            OBVIOUS
        <3> QED BY <3>1
    <2>4. g[m + 1] = IF x \in kept THEN Append(g[m], x) ELSE g[m]
        BY <1>1
    <2> HIDE DEF x
    <2>5. CASE x \in kept
        <3>1. g[m + 1] = Append(g[m], x) /\ g[m + 1] \in Seq(S)
            BY <2>1, <2>2, <2>4, <2>5
        <3>2. ToSet(g[m + 1]) = ToSet(g[m]) \cup {x}
            <4>1. DOMAIN g[m + 1] = DOMAIN g[m] \cup {Len(g[m]) + 1}
                BY <2>1, <3>1
            <4>2. /\ g[m + 1][Len(g[m]) + 1] = x
                  /\ \A i \in DOMAIN g[m] : g[m + 1][i] = g[m][i]
                BY <2>1, <3>1
            <4> QED BY <4>1, <4>2 DEF ToSet
        <3> QED BY <2>1, <2>3, <2>5, <3>1, <3>2
    <2>6. CASE x \notin kept
        BY <2>1, <2>3, <2>4, <2>6
    <2> QED BY <2>5, <2>6
<1>4. Len(seq) \in I
    <2> HIDE DEF I
    <2>1. Len(seq) \in Nat
        OBVIOUS
    <2> QED BY <1>2, <1>3, <2>1, Induction
<1>5. g[Len(seq)] \in Seq(S) /\ ToSet(g[Len(seq)]) = {seq[i] : i \in 1..Len(seq)} \cap kept
    BY <1>4
<1>6. ToSet(seq) = {seq[i] : i \in 1..Len(seq)}
    BY DEF ToSet
<1> QED BY <1>5, <1>6

\* Kept returns the members of the sequence that are in kept.
LEMMA KeptMembers ==
    ASSUME NEW S, NEW seq \in Seq(S), NEW kept
    PROVE  Kept(seq, kept) \in Seq(S) /\ ToSet(Kept(seq, kept)) = ToSet(seq) \cap kept
<1> DEFINE first == CHOOSE g : KeptStep(g, seq, kept, Len(seq))
<1>1. KeptStep(first, seq, kept, Len(seq))
    BY KeptExists
<1>2. Kept(seq, kept) = first[Len(seq)]
    BY DEF Kept, KeptStep
<1> HIDE DEF first
<1> QED BY <1>1, <1>2, KeptValue

LEMMA RemovedAt ==
    ASSUME NEW S, NEW seq \in Seq(S), NEW i \in 1..Len(seq)
    PROVE  /\ RemoveAt(seq, i) \in Seq(S)
           /\ ToSet(RemoveAt(seq, i)) \subseteq ToSet(seq)
           /\ ToSet(seq) \subseteq ToSet(RemoveAt(seq, i)) \cup {seq[i]}
<1> DEFINE a == SubSeq(seq, 1, i - 1)
           b == SubSeq(seq, i + 1, Len(seq))
<1>1. /\ a \in Seq(S) /\ Len(a) = i - 1
      /\ \A j \in 1..(i - 1) : a[j] = seq[j]
    OBVIOUS
<1>2. /\ b \in Seq(S) /\ Len(b) = Len(seq) - i
      /\ \A j \in 1..(Len(seq) - i) : b[j] = seq[i + j]
    OBVIOUS
<1> HIDE DEF a, b
<1>3. RemoveAt(seq, i) = a \o b
    BY DEF RemoveAt, a, b
<1>4. /\ a \o b \in Seq(S) /\ Len(a \o b) = Len(seq) - 1
      /\ \A j \in 1..(i - 1) : (a \o b)[j] = seq[j]
      /\ \A j \in i..(Len(seq) - 1) : (a \o b)[j] = seq[j + 1]
    <2>1. /\ a \o b \in Seq(S) /\ Len(a \o b) = Len(a) + Len(b)
          /\ \A j \in 1..(Len(a) + Len(b)) :
                (a \o b)[j] = IF j <= Len(a) THEN a[j] ELSE b[j - Len(a)]
        <3>1. a \in Seq(S) /\ b \in Seq(S)
            BY <1>1, <1>2
        <3> QED BY <3>1, ConcatProperties
    <2>2. Len(a) + Len(b) = Len(seq) - 1 /\ i \in Nat /\ Len(seq) \in Nat
        BY <1>1, <1>2
    <2>3. ASSUME NEW j \in 1..(i - 1) PROVE (a \o b)[j] = seq[j]
        <3>1. j \in 1..(Len(a) + Len(b)) /\ j <= Len(a)
            BY <1>1, <2>2
        <3> QED BY <1>1, <2>1, <3>1
    <2>4. ASSUME NEW j \in i..(Len(seq) - 1) PROVE (a \o b)[j] = seq[j + 1]
        <3>1. /\ j \in 1..(Len(a) + Len(b)) /\ ~(j <= Len(a)) /\ Len(a) = i - 1
              /\ j - (i - 1) \in 1..(Len(seq) - i) /\ i + (j - (i - 1)) = j + 1
            BY <1>1, <2>2
        <3>2. (a \o b)[j] = b[j - (i - 1)]
            BY <2>1, <3>1
        <3> QED BY <1>2, <3>1, <3>2
    <2> QED BY <2>1, <2>2, <2>3, <2>4
<1>5. ToSet(a \o b) = {(a \o b)[j] : j \in 1..(Len(seq) - 1)}
    <2> DEFINE c == a \o b
    <2>1. c \in Seq(S) /\ Len(c) = Len(seq) - 1
        BY <1>4
    <2> HIDE DEF c
    <2>2. DOMAIN c = 1..(Len(seq) - 1)
        BY <2>1
    <2>3. ToSet(c) = {c[j] : j \in 1..(Len(seq) - 1)}
        BY <2>2, Zenon DEF ToSet
    <2> QED BY <2>3 DEF c
<1>6. ToSet(seq) = {seq[j] : j \in 1..Len(seq)}
    BY DEF ToSet
<1>7. ToSet(a \o b) \subseteq ToSet(seq)
    <2>1. ASSUME NEW j \in 1..(Len(seq) - 1) PROVE (a \o b)[j] \in ToSet(seq)
        <3>1. CASE j < i
            <4>1. j \in 1..(i - 1) /\ j \in 1..Len(seq)
                BY <3>1
            <4> QED BY <1>4, <1>6, <4>1
        <3>2. CASE i <= j
            <4>1. j + 1 \in 1..Len(seq) /\ j \in i..(Len(seq) - 1)
                BY <3>2
            <4> QED BY <1>4, <1>6, <4>1
        <3>3. j < i \/ i <= j
            OBVIOUS
        <3> QED BY <3>1, <3>2, <3>3, Zenon
    <2> QED BY <1>5, <2>1
<1>8. ASSUME NEW j \in 1..Len(seq), j # i PROVE seq[j] \in ToSet(a \o b)
    <2>1. CASE j < i
        <3>1. j \in 1..(i - 1) /\ j \in 1..(Len(seq) - 1)
            BY <2>1
        <3> QED BY <1>4, <1>5, <3>1
    <2>2. CASE j > i
        <3>1. j - 1 \in i..(Len(seq) - 1) /\ j - 1 \in 1..(Len(seq) - 1) /\ (j - 1) + 1 = j
            BY <2>2
        <3>2. (a \o b)[j - 1] = seq[j]
            BY <1>4, <3>1
        <3> QED BY <1>5, <3>1, <3>2
    <2> QED BY <1>8, <2>1, <2>2
<1> QED BY <1>3, <1>4, <1>6, <1>7, <1>8

LEMMA Appended ==
    ASSUME NEW S, NEW seq \in Seq(S), NEW x
    PROVE  /\ Append(seq, x) \in Seq(S \cup {x})
           /\ ToSet(Append(seq, x)) = ToSet(seq) \cup {x}
<1>1. /\ seq \in Seq(S \cup {x}) /\ x \in S \cup {x}
      /\ DOMAIN seq = 1..Len(seq)
    OBVIOUS
<1>2. /\ Append(seq, x) \in Seq(S \cup {x})
      /\ DOMAIN Append(seq, x) = DOMAIN seq \cup {Len(seq) + 1}
      /\ Append(seq, x)[Len(seq) + 1] = x
      /\ \A i \in DOMAIN seq : Append(seq, x)[i] = seq[i]
    BY <1>1
<1> QED BY <1>2 DEF ToSet

\* A state row, and that a file has one.
IsStateRow(st) == DOMAIN st = {"id", "file", "size"} /\ st = [k \in DOMAIN st |-> st[k]]
HasState(f) == \E st \in ToSet(states) : st.file = f

StatesInv ==
    /\ states \in Seq(ToSet(states))
    /\ \A st \in ToSet(states) : IsStateRow(st)
    /\ \A f \in Files : rows[f] # Absent /\ SourceOf[f] \notin mixedUp => HasState(f)

\* A step that removes state rows only with the rows of their file, or marks the
\* source as mixed up.
LEMMA StatesRemoved ==
    ASSUME StatesInv, NEW kept, states' = Kept(states, kept),
           \A f \in Files : rows'[f] = rows[f] \/ rows'[f] = Absent,
           \A f \in Files : rows'[f] # Absent /\ SourceOf[f] \notin mixedUp' =>
               /\ SourceOf[f] \notin mixedUp
               /\ \A st \in ToSet(states) : st.file = f => st \in kept
    PROVE  StatesInv'
<1>1. states' \in Seq(ToSet(states)) /\ ToSet(states') = ToSet(states) \cap kept
    BY KeptMembers DEF StatesInv
<1>2. states' \in Seq(ToSet(states'))
    <2>1. states' = [i \in 1..Len(states') |-> states'[i]] /\ Len(states') \in Nat
        BY <1>1
    <2>2. \A i \in 1..Len(states') : states'[i] \in ToSet(states')
        BY <1>1 DEF ToSet
    <2> QED BY <2>1, <2>2
<1>3. ASSUME NEW f \in Files, rows'[f] # Absent, SourceOf[f] \notin mixedUp'
      PROVE  HasState(f)'
    <2>1. PICK st \in ToSet(states) : st.file = f
        BY <1>3 DEF StatesInv, HasState
    <2>2. st \in ToSet(states')
        BY <1>1, <1>3, <2>1
    <2> QED BY <2>1, <2>2 DEF HasState
<1> QED BY <1>1, <1>2, <1>3 DEF StatesInv

\* purge_inactive_source_indexes, and delete_source_index of one source.
LEMMA WithoutKeeps ==
    ASSUME IInv, StatesInv, NEW ss, rows' = RowsWithout(ss), states' = StatesWithout(ss),
           mixedUp \subseteq mixedUp' \cup ss
    PROVE  StatesInv'
<1> DEFINE kept == {st \in ToSet(states) : SourceOf[st.file] \notin ss}
<1>1. states' = Kept(states, kept)
    BY DEF StatesWithout
<1>2. \A f \in Files : rows'[f] = IF SourceOf[f] \in ss THEN Absent ELSE rows[f]
    BY DEF RowsWithout
<1> QED BY <1>1, <1>2, StatesRemoved

LEMMA FinishKeepsStates ==
    ASSUME IInv, StatesInv, IndexFinish
    PROVE  StatesInv'
<1> DEFINE kept == {st \in ToSet(states) : \A g \in Gone : g.id # st.id}
<1>1. /\ states' = Kept(states, kept)
      /\ mixedUp' = mixedUp \cup {SourceOf[f] : f \in TakenFrom(Gone)}
    BY DEF IndexFinish, StatesNotGone
<1>2. \A f \in Files :
        rows'[f] = IF \E st \in Gone : st.file = f THEN Absent ELSE rows[f]
    BY DEF IndexFinish
<1>3. ASSUME NEW f \in Files, rows'[f] # Absent, SourceOf[f] \notin mixedUp',
             NEW st \in ToSet(states), st.file = f, st \notin kept
      PROVE  FALSE
    <2>1. PICK g \in Gone : g.id = st.id
        BY <1>3
    <2>2. g.file # f
        BY <1>2, <1>3
    <2>3. f \in TakenFrom(Gone)
        BY <1>3, <2>1, <2>2 DEF TakenFrom
    <2> QED BY <1>1, <1>3, <2>3
<1> HIDE DEF kept
<1> QED BY <1>1, <1>2, <1>3, StatesRemoved

LEMMA WriteKeepsStates ==
    ASSUME IInv, StatesInv, NEW f \in Files, IndexWrite(f)
    PROVE  StatesInv'
<1> DEFINE ofFile == {st \in ToSet(sweep.known) : st.file = f}
           previous == {st.id : st \in ofFile}
           found == {i \in 1..Len(states) : states[i].id \in previous}
           size == sweep.listed[f]
<1>1. /\ states' = AttemptRecorded(f) /\ SourceOf[f] = sweep.cur
      /\ mixedUp' = IF TakenFrom(ofFile) = {} THEN mixedUp ELSE mixedUp \cup {sweep.cur}
      /\ \A g \in Files : g # f => rows'[g] = rows[g]
    <2>1. sweep.pc = "read" /\ f = Head(sweep.pending)
        BY DEF IndexWrite
    <2>2. sweep.pending \in Seq(FilesOf(sweep.cur)) /\ sweep.pending # <<>>
        BY <2>1 DEF IInv, PendingInv, ReadInv
    <2>3. f \in FilesOf(sweep.cur)
        BY <2>1, <2>2
    <2> QED BY <2>3 DEF IndexWrite, FilesOf, IInv, TypeInv
<1>2. ToSet(states) = {states[i] : i \in 1..Len(states)}
    BY DEF StatesInv, ToSet
<1>3. PICK new :
        /\ states' \in Seq(ToSet(states) \cup {new}) /\ IsStateRow(new)
        /\ new \in ToSet(states') /\ ToSet(states') \subseteq ToSet(states) \cup {new}
        /\ \A st \in ToSet(states) : st \in ToSet(states') \/ st.file = new.file
        /\ new.file = f \/ TakenFrom(ofFile) # {}
    <2> DEFINE Good(new) ==
        /\ states' \in Seq(ToSet(states) \cup {new}) /\ IsStateRow(new)
        /\ new \in ToSet(states') /\ ToSet(states') \subseteq ToSet(states) \cup {new}
        /\ \A st \in ToSet(states) : st \in ToSet(states') \/ st.file = new.file
        /\ new.file = f \/ TakenFrom(ofFile) # {}
    <2> SUFFICES \E new : Good(new)
        OBVIOUS
    <2> HIDE DEF Good
    <2>0. states \in Seq(ToSet(states))
        BY DEF StatesInv
    <2>1. CASE found = {}
        <3> DEFINE new == [id |-> NextStateId, file |-> f, size |-> size]
        <3>1. states' = Append(states, new)
            BY <1>1, <2>1 DEF AttemptRecorded
        <3>2. IsStateRow(new) /\ new.file = f
            BY DEF IsStateRow
        <3> HIDE DEF new, found, ofFile
        <3>3. /\ states' \in Seq(ToSet(states) \cup {new})
              /\ ToSet(states') = ToSet(states) \cup {new}
            BY <2>0, <3>1, <3>2, Appended
        <3>4. Good(new)
            BY <3>2, <3>3 DEF Good
        <3> QED BY <3>4
    <2>2. CASE found # {}
        <3> DEFINE i == CHOOSE j \in found : TRUE
                   new == [states[i] EXCEPT !.size = size]
        <3>1. i \in found
            BY <2>2
        <3>2. states' = Append(RemoveAt(states, i), new)
            BY <1>1, <2>2 DEF AttemptRecorded
        <3>3. i \in 1..Len(states) /\ states[i].id \in previous
            BY <3>1
        <3> HIDE DEF i, found
        <3>4. states[i] \in ToSet(states) /\ IsStateRow(states[i])
            BY <1>2, <3>3 DEF StatesInv
        <3>5. /\ IsStateRow(new) /\ new.file = states[i].file
            BY <3>4 DEF IsStateRow
        <3>6. states[i].file = f \/ TakenFrom(ofFile) # {}
            <4>1. PICK k \in ofFile : k.id = states[i].id
                BY <3>3
            <4>2. k.file = f
                OBVIOUS
            <4> QED BY <3>4, <4>1, <4>2 DEF TakenFrom
        <3> HIDE DEF new, ofFile
        <3> DEFINE rest == RemoveAt(states, i)
        <3>7. /\ rest \in Seq(ToSet(states)) /\ ToSet(rest) \subseteq ToSet(states)
              /\ ToSet(states) \subseteq ToSet(rest) \cup {states[i]}
            BY <3>3, RemovedAt DEF StatesInv
        <3> HIDE DEF rest
        <3>8. /\ states' \in Seq(ToSet(states) \cup {new})
              /\ ToSet(states') = ToSet(rest) \cup {new}
            <4>1. states' = Append(rest, new)
                BY <3>2 DEF rest
            <4> QED BY <3>5, <3>7, <4>1, Appended
        <3>9. Good(new)
            BY <3>5, <3>6, <3>7, <3>8 DEF Good
        <3> QED BY <3>9
    <2> QED BY <2>1, <2>2
<1>4. states' \in Seq(ToSet(states'))
    <2>1. states' = [i \in 1..Len(states') |-> states'[i]] /\ Len(states') \in Nat
        BY <1>3
    <2>2. \A i \in 1..Len(states') : states'[i] \in ToSet(states')
        BY <1>3 DEF ToSet
    <2> QED BY <2>1, <2>2
<1>5. \A st \in ToSet(states') : IsStateRow(st)
    BY <1>3 DEF StatesInv
<1>6. ASSUME NEW g \in Files, rows'[g] # Absent, SourceOf[g] \notin mixedUp'
      PROVE  HasState(g)'
    <2>1. CASE g = f
        BY <1>1, <1>3, <1>6, <2>1 DEF HasState
    <2>2. CASE g # f
        <3>1. PICK st \in ToSet(states) : st.file = g
            BY <1>1, <1>6, <2>2 DEF StatesInv, HasState
        <3> QED BY <1>3, <3>1 DEF HasState
    <2> QED BY <2>1, <2>2
<1> QED BY <1>4, <1>5, <1>6 DEF StatesInv

LEMMA NextStatesInv == IInv /\ StatesInv /\ [Next]_vars => StatesInv'
<1> SUFFICES ASSUME IInv, StatesInv, [Next]_vars PROVE StatesInv'
    OBVIOUS
<1>1. CASE UNCHANGED <<rows, states, mixedUp>>
    BY <1>1 DEF StatesInv, HasState
<1>2. CASE SweepStart
    BY <1>2, WithoutKeeps DEF SweepStart
<1>3. CASE IndexFinish
    BY <1>3, FinishKeepsStates
<1>4. CASE \E f \in Files : IndexWrite(f)
    BY <1>4, WriteKeepsStates
<1>5. ASSUME NEW s \in Sources, NEW as, SwitchOff(s, as) PROVE StatesInv'
    BY <1>5, WithoutKeeps DEF SwitchOff
<1>6. ASSUME NEW s \in Sources, Relocate(s) PROVE StatesInv'
    BY <1>6, WithoutKeeps DEF Relocate
<1>7. ASSUME NEW s \in Sources, SwitchOn(s) PROVE UNCHANGED <<rows, states, mixedUp>>
    BY <1>7 DEF SwitchOn
<1>8. CASE IndexList \/ IndexStops \/ IndexFails \/ SweepEnd \/ Crash \/ Boot \/ UNCHANGED vars
    BY <1>1, <1>8 DEF IndexList, IndexStops, IndexFails, SweepEnd, Crash, Boot, vars
<1>9. CASE \E s \in Sources : IndexLoad(s)
    BY <1>1, <1>9 DEF IndexLoad
<1>10. CASE \E f \in Files : IndexRead(f) \/ FileWritten(f) \/ FileComesOrGoes(f)
    BY <1>1, <1>10 DEF IndexRead, FileWritten, FileComesOrGoes
<1> QED BY <1>1, <1>2, <1>3, <1>4, <1>5, <1>6, <1>7, <1>8, <1>9, <1>10
        DEF Next, SweepStep, Admin

LEMMA InitStatesInv == Init => StatesInv
<1> SUFFICES ASSUME Init PROVE StatesInv
    OBVIOUS
<1>1. states = <<>> /\ ToSet(states) = {} /\ \A f \in Files : rows[f] = Absent
    BY DEF Init, ToSet
<1> QED BY <1>1 DEF StatesInv

\* Every file with rows in the index has a state row (_record_attempt), by which a later
\* sweep, a deletion or a purge finds them, whatever the sweep, the files,
\* administrators and crashes do, unless one file's state was taken for another's.
THEOREM SpecIndexedFilesHaveTheirState == Spec => []IndexedFilesHaveTheirState
<1>1. IInv /\ StatesInv => IndexedFilesHaveTheirState
    BY DEF StatesInv, HasState, IndexedFilesHaveTheirState, ToSet
<1> QED BY <1>1, InitInv, NextInv, InitStatesInv, NextStatesInv, PTL DEF Spec

LEMMA PurgeFinds ==
    ASSUME IInv, StatesInv, [Next]_vars, sweep.pc = "idle", sweep'.pc = "next",
           NEW f \in Files, SourceOf[f] \notin Active \cup mixedUp
    PROVE  rows'[f] = Absent
<1>1. SweepStart
    <2>1. /\ \A s \in Sources : ~IndexLoad(s)
          /\ ~IndexList /\ ~IndexStops /\ ~IndexFinish /\ ~IndexFails /\ ~SweepEnd
          /\ \A g \in Files : ~IndexRead(g) /\ ~IndexWrite(g)
        BY DEF IndexLoad, IndexList, IndexStops, IndexFinish, IndexFails, SweepEnd,
               IndexRead, IndexWrite
    <2>2. sweep' # sweep
        OBVIOUS
    <2>3. ~Crash /\ ~Boot
        BY DEF Crash, Boot, IdleSweep
    <2>4. /\ \A s \in Sources : ~Admin(s)
          /\ \A g \in Files : ~FileWritten(g) /\ ~FileComesOrGoes(g)
        BY <2>2 DEF Admin, SwitchOff, SwitchOn, Relocate, FileWritten, FileComesOrGoes
    <2> QED BY <2>1, <2>2, <2>3, <2>4 DEF Next, SweepStep, vars
<1>2. rows'[f] = IF SourceOf[f] \in Inactive THEN Absent ELSE rows[f]
    BY <1>1 DEF SweepStart, RowsWithout
<1>3. rows[f] # Absent => SourceOf[f] \in Inactive
    BY DEF StatesInv, HasState, Inactive
<1> QED BY <1>2, <1>3

\* purge_inactive_source_indexes, which goes by the state rows, removes at the start of
\* the next sweep whatever was written for a source after it had been switched off,
\* unless the sweep took one file's state for another's.
THEOREM SpecPurgedUnlessMixedUp == Spec => PurgedUnlessMixedUp
<1>1. IInv /\ StatesInv /\ [Next]_vars =>
        [(sweep.pc = "idle" /\ sweep'.pc = "next") =>
            \A f \in Files : SourceOf[f] \notin Active \cup mixedUp => rows'[f] = Absent]_vars
    BY PurgeFinds
<1> QED BY <1>1, InitInv, NextInv, InitStatesInv, NextStatesInv, PTL
        DEF Spec, PurgedUnlessMixedUp

(***************************************************************************)
(* Organisation.                                                           *)
(*                                                                         *)
(* The inductive invariant: what there is, what a grant refers to and what *)
(* a request that waits will refer to has an id already given out.         *)
(***************************************************************************)

Used(scope) ==
    /\ scope.id \in Nat
    /\ scope.type = "customer" => scope.id < nextId.customer
    /\ scope.type = "folder" => scope.id < nextId.folder
    /\ scope.type = "source" => scope.id < nextId.source

IdsInv ==
    /\ nextId \in [customer: Nat, folder: Nat, source: Nat]
    /\ \A i \in customers : i \in Nat /\ i < nextId.customer
    /\ \A f \in DOMAIN folders : f \in Nat /\ f < nextId.folder
    /\ \A s \in DOMAIN sources : s \in Nat /\ s < nextId.source

GrantsInv == \A g \in DOMAIN grants : Used(grants[g].scope)

RequestOK(c) == c.op = "create_grant" => Used(c.scope)

OrgInv == IdsInv /\ GrantsInv /\ RequestOK(waiting)

organisation == <<customers, folders, sources, grants, nextId>>

\* A scope that exists has an id that was given out.
LEMMA ScopesUsed ==
    ASSUME IdsInv, NEW scope \in Scopes
    PROVE  Used(scope)
<1>1. CASE \E i \in customers : scope = Scope("customer", i)
    BY <1>1 DEF IdsInv, Scope, Used
<1>2. CASE \E f \in DOMAIN folders : scope = Scope("folder", f)
    BY <1>2 DEF IdsInv, Scope, Used
<1>3. CASE \E s \in DOMAIN sources : scope = Scope("source", s)
    BY <1>3 DEF IdsInv, Scope, Used
<1> QED BY <1>1, <1>2, <1>3 DEF Scopes

\* Ids are only ever given out.
LEMMA UsedStays ==
    ASSUME nextId \in [customer: Nat, folder: Nat, source: Nat],
           nextId' \in [customer: Nat, folder: Nat, source: Nat],
           nextId.customer <= nextId'.customer, nextId.folder <= nextId'.folder,
           nextId.source <= nextId'.source,
           NEW scope, Used(scope)
    PROVE  Used(scope)'
BY DEF Used

LEMMA PassedFacts ==
    ASSUME NEW c, Passed(c)
    PROVE  \/ Applied(c) /\ waiting' = waiting
           \/ waiting' = c /\ UNCHANGED organisation
BY DEF Passed, organisation

\* What each commit does to the ids, the scopes and the grants.
LEMMA AppliedFacts ==
    ASSUME IdsInv, GrantsInv, NEW c, RequestOK(c), Applied(c)
    PROVE  /\ IdsInv'
           /\ nextId.customer <= nextId'.customer /\ nextId.folder <= nextId'.folder
           /\ nextId.source <= nextId'.source
           /\ \A g \in DOMAIN grants' : Used(grants'[g].scope)
           /\ \A scope \in Scopes' \ Scopes : ~Used(scope)
<1>1. CASE c.op = "create_customer" /\ CustomerCreated
    <2>1. /\ customers' = customers \cup {nextId.customer} /\ nextId' = [nextId EXCEPT !.customer = @ + 1]
          /\ UNCHANGED <<folders, sources, grants>>
        BY <1>1 DEF CustomerCreated
    <2>2. IdsInv' /\ nextId.customer <= nextId'.customer /\ nextId.folder <= nextId'.folder
            /\ nextId.source <= nextId'.source
        BY <2>1 DEF IdsInv
    <2>3. \A scope \in Scopes' \ Scopes : scope = Scope("customer", nextId.customer)
        BY <2>1 DEF Scopes
    <2>4. \A scope \in Scopes' \ Scopes : ~Used(scope)
        BY <2>3 DEF Scope, Used
    <2> QED BY <2>1, <2>2, <2>4 DEF GrantsInv
<1>2. CASE c.op = "create_folder" /\ FolderCreated(c)
    <2>1. /\ DOMAIN folders' = DOMAIN folders \cup {nextId.folder}
          /\ nextId' = [nextId EXCEPT !.folder = @ + 1]
          /\ UNCHANGED <<customers, sources, grants>>
        BY <1>2 DEF FolderCreated, NewFolderId, Put
    <2>2. IdsInv' /\ nextId.customer <= nextId'.customer /\ nextId.folder <= nextId'.folder
            /\ nextId.source <= nextId'.source
        BY <2>1 DEF IdsInv
    <2>3. \A scope \in Scopes' \ Scopes : scope = Scope("folder", nextId.folder)
        BY <2>1 DEF Scopes
    <2>4. \A scope \in Scopes' \ Scopes : ~Used(scope)
        BY <2>3 DEF Scope, Used
    <2> QED BY <2>1, <2>2, <2>4 DEF GrantsInv
<1>3. CASE c.op = "create_source" /\ SourceCreated(c)
    <2>1. /\ DOMAIN sources' = DOMAIN sources \cup {nextId.source}
          /\ nextId' = [nextId EXCEPT !.source = @ + 1]
          /\ UNCHANGED <<customers, folders, grants>>
        BY <1>3 DEF SourceCreated, Put
    <2>2. IdsInv' /\ nextId.customer <= nextId'.customer /\ nextId.folder <= nextId'.folder
            /\ nextId.source <= nextId'.source
        BY <2>1 DEF IdsInv
    <2>3. \A scope \in Scopes' \ Scopes : scope = Scope("source", nextId.source)
        BY <2>1 DEF Scopes
    <2>4. \A scope \in Scopes' \ Scopes : ~Used(scope)
        BY <2>3 DEF Scope, Used
    <2> QED BY <2>1, <2>2, <2>4 DEF GrantsInv
<1>4. ASSUME nextId' = nextId, customers' \subseteq customers,
             DOMAIN folders' \subseteq DOMAIN folders, DOMAIN sources' \subseteq DOMAIN sources,
             \A g \in DOMAIN grants' : Used(grants'[g].scope)
      PROVE  /\ IdsInv'
             /\ nextId.customer <= nextId'.customer /\ nextId.folder <= nextId'.folder
             /\ nextId.source <= nextId'.source
             /\ \A scope \in Scopes' \ Scopes : ~Used(scope)
    <2>1. IdsInv' /\ nextId.customer <= nextId'.customer /\ nextId.folder <= nextId'.folder
            /\ nextId.source <= nextId'.source
        BY <1>4 DEF IdsInv
    <2>2. Scopes' \subseteq Scopes
        BY <1>4 DEF Scopes
    <2> QED BY <2>1, <2>2
<1>5. \A type, id : \A g \in DOMAIN WithoutScope(type, id) : Used(WithoutScope(type, id)[g].scope)
    BY DEF WithoutScope, Drop, GrantsInv
<1>6. CASE \/ c.op = "delete_customer" /\ CustomerDeleted(c)
           \/ c.op = "delete_folder" /\ FolderDeleted(c)
           \/ c.op = "delete_source" /\ SourceDeleted(c)
    BY <1>4, <1>5, <1>6 DEF CustomerDeleted, FolderDeleted, SourceDeleted, Drop, GrantsInv
<1>7. CASE \/ c.op = "move_folder" /\ FolderMoved(c)
           \/ c.op = "move_source" /\ SourceMoved(c)
    BY <1>4, <1>7 DEF FolderMoved, SourceMoved, GrantsInv
<1>8. CASE c.op = "create_grant" /\ GrantCreated(c)
    BY <1>4, <1>8 DEF GrantCreated, Put, GrantsInv, RequestOK
<1>9. CASE c.op = "update_grant" /\ GrantUpdated(c)
    BY <1>4, <1>9 DEF GrantUpdated, GrantsInv
<1>10. CASE c.op = "delete_grant" /\ GrantDeleted(c)
    BY <1>4, <1>10 DEF GrantDeleted, Drop, GrantsInv
<1> QED BY <1>1, <1>2, <1>3, <1>6, <1>7, <1>8, <1>9, <1>10 DEF Applied

LEMMA RequestsOK ==
    ASSUME IdsInv, OrgNext, ~CommitLate, ~GiveUp
    PROVE  \E c : RequestOK(c) /\ Passed(c)
<1>1. ASSUME CreateGrant PROVE \E c : RequestOK(c) /\ Passed(c)
    <2>1. PICK scope \in Scopes, gives \in BOOLEAN :
            Passed([op |-> "create_grant", scope |-> scope, gives |-> gives])
        BY <1>1 DEF CreateGrant
    <2> QED BY <2>1, ScopesUsed DEF RequestOK
<1>2. ASSUME CreateCustomer \/ DeleteCustomer PROVE \E c : RequestOK(c) /\ Passed(c)
    BY <1>2 DEF CreateCustomer, DeleteCustomer, RequestOK
<1>3. ASSUME CreateFolder \/ MoveFolder \/ DeleteFolder PROVE \E c : RequestOK(c) /\ Passed(c)
    BY <1>3 DEF CreateFolder, MoveFolder, DeleteFolder, RequestOK
<1>4. ASSUME CreateSource \/ MoveSource \/ DeleteSource PROVE \E c : RequestOK(c) /\ Passed(c)
    BY <1>4 DEF CreateSource, MoveSource, DeleteSource, RequestOK
<1>5. ASSUME UpdateGrant \/ DeleteGrant PROVE \E c : RequestOK(c) /\ Passed(c)
    BY <1>5 DEF UpdateGrant, DeleteGrant, RequestOK
<1> QED BY <1>1, <1>2, <1>3, <1>4, <1>5 DEF OrgNext

LEMMA OrgInitInv == OrgInit => OrgInv
<1> SUFFICES ASSUME OrgInit PROVE OrgInv
    OBVIOUS
<1>1. IdsInv
    BY OrgAssumption DEF OrgInit, IdsInv
<1>2. GrantsInv /\ RequestOK(waiting)
    BY DEF OrgInit, GrantsInv, RequestOK, Nobody
<1> QED BY <1>1, <1>2 DEF OrgInv

\* One step: the invariant, and that a scope it creates has no grant.
LEMMA OrgStepInv ==
    OrgInv /\ [OrgNext]_orgVars => OrgInv' /\ \A scope \in Scopes' \ Scopes : GrantsOn(scope)' = {}
<1> SUFFICES ASSUME OrgInv, [OrgNext]_orgVars
             PROVE  OrgInv' /\ \A scope \in Scopes' \ Scopes : GrantsOn(scope)' = {}
    OBVIOUS
<1> USE DEF OrgInv
<1>1. ASSUME UNCHANGED organisation
      PROVE  IdsInv' /\ GrantsInv' /\ Scopes' \subseteq Scopes
                /\ \A c : RequestOK(c) => RequestOK(c)'
    BY <1>1 DEF organisation, IdsInv, GrantsInv, Used, Scopes, RequestOK
<1>2. ASSUME NEW c, RequestOK(c), Applied(c)
      PROVE  /\ IdsInv' /\ GrantsInv' /\ \A d : RequestOK(d) => RequestOK(d)'
             /\ \A scope \in Scopes' \ Scopes : GrantsOn(scope)' = {}
    <2>1. /\ IdsInv'
          /\ nextId.customer <= nextId'.customer /\ nextId.folder <= nextId'.folder
          /\ nextId.source <= nextId'.source
          /\ \A g \in DOMAIN grants' : Used(grants'[g].scope)
          /\ \A scope \in Scopes' \ Scopes : ~Used(scope)
        BY <1>2, AppliedFacts
    <2>2. \A scope : Used(scope) => Used(scope)'
        BY <2>1, UsedStays DEF IdsInv
    <2>3. GrantsInv' /\ \A d : RequestOK(d) => RequestOK(d)'
        BY <2>1, <2>2 DEF GrantsInv, RequestOK
    <2>4. \A scope \in Scopes' \ Scopes : GrantsOn(scope)' = {}
        BY <2>1 DEF GrantsOn
    <2> QED BY <2>1, <2>3, <2>4
<1>3. RequestOK(Nobody)'
    BY DEF RequestOK, Nobody
<1>4. CASE CommitLate
    BY <1>2, <1>3, <1>4 DEF CommitLate
<1>5. CASE GiveUp
    BY <1>1, <1>3, <1>5 DEF GiveUp, organisation
<1>6. CASE UNCHANGED orgVars
    BY <1>1, <1>6 DEF orgVars, organisation
<1>7. CASE OrgNext /\ ~CommitLate /\ ~GiveUp
    <2>1. PICK c : RequestOK(c) /\ Passed(c)
        BY <1>7, RequestsOK
    <2> QED BY <1>1, <1>2, <2>1, PassedFacts
<1> QED BY <1>4, <1>5, <1>6, <1>7

\* Every id in use or referred to was given out before, whatever the handlers of
\* api/customers.py, api/folders.py, api/sources.py and api/roles.py do.
THEOREM SpecOrgInv == OrgSpec => []OrgInv
BY OrgInitInv, OrgStepInv, PTL DEF OrgSpec

\* A grant that a race left behind on a deleted customer, folder or source never applies to
\* a later one: AUTOINCREMENT alone gives what models.NO_ID_REUSE asks for.
THEOREM SpecNewScopesStartUngranted == OrgSpec => NewScopesStartUngranted
BY SpecOrgInv, OrgStepInv, PTL DEF OrgSpec, NewScopesStartUngranted

(***************************************************************************)
(* The folder tree.  The walk of Up is over a recursive function, which is *)
(* shown to exist by induction over the number of its steps.  FolderOver   *)
(* and UpIn are Up over any table of folders, to compare two of them.      *)
(***************************************************************************)

FolderOver(fs, f) == IF f \in DOMAIN fs THEN fs[f].parent ELSE None

Walk(fs, g, f, n) ==
    g = [k \in 0..n |-> IF k = 0 THEN f
            ELSE IF g[k - 1] \in DOMAIN fs THEN fs[g[k - 1]].parent ELSE None]

UpIn(fs, f, n) == (CHOOSE g : Walk(fs, g, f, n))[n]

LEMMA UpIsUpIn == ASSUME NEW f, NEW n PROVE Up(f, n) = UpIn(folders, f, n)
BY DEF Up, UpIn, Walk

LEMMA WalkExists ==
    ASSUME NEW fs, NEW f, NEW n \in Nat
    PROVE  \E g : Walk(fs, g, f, n)
<1> DEFINE I == {m \in Nat : \E g : Walk(fs, g, f, m)}
<1>1. 0 \in I
    <2>1. Walk(fs, [k \in 0..0 |-> f], f, 0)
        BY DEF Walk
    <2> QED BY <2>1
<1>2. ASSUME NEW m \in Nat, m \in I PROVE m + 1 \in I
    <2>1. PICK g : Walk(fs, g, f, m)
        BY <1>2
    <2> DEFINE next == FolderOver(fs, g[m])
               h == [k \in 0..(m + 1) |-> IF k = m + 1 THEN next ELSE g[k]]
    <2>2. h[m + 1] = next /\ \A k \in 0..m : h[k] = g[k]
        BY SMT
    <2>3. \A k \in 0..m : g[k] = IF k = 0 THEN f ELSE FolderOver(fs, g[k - 1])
        BY <2>1 DEF Walk, FolderOver
    <2>4. h = [k \in 0..(m + 1) |-> h[k]]
        OBVIOUS
    <2> HIDE DEF h
    <2>5. ASSUME NEW k \in 0..(m + 1)
          PROVE  h[k] = IF k = 0 THEN f ELSE FolderOver(fs, h[k - 1])
        <3>1. CASE k = m + 1
            <4>1. k # 0 /\ k - 1 = m /\ m \in 0..m
                BY <3>1
            <4>2. h[k] = next /\ h[k - 1] = g[m]
                BY <3>1, <4>1, <2>2
            <4> QED BY <4>1, <4>2
        <3>2. CASE k \in 0..m
            <4>1. k # 0 => k - 1 \in 0..m
                BY <3>2
            <4> QED BY <3>2, <4>1, <2>2, <2>3
        <3> QED BY <3>1, <3>2
    <2>6. Walk(fs, h, f, m + 1)
        BY <2>4, <2>5 DEF Walk, FolderOver
    <2> QED BY <2>6
<1> HIDE DEF I
<1>3. n \in I
    BY <1>1, <1>2, Induction
<1> QED BY <1>3 DEF I

\* Two walks from the same folder agree as far as both go.
LEMMA WalksAgree ==
    ASSUME NEW fs, NEW f, NEW n \in Nat, NEW m \in Nat, NEW g, NEW h,
           Walk(fs, g, f, n), Walk(fs, h, f, m), NEW k \in Nat, k <= n, k <= m
    PROVE  g[k] = h[k]
<1> DEFINE I == {j \in Nat : j <= k => g[j] = h[j]}
<1>1. /\ \A j \in 0..n : g[j] = IF j = 0 THEN f ELSE FolderOver(fs, g[j - 1])
      /\ \A j \in 0..m : h[j] = IF j = 0 THEN f ELSE FolderOver(fs, h[j - 1])
    BY DEF Walk, FolderOver
<1>2. 0 \in I
    BY <1>1
<1>3. ASSUME NEW j \in Nat, j \in I PROVE j + 1 \in I
    <2> SUFFICES ASSUME j + 1 <= k PROVE g[j + 1] = h[j + 1]
        OBVIOUS
    <2>1. /\ j + 1 \in 0..n /\ j + 1 \in 0..m /\ j + 1 # 0 /\ (j + 1) - 1 = j
          /\ g[j] = h[j]
        BY <1>3
    <2> HIDE DEF I
    <2> QED BY <1>1, <2>1
<1> HIDE DEF I
<1>4. k \in I
    BY <1>2, <1>3, Induction
<1> QED BY <1>4 DEF I

\* Up, step by step.
LEMMA UpSteps ==
    ASSUME NEW fs, NEW f
    PROVE  /\ UpIn(fs, f, 0) = f
           /\ \A n \in Nat : UpIn(fs, f, n + 1) = FolderOver(fs, UpIn(fs, f, n))
<1> DEFINE walk(n) == CHOOSE g : Walk(fs, g, f, n)
<1>1. \A n \in Nat : Walk(fs, walk(n), f, n) /\ UpIn(fs, f, n) = walk(n)[n]
    BY WalkExists DEF UpIn
<1> HIDE DEF walk
<1>2. ASSUME NEW n \in Nat, NEW k \in 0..n
      PROVE  walk(n)[k] = IF k = 0 THEN f ELSE FolderOver(fs, walk(n)[k - 1])
    BY <1>1 DEF Walk, FolderOver
<1>3. UpIn(fs, f, 0) = f
    BY <1>1, <1>2
<1>4. ASSUME NEW n \in Nat PROVE UpIn(fs, f, n + 1) = FolderOver(fs, UpIn(fs, f, n))
    <2>1. n + 1 \in Nat /\ n + 1 \in 0..(n + 1) /\ n + 1 # 0 /\ (n + 1) - 1 = n
        OBVIOUS
    <2>2. UpIn(fs, f, n + 1) = FolderOver(fs, walk(n + 1)[n])
        BY <1>1, <1>2, <2>1
    <2>3. walk(n + 1)[n] = walk(n)[n]
        <3>1. Walk(fs, walk(n + 1), f, n + 1) /\ Walk(fs, walk(n), f, n) /\ n <= n + 1 /\ n <= n
            BY <1>1, <2>1
        <3> QED BY <2>1, <3>1, WalksAgree
    <2> QED BY <1>1, <2>2, <2>3
<1> QED BY <1>3, <1>4

LEMMA UpNext ==
    ASSUME NEW fs, NEW f, NEW n \in Nat
    PROVE  UpIn(fs, f, n + 1) = FolderOver(fs, UpIn(fs, f, n))
BY UpSteps

LEMMA UpAdds ==
    ASSUME NEW fs, NEW f, NEW n \in Nat, NEW m \in Nat
    PROVE  UpIn(fs, UpIn(fs, f, n), m) = UpIn(fs, f, n + m)
<1> DEFINE g == UpIn(fs, f, n)
           I == {j \in Nat : UpIn(fs, g, j) = UpIn(fs, f, n + j)}
<1>1. 0 \in I
    <2>1. n + 0 = n
        OBVIOUS
    <2> QED BY <2>1, UpSteps
<1>2. ASSUME NEW j \in Nat, j \in I PROVE j + 1 \in I
    <2>1. UpIn(fs, g, j) = UpIn(fs, f, n + j)
        BY <1>2
    <2> HIDE DEF g
    <2>2. UpIn(fs, g, j + 1) = FolderOver(fs, UpIn(fs, g, j))
        BY UpSteps
    <2>3. n + j \in Nat /\ n + (j + 1) = (n + j) + 1
        OBVIOUS
    <2>4. UpIn(fs, f, n + (j + 1)) = FolderOver(fs, UpIn(fs, f, n + j))
        BY <2>3, UpSteps
    <2> QED BY <2>1, <2>2, <2>4
<1> HIDE DEF I
<1>3. m \in I
    BY <1>1, <1>2, Induction
<1> QED BY <1>3 DEF I

\* Two tables that have the same folder over each one passed are walked alike.
LEMMA UpSame ==
    ASSUME NEW fs, NEW gs, NEW f, NEW n \in Nat,
           \A k \in Nat : k < n =>
                FolderOver(gs, UpIn(fs, f, k)) = FolderOver(fs, UpIn(fs, f, k))
    PROVE  UpIn(gs, f, n) = UpIn(fs, f, n)
<1> DEFINE I == {j \in Nat : j <= n => UpIn(gs, f, j) = UpIn(fs, f, j)}
<1>1. 0 \in I
    BY UpSteps
<1>2. ASSUME NEW j \in Nat, j \in I PROVE j + 1 \in I
    <2> SUFFICES ASSUME j + 1 <= n PROVE UpIn(gs, f, j + 1) = UpIn(fs, f, j + 1)
        OBVIOUS
    <2>1. UpIn(gs, f, j) = UpIn(fs, f, j) /\ j < n
        BY <1>2
    <2> HIDE DEF I
    <2>2. FolderOver(gs, UpIn(fs, f, j)) = FolderOver(fs, UpIn(fs, f, j))
        BY <2>1
    <2>3. UpIn(gs, f, j + 1) = FolderOver(gs, UpIn(gs, f, j))
        BY UpNext
    <2>4. UpIn(fs, f, j + 1) = FolderOver(fs, UpIn(fs, f, j))
        BY UpNext
    <2> QED BY <2>1, <2>2, <2>3, <2>4
<1> HIDE DEF I
<1>3. n \in I
    BY <1>1, <1>2, Induction
<1> QED BY <1>3 DEF I

\* Past the top there is nothing.
LEMMA UpNone ==
    ASSUME NEW fs, None \notin DOMAIN fs, NEW n \in Nat
    PROVE  UpIn(fs, None, n) = None
<1> DEFINE I == {j \in Nat : UpIn(fs, None, j) = None}
<1>1. 0 \in I
    BY UpSteps
<1>2. ASSUME NEW j \in Nat, j \in I PROVE j + 1 \in I
    <2>1. UpIn(fs, None, j + 1) = FolderOver(fs, UpIn(fs, None, j)) /\ UpIn(fs, None, j) = None
        BY <1>2, UpSteps
    <2> QED BY <2>1 DEF FolderOver
<1> HIDE DEF I
<1>3. n \in I
    BY <1>1, <1>2, Induction
<1> QED BY <1>3 DEF I

\* A walk stays in the tree it starts in.
LEMMA UpInPlace ==
    ASSUME FoldersInPlace, None \notin DOMAIN folders, NEW f \in DOMAIN folders, NEW n \in Nat
    PROVE  LET g == UpIn(folders, f, n) IN
           g = None \/ (g \in DOMAIN folders /\ folders[g].customer = folders[f].customer)
<1> DEFINE In(g) == g = None \/ (g \in DOMAIN folders /\ folders[g].customer = folders[f].customer)
           I == {j \in Nat : In(UpIn(folders, f, j))}
<1>1. 0 \in I
    BY UpSteps
<1>2. ASSUME NEW j \in Nat, j \in I PROVE j + 1 \in I
    <2>1. In(UpIn(folders, f, j))
        BY <1>2
    <2>2. UpIn(folders, f, j + 1) = FolderOver(folders, UpIn(folders, f, j))
        BY UpSteps
    <2>3. ASSUME NEW g, In(g) PROVE In(FolderOver(folders, g))
        <3>1. CASE g \in DOMAIN folders
            <4>1. FolderOver(folders, g) = folders[g].parent /\ g # None
                BY <3>1 DEF FolderOver
            <4>2. folders[g].customer = folders[f].customer
                BY <2>3, <4>1
            <4> QED BY <3>1, <4>1, <4>2 DEF FoldersInPlace
        <3>2. CASE g \notin DOMAIN folders
            <4>1. FolderOver(folders, g) = None
                BY <3>2 DEF FolderOver
            <4> QED BY <4>1
        <3> QED BY <3>1, <3>2
    <2> HIDE DEF In
    <2> QED BY <2>1, <2>2, <2>3
<1> HIDE DEF I
<1>3. n \in I
    BY <1>1, <1>2, Induction
<1> QED BY <1>3 DEF I

\* One folder, f, gets another parent, p, above which f is not: no cycle comes of it.
LEMMA NoCycleMade ==
    ASSUME NEW fs, NEW gs, NEW N \in Nat, NEW f, NEW p, f # None, None \notin DOMAIN fs,
           FolderOver(gs, f) = p,
           \A g : g # f => FolderOver(gs, g) = FolderOver(fs, g),
           \A n \in 0..N : UpIn(fs, p, n) # f,
           NEW x, x = f \/ \A n \in 1..N : UpIn(fs, x, n) # x,
           NEW n \in 1..N, UpIn(gs, x, n) = x
    PROVE  FALSE
<1>0. n \in Nat /\ n > 0
    OBVIOUS
<1>1. PICK k \in Nat : k < n /\ UpIn(gs, x, k) = f
    <2>1. ASSUME \A k \in Nat : k < n => UpIn(gs, x, k) # f PROVE FALSE
        <3>1. \A k \in Nat : k < n =>
                FolderOver(fs, UpIn(gs, x, k)) = FolderOver(gs, UpIn(gs, x, k))
            BY <2>1
        <3>2. UpIn(fs, x, n) = UpIn(gs, x, n)
            BY <1>0, <3>1, UpSame
        <3>3. x # f
            <4>1. UpIn(gs, x, 0) = x
                BY UpSteps
            <4> QED BY <1>0, <2>1, <4>1
        <3> QED BY <3>2, <3>3
    <2> QED BY <2>1
<1>2. UpIn(gs, f, n) = f
    <2>1. UpIn(gs, UpIn(gs, x, k), n) = UpIn(gs, x, k + n)
        BY <1>0, UpAdds
    <2>2. UpIn(gs, UpIn(gs, x, n), k) = UpIn(gs, x, n + k)
        BY <1>0, UpAdds
    <2>3. k + n = n + k
        BY <1>0
    <2> QED BY <1>1, <2>1, <2>2, <2>3
<1> DEFINE Round == {j \in Nat : j > 0 /\ UpIn(gs, f, j) = f}
<1>3. PICK m \in Round : \A j \in Round : m <= j
    <2>1. n \in Round /\ Round \in SUBSET Nat
        BY <1>0, <1>2
    <2> HIDE DEF Round
    <2> QED BY <2>1, Least
<1>4. m \in Nat /\ m > 0 /\ m <= n /\ m - 1 \in Nat /\ m - 1 \in 0..N /\ 1 + (m - 1) = m
    BY <1>0, <1>2, <1>3
<1>5. UpIn(gs, f, 1) = p
    <2>1. 0 + 1 = 1 /\ 0 \in Nat
        OBVIOUS
    <2>2. UpIn(gs, f, 0 + 1) = FolderOver(gs, UpIn(gs, f, 0)) /\ UpIn(gs, f, 0) = f
        BY <2>1, UpSteps
    <2> QED BY <2>1, <2>2
<1>6. \A j \in Nat : UpIn(gs, p, j) = UpIn(gs, f, 1 + j)
    <2> HIDE DEF Round
    <2>1. 1 \in Nat
        OBVIOUS
    <2> QED BY <1>5, <2>1, UpAdds
<1>7. UpIn(gs, p, m - 1) = f
    BY <1>3, <1>4, <1>6
<1>8. ASSUME NEW j \in Nat, j < m - 1 PROVE UpIn(gs, p, j) # f
    <2>1. 1 + j \in Nat /\ 1 + j > 0 /\ 1 + j < m
        BY <1>4, <1>8
    <2>2. 1 + j \notin Round
        BY <1>3, <1>4, <2>1
    <2> QED BY <1>6, <2>1, <2>2
<1> HIDE DEF Round
<1>9. UpIn(fs, p, m - 1) = UpIn(gs, p, m - 1)
    <2>1. \A j \in Nat : j < m - 1 =>
            FolderOver(fs, UpIn(gs, p, j)) = FolderOver(gs, UpIn(gs, p, j))
        BY <1>8
    <2> QED BY <1>4, <2>1, UpSame
<1> QED BY <1>4, <1>7, <1>9

(***************************************************************************)
(* The organisation stays consistent.                                      *)
(***************************************************************************)

\* What a row is, and the bounds on the ids.
ShapeInv ==
    /\ customers \subseteq CustomerIds /\ DOMAIN folders \subseteq FolderIds
    /\ \A f \in DOMAIN folders : DOMAIN folders[f] = {"customer", "parent"}
    /\ \A s \in DOMAIN sources : DOMAIN sources[s] = {"customer", "folder"}

LEMMA UpOfNext == ASSUME NEW f, NEW n PROVE Up(f, n)' = UpIn(folders', f, n)
BY DEF Up, UpIn, Walk

LEMMA NoFolderNone == ShapeInv => None \notin DOMAIN folders
BY DEF ShapeInv, FolderIds, None

LEMMA AppliedShape ==
    ASSUME ShapeInv, NEW c, Applied(c)
    PROVE  ShapeInv'
<1> USE DEF ShapeInv
<1>1. CASE CustomerCreated
    BY <1>1 DEF CustomerCreated, CustomerIds, FolderIds
<1>2. CASE CustomerDeleted(c)
    <2>1. /\ customers' \subseteq customers /\ UNCHANGED folders
          /\ DOMAIN sources' = DOMAIN sources
          /\ \A s \in DOMAIN sources : \/ sources'[s] = sources[s]
                                       \/ sources'[s] = [sources[s] EXCEPT !.customer = None]
        BY <1>2 DEF CustomerDeleted
    <2> QED BY <2>1 DEF CustomerIds, FolderIds
<1>3. CASE FolderCreated(c)
    BY <1>3 DEF FolderCreated, Put, CustomerIds, FolderIds
<1>4. CASE FolderMoved(c)
    BY <1>4 DEF FolderMoved, CustomerIds, FolderIds
<1>5. CASE FolderDeleted(c)
    <2>1. /\ UNCHANGED customers
          /\ DOMAIN folders' \subseteq DOMAIN folders
          /\ \A f \in DOMAIN folders' : \/ folders'[f] = folders[f]
                                        \/ folders'[f] = [folders[f] EXCEPT !.parent = None]
        BY <1>5 DEF FolderDeleted
    <2>2. /\ DOMAIN sources' = DOMAIN sources
          /\ \A s \in DOMAIN sources : \/ sources'[s] = sources[s]
                                       \/ sources'[s] = [sources[s] EXCEPT !.folder = None]
        BY <1>5 DEF FolderDeleted
    <2> QED BY <2>1, <2>2 DEF CustomerIds, FolderIds
<1>6. CASE SourceCreated(c)
    BY <1>6 DEF SourceCreated, Put, CustomerIds, FolderIds
<1>7. CASE SourceMoved(c)
    BY <1>7 DEF SourceMoved, CustomerIds, FolderIds
<1>8. CASE SourceDeleted(c)
    BY <1>8 DEF SourceDeleted, Drop, CustomerIds, FolderIds
<1>9. CASE GrantCreated(c) \/ GrantUpdated(c) \/ GrantDeleted(c)
    BY <1>9 DEF GrantCreated, GrantUpdated, GrantDeleted, CustomerIds, FolderIds
<1> QED BY <1>1, <1>2, <1>3, <1>4, <1>5, <1>6, <1>7, <1>8, <1>9 DEF Applied

LEMMA NextShape == ShapeInv /\ [OrgNext]_orgVars => ShapeInv'
<1> SUFFICES ASSUME ShapeInv, [OrgNext]_orgVars PROVE ShapeInv'
    OBVIOUS
<1>1. CASE UNCHANGED <<customers, folders, sources>>
    BY <1>1 DEF ShapeInv, CustomerIds, FolderIds
<1>2. ASSUME NEW c, Passed(c) PROVE ShapeInv'
    BY <1>1, <1>2, PassedFacts, AppliedShape DEF organisation
<1>3. CASE CommitLate
    BY <1>3, AppliedShape DEF CommitLate
<1>4. CASE GiveUp \/ UNCHANGED orgVars
    BY <1>1, <1>4 DEF GiveUp, orgVars
<1>5. CASE CreateCustomer \/ DeleteCustomer \/ CreateFolder \/ MoveFolder \/ DeleteFolder
    BY <1>2, <1>5 DEF CreateCustomer, DeleteCustomer, CreateFolder, MoveFolder, DeleteFolder
<1>6. CASE CreateSource \/ MoveSource \/ DeleteSource
    BY <1>2, <1>6 DEF CreateSource, MoveSource, DeleteSource
<1>7. CASE CreateGrant \/ UpdateGrant \/ DeleteGrant
    BY <1>2, <1>7 DEF CreateGrant, UpdateGrant, DeleteGrant
<1> QED BY <1>3, <1>4, <1>5, <1>6, <1>7 DEF OrgNext

LEMMA InitShape == OrgInit => ShapeInv
BY OrgAssumption DEF OrgInit, ShapeInv, CustomerIds

\* The folders are as they were.
LEMMA FoldersStay ==
    ASSUME NoCycle, FoldersInPlace, folders' = folders,
           \A f \in DOMAIN folders : folders[f].customer \in customers'
    PROVE  NoCycle' /\ FoldersInPlace'
<1>1. \A f, n : Up(f, n)' = Up(f, n)
    BY UpOfNext, UpIsUpIn
<1>2. NoCycle'
    BY <1>1 DEF NoCycle, OnCycle
<1>3. FoldersInPlace'
    BY DEF FoldersInPlace
<1> QED BY <1>2, <1>3

\* One folder is created, or moved: f, below p.
LEMMA FolderPut ==
    ASSUME ShapeInv, NoCycle, NEW f \in FolderIds, NEW p,
           f \in DOMAIN folders' /\ DOMAIN folders' \subseteq DOMAIN folders \cup {f},
           DOMAIN folders \subseteq DOMAIN folders',
           folders'[f].parent = p,
           \A g \in DOMAIN folders \ {f} : folders'[g] = folders[g],
           \A n \in 0..MaxFolders : UpIn(folders, p, n) # f
    PROVE  NoCycle'
<1>1. /\ None \notin DOMAIN folders /\ f # None /\ MaxFolders \in Nat
    BY NoFolderNone, OrgAssumption DEF FolderIds, None
<1>2. FolderOver(folders', f) = p /\ \A g : g # f => FolderOver(folders', g) = FolderOver(folders, g)
    BY DEF FolderOver
<1>3. ASSUME NEW x \in DOMAIN folders', NEW n \in 1..MaxFolders, UpIn(folders', x, n) = x
      PROVE  FALSE
    <2>1. x = f \/ \A m \in 1..MaxFolders : UpIn(folders, x, m) # x
        BY UpIsUpIn DEF NoCycle, OnCycle
    <2> QED BY <1>1, <1>2, <1>3, <2>1, NoCycleMade
<1> QED BY <1>3, UpOfNext DEF NoCycle, OnCycle

LEMMA FolderMovedKeeps ==
    ASSUME ShapeInv, Consistent, NEW f \in DOMAIN folders, NEW p \in DOMAIN folders \cup {None},
           ValidParent(p, folders[f].customer, f),
           NEW c, c.id = f, c.parent = p, FolderMoved(c)
    PROVE  Consistent'
<1> USE DEF Consistent
<1>1. /\ folders' = [folders EXCEPT ![f].parent = p] /\ UNCHANGED <<customers, sources>>
    BY DEF FolderMoved
<1>2. /\ DOMAIN folders' = DOMAIN folders
      /\ folders'[f].parent = p /\ folders'[f].customer = folders[f].customer
      /\ \A g \in DOMAIN folders \ {f} : folders'[g] = folders[g]
    BY <1>1 DEF ShapeInv
<1>3. f \in FolderIds /\ f # None /\ None \notin DOMAIN folders
    BY NoFolderNone DEF ShapeInv
<1>4. ASSUME NEW n \in 0..MaxFolders, UpIn(folders, p, n) = f PROVE FALSE
    <2>1. CASE p = None
        BY <1>3, <1>4, <2>1, UpNone
    <2>2. CASE p # None
        <3>1. f \in Chain(p)
            BY <1>3, <1>4, UpIsUpIn DEF Chain
        <3> QED BY <2>2, <3>1 DEF ValidParent, AboveItself
    <2> QED BY <2>1, <2>2
<1>5. NoCycle'
    BY <1>2, <1>3, <1>4, FolderPut
<1>6. p # None => p \in DOMAIN folders /\ folders[p].customer = folders[f].customer
    BY DEF ValidParent
<1>7. \A g \in DOMAIN folders : folders'[g].customer = folders[g].customer
    BY <1>2
<1>8. FoldersInPlace'
    BY <1>1, <1>2, <1>6, <1>7 DEF FoldersInPlace
<1>9. SourcesInPlace'
    BY <1>1, <1>2, <1>7 DEF SourcesInPlace, ValidScope
<1> QED BY <1>5, <1>8, <1>9

LEMMA FolderCreatedKeeps ==
    ASSUME IdsInv, ShapeInv, Consistent, NEW i \in customers, NEW p \in DOMAIN folders \cup {None},
           ValidParent(p, i, None),
           NEW c, c.customer = i, c.parent = p, FolderCreated(c)
    PROVE  Consistent'
<1> USE DEF Consistent
<1> DEFINE f == nextId.folder
<1>1. /\ folders' = Put(folders, f, [customer |-> i, parent |-> p])
      /\ f \in FolderIds /\ f \notin DOMAIN folders /\ UNCHANGED <<customers, sources>>
    BY DEF FolderCreated, NewFolderId, IdsInv
<1> HIDE DEF f
<1>2. /\ DOMAIN folders' = DOMAIN folders \cup {f}
      /\ folders'[f].parent = p /\ folders'[f].customer = i
      /\ \A g \in DOMAIN folders : folders'[g] = folders[g]
    BY <1>1 DEF Put
<1>3. f # None /\ None \notin DOMAIN folders
    BY <1>1, NoFolderNone DEF FolderIds, None
<1>4. ASSUME NEW n \in 0..MaxFolders, UpIn(folders, p, n) = f PROVE FALSE
    <2>1. CASE p = None
        BY <1>3, <1>4, <2>1, UpNone
    <2>2. CASE p # None
        BY <1>1, <1>3, <1>4, <2>2, UpInPlace
    <2> QED BY <2>1, <2>2
<1>5. NoCycle'
    <2>1. PICK h \in FolderIds : h = f
        BY <1>1
    <2> QED BY <1>2, <1>4, <2>1, FolderPut
<1>6. p # None => p \in DOMAIN folders /\ folders[p].customer = i
    BY DEF ValidParent
<1>7. FoldersInPlace'
    BY <1>1, <1>2, <1>6 DEF FoldersInPlace
<1>8. SourcesInPlace'
    BY <1>1, <1>2 DEF SourcesInPlace, ValidScope
<1> QED BY <1>5, <1>7, <1>8

LEMMA FolderDeletedKeeps ==
    ASSUME ShapeInv, Consistent, NEW f \in DOMAIN folders,
           \A g \in DOMAIN folders : folders[g].parent # f,
           \A s \in DOMAIN sources : sources[s].folder # f,
           NEW c, c.id = f, FolderDeleted(c)
    PROVE  Consistent'
<1> USE DEF Consistent
<1>1. /\ DOMAIN folders' = DOMAIN folders \ {f} /\ UNCHANGED customers
      /\ \A g \in DOMAIN folders' : folders'[g] = folders[g]
      /\ DOMAIN sources' = DOMAIN sources
      /\ \A s \in DOMAIN sources : sources'[s] = sources[s]
    BY DEF FolderDeleted
<1>2. None \notin DOMAIN folders
    BY NoFolderNone
<1>3. ASSUME NEW x \in DOMAIN folders', NEW n \in 1..MaxFolders, UpIn(folders', x, n) = x
      PROVE  FALSE
    <2>1. n \in Nat
        OBVIOUS
    <2>2. ASSUME NEW k \in Nat
          PROVE  FolderOver(folders', UpIn(folders, x, k)) = FolderOver(folders, UpIn(folders, x, k))
        <3>1. UpIn(folders, x, k) # f
            <4>1. CASE k = 0
                BY <1>1, <4>1, UpSteps
            <4>2. CASE k # 0
                <5>1. k - 1 \in Nat /\ (k - 1) + 1 = k
                    BY <4>2
                <5>2. UpIn(folders, x, (k - 1) + 1) = FolderOver(folders, UpIn(folders, x, k - 1))
                    BY <5>1, UpSteps
                <5> QED BY <1>2, <5>1, <5>2 DEF FolderOver
            <4> QED BY <4>1, <4>2
        <3> QED BY <1>1, <3>1 DEF FolderOver
    <2>3. UpIn(folders', x, n) = UpIn(folders, x, n)
        BY <2>1, <2>2, UpSame
    <2> QED BY <1>1, <1>3, <2>3, UpIsUpIn DEF NoCycle, OnCycle
<1>4. NoCycle'
    BY <1>3, UpOfNext DEF NoCycle, OnCycle
<1>5. FoldersInPlace'
    BY <1>1 DEF FoldersInPlace
<1>6. SourcesInPlace'
    BY <1>1 DEF SourcesInPlace, ValidScope
<1> QED BY <1>4, <1>5, <1>6

LEMMA CustomersKeep ==
    ASSUME Consistent, NEW c,
           \/ CustomerCreated
           \/ /\ \A s \in DOMAIN sources : sources[s].customer # c.id
              /\ \A f \in DOMAIN folders : folders[f].customer # c.id
              /\ CustomerDeleted(c)
    PROVE  Consistent'
<1> USE DEF Consistent
<1>1. /\ folders' = folders /\ DOMAIN sources' = DOMAIN sources
      /\ \A s \in DOMAIN sources : sources'[s] = sources[s]
      /\ \/ customers \subseteq customers'
         \/ /\ customers' = customers \ {c.id}
            /\ \A s \in DOMAIN sources : sources[s].customer # c.id
            /\ \A f \in DOMAIN folders : folders[f].customer # c.id
    BY DEF CustomerCreated, CustomerDeleted
<1>2. NoCycle' /\ FoldersInPlace'
    BY <1>1, FoldersStay DEF FoldersInPlace
<1>3. SourcesInPlace'
    BY <1>1 DEF SourcesInPlace, ValidScope
<1> QED BY <1>2, <1>3

LEMMA SourcesKeep ==
    ASSUME ShapeInv, Consistent, UNCHANGED <<customers, folders>>,
           \A s \in DOMAIN sources' :
                \/ s \in DOMAIN sources /\ sources'[s] = sources[s]
                \/ ValidScope(sources'[s].customer, sources'[s].folder)
    PROVE  Consistent'
<1>1. NoCycle' /\ FoldersInPlace'
    BY FoldersStay DEF Consistent, FoldersInPlace
<1>2. SourcesInPlace'
    BY DEF Consistent, SourcesInPlace, ValidScope
<1> QED BY <1>1, <1>2 DEF Consistent

\* A request served at once finds what its handler checked.
LEMMA ConsistentStep ==
    ASSUME IdsInv, ShapeInv, Consistent, OrgNext
    PROVE  Consistent' \/ served'.late
<1>1. CASE UNCHANGED <<customers, folders, sources>>
    BY <1>1, SourcesKeep
<1>2. ASSUME NEW c, Passed(c), ~Applied(c) PROVE Consistent' \/ served'.late
    BY <1>1, <1>2 DEF Passed
<1>3. CASE CommitLate \/ GiveUp
    BY <1>1, <1>3 DEF CommitLate, GiveUp, Serves
<1>4. CASE CreateCustomer
    <2> DEFINE c == [op |-> "create_customer"]
    <2>1. Passed(c)
        BY <1>4 DEF CreateCustomer
    <2>2. Applied(c) => CustomerCreated
        BY DEF Applied
    <2> QED BY <1>2, <2>1, <2>2, CustomersKeep
<1>5. CASE DeleteCustomer
    <2>1. PICK i \in customers :
            /\ \A s \in DOMAIN sources : sources[s].customer # i
            /\ \A f \in DOMAIN folders : folders[f].customer # i
            /\ Passed([op |-> "delete_customer", id |-> i])
        BY <1>5 DEF DeleteCustomer
    <2> DEFINE c == [op |-> "delete_customer", id |-> i]
    <2>2. c.id = i /\ (Applied(c) => CustomerDeleted(c))
        BY DEF Applied
    <2> HIDE DEF c
    <2> QED BY <1>2, <2>1, <2>2, CustomersKeep DEF c
<1>6. CASE CreateFolder
    <2>1. PICK i \in customers, p \in DOMAIN folders \cup {None} :
            /\ ValidParent(p, i, None)
            /\ Passed([op |-> "create_folder", customer |-> i, parent |-> p])
        BY <1>6 DEF CreateFolder
    <2> DEFINE c == [op |-> "create_folder", customer |-> i, parent |-> p]
    <2>2. Passed(c) /\ c.customer = i /\ c.parent = p /\ (Applied(c) => FolderCreated(c))
        BY <2>1 DEF Applied
    <2> HIDE DEF c
    <2> QED BY <1>2, <2>1, <2>2, FolderCreatedKeeps
<1>7. CASE MoveFolder
    <2>1. PICK f \in DOMAIN folders, p \in DOMAIN folders \cup {None} :
            /\ ValidParent(p, folders[f].customer, f)
            /\ Passed([op |-> "move_folder", id |-> f, parent |-> p])
        BY <1>7 DEF MoveFolder
    <2> DEFINE c == [op |-> "move_folder", id |-> f, parent |-> p]
    <2>2. Passed(c) /\ c.id = f /\ c.parent = p /\ (Applied(c) => FolderMoved(c))
        BY <2>1 DEF Applied
    <2> HIDE DEF c
    <2> QED BY <1>2, <2>1, <2>2, FolderMovedKeeps
<1>8. CASE DeleteFolder
    <2>1. PICK f \in DOMAIN folders :
            /\ \A g \in DOMAIN folders : folders[g].parent # f
            /\ \A s \in DOMAIN sources : sources[s].folder # f
            /\ Passed([op |-> "delete_folder", id |-> f])
        BY <1>8 DEF DeleteFolder
    <2> DEFINE c == [op |-> "delete_folder", id |-> f]
    <2>2. Passed(c) /\ c.id = f /\ (Applied(c) => FolderDeleted(c))
        BY <2>1 DEF Applied
    <2> HIDE DEF c
    <2> QED BY <1>2, <2>1, <2>2, FolderDeletedKeeps
<1>9. CASE CreateSource
    <2>1. PICK i \in customers \cup {None}, f \in DOMAIN folders \cup {None} :
            /\ ValidScope(i, f)
            /\ Passed([op |-> "create_source", customer |-> i, folder |-> f])
        BY <1>9 DEF CreateSource
    <2> DEFINE c == [op |-> "create_source", customer |-> i, folder |-> f]
    <2>2. /\ Passed(c) /\ c.customer = i /\ c.folder = f
          /\ (Applied(c) => SourceCreated(c))
        BY <2>1 DEF Applied
    <2> HIDE DEF c
    <2>3. CASE SourceCreated(c)
        <3>1. /\ UNCHANGED <<customers, folders>>
              /\ \A s \in DOMAIN sources' :
                    \/ s \in DOMAIN sources /\ sources'[s] = sources[s]
                    \/ sources'[s] = [customer |-> i, folder |-> f]
            BY <2>2, <2>3 DEF SourceCreated, Put
        <3> QED BY <2>1, <3>1, SourcesKeep
    <2> QED BY <1>2, <2>2, <2>3
<1>10. CASE MoveSource
    <2>1. PICK s \in DOMAIN sources, i \in customers \cup {None}, f \in DOMAIN folders \cup {None} :
            /\ ValidScope(i, f)
            /\ Passed([op |-> "move_source", id |-> s, customer |-> i, folder |-> f,
                       loaded |-> sources[s]])
        BY <1>10 DEF MoveSource
    <2> DEFINE c == [op |-> "move_source", id |-> s, customer |-> i, folder |-> f,
                     loaded |-> sources[s]]
    <2>2. /\ Passed(c) /\ c.id = s /\ c.customer = i /\ c.folder = f /\ c.loaded = sources[s]
          /\ (Applied(c) => SourceMoved(c))
        BY <2>1 DEF Applied
    <2> HIDE DEF c
    <2>3. CASE SourceMoved(c)
        <3>1. /\ UNCHANGED <<customers, folders>> /\ DOMAIN sources' = DOMAIN sources
              /\ \A t \in DOMAIN sources \ {s} : sources'[t] = sources[t]
              /\ sources'[s].customer = i /\ sources'[s].folder = f
            BY <2>2, <2>3 DEF SourceMoved
        <3> QED BY <2>1, <3>1, SourcesKeep
    <2> QED BY <1>2, <2>2, <2>3
<1>11. CASE DeleteSource
    <2>1. PICK s \in DOMAIN sources : Passed([op |-> "delete_source", id |-> s])
        BY <1>11 DEF DeleteSource
    <2> DEFINE c == [op |-> "delete_source", id |-> s]
    <2>2. Passed(c) /\ (Applied(c) => SourceDeleted(c))
        BY <2>1 DEF Applied
    <2> HIDE DEF c
    <2>3. CASE SourceDeleted(c)
        BY <2>3, SourcesKeep DEF SourceDeleted, Drop
    <2> QED BY <1>2, <2>2, <2>3
<1>12. CASE CreateGrant \/ UpdateGrant \/ DeleteGrant
    <2>1. PICK c : Passed(c) /\ c.op \in {"create_grant", "update_grant", "delete_grant"}
        <3> DEFINE Found == \E c : Passed(c) /\ c.op \in {"create_grant", "update_grant", "delete_grant"}
        <3>1. CreateGrant => Found
            BY DEF CreateGrant
        <3>2. UpdateGrant => Found
            BY DEF UpdateGrant
        <3>3. DeleteGrant => Found
            BY DEF DeleteGrant
        <3> QED BY <1>12, <3>1, <3>2, <3>3
    <2>2. Applied(c) => UNCHANGED <<customers, folders, sources>>
        BY <2>1 DEF Applied, GrantCreated, GrantUpdated, GrantDeleted
    <2> QED BY <1>1, <1>2, <2>1, <2>2
<1> QED BY <1>3, <1>4, <1>5, <1>6, <1>7, <1>8, <1>9, <1>10, <1>11, <1>12 DEF OrgNext

\* As long as no request is overtaken, the checks of the handlers (_validate_parent,
\* _validate_scope, the refusals to delete what is in use) keep the folders trees, each in
\* one customer that exists, and the sources in a folder or customer that does.
THEOREM SpecConsistencyKept == OrgSpec => ConsistencyKept
<1>1. OrgInv /\ ShapeInv /\ [OrgNext]_orgVars => [Consistent => Consistent' \/ served'.late]_orgVars
    BY ConsistentStep DEF OrgInv
<1> QED BY <1>1, SpecOrgInv, InitShape, NextShape, PTL DEF OrgSpec, ConsistencyKept

(***************************************************************************)
(* What the grants show.                                                   *)
(***************************************************************************)

\* The scope that decides for a source that is in a folder: the folder found by
\* NearestGranted is above it, in the same customer.
LEMMA NearestFacts ==
    ASSUME ShapeInv, FoldersInPlace, NEW f, f \in DOMAIN folders \/ f = None,
           NearestGranted(f) # None
    PROVE  /\ f \in DOMAIN folders
           /\ NearestGranted(f) \in DOMAIN folders
           /\ folders[NearestGranted(f)].customer = folders[f].customer
           /\ \E n \in 0..MaxFolders : NearestGranted(f) = Up(f, n)
<1>1. PICK n \in 0..MaxFolders : NearestGranted(f) = Up(f, n)
    <2> DEFINE granted(n) == GrantsOn(Scope("folder", Up(f, n))) # {}
               near == {n \in 0..MaxFolders : granted(n) /\ \A m \in 0..(n - 1) : ~granted(m)}
    <2>1. NearestGranted(f) = IF near = {} THEN None ELSE Up(f, CHOOSE n \in near : TRUE)
        BY DEF NearestGranted
    <2>2. near \subseteq 0..MaxFolders
        OBVIOUS
    <2> HIDE DEF near
    <2> QED BY <2>1, <2>2
<1>2. None \notin DOMAIN folders
    BY NoFolderNone
<1>3. f # None
    <2>1. n \in Nat
        OBVIOUS
    <2> QED BY <1>1, <1>2, <2>1, UpNone, UpIsUpIn
<1>4. \/ Up(f, n) = None
      \/ Up(f, n) \in DOMAIN folders /\ folders[Up(f, n)].customer = folders[f].customer
    BY <1>2, <1>3, UpInPlace, UpIsUpIn
<1> QED BY <1>1, <1>3, <1>4

LEMMA GivesGranted == ASSUME NEW scope, Gives(scope) PROVE GrantsOn(scope) # {}
BY DEF Gives

LEMMA PathsShown == ShapeInv => OnlyGrantedPathsShown
<1> SUFFICES ASSUME ShapeInv, Consistent, NEW s \in DOMAIN sources, Resolve(s)
             PROVE
        /\ \/ GrantsOn(Scope("source", s)) # {} /\ ShownFolders(s) \subseteq {sources[s].folder}
           \/ \A f \in ShownFolders(s) :
                \/ Chain(f) \cap {g \in FolderIds : Gives(Scope("folder", g))} # {}
                \/ Gives(Scope("customer", sources[s].customer))
        /\ sources[s].customer # None => sources[s].customer \in VisibleCustomers
    BY DEF OnlyGrantedPathsShown
<1> DEFINE f0 == sources[s].folder
           i == sources[s].customer
           b == NearestGranted(f0)
           shown(bound) == {k \in 0..MaxFolders : \A m \in 0..(k - 1) : Up(f0, m) # bound}
<1>1. /\ f0 \in DOMAIN folders \/ f0 = None
      /\ i # None => i \in CustomerIds /\ (f0 # None => folders[f0].customer = i)
    BY DEF Consistent, SourcesInPlace, FoldersInPlace, ValidScope, ShapeInv
<1>2. ShownFolders(s) = {Up(f0, n) : n \in shown(Boundary(s))} \ {None}
    BY DEF ShownFolders
<1>3. FoldersInPlace
    BY DEF Consistent
<1> HIDE DEF f0, i
<1>4. CASE GrantsOn(Scope("source", s)) # {}
    <2>1. Boundary(s) = f0
        BY <1>4 DEF Boundary, f0
    <2>2. Up(f0, 0) = f0
        BY UpSteps, UpIsUpIn
    <2>3. \A k \in shown(f0) : k = 0
        BY <2>2
    <2>4. ShownFolders(s) \subseteq {f0}
        BY <1>2, <2>1, <2>2, <2>3
    <2>5. i # None => i \in VisibleCustomers
        BY <1>1, <1>4 DEF VisibleCustomers, i
    <2> QED BY <1>4, <2>4, <2>5 DEF f0, i
<1>5. CASE GrantsOn(Scope("source", s)) = {} /\ b # None
    <2>1. Gives(Scope("folder", b)) /\ Boundary(s) = b
        BY <1>5 DEF Resolve, ResolveFolderOrCustomer, Boundary, f0
    <2>2. /\ f0 \in DOMAIN folders /\ b \in DOMAIN folders
          /\ folders[b].customer = folders[f0].customer
          /\ \E n \in 0..MaxFolders : b = Up(f0, n)
        BY <1>1, <1>3, <1>5, NearestFacts
    <2>3. PICK n \in 0..MaxFolders : b = Up(f0, n)
        BY <2>2
    <2>4. None \notin DOMAIN folders
        BY NoFolderNone
    <2> HIDE DEF b
    <2>5. ASSUME NEW f \in ShownFolders(s)
          PROVE  Chain(f) \cap {g \in FolderIds : Gives(Scope("folder", g))} # {}
        <3>1. PICK k \in shown(b) : f = Up(f0, k)
            BY <1>2, <2>1
        <3>2. k \in 0..MaxFolders /\ n \in 0..MaxFolders /\ MaxFolders \in Nat
            BY OrgAssumption
        <3>3. k <= n
            <4>1. ASSUME n < k PROVE FALSE
                <5>1. n \in 0..(k - 1)
                    BY <3>2, <4>1
                <5> QED BY <2>3, <5>1
            <4> QED BY <3>2, <4>1
        <3> HIDE DEF shown
        <3>4. n - k \in 0..MaxFolders /\ n - k \in Nat /\ k \in Nat /\ k + (n - k) = n
            BY <3>2, <3>3
        <3>5. UpIn(folders, UpIn(folders, f0, k), n - k) = UpIn(folders, f0, k + (n - k))
            BY <3>4, UpAdds
        <3>6. Up(f, n - k) = b
            BY <2>3, <3>1, <3>4, <3>5, UpIsUpIn
        <3>7. b \in Chain(f)
            BY <2>2, <2>4, <3>4, <3>6 DEF Chain
        <3>8. b \in FolderIds
            BY <2>2 DEF ShapeInv
        <3> QED BY <2>1, <3>7, <3>8
    <2>6. i # None => i \in VisibleCustomers
        <3>1. GrantsOn(Scope("folder", b)) # {}
            BY <2>1, GivesGranted
        <3>2. i # None => i \in CustomerIds /\ folders[b].customer = i
            BY <1>1, <2>2, <2>4
        <3> QED BY <2>2, <3>1, <3>2 DEF VisibleCustomers
    <2> QED BY <2>5, <2>6 DEF i
<1>6. CASE GrantsOn(Scope("source", s)) = {} /\ b = None
    <2>1. i # None /\ Gives(Scope("customer", i))
        BY <1>6 DEF Resolve, ResolveFolderOrCustomer, f0, i
    <2>2. i \in VisibleCustomers
        BY <1>1, <2>1, GivesGranted DEF VisibleCustomers
    <2> QED BY <2>1, <2>2 DEF i
<1> QED BY <1>4, <1>5, <1>6

\* In a consistent organisation every folder that _folder_path shows above a source is at or
\* below the scope whose grant makes the source visible, or its own under a grant on the
\* source, and the customer of the source is in visible_customer_ids, whatever the tree.
THEOREM SpecOnlyGrantedPathsShown == OrgSpec => []OnlyGrantedPathsShown
<1>1. OrgSpec => []ShapeInv
    BY InitShape, NextShape, PTL DEF OrgSpec
<1> QED BY <1>1, PathsShown, PTL
=============================================================================
