---------------------------- MODULE Rules_proofs ----------------------------
(***************************************************************************)
(* What the editing of a rule chain keeps, for any rules, requests and     *)
(* names, and whatever requests overtake each other; and what the globs,   *)
(* for any names and paths of any depth, mean for files and directories.   *)
(***************************************************************************)
EXTENDS Rules, FiniteSetTheorems, WellFoundedInduction, TLAPS

(***************************************************************************)
(* The inductive invariant: orders are bounded, so that there is a last    *)
(* one.                                                                    *)
(***************************************************************************)

Row == [order: Int, type: {t.type : t \in OldTexts}, kind: {t.kind : t \in OldTexts},
        pattern: {t.pattern : t \in OldTexts}]

Limit == MaxRules + MaxListed + served.count

ServedInv == served \in [late: BOOLEAN, count: Nat, excludes: BOOLEAN]

RulesInv ==
    /\ DOMAIN rules \subseteq 1..MaxRules
    /\ \A i \in DOMAIN rules : rules[i] \in Row /\ rules[i].order \in 0..Limit

RequestOK(c) ==
    /\ c.op = "create" => c.text \in OldTexts /\ c.order \in 0..(Limit + 1)
    /\ c.op = "update" => c.text \in OldTexts
    /\ c.op = "reorder" => \A i \in DOMAIN c.order : c.order[i] \in 0..Limit
    /\ c.op = "replace" => \E n \in 0..MaxOld : c.texts \in [1..n -> OldTexts]

IInv == ServedInv /\ RulesInv /\ RequestOK(waiting)

(***************************************************************************)
(* Lemmas about the operators of the model.                                *)
(***************************************************************************)

\* A non-empty set of integers with an upper bound has a greatest element, and Max
\* returns it.
LEMMA MaxOfInts ==
    ASSUME NEW S \in SUBSET Int, S # {}, NEW bound \in Int, \A x \in S : x <= bound
    PROVE  Max(S) \in S /\ \A y \in S : y <= Max(S)
<1> DEFINE R == {ss \in Nat \X Nat : ss[1] < ss[2]}
           T == {bound - x : x \in S}
<1>1. IsWellFoundedOn(R, Nat)
    BY NatLessThanWellFounded DEF OpToRel
<1>2. T \subseteq Nat /\ T # {}
    <2>1. ASSUME NEW x \in S PROVE bound - x \in Nat
        <3>1. x \in Int /\ x <= bound
            OBVIOUS
        <3> QED BY <3>1
    <2>2. T # {}
        OBVIOUS
    <2> QED BY <2>1, <2>2
<1>3. PICK m \in T : \A n \in T : ~(<<n, m>> \in R)
    <2> HIDE DEF R, T
    <2> QED BY <1>1, <1>2, WFMin
<1>4. PICK x \in S : m = bound - x
    OBVIOUS
<1>5. ASSUME NEW y \in S PROVE y <= x
    <2>1. bound - y \in T /\ bound - y \in Nat /\ m \in Nat
        BY <1>2
    <2>2. ~(bound - y < m)
        BY <2>1, <1>3
    <2> QED BY <2>1, <2>2, <1>4
<1> QED BY <1>5 DEF Max

\* An id that is free is above those there are.
LEMMA FreeIdAbove ==
    ASSUME RulesInv, NEW table, DOMAIN table \subseteq DOMAIN rules
    PROVE  /\ FreeId(table) \in Nat \ {0}
           /\ \A i \in DOMAIN table : i < FreeId(table)
<1> DEFINE below == UNION {1..i : i \in DOMAIN table}
<1>1. IsFiniteSet(below)
    <2>1. below \subseteq 1..MaxRules /\ MaxRules \in Nat
        BY BoundsAssumption DEF RulesInv
    <2>2. IsFiniteSet(1..MaxRules)
        BY <2>1, FS_Interval
    <2> QED BY <2>1, <2>2, FS_Subset
<1>2. Cardinality(below) \in Nat
    BY <1>1, FS_CardinalityType
<1>3. ASSUME NEW i \in DOMAIN table PROVE i <= Cardinality(below)
    <2>1. i \in Nat /\ 1..i \subseteq below
        BY DEF RulesInv
    <2>2. Cardinality(1..i) = i
        BY <2>1, FS_Interval
    <2>3. Cardinality(1..i) <= Cardinality(below)
        BY <1>1, <2>1, FS_Subset
    <2> QED BY <2>2, <2>3
<1>4. FreeId(table) = 1 + Cardinality(below)
    BY DEF FreeId
<1>5. DOMAIN table \subseteq Nat
    BY DEF RulesInv
<1> HIDE DEF below
<1> QED BY <1>2, <1>3, <1>4, <1>5

LEMMA NewIdIsNew ==
    ASSUME RulesInv, NEW table, DOMAIN table \subseteq DOMAIN rules, NEW id \in NewIds(table)
    PROVE  id \in 1..MaxRules /\ \A i \in DOMAIN table : i < id
<1>1. MaxRules \in Nat
    BY BoundsAssumption
<1>2. DOMAIN table \subseteq Nat
    BY DEF RulesInv
<1> QED BY <1>1, <1>2, FreeIdAbove DEF NewIds

\* A new rule comes after all there are.
LEMMA NextOrderAbove ==
    ASSUME ServedInv, RulesInv
    PROVE  /\ NextOrder \in 0..(Limit + 1)
           /\ \A i \in DOMAIN rules : rules[i].order < NextOrder
<1> DEFINE S == {-1} \cup {rules[i].order : i \in DOMAIN rules}
<1>1. Limit \in Nat
    BY BoundsAssumption DEF Limit, ServedInv
<1>2. S \in SUBSET Int /\ S # {} /\ \A x \in S : x <= Limit
    BY <1>1 DEF RulesInv
<1>3. Max(S) \in S /\ \A y \in S : y <= Max(S)
    <2>1. Limit \in Int
        BY <1>1
    <2> HIDE DEF S
    <2> QED BY <2>1, <1>2, MaxOfInts
<1>4. Max(S) \in -1..Limit
    BY <1>1, <1>2, <1>3 DEF RulesInv
<1>5. NextOrder = Max(S) + 1
    BY DEF NextOrder
<1>6. \A i \in DOMAIN rules : rules[i].order \in Int /\ rules[i].order <= Max(S)
    BY <1>3 DEF RulesInv
<1> HIDE DEF S
<1> QED BY <1>1, <1>4, <1>5, <1>6

\* A reorder gives each rule the place where its list names it last: no two the same.
LEMMA Places ==
    ASSUME NEW n \in 0..MaxListed, NEW ids \in [1..n -> DOMAIN rules], Range(ids) = DOMAIN rules
    PROVE  /\ [i \in DOMAIN rules |-> Place(ids, i)] \in [DOMAIN rules -> 0..(MaxListed - 1)]
           /\ IsInjective([i \in DOMAIN rules |-> Place(ids, i)])
<1> DEFINE S(i) == {k \in DOMAIN ids : ids[k] = i}
<1>1. n \in Nat /\ n <= MaxListed /\ DOMAIN ids = 1..n
    BY BoundsAssumption
<1>2. ASSUME NEW i \in DOMAIN rules
      PROVE  \E k \in 1..n : ids[k] = i /\ Place(ids, i) = k - 1
    <2>1. S(i) \in SUBSET Int /\ S(i) # {} /\ \A k \in S(i) : k <= n
        BY <1>1 DEF Range
    <2>2. Max(S(i)) \in S(i)
        <3> HIDE DEF S
        <3> QED BY <1>1, <2>1, MaxOfInts
    <2> QED BY <1>1, <2>2 DEF Place
<1>3. ASSUME NEW i \in DOMAIN rules PROVE Place(ids, i) \in 0..(MaxListed - 1)
    <2>1. PICK k \in 1..n : Place(ids, i) = k - 1
        BY <1>2
    <2>2. k - 1 \in 0..(MaxListed - 1)
        BY <1>1, BoundsAssumption
    <2> QED BY <2>1, <2>2
<1>4. ASSUME NEW i \in DOMAIN rules, NEW j \in DOMAIN rules, Place(ids, i) = Place(ids, j)
      PROVE  i = j
    <2>1. PICK k \in 1..n : ids[k] = i /\ Place(ids, i) = k - 1
        BY <1>2
    <2>2. PICK l \in 1..n : ids[l] = j /\ Place(ids, j) = l - 1
        BY <1>2
    <2>3. k - 1 = l - 1
        BY <1>4, <2>1, <2>2
    <2>4. k = l
        BY <1>1, <2>3
    <2> QED BY <2>1, <2>2, <2>4
<1> QED BY <1>3, <1>4 DEF IsInjective

\* What each commit does to the rows.
LEMMA CreatedRows ==
    ASSUME RulesInv, NEW c, c.op = "create", Applied(c)
    PROVE  \E id \in 1..MaxRules :
                /\ id \notin DOMAIN rules /\ DOMAIN rules' = DOMAIN rules \cup {id}
                /\ rules'[id] = RowOf(c.text, c.order)
                /\ \A i \in DOMAIN rules : rules'[i] = rules[i]
<1>1. PICK id \in NewIds(rules) : rules' = Put(rules, id, RowOf(c.text, c.order))
    BY DEF Applied, Created
<1>2. id \in 1..MaxRules /\ \A i \in DOMAIN rules : i < id
    BY NewIdIsNew
<1>3. id \notin DOMAIN rules
    BY <1>2 DEF RulesInv
<1> QED BY <1>1, <1>2, <1>3 DEF Put

LEMMA UpdatedRows ==
    ASSUME NEW c, c.op = "update", Applied(c)
    PROVE  /\ DOMAIN rules' = DOMAIN rules
           /\ \A i \in DOMAIN rules : i # c.id => rules'[i] = rules[i]
           /\ c.id \in DOMAIN rules =>
                rules'[c.id] =
                    [order |-> rules[c.id].order,
                     type |-> IF "type" \in c.columns THEN c.text.type ELSE rules[c.id].type,
                     kind |-> IF "pattern" \in c.columns THEN c.text.kind
                                                         ELSE rules[c.id].kind,
                     pattern |-> IF "pattern" \in c.columns THEN c.text.pattern
                                                            ELSE rules[c.id].pattern]
<1>1. Updated(c)
    BY DEF Applied
<1>2. CASE c.id \notin DOMAIN rules
    BY <1>1, <1>2 DEF Updated, RowsUpdated
<1>3. CASE c.id \in DOMAIN rules
    BY <1>1, <1>3 DEF Updated, RowsUpdated
<1> QED BY <1>2, <1>3

LEMMA ReorderedRows ==
    ASSUME RulesInv, NEW c, c.op = "reorder", Applied(c)
    PROVE  /\ DOMAIN rules' = DOMAIN rules
           /\ \/ \A i \in DOMAIN rules : rules'[i] = rules[i]
              \/ /\ DOMAIN c.order \subseteq DOMAIN rules
                 /\ \A i \in DOMAIN rules :
                        rules'[i] = IF i \in DOMAIN c.order
                                    THEN [rules[i] EXCEPT !.order = c.order[i]] ELSE rules[i]
BY DEF Applied, Reordered, RowsUpdated

LEMMA ReplacedRows ==
    ASSUME RulesInv, NEW c, c.op = "replace", NEW n \in Nat, c.texts \in [1..n -> OldTexts],
           Applied(c)
    PROVE  \E first \in 1..MaxRules :
                /\ DOMAIN rules' = (DOMAIN rules \ c.ids) \cup first..(first + n - 1)
                /\ first + n - 1 <= MaxRules
                /\ \A i \in DOMAIN rules \ c.ids : i < first /\ rules'[i] = rules[i]
                /\ \A i \in first..(first + n - 1) :
                        /\ i - first + 1 \in 1..n
                        /\ rules'[i] = RowOf(c.texts[i - first + 1], i - first)
<1> DEFINE others == Drop(rules, c.ids)
<1>1. Len(c.texts) = n
    OBVIOUS
<1>2. DOMAIN others = DOMAIN rules \ c.ids /\ \A i \in DOMAIN others : others[i] = rules[i]
    BY DEF Drop
<1>3. PICK first \in NewIds(others) :
        /\ first + n - 1 <= MaxRules
        /\ rules' = [i \in DOMAIN others \cup first..(first + n - 1) |->
                IF i >= first THEN RowOf(c.texts[i - first + 1], i - first) ELSE others[i]]
    BY <1>1 DEF Applied, Replaced
<1> HIDE DEF others
<1>4. first \in 1..MaxRules /\ \A i \in DOMAIN others : i < first
    BY <1>2, NewIdIsNew
<1>5. DOMAIN rules \subseteq Nat
    BY DEF RulesInv
<1>6. ASSUME NEW i \in first..(first + n - 1)
      PROVE  i - first + 1 \in 1..n /\ rules'[i] = RowOf(c.texts[i - first + 1], i - first)
    BY <1>3, <1>4
<1>7. ASSUME NEW i \in DOMAIN rules \ c.ids PROVE i < first /\ rules'[i] = rules[i]
    BY <1>2, <1>3, <1>4, <1>5
<1> QED BY <1>2, <1>3, <1>4, <1>6, <1>7

(***************************************************************************)
(* Matching: each recursive walk exists, so that it is what its definition *)
(* says at every position; and what the walks have to do with each other.  *)
(***************************************************************************)

\* The least number of a set, and induction over Nat.
LEMMA Least ==
    ASSUME NEW S \in SUBSET Nat, NEW n \in S
    PROVE  \E m \in S : \A k \in S : m <= k
<1> DEFINE R == {ss \in Nat \X Nat : ss[1] < ss[2]}
<1>1. IsWellFoundedOn(R, Nat)
    BY NatLessThanWellFounded DEF OpToRel
<1>2. PICK m \in S : \A k \in S : ~(<<k, m>> \in R)
    <2> HIDE DEF R
    <2>1. S \subseteq Nat /\ S # {}
        OBVIOUS
    <2> QED BY <1>1, <2>1, WFMin
<1>3. ASSUME NEW k \in S, k < m PROVE FALSE
    <2>1. <<k, m>> \in R
        BY <1>3
    <2> QED BY <1>2, <2>1
<1>4. \A k \in S : m <= k
    BY <1>3
<1> QED BY <1>4

LEMMA Induction ==
    ASSUME NEW S, 0 \in S, \A n \in Nat : n \in S => n + 1 \in S
    PROVE  Nat \subseteq S
<1>1. ASSUME NEW n \in Nat, n \notin S PROVE FALSE
    <2> DEFINE T == Nat \ S
    <2>1. PICK m \in T : \A k \in T : m <= k
        <3>1. n \in T /\ T \in SUBSET Nat
            BY <1>1
        <3> HIDE DEF T
        <3> QED BY <3>1, Least
    <2>2. m \in Nat /\ m # 0
        OBVIOUS
    <2>3. m - 1 \in Nat /\ (m - 1) + 1 = m /\ ~(m <= m - 1)
        BY <2>2
    <2>4. m - 1 \in S
        BY <2>1, <2>3
    <2> QED BY <2>3, <2>4
<1> QED BY <1>1

\* A monotonic function on sets has a fixed point: what a walk succeeds from.
LEMMA FixedPoint ==
    ASSUME NEW P, NEW F \in [SUBSET P -> SUBSET P],
           \A X, Y \in SUBSET P : X \subseteq Y => F[X] \subseteq F[Y]
    PROVE  \E W \in SUBSET P : F[W] = W
<1> DEFINE W == {x \in P : \A X \in SUBSET P : F[X] \subseteq X => x \in X}
<1>1. W \in SUBSET P /\ F[W] \in SUBSET P
    OBVIOUS
<1>2. F[W] \subseteq W
    <2>1. ASSUME NEW X \in SUBSET P, F[X] \subseteq X PROVE F[W] \subseteq X
        <3>1. W \subseteq X
            BY <2>1
        <3> HIDE DEF W
        <3> QED BY <1>1, <2>1, <3>1
    <2> HIDE DEF W
    <2> QED BY <1>1, <2>1 DEF W
<1>3. W \subseteq F[W]
    <2>1. F[F[W]] \subseteq F[W]
        <3> HIDE DEF W
        <3> QED BY <1>1, <1>2
    <2> QED BY <1>1, <2>1
<1> HIDE DEF W
<1>4. F[W] = W
    BY <1>2, <1>3
<1> QED BY <1>1, <1>4

\* The walk of GlobMatches: one step, given where it goes on; the positions it succeeds
\* from; and the function it is.
MatchStep(glob, path, i, j, next, stay, both) ==
    \/ i > Len(glob) /\ j > Len(path)
    \/ /\ i <= Len(glob) /\ j <= Len(path)
       /\ \/ glob[i] = Deep /\ (i = Len(glob) \/ next \/ stay)
          \/ glob[i] # Deep /\ path[j] \in glob[i] /\ both

MatchSet(glob, path, X) ==
    {at \in Positions(glob, path) :
        MatchStep(glob, path, at[1], at[2], <<at[1] + 1, at[2]>> \in X,
                  <<at[1], at[2] + 1>> \in X, <<at[1] + 1, at[2] + 1>> \in X)}

MatchWalk(walk, glob, path) ==
    walk = [at \in Positions(glob, path) |->
        MatchStep(glob, path, at[1], at[2], walk[<<at[1] + 1, at[2]>>],
                  walk[<<at[1], at[2] + 1>>], walk[<<at[1] + 1, at[2] + 1>>])]

MatchFrom(glob, path, i, j) == (CHOOSE walk : MatchWalk(walk, glob, path))[<<i, j>>]

LEMMA MatchExists ==
    ASSUME NEW glob, NEW path, Len(glob) \in Nat, Len(path) \in Nat
    PROVE  \E walk : MatchWalk(walk, glob, path)
<1> DEFINE P == Positions(glob, path)
           F == [X \in SUBSET P |-> MatchSet(glob, path, X)]
<1>1. PICK X \in SUBSET P : F[X] = X
    <2>1. F \in [SUBSET P -> SUBSET P]
        BY DEF MatchSet
    <2>2. \A X, Y \in SUBSET P : X \subseteq Y => F[X] \subseteq F[Y]
        BY DEF MatchSet, MatchStep
    <2> HIDE DEF F, P
    <2> QED BY <2>1, <2>2, FixedPoint
<1> DEFINE walk == [at \in P |-> at \in X]
<1>2. MatchSet(glob, path, X) = X /\ \A at \in P : walk[at] = (at \in X)
    BY <1>1
<1>3. walk = [at \in P |-> walk[at]]
    OBVIOUS
<1> HIDE DEF walk
<1>4. ASSUME NEW at \in P
      PROVE  walk[at] = MatchStep(glob, path, at[1], at[2], walk[<<at[1] + 1, at[2]>>],
                      walk[<<at[1], at[2] + 1>>], walk[<<at[1] + 1, at[2] + 1>>])
    <2> DEFINE Here == MatchStep(glob, path, at[1], at[2], walk[<<at[1] + 1, at[2]>>],
                    walk[<<at[1], at[2] + 1>>], walk[<<at[1] + 1, at[2] + 1>>])
               There == at \in X
    <2>1. at[1] \in 1..(Len(glob) + 1) /\ at[2] \in 1..(Len(path) + 1)
        BY DEF Positions
    <2>2. /\ at[1] <= Len(glob) => <<at[1] + 1, at[2]>> \in P
          /\ at[2] <= Len(path) => <<at[1], at[2] + 1>> \in P
          /\ at[1] <= Len(glob) /\ at[2] <= Len(path) => <<at[1] + 1, at[2] + 1>> \in P
        BY <2>1 DEF Positions
    <2>3. There <=> MatchStep(glob, path, at[1], at[2], <<at[1] + 1, at[2]>> \in X,
                    <<at[1], at[2] + 1>> \in X, <<at[1] + 1, at[2] + 1>> \in X)
        BY <1>2 DEF MatchSet
    <2>4. walk[at] = There
        BY <1>2
    <2> HIDE DEF P
    <2>5. There <=> Here
        BY <1>2, <2>2, <2>3 DEF MatchStep
    <2>6. There \in BOOLEAN /\ Here \in BOOLEAN
        BY DEF MatchStep
    <2> HIDE DEF There, Here
    <2>7. walk[at] = Here
        BY <2>4, <2>5, <2>6
    <2> QED BY <2>7 DEF Here
<1>5. MatchWalk(walk, glob, path)
    BY <1>3, <1>4 DEF MatchWalk
<1> QED BY <1>5

LEMMA MatchIs ==
    ASSUME NEW glob, NEW path, Len(glob) \in Nat, Len(path) \in Nat
    PROVE  /\ GlobMatches(glob, path) <=>
                IF Spans(glob) THEN path \in Spanned[glob] ELSE MatchFrom(glob, path, 1, 1)
           /\ \A i \in 1..(Len(glob) + 1), j \in 1..(Len(path) + 1) :
                MatchFrom(glob, path, i, j) <=>
                    MatchStep(glob, path, i, j, MatchFrom(glob, path, i + 1, j),
                        MatchFrom(glob, path, i, j + 1), MatchFrom(glob, path, i + 1, j + 1))
<1> DEFINE walk == CHOOSE w : MatchWalk(w, glob, path)
<1>1. MatchWalk(walk, glob, path)
    BY MatchExists
<1>2. \A i, j : MatchFrom(glob, path, i, j) = walk[<<i, j>>]
    BY DEF MatchFrom
<1>3. GlobMatches(glob, path) <=>
        IF Spans(glob) THEN path \in Spanned[glob] ELSE walk[<<1, 1>>]
    BY DEF GlobMatches, MatchWalk, MatchStep
<1> HIDE DEF walk
<1>4. ASSUME NEW i \in 1..(Len(glob) + 1), NEW j \in 1..(Len(path) + 1)
      PROVE  MatchFrom(glob, path, i, j) <=>
                    MatchStep(glob, path, i, j, MatchFrom(glob, path, i + 1, j),
                        MatchFrom(glob, path, i, j + 1), MatchFrom(glob, path, i + 1, j + 1))
    <2>1. <<i, j>> \in Positions(glob, path) /\ <<i, j>>[1] = i /\ <<i, j>>[2] = j
        BY DEF Positions
    <2> DEFINE at == <<i, j>>
    <2>2. walk[at] = MatchStep(glob, path, at[1], at[2], walk[<<at[1] + 1, at[2]>>],
                    walk[<<at[1], at[2] + 1>>], walk[<<at[1] + 1, at[2] + 1>>])
        BY <1>1, <2>1 DEF MatchWalk
    <2> QED BY <1>2, <2>2 DEF MatchStep
<1> QED BY <1>2, <1>3, <1>4

\* The walk of CouldMatchBelow: one step, given where it goes on; the positions it succeeds
\* from; and the function it is.
ReachStep(glob, path, i, j, next, stay, both) ==
    /\ i <= Len(glob)
    /\ \/ j > Len(path)
       \/ j <= Len(path) /\ glob[i] = Deep /\ (next \/ stay)
       \/ j <= Len(path) /\ glob[i] # Deep /\ path[j] \in glob[i] /\ both

ReachSet(glob, path, X) ==
    {at \in Positions(glob, path) :
        ReachStep(glob, path, at[1], at[2], <<at[1] + 1, at[2]>> \in X,
                  <<at[1], at[2] + 1>> \in X, <<at[1] + 1, at[2] + 1>> \in X)}

ReachWalk(walk, glob, path) ==
    walk = [at \in Positions(glob, path) |->
        ReachStep(glob, path, at[1], at[2], walk[<<at[1] + 1, at[2]>>],
                  walk[<<at[1], at[2] + 1>>], walk[<<at[1] + 1, at[2] + 1>>])]

ReachFrom(glob, path, i, j) == (CHOOSE walk : ReachWalk(walk, glob, path))[<<i, j>>]

LEMMA ReachExists ==
    ASSUME NEW glob, NEW path, Len(glob) \in Nat, Len(path) \in Nat
    PROVE  \E walk : ReachWalk(walk, glob, path)
<1> DEFINE P == Positions(glob, path)
           F == [X \in SUBSET P |-> ReachSet(glob, path, X)]
<1>1. PICK X \in SUBSET P : F[X] = X
    <2>1. F \in [SUBSET P -> SUBSET P]
        BY DEF ReachSet
    <2>2. \A X, Y \in SUBSET P : X \subseteq Y => F[X] \subseteq F[Y]
        BY DEF ReachSet, ReachStep
    <2> HIDE DEF F, P
    <2> QED BY <2>1, <2>2, FixedPoint
<1> DEFINE walk == [at \in P |-> at \in X]
<1>2. ReachSet(glob, path, X) = X /\ \A at \in P : walk[at] = (at \in X)
    BY <1>1
<1>3. walk = [at \in P |-> walk[at]]
    OBVIOUS
<1> HIDE DEF walk
<1>4. ASSUME NEW at \in P
      PROVE  walk[at] = ReachStep(glob, path, at[1], at[2], walk[<<at[1] + 1, at[2]>>],
                      walk[<<at[1], at[2] + 1>>], walk[<<at[1] + 1, at[2] + 1>>])
    <2> DEFINE Here == ReachStep(glob, path, at[1], at[2], walk[<<at[1] + 1, at[2]>>],
                    walk[<<at[1], at[2] + 1>>], walk[<<at[1] + 1, at[2] + 1>>])
               There == at \in X
    <2>1. at[1] \in 1..(Len(glob) + 1) /\ at[2] \in 1..(Len(path) + 1)
        BY DEF Positions
    <2>2. /\ at[1] <= Len(glob) => <<at[1] + 1, at[2]>> \in P
          /\ at[2] <= Len(path) => <<at[1], at[2] + 1>> \in P
          /\ at[1] <= Len(glob) /\ at[2] <= Len(path) => <<at[1] + 1, at[2] + 1>> \in P
        BY <2>1 DEF Positions
    <2>3. There <=> ReachStep(glob, path, at[1], at[2], <<at[1] + 1, at[2]>> \in X,
                    <<at[1], at[2] + 1>> \in X, <<at[1] + 1, at[2] + 1>> \in X)
        BY <1>2 DEF ReachSet
    <2>4. walk[at] = There
        BY <1>2
    <2> HIDE DEF P
    <2>5. There <=> Here
        BY <1>2, <2>2, <2>3 DEF ReachStep
    <2>6. There \in BOOLEAN /\ Here \in BOOLEAN
        BY DEF ReachStep
    <2> HIDE DEF There, Here
    <2>7. walk[at] = Here
        BY <2>4, <2>5, <2>6
    <2> QED BY <2>7 DEF Here
<1>5. ReachWalk(walk, glob, path)
    BY <1>3, <1>4 DEF ReachWalk
<1> QED BY <1>5

LEMMA ReachIs ==
    ASSUME NEW glob, NEW path, Len(glob) \in Nat, Len(path) \in Nat
    PROVE  /\ CouldMatchBelow(glob, path) <=> Spans(glob) \/ ReachFrom(glob, path, 1, 1)
           /\ \A i \in 1..(Len(glob) + 1), j \in 1..(Len(path) + 1) :
                ReachFrom(glob, path, i, j) <=>
                    ReachStep(glob, path, i, j, ReachFrom(glob, path, i + 1, j),
                        ReachFrom(glob, path, i, j + 1), ReachFrom(glob, path, i + 1, j + 1))
<1> DEFINE walk == CHOOSE w : ReachWalk(w, glob, path)
<1>1. ReachWalk(walk, glob, path)
    BY ReachExists
<1>2. \A i, j : ReachFrom(glob, path, i, j) = walk[<<i, j>>]
    BY DEF ReachFrom
<1>3. CouldMatchBelow(glob, path) <=>
        Spans(glob) \/ walk[<<1, 1>>]
    BY DEF CouldMatchBelow, ReachWalk, ReachStep
<1> HIDE DEF walk
<1>4. ASSUME NEW i \in 1..(Len(glob) + 1), NEW j \in 1..(Len(path) + 1)
      PROVE  ReachFrom(glob, path, i, j) <=>
                    ReachStep(glob, path, i, j, ReachFrom(glob, path, i + 1, j),
                        ReachFrom(glob, path, i, j + 1), ReachFrom(glob, path, i + 1, j + 1))
    <2>1. <<i, j>> \in Positions(glob, path) /\ <<i, j>>[1] = i /\ <<i, j>>[2] = j
        BY DEF Positions
    <2> DEFINE at == <<i, j>>
    <2>2. walk[at] = ReachStep(glob, path, at[1], at[2], walk[<<at[1] + 1, at[2]>>],
                    walk[<<at[1], at[2] + 1>>], walk[<<at[1] + 1, at[2] + 1>>])
        BY <1>1, <2>1 DEF ReachWalk
    <2> QED BY <1>2, <2>2 DEF ReachStep
<1> QED BY <1>2, <1>3, <1>4

\* The walk of MatchesExactly: one step, given where it goes on; the positions it succeeds
\* from; and the function it is.
ExactStep(glob, path, i, j, next, stay, both) ==
    \/ i > Len(glob) /\ j > Len(path)
    \/ i <= Len(glob) /\ glob[i] = Deep /\ (next \/ (j <= Len(path) /\ stay))
    \/ /\ i <= Len(glob) /\ glob[i] # Deep
       /\ j <= Len(path) /\ path[j] \in glob[i] /\ both

ExactSet(glob, path, X) ==
    {at \in Positions(glob, path) :
        ExactStep(glob, path, at[1], at[2], <<at[1] + 1, at[2]>> \in X,
                  <<at[1], at[2] + 1>> \in X, <<at[1] + 1, at[2] + 1>> \in X)}

ExactWalk(walk, glob, path) ==
    walk = [at \in Positions(glob, path) |->
        ExactStep(glob, path, at[1], at[2], walk[<<at[1] + 1, at[2]>>],
                  walk[<<at[1], at[2] + 1>>], walk[<<at[1] + 1, at[2] + 1>>])]

ExactFrom(glob, path, i, j) == (CHOOSE walk : ExactWalk(walk, glob, path))[<<i, j>>]

LEMMA ExactExists ==
    ASSUME NEW glob, NEW path, Len(glob) \in Nat, Len(path) \in Nat
    PROVE  \E walk : ExactWalk(walk, glob, path)
<1> DEFINE P == Positions(glob, path)
           F == [X \in SUBSET P |-> ExactSet(glob, path, X)]
<1>1. PICK X \in SUBSET P : F[X] = X
    <2>1. F \in [SUBSET P -> SUBSET P]
        BY DEF ExactSet
    <2>2. \A X, Y \in SUBSET P : X \subseteq Y => F[X] \subseteq F[Y]
        BY DEF ExactSet, ExactStep
    <2> HIDE DEF F, P
    <2> QED BY <2>1, <2>2, FixedPoint
<1> DEFINE walk == [at \in P |-> at \in X]
<1>2. ExactSet(glob, path, X) = X /\ \A at \in P : walk[at] = (at \in X)
    BY <1>1
<1>3. walk = [at \in P |-> walk[at]]
    OBVIOUS
<1> HIDE DEF walk
<1>4. ASSUME NEW at \in P
      PROVE  walk[at] = ExactStep(glob, path, at[1], at[2], walk[<<at[1] + 1, at[2]>>],
                      walk[<<at[1], at[2] + 1>>], walk[<<at[1] + 1, at[2] + 1>>])
    <2> DEFINE Here == ExactStep(glob, path, at[1], at[2], walk[<<at[1] + 1, at[2]>>],
                    walk[<<at[1], at[2] + 1>>], walk[<<at[1] + 1, at[2] + 1>>])
               There == at \in X
    <2>1. at[1] \in 1..(Len(glob) + 1) /\ at[2] \in 1..(Len(path) + 1)
        BY DEF Positions
    <2>2. /\ at[1] <= Len(glob) => <<at[1] + 1, at[2]>> \in P
          /\ at[2] <= Len(path) => <<at[1], at[2] + 1>> \in P
          /\ at[1] <= Len(glob) /\ at[2] <= Len(path) => <<at[1] + 1, at[2] + 1>> \in P
        BY <2>1 DEF Positions
    <2>3. There <=> ExactStep(glob, path, at[1], at[2], <<at[1] + 1, at[2]>> \in X,
                    <<at[1], at[2] + 1>> \in X, <<at[1] + 1, at[2] + 1>> \in X)
        BY <1>2 DEF ExactSet
    <2>4. walk[at] = There
        BY <1>2
    <2> HIDE DEF P
    <2>5. There <=> Here
        BY <1>2, <2>2, <2>3 DEF ExactStep
    <2>6. There \in BOOLEAN /\ Here \in BOOLEAN
        BY DEF ExactStep
    <2> HIDE DEF There, Here
    <2>7. walk[at] = Here
        BY <2>4, <2>5, <2>6
    <2> QED BY <2>7 DEF Here
<1>5. ExactWalk(walk, glob, path)
    BY <1>3, <1>4 DEF ExactWalk
<1> QED BY <1>5

LEMMA ExactIs ==
    ASSUME NEW glob, NEW path, Len(glob) \in Nat, Len(path) \in Nat
    PROVE  /\ MatchesExactly(glob, path) <=> ExactFrom(glob, path, 1, 1)
           /\ \A i \in 1..(Len(glob) + 1), j \in 1..(Len(path) + 1) :
                ExactFrom(glob, path, i, j) <=>
                    ExactStep(glob, path, i, j, ExactFrom(glob, path, i + 1, j),
                        ExactFrom(glob, path, i, j + 1), ExactFrom(glob, path, i + 1, j + 1))
<1> DEFINE walk == CHOOSE w : ExactWalk(w, glob, path)
<1>1. ExactWalk(walk, glob, path)
    BY ExactExists
<1>2. \A i, j : ExactFrom(glob, path, i, j) = walk[<<i, j>>]
    BY DEF ExactFrom
<1>3. MatchesExactly(glob, path) <=>
        walk[<<1, 1>>]
    BY DEF MatchesExactly, ExactWalk, ExactStep
<1> HIDE DEF walk
<1>4. ASSUME NEW i \in 1..(Len(glob) + 1), NEW j \in 1..(Len(path) + 1)
      PROVE  ExactFrom(glob, path, i, j) <=>
                    ExactStep(glob, path, i, j, ExactFrom(glob, path, i + 1, j),
                        ExactFrom(glob, path, i, j + 1), ExactFrom(glob, path, i + 1, j + 1))
    <2>1. <<i, j>> \in Positions(glob, path) /\ <<i, j>>[1] = i /\ <<i, j>>[2] = j
        BY DEF Positions
    <2> DEFINE at == <<i, j>>
    <2>2. walk[at] = ExactStep(glob, path, at[1], at[2], walk[<<at[1] + 1, at[2]>>],
                    walk[<<at[1], at[2] + 1>>], walk[<<at[1] + 1, at[2] + 1>>])
        BY <1>1, <2>1 DEF ExactWalk
    <2> QED BY <1>2, <2>2 DEF ExactStep
<1> QED BY <1>2, <1>3, <1>4

\* The patterns that GlobsAssumption describes.
Patterns == {g \in Seq({Deep, Spanning} \cup SUBSET Names) : g # <<>>}

LEMMA PrefixFacts ==
    ASSUME NEW S, NEW seq \in Seq(S), NEW n \in 0..Len(seq)
    PROVE  Len(SubSeq(seq, 1, n)) = n /\ \A i \in 1..n : SubSeq(seq, 1, n)[i] = seq[i]
OBVIOUS

LEMMA PatternFacts ==
    ASSUME NEW glob \in Patterns
    PROVE  /\ Len(glob) \in Nat \ {0} /\ Last(glob) = glob[Len(glob)]
           /\ Len(Front(glob)) = Len(glob) - 1
           /\ \A i \in 1..(Len(glob) - 1) : Front(glob)[i] = glob[i]
<1>1. glob \in Seq({Deep, Spanning} \cup SUBSET Names) /\ glob # <<>>
    BY DEF Patterns
<1>2. Len(glob) \in Nat \ {0}
    BY <1>1
<1>3. Front(glob) = SubSeq(glob, 1, Len(glob) - 1) /\ Last(glob) = glob[Len(glob)]
    BY DEF Front, Last
<1>4. /\ Len(SubSeq(glob, 1, Len(glob) - 1)) = Len(glob) - 1
      /\ \A i \in 1..(Len(glob) - 1) : SubSeq(glob, 1, Len(glob) - 1)[i] = glob[i]
    <2> DEFINE n == Len(glob) - 1
    <2>1. n \in 0..Len(glob)
        BY <1>2
    <2> HIDE DEF n
    <2> QED BY <1>1, <2>1, PrefixFacts DEF n
<1> QED BY <1>2, <1>3, <1>4

LEMMA PathFacts ==
    ASSUME NEW path \in Paths, NEW k \in 0..Len(path)
    PROVE  /\ Len(path) \in 1..MaxDepth /\ path \in [1..Len(path) -> Names]
           /\ Len(SubSeq(path, 1, k)) = k
           /\ \A j \in 1..k : SubSeq(path, 1, k)[j] = path[j]
<1>1. PICK n \in 1..MaxDepth : path \in [1..n -> Names]
    BY DEF Paths
<1>2. n \in Nat /\ Len(path) = n /\ path \in Seq(Names)
    BY <1>1, BoundsAssumption
<1> QED BY <1>1, <1>2

LEMMA ExactAt ==
    ASSUME NEW glob, NEW path, NEW L \in Nat \ {0}, NEW k \in Nat,
           Len(glob) = L - 1, Len(path) = k
    PROVE  /\ MatchesExactly(glob, path) <=> ExactFrom(glob, path, 1, 1)
           /\ \A i \in 1..L, j \in 1..(k + 1) : ExactFrom(glob, path, i, j) <=>
                \/ i > L - 1 /\ j > k
                \/ /\ i <= L - 1 /\ glob[i] = Deep
                   /\ \/ ExactFrom(glob, path, i + 1, j)
                      \/ j <= k /\ ExactFrom(glob, path, i, j + 1)
                \/ /\ i <= L - 1 /\ glob[i] # Deep
                   /\ j <= k /\ path[j] \in glob[i] /\ ExactFrom(glob, path, i + 1, j + 1)
<1>1. Len(glob) \in Nat /\ Len(path) \in Nat /\ Len(glob) + 1 = L
    OBVIOUS
<1>2. ASSUME NEW i \in 1..L, NEW j \in 1..(k + 1)
      PROVE  ExactFrom(glob, path, i, j) <=>
                \/ i > L - 1 /\ j > k
                \/ /\ i <= L - 1 /\ glob[i] = Deep
                   /\ \/ ExactFrom(glob, path, i + 1, j)
                      \/ j <= k /\ ExactFrom(glob, path, i, j + 1)
                \/ /\ i <= L - 1 /\ glob[i] # Deep
                   /\ j <= k /\ path[j] \in glob[i] /\ ExactFrom(glob, path, i + 1, j + 1)
    <2>1. i \in 1..(Len(glob) + 1) /\ j \in 1..(Len(path) + 1)
        BY <1>1
    <2>2. ExactFrom(glob, path, i, j) <=>
            ExactStep(glob, path, i, j, ExactFrom(glob, path, i + 1, j),
                ExactFrom(glob, path, i, j + 1), ExactFrom(glob, path, i + 1, j + 1))
        BY <1>1, <2>1, ExactIs
    <2> QED BY <2>2 DEF ExactStep
<1> QED BY <1>1, <1>2, ExactIs

\* Induction from the end of a glob and of a path backwards.
LEMMA Backwards ==
    ASSUME NEW G, NEW I \in Nat, NEW J \in Nat,
           \A i \in 1..I, j \in 1..J :
                /\ i < I => <<i + 1, j>> \in G
                /\ j < J => <<i, j + 1>> \in G
                /\ i < I /\ j < J => <<i + 1, j + 1>> \in G
                => <<i, j>> \in G
    PROVE  \A i \in 1..I, j \in 1..J : <<i, j>> \in G
<1> DEFINE Far(n) == {at \in (1..I) \X (1..J) : (I - at[1]) + (J - at[2]) <= n}
           S == {n \in Nat : Far(n) \subseteq G}
<1>1. ASSUME NEW n \in Nat,
             \A i \in 1..I, j \in 1..J : (I - i) + (J - j) < n => <<i, j>> \in G
      PROVE  n \in S
    <2> SUFFICES ASSUME NEW i \in 1..I, NEW j \in 1..J, (I - i) + (J - j) <= n
                 PROVE  <<i, j>> \in G
        OBVIOUS
    <2>1. i < I => <<i + 1, j>> \in G
        <3>1. i < I => i + 1 \in 1..I /\ (I - (i + 1)) + (J - j) < n
            OBVIOUS
        <3> QED BY <1>1, <3>1
    <2>2. j < J => <<i, j + 1>> \in G
        <3>1. j < J => j + 1 \in 1..J /\ (I - i) + (J - (j + 1)) < n
            OBVIOUS
        <3> QED BY <1>1, <3>1
    <2>3. i < I /\ j < J => <<i + 1, j + 1>> \in G
        <3>1. i < I /\ j < J => /\ i + 1 \in 1..I /\ j + 1 \in 1..J
                               /\ (I - (i + 1)) + (J - (j + 1)) < n
            OBVIOUS
        <3> QED BY <1>1, <3>1
    <2> QED BY <2>1, <2>2, <2>3
<1>2. 0 \in S
    <2>1. \A i \in 1..I, j \in 1..J : ~((I - i) + (J - j) < 0)
        OBVIOUS
    <2> QED BY <1>1, <2>1
<1>3. ASSUME NEW n \in Nat, n \in S PROVE n + 1 \in S
    <2>1. \A i \in 1..I, j \in 1..J : (I - i) + (J - j) < n + 1 => (I - i) + (J - j) <= n
        OBVIOUS
    <2>2. \A i \in 1..I, j \in 1..J : (I - i) + (J - j) < n + 1 => <<i, j>> \in G
        BY <1>3, <2>1
    <2>3. n + 1 \in Nat
        OBVIOUS
    <2> QED BY <1>1, <2>2, <2>3
<1>4. Nat \subseteq S
    <2> HIDE DEF S
    <2> QED BY <1>2, <1>3, Induction
<1>5. ASSUME NEW i \in 1..I, NEW j \in 1..J PROVE <<i, j>> \in G
    <2>1. (I - i) + (J - j) \in S
        <3>1. (I - i) + (J - j) \in Nat
            OBVIOUS
        <3> QED BY <1>4, <3>1
    <2> QED BY <2>1
<1> QED BY <1>5

\* _glob_could_match_below: a glob that matches a path may match below each directory
\* on the way to it.
LEMMA MatchedIsReached ==
    ASSUME NEW glob \in Patterns, NEW path \in Paths, GlobMatches(glob, path),
           NEW k \in 1..(Len(path) - 1)
    PROVE  CouldMatchBelow(glob, SubSeq(path, 1, k))
<1> DEFINE L == Len(glob)
           dir == SubSeq(path, 1, k)
           M(i, j) == MatchFrom(glob, path, i, j)
           R(i, j) == ReachFrom(glob, dir, i, j)
           Good == {at \in (1..(L + 1)) \X (1..(k + 1)) : M(at[1], at[2]) => R(at[1], at[2])}
<1>1. L \in Nat \ {0} /\ Len(path) \in Nat /\ k \in Nat \ {0} /\ k < Len(path)
    BY PatternFacts, PathFacts
<1>2. Len(dir) = k /\ \A j \in 1..k : dir[j] = path[j]
    BY <1>1, PathFacts
<1>3. ASSUME ~Spans(glob) PROVE M(1, 1)
    BY <1>1, <1>3, MatchIs
<1>4. ASSUME NEW i \in 1..(L + 1), NEW j \in 1..(k + 1)
      PROVE  M(i, j) <=>
                \/ i > L /\ j > Len(path)
                \/ /\ i <= L /\ j <= Len(path)
                   /\ \/ /\ glob[i] = Deep
                         /\ i = L \/ M(i + 1, j) \/ M(i, j + 1)
                      \/ /\ glob[i] # Deep
                         /\ path[j] \in glob[i] /\ M(i + 1, j + 1)
    <2>1. j \in 1..(Len(path) + 1)
        BY <1>1
    <2> QED BY <1>1, <2>1, MatchIs DEF MatchStep
<1> HIDE DEF dir
<1>5. ASSUME NEW i \in 1..(L + 1), NEW j \in 1..(k + 1)
      PROVE  R(i, j) <=>
                /\ i <= L
                /\ \/ j > k
                   \/ /\ j <= k /\ glob[i] = Deep
                      /\ R(i + 1, j) \/ R(i, j + 1)
                   \/ /\ j <= k /\ glob[i] # Deep
                      /\ dir[j] \in glob[i] /\ R(i + 1, j + 1)
    BY <1>1, <1>2, ReachIs DEF ReachStep
<1>6. CouldMatchBelow(glob, dir) <=> Spans(glob) \/ R(1, 1)
    BY <1>1, <1>2, ReachIs
<1> HIDE DEF M, R, L
<1>7. ASSUME NEW i \in 1..(L + 1), NEW j \in 1..(k + 1), M(i, j),
             i < L + 1 => <<i + 1, j>> \in Good,
             j < k + 1 => <<i, j + 1>> \in Good,
             i < L + 1 /\ j < k + 1 => <<i + 1, j + 1>> \in Good
      PROVE  R(i, j)
    <2>1. i <= L /\ j <= Len(path)
        BY <1>1, <1>4, <1>7
    <2>2. CASE j > k
        BY <1>5, <2>1, <2>2
    <2>3. CASE j <= k /\ glob[i] = Deep
        <3>1. CASE M(i + 1, j)
            BY <1>1, <1>5, <1>7, <2>1, <2>3, <3>1
        <3>2. CASE M(i, j + 1)
            BY <1>1, <1>5, <1>7, <2>1, <2>3, <3>2
        <3>3. CASE i = L
            <4>1. j + 1 \in 1..(k + 1) /\ j + 1 <= Len(path) /\ i \in 1..(L + 1)
                BY <1>1, <2>3
            <4>2. M(i, j + 1)
                BY <1>4, <2>1, <2>3, <3>3, <4>1
            <4> QED BY <3>2, <4>2
        <3> QED BY <1>4, <1>7, <2>1, <2>3, <3>1, <3>2, <3>3
    <2>4. CASE j <= k /\ glob[i] # Deep
        <3>1. path[j] \in glob[i] /\ M(i + 1, j + 1)
            BY <1>4, <1>7, <2>1, <2>4
        <3>2. R(i + 1, j + 1)
            BY <1>1, <1>7, <2>1, <2>4, <3>1
        <3>3. dir[j] = path[j]
            BY <1>2, <2>4
        <3> QED BY <1>5, <2>1, <2>4, <3>1, <3>2, <3>3
    <2> QED BY <1>1, <2>2, <2>3, <2>4
<1>8. ASSUME NEW i \in 1..(L + 1), NEW j \in 1..(k + 1),
             i < L + 1 => <<i + 1, j>> \in Good,
             j < k + 1 => <<i, j + 1>> \in Good,
             i < L + 1 /\ j < k + 1 => <<i + 1, j + 1>> \in Good
      PROVE  <<i, j>> \in Good
    BY <1>7, <1>8
<1>9. \A i \in 1..(L + 1), j \in 1..(k + 1) : <<i, j>> \in Good
    <2>1. L + 1 \in Nat /\ k + 1 \in Nat
        BY <1>1
    <2> HIDE DEF Good
    <2> QED BY <1>8, <2>1, Backwards
<1>10. M(1, 1) => R(1, 1)
    <2>1. <<1, 1>> \in Good
        <3> HIDE DEF Good
        <3> QED BY <1>1, <1>9
    <2> QED BY <2>1
<1> QED BY <1>3, <1>6, <1>10 DEF dir

\* _glob_covers_everything_below: a glob that covers a directory matches all below it.
LEMMA CoveredIsMatched ==
    ASSUME NEW glob \in Patterns, NEW dir \in Dirs, CoversEverythingBelow(glob, dir),
           NEW path \in Below[dir]
    PROVE  GlobMatches(glob, path)
<1>1. PICK k \in 0..Len(dir) : MatchesExactly(Front(glob), SubSeq(dir, 1, k))
    BY DEF CoversEverythingBelow
<1> DEFINE L == Len(glob)
           front == Front(glob)
           above == SubSeq(dir, 1, k)
           M(i, j) == MatchFrom(glob, path, i, j)
           E(i, j) == ExactFrom(front, above, i, j)
           Good == {at \in (1..L) \X (1..(k + 1)) : E(at[1], at[2]) => M(at[1], at[2])}
<1>2. /\ path \in Paths /\ dir \in Paths /\ Len(path) > Len(dir)
      /\ SubSeq(path, 1, Len(dir)) = dir
    BY DEF Below, Dirs
<1>3. L \in Nat \ {0} /\ Len(path) \in Nat /\ k \in Nat /\ k < Len(path)
    BY <1>2, PatternFacts, PathFacts
<1>4. Len(above) = k /\ \A j \in 1..k : above[j] = path[j]
    <2>1. Len(above) = k /\ \A j \in 1..k : above[j] = dir[j]
        BY <1>2, PathFacts
    <2>2. Len(dir) \in 0..Len(path) /\ Len(dir) \in Nat
        BY <1>2, PathFacts
    <2>3. \A j \in 1..Len(dir) : dir[j] = path[j]
        BY <1>2, <2>2, PathFacts
    <2> QED BY <2>1, <2>2, <2>3
<1>5. Len(front) = L - 1 /\ \A i \in 1..(L - 1) : front[i] = glob[i]
    BY PatternFacts
<1>6. glob[L] = Deep /\ ~Spans(glob)
    BY PatternFacts DEF CoversEverythingBelow
<1>7. ASSUME NEW i \in 1..L, NEW j \in 1..(k + 1)
      PROVE  M(i, j) <=>
                \/ i > L /\ j > Len(path)
                \/ /\ i <= L /\ j <= Len(path)
                   /\ \/ /\ glob[i] = Deep
                         /\ i = L \/ M(i + 1, j) \/ M(i, j + 1)
                      \/ /\ glob[i] # Deep
                         /\ path[j] \in glob[i] /\ M(i + 1, j + 1)
    <2>1. j \in 1..(Len(path) + 1) /\ i \in 1..(L + 1)
        BY <1>3
    <2> QED BY <1>3, <2>1, MatchIs DEF MatchStep
<1>8. GlobMatches(glob, path) <=> M(1, 1)
    BY <1>3, <1>6, MatchIs
<1>9. MatchesExactly(front, above)
    BY <1>1
<1> HIDE DEF front, above
<1>10. ASSUME NEW i \in 1..L, NEW j \in 1..(k + 1)
       PROVE  E(i, j) <=>
                \/ i > L - 1 /\ j > k
                \/ /\ i <= L - 1 /\ front[i] = Deep
                   /\ E(i + 1, j) \/ (j <= k /\ E(i, j + 1))
                \/ /\ i <= L - 1 /\ front[i] # Deep
                   /\ j <= k /\ above[j] \in front[i] /\ E(i + 1, j + 1)
    BY <1>3, <1>4, <1>5, ExactAt
<1>11. E(1, 1)
    BY <1>3, <1>4, <1>5, <1>9, ExactAt
<1> HIDE DEF M, E, L
<1>12. ASSUME NEW i \in 1..L, NEW j \in 1..(k + 1), E(i, j),
              i < L => <<i + 1, j>> \in Good,
              j < k + 1 => <<i, j + 1>> \in Good,
              i < L /\ j < k + 1 => <<i + 1, j + 1>> \in Good
       PROVE  M(i, j)
    <2>1. j <= Len(path) /\ i <= L
        BY <1>3
    <2>2. CASE i > L - 1 /\ j > k
        <3>1. i = L
            BY <1>3, <2>2
        <3> QED BY <1>6, <1>7, <2>1, <3>1
    <2>3. CASE i <= L - 1 /\ front[i] = Deep
        <3>1. glob[i] = Deep /\ i < L
            BY <1>3, <1>5, <2>3
        <3>2. M(i + 1, j) \/ M(i, j + 1)
            BY <1>3, <1>10, <1>12, <2>3, <3>1
        <3> QED BY <1>7, <2>1, <3>1, <3>2
    <2>4. CASE i <= L - 1 /\ front[i] # Deep
        <3>1. glob[i] # Deep /\ i < L /\ front[i] = glob[i]
            BY <1>3, <1>5, <2>4
        <3>2. j <= k /\ above[j] \in front[i] /\ E(i + 1, j + 1)
            BY <1>3, <1>10, <1>12, <2>4
        <3>3. M(i + 1, j + 1)
            BY <1>3, <1>12, <3>1, <3>2
        <3>4. path[j] \in glob[i]
            BY <1>4, <3>1, <3>2
        <3> QED BY <1>7, <2>1, <3>1, <3>3, <3>4
    <2> QED BY <1>10, <1>12, <2>2, <2>3, <2>4
<1>13. ASSUME NEW i \in 1..L, NEW j \in 1..(k + 1),
              i < L => <<i + 1, j>> \in Good,
              j < k + 1 => <<i, j + 1>> \in Good,
              i < L /\ j < k + 1 => <<i + 1, j + 1>> \in Good
       PROVE  <<i, j>> \in Good
    BY <1>12, <1>13
<1>14. \A i \in 1..L, j \in 1..(k + 1) : <<i, j>> \in Good
    <2>1. L \in Nat /\ k + 1 \in Nat
        BY <1>3
    <2> HIDE DEF Good
    <2> QED BY <1>13, <2>1, Backwards
<1>15. <<1, 1>> \in Good
    <2> HIDE DEF Good
    <2> QED BY <1>3, <1>14
<1> QED BY <1>8, <1>11, <1>15

\* Conversely: where a glob with a "**" at the end matches a child of a directory, what
\* is before the "**" matches the directory or one above it.
LEMMA MatchedIsCovered ==
    ASSUME NEW glob \in Patterns, Last(glob) = Deep, ~Spans(glob), NEW dir \in Dirs,
           NEW path \in Below[dir], Len(path) = Len(dir) + 1, GlobMatches(glob, path)
    PROVE  CoversEverythingBelow(glob, dir)
<1> DEFINE L == Len(glob)
           D == Len(dir)
           front == Front(glob)
           above(k) == SubSeq(dir, 1, k)
           M(i, j) == MatchFrom(glob, path, i, j)
           E(k, i, j) == ExactFrom(front, above(k), i, j)
           Good == {at \in (1..L) \X (1..(D + 2)) :
                        M(at[1], at[2]) => \E k \in (at[2] - 1)..D : E(k, at[1], at[2])}
<1>1. /\ path \in Paths /\ dir \in Paths /\ Len(path) = D + 1
      /\ SubSeq(path, 1, D) = dir
    BY DEF Below, Dirs
<1>2. L \in Nat \ {0} /\ D \in Nat
    BY <1>1, PatternFacts, PathFacts
<1>3. ASSUME NEW k \in 0..D PROVE Len(above(k)) = k /\ \A j \in 1..k : above(k)[j] = path[j]
    <2>1. Len(above(k)) = k /\ \A j \in 1..k : above(k)[j] = dir[j]
        BY <1>1, PathFacts
    <2>2. D \in 0..Len(path)
        BY <1>1, <1>2
    <2>3. \A j \in 1..D : dir[j] = path[j]
        BY <1>1, <2>2, PathFacts
    <2> QED BY <1>2, <2>1, <2>3
<1>4. Len(front) = L - 1 /\ \A i \in 1..(L - 1) : front[i] = glob[i]
    BY PatternFacts
<1>5. glob[L] = Deep
    BY PatternFacts
<1>6. ASSUME NEW i \in 1..L, NEW j \in 1..(D + 2)
      PROVE  M(i, j) <=>
                \/ i > L /\ j > D + 1
                \/ /\ i <= L /\ j <= D + 1
                   /\ \/ /\ glob[i] = Deep
                         /\ i = L \/ M(i + 1, j) \/ M(i, j + 1)
                      \/ /\ glob[i] # Deep
                         /\ path[j] \in glob[i] /\ M(i + 1, j + 1)
    <2>1. /\ j \in 1..(Len(path) + 1) /\ i \in 1..(L + 1)
          /\ Len(path) \in Nat /\ Len(glob) \in Nat /\ Len(path) = D + 1 /\ L = Len(glob)
        BY <1>1, <1>2
    <2>2. M(i, j) <=> MatchStep(glob, path, i, j, M(i + 1, j), M(i, j + 1), M(i + 1, j + 1))
        BY <2>1, MatchIs
    <2> HIDE DEF M, L, D
    <2> QED BY <2>1, <2>2, Zenon DEF MatchStep
<1>7. M(1, 1)
    BY <1>1, <1>2, MatchIs
<1>8. ASSUME NEW k \in 0..D, MatchesExactly(front, above(k))
      PROVE  CoversEverythingBelow(glob, dir)
    BY <1>8 DEF CoversEverythingBelow
<1> HIDE DEF front, above
<1>9. ASSUME NEW k \in 0..D
      PROVE  /\ MatchesExactly(front, above(k)) <=> E(k, 1, 1)
             /\ \A i \in 1..L, j \in 1..(k + 1) : E(k, i, j) <=>
                \/ i > L - 1 /\ j > k
                \/ /\ i <= L - 1 /\ front[i] = Deep
                   /\ E(k, i + 1, j) \/ (j <= k /\ E(k, i, j + 1))
                \/ /\ i <= L - 1 /\ front[i] # Deep
                   /\ j <= k /\ above(k)[j] \in front[i] /\ E(k, i + 1, j + 1)
    <2> DEFINE here == above(k)
    <2>1. Len(front) \in Nat /\ Len(here) \in Nat /\ Len(front) + 1 = L /\ Len(here) = k
        BY <1>2, <1>3, <1>4
    <2> HIDE DEF here, front, L
    <2>2. /\ MatchesExactly(front, here) <=> ExactFrom(front, here, 1, 1)
          /\ \A i \in 1..L, j \in 1..(k + 1) : ExactFrom(front, here, i, j) <=>
                \/ i > L - 1 /\ j > k
                \/ /\ i <= L - 1 /\ front[i] = Deep
                   /\ \/ ExactFrom(front, here, i + 1, j)
                      \/ j <= k /\ ExactFrom(front, here, i, j + 1)
                \/ /\ i <= L - 1 /\ front[i] # Deep
                   /\ j <= k /\ here[j] \in front[i] /\ ExactFrom(front, here, i + 1, j + 1)
        <3>1. L \in Nat \ {0} /\ k \in Nat /\ Len(front) = L - 1 /\ Len(here) = k
            BY <1>2, <2>1
        <3> QED BY <3>1, ExactAt
    <2> QED BY <2>2 DEF here
<1> HIDE DEF M, E, L, D
<1>10. ASSUME NEW i \in 1..L, NEW j \in 1..(D + 2), M(i, j),
              i < L => <<i + 1, j>> \in Good,
              j < D + 2 => <<i, j + 1>> \in Good,
              i < L /\ j < D + 2 => <<i + 1, j + 1>> \in Good
       PROVE  \E k \in (j - 1)..D : E(k, i, j)
    <2>1. j <= D + 1 /\ i <= L
        BY <1>2, <1>6, <1>10
    <2>2. CASE i = L
        <3>1. j - 1 \in 0..D /\ j \in 1..((j - 1) + 1) /\ j > j - 1 /\ i > L - 1
            BY <1>2, <2>1, <2>2
        <3>2. E(j - 1, i, j)
            BY <1>9, <3>1
        <3> QED BY <1>2, <3>1, <3>2
    <2>3. CASE i < L /\ glob[i] = Deep
        <3>1. front[i] = Deep /\ i <= L - 1
            BY <1>2, <1>4, <2>3
        <3>2. CASE M(i + 1, j)
            <4>1. PICK k \in (j - 1)..D : E(k, i + 1, j)
                BY <1>10, <2>3, <3>2
            <4>2. k \in 0..D /\ j \in 1..(k + 1)
                BY <1>2
            <4> QED BY <1>9, <3>1, <4>1, <4>2
        <3>3. CASE M(i, j + 1)
            <4>1. PICK k \in j..D : E(k, i, j + 1)
                BY <1>2, <1>10, <2>1, <3>3
            <4>2. k \in 0..D /\ j \in 1..(k + 1) /\ j <= k /\ k \in (j - 1)..D
                BY <1>2
            <4>3. E(k, i, j)
                BY <1>9, <3>1, <4>1, <4>2
            <4> QED BY <4>2, <4>3
        <3> QED BY <1>2, <1>6, <1>10, <2>3, <3>2, <3>3
    <2>4. CASE i < L /\ glob[i] # Deep
        <3>1. front[i] = glob[i] /\ i <= L - 1
            BY <1>2, <1>4, <2>4
        <3>2. path[j] \in glob[i] /\ M(i + 1, j + 1)
            BY <1>2, <1>6, <1>10, <2>4
        <3>3. PICK k \in j..D : E(k, i + 1, j + 1)
            BY <1>2, <1>10, <2>1, <2>4, <3>2
        <3>4. k \in 0..D /\ j \in 1..(k + 1) /\ j <= k /\ k \in (j - 1)..D
            BY <1>2
        <3>5. above(k)[j] = path[j]
            BY <1>3, <3>4
        <3>6. E(k, i, j)
            BY <1>9, <2>4, <3>1, <3>2, <3>3, <3>4, <3>5
        <3> QED BY <3>4, <3>6
    <2> QED BY <2>1, <2>2, <2>3, <2>4, <1>2
<1>11. ASSUME NEW i \in 1..L, NEW j \in 1..(D + 2),
              i < L => <<i + 1, j>> \in Good,
              j < D + 2 => <<i, j + 1>> \in Good,
              i < L /\ j < D + 2 => <<i + 1, j + 1>> \in Good
       PROVE  <<i, j>> \in Good
    BY <1>10, <1>11
<1>12. \A i \in 1..L, j \in 1..(D + 2) : <<i, j>> \in Good
    <2>1. L \in Nat /\ D + 2 \in Nat
        BY <1>2
    <2> HIDE DEF Good
    <2> QED BY <1>11, <2>1, Backwards
<1>13. PICK k \in 0..D : E(k, 1, 1)
    <2>1. <<1, 1>> \in Good
        <3> HIDE DEF Good
        <3> QED BY <1>2, <1>12
    <2> QED BY <1>7, <2>1
<1> QED BY <1>8, <1>9, <1>13


(***************************************************************************)
(* The invariant is inductive.                                             *)
(***************************************************************************)

LEMMA InitInv == Init => IInv
<1> SUFFICES ASSUME Init PROVE IInv
    OBVIOUS
<1>1. ServedInv /\ RequestOK(waiting)
    BY DEF Init, ServedInv, RequestOK, Nobody
<1>2. PICK n \in 0..MaxOld : \E texts \in [1..n -> OldTexts] :
            rules = [i \in 1..n |-> RowOf(texts[i], i - 1)]
    BY DEF Init
<1>3. PICK texts \in [1..n -> OldTexts] : rules = [i \in 1..n |-> RowOf(texts[i], i - 1)]
    BY <1>2
<1>4. n \in 0..MaxRules /\ MaxRules \in Nat /\ Limit = MaxRules + MaxListed /\ MaxListed \in Nat
    BY BoundsAssumption DEF Limit, Init
<1>5. RulesInv
    <2>1. \A i \in 1..n : rules[i] \in Row
        BY <1>3, <1>4 DEF RowOf, Row
    <2>2. \A i \in 1..n : rules[i].order \in 0..MaxRules
        BY <1>3, <1>4 DEF RowOf
    <2>3. 0..MaxRules \subseteq 0..Limit
        BY <1>4
    <2> QED BY <1>3, <1>4, <2>1, <2>2, <2>3 DEF RulesInv
<1> QED BY <1>1, <1>5 DEF IInv

LEMMA AppliedKeeps ==
    ASSUME ServedInv, RulesInv, NEW c, RequestOK(c), Applied(c), NEW late \in BOOLEAN,
           Serves(c, late)
    PROVE  ServedInv' /\ RulesInv'
<1>1. ServedInv' /\ served'.count = served.count + 1
    BY DEF Serves, ServedInv, Excludes
<1>2. Limit \in Nat /\ Limit' = Limit + 1 /\ MaxRules \in Nat /\ MaxRules <= Limit
    BY <1>1, BoundsAssumption DEF Limit, ServedInv
<1>3. CASE c.op = "create"
    <2>1. c.text \in OldTexts /\ c.order \in 0..(Limit + 1)
        BY <1>3 DEF RequestOK
    <2>2. RowOf(c.text, c.order) \in Row /\ RowOf(c.text, c.order).order \in 0..Limit'
        BY <2>1, <1>2 DEF RowOf, Row
    <2>3. PICK id \in 1..MaxRules :
                /\ DOMAIN rules' = DOMAIN rules \cup {id}
                /\ rules'[id] = RowOf(c.text, c.order)
                /\ \A i \in DOMAIN rules : rules'[i] = rules[i]
        BY <1>3, CreatedRows
    <2> QED BY <1>1, <1>2, <2>2, <2>3 DEF RulesInv
<1>4. CASE c.op = "update"
    <2>1. c.text \in OldTexts
        BY <1>4 DEF RequestOK
    <2>2. c.id \in DOMAIN rules =>
            rules'[c.id] \in Row /\ rules'[c.id].order = rules[c.id].order
        <3> SUFFICES ASSUME c.id \in DOMAIN rules
                     PROVE  rules'[c.id] \in Row /\ rules'[c.id].order = rules[c.id].order
            OBVIOUS
        <3>1. rules[c.id] \in Row
            BY DEF RulesInv
        <3>2. PICK type \in {t.type : t \in OldTexts}, kind \in {t.kind : t \in OldTexts},
                   pattern \in {t.pattern : t \in OldTexts} :
                rules'[c.id] = [order |-> rules[c.id].order, type |-> type, kind |-> kind,
                                pattern |-> pattern]
            <4> DEFINE type == IF "type" \in c.columns THEN c.text.type ELSE rules[c.id].type
                       kind == IF "pattern" \in c.columns THEN c.text.kind
                                                          ELSE rules[c.id].kind
                       pattern == IF "pattern" \in c.columns THEN c.text.pattern
                                                             ELSE rules[c.id].pattern
            <4>1. type \in {t.type : t \in OldTexts} /\ kind \in {t.kind : t \in OldTexts}
                    /\ pattern \in {t.pattern : t \in OldTexts}
                BY <2>1, <3>1 DEF Row
            <4>2. rules'[c.id] = [order |-> rules[c.id].order, type |-> type, kind |-> kind,
                                  pattern |-> pattern]
                BY <1>4, UpdatedRows
            <4> HIDE DEF type, kind, pattern
            <4> QED BY <4>1, <4>2
        <3> QED BY <3>1, <3>2 DEF Row
    <2>3. \A i \in DOMAIN rules : rules'[i] \in Row /\ rules'[i].order = rules[i].order
        BY <1>4, <2>2, UpdatedRows DEF RulesInv
    <2>4. DOMAIN rules' = DOMAIN rules
        BY <1>4, UpdatedRows
    <2> QED BY <1>1, <1>2, <2>3, <2>4 DEF RulesInv
<1>5. CASE c.op = "delete"
    BY <1>1, <1>2, <1>5 DEF Applied, Deleted, Drop, RulesInv
<1>6. CASE c.op = "reorder"
    <2>1. \A i \in DOMAIN c.order : c.order[i] \in 0..Limit
        BY <1>6 DEF RequestOK
    <2>2. \A i \in DOMAIN rules : rules'[i] \in Row /\ rules'[i].order \in 0..Limit
        <3> SUFFICES ASSUME NEW i \in DOMAIN rules
                     PROVE  rules'[i] \in Row /\ rules'[i].order \in 0..Limit
            OBVIOUS
        <3>1. rules[i] \in Row /\ rules[i].order \in 0..Limit
            BY DEF RulesInv
        <3>2. CASE rules'[i] = rules[i]
            BY <3>1, <3>2
        <3>3. CASE i \in DOMAIN c.order /\ rules'[i] = [rules[i] EXCEPT !.order = c.order[i]]
            <4>1. c.order[i] \in 0..Limit
                BY <2>1, <3>3
            <4> QED BY <1>2, <3>1, <3>3, <4>1 DEF Row
        <3> QED BY <1>6, <3>2, <3>3, ReorderedRows
    <2> QED BY <1>1, <1>2, <1>6, <2>2, ReorderedRows DEF RulesInv
<1>7. CASE c.op = "replace"
    <2>1. PICK n \in 0..MaxOld : c.texts \in [1..n -> OldTexts]
        BY <1>7 DEF RequestOK
    <2>2. n \in Nat /\ n <= MaxRules
        BY BoundsAssumption
    <2>3. PICK first \in 1..MaxRules :
                /\ DOMAIN rules' = (DOMAIN rules \ c.ids) \cup first..(first + n - 1)
                /\ first + n - 1 <= MaxRules
                /\ \A i \in DOMAIN rules \ c.ids : i < first /\ rules'[i] = rules[i]
                /\ \A i \in first..(first + n - 1) :
                        /\ i - first + 1 \in 1..n
                        /\ rules'[i] = RowOf(c.texts[i - first + 1], i - first)
        BY <1>7, <2>1, <2>2, ReplacedRows
    <2>4. ASSUME NEW i \in first..(first + n - 1)
          PROVE  rules'[i] \in Row /\ rules'[i].order \in 0..Limit'
        <3>1. c.texts[i - first + 1] \in OldTexts
            BY <2>1, <2>3
        <3>2. i - first \in 0..MaxRules
            <4>1. first \in Nat /\ i \in Int /\ first <= i /\ i <= first + n - 1
                BY <2>2
            <4> QED BY <1>2, <2>2, <4>1
        <3>3. rules'[i] = RowOf(c.texts[i - first + 1], i - first)
            BY <2>3
        <3> QED BY <1>2, <3>1, <3>2, <3>3 DEF RowOf, Row
    <2>5. first..(first + n - 1) \subseteq 1..MaxRules
        BY <1>2, <2>2, <2>3
    <2>6. ASSUME NEW i \in DOMAIN rules \ c.ids
          PROVE  rules'[i] \in Row /\ rules'[i].order \in 0..Limit'
        BY <1>2, <2>3 DEF RulesInv
    <2>7. DOMAIN rules' \subseteq 1..MaxRules
        BY <2>3, <2>5 DEF RulesInv
    <2> QED BY <1>1, <2>3, <2>4, <2>6, <2>7 DEF RulesInv
<1> QED BY <1>3, <1>4, <1>5, <1>6, <1>7 DEF Applied

\* What a request asks of the rows that its handler has read: the order it gives is the
\* order of those.
Fresh(c) ==
    /\ c.op = "create" => c.order = NextOrder
    /\ c.op = "replace" => c.ids = DOMAIN rules
    /\ c.op = "reorder" =>
        \E wanted \in [DOMAIN rules -> Int] :
            /\ IsInjective(wanted)
            /\ DOMAIN c.order = {i \in DOMAIN rules : wanted[i] # rules[i].order}
            /\ \A i \in DOMAIN c.order : c.order[i] = wanted[i]

Handlers == CreateRule \/ UpdateRule \/ DeleteRule \/ ReorderRules \/ ReplaceRulesRaw

LEMMA HandlerRequests ==
    ASSUME ServedInv, RulesInv, Handlers
    PROVE  \E c : RequestOK(c) /\ Fresh(c) /\ Passed(c)
<1>1. CASE CreateRule
    <2>1. PICK text \in Texts : Passed([op |-> "create", text |-> text, order |-> NextOrder])
        BY <1>1 DEF CreateRule
    <2> DEFINE c == [op |-> "create", text |-> text, order |-> NextOrder]
    <2>2. RequestOK(c) /\ Fresh(c)
        BY NextOrderAbove, TextsAssumption DEF RequestOK, Fresh
    <2> QED BY <2>1, <2>2
<1>2. CASE UpdateRule
    <2>1. PICK id \in DOMAIN rules, text \in Texts, columns \in SUBSET {"type", "pattern"} :
            Passed([op |-> "update", id |-> id, text |-> text, columns |-> columns])
        BY <1>2 DEF UpdateRule
    <2> DEFINE c == [op |-> "update", id |-> id, text |-> text, columns |-> columns]
    <2>2. RequestOK(c) /\ Fresh(c)
        BY TextsAssumption DEF RequestOK, Fresh
    <2> QED BY <2>1, <2>2
<1>3. CASE DeleteRule
    <2>1. PICK id \in DOMAIN rules : Passed([op |-> "delete", id |-> id])
        BY <1>3 DEF DeleteRule
    <2> DEFINE c == [op |-> "delete", id |-> id]
    <2>2. RequestOK(c) /\ Fresh(c)
        BY DEF RequestOK, Fresh
    <2> QED BY <2>1, <2>2
<1>4. CASE ReorderRules
    <2> DEFINE Differs(w) == {i \in DOMAIN rules : w[i] # rules[i].order}
               Request(w) == [op |-> "reorder", order |-> [i \in Differs(w) |-> w[i]]]
    <2>1. PICK wanted \in [DOMAIN rules -> 0..(MaxListed - 1)] :
            IsInjective(wanted) /\ Passed(Request(wanted))
        <3>1. PICK n \in 0..MaxListed : \E ids \in [1..n -> DOMAIN rules] :
                /\ Range(ids) = DOMAIN rules
                /\ Passed([op |-> "reorder",
                           order |-> [i \in {i \in DOMAIN rules : Place(ids, i) # rules[i].order}
                                        |-> Place(ids, i)]])
            BY <1>4 DEF ReorderRules
        <3>2. PICK ids \in [1..n -> DOMAIN rules] :
                /\ Range(ids) = DOMAIN rules
                /\ Passed([op |-> "reorder",
                           order |-> [i \in {i \in DOMAIN rules : Place(ids, i) # rules[i].order}
                                        |-> Place(ids, i)]])
            BY <3>1
        <3> DEFINE w == [i \in DOMAIN rules |-> Place(ids, i)]
        <3>3. w \in [DOMAIN rules -> 0..(MaxListed - 1)] /\ IsInjective(w)
            BY <3>2, Places
        <3>4. \A i \in DOMAIN rules : w[i] = Place(ids, i)
            OBVIOUS
        <3>5. Request(w) = [op |-> "reorder",
                            order |-> [i \in {i \in DOMAIN rules : Place(ids, i) # rules[i].order}
                                        |-> Place(ids, i)]]
            <4> HIDE DEF w
            <4>1. Differs(w) = {i \in DOMAIN rules : Place(ids, i) # rules[i].order}
                BY <3>4
            <4>2. [i \in Differs(w) |-> w[i]] =
                    [i \in {i \in DOMAIN rules : Place(ids, i) # rules[i].order} |-> Place(ids, i)]
                BY <3>4, <4>1
            <4> QED BY <4>2
        <3> QED BY <3>2, <3>3, <3>5
    <2>3. \A i \in DOMAIN rules : wanted[i] \in Int /\ wanted[i] \in 0..Limit
        BY BoundsAssumption DEF Limit, ServedInv
    <2> DEFINE c == Request(wanted)
    <2>4. c.op = "reorder" /\ DOMAIN c.order = Differs(wanted)
            /\ \A i \in DOMAIN c.order : c.order[i] = wanted[i]
        OBVIOUS
    <2>5. wanted \in [DOMAIN rules -> Int]
        BY <2>3
    <2>6. RequestOK(c)
        BY <2>3, <2>4 DEF RequestOK
    <2>7. Fresh(c)
        BY <2>1, <2>4, <2>5 DEF Fresh
    <2> QED BY <2>1, <2>6, <2>7
<1>5. CASE ReplaceRulesRaw
    <2>1. PICK n \in 0..MaxOld : \E texts \in [1..n -> Texts] :
            Passed([op |-> "replace", ids |-> DOMAIN rules, texts |-> texts])
        BY <1>5 DEF ReplaceRulesRaw
    <2>2. PICK texts \in [1..n -> Texts] :
            Passed([op |-> "replace", ids |-> DOMAIN rules, texts |-> texts])
        BY <2>1
    <2>3. texts \in [1..n -> OldTexts]
        BY TextsAssumption
    <2> DEFINE c == [op |-> "replace", ids |-> DOMAIN rules, texts |-> texts]
    <2>4. RequestOK(c) /\ Fresh(c)
        BY <2>3 DEF RequestOK, Fresh
    <2> QED BY <2>2, <2>4
<1> QED BY <1>1, <1>2, <1>3, <1>4, <1>5 DEF Handlers

\* Limits only grow, so that a request that waits stays within them.
LEMMA RequestStays ==
    ASSUME ServedInv, ServedInv', served'.count >= served.count, NEW c, RequestOK(c)
    PROVE  RequestOK(c)'
<1>1. Limit \in Nat /\ Limit' \in Nat /\ Limit <= Limit'
    BY BoundsAssumption DEF Limit, ServedInv
<1> QED BY <1>1 DEF RequestOK

LEMMA NextInv == IInv /\ [Next]_vars => IInv'
<1> SUFFICES ASSUME IInv, [Next]_vars PROVE IInv'
    OBVIOUS
<1> USE DEF IInv
<1>1. CASE UNCHANGED vars
    BY <1>1 DEF vars, ServedInv, RulesInv, RequestOK, Limit
<1>2. CASE CommitLate
    <2>1. PICK c : c = waiting
        OBVIOUS
    <2>2. Applied(c) /\ Serves(c, TRUE) /\ RequestOK(c) /\ waiting' = Nobody
        BY <1>2, <2>1 DEF CommitLate
    <2>3. ServedInv' /\ RulesInv'
        BY <2>2, AppliedKeeps
    <2> QED BY <2>2, <2>3 DEF RequestOK, Nobody
<1>3. CASE GiveUp
    BY <1>3 DEF GiveUp, ServedInv, RulesInv, RequestOK, Limit, Nobody
<1>4. CASE Handlers
    <2>1. PICK c : RequestOK(c) /\ Passed(c)
        BY <1>4, HandlerRequests
    <2>2. CASE Applied(c) /\ Serves(c, FALSE) /\ waiting' = waiting
        <3>1. ServedInv' /\ RulesInv'
            BY <2>1, <2>2, AppliedKeeps
        <3>2. served'.count >= served.count
            BY <2>2 DEF Serves, ServedInv
        <3>3. PICK w : w = waiting
            OBVIOUS
        <3>4. RequestOK(w)'
            BY <3>1, <3>2, <3>3, RequestStays
        <3> QED BY <2>2, <3>1, <3>3, <3>4
    <2>3. CASE waiting' = c /\ UNCHANGED <<rules, served>>
        <3>1. RequestOK(c)'
            BY <2>1, <2>3 DEF RequestOK, Limit
        <3> QED BY <2>3, <3>1 DEF ServedInv, RulesInv, Limit
    <2> QED BY <2>1, <2>2, <2>3 DEF Passed
<1> QED BY <1>1, <1>2, <1>3, <1>4 DEF Next, Handlers

(***************************************************************************)
(* The theorems.                                                           *)
(***************************************************************************)

\* The inductive invariant: rows have ids within the bound and orders that grow by one a
\* request at the most, and so has what a waiting request will write.
THEOREM SpecIInv == Spec => []IInv
<1> QED BY InitInv, NextInv, PTL DEF Spec

\* A commit whose request was not overtaken keeps the orders distinct.
LEMMA FreshKeepsOrder ==
    ASSUME ServedInv, RulesInv, OrdersDistinct, NEW c, RequestOK(c), Fresh(c), Applied(c)
    PROVE  OrdersDistinct'
<1>1. CASE c.op = "create"
    <2>1. PICK id \in 1..MaxRules :
                /\ DOMAIN rules' = DOMAIN rules \cup {id}
                /\ rules'[id] = RowOf(c.text, c.order)
                /\ \A i \in DOMAIN rules : rules'[i] = rules[i]
        BY <1>1, CreatedRows
    <2>2. rules'[id].order = NextOrder
        BY <1>1, <2>1 DEF Fresh, RowOf
    <2>3. \A i \in DOMAIN rules : rules'[i].order # rules'[id].order
        BY <2>1, <2>2, NextOrderAbove DEF RulesInv
    <2> QED BY <2>1, <2>3 DEF OrdersDistinct
<1>2. CASE c.op = "update"
    <2>1. ASSUME NEW i \in DOMAIN rules PROVE rules'[i].order = rules[i].order
        <3>1. CASE i = c.id
            <4> DEFINE type == IF "type" \in c.columns THEN c.text.type ELSE rules[c.id].type
                       kind == IF "pattern" \in c.columns THEN c.text.kind
                                                          ELSE rules[c.id].kind
                       pattern == IF "pattern" \in c.columns THEN c.text.pattern
                                                             ELSE rules[c.id].pattern
            <4>1. rules'[c.id] = [order |-> rules[c.id].order, type |-> type, kind |-> kind,
                                  pattern |-> pattern]
                BY <1>2, <3>1, UpdatedRows
            <4> HIDE DEF type, kind, pattern
            <4> QED BY <3>1, <4>1
        <3>2. CASE i # c.id
            BY <1>2, <3>2, UpdatedRows
        <3> QED BY <3>1, <3>2
    <2> QED BY <1>2, <2>1, UpdatedRows DEF OrdersDistinct
<1>3. CASE c.op = "delete"
    BY <1>3 DEF Applied, Deleted, Drop, OrdersDistinct
<1>4. CASE c.op = "reorder"
    <2>1. PICK wanted \in [DOMAIN rules -> Int] :
            /\ IsInjective(wanted)
            /\ DOMAIN c.order = {i \in DOMAIN rules : wanted[i] # rules[i].order}
            /\ \A i \in DOMAIN c.order : c.order[i] = wanted[i]
        BY <1>4 DEF Fresh
    <2>2. DOMAIN rules' = DOMAIN rules
        BY <1>4, ReorderedRows
    <2>3. CASE \A i \in DOMAIN rules : rules'[i] = rules[i]
        BY <2>2, <2>3 DEF OrdersDistinct
    <2>4. CASE \A i \in DOMAIN rules :
                rules'[i] = IF i \in DOMAIN c.order
                            THEN [rules[i] EXCEPT !.order = c.order[i]] ELSE rules[i]
        <3>1. ASSUME NEW i \in DOMAIN rules PROVE rules'[i].order = wanted[i]
            <4>1. rules[i] \in Row
                BY DEF RulesInv
            <4>2. CASE i \in DOMAIN c.order
                BY <2>1, <2>4, <4>1, <4>2 DEF Row
            <4>3. CASE i \notin DOMAIN c.order
                BY <2>1, <2>4, <4>3
            <4> QED BY <4>2, <4>3
        <3> QED BY <2>1, <2>2, <3>1 DEF OrdersDistinct, IsInjective
    <2> QED BY <1>4, <2>3, <2>4, ReorderedRows
<1>5. CASE c.op = "replace"
    <2>1. PICK n \in 0..MaxOld : c.texts \in [1..n -> OldTexts]
        BY <1>5 DEF RequestOK
    <2>2. n \in Nat
        BY BoundsAssumption
    <2>3. PICK first \in 1..MaxRules :
                /\ DOMAIN rules' = (DOMAIN rules \ c.ids) \cup first..(first + n - 1)
                /\ \A i \in first..(first + n - 1) :
                        rules'[i] = RowOf(c.texts[i - first + 1], i - first)
        BY <1>5, <2>1, <2>2, ReplacedRows
    <2>4. DOMAIN rules' = first..(first + n - 1)
        BY <1>5, <2>3 DEF Fresh
    <2>5. \A i \in first..(first + n - 1) : rules'[i].order = i - first
        <3>1. \A text, order : RowOf(text, order).order = order
            BY DEF RowOf
        <3> QED BY <2>3, <3>1
    <2>6. first \in Int
        OBVIOUS
    <2> QED BY <2>4, <2>5, <2>6 DEF OrdersDistinct
<1> QED BY <1>1, <1>2, <1>3, <1>4, <1>5 DEF Applied

\* Whatever was created, deleted, reordered and pasted before, a request that nobody
\* overtakes gives no two rules the same place, so that "last match wins" is defined.
THEOREM SpecOrdersStayDistinct == Spec => OrdersStayDistinct
<1>1. IInv /\ [Next]_vars => [OrdersDistinct => OrdersDistinct' \/ served'.late]_vars
    <2> SUFFICES ASSUME IInv, [Next]_vars, OrdersDistinct, ~served'.late
                 PROVE  OrdersDistinct' \/ UNCHANGED vars
        OBVIOUS
    <2>1. CASE UNCHANGED rules
        BY <2>1 DEF OrdersDistinct
    <2>2. CASE CommitLate
        BY <2>2 DEF CommitLate, Serves
    <2>3. CASE GiveUp
        BY <2>1, <2>3 DEF GiveUp
    <2>4. CASE Handlers
        <3>1. PICK c : RequestOK(c) /\ Fresh(c) /\ Passed(c)
            BY <2>4, HandlerRequests DEF IInv
        <3> QED BY <2>1, <3>1, FreshKeepsOrder DEF Passed, IInv
    <2> QED BY <2>1, <2>2, <2>3, <2>4 DEF Next, Handlers, vars
<1> QED BY <1>1, SpecIInv, PTL DEF Spec, OrdersStayDistinct

\* One row that is new, or turns from an include into an exclude, hides what it hides.
LEMMA ExcludeHides ==
    ASSUME NEW id, DOMAIN rules \subseteq DOMAIN rules',
           DOMAIN rules' \subseteq DOMAIN rules \cup {id},
           \A i \in DOMAIN rules : i # id => rules'[i] = rules[i],
           id \in DOMAIN rules' => rules'[id].type = "exclude",
           id \in DOMAIN rules => /\ rules'[id].order = rules[id].order
                                  /\ rules'[id].kind = rules[id].kind
                                  /\ rules'[id].pattern = rules[id].pattern
    PROVE  ShownFiles' \subseteq ShownFiles /\ ShownDirs' \subseteq ShownDirs
<1>1. \A i, j \in DOMAIN rules : Before(i, j)' <=> Before(i, j)
    BY DEF Before
<1>2. ASSUME NEW path \in Paths, IsVisible(path)' PROVE IsVisible(path)
    <2> DEFINE matching == {i \in DOMAIN rules : RuleMatches(rules[i], path)}
               matchingNow == {i \in DOMAIN rules' : RuleMatches(rules'[i], path)}
    <2>1. PICK last \in matchingNow :
            rules'[last].type = "include" /\ \A i \in matchingNow \ {last} : Before(i, last)'
        BY <1>2 DEF IsVisible
    <2>2. last # id /\ last \in DOMAIN rules /\ rules'[last] = rules[last]
        BY <2>1
    <2>3. last \in matching /\ rules[last].type = "include"
        BY <2>1, <2>2
    <2>4. matching \subseteq matchingNow
        <3>1. id \in matching => id \in matchingNow
            BY DEF RuleMatches
        <3> QED BY <3>1
    <2>5. \A i \in matching \ {last} : Before(i, last)
        BY <1>1, <2>1, <2>2, <2>4
    <2> QED BY <2>3, <2>5 DEF IsVisible
<1>3. ASSUME NEW dir \in Dirs, IsDirVisible(dir)' PROVE IsDirVisible(dir)
    <2>1. PICK i \in DOMAIN rules' :
            Opens(rules'[i], dir) /\ \A j \in DOMAIN rules' : Before(i, j)' => ~Closes(rules'[j], dir)
        BY <1>3 DEF IsDirVisible
    <2>2. i # id /\ i \in DOMAIN rules /\ rules'[i] = rules[i]
        BY <2>1 DEF Opens
    <2>3. ASSUME NEW j \in DOMAIN rules, Before(i, j) PROVE ~Closes(rules[j], dir)
        <3>1. ~Closes(rules'[j], dir)
            BY <1>1, <2>1, <2>2, <2>3
        <3> QED BY <3>1 DEF Closes
    <2> QED BY <2>1, <2>2, <2>3 DEF IsDirVisible
<1> QED BY <1>2, <1>3 DEF ShownFiles, ShownDirs

\* An exclude never opens anything: neither a file nor a directory is shown by adding
\* one, wherever a race puts it in the chain, nor by turning an include into one.
THEOREM SpecExcludesOnlyHide == Spec => ExcludesOnlyHide
<1>1. ASSUME IInv, NEW c, Applied(c), Excludes(c)
      PROVE  ShownFiles' \subseteq ShownFiles /\ ShownDirs' \subseteq ShownDirs
    <2>1. CASE c.op = "create"
        <3>1. PICK id \in 1..MaxRules :
                    /\ id \notin DOMAIN rules /\ DOMAIN rules' = DOMAIN rules \cup {id}
                    /\ rules'[id] = RowOf(c.text, c.order)
                    /\ \A i \in DOMAIN rules : rules'[i] = rules[i]
            BY <1>1, <2>1, CreatedRows DEF IInv
        <3>2. rules'[id].type = "exclude"
            BY <1>1, <3>1 DEF Excludes, RowOf
        <3> QED BY <3>1, <3>2, ExcludeHides
    <2>2. CASE c.op = "update" /\ c.columns = {"type"}
        <3>1. c.id \in DOMAIN rules =>
                /\ rules'[c.id].type = "exclude" /\ rules'[c.id].order = rules[c.id].order
                /\ rules'[c.id].kind = rules[c.id].kind
                /\ rules'[c.id].pattern = rules[c.id].pattern
            <4> SUFFICES ASSUME c.id \in DOMAIN rules
                         PROVE  /\ rules'[c.id].type = "exclude"
                                /\ rules'[c.id].order = rules[c.id].order
                                /\ rules'[c.id].kind = rules[c.id].kind
                                /\ rules'[c.id].pattern = rules[c.id].pattern
                OBVIOUS
            <4>1. "type" \in c.columns /\ "pattern" \notin c.columns
                BY <2>2
            <4>2. rules'[c.id] = [order |-> rules[c.id].order, type |-> c.text.type,
                                  kind |-> rules[c.id].kind, pattern |-> rules[c.id].pattern]
                BY <1>1, <2>2, <4>1, UpdatedRows
            <4>3. c.text.type = "exclude"
                BY <1>1 DEF Excludes
            <4> QED BY <4>2, <4>3
        <3>2. /\ DOMAIN rules' = DOMAIN rules
              /\ \A i \in DOMAIN rules : i # c.id => rules'[i] = rules[i]
            BY <1>1, <2>2, UpdatedRows
        <3>3. PICK id : id = c.id
            OBVIOUS
        <3> QED BY <3>1, <3>2, <3>3, ExcludeHides
    <2> QED BY <1>1, <2>1, <2>2 DEF Excludes
<1>2. IInv /\ [Next]_vars =>
        [served' # served /\ served'.excludes =>
            ShownFiles' \subseteq ShownFiles /\ ShownDirs' \subseteq ShownDirs]_vars
    <2> SUFFICES ASSUME IInv, [Next]_vars, served' # served, served'.excludes
                 PROVE  ShownFiles' \subseteq ShownFiles /\ ShownDirs' \subseteq ShownDirs
        OBVIOUS
    <2>1. ASSUME Handlers PROVE \E c : Applied(c) /\ Excludes(c)
        <3>1. PICK c : Passed(c)
            BY <2>1, HandlerRequests DEF IInv
        <3>2. Applied(c) /\ Serves(c, FALSE)
            BY <3>1 DEF Passed
        <3>3. Excludes(c)
            BY <3>2 DEF Serves
        <3> QED BY <3>2, <3>3
    <2>2. ASSUME CommitLate PROVE \E c : Applied(c) /\ Excludes(c)
        <3>1. PICK c : c = waiting
            OBVIOUS
        <3>2. Applied(c) /\ Serves(c, TRUE)
            BY <2>2, <3>1 DEF CommitLate
        <3>3. Excludes(c)
            BY <3>2 DEF Serves
        <3> QED BY <3>2, <3>3
    <2>3. PICK c : Applied(c) /\ Excludes(c)
        BY <2>1, <2>2 DEF Next, Handlers, GiveUp, vars
    <2> QED BY <1>1, <2>3
<1> QED BY <1>2, SpecIInv, PTL DEF Spec, ExcludesOnlyHide

(***************************************************************************)
(* Files and directories.                                                  *)
(***************************************************************************)

\* The kind and the pattern of a rule were asked for together.
PatternsInv ==
    \A i \in DOMAIN rules : \E t \in OldTexts :
        rules[i].kind = t.kind /\ rules[i].pattern = t.pattern

LEMMA AppliedPatterns ==
    ASSUME RulesInv, PatternsInv, NEW c, RequestOK(c), Applied(c)
    PROVE  PatternsInv'
<1>1. CASE c.op = "create"
    <2>1. PICK id \in 1..MaxRules :
                /\ DOMAIN rules' = DOMAIN rules \cup {id}
                /\ rules'[id] = RowOf(c.text, c.order)
                /\ \A i \in DOMAIN rules : rules'[i] = rules[i]
        BY <1>1, CreatedRows
    <2>2. c.text \in OldTexts
        BY <1>1 DEF RequestOK
    <2>3. rules'[id].kind = c.text.kind /\ rules'[id].pattern = c.text.pattern
        BY <2>1 DEF RowOf
    <2> QED BY <2>1, <2>2, <2>3 DEF PatternsInv
<1>2. CASE c.op = "update"
    <2>1. c.text \in OldTexts
        BY <1>2 DEF RequestOK
    <2>2. ASSUME c.id \in DOMAIN rules
          PROVE  \E t \in OldTexts :
                    rules'[c.id].kind = t.kind /\ rules'[c.id].pattern = t.pattern
        <3> DEFINE type == IF "type" \in c.columns THEN c.text.type ELSE rules[c.id].type
                   kind == IF "pattern" \in c.columns THEN c.text.kind
                                                      ELSE rules[c.id].kind
                   pattern == IF "pattern" \in c.columns THEN c.text.pattern
                                                         ELSE rules[c.id].pattern
        <3>1. rules'[c.id] = [order |-> rules[c.id].order, type |-> type, kind |-> kind,
                              pattern |-> pattern]
            BY <1>2, <2>2, UpdatedRows
        <3>2. \E t \in OldTexts : kind = t.kind /\ pattern = t.pattern
            BY <2>1, <2>2 DEF PatternsInv
        <3> HIDE DEF type, kind, pattern
        <3> QED BY <3>1, <3>2
    <2>3. /\ DOMAIN rules' = DOMAIN rules
          /\ \A i \in DOMAIN rules : i # c.id => rules'[i] = rules[i]
        BY <1>2, UpdatedRows
    <2>4. ASSUME NEW i \in DOMAIN rules'
          PROVE  \E t \in OldTexts : rules'[i].kind = t.kind /\ rules'[i].pattern = t.pattern
        BY <2>2, <2>3, <2>4 DEF PatternsInv
    <2> QED BY <2>4 DEF PatternsInv
<1>3. CASE c.op = "delete"
    BY <1>3 DEF Applied, Deleted, Drop, PatternsInv
<1>4. CASE c.op = "reorder"
    <2>1. ASSUME NEW i \in DOMAIN rules
          PROVE  rules'[i].kind = rules[i].kind /\ rules'[i].pattern = rules[i].pattern
        <3>1. rules[i] \in Row
            BY DEF RulesInv
        <3>2. \/ rules'[i] = rules[i]
              \/ rules'[i] = [rules[i] EXCEPT !.order = c.order[i]]
            BY <1>4, ReorderedRows
        <3> QED BY <3>1, <3>2 DEF Row
    <2> QED BY <1>4, <2>1, ReorderedRows DEF PatternsInv
<1>5. CASE c.op = "replace"
    <2>1. PICK n \in 0..MaxOld : c.texts \in [1..n -> OldTexts]
        BY <1>5 DEF RequestOK
    <2>2. n \in Nat
        BY BoundsAssumption
    <2>3. PICK first \in 1..MaxRules :
                /\ DOMAIN rules' = (DOMAIN rules \ c.ids) \cup first..(first + n - 1)
                /\ \A i \in DOMAIN rules \ c.ids : rules'[i] = rules[i]
                /\ \A i \in first..(first + n - 1) :
                        /\ i - first + 1 \in 1..n
                        /\ rules'[i] = RowOf(c.texts[i - first + 1], i - first)
        <3>1. /\ c.op = "replace" /\ Applied(c) /\ RulesInv
              /\ n \in Nat /\ c.texts \in [1..n -> OldTexts]
            BY <1>5, <2>1, <2>2
        <3>2. PICK first \in 1..MaxRules :
                /\ DOMAIN rules' = (DOMAIN rules \ c.ids) \cup first..(first + n - 1)
                /\ first + n - 1 <= MaxRules
                /\ \A i \in DOMAIN rules \ c.ids : i < first /\ rules'[i] = rules[i]
                /\ \A i \in first..(first + n - 1) :
                        /\ i - first + 1 \in 1..n
                        /\ rules'[i] = RowOf(c.texts[i - first + 1], i - first)
            BY <3>1, ReplacedRows, Zenon
        <3> QED BY <3>2
    <2>4. ASSUME NEW i \in first..(first + n - 1)
          PROVE  \E t \in OldTexts : rules'[i].kind = t.kind /\ rules'[i].pattern = t.pattern
        <3> DEFINE m == i - first + 1
        <3>3. m \in 1..n
            BY <2>3
        <3> HIDE DEF m
        <3>4. c.texts[m] \in OldTexts
            BY <2>1, <3>3
        <3>1. PICK t \in OldTexts : t = c.texts[i - first + 1]
            BY <3>4 DEF m
        <3>2. rules'[i] = RowOf(t, i - first)
            BY <2>3, <3>1
        <3> QED BY <3>2 DEF RowOf
    <2> QED BY <2>3, <2>4 DEF PatternsInv
<1> QED BY <1>1, <1>2, <1>3, <1>4, <1>5 DEF Applied

THEOREM SpecPatternsInv == Spec => []PatternsInv
<1>1. Init => PatternsInv
    <2> SUFFICES ASSUME Init PROVE PatternsInv
        OBVIOUS
    <2>1. PICK n \in 0..MaxOld : \E texts \in [1..n -> OldTexts] :
                rules = [i \in 1..n |-> RowOf(texts[i], i - 1)]
        BY DEF Init
    <2>2. PICK texts \in [1..n -> OldTexts] : rules = [i \in 1..n |-> RowOf(texts[i], i - 1)]
        BY <2>1
    <2> QED BY <2>2 DEF RowOf, PatternsInv
<1>2. IInv /\ PatternsInv /\ [Next]_vars => PatternsInv'
    <2> SUFFICES ASSUME IInv, PatternsInv, [Next]_vars PROVE PatternsInv'
        OBVIOUS
    <2>1. CASE UNCHANGED rules
        BY <2>1 DEF PatternsInv
    <2>2. CASE CommitLate
        <3>1. PICK c : c = waiting
            OBVIOUS
        <3>2. Applied(c) /\ RequestOK(c)
            BY <2>2, <3>1 DEF CommitLate, IInv
        <3> QED BY <3>2, AppliedPatterns DEF IInv
    <2>3. CASE GiveUp
        BY <2>1, <2>3 DEF GiveUp
    <2>4. CASE Handlers
        <3>1. PICK c : RequestOK(c) /\ Passed(c)
            BY <2>4, HandlerRequests DEF IInv
        <3> QED BY <2>1, <3>1, AppliedPatterns DEF Passed, IInv
    <2> QED BY <2>1, <2>2, <2>3, <2>4 DEF Next, Handlers, vars
<1> QED BY <1>1, <1>2, SpecIInv, PTL DEF Spec

\* A rule's pattern is among those whose answers are kept.
LEMMA GlobFacts ==
    ASSUME PatternsInv, NEW i \in DOMAIN rules
    PROVE  /\ rules[i].kind \in {"glob", "regex"}
           /\ rules[i].kind = "glob" =>
                /\ rules[i].pattern \in Patterns
                /\ \A p \in Paths : p \in Matched[rules[i].pattern]
                                        <=> GlobMatches(rules[i].pattern, p)
                /\ \A d \in Dirs : d \in Reaching[rules[i].pattern]
                                        <=> CouldMatchBelow(rules[i].pattern, d)
                /\ \A d \in Dirs : d \in Covering[rules[i].pattern]
                                        <=> CoversEverythingBelow(rules[i].pattern, d)
<1>1. PICK t \in OldTexts : rules[i].kind = t.kind /\ rules[i].pattern = t.pattern
    BY DEF PatternsInv
<1>2. ASSUME t.kind = "glob" PROVE t.pattern \in Patterns /\ t.pattern \in Globs
    BY <1>2, GlobsAssumption DEF Patterns, Globs
<1>3. ASSUME NEW g \in Globs
      PROVE  /\ Matched[g] = {p \in Paths : GlobMatches(g, p)}
             /\ Reaching[g] = {d \in Dirs : CouldMatchBelow(g, d)}
             /\ Covering[g] = {d \in Dirs : CoversEverythingBelow(g, d)}
    BY DEF Matched, Reaching, Covering
<1>4. t.kind \in {"glob", "regex"}
    BY GlobsAssumption
<1> QED BY <1>1, <1>2, <1>3, <1>4

\* The order of evaluation is one, whatever orders rules share.
LEMMA BeforeIsTotal ==
    ASSUME RulesInv, NEW i \in DOMAIN rules, NEW j \in DOMAIN rules
    PROVE  /\ ~(Before(i, j) /\ Before(j, i))
           /\ i # j => Before(i, j) \/ Before(j, i)
<1>1. i \in Int /\ j \in Int /\ rules[i].order \in Int /\ rules[j].order \in Int
    BY DEF RulesInv
<1> QED BY <1>1 DEF Before

\* Each directory above a path is one, and the path is below it.
LEMMA Ancestor ==
    ASSUME NEW path \in Paths, NEW k \in 1..(Len(path) - 1)
    PROVE  SubSeq(path, 1, k) \in Dirs /\ path \in Below[SubSeq(path, 1, k)]
<1> DEFINE dir == SubSeq(path, 1, k)
<1>1. Len(path) \in 1..MaxDepth /\ path \in [1..Len(path) -> Names] /\ k \in 0..Len(path)
        /\ MaxDepth \in Nat
    <2>1. Len(path) \in 1..MaxDepth /\ path \in [1..Len(path) -> Names]
        BY PathFacts
    <2> QED BY <2>1, BoundsAssumption
<1>2. Len(dir) = k /\ k \in 1..MaxDepth /\ k < MaxDepth /\ k < Len(path)
    BY <1>1, PathFacts
<1>3. dir \in [1..k -> Names]
    <2>1. path \in Seq(Names) /\ k <= Len(path) /\ k \in Nat
        BY <1>1
    <2>2. dir \in Seq(Names)
        BY <2>1
    <2> HIDE DEF dir
    <2> QED BY <1>2, <2>2
<1>4. dir \in Paths
    BY <1>2, <1>3 DEF Paths
<1>5. dir \in Dirs
    BY <1>2, <1>4 DEF Dirs
<1> QED BY <1>2, <1>5 DEF Below

\* Every directory has a child, as long as the depth is not at its bound.
LEMMA Child ==
    ASSUME NEW dir \in Dirs
    PROVE  \E path \in Below[dir] : Len(path) = Len(dir) + 1
<1> DEFINE n == Len(dir)
           path == [i \in 1..(n + 1) |-> IF i <= n THEN dir[i] ELSE dir[1]]
<1>1. dir \in Paths /\ n < MaxDepth
    BY DEF Dirs
<1>2. n \in 1..MaxDepth /\ dir \in [1..n -> Names] /\ MaxDepth \in Nat
    <2>1. 0 \in 0..Len(dir)
        BY <1>1 DEF Paths
    <2> QED BY <1>1, <2>1, PathFacts, BoundsAssumption
<1>3. path \in [1..(n + 1) -> Names] /\ n + 1 \in 1..MaxDepth /\ Len(path) = n + 1
    BY <1>1, <1>2
<1>4. path \in Paths
    <2> HIDE DEF path
    <2> QED BY <1>3 DEF Paths
<1>5. \A i \in 1..n : path[i] = dir[i]
    BY <1>2
<1> HIDE DEF path
<1>6. SubSeq(path, 1, n) = dir
    <2>1. n \in 0..Len(path) /\ path \in Seq(Names) /\ n \in Nat
        BY <1>2, <1>3
    <2>2. /\ SubSeq(path, 1, n) \in Seq(Names) /\ Len(SubSeq(path, 1, n)) = n
          /\ \A i \in 1..n : SubSeq(path, 1, n)[i] = path[i]
        BY <1>4, <2>1, PathFacts
    <2>3. dir \in Seq(Names) /\ Len(dir) = n
        BY <1>2
    <2> DEFINE prefix == SubSeq(path, 1, n)
    <2> HIDE DEF prefix, n
    <2>4. prefix \in Seq(Names) /\ Len(prefix) = n /\ \A i \in 1..n : prefix[i] = dir[i]
        BY <1>5, <2>2 DEF prefix
    <2>5. prefix = dir
        BY <2>3, <2>4
    <2> QED BY <2>5 DEF prefix
<1> QED BY <1>3, <1>4, <1>6 DEF Below

\* Each directory above a file that is shown is shown: the include that decides for the
\* file opens the directory, and an exclude that came after it and closed the directory
\* would match the file too.
THEOREM SpecWayToEveryFile == Spec => []WayToEveryFile
<1>1. IInv /\ PatternsInv => WayToEveryFile
    <2> SUFFICES ASSUME RulesInv, PatternsInv, NEW p \in ShownFiles, NEW k \in 1..(Len(p) - 1)
                 PROVE  SubSeq(p, 1, k) \in ShownDirs
        BY DEF IInv, WayToEveryFile
    <2> DEFINE dir == SubSeq(p, 1, k)
               matching == {i \in DOMAIN rules : RuleMatches(rules[i], p)}
    <2>1. p \in Paths /\ IsVisible(p)
        BY DEF ShownFiles
    <2>2. dir \in Dirs /\ p \in Below[dir]
        BY <2>1, Ancestor
    <2>3. PICK last \in matching :
            rules[last].type = "include" /\ \A i \in matching \ {last} : Before(i, last)
        BY <2>1 DEF IsVisible
    <2>4. Opens(rules[last], dir)
        <3>1. CASE rules[last].kind = "glob"
            <4>1. GlobMatches(rules[last].pattern, p)
                BY <2>1, <2>3, <3>1, GlobFacts DEF RuleMatches
            <4>2. CouldMatchBelow(rules[last].pattern, dir)
                BY <2>1, <2>3, <3>1, <4>1, GlobFacts, MatchedIsReached
            <4> HIDE DEF dir
            <4> QED BY <2>2, <2>3, <3>1, <4>2, GlobFacts DEF Opens
        <3>2. CASE rules[last].kind = "regex"
            BY <2>3, <3>2 DEF Opens
        <3> QED BY <2>3, <3>1, <3>2, GlobFacts
    <2> HIDE DEF dir
    <2>5. ASSUME NEW j \in DOMAIN rules, Before(last, j), Closes(rules[j], dir) PROVE FALSE
        <3>1. rules[j].type = "exclude" /\ rules[j].kind = "glob"
            BY <2>5 DEF Closes
        <3>2. CoversEverythingBelow(rules[j].pattern, dir)
            BY <2>2, <2>5, <3>1, GlobFacts DEF Closes
        <3>3. GlobMatches(rules[j].pattern, p)
            BY <2>2, <2>5, <3>1, <3>2, GlobFacts, CoveredIsMatched
        <3>4. j \in matching
            BY <2>1, <2>5, <3>1, <3>3, GlobFacts DEF RuleMatches
        <3>5. j # last
            BY <2>3, <3>1
        <3> QED BY <2>3, <2>5, <3>4, <3>5, BeforeIsTotal
    <2>6. IsDirVisible(dir)
        BY <2>3, <2>4, <2>5 DEF IsDirVisible
    <2> QED BY <2>2, <2>6 DEF ShownDirs, dir
<1> QED BY <1>1, SpecIInv, SpecPatternsInv, PTL

\* Where an exclude such as "folder/**" comes after all includes and matches everything
\* below a directory, the walk over the directory itself finds that it does: neither the
\* directory nor anything in it is shown.
THEOREM SpecHiddenReliably == Spec => []HiddenReliably
<1>1. IInv /\ PatternsInv => HiddenReliably
    <2> SUFFICES ASSUME RulesInv, PatternsInv, NEW i \in DOMAIN rules,
                        rules[i].type = "exclude", rules[i].kind = "glob",
                        \A j \in DOMAIN rules : Before(i, j) => rules[j].type = "exclude",
                        NEW dir \in Dirs, Everything(rules[i].pattern, dir)
                 PROVE  ~IsDirVisible(dir) /\ \A p \in Below[dir] : ~IsVisible(p)
        BY DEF IInv, HiddenReliably
    <2>1. Below[dir] \subseteq Paths
        BY DEF Below
    <2>2. \A p \in Below[dir] : GlobMatches(rules[i].pattern, p)
        BY <2>1, GlobFacts DEF Everything
    <2>3. Closes(rules[i], dir)
        <3>1. PICK p \in Below[dir] : Len(p) = Len(dir) + 1
            BY Child
        <3>2. CoversEverythingBelow(rules[i].pattern, dir)
            BY <2>2, <3>1, GlobFacts, MatchedIsCovered DEF Everything
        <3> QED BY <3>2, GlobFacts DEF Closes
    <2>4. ASSUME IsDirVisible(dir) PROVE FALSE
        <3>1. PICK m \in DOMAIN rules :
                /\ rules[m].type = "include"
                /\ \A j \in DOMAIN rules : Before(m, j) => ~Closes(rules[j], dir)
            BY <2>4 DEF IsDirVisible, Opens
        <3>2. m # i /\ ~Before(i, m)
            BY <3>1
        <3> QED BY <2>3, <3>1, <3>2, BeforeIsTotal
    <2>5. ASSUME NEW p \in Below[dir], IsVisible(p) PROVE FALSE
        <3> DEFINE matching == {j \in DOMAIN rules : RuleMatches(rules[j], p)}
        <3>1. PICK last \in matching :
                rules[last].type = "include" /\ \A j \in matching \ {last} : Before(j, last)
            BY <2>5 DEF IsVisible
        <3>2. i \in matching
            BY <2>1, <2>2, <2>5, GlobFacts DEF RuleMatches
        <3>3. Before(i, last)
            BY <3>1, <3>2
        <3> QED BY <3>1, <3>3
    <2> QED BY <2>4, <2>5
<1> QED BY <1>1, SpecIInv, SpecPatternsInv, PTL
=============================================================================
