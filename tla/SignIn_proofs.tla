--------------------------- MODULE SignIn_proofs ---------------------------
(***************************************************************************)
(* The lockout table on its own, and then signing in over it.  The table   *)
(* is bounded and no other name's attempts take a live entry out of it;    *)
(* no old session and, but for overtaken changes, no unconfirmed secret    *)
(* counts: for any names, requests, tokens, sizes, limits and windows.     *)
(***************************************************************************)
EXTENDS SignIn, FiniteSetTheorems, TLAPS

(***************************************************************************)
(* Lemmas about the operators on the table.                                *)
(***************************************************************************)

\* _prune and _has_room remove entries and change none; a live entry stays.
LEMMA MadeRoomKeeps ==
    ASSUME NEW table
    PROVE  /\ DOMAIN MadeRoom(table) \subseteq DOMAIN table
           /\ \A n \in DOMAIN MadeRoom(table) : MadeRoom(table)[n] = table[n]
           /\ \A n \in DOMAIN table :
                ~IsIdle(table[n]) => n \in DOMAIN MadeRoom(table)
<1>1. CASE Cardinality(DOMAIN table) < MaxTracked
    BY <1>1 DEF MadeRoom
<1>2. CASE ~(Cardinality(DOMAIN table) < MaxTracked)
    BY <1>2 DEF MadeRoom, Prune, Only
<1> QED BY <1>1, <1>2

\* What an action leaves of a table whose entries all have their type.
LEMMA EntryTyped ==
    ASSUME now \in Nat, NEW failures \in Nat, NEW until \in Nat \cup {NoLock}
    PROVE  /\ Failed(failures, until) \in AttemptState
           /\ Failed(failures, until).failures = failures + 1
           /\ Failed(failures, until).lockedUntil \in {until, now + Window}
BY ThrottleAssumption DEF Failed, AttemptState, NoLock

(***************************************************************************)
(* The types.                                                              *)
(***************************************************************************)

\* Every lock was set at most one window ago.
TypeInv ==
    /\ ThrottleTypeOK
    /\ \A n \in DOMAIN throttle : throttle[n].lockedUntil <= now + Window

LEMMA TypeStep ==
    ASSUME TypeInv, [ThrottleNext]_throttleVars
    PROVE  TypeInv'
<1> USE ThrottleAssumption
<1>1. CASE UNCHANGED throttleVars
    BY <1>1 DEF TypeInv, ThrottleTypeOK, throttleVars
<1>2. CASE Tick
    BY <1>2 DEF Tick, TypeInv, ThrottleTypeOK, AttemptState, NoLock
<1>3. ASSUME NEW n \in Names, CheckAttempt(n)
      PROVE  TypeInv'
    BY <1>3, MadeRoomKeeps DEF CheckAttempt, Only, TypeInv, ThrottleTypeOK
<1>4. ASSUME NEW n \in Names, RecordFailure(n)
      PROVE  TypeInv'
    <2> DEFINE rest == IF n \in DOMAIN throttle THEN Only(throttle, DOMAIN throttle \ {n})
                       ELSE throttle
    <2>1. /\ DOMAIN rest \subseteq DOMAIN throttle
          /\ \A m \in DOMAIN rest : rest[m] = throttle[m]
        BY DEF Only
    <2>2. CASE n \in DOMAIN throttle /\ ~IsIdle(throttle[n])
        <3>1. throttle[n] \in AttemptState
            BY <2>2 DEF TypeInv, ThrottleTypeOK
        <3>2. /\ Failed(throttle[n].failures, throttle[n].lockedUntil) \in AttemptState
              /\ Failed(throttle[n].failures, throttle[n].lockedUntil).lockedUntil
                    <= now + Window
            <4>1. /\ throttle[n].failures \in Nat
                  /\ throttle[n].lockedUntil \in Nat \cup {NoLock}
                  /\ throttle[n].lockedUntil <= now + Window
                  /\ now \in Nat
                BY <3>1, <2>2 DEF AttemptState, TypeInv, ThrottleTypeOK
            <4>2. now + Window <= now + Window
                BY <4>1
            <4> QED BY <4>1, <4>2, EntryTyped
        <3>3. throttle' = [throttle EXCEPT ![n] = Failed(@.failures, @.lockedUntil)]
            BY <1>4, <2>2 DEF RecordFailure
        <3> QED BY <1>4, <2>2, <3>2, <3>3 DEF TypeInv, ThrottleTypeOK, RecordFailure
    <2>3. CASE ~(n \in DOMAIN throttle /\ ~IsIdle(throttle[n])) /\ ~HasRoom(rest)
        <3>1. throttle' = MadeRoom(rest) /\ now' = now
            BY <1>4, <2>3 DEF RecordFailure
        <3> HIDE DEF rest
        <3> QED BY <3>1, <2>1, MadeRoomKeeps DEF TypeInv, ThrottleTypeOK
    <2>4. CASE ~(n \in DOMAIN throttle /\ ~IsIdle(throttle[n])) /\ HasRoom(rest)
        <3>1. /\ throttle' = [m \in DOMAIN MadeRoom(rest) \cup {n} |->
                    IF m = n THEN Failed(0, NoLock) ELSE MadeRoom(rest)[m]]
              /\ now' = now
            BY <1>4, <2>4 DEF RecordFailure
        <3>2. /\ Failed(0, NoLock) \in AttemptState
              /\ Failed(0, NoLock).lockedUntil <= now + Window
            BY EntryTyped DEF TypeInv, ThrottleTypeOK, NoLock
        <3> HIDE DEF rest
        <3> QED BY <3>1, <3>2, <2>1, MadeRoomKeeps DEF TypeInv, ThrottleTypeOK
    <2> QED BY <2>2, <2>3, <2>4
<1>5. ASSUME NEW n \in Names, RecordSuccess(n)
      PROVE  TypeInv'
    BY <1>5 DEF RecordSuccess, Only, TypeInv, ThrottleTypeOK
<1> QED BY <1>1, <1>2, <1>3, <1>4, <1>5 DEF ThrottleNext

\* Every variable keeps its type.
THEOREM ThrottleSpecTypeOK == ThrottleSpec => []ThrottleTypeOK
<1>1. ThrottleInit => TypeInv
    BY DEF ThrottleInit, TypeInv, ThrottleTypeOK
<1>2. TypeInv => ThrottleTypeOK
    BY DEF TypeInv
<1> QED BY <1>1, <1>2, TypeStep, PTL DEF ThrottleSpec

(***************************************************************************)
(* The bound.                                                              *)
(***************************************************************************)

BoundInv == IsFiniteSet(DOMAIN throttle) /\ TableBounded

LEMMA SmallerTable ==
    ASSUME BoundInv, NEW table, DOMAIN table \subseteq DOMAIN throttle
    PROVE  /\ IsFiniteSet(DOMAIN table)
           /\ Cardinality(DOMAIN table) \in Nat
           /\ Cardinality(DOMAIN table) <= MaxTracked
<1>1. /\ IsFiniteSet(DOMAIN table)
      /\ Cardinality(DOMAIN table) <= Cardinality(DOMAIN throttle)
    BY FS_Subset DEF BoundInv
<1>2. Cardinality(DOMAIN table) \in Nat /\ Cardinality(DOMAIN throttle) \in Nat
    BY <1>1, FS_CardinalityType DEF BoundInv
<1> QED BY <1>1, <1>2, ThrottleAssumption DEF BoundInv, TableBounded

LEMMA BoundStep ==
    ASSUME BoundInv, [ThrottleNext]_throttleVars
    PROVE  BoundInv'
<1>1. CASE UNCHANGED throttleVars \/ Tick
    BY <1>1 DEF BoundInv, TableBounded, throttleVars, Tick
<1>2. ASSUME NEW n \in Names, CheckAttempt(n)
      PROVE  BoundInv'
    <2>1. DOMAIN throttle' \subseteq DOMAIN throttle
        BY <1>2, MadeRoomKeeps DEF CheckAttempt, Only
    <2> QED BY <2>1, SmallerTable DEF BoundInv, TableBounded
<1>3. ASSUME NEW n \in Names, RecordFailure(n)
      PROVE  BoundInv'
    <2> DEFINE rest == IF n \in DOMAIN throttle THEN Only(throttle, DOMAIN throttle \ {n})
                       ELSE throttle
    <2>1. DOMAIN rest \subseteq DOMAIN throttle
        BY DEF Only
    <2>2. CASE n \in DOMAIN throttle /\ ~IsIdle(throttle[n])
        <3>1. DOMAIN throttle' = DOMAIN throttle
            BY <1>3, <2>2 DEF RecordFailure
        <3> QED BY <3>1 DEF BoundInv, TableBounded
    <2>3. CASE ~(n \in DOMAIN throttle /\ ~IsIdle(throttle[n])) /\ ~HasRoom(rest)
        <3>1. throttle' = MadeRoom(rest)
            BY <1>3, <2>3 DEF RecordFailure
        <3> HIDE DEF rest
        <3>2. DOMAIN throttle' \subseteq DOMAIN throttle
            BY <3>1, <2>1, MadeRoomKeeps
        <3> QED BY <3>2, SmallerTable DEF BoundInv, TableBounded
    <2>4. CASE ~(n \in DOMAIN throttle /\ ~IsIdle(throttle[n])) /\ HasRoom(rest)
        <3>1. DOMAIN throttle' = DOMAIN MadeRoom(rest) \cup {n}
            BY <1>3, <2>4 DEF RecordFailure
        <3>2. Cardinality(DOMAIN MadeRoom(rest)) < MaxTracked
            BY <2>4 DEF HasRoom
        <3> HIDE DEF rest
        <3>3. DOMAIN MadeRoom(rest) \subseteq DOMAIN throttle
            BY <2>1, MadeRoomKeeps
        <3>4. /\ IsFiniteSet(DOMAIN MadeRoom(rest))
              /\ Cardinality(DOMAIN MadeRoom(rest)) \in Nat
            BY <3>3, SmallerTable
        <3>5. /\ IsFiniteSet(DOMAIN throttle')
              /\ Cardinality(DOMAIN throttle') <= Cardinality(DOMAIN MadeRoom(rest)) + 1
            BY <3>1, <3>4, FS_AddElement
        <3>6. Cardinality(DOMAIN throttle') \in Nat
            BY <3>5, FS_CardinalityType
        <3> QED BY <3>2, <3>4, <3>5, <3>6, ThrottleAssumption DEF BoundInv, TableBounded
    <2> QED BY <2>2, <2>3, <2>4
<1>4. ASSUME NEW n \in Names, RecordSuccess(n)
      PROVE  BoundInv'
    <2>1. DOMAIN throttle' \subseteq DOMAIN throttle
        BY <1>4 DEF RecordSuccess, Only
    <2> QED BY <2>1, SmallerTable DEF BoundInv, TableBounded
<1> QED BY <1>1, <1>2, <1>3, <1>4 DEF ThrottleNext

\* However many names are tried, the table never holds more than MaxTracked of them.
THEOREM ThrottleSpecBounded == ThrottleSpec => []TableBounded
<1>1. ThrottleInit => BoundInv
    BY FS_EmptySet, ThrottleAssumption DEF ThrottleInit, BoundInv, TableBounded
<1>2. BoundInv => TableBounded
    BY DEF BoundInv
<1> QED BY <1>1, <1>2, BoundStep, PTL DEF ThrottleSpec

(***************************************************************************)
(* No eviction.                                                            *)
(***************************************************************************)

\* A live entry of any name survives every step but a success of that name, and no
\* step takes a failure off its count or shortens its lock.
THEOREM ThrottleSpecNeverEvicted == ThrottleSpec => NeverEvicted
<1> DEFINE Survives(n) ==
        /\ n \in DOMAIN throttle'
        /\ throttle'[n].failures >= throttle[n].failures
        /\ throttle'[n].lockedUntil >= throttle[n].lockedUntil
<1>1. ASSUME TypeInv, ThrottleNext, NEW n \in Names, Live(n), ~RecordSuccess(n)
      PROVE  Survives(n)
    <2>0. /\ throttle[n] \in AttemptState /\ n \in DOMAIN throttle
          /\ throttle[n].failures \in Nat
          /\ throttle[n].lockedUntil \in Nat \cup {NoLock}
          /\ throttle[n].lockedUntil \in Int
          /\ throttle[n].lockedUntil <= now + Window
          /\ now \in Nat
        BY <1>1 DEF Live, TypeInv, ThrottleTypeOK, AttemptState, NoLock
    <2>1. ASSUME n \in DOMAIN throttle', throttle'[n] = throttle[n]
          PROVE  Survives(n)
        BY <2>0, <2>1
    <2>2. CASE Tick
        BY <2>2, <2>1, <2>0 DEF Tick
    <2>3. ASSUME NEW m \in Names, CheckAttempt(m)
          PROVE  Survives(n)
        <3>1. CASE m \notin DOMAIN throttle
            <4>1. throttle' = MadeRoom(throttle)
                BY <2>3, <3>1 DEF CheckAttempt
            <4> QED BY <4>1, <2>1, <1>1, MadeRoomKeeps DEF Live
        <3>2. CASE m \in DOMAIN throttle /\ throttle[m].lockedUntil # NoLock
                        /\ throttle[m].lockedUntil <= now
            <4>1. m # n
                BY <3>2, <1>1 DEF Live, IsIdle
            <4> QED BY <2>3, <3>2, <4>1, <2>0, <2>1 DEF CheckAttempt, Only
        <3>3. CASE m \in DOMAIN throttle /\ ~(throttle[m].lockedUntil # NoLock
                        /\ throttle[m].lockedUntil <= now)
            BY <2>3, <3>3, <2>0, <2>1 DEF CheckAttempt
        <3> QED BY <3>1, <3>2, <3>3
    <2>4. ASSUME NEW m \in Names, RecordFailure(m)
          PROVE  Survives(n)
        <3> DEFINE rest == IF m \in DOMAIN throttle
                           THEN Only(throttle, DOMAIN throttle \ {m}) ELSE throttle
        <3>1. CASE m = n
            <4>1. throttle' = [throttle EXCEPT ![n] = Failed(@.failures, @.lockedUntil)]
                BY <2>4, <3>1, <1>1 DEF RecordFailure, Live
            <4>2. throttle'[n] = Failed(throttle[n].failures, throttle[n].lockedUntil)
                BY <4>1, <2>0
            <4>3. /\ throttle'[n].failures = throttle[n].failures + 1
                  /\ throttle'[n].lockedUntil \in {throttle[n].lockedUntil, now + Window}
                BY <4>2, <2>0, EntryTyped
            <4> QED BY <4>1, <4>3, <2>0, ThrottleAssumption
        <3>2. CASE m # n
            <4>1. n \in DOMAIN rest /\ rest[n] = throttle[n]
                BY <3>2, <2>0 DEF Only
            <4>2. CASE m \in DOMAIN throttle /\ ~IsIdle(throttle[m])
                BY <4>2, <2>4, <3>2, <2>0, <2>1 DEF RecordFailure
            <4>3. CASE ~(m \in DOMAIN throttle /\ ~IsIdle(throttle[m])) /\ ~HasRoom(rest)
                <5>1. throttle' = MadeRoom(rest)
                    BY <2>4, <4>3 DEF RecordFailure
                <5>2. ~IsIdle(rest[n])
                    BY <4>1, <1>1 DEF Live
                <5> HIDE DEF rest
                <5> QED BY <5>1, <5>2, <4>1, <2>1, MadeRoomKeeps
            <4>4. CASE ~(m \in DOMAIN throttle /\ ~IsIdle(throttle[m])) /\ HasRoom(rest)
                <5>1. throttle' = [k \in DOMAIN MadeRoom(rest) \cup {m} |->
                            IF k = m THEN Failed(0, NoLock) ELSE MadeRoom(rest)[k]]
                    BY <2>4, <4>4 DEF RecordFailure
                <5>2. ~IsIdle(rest[n])
                    BY <4>1, <1>1 DEF Live
                <5> HIDE DEF rest
                <5>3. n \in DOMAIN MadeRoom(rest) /\ MadeRoom(rest)[n] = throttle[n]
                    BY <5>2, <4>1, MadeRoomKeeps
                <5> QED BY <5>1, <5>3, <3>2, <2>1
            <4> QED BY <4>2, <4>3, <4>4
        <3> QED BY <3>1, <3>2
    <2>5. ASSUME NEW m \in Names, RecordSuccess(m)
          PROVE  Survives(n)
        <3>1. m # n
            BY <2>5, <1>1
        <3> QED BY <2>5, <3>1, <2>0, <2>1 DEF RecordSuccess, Only
    <2> QED BY <1>1, <2>2, <2>3, <2>4, <2>5 DEF ThrottleNext
<1>2. TypeInv /\ [ThrottleNext]_throttleVars =>
        [\A n \in Names : Live(n) =>
            \/ RecordSuccess(n)
            \/ /\ n \in DOMAIN throttle'
               /\ throttle'[n].failures >= throttle[n].failures
               /\ throttle'[n].lockedUntil >= throttle[n].lockedUntil]_throttleVars
    BY <1>1
<1>3. ThrottleInit => TypeInv
    BY DEF ThrottleInit, TypeInv, ThrottleTypeOK
<1> QED BY <1>2, <1>3, TypeStep, PTL DEF ThrottleSpec, NeverEvicted

(***************************************************************************)
(* Signing in: the inductive invariant.                                    *)
(***************************************************************************)

Account ==
    [password: Nat, active: BOOLEAN, mustChange: BOOLEAN, mfa: BOOLEAN, secret: Nat,
     lastStep: Int]

LoginRows == [password: Nat, mfa: BOOLEAN, secret: Nat, lastStep: Int]

RequestFields ==
    {"op", "stage", "name", "row", "token", "factor", "rows", "proved", "late"}

\* What a request under way is made of.
RequestOK(q) ==
    /\ DOMAIN q = RequestFields
    /\ q.op \in {"login", "reset"} \cup OwnerOps
    /\ q.name \in Names
    /\ q.proved \in Nat
    /\ q.late \in BOOLEAN
    /\ IsTotp(q.factor) => q.factor.step \in Int
    /\ q.op # "login" => q.name = Owner /\ q.row \in Account
    /\ q.op = "login" => q.row \in {NoRow} \cup LoginRows

ShapeInv ==
    /\ account \in Account
    /\ chosen \in [passwords: Nat, secrets: Nat, codes: Nat]
    /\ \A t \in DOMAIN sessions : sessions[t] \in [password: Nat, late: BOOLEAN]
    /\ DOMAIN req = Reqs
    /\ \A r \in Reqs : req[r] = Idle \/ RequestOK(req[r])

\* Passwords are chosen in order, so a new one differs from every row that was loaded.
OldPasswords ==
    /\ account.password <= chosen.passwords
    /\ \A r \in Reqs : req[r].op \in OwnerOps \cup {"reset"} =>
        req[r].row.password <= chosen.passwords

\* A login that no change overlapped has proved the present password.
ProvedOrLate(q) ==
    /\ q.op = "login" /\ q.stage = "checking" /\ q.row # NoRow =>
        q.late \/ q.row.password = account.password
    /\ q.op = "login" /\ q.stage \in {"verified", "opening"} =>
        q.late \/ q.proved = account.password

\* Once a change has read the session rows, whatever else is opened is known to be late.
ChangeSeesAll(q) ==
    q.op = "change" /\ q.stage = "hashing" =>
        /\ \A p \in Reqs : req[p].op = "login" => req[p].late
        /\ \A t \in DOMAIN sessions \ (q.rows \cup {q.token}) : sessions[t].late

SessionsInv ==
    /\ OldPasswords
    /\ \A r \in Reqs : ProvedOrLate(req[r]) /\ ChangeSeesAll(req[r])
    /\ OldSessionsGone

\* The requests that may yet count a failure of a name.
Guessing(n) ==
    {r \in Reqs : req[r].op \in ({"login"} \cup OwnerOps) \ {"confirm"}
                    /\ req[r].stage = "checking" /\ req[r].name = n}

\* A count at the limit is locked; and what is under way fits below the bound.
GuessInv ==
    /\ TypeInv
    /\ \A n \in DOMAIN throttle :
        /\ throttle[n].failures >= MaxAttempts => throttle[n].lockedUntil # NoLock
        /\ throttle[n].failures + Cardinality(Guessing(n)) <= MaxAttempts - 1 + Cardinality(Reqs)

(***************************************************************************)
(* Requests: their shape.                                                  *)
(***************************************************************************)

\* The shape of one request that a step replaces.
LEMMA OneRequest ==
    ASSUME ShapeInv, NEW r \in Reqs, NEW q, q = Idle \/ RequestOK(q),
           req' = [req EXCEPT ![r] = q]
    PROVE  /\ DOMAIN req' = Reqs
           /\ req'[r] = q
           /\ \A p \in Reqs : p # r => req'[p] = req[p]
           /\ \A p \in Reqs : req'[p] = Idle \/ RequestOK(req'[p])
BY DEF ShapeInv

LEMMA NewRequest ==
    ASSUME NEW op \in {"login", "reset"} \cup OwnerOps, NEW n \in Names, NEW row, NEW t,
           op # "login" => n = Owner /\ row \in Account,
           op = "login" => row \in {NoRow} \cup LoginRows
    PROVE  /\ RequestOK(Request(op, n, row, t))
           /\ Request(op, n, row, t).op = op
           /\ Request(op, n, row, t).stage = "checking"
           /\ Request(op, n, row, t).name = n
           /\ Request(op, n, row, t).row = row
           /\ Request(op, n, row, t).token = t
           /\ Request(op, n, row, t) # Idle
BY DEF Request, RequestOK, RequestFields, IsTotp, NoFactor, Idle, OwnerOps

\* A request under way goes on.
LEMMA MovesOn ==
    ASSUME NEW q, RequestOK(q), NEW stage, NEW factor, NEW row, NEW proved \in Nat,
           NEW rows, NEW late \in BOOLEAN,
           IsTotp(factor) => factor.step \in Int,
           q.op = "login" => row \in {NoRow} \cup LoginRows
    PROVE  /\ q.op = "login" =>
                RequestOK([q EXCEPT !.stage = stage, !.factor = factor, !.row = row,
                                    !.proved = proved])
           /\ RequestOK([q EXCEPT !.stage = stage, !.factor = factor])
           /\ RequestOK([q EXCEPT !.stage = stage, !.rows = rows])
           /\ RequestOK([q EXCEPT !.late = late])
BY DEF RequestOK, RequestFields

LEMMA WrittenAccount ==
    ASSUME account \in Account, NEW loaded \in Account, NEW changed \in Account
    PROVE  /\ Written(loaded, changed) \in Account
           /\ \A f \in {"password", "active", "mustChange", "mfa", "secret", "lastStep"} :
                Written(loaded, changed)[f] =
                    IF changed[f] # loaded[f] THEN changed[f] ELSE account[f]
BY DEF Written, Account

\* A request that ends.
LEMMA Ending ==
    ASSUME ShapeInv, NEW r \in Reqs, End(r)
    PROVE  /\ DOMAIN req' = Reqs
           /\ req'[r] = Idle
           /\ \A p \in Reqs : p # r => req'[p] = req[p]
           /\ \A p \in Reqs : req'[p] = Idle \/ RequestOK(req'[p])
BY OneRequest DEF End

\* Which requests the history marks late, and that this changes nothing else of them.
LEMMA Marked ==
    ASSUME ShapeInv
    PROVE  /\ DOMAIN LateLogins = Reqs
           /\ \A p \in Reqs :
                /\ LateLogins[p] = Idle \/ RequestOK(LateLogins[p])
                /\ req[p].op # "login" => LateLogins[p] = req[p]
                /\ req[p].op = "login" =>
                    /\ LateLogins[p] # Idle
                    /\ LateLogins[p].op = "login" /\ LateLogins[p].late
                    /\ \A f \in RequestFields \ {"late"} : LateLogins[p][f] = req[p][f]
<1> SUFFICES ASSUME NEW p \in Reqs
             PROVE  /\ LateLogins[p] = Idle \/ RequestOK(LateLogins[p])
                    /\ req[p].op # "login" => LateLogins[p] = req[p]
                    /\ req[p].op = "login" =>
                        /\ LateLogins[p] # Idle
                        /\ LateLogins[p].op = "login" /\ LateLogins[p].late
                        /\ \A f \in RequestFields \ {"late"} : LateLogins[p][f] = req[p][f]
    BY DEF LateLogins
<1>1. CASE req[p].op # "login"
    BY <1>1 DEF LateLogins, ShapeInv
<1>2. CASE req[p].op = "login"
    <2>1. RequestOK(req[p])
        BY <1>2 DEF ShapeInv, Idle
    <2>2. LateLogins[p] = [req[p] EXCEPT !.late = TRUE]
        BY <1>2 DEF LateLogins
    <2>3. RequestOK(LateLogins[p])
        BY <2>1, <2>2 DEF RequestOK, RequestFields
    <2> QED BY <1>2, <2>1, <2>2, <2>3 DEF RequestOK, RequestFields, Idle
<1> QED BY <1>1, <1>2

LEMMA ShapeStep ==
    ASSUME ShapeInv, [Next]_vars
    PROVE  ShapeInv'
<1> USE DEF ShapeInv
<1>1. CASE UNCHANGED vars \/ ClockTick
    BY <1>1 DEF vars, ClockTick
<1>2. CASE SetActive
    <2>1. account' \in Account
        BY <1>2 DEF SetActive, Account
    <2> QED BY <1>2, <2>1 DEF SetActive
<1>3. ASSUME NEW t \in Tokens, SessionEnds(t)
      PROVE  ShapeInv'
    BY <1>3 DEF SessionEnds, Without
<1>4. ASSUME NEW r \in Reqs, NEW n \in Names, LoginStart(r, n)
      PROVE  ShapeInv'
    <2>1. CASE UNCHANGED req
        BY <1>4, <2>1 DEF LoginStart
    <2>2. CASE ~UNCHANGED req
        <3> DEFINE row == IF n = Owner /\ account.active THEN LoginRow ELSE NoRow
                   fresh == Request("login", n, row, NoToken)
                   q == [fresh EXCEPT !.late = PasswordChanging]
        <3>1. row \in {NoRow} \cup LoginRows
            BY DEF LoginRow, LoginRows, Account, NoSecret, NoStep
        <3>2. RequestOK(fresh)
            BY <3>1, NewRequest
        <3>3. PasswordChanging \in BOOLEAN
            BY DEF PasswordChanging
        <3> HIDE DEF row
        <3>4. RequestOK(q)
            <4> HIDE DEF fresh
            <4> QED BY <3>2, <3>3 DEF RequestOK, RequestFields
        <3>5. req' = [req EXCEPT ![r] = q]
            BY <1>4, <2>2 DEF LoginStart, row
        <3> HIDE DEF q
        <3> QED BY <1>4, <3>4, <3>5, OneRequest DEF LoginStart
    <2> QED BY <2>1, <2>2
<1>5. ASSUME NEW r \in Reqs, LoginFails(r) \/ LoginNeedsCode(r) \/ OwnerFails(r) \/ OwnerRefused(r)
      PROVE  ShapeInv'
    <2>1. End(r) /\ UNCHANGED <<account, chosen, sessions>>
        BY <1>5 DEF LoginFails, LoginNeedsCode, OwnerFails, OwnerRefused
    <2> QED BY <2>1, Ending
<1>6. ASSUME NEW r \in Reqs, LoginVerified(r)
      PROVE  ShapeInv'
    <2> PICK factor \in AcceptedFactors(req[r].row) :
            req' = [req EXCEPT ![r].stage = "verified", ![r].factor = factor,
                               ![r].row = NoRow, ![r].proved = req[r].row.password]
        BY <1>6 DEF LoginVerified
    <2> DEFINE q == [req[r] EXCEPT !.stage = "verified", !.factor = factor, !.row = NoRow,
                                   !.proved = req[r].row.password]
    <2>1. RequestOK(req[r]) /\ req[r].op = "login" /\ req[r].row.password \in Nat
        BY <1>6 DEF LoginVerified, Idle, RequestOK, LoginRows
    <2>2. req' = [req EXCEPT ![r] = q]
        OBVIOUS
    <2>3. IsTotp(factor) => factor.step \in Int
        BY DEF AcceptedFactors, IsTotp, NoFactor, Totp, Backup, FreshSteps
    <2>4. RequestOK(q)
        BY <2>1, <2>3, MovesOn
    <2> HIDE DEF q
    <2> QED BY <1>6, <2>2, <2>4, OneRequest DEF LoginVerified
<1>7. ASSUME NEW r \in Reqs, LoginCommit(r)
      PROVE  ShapeInv'
    <2>1. CASE ~StillThere(req[r].factor)
        <3>1. End(r) /\ UNCHANGED <<account, chosen, sessions>>
            BY <1>7, <2>1 DEF LoginCommit
        <3> QED BY <3>1, Ending
    <2>2. CASE StillThere(req[r].factor)
        <3> DEFINE q == [req[r] EXCEPT !.stage = "opening", !.factor = NoFactor]
        <3>1. RequestOK(req[r]) /\ req[r].op = "login"
            BY <1>7 DEF LoginCommit, Idle
        <3>2. req' = [req EXCEPT ![r] = q]
            BY <1>7, <2>2 DEF LoginCommit
        <3>3. RequestOK(q)
            BY <3>1 DEF RequestOK, RequestFields, IsTotp, NoFactor
        <3>4. account' \in Account
            <4>1. CASE IsTotp(req[r].factor)
                <5>1. account' = [account EXCEPT !.lastStep = req[r].factor.step]
                    BY <1>7, <2>2, <4>1 DEF LoginCommit
                <5>2. req[r].factor.step \in Int
                    BY <3>1, <4>1 DEF RequestOK
                <5> QED BY <5>1, <5>2 DEF Account
            <4>2. CASE ~IsTotp(req[r].factor)
                BY <1>7, <2>2, <4>2 DEF LoginCommit
            <4> QED BY <4>1, <4>2
        <3> HIDE DEF q
        <3> QED BY <1>7, <3>2, <3>3, <3>4, OneRequest DEF LoginCommit
    <2> QED BY <2>1, <2>2
<1>8. ASSUME NEW r \in Reqs, OpenSession(r)
      PROVE  ShapeInv'
    <2>1. RequestOK(req[r]) /\ End(r) /\ UNCHANGED <<account, chosen>>
        BY <1>8 DEF OpenSession, Idle
    <2>2. \A s \in DOMAIN sessions' : sessions'[s] \in [password: Nat, late: BOOLEAN]
        BY <1>8, <2>1 DEF OpenSession, RequestOK
    <2> QED BY <2>1, <2>2, Ending
<1>9. ASSUME NEW r \in Reqs, NEW op \in OwnerOps, NEW t \in Tokens, OwnerStart(r, op, t)
      PROVE  ShapeInv'
    <2>1. CASE UNCHANGED req
        BY <1>9, <2>1 DEF OwnerStart
    <2>2. CASE ~UNCHANGED req
        <3>1. req' = [req EXCEPT ![r] = Request(op, Owner, account, t)]
            BY <1>9, <2>2 DEF OwnerStart
        <3>2. RequestOK(Request(op, Owner, account, t))
            BY NewRequest, OwnerAssumption DEF OwnerOps
        <3> QED BY <1>9, <3>1, <3>2, OneRequest DEF OwnerStart
    <2> QED BY <2>1, <2>2
<1>10. ASSUME NEW r \in Reqs, ChangeVerified(r)
       PROVE  ShapeInv'
    <2>1. RequestOK(req[r]) /\ req[r].op = "change"
        BY <1>10 DEF ChangeVerified, Checking, At, Idle
    <2>2. req' = [LateLogins EXCEPT ![r] = [LateLogins[r] EXCEPT !.stage = "hashing",
                                                                 !.rows = OtherSessions(r)]]
        BY <1>10 DEF ChangeVerified
    <2>3. LateLogins[r] = req[r]
        BY <2>1, Marked
    <2>4. RequestOK([LateLogins[r] EXCEPT !.stage = "hashing", !.rows = OtherSessions(r)])
        BY <2>1, <2>3 DEF RequestOK, RequestFields
    <2> QED BY <1>10, <2>2, <2>4, Marked DEF ChangeVerified
<1>11. ASSUME NEW r \in Reqs, ChangeCommit(r)
       PROVE  ShapeInv'
    <2> DEFINE new == chosen.passwords + 1
               changed == [req[r].row EXCEPT !.password = new, !.mustChange = FALSE]
    <2>1. End(r) /\ req[r].row \in Account /\ new \in Nat
        BY <1>11 DEF ChangeCommit, Idle, RequestOK
    <2>2. changed \in Account
        BY <2>1 DEF Account
    <2>3. account' = Written(req[r].row, changed)
        BY <1>11 DEF ChangeCommit
    <2>4. account' \in Account
        <3> HIDE DEF changed
        <3> QED BY <2>1, <2>2, <2>3, WrittenAccount
    <2>5. chosen' \in [passwords: Nat, secrets: Nat, codes: Nat]
        BY <1>11 DEF ChangeCommit
    <2>6. \A t \in DOMAIN sessions' : sessions'[t] \in [password: Nat, late: BOOLEAN]
        BY <1>11, <2>1 DEF ChangeCommit
    <2> QED BY <2>1, <2>4, <2>5, <2>6, Ending
<1>12. ASSUME NEW r \in Reqs, Enroll(r)
       PROVE  ShapeInv'
    <2> DEFINE changed == [req[r].row EXCEPT !.secret = chosen.secrets + 1]
    <2>1. End(r) /\ req[r].row \in Account
        BY <1>12 DEF Enroll, Checking, Idle, RequestOK
    <2>2. changed \in Account
        BY <2>1 DEF Account
    <2>3. account' = Written(req[r].row, changed)
        BY <1>12 DEF Enroll
    <2>4. account' \in Account
        <3> HIDE DEF changed
        <3> QED BY <2>1, <2>2, <2>3, WrittenAccount
    <2>5. chosen' \in [passwords: Nat, secrets: Nat, codes: Nat]
        BY <1>12 DEF Enroll
    <2> QED BY <1>12, <2>1, <2>4, <2>5, Ending DEF Enroll
<1>13. ASSUME NEW r \in Reqs, Confirm(r)
       PROVE  ShapeInv'
    <2> PICK k \in FreshSteps(req[r].row) :
            account' = Written(req[r].row, [req[r].row EXCEPT !.mfa = TRUE, !.lastStep = k])
        BY <1>13 DEF Confirm
    <2> DEFINE changed == [req[r].row EXCEPT !.mfa = TRUE, !.lastStep = k]
    <2>1. End(r) /\ req[r].row \in Account /\ k \in Int
        BY <1>13 DEF Confirm, Checking, Idle, RequestOK, FreshSteps
    <2>2. changed \in Account
        BY <2>1 DEF Account
    <2>4. account' \in Account
        <3> HIDE DEF changed
        <3> QED BY <2>1, <2>2, WrittenAccount DEF changed
    <2>5. chosen' \in [passwords: Nat, secrets: Nat, codes: Nat]
        BY <1>13 DEF Confirm, IssueCode, NewCode
    <2> QED BY <1>13, <2>1, <2>4, <2>5, Ending DEF Confirm
<1>14. ASSUME NEW r \in Reqs, Disable(r)
       PROVE  ShapeInv'
    <2> DEFINE changed == [req[r].row EXCEPT !.mfa = FALSE, !.secret = NoSecret,
                                             !.lastStep = NoStep]
    <2>1. End(r) /\ req[r].row \in Account
        BY <1>14 DEF Disable, Checking, Idle, RequestOK
    <2>2. changed \in Account
        <3>1. NoSecret \in Nat /\ NoStep \in Int
            BY DEF NoSecret, NoStep
        <3> QED BY <2>1, <3>1 DEF Account
    <2>3. account' = Written(req[r].row, changed)
        BY <1>14 DEF Disable
    <2>4. account' \in Account
        <3> HIDE DEF changed
        <3> QED BY <2>1, <2>2, <2>3, WrittenAccount
    <2> QED BY <1>14, <2>1, <2>4, Ending DEF Disable
<1>15. ASSUME NEW r \in Reqs, RegenerateVerified(r)
       PROVE  ShapeInv'
    <2> DEFINE q == [req[r] EXCEPT !.stage = "hashing", !.rows = DOMAIN backup]
    <2>1. RequestOK(req[r])
        BY <1>15 DEF RegenerateVerified, Checking, At, Idle
    <2>2. req' = [req EXCEPT ![r] = q]
        BY <1>15 DEF RegenerateVerified
    <2>3. RequestOK(q)
        BY <2>1 DEF RequestOK, RequestFields
    <2> HIDE DEF q
    <2> QED BY <1>15, <2>2, <2>3, OneRequest DEF RegenerateVerified
<1>16. ASSUME NEW r \in Reqs, RegenerateCommit(r)
       PROVE  ShapeInv'
    <2>1. End(r) /\ UNCHANGED <<account, sessions>>
        BY <1>16 DEF RegenerateCommit
    <2>2. chosen' \in [passwords: Nat, secrets: Nat, codes: Nat]
        BY <1>16 DEF RegenerateCommit, IssueCode, NewCode
    <2> QED BY <2>1, <2>2, Ending
<1>17. ASSUME NEW r \in Reqs, ResetStart(r)
       PROVE  ShapeInv'
    <2>1. RequestOK(Request("reset", Owner, account, NoToken))
        BY NewRequest, OwnerAssumption
    <2> QED BY <1>17, <2>1, OneRequest DEF ResetStart
<1>18. ASSUME NEW r \in Reqs, ResetCommit(r)
       PROVE  ShapeInv'
    <2> DEFINE changed == [req[r].row EXCEPT !.password = chosen.passwords + 1, !.mustChange = TRUE]
    <2>1. req[r].row \in Account /\ chosen.passwords + 1 \in Nat
        BY <1>18 DEF ResetCommit, Checking, Idle, RequestOK
    <2>2. changed \in Account
        BY <2>1 DEF Account
    <2>3. account' = Written(req[r].row, changed)
        BY <1>18 DEF ResetCommit
    <2>4. account' \in Account
        <3> HIDE DEF changed
        <3> QED BY <2>1, <2>2, <2>3, WrittenAccount
    <2>5. chosen' \in [passwords: Nat, secrets: Nat, codes: Nat]
        BY <1>18 DEF ResetCommit
    <2> QED BY <1>18, <2>4, <2>5, Marked DEF ResetCommit, Without
<1> QED BY <1>1, <1>2, <1>3, <1>4, <1>5, <1>6, <1>7, <1>8, <1>9, <1>10, <1>11, <1>12,
           <1>13, <1>14, <1>15, <1>16, <1>17, <1>18 DEF Next

(***************************************************************************)
(* Sessions and passwords.                                                 *)
(***************************************************************************)

Changing(q) == q.op = "change" /\ q.stage = "hashing"

\* Steps of one request that leave passwords alone and open no session.
LEMMA SessionsFrame ==
    ASSUME SessionsInv, NEW r \in Reqs, \A p \in Reqs : p # r => req'[p] = req[p],
           account'.password = account.password, chosen'.passwords = chosen.passwords,
           UNCHANGED sessions,
           req'[r].op \in OwnerOps \cup {"reset"} => req'[r].row.password <= chosen.passwords,
           ProvedOrLate(req[r])',
           ~Changing(req'[r]),
           req'[r].op = "login" => req'[r].late \/ \A p \in Reqs \ {r} : ~Changing(req[p])
    PROVE  SessionsInv'
<1>1. OldPasswords'
    BY DEF SessionsInv, OldPasswords
<1>2. \A p \in Reqs : ProvedOrLate(req[p])'
    BY DEF SessionsInv, ProvedOrLate
<1>3. \A p \in Reqs : ChangeSeesAll(req[p])'
    BY DEF SessionsInv, ChangeSeesAll, Changing
<1>4. OldSessionsGone'
    BY DEF SessionsInv, OldSessionsGone
<1> QED BY <1>1, <1>2, <1>3, <1>4 DEF SessionsInv

LEMMA SessionsEnding ==
    ASSUME ShapeInv, SessionsInv, NEW r \in Reqs, End(r), UNCHANGED sessions,
           account'.password = account.password, chosen'.passwords = chosen.passwords
    PROVE  SessionsInv'
<1>1. req'[r] = Idle /\ \A p \in Reqs : p # r => req'[p] = req[p]
    BY Ending
<1>2. ProvedOrLate(req[r])'
    BY <1>1 DEF ProvedOrLate, Idle
<1>3. ~Changing(req'[r]) /\ req'[r].op \notin OwnerOps \cup {"reset", "login"}
    BY <1>1 DEF Changing, Idle, OwnerOps
<1> QED BY <1>1, <1>2, <1>3, SessionsFrame

\* The password of a row that the ORM writes back.
LEMMA SamePassword ==
    ASSUME account \in Account, NEW loaded \in Account, NEW changed \in Account
    PROVE  /\ changed.password = loaded.password =>
                Written(loaded, changed).password = account.password
           /\ changed.password # loaded.password =>
                Written(loaded, changed).password = changed.password
BY WrittenAccount

\* A new password is written whatever was loaded, and the sessions that stay are the
\* caller's own and late ones.
LEMMA ChangeKeeps ==
    ASSUME ShapeInv, SessionsInv, NEW r \in Reqs, ChangeCommit(r)
    PROVE  SessionsInv'
<1> DEFINE new == chosen.passwords + 1
           changed == [req[r].row EXCEPT !.password = new, !.mustChange = FALSE]
<1>1. /\ End(r) /\ req[r].op = "change" /\ req[r].stage = "hashing"
      /\ req[r].row \in Account /\ new \in Nat /\ chosen.passwords \in Nat
    BY DEF ChangeCommit, At, Idle, RequestOK, ShapeInv
<1>2. req'[r] = Idle /\ \A p \in Reqs : p # r => req'[p] = req[p]
    BY <1>1, Ending
<1>3. changed \in Account /\ changed.password = new
    BY <1>1 DEF Account
<1>4. req[r].row.password <= chosen.passwords /\ account.password <= chosen.passwords
    BY <1>1 DEF SessionsInv, OldPasswords, OwnerOps
<1>5. req[r].row.password \in Nat /\ account.password \in Nat /\ account \in Account
    BY <1>1 DEF Account, ShapeInv
<1>6. account' = Written(req[r].row, changed)
    BY DEF ChangeCommit
<1>7. account'.password = new
    <2>1. changed.password # req[r].row.password
        BY <1>1, <1>3, <1>4, <1>5
    <2> HIDE DEF changed, new
    <2> QED BY <1>1, <1>3, <1>5, <1>6, <2>1, SamePassword
<1>8. chosen'.passwords = new
    BY DEF ChangeCommit, ShapeInv
<1>9. \A p \in Reqs : req[p].op = "login" => req[p].late
    BY <1>1 DEF SessionsInv, ChangeSeesAll
<1>10. /\ DOMAIN sessions' \subseteq DOMAIN sessions
       /\ \A t \in DOMAIN sessions' : sessions'[t].late = sessions[t].late
       /\ \A t \in DOMAIN sessions' : sessions'[t].password = new \/ sessions'[t].late
    <2>1. \A t \in DOMAIN sessions \ (req[r].rows \cup {req[r].token}) : sessions[t].late
        BY <1>1 DEF SessionsInv, ChangeSeesAll
    <2> QED BY <2>1 DEF ChangeCommit, ShapeInv
<1>11. OldPasswords'
    <2>1. ASSUME NEW p \in Reqs, req'[p].op \in OwnerOps \cup {"reset"}
          PROVE  req'[p].row.password <= new
        <3>1. p # r /\ req'[p] = req[p]
            BY <1>2, <2>1 DEF Idle, OwnerOps
        <3>2. RequestOK(req[p]) /\ req[p].op # "login"
            BY <2>1, <3>1 DEF ShapeInv, Idle, OwnerOps
        <3>3. req[p].row.password <= chosen.passwords /\ req[p].row.password \in Nat
            BY <2>1, <3>1, <3>2 DEF SessionsInv, OldPasswords, RequestOK, Account
        <3> QED BY <3>1, <3>3, <1>1
    <2> QED BY <2>1, <1>7, <1>8, <1>1 DEF OldPasswords
<1>12. \A p \in Reqs : ProvedOrLate(req[p])'
    BY <1>2, <1>9 DEF ProvedOrLate, Idle
<1>13. \A p \in Reqs : ChangeSeesAll(req[p])'
    BY <1>2, <1>9, <1>10 DEF SessionsInv, ChangeSeesAll, Idle
<1>14. OldSessionsGone'
    BY <1>7, <1>10 DEF OldSessionsGone
<1> QED BY <1>11, <1>12, <1>13, <1>14 DEF SessionsInv

\* A reset ends every session, and every login under way is late.
LEMMA ResetKeeps ==
    ASSUME ShapeInv, SessionsInv, NEW r \in Reqs, ResetCommit(r)
    PROVE  SessionsInv'
<1> DEFINE new == chosen.passwords + 1
           changed == [req[r].row EXCEPT !.password = new, !.mustChange = TRUE]
<1>1. /\ req[r].op = "reset" /\ req[r].row \in Account /\ new \in Nat
      /\ chosen.passwords \in Nat
    BY DEF ResetCommit, Checking, At, Idle, RequestOK, ShapeInv
<1>2. /\ req'[r] = Idle
      /\ \A p \in Reqs : p # r => req'[p] = LateLogins[p]
    BY Marked DEF ResetCommit
<1>3. changed \in Account /\ changed.password = new
    BY <1>1 DEF Account
<1>4. /\ req[r].row.password <= chosen.passwords /\ req[r].row.password \in Nat
      /\ account \in Account
    BY <1>1 DEF SessionsInv, OldPasswords, Account, ShapeInv
<1>5. account' = Written(req[r].row, changed)
    BY DEF ResetCommit
<1>6. account'.password = new
    <2>1. changed.password # req[r].row.password
        BY <1>1, <1>3, <1>4
    <2> HIDE DEF changed, new
    <2> QED BY <1>1, <1>3, <1>4, <1>5, <2>1, SamePassword
<1>7. chosen'.passwords = new /\ DOMAIN sessions' = {}
    BY DEF ResetCommit, ShapeInv, Without
<1>8. ASSUME NEW p \in Reqs, req'[p].op = "login"
      PROVE  req'[p].late
    BY <1>2, <1>8, Marked DEF Idle
<1>9. ASSUME NEW p \in Reqs, req'[p].op \in OwnerOps \cup {"reset"}
      PROVE  req'[p].row.password <= new
    <2>1. p # r /\ req'[p] = req[p]
        BY <1>2, <1>9, Marked DEF Idle, OwnerOps
    <2>2. RequestOK(req[p]) /\ req[p].op # "login"
        BY <1>9, <2>1 DEF ShapeInv, Idle, OwnerOps
    <2>3. req[p].row.password <= chosen.passwords /\ req[p].row.password \in Nat
        BY <1>9, <2>1, <2>2 DEF SessionsInv, OldPasswords, RequestOK, Account
    <2> QED BY <2>1, <2>3, <1>1
<1>10. OldPasswords'
    BY <1>6, <1>7, <1>9, <1>1 DEF OldPasswords
<1>11. \A p \in Reqs : ProvedOrLate(req[p])' /\ ChangeSeesAll(req[p])'
    BY <1>7, <1>8 DEF ProvedOrLate, ChangeSeesAll
<1> QED BY <1>7, <1>10, <1>11 DEF SessionsInv, OldSessionsGone

\* Requests about the second factor write no password.
LEMMA FactorRequests ==
    ASSUME ShapeInv, NEW r \in Reqs, Enroll(r) \/ Confirm(r) \/ Disable(r)
    PROVE  /\ End(r) /\ UNCHANGED sessions
           /\ account'.password = account.password
           /\ chosen'.passwords = chosen.passwords
<1>1. End(r) /\ UNCHANGED sessions /\ chosen'.passwords = chosen.passwords
    BY DEF Enroll, Confirm, Disable, IssueCode, ShapeInv
<1>2. req[r].row \in Account /\ account \in Account /\ chosen.secrets + 1 \in Nat
    <2>1. req[r] # Idle /\ req[r].op \in OwnerOps
        <3>1. req[r].op \in {"enroll", "confirm", "disable"}
            BY DEF Enroll, Confirm, Disable, Checking
        <3> QED BY <3>1 DEF Idle, OwnerOps
    <2> QED BY <2>1 DEF ShapeInv, RequestOK, OwnerOps
<1>3. CASE Enroll(r)
    <2> DEFINE changed == [req[r].row EXCEPT !.secret = chosen.secrets + 1]
    <2>1. account' = Written(req[r].row, changed)
        BY <1>3 DEF Enroll
    <2>2. changed \in Account /\ changed.password = req[r].row.password
        BY <1>2 DEF Account
    <2> HIDE DEF changed
    <2> QED BY <1>1, <1>2, <2>1, <2>2, SamePassword
<1>4. CASE Confirm(r)
    <2>1. PICK k \in FreshSteps(req[r].row) :
            account' = Written(req[r].row, [req[r].row EXCEPT !.mfa = TRUE, !.lastStep = k])
        BY <1>4 DEF Confirm
    <2> DEFINE changed == [req[r].row EXCEPT !.mfa = TRUE, !.lastStep = k]
    <2>2. k \in Int
        BY DEF FreshSteps
    <2>3. changed \in Account /\ changed.password = req[r].row.password
        BY <1>2, <2>2 DEF Account
    <2>4. account' = Written(req[r].row, changed)
        BY <2>1
    <2> HIDE DEF changed
    <2> QED BY <1>1, <1>2, <2>3, <2>4, SamePassword
<1>5. CASE Disable(r)
    <2> DEFINE changed == [req[r].row EXCEPT !.mfa = FALSE, !.secret = NoSecret,
                                             !.lastStep = NoStep]
    <2>1. account' = Written(req[r].row, changed)
        BY <1>5 DEF Disable
    <2>2. NoSecret \in Nat /\ NoStep \in Int
        BY DEF NoSecret, NoStep
    <2>3. changed \in Account /\ changed.password = req[r].row.password
        BY <1>2, <2>2 DEF Account
    <2> HIDE DEF changed
    <2> QED BY <1>1, <1>2, <2>1, <2>3, SamePassword
<1> QED BY <1>3, <1>4, <1>5

LEMMA SessionsStep ==
    ASSUME ShapeInv, SessionsInv, [Next]_vars
    PROVE  SessionsInv'
<1>1. CASE UNCHANGED vars \/ ClockTick
    BY <1>1 DEF vars, ClockTick, SessionsInv, OldPasswords, ProvedOrLate, ChangeSeesAll,
                OldSessionsGone
<1>2. CASE SetActive
    <2>1. account'.password = account.password
        BY <1>2 DEF SetActive, ShapeInv, Account
    <2> QED BY <1>2, <2>1 DEF SetActive, SessionsInv, OldPasswords, ProvedOrLate, ChangeSeesAll,
                              OldSessionsGone
<1>3. ASSUME NEW t \in Tokens, SessionEnds(t)
      PROVE  SessionsInv'
    BY <1>3 DEF SessionEnds, Without, SessionsInv, OldPasswords, ProvedOrLate, ChangeSeesAll,
                OldSessionsGone
<1>4. ASSUME NEW r \in Reqs, NEW n \in Names, LoginStart(r, n)
      PROVE  SessionsInv'
    <2>1. CASE UNCHANGED req
        BY <1>4, <2>1 DEF LoginStart, SessionsInv, OldPasswords, ProvedOrLate, ChangeSeesAll,
                          OldSessionsGone
    <2>2. CASE ~UNCHANGED req
        <3> DEFINE row == IF n = Owner /\ account.active THEN LoginRow ELSE NoRow
                   fresh == Request("login", n, row, NoToken)
                   q == [fresh EXCEPT !.late = PasswordChanging]
        <3>1. row # NoRow => row.password = account.password
            BY DEF LoginRow
        <3>2. row \in {NoRow} \cup LoginRows
            BY DEF LoginRow, LoginRows, Account, NoSecret, NoStep, ShapeInv
        <3> HIDE DEF row
        <3>3. /\ RequestOK(fresh) /\ fresh.op = "login" /\ fresh.stage = "checking"
              /\ fresh.row = row
            BY <3>2, NewRequest
        <3> HIDE DEF fresh
        <3>4. /\ q.op = "login" /\ q.stage = "checking" /\ q.row = row
              /\ q.late = PasswordChanging
            BY <3>3 DEF RequestOK, RequestFields
        <3>5. req' = [req EXCEPT ![r] = q]
            BY <1>4, <2>2 DEF LoginStart, row, fresh
        <3> HIDE DEF q
        <3>6. req'[r] = q /\ \A p \in Reqs : p # r => req'[p] = req[p]
            BY <3>5 DEF ShapeInv
        <3>7. ProvedOrLate(req[r])'
            BY <1>4, <3>1, <3>4, <3>6 DEF ProvedOrLate, LoginStart
        <3>8. ~Changing(req'[r]) /\ req'[r].op \notin OwnerOps \cup {"reset"}
            BY <3>4, <3>6 DEF Changing, OwnerOps
        <3>9. req'[r].late \/ \A p \in Reqs \ {r} : ~Changing(req[p])
            BY <3>4, <3>6 DEF PasswordChanging, Changing, At
        <3> QED BY <1>4, <3>6, <3>7, <3>8, <3>9, SessionsFrame DEF LoginStart
    <2> QED BY <2>1, <2>2
<1>5. ASSUME NEW r \in Reqs, LoginFails(r) \/ LoginNeedsCode(r) \/ OwnerFails(r) \/ OwnerRefused(r)
      PROVE  SessionsInv'
    <2>1. End(r) /\ UNCHANGED <<account, chosen, sessions>>
        BY <1>5 DEF LoginFails, LoginNeedsCode, OwnerFails, OwnerRefused
    <2> QED BY <2>1, SessionsEnding
<1>6. ASSUME NEW r \in Reqs, LoginVerified(r)
      PROVE  SessionsInv'
    <2>1. /\ RequestOK(req[r]) /\ req[r].op = "login" /\ req[r].stage = "checking"
          /\ req[r].row # NoRow
        BY <1>6 DEF LoginVerified, At, Idle, ShapeInv
    <2>2. /\ \A p \in Reqs : p # r => req'[p] = req[p]
          /\ req'[r].op = "login" /\ req'[r].stage = "verified"
          /\ req'[r].late = req[r].late /\ req'[r].proved = req[r].row.password
        BY <1>6, <2>1 DEF LoginVerified, RequestOK, RequestFields, ShapeInv
    <2>3. ProvedOrLate(req[r])'
        BY <1>6, <2>1, <2>2 DEF ProvedOrLate, SessionsInv, LoginVerified
    <2>4. ~Changing(req'[r]) /\ req'[r].op \notin OwnerOps \cup {"reset"}
        BY <2>2 DEF Changing, OwnerOps
    <2>5. req'[r].late \/ \A p \in Reqs \ {r} : ~Changing(req[p])
        BY <2>1, <2>2 DEF SessionsInv, ChangeSeesAll, Changing
    <2> QED BY <1>6, <2>2, <2>3, <2>4, <2>5, SessionsFrame DEF LoginVerified
<1>7. ASSUME NEW r \in Reqs, LoginCommit(r)
      PROVE  SessionsInv'
    <2>1. /\ RequestOK(req[r]) /\ req[r].op = "login" /\ req[r].stage = "verified"
        BY <1>7 DEF LoginCommit, At, Idle, ShapeInv
    <2>2. account'.password = account.password
        BY <1>7 DEF LoginCommit, ShapeInv, Account
    <2>3. CASE ~StillThere(req[r].factor)
        <3>1. End(r) /\ UNCHANGED <<chosen, sessions>>
            BY <1>7, <2>3 DEF LoginCommit
        <3> QED BY <2>2, <3>1, SessionsEnding
    <2>4. CASE StillThere(req[r].factor)
        <3>1. /\ \A p \in Reqs : p # r => req'[p] = req[p]
              /\ req'[r].op = "login" /\ req'[r].stage = "opening"
              /\ req'[r].late = req[r].late /\ req'[r].proved = req[r].proved
            BY <1>7, <2>1, <2>4 DEF LoginCommit, RequestOK, RequestFields, ShapeInv
        <3>2. ProvedOrLate(req[r])'
            BY <2>1, <2>2, <3>1 DEF ProvedOrLate, SessionsInv
        <3>3. ~Changing(req'[r]) /\ req'[r].op \notin OwnerOps \cup {"reset"}
            BY <3>1 DEF Changing, OwnerOps
        <3>4. req'[r].late \/ \A p \in Reqs \ {r} : ~Changing(req[p])
            BY <2>1, <3>1 DEF SessionsInv, ChangeSeesAll, Changing
        <3> QED BY <1>7, <2>2, <3>1, <3>2, <3>3, <3>4, SessionsFrame DEF LoginCommit
    <2> QED BY <2>3, <2>4
<1>8. ASSUME NEW r \in Reqs, OpenSession(r)
      PROVE  SessionsInv'
    <2>1. /\ req[r].op = "login" /\ req[r].stage = "opening" /\ End(r)
          /\ UNCHANGED <<account, chosen>>
        BY <1>8 DEF OpenSession, At
    <2>2. req'[r] = Idle /\ \A p \in Reqs : p # r => req'[p] = req[p]
        BY <2>1, Ending
    <2>3. PICK t \in FreshTokens :
            sessions' = [s \in DOMAIN sessions \cup {t} |->
                IF s = t THEN [password |-> req[r].proved, late |-> req[r].late]
                ELSE sessions[s]]
        BY <1>8 DEF OpenSession
    <2>4. /\ DOMAIN sessions' = DOMAIN sessions \cup {t}
          /\ sessions'[t].password = req[r].proved /\ sessions'[t].late = req[r].late
          /\ \A s \in DOMAIN sessions : s # t => sessions'[s] = sessions[s]
        BY <2>3
    <2>5. req[r].late \/ req[r].proved = account.password
        BY <2>1 DEF SessionsInv, ProvedOrLate
    <2>6. OldPasswords' /\ \A p \in Reqs : ProvedOrLate(req[p])'
        BY <2>1, <2>2 DEF SessionsInv, OldPasswords, ProvedOrLate, Idle, OwnerOps
    <2>7. \A p \in Reqs : ChangeSeesAll(req[p])'
        BY <2>1, <2>2, <2>4 DEF SessionsInv, ChangeSeesAll, Idle
    <2>8. OldSessionsGone'
        BY <2>1, <2>4, <2>5 DEF SessionsInv, OldSessionsGone
    <2> QED BY <2>6, <2>7, <2>8 DEF SessionsInv
<1>9. ASSUME NEW r \in Reqs, NEW op \in OwnerOps, NEW t \in Tokens, OwnerStart(r, op, t)
      PROVE  SessionsInv'
    <2>1. CASE UNCHANGED req
        BY <1>9, <2>1 DEF OwnerStart, SessionsInv, OldPasswords, ProvedOrLate, ChangeSeesAll,
                          OldSessionsGone
    <2>2. CASE ~UNCHANGED req
        <3> DEFINE q == Request(op, Owner, account, t)
        <3>1. req' = [req EXCEPT ![r] = q]
            BY <1>9, <2>2 DEF OwnerStart
        <3>2. q.op = op /\ q.stage = "checking" /\ q.row = account
            BY NewRequest, OwnerAssumption DEF OwnerOps, ShapeInv
        <3> HIDE DEF q
        <3>3. req'[r] = q /\ \A p \in Reqs : p # r => req'[p] = req[p]
            BY <3>1 DEF ShapeInv
        <3>4. ProvedOrLate(req[r])' /\ ~Changing(req'[r]) /\ req'[r].op # "login"
            BY <3>2, <3>3 DEF ProvedOrLate, Changing, OwnerOps
        <3>5. req'[r].row.password <= chosen.passwords
            BY <3>2, <3>3 DEF SessionsInv, OldPasswords
        <3> QED BY <1>9, <3>3, <3>4, <3>5, SessionsFrame DEF OwnerStart
    <2> QED BY <2>1, <2>2
<1>10. ASSUME NEW r \in Reqs, ChangeVerified(r)
       PROVE  SessionsInv'
    <2>1. RequestOK(req[r]) /\ req[r].op = "change"
        BY <1>10 DEF ChangeVerified, Checking, At, Idle, ShapeInv
    <2>2. req' = [LateLogins EXCEPT ![r] = [LateLogins[r] EXCEPT !.stage = "hashing",
                                                                 !.rows = OtherSessions(r)]]
        BY <1>10 DEF ChangeVerified
    <2>3. /\ req'[r] = [req[r] EXCEPT !.stage = "hashing", !.rows = OtherSessions(r)]
          /\ \A p \in Reqs : p # r => req'[p] = LateLogins[p]
        BY <2>1, <2>2, Marked
    <2>4. /\ req'[r].op = "change" /\ req'[r].stage = "hashing"
          /\ req'[r].row = req[r].row /\ req'[r].rows = DOMAIN sessions \ {req[r].token}
          /\ req'[r].token = req[r].token
        BY <2>1, <2>3 DEF RequestOK, RequestFields, OtherSessions
    <2>5. ASSUME NEW p \in Reqs, req'[p].op = "login"
          PROVE  /\ req'[p].late /\ p # r
                 /\ req[p].op = "login"
        BY <2>3, <2>4, <2>5, Marked
    <2>6. ASSUME NEW p \in Reqs, p # r, req'[p].op # "login"
          PROVE  req'[p] = req[p]
        BY <2>3, <2>6, Marked
    <2>7. UNCHANGED <<account, sessions, chosen>>
        BY <1>10 DEF ChangeVerified
    <2>8. OldPasswords'
        BY <2>1, <2>4, <2>6, <2>7 DEF SessionsInv, OldPasswords, OwnerOps
    <2>9. \A p \in Reqs : ProvedOrLate(req[p])'
        BY <2>5 DEF ProvedOrLate
    <2>10. \A p \in Reqs : ChangeSeesAll(req[p])'
        BY <2>4, <2>5, <2>6, <2>7 DEF SessionsInv, ChangeSeesAll
    <2> QED BY <2>7, <2>8, <2>9, <2>10 DEF SessionsInv, OldSessionsGone
<1>11. ASSUME NEW r \in Reqs, ChangeCommit(r) \/ ResetCommit(r)
       PROVE  SessionsInv'
    BY <1>11, ChangeKeeps, ResetKeeps
<1>12. ASSUME NEW r \in Reqs, Enroll(r) \/ Confirm(r) \/ Disable(r) \/ RegenerateCommit(r)
       PROVE  SessionsInv'
    <2>1. CASE RegenerateCommit(r)
        BY <2>1, SessionsEnding DEF RegenerateCommit, IssueCode, ShapeInv
    <2>2. CASE Enroll(r) \/ Confirm(r) \/ Disable(r)
        BY <2>2, FactorRequests, SessionsEnding
    <2> QED BY <1>12, <2>1, <2>2
<1>13. ASSUME NEW r \in Reqs, RegenerateVerified(r)
       PROVE  SessionsInv'
    <2>1. RequestOK(req[r]) /\ req[r].op = "regenerate"
        BY <1>13 DEF RegenerateVerified, Checking, At, Idle, ShapeInv
    <2>2. /\ \A p \in Reqs : p # r => req'[p] = req[p]
          /\ req'[r].op = "regenerate" /\ req'[r].row = req[r].row
        BY <1>13, <2>1 DEF RegenerateVerified, RequestOK, RequestFields, ShapeInv
    <2>3. ProvedOrLate(req[r])' /\ ~Changing(req'[r])
        BY <2>2 DEF ProvedOrLate, Changing
    <2>4. req[r].row.password <= chosen.passwords
        BY <2>1 DEF SessionsInv, OldPasswords, OwnerOps
    <2> QED BY <1>13, <2>2, <2>3, <2>4, SessionsFrame DEF RegenerateVerified
<1>14. ASSUME NEW r \in Reqs, ResetStart(r)
       PROVE  SessionsInv'
    <2> DEFINE q == Request("reset", Owner, account, NoToken)
    <2>1. q.op = "reset" /\ q.row = account
        BY NewRequest, OwnerAssumption DEF ShapeInv
    <2>2. req' = [req EXCEPT ![r] = q]
        BY <1>14 DEF ResetStart
    <2> HIDE DEF q
    <2>3. req'[r] = q /\ \A p \in Reqs : p # r => req'[p] = req[p]
        BY <2>2 DEF ShapeInv
    <2>4. ProvedOrLate(req[r])' /\ ~Changing(req'[r])
        BY <2>1, <2>3 DEF ProvedOrLate, Changing
    <2>5. req'[r].row.password <= chosen.passwords
        BY <2>1, <2>3 DEF SessionsInv, OldPasswords
    <2> QED BY <1>14, <2>1, <2>3, <2>4, <2>5, SessionsFrame DEF ResetStart
<1> QED BY <1>1, <1>2, <1>3, <1>4, <1>5, <1>6, <1>7, <1>8, <1>9, <1>10, <1>11, <1>12, <1>13,
           <1>14 DEF Next

(***************************************************************************)
(* The second factor.                                                      *)
(***************************************************************************)

\* What a change or a reset of the password writes of the factor: nothing.
LEMMA PasswordOnly ==
    ASSUME account \in Account, NEW loaded \in Account, NEW new \in Nat, NEW must \in BOOLEAN,
           account' = Written(loaded, [loaded EXCEPT !.password = new, !.mustChange = must])
    PROVE  account'.mfa = account.mfa /\ account'.secret = account.secret
<1> DEFINE changed == [loaded EXCEPT !.password = new, !.mustChange = must]
<1>1. changed \in Account /\ changed.mfa = loaded.mfa /\ changed.secret = loaded.secret
    BY DEF Account
<1>2. account' = Written(loaded, changed)
    OBVIOUS
<1> HIDE DEF changed
<1> QED BY <1>1, <1>2, WrittenAccount

\* A change of the second factor: unless another one came in between, what is in force
\* afterwards is confirmed.
LEMMA FactorDecided ==
    ASSUME ShapeInv, EnabledSecretWasConfirmed, NEW r \in Reqs,
           Enroll(r) \/ Confirm(r) \/ Disable(r)
    PROVE  EnabledSecretWasConfirmed'
<1>1. req[r].row \in Account /\ account \in Account /\ chosen.secrets + 1 \in Nat
    <2>1. req[r].op \in {"enroll", "confirm", "disable"}
        BY DEF Enroll, Confirm, Disable, Checking
    <2>2. req[r] # Idle /\ req[r].op # "login"
        BY <2>1 DEF Idle
    <2> QED BY <2>2 DEF ShapeInv, RequestOK
<1>2. CASE FactorMoved(r)
    BY <1>2 DEF Enroll, Confirm, Disable, EnabledSecretWasConfirmed
<1>3. CASE ~FactorMoved(r)
    <2>1. req[r].row.mfa = account.mfa /\ req[r].row.secret = account.secret
        BY <1>3 DEF FactorMoved
    <2>2. CASE Enroll(r)
        <3> DEFINE changed == [req[r].row EXCEPT !.secret = chosen.secrets + 1]
        <3>1. account' = Written(req[r].row, changed) /\ ~req[r].row.mfa
            BY <2>2 DEF Enroll, MayEnroll
        <3>2. changed \in Account /\ changed.mfa = req[r].row.mfa
            BY <1>1 DEF Account
        <3> HIDE DEF changed
        <3> QED BY <1>1, <2>1, <3>1, <3>2, WrittenAccount DEF EnabledSecretWasConfirmed
    <2>3. CASE Confirm(r)
        <3>1. PICK k \in FreshSteps(req[r].row) :
                account' = Written(req[r].row, [req[r].row EXCEPT !.mfa = TRUE, !.lastStep = k])
            BY <2>3 DEF Confirm
        <3> DEFINE changed == [req[r].row EXCEPT !.mfa = TRUE, !.lastStep = k]
        <3>2. k \in Int
            BY DEF FreshSteps
        <3>3. changed \in Account /\ changed.secret = req[r].row.secret
            BY <1>1, <3>2 DEF Account
        <3>4. account' = Written(req[r].row, changed)
            BY <3>1
        <3> HIDE DEF changed
        <3>5. account'.secret = account.secret
            BY <1>1, <3>3, <3>4, WrittenAccount
        <3> QED BY <2>1, <2>3, <3>5 DEF Confirm, EnabledSecretWasConfirmed
    <2>4. CASE Disable(r)
        <3> DEFINE changed == [req[r].row EXCEPT !.mfa = FALSE, !.secret = NoSecret,
                                                 !.lastStep = NoStep]
        <3>1. account' = Written(req[r].row, changed)
            BY <2>4 DEF Disable
        <3>2. NoSecret \in Nat /\ NoStep \in Int
            BY DEF NoSecret, NoStep
        <3>3. changed \in Account /\ changed.mfa = FALSE
            BY <1>1, <3>2 DEF Account
        <3> HIDE DEF changed
        <3> QED BY <1>1, <2>1, <3>1, <3>3, WrittenAccount DEF EnabledSecretWasConfirmed
    <2> QED BY <2>2, <2>3, <2>4
<1> QED BY <1>2, <1>3

\* Everything else leaves the second factor and its history alone.
LEMMA FactorStep ==
    ASSUME ShapeInv, EnabledSecretWasConfirmed, [Next]_vars
    PROVE  EnabledSecretWasConfirmed'
<1> DEFINE Kept == account'.mfa = account.mfa /\ account'.secret = account.secret
                        /\ UNCHANGED <<confirmed, overtaken>>
<1>1. CASE UNCHANGED vars \/ ClockTick \/ \E t \in Tokens : SessionEnds(t)
    <2>1. UNCHANGED <<account, confirmed, overtaken>>
        BY <1>1 DEF vars, ClockTick, SessionEnds
    <2> QED BY <2>1 DEF EnabledSecretWasConfirmed
<1>2. CASE SetActive
    BY <1>2 DEF SetActive, ShapeInv, Account, EnabledSecretWasConfirmed
<1>3. ASSUME NEW r \in Reqs,
             \/ \E n \in Names : LoginStart(r, n)
             \/ LoginFails(r) \/ LoginNeedsCode(r) \/ LoginVerified(r) \/ OpenSession(r)
             \/ \E op \in OwnerOps, t \in Tokens : OwnerStart(r, op, t)
             \/ OwnerFails(r) \/ OwnerRefused(r) \/ ChangeVerified(r)
             \/ RegenerateVerified(r) \/ RegenerateCommit(r) \/ ResetStart(r)
      PROVE  Kept
    BY <1>3 DEF LoginStart, LoginFails, LoginNeedsCode, LoginVerified, OpenSession, OwnerStart,
                OwnerFails, OwnerRefused, ChangeVerified, RegenerateVerified, RegenerateCommit,
                ResetStart
<1>4. ASSUME NEW r \in Reqs, LoginCommit(r)
      PROVE  Kept
    BY <1>4 DEF LoginCommit, ShapeInv, Account
<1>5. ASSUME NEW r \in Reqs, ChangeCommit(r) \/ ResetCommit(r)
      PROVE  Kept
    <2>1. req[r].row \in Account /\ chosen.passwords + 1 \in Nat /\ account \in Account
        BY <1>5 DEF ChangeCommit, ResetCommit, Checking, At, Idle, RequestOK, ShapeInv
    <2>2. account'.mfa = account.mfa /\ account'.secret = account.secret
        BY <1>5, <2>1, PasswordOnly DEF ChangeCommit, ResetCommit
    <2> QED BY <1>5, <2>2 DEF ChangeCommit, ResetCommit
<1>6. CASE Kept
    BY <1>6 DEF EnabledSecretWasConfirmed
<1> QED BY <1>1, <1>2, <1>3, <1>4, <1>5, <1>6, FactorDecided DEF Next

(***************************************************************************)
(* The lockout table, as the requests use it.                              *)
(***************************************************************************)

\* Every handler changes the table as LoginThrottle allows, for a name somebody may try.
LEMMA StepRefines ==
    ASSUME ShapeInv, [Next]_vars
    PROVE  [ThrottleNext]_throttleVars
<1> USE OwnerAssumption DEF ThrottleNext, throttleVars
<1>1. CASE UNCHANGED vars \/ ClockTick \/ SetActive \/ \E t \in Tokens : SessionEnds(t)
    BY <1>1 DEF vars, ClockTick, SetActive, SessionEnds
<1>2. ASSUME NEW r \in Reqs, req[r] # Idle
      PROVE  req[r].name \in Names
    BY <1>2 DEF ShapeInv, RequestOK
<1>3. ASSUME NEW r \in Reqs, NEW n \in Names, LoginStart(r, n)
      PROVE  [ThrottleNext]_throttleVars
    BY <1>3 DEF LoginStart
<1>4. ASSUME NEW r \in Reqs, LoginFails(r) \/ LoginCommit(r)
      PROVE  [ThrottleNext]_throttleVars
    <2>1. req[r].name \in Names
        BY <1>2, <1>4 DEF LoginFails, LoginCommit, At, Idle
    <2>2. RecordFailure(req[r].name) \/ RecordSuccess(req[r].name)
        BY <1>4 DEF LoginFails, LoginCommit
    <2> QED BY <2>1, <2>2
<1>5. ASSUME NEW r \in Reqs,
             LoginNeedsCode(r) \/ LoginVerified(r) \/ OpenSession(r) \/ ChangeCommit(r)
                \/ Confirm(r) \/ RegenerateCommit(r) \/ ResetStart(r) \/ ResetCommit(r)
      PROVE  UNCHANGED throttleVars
    BY <1>5 DEF LoginNeedsCode, LoginVerified, OpenSession, ChangeCommit, Confirm,
                RegenerateCommit, ResetStart, ResetCommit
<1>6. ASSUME NEW r \in Reqs, NEW op \in OwnerOps, NEW t \in Tokens, OwnerStart(r, op, t)
      PROVE  [ThrottleNext]_throttleVars
    BY <1>6 DEF OwnerStart
<1>7. ASSUME NEW r \in Reqs,
             OwnerFails(r) \/ OwnerRefused(r) \/ ChangeVerified(r) \/ Enroll(r) \/ Disable(r)
                \/ RegenerateVerified(r)
      PROVE  [ThrottleNext]_throttleVars
    <2>1. RecordFailure(Owner) \/ RecordSuccess(Owner) \/ UNCHANGED throttleVars
        BY <1>7 DEF OwnerFails, OwnerRefused, ChangeVerified, Enroll, Disable,
                    RegenerateVerified
    <2> QED BY <2>1
<1> QED BY <1>1, <1>3, <1>4, <1>5, <1>6, <1>7 DEF Next

\* What may be said of one name: its count, and what is under way on top of it.
Counted(n) ==
    n \in DOMAIN throttle =>
        /\ throttle[n].failures >= MaxAttempts => throttle[n].lockedUntil # NoLock
        /\ throttle[n].failures + Cardinality(Guessing(n)) <= MaxAttempts - 1 + Cardinality(Reqs)

LEMMA GuessingFinite ==
    ASSUME NEW n
    PROVE  /\ IsFiniteSet(Guessing(n))
           /\ Cardinality(Guessing(n)) \in Nat
           /\ Cardinality(Reqs) \in Nat
           /\ Cardinality(Guessing(n)) <= Cardinality(Reqs)
BY ReqsAssumption, FS_Subset, FS_CardinalityType DEF Guessing

\* The same entry, and nobody new who guesses.
LEMMA CountedStays ==
    ASSUME ShapeInv, GuessInv, NEW n,
           n \in DOMAIN throttle' => n \in DOMAIN throttle /\ throttle'[n] = throttle[n],
           Guessing(n)' \subseteq Guessing(n)
    PROVE  Counted(n)'
<1> SUFFICES ASSUME n \in DOMAIN throttle'
             PROVE  Counted(n)'
    BY DEF Counted
<1>1. n \in DOMAIN throttle /\ throttle'[n] = throttle[n]
    OBVIOUS
<1>2. throttle[n].failures \in Nat
    BY <1>1 DEF GuessInv, TypeInv, ThrottleTypeOK, AttemptState
<1>3. /\ Cardinality(Guessing(n)') \in Nat /\ Cardinality(Guessing(n)) \in Nat
      /\ Cardinality(Guessing(n)') <= Cardinality(Guessing(n))
      /\ Cardinality(Reqs) \in Nat
    BY GuessingFinite, FS_Subset, FS_CardinalityType
<1>4. Cardinality(Guessing(n))' = Cardinality(Guessing(n)')
    OBVIOUS
<1>5. /\ throttle[n].failures >= MaxAttempts => throttle[n].lockedUntil # NoLock
      /\ throttle[n].failures + Cardinality(Guessing(n)) <= MaxAttempts - 1 + Cardinality(Reqs)
    BY <1>1 DEF GuessInv
<1> QED BY <1>1, <1>2, <1>3, <1>4, <1>5, ThrottleAssumption DEF Counted

\* Who may guess after a step that starts nothing.
LEMMA NobodyNew ==
    ASSUME ShapeInv, NEW n,
           \A p \in Reqs :
                req'[p].op \in ({"login"} \cup OwnerOps) \ {"confirm"} /\ req'[p].stage = "checking" =>
                    /\ req[p].op = req'[p].op
                    /\ req[p].stage = req'[p].stage
                    /\ req[p].name = req'[p].name
    PROVE  Guessing(n)' \subseteq Guessing(n)
BY DEF Guessing

\* Steps that count no failure and let nobody new guess.
LEMMA GuessFrame ==
    ASSUME ShapeInv, GuessInv, TypeInv',
           \A n \in DOMAIN throttle' : n \in DOMAIN throttle /\ throttle'[n] = throttle[n],
           \A p \in Reqs :
                req'[p].op \in ({"login"} \cup OwnerOps) \ {"confirm"} /\ req'[p].stage = "checking" =>
                    /\ req[p].op = req'[p].op
                    /\ req[p].stage = req'[p].stage
                    /\ req[p].name = req'[p].name
    PROVE  GuessInv'
<1>1. ASSUME NEW n
      PROVE  Counted(n)'
    <2>1. Guessing(n)' \subseteq Guessing(n)
        BY NobodyNew
    <2> QED BY <2>1, CountedStays
<1> QED BY <1>1 DEF GuessInv, Counted

LEMMA OnlyRemoves ==
    ASSUME NEW n, CheckAttempt(n) \/ RecordSuccess(n) \/ UNCHANGED throttle \/ Tick
    PROVE  \A m \in DOMAIN throttle' : m \in DOMAIN throttle /\ throttle'[m] = throttle[m]
BY MadeRoomKeeps DEF CheckAttempt, RecordSuccess, Tick, Only

\* A request begins only while the count of its name is below the limit.
LEMMA GuessBegins ==
    ASSUME ShapeInv, GuessInv, TypeInv', NEW r \in Reqs, NEW n \in Names,
           CheckAttempt(n), ~Throttled(n),
           \A p \in Reqs : p # r => req'[p] = req[p],
           req'[r].name = n
    PROVE  GuessInv'
<1>1. \A m \in DOMAIN throttle' : m \in DOMAIN throttle /\ throttle'[m] = throttle[m]
    BY OnlyRemoves
<1>2. ASSUME NEW m, m # n
      PROVE  Counted(m)'
    <2>1. Guessing(m)' \subseteq Guessing(m)
        BY <1>2 DEF Guessing
    <2> QED BY <1>1, <2>1, CountedStays
<1>3. Counted(n)'
    <2> SUFFICES ASSUME n \in DOMAIN throttle'
                 PROVE  Counted(n)'
        BY DEF Counted
    <2>1. n \in DOMAIN throttle /\ throttle'[n] = throttle[n]
        BY <1>1
    <2>2. /\ throttle[n].failures \in Nat
          /\ throttle[n].lockedUntil \in Int
          /\ now \in Int
        BY <2>1 DEF GuessInv, TypeInv, ThrottleTypeOK, AttemptState, NoLock
    <2>3. throttle[n].lockedUntil = NoLock
        <3> SUFFICES ASSUME throttle[n].lockedUntil # NoLock
                     PROVE  FALSE
            OBVIOUS
        <3>1. throttle[n].lockedUntil <= now
            BY <2>1, <2>2 DEF Throttled
        <3>2. throttle' = Only(throttle, DOMAIN throttle \ {n})
            BY <2>1, <3>1 DEF CheckAttempt
        <3> QED BY <3>2 DEF Only
    <2>4. throttle[n].failures <= MaxAttempts - 1
        BY <2>1, <2>2, <2>3, ThrottleAssumption DEF GuessInv
    <2>5. /\ Cardinality(Guessing(n)') \in Nat
          /\ Cardinality(Guessing(n)') <= Cardinality(Reqs)
          /\ Cardinality(Reqs) \in Nat
        <3>1. Guessing(n)' \subseteq Reqs
            BY DEF Guessing
        <3> QED BY <3>1, ReqsAssumption, FS_Subset, FS_CardinalityType
    <2>6. Cardinality(Guessing(n))' = Cardinality(Guessing(n)')
        OBVIOUS
    <2> QED BY <2>1, <2>2, <2>3, <2>4, <2>5, <2>6, ThrottleAssumption DEF Counted
<1> QED BY <1>2, <1>3 DEF GuessInv, Counted

\* A counted failure takes the place of the request that made it.
LEMMA GuessFails ==
    ASSUME ShapeInv, GuessInv, TypeInv', NEW n \in Names, NEW r \in Guessing(n),
           RecordFailure(n), End(r)
    PROVE  GuessInv'
<1> DEFINE live == n \in DOMAIN throttle /\ ~IsIdle(throttle[n])
           rest == IF n \in DOMAIN throttle THEN Only(throttle, DOMAIN throttle \ {n})
                   ELSE throttle
<1>0. r \in Reqs /\ req'[r] = Idle /\ \A p \in Reqs : p # r => req'[p] = req[p]
    BY Ending DEF Guessing
<1>1. \A m : Guessing(m)' \subseteq Guessing(m) \ {r}
    BY <1>0 DEF Guessing, Idle, OwnerOps
<1>2. \A m \in DOMAIN throttle' : m # n => m \in DOMAIN throttle /\ throttle'[m] = throttle[m]
    <2>1. /\ DOMAIN rest \subseteq DOMAIN throttle
          /\ \A m \in DOMAIN rest : rest[m] = throttle[m]
        BY DEF Only
    <2>2. CASE live
        BY <2>2 DEF RecordFailure
    <2>3. CASE ~live /\ ~HasRoom(rest)
        <3>1. throttle' = MadeRoom(rest)
            BY <2>3 DEF RecordFailure
        <3> HIDE DEF rest
        <3> QED BY <3>1, <2>1, MadeRoomKeeps
    <2>4. CASE ~live /\ HasRoom(rest)
        <3>1. throttle' = [m \in DOMAIN MadeRoom(rest) \cup {n} |->
                    IF m = n THEN Failed(0, NoLock) ELSE MadeRoom(rest)[m]]
            BY <2>4 DEF RecordFailure
        <3> HIDE DEF rest
        <3> QED BY <3>1, <2>1, MadeRoomKeeps
    <2> QED BY <2>2, <2>3, <2>4
<1>3. ASSUME NEW m, m # n
      PROVE  Counted(m)'
    BY <1>1, <1>2, <1>3, CountedStays
<1>4. Counted(n)'
    <2> SUFFICES ASSUME n \in DOMAIN throttle'
                 PROVE  Counted(n)'
        BY DEF Counted
    <2>1. /\ Cardinality(Guessing(n)') \in Nat /\ Cardinality(Guessing(n)) \in Nat
          /\ Cardinality(Guessing(n)') <= Cardinality(Guessing(n)) - 1
          /\ Cardinality(Guessing(n)) <= Cardinality(Reqs)
          /\ Cardinality(Reqs) \in Nat
        <3>1. Guessing(n)' \subseteq Guessing(n) \ {r}
            BY <1>1
        <3>2. /\ IsFiniteSet(Guessing(n) \ {r})
              /\ Cardinality(Guessing(n) \ {r}) = Cardinality(Guessing(n)) - 1
            BY GuessingFinite, FS_RemoveElement
        <3> QED BY <3>1, <3>2, GuessingFinite, FS_Subset, FS_CardinalityType
    <2>2. Cardinality(Guessing(n))' = Cardinality(Guessing(n)')
        OBVIOUS
    <2>3. now \in Nat
        BY DEF GuessInv, TypeInv, ThrottleTypeOK
    <2>4. CASE live
        <3>1. throttle' = [throttle EXCEPT ![n] = Failed(@.failures, @.lockedUntil)]
            BY <2>4 DEF RecordFailure
        <3>2. throttle'[n] = Failed(throttle[n].failures, throttle[n].lockedUntil)
            BY <2>4, <3>1
        <3>3. throttle[n].failures \in Nat
            BY <2>4 DEF GuessInv, TypeInv, ThrottleTypeOK, AttemptState
        <3>4. /\ throttle'[n].failures = throttle[n].failures + 1
              /\ throttle[n].failures + 1 >= MaxAttempts => throttle'[n].lockedUntil = now + Window
            BY <3>2 DEF Failed
        <3>5. throttle[n].failures + Cardinality(Guessing(n)) <= MaxAttempts - 1 + Cardinality(Reqs)
            BY <2>4 DEF GuessInv
        <3>6. now + Window # NoLock
            BY <2>3, ThrottleAssumption DEF NoLock
        <3> QED BY <2>1, <2>2, <3>3, <3>4, <3>5, <3>6, ThrottleAssumption DEF Counted
    <2>5. CASE ~live
        <3>1. n \notin DOMAIN rest
            BY DEF Only
        <3>2. n \notin DOMAIN MadeRoom(rest)
            <4> HIDE DEF rest
            <4> QED BY <3>1, MadeRoomKeeps
        <3>3. CASE ~HasRoom(rest)
            BY <2>5, <3>2, <3>3 DEF RecordFailure
        <3>4. CASE HasRoom(rest)
            <4>1. throttle'[n] = Failed(0, NoLock)
                BY <2>5, <3>4 DEF RecordFailure
            <4>2. /\ throttle'[n].failures = 1
                  /\ 1 >= MaxAttempts => throttle'[n].lockedUntil = now + Window
                BY <4>1 DEF Failed
            <4>3. now + Window # NoLock
                BY <2>3, ThrottleAssumption DEF NoLock
            <4> QED BY <2>1, <2>2, <4>2, <4>3, ThrottleAssumption DEF Counted
        <3> QED BY <3>3, <3>4
    <2> QED BY <2>4, <2>5
<1> QED BY <1>3, <1>4 DEF GuessInv, Counted

LEMMA GuessStep ==
    ASSUME ShapeInv, GuessInv, [Next]_vars
    PROVE  GuessInv'
<1>0. TypeInv'
    BY StepRefines, TypeStep DEF GuessInv
<1>1. CASE UNCHANGED vars \/ ClockTick \/ SetActive \/ \E t \in Tokens : SessionEnds(t)
    <2>1. (UNCHANGED throttle \/ Tick) /\ UNCHANGED req
        BY <1>1 DEF vars, ClockTick, SetActive, SessionEnds
    <2>2. \A n \in DOMAIN throttle' : n \in DOMAIN throttle /\ throttle'[n] = throttle[n]
        BY <2>1 DEF Tick
    <2> QED BY <1>0, <2>1, <2>2, GuessFrame
<1>2. ASSUME NEW r \in Reqs, NEW n \in Names, LoginStart(r, n)
      PROVE  GuessInv'
    <2>0. CheckAttempt(n)
        BY <1>2 DEF LoginStart
    <2>1. CASE UNCHANGED req
        BY <1>0, <2>0, <2>1, OnlyRemoves, GuessFrame
    <2>2. CASE ~UNCHANGED req
        <3> DEFINE row == IF n = Owner /\ account.active THEN LoginRow ELSE NoRow
                   fresh == Request("login", n, row, NoToken)
                   q == [fresh EXCEPT !.late = PasswordChanging]
        <3>1. row \in {NoRow} \cup LoginRows
            BY DEF LoginRow, LoginRows, Account, NoSecret, NoStep, ShapeInv
        <3> HIDE DEF row
        <3>2. RequestOK(fresh) /\ fresh.name = n
            BY <3>1, NewRequest
        <3> HIDE DEF fresh
        <3>3. q.name = n
            BY <3>2 DEF RequestOK, RequestFields
        <3>4. req' = [req EXCEPT ![r] = q] /\ ~Throttled(n)
            BY <1>2, <2>2 DEF LoginStart, row, fresh
        <3> HIDE DEF q
        <3>5. req'[r].name = n /\ \A p \in Reqs : p # r => req'[p] = req[p]
            BY <3>3, <3>4 DEF ShapeInv
        <3> QED BY <1>0, <2>0, <3>4, <3>5, GuessBegins
    <2> QED BY <2>1, <2>2
<1>3. ASSUME NEW r \in Reqs, LoginFails(r) \/ OwnerFails(r)
      PROVE  GuessInv'
    <2>1. /\ req[r].op \in ({"login"} \cup OwnerOps) \ {"confirm"}
          /\ req[r].stage = "checking" /\ End(r)
        BY <1>3 DEF LoginFails, OwnerFails, At, OwnerOps
    <2>2. /\ req[r].name \in Names
          /\ req[r].op # "login" => req[r].name = Owner
        BY <2>1 DEF ShapeInv, RequestOK, Idle, OwnerOps
    <2>3. RecordFailure(req[r].name)
        BY <1>3, <2>2 DEF LoginFails, OwnerFails, OwnerOps
    <2>4. r \in Guessing(req[r].name)
        BY <2>1 DEF Guessing
    <2> QED BY <1>0, <2>1, <2>2, <2>3, <2>4, GuessFails
<1>4. ASSUME NEW r \in Reqs,
             LoginNeedsCode(r) \/ OpenSession(r) \/ OwnerRefused(r) \/ ChangeCommit(r)
                \/ Enroll(r) \/ Confirm(r) \/ Disable(r) \/ RegenerateCommit(r)
      PROVE  GuessInv'
    <2>1. End(r) /\ (RecordSuccess(Owner) \/ UNCHANGED throttle)
        BY <1>4 DEF LoginNeedsCode, OpenSession, OwnerRefused, ChangeCommit, Enroll, Confirm,
                    Disable, RegenerateCommit
    <2>2. \A p \in Reqs : req'[p].op \in ({"login"} \cup OwnerOps) \ {"confirm"} => req'[p] = req[p]
        BY <2>1, Ending DEF Idle, OwnerOps
    <2>3. \A n \in DOMAIN throttle' : n \in DOMAIN throttle /\ throttle'[n] = throttle[n]
        BY <2>1, OnlyRemoves
    <2> QED BY <1>0, <2>2, <2>3, GuessFrame
<1>5. ASSUME NEW r \in Reqs, LoginVerified(r)
      PROVE  GuessInv'
    <2>1. RequestOK(req[r])
        BY <1>5 DEF LoginVerified, At, Idle, ShapeInv
    <2>2. req'[r].stage = "verified" /\ \A p \in Reqs : p # r => req'[p] = req[p]
        BY <1>5, <2>1 DEF LoginVerified, RequestOK, RequestFields, ShapeInv
    <2> QED BY <1>0, <1>5, <2>2, OnlyRemoves, GuessFrame DEF LoginVerified
<1>6. ASSUME NEW r \in Reqs, LoginCommit(r)
      PROVE  GuessInv'
    <2>1. RequestOK(req[r])
        BY <1>6 DEF LoginCommit, At, Idle, ShapeInv
    <2>2. /\ \A p \in Reqs : p # r => req'[p] = req[p]
          /\ req'[r] = Idle \/ req'[r].stage = "opening"
        BY <1>6, <2>1 DEF LoginCommit, RequestOK, RequestFields, ShapeInv, End
    <2>3. \A p \in Reqs :
            req'[p].op \in ({"login"} \cup OwnerOps) \ {"confirm"} /\ req'[p].stage = "checking" =>
                req'[p] = req[p]
        BY <2>2 DEF Idle, OwnerOps
    <2>4. \A n \in DOMAIN throttle' : n \in DOMAIN throttle /\ throttle'[n] = throttle[n]
        BY <1>6, OnlyRemoves DEF LoginCommit
    <2> QED BY <1>0, <2>3, <2>4, GuessFrame
<1>7. ASSUME NEW r \in Reqs, NEW op \in OwnerOps, NEW t \in Tokens, OwnerStart(r, op, t)
      PROVE  GuessInv'
    <2>0. op # "confirm" => CheckAttempt(Owner)
        BY <1>7 DEF OwnerStart
    <2>1. op = "confirm" => UNCHANGED throttle
        BY <1>7 DEF OwnerStart
    <2>2. CASE UNCHANGED req
        BY <1>0, <2>0, <2>1, <2>2, OnlyRemoves, GuessFrame
    <2>3. CASE ~UNCHANGED req
        <3> DEFINE q == Request(op, Owner, account, t)
        <3>1. req' = [req EXCEPT ![r] = q]
            BY <1>7, <2>3 DEF OwnerStart
        <3>2. q.op = op /\ q.name = Owner
            BY NewRequest, OwnerAssumption DEF OwnerOps, ShapeInv
        <3> HIDE DEF q
        <3>3. /\ req'[r].op = op /\ req'[r].name = Owner
              /\ \A p \in Reqs : p # r => req'[p] = req[p]
            BY <3>1, <3>2 DEF ShapeInv
        <3>4. CASE op = "confirm"
            BY <1>0, <2>1, <3>3, <3>4, OnlyRemoves, GuessFrame
        <3>5. CASE op # "confirm"
            <4>1. ~Throttled(Owner)
                BY <1>7, <2>3, <3>5 DEF OwnerStart
            <4> QED BY <1>0, <2>0, <3>3, <3>5, <4>1, OwnerAssumption, GuessBegins
        <3> QED BY <3>4, <3>5
    <2> QED BY <2>2, <2>3
<1>8. ASSUME NEW r \in Reqs, ChangeVerified(r)
      PROVE  GuessInv'
    <2>1. RequestOK(req[r]) /\ req[r].op = "change"
        BY <1>8 DEF ChangeVerified, Checking, At, Idle, ShapeInv
    <2>2. req' = [LateLogins EXCEPT ![r] = [LateLogins[r] EXCEPT !.stage = "hashing",
                                                                 !.rows = OtherSessions(r)]]
        BY <1>8 DEF ChangeVerified
    <2>3. /\ req'[r].stage = "hashing"
          /\ \A p \in Reqs : p # r => req'[p] = LateLogins[p]
        BY <2>1, <2>2, Marked DEF RequestOK, RequestFields
    <2>4. \A p \in Reqs : req'[p].stage = "checking" =>
            req[p].op = req'[p].op /\ req[p].stage = req'[p].stage /\ req[p].name = req'[p].name
        BY <2>3, Marked DEF RequestFields
    <2> QED BY <1>0, <1>8, <2>4, OnlyRemoves, GuessFrame DEF ChangeVerified
<1>9. ASSUME NEW r \in Reqs, ResetCommit(r)
      PROVE  GuessInv'
    <2>1. \A p \in Reqs : req'[p].op \in {"login"} \cup OwnerOps =>
            req[p].op = req'[p].op /\ req[p].stage = req'[p].stage /\ req[p].name = req'[p].name
        BY <1>9, Marked DEF ResetCommit, Idle, OwnerOps, RequestFields
    <2> QED BY <1>0, <1>9, <2>1, GuessFrame DEF ResetCommit
<1>10. ASSUME NEW r \in Reqs, RegenerateVerified(r)
       PROVE  GuessInv'
    <2>1. RequestOK(req[r])
        BY <1>10 DEF RegenerateVerified, Checking, At, Idle, ShapeInv
    <2>2. /\ \A p \in Reqs : p # r => req'[p] = req[p]
          /\ req'[r].stage = "hashing"
        BY <1>10, <2>1 DEF RegenerateVerified, RequestOK, RequestFields, ShapeInv
    <2> QED BY <1>0, <1>10, <2>2, OnlyRemoves, GuessFrame DEF RegenerateVerified
<1>11. ASSUME NEW r \in Reqs, ResetStart(r)
       PROVE  GuessInv'
    <2> DEFINE q == Request("reset", Owner, account, NoToken)
    <2>1. q.op = "reset"
        BY NewRequest, OwnerAssumption DEF ShapeInv
    <2>2. req' = [req EXCEPT ![r] = q]
        BY <1>11 DEF ResetStart
    <2> HIDE DEF q
    <2>3. req'[r].op = "reset" /\ \A p \in Reqs : p # r => req'[p] = req[p]
        BY <2>1, <2>2 DEF ShapeInv
    <2> QED BY <1>0, <1>11, <2>3, GuessFrame DEF ResetStart, OwnerOps
<1> QED BY <1>1, <1>2, <1>3, <1>4, <1>5, <1>6, <1>7, <1>8, <1>9, <1>10, <1>11 DEF Next

(***************************************************************************)
(* The theorems.                                                           *)
(***************************************************************************)

LEMMA SignInInit ==
    ASSUME Init
    PROVE  ShapeInv /\ SessionsInv /\ EnabledSecretWasConfirmed /\ GuessInv
<1>1. NoSecret \in Nat /\ NoStep \in Int
    BY DEF NoSecret, NoStep
<1>2. account \in Account
    BY <1>1 DEF Init, Account
<1>3. DOMAIN req = Reqs /\ \A r \in Reqs : req[r] = Idle
    BY DEF Init
<1>4. \A r \in Reqs : req[r].op = "idle"
    BY <1>3 DEF Idle
<1>5. ShapeInv
    BY <1>2, <1>3 DEF Init, ShapeInv
<1>6. SessionsInv
    BY <1>4 DEF Init, SessionsInv, OldPasswords, ProvedOrLate, ChangeSeesAll, OldSessionsGone,
                OwnerOps
<1>8. EnabledSecretWasConfirmed
    BY DEF Init, EnabledSecretWasConfirmed
<1>9. GuessInv
    BY DEF Init, ThrottleInit, GuessInv, TypeInv, ThrottleTypeOK
<1> QED BY <1>5, <1>6, <1>8, <1>9

\* Every request under way has the fields its handler relies on.
THEOREM SpecShape == Spec => []ShapeInv
BY SignInInit, ShapeStep, PTL DEF Spec

\* After a change or a reset of the password no session opened with the old one stays,
\* except that of a login that was under way meanwhile, however many requests overlap.
THEOREM SpecOldSessionsGone == Spec => []OldSessionsGone
<1>1. SessionsInv => OldSessionsGone
    BY DEF SessionsInv
<1> QED BY <1>1, SignInInit, ShapeStep, SessionsStep, PTL DEF Spec

\* A second factor in force has been confirmed with a code of its own secret, unless the
\* last change of it had loaded the row before another one: for any number of requests
\* of the owner and the administrator at once.
THEOREM SpecEnabledSecretWasConfirmed == Spec => []EnabledSecretWasConfirmed
BY SignInInit, ShapeStep, FactorStep, PTL DEF Spec

\* The requests that passed the throttle before the first failure add at most one
\* guess each to the limit, for any number of names, requests and attempts.
THEOREM SpecGuessesBounded == Spec => []GuessesBounded
<1>1. GuessInv => GuessesBounded
    <2> SUFFICES ASSUME GuessInv, NEW n \in DOMAIN throttle
                 PROVE  throttle[n].failures <= MaxAttempts + Cardinality(Reqs) - 1
        BY DEF GuessesBounded
    <2>1. throttle[n].failures \in Nat
        BY DEF GuessInv, TypeInv, ThrottleTypeOK, AttemptState
    <2>2. throttle[n].failures + Cardinality(Guessing(n)) <= MaxAttempts - 1 + Cardinality(Reqs)
        BY DEF GuessInv
    <2> QED BY <2>1, <2>2, GuessingFinite, ThrottleAssumption
<1> QED BY <1>1, SignInInit, ShapeStep, GuessStep, PTL DEF Spec

\* The requests use the table through LoginThrottle's operators only, so that what is
\* proved of the table holds under all of them together.
LEMMA SpecRefinesThrottle == Spec => ThrottleSpec
<1>1. Init => ThrottleInit
    BY DEF Init
<1> QED BY <1>1, SignInInit, ShapeStep, StepRefines, PTL DEF Spec, ThrottleSpec

\* No other name's attempts take a live entry out of the table, whatever requests run.
THEOREM SpecNeverEvicted == Spec => NeverEvicted
BY SpecRefinesThrottle, ThrottleSpecNeverEvicted, PTL

=============================================================================
