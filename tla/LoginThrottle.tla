---------------------------- MODULE LoginThrottle ----------------------------
(***************************************************************************)
(* The lockout table of login_throttle.py: one entry per user name that    *)
(* failed a password or a code, in the memory of the process, changed under*)
(* a lock by every request that checks a password.  Time is counted in     *)
(* ticks; only its order and the length of the window matter.              *)
(***************************************************************************)
EXTENDS Integers, FiniteSets

CONSTANTS
    Names,          \* the user names somebody may try
    MaxTracked,     \* _MAX_TRACKED_USERNAMES
    MaxAttempts,    \* login_max_attempts
    Window,         \* login_lockout_seconds, in ticks
    MaxTick         \* bound on the clock

ASSUME ThrottleAssumption ==
    /\ MaxTracked \in Nat \ {0}
    /\ MaxAttempts \in Nat \ {0}
    /\ Window \in Nat \ {0}
    /\ MaxTick \in Nat

VARIABLES
    throttle,   \* _state: an _AttemptState per tracked name
    now         \* time.monotonic()

throttleVars == <<throttle, now>>

\* locked_until of an entry that is not locked
NoLock == -1

AttemptState ==
    [failures: Nat \ {0}, lockedUntil: Nat \cup {NoLock}, lastFailure: Nat]

ThrottleInit ==
    /\ throttle = [n \in {} |-> NoLock]
    /\ now = 1

Tick ==
    /\ now < MaxTick
    /\ now' = now + 1
    /\ UNCHANGED throttle

\* Nothing to remember any more: the lock has run out, or the failures are old.
IsIdle(e) ==
    IF e.lockedUntil # NoLock THEN e.lockedUntil <= now
    ELSE now - e.lastFailure >= Window

Only(table, kept) == [n \in kept |-> table[n]]

\* Mutant: a full table is cleared.
Prune_all(table) == Only(table, {})

\* Removes the idle entries.
Prune(table) == Only(table, {n \in DOMAIN table : ~IsIdle(table[n])})

\* The table as _has_room leaves it, and its answer.
MadeRoom(table) ==
    IF Cardinality(DOMAIN table) < MaxTracked THEN table ELSE Prune(table)

HasRoom(table) == Cardinality(DOMAIN MadeRoom(table)) < MaxTracked

\* Mutant: the lock itself is not looked at.
Throttled_full(n) == n \notin DOMAIN throttle /\ ~HasRoom(throttle)

\* seconds_until_unlocked is not None: locked, or unknown while the table is full.
Throttled(n) ==
    IF n \in DOMAIN throttle
    THEN throttle[n].lockedUntil # NoLock /\ throttle[n].lockedUntil > now
    ELSE ~HasRoom(throttle)

\* What seconds_until_unlocked does to the table on the way.
CheckAttempt(n) ==
    /\ throttle' =
        IF n \notin DOMAIN throttle THEN MadeRoom(throttle)
        ELSE IF throttle[n].lockedUntil # NoLock /\ throttle[n].lockedUntil <= now
             THEN Only(throttle, DOMAIN throttle \ {n})
             ELSE throttle
    /\ UNCHANGED now

\* The entry after one more failure.
Failed(failures, lockedUntil) ==
    [failures |-> failures + 1,
     lockedUntil |-> IF failures + 1 >= MaxAttempts THEN now + Window ELSE lockedUntil,
     lastFailure |-> now]

\* record_failure.  An idle entry starts over; without room the failure is not counted.
RecordFailure(n) ==
    LET live == n \in DOMAIN throttle /\ ~IsIdle(throttle[n])
        rest == IF n \in DOMAIN throttle THEN Only(throttle, DOMAIN throttle \ {n})
                ELSE throttle
        room == MadeRoom(rest)
    IN /\ throttle' =
            IF live
            THEN [throttle EXCEPT ![n] = Failed(@.failures, @.lockedUntil)]
            ELSE IF ~HasRoom(rest) THEN room
            ELSE [m \in DOMAIN room \cup {n} |->
                    IF m = n THEN Failed(0, NoLock) ELSE room[m]]
       /\ UNCHANGED now

\* record_success
RecordSuccess(n) ==
    /\ throttle' = Only(throttle, DOMAIN throttle \ {n})
    /\ UNCHANGED now

ThrottleNext ==
    \/ Tick
    \/ \E n \in Names : CheckAttempt(n) \/ RecordFailure(n) \/ RecordSuccess(n)

ThrottleSpec == ThrottleInit /\ [][ThrottleNext]_throttleVars

(***************************************************************************)
(* Properties.                                                             *)
(***************************************************************************)

ThrottleTypeOK ==
    /\ now \in Nat
    /\ DOMAIN throttle \subseteq Names
    /\ \A n \in DOMAIN throttle : throttle[n] \in AttemptState

\* "The dict is bounded" (login_throttle.py): a flood of names cannot grow it.
TableBounded == Cardinality(DOMAIN throttle) <= MaxTracked

Live(n) == n \in DOMAIN throttle /\ ~IsIdle(throttle[n])

\* "A flood of other usernames must never be able to evict (and so reset) an
\* account's failure count or lockout": a live entry is dropped only by a success of
\* its own name, and its count and lock never go down otherwise.
NeverEvicted ==
    [][\A n \in Names : Live(n) =>
        \/ RecordSuccess(n)
        \/ /\ n \in DOMAIN throttle'
           /\ throttle'[n].failures >= throttle[n].failures
           /\ throttle'[n].lockedUntil >= throttle[n].lockedUntil]_throttleVars

=============================================================================
