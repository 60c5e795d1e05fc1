SPECIFICATION Spec
\* The bounds on the clock and on what is issued let the model stop.
CHECK_DEADLOCK FALSE
CONSTANTS
    Names = {owner, other}
    Owner = owner
    MaxTracked = 1
    MaxAttempts = 1
    Window = 1
    MaxTick = 2
    Reqs = {r1, r2}
    Tokens = {t1, t2}
    NoToken = NoToken
    Drift = 0
    MaxPasswords = 1
    MaxSecrets = 2
    MaxCodes = 2
SYMMETRY MCSymmetry
VIEW MCView
INVARIANTS
    OldSessionsGone
    EnabledSecretWasConfirmed
    GuessesBounded
PROPERTIES
    NeverEvicted
