------------------------------- MODULE SignIn -------------------------------
(***************************************************************************)
(* Signing in to one local account, and what its owner and an              *)
(* administrator change about it meanwhile: api/auth.py, auth/mfa.py,      *)
(* auth/sessions.py, auth/providers/local.py and the account part of       *)
(* api/users.py, over the lockout table of LoginThrottle.                  *)
(*                                                                         *)
(* A request keeps the user row it loaded (the ORM's copy) while it hashes *)
(* passwords, and at its commit writes back only the columns it changed.   *)
(* Passwords and secrets are numbered in the order they are chosen.  Other *)
(* accounts matter only through the table, as Names other than Owner.      *)
(***************************************************************************)
EXTENDS LoginThrottle

CONSTANTS
    Owner,          \* the account's user name
    Reqs,           \* requests under way at once
    Tokens,         \* sessions at once
    NoToken,
    Drift,          \* _TOTP_VALID_WINDOW: the steps a clock may be off either way
    MaxPasswords, MaxSecrets, MaxCodes      \* bounds on how often each is replaced

ASSUME OwnerAssumption == Owner \in Names
\* The server's thread pool is finite.
ASSUME ReqsAssumption == IsFiniteSet(Reqs)
ASSUME TokensAssumption == NoToken \notin Tokens
ASSUME BoundsAssumption ==
    /\ Drift \in Nat
    /\ MaxPasswords \in Nat /\ MaxSecrets \in Nat /\ MaxCodes \in Nat

VARIABLES
    account,    \* the user row
    backup,     \* the rows of its backup codes, each with whether it was used
    sessions,   \* the session rows, by token
    chosen,     \* passwords, secrets and backup codes issued so far
    req,        \* the requests under way
    confirmed,  \* history: the secrets that a code has confirmed
    overtaken   \* history: the last change of the second factor was overtaken

vars == <<throttle, now, account, backup, sessions, chosen, req, confirmed, overtaken>>

NoSecret == 0
NoStep == -1

Totp(secret, step) == [secret |-> secret, step |-> step]
Backup(code) == [code |-> code]
NoFactor == [none |-> TRUE]

\* The rows a request may have read when the user name is unknown or deactivated.
NoRow == [none |-> TRUE]

Idle == [op |-> "idle"]

\* A request: the row it loaded, the second factor it holds, the session or session
\* rows and the backup codes it has read.  The rest is history: the password a login
\* proved and whether a change overlapped it.
Request(op, name, row, token) ==
    [op |-> op, stage |-> "checking", name |-> name, row |-> row, token |-> token,
     factor |-> NoFactor, rows |-> {}, proved |-> 0, late |-> FALSE]

Init ==
    /\ ThrottleInit
    /\ account = [password |-> 0, active |-> TRUE, mustChange |-> FALSE,
                  mfa |-> FALSE, secret |-> NoSecret, lastStep |-> NoStep]
    /\ backup = [c \in {} |-> FALSE]
    /\ sessions = [t \in {} |-> NoRow]
    /\ chosen = [passwords |-> 0, secrets |-> 0, codes |-> 0]
    /\ req = [r \in Reqs |-> Idle]
    /\ confirmed = {}
    /\ overtaken = FALSE

\* What the ORM writes at a commit: the columns that differ from the loaded row.
Written(loaded, changed) ==
    [f \in DOMAIN account |-> IF changed[f] # loaded[f] THEN changed[f] ELSE account[f]]

At(r, stage) == req[r].op # "idle" /\ req[r].stage = stage

End(r) == req' = [req EXCEPT ![r] = Idle]

(***************************************************************************)
(* POST /auth/login.                                                       *)
(***************************************************************************)

\* Some request has read the session rows and not yet committed its new password.
PasswordChanging == \E r \in Reqs : req[r].op = "change" /\ At(r, "hashing")

\* What a login reads of the row: the secret and the last step only if it needs them.
LoginRow ==
    [password |-> account.password, mfa |-> account.mfa,
     secret |-> IF account.mfa THEN account.secret ELSE NoSecret,
     lastStep |-> IF account.mfa THEN account.lastStep ELSE NoStep]

\* The throttle is asked, then the user row is read; the password is checked next.
LoginStart(r, n) ==
    /\ req[r] = Idle
    /\ CheckAttempt(n)
    /\ IF Throttled(n) THEN UNCHANGED req
       ELSE req' = [req EXCEPT ![r] =
                [Request("login", n, IF n = Owner /\ account.active THEN LoginRow ELSE NoRow,
                         NoToken)
                    EXCEPT !.late = PasswordChanging]]
    /\ UNCHANGED <<account, backup, sessions, chosen, confirmed, overtaken>>

\* Wrong password, or wrong code: the failure is counted.
LoginFails(r) ==
    /\ req[r].op = "login" /\ At(r, "checking")
    /\ RecordFailure(req[r].name)
    /\ End(r)
    /\ UNCHANGED <<account, backup, sessions, chosen, confirmed, overtaken>>

\* The right password, but no code although one is needed: not counted.
LoginNeedsCode(r) ==
    /\ req[r].op = "login" /\ At(r, "checking")
    /\ req[r].row # NoRow /\ req[r].row.mfa
    /\ End(r)
    /\ UNCHANGED <<throttle, now, account, backup, sessions, chosen, confirmed, overtaken>>

\* The time steps _consume_totp_code accepts for a row it has loaded.
FreshSteps(row) ==
    {k \in (now - Drift)..(now + Drift) : row.lastStep = NoStep \/ k > row.lastStep}

\* The candidates _consume_backup_code reads.
UnusedCodes == {c \in DOMAIN backup : ~backup[c]}

\* The second factors that verify_mfa_code accepts now.
AcceptedFactors(row) ==
    IF ~row.mfa THEN {NoFactor}
    ELSE IF row.secret = NoSecret THEN {}
    ELSE {Totp(row.secret, k) : k \in FreshSteps(row)} \cup {Backup(c) : c \in UnusedCodes}

\* The right password, and the right code where one is needed.
LoginVerified(r) ==
    /\ req[r].op = "login" /\ At(r, "checking")
    /\ req[r].row # NoRow
    /\ \E factor \in AcceptedFactors(req[r].row) :
        req' = [req EXCEPT ![r].stage = "verified", ![r].factor = factor,
                           ![r].row = NoRow, ![r].proved = req[r].row.password]
    /\ UNCHANGED <<throttle, now, account, backup, sessions, chosen, confirmed, overtaken>>

IsTotp(factor) == "step" \in DOMAIN factor
IsBackup(factor) == "code" \in DOMAIN factor

\* The commit rewrites the code's row, even one used by now, but fails when the
\* row is gone.
StillThere(factor) == IsBackup(factor) => factor.code \in DOMAIN backup

\* record_success and complete_login, which commits the code's use.
LoginCommit(r) ==
    /\ req[r].op = "login" /\ At(r, "verified")
    /\ RecordSuccess(req[r].name)
    /\ LET factor == req[r].factor
       IN IF ~StillThere(factor)
          THEN /\ End(r)
               /\ UNCHANGED <<account, backup>>
          ELSE /\ req' = [req EXCEPT ![r].stage = "opening", ![r].factor = NoFactor]
               /\ account' = IF IsTotp(factor) THEN [account EXCEPT !.lastStep = factor.step]
                             ELSE account
               /\ backup' = [c \in DOMAIN backup |-> backup[c] \/ factor = Backup(c)]
    /\ UNCHANGED <<sessions, chosen, confirmed, overtaken>>

FreshTokens == Tokens \ (DOMAIN sessions \cup {req[r].token : r \in {q \in Reqs : req[q] # Idle}})

\* create_session: a token nobody holds.  The history part of the row is the
\* password it was opened with and whether a change overlapped the login.
OpenSession(r) ==
    /\ req[r].op = "login" /\ At(r, "opening")
    /\ \E t \in FreshTokens :
        sessions' = [s \in DOMAIN sessions \cup {t} |->
            IF s = t THEN [password |-> req[r].proved, late |-> req[r].late]
            ELSE sessions[s]]
    /\ End(r)
    /\ UNCHANGED <<throttle, now, account, backup, chosen, confirmed, overtaken>>

(***************************************************************************)
(* Sessions.                                                               *)
(***************************************************************************)

Without(tokens) == [t \in DOMAIN sessions \ tokens |-> sessions[t]]

\* logout, revoke_session, or the session expires and is purged.
SessionEnds(t) ==
    /\ t \in DOMAIN sessions
    /\ sessions' = Without({t})
    /\ UNCHANGED <<throttle, now, account, backup, chosen, req, confirmed, overtaken>>

(***************************************************************************)
(* The owner's requests: change-password and /mfa/*.                       *)
(***************************************************************************)

OwnerOps == {"change", "enroll", "confirm", "disable", "regenerate"}

\* get_current_user, or get_current_active_user where a forced change refuses it.
Authenticated(op, t) ==
    /\ t \in DOMAIN sessions
    /\ account.active
    /\ op # "change" => ~account.mustChange

\* The session is checked and the row loaded; all but confirm ask the throttle
\* before the password is checked.
OwnerStart(r, op, t) ==
    /\ req[r] = Idle
    /\ Authenticated(op, t)
    /\ IF op = "confirm" THEN UNCHANGED <<throttle, now>> ELSE CheckAttempt(Owner)
    /\ IF op # "confirm" /\ Throttled(Owner) THEN UNCHANGED req
       ELSE req' = [req EXCEPT ![r] = Request(op, Owner, account, t)]
    /\ UNCHANGED <<account, backup, sessions, chosen, confirmed, overtaken>>

Checking(r, op) == req[r].op = op /\ At(r, "checking")

\* The wrong password.
OwnerFails(r) ==
    /\ req[r].op \in OwnerOps \ {"confirm"} /\ At(r, "checking")
    /\ RecordFailure(Owner)
    /\ End(r)
    /\ UNCHANGED <<account, backup, sessions, chosen, confirmed, overtaken>>

\* The right password at the wrong time (400), or a confirmation that fails.
OwnerRefused(r) ==
    /\ \/ /\ Checking(r, "enroll") /\ req[r].row.mfa
          /\ RecordSuccess(Owner)
       \/ /\ Checking(r, "regenerate") /\ ~req[r].row.mfa
          /\ RecordSuccess(Owner)
       \/ /\ Checking(r, "confirm")
          /\ UNCHANGED <<throttle, now>>
    /\ End(r)
    /\ UNCHANGED <<account, backup, sessions, chosen, confirmed, overtaken>>

\* The logins under way, as the history sees them, once a change has read the rows.
LateLogins ==
    [q \in Reqs |-> IF req[q].op = "login" THEN [req[q] EXCEPT !.late = TRUE] ELSE req[q]]

\* Mutant: only the caller's own session is ended.
OtherSessions_own(r) == {req[r].token}

\* The rows revoke_all_sessions finds.
OtherSessions(r) == DOMAIN sessions \ {req[r].token}

\* change-password: the other sessions are read and marked for deletion; the new
\* password is hashed next.
ChangeVerified(r) ==
    /\ Checking(r, "change")
    /\ RecordSuccess(Owner)
    /\ req' = [LateLogins EXCEPT ![r].stage = "hashing", ![r].rows = OtherSessions(r)]
    /\ UNCHANGED <<account, backup, sessions, chosen, confirmed, overtaken>>

\* change_password commits.
ChangeCommit(r) ==
    /\ req[r].op = "change" /\ At(r, "hashing")
    /\ chosen.passwords < MaxPasswords
    /\ LET new == chosen.passwords + 1
           own == req[r].token
       IN /\ chosen' = [chosen EXCEPT !.passwords = new]
          /\ account' = Written(req[r].row,
                [req[r].row EXCEPT !.password = new, !.mustChange = FALSE])
          /\ sessions' = [t \in DOMAIN sessions \ req[r].rows |->
                IF t = own THEN [sessions[t] EXCEPT !.password = new] ELSE sessions[t]]
    /\ End(r)
    /\ UNCHANGED <<throttle, now, backup, confirmed, overtaken>>

\* The row's second factor is not what the request loaded.
FactorMoved(r) ==
    account.mfa # req[r].row.mfa \/ account.secret # req[r].row.secret

\* Mutant: enroll without its check.
MayEnroll_always(row) == TRUE

MayEnroll(row) == ~row.mfa

\* start_enrollment: a new pending secret.
Enroll(r) ==
    /\ Checking(r, "enroll") /\ MayEnroll(req[r].row)
    /\ chosen.secrets < MaxSecrets
    /\ RecordSuccess(Owner)
    /\ LET new == chosen.secrets + 1
       IN /\ chosen' = [chosen EXCEPT !.secrets = new]
          /\ account' = Written(req[r].row, [req[r].row EXCEPT !.secret = new])
    /\ overtaken' = FactorMoved(r)
    /\ End(r)
    /\ UNCHANGED <<backup, sessions, confirmed>>

NewCode == chosen.codes + 1
IssueCode ==
    /\ chosen.codes < MaxCodes
    /\ chosen' = [chosen EXCEPT !.codes = NewCode]

\* confirm_enrollment: the code fits the loaded secret; the query for the old backup
\* codes writes the row and takes the lock, the new codes come with it.
Confirm(r) ==
    /\ Checking(r, "confirm") /\ req[r].row.secret # NoSecret
    /\ IssueCode
    /\ \E k \in FreshSteps(req[r].row) :
        account' = Written(req[r].row, [req[r].row EXCEPT !.mfa = TRUE, !.lastStep = k])
    /\ backup' = [c \in {NewCode} |-> FALSE]
    /\ confirmed' = confirmed \cup {req[r].row.secret}
    /\ overtaken' = FactorMoved(r)
    /\ End(r)
    /\ UNCHANGED <<throttle, now, sessions>>

\* disable_mfa, with the backup codes.
Disable(r) ==
    /\ Checking(r, "disable")
    /\ RecordSuccess(Owner)
    /\ account' = Written(req[r].row,
            [req[r].row EXCEPT !.mfa = FALSE, !.secret = NoSecret, !.lastStep = NoStep])
    /\ backup' = [c \in {} |-> FALSE]
    /\ overtaken' = FactorMoved(r)
    /\ End(r)
    /\ UNCHANGED <<sessions, chosen, confirmed>>

\* regenerate_backup_codes reads the old codes; the new ones are hashed next.
RegenerateVerified(r) ==
    /\ Checking(r, "regenerate") /\ req[r].row.mfa
    /\ RecordSuccess(Owner)
    /\ req' = [req EXCEPT ![r].stage = "hashing", ![r].rows = DOMAIN backup]
    /\ UNCHANGED <<account, backup, sessions, chosen, confirmed, overtaken>>

RegenerateCommit(r) ==
    /\ req[r].op = "regenerate" /\ At(r, "hashing")
    /\ IssueCode
    /\ backup' = [c \in (DOMAIN backup \ req[r].rows) \cup {NewCode} |->
                    IF c = NewCode THEN FALSE ELSE backup[c]]
    /\ End(r)
    /\ UNCHANGED <<throttle, now, account, sessions, confirmed, overtaken>>

(***************************************************************************)
(* The administrator.                                                      *)
(***************************************************************************)

ResetStart(r) ==
    /\ req[r] = Idle
    /\ req' = [req EXCEPT ![r] = Request("reset", Owner, account, NoToken)]
    /\ UNCHANGED <<throttle, now, account, backup, sessions, chosen, confirmed, overtaken>>

\* reset_password, once the temporary one is hashed: the query for the sessions
\* writes the row first and takes the lock, so the rows read are all there are.
ResetCommit(r) ==
    /\ Checking(r, "reset")
    /\ chosen.passwords < MaxPasswords
    /\ LET new == chosen.passwords + 1
       IN /\ chosen' = [chosen EXCEPT !.passwords = new]
          /\ account' = Written(req[r].row,
                [req[r].row EXCEPT !.password = new, !.mustChange = TRUE])
    /\ sessions' = Without(DOMAIN sessions)
    /\ req' = [LateLogins EXCEPT ![r] = Idle]
    /\ UNCHANGED <<throttle, now, backup, confirmed, overtaken>>

\* deactivate_user, or update_user with "active".
SetActive ==
    /\ account' = [account EXCEPT !.active = ~@]
    /\ UNCHANGED <<throttle, now, backup, sessions, chosen, req, confirmed, overtaken>>

ClockTick ==
    /\ Tick
    /\ UNCHANGED <<account, backup, sessions, chosen, req, confirmed, overtaken>>

Next ==
    \/ ClockTick \/ SetActive
    \/ \E t \in Tokens : SessionEnds(t)
    \/ \E r \in Reqs :
        \/ \E n \in Names : LoginStart(r, n)
        \/ LoginFails(r) \/ LoginNeedsCode(r) \/ LoginVerified(r) \/ LoginCommit(r)
        \/ OpenSession(r)
        \/ \E op \in OwnerOps, t \in Tokens : OwnerStart(r, op, t)
        \/ OwnerFails(r) \/ OwnerRefused(r) \/ ChangeVerified(r) \/ ChangeCommit(r)
        \/ Enroll(r) \/ Confirm(r) \/ Disable(r)
        \/ RegenerateVerified(r) \/ RegenerateCommit(r)
        \/ ResetStart(r) \/ ResetCommit(r)

Spec == Init /\ [][Next]_vars

(***************************************************************************)
(* Properties.                                                             *)
(***************************************************************************)

\* "After a password change or an admin reset, a session opened with the old
\* password must not stay valid" (sessions.py): none does, but for a login that was
\* under way during the change.
OldSessionsGone ==
    \A t \in DOMAIN sessions :
        sessions[t].password = account.password \/ sessions[t].late

\* A second factor is only in force after a code of its own secret has shown that
\* the owner's device works (mfa.py, start_enrollment), in whatever order enrollments,
\* confirmations, withdrawals and changes of other columns from several tabs commit.
\* The one exception: the last request to change the second factor had loaded it
\* before another one did.  The next such request that is not overtaken repairs it.
EnabledSecretWasConfirmed == account.mfa => account.secret \in confirmed \/ overtaken

\* A second factor is never in force without its device's confirmation.  Not kept:
\* see EnabledSecretWasConfirmed.
NoUnconfirmedSecret == account.mfa => account.secret \in confirmed

\* The login's commit goes through with its second factor.
GetsIn(r) ==
    /\ req[r].op = "login" /\ At(r, "verified")
    /\ req'[r] # Idle /\ req'[r].stage = "opening"

\* Backup codes are single-use (mfa.py, _consume_totp_code: "already makes
\* single-use"): a login never gets in with one that has been used.  Not kept: two
\* logins may both read the code before either commits its use.
BackupCodesOnce ==
    [][\A r \in Reqs : GetsIn(r) /\ IsBackup(req[r].factor) =>
        ~backup[req[r].factor.code]]_vars

\* Requests that all passed the throttle before the first of them failed can add
\* their guesses to the limit, one each, and no more.
GuessesBounded ==
    \A n \in DOMAIN throttle :
        throttle[n].failures <= MaxAttempts + Cardinality(Reqs) - 1

\* "A code is only accepted if its time-step counter is strictly newer than the last
\* one this user successfully used" (mfa.py): while a secret is in force the last
\* used step does not go back, which would let the later codes be used again.  The code
\* does not keep it: the step is read before a password check and written after it.
LastStepNeverGoesBack ==
    [][account.mfa /\ account'.mfa /\ account'.secret = account.secret =>
        account'.lastStep >= account.lastStep]_vars

=============================================================================
