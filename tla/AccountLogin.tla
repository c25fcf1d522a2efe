----------------------------- MODULE AccountLogin -----------------------------
(***************************************************************************)
(* The login of one active account: the count of failures and the lock it  *)
(* leads to, the second factor and its enrolment, and the password reset   *)
(* that clears a lock (services/auth_service.py).                          *)
(*                                                                         *)
(* The handlers are synchronous functions run by a pool of threads.  Each  *)
(* loads the User row, spends a while on a password hash or a code, and    *)
(* commits the columns it has changed against what it loaded.              *)
(*                                                                         *)
(* Definitions marked "Fault:" are not part of the model: each is a        *)
(* plausible mistake in the definition that follows it.                    *)
(***************************************************************************)
EXTENDS Naturals

CONSTANTS
    Threads,      \* the pool: how many handlers are at work at once
    MaxAttempts,  \* settings.login_max_attempts
    MaxSecrets    \* bound: second factors set up

ASSUME LoginAssumption == MaxAttempts \in Nat \ {0} /\ MaxSecrets \in Nat

VARIABLES
    failed,     \* User.failed_login_count
    locked,     \* User.locked_until: absent, in the future, or past
    secret,     \* User.mfa_secret (0: none)
    enabled,    \* User.mfa_enabled
    at,         \* what each thread is doing, with the row it has loaded
    (* history *)
    secrets,    \* second factors set up so far
    confirmed,  \* those a code has been checked against by mfa_activate
    row,        \* failed logins in a row, none overlapping another
    tainted     \* has a change of the factor committed after being overtaken?

lockVars == <<failed, locked, row>>
factorVars == <<secret, enabled, secrets, confirmed, tainted>>
vars == <<lockVars, factorVars, at>>

Locks == {"none", "future", "past"}
Secret == 0..MaxSecrets

Logins == {"login", "factor"}
FactorChanges == {"setup", "activate", "disable"}

\* The row a handler has loaded, and what has happened since: another login or
\* reset overlaps it, the account has been locked, the factor has been changed.
Handler ==
    [stage : {"idle", "reset"} \cup Logins \cup FactorChanges,
     failed : Nat, locked : Locks, secret : Secret, enabled : BOOLEAN,
     beside : BOOLEAN, lockLate : BOOLEAN, factorLate : BOOLEAN]

Idle == [stage |-> "idle", failed |-> 0, locked |-> "none", secret |-> 0, enabled |-> FALSE,
         beside |-> FALSE, lockLate |-> FALSE, factorLate |-> FALSE]

Init ==
    /\ failed = 0 /\ locked = "none"
    /\ secret = 0 /\ enabled = FALSE
    /\ at = [t \in Threads |-> Idle]
    /\ secrets = 0 /\ confirmed = {} /\ row = 0 /\ tainted = FALSE

-------------------------------------------------------------------------------
Stage(t) == at[t].stage

\* A thread starts a handler, which loads the row.
Load(t, stage) ==
    /\ Stage(t) = "idle"
    /\ LET others == {u \in Threads : Stage(u) \in {"login", "reset"}}
           counts == stage \in {"login", "reset"}
       IN  at' = [u \in Threads |->
             IF u = t
             THEN [stage |-> stage, failed |-> failed, locked |-> locked,
                   secret |-> secret, enabled |-> enabled,
                   beside |-> counts /\ others # {},
                   lockLate |-> FALSE, factorLate |-> FALSE]
             ELSE IF counts /\ u \in others THEN [at[u] EXCEPT !.beside = TRUE] ELSE at[u]]

Done(t) == at' = [at EXCEPT ![t] = Idle]

\* A commit writes a column if the handler changed it from what it loaded.
Write(loaded, new, now) == IF new = loaded THEN now ELSE new

-------------------------------------------------------------------------------
(* authenticate().                                                         *)

NotLocked == locked # "future"

LoginLoad(t) ==
    /\ NotLocked
    /\ Load(t, "login")
    /\ UNCHANGED <<lockVars, factorVars>>

Enough(n) == n >= MaxAttempts

\* Fault: the failure is not recorded.
Uncounted(n) == n - 1

Counted(n) == n

\* A wrong password counts, and may lock the account.
LoginWrong(t) ==
    /\ Stage(t) = "login"
    /\ LET h == at[t]
           n == h.failed + 1
           locking == Enough(n)
       IN  /\ failed' = Write(h.failed, IF locking THEN 0 ELSE Counted(n), failed)
           /\ locked' = IF locking THEN "future" ELSE locked
           /\ row' = IF h.beside THEN 0 ELSE row + 1
           /\ at' = [u \in Threads |->
                IF u = t THEN Idle
                ELSE IF locking /\ Stage(u) \in Logins
                     THEN [at[u] EXCEPT !.lockLate = TRUE]
                     ELSE at[u]]
    /\ UNCHANGED factorVars

\* The right password clears the count and the lock.
LoginRight(t) ==
    /\ Stage(t) = "login"
    /\ failed' = Write(at[t].failed, 0, failed)
    /\ locked' = Write(at[t].locked, "none", locked)
    /\ row' = 0
    /\ at' = [at EXCEPT ![t].stage = "factor"]
    /\ UNCHANGED factorVars

\* The lock runs out.
LockExpires ==
    /\ locked = "future"
    /\ locked' = "past"
    /\ row' = 0
    /\ UNCHANGED <<failed, factorVars, at>>

\* A code is named for the secret it is computed from (0: no code, or a wrong one).
Code == Secret

\* Fault: a code is asked for, and not checked.
AnyCode(h, code) == h.enabled => code # 0

\* enforce_mfa() and verify(): a code of the secret, if the factor is in force.
FactorGiven(h, code) == h.enabled => code # 0 /\ code = h.secret

\* enforce_mfa() lets the user pass, and a session is issued ...
Grant(t, code) ==
    /\ Stage(t) = "factor"
    /\ FactorGiven(at[t], code)
    /\ Done(t)
    /\ UNCHANGED <<lockVars, factorVars>>

\* ... or refuses.
Refuse(t, code) ==
    /\ Stage(t) = "factor"
    /\ ~ FactorGiven(at[t], code)
    /\ Done(t)
    /\ UNCHANGED <<lockVars, factorVars>>

-------------------------------------------------------------------------------
(* reset_password() clears the count and the lock.                         *)

ResetLoad(t) ==
    /\ Load(t, "reset")
    /\ UNCHANGED <<lockVars, factorVars>>

ResetCommit(t) ==
    /\ Stage(t) = "reset"
    /\ failed' = Write(at[t].failed, 0, failed)
    /\ locked' = Write(at[t].locked, "none", locked)
    /\ row' = 0
    /\ Done(t)
    /\ UNCHANGED factorVars

-------------------------------------------------------------------------------
(* The second factor.  get_current_user() loads the row.                   *)

FactorLoad(t, change) ==
    /\ Load(t, change)
    /\ UNCHANGED <<lockVars, factorVars>>

\* A change of the factor is committed: it overtakes whoever has loaded the row.
FactorCommit(t) ==
    /\ tainted' = (tainted \/ at[t].factorLate)
    /\ at' = [u \in Threads |->
         IF u = t THEN Idle
         ELSE IF Stage(u) \in Logins \cup FactorChanges
              THEN [at[u] EXCEPT !.factorLate = TRUE]
              ELSE at[u]]
    /\ UNCHANGED lockVars

\* Fault: what is there stays enabled.
StaysEnabled(h) == enabled

\* A new factor is not in force until it is confirmed.
Unenforced(h) == Write(h.enabled, FALSE, enabled)

\* mfa_begin_setup(): a new secret, unless one is waiting to be confirmed.
MfaSetup(t) ==
    /\ Stage(t) = "setup"
    /\ at[t].secret = 0 \/ at[t].enabled
    /\ secrets < MaxSecrets
    /\ secrets' = secrets + 1
    /\ secret' = secrets + 1
    /\ enabled' = Unenforced(at[t])
    /\ FactorCommit(t)
    /\ UNCHANGED confirmed

\* mfa_activate() with a code of the secret it has loaded.
MfaActivate(t) ==
    /\ Stage(t) = "activate"
    /\ at[t].secret # 0
    /\ confirmed' = confirmed \cup {at[t].secret}
    /\ enabled' = Write(at[t].enabled, TRUE, enabled)
    /\ FactorCommit(t)
    /\ UNCHANGED <<secret, secrets>>

\* mfa_disable() with a code of the secret it has loaded.
MfaDisable(t) ==
    /\ Stage(t) = "disable"
    /\ at[t].enabled /\ at[t].secret # 0
    /\ enabled' = Write(at[t].enabled, FALSE, enabled)
    /\ secret' = Write(at[t].secret, 0, secret)
    /\ FactorCommit(t)
    /\ UNCHANGED <<secrets, confirmed>>

\* An early return, or a wrong code.
FactorRefused(t) ==
    /\ Stage(t) \in FactorChanges
    /\ Stage(t) = "setup" => at[t].secret # 0 /\ ~ at[t].enabled
    /\ Done(t)
    /\ UNCHANGED <<lockVars, factorVars>>

-------------------------------------------------------------------------------
Next ==
    \/ LockExpires
    \/ \E t \in Threads :
         \/ LoginLoad(t) \/ LoginWrong(t) \/ LoginRight(t)
         \/ \E code \in Code : Grant(t, code) \/ Refuse(t, code)
         \/ ResetLoad(t) \/ ResetCommit(t)
         \/ \E change \in FactorChanges : FactorLoad(t, change)
         \/ MfaSetup(t) \/ MfaActivate(t) \/ MfaDisable(t) \/ FactorRefused(t)

Spec == Init /\ [][Next]_vars

-------------------------------------------------------------------------------
(* Properties.                                                             *)

TypeOK ==
    /\ failed \in 0..(MaxAttempts - 1)
    /\ locked \in Locks
    /\ secret \in Secret
    /\ enabled \in BOOLEAN
    /\ at \in [Threads -> Handler]
    /\ secrets \in 0..MaxSecrets
    /\ confirmed \subseteq 1..MaxSecrets
    /\ row \in 0..MaxAttempts
    /\ tainted \in BOOLEAN

\* After MaxAttempts failures in a row, each begun after the one before it was
\* over, the account is locked, whatever has happened to the count before
\* (authenticate; overlapping failures may count as one).
FailuresLock == row >= MaxAttempts => locked = "future"

\* The right password lifts no lock, and a login is granted to no locked account,
\* unless the lock was set after the login had looked for it; and it is granted for a
\* code of the factor now in force, unless a change of the factor overtook it
\* (authenticate, enforce_mfa, mfa_activate).
GrantsAreEntitled ==
    [][\A t \in Threads, code \in Code :
         /\ locked = "future" /\ (LoginRight(t) \/ Grant(t, code)) => at[t].lockLate
         /\ Grant(t, code) /\ enabled => at[t].factorLate \/ (code # 0 /\ code = secret)]_vars

\* A factor in force has been confirmed with a code, so that its owner can pass
\* it, unless a change of the factor committed that another one had overtaken
\* (mfa_begin_setup, mfa_activate, mfa_disable).
EnforcedIsConfirmed == enabled => secret \in confirmed \/ tainted

-------------------------------------------------------------------------------
(* The inductive invariant.                                                *)

\* A login that nothing has overlapped holds the count as it stands, and is alone.
AloneIsCurrent ==
    \A t \in Threads : Stage(t) = "login" /\ ~ at[t].beside =>
        /\ at[t].failed = failed
        /\ locked # "future"
        /\ \A u \in Threads \ {t} : Stage(u) \notin {"login", "reset"}

\* Whoever is logging in to a locked account has been overtaken by the lock.
LockedOvertakes ==
    locked = "future" => \A t \in Threads : Stage(t) \in Logins => at[t].lockLate

\* A handler no change of the factor has overtaken holds the factor as it stands.
FactorIsCurrent ==
    \A t \in Threads : Stage(t) \in Logins \cup FactorChanges /\ ~ at[t].factorLate =>
        at[t].secret = secret /\ at[t].enabled = enabled

\* Without a lock, no failure in a row has been missed.
RowIsCounted == locked # "future" => row =< failed

LoginInv ==
    /\ TypeOK
    /\ AloneIsCurrent
    /\ LockedOvertakes
    /\ FactorIsCurrent
    /\ RowIsCounted
    /\ EnforcedIsConfirmed
===============================================================================
