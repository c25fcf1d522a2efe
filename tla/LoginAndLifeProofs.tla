-------------------------- MODULE LoginAndLifeProofs --------------------------
(***************************************************************************)
(* Proofs about two components that share nothing but their size.  About   *)
(* AccountLogin: for any pool of threads and any number of attempts,       *)
(* failures in a row lock the account, no login is granted against a lock  *)
(* or a factor it was not overtaken by, and the factor in force is one     *)
(* that was confirmed.  About DeviceLife: for any number of runs of the    *)
(* agent, the update floor outlives kills, renamings and torn writes, or   *)
(* goes with the state file, and the sweep implements the abstract watch   *)
(* SilenceWatch.                                                           *)
(***************************************************************************)
EXTENDS AccountLogin, DeviceLife, TLAPS

-------------------------------------------------------------------------------
(* AccountLogin.                                                           *)

LEMMA IdleIsHandler == Idle \in Handler
  BY LoginAssumption DEF Idle, Handler, Locks, Secret

LEMMA InitLogin == Init => LoginInv
  <1> SUFFICES ASSUME Init PROVE LoginInv
    OBVIOUS
  <1>1. TypeOK
    <2>1. at \in [Threads -> Handler]
      BY IdleIsHandler DEF Init
    <2>2. failed \in 0..(MaxAttempts - 1) /\ row \in 0..MaxAttempts
      BY LoginAssumption DEF Init
    <2>3. secret \in Secret /\ secrets \in 0..MaxSecrets /\ confirmed \subseteq 1..MaxSecrets
      BY LoginAssumption DEF Init, Secret
    <2> QED
      BY <2>1, <2>2, <2>3 DEF Init, TypeOK, Locks
  <1>2. AloneIsCurrent /\ LockedOvertakes /\ FactorIsCurrent
    BY DEF Init, AloneIsCurrent, LockedOvertakes, FactorIsCurrent, Stage, Idle, Logins, FactorChanges
  <1>3. RowIsCounted /\ EnforcedIsConfirmed
    BY DEF Init, RowIsCounted, EnforcedIsConfirmed
  <1> QED
    BY <1>1, <1>2, <1>3 DEF LoginInv

-------------------------------------------------------------------------------
(* Loading the row.                                                        *)

\* A thread that loads the row holds it as it stands.
LEMMA LoadKeeps ==
  ASSUME LoginInv, NEW t \in Threads, NEW stage \in {"login", "reset"} \cup FactorChanges,
         Load(t, stage), stage = "login" => NotLocked,
         UNCHANGED <<lockVars, factorVars>>
  PROVE  LoginInv'
  <1> USE DEF lockVars, factorVars, Stage, Logins, FactorChanges
  <1>0. TypeOK /\ AloneIsCurrent /\ LockedOvertakes /\ FactorIsCurrent /\ RowIsCounted
        /\ EnforcedIsConfirmed
    BY DEF LoginInv
  <1>h. /\ failed \in Nat /\ locked \in Locks /\ secret \in Secret /\ enabled \in BOOLEAN
        /\ at \in [Threads -> Handler]
    BY <1>0, LoginAssumption DEF TypeOK
  <1>1. at' \in [Threads -> Handler]
    BY <1>h DEF Load, Handler
  <1>2. TypeOK'
    BY <1>0, <1>1 DEF TypeOK
  <1>3. /\ at'[t].stage = stage
        /\ at'[t].failed = failed /\ at'[t].secret = secret /\ at'[t].enabled = enabled
        /\ at'[t].beside = (stage \in {"login", "reset"}
                            /\ {u \in Threads : Stage(u) \in {"login", "reset"}} # {})
    BY <1>h DEF Load
  <1>4. \A u \in Threads \ {t} :
          /\ at'[u].stage = at[u].stage
          /\ at'[u].failed = at[u].failed /\ at'[u].secret = at[u].secret
          /\ at'[u].enabled = at[u].enabled
          /\ at'[u].lockLate = at[u].lockLate /\ at'[u].factorLate = at[u].factorLate
          /\ at'[u].beside = (at[u].beside \/ (stage \in {"login", "reset"}
                                              /\ at[u].stage \in {"login", "reset"}))
    BY <1>h DEF Load, Handler
  <1>5. AloneIsCurrent'
    BY <1>0, <1>3, <1>4 DEF AloneIsCurrent, NotLocked
  <1>6. LockedOvertakes'
    BY <1>0, <1>3, <1>4 DEF LockedOvertakes, NotLocked
  <1>7. FactorIsCurrent'
    BY <1>0, <1>3, <1>4 DEF FactorIsCurrent
  <1>8. RowIsCounted' /\ EnforcedIsConfirmed'
    BY <1>0 DEF RowIsCounted, EnforcedIsConfirmed
  <1> QED
    BY <1>2, <1>5, <1>6, <1>7, <1>8 DEF LoginInv

\* A thread that is done is held to nothing.
LEMMA DoneKeeps ==
  ASSUME LoginInv, NEW t \in Threads, Done(t), UNCHANGED <<lockVars, factorVars>>
  PROVE  LoginInv'
  <1> USE DEF lockVars, factorVars, Stage, Logins, FactorChanges
  <1>0. TypeOK /\ AloneIsCurrent /\ LockedOvertakes /\ FactorIsCurrent /\ RowIsCounted
        /\ EnforcedIsConfirmed
    BY DEF LoginInv
  <1>1. at' = [at EXCEPT ![t] = Idle] /\ at \in [Threads -> Handler]
    BY <1>0 DEF TypeOK, Done
  <1>2. TypeOK'
    BY <1>0, <1>1, IdleIsHandler DEF TypeOK
  <1>3. at'[t].stage = "idle" /\ \A u \in Threads \ {t} : at'[u] = at[u]
    BY <1>1 DEF Idle
  <1>4. AloneIsCurrent' /\ LockedOvertakes' /\ FactorIsCurrent'
    BY <1>0, <1>3 DEF AloneIsCurrent, LockedOvertakes, FactorIsCurrent
  <1>5. RowIsCounted' /\ EnforcedIsConfirmed'
    BY <1>0 DEF RowIsCounted, EnforcedIsConfirmed
  <1> QED
    BY <1>2, <1>4, <1>5 DEF LoginInv

-------------------------------------------------------------------------------
(* Logging in.                                                             *)

LEMMA WrongKeeps ==
  ASSUME LoginInv, NEW t \in Threads, LoginWrong(t)
  PROVE  LoginInv'
  <1> USE DEF factorVars, Stage, Logins, FactorChanges
  <1> DEFINE n == at[t].failed + 1
             locking == n >= MaxAttempts
  <1>0. TypeOK /\ AloneIsCurrent /\ LockedOvertakes /\ FactorIsCurrent /\ RowIsCounted
        /\ EnforcedIsConfirmed
    BY DEF LoginInv
  <1>1. /\ at[t].stage = "login"
        /\ failed' = IF (IF locking THEN 0 ELSE n) = at[t].failed THEN failed
                     ELSE IF locking THEN 0 ELSE n
        /\ locked' = IF locking THEN "future" ELSE locked
        /\ row' = IF at[t].beside THEN 0 ELSE row + 1
        /\ at' = [u \in Threads |->
                IF u = t THEN Idle
                ELSE IF locking /\ at[u].stage \in {"login", "factor"}
                     THEN [at[u] EXCEPT !.lockLate = TRUE]
                     ELSE at[u]]
        /\ UNCHANGED factorVars
    BY DEF LoginWrong, Enough, Counted, Write
  <1>2. /\ failed \in 0..(MaxAttempts - 1) /\ locked \in Locks /\ row \in 0..MaxAttempts
        /\ at \in [Threads -> Handler] /\ at[t] \in Handler
        /\ at[t].failed \in Nat /\ at[t].beside \in BOOLEAN
    BY <1>0 DEF TypeOK, Handler
  <1>3. failed' \in 0..(MaxAttempts - 1) /\ locked' \in Locks
    BY <1>1, <1>2, LoginAssumption DEF Locks
  <1>4. at' \in [Threads -> Handler]
    BY <1>1, <1>2, IdleIsHandler DEF Handler
  <1>5. /\ row' \in 0..MaxAttempts
        /\ locked' # "future" => row' =< failed'
    <2>1. CASE at[t].beside
      BY <2>1, <1>1, <1>2, <1>3, LoginAssumption
    <2>2. CASE ~ at[t].beside
      <3>1. at[t].failed = failed /\ locked # "future"
        BY <2>2, <1>0, <1>1 DEF AloneIsCurrent
      <3>2. row =< failed
        BY <3>1, <1>0 DEF RowIsCounted
      <3> QED
        BY <2>2, <3>1, <3>2, <1>1, <1>2, LoginAssumption
    <2> QED
      BY <2>1, <2>2
  <1>6. TypeOK'
    BY <1>0, <1>1, <1>3, <1>4, <1>5 DEF TypeOK
  <1>7. at'[t].stage = "idle"
    BY <1>1 DEF Idle
  <1>8. \A u \in Threads \ {t} :
          /\ at'[u].stage = at[u].stage /\ at'[u].failed = at[u].failed
          /\ at'[u].secret = at[u].secret /\ at'[u].enabled = at[u].enabled
          /\ at'[u].beside = at[u].beside /\ at'[u].factorLate = at[u].factorLate
          /\ at[u].lockLate => at'[u].lockLate
          /\ locking /\ at[u].stage \in {"login", "factor"} => at'[u].lockLate
    BY <1>1, <1>2 DEF Handler
  <1>9. AloneIsCurrent'
    \* whoever is alone is t, which is done
    BY <1>0, <1>1, <1>7, <1>8 DEF AloneIsCurrent
  <1>10. LockedOvertakes'
    BY <1>0, <1>1, <1>7, <1>8 DEF LockedOvertakes
  <1>11. FactorIsCurrent'
    BY <1>0, <1>1, <1>7, <1>8 DEF FactorIsCurrent
  <1>12. RowIsCounted' /\ EnforcedIsConfirmed'
    BY <1>0, <1>1, <1>5 DEF RowIsCounted, EnforcedIsConfirmed
  <1> QED
    BY <1>6, <1>9, <1>10, <1>11, <1>12 DEF LoginInv

\* Clearing the count and the lock, by the right password or by a reset.
LEMMA ClearKeeps ==
  ASSUME LoginInv, NEW t \in Threads,
         Stage(t) \in {"login", "reset"},
         failed' = Write(at[t].failed, 0, failed),
         locked' = Write(at[t].locked, "none", locked),
         row' = 0,
         \/ Stage(t) = "login" /\ at' = [at EXCEPT ![t].stage = "factor"]
         \/ Done(t),
         UNCHANGED factorVars
  PROVE  LoginInv'
  <1> USE DEF factorVars, Stage, Logins, FactorChanges
  <1>0. TypeOK /\ AloneIsCurrent /\ LockedOvertakes /\ FactorIsCurrent /\ RowIsCounted
        /\ EnforcedIsConfirmed
    BY DEF LoginInv
  <1>1. /\ failed \in 0..(MaxAttempts - 1) /\ locked \in Locks
        /\ at \in [Threads -> Handler]
    BY <1>0 DEF TypeOK
  <1>2. /\ failed' \in 0..(MaxAttempts - 1) /\ locked' \in Locks
        /\ locked' = "future" => locked = "future"
    BY <1>1, LoginAssumption DEF Write, Locks
  <1>3. at' \in [Threads -> Handler]
    BY <1>1, IdleIsHandler DEF Handler, Done
  <1>4. TypeOK'
    BY <1>0, <1>2, <1>3, LoginAssumption DEF TypeOK
  <1>5. /\ \A u \in Threads \ {t} : at'[u] = at[u]
        /\ \/ at'[t].stage = "idle"
           \/ /\ at[t].stage = "login" /\ at'[t].stage = "factor"
              /\ at'[t].secret = at[t].secret /\ at'[t].enabled = at[t].enabled
              /\ at'[t].lockLate = at[t].lockLate /\ at'[t].factorLate = at[t].factorLate
    BY <1>1 DEF Handler, Done, Idle
  <1>6. AloneIsCurrent'
    \* t was under way, so no other login is alone
    BY <1>0, <1>5 DEF AloneIsCurrent
  <1>7. LockedOvertakes' /\ FactorIsCurrent'
    BY <1>0, <1>2, <1>5 DEF LockedOvertakes, FactorIsCurrent
  <1>8. RowIsCounted' /\ EnforcedIsConfirmed'
    BY <1>0, <1>2 DEF RowIsCounted, EnforcedIsConfirmed
  <1> QED
    BY <1>4, <1>6, <1>7, <1>8 DEF LoginInv

LEMMA ExpiryKeeps ==
  ASSUME LoginInv, LockExpires
  PROVE  LoginInv'
  <1> USE DEF factorVars, Stage
  <1>1. TypeOK' /\ RowIsCounted'
    BY LoginAssumption DEF LoginInv, LockExpires, TypeOK, Locks, RowIsCounted
  <1>2. AloneIsCurrent' /\ LockedOvertakes' /\ FactorIsCurrent' /\ EnforcedIsConfirmed'
    BY DEF LoginInv, LockExpires, AloneIsCurrent, LockedOvertakes, FactorIsCurrent,
           EnforcedIsConfirmed
  <1> QED
    BY <1>1, <1>2 DEF LoginInv

-------------------------------------------------------------------------------
(* The second factor.                                                      *)

\* What FactorCommit does to the handlers, whatever the new factor is.
LEMMA FactorCommitKeeps ==
  ASSUME LoginInv, NEW t \in Threads, Stage(t) \in FactorChanges, FactorCommit(t),
         secret' \in Secret, enabled' \in BOOLEAN, secrets' \in 0..MaxSecrets,
         confirmed' \subseteq 1..MaxSecrets, EnforcedIsConfirmed'
  PROVE  LoginInv'
  <1> USE DEF lockVars, Stage, Logins, FactorChanges
  <1>0. TypeOK /\ AloneIsCurrent /\ LockedOvertakes /\ FactorIsCurrent /\ RowIsCounted
    BY DEF LoginInv
  <1>1. at \in [Threads -> Handler] /\ tainted \in BOOLEAN
    BY <1>0 DEF TypeOK
  <1>2. at' \in [Threads -> Handler] /\ tainted' \in BOOLEAN
    BY <1>1, IdleIsHandler DEF FactorCommit, Handler
  <1>3. TypeOK'
    BY <1>0, <1>2 DEF TypeOK, FactorCommit
  <1>4. at'[t].stage = "idle"
    BY <1>1 DEF FactorCommit, Idle
  <1>5. \A u \in Threads \ {t} :
          /\ at'[u].stage = at[u].stage /\ at'[u].failed = at[u].failed
          /\ at'[u].beside = at[u].beside /\ at'[u].lockLate = at[u].lockLate
          /\ at[u].stage \in Logins \cup FactorChanges => at'[u].factorLate
    BY <1>1 DEF FactorCommit, Handler
  <1>6. AloneIsCurrent' /\ LockedOvertakes'
    BY <1>0, <1>4, <1>5 DEF AloneIsCurrent, LockedOvertakes, FactorCommit
  <1>7. FactorIsCurrent'
    BY <1>4, <1>5 DEF FactorIsCurrent
  <1>8. RowIsCounted'
    BY <1>0 DEF RowIsCounted, FactorCommit
  <1> QED
    BY <1>3, <1>6, <1>7, <1>8 DEF LoginInv

LEMMA SetupKeeps ==
  ASSUME LoginInv, NEW t \in Threads, MfaSetup(t)
  PROVE  LoginInv'
  <1>1. TypeOK /\ FactorIsCurrent /\ at[t] \in Handler
    BY DEF LoginInv, TypeOK
  <1>2. secret' \in Secret /\ secrets' \in 0..MaxSecrets /\ enabled' \in BOOLEAN
    <2>1. enabled' = enabled \/ enabled' = FALSE
      BY DEF MfaSetup, Unenforced, Write
    <2>2. enabled' \in BOOLEAN
      BY <2>1, <1>1 DEF TypeOK
    <2>3. secret' = secrets + 1 /\ secrets' = secrets + 1 /\ secrets < MaxSecrets
      BY DEF MfaSetup
    <2> QED
      BY <2>2, <2>3, <1>1, LoginAssumption DEF TypeOK, Secret
  <1>3. EnforcedIsConfirmed'
    <2>1. CASE at[t].factorLate
      BY <2>1 DEF MfaSetup, FactorCommit, EnforcedIsConfirmed
    <2>2. CASE ~ at[t].factorLate
      <3>1. at[t].enabled = enabled
        BY <2>2, <1>1 DEF FactorIsCurrent, MfaSetup, Stage, FactorChanges
      <3>2. enabled' = FALSE
        BY <3>1, <1>1 DEF MfaSetup, Unenforced, Write, TypeOK
      <3> QED
        BY <3>2 DEF EnforcedIsConfirmed
    <2> QED
      BY <2>1, <2>2
  <1>4. Stage(t) \in FactorChanges /\ confirmed' \subseteq 1..MaxSecrets /\ FactorCommit(t)
    BY <1>1 DEF MfaSetup, FactorChanges, TypeOK
  <1> QED
    BY <1>2, <1>3, <1>4, FactorCommitKeeps

LEMMA ActivateKeeps ==
  ASSUME LoginInv, NEW t \in Threads, MfaActivate(t)
  PROVE  LoginInv'
  <1>1. TypeOK /\ FactorIsCurrent /\ at[t] \in Handler
    BY DEF LoginInv, TypeOK
  <1>2. secret' \in Secret /\ secrets' \in 0..MaxSecrets /\ enabled' \in BOOLEAN
    BY <1>1 DEF MfaActivate, TypeOK, Handler, Write
  <1>3. confirmed' \subseteq 1..MaxSecrets
    <2>1. at[t].secret \in 1..MaxSecrets
      BY <1>1, LoginAssumption DEF MfaActivate, Handler, Secret
    <2> QED
      BY <2>1, <1>1 DEF MfaActivate, TypeOK
  <1>4. EnforcedIsConfirmed'
    <2>1. CASE at[t].factorLate
      BY <2>1 DEF MfaActivate, FactorCommit, EnforcedIsConfirmed
    <2>2. CASE ~ at[t].factorLate
      <3>1. at[t].secret = secret
        BY <2>2, <1>1 DEF FactorIsCurrent, MfaActivate, Stage, FactorChanges
      <3> QED
        BY <3>1 DEF MfaActivate, EnforcedIsConfirmed
    <2> QED
      BY <2>1, <2>2
  <1>5. Stage(t) \in FactorChanges /\ FactorCommit(t)
    BY DEF MfaActivate, FactorChanges
  <1> QED
    BY <1>2, <1>3, <1>4, <1>5, FactorCommitKeeps

LEMMA DisableKeeps ==
  ASSUME LoginInv, NEW t \in Threads, MfaDisable(t)
  PROVE  LoginInv'
  <1>1. TypeOK /\ FactorIsCurrent /\ at[t] \in Handler
    BY DEF LoginInv, TypeOK
  <1>2. secret' \in Secret /\ secrets' \in 0..MaxSecrets /\ enabled' \in BOOLEAN
    BY <1>1, LoginAssumption DEF MfaDisable, TypeOK, Handler, Write, Secret
  <1>3. EnforcedIsConfirmed'
    <2>1. CASE at[t].factorLate
      BY <2>1 DEF MfaDisable, FactorCommit, EnforcedIsConfirmed
    <2>2. CASE ~ at[t].factorLate
      <3>1. at[t].enabled = enabled
        BY <2>2, <1>1 DEF FactorIsCurrent, MfaDisable, Stage, FactorChanges
      <3>2. enabled' = FALSE
        BY <3>1, <1>1 DEF MfaDisable, Write, TypeOK
      <3> QED
        BY <3>2 DEF EnforcedIsConfirmed
    <2> QED
      BY <2>1, <2>2
  <1>4. Stage(t) \in FactorChanges /\ confirmed' \subseteq 1..MaxSecrets /\ FactorCommit(t)
    BY <1>1 DEF MfaDisable, FactorChanges, TypeOK
  <1> QED
    BY <1>2, <1>3, <1>4, FactorCommitKeeps

-------------------------------------------------------------------------------
LEMMA NextLogin == LoginInv /\ [Next]_vars => LoginInv'
  <1> SUFFICES ASSUME LoginInv, [Next]_vars PROVE LoginInv'
    OBVIOUS
  <1>1. CASE LockExpires
    BY <1>1, ExpiryKeeps
  <1>2. ASSUME NEW t \in Threads,
               LoginLoad(t) \/ ResetLoad(t) \/ \E change \in FactorChanges : FactorLoad(t, change)
        PROVE  LoginInv'
    <2>1. CASE LoginLoad(t)
      BY <2>1, LoadKeeps DEF LoginLoad
    <2>2. CASE ResetLoad(t)
      BY <2>2, LoadKeeps DEF ResetLoad
    <2>3. ASSUME NEW change \in FactorChanges, FactorLoad(t, change) PROVE LoginInv'
      <3>1. change # "login" /\ change \in {"login", "reset"} \cup FactorChanges
        BY DEF FactorChanges
      <3> QED
        BY <3>1, <2>3, LoadKeeps DEF FactorLoad
    <2> QED
      BY <1>2, <2>1, <2>2, <2>3
  <1>3. ASSUME NEW t \in Threads, LoginWrong(t) PROVE LoginInv'
    BY <1>3, WrongKeeps
  <1>4. ASSUME NEW t \in Threads, LoginRight(t) \/ ResetCommit(t) PROVE LoginInv'
    BY <1>4, ClearKeeps DEF LoginRight, ResetCommit
  <1>5. ASSUME NEW t \in Threads,
               \/ \E code \in Code : Grant(t, code) \/ Refuse(t, code)
               \/ FactorRefused(t)
        PROVE  LoginInv'
    BY <1>5, DoneKeeps DEF Grant, Refuse, FactorRefused
  <1>6. ASSUME NEW t \in Threads, MfaSetup(t) \/ MfaActivate(t) \/ MfaDisable(t) PROVE LoginInv'
    BY <1>6, SetupKeeps, ActivateKeeps, DisableKeeps
  <1>7. CASE UNCHANGED vars
    BY <1>7 DEF vars, lockVars, factorVars, LoginInv, TypeOK, AloneIsCurrent, LockedOvertakes,
                FactorIsCurrent, RowIsCounted, EnforcedIsConfirmed, Stage
  <1> QED
    BY <1>1, <1>2, <1>3, <1>4, <1>5, <1>6, <1>7 DEF Next

\* The inductive invariant holds for any number of threads and any settings of
\* login_max_attempts: what each handler of the pool has loaded, against what is
\* there now (auth_service.py).
THEOREM LoginIsInductive == Spec => []LoginInv
  BY InitLogin, NextLogin, PTL DEF Spec

\* For every value of the constants: after login_max_attempts wrong passwords in a row, none
\* overlapping another, the account is locked (authenticate).
THEOREM LoginFailuresLock == Spec => []FailuresLock
  <1>1. LoginInv => FailuresLock
    BY LoginAssumption DEF LoginInv, TypeOK, RowIsCounted, FailuresLock
  <1> QED
    BY <1>1, LoginIsInductive, PTL

\* For every value of the constants: a factor in force has been confirmed with a code, unless
\* two changes of the factor overlapped (mfa_begin_setup, mfa_activate, mfa_disable).
THEOREM LoginEnforcedIsConfirmed == Spec => []EnforcedIsConfirmed
  <1>1. LoginInv => EnforcedIsConfirmed
    BY DEF LoginInv
  <1> QED
    BY <1>1, LoginIsInductive, PTL

\* For every value of the constants: no step lets a login past a lock, or past the factor in
\* force, that had not been set or changed since the login loaded the account
\* (authenticate, enforce_mfa).
THEOREM LoginGrantsAreEntitled == Spec => GrantsAreEntitled
  <1> DEFINE Entitled ==
        \A t \in Threads, code \in Code :
          /\ locked = "future" /\ (LoginRight(t) \/ Grant(t, code)) => at[t].lockLate
          /\ Grant(t, code) /\ enabled => at[t].factorLate \/ (code # 0 /\ code = secret)
  <1>1. LoginInv => Entitled
    <2> SUFFICES ASSUME LoginInv, NEW t \in Threads, NEW code \in Code
                 PROVE  /\ locked = "future" /\ (LoginRight(t) \/ Grant(t, code))
                             => at[t].lockLate
                        /\ Grant(t, code) /\ enabled
                             => at[t].factorLate \/ (code # 0 /\ code = secret)
      OBVIOUS
    <2>1. locked = "future" /\ (LoginRight(t) \/ Grant(t, code)) => at[t].lockLate
      BY DEF LoginInv, LockedOvertakes, LoginRight, Grant, Stage, Logins
    <2>2. Grant(t, code) /\ enabled => at[t].factorLate \/ (code # 0 /\ code = secret)
      BY DEF LoginInv, FactorIsCurrent, Grant, FactorGiven, Stage, Logins
    <2> QED
      BY <2>1, <2>2
  <1>2. LoginInv /\ [Next]_vars => [Entitled]_vars
    BY <1>1
  <1> QED
    BY <1>2, LoginIsInductive, PTL DEF GrantsAreEntitled, Spec

-------------------------------------------------------------------------------
(* DeviceLife.                                                             *)

LEMMA LifeStart == LifeInit => LifeInv
  BY LifeAssumption DEF LifeInit, LifeInv, LifeTypeOK, Identified, FloorHolds, Torn, File, Version,
     Key, Row, Event, Device, Offline, Waiting

\* The server's actions change nothing the agent keeps, and no row's existence.
LEMMA LifeServer ==
  ASSUME LifeInv, UNCHANGED <<agent, lives>>,
         \/ \E r \in requests : RequireAgent(r) \/ Commit(r)
         \/ \E d \in DOMAIN rows : Silence(d) \/ Sweep(d)
  PROVE  LifeInv'
  <1> USE DEF agent
  <1>0. /\ LifeTypeOK /\ Identified /\ FloorHolds
        /\ rows \in Seq(Row) /\ requests \subseteq Request
        /\ \A r \in requests : r \in Request /\ r.device \in DOMAIN rows
    BY DEF LifeInv, LifeTypeOK, Identified
  <1>a. /\ MaxDevices \in Nat /\ Len(rows) \in Nat /\ Len(rows) <= MaxDevices
        /\ DOMAIN rows = 1..Len(rows)
    BY <1>0, LifeAssumption DEF LifeTypeOK
  <1>b. DOMAIN rows \subseteq Device
    BY <1>a DEF Device
  <1>c. ASSUME NEW d \in DOMAIN rows, NEW new \in Row, rows' = [rows EXCEPT ![d] = new]
        PROVE  rows' \in Seq(Row) /\ Len(rows') = Len(rows) /\ DOMAIN rows' = DOMAIN rows
    BY <1>0, <1>a, <1>c
  <1>1. ASSUME NEW r \in requests, RequireAgent(r) PROVE LifeInv'
    <2>1. rows[r.device] \in Row
      BY <1>0
    <2> DEFINE s == [r EXCEPT !.stage = "loaded", !.stopped = rows[r.device].stopped,
                              !.alerted = rows[r.device].alerted]
    <2>2. s \in Request /\ s.device = r.device
      BY <1>0, <2>1 DEF Request, Row
    <2>5. requests' = (requests \ {r}) \cup {s}
      BY <1>1 DEF RequireAgent, Becomes
    <2> HIDE DEF s
    <2>3. requests' \subseteq Request /\ \A q \in requests' : q.device \in DOMAIN rows
      BY <1>0, <2>2, <2>5
    <2>4. UNCHANGED <<rows, bounds, history>>
      BY <1>1 DEF RequireAgent
    <2> QED
      BY <1>0, <2>3, <2>4 DEF LifeInv, LifeTypeOK, Identified, FloorHolds, bounds, history
  <1>2. ASSUME NEW r \in requests, Commit(r) PROVE LifeInv'
    <2>1. rows[r.device] \in Row /\ r \in Request
      BY <1>0
    <2>2. StoppedAfter(r) \in BOOLEAN /\ Cleared(r) \in BOOLEAN
      BY <2>1 DEF StoppedAfter, Cleared, Request
    <2> DEFINE new == [silent |-> FALSE,
                       stopped |-> WriteColumn(r.stopped, StoppedAfter(r), rows[r.device].stopped),
                       alerted |-> WriteColumn(r.alerted, Cleared(r), rows[r.device].alerted)]
               s == [r EXCEPT !.stage = "done"]
    <2>7. new \in Row
      BY <2>1, <2>2 DEF WriteColumn, Row, Request
    <2>8. rows' = [rows EXCEPT ![r.device] = new]
      BY <1>2 DEF Commit
    <2>3. rows' \in Seq(Row) /\ Len(rows') = Len(rows) /\ DOMAIN rows' = DOMAIN rows
      BY <1>0, <1>c, <2>7, <2>8
    <2>4. s \in Request /\ s.device = r.device
      BY <2>1 DEF Request
    <2>9. requests' \subseteq (requests \ {r}) \cup {s}
      BY <1>2 DEF Commit, Becomes
    <2> HIDE DEF s
    <2>5. requests' \subseteq Request /\ \A q \in requests' : q.device \in DOMAIN rows
      BY <1>0, <2>4, <2>9
    <2>6. /\ alerts' \in [Device -> Nat] /\ late' \subseteq Device /\ crossed' \subseteq Device
          /\ UNCHANGED <<bounds, ended, best>>
      BY <1>0, <1>2, <1>b DEF Commit, LifeTypeOK
    <2> QED
      BY <1>0, <2>3, <2>5, <2>6 DEF LifeInv, LifeTypeOK, Identified, FloorHolds, bounds
  <1>3. ASSUME NEW d \in DOMAIN rows, Silence(d) PROVE LifeInv'
    <2>1. rows' \in Seq(Row) /\ Len(rows') = Len(rows) /\ DOMAIN rows' = DOMAIN rows
      <3>0. rows[d] \in Row
        BY <1>0
      <3>1. [rows[d] EXCEPT !.silent = TRUE] \in Row
        BY <3>0 DEF Row
      <3> QED
        BY <1>3, <1>c, <3>1 DEF Silence
    <2>2. faults' \in 0..MaxFaults
      BY <1>0, <1>3, LifeAssumption DEF Silence, Fail, LifeTypeOK
    <2>3. UNCHANGED <<requests, lives, history>>
      BY <1>3 DEF Silence
    <2> QED
      BY <1>0, <2>1, <2>2, <2>3 DEF LifeInv, LifeTypeOK, Identified, FloorHolds, history
  <1>4. ASSUME NEW d \in DOMAIN rows, Sweep(d) PROVE LifeInv'
    <2>1. rows' \in Seq(Row) /\ Len(rows') = Len(rows) /\ DOMAIN rows' = DOMAIN rows
      <3>0. rows[d] \in Row
        BY <1>0
      <3>1. Flagged(rows[d]) \in Row
        BY <3>0 DEF Flagged, Row
      <3> QED
        BY <1>4, <1>c, <3>1 DEF Sweep
    <2>2. alerts' \in [Device -> Nat]
      BY <1>0, <1>4, <1>b DEF Sweep, LifeTypeOK
    <2>3. UNCHANGED <<requests, bounds, ended, late, crossed, best>>
      BY <1>4 DEF Sweep
    <2> QED
      BY <1>0, <2>1, <2>2, <2>3 DEF LifeInv, LifeTypeOK, Identified, FloorHolds, bounds
  <1> QED
    BY <1>1, <1>2, <1>3, <1>4

\* A new identity comes with a new row, and with no version to fall back from.
LEMMA LifeIdentity ==
  ASSUME LifeInv, Start \/ Resume \/ SaveState \/ Rename \/ \E b \in BOOLEAN : Enrol(b)
  PROVE  LifeInv'
  <1> USE DEF server, bounds, history
  <1>0. LifeTypeOK /\ Identified /\ FloorHolds
    BY DEF LifeInv
  <1>a. /\ DOMAIN rows = 1..Len(rows) /\ Len(rows) \in Nat
        /\ file \in File /\ file.device \in 0..MaxDevices /\ file.floor \in Version
        /\ MaxDevices \in Nat /\ MaxLives \in Nat /\ MaxFaults \in Nat /\ MaxVersion \in Nat
    BY <1>0, LifeAssumption DEF LifeTypeOK, File
  <1>1. CASE Start
    BY <1>0, <1>a, <1>1 DEF Start, LifeInv, LifeTypeOK, Identified, FloorHolds, Offline
  <1>2. CASE Resume
    BY <1>0, <1>a, <1>2 DEF Resume, Recognised, ComeOnline, LifeInv, LifeTypeOK, Identified,
       FloorHolds, Offline, Event
  <1>3. CASE SaveState
    <2>1. file' \in File /\ file'.device = me /\ file'.floor = 0 /\ best' = 0
      BY <1>0, <1>a, <1>3 DEF SaveState, File, Version, LifeTypeOK
    <2> QED
      BY <1>0, <1>a, <1>3, <2>1 DEF SaveState, ComeOnline, LifeInv, LifeTypeOK, Identified,
         FloorHolds, Offline, Event, Version
  <1>4. CASE Rename
    BY <1>0, <1>a, <1>4 DEF Rename, Fail, LifeInv, LifeTypeOK, Identified, FloorHolds, Key
  <1>5. ASSUME NEW b \in BOOLEAN, Enrol(b) PROVE LifeInv'
    <2>1. NewRow \in Row /\ Torn \in File /\ Torn.device = 0
      BY <1>a DEF NewRow, Row, Torn, File, Version, Key
    <2>2. /\ rows' \in Seq(Row) /\ Len(rows') = Len(rows) + 1 /\ Len(rows') <= MaxDevices
          /\ DOMAIN rows' = 1..(Len(rows) + 1) /\ DOMAIN rows \subseteq DOMAIN rows'
      BY <1>0, <1>a, <1>5, <2>1 DEF Enrol, WithinLimit, LifeTypeOK
    <2>3. /\ me' \in 0..MaxDevices /\ file' \in File
          /\ pc' \in {"enrolling", "saving"} /\ faults' \in 0..MaxFaults
          /\ pc' = "saving" => me' = Len(rows) + 1 
          /\ file' = Torn \/ file' = file
      BY <1>0, <1>a, <1>5, <2>1, <2>2 DEF Enrol, Fail, LifeTypeOK
    <2>4. UNCHANGED <<requests, buffer, update, hostkey, lives, history>>
      BY <1>5 DEF Enrol
    <2>5. LifeTypeOK'
      BY <1>0, <2>2, <2>3, <2>4 DEF LifeTypeOK, Offline
    <2>6. Identified'
      BY <1>0, <1>a, <2>1, <2>2, <2>3, <2>4 DEF Identified
    <2>7. FloorHolds'
      BY <1>0, <2>1, <2>3, <2>4 DEF FloorHolds, Offline
    <2> QED
      BY <2>5, <2>6, <2>7 DEF LifeInv
  <1> QED
    BY <1>1, <1>2, <1>3, <1>4, <1>5

\* Requests and their ends leave the state file alone; a death drops a pending write.
LEMMA LifeRequests ==
  ASSUME LifeInv,
         \/ Contact \/ Obeyed \/ Flush \/ Evict \/ Stop \/ Answer \/ Kill
         \/ \E b \in BOOLEAN : GiveUp(b)
  PROVE  LifeInv'
  <1> USE DEF server, bounds, history
  <1>0. LifeTypeOK /\ Identified /\ FloorHolds
    BY DEF LifeInv
  <1>a. /\ \A r \in requests : r \in Request
        /\ DOMAIN rows = 1..Len(rows) /\ DOMAIN rows \subseteq Device /\ Len(rows) \in Nat
        /\ buffer \in Seq(Event) /\ "stopped" \in Event
        /\ MaxDevices \in Nat /\ MaxFaults \in Nat /\ MaxVersion \in Nat
    BY <1>0, LifeAssumption DEF LifeTypeOK, Device, Event
  <1>b. ASSUME NEW evs \in Seq(Event), Send(evs), pc \notin {"down", "enrolling"}
        PROVE  requests' \subseteq Request /\ \A r \in requests' : r.device \in DOMAIN rows
    <2> DEFINE s == [device |-> me, events |-> evs, stage |-> "sent", open |-> TRUE,
                     stopped |-> FALSE, alerted |-> FALSE]
    <2>1. me \in DOMAIN rows /\ me \in Device
      BY <1>0, <1>a, <1>b DEF Identified
    <2>2. s \in Request /\ s.device = me
      BY <1>b, <2>1 DEF Request
    <2>3. requests' = requests \cup {s}
      BY <1>b DEF Send
    <2> HIDE DEF s
    <2> QED
      BY <1>0, <1>a, <2>1, <2>2, <2>3 DEF Identified
  <1>c. Abandoned \subseteq Request /\ \A r \in Abandoned : r.device \in DOMAIN rows
    BY <1>0, <1>a DEF Abandoned, Open, Request, Identified
  <1>d. /\ Torn \in File /\ Torn.device = 0 /\ Torn.floor = 0 /\ best \in Nat
        /\ <<>> \in Seq(Event)
    BY <1>0, <1>a DEF Torn, File, Version, Key, LifeTypeOK
  <1>1. CASE Contact
    <2>1. requests' \subseteq Request /\ \A r \in requests' : r.device \in DOMAIN rows
      BY <1>1, <1>b, <1>d DEF Contact
    <2> QED
      BY <1>0, <1>1, <2>1 DEF Contact, LifeInv, LifeTypeOK, Identified, FloorHolds, Offline, Waiting
  <1>2. CASE Obeyed
    BY <1>0, <1>2 DEF Obeyed, LifeInv, LifeTypeOK, Identified, FloorHolds, Offline, Waiting
  <1>3. CASE Flush
    <2>1. requests' \subseteq Request /\ \A r \in requests' : r.device \in DOMAIN rows
      BY <1>0, <1>3, <1>a, <1>b DEF Flush, LifeTypeOK, Identified
    <2> QED
      BY <1>0, <1>3, <2>1 DEF Flush, LifeInv, LifeTypeOK, Identified, FloorHolds, Offline, Waiting
  <1>4. CASE Stop
    <2>1. requests' \subseteq Request /\ \A r \in requests' : r.device \in DOMAIN rows
      <3>1. Append(buffer, "stopped") \in Seq(Event)
        BY <1>a
      <3> QED
        BY <1>4, <1>b, <3>1 DEF Stop
    <2> QED
      BY <1>0, <1>4, <1>a, <2>1 DEF Stop, LifeInv, LifeTypeOK, Identified, FloorHolds, Offline, Waiting
  <1>5. CASE Answer
    <2>1. requests' \subseteq requests /\ buffer' \in Seq(Event)
      BY <1>5, <1>a, <1>d DEF Answer
    <2>2. pc' \in {"obeying", "turn", "down"} /\ ended' \in {ended, "clean"}
      BY <1>5 DEF Answer, Then, Waiting, Exit
    <2> QED
      BY <1>0, <1>5, <2>1, <2>2 DEF Answer, LifeInv, LifeTypeOK, Identified, FloorHolds, Offline, Waiting
  <1>6. CASE Kill
    <2>1. requests' \subseteq Request /\ \A r \in requests' : r.device \in DOMAIN rows
      BY <1>0, <1>6, <1>c DEF Kill, LifeTypeOK, Identified
    <2>2. ended' \in {ended, "clean", "killed"}
      BY <1>6 DEF Kill
    <2> QED
      BY <1>0, <1>6, <1>a, <1>d, <2>1, <2>2 DEF Kill, LifeInv, LifeTypeOK, Identified, FloorHolds, Offline
  <1>7. ASSUME NEW b \in BOOLEAN, GiveUp(b) PROVE LifeInv'
    <2>1. requests' \subseteq Request /\ \A r \in requests' : r.device \in DOMAIN rows
      BY <1>0, <1>7, <1>c DEF GiveUp, LifeTypeOK, Identified
    <2>2. /\ pc' \in {"flush", "turn", "down"} /\ ended' \in {ended, "clean"}
          /\ faults' \in 0..MaxFaults
      BY <1>0, <1>7, <1>a DEF GiveUp, Fail, Then, Waiting, Exit, LifeTypeOK
    <2> QED
      BY <1>0, <1>7, <2>1, <2>2 DEF GiveUp, LifeInv, LifeTypeOK, Identified, FloorHolds, Offline, Waiting
  <1>8. CASE Evict
    <2>1. buffer' \in Seq(Event)
      BY <1>8, <1>a DEF Evict
    <2>2. faults' \in 0..MaxFaults
      BY <1>0, <1>8, <1>a DEF Evict, Fail, LifeTypeOK
    <2>3. late' \subseteq Device
      BY <1>0, <1>8, <1>a DEF Evict, LifeTypeOK, Identified
    <2> QED
      BY <1>0, <1>8, <2>1, <2>2, <2>3 DEF Evict, LifeInv, LifeTypeOK, Identified, FloorHolds
  <1> QED
    BY <1>1, <1>2, <1>3, <1>4, <1>5, <1>6, <1>7, <1>8

\* The floor rises to what was accepted, and nothing below it is.
LEMMA LifeFloor ==
  ASSUME LifeInv, SetFloor \/ \E v \in Version, b \in BOOLEAN : Update(v, b)
  PROVE  LifeInv'
  <1> USE DEF server, bounds
  <1>0. LifeTypeOK /\ Identified /\ FloorHolds
    BY DEF LifeInv
  <1>a. /\ file \in File /\ update \in File /\ hostkey \in Key /\ MaxVersion \in Nat
        /\ best \in Nat /\ Version \subseteq Nat /\ best \in Version
        /\ file.floor \in Version /\ update.floor \in Version
        /\ Torn \in File /\ Torn.device = 0
    BY <1>0, LifeAssumption DEF LifeTypeOK, Version, File, Torn, Key
  <1>1. CASE SetFloor
    <2>1. /\ pc = "floor" /\ pc' = "obeying" /\ update' = Torn
          /\ file' = [update EXCEPT !.key = hostkey]
          /\ UNCHANGED <<server, me, buffer, hostkey, bounds, ended, alerts, late, crossed>>
      BY <1>1 DEF SetFloor
    <2>2. file' \in File /\ file'.device = update.device /\ file'.floor = update.floor
      BY <1>a, <2>1 DEF File
    <2>3. best' \in Version /\ update.floor >= best'
      <3>1. best' = IF update.floor > best THEN update.floor ELSE best
        BY <1>1 DEF SetFloor
      <3>2. update.floor \in Nat /\ update.floor >= best
        BY <1>0, <1>1, <1>a DEF SetFloor, FloorHolds
      <3> QED
        BY <1>a, <3>1, <3>2
    <2> QED
      BY <1>0, <1>a, <2>1, <2>2, <2>3 DEF LifeInv, LifeTypeOK, Identified, FloorHolds, Offline
  <1>2. ASSUME NEW v \in Version, NEW b \in BOOLEAN, Update(v, b) PROVE LifeInv'
    <2>1. /\ pc = "obeying" /\ file.device # 0 /\ file.floor >= best
          /\ UNCHANGED <<server, me, buffer, hostkey, bounds, ended, alerts, late, crossed>>
      BY <1>0, <1>2 DEF Update, FloorHolds, Offline
    <2>2. CASE v # 0 /\ v > file.floor
      <3>1. /\ update' = [file EXCEPT !.floor = v] /\ file' = Torn /\ pc' = "floor"
            /\ UNCHANGED best
        BY <1>2, <2>2 DEF Update, Advances
      <3>2. update' \in File /\ update'.device = file.device /\ update'.floor = v
        BY <1>a, <3>1 DEF File
      <3>3. v >= best
        <4>1. file.floor \in Nat /\ v \in Nat
          BY <1>a
        <4> QED
          BY <1>a, <2>1, <2>2, <4>1
      <3> QED
        BY <1>0, <1>a, <2>1, <3>1, <3>2, <3>3 DEF LifeInv, LifeTypeOK, Identified, FloorHolds, Offline
    <2>3. CASE ~ (v # 0 /\ v > file.floor)
      <3>1. best' = (IF v > best THEN v ELSE best) /\ UNCHANGED <<update, file, pc>>
        BY <1>2, <2>3 DEF Update, Advances
      <3>2. best' \in Version /\ file.floor >= best'
        <4>1. file.floor \in Nat /\ v \in Nat /\ 0 \in Nat
          BY <1>a
        <4> QED
          BY <1>a, <2>1, <2>3, <3>1, <4>1
      <3> QED
        BY <1>0, <2>1, <3>1, <3>2 DEF LifeInv, LifeTypeOK, Identified, FloorHolds
    <2> QED
      BY <2>2, <2>3
  <1> QED
    BY <1>1, <1>2

\* For every value of the constants: the inductive invariant, of every action of the agent
\* (run, ensure_enrolled, remote_update) and of the server (require_agent, telemetry, check_once).
THEOREM LifeIsInductive == LifeSpec => []LifeInv
  <1>1. LifeInv /\ [LifeNext]_lifeVars => LifeInv'
    <2> SUFFICES ASSUME LifeInv, [LifeNext]_lifeVars PROVE LifeInv'
      OBVIOUS
    <2>1. CASE UNCHANGED lifeVars
      BY <2>1 DEF lifeVars, server, agent, bounds, history, LifeInv, LifeTypeOK, Identified, FloorHolds
    <2>2. CASE Start \/ Resume \/ SaveState \/ Rename \/ \E b \in BOOLEAN : Enrol(b)
      BY <2>2, LifeIdentity
    <2>3. CASE \/ Contact \/ Obeyed \/ Flush \/ Evict \/ Stop \/ Answer \/ Kill
               \/ \E b \in BOOLEAN : GiveUp(b)
      BY <2>3, LifeRequests
    <2>4. CASE SetFloor \/ \E v \in Version, b \in BOOLEAN : Update(v, b)
      BY <2>4, LifeFloor
    <2>5. ASSUME \/ \E r \in requests : RequireAgent(r) \/ Commit(r)
                 \/ \E d \in DOMAIN rows : Silence(d) \/ Sweep(d)
          PROVE  LifeInv'
      <3>1. UNCHANGED <<agent, lives>>
        BY <2>5 DEF RequireAgent, Commit, Silence, Sweep, bounds, agent
      <3> QED
        BY <2>5, <3>1, LifeServer
    <2> QED
      BY <2>1, <2>2, <2>3, <2>4, <2>5 DEF LifeNext
  <1> QED
    BY <1>1, LifeStart, PTL DEF LifeSpec

\* For every value of the constants: no update can be accepted that is older than one
\* accepted before, unless its manifest allows it or the state file was created anew since
\* (remote_update, set_update_floor, ensure_enrolled).
THEOREM LifeNeverRollsBack == LifeSpec => []NoRollback
  <1>1. LifeInv => NoRollback
    <2> SUFFICES ASSUME LifeInv, pc = "obeying", NEW v \in Version \ {0}, Accepts(v, FALSE)
                 PROVE  v >= best
      BY DEF NoRollback
    <2>1. file.floor >= best
      BY DEF LifeInv, FloorHolds, Offline
    <2>2. file.floor \in Nat /\ best \in Nat /\ v \in Nat
      BY LifeAssumption DEF LifeInv, LifeTypeOK, File, Version
    <2> QED
      BY <2>1, <2>2 DEF Accepts
  <1> QED
    BY <1>1, LifeIsInductive, PTL

-------------------------------------------------------------------------------
(* DeviceLife: the watch.                                                  *)

\* The devices that have been silent for longer than the threshold.
Quiet == {d \in DOMAIN rows : rows[d].silent}

LEMMA WatchStart == LifeInit => Watch!WatchInit /\ FlagIsReport
  <1> SUFFICES ASSUME LifeInit PROVE Watch!WatchInit /\ FlagIsReport
    OBVIOUS
  <1>1. DOMAIN rows = {} /\ crossed = {} /\ alerts = [d \in Device |-> 0]
    BY DEF LifeInit
  <1> QED
    BY <1>1 DEF Watch!WatchInit, FlagIsReport

\* A step that leaves the rows and the reports alone is no step of the watch.
LEMMA Unwatched ==
  ASSUME FlagIsReport, UNCHANGED <<rows, alerts, crossed>>
  PROVE  FlagIsReport' /\ UNCHANGED Watch!watchVars
  BY DEF FlagIsReport, Watch!watchVars

\* How one row's new contents show in the set of the silent and in the flags.
LEMMA RowWritten ==
  ASSUME LifeTypeOK, NEW d \in DOMAIN rows, NEW new \in Row, rows' = [rows EXCEPT ![d] = new]
  PROVE  /\ d \in Device /\ DOMAIN rows' = DOMAIN rows
         /\ Quiet' = IF new.silent THEN Quiet \cup {d} ELSE Quiet \ {d}
         /\ rows'[d] = new
         /\ \A e \in DOMAIN rows \ {d} : rows'[e] = rows[e]
  <1>1. /\ rows \in Seq(Row) /\ MaxDevices \in Nat /\ Len(rows) \in Nat
        /\ Len(rows) <= MaxDevices /\ DOMAIN rows = 1..Len(rows)
    BY LifeAssumption DEF LifeTypeOK
  <1>2. d \in Device
    BY <1>1 DEF Device
  <1>3. DOMAIN rows' = DOMAIN rows /\ rows'[d] = new /\ \A e \in DOMAIN rows \ {d} : rows'[e] = rows[e]
    BY <1>1
  <1>4. Quiet' = IF new.silent THEN Quiet \cup {d} ELSE Quiet \ {d}
    BY <1>3 DEF Quiet
  <1> QED
    BY <1>2, <1>3, <1>4

\* A commit hears the device, and masks it if a report came since the row was loaded.
LEMMA CommitHears ==
  ASSUME LifeInv, FlagIsReport, NEW r \in requests, Commit(r)
  PROVE  FlagIsReport' /\ Watch!WatchNext
  <1>0. /\ LifeTypeOK /\ r \in Request /\ r.device \in DOMAIN rows /\ rows \in Seq(Row)
        /\ crossed \subseteq Device /\ alerts \in [Device -> Nat]
    BY DEF LifeInv, LifeTypeOK, Identified
  <1> DEFINE d == r.device
             masks == ~ r.alerted /\ rows[d].alerted
             new == [silent  |-> FALSE,
                     stopped |-> WriteColumn(r.stopped, StoppedAfter(r), rows[d].stopped),
                     alerted |-> WriteColumn(r.alerted, Cleared(r), rows[d].alerted)]
  <1>a. rows[d] \in Row
    BY <1>0
  <1>1. rows[d] \in Row /\ rows[d].alerted \in BOOLEAN /\ r.alerted \in BOOLEAN
    BY <1>0, <1>a DEF Row, Request
  <1>2. StoppedAfter(r) \in BOOLEAN
    BY <1>0 DEF StoppedAfter, Request
  <1>3. new \in Row /\ ~ new.silent
    BY <1>1, <1>2 DEF WriteColumn, Cleared, Row, Request
  <1>4. new.alerted <=> masks
    BY <1>1 DEF WriteColumn, Cleared
  <1>5. /\ rows' = [rows EXCEPT ![d] = new]
        /\ alerts' = [alerts EXCEPT ![d] = 0]
        /\ crossed' = IF masks THEN crossed \cup {d} ELSE crossed \ {d}
    BY DEF Commit
  <1> HIDE DEF new, masks
  <1>6. /\ d \in Device /\ DOMAIN rows' = DOMAIN rows /\ Quiet' = Quiet \ {d} /\ rows'[d] = new
        /\ \A e \in DOMAIN rows \ {d} : rows'[e] = rows[e]
    BY <1>0, <1>3, <1>5, RowWritten
  <1>7. masks \in BOOLEAN /\ (masks => alerts[d] = 1 \/ d \in crossed)
    BY <1>0, <1>1, <1>6 DEF masks, FlagIsReport
  <1>8. PICK b \in BOOLEAN : b = masks
    BY <1>7
  <1>9. Watch!Hear(d, b)
    BY <1>5, <1>6, <1>7, <1>8 DEF Watch!Hear, Quiet
  <1>10. FlagIsReport'
    <2> SUFFICES ASSUME NEW e \in Device
                 PROVE  /\ alerts'[e] \in {0, 1}
                        /\ alerts'[e] = 1 \/ e \in crossed' <=> e \in DOMAIN rows' /\ rows'[e].alerted
      BY DEF FlagIsReport
    <2>1. CASE e = d
      BY <2>1, <1>0, <1>4, <1>5, <1>6
    <2>2. CASE e # d
      <3>1. alerts'[e] = alerts[e] /\ (e \in crossed' <=> e \in crossed)
        BY <2>2, <1>0, <1>5
      <3> QED
        BY <2>2, <3>1, <1>6 DEF FlagIsReport
    <2> QED
      BY <2>1, <2>2
  <1>11. \E mask \in BOOLEAN : Watch!Hear(d, mask)
    BY <1>9
  <1> HIDE DEF d
  <1> QED
    BY <1>6, <1>10, <1>11 DEF Watch!WatchNext

LEMMA SilenceFalls ==
  ASSUME LifeInv, FlagIsReport, NEW d \in DOMAIN rows, Silence(d)
  PROVE  FlagIsReport' /\ Watch!WatchNext
  <1>0. LifeTypeOK /\ rows \in Seq(Row)
    BY DEF LifeInv, LifeTypeOK
  <1> DEFINE new == [rows[d] EXCEPT !.silent = TRUE]
  <1>1. rows[d] \in Row
    BY <1>0
  <1>2. new \in Row /\ new.silent /\ new.alerted = rows[d].alerted
    BY <1>1 DEF Row
  <1>3. rows' = [rows EXCEPT ![d] = new] /\ UNCHANGED <<alerts, crossed>>
    BY DEF Silence, history
  <1> HIDE DEF new
  <1>4. /\ d \in Device /\ DOMAIN rows' = DOMAIN rows /\ Quiet' = Quiet \cup {d} /\ rows'[d] = new
        /\ \A e \in DOMAIN rows \ {d} : rows'[e] = rows[e]
    BY <1>0, <1>2, <1>3, RowWritten
  <1>5. Watch!FallSilent(d)
    BY <1>3, <1>4 DEF Watch!FallSilent, Quiet
  <1>6. \A e \in DOMAIN rows : rows'[e].alerted = rows[e].alerted
    BY <1>2, <1>4
  <1>7. FlagIsReport'
    BY <1>3, <1>4, <1>6 DEF FlagIsReport
  <1> QED
    BY <1>4, <1>5, <1>7 DEF Watch!WatchNext

\* The flag that check_once() tests stands for the report and for the mask.
LEMMA SweepReports ==
  ASSUME LifeInv, FlagIsReport, NEW d \in DOMAIN rows, Sweep(d)
  PROVE  FlagIsReport' /\ Watch!WatchNext
  <1>0. LifeTypeOK /\ rows \in Seq(Row) /\ alerts \in [Device -> Nat]
    BY DEF LifeInv, LifeTypeOK
  <1> DEFINE new == Flagged(rows[d])
  <1>1. rows[d] \in Row /\ rows[d].silent /\ ~ rows[d].alerted
    BY <1>0 DEF Sweep
  <1>2. new \in Row /\ new.silent /\ new.alerted
    BY <1>1 DEF Row, Flagged
  <1>3. /\ rows' = [rows EXCEPT ![d] = new] /\ crossed' = crossed
        /\ alerts' = [alerts EXCEPT ![d] = @ + 1]
    BY DEF Sweep
  <1> HIDE DEF new
  <1>4. /\ d \in Device /\ DOMAIN rows' = DOMAIN rows /\ Quiet' = Quiet \cup {d} /\ rows'[d] = new
        /\ \A e \in DOMAIN rows \ {d} : rows'[e] = rows[e]
    BY <1>0, <1>2, <1>3, RowWritten
  <1>5. alerts[d] = 0 /\ d \notin crossed /\ d \in Quiet /\ Quiet' = Quiet
    BY <1>1, <1>4 DEF FlagIsReport, Quiet
  <1>6. alerts' = [alerts EXCEPT ![d] = 1]
    BY <1>3, <1>5
  <1>7. Watch!Report(d)
    BY <1>3, <1>5, <1>6 DEF Watch!Report, Quiet
  <1>8. FlagIsReport'
    <2> SUFFICES ASSUME NEW e \in Device
                 PROVE  /\ alerts'[e] \in {0, 1}
                        /\ alerts'[e] = 1 \/ e \in crossed' <=> e \in DOMAIN rows' /\ rows'[e].alerted
      BY DEF FlagIsReport
    <2>1. CASE e = d
      BY <2>1, <1>0, <1>2, <1>4, <1>6
    <2>2. CASE e # d
      <3>1. alerts'[e] = alerts[e]
        BY <2>2, <1>0, <1>6
      <3> QED
        BY <2>2, <3>1, <1>3, <1>4 DEF FlagIsReport
    <2> QED
      BY <2>1, <2>2
  <1> QED
    BY <1>4, <1>7, <1>8 DEF Watch!WatchNext

\* A new row is that of a device never reported: no flag outlives, or precedes, its row.
LEMMA EnrolUnseen ==
  ASSUME LifeInv, FlagIsReport, NEW b \in BOOLEAN, Enrol(b)
  PROVE  FlagIsReport' /\ UNCHANGED Watch!watchVars
  <1>1. /\ rows \in Seq(Row) /\ Len(rows) \in Nat /\ DOMAIN rows = 1..Len(rows)
        /\ rows' = Append(rows, NewRow) /\ UNCHANGED <<alerts, crossed>>
    BY DEF LifeInv, LifeTypeOK, Enrol, history
  <1> DEFINE d == Len(rows) + 1
  <1>2. NewRow \in Row /\ ~ NewRow.silent /\ ~ NewRow.alerted
    BY DEF NewRow, Row
  <1>3. /\ DOMAIN rows' = DOMAIN rows \cup {d} /\ d \notin DOMAIN rows /\ rows'[d] = NewRow
        /\ \A e \in DOMAIN rows : rows'[e] = rows[e]
    BY <1>1, <1>2
  <1> HIDE DEF d
  <1>4. Quiet' = Quiet
    BY <1>2, <1>3 DEF Quiet
  <1>5. FlagIsReport'
    BY <1>1, <1>2, <1>3 DEF FlagIsReport
  <1> QED
    BY <1>1, <1>4, <1>5 DEF Watch!watchVars, Quiet

\* The agent's other steps, and require_agent().
LEMMA OthersUnseen ==
  ASSUME \/ Start \/ Resume \/ SaveState \/ Rename
         \/ Contact \/ Obeyed \/ Flush \/ Evict \/ Stop \/ Answer \/ Kill \/ SetFloor
         \/ \E b \in BOOLEAN : GiveUp(b)
         \/ \E v \in Version, b \in BOOLEAN : Update(v, b)
         \/ \E r \in requests : RequireAgent(r)
  PROVE  UNCHANGED <<rows, alerts, crossed>>
  <1>1. CASE Start \/ Resume \/ SaveState \/ Rename
    BY <1>1 DEF Start, Resume, SaveState, Rename, server, history
  <1>2. CASE Contact \/ Obeyed \/ Flush \/ Evict \/ Stop
    BY <1>2 DEF Contact, Obeyed, Flush, Evict, Stop, server, history
  <1>3. CASE Answer \/ Kill \/ \E b \in BOOLEAN : GiveUp(b)
    BY <1>3 DEF Answer, Kill, GiveUp
  <1>4. CASE SetFloor \/ \E v \in Version, b \in BOOLEAN : Update(v, b)
    BY <1>4 DEF SetFloor, Update, server
  <1>5. CASE \E r \in requests : RequireAgent(r)
    BY <1>5 DEF RequireAgent, history
  <1> QED
    BY <1>1, <1>2, <1>3, <1>4, <1>5

\* Every step of the fleet is one of the watch, or none.
LEMMA StepsOfWatch ==
  ASSUME LifeInv, FlagIsReport, [LifeNext]_lifeVars
  PROVE  FlagIsReport' /\ [Watch!WatchNext]_Watch!watchVars
  <1>1. CASE UNCHANGED lifeVars
    <2>1. UNCHANGED <<rows, alerts, crossed>>
      BY <1>1 DEF lifeVars, server, history
    <2> QED
      BY <2>1, Unwatched
  <1>2. ASSUME NEW r \in requests, Commit(r) PROVE FlagIsReport' /\ Watch!WatchNext
    BY <1>2, CommitHears
  <1>3. ASSUME NEW d \in DOMAIN rows, Silence(d) PROVE FlagIsReport' /\ Watch!WatchNext
    BY <1>3, SilenceFalls
  <1>4. ASSUME NEW d \in DOMAIN rows, Sweep(d) PROVE FlagIsReport' /\ Watch!WatchNext
    BY <1>4, SweepReports
  <1>5. ASSUME NEW b \in BOOLEAN, Enrol(b) PROVE FlagIsReport' /\ UNCHANGED Watch!watchVars
    BY <1>5, EnrolUnseen
  <1>6. CASE \/ Start \/ Resume \/ SaveState \/ Rename
             \/ Contact \/ Obeyed \/ Flush \/ Evict \/ Stop \/ Answer \/ Kill \/ SetFloor
             \/ \E b \in BOOLEAN : GiveUp(b)
             \/ \E v \in Version, b \in BOOLEAN : Update(v, b)
             \/ \E r \in requests : RequireAgent(r)
    <2>1. UNCHANGED <<rows, alerts, crossed>>
      BY <1>6, OthersUnseen
    <2> QED
      BY <2>1, Unwatched
  <1> QED
    BY <1>1, <1>2, <1>3, <1>4, <1>5, <1>6 DEF LifeNext

\* For every number of devices, runs, requests in flight and faults: a silent device is
\* reported at most once before it is heard again, and the only silence that is masked is
\* one whose last request a report has crossed (check_once, telemetry, checkin,
\* report_inventory).
THEOREM LifeImplementsWatch == LifeSpec => ImplementsWatch
  <1>1. LifeInit => Watch!WatchInit /\ FlagIsReport
    BY WatchStart
  <1>2. LifeInv /\ FlagIsReport /\ [LifeNext]_lifeVars
          => FlagIsReport' /\ [Watch!WatchNext]_Watch!watchVars
    BY StepsOfWatch
  <1> QED
    BY <1>1, <1>2, LifeIsInductive, PTL DEF LifeSpec, ImplementsWatch, Watch!WatchSpec

===============================================================================
