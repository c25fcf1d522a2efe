------------------------- MODULE AccountSessionsProofs -------------------------
(***************************************************************************)
(* Proofs about AccountSessions: for any pool of threads and any number of *)
(* sessions, tokens, deaths of the server and tokens that expire, what     *)
(* lets the owner of an account in serves once, is cut off by a reset and  *)
(* by disabling, and the account is made whole.                            *)
(***************************************************************************)
EXTENDS AccountSessions, SequenceTheorems, FiniteSetTheorems, TLAPS

(* What a handler holds, by its stage.                                     *)

LEMMA HandlerFields ==
  ASSUME NEW h \in Handler
  PROVE  /\ h.stage \in {"idle", "create", "refresh", "sso", "issue", "request", "reset",
                         "verify", "revoke", "accept", "disable"}
         /\ h.stage = "create" => h \in [stage : {"create"}, way : Ways]
         /\ h.stage = "refresh" =>
              h \in [stage : {"refresh"}, session : Nat, late : SUBSET Overtaking]
         /\ h.stage \in {"sso", "issue"} =>
              h \in [stage : {"sso", "issue"}, proof : Nat, from : Nat,
                     late : SUBSET Overtaking]
         /\ h.stage = "request" =>
              h \in [stage : {"request"}, purpose : Purpose, seen : SUBSET Nat,
                     beside : BOOLEAN]
         /\ h.stage \in {"reset", "verify"} => h \in [stage : {"reset", "verify"}, token : Nat]
         /\ h.stage = "revoke" =>
              h \in [stage : {"revoke"}, token : Nat, seen : SUBSET Nat]
         /\ h.stage = "accept" => h \in [stage : {"accept"}, token : Nat, active : BOOLEAN]
         /\ h.stage = "disable" => h \in [stage : {"disable"}, active : BOOLEAN]
  BY DEF Handler, Idle

(* The sessions' part is kept when no session gains a holder or a successor.  *)

LEMMA ServeOnceShrinks ==
  ASSUME SessionsServeOnce,
         DOMAIN sessions' = DOMAIN sessions,
         \A s \in DOMAIN sessions :
           /\ Live(s)' => Live(s)
           /\ sessions[s].raced => sessions'[s].raced
           /\ Continued(s)' \subseteq Continued(s)
           /\ Holding(s)' \subseteq Holding(s)
           /\ Continuing(s)' \subseteq Continuing(s)
  PROVE  SessionsServeOnce'
  BY DEF SessionsServeOnce

LEMMA LoginKeeps ==
  ASSUME AccountInv, NEW t \in Threads, Login(t)
  PROVE  AccountInv'
  <1> USE DEF Stage, Becomes, account, history
  <1>0. at \in [Threads -> Handler]
    BY DEF AccountInv, TypeOK
  <1>1. /\ at' = [at EXCEPT ![t] = Entering("issue")]
        /\ at[t].stage = "idle" /\ active
        /\ UNCHANGED <<account, sessions, tokens, history>>
    BY DEF Login
  <1>2. /\ \A u \in Threads \ {t} : at'[u] = at[u]
        /\ at'[t].stage = "issue" /\ at'[t].from = 0 /\ at'[t].proof = resets
    BY <1>0, <1>1 DEF Entering
  <1>3. TypeOK'
    <2>1. at' \in [Threads -> Handler]
      BY <1>0, <1>1 DEF AccountInv, TypeOK, Entering, Handler
    <2> QED
      BY <2>1, <1>1 DEF AccountInv, TypeOK
  <1>4. NothingYet'
    BY <1>1, <1>2 DEF AccountInv, NothingYet
  <1>5. References'
    BY <1>1, <1>2 DEF AccountInv, References
  <1>6. ResetsOvertake'
    BY <1>1, <1>2 DEF AccountInv, ResetsOvertake, OldSessionsWereOvertaken, LiveSessions, Live, TypeOK
  <1>7. SessionsServeOnce'
    <2>1. \A s \in DOMAIN sessions : Continuing(s)' \subseteq Continuing(s)
      BY <1>1, <1>2 DEF AccountInv, TypeOK, Continuing, InFlight
    <2>2. \A s \in DOMAIN sessions : Holding(s)' \subseteq Holding(s)
      BY <1>1, <1>2 DEF Holding, InFlight
    <2> QED
      BY <1>1, <2>1, <2>2, ServeOnceShrinks DEF AccountInv, Live, Continued
  <1>8. TokensServeOnce'
    BY <1>1, <1>2 DEF AccountInv, TokensServeOnce, HoldingToken, InFlight
  <1>9. RequestsSupersede'
    BY <1>1, <1>2 DEF AccountInv, RequestsSupersede, InFlight, Unused
  <1>10. OneInvitation'
    BY <1>1, <1>2 DEF AccountInv, OneInvitation, InFlight, Invitations, Inviting
  <1>11. DisablingHolds'
    BY <1>1, <1>2 DEF AccountInv, DisablingHolds, DisabledStayOut, InFlight
  <1>12. InvitationHolds'
    BY <1>1, <1>2 DEF AccountInv, InvitationHolds, Making
  <1>13. WholeAccount'
    BY <1>1, <1>2 DEF AccountInv, WholeAccount, Reached, InFlight
  <1> QED
    BY <1>3, <1>4, <1>5, <1>6, <1>7, <1>8, <1>9, <1>10, <1>11, <1>12, <1>13 DEF AccountInv

LEMMA CreateLoadKeeps ==
  ASSUME AccountInv, NEW t \in Threads, NEW way \in Ways, CreateLoad(t, way)
  PROVE  AccountInv'
  <1> USE DEF Stage, Becomes, account, history
  <1>0. at \in [Threads -> Handler]
    BY DEF AccountInv, TypeOK
  <1>1. /\ at' = [at EXCEPT ![t] = [stage |-> "create", way |-> way]]
        /\ at[t].stage = "idle" /\ origin = "none"
        /\ UNCHANGED <<account, sessions, tokens, history>>
    BY DEF CreateLoad
  <1>2. at'[t].stage = "create" /\ \A u \in Threads \ {t} : at'[u] = at[u]
    BY <1>0, <1>1
  <1>3. TypeOK'
    <2>1. at' \in [Threads -> Handler]
      BY <1>0, <1>1, <1>2 DEF Handler
    <2> QED
      BY <2>1, <1>1, <1>2 DEF AccountInv, TypeOK
  <1>4. NothingYet'
    BY <1>1, <1>2 DEF AccountInv, NothingYet
  <1>5. References'
    BY <1>1, <1>2 DEF AccountInv, References
  <1>6. ResetsOvertake'
    BY <1>1, <1>2 DEF AccountInv, ResetsOvertake, OldSessionsWereOvertaken, LiveSessions, Live, TypeOK
  <1>7. SessionsServeOnce'
    <2>1. \A s \in DOMAIN sessions :
            Continuing(s)' \subseteq Continuing(s) /\ Holding(s)' \subseteq Holding(s)
      BY <1>1, <1>2 DEF AccountInv, TypeOK, Continuing, Holding, InFlight
    <2> QED
      BY <1>1, <1>2, <2>1, ServeOnceShrinks DEF AccountInv, Live, Continued
  <1>8. TokensServeOnce'
    BY <1>1, <1>2 DEF AccountInv, TokensServeOnce, HoldingToken, InFlight
  <1>9. RequestsSupersede'
    BY <1>1, <1>2 DEF AccountInv, RequestsSupersede, InFlight, Unused
  <1>10. OneInvitation'
    BY <1>1, <1>2 DEF AccountInv, OneInvitation, InFlight, Invitations, Inviting
  <1>11. DisablingHolds'
    BY <1>1, <1>2 DEF AccountInv, DisablingHolds, DisabledStayOut, InFlight
  <1>12. InvitationHolds'
    BY <1>1, <1>2 DEF AccountInv, InvitationHolds, Making
  <1>13. WholeAccount'
    BY <1>1, <1>2 DEF AccountInv, WholeAccount, Reached, InFlight
  <1> QED
    BY <1>3, <1>4, <1>5, <1>6, <1>7, <1>8, <1>9, <1>10, <1>11,
       <1>12, <1>13 DEF AccountInv

LEMMA SsoVerifyKeeps ==
  ASSUME AccountInv, NEW t \in Threads, SsoVerify(t)
  PROVE  AccountInv'
  <1> USE DEF Stage, Becomes, account, history
  <1>0. at \in [Threads -> Handler]
    BY DEF AccountInv, TypeOK
  <1>1. /\ at' = [at EXCEPT ![t] = [at[t] EXCEPT !.stage = "issue"]]
        /\ at[t].stage = "sso" /\ verified' = TRUE
        /\ UNCHANGED <<origin, active, orgs, sessions, tokens, history>>
    BY DEF SsoVerify
  <1>2. at[t] \in [stage : {"sso", "issue"}, proof : Nat, from : Nat, late : SUBSET Overtaking]
    BY <1>0, <1>1, HandlerFields
  <1>3. /\ at'[t].stage = "issue" /\ at'[t].proof = at[t].proof /\ at'[t].from = at[t].from
        /\ at'[t].late = at[t].late
        /\ \A u \in Threads \ {t} : at'[u] = at[u]
    BY <1>0, <1>1, <1>2
  <1>4. at[t].from = 0 /\ origin = "sso"
    BY <1>1 DEF AccountInv, References
  <1>5. TypeOK'
    <2>1. at' \in [Threads -> Handler]
      BY <1>0, <1>1, <1>2, <1>3, <1>4 DEF Handler
    <2> QED
      BY <2>1, <1>1, <1>2, <1>3, <1>4 DEF AccountInv, TypeOK
  <1>6. NothingYet'
    BY <1>1, <1>2, <1>3, <1>4 DEF AccountInv, NothingYet
  <1>7. References'
    BY <1>1, <1>2, <1>3, <1>4 DEF AccountInv, References
  <1>8. ResetsOvertake'
    BY <1>1, <1>2, <1>3, <1>4 DEF AccountInv, ResetsOvertake, OldSessionsWereOvertaken, LiveSessions, Live, TypeOK
  <1>9. SessionsServeOnce'
    <2>1. \A s \in DOMAIN sessions :
            Continuing(s)' \subseteq Continuing(s) /\ Holding(s)' \subseteq Holding(s)
      BY <1>1, <1>2, <1>3, <1>4 DEF AccountInv, TypeOK, Continuing, Holding, InFlight
    <2> QED
      BY <1>1, <1>2, <1>3, <1>4, <2>1, ServeOnceShrinks DEF AccountInv, Live, Continued
  <1>10. TokensServeOnce'
    BY <1>1, <1>2, <1>3, <1>4 DEF AccountInv, TokensServeOnce, HoldingToken, InFlight
  <1>11. RequestsSupersede'
    BY <1>1, <1>2, <1>3, <1>4 DEF AccountInv, RequestsSupersede, InFlight, Unused
  <1>12. OneInvitation'
    BY <1>1, <1>2, <1>3, <1>4 DEF AccountInv, OneInvitation, InFlight, Invitations, Inviting
  <1>13. DisablingHolds'
    BY <1>1, <1>2, <1>3, <1>4 DEF AccountInv, DisablingHolds, DisabledStayOut, InFlight
  <1>14. InvitationHolds'
    BY <1>1, <1>2, <1>3, <1>4 DEF AccountInv, InvitationHolds, Making
  <1>15. WholeAccount'
    BY <1>1, <1>2, <1>3, <1>4 DEF AccountInv, WholeAccount, Reached, InFlight
  <1> QED
    BY <1>5, <1>6, <1>7, <1>8, <1>9, <1>10, <1>11, <1>12, <1>13,
       <1>14, <1>15 DEF AccountInv

LEMMA ResetSessionsKeeps ==
  ASSUME AccountInv, NEW t \in Threads, ResetSessions(t)
  PROVE  AccountInv'
  <1> USE DEF Stage, Becomes, account, history
  <1>0. at \in [Threads -> Handler]
    BY DEF AccountInv, TypeOK
  <1>1. /\ at' = [at EXCEPT ![t] = [stage |-> "revoke", token |-> at[t].token,
                                    seen |-> LiveSessions]]
        /\ at[t].stage = "reset"
        /\ UNCHANGED <<account, sessions, tokens, history>>
    BY DEF ResetSessions
  <1>2. at[t] \in [stage : {"reset", "verify"}, token : Nat]
    BY <1>0, <1>1, HandlerFields
  <1>3. /\ at'[t].stage = "revoke" /\ at'[t].token = at[t].token
        /\ \A u \in Threads \ {t} : at'[u] = at[u]
    BY <1>0, <1>1
  <1>4. TypeOK'
    <2>1. LiveSessions \subseteq Nat
      BY DEF AccountInv, TypeOK, LiveSessions
    <2>2. at' \in [Threads -> Handler]
      BY <1>0, <1>1, <1>2, <1>3, <2>1 DEF Handler
    <2> QED
      BY <2>2, <1>1, <1>2, <1>3 DEF AccountInv, TypeOK
  <1>5. NothingYet'
    BY <1>1, <1>2, <1>3 DEF AccountInv, NothingYet
  <1>6. References'
    BY <1>1, <1>2, <1>3 DEF AccountInv, References, PurposeOf
  <1>7. ResetsOvertake'
    BY <1>1, <1>2, <1>3 DEF AccountInv, ResetsOvertake, OldSessionsWereOvertaken, LiveSessions, Live, TypeOK
  <1>8. SessionsServeOnce'
    <2>1. \A s \in DOMAIN sessions :
            Continuing(s)' \subseteq Continuing(s) /\ Holding(s)' \subseteq Holding(s)
      BY <1>1, <1>2, <1>3 DEF AccountInv, TypeOK, Continuing, Holding, InFlight
    <2> QED
      BY <1>1, <1>2, <1>3, <2>1, ServeOnceShrinks DEF AccountInv, Live, Continued
  <1>9. TokensServeOnce'
    BY <1>1, <1>2, <1>3 DEF AccountInv, TokensServeOnce, HoldingToken, InFlight
  <1>10. RequestsSupersede'
    BY <1>1, <1>2, <1>3 DEF AccountInv, RequestsSupersede, InFlight, Unused
  <1>11. OneInvitation'
    BY <1>1, <1>2, <1>3 DEF AccountInv, OneInvitation, InFlight, Invitations, Inviting
  <1>12. DisablingHolds'
    BY <1>1, <1>2, <1>3 DEF AccountInv, DisablingHolds, DisabledStayOut, InFlight
  <1>13. InvitationHolds'
    BY <1>1, <1>2, <1>3 DEF AccountInv, InvitationHolds, Making
  <1>14. WholeAccount'
    BY <1>1, <1>2, <1>3 DEF AccountInv, WholeAccount, Reached, InFlight
  <1> QED
    BY <1>4, <1>5, <1>6, <1>7, <1>8, <1>9, <1>10, <1>11, <1>12,
       <1>13, <1>14 DEF AccountInv

LEMMA DisableLoadKeeps ==
  ASSUME AccountInv, NEW t \in Threads, DisableLoad(t)
  PROVE  AccountInv'
  <1> USE DEF Stage, Becomes, account, history
  <1>0. at \in [Threads -> Handler]
    BY DEF AccountInv, TypeOK
  <1>1. /\ at' = [at EXCEPT ![t] = [stage |-> "disable", active |-> active]]
        /\ at[t].stage = "idle" /\ origin # "none"
        /\ crossed' = (crossed \/ InFlight({"accept"}) # {})
        /\ UNCHANGED <<account, sessions, tokens, resets, word, deaths, torn>>
    BY DEF DisableLoad
  <1>2. /\ at'[t].stage = "disable" /\ at'[t].active = active
        /\ \A u \in Threads \ {t} : at'[u] = at[u]
    BY <1>0, <1>1
  <1>3. TypeOK'
    <2>1. at' \in [Threads -> Handler]
      BY <1>0, <1>1, <1>2 DEF Handler, AccountInv, TypeOK
    <2>2. crossed' \in BOOLEAN
      BY <1>1, <1>2 DEF AccountInv, TypeOK
    <2> QED
      BY <2>1, <2>2, <1>1, <1>2 DEF AccountInv, TypeOK
  <1>4. NothingYet'
    BY <1>1, <1>2 DEF AccountInv, NothingYet
  <1>5. References'
    BY <1>1, <1>2 DEF AccountInv, References
  <1>6. ResetsOvertake'
    BY <1>1, <1>2 DEF AccountInv, ResetsOvertake, OldSessionsWereOvertaken, LiveSessions, Live, TypeOK
  <1>7. SessionsServeOnce'
    <2>1. \A s \in DOMAIN sessions :
            Continuing(s)' \subseteq Continuing(s) /\ Holding(s)' \subseteq Holding(s)
      BY <1>1, <1>2 DEF AccountInv, TypeOK, Continuing, Holding, InFlight
    <2> QED
      BY <1>1, <1>2, <2>1, ServeOnceShrinks DEF AccountInv, Live, Continued
  <1>8. TokensServeOnce'
    BY <1>1, <1>2 DEF AccountInv, TokensServeOnce, HoldingToken, InFlight
  <1>9. RequestsSupersede'
    BY <1>1, <1>2 DEF AccountInv, RequestsSupersede, InFlight, Unused
  <1>10. OneInvitation'
    BY <1>1, <1>2 DEF AccountInv, OneInvitation, InFlight, Invitations, Inviting
  <1>11. DisablingHolds'
    <2>1. crossed => crossed'
      BY <1>1
    <2>2. DisabledStayOut'
      BY <1>1, <2>1 DEF AccountInv, DisablingHolds, DisabledStayOut
    <2>3. \A u \in InFlight({"refresh", "sso", "issue"})' : active' \/ "disable" \in at'[u].late
      BY <1>1, <1>2 DEF AccountInv, DisablingHolds, InFlight
    <2>4. InFlight({"accept"})' \subseteq InFlight({"accept"})
      BY <1>1, <1>2 DEF InFlight
    <2>5. InFlight({"accept"})' = {} \/ crossed'
      BY <1>1, <2>4
    <2>6. \A u \in InFlight({"disable"})' : crossed' \/ at'[u].active \/ ~ active'
      BY <1>1, <1>2, <2>1 DEF AccountInv, DisablingHolds, InFlight
    <2> QED
      BY <2>2, <2>3, <2>5, <2>6 DEF DisablingHolds
  <1>12. InvitationHolds'
    BY <1>1, <1>2 DEF AccountInv, InvitationHolds, Making
  <1>13. WholeAccount'
    BY <1>1, <1>2 DEF AccountInv, WholeAccount, Reached, InFlight
  <1> QED
    BY <1>3, <1>4, <1>5, <1>6, <1>7, <1>8, <1>9, <1>10, <1>11,
       <1>12, <1>13 DEF AccountInv

-------------------------------------------------------------------------------
(* Sessions.                                                               *)

\* A sequence whose elements are changed one by one.
LEMMA MappedSeq ==
  ASSUME NEW R, NEW q \in Seq(R), NEW f, DOMAIN f = DOMAIN q, f = [i \in DOMAIN q |-> f[i]],
         \A i \in DOMAIN q : f[i] \in R
  PROVE  f \in Seq(R) /\ Len(f) = Len(q)
  <1>1. DOMAIN q = 1..Len(q) /\ Len(q) \in Nat
    OBVIOUS
  <1>2. f \in [1..Len(q) -> R]
    BY <1>1
  <1> QED
    BY <1>1, <1>2

LEMMA RevokeRows ==
  ASSUME sessions \in Seq(Session), NEW S, sessions' = Revoke(S)
  PROVE  /\ sessions' \in Seq(Session) /\ Len(sessions') = Len(sessions)
         /\ DOMAIN sessions' = DOMAIN sessions
         /\ \A s \in DOMAIN sessions :
              /\ sessions'[s].revoked = (sessions[s].revoked \/ s \in S)
              /\ sessions'[s].proof = sessions[s].proof /\ sessions'[s].from = sessions[s].from
              /\ sessions'[s].late = sessions[s].late /\ sessions'[s].raced = sessions[s].raced
              /\ sessions'[s].shut = sessions[s].shut
  <1>1. DOMAIN sessions' = DOMAIN sessions /\ sessions' = [s \in DOMAIN sessions |-> sessions'[s]]
    BY DEF Revoke
  <1>2. \A s \in DOMAIN sessions : sessions[s] \in Session
    OBVIOUS
  <1>3. \A s \in DOMAIN sessions : sessions'[s] =
          IF s \in S THEN [sessions[s] EXCEPT !.revoked = TRUE] ELSE sessions[s]
    BY DEF Revoke
  <1>4. \A s \in DOMAIN sessions : sessions'[s] \in Session
    BY <1>2, <1>3 DEF Session
  <1>5. sessions' \in Seq(Session) /\ Len(sessions') = Len(sessions)
    BY <1>1, <1>4, MappedSeq
  <1>6. ASSUME NEW s \in DOMAIN sessions
        PROVE  /\ sessions'[s].revoked = (sessions[s].revoked \/ s \in S)
               /\ sessions'[s].proof = sessions[s].proof /\ sessions'[s].from = sessions[s].from
               /\ sessions'[s].late = sessions[s].late
               /\ sessions'[s].raced = sessions[s].raced
               /\ sessions'[s].shut = sessions[s].shut
    BY <1>2, <1>3 DEF Session
  <1> QED
    BY <1>1, <1>5, <1>6

LEMMA RacedRow ==
  ASSUME sessions \in Seq(Session), NEW s \in DOMAIN sessions,
         sessions' = [sessions EXCEPT ![s].raced = @ \/ Holding(s) # {}]
  PROVE  /\ sessions' \in Seq(Session) /\ Len(sessions') = Len(sessions)
         /\ DOMAIN sessions' = DOMAIN sessions
         /\ \A r \in DOMAIN sessions :
              /\ sessions'[r].revoked = sessions[r].revoked
              /\ sessions'[r].proof = sessions[r].proof /\ sessions'[r].from = sessions[r].from
              /\ sessions'[r].late = sessions[r].late /\ sessions'[r].shut = sessions[r].shut
              /\ r # s => sessions'[r].raced = sessions[r].raced
              /\ sessions[r].raced => sessions'[r].raced
         /\ ~ sessions'[s].raced => Holding(s) = {}
  <1> DEFINE beside == Holding(s) # {}
             new == [sessions[s] EXCEPT !.raced = sessions[s].raced \/ beside]
  <1>0. beside \in BOOLEAN /\ \A r \in DOMAIN sessions : sessions[r] \in Session
    OBVIOUS
  <1>1. sessions' = [sessions EXCEPT ![s] = new]
    OBVIOUS
  <1>2. /\ new \in Session /\ new.raced = (sessions[s].raced \/ beside)
        /\ new.revoked = sessions[s].revoked /\ new.proof = sessions[s].proof
        /\ new.from = sessions[s].from /\ new.late = sessions[s].late
        /\ new.shut = sessions[s].shut
    <2>1. sessions[s].raced \in BOOLEAN /\ (sessions[s].raced \/ beside) \in BOOLEAN
      BY <1>0 DEF Session
    <2> HIDE DEF beside
    <2> QED
      BY <1>0, <2>1 DEF Session
  <1>3. (sessions[s].raced => new.raced) /\ (~ new.raced => Holding(s) = {})
    BY <1>2
  <1> HIDE DEF new
  <1>4. sessions'[s] = new /\ \A r \in DOMAIN sessions \ {s} : sessions'[r] = sessions[r]
    BY <1>1
  <1>5. /\ sessions' \in Seq(Session) /\ Len(sessions') = Len(sessions)
        /\ DOMAIN sessions' = DOMAIN sessions
    BY <1>1, <1>2
  <1> QED
    BY <1>2, <1>3, <1>4, <1>5

LEMMA RefreshCheckKeeps ==
  ASSUME AccountInv, NEW t \in Threads, NEW s \in DOMAIN sessions, RefreshCheck(t, s)
  PROVE  AccountInv'
  <1> USE DEF Stage, Becomes, account, history
  <1>0. at \in [Threads -> Handler] /\ sessions \in Seq(Session)
    BY DEF AccountInv, TypeOK
  <1>1. /\ at' = [at EXCEPT ![t] = [stage |-> "refresh", session |-> s, late |-> {}]]
        /\ sessions' = [sessions EXCEPT ![s].raced = @ \/ Holding(s) # {}]
        /\ at[t].stage = "idle" /\ active /\ ~ sessions[s].revoked
        /\ UNCHANGED <<account, tokens, history>>
    BY DEF RefreshCheck, MayRefresh, Live
  <1>2. /\ at'[t].stage = "refresh" /\ at'[t].session = s /\ at'[t].late = {}
        /\ \A u \in Threads \ {t} : at'[u] = at[u]
    BY <1>0, <1>1
  <1>3. /\ sessions' \in Seq(Session) /\ Len(sessions') = Len(sessions)
        /\ DOMAIN sessions' = DOMAIN sessions
        /\ \A r \in DOMAIN sessions :
             /\ sessions'[r].revoked = sessions[r].revoked
             /\ sessions'[r].proof = sessions[r].proof /\ sessions'[r].from = sessions[r].from
             /\ sessions'[r].late = sessions[r].late /\ sessions'[r].shut = sessions[r].shut
             /\ r # s => sessions'[r].raced = sessions[r].raced
             /\ sessions[r].raced => sessions'[r].raced
        /\ ~ sessions'[s].raced => Holding(s) = {}
    BY <1>0, <1>1, RacedRow
  <1>4. \A r \in DOMAIN sessions : Live(r) <=> Live(r)'
    BY <1>3 DEF Live
  <1>5. TypeOK'
    <2>1. at' \in [Threads -> Handler]
      BY <1>0, <1>1, <1>2, <1>3, <1>4 DEF Handler
    <2> QED
      BY <2>1, <1>1, <1>2, <1>3, <1>4 DEF AccountInv, TypeOK
  <1>6. NothingYet'
    BY <1>1, <1>2, <1>3, <1>4 DEF AccountInv, NothingYet
  <1>7. References'
    BY <1>1, <1>2, <1>3, <1>4 DEF AccountInv, References
  <1>8. ResetsOvertake'
    BY <1>1, <1>2, <1>3, <1>4 DEF AccountInv, ResetsOvertake, OldSessionsWereOvertaken, LiveSessions, Live, TypeOK
  <1>9. SessionsServeOnce'
    <2>1. \A r \in DOMAIN sessions : Continued(r)' = Continued(r) /\ Continuing(r)' = Continuing(r)
      BY <1>1, <1>2, <1>3, <1>4 DEF Continued, Continuing, InFlight
    <2>2. \A r \in DOMAIN sessions \ {s} : Holding(r)' = Holding(r)
      BY <1>1, <1>2, <1>3, <1>4 DEF Holding, InFlight
    <2>3. ~ sessions'[s].raced => \A u \in Holding(s)' : u = t
      BY <1>1, <1>2, <1>3, <1>4 DEF Holding, InFlight
    <2>4. Continued(s) = {} /\ Continuing(s) = {}
      BY <1>1, <1>2, <1>3, <1>4 DEF AccountInv, SessionsServeOnce, Live
    <2>5. ASSUME NEW r \in DOMAIN sessions \ {s}
          PROVE  /\ (Live(r) <=> Live(r)') /\ sessions'[r].raced = sessions[r].raced
                 /\ Continued(r)' = Continued(r) /\ Continuing(r)' = Continuing(r)
                 /\ Holding(r)' = Holding(r)
      BY <1>1, <1>2, <1>3, <1>4, <2>1, <2>2 DEF Live
    <2>6. ~ sessions'[s].raced => \A u, v \in Holding(s)' : u = v
      BY <2>3
    <2> QED
      BY <1>3, <2>1, <2>4, <2>5, <2>6 DEF AccountInv, SessionsServeOnce
  <1>10. TokensServeOnce'
    BY <1>1, <1>2, <1>3, <1>4 DEF AccountInv, TokensServeOnce, HoldingToken, InFlight
  <1>11. RequestsSupersede'
    BY <1>1, <1>2, <1>3, <1>4 DEF AccountInv, RequestsSupersede, InFlight, Unused
  <1>12. OneInvitation'
    BY <1>1, <1>2, <1>3, <1>4 DEF AccountInv, OneInvitation, InFlight, Invitations, Inviting
  <1>13. DisablingHolds'
    BY <1>1, <1>2, <1>3, <1>4 DEF AccountInv, DisablingHolds, DisabledStayOut, InFlight
  <1>14. InvitationHolds'
    BY <1>1, <1>2, <1>3, <1>4 DEF AccountInv, InvitationHolds, Making
  <1>15. WholeAccount'
    BY <1>1, <1>2, <1>3, <1>4 DEF AccountInv, WholeAccount, Reached, InFlight
  <1> QED
    BY <1>5, <1>6, <1>7, <1>8, <1>9, <1>10, <1>11, <1>12, <1>13,
       <1>14, <1>15 DEF AccountInv

LEMMA RefreshRevokeKeeps ==
  ASSUME AccountInv, NEW t \in Threads, NEW s \in Nat, RefreshRevoke(t), at[t].session = s
  PROVE  AccountInv'
  <1> USE DEF Stage, Becomes, account, history
  <1>0. at \in [Threads -> Handler] /\ sessions \in Seq(Session)
    BY DEF AccountInv, TypeOK
  <1>1. /\ at' = [at EXCEPT ![t] =
                    [stage |-> "issue", from |-> s, proof |-> sessions[s].proof,
                     late |-> at[t].late \cup (sessions[s].late \ {"disable"})]]
        /\ sessions' = Revoke({s})
    BY DEF RefreshRevoke
  <1>2. at[t].stage = "refresh" /\ UNCHANGED <<account, tokens, history>>
    BY DEF RefreshRevoke
  <1>3. /\ at[t].late \subseteq Overtaking
        /\ s \in DOMAIN sessions /\ s \in 1..Len(sessions)
    <2>1. at[t] \in [stage : {"refresh"}, session : Nat, late : SUBSET Overtaking]
      BY <1>0, <1>2, HandlerFields
    <2>2. at[t].session \in DOMAIN sessions
      BY <1>2 DEF AccountInv, References
    <2> QED
      BY <1>0, <2>1, <2>2
  <1>4. sessions[s] \in Session
    BY <1>0, <1>3
  <1>5. /\ at'[t].stage = "issue" /\ at'[t].from = s /\ at'[t].proof = sessions[s].proof
        /\ "disable" \in at[t].late => "disable" \in at'[t].late
        /\ "reset" \in at[t].late \cup sessions[s].late => "reset" \in at'[t].late
        /\ \A u \in Threads \ {t} : at'[u] = at[u]
    BY <1>0, <1>1
  <1>6. /\ sessions' \in Seq(Session) /\ Len(sessions') = Len(sessions)
        /\ DOMAIN sessions' = DOMAIN sessions
        /\ \A r \in DOMAIN sessions :
              /\ sessions'[r].proof = sessions[r].proof /\ sessions'[r].from = sessions[r].from
              /\ sessions'[r].late = sessions[r].late /\ sessions'[r].raced = sessions[r].raced
              /\ sessions'[r].shut = sessions[r].shut
        /\ \A r \in DOMAIN sessions : Live(r)' => Live(r) /\ r # s
    BY <1>0, <1>1, RevokeRows DEF Live
  <1>7. LiveSessions' \subseteq LiveSessions
    BY <1>6 DEF LiveSessions
  <1>8. TypeOK'
    <2>1. [stage |-> "issue", from |-> s, proof |-> sessions[s].proof,
           late |-> at[t].late \cup (sessions[s].late \ {"disable"})] \in Handler
      BY <1>3, <1>4 DEF Handler, Session
    <2>2. at' \in [Threads -> Handler]
      BY <1>0, <1>1, <2>1
    <2> QED
      BY <2>2, <1>2, <1>3, <1>4, <1>5, <1>6, <1>7 DEF AccountInv, TypeOK
  <1>9. NothingYet'
    BY <1>2, <1>3, <1>4, <1>5, <1>6, <1>7 DEF AccountInv, NothingYet
  <1>10. References'
    BY <1>2, <1>3, <1>4, <1>5, <1>6, <1>7 DEF AccountInv, References
  <1>11. ResetsOvertake'
    <2>1. OldSessionsWereOvertaken'
      <3> SUFFICES ASSUME NEW r \in LiveSessions', sessions'[r].proof < resets'
                   PROVE  "reset" \in sessions'[r].late
        BY DEF OldSessionsWereOvertaken
      <3>1. r \in LiveSessions /\ r \in DOMAIN sessions
        BY <1>2, <1>3, <1>4, <1>5, <1>6, <1>7 DEF LiveSessions
      <3> QED
        BY <1>2, <1>3, <1>4, <1>5, <1>6, <1>7, <3>1 DEF AccountInv, ResetsOvertake, OldSessionsWereOvertaken
    <2>2. ASSUME NEW u \in Threads, at'[u].stage = "refresh",
                 sessions'[at'[u].session].proof < resets'
          PROVE  "reset" \in at'[u].late \cup sessions'[at'[u].session].late
      BY <1>2, <1>3, <1>4, <1>5, <1>6, <1>7, <2>2 DEF AccountInv, References, ResetsOvertake
    <2>3. ASSUME NEW u \in Threads, at'[u].stage \in {"sso", "issue"}, at'[u].proof < resets'
          PROVE  "reset" \in at'[u].late
      BY <1>2, <1>3, <1>4, <1>5, <1>6, <1>7, <2>3 DEF AccountInv, References, ResetsOvertake
    <2> QED
      BY <2>1, <2>2, <2>3 DEF ResetsOvertake
  <1>12. SessionsServeOnce'
    <2>1. \A r \in DOMAIN sessions : Continued(r)' = Continued(r) /\ Holding(r)' = Holding(r) \ {t}
      BY <1>2, <1>3, <1>4, <1>5, <1>6, <1>7 DEF Continued, Holding, InFlight
    <2>2. \A r \in DOMAIN sessions \ {s} : Continuing(r)' = Continuing(r)
      BY <1>2, <1>3, <1>4, <1>5, <1>6, <1>7 DEF Continuing, InFlight
    <2>3. t \in Holding(s) /\ Continuing(s)' = Continuing(s) \cup {t} /\ ~ Live(s)'
      BY <1>2, <1>3, <1>4, <1>5, <1>6, <1>7 DEF Holding, Continuing, InFlight
    <2>5. ASSUME NEW r \in DOMAIN sessions, ~ sessions'[r].raced, r = s
          PROVE  /\ Holding(r)' = {} /\ Continued(r)' = {}
                 /\ \A u, v \in Continuing(r)' : u = v
      <3>1. ~ sessions[s].raced
        BY <1>6, <2>5
      <3>2. Continued(s) = {} /\ Continuing(s) = {} /\ \A u \in Holding(s) : u = t
        BY <3>1, <2>3, <1>3 DEF AccountInv, SessionsServeOnce
      <3> QED
        BY <3>2, <2>1, <2>3, <2>5
    <2>6. ASSUME NEW r \in DOMAIN sessions, r # s
          PROVE  /\ Live(r)' => Continued(r)' = {} /\ Continuing(r)' = {}
                 /\ ~ sessions'[r].raced =>
                      /\ \A u, v \in Holding(r)' : u = v
                      /\ Holding(r)' # {} => Continued(r)' = {} /\ Continuing(r)' = {}
                      /\ \A q, v \in Continued(r)' : q = v
                      /\ \A u, v \in Continuing(r)' : u = v
                      /\ Continued(r)' = {} \/ Continuing(r)' = {}
      BY <1>6, <2>1, <2>2, <2>6 DEF AccountInv, SessionsServeOnce
    <2> QED
      BY <1>6, <2>3, <2>5, <2>6 DEF SessionsServeOnce
  <1>13. TokensServeOnce'
    BY <1>2, <1>3, <1>4, <1>5, <1>6, <1>7 DEF AccountInv, TokensServeOnce, HoldingToken, InFlight
  <1>14. RequestsSupersede'
    BY <1>2, <1>3, <1>4, <1>5, <1>6, <1>7 DEF AccountInv, RequestsSupersede, InFlight, Unused
  <1>15. OneInvitation'
    BY <1>2, <1>3, <1>4, <1>5, <1>6, <1>7 DEF AccountInv, OneInvitation, InFlight, Invitations, Inviting
  <1>16. DisablingHolds'
    BY <1>2, <1>3, <1>4, <1>5, <1>6, <1>7 DEF AccountInv, DisablingHolds, DisabledStayOut, InFlight
  <1>17. InvitationHolds'
    BY <1>2, <1>3, <1>4, <1>5, <1>6, <1>7 DEF AccountInv, InvitationHolds, Making
  <1>18. WholeAccount'
    BY <1>2, <1>3, <1>4, <1>5, <1>6, <1>7 DEF AccountInv, WholeAccount, Reached, InFlight
  <1> QED
    BY <1>8, <1>9, <1>10, <1>11, <1>12, <1>13, <1>14, <1>15, <1>16,
       <1>17, <1>18 DEF AccountInv

LEMMA LogoutKeeps ==
  ASSUME AccountInv, NEW s \in DOMAIN sessions, Logout(s)
  PROVE  AccountInv'
  <1> USE DEF Stage, Becomes, account, history
  <1>0. at \in [Threads -> Handler] /\ sessions \in Seq(Session)
    BY DEF AccountInv, TypeOK
  <1>1. UNCHANGED <<account, tokens, at, history>>
    BY DEF Logout
  <1>2. /\ sessions' \in Seq(Session) /\ Len(sessions') = Len(sessions)
        /\ DOMAIN sessions' = DOMAIN sessions
        /\ \A r \in DOMAIN sessions :
              /\ sessions'[r].revoked = (sessions[r].revoked \/ r \in {s})
              /\ sessions'[r].proof = sessions[r].proof /\ sessions'[r].from = sessions[r].from
              /\ sessions'[r].late = sessions[r].late /\ sessions'[r].raced = sessions[r].raced
              /\ sessions'[r].shut = sessions[r].shut
    BY <1>0, RevokeRows DEF Logout
  <1>3. /\ \A r \in DOMAIN sessions : Live(r)' => Live(r)
        /\ LiveSessions' \subseteq LiveSessions
    BY <1>2 DEF Live, LiveSessions
  <1>4. TypeOK'
    BY <1>1, <1>2, <1>3 DEF AccountInv, TypeOK
  <1>5. NothingYet'
    BY <1>1, <1>2, <1>3 DEF AccountInv, NothingYet
  <1>6. References'
    BY <1>1, <1>2, <1>3 DEF AccountInv, References
  <1>7. ResetsOvertake'
    <2>1. OldSessionsWereOvertaken'
      <3> SUFFICES ASSUME NEW r \in LiveSessions', sessions'[r].proof < resets'
                   PROVE  "reset" \in sessions'[r].late
        BY DEF OldSessionsWereOvertaken
      <3>1. r \in LiveSessions /\ r \in DOMAIN sessions
        BY <1>1, <1>2, <1>3 DEF LiveSessions
      <3> QED
        BY <1>1, <1>2, <1>3, <3>1 DEF AccountInv, ResetsOvertake, OldSessionsWereOvertaken
    <2>2. ASSUME NEW u \in Threads, at'[u].stage = "refresh",
                 sessions'[at'[u].session].proof < resets'
          PROVE  "reset" \in at'[u].late \cup sessions'[at'[u].session].late
      BY <1>1, <1>2, <1>3, <2>2 DEF AccountInv, References, ResetsOvertake
    <2>3. ASSUME NEW u \in Threads, at'[u].stage \in {"sso", "issue"}, at'[u].proof < resets'
          PROVE  "reset" \in at'[u].late
      BY <1>1, <1>2, <1>3, <2>3 DEF AccountInv, References, ResetsOvertake
    <2> QED
      BY <2>1, <2>2, <2>3 DEF ResetsOvertake
  <1>8. SessionsServeOnce'
    <2>1. \A k \in DOMAIN sessions :
            Continuing(k)' \subseteq Continuing(k) /\ Holding(k)' \subseteq Holding(k)
      BY <1>1, <1>2, <1>3 DEF AccountInv, TypeOK, Continuing, Holding, InFlight
    <2> QED
      BY <1>1, <1>2, <1>3, <2>1, ServeOnceShrinks DEF AccountInv, Live, Continued
  <1>9. TokensServeOnce'
    BY <1>1, <1>2, <1>3 DEF AccountInv, TokensServeOnce, HoldingToken, InFlight
  <1>10. RequestsSupersede'
    BY <1>1, <1>2, <1>3 DEF AccountInv, RequestsSupersede, InFlight, Unused
  <1>11. OneInvitation'
    BY <1>1, <1>2, <1>3 DEF AccountInv, OneInvitation, InFlight, Invitations, Inviting
  <1>12. DisablingHolds'
    BY <1>1, <1>2, <1>3 DEF AccountInv, DisablingHolds, DisabledStayOut, InFlight
  <1>13. InvitationHolds'
    BY <1>1, <1>2, <1>3 DEF AccountInv, InvitationHolds, Making
  <1>14. WholeAccount'
    BY <1>1, <1>2, <1>3 DEF AccountInv, WholeAccount, Reached, InFlight
  <1> QED
    BY <1>4, <1>5, <1>6, <1>7, <1>8, <1>9, <1>10, <1>11, <1>12,
       <1>13, <1>14 DEF AccountInv

LEMMA IssueKeeps ==
  ASSUME AccountInv, NEW t \in Threads, NEW n \in Nat, Len(sessions) + 1 = n, Issue(t)
  PROVE  AccountInv'
  <1> USE DEF Stage, Becomes, account, history
  <1>0. at \in [Threads -> Handler] /\ sessions \in Seq(Session)
    BY DEF AccountInv, TypeOK
  <1>1. /\ at' = [at EXCEPT ![t] = Idle]
        /\ sessions' = Append(sessions, NewSession(at[t]))
    BY DEF Issue
  <1>2. at[t].stage = "issue" /\ UNCHANGED <<account, tokens, history>>
    BY DEF Issue
  <1>3. /\ at[t] \in [stage : {"sso", "issue"}, proof : Nat, from : Nat, late : SUBSET Overtaking]
        /\ at[t].from \in 0..Len(sessions)
    BY <1>0, <1>2, HandlerFields DEF AccountInv, References
  <1>4. NewSession(at[t]) \in Session
    BY <1>3 DEF NewSession, Session, AccountInv, TypeOK
  <1>5. at'[t].stage = "idle" /\ \A u \in Threads \ {t} : at'[u] = at[u]
    BY <1>0, <1>1 DEF Idle
  <1>6. /\ sessions' \in Seq(Session) /\ Len(sessions') = n
        /\ DOMAIN sessions = 1..(n - 1) /\ DOMAIN sessions' = 1..n
        /\ n \in DOMAIN sessions' /\ n \notin DOMAIN sessions
        /\ \A r \in DOMAIN sessions : r \in DOMAIN sessions' /\ sessions'[r] = sessions[r]
        /\ \A r \in DOMAIN sessions' : r = n \/ r \in DOMAIN sessions
        /\ sessions'[n] = NewSession(at[t])
    BY <1>0, <1>1, <1>4
  <1>7. /\ sessions'[n].proof = at[t].proof /\ sessions'[n].from = at[t].from
        /\ sessions'[n].late = at[t].late
        /\ ~ sessions'[n].revoked /\ (sessions'[n].shut => ~ active)
    <2>1. sessions'[n].shut = ~ active
      BY <1>6 DEF NewSession
    <2>2. sessions'[n].shut => ~ active
      BY <2>1
    <2> QED
      BY <1>6, <2>2 DEF NewSession
  <1>8. TypeOK'
    <2>1. at' \in [Threads -> Handler]
      BY <1>0, <1>1 DEF Handler
    <2> QED
      BY <2>1, <1>2, <1>3, <1>4, <1>5, <1>6, <1>7 DEF AccountInv, TypeOK
  <1>9. NothingYet'
    BY <1>2, <1>3, <1>4, <1>5, <1>6, <1>7 DEF AccountInv, NothingYet
  <1>10. References'
    BY <1>2, <1>3, <1>4, <1>5, <1>6, <1>7 DEF AccountInv, References
  <1>11. ResetsOvertake'
    <2>1. ASSUME NEW r \in DOMAIN sessions', ~ sessions'[r].revoked, sessions'[r].proof < resets'
          PROVE  "reset" \in sessions'[r].late
      <3>1. CASE r = n
        BY <3>1, <2>1, <1>2, <1>3, <1>4, <1>5, <1>6, <1>7 DEF AccountInv, ResetsOvertake
      <3>2. CASE r \in DOMAIN sessions
        BY <3>2, <2>1, <1>2, <1>3, <1>4, <1>5, <1>6, <1>7 DEF AccountInv, ResetsOvertake, OldSessionsWereOvertaken, LiveSessions, Live
      <3> QED
        BY <3>1, <3>2, <1>6
    <2>2. ASSUME NEW u \in Threads, at'[u].stage = "refresh",
                 sessions'[at'[u].session].proof < resets'
          PROVE  "reset" \in at'[u].late \cup sessions'[at'[u].session].late
      BY <1>2, <1>3, <1>4, <1>5, <1>6, <1>7, <2>2 DEF AccountInv, References, ResetsOvertake
    <2>3. ASSUME NEW u \in Threads, at'[u].stage \in {"sso", "issue"}, at'[u].proof < resets'
          PROVE  "reset" \in at'[u].late
      BY <1>2, <1>3, <1>4, <1>5, <1>6, <1>7, <2>3 DEF AccountInv, ResetsOvertake
    <2> QED
      BY <2>1, <2>2, <2>3 DEF ResetsOvertake, OldSessionsWereOvertaken, LiveSessions, Live
  <1>12. SessionsServeOnce'
    <2>1. /\ \A r \in DOMAIN sessions : sessions[r].from \in 0..(n - 1)
          /\ \A u \in Threads : at[u].stage = "issue" => at[u].from \in 0..(n - 1)
          /\ \A u \in Threads : at[u].stage = "refresh" => at[u].session \in 1..(n - 1)
      BY <1>2, <1>3, <1>4, <1>5, <1>6, <1>7 DEF AccountInv, References
    <2>2. Continued(n)' = {} /\ Continuing(n)' = {} /\ Holding(n)' = {}
      BY <1>2, <1>3, <1>4, <1>5, <1>6, <1>7, <2>1 DEF Continued, Continuing, Holding, InFlight
    <2>3. ASSUME NEW s \in DOMAIN sessions
          PROVE  /\ sessions'[s] = sessions[s]
                 /\ Holding(s)' = Holding(s) /\ Continuing(s)' = Continuing(s) \ {t}
                 /\ at[t].from # s => Continued(s)' = Continued(s)
                 /\ at[t].from = s => Continued(s)' = Continued(s) \cup {n} /\ t \in Continuing(s)
      BY <1>2, <1>3, <1>4, <1>5, <1>6, <1>7 DEF Continued, Continuing, Holding, InFlight
    <2>4. ASSUME NEW s \in DOMAIN sessions, at[t].from # s
          PROVE  /\ Live(s)' => Continued(s)' = {} /\ Continuing(s)' = {}
                 /\ ~ sessions'[s].raced =>
                      /\ \A u, v \in Holding(s)' : u = v
                      /\ Holding(s)' # {} => Continued(s)' = {} /\ Continuing(s)' = {}
                      /\ \A q, v \in Continued(s)' : q = v
                      /\ \A u, v \in Continuing(s)' : u = v
                      /\ Continued(s)' = {} \/ Continuing(s)' = {}
      BY <2>3, <2>4 DEF AccountInv, SessionsServeOnce, Live
    <2>5. ASSUME NEW s \in DOMAIN sessions, at[t].from = s
          PROVE  /\ Live(s)' => Continued(s)' = {} /\ Continuing(s)' = {}
                 /\ ~ sessions'[s].raced =>
                      /\ \A u, v \in Holding(s)' : u = v
                      /\ Holding(s)' # {} => Continued(s)' = {} /\ Continuing(s)' = {}
                      /\ \A q, v \in Continued(s)' : q = v
                      /\ \A u, v \in Continuing(s)' : u = v
                      /\ Continued(s)' = {} \/ Continuing(s)' = {}
      <3>1. ~ Live(s)'
        BY <2>3, <2>5 DEF AccountInv, SessionsServeOnce, Live
      <3>2. CASE ~ sessions[s].raced
        <4>1. Holding(s) = {} /\ Continued(s) = {} /\ \A u \in Continuing(s) : u = t
          BY <3>2, <2>3, <2>5 DEF AccountInv, SessionsServeOnce
        <4> QED
          BY <4>1, <3>1, <2>3, <2>5
      <3> QED
        BY <3>1, <3>2, <2>3
    <2> QED
      BY <1>2, <1>3, <1>4, <1>5, <1>6, <1>7, <2>2, <2>4, <2>5 DEF SessionsServeOnce
  <1>13. TokensServeOnce'
    BY <1>2, <1>3, <1>4, <1>5, <1>6, <1>7 DEF AccountInv, TokensServeOnce, HoldingToken, InFlight
  <1>14. RequestsSupersede'
    BY <1>2, <1>3, <1>4, <1>5, <1>6, <1>7 DEF AccountInv, RequestsSupersede, InFlight, Unused
  <1>15. OneInvitation'
    BY <1>2, <1>3, <1>4, <1>5, <1>6, <1>7 DEF AccountInv, OneInvitation, InFlight, Invitations, Inviting
  <1>16. DisablingHolds'
    BY <1>2, <1>3, <1>4, <1>5, <1>6, <1>7 DEF AccountInv, DisablingHolds, DisabledStayOut, InFlight
  <1>17. InvitationHolds'
    BY <1>2, <1>3, <1>4, <1>5, <1>6, <1>7 DEF AccountInv, InvitationHolds, Making
  <1>18. WholeAccount'
    BY <1>2, <1>3, <1>4, <1>5, <1>6, <1>7 DEF AccountInv, WholeAccount, Reached, InFlight
  <1> QED
    BY <1>8, <1>9, <1>10, <1>11, <1>12, <1>13, <1>14, <1>15, <1>16,
       <1>17, <1>18 DEF AccountInv

-------------------------------------------------------------------------------
(* Tokens.                                                                 *)

LEMMA HoldRow ==
  ASSUME tokens \in Seq(Token), NEW k \in DOMAIN tokens, Hold(k)
  PROVE  /\ tokens' \in Seq(Token) /\ DOMAIN tokens' = DOMAIN tokens
         /\ \A j \in DOMAIN tokens :
              /\ tokens'[j].purpose = tokens[j].purpose /\ tokens'[j].used = tokens[j].used
              /\ tokens'[j].uses = tokens[j].uses /\ tokens'[j].beside = tokens[j].beside
              /\ tokens'[j].expired = tokens[j].expired
              /\ j # k => tokens'[j].raced = tokens[j].raced
              /\ tokens[j].raced => tokens'[j].raced
         /\ ~ tokens'[k].raced => HoldingToken(k) = {}
  <1> DEFINE beside == HoldingToken(k) # {}
             new == [tokens[k] EXCEPT !.raced = tokens[k].raced \/ beside]
  <1>0. beside \in BOOLEAN /\ \A j \in DOMAIN tokens : tokens[j] \in Token
    OBVIOUS
  <1>1. tokens' = [tokens EXCEPT ![k] = new]
    BY DEF Hold
  <1>2. /\ new \in Token /\ new.raced = (tokens[k].raced \/ beside)
        /\ new.purpose = tokens[k].purpose /\ new.used = tokens[k].used
        /\ new.uses = tokens[k].uses /\ new.beside = tokens[k].beside
        /\ new.expired = tokens[k].expired
    <2>1. tokens[k].raced \in BOOLEAN /\ (tokens[k].raced \/ beside) \in BOOLEAN
      BY <1>0 DEF Token
    <2> HIDE DEF beside
    <2> QED
      BY <1>0, <2>1 DEF Token
  <1>3. (tokens[k].raced => new.raced) /\ (~ new.raced => HoldingToken(k) = {})
    BY <1>2
  <1> HIDE DEF new
  <1>4. tokens'[k] = new /\ \A j \in DOMAIN tokens \ {k} : tokens'[j] = tokens[j]
    BY <1>1
  <1>5. tokens' \in Seq(Token) /\ DOMAIN tokens' = DOMAIN tokens
    BY <1>1, <1>2
  <1> QED
    BY <1>2, <1>3, <1>4, <1>5

LEMMA SpendRow ==
  ASSUME tokens \in Seq(Token), NEW k \in DOMAIN tokens, Spend(k)
  PROVE  /\ tokens' \in Seq(Token) /\ DOMAIN tokens' = DOMAIN tokens
         /\ \A j \in DOMAIN tokens \ {k} : tokens'[j] = tokens[j]
         /\ tokens'[k].purpose = tokens[k].purpose /\ tokens'[k].used = TRUE
         /\ tokens'[k].uses = tokens[k].uses + 1 /\ tokens'[k].beside = tokens[k].beside
         /\ tokens'[k].expired = tokens[k].expired
         /\ tokens'[k].raced = tokens[k].raced
         /\ tokens[k].uses \in Nat
  <1> DEFINE new == [tokens[k] EXCEPT !.used = TRUE, !.uses = tokens[k].uses + 1]
  <1>1. tokens' = [tokens EXCEPT ![k] = new] /\ tokens[k] \in Token
    BY DEF Spend
  <1>2. /\ new \in Token
        /\ new.purpose = tokens[k].purpose /\ new.used = TRUE /\ new.raced = tokens[k].raced
        /\ new.uses = tokens[k].uses + 1 /\ new.beside = tokens[k].beside
        /\ new.expired = tokens[k].expired
        /\ tokens[k].uses \in Nat
    <2>1. tokens[k].uses \in Nat /\ tokens[k].uses + 1 \in Nat
      BY <1>1 DEF Token
    <2> DEFINE first == [tokens[k] EXCEPT !.used = TRUE]
    <2>3. /\ first \in Token /\ first.used = TRUE /\ first.uses = tokens[k].uses
          /\ first.purpose = tokens[k].purpose /\ first.raced = tokens[k].raced
          /\ first.beside = tokens[k].beside /\ first.expired = tokens[k].expired
      BY <1>1 DEF Token
    <2>4. new = [first EXCEPT !.uses = tokens[k].uses + 1]
      OBVIOUS
    <2> HIDE DEF first
    <2>5. /\ new \in Token /\ new.used = first.used /\ new.uses = tokens[k].uses + 1
          /\ new.purpose = first.purpose /\ new.raced = first.raced
          /\ new.beside = first.beside /\ new.expired = first.expired
      <3> HIDE DEF new
      <3> QED
        BY <2>1, <2>3, <2>4 DEF Token
    <2> QED
      BY <2>1, <2>3, <2>5
  <1> HIDE DEF new
  <1>3. tokens'[k] = new /\ \A j \in DOMAIN tokens \ {k} : tokens'[j] = tokens[j]
    BY <1>1
  <1>4. tokens' \in Seq(Token) /\ DOMAIN tokens' = DOMAIN tokens
    BY <1>1, <1>2
  <1> QED
    BY <1>2, <1>3, <1>4

LEMMA SupersededRows ==
  ASSUME tokens \in Seq(Token), NEW S
  PROVE  /\ Superseded(S) \in Seq(Token) /\ Len(Superseded(S)) = Len(tokens)
         /\ DOMAIN Superseded(S) = DOMAIN tokens
         /\ \A k \in DOMAIN tokens :
              /\ Superseded(S)[k].purpose = tokens[k].purpose
              /\ Superseded(S)[k].uses = tokens[k].uses
              /\ Superseded(S)[k].raced = tokens[k].raced
              /\ Superseded(S)[k].beside = tokens[k].beside
              /\ Superseded(S)[k].expired = tokens[k].expired
              /\ k \in S => Superseded(S)[k].used
              /\ k \notin S => Superseded(S)[k] = tokens[k]
  <1> DEFINE new == Superseded(S)
  <1>1. DOMAIN new = DOMAIN tokens /\ new = [k \in DOMAIN tokens |-> new[k]]
    BY DEF Superseded
  <1>2. \A k \in DOMAIN tokens : tokens[k] \in Token
    OBVIOUS
  <1>3. \A k \in DOMAIN tokens : new[k] =
          IF k \in S THEN [tokens[k] EXCEPT !.used = TRUE] ELSE tokens[k]
    BY DEF Superseded
  <1> HIDE DEF new
  <1>4. \A k \in DOMAIN tokens : new[k] \in Token
    BY <1>2, <1>3 DEF Token
  <1>5. new \in Seq(Token) /\ Len(new) = Len(tokens)
    BY <1>1, <1>4, MappedSeq
  <1>6. ASSUME NEW k \in DOMAIN tokens
        PROVE  /\ new[k].purpose = tokens[k].purpose /\ new[k].uses = tokens[k].uses
               /\ new[k].raced = tokens[k].raced /\ new[k].beside = tokens[k].beside
               /\ new[k].expired = tokens[k].expired
               /\ k \in S => new[k].used
               /\ k \notin S => new[k] = tokens[k]
    BY <1>2, <1>3 DEF Token
  <1> QED
    BY <1>1, <1>5, <1>6 DEF new

LEMMA RequestLoadKeeps ==
  ASSUME AccountInv, NEW t \in Threads, NEW p \in Purpose, RequestLoad(t, p)
  PROVE  AccountInv'
  <1> USE DEF Stage, Becomes, account, history
  <1>0. at \in [Threads -> Handler] /\ tokens \in Seq(Token)
    BY DEF AccountInv, TypeOK
  <1>1. at' = [u \in Threads |->
                 IF u = t THEN [stage |-> "request", purpose |-> p, seen |-> Unused(p),
                                beside |-> {v \in InFlight({"request"}) :
                                              at[v].purpose = p} # {}]
                 ELSE IF u \in {v \in InFlight({"request"}) : at[v].purpose = p}
                      THEN [at[u] EXCEPT !.beside = TRUE]
                 ELSE at[u]]
    BY DEF RequestLoad, Outstanding
  <1>2. /\ at[t].stage = "idle" /\ p # "invite"
        /\ (p = "password_reset" /\ origin # "none") \/ (p = "email_verify" /\ active)
        /\ UNCHANGED <<account, sessions, tokens, history>>
    BY DEF RequestLoad
  <1>3. Unused(p) \subseteq Nat
    BY <1>0 DEF Unused
  <1>4. \A u \in Threads : at[u].stage = "request" =>
          at[u] \in [stage : {"request"}, purpose : Purpose, seen : SUBSET Nat,
                     beside : BOOLEAN]
    BY <1>0, HandlerFields
  <1>5. \A u \in Threads \ {t} :
          /\ at'[u].stage = at[u].stage
          /\ at[u].stage # "request" => at'[u] = at[u]
          /\ at[u].stage = "request" =>
               /\ at'[u].purpose = at[u].purpose /\ at'[u].seen = at[u].seen
               /\ at[u].beside => at'[u].beside
               /\ at[u].purpose = p => at'[u].beside
    BY <1>1, <1>4 DEF InFlight
  <1>6. at'[t].stage = "request" /\ at'[t].purpose = p /\ at'[t].seen = Unused(p)
    BY <1>1
  <1>7. (\E v \in Threads : at[v].stage = "request" /\ at[v].purpose = p) => at'[t].beside
    <2>1. at'[t].beside = ({v \in InFlight({"request"}) : at[v].purpose = p} # {})
      BY <1>1
    <2> QED
      BY <2>1 DEF InFlight
  <1>8. TypeOK'
    <2> DEFINE others == {v \in InFlight({"request"}) : at[v].purpose = p}
    <2>1. (others # {}) \in BOOLEAN
      OBVIOUS
    <2>2. [stage |-> "request", purpose |-> p, seen |-> Unused(p), beside |-> (others # {})]
            \in Handler
      <3> HIDE DEF others
      <3> QED
        BY <1>3 DEF Handler
    <2>3. \A u \in others : [at[u] EXCEPT !.beside = TRUE] \in Handler
      BY <1>4 DEF Handler, InFlight
    <2>4. at' \in [Threads -> Handler]
      BY <1>0, <1>1, <2>2, <2>3
    <2> QED
      BY <2>4, <1>2 DEF AccountInv, TypeOK
  <1>9. NothingYet'
    BY <1>2, <1>3, <1>4, <1>5, <1>6, <1>7 DEF AccountInv, NothingYet
  <1>10. References'
    BY <1>2, <1>3, <1>4, <1>5, <1>6, <1>7 DEF AccountInv, References, Unused, PurposeOf
  <1>11. ResetsOvertake'
    BY <1>2, <1>3, <1>4, <1>5, <1>6, <1>7 DEF AccountInv, ResetsOvertake, OldSessionsWereOvertaken, LiveSessions, Live
  <1>12. SessionsServeOnce'
    <2>1. \A s \in DOMAIN sessions :
            Continuing(s)' \subseteq Continuing(s) /\ Holding(s)' \subseteq Holding(s)
      BY <1>2, <1>3, <1>4, <1>5, <1>6, <1>7 DEF Continuing, Holding, InFlight
    <2> QED
      BY <1>2, <1>3, <1>4, <1>5, <1>6, <1>7, <2>1, ServeOnceShrinks DEF AccountInv, Live, Continued
  <1>13. TokensServeOnce'
    BY <1>2, <1>3, <1>4, <1>5, <1>6, <1>7 DEF AccountInv, TokensServeOnce, HoldingToken, InFlight
  <1>14. RequestsSupersede'
    <2>1. ASSUME NEW u \in InFlight({"request"})', NEW v \in InFlight({"request"})',
                 u # v, at'[u].purpose = at'[v].purpose
          PROVE  at'[u].beside
      BY <1>2, <1>3, <1>4, <1>5, <1>6, <1>7, <2>1 DEF AccountInv, RequestsSupersede, InFlight
    <2>2. ASSUME NEW u \in InFlight({"request"})', NEW k \in Unused(at[u].purpose)' \ at'[u].seen
          PROVE  at'[u].beside /\ tokens'[k].beside
      BY <1>2, <1>3, <1>4, <1>5, <1>6, <1>7, <2>2 DEF AccountInv, RequestsSupersede, InFlight, Unused
    <2>3. \A q \in Purpose : \A j, k \in Unused(q)' : j # k => tokens'[j].beside
      BY <1>2, <1>3, <1>4, <1>5, <1>6, <1>7 DEF AccountInv, RequestsSupersede, Unused
    <2> QED
      BY <2>1, <2>2, <2>3 DEF RequestsSupersede
  <1>15. OneInvitation'
    BY <1>2, <1>3, <1>4, <1>5, <1>6, <1>7 DEF AccountInv, OneInvitation, InFlight, Invitations, Inviting
  <1>16. DisablingHolds'
    BY <1>2, <1>3, <1>4, <1>5, <1>6, <1>7 DEF AccountInv, DisablingHolds, DisabledStayOut, InFlight
  <1>17. InvitationHolds'
    BY <1>2, <1>3, <1>4, <1>5, <1>6, <1>7 DEF AccountInv, InvitationHolds, Making
  <1>18. WholeAccount'
    BY <1>2, <1>3, <1>4, <1>5, <1>6, <1>7 DEF AccountInv, WholeAccount, Reached, InFlight
  <1> QED
    BY <1>8, <1>9, <1>10, <1>11, <1>12, <1>13, <1>14, <1>15, <1>16,
       <1>17, <1>18 DEF AccountInv

LEMMA RequestCommitKeeps ==
  ASSUME AccountInv, NEW t \in Threads, NEW n \in Nat, Len(tokens) + 1 = n,
         NEW p \in Purpose, at[t].purpose = p, RequestCommit(t)
  PROVE  AccountInv'
  <1> USE DEF Stage, Becomes, account, history
  <1>0. at \in [Threads -> Handler] /\ tokens \in Seq(Token)
    BY DEF AccountInv, TypeOK
  <1>1. /\ at' = [at EXCEPT ![t] = Idle]
        /\ tokens' = Append(Superseded(at[t].seen), NewToken(at[t].purpose, at[t].beside))
    BY DEF RequestCommit
  <1>2. at[t].stage = "request" /\ UNCHANGED <<account, sessions, history>>
    BY DEF RequestCommit
  <1>3. /\ at[t] \in [stage : {"request"}, purpose : Purpose, seen : SUBSET Nat,
                      beside : BOOLEAN]
        /\ \A k \in at[t].seen : k \in DOMAIN tokens /\ tokens[k].purpose = p
    BY <1>0, <1>2, HandlerFields DEF AccountInv, References
  <1>4. /\ NewToken(p, at[t].beside) \in Token
        /\ NewToken(p, at[t].beside).purpose = p /\ NewToken(p, at[t].beside).uses = 0
        /\ ~ NewToken(p, at[t].beside).used
        /\ NewToken(p, at[t].beside).beside = at[t].beside
    BY <1>3 DEF NewToken, Token
  <1>5. at'[t].stage = "idle" /\ \A u \in Threads \ {t} : at'[u] = at[u]
    BY <1>0, <1>1 DEF Idle
  <1>6. /\ tokens' \in Seq(Token) /\ DOMAIN tokens = 1..(n - 1) /\ DOMAIN tokens' = 1..n
        /\ n \in DOMAIN tokens' /\ n \notin DOMAIN tokens
        /\ \A k \in DOMAIN tokens' : k = n \/ k \in DOMAIN tokens
        /\ \A k \in DOMAIN tokens :
             /\ k \in DOMAIN tokens' /\ tokens'[k].purpose = tokens[k].purpose
             /\ tokens'[k].uses = tokens[k].uses /\ tokens'[k].raced = tokens[k].raced
             /\ tokens'[k].beside = tokens[k].beside
             /\ tokens'[k].expired = tokens[k].expired
             /\ k \in at[t].seen => tokens'[k].used
             /\ k \notin at[t].seen => tokens'[k].used = tokens[k].used
        /\ tokens'[n].purpose = p /\ tokens'[n].uses = 0 /\ ~ tokens'[n].used
        /\ tokens'[n].beside = at[t].beside
    <2> DEFINE list == Superseded(at[t].seen)
    <2>1. /\ list \in Seq(Token) /\ Len(list) + 1 = n /\ DOMAIN list = DOMAIN tokens
          /\ \A k \in DOMAIN tokens :
               /\ list[k].purpose = tokens[k].purpose
               /\ list[k].uses = tokens[k].uses /\ list[k].raced = tokens[k].raced
               /\ list[k].beside = tokens[k].beside /\ list[k].expired = tokens[k].expired
               /\ k \in at[t].seen => list[k].used
               /\ k \notin at[t].seen => list[k].used = tokens[k].used
      BY <1>0, SupersededRows
    <2>2. tokens' = Append(list, NewToken(p, at[t].beside))
      BY <1>1
    <2> HIDE DEF list
    <2>3. /\ tokens' \in Seq(Token) /\ DOMAIN list = 1..(n - 1) /\ DOMAIN tokens' = 1..n
          /\ tokens'[n] = NewToken(p, at[t].beside)
          /\ \A k \in DOMAIN list : tokens'[k] = list[k]
      BY <2>1, <2>2, <1>4
    <2> QED
      BY <2>1, <2>3, <1>4
  <1>7. TypeOK'
    <2>1. at' \in [Threads -> Handler]
      BY <1>0, <1>1 DEF Handler
    <2>2. \A k \in DOMAIN tokens' : tokens'[k].uses > 0 => tokens'[k].used
      BY <1>2, <1>3, <1>4, <1>5, <1>6 DEF AccountInv, TypeOK
    <2> QED
      BY <2>1, <2>2, <1>2, <1>3, <1>4, <1>5, <1>6 DEF AccountInv, TypeOK
  <1>8. NothingYet'
    BY <1>2, <1>3, <1>4, <1>5, <1>6 DEF AccountInv, NothingYet
  <1>9. References'
    BY <1>2, <1>3, <1>4, <1>5, <1>6 DEF AccountInv, References
  <1>10. ResetsOvertake'
    BY <1>2, <1>3, <1>4, <1>5, <1>6 DEF AccountInv, ResetsOvertake, OldSessionsWereOvertaken, LiveSessions, Live, TypeOK
  <1>11. SessionsServeOnce'
    <2>1. \A s \in DOMAIN sessions :
            Continuing(s)' \subseteq Continuing(s) /\ Holding(s)' \subseteq Holding(s)
      BY <1>2, <1>3, <1>4, <1>5, <1>6 DEF AccountInv, TypeOK, Continuing, Holding, InFlight
    <2> QED
      BY <1>2, <1>3, <1>4, <1>5, <1>6, <2>1, ServeOnceShrinks DEF AccountInv, Live, Continued
  <1>12. TokensServeOnce'
    <2>1. \A k \in DOMAIN tokens : HoldingToken(k)' = HoldingToken(k)
      BY <1>2, <1>3, <1>4, <1>5, <1>6 DEF HoldingToken, InFlight
    <2>2. HoldingToken(n)' = {}
      BY <1>2, <1>3, <1>4, <1>5, <1>6 DEF AccountInv, References, HoldingToken, InFlight
    <2> QED
      BY <1>2, <1>3, <1>4, <1>5, <1>6, <2>1, <2>2 DEF AccountInv, TokensServeOnce
  <1>13. RequestsSupersede'
    <2>1. \A q \in Purpose : \A k \in Unused(q)' :
            \/ k = n /\ q = p
            \/ k \in Unused(q) /\ (q = p => k \notin at[t].seen)
      BY <1>2, <1>3, <1>4, <1>5, <1>6 DEF Unused
    <2>2. ASSUME NEW u \in InFlight({"request"})', NEW v \in InFlight({"request"})',
                 u # v, at'[u].purpose = at'[v].purpose
          PROVE  at'[u].beside
      BY <1>2, <1>3, <1>4, <1>5, <1>6, <2>2 DEF AccountInv, RequestsSupersede, InFlight
    <2>3. ASSUME NEW u \in InFlight({"request"})', NEW k \in Unused(at[u].purpose)' \ at'[u].seen
          PROVE  at'[u].beside /\ tokens'[k].beside
      <3>1. /\ u # t /\ at'[u] = at[u] /\ u \in InFlight({"request"})
            /\ t \in InFlight({"request"}) /\ at[u].purpose \in Purpose
        BY <1>2, <1>3, <1>4, <1>5, <1>6, <1>0, HandlerFields DEF InFlight
      <3>2. CASE k = n /\ at[u].purpose = p
        <4>1. at[u].beside /\ at[t].beside
          BY <3>1, <3>2 DEF AccountInv, RequestsSupersede
        <4> QED
          BY <4>1, <3>1, <3>2, <1>6
      <3>3. CASE k \in Unused(at[u].purpose)
        <4>1. k \in DOMAIN tokens /\ at[u].beside /\ tokens[k].beside
          BY <3>1, <3>3, <2>3 DEF AccountInv, RequestsSupersede, Unused
        <4> QED
          BY <4>1, <3>1, <1>6
      <3> QED
        BY <2>1, <2>3, <3>1, <3>2, <3>3
    <2>4. ASSUME NEW q \in Purpose, NEW j \in Unused(q)', NEW k \in Unused(q)', j # k
          PROVE  tokens'[j].beside
      <3>1. CASE j = n
        <4>1. k \in Unused(p) /\ k \notin at[t].seen /\ t \in InFlight({"request"})
          BY <2>1, <2>4, <3>1, <1>2, <1>6 DEF InFlight, Unused
        <4>2. at[t].beside
          BY <4>1 DEF AccountInv, RequestsSupersede
        <4> QED
          BY <4>2, <3>1, <1>6
      <3>2. CASE k = n
        <4>1. j \in Unused(p) /\ j \notin at[t].seen /\ t \in InFlight({"request"})
          BY <2>1, <2>4, <3>2, <1>2, <1>6 DEF InFlight, Unused
        <4>2. tokens[j].beside /\ j \in DOMAIN tokens
          BY <4>1 DEF AccountInv, RequestsSupersede, Unused
        <4> QED
          BY <4>2, <1>6
      <3>3. CASE j # n /\ k # n
        <4>1. j \in Unused(q) /\ k \in Unused(q)
          BY <2>1, <2>4, <3>3
        <4>2. tokens[j].beside /\ j \in DOMAIN tokens
          BY <4>1, <2>4 DEF AccountInv, RequestsSupersede, Unused
        <4> QED
          BY <4>2, <1>6
      <3> QED
        BY <3>1, <3>2, <3>3
    <2> QED
      BY <2>2, <2>3, <2>4 DEF RequestsSupersede
  <1>14. OneInvitation'
    <2>1. Inviting' = Inviting \ {t} /\ (p = "invite" => t \in Inviting)
      BY <1>2, <1>3, <1>4, <1>5, <1>6 DEF Inviting, InFlight
    <2>2. InFlight({"accept"})' = InFlight({"accept"})
      BY <1>2, <1>3, <1>4, <1>5, <1>6 DEF InFlight
    <2>3. Invitations' = Invitations \cup (IF p = "invite" THEN {n} ELSE {})
      BY <1>2, <1>3, <1>4, <1>5, <1>6 DEF Invitations
    <2>4. \A k \in Invitations : k \in DOMAIN tokens /\ (tokens[k].used => tokens'[k].used)
      BY <1>2, <1>3, <1>4, <1>5, <1>6 DEF Invitations
    <2>5. \A u \in InFlight({"accept"}) : at'[u] = at[u]
      BY <1>2, <1>3, <1>4, <1>5, <1>6 DEF InFlight
    <2>6. CASE p = "invite"
      <3>1. origin = "invite" /\ Invitations = {} /\ ~ active /\ Inviting = {t}
        BY <2>1, <2>6 DEF AccountInv, OneInvitation
      <3>2. Invitations' = {n} /\ Inviting' = {}
        BY <3>1, <2>1, <2>3, <2>6
      <3> QED
        BY <3>1, <3>2, <2>2, <2>5, <1>2 DEF AccountInv, OneInvitation
    <2>7. CASE p # "invite"
      <3>1. Invitations' = Invitations
        BY <2>3, <2>7
      <3> QED
        BY <3>1, <2>1, <2>2, <2>4, <2>5, <1>2 DEF AccountInv, OneInvitation
    <2> QED
      BY <2>6, <2>7
  <1>15. DisablingHolds'
    BY <1>2, <1>3, <1>4, <1>5, <1>6 DEF AccountInv, DisablingHolds, DisabledStayOut, InFlight
  <1>16. InvitationHolds'
    <2> SUFFICES ASSUME origin = "invite", ~ torn
                 PROVE  \/ \E u \in Threads : Making(u)'
                        \/ \E k \in DOMAIN tokens' :
                             /\ tokens'[k].purpose = "invite"
                             /\ ~ tokens'[k].used \/ tokens'[k].expired \/ tokens'[k].uses > 0
      BY <1>2 DEF InvitationHolds
    <2>1. CASE p = "invite"
      BY <2>1, <1>2, <1>3, <1>4, <1>5, <1>6
    <2>2. CASE p # "invite" /\ \E u \in Threads : Making(u)
      BY <2>2, <1>2, <1>3, <1>4, <1>5, <1>6 DEF Making
    <2>3. CASE /\ p # "invite"
               /\ \E k \in DOMAIN tokens :
                    /\ tokens[k].purpose = "invite"
                    /\ ~ tokens[k].used \/ tokens[k].expired \/ tokens[k].uses > 0
      <3>1. PICK k \in DOMAIN tokens :
              /\ tokens[k].purpose = "invite"
              /\ ~ tokens[k].used \/ tokens[k].expired \/ tokens[k].uses > 0
        BY <2>3
      <3>2. k \notin at[t].seen
        BY <1>3, <2>3, <3>1
      <3> QED
        BY <3>1, <3>2, <1>6
    <2> QED
      BY <2>1, <2>2, <2>3 DEF AccountInv, InvitationHolds
  <1>17. WholeAccount'
    <2>1. Reached' <=> Reached
      BY <1>2, <1>3, <1>4, <1>5, <1>6 DEF Reached
    <2>2. InFlight({"sso"})' = InFlight({"sso"})
      BY <1>2, <1>3, <1>4, <1>5, <1>6 DEF InFlight
    <2> QED
      BY <1>2, <1>3, <1>4, <1>5, <1>6, <2>1, <2>2 DEF AccountInv, WholeAccount
  <1> QED
    BY <1>7, <1>8, <1>9, <1>10, <1>11, <1>12, <1>13, <1>14, <1>15,
       <1>16, <1>17 DEF AccountInv

LEMMA TokenLoadKeeps ==
  ASSUME AccountInv, NEW t \in Threads, NEW stage \in {"reset", "verify"},
         NEW k \in Unused(PurposeOf(stage)),
         Stage(t) = "idle", Hold(k), Becomes(t, [stage |-> stage, token |-> k]),
         UNCHANGED <<account, sessions, history>>
  PROVE  AccountInv'
  <1> USE DEF Stage, Becomes, account, history
  <1>0. at \in [Threads -> Handler] /\ tokens \in Seq(Token)
    BY DEF AccountInv, TypeOK
  <1>1. at' = [at EXCEPT ![t] = [stage |-> stage, token |-> k]]
    OBVIOUS
  <1>2. /\ at[t].stage = "idle" /\ UNCHANGED <<account, sessions, history>>
        /\ k \in DOMAIN tokens /\ k \in Nat
        /\ tokens[k].purpose = PurposeOf(stage) /\ ~ tokens[k].used
    BY <1>0 DEF Unused
  <1>3. /\ at'[t].stage = stage /\ at'[t].token = k
        /\ \A u \in Threads \ {t} : at'[u] = at[u]
    BY <1>0, <1>1
  <1>4. /\ tokens' \in Seq(Token) /\ DOMAIN tokens' = DOMAIN tokens
        /\ \A j \in DOMAIN tokens :
             /\ tokens'[j].purpose = tokens[j].purpose /\ tokens'[j].used = tokens[j].used
             /\ tokens'[j].uses = tokens[j].uses /\ tokens'[j].beside = tokens[j].beside
             /\ tokens'[j].expired = tokens[j].expired
             /\ j # k => tokens'[j].raced = tokens[j].raced
             /\ tokens[j].raced => tokens'[j].raced
        /\ ~ tokens'[k].raced => HoldingToken(k) = {}
    BY <1>0, <1>2, HoldRow
  <1>5. TypeOK'
    <2>1. at' \in [Threads -> Handler]
      BY <1>0, <1>2, <1>3, <1>4, <1>1 DEF Handler
    <2>2. \A j \in DOMAIN tokens' : tokens'[j].uses > 0 => tokens'[j].used
      BY <1>2, <1>3, <1>4 DEF AccountInv, TypeOK
    <2> QED
      BY <2>1, <2>2, <1>2, <1>3, <1>4 DEF AccountInv, TypeOK
  <1>6. NothingYet'
    BY <1>2, <1>3, <1>4 DEF AccountInv, NothingYet
  <1>7. References'
    BY <1>2, <1>3, <1>4 DEF AccountInv, References, PurposeOf
  <1>8. ResetsOvertake'
    BY <1>2, <1>3, <1>4 DEF AccountInv, ResetsOvertake, OldSessionsWereOvertaken, LiveSessions, Live
  <1>9. SessionsServeOnce'
    <2>1. \A s \in DOMAIN sessions :
            Continuing(s)' \subseteq Continuing(s) /\ Holding(s)' \subseteq Holding(s)
      BY <1>2, <1>3, <1>4 DEF Continuing, Holding, InFlight
    <2> QED
      BY <1>2, <1>3, <1>4, <2>1, ServeOnceShrinks DEF AccountInv, Live, Continued
  <1>10. TokensServeOnce'
    <2>1. \A j \in DOMAIN tokens \ {k} : HoldingToken(j)' = HoldingToken(j)
      BY <1>2, <1>3, <1>4 DEF HoldingToken, InFlight
    <2>2. ~ tokens'[k].raced => \A u \in HoldingToken(k)' : u = t
      BY <1>2, <1>3, <1>4 DEF HoldingToken, InFlight
    <2>3. tokens[k].uses = 0
      <3>1. tokens[k].uses \in Nat
        <4>1. tokens[k] \in Token
          BY <1>0, <1>2
        <4> QED
          BY <4>1 DEF Token
      <3>2. ~ (tokens[k].uses > 0)
        BY <1>2 DEF AccountInv, TypeOK
      <3> QED
        BY <3>1, <3>2
    <2>4. ASSUME NEW j \in DOMAIN tokens \ {k}, ~ tokens'[j].raced
          PROVE  /\ tokens'[j].uses =< 1
                 /\ \A u, v \in HoldingToken(j)' : u = v
                 /\ HoldingToken(j)' # {} => tokens'[j].uses = 0
      BY <1>2, <1>3, <1>4, <2>1, <2>4 DEF AccountInv, TokensServeOnce
    <2>5. /\ tokens'[k].uses = 0
          /\ ~ tokens'[k].raced => \A u, v \in HoldingToken(k)' : u = v
      BY <1>2, <1>3, <1>4, <2>2, <2>3
    <2> QED
      BY <1>2, <1>3, <1>4, <2>4, <2>5 DEF TokensServeOnce
  <1>11. RequestsSupersede'
    <2>1. InFlight({"request"})' = InFlight({"request"})
      BY <1>2, <1>3, <1>4 DEF InFlight
    <2>2. \A u \in InFlight({"request"}) : at'[u] = at[u] /\ at[u].purpose \in Purpose
      BY <1>2, <1>3, <1>4, <1>0, HandlerFields DEF InFlight
    <2>3. \A q \in Purpose : Unused(q)' = Unused(q) /\ Unused(q) \subseteq DOMAIN tokens
      BY <1>2, <1>3, <1>4 DEF Unused
    <2> QED
      BY <2>1, <2>2, <2>3, <1>2, <1>3, <1>4 DEF AccountInv, RequestsSupersede
  <1>12. OneInvitation'
    <2>1. Inviting' = Inviting /\ Invitations' = Invitations
      BY <1>2, <1>3, <1>4 DEF Inviting, Invitations, InFlight
    <2>2. InFlight({"accept"})' = InFlight({"accept"})
      BY <1>2, <1>3, <1>4 DEF InFlight
    <2>3. \A u \in InFlight({"accept"}) : at'[u] = at[u]
      BY <1>2, <1>3, <1>4 DEF InFlight
    <2>4. \A j \in Invitations : tokens'[j].used = tokens[j].used
      BY <1>2, <1>3, <1>4 DEF Invitations
    <2> QED
      BY <2>1, <2>2, <2>3, <2>4, <1>2, <1>3, <1>4 DEF AccountInv, OneInvitation
  <1>13. DisablingHolds'
    BY <1>2, <1>3, <1>4 DEF AccountInv, DisablingHolds, DisabledStayOut, InFlight
  <1>14. InvitationHolds'
    BY <1>2, <1>3, <1>4 DEF AccountInv, InvitationHolds, Making
  <1>15. WholeAccount'
    <2>1. Reached' <=> Reached
      BY <1>2, <1>3, <1>4 DEF Reached
    <2>2. InFlight({"sso"})' = InFlight({"sso"})
      BY <1>2, <1>3, <1>4 DEF InFlight
    <2> QED
      BY <1>2, <1>3, <1>4, <2>1, <2>2 DEF AccountInv, WholeAccount
  <1> QED
    BY <1>5, <1>6, <1>7, <1>8, <1>9, <1>10, <1>11, <1>12, <1>13,
       <1>14, <1>15 DEF AccountInv

LEMMA AcceptLoadKeeps ==
  ASSUME AccountInv, NEW t \in Threads, NEW k \in DOMAIN tokens, AcceptLoad(t, k)
  PROVE  AccountInv'
  <1> USE DEF Stage, Becomes, account, history
  <1>0. at \in [Threads -> Handler] /\ tokens \in Seq(Token)
    BY DEF AccountInv, TypeOK
  <1>1. at' = [at EXCEPT ![t] = [stage |-> "accept", token |-> k, active |-> active]]
    BY DEF AcceptLoad
  <1>2. /\ at[t].stage = "idle" /\ UNCHANGED <<account, sessions, resets, word, deaths, torn>>
        /\ k \in DOMAIN tokens /\ k \in Nat
        /\ tokens[k].purpose = "invite" /\ ~ tokens[k].used
    BY <1>0 DEF AcceptLoad, Good, Unused
  <1>3. crossed' = (crossed \/ InFlight({"disable"}) # {})
    BY DEF AcceptLoad
  <1>4. /\ at'[t].stage = "accept" /\ at'[t].token = k /\ at'[t].active = active
        /\ \A u \in Threads \ {t} : at'[u] = at[u]
    BY <1>0, <1>1
  <1>5. /\ tokens' \in Seq(Token) /\ DOMAIN tokens' = DOMAIN tokens
        /\ \A j \in DOMAIN tokens :
             /\ tokens'[j].purpose = tokens[j].purpose /\ tokens'[j].used = tokens[j].used
             /\ tokens'[j].uses = tokens[j].uses /\ tokens'[j].beside = tokens[j].beside
             /\ tokens'[j].expired = tokens[j].expired
             /\ j # k => tokens'[j].raced = tokens[j].raced
             /\ tokens[j].raced => tokens'[j].raced
        /\ ~ tokens'[k].raced => HoldingToken(k) = {}
    BY <1>0, <1>2, HoldRow DEF AcceptLoad
  <1>6. TypeOK'
    <2>1. at' \in [Threads -> Handler]
      BY <1>0, <1>1, <1>2 DEF Handler, AccountInv, TypeOK
    <2>2. \A j \in DOMAIN tokens' : tokens'[j].uses > 0 => tokens'[j].used
      BY <1>2, <1>3, <1>4, <1>5 DEF AccountInv, TypeOK
    <2>3. crossed' \in BOOLEAN
      BY <1>3 DEF AccountInv, TypeOK
    <2> QED
      BY <2>1, <2>2, <2>3, <1>2, <1>3, <1>4, <1>5 DEF AccountInv, TypeOK
  <1>7. NothingYet'
    BY <1>2, <1>3, <1>4, <1>5 DEF AccountInv, NothingYet
  <1>8. References'
    BY <1>2, <1>3, <1>4, <1>5 DEF AccountInv, References, PurposeOf
  <1>9. ResetsOvertake'
    BY <1>2, <1>3, <1>4, <1>5 DEF AccountInv, ResetsOvertake, OldSessionsWereOvertaken, LiveSessions, Live
  <1>10. SessionsServeOnce'
    <2>1. \A s \in DOMAIN sessions :
            Continuing(s)' \subseteq Continuing(s) /\ Holding(s)' \subseteq Holding(s)
      BY <1>2, <1>3, <1>4, <1>5 DEF Continuing, Holding, InFlight
    <2> QED
      BY <1>2, <1>3, <1>4, <1>5, <2>1, ServeOnceShrinks DEF AccountInv, Live, Continued
  <1>11. TokensServeOnce'
    <2>1. \A j \in DOMAIN tokens \ {k} : HoldingToken(j)' = HoldingToken(j)
      BY <1>2, <1>3, <1>4, <1>5 DEF HoldingToken, InFlight
    <2>2. ~ tokens'[k].raced => \A u \in HoldingToken(k)' : u = t
      BY <1>2, <1>3, <1>4, <1>5 DEF HoldingToken, InFlight
    <2>3. tokens[k].uses = 0
      <3>1. tokens[k].uses \in Nat
        <4>1. tokens[k] \in Token
          BY <1>0, <1>2
        <4> QED
          BY <4>1 DEF Token
      <3>2. ~ (tokens[k].uses > 0)
        BY <1>2 DEF AccountInv, TypeOK
      <3> QED
        BY <3>1, <3>2
    <2>4. ASSUME NEW j \in DOMAIN tokens \ {k}, ~ tokens'[j].raced
          PROVE  /\ tokens'[j].uses =< 1
                 /\ \A u, v \in HoldingToken(j)' : u = v
                 /\ HoldingToken(j)' # {} => tokens'[j].uses = 0
      BY <1>2, <1>3, <1>4, <1>5, <2>1, <2>4 DEF AccountInv, TokensServeOnce
    <2>5. /\ tokens'[k].uses = 0
          /\ ~ tokens'[k].raced => \A u, v \in HoldingToken(k)' : u = v
      BY <1>2, <1>3, <1>4, <1>5, <2>2, <2>3
    <2> QED
      BY <1>2, <1>3, <1>4, <1>5, <2>4, <2>5 DEF TokensServeOnce
  <1>12. RequestsSupersede'
    <2>1. InFlight({"request"})' = InFlight({"request"})
      BY <1>2, <1>3, <1>4, <1>5 DEF InFlight
    <2>2. \A u \in InFlight({"request"}) : at'[u] = at[u] /\ at[u].purpose \in Purpose
      BY <1>2, <1>3, <1>4, <1>5, <1>0, HandlerFields DEF InFlight
    <2>3. \A q \in Purpose : Unused(q)' = Unused(q) /\ Unused(q) \subseteq DOMAIN tokens
      BY <1>2, <1>3, <1>4, <1>5 DEF Unused
    <2> QED
      BY <2>1, <2>2, <2>3, <1>2, <1>3, <1>4, <1>5 DEF AccountInv, RequestsSupersede
  <1>13. OneInvitation'
    <2>1. Inviting' = Inviting /\ Invitations' = Invitations
      BY <1>2, <1>3, <1>4, <1>5 DEF Inviting, Invitations, InFlight
    <2>2. ~ active
      <3>1. k \in Invitations
        BY <1>2, <1>3, <1>4, <1>5 DEF Invitations
      <3> QED
        BY <1>2, <1>3, <1>4, <1>5, <3>1 DEF AccountInv, OneInvitation
    <2>3. \A u \in InFlight({"accept"})' : ~ at'[u].active
      BY <1>2, <1>3, <1>4, <1>5, <2>2 DEF AccountInv, OneInvitation, InFlight
    <2>4. \A j \in Invitations : tokens'[j].used = tokens[j].used
      BY <1>2, <1>3, <1>4, <1>5 DEF Invitations
    <2> QED
      BY <2>1, <2>2, <2>3, <2>4, <1>2, <1>3, <1>4, <1>5 DEF AccountInv, OneInvitation
  <1>14. DisablingHolds'
    <2>1. crossed => crossed'
      BY <1>2, <1>3, <1>4, <1>5
    <2>2. DisabledStayOut'
      BY <1>2, <1>3, <1>4, <1>5, <2>1 DEF AccountInv, DisablingHolds, DisabledStayOut
    <2>3. \A u \in InFlight({"refresh", "sso", "issue"})' : active' \/ "disable" \in at'[u].late
      BY <1>2, <1>3, <1>4, <1>5 DEF AccountInv, DisablingHolds, InFlight
    <2>4. InFlight({"disable"})' = InFlight({"disable"})
      BY <1>2, <1>3, <1>4, <1>5 DEF InFlight
    <2>5. InFlight({"disable"})' = {} \/ crossed'
      BY <1>2, <1>3, <1>4, <1>5, <2>4
    <2>6. \A u \in InFlight({"disable"})' : crossed' \/ at'[u].active \/ ~ active'
      BY <1>2, <1>3, <1>4, <1>5, <2>1 DEF AccountInv, DisablingHolds, InFlight
    <2> QED
      BY <2>2, <2>3, <2>5, <2>6 DEF DisablingHolds
  <1>15. InvitationHolds'
    BY <1>2, <1>3, <1>4, <1>5 DEF AccountInv, InvitationHolds, Making
  <1>16. WholeAccount'
    <2>1. Reached' <=> Reached
      BY <1>2, <1>3, <1>4, <1>5 DEF Reached
    <2>2. InFlight({"sso"})' = InFlight({"sso"})
      BY <1>2, <1>3, <1>4, <1>5 DEF InFlight
    <2> QED
      BY <1>2, <1>3, <1>4, <1>5, <2>1, <2>2 DEF AccountInv, WholeAccount
  <1> QED
    BY <1>6, <1>7, <1>8, <1>9, <1>10, <1>11, <1>12, <1>13, <1>14,
       <1>15, <1>16 DEF AccountInv

LEMMA VerifyCommitKeeps ==
  ASSUME AccountInv, NEW t \in Threads, NEW k \in Nat, at[t].token = k, VerifyCommit(t)
  PROVE  AccountInv'
  <1> USE DEF Stage, Becomes, account, history
  <1>0. at \in [Threads -> Handler] /\ tokens \in Seq(Token)
    BY DEF AccountInv, TypeOK
  <1>1. at' = [at EXCEPT ![t] = Idle]
    BY DEF VerifyCommit
  <1>2. /\ at[t].stage = "verify" /\ verified' = TRUE
        /\ UNCHANGED <<origin, active, orgs, sessions, history>>
    BY DEF VerifyCommit
  <1>3. k \in DOMAIN tokens /\ tokens[k].purpose = "email_verify"
    BY <1>2 DEF AccountInv, References, PurposeOf
  <1>4. /\ at'[t].stage = "idle"
        /\ \A u \in Threads \ {t} : at'[u] = at[u]
    BY <1>0, <1>1 DEF Idle
  <1>5. /\ tokens' \in Seq(Token) /\ DOMAIN tokens' = DOMAIN tokens
        /\ \A j \in DOMAIN tokens \ {k} : tokens'[j] = tokens[j]
        /\ tokens'[k].purpose = tokens[k].purpose /\ tokens'[k].used = TRUE
        /\ tokens'[k].uses = tokens[k].uses + 1 /\ tokens'[k].beside = tokens[k].beside
        /\ tokens'[k].expired = tokens[k].expired
        /\ tokens'[k].raced = tokens[k].raced
        /\ tokens[k].uses \in Nat
    BY <1>0, <1>3, SpendRow DEF VerifyCommit
  <1>6. TypeOK'
    <2>1. at' \in [Threads -> Handler]
      BY <1>0, <1>2, <1>3, <1>4, <1>5, <1>1 DEF Handler
    <2>2. \A j \in DOMAIN tokens' : tokens'[j].uses > 0 => tokens'[j].used
      BY <1>2, <1>3, <1>4, <1>5 DEF AccountInv, TypeOK
    <2> QED
      BY <2>1, <2>2, <1>2, <1>3, <1>4, <1>5 DEF AccountInv, TypeOK
  <1>7. NothingYet'
    BY <1>2, <1>3, <1>4, <1>5 DEF AccountInv, NothingYet
  <1>8. References'
    BY <1>2, <1>3, <1>4, <1>5 DEF AccountInv, References
  <1>9. ResetsOvertake'
    BY <1>2, <1>3, <1>4, <1>5 DEF AccountInv, ResetsOvertake, OldSessionsWereOvertaken, LiveSessions, Live
  <1>10. SessionsServeOnce'
    <2>1. \A s \in DOMAIN sessions :
            Continuing(s)' \subseteq Continuing(s) /\ Holding(s)' \subseteq Holding(s)
      BY <1>2, <1>3, <1>4, <1>5 DEF Continuing, Holding, InFlight
    <2> QED
      BY <1>2, <1>3, <1>4, <1>5, <2>1, ServeOnceShrinks DEF AccountInv, Live, Continued
  <1>11. TokensServeOnce'
    <2>1. \A j \in DOMAIN tokens \ {k} : HoldingToken(j)' = HoldingToken(j)
      BY <1>2, <1>3, <1>4, <1>5 DEF HoldingToken, InFlight
    <2>2. t \in HoldingToken(k) /\ HoldingToken(k)' = HoldingToken(k) \ {t}
      BY <1>2, <1>3, <1>4, <1>5 DEF HoldingToken, InFlight
    <2>3. ASSUME ~ tokens[k].raced
          PROVE  tokens[k].uses = 0 /\ HoldingToken(k) = {t}
      BY <1>2, <1>3, <1>4, <1>5, <2>2, <2>3 DEF AccountInv, TokensServeOnce
    <2>4. ASSUME NEW j \in DOMAIN tokens \ {k}, ~ tokens'[j].raced
          PROVE  /\ tokens'[j].uses =< 1
                 /\ \A u, v \in HoldingToken(j)' : u = v
                 /\ HoldingToken(j)' # {} => tokens'[j].uses = 0
      BY <1>2, <1>3, <1>4, <1>5, <2>1, <2>4 DEF AccountInv, TokensServeOnce
    <2>5. ASSUME ~ tokens'[k].raced
          PROVE  tokens'[k].uses =< 1 /\ HoldingToken(k)' = {}
      BY <1>2, <1>3, <1>4, <1>5, <2>2, <2>3, <2>5
    <2> QED
      BY <1>2, <1>3, <1>4, <1>5, <2>4, <2>5 DEF TokensServeOnce
  <1>12. RequestsSupersede'
    <2>1. InFlight({"request"})' = InFlight({"request"})
      BY <1>2, <1>3, <1>4, <1>5 DEF InFlight
    <2>2. \A u \in InFlight({"request"}) : at'[u] = at[u] /\ at[u].purpose \in Purpose
      BY <1>2, <1>3, <1>4, <1>5, <1>0, HandlerFields DEF InFlight
    <2>3. \A q \in Purpose : Unused(q)' \subseteq Unused(q) /\ Unused(q) \subseteq DOMAIN tokens
      BY <1>2, <1>3, <1>4, <1>5 DEF Unused
    <2>4. \A j \in DOMAIN tokens : tokens'[j].beside = tokens[j].beside
      BY <1>5
    <2> QED
      BY <2>1, <2>2, <2>3, <2>4 DEF AccountInv, RequestsSupersede
  <1>13. OneInvitation'
    <2>1. Inviting' = Inviting /\ Invitations' = Invitations
      BY <1>2, <1>3, <1>4, <1>5 DEF Inviting, Invitations, InFlight
    <2>2. InFlight({"accept"})' = InFlight({"accept"})
      BY <1>2, <1>3, <1>4, <1>5 DEF InFlight
    <2>3. \A u \in InFlight({"accept"}) : at'[u] = at[u]
      BY <1>2, <1>3, <1>4, <1>5 DEF InFlight
    <2>4. \A j \in Invitations : tokens'[j].used = tokens[j].used
      BY <1>2, <1>3, <1>4, <1>5 DEF Invitations
    <2> QED
      BY <2>1, <2>2, <2>3, <2>4, <1>2, <1>3, <1>4, <1>5 DEF AccountInv, OneInvitation
  <1>14. DisablingHolds'
    BY <1>2, <1>3, <1>4, <1>5 DEF AccountInv, DisablingHolds, DisabledStayOut, InFlight
  <1>15. InvitationHolds'
    <2> SUFFICES ASSUME origin = "invite", ~ torn
                 PROVE  \/ \E u \in Threads : Making(u)'
                        \/ \E j \in DOMAIN tokens' :
                             /\ tokens'[j].purpose = "invite"
                             /\ ~ tokens'[j].used \/ tokens'[j].expired \/ tokens'[j].uses > 0
      BY <1>2, <1>3, <1>4, <1>5 DEF InvitationHolds
    <2>1. \A u \in Threads : Making(u) => Making(u)'
      BY <1>2, <1>3, <1>4, <1>5 DEF Making
    <2>2. ASSUME NEW j \in DOMAIN tokens, tokens[j].purpose = "invite",
                 ~ tokens[j].used \/ tokens[j].expired \/ tokens[j].uses > 0
          PROVE  /\ tokens'[j].purpose = "invite"
                 /\ ~ tokens'[j].used \/ tokens'[j].expired \/ tokens'[j].uses > 0
      BY <1>2, <1>3, <1>4, <1>5, <2>2
    <2> QED
      BY <2>1, <2>2, <1>2, <1>3, <1>4, <1>5 DEF AccountInv, InvitationHolds
  <1>16. WholeAccount'
    <2>1. Reached'
      BY <1>2, <1>3, <1>4, <1>5 DEF Reached
    <2>2. InFlight({"sso"})' = InFlight({"sso"})
      BY <1>2, <1>3, <1>4, <1>5 DEF InFlight
    <2> QED
      BY <1>2, <1>3, <1>4, <1>5, <2>1, <2>2 DEF AccountInv, WholeAccount
  <1> QED
    BY <1>6, <1>7, <1>8, <1>9, <1>10, <1>11, <1>12, <1>13, <1>14,
       <1>15, <1>16 DEF AccountInv

LEMMA AcceptCommitKeeps ==
  ASSUME AccountInv, NEW t \in Threads, NEW k \in Nat, at[t].token = k, AcceptCommit(t)
  PROVE  AccountInv'
  <1> USE DEF Stage, Becomes, account, history
  <1>0. at \in [Threads -> Handler] /\ tokens \in Seq(Token)
    BY DEF AccountInv, TypeOK
  <1>1. at' = [at EXCEPT ![t] = Entering("issue")]
    BY DEF AcceptCommit
  <1>2. /\ at[t].stage = "accept" /\ verified' = TRUE /\ word' = "accept"
        /\ UNCHANGED <<origin, orgs, sessions, resets, crossed, deaths, torn>>
    BY DEF AcceptCommit
  <1>3. k \in DOMAIN tokens /\ tokens[k].purpose = "invite"
    BY <1>2 DEF AccountInv, References, PurposeOf
  <1>4. active' = TRUE
    <2>1. ~ at[t].active
      BY <1>2 DEF AccountInv, OneInvitation, InFlight
    <2> QED
      BY <2>1 DEF AcceptCommit
  <1>5. /\ at'[t].stage = "issue" /\ at'[t].from = 0 /\ at'[t].proof = resets /\ resets \in Nat
        /\ \A u \in Threads \ {t} : at'[u] = at[u]
    BY <1>0, <1>1 DEF Entering, AccountInv, TypeOK
  <1>6. /\ tokens' \in Seq(Token) /\ DOMAIN tokens' = DOMAIN tokens
        /\ \A j \in DOMAIN tokens \ {k} : tokens'[j] = tokens[j]
        /\ tokens'[k].purpose = tokens[k].purpose /\ tokens'[k].used = TRUE
        /\ tokens'[k].uses = tokens[k].uses + 1 /\ tokens'[k].beside = tokens[k].beside
        /\ tokens'[k].expired = tokens[k].expired
        /\ tokens'[k].raced = tokens[k].raced
        /\ tokens[k].uses \in Nat
    BY <1>0, <1>3, SpendRow DEF AcceptCommit
  <1>7. TypeOK'
    <2>1. at' \in [Threads -> Handler]
      BY <1>0, <1>2, <1>3, <1>4, <1>5, <1>6, <1>1 DEF Handler, Entering
    <2>2. \A j \in DOMAIN tokens' : tokens'[j].uses > 0 => tokens'[j].used
      BY <1>2, <1>3, <1>4, <1>5, <1>6 DEF AccountInv, TypeOK
    <2> QED
      BY <2>1, <2>2, <1>2, <1>3, <1>4, <1>5, <1>6 DEF AccountInv, TypeOK
  <1>8. NothingYet'
    BY <1>2, <1>3, <1>4, <1>5, <1>6 DEF AccountInv, NothingYet
  <1>9. References'
    BY <1>2, <1>3, <1>4, <1>5, <1>6 DEF AccountInv, References
  <1>10. ResetsOvertake'
    BY <1>2, <1>3, <1>4, <1>5, <1>6 DEF AccountInv, ResetsOvertake, OldSessionsWereOvertaken, LiveSessions, Live
  <1>11. SessionsServeOnce'
    <2>0. 0 \notin DOMAIN sessions
      BY DEF AccountInv, TypeOK
    <2>1. \A s \in DOMAIN sessions :
            Continuing(s)' \subseteq Continuing(s) /\ Holding(s)' \subseteq Holding(s)
      BY <2>0, <1>2, <1>5 DEF Continuing, Holding, InFlight
    <2> QED
      BY <1>2, <1>3, <1>4, <1>5, <1>6, <2>1, ServeOnceShrinks DEF AccountInv, Live, Continued
  <1>12. TokensServeOnce'
    <2>1. \A j \in DOMAIN tokens \ {k} : HoldingToken(j)' = HoldingToken(j)
      BY <1>2, <1>3, <1>4, <1>5, <1>6 DEF HoldingToken, InFlight
    <2>2. t \in HoldingToken(k) /\ HoldingToken(k)' = HoldingToken(k) \ {t}
      BY <1>2, <1>3, <1>4, <1>5, <1>6 DEF HoldingToken, InFlight
    <2>3. ASSUME ~ tokens[k].raced
          PROVE  tokens[k].uses = 0 /\ HoldingToken(k) = {t}
      BY <1>2, <1>3, <1>4, <1>5, <1>6, <2>2, <2>3 DEF AccountInv, TokensServeOnce
    <2>4. ASSUME NEW j \in DOMAIN tokens \ {k}, ~ tokens'[j].raced
          PROVE  /\ tokens'[j].uses =< 1
                 /\ \A u, v \in HoldingToken(j)' : u = v
                 /\ HoldingToken(j)' # {} => tokens'[j].uses = 0
      BY <1>2, <1>3, <1>4, <1>5, <1>6, <2>1, <2>4 DEF AccountInv, TokensServeOnce
    <2>5. ASSUME ~ tokens'[k].raced
          PROVE  tokens'[k].uses =< 1 /\ HoldingToken(k)' = {}
      BY <1>2, <1>3, <1>4, <1>5, <1>6, <2>2, <2>3, <2>5
    <2> QED
      BY <1>2, <1>3, <1>4, <1>5, <1>6, <2>4, <2>5 DEF TokensServeOnce
  <1>13. RequestsSupersede'
    <2>1. InFlight({"request"})' = InFlight({"request"})
      BY <1>2, <1>3, <1>4, <1>5, <1>6 DEF InFlight
    <2>2. \A u \in InFlight({"request"}) : at'[u] = at[u] /\ at[u].purpose \in Purpose
      BY <1>2, <1>3, <1>4, <1>5, <1>6, <1>0, HandlerFields DEF InFlight
    <2>3. \A q \in Purpose : Unused(q)' \subseteq Unused(q) /\ Unused(q) \subseteq DOMAIN tokens
      BY <1>2, <1>3, <1>4, <1>5, <1>6 DEF Unused
    <2>4. \A j \in DOMAIN tokens : tokens'[j].beside = tokens[j].beside
      BY <1>2, <1>3, <1>4, <1>5, <1>6
    <2> QED
      BY <2>1, <2>2, <2>3, <2>4, <1>2, <1>3, <1>4, <1>5, <1>6 DEF AccountInv, RequestsSupersede
  <1>14. OneInvitation'
    <2>1. Inviting' = Inviting /\ Invitations' = Invitations /\ k \in Invitations
      BY <1>2, <1>3, <1>4, <1>5, <1>6 DEF Inviting, Invitations, InFlight
    <2>2. Inviting = {} /\ \A j \in Invitations : j = k
      BY <2>1 DEF AccountInv, OneInvitation
    <2>3. \A u \in InFlight({"accept"})' : ~ at'[u].active
      BY <1>2, <1>3, <1>4, <1>5, <1>6 DEF AccountInv, OneInvitation, InFlight
    <2> QED
      BY <2>1, <2>2, <2>3, <1>2, <1>3, <1>4, <1>5, <1>6 DEF AccountInv, OneInvitation
  <1>15. DisablingHolds'
    <2>1. DisabledStayOut'
      BY <1>2, <1>3, <1>4, <1>5, <1>6 DEF AccountInv, DisablingHolds, DisabledStayOut
    <2>2. InFlight({"disable"})' = {} \/ crossed'
      BY <1>2, <1>3, <1>4, <1>5, <1>6 DEF AccountInv, DisablingHolds, InFlight
    <2> QED
      BY <2>1, <2>2, <1>2, <1>3, <1>4, <1>5, <1>6 DEF DisablingHolds
  <1>16. InvitationHolds'
    BY <1>2, <1>3, <1>4, <1>5, <1>6 DEF InvitationHolds
  <1>17. WholeAccount'
    <2>1. Reached'
      BY <1>2, <1>3, <1>4, <1>5, <1>6 DEF Reached
    <2>2. InFlight({"sso"})' = InFlight({"sso"})
      BY <1>2, <1>3, <1>4, <1>5, <1>6 DEF InFlight
    <2> QED
      BY <1>2, <1>3, <1>4, <1>5, <1>6, <2>1, <2>2 DEF AccountInv, WholeAccount
  <1> QED
    BY <1>7, <1>8, <1>9, <1>10, <1>11, <1>12, <1>13, <1>14, <1>15,
       <1>16, <1>17 DEF AccountInv

-------------------------------------------------------------------------------
(* What overtakes the handlers that are about to issue a session.          *)

LEMMA OvertakeRows ==
  ASSUME at \in [Threads -> Handler], NEW t \in Threads, NEW c \in Overtaking, Overtake(c, t)
  PROVE  /\ at' \in [Threads -> Handler]
         /\ at'[t].stage = "idle"
         /\ \A u \in Threads \ {t} :
              /\ at'[u].stage = at[u].stage
              /\ at[u].stage \notin {"refresh", "sso", "issue"} => at'[u] = at[u]
              /\ at[u].stage = "refresh" =>
                   at'[u].session = at[u].session /\ at'[u].late = at[u].late \cup {c}
              /\ at[u].stage \in {"sso", "issue"} =>
                   /\ at'[u].from = at[u].from /\ at'[u].proof = at[u].proof
                   /\ at'[u].late = at[u].late \cup {c}
  <1>1. at' = [u \in Threads |->
             IF u = t THEN Idle
             ELSE IF at[u].stage \in {"refresh", "sso", "issue"}
                  THEN [at[u] EXCEPT !.late = at[u].late \cup {c}]
                  ELSE at[u]]
    BY DEF Overtake, Stage
  <1>2. at'[t] = Idle
    BY <1>1
  <1>3. ASSUME NEW u \in Threads \ {t}
        PROVE  /\ at'[u] \in Handler
               /\ at'[u].stage = at[u].stage
               /\ at[u].stage \notin {"refresh", "sso", "issue"} => at'[u] = at[u]
               /\ at[u].stage = "refresh" =>
                   at'[u].session = at[u].session /\ at'[u].late = at[u].late \cup {c}
               /\ at[u].stage \in {"sso", "issue"} =>
                   /\ at'[u].from = at[u].from /\ at'[u].proof = at[u].proof
                   /\ at'[u].late = at[u].late \cup {c}
    <2>0. at[u] \in Handler
      OBVIOUS
    <2>1. CASE at[u].stage = "refresh"
      <3>1. at[u] \in [stage : {"refresh"}, session : Nat, late : SUBSET Overtaking]
        BY <2>0, <2>1, HandlerFields
      <3>2. at'[u] = [at[u] EXCEPT !.late = at[u].late \cup {c}]
        BY <1>1, <2>1
      <3>3. at'[u] \in [stage : {"refresh"}, session : Nat, late : SUBSET Overtaking]
        BY <3>1, <3>2
      <3> QED
        BY <2>1, <3>1, <3>2, <3>3 DEF Handler
    <2>2. CASE at[u].stage \in {"sso", "issue"}
      <3>1. at[u] \in [stage : {"sso", "issue"}, proof : Nat, from : Nat,
                       late : SUBSET Overtaking]
        BY <2>0, <2>2, HandlerFields
      <3>2. at'[u] = [at[u] EXCEPT !.late = at[u].late \cup {c}]
        BY <1>1, <2>2
      <3>3. at'[u] \in [stage : {"sso", "issue"}, proof : Nat, from : Nat,
                        late : SUBSET Overtaking]
        BY <3>1, <3>2
      <3> QED
        BY <2>2, <3>1, <3>2, <3>3 DEF Handler
    <2>3. CASE at[u].stage \notin {"refresh", "sso", "issue"}
      BY <1>1, <2>0, <2>3
    <2> QED
      BY <2>1, <2>2, <2>3
  <1>4. at' \in [Threads -> Handler]
    <2>1. Idle \in Handler
      BY DEF Handler
    <2>2. \A u \in Threads : at'[u] \in Handler
      BY <1>2, <1>3, <2>1
    <2>3. DOMAIN at' = Threads /\ at' = [u \in Threads |-> at'[u]]
      BY <1>1
    <2> QED
      BY <2>2, <2>3
  <1> QED
    BY <1>2, <1>3, <1>4 DEF Idle

LEMMA ResetRows ==
  ASSUME sessions \in Seq(Session), NEW S
  PROVE  /\ AfterReset(S) \in Seq(Session) /\ Len(AfterReset(S)) = Len(sessions)
         /\ DOMAIN AfterReset(S) = DOMAIN sessions
         /\ \A s \in DOMAIN sessions :
              /\ AfterReset(S)[s].proof = sessions[s].proof
              /\ AfterReset(S)[s].from = sessions[s].from
              /\ AfterReset(S)[s].raced = sessions[s].raced
              /\ AfterReset(S)[s].shut = sessions[s].shut
              /\ sessions[s].late \subseteq AfterReset(S)[s].late
              /\ sessions[s].revoked => AfterReset(S)[s].revoked
              /\ AfterReset(S)[s].revoked \/ "reset" \in AfterReset(S)[s].late
  <1> DEFINE new == AfterReset(S)
  <1>1. \A s \in DOMAIN sessions : sessions[s] \in Session
    OBVIOUS
  <1>2. /\ DOMAIN new = DOMAIN sessions /\ new = [s \in DOMAIN sessions |-> new[s]]
        /\ \A s \in DOMAIN sessions : s \in S =>
             new[s] = [sessions[s] EXCEPT !.revoked = TRUE]
        /\ \A s \in DOMAIN sessions : s \notin S =>
             new[s] = [sessions[s] EXCEPT !.late = sessions[s].late \cup {"reset"}]
    BY DEF AfterReset, Revoke, SessionsToRevoke
  <1> HIDE DEF new
  <1>3. ASSUME NEW s \in DOMAIN sessions
        PROVE  /\ new[s] \in Session
               /\ new[s].proof = sessions[s].proof /\ new[s].from = sessions[s].from
               /\ new[s].raced = sessions[s].raced /\ new[s].shut = sessions[s].shut
               /\ sessions[s].late \subseteq new[s].late
               /\ sessions[s].revoked => new[s].revoked
               /\ new[s].revoked \/ "reset" \in new[s].late
    <2>1. CASE s \in S
      <3>1. sessions[s] \in Session /\ new[s] = [sessions[s] EXCEPT !.revoked = TRUE]
        BY <1>1, <1>2, <2>1
      <3> QED
        BY <3>1 DEF Session
    <2>2. CASE s \notin S
      <3>1. /\ sessions[s] \in Session
            /\ new[s] = [sessions[s] EXCEPT !.late = sessions[s].late \cup {"reset"}]
        BY <1>1, <1>2, <2>2
      <3> QED
        BY <3>1 DEF Session, Overtaking
    <2> QED
      BY <2>1, <2>2
  <1>4. new \in Seq(Session) /\ Len(new) = Len(sessions)
    BY <1>2, <1>3, MappedSeq
  <1> QED
    BY <1>2, <1>3, <1>4 DEF new

LEMMA ResetCommitKeeps ==
  ASSUME AccountInv, NEW t \in Threads, NEW k \in Nat, at[t].token = k, ResetCommit(t)
  PROVE  AccountInv'
  <1> USE DEF Stage, Becomes, account, history
  <1>0. at \in [Threads -> Handler] /\ tokens \in Seq(Token) /\ sessions \in Seq(Session)
    BY DEF AccountInv, TypeOK
  <1>1. /\ at[t].stage = "revoke" /\ resets' = resets + 1
        /\ UNCHANGED <<account, word, crossed, deaths, torn>>
    BY DEF ResetCommit
  <1>2. k \in DOMAIN tokens /\ tokens[k].purpose = "password_reset" /\ resets' \in Nat
    BY <1>1 DEF AccountInv, References, PurposeOf, TypeOK
  <1>3. /\ at' \in [Threads -> Handler]
        /\ at'[t].stage = "idle"
        /\ \A u \in Threads \ {t} :
             /\ at'[u].stage = at[u].stage
             /\ at[u].stage \notin {"refresh", "sso", "issue"} => at'[u] = at[u]
             /\ at[u].stage = "refresh" =>
                  at'[u].session = at[u].session /\ at'[u].late = at[u].late \cup {"reset"}
             /\ at[u].stage \in {"sso", "issue"} =>
                  /\ at'[u].from = at[u].from /\ at'[u].proof = at[u].proof
                  /\ at'[u].late = at[u].late \cup {"reset"}
    BY <1>0, OvertakeRows DEF ResetCommit, Overtaking
  <1>4. /\ tokens' \in Seq(Token) /\ DOMAIN tokens' = DOMAIN tokens
        /\ \A j \in DOMAIN tokens \ {k} : tokens'[j] = tokens[j]
        /\ tokens'[k].purpose = tokens[k].purpose /\ tokens'[k].used = TRUE
        /\ tokens'[k].uses = tokens[k].uses + 1 /\ tokens'[k].beside = tokens[k].beside
        /\ tokens'[k].expired = tokens[k].expired
        /\ tokens'[k].raced = tokens[k].raced
        /\ tokens[k].uses \in Nat
    BY <1>0, <1>2, SpendRow DEF ResetCommit
  <1>5. /\ sessions' \in Seq(Session) /\ Len(sessions') = Len(sessions)
        /\ DOMAIN sessions' = DOMAIN sessions
        /\ \A s \in DOMAIN sessions :
              /\ sessions'[s].proof = sessions[s].proof /\ sessions'[s].from = sessions[s].from
              /\ sessions'[s].raced = sessions[s].raced /\ sessions'[s].shut = sessions[s].shut
              /\ sessions[s].late \subseteq sessions'[s].late
              /\ sessions[s].revoked => sessions'[s].revoked
              /\ sessions'[s].revoked \/ "reset" \in sessions'[s].late
    BY <1>0, ResetRows DEF ResetCommit
  <1>6. /\ at'[t].stage = "idle"
        /\ \A u \in Threads \ {t} :
             /\ at'[u].stage = at[u].stage
             /\ at[u].stage \notin {"refresh", "sso", "issue"} => at'[u] = at[u]
    BY <1>3
  <1>7. \A u \in Threads \ {t} :
          /\ at[u].stage = "refresh" => at'[u].session = at[u].session
          /\ at[u].stage \in {"sso", "issue"} => at'[u].from = at[u].from
    BY <1>3
  <1>8. TypeOK'
    <2>1. \A j \in DOMAIN tokens' : tokens'[j].uses > 0 => tokens'[j].used
      BY <1>1, <1>2, <1>3, <1>4, <1>5, <1>6, <1>7 DEF AccountInv, TypeOK
    <2> QED
      BY <2>1, <1>1, <1>2, <1>3, <1>4, <1>5, <1>6, <1>7 DEF AccountInv, TypeOK
  <1>9. NothingYet'
    BY <1>1, <1>2, <1>3, <1>4, <1>5, <1>6, <1>7 DEF AccountInv, NothingYet
  <1>10. References'
    <2>1. \A s \in DOMAIN sessions' : sessions'[s].from \in 0..Len(sessions')
      BY <1>5 DEF AccountInv, References
    <2>2. ASSUME NEW u \in Threads
          PROVE  /\ at'[u].stage = "refresh" => at'[u].session \in DOMAIN sessions'
                 /\ at'[u].stage = "issue" => at'[u].from \in 0..Len(sessions')
                 /\ at'[u].stage = "sso" => at'[u].from = 0 /\ origin' = "sso"
      BY <1>1, <1>5, <1>6, <1>7 DEF AccountInv, References
    <2>3. ASSUME NEW u \in Threads
          PROVE  /\ at'[u].stage \in {"reset", "revoke", "accept", "verify"} =>
                      /\ at'[u].token \in DOMAIN tokens'
                      /\ tokens'[at'[u].token].purpose = PurposeOf(at'[u].stage)
                 /\ at'[u].stage = "request" =>
                      \A j \in at'[u].seen :
                        j \in DOMAIN tokens' /\ tokens'[j].purpose = at'[u].purpose
      BY <1>4, <1>6 DEF AccountInv, References
    <2> QED
      BY <2>1, <2>2, <2>3 DEF References
  <1>11. ResetsOvertake'
    <2>1. OldSessionsWereOvertaken'
      BY <1>1, <1>2, <1>3, <1>4, <1>5, <1>6, <1>7 DEF OldSessionsWereOvertaken, LiveSessions, Live
    <2>2. \A u \in Threads : at'[u].stage \in {"refresh", "sso", "issue"} => "reset" \in at'[u].late
      BY <1>1, <1>2, <1>3, <1>4, <1>5, <1>6, <1>7
    <2> QED
      BY <2>1, <2>2 DEF ResetsOvertake
  <1>12. SessionsServeOnce'
    <2>1. \A s \in DOMAIN sessions :
            Continuing(s)' \subseteq Continuing(s) /\ Holding(s)' \subseteq Holding(s)
      BY <1>1, <1>2, <1>3, <1>4, <1>5, <1>6, <1>7 DEF Continuing, Holding, InFlight
    <2>2. \A s \in DOMAIN sessions : Continued(s)' \subseteq Continued(s)
      BY <1>1, <1>2, <1>3, <1>4, <1>5, <1>6, <1>7 DEF Continued
    <2>3. \A s \in DOMAIN sessions : (Live(s)' => Live(s)) /\ sessions'[s].raced = sessions[s].raced
      BY <1>1, <1>2, <1>3, <1>4, <1>5, <1>6, <1>7 DEF Live
    <2> QED
      BY <1>1, <1>2, <1>3, <1>4, <1>5, <1>6, <1>7, <2>1, <2>2, <2>3, ServeOnceShrinks DEF AccountInv
  <1>13. TokensServeOnce'
    <2>1. \A j \in DOMAIN tokens \ {k} : HoldingToken(j)' = HoldingToken(j)
      BY <1>1, <1>2, <1>4, <1>6 DEF HoldingToken, InFlight
    <2>2. t \in HoldingToken(k) /\ HoldingToken(k)' = HoldingToken(k) \ {t}
      BY <1>1, <1>2, <1>4, <1>6 DEF HoldingToken, InFlight
    <2>3. ASSUME ~ tokens[k].raced
          PROVE  tokens[k].uses = 0 /\ HoldingToken(k) = {t}
      BY <1>1, <1>2, <1>4, <1>6, <2>2, <2>3 DEF AccountInv, TokensServeOnce
    <2>4. ASSUME NEW j \in DOMAIN tokens \ {k}, ~ tokens'[j].raced
          PROVE  /\ tokens'[j].uses =< 1
                 /\ \A u, v \in HoldingToken(j)' : u = v
                 /\ HoldingToken(j)' # {} => tokens'[j].uses = 0
      BY <1>1, <1>2, <1>4, <1>6, <2>1, <2>4 DEF AccountInv, TokensServeOnce
    <2>5. ASSUME ~ tokens'[k].raced
          PROVE  tokens'[k].uses =< 1 /\ HoldingToken(k)' = {}
      BY <1>1, <1>2, <1>4, <1>6, <2>2, <2>3, <2>5
    <2> QED
      BY <1>1, <1>2, <1>4, <1>6, <2>4, <2>5 DEF TokensServeOnce
  <1>14. RequestsSupersede'
    <2>1. InFlight({"request"})' = InFlight({"request"})
      BY <1>1, <1>2, <1>4, <1>6 DEF InFlight
    <2>2. \A u \in InFlight({"request"}) : at'[u] = at[u] /\ at[u].purpose \in Purpose
      BY <1>1, <1>2, <1>4, <1>6, <1>0, HandlerFields DEF InFlight
    <2>3. \A q \in Purpose : Unused(q)' \subseteq Unused(q) /\ Unused(q) \subseteq DOMAIN tokens
      BY <1>1, <1>2, <1>4, <1>6 DEF Unused
    <2>4. \A j \in DOMAIN tokens : tokens'[j].beside = tokens[j].beside
      BY <1>1, <1>2, <1>4, <1>6
    <2> QED
      BY <2>1, <2>2, <2>3, <2>4 DEF AccountInv, RequestsSupersede
  <1>15. OneInvitation'
    <2>1. Inviting' = Inviting /\ Invitations' = Invitations
      BY <1>1, <1>4, <1>6 DEF Inviting, Invitations, InFlight
    <2>2. InFlight({"accept"})' = InFlight({"accept"})
      BY <1>1, <1>2, <1>4, <1>6 DEF InFlight
    <2>3. \A u \in InFlight({"accept"}) : at'[u] = at[u]
      BY <1>1, <1>2, <1>4, <1>6 DEF InFlight
    <2>4. \A j \in Invitations : tokens'[j].used = tokens[j].used
      BY <1>1, <1>2, <1>4, <1>6 DEF Invitations
    <2> QED
      BY <2>1, <2>2, <2>3, <2>4, <1>1, <1>2, <1>4, <1>6 DEF AccountInv, OneInvitation
  <1>16. DisablingHolds'
    <2>1. DisabledStayOut'
      BY <1>1, <1>2, <1>3, <1>4, <1>5, <1>6, <1>7 DEF AccountInv, DisablingHolds, DisabledStayOut
    <2>2. \A u \in InFlight({"refresh", "sso", "issue"})' : active' \/ "disable" \in at'[u].late
      BY <1>1, <1>2, <1>3, <1>4, <1>5, <1>6, <1>7 DEF AccountInv, DisablingHolds, InFlight
    <2>3. InFlight({"accept"})' = InFlight({"accept"}) /\ InFlight({"disable"})' = InFlight({"disable"})
      BY <1>1, <1>2, <1>3, <1>4, <1>5, <1>6, <1>7 DEF InFlight
    <2>4. \A u \in InFlight({"disable"})' : crossed' \/ at'[u].active \/ ~ active'
      BY <1>1, <1>2, <1>3, <1>4, <1>5, <1>6, <1>7 DEF AccountInv, DisablingHolds, InFlight
    <2> QED
      BY <2>1, <2>2, <2>3, <2>4, <1>1, <1>2, <1>3, <1>4, <1>5, <1>6, <1>7 DEF AccountInv, DisablingHolds
  <1>17. InvitationHolds'
    <2> SUFFICES ASSUME origin = "invite", ~ torn
                 PROVE  \/ \E u \in Threads : Making(u)'
                        \/ \E j \in DOMAIN tokens' :
                             /\ tokens'[j].purpose = "invite"
                             /\ ~ tokens'[j].used \/ tokens'[j].expired \/ tokens'[j].uses > 0
      BY <1>1, <1>2, <1>3, <1>4, <1>5, <1>6, <1>7 DEF InvitationHolds
    <2>1. \A u \in Threads : Making(u) => Making(u)'
      BY <1>1, <1>2, <1>3, <1>4, <1>5, <1>6, <1>7 DEF Making
    <2>2. ASSUME NEW j \in DOMAIN tokens, tokens[j].purpose = "invite",
                 ~ tokens[j].used \/ tokens[j].expired \/ tokens[j].uses > 0
          PROVE  /\ tokens'[j].purpose = "invite"
                 /\ ~ tokens'[j].used \/ tokens'[j].expired \/ tokens'[j].uses > 0
      BY <1>1, <1>2, <1>3, <1>4, <1>5, <1>6, <1>7, <2>2
    <2> QED
      BY <2>1, <2>2, <1>1, <1>2, <1>3, <1>4, <1>5, <1>6, <1>7 DEF AccountInv, InvitationHolds
  <1>18. WholeAccount'
    <2>1. Reached' <=> Reached
      BY <1>1, <1>2, <1>3, <1>4, <1>5, <1>6, <1>7 DEF Reached
    <2>2. InFlight({"sso"})' = InFlight({"sso"})
      BY <1>1, <1>2, <1>3, <1>4, <1>5, <1>6, <1>7 DEF InFlight
    <2> QED
      BY <1>1, <1>2, <1>3, <1>4, <1>5, <1>6, <1>7, <2>1, <2>2 DEF AccountInv, WholeAccount
  <1> QED
    BY <1>8, <1>9, <1>10, <1>11, <1>12, <1>13, <1>14, <1>15, <1>16,
       <1>17, <1>18 DEF AccountInv

LEMMA DisableCommitKeeps ==
  ASSUME AccountInv, NEW t \in Threads, DisableCommit(t)
  PROVE  AccountInv'
  <1> USE DEF Stage, Becomes, account, history
  <1>0. at \in [Threads -> Handler] /\ tokens \in Seq(Token)
    BY DEF AccountInv, TypeOK
  <1>1. /\ at[t].stage = "disable" /\ word' = "disable"
        /\ UNCHANGED <<origin, verified, orgs, sessions, tokens, resets, crossed, deaths, torn>>
    BY DEF DisableCommit
  <1>2. /\ at' \in [Threads -> Handler]
        /\ at'[t].stage = "idle"
        /\ \A u \in Threads \ {t} :
             /\ at'[u].stage = at[u].stage
             /\ at[u].stage \notin {"refresh", "sso", "issue"} => at'[u] = at[u]
             /\ at[u].stage = "refresh" =>
                  at'[u].session = at[u].session /\ at'[u].late = at[u].late \cup {"disable"}
             /\ at[u].stage \in {"sso", "issue"} =>
                  /\ at'[u].from = at[u].from /\ at'[u].proof = at[u].proof
                  /\ at'[u].late = at[u].late \cup {"disable"}
    BY <1>0, OvertakeRows DEF DisableCommit, Overtaking
  <1>3. active' \in BOOLEAN /\ (active' => active) /\ (active' => ~ at[t].active)
    BY DEF DisableCommit, Disabled, AccountInv, TypeOK
  <1>4. TypeOK'
    BY <1>1, <1>2, <1>3 DEF AccountInv, TypeOK
  <1>5. NothingYet'
    BY <1>1, <1>2, <1>3 DEF AccountInv, NothingYet
  <1>6. References'
    BY <1>1, <1>2, <1>3 DEF AccountInv, References
  <1>7. ResetsOvertake'
    <2>1. OldSessionsWereOvertaken'
      BY <1>1, <1>2, <1>3 DEF AccountInv, ResetsOvertake, OldSessionsWereOvertaken, LiveSessions, Live
    <2>2. ASSUME NEW u \in Threads, at'[u].stage = "refresh",
                 sessions'[at'[u].session].proof < resets'
          PROVE  "reset" \in at'[u].late \cup sessions'[at'[u].session].late
      BY <1>1, <1>2, <1>3, <2>2 DEF AccountInv, ResetsOvertake
    <2>3. ASSUME NEW u \in Threads, at'[u].stage \in {"sso", "issue"}, at'[u].proof < resets'
          PROVE  "reset" \in at'[u].late
      BY <1>1, <1>2, <1>3, <2>3 DEF AccountInv, ResetsOvertake
    <2> QED
      BY <2>1, <2>2, <2>3 DEF ResetsOvertake
  <1>8. SessionsServeOnce'
    <2>1. \A s \in DOMAIN sessions :
            Continuing(s)' \subseteq Continuing(s) /\ Holding(s)' \subseteq Holding(s)
      BY <1>1, <1>2, <1>3 DEF Continuing, Holding, InFlight
    <2> QED
      BY <1>1, <1>2, <1>3, <2>1, ServeOnceShrinks DEF AccountInv, Live, Continued
  <1>9. TokensServeOnce'
    BY <1>1, <1>2, <1>3 DEF AccountInv, TokensServeOnce, HoldingToken, InFlight
  <1>10. RequestsSupersede'
    BY <1>1, <1>2, <1>3 DEF AccountInv, RequestsSupersede, InFlight, Unused
  <1>11. OneInvitation'
    BY <1>1, <1>2, <1>3 DEF AccountInv, OneInvitation, InFlight, Invitations, Inviting
  <1>12. DisablingHolds'
    <2>1. ~ crossed => ~ active'
      BY <1>1, <1>2, <1>3 DEF AccountInv, DisablingHolds, InFlight
    <2>2. DisabledStayOut'
      BY <1>1, <1>2, <1>3, <2>1 DEF AccountInv, DisablingHolds, DisabledStayOut
    <2>3. \A u \in InFlight({"refresh", "sso", "issue"})' : "disable" \in at'[u].late
      BY <1>1, <1>2, <1>3 DEF InFlight
    <2>4. InFlight({"accept"})' = InFlight({"accept"})
          /\ InFlight({"disable"})' \subseteq InFlight({"disable"})
      BY <1>1, <1>2, <1>3 DEF InFlight
    <2>5. \A u \in InFlight({"disable"})' : crossed' \/ at'[u].active \/ ~ active'
      BY <1>1, <1>2, <1>3, <2>1
    <2> QED
      BY <2>2, <2>3, <2>4, <2>5, <1>1, <1>2, <1>3 DEF AccountInv, DisablingHolds
  <1>13. InvitationHolds'
    BY <1>1, <1>2, <1>3 DEF AccountInv, InvitationHolds, Making
  <1>14. WholeAccount'
    BY <1>1, <1>2, <1>3 DEF AccountInv, WholeAccount, Reached, InFlight
  <1> QED
    BY <1>4, <1>5, <1>6, <1>7, <1>8, <1>9, <1>10, <1>11, <1>12,
       <1>13, <1>14 DEF AccountInv

LEMMA DieKeeps ==
  ASSUME AccountInv, Die
  PROVE  AccountInv'
  <1> USE DEF Stage, Becomes, account, history
  <1>0. at \in [Threads -> Handler] /\ tokens \in Seq(Token)
    BY DEF AccountInv, TypeOK
  <1>1. /\ at' = [t \in Threads |-> Idle]
        /\ torn' = (torn \/ \E t \in Threads : Making(t))
        /\ deaths' = deaths + 1
        /\ UNCHANGED <<account, sessions, tokens, resets, word, crossed>>
    BY DEF Die
  <1>2. \A t \in Threads : at'[t].stage = "idle"
    BY <1>1 DEF Idle
  <1>3. TypeOK'
    <2>1. at' \in [Threads -> Handler]
      BY <1>1 DEF Handler
    <2>2. torn' \in BOOLEAN /\ deaths' \in Nat
      BY <1>1 DEF AccountInv, TypeOK
    <2> QED
      BY <2>1, <2>2, <1>1, <1>2 DEF AccountInv, TypeOK
  <1>4. NothingYet'
    BY <1>1, <1>2 DEF AccountInv, NothingYet
  <1>5. References'
    BY <1>1, <1>2 DEF AccountInv, References
  <1>6. ResetsOvertake'
    BY <1>1, <1>2 DEF AccountInv, ResetsOvertake, OldSessionsWereOvertaken, LiveSessions, Live, TypeOK
  <1>7. SessionsServeOnce'
    <2>1. \A s \in DOMAIN sessions :
            Continuing(s)' \subseteq Continuing(s) /\ Holding(s)' \subseteq Holding(s)
      BY <1>1, <1>2 DEF AccountInv, TypeOK, Continuing, Holding, InFlight
    <2> QED
      BY <1>1, <1>2, <2>1, ServeOnceShrinks DEF AccountInv, Live, Continued
  <1>8. TokensServeOnce'
    BY <1>1, <1>2 DEF AccountInv, TokensServeOnce, HoldingToken, InFlight
  <1>9. RequestsSupersede'
    BY <1>1, <1>2 DEF AccountInv, RequestsSupersede, InFlight, Unused
  <1>10. OneInvitation'
    BY <1>1, <1>2 DEF AccountInv, OneInvitation, InFlight, Invitations, Inviting
  <1>11. DisablingHolds'
    BY <1>1, <1>2 DEF AccountInv, DisablingHolds, DisabledStayOut, InFlight
  <1>12. InvitationHolds'
    BY <1>1, <1>2 DEF AccountInv, InvitationHolds, Making
  <1>13. WholeAccount'
    <2>1. Reached' <=> Reached
      BY <1>1, <1>2 DEF Reached
    <2>2. InFlight({"sso"}) # {} => torn'
      BY <1>1, <1>2 DEF InFlight, Making
    <2> QED
      BY <1>1, <1>2, <2>1, <2>2 DEF AccountInv, WholeAccount
  <1> QED
    BY <1>3, <1>4, <1>5, <1>6, <1>7, <1>8, <1>9, <1>10, <1>11,
       <1>12, <1>13 DEF AccountInv

(* A token whose time runs out has the row it had, but for that.            *)

LEMMA ExpireKeeps ==
  ASSUME AccountInv, NEW k \in DOMAIN tokens, Expire(k)
  PROVE  AccountInv'
  <1> USE DEF Stage, account, history
  <1>0. tokens \in Seq(Token) /\ \A j \in DOMAIN tokens : tokens[j] \in Token
    BY DEF AccountInv, TypeOK
  <1>1. UNCHANGED <<account, sessions, at, history>>
    BY DEF Expire
  <1>2. /\ tokens' \in Seq(Token) /\ DOMAIN tokens' = DOMAIN tokens
        /\ \A j \in DOMAIN tokens :
             /\ tokens'[j].purpose = tokens[j].purpose /\ tokens'[j].used = tokens[j].used
             /\ tokens'[j].uses = tokens[j].uses /\ tokens'[j].beside = tokens[j].beside
             /\ tokens'[j].raced = tokens[j].raced
             /\ tokens[j].expired => tokens'[j].expired
    <2> DEFINE new == [tokens[k] EXCEPT !.expired = TRUE]
    <2>1. /\ new \in Token /\ new.expired /\ new.purpose = tokens[k].purpose
          /\ new.used = tokens[k].used /\ new.uses = tokens[k].uses
          /\ new.beside = tokens[k].beside /\ new.raced = tokens[k].raced
      BY <1>0 DEF Token
    <2>2. tokens' = [tokens EXCEPT ![k] = new]
      BY DEF Expire
    <2> HIDE DEF new
    <2>3. tokens'[k] = new /\ \A j \in DOMAIN tokens \ {k} : tokens'[j] = tokens[j]
      BY <2>2
    <2>4. tokens' \in Seq(Token) /\ DOMAIN tokens' = DOMAIN tokens
      BY <1>0, <2>1, <2>2
    <2> QED
      BY <2>1, <2>3, <2>4
  <1>3. TypeOK'
    BY <1>1, <1>2 DEF AccountInv, TypeOK
  <1>4. NothingYet'
    <2>1. tokens = <<>> => tokens' = <<>>
      BY <1>0, <1>2
    <2> QED
      BY <1>1, <2>1 DEF AccountInv, NothingYet
  <1>5. References' /\ ResetsOvertake'
    BY <1>1, <1>2 DEF AccountInv, References, ResetsOvertake, OldSessionsWereOvertaken,
                      LiveSessions, Live
  <1>6. SessionsServeOnce'
    BY <1>1 DEF AccountInv, SessionsServeOnce, Live, Continued, Continuing, Holding, InFlight
  <1>7. TokensServeOnce'
    <2>1. \A j \in DOMAIN tokens : HoldingToken(j)' = HoldingToken(j)
      BY <1>1 DEF HoldingToken, InFlight
    <2> QED
      BY <1>2, <2>1 DEF AccountInv, TokensServeOnce
  <1>8. RequestsSupersede'
    <2>1. \A q \in Purpose : Unused(q)' = Unused(q) /\ Unused(q) \subseteq DOMAIN tokens
      BY <1>2 DEF Unused
    <2>2. InFlight({"request"})' = InFlight({"request"})
      BY <1>1 DEF InFlight
    <2>3. \A u \in InFlight({"request"}) : at'[u] = at[u] /\ at[u].purpose \in Purpose
      BY <1>1, HandlerFields DEF InFlight, AccountInv, TypeOK
    <2> QED
      BY <1>2, <2>1, <2>2, <2>3 DEF AccountInv, RequestsSupersede
  <1>9. OneInvitation'
    <2>1. Inviting' = Inviting /\ Invitations' = Invitations
      BY <1>1, <1>2 DEF Inviting, Invitations, InFlight
    <2>2. InFlight({"accept"})' = InFlight({"accept"})
      BY <1>1 DEF InFlight
    <2>3. \A j \in Invitations : tokens'[j].used = tokens[j].used
      BY <1>2 DEF Invitations
    <2> QED
      BY <1>1, <2>1, <2>2, <2>3 DEF AccountInv, OneInvitation
  <1>10. DisablingHolds'
    BY <1>1 DEF AccountInv, DisablingHolds, DisabledStayOut, InFlight
  <1>11. InvitationHolds'
    BY <1>1, <1>2 DEF AccountInv, InvitationHolds, Making
  <1>12. WholeAccount'
    <2>1. Reached' <=> Reached
      BY <1>1, <1>2 DEF Reached
    <2> QED
      BY <1>1, <2>1 DEF AccountInv, WholeAccount, InFlight
  <1> QED
    BY <1>3, <1>4, <1>5, <1>6, <1>7, <1>8, <1>9, <1>10, <1>11, <1>12 DEF AccountInv

LEMMA CreateLostKeeps ==
  ASSUME AccountInv, NEW t \in Threads, CreateCommit(t), origin # "none"
  PROVE  AccountInv'
  <1> USE DEF Stage, Becomes, account, history
  <1>0. at \in [Threads -> Handler] /\ tokens \in Seq(Token)
    BY DEF AccountInv, TypeOK
  <1>1. /\ at[t].stage = "create" /\ at' = [at EXCEPT ![t] = Idle]
        /\ UNCHANGED <<account, sessions, tokens, history>>
    BY DEF CreateCommit, Founds
  <1>2. at'[t].stage = "idle" /\ \A u \in Threads \ {t} : at'[u] = at[u]
    BY <1>0, <1>1 DEF Idle
  <1>3. TypeOK'
    <2>1. at' \in [Threads -> Handler]
      BY <1>0, <1>1 DEF Handler
    <2> QED
      BY <2>1, <1>1, <1>2 DEF AccountInv, TypeOK
  <1>4. NothingYet'
    BY <1>1, <1>2 DEF AccountInv, NothingYet
  <1>5. References'
    BY <1>1, <1>2 DEF AccountInv, References
  <1>6. ResetsOvertake'
    BY <1>1, <1>2 DEF AccountInv, ResetsOvertake, OldSessionsWereOvertaken, LiveSessions, Live, TypeOK
  <1>7. SessionsServeOnce'
    <2>1. \A s \in DOMAIN sessions :
            Continuing(s)' \subseteq Continuing(s) /\ Holding(s)' \subseteq Holding(s)
      BY <1>1, <1>2 DEF Continuing, Holding, InFlight
    <2> QED
      BY <1>1, <1>2, <2>1, ServeOnceShrinks DEF AccountInv, Live, Continued
  <1>8. TokensServeOnce'
    BY <1>1, <1>2 DEF AccountInv, TokensServeOnce, HoldingToken, InFlight
  <1>9. RequestsSupersede'
    BY <1>1, <1>2 DEF AccountInv, RequestsSupersede, InFlight, Unused
  <1>10. OneInvitation'
    BY <1>1, <1>2 DEF AccountInv, OneInvitation, InFlight, Invitations, Inviting
  <1>11. DisablingHolds'
    BY <1>1, <1>2 DEF AccountInv, DisablingHolds, DisabledStayOut, InFlight
  <1>12. InvitationHolds'
    BY <1>1, <1>2 DEF AccountInv, InvitationHolds, Making
  <1>13. WholeAccount'
    BY <1>1, <1>2 DEF AccountInv, WholeAccount, Reached, InFlight
  <1> QED
    BY <1>3, <1>4, <1>5, <1>6, <1>7, <1>8, <1>9, <1>10, <1>11,
       <1>12, <1>13 DEF AccountInv

LEMMA CreateMadeKeeps ==
  ASSUME AccountInv, NEW t \in Threads, NEW way \in Ways, at[t].way = way,
         CreateCommit(t), origin = "none"
  PROVE  AccountInv'
  <1> USE DEF Stage, Becomes, account, history
  <1>0. at \in [Threads -> Handler] /\ tokens \in Seq(Token)
    BY DEF AccountInv, TypeOK
  <1>1. at' = [at EXCEPT ![t] = After(way)]
    BY DEF CreateCommit
  <1>2. /\ way = "signup" => After(way) = Entering("issue")
        /\ way = "invite" => After(way) = [stage |-> "request", purpose |-> "invite",
                                           seen |-> {}, beside |-> FALSE]
        /\ way = "sso" => After(way) = Entering("sso")
    BY DEF After
  <1>3. /\ sessions = <<>> /\ tokens = <<>> /\ ~ active /\ ~ verified /\ word = "none"
        /\ \A u \in Threads : at[u].stage \in {"idle", "create"}
        /\ DOMAIN sessions = {} /\ DOMAIN tokens = {} /\ orgs = 0 /\ resets \in Nat
    BY DEF AccountInv, NothingYet, WholeAccount, TypeOK
  <1>4. /\ origin' = way /\ active' \in BOOLEAN /\ (active' <=> way # "invite")
        /\ orgs' = IF way = "signup" THEN 1 ELSE 0
        /\ UNCHANGED <<verified, sessions, tokens, history>>
    <2>1. origin' = way /\ active' = (way # "invite")
      BY DEF CreateCommit
    <2>2. active' \in BOOLEAN /\ (active' <=> way # "invite")
      BY <2>1
    <2>3. orgs' = IF way = "signup" THEN 1 ELSE 0
      BY <1>3 DEF CreateCommit, Founds
    <2>4. UNCHANGED <<verified, sessions, tokens, history>>
      BY DEF CreateCommit
    <2> QED
      BY <2>1, <2>2, <2>3, <2>4
  <1>5. \A u \in Threads \ {t} : at'[u].stage \in {"idle", "create"}
    BY <1>0, <1>1, <1>3
  <1>6. /\ way = "signup" => /\ at'[t].stage = "issue" /\ at'[t].from = 0
                             /\ at'[t].proof = resets
        /\ way = "invite" => /\ at'[t].stage = "request" /\ at'[t].purpose = "invite"
                             /\ at'[t].seen = {}
        /\ way = "sso" => /\ at'[t].stage = "sso" /\ at'[t].from = 0 /\ at'[t].proof = resets
        /\ way \in {"signup", "invite", "sso"}
    BY <1>0, <1>1, <1>2 DEF Entering, Ways
  <1>7. TypeOK'
    <2>1. After(way) \in Handler
      <3>1. Entering("issue") \in Handler /\ Entering("sso") \in Handler
        BY <1>3 DEF Handler, Entering
      <3>2. [stage |-> "request", purpose |-> "invite", seen |-> {}, beside |-> FALSE] \in Handler
        BY DEF Handler, Purpose
      <3> QED
        BY <1>2, <3>1, <3>2 DEF Ways
    <2>2. at' \in [Threads -> Handler]
      BY <1>0, <1>1, <2>1
    <2> QED
      BY <2>2, <1>3, <1>4, <1>5, <1>6 DEF AccountInv, TypeOK
  <1>8. NothingYet'
    BY <1>3, <1>4, <1>5, <1>6 DEF NothingYet
  <1>9. References'
    BY <1>3, <1>4, <1>5, <1>6 DEF References
  <1>10. ResetsOvertake'
    BY <1>3, <1>4, <1>5, <1>6 DEF ResetsOvertake, OldSessionsWereOvertaken, LiveSessions
  <1>11. SessionsServeOnce'
    BY <1>3, <1>4, <1>5, <1>6 DEF SessionsServeOnce
  <1>12. TokensServeOnce'
    BY <1>3, <1>4, <1>5, <1>6 DEF TokensServeOnce
  <1>13. RequestsSupersede'
    BY <1>3, <1>4, <1>5, <1>6 DEF RequestsSupersede, InFlight, Unused
  <1>14. OneInvitation'
    BY <1>3, <1>4, <1>5, <1>6 DEF OneInvitation, InFlight, Invitations, Inviting
  <1>15. DisablingHolds'
    <2>1. DisabledStayOut'
      BY <1>3, <1>4, <1>5, <1>6 DEF DisabledStayOut
    <2>2. InFlight({"accept"})' = {} /\ InFlight({"disable"})' = {}
      BY <1>3, <1>4, <1>5, <1>6 DEF InFlight
    <2>3. InFlight({"refresh", "sso", "issue"})' # {} => active'
      BY <1>3, <1>4, <1>5, <1>6 DEF InFlight
    <2> QED
      BY <2>1, <2>2, <2>3 DEF DisablingHolds
  <1>16. InvitationHolds'
    BY <1>3, <1>4, <1>5, <1>6 DEF InvitationHolds, Making
  <1>17. WholeAccount'
    BY <1>3, <1>4, <1>5, <1>6 DEF WholeAccount, Reached, InFlight
  <1> QED
    BY <1>7, <1>8, <1>9, <1>10, <1>11, <1>12, <1>13, <1>14, <1>15,
       <1>16, <1>17 DEF AccountInv
-------------------------------------------------------------------------------
(* The whole of the next-state relation, and the theorems.                 *)

LEMMA InitAccount == Init => AccountInv
  <1> SUFFICES ASSUME Init PROVE AccountInv
    OBVIOUS
  <1> USE DEF Stage
  <1>1. /\ sessions = <<>> /\ tokens = <<>> /\ DOMAIN sessions = {} /\ DOMAIN tokens = {}
        /\ origin = "none" /\ ~ active /\ ~ verified /\ orgs = 0 /\ resets = 0
        /\ word = "none" /\ crossed = FALSE /\ torn = FALSE /\ deaths = 0
        /\ active = FALSE /\ verified = FALSE
        /\ at = [t \in Threads |-> Idle]
    BY DEF Init
  <1>2. \A t \in Threads : at[t].stage = "idle"
    BY <1>1 DEF Idle
  <1>3. TypeOK
    <2>1. at \in [Threads -> Handler]
      BY <1>1 DEF Handler
    <2>2. sessions \in Seq(Session) /\ tokens \in Seq(Token)
      BY <1>1, EmptySeq
    <2> QED
      BY <1>1, <2>1, <2>2 DEF TypeOK
  <1>4. NothingYet /\ References /\ ResetsOvertake /\ SessionsServeOnce /\ TokensServeOnce
    BY <1>1, <1>2 DEF NothingYet, References, ResetsOvertake, OldSessionsWereOvertaken,
                      LiveSessions, SessionsServeOnce, TokensServeOnce
  <1>5. RequestsSupersede /\ OneInvitation /\ DisablingHolds
    BY <1>1, <1>2 DEF RequestsSupersede, OneInvitation, DisablingHolds, DisabledStayOut,
                      InFlight, Unused, Invitations, Inviting
  <1>6. InvitationHolds /\ WholeAccount
    BY <1>1 DEF InvitationHolds, WholeAccount, Reached
  <1> QED
    BY <1>3, <1>4, <1>5, <1>6 DEF AccountInv

\* The handlers whose lemma names what they hold.
LEMMA HoldersKeep ==
  ASSUME AccountInv, NEW t \in Threads,
         CreateCommit(t) \/ RefreshRevoke(t) \/ Issue(t) \/ RequestCommit(t)
           \/ VerifyCommit(t) \/ AcceptCommit(t) \/ ResetCommit(t)
  PROVE  AccountInv'
  <1>1. at[t] \in Handler /\ Len(sessions) + 1 \in Nat /\ Len(tokens) + 1 \in Nat
    BY DEF AccountInv, TypeOK
  <1>2. CASE CreateCommit(t)
    <2>1. at[t].way \in Ways
      BY <1>1, <1>2, HandlerFields DEF CreateCommit, Stage
    <2> QED
      BY <1>2, <2>1, CreateLostKeeps, CreateMadeKeeps
  <1>3. CASE RefreshRevoke(t)
    <2>1. at[t].session \in Nat
      BY <1>1, <1>3, HandlerFields DEF RefreshRevoke, Stage
    <2> QED
      BY <1>3, <2>1, RefreshRevokeKeeps
  <1>4. CASE Issue(t)
    BY <1>1, <1>4, IssueKeeps
  <1>5. CASE RequestCommit(t)
    <2>1. at[t].purpose \in Purpose
      BY <1>1, <1>5, HandlerFields DEF RequestCommit, Stage
    <2> QED
      BY <1>1, <1>5, <2>1, RequestCommitKeeps
  <1>6. CASE VerifyCommit(t)
    <2>1. at[t].token \in Nat
      BY <1>1, <1>6, HandlerFields DEF VerifyCommit, Stage
    <2> QED
      BY <1>6, <2>1, VerifyCommitKeeps
  <1>7. CASE AcceptCommit(t)
    <2>1. at[t].token \in Nat
      BY <1>1, <1>7, HandlerFields DEF AcceptCommit, Stage
    <2> QED
      BY <1>7, <2>1, AcceptCommitKeeps
  <1>8. CASE ResetCommit(t)
    <2>1. at[t].token \in Nat
      BY <1>1, <1>8, HandlerFields DEF ResetCommit, Stage
    <2> QED
      BY <1>8, <2>1, ResetCommitKeeps
  <1> QED
    BY <1>2, <1>3, <1>4, <1>5, <1>6, <1>7, <1>8

LEMMA NextAccount == AccountInv /\ [Next]_vars => AccountInv'
  <1> SUFFICES ASSUME AccountInv, [Next]_vars PROVE AccountInv'
    OBVIOUS
  <1>1. ASSUME NEW t \in Threads,
               \/ \E way \in Ways : CreateLoad(t, way)
               \/ SsoVerify(t) \/ Login(t) \/ ResetSessions(t) \/ DisableLoad(t)
        PROVE  AccountInv'
    BY <1>1, CreateLoadKeeps, SsoVerifyKeeps, LoginKeeps, ResetSessionsKeeps, DisableLoadKeeps
  <1>2. ASSUME NEW t \in Threads,
               \/ \E p \in Purpose : RequestLoad(t, p)
               \/ \E s \in DOMAIN sessions : RefreshCheck(t, s)
               \/ DisableCommit(t)
        PROVE  AccountInv'
    BY <1>2, RequestLoadKeeps, RefreshCheckKeeps, DisableCommitKeeps
  <1>3. ASSUME NEW t \in Threads, NEW k \in DOMAIN tokens,
               ResetLoad(t, k) \/ AcceptLoad(t, k) \/ VerifyLoad(t, k)
        PROVE  AccountInv'
    <2>1. CASE ResetLoad(t, k)
      BY <2>1, TokenLoadKeeps DEF ResetLoad, PurposeOf, Good
    <2>2. CASE VerifyLoad(t, k)
      BY <2>2, TokenLoadKeeps DEF VerifyLoad, PurposeOf, Good
    <2>3. CASE AcceptLoad(t, k)
      BY <2>3, AcceptLoadKeeps
    <2> QED
      BY <1>3, <2>1, <2>2, <2>3
  <1>4. ASSUME NEW t \in Threads,
               CreateCommit(t) \/ RefreshRevoke(t) \/ Issue(t) \/ RequestCommit(t)
                 \/ VerifyCommit(t) \/ AcceptCommit(t) \/ ResetCommit(t)
        PROVE  AccountInv'
    BY <1>4, HoldersKeep
  <1>5. CASE Die
    BY <1>5, DieKeeps
  <1>6. ASSUME NEW s \in DOMAIN sessions, Logout(s) PROVE AccountInv'
    BY <1>6, LogoutKeeps
  <1>7. CASE UNCHANGED vars
    <2> USE DEF Stage
    <2>1. UNCHANGED <<origin, active, verified, orgs, sessions, tokens, at, resets, word,
                      crossed, deaths, torn>>
      BY <1>7 DEF vars, account, history
    <2>2. TypeOK' /\ NothingYet' /\ References' /\ ResetsOvertake'
      BY <2>1 DEF AccountInv, TypeOK, NothingYet, References, ResetsOvertake,
                  OldSessionsWereOvertaken, LiveSessions, Live
    <2>3. SessionsServeOnce' /\ TokensServeOnce' /\ RequestsSupersede' /\ OneInvitation'
      BY <2>1 DEF AccountInv, SessionsServeOnce, TokensServeOnce, RequestsSupersede,
                  OneInvitation, Live, Continued, Continuing, Holding, HoldingToken, InFlight,
                  Unused, Invitations, Inviting
    <2>4. DisablingHolds' /\ InvitationHolds' /\ WholeAccount'
      BY <2>1 DEF AccountInv, DisablingHolds, DisabledStayOut, InvitationHolds, WholeAccount,
                  Making, Reached, InFlight
    <2> QED
      BY <2>2, <2>3, <2>4 DEF AccountInv
  <1>8. ASSUME NEW k \in DOMAIN tokens, Expire(k) PROVE AccountInv'
    BY <1>8, ExpireKeeps
  <1> QED
    BY <1>1, <1>2, <1>3, <1>4, <1>5, <1>6, <1>7, <1>8 DEF Next

\* The inductive invariant holds for any number of threads, sessions, tokens and deaths of
\* the server: what the handlers in flight hold, against the rows they hold it of
\* (auth_service.py, sso.py).
THEOREM AccountIsInductive == Spec => []AccountInv
  BY InitAccount, NextAccount, PTL DEF Spec

\* For every value of the constants: no session from before a password reset is live after it
\* but by a handler the reset overtook (reset_password, issue_tokens).
THEOREM AccountResetsOvertake == Spec => []OldSessionsWereOvertaken
  <1>1. AccountInv => OldSessionsWereOvertaken
    BY DEF AccountInv, ResetsOvertake
  <1> QED
    BY <1>1, AccountIsInductive, PTL

\* A set of at most one element.
LEMMA AtMostOne ==
  ASSUME NEW S, \A x, y \in S : x = y
  PROVE  Cardinality(S) =< 1
  <1>1. CASE S = {}
    BY <1>1, FS_EmptySet
  <1>2. CASE S # {}
    <2>1. PICK x \in S : TRUE
      BY <1>2
    <2>2. S = {x}
      BY <2>1
    <2> QED
      BY <2>2, FS_Singleton
  <1> QED
    BY <1>1, <1>2

\* For every value of the constants: a refresh session, or a single-use token, serves once,
\* unless two handlers had both found it good before either spent it; and a new token supersedes
\* those of its purpose, unless the requests overlapped (refresh_tokens, _consume_token,
\* _issue_token).
THEOREM AccountSecretsServeOnce == Spec => []SecretsServeOnce
  <1>1. AccountInv => SecretsServeOnce
    <2> SUFFICES ASSUME AccountInv PROVE SecretsServeOnce
      OBVIOUS
    <2>1. ASSUME NEW s \in DOMAIN sessions, ~ sessions[s].raced
          PROVE  Cardinality(Successors(s)) =< 1
      <3>1. /\ \A q, r \in Continued(s) : q = r
            /\ \A t, u \in Continuing(s) : t = u
            /\ Continued(s) = {} \/ Continuing(s) = {}
        BY <2>1 DEF AccountInv, SessionsServeOnce
      <3>2. Successors(s) = Continued(s) \cup Continuing(s)
        BY DEF Successors, Continued, Continuing
      <3>3. \A x, y \in Successors(s) : x = y
        BY <3>1, <3>2
      <3> QED
        BY <3>3, AtMostOne
    <2>2. \A k \in DOMAIN tokens : tokens[k].raced \/ tokens[k].uses =< 1
      BY DEF AccountInv, TokensServeOnce
    <2>3. \A p \in Purpose : \A j, k \in Unused(p) :
            j # k => tokens[j].beside /\ tokens[k].beside
      BY DEF AccountInv, RequestsSupersede
    <2> QED
      BY <2>1, <2>2, <2>3 DEF SecretsServeOnce
  <1> QED
    BY <1>1, AccountIsInductive, PTL

\* For every value of the constants: the last of disabling and accepting decides unless they
\* overlapped, and no session is issued to a disabled account but by a handler the disabling
\* overtook (disable_user, accept_invite, refresh_tokens, authenticate).
THEOREM AccountDisabledStayOut == Spec => []DisabledStayOut
  <1>1. AccountInv => DisabledStayOut
    BY DEF AccountInv, DisablingHolds
  <1> QED
    BY <1>1, AccountIsInductive, PTL

\* For every value of the constants: an invited account keeps its invitation until it is
\* accepted or its seven days have run out, unless the server died between the account and
\* its token (invite_member, _issue_token, _consume_token).
THEOREM AccountInvitationHolds == Spec => []InvitationHolds
  <1>1. AccountInv => InvitationHolds
    BY DEF AccountInv
  <1> QED
    BY <1>1, AccountIsInductive, PTL

\* For every value of the constants: an organization comes with its owner, and an address is
\* verified if and only if it was reached or vouched for, unless the server died in between
\* (signup, provision_and_issue, verify_email).
THEOREM AccountIsMadeWhole == Spec => []AccountIsWhole
  <1>1. AccountInv => AccountIsWhole
    BY DEF AccountInv, WholeAccount, AccountIsWhole, Reached, InFlight, Making
  <1> QED
    BY <1>1, AccountIsInductive, PTL

===============================================================================
