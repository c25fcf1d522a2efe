---------------------------- MODULE AccountSessions ----------------------------
(***************************************************************************)
(* One e-mail address, the account it may get (by signing up, by being     *)
(* invited, or on first single sign-on), and what lets its owner in:       *)
(* refresh sessions, rotated at each use, the single-use tokens of         *)
(* invitation, password reset and verification, and the flag that disables *)
(* the account (services/auth_service.py, services/sso.py, routers/auth.py *)
(* and routers/users.py).                                                  *)
(*                                                                         *)
(* The handlers are synchronous functions run by a pool of threads, each   *)
(* with a database session of its own: what one has loaded stays as it was *)
(* in its hands (expire_on_commit=False) until it commits, and a commit    *)
(* writes the columns it changed. A handler is a step per load on which it *)
(* decides and a step per commit. The server may die between any two of    *)
(* them. Passwords, factors and lockout decide whether a login succeeds    *)
(* and are left open here, as is what the identity provider says. The time *)
(* of a token may run out at any moment; a session whose time has run out  *)
(* is one that is used no more.                                            *)
(*                                                                         *)
(* Definitions marked "Fault:" are not part of the model: each is a        *)
(* plausible mistake in the definition that follows it.                    *)
(***************************************************************************)
EXTENDS Naturals, Sequences, FiniteSets

CONSTANTS
    Threads,      \* the pool: how many handlers are at work at once
    MaxSessions,  \* bound: refresh sessions ever issued
    MaxTokens,    \* bound: tokens ever issued
    MaxFaults     \* bound: deaths of the server, and tokens whose time runs out

ASSUME AccountAssumption == MaxSessions \in Nat /\ MaxTokens \in Nat /\ MaxFaults \in Nat

VARIABLES
    origin,    \* how the User row of the address came to be, "none" without one
    active,    \* User.is_active
    verified,  \* User.email_verified
    orgs,      \* Organization rows made by signing up with the address
    sessions,  \* RefreshToken rows, in the order of their issue
    tokens,    \* UserToken rows, in the order of their issue
    at,        \* what each thread is doing, with what it has loaded
    (* history *)
    resets,    \* password resets committed
    word,      \* which of disabling and accepting has committed last
    crossed,   \* have a disabling and an accepting ever overlapped?
    deaths,
    torn       \* did the server die while an account was being made?

account == <<origin, active, verified, orgs>>
history == <<resets, word, crossed, deaths, torn>>
vars == <<account, sessions, tokens, at, history>>

Ways == {"signup", "invite", "sso"}
Purpose == {"invite", "password_reset", "email_verify"}

\* The commits that may overtake a handler which is about to issue a session.
Overtaking == {"reset", "disable"}

\* A row, and what its history tells: how many resets its owner's login has seen,
\* which session it continues (0: none), what overtook the handler that issued it,
\* whether two refreshes held it at once, and whether the account was disabled.
Session == [revoked : BOOLEAN, proof : Nat, from : Nat,
            late : SUBSET Overtaking, raced : BOOLEAN, shut : BOOLEAN]

\* A row, whether its time ran out before it was used, how often it has been used, whether
\* two handlers held it at once, and whether the request that issued it overlapped another
\* one.
Token == [purpose : Purpose, used : BOOLEAN, expired : BOOLEAN, uses : Nat,
          raced : BOOLEAN, beside : BOOLEAN]

Idle == [stage |-> "idle"]

Handler ==
    {Idle}
    \cup [stage : {"create"}, way : Ways]
    \cup [stage : {"refresh"}, session : Nat, late : SUBSET Overtaking]
    \cup [stage : {"sso", "issue"}, proof : Nat, from : Nat, late : SUBSET Overtaking]
    \cup [stage : {"request"}, purpose : Purpose, seen : SUBSET Nat, beside : BOOLEAN]
    \cup [stage : {"reset", "verify"}, token : Nat]
    \cup [stage : {"revoke"}, token : Nat, seen : SUBSET Nat]
    \cup [stage : {"accept"}, token : Nat, active : BOOLEAN]
    \cup [stage : {"disable"}, active : BOOLEAN]

NewToken(p, b) ==
    [purpose |-> p, used |-> FALSE, expired |-> FALSE, uses |-> 0, raced |-> FALSE,
     beside |-> b]

NewSession(h) ==
    [revoked |-> FALSE, proof |-> h.proof, from |-> h.from, late |-> h.late,
     raced |-> FALSE, shut |-> ~active]

Init ==
    /\ origin = "none" /\ active = FALSE /\ verified = FALSE /\ orgs = 0
    /\ sessions = <<>> /\ tokens = <<>>
    /\ at = [t \in Threads |-> Idle]
    /\ resets = 0 /\ word = "none" /\ crossed = FALSE
    /\ deaths = 0 /\ torn = FALSE

-------------------------------------------------------------------------------
Stage(t) == at[t].stage
Becomes(t, h) == at' = [at EXCEPT ![t] = h]

Live(s) == ~ sessions[s].revoked
LiveSessions == {s \in DOMAIN sessions : Live(s)}
Unused(p) == {k \in DOMAIN tokens : tokens[k].purpose = p /\ ~ tokens[k].used}

\* The tokens that _consume_token() accepts.
Good(p) == {k \in Unused(p) : ~ tokens[k].expired}

InFlight(stages) == {t \in Threads : Stage(t) \in stages}

\* A thread holds session s, or token k, that it has found good.
Holding(s) == {t \in InFlight({"refresh"}) : at[t].session = s}
HoldingToken(k) == {t \in InFlight({"reset", "revoke", "accept", "verify"}) : at[t].token = k}

\* Room for one more session, or token, counting those about to be issued.
SessionRoom ==
    Len(sessions) + Cardinality(InFlight({"refresh", "issue", "accept", "create", "sso"}))
        < MaxSessions
TokenRoom == Len(tokens) + Cardinality(InFlight({"request", "create"})) < MaxTokens

Revoke(S) == [s \in DOMAIN sessions |->
                IF s \in S THEN [sessions[s] EXCEPT !.revoked = TRUE] ELSE sessions[s]]

Faults == deaths + Cardinality({k \in DOMAIN tokens : tokens[k].expired})

\* Threads about to issue a session are overtaken by a commit of kind c.
Overtake(c, t) ==
    at' = [u \in Threads |->
             IF u = t THEN Idle
             ELSE IF Stage(u) \in {"refresh", "sso", "issue"}
                  THEN [at[u] EXCEPT !.late = @ \cup {c}]
                  ELSE at[u]]

-------------------------------------------------------------------------------
(* The account.                                                            *)

\* signup(), invite_member(), create_user() and provision_and_issue() look for a row of
\* the address, and hash a password ...
CreateLoad(t, way) ==
    /\ Stage(t) = "idle"
    /\ SessionRoom /\ TokenRoom
    /\ origin = "none"
    /\ Becomes(t, [stage |-> "create", way |-> way])
    /\ UNCHANGED <<account, sessions, tokens, history>>

\* Fault: signup() commits the organization before it makes its owner.
FoundsAlone(way) == IF way = "signup" THEN orgs + 1 ELSE orgs

\* The organization is in one commit with its owner.
Founds(way) == IF way = "signup" /\ origin = "none" THEN orgs + 1 ELSE orgs

\* The owner is known, and a session is to be issued, by and by.
Entering(stage) == [stage |-> stage, from |-> 0, proof |-> resets, late |-> {}]

\* What follows once the row is there: signup() issues a session, invite_member() a
\* token, and single sign-on notes that the address is verified.
After(way) ==
    CASE way = "signup" -> Entering("issue")
      [] way = "invite" -> [stage |-> "request", purpose |-> "invite", seen |-> {},
                            beside |-> FALSE]
      [] way = "sso" -> Entering("sso")

\* ... and insert one, which fails if there is one by now: the address is unique.
CreateCommit(t) ==
    /\ Stage(t) = "create"
    /\ LET way == at[t].way
       IN  /\ orgs' = Founds(way)
           /\ IF origin = "none"
              THEN /\ origin' = way /\ active' = (way # "invite")
                   /\ Becomes(t, After(way))
              ELSE /\ UNCHANGED <<origin, active>>
                   /\ Becomes(t, Idle)
    /\ UNCHANGED <<verified, sessions, tokens, history>>

\* provision_and_issue() goes on with the row it has made, as it made it.
SsoVerify(t) ==
    /\ Stage(t) = "sso"
    /\ verified' = TRUE
    /\ Becomes(t, [at[t] EXCEPT !.stage = "issue"])
    /\ UNCHANGED <<origin, active, orgs, sessions, tokens, history>>

-------------------------------------------------------------------------------
(* Sessions.                                                               *)

\* Fault: any session on record is good.
AnySession(s) == active

\* Fault: nothing is asked of the account.
AnyAccount(s) == Live(s)

\* What refresh_tokens() asks of a session.
MayRefresh(s) == Live(s) /\ active

RefreshCheck(t, s) ==
    /\ Stage(t) = "idle"
    /\ SessionRoom
    /\ MayRefresh(s)
    /\ sessions' = [sessions EXCEPT ![s].raced = @ \/ Holding(s) # {}]
    /\ Becomes(t, [stage |-> "refresh", session |-> s, late |-> {}])
    /\ UNCHANGED <<account, tokens, history>>

\* It commits the end of the old session before it issues the new one.
RefreshRevoke(t) ==
    /\ Stage(t) = "refresh"
    /\ sessions' = Revoke({at[t].session})
    /\ LET old == sessions[at[t].session]
       IN  Becomes(t, [stage |-> "issue", from |-> at[t].session, proof |-> old.proof,
                       late |-> at[t].late \cup (old.late \ {"disable"})])
    /\ UNCHANGED <<account, tokens, history>>

\* authenticate() and enforce_mfa(), or provision_and_issue() of an address that has an
\* account: the owner is known.
Login(t) ==
    /\ Stage(t) = "idle"
    /\ SessionRoom
    /\ active
    /\ Becomes(t, Entering("issue"))
    /\ UNCHANGED <<account, sessions, tokens, history>>

\* issue_tokens(): nothing is asked again.
Issue(t) ==
    /\ Stage(t) = "issue"
    /\ sessions' = Append(sessions, NewSession(at[t]))
    /\ Becomes(t, Idle)
    /\ UNCHANGED <<account, tokens, history>>

\* revoke_refresh_token().
Logout(s) ==
    /\ Live(s)
    /\ sessions' = Revoke({s})
    /\ UNCHANGED <<account, tokens, at, history>>

-------------------------------------------------------------------------------
(* Tokens.                                                                 *)

\* Fault: tokens of every purpose are superseded.
AnyUnused(p) == UNION {Unused(q) : q \in Purpose}

\* Those that a new token supersedes.
Outstanding(p) == Unused(p)

\* _issue_token(), of request_password_reset() for any account, or of
\* request_email_verification() for one that is signed in: the outstanding tokens are
\* loaded ...
RequestLoad(t, p) ==
    /\ Stage(t) = "idle"
    /\ TokenRoom
    /\ \/ p = "password_reset" /\ origin # "none"
       \/ p = "email_verify" /\ active
    /\ LET others == {u \in InFlight({"request"}) : at[u].purpose = p}
       IN  at' = [u \in Threads |->
                    IF u = t THEN [stage |-> "request", purpose |-> p, seen |-> Outstanding(p),
                                   beside |-> others # {}]
                    ELSE IF u \in others THEN [at[u] EXCEPT !.beside = TRUE]
                    ELSE at[u]]
    /\ UNCHANGED <<account, sessions, tokens, history>>

\* The outstanding tokens count as used.
Superseded(seen) == [k \in DOMAIN tokens |->
    IF k \in seen THEN [tokens[k] EXCEPT !.used = TRUE] ELSE tokens[k]]

\* ... and invalidated when the new one is committed.
RequestCommit(t) ==
    /\ Stage(t) = "request"
    /\ tokens' = Append(Superseded(at[t].seen), NewToken(at[t].purpose, at[t].beside))
    /\ Becomes(t, Idle)
    /\ UNCHANGED <<account, sessions, history>>

\* The time of a token runs out, that of an invitation after seven days.
Expire(k) ==
    /\ Faults < MaxFaults
    /\ ~ tokens[k].used /\ ~ tokens[k].expired
    /\ tokens' = [tokens EXCEPT ![k].expired = TRUE]
    /\ UNCHANGED <<account, sessions, at, history>>

\* _consume_token() finds the token good.
Hold(k) == tokens' = [tokens EXCEPT ![k].raced = @ \/ HoldingToken(k) # {}]

\* It is marked used in the commit of the handler.
Spend(k) == tokens' = [tokens EXCEPT ![k] = [@ EXCEPT !.used = TRUE, !.uses = tokens[k].uses + 1]]

\* reset_password(): the token is good; hashing the new password takes its time ...
ResetLoad(t, k) ==
    /\ Stage(t) = "idle"
    /\ k \in Good("password_reset")
    /\ Hold(k)
    /\ Becomes(t, [stage |-> "reset", token |-> k])
    /\ UNCHANGED <<account, sessions, history>>

\* ... the live sessions are loaded ...
ResetSessions(t) ==
    /\ Stage(t) = "reset"
    /\ Becomes(t, [stage |-> "revoke", token |-> at[t].token, seen |-> LiveSessions])
    /\ UNCHANGED <<account, sessions, tokens, history>>

\* Fault: the newest session is spared.
SpareNewest(seen) == {s \in seen : \E r \in seen : r > s}

SessionsToRevoke(seen) == seen

\* The sessions after the reset: one that was not loaded has been overtaken.
AfterReset(seen) == [s \in DOMAIN sessions |->
    IF s \in seen
    THEN Revoke(SessionsToRevoke(seen))[s]
    ELSE [sessions[s] EXCEPT !.late = @ \cup {"reset"}]]

\* ... and revoked in one commit with the new password.
ResetCommit(t) ==
    /\ Stage(t) = "revoke"
    /\ Spend(at[t].token)
    /\ resets' = resets + 1
    /\ sessions' = AfterReset(at[t].seen)
    /\ Overtake("reset", t)
    /\ UNCHANGED <<account, word, crossed, deaths, torn>>

\* verify_email(): the token is found good ...
VerifyLoad(t, k) ==
    /\ Stage(t) = "idle"
    /\ k \in Good("email_verify")
    /\ Hold(k)
    /\ Becomes(t, [stage |-> "verify", token |-> k])
    /\ UNCHANGED <<account, sessions, history>>

\* ... and spent.
VerifyCommit(t) ==
    /\ Stage(t) = "verify"
    /\ Spend(at[t].token)
    /\ verified' = TRUE
    /\ Becomes(t, Idle)
    /\ UNCHANGED <<origin, active, orgs, sessions, history>>

-------------------------------------------------------------------------------
(* Enabling and disabling.                                                 *)

\* accept_invite(): the token is good; hashing the password takes its time ...
AcceptLoad(t, k) ==
    /\ Stage(t) = "idle"
    /\ SessionRoom
    /\ k \in Good("invite")
    /\ Hold(k)
    /\ Becomes(t, [stage |-> "accept", token |-> k, active |-> active])
    /\ crossed' = (crossed \/ InFlight({"disable"}) # {})
    /\ UNCHANGED <<account, sessions, resets, word, deaths, torn>>

\* ... and the account is enabled: the column is written if that changes what was
\* loaded.  A session follows.
AcceptCommit(t) ==
    /\ Stage(t) = "accept"
    /\ Spend(at[t].token)
    /\ active' = IF at[t].active THEN active ELSE TRUE
    /\ verified' = TRUE
    /\ word' = "accept"
    /\ Becomes(t, Entering("issue"))
    /\ UNCHANGED <<origin, orgs, sessions, resets, crossed, deaths, torn>>

\* disable_user() loads the account ...
DisableLoad(t) ==
    /\ Stage(t) = "idle"
    /\ origin # "none"
    /\ Becomes(t, [stage |-> "disable", active |-> active])
    /\ crossed' = (crossed \/ InFlight({"accept"}) # {})
    /\ UNCHANGED <<account, sessions, tokens, resets, word, deaths, torn>>

\* The column is written if that changes what was loaded.
Disabled(h) == IF h.active THEN FALSE ELSE active

\* ... and disables it.
DisableCommit(t) ==
    /\ Stage(t) = "disable"
    /\ active' = Disabled(at[t])
    /\ word' = "disable"
    /\ Overtake("disable", t)
    /\ UNCHANGED <<origin, verified, orgs, sessions, tokens, resets, crossed, deaths, torn>>

-------------------------------------------------------------------------------
\* An account has been made whose token, or whose verification, is still to come.
Making(t) == Stage(t) = "sso" \/ (Stage(t) = "request" /\ at[t].purpose = "invite")

\* The server dies and starts again: what was under way is not gone on with.
Die ==
    /\ Faults < MaxFaults
    /\ deaths' = deaths + 1
    /\ \E t \in Threads : Stage(t) # "idle"
    /\ at' = [t \in Threads |-> Idle]
    /\ torn' = (torn \/ \E t \in Threads : Making(t))
    /\ UNCHANGED <<account, sessions, tokens, resets, word, crossed>>

Next ==
    \/ \E t \in Threads :
         \/ \E way \in Ways : CreateLoad(t, way)
         \/ CreateCommit(t) \/ SsoVerify(t)
         \/ RefreshRevoke(t) \/ Login(t) \/ Issue(t)
         \/ \E p \in Purpose : RequestLoad(t, p)
         \/ RequestCommit(t) \/ VerifyCommit(t)
         \/ ResetSessions(t) \/ ResetCommit(t) \/ AcceptCommit(t)
         \/ DisableLoad(t) \/ DisableCommit(t)
         \/ \E s \in DOMAIN sessions : RefreshCheck(t, s)
         \/ \E k \in DOMAIN tokens : ResetLoad(t, k) \/ AcceptLoad(t, k) \/ VerifyLoad(t, k)
    \/ Die
    \/ \E s \in DOMAIN sessions : Logout(s)
    \/ \E k \in DOMAIN tokens : Expire(k)

Spec == Init /\ [][Next]_vars

-------------------------------------------------------------------------------
(* Properties.                                                             *)

TypeOK ==
    /\ origin \in Ways \cup {"none"} /\ orgs \in Nat
    /\ {active, verified, crossed, torn} \subseteq BOOLEAN
    /\ sessions \in Seq(Session) /\ tokens \in Seq(Token)
    /\ \A k \in DOMAIN tokens : tokens[k].uses > 0 => tokens[k].used
    /\ at \in [Threads -> Handler]
    /\ resets \in Nat /\ deaths \in Nat
    /\ word \in {"none", "disable", "accept"}

\* A live session from before a password reset was issued, or descends from one
\* that was issued, by a handler the reset overtook (reset_password, issue_tokens).
OldSessionsWereOvertaken ==
    \A s \in LiveSessions : sessions[s].proof < resets => "reset" \in sessions[s].late

Successors(s) == {r \in DOMAIN sessions : sessions[r].from = s}
               \cup {t \in InFlight({"issue"}) : at[t].from = s}

\* A secret serves once: a session is continued by at most one other, and a token
\* is used at most once, unless two handlers had both found it good before either
\* spent it; and two tokens of a purpose are open at once only if the requests for both
\* overlapped another one (refresh_tokens, _consume_token, _issue_token).
SecretsServeOnce ==
    /\ \A s \in DOMAIN sessions : sessions[s].raced \/ Cardinality(Successors(s)) =< 1
    /\ \A k \in DOMAIN tokens : tokens[k].raced \/ tokens[k].uses =< 1
    /\ \A p \in Purpose : \A j, k \in Unused(p) : j # k => tokens[j].beside /\ tokens[k].beside

\* A disabled account stays out: whichever of disabling and accepting commits last
\* decides, unless they overlapped, and no session is issued to a disabled account
\* but by a handler the disabling overtook (authenticate, refresh_tokens and
\* accept_invite against disable_user).
DisabledStayOut ==
    /\ ~ crossed /\ word # "none" => (active <=> word = "accept")
    /\ \A s \in DOMAIN sessions : sessions[s].shut => "disable" \in sessions[s].late

\* An invitation stays good until it is accepted or its time has run out: nothing else
\* spends it, a password reset asked for on the invited account, say.  It is the one way
\* in, since the address cannot be invited again (invite_member, _issue_token).  The
\* account is without one only if the server died between the commit of the account and
\* that of the token.
InvitationHolds ==
    origin = "invite" =>
        \/ torn
        \/ \E t \in Threads : Making(t)
        \/ \E k \in DOMAIN tokens :
             /\ tokens[k].purpose = "invite"
             /\ ~ tokens[k].used \/ tokens[k].expired \/ tokens[k].uses > 0

\* Whoever crosses whom, an organization has come to be with its owner or not at all, and
\* an address is verified if and only if it has been reached, or the identity provider
\* has vouched for it, unless the server died in between (signup, provision_and_issue,
\* verify_email).
AccountIsWhole ==
    /\ orgs = IF origin = "signup" THEN 1 ELSE 0
    /\ LET reached == \E k \in DOMAIN tokens :
                         tokens[k].purpose \in {"email_verify", "invite"} /\ tokens[k].uses > 0
       IN  /\ verified => reached \/ origin = "sso"
           /\ reached \/ origin = "sso" => verified \/ torn \/ \E t \in Threads : Making(t)

-------------------------------------------------------------------------------
(* The inductive invariant.                                                *)

\* Before there is an account there is nothing to sign in with.
NothingYet ==
    origin = "none" =>
        /\ sessions = <<>> /\ tokens = <<>>
        /\ ~ active /\ ~ verified /\ word = "none"
        /\ \A t \in Threads : Stage(t) \in {"idle", "create"}

\* The purpose of the token that a handler at this stage holds.
PurposeOf(stage) ==
    IF stage = "accept" THEN "invite" ELSE IF stage = "verify" THEN "email_verify"
    ELSE "password_reset"

\* Rows are never deleted: what a handler has loaded is there, and is what it was.
References ==
    /\ \A s \in DOMAIN sessions : sessions[s].from \in 0..Len(sessions)
    /\ \A t \in Threads :
        /\ Stage(t) = "refresh" => at[t].session \in DOMAIN sessions
        /\ Stage(t) = "issue" => at[t].from \in 0..Len(sessions)
        /\ Stage(t) = "sso" => at[t].from = 0 /\ origin = "sso"
        /\ Stage(t) \in {"reset", "revoke", "accept", "verify"} =>
             at[t].token \in DOMAIN tokens /\ tokens[at[t].token].purpose = PurposeOf(Stage(t))
        /\ Stage(t) = "request" =>
             \A k \in at[t].seen : k \in DOMAIN tokens /\ tokens[k].purpose = at[t].purpose

\* What is to become of a login from before a reset has been overtaken by it.
ResetsOvertake ==
    /\ OldSessionsWereOvertaken
    /\ \A t \in Threads :
        /\ Stage(t) \in {"sso", "issue"} /\ at[t].proof < resets => "reset" \in at[t].late
        /\ Stage(t) = "refresh" /\ sessions[at[t].session].proof < resets =>
             "reset" \in at[t].late \cup sessions[at[t].session].late

Continued(s) == {r \in DOMAIN sessions : sessions[r].from = s}
Continuing(s) == {t \in InFlight({"issue"}) : at[t].from = s}

\* A session is continued once it is revoked, and unless it was raced by one alone.
SessionsServeOnce ==
    \A s \in DOMAIN sessions :
        /\ Live(s) => Continued(s) = {} /\ Continuing(s) = {}
        /\ ~ sessions[s].raced =>
            /\ \A t, u \in Holding(s) : t = u
            /\ Holding(s) # {} => Continued(s) = {} /\ Continuing(s) = {}
            /\ \A q, r \in Continued(s) : q = r
            /\ \A t, u \in Continuing(s) : t = u
            /\ Continued(s) = {} \/ Continuing(s) = {}

\* A token that was not raced is held by one handler, which is the first to spend it.
TokensServeOnce ==
    \A k \in DOMAIN tokens : ~ tokens[k].raced =>
        /\ tokens[k].uses =< 1
        /\ \A t, u \in HoldingToken(k) : t = u
        /\ HoldingToken(k) # {} => tokens[k].uses = 0

\* A request misses no token it should supersede but that of a request beside it.
RequestsSupersede ==
    /\ \A t, u \in InFlight({"request"}) :
         t # u /\ at[t].purpose = at[u].purpose => at[t].beside
    /\ \A t \in InFlight({"request"}) : \A k \in Unused(at[t].purpose) \ at[t].seen :
         at[t].beside /\ tokens[k].beside
    /\ \A p \in Purpose : \A j, k \in Unused(p) : j # k => tokens[j].beside

Invitations == {k \in DOMAIN tokens : tokens[k].purpose = "invite"}
Inviting == {t \in InFlight({"request"}) : at[t].purpose = "invite"}

\* There is one invitation, sent or about to be, and until it is accepted the account
\* is not active.
OneInvitation ==
    /\ origin # "invite" => Invitations = {} /\ Inviting = {}
    /\ \A j, k \in Invitations : j = k
    /\ \A t, u \in Inviting : t = u
    /\ Inviting # {} => Invitations = {} /\ ~ active
    /\ \A k \in Invitations : tokens[k].used \/ ~ active
    /\ \A t \in InFlight({"accept"}) : ~ at[t].active

\* A session on its way to an account that is not active has been overtaken, and a
\* handler that would not disable the account finds it disabled.
DisablingHolds ==
    /\ DisabledStayOut
    /\ \A t \in InFlight({"refresh", "sso", "issue"}) : active \/ "disable" \in at[t].late
    /\ InFlight({"accept"}) = {} \/ InFlight({"disable"}) = {} \/ crossed
    /\ \A t \in InFlight({"disable"}) : crossed \/ at[t].active \/ ~ active

\* The address has been reached.
Reached == \E k \in DOMAIN tokens :
    tokens[k].purpose \in {"email_verify", "invite"} /\ tokens[k].uses > 0

WholeAccount ==
    /\ orgs = IF origin = "signup" THEN 1 ELSE 0
    /\ verified => Reached \/ origin = "sso"
    /\ Reached => verified
    /\ origin = "sso" => verified \/ torn \/ InFlight({"sso"}) # {}

AccountInv ==
    /\ TypeOK
    /\ NothingYet
    /\ References
    /\ ResetsOvertake
    /\ SessionsServeOnce
    /\ TokensServeOnce
    /\ RequestsSupersede
    /\ OneInvitation
    /\ DisablingHolds
    /\ InvitationHolds
    /\ WholeAccount
===============================================================================
