------------------------------ MODULE Identity ------------------------------
(***************************************************************************)
(* Sign-in by code, sessions and refresh tokens (internal/identity,        *)
(* pkg/authn, pkg/ratelimit).                                              *)
(*                                                                         *)
(* A request runs as a few transactions; between two of them other         *)
(* requests run, the account changes, and the request itself may die.      *)
(* What it carries from one to the next is req[q].  Device rows, profile   *)
(* fields and the audit log are left out: nothing here reads them back.    *)
(***************************************************************************)
EXTENDS Naturals, FiniteSets

CONSTANTS Users,          \* phone numbers, one account each
          Roles,          \* the roles a user can be granted
          InitialRole,    \* RoleCustomer: what a new account holds
          Requests,       \* requests in flight at once
          MaxAttempts,    \* Options.MaxAttempts: wrong guesses a code allows
          OTPLimit,       \* RuleOTPPerPhone.Limit
          MaxChallenges, MaxSessions, MaxTokens, MaxAllowed  \* bounds

ASSUME IdentityAssumption ==
    /\ InitialRole \in Roles
    /\ 0 \notin Users /\ "active" \notin Roles
    /\ MaxAttempts \in Nat \ {0} /\ OTPLimit \in Nat
    /\ MaxChallenges \in Nat /\ MaxSessions \in Nat
    /\ MaxTokens \in Nat /\ MaxAllowed \in Nat
    /\ IsFiniteSet(Requests)

Challenges == 1..MaxChallenges
Sessions   == 1..MaxSessions
Tokens     == 1..MaxTokens
None       == 0                   \* no challenge, session, token

VARIABLES
    challenge,  \* otp_challenges: user, state, attempts
    account,    \* users.status, or "none" before the first sign-in
    roles,      \* user_roles
    session,    \* sessions: user, current token, revoked, expired
    retired,    \* refresh_token_history: the session of a rotated token
    access,     \* the access tokens that still verify: session and roles
    req,        \* where each request is
    used,       \* the limiter's count of a phone number in this window
    allowed,    \* (history) codes the limiter's windows and outages allow so far
    openedBy    \* (history) the challenge a session was opened with

vars == <<challenge, account, roles, session, retired, access, req,
          used, allowed, openedBy>>

\* seen is history: what was true of the caller since the request looked them up.
Idle == [step |-> "idle", user |-> None, code |-> None, session |-> None,
         token |-> None, roles |-> {}, seen |-> {}]

Steps == {"idle", "counted", "checked", "consumed", "admitted", "found",
          "unknown", "clash", "rotated", "barred"}

TypeOK ==
    /\ challenge \in [Challenges -> [user : Users \cup {None},
                                     state : {"none", "live", "stale", "superseded", "used"},
                                     attempts : Nat]]
    /\ account \in [Users -> {"none", "ACTIVE", "SUSPENDED"}]
    /\ roles \in [Users -> SUBSET Roles]
    /\ session \in [Sessions -> [user : Users \cup {None}, token : Tokens \cup {None},
                                 life : {"open", "expired", "revoked"}]]
    /\ retired \in [Tokens -> Sessions \cup {None}]
    /\ access \subseteq [session : Sessions, roles : SUBSET Roles]
    /\ req \in [Requests -> [step : Steps, user : Users \cup {None},
                             code : Challenges \cup {None},
                             session : Sessions \cup {None},
                             token : Tokens \cup {None}, roles : SUBSET Roles,
                             seen : SUBSET (Roles \cup {"active"})]]
    /\ used \in [Users -> Nat]
    /\ allowed \in [Users -> Nat]
    /\ openedBy \in [Sessions -> Challenges \cup {None}]

Init ==
    /\ challenge = [c \in Challenges |-> [user |-> None, state |-> "none", attempts |-> 0]]
    /\ account = [u \in Users |-> "none"] /\ roles = [u \in Users |-> {}]
    /\ session = [s \in Sessions |-> [user |-> None, token |-> None, life |-> "open"]]
    /\ retired = [t \in Tokens |-> None]
    /\ access = {}
    /\ req = [q \in Requests |-> Idle]
    /\ used = [u \in Users |-> 0]
    /\ allowed = [u \in Users |-> OTPLimit]
    /\ openedBy = [s \in Sessions |-> None]

-----------------------------------------------------------------------------
(* The rows, as the store reads and writes them *)

Holding(t)    == {s \in Sessions : session[s].token = t}   \* refresh_token_hash is UNIQUE
UnusedTokens  == {t \in Tokens : Holding(t) = {} /\ retired[t] = None}
UnusedCodes   == {c \in Challenges : challenge[c].state = "none"}
UnusedIds     == {s \in Sessions : session[s].user = None}
LeastOf(S)    == CHOOSE x \in S : \A y \in S : x <= y     \* ids are given in order

CanAuthenticate(u) == account[u] = "ACTIVE"
Active(s)     == session[s].life = "open"
Revoked(s)    == session[s].life = "revoked"
Unconsumed(c) == challenge[c].state \in {"live", "stale"}   \* consumed_at IS NULL
Usable(c)     == challenge[c].state = "live" /\ challenge[c].attempts < MaxAttempts

LiveChallenge(u) == {c \in Challenges : challenge[c].user = u /\ Unconsumed(c)}

\* What is true of a user now, as far as a token may carry it.
Standing(u)   == roles[u] \cup (IF CanAuthenticate(u) THEN {"active"} ELSE {})

\* Allow: the count of this window, which is compared after it was raised.
Counted(u) == [used EXCEPT ![u] = IF @ > OTPLimit THEN @ ELSE @ + 1]

\* CreateChallenge: the outstanding one is consumed, the new one inserted.
Superseding(u) ==
    [c \in Challenges |->
        CASE c = LeastOf(UnusedCodes) -> [user |-> u, state |-> "live", attempts |-> 0]
          [] c \in LiveChallenge(u)   -> [challenge[c] EXCEPT !.state = "superseded"]
          [] OTHER                    -> challenge[c]]

\* Mistake: attempts left are counted down from zero.
CountingDown(c) == [challenge EXCEPT ![c].attempts = @ - 1]
\* RecordFailedAttempt: by id, whatever became of the challenge.
WithFailedAttempt(c) == [challenge EXCEPT ![c].attempts = @ + 1]

CreateSession(s, u) ==
    [session EXCEPT ![s] = [user |-> u, token |-> LeastOf(UnusedTokens), life |-> "open"]]

\* The swap of the hash, and the new expires_at.
Rotated(s) == [session EXCEPT ![s].token = LeastOf(UnusedTokens), ![s].life = "open"]

RevokeSession(s) == [session EXCEPT ![s].life = "revoked"]
RevokeUserSessions(u) ==
    [s \in Sessions |-> IF session[s].user = u THEN RevokeSession(s)[s] ELSE session[s]]

\* Issue: an access token that says which session and roles it is for.
Issue(s, R) == access' = access \cup {[session |-> s, roles |-> R]}

\* Authenticate: the access token alone, whatever became of its session.
Authenticated(s) == \E a \in access : a.session = s

At(q, step)   == req[q].step = step
Goto(q, r)    == req' = [req EXCEPT ![q] = r]
Done(q)       == Goto(q, Idle)

-----------------------------------------------------------------------------
(* RequestOTP *)

\* checkLimit(RuleOTPPerPhone): counted first, compared after.  A limiter that
\* cannot be reached lets the request through.
CountRequest(q, u) ==
    /\ At(q, "idle") /\ UnusedCodes # {}
    /\ \/ /\ used' = Counted(u) /\ Counted(u)[u] <= OTPLimit
          /\ UNCHANGED allowed
       \/ /\ allowed[u] < MaxAllowed
          /\ allowed' = [allowed EXCEPT ![u] = @ + 1]
          /\ UNCHANGED used
    /\ Goto(q, [Idle EXCEPT !.step = "counted", !.user = u])
    /\ UNCHANGED <<challenge, account, roles, session, retired, access, openedBy>>

\* What RequestOTP stores, before it sends the message.
CreateChallenge(q) ==
    /\ At(q, "counted") /\ UnusedCodes # {}
    /\ challenge' = Superseding(req[q].user)
    /\ Done(q)
    /\ UNCHANGED <<account, roles, session, retired, access, used, allowed, openedBy>>

CodeLapses(c) ==
    /\ challenge[c].state = "live"
    /\ challenge' = [challenge EXCEPT ![c].state = "stale"]
    /\ UNCHANGED <<account, roles, session, retired, access, req, used, allowed, openedBy>>

\* The fixed window rolls over for every number; MaxAllowed bounds how often.
WindowRolls ==
    /\ \A u \in Users : allowed[u] + OTPLimit <= MaxAllowed
    /\ allowed' = [u \in Users |-> allowed[u] + OTPLimit]
    /\ used' = [u \in Users |-> 0]
    /\ UNCHANGED <<challenge, account, roles, session, retired, access, req, openedBy>>

-----------------------------------------------------------------------------
(* VerifyOTP *)

\* LiveChallenge and Usable; the row read here decides what follows.
CheckCode(q, u) ==
    /\ At(q, "idle")
    /\ \E c \in LiveChallenge(u) :
          /\ Usable(c)
          /\ Goto(q, [Idle EXCEPT !.step = "checked", !.user = u, !.code = c])
    /\ UNCHANGED <<challenge, account, roles, session, retired, access, used, allowed, openedBy>>

WrongCode(q) ==
    /\ At(q, "checked")
    /\ challenge' = WithFailedAttempt(req[q].code)
    /\ Done(q)
    /\ UNCHANGED <<account, roles, session, retired, access, used, allowed, openedBy>>

\* Mistake: consumed without looking whether it still is outstanding.
ConsumeAnyway(q) ==
    /\ At(q, "checked")
    /\ challenge' = [challenge EXCEPT ![req[q].code].state = "used"]
    /\ Goto(q, [req[q] EXCEPT !.step = "consumed"])
    /\ UNCHANGED <<account, roles, session, retired, access, used, allowed, openedBy>>

\* ConsumeChallenge: WHERE consumed_at IS NULL.
RightCode(q) ==
    /\ At(q, "checked")
    /\ IF Unconsumed(req[q].code)
       THEN /\ challenge' = [challenge EXCEPT ![req[q].code].state = "used"]
            /\ Goto(q, [req[q] EXCEPT !.step = "consumed"])
       ELSE Done(q) /\ UNCHANGED challenge
    /\ UNCHANGED <<account, roles, session, retired, access, used, allowed, openedBy>>

\* EnsureUser, and the caller's look at the status.
EnsureUser(q) ==
    LET u == req[q].user IN
    /\ At(q, "consumed")
    /\ IF account[u] = "none"
       THEN /\ account' = [account EXCEPT ![u] = "ACTIVE"]
            /\ roles' = [roles EXCEPT ![u] = {InitialRole}]
       ELSE UNCHANGED <<account, roles>>
    /\ IF account'[u] = "ACTIVE"
       THEN Goto(q, [req[q] EXCEPT !.step = "admitted", !.roles = roles'[u],
                                   !.seen = roles'[u] \cup {"active"}])
       ELSE Done(q)
    /\ UNCHANGED <<challenge, session, retired, access, used, allowed, openedBy>>

\* openSession: the row with a fresh token, and an access token with the roles
\* EnsureUser read.
OpenSession(q) ==
    LET s == LeastOf(UnusedIds) IN
    /\ At(q, "admitted") /\ UnusedIds # {} /\ UnusedTokens # {}
    /\ session' = CreateSession(s, req[q].user)
    /\ Issue(s, req[q].roles)
    /\ openedBy' = [openedBy EXCEPT ![s] = req[q].code]
    /\ Done(q)
    /\ UNCHANGED <<challenge, account, roles, retired, used, allowed>>

-----------------------------------------------------------------------------
(* Refresh *)

\* SessionByRefreshHash and Session.Active, for any token ever handed out.
FindSession(q, t) ==
    /\ At(q, "idle") /\ t \notin UnusedTokens
    /\ IF Holding(t) = {}
       THEN Goto(q, [Idle EXCEPT !.step = "unknown", !.token = t])
       ELSE \E s \in Holding(t) :
               /\ Active(s)
               /\ Goto(q, [Idle EXCEPT !.step = "found", !.token = t, !.session = s,
                                       !.user = session[s].user,
                                       !.seen = Standing(session[s].user)])
    /\ UNCHANGED <<challenge, account, roles, session, retired, access, used, allowed, openedBy>>

\* Mistake: the swap is by session id, not by the token presented.
RotateById(q) ==
    LET s == req[q].session t == req[q].token IN
    /\ At(q, "found") /\ UnusedTokens # {}
    /\ session' = Rotated(s)
    /\ retired' = [retired EXCEPT ![t] = s]
    /\ Goto(q, [req[q] EXCEPT !.step = "rotated", !.token = None])
    /\ UNCHANGED <<challenge, account, roles, access, used, allowed, openedBy>>

\* RotateRefreshToken: the swap and the row of the superseded hash in one
\* transaction, if the token is still the one that was presented.
RotateRefreshToken(q) ==
    LET s == req[q].session t == req[q].token IN
    /\ At(q, "found") /\ UnusedTokens # {}
    /\ IF session[s].token = t /\ ~Revoked(s)
       THEN /\ session' = Rotated(s)
            /\ retired' = [retired EXCEPT ![t] = s]
            /\ Goto(q, [req[q] EXCEPT !.step = "rotated", !.token = None])
       ELSE /\ Goto(q, [Idle EXCEPT !.step = "clash", !.user = req[q].user])
            /\ UNCHANGED <<session, retired>>
    /\ UNCHANGED <<challenge, account, roles, access, used, allowed, openedBy>>

\* detectReuse: RetiredToken, then RevokeUserSessions.
RecogniseReuse(q) ==
    /\ At(q, "unknown")
    /\ Goto(q, [Idle EXCEPT !.step = "clash",
                            !.user = session[retired[req[q].token]].user])
    /\ UNCHANGED <<challenge, account, roles, session, retired, access, used, allowed, openedBy>>

EndAfterClash(q) ==
    /\ At(q, "clash")
    /\ session' = RevokeUserSessions(req[q].user) /\ Done(q)
    /\ UNCHANGED <<challenge, account, roles, retired, access, used, allowed, openedBy>>

\* Mistake: the roles of an earlier access token are carried forward.
CarryRoles(q) ==
    LET u == req[q].user IN
    /\ At(q, "rotated") /\ CanAuthenticate(u)
    /\ \E a \in access : Issue(req[q].session, a.roles)
    /\ Done(q)
    /\ UNCHANGED <<challenge, account, roles, session, retired, used, allowed, openedBy>>

\* UserByID with the roles as they are now, and Issue.
IssueAccess(q) ==
    LET u == req[q].user IN
    /\ At(q, "rotated")
    /\ IF CanAuthenticate(u)
       THEN /\ Issue(req[q].session, roles[u])
            /\ Done(q)
       ELSE /\ Goto(q, [Idle EXCEPT !.step = "barred", !.session = req[q].session])
            /\ UNCHANGED access
    /\ UNCHANGED <<challenge, account, roles, session, retired, used, allowed, openedBy>>

\* The account is not active: the session ends.
EndBarred(q) ==
    /\ At(q, "barred")
    /\ session' = RevokeSession(req[q].session)
    /\ Done(q)
    /\ UNCHANGED <<challenge, account, roles, retired, access, used, allowed, openedBy>>

\* A statement fails, the caller hangs up, the process dies.
Fail(q) ==
    /\ ~At(q, "idle") /\ Done(q)
    /\ UNCHANGED <<challenge, account, roles, session, retired, access, used, allowed, openedBy>>

-----------------------------------------------------------------------------
(* Logout, roles, accounts, time *)

Logout(s) ==
    /\ Authenticated(s)
    /\ session' = RevokeSession(s)
    /\ UNCHANGED <<challenge, account, roles, retired, access, req, used, allowed, openedBy>>

LogoutAll(u) ==
    /\ \E s \in Sessions : session[s].user = u /\ Authenticated(s)
    /\ session' = RevokeUserSessions(u)
    /\ UNCHANGED <<challenge, account, roles, retired, access, req, used, allowed, openedBy>>

\* (history) the requests that looked u up have now seen this too.
Witness(u, now) ==
    req' = [q \in Requests |-> IF req[q].user = u /\ req[q].step \in {"admitted", "found", "rotated"}
                               THEN [req[q] EXCEPT !.seen = @ \cup now] ELSE req[q]]

GrantRole(u, r) ==
    /\ account[u] # "none" /\ r \notin roles[u]
    /\ roles' = [roles EXCEPT ![u] = @ \cup {r}] /\ Witness(u, {r})
    /\ UNCHANGED <<challenge, account, session, retired, access, used, allowed, openedBy>>

RevokeRole(u, r) ==
    /\ r \in roles[u]
    /\ roles' = [roles EXCEPT ![u] = @ \ {r}] /\ UNCHANGED req
    /\ UNCHANGED <<challenge, account, session, retired, access, used, allowed, openedBy>>

\* Operations suspend and reinstate an account in the database.
SetStatus(u, st) ==
    /\ account[u] \notin {"none", st}
    /\ account' = [account EXCEPT ![u] = st]
    /\ Witness(u, IF st = "ACTIVE" THEN {"active"} ELSE {})
    /\ UNCHANGED <<challenge, roles, session, retired, access, used, allowed, openedBy>>

AccessExpires(a) ==
    /\ access' = access \ {a}
    /\ UNCHANGED <<challenge, account, roles, session, retired, req, used, allowed, openedBy>>

SessionExpires(s) ==
    /\ session[s].user # None /\ Active(s)
    /\ session' = [session EXCEPT ![s].life = "expired"]
    /\ UNCHANGED <<challenge, account, roles, retired, access, req, used, allowed, openedBy>>

-----------------------------------------------------------------------------
Next ==
    \/ \E q \in Requests :
          \/ \E u \in Users : CountRequest(q, u) \/ CheckCode(q, u)
          \/ \E t \in Tokens : FindSession(q, t)
          \/ CreateChallenge(q) \/ WrongCode(q) \/ RightCode(q) \/ EnsureUser(q)
          \/ OpenSession(q) \/ RotateRefreshToken(q) \/ RecogniseReuse(q)
          \/ EndAfterClash(q) \/ IssueAccess(q) \/ EndBarred(q) \/ Fail(q)
    \/ \E c \in Challenges : CodeLapses(c)
    \/ WindowRolls
    \/ \E s \in Sessions : Logout(s) \/ SessionExpires(s)
    \/ \E u \in Users : \/ LogoutAll(u)
                        \/ \E r \in Roles : GrantRole(u, r) \/ RevokeRole(u, r)
                        \/ \E st \in {"ACTIVE", "SUSPENDED"} : SetStatus(u, st)
    \/ \E a \in access : AccessExpires(a)

Spec == Init /\ [][Next]_vars

-----------------------------------------------------------------------------
(* Properties *)

\* Guesses that read the same attempt count all go through, so the limit of a
\* code is exceeded, but by no more than the requests in flight beside the first.
AttemptsBounded ==
    \A c \in Challenges :
        challenge[c].attempts < MaxAttempts + Cardinality(Requests)

\* A code opens at most one session, its own user's, and never after a newer
\* code superseded it (ConsumeChallenge: "must produce one login, not two").
LoginsMatchCodes ==
    \A s \in Sessions : session[s].user # None =>
        /\ challenge[openedBy[s]].state = "used"
        /\ challenge[openedBy[s]].user = session[s].user
        /\ \A z \in Sessions \ {s} : openedBy[z] # openedBy[s]

\* No more codes are created for a number than the limit allows in the windows
\* so far, but for those requested while the limiter was down.
CodesAreRationed ==
    \A u \in Users :
        Cardinality({c \in Challenges : challenge[c].user = u})
            <= allowed[u]

\* However requests race, fail and wait on a limiter that comes and goes, a code
\* is guessed at, and created, only so often, and lets its own user in once.
CodesAreScarce == AttemptsBounded /\ LoginsMatchCodes /\ CodesAreRationed

\* A new access token carries only roles the user held, and is made only for an
\* account that was active, at some moment since the request looked them up
\* ("a revoked role stops working at the next refresh").
AccessIsCurrent ==
    [][\A a \in access' \ access :
          \E q \in Requests : /\ req[q].user = session'[a.session].user
                              /\ a.roles \cup {"active"} \subseteq req[q].seen]_vars

\* Every refresh token is exchanged at most once, and never after its session
\* was ended, however requests interleave.
Life == [t \in Tokens |->
           IF \E s \in Holding(t) : Revoked(s) THEN "ended"
           ELSE IF Holding(t) # {} THEN "current"
           ELSE IF retired[t] # None THEN "exchanged" ELSE "unused"]

Chain == INSTANCE TokenChain WITH life <- Life
ChainSpec == Chain!Spec
=============================================================================
