---------------------------- MODULE IdentityProofs ----------------------------
(***************************************************************************)
(* What codes, access tokens and refresh tokens promise, for any number of  *)
(* users, roles and requests and any limits.                                *)
(***************************************************************************)
EXTENDS Identity, FiniteSetTheorems, TLAPS

-----------------------------------------------------------------------------
(* The inductive invariant *)

\* Rows are used from the moment they have a user; no two sessions have the same
\* refresh token, and a token that was exchanged is no session's.
RowsAgree ==
    /\ \A c \in Challenges : challenge[c].state = "none" <=> challenge[c].user = None
    /\ \A s \in Sessions :
          /\ session[s].user = None <=> session[s].token = None
          /\ session[s].user = None <=> openedBy[s] = None
          /\ session[s].user # None => account[session[s].user] # "none"
    /\ \A s, z \in Sessions :
          session[s].token = session[z].token /\ session[s].token # None => s = z
    /\ \A t \in Tokens : retired[t] # None =>
          Holding(t) = {} /\ session[retired[t]].user # None

\* What a request carries are rows, and they are its user's.
RequestKnows(q) ==
    /\ req[q].step \in {"counted", "checked", "consumed", "admitted", "found", "clash", "rotated"} =>
          req[q].user \in Users
    /\ req[q].step \in {"checked", "consumed", "admitted"} =>
          req[q].code \in Challenges /\ challenge[req[q].code].user = req[q].user
    /\ req[q].step = "admitted" => account[req[q].user] # "none"
    /\ req[q].step \in {"found", "rotated"} =>
          /\ req[q].session \in Sessions
          /\ session[req[q].session].user = req[q].user
          /\ account[req[q].user] # "none"
    /\ req[q].step \in {"found", "unknown"} => req[q].token \in Tokens
    /\ req[q].step = "unknown" => retired[req[q].token] # None
    /\ req[q].step = "barred" => req[q].session \in Sessions

RequestsKnow == \A q \in Requests : RequestKnows(q)

\* A code that a login has consumed and is yet to open a session with is that
\* login's alone.
Consumed(q) == req[q].step \in {"consumed", "admitted"}

ConsumedOnce ==
    /\ \A q \in Requests : Consumed(q) =>
          /\ challenge[req[q].code].state = "used"
          /\ \A s \in Sessions : openedBy[s] # req[q].code
    /\ \A q, e \in Requests : Consumed(q) /\ Consumed(e) /\ req[q].code = req[e].code => q = e

\* Whoever may still make an access token has seen all that is true of its user.
SeenIsCurrent ==
    \A q \in Requests :
        /\ req[q].step \in {"found", "rotated"} => Standing(req[q].user) \subseteq req[q].seen
        /\ req[q].step = "admitted" => req[q].roles \cup {"active"} \subseteq req[q].seen

\* A guess that is being compared counts before it is written, and so does a
\* code that was allowed and is yet to be created.
Guessing(c) == {q \in Requests : At(q, "checked") /\ req[q].code = c}
Asking(u)   == {q \in Requests : At(q, "counted") /\ req[q].user = u}
Codes(u)    == {c \in Challenges : challenge[c].user = u}
Admitted(u) == IF used[u] > OTPLimit THEN OTPLimit ELSE used[u]

GuessesCount ==
    \A c \in Challenges :
        challenge[c].attempts + Cardinality(Guessing(c)) < MaxAttempts + Cardinality(Requests)
CodesCount ==
    \A u \in Users :
        Cardinality(Codes(u)) + Cardinality(Asking(u)) + OTPLimit <= allowed[u] + Admitted(u)

Known == TypeOK /\ RowsAgree /\ RequestsKnow
IInv  == Known /\ ConsumedOnce /\ LoginsMatchCodes /\ SeenIsCurrent /\ GuessesCount /\ CodesCount

-----------------------------------------------------------------------------
(* Lemmas on rows and requests *)

\* Ids are given in order: there is a least one.
LEMMA LeastExists ==
    ASSUME NEW S \in SUBSET Nat, S # {}
    PROVE  LeastOf(S) \in S
  <1>. DEFINE R == {ss \in Nat \X Nat : ss[1] < ss[2]}
  <1>1. IsWellFoundedOn(R, Nat)
    BY NatLessThanWellFounded DEF OpToRel
  <1>2. PICK x \in S : \A y \in S : ~(<<y, x>> \in R)
    BY <1>1, WFMin
  <1>3. ASSUME NEW y \in S PROVE x <= y
    <2>1. ~(<<y, x>> \in R) /\ x \in Nat /\ y \in Nat
      BY <1>2
    <2>2. ~(y < x)
      BY <2>1
    <2>. QED BY <2>1, <2>2
  <1>. QED BY <1>3 DEF LeastOf

LEMMA Ids ==
    /\ Challenges \subseteq Nat /\ Sessions \subseteq Nat /\ Tokens \subseteq Nat
    /\ None \notin Challenges /\ None \notin Sessions /\ None \notin Tokens /\ None \notin Users
  BY IdentityAssumption DEF Challenges, Sessions, Tokens, None

LEMMA NewIds ==
    /\ UnusedCodes # {} => LeastOf(UnusedCodes) \in UnusedCodes
    /\ UnusedIds # {} => LeastOf(UnusedIds) \in UnusedIds
    /\ UnusedTokens # {} => LeastOf(UnusedTokens) \in UnusedTokens
  <1>1. /\ UnusedCodes \in SUBSET Nat /\ UnusedIds \in SUBSET Nat
        /\ UnusedTokens \in SUBSET Nat
    BY Ids DEF UnusedCodes, UnusedIds, UnusedTokens
  <1>. QED BY <1>1, LeastExists

ChallengeRows == [user : Users \cup {None},
                  state : {"none", "live", "stale", "superseded", "used"}, attempts : Nat]
SessionRows == [user : Users \cup {None}, token : Tokens \cup {None},
                life : {"open", "expired", "revoked"}]
RequestStates == [step : Steps, user : Users \cup {None}, code : Challenges \cup {None},
                  session : Sessions \cup {None}, token : Tokens \cup {None},
                  roles : SUBSET Roles, seen : SUBSET (Roles \cup {"active"})]

LEMMA RequestType ==
    ASSUME TypeOK, NEW q \in Requests
    PROVE  req[q] \in RequestStates /\ Idle \in RequestStates /\ Idle.step = "idle"
  BY DEF TypeOK, RequestStates, Idle, Steps

LEMMA GotoType ==
    ASSUME TypeOK, NEW q \in Requests, NEW r \in RequestStates, Goto(q, r)
    PROVE  /\ req' \in [Requests -> RequestStates]
           /\ req'[q] = r
           /\ \A e \in Requests : e # q => req'[e] = req[e]
  BY DEF TypeOK, Goto, RequestStates

\* No step takes a row from its user.
Kept ==
    /\ \A c \in Challenges : challenge[c].user # None => challenge'[c].user = challenge[c].user
    /\ \A s \in Sessions : session[s].user # None => session'[s].user = session[s].user
    /\ \A t \in Tokens : retired[t] # None => retired'[t] # None
    /\ \A u \in Users : account[u] # "none" => account'[u] # "none"

RowVars == <<challenge, account, session, retired, openedBy>>

LEMMA RowsFrame ==
    ASSUME RowsAgree, UNCHANGED RowVars
    PROVE  RowsAgree' /\ Kept
  BY DEF RowsAgree, Kept, RowVars, Holding

\* What a request that stays where it is carries.
LEMMA RequestFrame ==
    ASSUME TypeOK, Kept, NEW q \in Requests, RequestKnows(q),
           req'[q].step = req[q].step, req'[q].user = req[q].user, req'[q].code = req[q].code,
           req'[q].session = req[q].session, req'[q].token = req[q].token
    PROVE  RequestKnows(q)'
  <1>. USE Ids
  <1>1. req[q].step \in {"checked", "consumed", "admitted"} =>
            challenge'[req[q].code].user = req[q].user
    BY DEF RequestKnows, Kept
  <1>2. req[q].step \in {"found", "rotated"} => session'[req[q].session].user = req[q].user
    BY DEF RequestKnows, Kept
  <1>3. req[q].step \in {"admitted", "found", "rotated"} => account'[req[q].user] # "none"
    BY DEF RequestKnows, Kept
  <1>4. req[q].step = "unknown" => retired'[req[q].token] # None
    BY DEF RequestKnows, Kept
  <1>. QED BY <1>1, <1>2, <1>3, <1>4 DEF RequestKnows

\* A step of q that keeps the rows' users and leaves q knowing what it carries.
LEMMA RequestsFrame ==
    ASSUME Known, Kept, NEW q \in Requests, RequestKnows(q)',
           \A e \in Requests : e # q => req'[e] = req[e]
    PROVE  RequestsKnow'
  BY RequestFrame DEF Known, RequestsKnow

LEMMA IdleKnows ==
    ASSUME NEW q \in Requests, req'[q].step = "idle"
    PROVE  RequestKnows(q)'
  BY DEF RequestKnows

-----------------------------------------------------------------------------
(* What is typed stays typed, rows agree and requests know what they carry *)

\* Steps of a request that change no rows.
LEMMA QuietStep ==
    ASSUME Known, NEW q \in Requests, NEW r \in RequestStates, Goto(q, r),
           UNCHANGED <<challenge, account, session, retired, openedBy, roles>>,
           access' \subseteq [session : Sessions, roles : SUBSET Roles],
           used' \in [Users -> Nat], allowed' \in [Users -> Nat],
           RequestKnows(q)'
    PROVE  Known' /\ Kept
  <1>1. RowsAgree' /\ Kept
    BY RowsFrame DEF Known, RowVars
  <1>2. TypeOK'
    BY GotoType DEF Known, TypeOK, RequestStates
  <1>3. RequestsKnow'
    BY <1>1, GotoType, RequestsFrame DEF Known
  <1>. QED BY <1>1, <1>2, <1>3 DEF Known

\* A request that is given up or answered.
LEMMA DoneKnows ==
    ASSUME Known, NEW q \in Requests, Done(q)
    PROVE  Goto(q, Idle) /\ Idle \in RequestStates /\ RequestKnows(q)'
  <1>1. Goto(q, Idle) /\ Idle \in RequestStates /\ req'[q] = Idle
    BY RequestType, GotoType DEF Known, Done
  <1>. QED BY <1>1, IdleKnows, RequestType DEF Known

LEMMA CountRequestStep ==
    ASSUME Known, NEW q \in Requests, NEW u \in Users, CountRequest(q, u)
    PROVE  Known' /\ Kept
  <1>. DEFINE r == [Idle EXCEPT !.step = "counted", !.user = u]
  <1>1. r \in RequestStates /\ r.step = "counted" /\ r.user = u /\ Goto(q, r)
    BY DEF RequestStates, Idle, Steps, CountRequest
  <1>2. RequestKnows(q)'
    BY <1>1, GotoType DEF RequestKnows, Known
  <1>3. used' \in [Users -> Nat]
    BY DEF CountRequest, Counted, Known, TypeOK
  <1>4. allowed' \in [Users -> Nat]
    BY DEF CountRequest, Known, TypeOK
  <1>. QED BY <1>1, <1>2, <1>3, <1>4, QuietStep DEF CountRequest, Known, TypeOK

LEMMA CheckCodeStep ==
    ASSUME Known, NEW q \in Requests, NEW u \in Users, CheckCode(q, u)
    PROVE  Known' /\ Kept
  <1>1. PICK c \in LiveChallenge(u) :
            Usable(c) /\ Goto(q, [Idle EXCEPT !.step = "checked", !.user = u, !.code = c])
    BY DEF CheckCode
  <1>. DEFINE r == [Idle EXCEPT !.step = "checked", !.user = u, !.code = c]
  <1>2. c \in Challenges /\ challenge[c].user = u
    BY DEF LiveChallenge
  <1>3. r \in RequestStates /\ r.step = "checked" /\ r.user = u /\ r.code = c
    BY <1>2 DEF RequestStates, Idle, Steps
  <1>4. UNCHANGED <<challenge, account, session, retired, openedBy, roles, access, used, allowed>>
    BY DEF CheckCode
  <1>5. RequestKnows(q)'
    BY <1>1, <1>2, <1>3, <1>4, GotoType DEF RequestKnows, Known
  <1>. QED BY <1>1, <1>3, <1>4, <1>5, QuietStep DEF Known, TypeOK

LEMMA FindSessionStep ==
    ASSUME Known, NEW q \in Requests, NEW t \in Tokens, FindSession(q, t)
    PROVE  Known' /\ Kept
  <1>1. UNCHANGED <<challenge, account, session, retired, openedBy, roles, access, used, allowed>>
    BY DEF FindSession
  <1>2. CASE Holding(t) = {} /\ Goto(q, [Idle EXCEPT !.step = "unknown", !.token = t])
    <2>. DEFINE r == [Idle EXCEPT !.step = "unknown", !.token = t]
    <2>1. r \in RequestStates /\ r.step = "unknown" /\ r.token = t
      BY DEF RequestStates, Idle, Steps
    <2>2. retired[t] # None
      BY <1>2 DEF FindSession, UnusedTokens
    <2>3. RequestKnows(q)'
      BY <1>1, <1>2, <2>1, <2>2, GotoType DEF RequestKnows, Known
    <2>. QED BY <1>1, <1>2, <2>1, <2>3, QuietStep DEF Known, TypeOK
  <1>3. ASSUME NEW s \in Holding(t),
               Goto(q, [Idle EXCEPT !.step = "found", !.token = t, !.session = s,
                                    !.user = session[s].user,
                                    !.seen = Standing(session[s].user)])
        PROVE  Known' /\ Kept
    <2>. DEFINE r == [Idle EXCEPT !.step = "found", !.token = t, !.session = s,
                                  !.user = session[s].user, !.seen = Standing(session[s].user)]
    <2>1. s \in Sessions /\ session[s].token = t
      BY <1>3 DEF Holding
    <2>2. session[s].user \in Users /\ account[session[s].user] # "none"
      BY <2>1, Ids DEF Known, RowsAgree, TypeOK
    <2>3. Standing(session[s].user) \subseteq Roles \cup {"active"}
      BY <2>2 DEF Standing, Known, TypeOK
    <2>4. /\ r \in RequestStates /\ r.step = "found" /\ r.token = t /\ r.session = s
          /\ r.user = session[s].user
      BY <2>1, <2>2, <2>3 DEF RequestStates, Idle, Steps
    <2>5. RequestKnows(q)'
      BY <1>1, <1>3, <2>1, <2>2, <2>4, GotoType DEF RequestKnows, Known
    <2>. QED BY <1>1, <1>3, <2>4, <2>5, QuietStep DEF Known, TypeOK
  <1>. QED BY <1>2, <1>3 DEF FindSession

LEMMA RecogniseReuseStep ==
    ASSUME Known, NEW q \in Requests, RecogniseReuse(q)
    PROVE  Known' /\ Kept
  <1>. DEFINE u == session[retired[req[q].token]].user
              r == [Idle EXCEPT !.step = "clash", !.user = u]
  <1>1. req[q].token \in Tokens /\ retired[req[q].token] # None
    BY DEF RecogniseReuse, At, Known, RequestsKnow, RequestKnows
  <1>2. retired[req[q].token] \in Sessions
    BY <1>1 DEF Known, TypeOK
  <1>3. u \in Users
    BY <1>1, <1>2, Ids DEF Known, RowsAgree, TypeOK
  <1>4. r \in RequestStates /\ r.step = "clash" /\ r.user = u
    BY <1>3 DEF RequestStates, Idle, Steps
  <1>5. Goto(q, r) /\ UNCHANGED <<challenge, account, session, retired, openedBy, roles, access, used, allowed>>
    BY DEF RecogniseReuse
  <1>6. RequestKnows(q)'
    BY <1>3, <1>4, <1>5, GotoType DEF RequestKnows, Known
  <1>. QED BY <1>4, <1>5, <1>6, QuietStep DEF Known, TypeOK

LEMMA IssueAccessStep ==
    ASSUME Known, NEW q \in Requests, IssueAccess(q)
    PROVE  Known' /\ Kept
  <1>1. /\ req[q].user \in Users /\ req[q].session \in Sessions
    BY DEF IssueAccess, At, Known, RequestsKnow, RequestKnows
  <1>2. UNCHANGED <<challenge, account, session, retired, openedBy, roles, used, allowed>>
    BY DEF IssueAccess
  <1>3. CASE Issue(req[q].session, roles[req[q].user]) /\ Done(q)
    <2>1. access' \subseteq [session : Sessions, roles : SUBSET Roles]
      BY <1>1, <1>3 DEF Issue, Known, TypeOK
    <2>. QED BY <1>2, <1>3, <2>1, DoneKnows, QuietStep DEF Known, TypeOK
  <1>4. CASE /\ Goto(q, [Idle EXCEPT !.step = "barred", !.session = req[q].session])
             /\ UNCHANGED access
    <2>. DEFINE r == [Idle EXCEPT !.step = "barred", !.session = req[q].session]
    <2>1. r \in RequestStates /\ r.step = "barred" /\ r.session = req[q].session
      BY <1>1 DEF RequestStates, Idle, Steps
    <2>2. RequestKnows(q)'
      BY <1>1, <1>4, <2>1, GotoType DEF RequestKnows, Known
    <2>. QED BY <1>2, <1>4, <2>1, <2>2, QuietStep DEF Known, TypeOK
  <1>. QED BY <1>3, <1>4 DEF IssueAccess

LEMMA FailStep ==
    ASSUME Known, NEW q \in Requests, Fail(q)
    PROVE  Known' /\ Kept
  BY DoneKnows, QuietStep DEF Fail, Known, TypeOK

\* A new code supersedes the outstanding ones of its user.
LEMMA SupersedingRows ==
    ASSUME TypeOK, NEW u \in Users, UnusedCodes # {}, challenge' = Superseding(u)
    PROVE  /\ challenge' \in [Challenges -> ChallengeRows]
           /\ LeastOf(UnusedCodes) \in Challenges
           /\ challenge[LeastOf(UnusedCodes)].state = "none"
           /\ challenge'[LeastOf(UnusedCodes)] = [user |-> u, state |-> "live", attempts |-> 0]
           /\ \A c \in Challenges \ {LeastOf(UnusedCodes)} :
                 /\ challenge'[c].user = challenge[c].user
                 /\ challenge'[c].attempts = challenge[c].attempts
                 /\ \/ challenge'[c].state = challenge[c].state
                    \/ challenge[c].state \in {"live", "stale"} /\ challenge'[c].state = "superseded"
  <1>. DEFINE new == LeastOf(UnusedCodes)
  <1>1. new \in Challenges /\ challenge[new].state = "none"
    BY NewIds DEF UnusedCodes
  <1>2. challenge'[new] = [user |-> u, state |-> "live", attempts |-> 0]
    <2>1. new \notin LiveChallenge(u)
      BY <1>1 DEF LiveChallenge, Unconsumed
    <2>. QED BY <1>1, <2>1 DEF Superseding
  <1>3. ASSUME NEW c \in Challenges, c # new
        PROVE  /\ challenge'[c] \in ChallengeRows
               /\ challenge'[c].user = challenge[c].user
               /\ challenge'[c].attempts = challenge[c].attempts
               /\ \/ challenge'[c].state = challenge[c].state
                  \/ challenge[c].state \in {"live", "stale"} /\ challenge'[c].state = "superseded"
    <2>1. challenge[c] \in ChallengeRows
      BY DEF TypeOK, ChallengeRows
    <2>2. CASE c \in LiveChallenge(u)
      <3>1. challenge'[c] = [challenge[c] EXCEPT !.state = "superseded"]
        BY <1>3, <2>2 DEF Superseding
      <3>. QED BY <2>1, <2>2, <3>1 DEF ChallengeRows, LiveChallenge, Unconsumed
    <2>3. CASE c \notin LiveChallenge(u)
      <3>1. challenge'[c] = challenge[c]
        BY <1>3, <2>3 DEF Superseding
      <3>. QED BY <2>1, <3>1
    <2>. QED BY <2>2, <2>3
  <1>4. challenge' \in [Challenges -> ChallengeRows]
    <2>1. \A c \in Challenges : challenge'[c] \in ChallengeRows
      BY <1>1, <1>2, <1>3 DEF ChallengeRows
    <2>2. challenge' = [c \in Challenges |-> challenge'[c]]
      BY DEF Superseding
    <2>. QED BY <2>1, <2>2
  <1>. QED BY <1>1, <1>2, <1>3, <1>4

\* Codes change state, not hands.
LEMMA CodeStep ==
    ASSUME Known, UNCHANGED <<account, session, retired, openedBy, roles, access, used, allowed>>,
           challenge' \in [Challenges -> ChallengeRows],
           \A c \in Challenges : /\ challenge[c].user # None => challenge'[c].user = challenge[c].user
                                 /\ challenge'[c].state = "none" <=> challenge'[c].user = None,
           req' \in [Requests -> RequestStates]
    PROVE  RowsAgree' /\ Kept /\ TypeOK'
  <1>1. RowsAgree' /\ Kept
    <2>1. \A t \in Tokens : Holding(t)' = Holding(t)
      BY DEF Holding
    <2>2. Kept
      BY DEF Kept
    <2>. QED BY <2>1, <2>2 DEF Known, RowsAgree
  <1>2. TypeOK'
    BY DEF Known, TypeOK, ChallengeRows, RequestStates
  <1>. QED BY <1>1, <1>2

LEMMA CreateChallengeStep ==
    ASSUME Known, NEW q \in Requests, CreateChallenge(q)
    PROVE  Known' /\ Kept
  <1>1. /\ req[q].user \in Users /\ UnusedCodes # {} /\ challenge' = Superseding(req[q].user)
        /\ UNCHANGED <<account, session, retired, openedBy, roles, access, used, allowed>>
        /\ Done(q)
    BY DEF CreateChallenge, At, Known, RequestsKnow, RequestKnows
  <1>2. /\ challenge' \in [Challenges -> ChallengeRows]
        /\ \A c \in Challenges : /\ challenge[c].user # None => challenge'[c].user = challenge[c].user
                                 /\ challenge'[c].state = "none" <=> challenge'[c].user = None
    <2>. DEFINE new == LeastOf(UnusedCodes)
    <2>1. /\ challenge' \in [Challenges -> ChallengeRows]
          /\ new \in Challenges /\ challenge[new].user = None
          /\ challenge'[new] = [user |-> req[q].user, state |-> "live", attempts |-> 0]
      BY <1>1, SupersedingRows DEF Known, RowsAgree
    <2>2. ASSUME NEW c \in Challenges \ {new}
          PROVE  /\ challenge'[c].user = challenge[c].user
                 /\ challenge'[c].state = "none" <=> challenge[c].state = "none"
      <3>1. /\ challenge'[c].user = challenge[c].user
            /\ \/ challenge'[c].state = challenge[c].state
               \/ challenge[c].state \in {"live", "stale"} /\ challenge'[c].state = "superseded"
        BY <1>1, SupersedingRows DEF Known
      <3>. QED BY <3>1
    <2>3. req[q].user # None
      BY <1>1, Ids
    <2>. QED BY <2>1, <2>2, <2>3 DEF Known, RowsAgree
  <1>3. Goto(q, Idle) /\ Idle \in RequestStates /\ RequestKnows(q)'
    BY <1>1, DoneKnows
  <1>4. req' \in [Requests -> RequestStates]
    BY <1>3, GotoType DEF Known
  <1>5. RowsAgree' /\ Kept /\ TypeOK'
    BY <1>1, <1>2, <1>4, CodeStep
  <1>6. RequestsKnow'
    BY <1>3, <1>5, GotoType, RequestsFrame DEF Known
  <1>. QED BY <1>5, <1>6 DEF Known

LEMMA CodeLapsesStep ==
    ASSUME Known, NEW c \in Challenges, CodeLapses(c)
    PROVE  Known' /\ Kept
  <1>1. /\ challenge[c].state = "live" /\ challenge' = [challenge EXCEPT ![c].state = "stale"]
        /\ UNCHANGED <<account, roles, session, retired, access, req, used, allowed, openedBy>>
    BY DEF CodeLapses
  <1>2. challenge' \in [Challenges -> ChallengeRows]
    <2>1. challenge \in [Challenges -> ChallengeRows]
      BY DEF Known, TypeOK, ChallengeRows
    <2>2. \A x \in ChallengeRows : /\ [x EXCEPT !.state = "stale"] \in ChallengeRows
                                   /\ [x EXCEPT !.attempts = @ + 1] \in ChallengeRows
      BY DEF ChallengeRows
    <2>. QED BY <1>1, <2>1, <2>2
  <1>3. \A d \in Challenges : /\ challenge'[d].user = challenge[d].user
                              /\ challenge'[d].state = "none" <=> challenge[d].state = "none"
    BY <1>1 DEF Known, TypeOK
  <1>4. req' \in [Requests -> RequestStates]
    BY <1>1 DEF Known, TypeOK, RequestStates
  <1>5. RowsAgree' /\ Kept /\ TypeOK'
    BY <1>1, <1>2, <1>3, <1>4, CodeStep DEF Known, RowsAgree
  <1>6. RequestsKnow'
    BY <1>1, <1>5, RequestFrame DEF Known, RequestsKnow
  <1>. QED BY <1>5, <1>6 DEF Known

LEMMA WrongCodeStep ==
    ASSUME Known, NEW q \in Requests, WrongCode(q)
    PROVE  Known' /\ Kept
  <1>. DEFINE c == req[q].code
  <1>1. /\ c \in Challenges /\ challenge' = [challenge EXCEPT ![c].attempts = @ + 1] /\ Done(q)
        /\ UNCHANGED <<account, roles, session, retired, access, used, allowed, openedBy>>
    BY DEF WrongCode, WithFailedAttempt, At, Known, RequestsKnow, RequestKnows
  <1>2. challenge' \in [Challenges -> ChallengeRows]
    <2>1. challenge \in [Challenges -> ChallengeRows]
      BY DEF Known, TypeOK, ChallengeRows
    <2>2. \A x \in ChallengeRows : /\ [x EXCEPT !.state = "stale"] \in ChallengeRows
                                   /\ [x EXCEPT !.attempts = @ + 1] \in ChallengeRows
      BY DEF ChallengeRows
    <2>. QED BY <1>1, <2>1, <2>2
  <1>3. \A d \in Challenges : /\ challenge'[d].user = challenge[d].user
                              /\ challenge'[d].state = challenge[d].state
    BY <1>1 DEF Known, TypeOK
  <1>4. Goto(q, Idle) /\ Idle \in RequestStates /\ RequestKnows(q)'
    BY <1>1, DoneKnows
  <1>5. RowsAgree' /\ Kept /\ TypeOK'
    BY <1>1, <1>2, <1>3, <1>4, GotoType, CodeStep DEF Known, RowsAgree
  <1>6. RequestsKnow'
    BY <1>4, <1>5, GotoType, RequestsFrame DEF Known
  <1>. QED BY <1>5, <1>6 DEF Known

LEMMA RightCodeStep ==
    ASSUME Known, NEW q \in Requests, RightCode(q)
    PROVE  Known' /\ Kept
  <1>. DEFINE c == req[q].code
              r == [req[q] EXCEPT !.step = "consumed"]
  <1>1. /\ c \in Challenges /\ req[q].user \in Users /\ challenge[c].user = req[q].user
        /\ UNCHANGED <<account, roles, session, retired, access, used, allowed, openedBy>>
    BY DEF RightCode, At, Known, RequestsKnow, RequestKnows
  <1>2. CASE /\ Unconsumed(c) /\ challenge' = [challenge EXCEPT ![c].state = "used"] /\ Goto(q, r)
    <2>1. challenge' \in [Challenges -> ChallengeRows]
      BY <1>1, <1>2 DEF Known, TypeOK, ChallengeRows
    <2>2. \A d \in Challenges : /\ challenge'[d].user = challenge[d].user
                                /\ challenge'[d].state = "none" <=> challenge[d].state = "none"
      BY <1>1, <1>2 DEF Known, TypeOK, Unconsumed
    <2>3. req[q] \in RequestStates
      BY RequestType DEF Known
    <2>4. r \in RequestStates /\ r.step = "consumed" /\ r.user = req[q].user /\ r.code = c
      BY <2>3 DEF RequestStates, Steps
    <2>5. RowsAgree' /\ Kept /\ TypeOK'
      BY <1>1, <1>2, <2>1, <2>2, <2>4, GotoType, CodeStep DEF Known, RowsAgree
    <2>6. RequestKnows(q)'
      <3>1. challenge'[c].user = req[q].user
        BY <1>1, <2>2
      <3>2. /\ req'[q].step = "consumed" /\ req'[q].user = req[q].user /\ req'[q].code = c
        BY <1>2, <2>4, GotoType DEF Known
      <3>. QED BY <1>1, <3>1, <3>2 DEF RequestKnows
    <2>7. RequestsKnow'
      BY <1>2, <2>4, <2>5, <2>6, GotoType, RequestsFrame DEF Known
    <2>. QED BY <2>5, <2>7 DEF Known
  <1>3. CASE Done(q) /\ UNCHANGED challenge
    BY <1>1, <1>3, DoneKnows, QuietStep DEF Known, TypeOK
  <1>. QED BY <1>2, <1>3 DEF RightCode

LEMMA EnsureUserStep ==
    ASSUME Known, NEW q \in Requests, EnsureUser(q)
    PROVE  Known' /\ Kept
  <1>. DEFINE u == req[q].user
              r == [req[q] EXCEPT !.step = "admitted", !.roles = roles'[u],
                                  !.seen = roles'[u] \cup {"active"}]
  <1>1. /\ u \in Users /\ req[q].code \in Challenges /\ challenge[req[q].code].user = u
        /\ req[q].step = "consumed"
        /\ UNCHANGED <<challenge, session, retired, access, used, allowed, openedBy>>
    BY DEF EnsureUser, At, Known, RequestsKnow, RequestKnows
  <1>2. \/ /\ account' = [account EXCEPT ![u] = "ACTIVE"]
           /\ roles' = [roles EXCEPT ![u] = {InitialRole}]
           /\ account[u] = "none"
        \/ account' = account /\ roles' = roles
    BY DEF EnsureUser
  <1>3. /\ account' \in [Users -> {"none", "ACTIVE", "SUSPENDED"}]
        /\ roles' \in [Users -> SUBSET Roles]
    <2>1. {InitialRole} \in SUBSET Roles
      BY IdentityAssumption
    <2>2. account \in [Users -> {"none", "ACTIVE", "SUSPENDED"}] /\ roles \in [Users -> SUBSET Roles]
      BY DEF Known, TypeOK
    <2>. QED BY <1>1, <1>2, <2>1, <2>2
  <1>4. \A w \in Users : account[w] # "none" => account'[w] # "none"
    BY <1>1, <1>2 DEF Known, TypeOK
  <1>5. RowsAgree' /\ Kept
    <2>1. \A t \in Tokens : Holding(t)' = Holding(t)
      BY <1>1 DEF Holding
    <2>2. Kept
      BY <1>1, <1>4 DEF Kept
    <2>3. \A s \in Sessions : session[s].user # None => account'[session[s].user] # "none"
      BY <1>4 DEF Known, RowsAgree, TypeOK
    <2>. QED BY <1>1, <2>1, <2>2, <2>3 DEF Known, RowsAgree
  <1>6. CASE Done(q)
    <2>1. Goto(q, Idle) /\ Idle \in RequestStates /\ RequestKnows(q)'
      BY <1>6, DoneKnows
    <2>2. TypeOK'
      BY <1>1, <1>3, <2>1, GotoType DEF Known, TypeOK, RequestStates
    <2>. QED BY <1>5, <2>1, <2>2, GotoType, RequestsFrame DEF Known
  <1>7. CASE account'[u] = "ACTIVE" /\ Goto(q, r)
    <2>1. req[q] \in RequestStates
      BY RequestType DEF Known
    <2>2. roles'[u] \in SUBSET Roles
      BY <1>1, <1>3
    <2>3. /\ r \in RequestStates /\ r.step = "admitted" /\ r.user = u /\ r.code = req[q].code
      BY <2>1, <2>2 DEF RequestStates, Steps
    <2>4. /\ req' \in [Requests -> RequestStates] /\ req'[q] = r
          /\ \A e \in Requests : e # q => req'[e] = req[e]
      BY <1>7, <2>3, GotoType DEF Known
    <2>5. RequestKnows(q)'
      <3>1. /\ req'[q].step = "admitted" /\ req'[q].user = u /\ req'[q].code = req[q].code
        BY <2>3, <2>4
      <3>2. challenge'[req[q].code].user = u /\ account'[u] # "none"
        BY <1>1, <1>7
      <3>. QED BY <1>1, <3>1, <3>2 DEF RequestKnows
    <2>6. TypeOK'
      BY <1>1, <1>3, <2>4 DEF Known, TypeOK, RequestStates
    <2>. QED BY <1>5, <2>4, <2>5, <2>6, RequestsFrame DEF Known
  <1>. QED BY <1>6, <1>7 DEF EnsureUser

\* What a login makes of the rows.
LEMMA NewSession ==
    ASSUME Known, NEW q \in Requests, OpenSession(q)
    PROVE  /\ LeastOf(UnusedIds) \in Sessions /\ session[LeastOf(UnusedIds)].user = None
           /\ LeastOf(UnusedTokens) \in Tokens /\ LeastOf(UnusedTokens) \in UnusedTokens
           /\ req[q].step = "admitted" /\ req[q].user \in Users /\ req[q].code \in Challenges
           /\ challenge[req[q].code].user = req[q].user /\ account[req[q].user] # "none"
           /\ session' = [session EXCEPT ![LeastOf(UnusedIds)] =
                 [user |-> req[q].user, token |-> LeastOf(UnusedTokens), life |-> "open"]]
           /\ openedBy' = [openedBy EXCEPT ![LeastOf(UnusedIds)] = req[q].code]
           /\ access' = access \cup {[session |-> LeastOf(UnusedIds), roles |-> req[q].roles]}
           /\ Done(q) /\ UNCHANGED <<challenge, account, roles, retired, used, allowed>>
  BY NewIds DEF OpenSession, CreateSession, Issue, UnusedIds, UnusedTokens, At,
                Known, RequestsKnow, RequestKnows

LEMMA OpenSessionStep ==
    ASSUME Known, NEW q \in Requests, OpenSession(q)
    PROVE  Known' /\ Kept
  <1>. DEFINE s == LeastOf(UnusedIds)
              t == LeastOf(UnusedTokens)
              row == [user |-> req[q].user, token |-> t, life |-> "open"]
  <1>. USE NewSession, Ids
  <1>1. /\ session' \in [Sessions -> SessionRows]
        /\ session'[s] = row /\ \A z \in Sessions : z # s => session'[z] = session[z]
        /\ openedBy' \in [Sessions -> Challenges \cup {None}]
        /\ openedBy'[s] = req[q].code /\ \A z \in Sessions : z # s => openedBy'[z] = openedBy[z]
    BY DEF SessionRows, Known, TypeOK
  <1>2. access' \subseteq [session : Sessions, roles : SUBSET Roles]
    BY RequestType DEF RequestStates, Known, TypeOK
  <1>3. Goto(q, Idle) /\ Idle \in RequestStates /\ RequestKnows(q)'
    BY DoneKnows
  <1>4. TypeOK'
    BY <1>1, <1>2, <1>3, GotoType DEF Known, TypeOK, RequestStates, SessionRows
  <1>5. Kept
    BY <1>1 DEF Kept
  <1>6. \A z \in Sessions : session[z].token # t
    BY DEF UnusedTokens, Holding
  <1>7. RowsAgree'
    <2>1. \A z \in Sessions :
             /\ session'[z].user = None <=> session'[z].token = None
             /\ session'[z].user = None <=> openedBy'[z] = None
             /\ session'[z].user # None => account'[session'[z].user] # "none"
      BY <1>1 DEF Known, RowsAgree
    <2>2. \A x, z \in Sessions :
             session'[x].token = session'[z].token /\ session'[x].token # None => x = z
      BY <1>1, <1>6 DEF Known, RowsAgree
    <2>3. ASSUME NEW x \in Tokens, retired'[x] # None
          PROVE  Holding(x)' = {} /\ session'[retired'[x]].user # None
      <3>1. retired[x] # None /\ x # t
        BY <2>3 DEF UnusedTokens
      <3>2. Holding(x) = {} /\ session[retired[x]].user # None /\ retired[x] \in Sessions
        BY <3>1 DEF Known, RowsAgree, TypeOK
      <3>3. Holding(x)' = {}
        BY <1>1, <3>1, <3>2 DEF Holding
      <3>. QED BY <1>1, <3>2, <3>3
    <2>. QED BY <2>1, <2>2, <2>3 DEF Known, RowsAgree
  <1>. QED BY <1>3, <1>4, <1>5, <1>7, GotoType, RequestsFrame DEF Known

LEMMA RotateStep ==
    ASSUME Known, NEW q \in Requests, RotateRefreshToken(q)
    PROVE  Known' /\ Kept
  <1>. USE Ids
  <1>. DEFINE s == req[q].session
              t == req[q].token
              new == LeastOf(UnusedTokens)
              r == [req[q] EXCEPT !.step = "rotated", !.token = None]
              cl == [Idle EXCEPT !.step = "clash", !.user = req[q].user]
  <1>1. /\ s \in Sessions /\ t \in Tokens /\ req[q].user \in Users
        /\ session[s].user = req[q].user /\ account[req[q].user] # "none"
        /\ UNCHANGED <<challenge, account, roles, access, used, allowed, openedBy>>
        /\ new \in UnusedTokens /\ new \in Tokens
    BY NewIds DEF RotateRefreshToken, At, Known, RequestsKnow, RequestKnows, UnusedTokens
  <1>2. CASE /\ session[s].token = t /\ session' = Rotated(s)
             /\ retired' = [retired EXCEPT ![t] = s] /\ Goto(q, r)
    <2>1. req[q] \in RequestStates
      BY RequestType DEF Known
    <2>2. r \in RequestStates /\ r.step = "rotated" /\ r.user = req[q].user /\ r.session = s
      BY <2>1 DEF RequestStates, Steps
    <2>3. /\ req' \in [Requests -> RequestStates] /\ req'[q] = r
          /\ \A e \in Requests : e # q => req'[e] = req[e]
      BY <1>2, <2>2, GotoType DEF Known
    <2>4. /\ session' \in [Sessions -> SessionRows]
          /\ session'[s].user = session[s].user /\ session'[s].token = new
          /\ \A z \in Sessions : z # s => session'[z] = session[z]
      <3>1. session \in [Sessions -> SessionRows]
        BY DEF Known, TypeOK, SessionRows
      <3>2. /\ [session[s] EXCEPT !.token = new, !.life = "open"] \in SessionRows
            /\ [session[s] EXCEPT !.token = new, !.life = "open"].user = session[s].user
            /\ [session[s] EXCEPT !.token = new, !.life = "open"].token = new
        BY <1>1, <3>1 DEF SessionRows
      <3>3. session' = [session EXCEPT ![s] = [session[s] EXCEPT !.token = new, !.life = "open"]]
        BY <1>1, <1>2, <3>1 DEF Rotated, SessionRows
      <3>. QED BY <1>1, <3>1, <3>2, <3>3
    <2>5. /\ retired' \in [Tokens -> Sessions \cup {None}] /\ retired'[t] = s
          /\ \A x \in Tokens : x # t => retired'[x] = retired[x]
      BY <1>1, <1>2 DEF Known, TypeOK
    <2>6. TypeOK'
      BY <1>1, <2>3, <2>4, <2>5 DEF Known, TypeOK, RequestStates, SessionRows
    <2>7. Kept
      BY <1>1, <2>4, <2>5 DEF Kept
    <2>8. t # new /\ \A z \in Sessions : session[z].token # new
      BY <1>1, <1>2 DEF UnusedTokens, Holding
    <2>9. RowsAgree'
      <3>1. \A z \in Sessions :
               /\ session'[z].user = None <=> session'[z].token = None
               /\ session'[z].user = None <=> openedBy'[z] = None
               /\ session'[z].user # None => account'[session'[z].user] # "none"
        BY <1>1, <1>2, <2>4 DEF Known, RowsAgree
      <3>2. \A x, z \in Sessions :
               session'[x].token = session'[z].token /\ session'[x].token # None => x = z
        <4>1. ASSUME NEW x \in Sessions, NEW z \in Sessions, x # s, z # s,
                     session'[x].token = session'[z].token, session'[x].token # None
              PROVE  x = z
          <5>1. session[x].token = session[z].token /\ session[x].token # None
            <6>1. session'[x] = session[x] /\ session'[z] = session[z]
              BY <2>4, <4>1
            <6>. QED BY <4>1, <6>1
          <5>. QED BY <4>1, <5>1 DEF Known, RowsAgree
        <4>2. ASSUME NEW z \in Sessions, z # s
              PROVE  session'[z].token # session'[s].token
          BY <2>4, <2>8, <4>2
        <4>. QED BY <4>1, <4>2
      <3>3. ASSUME NEW x \in Tokens, retired'[x] # None
            PROVE  Holding(x)' = {} /\ session'[retired'[x]].user # None
        <4>1. CASE x = t
          <5>1. \A z \in Sessions : session'[z].token # t
            BY <1>1, <1>2, <2>4, <2>8 DEF Known, RowsAgree
          <5>2. Holding(x)' = {}
            BY <4>1, <5>1 DEF Holding
          <5>. QED BY <1>1, <2>4, <2>5, <4>1, <5>2
        <4>2. CASE x # t
          <5>1. retired'[x] = retired[x] /\ x # new
            BY <1>1, <2>5, <3>3, <4>2 DEF UnusedTokens
          <5>2. Holding(x) = {} /\ session[retired[x]].user # None /\ retired[x] \in Sessions
            BY <3>3, <5>1 DEF Known, RowsAgree, TypeOK
          <5>3. Holding(x)' = {}
            BY <2>4, <5>1, <5>2 DEF Holding
          <5>. QED BY <2>4, <5>1, <5>2, <5>3
        <4>. QED BY <4>1, <4>2
      <3>. QED BY <1>1, <3>1, <3>2, <3>3 DEF Known, RowsAgree
    <2>10. RequestKnows(q)'
      <3>1. req'[q].step = "rotated" /\ req'[q].user = req[q].user /\ req'[q].session = s
        BY <2>2, <2>3
      <3>2. session'[s].user = req[q].user /\ account'[req[q].user] # "none"
        BY <1>1, <2>4
      <3>. QED BY <1>1, <3>1, <3>2 DEF RequestKnows
    <2>. QED BY <2>3, <2>6, <2>7, <2>9, <2>10, RequestsFrame DEF Known
  <1>3. CASE Goto(q, cl) /\ UNCHANGED <<session, retired>>
    <2>1. cl \in RequestStates /\ cl.step = "clash" /\ cl.user = req[q].user
      BY <1>1 DEF RequestStates, Idle, Steps
    <2>2. RequestKnows(q)'
      BY <1>1, <1>3, <2>1, GotoType DEF RequestKnows, Known
    <2>. QED BY <1>1, <1>3, <2>1, <2>2, QuietStep DEF Known, TypeOK
  <1>. QED BY <1>2, <1>3 DEF RotateRefreshToken

\* Sessions end and lapse; they keep their users and tokens.
LEMMA LifeRows ==
    ASSUME Known, session' \in [Sessions -> SessionRows],
           \A s \in Sessions : /\ session'[s].user = session[s].user
                               /\ session'[s].token = session[s].token,
           req' \in [Requests -> RequestStates],
           UNCHANGED <<challenge, account, roles, retired, access, used, allowed, openedBy>>
    PROVE  RowsAgree' /\ Kept /\ TypeOK'
  <1>1. \A t \in Tokens : Holding(t)' = Holding(t)
    BY DEF Holding
  <1>2. Kept
    BY DEF Kept
  <1>3. \A t \in Tokens : retired[t] # None => retired[t] \in Sessions
    BY DEF Known, TypeOK
  <1>4. RowsAgree'
    BY <1>1, <1>3 DEF Known, RowsAgree
  <1>5. TypeOK'
    BY DEF Known, TypeOK, SessionRows, RequestStates
  <1>. QED BY <1>2, <1>4, <1>5

LEMMA Revocations ==
    ASSUME TypeOK
    PROVE  /\ session \in [Sessions -> SessionRows]
           /\ \A s \in Sessions :
                 /\ RevokeSession(s) \in [Sessions -> SessionRows]
                 /\ [session EXCEPT ![s].life = "expired"] \in [Sessions -> SessionRows]
                 /\ \A z \in Sessions :
                       /\ RevokeSession(s)[z].user = session[z].user
                       /\ RevokeSession(s)[z].token = session[z].token
                       /\ RevokeSession(s)[z].life = IF z = s THEN "revoked" ELSE session[z].life
                       /\ [session EXCEPT ![s].life = "expired"][z].user = session[z].user
                       /\ [session EXCEPT ![s].life = "expired"][z].token = session[z].token
                       /\ [session EXCEPT ![s].life = "expired"][z].life =
                             IF z = s THEN "expired" ELSE session[z].life
           /\ \A u \in Users :
                 /\ RevokeUserSessions(u) \in [Sessions -> SessionRows]
                 /\ \A z \in Sessions :
                       /\ RevokeUserSessions(u)[z].user = session[z].user
                       /\ RevokeUserSessions(u)[z].token = session[z].token
                       /\ RevokeUserSessions(u)[z].life =
                             IF session[z].user = u THEN "revoked" ELSE session[z].life
  <1>1. session \in [Sessions -> SessionRows]
    BY DEF TypeOK, SessionRows
  <1>2. \A x \in SessionRows : \A l \in {"revoked", "expired"} :
           /\ [x EXCEPT !.life = l] \in SessionRows
           /\ [x EXCEPT !.life = l].user = x.user
           /\ [x EXCEPT !.life = l].token = x.token
           /\ [x EXCEPT !.life = l].life = l
    BY DEF SessionRows
  <1>3. ASSUME NEW s \in Sessions, NEW l \in {"revoked", "expired"}
        PROVE  /\ [session EXCEPT ![s].life = l] \in [Sessions -> SessionRows]
               /\ \A z \in Sessions :
                     /\ [session EXCEPT ![s].life = l][z].user = session[z].user
                     /\ [session EXCEPT ![s].life = l][z].token = session[z].token
                     /\ [session EXCEPT ![s].life = l][z].life = IF z = s THEN l ELSE session[z].life
    <2>1. [session EXCEPT ![s].life = l] = [session EXCEPT ![s] = [session[s] EXCEPT !.life = l]]
      BY <1>1
    <2>2. [session[s] EXCEPT !.life = l] \in SessionRows
      BY <1>1, <1>2
    <2>3. [session EXCEPT ![s].life = l] \in [Sessions -> SessionRows]
      BY <1>1, <2>1, <2>2
    <2>4. [session EXCEPT ![s].life = l][s] = [session[s] EXCEPT !.life = l]
      BY <1>1, <2>1
    <2>5. \A z \in Sessions : z # s => [session EXCEPT ![s].life = l][z] = session[z]
      BY <1>1
    <2>6. session[s] \in SessionRows
      BY <1>1
    <2>. QED BY <1>2, <2>3, <2>4, <2>5, <2>6
  <1>4. ASSUME NEW s \in Sessions
        PROVE  /\ RevokeSession(s) \in [Sessions -> SessionRows]
               /\ \A z \in Sessions :
                     /\ RevokeSession(s)[z].user = session[z].user
                     /\ RevokeSession(s)[z].token = session[z].token
                     /\ RevokeSession(s)[z].life = IF z = s THEN "revoked" ELSE session[z].life
    BY <1>3 DEF RevokeSession
  <1>5. ASSUME NEW u \in Users
        PROVE  /\ RevokeUserSessions(u) \in [Sessions -> SessionRows]
               /\ \A z \in Sessions :
                     /\ RevokeUserSessions(u)[z].user = session[z].user
                     /\ RevokeUserSessions(u)[z].token = session[z].token
                     /\ RevokeUserSessions(u)[z].life =
                           IF session[z].user = u THEN "revoked" ELSE session[z].life
    <2>1. \A z \in Sessions : RevokeUserSessions(u)[z] =
              IF session[z].user = u THEN RevokeSession(z)[z] ELSE session[z]
      BY DEF RevokeUserSessions
    <2>2. \A z \in Sessions : RevokeSession(z)[z] \in SessionRows
      BY <1>4
    <2>3. RevokeUserSessions(u) \in [Sessions -> SessionRows]
      BY <1>1, <2>2 DEF RevokeUserSessions
    <2>. QED BY <1>4, <2>1, <2>3
  <1>6. ASSUME NEW s \in Sessions
        PROVE  /\ [session EXCEPT ![s].life = "expired"] \in [Sessions -> SessionRows]
               /\ \A z \in Sessions :
                     /\ [session EXCEPT ![s].life = "expired"][z].user = session[z].user
                     /\ [session EXCEPT ![s].life = "expired"][z].token = session[z].token
                     /\ [session EXCEPT ![s].life = "expired"][z].life =
                           IF z = s THEN "expired" ELSE session[z].life
    BY <1>3
  <1>. QED BY <1>1, <1>4, <1>5, <1>6

LEMMA EndAfterClashStep ==
    ASSUME Known, NEW q \in Requests, EndAfterClash(q)
    PROVE  Known' /\ Kept
  <1>1. /\ req[q].user \in Users /\ session' = RevokeUserSessions(req[q].user) /\ Done(q)
        /\ UNCHANGED <<challenge, account, roles, retired, access, used, allowed, openedBy>>
    BY DEF EndAfterClash, At, Known, RequestsKnow, RequestKnows
  <1>2. Goto(q, Idle) /\ Idle \in RequestStates /\ RequestKnows(q)'
    BY <1>1, DoneKnows
  <1>3. RowsAgree' /\ Kept /\ TypeOK'
    BY <1>1, <1>2, GotoType, Revocations, LifeRows DEF Known
  <1>. QED BY <1>2, <1>3, GotoType, RequestsFrame DEF Known

LEMMA EndBarredStep ==
    ASSUME Known, NEW q \in Requests, EndBarred(q)
    PROVE  Known' /\ Kept
  <1>1. /\ req[q].session \in Sessions /\ session' = RevokeSession(req[q].session) /\ Done(q)
        /\ UNCHANGED <<challenge, account, roles, retired, access, used, allowed, openedBy>>
    BY DEF EndBarred, At, Known, RequestsKnow, RequestKnows
  <1>2. Goto(q, Idle) /\ Idle \in RequestStates /\ RequestKnows(q)'
    BY <1>1, DoneKnows
  <1>3. RowsAgree' /\ Kept /\ TypeOK'
    BY <1>1, <1>2, GotoType, Revocations, LifeRows DEF Known
  <1>. QED BY <1>2, <1>3, GotoType, RequestsFrame DEF Known

\* Logouts and lapses are nobody's request here.
LEMMA SessionSteps ==
    ASSUME Known,
           \/ \E s \in Sessions : Logout(s) \/ SessionExpires(s)
           \/ \E u \in Users : LogoutAll(u)
    PROVE  Known' /\ Kept
  <1>1. /\ req' = req
        /\ UNCHANGED <<challenge, account, roles, retired, access, used, allowed, openedBy>>
    BY DEF Logout, LogoutAll, SessionExpires
  <1>2. /\ session' \in [Sessions -> SessionRows]
        /\ \A s \in Sessions : /\ session'[s].user = session[s].user
                               /\ session'[s].token = session[s].token
    <2>1. ASSUME NEW s \in Sessions, Logout(s) PROVE <1>2!:
      BY <2>1, Revocations DEF Logout, Known
    <2>2. ASSUME NEW s \in Sessions, SessionExpires(s) PROVE <1>2!:
      BY <2>2, Revocations DEF SessionExpires, Known
    <2>3. ASSUME NEW u \in Users, LogoutAll(u) PROVE <1>2!:
      BY <2>3, Revocations DEF LogoutAll, Known
    <2>. QED BY <2>1, <2>2, <2>3
  <1>3. req' \in [Requests -> RequestStates]
    BY <1>1 DEF Known, TypeOK, RequestStates
  <1>4. RowsAgree' /\ Kept /\ TypeOK'
    BY <1>1, <1>2, <1>3, LifeRows
  <1>5. RequestsKnow'
    BY <1>1, <1>4, RequestFrame DEF Known, RequestsKnow
  <1>. QED BY <1>4, <1>5 DEF Known

\* What requests have seen grows; they stay where they are.
LEMMA WitnessType ==
    ASSUME TypeOK, NEW u \in Users, NEW now \in SUBSET (Roles \cup {"active"}), Witness(u, now)
    PROVE  /\ req' \in [Requests -> RequestStates]
           /\ \A q \in Requests :
                 /\ req'[q].step = req[q].step /\ req'[q].user = req[q].user
                 /\ req'[q].code = req[q].code /\ req'[q].session = req[q].session
                 /\ req'[q].token = req[q].token /\ req'[q].roles = req[q].roles
                 /\ req[q].seen \subseteq req'[q].seen
                 /\ req[q].user = u /\ req[q].step \in {"admitted", "found", "rotated"} =>
                       now \subseteq req'[q].seen
  <1>1. ASSUME NEW q \in Requests
        PROVE  /\ req'[q] \in RequestStates
               /\ req'[q].step = req[q].step /\ req'[q].user = req[q].user
               /\ req'[q].code = req[q].code /\ req'[q].session = req[q].session
               /\ req'[q].token = req[q].token /\ req'[q].roles = req[q].roles
               /\ req[q].seen \subseteq req'[q].seen
               /\ req[q].user = u /\ req[q].step \in {"admitted", "found", "rotated"} =>
                     now \subseteq req'[q].seen
    <2>1. req[q] \in RequestStates
      BY RequestType
    <2>2. CASE req[q].user = u /\ req[q].step \in {"admitted", "found", "rotated"}
      <3>1. req'[q] = [req[q] EXCEPT !.seen = req[q].seen \cup now]
        BY <2>2 DEF Witness
      <3>. QED BY <2>1, <3>1 DEF RequestStates
    <2>3. CASE ~(req[q].user = u /\ req[q].step \in {"admitted", "found", "rotated"})
      <3>1. req'[q] = req[q]
        BY <2>3 DEF Witness
      <3>. QED BY <2>1, <2>3, <3>1
    <2>. QED BY <2>2, <2>3
  <1>2. req' = [q \in Requests |-> req'[q]]
    BY DEF Witness
  <1>3. req' \in [Requests -> RequestStates]
    BY <1>1, <1>2
  <1>. QED BY <1>1, <1>3

\* Roles come and go, accounts are suspended and reinstated.
LEMMA AccountSteps ==
    ASSUME Known, NEW u \in Users,
           \/ \E r \in Roles : GrantRole(u, r) \/ RevokeRole(u, r)
           \/ \E st \in {"ACTIVE", "SUSPENDED"} : SetStatus(u, st)
    PROVE  Known' /\ Kept
  <1>1. /\ UNCHANGED <<challenge, session, retired, access, used, allowed, openedBy>>
        /\ account' \in [Users -> {"none", "ACTIVE", "SUSPENDED"}]
        /\ \A w \in Users : account[w] # "none" => account'[w] # "none"
    BY DEF GrantRole, RevokeRole, SetStatus, Known, TypeOK
  <1>2. roles' \in [Users -> SUBSET Roles]
    <2>1. roles \in [Users -> SUBSET Roles]
      BY DEF Known, TypeOK
    <2>2. ASSUME NEW r \in Roles
          PROVE  /\ [roles EXCEPT ![u] = @ \cup {r}] \in [Users -> SUBSET Roles]
                 /\ [roles EXCEPT ![u] = @ \ {r}] \in [Users -> SUBSET Roles]
      BY <2>1
    <2>. QED BY <2>1, <2>2 DEF GrantRole, RevokeRole, SetStatus
  <1>3. /\ req' \in [Requests -> RequestStates]
        /\ \A q \in Requests :
              /\ req'[q].step = req[q].step /\ req'[q].user = req[q].user
              /\ req'[q].code = req[q].code /\ req'[q].session = req[q].session
              /\ req'[q].token = req[q].token
    <2>1. CASE UNCHANGED req
      BY <2>1 DEF Known, TypeOK, RequestStates
    <2>2. ASSUME NEW r \in Roles, Witness(u, {r})
          PROVE  <1>3!:
      <3>1. {r} \in SUBSET (Roles \cup {"active"})
        OBVIOUS
      <3>. QED BY <2>2, <3>1, WitnessType DEF Known
    <2>3. CASE Witness(u, {"active"})
      BY <2>3, WitnessType DEF Known
    <2>4. CASE Witness(u, {})
      BY <2>4, WitnessType DEF Known
    <2>. QED BY <2>1, <2>2, <2>3, <2>4 DEF GrantRole, RevokeRole, SetStatus
  <1>4. TypeOK'
    BY <1>1, <1>2, <1>3 DEF Known, TypeOK, RequestStates
  <1>5. Kept
    BY <1>1 DEF Kept
  <1>6. RowsAgree'
    <2>1. \A t \in Tokens : Holding(t)' = Holding(t)
      BY <1>1 DEF Holding
    <2>2. \A s \in Sessions : session[s].user # None => session[s].user \in Users
      BY DEF Known, TypeOK
    <2>. QED BY <1>1, <2>1, <2>2 DEF Known, RowsAgree
  <1>7. RequestsKnow'
    BY <1>3, <1>5, RequestFrame DEF Known, RequestsKnow
  <1>. QED BY <1>4, <1>6, <1>5, <1>7 DEF Known

LEMMA TimeSteps ==
    ASSUME Known, WindowRolls \/ \E a \in access : AccessExpires(a)
    PROVE  Known' /\ Kept
  <1>1. UNCHANGED <<challenge, account, session, retired, openedBy, roles, req>>
    BY DEF WindowRolls, AccessExpires
  <1>2. RowsAgree' /\ Kept
    BY <1>1, RowsFrame DEF RowVars, Known
  <1>3. TypeOK'
    BY <1>1, IdentityAssumption DEF WindowRolls, AccessExpires, Known, TypeOK
  <1>4. RequestsKnow'
    BY <1>1, <1>2, RequestFrame DEF Known, RequestsKnow
  <1>. QED BY <1>2, <1>3, <1>4 DEF Known

LEMMA KnownIsKept ==
    ASSUME Known, [Next]_vars
    PROVE  Known' /\ Kept
  <1>1. CASE UNCHANGED vars
    <2>1. UNCHANGED <<challenge, account, session, retired, openedBy, roles, req, used, allowed, access>>
      BY <1>1 DEF vars
    <2>2. RowsAgree' /\ Kept
      BY <2>1, RowsFrame DEF RowVars, Known
    <2>3. TypeOK'
      BY <2>1 DEF Known, TypeOK
    <2>4. RequestsKnow'
      BY <2>1, <2>2, RequestFrame DEF Known, RequestsKnow
    <2>. QED BY <2>2, <2>3, <2>4 DEF Known
  <1>2. ASSUME NEW q \in Requests,
               \/ \E u \in Users : CountRequest(q, u) \/ CheckCode(q, u)
               \/ \E t \in Tokens : FindSession(q, t)
               \/ CreateChallenge(q) \/ WrongCode(q) \/ RightCode(q) \/ EnsureUser(q)
               \/ OpenSession(q) \/ RotateRefreshToken(q) \/ RecogniseReuse(q)
               \/ EndAfterClash(q) \/ IssueAccess(q) \/ EndBarred(q) \/ Fail(q)
        PROVE  Known' /\ Kept
    BY <1>2, CountRequestStep, CheckCodeStep, FindSessionStep, CreateChallengeStep, WrongCodeStep,
       RightCodeStep, EnsureUserStep, OpenSessionStep, RotateStep, RecogniseReuseStep,
       EndAfterClashStep, IssueAccessStep, EndBarredStep, FailStep
  <1>. QED BY <1>1, <1>2, CodeLapsesStep, TimeSteps, SessionSteps, AccountSteps DEF Next

-----------------------------------------------------------------------------
(* Where requests come from *)

Same(q) ==
    /\ req'[q].step = req[q].step /\ req'[q].user = req[q].user /\ req'[q].code = req[q].code
    /\ req'[q].session = req[q].session /\ req'[q].token = req[q].token
    /\ req'[q].roles = req[q].roles /\ req[q].seen \subseteq req'[q].seen

\* Where each step of a request takes it.
LEMMA OwnSteps ==
    ASSUME Known, NEW q \in Requests
    PROVE  /\ Done(q) => req'[q].step = "idle"
           /\ \A u \in Users : CountRequest(q, u) => req'[q].step = "counted" /\ req'[q].user = u
           /\ \A u \in Users : CheckCode(q, u) => req'[q].step = "checked"
           /\ \A t \in Tokens : FindSession(q, t) => req'[q].step \in {"unknown", "found"}
           /\ RightCode(q) => req'[q].step \in {"consumed", "idle"}
           /\ EnsureUser(q) => req'[q].step \in {"admitted", "idle"}
           /\ RotateRefreshToken(q) => req'[q].step \in {"rotated", "clash"}
           /\ RecogniseReuse(q) => req'[q].step = "clash"
           /\ IssueAccess(q) => req'[q].step \in {"barred", "idle"}
  <1>1. req \in [Requests -> RequestStates] /\ req[q] \in RequestStates
    BY RequestType DEF Known, TypeOK, RequestStates
  <1>2. ASSUME NEW r, Goto(q, r) PROVE req'[q] = r
    BY <1>1, <1>2 DEF Goto
  <1>3. Done(q) => req'[q].step = "idle"
    BY <1>2 DEF Done, Idle
  <1>4. ASSUME NEW u \in Users, CountRequest(q, u)
        PROVE  req'[q].step = "counted" /\ req'[q].user = u
    BY <1>2, <1>4 DEF CountRequest, Idle
  <1>5. ASSUME NEW u \in Users, CheckCode(q, u)
        PROVE  req'[q].step = "checked"
    BY <1>2, <1>5 DEF CheckCode, Idle
  <1>6. ASSUME NEW t \in Tokens, FindSession(q, t)
        PROVE  req'[q].step \in {"unknown", "found"}
    BY <1>2, <1>6 DEF FindSession, Idle
  <1>7. RightCode(q) => req'[q].step \in {"consumed", "idle"}
    <2>1. [req[q] EXCEPT !.step = "consumed"].step = "consumed"
      BY <1>1 DEF RequestStates
    <2>. QED BY <1>2, <1>3, <2>1 DEF RightCode
  <1>8. EnsureUser(q) => req'[q].step \in {"admitted", "idle"}
    <2>. DEFINE u == req[q].user
                r == [req[q] EXCEPT !.step = "admitted", !.roles = roles'[u],
                                    !.seen = roles'[u] \cup {"active"}]
    <2>1. r.step = "admitted"
      BY <1>1 DEF RequestStates
    <2>2. Goto(q, r) => req'[q] = r
      BY <1>1 DEF Goto
    <2>3. EnsureUser(q) => Goto(q, r) \/ Done(q)
      BY DEF EnsureUser
    <2>. QED BY <1>3, <2>1, <2>2, <2>3
  <1>9. RotateRefreshToken(q) => req'[q].step \in {"rotated", "clash"}
    <2>1. [req[q] EXCEPT !.step = "rotated", !.token = None].step = "rotated"
      BY <1>1 DEF RequestStates
    <2>. QED BY <1>2, <2>1 DEF RotateRefreshToken, Idle
  <1>10. RecogniseReuse(q) => req'[q].step = "clash"
    BY <1>2 DEF RecogniseReuse, Idle
  <1>11. IssueAccess(q) => req'[q].step \in {"barred", "idle"}
    BY <1>2, <1>3 DEF IssueAccess, Idle
  <1>. QED BY <1>3, <1>4, <1>5, <1>6, <1>7, <1>8, <1>9, <1>10, <1>11

\* Whoever is at a step was there already, or the step that leads there is taken.
Origin(e) ==
    /\ req'[e].step = "counted" => Same(e) \/ \E u \in Users : CountRequest(e, u)
    /\ req'[e].step = "checked" => Same(e) \/ \E u \in Users : CheckCode(e, u)
    /\ req'[e].step = "consumed" => Same(e) \/ RightCode(e)
    /\ req'[e].step = "admitted" => Same(e) \/ EnsureUser(e)
    /\ req'[e].step = "found" => Same(e) \/ \E t \in Tokens : FindSession(e, t)
    /\ req'[e].step = "rotated" => Same(e) \/ RotateRefreshToken(e)

LEMMA Moves ==
    ASSUME Known, [Next]_vars, NEW e \in Requests
    PROVE  Origin(e)
  <1>1. CASE req'[e] = req[e]
    BY <1>1 DEF Same, Origin
  <1>2. ASSUME NEW q \in Requests,
               \/ \E u \in Users : CountRequest(q, u) \/ CheckCode(q, u)
               \/ \E t \in Tokens : FindSession(q, t)
               \/ CreateChallenge(q) \/ WrongCode(q) \/ RightCode(q) \/ EnsureUser(q)
               \/ OpenSession(q) \/ RotateRefreshToken(q) \/ RecogniseReuse(q)
               \/ EndAfterClash(q) \/ IssueAccess(q) \/ EndBarred(q) \/ Fail(q),
               req'[e] # req[e]
        PROVE  Origin(e)
    <2>1. e = q
      BY <1>2 DEF CountRequest, CheckCode, FindSession, CreateChallenge, WrongCode, RightCode,
           EnsureUser, OpenSession, RotateRefreshToken, RecogniseReuse, EndAfterClash, IssueAccess,
           EndBarred, Fail, Done, Goto, Known, TypeOK
    <2>2. CASE Done(q)
      BY <2>1, <2>2, OwnSteps DEF Origin
    <2>3. CASE ~Done(q)
      BY <1>2, <2>1, <2>3, OwnSteps DEF Origin, CreateChallenge, WrongCode, OpenSession,
         EndAfterClash, EndBarred, Fail
    <2>. QED BY <2>2, <2>3
  <1>3. ASSUME NEW u \in Users,
               \/ \E r \in Roles : GrantRole(u, r) \/ RevokeRole(u, r)
               \/ \E st \in {"ACTIVE", "SUSPENDED"} : SetStatus(u, st)
        PROVE  Same(e)
    <2>1. CASE UNCHANGED req
      BY <2>1 DEF Same
    <2>2. ASSUME NEW r \in Roles, Witness(u, {r})
          PROVE  Same(e)
      <3>1. {r} \in SUBSET (Roles \cup {"active"})
        OBVIOUS
      <3>. QED BY <2>2, <3>1, WitnessType DEF Known, Same
    <2>3. CASE Witness(u, {"active"})
      BY <2>3, WitnessType DEF Known, Same
    <2>4. CASE Witness(u, {})
      BY <2>4, WitnessType DEF Known, Same
    <2>. QED BY <1>3, <2>1, <2>2, <2>3, <2>4 DEF GrantRole, RevokeRole, SetStatus
  <1>4. CASE \/ UNCHANGED vars
             \/ WindowRolls
             \/ \E c \in Challenges : CodeLapses(c)
             \/ \E s \in Sessions : Logout(s) \/ SessionExpires(s)
             \/ \E u \in Users : LogoutAll(u)
             \/ \E a \in access : AccessExpires(a)
    BY <1>1, <1>4 DEF vars, WindowRolls, CodeLapses, Logout, SessionExpires, LogoutAll, AccessExpires
  <1>. QED BY <1>1, <1>2, <1>3, <1>4 DEF Next, Origin

-----------------------------------------------------------------------------
(* A code opens one session *)

LEMMA UsedStaysUsed ==
    ASSUME Known, [Next]_vars, NEW c \in Challenges, challenge[c].state = "used"
    PROVE  challenge'[c].state = "used"
  <1>1. ASSUME NEW q \in Requests, CreateChallenge(q)
        PROVE  challenge'[c].state = "used"
    <2>1. req[q].user \in Users /\ UnusedCodes # {} /\ challenge' = Superseding(req[q].user)
      BY <1>1 DEF CreateChallenge, At, Known, RequestsKnow, RequestKnows
    <2>2. challenge[LeastOf(UnusedCodes)].state = "none"
      BY <2>1, SupersedingRows DEF Known
    <2>3. \/ challenge'[c].state = challenge[c].state
          \/ challenge[c].state \in {"live", "stale"}
      BY <2>1, <2>2, SupersedingRows DEF Known
    <2>. QED BY <2>3
  <1>2. ASSUME NEW d \in Challenges, CodeLapses(d)
        PROVE  challenge'[c].state = "used"
    BY <1>2 DEF CodeLapses, Known, TypeOK
  <1>3. ASSUME NEW q \in Requests, WrongCode(q) \/ RightCode(q)
        PROVE  challenge'[c].state = "used"
    <2>1. req[q].code \in Challenges /\ challenge \in [Challenges -> ChallengeRows]
      BY <1>3 DEF WrongCode, RightCode, At, Known, RequestsKnow, RequestKnows, TypeOK, ChallengeRows
    <2>2. CASE challenge' = [challenge EXCEPT ![req[q].code].attempts = @ + 1]
      BY <2>1, <2>2 DEF ChallengeRows
    <2>3. CASE challenge' = [challenge EXCEPT ![req[q].code].state = "used"]
      BY <2>1, <2>3 DEF ChallengeRows
    <2>4. CASE UNCHANGED challenge
      BY <2>4
    <2>. QED BY <1>3, <2>2, <2>3, <2>4 DEF WrongCode, WithFailedAttempt, RightCode
  <1>4. CASE UNCHANGED challenge
    BY <1>4
  <1>. QED BY <1>1, <1>2, <1>3, <1>4 DEF Next, vars, CountRequest, CheckCode, FindSession, EnsureUser,
       OpenSession, RotateRefreshToken, RecogniseReuse, EndAfterClash, IssueAccess, EndBarred, Fail,
       WindowRolls, Logout, SessionExpires, LogoutAll, GrantRole, RevokeRole, SetStatus, AccessExpires

\* But for a login, nobody gets a session.
LEMMA SessionsStay ==
    ASSUME Known, [Next]_vars, \A q \in Requests : ~OpenSession(q)
    PROVE  openedBy' = openedBy /\ \A s \in Sessions : session'[s].user = session[s].user
  <1>1. CASE UNCHANGED <<openedBy, session>>
    BY <1>1
  <1>2. ASSUME NEW q \in Requests, RotateRefreshToken(q)
        PROVE  openedBy' = openedBy /\ \A s \in Sessions : session'[s].user = session[s].user
    <2>1. session \in [Sessions -> SessionRows]
      BY DEF Known, TypeOK, SessionRows
    <2>2. ASSUME NEW s \in Sessions, session' = Rotated(s), NEW z \in Sessions
          PROVE  session'[z].user = session[z].user
      BY <2>1, <2>2 DEF Rotated, SessionRows
    <2>3. req[q].session \in Sessions
      BY <1>2 DEF RotateRefreshToken, At, Known, RequestsKnow, RequestKnows
    <2>. QED BY <1>2, <2>2, <2>3 DEF RotateRefreshToken
  <1>3. ASSUME NEW q \in Requests, EndAfterClash(q)
        PROVE  openedBy' = openedBy /\ \A s \in Sessions : session'[s].user = session[s].user
    BY <1>3, Revocations DEF EndAfterClash, At, Known, RequestsKnow, RequestKnows
  <1>4. ASSUME NEW q \in Requests, EndBarred(q)
        PROVE  openedBy' = openedBy /\ \A s \in Sessions : session'[s].user = session[s].user
    BY <1>4, Revocations DEF EndBarred, At, Known, RequestsKnow, RequestKnows
  <1>5. ASSUME NEW s \in Sessions, Logout(s) \/ SessionExpires(s)
        PROVE  openedBy' = openedBy /\ \A z \in Sessions : session'[z].user = session[z].user
    <2>1. CASE Logout(s)
      BY <2>1, Revocations DEF Logout, Known
    <2>2. CASE SessionExpires(s)
      BY <2>2, Revocations DEF SessionExpires, Known
    <2>. QED BY <1>5, <2>1, <2>2
  <1>6. ASSUME NEW u \in Users, LogoutAll(u)
        PROVE  openedBy' = openedBy /\ \A z \in Sessions : session'[z].user = session[z].user
    BY <1>6, Revocations DEF LogoutAll, Known
  <1>. QED BY <1>1, <1>2, <1>3, <1>4, <1>5, <1>6 DEF Next, vars, CountRequest, CreateChallenge, CheckCode,
       WrongCode, RightCode, FindSession, EnsureUser, RecogniseReuse, IssueAccess, Fail, WindowRolls,
       CodeLapses, GrantRole, RevokeRole, SetStatus, AccessExpires

LEMMA LoginStep ==
    ASSUME Known, ConsumedOnce, LoginsMatchCodes, NEW q \in Requests, OpenSession(q)
    PROVE  ConsumedOnce' /\ LoginsMatchCodes'
  <1>. DEFINE s == LeastOf(UnusedIds)
              code == req[q].code
  <1>. USE NewSession, Ids
  <1>1. /\ s \in Sessions /\ session[s].user = None /\ code \in Challenges
        /\ session'[s].user = req[q].user /\ openedBy'[s] = code
        /\ \A z \in Sessions : z # s => session'[z] = session[z] /\ openedBy'[z] = openedBy[z]
        /\ challenge' = challenge
    BY DEF Known, TypeOK
  <1>2. req'[q].step = "idle" /\ \A e \in Requests : e # q => req'[e] = req[e]
    <2>1. Goto(q, Idle) /\ Idle \in RequestStates
      BY DoneKnows
    <2>. QED BY <2>1, GotoType, RequestType DEF Known
  <1>3. /\ challenge[code].state = "used" /\ challenge[code].user = req[q].user
        /\ \A z \in Sessions : openedBy[z] # code
    BY DEF ConsumedOnce, Consumed
  <1>4. LoginsMatchCodes'
    <2>1. ASSUME NEW x \in Sessions, session'[x].user # None
          PROVE  /\ challenge[openedBy'[x]].state = "used"
                 /\ challenge[openedBy'[x]].user = session'[x].user
                 /\ \A z \in Sessions \ {x} : openedBy'[z] # openedBy'[x]
      <3>1. CASE x = s
        BY <1>1, <1>3, <3>1
      <3>2. CASE x # s
        <4>1. session[x].user # None /\ session'[x] = session[x] /\ openedBy'[x] = openedBy[x]
          BY <1>1, <2>1, <3>2
        <4>2. /\ challenge[openedBy[x]].state = "used"
              /\ challenge[openedBy[x]].user = session[x].user
              /\ \A z \in Sessions \ {x} : openedBy[z] # openedBy[x]
          BY <4>1 DEF LoginsMatchCodes
        <4>3. openedBy'[s] # openedBy[x]
          BY <1>1, <1>3
        <4>. QED BY <1>1, <3>2, <4>1, <4>2, <4>3
      <3>. QED BY <3>1, <3>2
    <2>. QED BY <1>1, <2>1 DEF LoginsMatchCodes
  <1>5. ConsumedOnce'
    <2>1. ASSUME NEW e \in Requests, Consumed(e)'
          PROVE  e # q /\ req'[e] = req[e] /\ Consumed(e)
      BY <1>2, <2>1 DEF Consumed
    <2>2. ASSUME NEW e \in Requests, Consumed(e)'
          PROVE  /\ challenge'[req'[e].code].state = "used"
                 /\ \A z \in Sessions : openedBy'[z] # req'[e].code
      <3>1. /\ challenge[req[e].code].state = "used"
            /\ \A z \in Sessions : openedBy[z] # req[e].code
        BY <2>1, <2>2 DEF ConsumedOnce
      <3>2. req[e].code # code
        BY <2>1, <2>2 DEF ConsumedOnce, Consumed
      <3>. QED BY <1>1, <2>1, <2>2, <3>1, <3>2
    <2>3. ASSUME NEW d \in Requests, NEW e \in Requests, Consumed(d)', Consumed(e)',
                 req'[d].code = req'[e].code
          PROVE  d = e
      BY <2>1, <2>3 DEF ConsumedOnce
    <2>. QED BY <2>2, <2>3 DEF ConsumedOnce
  <1>. QED BY <1>4, <1>5

LEMMA LoginsKept ==
    ASSUME Known, ConsumedOnce, LoginsMatchCodes, [Next]_vars
    PROVE  ConsumedOnce' /\ LoginsMatchCodes'
  <1>1. CASE \E q \in Requests : OpenSession(q)
    BY <1>1, LoginStep
  <1>2. CASE \A q \in Requests : ~OpenSession(q)
    <2>1. openedBy' = openedBy /\ \A s \in Sessions : session'[s].user = session[s].user
      BY <1>2, SessionsStay
    <2>2. Known' /\ Kept
      BY KnownIsKept
    <2>3. \A s \in Sessions : session[s].user # None =>
              /\ openedBy[s] \in Challenges
              /\ challenge[openedBy[s]].state = "used"
              /\ challenge[openedBy[s]].user = session[s].user
      BY DEF LoginsMatchCodes, Known, RowsAgree, TypeOK
    <2>4. LoginsMatchCodes'
      <3>1. ASSUME NEW s \in Sessions, session'[s].user # None
            PROVE  /\ challenge'[openedBy[s]].state = "used"
                   /\ challenge'[openedBy[s]].user = session'[s].user
                   /\ \A z \in Sessions \ {s} : openedBy[z] # openedBy[s]
        <4>1. session[s].user # None /\ session'[s].user = session[s].user
          BY <2>1, <3>1
        <4>2. challenge'[openedBy[s]].state = "used"
          BY <2>3, <4>1, UsedStaysUsed
        <4>3. challenge'[openedBy[s]].user = challenge[openedBy[s]].user
          BY <2>2, <2>3, <4>1 DEF Kept
        <4>. QED BY <2>3, <4>1, <4>2, <4>3 DEF LoginsMatchCodes
      <3>. QED BY <2>1, <3>1 DEF LoginsMatchCodes
    <2>5. ASSUME NEW q \in Requests, Consumed(q)'
          PROVE  \/ Consumed(q) /\ req'[q].code = req[q].code
                 \/ RightCode(q)
      <3>1. Origin(q)
        BY Moves
      <3>2. EnsureUser(q) => Consumed(q) /\ req'[q].code = req[q].code
        <4>. DEFINE r == [req[q] EXCEPT !.step = "admitted", !.roles = roles'[req[q].user],
                                        !.seen = roles'[req[q].user] \cup {"active"}]
        <4>1. req[q] \in RequestStates /\ req \in [Requests -> RequestStates]
          BY RequestType DEF Known, TypeOK, RequestStates
        <4>2. r.code = req[q].code
          BY <4>1 DEF RequestStates
        <4>3. EnsureUser(q) => (Goto(q, r) \/ Done(q)) /\ req[q].step = "consumed"
          BY DEF EnsureUser, At
        <4>4. Goto(q, r) => req'[q] = r
          BY <4>1 DEF Goto
        <4>5. ~Done(q)
          BY <2>5, OwnSteps DEF Consumed
        <4>. QED BY <4>2, <4>3, <4>4, <4>5 DEF Consumed
      <3>. QED BY <2>5, <3>1, <3>2 DEF Origin, Consumed, Same
    <2>6. ASSUME NEW q \in Requests, RightCode(q), Consumed(q)'
          PROVE  /\ req[q].code \in Challenges /\ req'[q].code = req[q].code
                 /\ challenge[req[q].code].state # "used"
                 /\ challenge'[req[q].code].state = "used"
                 /\ \A e \in Requests : e # q => req'[e] = req[e]
      <3>. DEFINE r == [req[q] EXCEPT !.step = "consumed"]
      <3>1. req[q] \in RequestStates /\ req \in [Requests -> RequestStates]
        BY RequestType DEF Known, TypeOK, RequestStates
      <3>2. r.code = req[q].code
        BY <3>1 DEF RequestStates
      <3>3. ~Done(q)
        BY <2>6, OwnSteps DEF Consumed
      <3>4. /\ Unconsumed(req[q].code) /\ Goto(q, r)
            /\ challenge' = [challenge EXCEPT ![req[q].code].state = "used"]
            /\ req[q].code \in Challenges
        BY <2>6, <3>3 DEF RightCode, At, Known, RequestsKnow, RequestKnows
      <3>5. req'[q] = r /\ \A e \in Requests : e # q => req'[e] = req[e]
        BY <3>1, <3>4 DEF Goto
      <3>. QED BY <3>2, <3>4, <3>5 DEF Unconsumed, Known, TypeOK
    <2>7. ASSUME NEW q \in Requests, Consumed(q)'
          PROVE  /\ challenge'[req'[q].code].state = "used"
                 /\ \A s \in Sessions : openedBy'[s] # req'[q].code
      <3>1. CASE Consumed(q) /\ req'[q].code = req[q].code
        <4>1. req[q].code \in Challenges
          BY <3>1 DEF Consumed, Known, RequestsKnow, RequestKnows
        <4>2. challenge'[req[q].code].state = "used"
          BY <3>1, <4>1, UsedStaysUsed DEF ConsumedOnce
        <4>. QED BY <2>1, <3>1, <4>2 DEF ConsumedOnce
      <3>2. CASE RightCode(q)
        <4>1. \A s \in Sessions : openedBy[s] # req[q].code
          <5>1. ASSUME NEW s \in Sessions, openedBy[s] = req[q].code PROVE FALSE
            <6>1. session[s].user # None
              BY <2>6, <2>7, <3>2, <5>1, Ids DEF Known, RowsAgree
            <6>. QED BY <2>3, <2>6, <2>7, <3>2, <5>1, <6>1
          <5>. QED BY <5>1
        <4>. QED BY <2>1, <2>6, <2>7, <3>2, <4>1
      <3>. QED BY <2>5, <2>7, <3>1, <3>2
    <2>8. ASSUME NEW q \in Requests, NEW e \in Requests, Consumed(q)', Consumed(e)',
                 req'[q].code = req'[e].code, q # e
          PROVE  FALSE
      <3>1. ASSUME NEW x \in Requests, NEW y \in Requests, x # y, RightCode(x), Consumed(x)',
                   Consumed(y)', req'[x].code = req'[y].code
            PROVE  FALSE
        <4>1. req'[y] = req[y] /\ challenge[req[x].code].state # "used" /\ req'[x].code = req[x].code
          BY <2>6, <3>1
        <4>2. Consumed(y) /\ req[y].code = req[x].code
          BY <3>1, <4>1 DEF Consumed
        <4>. QED BY <4>1, <4>2 DEF ConsumedOnce
      <3>2. CASE RightCode(q) \/ RightCode(e)
        BY <2>8, <3>1, <3>2
      <3>3. CASE ~RightCode(q) /\ ~RightCode(e)
        BY <2>5, <2>8, <3>3 DEF ConsumedOnce
      <3>. QED BY <3>2, <3>3
    <2>9. ConsumedOnce'
      BY <2>7, <2>8 DEF ConsumedOnce
    <2>. QED BY <2>4, <2>9
  <1>. QED BY <1>1, <1>2

-----------------------------------------------------------------------------
(* An access token says what was true while it was made *)

\* What becomes true of a user, the requests that looked the user up have seen.
LEMMA StandingIsSeen ==
    ASSUME Known, [Next]_vars, NEW e \in Requests, req[e].step \in {"found", "rotated"},
           NEW u \in Users, u = req[e].user
    PROVE  Standing(u)' \subseteq Standing(u) \cup req'[e].seen
  <1>1. account[u] # "none"
    BY DEF Known, RequestsKnow, RequestKnows
  <1>2. CASE UNCHANGED <<account, roles>>
    BY <1>2 DEF Standing, CanAuthenticate
  <1>3. ASSUME NEW q \in Requests, EnsureUser(q)
        PROVE  Standing(u)' \subseteq Standing(u)
    <2>1. /\ account' = account \/ account' = [account EXCEPT ![req[q].user] = "ACTIVE"]
          /\ roles' = roles \/ roles' = [roles EXCEPT ![req[q].user] = {InitialRole}]
          /\ account[req[q].user] # "none" => UNCHANGED <<account, roles>>
      BY <1>3 DEF EnsureUser
    <2>2. account'[u] = account[u] /\ roles'[u] = roles[u]
      BY <1>1, <2>1 DEF Known, TypeOK
    <2>. QED BY <2>2 DEF Standing, CanAuthenticate
  <1>4. ASSUME NEW w \in Users, NEW r \in Roles, GrantRole(w, r)
        PROVE  Standing(u)' \subseteq Standing(u) \cup req'[e].seen
    <2>1. roles' = [roles EXCEPT ![w] = @ \cup {r}] /\ account' = account /\ Witness(w, {r})
      BY <1>4 DEF GrantRole
    <2>2. {r} \in SUBSET (Roles \cup {"active"})
      OBVIOUS
    <2>3. u = w => r \in req'[e].seen
      BY <2>1, <2>2, WitnessType DEF Known
    <2>4. roles'[u] \subseteq roles[u] \cup (IF u = w THEN {r} ELSE {})
      BY <2>1 DEF Known, TypeOK
    <2>. QED BY <2>1, <2>3, <2>4 DEF Standing, CanAuthenticate
  <1>5. ASSUME NEW w \in Users, NEW r \in Roles, RevokeRole(w, r)
        PROVE  Standing(u)' \subseteq Standing(u)
    <2>1. roles'[u] \subseteq roles[u] /\ account' = account
      BY <1>5 DEF RevokeRole, Known, TypeOK
    <2>. QED BY <2>1 DEF Standing, CanAuthenticate
  <1>6. ASSUME NEW w \in Users, NEW st \in {"ACTIVE", "SUSPENDED"}, SetStatus(w, st)
        PROVE  Standing(u)' \subseteq Standing(u) \cup req'[e].seen
    <2>1. /\ account' = [account EXCEPT ![w] = st] /\ roles' = roles
          /\ Witness(w, IF st = "ACTIVE" THEN {"active"} ELSE {})
      BY <1>6 DEF SetStatus
    <2>2. u = w /\ st = "ACTIVE" => "active" \in req'[e].seen
      BY <2>1, WitnessType DEF Known
    <2>3. account'[u] = "ACTIVE" => account[u] = "ACTIVE" \/ (u = w /\ st = "ACTIVE")
      BY <2>1 DEF Known, TypeOK
    <2>. QED BY <2>1, <2>2, <2>3 DEF Standing, CanAuthenticate
  <1>. QED BY <1>2, <1>3, <1>4, <1>5, <1>6 DEF Next, vars, CountRequest, CheckCode, FindSession,
       CreateChallenge, WrongCode, RightCode, OpenSession, RotateRefreshToken, RecogniseReuse,
       EndAfterClash, IssueAccess, EndBarred, Fail, WindowRolls, CodeLapses, Logout, SessionExpires,
       LogoutAll, AccessExpires

LEMMA SeenKept ==
    ASSUME Known, SeenIsCurrent, [Next]_vars
    PROVE  SeenIsCurrent'
  <1>. SUFFICES ASSUME NEW e \in Requests
                PROVE  /\ req'[e].step \in {"found", "rotated"} =>
                             \A u \in Users : u = req'[e].user => Standing(u)' \subseteq req'[e].seen
                       /\ req'[e].step = "admitted" => req'[e].roles \cup {"active"} \subseteq req'[e].seen
    <2>1. Known'
      BY KnownIsKept
    <2>2. \A e \in Requests : req'[e].step \in {"found", "rotated"} => req'[e].user \in Users
      BY <2>1 DEF Known, RequestsKnow, RequestKnows
    <2>. QED BY <2>2 DEF SeenIsCurrent, Standing, CanAuthenticate
  <1>1. Origin(e) /\ req[e] \in RequestStates /\ req \in [Requests -> RequestStates]
    BY Moves, RequestType DEF Known, TypeOK, RequestStates
  <1>2. ASSUME req[e].step \in {"found", "rotated"}, req'[e].user = req[e].user,
               req[e].seen \subseteq req'[e].seen, NEW u \in Users, u = req'[e].user
        PROVE  Standing(u)' \subseteq req'[e].seen
    <2>1. Standing(u) \subseteq req[e].seen
      BY <1>2 DEF SeenIsCurrent
    <2>. QED BY <1>2, <2>1, StandingIsSeen
  <1>3. ASSUME NEW t \in Tokens, FindSession(e, t), req'[e].step = "found",
               NEW u \in Users, u = req'[e].user
        PROVE  Standing(u)' \subseteq req'[e].seen
    <2>1. PICK s \in Holding(t) :
             Goto(e, [Idle EXCEPT !.step = "found", !.token = t, !.session = s,
                                  !.user = session[s].user,
                                  !.seen = Standing(session[s].user)])
      <3>1. Goto(e, [Idle EXCEPT !.step = "unknown", !.token = t]) => req'[e].step = "unknown"
        BY <1>1 DEF Goto, Idle
      <3>. QED BY <1>3, <3>1 DEF FindSession
    <2>2. req'[e].seen = Standing(session[s].user) /\ req'[e].user = session[s].user
      BY <1>1, <2>1 DEF Goto, Idle
    <2>3. UNCHANGED <<roles, account>>
      BY <1>3 DEF FindSession
    <2>4. Standing(u)' = Standing(u)
      BY <2>3 DEF Standing, CanAuthenticate
    <2>. QED BY <1>3, <2>2, <2>4
  <1>4. ASSUME RotateRefreshToken(e), req'[e].step = "rotated"
        PROVE  /\ req[e].step = "found" /\ req'[e].user = req[e].user
               /\ req'[e].seen = req[e].seen
    <2>. DEFINE r == [req[e] EXCEPT !.step = "rotated", !.token = None]
    <2>1. ~Goto(e, [Idle EXCEPT !.step = "clash", !.user = req[e].user])
      BY <1>1, <1>4 DEF Goto, Idle
    <2>2. Goto(e, r) /\ req[e].step = "found"
      BY <1>4, <2>1 DEF RotateRefreshToken, At
    <2>3. req'[e] = r
      BY <1>1, <2>2 DEF Goto
    <2>. QED BY <1>1, <2>2, <2>3 DEF RequestStates
  <1>5. ASSUME EnsureUser(e), req'[e].step = "admitted"
        PROVE  req'[e].roles \cup {"active"} \subseteq req'[e].seen
    <2>. DEFINE u == req[e].user
                r == [req[e] EXCEPT !.step = "admitted", !.roles = roles'[u],
                                    !.seen = roles'[u] \cup {"active"}]
    <2>1. ~Done(e)
      BY <1>5, OwnSteps
    <2>2. Goto(e, r)
      BY <1>5, <2>1 DEF EnsureUser
    <2>3. req'[e] = r
      BY <1>1, <2>2 DEF Goto
    <2>. QED BY <1>1, <2>3 DEF RequestStates
  <1>6. ASSUME req'[e].step \in {"found", "rotated"}, NEW u \in Users, u = req'[e].user
        PROVE  Standing(u)' \subseteq req'[e].seen
    <2>1. CASE Same(e)
      BY <1>2, <1>6, <2>1 DEF Same
    <2>2. CASE ~Same(e) /\ req'[e].step = "found"
      BY <1>1, <1>3, <1>6, <2>2 DEF Origin
    <2>3. CASE ~Same(e) /\ req'[e].step = "rotated"
      BY <1>1, <1>2, <1>4, <1>6, <2>3 DEF Origin
    <2>. QED BY <1>6, <2>1, <2>2, <2>3
  <1>7. ASSUME req'[e].step = "admitted"
        PROVE  req'[e].roles \cup {"active"} \subseteq req'[e].seen
    <2>1. CASE Same(e)
      BY <1>7, <2>1 DEF Same, SeenIsCurrent
    <2>. QED BY <1>1, <1>5, <1>7, <2>1 DEF Origin
  <1>. QED BY <1>6, <1>7

\* An access token is made by a login or a refresh.
LEMMA NewAccess ==
    ASSUME Known, SeenIsCurrent, [Next]_vars, NEW a \in access' \ access
    PROVE  \E q \in Requests : /\ req[q].user = session'[a.session].user
                               /\ a.roles \cup {"active"} \subseteq req[q].seen
  <1>1. ASSUME NEW q \in Requests, OpenSession(q)
        PROVE  /\ req[q].user = session'[a.session].user
               /\ a.roles \cup {"active"} \subseteq req[q].seen
    <2>1. a = [session |-> LeastOf(UnusedIds), roles |-> req[q].roles] /\ req[q].step = "admitted"
      BY <1>1, NewSession
    <2>2. session'[LeastOf(UnusedIds)].user = req[q].user
      BY <1>1, NewSession DEF Known, TypeOK
    <2>. QED BY <2>1, <2>2 DEF SeenIsCurrent
  <1>2. ASSUME NEW q \in Requests, IssueAccess(q)
        PROVE  /\ req[q].user = session'[a.session].user
               /\ a.roles \cup {"active"} \subseteq req[q].seen
    <2>1. /\ CanAuthenticate(req[q].user) /\ a = [session |-> req[q].session, roles |-> roles[req[q].user]]
          /\ req[q].step = "rotated" /\ session' = session
      BY <1>2 DEF IssueAccess, Issue, At
    <2>2. session[req[q].session].user = req[q].user
      BY <2>1 DEF Known, RequestsKnow, RequestKnows
    <2>3. Standing(req[q].user) \subseteq req[q].seen
      BY <2>1 DEF SeenIsCurrent
    <2>4. Standing(req[q].user) = roles[req[q].user] \cup {"active"}
      BY <2>1 DEF Standing
    <2>. QED BY <2>1, <2>2, <2>3, <2>4
  <1>. QED BY <1>1, <1>2 DEF Next, vars, CountRequest, CheckCode, FindSession,
       CreateChallenge, WrongCode, RightCode, EnsureUser, RotateRefreshToken, RecogniseReuse,
       EndAfterClash, EndBarred, Fail, WindowRolls, CodeLapses, Logout, SessionExpires,
       LogoutAll, GrantRole, RevokeRole, SetStatus, AccessExpires

-----------------------------------------------------------------------------
(* Codes are guessed at and created only so often *)

LEMMA Finite ==
    /\ IsFiniteSet(Requests) /\ Cardinality(Requests) \in Nat
    /\ \A S \in SUBSET Requests :
          IsFiniteSet(S) /\ Cardinality(S) \in Nat /\ Cardinality(S) <= Cardinality(Requests)
    /\ \A S \in SUBSET Challenges : IsFiniteSet(S) /\ Cardinality(S) \in Nat
  <1>1. IsFiniteSet(Requests)
    BY IdentityAssumption
  <1>2. IsFiniteSet(Challenges)
    BY IdentityAssumption, FS_Interval DEF Challenges
  <1>3. \A S \in SUBSET Requests : IsFiniteSet(S) /\ Cardinality(S) <= Cardinality(Requests)
    BY <1>1, FS_Subset
  <1>4. \A S \in SUBSET Challenges : IsFiniteSet(S)
    BY <1>2, FS_Subset
  <1>. QED BY <1>1, <1>3, <1>4, FS_CardinalityType

\* A set of requests that grew by at most q, or lost q.
LEMMA Counts ==
    ASSUME NEW S \in SUBSET Requests, NEW T \in SUBSET Requests, NEW q \in Requests
    PROVE  /\ Cardinality(S) \in Nat /\ Cardinality(T) \in Nat
           /\ T \subseteq S => Cardinality(T) <= Cardinality(S)
           /\ T \subseteq S \cup {q} => Cardinality(T) <= Cardinality(S) + 1
           /\ q \in S /\ T \subseteq S \ {q} => Cardinality(T) + 1 <= Cardinality(S)
  <1>1. Cardinality(S) \in Nat /\ Cardinality(T) \in Nat /\ IsFiniteSet(S)
    BY Finite
  <1>2. T \subseteq S => Cardinality(T) <= Cardinality(S)
    BY <1>1, FS_Subset
  <1>3. T \subseteq S \cup {q} => Cardinality(T) <= Cardinality(S) + 1
    <2>1. /\ IsFiniteSet(S \cup {q})
          /\ Cardinality(S \cup {q}) = Cardinality(S) + 1 \/ Cardinality(S \cup {q}) = Cardinality(S)
      BY <1>1, FS_AddElement
    <2>2. T \subseteq S \cup {q} => Cardinality(T) <= Cardinality(S \cup {q})
      BY <2>1, FS_Subset
    <2>. QED BY <1>1, <2>1, <2>2
  <1>4. q \in S /\ T \subseteq S \ {q} => Cardinality(T) + 1 <= Cardinality(S)
    <2>1. /\ IsFiniteSet(S \ {q})
          /\ q \in S => Cardinality(S \ {q}) = Cardinality(S) - 1
      BY <1>1, FS_RemoveElement
    <2>2. T \subseteq S \ {q} => Cardinality(T) <= Cardinality(S \ {q})
      BY <2>1, FS_Subset
    <2>. QED BY <1>1, <2>1, <2>2
  <1>. QED BY <1>1, <1>2, <1>3, <1>4

LEMMA AttemptsStay ==
    ASSUME Known, [Next]_vars, NEW c \in Challenges,
           \A q \in Requests : WrongCode(q) => req[q].code # c
    PROVE  challenge'[c].attempts <= challenge[c].attempts
  <1>1. challenge \in [Challenges -> ChallengeRows] /\ challenge[c].attempts \in Nat
    BY DEF Known, TypeOK, ChallengeRows
  <1>2. CASE UNCHANGED challenge
    BY <1>1, <1>2
  <1>3. ASSUME NEW q \in Requests, CreateChallenge(q)
        PROVE  challenge'[c].attempts <= challenge[c].attempts
    <2>1. req[q].user \in Users /\ UnusedCodes # {} /\ challenge' = Superseding(req[q].user)
      BY <1>3 DEF CreateChallenge, At, Known, RequestsKnow, RequestKnows
    <2>2. CASE c = LeastOf(UnusedCodes)
      <3>1. challenge'[c] = [user |-> req[q].user, state |-> "live", attempts |-> 0]
        BY <2>1, <2>2, SupersedingRows DEF Known
      <3>2. challenge'[c].attempts = 0
        BY <3>1
      <3>. QED BY <1>1, <3>2
    <2>3. CASE c # LeastOf(UnusedCodes)
      <3>1. challenge'[c].attempts = challenge[c].attempts
        BY <2>1, <2>3, SupersedingRows DEF Known
      <3>. QED BY <1>1, <3>1
    <2>. QED BY <2>2, <2>3
  <1>4. ASSUME NEW q \in Requests, WrongCode(q)
        PROVE  challenge'[c].attempts <= challenge[c].attempts
    <2>1. challenge'[c] = challenge[c]
      BY <1>1, <1>4 DEF WrongCode, WithFailedAttempt
    <2>. QED BY <1>1, <2>1
  <1>5. ASSUME NEW q \in Requests, RightCode(q)
        PROVE  challenge'[c].attempts <= challenge[c].attempts
    <2>1. challenge'[c].attempts = challenge[c].attempts
      BY <1>1, <1>5 DEF RightCode, ChallengeRows
    <2>. QED BY <1>1, <2>1
  <1>6. ASSUME NEW d \in Challenges, CodeLapses(d)
        PROVE  challenge'[c].attempts <= challenge[c].attempts
    <2>1. challenge'[c].attempts = challenge[c].attempts
      BY <1>1, <1>6 DEF CodeLapses, ChallengeRows
    <2>. QED BY <1>1, <2>1
  <1>. QED BY <1>2, <1>3, <1>4, <1>5, <1>6 DEF Next, vars, CountRequest, CheckCode, FindSession,
       EnsureUser, OpenSession, RotateRefreshToken, RecogniseReuse, EndAfterClash, IssueAccess,
       EndBarred, Fail, WindowRolls, Logout, SessionExpires, LogoutAll, GrantRole, RevokeRole,
       SetStatus, AccessExpires

LEMMA GuessesKept ==
    ASSUME Known, GuessesCount, [Next]_vars
    PROVE  GuessesCount'
  <1>. SUFFICES ASSUME NEW c \in Challenges
                PROVE  challenge'[c].attempts + Cardinality(Guessing(c)')
                          < MaxAttempts + Cardinality(Requests)
    BY DEF GuessesCount
  <1>1. /\ challenge[c].attempts \in Nat /\ challenge'[c].attempts \in Nat
        /\ MaxAttempts \in Nat /\ Cardinality(Requests) \in Nat
        /\ Guessing(c) \in SUBSET Requests /\ Guessing(c)' \in SUBSET Requests
        /\ Cardinality(Guessing(c)) \in Nat /\ Cardinality(Guessing(c)') \in Nat
        /\ Cardinality(Guessing(c)') <= Cardinality(Requests)
    <2>1. Guessing(c) \in SUBSET Requests /\ Guessing(c)' \in SUBSET Requests
      BY DEF Guessing
    <2>2. challenge[c].attempts \in Nat /\ challenge'[c].attempts \in Nat
      BY KnownIsKept DEF Known, TypeOK
    <2>. QED BY <2>1, <2>2, Finite, IdentityAssumption
  <1>2. challenge[c].attempts + Cardinality(Guessing(c)) < MaxAttempts + Cardinality(Requests)
    BY DEF GuessesCount
  <1>3. CASE Guessing(c)' \subseteq Guessing(c)
    <2>1. ASSUME NEW q \in Requests, WrongCode(q), req[q].code = c
          PROVE  challenge'[c].attempts + Cardinality(Guessing(c)')
                    < MaxAttempts + Cardinality(Requests)
      <3>1. challenge'[c].attempts = challenge[c].attempts + 1
        BY <2>1 DEF WrongCode, WithFailedAttempt, Known, TypeOK
      <3>2. q \in Guessing(c)
        BY <2>1 DEF WrongCode, Guessing
      <3>3. q \notin Guessing(c)'
        <4>1. req'[q].step = "idle"
          BY <2>1, OwnSteps DEF WrongCode
        <4>. QED BY <4>1 DEF Guessing, At
      <3>4. Cardinality(Guessing(c)') + 1 <= Cardinality(Guessing(c))
        BY <1>1, <1>3, <3>2, <3>3, Counts
      <3>. QED BY <1>1, <1>2, <3>1, <3>4
    <2>2. CASE \A q \in Requests : WrongCode(q) => req[q].code # c
      <3>1. challenge'[c].attempts <= challenge[c].attempts
        BY <2>2, AttemptsStay
      <3>2. Cardinality(Guessing(c)') <= Cardinality(Guessing(c))
        BY <1>1, <1>3, FS_Subset, Finite
      <3>. QED BY <1>1, <1>2, <3>1, <3>2
    <2>. QED BY <2>1, <2>2
  <1>4. ASSUME NEW q \in Guessing(c)', q \notin Guessing(c)
        PROVE  challenge'[c].attempts + Cardinality(Guessing(c)')
                  < MaxAttempts + Cardinality(Requests)
    <2>1. q \in Requests /\ req'[q].step = "checked" /\ req'[q].code = c
      BY <1>4 DEF Guessing, At
    <2>2. ~Same(q)
      BY <1>4, <2>1 DEF Guessing, At, Same
    <2>3. PICK u \in Users : CheckCode(q, u)
      BY <2>1, <2>2, Moves DEF Origin
    <2>4. PICK d \in LiveChallenge(u) :
              Usable(d) /\ Goto(q, [Idle EXCEPT !.step = "checked", !.user = u, !.code = d])
      BY <2>3 DEF CheckCode
    <2>5. req'[q].code = d
      BY <2>1, <2>4 DEF Goto, Idle, Known, TypeOK
    <2>6. challenge'[c].attempts < MaxAttempts
      BY <2>1, <2>3, <2>4, <2>5 DEF CheckCode, Usable
    <2>. QED BY <1>1, <2>6
  <1>. QED BY <1>3, <1>4

LEMMA CodesKept ==
    ASSUME Known, CodesCount, [Next]_vars
    PROVE  CodesCount'
  <1>. SUFFICES ASSUME NEW u \in Users
                PROVE  Cardinality(Codes(u)') + Cardinality(Asking(u)') + OTPLimit
                          <= allowed'[u] + Admitted(u)'
    BY DEF CodesCount
  <1>1. /\ OTPLimit \in Nat /\ used[u] \in Nat /\ used'[u] \in Nat
        /\ allowed[u] \in Nat /\ allowed'[u] \in Nat
    BY KnownIsKept, IdentityAssumption DEF Known, TypeOK
  <1>2. /\ Asking(u) \in SUBSET Requests /\ Asking(u)' \in SUBSET Requests
        /\ Codes(u) \in SUBSET Challenges /\ Codes(u)' \in SUBSET Challenges
    BY DEF Asking, Codes
  <1>3. /\ Cardinality(Codes(u)) \in Nat /\ Cardinality(Codes(u)') \in Nat
        /\ Cardinality(Asking(u)) \in Nat /\ Cardinality(Asking(u)') \in Nat
    BY <1>2, Finite
  <1>4. Cardinality(Codes(u)) + Cardinality(Asking(u)) + OTPLimit <= allowed[u] + Admitted(u)
    BY DEF CodesCount
  <1>5. ASSUME NEW q \in Requests, NEW w \in Users, CountRequest(q, w)
        PROVE  Cardinality(Codes(u)') + Cardinality(Asking(u)') + OTPLimit
                  <= allowed'[u] + Admitted(u)'
    <2>1. Codes(u)' = Codes(u)
      BY <1>5 DEF CountRequest, Codes
    <2>2. \A e \in Requests : e # q => req'[e] = req[e]
      BY <1>5 DEF CountRequest, Goto, Known, TypeOK
    <2>3. req'[q].user = w
      BY <1>5, OwnSteps
    <2>4. CASE w = u
      <3>1. Asking(u)' \subseteq Asking(u) \cup {q}
        BY <2>2 DEF Asking, At
      <3>2. Cardinality(Asking(u)') <= Cardinality(Asking(u)) + 1
        BY <1>2, <3>1, Counts
      <3>3. \/ allowed'[u] = allowed[u] /\ Admitted(u)' = Admitted(u) + 1
            \/ allowed'[u] = allowed[u] + 1 /\ Admitted(u)' = Admitted(u)
        <4>1. CASE used' = Counted(u) /\ Counted(u)[u] <= OTPLimit /\ UNCHANGED allowed
          <5>1. Counted(u)[u] = IF used[u] > OTPLimit THEN used[u] ELSE used[u] + 1
            BY DEF Counted, Known, TypeOK
          <5>2. used[u] <= OTPLimit /\ used'[u] = used[u] + 1 /\ used'[u] <= OTPLimit
            BY <1>1, <4>1, <5>1
          <5>. QED BY <1>1, <4>1, <5>2 DEF Admitted
        <4>2. CASE allowed' = [allowed EXCEPT ![u] = @ + 1] /\ UNCHANGED used
          BY <4>2 DEF Admitted, Known, TypeOK
        <4>. QED BY <1>5, <2>4, <4>1, <4>2 DEF CountRequest
      <3>4. Admitted(u) \in Nat
        BY <1>1 DEF Admitted
      <3>. QED BY <1>1, <1>3, <1>4, <2>1, <3>2, <3>3, <3>4
    <2>5. CASE w # u
      <3>1. Asking(u)' \subseteq Asking(u)
        BY <2>2, <2>3, <2>5 DEF Asking, At
      <3>2. Cardinality(Asking(u)') <= Cardinality(Asking(u))
        BY <1>2, <3>1, Finite, FS_Subset
      <3>3. used'[u] = used[u] /\ allowed'[u] = allowed[u]
        BY <1>5, <2>5 DEF CountRequest, Counted, Known, TypeOK
      <3>4. Admitted(u)' = Admitted(u) /\ Admitted(u) \in Nat
        BY <1>1, <3>3 DEF Admitted
      <3>. QED BY <1>1, <1>3, <1>4, <2>1, <3>2, <3>3, <3>4
    <2>. QED BY <2>4, <2>5
  <1>6. CASE \A q \in Requests, w \in Users : ~CountRequest(q, w)
    <2>1. Asking(u)' \subseteq Asking(u)
      <3>1. ASSUME NEW q \in Asking(u)' PROVE q \in Asking(u)
        <4>1. q \in Requests /\ req'[q].step = "counted" /\ req'[q].user = u
          BY DEF Asking, At
        <4>2. Same(q)
          BY <1>6, <4>1, Moves DEF Origin
        <4>. QED BY <4>1, <4>2 DEF Same, Asking, At
      <3>. QED BY <3>1
    <2>2. Cardinality(Asking(u)') <= Cardinality(Asking(u))
      BY <1>2, <2>1, Finite, FS_Subset
    <2>3. ASSUME NEW q \in Requests, CreateChallenge(q)
          PROVE  Cardinality(Codes(u)') + Cardinality(Asking(u)') + OTPLimit
                    <= allowed'[u] + Admitted(u)'
      <3>. DEFINE new == LeastOf(UnusedCodes)
      <3>1. /\ req[q].step = "counted" /\ req[q].user \in Users /\ UnusedCodes # {}
            /\ challenge' = Superseding(req[q].user)
            /\ used' = used /\ allowed' = allowed /\ Done(q)
        BY <2>3 DEF CreateChallenge, At, Known, RequestsKnow, RequestKnows
      <3>2. /\ new \in Challenges /\ challenge[new].user = None /\ challenge'[new].user = req[q].user
            /\ \A c \in Challenges \ {new} : challenge'[c].user = challenge[c].user
        <4>1. /\ new \in Challenges /\ challenge[new].state = "none"
              /\ challenge'[new] = [user |-> req[q].user, state |-> "live", attempts |-> 0]
              /\ \A c \in Challenges \ {new} : challenge'[c].user = challenge[c].user
          BY <3>1, SupersedingRows DEF Known
        <4>2. challenge[new].user = None
          BY <4>1 DEF Known, RowsAgree
        <4>3. challenge'[new].user = req[q].user
          BY <4>1
        <4>. HIDE DEF new
        <4>. QED BY <4>1, <4>2, <4>3
      <3>3. Admitted(u)' = Admitted(u) /\ Admitted(u) \in Nat
        BY <1>1, <3>1 DEF Admitted
      <3>4. CASE req[q].user = u
        <4>1. Codes(u)' \subseteq Codes(u) \cup {new}
          BY <3>2 DEF Codes
        <4>2. Cardinality(Codes(u)') <= Cardinality(Codes(u)) + 1
          <5>1. /\ IsFiniteSet(Codes(u) \cup {new})
                /\ \/ Cardinality(Codes(u) \cup {new}) = Cardinality(Codes(u)) + 1
                   \/ Cardinality(Codes(u) \cup {new}) = Cardinality(Codes(u))
            BY <1>2, Finite, FS_AddElement
          <5>2. Cardinality(Codes(u)') <= Cardinality(Codes(u) \cup {new})
            BY <4>1, <5>1, FS_Subset
          <5>. QED BY <1>3, <5>1, <5>2
        <4>3. q \in Asking(u)
          BY <3>1, <3>4 DEF Asking, At
        <4>4. q \notin Asking(u)'
          <5>1. req'[q].step = "idle"
            BY <3>1, OwnSteps
          <5>. QED BY <5>1 DEF Asking, At
        <4>5. Cardinality(Asking(u)') + 1 <= Cardinality(Asking(u))
          BY <1>2, <2>1, <4>3, <4>4, Counts
        <4>. QED BY <1>1, <1>3, <1>4, <3>1, <3>3, <4>2, <4>5
      <3>5. CASE req[q].user # u
        <4>1. Codes(u)' = Codes(u)
          BY <3>2, <3>5, Ids DEF Codes
        <4>. QED BY <1>1, <1>3, <1>4, <2>2, <3>1, <3>3, <4>1
      <3>. QED BY <3>4, <3>5
    <2>4. CASE WindowRolls
      <3>1. Codes(u)' = Codes(u) /\ allowed'[u] = allowed[u] + OTPLimit /\ used'[u] = 0
        BY <2>4 DEF WindowRolls, Codes
      <3>2. Admitted(u)' = 0 /\ Admitted(u) \in Nat /\ Admitted(u) <= OTPLimit
        BY <1>1, <3>1 DEF Admitted
      <3>. QED BY <1>1, <1>3, <1>4, <2>2, <3>1, <3>2
    <2>5. CASE UNCHANGED <<used, allowed>> /\ \A c \in Challenges : challenge'[c].user = challenge[c].user
      <3>1. Codes(u)' = Codes(u)
        BY <2>5 DEF Codes
      <3>2. Admitted(u)' = Admitted(u) /\ Admitted(u) \in Nat
        BY <1>1, <2>5 DEF Admitted
      <3>. QED BY <1>1, <1>3, <1>4, <2>2, <2>5, <3>1, <3>2
    <2>6. ASSUME NEW q \in Requests, WrongCode(q) \/ RightCode(q)
          PROVE  UNCHANGED <<used, allowed>> /\ \A c \in Challenges : challenge'[c].user = challenge[c].user
      <3>1. challenge \in [Challenges -> ChallengeRows]
        BY DEF Known, TypeOK, ChallengeRows
      <3>2. CASE WrongCode(q)
        BY <3>1, <3>2 DEF WrongCode, WithFailedAttempt, ChallengeRows
      <3>3. CASE RightCode(q)
        BY <3>1, <3>3 DEF RightCode, ChallengeRows
      <3>. QED BY <2>6, <3>2, <3>3
    <2>7. ASSUME NEW d \in Challenges, CodeLapses(d)
          PROVE  UNCHANGED <<used, allowed>> /\ \A c \in Challenges : challenge'[c].user = challenge[c].user
      BY <2>7 DEF CodeLapses, Known, TypeOK
    <2>. QED BY <1>6, <2>3, <2>4, <2>5, <2>6, <2>7 DEF Next, vars, CheckCode, FindSession,
         EnsureUser, OpenSession, RotateRefreshToken, RecogniseReuse, EndAfterClash, IssueAccess,
         EndBarred, Fail, Logout, SessionExpires, LogoutAll, GrantRole, RevokeRole,
         SetStatus, AccessExpires
  <1>. QED BY <1>5, <1>6

-----------------------------------------------------------------------------
(* The invariant *)

LEMMA InitIInv == Init => IInv
  <1>. SUFFICES ASSUME Init PROVE IInv
    OBVIOUS
  <1>. USE Ids
  <1>1. TypeOK
    BY IdentityAssumption DEF Init, TypeOK, Idle, Steps
  <1>2. RowsAgree
    BY DEF Init, RowsAgree
  <1>3. \A q \in Requests : req[q].step = "idle"
    BY DEF Init, Idle
  <1>4. RequestsKnow
    BY <1>3 DEF RequestsKnow, RequestKnows
  <1>5. ConsumedOnce /\ LoginsMatchCodes /\ SeenIsCurrent
    BY <1>3 DEF Init, ConsumedOnce, Consumed, LoginsMatchCodes, SeenIsCurrent
  <1>6. Cardinality({}) = 0
    BY FS_EmptySet
  <1>7. GuessesCount
    <2>1. ASSUME NEW c \in Challenges
          PROVE  challenge[c].attempts + Cardinality(Guessing(c)) < MaxAttempts + Cardinality(Requests)
      <3>1. Guessing(c) = {} /\ challenge[c].attempts = 0
        BY <1>3 DEF Guessing, At, Init
      <3>2. MaxAttempts \in Nat \ {0} /\ Cardinality(Requests) \in Nat
        BY IdentityAssumption, Finite
      <3>. QED BY <1>6, <3>1, <3>2
    <2>. QED BY <2>1 DEF GuessesCount
  <1>8. CodesCount
    <2>1. ASSUME NEW u \in Users
          PROVE  Cardinality(Codes(u)) + Cardinality(Asking(u)) + OTPLimit <= allowed[u] + Admitted(u)
      <3>1. Asking(u) = {} /\ Codes(u) = {} /\ allowed[u] = OTPLimit /\ used[u] = 0
        BY <1>3 DEF Asking, At, Codes, Init
      <3>2. OTPLimit \in Nat
        BY IdentityAssumption
      <3>3. Admitted(u) = 0
        BY <3>1, <3>2 DEF Admitted
      <3>. QED BY <1>6, <3>1, <3>2, <3>3
    <2>. QED BY <2>1 DEF CodesCount
  <1>. QED BY <1>1, <1>2, <1>4, <1>5, <1>7, <1>8 DEF IInv, Known

LEMMA IInvIsKept ==
    ASSUME IInv, [Next]_vars
    PROVE  IInv'
  <1>1. Known'
    BY KnownIsKept DEF IInv
  <1>2. ConsumedOnce' /\ LoginsMatchCodes'
    BY LoginsKept DEF IInv
  <1>3. SeenIsCurrent'
    BY SeenKept DEF IInv
  <1>4. GuessesCount' /\ CodesCount'
    BY GuessesKept, CodesKept DEF IInv
  <1>. QED BY <1>1, <1>2, <1>3, <1>4 DEF IInv

LEMMA Inductive == Spec => []IInv
  <1>1. IInv /\ [Next]_vars => IInv'
    BY IInvIsKept
  <1>. QED BY InitIInv, <1>1, PTL DEF Spec

-----------------------------------------------------------------------------
(* Theorems *)

\* Rows, requests and counts stay what the code declares them to be.
THEOREM TypeCorrect == Spec => []TypeOK
  <1>1. IInv => TypeOK
    BY DEF IInv, Known
  <1>. QED BY <1>1, Inductive, PTL

\* Whatever races, fails or waits on a limiter that comes and goes: a code is
\* guessed at and created only so often and opens one session, its own user's
\* (VerifyOTP, RequestOTP, ConsumeChallenge).
THEOREM CodesStayScarce == Spec => []CodesAreScarce
  <1>1. IInv => CodesAreScarce
    <2>. SUFFICES ASSUME IInv PROVE CodesAreScarce
      OBVIOUS
    <2>1. AttemptsBounded
      <3>1. ASSUME NEW c \in Challenges
            PROVE  challenge[c].attempts < MaxAttempts + Cardinality(Requests)
        <4>1. Guessing(c) \in SUBSET Requests
          BY DEF Guessing
        <4>2. Cardinality(Guessing(c)) \in Nat /\ Cardinality(Requests) \in Nat
          BY <4>1, Finite
        <4>3. challenge[c].attempts + Cardinality(Guessing(c)) < MaxAttempts + Cardinality(Requests)
          BY DEF IInv, GuessesCount
        <4>4. challenge[c].attempts \in Nat /\ MaxAttempts \in Nat
          BY IdentityAssumption DEF IInv, Known, TypeOK
        <4>. QED BY <4>2, <4>3, <4>4
      <3>. QED BY <3>1 DEF AttemptsBounded
    <2>2. CodesAreRationed
      <3>1. ASSUME NEW u \in Users
            PROVE  Cardinality(Codes(u)) <= allowed[u]
        <4>1. Asking(u) \in SUBSET Requests /\ Codes(u) \in SUBSET Challenges
          BY DEF Asking, Codes
        <4>2. Cardinality(Asking(u)) \in Nat /\ Cardinality(Codes(u)) \in Nat
          BY <4>1, Finite
        <4>3. Cardinality(Codes(u)) + Cardinality(Asking(u)) + OTPLimit <= allowed[u] + Admitted(u)
          BY DEF IInv, CodesCount
        <4>4. allowed[u] \in Nat /\ used[u] \in Nat /\ OTPLimit \in Nat
          BY IdentityAssumption DEF IInv, Known, TypeOK
        <4>5. Admitted(u) \in Nat /\ Admitted(u) <= OTPLimit
          BY <4>4 DEF Admitted
        <4>. QED BY <4>2, <4>3, <4>4, <4>5
      <3>. QED BY <3>1 DEF CodesAreRationed, Codes
    <2>. QED BY <2>1, <2>2 DEF CodesAreScarce, IInv
  <1>. QED BY <1>1, Inductive, PTL

\* A new access token is for an account and carries roles that were the user's
\* at some moment since the request looked them up (VerifyOTP, Refresh).
THEOREM AccessStaysCurrent == Spec => AccessIsCurrent
  <1>1. IInv /\ [Next]_vars =>
          [\A a \in access' \ access :
              \E q \in Requests : /\ req[q].user = session'[a.session].user
                                  /\ a.roles \cup {"active"} \subseteq req[q].seen]_vars
    BY NewAccess DEF IInv
  <1>. QED BY <1>1, Inductive, PTL DEF Spec, AccessIsCurrent

-----------------------------------------------------------------------------
(* Refresh tokens go through the life of TokenChain *)

\* The life of a token is its one session's, or that of its retired row.
LEMMA LifeIsTheHolders ==
    ASSUME Known, Known', NEW t \in Tokens
    PROVE  /\ \A s \in Sessions : session[s].token = t =>
                 Life[t] = IF session[s].life = "revoked" THEN "ended" ELSE "current"
           /\ (\A s \in Sessions : session[s].token # t) =>
                 Life[t] = IF retired[t] # None THEN "exchanged" ELSE "unused"
           /\ \A s \in Sessions : session'[s].token = t =>
                 Life'[t] = IF session'[s].life = "revoked" THEN "ended" ELSE "current"
           /\ (\A s \in Sessions : session'[s].token # t) =>
                 Life'[t] = IF retired'[t] # None THEN "exchanged" ELSE "unused"
  <1>. USE Ids
  <1>1. ASSUME NEW s \in Sessions, session[s].token = t
        PROVE  Life[t] = IF session[s].life = "revoked" THEN "ended" ELSE "current"
    <2>1. Holding(t) = {s}
      BY <1>1 DEF Holding, Known, RowsAgree
    <2>. QED BY <2>1 DEF Life, Revoked
  <1>2. ASSUME NEW s \in Sessions, session'[s].token = t
        PROVE  Life'[t] = IF session'[s].life = "revoked" THEN "ended" ELSE "current"
    <2>1. Holding(t)' = {s}
      BY <1>2 DEF Holding, Known, RowsAgree
    <2>. QED BY <2>1 DEF Life, Revoked
  <1>3. ASSUME \A s \in Sessions : session[s].token # t
        PROVE  Life[t] = IF retired[t] # None THEN "exchanged" ELSE "unused"
    <2>1. Holding(t) = {}
      BY <1>3 DEF Holding
    <2>. QED BY <2>1 DEF Life
  <1>4. ASSUME \A s \in Sessions : session'[s].token # t
        PROVE  Life'[t] = IF retired'[t] # None THEN "exchanged" ELSE "unused"
    <2>1. Holding(t)' = {}
      BY <1>4 DEF Holding
    <2>. QED BY <2>1 DEF Life
  <1>. QED BY <1>1, <1>2, <1>3, <1>4

\* Sessions that keep their tokens and stay ended end tokens, if any.
LEMMA EndsTokens ==
    ASSUME Known, Known', retired' = retired,
           \A s \in Sessions : /\ session'[s].token = session[s].token
                               /\ session[s].life = "revoked" => session'[s].life = "revoked"
    PROVE  Chain!Next
  <1>. DEFINE T == {t \in Tokens : Life[t] = "current" /\ Life'[t] = "ended"}
  <1>1. ASSUME NEW t \in Tokens
        PROVE  Life'[t] = Life[t] \/ (Life[t] = "current" /\ Life'[t] = "ended")
    <2>1. ASSUME NEW s \in Sessions, session[s].token = t
          PROVE  Life'[t] = Life[t] \/ (Life[t] = "current" /\ Life'[t] = "ended")
      <3>1. Life[t] = IF session[s].life = "revoked" THEN "ended" ELSE "current"
        BY <2>1, LifeIsTheHolders
      <3>2. Life'[t] = IF session'[s].life = "revoked" THEN "ended" ELSE "current"
        BY <2>1, LifeIsTheHolders
      <3>. QED BY <3>1, <3>2
    <2>2. ASSUME \A s \in Sessions : session[s].token # t
          PROVE  Life'[t] = Life[t]
      <3>1. Life[t] = IF retired[t] # None THEN "exchanged" ELSE "unused"
        BY <2>2, LifeIsTheHolders
      <3>2. Life'[t] = IF retired'[t] # None THEN "exchanged" ELSE "unused"
        BY <2>2, LifeIsTheHolders
      <3>. QED BY <3>1, <3>2
    <2>. QED BY <2>1, <2>2
  <1>2. Life' = [t \in Tokens |-> Life'[t]]
    BY DEF Life
  <1>3. Life' = [t \in Tokens |-> IF t \in T THEN "ended" ELSE Life[t]]
    BY <1>1, <1>2
  <1>4. Chain!End(T)
    BY <1>3 DEF Chain!End
  <1>. QED BY <1>4 DEF Chain!Next

LEMMA LoginIssues ==
    ASSUME Known, Known', NEW q \in Requests, OpenSession(q)
    PROVE  Chain!Next
  <1>. DEFINE s == LeastOf(UnusedIds)
              new == LeastOf(UnusedTokens)
  <1>. USE Ids
  <1>1. /\ s \in Sessions /\ session[s].user = None /\ new \in Tokens
        /\ \A z \in Sessions : session[z].token # new
        /\ retired[new] = None /\ retired' = retired
        /\ session' = [session EXCEPT ![s] = [user |-> req[q].user, token |-> new, life |-> "open"]]
    BY NewSession DEF UnusedTokens, Holding
  <1>2. session[s].token = None
    BY <1>1 DEF Known, RowsAgree
  <1>3. session'[s].token = new /\ session'[s].life = "open"
    BY <1>1 DEF Known, TypeOK
  <1>4. \A z \in Sessions : z # s => session'[z] = session[z]
    BY <1>1 DEF Known, TypeOK
  <1>. HIDE DEF s, new
  <1>5. Life[new] = "unused"
    BY <1>1, LifeIsTheHolders
  <1>6. Life'[new] = "current"
    BY <1>1, <1>3, LifeIsTheHolders
  <1>7. ASSUME NEW t \in Tokens, t # new
        PROVE  Life'[t] = Life[t]
    <2>1. ASSUME NEW z \in Sessions, session[z].token = t
          PROVE  Life'[t] = Life[t]
      <3>1. z # s /\ session'[z] = session[z]
        BY <1>2, <1>4, <2>1
      <3>2. Life[t] = IF session[z].life = "revoked" THEN "ended" ELSE "current"
        BY <2>1, LifeIsTheHolders
      <3>3. Life'[t] = IF session'[z].life = "revoked" THEN "ended" ELSE "current"
        BY <2>1, <3>1, LifeIsTheHolders
      <3>. QED BY <3>1, <3>2, <3>3
    <2>2. ASSUME \A z \in Sessions : session[z].token # t
          PROVE  Life'[t] = Life[t]
      <3>1. \A z \in Sessions : session'[z].token # t
        BY <1>3, <1>4, <1>7, <2>2
      <3>2. Life[t] = IF retired[t] # None THEN "exchanged" ELSE "unused"
        BY <2>2, LifeIsTheHolders
      <3>3. Life'[t] = IF retired'[t] # None THEN "exchanged" ELSE "unused"
        BY <3>1, LifeIsTheHolders
      <3>. QED BY <1>1, <3>2, <3>3
    <2>. QED BY <2>1, <2>2
  <1>8. Life' = [t \in Tokens |-> Life'[t]] /\ Life = [t \in Tokens |-> Life[t]]
    BY DEF Life
  <1>9. Life' = [Life EXCEPT ![new] = "current"]
    BY <1>1, <1>6, <1>7, <1>8
  <1>10. Chain!Issue(new)
    BY <1>5, <1>9 DEF Chain!Issue
  <1>. QED BY <1>1, <1>10 DEF Chain!Next

LEMMA RefreshExchanges ==
    ASSUME Known, Known', NEW q \in Requests, RotateRefreshToken(q)
    PROVE  Chain!Next
  <1>. USE Ids
  <1>. DEFINE s == req[q].session
              t == req[q].token
              new == LeastOf(UnusedTokens)
  <1>1. /\ s \in Sessions /\ t \in Tokens /\ new \in Tokens /\ retired[new] = None
        /\ \A z \in Sessions : session[z].token # new
    BY NewIds DEF RotateRefreshToken, At, Known, RequestsKnow, RequestKnows, UnusedTokens, Holding
  <1>2. CASE UNCHANGED <<session, retired>>
    BY <1>2, EndsTokens
  <1>3. CASE /\ session[s].token = t /\ ~Revoked(s)
             /\ session' = Rotated(s) /\ retired' = [retired EXCEPT ![t] = s]
    <2>1. session'[s].token = new /\ session'[s].life = "open"
      <3>1. session \in [Sessions -> SessionRows]
        BY DEF Known, TypeOK, SessionRows
      <3>2. session' = [session EXCEPT ![s] = [session[s] EXCEPT !.token = new, !.life = "open"]]
        BY <1>1, <1>3, <3>1 DEF Rotated, SessionRows
      <3>3. session'[s] = [session[s] EXCEPT !.token = new, !.life = "open"]
        BY <1>1, <3>1, <3>2
      <3>4. session[s] \in SessionRows
        BY <1>1, <3>1
      <3>. QED BY <3>3, <3>4 DEF SessionRows
    <2>2. \A z \in Sessions : z # s => session'[z] = session[z]
      <3>1. session \in [Sessions -> SessionRows]
        BY DEF Known, TypeOK, SessionRows
      <3>. QED BY <1>1, <1>3, <3>1 DEF Rotated
    <2>3. retired'[t] = s /\ \A x \in Tokens : x # t => retired'[x] = retired[x]
      BY <1>1, <1>3 DEF Known, TypeOK
    <2>4. ASSUME NEW z \in Sessions, session[z].token = t
          PROVE  z = s
      <3>1. session[z].token = session[s].token /\ session[z].token # None
        BY <1>1, <1>3, <2>4
      <3>. QED BY <1>1, <3>1 DEF Known, RowsAgree
    <2>5. session[s].token = t /\ session[s].life # "revoked" /\ t # new
      BY <1>1, <1>3 DEF Revoked
    <2>. HIDE DEF s, t, new
    <2>6. Life[t] = "current" /\ Life[new] = "unused"
      <3>1. Life[t] = "current"
        BY <1>1, <2>5, LifeIsTheHolders
      <3>2. Life[new] = "unused"
        BY <1>1, LifeIsTheHolders
      <3>. QED BY <3>1, <3>2
    <2>7. Life'[new] = "current"
      BY <1>1, <2>1, LifeIsTheHolders
    <2>8. Life'[t] = "exchanged"
      <3>1. \A z \in Sessions : session'[z].token # t
        BY <2>1, <2>2, <2>4, <2>5
      <3>2. retired'[t] # None
        BY <1>1, <2>3
      <3>. QED BY <1>1, <3>1, <3>2, LifeIsTheHolders
    <2>9. ASSUME NEW x \in Tokens, x # t, x # new
          PROVE  Life'[x] = Life[x]
      <3>1. ASSUME NEW z \in Sessions, session[z].token = x
            PROVE  Life'[x] = Life[x]
        <4>1. z # s /\ session'[z] = session[z]
          BY <2>2, <2>5, <2>9, <3>1
        <4>2. Life[x] = IF session[z].life = "revoked" THEN "ended" ELSE "current"
          BY <3>1, LifeIsTheHolders
        <4>3. Life'[x] = IF session'[z].life = "revoked" THEN "ended" ELSE "current"
          BY <3>1, <4>1, LifeIsTheHolders
        <4>. QED BY <4>1, <4>2, <4>3
      <3>2. ASSUME \A z \in Sessions : session[z].token # x
            PROVE  Life'[x] = Life[x]
        <4>1. \A z \in Sessions : session'[z].token # x
          BY <2>1, <2>2, <2>9, <3>2
        <4>2. Life[x] = IF retired[x] # None THEN "exchanged" ELSE "unused"
          BY <3>2, LifeIsTheHolders
        <4>3. Life'[x] = IF retired'[x] # None THEN "exchanged" ELSE "unused"
          BY <4>1, LifeIsTheHolders
        <4>. QED BY <2>3, <2>9, <4>2, <4>3
      <3>. QED BY <3>1, <3>2
    <2>10. Life' = [x \in Tokens |-> Life'[x]] /\ Life = [x \in Tokens |-> Life[x]]
      BY DEF Life
    <2>11. Life' = [Life EXCEPT ![t] = "exchanged", ![new] = "current"]
      BY <1>1, <2>5, <2>7, <2>8, <2>9, <2>10
    <2>12. Chain!Exchange(t, new)
      BY <2>6, <2>11 DEF Chain!Exchange
    <2>. QED BY <1>1, <2>12 DEF Chain!Next
  <1>. QED BY <1>2, <1>3 DEF RotateRefreshToken

LEMMA EndingsEnd ==
    ASSUME Known, Known', [Next]_vars,
           \A q \in Requests : ~OpenSession(q) /\ ~RotateRefreshToken(q)
    PROVE  Chain!Next
  <1>1. CASE UNCHANGED <<session, retired>>
    BY <1>1, EndsTokens
  <1>2. ASSUME NEW q \in Requests, EndAfterClash(q)
        PROVE  Chain!Next
    <2>1. req[q].user \in Users /\ session' = RevokeUserSessions(req[q].user) /\ retired' = retired
      BY <1>2 DEF EndAfterClash, At, Known, RequestsKnow, RequestKnows
    <2>2. \A s \in Sessions : /\ session'[s].token = session[s].token
                              /\ session[s].life = "revoked" => session'[s].life = "revoked"
      BY <2>1, Revocations DEF Known
    <2>. QED BY <2>1, <2>2, EndsTokens
  <1>3. ASSUME NEW q \in Requests, EndBarred(q)
        PROVE  Chain!Next
    <2>1. req[q].session \in Sessions /\ session' = RevokeSession(req[q].session) /\ retired' = retired
      BY <1>3 DEF EndBarred, At, Known, RequestsKnow, RequestKnows
    <2>2. \A s \in Sessions : /\ session'[s].token = session[s].token
                              /\ session[s].life = "revoked" => session'[s].life = "revoked"
      BY <2>1, Revocations DEF Known
    <2>. QED BY <2>1, <2>2, EndsTokens
  <1>4. ASSUME NEW s \in Sessions, Logout(s)
        PROVE  Chain!Next
    <2>1. session' = RevokeSession(s) /\ retired' = retired
      BY <1>4 DEF Logout
    <2>2. \A z \in Sessions : /\ session'[z].token = session[z].token
                              /\ session[z].life = "revoked" => session'[z].life = "revoked"
      BY <2>1, Revocations DEF Known
    <2>. QED BY <2>1, <2>2, EndsTokens
  <1>5. ASSUME NEW u \in Users, LogoutAll(u)
        PROVE  Chain!Next
    <2>1. session' = RevokeUserSessions(u) /\ retired' = retired
      BY <1>5 DEF LogoutAll
    <2>2. \A z \in Sessions : /\ session'[z].token = session[z].token
                              /\ session[z].life = "revoked" => session'[z].life = "revoked"
      BY <2>1, Revocations DEF Known
    <2>. QED BY <2>1, <2>2, EndsTokens
  <1>6. ASSUME NEW s \in Sessions, SessionExpires(s)
        PROVE  Chain!Next
    <2>1. /\ session' = [session EXCEPT ![s].life = "expired"] /\ retired' = retired
          /\ session[s].life = "open"
      BY <1>6 DEF SessionExpires, Active
    <2>2. \A z \in Sessions :
             /\ session'[z].token = session[z].token
             /\ session'[z].life = IF z = s THEN "expired" ELSE session[z].life
      BY <2>1, Revocations DEF Known
    <2>. QED BY <2>1, <2>2, EndsTokens
  <1>. QED BY <1>1, <1>2, <1>3, <1>4, <1>5, <1>6 DEF Next, vars, CountRequest, CheckCode, FindSession,
       CreateChallenge, WrongCode, RightCode, EnsureUser, RecogniseReuse, IssueAccess, Fail,
       WindowRolls, CodeLapses, GrantRole, RevokeRole, SetStatus, AccessExpires

\* The sessions and retired rows implement the chain of tokens: each is current
\* once, exchanged once for one new token, and never after its session was ended
\* (RotateRefreshToken, detectReuse, Logout).
THEOREM ImplementsChain == Spec => ChainSpec
  <1>1. Init => Chain!Init
    <2>. SUFFICES ASSUME Init PROVE Chain!Init
      OBVIOUS
    <2>1. \A t \in Tokens : Holding(t) = {} /\ retired[t] = None
      BY Ids DEF Init, Holding
    <2>. QED BY <2>1 DEF Chain!Init, Life
  <1>2. IInv /\ [Next]_vars => [Chain!Next]_Life
    <2>. SUFFICES ASSUME IInv, [Next]_vars PROVE Chain!Next
      OBVIOUS
    <2>1. Known /\ Known'
      BY KnownIsKept DEF IInv
    <2>. QED BY <2>1, LoginIssues, RefreshExchanges, EndingsEnd
  <1>. QED BY <1>1, <1>2, Inductive, PTL DEF Spec, ChainSpec, Chain!Spec

=============================================================================
