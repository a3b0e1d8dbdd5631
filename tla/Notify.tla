------------------------------- MODULE Notify -------------------------------
(***************************************************************************)
(* Notifications (internal/notify): an event becomes one row per phone of  *)
(* its recipient, and the workers of the API processes drain the rows      *)
(* through a push provider.  Devices register, sign out and change hands   *)
(* meanwhile; a process may die and a statement may fail at any point.     *)
(*                                                                         *)
(* A step is one SQL statement, one transaction or one call to the         *)
(* provider.  The provider is external: it accepts, says that a token is   *)
(* dead, or fails.                                                         *)
(***************************************************************************)
EXTENDS Naturals, FiniteSets

CONSTANTS Users, Phones,  \* accounts, and the device ids a client sends
          Tokens,         \* push tokens
          Events,         \* one per job and status (keyFor)
          To,             \* To[e]: the recipient
          Category,       \* Category[e]
          Callers,        \* requests that call Notify
          Workers,        \* one per API process
          MaxAttempts,
          Batch,          \* bound on a claim
          MaxCalls,       \* bound on calls of Notify
          MaxMoves,       \* bound on what users do to devices and settings
          MaxFaults       \* bound on crashes and failed statements

Categories == {"RIDE", "DELIVERY", "ORDER", "PAYMENT", "SAFETY", "SUPPORT", "MARKETING"}

ASSUME NotifyAssumption ==
    /\ To \in [Events -> Users] /\ Category \in [Events -> Categories]
    /\ MaxAttempts \in Nat \ {0} /\ Batch \in Nat \ {0}
    /\ {MaxCalls, MaxMoves, MaxFaults} \subseteq Nat

Inbox   == "inbox"
NoToken == "no token"
Unread  == "unread"

ASSUME TokenAssumption == {NoToken, Unread} \cap Tokens = {}

\* The idempotency key of a row: its event, and the phone it is for.
Keys    == Events \X (Phones \cup {Inbox})
Devices == Users \X Phones
DeviceOf(k) == <<To[k[1]], k[2]>>

Statuses == {"ABSENT", "QUEUED", "SENDING", "SENT", "FAILED", "SUPPRESSED"}

VARIABLES
    device,    \* device_tokens: token and status by account and device id
    muted,     \* the accounts that opted out, of all that may be opted out of
    row,       \* notifications, by key
    call,      \* where a call of Notify is
    worker,    \* where a worker is in its pass
    accepted,  \* (history) how often the provider took a notification
    calls, moves, faults

vars == <<device, muted, row, call, worker, accepted, calls, moves, faults>>
bounds == <<calls, moves, faults>>

Waiting == [step |-> "idle"]
Resting == [step |-> "idle", hand |-> <<>>]

TypeOK ==
    /\ device \in [Devices -> [token : Tokens \cup {NoToken},
                               status : {"ABSENT", "ACTIVE", "RETIRED", "REVOKED"}]]
    /\ muted \subseteq Users
    /\ row \in [Keys -> [status : Statuses, attempts : 0..MaxAttempts]]
    \* A queued row can be claimed, and only a claim counts an attempt.
    /\ \A k \in Keys :
          /\ row[k].status = "QUEUED" => row[k].attempts < MaxAttempts
          /\ row[k].status \in {"SENDING", "SENT", "FAILED"} <=> row[k].status # "QUEUED" /\ row[k].attempts > 0
    /\ \A c \in Callers : call[c].step \in {"idle", "allowed", "enqueue"}
    /\ \A w \in Workers : /\ worker[w].step \in {"idle", "reading", "passing",
                                                 "accepted", "dead", "error"}
                          /\ DOMAIN worker[w].hand \subseteq Keys
    /\ \A k \in Keys : accepted[k] \in Nat
    /\ calls \in 0..MaxCalls /\ moves \in 0..MaxMoves /\ faults \in 0..MaxFaults

Init ==
    /\ device = [d \in Devices |-> [token |-> NoToken, status |-> "ABSENT"]]
    /\ muted = {}
    /\ row = [k \in Keys |-> [status |-> "ABSENT", attempts |-> 0]]
    /\ call = [c \in Callers |-> Waiting]
    /\ worker = [w \in Workers |-> Resting]
    /\ accepted = [k \in Keys |-> 0]
    /\ calls = 0 /\ moves = 0 /\ faults = 0

Fault == faults < MaxFaults /\ faults' = faults + 1
Move  == moves < MaxMoves /\ moves' = moves + 1

-----------------------------------------------------------------------------
(* Devices and settings *)

\* The row of the phone is written; another row with the token is revoked.
RegisterDevice(u, ph, t) ==
    /\ Move
    /\ device' = [d \in Devices |->
                    IF d = <<u, ph>> THEN [token |-> t, status |-> "ACTIVE"]
                    ELSE IF device[d].token = t /\ device[d].status = "ACTIVE"
                         THEN [device[d] EXCEPT !.status = "REVOKED"]
                         ELSE device[d]]
    /\ UNCHANGED <<muted, row, call, worker, accepted, calls, faults>>

RevokeDevice(u, ph) ==
    /\ Move
    /\ device[<<u, ph>>].status \notin {"ABSENT", "REVOKED"}
    /\ device' = [device EXCEPT ![<<u, ph>>].status = "REVOKED"]
    /\ UNCHANGED <<muted, row, call, worker, accepted, calls, faults>>

\* By the device's row, whatever its status and token are by now.
RetireDevice(d) == device' = [device EXCEPT ![d].status = "RETIRED"]

\* Active service, payment and safety cannot be switched off.
Required(c) == c \in {"SAFETY", "PAYMENT", "RIDE", "DELIVERY", "ORDER"}

SetPreference(u) ==
    /\ Move
    /\ muted' = (muted \cup {u}) \ (muted \cap {u})
    /\ UNCHANGED <<device, row, call, worker, accepted, calls, faults>>

Allows(u, c) == Required(c) \/ u \notin muted

DevicesOf(u) == {ph \in Phones : device[<<u, ph>>].status = "ACTIVE"}

-----------------------------------------------------------------------------
(* Notify: what it may send, to which phones, one row for each *)

ReadPreference(c, e) ==
    /\ call[c].step = "idle" /\ calls < MaxCalls
    /\ calls' = calls + 1
    /\ call' = [call EXCEPT ![c] =
                  [step |-> "allowed", event |-> e, allowed |-> Allows(To[e], Category[e])]]
    /\ UNCHANGED <<device, muted, row, worker, accepted, moves, faults>>

\* With no phone, or none allowed, the row is for the inbox of the app.
ReadDevices(c) ==
    LET phones == DevicesOf(To[call[c].event]) IN
    /\ call[c].step = "allowed"
    /\ call' = [call EXCEPT ![c] =
         [step |-> "enqueue", event |-> @.event, allowed |-> @.allowed,
          todo |-> IF phones = {} \/ ~@.allowed THEN {Inbox} ELSE phones]]
    /\ UNCHANGED <<device, muted, row, worker, accepted, bounds>>

\* A key that exists keeps its row.
Inserted(k, allowed) ==
    IF row[k].status # "ABSENT" THEN row
    ELSE [row EXCEPT ![k].status = IF allowed THEN "QUEUED" ELSE "SUPPRESSED"]

\* The first failure ends the call; the rows before it stay.
Enqueue(c) ==
    /\ call[c].step = "enqueue"
    /\ \/ \E target \in call[c].todo :
             /\ row' = Inserted(<<call[c].event, target>>, call[c].allowed)
             /\ call' = [call EXCEPT ![c] = IF @.todo = {target} THEN Waiting
                                            ELSE [call[c] EXCEPT !.todo = @ \ {target}]]
             /\ UNCHANGED faults
       \/ Fault /\ call' = [call EXCEPT ![c] = Waiting] /\ UNCHANGED row
    /\ UNCHANGED <<device, muted, worker, accepted, calls, moves>>

-----------------------------------------------------------------------------
(* The worker's pass *)

\* Rows are claimed under SKIP LOCKED, oldest first: any that no other claim
\* has taken.
Claim(w) ==
    /\ worker[w].step = "idle"
    /\ \E S \in SUBSET {k \in Keys : row[k].status = "QUEUED"
                                     /\ row[k].attempts < MaxAttempts} :
          /\ S # {} /\ IsFiniteSet(S) /\ Cardinality(S) <= Batch
          /\ row' = [k \in Keys |-> IF k \in S THEN [status |-> "SENDING",
                                                     attempts |-> row[k].attempts + 1]
                                    ELSE row[k]]
          /\ worker' = [worker EXCEPT ![w] = [step |-> "reading",
                                              hand |-> [k \in S |-> Unread]]]
    /\ UNCHANGED <<device, muted, call, accepted, bounds>>

\* Only an active token counts; a read that fails finds none.
TokensFound(k) ==
    LET d == device[DeviceOf(k)] IN
    {NoToken} \cup (IF d.status = "ACTIVE" THEN {d.token} ELSE {})

\* The tokens are read after the claim, one by one.
ReadToken(w) ==
    LET h == worker[w].hand
        unread == {k \in DOMAIN h : h[k] = Unread /\ k[2] # Inbox}
    IN  /\ worker[w].step = "reading"
        /\ IF unread = {}
           THEN worker' = [worker EXCEPT ![w].step = "passing"]
           ELSE \E k \in unread : \E t \in TokensFound(k) :
                  worker' = [worker EXCEPT ![w].hand = [h EXCEPT ![k] = t]]
        /\ UNCHANGED <<device, muted, row, call, accepted, bounds>>

\* What is left of a pass when k is done.
Without(w, k) ==
    LET left == DOMAIN worker[w].hand \ {k} IN
    IF left = {} THEN Resting
    ELSE [step |-> "passing", hand |-> [x \in left |-> worker[w].hand[x]]]

\* Mistake: off by one, a notification gets its last attempt twice.
MarkFailedLate(k, attempts) ==
    [row EXCEPT ![k].status = IF attempts > MaxAttempts THEN "FAILED" ELSE "QUEUED"]

\* Back to the queue while attempts are left.
MarkFailed(k, attempts) ==
    [row EXCEPT ![k].status = IF attempts >= MaxAttempts THEN "FAILED" ELSE "QUEUED"]

\* A row that needs no provider is marked at once: the inbox, and a phone whose
\* token was gone.
PassWithoutProvider(w) ==
    /\ worker[w].step = "passing"
    /\ \E k \in DOMAIN worker[w].hand :
          \/ /\ k[2] = Inbox
             /\ \/ /\ row' = [row EXCEPT ![k].status = "SENT"]
                   /\ worker' = [worker EXCEPT ![w] = Without(w, k)] /\ UNCHANGED faults
                \/ Fault /\ worker' = [worker EXCEPT ![w] = Resting] /\ UNCHANGED row
          \/ /\ worker[w].hand[k] = NoToken
             /\ \/ row' = MarkFailed(k, MaxAttempts) /\ UNCHANGED faults
                \/ Fault /\ UNCHANGED row
             /\ worker' = [worker EXCEPT ![w] = Without(w, k)]
    /\ UNCHANGED <<device, muted, call, accepted, calls, moves>>

SendPush(w) ==
    /\ worker[w].step = "passing"
    /\ \E k \in DOMAIN worker[w].hand, answer \in {"accepted", "dead", "error"} :
          /\ k[2] # Inbox /\ worker[w].hand[k] # NoToken
          /\ worker' = [worker EXCEPT ![w] = [step |-> answer, hand |-> @.hand, at |-> k]]
          /\ accepted' = [accepted EXCEPT ![k] = IF answer = "accepted" THEN @ + 1 ELSE @]
    /\ UNCHANGED <<device, muted, row, call, bounds>>

\* Mistake: a row that could not be marked goes back to the queue.
RequeueUnmarked(w) ==
    LET k == worker[w].at IN
    /\ worker[w].step = "accepted"
    /\ \/ row' = [row EXCEPT ![k].status = "SENT"] /\ UNCHANGED faults
       \/ Fault /\ row' = MarkFailed(k, row[k].attempts)
    /\ worker' = [worker EXCEPT ![w] = Without(w, k)]
    /\ UNCHANGED <<device, muted, call, accepted, calls, moves>>

\* A row that cannot be marked ends the pass: what was not reached stays claimed.
MarkSent(w) ==
    LET k == worker[w].at IN
    /\ worker[w].step = "accepted"
    /\ \/ /\ row' = [row EXCEPT ![k].status = "SENT"]
          /\ worker' = [worker EXCEPT ![w] = Without(w, k)] /\ UNCHANGED faults
       \/ Fault /\ worker' = [worker EXCEPT ![w] = Resting] /\ UNCHANGED row
    /\ UNCHANGED <<device, muted, call, accepted, calls, moves>>

\* A dead token retires its device; errors of either statement are ignored.
MarkDead(w) ==
    LET k == worker[w].at IN
    /\ worker[w].step = "dead"
    /\ \/ RetireDevice(DeviceOf(k)) /\ row' = MarkFailed(k, MaxAttempts) /\ UNCHANGED faults
       \/ Fault /\ UNCHANGED device /\ row' = MarkFailed(k, MaxAttempts)
       \/ Fault /\ RetireDevice(DeviceOf(k)) /\ UNCHANGED row
    /\ worker' = [worker EXCEPT ![w] = Without(w, k)]
    /\ UNCHANGED <<muted, call, accepted, calls, moves>>

MarkError(w) ==
    LET k == worker[w].at IN
    /\ worker[w].step = "error"
    /\ \/ row' = MarkFailed(k, row[k].attempts) /\ UNCHANGED faults
       \/ Fault /\ UNCHANGED row
    /\ worker' = [worker EXCEPT ![w] = Without(w, k)]
    /\ UNCHANGED <<device, muted, call, accepted, calls, moves>>

\* The process stops; the next one starts with nothing in hand.
Crash(w) ==
    /\ worker[w].step # "idle" /\ Fault
    /\ worker' = [worker EXCEPT ![w] = Resting]
    /\ UNCHANGED <<device, muted, row, call, accepted, calls, moves>>

Pass(w) == \/ Claim(w) \/ ReadToken(w) \/ PassWithoutProvider(w) \/ SendPush(w)
           \/ MarkSent(w) \/ MarkDead(w) \/ MarkError(w)

-----------------------------------------------------------------------------
Next ==
    \/ \E u \in Users : \/ SetPreference(u)
                        \/ \E ph \in Phones : \/ RevokeDevice(u, ph)
                                              \/ \E t \in Tokens : RegisterDevice(u, ph, t)
    \/ \E c \in Callers : \/ ReadDevices(c) \/ Enqueue(c)
                          \/ \E e \in Events : ReadPreference(c, e)
    \/ \E w \in Workers : Pass(w) \/ Crash(w)

Spec == Init /\ [][Next]_vars

\* A worker passes every interval; that a statement fails, or that the process
\* dies, is never fair.
FairSpec == Spec /\ \A w \in Workers : WF_vars(Pass(w))

-----------------------------------------------------------------------------
(* Properties *)

Held(w) == DOMAIN worker[w].hand
Stranded(k) == row[k].status = "SENDING" /\ \A w \in Workers : k \notin Held(w)

\* A notification is in the hands of one worker at a time ("two workers never
\* take the same row"), marked SENDING while it is, and only a crash or a failed
\* statement leaves one SENDING that nobody holds.
SendingIsHeldOnce ==
    /\ \A k \in Keys, v, w \in Workers : k \in Held(v) \cap Held(w) => v = w
    /\ \A w \in Workers : \A k \in Held(w) : row[k].status = "SENDING"
    /\ (\E k \in Keys : Stranded(k)) => faults > 0

\* However often an event, a pass or an attempt is repeated, the provider takes
\* its notification for one phone once, and a SENT one was taken.
ToldOnce ==
    \A k \in Keys : /\ accepted[k] <= 1
                    /\ row[k].status = "SENT" => accepted[k] = 1 \/ k[2] = Inbox
                    /\ row[k].status \in {"QUEUED", "FAILED"} => accepted[k] = 0

\* Two workers, repeated events and retries between them tell nobody twice.
TellingIsSound == SendingIsHeldOnce /\ ToldOnce

\* What is queued is sent or given up, or a fault left it in nobody's hands: it
\* never waits in the queue for ever.
QueueDrains ==
    \A k \in Keys :
        row[k].status = "QUEUED" ~> row[k].status \in {"SENT", "FAILED"} \/ Stranded(k)

=============================================================================
