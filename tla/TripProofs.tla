------------------------------ MODULE TripProofs ------------------------------
(***************************************************************************)
(* What is recorded of a cancellation and what ends with a trip, and what   *)
(* becomes of the driver's vehicle and status meanwhile, for any number of  *)
(* jobs, drivers, requests, reviews and failures.                           *)
(***************************************************************************)
EXTENDS Trip, Shift, TLAPS

-----------------------------------------------------------------------------
(* The inductive invariant *)

\* Before an acceptance nobody holds the job; from it to the end somebody does.
Unheld == {"REQUESTED", "SEARCHING", "ASSIGNED"}
Underway == {"ACCEPTED", "ARRIVING", "AT_PICKUP", "IN_PROGRESS", "AT_DROPOFF", "COMPLETED"}

\* TypeOK, with the statuses these requests reach.
Typed ==
    /\ status \in [Jobs -> Unheld \cup Underway \cup {"CANCELLED"}]
    /\ holder \in [Jobs -> Drivers \cup {NoDriver}]
    /\ offered \subseteq Jobs \X Drivers
    /\ late \subseteq Jobs /\ opening \subseteq Jobs
    /\ session \in [Jobs -> Drivers \cup {NoDriver}]
    /\ record \in [Jobs -> {NoRecord} \cup [tier : Tiers, charged : BOOLEAN]]
    /\ call \in [Calls -> CallStates]
    /\ faults \in 0 .. MaxFaults

\* Who holds a job, and what a job must be to have an offer, a grace window, a
\* session to open or one that is open.
HoldersAgree ==
    /\ \A j \in Jobs :
          /\ status[j] \in Unheld => holder[j] = NoDriver
          /\ status[j] \in Underway => holder[j] # NoDriver
          /\ j \in late \/ j \in opening => holder[j] # NoDriver
          /\ session[j] # NoDriver => session[j] = holder[j]
    /\ \A p \in offered : status[p[1]] \in {"SEARCHING", "ASSIGNED", "CANCELLED"}
    /\ \A p, q \in offered : p[1] = q[1] => p = q

\* What a request knows of its job.  A cancellation still to be recorded left
\* the job in the status it carries: that is why its tier agrees with the holder.
RequestKnows(c) ==
    /\ call[c].step = "walk" => call[c].to \in Targets /\ OnTheWay(call[c].from, call[c].to)
    /\ call[c].step \in {"fee", "move", "record"} =>
          call[c].to = "CANCELLED" /\ call[c].from \in Unheld \cup {"ACCEPTED", "ARRIVING", "AT_PICKUP"}
    /\ call[c].step # "idle" /\ call[c].charged =>
          holder[call[c].job] # NoDriver /\ call[c].job \in late
    /\ call[c].step \in {"record", "end"} => Finished(call[c].job)
    /\ call[c].step = "record" =>
          /\ status[call[c].job] = "CANCELLED"
          /\ call[c].from \in Unheld => holder[call[c].job] = NoDriver
          /\ call[c].from \in Underway => holder[call[c].job] # NoDriver

RequestsAgree == \A c \in Calls : RequestKnows(c)

IInv == Typed /\ HoldersAgree /\ RequestsAgree /\ CancellationsAreAsDecided

-----------------------------------------------------------------------------
(* Lemmas on the flow, on requests and on what no step undoes *)

LEMMA FlowPlaces ==
    /\ DOMAIN Flow = 1..6
    /\ \A i \in 1..6 : FlowIndex(Flow[i]) = i
    /\ \A i \in 1..6 : Flow[i] \in Underway
    /\ \A i \in 1..6 : Flow[i] = "COMPLETED" <=> i = 6
  <1>1. DOMAIN Flow = 1..6
    BY DEF Flow
  <1>2. \A i, k \in 1..6 : Flow[i] = Flow[k] => i = k
    BY DEF Flow
  <1>3. \A i \in 1..6 : FlowIndex(Flow[i]) = i
    BY <1>1, <1>2 DEF FlowIndex
  <1>4. \A i \in 1..6 : Flow[i] \in Underway
    BY DEF Flow, Underway
  <1>5. \A i \in 1..6 : Flow[i] = "COMPLETED" <=> i = 6
    BY DEF Flow
  <1>. QED BY <1>1, <1>3, <1>4, <1>5

\* A walk's next status is underway, on the way, and the last only if wanted.
LEMMA NextOnTheWay ==
    ASSUME NEW from, NEW to \in Targets, OnTheWay(from, to),
           NEW next, next = Flow[FlowIndex(from) + 1]
    PROVE  /\ from \in Underway \ {"COMPLETED"}
           /\ next \in Underway
           /\ next # to => OnTheWay(next, to)
           /\ next = "COMPLETED" => to = "COMPLETED"
  <1>1. PICK i \in 1..6 : Flow[i] = from
    BY FlowPlaces DEF OnTheWay
  <1>2. PICK k \in 1..6 : Flow[k] = to
    <2>1. Flow[3] = "AT_PICKUP" /\ Flow[4] = "IN_PROGRESS" /\ Flow[6] = "COMPLETED"
      BY DEF Flow
    <2>. QED BY <2>1 DEF Targets
  <1>3. FlowIndex(from) = i /\ FlowIndex(to) = k /\ i < k
    BY <1>1, <1>2, FlowPlaces DEF OnTheWay
  <1>4. next = Flow[i + 1] /\ i + 1 \in 1..6 /\ i \in 1..5
    BY <1>3
  <1>5. FlowIndex(next) = i + 1
    BY <1>4, FlowPlaces
  <1>6. next # to => i + 1 < k
    BY <1>2, <1>3, <1>4
  <1>7. from \in Underway \ {"COMPLETED"} /\ next \in Underway
    BY <1>1, <1>4, FlowPlaces
  <1>8. next = "COMPLETED" => to = "COMPLETED"
    <2>1. next = "COMPLETED" => i + 1 = 6
      BY <1>4, FlowPlaces
    <2>2. k = 6 => to = "COMPLETED"
      BY <1>2, FlowPlaces
    <2>. QED BY <2>1, <2>2, <1>3
  <1>9. next # to => OnTheWay(next, to)
    BY <1>3, <1>4, <1>5, <1>6, FlowPlaces DEF OnTheWay
  <1>. QED BY <1>7, <1>8, <1>9

LEMMA CallType ==
    ASSUME Typed, NEW c \in Calls
    PROVE  /\ call[c].step = "idle" => call[c] = Idle
           /\ call[c].step # "idle" =>
                 call[c] \in [step : {"fee", "move", "record", "walk", "end"}, job : Jobs,
                              from : JobStatuses, to : JobStatuses, charged : BOOLEAN]
           /\ Idle \in CallStates /\ Idle.step = "idle"
  <1>1. call[c] \in CallStates
    BY DEF Typed
  <1>. QED BY <1>1 DEF CallStates, Idle

\* What a request that moves on leaves of the others.
LEMMA SetType ==
    ASSUME Typed, NEW c \in Calls, NEW s \in CallStates, Set(c, s)
    PROVE  /\ call' \in [Calls -> CallStates]
           /\ call'[c] = s
           /\ \A e \in Calls : e # c => call'[e] = call[e]
  BY DEF Typed, Set

\* No step moves a job that is finished, takes a job from its holder or turns
\* the clock back.
Stable ==
    /\ \A j \in Jobs : /\ Finished(j) => status'[j] = status[j] /\ holder'[j] = holder[j]
                       /\ holder[j] # NoDriver => holder'[j] = holder[j]
    /\ late \subseteq late'

\* A request that does nothing keeps what it knows.
LEMMA RequestFrame ==
    ASSUME Typed, Stable, NEW c \in Calls, RequestKnows(c), call'[c] = call[c]
    PROVE  RequestKnows(c)'
  <1>1. call[c].step # "idle" => call[c].job \in Jobs
    BY CallType
  <1>2. \A j \in Jobs : Finished(j) => Finished(j)'
    BY DEF Stable, Finished
  <1>3. call[c].step \in {"record", "end"} => Finished(call[c].job)'
    BY <1>1, <1>2 DEF RequestKnows
  <1>4. call[c].step = "record" =>
          /\ status'[call[c].job] = "CANCELLED"
          /\ call[c].from \in Unheld => holder'[call[c].job] = NoDriver
          /\ call[c].from \in Underway => holder'[call[c].job] # NoDriver
    BY <1>1 DEF Stable, RequestKnows
  <1>5. call[c].step # "idle" /\ call[c].charged =>
          holder'[call[c].job] # NoDriver /\ call[c].job \in late'
    BY <1>1 DEF Stable, RequestKnows
  <1>. QED BY <1>3, <1>4, <1>5 DEF RequestKnows, Finished

\* Nothing is cancelled and no request finishes a job or is done with one.
LEMMA CancellationsFrame ==
    ASSUME IInv, Stable, record' = record, faults' \in Nat, faults' >= faults,
           \A j \in Jobs : status'[j] = "CANCELLED" => status[j] = "CANCELLED",
           \A c \in Calls : \/ call'[c] = call[c]
                            \/ /\ call[c].step \notin {"record", "end"}
                               /\ call'[c].step \notin {"record", "end"}
    PROVE  CancellationsAreAsDecided'
  <1>. USE DEF IInv
  <1>1. \A c \in Calls, j \in Jobs : Finishing(c, j)' <=> Finishing(c, j)
    BY DEF Finishing
  <1>2. SUFFICES ASSUME NEW j \in Jobs
                 PROVE  /\ record[j] # NoRecord =>
                              /\ status'[j] = "CANCELLED"
                              /\ record[j].tier = "BEFORE_ASSIGNMENT" => holder'[j] = NoDriver
                              /\ record[j].tier \in {"AFTER_ARRIVAL", "AFTER_START"} =>
                                    holder'[j] # NoDriver
                              /\ record[j].charged => holder'[j] # NoDriver /\ j \in late'
                        /\ \A c, e \in Calls : Finishing(c, j)' /\ Finishing(e, j)' => c = e
                        /\ status'[j] = "CANCELLED" /\ record[j] = NoRecord =>
                              faults' > 0 \/ \E c \in Calls : call'[c].step = "record" /\ call'[c].job = j
    BY DEF CancellationsAreAsDecided
  <1>3. record[j] # NoRecord =>
          /\ status'[j] = "CANCELLED"
          /\ record[j].tier = "BEFORE_ASSIGNMENT" => holder'[j] = NoDriver
          /\ record[j].tier \in {"AFTER_ARRIVAL", "AFTER_START"} => holder'[j] # NoDriver
          /\ record[j].charged => holder'[j] # NoDriver /\ j \in late'
    BY DEF CancellationsAreAsDecided, Stable, Finished, JobTerminal
  <1>4. \A c, e \in Calls : Finishing(c, j)' /\ Finishing(e, j)' => c = e
    BY <1>1 DEF CancellationsAreAsDecided
  <1>5. ASSUME status'[j] = "CANCELLED", record[j] = NoRecord
        PROVE  faults' > 0 \/ \E c \in Calls : call'[c].step = "record" /\ call'[c].job = j
    <2>1. faults > 0 \/ \E c \in Calls : call[c].step = "record" /\ call[c].job = j
      BY <1>5 DEF CancellationsAreAsDecided
    <2>2. faults > 0 => faults' > 0
      BY DEF Typed
    <2>. QED BY <2>1, <2>2
  <1>. QED BY <1>3, <1>4, <1>5

-----------------------------------------------------------------------------
(* What dispatch and the clock do keeps the invariant *)

LEMMA JobSteps ==
    ASSUME IInv, NEW j \in Jobs,
           \/ Search(j) \/ Assign(j) \/ OfferEnds(j) \/ OpenSession(j) \/ GracePasses(j)
           \/ \E d \in Drivers : Offer(j, d) \/ Accept(j, d)
    PROVE  IInv' /\ Stable
  <1>. USE DEF IInv, jobVars
  <1>a. faults \in Nat
    BY MaxFaultsAssumption DEF Typed
  <1>b. call' = call /\ record' = record
    BY DEF Search, Assign, OfferEnds, OpenSession, GracePasses, Offer, Accept
  <1>1. /\ Typed' /\ HoldersAgree' /\ Stable
        /\ faults' \in Nat /\ faults' >= faults
        /\ \A i \in Jobs : status'[i] = "CANCELLED" => status[i] = "CANCELLED"
    <2>1. CASE Search(j)
      <3>1. status[j] = "REQUESTED" /\ status' = [status EXCEPT ![j] = "SEARCHING"]
        BY <2>1 DEF Search, Transition
      <3>. QED BY <2>1, <3>1, <1>a, <1>b
               DEF Search, Typed, HoldersAgree, Stable, Finished, JobTerminal, Unheld, Underway
    <2>2. CASE Assign(j)
      <3>1. status[j] = "SEARCHING" /\ status' = [status EXCEPT ![j] = "ASSIGNED"]
        BY <2>2 DEF Assign, Transition
      <3>. QED BY <2>2, <3>1, <1>a, <1>b
               DEF Assign, Typed, HoldersAgree, Stable, Finished, JobTerminal, Unheld, Underway
    <2>3. CASE OfferEnds(j)
      BY <2>3, <1>a, <1>b
         DEF OfferEnds, Typed, HoldersAgree, Stable, Finished, JobTerminal, Unheld, Underway
    <2>4. CASE OpenSession(j)
      BY <2>4, <1>a, <1>b, MaxFaultsAssumption
         DEF OpenSession, StartSession, Fault, Typed, HoldersAgree, Stable
    <2>5. CASE GracePasses(j)
      BY <2>5, <1>a, <1>b DEF GracePasses, Typed, HoldersAgree, Stable
    <2>6. ASSUME NEW d \in Drivers, Offer(j, d)
          PROVE  /\ Typed' /\ HoldersAgree' /\ Stable
                 /\ faults' \in Nat /\ faults' >= faults
                 /\ \A i \in Jobs : status'[i] = "CANCELLED" => status[i] = "CANCELLED"
      BY <2>6, <1>a, <1>b DEF Offer, Typed, HoldersAgree, Stable
    <2>7. ASSUME NEW d \in Drivers, Accept(j, d)
          PROVE  /\ Typed' /\ HoldersAgree' /\ Stable
                 /\ faults' \in Nat /\ faults' >= faults
                 /\ \A i \in Jobs : status'[i] = "CANCELLED" => status[i] = "CANCELLED"
      <3>1. /\ <<j, d>> \in offered /\ status[j] \in {"SEARCHING", "ASSIGNED"}
            /\ offered' = offered \ {<<j, d>>}
            /\ status' = [status EXCEPT ![j] = "ACCEPTED"]
            /\ holder' = [holder EXCEPT ![j] = d]
            /\ opening' = opening \cup {j}
            /\ UNCHANGED <<late, session, record, call, faults>>
        BY <2>7 DEF Accept
      <3>2. Typed'
        BY <3>1 DEF Typed, Underway
      <3>3. holder[j] = NoDriver /\ j \notin late /\ session[j] = NoDriver
        BY <3>1 DEF HoldersAgree, Unheld
      <3>4. \A p \in offered' : p \in offered /\ p[1] # j
        BY <3>1 DEF HoldersAgree
      <3>5. HoldersAgree'
        BY <3>1, <3>3, <3>4, NoDriverAssumption DEF HoldersAgree, Typed, Unheld, Underway
      <3>. QED BY <3>1, <3>2, <3>3, <3>5, <1>a
               DEF Stable, Typed, Finished, JobTerminal
    <2>. QED BY <2>1, <2>2, <2>3, <2>4, <2>5, <2>6, <2>7
  <1>2. RequestsAgree'
    BY <1>1, <1>b, RequestFrame DEF RequestsAgree
  <1>3. CancellationsAreAsDecided'
    BY <1>1, <1>b, CancellationsFrame
  <1>. QED BY <1>1, <1>2, <1>3

-----------------------------------------------------------------------------
(* What a request does keeps the invariant *)

LEMMA CancelStep ==
    ASSUME IInv, NEW c \in Calls, NEW j \in Jobs, Cancel(c, j)
    PROVE  IInv' /\ Stable
  <1>. USE DEF IInv
  <1>. DEFINE q == Working("fee", j, status[j], "CANCELLED", FALSE)
  <1>1. /\ call[c] = Idle /\ Cancellable(status[j]) /\ Set(c, q)
        /\ UNCHANGED <<status, holder, offered, late, opening, session, record, faults>>
    BY DEF Cancel, jobVars
  <1>2. status[j] \in Unheld \cup {"ACCEPTED", "ARRIVING", "AT_PICKUP"}
    BY <1>1 DEF Typed, Cancellable, JobCan, JobMachine, Unheld, Underway
  <1>3. q \in CallStates
    BY <1>2 DEF CallStates, Working, JobStatuses, Unheld
  <1>4. Typed' /\ HoldersAgree' /\ Stable
    BY <1>1, <1>3, SetType DEF Typed, HoldersAgree, Stable
  <1>5. RequestKnows(c)'
    BY <1>1, <1>2, <1>3, SetType DEF RequestKnows, Working
  <1>6. RequestsAgree'
    BY <1>1, <1>3, <1>4, <1>5, SetType, RequestFrame DEF RequestsAgree
  <1>7. call[c].step = "idle" /\ call'[c].step = "fee"
    BY <1>1, <1>3, SetType DEF Idle, Working
  <1>8. CancellationsAreAsDecided'
    <2>1. faults' \in Nat /\ faults' >= faults
      BY <1>1, MaxFaultsAssumption DEF Typed
    <2>2. \A e \in Calls : e # c => call'[e] = call[e]
      BY <1>1, <1>3, SetType
    <2>. QED BY <1>1, <1>4, <1>7, <2>1, <2>2, CancellationsFrame
  <1>. QED BY <1>4, <1>6, <1>8

LEMMA DecideFeeStep ==
    ASSUME IInv, NEW c \in Calls, DecideFee(c)
    PROVE  IInv' /\ Stable
  <1>. USE DEF IInv
  <1>. DEFINE j == call[c].job
              due == FeeDue(TierFor(call[c].from), j)
              q == [call[c] EXCEPT !.step = "move", !.charged = due]
  <1>1. /\ call[c].step = "fee"
        /\ UNCHANGED <<status, holder, offered, late, opening, session, record>>
        /\ \/ Fault /\ Set(c, Idle)
           \/ Set(c, q) /\ UNCHANGED faults
    BY DEF DecideFee, jobVars
  <1>2. call[c] \in [step : {"fee", "move", "record", "walk", "end"}, job : Jobs,
                     from : JobStatuses, to : JobStatuses, charged : BOOLEAN]
    BY <1>1, CallType
  <1>3. due \in BOOLEAN /\ (due => holder[j] # NoDriver /\ j \in late)
    BY DEF FeeDue, AcceptedAssignment
  <1>4. q \in CallStates /\ Idle \in CallStates
    BY <1>2, <1>3 DEF CallStates
  <1>5. /\ q.step = "move" /\ q.from = call[c].from /\ q.to = call[c].to
        /\ q.job = j /\ q.charged = due
    BY <1>2
  <1>6. faults' \in 0..MaxFaults /\ faults' \in Nat /\ faults' >= faults
    BY <1>1, MaxFaultsAssumption DEF Typed, Fault
  <1>7. \/ call'[c] = Idle
        \/ call'[c] = q
    BY <1>1, <1>4, SetType
  <1>8. call' \in [Calls -> CallStates] /\ \A e \in Calls : e # c => call'[e] = call[e]
    BY <1>1, <1>4, SetType
  <1>9. Typed' /\ HoldersAgree' /\ Stable
    BY <1>1, <1>6, <1>8 DEF Typed, HoldersAgree, Stable
  <1>10. RequestKnows(c)'
    <2>1. CASE call'[c] = Idle
      BY <2>1, CallType DEF RequestKnows
    <2>2. CASE call'[c] = q
      <3>1. RequestKnows(c)
        BY DEF RequestsAgree
      <3>. QED BY <1>1, <1>3, <1>5, <2>2, <3>1 DEF RequestKnows
    <2>. QED BY <1>7, <2>1, <2>2
  <1>11. RequestsAgree'
    BY <1>8, <1>9, <1>10, RequestFrame DEF RequestsAgree
  <1>12. call'[c].step \notin {"record", "end"}
    BY <1>5, <1>7, CallType
  <1>13. CancellationsAreAsDecided'
    BY <1>1, <1>6, <1>8, <1>9, <1>12, CancellationsFrame
  <1>. QED BY <1>9, <1>11, <1>13

\* The request that finishes a job is the only one that does.
LEMMA FinisherIsAlone ==
    ASSUME IInv, NEW c \in Calls, NEW j \in Jobs, ~Finished(j),
           \A e \in Calls : e # c => call'[e] = call[e],
           call'[c].job = j
    PROVE  /\ \A e \in Calls : e # c => ~Finishing(e, j)'
           /\ \A i \in Jobs : i # j => ~Finishing(c, i)'
           /\ call[c].step \notin {"record", "end"} =>
                 \A i \in Jobs : \A d, e \in Calls : Finishing(d, i)' /\ Finishing(e, i)' => d = e
  <1>. USE DEF IInv
  <1>1. \A e \in Calls : ~Finishing(e, j)
    BY DEF Finishing, RequestsAgree, RequestKnows
  <1>2. \A e \in Calls : e # c => \A i \in Jobs : Finishing(e, i)' <=> Finishing(e, i)
    BY DEF Finishing
  <1>3. \A i \in Jobs : i # j => ~Finishing(c, i)'
    BY DEF Finishing
  <1>. QED BY <1>1, <1>2, <1>3 DEF CancellationsAreAsDecided

LEMMA MoveStep ==
    ASSUME IInv, NEW c \in Calls, MoveToCancelled(c)
    PROVE  IInv' /\ Stable
  <1>. USE DEF IInv
  <1>. DEFINE j == call[c].job
              q == [call[c] EXCEPT !.step = "record"]
  <1>1. /\ call[c].step = "move"
        /\ UNCHANGED <<holder, offered, late, opening, session, record, faults>>
        /\ \/ Transition(j, call[c].from, "CANCELLED") /\ Set(c, q)
           \/ Set(c, Idle) /\ UNCHANGED status
    BY DEF MoveToCancelled
  <1>2. call[c] \in [step : {"fee", "move", "record", "walk", "end"}, job : Jobs,
                     from : JobStatuses, to : JobStatuses, charged : BOOLEAN]
    BY <1>1, CallType
  <1>3. q \in CallStates /\ Idle \in CallStates
    BY <1>2 DEF CallStates
  <1>4. call' \in [Calls -> CallStates] /\ \A e \in Calls : e # c => call'[e] = call[e]
    BY <1>1, <1>3, SetType
  <1>5. faults \in Nat
    BY MaxFaultsAssumption DEF Typed
  <1>6. CASE Set(c, Idle) /\ UNCHANGED status
    <2>1. Typed' /\ HoldersAgree' /\ Stable
      BY <1>1, <1>4, <1>6 DEF Typed, HoldersAgree, Stable
    <2>2. call'[c] = Idle
      BY <1>3, <1>6, SetType
    <2>3. RequestsAgree'
      <3>1. RequestKnows(c)'
        BY <2>2, CallType DEF RequestKnows
      <3>. QED BY <1>4, <2>1, <3>1, RequestFrame DEF RequestsAgree
    <2>4. CancellationsAreAsDecided'
      BY <1>1, <1>4, <1>5, <1>6, <2>1, <2>2, CallType, CancellationsFrame
    <2>. QED BY <2>1, <2>3, <2>4
  <1>7. CASE Transition(j, call[c].from, "CANCELLED") /\ Set(c, q)
    <2>1. /\ status[j] = call[c].from /\ status' = [status EXCEPT ![j] = "CANCELLED"]
          /\ call[c].from \in Unheld \cup {"ACCEPTED", "ARRIVING", "AT_PICKUP"}
          /\ (call[c].charged => holder[j] # NoDriver /\ j \in late)
      BY <1>1, <1>7 DEF Transition, RequestsAgree, RequestKnows
    <2>2. ~Finished(j) /\ status'[j] = "CANCELLED"
      BY <1>2, <2>1 DEF Finished, JobTerminal, Unheld, Typed
    <2>3. Stable
      BY <1>1, <2>1, <2>2 DEF Stable, Typed
    <2>4. Typed' /\ HoldersAgree'
      BY <1>1, <1>2, <1>4, <2>1 DEF Typed, HoldersAgree, Unheld, Underway
    <2>5. /\ call'[c] = q /\ q.step = "record" /\ q.from = call[c].from /\ q.to = call[c].to
          /\ q.job = j /\ q.charged = call[c].charged
      BY <1>2, <1>3, <1>7, SetType
    <2>6. /\ call[c].from \in Unheld => holder[j] = NoDriver
          /\ call[c].from \in Underway => holder[j] # NoDriver
      BY <1>2, <2>1 DEF HoldersAgree
    <2>7. RequestKnows(c)'
      <3>1. RequestKnows(c)
        BY DEF RequestsAgree
      <3>2. Finished(j)'
        BY <2>2, <2>5 DEF Finished, JobTerminal
      <3>. QED BY <1>1, <1>2, <2>1, <2>2, <2>5, <2>6, <3>1, <3>2 DEF RequestKnows, Finished
    <2>8. RequestsAgree'
      BY <1>4, <2>3, <2>7, RequestFrame DEF RequestsAgree
    <2>9. record[j] = NoRecord
      BY <1>2, <2>2 DEF CancellationsAreAsDecided, Finished, JobTerminal
    <2>10. CancellationsAreAsDecided'
      <3>1. \A i \in Jobs : \A d, e \in Calls : Finishing(d, i)' /\ Finishing(e, i)' => d = e
        BY <1>1, <1>2, <1>4, <2>2, <2>5, FinisherIsAlone
      <3>2. ASSUME NEW i \in Jobs, i # j, status'[i] = "CANCELLED", record[i] = NoRecord
            PROVE  faults > 0 \/ \E e \in Calls : call'[e].step = "record" /\ call'[e].job = i
        <4>1. faults > 0 \/ \E e \in Calls : call[e].step = "record" /\ call[e].job = i
          BY <2>1, <3>2 DEF CancellationsAreAsDecided, Typed
        <4>. QED BY <1>1, <1>4, <4>1
      <3>3. \A i \in Jobs : i # j => status'[i] = status[i]
        BY <2>1 DEF Typed
      <3>4. call'[c].step = "record" /\ call'[c].job = j
        BY <2>5
      <3>5. ASSUME NEW i \in Jobs, record[i] # NoRecord
            PROVE  /\ status'[i] = "CANCELLED"
                   /\ record[i].tier = "BEFORE_ASSIGNMENT" => holder[i] = NoDriver
                   /\ record[i].tier \in {"AFTER_ARRIVAL", "AFTER_START"} => holder[i] # NoDriver
                   /\ record[i].charged => holder[i] # NoDriver /\ i \in late
        BY <2>9, <3>3, <3>5 DEF CancellationsAreAsDecided
      <3>. QED BY <1>1, <3>1, <3>2, <3>4, <3>5 DEF CancellationsAreAsDecided
    <2>. QED BY <2>3, <2>4, <2>8, <2>10
  <1>. QED BY <1>1, <1>6, <1>7

LEMMA RecordStep ==
    ASSUME IInv, NEW c \in Calls, RecordCancellation(c)
    PROVE  IInv' /\ Stable
  <1>. USE DEF IInv
  <1>. DEFINE j == call[c].job
              q == [call[c] EXCEPT !.step = "end"]
              r == [tier |-> TierFor(call[c].from), charged |-> call[c].charged]
  <1>1. /\ call[c].step = "record"
        /\ UNCHANGED <<status, holder, offered, late, opening, session>>
        /\ \/ /\ record' = [record EXCEPT ![j] = IF @ = NoRecord THEN r ELSE @]
              /\ Set(c, q) /\ UNCHANGED faults
           \/ Fault /\ Set(c, Idle) /\ UNCHANGED record
    BY DEF RecordCancellation, jobVars
  <1>2. call[c] \in [step : {"fee", "move", "record", "walk", "end"}, job : Jobs,
                     from : JobStatuses, to : JobStatuses, charged : BOOLEAN]
    BY <1>1, CallType
  <1>3. q \in CallStates /\ Idle \in CallStates
    BY <1>2 DEF CallStates
  <1>4. call' \in [Calls -> CallStates] /\ \A e \in Calls : e # c => call'[e] = call[e]
    BY <1>1, <1>3, SetType
  <1>5. /\ status[j] = "CANCELLED" /\ Finished(j)
        /\ call[c].from \in Unheld \cup {"ACCEPTED", "ARRIVING", "AT_PICKUP"}
        /\ call[c].from \in Unheld => holder[j] = NoDriver
        /\ call[c].from \in Underway => holder[j] # NoDriver
        /\ (call[c].charged => holder[j] # NoDriver /\ j \in late)
    BY <1>1 DEF RequestsAgree, RequestKnows
  <1>6. /\ r \in [tier : Tiers, charged : BOOLEAN]
        /\ r.tier = "BEFORE_ASSIGNMENT" => holder[j] = NoDriver
        /\ r.tier \in {"AFTER_ARRIVAL", "AFTER_START"} => holder[j] # NoDriver
        /\ r.charged => holder[j] # NoDriver /\ j \in late
        /\ r # NoRecord
    BY <1>2, <1>5 DEF TierFor, Tiers, Unheld, Underway, NoRecord
  <1>7. record' \in [Jobs -> {NoRecord} \cup [tier : Tiers, charged : BOOLEAN]]
    BY <1>1, <1>6 DEF Typed
  <1>8. faults \in Nat /\ faults' \in 0..MaxFaults /\ faults' \in Nat /\ faults' >= faults
    BY <1>1, MaxFaultsAssumption DEF Typed, Fault
  <1>9. Typed' /\ HoldersAgree' /\ Stable
    BY <1>1, <1>4, <1>7, <1>8 DEF Typed, HoldersAgree, Stable
  <1>10. \/ call'[c] = Idle /\ faults' > 0 /\ record' = record
         \/ /\ call'[c] = q /\ record'[j] # NoRecord
            /\ record'[j] = r \/ record'[j] = record[j]
            /\ \A i \in Jobs : i # j => record'[i] = record[i]
    BY <1>1, <1>2, <1>3, <1>6, <1>8, SetType DEF Typed, Fault
  <1>11. q.step = "end" /\ q.job = j /\ q.charged = call[c].charged
    BY <1>2
  <1>12. RequestsAgree'
    <2>1. RequestKnows(c)'
      <3>1. CASE call'[c] = Idle
        BY <3>1, CallType DEF RequestKnows
      <3>2. CASE call'[c] = q
        <4>1. Finished(call[c].job)' <=> status'[call'[c].job] \in JobTerminal \cup {"COMPLETED"}
          BY DEF Finished
        <4>. QED BY <1>1, <1>5, <1>11, <3>2 DEF RequestKnows, Finished
      <3>. QED BY <1>10, <3>1, <3>2
    <2>. QED BY <1>4, <1>9, <2>1, RequestFrame DEF RequestsAgree
  <1>13. \A i \in Jobs : \A d, e \in Calls : Finishing(d, i)' /\ Finishing(e, i)' => d = e
    <2>1. \A e \in Calls, i \in Jobs : Finishing(e, i)' => Finishing(e, i)
      BY <1>1, <1>4, <1>10, <1>11, CallType DEF Finishing
    <2>. QED BY <2>1 DEF CancellationsAreAsDecided
  <1>14. ASSUME NEW i \in Jobs, record'[i] # NoRecord
         PROVE  /\ status[i] = "CANCELLED"
                /\ record'[i].tier = "BEFORE_ASSIGNMENT" => holder[i] = NoDriver
                /\ record'[i].tier \in {"AFTER_ARRIVAL", "AFTER_START"} => holder[i] # NoDriver
                /\ record'[i].charged => holder[i] # NoDriver /\ i \in late
    <2>1. CASE record'[i] = record[i]
      BY <1>14, <2>1 DEF CancellationsAreAsDecided
    <2>2. CASE i = j /\ record'[i] = r
      BY <1>5, <1>6, <2>2
    <2>. QED BY <1>10, <2>1, <2>2
  <1>15. ASSUME NEW i \in Jobs, status[i] = "CANCELLED", record'[i] = NoRecord
         PROVE  faults' > 0 \/ \E e \in Calls : call'[e].step = "record" /\ call'[e].job = i
    <2>1. CASE call'[c] = Idle /\ faults' > 0
      BY <2>1
    <2>2. CASE i # j /\ record'[i] = record[i]
      <3>1. faults > 0 \/ \E e \in Calls : call[e].step = "record" /\ call[e].job = i
        BY <1>15, <2>2 DEF CancellationsAreAsDecided
      <3>2. ASSUME NEW e \in Calls, call[e].step = "record", call[e].job = i
            PROVE  call'[e] = call[e]
        BY <1>4, <2>2, <3>2
      <3>. QED BY <1>8, <3>1, <3>2
    <2>. QED BY <1>10, <1>15, <2>1, <2>2
  <1>16. CancellationsAreAsDecided'
    BY <1>1, <1>13, <1>14, <1>15 DEF CancellationsAreAsDecided
  <1>. QED BY <1>9, <1>12, <1>16

LEMMA EndStep ==
    ASSUME IInv, NEW c \in Calls, EndTracking(c)
    PROVE  IInv' /\ Stable
  <1>. USE DEF IInv
  <1>1. /\ call[c].step = "end" /\ Set(c, Idle)
        /\ UNCHANGED <<status, holder, offered, late, opening, record>>
        /\ \/ session' = [session EXCEPT ![call[c].job] = NoDriver] /\ UNCHANGED faults
           \/ Fault /\ UNCHANGED session
    BY DEF EndTracking, EndSession, jobVars
  <1>2. call[c].job \in Jobs
    BY <1>1, CallType
  <1>3. /\ call' \in [Calls -> CallStates] /\ call'[c] = Idle
        /\ \A e \in Calls : e # c => call'[e] = call[e]
    BY <1>1, CallType, SetType
  <1>4. faults \in Nat /\ faults' \in 0..MaxFaults /\ faults' \in Nat /\ faults' >= faults
    BY <1>1, MaxFaultsAssumption DEF Typed, Fault
  <1>5. Typed' /\ HoldersAgree' /\ Stable
    BY <1>1, <1>2, <1>3, <1>4 DEF Typed, HoldersAgree, Stable
  <1>6. RequestsAgree'
    <2>1. RequestKnows(c)'
      BY <1>3, CallType DEF RequestKnows
    <2>. QED BY <1>3, <1>5, <2>1, RequestFrame DEF RequestsAgree
  <1>7. \A i \in Jobs : \A d, e \in Calls : Finishing(d, i)' /\ Finishing(e, i)' => d = e
    <2>1. \A e \in Calls, i \in Jobs : Finishing(e, i)' => Finishing(e, i)
      BY <1>3, CallType DEF Finishing
    <2>. QED BY <2>1 DEF CancellationsAreAsDecided
  <1>8. ASSUME NEW i \in Jobs, status[i] = "CANCELLED", record[i] = NoRecord
        PROVE  faults' > 0 \/ \E e \in Calls : call'[e].step = "record" /\ call'[e].job = i
    <2>1. faults > 0 \/ \E e \in Calls : call[e].step = "record" /\ call[e].job = i
      BY <1>8 DEF CancellationsAreAsDecided
    <2>2. \A e \in Calls : call[e].step = "record" => call'[e] = call[e]
      BY <1>1, <1>3
    <2>. QED BY <1>4, <2>1, <2>2
  <1>9. ASSUME NEW i \in Jobs, record[i] # NoRecord
        PROVE  /\ status[i] = "CANCELLED"
               /\ record[i].tier = "BEFORE_ASSIGNMENT" => holder[i] = NoDriver
               /\ record[i].tier \in {"AFTER_ARRIVAL", "AFTER_START"} => holder[i] # NoDriver
               /\ record[i].charged => holder[i] # NoDriver /\ i \in late
    BY <1>9 DEF CancellationsAreAsDecided
  <1>10. CancellationsAreAsDecided'
    BY <1>1, <1>7, <1>8, <1>9 DEF CancellationsAreAsDecided
  <1>. QED BY <1>5, <1>6, <1>10

LEMMA ExecuteStep ==
    ASSUME IInv, NEW c \in Calls, NEW j \in Jobs, NEW d \in Drivers, NEW target \in Targets,
           Execute(c, j, d, target)
    PROVE  IInv' /\ Stable
  <1>. USE DEF IInv
  <1>. DEFINE q == Working("walk", j, status[j], target, FALSE)
  <1>1. /\ call[c] = Idle /\ OnTheWay(status[j], target) /\ Set(c, q)
        /\ UNCHANGED <<status, holder, offered, late, opening, session, record, faults>>
    BY DEF Execute, jobVars
  <1>2. q \in CallStates
    BY DEF CallStates, Working, Typed, Targets, JobStatuses, Unheld, Underway
  <1>3. q.step = "walk" /\ q.from = status[j] /\ q.to = target /\ q.charged = FALSE
    BY DEF Working
  <1>4. /\ call' \in [Calls -> CallStates] /\ call'[c] = q
        /\ \A e \in Calls : e # c => call'[e] = call[e]
    BY <1>1, <1>2, SetType
  <1>5. Typed' /\ HoldersAgree' /\ Stable
    BY <1>1, <1>4 DEF Typed, HoldersAgree, Stable
  <1>6. RequestKnows(c)'
    BY <1>1, <1>3, <1>4 DEF RequestKnows
  <1>7. RequestsAgree'
    BY <1>4, <1>5, <1>6, RequestFrame DEF RequestsAgree
  <1>8. CancellationsAreAsDecided'
    <2>1. faults' \in Nat /\ faults' >= faults
      BY <1>1, MaxFaultsAssumption DEF Typed
    <2>2. call[c].step = "idle"
      BY <1>1, CallType
    <2>. QED BY <1>1, <1>3, <1>4, <1>5, <2>1, <2>2, CancellationsFrame
  <1>. QED BY <1>5, <1>7, <1>8

\* What a walk that goes on, ends or stops leaves of its request.
LEMMA WalkOnType ==
    ASSUME Typed, NEW c \in Calls, call[c].step = "walk", RequestKnows(c),
           NEW next, next = Flow[FlowIndex(call[c].from) + 1]
    PROVE  /\ call[c].from \in Underway \ {"COMPLETED"} /\ next \in Underway
           /\ WalkOn(call[c], next) \in CallStates
           /\ \/ WalkOn(call[c], next) = Idle
              \/ /\ WalkOn(call[c], next).step = "walk"
                 /\ WalkOn(call[c], next).to \in Targets
                 /\ OnTheWay(WalkOn(call[c], next).from, WalkOn(call[c], next).to)
              \/ /\ WalkOn(call[c], next).step = "end" /\ next = "COMPLETED"
           /\ WalkOn(call[c], next) # Idle =>
                 /\ WalkOn(call[c], next).job = call[c].job
                 /\ WalkOn(call[c], next).charged = call[c].charged
           /\ next = "COMPLETED" => WalkOn(call[c], next).step = "end"
  <1>. DEFINE q == call[c]
  <1>1. q.to \in Targets /\ OnTheWay(q.from, q.to)
    BY DEF RequestKnows
  <1>2. /\ q.from \in Underway \ {"COMPLETED"} /\ next \in Underway
        /\ next # q.to => OnTheWay(next, q.to)
        /\ next = "COMPLETED" => q.to = "COMPLETED"
    BY <1>1, NextOnTheWay
  <1>3. next \in JobStatuses
    BY <1>2 DEF Underway, JobStatuses
  <1>4. q \in [step : {"fee", "move", "record", "walk", "end"}, job : Jobs,
              from : JobStatuses, to : JobStatuses, charged : BOOLEAN]
    BY CallType
  <1>5. CASE next # q.to
    <2>. DEFINE s == [q EXCEPT !.from = next]
    <2>1. WalkOn(q, next) = s
      BY <1>5 DEF WalkOn
    <2>2. /\ s \in CallStates /\ s.step = "walk" /\ s.from = next /\ s.to = q.to
          /\ s.job = q.job /\ s.charged = q.charged
      BY <1>3, <1>4 DEF CallStates
    <2>. QED BY <1>1, <1>2, <1>5, <2>1, <2>2
  <1>6. CASE next = q.to /\ next = "COMPLETED"
    <2>. DEFINE s == [q EXCEPT !.step = "end"]
    <2>1. WalkOn(q, next) = s
      BY <1>6 DEF WalkOn
    <2>2. s \in CallStates /\ s.step = "end" /\ s.job = q.job /\ s.charged = q.charged
      BY <1>4 DEF CallStates
    <2>. QED BY <1>2, <1>6, <2>1, <2>2
  <1>7. CASE next = q.to /\ next # "COMPLETED"
    <2>1. WalkOn(q, next) = Idle
      BY <1>7 DEF WalkOn
    <2>. QED BY <1>2, <1>7, <2>1, CallType
  <1>. QED BY <1>5, <1>6, <1>7

LEMMA WalkStep ==
    ASSUME IInv, NEW c \in Calls, Walk(c)
    PROVE  IInv' /\ Stable
  <1>. USE DEF IInv
  <1>. DEFINE j == call[c].job
              next == Flow[FlowIndex(call[c].from) + 1]
              s == WalkOn(call[c], next)
  <1>1. /\ call[c].step = "walk"
        /\ UNCHANGED <<holder, offered, late, opening, session, record>>
        /\ \/ Transition(j, call[c].from, next) /\ Set(c, s) /\ UNCHANGED faults
           \/ Set(c, Idle) /\ UNCHANGED <<status, faults>>
           \/ Fault /\ Set(c, Idle) /\ UNCHANGED status
    BY DEF Walk
  <1>2. j \in Jobs
    BY <1>1, CallType
  <1>3. faults \in Nat /\ faults' \in 0..MaxFaults /\ faults' \in Nat /\ faults' >= faults
    BY <1>1, MaxFaultsAssumption DEF Typed, Fault
  <1>4. RequestKnows(c)
    BY DEF RequestsAgree
  <1>5. CASE Set(c, Idle) /\ UNCHANGED status
    <2>1. /\ call' \in [Calls -> CallStates] /\ call'[c] = Idle
          /\ \A e \in Calls : e # c => call'[e] = call[e]
      BY <1>5, CallType, SetType
    <2>2. Typed' /\ HoldersAgree' /\ Stable
      BY <1>1, <1>3, <1>5, <2>1 DEF Typed, HoldersAgree, Stable
    <2>3. RequestsAgree'
      <3>1. RequestKnows(c)'
        BY <2>1, CallType DEF RequestKnows
      <3>. QED BY <2>1, <2>2, <3>1, RequestFrame DEF RequestsAgree
    <2>4. CancellationsAreAsDecided'
      BY <1>1, <1>3, <1>5, <2>1, <2>2, CallType, CancellationsFrame
    <2>. QED BY <2>2, <2>3, <2>4
  <1>6. CASE Transition(j, call[c].from, next) /\ Set(c, s) /\ UNCHANGED faults
    <2>1. status[j] = call[c].from /\ status' = [status EXCEPT ![j] = next]
      BY <1>6 DEF Transition
    <2>2. /\ call[c].from \in Underway \ {"COMPLETED"} /\ next \in Underway
          /\ s \in CallStates
          /\ \/ s = Idle
             \/ s.step = "walk" /\ s.to \in Targets /\ OnTheWay(s.from, s.to)
             \/ s.step = "end" /\ next = "COMPLETED"
          /\ s # Idle => s.job = j /\ s.charged = call[c].charged
          /\ next = "COMPLETED" => s.step = "end"
      BY <1>1, <1>4, WalkOnType
    <2>3. /\ call' \in [Calls -> CallStates] /\ call'[c] = s
          /\ \A e \in Calls : e # c => call'[e] = call[e]
      BY <1>6, <2>2, SetType
    <2>4. ~Finished(j) /\ status'[j] = next /\ holder[j] # NoDriver
      BY <1>2, <2>1, <2>2 DEF Finished, JobTerminal, Underway, Typed, HoldersAgree
    <2>5. Stable
      BY <1>1, <2>1, <2>4 DEF Stable, Typed
    <2>6. Typed'
      BY <1>1, <1>3, <2>1, <2>2, <2>3 DEF Typed
    <2>7. HoldersAgree'
      BY <1>1, <1>2, <2>1, <2>2, <2>4 DEF HoldersAgree, Typed, Unheld, Underway
    <2>8. RequestKnows(c)'
      <3>1. CASE s = Idle
        BY <2>3, <3>1, CallType DEF RequestKnows
      <3>2. CASE s # Idle
        <4>1. s.charged => holder[j] # NoDriver /\ j \in late
          BY <1>1, <1>4, <2>2, <3>2 DEF RequestKnows
        <4>2. s.step = "end" => status'[s.job] = "COMPLETED"
          BY <2>2, <2>4, <3>2
        <4>3. s.step \in {"walk", "end"} /\ s.job = j
          BY <2>2, <3>2
        <4>4. s.step = "walk" => s.to \in Targets /\ OnTheWay(s.from, s.to)
          BY <2>2, <3>2
        <4>5. call'[c].step = s.step /\ call'[c].job = j /\ call'[c].charged = s.charged
          BY <2>3, <4>3
        <4>6. Finished(call[c].job)' <=> status'[call'[c].job] \in JobTerminal \cup {"COMPLETED"}
          BY DEF Finished
        <4>7. call'[c].step = "walk" => call'[c].to \in Targets /\ OnTheWay(call'[c].from, call'[c].to)
          BY <2>3, <4>4
        <4>8. call'[c].step = "end" => Finished(call[c].job)'
          BY <2>3, <4>2, <4>6
        <4>9. call'[c].charged => holder'[call'[c].job] # NoDriver /\ call'[c].job \in late'
          BY <1>1, <4>1, <4>5
        <4>. QED BY <4>3, <4>5, <4>7, <4>8, <4>9 DEF RequestKnows
      <3>. QED BY <3>1, <3>2
    <2>9. RequestsAgree'
      BY <2>3, <2>5, <2>8, RequestFrame DEF RequestsAgree
    <2>10. next # "CANCELLED" /\ \A i \in Jobs : status'[i] = "CANCELLED" => status[i] = "CANCELLED"
      BY <2>1, <2>2 DEF Typed, Underway
    <2>11. CancellationsAreAsDecided'
      <3>1. CASE s.step # "end"
        BY <1>1, <1>3, <2>2, <2>3, <2>5, <2>10, <3>1, CallType, CancellationsFrame
      <3>2. CASE s.step = "end"
        <4>1. call'[c].job = j
          BY <2>2, <2>3, <3>2, CallType
        <4>2. \A i \in Jobs : \A d, e \in Calls : Finishing(d, i)' /\ Finishing(e, i)' => d = e
          BY <1>1, <1>2, <2>3, <2>4, <4>1, FinisherIsAlone
        <4>3. ASSUME NEW i \in Jobs, record[i] # NoRecord
              PROVE  /\ status'[i] = "CANCELLED"
                     /\ record[i].tier = "BEFORE_ASSIGNMENT" => holder[i] = NoDriver
                     /\ record[i].tier \in {"AFTER_ARRIVAL", "AFTER_START"} => holder[i] # NoDriver
                     /\ record[i].charged => holder[i] # NoDriver /\ i \in late
          <5>1. status[i] = "CANCELLED"
            BY <4>3 DEF CancellationsAreAsDecided
          <5>2. status'[i] = "CANCELLED"
            BY <2>5, <5>1 DEF Stable, Finished, JobTerminal
          <5>. QED BY <4>3, <5>2 DEF CancellationsAreAsDecided
        <4>4. ASSUME NEW i \in Jobs, status'[i] = "CANCELLED", record[i] = NoRecord
              PROVE  faults' > 0 \/ \E e \in Calls : call'[e].step = "record" /\ call'[e].job = i
          <5>1. faults > 0 \/ \E e \in Calls : call[e].step = "record" /\ call[e].job = i
            BY <2>10, <4>4 DEF CancellationsAreAsDecided
          <5>2. \A e \in Calls : call[e].step = "record" => call'[e] = call[e]
            BY <1>1, <2>3
          <5>. QED BY <1>3, <5>1, <5>2
        <4>. QED BY <1>1, <4>2, <4>3, <4>4 DEF CancellationsAreAsDecided
      <3>. QED BY <3>1, <3>2
    <2>. QED BY <2>5, <2>6, <2>7, <2>9, <2>11
  <1>. QED BY <1>1, <1>5, <1>6

-----------------------------------------------------------------------------
(* The invariant is inductive *)

LEMMA InitIInv == Init => IInv
  <1>. SUFFICES ASSUME Init PROVE IInv
    OBVIOUS
  <1>1. \A c \in Calls : call[c].step = "idle"
    BY DEF Init, Idle
  <1>2. Typed
    BY MaxFaultsAssumption DEF Init, Typed, CallStates, Unheld
  <1>3. HoldersAgree
    BY DEF Init, HoldersAgree, Underway
  <1>4. RequestsAgree
    BY <1>1 DEF RequestsAgree, RequestKnows
  <1>5. CancellationsAreAsDecided
    BY <1>1 DEF Init, CancellationsAreAsDecided, Finishing
  <1>. QED BY <1>2, <1>3, <1>4, <1>5 DEF IInv

LEMMA StepIInv ==
    ASSUME IInv, [Next]_vars
    PROVE  IInv' /\ Stable
  <1>1. CASE UNCHANGED vars
    BY <1>1 DEF vars, jobVars, IInv, Typed, HoldersAgree, RequestsAgree, RequestKnows, Finished,
                CancellationsAreAsDecided, Finishing, Stable
  <1>2. CASE Next
    BY <1>2, JobSteps, CancelStep, DecideFeeStep, MoveStep, RecordStep, EndStep,
       ExecuteStep, WalkStep DEF Next
  <1>. QED BY <1>1, <1>2

LEMMA Invariance == Spec => []IInv
  <1>1. IInv /\ [Next]_vars => IInv'
    BY StepIInv
  <1>. QED BY InitIInv, <1>1, PTL DEF Spec

-----------------------------------------------------------------------------
(* Theorems *)

\* Every variable keeps its type, and only a job that is searched for, or was
\* when it was cancelled, has an offer open: an acceptance uses its offer up.
THEOREM TypeCorrect == Spec => []TypeOK
  <1>1. IInv => TypeOK
    BY DEF IInv, Typed, HoldersAgree, TypeOK, Unheld, Underway, JobStatuses
  <1>. QED BY Invariance, <1>1, PTL

\* Document 005 and BD-01 (booking.Service.Cancel, TierFor, FeeFor): the recorded
\* tier is that of the job as the customer left it, a fee is for a driver who
\* had accepted longer ago than the grace window, one request finishes a job,
\* and one that is cancelled has its record unless a failure intervened.
THEOREM CancellationsAreDecidedOnce == Spec => []CancellationsAreAsDecided
  <1>1. IInv => CancellationsAreAsDecided
    BY DEF IInv
  <1>. QED BY Invariance, <1>1, PTL

\* jobs.Machine and the stores that write past it (Accept, OfferEnds): whatever
\* overlaps, a finished job stays as it was finished, a driver who holds a job
\* is never replaced, and no grace window that has passed is open again.
THEOREM TripsOnlyMoveOn == Spec => [][Stable]_vars
  <1>1. IInv /\ [Next]_vars => [Stable]_vars
    BY StepIInv
  <1>. QED BY Invariance, <1>1, PTL DEF Spec

LEMMA WatchedIsOpen ==
    ASSUME NEW j \in Jobs
    PROVE  Watching(j) # {} <=> session[j] # NoDriver
  <1>1. session[j] # NoDriver => "OPERATIONS" \in Watching(j)
    BY DEF Watching, LiveSession, Permitted, Scopes
  <1>2. session[j] = NoDriver => Watching(j) = {}
    BY DEF Watching, LiveSession
  <1>. QED BY <1>1, <1>2

\* A session is the holder's, so all parties are shown it or none is.
LEMMA WatchedByAll ==
    ASSUME HoldersAgree, NEW j \in Jobs
    PROVE  Watching(j) \in {{}, Scopes}
  <1>1. CASE session[j] = NoDriver
    BY <1>1, WatchedIsOpen
  <1>2. CASE session[j] # NoDriver
    <2>1. session[j] = holder[j]
      BY <1>2 DEF HoldersAgree
    <2>2. \A scope \in Scopes : LiveSession(j) /\ Permitted(scope, j)
      BY <1>2, <2>1 DEF LiveSession, Permitted, Scopes
    <2>3. Watching(j) = Scopes
      BY <2>2 DEF Watching
    <2>. QED BY <2>3
  <1>. QED BY <1>1, <1>2

\* A step after which j is finished and can be watched, as it could before,
\* while whoever had yet to close its session still has.
LEMMA NothingIsLeftOpen ==
    ASSUME NEW j \in Jobs, LeftOpen(j)', ~LeftOpen(j),
           session'[j] # NoDriver => session[j] # NoDriver,
           Finished(j)' => Finished(j),
           faults' = 0 => faults = 0,
           \A c \in Calls : Finishing(c, j) => Finishing(c, j)'
    PROVE  FALSE
  <1>1. Watching(j)' # {} <=> session'[j] # NoDriver
    <2>1. session'[j] # NoDriver => "OPERATIONS" \in Watching(j)'
      BY DEF Watching, LiveSession, Permitted, Scopes
    <2>2. session'[j] = NoDriver => Watching(j)' = {}
      BY DEF Watching, LiveSession
    <2>. QED BY <2>1, <2>2
  <1>. QED BY <1>1, WatchedIsOpen DEF LeftOpen

LEMMA OnlyALateSessionIsLeftOpen ==
    ASSUME IInv, [Next]_vars, NEW j \in Jobs, ~LeftOpen(j), LeftOpen(j)'
    PROVE  j \in opening /\ Finished(j)
  <1>. USE DEF jobVars
  <1>a. IInv' /\ faults \in Nat
    BY StepIInv, MaxFaultsAssumption DEF IInv, Typed
  <1>b. Finished(j)' /\ faults' = 0 /\ (\A c \in Calls : ~Finishing(c, j)')
    BY DEF LeftOpen
  <1>c. session'[j] # NoDriver
    <2>1. Watching(j)' # {}
      BY DEF LeftOpen
    <2>. QED BY <2>1 DEF Watching, LiveSession
  <1>1. CASE UNCHANGED vars
    BY <1>1, NothingIsLeftOpen DEF vars, Finished, Finishing
  <1>2. ASSUME NEW i \in Jobs,
               Search(i) \/ Assign(i) \/ OfferEnds(i) \/ GracePasses(i)
        PROVE  FALSE
    <2>1. session' = session /\ faults' = faults /\ call' = call
      BY <1>2 DEF Search, Assign, OfferEnds, GracePasses
    <2>2. Finished(j)' => Finished(j)
      BY <1>2, <1>a DEF Search, Assign, OfferEnds, GracePasses, Transition, Finished, JobTerminal, IInv, Typed
    <2>. QED BY <2>1, <2>2, NothingIsLeftOpen DEF Finishing
  <1>3. ASSUME NEW i \in Jobs, NEW d \in Drivers, Offer(i, d) \/ Accept(i, d)
        PROVE  FALSE
    <2>1. session' = session /\ faults' = faults /\ call' = call
      BY <1>3 DEF Offer, Accept
    <2>2. Finished(j)' => Finished(j)
      BY <1>3, <1>a DEF Offer, Accept, Finished, JobTerminal, IInv, Typed
    <2>. QED BY <2>1, <2>2, NothingIsLeftOpen DEF Finishing
  <1>4. ASSUME NEW i \in Jobs, OpenSession(i)
        PROVE  j \in opening /\ Finished(j)
    <2>1. status' = status /\ call' = call /\ (faults' = faults \/ faults' = faults + 1)
      BY <1>4 DEF OpenSession, Fault
    <2>2. Finished(j)
      BY <1>b, <2>1 DEF Finished
    <2>3. CASE i = j
      BY <1>4, <2>2, <2>3 DEF OpenSession
    <2>4. CASE i # j
      <3>1. session'[j] = session[j]
        BY <1>4, <2>4 DEF OpenSession, StartSession, IInv, Typed
      <3>. QED BY <1>a, <2>1, <2>2, <3>1, NothingIsLeftOpen DEF Finishing
    <2>. QED BY <2>3, <2>4
  <1>5. ASSUME NEW c \in Calls, NEW i \in Jobs, NEW s, Set(c, s), call[c].step \notin {"record", "end"},
               UNCHANGED <<status, session>>, faults' = faults \/ faults' = faults + 1
        PROVE  FALSE
    <2>1. \A e \in Calls : e # c => call'[e] = call[e]
      BY <1>5 DEF Set, IInv, Typed
    <2>2. \A e \in Calls : Finishing(e, j) => Finishing(e, j)'
      BY <1>5, <2>1 DEF Finishing
    <2>. QED BY <1>5, <1>a, <2>2, NothingIsLeftOpen DEF Finished
  <1>6. ASSUME NEW c \in Calls, NEW i \in Jobs,
               \/ Cancel(c, i)
               \/ \E d \in Drivers, target \in Targets : Execute(c, i, d, target)
        PROVE  FALSE
    <2>1. call[c].step = "idle"
      BY <1>6, CallType DEF Cancel, Execute, IInv
    <2>. QED BY <1>5, <1>6, <2>1 DEF Cancel, Execute
  <1>7. ASSUME NEW c \in Calls, DecideFee(c)
        PROVE  FALSE
    BY <1>5, <1>7 DEF DecideFee, Fault
  <1>8. ASSUME NEW c \in Calls, MoveToCancelled(c)
        PROVE  FALSE
    <2>. DEFINE q == [call[c] EXCEPT !.step = "record"]
    <2>1. CASE Set(c, Idle) /\ UNCHANGED status
      BY <1>5, <1>8, <2>1 DEF MoveToCancelled
    <2>2. CASE Transition(call[c].job, call[c].from, "CANCELLED") /\ Set(c, q)
      <3>1. call[c] \in [step : {"fee", "move", "record", "walk", "end"}, job : Jobs,
                         from : JobStatuses, to : JobStatuses, charged : BOOLEAN]
        BY <1>8, CallType DEF MoveToCancelled, IInv
      <3>2. call'[c].step = "record" /\ call'[c].job = call[c].job
        BY <2>2, <3>1 DEF Set, IInv, Typed
      <3>3. CASE call[c].job = j
        BY <1>b, <3>2, <3>3 DEF Finishing
      <3>4. CASE call[c].job # j
        <4>1. status'[j] = status[j]
          BY <2>2, <3>4 DEF Transition, IInv, Typed
        <4>2. \A e \in Calls : e # c => call'[e] = call[e]
          BY <2>2 DEF Set, IInv, Typed
        <4>3. session' = session /\ faults' = faults /\ call[c].step = "move"
          BY <1>8 DEF MoveToCancelled
        <4>4. \A e \in Calls : Finishing(e, j) => Finishing(e, j)'
          BY <4>2, <4>3 DEF Finishing
        <4>. QED BY <4>1, <4>3, <4>4, NothingIsLeftOpen DEF Finished
      <3>. QED BY <3>3, <3>4
    <2>. QED BY <1>8, <2>1, <2>2 DEF MoveToCancelled
  <1>9. ASSUME NEW c \in Calls, RecordCancellation(c)
        PROVE  FALSE
    <2>1. /\ call[c].step = "record" /\ UNCHANGED <<status, session>>
          /\ \/ Set(c, [call[c] EXCEPT !.step = "end"]) /\ faults' = faults
             \/ faults' = faults + 1
      BY <1>9 DEF RecordCancellation, Fault
    <2>2. Set(c, [call[c] EXCEPT !.step = "end"]) /\ faults' = faults
      BY <1>a, <1>b, <2>1
    <2>3. call[c] \in [step : {"fee", "move", "record", "walk", "end"}, job : Jobs,
                       from : JobStatuses, to : JobStatuses, charged : BOOLEAN]
      BY <2>1, CallType DEF IInv
    <2>4. call'[c].step = "end" /\ call'[c].job = call[c].job
      BY <2>2, <2>3 DEF Set, IInv, Typed
    <2>5. \A e \in Calls : e # c => call'[e] = call[e]
      BY <2>2 DEF Set, IInv, Typed
    <2>6. \A e \in Calls : Finishing(e, j) => Finishing(e, j)'
      BY <2>4, <2>5 DEF Finishing
    <2>. QED BY <2>1, <2>2, <2>6, NothingIsLeftOpen DEF Finished
  <1>10. ASSUME NEW c \in Calls, EndTracking(c)
         PROVE  FALSE
    <2>1. /\ call[c].step = "end" /\ Set(c, Idle) /\ status' = status
          /\ \/ session' = [session EXCEPT ![call[c].job] = NoDriver] /\ faults' = faults
             \/ faults' = faults + 1
      BY <1>10 DEF EndTracking, EndSession, Fault
    <2>2. session' = [session EXCEPT ![call[c].job] = NoDriver] /\ faults' = faults
      BY <1>a, <1>b, <2>1
    <2>3. call[c].job # j /\ session'[j] = session[j]
      BY <1>c, <2>2 DEF IInv, Typed
    <2>4. \A e \in Calls : e # c => call'[e] = call[e]
      BY <2>1 DEF Set, IInv, Typed
    <2>5. \A e \in Calls : Finishing(e, j) => Finishing(e, j)'
      BY <2>3, <2>4 DEF Finishing
    <2>. QED BY <2>1, <2>2, <2>3, <2>5, NothingIsLeftOpen DEF Finished
  <1>11. ASSUME NEW c \in Calls, Walk(c)
         PROVE  FALSE
    <2>. DEFINE next == Flow[FlowIndex(call[c].from) + 1]
                s == WalkOn(call[c], next)
    <2>1. /\ call[c].step = "walk" /\ session' = session
          /\ \/ Transition(call[c].job, call[c].from, next) /\ Set(c, s) /\ faults' = faults
             \/ Set(c, Idle) /\ UNCHANGED <<status, faults>>
             \/ Set(c, Idle) /\ UNCHANGED status /\ faults' = faults + 1
      BY <1>11 DEF Walk, Fault
    <2>2. CASE Transition(call[c].job, call[c].from, next) /\ Set(c, s) /\ faults' = faults
      <3>1. /\ WalkOn(call[c], next) # Idle => s.job = call[c].job
            /\ next = "COMPLETED" => s.step = "end"
            /\ next \in Underway
        BY <2>1, WalkOnType DEF IInv, RequestsAgree
      <3>2. call'[c] = s /\ \A e \in Calls : e # c => call'[e] = call[e]
        BY <2>2 DEF Set, IInv, Typed
      <3>3. \A e \in Calls : Finishing(e, j) => Finishing(e, j)'
        BY <2>1, <3>2 DEF Finishing
      <3>4. Finished(j)' => Finished(j)
        <4>1. CASE call[c].job # j
          BY <2>2, <4>1 DEF Transition, Finished, IInv, Typed
        <4>2. CASE call[c].job = j
          <5>1. status'[j] = next
            BY <2>2, <4>2 DEF Transition, IInv, Typed
          <5>2. next = "COMPLETED"
            BY <1>b, <3>1, <5>1 DEF Finished, JobTerminal, Underway
          <5>3. Finishing(c, j)'
            BY <3>1, <3>2, <4>2, <5>2 DEF Finishing, Idle
          <5>. QED BY <1>b, <5>3
        <4>. QED BY <4>1, <4>2
      <3>. QED BY <2>1, <2>2, <3>3, <3>4, NothingIsLeftOpen
    <2>3. CASE Set(c, Idle) /\ UNCHANGED status /\ (faults' = faults \/ faults' = faults + 1)
      BY <1>5, <2>1, <2>3
    <2>. QED BY <2>1, <2>2, <2>3
  <1>. QED BY <1>1, <1>2, <1>3, <1>4, <1>6, <1>7, <1>8, <1>9, <1>10, <1>11 DEF Next

\* Document 102, "location for active service only" (Execute, Cancel, endTracking,
\* StartSession): a trip is shown to all its parties or to none, and only an
\* acceptance whose session opens after the trip has ended leaves it watched.
THEOREM TripsAreNotWatchedAfterwards == Spec => TripsEndTheirTracking
  <1>1. IInv => \A j \in Jobs : Watching(j) \in {{}, Scopes}
    BY WatchedByAll DEF IInv
  <1>2. IInv /\ [Next]_vars =>
            [\A j \in Jobs : ~LeftOpen(j) /\ LeftOpen(j)' => j \in opening /\ Finished(j)]_vars
    BY OnlyALateSessionIsLeftOpen
  <1>. QED BY Invariance, <1>1, <1>2, PTL DEF Spec, TripsEndTheirTracking

-----------------------------------------------------------------------------
(* The trip implements JobClaim *)

\* The abstract state, at every state of the trip.
PhaseOf == [j \in Jobs |-> Phase(status[j])]
HoldersOf == [j \in Jobs |-> {holder[j]} \ {NoDriver}]

LEMMA Phases ==
    /\ \A s \in Unheld : Phase(s) = "open"
    /\ \A s \in Underway \ {"COMPLETED"} : Phase(s) = "won"
    /\ Phase("COMPLETED") = "over" /\ Phase("CANCELLED") = "over"
  BY DEF Phase, Unheld, Underway, JobTerminal

\* A status is written over another: the phase stays, or the job ends.
LEMMA ClaimMove ==
    ASSUME Typed, NEW j \in Jobs, NEW to, status' = [status EXCEPT ![j] = to],
           UNCHANGED holder,
           \/ Phase(to) = Phase(status[j])
           \/ Phase(status[j]) # "over" /\ Phase(to) = "over"
    PROVE  [Claim!Next]_(Claim!vars)
  <1>1. /\ PhaseOf' = [PhaseOf EXCEPT ![j] = Phase(to)]
        /\ PhaseOf[j] = Phase(status[j])
        /\ UNCHANGED HoldersOf
    BY DEF Typed, PhaseOf, HoldersOf
  <1>2. CASE Phase(to) = Phase(status[j])
    <2>1. UNCHANGED PhaseOf
      BY <1>1, <1>2 DEF PhaseOf
    <2>. QED BY <1>1, <2>1 DEF PhaseOf, HoldersOf, Claim!vars
  <1>3. CASE Phase(status[j]) # "over" /\ Phase(to) = "over"
    <2>1. Claim!End(j)
      BY <1>1, <1>3 DEF Claim!End, PhaseOf, HoldersOf
    <2>. QED BY <2>1 DEF Claim!Next
  <1>. QED BY <1>2, <1>3

LEMMA ClaimFrame ==
    ASSUME UNCHANGED <<status, holder>>
    PROVE  UNCHANGED Claim!vars
  BY DEF Claim!vars

LEMMA ClaimAccept ==
    ASSUME Typed, HoldersAgree, NEW j \in Jobs, NEW d \in Drivers, Accept(j, d)
    PROVE  Claim!Win(j, d)
  <1>1. /\ status[j] \in {"SEARCHING", "ASSIGNED"}
        /\ status' = [status EXCEPT ![j] = "ACCEPTED"]
        /\ holder' = [holder EXCEPT ![j] = d]
    BY DEF Accept
  <1>2. holder[j] = NoDriver
    BY <1>1 DEF HoldersAgree, Unheld
  <1>3. PhaseOf[j] = "open" /\ PhaseOf' = [PhaseOf EXCEPT ![j] = "won"]
    BY <1>1, Phases DEF PhaseOf, Typed, Unheld, Underway
  <1>4. HoldersOf[j] = {} /\ HoldersOf' = [HoldersOf EXCEPT ![j] = {d}]
    <2>1. HoldersOf[j] = {} /\ {d} \ {NoDriver} = {d}
      BY <1>2, NoDriverAssumption DEF HoldersOf
    <2>2. \A k \in Jobs : holder'[k] = IF k = j THEN d ELSE holder[k]
      BY <1>1 DEF Typed
    <2>3. HoldersOf' = [k \in Jobs |-> IF k = j THEN {d} ELSE {holder[k]} \ {NoDriver}]
      BY <2>1, <2>2 DEF HoldersOf
    <2>4. [HoldersOf EXCEPT ![j] = {d}] = [k \in Jobs |-> IF k = j THEN {d} ELSE {holder[k]} \ {NoDriver}]
      BY DEF HoldersOf
    <2>. QED BY <2>1, <2>3, <2>4
  <1>. QED BY <1>3, <1>4 DEF Claim!Win, PhaseOf, HoldersOf

LEMMA ClaimJobs ==
    ASSUME Typed, HoldersAgree, NEW j \in Jobs,
           \/ Search(j) \/ Assign(j) \/ OfferEnds(j) \/ OpenSession(j) \/ GracePasses(j)
           \/ \E d \in Drivers : Offer(j, d) \/ Accept(j, d)
    PROVE  [Claim!Next]_(Claim!vars)
  <1>1. CASE Search(j) \/ Assign(j)
    <2>1. PICK to \in Unheld : status[j] \in Unheld /\ status' = [status EXCEPT ![j] = to]
      BY <1>1 DEF Search, Assign, Transition, Unheld
    <2>. QED BY <1>1, <2>1, ClaimMove, Phases DEF Search, Assign
  <1>2. CASE OfferEnds(j)
    <2>1. CASE status[j] \in {"SEARCHING", "ASSIGNED"} /\ status' = [status EXCEPT ![j] = "SEARCHING"]
      <3>1. Phase("SEARCHING") = Phase(status[j])
        BY <2>1, Phases DEF Unheld
      <3>. QED BY <1>2, <2>1, <3>1, ClaimMove DEF OfferEnds
    <2>2. CASE UNCHANGED status
      BY <1>2, <2>2, ClaimFrame DEF OfferEnds
    <2>. QED BY <1>2, <2>1, <2>2 DEF OfferEnds
  <1>3. CASE OpenSession(j) \/ GracePasses(j) \/ \E d \in Drivers : Offer(j, d)
    BY <1>3, ClaimFrame DEF OpenSession, GracePasses, Offer, jobVars
  <1>4. ASSUME NEW d \in Drivers, Accept(j, d)
        PROVE  [Claim!Next]_(Claim!vars)
    BY <1>4, ClaimAccept DEF Claim!Next
  <1>. QED BY <1>1, <1>2, <1>3, <1>4

LEMMA ClaimCalls ==
    ASSUME Typed, RequestsAgree, NEW c \in Calls,
           \/ DecideFee(c) \/ MoveToCancelled(c) \/ RecordCancellation(c)
           \/ Walk(c) \/ EndTracking(c)
           \/ \E j \in Jobs :
                  \/ Cancel(c, j)
                  \/ \E d \in Drivers, target \in Targets : Execute(c, j, d, target)
    PROVE  [Claim!Next]_(Claim!vars)
  <1>. DEFINE j == call[c].job
              next == Flow[FlowIndex(call[c].from) + 1]
  <1>1. RequestKnows(c)
    BY DEF RequestsAgree
  <1>2. CASE MoveToCancelled(c)
    <2>1. call[c].step = "move" /\ UNCHANGED holder
      BY <1>2 DEF MoveToCancelled
    <2>2. j \in Jobs /\ call[c].from \in Unheld \cup {"ACCEPTED", "ARRIVING", "AT_PICKUP"}
      BY <1>1, <2>1, CallType DEF RequestKnows
    <2>3. CASE Transition(j, call[c].from, "CANCELLED")
      <3>1. status[j] = call[c].from /\ status' = [status EXCEPT ![j] = "CANCELLED"]
        BY <2>3 DEF Transition
      <3>2. Phase(status[j]) # "over" /\ Phase("CANCELLED") = "over"
        BY <2>2, <3>1, Phases DEF Unheld, Underway
      <3>. QED BY <2>1, <2>2, <3>1, <3>2, ClaimMove
    <2>4. CASE UNCHANGED status
      BY <2>1, <2>4, ClaimFrame
    <2>. QED BY <1>2, <2>3, <2>4 DEF MoveToCancelled
  <1>3. CASE Walk(c)
    <2>1. call[c].step = "walk" /\ UNCHANGED holder
      BY <1>3 DEF Walk
    <2>2. j \in Jobs
      BY <2>1, CallType
    <2>3. call[c].from \in Underway \ {"COMPLETED"} /\ next \in Underway
      BY <1>1, <2>1, NextOnTheWay DEF RequestKnows
    <2>4. CASE Transition(j, call[c].from, next)
      <3>1. status[j] = call[c].from /\ status' = [status EXCEPT ![j] = next]
        BY <2>4 DEF Transition
      <3>2. Phase(status[j]) = "won" /\ Phase(next) \in {"won", "over"}
        BY <2>3, <3>1, Phases
      <3>. HIDE DEF j, next
      <3>. QED BY <2>1, <2>2, <3>1, <3>2, ClaimMove
    <2>5. CASE UNCHANGED status
      BY <2>1, <2>5, ClaimFrame
    <2>. QED BY <1>3, <2>4, <2>5 DEF Walk
  <1>4. CASE DecideFee(c) \/ RecordCancellation(c) \/ EndTracking(c)
    BY <1>4, ClaimFrame DEF DecideFee, RecordCancellation, EndTracking, jobVars
  <1>5. ASSUME NEW i \in Jobs,
               \/ Cancel(c, i)
               \/ \E d \in Drivers, target \in Targets : Execute(c, i, d, target)
        PROVE  [Claim!Next]_(Claim!vars)
    BY <1>5, ClaimFrame DEF Cancel, Execute, jobVars
  <1>. QED BY <1>2, <1>3, <1>4, <1>5

\* The whole trip keeps dispatch's promise of the job: however acceptances,
\* cancellations and commands overlap and fail, it is won once, by one driver
\* who keeps it to the end, and never after it is over.
THEOREM TripImplementsClaim == Spec => ClaimSpec
  <1>1. Init => Claim!Init
    <2>1. ASSUME Init PROVE Claim!Init
      <3>1. \A j \in Jobs : status[j] = "REQUESTED" /\ holder[j] = NoDriver
        BY <2>1 DEF Init
      <3>2. Phase("REQUESTED") = "open"
        BY DEF Phase
      <3>. QED BY <3>1, <3>2 DEF Claim!Init
    <2>. QED BY <2>1
  <1>2. IInv /\ [Next]_vars => [Claim!Next]_(Claim!vars)
    <2>. SUFFICES ASSUME IInv, [Next]_vars PROVE [Claim!Next]_(Claim!vars)
      OBVIOUS
    <2>1. CASE UNCHANGED vars
      BY <2>1, ClaimFrame DEF vars, jobVars
    <2>2. CASE Next
      BY <2>2, ClaimJobs, ClaimCalls DEF Next, IInv
    <2>. QED BY <2>1, <2>2
  <1>. QED BY Invariance, <1>1, <1>2, PTL DEF Spec, ClaimSpec, Claim!Spec

-----------------------------------------------------------------------------
(* The driver's shift *)

\* A sign-in or a sign-off under way carries its driver and the status it read;
\* one that missed something is still a sign-in.
LEMMA SigningSteps ==
    /\ Resting \in ShiftStates
    /\ \A step \in {"online", "join", "back", "offline", "left"}, d \in Drivers, f \in Presences :
          Signing(step, d, f) \in ShiftStates
    /\ \A s \in ShiftStates :
          /\ s.step # "idle" => s.driver \in Drivers /\ s.from \in Presences
          /\ \A d \in Drivers, what \in Happenings : Missed(s, d, what) \in ShiftStates
  <1>1. /\ Resting \in ShiftStates
        /\ \A step \in {"online", "join", "back", "offline", "left"}, d \in Drivers, f \in Presences :
              Signing(step, d, f) \in ShiftStates
    BY DEF Signing, ShiftStates
  <1>2. ASSUME NEW s \in ShiftStates
        PROVE  /\ s.step # "idle" => s.driver \in Drivers /\ s.from \in Presences
               /\ \A d \in Drivers, what \in Happenings : Missed(s, d, what) \in ShiftStates
    BY DEF ShiftStates, Resting, Missed
  <1>. QED BY <1>1, <1>2

LEMMA ShiftMoves ==
    ASSUME ShiftTypeOK, NEW q \in Signings, NEW s \in ShiftStates, SetShift(q, s)
    PROVE  shift' \in [Signings -> ShiftStates]
  BY DEF ShiftTypeOK, SetShift

\* A report under way carries what it read; one that was overtaken is still a
\* report.
LEMMA ReportSteps ==
    /\ Resting \in ReportStates
    /\ \A d \in Drivers, a, o \in BOOLEAN : Reading(d, a, o) \in ReportStates
    /\ \A d \in Drivers, a \in BOOLEAN, f \in {"newest", "older"} :
          Publishing(d, a, f) \in ReportStates
    /\ \A r \in ReportStates :
          /\ r.step \in {"read", "put"} => r.driver \in Drivers /\ r.available \in BOOLEAN
          /\ r.step = "put" => r.fix \in {"newest", "older"}
          /\ \A d \in Drivers : Overtaken(r, d) \in ReportStates
  <1>2. /\ Resting \in ReportStates
        /\ \A d \in Drivers, a, o \in BOOLEAN : Reading(d, a, o) \in ReportStates
        /\ \A d \in Drivers, a \in BOOLEAN, f \in {"newest", "older"} :
              Publishing(d, a, f) \in ReportStates
    BY DEF ReportStates
  <1>1. ASSUME NEW r \in ReportStates
        PROVE  /\ r.step \in {"read", "put"} => r.driver \in Drivers /\ r.available \in BOOLEAN
               /\ r.step = "put" => r.fix \in {"newest", "older"}
               /\ \A d \in Drivers : Overtaken(r, d) \in ReportStates
    <2>1. CASE \E d \in Drivers, a, o \in BOOLEAN : r = Reading(d, a, o)
      <3>1. PICK e \in Drivers, a \in BOOLEAN, o \in BOOLEAN : r = Reading(e, a, o)
        BY <2>1
      <3>2. ASSUME NEW d \in Drivers
            PROVE  Overtaken(r, d) = r \/ Overtaken(r, d) = Reading(e, a, TRUE)
        BY <3>1 DEF Overtaken, Reading
      <3>3. Reading(e, a, TRUE) \in ReportStates
        BY <1>2
      <3>. QED BY <3>1, <3>2, <3>3 DEF Reading
    <2>2. CASE \E d \in Drivers, a \in BOOLEAN, f \in {"newest", "older"} : r = Publishing(d, a, f)
      <3>1. PICK e \in Drivers, a \in BOOLEAN, f \in {"newest", "older"} : r = Publishing(e, a, f)
        BY <2>2
      <3>2. ASSUME NEW d \in Drivers
            PROVE  Overtaken(r, d) = r \/ Overtaken(r, d) = Publishing(e, a, "older")
        BY <3>1 DEF Overtaken, Publishing
      <3>3. Publishing(e, a, "older") \in ReportStates
        BY <1>2
      <3>. QED BY <3>1, <3>2, <3>3 DEF Publishing
    <2>3. CASE r = Resting
      BY <1>2, <2>3 DEF Overtaken, Resting
    <2>. QED BY <2>1, <2>2, <2>3 DEF ReportStates
  <1>. QED BY <1>1, <1>2

\* Whoever reports, and whatever becomes of a report, it is one of the reports
\* a driver can have.
LEMMA SetReportTyped ==
    ASSUME ShiftTypeOK, NEW q \in Reports, NEW s \in ReportStates, SetReport(q, s)
    PROVE  report' \in [Reports -> ReportStates]
  BY DEF ShiftTypeOK, SetReport

LEMMA BeginReportTyped ==
    ASSUME ShiftTypeOK, NEW q \in Reports, NEW d \in Drivers, BeginReport(q, d)
    PROVE  report' \in [Reports -> ReportStates]
  <1>1. Reading(d, presence[d] = "AVAILABLE", FALSE) \in ReportStates
    BY ReportSteps
  <1>. QED BY <1>1, SetReportTyped DEF BeginReport

LEMMA ReportingTyped ==
    ASSUME ShiftTypeOK, NEW q \in Reports, Reporting(q)
    PROVE  report' \in [Reports -> ReportStates]
  <1>1. report \in [Reports -> ReportStates]
    BY DEF ShiftTypeOK
  <1>2. CASE SetReport(q, Resting)
    BY <1>2, SetReportTyped, ReportSteps
  <1>3. CASE AppendHistory(q)
    <2>1. report[q] \in ReportStates /\ report[q].step = "read"
      BY <1>1, <1>3 DEF AppendHistory
    <2>2. report[q].driver \in Drivers /\ report[q].available \in BOOLEAN
      BY <2>1, ReportSteps
    <2>3. PICK fix \in Stored(report[q]) :
             report' = [e \in Reports |->
                 IF e = q THEN Publishing(report[q].driver, report[q].available, fix)
                 ELSE IF fix = "newest" THEN Overtaken(report[e], report[q].driver) ELSE report[e]]
      BY <1>3 DEF AppendHistory
    <2>4. Publishing(report[q].driver, report[q].available, fix) \in ReportStates
      <3>1. fix \in {"newest", "older"}
        BY DEF Stored
      <3>. QED BY <2>2, <3>1, ReportSteps
    <2>5. \A e \in Reports : Overtaken(report[e], report[q].driver) \in ReportStates
      BY <1>1, <2>2, ReportSteps
    <2>. QED BY <1>1, <2>3, <2>4, <2>5
  <1>. QED BY <1>2, <1>3 DEF Reporting, RejectReport, PublishPosition

\* What Redis keeps of a driver.
LEMMA PutTyped ==
    ASSUME ShiftTypeOK, NEW d \in Drivers, NEW fix \in {"newest", "older"}, NEW a \in BOOLEAN,
           PutCurrent(d, fix, a)
    PROVE  pool' \subseteq Drivers /\ position' \in [Drivers -> {"none", "older", "newest"}]
  BY DEF ShiftTypeOK, PutCurrent

\* What operators and the calendar do.
LEMMA VetTyped ==
    ASSUME ShiftTypeOK, Vet
    PROVE  VettingTypeOK'
  <1>. USE DEF ShiftTypeOK, VettingTypeOK
  <1>0. Counted => events' \in 0 .. MaxEvents
    BY MaxEventsAssumption DEF Counted
  <1>1. ASSUME NEW d \in Drivers, NEW to \in VerificationStatuses, TransitionVerification(d, to)
        PROVE  VettingTypeOK'
    BY <1>0, <1>1 DEF TransitionVerification
  <1>2. ASSUME NEW d \in Drivers, NEW to \in VehicleStatuses, TransitionVehicle(d, to)
        PROVE  VettingTypeOK'
    BY <1>0, <1>2 DEF TransitionVehicle
  <1>3. ASSUME NEW d \in Drivers, SetActiveVehicle(d) \/ WriteSelection(d)
        PROVE  VettingTypeOK'
    BY <1>3 DEF SetActiveVehicle, WriteSelection
  <1>4. ASSUME NEW d \in Drivers, AddDocument(d)
        PROVE  VettingTypeOK'
    BY <1>0, <1>4 DEF AddDocument, DocumentStatuses
  <1>5. ASSUME NEW d \in Drivers, NEW from, NEW to \in DocumentStatuses,
               Counted, Restate(d, from, to)
        PROVE  VettingTypeOK'
    <2>1. papers[d] \subseteq DocumentStatuses
      OBVIOUS
    <2>2. papers' \in [Drivers -> SUBSET DocumentStatuses]
      BY <1>5, <2>1 DEF Restate
    <2>. QED BY <1>0, <1>5, <2>2 DEF Restate
  <1>6. ASSUME ExpireLapsedDocuments
        PROVE  VettingTypeOK'
    BY <1>6 DEF ExpireLapsedDocuments, DocumentStatuses
  <1>7. "LAPSED" \in DocumentStatuses
    BY DEF DocumentStatuses
  <1>. QED BY <1>1, <1>2, <1>3, <1>4, <1>5, <1>6, <1>7
           DEF Vet, DocumentLapses, ReviewDocument

LEMMA VettingStays ==
    ASSUME ShiftTypeOK, UNCHANGED vettingVars, UNCHANGED events \/ Counted
    PROVE  VettingTypeOK'
  BY MaxEventsAssumption DEF ShiftTypeOK, VettingTypeOK, vettingVars, Counted

\* A sign-in or a sign-off.
LEMMA RequestTyped ==
    ASSUME ShiftTypeOK, NEW q \in Signings,
           Requests(q) \/ \E d \in Drivers : GoOnline(q, d) \/ GoOffline(q, d)
    PROVE  ShiftTypeOK'
  <1>. DEFINE e == shift[q].driver
  <1>1. shift \in [Signings -> ShiftStates] /\ presence \in [Drivers -> Presences]
    BY DEF ShiftTypeOK
  <1>2. shift[q].step # "idle" => e \in Drivers /\ shift[q].from \in Presences
    BY <1>1, SigningSteps
  <1>3. \A d \in Drivers, from, to \in Presences :
            TransitionAvailability(d, from, to) => presence' \in [Drivers -> Presences]
    BY <1>1 DEF TransitionAvailability
  <1>4. {"AVAILABLE", "OFFLINE"} \subseteq Presences /\ Happenings = {"won", "signed_in"}
    BY DEF Presences, Happenings
  <1>5. UNCHANGED vettingVars /\ (UNCHANGED events \/ Counted)
    BY DEF GoOnline, GoOffline, Requests, BecomeAvailable, JoinPool,
           RollBack, LeavePool, BecomeOffline, Succeed, Fails
  <1>6. shift' \in [Signings -> ShiftStates]
    <2>1. CASE \E s \in ShiftStates : SetShift(q, s)
      BY <2>1, ShiftMoves
    <2>2. CASE /\ shift[q].step = "online"
               /\ shift' = [s \in Signings |->
                               IF s = q THEN Signing("join", e, shift[q].from)
                               ELSE Missed(shift[s], e, "signed_in")]
      <3>1. Signing("join", e, shift[q].from) \in ShiftStates
        BY <1>2, <2>2, SigningSteps
      <3>2. \A s \in Signings : Missed(shift[s], e, "signed_in") \in ShiftStates
        BY <1>1, <1>2, <1>4, <2>2, SigningSteps
      <3>. HIDE DEF e
      <3>. QED BY <2>2, <3>1, <3>2
    <2>. QED BY <1>1, <1>2, <2>1, <2>2, SigningSteps
             DEF GoOnline, GoOffline, Requests, BecomeAvailable, JoinPool,
                 RollBack, LeavePool, BecomeOffline
  <1>7. presence' \in [Drivers -> Presences]
    BY <1>1, <1>2, <1>3, <1>4
       DEF GoOnline, GoOffline, Requests, BecomeAvailable,
           JoinPool, RollBack, LeavePool, BecomeOffline
  <1>8. pool' \subseteq Drivers /\ position' \in [Drivers -> {"none", "older", "newest"}]
    <2>1. CASE UNCHANGED <<pool, position>>
      BY <2>1 DEF ShiftTypeOK
    <2>2. CASE RemoveFromPool(e)
      BY <2>2 DEF ShiftTypeOK, RemoveFromPool
    <2>3. CASE JoinPool(q)
      BY <1>2, <2>1, <2>3, PutTyped DEF JoinPool
    <2>. QED BY <2>1, <2>2, <2>3
             DEF GoOnline, GoOffline, Requests, BecomeAvailable,
                 RollBack, LeavePool, BecomeOffline
  <1>9. UNCHANGED <<report, offer>>
    BY DEF GoOnline, GoOffline, Requests, BecomeAvailable, JoinPool,
           RollBack, LeavePool, BecomeOffline
  <1>. QED BY <1>5, <1>6, <1>7, <1>8, <1>9, VettingStays DEF ShiftTypeOK

\* A round's step, and the driver's answer.
LEMMA OfferTyped ==
    ASSUME ShiftTypeOK, NEW d \in Drivers,
           \/ Choose(d) \/ Reserve(d) \/ TakeFromPool(d)
           \/ BeginAccept(d) \/ CommitAccept(d) \/ OfferIsOver(d)
    PROVE  ShiftTypeOK'
  <1>1. UNCHANGED vettingVars /\ UNCHANGED report /\ (UNCHANGED events \/ Counted)
    BY DEF Choose, Reserve, TakeFromPool, BeginAccept, CommitAccept, OfferIsOver, Succeed, Fails
  <1>5. shift' \in [Signings -> ShiftStates]
    BY SigningSteps
       DEF ShiftTypeOK, Happenings, Choose, Reserve, TakeFromPool, BeginAccept,
           CommitAccept, OfferIsOver
  <1>2. offer' \in [Drivers -> Offers]
    BY DEF ShiftTypeOK, Offers, SetOffer, Choose, Reserve, TakeFromPool,
           BeginAccept, CommitAccept, OfferIsOver
  <1>3. presence' \in [Drivers -> Presences]
    BY DEF ShiftTypeOK, Presences, Choose, Reserve, TakeFromPool, BeginAccept,
           CommitAccept, OfferIsOver
  <1>4. pool' \subseteq Drivers /\ UNCHANGED position
    BY DEF ShiftTypeOK, RemoveFromPool, Choose, Reserve, TakeFromPool, BeginAccept,
           CommitAccept, OfferIsOver
  <1>. QED BY <1>1, <1>2, <1>3, <1>4, <1>5, VettingStays DEF ShiftTypeOK

LEMMA DutyStepTyped ==
    ASSUME ShiftTypeOK, [ShiftNext]_dutyVars
    PROVE  ShiftTypeOK'
  <1>1. CASE Vet /\ UNCHANGED shiftVars
    BY <1>1, VetTyped DEF ShiftTypeOK, shiftVars
  <1>2. ASSUME NEW q \in Reports, NEW d \in Drivers, BeginReport(q, d)
        PROVE  ShiftTypeOK'
    BY <1>2, BeginReportTyped, VettingStays DEF ShiftTypeOK, BeginReport
  <1>3. ASSUME NEW d \in Drivers, PositionExpires(d)
        PROVE  ShiftTypeOK'
    BY <1>3, VettingStays DEF ShiftTypeOK, PositionExpires
  <1>4. ASSUME NEW q \in Reports, Reporting(q)
        PROVE  ShiftTypeOK'
    <2>1. report' \in [Reports -> ReportStates]
      BY <1>4, ReportingTyped
    <2>2. /\ UNCHANGED vettingVars /\ UNCHANGED <<presence, shift, offer>>
          /\ UNCHANGED events \/ Counted
      BY <1>4 DEF Reporting, RejectReport, AppendHistory, PublishPosition, Succeed, Fails
    <2>3. report[q] \in ReportStates
      BY DEF ShiftTypeOK
    <2>4. pool' \subseteq Drivers /\ position' \in [Drivers -> {"none", "older", "newest"}]
      <3>1. CASE PublishPosition(q)
        <4>. DEFINE r == report[q]
        <4>1. r.driver \in Drivers /\ r.available \in BOOLEAN /\ r.fix \in {"newest", "older"}
          BY <2>3, <3>1, ReportSteps DEF PublishPosition
        <4>2. PutCurrent(r.driver, r.fix, r.available) \/ UNCHANGED <<pool, position>>
          BY <3>1 DEF PublishPosition
        <4>. HIDE DEF r
        <4>. QED BY <4>1, <4>2, PutTyped DEF ShiftTypeOK
      <3>2. CASE RejectReport(q) \/ AppendHistory(q)
        BY <3>2 DEF RejectReport, AppendHistory, ShiftTypeOK
      <3>. QED BY <1>4, <3>1, <3>2 DEF Reporting
    <2>. QED BY <2>1, <2>2, <2>4, VettingStays DEF ShiftTypeOK
  <1>5. CASE UNCHANGED dutyVars
    BY <1>5, VettingStays DEF dutyVars, shiftVars, ShiftTypeOK
  <1>. QED BY <1>1, <1>2, <1>3, <1>4, <1>5, RequestTyped, OfferTyped DEF ShiftNext

\* Every row, report and request of a driver's shift keeps its type, however many
\* there are (GoOnline, GoOffline, ReportLocation and the dispatch of offers):
\* a driver is never marked anything but OFFLINE, AVAILABLE or ACCEPTED.
THEOREM DutyTypeCorrect == ShiftSpec => []ShiftTypeOK
  <1>1. ShiftInit => ShiftTypeOK
    <2>. SUFFICES ASSUME ShiftInit PROVE ShiftTypeOK
      OBVIOUS
    <2>1. VettingTypeOK
      BY RecordsAssumption, MaxEventsAssumption
         DEF ShiftInit, VettingInit, VettingTypeOK, VerificationStatuses, DocumentStatuses
    <2>2. report \in [Reports -> ReportStates]
      BY ReportSteps DEF ShiftInit
    <2>. QED BY <2>1, <2>2, SigningSteps DEF ShiftInit, ShiftTypeOK, Presences, Offers
  <1>. QED BY <1>1, DutyStepTyped, PTL DEF ShiftSpec

\* Reviews and selections leave the shift alone, and it leaves them alone.
LEMMA VettingIsOneSide ==
    ASSUME [ShiftNext]_dutyVars
    PROVE  Vet \/ UNCHANGED vettingVars
  BY DEF ShiftNext, dutyVars, GoOnline, GoOffline, Requests, BecomeAvailable,
         JoinPool, RollBack, LeavePool, BecomeOffline, BeginReport,
         PositionExpires, Choose, Reserve, TakeFromPool, BeginAccept,
         CommitAccept, OfferIsOver, Reporting, RejectReport, AppendHistory,
         PublishPosition

\* Four transactions write a driver's status.
LEMMA PresenceIsTheRequests ==
    ASSUME [ShiftNext]_dutyVars, presence' # presence
    PROVE  \/ \E q \in Signings : BecomeAvailable(q) \/ RollBack(q) \/ BecomeOffline(q)
           \/ \E d \in Drivers : CommitAccept(d)
  BY DEF ShiftNext, dutyVars, shiftVars, GoOnline, GoOffline,
         Requests, JoinPool, LeavePool, BeginReport, PositionExpires,
         Choose, Reserve, TakeFromPool, BeginAccept, OfferIsOver,
         Reporting, RejectReport, AppendHistory, PublishPosition

\* A vehicle's standing and its selection change in one step.
LEMMA SlippingThrough ==
    ASSUME ShiftTypeOK, [ShiftNext]_dutyVars, NEW d \in Drivers,
           Stranded(d)', ~Stranded(d)
    PROVE  d \in selecting
  <1>. SUFFICES ASSUME d \notin selecting PROVE FALSE
    OBVIOUS
  <1>. USE DEF Stranded
  <1>1. ASSUME NEW e \in Drivers, NEW to \in VehicleStatuses, TransitionVehicle(e, to)
        PROVE  FALSE
    <2>1. CASE e = d
      <3>1. vehicle'[d] = to
        BY <1>1, <2>1 DEF TransitionVehicle, ShiftTypeOK, VettingTypeOK
      <3>2. to = "VERIFIED" \/ d \notin active'
        BY <1>1, <2>1 DEF TransitionVehicle
      <3>. QED BY <3>1, <3>2
    <2>2. CASE e # d
      BY <1>1, <2>2 DEF TransitionVehicle, ShiftTypeOK, VettingTypeOK
    <2>. QED BY <2>1, <2>2
  <1>2. ASSUME NEW e \in Drivers, WriteSelection(e)
        PROVE  FALSE
    BY <1>2 DEF WriteSelection
  <1>3. ASSUME UNCHANGED <<vehicle, active>>
        PROVE  FALSE
    BY <1>3
  <1>4. CASE Vet
    BY <1>1, <1>2, <1>3, <1>4
       DEF Vet, TransitionVerification, SetActiveVehicle, AddDocument,
           DocumentLapses, ReviewDocument, Restate, ExpireLapsedDocuments
  <1>5. CASE UNCHANGED vettingVars
    BY <1>3, <1>5 DEF vettingVars
  <1>6. Vet \/ UNCHANGED vettingVars
    BY VettingIsOneSide
  <1>. QED BY <1>4, <1>5, <1>6

\* What takes the mark has read it, and of ACCEPTED the machine allows a sign-in
\* alone.
LEMMA SignInsTakeTheMark ==
    ASSUME ShiftTypeOK, [ShiftNext]_dutyVars, NEW d \in Drivers,
           presence[d] = "ACCEPTED", presence'[d] # "ACCEPTED"
    PROVE  \E q \in Signings :
              /\ shift[q].step = "online" /\ shift'[q].step = "join"
              /\ shift[q].driver = d /\ shift[q].from = "ACCEPTED"
              /\ BecomeAvailable(q)
  <1>. USE DEF ShiftTypeOK
  <1>1. \A e, from, to : TransitionAvailability(e, from, to) =>
            e = d /\ from = "ACCEPTED" /\ to # "OFFLINE"
    BY DEF TransitionAvailability, AvailabilityCan, AvailabilityMachine
  <1>2. ASSUME NEW q \in Signings, BecomeAvailable(q)
        PROVE  /\ shift[q].step = "online" /\ shift'[q].step = "join"
               /\ shift[q].driver = d /\ shift[q].from = "ACCEPTED"
    <2>1. /\ TransitionAvailability(shift[q].driver, shift[q].from, "AVAILABLE")
          /\ shift'[q] = Signing("join", shift[q].driver, shift[q].from)
      BY <1>2 DEF BecomeAvailable
    <2>. QED BY <1>1, <1>2, <2>1 DEF BecomeAvailable, Signing
  <1>3. ASSUME NEW q \in Signings, RollBack(q)
        PROVE  FALSE
    BY <1>1, <1>3 DEF RollBack
  <1>4. ASSUME NEW q \in Signings, BecomeOffline(q)
        PROVE  FALSE
    BY <1>1, <1>4 DEF BecomeOffline
  <1>5. ASSUME NEW e \in Drivers, CommitAccept(e)
        PROVE  FALSE
    BY <1>5 DEF CommitAccept
  <1>. QED BY <1>2, <1>3, <1>4, <1>5, PresenceIsTheRequests

\* A sign-in that read ACCEPTED and has missed no other one still finds that very
\* mark: nothing but a sign-in takes it, and no acceptance writes it again.
ReadMarksStand ==
    \A q \in Signings :
        shift[q].step = "online" /\ shift[q].from = "ACCEPTED" /\ "signed_in" \notin shift[q].since
        => presence[shift[q].driver] = "ACCEPTED" /\ "won" \notin shift[q].since

LEMMA ReadMarksStay ==
    ASSUME ShiftTypeOK, ReadMarksStand, [ShiftNext]_dutyVars
    PROVE  ReadMarksStand'
  <1>. SUFFICES ASSUME NEW q \in Signings, shift'[q].step = "online", shift'[q].from = "ACCEPTED",
                       "signed_in" \notin shift'[q].since
                PROVE  presence'[shift'[q].driver] = "ACCEPTED" /\ "won" \notin shift'[q].since
    BY DEF ReadMarksStand
  <1>. DEFINE d == shift[q].driver
  <1>1. shift \in [Signings -> ShiftStates] /\ presence \in [Drivers -> Presences]
    BY DEF ShiftTypeOK
  <1>2. CASE shift'[q] = shift[q]
    <2>1. d \in Drivers /\ presence[d] = "ACCEPTED" /\ "won" \notin shift[q].since
      BY <1>1, <1>2, SigningSteps DEF ReadMarksStand
    <2>2. ASSUME presence'[d] # "ACCEPTED"
          PROVE  FALSE
      <3>1. PICK e \in Signings : /\ BecomeAvailable(e) /\ shift[e].step = "online"
                                  /\ shift'[e].step = "join" /\ shift[e].driver = d
        BY <2>1, <2>2, SignInsTakeTheMark
      <3>2. e # q /\ shift'[q] = Missed(shift[q], d, "signed_in")
        <4>1. e # q
          BY <1>2, <3>1
        <4>2. SetShift(e, Resting) => shift'[e] = Resting
          BY <1>1 DEF SetShift
        <4>. QED BY <3>1, <4>1, <4>2 DEF BecomeAvailable, Resting
      <3>. QED BY <1>2, <3>2 DEF Missed
    <2>. QED BY <1>2, <2>1, <2>2
  <1>3. ASSUME NEW e \in Drivers, GoOnline(q, e)
        PROVE  presence'[shift'[q].driver] = "ACCEPTED" /\ "won" \notin shift'[q].since
    BY <1>1, <1>3 DEF GoOnline, SetShift, Signing
  <1>4. ASSUME NEW e \in Drivers, CommitAccept(e), shift'[q] # shift[q]
        PROVE  FALSE
    <2>1. presence[e] = "AVAILABLE" /\ shift'[q] = Missed(shift[q], e, "won")
      BY <1>4 DEF CommitAccept
    <2>2. shift[q].step = "online" /\ d = e /\ shift'[q] = [shift[q] EXCEPT !.since = @ \cup {"won"}]
      BY <1>4, <2>1 DEF Missed
    <2>3. shift[q].from = "ACCEPTED" /\ "signed_in" \notin shift[q].since
      BY <1>1, <2>2 DEF ShiftStates, Resting
    <2>. QED BY <2>1, <2>2, <2>3 DEF ReadMarksStand
  <1>5. ASSUME NEW e \in Signings, BecomeAvailable(e), shift'[q] # shift[q]
        PROVE  FALSE
    <2>1. q # e
      BY <1>1, <1>5 DEF BecomeAvailable, SetShift, Signing, Resting
    <2>2. shift'[q] = Missed(shift[q], shift[e].driver, "signed_in")
      BY <1>1, <1>5, <2>1 DEF BecomeAvailable, SetShift
    <2>3. shift'[q] = [shift[q] EXCEPT !.since = @ \cup {"signed_in"}] /\ shift[q].step = "online"
      BY <1>5, <2>2 DEF Missed
    <2>. QED BY <1>1, <2>3 DEF ShiftStates, Resting
  <1>6. ASSUME NEW e \in Signings,
               \/ JoinPool(e) \/ RollBack(e) \/ LeavePool(e) \/ BecomeOffline(e)
               \/ \E f \in Drivers : GoOffline(e, f) \/ (e # q /\ GoOnline(e, f))
        PROVE  shift'[q] = shift[q]
    <2>1. \/ SetShift(e, Resting)
          \/ \E step \in {"back", "left", "offline"} : \E f, g : SetShift(e, Signing(step, f, g))
          \/ e # q /\ \E f, g : SetShift(e, Signing("online", f, g))
      BY <1>6 DEF JoinPool, RollBack, LeavePool, BecomeOffline, GoOffline, GoOnline
    <2>2. e = q => shift'[e].step # "online"
      <3>1. \A s : SetShift(e, s) => shift'[e] = s
        BY <1>1 DEF SetShift
      <3>2. /\ \A step, f, g : Signing(step, f, g).step = step
            /\ Resting.step = "idle"
        BY DEF Signing, Resting
      <3>3. SetShift(e, Resting) => shift'[e].step = "idle"
        BY <3>1, <3>2
      <3>4. ASSUME NEW step \in {"back", "left", "offline"}, NEW f, NEW g,
                   SetShift(e, Signing(step, f, g))
            PROVE  shift'[e].step # "online"
        BY <3>1, <3>2, <3>4
      <3>. QED BY <2>1, <3>3, <3>4
    <2>3. e # q => shift'[q] = shift[q]
      BY <1>1, <2>1 DEF SetShift
    <2>. QED BY <2>2, <2>3
  <1>7. \/ shift' = shift
        \/ \E e \in Drivers : CommitAccept(e)
        \/ \E e \in Signings : Requests(e) \/ \E f \in Drivers : GoOnline(e, f) \/ GoOffline(e, f)
    BY DEF ShiftNext, dutyVars, shiftVars, BeginReport, PositionExpires,
           Choose, Reserve, TakeFromPool, BeginAccept, OfferIsOver,
           Reporting, RejectReport, AppendHistory, PublishPosition
  <1>. HIDE DEF d
  <1>. QED BY <1>2, <1>3, <1>4, <1>5, <1>6, <1>7 DEF Requests

\* A review that takes a vehicle's standing takes the vehicle from its driver
\* (TransitionVehicle), whatever else is under way; a selection that read the
\* vehicle before the review (SetActiveVehicle) is all that slips through.
THEOREM ReviewsTakeTheVehicle == ShiftSpec => OnlyOverlapsSlipThrough
  <1>1. ShiftTypeOK /\ [ShiftNext]_dutyVars =>
            [\A d \in Drivers : Stranded(d)' /\ ~Stranded(d) => d \in selecting]_<<vettingVars, events>>
    BY SlippingThrough
  <1>. QED BY <1>1, DutyTypeCorrect, PTL DEF ShiftSpec, OnlyOverlapsSlipThrough

\* The mark of a won job is taken by a sign-in that read it, and never by a
\* sign-off, a rollback or a sign-in that read an older status (GoOnline,
\* GoOffline); one that began before the job was won needs another of the driver's
\* sign-ins to have succeeded meanwhile, for any number of requests at once.
THEOREM AcceptanceIsKept == ShiftSpec => AcceptedIsNotOverwritten
  <1>1. ShiftInit => ReadMarksStand
    BY DEF ShiftInit, ReadMarksStand, Resting
  <1>2. ShiftSpec => []ReadMarksStand
    BY <1>1, ReadMarksStay, DutyTypeCorrect, PTL DEF ShiftSpec
  <1>3. ShiftTypeOK /\ ReadMarksStand /\ [ShiftNext]_dutyVars =>
            [\A d \in Drivers :
               presence[d] = "ACCEPTED" /\ presence'[d] # "ACCEPTED" =>
                   \E q \in Signings :
                       /\ shift[q].step = "online" /\ shift'[q].step = "join"
                       /\ shift[q].driver = d /\ shift[q].from = "ACCEPTED"
                       /\ "won" \in shift[q].since => "signed_in" \in shift[q].since]_dutyVars
    BY SignInsTakeTheMark DEF ReadMarksStand
  <1>. QED BY <1>2, <1>3, DutyTypeCorrect, PTL DEF ShiftSpec, AcceptedIsNotOverwritten

=============================================================================
