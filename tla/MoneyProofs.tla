---------------------------- MODULE MoneyProofs -----------------------------
(***************************************************************************)
(* The books of a job, for any number of jobs, requests and failures.       *)
(***************************************************************************)
EXTENDS Money, FiniteSums

-----------------------------------------------------------------------------
(* Type correctness *)

\* What a request has in hand.
LEMMA RequestType ==
    ASSUME TypeOK, NEW q \in Requests
    PROVE  /\ request[q] # Idle => request[q].job \in Jobs
           /\ request[q].step \in {"intent", "capture", "cod", "goods", "earning"}
                => request[q] # Idle
           /\ request[q].step = "goods" => Goods[request[q].job] > 0
           /\ request[q].step = "earning" => Fare[request[q].job] > 0
  <1>1. request[q] \in RequestStates
    BY DEF TypeOK
  <1>. QED BY <1>1 DEF RequestStates, Idle

\* Where a request may go.
LEMMA StepType ==
    ASSUME NEW j \in Jobs
    PROVE  /\ \A s \in {"intent", "capture", "cod"} : [step |-> s, job |-> j] \in RequestStates
           /\ Goods[j] > 0 => [step |-> "goods", job |-> j] \in RequestStates
           /\ Fare[j] > 0 => [step |-> "earning", job |-> j] \in RequestStates
           /\ Idle \in RequestStates
  BY DEF RequestStates

\* A post of any kind keeps the ledger typed.
LEMMA PostType ==
    ASSUME TypeOK, NEW kind \in Kinds, NEW j \in Jobs, Post(kind, j) \/ PostWithin(kind, j)
    PROVE  posted' \in [Kinds \X Jobs -> Nat]
  <1>1. posted[<<kind, j>>] \in Nat
    BY DEF TypeOK
  <1>2. CASE Post(kind, j)
    BY <1>1, <1>2 DEF TypeOK, Post
  <1>3. CASE PostWithin(kind, j)
    BY <1>1, <1>3 DEF TypeOK, PostWithin
  <1>. QED BY <1>2, <1>3

\* Going on to the shop's or the driver's part, when the job has goods for it.
LEMMA GoOnType ==
    ASSUME TypeOK, NEW q \in Requests, NEW j \in Jobs, NEW s \in {"goods", "earning"},
           s = "goods" => Goods[j] > 0, GoOn(q, s, j)
    PROVE  request' \in [Requests -> RequestStates] /\ settled' \subseteq Jobs
  <1>1. CASE s = "earning" /\ Fare[j] = 0
    BY <1>1, StepType DEF GoOn, Return, TypeOK
  <1>2. CASE ~(s = "earning" /\ Fare[j] = 0)
    <2>1. [step |-> s, job |-> j] \in RequestStates
      <3>1. Fare[j] \in Nat
        BY FareAssumption
      <3>2. CASE s = "goods"
        <4>1. Goods[j] > 0
          BY <3>2
        <4>. QED BY <3>2, <4>1, StepType
      <3>3. CASE s = "earning"
        <4>1. Fare[j] > 0
          BY <1>2, <3>1, <3>3
        <4>. QED BY <3>3, <4>1, StepType
      <3>. QED BY <3>2, <3>3
    <2>. QED BY <1>2, <2>1 DEF GoOn, MoveTo, TypeOK
  <1>. QED BY <1>1, <1>2

LEMMA AfterCashType ==
    ASSUME NEW j \in Jobs
    PROVE  /\ AfterCash(j) \in {"goods", "earning"}
           /\ AfterCash(j) = "goods" => Goods[j] > 0
           /\ AfterCash(j) = "earning" => Goods[j] = 0
  BY GoodsAssumption DEF AfterCash

LEMMA TypeInit == Init => TypeOK
  BY StepType DEF Init, TypeOK, RequestStates

LEMMA TypeRequest ==
    ASSUME TypeOK, NEW q \in Requests, Settle(q) \/ Fail(q)
    PROVE  TypeOK'
  <1>. DEFINE j == request[q].job
  <1>. USE DEF driverVars
  <1>1. CASE SettleNothing(q)
    BY <1>1, RequestType, StepType DEF SettleNothing, Return, TypeOK
  <1>2. CASE CreateIntent(q)
    <2>1. j \in Jobs
      BY <1>2, RequestType DEF CreateIntent
    <2>2. request' \in [Requests -> RequestStates]
      BY <1>2, <2>1, StepType DEF CreateIntent, MoveTo, TypeOK
    <2>. QED BY <1>2, <2>1, <2>2 DEF CreateIntent, TypeOK
  <1>3. CASE Capture(q)
    <2>1. j \in Jobs
      BY <1>3, RequestType DEF Capture
    <2>2. request' \in [Requests -> RequestStates]
      BY <1>3, <2>1, StepType DEF Capture, MoveTo, TypeOK
    <2>3. posted' \in [Kinds \X Jobs -> Nat]
      BY <1>3, <2>1, PostType DEF Capture, Kinds, TypeOK
    <2>. QED BY <1>3, <2>1, <2>2, <2>3 DEF Capture, TypeOK
  <1>4. CASE Collect(q)
    <2>1. j \in Jobs
      BY <1>4, RequestType DEF Collect
    <2>2. request' \in [Requests -> RequestStates] /\ settled' \subseteq Jobs
      BY <1>4, <2>1, AfterCashType, GoOnType DEF Collect
    <2>3. posted' \in [Kinds \X Jobs -> Nat]
      BY <1>4, <2>1, PostType DEF Collect, Kinds
    <2>. QED BY <1>4, <2>2, <2>3 DEF Collect, TypeOK
  <1>5. CASE PayMerchant(q)
    <2>1. j \in Jobs
      BY <1>5, RequestType DEF PayMerchant
    <2>2. request' \in [Requests -> RequestStates] /\ settled' \subseteq Jobs
      BY <1>5, <2>1, GoOnType DEF PayMerchant
    <2>3. posted' \in [Kinds \X Jobs -> Nat]
      BY <1>5, <2>1, PostType DEF PayMerchant, Kinds
    <2>. QED BY <1>5, <2>2, <2>3 DEF PayMerchant, TypeOK
  <1>6. CASE PayDriver(q)
    <2>1. j \in Jobs
      BY <1>6, RequestType DEF PayDriver
    <2>2. posted' \in [Kinds \X Jobs -> Nat]
      BY <1>6, <2>1, PostType DEF PayDriver, Kinds
    <2>. QED BY <1>6, <2>1, <2>2, StepType DEF PayDriver, Return, TypeOK
  <1>7. CASE RefuseDriver(q) \/ Fail(q)
    BY <1>7 DEF RefuseDriver, Fail, TypeOK, RequestStates
  <1>. QED BY <1>1, <1>2, <1>3, <1>4, <1>5, <1>6, <1>7 DEF Settle

LEMMA TypeNext == TypeOK /\ [Next]_vars => TypeOK'
  <1>. SUFFICES ASSUME TypeOK, [Next]_vars
                PROVE  TypeOK'
    OBVIOUS
  <1>1. CASE \E q \in Requests, j \in Jobs : Complete(q, j) \/ Repeat(q, j)
    <2>1. PICK q \in Requests, j \in Jobs : Complete(q, j) \/ Repeat(q, j)
      BY <1>1
    <2>2. request' = [request EXCEPT ![q] = [step |-> "intent", job |-> j]]
      BY <2>1 DEF Complete, Repeat, MoveTo
    <2>3. request' \in [Requests -> RequestStates]
      BY <2>2, StepType DEF TypeOK
    <2>4. completed' \subseteq Jobs
      BY <2>1 DEF Complete, Repeat, TypeOK
    <2>5. UNCHANGED <<intent, posted, settled, remittances, settlements, usedKeys>>
      BY <2>1 DEF Complete, Repeat, driverVars
    <2>. QED BY <2>3, <2>4, <2>5 DEF TypeOK
  <1>2. CASE \E q \in Requests : Settle(q) \/ Fail(q)
    BY <1>2, TypeRequest
  <1>3. CASE \E d \in Drivers, amount \in Amounts, key \in Keys \cup {NoKey} :
                 RecordSettlement(d, amount, key)
    <2>1. PICK d \in Drivers, amount \in Amounts, key \in Keys \cup {NoKey} :
              RecordSettlement(d, amount, key)
      BY <1>3
    <2>2. remittances[<<d, amount>>] \in Nat /\ settlements[<<d, amount>>] \in Nat
      BY DEF TypeOK
    <2>3. remittances' \in [Drivers \X Amounts -> Nat]
      BY <2>1, <2>2 DEF RecordSettlement, TypeOK
    <2>4. settlements' \in [Drivers \X Amounts -> Nat] /\ usedKeys' \subseteq Keys
      <3>1. CASE key \in usedKeys
        BY <2>1, <3>1 DEF RecordSettlement, TypeOK
      <3>2. CASE key \notin usedKeys
        <4>1. /\ settlements' = [settlements EXCEPT ![<<d, amount>>] = @ + 1]
              /\ usedKeys' = usedKeys \cup ({key} \ {NoKey})
          BY <2>1, <3>2 DEF RecordSettlement
        <4>2. settlements' \in [Drivers \X Amounts -> Nat]
          BY <2>2, <4>1 DEF TypeOK
        <4>3. usedKeys' \subseteq Keys
          BY <4>1 DEF TypeOK
        <4>. QED BY <4>2, <4>3
      <3>. QED BY <3>1, <3>2
    <2>. QED BY <2>1, <2>3, <2>4 DEF RecordSettlement, TypeOK, jobVars
  <1>4. CASE UNCHANGED vars
    BY <1>4 DEF vars, jobVars, driverVars, TypeOK
  <1>. QED BY <1>1, <1>2, <1>3, <1>4 DEF Next

\* Every variable keeps its type, whatever the jobs and the requests; a request
\* never reaches the shop's or the driver's part with nothing to post.
THEOREM TypeCorrect == Spec => []TypeOK
  BY TypeInit, TypeNext, PTL DEF Spec

-----------------------------------------------------------------------------
(* The books of a job *)

\* What a request has behind it at each step.
Behind(q) ==
    LET j == request[q].job
    IN  /\ request[q].step = "capture" => Total(j) > 0 /\ intent[j] # "none"
        /\ request[q].step = "cod" => Total(j) > 0 /\ posted[<<"capture", j>>] = 1
        /\ request[q].step \in {"goods", "earning"} => posted[<<"cod", j>>] = 1
        /\ request[q].step = "earning" /\ Goods[j] > 0 => posted[<<"goods", j>>] = 1

\* All of a job's money is in the books, and nothing else.
InFull(j) == \A kind \in Kinds : posted[<<kind, j>>] > 0 <=> kind \in Due(j)

\* What the books say of one job: nothing twice, nothing undue, nothing before
\* what it comes after.
Sound(j) ==
    /\ \A kind \in Kinds : posted[<<kind, j>>] \in {0, 1}
    /\ \A kind \in Kinds : posted[<<kind, j>>] = 1 => kind \in Due(j)
    /\ intent[j] = "CAPTURED" <=> posted[<<"capture", j>>] = 1
    /\ posted[<<"cod", j>>] = 1 => posted[<<"capture", j>>] = 1
    /\ posted[<<"goods", j>>] = 1 \/ posted[<<"earning", j>>] = 1 => posted[<<"cod", j>>] = 1

\* SettledInFull is not inductive: what will be posted when a call returns
\* depends on how far it is, which Behind says, and Behind on a ledger that
\* loses nothing and on an intent being captured with its payment.
Books ==
    /\ \A j \in Jobs : Sound(j)
    /\ \A q \in Requests : Behind(q)
    /\ \A j \in settled : InFull(j)

IInv == TypeOK /\ Books

\* The effect of a step on the requests but one, on a job's movements but one,
\* and on what is there already.
OnlyMoves(q) == \A p \in Requests \ {q} : request'[p] = request[p]
OnlyPosts(kind, j) ==
    \A k \in Kinds, i \in Jobs : k # kind \/ i # j => posted'[<<k, i>>] = posted[<<k, i>>]
Keeps(j) ==
    /\ \A kind \in Kinds : posted[<<kind, j>>] = 1 => posted'[<<kind, j>>] = 1
    /\ intent[j] # "none" => intent'[j] # "none"

LEMMA TheKinds ==
    /\ Kinds = {"capture", "cod", "goods", "earning"}
    /\ "capture" \in Kinds /\ "cod" \in Kinds /\ "goods" \in Kinds /\ "earning" \in Kinds
  BY DEF Kinds

\* What is due, kind by kind.
LEMMA DueKinds ==
    ASSUME NEW j \in Jobs
    PROVE  /\ "goods" \in Due(j) <=> Goods[j] > 0
           /\ "earning" \in Due(j) <=> Fare[j] > 0
           /\ "capture" \in Due(j) <=> Total(j) > 0
           /\ "cod" \in Due(j) <=> Total(j) > 0
           /\ Fare[j] \in Nat /\ Goods[j] \in Nat
           /\ Total(j) > 0 <=> Fare[j] > 0 \/ Goods[j] > 0
  BY FareAssumption, GoodsAssumption DEF Due, Kinds, Total

\* A move of one request leaves the others where they are.
LEMMA RequestEffect ==
    ASSUME TypeOK, NEW q \in Requests, NEW r, request' = [request EXCEPT ![q] = r]
    PROVE  request'[q] = r /\ OnlyMoves(q)
  BY DEF TypeOK, OnlyMoves

\* A keyed post leaves one movement, and every other as it was.
LEMMA PostEffect ==
    ASSUME TypeOK, NEW kind \in Kinds, NEW j \in Jobs, Sound(j), Post(kind, j)
    PROVE  posted'[<<kind, j>>] = 1 /\ OnlyPosts(kind, j)
  BY DEF TypeOK, Sound, Post, OnlyPosts

\* Where GoOn leaves the request, and what it adds to the settled jobs.
LEMMA GoOnEffect ==
    ASSUME TypeOK, NEW q \in Requests, NEW s, NEW j \in Jobs, GoOn(q, s, j)
    PROVE  /\ OnlyMoves(q)
           /\ \/ request'[q] = [step |-> s, job |-> j] /\ settled' = settled
              \/ /\ s = "earning" /\ Fare[j] = 0
                 /\ request'[q] = Idle /\ settled' = settled \cup {j}
  BY DEF GoOn, MoveTo, Return, TypeOK, OnlyMoves

\* A request that did not move still has behind it what it had.
LEMMA OthersBehind ==
    ASSUME TypeOK, NEW p \in Requests, Behind(p), request'[p] = request[p],
           \A j \in Jobs : Keeps(j)
    PROVE  Behind(p)'
  <1>. DEFINE j == request[p].job
  <1>1. CASE request[p] = Idle
    BY <1>1 DEF Behind, Idle
  <1>2. CASE request[p] # Idle
    <2>1. j \in Jobs
      BY <1>2, RequestType
    <2>2. Keeps(j)
      BY <2>1
    <2>. QED BY <2>2, TheKinds DEF Behind, Keeps, Total
  <1>. QED BY <1>1, <1>2

\* A step keeps the books when it loses nothing, leaves every job sound, moves
\* one request to where it has behind it what it needs, and settles only what
\* is in the books in full.
LEMMA BooksStep ==
    ASSUME IInv, TypeOK', NEW q \in Requests, OnlyMoves(q), Behind(q)',
           \A j \in Jobs : Keeps(j) /\ Sound(j)',
           \A j \in settled' \ settled : InFull(j)'
    PROVE  Books'
  <1>1. \A j \in Jobs : Sound(j)'
    OBVIOUS
  <1>2. ASSUME NEW p \in Requests
        PROVE  Behind(p)'
    <2>1. CASE p = q
      BY <2>1
    <2>2. CASE p # q
      <3>1. request'[p] = request[p] /\ Behind(p)
        BY <2>2 DEF OnlyMoves, IInv, Books
      <3>. QED BY <3>1, OthersBehind DEF IInv
    <2>. QED BY <2>1, <2>2
  <1>3. ASSUME NEW j \in settled'
        PROVE  InFull(j)'
    <2>1. CASE j \notin settled
      BY <2>1
    <2>2. CASE j \in settled
      <3>1. j \in Jobs /\ InFull(j) /\ Sound(j) /\ Sound(j)' /\ Keeps(j)
        BY <2>2 DEF IInv, TypeOK, Books
      <3>2. \A kind \in Kinds : posted'[<<kind, j>>] > 0 <=> posted'[<<kind, j>>] = 1
        BY <3>1 DEF Sound
      <3>3. \A kind \in Kinds : posted[<<kind, j>>] > 0 <=> posted[<<kind, j>>] = 1
        BY <3>1 DEF Sound
      <3>4. \A kind \in Kinds : posted'[<<kind, j>>] = 1 => kind \in Due(j)
        BY <3>1 DEF Sound, Due, Total
      <3>. QED BY <3>1, <3>2, <3>3, <3>4 DEF InFull, Keeps, Due, Total
    <2>. QED BY <2>1, <2>2
  <1>. QED BY <1>1, <1>2, <1>3 DEF Books

\* A step that writes neither the ledger nor an intent.
LEMMA SilentSound ==
    ASSUME IInv, UNCHANGED <<posted, intent>>
    PROVE  \A j \in Jobs : Keeps(j) /\ Sound(j)'
  BY DEF IInv, Books, Keeps, Sound, Due, Total

\* A step that posts for one job leaves the others as sound as they were.
LEMMA PostSound ==
    ASSUME IInv, NEW kind \in Kinds, NEW j \in Jobs,
           posted'[<<kind, j>>] = 1, OnlyPosts(kind, j), kind \in Due(j),
           \A i \in Jobs \ {j} : intent'[i] = intent[i],
           intent[j] # "none" => intent'[j] # "none",
           intent'[j] = "CAPTURED" <=> posted'[<<"capture", j>>] = 1,
           kind = "cod" => posted[<<"capture", j>>] = 1,
           kind \in {"goods", "earning"} => posted[<<"cod", j>>] = 1
    PROVE  \A i \in Jobs : Keeps(i) /\ Sound(i)'
  <1>. SUFFICES ASSUME NEW i \in Jobs
                PROVE  Keeps(i) /\ Sound(i)'
    OBVIOUS
  <1>1. Sound(i)
    BY DEF IInv, Books
  <1>2. CASE i # j
    <2>1. \A k \in Kinds : posted'[<<k, i>>] = posted[<<k, i>>]
      BY <1>2 DEF OnlyPosts
    <2>. QED BY <1>1, <1>2, <2>1, TheKinds DEF Keeps, Sound, Due, Total
  <1>3. CASE i = j
    <2>1. \A k \in Kinds : k # kind => posted'[<<k, j>>] = posted[<<k, j>>]
      BY DEF OnlyPosts
    <2>2. Keeps(j)
      BY <2>1 DEF Keeps
    <2>3. \A k \in Kinds : posted'[<<k, j>>] \in {0, 1}
      BY <1>1, <1>3, <2>1 DEF Sound
    <2>4. \A k \in Kinds : posted'[<<k, j>>] = 1 => k \in Due(j)
      BY <1>1, <1>3, <2>1 DEF Sound
    <2>5. posted'[<<"cod", j>>] = 1 => posted'[<<"capture", j>>] = 1
      BY <1>1, <1>3, <2>1, <2>2, TheKinds DEF Sound, Keeps
    <2>6. posted'[<<"goods", j>>] = 1 \/ posted'[<<"earning", j>>] = 1 => posted'[<<"cod", j>>] = 1
      BY <1>1, <1>3, <2>1, <2>2, TheKinds DEF Sound, Keeps
    <2>7. Sound(j)'
      BY <2>3, <2>4, <2>5, <2>6 DEF Sound, Due, Total
    <2>. QED BY <1>3, <2>2, <2>7
  <1>. QED BY <1>2, <1>3

\* A request that returns or fails has nothing to have behind it.
LEMMA IdleBehind ==
    ASSUME NEW q \in Requests, request'[q] = Idle
    PROVE  Behind(q)'
  BY DEF Behind, Idle

LEMMA BooksSettle ==
    ASSUME IInv, TypeOK', NEW q \in Requests, NEW j \in Jobs, j = request[q].job,
           Settle(q) \/ Fail(q)
    PROVE  Books'
  <1>0. TypeOK /\ Sound(j) /\ Behind(q)
    BY DEF IInv, Books
  <1>1. CASE SettleNothing(q)
    <2>1. /\ Total(j) = 0 /\ request' = [request EXCEPT ![q] = Idle]
          /\ settled' = settled \cup {j} /\ UNCHANGED <<posted, intent>>
      BY <1>1 DEF SettleNothing, Return
    <2>2. request'[q] = Idle /\ OnlyMoves(q)
      BY <1>0, <2>1, RequestEffect
    <2>3. \A kind \in Kinds : kind \notin Due(j)
      BY <2>1, DueKinds DEF Kinds
    <2>4. InFull(j)'
      BY <1>0, <2>1, <2>3 DEF InFull, Sound, Due, Total
    <2>. QED BY <2>1, <2>2, <2>4, SilentSound, IdleBehind, BooksStep
  <1>2. CASE CreateIntent(q)
    <2>1. /\ Total(j) > 0 /\ request' = [request EXCEPT ![q] = [step |-> "capture", job |-> j]]
          /\ intent' = [intent EXCEPT ![j] = IF @ = "none" THEN "REQUIRES_PAYMENT" ELSE @]
          /\ UNCHANGED <<posted, settled>>
      BY <1>2 DEF CreateIntent, MoveTo
    <2>2. request'[q] = [step |-> "capture", job |-> j] /\ OnlyMoves(q)
      BY <1>0, <2>1, RequestEffect
    <2>3. /\ intent'[j] # "none"
          /\ \A i \in Jobs : intent'[i] = "CAPTURED" <=> intent[i] = "CAPTURED"
          /\ \A i \in Jobs : intent[i] # "none" => intent'[i] # "none"
      BY <1>0, <2>1 DEF TypeOK
    <2>4. Behind(q)'
      BY <2>1, <2>2, <2>3 DEF Behind, Total
    <2>5. \A i \in Jobs : Keeps(i) /\ Sound(i)'
      BY <2>1, <2>3 DEF IInv, Books, Keeps, Sound, Due, Total
    <2>. QED BY <2>1, <2>2, <2>4, <2>5, BooksStep
  <1>3. CASE Capture(q)
    <2>1. Total(j) > 0 /\ intent[j] \in {"REQUIRES_PAYMENT", "CAPTURED"}
      BY <1>0, <1>3 DEF Capture, Behind, TypeOK
    <2>2. request'[q] = [step |-> "cod", job |-> j] /\ settled' = settled /\ OnlyMoves(q)
      BY <1>0, <1>3, RequestEffect DEF Capture, MoveTo
    <2>3. CASE intent[j] = "CAPTURED"
      <3>1. UNCHANGED <<posted, intent>>
        BY <1>3, <2>3 DEF Capture
      <3>2. Behind(q)'
        BY <1>0, <2>1, <2>2, <2>3, <3>1 DEF Behind, Sound, Total
      <3>. QED BY <2>2, <3>1, <3>2, SilentSound, BooksStep
    <2>4. CASE intent[j] = "REQUIRES_PAYMENT"
      <3>1. intent' = [intent EXCEPT ![j] = "CAPTURED"] /\ PostWithin("capture", j)
        BY <1>3, <2>4 DEF Capture
      <3>2. posted[<<"capture", j>>] = 0
        BY <1>0, <2>4, TheKinds DEF Sound
      <3>3. posted'[<<"capture", j>>] = 1 /\ OnlyPosts("capture", j)
        BY <1>0, <3>1, <3>2, TheKinds DEF TypeOK, PostWithin, OnlyPosts
      <3>4. "capture" \in Due(j)
        BY <2>1, DueKinds
      <3>5. intent'[j] = "CAPTURED" /\ \A i \in Jobs \ {j} : intent'[i] = intent[i]
        BY <1>0, <3>1 DEF TypeOK
      <3>6. \A i \in Jobs : Keeps(i) /\ Sound(i)'
        BY <3>3, <3>4, <3>5, TheKinds, PostSound
      <3>7. Behind(q)'
        BY <2>1, <2>2, <3>3 DEF Behind, Total
      <3>. QED BY <2>2, <3>6, <3>7, BooksStep
    <2>. QED BY <2>1, <2>3, <2>4
  <1>4. CASE Collect(q)
    <2>1. Total(j) > 0 /\ posted[<<"capture", j>>] = 1
      BY <1>0, <1>4 DEF Collect, Behind
    <2>2. Post("cod", j) /\ GoOn(q, AfterCash(j), j) /\ intent' = intent
      BY <1>4 DEF Collect
    <2>3. posted'[<<"cod", j>>] = 1 /\ OnlyPosts("cod", j)
      BY <1>0, <2>2, PostEffect, TheKinds
    <2>4. posted'[<<"capture", j>>] = posted[<<"capture", j>>]
      BY <2>3, TheKinds DEF OnlyPosts
    <2>5. \A i \in Jobs : Keeps(i) /\ Sound(i)'
      BY <1>0, <2>1, <2>2, <2>3, <2>4, TheKinds, DueKinds, PostSound DEF Sound
    <2>6. /\ AfterCash(j) \in {"goods", "earning"}
          /\ AfterCash(j) = "earning" => Goods[j] = 0 /\ Fare[j] > 0
      BY <2>1, AfterCashType, DueKinds
    <2>7. /\ OnlyMoves(q) /\ settled' = settled
          /\ request'[q] = [step |-> AfterCash(j), job |-> j]
      BY <1>0, <2>2, <2>6, GoOnEffect
    <2>8. Behind(q)'
      BY <2>3, <2>6, <2>7 DEF Behind
    <2>. QED BY <2>5, <2>7, <2>8, BooksStep
  <1>5. CASE PayMerchant(q)
    <2>1. Goods[j] > 0 /\ posted[<<"cod", j>>] = 1
      BY <1>0, <1>5, RequestType DEF PayMerchant, Behind
    <2>2. Post("goods", j) /\ GoOn(q, "earning", j) /\ intent' = intent
      BY <1>5 DEF PayMerchant
    <2>3. posted'[<<"goods", j>>] = 1 /\ OnlyPosts("goods", j)
      BY <1>0, <2>2, PostEffect, TheKinds
    <2>4. /\ posted'[<<"capture", j>>] = posted[<<"capture", j>>]
          /\ posted'[<<"cod", j>>] = 1
          /\ posted'[<<"earning", j>>] = posted[<<"earning", j>>]
      BY <2>1, <2>3, TheKinds DEF OnlyPosts
    <2>5. \A i \in Jobs : Keeps(i) /\ Sound(i)'
      BY <1>0, <2>1, <2>2, <2>3, <2>4, TheKinds, DueKinds, PostSound DEF Sound
    <2>6. OnlyMoves(q)
      BY <1>0, <2>2, GoOnEffect
    <2>7. CASE request'[q] = [step |-> "earning", job |-> j] /\ settled' = settled
      <3>1. Behind(q)'
        BY <2>3, <2>4, <2>7 DEF Behind
      <3>. QED BY <2>5, <2>6, <2>7, <3>1, BooksStep
    <2>8. CASE Fare[j] = 0 /\ request'[q] = Idle /\ settled' = settled \cup {j}
      <3>1. InFull(j)'
        <4>1. "earning" \notin Due(j) /\ posted'[<<"earning", j>>] = 0
          BY <1>0, <2>4, <2>8, DueKinds, TheKinds DEF Sound
        <4>2. posted'[<<"capture", j>>] = 1
          BY <1>0, <2>1, <2>4 DEF Sound
        <4>. QED BY <2>1, <2>3, <2>4, <4>1, <4>2, TheKinds, DueKinds DEF InFull, Due, Total
      <3>. QED BY <2>5, <2>6, <2>8, <3>1, IdleBehind, BooksStep
    <2>. QED BY <1>0, <2>2, <2>7, <2>8, GoOnEffect
  <1>6. CASE PayDriver(q)
    <2>1. /\ Fare[j] > 0 /\ posted[<<"cod", j>>] = 1
          /\ Goods[j] > 0 => posted[<<"goods", j>>] = 1
      BY <1>0, <1>6, RequestType DEF PayDriver, Behind
    <2>2. /\ Post("earning", j) /\ intent' = intent
          /\ request' = [request EXCEPT ![q] = Idle] /\ settled' = settled \cup {j}
      BY <1>6 DEF PayDriver, Return
    <2>3. posted'[<<"earning", j>>] = 1 /\ OnlyPosts("earning", j)
      BY <1>0, <2>2, PostEffect, TheKinds
    <2>4. /\ posted'[<<"capture", j>>] = posted[<<"capture", j>>]
          /\ posted'[<<"cod", j>>] = 1
          /\ posted'[<<"goods", j>>] = posted[<<"goods", j>>]
      BY <2>1, <2>3, TheKinds DEF OnlyPosts
    <2>5. \A i \in Jobs : Keeps(i) /\ Sound(i)'
      BY <1>0, <2>1, <2>2, <2>3, <2>4, TheKinds, DueKinds, PostSound DEF Sound
    <2>6. request'[q] = Idle /\ OnlyMoves(q)
      BY <1>0, <2>2, RequestEffect
    <2>7. InFull(j)'
      <3>1. posted'[<<"capture", j>>] = 1
        BY <1>0, <2>1, <2>4 DEF Sound
      <3>2. Goods[j] > 0 <=> posted'[<<"goods", j>>] > 0
        BY <1>0, <2>1, <2>4, TheKinds, DueKinds DEF Sound
      <3>. QED BY <2>1, <2>3, <2>4, <3>1, <3>2, TheKinds, DueKinds DEF InFull, Due, Total
    <2>. QED BY <2>2, <2>5, <2>6, <2>7, IdleBehind, BooksStep
  <1>7. CASE RefuseDriver(q) \/ Fail(q)
    <2>1. request' = [request EXCEPT ![q] = Idle] /\ UNCHANGED <<posted, intent, settled>>
      BY <1>7 DEF RefuseDriver, Fail
    <2>2. request'[q] = Idle /\ OnlyMoves(q)
      BY <1>0, <2>1, RequestEffect
    <2>. QED BY <2>1, <2>2, SilentSound, IdleBehind, BooksStep
  <1>. QED BY <1>1, <1>2, <1>3, <1>4, <1>5, <1>6, <1>7 DEF Settle

LEMMA BooksInit == Init => Books
  BY DEF Init, Books, Sound, Behind, InFull, Kinds, Idle

LEMMA BooksNext == IInv /\ [Next]_vars => IInv'
  <1>. SUFFICES ASSUME IInv, [Next]_vars
                PROVE  Books'
    BY TypeNext DEF IInv
  <1>0. TypeOK /\ TypeOK'
    BY TypeNext DEF IInv
  <1>1. CASE \E q \in Requests, j \in Jobs : Complete(q, j) \/ Repeat(q, j)
    <2>1. PICK q \in Requests, j \in Jobs : Complete(q, j) \/ Repeat(q, j)
      BY <1>1
    <2>2. /\ request' = [request EXCEPT ![q] = [step |-> "intent", job |-> j]]
          /\ UNCHANGED <<posted, intent, settled>>
      BY <2>1 DEF Complete, Repeat, MoveTo
    <2>3. request'[q] = [step |-> "intent", job |-> j] /\ OnlyMoves(q)
      BY <1>0, <2>2, RequestEffect
    <2>4. Behind(q)'
      BY <2>3 DEF Behind
    <2>. QED BY <1>0, <2>2, <2>3, <2>4, SilentSound, BooksStep
  <1>2. CASE \E q \in Requests : Settle(q) \/ Fail(q)
    <2>1. PICK q \in Requests : Settle(q) \/ Fail(q)
      BY <1>2
    <2>2. request[q] # Idle
      BY <2>1 DEF Settle, SettleNothing, CreateIntent, Capture, Collect, PayMerchant, PayDriver,
                  RefuseDriver, Fail, Idle
    <2>3. request[q].job \in Jobs
      BY <1>0, <2>2, RequestType
    <2>. QED BY <1>0, <2>1, <2>3, BooksSettle
  <1>3. CASE UNCHANGED jobVars
    BY <1>3 DEF jobVars, IInv, Books, Sound, Behind, InFull, Due, Total
  <1>. QED BY <1>1, <1>2, <1>3 DEF Next, RecordSettlement, vars

\* The inductive invariant: however many calls settle however many jobs at
\* once, and wherever they fail.
THEOREM BooksInvariant == Spec => []IInv
  BY TypeInit, BooksInit, BooksNext, PTL DEF Spec, IInv

\* No movement of a job is in the ledger twice, and an intent is captured with
\* its payment and never without: finance.Store.Post and Capture.
THEOREM MovementsAreUnique == Spec => []PostedOnce
  <1>1. IInv => PostedOnce
    BY DEF IInv, Books, Sound, PostedOnce
  <1>. QED BY <1>1, BooksInvariant, PTL

\* A rate of at most the whole gives at most the whole, rounded as it is.
LEMMA RoundedPart ==
    ASSUME NEW n \in Nat, NEW w \in Nat \ {0}, NEW b \in 0 .. w
    PROVE  (2 * n * b + w) \div (2 * w) \in 0 .. n
  <1>1. PICK m, k : m = n * b /\ k = n * w
    OBVIOUS
  <1>2. m \in Nat /\ k \in Nat /\ m <= k
    BY <1>1
  <1>3. 2 * n * b = 2 * m
    BY <1>1
  <1>4. PICK x : x = (2 * m + w) \div (2 * w)
    OBVIOUS
  <1>5. x \in Int /\ (2 * w) * x <= 2 * m + w /\ 2 * m + w < (2 * w) * (x + 1)
    BY <1>2, <1>4
  <1>6. x <= n
    <2>. SUFFICES ASSUME x >= n + 1 PROVE FALSE
      BY <1>5
    <2>1. w * (n + 1) <= w * x
      BY <1>5
    <2>2. w * (n + 1) = k + w /\ (2 * w) * x = 2 * (w * x)
      BY <1>1, <1>5
    <2>. QED BY <1>2, <1>5, <2>1, <2>2
  <1>7. x >= 0
    <2>. SUFFICES ASSUME x + 1 <= 0 PROVE FALSE
      BY <1>5
    <2>1. (2 * w) * (x + 1) <= 0
      BY <1>5
    <2>. QED BY <1>2, <1>5, <2>1
  <1>. QED BY <1>3, <1>4, <1>5, <1>6, <1>7

\* finance.Commission never exceeds the fare, nor falls below nothing.
LEMMA CommissionWithinFare ==
    ASSUME NEW j \in Jobs, Rate[j] # NoRate
    PROVE  Commission(j) \in 0 .. Fare[j]
  <1>1. PICK f, b, flat : f = Fare[j] /\ b = Rate[j].bps /\ flat = Rate[j].flat
    OBVIOUS
  <1>2. f \in Nat
    BY <1>1, FareAssumption
  <1>3. b \in 0 .. WholeBPS /\ flat \in Nat
    BY <1>1, RateAssumption
  <1>4. PICK percentage : percentage = (2 * f * b + WholeBPS) \div (2 * WholeBPS)
    OBVIOUS
  <1>5. percentage \in 0 .. f
    <2>1. WholeBPS \in Nat \ {0}
      BY DEF WholeBPS
    <2>. QED BY <1>2, <1>3, <1>4, <2>1, RoundedPart
  <1>6. Commission(j) = IF flat = 0 THEN percentage
                        ELSE IF percentage + flat > f THEN f ELSE percentage + flat
    BY <1>1, <1>4 DEF Commission
  <1>. QED BY ONLY <1>1, <1>2, <1>3, <1>5, <1>6

\* Only a fare that leaves the driver something is ever paid out.
PaidWhatIsPayable == \A j \in Jobs : posted[<<"earning", j>>] > 0 => Payable(j)

LEMMA PaidInit == Init => PaidWhatIsPayable
  BY TheKinds DEF Init, PaidWhatIsPayable

\* A movement of another kind leaves the earnings alone.
LEMMA EarningsAlone ==
    ASSUME TypeOK, NEW kind \in Kinds, kind # "earning", NEW j \in Jobs,
           Post(kind, j) \/ PostWithin(kind, j)
    PROVE  \A i \in Jobs : posted'[<<"earning", i>>] = posted[<<"earning", i>>]
  BY TheKinds DEF TypeOK, Post, PostWithin

LEMMA PaidNext ==
    ASSUME TypeOK, PaidWhatIsPayable, [Next]_vars
    PROVE  PaidWhatIsPayable'
  <1>. DEFINE Same == \A i \in Jobs : posted'[<<"earning", i>>] = posted[<<"earning", i>>]
  <1>1. ASSUME Same PROVE PaidWhatIsPayable'
    BY <1>1 DEF PaidWhatIsPayable, Payable, Commission
  <1>2. CASE UNCHANGED posted
    BY <1>1, <1>2
  <1>3. ASSUME NEW q \in Requests, Settle(q) \/ Fail(q)
        PROVE  PaidWhatIsPayable'
    <2>. DEFINE j == request[q].job
    <2>1. CASE SettleNothing(q) \/ CreateIntent(q) \/ RefuseDriver(q) \/ Fail(q)
      BY <1>2, <2>1 DEF SettleNothing, CreateIntent, RefuseDriver, Fail
    <2>2. CASE Capture(q)
      <3>1. j \in Jobs
        BY <2>2, RequestType DEF Capture
      <3>2. PostWithin("capture", j) \/ UNCHANGED posted
        BY <2>2 DEF Capture
      <3>. QED BY <1>1, <1>2, <3>1, <3>2, EarningsAlone, TheKinds
    <2>3. CASE Collect(q)
      <3>1. j \in Jobs /\ Post("cod", j)
        BY <2>3, RequestType DEF Collect
      <3>. QED BY <1>1, <3>1, EarningsAlone, TheKinds
    <2>4. CASE PayMerchant(q)
      <3>1. j \in Jobs /\ Post("goods", j)
        BY <2>4, RequestType DEF PayMerchant
      <3>. QED BY <1>1, <3>1, EarningsAlone, TheKinds
    <2>5. CASE PayDriver(q)
      <3>1. j \in Jobs /\ Payable(j) /\ Post("earning", j)
        BY <2>5, RequestType DEF PayDriver
      <3>2. \A i \in Jobs : i # j => posted'[<<"earning", i>>] = posted[<<"earning", i>>]
        BY <3>1, TheKinds DEF TypeOK, Post
      <3>. QED BY <3>1, <3>2 DEF PaidWhatIsPayable, Payable, Commission
    <2>. QED BY <1>3, <2>1, <2>2, <2>3, <2>4, <2>5 DEF Settle
  <1>4. CASE \E q \in Requests, j \in Jobs : Complete(q, j) \/ Repeat(q, j)
    BY <1>2, <1>4 DEF Complete, Repeat
  <1>5. CASE \E d \in Drivers, amount \in Amounts, key \in Keys \cup {NoKey} :
                 RecordSettlement(d, amount, key)
    BY <1>2, <1>5 DEF RecordSettlement, jobVars
  <1>6. CASE UNCHANGED vars
    BY <1>2, <1>6 DEF vars, jobVars
  <1>. QED BY <1>3, <1>4, <1>5, <1>6 DEF Next

\* What a job leaves the platform, from what the books say of it.
LEMMA LeftOver ==
    ASSUME TypeOK, NEW j \in Jobs, Sound(j), posted[<<"earning", j>>] > 0 => Payable(j)
    PROVE  /\ Left(j) >= 0
           /\ InFull(j) => Left(j) = IF Fare[j] = 0 THEN 0 ELSE Commission(j)
  <1>1. PICK c, g, e : c = posted[<<"cod", j>>] /\ g = posted[<<"goods", j>>] /\ e = posted[<<"earning", j>>]
    OBVIOUS
  <1>2. PICK fare, goods, com : fare = Fare[j] /\ goods = Goods[j] /\ com = Commission(j)
    OBVIOUS
  <1>3. Left(j) = c * (fare + goods) - g * goods - IF e = 0 THEN 0 ELSE e * (fare - com)
    BY <1>1, <1>2 DEF Left, Total
  <1>4. /\ c \in {0, 1} /\ g \in {0, 1} /\ e \in {0, 1}
        /\ g = 1 \/ e = 1 => c = 1
        /\ fare \in Nat /\ goods \in Nat
    BY <1>1, <1>2, TheKinds, FareAssumption, GoodsAssumption DEF Sound
  <1>5. e = 1 => com \in 0 .. fare
    <2>. SUFFICES ASSUME e = 1 PROVE com \in 0 .. fare
      OBVIOUS
    <2>1. Rate[j] # NoRate
      BY <1>1 DEF Payable
    <2>. QED BY <1>2, <2>1, CommissionWithinFare
  <1>6. Left(j) >= 0
    <2>1. CASE e = 0
      BY <1>3, <1>4, <2>1
    <2>2. CASE e = 1
      BY <1>3, <1>4, <1>5, <2>2
    <2>. QED BY <1>4, <2>1, <2>2
  <1>7. ASSUME InFull(j)
        PROVE  Left(j) = IF Fare[j] = 0 THEN 0 ELSE Commission(j)
    <2>1. /\ g = 1 <=> goods > 0
          /\ e = 1 <=> fare > 0
          /\ c = 1 <=> fare > 0 \/ goods > 0
      BY <1>1, <1>2, <1>4, <1>7, DueKinds, TheKinds DEF InFull
    <2>2. CASE fare = 0
      BY <1>2, <1>3, <1>4, <2>1, <2>2
    <2>3. CASE fare > 0
      BY <1>2, <1>3, <1>4, <1>5, <2>1, <2>3
    <2>. QED BY <1>4, <2>2, <2>3
  <1>. QED BY <1>6, <1>7

\* The shop and the driver are owed only for jobs whose cash was taken (the order
\* of settlement.Service.SettleCash); wherever a settlement failed, what they are
\* owed is no more than that cash, and what a settled job leaves the platform is
\* the commission on its fare, to the minor unit.
THEOREM NothingBeforeTheCash == Spec => []CashComesFirst
  <1>1. ASSUME IInv, NEW j \in Jobs
        PROVE  /\ posted[<<"cod", j>>] > 0 => posted[<<"capture", j>>] > 0
               /\ posted[<<"goods", j>>] + posted[<<"earning", j>>] > 0
                    => posted[<<"cod", j>>] > 0
    <2>1. Sound(j)
      BY <1>1 DEF IInv, Books
    <2>2. \A kind \in Kinds : posted[<<kind, j>>] \in {0, 1}
      BY <2>1 DEF Sound
    <2>3. /\ posted[<<"cod", j>>] \in {0, 1}   /\ posted[<<"capture", j>>] \in {0, 1}
          /\ posted[<<"goods", j>>] \in {0, 1} /\ posted[<<"earning", j>>] \in {0, 1}
      BY <2>2, TheKinds
    <2>. QED BY <2>1, <2>3 DEF Sound
  <1>2. ASSUME IInv, PaidWhatIsPayable, NEW j \in Jobs
        PROVE  /\ Left(j) >= 0
               /\ j \in settled => Left(j) = IF Fare[j] = 0 THEN 0 ELSE Commission(j)
    <2>1. Sound(j) /\ (j \in settled => InFull(j)) /\ TypeOK
      BY <1>2 DEF IInv, Books
    <2>. QED BY <1>2, <2>1, LeftOver DEF PaidWhatIsPayable
  <1>3. IInv /\ PaidWhatIsPayable => CashComesFirst
    BY <1>1, <1>2 DEF CashComesFirst
  <1>4. IInv /\ PaidWhatIsPayable /\ [Next]_vars => PaidWhatIsPayable'
    BY PaidNext DEF IInv
  <1>5. Spec => []PaidWhatIsPayable
    BY <1>4, PaidInit, BooksInvariant, PTL DEF Spec
  <1>. QED BY <1>3, <1>5, BooksInvariant, PTL

\* The recovery of a failed settlement is a repeat of the call: the first that
\* reports success leaves all that is due and nothing else.
THEOREM RepeatRepairs == Spec => []SettledInFull
  <1>1. IInv => SettledInFull
    BY DEF IInv, Books, InFull, SettledInFull
  <1>. QED BY <1>1, BooksInvariant, PTL

-----------------------------------------------------------------------------
(* What a driver owes, and what they are told to hand back *)

\* The cash of each job, and what was handed back in notes of each amount.
Taken == [j \in Jobs |-> posted[<<"cod", j>>] * Total(j)]
Collected(d) == TotalOf(Taken, {j \in Jobs : DriverOf[j] = d})
Returned(d) == [a \in Amounts |-> remittances[<<d, a>>] * a]

LEMMA CollectedIsTotal ==
    ASSUME NEW S \in SUBSET Jobs, IsFiniteSet(S)
    PROVE  MapThenSumSet(LAMBDA j : posted[<<"cod", j>>] * Total(j), S) = TotalOf(Taken, S)
  <1>. DEFINE eq(g) == g = [s \in SUBSET S |-> IF s = {} THEN 0
                            ELSE LET x == CHOOSE x \in s : TRUE
                                 IN  (posted[<<"cod", x>>] * Total(x)) + g[s \ {x}]]
              iter == CHOOSE g : eq(g)
              f == Taken
  <1>1. \A s \in SUBSET S : s # {} =>
            Choice(s) \in s /\ f[Choice(s)] = posted[<<"cod", Choice(s)>>] * Total(Choice(s))
    BY DEF Choice, Taken
  <1>2. ASSUME NEW g
        PROVE  eq(g) <=> SumsUp(f, S, g)
    <2>. DEFINE L == [s \in SUBSET S |-> IF s = {} THEN 0
                      ELSE (posted[<<"cod", Choice(s)>>] * Total(Choice(s))) + g[s \ {Choice(s)}]]
                R == [s \in SUBSET S |-> IF s = {} THEN 0 ELSE f[Choice(s)] + g[s \ {Choice(s)}]]
    <2>1. L = R
      <3>. HIDE DEF f
      <3>. QED BY <1>1
    <2>2. eq(g) <=> g = L
      BY DEF Choice
    <2>3. SumsUp(f, S, g) <=> g = R
      BY DEF SumsUp
    <2>. HIDE DEF L, R, eq
    <2>. QED BY <2>1, <2>2, <2>3
  <1>. HIDE DEF f
  <1>3. \E g : eq(g)
    <2>. HIDE DEF eq
    <2>1. SumsUp(f, S, CHOOSE g : SumsUp(f, S, g))
      BY TotalIsSum
    <2>. QED BY <1>2, <2>1
  <1>4. eq(iter)
    <2>. HIDE DEF eq
    <2>. QED BY <1>3
  <1>5. iter[S] = TotalOf(f, S)
    <2>. HIDE DEF eq, iter
    <2>. QED BY <1>2, <1>4, TotalIsSum
  <1>6. MapThenSumSet(LAMBDA j : posted[<<"cod", j>>] * Total(j), S) = iter[S]
    BY DEF MapThenSumSet, MapThenFoldSet
  <1>. QED BY <1>5, <1>6 DEF f

LEMMA ReturnedIsTotal ==
    ASSUME NEW d \in Drivers
    PROVE  MapThenSumSet(LAMBDA a : remittances[<<d, a>>] * a, Amounts) = TotalOf(Returned(d), Amounts)
  <1>. DEFINE eq(g) == g = [s \in SUBSET Amounts |-> IF s = {} THEN 0
                            ELSE LET x == CHOOSE x \in s : TRUE
                                 IN  (remittances[<<d, x>>] * x) + g[s \ {x}]]
              iter == CHOOSE g : eq(g)
              f == Returned(d)
  <1>0. IsFiniteSet(Amounts)
    BY FiniteAssumption
  <1>1. \A s \in SUBSET Amounts : s # {} =>
            Choice(s) \in s /\ f[Choice(s)] = remittances[<<d, Choice(s)>>] * Choice(s)
    BY DEF Choice, Returned
  <1>2. ASSUME NEW g
        PROVE  eq(g) <=> SumsUp(f, Amounts, g)
    <2>. DEFINE L == [s \in SUBSET Amounts |-> IF s = {} THEN 0
                      ELSE (remittances[<<d, Choice(s)>>] * Choice(s)) + g[s \ {Choice(s)}]]
                R == [s \in SUBSET Amounts |-> IF s = {} THEN 0 ELSE f[Choice(s)] + g[s \ {Choice(s)}]]
    <2>1. L = R
      <3>. HIDE DEF f
      <3>. QED BY <1>1
    <2>2. eq(g) <=> g = L
      BY DEF Choice
    <2>3. SumsUp(f, Amounts, g) <=> g = R
      BY DEF SumsUp
    <2>. HIDE DEF L, R, eq
    <2>. QED BY <2>1, <2>2, <2>3
  <1>. HIDE DEF f
  <1>3. \E g : eq(g)
    <2>. HIDE DEF eq
    <2>1. SumsUp(f, Amounts, CHOOSE g : SumsUp(f, Amounts, g))
      BY <1>0, TotalIsSum
    <2>. QED BY <1>2, <2>1
  <1>4. eq(iter)
    <2>. HIDE DEF eq
    <2>. QED BY <1>3
  <1>5. iter[Amounts] = TotalOf(f, Amounts)
    <2>. HIDE DEF eq, iter
    <2>. QED BY <1>0, <1>2, <1>4, TotalIsSum
  <1>6. MapThenSumSet(LAMBDA a : remittances[<<d, a>>] * a, Amounts) = iter[Amounts]
    BY DEF MapThenSumSet, MapThenFoldSet
  <1>. QED BY <1>5, <1>6 DEF f

\* What a driver holds is a number of paisa, and never less than nothing.
LEMMA OwedIsTotal ==
    ASSUME TypeOK, NEW d \in Drivers
    PROVE  /\ Collected(d) \in Nat /\ TotalOf(Returned(d), Amounts) \in Nat
           /\ Owed(d) = IF Collected(d) < TotalOf(Returned(d), Amounts) THEN 0
                        ELSE Collected(d) - TotalOf(Returned(d), Amounts)
  <1>. DEFINE S == {j \in Jobs : DriverOf[j] = d}
  <1>1. S \in SUBSET Jobs /\ IsFiniteSet(S) /\ IsFiniteSet(Jobs) /\ IsFiniteSet(Amounts)
    BY FiniteAssumption, FS_Subset
  <1>2. \A j \in Jobs : Taken[j] \in Nat
    <2>1. ASSUME NEW j \in Jobs
          PROVE  posted[<<"cod", j>>] * Total(j) \in Nat
      <3>1. posted[<<"cod", j>>] \in Nat /\ Total(j) \in Nat
        BY FareAssumption, GoodsAssumption DEF TypeOK, Kinds, Total
      <3>. QED BY <3>1
    <2>. QED BY <2>1 DEF Taken
  <1>3. \A a \in Amounts : Returned(d)[a] \in Nat
    <2>1. ASSUME NEW a \in Amounts
          PROVE  remittances[<<d, a>>] * a \in Nat
      <3>1. remittances[<<d, a>>] \in Nat /\ a \in Nat
        BY AmountsAssumption DEF TypeOK
      <3>. QED BY <3>1
    <2>. QED BY <2>1 DEF Returned
  <1>4. TotalOf(Taken, S) \in Nat
    BY <1>1, <1>2, TotalType
  <1>5. TotalOf(Returned(d), Amounts) \in Nat
    <2>1. Amounts \in SUBSET Amounts
      OBVIOUS
    <2>. QED BY <1>1, <1>3, <2>1, TotalType
  <1>6. MapThenSumSet(LAMBDA j : posted[<<"cod", j>>] * Total(j), S) = TotalOf(Taken, S)
    BY <1>1, CollectedIsTotal
  <1>7. MapThenSumSet(LAMBDA a : remittances[<<d, a>>] * a, Amounts) = TotalOf(Returned(d), Amounts)
    BY ReturnedIsTotal
  <1>8. Owed(d) = LET collected == MapThenSumSet(LAMBDA j : posted[<<"cod", j>>] * Total(j), S)
                      returned == MapThenSumSet(LAMBDA a : remittances[<<d, a>>] * a, Amounts)
                  IN  IF collected < returned THEN 0 ELSE collected - returned
    BY Zenon DEF Owed
  <1>. QED BY <1>4, <1>5, <1>6, <1>7, <1>8 DEF Collected

\* A part of something is no more than all of it.
LEMMA PartOfWhole ==
    ASSUME NEW n \in Nat, NEW w \in Nat, NEW c \in Nat \ {0}, w <= c
    PROVE  (n * w) \div c \in 0 .. n
  <1>. DEFINE q == (n * w) \div c
  <1>1. n * w \in Nat /\ n * c \in Nat /\ n * w <= n * c
    OBVIOUS
  <1>2. q \in Int /\ c * q <= n * w /\ n * w < c * (q + 1)
    BY <1>1
  <1>. HIDE DEF q
  <1>3. q <= n
    BY <1>1, <1>2
  <1>4. 0 <= q
    BY <1>1, <1>2
  <1>. QED BY <1>2, <1>3, <1>4 DEF q

\* The warning comes no later than the cap, with a cap of one's own too.
LEMMA WarningComesFirst ==
    ASSUME NEW d \in Drivers, Limit[d] # NoLimit
    PROVE  /\ LimitFor(d).cap \in Nat \ {0} /\ LimitFor(d).warn \in Nat
           /\ LimitFor(d).warn <= LimitFor(d).cap
  <1>1. /\ Limit[d].cap \in Nat \ {0} /\ Limit[d].warn \in Nat /\ Limit[d].warn <= Limit[d].cap
        /\ Override[d] \in Nat
    BY LimitAssumption, OverrideAssumption
  <1>. DEFINE warn == (Override[d] * Limit[d].warn) \div Limit[d].cap
  <1>2. warn \in 0 .. Override[d]
    BY <1>1, PartOfWhole
  <1>3. LimitFor(d) = IF Override[d] = 0 THEN Limit[d]
                      ELSE [cap |-> Override[d], warn |-> IF warn = 0 THEN Override[d] ELSE warn]
    BY DEF LimitFor
  <1>. HIDE DEF warn
  <1>. QED BY <1>1, <1>2, <1>3

\* Clearing brings a driver who is stopped down to the warning.
LEMMA ClearingIsDownToTheWarning ==
    ASSUME TypeOK, NEW d \in Drivers, Blocked(d)
    PROVE  /\ Owed(d) - Clearing(d) = LimitFor(d).warn
           /\ LimitFor(d).warn <= LimitFor(d).cap
           /\ LimitFor(d).warn \in Nat /\ LimitFor(d).cap \in Nat
  <1>1. Owed(d) \in Nat
    <2>. DEFINE c == Collected(d)
                r == TotalOf(Returned(d), Amounts)
    <2>1. c \in Nat /\ r \in Nat /\ Owed(d) = IF c < r THEN 0 ELSE c - r
      BY OwedIsTotal
    <2>. HIDE DEF c, r
    <2>. QED BY <2>1
  <1>2. /\ LimitFor(d).cap \in Nat /\ LimitFor(d).warn \in Nat
        /\ LimitFor(d).warn <= LimitFor(d).cap /\ Owed(d) >= LimitFor(d).cap
    BY WarningComesFirst DEF Blocked
  <1>. QED BY <1>1, <1>2 DEF Clearing

\* finance.Standing says Clearing is "what they must hand back to work again".  It
\* is, for every driver whose warning lies below the cap, and for no other: the
\* schema lets the two be equal (migration 000017, warn_minor <= cap_minor),
\* LimitFor makes them equal for an override so small that its share of the
\* warning is nothing, and StandingOf compares with >=.
THEOREM ClearingIsEnoughOnlyThen ==
    Spec => [](\A d \in Drivers :
                  Blocked(d) => /\ Owed(d) - Clearing(d) = LimitFor(d).warn
                                /\ Owed(d) - Clearing(d) < LimitFor(d).cap
                                       <=> LimitFor(d).warn < LimitFor(d).cap)
  <1>1. TypeOK => \A d \in Drivers :
            Blocked(d) => /\ Owed(d) - Clearing(d) = LimitFor(d).warn
                          /\ Owed(d) - Clearing(d) < LimitFor(d).cap
                                 <=> LimitFor(d).warn < LimitFor(d).cap
    BY ClearingIsDownToTheWarning
  <1>. QED BY <1>1, TypeCorrect, PTL

-----------------------------------------------------------------------------
(* The cash a driver is stopped for *)

\* Cash is posted for completed jobs only; StoppedForTheirCash is not inductive
\* without it, nor without the requests settling nothing else.
OnlyCompleted ==
    /\ \A q \in Requests : request[q] # Idle => request[q].job \in completed
    /\ \A j \in Jobs : posted[<<"cod", j>>] > 0 => j \in completed

LEMMA CompletedInit == Init => OnlyCompleted
  BY TheKinds DEF Init, OnlyCompleted

LEMMA CompletedNext ==
    ASSUME TypeOK, OnlyCompleted, [Next]_vars
    PROVE  OnlyCompleted'
  <1>1. ASSUME NEW q \in Requests, Settle(q) \/ Fail(q)
        PROVE  OnlyCompleted'
    <2>. DEFINE j == request[q].job
    <2>1. request[q] # Idle /\ j \in Jobs /\ j \in completed /\ completed' = completed
      <3>1. request[q] # Idle
        BY <1>1 DEF Settle, SettleNothing, CreateIntent, Capture, Collect, PayMerchant, PayDriver,
                    RefuseDriver, Fail, Idle
      <3>2. completed' = completed
        BY <1>1 DEF Settle, SettleNothing, CreateIntent, Capture, Collect, PayMerchant, PayDriver,
                    RefuseDriver, Fail
      <3>. QED BY <3>1, <3>2, RequestType DEF OnlyCompleted
    <2>2. PICK r : request' = [request EXCEPT ![q] = r] /\ (r # Idle => r.job = j)
      BY <1>1 DEF Settle, SettleNothing, CreateIntent, Capture, Collect, PayMerchant, PayDriver,
                  RefuseDriver, Fail, MoveTo, Return, GoOn
    <2>3. \A p \in Requests : request'[p] # Idle => request'[p].job \in completed
      BY <2>1, <2>2 DEF OnlyCompleted, TypeOK
    <2>4. \A i \in Jobs : i # j => posted'[<<"cod", i>>] = posted[<<"cod", i>>]
      <3>1. CASE UNCHANGED posted
        BY <3>1
      <3>2. CASE \E kind \in Kinds : Post(kind, j) \/ PostWithin(kind, j)
        BY <3>2, TheKinds DEF TypeOK, Post, PostWithin
      <3>. QED BY <1>1, <3>1, <3>2, TheKinds
               DEF Settle, SettleNothing, CreateIntent, Capture, Collect, PayMerchant, PayDriver,
                   RefuseDriver, Fail
    <2>. QED BY <2>1, <2>3, <2>4 DEF OnlyCompleted
  <1>2. ASSUME NEW q \in Requests, NEW j \in Jobs, Complete(q, j) \/ Repeat(q, j)
        PROVE  OnlyCompleted'
    <2>1. /\ request' = [request EXCEPT ![q] = [step |-> "intent", job |-> j]]
          /\ j \in completed' /\ completed \subseteq completed' /\ posted' = posted
      BY <1>2 DEF Complete, Repeat, MoveTo
    <2>. QED BY <2>1 DEF OnlyCompleted, TypeOK
  <1>3. CASE UNCHANGED jobVars
    BY <1>3 DEF jobVars, OnlyCompleted
  <1>. QED BY <1>1, <1>2, <1>3 DEF Next, RecordSettlement, vars

\* The cash of a set of jobs, as a sum over all of their driver's.
Counted(jobs) == [j \in Jobs |-> IF j \in jobs THEN Total(j) ELSE 0]

LEMMA CashIsTotal ==
    ASSUME NEW d \in Drivers, NEW jobs \in SUBSET Jobs
    PROVE  Cash(d, jobs) = TotalOf(Counted(jobs), {j \in Jobs : DriverOf[j] = d})
  <1>. DEFINE S == {j \in jobs : DriverOf[j] = d}
              U == {j \in Jobs : DriverOf[j] = d}
              eq(g) == g = [s \in SUBSET S |-> IF s = {} THEN 0
                            ELSE LET x == CHOOSE x \in s : TRUE
                                 IN  Total(x) + g[s \ {x}]]
              iter == CHOOSE g : eq(g)
              f == Counted(jobs)
  <1>0. IsFiniteSet(S) /\ IsFiniteSet(U) /\ S \in SUBSET U
    BY FiniteAssumption, FS_Subset
  <1>1. \A s \in SUBSET S : s # {} => Choice(s) \in s /\ f[Choice(s)] = Total(Choice(s))
    BY DEF Choice, Counted
  <1>2. ASSUME NEW g
        PROVE  eq(g) <=> SumsUp(f, S, g)
    <2>. DEFINE L == [s \in SUBSET S |-> IF s = {} THEN 0
                      ELSE Total(Choice(s)) + g[s \ {Choice(s)}]]
                R == [s \in SUBSET S |-> IF s = {} THEN 0 ELSE f[Choice(s)] + g[s \ {Choice(s)}]]
    <2>1. L = R
      <3>. HIDE DEF f
      <3>. QED BY <1>1
    <2>2. eq(g) <=> g = L
      BY DEF Choice
    <2>3. SumsUp(f, S, g) <=> g = R
      BY DEF SumsUp
    <2>. HIDE DEF L, R, eq
    <2>. QED BY <2>1, <2>2, <2>3
  <1>3. \A j \in U : f[j] \in Nat /\ (j \notin S => f[j] = 0)
    BY FareAssumption, GoodsAssumption DEF Counted, Total
  <1>. HIDE DEF f
  <1>4. \E g : eq(g)
    <2>. HIDE DEF eq, S
    <2>1. SumsUp(f, S, CHOOSE g : SumsUp(f, S, g))
      BY <1>0, TotalIsSum
    <2>. QED BY <1>2, <2>1
  <1>5. eq(iter)
    <2>. HIDE DEF eq
    <2>. QED BY <1>4
  <1>6. iter[S] = TotalOf(f, S)
    <2>. HIDE DEF eq, iter, S
    <2>. QED BY <1>0, <1>2, <1>5, TotalIsSum
  <1>7. Cash(d, jobs) = iter[S]
    BY DEF Cash, MapThenSumSet, MapThenFoldSet
  <1>8. TotalOf(f, U) = TotalOf(f, S)
    <2>. HIDE DEF S, U
    <2>. QED BY <1>0, <1>3, ZerosAddNothing
  <1>. QED BY <1>6, <1>7, <1>8 DEF f

LEMMA HandedBackIsTotal ==
    ASSUME NEW d \in Drivers
    PROVE  HandedBack(d) = TotalOf(Returned(d), Amounts)
  <1>1. HandedBack(d) = MapThenSumSet(LAMBDA a : remittances[<<d, a>>] * a, Amounts)
    BY Zenon DEF HandedBack
  <1>2. MapThenSumSet(LAMBDA a : remittances[<<d, a>>] * a, Amounts) = TotalOf(Returned(d), Amounts)
    BY ReturnedIsTotal
  <1>. QED BY <1>1, <1>2

\* What was collected is the cash of completed jobs, and of every settled one.
LEMMA CollectedIsTheirCash ==
    ASSUME IInv, OnlyCompleted, NEW d \in Drivers
    PROVE  /\ Cash(d, settled) \in Nat /\ Cash(d, settled) <= Collected(d)
           /\ Cash(d, completed) \in Nat /\ Collected(d) <= Cash(d, completed)
  <1>. DEFINE U == {j \in Jobs : DriverOf[j] = d}
  <1>1. IsFiniteSet(U) /\ IsFiniteSet(Jobs) /\ U \in SUBSET Jobs
    BY FiniteAssumption, FS_Subset
  <1>2. /\ Cash(d, settled) = TotalOf(Counted(settled), U)
        /\ Cash(d, completed) = TotalOf(Counted(completed), U)
    BY CashIsTotal DEF IInv, TypeOK
  <1>3. ASSUME NEW j \in Jobs
        PROVE  /\ Counted(settled)[j] \in Nat /\ Counted(completed)[j] \in Nat /\ Taken[j] \in Nat
               /\ Counted(settled)[j] <= Taken[j] /\ Taken[j] <= Counted(completed)[j]
    <2>1. Total(j) \in Nat
      BY FareAssumption, GoodsAssumption DEF Total
    <2>2. posted[<<"cod", j>>] \in {0, 1}
      BY TheKinds DEF IInv, Books, Sound
    <2>3. posted[<<"cod", j>>] = 1 => j \in completed
      BY <2>2 DEF OnlyCompleted
    <2>4. j \in settled /\ Total(j) > 0 => posted[<<"cod", j>>] = 1
      <3>. SUFFICES ASSUME j \in settled, Total(j) > 0 PROVE posted[<<"cod", j>>] = 1
        OBVIOUS
      <3>1. InFull(j) /\ "cod" \in Due(j)
        BY DueKinds DEF IInv, Books
      <3>2. posted[<<"cod", j>>] > 0
        BY <3>1, TheKinds DEF InFull
      <3>. QED BY <2>2, <3>2
    <2>5. /\ Taken[j] = posted[<<"cod", j>>] * Total(j)
          /\ Counted(settled)[j] = IF j \in settled THEN Total(j) ELSE 0
          /\ Counted(completed)[j] = IF j \in completed THEN Total(j) ELSE 0
      BY DEF Taken, Counted
    <2>6. CASE posted[<<"cod", j>>] = 0
      BY <2>1, <2>4, <2>5, <2>6
    <2>7. CASE posted[<<"cod", j>>] = 1
      BY <2>1, <2>3, <2>5, <2>7
    <2>. QED BY <2>2, <2>6, <2>7
  <1>. HIDE DEF U
  <1>4. TotalOf(Counted(settled), U) \in Nat /\ TotalOf(Counted(completed), U) \in Nat
    BY <1>1, <1>3, TotalType
  <1>5. /\ TotalOf(Counted(settled), U) <= TotalOf(Taken, U)
        /\ TotalOf(Taken, U) <= TotalOf(Counted(completed), U)
    BY <1>1, <1>3, TotalMonotone
  <1>6. Collected(d) = TotalOf(Taken, U)
    BY DEF Collected, U
  <1>. QED BY <1>2, <1>4, <1>5, <1>6

\* A driver is stopped for cash of completed jobs, each counted once, and always
\* for that of jobs whose settlement reported success, however settlements
\* overlap, repeat and fail between their movements (StandingOf, SettleCash).
THEOREM StoppedOnlyForCash == Spec => []StoppedForTheirCash
  <1>1. IInv /\ OnlyCompleted => StoppedForTheirCash
    <2>. SUFFICES ASSUME IInv, OnlyCompleted, NEW d \in Drivers, Limit[d] # NoLimit
                  PROVE  /\ Blocked(d) => Cash(d, completed) - HandedBack(d) >= LimitFor(d).cap
                         /\ Cash(d, settled) - HandedBack(d) >= LimitFor(d).cap => Blocked(d)
      BY DEF StoppedForTheirCash
    <2>. DEFINE c == Collected(d)
                r == TotalOf(Returned(d), Amounts)
                done == Cash(d, completed)
                sure == Cash(d, settled)
                cap == LimitFor(d).cap
    <2>1. c \in Nat /\ r \in Nat /\ Owed(d) = IF c < r THEN 0 ELSE c - r
      BY OwedIsTotal DEF IInv
    <2>2. sure \in Nat /\ sure <= c /\ done \in Nat /\ c <= done
      BY CollectedIsTheirCash
    <2>3. HandedBack(d) = r
      BY HandedBackIsTotal
    <2>4. cap \in Nat \ {0}
      BY WarningComesFirst
    <2>5. Blocked(d) <=> Owed(d) >= cap
      BY DEF Blocked
    <2>. HIDE DEF c, r, done, sure, cap
    <2>6. /\ Blocked(d) => done - r >= cap
          /\ sure - r >= cap => Blocked(d)
      BY <2>1, <2>2, <2>4, <2>5
    <2>. QED BY <2>3, <2>6 DEF c, r, done, sure, cap
  <1>2. IInv /\ OnlyCompleted /\ [Next]_vars => OnlyCompleted'
    BY CompletedNext DEF IInv
  <1>3. Spec => []OnlyCompleted
    BY <1>2, CompletedInit, BooksInvariant, PTL DEF Spec
  <1>. QED BY <1>1, <1>3, BooksInvariant, PTL

-----------------------------------------------------------------------------
(* The cash handed back and the rows that say how *)

\* What is true of RemittancesAreAccounted: a row that says how cash arrived
\* always has its movement in the ledger, and a movement goes without a row only
\* where an agent's request repeats a key (RecordSettlement's ON CONFLICT).
OnlyRepeatsGoUnaccounted ==
    /\ [](\A x \in Drivers \X Amounts : settlements[x] <= remittances[x])
    /\ [][\A x \in Drivers \X Amounts :
             remittances'[x] - settlements'[x] # remittances[x] - settlements[x] =>
                 \E key \in usedKeys : RecordSettlement(x[1], x[2], key)]_vars

LEMMA RemittanceStep ==
    ASSUME TypeOK, NEW x \in Drivers \X Amounts,
           NEW d \in Drivers, NEW amount \in Amounts, NEW key \in Keys \cup {NoKey},
           RecordSettlement(d, amount, key)
    PROVE  /\ x # <<d, amount>> => remittances'[x] = remittances[x] /\ settlements'[x] = settlements[x]
           /\ x = <<d, amount>> => remittances'[x] = remittances[x] + 1
           /\ x = <<d, amount>> /\ key \notin usedKeys => settlements'[x] = settlements[x] + 1
           /\ x = <<d, amount>> /\ key \in usedKeys => settlements'[x] = settlements[x]
  <1>1. remittances' = [remittances EXCEPT ![<<d, amount>>] = remittances[<<d, amount>>] + 1]
    BY DEF RecordSettlement
  <1>2. CASE key \in usedKeys
    <2>1. settlements' = settlements
      BY <1>2 DEF RecordSettlement
    <2>. QED BY <1>1, <1>2, <2>1 DEF TypeOK
  <1>3. CASE key \notin usedKeys
    <2>1. settlements' = [settlements EXCEPT ![<<d, amount>>] = settlements[<<d, amount>>] + 1]
      BY <1>3 DEF RecordSettlement
    <2>. QED BY <1>1, <1>3, <2>1 DEF TypeOK
  <1>. QED BY <1>2, <1>3

\* A step that records no settlement leaves both alone.
LEMMA RemittanceFrame ==
    ASSUME [Next]_vars,
           ~\E d \in Drivers, amount \in Amounts, key \in Keys \cup {NoKey} :
               RecordSettlement(d, amount, key)
    PROVE  UNCHANGED driverVars
  <1>1. CASE \E q \in Requests, j \in Jobs : Complete(q, j) \/ Repeat(q, j)
    BY <1>1 DEF Complete, Repeat
  <1>2. ASSUME NEW q \in Requests, Settle(q) \/ Fail(q)
        PROVE  UNCHANGED driverVars
    BY <1>2 DEF Settle, Fail, SettleNothing, CreateIntent, Capture, Collect, PayMerchant,
                PayDriver, RefuseDriver
  <1>3. CASE UNCHANGED vars
    BY <1>3 DEF vars
  <1>. QED BY <1>1, <1>2, <1>3 DEF Next

\* finance.Store.RecordSettlement, "both or neither": the ledger is never behind
\* the rows, and is ahead of them only by requests that repeated a key.
THEOREM LedgerIsAheadByRepeats == Spec => OnlyRepeatsGoUnaccounted
  <1>. DEFINE Covered == \A x \in Drivers \X Amounts : settlements[x] <= remittances[x]
              Repeats == \A x \in Drivers \X Amounts :
                  remittances'[x] - settlements'[x] # remittances[x] - settlements[x] =>
                      \E key \in usedKeys : RecordSettlement(x[1], x[2], key)
  <1>1. Init => Covered
    BY DEF Init
  <1>2. TypeOK /\ Covered /\ [Next]_vars => Covered' /\ [Repeats]_vars
    <2>. SUFFICES ASSUME TypeOK, Covered, [Next]_vars, NEW x \in Drivers \X Amounts
                  PROVE  /\ settlements'[x] <= remittances'[x]
                         /\ \/ remittances'[x] - settlements'[x] = remittances[x] - settlements[x]
                            \/ \E key \in usedKeys : RecordSettlement(x[1], x[2], key)
      OBVIOUS
    <2>1. settlements[x] \in Nat /\ remittances[x] \in Nat /\ settlements[x] <= remittances[x]
      BY DEF TypeOK
    <2>2. CASE UNCHANGED driverVars
      BY <2>1, <2>2 DEF driverVars
    <2>3. ASSUME NEW d \in Drivers, NEW amount \in Amounts, NEW key \in Keys \cup {NoKey},
                 RecordSettlement(d, amount, key)
          PROVE  /\ settlements'[x] <= remittances'[x]
                 /\ \/ remittances'[x] - settlements'[x] = remittances[x] - settlements[x]
                    \/ \E k \in usedKeys : RecordSettlement(x[1], x[2], k)
      <3>1. CASE x # <<d, amount>>
        BY <2>1, <2>3, <3>1, RemittanceStep
      <3>2. CASE x = <<d, amount>> /\ key \notin usedKeys
        <4>1. remittances'[x] = remittances[x] + 1 /\ settlements'[x] = settlements[x] + 1
          BY <2>3, <3>2, RemittanceStep
        <4>. QED BY <2>1, <4>1
      <3>3. CASE x = <<d, amount>> /\ key \in usedKeys
        <4>1. remittances'[x] = remittances[x] + 1 /\ settlements'[x] = settlements[x]
          BY <2>3, <3>3, RemittanceStep
        <4>2. x[1] = d /\ x[2] = amount
          BY <3>3
        <4>3. \E k \in usedKeys : RecordSettlement(x[1], x[2], k)
          BY <2>3, <3>3, <4>2
        <4>. QED BY <2>1, <4>1, <4>3
      <3>. QED BY <3>1, <3>2, <3>3
    <2>. QED BY <2>2, <2>3, RemittanceFrame
  <1>3. Spec => []Covered
    BY <1>1, <1>2, TypeCorrect, PTL DEF Spec
  <1>. QED BY <1>2, <1>3, TypeCorrect, PTL DEF Spec, OnlyRepeatsGoUnaccounted

=============================================================================
