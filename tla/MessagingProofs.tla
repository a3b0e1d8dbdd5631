--------------------------- MODULE MessagingProofs --------------------------
(***************************************************************************)
(* What reaches people.  The live gateway, for any number of connections,   *)
(* accounts, publishers and announcements and any size of a buffer, while    *)
(* clients come, fall behind and go.  Then the notifications, for any        *)
(* number of callers, workers and faults: nobody is told twice.              *)
(***************************************************************************)
EXTENDS Realtime, Notify, FiniteSetTheorems, TLAPS

-----------------------------------------------------------------------------
(* The gateway: the inductive invariant *)

PubSteps == {"idle", "calling", "sending", "open", "full", "panicked"}
PubRows  == [step : PubSteps, todo : Seq(Channels), event : Event \cup {<<>>},
             targets : SUBSET Conns, to : Conns \cup {<<>>}]

\* Every row is there from the start.
RowsKnown ==
    /\ out \in [Conns -> Seq(Event)] /\ got \in [Conns -> Seq(Event)]
    /\ coalesced \in [Conns -> SUBSET Event] /\ pending \in [Conns -> SUBSET Event]
    /\ pub \in [Publishers -> PubRows]

\* Nothing was sent to a connection before it was opened, only positions wait
\* beside a buffer, and a send is about a connection that was opened.
Streams ==
    /\ \A c \in Conns :
          /\ ~Open(c) => channels[c] = {}
          /\ stream[c] = "absent" =>
                out[c] = <<>> /\ got[c] = <<>> /\ offered[c] = 0 /\ dropped[c] = 0
          /\ \A e \in coalesced[c] \cup pending[c] : e.position
    /\ \A p \in Publishers : pub[p].step \in {"open", "full"} =>
          pub[p].to \in Conns /\ stream[pub[p].to] # "absent"

\* So many connections are open and so many publishers at work.
OpenOnes == {c \in Conns : Open(c)}
Working  == {p \in Publishers : pub[p].step # "idle"}
Finite   == IsFiniteSet(OpenOnes) /\ IsFiniteSet(Working)

Active(p) == pub[p].step \in {"calling", "sending", "open", "full"}

\* What a publisher at work announces is its latest.
Latest ==
    \A p \in Publishers : Active(p) =>
        pub[p].event \in Event /\ pub[p].event.by = p /\ pub[p].event.n <= announced

\* The events of one sequence, of one and the next, and those already sent, in
\* the order in which their publishers announced them.
InOrder(s) ==
    \A i, j \in NotPositions(s) : i < j /\ s[i].by = s[j].by => s[i].n <= s[j].n
Precedes(s, t) ==
    \A i \in NotPositions(s), j \in NotPositions(t) : s[i].by = t[j].by => s[i].n <= t[j].n
Sent(s) ==
    \A i \in NotPositions(s) :
        s[i].n <= announced /\ (Active(s[i].by) => s[i].n <= pub[s[i].by].event.n)

Ordered ==
    \A c \in Conns : /\ InOrder(got[c]) /\ InOrder(out[c]) /\ Precedes(got[c], out[c])
                     /\ Sent(got[c]) /\ Sent(out[c])

HubInv ==
    /\ HubTypeOK /\ RowsKnown /\ Streams /\ Finite /\ Latest
    /\ HubMatchesConnections /\ EventsAreAccounted /\ Ordered

-----------------------------------------------------------------------------
(* Sequences of events *)

LEMMA EventType ==
    ASSUME NEW e \in Event
    PROVE  e.position \in BOOLEAN /\ e.n \in Nat /\ e.by \in Publishers
  BY RealtimeAssumption DEF Event

LEMMA NotPositionsFinite ==
    ASSUME NEW s \in Seq(Event)
    PROVE  /\ IsFiniteSet(NotPositions(s)) /\ Cardinality(NotPositions(s)) \in Nat
           /\ NotPositions(s) \subseteq 1 .. Len(s)
           /\ \A i \in NotPositions(s) : i \in Nat /\ s[i] \in Event
  <1>1. DOMAIN s = 1 .. Len(s) /\ Len(s) \in Nat /\ \A i \in 1 .. Len(s) : s[i] \in Event
    OBVIOUS
  <1>2. NotPositions(s) \subseteq 1 .. Len(s)
    BY <1>1 DEF NotPositions
  <1>3. IsFiniteSet(1 .. Len(s))
    BY <1>1, FS_Interval
  <1>. QED BY <1>1, <1>2, <1>3, FS_Subset, FS_CardinalityType

LEMMA AppendFacts ==
    ASSUME NEW s \in Seq(Event), NEW e \in Event
    PROVE  /\ Append(s, e) \in Seq(Event) /\ Len(Append(s, e)) = Len(s) + 1
           /\ \A i \in NotPositions(s) : Append(s, e)[i] = s[i]
           /\ e.position => NotPositions(Append(s, e)) = NotPositions(s)
           /\ ~e.position => /\ NotPositions(Append(s, e)) = NotPositions(s) \cup {Len(s) + 1}
                             /\ Append(s, e)[Len(s) + 1] = e
           /\ Cardinality(NotPositions(Append(s, e)))
                = Cardinality(NotPositions(s)) + (IF e.position THEN 0 ELSE 1)
  <1>. DEFINE t == Append(s, e)
              k == Len(s) + 1
  <1>1. /\ t \in Seq(Event) /\ Len(t) = k /\ Len(s) \in Nat /\ DOMAIN s = 1 .. Len(s)
        /\ DOMAIN t = 1 .. k /\ t[k] = e
        /\ \A i \in 1 .. Len(s) : t[i] = s[i]
    OBVIOUS
  <1>2. e.position \in BOOLEAN
    BY EventType
  <1>3. /\ IsFiniteSet(NotPositions(s)) /\ Cardinality(NotPositions(s)) \in Nat
        /\ NotPositions(s) \subseteq 1 .. Len(s)
    BY NotPositionsFinite
  <1>. HIDE DEF t
  <1>4. ASSUME NEW i
        PROVE  i \in NotPositions(t) <=> i \in NotPositions(s) \/ (~e.position /\ i = k)
    BY <1>1 DEF NotPositions
  <1>5. k \notin NotPositions(s)
    BY <1>1, <1>3
  <1>6. CASE e.position
    <2>1. NotPositions(t) = NotPositions(s)
      BY <1>4, <1>6
    <2>. QED BY <1>1, <1>3, <1>6, <2>1 DEF t
  <1>7. CASE ~e.position
    <2>1. NotPositions(t) = NotPositions(s) \cup {k}
      BY <1>4, <1>7
    <2>2. Cardinality(NotPositions(s) \cup {k}) = Cardinality(NotPositions(s)) + 1
      BY <1>3, <1>5, FS_AddElement
    <2>. QED BY <1>1, <1>3, <1>7, <2>1, <2>2 DEF t
  <1>. QED BY <1>2, <1>6, <1>7

\* One more event leaves a sequence in order when it is no older than the
\* latest of its publisher.
LEMMA AppendInOrder ==
    ASSUME NEW s \in Seq(Event), NEW e \in Event, InOrder(s),
           ~e.position => \A i \in NotPositions(s) : s[i].by = e.by => s[i].n <= e.n
    PROVE  InOrder(Append(s, e))
  <1>. DEFINE t == Append(s, e)
  <1>1. \A i \in NotPositions(s) : t[i] = s[i] /\ i \in 1 .. Len(s)
    BY AppendFacts, NotPositionsFinite
  <1>2. \A i \in NotPositions(t) : i \in NotPositions(s) \/ (~e.position /\ i = Len(s) + 1 /\ t[i] = e)
    BY AppendFacts, EventType
  <1>3. e.n \in Nat /\ Len(s) \in Nat
    BY EventType
  <1>. HIDE DEF t
  <1>4. ASSUME NEW i \in NotPositions(t), NEW j \in NotPositions(t), i < j, t[i].by = t[j].by
        PROVE  t[i].n <= t[j].n
    <2>1. CASE i \in NotPositions(s) /\ j \in NotPositions(s)
      BY <1>1, <1>4, <2>1 DEF InOrder
    <2>2. CASE i \in NotPositions(s) /\ ~e.position /\ j = Len(s) + 1 /\ t[j] = e
      BY <1>1, <1>4, <2>2
    <2>3. CASE i = Len(s) + 1 /\ t[i] = e /\ j = Len(s) + 1
      BY <1>3, <1>4, <2>3
    <2>4. CASE i = Len(s) + 1 /\ j \in NotPositions(s)
      <3>1. j \in 1 .. Len(s)
        BY <1>1, <2>4
      <3>2. ~(Len(s) + 1 < j)
        BY <1>3, <3>1
      <3>. QED BY <1>4, <2>4, <3>2
    <2>. QED BY <1>2, <2>1, <2>2, <2>3, <2>4
  <1>. QED BY <1>4 DEF InOrder, t

LEMMA TailFacts ==
    ASSUME NEW s \in Seq(Event), s # <<>>
    PROVE  /\ Tail(s) \in Seq(Event) /\ Len(Tail(s)) = Len(s) - 1
           /\ Head(s) = s[1] /\ Head(s) \in Event
           /\ ~Head(s).position => 1 \in NotPositions(s)
           /\ \A j \in NotPositions(Tail(s)) : j + 1 \in NotPositions(s) /\ Tail(s)[j] = s[j + 1]
           /\ Cardinality(NotPositions(s))
                = Cardinality(NotPositions(Tail(s))) + (IF Head(s).position THEN 0 ELSE 1)
  <1>. DEFINE t == Tail(s)
              rest == NotPositions(s) \ {1}
  <1>1. /\ t \in Seq(Event) /\ Len(t) = Len(s) - 1 /\ Len(s) \in Nat /\ Len(s) >= 1
        /\ DOMAIN s = 1 .. Len(s) /\ DOMAIN t = 1 .. Len(s) - 1
        /\ Head(s) = s[1] /\ s[1] \in Event
        /\ \A j \in 1 .. Len(s) - 1 : t[j] = s[j + 1]
    OBVIOUS
  <1>2. /\ IsFiniteSet(NotPositions(s)) /\ Cardinality(NotPositions(s)) \in Nat
        /\ NotPositions(s) \subseteq 1 .. Len(s)
    BY NotPositionsFinite
  <1>3. Head(s).position \in BOOLEAN
    BY <1>1, EventType
  <1>. HIDE DEF t
  <1>4. \A j \in NotPositions(t) : j \in 1 .. Len(s) - 1 /\ j + 1 \in NotPositions(s) /\ t[j] = s[j + 1]
    BY <1>1 DEF NotPositions
  <1>5. \A i \in rest : i \in 2 .. Len(s) /\ i - 1 \in NotPositions(t)
    BY <1>1, <1>2 DEF NotPositions
  <1>6. 1 \in NotPositions(s) <=> ~Head(s).position
    BY <1>1 DEF NotPositions
  <1>7. Cardinality(rest) = Cardinality(NotPositions(t)) /\ IsFiniteSet(rest)
    <2>. DEFINE f == [i \in rest |-> i - 1]
    <2>1. IsFiniteSet(rest)
      BY <1>2, FS_RemoveElement
    <2>2. f \in Bijection(rest, NotPositions(t))
      <3>1. f \in [rest -> NotPositions(t)]
        BY <1>5
      <3>2. \A i, j \in rest : f[i] = f[j] => i = j
        BY <1>5
      <3>3. \A j \in NotPositions(t) : j + 1 \in rest /\ f[j + 1] = j
        BY <1>4
      <3>. HIDE DEF f, rest
      <3>4. f \in Injection(rest, NotPositions(t))
        BY <3>1, <3>2 DEF Injection, IsInjective
      <3>5. f \in Surjection(rest, NotPositions(t))
        BY <3>1, <3>3 DEF Surjection
      <3>. QED BY <3>4, <3>5 DEF Bijection
    <2>. HIDE DEF f, rest
    <2>3. ExistsBijection(rest, NotPositions(t))
      BY <2>2 DEF ExistsBijection
    <2>. QED BY <2>1, <2>3, FS_Bijection
  <1>8. CASE Head(s).position
    <2>1. rest = NotPositions(s)
      BY <1>6, <1>8
    <2>2. Cardinality(NotPositions(t)) \in Nat
      BY <1>1, NotPositionsFinite
    <2>3. Cardinality(NotPositions(s)) = Cardinality(NotPositions(t)) + 0
      <3>. HIDE DEF rest
      <3>. QED BY <1>7, <2>1, <2>2
    <2>. QED BY <1>1, <1>4, <1>8, <2>3 DEF t
  <1>9. CASE ~Head(s).position
    <2>1. 1 \in NotPositions(s)
      BY <1>6, <1>9
    <2>2. Cardinality(rest) = Cardinality(NotPositions(s)) - 1
      BY <1>2, <2>1, FS_RemoveElement
    <2>3. Cardinality(NotPositions(t)) \in Nat
      BY <1>1, NotPositionsFinite
    <2>. QED BY <1>1, <1>2, <1>4, <1>7, <1>9, <2>1, <2>2, <2>3 DEF t
  <1>. QED BY <1>3, <1>8, <1>9

-----------------------------------------------------------------------------
(* Clients come and go *)

OpenOf(u) == {c \in Conns : Caller[c] = u /\ Open(c)}

LEMMA OpenFinite ==
    ASSUME HubInv, NEW u
    PROVE  IsFiniteSet(OpenOf(u)) /\ Cardinality(OpenOf(u)) \in Nat
  <1>1. OpenOf(u) \subseteq OpenOnes /\ IsFiniteSet(OpenOnes)
    BY DEF OpenOf, OpenOnes, HubInv, Finite
  <1>. QED BY <1>1, FS_Subset, FS_CardinalityType

\* What a step of the hub leaves as it was: all that was sent.
sentVars == <<out, coalesced, dropped, pending, pub, announced, got, offered>>

LEMMA HubStep ==
    ASSUME HubInv, NEW c \in Conns, UNCHANGED sentVars,
           \A d \in Conns : d # c => stream'[d] = stream[d] /\ channels'[d] = channels[d],
           stream'[c] # "absent", ~Open(c)' => channels'[c] = {},
           Open(c)' => Open(c) \/ stream[c] = "absent"
    PROVE  RowsKnown' /\ Streams' /\ Finite' /\ Latest' /\ EventsAreAccounted' /\ Ordered'
  <1>0. /\ out' = out /\ coalesced' = coalesced /\ dropped' = dropped /\ pending' = pending
        /\ pub' = pub /\ announced' = announced /\ got' = got /\ offered' = offered
    BY DEF sentVars
  <1>1. RowsKnown' /\ Latest' /\ Ordered'
    BY <1>0 DEF HubInv, RowsKnown, Latest, Ordered, Sent, Active
  <1>2. \A d \in Conns : d # c => (Open(d)' <=> Open(d))
    BY DEF Open
  <1>3. Streams'
    BY <1>0, <1>2 DEF HubInv, Streams
  <1>4. Finite'
    <2>1. OpenOnes' \subseteq OpenOnes \cup {c}
      BY <1>2 DEF OpenOnes
    <2>2. IsFiniteSet(OpenOnes \cup {c})
      BY FS_AddElement DEF HubInv, Finite
    <2>3. IsFiniteSet(OpenOnes')
      BY <2>1, <2>2, FS_Subset
    <2>4. Working' = Working
      BY <1>0 DEF Working
    <2>. QED BY <2>3, <2>4 DEF HubInv, Finite
  <1>5. ASSUME NEW d \in Conns, Open(d)'
        PROVE  offered'[d] = Cardinality(NotPositions(got'[d])) + Cardinality(NotPositions(out'[d]))
                             + dropped'[d] + Cardinality(Losing(d)')
    <2>1. Losing(d)' = Losing(d)
      BY <1>0 DEF Losing
    <2>2. CASE Open(d)
      BY <1>0, <2>1, <2>2 DEF HubInv, EventsAreAccounted
    <2>3. CASE ~Open(d)
      <3>1. stream[d] = "absent"
        BY <1>2, <1>5, <2>3
      <3>2. got[d] = <<>> /\ out[d] = <<>> /\ offered[d] = 0 /\ dropped[d] = 0
        BY <3>1 DEF HubInv, Streams
      <3>3. Losing(d) = {} /\ NotPositions(<<>>) = {}
        BY <3>1 DEF HubInv, Streams, Losing, NotPositions
      <3>4. /\ NotPositions(got'[d]) = {} /\ NotPositions(out'[d]) = {} /\ Losing(d)' = {}
            /\ offered'[d] = 0 /\ dropped'[d] = 0
        BY <1>0, <2>1, <3>2, <3>3
      <3>5. Cardinality({}) = 0
        BY FS_EmptySet
      <3>. QED BY <3>4, <3>5
    <2>. QED BY <2>2, <2>3
  <1>6. EventsAreAccounted'
    BY <1>5 DEF EventsAreAccounted
  <1>. QED BY <1>1, <1>3, <1>4, <1>6

LEMMA ConnectKept ==
    ASSUME HubInv, NEW c \in Conns, Connect(c)
    PROVE  HubInv'
  <1>1. /\ stream[c] = "absent" /\ count[Caller[c]] < MaxPerUser
        /\ stream' = [stream EXCEPT ![c] = "joining"]
        /\ count' = [count EXCEPT ![Caller[c]] = count[Caller[c]] + 1]
        /\ asked' \in [Conns -> SUBSET Channels]
        /\ channels' = channels /\ byChannel' = byChannel /\ UNCHANGED sentVars
    BY DEF Connect, sentVars, buffer, Asking, HubInv, HubTypeOK
  <1>2. /\ \A d \in Conns : d # c => stream'[d] = stream[d]
        /\ stream'[c] = "joining" /\ Caller[c] \in Subscribers
    BY <1>1, RealtimeAssumption DEF HubInv, HubTypeOK
  <1>3. ~Open(c) /\ Open(c)'
    BY <1>1, <1>2 DEF Open
  <1>4. RowsKnown' /\ Streams' /\ Finite' /\ Latest' /\ EventsAreAccounted' /\ Ordered'
    BY <1>1, <1>2, <1>3, HubStep
  <1>5. \A d \in Conns : d # c => (Open(d)' <=> Open(d))
    BY <1>2 DEF Open
  <1>6. HubTypeOK'
    <2>1. count' \in [Subscribers -> 0..MaxPerUser]
      BY <1>1, <1>2, RealtimeAssumption DEF HubInv, HubTypeOK
    <2>2. stream' \in [Conns -> {"absent", "joining", "streaming", "written", "flushing", "closed"}]
      BY <1>1 DEF HubInv, HubTypeOK
    <2>. QED BY <1>1, <2>1, <2>2 DEF HubInv, HubTypeOK, sentVars
  <1>7. HubMatchesConnections'
    <2>1. \A d \in Conns, k \in Channels : (d \in byChannel'[k]) <=> (Open(d)' /\ k \in channels'[d])
      BY <1>1, <1>3, <1>5 DEF HubInv, HubMatchesConnections, Streams
    <2>2. ASSUME NEW u \in Subscribers
          PROVE  count'[u] = Cardinality(OpenOf(u)')
      <3>1. IsFiniteSet(OpenOf(u)) /\ count[u] = Cardinality(OpenOf(u)) /\ c \notin OpenOf(u)
        BY <1>3, OpenFinite DEF HubInv, HubMatchesConnections, OpenOf
      <3>2. CASE u = Caller[c]
        <4>1. OpenOf(u)' = OpenOf(u) \cup {c}
          BY <1>3, <1>5, <3>2 DEF OpenOf
        <4>2. Cardinality(OpenOf(u) \cup {c}) = Cardinality(OpenOf(u)) + 1
          BY <3>1, FS_AddElement
        <4>3. count'[u] = count[u] + 1
          BY <1>1, <3>2 DEF HubInv, HubTypeOK
        <4>. QED BY <3>1, <4>1, <4>2, <4>3
      <3>3. CASE u # Caller[c]
        <4>1. OpenOf(u)' = OpenOf(u)
          BY <1>5, <3>3 DEF OpenOf
        <4>2. count'[u] = count[u]
          BY <1>1, <3>3 DEF HubInv, HubTypeOK
        <4>. QED BY <3>1, <4>1, <4>2
      <3>. QED BY <3>2, <3>3
    <2>. QED BY <2>1, <2>2 DEF HubMatchesConnections, OpenOf
  <1>. QED BY <1>4, <1>6, <1>7 DEF HubInv

LEMMA SubscribeKept ==
    ASSUME HubInv, NEW c \in Conns, NEW k \in Channels, Subscribe(c, k)
    PROVE  HubInv'
  <1>1. /\ stream[c] = "joining" /\ UNCHANGED sentVars /\ count' = count
        /\ channels' = [channels EXCEPT ![c] = channels[c] \cup {k}]
        /\ byChannel' = [byChannel EXCEPT ![k] = byChannel[k] \cup {c}]
        /\ asked' = [asked EXCEPT ![c] = asked[c] \ {k}]
        /\ stream' \in {stream, [stream EXCEPT ![c] = "streaming"]}
    BY DEF Subscribe, sentVars, buffer
  <1>2. /\ \A d \in Conns : d # c => stream'[d] = stream[d] /\ channels'[d] = channels[d]
        /\ stream'[c] \in {"joining", "streaming"} /\ channels'[c] = channels[c] \cup {k}
    BY <1>1 DEF HubInv, HubTypeOK
  <1>3. Open(c) /\ Open(c)'
    BY <1>1, <1>2 DEF Open
  <1>4. RowsKnown' /\ Streams' /\ Finite' /\ Latest' /\ EventsAreAccounted' /\ Ordered'
    BY <1>1, <1>2, <1>3, HubStep
  <1>5. \A d \in Conns : Open(d)' <=> Open(d)
    BY <1>2, <1>3 DEF Open
  <1>6. HubTypeOK'
    <2>1. stream' \in [Conns -> {"absent", "joining", "streaming", "written", "flushing", "closed"}]
      BY <1>1 DEF HubInv, HubTypeOK
    <2>2. /\ channels' \in [Conns -> SUBSET Channels] /\ asked' \in [Conns -> SUBSET Channels]
          /\ byChannel' \in [Channels -> SUBSET Conns]
      BY <1>1 DEF HubInv, HubTypeOK
    <2>. QED BY <1>1, <2>1, <2>2 DEF HubInv, HubTypeOK, sentVars
  <1>7. HubMatchesConnections'
    <2>1. ASSUME NEW d \in Conns, NEW x \in Channels
          PROVE  (d \in byChannel'[x]) <=> (Open(d)' /\ x \in channels'[d])
      <3>1. byChannel'[x] = IF x = k THEN byChannel[k] \cup {c} ELSE byChannel[x]
        BY <1>1 DEF HubInv, HubTypeOK
      <3>. QED BY <1>2, <1>3, <1>5, <3>1 DEF HubInv, HubMatchesConnections
    <2>2. \A u \in Subscribers : OpenOf(u)' = OpenOf(u)
      BY <1>5 DEF OpenOf
    <2>. QED BY <1>1, <2>1, <2>2 DEF HubInv, HubMatchesConnections, OpenOf
  <1>. QED BY <1>4, <1>6, <1>7 DEF HubInv

LEMMA CloseKept ==
    ASSUME HubInv, NEW c \in Conns, Close(c), Open(c)
    PROVE  HubInv'
  <1>1. /\ stream' = [stream EXCEPT ![c] = "closed"] /\ UNCHANGED sentVars
        /\ channels' = [channels EXCEPT ![c] = {}] /\ asked' = [asked EXCEPT ![c] = {}]
        /\ byChannel' = [k \in Channels |-> IF k \in channels[c] THEN byChannel[k] \ {c} ELSE byChannel[k]]
        /\ count' = [count EXCEPT ![Caller[c]] = count[Caller[c]] - 1]
    BY DEF Close, sentVars, buffer
  <1>2. /\ \A d \in Conns : d # c => stream'[d] = stream[d] /\ channels'[d] = channels[d]
        /\ stream'[c] = "closed" /\ channels'[c] = {} /\ Caller[c] \in Subscribers
    BY <1>1, RealtimeAssumption DEF HubInv, HubTypeOK
  <1>3. ~Open(c)'
    BY <1>2 DEF Open
  <1>4. RowsKnown' /\ Streams' /\ Finite' /\ Latest' /\ EventsAreAccounted' /\ Ordered'
    BY <1>1, <1>2, <1>3, HubStep
  <1>5. \A d \in Conns : d # c => (Open(d)' <=> Open(d))
    BY <1>2 DEF Open
  <1>6. ASSUME NEW u \in Subscribers
        PROVE  /\ count'[u] = Cardinality(OpenOf(u)')
               /\ count'[u] \in 0 .. MaxPerUser
    <2>1. /\ IsFiniteSet(OpenOf(u)) /\ count[u] = Cardinality(OpenOf(u)) /\ count[u] \in 0 .. MaxPerUser
      BY OpenFinite DEF HubInv, HubMatchesConnections, OpenOf, HubTypeOK
    <2>2. CASE u = Caller[c]
      <3>1. OpenOf(u)' = OpenOf(u) \ {c} /\ c \in OpenOf(u)
        BY <1>3, <1>5, <2>2 DEF OpenOf
      <3>2. Cardinality(OpenOf(u) \ {c}) = Cardinality(OpenOf(u)) - 1 /\ IsFiniteSet(OpenOf(u) \ {c})
        BY <2>1, <3>1, FS_RemoveElement
      <3>3. Cardinality(OpenOf(u) \ {c}) \in Nat
        BY <3>2, FS_CardinalityType
      <3>4. count'[u] = count[u] - 1
        BY <1>1, <2>2 DEF HubInv, HubTypeOK
      <3>5. MaxPerUser \in Nat
        BY RealtimeAssumption
      <3>. QED BY <2>1, <3>1, <3>2, <3>3, <3>4, <3>5
    <2>3. CASE u # Caller[c]
      <3>1. OpenOf(u)' = OpenOf(u)
        BY <1>5, <2>3 DEF OpenOf
      <3>2. count'[u] = count[u]
        BY <1>1, <2>3 DEF HubInv, HubTypeOK
      <3>. QED BY <2>1, <3>1, <3>2
    <2>. QED BY <2>2, <2>3
  <1>7. HubTypeOK'
    <2>1. stream' \in [Conns -> {"absent", "joining", "streaming", "written", "flushing", "closed"}]
      BY <1>1 DEF HubInv, HubTypeOK
    <2>2. /\ channels' \in [Conns -> SUBSET Channels] /\ asked' \in [Conns -> SUBSET Channels]
          /\ byChannel' \in [Channels -> SUBSET Conns]
      BY <1>1 DEF HubInv, HubTypeOK
    <2>3. count' \in [Subscribers -> 0 .. MaxPerUser]
      <3>1. count' = [u \in Subscribers |-> count'[u]]
        BY <1>1 DEF HubInv, HubTypeOK
      <3>. QED BY <1>6, <3>1
    <2>. QED BY <1>1, <2>1, <2>2, <2>3 DEF HubInv, HubTypeOK, sentVars
  <1>8. HubMatchesConnections'
    <2>1. ASSUME NEW d \in Conns, NEW x \in Channels
          PROVE  (d \in byChannel'[x]) <=> (Open(d)' /\ x \in channels'[d])
      <3>1. byChannel'[x] = IF x \in channels[c] THEN byChannel[x] \ {c} ELSE byChannel[x]
        BY <1>1
      <3>2. /\ d \in byChannel[x] <=> Open(d) /\ x \in channels[d]
            /\ c \in byChannel[x] <=> Open(c) /\ x \in channels[c]
        BY DEF HubInv, HubMatchesConnections
      <3>3. CASE d = c
        BY <1>2, <1>3, <3>1, <3>2, <3>3
      <3>4. CASE d # c
        BY <1>2, <1>5, <3>1, <3>2, <3>4
      <3>. QED BY <3>3, <3>4
    <2>. QED BY <1>6, <2>1 DEF HubMatchesConnections, OpenOf
  <1>. QED BY <1>4, <1>7, <1>8 DEF HubInv

-----------------------------------------------------------------------------
(* One stream *)

StreamStates == {"absent", "joining", "streaming", "written", "flushing", "closed"}

\* A step of one open stream that loses no event, overtakes none and keeps the
\* bounds of its buffer keeps everything.
LEMMA StreamStep ==
    ASSUME HubInv, NEW c \in Conns, UNCHANGED <<hub, dropped, pub, announced, offered>>,
           Open(c), Open(c)', stream' \in [Conns -> StreamStates],
           \A d \in Conns : d # c => /\ stream'[d] = stream[d] /\ out'[d] = out[d] /\ got'[d] = got[d]
                                     /\ coalesced'[d] = coalesced[d] /\ pending'[d] = pending[d],
           out' \in [Conns -> Seq(Event)], got' \in [Conns -> Seq(Event)],
           coalesced' \in [Conns -> SUBSET Event], pending' \in [Conns -> SUBSET Event],
           Len(out'[c]) <= Buffer,
           \A e, f \in coalesced'[c] : e.res = f.res => e = f,
           \A e \in coalesced'[c] \cup pending'[c] : e.position,
           Cardinality(NotPositions(got'[c])) + Cardinality(NotPositions(out'[c]))
             = Cardinality(NotPositions(got[c])) + Cardinality(NotPositions(out[c])),
           InOrder(got'[c]), InOrder(out'[c]), Precedes(got'[c], out'[c]),
           Sent(got'[c]), Sent(out'[c])
    PROVE  HubInv'
  <1>0. /\ asked' = asked /\ channels' = channels /\ byChannel' = byChannel /\ count' = count
        /\ dropped' = dropped /\ pub' = pub /\ announced' = announced /\ offered' = offered
    BY DEF hub
  <1>1. \A d \in Conns : Open(d)' <=> Open(d)
    BY DEF Open
  <1>2. HubTypeOK'
    <2>1. ASSUME NEW d \in Conns
          PROVE  /\ out'[d] \in Seq(Event) /\ Len(out'[d]) <= Buffer
                 /\ coalesced'[d] \subseteq Event /\ pending'[d] \subseteq Event
                 /\ \A e, f \in coalesced'[d] : e.res = f.res => e = f
                 /\ got'[d] \in Seq(Event)
      <3>1. CASE d = c
        BY <3>1
      <3>2. CASE d # c
        BY <3>2 DEF HubInv, HubTypeOK
      <3>. QED BY <3>1, <3>2
    <2>. QED BY <1>0, <2>1 DEF HubInv, HubTypeOK, StreamStates
  <1>3. RowsKnown' /\ Latest'
    BY <1>0 DEF HubInv, RowsKnown, Latest, Active
  <1>4. Streams'
    <2>1. stream'[c] # "absent"
      BY DEF Open
    <2>2. \A p \in Publishers : pub'[p].step \in {"open", "full"} =>
             pub'[p].to \in Conns /\ stream'[pub'[p].to] # "absent"
      <3>1. \A d \in Conns : stream[d] # "absent" => stream'[d] # "absent"
        BY <2>1
      <3>2. \A p \in Publishers : pub[p].step \in {"open", "full"} =>
               pub[p].to \in Conns /\ stream[pub[p].to] # "absent"
        BY DEF HubInv, Streams
      <3>3. ASSUME NEW p \in Publishers, pub[p].step \in {"open", "full"}
            PROVE  pub[p].to \in Conns /\ stream'[pub[p].to] # "absent"
        <4>1. pub[p].to \in Conns /\ stream[pub[p].to] # "absent"
          BY <3>2, <3>3
        <4>. QED BY <3>1, <4>1
      <3>. QED BY <1>0, <3>3
    <2>3. ASSUME NEW d \in Conns
          PROVE  /\ ~Open(d)' => channels'[d] = {}
                 /\ stream'[d] = "absent" =>
                       out'[d] = <<>> /\ got'[d] = <<>> /\ offered'[d] = 0 /\ dropped'[d] = 0
                 /\ \A e \in coalesced'[d] \cup pending'[d] : e.position
      <3>1. CASE d = c
        BY <2>1, <3>1
      <3>2. CASE d # c
        <4>1. /\ ~Open(d) => channels[d] = {}
              /\ stream[d] = "absent" =>
                    out[d] = <<>> /\ got[d] = <<>> /\ offered[d] = 0 /\ dropped[d] = 0
              /\ \A e \in coalesced[d] \cup pending[d] : e.position
          BY DEF HubInv, Streams
        <4>2. /\ stream'[d] = stream[d] /\ out'[d] = out[d] /\ got'[d] = got[d]
              /\ coalesced'[d] = coalesced[d] /\ pending'[d] = pending[d]
          BY <3>2
        <4>. QED BY <1>0, <1>1, <4>1, <4>2
      <3>. QED BY <3>1, <3>2
    <2>. QED BY <2>2, <2>3 DEF Streams
  <1>5. Finite' /\ HubMatchesConnections'
    <2>1. OpenOnes' = OpenOnes /\ Working' = Working
      BY <1>0, <1>1 DEF OpenOnes, Working
    <2>2. \A u \in Subscribers : OpenOf(u)' = OpenOf(u)
      BY <1>1 DEF OpenOf
    <2>. QED BY <1>0, <1>1, <2>1, <2>2 DEF HubInv, Finite, HubMatchesConnections, OpenOf
  <1>6. ASSUME NEW d \in Conns, Open(d)'
        PROVE  offered'[d] = Cardinality(NotPositions(got'[d])) + Cardinality(NotPositions(out'[d]))
                             + dropped'[d] + Cardinality(Losing(d)')
    <2>1. Losing(d)' = Losing(d)
      BY <1>0 DEF Losing
    <2>2. offered[d] = Cardinality(NotPositions(got[d])) + Cardinality(NotPositions(out[d]))
                       + dropped[d] + Cardinality(Losing(d))
      BY <1>1, <1>6 DEF HubInv, EventsAreAccounted
    <2>3. Cardinality(NotPositions(got'[d])) + Cardinality(NotPositions(out'[d]))
            = Cardinality(NotPositions(got[d])) + Cardinality(NotPositions(out[d]))
      BY <2>1
    <2>. QED BY <1>0, <2>1, <2>2, <2>3
  <1>7. Ordered'
    <2>1. ASSUME NEW d \in Conns
          PROVE  /\ InOrder(got'[d]) /\ InOrder(out'[d]) /\ Precedes(got'[d], out'[d])
                 /\ Sent(got'[d]) /\ Sent(out'[d])
      BY DEF HubInv, Ordered
    <2>. QED BY <1>0, <2>1 DEF Ordered, Sent, Active
  <1>8. EventsAreAccounted'
    BY <1>6 DEF EventsAreAccounted
  <1>. QED BY <1>2, <1>3, <1>4, <1>5, <1>7, <1>8 DEF HubInv

LEMMA WriteEventKept ==
    ASSUME HubInv, NEW c \in Conns, WriteEvent(c)
    PROVE  HubInv'
  <1>. DEFINE g == got[c]
              s == out[c]
              e == Head(out[c])
              longer == Append(g, e)
              rest == Tail(s)
  <1>1. /\ stream[c] = "streaming" /\ s # <<>>
        /\ got' = [got EXCEPT ![c] = longer] /\ out' = [out EXCEPT ![c] = rest]
        /\ stream' = [stream EXCEPT ![c] = "written"]
        /\ coalesced' = coalesced /\ pending' = pending
        /\ UNCHANGED <<hub, dropped, pub, announced, offered>>
    BY DEF WriteEvent
  <1>2. /\ g \in Seq(Event) /\ s \in Seq(Event) /\ Len(s) <= Buffer /\ Len(s) \in Nat
        /\ got \in [Conns -> Seq(Event)] /\ out \in [Conns -> Seq(Event)]
        /\ stream \in [Conns -> StreamStates]
    BY DEF HubInv, HubTypeOK, RowsKnown, StreamStates
  <1>3. /\ InOrder(g) /\ InOrder(s) /\ Precedes(g, s) /\ Sent(g) /\ Sent(s)
    BY DEF HubInv, Ordered
  <1>4. /\ rest \in Seq(Event) /\ Len(rest) = Len(s) - 1 /\ e = s[1] /\ e \in Event
        /\ ~e.position => 1 \in NotPositions(s)
        /\ \A j \in NotPositions(rest) : j + 1 \in NotPositions(s) /\ rest[j] = s[j + 1]
        /\ Cardinality(NotPositions(s))
             = Cardinality(NotPositions(rest)) + (IF e.position THEN 0 ELSE 1)
    BY <1>1, <1>2, TailFacts
  <1>5. /\ longer \in Seq(Event)
        /\ \A i \in NotPositions(g) : longer[i] = g[i]
        /\ e.position => NotPositions(longer) = NotPositions(g)
        /\ ~e.position => /\ NotPositions(longer) = NotPositions(g) \cup {Len(g) + 1}
                          /\ longer[Len(g) + 1] = e
        /\ Cardinality(NotPositions(longer))
             = Cardinality(NotPositions(g)) + (IF e.position THEN 0 ELSE 1)
    BY <1>2, <1>4, AppendFacts
  <1>6. /\ e.position \in BOOLEAN /\ \A i \in NotPositions(rest) : i \in Nat /\ i >= 1
        /\ Cardinality(NotPositions(g)) \in Nat /\ Cardinality(NotPositions(rest)) \in Nat
    <2>1. e.position \in BOOLEAN
      BY <1>4, EventType
    <2>2. /\ NotPositions(rest) \subseteq 1 .. Len(rest) /\ Len(rest) \in Nat
          /\ Cardinality(NotPositions(g)) \in Nat /\ Cardinality(NotPositions(rest)) \in Nat
      <3>1. g \in Seq(Event) /\ rest \in Seq(Event)
        BY <1>2, <1>4
      <3>. HIDE DEF rest, g
      <3>2. Len(rest) \in Nat
        BY <3>1
      <3>. QED BY <3>1, <3>2, NotPositionsFinite
    <2>. HIDE DEF rest, e, g, s
    <2>3. \A i \in 1 .. Len(rest) : i \in Nat /\ i >= 1
      BY <2>2
    <2>. QED BY <2>1, <2>2, <2>3
  <1>7. InOrder(longer)
    <2>1. ~e.position => \A i \in NotPositions(g) : g[i].by = e.by => g[i].n <= e.n
      BY <1>3, <1>4 DEF Precedes
    <2>. QED BY <1>2, <1>3, <1>4, <2>1, AppendInOrder
  <1>. HIDE DEF longer, rest, e, s, g
  <1>8. \A i \in NotPositions(longer) :
           \/ i \in NotPositions(g) /\ longer[i] = g[i]
           \/ 1 \in NotPositions(s) /\ longer[i] = s[1]
    BY <1>4, <1>5, <1>6
  <1>9. InOrder(rest)
    <2>1. ASSUME NEW i \in NotPositions(rest), NEW j \in NotPositions(rest), i < j, rest[i].by = rest[j].by
          PROVE  rest[i].n <= rest[j].n
      <3>1. /\ i + 1 \in NotPositions(s) /\ rest[i] = s[i + 1]
            /\ j + 1 \in NotPositions(s) /\ rest[j] = s[j + 1]
        BY <1>4
      <3>2. i + 1 < j + 1
        BY <1>6, <2>1
      <3>. QED BY <1>3, <2>1, <3>1, <3>2 DEF InOrder
    <2>. QED BY <2>1 DEF InOrder
  <1>10. Precedes(longer, rest)
    <2>1. ASSUME NEW i \in NotPositions(longer), NEW j \in NotPositions(rest), longer[i].by = rest[j].by
          PROVE  longer[i].n <= rest[j].n
      <3>1. j + 1 \in NotPositions(s) /\ rest[j] = s[j + 1] /\ 1 < j + 1
        BY <1>4, <1>6
      <3>2. CASE i \in NotPositions(g) /\ longer[i] = g[i]
        BY <1>3, <2>1, <3>1, <3>2 DEF Precedes
      <3>3. CASE 1 \in NotPositions(s) /\ longer[i] = s[1]
        BY <1>3, <2>1, <3>1, <3>3 DEF InOrder
      <3>. QED BY <1>8, <3>2, <3>3
    <2>. QED BY <2>1 DEF Precedes
  <1>11. Sent(longer) /\ Sent(rest)
    BY <1>3, <1>4, <1>8 DEF Sent
  <1>12. /\ got'[c] = longer /\ out'[c] = rest /\ stream'[c] = "written"
         /\ \A d \in Conns : d # c => stream'[d] = stream[d] /\ out'[d] = out[d] /\ got'[d] = got[d]
         /\ stream' \in [Conns -> StreamStates]
         /\ got' \in [Conns -> Seq(Event)] /\ out' \in [Conns -> Seq(Event)]
    BY <1>1, <1>2, <1>4, <1>5 DEF StreamStates
  <1>13. Open(c) /\ Open(c)'
    BY <1>1, <1>12 DEF Open
  <1>14. Cardinality(NotPositions(got'[c])) + Cardinality(NotPositions(out'[c]))
           = Cardinality(NotPositions(got[c])) + Cardinality(NotPositions(out[c]))
    <2>1. Cardinality(NotPositions(longer)) + Cardinality(NotPositions(rest))
            = Cardinality(NotPositions(g)) + Cardinality(NotPositions(s))
      BY <1>4, <1>5, <1>6
    <2>. QED BY <1>12, <2>1 DEF g, s
  <1>15. Len(out'[c]) <= Buffer
    BY <1>2, <1>4, <1>12, RealtimeAssumption
  <1>16. /\ coalesced' \in [Conns -> SUBSET Event] /\ pending' \in [Conns -> SUBSET Event]
         /\ \A x, y \in coalesced'[c] : x.res = y.res => x = y
         /\ \A x \in coalesced'[c] \cup pending'[c] : x.position
    BY <1>1 DEF HubInv, HubTypeOK, RowsKnown, Streams
  <1>17. /\ InOrder(got'[c]) /\ InOrder(out'[c]) /\ Precedes(got'[c], out'[c])
         /\ Sent(got'[c]) /\ Sent(out'[c])
    BY <1>7, <1>9, <1>10, <1>11, <1>12
  <1>. QED BY <1>1, <1>12, <1>13, <1>14, <1>15, <1>16, <1>17, StreamStep

LEMMA StartFlushKept ==
    ASSUME HubInv, NEW c \in Conns, StartFlush(c)
    PROVE  HubInv'
  <1>1. /\ stream[c] = "written" /\ stream' = [stream EXCEPT ![c] = "flushing"]
        /\ pending' = [pending EXCEPT ![c] = coalesced[c]]
        /\ coalesced' = [coalesced EXCEPT ![c] = {}]
        /\ out' = out /\ got' = got
        /\ UNCHANGED <<hub, dropped, pub, announced, offered>>
    BY DEF StartFlush
  <1>2. /\ stream \in [Conns -> StreamStates] /\ got \in [Conns -> Seq(Event)]
        /\ out \in [Conns -> Seq(Event)] /\ Len(out[c]) <= Buffer
        /\ coalesced \in [Conns -> SUBSET Event] /\ pending \in [Conns -> SUBSET Event]
        /\ \A x \in coalesced[c] : x.position
    BY DEF HubInv, HubTypeOK, RowsKnown, Streams, StreamStates
  <1>3. /\ \A d \in Conns : d # c => stream'[d] = stream[d] /\ coalesced'[d] = coalesced[d]
                                     /\ pending'[d] = pending[d]
        /\ stream'[c] = "flushing" /\ coalesced'[c] = {} /\ pending'[c] = coalesced[c]
        /\ stream' \in [Conns -> StreamStates] /\ coalesced' \in [Conns -> SUBSET Event]
        /\ pending' \in [Conns -> SUBSET Event]
    BY <1>1, <1>2 DEF StreamStates
  <1>4. Open(c) /\ Open(c)'
    BY <1>1, <1>3 DEF Open
  <1>5. /\ InOrder(got[c]) /\ InOrder(out[c]) /\ Precedes(got[c], out[c]) /\ Sent(got[c]) /\ Sent(out[c])
    BY DEF HubInv, Ordered
  <1>. QED BY <1>1, <1>2, <1>3, <1>4, <1>5, StreamStep

\* An event that waits replaces the one about the same resource.
LEMMA CoalesceFacts ==
    ASSUME NEW S \in SUBSET Event, NEW e \in Event, e.position,
           \A x, y \in S : x.res = y.res => x = y, \A x \in S : x.position
    PROVE  /\ Coalesce(S, e) \in SUBSET Event
           /\ \A x, y \in Coalesce(S, e) : x.res = y.res => x = y
           /\ \A x \in Coalesce(S, e) : x.position
  BY DEF Coalesce

LEMMA FlushOneKept ==
    ASSUME HubInv, NEW c \in Conns, FlushOne(c)
    PROVE  HubInv'
  <1>1. stream[c] = "flushing" /\ got' = got /\ UNCHANGED <<hub, dropped, pub, announced, offered>>
    BY DEF FlushOne
  <1>2. /\ stream \in [Conns -> StreamStates] /\ got \in [Conns -> Seq(Event)]
        /\ out \in [Conns -> Seq(Event)] /\ Len(out[c]) <= Buffer
        /\ coalesced \in [Conns -> SUBSET Event] /\ pending \in [Conns -> SUBSET Event]
        /\ \A x, y \in coalesced[c] : x.res = y.res => x = y
        /\ \A x \in coalesced[c] \cup pending[c] : x.position
    BY DEF HubInv, HubTypeOK, RowsKnown, Streams, StreamStates
  <1>3. /\ InOrder(got[c]) /\ InOrder(out[c]) /\ Precedes(got[c], out[c]) /\ Sent(got[c]) /\ Sent(out[c])
    BY DEF HubInv, Ordered
  <1>4. CASE stream' = [stream EXCEPT ![c] = "streaming"] /\ UNCHANGED <<out, coalesced, pending>>
    <2>1. /\ \A d \in Conns : d # c => stream'[d] = stream[d]
          /\ stream'[c] = "streaming" /\ stream' \in [Conns -> StreamStates]
      BY <1>2, <1>4 DEF StreamStates
    <2>2. Open(c) /\ Open(c)'
      BY <1>1, <2>1 DEF Open
    <2>. QED BY <1>1, <1>2, <1>3, <1>4, <2>1, <2>2, StreamStep
  <1>5. ASSUME NEW e \in pending[c], Len(out[c]) < Buffer,
               out' = [out EXCEPT ![c] = Append(out[c], e)],
               pending' = [pending EXCEPT ![c] = pending[c] \ {e}],
               UNCHANGED <<coalesced, stream>>
        PROVE  HubInv'
    <2>. DEFINE s == out[c]
                longer == Append(s, e)
    <2>1. e \in Event /\ e.position /\ s \in Seq(Event) /\ Len(s) \in Nat
      BY <1>2
    <2>2. /\ longer \in Seq(Event) /\ Len(longer) = Len(s) + 1
          /\ \A i \in NotPositions(s) : longer[i] = s[i]
          /\ NotPositions(longer) = NotPositions(s)
      BY <2>1, AppendFacts
    <2>. HIDE DEF longer
    <2>3. InOrder(longer) /\ Precedes(got[c], longer) /\ Sent(longer)
      BY <1>3, <2>2 DEF InOrder, Precedes, Sent
    <2>4. /\ \A d \in Conns : d # c => out'[d] = out[d] /\ pending'[d] = pending[d]
          /\ out'[c] = longer /\ out' \in [Conns -> Seq(Event)]
          /\ pending'[c] = pending[c] \ {e} /\ pending' \in [Conns -> SUBSET Event]
          /\ coalesced' = coalesced /\ stream' = stream
      BY <1>2, <1>5, <2>2 DEF longer
    <2>5. Open(c) /\ Open(c)'
      BY <1>1, <2>4 DEF Open
    <2>6. Len(out'[c]) <= Buffer
      BY <1>5, <2>1, <2>2, <2>4, RealtimeAssumption
    <2>7. \A x \in coalesced'[c] \cup pending'[c] : x.position
      BY <1>2, <2>4
    <2>8. NotPositions(got'[c]) = NotPositions(got[c]) /\ NotPositions(out'[c]) = NotPositions(out[c])
      BY <1>1, <2>2, <2>4
    <2>. QED BY <1>1, <1>2, <1>3, <2>3, <2>4, <2>5, <2>6, <2>7, <2>8, StreamStep
  <1>6. ASSUME NEW e \in pending[c],
               coalesced' = [coalesced EXCEPT ![c] = Coalesce(coalesced[c], e)],
               pending' = [pending EXCEPT ![c] = {}],
               stream' = [stream EXCEPT ![c] = "streaming"], out' = out
        PROVE  HubInv'
    <2>. DEFINE waits == Coalesce(coalesced[c], e)
    <2>1. e \in Event /\ e.position
      BY <1>2
    <2>2. /\ waits \in SUBSET Event /\ \A x, y \in waits : x.res = y.res => x = y
          /\ \A x \in waits : x.position
      BY <1>2, <2>1, CoalesceFacts
    <2>. HIDE DEF waits
    <2>3. /\ \A d \in Conns : d # c => /\ stream'[d] = stream[d] /\ coalesced'[d] = coalesced[d]
                                       /\ pending'[d] = pending[d]
          /\ stream'[c] = "streaming" /\ stream' \in [Conns -> StreamStates]
          /\ coalesced'[c] = waits /\ coalesced' \in [Conns -> SUBSET Event]
          /\ pending'[c] = {} /\ pending' \in [Conns -> SUBSET Event]
      BY <1>2, <1>6, <2>2 DEF StreamStates, waits
    <2>4. Open(c) /\ Open(c)'
      BY <1>1, <2>3 DEF Open
    <2>. QED BY <1>1, <1>2, <1>3, <1>6, <2>2, <2>3, <2>4, StreamStep
  <1>. QED BY <1>4, <1>5, <1>6 DEF FlushOne

-----------------------------------------------------------------------------
(* One publisher *)

AtWork == {"calling", "sending", "open", "full"}

\* What was sent is no newer than what its publishers announce after a step of
\* one of them: it goes on with its event, rests, or takes up a newer one.
LEMMA SentKept ==
    ASSUME HubInv, NEW p \in Publishers, NEW r \in PubRows, pub' = [pub EXCEPT ![p] = r],
           announced' \in Nat, announced <= announced',
           r.step \in AtWork =>
              \/ Active(p) /\ r.event.n = pub[p].event.n
              \/ r.event \in Event /\ announced <= r.event.n,
           NEW s \in Seq(Event), Sent(s)
    PROVE  \A i \in NotPositions(s) :
              /\ s[i].n <= announced'
              /\ pub'[s[i].by].step \in AtWork => s[i].n <= pub'[s[i].by].event.n
  <1>1. /\ pub' \in [Publishers -> PubRows] /\ pub'[p] = r
        /\ \A q \in Publishers : q # p => pub'[q] = pub[q]
    BY DEF HubInv, RowsKnown
  <1>2. announced \in Nat
    BY RealtimeAssumption DEF HubInv, HubTypeOK
  <1>3. ASSUME NEW i \in NotPositions(s)
        PROVE  /\ s[i].n <= announced'
               /\ pub'[s[i].by].step \in AtWork => s[i].n <= pub'[s[i].by].event.n
    <2>. DEFINE e == s[i]
    <2>1. e \in Event
      BY NotPositionsFinite
    <2>2. e.n \in Nat /\ e.by \in Publishers
      BY <2>1, EventType
    <2>3. e.n <= announced /\ (Active(e.by) => e.n <= pub[e.by].event.n)
      BY DEF Sent
    <2>. HIDE DEF e
    <2>4. e.n <= announced'
      BY <1>2, <2>2, <2>3
    <2>5. CASE e.by # p
      BY <1>1, <2>2, <2>3, <2>4, <2>5 DEF Active, AtWork, e
    <2>6. ASSUME e.by = p, pub'[p].step \in AtWork
          PROVE  e.n <= pub'[p].event.n
      <3>1. r.step \in AtWork
        BY <1>1, <2>6
      <3>2. CASE Active(p) /\ r.event.n = pub[p].event.n
        BY <1>1, <2>3, <2>6, <3>2
      <3>3. CASE r.event \in Event /\ announced <= r.event.n
        <4>1. r.event.n \in Nat
          BY <3>3, EventType
        <4>. QED BY <1>1, <1>2, <2>2, <2>3, <3>3, <4>1
      <3>. QED BY <3>1, <3>2, <3>3
    <2>7. CASE e.by = p
      <3>1. pub'[p].step \in AtWork => e.n <= pub'[p].event.n
        BY <2>6, <2>7
      <3>. QED BY <2>4, <2>7, <3>1 DEF e
    <2>. QED BY <2>5, <2>7
  <1>. QED BY <1>3

\* A step of a publisher keeps the invariant when it keeps what is said here of
\* its row and of the buffer it sends to.
LEMMA PubStep ==
    ASSUME HubInv, NEW p \in Publishers, NEW r \in PubRows, pub' = [pub EXCEPT ![p] = r],
           UNCHANGED <<stream, hub, pending, got>>,
           announced' \in 0 .. MaxEvents, announced <= announced',
           r.step \in AtWork =>
              /\ r.event \in Event /\ r.event.by = p /\ r.event.n <= announced'
              /\ (Active(p) /\ r.event.n = pub[p].event.n) \/ announced <= r.event.n,
           r.step \in {"open", "full"} => r.to \in Conns /\ stream[r.to] # "absent",
           out' \in [Conns -> Seq(Event)], \A c \in Conns : Len(out'[c]) <= Buffer,
           coalesced' \in [Conns -> SUBSET Event],
           \A c \in Conns : \A e, f \in coalesced'[c] : e.res = f.res => e = f,
           \A c \in Conns : \A e \in coalesced'[c] : e.position,
           dropped' \in [Conns -> Nat], offered' \in [Conns -> Nat],
           \A c \in Conns : stream[c] = "absent" =>
              out'[c] = out[c] /\ dropped'[c] = dropped[c] /\ offered'[c] = offered[c],
           \A c \in Conns : InOrder(out'[c]) /\ Precedes(got[c], out'[c]) /\ Sent(out'[c]),
           EventsAreAccounted'
    PROVE  HubInv'
  <1>0. /\ stream' = stream /\ asked' = asked /\ channels' = channels /\ byChannel' = byChannel
        /\ count' = count /\ pending' = pending /\ got' = got
    BY DEF hub
  <1>1. /\ pub' \in [Publishers -> PubRows] /\ pub'[p] = r
        /\ \A q \in Publishers : q # p => pub'[q] = pub[q]
    BY DEF HubInv, RowsKnown
  <1>2. \A c \in Conns : Open(c)' <=> Open(c)
    BY <1>0 DEF Open
  <1>3. RowsKnown'
    BY <1>0, <1>1 DEF HubInv, RowsKnown
  <1>4. HubTypeOK'
    <2>1. \A c \in Conns :
             /\ out'[c] \in Seq(Event) /\ Len(out'[c]) <= Buffer
             /\ coalesced'[c] \subseteq Event /\ pending'[c] \subseteq Event
             /\ \A e, f \in coalesced'[c] : e.res = f.res => e = f
             /\ got'[c] \in Seq(Event)
      BY <1>0 DEF HubInv, HubTypeOK
    <2>2. \A q \in Publishers :
             /\ pub'[q].step \in {"idle", "calling", "sending", "open", "full", "panicked"}
             /\ pub'[q].todo \in Seq(Channels) /\ pub'[q].targets \subseteq Conns
      BY <1>1 DEF PubRows, PubSteps
    <2>. QED BY <1>0, <2>1, <2>2 DEF HubInv, HubTypeOK
  <1>5. Streams'
    <2>1. ASSUME NEW c \in Conns
          PROVE  /\ ~Open(c)' => channels'[c] = {}
                 /\ stream'[c] = "absent" =>
                       out'[c] = <<>> /\ got'[c] = <<>> /\ offered'[c] = 0 /\ dropped'[c] = 0
                 /\ \A e \in coalesced'[c] \cup pending'[c] : e.position
      <3>1. /\ ~Open(c) => channels[c] = {}
            /\ stream[c] = "absent" =>
                  out[c] = <<>> /\ got[c] = <<>> /\ offered[c] = 0 /\ dropped[c] = 0
            /\ \A e \in pending[c] : e.position
        BY DEF HubInv, Streams
      <3>. QED BY <1>0, <1>2, <3>1
    <2>2. ASSUME NEW q \in Publishers, pub'[q].step \in {"open", "full"}
          PROVE  pub'[q].to \in Conns /\ stream'[pub'[q].to] # "absent"
      <3>1. CASE q = p
        BY <1>0, <1>1, <2>2, <3>1
      <3>2. CASE q # p
        <4>1. pub[q].to \in Conns /\ stream[pub[q].to] # "absent"
          BY <1>1, <2>2, <3>2 DEF HubInv, Streams
        <4>. QED BY <1>0, <1>1, <3>2, <4>1
      <3>. QED BY <3>1, <3>2
    <2>. QED BY <2>1, <2>2 DEF Streams
  <1>6. Finite'
    <2>1. OpenOnes' = OpenOnes
      BY <1>2 DEF OpenOnes
    <2>2. Working' \subseteq Working \cup {p}
      BY <1>1 DEF Working
    <2>3. IsFiniteSet(Working \cup {p})
      BY FS_AddElement DEF HubInv, Finite
    <2>4. IsFiniteSet(Working')
      BY <2>2, <2>3, FS_Subset
    <2>. QED BY <2>1, <2>4 DEF HubInv, Finite
  <1>7. announced \in Nat /\ announced' \in Nat
    BY RealtimeAssumption DEF HubInv, HubTypeOK
  <1>8. ASSUME NEW q \in Publishers, Active(q)'
        PROVE  pub'[q].event \in Event /\ pub'[q].event.by = q /\ pub'[q].event.n <= announced'
    <2>1. CASE q = p
      BY <1>1, <1>8, <2>1 DEF Active, AtWork
    <2>2. CASE q # p
      <3>1. pub[q].event \in Event /\ pub[q].event.by = q /\ pub[q].event.n <= announced
        BY <1>1, <1>8, <2>2 DEF HubInv, Latest, Active
      <3>2. pub[q].event.n \in Nat
        BY <3>1, EventType
      <3>. QED BY <1>1, <1>7, <2>2, <3>1, <3>2
    <2>. QED BY <2>1, <2>2
  <1>9. HubMatchesConnections'
    <2>1. \A u \in Subscribers : OpenOf(u)' = OpenOf(u)
      BY <1>2 DEF OpenOf
    <2>2. /\ \A c \in Conns, k \in Channels : (c \in byChannel[k]) <=> (Open(c) /\ k \in channels[c])
          /\ \A u \in Subscribers : count[u] = Cardinality(OpenOf(u))
      BY DEF HubInv, HubMatchesConnections, OpenOf
    <2>3. \A u \in Subscribers : count'[u] = Cardinality(OpenOf(u)')
      BY <1>0, <2>1, <2>2
    <2>4. \A c \in Conns, k \in Channels : (c \in byChannel'[k]) <=> (Open(c)' /\ k \in channels'[c])
      BY <1>0, <1>2, <2>2
    <2>. QED BY <2>3, <2>4 DEF HubMatchesConnections, OpenOf
  <1>10. ASSUME NEW c \in Conns
         PROVE  /\ InOrder(got'[c]) /\ InOrder(out'[c]) /\ Precedes(got'[c], out'[c])
                /\ \A i \in NotPositions(got'[c]) :
                      /\ got'[c][i].n <= announced'
                      /\ pub'[got'[c][i].by].step \in AtWork => got'[c][i].n <= pub'[got'[c][i].by].event.n
                /\ \A i \in NotPositions(out'[c]) :
                      /\ out'[c][i].n <= announced'
                      /\ pub'[out'[c][i].by].step \in AtWork => out'[c][i].n <= pub'[out'[c][i].by].event.n
    <2>1. InOrder(got[c]) /\ Sent(got[c]) /\ got[c] \in Seq(Event)
      BY DEF HubInv, Ordered, HubTypeOK
    <2>2. Sent(out'[c]) /\ out'[c] \in Seq(Event)
      OBVIOUS
    <2>3. \A i \in NotPositions(got[c]) :
             /\ got[c][i].n <= announced'
             /\ pub'[got[c][i].by].step \in AtWork => got[c][i].n <= pub'[got[c][i].by].event.n
      BY <1>7, <2>1, SentKept
    <2>4. \A i \in NotPositions(out'[c]) :
             /\ out'[c][i].n <= announced'
             /\ pub'[out'[c][i].by].step \in AtWork => out'[c][i].n <= pub'[out'[c][i].by].event.n
      BY <1>7, <2>2, SentKept
    <2>5. InOrder(out'[c]) /\ Precedes(got[c], out'[c])
      OBVIOUS
    <2>. QED BY <1>0, <2>1, <2>3, <2>4, <2>5
  <1>11. Latest'
    BY <1>8 DEF Latest
  <1>12. Ordered'
    BY <1>10 DEF Ordered, Sent, Active, AtWork
  <1>. QED BY <1>3, <1>4, <1>5, <1>6, <1>9, <1>11, <1>12 DEF HubInv

LEMMA LosingFinite ==
    ASSUME HubInv, NEW c
    PROVE  IsFiniteSet(Losing(c)) /\ Cardinality(Losing(c)) \in Nat
  <1>1. Losing(c) \subseteq Working
    BY DEF Losing, Working
  <1>. QED BY <1>1, FS_Subset, FS_CardinalityType DEF HubInv, Finite

\* A step that only moves a publisher on, and neither finds a buffer full nor
\* has found one.
LEMMA RowStep ==
    ASSUME HubInv, NEW p \in Publishers, NEW r \in PubRows, pub' = [pub EXCEPT ![p] = r],
           UNCHANGED <<stream, hub, pending, got, offered, buffer>>,
           announced' \in 0 .. MaxEvents, announced <= announced',
           r.step \in AtWork =>
              /\ r.event \in Event /\ r.event.by = p /\ r.event.n <= announced'
              /\ (Active(p) /\ r.event.n = pub[p].event.n) \/ announced <= r.event.n,
           r.step = "open" => r.to \in Conns /\ stream[r.to] # "absent",
           pub[p].step # "full", r.step # "full"
    PROVE  HubInv'
  <1>1. /\ stream' = stream /\ out' = out /\ coalesced' = coalesced /\ dropped' = dropped
        /\ offered' = offered /\ got' = got
    BY DEF buffer
  <1>2. /\ pub'[p] = r /\ \A q \in Publishers : q # p => pub'[q] = pub[q]
    BY DEF HubInv, RowsKnown
  <1>3. \A c \in Conns : Losing(c)' = Losing(c)
    BY <1>2 DEF Losing
  <1>4. EventsAreAccounted'
    BY <1>1, <1>3 DEF HubInv, EventsAreAccounted, Open
  <1>5. /\ out' \in [Conns -> Seq(Event)] /\ \A c \in Conns : Len(out'[c]) <= Buffer
        /\ coalesced' \in [Conns -> SUBSET Event]
        /\ \A c \in Conns : \A e, f \in coalesced'[c] : e.res = f.res => e = f
        /\ dropped' \in [Conns -> Nat] /\ offered' \in [Conns -> Nat]
    BY <1>1 DEF HubInv, HubTypeOK, RowsKnown
  <1>6. \A c \in Conns : \A e \in coalesced'[c] : e.position
    BY <1>1 DEF HubInv, Streams
  <1>7. \A c \in Conns : InOrder(out'[c]) /\ Precedes(got[c], out'[c]) /\ Sent(out'[c])
    BY <1>1 DEF HubInv, Ordered
  <1>8. UNCHANGED <<stream, hub, pending, got>>
    OBVIOUS
  <1>9. r.step \in {"open", "full"} => r.to \in Conns /\ stream[r.to] # "absent"
    OBVIOUS
  <1>. QED BY <1>1, <1>4, <1>5, <1>6, <1>7, <1>8, <1>9, PubStep

LEMMA PubRow ==
    ASSUME HubInv, NEW p \in Publishers
    PROVE  /\ pub \in [Publishers -> PubRows] /\ pub[p] \in PubRows
           /\ pub[p].step \in PubSteps /\ pub[p].todo \in Seq(Channels)
           /\ pub[p].targets \in SUBSET Conns /\ pub[p].to \in Conns \cup {<<>>}
           /\ pub[p].event \in Event \cup {<<>>}
           /\ Active(p) => pub[p].event \in Event /\ pub[p].event.by = p /\ pub[p].event.n <= announced
           /\ announced \in 0 .. MaxEvents /\ announced \in Nat /\ MaxEvents \in Nat
           /\ pub[p] = [step |-> pub[p].step, todo |-> pub[p].todo, event |-> pub[p].event,
                        targets |-> pub[p].targets, to |-> pub[p].to]
  <1>1. pub \in [Publishers -> PubRows] /\ announced \in 0 .. MaxEvents /\ MaxEvents \in Nat
    BY RealtimeAssumption DEF HubInv, HubTypeOK, RowsKnown
  <1>2. pub[p] \in PubRows
    BY <1>1
  <1>3. Active(p) => pub[p].event \in Event /\ pub[p].event.by = p /\ pub[p].event.n <= announced
    BY DEF HubInv, Latest
  <1>. QED BY <1>1, <1>2, <1>3 DEF PubRows

LEMMA AudienceType ==
    ASSUME NEW kind \in Announcements, NEW todo \in Audience[kind]
    PROVE  todo \in Seq(Channels)
  <1>1. <<"job", "user", "driver">> \in Seq(Channels) /\ <<"job", "user">> \in Seq(Channels)
    BY DEF Channels
  <1>2. <<"driver", "job">> \in Seq(Channels) /\ <<"job", "driver", "user">> \in Seq(Channels)
    BY DEF Channels
  <1>3. <<"driver">> \in Seq(Channels)
    BY DEF Channels
  <1>4. kind \in {"changed", "assigned", "accepted", "moved"}
    BY DEF Announcements, Audience
  <1>5. CASE kind = "changed"
    BY <1>1, <1>5 DEF Audience
  <1>6. CASE kind = "assigned"
    BY <1>2, <1>6 DEF Audience
  <1>7. CASE kind = "accepted"
    BY <1>2, <1>7 DEF Audience
  <1>8. CASE kind = "moved"
    BY <1>2, <1>3, <1>8 DEF Audience
  <1>. QED BY <1>4, <1>5, <1>6, <1>7, <1>8

LEMMA AnnounceKept ==
    ASSUME HubInv, NEW p \in Publishers, NEW kind \in Kinds, Announce(p, kind)
    PROVE  HubInv'
  <1>1. PICK todo \in Audience[kind] :
           pub' = [pub EXCEPT ![p].step = "calling", ![p].todo = todo,
                              ![p].event = Envelope(p, kind)]
    BY DEF Announce
  <1>2. /\ pub[p].step = "idle" /\ announced < MaxEvents /\ announced' = announced + 1
        /\ UNCHANGED <<stream, hub, pending, got, offered, buffer>>
    BY DEF Announce
  <1>. DEFINE e == Envelope(p, kind)
              r == [pub[p] EXCEPT !.step = "calling", !.todo = todo, !.event = e]
  <1>3. todo \in Seq(Channels)
    BY AudienceType, RealtimeAssumption
  <1>4. announced \in Nat /\ MaxEvents \in Nat
    BY PubRow
  <1>5. e \in Event /\ e.by = p /\ e.n = announced + 1
    BY <1>2, <1>4 DEF Envelope, Event, Resources
  <1>6. pub' = [pub EXCEPT ![p] = r]
    BY <1>1, PubRow
  <1>. HIDE DEF e
  <1>7. r \in PubRows /\ r.step = "calling" /\ r.event = e
    <2>1. pub[p] \in PubRows
      BY PubRow
    <2>. QED BY <1>3, <1>5, <2>1 DEF PubRows, PubSteps
  <1>. HIDE DEF r
  <1>9. announced' \in 0 .. MaxEvents /\ announced <= announced' /\ announced <= e.n /\ e.n <= announced'
    BY <1>2, <1>4, <1>5
  <1>. QED BY <1>2, <1>5, <1>6, <1>7, <1>9, RowStep

LEMMA PublishKept ==
    ASSUME HubInv, NEW p \in Publishers, Publish(p)
    PROVE  HubInv'
  <1>. DEFINE k == Head(pub[p].todo)
              x == IF k = "driver" /\ pub[p].event.position THEN "driver" ELSE "job"
              e == [pub[p].event EXCEPT !.res = x]
              r == [step |-> "sending", todo |-> Tail(pub[p].todo), event |-> e,
                    targets |-> byChannel[k], to |-> pub[p].to]
  <1>1. /\ pub[p].step = "calling" /\ pub[p].todo # <<>> /\ announced' = announced
        /\ UNCHANGED <<stream, hub, pending, got, offered, buffer>>
        /\ pub' = [pub EXCEPT ![p].step = "sending", ![p].targets = byChannel[k],
                              ![p].todo = Tail(@), ![p].event.res = x]
    BY DEF Publish
  <1>2. Active(p)
    BY <1>1 DEF Active
  <1>3. /\ pub[p].event \in Event /\ pub[p].event.by = p /\ pub[p].event.n <= announced
        /\ pub[p].todo \in Seq(Channels) /\ pub[p].to \in Conns \cup {<<>>}
        /\ announced \in 0 .. MaxEvents /\ announced \in Nat
        /\ pub \in [Publishers -> PubRows]
        /\ pub[p] = [step |-> pub[p].step, todo |-> pub[p].todo, event |-> pub[p].event,
                     targets |-> pub[p].targets, to |-> pub[p].to]
    BY <1>2, PubRow
  <1>4. x \in Resources
    BY DEF Resources
  <1>5. k \in Channels /\ Tail(pub[p].todo) \in Seq(Channels)
    BY <1>1, <1>3
  <1>6. byChannel[k] \in SUBSET Conns
    BY <1>5 DEF HubInv, HubTypeOK
  <1>. HIDE DEF x, k
  <1>7. e \in Event /\ e.by = p /\ e.n = pub[p].event.n
    BY <1>3, <1>4 DEF Event
  <1>8. pub' = [pub EXCEPT ![p] = r]
    BY <1>1, <1>3
  <1>. HIDE DEF e
  <1>9. r \in PubRows
    BY <1>3, <1>5, <1>6, <1>7 DEF PubRows, PubSteps
  <1>10. r.step = "sending" /\ r.event = e
    OBVIOUS
  <1>. HIDE DEF r
  <1>. QED BY <1>1, <1>2, <1>3, <1>7, <1>8, <1>9, <1>10, RowStep

LEMMA PublishEndsKept ==
    ASSUME HubInv, NEW p \in Publishers, PublishEnds(p)
    PROVE  HubInv'
  <1>1. /\ pub[p].step = "sending" /\ announced' = announced
        /\ UNCHANGED <<stream, hub, pending, got, offered, buffer>>
        /\ pub' = [pub EXCEPT ![p] = IF pub[p].todo = <<>> THEN Quiet
                                     ELSE [pub[p] EXCEPT !.step = "calling"]]
    BY DEF PublishEnds
  <1>2. Active(p)
    BY <1>1 DEF Active
  <1>3. /\ pub[p].event \in Event /\ pub[p].event.by = p /\ pub[p].event.n <= announced
        /\ announced \in 0 .. MaxEvents /\ announced \in Nat /\ pub[p] \in PubRows
    BY <1>2, PubRow
  <1>4. CASE pub[p].todo = <<>>
    <2>1. Quiet \in PubRows /\ Quiet.step = "idle"
      BY DEF Quiet, PubRows, PubSteps
    <2>2. pub' = [pub EXCEPT ![p] = Quiet]
      BY <1>1, <1>4
    <2>3. Quiet.step \notin AtWork /\ Quiet.step # "open" /\ Quiet.step # "full"
      BY <2>1 DEF AtWork
    <2>4. pub[p].step # "full" /\ announced' \in 0 .. MaxEvents /\ announced <= announced'
      BY <1>1, <1>3
    <2>. QED BY <1>1, <2>1, <2>2, <2>3, <2>4, RowStep
  <1>5. CASE pub[p].todo # <<>>
    <2>. DEFINE r == [pub[p] EXCEPT !.step = "calling"]
    <2>1. r \in PubRows /\ r.step = "calling" /\ r.event = pub[p].event
      BY <1>3 DEF PubRows, PubSteps
    <2>2. pub' = [pub EXCEPT ![p] = r]
      BY <1>1, <1>5
    <2>. HIDE DEF r
    <2>3. /\ pub[p].step # "full" /\ announced' \in 0 .. MaxEvents /\ announced <= announced'
          /\ r.step # "full" /\ r.step # "open"
      BY <1>1, <1>3, <2>1
    <2>4. /\ r.event \in Event /\ r.event.by = p /\ r.event.n <= announced'
          /\ r.event.n = pub[p].event.n
      BY <1>1, <1>3, <2>1
    <2>. QED BY <1>1, <1>2, <2>1, <2>2, <2>3, <2>4, RowStep
  <1>. QED BY <1>4, <1>5

LEMMA FindOpenKept ==
    ASSUME HubInv, NEW p \in Publishers, FindOpen(p)
    PROVE  HubInv'
  <1>1. PICK c \in pub[p].targets :
           pub' = [pub EXCEPT ![p].targets = @ \ {c},
                              ![p].step = IF Open(c) THEN "open" ELSE "sending",
                              ![p].to = IF Open(c) THEN c ELSE <<>>]
    BY DEF FindOpen
  <1>2. /\ pub[p].step = "sending" /\ announced' = announced
        /\ UNCHANGED <<stream, hub, pending, got, offered, buffer>>
    BY DEF FindOpen
  <1>3. Active(p)
    BY <1>2 DEF Active
  <1>4. /\ pub[p].event \in Event /\ pub[p].event.by = p /\ pub[p].event.n <= announced
        /\ announced \in 0 .. MaxEvents /\ announced \in Nat /\ pub[p] \in PubRows
        /\ pub[p].targets \in SUBSET Conns /\ pub \in [Publishers -> PubRows]
        /\ pub[p].todo \in Seq(Channels)
        /\ pub[p] = [step |-> pub[p].step, todo |-> pub[p].todo, event |-> pub[p].event,
                     targets |-> pub[p].targets, to |-> pub[p].to]
    BY <1>3, PubRow
  <1>. DEFINE found == IF Open(c) THEN "open" ELSE "sending"
              to == IF Open(c) THEN c ELSE <<>>
              left == pub[p].targets \ {c}
              r == [pub[p] EXCEPT !.targets = left, !.step = found, !.to = to]
  <1>5. /\ c \in Conns /\ left \in SUBSET Conns /\ found \in {"open", "sending"}
        /\ to \in Conns \cup {<<>>}
        /\ found = "open" => to = c /\ stream[c] # "absent"
    BY <1>4 DEF Open
  <1>6. pub' = [pub EXCEPT ![p] = r]
    BY <1>1, <1>4
  <1>. HIDE DEF found, to, left
  <1>7. /\ r \in PubRows /\ r.step = found /\ r.event = pub[p].event /\ r.to = to
    BY <1>4, <1>5 DEF PubRows, PubSteps
  <1>. HIDE DEF r
  <1>8. /\ pub[p].step # "full" /\ announced' \in 0 .. MaxEvents /\ announced <= announced'
        /\ r.step # "full" /\ (r.step = "open" => r.to \in Conns /\ stream[r.to] # "absent")
    BY <1>2, <1>4, <1>5, <1>7
  <1>9. /\ r.event \in Event /\ r.event.by = p /\ r.event.n <= announced'
        /\ r.event.n = pub[p].event.n
    BY <1>2, <1>4, <1>7
  <1>. QED BY <1>2, <1>3, <1>6, <1>7, <1>8, <1>9, RowStep

\* A publisher that holds an event for a connection.
LEMMA Holding ==
    ASSUME HubInv, NEW p \in Publishers, pub[p].step \in {"open", "full"}
    PROVE  /\ Active(p) /\ pub[p].to \in Conns /\ stream[pub[p].to] # "absent"
           /\ pub[p].event \in Event /\ pub[p].event.by = p /\ pub[p].event.n <= announced
           /\ pub[p].event.position \in BOOLEAN /\ pub[p].event.n \in Nat
           /\ announced \in 0 .. MaxEvents /\ announced \in Nat
  <1>1. Active(p)
    BY DEF Active
  <1>2. /\ pub[p].event \in Event /\ pub[p].event.by = p /\ pub[p].event.n <= announced
        /\ announced \in 0 .. MaxEvents /\ announced \in Nat
    BY <1>1, PubRow
  <1>3. pub[p].to \in Conns /\ stream[pub[p].to] # "absent"
    BY DEF HubInv, Streams
  <1>. QED BY <1>1, <1>2, <1>3, EventType

\* It goes on to the next connection.
LEMMA SentOn ==
    ASSUME HubInv, NEW p \in Publishers,
           pub' = [pub EXCEPT ![p].step = "sending", ![p].to = <<>>]
    PROVE  \E r \in PubRows :
              /\ pub' = [pub EXCEPT ![p] = r] /\ r.step = "sending" /\ r.event = pub[p].event
              /\ pub'[p] = r /\ \A q \in Publishers : q # p => pub'[q] = pub[q]
  <1>. DEFINE r == [pub[p] EXCEPT !.step = "sending", !.to = <<>>]
  <1>1. pub \in [Publishers -> PubRows] /\ pub[p] \in PubRows
    BY PubRow
  <1>2. pub' = [pub EXCEPT ![p] = r]
    BY <1>1
  <1>3. r \in PubRows /\ r.step = "sending" /\ r.event = pub[p].event
    BY <1>1 DEF PubRows, PubSteps
  <1>. HIDE DEF r
  <1>. QED BY <1>1, <1>2, <1>3

LEMMA PanicKept ==
    ASSUME HubInv, NEW p \in Publishers, pub[p].step = "open",
           pub' = [pub EXCEPT ![p] = [Quiet EXCEPT !.step = "panicked"]],
           UNCHANGED <<stream, hub, pending, got, offered, buffer>>, announced' = announced
    PROVE  HubInv'
  <1>. DEFINE r == [Quiet EXCEPT !.step = "panicked"]
  <1>1. r \in PubRows /\ r.step = "panicked"
    <2>1. Quiet \in PubRows
      BY DEF Quiet, PubRows, PubSteps
    <2>. QED BY <2>1 DEF PubRows, PubSteps
  <1>2. pub' = [pub EXCEPT ![p] = r]
    OBVIOUS
  <1>. HIDE DEF r
  <1>3. /\ pub[p].step # "full" /\ announced' \in 0 .. MaxEvents /\ announced <= announced'
        /\ r.step # "full" /\ r.step # "open" /\ r.step \notin AtWork
    BY <1>1, Holding DEF AtWork
  <1>. QED BY <1>1, <1>2, <1>3, RowStep

LEMMA AppendedKept ==
    ASSUME HubInv, NEW p \in Publishers, NEW c, c = pub[p].to, pub[p].step = "open",
           NEW e, e = pub[p].event, Len(out[c]) < Buffer,
           offered' = [offered EXCEPT ![c] = IF e.position THEN offered[c] ELSE offered[c] + 1],
           out' = [out EXCEPT ![c] = Append(out[c], e)],
           pub' = [pub EXCEPT ![p].step = "sending", ![p].to = <<>>],
           UNCHANGED <<stream, hub, coalesced, dropped, pending, announced, got>>
    PROVE  HubInv'
  <1>. DEFINE s == out[c]
              longer == Append(s, e)
  <1>1. /\ Active(p) /\ c \in Conns /\ stream[c] # "absent" /\ e \in Event /\ e.by = p
        /\ e.n <= announced /\ e.position \in BOOLEAN /\ e.n \in Nat
        /\ announced \in 0 .. MaxEvents /\ announced \in Nat
    BY Holding
  <1>2. PICK r \in PubRows :
           /\ pub' = [pub EXCEPT ![p] = r] /\ r.step = "sending" /\ r.event = e
           /\ pub'[p] = r /\ \A q \in Publishers : q # p => pub'[q] = pub[q]
    BY SentOn
  <1>3. /\ s \in Seq(Event) /\ Len(s) \in Nat /\ out \in [Conns -> Seq(Event)]
        /\ offered \in [Conns -> Nat] /\ got[c] \in Seq(Event)
        /\ InOrder(got[c]) /\ InOrder(s) /\ Precedes(got[c], s) /\ Sent(got[c]) /\ Sent(s)
    BY <1>1 DEF HubInv, HubTypeOK, RowsKnown, Ordered
  <1>4. /\ longer \in Seq(Event) /\ Len(longer) = Len(s) + 1
        /\ \A i \in NotPositions(s) : longer[i] = s[i]
        /\ e.position => NotPositions(longer) = NotPositions(s)
        /\ ~e.position => /\ NotPositions(longer) = NotPositions(s) \cup {Len(s) + 1}
                          /\ longer[Len(s) + 1] = e
        /\ Cardinality(NotPositions(longer))
             = Cardinality(NotPositions(s)) + (IF e.position THEN 0 ELSE 1)
    BY <1>1, <1>3, AppendFacts
  <1>5. InOrder(longer)
    <2>1. \A i \in NotPositions(s) : s[i].by = e.by => s[i].n <= e.n
      BY <1>1, <1>3 DEF Sent
    <2>. QED BY <1>1, <1>3, <2>1, AppendInOrder
  <1>. HIDE DEF longer
  <1>6. \A j \in NotPositions(longer) :
           (j \in NotPositions(s) /\ longer[j] = s[j]) \/ longer[j] = e
    BY <1>1, <1>4
  <1>7. Precedes(got[c], longer)
    <2>1. ASSUME NEW i \in NotPositions(got[c]), NEW j \in NotPositions(longer),
                 got[c][i].by = longer[j].by
          PROVE  got[c][i].n <= longer[j].n
      <3>1. CASE j \in NotPositions(s) /\ longer[j] = s[j]
        BY <1>3, <2>1, <3>1 DEF Precedes
      <3>2. CASE longer[j] = e
        BY <1>1, <1>3, <2>1, <3>2 DEF Sent
      <3>. QED BY <1>6, <3>1, <3>2
    <2>. QED BY <2>1 DEF Precedes
  <1>8. Sent(longer)
    <2>1. ASSUME NEW i \in NotPositions(longer)
          PROVE  /\ longer[i].n <= announced
                 /\ Active(longer[i].by) => longer[i].n <= pub[longer[i].by].event.n
      <3>1. CASE i \in NotPositions(s) /\ longer[i] = s[i]
        BY <1>3, <3>1 DEF Sent
      <3>2. CASE longer[i] = e
        <4>1. e.n <= pub[e.by].event.n
          BY <1>1
        <4>. QED BY <1>1, <3>2, <4>1
      <3>. QED BY <1>6, <3>1, <3>2
    <2>. QED BY <2>1 DEF Sent
  <1>9. /\ out' \in [Conns -> Seq(Event)] /\ out'[c] = longer
        /\ \A d \in Conns : d # c => out'[d] = out[d] /\ offered'[d] = offered[d]
        /\ offered'[c] = IF e.position THEN offered[c] ELSE offered[c] + 1
        /\ offered' \in [Conns -> Nat]
    <2>1. out' = [out EXCEPT ![c] = longer]
      BY DEF longer
    <2>. DEFINE n == IF e.position THEN offered[c] ELSE offered[c] + 1
    <2>2. n \in Nat /\ offered' = [offered EXCEPT ![c] = n]
      BY <1>1, <1>3
    <2>. HIDE DEF longer, n
    <2>3. out' \in [Conns -> Seq(Event)] /\ out'[c] = longer /\ \A d \in Conns : d # c => out'[d] = out[d]
      BY ONLY <1>1, <1>3, <1>4, <2>1
    <2>4. offered' \in [Conns -> Nat] /\ offered'[c] = n /\ \A d \in Conns : d # c => offered'[d] = offered[d]
      BY ONLY <1>1, <1>3, <2>2
    <2>. QED BY <2>3, <2>4 DEF n
  <1>10. \A d \in Conns : Len(out'[d]) <= Buffer
    <2>1. Len(longer) <= Buffer
      BY <1>3, <1>4, RealtimeAssumption
    <2>. QED BY <1>9, <2>1 DEF HubInv, HubTypeOK
  <1>11. \A d \in Conns : InOrder(out'[d]) /\ Precedes(got[d], out'[d]) /\ Sent(out'[d])
    <2>1. \A d \in Conns : InOrder(out[d]) /\ Precedes(got[d], out[d]) /\ Sent(out[d])
      BY DEF HubInv, Ordered
    <2>. QED BY <1>5, <1>7, <1>8, <1>9, <2>1
  <1>12. EventsAreAccounted'
    <2>1. ASSUME NEW d \in Conns, Open(d)'
          PROVE  offered'[d] = Cardinality(NotPositions(got'[d])) + Cardinality(NotPositions(out'[d]))
                               + dropped'[d] + Cardinality(Losing(d)')
      <3>1. Losing(d)' = Losing(d)
        BY <1>2 DEF Losing
      <3>2. offered[d] = Cardinality(NotPositions(got[d])) + Cardinality(NotPositions(out[d]))
                         + dropped[d] + Cardinality(Losing(d))
        BY <2>1 DEF HubInv, EventsAreAccounted, Open
      <3>3. got' = got /\ dropped' = dropped
        OBVIOUS
      <3>4. CASE d # c
        BY <1>9, <3>1, <3>2, <3>3, <3>4
      <3>5. CASE d = c
        <4>1. /\ Cardinality(NotPositions(got[c])) \in Nat /\ Cardinality(NotPositions(s)) \in Nat
              /\ Cardinality(Losing(c)) \in Nat /\ dropped[c] \in Nat
          BY <1>1, <1>3, NotPositionsFinite, LosingFinite DEF HubInv, HubTypeOK
        <4>2. offered'[c] = Cardinality(NotPositions(got[c])) + Cardinality(NotPositions(longer))
                            + dropped[c] + Cardinality(Losing(c))
          <5>1. offered[c] = Cardinality(NotPositions(got[c])) + Cardinality(NotPositions(s))
                             + dropped[c] + Cardinality(Losing(c))
            BY <3>2, <3>5
          <5>2. offered'[c] = offered[c] + (IF e.position THEN 0 ELSE 1)
            BY <1>1, <1>3, <1>9
          <5>. QED BY <1>4, <4>1, <5>1, <5>2
        <4>. QED BY <1>9, <3>1, <3>3, <3>5, <4>2
      <3>. QED BY <3>4, <3>5
    <2>. QED BY <2>1 DEF EventsAreAccounted
  <1>13. /\ coalesced' \in [Conns -> SUBSET Event] /\ dropped' \in [Conns -> Nat]
         /\ \A d \in Conns : \A x, y \in coalesced'[d] : x.res = y.res => x = y
         /\ \A d \in Conns : \A x \in coalesced'[d] : x.position
    BY DEF HubInv, HubTypeOK, RowsKnown, Streams
  <1>14. \A d \in Conns : stream[d] = "absent" =>
            out'[d] = out[d] /\ dropped'[d] = dropped[d] /\ offered'[d] = offered[d]
    BY <1>1, <1>9
  <1>15. announced' \in 0 .. MaxEvents /\ announced <= announced' /\ e.n <= announced'
    BY <1>1
  <1>16. UNCHANGED <<stream, hub, pending, got>> /\ r.step \notin {"open", "full"}
    BY <1>2
  <1>17. /\ r.event \in Event /\ r.event.by = p /\ r.event.n <= announced'
         /\ r.event.n = pub[p].event.n
    BY <1>1, <1>2, <1>15
  <1>18. r.step \in AtWork =>
            /\ r.event \in Event /\ r.event.by = p /\ r.event.n <= announced'
            /\ (Active(p) /\ r.event.n = pub[p].event.n) \/ announced <= r.event.n
    BY <1>1, <1>17
  <1>19. r.step \in {"open", "full"} => r.to \in Conns /\ stream[r.to] # "absent"
    BY <1>16
  <1>20. pub' = [pub EXCEPT ![p] = r] /\ out' \in [Conns -> Seq(Event)] /\ offered' \in [Conns -> Nat]
    BY <1>2, <1>9
  <1>. HIDE DEF s
  <1>. QED BY ONLY HubInv, <1>10, <1>11, <1>12, <1>13, <1>14, <1>15, <1>16, <1>18, <1>19, <1>20, PubStep

\* Finding a buffer full, and leaving it, moves a publisher in and out of those
\* who may have to count a loss, and nobody else.
LEMMA LosingMoves ==
    ASSUME HubInv, NEW p \in Publishers, NEW c \in Conns, c = pub[p].to, ~pub[p].event.position,
           pub'[p].to = c, pub'[p].event = pub[p].event,
           pub[p].step # "full", pub'[p].step = "full",
           \A q \in Publishers : q # p => pub'[q] = pub[q]
    PROVE  /\ Cardinality(Losing(c)') = Cardinality(Losing(c)) + 1
           /\ \A d \in Conns : d # c => Losing(d)' = Losing(d)
  <1>1. Losing(c)' = Losing(c) \cup {p} /\ p \notin Losing(c)
    BY DEF Losing
  <1>2. IsFiniteSet(Losing(c))
    BY LosingFinite
  <1>3. Cardinality(Losing(c) \cup {p}) = Cardinality(Losing(c)) + 1
    BY <1>1, <1>2, FS_AddElement
  <1>4. \A d \in Conns : d # c => Losing(d)' = Losing(d)
    BY DEF Losing
  <1>. QED BY <1>1, <1>3, <1>4

LEMMA LosingLeaves ==
    ASSUME HubInv, NEW p \in Publishers, NEW c \in Conns, c = pub[p].to, ~pub[p].event.position,
           pub[p].step = "full", pub'[p].step # "full",
           \A q \in Publishers : q # p => pub'[q] = pub[q]
    PROVE  /\ Cardinality(Losing(c)') = Cardinality(Losing(c)) - 1
           /\ \A d \in Conns : d # c => Losing(d)' = Losing(d)
  <1>1. Losing(c)' = Losing(c) \ {p} /\ p \in Losing(c)
    BY DEF Losing
  <1>2. IsFiniteSet(Losing(c))
    BY LosingFinite
  <1>3. Cardinality(Losing(c) \ {p}) = Cardinality(Losing(c)) - 1
    BY <1>1, <1>2, FS_RemoveElement
  <1>4. \A d \in Conns : d # c => Losing(d)' = Losing(d)
    BY DEF Losing
  <1>. QED BY <1>1, <1>3, <1>4

LEMMA FullKept ==
    ASSUME HubInv, NEW p \in Publishers, NEW c, c = pub[p].to, pub[p].step = "open",
           NEW e, e = pub[p].event,
           offered' = [offered EXCEPT ![c] = IF e.position THEN offered[c] ELSE offered[c] + 1],
           pub' = [pub EXCEPT ![p].step = "full"],
           UNCHANGED <<stream, hub, out, coalesced, dropped, pending, announced, got>>
    PROVE  HubInv'
  <1>. DEFINE r == [pub[p] EXCEPT !.step = "full"]
  <1>1. /\ Active(p) /\ c \in Conns /\ stream[c] # "absent" /\ e \in Event /\ e.by = p
        /\ e.n <= announced /\ e.position \in BOOLEAN /\ e.n \in Nat
        /\ announced \in 0 .. MaxEvents /\ announced \in Nat
    BY Holding
  <1>2. /\ pub' = [pub EXCEPT ![p] = r] /\ r \in PubRows /\ pub \in [Publishers -> PubRows]
        /\ r.step = "full" /\ r.event = e /\ r.to = c
    <2>1. pub \in [Publishers -> PubRows] /\ pub[p] \in PubRows
      BY PubRow
    <2>. QED BY <2>1 DEF PubRows, PubSteps
  <1>. HIDE DEF r
  <1>3. pub'[p] = r /\ \A q \in Publishers : q # p => pub'[q] = pub[q]
    BY <1>2
  <1>4. /\ offered \in [Conns -> Nat] /\ offered' \in [Conns -> Nat]
        /\ \A d \in Conns : d # c => offered'[d] = offered[d]
        /\ offered'[c] = offered[c] + (IF e.position THEN 0 ELSE 1)
    <2>1. offered \in [Conns -> Nat]
      BY DEF HubInv, HubTypeOK
    <2>2. offered[c] \in Nat
      BY <1>1, <2>1
    <2>. QED BY <1>1, <2>1, <2>2
  <1>5. EventsAreAccounted'
    <2>1. ASSUME NEW d \in Conns, Open(d)'
          PROVE  offered'[d] = Cardinality(NotPositions(got'[d])) + Cardinality(NotPositions(out'[d]))
                               + dropped'[d] + Cardinality(Losing(d)')
      <3>1. offered[d] = Cardinality(NotPositions(got[d])) + Cardinality(NotPositions(out[d]))
                         + dropped[d] + Cardinality(Losing(d))
        BY <2>1 DEF HubInv, EventsAreAccounted, Open
      <3>2. got' = got /\ dropped' = dropped /\ out' = out
        OBVIOUS
      <3>3. CASE e.position
        <4>1. Losing(d)' = Losing(d)
          BY <1>2, <1>3, <3>3 DEF Losing
        <4>2. offered'[d] = offered[d]
          BY <1>1, <1>4, <3>3
        <4>. QED BY <3>1, <3>2, <4>1, <4>2
      <3>4. CASE ~e.position /\ d # c
        <4>1. Losing(d)' = Losing(d)
          BY <1>1, <1>2, <1>3, <3>4, LosingMoves
        <4>. QED BY <1>4, <3>1, <3>2, <3>4, <4>1
      <3>5. CASE ~e.position /\ d = c
        <4>1. Cardinality(Losing(c)') = Cardinality(Losing(c)) + 1
          BY <1>1, <1>2, <1>3, <3>5, LosingMoves
        <4>2. /\ Cardinality(NotPositions(got[c])) \in Nat /\ Cardinality(NotPositions(out[c])) \in Nat
              /\ Cardinality(Losing(c)) \in Nat /\ dropped[c] \in Nat
          BY <1>1, NotPositionsFinite, LosingFinite DEF HubInv, HubTypeOK
        <4>3. offered'[c] = offered[c] + 1
          BY <1>4, <3>5
        <4>. QED BY <3>1, <3>2, <3>5, <4>1, <4>2, <4>3
      <3>. QED BY <1>1, <3>3, <3>4, <3>5
    <2>. QED BY <2>1 DEF EventsAreAccounted
  <1>6. /\ coalesced' \in [Conns -> SUBSET Event] /\ dropped' \in [Conns -> Nat]
        /\ out' \in [Conns -> Seq(Event)] /\ \A d \in Conns : Len(out'[d]) <= Buffer
        /\ \A d \in Conns : \A x, y \in coalesced'[d] : x.res = y.res => x = y
        /\ \A d \in Conns : \A x \in coalesced'[d] : x.position
    BY DEF HubInv, HubTypeOK, RowsKnown, Streams
  <1>7. \A d \in Conns : stream[d] = "absent" =>
           out'[d] = out[d] /\ dropped'[d] = dropped[d] /\ offered'[d] = offered[d]
    BY <1>1, <1>4
  <1>8. \A d \in Conns : InOrder(out'[d]) /\ Precedes(got[d], out'[d]) /\ Sent(out'[d])
    BY DEF HubInv, Ordered
  <1>9. announced' \in 0 .. MaxEvents /\ announced <= announced' /\ UNCHANGED <<stream, hub, pending, got>>
    BY <1>1
  <1>10. /\ r.event \in Event /\ r.event.by = p /\ r.event.n <= announced'
         /\ r.event.n = pub[p].event.n
    BY <1>1, <1>2
  <1>11. r.step \in {"open", "full"} => r.to \in Conns /\ stream[r.to] # "absent"
    BY <1>1, <1>2
  <1>12. r.step \in AtWork =>
            /\ r.event \in Event /\ r.event.by = p /\ r.event.n <= announced'
            /\ (Active(p) /\ r.event.n = pub[p].event.n) \/ announced <= r.event.n
    BY <1>1, <1>10
  <1>13. pub' = [pub EXCEPT ![p] = r] /\ r \in PubRows /\ offered' \in [Conns -> Nat]
    BY <1>2, <1>4
  <1>. QED BY ONLY HubInv, <1>5, <1>6, <1>7, <1>8, <1>9, <1>11, <1>12, <1>13, PubStep

LEMMA SendKept ==
    ASSUME HubInv, NEW p \in Publishers, Send(p)
    PROVE  HubInv'
  <1>. DEFINE c == pub[p].to
              e == pub[p].event
  <1>1. pub[p].step = "open" /\ UNCHANGED <<stream, hub, coalesced, dropped, pending, announced, got>>
    BY DEF Send
  <1>2. CASE ~Open(c)
    <2>1. pub' = [pub EXCEPT ![p] = [Quiet EXCEPT !.step = "panicked"]] /\ UNCHANGED <<out, offered>>
      BY <1>2 DEF Send
    <2>2. UNCHANGED buffer
      BY <1>1, <2>1 DEF buffer
    <2>. QED BY <1>1, <2>1, <2>2, PanicKept
  <1>3. CASE Open(c) /\ Len(out[c]) < Buffer
    <2>1. /\ offered' = [offered EXCEPT ![c] = IF e.position THEN offered[c] ELSE offered[c] + 1]
          /\ out' = [out EXCEPT ![c] = Append(out[c], e)]
          /\ pub' = [pub EXCEPT ![p].step = "sending", ![p].to = <<>>]
      BY <1>3 DEF Send
    <2>. QED BY <1>1, <1>3, <2>1, AppendedKept
  <1>4. CASE Open(c) /\ ~(Len(out[c]) < Buffer)
    <2>1. /\ offered' = [offered EXCEPT ![c] = IF e.position THEN offered[c] ELSE offered[c] + 1]
          /\ pub' = [pub EXCEPT ![p].step = "full"] /\ UNCHANGED out
      BY <1>4 DEF Send
    <2>. QED BY <1>1, <2>1, FullKept
  <1>. QED BY <1>2, <1>3, <1>4

LEMMA OverflowKept ==
    ASSUME HubInv, NEW p \in Publishers, Overflow(p)
    PROVE  HubInv'
  <1>a. PICK c : c = pub[p].to
    OBVIOUS
  <1>b. PICK e : e = pub[p].event
    OBVIOUS
  <1>1. /\ pub[p].step = "full"
        /\ pub' = [pub EXCEPT ![p].step = "sending", ![p].to = <<>>]
        /\ IF e.position
           THEN coalesced' = [coalesced EXCEPT ![c] = Coalesce(coalesced[c], e)] /\ dropped' = dropped
           ELSE dropped' = [dropped EXCEPT ![c] = dropped[c] + 1] /\ coalesced' = coalesced
        /\ stream' = stream /\ out' = out /\ pending' = pending /\ announced' = announced
        /\ got' = got /\ offered' = offered /\ UNCHANGED hub
    BY <1>a, <1>b DEF Overflow
  <1>2. /\ Active(p) /\ c \in Conns /\ stream[c] # "absent" /\ e \in Event /\ e.by = p
        /\ e.n <= announced /\ e.position \in BOOLEAN /\ e.n \in Nat
        /\ announced \in 0 .. MaxEvents /\ announced \in Nat
    BY <1>1, <1>a, <1>b, Holding
  <1>3. PICK r \in PubRows :
           /\ pub' = [pub EXCEPT ![p] = r] /\ r.step = "sending" /\ r.event = e
           /\ pub'[p] = r /\ \A q \in Publishers : q # p => pub'[q] = pub[q]
    BY <1>1, <1>b, SentOn
  <1>4. /\ out \in [Conns -> Seq(Event)] /\ \A d \in Conns : Len(out[d]) <= Buffer
        /\ coalesced \in [Conns -> SUBSET Event]
        /\ dropped \in [Conns -> Nat] /\ offered \in [Conns -> Nat]
        /\ \A d \in Conns : \A x, y \in coalesced[d] : x.res = y.res => x = y
        /\ \A d \in Conns : \A x \in coalesced[d] : x.position
        /\ \A d \in Conns : InOrder(out[d]) /\ Precedes(got[d], out[d]) /\ Sent(out[d])
    BY DEF HubInv, HubTypeOK, RowsKnown, Streams, Ordered
  <1>5. /\ coalesced' \in [Conns -> SUBSET Event]
        /\ \A d \in Conns : \A x, y \in coalesced'[d] : x.res = y.res => x = y
        /\ \A d \in Conns : \A x \in coalesced'[d] : x.position
    <2>1. CASE e.position
      <3>. DEFINE waits == Coalesce(coalesced[c], e)
      <3>1. /\ waits \in SUBSET Event /\ \A x, y \in waits : x.res = y.res => x = y
            /\ \A x \in waits : x.position
        BY <1>2, <1>4, <2>1, CoalesceFacts
      <3>2. coalesced' = [coalesced EXCEPT ![c] = waits]
        BY <1>1, <2>1
      <3>. HIDE DEF waits
      <3>3. coalesced'[c] = waits /\ \A d \in Conns : d # c => coalesced'[d] = coalesced[d]
        BY <1>2, <1>4, <3>2
      <3>4. coalesced' \in [Conns -> SUBSET Event]
        BY <1>2, <1>4, <3>1, <3>2
      <3>. QED BY <1>4, <3>1, <3>3, <3>4
    <2>2. CASE ~e.position
      BY <1>1, <1>4, <2>2
    <2>. QED BY <2>1, <2>2
  <1>6. /\ dropped' \in [Conns -> Nat]
        /\ \A d \in Conns : d # c => dropped'[d] = dropped[d]
        /\ dropped'[c] = dropped[c] + (IF e.position THEN 0 ELSE 1)
    <2>1. dropped[c] \in Nat
      BY <1>2, <1>4
    <2>2. CASE e.position
      BY <1>1, <1>4, <2>1, <2>2
    <2>3. CASE ~e.position
      BY <1>1, <1>2, <1>4, <2>1, <2>3
    <2>. QED BY <2>2, <2>3
  <1>7. EventsAreAccounted'
    <2>1. ASSUME NEW d \in Conns, Open(d)'
          PROVE  offered'[d] = Cardinality(NotPositions(got'[d])) + Cardinality(NotPositions(out'[d]))
                               + dropped'[d] + Cardinality(Losing(d)')
      <3>1. offered[d] = Cardinality(NotPositions(got[d])) + Cardinality(NotPositions(out[d]))
                         + dropped[d] + Cardinality(Losing(d))
        BY <1>1, <2>1 DEF HubInv, EventsAreAccounted, Open
      <3>2. CASE e.position
        <4>1. Losing(d)' = Losing(d)
          BY <1>1, <1>3, <1>b, <3>2 DEF Losing
        <4>2. dropped'[d] = dropped[d]
          BY <1>1, <3>2
        <4>. QED BY <1>1, <3>1, <4>1, <4>2
      <3>3. CASE ~e.position /\ d # c
        <4>1. c = pub[p].to /\ ~pub[p].event.position /\ pub[p].step = "full" /\ pub'[p].step # "full"
          BY <1>1, <1>3, <1>a, <1>b, <3>3
        <4>2. \A x \in Conns : x # c => Losing(x)' = Losing(x)
          BY <1>2, <1>3, <4>1, LosingLeaves
        <4>3. Losing(d)' = Losing(d)
          BY <3>3, <4>2
        <4>. QED BY <1>1, <1>6, <3>1, <3>3, <4>3
      <3>4. CASE ~e.position /\ d = c
        <4>1. Cardinality(Losing(c)') = Cardinality(Losing(c)) - 1
          BY <1>1, <1>2, <1>3, <3>4, <1>a, <1>b, LosingLeaves
        <4>2. /\ Cardinality(NotPositions(got[c])) \in Nat /\ Cardinality(NotPositions(out[c])) \in Nat
              /\ Cardinality(Losing(c)) \in Nat /\ dropped[c] \in Nat
          BY <1>2, NotPositionsFinite, LosingFinite DEF HubInv, HubTypeOK
        <4>3. dropped'[c] = dropped[c] + 1
          BY <1>6, <3>4
        <4>. QED BY <1>1, <3>1, <3>4, <4>1, <4>2, <4>3
      <3>. QED BY <1>2, <3>2, <3>3, <3>4
    <2>. QED BY <2>1 DEF EventsAreAccounted
  <1>8. /\ out' \in [Conns -> Seq(Event)] /\ \A d \in Conns : Len(out'[d]) <= Buffer
        /\ \A d \in Conns : InOrder(out'[d]) /\ Precedes(got[d], out'[d]) /\ Sent(out'[d])
    BY <1>1, <1>4
  <1>9. /\ \A d \in Conns : stream[d] = "absent" =>
              out'[d] = out[d] /\ dropped'[d] = dropped[d] /\ offered'[d] = offered[d]
        /\ offered' \in [Conns -> Nat]
    BY <1>1, <1>2, <1>4, <1>6
  <1>10. /\ announced' \in 0 .. MaxEvents /\ announced <= announced'
         /\ UNCHANGED <<stream, hub, pending, got>>
    BY <1>1, <1>2
  <1>11. r.step \in {"open", "full"} => r.to \in Conns /\ stream[r.to] # "absent"
    BY <1>3
  <1>12. /\ r.event \in Event /\ r.event.by = p /\ r.event.n <= announced'
         /\ r.event.n = pub[p].event.n
    BY <1>1, <1>2, <1>3, <1>b
  <1>13. r.step \in AtWork =>
            /\ r.event \in Event /\ r.event.by = p /\ r.event.n <= announced'
            /\ (Active(p) /\ r.event.n = pub[p].event.n) \/ announced <= r.event.n
    BY <1>2, <1>12
  <1>14. pub' = [pub EXCEPT ![p] = r]
    BY <1>3
  <1>. QED BY ONLY HubInv, <1>5, <1>6, <1>7, <1>8, <1>9, <1>10, <1>11, <1>13, <1>14, PubStep

-----------------------------------------------------------------------------
(* Every step of the gateway, and its theorems *)

LEMMA InitHolds ==
    HubInit => HubInv
  <1>. SUFFICES ASSUME HubInit PROVE HubInv
    OBVIOUS
  <1>1. /\ \A c \in Conns : stream[c] = "absent" /\ ~Open(c)
        /\ OpenOnes = {} /\ Working = {} /\ \A u \in Subscribers : OpenOf(u) = {}
        /\ \A c \in Conns : Losing(c) = {}
    BY DEF HubInit, Open, OpenOnes, OpenOf, Working, Losing, Quiet
  <1>2. NotPositions(<<>>) = {} /\ <<>> \in Seq(Event) /\ Len(<<>>) = 0 /\ <<>> \in Seq(Channels)
    BY DEF NotPositions
  <1>3. IsFiniteSet({}) /\ Cardinality({}) = 0
    BY FS_EmptySet
  <1>4. Quiet \in PubRows /\ Quiet.step = "idle" /\ Quiet.todo = <<>> /\ Quiet.targets = {}
    BY DEF Quiet, PubRows, PubSteps
  <1>5. HubTypeOK
    <2>1. \A c \in Conns :
             /\ out[c] \in Seq(Event) /\ Len(out[c]) <= Buffer
             /\ coalesced[c] \subseteq Event /\ pending[c] \subseteq Event
             /\ \A e, f \in coalesced[c] : e.res = f.res => e = f
             /\ got[c] \in Seq(Event)
      BY <1>2, RealtimeAssumption DEF HubInit
    <2>2. \A p \in Publishers :
             /\ pub[p].step \in {"idle", "calling", "sending", "open", "full", "panicked"}
             /\ pub[p].todo \in Seq(Channels) /\ pub[p].targets \subseteq Conns
      BY <1>2, <1>4 DEF HubInit
    <2>3. /\ announced \in 0 .. MaxEvents /\ count \in [Subscribers -> 0 .. MaxPerUser]
          /\ dropped \in [Conns -> Nat] /\ offered \in [Conns -> Nat]
      BY RealtimeAssumption DEF HubInit
    <2>. QED BY <2>1, <2>2, <2>3 DEF HubInit, HubTypeOK
  <1>6. RowsKnown
    BY <1>2, <1>4 DEF HubInit, RowsKnown
  <1>7. Streams /\ Finite /\ Latest
    BY <1>1, <1>3, <1>4 DEF HubInit, Streams, Finite, Latest, Active
  <1>8. HubMatchesConnections
    BY <1>1, <1>3 DEF HubInit, HubMatchesConnections, OpenOf
  <1>9. EventsAreAccounted
    BY <1>1 DEF EventsAreAccounted
  <1>10. Ordered
    <2>1. \A c \in Conns : NotPositions(got[c]) = {} /\ NotPositions(out[c]) = {}
      BY <1>2 DEF HubInit
    <2>. QED BY <2>1 DEF Ordered, InOrder, Precedes, Sent
  <1>. QED BY <1>5, <1>6, <1>7, <1>8, <1>9, <1>10 DEF HubInv

LEMMA StepKept ==
    HubInv /\ [HubNext]_hubVars => HubInv'
  <1>. SUFFICES ASSUME HubInv, [HubNext]_hubVars PROVE HubInv'
    OBVIOUS
  <1>1. CASE UNCHANGED hubVars
    <2>1. /\ UNCHANGED <<stream, asked, channels, byChannel, count>>
          /\ UNCHANGED <<out, coalesced, pending, dropped, pub, announced, got, offered>>
      BY <1>1 DEF hubVars
    <2>2. /\ \A c \in Conns : Open(c)' <=> Open(c)
          /\ \A u \in Subscribers : OpenOf(u)' = OpenOf(u)
          /\ \A c \in Conns : Losing(c)' = Losing(c)
          /\ OpenOnes' = OpenOnes /\ Working' = Working
      BY <2>1 DEF Open, OpenOf, Losing, OpenOnes, Working
    <2>3. HubTypeOK' /\ RowsKnown' /\ Latest' /\ Finite'
      BY <2>1, <2>2 DEF HubInv, HubTypeOK, RowsKnown, Latest, Active, Finite
    <2>4. Streams' /\ EventsAreAccounted'
      BY <2>1, <2>2 DEF HubInv, Streams, EventsAreAccounted
    <2>5. HubMatchesConnections'
      BY <2>1, <2>2 DEF HubInv, HubMatchesConnections, OpenOf
    <2>6. Ordered'
      BY <2>1 DEF HubInv, Ordered, Sent, Active
    <2>. QED BY <2>3, <2>4, <2>5, <2>6 DEF HubInv
  <1>2. ASSUME NEW c \in Conns, Connect(c) PROVE HubInv'
    BY <1>2, ConnectKept
  <1>3. ASSUME NEW c \in Conns, Refuse(c) \/ Disconnect(c) PROVE HubInv'
    BY <1>3, CloseKept DEF Refuse, Disconnect, Open
  <1>4. ASSUME NEW c \in Conns, NEW k \in Channels, Subscribe(c, k) PROVE HubInv'
    BY <1>4, SubscribeKept
  <1>5. ASSUME NEW c \in Conns, WriteEvent(c) PROVE HubInv'
    BY <1>5, WriteEventKept
  <1>6. ASSUME NEW c \in Conns, StartFlush(c) PROVE HubInv'
    BY <1>6, StartFlushKept
  <1>7. ASSUME NEW c \in Conns, FlushOne(c) PROVE HubInv'
    BY <1>7, FlushOneKept
  <1>8. ASSUME NEW p \in Publishers, NEW kind \in Kinds, Announce(p, kind) PROVE HubInv'
    BY <1>8, AnnounceKept
  <1>9. ASSUME NEW p \in Publishers, Publishing(p) PROVE HubInv'
    BY <1>9, PublishKept, PublishEndsKept, FindOpenKept, SendKept, OverflowKept DEF Publishing
  <1>. QED BY <1>1, <1>2, <1>3, <1>4, <1>5, <1>6, <1>7, <1>8, <1>9 DEF HubNext

LEMMA HubInductive ==
    HubSpec => []HubInv
  BY InitHolds, StepKept, PTL DEF HubSpec

\* Every variable keeps to its type: no account opens more streams than
\* MaxConnectionsPerUser, no buffer holds more than bufferSize, and one position
\* of a resource waits beside it.
THEOREM HubTypeCorrect == HubSpec => []HubTypeOK
  <1>1. HubInv => HubTypeOK
    BY DEF HubInv
  <1>. QED BY <1>1, HubInductive, PTL

\* The hub and the connections agree on who is subscribed, whoever subscribes,
\* leaves or is refused in between, and an account's quota counts its open
\* streams.
THEOREM HubAndConnectionsAgree == HubSpec => []HubMatchesConnections
  <1>1. HubInv => HubMatchesConnections
    BY DEF HubInv
  <1>. QED BY <1>1, HubInductive, PTL

\* No event that is not a position vanishes uncounted while its connection is
\* open, and what one publisher announces arrives in the order of announcing.
THEOREM EventsReachInOrder == HubSpec => []EventsArrive
  <1>1. HubInv => EventsArrive
    BY DEF HubInv, EventsArrive, Ordered, InOrder, EventsKeepTheirOrder
  <1>. QED BY <1>1, HubInductive, PTL

-----------------------------------------------------------------------------
(* What is true of PublishingIsSafe *)

\* A publisher panics in the send to a connection it had found open and which
\* was closed before the send; so as long as no client leaves, none does.
OnlyTheClosedPanic ==
    /\ [](~PublishingIsSafe => \E c \in Conns : stream[c] = "closed")
    /\ [][\A p \in Publishers : pub[p].step # "panicked" /\ pub'[p].step = "panicked" =>
             pub[p].step = "open" /\ pub[p].to \in Conns /\ stream[pub[p].to] = "closed"]_hubVars

\* A stream that was closed stays closed.
LEMMA ClosedStays ==
    ASSUME HubInv, [HubNext]_hubVars, NEW c \in Conns, stream[c] = "closed"
    PROVE  stream'[c] = "closed"
  <1>. stream \in [Conns -> {"absent", "joining", "streaming", "written", "flushing", "closed"}]
    BY DEF HubInv, HubTypeOK
  <1>1. CASE UNCHANGED stream
    BY <1>1
  <1>2. ASSUME NEW d \in Conns, NEW s, stream[d] # "closed", stream' = [stream EXCEPT ![d] = s]
        PROVE  stream'[c] = "closed"
    BY <1>2
  <1>3. ASSUME NEW d \in Conns, Connect(d) \/ Refuse(d) \/ Disconnect(d)
        PROVE  stream'[c] = "closed"
    BY <1>2, <1>3 DEF Connect, Refuse, Disconnect, Close
  <1>4. ASSUME NEW d \in Conns, NEW k \in Channels, Subscribe(d, k)
        PROVE  stream'[c] = "closed"
    BY <1>1, <1>2, <1>4 DEF Subscribe
  <1>5. ASSUME NEW d \in Conns, WriteEvent(d) \/ StartFlush(d)
        PROVE  stream'[c] = "closed"
    BY <1>2, <1>5 DEF WriteEvent, StartFlush
  <1>6. ASSUME NEW d \in Conns, FlushOne(d)
        PROVE  stream'[c] = "closed"
    <2>1. stream[d] # "closed" /\ (UNCHANGED stream \/ stream' = [stream EXCEPT ![d] = "streaming"])
      BY <1>6 DEF FlushOne
    <2>. QED BY <1>1, <1>2, <2>1
  <1>7. CASE \E p \in Publishers : Publishing(p) \/ \E kind \in Kinds : Announce(p, kind)
    BY <1>1, <1>7 DEF Publishing, Publish, PublishEnds, FindOpen, Send, Overflow, Announce
  <1>8. CASE UNCHANGED hubVars
    BY <1>1, <1>8 DEF hubVars
  <1>. QED BY <1>3, <1>4, <1>5, <1>6, <1>7, <1>8 DEF HubNext

\* What a step of a publisher makes of its row: the call it makes, the
\* connections it has yet to send to, and where it is.
RowMove(r, s) ==
    \/ /\ r.step = "calling" /\ r.todo # <<>>
       /\ s.step = "sending" /\ s.todo = Tail(r.todo) /\ s.targets = byChannel[Head(r.todo)]
    \/ r.step = "sending" /\ s.step = "idle"
    \/ /\ r.step = "sending" /\ s.step = "calling"
       /\ s.todo = r.todo /\ r.todo # <<>> /\ s.targets = r.targets
    \/ /\ r.step = "sending" /\ s.step \in {"open", "sending"} /\ s.todo = r.todo
       /\ \E c \in r.targets : s.targets = r.targets \ {c}
    \/ r.step = "open" /\ s.step = "panicked" /\ ~Open(r.to)
    \/ /\ \/ r.step = "open" /\ s.step \in {"full", "sending"}
          \/ r.step = "full" /\ s.step = "sending"
       /\ s.todo = r.todo /\ s.targets = r.targets

LEMMA PublishRow ==
    ASSUME HubInv, NEW p \in Publishers, Publish(p)
    PROVE  /\ pub'[p].step = "sending" /\ pub'[p].todo = Tail(pub[p].todo)
           /\ pub'[p].targets = byChannel[Head(pub[p].todo)]
           /\ \A q \in Publishers : q # p => pub'[q] = pub[q]
  <1>. DEFINE k == Head(pub[p].todo)
              x == IF k = "driver" /\ pub[p].event.position THEN "driver" ELSE "job"
  <1>1. /\ pub[p].step = "calling"
        /\ pub' = [pub EXCEPT ![p].step = "sending", ![p].targets = byChannel[k],
                              ![p].todo = Tail(@), ![p].event.res = x]
    BY DEF Publish
  <1>2. pub \in [Publishers -> PubRows] /\ pub[p] \in PubRows
    BY DEF HubInv, RowsKnown
  <1>. HIDE DEF x, k
  <1>3. pub'[p].step = "sending"
    BY <1>1, <1>2 DEF PubRows
  <1>4. pub'[p].targets = byChannel[k]
    BY <1>1, <1>2 DEF PubRows
  <1>5. pub'[p].todo = Tail(pub[p].todo)
    BY <1>1, <1>2 DEF PubRows
  <1>6. \A q \in Publishers : q # p => pub'[q] = pub[q]
    BY <1>1, <1>2
  <1>. QED BY <1>3, <1>4, <1>5, <1>6 DEF k

LEMMA RowMoves ==
    ASSUME HubInv, NEW q \in Publishers, Publishing(q)
    PROVE  /\ RowMove(pub[q], pub'[q])
           /\ \A p \in Publishers : p # q => pub'[p] = pub[p]
  <1>. pub \in [Publishers -> PubRows] /\ pub[q] \in PubRows
    BY DEF HubInv, RowsKnown
  <1>1. CASE Publish(q)
    <2>4. pub[q].step = "calling" /\ pub[q].todo # <<>>
      BY <1>1 DEF Publish
    <2>. QED BY <1>1, <2>4, PublishRow DEF RowMove
  <1>2. CASE PublishEnds(q)
    <2>1. pub[q].step = "sending"
      BY <1>2 DEF PublishEnds
    <2>2. CASE pub' = [pub EXCEPT ![q] = Quiet]
      BY <2>1, <2>2 DEF Quiet, RowMove
    <2>3. CASE pub[q].todo # <<>> /\ pub' = [pub EXCEPT ![q] = [pub[q] EXCEPT !.step = "calling"]]
      BY <2>1, <2>3 DEF PubRows, RowMove
    <2>. QED BY <1>2, <2>2, <2>3 DEF PublishEnds
  <1>3. CASE FindOpen(q)
    <2>1. PICK c \in pub[q].targets :
             pub' = [pub EXCEPT ![q].targets = @ \ {c},
                                ![q].step = IF Open(c) THEN "open" ELSE "sending",
                                ![q].to = IF Open(c) THEN c ELSE <<>>]
      BY <1>3 DEF FindOpen
    <2>2. pub[q].step = "sending"
      BY <1>3 DEF FindOpen
    <2>3. /\ pub'[q].step \in {"open", "sending"} /\ pub'[q].todo = pub[q].todo
          /\ pub'[q].targets = pub[q].targets \ {c}
          /\ \A p \in Publishers : p # q => pub'[p] = pub[p]
      BY <2>1 DEF PubRows
    <2>. QED BY <2>2, <2>3 DEF RowMove
  <1>4. CASE Send(q)
    <2>1. pub[q].step = "open"
      BY <1>4 DEF Send
    <2>2. CASE ~Open(pub[q].to)
      <3>1. pub' = [pub EXCEPT ![q] = [Quiet EXCEPT !.step = "panicked"]]
        BY <1>4, <2>2 DEF Send
      <3>2. pub'[q].step = "panicked" /\ \A p \in Publishers : p # q => pub'[p] = pub[p]
        BY <3>1 DEF Quiet
      <3>. QED BY <2>1, <2>2, <3>2 DEF RowMove
    <2>3. CASE Open(pub[q].to)
      <3>1. \/ pub' = [pub EXCEPT ![q].step = "sending", ![q].to = <<>>]
            \/ pub' = [pub EXCEPT ![q].step = "full"]
        BY <1>4, <2>3 DEF Send
      <3>2. /\ pub'[q].step \in {"full", "sending"} /\ pub'[q].todo = pub[q].todo
            /\ pub'[q].targets = pub[q].targets
            /\ \A p \in Publishers : p # q => pub'[p] = pub[p]
        BY <3>1 DEF PubRows
      <3>. QED BY <2>1, <3>2 DEF RowMove
    <2>. QED BY <2>2, <2>3
  <1>5. CASE Overflow(q)
    <2>1. pub[q].step = "full" /\ pub' = [pub EXCEPT ![q].step = "sending", ![q].to = <<>>]
      BY <1>5 DEF Overflow
    <2>2. /\ pub'[q].step = "sending" /\ pub'[q].todo = pub[q].todo
          /\ pub'[q].targets = pub[q].targets
          /\ \A p \in Publishers : p # q => pub'[p] = pub[p]
      BY <2>1 DEF PubRows
    <2>. QED BY <2>1, <2>2 DEF RowMove
  <1>. QED BY <1>1, <1>2, <1>3, <1>4, <1>5 DEF Publishing

\* An announcement begins where nothing was in hand.
LEMMA AnnounceMoves ==
    ASSUME HubInv, NEW q \in Publishers, NEW kind \in Kinds, Announce(q, kind)
    PROVE  /\ pub[q].step = "idle" /\ pub'[q].step = "calling" /\ pub'[q].todo \in Audience[kind]
           /\ pub'[q].targets = pub[q].targets
           /\ \A p \in Publishers : p # q => pub'[p] = pub[p]
  <1>. pub \in [Publishers -> PubRows] /\ pub[q] \in PubRows
    BY DEF HubInv, RowsKnown
  <1>1. PICK todo \in Audience[kind] :
           pub' = [pub EXCEPT ![q].step = "calling", ![q].todo = todo, ![q].event = Envelope(q, kind)]
    BY DEF Announce
  <1>2. pub[q].step = "idle"
    BY DEF Announce
  <1>. QED BY <1>1, <1>2 DEF PubRows

\* The others leave the publishers alone.
LEMMA OthersLeavePub ==
    ASSUME [HubNext]_hubVars,
           ~\E q \in Publishers : Publishing(q) \/ \E kind \in Kinds : Announce(q, kind)
    PROVE  pub' = pub
  <1>1. ASSUME NEW c \in Conns,
               \/ Connect(c) \/ Refuse(c) \/ Disconnect(c)
               \/ \E k \in Channels : Subscribe(c, k)
               \/ WriteEvent(c) \/ StartFlush(c) \/ FlushOne(c)
        PROVE  pub' = pub
    BY <1>1 DEF Connect, Refuse, Disconnect, Close, Subscribe, WriteEvent, StartFlush, FlushOne
  <1>. QED BY <1>1 DEF HubNext, hubVars

LEMMA PanicsAreOnClosed ==
    ASSUME HubInv, [HubNext]_hubVars, NEW p \in Publishers,
           pub[p].step # "panicked", pub'[p].step = "panicked"
    PROVE  pub[p].step = "open" /\ pub[p].to \in Conns /\ stream[pub[p].to] = "closed"
  <1>1. PICK q \in Publishers : Publishing(q) \/ \E kind \in Kinds : Announce(q, kind)
    BY OthersLeavePub
  <1>2. p = q /\ Publishing(q)
    BY <1>1, RowMoves, AnnounceMoves
  <1>3. pub[p].step = "open" /\ ~Open(pub[p].to)
    BY <1>2, RowMoves DEF RowMove
  <1>4. pub[p].to \in Conns /\ stream[pub[p].to] # "absent"
    BY <1>3, Holding
  <1>5. stream[pub[p].to] = "closed"
    BY <1>3, <1>4 DEF Open, HubInv, HubTypeOK
  <1>. QED BY <1>3, <1>4, <1>5

\* realtime.Connection.send, which lets go of its lock before it sends: only
\* Disconnect between the two brings a publisher down.
THEOREM PanicsNeedAClosedStream == HubSpec => OnlyTheClosedPanic
  <1>. DEFINE Excused == ~PublishingIsSafe => \E c \in Conns : stream[c] = "closed"
              Panics == \A p \in Publishers : pub[p].step # "panicked" /\ pub'[p].step = "panicked" =>
                  pub[p].step = "open" /\ pub[p].to \in Conns /\ stream[pub[p].to] = "closed"
  <1>1. HubInit => Excused
    BY DEF HubInit, PublishingIsSafe, Quiet
  <1>2. HubInv /\ [HubNext]_hubVars => [Panics]_hubVars
    BY PanicsAreOnClosed
  <1>3. HubInv /\ Excused /\ [HubNext]_hubVars => Excused'
    <2>. SUFFICES ASSUME HubInv, Excused, [HubNext]_hubVars, NEW p \in Publishers,
                         pub'[p].step = "panicked"
                  PROVE  \E c \in Conns : stream'[c] = "closed"
      BY DEF PublishingIsSafe
    <2>1. PICK c \in Conns : stream[c] = "closed"
      BY PanicsAreOnClosed DEF PublishingIsSafe
    <2>. QED BY <2>1, ClosedStays
  <1>4. HubSpec => []Excused
    BY <1>1, <1>3, HubInductive, PTL DEF HubSpec
  <1>. QED BY <1>2, <1>4, HubInductive, PTL DEF HubSpec, OnlyTheClosedPanic

-----------------------------------------------------------------------------
(* Why slow clients block nobody *)

\* The guards of a publisher's steps: one of them is open, whatever the clients
\* and their buffers are doing.
CanGoOn(p) ==
    \/ pub[p].step = "calling" /\ pub[p].todo # <<>>
    \/ pub[p].step = "sending" /\ IsFiniteSet(pub[p].targets)
    \/ pub[p].step \in {"open", "full"} /\ pub[p].to \in Conns

Stage == [calling |-> 0, sending |-> 1, full |-> 2, open |-> 3]

\* A row has less to do than another: it is done, has fewer calls to make, fewer
\* connections to send to in the call it makes, or less to do for one of them.
LessToDo(s, r) ==
    \/ s.step \in {"idle", "panicked"}
    \/ Len(s.todo) < Len(r.todo)
    \/ s.todo = r.todo /\ Cardinality(s.targets) < Cardinality(r.targets)
    \/ s.todo = r.todo /\ s.targets = r.targets /\ Stage[s.step] < Stage[r.step]

\* A publisher at work is never made to wait, each of its steps leaves it less
\* to do, and nobody else's gives it more.  With the weak fairness of its steps
\* this is SlowClientsBlockNobody, by descent on three natural numbers.
PublishersGetOn ==
    /\ [](\A p \in Publishers : Active(p) => CanGoOn(p))
    /\ [][\A p \in Publishers : Active(p) =>
             \/ LessToDo(pub'[p], pub[p])
             \/ ~Publishing(p) /\ pub'[p] = pub[p]]_hubVars

\* What it takes: calls are announced, and sent to finitely many.
ToDo ==
    \A p \in Publishers :
        /\ pub[p].step = "calling" => pub[p].todo # <<>>
        /\ IsFiniteSet(pub[p].targets)

LEMMA SubscribedFinite ==
    ASSUME HubInv, NEW k \in Channels
    PROVE  IsFiniteSet(byChannel[k])
  <1>1. byChannel[k] \subseteq OpenOnes
    BY DEF HubInv, HubMatchesConnections, OpenOnes, HubTypeOK
  <1>. QED BY <1>1, FS_Subset DEF HubInv, Finite

LEMMA ToDoInit == HubInit => ToDo
  <1>1. IsFiniteSet({})
    BY FS_EmptySet
  <1>2. ASSUME HubInit, NEW p \in Publishers
        PROVE  pub[p].step = "idle" /\ pub[p].targets = {}
    BY <1>2 DEF HubInit, Quiet
  <1>. QED BY <1>1, <1>2 DEF ToDo

LEMMA CallsToMake ==
    ASSUME NEW kind \in Announcements, NEW todo \in Audience[kind]
    PROVE  todo # <<>>
  <1>1. kind \in {"changed", "assigned", "accepted", "moved"}
    BY DEF Announcements, Audience
  <1>2. CASE kind = "changed"
    BY <1>2 DEF Audience
  <1>3. CASE kind \in {"assigned", "accepted"}
    BY <1>3 DEF Audience
  <1>4. CASE kind = "moved"
    BY <1>4 DEF Audience
  <1>. QED BY <1>1, <1>2, <1>3, <1>4

LEMMA ToDoStep ==
    ASSUME HubInv, ToDo, [HubNext]_hubVars
    PROVE  ToDo'
  <1>1. CASE pub' = pub
    BY <1>1 DEF ToDo
  <1>2. ASSUME NEW q \in Publishers, Publishing(q)
        PROVE  ToDo'
    <2>1. \A p \in Publishers : p # q => pub'[p] = pub[p]
      BY <1>2, RowMoves
    <2>2. pub[q].todo \in Seq(Channels) /\ IsFiniteSet(pub[q].targets)
      BY DEF HubInv, RowsKnown, PubRows, ToDo
    <2>3. (pub'[q].step = "calling" => pub'[q].todo # <<>>) /\ IsFiniteSet(pub'[q].targets)
      <3>1. CASE Publish(q)
        <4>1. Head(pub[q].todo) \in Channels
          BY <2>2, <3>1 DEF Publish
        <4>. QED BY <3>1, <4>1, PublishRow, SubscribedFinite
      <3>2. CASE FindOpen(q)
        <4>1. PICK c \in pub[q].targets :
                 pub' = [pub EXCEPT ![q].targets = @ \ {c},
                                    ![q].step = IF Open(c) THEN "open" ELSE "sending",
                                    ![q].to = IF Open(c) THEN c ELSE <<>>]
          BY <3>2 DEF FindOpen
        <4>2. pub \in [Publishers -> PubRows] /\ pub[q] \in PubRows
          BY DEF HubInv, RowsKnown
        <4>3. pub'[q].targets = pub[q].targets \ {c} /\ pub'[q].step \in {"open", "sending"}
          BY <4>1, <4>2 DEF PubRows
        <4>4. IsFiniteSet(pub[q].targets \ {c})
          BY <2>2, FS_Subset
        <4>. QED BY <4>3, <4>4
      <3>3. CASE PublishEnds(q) \/ Send(q) \/ Overflow(q)
        <4>1. pub \in [Publishers -> PubRows] /\ pub[q] \in PubRows /\ IsFiniteSet({})
          BY FS_EmptySet DEF HubInv, RowsKnown
        <4>2. CASE PublishEnds(q)
          BY <2>2, <4>1, <4>2 DEF PublishEnds, Quiet, PubRows
        <4>3. CASE Send(q)
          <5>1. CASE ~Open(pub[q].to)
            <6>1. pub' = [pub EXCEPT ![q] = [Quiet EXCEPT !.step = "panicked"]]
              BY <4>3, <5>1 DEF Send
            <6>. QED BY <4>1, <6>1 DEF Quiet
          <5>2. CASE Open(pub[q].to)
            <6>1. \/ pub' = [pub EXCEPT ![q].step = "sending", ![q].to = <<>>]
                  \/ pub' = [pub EXCEPT ![q].step = "full"]
              BY <4>3, <5>2 DEF Send
            <6>. QED BY <2>2, <4>1, <6>1 DEF PubRows
          <5>. QED BY <5>1, <5>2
        <4>4. CASE Overflow(q)
          BY <2>2, <4>1, <4>4 DEF Overflow, PubRows
        <4>. QED BY <3>3, <4>2, <4>3, <4>4
      <3>. QED BY <1>2, <3>1, <3>2, <3>3 DEF Publishing
    <2>. QED BY <2>1, <2>3 DEF ToDo
  <1>3. ASSUME NEW q \in Publishers, NEW kind \in Kinds, Announce(q, kind)
        PROVE  ToDo'
    <2>1. pub'[q].todo \in Audience[kind] /\ pub'[q].targets = pub[q].targets
      BY <1>3, AnnounceMoves
    <2>2. pub'[q].todo # <<>>
      BY <2>1, CallsToMake, RealtimeAssumption
    <2>. QED BY <1>3, <2>1, <2>2, AnnounceMoves DEF ToDo
  <1>. QED BY <1>1, <1>2, <1>3, OthersLeavePub

LEMMA GoingOn ==
    ASSUME HubInv, ToDo, NEW p \in Publishers, Publishing(p)
    PROVE  LessToDo(pub'[p], pub[p])
  <1>1. PICK r, s : r = pub[p] /\ s = pub'[p] /\ RowMove(r, s)
    BY RowMoves
  <1>2. r.todo \in Seq(Channels) /\ IsFiniteSet(r.targets)
    BY <1>1 DEF HubInv, RowsKnown, PubRows, ToDo
  <1>3. LessToDo(s, r)
    <2>1. CASE r.todo # <<>> /\ s.todo = Tail(r.todo)
      <3>1. Len(s.todo) < Len(r.todo)
        BY <1>2, <2>1
      <3>. QED BY <3>1 DEF LessToDo
    <2>2. CASE s.todo = r.todo /\ \E c \in r.targets : s.targets = r.targets \ {c}
      <3>1. PICK c \in r.targets : s.targets = r.targets \ {c}
        BY <2>2
      <3>2. /\ Cardinality(r.targets \ {c}) = Cardinality(r.targets) - 1
            /\ Cardinality(r.targets) \in Nat
        BY <1>2, FS_RemoveElement, FS_CardinalityType
      <3>3. Cardinality(s.targets) < Cardinality(r.targets)
        BY <3>1, <3>2
      <3>. QED BY <2>2, <3>3 DEF LessToDo
    <2>3. CASE s.step \in {"idle", "panicked"}
      BY <2>3 DEF LessToDo
    <2>4. CASE /\ s.todo = r.todo /\ s.targets = r.targets
               /\ \/ r.step = "sending" /\ s.step = "calling"
                  \/ r.step = "open" /\ s.step \in {"full", "sending"}
                  \/ r.step = "full" /\ s.step = "sending"
      <3>1. Stage[s.step] < Stage[r.step]
        BY <2>4 DEF Stage
      <3>. QED BY <2>4, <3>1 DEF LessToDo
    <2>. QED BY <1>1, <2>1, <2>2, <2>3, <2>4 DEF RowMove
  <1>. QED BY <1>1, <1>3

\* realtime.Connection.send, "Slow clients must not block the system": whatever
\* the clients do, a publisher has a step to take, and has less to do after it.
THEOREM PublishersAreNeverHeldUp == HubSpec => PublishersGetOn
  <1>. DEFINE Ready == \A p \in Publishers : Active(p) => CanGoOn(p)
              Descends == \A p \in Publishers : Active(p) =>
                  \/ LessToDo(pub'[p], pub[p])
                  \/ ~Publishing(p) /\ pub'[p] = pub[p]
  <1>1. HubInv /\ ToDo => Ready
    <2>. SUFFICES ASSUME HubInv, ToDo, NEW p \in Publishers, Active(p) PROVE CanGoOn(p)
      OBVIOUS
    <2>1. CASE pub[p].step \in {"open", "full"}
      BY <2>1, Holding DEF CanGoOn
    <2>2. CASE pub[p].step \in {"calling", "sending"}
      BY <2>2 DEF CanGoOn, ToDo
    <2>. QED BY <2>1, <2>2 DEF Active
  <1>2. HubInv /\ ToDo /\ [HubNext]_hubVars => [Descends]_hubVars
    <2>. SUFFICES ASSUME HubInv, ToDo, [HubNext]_hubVars, NEW p \in Publishers, Active(p)
                  PROVE  LessToDo(pub'[p], pub[p]) \/ (~Publishing(p) /\ pub'[p] = pub[p])
      OBVIOUS
    <2>1. CASE Publishing(p)
      BY <2>1, GoingOn
    <2>2. CASE ~Publishing(p)
      <3>1. CASE pub' = pub
        BY <2>2, <3>1
      <3>2. ASSUME NEW q \in Publishers, Publishing(q) PROVE pub'[p] = pub[p]
        BY <2>2, <3>2, RowMoves
      <3>3. ASSUME NEW q \in Publishers, NEW kind \in Kinds, Announce(q, kind)
            PROVE  pub'[p] = pub[p]
        BY <3>3, AnnounceMoves DEF Active
      <3>. QED BY <2>2, <3>1, <3>2, <3>3, OthersLeavePub
    <2>. QED BY <2>1, <2>2
  <1>3. HubInv /\ ToDo /\ [HubNext]_hubVars => ToDo'
    BY ToDoStep
  <1>4. HubSpec => []ToDo
    BY <1>3, ToDoInit, HubInductive, PTL DEF HubSpec
  <1>. QED BY <1>1, <1>2, <1>4, HubInductive, PTL DEF HubSpec, PublishersGetOn

-----------------------------------------------------------------------------
(* Notifications: the inductive invariant *)

\* Where a call and a worker can be, and what they carry.
CallStates ==
    {Waiting} \cup [step : {"allowed"}, event : Events, allowed : BOOLEAN]
    \cup [step : {"enqueue"}, event : Events, allowed : BOOLEAN,
          todo : SUBSET (Phones \cup {Inbox})]

Hands == UNION {[S -> Tokens \cup {NoToken, Unread}] : S \in SUBSET Keys}

WorkerStates ==
    {Resting} \cup [step : {"reading", "passing"}, hand : Hands]
    \cup [step : {"accepted", "dead", "error"}, hand : Hands, at : Keys]

\* A queued row can be claimed, and only a claim counts an attempt.
RowsTyped ==
    /\ row \in [Keys -> [status : Statuses, attempts : 0..MaxAttempts]]
    /\ \A k \in Keys :
          /\ row[k].status = "QUEUED" => row[k].attempts < MaxAttempts
          /\ row[k].status \in {"SENDING", "SENT", "FAILED"}
                <=> row[k].status # "QUEUED" /\ row[k].attempts > 0

\* TypeOK, and what calls and workers carry.
Typed ==
    /\ device \in [Devices -> [token : Tokens \cup {NoToken},
                               status : {"ABSENT", "ACTIVE", "RETIRED", "REVOKED"}]]
    /\ muted \subseteq Users
    /\ RowsTyped
    /\ call \in [Callers -> CallStates]
    /\ worker \in [Workers -> WorkerStates]
    /\ accepted \in [Keys -> Nat]
    /\ calls \in 0..MaxCalls /\ moves \in 0..MaxMoves /\ faults \in 0..MaxFaults

\* The answer for a row comes to the worker that has the row in hand.
AnswersAreAwaited ==
    \A w \in Workers :
        worker[w].step \in {"accepted", "dead", "error"} => worker[w].at \in Held(w)

\* The provider took k, and the worker has yet to write it down.
Taken(w, k) == worker[w].step = "accepted" /\ worker[w].at = k

\* What the provider took is SENDING or SENT; a row in a worker's hand was taken
\* exactly when the worker has the answer and has not marked the row.
TakenIsKnown ==
    /\ \A k \in Keys : /\ accepted[k] \in {0, 1}
                       /\ accepted[k] = 1 => row[k].status \in {"SENDING", "SENT"}
    /\ \A w \in Workers : \A k \in Held(w) : accepted[k] = 1 <=> Taken(w, k)

SentIsTaken ==
    \A k \in Keys : row[k].status = "SENT" => accepted[k] = 1 \/ k[2] = Inbox

Sound == SendingIsHeldOnce /\ AnswersAreAwaited /\ TakenIsKnown /\ SentIsTaken
IInv  == Typed /\ Sound

-----------------------------------------------------------------------------
(* Lemmas on calls, rows and hands *)

LEMMA HandType ==
    ASSUME NEW h \in Hands
    PROVE  /\ DOMAIN h \subseteq Keys
           /\ \A k \in DOMAIN h, v \in Tokens \cup {NoToken, Unread} : [h EXCEPT ![k] = v] \in Hands
           /\ \A S \in SUBSET DOMAIN h : [k \in S |-> h[k]] \in Hands
  <1>1. PICK S \in SUBSET Keys : h \in [S -> Tokens \cup {NoToken, Unread}]
    BY DEF Hands
  <1>2. \A k \in DOMAIN h, v \in Tokens \cup {NoToken, Unread} :
            [h EXCEPT ![k] = v] \in [S -> Tokens \cup {NoToken, Unread}]
    BY <1>1
  <1>3. \A T \in SUBSET DOMAIN h : [k \in T |-> h[k]] \in [T -> Tokens \cup {NoToken, Unread}]
    BY <1>1
  <1>. QED BY <1>1, <1>2, <1>3 DEF Hands

LEMMA WorkerType ==
    ASSUME Typed, NEW w \in Workers
    PROVE  /\ Held(w) \subseteq Keys
           /\ worker[w].step \in {"idle", "reading", "passing", "accepted", "dead", "error"}
           /\ worker[w].step = "idle" => worker[w] = Resting /\ Held(w) = {}
           /\ worker[w].step # "idle" => worker[w].hand \in Hands
           /\ worker[w].step \in {"reading", "passing"} =>
                 worker[w] \in [step : {"reading", "passing"}, hand : Hands]
           /\ worker[w].step \in {"accepted", "dead", "error"} =>
                 worker[w] \in [step : {"accepted", "dead", "error"}, hand : Hands, at : Keys]
  <1>1. worker[w] \in WorkerStates
    BY DEF Typed
  <1>2. CASE worker[w] = Resting
    BY <1>2 DEF Resting, Held
  <1>3. CASE worker[w] \in [step : {"reading", "passing"}, hand : Hands]
    BY <1>3, HandType DEF Held
  <1>4. CASE worker[w] \in [step : {"accepted", "dead", "error"}, hand : Hands, at : Keys]
    BY <1>4, HandType DEF Held
  <1>. QED BY <1>1, <1>2, <1>3, <1>4 DEF WorkerStates

\* What is left in hand when a row is done with.
LEMMA WithoutType ==
    ASSUME Typed, NEW w \in Workers, worker[w].step # "idle", NEW k
    PROVE  /\ Without(w, k) \in WorkerStates
           /\ Without(w, k).step \in {"idle", "passing"}
           /\ DOMAIN Without(w, k).hand = Held(w) \ {k}
  <1>. DEFINE left == Held(w) \ {k}
  <1>1. [x \in left |-> worker[w].hand[x]] \in Hands
    BY WorkerType, HandType DEF Held
  <1>2. CASE left = {}
    BY <1>2 DEF Without, Resting, WorkerStates, Held
  <1>3. CASE left # {}
    <2>1. Without(w, k) = [step |-> "passing", hand |-> [x \in left |-> worker[w].hand[x]]]
      BY <1>3 DEF Without, Held
    <2>. QED BY <2>1, <1>1 DEF WorkerStates
  <1>. QED BY <1>2, <1>3

LEMMA RestingType ==
    Resting \in WorkerStates /\ Resting.step = "idle" /\ DOMAIN Resting.hand = {}
  BY DEF Resting, WorkerStates

LEMMA CallType ==
    ASSUME Typed, NEW c \in Callers
    PROVE  /\ Waiting \in CallStates
           /\ call[c].step = "allowed" =>
                 call[c] \in [step : {"allowed"}, event : Events, allowed : BOOLEAN]
           /\ call[c].step = "enqueue" =>
                 call[c] \in [step : {"enqueue"}, event : Events, allowed : BOOLEAN,
                              todo : SUBSET (Phones \cup {Inbox})]
  <1>1. call[c] \in CallStates
    BY DEF Typed
  <1>. QED BY <1>1 DEF CallStates, Waiting

LEMMA TypedIsTypeOK == Typed => TypeOK
  <1>. SUFFICES ASSUME Typed PROVE TypeOK
    OBVIOUS
  <1>1. \A c \in Callers : call[c].step \in {"idle", "allowed", "enqueue"}
    BY DEF Typed, CallStates, Waiting
  <1>2. \A w \in Workers : /\ worker[w].step \in {"idle", "reading", "passing",
                                                  "accepted", "dead", "error"}
                           /\ DOMAIN worker[w].hand \subseteq Keys
    BY WorkerType DEF Held
  <1>. QED BY <1>1, <1>2 DEF Typed, TypeOK, RowsTyped

\* A claimed row whose worker writes what became of it stays typed.
LEMMA MarkType ==
    ASSUME Typed, NEW k \in Keys, row[k].status = "SENDING",
           \/ row' = [row EXCEPT ![k].status = "SENT"]
           \/ row' = MarkFailed(k, MaxAttempts) \/ row' = MarkFailed(k, row[k].attempts)
    PROVE  /\ RowsTyped'
           /\ row'[k].status \in {"SENT", "FAILED", "QUEUED"}
           /\ \A x \in Keys : x # k => row'[x] = row[x]
  <1>1. RowsTyped
    BY DEF Typed
  <1>2. /\ row[k] \in [status : Statuses, attempts : 0..MaxAttempts]
        /\ row[k].attempts > 0 /\ MaxAttempts \in Nat
    BY <1>1, NotifyAssumption DEF RowsTyped
  <1>3. PICK s \in {"SENT", "FAILED", "QUEUED"} :
            /\ row' = [row EXCEPT ![k].status = s]
            /\ s = "QUEUED" => row[k].attempts < MaxAttempts
    BY <1>2 DEF MarkFailed
  <1>4. \A x \in Keys : x # k => row'[x] = row[x]
    BY <1>1, <1>3 DEF RowsTyped
  <1>5. row'[k] = [row[k] EXCEPT !.status = s]
    BY <1>1, <1>3 DEF RowsTyped
  <1>6. /\ row'[k] \in [status : Statuses, attempts : 0..MaxAttempts]
        /\ row'[k].status = s /\ row'[k].attempts = row[k].attempts
    BY <1>2, <1>5 DEF Statuses
  <1>7. row' \in [Keys -> [status : Statuses, attempts : 0..MaxAttempts]]
    BY <1>1, <1>3, <1>6 DEF RowsTyped
  <1>. QED BY <1>1, <1>2, <1>3, <1>4, <1>6, <1>7 DEF RowsTyped

-----------------------------------------------------------------------------
(* Notifications: type correctness *)

LEMMA TypedInit == Init => Typed
  <1>. SUFFICES ASSUME Init PROVE Typed
    OBVIOUS
  <1>1. RowsTyped
    BY NotifyAssumption DEF Init, RowsTyped, Statuses
  <1>2. call \in [Callers -> CallStates] /\ worker \in [Workers -> WorkerStates]
    BY RestingType DEF Init, CallStates
  <1>. QED BY <1>1, <1>2, NotifyAssumption DEF Init, Typed

\* What people do to devices, settings and events.
LEMMA TypedPeople ==
    ASSUME Typed,
           \/ \E u \in Users, ph \in Phones, t \in Tokens : RegisterDevice(u, ph, t)
           \/ \E u \in Users, ph \in Phones : RevokeDevice(u, ph)
           \/ \E u \in Users : SetPreference(u)
           \/ \E c \in Callers, e \in Events : ReadPreference(c, e)
           \/ \E c \in Callers : ReadDevices(c)
    PROVE  Typed'
  <1>. USE NotifyAssumption DEF RowsTyped, Typed
  <1>1. CASE \E u \in Users, ph \in Phones, t \in Tokens : RegisterDevice(u, ph, t)
    BY <1>1 DEF RegisterDevice, Move
  <1>2. CASE \E u \in Users, ph \in Phones : RevokeDevice(u, ph)
    <2>1. PICK u \in Users, ph \in Phones : RevokeDevice(u, ph)
      BY <1>2
    <2>2. <<u, ph>> \in Devices
      BY DEF Devices
    <2>3. [device[<<u, ph>>] EXCEPT !.status = "REVOKED"]
            \in [token : Tokens \cup {NoToken},
                 status : {"ABSENT", "ACTIVE", "RETIRED", "REVOKED"}]
      BY <2>2
    <2>4. device' \in [Devices -> [token : Tokens \cup {NoToken},
                                   status : {"ABSENT", "ACTIVE", "RETIRED", "REVOKED"}]]
      BY <2>1, <2>2, <2>3 DEF RevokeDevice
    <2>5. moves' \in 0..MaxMoves
      BY <2>1 DEF RevokeDevice, Move
    <2>6. UNCHANGED <<muted, row, call, worker, accepted, calls, faults>>
      BY <2>1 DEF RevokeDevice
    <2>. QED BY ONLY Typed, <2>4, <2>5, <2>6 DEF Typed, RowsTyped
  <1>3. CASE \E u \in Users : SetPreference(u)
    BY <1>3 DEF SetPreference, Move
  <1>4. CASE \E c \in Callers, e \in Events : ReadPreference(c, e)
    <2>1. PICK c \in Callers, e \in Events : ReadPreference(c, e)
      BY <1>4
    <2>2. Allows(To[e], Category[e]) \in BOOLEAN
      BY DEF Allows, Required
    <2>3. [step |-> "allowed", event |-> e, allowed |-> Allows(To[e], Category[e])] \in CallStates
      BY <2>2 DEF CallStates
    <2>. QED BY <2>1, <2>3 DEF ReadPreference
  <1>5. CASE \E c \in Callers : ReadDevices(c)
    <2>1. PICK c \in Callers : ReadDevices(c)
      BY <1>5
    <2>2. call[c].event \in Events /\ call[c].allowed \in BOOLEAN
      BY <2>1, CallType DEF ReadDevices
    <2>3. \A T \in SUBSET (Phones \cup {Inbox}) :
            [step |-> "enqueue", event |-> call[c].event, allowed |-> call[c].allowed,
             todo |-> T] \in CallStates
      BY <2>2 DEF CallStates
    <2>4. call' \in [Callers -> CallStates]
      BY <2>1, <2>3 DEF ReadDevices, DevicesOf
    <2>. QED BY <2>1, <2>4 DEF ReadDevices, bounds
  <1>. QED BY <1>1, <1>2, <1>3, <1>4, <1>5

\* A row that is enqueued is queued, suppressed, or there already.
LEMMA InsertedType ==
    ASSUME Typed, NEW k \in Keys, NEW allowed \in BOOLEAN, row' = Inserted(k, allowed)
    PROVE  /\ RowsTyped'
           /\ \A x \in Keys : \/ row'[x] = row[x]
                              \/ row[x].status = "ABSENT" /\ row'[x].status \in {"QUEUED", "SUPPRESSED"}
  <1>1. RowsTyped /\ MaxAttempts \in Nat \ {0}
    BY NotifyAssumption DEF Typed
  <1>2. CASE row[k].status # "ABSENT"
    BY <1>1, <1>2 DEF Inserted, RowsTyped
  <1>3. CASE row[k].status = "ABSENT"
    <2>1. PICK s \in {"QUEUED", "SUPPRESSED"} : row' = [row EXCEPT ![k].status = s]
      BY <1>3 DEF Inserted
    <2>2. row[k] \in [status : Statuses, attempts : 0..MaxAttempts] /\ row[k].attempts = 0
      BY <1>1, <1>3 DEF RowsTyped
    <2>3. row'[k] = [row[k] EXCEPT !.status = s] /\ \A x \in Keys : x # k => row'[x] = row[x]
      BY <1>1, <2>1 DEF RowsTyped
    <2>4. /\ row'[k] \in [status : Statuses, attempts : 0..MaxAttempts]
          /\ row'[k].status = s /\ row'[k].attempts = 0
      BY <2>2, <2>3 DEF Statuses
    <2>5. row' \in [Keys -> [status : Statuses, attempts : 0..MaxAttempts]]
      BY <1>1, <2>1, <2>4 DEF RowsTyped
    <2>. QED BY <1>1, <1>3, <2>3, <2>4, <2>5 DEF RowsTyped
  <1>. QED BY <1>2, <1>3

LEMMA EnqueueKey ==
    ASSUME Typed, NEW c \in Callers, Enqueue(c)
    PROVE  \/ \E k \in Keys, allowed \in BOOLEAN : row' = Inserted(k, allowed)
           \/ row' = row
  <1>1. /\ call[c].event \in Events /\ call[c].allowed \in BOOLEAN
        /\ call[c].todo \subseteq Phones \cup {Inbox}
    BY CallType DEF Enqueue
  <1>. QED BY <1>1 DEF Enqueue, Keys

LEMMA TypedEnqueue ==
    ASSUME Typed, NEW c \in Callers, Enqueue(c)
    PROVE  Typed'
  <1>1. RowsTyped'
    BY EnqueueKey, InsertedType DEF RowsTyped, Typed
  <1>2. call[c] \in [step : {"enqueue"}, event : Events, allowed : BOOLEAN,
                     todo : SUBSET (Phones \cup {Inbox})]
    BY CallType DEF Enqueue
  <1>3. \A t : [call[c] EXCEPT !.todo = @ \ {t}] \in CallStates
    BY <1>2 DEF CallStates
  <1>4. call' \in [Callers -> CallStates]
    <2>1. call \in [Callers -> CallStates] /\ Waiting \in CallStates
      BY CallType DEF Typed
    <2>2. \E x \in CallStates : call' = [call EXCEPT ![c] = x]
      BY <1>3, <2>1 DEF Enqueue
    <2>. QED BY <2>1, <2>2
  <1>5. faults' \in 0..MaxFaults
    <2>1. faults \in 0..MaxFaults /\ MaxFaults \in Nat
      BY NotifyAssumption DEF Typed
    <2>2. faults' = faults \/ (faults < MaxFaults /\ faults' = faults + 1)
      BY DEF Enqueue, Fault
    <2>. QED BY <2>1, <2>2
  <1>. QED BY <1>1, <1>4, <1>5 DEF Enqueue, Typed

\* A claim takes queued rows, and counts an attempt of each.
LEMMA ClaimedRows ==
    ASSUME Typed, NEW w \in Workers, Claim(w)
    PROVE  \E S \in SUBSET Keys :
              /\ \A k \in S : row[k].status = "QUEUED" /\ row'[k].status = "SENDING"
              /\ \A k \in Keys \ S : row'[k] = row[k]
              /\ worker' = [worker EXCEPT ![w] = [step |-> "reading",
                                                  hand |-> [k \in S |-> Unread]]]
              /\ [step |-> "reading", hand |-> [k \in S |-> Unread]] \in WorkerStates
              /\ RowsTyped'
  <1>1. RowsTyped /\ MaxAttempts \in Nat \ {0}
    BY NotifyAssumption DEF Typed
  <1>2. PICK S \in SUBSET {k \in Keys : row[k].status = "QUEUED"
                                        /\ row[k].attempts < MaxAttempts} :
          /\ row' = [k \in Keys |-> IF k \in S THEN [status |-> "SENDING",
                                                     attempts |-> row[k].attempts + 1]
                                    ELSE row[k]]
          /\ worker' = [worker EXCEPT ![w] = [step |-> "reading",
                                              hand |-> [k \in S |-> Unread]]]
    BY DEF Claim
  <1>3. [k \in S |-> Unread] \in Hands
    BY DEF Hands
  <1>4. [step |-> "reading", hand |-> [k \in S |-> Unread]] \in WorkerStates
    BY <1>3 DEF WorkerStates
  <1>5. \A k \in S : /\ row'[k] = [status |-> "SENDING", attempts |-> row[k].attempts + 1]
                     /\ row[k].attempts + 1 \in 0..MaxAttempts
                     /\ row'[k].status = "SENDING" /\ row'[k].attempts > 0
    BY <1>1, <1>2 DEF RowsTyped
  <1>6. \A k \in Keys \ S : row'[k] = row[k]
    BY <1>2
  <1>7. row' \in [Keys -> [status : Statuses, attempts : 0..MaxAttempts]]
    BY <1>1, <1>2, <1>5, <1>6 DEF RowsTyped, Statuses
  <1>8. RowsTyped'
    <2>1. ASSUME NEW k \in Keys
          PROVE  /\ row'[k].status = "QUEUED" => row'[k].attempts < MaxAttempts
                 /\ row'[k].status \in {"SENDING", "SENT", "FAILED"}
                       <=> row'[k].status # "QUEUED" /\ row'[k].attempts > 0
      <3>1. CASE k \in S
        BY <1>5, <3>1
      <3>2. CASE k \notin S
        BY <1>1, <1>6, <3>2 DEF RowsTyped
      <3>. QED BY <3>1, <3>2
    <2>. QED BY <1>7, <2>1 DEF RowsTyped
  <1>. QED BY <1>2, <1>4, <1>5, <1>6, <1>8

\* A worker's step from one place to another with a row of its own.
LEMMA TypedPass ==
    ASSUME Typed, NEW w \in Workers,
           AnswersAreAwaited, \A k \in Held(w) : row[k].status = "SENDING",
           Pass(w) \/ Crash(w)
    PROVE  Typed'
  <1>. DEFINE at == worker[w].at
  <1>. USE DEF bounds
  <1>1. CASE Claim(w)
    <2>1. RowsTyped' /\ worker' \in [Workers -> WorkerStates]
      BY <1>1, ClaimedRows DEF Typed
    <2>. QED BY <1>1, <2>1 DEF Claim, Typed
  <1>2. CASE ReadToken(w)
    <2>1. worker[w] \in [step : {"reading", "passing"}, hand : Hands]
      BY <1>2, WorkerType DEF ReadToken
    <2>2. [worker[w] EXCEPT !.step = "passing"] \in WorkerStates
      BY <2>1 DEF WorkerStates
    <2>3. ASSUME NEW k \in DOMAIN worker[w].hand, k[2] # Inbox,
                 NEW v \in TokensFound(k)
          PROVE  [worker[w] EXCEPT !.hand = [worker[w].hand EXCEPT ![k] = v]] \in WorkerStates
      <3>1. k \in Keys
        BY <2>3, WorkerType DEF Held
      <3>2. DeviceOf(k) \in Devices
        BY <2>3, <3>1, NotifyAssumption DEF Keys, Devices, DeviceOf
      <3>3. v \in Tokens \cup {NoToken, Unread}
        BY <2>3, <3>2 DEF Typed, TokensFound
      <3>4. [worker[w].hand EXCEPT ![k] = v] \in Hands
        BY <2>1, <2>3, <3>3, HandType
      <3>. QED BY <2>1, <3>4 DEF WorkerStates
    <2>4. \E x \in WorkerStates : worker' = [worker EXCEPT ![w] = x]
      <3>1. CASE worker' = [worker EXCEPT ![w].step = "passing"]
        BY <2>2, <3>1
      <3>2. CASE \E k \in DOMAIN worker[w].hand : \E v \in TokensFound(k) :
                   /\ k[2] # Inbox
                   /\ worker' = [worker EXCEPT ![w].hand = [worker[w].hand EXCEPT ![k] = v]]
        BY <2>3, <3>2
      <3>. QED BY <1>2, <3>1, <3>2 DEF ReadToken
    <2>5. worker' \in [Workers -> WorkerStates]
      BY <2>4 DEF Typed
    <2>. QED BY <1>2, <2>5 DEF ReadToken, RowsTyped, Typed
  <1>3. CASE PassWithoutProvider(w)
    <2>1. worker' \in [Workers -> WorkerStates]
      BY <1>3, WithoutType, RestingType DEF PassWithoutProvider, Typed
    <2>2. RowsTyped'
      <3>1. PICK k \in Held(w) : \/ row' = [row EXCEPT ![k].status = "SENT"]
                                 \/ row' = MarkFailed(k, MaxAttempts) \/ row' = row
        BY <1>3 DEF PassWithoutProvider, Held
      <3>2. k \in Keys
        BY WorkerType
      <3>. QED BY <3>1, <3>2, MarkType DEF RowsTyped, Typed
    <2>3. faults' \in 0..MaxFaults
      BY <1>3, NotifyAssumption DEF PassWithoutProvider, Fault, Typed
    <2>. QED BY <1>3, <2>1, <2>2, <2>3 DEF PassWithoutProvider, Typed
  <1>4. CASE SendPush(w)
    <2>1. worker[w].hand \in Hands
      BY <1>4, WorkerType DEF SendPush
    <2>2. \A k \in DOMAIN worker[w].hand, answer \in {"accepted", "dead", "error"} :
            [step |-> answer, hand |-> worker[w].hand, at |-> k] \in WorkerStates
      BY <2>1, HandType DEF WorkerStates
    <2>5. PICK k \in DOMAIN worker[w].hand, answer \in {"accepted", "dead", "error"} :
            /\ worker' = [worker EXCEPT ![w] = [step |-> answer, hand |-> worker[w].hand,
                                                at |-> k]]
            /\ accepted' = [accepted EXCEPT ![k] = IF answer = "accepted" THEN @ + 1 ELSE @]
      BY <1>4 DEF SendPush
    <2>3. worker' \in [Workers -> WorkerStates]
      BY <2>2, <2>5 DEF Typed
    <2>6. accepted \in [Keys -> Nat] /\ k \in Keys
      BY <1>4, WorkerType DEF Typed, Held
    <2>4. accepted' \in [Keys -> Nat]
      BY <2>5, <2>6
    <2>. QED BY <1>4, <2>3, <2>4 DEF SendPush, RowsTyped, Typed
  <1>5. CASE MarkSent(w) \/ MarkDead(w) \/ MarkError(w)
    <2>1. at \in Keys /\ row[at].status = "SENDING"
      BY <1>5, WorkerType DEF MarkSent, MarkDead, MarkError, AnswersAreAwaited
    <2>2. worker' \in [Workers -> WorkerStates]
      BY <1>5, WithoutType, RestingType DEF MarkSent, MarkDead, MarkError, Typed
    <2>3. RowsTyped'
      <3>1. \/ row' = [row EXCEPT ![at].status = "SENT"]
            \/ row' = MarkFailed(at, MaxAttempts) \/ row' = MarkFailed(at, row[at].attempts)
            \/ row' = row
        BY <1>5 DEF MarkSent, MarkDead, MarkError
      <3>. QED BY <2>1, <3>1, MarkType DEF RowsTyped, Typed
    <2>4. faults' \in 0..MaxFaults
      BY <1>5, NotifyAssumption DEF MarkSent, MarkDead, MarkError, Fault, Typed
    <2>5. device' \in [Devices -> [token : Tokens \cup {NoToken},
                                   status : {"ABSENT", "ACTIVE", "RETIRED", "REVOKED"}]]
      BY <1>5 DEF MarkSent, MarkDead, MarkError, RetireDevice, Typed
    <2>6. UNCHANGED <<muted, call, accepted, calls, moves>>
      BY <1>5 DEF MarkSent, MarkDead, MarkError
    <2>. QED BY <2>2, <2>3, <2>4, <2>5, <2>6 DEF Typed
  <1>6. CASE Crash(w)
    <2>1. worker' \in [Workers -> WorkerStates] /\ faults' \in 0..MaxFaults
      BY <1>6, RestingType, NotifyAssumption DEF Crash, Fault, Typed
    <2>. QED BY <1>6, <2>1 DEF Crash, RowsTyped, Typed
  <1>. QED BY <1>1, <1>2, <1>3, <1>4, <1>5, <1>6 DEF Pass

LEMMA TypedNext == Typed /\ AnswersAreAwaited /\ SendingIsHeldOnce /\ [Next]_vars => Typed'
  <1>. SUFFICES ASSUME Typed, AnswersAreAwaited, SendingIsHeldOnce, [Next]_vars
                PROVE  Typed'
    OBVIOUS
  <1>1. CASE \/ \E u \in Users, ph \in Phones, t \in Tokens : RegisterDevice(u, ph, t)
             \/ \E u \in Users, ph \in Phones : RevokeDevice(u, ph)
             \/ \E u \in Users : SetPreference(u)
             \/ \E c \in Callers, e \in Events : ReadPreference(c, e)
             \/ \E c \in Callers : ReadDevices(c)
    BY <1>1, TypedPeople
  <1>2. CASE \E c \in Callers : Enqueue(c)
    BY <1>2, TypedEnqueue
  <1>3. CASE \E w \in Workers : Pass(w) \/ Crash(w)
    BY <1>3, TypedPass DEF SendingIsHeldOnce
  <1>4. CASE UNCHANGED vars
    BY <1>4 DEF vars, Typed, RowsTyped
  <1>. QED BY <1>1, <1>2, <1>3, <1>4 DEF Next

-----------------------------------------------------------------------------
(* Notifications: safety *)

\* A worker that lets rows go, and does not have the provider's answer for one
\* it keeps.
LEMMA HandShrinks ==
    ASSUME IInv, NEW w \in Workers, NEW x \in WorkerStates,
           x.step \in {"idle", "passing"},
           \A k \in DOMAIN x.hand : k \in Held(w) /\ ~Taken(w, k),
           worker' = [worker EXCEPT ![w] = x], UNCHANGED accepted
    PROVE  /\ worker'[w] = x /\ Held(w)' = DOMAIN x.hand
           /\ \A v \in Workers : v # w => Held(v)' = Held(v) /\ worker'[v] = worker[v]
           /\ \A k \in Keys, u, v \in Workers : k \in Held(u)' \cap Held(v)' => u = v
           /\ AnswersAreAwaited'
           /\ \A v \in Workers : \A k \in Held(v)' : accepted'[k] = 1 <=> Taken(v, k)'
  <1>1. worker'[w] = x /\ \A v \in Workers : v # w => worker'[v] = worker[v]
    BY DEF IInv, Typed
  <1>2. Held(w)' = DOMAIN x.hand /\ \A v \in Workers : v # w => Held(v)' = Held(v)
    BY <1>1 DEF Held
  <1>3. \A v \in Workers : Held(v)' \subseteq Held(v)
    BY <1>2
  <1>4. \A k \in Keys, u, v \in Workers : k \in Held(u)' \cap Held(v)' => u = v
    BY <1>3 DEF IInv, Sound, SendingIsHeldOnce
  <1>5. AnswersAreAwaited'
    BY <1>1, <1>2 DEF IInv, Sound, AnswersAreAwaited
  <1>6. ASSUME NEW v \in Workers, NEW k \in Held(v)'
        PROVE  accepted'[k] = 1 <=> Taken(v, k)'
    <2>1. CASE v = w
      <3>1. ~Taken(v, k)'
        BY <1>1, <2>1 DEF Taken
      <3>2. k \in Held(w) /\ ~Taken(w, k)
        BY <1>2, <1>6, <2>1
      <3>3. accepted[k] # 1
        BY <3>2 DEF IInv, Sound, TakenIsKnown
      <3>. QED BY <3>1, <3>3
    <2>2. CASE v # w
      <3>1. k \in Held(v) /\ (Taken(v, k)' <=> Taken(v, k))
        BY <1>1, <1>2, <1>6, <2>2 DEF Taken
      <3>. QED BY <3>1 DEF IInv, Sound, TakenIsKnown
    <2>. QED BY <2>1, <2>2
  <1>. QED BY <1>1, <1>2, <1>4, <1>5, <1>6

\* The worker marks a row of its own, and is done with it.
LEMMA MarkedSound ==
    ASSUME IInv, NEW w \in Workers, NEW k \in Held(w),
           \A x \in Held(w) : Taken(w, x) => x = k,
           worker[w].step # "idle",
           worker' = [worker EXCEPT ![w] = Without(w, k)], UNCHANGED accepted,
           \/ /\ row' = [row EXCEPT ![k].status = "SENT"]
              /\ Taken(w, k) \/ k[2] = Inbox
           \/ /\ row' = MarkFailed(k, MaxAttempts) \/ row' = MarkFailed(k, row[k].attempts)
              /\ ~Taken(w, k),
           faults' \in Nat, faults' >= faults
    PROVE  Sound'
  <1>1. k \in Keys /\ row[k].status = "SENDING" /\ faults \in Nat
    BY WorkerType, NotifyAssumption DEF IInv, Sound, SendingIsHeldOnce, Typed
  <1>2. /\ row'[k].status \in {"SENT", "FAILED", "QUEUED"}
        /\ \A x \in Keys : x # k => row'[x] = row[x]
    BY <1>1, MarkType DEF IInv
  <1>3. /\ Without(w, k) \in WorkerStates
        /\ Without(w, k).step \in {"idle", "passing"}
        /\ DOMAIN Without(w, k).hand = Held(w) \ {k}
    BY WithoutType DEF IInv
  <1>4. /\ Held(w)' = Held(w) \ {k}
        /\ \A v \in Workers : v # w => Held(v)' = Held(v)
        /\ \A x \in Keys, u, v \in Workers : x \in Held(u)' \cap Held(v)' => u = v
        /\ AnswersAreAwaited'
        /\ \A v \in Workers : \A x \in Held(v)' : accepted'[x] = 1 <=> Taken(v, x)'
    BY <1>3, HandShrinks
  <1>5. \A v \in Workers : \A x \in Held(v)' : x # k /\ x \in Held(v) /\ x \in Keys
    BY <1>1, <1>4, WorkerType DEF IInv, Sound, SendingIsHeldOnce
  <1>6. \A v \in Workers : \A x \in Held(v)' : row'[x].status = "SENDING"
    BY <1>2, <1>5 DEF IInv, Sound, SendingIsHeldOnce
  <1>7. (\E x \in Keys : Stranded(x)') => faults' > 0
    <2>1. \A x \in Keys : Stranded(x)' => Stranded(x)
      BY <1>2, <1>4 DEF Stranded
    <2>. QED BY <1>1, <2>1 DEF IInv, Sound, SendingIsHeldOnce
  <1>8. /\ accepted[k] = 1 <=> Taken(w, k)
        /\ accepted[k] \in {0, 1}
        /\ row'[k].status = "SENT" => Taken(w, k) \/ k[2] = Inbox
        /\ Taken(w, k) => row'[k].status = "SENT"
    <2>1. MarkFailed(k, MaxAttempts)[k].status # "SENT"
          /\ MarkFailed(k, row[k].attempts)[k].status # "SENT"
      BY <1>1 DEF MarkFailed, IInv, Typed, RowsTyped
    <2>2. [row EXCEPT ![k].status = "SENT"][k].status = "SENT"
      BY <1>1 DEF IInv, Typed, RowsTyped
    <2>. QED BY <1>1, <2>1, <2>2 DEF IInv, Sound, TakenIsKnown
  <1>9. SentIsTaken' /\ TakenIsKnown'
    BY <1>1, <1>2, <1>4, <1>8 DEF IInv, Sound, SentIsTaken, TakenIsKnown
  <1>. QED BY <1>4, <1>6, <1>7, <1>9 DEF Sound, SendingIsHeldOnce

\* A fault: the worker lets rows go without a mark on any.
LEMMA DroppedSound ==
    ASSUME IInv, NEW w \in Workers, NEW x \in WorkerStates,
           x.step \in {"idle", "passing"},
           \A k \in DOMAIN x.hand : k \in Held(w) /\ ~Taken(w, k),
           worker' = [worker EXCEPT ![w] = x], UNCHANGED <<row, accepted>>,
           Fault
    PROVE  Sound'
  <1>1. faults' > 0
    BY NotifyAssumption DEF IInv, Typed, Fault
  <1>2. /\ \A k \in Keys, u, v \in Workers : k \in Held(u)' \cap Held(v)' => u = v
        /\ AnswersAreAwaited'
        /\ \A v \in Workers : \A k \in Held(v)' : accepted'[k] = 1 <=> Taken(v, k)'
        /\ Held(w)' = DOMAIN x.hand
        /\ \A v \in Workers : v # w => Held(v)' = Held(v)
    BY HandShrinks, Zenon
  <1>3. \A v \in Workers : \A k \in Held(v)' : row'[k].status = "SENDING"
    <2>1. \A v \in Workers : \A k \in Held(v)' : k \in Held(v)
      BY <1>2
    <2>. QED BY <2>1 DEF IInv, Sound, SendingIsHeldOnce
  <1>4. SentIsTaken' /\ TakenIsKnown'
    BY <1>2 DEF IInv, Sound, SentIsTaken, TakenIsKnown
  <1>. QED BY <1>1, <1>2, <1>3, <1>4 DEF Sound, SendingIsHeldOnce

\* Nobody gets another row in hand, and no row in hand changes.
LEMMA FrameSound ==
    ASSUME IInv, UNCHANGED <<accepted, worker>>, faults' \in Nat, faults' >= faults,
           \A k \in Keys : \/ row'[k] = row[k]
                           \/ /\ row[k].status = "ABSENT"
                              /\ row'[k].status \in {"QUEUED", "SUPPRESSED"}
    PROVE  Sound'
  <1>1. \A w \in Workers : Held(w)' = Held(w) /\ Held(w) \subseteq Keys
    BY WorkerType DEF Held, IInv
  <1>2. \A k : \A w \in Workers : Taken(w, k)' <=> Taken(w, k)
    BY DEF Taken
  <1>3. SendingIsHeldOnce'
    <2>1. \A k \in Keys : Stranded(k)' => Stranded(k)
      BY <1>1 DEF Stranded
    <2>2. faults \in Nat
      BY NotifyAssumption DEF IInv, Typed
    <2>. QED BY <1>1, <2>1, <2>2 DEF IInv, Sound, SendingIsHeldOnce
  <1>4. AnswersAreAwaited'
    BY <1>1 DEF IInv, Sound, AnswersAreAwaited
  <1>5. TakenIsKnown' /\ SentIsTaken'
    BY <1>1, <1>2 DEF IInv, Sound, TakenIsKnown, SentIsTaken
  <1>. QED BY <1>3, <1>4, <1>5 DEF Sound

LEMMA ClaimSound ==
    ASSUME IInv, NEW w \in Workers, Claim(w)
    PROVE  Sound'
  <1>1. PICK S \in SUBSET Keys :
              /\ \A k \in S : row[k].status = "QUEUED" /\ row'[k].status = "SENDING"
              /\ \A k \in Keys \ S : row'[k] = row[k]
              /\ worker' = [worker EXCEPT ![w] = [step |-> "reading",
                                                  hand |-> [k \in S |-> Unread]]]
    BY ClaimedRows DEF IInv
  <1>2. /\ Held(w) = {} /\ UNCHANGED <<accepted, faults>>
    BY WorkerType DEF Claim, IInv, bounds
  <1>3. /\ worker'[w] = [step |-> "reading", hand |-> [k \in S |-> Unread]]
        /\ \A v \in Workers : v # w => worker'[v] = worker[v]
    BY <1>1 DEF IInv, Typed
  <1>4. Held(w)' = S /\ \A v \in Workers : v # w => Held(v)' = Held(v)
    BY <1>3 DEF Held
  <1>5. \A v \in Workers : Held(v) \subseteq Keys /\ Held(v) \cap S = {}
    BY <1>1, WorkerType DEF IInv, Sound, SendingIsHeldOnce
  <1>6. /\ \A k \in Keys, u, v \in Workers : k \in Held(u)' \cap Held(v)' => u = v
        /\ \A v \in Workers : \A k \in Held(v)' : row'[k].status = "SENDING"
    BY <1>1, <1>4, <1>5 DEF IInv, Sound, SendingIsHeldOnce
  <1>7. \A k \in Keys : Stranded(k)' => Stranded(k)
    BY <1>1, <1>2, <1>4 DEF Stranded
  <1>8. AnswersAreAwaited'
    BY <1>3, <1>4 DEF IInv, Sound, AnswersAreAwaited
  <1>9. \A k \in S : accepted[k] # 1 /\ ~Taken(w, k)'
    BY <1>1, <1>3 DEF IInv, Sound, TakenIsKnown, Taken
  <1>10. \A v \in Workers : \A k \in Held(v)' : accepted'[k] = 1 <=> Taken(v, k)'
    BY <1>2, <1>3, <1>4, <1>9 DEF IInv, Sound, TakenIsKnown, Taken
  <1>11. SentIsTaken' /\ TakenIsKnown'
    BY <1>1, <1>2, <1>10 DEF IInv, Sound, SentIsTaken, TakenIsKnown
  <1>. QED BY <1>2, <1>6, <1>7, <1>8, <1>11 DEF IInv, Sound, SendingIsHeldOnce

\* The rows in hand and the answer awaited are those of before.
LEMMA SameHands ==
    ASSUME IInv, NEW w \in Workers, UNCHANGED <<row, accepted, faults>>,
           \A v \in Workers : v # w => worker'[v] = worker[v],
           Held(w)' = Held(w), worker[w].step \in {"reading", "passing"},
           worker'[w].step \in {"reading", "passing"}
    PROVE  Sound'
  <1>1. \A v \in Workers : Held(v)' = Held(v)
    BY DEF Held
  <1>2. \A k : \A v \in Workers : Taken(v, k)' <=> Taken(v, k)
    BY DEF Taken
  <1>3. SendingIsHeldOnce'
    BY <1>1 DEF IInv, Sound, SendingIsHeldOnce, Stranded
  <1>4. AnswersAreAwaited'
    BY <1>1 DEF IInv, Sound, AnswersAreAwaited
  <1>5. TakenIsKnown' /\ SentIsTaken'
    BY <1>1, <1>2 DEF IInv, Sound, TakenIsKnown, SentIsTaken
  <1>. QED BY <1>3, <1>4, <1>5 DEF Sound

LEMMA ReadTokenSound ==
    ASSUME IInv, NEW w \in Workers, ReadToken(w)
    PROVE  Sound'
  <1>1. worker[w] \in [step : {"reading", "passing"}, hand : Hands]
    BY WorkerType DEF ReadToken, IInv
  <1>2. \E x : /\ worker' = [worker EXCEPT ![w] = x]
               /\ x.step \in {"reading", "passing"} /\ DOMAIN x.hand = DOMAIN worker[w].hand
    <2>1. CASE worker' = [worker EXCEPT ![w].step = "passing"]
      <3>1. /\ [worker[w] EXCEPT !.step = "passing"].step = "passing"
            /\ [worker[w] EXCEPT !.step = "passing"].hand = worker[w].hand
        BY <1>1
      <3>2. worker' = [worker EXCEPT ![w] = [worker[w] EXCEPT !.step = "passing"]]
        BY <2>1
      <3>. QED BY <3>1, <3>2
    <2>2. ASSUME NEW k, NEW v,
                 worker' = [worker EXCEPT ![w].hand = [worker[w].hand EXCEPT ![k] = v]]
          PROVE  \E x : /\ worker' = [worker EXCEPT ![w] = x]
                        /\ x.step \in {"reading", "passing"}
                        /\ DOMAIN x.hand = DOMAIN worker[w].hand
      <3>. DEFINE x == [worker[w] EXCEPT !.hand = [worker[w].hand EXCEPT ![k] = v]]
      <3>1. /\ x.step = worker[w].step
            /\ x.hand = [worker[w].hand EXCEPT ![k] = v]
        BY <1>1
      <3>2. DOMAIN x.hand = DOMAIN worker[w].hand
        BY <3>1
      <3>3. worker' = [worker EXCEPT ![w] = x]
        BY <2>2
      <3>. QED BY <1>1, <3>1, <3>2, <3>3
    <2>. QED BY <2>1, <2>2 DEF ReadToken
  <1>3. PICK x : /\ worker' = [worker EXCEPT ![w] = x]
                 /\ x.step \in {"reading", "passing"} /\ DOMAIN x.hand = DOMAIN worker[w].hand
    BY <1>2
  <1>4. worker'[w] = x /\ \A v \in Workers : v # w => worker'[v] = worker[v]
    BY <1>3 DEF IInv, Typed
  <1>5. Held(w)' = Held(w)
    BY <1>3, <1>4 DEF Held
  <1>. QED BY <1>1, <1>3, <1>4, <1>5, SameHands DEF ReadToken, bounds

LEMMA SendSound ==
    ASSUME IInv, NEW w \in Workers, SendPush(w)
    PROVE  Sound'
  <1>1. PICK k \in Held(w), answer \in {"accepted", "dead", "error"} :
            /\ worker' = [worker EXCEPT ![w] = [step |-> answer, hand |-> @.hand, at |-> k]]
            /\ accepted' = [accepted EXCEPT ![k] = IF answer = "accepted" THEN @ + 1 ELSE @]
    BY DEF SendPush, Held
  <1>2. /\ worker'[w] = [step |-> answer, hand |-> worker[w].hand, at |-> k]
        /\ \A v \in Workers : v # w => worker'[v] = worker[v]
    BY <1>1 DEF IInv, Typed
  <1>3. \A v \in Workers : Held(v)' = Held(v) /\ Held(v) \subseteq Keys
    BY <1>2, WorkerType DEF Held, IInv
  <1>4. UNCHANGED <<row, faults>> /\ worker[w].step = "passing"
    BY DEF SendPush, bounds
  <1>5. accepted[k] = 0 /\ k \in Keys /\ row[k].status = "SENDING"
    BY <1>3, <1>4 DEF IInv, Sound, TakenIsKnown, Taken, SendingIsHeldOnce
  <1>6. /\ accepted'[k] = IF answer = "accepted" THEN 1 ELSE 0
        /\ \A x \in Keys : x # k => accepted'[x] = accepted[x]
    BY <1>1, <1>5 DEF IInv, Typed
  <1>7. \A x \in Held(w) : x # k => accepted[x] # 1 /\ ~Taken(w, x)'
    BY <1>2, <1>4 DEF IInv, Sound, TakenIsKnown, Taken
  <1>8. accepted'[k] = 1 <=> Taken(w, k)'
    BY <1>2, <1>6 DEF Taken
  <1>9. \A v \in Workers : v # w => \A x \in Held(v) : x # k /\ (Taken(v, x)' <=> Taken(v, x))
    BY <1>1, <1>2, <1>3 DEF IInv, Sound, SendingIsHeldOnce, Taken
  <1>10. \A v \in Workers : \A x \in Held(v)' : accepted'[x] = 1 <=> Taken(v, x)'
    BY <1>3, <1>6, <1>7, <1>8, <1>9 DEF IInv, Sound, TakenIsKnown
  <1>11. TakenIsKnown' /\ SentIsTaken'
    BY <1>4, <1>5, <1>6, <1>10 DEF IInv, Sound, TakenIsKnown, SentIsTaken
  <1>12. AnswersAreAwaited'
    BY <1>2, <1>3 DEF IInv, Sound, AnswersAreAwaited
  <1>13. SendingIsHeldOnce'
    BY <1>3, <1>4 DEF IInv, Sound, SendingIsHeldOnce, Stranded
  <1>. QED BY <1>11, <1>12, <1>13 DEF Sound

\* A worker that passes no provider, writes down an answer, fails to, or dies.
LEMMA FinishSound ==
    ASSUME IInv, NEW w \in Workers,
           PassWithoutProvider(w) \/ MarkSent(w) \/ MarkDead(w) \/ MarkError(w) \/ Crash(w)
    PROVE  Sound'
  <1>. DEFINE at == worker[w].at
  <1>1. faults \in Nat /\ MaxFaults \in Nat
    BY NotifyAssumption DEF IInv, Typed
  <1>2. (\A x : Taken(w, x) => x = at) /\ (worker[w].step # "accepted" => \A x : ~Taken(w, x))
    BY DEF Taken
  <1>3. worker[w].step \in {"accepted", "dead", "error"} => at \in Held(w)
    BY DEF IInv, Sound, AnswersAreAwaited
  <1>4. worker[w].step # "idle" => \A k :
            /\ Without(w, k) \in WorkerStates
            /\ Without(w, k).step \in {"idle", "passing"}
            /\ DOMAIN Without(w, k).hand = Held(w) \ {k}
    BY WithoutType DEF IInv
  <1>5. CASE PassWithoutProvider(w)
    <2>1. PICK k \in Held(w) :
            \/ /\ row' = [row EXCEPT ![k].status = "SENT"] /\ k[2] = Inbox
               /\ worker' = [worker EXCEPT ![w] = Without(w, k)] /\ UNCHANGED faults
            \/ /\ Fault /\ worker' = [worker EXCEPT ![w] = Resting] /\ UNCHANGED row
            \/ /\ row' = MarkFailed(k, MaxAttempts) /\ UNCHANGED faults
               /\ worker' = [worker EXCEPT ![w] = Without(w, k)]
            \/ /\ Fault /\ UNCHANGED row /\ worker' = [worker EXCEPT ![w] = Without(w, k)]
      BY <1>5 DEF PassWithoutProvider, Held
    <2>2. UNCHANGED accepted /\ worker[w].step = "passing"
      BY <1>5 DEF PassWithoutProvider
    <2>3. CASE Fault /\ UNCHANGED row
      BY <1>2, <1>4, <2>1, <2>2, <2>3, DroppedSound, RestingType
    <2>4. CASE row' # row \/ ~Fault
      BY <1>1, <1>2, <2>1, <2>2, <2>4, MarkedSound
    <2>. QED BY <2>3, <2>4
  <1>6. CASE MarkSent(w)
    <2>1. at \in Held(w) /\ Taken(w, at) /\ UNCHANGED accepted /\ worker[w].step = "accepted"
      BY <1>3, <1>6 DEF MarkSent, Taken
    <2>2. CASE Fault /\ UNCHANGED row
      <3>1. worker' = [worker EXCEPT ![w] = Resting] \/ worker' = [worker EXCEPT ![w] = Without(w, at)]
        BY <1>6 DEF MarkSent
      <3>. QED BY <1>2, <1>4, <2>1, <2>2, <3>1, DroppedSound, RestingType
    <2>3. CASE ~(Fault /\ UNCHANGED row)
      <3>1. /\ row' = [row EXCEPT ![at].status = "SENT"]
            /\ worker' = [worker EXCEPT ![w] = Without(w, at)] /\ UNCHANGED faults
        BY <1>6, <2>3 DEF MarkSent
      <3>2. faults' \in Nat /\ faults' >= faults /\ \A x \in Held(w) : Taken(w, x) => x = at
        BY <1>1, <1>2, <3>1
      <3>3. worker[w].step # "idle"
        BY <2>1
      <3>. QED BY <2>1, <3>1, <3>2, <3>3, MarkedSound
    <2>. QED BY <2>2, <2>3
  <1>7. CASE MarkDead(w) \/ MarkError(w)
    <2>1. /\ at \in Held(w) /\ UNCHANGED accepted /\ \A x : ~Taken(w, x)
          /\ worker[w].step # "idle"
          /\ worker' = [worker EXCEPT ![w] = Without(w, at)]
      BY <1>2, <1>3, <1>7 DEF MarkDead, MarkError
    <2>2. \/ Fault /\ UNCHANGED row
          \/ /\ row' = MarkFailed(at, MaxAttempts) \/ row' = MarkFailed(at, row[at].attempts)
             /\ faults' \in Nat /\ faults' >= faults
      BY <1>1, <1>7 DEF MarkDead, MarkError, Fault
    <2>3. CASE Fault /\ UNCHANGED row
      BY <1>4, <2>1, <2>3, DroppedSound
    <2>4. CASE ~(Fault /\ UNCHANGED row)
      BY <2>1, <2>2, <2>4, MarkedSound
    <2>. QED BY <2>3, <2>4
  <1>8. CASE Crash(w)
    BY <1>8, DroppedSound, RestingType DEF Crash
  <1>. QED BY <1>5, <1>6, <1>7, <1>8

LEMMA SoundNext == IInv /\ [Next]_vars => Sound'
  <1>. SUFFICES ASSUME IInv, [Next]_vars PROVE Sound'
    OBVIOUS
  <1>1. faults \in Nat /\ MaxFaults \in Nat
    BY NotifyAssumption DEF IInv, Typed
  <1>2. CASE \/ \E u \in Users, ph \in Phones, t \in Tokens : RegisterDevice(u, ph, t)
             \/ \E u \in Users, ph \in Phones : RevokeDevice(u, ph)
             \/ \E u \in Users : SetPreference(u)
             \/ \E c \in Callers, e \in Events : ReadPreference(c, e)
             \/ \E c \in Callers : ReadDevices(c)
             \/ UNCHANGED vars
    <2>1. UNCHANGED <<row, worker, accepted, faults>>
      BY <1>2 DEF RegisterDevice, RevokeDevice, SetPreference, ReadPreference, ReadDevices,
                  bounds, vars
    <2>. QED BY <1>1, <2>1, FrameSound
  <1>3. ASSUME NEW c \in Callers, Enqueue(c)
        PROVE  Sound'
    <2>1. \A k \in Keys : \/ row'[k] = row[k]
                          \/ row[k].status = "ABSENT" /\ row'[k].status \in {"QUEUED", "SUPPRESSED"}
      BY <1>3, EnqueueKey, InsertedType DEF IInv
    <2>2. UNCHANGED <<worker, accepted>> /\ faults' \in Nat /\ faults' >= faults
      <3>1. UNCHANGED <<worker, accepted>> /\ (faults' = faults \/ faults' = faults + 1)
        BY <1>3 DEF Enqueue, Fault
      <3>. QED BY <1>1, <3>1
    <2>. QED BY <2>1, <2>2, FrameSound
  <1>4. ASSUME NEW w \in Workers, Pass(w) \/ Crash(w)
        PROVE  Sound'
    BY <1>4, ClaimSound, ReadTokenSound, SendSound, FinishSound DEF Pass
  <1>. QED BY <1>2, <1>3, <1>4 DEF Next

LEMMA SoundInit == Init => Sound
  BY DEF Init, Sound, SendingIsHeldOnce, Stranded, Held, Resting, AnswersAreAwaited,
         TakenIsKnown, Taken, SentIsTaken

LEMMA Inductive == Spec => []IInv
  <1>1. Init => IInv
    BY TypedInit, SoundInit DEF IInv
  <1>2. IInv /\ [Next]_vars => IInv'
    BY TypedNext, SoundNext DEF IInv, Sound
  <1>. QED BY <1>1, <1>2, PTL DEF Spec

-----------------------------------------------------------------------------
(* The theorems about notifications *)

\* Every reachable state is typed: attempts never pass MaxAttempts, a queued row
\* can still be claimed, and only a claim counts an attempt.
THEOREM TypeCorrect == Spec => []TypeOK
  <1>1. IInv => TypeOK
    BY TypedIsTypeOK DEF IInv
  <1>. QED BY <1>1, Inductive, PTL

\* However many workers, repeats of an event and faults there are, no row is in
\* two hands, the provider takes no notification twice, a SENT one was taken,
\* and only a fault leaves one SENDING that nobody holds.
THEOREM NobodyIsToldTwice == Spec => []TellingIsSound
  <1>1. IInv => TellingIsSound
    <2>. SUFFICES ASSUME IInv PROVE ToldOnce
      BY DEF IInv, Sound, TellingIsSound
    <2>. QED BY DEF IInv, Sound, ToldOnce, TakenIsKnown, SentIsTaken
  <1>. QED BY <1>1, Inductive, PTL

-----------------------------------------------------------------------------
(* Rows and workers get on *)

\* A notification's row only moves on.  It is claimed from the queue, by a worker
\* and for an attempt more; one that was sent, given up or suppressed stays so;
\* and one that a fault left SENDING in nobody's hands stays that for ever, for a
\* claim takes QUEUED rows alone (notify.Store.Claim).
RowsMoveOn ==
    [][\A k \in Keys :
          /\ row'[k].attempts >= row[k].attempts
          /\ row[k].status = "QUEUED" /\ row'[k] # row[k] =>
                /\ row'[k] = [status |-> "SENDING", attempts |-> row[k].attempts + 1]
                /\ \E w \in Workers : k \in Held(w)'
          /\ row[k].status \in {"SENT", "FAILED", "SUPPRESSED"} => row'[k] = row[k]
          /\ Stranded(k) => row'[k] = row[k] /\ Stranded(k)']_vars

\* The guards of a worker's steps.
CanPass(w) ==
    \/ /\ worker[w].step = "idle"
       /\ \E k \in Keys : row[k].status = "QUEUED" /\ row[k].attempts < MaxAttempts
    \/ worker[w].step = "reading"
    \/ worker[w].step = "passing" /\ Held(w) # {}
    \/ worker[w].step \in {"accepted", "dead", "error"} /\ worker[w].at \in Held(w)

Leg == [reading |-> 2, passing |-> 1, accepted |-> 0, dead |-> 0, error |-> 0]

\* The rows in hand whose tokens are still to be read.
Unasked(x) == {k \in DOMAIN x.hand : x.hand[k] = Unread /\ k[2] # Inbox}

\* A worker has less of its pass before it: none, fewer rows in hand, less to do
\* for one of them, fewer tokens to read.
LessInHand(s, r) ==
    \/ s.step = "idle"
    \/ Cardinality(DOMAIN s.hand) < Cardinality(DOMAIN r.hand)
    \/ /\ DOMAIN s.hand = DOMAIN r.hand
       /\ \/ Leg[s.step] < Leg[r.step]
          \/ s.step = r.step /\ Cardinality(Unasked(s)) < Cardinality(Unasked(r))

\* While a row waits, every worker has a step to take; each step of its pass, a
\* fault included, leaves it less of it, and nobody else's gives it more; and a
\* pass begins with an attempt more at some row, which has MaxAttempts.  With
\* finitely many rows and the weak fairness of the workers this is QueueDrains, by
\* descent on four natural numbers.
WorkersGetOn ==
    /\ [](\A w \in Workers :
             worker[w].step # "idle" \/ (\E k \in Keys : row[k].status = "QUEUED") => CanPass(w))
    /\ [][\A w \in Workers : worker[w].step # "idle" =>
             \/ LessInHand(worker'[w], worker[w])
             \/ ~Pass(w) /\ worker'[w] = worker[w]]_vars
    /\ [][\A w \in Workers : worker[w].step = "idle" /\ worker'[w].step # "idle" =>
             \E k \in Keys : row'[k].attempts > row[k].attempts]_vars

\* What it takes: a worker at work has rows in hand, finitely many.
Loaded ==
    \A w \in Workers : worker[w].step # "idle" => Held(w) # {} /\ IsFiniteSet(Held(w))

\* A worker's own step: it rests, is done with a row, has read all tokens or one
\* more, or has asked the provider.
PassMove(r, s) ==
    \/ s.step = "idle" /\ DOMAIN s.hand = {}
    \/ /\ s.step = "passing" /\ DOMAIN s.hand # {}
       /\ \E k \in DOMAIN r.hand : DOMAIN s.hand = DOMAIN r.hand \ {k}
    \/ r.step = "reading" /\ s.step = "passing" /\ s.hand = r.hand
    \/ r.step = "passing" /\ s.step \in {"accepted", "dead", "error"} /\ s.hand = r.hand
    \/ /\ r.step = "reading" /\ s.step = "reading" /\ DOMAIN s.hand = DOMAIN r.hand
       /\ \E k \in Unasked(r) : Unasked(s) = Unasked(r) \ {k}

\* What is left when a row is done with.
LEMMA WithoutMove ==
    ASSUME Typed, NEW w \in Workers, worker[w].step # "idle", NEW k \in Held(w)
    PROVE  PassMove(worker[w], Without(w, k))
  <1>1. /\ Without(w, k).step \in {"idle", "passing"}
        /\ DOMAIN Without(w, k).hand = Held(w) \ {k}
    BY WithoutType
  <1>2. CASE Held(w) \ {k} = {}
    <2>1. Without(w, k) = Resting
      BY <1>2 DEF Without, Held
    <2>. QED BY <1>1, <1>2, <2>1 DEF PassMove, Resting
  <1>3. CASE Held(w) \ {k} # {}
    <2>1. Without(w, k).step = "passing"
      BY <1>3 DEF Without, Held
    <2>. QED BY <1>1, <1>3, <2>1 DEF PassMove, Held
  <1>. QED BY <1>2, <1>3

LEMMA ReadingMove ==
    ASSUME Typed, NEW w \in Workers, ReadToken(w)
    PROVE  PassMove(worker[w], worker'[w])
  <1>1. /\ worker[w] \in [step : {"reading", "passing"}, hand : Hands]
        /\ worker[w].step = "reading" /\ Held(w) \subseteq Keys
    BY WorkerType DEF ReadToken
  <1>2. CASE worker' = [worker EXCEPT ![w].step = "passing"]
    <2>1. worker'[w] = [worker[w] EXCEPT !.step = "passing"]
      BY <1>2 DEF Typed
    <2>2. worker'[w].step = "passing" /\ worker'[w].hand = worker[w].hand
      BY <1>1, <2>1
    <2>. QED BY <1>1, <2>2 DEF PassMove
  <1>3. ASSUME NEW k \in Unasked(worker[w]), NEW t \in TokensFound(k),
               worker' = [worker EXCEPT ![w].hand = [worker[w].hand EXCEPT ![k] = t]]
        PROVE  PassMove(worker[w], worker'[w])
    <2>1. k \in Held(w) /\ k \in Keys /\ k[2] # Inbox
      BY <1>1 DEF Unasked, Held
    <2>2. DeviceOf(k) \in Devices
      BY <2>1, NotifyAssumption DEF Keys, Devices, DeviceOf
    <2>3. t # Unread
      <3>1. t \in Tokens \cup {NoToken}
        BY <1>3, <2>2 DEF Typed, TokensFound
      <3>2. NoToken # Unread
        BY DEF NoToken, Unread
      <3>3. Unread \notin Tokens
        BY TokenAssumption
      <3>. QED BY <3>1, <3>2, <3>3
    <2>4. worker'[w] = [worker[w] EXCEPT !.hand = [worker[w].hand EXCEPT ![k] = t]]
      BY <1>3 DEF Typed
    <2>5. /\ worker'[w].step = "reading"
          /\ worker'[w].hand = [worker[w].hand EXCEPT ![k] = t]
      BY <1>1, <2>4
    <2>6. /\ DOMAIN worker'[w].hand = DOMAIN worker[w].hand
          /\ worker'[w].hand[k] = t
          /\ \A x \in DOMAIN worker[w].hand : x # k => worker'[w].hand[x] = worker[w].hand[x]
      <3>1. PICK S \in SUBSET Keys : worker[w].hand \in [S -> Tokens \cup {NoToken, Unread}]
        BY <1>1 DEF Hands
      <3>. QED BY <2>1, <2>5, <3>1 DEF Held
    <2>7. Unasked(worker'[w]) = Unasked(worker[w]) \ {k}
      BY <2>3, <2>6 DEF Unasked
    <2>. QED BY <1>1, <2>5, <2>6, <2>7 DEF PassMove
  <1>. QED BY <1>2, <1>3 DEF ReadToken, Unasked

LEMMA PassMoves ==
    ASSUME IInv, NEW w \in Workers, Pass(w) \/ Crash(w), worker[w].step # "idle"
    PROVE  PassMove(worker[w], worker'[w])
  <1>1. ASSUME NEW x, worker' = [worker EXCEPT ![w] = x]
        PROVE  worker'[w] = x
    BY <1>1 DEF IInv, Typed
  <1>2. PassMove(worker[w], Resting)
    BY DEF PassMove, Resting
  <1>3. \A k \in Held(w) : PassMove(worker[w], Without(w, k))
    BY WithoutMove DEF IInv
  <1>4. CASE Claim(w)
    BY <1>4 DEF Claim
  <1>5. CASE ReadToken(w)
    BY <1>5, ReadingMove DEF IInv
  <1>6. CASE PassWithoutProvider(w)
    <2>1. \/ worker' = [worker EXCEPT ![w] = Resting]
          \/ \E k \in Held(w) : worker' = [worker EXCEPT ![w] = Without(w, k)]
      BY <1>6 DEF PassWithoutProvider, Held
    <2>2. CASE worker' = [worker EXCEPT ![w] = Resting]
      BY <1>1, <1>2, <2>2
    <2>3. ASSUME NEW k \in Held(w), worker' = [worker EXCEPT ![w] = Without(w, k)]
          PROVE  PassMove(worker[w], worker'[w])
      BY <1>1, <1>3, <2>3
    <2>. QED BY <2>1, <2>2, <2>3
  <1>7. CASE SendPush(w)
    <2>1. PICK k \in Held(w), answer \in {"accepted", "dead", "error"} :
            worker' = [worker EXCEPT ![w] = [step |-> answer, hand |-> @.hand, at |-> k]]
      BY <1>7 DEF SendPush, Held
    <2>2. worker'[w] = [step |-> answer, hand |-> worker[w].hand, at |-> k]
      BY <2>1 DEF IInv, Typed
    <2>3. /\ worker'[w].step \in {"accepted", "dead", "error"}
          /\ worker'[w].hand = worker[w].hand /\ worker[w].step = "passing"
      BY <1>7, <2>2 DEF SendPush
    <2>. QED BY <2>3 DEF PassMove
  <1>8. CASE MarkSent(w) \/ MarkDead(w) \/ MarkError(w)
    <2>1. worker[w].at \in Held(w)
      BY <1>8 DEF MarkSent, MarkDead, MarkError, IInv, Sound, AnswersAreAwaited
    <2>2. \/ worker' = [worker EXCEPT ![w] = Resting]
          \/ worker' = [worker EXCEPT ![w] = Without(w, worker[w].at)]
      BY <1>8 DEF MarkSent, MarkDead, MarkError
    <2>. QED BY <1>1, <1>2, <1>3, <2>1, <2>2
  <1>9. CASE Crash(w)
    BY <1>1, <1>2, <1>9 DEF Crash
  <1>. QED BY <1>4, <1>5, <1>6, <1>7, <1>8, <1>9 DEF Pass

\* A claim puts rows in an idle worker's hand, and counts an attempt of each.
LEMMA ClaimMove ==
    ASSUME IInv, NEW w \in Workers, Claim(w)
    PROVE  /\ Held(w)' # {} /\ IsFiniteSet(Held(w)')
           /\ \A k \in Held(w)' : /\ k \in Keys /\ row[k].status = "QUEUED"
                                  /\ row'[k] = [status |-> "SENDING",
                                                attempts |-> row[k].attempts + 1]
           /\ \A k \in Keys : k \notin Held(w)' => row'[k] = row[k]
  <1>1. PICK S \in SUBSET {k \in Keys : row[k].status = "QUEUED"
                                        /\ row[k].attempts < MaxAttempts} :
          /\ S # {} /\ IsFiniteSet(S)
          /\ row' = [k \in Keys |-> IF k \in S THEN [status |-> "SENDING",
                                                     attempts |-> row[k].attempts + 1]
                                    ELSE row[k]]
          /\ worker' = [worker EXCEPT ![w] = [step |-> "reading",
                                              hand |-> [k \in S |-> Unread]]]
    BY DEF Claim
  <1>2. worker'[w] = [step |-> "reading", hand |-> [k \in S |-> Unread]]
    BY <1>1 DEF IInv, Typed
  <1>3. Held(w)' = S
    BY <1>2 DEF Held
  <1>. QED BY <1>1, <1>3

\* The steps of one worker leave the others' passes alone, and everybody else's
\* leave them all.
LEMMA OthersPasses ==
    ASSUME IInv, [Next]_vars, NEW v \in Workers, ~(Pass(v) \/ Crash(v))
    PROVE  worker'[v] = worker[v]
  <1>1. ASSUME NEW w \in Workers, Pass(w) \/ Crash(w)
        PROVE  worker'[v] = worker[v]
    <2>1. w # v
      BY <1>1
    <2>2. \E x : worker' = [worker EXCEPT ![w] = x]
      <3>1. CASE ReadToken(w)
        <4>1. CASE worker' = [worker EXCEPT ![w].step = "passing"]
          BY <4>1
        <4>2. ASSUME NEW h, worker' = [worker EXCEPT ![w].hand = h]
              PROVE  \E x : worker' = [worker EXCEPT ![w] = x]
          BY <4>2
        <4>. QED BY <3>1, <4>1, <4>2 DEF ReadToken
      <3>2. CASE Claim(w)
        BY <3>2 DEF Claim
      <3>3. CASE PassWithoutProvider(w) \/ MarkSent(w) \/ MarkDead(w) \/ MarkError(w) \/ Crash(w)
        BY <3>3 DEF PassWithoutProvider, MarkSent, MarkDead, MarkError, Crash
      <3>4. CASE SendPush(w)
        BY <3>4 DEF SendPush
      <3>. QED BY <1>1, <3>1, <3>2, <3>3, <3>4 DEF Pass
    <2>. QED BY <2>1, <2>2 DEF IInv, Typed
  <1>2. CASE ~\E w \in Workers : Pass(w) \/ Crash(w)
    <2>1. worker' = worker
      BY <1>2 DEF Next, RegisterDevice, RevokeDevice, SetPreference, ReadPreference,
                  ReadDevices, Enqueue, vars
    <2>. QED BY <2>1
  <1>. QED BY <1>1, <1>2

\* An idle worker claims.
LEMMA IdleClaims ==
    ASSUME NEW w \in Workers, Pass(w) \/ Crash(w), worker[w].step = "idle"
    PROVE  Claim(w)
  <1>1. ReadToken(w) => worker[w].step = "reading"
    BY DEF ReadToken
  <1>2. PassWithoutProvider(w) \/ SendPush(w) => worker[w].step = "passing"
    BY DEF PassWithoutProvider, SendPush
  <1>3. MarkSent(w) \/ MarkDead(w) \/ MarkError(w) =>
            worker[w].step \in {"accepted", "dead", "error"}
    BY DEF MarkSent, MarkDead, MarkError
  <1>4. ~Crash(w)
    BY DEF Crash
  <1>. QED BY <1>1, <1>2, <1>3, <1>4 DEF Pass

LEMMA LoadedStep ==
    ASSUME IInv, Loaded, [Next]_vars
    PROVE  Loaded'
  <1>. SUFFICES ASSUME NEW w \in Workers, worker'[w].step # "idle"
                PROVE  Held(w)' # {} /\ IsFiniteSet(Held(w)')
    BY DEF Loaded
  <1>1. CASE ~(Pass(w) \/ Crash(w))
    <2>1. worker'[w] = worker[w]
      BY <1>1, OthersPasses
    <2>2. Held(w)' = Held(w)
      BY <2>1 DEF Held
    <2>. QED BY <2>1, <2>2 DEF Loaded
  <1>2. CASE (Pass(w) \/ Crash(w)) /\ worker[w].step = "idle"
    <2>1. Claim(w)
      BY <1>2, IdleClaims
    <2>. QED BY <2>1, ClaimMove
  <1>3. CASE (Pass(w) \/ Crash(w)) /\ worker[w].step # "idle"
    <2>1. PassMove(worker[w], worker'[w]) /\ Held(w) # {} /\ IsFiniteSet(Held(w))
      BY <1>3, PassMoves DEF Loaded
    <2>2. DOMAIN worker'[w].hand # {} /\ DOMAIN worker'[w].hand \subseteq DOMAIN worker[w].hand
      BY <2>1 DEF PassMove, Held
    <2>3. Held(w)' # {} /\ Held(w)' \subseteq Held(w)
      BY <2>2 DEF Held
    <2>. QED BY <2>1, <2>3, FS_Subset
  <1>. QED BY <1>1, <1>2, <1>3

LEMMA PassGetsOn ==
    ASSUME IInv, Loaded, NEW w \in Workers, Pass(w) \/ Crash(w), worker[w].step # "idle"
    PROVE  LessInHand(worker'[w], worker[w])
  <1>1. PICK r, s : r = worker[w] /\ s = worker'[w] /\ PassMove(r, s)
    BY PassMoves
  <1>2. IsFiniteSet(DOMAIN r.hand)
    BY <1>1 DEF Loaded, Held
  <1>3. CASE s.step = "idle"
    BY <1>1, <1>3 DEF LessInHand
  <1>4. ASSUME NEW k \in DOMAIN r.hand, DOMAIN s.hand = DOMAIN r.hand \ {k}
        PROVE  LessInHand(s, r)
    <2>1. Cardinality(DOMAIN s.hand) = Cardinality(DOMAIN r.hand) - 1
      BY <1>2, <1>4, FS_RemoveElement
    <2>2. Cardinality(DOMAIN r.hand) \in Nat
      BY <1>2, FS_CardinalityType
    <2>3. Cardinality(DOMAIN s.hand) < Cardinality(DOMAIN r.hand)
      BY <2>1, <2>2
    <2>. QED BY <2>3 DEF LessInHand
  <1>5. CASE \/ r.step = "reading" /\ s.step = "passing" /\ s.hand = r.hand
             \/ r.step = "passing" /\ s.step \in {"accepted", "dead", "error"} /\ s.hand = r.hand
    <2>1. Leg[s.step] < Leg[r.step]
      BY <1>5 DEF Leg
    <2>2. DOMAIN s.hand = DOMAIN r.hand
      BY <1>5
    <2>. QED BY <1>1, <2>1, <2>2 DEF LessInHand
  <1>6. ASSUME r.step = "reading", s.step = "reading", DOMAIN s.hand = DOMAIN r.hand,
               NEW k \in Unasked(r), Unasked(s) = Unasked(r) \ {k}
        PROVE  LessInHand(s, r)
    <2>1. Unasked(r) \subseteq DOMAIN r.hand
      BY DEF Unasked
    <2>2. IsFiniteSet(Unasked(r))
      BY <1>2, <2>1, FS_Subset
    <2>3. /\ Cardinality(Unasked(s)) = Cardinality(Unasked(r)) - 1
          /\ Cardinality(Unasked(r)) \in Nat
      BY <1>6, <2>2, FS_RemoveElement, FS_CardinalityType
    <2>4. Cardinality(Unasked(s)) < Cardinality(Unasked(r))
      BY <2>3
    <2>. QED BY <1>6, <2>4 DEF LessInHand
  <1>7. LessInHand(s, r)
    BY <1>1, <1>3, <1>4, <1>5, <1>6 DEF PassMove
  <1>. QED BY <1>1, <1>7

\* notify.Worker: a row that waits is claimed by and by, whoever works and whatever
\* fails, for no worker is ever held up and no pass goes on for ever.
THEOREM WorkersAreNeverHeldUp == Spec => WorkersGetOn
  <1>. DEFINE Ready == \A w \in Workers :
                  worker[w].step # "idle" \/ (\E k \in Keys : row[k].status = "QUEUED") => CanPass(w)
              Descends == \A w \in Workers : worker[w].step # "idle" =>
                  \/ LessInHand(worker'[w], worker[w])
                  \/ ~Pass(w) /\ worker'[w] = worker[w]
              Counts == \A w \in Workers : worker[w].step = "idle" /\ worker'[w].step # "idle" =>
                  \E k \in Keys : row'[k].attempts > row[k].attempts
  <1>1. IInv /\ Loaded => Ready
    <2>. SUFFICES ASSUME IInv, Loaded, NEW w \in Workers,
                         worker[w].step # "idle" \/ (\E k \in Keys : row[k].status = "QUEUED")
                  PROVE  CanPass(w)
      OBVIOUS
    <2>1. worker[w].step \in {"idle", "reading", "passing", "accepted", "dead", "error"}
      BY WorkerType DEF IInv
    <2>2. CASE worker[w].step = "idle"
      <3>1. PICK k \in Keys : row[k].status = "QUEUED"
        BY <2>2
      <3>2. row[k].attempts < MaxAttempts
        BY <3>1 DEF IInv, Typed, RowsTyped
      <3>. QED BY <2>2, <3>1, <3>2 DEF CanPass
    <2>. QED BY <2>1, <2>2 DEF CanPass, Loaded, IInv, Sound, AnswersAreAwaited
  <1>2. IInv /\ Loaded /\ [Next]_vars => [Descends]_vars
    <2>. SUFFICES ASSUME IInv, Loaded, [Next]_vars, NEW w \in Workers, worker[w].step # "idle"
                  PROVE  \/ LessInHand(worker'[w], worker[w])
                         \/ ~Pass(w) /\ worker'[w] = worker[w]
      OBVIOUS
    <2>1. CASE Pass(w) \/ Crash(w)
      BY <2>1, PassGetsOn
    <2>2. CASE ~(Pass(w) \/ Crash(w))
      BY <2>2, OthersPasses
    <2>. QED BY <2>1, <2>2
  <1>3. IInv /\ [Next]_vars => [Counts]_vars
    <2>. SUFFICES ASSUME IInv, [Next]_vars, NEW w \in Workers,
                         worker[w].step = "idle", worker'[w].step # "idle"
                  PROVE  \E k \in Keys : row'[k].attempts > row[k].attempts
      OBVIOUS
    <2>1. Pass(w) \/ Crash(w)
      BY OthersPasses
    <2>2. Claim(w)
      BY <2>1, IdleClaims
    <2>3. PICK k \in Held(w)' :
              k \in Keys /\ row'[k] = [status |-> "SENDING", attempts |-> row[k].attempts + 1]
      BY <2>2, ClaimMove
    <2>4. row'[k].attempts = row[k].attempts + 1
      BY <2>3
    <2>5. row[k].attempts \in Nat
      BY <2>3, NotifyAssumption DEF IInv, Typed, RowsTyped
    <2>. QED BY <2>3, <2>4, <2>5
  <1>4. Init => Loaded
    BY DEF Init, Loaded, Resting
  <1>5. IInv /\ Loaded /\ [Next]_vars => Loaded'
    BY LoadedStep
  <1>6. Spec => []Loaded
    BY <1>4, <1>5, Inductive, PTL DEF Spec
  <1>. QED BY <1>1, <1>2, <1>3, <1>6, Inductive, PTL DEF Spec, WorkersGetOn

\* A row that a worker marks moves as its mark says, and keeps its attempts.
LEMMA MarkMove ==
    ASSUME IInv, NEW k \in Keys, row[k].status = "SENDING",
           \/ row' = [row EXCEPT ![k].status = "SENT"]
           \/ row' = MarkFailed(k, MaxAttempts) \/ row' = MarkFailed(k, row[k].attempts)
    PROVE  row'[k].attempts = row[k].attempts /\ \A x \in Keys : x # k => row'[x] = row[x]
  <1>1. PICK s : row' = [row EXCEPT ![k].status = s]
    BY DEF MarkFailed
  <1>2. row \in [Keys -> [status : Statuses, attempts : 0..MaxAttempts]]
    BY DEF IInv, Typed, RowsTyped
  <1>. QED BY <1>1, <1>2

\* The rows that a worker's step after the claim changes are in its hand.
LEMMA MarksAreOfTheHand ==
    ASSUME IInv, NEW w \in Workers, Pass(w) \/ Crash(w), ~Claim(w)
    PROVE  \/ row' = row
           \/ \E k \in Held(w) :
                 /\ k \in Keys /\ row[k].status = "SENDING"
                 /\ row'[k].attempts = row[k].attempts
                 /\ \A x \in Keys : x # k => row'[x] = row[x]
  <1>1. \A k \in Held(w) : k \in Keys /\ row[k].status = "SENDING"
    BY WorkerType DEF IInv, Sound, SendingIsHeldOnce
  <1>2. \/ row' = row
        \/ \E k \in Held(w) :
              \/ row' = [row EXCEPT ![k].status = "SENT"]
              \/ row' = MarkFailed(k, MaxAttempts) \/ row' = MarkFailed(k, row[k].attempts)
    <2>1. CASE PassWithoutProvider(w)
      BY <2>1 DEF PassWithoutProvider, Held
    <2>2. CASE MarkSent(w) \/ MarkDead(w) \/ MarkError(w)
      <3>1. worker[w].at \in Held(w)
        BY <2>2 DEF MarkSent, MarkDead, MarkError, IInv, Sound, AnswersAreAwaited
      <3>. QED BY <2>2, <3>1 DEF MarkSent, MarkDead, MarkError
    <2>3. CASE ReadToken(w) \/ SendPush(w) \/ Crash(w)
      BY <2>3 DEF ReadToken, SendPush, Crash
    <2>. QED BY <2>1, <2>2, <2>3 DEF Pass
  <1>. QED BY <1>1, <1>2, MarkMove

\* A row is written by an enqueue where there was none, by a claim where it was
\* queued, and otherwise by the worker that has it in hand.
LEMMA WhoWritesRows ==
    ASSUME IInv, [Next]_vars, NEW k \in Keys, row'[k] # row[k]
    PROVE  \/ row[k].status = "ABSENT"
           \/ /\ row[k].status = "QUEUED"
              /\ row'[k] = [status |-> "SENDING", attempts |-> row[k].attempts + 1]
              /\ \E w \in Workers : k \in Held(w)'
           \/ /\ row[k].status = "SENDING" /\ row'[k].attempts = row[k].attempts
              /\ \E w \in Workers : k \in Held(w)
  <1>1. ASSUME NEW w \in Workers, Claim(w)
        PROVE  /\ row[k].status = "QUEUED"
               /\ row'[k] = [status |-> "SENDING", attempts |-> row[k].attempts + 1]
               /\ k \in Held(w)'
    BY <1>1, ClaimMove
  <1>2. ASSUME NEW w \in Workers, Pass(w) \/ Crash(w), ~Claim(w)
        PROVE  /\ row[k].status = "SENDING" /\ row'[k].attempts = row[k].attempts
               /\ k \in Held(w)
    BY <1>2, MarksAreOfTheHand
  <1>3. ASSUME NEW c \in Callers, Enqueue(c)
        PROVE  row[k].status = "ABSENT"
    BY <1>3, EnqueueKey, InsertedType DEF IInv
  <1>4. CASE /\ ~\E w \in Workers : Pass(w) \/ Crash(w)
             /\ ~\E c \in Callers : Enqueue(c)
    BY <1>4 DEF Next, RegisterDevice, RevokeDevice, SetPreference, ReadPreference,
                ReadDevices, bounds, vars
  <1>. QED BY <1>1, <1>2, <1>3, <1>4

\* A row that is absent has no attempts, and an enqueue none to take away.
LEMMA AttemptsGrow ==
    ASSUME IInv, IInv', [Next]_vars, NEW k \in Keys
    PROVE  row'[k].attempts >= row[k].attempts
  <1>1. row[k].attempts \in Nat /\ row'[k].attempts \in Nat
    BY NotifyAssumption DEF IInv, Typed, RowsTyped
  <1>2. row[k].status = "ABSENT" => row[k].attempts = 0
    BY <1>1, NotifyAssumption DEF IInv, Typed, RowsTyped
  <1>3. CASE row'[k] = row[k]
    BY <1>1, <1>3
  <1>4. CASE row'[k] # row[k]
    <2>1. \/ row[k].status = "ABSENT"
          \/ row'[k] = [status |-> "SENDING", attempts |-> row[k].attempts + 1]
          \/ row'[k].attempts = row[k].attempts
      BY <1>4, WhoWritesRows
    <2>2. row'[k] = [status |-> "SENDING", attempts |-> row[k].attempts + 1] =>
              row'[k].attempts = row[k].attempts + 1
      OBVIOUS
    <2>. QED BY <1>1, <1>2, <2>1, <2>2
  <1>. QED BY <1>3, <1>4

\* The statements of notify.Store name a row by its id and look at no status; that
\* none undoes what another made final follows from who holds which row.  A row
\* that a fault left SENDING in nobody's hands is stranded for ever.
THEOREM RowsOnlyMoveOn == Spec => RowsMoveOn
  <1>. DEFINE Moves == \A k \in Keys :
          /\ row'[k].attempts >= row[k].attempts
          /\ row[k].status = "QUEUED" /\ row'[k] # row[k] =>
                /\ row'[k] = [status |-> "SENDING", attempts |-> row[k].attempts + 1]
                /\ \E w \in Workers : k \in Held(w)'
          /\ row[k].status \in {"SENT", "FAILED", "SUPPRESSED"} => row'[k] = row[k]
          /\ Stranded(k) => row'[k] = row[k] /\ Stranded(k)'
  <1>1. IInv /\ IInv' /\ [Next]_vars => [Moves]_vars
    <2>. SUFFICES ASSUME IInv, IInv', [Next]_vars, NEW k \in Keys
                  PROVE  /\ row'[k].attempts >= row[k].attempts
                         /\ row[k].status = "QUEUED" /\ row'[k] # row[k] =>
                               /\ row'[k] = [status |-> "SENDING", attempts |-> row[k].attempts + 1]
                               /\ \E w \in Workers : k \in Held(w)'
                         /\ row[k].status \in {"SENT", "FAILED", "SUPPRESSED"} => row'[k] = row[k]
                         /\ Stranded(k) => row'[k] = row[k] /\ Stranded(k)'
      OBVIOUS
    <2>1. row'[k].attempts >= row[k].attempts
      BY AttemptsGrow
    <2>2. row[k].status = "QUEUED" /\ row'[k] # row[k] =>
              /\ row'[k] = [status |-> "SENDING", attempts |-> row[k].attempts + 1]
              /\ \E w \in Workers : k \in Held(w)'
      BY WhoWritesRows
    <2>3. row[k].status \in {"SENT", "FAILED", "SUPPRESSED"} => row'[k] = row[k]
      BY WhoWritesRows
    <2>4. ASSUME Stranded(k) PROVE row'[k] = row[k] /\ Stranded(k)'
      <3>1. row[k].status = "SENDING" /\ \A w \in Workers : k \notin Held(w)
        BY <2>4 DEF Stranded
      <3>2. row'[k] = row[k]
        BY <3>1, WhoWritesRows
      <3>3. ASSUME NEW w \in Workers PROVE k \notin Held(w)'
        <4>1. CASE ~(Pass(w) \/ Crash(w))
          <5>1. worker'[w] = worker[w]
            BY <4>1, OthersPasses
          <5>. QED BY <3>1, <5>1 DEF Held
        <4>2. CASE Claim(w)
          BY <3>1, <4>2, ClaimMove
        <4>3. CASE (Pass(w) \/ Crash(w)) /\ ~Claim(w)
          <5>1. worker[w].step # "idle"
            BY <4>3 DEF Pass, Crash, ReadToken, PassWithoutProvider, SendPush, MarkSent,
                        MarkDead, MarkError
          <5>2. DOMAIN worker'[w].hand \subseteq DOMAIN worker[w].hand
            BY <4>3, <5>1, PassMoves DEF PassMove
          <5>. QED BY <3>1, <5>2 DEF Held
        <4>. QED BY <4>1, <4>2, <4>3
      <3>. QED BY <3>1, <3>2, <3>3 DEF Stranded
    <2>. QED BY <2>1, <2>2, <2>3, <2>4
  <1>. QED BY <1>1, Inductive, PTL DEF Spec, RowsMoveOn

=============================================================================
