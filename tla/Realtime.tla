------------------------------ MODULE Realtime ------------------------------
(***************************************************************************)
(* The live gateway (internal/realtime): a hub of connections with bounded *)
(* buffers, publishers that announce what happened to one job and its      *)
(* driver, and one stream per connection that writes to the client.        *)
(*                                                                         *)
(* A step is what happens under one lock or in one channel operation.      *)
(***************************************************************************)
EXTENDS Naturals, Sequences, FiniteSets

CONSTANTS Conns,          \* connections, each opened once
          Publishers,     \* goroutines that announce
          Caller,         \* Caller[c]: "requester", "driver", "ops" or "stranger"
          Kinds,          \* the announcements made, of Announcements below
          Buffer,         \* bufferSize
          MaxPerUser,     \* MaxConnectionsPerUser
          MaxEvents       \* bound on announcements

Channels  == {"job", "user", "driver"}     \* of the job, its requester, its driver
Subscribers   == {"requester", "driver", "ops", "stranger"}
Resources == {"job", "driver"}

\* Which channels an announcement goes to, one Publish after the other.  A job
\* may have no driver yet, and a driver no job.
Audience == [changed  |-> {<<"job", "user", "driver">>, <<"job", "user">>},
             assigned |-> {<<"driver", "job">>},
             accepted |-> {<<"job", "driver", "user">>},
             moved    |-> {<<"driver", "job">>, <<"driver">>}]
Announcements == DOMAIN Audience

ASSUME RealtimeAssumption ==
    /\ Caller \in [Conns -> Subscribers]
    /\ Kinds \subseteq Announcements
    /\ Buffer \in Nat \ {0} /\ MaxPerUser \in Nat \ {0} /\ MaxEvents \in Nat

\* An event: who sent it, the how-maniest announcement it is, whether it is a
\* position, and the resource it is about.
Event == [by : Publishers, n : 1..MaxEvents, position : BOOLEAN, res : Resources]

VARIABLES
    stream,      \* where the goroutine that serves a connection is
    asked,       \* the channels a client still waits to be subscribed to
    channels,    \* Connection.channels
    byChannel,   \* Hub.byChannel
    count,       \* Hub.perUserCounts
    out,         \* Connection.out
    coalesced,   \* Connection.coalesced: a position per resource
    pending,     \* the positions a Flush took out of it
    dropped,     \* Connection.dropped
    pub,         \* where a publisher is
    announced,   \* how many announcements were made
    got,         \* (history) what a client was sent
    offered      \* (history) events, other than positions, sent to a connection

hubVars == <<stream, asked, channels, byChannel, count, out, coalesced, pending,
          dropped, pub, announced, got, offered>>

\* A publisher: the calls still to make, the event, the connections still to
\* send to, and the one a send is about.
Quiet == [step |-> "idle", todo |-> <<>>, event |-> <<>>, targets |-> {}, to |-> <<>>]

Open(c) == stream[c] \in {"joining", "streaming", "written", "flushing"}

HubTypeOK ==
    /\ stream \in [Conns -> {"absent", "joining", "streaming", "written",
                             "flushing", "closed"}]
    /\ asked \in [Conns -> SUBSET Channels]
    /\ channels \in [Conns -> SUBSET Channels]
    /\ byChannel \in [Channels -> SUBSET Conns]
    /\ count \in [Subscribers -> 0..MaxPerUser]
    /\ \A c \in Conns :
          /\ out[c] \in Seq(Event) /\ Len(out[c]) <= Buffer
          /\ coalesced[c] \subseteq Event /\ pending[c] \subseteq Event
          /\ \A e, f \in coalesced[c] : e.res = f.res => e = f
          /\ got[c] \in Seq(Event)
    /\ dropped \in [Conns -> Nat] /\ offered \in [Conns -> Nat]
    /\ \A p \in Publishers :
          /\ pub[p].step \in {"idle", "calling", "sending", "open", "full", "panicked"}
          /\ pub[p].todo \in Seq(Channels) /\ pub[p].targets \subseteq Conns
    /\ announced \in 0..MaxEvents

HubInit ==
    /\ stream = [c \in Conns |-> "absent"]
    /\ asked = [c \in Conns |-> {}] /\ channels = [c \in Conns |-> {}]
    /\ byChannel = [k \in Channels |-> {}]
    /\ count = [u \in Subscribers |-> 0]
    /\ out = [c \in Conns |-> <<>>] /\ coalesced = [c \in Conns |-> {}]
    /\ pending = [c \in Conns |-> {}]
    /\ dropped = [c \in Conns |-> 0]
    /\ pub = [p \in Publishers |-> Quiet]
    /\ announced = 0
    /\ got = [c \in Conns |-> <<>>] /\ offered = [c \in Conns |-> 0]

hub    == <<asked, channels, byChannel, count>>
buffer == <<out, coalesced, dropped>>

-----------------------------------------------------------------------------
(* A client's request: connect, subscribe to every channel or none *)

\* A request names one channel or more.
Asking == SUBSET Channels \ {{}}

\* jobMembership: who booked the job and who carries it.
Member(u) == u \in {"requester", "driver"}

\* RoleAuthorizer: one's own channel, operations on a driver's.
CanSubscribe(u, k) ==
    CASE k = "user"   -> u = "requester"
      [] k = "driver" -> u \in {"driver", "ops"}
      [] k = "job"    -> Member(u)

Connect(c) ==
    /\ stream[c] = "absent" /\ count[Caller[c]] < MaxPerUser
    /\ stream' = [stream EXCEPT ![c] = "joining"]
    /\ count' = [count EXCEPT ![Caller[c]] = @ + 1]
    /\ \E K \in Asking : asked' = [asked EXCEPT ![c] = K]
    /\ UNCHANGED <<channels, byChannel, pending, pub, announced, got, offered, buffer>>

\* Mistake: the hub learns of the subscription, the connection does not.
SubscribeHubOnly(c, k) ==
    /\ stream[c] = "joining" /\ k \in asked[c] /\ CanSubscribe(Caller[c], k)
    /\ byChannel' = [byChannel EXCEPT ![k] = @ \cup {c}]
    /\ asked' = [asked EXCEPT ![c] = @ \ {k}]
    /\ stream' = IF asked'[c] = {} THEN [stream EXCEPT ![c] = "streaming"] ELSE stream
    /\ UNCHANGED <<channels, count, pending, pub, announced, got, offered, buffer>>

Subscribe(c, k) ==
    /\ stream[c] = "joining" /\ k \in asked[c] /\ CanSubscribe(Caller[c], k)
    /\ channels' = [channels EXCEPT ![c] = @ \cup {k}]
    /\ byChannel' = [byChannel EXCEPT ![k] = @ \cup {c}]
    /\ asked' = [asked EXCEPT ![c] = @ \ {k}]
    /\ stream' = IF asked'[c] = {} THEN [stream EXCEPT ![c] = "streaming"] ELSE stream
    /\ UNCHANGED <<count, pending, pub, announced, got, offered, buffer>>

\* Disconnect: the flag, the subscriptions, the quota and the closed channel
\* are one critical section.
Close(c) ==
    /\ stream' = [stream EXCEPT ![c] = "closed"]
    /\ channels' = [channels EXCEPT ![c] = {}]
    /\ byChannel' = [k \in Channels |-> IF k \in channels[c] THEN byChannel[k] \ {c}
                                        ELSE byChannel[k]]
    /\ count' = [count EXCEPT ![Caller[c]] = @ - 1]
    /\ asked' = [asked EXCEPT ![c] = {}]
    /\ UNCHANGED <<pending, pub, announced, got, offered, buffer>>

\* Mistake: a refused stream is answered, and the quota kept.
RefuseKeepingQuota(c) ==
    /\ stream[c] = "joining" /\ \E k \in asked[c] : ~CanSubscribe(Caller[c], k)
    /\ stream' = [stream EXCEPT ![c] = "closed"]
    /\ UNCHANGED <<hub, pending, pub, announced, got, offered, buffer>>

\* A channel that is not permitted refuses the whole stream.
Refuse(c) ==
    /\ stream[c] = "joining" /\ \E k \in asked[c] : ~CanSubscribe(Caller[c], k)
    /\ Close(c)

\* The client goes, or a write to it fails.
Disconnect(c) == stream[c] \in {"joining", "streaming"} /\ Close(c)

-----------------------------------------------------------------------------
(* The stream: one event written, then Flush *)

WriteEvent(c) ==
    /\ stream[c] = "streaming" /\ out[c] # <<>>
    /\ got' = [got EXCEPT ![c] = Append(@, Head(out[c]))]
    /\ out' = [out EXCEPT ![c] = Tail(@)]
    /\ stream' = [stream EXCEPT ![c] = "written"]
    /\ UNCHANGED <<hub, coalesced, dropped, pending, pub, announced, offered>>

\* Flush takes the coalesced positions out under the lock ...
StartFlush(c) ==
    /\ stream[c] = "written"
    /\ pending' = [pending EXCEPT ![c] = coalesced[c]]
    /\ coalesced' = [coalesced EXCEPT ![c] = {}]
    /\ stream' = [stream EXCEPT ![c] = "flushing"]
    /\ UNCHANGED <<hub, out, dropped, pub, announced, got, offered>>

\* Mistake: the position that waits is kept beside the newest.
CoalesceBeside(S, e) == S \cup {e}

\* The newest position of a resource replaces the one that waits.
Coalesce(S, e) == {f \in S : f.res # e.res} \cup {e}

\* ... and hands them over while there is room; the one that finds none is put
\* back, and the loop ends.
FlushOne(c) ==
    /\ stream[c] = "flushing"
    /\ \/ /\ pending[c] = {}
          /\ stream' = [stream EXCEPT ![c] = "streaming"]
          /\ UNCHANGED <<out, coalesced, pending>>
       \/ \E e \in pending[c] :
             IF Len(out[c]) < Buffer
             THEN /\ out' = [out EXCEPT ![c] = Append(@, e)]
                  /\ pending' = [pending EXCEPT ![c] = @ \ {e}]
                  /\ UNCHANGED <<coalesced, stream>>
             ELSE /\ coalesced' = [coalesced EXCEPT ![c] = Coalesce(@, e)]
                  /\ pending' = [pending EXCEPT ![c] = {}]
                  /\ stream' = [stream EXCEPT ![c] = "streaming"]
                  /\ UNCHANGED out
    /\ UNCHANGED <<hub, dropped, pub, announced, got, offered>>

-----------------------------------------------------------------------------
(* Publishing *)

Envelope(p, kind) ==
    [by |-> p, n |-> announced + 1, position |-> kind = "moved", res |-> "job"]

\* An announcement is made: the calls of Publish it consists of.
Announce(p, kind) ==
    /\ pub[p].step = "idle" /\ announced < MaxEvents
    /\ announced' = announced + 1
    /\ \E calls \in Audience[kind] :
          pub' = [pub EXCEPT ![p].step = "calling", ![p].todo = calls,
                             ![p].event = Envelope(p, kind)]
    /\ UNCHANGED <<stream, hub, pending, got, offered, buffer>>

\* Publish: the subscribers as they are now.  A position is about the driver on
\* the driver's channel, about the job on the job's.
Publish(p) ==
    LET k == Head(pub[p].todo) IN
    /\ pub[p].step = "calling" /\ pub[p].todo # <<>>
    /\ pub' = [pub EXCEPT ![p].step = "sending", ![p].targets = byChannel[k],
                          ![p].todo = Tail(@),
                          ![p].event.res = IF k = "driver" /\ pub[p].event.position
                                           THEN "driver" ELSE "job"]
    /\ UNCHANGED <<stream, hub, pending, announced, got, offered, buffer>>

PublishEnds(p) ==
    /\ pub[p].step = "sending" /\ pub[p].targets = {}
    /\ pub' = [pub EXCEPT ![p] = IF @.todo = <<>> THEN Quiet
                                 ELSE [@ EXCEPT !.step = "calling"]]
    /\ UNCHANGED <<stream, hub, pending, announced, got, offered, buffer>>

\* send: is the connection closed?  The lock is released before the channel.
FindOpen(p) ==
    /\ pub[p].step = "sending"
    /\ \E c \in pub[p].targets :
          pub' = [pub EXCEPT ![p].targets = @ \ {c},
                             ![p].step = IF Open(c) THEN "open" ELSE "sending",
                             ![p].to = IF Open(c) THEN c ELSE <<>>]
    /\ UNCHANGED <<stream, hub, pending, announced, got, offered, buffer>>

\* select { case c.out <- event: default: }.  A send on a channel that was
\* closed panics, in a select as anywhere.
Send(p) ==
    LET c == pub[p].to e == pub[p].event IN
    /\ pub[p].step = "open"
    /\ IF ~Open(c)
       THEN /\ pub' = [pub EXCEPT ![p] = [Quiet EXCEPT !.step = "panicked"]]
            /\ UNCHANGED <<out, offered>>
       ELSE /\ offered' = [offered EXCEPT ![c] = IF e.position THEN @ ELSE @ + 1]
            /\ IF Len(out[c]) < Buffer
               THEN /\ out' = [out EXCEPT ![c] = Append(@, e)]
                    /\ pub' = [pub EXCEPT ![p].step = "sending", ![p].to = <<>>]
               ELSE /\ pub' = [pub EXCEPT ![p].step = "full"]
                    /\ UNCHANGED out
    /\ UNCHANGED <<stream, hub, coalesced, dropped, pending, announced, got>>

\* Mistake: everything is coalesced.
CoalesceAll(p) ==
    LET c == pub[p].to e == pub[p].event IN
    /\ pub[p].step = "full"
    /\ coalesced' = [coalesced EXCEPT ![c] = Coalesce(@, e)]
    /\ pub' = [pub EXCEPT ![p].step = "sending", ![p].to = <<>>]
    /\ UNCHANGED <<stream, hub, out, dropped, pending, announced, got, offered>>

\* Mistake: a full buffer is waited for.
WaitForRoom(p) ==
    LET c == pub[p].to e == pub[p].event IN
    /\ pub[p].step = "full" /\ Len(out[c]) < Buffer
    /\ out' = [out EXCEPT ![c] = Append(@, e)]
    /\ pub' = [pub EXCEPT ![p].step = "sending", ![p].to = <<>>]
    /\ UNCHANGED <<stream, hub, coalesced, dropped, pending, announced, got, offered>>

\* The buffer was full: a position waits to be flushed, anything else is lost
\* and counted.
Overflow(p) ==
    LET c == pub[p].to e == pub[p].event IN
    /\ pub[p].step = "full"
    /\ IF e.position
       THEN coalesced' = [coalesced EXCEPT ![c] = Coalesce(@, e)] /\ UNCHANGED dropped
       ELSE dropped' = [dropped EXCEPT ![c] = @ + 1] /\ UNCHANGED coalesced
    /\ pub' = [pub EXCEPT ![p].step = "sending", ![p].to = <<>>]
    /\ UNCHANGED <<stream, hub, out, pending, announced, got, offered>>

-----------------------------------------------------------------------------
Publishing(p) ==
    Publish(p) \/ PublishEnds(p) \/ FindOpen(p) \/ Send(p) \/ Overflow(p)

HubNext ==
    \/ \E c \in Conns : \/ Connect(c) \/ Refuse(c) \/ Disconnect(c)
                        \/ \E k \in Channels : Subscribe(c, k)
                        \/ WriteEvent(c) \/ StartFlush(c) \/ FlushOne(c)
    \/ \E p \in Publishers : \/ Publishing(p)
                             \/ \E kind \in Kinds : Announce(p, kind)

HubSpec == HubInit /\ [][HubNext]_hubVars

\* A publisher that runs goes on; clients read when they please.
Fairness == \A p \in Publishers : WF_hubVars(Publishing(p))
FairHub == HubSpec /\ Fairness

-----------------------------------------------------------------------------
(* Properties *)

\* The hub and the connections agree on who is subscribed, nobody closed is, and
\* the quota of an account is the number of its open streams.
HubMatchesConnections ==
    /\ \A c \in Conns, k \in Channels :
          (c \in byChannel[k]) <=> (Open(c) /\ k \in channels[c])
    /\ \A u \in Subscribers :
          count[u] = Cardinality({c \in Conns : Caller[c] = u /\ Open(c)})

NotPositions(s) == {i \in DOMAIN s : ~s[i].position}

\* Who has found the buffer of c full, with something to count.
Losing(c) == {p \in Publishers : pub[p].step = "full" /\ pub[p].to = c /\ ~pub[p].event.position}

\* An event that is not a position and was sent to an open connection reached
\* the client, waits in the buffer, or is counted as dropped.
EventsAreAccounted ==
    \A c \in Conns : Open(c) =>
        offered[c] = Cardinality(NotPositions(got[c])) + Cardinality(NotPositions(out[c]))
                     + dropped[c] + Cardinality(Losing(c))

\* What one publisher announces arrives in the order in which it was announced.
EventsKeepTheirOrder ==
    \A c \in Conns : \A i, j \in NotPositions(got[c]) :
        i < j /\ got[c][i].by = got[c][j].by => got[c][i].n <= got[c][j].n

\* No event vanishes uncounted or overtakes another, while publishers, the pump
\* and the flush of a buffer work on one stream at once.
EventsArrive == EventsAreAccounted /\ EventsKeepTheirOrder

\* No client, however slow, keeps a publisher from finishing ("Slow clients
\* must not block the system").
SlowClientsBlockNobody ==
    \A p \in Publishers : [](pub[p].step # "idle" => <>(pub[p].step \in {"idle", "panicked"}))

\* A send never meets a channel that Disconnect closed ("Publishing to a dead
\* channel must not panic on the closed channel", realtime_test.go).
PublishingIsSafe == \A p \in Publishers : pub[p].step # "panicked"
=============================================================================
