--------------------------------- MODULE Hub ---------------------------------
(***************************************************************************)
(* The WebSocket hub of the backend (websocket/hub.go, client.go): the     *)
(* goroutine of Hub.Run, a forwarder goroutine per Redis subscription, and *)
(* a reader and a writer goroutine per connection.  Register, Unregister   *)
(* and Broadcast are unbuffered channels that only Hub.Run receives from,  *)
(* so a send on one of them and the body of its case are one step.         *)
(*                                                                         *)
(* A forwarder drains the channel of its PubSub even after Close; what it  *)
(* holds and what the channel holds are one queue here.  A message is its  *)
(* number in the order of publication.                                     *)
(***************************************************************************)
EXTENDS Integers, Sequences, FiniteSets

CONSTANTS
    Clients,       \* connections that may ever be made
    Polls,         \* poll ids
    Capacity,      \* of the Send channel of a connection (256 in the code)
    MaxMessages    \* bound on the messages published

ASSUME CapacityAssumption == Capacity \in Nat \ {0}
ASSUME MaxMessagesAssumption == MaxMessages \in Nat

VARIABLES
    watched,        \* polls with an entry in h.clients
    members,        \* the connections of each entry
    subscriptions,  \* h.subscriptions: index in subs, or 0
    subs,           \* every subscription made: its poll and state, what it
                    \* received and what of that is still to be handed on
    published,      \* how many messages were published
    pollOf,         \* Client.PollID
    conn,           \* the socket: none, open or closed
    reader,         \* ReadPump: none, reading, leaving, closing, done
    writer,         \* WritePump: none, writing, done
    send,           \* the Send channel
    closes,         \* how many times close(Send) was called
    got             \* what was written to the socket

hubVars  == <<watched, members, subscriptions>>
sockVars == <<pollOf, conn, reader, writer, got>>
vars     == <<hubVars, subs, published, sockVars, send, closes>>

Messages == 1..MaxMessages

Init ==
    /\ watched = {} /\ members = [p \in Polls |-> {}]
    /\ subscriptions = [p \in Polls |-> 0] /\ subs = <<>>
    /\ published = 0
    /\ pollOf \in [Clients -> Polls]
    /\ conn = [c \in Clients |-> "none"]
    /\ reader = [c \in Clients |-> "none"]
    /\ writer = [c \in Clients |-> "none"]
    /\ send = [c \in Clients |-> <<>>]
    /\ closes = [c \in Clients |-> 0]
    /\ got = [c \in Clients |-> <<>>]

-----------------------------------------------------------------------------
(* Redis.                                                                  *)

(* A mistake: a closed subscription still receives.                        *)
ReceivesClosed(s, p) == subs[s].poll = p /\ subs[s].state # "pending"

Receives(s, p) == subs[s].poll = p /\ subs[s].state = "active"

Publish(p) ==
    /\ published < MaxMessages
    /\ published' = published + 1
    /\ subs' = [s \in DOMAIN subs |->
                  IF Receives(s, p)
                  THEN [subs[s] EXCEPT !.queue = Append(@, published + 1),
                                       !.received = @ \union {published + 1}]
                  ELSE subs[s]]
    /\ UNCHANGED <<hubVars, sockVars, send, closes>>

(* Subscribe only sends the command; go-redis sends it again after its     *)
(* connection was lost.                                                    *)
Subscribed(s) ==
    /\ subs[s].state = "pending"
    /\ subs' = [subs EXCEPT ![s].state = "active"]
    /\ UNCHANGED <<hubVars, published, sockVars, send, closes>>

RedisConnectionLost(s) ==
    /\ subs[s].state = "active"
    /\ subs' = [subs EXCEPT ![s].state = "pending"]
    /\ UNCHANGED <<hubVars, published, sockVars, send, closes>>

-----------------------------------------------------------------------------
(* ServeWs: upgrade the connection, then hand it to the hub, then start    *)
(* the two pumps.                                                          *)

Upgrade(c) ==
    /\ conn[c] = "none"
    /\ conn' = [conn EXCEPT ![c] = "open"]
    /\ UNCHANGED <<hubVars, subs, published, pollOf, reader, writer, send, closes, got>>

(* A mistake: the subscription is forgotten and not closed.                *)
ForgetSubscription(p) ==
    /\ UNCHANGED subs
    /\ subscriptions' = [subscriptions EXCEPT ![p] = 0]

StartSubscription(p) ==
    /\ subs' = Append(subs, [poll |-> p, state |-> "pending",
                             received |-> {}, queue |-> <<>>])
    /\ subscriptions' = [subscriptions EXCEPT ![p] = Len(subs) + 1]

StopSubscription(p) ==
    /\ subs' = [subs EXCEPT ![subscriptions[p]].state = "closed"]
    /\ subscriptions' = [subscriptions EXCEPT ![p] = 0]

Register(c) ==
    LET p == pollOf[c] IN
    /\ conn[c] # "none" /\ reader[c] = "none"
    /\ IF p \in watched THEN UNCHANGED <<subs, subscriptions>>
                        ELSE StartSubscription(p)
    /\ watched' = watched \union {p}
    /\ members' = [members EXCEPT ![p] = @ \union {c}]
    /\ reader' = [reader EXCEPT ![c] = "reading"]
    /\ writer' = [writer EXCEPT ![c] = "writing"]
    /\ UNCHANGED <<published, pollOf, conn, send, closes, got>>

(* A mistake: every connection that leaves is taken for a member.          *)
AnyMember(c) == TRUE

IsMember(c) == c \in members[pollOf[c]]

(* The Unregister case of Run, which leaves a client alone that Broadcast  *)
(* has dropped already.                                                    *)
Unregister(c) ==
    LET p == pollOf[c] IN
    /\ reader[c] = "leaving"
    /\ reader' = [reader EXCEPT ![c] = "closing"]
    /\ IF IsMember(c)
         THEN /\ members' = [members EXCEPT ![p] = @ \ {c}]
              /\ closes' = [closes EXCEPT ![c] = @ + 1]
              /\ IF members[p] = {c}
                   THEN watched' = watched \ {p} /\ StopSubscription(p)
                   ELSE UNCHANGED <<watched, subs, subscriptions>>
         ELSE UNCHANGED <<hubVars, subs, closes>>
    /\ UNCHANGED <<published, pollOf, conn, writer, send, got>>

(* A forwarder hands its next message to the Broadcast case of Run: every  *)
(* member gets it, and a member whose channel is full is dropped.          *)
Full(c) == Len(send[c]) >= Capacity

(* A mistake: a message is skipped for a slow member, which stays.         *)
DropsNobody(p) == {}

Drops(p) == {c \in members[p] : Full(c)}

HandOver(s, m, rest) ==
    LET p == subs[s].poll IN
    /\ subs' = [subs EXCEPT ![s].queue = rest]
    /\ members' = [members EXCEPT ![p] = @ \ Drops(p)]
    /\ send' = [c \in Clients |-> IF c \in members[p] /\ ~Full(c)
                                  THEN Append(send[c], m) ELSE send[c]]
    /\ closes' = [c \in Clients |-> IF c \in Drops(p) THEN closes[c] + 1
                                                       ELSE closes[c]]
    /\ UNCHANGED <<watched, subscriptions, published, sockVars>>

(* A mistake: a goroutine for each message, so that a forwarder need not   *)
(* wait for the hub.                                                       *)
BroadcastByGoroutines(s) ==
    LET q == subs[s].queue IN
    \E i \in DOMAIN q :
        HandOver(s, q[i], SubSeq(q, 1, i - 1) \o SubSeq(q, i + 1, Len(q)))

Broadcast(s) ==
    LET q == subs[s].queue IN q # <<>> /\ HandOver(s, Head(q), Tail(q))

-----------------------------------------------------------------------------
(* The peer, and the pumps of a connection.                                *)

PeerLeaves(c) ==
    /\ conn[c] = "open"
    /\ conn' = [conn EXCEPT ![c] = "closed"]
    /\ UNCHANGED <<hubVars, subs, published, pollOf, reader, writer, send, closes, got>>

(* ReadMessage returns an error: the socket is closed, or no pong came for *)
(* 60 seconds.                                                             *)
(* A mistake: the loop goes on.                                            *)
ReadFailsForever(c) == reader[c] = "reading" /\ UNCHANGED vars

ReadFails(c) ==
    /\ reader[c] = "reading"
    /\ reader' = [reader EXCEPT ![c] = "leaving"]
    /\ UNCHANGED <<hubVars, subs, published, pollOf, conn, writer, send, closes, got>>

(* After Unregister the reader closes the socket.                          *)
ReaderCloses(c) ==
    /\ reader[c] = "closing"
    /\ reader' = [reader EXCEPT ![c] = "done"]
    /\ conn' = [conn EXCEPT ![c] = "closed"]
    /\ UNCHANGED <<hubVars, subs, published, pollOf, writer, send, closes, got>>

WriteNext(c) ==
    /\ writer[c] = "writing" /\ conn[c] = "open" /\ send[c] # <<>>
    /\ got' = [got EXCEPT ![c] = Append(@, Head(send[c]))]
    /\ send' = [send EXCEPT ![c] = Tail(@)]
    /\ UNCHANGED <<hubVars, subs, published, pollOf, conn, reader, writer, closes>>

WriterEnds(c) ==
    /\ writer' = [writer EXCEPT ![c] = "done"]
    /\ conn' = [conn EXCEPT ![c] = "closed"]
    /\ UNCHANGED <<hubVars, subs, published, pollOf, reader, send, closes, got>>

(* A write or a ping fails: the socket is closed, or the peer took nothing *)
(* for 10 seconds.                                                         *)
WriteFails(c) == writer[c] = "writing" /\ WriterEnds(c)

(* The hub closed Send, and what it held is written.                       *)
WriteClose(c) ==
    /\ writer[c] = "writing" /\ send[c] = <<>> /\ closes[c] > 0
    /\ WriterEnds(c)

-----------------------------------------------------------------------------
Next ==
    \/ \E p \in Polls : Publish(p)
    \/ \E s \in DOMAIN subs : Subscribed(s) \/ RedisConnectionLost(s) \/ Broadcast(s)
    \/ \E c \in Clients : \/ Upgrade(c) \/ Register(c) \/ Unregister(c)
                          \/ PeerLeaves(c) \/ ReadFails(c) \/ ReaderCloses(c)
                          \/ WriteNext(c) \/ WriteFails(c) \/ WriteClose(c)

Spec == Init /\ [][Next]_vars

(* The goroutines run; the hub's select serves every channel; a failure of *)
(* a closed socket is noticed (the next ping or the read deadline).        *)
Goroutines(c) ==
    /\ WF_vars(Register(c)) /\ WF_vars(Unregister(c)) /\ WF_vars(ReaderCloses(c))
    /\ WF_vars(conn[c] = "closed" /\ ReadFails(c))
    /\ WF_vars(conn[c] = "closed" /\ WriteFails(c))
    /\ WF_vars(WriteNext(c)) /\ WF_vars(WriteClose(c))

Forwarder(s) == s \in DOMAIN subs /\ Broadcast(s)

FairSpec == /\ Spec
            /\ \A c \in Clients : Goroutines(c)
            /\ \A s \in 1..Cardinality(Clients) : WF_vars(Forwarder(s))

-----------------------------------------------------------------------------
(* Properties.                                                             *)

SubType == [poll : Polls, state : {"pending", "active", "closed"},
            received : SUBSET Messages, queue : Seq(Messages)]

(* Every variable has its type.                                            *)
TypeOK ==
    /\ watched \subseteq Polls /\ members \in [Polls -> SUBSET Clients]
    /\ subs \in Seq(SubType) /\ subscriptions \in [Polls -> 0..Len(subs)]
    /\ published \in 0..MaxMessages
    /\ pollOf \in [Clients -> Polls]
    /\ conn \in [Clients -> {"none", "open", "closed"}]
    /\ reader \in [Clients -> {"none", "reading", "leaving", "closing", "done"}]
    /\ writer \in [Clients -> {"none", "writing", "done"}]
    /\ send \in [Clients -> Seq(Messages)]
    /\ closes \in [Clients -> Nat]
    /\ got \in [Clients -> Seq(Messages)]

(* The hub never panics: it never closes a Send channel twice, by a drop   *)
(* in Broadcast and by Unregister, and never sends on a closed one.        *)
NeverPanics ==
    /\ \A c \in Clients : closes[c] <= 1
    /\ \A p \in Polls : \A c \in members[p] : closes[c] = 0

(* A poll has one live Redis subscription, known to the hub, if it has an  *)
(* entry in h.clients, and else none: no registration or unregistration    *)
(* order leaves a second or an orphaned one.                               *)
Live(p) == {s \in DOMAIN subs : subs[s].poll = p /\ subs[s].state # "closed"}

SubscribedIffWatched ==
    \A p \in Polls : Live(p) = IF p \in watched THEN {subscriptions[p]} ELSE {}

(* A connection is a member of its own poll only, and only while its       *)
(* reader can still unregister it.                                         *)
MembersAreServed ==
    \A p \in Polls : \A c \in members[p] :
        pollOf[c] = p /\ p \in watched /\ reader[c] \in {"reading", "leaving"}

(* No connection is sent a message twice, also when its poll was left and  *)
(* watched again while an old forwarder still held messages.               *)
Stream(c) == got[c] \o send[c]

AtMostOnce ==
    \A c \in Clients : \A i, j \in DOMAIN Stream(c) :
        i # j => Stream(c)[i] # Stream(c)[j]

(* A poll that was left and watched again has two forwarders for a while,  *)
(* and Run takes their messages in any order.  So a connection may get an  *)
(* older message after a newer one, but only from a subscription that is   *)
(* closed, never two of one subscription; and between two that it gets of  *)
(* a subscription it misses none, though slow readers are dropped and      *)
(* others come and go.                                                     *)
WasSent(c, m) == \E i \in DOMAIN Stream(c) : Stream(c)[i] = m

Unbroken ==
    \A c \in Clients : \A i, j \in DOMAIN Stream(c) : i < j =>
        LET a == Stream(c)[i]
            b == Stream(c)[j]
        IN
        /\ b < a => \E s \in DOMAIN subs :
                       /\ subs[s].state = "closed"
                       /\ b \in subs[s].received /\ a \notin subs[s].received
        /\ \A s \in DOMAIN subs : {a, b} \subseteq subs[s].received =>
              \A m \in subs[s].received : a < m /\ m < b => WasSent(c, m)

(* A connection that ends is removed from the hub and both its goroutines  *)
(* end.                                                                    *)
ConnectionsEnd ==
    \A c \in Clients : conn[c] = "closed" ~>
        /\ \A p \in Polls : c \notin members[p]
        /\ reader[c] = "done" /\ writer[c] = "done"

(* What a forwarder has received for a member is written to that member's  *)
(* socket, unless the connection ends or is dropped.                       *)
Holds(s, m) == s \in DOMAIN subs /\ \E i \in DOMAIN subs[s].queue : subs[s].queue[i] = m

Delivered ==
    \A c \in Clients, m \in Messages :
        (\E s \in DOMAIN subs : Holds(s, m) /\ c \in members[subs[s].poll]) ~>
            \/ \E i \in DOMAIN got[c] : got[c][i] = m
            \/ conn[c] = "closed" \/ closes[c] > 0

(* The first half of that, step by step: what a forwarder holds for a      *)
(* member either stays held or is in the member's channel or on its socket *)
(* from then on, unless the member is dropped or leaves; a poll that is    *)
(* left and watched again, a reader that is slow and a second forwarder of *)
(* the poll do not make a member miss it.                                  *)
NothingSkipped ==
    [][\A c \in Clients, m \in Messages :
         /\ WasSent(c, m) => WasSent(c, m)'
         /\ \A s \in DOMAIN subs :
              /\ Holds(s, m) /\ c \in members[subs[s].poll]
              /\ c \in members'[subs[s].poll]
              => Holds(s, m)' \/ WasSent(c, m)']_vars

(* README: when the last active viewer on a poll disconnects, the Redis    *)
(* subscription is terminated.                                             *)
NoViewerNoSubscription ==
    \A p \in Polls :
        (\A c \in Clients : pollOf[c] = p => reader[c] \in {"none", "done"})
        => Live(p) = {}
=============================================================================
