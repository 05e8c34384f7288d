------------------------------ MODULE HubProofs ------------------------------
(***************************************************************************)
(* Proofs about Hub, for any connections, polls, capacity and number of    *)
(* messages.                                                               *)
(***************************************************************************)
EXTENDS Hub, SequenceTheorems, FiniteSetTheorems, TLAPS

(* The part of the type that the safety of the hub rests on.               *)
HubType ==
    /\ watched \subseteq Polls /\ members \in [Polls -> SUBSET Clients]
    /\ subs \in Seq(SubType) /\ subscriptions \in [Polls -> 0..Len(subs)]
    /\ pollOf \in [Clients -> Polls]
    /\ reader \in [Clients -> {"none", "reading", "leaving", "closing", "done"}]
    /\ closes \in [Clients -> Nat]
    /\ published \in 0..MaxMessages

(* A connection that the hub has not seen has an open channel.             *)
FreshIsOpen == \A c \in Clients : reader[c] = "none" => closes[c] = 0

HubInv == HubType /\ FreshIsOpen /\ NeverPanics /\ SubscribedIffWatched /\ MembersAreServed

LEMMA HubInit == Init => HubInv
<1> SUFFICES ASSUME Init PROVE HubInv
  OBVIOUS
<1>1. HubType
  BY MaxMessagesAssumption DEF Init, HubType
<1>2. FreshIsOpen /\ NeverPanics /\ MembersAreServed
  BY DEF Init, FreshIsOpen, NeverPanics, MembersAreServed
<1>3. SubscribedIffWatched
  BY DEF Init, SubscribedIffWatched, Live
<1> QED BY <1>1, <1>2, <1>3 DEF HubInv

(* Steps that only touch the pumps and the sockets.                        *)
LEMMA SocketStep ==
    ASSUME HubInv, UNCHANGED <<hubVars, subs, published, pollOf, closes>>,
           reader' \in [Clients -> {"none", "reading", "leaving", "closing", "done"}],
           \A c \in Clients : /\ reader'[c] = "none" => reader[c] = "none"
                              /\ reader'[c] # reader[c] =>
                                    \/ reader'[c] = "leaving"
                                    \/ reader[c] = "closing"
    PROVE  HubInv'
<1>1. HubType'
  BY DEF HubInv, HubType, hubVars
<1>2. FreshIsOpen' /\ NeverPanics'
  BY DEF HubInv, FreshIsOpen, NeverPanics, hubVars
<1>3. MembersAreServed'
  BY DEF HubInv, HubType, MembersAreServed, hubVars
<1>4. SubscribedIffWatched'
  BY DEF HubInv, SubscribedIffWatched, Live, hubVars
<1> QED BY <1>1, <1>2, <1>3, <1>4 DEF HubInv

(* Steps of Redis and of a forwarder change the queues, and whether a      *)
(* subscription is active, but neither open nor close one.                 *)
LEMMA QueueStep ==
    ASSUME HubInv, subs' \in Seq(SubType), Len(subs') = Len(subs),
           \A s \in DOMAIN subs :
               /\ subs'[s].poll = subs[s].poll
               /\ (subs'[s].state = "closed" <=> subs[s].state = "closed"),
           UNCHANGED <<watched, subscriptions>>
    PROVE  SubscribedIffWatched' /\ subscriptions' \in [Polls -> 0..Len(subs')]
<1>1. DOMAIN subs' = DOMAIN subs
  BY DEF HubInv, HubType
<1>2. \A p \in Polls : Live(p)' = Live(p)
  BY <1>1 DEF Live
<1> QED BY <1>2 DEF HubInv, HubType, SubscribedIffWatched

(* Replacing one subscription by another.                                  *)
LEMMA ReplaceSub ==
    ASSUME NEW q \in Seq(SubType), NEW s \in DOMAIN q, NEW r \in SubType,
           NEW new, new = [q EXCEPT ![s] = r]
    PROVE  /\ new \in Seq(SubType) /\ Len(new) = Len(q) /\ DOMAIN new = DOMAIN q
           /\ new[s] = r /\ \A t \in DOMAIN q \ {s} : new[t] = q[t]
<1>1. q \in [1..Len(q) -> SubType] /\ Len(q) \in Nat /\ DOMAIN q = 1..Len(q)
  OBVIOUS
<1>2. new \in [1..Len(q) -> SubType] /\ DOMAIN new = 1..Len(q)
  BY <1>1
<1>3. new \in Seq(SubType) /\ Len(new) = Len(q)
  BY <1>1, <1>2
<1>4. new[s] = r /\ \A t \in DOMAIN q \ {s} : new[t] = q[t]
  BY <1>1
<1> QED BY <1>1, <1>2, <1>3, <1>4

LEMMA RegisterStep ==
    ASSUME HubInv, NEW c \in Clients, Register(c)
    PROVE  HubInv'
<1> DEFINE p == pollOf[c]
<1>a. HubType /\ p \in Polls
  BY DEF HubInv, HubType
<1>1. /\ watched' = watched \union {p} /\ members' = [members EXCEPT ![p] = @ \union {c}]
      /\ reader' = [reader EXCEPT ![c] = "reading"] /\ reader[c] = "none"
      /\ UNCHANGED <<pollOf, closes, published>>
  BY DEF Register
<1>2. FreshIsOpen'
  BY <1>1, <1>a DEF HubInv, HubType, FreshIsOpen
<1>3. NeverPanics'
  BY <1>1, <1>a DEF HubInv, HubType, FreshIsOpen, NeverPanics
<1>4. MembersAreServed'
  BY <1>1, <1>a DEF HubInv, HubType, MembersAreServed
<1>5. CASE p \in watched
  <2>1. UNCHANGED <<subs, subscriptions, watched>>
    BY <1>5, <1>1 DEF Register
  <2>2. SubscribedIffWatched'
    BY <2>1 DEF HubInv, SubscribedIffWatched, Live
  <2>3. HubType'
    BY <1>1, <1>a, <2>1 DEF HubType
  <2> QED BY <1>2, <1>3, <1>4, <2>2, <2>3 DEF HubInv
<1>6. CASE p \notin watched
  <2> DEFINE new == [poll |-> p, state |-> "pending", received |-> {}, queue |-> <<>>]
             n == Len(subs) + 1
  <2>1. subs' = Append(subs, new) /\ subscriptions' = [subscriptions EXCEPT ![p] = n]
    BY <1>6 DEF Register, StartSubscription
  <2>2. new \in SubType /\ Len(subs) \in Nat
    BY <1>a DEF SubType, HubType
  <2>3. /\ subs' \in Seq(SubType) /\ Len(subs') = n /\ DOMAIN subs' = DOMAIN subs \union {n}
        /\ subs'[n] = new /\ n \notin DOMAIN subs
        /\ \A s \in DOMAIN subs : subs'[s] = subs[s]
    BY <2>1, <2>2, <1>a DEF HubType
  <2>4. HubType'
    BY <1>1, <1>a, <2>1, <2>2, <2>3 DEF HubType
  <2>5. \A q \in Polls \ {p} : Live(q)' = Live(q)
    BY <2>3 DEF Live
  <2>6. Live(p)' = {n}
    <3>1. Live(p) = {}
      BY <1>6, <1>a DEF HubInv, SubscribedIffWatched
    <3>2. \A s \in DOMAIN subs : ~(subs[s].poll = p /\ subs[s].state # "closed")
      BY <3>1 DEF Live
    <3>3. new.poll = p /\ new.state # "closed"
      OBVIOUS
    <3>4. subs'[n].poll = p /\ subs'[n].state # "closed" /\ n \in DOMAIN subs'
      BY <2>3, <3>3
    <3>5. ASSUME NEW s \in DOMAIN subs', s # n
          PROVE  ~(subs'[s].poll = p /\ subs'[s].state # "closed")
      BY <2>3, <3>2, <3>5
    <3>6. p' = p
      BY <1>1
    <3> HIDE DEF new, n, p
    <3>7. \A s : s \in Live(p)' <=> s = n
      BY <3>4, <3>5, <3>6 DEF Live
    <3> QED BY <3>7
  <2>7. SubscribedIffWatched'
    BY <1>1, <1>a, <2>1, <2>5, <2>6 DEF HubInv, HubType, SubscribedIffWatched
  <2> QED BY <1>2, <1>3, <1>4, <2>4, <2>7 DEF HubInv
<1> QED BY <1>5, <1>6

LEMMA UnregisterStep ==
    ASSUME HubInv, NEW c \in Clients, Unregister(c)
    PROVE  HubInv'
<1> DEFINE p == pollOf[c]
<1>a. HubType /\ p \in Polls
  BY DEF HubInv, HubType
<1>1. /\ reader' = [reader EXCEPT ![c] = "closing"] /\ reader[c] = "leaving"
      /\ UNCHANGED <<pollOf, published>>
  BY DEF Unregister
<1>2. CASE c \in members[p]
  <2>1. /\ members' = [members EXCEPT ![p] = @ \ {c}]
        /\ closes' = [closes EXCEPT ![c] = @ + 1]
        /\ IF members[p] = {c} THEN watched' = watched \ {p} /\ StopSubscription(p)
                               ELSE UNCHANGED <<watched, subs, subscriptions>>
    BY <1>2 DEF Unregister, IsMember
  <2>2. closes[c] = 0 /\ \A q \in Polls : c \in members[q] => q = p
    BY <1>2, <1>a DEF HubInv, NeverPanics, MembersAreServed
  <2>3. FreshIsOpen' /\ NeverPanics'
    BY <1>1, <1>a, <2>1, <2>2 DEF HubInv, HubType, FreshIsOpen, NeverPanics
  <2>4. CASE members[p] = {c}
    <3> DEFINE n == subscriptions[p]
    <3>1. watched' = watched \ {p} /\ subs' = [subs EXCEPT ![n].state = "closed"]
          /\ subscriptions' = [subscriptions EXCEPT ![p] = 0]
      BY <2>1, <2>4 DEF StopSubscription
    <3>2. p \in watched /\ Live(p) = {n} /\ n \in DOMAIN subs
      BY <2>4, <1>2, <1>a DEF HubInv, MembersAreServed, SubscribedIffWatched, Live
    <3>3. subs[n] \in SubType /\ subs[n].poll = p
      BY <3>2, <1>a DEF HubType, Live
    <3>4. [subs[n] EXCEPT !.state = "closed"] \in SubType
          /\ [subs[n] EXCEPT !.state = "closed"].poll = p
          /\ [subs[n] EXCEPT !.state = "closed"].state = "closed"
      BY <3>3 DEF SubType
    <3>5. subs' = [subs EXCEPT ![n] = [subs[n] EXCEPT !.state = "closed"]]
      BY <3>1, <3>2, <3>3, <1>a DEF HubType, SubType
    <3>6. /\ subs' \in Seq(SubType) /\ Len(subs') = Len(subs) /\ DOMAIN subs' = DOMAIN subs
          /\ subs'[n].poll = p /\ subs'[n].state = "closed"
          /\ \A s \in DOMAIN subs \ {n} : subs'[s] = subs[s]
      <4> DEFINE r == [subs[n] EXCEPT !.state = "closed"]
      <4>1. r \in SubType /\ r.poll = p /\ r.state = "closed"
        BY <3>4
      <4>2. subs' = [subs EXCEPT ![n] = r] /\ n \in DOMAIN subs /\ subs \in Seq(SubType)
        BY <3>5, <3>2, <1>a DEF HubType
      <4> HIDE DEF r
      <4>3. /\ subs' \in Seq(SubType) /\ Len(subs') = Len(subs) /\ DOMAIN subs' = DOMAIN subs
            /\ subs'[n] = r /\ \A s \in DOMAIN subs \ {n} : subs'[s] = subs[s]
        BY <4>1, <4>2, ReplaceSub
      <4> QED BY <4>1, <4>3
    <3>7. Live(p)' = {} /\ \A q \in Polls \ {p} : Live(q)' = Live(q)
      <4>1. \A s \in DOMAIN subs : (subs[s].poll = p /\ subs[s].state # "closed") <=> s = n
        BY <3>2 DEF Live
      <4>2. Live(p)' = {}
        <5>1. ASSUME NEW s \in DOMAIN subs'
              PROVE  ~(subs'[s].poll = p /\ subs'[s].state # "closed")
          <6>1. CASE s = n
            BY <6>1, <3>6
          <6>2. CASE s # n
            BY <6>2, <3>6, <4>1
          <6> QED BY <6>1, <6>2
        <5>2. p' = p
          BY <1>1
        <5> HIDE DEF p
        <5>3. \A s : s \notin Live(p)'
          BY <5>1, <5>2 DEF Live
        <5> QED BY <5>3
      <4>3. ASSUME NEW q \in Polls \ {p} PROVE Live(q)' = Live(q)
        <5>1. subs[n].poll # q /\ subs'[n].poll # q
          BY <3>3, <3>6, <4>3
        <5>2. \A s \in DOMAIN subs : /\ (subs'[s].poll = q <=> subs[s].poll = q)
                                     /\ (subs[s].poll = q => subs'[s] = subs[s])
          BY <5>1, <3>6
        <5> QED BY <5>2, <3>6 DEF Live
      <4> QED BY <4>2, <4>3
    <3>8. HubType'
      BY <1>1, <1>a, <2>1, <3>1, <3>6 DEF HubType
    <3>9. SubscribedIffWatched'
      <4>1. \A q \in Polls \ {p} : /\ q \in watched' <=> q \in watched
                                   /\ subscriptions'[q] = subscriptions[q]
        BY <3>1, <1>a DEF HubType
      <4>2. p \notin watched'
        BY <3>1
      <4>3. ASSUME NEW q \in Polls
            PROVE  Live(q)' = IF q \in watched' THEN {subscriptions'[q]} ELSE {}
        <5>1. CASE q = p
          <6>1. p' = p
            BY <1>1
          <6> QED BY <5>1, <6>1, <4>2, <3>7
        <5>2. CASE q # p
          <6>1. Live(q) = IF q \in watched THEN {subscriptions[q]} ELSE {}
            BY DEF HubInv, SubscribedIffWatched
          <6> QED BY <5>2, <6>1, <4>1, <3>7
        <5> QED BY <5>1, <5>2
      <4> QED BY <4>3 DEF SubscribedIffWatched
    <3>10. MembersAreServed'
      BY <1>1, <1>a, <2>1, <2>2, <2>4, <3>1 DEF HubInv, HubType, MembersAreServed
    <3> QED BY <2>3, <3>8, <3>9, <3>10 DEF HubInv
  <2>5. CASE members[p] # {c}
    <3>1. UNCHANGED <<watched, subs, subscriptions>>
      BY <2>1, <2>5
    <3>2. HubType'
      BY <1>1, <1>a, <2>1, <3>1 DEF HubType
    <3>3. SubscribedIffWatched'
      BY <3>1 DEF HubInv, SubscribedIffWatched, Live
    <3>4. MembersAreServed'
      BY <1>1, <1>a, <2>1, <2>2, <3>1 DEF HubInv, HubType, MembersAreServed
    <3> QED BY <2>3, <3>2, <3>3, <3>4 DEF HubInv
  <2> QED BY <2>4, <2>5
<1>3. CASE c \notin members[p]
  <2>1. UNCHANGED <<hubVars, subs, closes>>
    BY <1>3 DEF Unregister, IsMember
  <2>2. \A q \in Polls : c \notin members[q]
    BY <1>3, <1>a DEF HubInv, MembersAreServed
  <2>3. HubType'
    BY <1>1, <1>a, <2>1 DEF HubType, hubVars
  <2>4. FreshIsOpen' /\ NeverPanics'
    BY <1>1, <1>a, <2>1 DEF HubInv, HubType, FreshIsOpen, NeverPanics, hubVars
  <2>5. MembersAreServed'
    BY <1>1, <1>a, <2>1, <2>2 DEF HubInv, HubType, MembersAreServed, hubVars
  <2>6. SubscribedIffWatched'
    BY <2>1 DEF HubInv, SubscribedIffWatched, Live, hubVars
  <2> QED BY <2>3, <2>4, <2>5, <2>6 DEF HubInv
<1> QED BY <1>2, <1>3

LEMMA BroadcastStep ==
    ASSUME HubInv, NEW s \in DOMAIN subs, Broadcast(s)
    PROVE  HubInv'
<1> DEFINE p == subs[s].poll
           r == [subs[s] EXCEPT !.queue = Tail(@)]
<1>a. HubType /\ subs[s] \in SubType /\ p \in Polls
  <2>1. subs[s] \in SubType
    BY DEF HubInv, HubType
  <2>2. p \in Polls
    BY <2>1 DEF SubType
  <2> QED BY <2>1, <2>2 DEF HubInv
<1>1. /\ subs[s].queue # <<>> /\ subs' = [subs EXCEPT ![s].queue = Tail(@)]
      /\ members' = [members EXCEPT ![p] = @ \ Drops(p)]
      /\ closes' = [c \in Clients |-> IF c \in Drops(p) THEN closes[c] + 1 ELSE closes[c]]
      /\ UNCHANGED <<watched, subscriptions, published, pollOf, reader>>
  BY DEF Broadcast, HandOver, sockVars
<1>2. Drops(p) \subseteq members[p] /\ \A q \in Polls \ {p} : Drops(p) \cap members[q] = {}
  BY <1>a DEF HubInv, MembersAreServed, Drops
<1>3. r \in SubType /\ r.poll = p /\ r.state = subs[s].state
  <2>1. subs[s].queue \in Seq(Messages) /\ subs[s].queue # <<>>
    BY <1>1, <1>a DEF SubType
  <2>2. Tail(subs[s].queue) \in Seq(Messages)
    BY <2>1
  <2> QED BY <2>2, <1>a DEF SubType
<1>4. subs' = [subs EXCEPT ![s] = r]
  BY <1>1
<1>5. /\ subs' \in Seq(SubType) /\ Len(subs') = Len(subs)
      /\ \A t \in DOMAIN subs : /\ subs'[t].poll = subs[t].poll
                                /\ (subs'[t].state = "closed" <=> subs[t].state = "closed")
  <2>1. subs \in Seq(SubType)
    BY <1>a DEF HubType
  <2> HIDE DEF r
  <2>2. /\ subs' \in Seq(SubType) /\ Len(subs') = Len(subs)
        /\ subs'[s] = r /\ \A t \in DOMAIN subs \ {s} : subs'[t] = subs[t]
    BY <1>3, <1>4, <2>1, ReplaceSub
  <2>3. ASSUME NEW t \in DOMAIN subs
        PROVE  /\ subs'[t].poll = subs[t].poll
               /\ (subs'[t].state = "closed" <=> subs[t].state = "closed")
    BY <1>3, <2>2
  <2> QED BY <2>2, <2>3
<1>6. SubscribedIffWatched' /\ subscriptions' \in [Polls -> 0..Len(subs')]
  BY <1>1, <1>5, QueueStep
<1>7. HubType'
  BY <1>1, <1>5, <1>6, <1>a DEF HubType
<1>8. FreshIsOpen'
  BY <1>1, <1>2, <1>a DEF HubInv, HubType, FreshIsOpen, MembersAreServed
<1>9. NeverPanics'
  <2>1. \A c \in Drops(p) : closes[c] = 0
    BY <1>2, <1>a DEF HubInv, NeverPanics
  <2>2. \A c \in Clients : closes'[c] <= 1
    BY <1>1, <2>1, <1>a DEF HubInv, HubType, NeverPanics
  <2>3. ASSUME NEW q \in Polls, NEW c \in members'[q] PROVE closes'[c] = 0
    <3>1. c \in members[q] /\ c \notin Drops(p) /\ c \in Clients
      BY <1>1, <1>2, <1>a, <2>3 DEF HubType
    <3> QED BY <3>1, <1>1 DEF HubInv, NeverPanics
  <2> QED BY <2>2, <2>3 DEF NeverPanics
<1>10. MembersAreServed'
  BY <1>1, <1>a DEF HubInv, HubType, MembersAreServed
<1> QED BY <1>6, <1>7, <1>8, <1>9, <1>10 DEF HubInv

LEMMA PublishStep ==
    ASSUME HubInv, NEW p \in Polls, Publish(p)
    PROVE  HubInv'
<1>a. HubType /\ published + 1 \in Messages /\ published' \in 0..MaxMessages
  <2>1. HubType /\ published \in 0..MaxMessages
    BY DEF HubInv, HubType
  <2>2. published < MaxMessages /\ published' = published + 1
    BY DEF Publish
  <2> QED BY <2>1, <2>2, MaxMessagesAssumption DEF Messages
<1>1. /\ subs' = [s \in DOMAIN subs |->
                    IF Receives(s, p)
                    THEN [subs[s] EXCEPT !.queue = Append(@, published + 1),
                                         !.received = @ \union {published + 1}]
                    ELSE subs[s]]
      /\ UNCHANGED <<watched, members, subscriptions, pollOf, reader, closes>>
  BY DEF Publish, hubVars, sockVars
<1>2. ASSUME NEW s \in DOMAIN subs
      PROVE  /\ subs'[s] \in SubType /\ subs'[s].poll = subs[s].poll
             /\ subs'[s].state = subs[s].state
  <2>1. subs[s] \in SubType
    BY <1>a DEF HubType
  <2>2. /\ Append(subs[s].queue, published + 1) \in Seq(Messages)
        /\ subs[s].received \union {published + 1} \in SUBSET Messages
    BY <2>1, <1>a DEF SubType
  <2> QED BY <2>1, <2>2, <1>1 DEF SubType
<1>3. subs' \in Seq(SubType) /\ Len(subs') = Len(subs)
  <2>1. DOMAIN subs = 1..Len(subs) /\ Len(subs) \in Nat
    BY <1>a DEF HubType
  <2>2. subs' \in [1..Len(subs) -> SubType]
    BY <1>1, <1>2, <2>1
  <2> QED BY <2>1, <2>2
<1>4. SubscribedIffWatched' /\ subscriptions' \in [Polls -> 0..Len(subs')]
  BY <1>1, <1>2, <1>3, QueueStep
<1>5. HubType'
  BY <1>1, <1>3, <1>4, <1>a DEF HubType
<1>6. FreshIsOpen' /\ NeverPanics' /\ MembersAreServed'
  BY <1>1, <1>a DEF HubInv, HubType, FreshIsOpen, NeverPanics, MembersAreServed
<1> QED BY <1>4, <1>5, <1>6 DEF HubInv

LEMMA RedisStep ==
    ASSUME HubInv, NEW s \in DOMAIN subs, Subscribed(s) \/ RedisConnectionLost(s)
    PROVE  HubInv'
<1>a. HubType /\ subs[s] \in SubType
  BY DEF HubInv, HubType
<1>1. PICK st \in {"pending", "active"} :
        /\ subs' = [subs EXCEPT ![s].state = st] /\ subs[s].state # "closed"
  BY DEF Subscribed, RedisConnectionLost
<1> DEFINE r == [subs[s] EXCEPT !.state = st]
<1>2. r \in SubType /\ r.poll = subs[s].poll /\ r.state # "closed"
  BY <1>a DEF SubType
<1>3. subs' = [subs EXCEPT ![s] = r]
  BY <1>1
<1>4. /\ subs' \in Seq(SubType) /\ Len(subs') = Len(subs)
      /\ \A t \in DOMAIN subs : /\ subs'[t].poll = subs[t].poll
                                /\ (subs'[t].state = "closed" <=> subs[t].state = "closed")
  <2>1. subs \in Seq(SubType)
    BY <1>a DEF HubType
  <2> HIDE DEF r
  <2>2. /\ subs' \in Seq(SubType) /\ Len(subs') = Len(subs)
        /\ subs'[s] = r /\ \A t \in DOMAIN subs \ {s} : subs'[t] = subs[t]
    BY <1>2, <1>3, <2>1, ReplaceSub
  <2>3. ASSUME NEW t \in DOMAIN subs
        PROVE  /\ subs'[t].poll = subs[t].poll
               /\ (subs'[t].state = "closed" <=> subs[t].state = "closed")
    BY <1>1, <1>2, <2>2
  <2> QED BY <2>2, <2>3
<1>5. UNCHANGED <<watched, members, subscriptions, published, pollOf, reader, closes>>
  BY DEF Subscribed, RedisConnectionLost, hubVars, sockVars
<1>6. SubscribedIffWatched' /\ subscriptions' \in [Polls -> 0..Len(subs')]
  BY <1>4, <1>5, QueueStep
<1>7. HubType'
  BY <1>4, <1>5, <1>6, <1>a DEF HubType
<1>8. FreshIsOpen' /\ NeverPanics' /\ MembersAreServed'
  BY <1>5, <1>a DEF HubInv, HubType, FreshIsOpen, NeverPanics, MembersAreServed
<1> QED BY <1>6, <1>7, <1>8 DEF HubInv

LEMMA HubNext == HubInv /\ [Next]_vars => HubInv'
<1> SUFFICES ASSUME HubInv, [Next]_vars PROVE HubInv'
  OBVIOUS
<1>a. reader \in [Clients -> {"none", "reading", "leaving", "closing", "done"}]
  BY DEF HubInv, HubType
<1>1. ASSUME NEW p \in Polls, Publish(p) PROVE HubInv'
  BY <1>1, PublishStep
<1>2. ASSUME NEW s \in DOMAIN subs, Subscribed(s) \/ RedisConnectionLost(s) \/ Broadcast(s)
      PROVE  HubInv'
  BY <1>2, RedisStep, BroadcastStep
<1>3. ASSUME NEW c \in Clients, Register(c) \/ Unregister(c) PROVE HubInv'
  BY <1>3, RegisterStep, UnregisterStep
<1>4. ASSUME NEW c \in Clients,
             Upgrade(c) \/ PeerLeaves(c) \/ WriteNext(c) \/ WriteFails(c) \/ WriteClose(c)
      PROVE  HubInv'
  <2>1. UNCHANGED <<hubVars, subs, published, pollOf, closes, reader>>
    BY <1>4 DEF Upgrade, PeerLeaves, WriteNext, WriteFails, WriteClose, WriterEnds
  <2> QED BY <1>a, <2>1, SocketStep
<1>5. ASSUME NEW c \in Clients, ReadFails(c) \/ ReaderCloses(c) PROVE HubInv'
  <2>1. UNCHANGED <<hubVars, subs, published, pollOf, closes>>
    BY <1>5 DEF ReadFails, ReaderCloses
  <2>2. \/ reader[c] = "reading" /\ reader' = [reader EXCEPT ![c] = "leaving"]
        \/ reader[c] = "closing" /\ reader' = [reader EXCEPT ![c] = "done"]
    BY <1>5 DEF ReadFails, ReaderCloses
  <2> QED BY <1>a, <2>1, <2>2, SocketStep
<1>6. CASE UNCHANGED vars
  <2>1. UNCHANGED <<hubVars, subs, published, pollOf, closes, reader>>
    BY <1>6 DEF vars, sockVars
  <2> QED BY <1>a, <2>1, SocketStep
<1> QED BY <1>1, <1>2, <1>3, <1>4, <1>5, <1>6 DEF Next

(* The server never panics in the hub: whatever the interleaving of        *)
(* registrations, slow readers, drops and disconnections, Hub.Run closes   *)
(* each Send channel at most once and sends only on open ones.             *)
THEOREM HubNeverPanics == Spec => []NeverPanics
<1>1. HubInv => NeverPanics
  BY DEF HubInv
<1> QED BY <1>1, HubInit, HubNext, PTL DEF Spec

(* At any time a poll has exactly one live Redis subscription if it has an *)
(* entry in the hub, and none otherwise.                                   *)
THEOREM OneSubscription == Spec => []SubscribedIffWatched
<1>1. HubInv => SubscribedIffWatched
  BY DEF HubInv
<1> QED BY <1>1, HubInit, HubNext, PTL DEF Spec

(* A connection is registered under its own poll, and only as long as its  *)
(* reader can still unregister it: Broadcast never serves a poll to the    *)
(* viewers of another one, and no entry of h.clients outlives its reader.  *)
THEOREM MembersServed == Spec => []MembersAreServed
<1>1. HubInv => MembersAreServed
  BY DEF HubInv
<1> QED BY <1>1, HubInit, HubNext, PTL DEF Spec
-----------------------------------------------------------------------------
(* What a connection is sent.  In, Rising and Once are about any sequence  *)
(* of messages.                                                            *)

In(q) == {q[i] : i \in DOMAIN q}

Rising(q) == \A i, j \in DOMAIN q : i < j => q[i] < q[j]

Once(q) == \A i, j \in DOMAIN q : i # j => q[i] # q[j]

LEMMA AppendFacts ==
    ASSUME NEW q \in Seq(Messages), NEW m \in Messages
    PROVE  /\ Append(q, m) \in Seq(Messages)
           /\ In(Append(q, m)) = In(q) \union {m}
           /\ m \notin In(q) /\ Once(q) => Once(Append(q, m))
           /\ (\A x \in In(q) : x < m) /\ Rising(q) => Rising(Append(q, m))
<1>1. /\ DOMAIN q = 1..Len(q) /\ Len(q) \in Nat
      /\ DOMAIN Append(q, m) = 1..(Len(q) + 1) /\ Append(q, m)[Len(q) + 1] = m
      /\ \A i \in 1..Len(q) : Append(q, m)[i] = q[i] /\ q[i] \in Messages
  OBVIOUS
<1>2. In(Append(q, m)) = In(q) \union {m}
  BY <1>1 DEF In
<1>3. m \notin In(q) /\ Once(q) => Once(Append(q, m))
  BY <1>1 DEF In, Once
<1>4. (\A x \in In(q) : x < m) /\ Rising(q) => Rising(Append(q, m))
  BY <1>1 DEF In, Rising
<1> QED BY <1>2, <1>3, <1>4

(* A message put at the end of messages of which some, R, are in order.    *)
LEMMA AppendOrder ==
    ASSUME NEW q \in Seq(Messages), NEW m \in Messages, NEW R,
           \A i, j \in DOMAIN q : i < j /\ {q[i], q[j]} \subseteq R => q[i] < q[j],
           m \in R => \A x \in In(q) \cap R : x < m,
           NEW a, a = Append(q, m)
    PROVE  \A i, j \in DOMAIN a : i < j /\ {a[i], a[j]} \subseteq R => a[i] < a[j]
<1>1. /\ DOMAIN q = 1..Len(q) /\ Len(q) \in Nat
      /\ DOMAIN a = 1..(Len(q) + 1) /\ a[Len(q) + 1] = m
      /\ \A i \in 1..Len(q) : a[i] = q[i] /\ q[i] \in Messages
  OBVIOUS
<1>2. ASSUME NEW i \in DOMAIN a, NEW j \in DOMAIN a, i < j, a[i] \in R, a[j] \in R
      PROVE  a[i] < a[j]
  <2>1. i \in 1..Len(q) /\ a[i] = q[i] /\ q[i] \in In(q)
    BY <1>1, <1>2 DEF In
  <2>2. CASE j = Len(q) + 1
    BY <2>1, <2>2, <1>1, <1>2
  <2>3. CASE j # Len(q) + 1
    BY <2>1, <2>3, <1>1, <1>2
  <2> QED BY <2>2, <2>3
<1> QED BY <1>2

LEMMA TailFacts ==
    ASSUME NEW q \in Seq(Messages), q # <<>>
    PROVE  /\ Head(q) \in Messages /\ Head(q) \in In(q)
           /\ Tail(q) \in Seq(Messages) /\ In(Tail(q)) \subseteq In(q)
           /\ In(q) \subseteq In(Tail(q)) \union {Head(q)}
           /\ Rising(q) => Rising(Tail(q)) /\ \A x \in In(Tail(q)) : Head(q) < x
<1>1. /\ DOMAIN q = 1..Len(q) /\ Len(q) \in Nat \ {0} /\ Head(q) = q[1]
      /\ Tail(q) \in Seq(Messages)
      /\ DOMAIN Tail(q) = 1..(Len(q) - 1)
      /\ \A i \in 1..(Len(q) - 1) : Tail(q)[i] = q[i + 1]
      /\ \A i \in 1..Len(q) : q[i] \in Messages
  OBVIOUS
<1>2. Head(q) \in In(q) /\ In(Tail(q)) \subseteq In(q)
  BY <1>1 DEF In
<1>3. Rising(q) => Rising(Tail(q)) /\ \A x \in In(Tail(q)) : Head(q) < x
  BY <1>1 DEF In, Rising
<1>4. In(q) \subseteq In(Tail(q)) \union {Head(q)}
  <2>1. ASSUME NEW i \in 1..Len(q) PROVE q[i] \in In(Tail(q)) \union {Head(q)}
    <3>1. CASE i = 1
      BY <3>1, <1>1
    <3>2. CASE i # 1
      <4>1. i - 1 \in 1..(Len(q) - 1) /\ q[i] = Tail(q)[i - 1]
        BY <3>2, <1>1
      <4> QED BY <4>1, <1>1 DEF In
    <3> QED BY <3>1, <3>2
  <2> QED BY <2>1, <1>1 DEF In
<1> QED BY <1>1, <1>2, <1>3, <1>4

(* Writing a message to the socket leaves the stream as it is; a broadcast *)
(* puts one at its end.                                                    *)
LEMMA StreamFacts ==
    ASSUME NEW g \in Seq(Messages), NEW q \in Seq(Messages)
    PROVE  /\ g \o q \in Seq(Messages)
           /\ q # <<>> => Append(g, Head(q)) \o Tail(q) = g \o q
           /\ \A m \in Messages : g \o Append(q, m) = Append(g \o q, m)
<1>1. g \o q \in Seq(Messages)
  OBVIOUS
<1>2. ASSUME q # <<>> PROVE Append(g, Head(q)) \o Tail(q) = g \o q
  <2> DEFINE a == Append(g, Head(q)) \o Tail(q)
  <2>1. /\ Head(q) = q[1] /\ Head(q) \in Messages /\ Tail(q) \in Seq(Messages)
        /\ Len(Tail(q)) = Len(q) - 1 /\ Len(q) \in Nat \ {0} /\ Len(g) \in Nat
        /\ \A i \in 1..(Len(q) - 1) : Tail(q)[i] = q[i + 1]
    BY <1>2
  <2>2. a \in Seq(Messages) /\ Len(a) = Len(g \o q)
    BY <2>1
  <2>3. ASSUME NEW i \in 1..Len(a) PROVE a[i] = (g \o q)[i]
    <3>1. CASE i <= Len(g)
      BY <3>1, <2>1
    <3>2. CASE i = Len(g) + 1
      BY <3>2, <2>1
    <3>3. CASE i > Len(g) + 1
      BY <3>3, <2>1, <2>2
    <3> QED BY <2>1, <3>1, <3>2, <3>3
  <2> QED BY <1>1, <2>2, <2>3, SeqEqual
<1>3. ASSUME NEW m \in Messages PROVE g \o Append(q, m) = Append(g \o q, m)
  <2> DEFINE a == g \o Append(q, m)
             b == Append(g \o q, m)
  <2>1. a \in Seq(Messages) /\ b \in Seq(Messages) /\ Len(a) = Len(b)
    OBVIOUS
  <2>2. \A i \in 1..Len(a) : a[i] = b[i]
    OBVIOUS
  <2> QED BY <2>1, <2>2, SeqEqual
<1> QED BY <1>1, <1>2, <1>3

(* The part of the type that HubType leaves out.                           *)
PumpType ==
    /\ conn \in [Clients -> {"none", "open", "closed"}]
    /\ writer \in [Clients -> {"none", "writing", "done"}]
    /\ send \in [Clients -> Seq(Messages)]
    /\ got \in [Clients -> Seq(Messages)]

(* A forwarder holds messages in order, which were published, and which no *)
(* other forwarder holds.                                                  *)
Held ==
    /\ \A s \in DOMAIN subs : /\ Rising(subs[s].queue)
                              /\ \A x \in In(subs[s].queue) : x <= published
    /\ \A s, t \in DOMAIN subs :
            s # t => In(subs[s].queue) \cap In(subs[t].queue) = {}

(* A message that a connection was sent was published, and no forwarder    *)
(* holds it any more.                                                      *)
Gone ==
    \A c \in Clients :
        /\ Once(Stream(c))
        /\ \A x \in In(Stream(c)) : x <= published
        /\ \A s \in DOMAIN subs : In(Stream(c)) \cap In(subs[s].queue) = {}

(* What a forwarder holds is the last that its subscription received; no   *)
(* message came in on two; and of two subscriptions of a poll the older    *)
(* one is closed and all that it received is older.                        *)
Origin ==
    /\ \A s \in DOMAIN subs : /\ In(subs[s].queue) \subseteq subs[s].received
                              /\ \A x \in subs[s].received : x <= published
                              /\ \A x \in In(subs[s].queue), m \in subs[s].received :
                                    x < m => m \in In(subs[s].queue)
    /\ \A s, t \in DOMAIN subs :
            s # t => subs[s].received \cap subs[t].received = {}
    /\ \A s, t \in DOMAIN subs : s < t /\ subs[s].poll = subs[t].poll =>
            /\ subs[s].state = "closed"
            /\ \A x \in subs[s].received, y \in subs[t].received : x < y

(* What a connection was sent came in on subscriptions of its poll.  Of    *)
(* one subscription s it was sent messages in order, all older than those  *)
(* the forwarder still holds, and as long as it is a member none was left  *)
(* out after the first.                                                    *)
FromItsPoll(c) ==
    /\ reader[c] = "none" => In(Stream(c)) = {}
    /\ \A x \in In(Stream(c)) : \E s \in DOMAIN subs :
            subs[s].poll = pollOf[c] /\ x \in subs[s].received

OrderedFrom(c, s) ==
    \A i, j \in DOMAIN Stream(c) :
        i < j /\ {Stream(c)[i], Stream(c)[j]} \subseteq subs[s].received
            => Stream(c)[i] < Stream(c)[j]

HeldIsLater(c, s) ==
    \A x \in In(Stream(c)) \cap subs[s].received, y \in In(subs[s].queue) : x < y

NoneLeftOut(c, s) ==
    /\ c \in members[subs[s].poll] =>
          \A x \in In(Stream(c)) \cap subs[s].received, m \in subs[s].received :
              x < m => m \in In(Stream(c)) \union In(subs[s].queue)
    /\ \A x, y \in In(Stream(c)) \cap subs[s].received, m \in subs[s].received :
          x < m /\ m < y => m \in In(Stream(c))

Linked ==
    \A c \in Clients : /\ FromItsPoll(c)
                       /\ \A s \in DOMAIN subs :
                            OrderedFrom(c, s) /\ HeldIsLater(c, s) /\ NoneLeftOut(c, s)

StreamInv == HubInv /\ PumpType /\ Held /\ Gone /\ Origin /\ Linked

LEMMA StreamInit == Init => StreamInv
<1> SUFFICES ASSUME Init PROVE StreamInv
  OBVIOUS
<1>1. PumpType /\ DOMAIN subs = {}
  BY DEF Init, PumpType
<1>2. \A c \in Clients : DOMAIN Stream(c) = {}
  BY DEF Init, Stream
<1>3. Held /\ Gone /\ Origin /\ Linked
  BY <1>1, <1>2 DEF Held, Gone, Origin, Linked, FromItsPoll, In, Once, Rising
<1> QED BY <1>1, <1>3, HubInit DEF StreamInv

(* Most steps leave what the subscriptions received and hold, and the      *)
(* streams, as they are; a new subscription has received nothing, and only *)
(* a connection without a reader becomes a member.                         *)
Calm ==
    /\ DOMAIN subs \subseteq DOMAIN subs'
    /\ \A s \in DOMAIN subs : /\ subs'[s].queue = subs[s].queue
                              /\ subs'[s].poll = subs[s].poll
                              /\ subs'[s].received = subs[s].received
                              /\ subs[s].state = "closed" => subs'[s].state = "closed"
    /\ \A c \in Clients : Stream(c)' = Stream(c)

NewMembersAreNew ==
    \A c \in Clients : /\ reader'[c] = "none" => reader[c] = "none"
                       /\ \A p \in Polls : c \in members'[p] =>
                            c \in members[p] \/ reader[c] = "none"

Fresh(r) == r.queue = <<>> /\ r.received = {} /\ r.state # "closed"

(* Of two subscriptions of a poll one is closed: Live has one element.     *)
LEMMA OlderIsClosed ==
    ASSUME HubInv', NEW s \in DOMAIN subs', NEW t \in DOMAIN subs', s # t,
           subs'[s].poll = subs'[t].poll, subs'[t].state # "closed"
    PROVE  subs'[s].state = "closed"
<1>1. PICK p \in Polls : p = subs'[t].poll
  <2>1. subs'[t] \in SubType
    BY DEF HubInv, HubType
  <2> QED BY <2>1 DEF SubType
<1>2. Live(p)' = IF p \in watched' THEN {subscriptions'[p]} ELSE {}
  BY <1>1 DEF HubInv, SubscribedIffWatched
<1>3. t \in Live(p)' /\ (subs'[s].state # "closed" => s \in Live(p)')
  BY <1>1 DEF Live
<1> QED BY <1>2, <1>3

LEMMA CalmStep ==
    ASSUME StreamInv, HubInv', PumpType', published' = published, pollOf' = pollOf, Calm,
           NewMembersAreNew,
           \A s \in DOMAIN subs' \ DOMAIN subs :
               Fresh(subs'[s]) /\ \A t \in DOMAIN subs : t < s
    PROVE  StreamInv'
<1>1. \A s \in DOMAIN subs' \ DOMAIN subs : DOMAIN subs'[s].queue = {}
  BY DEF Fresh
<1>2. \A s \in DOMAIN subs' \ DOMAIN subs :
        /\ In(subs'[s].queue) = {} /\ Rising(subs'[s].queue) /\ subs'[s].received = {}
        /\ subs'[s].state # "closed"
  BY <1>1 DEF In, Rising, Fresh
<1>3. \A s \in DOMAIN subs : /\ In(subs'[s].queue) = In(subs[s].queue)
                             /\ (Rising(subs[s].queue) => Rising(subs'[s].queue))
                             /\ subs'[s].received = subs[s].received
                             /\ subs'[s].poll = subs[s].poll
                             /\ subs[s].state = "closed" => subs'[s].state = "closed"
  BY DEF Calm
<1>4. \A c \in Clients : /\ Once(Stream(c)) => Once(Stream(c)')
                         /\ Stream(c)' = Stream(c)
                         /\ In(Stream(c)') = In(Stream(c))
  BY DEF Calm
<1>5. Held'
  <2>1. ASSUME NEW s \in DOMAIN subs'
        PROVE  Rising(subs'[s].queue) /\ \A x \in In(subs'[s].queue) : x <= published'
    BY <1>2, <1>3 DEF StreamInv, Held
  <2>2. ASSUME NEW s \in DOMAIN subs', NEW t \in DOMAIN subs', s # t
        PROVE  In(subs'[s].queue) \cap In(subs'[t].queue) = {}
    BY <1>2, <1>3, <2>2 DEF StreamInv, Held
  <2> QED BY <2>1, <2>2 DEF Held, Rising, In
<1>6. Gone'
  <2>1. ASSUME NEW c \in Clients
        PROVE  /\ Once(Stream(c)') /\ \A x \in In(Stream(c)') : x <= published'
               /\ \A s \in DOMAIN subs' : In(Stream(c)') \cap In(subs'[s].queue) = {}
    BY <1>2, <1>3, <1>4 DEF StreamInv, Gone
  <2> QED BY <2>1 DEF Gone, Once, In
<1>7. Origin'
  <2>1. ASSUME NEW s \in DOMAIN subs'
        PROVE  /\ In(subs'[s].queue) \subseteq subs'[s].received
               /\ \A x \in subs'[s].received : x <= published'
               /\ \A x \in In(subs'[s].queue), m \in subs'[s].received :
                     x < m => m \in In(subs'[s].queue)
    BY <1>2, <1>3 DEF StreamInv, Origin
  <2>2. ASSUME NEW s \in DOMAIN subs', NEW t \in DOMAIN subs', s # t
        PROVE  subs'[s].received \cap subs'[t].received = {}
    BY <1>2, <1>3, <2>2 DEF StreamInv, Origin
  <2>3. ASSUME NEW s \in DOMAIN subs', NEW t \in DOMAIN subs', s < t,
               subs'[s].poll = subs'[t].poll
        PROVE  /\ subs'[s].state = "closed"
               /\ \A x \in subs'[s].received, y \in subs'[t].received : x < y
    <3>1. DOMAIN subs' = 1..Len(subs') /\ Len(subs') \in Nat
      BY DEF HubInv, HubType
    <3>2. CASE t \in DOMAIN subs
      <4>1. s \in DOMAIN subs
        BY <3>1, <3>2, <2>3, <1>2
      <4> QED BY <4>1, <3>2, <2>3, <1>3 DEF StreamInv, Origin
    <3>3. CASE t \notin DOMAIN subs
      <4>1. subs'[t].state # "closed" /\ subs'[t].received = {} /\ s # t
        BY <3>3, <3>1, <2>3, <1>2
      <4>2. subs'[s].state = "closed"
        <5>1. subs'[t].poll = subs'[s].poll /\ s \in DOMAIN subs' /\ t \in DOMAIN subs'
          BY <2>3
        <5> QED BY <4>1, <5>1, OlderIsClosed
      <4> QED BY <4>1, <4>2
    <3> QED BY <3>2, <3>3
  <2> QED BY <2>1, <2>2, <2>3 DEF Origin, In
<1>8. Linked'
  <2>1. ASSUME NEW c \in Clients PROVE FromItsPoll(c)'
    <3>1. reader'[c] = "none" => In(Stream(c)') = {}
      BY <1>4 DEF NewMembersAreNew, StreamInv, Linked, FromItsPoll
    <3>2. \A x \in In(Stream(c)') : \E s \in DOMAIN subs' :
            subs'[s].poll = pollOf'[c] /\ x \in subs'[s].received
      <4>1. \A x \in In(Stream(c)) : \E s \in DOMAIN subs :
              subs[s].poll = pollOf[c] /\ x \in subs[s].received
        BY DEF StreamInv, Linked, FromItsPoll
      <4>2. DOMAIN subs \subseteq DOMAIN subs'
        BY DEF Calm
      <4> QED BY <4>1, <4>2, <1>3, <1>4
    <3> QED BY <3>1, <3>2 DEF FromItsPoll, In
  <2>2. ASSUME NEW c \in Clients, NEW s \in DOMAIN subs'
        PROVE  OrderedFrom(c, s)' /\ HeldIsLater(c, s)' /\ NoneLeftOut(c, s)'
    <3>1. CASE s \notin DOMAIN subs
      <4>1. subs'[s].received = {}
        BY <3>1, <1>2
      <4> QED BY <4>1 DEF OrderedFrom, HeldIsLater, NoneLeftOut
    <3>2. CASE s \in DOMAIN subs
      <4>1. OrderedFrom(c, s) /\ HeldIsLater(c, s) /\ NoneLeftOut(c, s) /\ FromItsPoll(c)
        BY <3>2 DEF StreamInv, Linked
      <4>2. OrderedFrom(c, s)'
        BY <3>2, <4>1, <1>3, <1>4 DEF OrderedFrom
      <4>3. HeldIsLater(c, s)'
        <5>1. \A x \in In(Stream(c)') \cap subs'[s].received, y \in In(subs'[s].queue) : x < y
          BY <3>2, <4>1, <1>3, <1>4 DEF HeldIsLater
        <5> QED BY <5>1 DEF HeldIsLater, In
      <4>4. NoneLeftOut(c, s)'
        <5>1. subs'[s].poll \in Polls
          <6>1. subs'[s] \in SubType
            BY DEF HubInv, HubType
          <6> QED BY <6>1 DEF SubType
        <5>2. ASSUME c \in members'[subs'[s].poll],
                     NEW x \in In(Stream(c)') \cap subs'[s].received,
                     NEW m \in subs'[s].received, x < m
              PROVE  m \in In(Stream(c)') \union In(subs'[s].queue)
          <6>1. x \in In(Stream(c)) \cap subs[s].received /\ m \in subs[s].received
            BY <5>2, <3>2, <1>3, <1>4
          <6>2. reader[c] # "none"
            BY <4>1, <6>1 DEF FromItsPoll
          <6>3. c \in members[subs[s].poll]
            BY <5>1, <5>2, <6>2, <3>2, <1>3 DEF NewMembersAreNew
          <6> QED BY <5>2, <6>1, <6>3, <4>1, <3>2, <1>3, <1>4 DEF NoneLeftOut
        <5>3. \A x, y \in In(Stream(c)') \cap subs'[s].received, m \in subs'[s].received :
                x < m /\ m < y => m \in In(Stream(c)')
          BY <3>2, <4>1, <1>3, <1>4 DEF NoneLeftOut
        <5> QED BY <5>2, <5>3 DEF NoneLeftOut, In
      <4> QED BY <4>2, <4>3, <4>4
    <3> QED BY <3>1, <3>2
  <2> QED BY <2>1, <2>2 DEF Linked
<1> QED BY <1>5, <1>6, <1>7, <1>8 DEF StreamInv

(* A message that is published is new, and reaches one forwarder at most.  *)
Received ==
    /\ DOMAIN subs' = DOMAIN subs
    /\ \A s \in DOMAIN subs : In(subs[s].queue) \subseteq In(subs'[s].queue)
    /\ \A c \in Clients : Stream(c)' = Stream(c)

LEMMA PublishKeeps ==
    ASSUME StreamInv, NEW p \in Polls, Publish(p)
    PROVE  StreamInv' /\ Received
<1> DEFINE m == published + 1
<1>a. HubInv /\ HubType /\ HubInv'
  BY PublishStep DEF StreamInv, HubInv
<1>b. published \in Nat /\ m \in Messages /\ published' = m
  <2>1. published \in 0..MaxMessages
    BY <1>a DEF HubType
  <2>2. published < MaxMessages /\ published' = m
    BY DEF Publish
  <2> QED BY <2>1, <2>2, MaxMessagesAssumption DEF Messages
<1>1. /\ subs' = [s \in DOMAIN subs |->
                    IF Receives(s, p)
                    THEN [subs[s] EXCEPT !.queue = Append(@, m),
                                         !.received = @ \union {m}]
                    ELSE subs[s]]
      /\ UNCHANGED <<members, pollOf, conn, reader, writer, send, got>>
  BY DEF Publish, hubVars, sockVars
<1>2. ASSUME NEW s \in DOMAIN subs, NEW t \in DOMAIN subs, Receives(s, p), Receives(t, p)
      PROVE  s = t
  BY <1>2, <1>a DEF HubInv, SubscribedIffWatched, Live, Receives
<1>3. ASSUME NEW s \in DOMAIN subs
      PROVE  /\ subs'[s].poll = subs[s].poll /\ subs[s].queue \in Seq(Messages)
             /\ subs'[s].state = subs[s].state /\ subs[s].received \subseteq Messages
             /\ ~Receives(s, p) => /\ subs'[s].queue = subs[s].queue
                                   /\ subs'[s].received = subs[s].received
             /\ Receives(s, p) => /\ subs'[s].queue = Append(subs[s].queue, m)
                                  /\ subs'[s].received = subs[s].received \union {m}
  <2>1. subs[s] \in SubType
    BY <1>a DEF HubType
  <2> QED BY <2>1, <1>1 DEF SubType
<1>4. \A s \in DOMAIN subs : \A x \in In(subs[s].queue) : x \in Messages /\ x < m
  <2>1. ASSUME NEW s \in DOMAIN subs, NEW x \in In(subs[s].queue) PROVE x \in Messages /\ x < m
    <3>1. x \in Messages
      BY <1>3, <2>1 DEF In
    <3>2. x <= published
      BY <2>1 DEF StreamInv, Held
    <3> QED BY <3>1, <3>2, <1>b DEF Messages
  <2> QED BY <2>1
<1>5. ASSUME NEW s \in DOMAIN subs
      PROVE  /\ Rising(subs'[s].queue)
             /\ In(subs'[s].queue) =
                  In(subs[s].queue) \union (IF Receives(s, p) THEN {m} ELSE {})
  <2>1. Rising(subs[s].queue)
    BY DEF StreamInv, Held
  <2>2. CASE Receives(s, p)
    BY <2>1, <2>2, <1>3, <1>4, <1>b, AppendFacts
  <2>3. CASE ~Receives(s, p)
    BY <2>1, <2>3, <1>3
  <2> QED BY <2>2, <2>3
<1>6. DOMAIN subs' = DOMAIN subs /\ \A c \in Clients : Stream(c)' = Stream(c)
  BY <1>1 DEF Stream
<1>7. PumpType'
  BY <1>1 DEF StreamInv, PumpType
<1>8. \A c \in Clients : \A x \in In(Stream(c)) : x \in Messages /\ x < m
  <2>1. ASSUME NEW c \in Clients, NEW x \in In(Stream(c)) PROVE x \in Messages /\ x < m
    <3>1. Stream(c) \in Seq(Messages)
      BY StreamFacts DEF StreamInv, PumpType, Stream
    <3>2. x \in Messages
      BY <3>1, <2>1 DEF In
    <3>3. x <= published
      BY <2>1 DEF StreamInv, Gone
    <3> QED BY <3>2, <3>3, <1>b DEF Messages
  <2> QED BY <2>1
<1>9. Held'
  <2>1. ASSUME NEW s \in DOMAIN subs
        PROVE  Rising(subs'[s].queue) /\ \A x \in In(subs'[s].queue) : x <= published'
    <3>1. \A x \in In(subs'[s].queue) : x \in Messages /\ (x < m \/ x = m)
      BY <1>4, <1>5, <1>b
    <3> QED BY <3>1, <1>5, <1>b DEF Messages
  <2>2. ASSUME NEW s \in DOMAIN subs, NEW t \in DOMAIN subs, s # t
        PROVE  In(subs'[s].queue) \cap In(subs'[t].queue) = {}
    <3>1. In(subs[s].queue) \cap In(subs[t].queue) = {}
      BY <2>2 DEF StreamInv, Held
    <3>2. m \notin In(subs[s].queue) /\ m \notin In(subs[t].queue)
      BY <1>4, <1>b
    <3> QED BY <3>1, <3>2, <1>2, <1>5, <2>2
  <2> QED BY <2>1, <2>2, <1>6 DEF Held, Rising, In
<1>10. Gone'
  <2>1. ASSUME NEW c \in Clients
        PROVE  /\ Once(Stream(c)) /\ \A x \in In(Stream(c)) : x <= published'
               /\ \A s \in DOMAIN subs : In(Stream(c)) \cap In(subs'[s].queue) = {}
    <3>1. m \notin In(Stream(c))
      BY <1>8, <1>b
    <3>2. \A x \in In(Stream(c)) : x <= m
      BY <1>8, <1>b DEF Messages
    <3> QED BY <3>1, <3>2, <1>b, <1>5 DEF StreamInv, Gone
  <2> QED BY <2>1, <1>6 DEF Gone, Once, In
<1>11. \A s \in DOMAIN subs : \A x \in subs[s].received : x \in Messages /\ x < m
  <2>1. ASSUME NEW s \in DOMAIN subs, NEW x \in subs[s].received PROVE x \in Messages /\ x < m
    <3>1. x \in Messages
      BY <1>3, <2>1
    <3>2. x <= published
      BY <2>1 DEF StreamInv, Origin
    <3> QED BY <3>1, <3>2, <1>b DEF Messages
  <2> QED BY <2>1
<1>13. ASSUME NEW s \in DOMAIN subs
       PROVE  subs'[s].received =
                subs[s].received \union (IF Receives(s, p) THEN {m} ELSE {})
  BY <1>3
<1>14. m \in Nat /\ ~(m < m)
  BY <1>b
<1> HIDE DEF m
<1>15. Origin'
  <2>1. ASSUME NEW s \in DOMAIN subs
        PROVE  /\ In(subs'[s].queue) \subseteq subs'[s].received
               /\ \A x \in subs'[s].received : x <= published'
               /\ \A x \in In(subs'[s].queue), y \in subs'[s].received :
                     x < y => y \in In(subs'[s].queue)
    <3>1. In(subs[s].queue) \subseteq subs[s].received
      BY DEF StreamInv, Origin
    <3>2. \A x \in In(subs[s].queue), y \in subs[s].received :
             x < y => y \in In(subs[s].queue)
      BY DEF StreamInv, Origin
    <3>3. In(subs'[s].queue) \subseteq subs'[s].received
      BY <3>1, <1>5, <1>13
    <3>4. \A x \in subs'[s].received : x <= m
      BY <1>11, <1>13, <1>14 DEF Messages
    <3>5. ASSUME NEW x \in In(subs'[s].queue), NEW y \in subs'[s].received, x < y
          PROVE  y \in In(subs'[s].queue)
      <4>1. CASE y = m
        <5>1. Receives(s, p)
          BY <4>1, <1>11, <1>13, <1>14
        <5> QED BY <4>1, <5>1, <1>5
      <4>2. CASE y # m
        <5>1. y \in subs[s].received
          BY <4>2, <1>13
        <5>2. x # m
          BY <5>1, <3>5, <1>11, <1>14 DEF Messages
        <5> QED BY <5>1, <5>2, <3>2, <3>5, <1>5
      <4> QED BY <4>1, <4>2
    <3> QED BY <3>3, <3>4, <3>5, <1>b
  <2>2. ASSUME NEW s \in DOMAIN subs, NEW t \in DOMAIN subs, s # t
        PROVE  subs'[s].received \cap subs'[t].received = {}
    <3>1. subs[s].received \cap subs[t].received = {}
      BY <2>2 DEF StreamInv, Origin
    <3>2. m \notin subs[s].received /\ m \notin subs[t].received
      BY <1>11, <1>14
    <3> QED BY <3>1, <3>2, <2>2, <1>2, <1>13
  <2>3. ASSUME NEW s \in DOMAIN subs, NEW t \in DOMAIN subs, s < t,
               subs[s].poll = subs[t].poll
        PROVE  /\ subs[s].state = "closed"
               /\ \A x \in subs'[s].received, y \in subs'[t].received : x < y
    <3>1. /\ subs[s].state = "closed"
          /\ \A x \in subs[s].received, y \in subs[t].received : x < y
      BY <2>3 DEF StreamInv, Origin
    <3>2. subs'[s].received = subs[s].received
      BY <3>1, <1>3 DEF Receives
    <3> QED BY <3>1, <3>2, <1>11, <1>13
  <2> QED BY <2>1, <2>2, <2>3, <1>3, <1>6 DEF Origin, In
<1>16. Linked'
  <2>1. ASSUME NEW c \in Clients PROVE FromItsPoll(c)'
    <3>1. /\ reader[c] = "none" => In(Stream(c)) = {}
          /\ \A x \in In(Stream(c)) : \E s \in DOMAIN subs :
                subs[s].poll = pollOf[c] /\ x \in subs[s].received
      BY DEF StreamInv, Linked, FromItsPoll
    <3>2. \A x \in In(Stream(c)') : \E s \in DOMAIN subs' :
            subs'[s].poll = pollOf'[c] /\ x \in subs'[s].received
      <4>1. /\ DOMAIN subs' = DOMAIN subs /\ pollOf' = pollOf
            /\ \A s \in DOMAIN subs : /\ subs'[s].poll = subs[s].poll
                                      /\ subs[s].received \subseteq subs'[s].received
        BY <1>1, <1>3, <1>6, <1>13
      <4>2. In(Stream(c)') = In(Stream(c))
        BY <1>6
      <4> QED BY <3>1, <4>1, <4>2
    <3>3. reader'[c] = "none" => In(Stream(c)') = {}
      BY <3>1, <1>1, <1>6
    <3> QED BY <3>2, <3>3 DEF FromItsPoll, In
  <2>2. ASSUME NEW c \in Clients, NEW s \in DOMAIN subs
        PROVE  OrderedFrom(c, s)' /\ HeldIsLater(c, s)' /\ NoneLeftOut(c, s)'
    <3>1. OrderedFrom(c, s) /\ HeldIsLater(c, s) /\ NoneLeftOut(c, s)
      BY DEF StreamInv, Linked
    <3>2. m \notin In(Stream(c)) /\ Stream(c)' = Stream(c)
      BY <1>6, <1>8, <1>14
    <3>3. In(Stream(c)) \cap subs'[s].received = In(Stream(c)) \cap subs[s].received
      BY <3>2, <1>13
    <3>4. OrderedFrom(c, s)'
      <4>1. \A i \in DOMAIN Stream(c) :
              Stream(c)[i] \in subs'[s].received => Stream(c)[i] \in subs[s].received
        BY <3>3 DEF In
      <4> QED BY <4>1, <3>1, <3>2 DEF OrderedFrom
    <3>5. HeldIsLater(c, s)'
      <4>1. \A x \in In(Stream(c)) \cap subs'[s].received, y \in In(subs'[s].queue) : x < y
        BY <3>1, <3>3, <1>5, <1>8 DEF HeldIsLater
      <4> QED BY <4>1, <3>2 DEF HeldIsLater, In
    <3>6. NoneLeftOut(c, s)'
      <4>1. ASSUME c \in members[subs[s].poll],
                   NEW x \in In(Stream(c)) \cap subs[s].received,
                   NEW y \in subs'[s].received, x < y
            PROVE  y \in In(Stream(c)) \union In(subs'[s].queue)
        <5>1. CASE y \in subs[s].received
          BY <4>1, <5>1, <3>1, <1>5 DEF NoneLeftOut
        <5>2. CASE y \notin subs[s].received
          BY <5>2, <1>5, <1>13
        <5> QED BY <5>1, <5>2
      <4>2. ASSUME NEW x \in In(Stream(c)) \cap subs[s].received,
                   NEW z \in In(Stream(c)) \cap subs[s].received,
                   NEW y \in subs'[s].received, x < y, y < z
            PROVE  y \in In(Stream(c))
        <5>1. y # m
          BY <4>2, <1>11, <1>14 DEF Messages
        <5>2. y \in subs[s].received
          BY <5>1, <1>13
        <5> QED BY <4>2, <5>2, <3>1 DEF NoneLeftOut
      <4>3. subs'[s].poll = subs[s].poll /\ members' = members
        BY <1>1, <1>3
      <4> QED BY <4>1, <4>2, <4>3, <3>2, <3>3 DEF NoneLeftOut, In
    <3> QED BY <3>4, <3>5, <3>6
  <2> QED BY <2>1, <2>2, <1>6 DEF Linked
<1>12. Received
  <2>1. \A s \in DOMAIN subs : In(subs[s].queue) \subseteq In(subs'[s].queue)
    BY <1>5
  <2> QED BY <2>1, <1>6 DEF Received
<1> QED BY <1>a, <1>7, <1>9, <1>10, <1>12, <1>15, <1>16 DEF StreamInv

(* A broadcast moves a message from the front of what a forwarder holds to *)
(* the end of the streams of some members, all viewers of that poll.       *)
HandedOn(s) ==
    LET m == Head(subs[s].queue) IN
    /\ DOMAIN subs' = DOMAIN subs
    /\ \A t \in DOMAIN subs :
          In(subs[t].queue) \subseteq In(subs'[t].queue) \union (IF t = s THEN {m} ELSE {})
    /\ \A c \in Clients : In(Stream(c)) \subseteq In(Stream(c)')
    /\ \A c \in members[subs[s].poll] : Full(c) \/ m \in In(Stream(c)')

LEMMA BroadcastKeeps ==
    ASSUME StreamInv, NEW s \in DOMAIN subs, Broadcast(s)
    PROVE  StreamInv' /\ HandedOn(s)
<1> DEFINE q == subs[s].queue
           m == Head(q)
           p == subs[s].poll
           Sent(c) == c \in members[p] /\ ~Full(c)
           r == [subs[s] EXCEPT !.queue = Tail(@)]
<1>a. HubInv /\ HubType /\ HubInv' /\ subs[s] \in SubType
  BY BroadcastStep DEF StreamInv, HubInv, HubType
<1>b. q \in Seq(Messages) /\ q # <<>> /\ p \in Polls
  BY <1>a DEF SubType, Broadcast
<1>1. /\ subs' = [subs EXCEPT ![s] = r]
      /\ send' = [c \in Clients |-> IF Sent(c) THEN Append(send[c], m) ELSE send[c]]
      /\ members' = [members EXCEPT ![p] = @ \ Drops(p)]
      /\ UNCHANGED <<published, pollOf, conn, reader, writer, got>>
  BY DEF Broadcast, HandOver, sockVars
<1>2. /\ m \in Messages /\ m \in In(q) /\ Tail(q) \in Seq(Messages)
      /\ In(Tail(q)) \subseteq In(q) /\ Rising(Tail(q)) /\ \A x \in In(Tail(q)) : m < x
      /\ In(q) \subseteq In(Tail(q)) \union {m}
  BY <1>b, TailFacts DEF StreamInv, Held
<1>3. m <= published /\ m \notin In(Tail(q)) /\ published \in Nat
  <2>1. m <= published /\ published \in Nat
    BY <1>2, <1>a DEF StreamInv, Held, HubType
  <2>2. ~(m < m)
    BY <1>2 DEF Messages
  <2> QED BY <2>1, <2>2, <1>2
<1>4. /\ DOMAIN subs' = DOMAIN subs
      /\ \A t \in DOMAIN subs : /\ subs'[t].poll = subs[t].poll
                                /\ subs'[t].state = subs[t].state
                                /\ subs'[t].received = subs[t].received
      /\ \A t \in DOMAIN subs \ {s} : subs'[t].queue = subs[t].queue
      /\ subs'[s].queue = Tail(q)
  <2>1. subs \in Seq(SubType) /\ r \in SubType /\ r.poll = p /\ r.queue = Tail(q)
        /\ r.state = subs[s].state /\ r.received = subs[s].received
    BY <1>a, <1>b, <1>2 DEF SubType, HubType
  <2> HIDE DEF r
  <2>2. /\ DOMAIN subs' = DOMAIN subs /\ subs'[s] = r
        /\ \A t \in DOMAIN subs \ {s} : subs'[t] = subs[t]
    BY <2>1, <1>1, ReplaceSub
  <2> QED BY <2>1, <2>2
<1>5. \A t \in DOMAIN subs : In(subs'[t].queue) \subseteq In(subs[t].queue)
  BY <1>2, <1>4
<1>6. ASSUME NEW c \in Clients
      PROVE  /\ Stream(c) \in Seq(Messages)
             /\ Stream(c)' = IF Sent(c) THEN Append(Stream(c), m) ELSE Stream(c)
             /\ Sent(c) => pollOf[c] = p
  <2>1. got[c] \in Seq(Messages) /\ send[c] \in Seq(Messages)
    BY DEF StreamInv, PumpType
  <2>2. Sent(c) => pollOf[c] = p
    BY <1>a, <1>b DEF HubInv, MembersAreServed
  <2>3. got'[c] = got[c] /\ send'[c] = IF Sent(c) THEN Append(send[c], m) ELSE send[c]
    BY <1>1
  <2>4. m \in Messages
    BY <1>2
  <2>5. Stream(c) = got[c] \o send[c] /\ Stream(c)' = got'[c] \o send'[c]
    BY DEF Stream
  <2> HIDE DEF Sent, m
  <2>6. got[c] \o Append(send[c], m) = Append(got[c] \o send[c], m)
        /\ got[c] \o send[c] \in Seq(Messages)
    BY <2>1, <2>4, StreamFacts
  <2>7. CASE Sent(c)
    BY <2>2, <2>3, <2>5, <2>6, <2>7
  <2>8. CASE ~Sent(c)
    BY <2>3, <2>5, <2>6, <2>8
  <2> QED BY <2>7, <2>8
<1>7. PumpType'
  <2>1. \A c \in Clients : send'[c] \in Seq(Messages)
    BY <1>1, <1>2 DEF StreamInv, PumpType
  <2> QED BY <2>1, <1>1 DEF StreamInv, PumpType
<1>8. ASSUME NEW c \in Clients
      PROVE  In(Stream(c)') = In(Stream(c)) \union (IF Sent(c) THEN {m} ELSE {})
  BY <1>2, <1>6, AppendFacts
<1>12. HandedOn(s)
  <2>1. \A c \in members[p] : c \in Clients /\ (Full(c) \/ Sent(c))
    BY <1>a, <1>b DEF HubType
  <2>2. \A c \in Clients : /\ In(Stream(c)) \subseteq In(Stream(c)')
                           /\ Sent(c) => m \in In(Stream(c)')
    BY <1>8
  <2>3. \A t \in DOMAIN subs :
          In(subs[t].queue) \subseteq In(subs'[t].queue) \union (IF t = s THEN {m} ELSE {})
    BY <1>2, <1>4
  <2> HIDE DEF Sent
  <2> QED BY <1>4, <2>1, <2>2, <2>3 DEF HandedOn
<1> HIDE DEF m, Sent, r
<1>9. Held'
  <2>1. ASSUME NEW t \in DOMAIN subs
        PROVE  Rising(subs'[t].queue) /\ \A x \in In(subs'[t].queue) : x <= published
    BY <1>2, <1>4, <1>5 DEF StreamInv, Held
  <2>2. ASSUME NEW t \in DOMAIN subs, NEW u \in DOMAIN subs, t # u
        PROVE  In(subs'[t].queue) \cap In(subs'[u].queue) = {}
    BY <1>5, <2>2 DEF StreamInv, Held
  <2> QED BY <2>1, <2>2, <1>1, <1>4 DEF Held, Rising, In
<1>10. Gone'
  <2>1. ASSUME NEW c \in Clients
        PROVE  /\ Once(Stream(c)') /\ \A x \in In(Stream(c)') : x <= published
               /\ \A t \in DOMAIN subs : In(Stream(c)') \cap In(subs'[t].queue) = {}
    <3>a. Once(Stream(c)) /\ In(Stream(c)) \cap In(q) = {}
      BY DEF StreamInv, Gone
    <3>b. m \in In(q)
      BY <1>2
    <3>1. m \notin In(Stream(c)) /\ Once(Stream(c))
      BY <3>a, <3>b
    <3>2. Once(Stream(c)')
      <4> DEFINE a == Stream(c)
      <4>1. a \in Seq(Messages) /\ m \notin In(a) /\ Once(a)
        BY <3>1, <1>6
      <4> HIDE DEF a
      <4>2. Once(Append(a, m))
        BY <4>1, <1>2, AppendFacts
      <4>3. Stream(c)' = Append(a, m) \/ Stream(c)' = a
        BY <1>6 DEF a
      <4>4. CASE Stream(c)' = Append(a, m)
        BY <4>2, <4>4
      <4>5. CASE Stream(c)' = a
        BY <4>1, <4>5
      <4> QED BY <4>3, <4>4, <4>5
    <3>3. \A x \in In(Stream(c)') : x <= published
      BY <1>3, <1>8 DEF StreamInv, Gone
    <3>4. \A t \in DOMAIN subs : m \notin In(subs'[t].queue)
      BY <1>2, <1>3, <1>4 DEF StreamInv, Held
    <3>5. \A t \in DOMAIN subs : In(Stream(c)') \cap In(subs'[t].queue) = {}
      BY <3>4, <1>5, <1>8 DEF StreamInv, Gone
    <3> QED BY <3>2, <3>3, <3>5
  <2> QED BY <2>1, <1>1, <1>4 DEF Gone, Once, In
<1>11. Origin'
  <2>1. ASSUME NEW t \in DOMAIN subs
        PROVE  /\ In(subs'[t].queue) \subseteq subs[t].received
               /\ \A x \in subs[t].received : x <= published
               /\ \A x \in In(subs'[t].queue), y \in subs[t].received :
                     x < y => y \in In(subs'[t].queue)
    <3>1. /\ In(subs[t].queue) \subseteq subs[t].received
          /\ \A x \in subs[t].received : x <= published
          /\ \A x \in In(subs[t].queue), y \in subs[t].received :
                x < y => y \in In(subs[t].queue)
      BY DEF StreamInv, Origin
    <3>2. CASE t # s
      BY <3>1, <3>2, <1>4
    <3>3. CASE t = s
      <4>1. ASSUME NEW x \in In(Tail(q)), NEW y \in subs[s].received, x < y
            PROVE  y \in In(Tail(q))
        <5>1. y \in In(q)
          BY <4>1, <3>1, <3>3, <1>2
        <5>2. m < x /\ x \in Messages /\ m \in Messages
          BY <4>1, <1>2 DEF In
        <5>3. y # m
          BY <5>2, <4>1 DEF Messages
        <5> QED BY <5>1, <5>3, <1>2
      <4> QED BY <4>1, <3>1, <3>3, <1>2, <1>4
    <3> QED BY <3>2, <3>3
  <2>2. \A t, u \in DOMAIN subs : t # u => subs[t].received \cap subs[u].received = {}
    BY DEF StreamInv, Origin
  <2>3. \A t, u \in DOMAIN subs : t < u /\ subs[t].poll = subs[u].poll =>
            /\ subs[t].state = "closed"
            /\ \A x \in subs[t].received, y \in subs[u].received : x < y
    BY DEF StreamInv, Origin
  <2>4. /\ DOMAIN subs' = DOMAIN subs /\ published' = published
        /\ \A t \in DOMAIN subs : /\ subs'[t].poll = subs[t].poll
                                  /\ subs'[t].state = subs[t].state
                                  /\ subs'[t].received = subs[t].received
    BY <1>1, <1>4
  <2>5. ASSUME NEW t \in DOMAIN subs'
        PROVE  /\ In(subs'[t].queue) \subseteq subs'[t].received
               /\ \A x \in subs'[t].received : x <= published'
               /\ \A x \in In(subs'[t].queue), y \in subs'[t].received :
                     x < y => y \in In(subs'[t].queue)
    BY <2>1, <2>4, <2>5
  <2>6. ASSUME NEW t \in DOMAIN subs', NEW u \in DOMAIN subs'
        PROVE  /\ t # u => subs'[t].received \cap subs'[u].received = {}
               /\ t < u /\ subs'[t].poll = subs'[u].poll =>
                    /\ subs'[t].state = "closed"
                    /\ \A x \in subs'[t].received, y \in subs'[u].received : x < y
    BY <2>2, <2>3, <2>4, <2>6
  <2> QED BY <2>5, <2>6 DEF Origin, In
<1>13. /\ m \in subs[s].received
       /\ \A t \in DOMAIN subs \ {s} : m \notin subs[t].received
  BY <1>2 DEF StreamInv, Origin
<1>14. ASSUME NEW c \in Clients, NEW t \in DOMAIN subs, c \in members'[subs[t].poll]
       PROVE  c \in members[subs[t].poll] /\ (t = s => Sent(c))
  <2>1. subs[t].poll \in Polls /\ members \in [Polls -> SUBSET Clients]
    <3>1. subs[t] \in SubType
      BY <1>a DEF HubType
    <3> QED BY <3>1, <1>a DEF SubType, HubType
  <2> QED BY <2>1, <1>1, <1>14 DEF Drops, Sent
<1>15. ASSUME NEW c \in Clients PROVE FromItsPoll(c)'
  <2>1. /\ reader[c] = "none" => In(Stream(c)) = {}
        /\ \A x \in In(Stream(c)) : \E t \in DOMAIN subs :
              subs[t].poll = pollOf[c] /\ x \in subs[t].received
    BY DEF StreamInv, Linked, FromItsPoll
  <2>2. Sent(c) => reader[c] # "none" /\ pollOf[c] = p
    BY <1>6, <1>a, <1>b DEF HubInv, MembersAreServed, Sent
  <2>3. \A x \in In(Stream(c)') : \E t \in DOMAIN subs :
              subs[t].poll = pollOf[c] /\ x \in subs[t].received
    BY <2>1, <2>2, <1>8, <1>13
  <2>4. reader[c] = "none" => In(Stream(c)') = {}
    BY <2>1, <2>2, <1>8
  <2> QED BY <2>3, <2>4, <1>1, <1>4 DEF FromItsPoll, In
<1>16. ASSUME NEW c \in Clients, NEW t \in DOMAIN subs
       PROVE  OrderedFrom(c, t)' /\ HeldIsLater(c, t)' /\ NoneLeftOut(c, t)'
  <2> DEFINE S == In(Stream(c)) \cap subs[t].received
             T == In(Stream(c)') \cap subs[t].received
  <2>1. OrderedFrom(c, t) /\ HeldIsLater(c, t) /\ NoneLeftOut(c, t)
    BY DEF StreamInv, Linked
  <2>2. (T = S \/ T = S \union {m}) /\ (T = S \/ (t = s /\ Sent(c)))
    BY <1>8, <1>13
  <2>3. t = s => \A x \in S : x < m
    BY <2>1, <1>2 DEF HeldIsLater
  <2>4. subs[t].received \subseteq Messages
    <3>1. subs[t] \in SubType
      BY <1>a DEF HubType
    <3> QED BY <3>1 DEF SubType
  <2>5. \A i, j \in DOMAIN Stream(c)' :
            i < j /\ {Stream(c)'[i], Stream(c)'[j]} \subseteq subs[t].received
                => Stream(c)'[i] < Stream(c)'[j]
    <3>1. CASE ~Sent(c)
      BY <3>1, <2>1, <1>6 DEF OrderedFrom
    <3>2. CASE Sent(c)
      <4> DEFINE a == Stream(c)
                 R == subs[t].received
      <4>1. PICK b : b = Stream(c)'
        OBVIOUS
      <4>2. b = Append(a, m) /\ a \in Seq(Messages) /\ m \in Messages
        BY <4>1, <3>2, <1>2, <1>6
      <4>3. \A i, j \in DOMAIN a : i < j /\ {a[i], a[j]} \subseteq R => a[i] < a[j]
        BY <2>1 DEF OrderedFrom
      <4>4. m \in R => \A x \in In(a) \cap R : x < m
        BY <2>3, <1>13
      <4> HIDE DEF a, R
      <4>5. \A i, j \in DOMAIN b : i < j /\ {b[i], b[j]} \subseteq R => b[i] < b[j]
        BY <4>2, <4>3, <4>4, AppendOrder
      <4> QED BY <4>1, <4>5 DEF R
    <3> QED BY <3>1, <3>2
  <2>6. ASSUME NEW x \in T, NEW y \in In(subs'[t].queue) PROVE x < y
    <3>1. CASE x \in S
      BY <3>1, <2>1, <2>6, <1>5 DEF HeldIsLater
    <3>2. CASE x \notin S
      <4>1. x = m /\ t = s
        BY <3>2, <2>2, <2>6
      <4> QED BY <4>1, <2>6, <1>2, <1>4
    <3> QED BY <3>1, <3>2
  <2>7. ASSUME c \in members'[subs[t].poll], NEW x \in T, NEW y \in subs[t].received, x < y
        PROVE  y \in In(Stream(c)') \union In(subs'[t].queue)
    <3>1. c \in members[subs[t].poll] /\ (t = s => m \in In(Stream(c)'))
      BY <2>7, <1>8, <1>14
    <3>2. In(subs[t].queue) \subseteq In(subs'[t].queue) \union In(Stream(c)')
      BY <3>1, <1>2, <1>4
    <3>3. CASE x \in S
      <4>1. y \in In(Stream(c)) \union In(subs[t].queue)
        BY <3>1, <3>3, <2>1, <2>7 DEF NoneLeftOut
      <4> QED BY <4>1, <3>2, <1>8
    <3>4. CASE x \notin S
      <4>1. x = m /\ t = s
        BY <3>4, <2>2, <2>7
      <4>2. y \in In(q)
        BY <4>1, <2>7, <1>2 DEF StreamInv, Origin
      <4> QED BY <4>1, <4>2, <3>2
    <3> QED BY <3>3, <3>4
  <2>8. ASSUME NEW x \in T, NEW z \in T, NEW y \in subs[t].received, x < y, y < z
        PROVE  y \in In(Stream(c)')
    <3>1. x \in Messages /\ y \in Messages /\ z \in Messages
      BY <2>4
    <3>2. CASE x \in S /\ z \in S
      BY <3>2, <2>1, <2>8, <1>8 DEF NoneLeftOut
    <3>3. CASE x \notin S
      <4>1. x = m /\ t = s /\ (z \in S \/ z = m)
        BY <3>3, <2>2, <2>8
      <4>2. z = m \/ z < m
        BY <4>1, <2>3
      <4> QED BY <4>1, <4>2, <3>1, <2>8 DEF Messages
    <3>4. CASE x \in S /\ z \notin S
      <4>1. z = m /\ t = s /\ Sent(c)
        BY <3>4, <2>2, <2>8
      <4>2. y \in In(Stream(c)) \union In(q)
        BY <4>1, <3>4, <2>1, <2>8 DEF NoneLeftOut, Sent
      <4>3. y \notin In(Tail(q)) /\ y # m
        BY <4>1, <2>8, <3>1, <1>2 DEF Messages
      <4> QED BY <4>2, <4>3, <1>2, <1>8
    <3> QED BY <3>2, <3>3, <3>4
  <2>9. subs'[t].received = subs[t].received /\ subs'[t].poll = subs[t].poll
    BY <1>4
  <2>10. OrderedFrom(c, t)'
    BY <2>5, <2>9 DEF OrderedFrom
  <2>11. HeldIsLater(c, t)'
    BY <2>6, <2>9 DEF HeldIsLater, In
  <2>12. NoneLeftOut(c, t)'
    BY <2>7, <2>8, <2>9 DEF NoneLeftOut, In
  <2> QED BY <2>10, <2>11, <2>12
<1>17. Linked'
  BY <1>4, <1>15, <1>16 DEF Linked
<1> QED BY <1>a, <1>7, <1>9, <1>10, <1>11, <1>12, <1>17 DEF StreamInv

LEMMA RegisterKeeps ==
    ASSUME StreamInv, NEW c \in Clients, Register(c)
    PROVE  StreamInv' /\ Calm
<1> DEFINE new == [poll |-> pollOf[c], state |-> "pending", received |-> {}, queue |-> <<>>]
<1>a. /\ HubInv' /\ subs \in Seq(SubType) /\ pollOf[c] \in Polls
      /\ members \in [Polls -> SUBSET Clients]
      /\ reader \in [Clients -> {"none", "reading", "leaving", "closing", "done"}]
  BY RegisterStep DEF StreamInv, HubInv, HubType
<1>1. /\ writer' = [writer EXCEPT ![c] = "writing"]
      /\ reader' = [reader EXCEPT ![c] = "reading"] /\ reader[c] = "none"
      /\ members' = [members EXCEPT ![pollOf[c]] = @ \union {c}]
      /\ UNCHANGED <<published, pollOf, conn, send, got>>
  BY DEF Register
<1>2. PumpType' /\ \A d \in Clients : Stream(d)' = Stream(d)
  BY <1>1 DEF StreamInv, PumpType, Stream
<1>3. NewMembersAreNew
  BY <1>1, <1>a DEF NewMembersAreNew
<1>4. CASE subs' = subs
  BY <1>a, <1>1, <1>2, <1>3, <1>4, CalmStep DEF Calm
<1>5. CASE subs' = Append(subs, new)
  <2>1. new \in SubType
    BY <1>a DEF SubType
  <2>2. Fresh(new)
    BY DEF Fresh
  <2> HIDE DEF new
  <2>3. /\ DOMAIN subs' = DOMAIN subs \union {Len(subs) + 1} /\ subs'[Len(subs) + 1] = new
        /\ \A s \in DOMAIN subs : subs'[s] = subs[s] /\ s < Len(subs) + 1
    BY <2>1, <1>5, <1>a
  <2> QED BY <2>2, <2>3, <1>a, <1>1, <1>2, <1>3, CalmStep DEF Calm
<1> QED BY <1>4, <1>5 DEF Register, StartSubscription

(* Steps that change at most the state of a subscription.                  *)
LEMMA StateKeeps ==
    ASSUME StreamInv, HubInv', UNCHANGED <<published, pollOf, conn, writer, send, got>>,
           NewMembersAreNew,
           \/ subs' = subs
           \/ \E n \in DOMAIN subs : \E st \in {"pending", "active", "closed"} :
                 /\ subs' = [subs EXCEPT ![n].state = st]
                 /\ subs[n].state = "closed" => st = "closed"
    PROVE  StreamInv' /\ Calm
<1>a. subs \in Seq(SubType)
  BY DEF StreamInv, HubInv, HubType
<1>1. PumpType' /\ \A d \in Clients : Stream(d)' = Stream(d)
  BY DEF StreamInv, PumpType, Stream
<1>2. /\ DOMAIN subs' = DOMAIN subs
      /\ \A s \in DOMAIN subs : /\ subs'[s].queue = subs[s].queue
                                /\ subs'[s].poll = subs[s].poll
                                /\ subs'[s].received = subs[s].received
                                /\ subs[s].state = "closed" => subs'[s].state = "closed"
  <2>1. ASSUME NEW n \in DOMAIN subs, NEW st \in {"pending", "active", "closed"},
               subs' = [subs EXCEPT ![n].state = st],
               subs[n].state = "closed" => st = "closed"
        PROVE  /\ DOMAIN subs' = DOMAIN subs
               /\ \A s \in DOMAIN subs : /\ subs'[s].queue = subs[s].queue
                                         /\ subs'[s].poll = subs[s].poll
                                         /\ subs'[s].received = subs[s].received
                                         /\ subs[s].state = "closed" =>
                                                subs'[s].state = "closed"
                                /\ subs'[s].received = subs[s].received
                                /\ subs[s].state = "closed" => subs'[s].state = "closed"
    <3> DEFINE r == [subs[n] EXCEPT !.state = st]
    <3>a. subs[n] \in SubType
      BY <1>a
    <3>1. /\ r \in SubType /\ r.poll = subs[n].poll /\ r.queue = subs[n].queue
          /\ r.received = subs[n].received /\ r.state = st
      BY <3>a DEF SubType
    <3>2. subs' = [subs EXCEPT ![n] = r]
      BY <2>1
    <3> HIDE DEF r
    <3>3. /\ DOMAIN subs' = DOMAIN subs /\ subs'[n] = r
          /\ \A t \in DOMAIN subs \ {n} : subs'[t] = subs[t]
      BY <2>1, <3>1, <3>2, <1>a, ReplaceSub
    <3>4. ASSUME NEW t \in DOMAIN subs
          PROVE  /\ subs'[t].queue = subs[t].queue /\ subs'[t].poll = subs[t].poll
                 /\ subs'[t].received = subs[t].received
                 /\ subs[t].state = "closed" => subs'[t].state = "closed"
      <4>1. CASE t = n
        BY <4>1, <2>1, <3>1, <3>3
      <4>2. CASE t # n
        BY <4>2, <3>3
      <4> QED BY <4>1, <4>2
    <3> QED BY <3>3, <3>4
  <2>2. CASE subs' = subs
    BY <2>2
  <2>3. CASE subs' # subs
    <3>1. PICK n \in DOMAIN subs : \E st \in {"pending", "active", "closed"} :
            /\ subs' = [subs EXCEPT ![n].state = st]
            /\ subs[n].state = "closed" => st = "closed"
      BY <2>3
    <3>2. PICK st \in {"pending", "active", "closed"} :
            /\ subs' = [subs EXCEPT ![n].state = st]
            /\ subs[n].state = "closed" => st = "closed"
      BY <3>1
    <3> QED BY <2>1, <3>2
  <2> QED BY <2>2, <2>3
<1> QED BY <1>1, <1>2, CalmStep DEF Calm

LEMMA UnregisterKeeps ==
    ASSUME StreamInv, NEW c \in Clients, Unregister(c)
    PROVE  StreamInv' /\ Calm
<1> DEFINE n == subscriptions[pollOf[c]]
<1>a. HubInv /\ HubInv' /\ pollOf[c] \in Polls
  BY UnregisterStep DEF StreamInv, HubInv, HubType
<1>b. NewMembersAreNew
  <2>1. /\ reader' = [reader EXCEPT ![c] = "closing"]
        /\ \/ members' = members
           \/ members' = [members EXCEPT ![pollOf[c]] = @ \ {c}]
    BY DEF Unregister, hubVars
  <2>2. /\ members \in [Polls -> SUBSET Clients]
        /\ reader \in [Clients -> {"none", "reading", "leaving", "closing", "done"}]
    BY <1>a DEF HubInv, HubType
  <2>3. \A q \in Polls : members'[q] \subseteq members[q]
    BY <1>a, <2>1, <2>2
  <2>4. \A d \in Clients : reader'[d] = "none" => reader[d] = "none"
    BY <2>1, <2>2
  <2> QED BY <2>3, <2>4 DEF NewMembersAreNew
<1>1. /\ UNCHANGED <<published, pollOf, conn, writer, send, got>>
      /\ \/ subs' = subs
         \/ IsMember(c) /\ subs' = [subs EXCEPT ![n].state = "closed"]
  BY DEF Unregister, StopSubscription, hubVars
<1>2. IsMember(c) => n \in DOMAIN subs
  BY <1>a DEF IsMember, HubInv, MembersAreServed, SubscribedIffWatched, Live
<1>3. CASE subs' = subs
  BY <1>a, <1>b, <1>1, <1>3, StateKeeps
<1>4. CASE IsMember(c) /\ subs' = [subs EXCEPT ![n].state = "closed"]
  <2>1. \E k \in DOMAIN subs : subs' = [subs EXCEPT ![k].state = "closed"]
    BY <1>2, <1>4
  <2> QED BY <1>a, <1>b, <1>1, <2>1, StateKeeps
<1> QED BY <1>1, <1>3, <1>4

LEMMA PumpKeeps ==
    ASSUME StreamInv, HubInv', NEW c \in Clients,
           \/ Upgrade(c) \/ PeerLeaves(c) \/ ReadFails(c) \/ ReaderCloses(c)
           \/ WriteNext(c) \/ WriteFails(c) \/ WriteClose(c)
    PROVE  StreamInv' /\ Calm
<1>1. UNCHANGED <<subs, published, pollOf, members>>
  BY DEF Upgrade, PeerLeaves, ReadFails, ReaderCloses, WriteNext, WriteFails, WriteClose,
         WriterEnds, hubVars
<1>a. NewMembersAreNew
  <2>1. reader \in [Clients -> {"none", "reading", "leaving", "closing", "done"}]
    BY DEF StreamInv, HubInv, HubType
  <2>2. \A d \in Clients : reader'[d] = "none" => reader[d] = "none"
    BY <2>1 DEF Upgrade, PeerLeaves, ReadFails, ReaderCloses, WriteNext, WriteFails,
                WriteClose, WriterEnds
  <2> QED BY <1>1, <2>2 DEF NewMembersAreNew
<1>2. CASE WriteNext(c)
  <2>1. /\ send[c] # <<>> /\ got' = [got EXCEPT ![c] = Append(@, Head(send[c]))]
        /\ send' = [send EXCEPT ![c] = Tail(@)] /\ UNCHANGED <<conn, writer>>
    BY <1>2 DEF WriteNext
  <2>2. send[c] \in Seq(Messages) /\ got[c] \in Seq(Messages)
    BY DEF StreamInv, PumpType
  <2>3. Tail(send[c]) \in Seq(Messages) /\ Append(got[c], Head(send[c])) \in Seq(Messages)
    BY <2>1, <2>2
  <2>4. PumpType'
    BY <2>1, <2>3 DEF StreamInv, PumpType
  <2>5. ASSUME NEW d \in Clients PROVE Stream(d)' = Stream(d)
    <3>1. CASE d = c
      <4>1. got'[c] = Append(got[c], Head(send[c])) /\ send'[c] = Tail(send[c])
        BY <2>1 DEF StreamInv, PumpType
      <4>2. Append(got[c], Head(send[c])) \o Tail(send[c]) = got[c] \o send[c]
        BY <2>1, <2>2, StreamFacts
      <4> QED BY <3>1, <4>1, <4>2 DEF Stream
    <3>2. CASE d # c
      BY <3>2, <2>1 DEF StreamInv, PumpType, Stream
    <3> QED BY <3>1, <3>2
  <2> QED BY <1>1, <1>a, <2>4, <2>5, CalmStep DEF Calm
<1>3. CASE ~WriteNext(c)
  <2>1. UNCHANGED <<send, got>> /\ PumpType'
    BY <1>3 DEF Upgrade, PeerLeaves, ReadFails, ReaderCloses, WriteFails, WriteClose,
                WriterEnds, StreamInv, PumpType
  <2>2. \A d \in Clients : Stream(d)' = Stream(d)
    BY <2>1 DEF Stream
  <2> QED BY <1>1, <1>a, <2>1, <2>2, CalmStep DEF Calm
<1> QED BY <1>2, <1>3

LEMMA StreamNext == StreamInv /\ [Next]_vars => StreamInv'
<1> SUFFICES ASSUME StreamInv, [Next]_vars PROVE StreamInv'
  OBVIOUS
<1>a. HubInv'
  BY HubNext DEF StreamInv
<1>1. ASSUME NEW p \in Polls, Publish(p) PROVE StreamInv'
  BY <1>1, PublishKeeps
<1>2. ASSUME NEW s \in DOMAIN subs, Broadcast(s) PROVE StreamInv'
  BY <1>2, BroadcastKeeps
<1>3. ASSUME NEW s \in DOMAIN subs, Subscribed(s) \/ RedisConnectionLost(s) PROVE StreamInv'
  <2>1. PICK st \in {"pending", "active"} :
          subs' = [subs EXCEPT ![s].state = st] /\ subs[s].state # "closed"
    BY <1>3 DEF Subscribed, RedisConnectionLost
  <2>2. UNCHANGED <<published, pollOf, conn, writer, send, got>> /\ NewMembersAreNew
    BY <1>3 DEF Subscribed, RedisConnectionLost, hubVars, sockVars, NewMembersAreNew
  <2> QED BY <1>a, <2>1, <2>2, StateKeeps
<1>4. ASSUME NEW c \in Clients, Register(c) \/ Unregister(c) PROVE StreamInv'
  BY <1>4, RegisterKeeps, UnregisterKeeps
<1>5. ASSUME NEW c \in Clients,
             \/ Upgrade(c) \/ PeerLeaves(c) \/ ReadFails(c) \/ ReaderCloses(c)
             \/ WriteNext(c) \/ WriteFails(c) \/ WriteClose(c)
      PROVE  StreamInv'
  BY <1>a, <1>5, PumpKeeps
<1>6. CASE UNCHANGED vars
  <2>1. /\ subs' = subs /\ UNCHANGED <<published, pollOf, conn, writer, send, got>>
        /\ NewMembersAreNew
    BY <1>6 DEF vars, hubVars, sockVars, NewMembersAreNew
  <2> QED BY <1>a, <2>1, StateKeeps
<1> QED BY <1>1, <1>2, <1>3, <1>4, <1>5, <1>6 DEF Next

(* All variables keep their types, those of the pumps and the channels     *)
(* between them and the hub included.                                      *)
THEOREM TypeCorrect == Spec => []TypeOK
<1>1. StreamInv => TypeOK
  BY DEF StreamInv, HubInv, HubType, PumpType, TypeOK
<1> QED BY <1>1, StreamInit, StreamNext, PTL DEF Spec

(* No connection is sent a message twice: also while the forwarder of a    *)
(* subscription that was closed still drains into the viewers of a newer   *)
(* one of the same poll.                                                   *)
THEOREM SentOnce == Spec => []AtMostOnce
<1>1. StreamInv => AtMostOnce
  BY DEF StreamInv, Gone, Once, AtMostOnce
<1> QED BY <1>1, StreamInit, StreamNext, PTL DEF Spec

(* Also while two forwarders of a poll run at once, a viewer gets an older *)
(* message after a newer one only from a closed subscription, and between  *)
(* two messages of one subscription it misses none.                        *)
THEOREM SentUnbroken == Spec => []Unbroken
<1>1. ASSUME StreamInv, NEW c \in Clients,
             NEW i \in DOMAIN Stream(c), NEW j \in DOMAIN Stream(c), i < j,
             NEW a, NEW b, a = Stream(c)[i], b = Stream(c)[j]
      PROVE  /\ b < a => \E s \in DOMAIN subs :
                            /\ subs[s].state = "closed"
                            /\ b \in subs[s].received /\ a \notin subs[s].received
             /\ \A s \in DOMAIN subs : {a, b} \subseteq subs[s].received =>
                   \A m \in subs[s].received : a < m /\ m < b => WasSent(c, m)
  <2>1. a \in In(Stream(c)) /\ b \in In(Stream(c)) /\ a \in Nat /\ b \in Nat
    <3>1. Stream(c) \in Seq(Messages)
      BY <1>1, StreamFacts DEF StreamInv, PumpType, Stream
    <3>2. a \in Messages /\ b \in Messages
      BY <3>1, <1>1
    <3> QED BY <3>2, <1>1 DEF In, Messages
  <2>2. ASSUME b < a
        PROVE  \E s \in DOMAIN subs : /\ subs[s].state = "closed"
                                      /\ b \in subs[s].received /\ a \notin subs[s].received
    <3>1. PICK s \in DOMAIN subs : subs[s].poll = pollOf[c] /\ b \in subs[s].received
      BY <1>1, <2>1 DEF StreamInv, Linked, FromItsPoll
    <3>2. PICK t \in DOMAIN subs : subs[t].poll = pollOf[c] /\ a \in subs[t].received
      BY <1>1, <2>1 DEF StreamInv, Linked, FromItsPoll
    <3>3. s \in Nat /\ t \in Nat
      BY <1>1 DEF StreamInv, HubInv, HubType
    <3>4. s # t
      BY <1>1, <2>1, <2>2, <3>1, <3>2 DEF StreamInv, Linked, OrderedFrom
    <3>5. ~(t < s)
      BY <1>1, <2>1, <2>2, <3>1, <3>2 DEF StreamInv, Origin
    <3>6. subs[s].state = "closed" /\ a \notin subs[s].received
      BY <1>1, <3>1, <3>2, <3>3, <3>4, <3>5 DEF StreamInv, Origin
    <3> QED BY <3>1, <3>6
  <2>3. ASSUME NEW s \in DOMAIN subs, {a, b} \subseteq subs[s].received,
               NEW m \in subs[s].received, a < m, m < b
        PROVE  WasSent(c, m)
    <3>1. m \in In(Stream(c))
      BY <1>1, <2>1, <2>3 DEF StreamInv, Linked, NoneLeftOut
    <3> QED BY <3>1 DEF WasSent, In
  <2> QED BY <2>2, <2>3
<1>2. StreamInv => Unbroken
  BY <1>1 DEF Unbroken
<1> QED BY <1>2, StreamInit, StreamNext, PTL DEF Spec

(* Nothing that a forwarder holds for a member is skipped.                 *)
LEMMA HoldsFacts ==
    ASSUME NEW m
    PROVE  /\ \A s : Holds(s, m) <=> s \in DOMAIN subs /\ m \in In(subs[s].queue)
           /\ \A s : Holds(s, m)' <=> s \in DOMAIN subs' /\ m \in In(subs'[s].queue)
           /\ \A c : WasSent(c, m) <=> m \in In(Stream(c))
           /\ \A c : WasSent(c, m)' <=> m \in In(Stream(c)')
BY DEF Holds, WasSent, In

LEMMA SkippedByNext ==
    ASSUME StreamInv, [Next]_vars, NEW c \in Clients, NEW m \in Messages
    PROVE  /\ WasSent(c, m) => WasSent(c, m)'
           /\ \A s \in DOMAIN subs :
                /\ Holds(s, m) /\ c \in members[subs[s].poll]
                /\ c \in members'[subs[s].poll]
                => Holds(s, m)' \/ WasSent(c, m)'
<1> DEFINE Claim ==
      /\ m \in In(Stream(c)) => m \in In(Stream(c)')
      /\ \A s \in DOMAIN subs :
           /\ m \in In(subs[s].queue) /\ c \in members[subs[s].poll]
           /\ c \in members'[subs[s].poll]
           => (s \in DOMAIN subs' /\ m \in In(subs'[s].queue)) \/ m \in In(Stream(c)')
<1> SUFFICES Claim
  BY HoldsFacts
<1>a. HubInv /\ HubInv'
  BY HubNext DEF StreamInv
<1>b. Calm => Claim
  BY DEF Calm
<1>1. ASSUME NEW p \in Polls, Publish(p) PROVE Claim
  BY <1>1, PublishKeeps DEF Received
<1>2. ASSUME NEW t \in DOMAIN subs, Broadcast(t) PROVE Claim
  <2>1. HandedOn(t)
    BY <1>2, BroadcastKeeps
  <2>2. members' = [members EXCEPT ![subs[t].poll] = @ \ Drops(subs[t].poll)]
    BY <1>2 DEF Broadcast, HandOver
  <2>3. subs[t].poll \in Polls /\ members \in [Polls -> SUBSET Clients]
    <3>1. subs \in Seq(SubType) /\ members \in [Polls -> SUBSET Clients]
      BY <1>a DEF HubInv, HubType
    <3>2. subs[t] \in SubType
      BY <3>1
    <3> QED BY <3>1, <3>2 DEF SubType
  <2>4. c \in members'[subs[t].poll] => ~Full(c)
    BY <2>2, <2>3 DEF Drops
  <2>5. ASSUME NEW s \in DOMAIN subs, m \in In(subs[s].queue), c \in members[subs[s].poll],
               c \in members'[subs[s].poll]
        PROVE  m \in In(subs'[s].queue) \/ m \in In(Stream(c)')
    <3>1. CASE s = t
      BY <3>1, <2>1, <2>4, <2>5 DEF HandedOn
    <3>2. CASE s # t
      BY <3>2, <2>1, <2>5 DEF HandedOn
    <3> QED BY <3>1, <3>2
  <2> QED BY <2>1, <2>5 DEF HandedOn
<1>3. ASSUME NEW s \in DOMAIN subs, Subscribed(s) \/ RedisConnectionLost(s) PROVE Calm
  <2>1. PICK st \in {"pending", "active"} :
          subs' = [subs EXCEPT ![s].state = st] /\ subs[s].state # "closed"
    BY <1>3 DEF Subscribed, RedisConnectionLost
  <2>2. UNCHANGED <<published, pollOf, conn, writer, send, got>> /\ NewMembersAreNew
    BY <1>3 DEF Subscribed, RedisConnectionLost, hubVars, sockVars, NewMembersAreNew
  <2> QED BY <1>a, <2>1, <2>2, StateKeeps
<1>4. ASSUME NEW d \in Clients, Register(d) \/ Unregister(d) PROVE Calm
  BY <1>4, RegisterKeeps, UnregisterKeeps
<1>5. ASSUME NEW d \in Clients,
             \/ Upgrade(d) \/ PeerLeaves(d) \/ ReadFails(d) \/ ReaderCloses(d)
             \/ WriteNext(d) \/ WriteFails(d) \/ WriteClose(d)
      PROVE  Calm
  BY <1>a, <1>5, PumpKeeps
<1>6. UNCHANGED vars => Calm
  BY DEF vars, sockVars, Calm, Stream
<1> HIDE DEF Claim
<1> QED BY <1>b, <1>1, <1>2, <1>3, <1>4, <1>5, <1>6 DEF Next

(* A member misses nothing that came in on its poll's subscription: it is  *)
(* still to be handed on, in the member's channel or on its socket, unless *)
(* the member was dropped or left.                                         *)
THEOREM NoneSkipped == Spec => NothingSkipped
<1>1. StreamInv /\ [Next]_vars =>
        [\A c \in Clients, m \in Messages :
           /\ WasSent(c, m) => WasSent(c, m)'
           /\ \A s \in DOMAIN subs :
                /\ Holds(s, m) /\ c \in members[subs[s].poll]
                /\ c \in members'[subs[s].poll]
                => Holds(s, m)' \/ WasSent(c, m)']_vars
  BY SkippedByNext
<1> QED BY <1>1, StreamInit, StreamNext, PTL DEF Spec, NothingSkipped
=============================================================================
