------------------------- MODULE LiveResultsProofs -------------------------
(***************************************************************************)
(* Proofs about LiveResults: that it is the hook of LiveHook with the rest *)
(* of the page around it, what the page's copy of the results knows, and   *)
(* that the races LiveResults names are all the ways to be left behind.    *)
(***************************************************************************)
EXTENDS LiveResults, LiveHookProofs

Steps == HookNext \/ CallNext \/ PageNext

(* Every step of the page is a step of the hook or leaves the hook alone,  *)
(* so that all that LiveHookProofs says of the hook holds of the page.     *)
THEOREM ImplementsHook == LiveSpec => Spec
<1>1. Start => Init
  BY DEF Start
<1>2. [Steps]_all => [Next]_vars
  <2> SUFFICES ASSUME [Steps]_all PROVE [Next]_vars
    OBVIOUS
  <2>1. CASE UNCHANGED all
    BY <2>1 DEF all, vars
  <2>2. CASE HookNext
    BY <2>2 DEF HookNext, Hooked, Next
  <2>3. CASE CallNext
    BY <2>3 DEF CallNext, VoteCounted, VoteRetried, CountsRead, Published, Dropped
  <2>4. CASE PageNext
    <3>1. CASE \/ VoteLoaded \/ Expire \/ \E s \in {"active", "closed"} : StatusChanged(s)
               \/ FetchLoads \/ (\E ok \in BOOLEAN : FetchReads(ok)) \/ Click
               \/ \E s \in DOMAIN sockets : Join(s) \/ Unjoin(s)
               \/ \E g \in toggles : ToggleServed(g) \/ ToggleEnds(g) \/ ToggleFails(g)
      BY <3>1 DEF VoteLoaded, Expire, StatusChanged, StoreStatus, FetchLoads, FetchReads,
                  Click, Join, Unjoin, ToggleServed, ToggleEnds, ToggleFails
    <3>2. CASE Fetched \/ FetchFails
      BY <3>2 DEF Fetched, FetchFails, Next
    <3>3. ASSUME NEW s \in DOMAIN sockets, Deliver(s) PROVE [Next]_vars
      BY <3>3 DEF Deliver, Next
    <3> QED BY <2>4, <3>1, <3>2, <3>3 DEF PageNext
  <2> QED BY <2>1, <2>2, <2>3, <2>4 DEF Steps
<1> QED BY <1>1, <1>2, PTL DEF LiveSpec, Spec, Steps

(* The sockets of a visit are never forgotten.                             *)
LEMMA SocketsStay == ASSUME HookInv, HookNext PROVE DOMAIN sockets \subseteq DOMAIN sockets'
<1>0. HookType /\ sockets \in Seq(Socket)
  BY DEF HookInv, HookType
<1>1. ASSUME NEW r \in Nat, NEW q \in Seq(Socket), DOMAIN q = DOMAIN sockets,
             sockets' = Append(q, NewSocket(r))
      PROVE  DOMAIN sockets \subseteq DOMAIN sockets'
  <2>1. DOMAIN sockets' = DOMAIN q \union {Len(q) + 1}
    BY <1>1, AppendTo
  <2> QED BY <1>1, <2>1
<1>2. CASE Hooked(RunEffect)
  <2>1. sockets' = Append(Cleaned, NewSocket(Len(effect) + 1)) /\ Len(effect) + 1 \in Nat
    BY <1>0, <1>2 DEF Hooked, RunEffect, Connect, NewSocket, HookType
  <2>2. Cleaned \in Seq(Socket) /\ DOMAIN Cleaned = DOMAIN sockets
    BY <1>0, CleanedFacts
  <2> QED BY <1>1, <2>1, <2>2
<1>3. CASE Hooked(Leave)
  BY <1>0, <1>3, CleanedFacts DEF Hooked, Leave
<1>4. ASSUME NEW s \in DOMAIN sockets, Hooked(Opens(s)) \/ Hooked(OnClose(s))
      PROVE  DOMAIN sockets \subseteq DOMAIN sockets'
  BY <1>4 DEF Hooked, Opens, OnClose
<1>5. ASSUME NEW s \in timers, Hooked(TimerFires(s))
      PROVE  DOMAIN sockets \subseteq DOMAIN sockets'
  <2>1. sockets' = Append(sockets, NewSocket(sockets[s].run)) /\ sockets[s].run \in Nat
    BY <1>0, <1>5 DEF Hooked, TimerFires, Connect, NewSocket, HookType
  <2> QED BY <1>0, <1>1, <2>1
<1> QED BY <1>2, <1>3, <1>4, <1>5 DEF HookNext

-----------------------------------------------------------------------------
(* The types.  The counts and the log only grow, and the types with them.  *)

Grows == /\ tally' \in Nat /\ tally <= tally'
         /\ log' \in Seq({"active", "closed"}) /\ Len(log) <= Len(log')

LEMMA Grown ==
    ASSUME ResultsTypeOK, Grows
    PROVE  /\ log' # <<>> /\ calls \subseteq CallType' /\ toggles \subseteq ToggleType'
           /\ CopyType \subseteq CopyType' /\ CallType \subseteq CallType'
           /\ inbox \in [1..MaxSockets -> Seq(CopyType')]
           /\ results \in ResultsType' \union {None} /\ reply \in ReplyType' \union {None}
<1>1. /\ tally \in Nat /\ Len(log) \in Nat /\ Len(log) # 0
      /\ 0..tally \subseteq 0..tally' /\ 1..Len(log) \subseteq 1..Len(log')
      /\ 0..Len(log) \subseteq 0..Len(log')
  BY DEF ResultsTypeOK, Grows
<1>2. /\ CopyType \subseteq CopyType' /\ CallType \subseteq CallType'
      /\ ResultsType \subseteq ResultsType' /\ ReplyType \subseteq ReplyType'
  BY <1>1 DEF CopyType, CallType, ResultsType, ReplyType
<1>3. ToggleType \subseteq ToggleType'
  BY <1>1, <1>2 DEF ToggleType
<1>4. \A q \in Seq(CopyType) : q \in Seq(CopyType')
  BY <1>2
<1>5. log' # <<>>
  BY <1>1 DEF Grows
<1> QED BY <1>2, <1>3, <1>4, <1>5 DEF ResultsTypeOK

LEMMA Stays == ASSUME ResultsTypeOK, UNCHANGED <<tally, log>> PROVE Grows
BY DEF ResultsTypeOK, Grows

LEMMA Raceable == ASSUME ResultsTypeOK, NEW new, Race(new), new \subseteq Fields
                  PROVE  raced' \subseteq Fields
BY DEF Race, ResultsTypeOK

LEMMA OwnIsCopy ==
    ASSUME ResultsTypeOK, NEW m \in CopyType \union ReplyType, NEW yes \in BOOLEAN
    PROVE  /\ Own(m, yes) \in ResultsType /\ Own(m, yes).own = yes
           /\ \A f \in Fields : Own(m, yes)[f] = m[f]
BY DEF Own, CopyType, ReplyType, ResultsType, Fields

LEMMA PatchedIsCopy ==
    ASSUME NEW g \in ToggleType, g.stored # 0, ResultsTypeOK
    PROVE  Patched(g) \in ResultsType /\ Patched(g).own = g.view.own
<1>1. g.view \in ResultsType /\ g.stored \in 1..Len(log)
  BY DEF ToggleType, ResultsTypeOK
<1> QED BY <1>1 DEF Patched, ResultsType

(* What Write leaves on the page.                                          *)
LEMMA Written ==
    ASSUME ResultsTypeOK, NEW r \in ResultsType, Write(r)
    PROVE  /\ results' \in ResultsType /\ results'.own = r.own /\ results'.votes = r.votes
           /\ \/ results'.status = r.status
              \/ /\ results # None /\ results'.status = results.status
                 /\ r.status < results.status /\ log[r.status] = log[results.status]
           /\ ~(/\ results # None /\ r.status < results.status
                /\ log[r.status] = log[results.status] /\ results'.status = r.status)
<1>1. CASE results = None
  BY <1>1 DEF Write
<1>2. CASE results # None
  <2>1. results \in ResultsType
    BY <1>2 DEF ResultsTypeOK
  <2>2. /\ results.status \in 1..Len(log) /\ r.status \in 1..Len(log) /\ r.votes \in 0..tally
        /\ r.own \in BOOLEAN /\ Len(log) \in Nat
    BY <2>1 DEF ResultsType, ResultsTypeOK
  <2>3. results' = [r EXCEPT !.status =
                      IF r.status < results.status /\ log[r.status] = log[results.status]
                      THEN results.status ELSE r.status]
    BY <1>2 DEF Write, ResultsType
  <2>4. CASE r.status < results.status /\ log[r.status] = log[results.status]
    <3>1. results' = [r EXCEPT !.status = results.status]
      BY <2>3, <2>4
    <3> QED BY <1>2, <2>2, <2>4, <3>1 DEF ResultsType
  <2>5. CASE ~(r.status < results.status /\ log[r.status] = log[results.status])
    <3>1. results' = [r EXCEPT !.status = r.status]
      BY <2>3, <2>5
    <3>2. results' = r
      BY <3>1 DEF ResultsType
    <3> QED BY <2>2, <2>5, <3>2
  <2> QED BY <2>4, <2>5
<1> QED BY <1>1, <1>2

(* A page that has fetched its results, or a click that copied them, knows *)
(* the viewer.                                                             *)
Knowing ==
    /\ fetch # "out" /\ ~error => results \in ResultsType /\ results.own
    /\ \A g \in toggles : g.view.own

LiveInv == ResultsTypeOK /\ Knowing

LEMMA LiveInit == Start => LiveInv
<1> SUFFICES ASSUME Start PROVE LiveInv
  OBVIOUS
<1>1. log = <<"active">> /\ log \in Seq({"active", "closed"}) /\ log # <<>>
  BY DEF Start
<1>2. inbox \in [1..MaxSockets -> Seq(CopyType)]
  BY DEF Start
<1>3. clicks \in 0..MaxClicks /\ begun \in 0..MaxChanges
  BY ChangesAssumption DEF Start
<1>4. Knowing
  BY DEF Start, Init, Knowing
<1> QED BY <1>1, <1>2, <1>3, <1>4 DEF Start, LiveInv, ResultsTypeOK

LEMMA SocketsBounded == HookInv => DOMAIN sockets \subseteq 1..MaxSockets
<1> SUFFICES ASSUME HookInv PROVE DOMAIN sockets \subseteq 1..MaxSockets
  OBVIOUS
<1>1. sockets \in Seq(Socket) /\ Len(sockets) <= MaxSockets /\ MaxSockets \in Nat
  BY HookTypes, MaxBreaksAssumption DEF HookInv, HookType, TypeOK, MaxSockets
<1>2. DOMAIN sockets = 1..Len(sockets) /\ Len(sockets) \in Nat
  BY <1>1
<1> QED BY <1>1, <1>2

-----------------------------------------------------------------------------
(* The steps of the backend.                                               *)

Rest == <<expired, joined, inbox, copy, owner>>

(* A step that changes calls, the counts, the log and nothing else.        *)
LEMMA BackendStep ==
    ASSUME LiveInv, Grows, calls' \subseteq CallType', begun' \in 0..MaxChanges,
           expired' \in BOOLEAN, UNCHANGED <<vars, joined, inbox, copy, clicks>>,
           toggles' \subseteq ToggleType', \A g \in toggles' : g.view.own,
           raced' \subseteq Fields
    PROVE  LiveInv'
<1>1. /\ log' # <<>> /\ inbox' \in [1..MaxSockets -> Seq(CopyType')]
      /\ results' \in ResultsType' \union {None} /\ reply' \in ReplyType' \union {None}
  BY Grown DEF LiveInv, copy
<1>2. ResultsTypeOK'
  BY <1>1 DEF LiveInv, ResultsTypeOK, Grows, vars, copy
<1>3. Knowing'
  BY <1>1, NoneAssumption DEF LiveInv, Knowing, vars, copy, ResultsType
<1> QED BY <1>2, <1>3 DEF LiveInv

LEMMA Begun ==
    ASSUME LiveInv, Grows, NEW by \in 0..MaxClicks, NEW stage \in {"loaded", "stored"},
           NEW n \in 1..Len(log'), BeginCall(by, stage, n)
    PROVE  calls' \subseteq CallType' /\ begun' \in 0..MaxChanges
<1>1. begun' \in 1..MaxChanges /\ 0 \in 0..tally'
  BY ChangesAssumption DEF LiveInv, ResultsTypeOK, BeginCall, Grows
<1>2. [id |-> begun', by |-> by, stage |-> stage, votes |-> 0, status |-> n] \in CallType'
  BY <1>1 DEF CallType
<1>3. calls \subseteq CallType'
  BY Grown DEF LiveInv
<1> QED BY <1>1, <1>2, <1>3 DEF BeginCall

LEMMA VoteLoadedStep == ASSUME LiveInv, VoteLoaded PROVE LiveInv'
<1>1. Grows /\ Len(log) \in 1..Len(log') /\ 0 \in 0..MaxClicks
  BY Stays, ChangesAssumption DEF VoteLoaded, LiveInv, ResultsTypeOK
<1>2. calls' \subseteq CallType' /\ begun' \in 0..MaxChanges
  BY <1>1, Begun DEF VoteLoaded
<1>3. toggles' \subseteq ToggleType'
  BY <1>1, Grown DEF VoteLoaded, owner, LiveInv
<1> QED BY <1>1, <1>2, <1>3, BackendStep
        DEF VoteLoaded, LiveInv, ResultsTypeOK, Knowing, owner

(* Call c goes on.                                                         *)
LEMMA GoesStep ==
    ASSUME LiveInv, Grows, NEW c \in calls, NEW d \in CallType', Goes(c, d),
           UNCHANGED <<vars, Rest>>, raced' \subseteq Fields
    PROVE  LiveInv'
<1>1. calls' \subseteq CallType' /\ begun' \in 0..MaxChanges /\ toggles' \subseteq ToggleType'
  BY Grown DEF Goes, Rest, owner, LiveInv, ResultsTypeOK
<1> QED BY <1>1, BackendStep DEF Rest, owner, LiveInv, ResultsTypeOK, Knowing

LEMMA VoteCountedStep ==
    ASSUME LiveInv, NEW c \in calls, VoteCounted(c) \/ VoteRetried(c) PROVE LiveInv'
<1>1. Grows
  BY DEF VoteCounted, VoteRetried, LiveInv, ResultsTypeOK, Grows
<1>2. c \in CallType'
  BY <1>1, Grown DEF LiveInv
<1>3. PICK d \in CallType' : Goes(c, d)
  <2>1. CASE VoteCounted(c)
    <3> DEFINE d == [c EXCEPT !.stage = IF @ = "loaded" THEN "counted" ELSE "stored"]
    <3>1. d \in CallType'
      BY <1>2 DEF CallType
    <3> QED BY <2>1, <3>1 DEF VoteCounted
  <2>2. CASE VoteRetried(c)
    <3> DEFINE d == [c EXCEPT !.stage = "again"]
    <3>1. d \in CallType'
      BY <1>2 DEF CallType
    <3> QED BY <2>2, <3>1 DEF VoteRetried
  <2> QED BY <2>1, <2>2
<1>4. UNCHANGED <<vars, Rest>> /\ raced' \subseteq Fields
  BY DEF VoteCounted, VoteRetried, Rest, LiveInv, ResultsTypeOK
<1> QED BY <1>1, <1>3, <1>4, GoesStep

LEMMA CountsReadStep ==
    ASSUME LiveInv, NEW c \in calls, NEW ok \in BOOLEAN, CountsRead(c, ok) PROVE LiveInv'
<1>1. Grows
  BY Stays DEF CountsRead, LiveInv
<1>2. c \in CallType' /\ tally \in 0..tally' /\ 0 \in 0..tally'
  BY <1>1, Grown DEF LiveInv, ResultsTypeOK, Grows
<1> DEFINE d == [c EXCEPT !.stage = "read", !.votes = IF ok THEN tally ELSE 0]
<1>3. d \in CallType' /\ Goes(c, d)
  BY <1>2 DEF CallType, CountsRead
<1>4. UNCHANGED <<vars, Rest>> /\ raced' \subseteq Fields
  BY Raceable DEF CountsRead, Rest, LiveInv, Fields
<1> QED BY <1>1, <1>3, <1>4, GoesStep

LEMMA Logged ==
    ASSUME LiveInv, NEW more \in Seq({"active", "closed"}), tally' = tally,
           log' = log \o more
    PROVE  Grows /\ Len(log') = Len(log) + Len(more)
BY DEF LiveInv, ResultsTypeOK, Grows

LEMMA Stored ==
    ASSUME LiveInv, NEW by \in 0..MaxClicks, NEW st \in {"active", "closed"},
           StoreStatus(by, st)
    PROVE  /\ Grows /\ Len(log) + 1 \in 1..Len(log')
           /\ calls' \subseteq CallType' /\ begun' \in 0..MaxChanges /\ raced' \subseteq Fields
           /\ ~(expired /\ st = "active") => Len(log') = Len(log) + 1
           /\ UNCHANGED <<vars, tally, expired, joined, inbox, copy>>
<1>1. /\ BeginCall(by, "stored", Len(log) + 1)
      /\ UNCHANGED <<vars, tally, expired, joined, inbox, copy>>
  BY DEF StoreStatus
<1>2. raced' \subseteq Fields
  BY Raceable DEF StoreStatus, LiveInv, Fields
<1>3. log \in Seq({"active", "closed"})
  BY DEF LiveInv, ResultsTypeOK
<1>4. CASE expired /\ st = "active"
  <2>1. log' = log \o <<st, "closed">> /\ <<st, "closed">> \in Seq({"active", "closed"})
    BY <1>4 DEF StoreStatus
  <2>2. Grows /\ Len(log') = Len(log) + 2
    BY <1>1, <2>1, Logged
  <2>3. Len(log) + 1 \in 1..Len(log')
    BY <1>3, <2>2
  <2> QED BY <1>1, <1>2, <1>4, <2>2, <2>3, Begun
<1>5. CASE ~(expired /\ st = "active")
  <2>1. log' = Append(log, st)
    BY <1>5 DEF StoreStatus
  <2>2. Grows /\ Len(log') = Len(log) + 1
    BY <1>1, <1>3, <2>1 DEF Grows, LiveInv, ResultsTypeOK
  <2>3. Len(log) + 1 \in 1..Len(log')
    BY <1>3, <2>2
  <2> QED BY <1>1, <1>2, <2>2, <2>3, Begun
<1> QED BY <1>4, <1>5

LEMMA StatusChangedStep ==
    ASSUME LiveInv, NEW st \in {"active", "closed"}, StatusChanged(st) PROVE LiveInv'
<1>1. StoreStatus(0, st) /\ 0 \in 0..MaxClicks /\ UNCHANGED owner
  BY ChangesAssumption DEF StatusChanged
<1>2. /\ Grows /\ calls' \subseteq CallType' /\ begun' \in 0..MaxChanges
      /\ raced' \subseteq Fields /\ UNCHANGED <<vars, tally, expired, joined, inbox, copy>>
  BY <1>1, Stored
<1>3. toggles' \subseteq ToggleType'
  BY <1>1, <1>2, Grown DEF owner, LiveInv
<1> QED BY <1>1, <1>2, <1>3, BackendStep DEF LiveInv, ResultsTypeOK, Knowing, owner

LEMMA ExpireStep == ASSUME LiveInv, Expire PROVE LiveInv'
<1>1. Grows
  BY Stays DEF Expire, LiveInv, ResultsTypeOK, Grows
<1>2. calls' \subseteq CallType' /\ toggles' \subseteq ToggleType'
  BY <1>1, Grown DEF Expire, owner, LiveInv
<1>3. raced' \subseteq Fields
  BY Raceable DEF Expire, LiveInv, ResultsTypeOK, Fields
<1> QED BY <1>1, <1>2, <1>3, BackendStep DEF Expire, LiveInv, ResultsTypeOK, Knowing, owner

LEMMA DroppedStep == ASSUME LiveInv, NEW c \in calls, Dropped(c) PROVE LiveInv'
<1>1. Grows
  BY Stays DEF Dropped, LiveInv
<1>2. calls' \subseteq CallType' /\ toggles' \subseteq ToggleType'
  BY <1>1, Grown DEF Dropped, owner, LiveInv
<1>3. raced' \subseteq Fields
  BY Raceable DEF Dropped, Carried, LiveInv
<1> QED BY <1>1, <1>2, <1>3, BackendStep DEF Dropped, LiveInv, ResultsTypeOK, Knowing, owner

LEMMA MessageIsCopy ==
    ASSUME LiveInv, NEW c \in calls
    PROVE  Message(c) \in CopyType /\ \A f \in Fields : Message(c)[f] = c[f]
BY DEF LiveInv, ResultsTypeOK, CallType, CopyType, Message, Fields

LEMMA PublishedStep == ASSUME LiveInv, NEW c \in calls, Published(c) PROVE LiveInv'
<1>1. Grows
  BY Stays DEF Published, LiveInv
<1>2. calls' \subseteq CallType' /\ toggles' \subseteq ToggleType'
  BY <1>1, Grown DEF Published, owner, LiveInv
<1>3. raced' \subseteq Fields
  BY Raceable DEF Published, Newest, LiveInv
<1>4. inbox' \in [1..MaxSockets -> Seq(CopyType')]
  <2>1. inbox \in [1..MaxSockets -> Seq(CopyType')] /\ Message(c) \in CopyType'
    BY <1>1, Grown, MessageIsCopy DEF LiveInv
  <2>2. \A s \in 1..MaxSockets : Append(inbox[s], Message(c)) \in Seq(CopyType')
    BY <2>1
  <2> QED BY <2>1, <2>2 DEF Published
<1>5. results' \in ResultsType' \union {None} /\ reply' \in ReplyType' \union {None}
  BY <1>1, Grown DEF Published, copy, LiveInv
<1>6. ResultsTypeOK'
  BY <1>1, <1>2, <1>3, <1>4, <1>5
     DEF Published, LiveInv, ResultsTypeOK, Grows, vars, copy, owner
<1>7. Knowing'
  BY <1>5, NoneAssumption DEF Published, LiveInv, Knowing, vars, copy, owner, ResultsType
<1> QED BY <1>6, <1>7 DEF LiveInv

-----------------------------------------------------------------------------
(* The steps of the page.                                                  *)

(* A step of the page leaves the backend alone, with the types.            *)
Served == <<backend, joined>>

LEMMA PageStep ==
    ASSUME LiveInv, UNCHANGED Served, sockets' = sockets,
           inbox' \in [1..MaxSockets -> Seq(CopyType)],
           results' \in ResultsType \union {None}, reply' \in ReplyType \union {None},
           error' \in BOOLEAN, toggles' \subseteq ToggleType, clicks' \in 0..MaxClicks,
           raced' \subseteq Fields,
           Knowing'
    PROVE  LiveInv'
<1>1. /\ CopyType' = CopyType /\ CallType' = CallType /\ ResultsType' = ResultsType
      /\ ReplyType' = ReplyType /\ ToggleType' = ToggleType
  BY DEF Served, backend, CopyType, CallType, ResultsType, ReplyType, ToggleType
<1> QED BY <1>1 DEF LiveInv, ResultsTypeOK, Served, backend

LEMMA KnowingStays ==
    ASSUME Knowing, UNCHANGED <<tally, log, fetch, error, results>>,
           \A g \in toggles' : g.view.own
    PROVE  Knowing'
BY DEF Knowing, ResultsType

LEMMA JoinStep ==
    ASSUME LiveInv, NEW s \in DOMAIN sockets, Join(s) \/ Unjoin(s) PROVE LiveInv'
<1>1. Grows
  BY Stays DEF Join, Unjoin, LiveInv, backend
<1>2. /\ CopyType' = CopyType /\ CallType' = CallType /\ ResultsType' = ResultsType
      /\ ReplyType' = ReplyType /\ ToggleType' = ToggleType
  BY DEF Join, Unjoin, backend, CopyType, CallType, ResultsType, ReplyType, ToggleType
<1> QED BY <1>1, <1>2
        DEF Join, Unjoin, LiveInv, ResultsTypeOK, Knowing, vars, backend, copy, owner

LEMMA HookedStep == ASSUME LiveInv, HookInv, HookNext PROVE LiveInv'
<1>1. /\ joined' = {s \in joined : sockets'[s].state \in {"connecting", "open"}}
      /\ inbox' = [s \in 1..MaxSockets |->
                     IF s \in DOMAIN sockets /\ sockets'[s].state \in {"closing", "closed"}
                     THEN <<>> ELSE inbox[s]]
      /\ UNCHANGED <<backend, copy, owner>> /\ Race(Lost)
  BY DEF HookNext, Hooked
<1>2. fetch' = fetch
  BY DEF HookNext, Hooked, RunEffect, Leave, Opens, OnClose, TimerFires
<1>3. /\ CopyType' = CopyType /\ CallType' = CallType /\ ResultsType' = ResultsType
      /\ ReplyType' = ReplyType /\ ToggleType' = ToggleType
  BY <1>1 DEF backend, CopyType, CallType, ResultsType, ReplyType, ToggleType
<1>4. raced' \subseteq Fields
  BY <1>1, Raceable DEF Lost, LiveInv
<1>5. inbox' \in [1..MaxSockets -> Seq(CopyType)]
  <2>1. \A s \in 1..MaxSockets : inbox[s] \in Seq(CopyType) /\ <<>> \in Seq(CopyType)
    BY DEF LiveInv, ResultsTypeOK
  <2> QED BY <1>1, <2>1
<1>6. joined' \subseteq DOMAIN sockets'
  BY <1>1, SocketsStay DEF LiveInv, ResultsTypeOK
<1>7. ResultsTypeOK'
  BY <1>1, <1>3, <1>4, <1>5, <1>6 DEF LiveInv, ResultsTypeOK, backend, copy, owner
<1>8. Knowing'
  BY <1>1, <1>2, KnowingStays DEF LiveInv, Knowing, backend, copy, owner
<1> QED BY <1>7, <1>8 DEF LiveInv

LEMMA FetchLoadsStep == ASSUME LiveInv, FetchLoads PROVE LiveInv'
<1>1. reply' \in ReplyType
  <2>1. 0 \in 0..tally /\ Len(log) \in 1..Len(log)
    BY DEF LiveInv, ResultsTypeOK
  <2> QED BY <2>1 DEF FetchLoads, ReplyType
<1> QED BY <1>1, PageStep, KnowingStays
        DEF FetchLoads, Served, LiveInv, ResultsTypeOK, Knowing, vars, backend, owner

LEMMA FetchReadsStep ==
    ASSUME LiveInv, NEW ok \in BOOLEAN, FetchReads(ok) PROVE LiveInv'
<1>1. reply' \in ReplyType
  <2>1. 0 \in 0..tally /\ tally \in 0..tally /\ reply \in ReplyType
    BY DEF LiveInv, ResultsTypeOK, FetchReads
  <2> QED BY <2>1 DEF FetchReads, ReplyType
<1>2. raced' \subseteq Fields
  BY Raceable DEF FetchReads, LiveInv, Fields
<1> QED BY <1>1, <1>2, PageStep, KnowingStays
        DEF FetchReads, Served, LiveInv, ResultsTypeOK, Knowing, vars, backend, owner

(* The fetch brings what the page knows of its viewer.                     *)
LEMMA FetchedStep == ASSUME LiveInv, Fetched PROVE LiveInv'
<1>1. reply \in ReplyType /\ Write(Own(reply, TRUE)) /\ TRUE \in BOOLEAN
  BY DEF Fetched, LiveInv, ResultsTypeOK
<1>2. results' \in ResultsType /\ results'.own
  BY <1>1, OwnIsCopy, Written DEF LiveInv
<1>3. /\ sockets' = sockets /\ UNCHANGED <<Served, inbox, error, toggles, clicks>>
      /\ reply' = None /\ Race(Overwritten(reply))
  BY DEF Fetched, FetchEnds, backend, owner, Served
<1>4. raced' \subseteq Fields
  BY <1>3, Raceable DEF Overwritten, LiveInv
<1>5. ResultsType' = ResultsType
  BY <1>3 DEF Served, backend, ResultsType
<1>6. Knowing'
  BY <1>2, <1>3, <1>5 DEF Knowing, LiveInv
<1> QED BY <1>2, <1>3, <1>4, <1>6, PageStep DEF LiveInv, ResultsTypeOK

LEMMA FetchFailsStep == ASSUME LiveInv, FetchFails PROVE LiveInv'
<1>1. /\ sockets' = sockets /\ error' = TRUE /\ reply' = None
      /\ UNCHANGED <<Served, inbox, results, toggles, clicks, raced>>
  BY DEF FetchFails, FetchEnds, backend, owner, Served
<1>2. Knowing'
  BY <1>1 DEF Knowing, LiveInv
<1> QED BY <1>1, <1>2, PageStep DEF LiveInv, ResultsTypeOK

(* A live update keeps what the page knows of its viewer.                  *)
LEMMA MergedIsCopy ==
    ASSUME LiveInv, NEW m \in CopyType
    PROVE  /\ Merged(m) \in ResultsType /\ \A f \in Fields : Merged(m)[f] = m[f]
           /\ results # None => Merged(m).own = results.own
<1>1. PICK yes \in BOOLEAN : Merged(m) = Own(m, yes) /\ (results # None => yes = results.own)
  <2>1. results # None => results.own \in BOOLEAN
    BY DEF LiveInv, ResultsTypeOK, ResultsType
  <2> QED BY <2>1 DEF Merged
<1>2. /\ Own(m, yes) \in ResultsType /\ Own(m, yes).own = yes
      /\ \A f \in Fields : Own(m, yes)[f] = m[f]
  BY OwnIsCopy DEF LiveInv
<1> QED BY <1>1, <1>2

LEMMA Delivered ==
    ASSUME LiveInv, HookInv, NEW s \in DOMAIN sockets, Deliver(s)
    PROVE  /\ s \in 1..MaxSockets /\ Head(inbox[s]) \in CopyType
           /\ inbox[s] \in Seq(CopyType) /\ inbox[s] # <<>>
           /\ inbox' = [inbox EXCEPT ![s] = Tail(inbox[s])]
           /\ inbox' \in [1..MaxSockets -> Seq(CopyType)]
           /\ Write(Merged(Head(inbox[s]))) /\ Race(Overwritten(Head(inbox[s])))
           /\ sockets' = sockets /\ fetch' = fetch
           /\ UNCHANGED <<Served, reply, error, toggles, clicks>>
<1>1. s \in 1..MaxSockets
  BY SocketsBounded
<1>2. inbox[s] \in Seq(CopyType) /\ inbox[s] # <<>>
  BY <1>1 DEF Deliver, LiveInv, ResultsTypeOK
<1>3. Head(inbox[s]) \in CopyType /\ Tail(inbox[s]) \in Seq(CopyType)
  BY <1>2
<1>4. inbox' = [inbox EXCEPT ![s] = Tail(inbox[s])]
  BY DEF Deliver
<1>5. inbox' \in [1..MaxSockets -> Seq(CopyType)]
  BY <1>3, <1>4 DEF LiveInv, ResultsTypeOK
<1>6. /\ sockets' = sockets /\ fetch' = fetch
      /\ UNCHANGED <<Served, reply, error, toggles, clicks>>
  BY DEF Deliver, LiveUpdate, vars, backend, owner, Served
<1> QED BY <1>1, <1>2, <1>3, <1>4, <1>5, <1>6 DEF Deliver

LEMMA DeliverStep ==
    ASSUME LiveInv, HookInv, NEW s \in DOMAIN sockets, Deliver(s) PROVE LiveInv'
<1> DEFINE m == Head(inbox[s])
<1>1. m \in CopyType /\ Write(Merged(m)) /\ Race(Overwritten(m))
  BY Delivered
<1> HIDE DEF m
<1>2. /\ results' \in ResultsType
      /\ results # None => results'.own = results.own
  BY <1>1, MergedIsCopy, Written DEF LiveInv
<1>3. raced' \subseteq Fields
  BY <1>1, Raceable DEF Overwritten, LiveInv
<1>4. /\ sockets' = sockets /\ fetch' = fetch /\ ResultsType' = ResultsType
      /\ UNCHANGED <<Served, reply, error, toggles, clicks>>
  BY Delivered DEF Served, backend, ResultsType
<1>5. None \notin ResultsType
  BY NoneAssumption DEF LiveInv, ResultsTypeOK, ResultsType
<1>6. Knowing'
  BY <1>2, <1>4, <1>5 DEF LiveInv, Knowing
<1> QED BY <1>2, <1>3, <1>4, <1>6, Delivered, PageStep DEF LiveInv, ResultsTypeOK

LEMMA ClickStep == ASSUME LiveInv, Click PROVE LiveInv'
<1>1. results \in ResultsType /\ results.own
  BY DEF Click, Screen, LiveInv, Knowing
<1>2. clicks' \in 1..MaxClicks /\ 0 \in 0..Len(log)
  BY ChangesAssumption DEF Click, LiveInv, ResultsTypeOK
<1> DEFINE g == [id |-> clicks', view |-> results, next |-> Opposite(log[results.status]),
                 stored |-> 0]
<1>3. g \in ToggleType /\ g.view.own
  BY <1>1, <1>2 DEF ToggleType, Opposite
<1>4. toggles' = toggles \union {g} /\ UNCHANGED <<vars, backend, joined, inbox, copy, raced>>
  BY DEF Click
<1> HIDE DEF g
<1>5. toggles' \subseteq ToggleType /\ clicks' \in 0..MaxClicks
  BY <1>2, <1>3, <1>4 DEF LiveInv, ResultsTypeOK
<1>6. Knowing'
  BY <1>3, <1>4, KnowingStays DEF LiveInv, Knowing, vars, backend, copy
<1> QED BY <1>4, <1>5, <1>6, PageStep DEF LiveInv, ResultsTypeOK, Served, vars, copy

LEMMA ToggleServedStep ==
    ASSUME LiveInv, NEW g \in toggles, ToggleServed(g) PROVE LiveInv'
<1>1. /\ g \in ToggleType /\ g.view.own /\ g.next \in {"active", "closed"}
      /\ g.id \in 0..MaxClicks
  BY ChangesAssumption DEF LiveInv, ResultsTypeOK, Knowing, ToggleType
<1>2. /\ Grows /\ calls' \subseteq CallType' /\ begun' \in 0..MaxChanges
      /\ raced' \subseteq Fields /\ UNCHANGED <<vars, tally, expired, joined, inbox, copy>>
      /\ Len(log) + 1 \in 1..Len(log')
  BY <1>1, Stored DEF ToggleServed
<1> DEFINE h == [g EXCEPT !.stored = Len(log) + 1]
<1>3. h \in ToggleType' /\ h.view = g.view
  <2>1. g \in ToggleType' /\ Len(log) + 1 \in 0..Len(log')
    BY <1>2, Grown DEF LiveInv
  <2> QED BY <2>1 DEF ToggleType
<1>4. toggles' = (toggles \ {g}) \union {h} /\ clicks' = clicks
  BY DEF ToggleServed
<1> HIDE DEF h
<1>5. toggles' \subseteq ToggleType'
  BY <1>2, <1>3, <1>4, Grown DEF LiveInv
<1>6. \A a \in toggles' : a.view.own
  BY <1>1, <1>3, <1>4 DEF LiveInv, Knowing
<1> QED BY <1>2, <1>4, <1>5, <1>6, BackendStep DEF LiveInv, ResultsTypeOK

(* The toggle writes back a copy that knew the viewer.                     *)
LEMMA ToggleEndsStep ==
    ASSUME LiveInv, NEW g \in toggles, ToggleEnds(g) \/ ToggleFails(g) PROVE LiveInv'
<1>1. g \in ToggleType /\ g.view.own
  BY DEF LiveInv, ResultsTypeOK, Knowing
<1>2. /\ toggles' \subseteq toggles
      /\ UNCHANGED <<vars, Served, inbox, reply, error, clicks>>
  BY DEF ToggleEnds, ToggleFails, Served, copy
<1>3. /\ results' = results \/ (results' \in ResultsType /\ results'.own)
      /\ raced' \subseteq Fields
  <2>1. CASE ToggleEnds(g)
    <3>1. Write(Patched(g)) /\ Patched(g) \in ResultsType /\ Patched(g).own
      BY <1>1, <2>1, PatchedIsCopy DEF ToggleEnds, LiveInv
    <3>2. raced' \subseteq Fields
      BY <2>1, Raceable DEF ToggleEnds, Overwritten, LiveInv
    <3> QED BY <3>1, <3>2, Written DEF LiveInv
  <2>2. CASE ToggleFails(g)
    BY <2>2 DEF ToggleFails, copy, LiveInv, ResultsTypeOK
  <2> QED BY <2>1, <2>2
<1>4. ResultsType' = ResultsType
  BY <1>2 DEF Served, backend, ResultsType
<1>5. Knowing'
  BY <1>2, <1>3, <1>4 DEF LiveInv, Knowing, vars
<1> QED BY <1>2, <1>3, <1>5, PageStep DEF LiveInv, ResultsTypeOK, vars

LEMMA LiveStep == LiveInv /\ HookInv /\ [Steps]_all => LiveInv'
<1> SUFFICES ASSUME LiveInv, HookInv, [Steps]_all PROVE LiveInv'
  OBVIOUS
<1>1. CASE UNCHANGED all
  <2>1. Knowing'
    BY <1>1, KnowingStays DEF LiveInv, Knowing, all, vars, backend, copy, owner
  <2> QED BY <1>1, <2>1, PageStep
          DEF LiveInv, ResultsTypeOK, Served, all, vars, backend, copy, owner
<1>2. CASE HookNext
  BY <1>2, HookedStep
<1>3. CASE CallNext
  BY <1>3, VoteCountedStep, CountsReadStep, PublishedStep, DroppedStep DEF CallNext
<1>4. CASE PageNext
  BY <1>4, VoteLoadedStep, ExpireStep, StatusChangedStep, JoinStep, FetchLoadsStep,
     FetchReadsStep, FetchedStep, FetchFailsStep, DeliverStep, ClickStep, ToggleServedStep,
     ToggleEndsStep DEF PageNext
<1> QED BY <1>1, <1>2, <1>3, <1>4 DEF Steps

LEMMA LiveAlways == LiveSpec => []LiveInv
BY LiveInit, LiveStep, ImplementsHook, HookAlways, PTL DEF LiveSpec, Steps

(* Type correctness, with: no copy of the results, on the page or on its   *)
(* way, is ahead of the poll.                                              *)
THEOREM ResultsTypeCorrect == LiveSpec => []ResultsTypeOK
<1>1. LiveInv => ResultsTypeOK
  BY DEF LiveInv
<1> QED BY <1>1, LiveAlways, PTL

(* No order of fetch, live updates and toggles takes the toggle from the   *)
(* owner or asks a voter to vote again.                                    *)
THEOREM ViewerKnown == LiveSpec => []KnowsItsViewer
<1>1. LiveInv => KnowsItsViewer
  <2> SUFFICES ASSUME LiveInv, Screen = "results" PROVE results.own
    BY DEF KnowsItsViewer
  <2>1. fetch # "out" /\ ~error
    BY DEF Screen
  <2> QED BY <2>1 DEF LiveInv, Knowing
<1> QED BY <1>1, LiveAlways, PTL

-----------------------------------------------------------------------------
(* Where the newest value of a field is: before it in the fetch, in a call *)
(* of the backend, on its way to a socket, or on the page.                 *)

InFetch(f) == /\ fetch = "out"
              /\ reply # None => \/ f = "votes" /\ ~reply.read
                                 \/ reply[f] = Now[f]

InCall(f) == \E c \in calls : f \in Carried(c)

In(f, q) == \E i \in DOMAIN q : q[i][f] = Now[f]

InInbox(f) == \E s \in 1..MaxSockets : In(f, inbox[s])

OnPage(f) == results # None /\ results[f] = Now[f]

Found(f) == InFetch(f) \/ InCall(f) \/ InInbox(f) \/ OnPage(f)

Whereabouts == ~error => \A f \in Fields \ raced : Found(f)

(* A step that names its races need only take care of the other fields.    *)
LEMMA FoundUnlessRaced ==
    ASSUME Whereabouts, error' = error, NEW new, Race(new),
           \A f \in Fields \ (raced \union new) : Found(f) => Found(f)'
    PROVE  Whereabouts'
<1> SUFFICES ASSUME ~error, NEW f \in Fields, f \notin raced' PROVE Found(f)'
  BY DEF Whereabouts
<1>1. f \notin raced \union new \/ (results' # None /\ results'[f] = Now'[f])
  BY DEF Race
<1>2. CASE f \notin raced \union new
  BY <1>2 DEF Whereabouts
<1>3. CASE results' # None /\ results'[f] = Now'[f]
  BY <1>3 DEF Found, OnPage
<1> QED BY <1>1, <1>2, <1>3

LEMMA FoundCalm ==
    ASSUME Whereabouts, UNCHANGED <<error, raced>>,
           \A f \in Fields \ raced : Found(f) => Found(f)'
    PROVE  Whereabouts'
BY DEF Whereabouts

LEMMA NowIs == Now["votes"] = tally /\ Now["status"] = Len(log)
BY DEF Now

LEMMA WhereaboutsStart == Start => Whereabouts
BY DEF Start, Init, Whereabouts, Found, InFetch

-----------------------------------------------------------------------------
(* The steps of the backend.                                               *)

(* The other places stay as they are when the newest value is the same.    *)
LEMMA OthersStay ==
    ASSUME NEW f \in Fields, UNCHANGED <<fetch, reply, inbox, results>>, Now'[f] = Now[f],
           InCall(f) => InCall(f)'
    PROVE  Found(f) => Found(f)'
<1>1. /\ InFetch(f) => InFetch(f)'
      /\ InInbox(f) => InInbox(f)'
      /\ OnPage(f) => OnPage(f)'
  BY DEF InFetch, InInbox, In, OnPage
<1> QED BY <1>1 DEF Found

(* More calls carry no less.                                               *)
LEMMA CallsStay ==
    ASSUME NEW f \in Fields, calls \subseteq calls', Now'[f] = Now[f]
    PROVE  InCall(f) => InCall(f)'
BY DEF InCall, Carried

(* A call goes on and carries what it carried.                             *)
LEMMA CallGoes ==
    ASSUME NEW f \in Fields, NEW c \in calls, NEW d, Goes(c, d), Now'[f] = Now[f],
           f \in Carried(c) => f \in Carried(d)'
    PROVE  InCall(f) => InCall(f)'
<1> SUFFICES ASSUME NEW e \in calls, f \in Carried(e) PROVE InCall(f)'
  BY DEF InCall
<1>1. d \in calls' /\ (e # c => e \in calls')
  BY DEF Goes
<1>2. f \in Carried(e)'
  BY DEF Carried
<1> QED BY <1>1, <1>2 DEF InCall

LEMMA VoteLoadedWhere == ASSUME Whereabouts, VoteLoaded PROVE Whereabouts'
<1>1. /\ calls \subseteq calls' /\ Now' = Now
      /\ UNCHANGED <<fetch, reply, inbox, results, error, raced>>
  BY DEF VoteLoaded, BeginCall, vars, copy, Now
<1>2. ASSUME NEW f \in Fields \ raced PROVE Found(f) => Found(f)'
  BY <1>1, OthersStay, CallsStay
<1> QED BY <1>1, <1>2, FoundCalm

(* A vote that was counted carries the counts.                             *)
LEMMA VoteCountedWhere ==
    ASSUME LiveInv, Whereabouts, NEW c \in calls, VoteCounted(c) PROVE Whereabouts'
<1> DEFINE d == [c EXCEPT !.stage = IF @ = "loaded" THEN "counted" ELSE "stored"]
<1>1. /\ Goes(c, d) /\ c.stage \in {"loaded", "again"}
      /\ log' = log /\ UNCHANGED <<fetch, reply, inbox, results, error, raced>>
  BY DEF VoteCounted, vars, copy
<1>2. c \in CallType /\ d.stage \in {"counted", "stored"}
  BY <1>1 DEF LiveInv, ResultsTypeOK, CallType
<1> HIDE DEF d
<1>3. Found("votes")'
  <2>1. d \in calls'
    BY <1>1 DEF Goes
  <2>2. "votes" \in Carried(d)'
    BY <1>2 DEF Carried, Fields
  <2> QED BY <2>1, <2>2 DEF Found, InCall
<1>4. Found("status") => Found("status")'
  <2>1. Now'["status"] = Now["status"] /\ "status" \in Fields
    BY <1>1, NowIs DEF Now, Fields
  <2>2. "status" \notin Carried(c)
    BY <1>1 DEF Carried
  <2> QED BY <1>1, <2>1, <2>2, OthersStay, CallGoes
<1> QED BY <1>1, <1>3, <1>4, FoundCalm DEF Fields

LEMMA VoteRetriedWhere ==
    ASSUME LiveInv, Whereabouts, NEW c \in calls, VoteRetried(c) PROVE Whereabouts'
<1> DEFINE d == [c EXCEPT !.stage = "again"]
<1>1. /\ Goes(c, d) /\ c.stage \in {"loaded", "counted"} /\ Now' = Now
      /\ UNCHANGED <<fetch, reply, inbox, results, error, raced>>
  BY DEF VoteRetried, vars, copy, Now
<1>2. d.stage = "again"
  BY DEF LiveInv, ResultsTypeOK, CallType
<1> HIDE DEF d
<1>3. ASSUME NEW f \in Fields PROVE f \in Carried(c) => f \in Carried(d)'
  BY <1>1, <1>2 DEF Carried
<1>4. ASSUME NEW f \in Fields \ raced PROVE Found(f) => Found(f)'
  BY <1>1, <1>3, OthersStay, CallGoes
<1> QED BY <1>1, <1>4, FoundCalm

(* The call that read the counts carries them from then on.                *)
LEMMA CountsReadWhere ==
    ASSUME LiveInv, Whereabouts, NEW c \in calls, NEW ok \in BOOLEAN, CountsRead(c, ok)
    PROVE  Whereabouts'
<1> DEFINE new == IF ok THEN {} ELSE {"votes"}
<1>0. PICK d : d = [c EXCEPT !.stage = "read", !.votes = IF ok THEN tally ELSE 0]
  OBVIOUS
<1>1. /\ Goes(c, d) /\ Now' = Now /\ Race(new)
      /\ UNCHANGED <<fetch, reply, inbox, results, error>>
  BY <1>0 DEF CountsRead, vars, copy, Now
<1>2. /\ d.stage = "read" /\ d.votes = (IF ok THEN tally ELSE 0) /\ d.status = c.status
  BY <1>0 DEF LiveInv, ResultsTypeOK, CallType
<1>3. ASSUME NEW f \in Fields \ (raced \union new)
      PROVE  f \in Carried(c) => f \in Carried(d)'
  <2>1. CASE f = "votes"
    <3>1. d["votes"] = Now'["votes"]
      BY <1>1, <1>2, <1>3, <2>1, NowIs
    <3>2. f \in Fields /\ d[f] = Now'[f]
      BY <2>1, <3>1
    <3> QED BY <1>2, <3>2 DEF Carried
  <2>2. CASE f = "status"
    BY <1>1, <1>2, <2>2, NowIs DEF Carried, CountsRead
  <2> QED BY <2>1, <2>2 DEF Fields
<1> HIDE DEF new
<1>4. ASSUME NEW f \in Fields \ (raced \union new) PROVE Found(f) => Found(f)'
  <2>1. InCall(f) => InCall(f)'
    BY <1>1, <1>3, CallGoes
  <2> QED BY <1>1, <2>1, OthersStay
<1> QED BY <1>1, <1>4, FoundUnlessRaced

(* A status that was stored is on its way, or is behind the clock.         *)
LEMMA StoredWhere ==
    ASSUME LiveInv, Whereabouts, NEW by \in 0..MaxClicks, NEW st \in {"active", "closed"},
           StoreStatus(by, st)
    PROVE  Whereabouts'
<1>1. /\ calls \subseteq calls' /\ tally' = tally
      /\ UNCHANGED <<fetch, reply, inbox, results, error>>
  BY DEF StoreStatus, BeginCall, vars, copy
<1>2. Found("votes") => Found("votes")'
  <2>1. Now'["votes"] = Now["votes"] /\ "votes" \in Fields
    BY <1>1 DEF Now, Fields
  <2> QED BY <1>1, <2>1, OthersStay, CallsStay
<1>3. CASE expired /\ st = "active"
  <2>1. Race({"status"})
    BY <1>3 DEF StoreStatus
  <2>2. \A f \in Fields \ (raced \union {"status"}) : Found(f) => Found(f)'
    BY <1>2 DEF Fields
  <2> QED BY <1>1, <2>1, <2>2, FoundUnlessRaced
<1>4. CASE ~(expired /\ st = "active")
  <2>1. Race({}) /\ Len(log') = Len(log) + 1
    BY <1>4, Stored DEF StoreStatus
  <2> DEFINE d == [id |-> begun', by |-> by, stage |-> "stored", votes |-> 0,
                   status |-> Len(log) + 1]
  <2>2. d \in calls' /\ d.stage = "stored" /\ d["status"] = Now'["status"]
    BY <2>1 DEF StoreStatus, BeginCall, Now
  <2> HIDE DEF d
  <2>3. Found("status")'
    BY <2>2 DEF Found, InCall, Carried, Fields
  <2>4. \A f \in Fields \ (raced \union {}) : Found(f) => Found(f)'
    BY <1>2, <2>3 DEF Fields
  <2> QED BY <1>1, <2>1, <2>4, FoundUnlessRaced
<1> QED BY <1>3, <1>4

LEMMA ExpireWhere == ASSUME LiveInv, Whereabouts, Expire PROVE Whereabouts'
<1>1. UNCHANGED <<tally, calls, fetch, reply, inbox, results, error>>
  BY DEF Expire, vars, copy
<1>2. Found("votes") => Found("votes")'
  <2>1. Now'["votes"] = Now["votes"] /\ "votes" \in Fields
    BY <1>1 DEF Now, Fields
  <2> QED BY <1>1, <2>1, OthersStay, CallsStay
<1>3. CASE log[Len(log)] = "active"
  <2>1. Race({"status"})
    BY <1>3 DEF Expire
  <2>2. \A f \in Fields \ (raced \union {"status"}) : Found(f) => Found(f)'
    BY <1>2 DEF Fields
  <2> QED BY <1>1, <2>1, <2>2, FoundUnlessRaced
<1>4. CASE log[Len(log)] # "active"
  <2>1. UNCHANGED <<log, raced>> /\ Now' = Now
    BY <1>1, <1>4 DEF Expire, Now
  <2>2. ASSUME NEW f \in Fields \ raced PROVE Found(f) => Found(f)'
    BY <1>1, <2>1, OthersStay, CallsStay
  <2> QED BY <1>1, <2>1, <2>2, FoundCalm
<1> QED BY <1>3, <1>4

(* What a handler carried when it ended is named as a race.                *)
LEMMA DroppedWhere ==
    ASSUME LiveInv, Whereabouts, NEW c \in calls, Dropped(c) PROVE Whereabouts'
<1>1. /\ calls' = calls \ {c} /\ Now' = Now /\ Race(Carried(c))
      /\ UNCHANGED <<fetch, reply, inbox, results, error>>
  BY DEF Dropped, vars, copy, Now
<1>2. ASSUME NEW f \in Fields \ (raced \union Carried(c)) PROVE Found(f) => Found(f)'
  <2>1. InCall(f) => InCall(f)'
    BY <1>1, <1>2 DEF InCall, Carried
  <2> QED BY <1>1, <2>1, OthersStay
<1> QED BY <1>1, <1>2, FoundUnlessRaced

LEMMA AppendHas ==
    ASSUME NEW S, NEW q \in Seq(S), NEW m \in S, NEW f
    PROVE  In(f, Append(q, m)) <=> m[f] = Now[f] \/ In(f, q)
<1> DEFINE r == Append(q, m)
<1>1. /\ DOMAIN r = 1..Len(q) + 1 /\ DOMAIN q = 1..Len(q) /\ Len(q) \in Nat
      /\ r[Len(q) + 1] = m /\ \A i \in 1..Len(q) : r[i] = q[i]
  OBVIOUS
<1> HIDE DEF r
<1>2. In(f, r) => m[f] = Now[f] \/ In(f, q)
  <2> SUFFICES ASSUME NEW i \in DOMAIN r, r[i][f] = Now[f], m[f] # Now[f] PROVE In(f, q)
    BY DEF In
  <2>1. i \in 1..Len(q)
    BY <1>1
  <2> QED BY <1>1, <2>1 DEF In
<1>3. m[f] = Now[f] \/ In(f, q) => In(f, r)
  BY <1>1 DEF In
<1> QED BY <1>2, <1>3 DEF r

LEMMA TailHas ==
    ASSUME NEW S, NEW q \in Seq(S), q # <<>>, NEW f
    PROVE  In(f, q) => Head(q)[f] = Now[f] \/ In(f, Tail(q))
<1> DEFINE r == Tail(q)
<1>1. /\ DOMAIN r = 1..Len(q) - 1 /\ DOMAIN q = 1..Len(q) /\ Len(q) \in Nat \ {0}
      /\ Head(q) = q[1] /\ \A i \in 1..Len(q) - 1 : r[i] = q[i + 1]
  OBVIOUS
<1> HIDE DEF r
<1> SUFFICES ASSUME NEW i \in DOMAIN q, q[i][f] = Now[f], Head(q)[f] # Now[f] PROVE In(f, r)
  BY DEF In, r
<1>2. i - 1 \in DOMAIN r /\ r[i - 1] = q[i]
  BY <1>1
<1> QED BY <1>2 DEF In

(* A message goes to those who have joined; if there are none, it is named *)
(* as a race.                                                              *)
LEMMA PublishedWhere ==
    ASSUME LiveInv, HookInv, Whereabouts, NEW c \in calls, Published(c) PROVE Whereabouts'
<1> DEFINE new == IF joined = {} THEN Newest(c) ELSE {}
           m == Message(c)
<1>1. /\ calls' = calls \ {c} /\ Now' = Now /\ Race(new) /\ c.stage = "read"
      /\ inbox' = [s \in 1..MaxSockets |->
                     IF s \in joined THEN Append(inbox[s], m) ELSE inbox[s]]
      /\ UNCHANGED <<fetch, reply, results, error>>
  BY DEF Published, vars, copy, Now
<1>2. /\ m \in CopyType /\ \A f \in Fields : m[f] = c[f]
      /\ \A s \in 1..MaxSockets : inbox[s] \in Seq(CopyType)
  BY MessageIsCopy DEF LiveInv, ResultsTypeOK
<1> HIDE DEF m
<1>3. ASSUME NEW f \in Fields, NEW s \in 1..MaxSockets
      PROVE  In(f, inbox[s])' <=> In(f, inbox[s]) \/ (s \in joined /\ m[f] = Now[f])
  <2>1. In(f, inbox[s])' <=> In(f, inbox'[s])
    BY <1>1 DEF In
  <2>2. CASE s \in joined
    <3>1. inbox'[s] = Append(inbox[s], m)
      BY <1>1, <2>2
    <3> QED BY <1>2, <2>1, <2>2, <3>1, AppendHas
  <2>3. CASE s \notin joined
    <3>1. inbox'[s] = inbox[s]
      BY <1>1, <2>3
    <3> QED BY <2>1, <2>3, <3>1
  <2> QED BY <2>2, <2>3
<1>4. ASSUME NEW f \in Fields \ (raced \union new) PROVE Found(f) => Found(f)'
  <2>1. InInbox(f) => InInbox(f)'
    BY <1>3 DEF InInbox
  <2>2. InCall(f) => InCall(f)' \/ InInbox(f)'
    <3> SUFFICES ASSUME NEW e \in calls, f \in Carried(e) PROVE InCall(f)' \/ InInbox(f)'
      BY DEF InCall
    <3>1. CASE e # c
      BY <1>1, <3>1 DEF InCall, Carried
    <3>2. CASE e = c
      <4>1. c[f] = Now[f]
        BY <1>1, <3>2 DEF Carried
      <4>2. PICK s \in joined : s \in 1..MaxSockets
        BY <1>4, <4>1, SocketsBounded DEF Newest, LiveInv, ResultsTypeOK
      <4> QED BY <1>2, <1>3, <4>1, <4>2 DEF InInbox
    <3> QED BY <3>1, <3>2
  <2>3. (InFetch(f) => InFetch(f)') /\ (OnPage(f) => OnPage(f)')
    BY <1>1 DEF InFetch, OnPage
  <2> QED BY <2>1, <2>2, <2>3 DEF Found
<1> HIDE DEF new
<1> QED BY <1>1, <1>4, FoundUnlessRaced

-----------------------------------------------------------------------------
(* The steps of the page.                                                  *)

LEMMA HookedWhere == ASSUME LiveInv, Whereabouts, HookNext PROVE Whereabouts'
<1>1. UNCHANGED <<calls, reply, results, error>> /\ Now' = Now /\ Race(Lost)
  BY DEF HookNext, Hooked, backend, copy, Now
<1>2. fetch' = fetch
  BY DEF HookNext, Hooked, RunEffect, Leave, Opens, OnClose, TimerFires
<1>3. ASSUME NEW f \in Fields \ (raced \union Lost) PROVE Found(f) => Found(f)'
  <2>1. InInbox(f) => InInbox(f)'
    <3> SUFFICES ASSUME NEW s \in 1..MaxSockets, In(f, inbox[s]) PROVE InInbox(f)'
      BY DEF InInbox
    <3>1. inbox'[s] = inbox[s]
      BY DEF Lost, In, Newest
    <3> QED BY <1>1, <3>1 DEF InInbox, In
  <2>2. InCall(f) => InCall(f)'
    BY <1>1 DEF InCall, Carried
  <2>3. (InFetch(f) => InFetch(f)') /\ (OnPage(f) => OnPage(f)')
    BY <1>1, <1>2 DEF InFetch, OnPage
  <2> QED BY <2>1, <2>2, <2>3 DEF Found
<1> QED BY <1>1, <1>3, FoundUnlessRaced

LEMMA FetchLoadsWhere == ASSUME LiveInv, Whereabouts, FetchLoads PROVE Whereabouts'
<1>1. /\ fetch' = "out" /\ reply' = [votes |-> 0, status |-> Len(log), read |-> FALSE]
      /\ Now' = Now /\ UNCHANGED <<error, raced>>
  BY DEF FetchLoads, vars, backend, Now
<1>2. ASSUME NEW f \in Fields \ raced PROVE Found(f)'
  BY <1>1, NowIs DEF Found, InFetch, Fields
<1> QED BY <1>1, <1>2, FoundCalm

LEMMA FetchReadsWhere ==
    ASSUME LiveInv, Whereabouts, NEW ok \in BOOLEAN, FetchReads(ok) PROVE Whereabouts'
<1> DEFINE new == IF ok THEN {} ELSE {"votes"}
<1>1. /\ fetch = "out" /\ fetch' = "out" /\ reply # None
      /\ reply' = [reply EXCEPT !.read = TRUE, !.votes = IF ok THEN tally ELSE 0]
      /\ Now' = Now /\ Race(new) /\ UNCHANGED <<calls, inbox, results, error>>
  BY DEF FetchReads, vars, backend, Now
<1>2. reply \in ReplyType
  BY <1>1 DEF LiveInv, ResultsTypeOK
<1>3. ASSUME NEW f \in Fields \ (raced \union new) PROVE Found(f) => Found(f)'
  <2>1. InFetch(f) => InFetch(f)'
    <3>1. CASE f = "votes"
      <4>1. ok /\ reply'["votes"] = tally
        BY <1>1, <1>2, <1>3, <3>1 DEF ReplyType
      <4> QED BY <1>1, <3>1, <4>1, NowIs DEF InFetch
    <3>2. CASE f = "status"
      <4>1. reply'["status"] = reply["status"]
        BY <1>1, <1>2 DEF ReplyType
      <4> QED BY <1>1, <3>2, <4>1 DEF InFetch
    <3> QED BY <3>1, <3>2 DEF Fields
  <2>2. InCall(f) => InCall(f)'
    BY <1>1 DEF InCall, Carried
  <2>3. (InInbox(f) => InInbox(f)') /\ (OnPage(f) => OnPage(f)')
    BY <1>1 DEF InInbox, In, OnPage
  <2> QED BY <2>1, <2>2, <2>3 DEF Found
<1> HIDE DEF new
<1> QED BY <1>1, <1>3, FoundUnlessRaced

(* A copy that has the newest value makes the page have it; any other copy *)
(* leaves it so, or is a race.                                             *)
LEMMA CopyWritten ==
    ASSUME LiveInv, NEW r \in ResultsType, Write(r), UNCHANGED <<tally, log>>,
           NEW f \in Fields, f \notin Overwritten(r),
           r[f] = Now[f] \/ OnPage(f)
    PROVE  OnPage(f)'
<1>1. /\ results' \in ResultsType /\ results'.votes = r.votes
      /\ \/ results'.status = r.status
         \/ /\ results # None /\ results'.status = results.status
            /\ r.status < results.status /\ log[r.status] = log[results.status]
      /\ ~(/\ results # None /\ r.status < results.status
           /\ log[r.status] = log[results.status] /\ results'.status = r.status)
  BY Written DEF LiveInv
<1>2. /\ r.votes \in 0..tally /\ r.status \in 1..Len(log) /\ tally \in Nat /\ Len(log) \in Nat
      /\ results # None => results.votes \in 0..tally /\ results.status \in 1..Len(log)
  BY DEF LiveInv, ResultsTypeOK, ResultsType
<1>3. results' # None /\ Now' = Now
  <2>1. results' \in [votes : Nat, status : Nat, own : BOOLEAN]
    BY <1>1, <1>2 DEF ResultsType
  <2> QED BY <2>1, NoneAssumption DEF Now
<1>4. CASE f = "votes"
  <2>1. r.votes = tally
    <3>1. CASE r[f] = Now[f]
      BY <1>4, <3>1, NowIs
    <3>2. CASE OnPage(f)
      <4>1. results # None /\ results.votes = tally
        BY <1>4, <3>2, NowIs DEF OnPage
      <4>2. ~(r.votes < results.votes /\ r.votes # results.votes)
        BY <1>4, <4>1 DEF Overwritten, Says
      <4> QED BY <1>2, <4>1, <4>2
    <3> QED BY <3>1, <3>2
  <2>2. results'["votes"] = tally
    BY <1>1, <2>1
  <2> QED BY <1>3, <1>4, <2>2, NowIs DEF OnPage
<1>5. CASE f = "status"
  <2>1. results'.status = Len(log)
    <3>1. CASE r[f] = Now[f]
      <4>1. r.status = Len(log)
        BY <1>5, <3>1, NowIs
      <4> QED BY <1>1, <1>2, <4>1
    <3>2. CASE OnPage(f)
      <4>1. results # None /\ results.status = Len(log)
        BY <1>5, <3>2, NowIs DEF OnPage
      <4>2. ~(r.status < results.status /\ log[r.status] # log[results.status])
        BY <1>5, <4>1 DEF Overwritten, Says
      <4> QED BY <1>1, <1>2, <4>1, <4>2
    <3> QED BY <3>1, <3>2
  <2>2. results'["status"] = Len(log)
    BY <2>1
  <2> QED BY <1>3, <1>5, <2>2, NowIs DEF OnPage
<1> QED BY <1>4, <1>5 DEF Fields

LEMMA SameOverwritten ==
    ASSUME NEW r, NEW m, \A f \in Fields : r[f] = m[f] PROVE Overwritten(r) = Overwritten(m)
<1>1. ASSUME NEW f \in Fields PROVE Says(r, f) = Says(m, f)
  BY <1>1 DEF Says, Fields
<1> QED BY <1>1 DEF Overwritten

LEMMA FetchedWhere == ASSUME LiveInv, Whereabouts, Fetched PROVE Whereabouts'
<1> DEFINE r == Own(reply, TRUE)
<1>1. /\ reply # None /\ reply.read /\ Write(r) /\ Race(Overwritten(reply))
      /\ Now' = Now /\ UNCHANGED <<tally, log, calls, inbox, error>>
  BY DEF Fetched, backend, Now
<1>2. r \in ResultsType /\ (\A f \in Fields : r[f] = reply[f])
  <2>1. reply \in ReplyType /\ TRUE \in BOOLEAN
    BY <1>1 DEF LiveInv, ResultsTypeOK
  <2> QED BY <2>1, OwnIsCopy DEF LiveInv
<1> HIDE DEF r
<1>3. ASSUME NEW f \in Fields \ (raced \union Overwritten(reply))
      PROVE  Found(f) => Found(f)'
  <2>1. f \notin Overwritten(r)
    BY <1>2, SameOverwritten
  <2>2. InFetch(f) => r[f] = Now[f]
    BY <1>1, <1>2 DEF InFetch
  <2>3. InFetch(f) \/ OnPage(f) => OnPage(f)'
    BY <1>1, <1>2, <2>1, <2>2, CopyWritten
  <2>4. InCall(f) => InCall(f)'
    BY <1>1 DEF InCall, Carried
  <2>5. InInbox(f) => InInbox(f)'
    BY <1>1 DEF InInbox, In
  <2> QED BY <2>3, <2>4, <2>5 DEF Found
<1> QED BY <1>1, <1>3, FoundUnlessRaced

LEMMA DeliverWhere ==
    ASSUME LiveInv, HookInv, Whereabouts, NEW s \in DOMAIN sockets, Deliver(s)
    PROVE  Whereabouts'
<1> DEFINE m == Head(inbox[s])
           r == Merged(m)
<1>1. /\ s \in 1..MaxSockets /\ m \in CopyType /\ inbox[s] \in Seq(CopyType)
      /\ inbox[s] # <<>> /\ inbox' = [inbox EXCEPT ![s] = Tail(inbox[s])]
      /\ inbox \in [1..MaxSockets -> Seq(CopyType)]
      /\ Write(r) /\ Race(Overwritten(m))
  BY Delivered DEF LiveInv, ResultsTypeOK
<1>2. Now' = Now /\ UNCHANGED <<tally, log, calls, fetch, reply, error>>
  BY Delivered DEF Served, backend, Now
<1>3. r \in ResultsType /\ \A f \in Fields : r[f] = m[f]
  BY <1>1, MergedIsCopy
<1> HIDE DEF r
<1>4. ASSUME NEW f \in Fields \ (raced \union Overwritten(m)) PROVE Found(f) => Found(f)'
  <2>1. f \notin Overwritten(r)
    BY <1>3, SameOverwritten
  <2>2. m[f] = Now[f] \/ OnPage(f) => OnPage(f)'
    BY <1>1, <1>2, <1>3, <2>1, CopyWritten
  <2>3. InInbox(f) => InInbox(f)' \/ m[f] = Now[f]
    <3> SUFFICES ASSUME NEW t \in 1..MaxSockets, In(f, inbox[t]), m[f] # Now[f]
                 PROVE  InInbox(f)'
      BY DEF InInbox
    <3>1. In(f, inbox'[t])
      <4>1. CASE t = s
        <5>1. inbox'[t] = Tail(inbox[s])
          BY <1>1, <4>1
        <5> QED BY <1>1, <4>1, <5>1, TailHas
      <4>2. CASE t # s
        BY <1>1, <4>2
      <4> QED BY <4>1, <4>2
    <3> QED BY <1>2, <3>1 DEF InInbox, In
  <2>4. InCall(f) => InCall(f)'
    BY <1>2 DEF InCall, Carried
  <2>5. InFetch(f) => InFetch(f)'
    BY <1>2 DEF InFetch
  <2> QED BY <2>2, <2>3, <2>4, <2>5 DEF Found
<1> HIDE DEF m
<1> QED BY <1>1, <1>2, <1>4, FoundUnlessRaced

LEMMA ToggleEndsWhere ==
    ASSUME LiveInv, Whereabouts, NEW g \in toggles, ToggleEnds(g) PROVE Whereabouts'
<1> DEFINE r == Patched(g)
<1>1. /\ Write(r) /\ Race(Overwritten(r)) /\ Now' = Now
      /\ UNCHANGED <<tally, log, calls, fetch, reply, inbox, error>>
  BY DEF ToggleEnds, vars, backend, Now
<1>2. r \in ResultsType
  BY PatchedIsCopy DEF ToggleEnds, LiveInv, ResultsTypeOK
<1> HIDE DEF r
<1>3. ASSUME NEW f \in Fields \ (raced \union Overwritten(r)) PROVE Found(f) => Found(f)'
  <2>1. OnPage(f) => OnPage(f)'
    BY <1>1, <1>2, CopyWritten
  <2>2. InCall(f) => InCall(f)'
    BY <1>1 DEF InCall, Carried
  <2>3. (InInbox(f) => InInbox(f)') /\ (InFetch(f) => InFetch(f)')
    BY <1>1 DEF InInbox, In, InFetch
  <2> QED BY <2>1, <2>2, <2>3 DEF Found
<1> QED BY <1>1, <1>3, FoundUnlessRaced

LEMMA WhereaboutsStep == LiveInv /\ HookInv /\ Whereabouts /\ [Steps]_all => Whereabouts'
<1> SUFFICES ASSUME LiveInv, HookInv, Whereabouts, [Steps]_all PROVE Whereabouts'
  OBVIOUS
<1>1. ASSUME UNCHANGED <<tally, log, calls, inbox, results, reply, error, raced, fetch>>
      PROVE  Whereabouts'
  <2>1. Now' = Now
    BY <1>1 DEF Now
  <2>2. ASSUME NEW f \in Fields \ raced PROVE Found(f) => Found(f)'
    BY <1>1, <2>1, OthersStay, CallsStay
  <2> QED BY <1>1, <2>2, FoundCalm
<1>2. CASE UNCHANGED all \/ Click \/ (\E s \in DOMAIN sockets : Join(s) \/ Unjoin(s))
           \/ \E g \in toggles : ToggleFails(g)
  BY <1>1, <1>2 DEF Click, Join, Unjoin, ToggleFails, all, vars, backend, copy, owner
<1>3. CASE FetchFails
  BY <1>3 DEF FetchFails, Whereabouts
<1>4. CASE HookNext
  BY <1>4, HookedWhere
<1>5. CASE CallNext
  BY <1>5, VoteCountedWhere, VoteRetriedWhere, CountsReadWhere, PublishedWhere, DroppedWhere
     DEF CallNext
<1>6. CASE \E s \in {"active", "closed"} : StatusChanged(s)
  BY <1>6, StoredWhere, ChangesAssumption DEF StatusChanged
<1>7. CASE \E g \in toggles : ToggleServed(g)
  <2>1. PICK g \in toggles : StoreStatus(g.id, g.next)
    BY <1>7 DEF ToggleServed
  <2>2. g.id \in 0..MaxClicks /\ g.next \in {"active", "closed"}
    BY ChangesAssumption DEF LiveInv, ResultsTypeOK, ToggleType
  <2> QED BY <2>1, <2>2, StoredWhere
<1> QED BY <1>2, <1>3, <1>4, <1>5, <1>6, <1>7, VoteLoadedWhere, ExpireWhere, FetchLoadsWhere,
           FetchReadsWhere, FetchedWhere, DeliverWhere, ToggleEndsWhere DEF Steps, PageNext

(* When nothing is on its way any more the page is current in each field,  *)
(* unless one of the races that the property names has happened to it and  *)
(* was not repaired.                                                       *)
THEOREM NoOtherRace == LiveSpec => []CurrentUnlessRaced
<1>1. LiveInv /\ Whereabouts => CurrentUnlessRaced
  <2> SUFFICES ASSUME LiveInv, Whereabouts, AtRest, NEW f \in Fields \ raced
               PROVE  Says(results, f) = Says(Now, f)
    BY DEF CurrentUnlessRaced
  <2>1. /\ fetch # "out" /\ ~error /\ \A c \in calls : c.stage = "loaded"
        /\ \A s \in 1..MaxSockets : inbox[s] = <<>>
    BY DEF AtRest, Screen
  <2>2. ~InFetch(f) /\ ~InCall(f) /\ ~InInbox(f)
    BY <2>1 DEF InFetch, InCall, Carried, InInbox, In
  <2>3. results[f] = Now[f]
    BY <2>1, <2>2 DEF Whereabouts, Found, OnPage
  <2>4. CASE f = "votes"
    BY <2>3, <2>4 DEF Says
  <2>5. CASE f = "status"
    BY <2>3, <2>5 DEF Says
  <2> QED BY <2>4, <2>5 DEF Fields
<1> QED BY <1>1, WhereaboutsStart, WhereaboutsStep, LiveAlways, ImplementsHook, HookAlways, PTL
        DEF LiveSpec, Steps
=============================================================================
