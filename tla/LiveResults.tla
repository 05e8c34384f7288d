---------------------------- MODULE LiveResults ----------------------------
(***************************************************************************)
(* What the results page shows (PollResults.jsx), on top of the sockets of *)
(* LiveHook: the copy of the results that the fetch, the live updates and  *)
(* the toggle of the owner all write, and the way of the results from the  *)
(* backend to a socket.                                                    *)
(*                                                                         *)
(* Of the backend there are the calls of CastVote, UpdatePollStatus and    *)
(* GetResults that read or change the counts and the status: one message   *)
(* holds what its handler has read at different times, and may be overtaken*)
(* by others or never be published.  Redis and the hub pass messages on to *)
(* the sockets that have joined by then, each in order (Hub).  The poll is *)
(* not deleted and its hash is not lost.                                   *)
(***************************************************************************)
EXTENDS LiveHook

CONSTANTS
    MaxChanges,  \* bound on the votes and status changes begun
    MaxClicks,   \* bound on the clicks of the toggle
    None         \* no results, no reply

ASSUME ChangesAssumption == MaxChanges \in Nat /\ MaxClicks \in Nat
ASSUME NoneAssumption ==
    /\ None \notin [votes : Nat, status : Nat, own : BOOLEAN]
    /\ None \notin [votes : Nat, status : Nat, read : BOOLEAN]

VARIABLES
    tally,       \* the number of votes in the hash
    log,         \* the statuses that the poll has had for its readers
    expired,     \* expires_at has passed
    calls,       \* handlers that change the results, up to the publication
    begun,       \* votes and status changes begun so far
    joined,      \* sockets that the hub serves
    inbox,       \* messages on their way to each socket
    results,     \* the results of the page, or None
    reply,       \* what GetResults has read for this page, or None
    error,       \* the page has an error
    toggles,     \* runs of handleToggleStatus that have not ended
    clicks,      \* clicks of the toggle so far
    raced        \* history: see below

backend == <<tally, log, expired, calls, begun>>
copy    == <<results, reply, error>>
owner   == <<toggles, clicks>>
all     == <<vars, backend, joined, inbox, copy, owner, raced>>

(* A copy of the results holds the number of votes, and which status of    *)
(* the log it has: of two copies either may be the newer in each field.    *)
Fields == {"votes", "status"}

Now == [votes |-> tally, status |-> Len(log)]

Says(r, f) == IF f = "status" THEN log[r.status] ELSE r.votes

Newest(r) == {f \in Fields : r[f] = Now[f]}

(* The page's copy also says whether the viewer is the owner and has       *)
(* voted, which only getResults knows; here the viewer is both.            *)
Own(m, yes) == [votes |-> m.votes, status |-> m.status, own |-> yes]

Start ==
    /\ Init
    /\ tally = 0 /\ log = <<"active">> /\ expired = FALSE /\ calls = {} /\ begun = 0
    /\ joined = {} /\ inbox = [s \in 1..MaxSockets |-> <<>>]
    /\ results = None /\ reply = None /\ error = FALSE
    /\ toggles = {} /\ clicks = 0 /\ raced = {}

(* What the page renders.                                                  *)
Screen ==
    IF page = "left"                 THEN "left"
    ELSE IF fetch = "out"            THEN "spinner"
    ELSE IF error \/ results = None  THEN "not found" ELSE "results"

(* History: the fields in which a race may have left the page behind, each *)
(* until the page has the newest of it.  The races are: a copy is written  *)
(* over a newer one; a change is not announced, since its publication      *)
(* fails or since it is the clock that closes the poll; counts cannot be   *)
(* read and are taken for 0; a message comes when nobody has joined; a     *)
(* socket goes with messages.  A copy that says the same as a newer one    *)
(* counts as the newer one.                                                *)
Race(new) ==
    raced' = {f \in raced \union new : IF results' = None THEN TRUE
                                       ELSE results'[f] # Now'[f]}

Write(r) ==
    results' = IF results = None THEN r
               ELSE [r EXCEPT !.status =
                       IF @ < results.status /\ log[@] = log[results.status]
                       THEN results.status ELSE @]

Overwritten(r) ==
    IF results = None THEN {}
    ELSE {f \in Fields : r[f] < results[f] /\ Says(r, f) # Says(results, f)}

-----------------------------------------------------------------------------
(* The backend.  The calls of a handler, one after the other: a vote loads *)
(* the poll with its status, and is counted later, whatever the status is  *)
(* by then; a status is stored; then both read the counts and publish.     *)

BeginCall(by, stage, status) ==
    /\ page = "open" /\ begun < MaxChanges
    /\ begun' = begun + 1
    /\ calls' = calls \union {[id |-> begun', by |-> by, stage |-> stage,
                               votes |-> 0, status |-> status]}

(* Call c goes on with new values.                                         *)
Goes(c, d) ==
    /\ page = "open"
    /\ calls' = (calls \ {c}) \union {d}
    /\ UNCHANGED begun

VoteLoaded ==
    /\ log[Len(log)] = "active"
    /\ BeginCall(0, "loaded", Len(log))
    /\ UNCHANGED <<vars, tally, log, expired, joined, inbox, copy, owner, raced>>

(* HINCRBY, once more if an error comes of it or of HGETALL.               *)
VoteCounted(c) ==
    /\ c.stage \in {"loaded", "again"}
    /\ Goes(c, [c EXCEPT !.stage = IF @ = "loaded" THEN "counted" ELSE "stored"])
    /\ tally' = tally + 1
    /\ UNCHANGED <<vars, log, expired, joined, inbox, copy, owner, raced>>

VoteRetried(c) ==
    /\ c.stage \in {"loaded", "counted"}
    /\ Goes(c, [c EXCEPT !.stage = "again"])
    /\ UNCHANGED <<vars, tally, log, expired, joined, inbox, copy, owner, raced>>

(* A poll that has expired is closed for whoever reads it, also after the  *)
(* owner stored "active", which is announced nevertheless.                 *)
StoreStatus(by, s) ==
    /\ BeginCall(by, "stored", Len(log) + 1)
    /\ UNCHANGED <<vars, tally, expired, joined, inbox, copy>>
    /\ IF expired /\ s = "active" THEN log' = log \o <<s, "closed">> /\ Race({"status"})
                                  ELSE log' = Append(log, s) /\ Race({})

(* The owner changes the status on another page.                           *)
StatusChanged(s) == StoreStatus(0, s) /\ UNCHANGED owner

(* The clock passes expires_at: whoever reads the poll next closes it, and *)
(* nothing is published.                                                   *)
Expire ==
    /\ page = "open" /\ ~expired
    /\ expired' = TRUE
    /\ UNCHANGED <<vars, tally, calls, begun, joined, inbox, copy, owner>>
    /\ IF log[Len(log)] = "active" THEN log' = Append(log, "closed") /\ Race({"status"})
                                   ELSE UNCHANGED <<log, raced>>

(* HGETALL; if it fails, or a HINCRBY before it, and there is no more      *)
(* trying, the counts are empty.                                           *)
CountsRead(c, ok) ==
    /\ c.stage \in {"stored", IF ok THEN "counted" ELSE "again"}
    /\ Goes(c, [c EXCEPT !.stage = "read", !.votes = IF ok THEN tally ELSE 0])
    /\ UNCHANGED <<vars, tally, log, expired, joined, inbox, copy, owner>>
    /\ Race(IF ok THEN {} ELSE {"votes"})

Message(c) == [votes |-> c.votes, status |-> c.status]

Published(c) ==
    /\ page = "open" /\ c.stage = "read"
    /\ calls' = calls \ {c}
    /\ inbox' = [s \in 1..MaxSockets |->
                   IF s \in joined THEN Append(inbox[s], Message(c)) ELSE inbox[s]]
    /\ UNCHANGED <<vars, tally, log, expired, begun, joined, copy, owner>>
    /\ Race(IF joined = {} THEN Newest(c) ELSE {})

(* The handler ends without: a vote is refused; a call fails, also the one *)
(* that publishes, whose error is ignored; the server restarts.            *)
Carried(c) ==
    {f \in Fields : \/ c.stage \in {"counted", "again", "stored"} /\ f = "votes"
                    \/ c.stage \in {"stored", "read"} /\ c[f] = Now[f]}

Dropped(c) ==
    /\ page = "open"
    /\ calls' = calls \ {c}
    /\ UNCHANGED <<vars, tally, log, expired, begun, joined, inbox, copy, owner>>
    /\ Race(Carried(c))

(* The hub registers the socket and Redis confirms its subscription, which *)
(* may be before or after the page sees the socket open; the hub loses its *)
(* connection to Redis, or drops a socket that is slow.                    *)
Reaches(s) == page = "open" /\ sockets[s].state \in {"connecting", "open"}

Join(s) ==
    /\ Reaches(s) /\ s \notin joined
    /\ joined' = joined \union {s}
    /\ UNCHANGED <<vars, backend, inbox, copy, owner, raced>>

Unjoin(s) ==
    /\ Reaches(s) /\ s \in joined
    /\ joined' = joined \ {s}
    /\ UNCHANGED <<vars, backend, inbox, copy, owner, raced>>

(* A step of the hook.  A socket that is closing takes no more messages.   *)
Lost == {f \in Fields : \E s \in 1..MaxSockets :
            inbox'[s] # inbox[s] /\ \E i \in DOMAIN inbox[s] : f \in Newest(inbox[s][i])}

Hooked(Step) ==
    /\ Step
    /\ joined' = {s \in joined : sockets'[s].state \in {"connecting", "open"}}
    /\ inbox' = [s \in 1..MaxSockets |->
                   IF s \in DOMAIN sockets /\ sockets'[s].state \in {"closing", "closed"}
                   THEN <<>> ELSE inbox[s]]
    /\ UNCHANGED <<backend, copy, owner>>
    /\ Race(Lost)

-----------------------------------------------------------------------------
(* fetchResults.  GetResults reads the status with the poll, then the      *)
(* counts, which are empty if Redis fails twice.                           *)

FetchLoads ==
    /\ page = "open" /\ fetch = "out" /\ reply = None
    /\ reply' = [votes |-> 0, status |-> Len(log), read |-> FALSE]
    /\ UNCHANGED <<vars, backend, joined, inbox, results, error, owner, raced>>

FetchReads(ok) ==
    /\ page = "open" /\ fetch = "out" /\ reply # None /\ ~reply.read
    /\ reply' = [reply EXCEPT !.read = TRUE, !.votes = IF ok THEN tally ELSE 0]
    /\ UNCHANGED <<vars, backend, joined, inbox, results, error, owner>>
    /\ Race(IF ok THEN {} ELSE {"votes"})

Fetched ==
    /\ reply # None /\ reply.read
    /\ FetchEnds /\ key' = "id"
    /\ Write(Own(reply, TRUE)) /\ reply' = None
    /\ UNCHANGED <<backend, joined, inbox, error, owner>>
    /\ Race(Overwritten(reply))

FetchFails ==
    /\ FetchEnds /\ key' = key
    /\ error' = TRUE /\ reply' = None
    /\ UNCHANGED <<backend, joined, inbox, results, owner, raced>>

(* Mistakes: the copy is merged in the wrong order; the payload, which     *)
(* knows nothing of the viewer, replaces the copy.                         *)
MergedBack(m) == IF results = None THEN Own(m, FALSE) ELSE results

Replaced(m) == Own(m, FALSE)

(* handleLiveUpdate.                                                       *)
Merged(m) == IF results = None THEN Own(m, FALSE) ELSE Own(m, results.own)

Deliver(s) ==
    LET m == Head(inbox[s]) IN
    /\ page = "open" /\ sockets[s].state = "open" /\ inbox[s] # <<>>
    /\ inbox' = [inbox EXCEPT ![s] = Tail(@)]
    /\ Write(Merged(m))
    /\ IF key = "id" THEN UNCHANGED vars ELSE LiveUpdate(s)
    /\ UNCHANGED <<backend, joined, reply, error, owner>>
    /\ Race(Overwritten(m))

-----------------------------------------------------------------------------
(* handleToggleStatus: view is the results of the render in which the      *)
(* button was clicked.  The answer comes when the handler has ended.       *)

Opposite(s) == IF s = "active" THEN "closed" ELSE "active"

Click ==
    /\ Screen = "results" /\ results.own /\ clicks < MaxClicks
    /\ clicks' = clicks + 1
    /\ toggles' = toggles \union
         {[id |-> clicks', view |-> results, next |-> Opposite(log[results.status]),
           stored |-> 0]}
    /\ UNCHANGED <<vars, backend, joined, inbox, copy, raced>>

ToggleServed(g) ==
    /\ g.stored = 0
    /\ toggles' = (toggles \ {g}) \union {[g EXCEPT !.stored = Len(log) + 1]}
    /\ StoreStatus(g.id, g.next)
    /\ UNCHANGED clicks

Patched(g) == [g.view EXCEPT !.status = g.stored]

ToggleEnds(g) ==
    /\ page = "open" /\ g.stored # 0 /\ \A c \in calls : c.by # g.id
    /\ toggles' = toggles \ {g}
    /\ Write(Patched(g))
    /\ UNCHANGED <<vars, backend, joined, inbox, reply, error, clicks>>
    /\ Race(Overwritten(Patched(g)))

(* An error, or no answer.                                                 *)
ToggleFails(g) ==
    /\ page = "open"
    /\ toggles' = toggles \ {g}
    /\ UNCHANGED <<vars, backend, joined, inbox, copy, clicks, raced>>

-----------------------------------------------------------------------------
HookNext ==
    \/ Hooked(RunEffect) \/ Hooked(Leave)
    \/ \E s \in DOMAIN sockets : Hooked(Opens(s)) \/ Hooked(OnClose(s))
    \/ \E s \in timers : Hooked(TimerFires(s))

CallNext == \E c \in calls :
    \/ VoteCounted(c) \/ VoteRetried(c) \/ Published(c) \/ Dropped(c)
    \/ \E ok \in BOOLEAN : CountsRead(c, ok)

PageNext ==
    \/ VoteLoaded \/ Expire \/ \E s \in {"active", "closed"} : StatusChanged(s)
    \/ \E s \in DOMAIN sockets : Join(s) \/ Unjoin(s) \/ Deliver(s)
    \/ FetchLoads \/ Fetched \/ FetchFails \/ \E ok \in BOOLEAN : FetchReads(ok)
    \/ Click \/ \E g \in toggles : ToggleServed(g) \/ ToggleEnds(g) \/ ToggleFails(g)

LiveSpec == Start /\ [][HookNext \/ CallNext \/ PageNext]_all

-----------------------------------------------------------------------------
(* Properties.                                                             *)

CopyType    == [votes : 0..tally, status : 1..Len(log)]
ResultsType == [votes : 0..tally, status : 1..Len(log), own : BOOLEAN]
ReplyType   == [votes : 0..tally, status : 1..Len(log), read : BOOLEAN]

CallType == [id : 1..MaxChanges, by : 0..MaxClicks,
             stage : {"loaded", "counted", "again", "stored", "read"},
             votes : 0..tally, status : 1..Len(log)]

ToggleType == [id : 1..MaxClicks, view : ResultsType, next : {"active", "closed"},
               stored : 0..Len(log)]

(* Every variable has its type, and no copy anywhere is ahead of the poll. *)
ResultsTypeOK ==
    /\ tally \in Nat /\ log \in Seq({"active", "closed"}) /\ log # <<>>
    /\ expired \in BOOLEAN /\ calls \subseteq CallType /\ begun \in 0..MaxChanges
    /\ joined \subseteq DOMAIN sockets /\ inbox \in [1..MaxSockets -> Seq(CopyType)]
    /\ results \in ResultsType \union {None} /\ reply \in ReplyType \union {None}
    /\ error \in BOOLEAN /\ clicks \in 0..MaxClicks /\ raced \subseteq Fields
    /\ toggles \subseteq ToggleType

(* Nothing is on its way but votes that are not counted yet.               *)
AtRest ==
    /\ Screen = "results" /\ toggles = {} /\ \A c \in calls : c.stage = "loaded"
    /\ \A s \in 1..MaxSockets : inbox[s] = <<>>

(* At rest the page shows the counts that are in the hash and the status   *)
(* that a reader of the poll would get, each unless one of the races named *)
(* above has happened to it: there is no other way to be wrong.            *)
CurrentUnlessRaced ==
    AtRest => \A f \in Fields \ raced : Says(results, f) = Says(Now, f)

(* However the fetch, live updates and toggles are interleaved, a page that *)
(* shows results knows its viewer: the owner keeps the toggle, and a voter *)
(* is not asked to vote again, though live updates know neither.           *)
KnowsItsViewer == Screen = "results" => results.own
=============================================================================
