----------------------------- MODULE PollVoting -----------------------------
(***************************************************************************)
(* The life of one poll in the backend: the request handlers of            *)
(* vote_controller.go and poll_controller.go, running concurrently, and    *)
(* the two stores they share without any transaction across them: MongoDB  *)
(* (the poll document with its own vote counts, and the votes collection)  *)
(* and Redis (the hash of live counts and the update channel).             *)
(*                                                                         *)
(* Every call to a store is one action, with the handler's whole reaction  *)
(* to the result of the call; a handler keeps nothing but what it read.    *)
(* Texts, percentages and timestamps are left out.  A handler slot is used *)
(* again after it has replied.                                             *)
(***************************************************************************)
EXTENDS Integers, FiniteSets

CONSTANTS
    Handlers,     \* request handlers (goroutines of the HTTP server)
    Voters,       \* voter identities, one per browser
    NumOptions,   \* number of options of the poll
    Ops,          \* the operations clients use
    Env,          \* the faults and events of the environment that may occur
    NoVoter       \* who a slot works for when nobody is named

Options  == 1..NumOptions
Statuses == {"active", "closed"}
OpKinds  == {"vote", "results", "share", "list", "status", "delete"}
EnvKinds == {
    "early_link",   \* the poll is found (dashboard) before CreatePoll replied
    "gone",         \* a client disconnects, which cancels its request context
    "expiry",       \* the poll has an expires_at, and it passes
    "mongo_error",  \* a MongoDB call fails without effect
    "mongo_lost",   \* a MongoDB call takes effect and still returns an error
    "redis_error",  \* the same two for Redis
    "redis_lost",
    "crash",        \* the server process restarts
    "restart",      \* the container with the server and Redis restarts
    "ttl",          \* 30 days pass since the EXPIRE of the hash
    "late_index"}   \* requests are served while ensureIndexes still runs

ASSUME HandlersAssumption == IsFiniteSet(Handlers)
ASSUME VotersAssumption   == NoVoter \notin Voters
ASSUME OptionsAssumption  == NumOptions \in Nat \ {0}
ASSUME OpsAssumption      == Ops \subseteq OpKinds
ASSUME EnvAssumption      == Env \subseteq EnvKinds

VARIABLES
    poll,       \* "none", "live" or "deleted": the document in polls
    status,     \* its status field
    expired,    \* expires_at has passed
    docVotes,   \* its options.$.votes
    votes,      \* the votes collection
    serial,     \* per voter, how many vote documents were ever inserted
    index,      \* the unique index on (poll_id, voter_ident)
    fields,     \* the fields present in the Redis hash poll:<id>:votes
    tally,      \* the values of the hash (0 where the field is absent)
    ttl,        \* expiry of the hash: none, set, or set and HINCRBYed since
    event,      \* the last message published on poll:<id>:updates
    announced,  \* the creator got the reply of CreatePoll, with the link
    thanked,    \* voters whose browser shows "already voted"
    local       \* what each handler is doing and what it has read

mongoVars == <<poll, status, expired, docVotes, votes, serial, index>>
hashVars  == <<fields, tally, ttl>>
uiVars    == <<announced, thanked>>
vars      == <<mongoVars, hashVars, event, uiVars, local>>

Counts  == [Options -> Nat]
Zero    == [o \in Options |-> 0]
NoEvent == [status |-> "active", counts |-> Zero]

Ballots == [voter : Voters, opt : Options, serial : Nat]

Idle == [pc |-> "idle", client |-> "there", who |-> NoVoter, opt |-> 1,
         status |-> "active", snap |-> Zero, counts |-> Zero,
         idx |-> 1, attempt |-> 1]

Init ==
    /\ poll = "none" /\ status = "active" /\ expired = FALSE
    /\ docVotes = Zero /\ votes = {} /\ serial = [v \in Voters |-> 0]
    /\ index \in IF "late_index" \in Env THEN {"pending"} ELSE {"built"}
    /\ fields = {} /\ tally = Zero /\ ttl = "none"
    /\ event = NoEvent
    /\ announced = FALSE /\ thanked = {}
    /\ local = [h \in Handlers |-> Idle]

-----------------------------------------------------------------------------
(* Calls.  A call either takes effect and returns ("ok"), fails without    *)
(* effect ("failed"), takes effect but returns an error ("lost"), or takes *)
(* effect while its client leaves, so that the driver reports the          *)
(* cancelled context ("cut").  Once a client has left, no call of its      *)
(* handler reaches a store.  go-redis waits for a command already sent, so *)
(* a Redis call is never cut.                                              *)

Faults(kind) == {e \in {"failed", "lost"} :
                    (kind = "mongo" /\ e = "failed" /\ "mongo_error" \in Env)
                 \/ (kind = "mongo" /\ e = "lost"   /\ "mongo_lost"  \in Env)
                 \/ (kind = "redis" /\ e = "failed" /\ "redis_error" \in Env)
                 \/ (kind = "redis" /\ e = "lost"   /\ "redis_lost"  \in Env)}

Left(h) == local[h].client = "left"

MongoCall(h) == IF Left(h) THEN {"failed"}
                ELSE {"ok"} \union Faults("mongo")
                     \union (IF "gone" \in Env THEN {"cut"} ELSE {})

RedisCall(h) == IF Left(h) THEN {"failed"}
                ELSE {"ok"} \union Faults("redis")

At(h, label) == local[h].pc = label

(* Handler h goes on at the given label with new local values.             *)
Goto(h, label, call, mem) ==
    local' = [local EXCEPT ![h] =
                [mem EXCEPT !.pc = label, !.client = IF call = "cut" THEN "left" ELSE @]]

(* Handler h answers its request (or panics out of it) and is free again.  *)
Reply(h) == local' = [local EXCEPT ![h] = Idle]

(* Somebody who knows the poll sends a request.                            *)
Reachable == poll # "none" /\ (announced \/ "early_link" \in Env)

Begin(h, op, label, mem) ==
    /\ op \in Ops /\ Reachable /\ At(h, "idle")
    /\ Goto(h, label, "ok", mem)
    /\ UNCHANGED <<mongoVars, hashVars, event, uiVars>>
-----------------------------------------------------------------------------
(* CreatePoll: insert the document, initialise the hash, answer with the   *)
(* link.                                                                   *)

BeginCreate(h) ==
    /\ poll = "none" /\ At(h, "idle")
    /\ \A g \in Handlers : ~At(g, "create_insert")
    /\ Goto(h, "create_insert", "ok", Idle)
    /\ UNCHANGED <<mongoVars, hashVars, event, uiVars>>

CreateInsert(h) ==
    /\ At(h, "create_insert")
    /\ \E call \in MongoCall(h) :
        /\ poll' = IF call = "failed" THEN poll ELSE "live"
        /\ IF call = "ok" THEN Goto(h, "create_init", call, local[h])
                          ELSE Reply(h)
    /\ UNCHANGED <<status, expired, docVotes, votes, serial, index>>
    /\ UNCHANGED <<hashVars, event, uiVars>>

CreateReply(h) ==
    /\ At(h, "create_reply")
    /\ announced' = (announced \/ local[h].client = "there")
    /\ Reply(h)
    /\ UNCHANGED <<mongoVars, hashVars, event, thanked>>

(* InitPollVotes, called by CreatePoll, CastVote and GetResults: a         *)
(* pipeline, not a transaction, of one HSETNX per option with the vote     *)
(* count of the caller's copy of the document, then an EXPIRE.  All three  *)
(* callers ignore its error.  Once sent, the pipeline outlives its client. *)
AfterInit == [create_init  |-> "create_reply",
              vote_init    |-> "vote_incr",
              results_init |-> "results_fetch"]

InitCall(h) == IF local[h].idx = 1 THEN RedisCall(h)
               ELSE {"ok"} \union (Faults("redis") \ {"failed"})

(* A mistake this could have: HSET, which overwrites a count with a copy.  *)
HSet(i, n) ==
    /\ fields' = fields \union {i}
    /\ tally' = [tally EXCEPT ![i] = n]
    /\ UNCHANGED ttl

HSetNX(i, n) ==
    /\ fields' = fields \union {i}
    /\ tally' = IF i \in fields THEN tally ELSE [tally EXCEPT ![i] = n]
    /\ UNCHANGED ttl

InitPollVotes(h) ==
    /\ local[h].pc \in DOMAIN AfterInit
    /\ LET mem  == local[h]
           last == mem.idx > NumOptions
       IN  \E call \in InitCall(h) :
            /\ CASE call = "failed" -> UNCHANGED hashVars
                 [] call # "failed" /\ ~last -> HSetNX(mem.idx, mem.snap[mem.idx])
                 [] call # "failed" /\ last ->
                        /\ ttl' = IF fields = {} THEN ttl ELSE "set"
                        /\ UNCHANGED <<fields, tally>>
            /\ IF call # "ok" \/ last
                 THEN Goto(h, AfterInit[mem.pc], call, [mem EXCEPT !.attempt = 2])
                 ELSE Goto(h, mem.pc, call, [mem EXCEPT !.idx = @ + 1])
    /\ UNCHANGED <<mongoVars, event, uiVars>>

-----------------------------------------------------------------------------
(* CastVote.  A request that names no option of the poll is answered with  *)
(* 400 after the load and changes nothing else; it is left out.            *)

BeginVote(h) == \E v \in Voters, o \in Options :
    Begin(h, "vote", "vote_load", [Idle EXCEPT !.who = v, !.opt = o])

(* A mistake: only the stored status is looked at, not the clock.          *)
GateWithoutClock == "vote_check"

Gate == IF expired THEN "vote_close" ELSE "vote_check"

VoteLoad(h) ==
    /\ At(h, "vote_load")
    /\ \E call \in MongoCall(h) :
        IF call = "ok" /\ poll = "live" /\ status = "active"
          THEN Goto(h, Gate, call,
                    [local[h] EXCEPT !.status = status, !.snap = docVotes])
          ELSE Reply(h)
    /\ UNCHANGED <<mongoVars, hashVars, event, uiVars>>

HasVoted(v) == \E r \in votes : r.voter = v

(* The browser shows "already voted" on a 200 and on any 409, and on a     *)
(* has_voted result, if its request is still open.                         *)
(* A mistake: the page shows it as soon as the button is pressed.          *)
ThankEarly(h, call) == thanked' = thanked \union {local[h].who}

Thank(h, call) ==
    thanked' = IF Left(h) \/ call = "cut" THEN thanked
               ELSE thanked \union {local[h].who}

VoteCheck(h) ==
    /\ At(h, "vote_check")
    /\ \E call \in MongoCall(h) :
        \/ /\ call # "ok"
           /\ Reply(h) /\ UNCHANGED thanked
        \/ /\ call = "ok" /\ HasVoted(local[h].who)
           /\ Reply(h) /\ Thank(h, call)
        \/ /\ call = "ok" /\ ~HasVoted(local[h].who)
           /\ Goto(h, "vote_record", call, local[h]) /\ UNCHANGED thanked
    /\ UNCHANGED <<mongoVars, hashVars, event, announced>>

(* RecordVote inserts the vote document; the unique index, once built,     *)
(* refuses a second one.  Any error at all is answered with 409.           *)
(* Mistakes: an index that is not unique; a handler that takes the refusal *)
(* for success.                                                            *)
RefusedNever(v) == FALSE

Refused(v) == index = "built" /\ HasVoted(v)

RecordedOrDuplicate(call, v) == call = "ok"

Recorded(call, v) == call = "ok" /\ ~Refused(v)

VoteRecord(h) ==
    /\ At(h, "vote_record")
    /\ LET v == local[h].who IN
       \E call \in MongoCall(h) :
        /\ IF call = "failed" \/ Refused(v)
             THEN UNCHANGED <<votes, serial>>
             ELSE /\ votes' = votes \union
                        {[voter |-> v, opt |-> local[h].opt, serial |-> serial[v]]}
                  /\ serial' = [serial EXCEPT ![v] = @ + 1]
        /\ IF Recorded(call, v)
             THEN Goto(h, "vote_count", call, local[h]) /\ UNCHANGED thanked
             ELSE Reply(h) /\ Thank(h, call)
    /\ UNCHANGED <<poll, status, expired, docVotes, index>>
    /\ UNCHANGED <<hashVars, event, announced>>

(* UpdateOptionVoteCount, whose error is ignored.                          *)
VoteCount(h) ==
    /\ At(h, "vote_count")
    /\ \E call \in MongoCall(h) :
        /\ docVotes' = IF call = "failed" \/ poll # "live" THEN docVotes
                       ELSE [docVotes EXCEPT ![local[h].opt] = @ + 1]
        /\ Goto(h, "vote_incr", call, local[h])
    /\ UNCHANGED <<poll, status, expired, votes, serial, index>>
    /\ UNCHANGED <<hashVars, event, uiVars>>

(* IncrementVote is HINCRBY and then HGETALL.  An error of either sends    *)
(* CastVote through InitPollVotes and IncrementVote once more; an error of *)
(* the second attempt leaves the counts empty.                             *)
(* Mistakes: the error test the wrong way round; a retry without an end; a *)
(* plain SET instead of the increment.                                     *)
IncrementedInverted(h, call) ==
    IF call = "ok" /\ local[h].attempt = 1 THEN Goto(h, "vote_init", call, local[h])
    ELSE Goto(h, "vote_fetch", call, local[h])

IncrementedForever(h, call) ==
    Goto(h, IF call = "ok" THEN "vote_fetch" ELSE "vote_init", call, local[h])

SetTally(o) ==
    /\ fields' = fields \union {o}
    /\ tally' = [tally EXCEPT ![o] = 1]
    /\ UNCHANGED ttl

Incremented(h, call) ==
    IF call = "ok" THEN Goto(h, "vote_fetch", call, local[h])
    ELSE Goto(h, IF local[h].attempt = 2 THEN "vote_publish" ELSE "vote_init",
              call, local[h])

HIncrBy(o) ==
    /\ fields' = fields \union {o}
    /\ tally' = [tally EXCEPT ![o] = @ + 1]
    /\ ttl' = IF ttl = "set" THEN "touched" ELSE ttl

VoteIncr(h) ==
    /\ At(h, "vote_incr")
    /\ \E call \in RedisCall(h) :
        /\ IF call = "failed" THEN UNCHANGED hashVars ELSE HIncrBy(local[h].opt)
        /\ Incremented(h, call)
    /\ UNCHANGED <<mongoVars, event, uiVars>>

(* A mistake: the handler adds its own vote to counts that hold it.        *)
VoteFetchPlusOwn(h) ==
    /\ At(h, "vote_fetch")
    /\ Goto(h, "vote_publish", "ok", [local[h] EXCEPT
           !.counts = [tally EXCEPT ![local[h].opt] = @ + 1]])
    /\ UNCHANGED <<mongoVars, hashVars, event, uiVars>>

VoteFetch(h) ==
    /\ At(h, "vote_fetch")
    /\ \E call \in RedisCall(h) :
        IF call = "ok"
          THEN Goto(h, "vote_publish", call, [local[h] EXCEPT !.counts = tally])
          ELSE Incremented(h, call)
    /\ UNCHANGED <<mongoVars, hashVars, event, uiVars>>

(* PublishVoteUpdate, whose error is ignored.                              *)
Publish(h, call) ==
    event' = IF call = "failed" THEN event
             ELSE [status |-> local[h].status, counts |-> local[h].counts]

VotePublish(h) ==
    /\ At(h, "vote_publish")
    /\ \E call \in RedisCall(h) :
        Publish(h, call) /\ Reply(h) /\ Thank(h, call)
    /\ UNCHANGED <<mongoVars, hashVars, announced>>

-----------------------------------------------------------------------------
(* GetResults, GetPollByShareCode and the poll status they close when the  *)
(* poll has expired.                                                       *)

BeginResults(h) == \E v \in Voters :
    Begin(h, "results", "results_load", [Idle EXCEPT !.who = v])

ResultsLoad(h) ==
    /\ At(h, "results_load")
    /\ \E call \in MongoCall(h) :
        IF call = "ok" /\ poll = "live"
          THEN Goto(h, IF expired /\ status = "active" THEN "results_close"
                       ELSE "results_fetch",
                    call, [local[h] EXCEPT !.snap = docVotes])
          ELSE Reply(h)
    /\ UNCHANGED <<mongoVars, hashVars, event, uiVars>>

(* An error or an empty hash sends GetResults through InitPollVotes and a  *)
(* second GetPollVotes, whose error is ignored.                            *)
ResultsFetch(h) ==
    /\ At(h, "results_fetch")
    /\ \E call \in RedisCall(h) :
        IF (call = "ok" /\ fields # {}) \/ local[h].attempt = 2
          THEN Goto(h, "results_voted", call,
                    [local[h] EXCEPT !.counts = IF call = "ok" THEN tally ELSE Zero])
          ELSE Goto(h, "results_init", call, local[h])
    /\ UNCHANGED <<mongoVars, hashVars, event, uiVars>>

ResultsVoted(h) ==
    /\ At(h, "results_voted")
    /\ \E call \in MongoCall(h) :
        /\ IF call = "ok" /\ HasVoted(local[h].who) THEN Thank(h, call)
                                                    ELSE UNCHANGED thanked
        /\ Reply(h)
    /\ UNCHANGED <<mongoVars, hashVars, event, announced>>

BeginShare(h) == Begin(h, "share", "share_load", Idle)

ShareLoad(h) ==
    /\ At(h, "share_load")
    /\ \E call \in MongoCall(h) :
        IF call = "ok" /\ poll = "live" /\ expired /\ status = "active"
          THEN Goto(h, "share_close", call, local[h])
          ELSE Reply(h)
    /\ UNCHANGED <<mongoVars, hashVars, event, uiVars>>

(* UpdatePollStatus changes the document of a poll that is there.          *)
UpdatePollStatus(call, s) ==
    /\ status' = IF call = "failed" \/ poll # "live" THEN status ELSE s
    /\ UNCHANGED poll

(* UpdatePollStatus(..., "closed") on behalf of CastVote, GetResults or    *)
(* GetPollByShareCode; its error is ignored, and no event is published.    *)
AutoClose(h) ==
    /\ local[h].pc \in {"vote_close", "results_close", "share_close"}
    /\ \E call \in MongoCall(h) :
        /\ UpdatePollStatus(call, "closed")
        /\ IF At(h, "results_close") THEN Goto(h, "results_fetch", call, local[h])
                                     ELSE Reply(h)
    /\ UNCHANGED <<expired, docVotes, votes, serial, index>>
    /\ UNCHANGED <<hashVars, event, uiVars>>

(* GetUserPolls shows the count of the hash for every option that is in    *)
(* it, and the count of the document for the others.                       *)
BeginList(h) == Begin(h, "list", "list_load", Idle)

ListLoad(h) ==
    /\ At(h, "list_load")
    /\ \E call \in MongoCall(h) :
        IF call = "ok" /\ poll = "live"
          THEN Goto(h, "list_fetch", call, [local[h] EXCEPT !.snap = docVotes])
          ELSE Reply(h)
    /\ UNCHANGED <<mongoVars, hashVars, event, uiVars>>

ListFetch(h) ==
    /\ At(h, "list_fetch")
    /\ \E call \in RedisCall(h) :
        Goto(h, "list_reply", call, [local[h] EXCEPT !.counts = [o \in Options |->
            IF call = "ok" /\ o \in fields THEN tally[o] ELSE local[h].snap[o]]])
    /\ UNCHANGED <<mongoVars, hashVars, event, uiVars>>

ListReply(h) ==
    /\ At(h, "list_reply") /\ Reply(h)
    /\ UNCHANGED <<mongoVars, hashVars, event, uiVars>>

-----------------------------------------------------------------------------
(* The owner closes or reopens the poll, or deletes it.                    *)

BeginStatus(h) == \E s \in Statuses :
    Begin(h, "status", "status_update", [Idle EXCEPT !.status = s])

StatusUpdate(h) ==
    /\ At(h, "status_update")
    /\ \E call \in MongoCall(h) :
        /\ UpdatePollStatus(call, local[h].status)
        /\ IF call = "ok" /\ poll = "live" THEN Goto(h, "status_load", call, local[h])
                                           ELSE Reply(h)
    /\ UNCHANGED <<expired, docVotes, votes, serial, index>>
    /\ UNCHANGED <<hashVars, event, uiVars>>

StatusLoad(h) ==
    /\ At(h, "status_load")
    /\ \E call \in MongoCall(h) :
        IF call = "ok" /\ poll = "live" THEN Goto(h, "status_fetch", call, local[h])
                                        ELSE Reply(h)
    /\ UNCHANGED <<mongoVars, hashVars, event, uiVars>>

StatusFetch(h) ==
    /\ At(h, "status_fetch")
    /\ \E call \in RedisCall(h) :
        Goto(h, "status_publish", call,
             [local[h] EXCEPT !.counts = IF call = "ok" THEN tally ELSE Zero])
    /\ UNCHANGED <<mongoVars, hashVars, event, uiVars>>

StatusPublish(h) ==
    /\ At(h, "status_publish")
    /\ \E call \in RedisCall(h) : Publish(h, call) /\ Reply(h)
    /\ UNCHANGED <<mongoVars, hashVars, uiVars>>

(* A mistake: the votes are removed before the document.                   *)
BeginDeleteVotesFirst(h) == Begin(h, "delete", "delete_votes", Idle)

BeginDelete(h) == Begin(h, "delete", "delete_doc", Idle)

DeleteDoc(h) ==
    /\ At(h, "delete_doc")
    /\ \E call \in MongoCall(h) :
        /\ poll' = IF call = "failed" THEN poll ELSE "deleted"
        /\ IF call = "ok" /\ poll = "live" THEN Goto(h, "delete_votes", call, local[h])
                                           ELSE Reply(h)
    /\ UNCHANGED <<status, expired, docVotes, votes, serial, index>>
    /\ UNCHANGED <<hashVars, event, uiVars>>

DeleteVotes(h) ==
    /\ At(h, "delete_votes")
    /\ \E call \in MongoCall(h) : votes' = IF call = "failed" THEN votes ELSE {}
    /\ Reply(h)
    /\ UNCHANGED <<poll, status, expired, docVotes, serial, index>>
    /\ UNCHANGED <<hashVars, event, uiVars>>

-----------------------------------------------------------------------------
(* The environment.                                                        *)

Disconnect(h) ==
    /\ "gone" \in Env /\ ~At(h, "idle") /\ local[h].client = "there"
    /\ local' = [local EXCEPT ![h].client = "left"]
    /\ UNCHANGED <<mongoVars, hashVars, event, uiVars>>

Expire ==
    /\ "expiry" \in Env /\ poll = "live" /\ ~expired
    /\ expired' = TRUE
    /\ UNCHANGED <<poll, status, docVotes, votes, serial, index>>
    /\ UNCHANGED <<hashVars, event, uiVars, local>>

(* The error of CreateOne is ignored, and there may be one: a timeout, or  *)
(* duplicates that are there already.                                      *)
EnsureIndexes ==
    /\ index = "pending"
    /\ index' \in {"failed"} \union
         (IF \A r, s \in votes : r.voter = s.voter => r = s THEN {"built"} ELSE {})
    /\ UNCHANGED <<poll, status, expired, docVotes, votes, serial>>
    /\ UNCHANGED <<hashVars, event, uiVars, local>>

TTLElapses ==
    /\ "ttl" \in Env /\ ttl # "none"
    /\ fields' = {} /\ tally' = Zero /\ ttl' = "none"
    /\ UNCHANGED <<mongoVars, event, uiVars, local>>

(* The server process dies, its requests with it, and comes back.  In the  *)
(* single-container deployment Redis dies too, and has nothing on disk.    *)
Restart ==
    /\ Env \cap {"crash", "restart"} # {}
    /\ local' = [h \in Handlers |-> Idle]
    /\ index' = IF index = "failed" THEN "pending" ELSE index
    /\ \/ "crash" \in Env /\ UNCHANGED hashVars
       \/ "restart" \in Env /\ fields' = {} /\ tally' = Zero /\ ttl' = "none"
    /\ UNCHANGED <<poll, status, expired, docVotes, votes, serial, event, uiVars>>

-----------------------------------------------------------------------------
Request(h) == \/ BeginCreate(h) \/ BeginVote(h) \/ BeginResults(h)
              \/ BeginShare(h) \/ BeginList(h) \/ BeginStatus(h) \/ BeginDelete(h)

Step(h) == \/ CreateInsert(h) \/ CreateReply(h) \/ InitPollVotes(h)
           \/ VoteLoad(h) \/ VoteCheck(h) \/ VoteRecord(h) \/ VoteCount(h)
           \/ VoteIncr(h) \/ VoteFetch(h) \/ VotePublish(h)
           \/ ResultsLoad(h) \/ ResultsFetch(h) \/ ResultsVoted(h)
           \/ ShareLoad(h) \/ AutoClose(h)
           \/ ListLoad(h) \/ ListFetch(h) \/ ListReply(h)
           \/ StatusUpdate(h) \/ StatusLoad(h) \/ StatusFetch(h) \/ StatusPublish(h)
           \/ DeleteDoc(h) \/ DeleteVotes(h)

Next == \/ \E h \in Handlers : Request(h) \/ Step(h) \/ Disconnect(h)
        \/ Expire \/ EnsureIndexes \/ TTLElapses \/ Restart

Spec == Init /\ [][Next]_vars

(* Every call to a store returns, if only with a timeout, and the Go       *)
(* scheduler runs every goroutine; nobody has to send a request.           *)
FairSpec == Spec /\ \A h \in Handlers : WF_vars(Step(h))
-----------------------------------------------------------------------------
(* Properties.                                                             *)

(* The vote documents for option o.                                        *)
For(o) == {r \in votes : r.opt = o}

(* Handlers that recorded a vote for o and have not yet come to the $inc   *)
(* of the document, or to the first HINCRBY.                               *)
Uncounted(o) == {h \in Handlers : At(h, "vote_count") /\ local[h].opt = o}
Untallied(o) == {h \in Handlers :
                    /\ local[h].pc \in {"vote_count", "vote_incr"}
                    /\ local[h].attempt = 1 /\ local[h].opt = o}

Labels == {"idle", "create_insert", "create_init", "create_reply",
           "vote_load", "vote_close", "vote_check", "vote_record",
           "vote_count", "vote_incr", "vote_fetch", "vote_init",
           "vote_publish", "results_load", "results_close",
           "results_fetch", "results_init", "results_voted",
           "share_load", "share_close", "list_load", "list_fetch",
           "list_reply", "status_update", "status_load",
           "status_fetch", "status_publish", "delete_doc",
           "delete_votes"}

MemType == [pc : Labels, client : {"there", "left"},
            who : Voters \union {NoVoter}, opt : Options,
            status : Statuses, snap : Counts, counts : Counts,
            idx : 1..(NumOptions + 1), attempt : {1, 2}]

StoresOK ==
    /\ poll \in {"none", "live", "deleted"} /\ status \in Statuses
    /\ expired \in BOOLEAN /\ docVotes \in Counts
    /\ votes \subseteq Ballots /\ serial \in [Voters -> Nat]
    /\ index \in {"pending", "built", "failed"}
    /\ fields \subseteq Options /\ tally \in Counts
    /\ ttl \in {"none", "set", "touched"}
    /\ event \in [status : Statuses, counts : Counts]
    /\ announced \in BOOLEAN /\ thanked \subseteq Voters

(* Every variable has its type: in particular the documents of the votes   *)
(* collection name a voter and an option of the poll, and only voters are  *)
(* shown "already voted".                                                  *)
TypeOK == StoresOK /\ local \in [Handlers -> MemType]

(* Whatever fails, the count that the poll document keeps for an option    *)
(* (CastVote: RecordVote, then UpdateOptionVoteCount) never exceeds the    *)
(* vote documents behind it, also while several votes are between the two  *)
(* calls.                                                                  *)
MongoNeverOverstates ==
    poll = "live" => \A o \in Options :
        docVotes[o] + Cardinality(Uncounted(o)) <= Cardinality(For(o))

(* Nor does the live tally of Redis (RecordVote, then HINCRBY, with the    *)
(* retry of CastVote and the HSETNX of stale copies by GetResults) exceed  *)
(* the recorded votes.                                                     *)
RedisNeverOverstates ==
    poll = "live" => \A o \in Options :
        tally[o] + Cardinality(Untallied(o)) <= Cardinality(For(o))

(* Without faults both counts are exact but for the votes in flight, and   *)
(* so equal to the recorded votes whenever no request is in flight.        *)
StoresAgree ==
    poll = "live" => \A o \in Options :
        /\ docVotes[o] + Cardinality(Uncounted(o)) = Cardinality(For(o))
        /\ tally[o] + Cardinality(Untallied(o)) = Cardinality(For(o))

(* A voter has at most one vote document, however many requests with the   *)
(* same voter token race between HasVoted and RecordVote.                  *)
OneVotePerVoter == \A r, s \in votes : r.voter = s.voter => r = s

(* No page overstates: what was published, what a vote or status event     *)
(* about to be published holds, and what the results page or the dashboard *)
(* is about to show, is covered by recorded votes.                         *)
ShownIsRecorded ==
    poll = "live" => \A o \in Options :
        /\ event.counts[o] <= Cardinality(For(o))
        /\ \A h \in Handlers : local[h].counts[o] <= Cardinality(For(o))

(* A browser that shows "already voted" belongs to a recorded vote.        *)
ThankedIsRecorded ==
    poll = "live" => \A v \in thanked : HasVoted(v)

(* The live tally never goes back, unless the whole hash is lost: HSETNX   *)
(* with an old copy of the document (InitPollVotes of a late GetResults)   *)
(* does not undo a HINCRBY.                                                *)
TallyMonotonic ==
    [][fields' # {} => \A o \in Options : tally'[o] >= tally[o]]_vars

(* A vote document is neither changed nor removed while its poll exists.   *)
VotesAreKept == [][poll' = "live" => votes \subseteq votes']_vars

(* After the poll is closed, expired or deleted no further request gets    *)
(* past the checks of CastVote; those already past them may still record.  *)
InFlight == {h \in Handlers : local[h].pc \in {"vote_check", "vote_record"}}
Shut     == poll = "deleted" \/ status = "closed" \/ expired
ShutKeepsOut == [][Shut => InFlight' \subseteq InFlight]_vars

(* The pages take a request of the owner for one step (OwnedPolls), though *)
(* it is many calls and others run between them: the document of the poll  *)
(* is inserted once, its status changes only while it is there, and it is  *)
(* deleted for good, whatever a slow status change or closing of an        *)
(* expired poll writes after DeletePoll.                                   *)
OneStepRequests ==
    [][\/ poll = "none" /\ poll' = "live" /\ status' = "active"
       \/ poll = "live" /\ poll' = "live"
       \/ poll = "live" /\ poll' = "deleted" /\ status' = status]_<<poll, status>>

(* How many steps a request has yet to come at most: what follows its      *)
(* label, the rest of a pipeline, and the detour over InitPollVotes that   *)
(* CastVote and GetResults make once, when a call to Redis fails.          *)
Ahead == [idle |-> 0,
          create_insert |-> NumOptions + 3, create_init |-> 1, create_reply |-> 1,
          vote_load |-> 7, vote_close |-> 1, vote_check |-> 6, vote_record |-> 5,
          vote_count |-> 4, vote_incr |-> 3, vote_fetch |-> 2, vote_init |-> 3,
          vote_publish |-> 1, results_load |-> 4, results_close |-> 3,
          results_fetch |-> 2, results_init |-> 2, results_voted |-> 1,
          share_load |-> 2, share_close |-> 1, list_load |-> 3, list_fetch |-> 2,
          list_reply |-> 1, status_update |-> 4, status_load |-> 3,
          status_fetch |-> 2, status_publish |-> 1, delete_doc |-> 2, delete_votes |-> 1]

BeforeDetour == {"vote_load", "vote_check", "vote_record", "vote_count", "vote_incr",
                 "vote_fetch", "results_load", "results_close", "results_fetch"}

Detour(mem) ==
    IF mem.pc \in DOMAIN AfterInit THEN NumOptions + 2 - mem.idx
    ELSE IF mem.pc \in BeforeDetour /\ mem.attempt = 1 THEN NumOptions + 3 ELSE 0

StepsLeft(h) == Ahead[local[h].pc] + Detour(local[h])

(* The retries of CastVote and GetResults end: every step of a request     *)
(* leaves fewer, whichever calls fail, time out or are cut, and no other   *)
(* request, crash or loss of the hash gives it more.                       *)
CallsRunOut ==
    [][\A h \in Handlers :
         /\ ~At(h, "idle") => StepsLeft(h)' <= StepsLeft(h)
         /\ Step(h) => StepsLeft(h)' < StepsLeft(h)]_vars

(* Every request is answered, even when calls to Redis fail: the retries   *)
(* of CastVote and GetResults end.                                         *)
EveryRequestAnswered == \A h \in Handlers : ~At(h, "idle") ~> At(h, "idle")

(* The promise of Ballot, with a vote document as the ballot and HINCRBY   *)
(* as its counting.                                                        *)
Promise == INSTANCE Ballot WITH cast <- votes, void <- (poll = "deleted")
KeepsPromise       == Promise!Spec
EveryBallotCounted == Promise!EveryBallotCounted
=============================================================================
