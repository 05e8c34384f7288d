# LivePoll: specifications, checks and proofs

LivePoll lets a signed-in owner create a poll, share its link, and watch the
votes arrive.  The backend is a Go server (Gin) on MongoDB and Redis; the
frontend is a React application.  This directory models the parts of it in
which something can go wrong that a test would hardly reach: concurrent votes
over two stores without a common transaction, the WebSocket hub, the
reconnecting hook of the results page, the pages of voters and owners with their
late answers and stale copies, and accounts with their sessions.

## Inventory

| Part | Source | State | Operations | Modelled in |
|---|---|---|---|---|
| Vote handlers | `backend/controllers/vote_controller.go` | none of its own: what a request has read | `CastVote`, `GetResults` | `PollVoting` |
| Poll handlers | `backend/controllers/poll_controller.go` | as above | `CreatePoll`, `GetUserPolls`, `GetPollByShareCode`, `GetPollByID`, `UpdatePollStatus`, `DeletePoll` | `PollVoting` |
| MongoDB repository | `backend/repository/mongo_repo.go` | poll documents with vote counts, vote documents, unique indexes, the connection | one function per call | `PollVoting`, `Accounts`; of the connection only what others see |
| Redis repository | `backend/repository/redis_repo.go` | hash `poll:<id>:votes` with a TTL, channel `poll:<id>:updates` | `InitPollVotes`, `IncrementVote`, `GetPollVotes`, `PublishVoteUpdate`, `SubscribePollUpdates` | `PollVoting`, `Hub` |
| WebSocket hub | `backend/websocket/hub.go`, `client.go` | connections per poll, one Redis subscription per watched poll, a bounded channel per connection | `Run` (register, unregister, broadcast), `ServeWs`, `ReadPump`, `WritePump` | `Hub` |
| Live hook | `frontend/src/hooks/usePollLive.js` | sockets, timers, two refs, a flag | `connect`, the effect and its cleanup, four socket handlers | `LiveHook` |
| Results page | `frontend/src/pages/PollResults.jsx` | a copy of the results, flags | fetch, live update, toggle | `LiveResults`, over `LiveHook` |
| Voting page | `frontend/src/pages/PublicPoll.jsx`, `services/voter.js`, the join box of `Home.jsx` | the poll shown, the option chosen, flags; the voter token of the browser | load, select, submit, redirect; visit, history, reload | `VotePage`; in `PollVoting` only `thanked` |
| Poll form | `frontend/src/pages/CreatePoll.jsx` | texts, flags | edit, add and remove options, submit | `PollForm`, over `OwnedPolls` |
| Dashboard | `frontend/src/pages/Dashboard.jsx` | the list of polls, flags | fetch, toggle, delete | `Dashboard`, over `OwnedPolls` |
| Accounts and session | `auth_controller.go`, `middleware/auth.go`, `App.jsx`, `Login.jsx`, `Signup.jsx`, `Navbar.jsx` | user documents and their index; token in localStorage, shared by the tabs of a browser; the user state of each tab | signup, login, me, start of a tab, routes, logout | `Accounts` |
| Client of the API | `services/api.js` | none | requests | in every page: a request that is served, refused, not reached, or served without a reply |
| Routes, configuration, deployment | `routes.go`, `config.go`, `main.go`, `docker-entrypoint.sh` | none | start, restart | environment of `PollVoting` |

How they interact.  A browser sends HTTP requests; every request is a goroutine
that calls MongoDB and Redis one call after the other, under a context that is
cancelled when the client leaves.  `CastVote` checks the poll, inserts a vote
document, increments the count in the poll document, increments the Redis hash,
reads it back and publishes the counts.  The hub of each server receives what is
published through one Redis subscription per watched poll and hands it to the
channel of every connection.  The hook of the results page holds that connection
and makes a new one when it breaks; the page merges what comes over it into the
copy that it fetched.  The router mounts one page per tab at a time; a page that
is left leaves its requests on their way, and their callbacks find no page.

What makes it hard: no two of these steps are atomic; any call can fail, or take
effect and still report an error; a client can leave, a server restart and the
hash expire between any two; most errors are ignored.  In a page, every `await`
is a point at which other clicks, answers and messages run, and what it continues
with is the state of the render in which it began.

What makes each part correct: the stores agree with the votes recorded, a voter
has one vote, and a page never shows more than was recorded (`PollVoting`); a
vote is counted exactly once (`Ballot`); the server does not panic, subscriptions
follow the watched polls, messages are not duplicated and goroutines end (`Hub`);
timers do not multiply and do not die out (`LiveHook`); what a page shows is
current but for named races, and it never forgets who looks at it
(`LiveResults`); a browser has one vote per poll and is thanked only for a vote
(`VotePage`); the form makes one poll, and sends
only what the backend accepts (`PollForm`); the list shows only what was stored
(`Dashboard`); a mailbox has one
account, and a browser is only ever signed in to accounts whose password it gave
(`Accounts`).

## Modules

* `Ballot` says what a poll promises, with three variables: ballots are cast,
  each is counted at most once (`Count` never passes the ballots cast), and in the
  end exactly once, unless the owner voids the poll.
* `PollVoting` is the life of one poll in the backend.  Each call to a store is
  one action with everything that the handler does until its next call:
  `VoteLoad`, `VoteCheck`, `VoteRecord`, `VoteCount`, `VoteIncr`, `VoteFetch`,
  `VotePublish` are `CastVote`; `ResultsLoad`, `ResultsFetch`, `ResultsVoted` are
  `GetResults`; `InitPollVotes` is the pipeline that three callers share, one
  command per step, since Redis does not run a pipeline as a transaction.
  `local[h]` is what request `h` has read: copies of the counts (`snap`,
  `counts`), the status it loaded, the attempt of `IncrementVote`, and whether
  its client is still there.  The outcome of a call is `ok`, `failed` (no
  effect), `lost` (effect, but an error), or `cut` (the client leaves during it;
  the driver then reports an error although the call took effect).  `Env` names
  the events of the environment that a run allows.
* `PollVotingProofs` and `PollPromiseProofs` hold the proofs about `PollVoting`.
* `Hub` is `Hub.Run`, a forwarder per subscription, and the two pumps of a
  connection.  `Register`, `Unregister` and `Broadcast` are channels without a
  buffer that only `Run` receives from, so a send and the body of its case are
  one action.  A subscription is an element of `subs`, with its state at Redis
  (pending, active, closed), what it has `received` (history) and what of that its
  forwarder still holds in its `queue`; after `Close` the forwarder drains them,
  possibly into the viewers of a newer subscription of the same poll, and `Run`
  takes from the two forwarders in any order.
* `HubProofs` holds the proofs about `Hub`.
* `LiveHook` is one visit of the results page.  `effect` lists the runs of the
  effect; a socket knows the run in whose closure it was made; `wsRef` and
  `timerRef` are shared by all of them, as in the code.
* `Accounts` is signup, login and `getMe`, from the forms to the users collection
  and back.  A request is a record that goes through the stages of its handler:
  `SignupLookup` and `SignupInsert` are the two database calls of `Signup`,
  between which other signups run; `LoginFind` is the one of `Login`, and may
  return any account that matches, by its address or by its name, and a name may
  be anything, an address of another account too; an error of any kind is
  `HandlerFails`.
  `Granted` is the page's code after `await`, which stores the token and shows
  the user wherever the tab is by then.  `Open`, `MeSucceeds` and `MeFails` are
  the start-up effect of `App.jsx`, `Visit` its two route guards.  `writer` and
  `given` are history variables for the properties.
* `AccountsProofs` holds the proofs about `Accounts`.
* `LiveHookProofs` holds the proofs about `LiveHook`.
* `LiveResults` extends `LiveHook` with what the page shows.  Of the backend it
  has the votes in the hash (`tally`), every status that the poll has had for its
  readers (`log`), the clock (`expired`) and the handlers under way (`calls`): a
  vote loads the poll with its status, is counted whatever the status is by then,
  perhaps twice (`VoteRetried`), reads the counts and publishes them with the status
  that it loaded; a change of status is stored, then the counts are read, then
  published; any of them may end before it publishes (`Dropped`).  `Expire` closes
  the poll and publishes nothing, and a poll that the owner opens after it expired
  is announced as open and closed at once.  A copy of the results holds a number of
  votes and an index of `log`, and of two copies either may be the newer in each
  field.  `joined` are the sockets that the hub serves and `inbox` their messages,
  in order, as a subscription of `Hub` delivers them.  `FetchLoads` and `FetchReads`
  are the two reads of `GetResults`.  `Hooked(Step)` is a step of the hook with
  what it does to the inboxes; `Fetched`, `Deliver`, `Click`, `ToggleServed` and
  `ToggleEnds` are the fetch, the live update and the toggle.  `raced` is a history
  variable: the fields in which a race has left the page behind, each until the
  page has the newest of it again.
* `LiveResultsProofs` holds the proofs about `LiveResults`.
* `VotePage` is the voting page in the tabs of one browser.  A visit mounts the
  page, a jump of the history changes its poll without mounting it again, as
  React Router does; `mount` tells the callbacks of one mount from those of
  another.  `ResultsAnswered` and `PollAnswered` are the two requests of
  `loadPoll`.  `Submit` sends a vote; `PollChecked`, `VoteSought` and then `Recorded`
  or `NotRecorded` are the calls of `CastVote` that decide about it, between which
  other requests of the browser run; `ConnectionLost` tells the page of an error
  while the handler may go on; `VoteAnswered` is the page's code after `await`, and
  `Redirect` the timer that nobody cancels.  The unique index is there from the
  start, is built by `EnsureIndexes` at any time at which there are no duplicates,
  or never.  `Orphan` is the mount of what outlived its document.
* `VotePageProofs` holds the proofs about `VotePage`.
* `OwnedPolls` is the backend of one owner, one step per request.  `was` is the
  history of every status.
* `PollForm` is the form and, in `Acceptable`, the checks of `CreatePoll` in the
  backend.  A text is a word with what `trim` and `toLowerCase` remove from it.
* `Dashboard` is the list.  A call keeps in `view` the list of the render in which
  it was clicked, as the closure of `handleToggleStatus` and `handleDelete` does.
  `disturbed` is a history variable that names all that may make the list wrong.
* `OwnerTab` puts the form and the dashboard into one tab, over the same polls.
* `OwnerTabProofs` holds the proofs about `PollForm` and `OwnerTab`.
* `MCPollVoting`, `MCHub`, `MCLiveHook`, `MCLiveResults`, `MCVotePage`,
  `MCPollForm`, `MCOwnerTab`, `MCAccounts` are the modules that the checks run.

How they compose: `PollVoting` implements `Ballot`; `LiveResults` is `LiveHook`
with the page around it, and implements it; `OwnerTab` is `PollForm` and
`Dashboard` over `OwnedPolls`.  `VotePage`
and `LiveResults` take from the handlers the calls that matter to their page, one
step each, and leave out the others that `PollVoting` has; requests that only read
are one step in `VotePage`, and the requests of the owner are one step in
`OwnedPolls`, which `OneStepRequests` of `PollVoting` justifies.

Operators after a comment "a mistake" are not part of a specification: each is a
plausible error of the operator below it, against which a property is tried.

## Checks

| Run | Instance | Shows |
|---|---|---|
| `owner` | 2 handlers, 2 voters, 2 options, every operation, a poll that expires | `StoresAgree`: both counts are exact up to the votes in flight; `OneVotePerVoter`; `ShownIsRecorded`; `VotesAreKept`; `ShutKeepsOut`: no request passes the checks once the poll is closed, expired or deleted |
| `gone` | clients that leave, a server that crashes; 1 option | `RedisNeverOverstates`, `ThankedIsRecorded`, `CallsRunOut`: each step of a request leaves it fewer; `EveryRequestAnswered` |
| `faults` | MongoDB and Redis calls that fail with and without effect, early voters, TTL, restarts with loss of Redis; 1 option | `MongoNeverOverstates`, `TallyMonotonic` |
| `promise` | no faults, the unique index built late or not at all | `PollVoting` implements `Ballot` (`KeepsPromise`), and `EveryBallotCounted` |
| `hub` | 2 connections of a poll, channels of 1, 3 messages, fair goroutines | `NeverPanics`, `SubscribedIffWatched`, `AtMostOnce`; `Unbroken`: with two forwarders of a poll only a closed subscription brings an older message after a newer one, and of what one subscription received nothing is missing in between; `NothingSkipped`: what a forwarder holds for a member is not lost on its way there; `ConnectionsEnd`, `Delivered` |
| `hook` | a visit by share code or id, 4 broken sockets | `OneChainEach`, `KeepsTrying`, `ConnectedIsTrue`, `ConnectsAgain` |
| `live` | a visit by id with 4 events, at most 2 votes or status changes, 2 clicks of the owner and 1 break; or one by share code, whose socket is closed and made again when the results come, with 1 of each | `CurrentUnlessRaced`: at rest the page is right in each field, but for the races that `raced` names; `KnowsItsViewer` |
| `vote_page` | 2 tabs, 2 polls, 3 visits and jumps, 2 votes sent, 1 further event of any kind, the index there, late or never | `OneVotePerBrowser`, `ThanksForAVote`, `BusyIffSent`, `RedirectsAfterVote`, `SpinnerHasALoad` |
| `form` | 2 or 3 options, 4 texts, 2 polls, 2 requests | `SentIsAcceptable`: whatever is typed, what the form sends passes the backend; `OnePollPerForm` |
| `owner_tab` | the form and the dashboard, 3 polls, 2 clicks, 1 request of the form, 1 change from elsewhere | `ShownWasStored`; `AgreesUnlessDisturbed`: at rest the list is what is stored, but for what `disturbed` names |
| `accounts` | 2 tabs of one browser and 1 of another, 2 mailboxes, names that may be either address, 2 passwords, 2 requests, 1 where an account is called like an address, a new database or one with 2 accounts of any names | `OneAccountPerMail`, `SessionIsEarned`, `WriterAgrees`; `OnlyANameShadows`: the right password for an address is refused only while another account has the address for its name |

`CurrentUnlessRaced` and `AgreesUnlessDisturbed` say that the list of ways to be
wrong is complete.  The ways of the results page are in the code.  A copy is
written over a newer one: by the answer of the fetch over a live update that came
before (`PollResults.jsx:33`), by the toggle, which writes back the copy of the
click (`:79`), and by messages that were published in another order than their
counts and statuses were read (`vote_controller.go:156`, `poll_controller.go:288`),
such as a vote that announces the "active" it loaded before a close.  A change is
not announced: the publication fails, or a call before it, and the error is
dropped; or it is the clock that closes the poll (`vote_controller.go:77`, `:192`,
`poll_controller.go:195`).  Counts that cannot be read are taken for 0.  A message
is published before any socket of the page has joined, or is lost with a socket.
A later message that brings the newest of a field repairs it.  The dashboard
writes back the list of the click (`Dashboard.jsx:56`, `:70`).  Every one of them
can be reached in the runs.

No run lists the type invariants `TypeOK`, `ResultsTypeOK`, `FormTypeOK` and
`DashTypeOK`, nor `MembersAreServed`, which `NeverPanics` rests on, nor
`OneStepRequests`, by which a poll is made once and deleted for good, also when a
status change comes after `DeletePoll`: they are proved for all instances (see
Proofs).

One run, `leak`, ends in a counterexample to what a document says: the
subscription of a poll is to end with its last viewer (`README.md:408` of the
repository), but a last viewer that `Broadcast` drops, because its channel is
full, leaves the entry and the subscription.

Further disagreements with documents, comments or messages, seen while modelling
and not given a run of their own.

In the backend: two votes can read the hash in one order and publish in the
other, so that the last message lacks a vote until the next one
(`vote_controller.go:156`); the retry of `IncrementVote` is for a hash that was
not initialised, but HINCRBY that succeeds and HGETALL that fails makes it count
twice (`vote_controller.go:122`); a client that leaves after its vote was recorded
cuts the calls that count it, and is told on its next visit that it voted; a vote
in flight is inserted after `DeletePoll` has removed the votes; the hash is said to expire after 30 days of inactivity, but no
vote renews its TTL (`redis_repo.go:65`); a status change can be announced after a later one
(`poll_controller.go:288`); a vote past the status check is recorded on a poll
closed meanwhile (`vote_controller.go:114`); after the loss of the hash, HINCRBY
makes a hash with one field (`:122`) and the fallback of `GetResults` can restore
a count that is then added again (`:199`); `DeletePoll` leaves the hash; any error
of `RecordVote` is reported as a duplicate vote (`:114`); `GetUserPolls` does not
close expired polls; `GetPollByShareCode` puts the code in upper case
(`poll_controller.go:175`) and `CastVote` and `GetResults` do not
(`vote_controller.go:55`, `:176`), so a link in lower case shows a poll that
cannot be voted in.

In the pages: a cleanup of the hook
closes a socket whose close event then reconnects, so a page that was left keeps
a connection, and the flag can say "Reconnecting" while the new socket is open;
every visit by share code closes its first socket when the results arrive;
"all connected devices watching the poll instantly see the live vote counts"
(`README.md:21`) does not hold of a device between its fetch and its subscription;
an error of the first fetch stays for good, even when live updates arrive
(`PollResults.jsx:94`); a failure of `getResults` is ignored
(`PublicPoll.jsx:24`), so a browser that has voted may be shown the form again;
after a jump of the history an option chosen in one poll can be cast in another
(`VotePage` does this, and no property excludes it), since all polls number their options from `opt_1` (`poll_controller.go:92`) and
the page resets nothing (`PublicPoll.jsx:43`); the redirect after a vote is not
cancelled (`:73`) and takes the tab away from wherever it is by then; a lost reply
to `createPoll` makes the owner create the poll twice; the form shows a limit of
500 characters (`CreatePoll.jsx:166`) that only the backend enforces; the dashboard
is said to be "in real-time" (`Dashboard.jsx:90`) and reads its list once, and
after a failed read it also says "No Polls Created Yet" (`:152`).

Of accounts: two accounts can have one name, and a login by it may then find the other one and
refuse the right password (`mongo_repo.go:204`, while `user.go:24` says that an
email or a username is accepted); a name may also be the address of another account
(`auth_controller.go:37`), whose right password is then refused when the lookup
returns the one with the name; `getMe` that fails for any reason, also because
the database is still connecting, removes the token, and it may be a newer one of
another tab (`App.jsx:50`); signups that come before the index is built
(`mongo_repo.go:80`) can give a mailbox two accounts, and the index is then
silently never built.  `OneAccountPerMail` therefore speaks of a database that
has its index, and so does `OneVotePerBrowser`: two tabs that vote before the index
is there both pass `HasVoted`, and it is then never built.

### Bounds

* Two handlers are two requests at a time, with any number one after the other,
  since a slot is used again.  Every hazard listed is between two requests, or a
  request and the environment.
* Two voters: a voter against itself (two tabs) and against another.  Each can
  vote once, which bounds the tallies; where the index may be missing the number
  of requests past `HasVoted` bounds them.
* Two options, so that a vote for one could disturb the other; one option in the
  runs `gone` and `faults`, whose properties are about one option at a time.
* `Hub`: two connections to one poll, each made once.  Polls share only `Run`, whose
  steps are each about one of them; `HubProofs` has any number.  A channel of
  capacity 1 overflows with the second message; `MaxMessages` bounds `Publish`, and
  three let two subscriptions of a poll receive different ones, of which the older
  come last, or a message lie between two others.  Two connections are enough for
  two subscriptions of a poll, one draining.
* `LiveHook`: `MaxBreaks` bounds the sockets that break; they and the two effect
  runs and cleanups bound all sockets (`TypeOK`, proved).
* `LiveResults`: `MaxChanges` bounds votes and status changes begun, those of the
  toggle included: two can overtake each other, or one the expiry.  `MaxClicks` is
  two, so that toggles overlap.  One break is enough for a socket that goes with
  messages and one that joins late.  `FewEvents`, a `CONSTRAINT`, bounds them
  together: four in a visit by id, and one of each kind in a visit by share code,
  which makes a socket more.
* `VotePage`: `MaxVisits` bounds visits and jumps of all tabs: three let one tab
  vote, jump and be overtaken, or two tabs vote in one poll while another visit
  is loading.  `MaxBallots` is two: two votes race, or one is sent again.
  `MaxEvents` is the number of other events of the environment in a behaviour, one
  of any kind; the properties are proved for any number.  One option, since no
  property tells them apart.
* `PollForm`: `MaxPosts` bounds the requests: a lost reply and a second try.  The
  limits of 2 and 10 options are constants, here 2 and 3.  `Texts` has the first
  default in capitals with blanks, an empty text and blanks alone.
* `Dashboard`: `MaxClicks` is two, which overlap or outlive a page; one change
  from elsewhere.  The form in this run sends what it opens with.
* `Accounts`: `MaxRequests` bounds the signups and logins sent, in all tabs
  together.  Two signups race for a mailbox, a signup races a login, and two
  answers race a logout or a reload; a login between accounts of one name needs
  only one request, because `Databases` has a start with two of them.  Those
  accounts have every combination of names, which may be addresses; where they
  are, or a signup is about to make such an account, one request is sent
  (`FewForAddresses`, a `CONSTRAINT`), since the login that is shadowed is one
  read.

`SYMMETRY` permutes handlers and voters in `owner` and `faults`, mailboxes,
passwords and the tabs of one browser in `accounts`, tabs and polls in `vote_page`,
and polls in `form` and `owner_tab`; these runs check no liveness.
`CHECK_DEADLOCK FALSE` is set where the system can stop: all connections have
ended and no messages are left, the page has been left, the bounds on visits,
clicks or requests are reached and nothing is on its way, or a crash or a lost
reply keeps the creator from ever sharing the link.

### Fairness

* `PollVoting`: weak fairness of `Step(h)`.  Every driver call returns, if only
  with a timeout, and the Go scheduler runs every goroutine.  Nobody has to send
  a request; no environment event is fair.
* `Hub`: weak fairness of the goroutines.  Go's `select` picks among ready cases
  at random, so no ready sender waits for ever.  A reader or writer notices a
  closed socket by an error, the read deadline of 60 s or a ping that fails.
  Nothing makes Redis confirm a subscription, and nothing makes a peer stay.
* `LiveHook`: React runs an effect that is due, timers fire, a closed socket
  reports it, and a connection that is not refused opens.  Breaks are not fair
  and bounded, so `ConnectsAgain` speaks of a network that comes to rest.  That
  the fairness, stated for `MaxSockets` sockets, is of all of them is `TypeOK`.
* `LiveResults`, `VotePage`, `PollForm` and `OwnerTab` state no fairness: what must
  end there (a spinner, a disabled button) is stated as a safety property, that
  something which will end it is on its way.

## Proofs

All proofs are for any constants that satisfy the assumptions of the modules.

`PollVotingProofs`:

* `TypeCorrect`: the type invariant.  `TypeInv` strengthens it with `HasVoter`:
  a handler at a label of a vote or of results works for a voter, which
  `VoteRecord` needs for its document to be one of a voter.
* `OneVoteEach`: at most one vote document per voter, if the index is built
  before the first request (`"late_index" \notin Env`); `UniqueInv` adds that
  the index is then always there.  All other faults are allowed.
* `DocumentNeverOverstates`: in all environments, `docVotes[o]` plus the
  handlers between `RecordVote` and `$inc` is at most the number of vote
  documents for `o`.  The inductive invariant `MongoInv` needs the vote
  documents to be finite and distinct: each carries a serial below the counter
  of its voter, so that an insert really adds one.  `RecordKeepsCount` and
  `CountKeepsCount` are the two steps that matter; every other step either
  leaves all three alone (`PlainStep`) or makes the claim easier.

`PollPromiseProofs`, where each theorem names the faults it excludes:

* `TallyRises`, with every fault: `Unset`, that an option without a field has no
  votes, makes an HSETNX harmless.
* `VotesKept` and `ShutOut`, with every fault: votes are deleted only by handlers
  that `DeleteDoc` has been before, and `VoteCheck` is entered from `VoteLoad`
  alone, whose check is on what the database says at that step.  `StepLeads` says
  where a handler goes from each label, and `StepIs` which step a label allows;
  the proofs below rest on both.
* `ThankedAreRecorded`, if no MongoDB call fails without effect (`"mongo_error"
  \notin Env`): such a failure of `RecordVote` is answered like a duplicate.
  `Earned` adds that a handler past `RecordVote` works for one who has voted.
* `TallyNeverOverstates`, `ImplementsBallot` and `ShownAreRecorded` assume
  `Reliable`: no call to Redis fails, its hash is not lost or expired, and nobody
  votes before the link is handed out.  All failures of MongoDB, clients that
  leave, crashes of the server, expiry and a late index are allowed.  Without
  the assumption they are false (see the disagreements above).  `HashOK` is why:
  the hash is complete when the link is out, so no HSETNX restores an old count,
  and a second attempt of `IncrementVote` is made only when the client has left,
  and then does nothing.  `ImplementsBallot` shows a step to be one of `Ballot` or
  a stutter, with the same invariant: a tally that grows stays within the votes.
  `ShownInv` says of every count that a handler has read, in the hash or in the
  document, that the votes cover it; they still do later, since `For(o)` grows.
* `RequestsAreOneStep`, with every fault: from `CreateOK`, by which a handler about
  to insert the poll is the only one and finds none.  It is what `OwnedPolls` and
  the pages over it assume: of the calls of a request one changes the document.
* `RequestsRunOut`, with every fault: `StepsLeft` of a request falls with each of
  its steps.  `DetourOnce` is why: `InitPollVotes` is entered in the first attempt
  alone, and ends it.  With the fairness below, `EveryRequestAnswered` follows; that
  last step is beyond the prover and is left to TLC.
* `StoresDoAgree` assumes `Faultless`: of all events only expiry and a late index.
  `Exact` is the other direction of the two bounds: no vote is left out.

`HubProofs`:

* `HubNeverPanics`, `OneSubscription`, `MembersServed`: the conjuncts of one
  inductive invariant, `HubInv`.  They need each other: that `Unregister` closes
  an open channel rests on members having open channels, and that stopping the
  subscription of a poll stops the right one on the entry having exactly one.
  `FreshIsOpen` is for `Register`.
* `TypeCorrect`, `SentOnce`, `SentUnbroken`: from `StreamInv`.  `Held` says that no
  message is held by two forwarders, which rests on `SubscribedIffWatched`, since a
  message reaches all active subscriptions of its poll.  `Gone` says that what a
  connection was sent is in no queue any more; so it does not matter whose
  forwarder serves it, the draining one of a closed subscription included.
  `Origin` orders the sources: a queue is the last that its subscription received,
  no message came in on two, and of two subscriptions of a poll the older one is
  closed and has received only older messages.  `Linked` says of every connection
  and subscription that what it was sent is in order, older than what the forwarder
  still holds, and, while it is a member, without a gap from the first on.  Most
  steps are settled by `CalmStep`; `PublishKeeps` and `BroadcastKeeps` are the two
  that move messages, and `StreamFacts` makes a write to the socket a stutter.
* `NoneSkipped`, from the same: a step is `Calm`, adds to queues (`Received`), or
  moves the head of one queue to the streams of all members that are not full
  (`HandedOn`), and `Broadcast` drops the full ones.  What is left to TLC of
  `Delivered` is that forwarders and writers go on.

`AccountsProofs`:

* `TypeCorrect`: `TypeInv` adds `FormOK`, what a request carries at each stage: a
  signup about to insert has an address and a name, an answer has an account.
* `OneAccount`: `Unique` says that stored addresses are distinct when there is an
  index; stored addresses are in lower case (`LowerOfStored`), so distinct ones
  are of distinct mailboxes.
* `SessionsAreEarned`: `Sessions` adds to the property the token that a starting
  tab has sent, and that a request carries a password given in its browser.
  `AlwaysKept` is what every step preserves: accounts stay as they are, and
  nothing that was given is forgotten.
* `WriterIsRight`: `Agrees` adds that a starting tab that wrote the token last has
  sent that token, and that a tab without a page shows nobody.  `OthersAgree`
  settles all tabs but the one that acts.
* `NoOtherShadow`: from `Unique`.  An account that a login with an address may find
  has the address or has it for its name (`OnlyMatch`), and there is one of the
  former; so without one of the latter the answer is of the right account
  (`RightIsGranted`).  Nothing is assumed of names.

`LiveHookProofs`:

* `TypeCorrect`, `OneChain`, `AlwaysTries`, `FlagIsTrue`: from one invariant,
  `HookInv`.  `LastKey` bounds the effect runs by two, since the poll id is the
  last key a page gets.  `Single` is `OneChainEach` without cardinalities.  `Paid`
  counts: sockets made and still to be made are at most effect runs, breaks and
  cleanups, which gives the bound of `TypeOK`.

`LiveResultsProofs`:

* `ImplementsHook`: `LiveSpec` implies `Spec` of `LiveHook`, so that all of the
  theorems above hold of the page.
* `ResultsTypeCorrect` and `ViewerKnown`: `Knowing` adds to `KnowsItsViewer` that
  every toggle under way keeps a copy that knew the viewer, and that a page that
  has fetched without an error has results.  It needs the bound on sockets, for
  the messages of each.
* `NoOtherRace`: by `ResultsTypeOK` no copy anywhere is ahead of the poll.
  `Whereabouts` says of each field where its newest value is: once the fetch is
  answered it is with a handler that will publish it, in an inbox, in an answer
  that is on its way, or on the page, or else the field is in `raced`.  A page at
  rest has none of the former, so what is not current has been raced.
  `CopyWritten` is the step that matters, the write of an older copy over the
  page's; the lemmas that end in `Where` settle the others, one for each step of
  the backend and of the page.

`VotePageProofs`:

* All properties of the run `vote_page`, for any tabs, polls, visits, votes and
  events.  `OneVoteEach` rests on the token, which never changes once it is made
  (`OneToken`), so that every second vote in a poll is one that the index refuses
  (`NewVote`), and on an index being built only where it would hold.  The check of
  `HasVoted` is not needed for it, and without the index does not give it.
* `ThankedForAVote` and `RedirectedAfterVote`: `Told` says what a handler has
  answered, whether its page is still there or not; `RightPoll` that what answers a
  page that did not jump is about its poll.
* `BusyWhileSent` rests on submissions of one mount excluding each other, and
  `SpinnerEnds` on the last jump of a page being the one whose load is out
  (`Going`).

`OwnerTabProofs`:

* `OnePollEach` and `OnePollInTab`: `OneAtATime` says that a mount has at most one
  request out, namely when the button is disabled, and `MadeOrLost` what it has
  made at each point.  A new poll is none of the old ones because of `was`.
* `NothingInvented`: `DashInv` says of every list that is somewhere, in the page,
  in an answer or kept by a click, that it was stored.  The two pages share only
  that `was` grows (`Grows`), so each invariant survives the other's steps.
* `FormTyping`, `SentAccepted` and `FormInTab`: `Kept`, what the filter of the form
  leaves, is a recursive function on the number of options looked at.  That it
  exists (`KeepsExists`), and that it only leaves trimmed texts that are not empty,
  and no more than there were (`KeptKeeps`, `KeptClean`), is by induction.  The
  library's induction takes a predicate, so it is made from sets: `LeastNumber`
  gives the least number at which a claim would fail, and `UpTo` that there is none.
* `NoOtherWayToBeWrong`: `Agreeing` says that, undisturbed, the list is what is
  stored in every poll but those with a call that was served and is not answered
  yet (`OnTheirWay`), and that a poll has one call of a mount at most.
* `DashTyping`: `Bounded`, with the types of calls that outlive their page.

What only TLC shows, on the instances above, is liveness: `EveryRequestAnswered`,
`EveryBallotCounted`, `ConnectionsEnd`, `Delivered` and `ConnectsAgain`.  The provers
reach neither ENABLED nor fairness.  The safety that the first and the fourth rest
on is proved (`RequestsRunOut`, `NoneSkipped`), and so is that of the last, that an
open page always has a socket or a timer (`AlwaysTries`).  Every other property of
the runs that pass is stated by a theorem.

## Not modelled

Percentages, figures, copying of links, toasts and their timers (`App.jsx:37`),
static files, CORS, the signature of
tokens (one that was not issued is refused), hashes of passwords (two are equal
only if the passwords are); the choice of an expiry in the form; texts that `trim` of
JavaScript and `TrimSpace` of Go, or their lower cases, treat differently;
`GetPollByID`, which only reads; the drawing of share codes; requests that the handlers refuse before a call to a store; the retries
that go-redis makes inside one command, and its dropping of messages for a reader
that is 60 s late; React's StrictMode, which runs effects twice in development
only; a results page that the history moves to another poll in place (`VotePage`
has this of the voting page); Redis running out of memory.
In `VotePage` the requests that only read, and `DeletePoll`, are one step, so that no
answer there is older than its delivery.  In `LiveResults` the poll is not deleted
and its hash is not lost (both are in `PollVoting`), `GetResults` that closes an
expired poll is `Expire`, and the order in which two subscriptions of the poll are
drained is left to `Hub`.  MongoDB is one copy with linearizable operations.

The connection to MongoDB (`connect`, `backgroundReconnect`, `Close`) is modelled
only by what others see of it: requests that are refused, indexes that come late
or not at all.  One goroutine at a time writes its fields, and `Close` is only
deferred in `main`, which never returns, so there is no interleaving to check.

## Plan

Done: `Ballot`, `PollVoting`, `Hub`, `LiveHook`, `LiveResults`, `VotePage`,
`OwnedPolls`, `PollForm`, `Dashboard`, `OwnerTab` and `Accounts`, with the proofs
listed above.
Left, in this order:

1. A jump of the history on the results page, which keeps the results and the key
   of the first poll (`PollResults.jsx:41`).
2. The handlers of `VotePage` and `LiveResults` as abstractions of `PollVoting`, as
   `OneStepRequests` is of the requests of the owner.
