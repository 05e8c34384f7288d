------------------------------ MODULE VotePage ------------------------------
(***************************************************************************)
(* The voting page (PublicPoll.jsx) in the tabs of one browser, with the   *)
(* voter token that the tabs share (voter.js), the join box of the home    *)
(* page, and the three endpoints the page calls: CastVote call by call,    *)
(* the two that only read each as one step.                                *)
(*                                                                         *)
(* A page is mounted by a visit and keeps its state when the history moves *)
(* it from one poll to another without unmounting it (a jump).  A callback *)
(* that was started by a mount sets the state of that mount only, but the  *)
(* redirect it schedules acts on the tab.  The backend numbers the options *)
(* of each poll from opt_1, so that polls have option ids in common.       *)
(***************************************************************************)
EXTENDS Integers, FiniteSets

CONSTANTS
    Tabs,        \* the tabs of the browser
    Polls,       \* polls, by share code
    Options,     \* option ids, the same in every poll
    None,        \* no poll, no option, no token
    Env,         \* what may happen: see Environment
    MaxVisits,   \* bound on visits and jumps of all tabs
    MaxBallots,  \* bound on votes sent
    MaxEvents    \* bound on the events of Env, but for jumps

Environment == {"jump", "status", "delete", "fail", "lost", "unsaved", "reload"}

ASSUME EnvAssumption == Env \subseteq Environment
ASSUME NoneAssumption == None \notin Polls \union Options
ASSUME BoundsAssumption == MaxVisits \in Nat /\ MaxBallots \in Nat /\ MaxEvents \in Nat

VARIABLES
    status,      \* of each poll in the backend: active, closed or gone
    votes,       \* vote documents of this browser
    unsaved,     \* polls whose insert of a vote failed (history)
    indexed,     \* the unique index on poll and voter is built
    token,       \* poll_voter_token in localStorage: its serial, or 0
    page,        \* the voting page of each tab, or Away
    history,     \* polls whose voting page the document of each tab has shown
    loads,       \* runs of loadPoll that have not ended
    ballots,     \* runs of handleVoteSubmit that have not ended
    redirects,   \* pending redirects of each tab: polls
    sent,        \* votes sent so far
    visits,      \* visits and jumps so far
    events       \* events of Env so far

backend == <<status, votes, unsaved, indexed>>
vars == <<backend, token, page, history, loads, ballots, redirects, sent, visits, events>>

(* A page that a visit has just mounted, and none.                         *)
Mounted(p, n) ==
    [mount |-> n, at |-> p, jumped |-> FALSE, poll |-> None, selected |-> None,
     loading |-> TRUE, submitting |-> FALSE, error |-> FALSE,
     voted |-> FALSE, expired |-> FALSE]

(* What is no mount of any page: of no page, and of a document that ended.  *)
Orphan == -1

Away == [Mounted(None, 0) EXCEPT !.loading = FALSE]

(* What the page renders.                                                  *)
Screen(g) ==
    IF g.mount = 0                      THEN "away"
    ELSE IF g.loading                   THEN "spinner"
    ELSE IF g.error /\ g.poll = None    THEN "not found"
    ELSE IF g.voted THEN "thanks" ELSE "form"

CanSelect(g) == Screen(g) = "form" /\ g.poll # None /\ ~g.expired

CanSubmit(g) == CanSelect(g) /\ g.selected # None /\ ~g.submitting

Init ==
    /\ status = [p \in Polls |-> "active"]
    /\ votes = {} /\ unsaved = {} /\ indexed \in BOOLEAN /\ token = 0
    /\ page = [t \in Tabs |-> Away]
    /\ history = [t \in Tabs |-> {}]
    /\ loads = {} /\ ballots = {}
    /\ redirects = [t \in Tabs |-> {}]
    /\ sent = 0 /\ visits = 0 /\ events = 0

(* One more event of kind e, or of none.                                   *)
Event(e) == e \in Env /\ events < MaxEvents /\ events' = events + 1

(* setState in a callback of mount m: nothing happens once it is unmounted. *)
Set(t, m, g) == IF page[t].mount = m THEN [page EXCEPT ![t] = g] ELSE page

(* getVoterToken: the token after a call.  A new one is never the same as  *)
(* another; it is made by the request of a visit.  A mistake: it is not    *)
(* stored.                                                                 *)
NewToken == visits + 1

VoterToken == IF token = 0 THEN visits + 1 ELSE token

-----------------------------------------------------------------------------
(* Visits.                                                                 *)

(* The effect: loadPoll starts with the request for the results.           *)
StartLoad(t, p, m) ==
    /\ visits < MaxVisits /\ visits' = visits + 1
    /\ token' = VoterToken
    /\ loads' = loads \union
         {[id |-> visits + 1, tab |-> t, mount |-> m, poll |-> p,
           token |-> token', stage |-> "results"]}
    /\ history' = [history EXCEPT ![t] = @ \union {p}]

(* A link, or the join box, which puts the code in upper case like those   *)
(* of the backend; the tab was on a page of another kind.                  *)
Visit(t, p) ==
    /\ Screen(page[t]) = "away"
    /\ StartLoad(t, p, visits + 1)
    /\ page' = [page EXCEPT ![t] = Mounted(p, visits + 1)]
    /\ UNCHANGED <<backend, ballots, redirects, sent, events>>

(* The history moves from one voting page to another: the effect runs      *)
(* again, and nothing else of the state is reset.                          *)
Jump(t, p) ==
    /\ "jump" \in Env /\ Screen(page[t]) # "away"
    /\ p \in history[t] \ {page[t].at}
    /\ StartLoad(t, p, page[t].mount)
    /\ page' = [page EXCEPT ![t] = [@ EXCEPT !.at = p, !.jumped = TRUE, !.loading = TRUE]]
    /\ UNCHANGED <<backend, ballots, redirects, sent, events>>

Leave(t) ==
    /\ Screen(page[t]) # "away"
    /\ page' = [page EXCEPT ![t] = Away]
    /\ UNCHANGED <<backend, token, history, loads, ballots, redirects, sent, visits, events>>

(* A handler or its reply: CastVote has loaded the poll, found no vote; or *)
(* it has answered.                                                        *)
Replies == {"ok", "conflict", "error"}

Answered(b) == b.stage \in Replies

(* The document ends, with all its callbacks; requests are on their way.   *)
Reload(t) ==
    /\ Event("reload") /\ history[t] # {}
    /\ page' = [page EXCEPT ![t] = Away]
    /\ history' = [history EXCEPT ![t] = {}]
    /\ loads' = {l \in loads : l.tab # t}
    /\ ballots' = {b \in ballots : b.tab # t} \union
         {[b EXCEPT !.mount = Orphan] : b \in {c \in ballots : c.tab = t /\ ~Answered(c)}}
    /\ redirects' = [redirects EXCEPT ![t] = {}]
    /\ UNCHANGED <<backend, token, sent, visits>>

-----------------------------------------------------------------------------
(* loadPoll: getResults, whose failure is ignored, then                    *)
(* getPollByShareCode.                                                     *)

HasVoted(k, p) == \E v \in votes : v.token = k /\ v.poll = p

Answers(p, ok) ==
    IF ok \/ status[p] = "gone" THEN ok = (status[p] # "gone") /\ UNCHANGED events
                               ELSE Event("fail")

ResultsAnswered(l, ok) ==
    /\ l.stage = "results" /\ Answers(l.poll, ok)
    /\ loads' = (loads \ {l}) \union {[l EXCEPT !.stage = "poll"]}
    /\ page' = IF ok /\ HasVoted(l.token, l.poll)
               THEN Set(l.tab, l.mount, [page[l.tab] EXCEPT !.voted = TRUE])
               ELSE page
    /\ UNCHANGED <<backend, token, history, ballots, redirects, sent, visits>>

(* Mistakes: the spinner is not taken away after an error; the poll is     *)
(* shown as open whatever its status.                                      *)
LoadedIfOk(g, l, ok) ==
    IF ok THEN [g EXCEPT !.poll = l.poll, !.loading = FALSE,
                         !.expired = @ \/ status[l.poll] # "active"]
          ELSE [g EXCEPT !.error = TRUE]

Loaded(g, l, ok) ==
    IF ok THEN [g EXCEPT !.poll = l.poll, !.loading = FALSE,
                         !.expired = @ \/ status[l.poll] # "active"]
          ELSE [g EXCEPT !.error = TRUE, !.loading = FALSE]

PollAnswered(l, ok) ==
    /\ l.stage = "poll" /\ Answers(l.poll, ok)
    /\ loads' = loads \ {l}
    /\ page' = Set(l.tab, l.mount, Loaded(page[l.tab], l, ok))
    /\ UNCHANGED <<backend, token, history, ballots, redirects, sent, visits>>

-----------------------------------------------------------------------------
(* handleVoteSubmit.                                                       *)

Select(t, o) ==
    /\ CanSelect(page[t]) /\ o # page[t].selected
    /\ page' = [page EXCEPT ![t] = [@ EXCEPT !.selected = o]]
    /\ UNCHANGED <<backend, token, history, loads, ballots, redirects, sent, visits, events>>

Submit(t) ==
    LET g == page[t] IN
    /\ CanSubmit(g) /\ sent < MaxBallots
    /\ sent' = sent + 1
    /\ token' = VoterToken
    /\ ballots' = ballots \union
         {[id |-> sent + 1, tab |-> t, mount |-> g.mount, poll |-> g.at,
           opt |-> g.selected, token |-> token', stage |-> "sent"]}
    /\ page' = [page EXCEPT ![t] = [@ EXCEPT !.submitting = TRUE, !.error = FALSE]]
    /\ UNCHANGED <<backend, history, loads, redirects, visits, events>>

-----------------------------------------------------------------------------
(* CastVote: the poll is loaded and checked, HasVoted asked, the vote      *)
(* inserted.  The poll may be closed or deleted, and another request of    *)
(* the browser may vote, between any two of these calls.                   *)

ToStage(b, r) == ballots' = (ballots \ {b}) \union {[b EXCEPT !.stage = r]}

(* GetPollByShareCode and the checks of the poll, or an error.             *)
PollChecked(b) ==
    /\ b.stage = "sent"
    /\ \/ status[b.poll] = "active" /\ ToStage(b, "loaded") /\ UNCHANGED events
       \/ status[b.poll] # "active" /\ ToStage(b, "error") /\ UNCHANGED events
       \/ status[b.poll] = "active" /\ ToStage(b, "error") /\ Event("fail")
    /\ UNCHANGED backend

VoteSought(b) ==
    /\ b.stage = "loaded"
    /\ \/ HasVoted(b.token, b.poll) /\ ToStage(b, "conflict") /\ UNCHANGED events
       \/ ~HasVoted(b.token, b.poll) /\ ToStage(b, "unvoted") /\ UNCHANGED events
       \/ ToStage(b, "error") /\ Event("fail")
    /\ UNCHANGED backend

Vote(b) == [id |-> b.id, token |-> b.token, poll |-> b.poll, opt |-> b.opt]

IndexRefuses(b) == indexed /\ HasVoted(b.token, b.poll)

(* RecordVote.  Any error of the insert is reported as a duplicate, also   *)
(* one after which the vote is there.                                      *)
Recorded(b) ==
    /\ b.stage = "unvoted" /\ ~IndexRefuses(b)
    /\ votes' = votes \union {Vote(b)}
    /\ \/ ToStage(b, "ok") /\ UNCHANGED events
       \/ ToStage(b, "conflict") /\ Event("unsaved")
    /\ UNCHANGED <<status, unsaved, indexed>>

NotRecorded(b) ==
    /\ b.stage = "unvoted"
    /\ ToStage(b, "conflict")
    /\ \/ IndexRefuses(b) /\ UNCHANGED <<unsaved, events>>
       \/ unsaved' = unsaved \union {b.poll} /\ Event("unsaved")
    /\ UNCHANGED <<status, votes, indexed>>

CastVote(b) ==
    /\ PollChecked(b) \/ VoteSought(b) \/ Recorded(b) \/ NotRecorded(b)
    /\ UNCHANGED <<token, page, history, loads, redirects, sent, visits>>

(* The connection breaks: the page is told of an error, and the handler,   *)
(* if it is not done, may go on.                                           *)
ConnectionLost(b) ==
    /\ b.mount # Orphan /\ b.stage # "error" /\ Event("lost")
    /\ ballots' = (ballots \ {b}) \union {[b EXCEPT !.stage = "error"]} \union
         (IF Answered(b) THEN {} ELSE {[b EXCEPT !.mount = Orphan]})
    /\ UNCHANGED <<backend, token, page, history, loads, redirects, sent, visits>>

(* A unique index cannot be built over duplicates, and ensureIndexes does  *)
(* not try again; an attempt that fails is one that does not come.         *)
EnsureIndexes ==
    /\ ~indexed /\ indexed' = TRUE
    /\ \A v, w \in votes : v.poll = w.poll /\ v.token = w.token => v = w
    /\ UNCHANGED <<status, votes, unsaved, token, page, history, loads, ballots,
                   redirects, sent, visits, events>>

(* Mistakes: the button stays disabled after an error; the page thanks as  *)
(* soon as it is not told of an error; and it redirects after any reply.   *)
StaysBusy(g, r) ==
    CASE r = "error" -> [g EXCEPT !.error = TRUE]
      [] OTHER       -> [g EXCEPT !.voted = TRUE, !.submitting = FALSE]

ThanksAnyway(g, r) == [g EXCEPT !.voted = TRUE, !.submitting = FALSE]

AlwaysRedirect(r) == TRUE

AfterReply(g, r) ==
    CASE r = "error" -> [g EXCEPT !.error = TRUE, !.submitting = FALSE]
      [] OTHER       -> [g EXCEPT !.voted = TRUE, !.submitting = FALSE]

Redirects(r) == r = "ok"

VoteAnswered(b) ==
    /\ Answered(b)
    /\ ballots' = ballots \ {b}
    /\ page' = Set(b.tab, b.mount, AfterReply(page[b.tab], b.stage))
    /\ redirects' = IF b.mount # Orphan /\ Redirects(b.stage)
                    THEN [redirects EXCEPT ![b.tab] = @ \union {b.poll}] ELSE redirects
    /\ UNCHANGED <<backend, token, history, loads, sent, visits, events>>

(* The timer of a vote fires, wherever its tab is by then.                 *)
Redirect(t, p) ==
    /\ p \in redirects[t]
    /\ redirects' = [redirects EXCEPT ![t] = @ \ {p}]
    /\ page' = [page EXCEPT ![t] = Away]
    /\ UNCHANGED <<backend, token, history, loads, ballots, sent, visits, events>>

-----------------------------------------------------------------------------
(* The owner and the clock close and reopen a poll; the owner deletes it.  *)

ChangeStatus(p, s) ==
    /\ Event("status") /\ status[p] # "gone" /\ s # status[p]
    /\ status' = [status EXCEPT ![p] = s]
    /\ UNCHANGED <<votes, unsaved, indexed, token, page, history, loads, ballots,
                   redirects, sent, visits>>

Delete(p) ==
    /\ Event("delete") /\ status[p] # "gone"
    /\ status' = [status EXCEPT ![p] = "gone"]
    /\ votes' = {v \in votes : v.poll # p}
    /\ UNCHANGED <<unsaved, indexed, token, page, history, loads, ballots,
                   redirects, sent, visits>>

-----------------------------------------------------------------------------
Next ==
    \/ \E t \in Tabs : \/ Leave(t) \/ Reload(t) \/ Submit(t)
                       \/ \E p \in Polls : Visit(t, p) \/ Jump(t, p) \/ Redirect(t, p)
                       \/ \E o \in Options : Select(t, o)
    \/ \E l \in loads, ok \in BOOLEAN : ResultsAnswered(l, ok) \/ PollAnswered(l, ok)
    \/ \E b \in ballots : CastVote(b) \/ ConnectionLost(b) \/ VoteAnswered(b)
    \/ EnsureIndexes
    \/ \E p \in Polls : Delete(p) \/ \E s \in {"active", "closed"} : ChangeStatus(p, s)

Spec == Init /\ [][Next]_vars

-----------------------------------------------------------------------------
(* Properties.                                                             *)

PageType ==
    [mount : 0..MaxVisits, at : Polls \union {None}, jumped : BOOLEAN,
     poll : Polls \union {None}, selected : Options \union {None},
     loading : BOOLEAN, submitting : BOOLEAN, error : BOOLEAN,
     voted : BOOLEAN, expired : BOOLEAN]

LoadType ==
    [id : 1..MaxVisits, tab : Tabs, mount : 1..MaxVisits, poll : Polls,
     token : 1..MaxVisits, stage : {"results", "poll"}]

VoteType ==
    [id : 1..MaxBallots, token : 1..MaxVisits, poll : Polls, opt : Options]

BallotType ==
    [id : 1..MaxBallots, tab : Tabs, mount : {Orphan} \union 1..MaxVisits,
     poll : Polls, opt : Options, token : 1..MaxVisits,
     stage : {"sent", "loaded", "unvoted"} \union Replies]

(* Every variable has its type; no vote is sent before a poll was shown.   *)
TypeOK ==
    /\ status \in [Polls -> {"active", "closed", "gone"}]
    /\ votes \subseteq VoteType /\ unsaved \subseteq Polls /\ indexed \in BOOLEAN
    /\ token \in 0..MaxVisits
    /\ page \in [Tabs -> PageType] /\ history \in [Tabs -> SUBSET Polls]
    /\ loads \subseteq LoadType /\ ballots \subseteq BallotType
    /\ redirects \in [Tabs -> SUBSET Polls]
    /\ sent \in 0..MaxBallots /\ visits \in 0..MaxVisits /\ events \in 0..MaxEvents

(* Two tabs whose requests both pass HasVoted before either is inserted,   *)
(* reloads in the middle of a vote, lost replies and votes sent again:     *)
(* once the index is built the browser has at most one vote in a poll,     *)
(* since all its requests carry the one token and only the index, built    *)
(* over votes that respect it, decides.                                    *)
OneVotePerBrowser ==
    indexed => \A v, w \in votes : v.poll = w.poll => v = w

(* A page that was opened for this poll thanks for a vote only if the poll *)
(* has the vote of this browser, or an insert that failed was reported as  *)
(* a duplicate, or the poll was deleted since.                             *)
ThanksForAVote ==
    \A t \in Tabs : Screen(page[t]) = "thanks" /\ ~page[t].jumped =>
        \/ \E v \in votes : v.poll = page[t].at
        \/ page[t].at \in unsaved \/ status[page[t].at] = "gone"

(* The button is disabled exactly while a vote of this page is on its way: *)
(* after any answer, and any jump meanwhile, the voter can go on.          *)
BusyIffSent ==
    \A t \in Tabs : page[t].mount # 0 =>
        Cardinality({b \in ballots : b.tab = t /\ b.mount = page[t].mount})
            = IF page[t].submitting THEN 1 ELSE 0

(* A tab is sent on to the results only of polls it voted in.              *)
RedirectsAfterVote ==
    \A t \in Tabs : \A p \in redirects[t] :
        (\E v \in votes : v.poll = p) \/ status[p] = "gone"

(* The spinner is shown only while a load of this page is going on, so     *)
(* that it ends whatever fails, and however the page jumps meanwhile.      *)
SpinnerHasALoad ==
    \A t \in Tabs : Screen(page[t]) = "spinner" =>
        \E l \in loads : l.tab = t /\ l.mount = page[t].mount
=============================================================================
