----------------------------- MODULE Dashboard -----------------------------
(***************************************************************************)
(* The owner's list of polls (Dashboard.jsx).  The list is read once, when *)
(* the page is mounted.  A click keeps the list of the render it was made  *)
(* in, and writes it back, with its own change, when the reply comes.      *)
(***************************************************************************)
EXTENDS OwnedPolls

CONSTANTS
    MaxClicks,   \* bound on the clicks that send a request
    MaxElsewhere \* bound on the changes from elsewhere

ASSUME ClicksAssumption == MaxClicks \in Nat /\ MaxElsewhere \in Nat

VARIABLES
    dash,        \* the page is mounted
    list,        \* of each poll: "none" (not in the list) or its status
    loading,     \* the page shows a spinner
    failed,      \* the page has an error: the list could not be read
    answer,      \* what the backend answered to getUserPolls, or None
    calls,       \* runs of handleToggleStatus, handleDelete not ended
    clicks,      \* clicks so far
    elsewhere,   \* changes from elsewhere so far
    disturbed    \* history: see Disturbs

bounds   == <<clicks, elsewhere>>
dashVars == <<dash, list, loading, failed, answer, calls, bounds, disturbed>>

Empty == [p \in Polls |-> "none"]

DashInit ==
    /\ dash = FALSE /\ list = Empty /\ loading = FALSE /\ failed = FALSE
    /\ answer = None /\ calls = {}
    /\ clicks = 0 /\ elsewhere = 0 /\ disturbed = FALSE

(* What the page renders below the figures; after an error as well, the    *)
(* page says that there are no polls.                                      *)
View ==
    IF ~dash              THEN "off"
    ELSE IF loading       THEN "spinner"
    ELSE IF list = Empty  THEN "no polls" ELSE "list"

OpenDash ==
    /\ ~dash /\ dash' = TRUE /\ loading' = TRUE
    /\ UNCHANGED <<server, list, failed, answer, calls, bounds, disturbed>>

(* A request still on its way will be served; its reply finds no page.     *)
LeaveDash ==
    /\ dash /\ dash' = FALSE
    /\ list' = Empty /\ loading' = FALSE /\ failed' = FALSE /\ answer' = None
    /\ calls' = {[c EXCEPT !.mine = FALSE, !.view = Empty] : c \in calls}
    /\ disturbed' = FALSE
    /\ UNCHANGED <<server, bounds>>

-----------------------------------------------------------------------------
(* fetchPolls.  The backend does not close expired polls here.             *)

ListServed ==
    /\ dash /\ loading /\ answer = None
    /\ answer' = stored
    /\ UNCHANGED <<server, dash, list, loading, failed, calls, bounds, disturbed>>

ListShown ==
    /\ loading /\ answer # None
    /\ list' = answer /\ loading' = FALSE /\ answer' = None
    /\ UNCHANGED <<server, dash, failed, calls, bounds, disturbed>>

ListFails ==
    /\ loading
    /\ failed' = TRUE /\ loading' = FALSE /\ answer' = None
    /\ UNCHANGED <<server, dash, list, calls, bounds, disturbed>>

-----------------------------------------------------------------------------
(* The polls change by another way than the clicks of this mount, after    *)
(* the backend read the list.                                              *)
Disturbs == disturbed' = (disturbed \/ (dash /\ (~loading \/ answer # None)))

(* Another tab or device of the owner; expiry, which a visit of the poll   *)
(* brings about.                                                           *)
Elsewhere(p) ==
    /\ \/ \E s \in Statuses : UpdatePollStatus(p, s)
       \/ DeletePoll(p) \/ Insert(p)
    /\ stored' # stored /\ Disturbs
    /\ elsewhere < MaxElsewhere /\ elsewhere' = elsewhere + 1
    /\ UNCHANGED <<dash, list, loading, failed, answer, calls, clicks>>

(* A click on Close, Reopen or, when the owner confirms it, on the bin.    *)
Click(p, kind) ==
    /\ View = "list" /\ list[p] # "none"
    /\ clicks < MaxClicks /\ clicks' = clicks + 1
    /\ calls' = calls \union
         {[id |-> clicks', mine |-> TRUE, poll |-> p, view |-> list, state |-> "sent",
           next |-> IF kind = "delete" THEN "none" ELSE Opposite(list[p])]}
    /\ disturbed' = (disturbed \/ \E c \in calls : c.mine /\ c.poll = p)
    /\ UNCHANGED <<server, dash, list, loading, failed, answer, elsewhere>>

Becomes(c, s) == calls' = (calls \ {c}) \union {[c EXCEPT !.state = s]}

CallServed(c) ==
    /\ c.state = "sent"
    /\ IF c.next = "none" THEN DeletePoll(c.poll) ELSE UpdatePollStatus(c.poll, c.next)
    /\ Becomes(c, "ok")
    /\ IF c.mine THEN UNCHANGED disturbed ELSE Disturbs
    /\ UNCHANGED <<dash, list, loading, failed, answer, bounds>>

(* The poll is gone, the backend is not reached or fails.                  *)
CallFails(c) ==
    /\ c.state = "sent" /\ Becomes(c, "failed")
    /\ UNCHANGED <<server, dash, list, loading, failed, answer, bounds, disturbed>>

CallLost(c) ==
    /\ c.state = "ok" /\ Becomes(c, "failed")
    /\ disturbed' = (disturbed \/ c.mine)
    /\ UNCHANGED <<server, dash, list, loading, failed, answer, bounds>>

(* A mistake: the list shows the change whatever the reply says.           *)
PatchedAnyway(c) == TRUE

Patches(c) == c.state = "ok"

(* A mistake: a deleted poll stays in the list.                            *)
PatchedStatus(c, v) == IF c.next = "none" THEN v ELSE [v EXCEPT ![c.poll] = c.next]

(* map and filter: a toggle adds no poll to the list.                      *)
Patched(c, v) == IF v[c.poll] = "none" THEN v ELSE [v EXCEPT ![c.poll] = c.next]

(* The rest of both handlers.  Written back, the old list may undo what    *)
(* the list has since become.                                              *)
CallEnds(c) ==
    /\ c.state # "sent" /\ calls' = calls \ {c}
    /\ IF c.mine /\ Patches(c)
       THEN /\ list' = Patched(c, c.view)
            /\ disturbed' = (disturbed \/ list' # Patched(c, list))
       ELSE UNCHANGED <<list, disturbed>>
    /\ UNCHANGED <<server, dash, loading, failed, answer, bounds>>

DashNext ==
    \/ OpenDash \/ LeaveDash \/ ListServed \/ ListShown \/ ListFails
    \/ \E p \in Polls : Elsewhere(p) \/ \E kind \in {"toggle", "delete"} : Click(p, kind)
    \/ \E c \in calls : CallServed(c) \/ CallFails(c) \/ CallLost(c) \/ CallEnds(c)

-----------------------------------------------------------------------------
(* Properties.                                                             *)

Lists == [Polls -> Statuses \union {"none"}]

Call == [id : 1..MaxClicks, mine : BOOLEAN, poll : Polls, view : Lists,
         state : {"sent", "ok", "failed"}, next : Statuses \union {"none"}]

(* Every variable has its type.                                            *)
DashTypeOK ==
    /\ stored \in Lists /\ was \in [Polls -> SUBSET (Statuses \union {"none"})]
    /\ dash \in BOOLEAN /\ list \in Lists /\ loading \in BOOLEAN /\ failed \in BOOLEAN
    /\ answer \in Lists \union {None} /\ calls \subseteq Call
    /\ clicks \in 0..MaxClicks /\ elsewhere \in 0..MaxElsewhere /\ disturbed \in BOOLEAN

(* The page shows nothing that never was: the status of each poll of the   *)
(* list was stored, and a poll that is missing was once not there, however *)
(* replies are delayed and lists written back.                             *)
ShownWasStored ==
    dash /\ ~loading /\ ~failed => \A p \in Polls : list[p] \in was[p]

(* When all clicks are answered the list says what is stored, unless a     *)
(* poll changed elsewhere or by a late request of an earlier mount, a      *)
(* reply was lost, two clicks on one poll overlapped or an old list undid  *)
(* a newer one: there is no other way to be wrong.                         *)
AgreesUnlessDisturbed ==
    dash /\ ~loading /\ ~failed /\ (\A c \in calls : ~c.mine) =>
        disturbed \/ list = stored
=============================================================================
