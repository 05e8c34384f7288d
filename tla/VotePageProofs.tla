--------------------------- MODULE VotePageProofs ---------------------------
(***************************************************************************)
(* Proofs about VotePage, for any tabs, polls, options and environment.    *)
(***************************************************************************)
EXTENDS VotePage, FiniteSetTheorems, TLAPS

(* A mount, and with it a token, is made by a visit: a page that is there  *)
(* has both and a poll, and a request never belongs to a mount that is still to come. *)
Serials ==
    /\ \A t \in Tabs :
        /\ page[t].mount <= visits
        /\ page[t].mount # 0 => token # 0 /\ page[t].at \in Polls
    /\ \A l \in loads : l.id <= visits /\ l.mount <= visits
    /\ \A b \in ballots : b.mount <= visits

TypeInv == TypeOK /\ Serials

LEMMA AwayTyped ==
    /\ Away \in PageType /\ Away.mount = 0 /\ Away.poll = None
    /\ ~Away.loading /\ ~Away.submitting /\ ~Away.voted
<1> DEFINE r == Mounted(None, 0)
<1>3. r = [mount |-> 0, at |-> None, jumped |-> FALSE, poll |-> None,
           selected |-> None, loading |-> TRUE, submitting |-> FALSE,
           error |-> FALSE, voted |-> FALSE, expired |-> FALSE]
  BY DEF Mounted
<1>4. Away = [r EXCEPT !.loading = FALSE]
  BY DEF Away
<1>1. Away = [mount |-> 0, at |-> None, jumped |-> FALSE, poll |-> None,
              selected |-> None, loading |-> FALSE, submitting |-> FALSE,
              error |-> FALSE, voted |-> FALSE, expired |-> FALSE]
  <2> HIDE DEF r
  <2> QED BY <1>3, <1>4
<1>2. 0 \in 0..MaxVisits
  BY BoundsAssumption
<1> QED BY <1>1, <1>2 DEF PageType

LEMMA InitTyped == Init => TypeInv
<1> SUFFICES ASSUME Init PROVE TypeInv
  OBVIOUS
<1>2. TypeOK
  BY AwayTyped, BoundsAssumption DEF Init, TypeOK
<1>3. Serials
  BY AwayTyped DEF Init, Serials
<1> QED BY <1>2, <1>3 DEF TypeInv

(* What a step does to one page leaves the others alone.                   *)
LEMMA SetTyped ==
    ASSUME TypeOK, NEW t \in Tabs, NEW m, NEW g \in PageType
    PROVE  /\ Set(t, m, g) \in [Tabs -> PageType]
           /\ \A u \in Tabs \ {t} : Set(t, m, g)[u] = page[u]
           /\ page[t].mount = m => Set(t, m, g)[t] = g
           /\ page[t].mount # m => Set(t, m, g)[t] = page[t]
BY DEF TypeOK, Set

LEMMA StartLoadTyped ==
    ASSUME TypeInv, NEW t \in Tabs, NEW p \in Polls, NEW m \in 1..(visits + 1),
           StartLoad(t, p, m)
    PROVE  /\ token' \in 1..MaxVisits /\ visits' = visits + 1 /\ visits' \in 1..MaxVisits
           /\ history' \in [Tabs -> SUBSET Polls]
           /\ loads' \subseteq LoadType
           /\ \A l \in loads' : l.id <= visits' /\ l.mount <= visits'
<1>1. visits' = visits + 1 /\ visits' \in 1..MaxVisits /\ token' \in 1..MaxVisits
  BY BoundsAssumption DEF TypeInv, TypeOK, StartLoad, VoterToken
<1>2. history' \in [Tabs -> SUBSET Polls]
  BY DEF TypeInv, TypeOK, StartLoad
<1>8. visits \in Nat
  BY DEF TypeInv, TypeOK
<1> DEFINE l0 == [id |-> visits + 1, tab |-> t, mount |-> m, poll |-> p,
                  token |-> token', stage |-> "results"]
<1>4. loads' = loads \union {l0}
  BY DEF StartLoad
<1>3. l0 \in LoadType /\ l0.id <= visits' /\ l0.mount <= visits'
  <2>1. visits + 1 \in 1..MaxVisits /\ m \in 1..MaxVisits /\ m <= visits + 1
    BY <1>1, <1>8, BoundsAssumption
  <2>2. l0 \in LoadType
    BY <2>1, <1>1 DEF LoadType
  <2> QED BY <2>1, <2>2, <1>1, <1>8
<1>5. \A l \in loads : l \in LoadType /\ l.id <= visits /\ l.mount <= visits
  BY DEF TypeInv, TypeOK, Serials
<1>6. \A l \in LoadType : l.id \in Int /\ l.mount \in Int
  BY DEF LoadType
<1>7. \A l \in loads : l \in LoadType /\ l.id <= visits' /\ l.mount <= visits'
  BY <1>1, <1>5, <1>6, <1>8
<1>9. \A l \in loads' : l \in LoadType /\ l.id <= visits' /\ l.mount <= visits'
  BY <1>3, <1>4, <1>7
<1> HIDE DEF l0
<1> QED BY <1>1, <1>2, <1>9

LEMMA VisitTyped ==
    ASSUME TypeInv, NEW t \in Tabs, NEW p \in Polls, Visit(t, p)
    PROVE  TypeInv'
<1>0. StartLoad(t, p, visits + 1) /\ visits + 1 \in 1..(visits + 1) /\ visits \in Nat
  BY DEF Visit, TypeInv, TypeOK
<1>1. /\ token' \in 1..MaxVisits /\ visits' = visits + 1 /\ visits' \in 1..MaxVisits
      /\ history' \in [Tabs -> SUBSET Polls] /\ loads' \subseteq LoadType
      /\ \A l \in loads' : l.id <= visits' /\ l.mount <= visits'
  BY <1>0, StartLoadTyped
<1>2. /\ Mounted(p, visits + 1) \in PageType
      /\ Mounted(p, visits + 1).mount = visits + 1 /\ Mounted(p, visits + 1).at = p
  <2>1. visits + 1 \in 0..MaxVisits
    BY <1>0, <1>1
  <2> QED BY <2>1 DEF Mounted, PageType
<1>8. page' = [page EXCEPT ![t] = Mounted(p, visits + 1)]
  BY DEF Visit
<1>9. page' \in [Tabs -> PageType]
  BY <1>2, <1>8 DEF TypeInv, TypeOK
<1>10. UNCHANGED <<backend, ballots, redirects, sent, events>>
  BY DEF Visit
<1>3. TypeOK'
  BY <1>1, <1>9, <1>10, BoundsAssumption DEF TypeInv, TypeOK, backend
<1>4. \A b \in ballots : b.mount \in Int
  BY DEF TypeInv, TypeOK, BallotType, Orphan
<1>5. \A u \in Tabs : page[u].mount \in Int
  BY DEF TypeInv, TypeOK, PageType
<1>6. /\ \A u \in Tabs : /\ page'[u].mount = IF u = t THEN visits + 1 ELSE page[u].mount
                         /\ page'[u].at = IF u = t THEN p ELSE page[u].at
      /\ ballots' = ballots
  BY <1>2 DEF TypeInv, TypeOK, Visit
<1>7. Serials'
  BY <1>0, <1>1, <1>4, <1>5, <1>6 DEF TypeInv, Serials
<1> QED BY <1>3, <1>7 DEF TypeInv

LEMMA JumpTyped ==
    ASSUME TypeInv, NEW t \in Tabs, NEW p \in Polls, Jump(t, p)
    PROVE  TypeInv'
<1>0. /\ page[t] \in PageType /\ page[t].mount # 0 /\ page[t].mount \in 1..(visits + 1)
      /\ visits \in Nat
  BY DEF Jump, Screen, TypeInv, TypeOK, Serials, PageType
<1>a. StartLoad(t, p, page[t].mount)
  BY DEF Jump
<1>1. /\ token' \in 1..MaxVisits /\ visits' = visits + 1 /\ visits' \in 1..MaxVisits
      /\ history' \in [Tabs -> SUBSET Polls] /\ loads' \subseteq LoadType
      /\ \A l \in loads' : l.id <= visits' /\ l.mount <= visits'
  BY <1>0, <1>a, StartLoadTyped
<1> DEFINE g == [page[t] EXCEPT !.at = p, !.jumped = TRUE, !.loading = TRUE]
<1>2. page' = [page EXCEPT ![t] = g]
  BY DEF Jump, TypeInv, TypeOK
<1>3. g \in PageType /\ g.mount = page[t].mount /\ g.at = p
  BY <1>0 DEF PageType
<1>9. page' \in [Tabs -> PageType]
  BY <1>2, <1>3 DEF TypeInv, TypeOK
<1>10. UNCHANGED <<backend, ballots, redirects, sent, events>>
  BY DEF Jump
<1>4. TypeOK'
  BY <1>1, <1>9, <1>10, BoundsAssumption DEF TypeInv, TypeOK, backend
<1>5. \A b \in ballots : b.mount \in Int
  BY DEF TypeInv, TypeOK, BallotType, Orphan
<1>6. \A u \in Tabs : /\ page[u].mount \in Int /\ page'[u].mount = page[u].mount
                      /\ page'[u].at = IF u = t THEN p ELSE page[u].at
  BY <1>2, <1>3 DEF TypeInv, TypeOK, PageType
<1>7. Serials'
  BY <1>0, <1>1, <1>10, <1>5, <1>6 DEF TypeInv, Serials
<1> QED BY <1>4, <1>7 DEF TypeInv

(* Steps that make no mount and no token.                                  *)
LEMMA OtherTyped ==
    ASSUME TypeInv, UNCHANGED <<token, visits>>,
           status' \in [Polls -> {"active", "closed", "gone"}],
           votes' \subseteq VoteType, unsaved' \subseteq Polls, indexed' \in BOOLEAN,
           sent' \in 0..MaxBallots,
           page' \in [Tabs -> PageType], history' \in [Tabs -> SUBSET Polls],
           loads' \subseteq LoadType, ballots' \subseteq BallotType,
           redirects' \in [Tabs -> SUBSET Polls], events' \in 0..MaxEvents,
           \A t \in Tabs : \/ page'[t].mount = 0
                           \/ page'[t].mount = page[t].mount /\ page'[t].at = page[t].at,
           \A l \in loads' : \E k \in loads : l.id = k.id /\ l.mount = k.mount,
           \A b \in ballots' : \/ b.mount = Orphan
                               \/ \E c \in ballots : b.mount = c.mount
                               \/ \E t \in Tabs : b.mount = page[t].mount /\ b.mount # 0
    PROVE  TypeInv'
<1>1. TypeOK'
  BY DEF TypeInv, TypeOK
<1>2. visits \in Nat /\ visits' = visits /\ token' = token
  BY DEF TypeInv, TypeOK
<1>3. \A t \in Tabs : /\ page'[t].mount <= visits'
                      /\ page'[t].mount # 0 => token' # 0 /\ page'[t].at \in Polls
  BY <1>2 DEF TypeInv, Serials
<1>4. \A l \in loads' : l.id <= visits' /\ l.mount <= visits'
  BY <1>2 DEF TypeInv, Serials
<1>5. \A b \in ballots' : b.mount <= visits'
  BY <1>2 DEF TypeInv, Serials, Orphan
<1> QED BY <1>1, <1>3, <1>4, <1>5 DEF TypeInv, Serials

LEMMA TabTyped ==
    ASSUME TypeInv, NEW t \in Tabs, Leave(t) \/ Reload(t) \/ \E p \in Polls : Redirect(t, p)
    PROVE  TypeInv'
<1>0. /\ status \in [Polls -> {"active", "closed", "gone"}]
      /\ votes \subseteq VoteType /\ unsaved \subseteq Polls /\ indexed \in BOOLEAN
      /\ sent \in 0..MaxBallots
      /\ page \in [Tabs -> PageType] /\ history \in [Tabs -> SUBSET Polls]
      /\ loads \subseteq LoadType /\ ballots \subseteq BallotType
      /\ redirects \in [Tabs -> SUBSET Polls] /\ events \in 0..MaxEvents
  BY DEF TypeInv, TypeOK
<1>1. /\ page' \in [Tabs -> PageType]
      /\ \A u \in Tabs : page'[u].mount = 0 \/ page'[u] = page[u]
  BY <1>0, AwayTyped DEF Leave, Reload, Redirect
<1>2. /\ history' \in [Tabs -> SUBSET Polls] /\ redirects' \in [Tabs -> SUBSET Polls]
      /\ events' \in 0..MaxEvents
  BY <1>0, BoundsAssumption DEF Leave, Reload, Redirect, Event
<1>3. UNCHANGED <<token, visits, sent, backend>> /\ loads' \subseteq loads
  BY DEF Leave, Reload, Redirect
<1>4. \A b \in ballots' : b \in BallotType /\ (b.mount = Orphan \/ b \in ballots)
  <2>1. CASE ballots' = ballots
    BY <2>1, <1>0
  <2>2. CASE Reload(t)
    <3> DEFINE open == {c \in ballots : c.tab = t /\ ~Answered(c)}
    <3>1. ballots' = {b \in ballots : b.tab # t}
                       \union {[b EXCEPT !.mount = Orphan] : b \in open}
      BY <2>2 DEF Reload
    <3>2. \A b \in open : /\ [b EXCEPT !.mount = Orphan] \in BallotType
                          /\ [b EXCEPT !.mount = Orphan].mount = Orphan
      BY <1>0 DEF BallotType
    <3> HIDE DEF open
    <3> QED BY <3>1, <3>2, <1>0
  <2> QED BY <2>1, <2>2 DEF Leave, Redirect
<1>5. ballots' \subseteq BallotType /\ loads' \subseteq LoadType
  BY <1>0, <1>3, <1>4
<1>6. \A l \in loads' : \E k \in loads : l.id = k.id /\ l.mount = k.mount
  BY <1>3
<1>7. \A u \in Tabs : \/ page'[u].mount = 0
                      \/ page'[u].mount = page[u].mount /\ page'[u].at = page[u].at
  BY <1>1
<1>8. \A b \in ballots' : b.mount = Orphan \/ \E c \in ballots : b.mount = c.mount
  BY <1>4
<1> QED BY <1>0, <1>1, <1>2, <1>3, <1>5, <1>6, <1>7, <1>8, OtherTyped DEF backend

LEMMA FormTyped ==
    ASSUME TypeInv, NEW t \in Tabs, Submit(t) \/ \E o \in Options : Select(t, o)
    PROVE  TypeInv'
<1>0. page[t] \in PageType /\ page \in [Tabs -> PageType]
  BY DEF TypeInv, TypeOK
<1>1. CASE Submit(t)
  <2> DEFINE g == [page[t] EXCEPT !.submitting = TRUE, !.error = FALSE]
             b == [id |-> sent + 1, tab |-> t, mount |-> page[t].mount, poll |-> page[t].at,
                   opt |-> page[t].selected, token |-> token', stage |-> "sent"]
  <2>1. page[t].mount # 0 /\ page[t].poll # None /\ page[t].selected # None
    BY <1>1 DEF Submit, CanSubmit, CanSelect, Screen
  <2>2. token' = token /\ token \in 1..MaxVisits
    BY <2>1, <1>1 DEF Submit, VoterToken, TypeInv, TypeOK, Serials
  <2>3. page' = [page EXCEPT ![t] = g] /\ ballots' = ballots \union {b}
    BY <1>1 DEF Submit
  <2>4. g \in PageType /\ g.mount = page[t].mount /\ g.at = page[t].at
    BY <1>0 DEF PageType
  <2>5. page[t].mount \in 1..MaxVisits /\ page[t].selected \in Options /\ page[t].poll \in Polls
    BY <2>1, <1>0 DEF PageType
  <2>6. page[t].at \in Polls
    BY <2>1 DEF TypeInv, Serials
  <2>12. sent + 1 \in 1..MaxBallots /\ sent' = sent + 1
    BY <1>1, BoundsAssumption DEF Submit, TypeInv, TypeOK
  <2>7. b \in BallotType
    BY <2>2, <2>5, <2>6, <2>12, <1>0 DEF BallotType, PageType
  <2>8. page' \in [Tabs -> PageType] /\ ballots' \subseteq BallotType
    BY <2>3, <2>4, <2>7 DEF TypeInv, TypeOK
  <2>9. \A u \in Tabs : page'[u].mount = page[u].mount /\ page'[u].at = page[u].at
    BY <1>0, <2>3, <2>4
  <2>10. \A c \in ballots' : c \in ballots \/ (c.mount = page[t].mount /\ c.mount # 0)
    BY <2>1, <2>3
  <2>11. UNCHANGED <<backend, history, loads, redirects, visits, events>>
    BY <1>1 DEF Submit
  <2>13. sent' \in 0..MaxBallots
    BY <2>12, BoundsAssumption
  <2> HIDE DEF b
  <2> QED BY <2>2, <2>8, <2>9, <2>10, <2>11, <2>13, OtherTyped DEF TypeInv, TypeOK, backend
<1>2. CASE \E o \in Options : Select(t, o)
  <2>1. PICK o \in Options : Select(t, o)
    BY <1>2
  <2>2. [page[t] EXCEPT !.selected = o] \in PageType
        /\ [page[t] EXCEPT !.selected = o].mount = page[t].mount
        /\ [page[t] EXCEPT !.selected = o].at = page[t].at
    BY <1>0 DEF PageType
  <2> QED BY <2>1, <2>2, OtherTyped DEF Select, TypeInv, TypeOK, backend
<1> QED BY <1>1, <1>2

LEMMA LoadTyped ==
    ASSUME TypeInv, NEW l \in loads, NEW ok \in BOOLEAN,
           ResultsAnswered(l, ok) \/ PollAnswered(l, ok)
    PROVE  TypeInv'
<1>0. /\ status \in [Polls -> {"active", "closed", "gone"}]
      /\ votes \subseteq VoteType /\ unsaved \subseteq Polls /\ indexed \in BOOLEAN
      /\ sent \in 0..MaxBallots
      /\ page \in [Tabs -> PageType] /\ history \in [Tabs -> SUBSET Polls]
      /\ loads \subseteq LoadType /\ ballots \subseteq BallotType
      /\ redirects \in [Tabs -> SUBSET Polls] /\ events \in 0..MaxEvents
  BY DEF TypeInv, TypeOK
<1>1. l \in LoadType /\ l.tab \in Tabs /\ l.poll \in Polls
  BY <1>0 DEF LoadType
<1>2. \A u \in Tabs : page[u] \in PageType
  BY <1>0
<1> DEFINE voted == [page[l.tab] EXCEPT !.voted = TRUE]
           shown == Loaded(page[l.tab], l, ok)
<1>3. voted \in PageType /\ voted.mount = page[l.tab].mount /\ voted.at = page[l.tab].at
  BY <1>1, <1>2 DEF PageType
<1>4. shown \in PageType /\ shown.mount = page[l.tab].mount /\ shown.at = page[l.tab].at
  BY <1>1, <1>2 DEF PageType, Loaded
<1> HIDE DEF voted, shown
<1>5. \/ page' = page
      \/ page' = Set(l.tab, l.mount, voted)
      \/ page' = Set(l.tab, l.mount, shown)
  BY DEF ResultsAnswered, PollAnswered, voted, shown
<1>6. /\ page' \in [Tabs -> PageType]
      /\ \A u \in Tabs : page'[u].mount = page[u].mount /\ page'[u].at = page[u].at
  BY <1>0, <1>1, <1>3, <1>4, <1>5 DEF Set
<1> DEFINE k == [l EXCEPT !.stage = "poll"]
<1>7. k \in LoadType /\ k.id = l.id /\ k.mount = l.mount
  BY <1>1 DEF LoadType
<1>8. loads' = (loads \ {l}) \union {k} \/ loads' = loads \ {l}
  BY DEF ResultsAnswered, PollAnswered
<1> HIDE DEF k
<1>9. loads' \subseteq LoadType /\ \A m \in loads' : \E n \in loads : m.id = n.id /\ m.mount = n.mount
  BY <1>0, <1>7, <1>8
<1>10. events' \in 0..MaxEvents
  BY <1>0, BoundsAssumption DEF ResultsAnswered, PollAnswered, Answers, Event
<1>11. UNCHANGED <<backend, token, history, ballots, redirects, sent, visits>>
  BY DEF ResultsAnswered, PollAnswered
<1> QED BY <1>0, <1>6, <1>9, <1>10, <1>11, OtherTyped DEF backend

(* What the steps do to a request.                                         *)
LEMMA Restaged ==
    ASSUME TypeInv, NEW b \in ballots, NEW r, NEW c, c = [b EXCEPT !.stage = r]
    PROVE  /\ c.tab = b.tab /\ c.mount = b.mount /\ c.poll = b.poll /\ c.token = b.token
           /\ c.stage = r
           /\ r \in {"sent", "loaded", "unvoted"} \union Replies => c \in BallotType
BY DEF TypeInv, TypeOK, BallotType

LEMMA Orphaned ==
    ASSUME TypeInv, NEW b \in ballots, NEW c, c = [b EXCEPT !.mount = Orphan]
    PROVE  /\ c.tab = b.tab /\ c.mount = Orphan /\ c.poll = b.poll /\ c.token = b.token
           /\ c.stage = b.stage /\ c \in BallotType
BY DEF TypeInv, TypeOK, BallotType

(* CastVote takes one request further; a lost connection ends it for the   *)
(* page, and may leave the handler going.                                  *)
LEMMA Handled ==
    ASSUME TypeInv, NEW b \in ballots, CastVote(b)
    PROVE  /\ \E r \in {"loaded", "unvoted"} \union Replies :
                 \E c : c = [b EXCEPT !.stage = r] /\ ballots' = (ballots \ {b}) \union {c}
           /\ UNCHANGED <<status, indexed, token, page, history, loads, redirects, sent, visits>>
           /\ \/ UNCHANGED votes
              \/ /\ votes' = votes \union {Vote(b)}
                 /\ ~IndexRefuses(b) /\ b.stage = "unvoted"
<1>1. PICK r \in {"loaded", "unvoted"} \union Replies : ToStage(b, r)
  BY DEF CastVote, PollChecked, VoteSought, Recorded, NotRecorded, Replies
<1>2. UNCHANGED <<status, indexed, token, page, history, loads, redirects, sent, visits>>
  BY DEF CastVote, PollChecked, VoteSought, Recorded, NotRecorded, backend
<1>3. \/ UNCHANGED votes
      \/ votes' = votes \union {Vote(b)} /\ ~IndexRefuses(b) /\ b.stage = "unvoted"
  BY DEF CastVote, PollChecked, VoteSought, Recorded, NotRecorded, backend
<1> QED BY <1>1, <1>2, <1>3 DEF ToStage

LEMMA Lost ==
    ASSUME TypeInv, NEW b \in ballots, ConnectionLost(b)
    PROVE  \E c, d : /\ c = [b EXCEPT !.stage = "error"] /\ d = [b EXCEPT !.mount = Orphan]
                     /\ \/ ballots' = (ballots \ {b}) \union {c}
                        \/ ~Answered(b) /\ ballots' = (ballots \ {b}) \union {c, d}
<1> DEFINE e == [b EXCEPT !.stage = "error"]
           o == [b EXCEPT !.mount = Orphan]
<1>1. ballots' = (ballots \ {b}) \union {e} \union (IF Answered(b) THEN {} ELSE {o})
  BY DEF ConnectionLost
<1>2. e = [b EXCEPT !.stage = "error"] /\ o = [b EXCEPT !.mount = Orphan]
  OBVIOUS
<1> HIDE DEF e, o
<1>3. \/ ballots' = (ballots \ {b}) \union {e}
      \/ ~Answered(b) /\ ballots' = (ballots \ {b}) \union {e, o}
  BY <1>1
<1> QED BY <1>2, <1>3

LEMMA VoteTyped ==
    ASSUME TypeInv, NEW b \in ballots
    PROVE  Vote(b) \in VoteType /\ Vote(b).token = b.token /\ Vote(b).poll = b.poll
BY DEF TypeInv, TypeOK, BallotType, VoteType, Vote

LEMMA BallotTyped ==
    ASSUME TypeInv, NEW b \in ballots, CastVote(b) \/ ConnectionLost(b) \/ VoteAnswered(b)
    PROVE  TypeInv'
<1>0. /\ status \in [Polls -> {"active", "closed", "gone"}]
      /\ votes \subseteq VoteType /\ unsaved \subseteq Polls /\ indexed \in BOOLEAN
      /\ sent \in 0..MaxBallots
      /\ page \in [Tabs -> PageType] /\ history \in [Tabs -> SUBSET Polls]
      /\ loads \subseteq LoadType /\ ballots \subseteq BallotType
      /\ redirects \in [Tabs -> SUBSET Polls] /\ events \in 0..MaxEvents
  BY DEF TypeInv, TypeOK
<1>1. b \in BallotType /\ b.tab \in Tabs /\ b.poll \in Polls
  BY <1>0 DEF BallotType
<1>2. CASE CastVote(b)
  <2>0. PICK r \in {"loaded", "unvoted"} \union Replies :
            \E c : c = [b EXCEPT !.stage = r] /\ ballots' = (ballots \ {b}) \union {c}
    BY <1>2, Handled
  <2>1. PICK c : c = [b EXCEPT !.stage = r] /\ ballots' = (ballots \ {b}) \union {c}
    BY <2>0
  <2>2. c \in BallotType /\ c.mount = b.mount
    BY <2>1, Restaged
  <2>3. /\ ballots' \subseteq BallotType
        /\ \A d \in ballots' : \E e \in ballots : d.mount = e.mount
    BY <1>0, <2>1, <2>2
  <2>4. votes' \subseteq VoteType
    BY <1>0, <1>2, Handled, VoteTyped
  <2>5. unsaved' \subseteq Polls /\ events' \in 0..MaxEvents
    BY <1>0, <1>1, <1>2, BoundsAssumption
    DEF CastVote, PollChecked, VoteSought, Recorded, NotRecorded, backend, Event
  <2>6. UNCHANGED <<status, indexed, token, page, history, loads, redirects, sent, visits>>
    BY <1>2, Handled
  <2> QED BY <1>0, <2>3, <2>4, <2>5, <2>6, OtherTyped
<1>3. CASE ConnectionLost(b)
  <2>1. PICK c, d : /\ c = [b EXCEPT !.stage = "error"] /\ d = [b EXCEPT !.mount = Orphan]
                    /\ \/ ballots' = (ballots \ {b}) \union {c}
                       \/ ballots' = (ballots \ {b}) \union {c, d}
    BY <1>3, Lost
  <2>2. c \in BallotType /\ c.mount = b.mount /\ d \in BallotType /\ d.mount = Orphan
    BY <2>1, Restaged, Orphaned DEF Replies
  <2>3. /\ ballots' \subseteq BallotType
        /\ \A e \in ballots' : e.mount = Orphan \/ \E f \in ballots : e.mount = f.mount
    BY <1>0, <2>1, <2>2
  <2>4. events' \in 0..MaxEvents
    BY <1>0, <1>3, BoundsAssumption DEF ConnectionLost, Event
  <2>5. UNCHANGED <<backend, token, page, history, loads, redirects, sent, visits>>
    BY <1>3 DEF ConnectionLost
  <2> QED BY <1>0, <2>3, <2>4, <2>5, OtherTyped DEF backend
<1>4. CASE VoteAnswered(b)
  <2> DEFINE g == AfterReply(page[b.tab], b.stage)
  <2>1. page[b.tab] \in PageType
    BY <1>0, <1>1
  <2>2. g \in PageType /\ g.mount = page[b.tab].mount /\ g.at = page[b.tab].at
    BY <2>1 DEF AfterReply, PageType
  <2>3. page' = Set(b.tab, b.mount, g) /\ ballots' = ballots \ {b}
    BY <1>4 DEF VoteAnswered
  <2> HIDE DEF g
  <2>4. /\ page' \in [Tabs -> PageType]
        /\ \A u \in Tabs : page'[u].mount = page[u].mount /\ page'[u].at = page[u].at
    BY <1>0, <1>1, <2>2, <2>3 DEF Set
  <2>5. redirects' \in [Tabs -> SUBSET Polls]
    BY <1>0, <1>1, <1>4 DEF VoteAnswered
  <2>6. UNCHANGED <<backend, token, history, loads, sent, visits, events>>
    BY <1>4 DEF VoteAnswered
  <2> QED BY <1>0, <2>3, <2>4, <2>5, <2>6, OtherTyped DEF backend
<1> QED BY <1>2, <1>3, <1>4

LEMMA IndexTyped == ASSUME TypeInv, EnsureIndexes PROVE TypeInv'
<1>1. /\ indexed' = TRUE
      /\ UNCHANGED <<status, votes, unsaved, token, page, history, loads, ballots,
                     redirects, sent, visits, events>>
  BY DEF EnsureIndexes
<1> QED BY <1>1, OtherTyped DEF TypeInv, TypeOK

LEMMA OwnerTyped ==
    ASSUME TypeInv, NEW p \in Polls,
           Delete(p) \/ \E s \in {"active", "closed"} : ChangeStatus(p, s)
    PROVE  TypeInv'
<1>1. /\ status' \in [Polls -> {"active", "closed", "gone"}]
      /\ votes' \subseteq VoteType /\ events' \in 0..MaxEvents
  BY BoundsAssumption DEF TypeInv, TypeOK, Delete, ChangeStatus, Event
<1>2. UNCHANGED <<unsaved, indexed, token, page, history, loads, ballots, redirects, sent, visits>>
  BY DEF Delete, ChangeStatus
<1> QED BY <1>1, <1>2, OtherTyped DEF TypeInv, TypeOK

LEMMA NextTyped == TypeInv /\ [Next]_vars => TypeInv'
<1> SUFFICES ASSUME TypeInv, [Next]_vars PROVE TypeInv'
  OBVIOUS
<1>1. CASE UNCHANGED vars
  BY <1>1 DEF vars, backend, TypeInv, TypeOK, Serials
<1>2. CASE Next
  BY <1>2, VisitTyped, JumpTyped, TabTyped, FormTyped, LoadTyped, BallotTyped, IndexTyped,
     OwnerTyped DEF Next
<1> QED BY <1>1, <1>2

(* The type invariant.                                                     *)
THEOREM TypeCorrect == Spec => []TypeOK
<1>1. TypeInv => TypeOK
  BY DEF TypeInv
<1> QED BY <1>1, InitTyped, NextTyped, PTL DEF Spec

-----------------------------------------------------------------------------
(* The browser has one token, and every vote and request carries it.       *)
OneToken ==
    /\ \A v \in votes : v.token = token
    /\ \A b \in ballots : b.token = token
    /\ \A l \in loads : l.token = token

OneVote == OneToken /\ OneVotePerBrowser

(* The index refuses what would be a second vote.                          *)
LEMMA NewVote ==
    ASSUME OneVote, indexed, NEW b \in ballots, ~IndexRefuses(b)
    PROVE  \A w \in votes : w.poll # b.poll
BY DEF OneVote, OneToken, IndexRefuses, HasVoted

LEMMA OneVoteNext == TypeInv /\ OneVote /\ [Next]_vars => OneVote'
<1> SUFFICES ASSUME TypeInv, OneVote, [Next]_vars PROVE OneVote'
  OBVIOUS
<1>0. /\ \A v \in votes : v.token # 0
      /\ \A b \in ballots : b.token # 0
      /\ \A l \in loads : l.token # 0
  BY DEF TypeInv, TypeOK, VoteType, BallotType, LoadType
<1>1. CASE UNCHANGED vars
  BY <1>1 DEF vars, backend, OneVote, OneToken, OneVotePerBrowser
<1>2. ASSUME NEW t \in Tabs, NEW p \in Polls, NEW m, StartLoad(t, p, m),
             UNCHANGED <<backend, ballots>>
      PROVE  OneVote'
  <2> DEFINE l == [id |-> visits + 1, tab |-> t, mount |-> m, poll |-> p,
                   token |-> token', stage |-> "results"]
  <2>1. loads' = loads \union {l} /\ l.token = token'
    BY <1>2 DEF StartLoad
  <2>2. token = 0 \/ token' = token
    BY <1>2 DEF StartLoad, VoterToken
  <2>3. token # token' => votes = {} /\ ballots = {} /\ loads = {}
    BY <1>0, <2>2 DEF OneVote, OneToken
  <2> HIDE DEF l
  <2> QED BY <1>2, <2>1, <2>3 DEF OneVote, OneToken, OneVotePerBrowser, backend
<1>3. ASSUME NEW t \in Tabs, NEW p \in Polls, Visit(t, p) \/ Jump(t, p)
      PROVE  OneVote'
  BY <1>2, <1>3 DEF Visit, Jump
<1>4. ASSUME NEW t \in Tabs, Submit(t)
      PROVE  OneVote'
  <2> DEFINE b == [id |-> sent + 1, tab |-> t, mount |-> page[t].mount, poll |-> page[t].at,
                   opt |-> page[t].selected, token |-> token', stage |-> "sent"]
  <2>1. ballots' = ballots \union {b} /\ b.token = token'
    BY <1>4 DEF Submit
  <2>2. token = 0 \/ token' = token
    BY <1>4 DEF Submit, VoterToken
  <2>3. token # token' => votes = {} /\ ballots = {} /\ loads = {}
    BY <1>0, <2>2 DEF OneVote, OneToken
  <2> HIDE DEF b
  <2> QED BY <1>4, <2>1, <2>3 DEF OneVote, OneToken, OneVotePerBrowser, backend, Submit
<1>5. ASSUME NEW t \in Tabs, Reload(t)
      PROVE  OneVote'
  <2>1. \A b \in ballots : b \in BallotType => [b EXCEPT !.mount = Orphan].token = b.token
    BY DEF BallotType
  <2>2. \A b \in ballots' : b.token = token
    BY <1>5, <2>1 DEF Reload, TypeInv, TypeOK, OneVote, OneToken
  <2> QED BY <1>5, <2>2 DEF Reload, OneVote, OneToken, OneVotePerBrowser, backend
<1>6. ASSUME NEW t \in Tabs,
             \/ Leave(t) \/ \E o \in Options : Select(t, o)
             \/ \E p \in Polls : Redirect(t, p)
      PROVE  OneVote'
  BY <1>6 DEF Leave, Select, Redirect, backend, OneVote, OneToken, OneVotePerBrowser
<1>7. ASSUME NEW l \in loads, NEW ok \in BOOLEAN, ResultsAnswered(l, ok) \/ PollAnswered(l, ok)
      PROVE  OneVote'
  <2>1. [l EXCEPT !.stage = "poll"].token = l.token
    BY DEF TypeInv, TypeOK, LoadType
  <2>2. \A k \in loads' : k.token = token
    BY <1>7, <2>1 DEF ResultsAnswered, PollAnswered, OneVote, OneToken
  <2> QED BY <1>7, <2>2 DEF ResultsAnswered, PollAnswered, backend, OneVote, OneToken,
                              OneVotePerBrowser
<1>8. ASSUME NEW b \in ballots, CastVote(b)
      PROVE  OneVote'
  <2>0. PICK r, c : c = [b EXCEPT !.stage = r] /\ ballots' = (ballots \ {b}) \union {c}
    BY <1>8, Handled
  <2>1. \A d \in ballots' : d.token = token
    BY <2>0, Restaged DEF OneVote, OneToken
  <2>2. UNCHANGED <<token, loads, indexed>>
    BY <1>8, Handled
  <2>3. CASE votes' = votes
    BY <2>1, <2>2, <2>3 DEF OneVote, OneToken, OneVotePerBrowser
  <2>4. CASE votes' = votes \union {Vote(b)} /\ ~IndexRefuses(b)
    <3>1. \A w \in votes' : w.token = token
      BY <2>4, VoteTyped DEF OneVote, OneToken
    <3>2. indexed => \A w \in votes : w.poll # b.poll
      BY <2>4, NewVote
    <3>3. OneVotePerBrowser'
      BY <2>2, <2>4, <3>2, VoteTyped DEF OneVote, OneVotePerBrowser
    <3> QED BY <2>1, <2>2, <3>1, <3>3 DEF OneVote, OneToken
  <2> QED BY <1>8, <2>3, <2>4, Handled
<1>11. ASSUME NEW b \in ballots, ConnectionLost(b)
       PROVE  OneVote'
  <2>1. PICK c, d : /\ c = [b EXCEPT !.stage = "error"] /\ d = [b EXCEPT !.mount = Orphan]
                    /\ \/ ballots' = (ballots \ {b}) \union {c}
                       \/ ballots' = (ballots \ {b}) \union {c, d}
    BY <1>11, Lost
  <2>2. \A e \in ballots' : e.token = token
    BY <2>1, Restaged, Orphaned DEF OneVote, OneToken
  <2> QED BY <1>11, <2>2 DEF ConnectionLost, backend, OneVote, OneToken, OneVotePerBrowser
<1>12. ASSUME EnsureIndexes
       PROVE  OneVote'
  BY <1>12 DEF EnsureIndexes, OneVote, OneToken, OneVotePerBrowser
<1>9. ASSUME NEW b \in ballots, VoteAnswered(b)
      PROVE  OneVote'
  BY <1>9 DEF VoteAnswered, backend, OneVote, OneToken, OneVotePerBrowser
<1>10. ASSUME NEW p \in Polls, Delete(p) \/ \E s \in {"active", "closed"} : ChangeStatus(p, s)
       PROVE  OneVote'
  BY <1>10 DEF Delete, ChangeStatus, OneVote, OneToken, OneVotePerBrowser
<1> QED BY <1>1, <1>3, <1>4, <1>5, <1>6, <1>7, <1>8, <1>9, <1>10, <1>11, <1>12 DEF Next

(* Once the index is built, one vote of the browser in each poll.                                   *)
THEOREM OneVoteEach == Spec => []OneVotePerBrowser
<1>1. Init => OneVote
  BY DEF Init, OneVote, OneToken, OneVotePerBrowser
<1>2. OneVote => OneVotePerBrowser
  BY DEF OneVote
<1> QED BY <1>1, <1>2, InitTyped, NextTyped, OneVoteNext, PTL DEF Spec

-----------------------------------------------------------------------------
LEMMA Staged ==
    ASSUME TypeInv, NEW l \in loads, NEW k, k = [l EXCEPT !.stage = "poll"]
    PROVE  k.tab = l.tab /\ k.mount = l.mount /\ k.poll = l.poll
BY DEF TypeInv, TypeOK, LoadType

(* A load and a vote of a mount that did not jump are of its poll, and so  *)
(* is what the page shows.                                                 *)
RightPoll ==
    /\ \A t \in Tabs : page[t].jumped \/ page[t].poll \in {None, page[t].at}
    /\ \A l \in loads : page[l.tab].mount = l.mount =>
           page[l.tab].jumped \/ l.poll = page[l.tab].at
    /\ \A b \in ballots : page[b.tab].mount = b.mount =>
           page[b.tab].jumped \/ b.poll = page[b.tab].at

(* A step that neither mounts a page nor sends anything.                   *)
LEMMA KeepsRightPoll ==
    ASSUME TypeInv, RightPoll,
           \A t \in Tabs :
               \/ page'[t].mount = 0 /\ page'[t].poll = None
               \/ /\ page'[t].mount = page[t].mount /\ page'[t].at = page[t].at
                  /\ page'[t].jumped = page[t].jumped
                  /\ \/ page'[t].poll = page[t].poll
                     \/ \E l \in loads : l.tab = t /\ page[t].mount = l.mount /\ page'[t].poll = l.poll,
           \A k \in loads' : \E l \in loads :
               k.tab = l.tab /\ k.mount = l.mount /\ k.poll = l.poll,
           \A c \in ballots' : \E b \in ballots :
               /\ c.tab = b.tab /\ c.mount \in {b.mount, Orphan} /\ c.poll = b.poll
    PROVE  RightPoll'
<1>0. /\ \A l \in loads : l.tab \in Tabs /\ l.mount # 0
      /\ \A b \in ballots : b.tab \in Tabs /\ b.mount # 0
      /\ \A t \in Tabs : page[t].mount # Orphan
  BY DEF TypeInv, TypeOK, LoadType, BallotType, PageType, Orphan
<1>1. \A t \in Tabs : page'[t].jumped \/ page'[t].poll \in {None, page'[t].at}
  BY <1>0 DEF RightPoll
<1>2. \A k \in loads' : page'[k.tab].mount = k.mount =>
           page'[k.tab].jumped \/ k.poll = page'[k.tab].at
  BY <1>0 DEF RightPoll
<1>3. \A c \in ballots' : page'[c.tab].mount = c.mount =>
           page'[c.tab].jumped \/ c.poll = page'[c.tab].at
  BY <1>0 DEF RightPoll, Orphan
<1> QED BY <1>1, <1>2, <1>3 DEF RightPoll

LEMMA RightPollNext == TypeInv /\ RightPoll /\ [Next]_vars => RightPoll'
<1> SUFFICES ASSUME TypeInv, RightPoll, [Next]_vars PROVE RightPoll'
  OBVIOUS
<1>0. /\ page \in [Tabs -> PageType] /\ visits \in Nat
      /\ \A t \in Tabs : page[t].mount \in Int /\ page[t].mount <= visits /\ page[t].mount # Orphan
      /\ \A l \in loads : l.tab \in Tabs /\ l.mount \in Int /\ l.mount <= visits /\ l.mount # 0
      /\ \A b \in ballots : b.tab \in Tabs /\ b.mount \in Int /\ b.mount <= visits /\ b.mount # 0
  BY DEF TypeInv, TypeOK, Serials, PageType, LoadType, BallotType, Orphan
<1>1. CASE UNCHANGED vars
  BY <1>1 DEF vars, backend, RightPoll
<1>2. ASSUME NEW t \in Tabs, NEW p \in Polls, Visit(t, p)
      PROVE  RightPoll'
  <2> DEFINE g == Mounted(p, visits + 1)
             l == [id |-> visits + 1, tab |-> t, mount |-> visits + 1, poll |-> p,
                   token |-> token', stage |-> "results"]
  <2>1. g.poll = None /\ g.mount = visits + 1 /\ g.at = p
    BY DEF Mounted
  <2>2. loads' = loads \union {l} /\ l.tab = t /\ l.mount = visits + 1 /\ l.poll = p
    BY <1>2 DEF Visit, StartLoad
  <2>3. page' = [page EXCEPT ![t] = g] /\ ballots' = ballots /\ votes' = votes
    BY <1>2 DEF Visit, backend
  <2> HIDE DEF g, l
  <2> QED BY <1>0, <2>1, <2>2, <2>3 DEF RightPoll
<1>3. ASSUME NEW t \in Tabs, NEW p \in Polls, Jump(t, p)
      PROVE  RightPoll'
  <2> DEFINE g == [page[t] EXCEPT !.at = p, !.jumped = TRUE, !.loading = TRUE]
             l == [id |-> visits + 1, tab |-> t, mount |-> page[t].mount, poll |-> p,
                   token |-> token', stage |-> "results"]
  <2>1. g.jumped /\ g.mount = page[t].mount
    BY <1>0 DEF PageType
  <2>2. loads' = loads \union {l} /\ l.tab = t
    BY <1>3 DEF Jump, StartLoad
  <2>3. page' = [page EXCEPT ![t] = g] /\ ballots' = ballots /\ votes' = votes
    BY <1>3 DEF Jump, backend
  <2> HIDE DEF g, l
  <2> QED BY <1>0, <2>1, <2>2, <2>3 DEF RightPoll
<1>4. ASSUME NEW t \in Tabs, Submit(t)
      PROVE  RightPoll'
  <2> DEFINE b == [id |-> sent + 1, tab |-> t, mount |-> page[t].mount, poll |-> page[t].at,
                   opt |-> page[t].selected, token |-> token', stage |-> "sent"]
             g == [page[t] EXCEPT !.submitting = TRUE, !.error = FALSE]
  <2>1. /\ ballots' = ballots \union {b} /\ b.tab = t /\ b.poll = page[t].at
    BY <1>4 DEF Submit
  <2>2. /\ g.mount = page[t].mount /\ g.at = page[t].at /\ g.jumped = page[t].jumped
        /\ g.poll = page[t].poll
    BY <1>0 DEF PageType
  <2>3. page' = [page EXCEPT ![t] = g] /\ loads' = loads /\ votes' = votes /\ page[t].poll # None
    BY <1>4 DEF Submit, CanSubmit, CanSelect, backend
  <2> HIDE DEF b, g
  <2> QED BY <1>0, <2>1, <2>2, <2>3 DEF RightPoll
<1>5. ASSUME NEW t \in Tabs, NEW o \in Options, Select(t, o)
      PROVE  RightPoll'
  <2> DEFINE g == [page[t] EXCEPT !.selected = o]
  <2>1. /\ g.mount = page[t].mount /\ g.at = page[t].at /\ g.jumped = page[t].jumped
        /\ g.poll = page[t].poll
    BY <1>0 DEF PageType
  <2>2. page' = [page EXCEPT ![t] = g] /\ UNCHANGED <<loads, ballots, votes>>
    BY <1>5 DEF Select, backend
  <2> HIDE DEF g
  <2> QED BY <1>0, <2>1, <2>2 DEF RightPoll
<1>6. ASSUME NEW t \in Tabs, Leave(t) \/ Reload(t) \/ \E p \in Polls : Redirect(t, p)
      PROVE  RightPoll'
  <2>1. page' = [page EXCEPT ![t] = Away] /\ loads' \subseteq loads /\ votes' = votes
    BY <1>6 DEF Leave, Reload, Redirect, backend
  <2>2. \A c \in ballots' : \E b \in ballots :
               /\ c.tab = b.tab /\ c.mount \in {b.mount, Orphan} /\ c.poll = b.poll
    BY <1>6, Orphaned DEF Leave, Reload, Redirect
  <2> QED BY <1>0, <2>1, <2>2, AwayTyped, KeepsRightPoll DEF RightPoll
<1>7. ASSUME NEW l \in loads, NEW ok \in BOOLEAN, ResultsAnswered(l, ok)
      PROVE  RightPoll'
  <2> DEFINE g == [page[l.tab] EXCEPT !.voted = TRUE]
             k == [l EXCEPT !.stage = "poll"]
  <2>1. /\ g.mount = page[l.tab].mount /\ g.at = page[l.tab].at
        /\ g.jumped = page[l.tab].jumped /\ g.poll = page[l.tab].poll
    BY <1>0 DEF PageType
  <2>2. loads' = (loads \ {l}) \union {k} /\ UNCHANGED <<ballots, votes>>
    BY <1>7 DEF ResultsAnswered, backend
  <2>3. k.tab = l.tab /\ k.mount = l.mount /\ k.poll = l.poll
    BY Staged
  <2>4. page' = page \/ page' = [page EXCEPT ![l.tab] = g]
    BY <1>7 DEF ResultsAnswered, Set
  <2> HIDE DEF g, k
  <2> QED BY <1>0, <2>1, <2>2, <2>3, <2>4, KeepsRightPoll DEF RightPoll
<1>8. ASSUME NEW l \in loads, NEW ok \in BOOLEAN, PollAnswered(l, ok)
      PROVE  RightPoll'
  <2> DEFINE g == Loaded(page[l.tab], l, ok)
  <2>1. /\ g.mount = page[l.tab].mount /\ g.at = page[l.tab].at
        /\ g.jumped = page[l.tab].jumped /\ g.poll \in {l.poll, page[l.tab].poll}
    BY <1>0 DEF PageType, Loaded
  <2>2. loads' = loads \ {l} /\ UNCHANGED <<ballots, votes>>
    BY <1>8 DEF PollAnswered, backend
  <2>3. page' = IF page[l.tab].mount = l.mount THEN [page EXCEPT ![l.tab] = g] ELSE page
    BY <1>8 DEF PollAnswered, Set
  <2> HIDE DEF g
  <2> QED BY <1>0, <2>1, <2>2, <2>3, KeepsRightPoll DEF RightPoll
<1>9. ASSUME NEW b \in ballots, CastVote(b)
      PROVE  RightPoll'
  <2>1. PICK r, c : c = [b EXCEPT !.stage = r] /\ ballots' = (ballots \ {b}) \union {c}
    BY <1>9, Handled
  <2>2. c.tab = b.tab /\ c.mount = b.mount /\ c.poll = b.poll
    BY <2>1, Restaged
  <2>3. UNCHANGED <<page, loads>>
    BY <1>9, Handled
  <2> QED BY <1>0, <2>1, <2>2, <2>3, KeepsRightPoll DEF RightPoll
<1>12. ASSUME NEW b \in ballots, ConnectionLost(b)
       PROVE  RightPoll'
  <2>1. PICK c, d : /\ c = [b EXCEPT !.stage = "error"] /\ d = [b EXCEPT !.mount = Orphan]
                    /\ \/ ballots' = (ballots \ {b}) \union {c}
                       \/ ballots' = (ballots \ {b}) \union {c, d}
    BY <1>12, Lost
  <2>2. /\ c.tab = b.tab /\ c.mount = b.mount /\ c.poll = b.poll
        /\ d.tab = b.tab /\ d.mount = Orphan /\ d.poll = b.poll
    BY <2>1, Restaged, Orphaned
  <2>3. UNCHANGED <<page, loads>>
    BY <1>12 DEF ConnectionLost
  <2> QED BY <1>0, <2>1, <2>2, <2>3, KeepsRightPoll DEF RightPoll
<1>10. ASSUME NEW b \in ballots, VoteAnswered(b)
       PROVE  RightPoll'
  <2> DEFINE g == AfterReply(page[b.tab], b.stage)
  <2>1. /\ g.mount = page[b.tab].mount /\ g.at = page[b.tab].at
        /\ g.jumped = page[b.tab].jumped /\ g.poll = page[b.tab].poll
    BY <1>0 DEF PageType, AfterReply
  <2>2. ballots' = ballots \ {b} /\ UNCHANGED <<loads, votes>>
    BY <1>10 DEF VoteAnswered, backend
  <2>3. page' = page \/ page' = [page EXCEPT ![b.tab] = g]
    BY <1>10 DEF VoteAnswered, Set
  <2> HIDE DEF g
  <2> QED BY <1>0, <2>1, <2>2, <2>3, KeepsRightPoll DEF RightPoll
<1>11. ASSUME NEW p \in Polls, Delete(p) \/ \E s \in {"active", "closed"} : ChangeStatus(p, s)
       PROVE  RightPoll'
  BY <1>11 DEF Delete, ChangeStatus, RightPoll
<1>13. ASSUME EnsureIndexes
       PROVE  RightPoll'
  BY <1>13 DEF EnsureIndexes, RightPoll
<1> QED BY <1>1, <1>2, <1>3, <1>4, <1>5, <1>6, <1>7, <1>8, <1>9, <1>10, <1>11, <1>12,
        <1>13 DEF Next

-----------------------------------------------------------------------------
(* What the page is told: an accepted vote was recorded; a duplicate was   *)
(* recorded before, or its insert failed; a deleted poll has no votes.     *)
HasVote(p) == \E v \in votes : v.poll = p
Accepted(p) == HasVote(p) \/ status[p] = "gone"
Excused(p) == Accepted(p) \/ p \in unsaved

(* After the step.                                                         *)
AcceptedThen(p) == (\E v \in votes' : v.poll = p) \/ status'[p] = "gone"
ExcusedThen(p) == AcceptedThen(p) \/ p \in unsaved'

Told ==
    /\ \A b \in ballots : b.stage = "ok" => Accepted(b.poll)
    /\ \A b \in ballots : b.stage = "conflict" => Excused(b.poll)
    /\ \A t \in Tabs : page[t].mount # 0 /\ page[t].voted /\ ~page[t].jumped => Excused(page[t].at)
    /\ RedirectsAfterVote

ToldInv == RightPoll /\ Told

(* A vote is only ever removed with its poll, which never comes back.      *)
LEMMA AcceptedStays ==
    ASSUME TypeInv, Next, NEW p \in Polls
    PROVE  (Accepted(p) => AcceptedThen(p)) /\ (Excused(p) => ExcusedThen(p))
<1>1. CASE \E q \in Polls : Delete(q)
  <2>1. PICK q \in Polls : Delete(q)
    BY <1>1
  <2>2. status' = [status EXCEPT ![q] = "gone"] /\ unsaved' = unsaved
        /\ votes' = {v \in votes : v.poll # q}
    BY <2>1 DEF Delete
  <2> QED BY <2>2 DEF TypeInv, TypeOK, Accepted, Excused, HasVote, AcceptedThen, ExcusedThen
<1>2. CASE \E q \in Polls, s \in {"active", "closed"} : ChangeStatus(q, s)
  <2>1. PICK q \in Polls, s \in {"active", "closed"} : ChangeStatus(q, s)
    BY <1>2
  <2>2. status' = [status EXCEPT ![q] = s] /\ status[q] # "gone" /\ UNCHANGED <<votes, unsaved>>
    BY <2>1 DEF ChangeStatus
  <2> QED BY <2>2 DEF TypeInv, TypeOK, Accepted, Excused, HasVote, AcceptedThen, ExcusedThen
<1>3. CASE \E b \in ballots : CastVote(b)
  <2>1. PICK b \in ballots : CastVote(b)
    BY <1>3
  <2>2. votes \subseteq votes' /\ unsaved \subseteq unsaved' /\ status' = status
    BY <2>1 DEF CastVote, PollChecked, VoteSought, Recorded, NotRecorded, backend
  <2> QED BY <2>2 DEF Accepted, Excused, HasVote, AcceptedThen, ExcusedThen
<1>4. CASE UNCHANGED <<status, votes, unsaved>>
  BY <1>4 DEF backend, Accepted, Excused, HasVote, AcceptedThen, ExcusedThen
<1>5. \/ \E q \in Polls : Delete(q)
      \/ \E q \in Polls, s \in {"active", "closed"} : ChangeStatus(q, s)
      \/ \E b \in ballots : CastVote(b)
      \/ UNCHANGED <<status, votes, unsaved>>
  BY DEF Next, backend, EnsureIndexes, ConnectionLost, Visit, Jump, Leave, Reload, Submit, Select, Redirect,
         ResultsAnswered, PollAnswered, VoteAnswered
<1> QED BY <1>1, <1>2, <1>3, <1>4, <1>5

LEMMA KeepsTold ==
    ASSUME TypeInv, ToldInv, Next,
           \A t \in Tabs :
               \/ page'[t].mount = 0 \/ ~page'[t].voted \/ page'[t].jumped \/ ExcusedThen(page'[t].at)
               \/ /\ page'[t].mount = page[t].mount /\ page'[t].at = page[t].at
                  /\ page'[t].jumped = page[t].jumped /\ page'[t].voted = page[t].voted,
           \A c \in ballots' :
               /\ c.stage = "ok" => AcceptedThen(c.poll) \/ c \in ballots
               /\ c.stage = "conflict" => ExcusedThen(c.poll) \/ c \in ballots,
           \A t \in Tabs : \A p \in redirects'[t] : AcceptedThen(p) \/ p \in redirects[t]
    PROVE  Told'
<1>0. /\ \A b \in ballots : b.poll \in Polls
      /\ \A t \in Tabs : redirects[t] \subseteq Polls
      /\ \A t \in Tabs : page[t].mount # 0 => page[t].at \in Polls
  BY DEF TypeInv, TypeOK, Serials, BallotType
<1>1. \A c \in ballots' : c.stage = "ok" => AcceptedThen(c.poll)
  BY <1>0, AcceptedStays DEF ToldInv, Told
<1>2. \A c \in ballots' : c.stage = "conflict" => ExcusedThen(c.poll)
  BY <1>0, AcceptedStays DEF ToldInv, Told
<1>3. \A t \in Tabs : page'[t].mount # 0 /\ page'[t].voted /\ ~page'[t].jumped
                      => ExcusedThen(page'[t].at)
  BY <1>0, AcceptedStays DEF ToldInv, Told
<1>4. \A t \in Tabs : \A p \in redirects'[t] : AcceptedThen(p)
  BY <1>0, AcceptedStays DEF ToldInv, Told, RedirectsAfterVote, Accepted, HasVote
<1>5. RedirectsAfterVote'
  BY <1>4 DEF RedirectsAfterVote, AcceptedThen
<1> QED BY <1>1, <1>2, <1>3, <1>5 DEF Told, Accepted, Excused, HasVote, AcceptedThen, ExcusedThen

LEMMA ToldNext == TypeInv /\ ToldInv /\ [Next]_vars => ToldInv'
<1> SUFFICES ASSUME TypeInv, ToldInv, [Next]_vars PROVE Told'
  BY RightPollNext DEF ToldInv
<1>0. /\ page \in [Tabs -> PageType] /\ redirects \in [Tabs -> SUBSET Polls]
      /\ \A l \in loads : l.tab \in Tabs /\ l.mount # 0 /\ l.poll \in Polls
      /\ \A b \in ballots : b.tab \in Tabs /\ b.mount # 0 /\ b.poll \in Polls
  BY DEF TypeInv, TypeOK, LoadType, BallotType, Orphan
<1>1. CASE UNCHANGED vars
  BY <1>1 DEF vars, backend, ToldInv, Told, Accepted, Excused, HasVote, AcceptedThen, ExcusedThen, RedirectsAfterVote
<1> SUFFICES ASSUME Next PROVE Told'
  BY <1>1
<1>2. ASSUME NEW t \in Tabs, NEW p \in Polls, Visit(t, p)
      PROVE  Told'
  <2>1. ~Mounted(p, visits + 1).voted
    BY DEF Mounted
  <2>2. page' = [page EXCEPT ![t] = Mounted(p, visits + 1)] /\ UNCHANGED <<ballots, redirects>>
    BY <1>2 DEF Visit
  <2> QED BY <1>0, <2>1, <2>2, KeepsTold
<1>3. ASSUME NEW t \in Tabs, NEW p \in Polls, Jump(t, p)
      PROVE  Told'
  <2> DEFINE g == [page[t] EXCEPT !.at = p, !.jumped = TRUE, !.loading = TRUE]
  <2>1. g.jumped
    BY <1>0 DEF PageType
  <2>2. page' = [page EXCEPT ![t] = g] /\ UNCHANGED <<ballots, redirects>>
    BY <1>3 DEF Jump
  <2> HIDE DEF g
  <2> QED BY <1>0, <2>1, <2>2, KeepsTold
<1>4. ASSUME NEW t \in Tabs, Submit(t)
      PROVE  Told'
  <2> DEFINE b == [id |-> sent + 1, tab |-> t, mount |-> page[t].mount, poll |-> page[t].at,
                   opt |-> page[t].selected, token |-> token', stage |-> "sent"]
             g == [page[t] EXCEPT !.submitting = TRUE, !.error = FALSE]
  <2>1. ballots' = ballots \union {b} /\ b.stage = "sent"
    BY <1>4 DEF Submit
  <2>2. /\ g.mount = page[t].mount /\ g.at = page[t].at /\ g.jumped = page[t].jumped
        /\ g.voted = page[t].voted
    BY <1>0 DEF PageType
  <2>3. page' = [page EXCEPT ![t] = g] /\ redirects' = redirects
    BY <1>4 DEF Submit
  <2> HIDE DEF b, g
  <2> QED BY <1>0, <2>1, <2>2, <2>3, KeepsTold
<1>5. ASSUME NEW t \in Tabs, NEW o \in Options, Select(t, o)
      PROVE  Told'
  <2> DEFINE g == [page[t] EXCEPT !.selected = o]
  <2>1. /\ g.mount = page[t].mount /\ g.at = page[t].at /\ g.jumped = page[t].jumped
        /\ g.voted = page[t].voted
    BY <1>0 DEF PageType
  <2>2. page' = [page EXCEPT ![t] = g] /\ UNCHANGED <<ballots, redirects>>
    BY <1>5 DEF Select
  <2> HIDE DEF g
  <2> QED BY <1>0, <2>1, <2>2, KeepsTold
<1>6. ASSUME NEW t \in Tabs, Leave(t) \/ Reload(t) \/ \E p \in Polls : Redirect(t, p)
      PROVE  Told'
  <2>1. /\ page' = [page EXCEPT ![t] = Away]
        /\ \A u \in Tabs : redirects'[u] \subseteq redirects[u]
    BY <1>0, <1>6 DEF Leave, Reload, Redirect
  <2>2. \A c \in ballots' : c \in ballots \/ ~Answered(c)
    BY <1>6, Orphaned DEF Leave, Reload, Redirect, Answered
  <2> QED BY <1>0, <2>1, <2>2, AwayTyped, KeepsTold DEF Answered, Replies
<1>7. ASSUME NEW l \in loads, NEW ok \in BOOLEAN, ResultsAnswered(l, ok)
      PROVE  Told'
  <2> DEFINE g == [page[l.tab] EXCEPT !.voted = TRUE]
  <2>1. g.mount = page[l.tab].mount /\ g.at = page[l.tab].at /\ g.jumped = page[l.tab].jumped
    BY <1>0 DEF PageType
  <2>2. UNCHANGED <<ballots, redirects, votes, status, unsaved>>
    BY <1>7 DEF ResultsAnswered, backend
  <2>3. \/ page' = page
        \/ /\ page[l.tab].mount = l.mount /\ page' = [page EXCEPT ![l.tab] = g]
           /\ HasVote(l.poll)
    BY <1>7 DEF ResultsAnswered, Set, HasVoted, HasVote
  <2> HIDE DEF g
  <2>4. CASE page' = page
    BY <1>0, <2>2, <2>4, KeepsTold
  <2>5. CASE page' # page
    <3>1. page[l.tab].jumped \/ l.poll = page[l.tab].at
      BY <2>3, <2>5 DEF ToldInv, RightPoll
    <3>2. g.jumped \/ ExcusedThen(g.at)
      BY <3>1, <2>1, <2>2, <2>3, <2>5 DEF Excused, Accepted, HasVote, AcceptedThen, ExcusedThen
    <3>3. page' = [page EXCEPT ![l.tab] = g]
      BY <2>3, <2>5
    <3>4. \A u \in Tabs : page'[u] = IF u = l.tab THEN g ELSE page[u]
      BY <1>0, <3>3
    <3> QED BY <1>0, <2>2, <3>2, <3>4, KeepsTold
  <2> QED BY <2>4, <2>5
<1>8. ASSUME NEW l \in loads, NEW ok \in BOOLEAN, PollAnswered(l, ok)
      PROVE  Told'
  <2> DEFINE g == Loaded(page[l.tab], l, ok)
  <2>1. /\ g.mount = page[l.tab].mount /\ g.at = page[l.tab].at
        /\ g.jumped = page[l.tab].jumped /\ g.voted = page[l.tab].voted
    BY <1>0 DEF PageType, Loaded
  <2>2. page' = page \/ page' = [page EXCEPT ![l.tab] = g]
    BY <1>8 DEF PollAnswered, Set
  <2>3. UNCHANGED <<ballots, redirects>>
    BY <1>8 DEF PollAnswered
  <2> HIDE DEF g
  <2> QED BY <1>0, <2>1, <2>2, <2>3, KeepsTold
<1>9. ASSUME NEW b \in ballots, CastVote(b)
      PROVE  Told'
  <2>1. PICK r, c : /\ c = [b EXCEPT !.stage = r] /\ ballots' = (ballots \ {b}) \union {c}
                    /\ r = "ok" => AcceptedThen(b.poll)
                    /\ r = "conflict" => ExcusedThen(b.poll)
    <3>0. ASSUME NEW q, ToStage(b, q),
                 q \in {"ok", "conflict"} => ExcusedThen(b.poll),
                 q = "ok" => AcceptedThen(b.poll)
          PROVE  \E r, c : /\ c = [b EXCEPT !.stage = r]
                           /\ ballots' = (ballots \ {b}) \union {c}
                           /\ r = "ok" => AcceptedThen(b.poll)
                           /\ r = "conflict" => ExcusedThen(b.poll)
      BY <3>0 DEF ToStage
    <3>1. CASE PollChecked(b)
      BY <3>0, <3>1 DEF PollChecked
    <3>2. CASE VoteSought(b)
      <4>1. HasVoted(b.token, b.poll) => ExcusedThen(b.poll)
        BY <3>2 DEF VoteSought, HasVoted, backend, AcceptedThen, ExcusedThen
      <4> QED BY <3>0, <3>2, <4>1 DEF VoteSought
    <3>3. CASE Recorded(b)
      <4>1. AcceptedThen(b.poll) /\ ExcusedThen(b.poll)
        BY <3>3, VoteTyped DEF Recorded, AcceptedThen, ExcusedThen
      <4> QED BY <3>0, <3>3, <4>1 DEF Recorded
    <3>4. CASE NotRecorded(b)
      <4>1. ExcusedThen(b.poll)
        BY <3>4 DEF NotRecorded, IndexRefuses, HasVoted, AcceptedThen, ExcusedThen
      <4> QED BY <3>0, <3>4, <4>1 DEF NotRecorded
    <3> QED BY <1>9, <3>1, <3>2, <3>3, <3>4 DEF CastVote
  <2>2. c.poll = b.poll /\ c.stage = r
    BY <2>1, Restaged
  <2>3. UNCHANGED <<page, redirects>>
    BY <1>9, Handled
  <2> QED BY <1>0, <2>1, <2>2, <2>3, KeepsTold
<1>12. ASSUME NEW b \in ballots, ConnectionLost(b)
       PROVE  Told'
  <2>1. PICK c, d : /\ c = [b EXCEPT !.stage = "error"] /\ d = [b EXCEPT !.mount = Orphan]
                    /\ \/ ballots' = (ballots \ {b}) \union {c}
                       \/ ~Answered(b) /\ ballots' = (ballots \ {b}) \union {c, d}
    BY <1>12, Lost
  <2>2. c.stage = "error" /\ d.stage = b.stage
    BY <2>1, Restaged, Orphaned
  <2>3. UNCHANGED <<page, redirects>>
    BY <1>12 DEF ConnectionLost
  <2> QED BY <1>0, <2>1, <2>2, <2>3, KeepsTold DEF Answered, Replies
<1>13. ASSUME EnsureIndexes
       PROVE  Told'
  <2>1. UNCHANGED <<page, ballots, redirects>>
    BY <1>13 DEF EnsureIndexes
  <2> QED BY <2>1, KeepsTold
<1>10. ASSUME NEW b \in ballots, VoteAnswered(b)
       PROVE  Told'
  <2> DEFINE g == AfterReply(page[b.tab], b.stage)
  <2>0. UNCHANGED backend /\ b.stage \in {"ok", "conflict", "error"}
    BY <1>10 DEF VoteAnswered, Answered, Replies
  <2>1. /\ g.mount = page[b.tab].mount /\ g.at = page[b.tab].at
        /\ g.jumped = page[b.tab].jumped
        /\ b.stage = "error" => g.voted = page[b.tab].voted
    BY <1>0 DEF PageType, AfterReply
  <2>2. /\ b.stage = "ok" => AcceptedThen(b.poll)
        /\ b.stage # "error" => ExcusedThen(b.poll)
    BY <2>0 DEF ToldInv, Told, Accepted, Excused, HasVote, AcceptedThen, ExcusedThen, backend
  <2>3. ballots' = ballots \ {b}
    BY <1>10 DEF VoteAnswered
  <2>4. \/ page' = page
        \/ page[b.tab].mount = b.mount /\ page' = [page EXCEPT ![b.tab] = g]
    BY <1>10 DEF VoteAnswered, Set
  <2>5. \A t \in Tabs : \A p \in redirects'[t] : AcceptedThen(p) \/ p \in redirects[t]
    BY <1>0, <1>10, <2>2 DEF VoteAnswered, Redirects
  <2> HIDE DEF g
  <2>6. CASE page' = page
    BY <2>3, <2>5, <2>6, KeepsTold
  <2>7. CASE page[b.tab].mount = b.mount /\ page' = [page EXCEPT ![b.tab] = g]
    <3>1. page[b.tab].jumped \/ b.poll = page[b.tab].at
      BY <2>7 DEF ToldInv, RightPoll
    <3>2. g.jumped \/ ExcusedThen(g.at) \/ b.stage = "error"
      BY <3>1, <2>1, <2>2
    <3>3. \A u \in Tabs : page'[u] = IF u = b.tab THEN g ELSE page[u]
      BY <1>0, <2>7
    <3> QED BY <1>0, <2>1, <2>3, <2>5, <3>2, <3>3, KeepsTold
  <2> QED BY <2>4, <2>6, <2>7
<1>11. ASSUME NEW p \in Polls, Delete(p) \/ \E s \in {"active", "closed"} : ChangeStatus(p, s)
       PROVE  Told'
  <2>1. UNCHANGED <<page, ballots, redirects>>
    BY <1>11 DEF Delete, ChangeStatus
  <2> QED BY <2>1, KeepsTold
<1> QED BY <1>2, <1>3, <1>4, <1>5, <1>6, <1>7, <1>8, <1>9, <1>10, <1>11,
        <1>12, <1>13 DEF Next

(* The page thanks for, and goes on to the results of, votes that are      *)
(* there.                                                                  *)
LEMMA ToldAlways == Spec => [](TypeInv /\ ToldInv)
<1>1. Init => ToldInv
  BY AwayTyped DEF Init, ToldInv, Told, RightPoll, RedirectsAfterVote
<1> QED BY <1>1, InitTyped, NextTyped, ToldNext, PTL DEF Spec

(* Thanks are for a vote of this browser.                                  *)
THEOREM ThankedForAVote == Spec => []ThanksForAVote
<1>1. TypeInv /\ ToldInv => ThanksForAVote
  BY DEF ToldInv, Told, ThanksForAVote, Screen, Excused, Accepted, HasVote, AcceptedThen, ExcusedThen
<1> QED BY <1>1, ToldAlways, PTL

(* A redirect is to the results of a poll the browser voted in.            *)
THEOREM RedirectedAfterVote == Spec => []RedirectsAfterVote
<1>1. ToldInv => RedirectsAfterVote
  BY DEF ToldInv, Told
<1> QED BY <1>1, ToldAlways, PTL

-----------------------------------------------------------------------------
(* A page has a ballot on its way exactly if it is submitting, and not two;*)
(* it has a load on its way if it is loading.                              *)
Going ==
    /\ \A b \in ballots : page[b.tab].mount = b.mount => page[b.tab].submitting
    /\ \A b, c \in ballots :
           b.tab = c.tab /\ b.mount = c.mount /\ page[b.tab].mount = b.mount => b = c
    /\ \A t \in Tabs : page[t].mount # 0 /\ page[t].submitting =>
           \E b \in ballots : b.tab = t /\ b.mount = page[t].mount
    /\ \A t \in Tabs : page[t].mount # 0 /\ page[t].loading =>
           \E l \in loads : l.tab = t /\ l.mount = page[t].mount

LEMMA GoingNext == TypeInv /\ Going /\ [Next]_vars => Going'
<1> SUFFICES ASSUME TypeInv, Going, [Next]_vars PROVE Going'
  OBVIOUS
<1>0. /\ page \in [Tabs -> PageType] /\ visits \in Nat
      /\ \A t \in Tabs : page[t].mount \in Int /\ page[t].mount <= visits /\ page[t].mount # Orphan
      /\ \A l \in loads : l.tab \in Tabs /\ l.mount \in Int /\ l.mount <= visits /\ l.mount # 0
      /\ \A b \in ballots : b.tab \in Tabs /\ b.mount \in Int /\ b.mount <= visits /\ b.mount # 0
  BY DEF TypeInv, TypeOK, Serials, PageType, LoadType, BallotType, Orphan
<1>1. CASE UNCHANGED vars
  BY <1>1 DEF vars, backend, Going
<1>2. ASSUME NEW t \in Tabs, NEW p \in Polls, Visit(t, p)
      PROVE  Going'
  <2> DEFINE g == Mounted(p, visits + 1)
             l == [id |-> visits + 1, tab |-> t, mount |-> visits + 1, poll |-> p,
                   token |-> token', stage |-> "results"]
  <2>1. ~g.submitting /\ g.mount = visits + 1
    BY DEF Mounted
  <2>2. loads' = loads \union {l} /\ l.tab = t /\ l.mount = visits + 1
    BY <1>2 DEF Visit, StartLoad
  <2>3. page' = [page EXCEPT ![t] = g] /\ ballots' = ballots
    BY <1>2 DEF Visit
  <2> HIDE DEF g, l
  <2> QED BY <1>0, <2>1, <2>2, <2>3 DEF Going
<1>3. ASSUME NEW t \in Tabs, NEW p \in Polls, Jump(t, p)
      PROVE  Going'
  <2> DEFINE g == [page[t] EXCEPT !.at = p, !.jumped = TRUE, !.loading = TRUE]
             l == [id |-> visits + 1, tab |-> t, mount |-> page[t].mount, poll |-> p,
                   token |-> token', stage |-> "results"]
  <2>1. g.mount = page[t].mount /\ g.submitting = page[t].submitting
    BY <1>0 DEF PageType
  <2>2. loads' = loads \union {l} /\ l.tab = t /\ l.mount = page[t].mount
    BY <1>3 DEF Jump, StartLoad
  <2>3. page' = [page EXCEPT ![t] = g] /\ ballots' = ballots
    BY <1>3 DEF Jump
  <2> HIDE DEF g, l
  <2> QED BY <1>0, <2>1, <2>2, <2>3 DEF Going
<1>4. ASSUME NEW t \in Tabs, Submit(t)
      PROVE  Going'
  <2> DEFINE b == [id |-> sent + 1, tab |-> t, mount |-> page[t].mount, poll |-> page[t].at,
                   opt |-> page[t].selected, token |-> token', stage |-> "sent"]
             g == [page[t] EXCEPT !.submitting = TRUE, !.error = FALSE]
  <2>1. ballots' = ballots \union {b} /\ b.tab = t /\ b.mount = page[t].mount
    BY <1>4 DEF Submit
  <2>2. g.mount = page[t].mount /\ g.submitting /\ g.loading = page[t].loading
    BY <1>0 DEF PageType
  <2>3. page' = [page EXCEPT ![t] = g] /\ loads' = loads /\ ~page[t].submitting
    BY <1>4 DEF Submit, CanSubmit
  <2> HIDE DEF b, g
  <2> QED BY <1>0, <2>1, <2>2, <2>3 DEF Going
<1>5. ASSUME NEW t \in Tabs, NEW o \in Options, Select(t, o)
      PROVE  Going'
  <2> DEFINE g == [page[t] EXCEPT !.selected = o]
  <2>1. /\ g.mount = page[t].mount /\ g.submitting = page[t].submitting
        /\ g.loading = page[t].loading
    BY <1>0 DEF PageType
  <2>2. page' = [page EXCEPT ![t] = g] /\ UNCHANGED <<loads, ballots>>
    BY <1>5 DEF Select
  <2> HIDE DEF g
  <2> QED BY <1>0, <2>1, <2>2 DEF Going
<1>6. ASSUME NEW t \in Tabs, Leave(t) \/ \E p \in Polls : Redirect(t, p)
      PROVE  Going'
  <2>1. page' = [page EXCEPT ![t] = Away] /\ UNCHANGED <<loads, ballots>>
    BY <1>6 DEF Leave, Redirect
  <2> QED BY <1>0, <2>1, AwayTyped DEF Going
<1>7. ASSUME NEW t \in Tabs, Reload(t)
      PROVE  Going'
  <2>1. page' = [page EXCEPT ![t] = Away] /\ loads' = {l \in loads : l.tab # t}
    BY <1>7 DEF Reload
  <2>2. \A c \in ballots' : \/ c \in ballots /\ c.tab # t
                            \/ c.tab = t /\ c.mount = Orphan
    BY <1>7, Orphaned DEF Reload
  <2>3. \A b \in ballots : b.tab # t => b \in ballots'
    BY <1>7 DEF Reload
  <2> QED BY <1>0, <2>1, <2>2, <2>3, AwayTyped DEF Going, Orphan
<1>8. ASSUME NEW l \in loads, NEW ok \in BOOLEAN, ResultsAnswered(l, ok)
      PROVE  Going'
  <2> DEFINE g == [page[l.tab] EXCEPT !.voted = TRUE]
             k == [l EXCEPT !.stage = "poll"]
  <2>1. /\ g.mount = page[l.tab].mount /\ g.submitting = page[l.tab].submitting
        /\ g.loading = page[l.tab].loading
    BY <1>0 DEF PageType
  <2>2. loads' = (loads \ {l}) \union {k} /\ ballots' = ballots
    BY <1>8 DEF ResultsAnswered
  <2>3. k.tab = l.tab /\ k.mount = l.mount
    BY Staged
  <2>4. page' = page \/ page' = [page EXCEPT ![l.tab] = g]
    BY <1>8 DEF ResultsAnswered, Set
  <2> HIDE DEF g, k
  <2> QED BY <1>0, <2>1, <2>2, <2>3, <2>4 DEF Going
<1>9. ASSUME NEW l \in loads, NEW ok \in BOOLEAN, PollAnswered(l, ok)
      PROVE  Going'
  <2> DEFINE g == Loaded(page[l.tab], l, ok)
  <2>1. /\ g.mount = page[l.tab].mount /\ g.submitting = page[l.tab].submitting
        /\ ~g.loading
    BY <1>0 DEF PageType, Loaded
  <2>2. loads' = loads \ {l} /\ ballots' = ballots
    BY <1>9 DEF PollAnswered
  <2>3. page' = IF page[l.tab].mount = l.mount THEN [page EXCEPT ![l.tab] = g] ELSE page
    BY <1>9 DEF PollAnswered, Set
  <2> HIDE DEF g
  <2> QED BY <1>0, <2>1, <2>2, <2>3 DEF Going
<1>10. ASSUME NEW b \in ballots, CastVote(b)
       PROVE  Going'
  <2>1. PICK r, c : c = [b EXCEPT !.stage = r] /\ ballots' = (ballots \ {b}) \union {c}
    BY <1>10, Handled
  <2>2. c.tab = b.tab /\ c.mount = b.mount
    BY <2>1, Restaged
  <2>3. UNCHANGED <<page, loads>>
    BY <1>10, Handled
  <2>4. /\ \A e \in ballots' : e = c \/ (e \in ballots /\ e # b)
        /\ c \in ballots' /\ \A e \in ballots : e # b => e \in ballots'
    BY <2>1
  <2>5. /\ \A e \in ballots' : page[e.tab].mount = e.mount => page[e.tab].submitting
        /\ \A e, f \in ballots' :
             e.tab = f.tab /\ e.mount = f.mount /\ page[e.tab].mount = e.mount => e = f
    BY <2>2, <2>4 DEF Going
  <2>6. \A t \in Tabs : page[t].mount # 0 /\ page[t].submitting =>
             \E e \in ballots' : e.tab = t /\ e.mount = page[t].mount
    BY <2>2, <2>4 DEF Going
  <2> QED BY <2>3, <2>5, <2>6 DEF Going
<1>13. ASSUME NEW b \in ballots, ConnectionLost(b)
       PROVE  Going'
  <2>1. PICK c, d : /\ c = [b EXCEPT !.stage = "error"] /\ d = [b EXCEPT !.mount = Orphan]
                    /\ \/ ballots' = (ballots \ {b}) \union {c}
                       \/ ballots' = (ballots \ {b}) \union {c, d}
    BY <1>13, Lost
  <2>2. c.tab = b.tab /\ c.mount = b.mount /\ d.tab = b.tab /\ d.mount = Orphan
    BY <2>1, Restaged, Orphaned
  <2>3. UNCHANGED <<page, loads>>
    BY <1>13 DEF ConnectionLost
  <2>4. /\ \A e \in ballots' : e \in {c, d} \/ (e \in ballots /\ e # b)
        /\ c \in ballots' /\ \A e \in ballots : e # b => e \in ballots'
    BY <2>1
  <2>5. /\ \A e \in ballots' : page[e.tab].mount = e.mount => page[e.tab].submitting
        /\ \A e, f \in ballots' :
             e.tab = f.tab /\ e.mount = f.mount /\ page[e.tab].mount = e.mount => e = f
    BY <1>0, <2>2, <2>4 DEF Going
  <2>6. \A t \in Tabs : page[t].mount # 0 /\ page[t].submitting =>
             \E e \in ballots' : e.tab = t /\ e.mount = page[t].mount
    BY <1>0, <2>2, <2>4 DEF Going
  <2> QED BY <2>3, <2>5, <2>6 DEF Going
<1>14. ASSUME EnsureIndexes
       PROVE  Going'
  BY <1>14 DEF EnsureIndexes, Going
<1>11. ASSUME NEW b \in ballots, VoteAnswered(b)
       PROVE  Going'
  <2> DEFINE g == AfterReply(page[b.tab], b.stage)
  <2>1. /\ g.mount = page[b.tab].mount /\ ~g.submitting
        /\ g.loading = page[b.tab].loading
    BY <1>0 DEF PageType, AfterReply
  <2>2. ballots' = ballots \ {b} /\ loads' = loads
    BY <1>11 DEF VoteAnswered
  <2>3. page' = IF page[b.tab].mount = b.mount THEN [page EXCEPT ![b.tab] = g] ELSE page
    BY <1>11 DEF VoteAnswered, Set
  <2> HIDE DEF g
  <2> QED BY <1>0, <2>1, <2>2, <2>3 DEF Going
<1>12. ASSUME NEW p \in Polls, Delete(p) \/ \E s \in {"active", "closed"} : ChangeStatus(p, s)
       PROVE  Going'
  BY <1>12 DEF Delete, ChangeStatus, Going
<1> QED BY <1>1, <1>2, <1>3, <1>4, <1>5, <1>6, <1>7, <1>8, <1>9, <1>10, <1>11, <1>12,
        <1>13, <1>14 DEF Next

LEMMA GoingAlways == Spec => [](TypeInv /\ Going)
<1>1. Init => Going
  BY AwayTyped DEF Init, Going
<1> QED BY <1>1, InitTyped, NextTyped, GoingNext, PTL DEF Spec

(* The button is disabled exactly while a vote is on its way.              *)
THEOREM BusyWhileSent == Spec => []BusyIffSent
<1>1. TypeInv /\ Going => BusyIffSent
  <2> SUFFICES ASSUME TypeInv, Going, NEW t \in Tabs, page[t].mount # 0
               PROVE  Cardinality({b \in ballots : b.tab = t /\ b.mount = page[t].mount})
                        = IF page[t].submitting THEN 1 ELSE 0
    BY DEF BusyIffSent
  <2> DEFINE mine == {b \in ballots : b.tab = t /\ b.mount = page[t].mount}
  <2>1. CASE page[t].submitting
    <3>1. PICK b \in ballots : mine = {b}
      BY <2>1 DEF Going
    <3> QED BY <2>1, <3>1, FS_Singleton
  <2>2. CASE ~page[t].submitting
    <3>1. mine = {}
      BY <2>2 DEF Going
    <3> QED BY <2>2, <3>1, FS_EmptySet
  <2> QED BY <2>1, <2>2
<1> QED BY <1>1, GoingAlways, PTL

(* The spinner ends: a load of the page is going on.                       *)
THEOREM SpinnerEnds == Spec => []SpinnerHasALoad
<1>1. TypeInv /\ Going => SpinnerHasALoad
  BY DEF Going, SpinnerHasALoad, Screen
<1> QED BY <1>1, GoingAlways, PTL
=============================================================================
