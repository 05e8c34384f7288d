------------------------------ MODULE LiveHook ------------------------------
(***************************************************************************)
(* One visit of the results page (PollResults.jsx) with its hook           *)
(* usePollLive.js: the sockets that connect makes, the timers that make it *)
(* connect again, and the two refs and the flag that all of them share.    *)
(*                                                                         *)
(* The argument of the hook is the route parameter until results are       *)
(* there, and then the poll id: a visit by share code runs the effect      *)
(* twice.  Callbacks of a socket keep the connect of the effect run that   *)
(* made it.  The server, and the counts of a message, are left out.        *)
(***************************************************************************)
EXTENDS Integers, Sequences, FiniteSets

CONSTANTS
    Params,      \* route parameters of the visit: "code", "id" or both
    MaxBreaks    \* bound on the sockets that break or are refused

ASSUME ParamsAssumption == Params \subseteq {"code", "id"}
ASSUME MaxBreaksAssumption == MaxBreaks \in Nat

VARIABLES
    page,        \* "open" or "left"
    key,         \* the argument of the hook
    fetch,       \* fetchResults: "out" or "done"
    effect,      \* the runs of the effect so far: the key of each
    sockets,     \* every socket made: the effect run and its state
    timers,      \* pending timeouts, by the socket whose close set them
    wsRef,       \* wsRef.current, or 0
    timerRef,    \* reconnectTimeoutRef.current, or 0
    connected,   \* isConnected
    breaks       \* sockets broken or refused so far

vars == <<page, key, fetch, effect, sockets, timers, wsRef, timerRef, connected, breaks>>

Init ==
    /\ page = "open" /\ key \in Params /\ fetch = "out"
    /\ effect = <<>> /\ sockets = <<>> /\ timers = {}
    /\ wsRef = 0 /\ timerRef = 0 /\ connected = FALSE /\ breaks = 0

Alive(s) == sockets[s].state \in {"connecting", "open", "closing"}

(* connect, in the closure of effect run r, on top of the sockets q.       *)
Connect(r, q) ==
    /\ sockets' = Append(q, [run |-> r, state |-> "connecting"])
    /\ wsRef' = Len(q) + 1

(* The cleanup: clear the last timer and close the last socket, whichever  *)
(* run they belong to.  The close event comes later.                       *)
Cleaned == [s \in DOMAIN sockets |->
              IF s = wsRef /\ sockets[s].state \in {"connecting", "open"}
              THEN [sockets[s] EXCEPT !.state = "closing"] ELSE sockets[s]]

EffectIsDue == IF effect = <<>> THEN TRUE ELSE effect[Len(effect)] # key

RunEffect ==
    /\ page = "open" /\ EffectIsDue
    /\ effect' = Append(effect, key)
    /\ timers' = timers \ {timerRef}
    /\ Connect(Len(effect) + 1, Cleaned)
    /\ UNCHANGED <<page, key, fetch, timerRef, connected, breaks>>

Leave ==
    /\ page = "open"
    /\ page' = "left"
    /\ timers' = timers \ {timerRef}
    /\ sockets' = Cleaned
    /\ UNCHANGED <<key, fetch, effect, wsRef, timerRef, connected, breaks>>

(* setState on a page that was left does nothing.                          *)
SetConnected(b) == connected' = IF page = "open" THEN b ELSE connected

Opens(s) ==
    /\ sockets[s].state = "connecting"
    /\ sockets' = [sockets EXCEPT ![s].state = "open"]
    /\ SetConnected(TRUE)
    /\ UNCHANGED <<page, key, fetch, effect, timers, wsRef, timerRef, breaks>>

-----------------------------------------------------------------------------
(* onclose, also after onerror: of a socket that the cleanup closed, or    *)
(* that the server or the network broke or refused.                        *)

(* A mistake: only the socket in the ref tells the page that it is gone.   *)
CloseFlagOfCurrent(s) ==
    IF s = wsRef THEN SetConnected(FALSE) ELSE UNCHANGED connected

CloseFlag(s) == SetConnected(FALSE)

(* A mistake: a socket that never opened is not tried again.               *)
RetryIfOpened(s) ==
    IF sockets[s].state = "connecting" THEN UNCHANGED <<timers, timerRef>>
    ELSE timers' = timers \union {s} /\ timerRef' = s

Retry(s) == timers' = timers \union {s} /\ timerRef' = s

OnClose(s) ==
    /\ Alive(s)
    /\ IF sockets[s].state = "closing" THEN UNCHANGED breaks
                                       ELSE breaks < MaxBreaks /\ breaks' = breaks + 1
    /\ sockets' = [sockets EXCEPT ![s].state = "closed"]
    /\ CloseFlag(s) /\ Retry(s)
    /\ UNCHANGED <<page, key, fetch, effect, wsRef>>

(* Mistakes: an interval for a timeout; a timeout that is only put off.    *)
IntervalFires(s) ==
    /\ s \in timers /\ UNCHANGED timers
    /\ Connect(sockets[s].run, sockets)
    /\ UNCHANGED <<page, key, fetch, effect, timerRef, connected, breaks>>

TimerPutOff(s) == s \in timers /\ UNCHANGED vars

TimerFires(s) ==
    /\ s \in timers /\ timers' = timers \ {s}
    /\ Connect(sockets[s].run, sockets)
    /\ UNCHANGED <<page, key, fetch, effect, timerRef, connected, breaks>>

-----------------------------------------------------------------------------
(* The results come, from the fetch or, if there are none yet, from a live *)
(* update; from then on the hook gets the poll id.                         *)

FetchEnds ==
    /\ page = "open" /\ fetch = "out"
    /\ fetch' = "done"
    /\ key' \in {key, "id"}
    /\ UNCHANGED <<page, effect, sockets, timers, wsRef, timerRef, connected, breaks>>

LiveUpdate(s) ==
    /\ page = "open" /\ sockets[s].state = "open" /\ key # "id"
    /\ key' = "id"
    /\ UNCHANGED <<page, fetch, effect, sockets, timers, wsRef, timerRef, connected, breaks>>

-----------------------------------------------------------------------------
Next == \/ RunEffect \/ Leave \/ FetchEnds
        \/ \E s \in DOMAIN sockets : Opens(s) \/ OnClose(s) \/ LiveUpdate(s)
        \/ \E s \in timers : TimerFires(s)

Spec == Init /\ [][Next]_vars

(* React runs the effect, timers fire, a socket that was closed tells so,  *)
(* and a connection that is not refused opens.                             *)
MaxSockets == 4 + MaxBreaks

FairSpec ==
    /\ Spec
    /\ WF_vars(RunEffect)
    /\ \A s \in 1..MaxSockets :
        /\ WF_vars(s \in timers /\ TimerFires(s))
        /\ WF_vars(s \in DOMAIN sockets /\ Opens(s))
        /\ WF_vars(s \in DOMAIN sockets /\ sockets[s].state = "closing" /\ OnClose(s))

-----------------------------------------------------------------------------
(* Properties.                                                             *)

(* Every variable has its type, and a visit makes a bounded number of      *)
(* sockets: one per effect run, per break and per cleanup.                 *)
TypeOK ==
    /\ page \in {"open", "left"} /\ key \in {"code", "id"} /\ fetch \in {"out", "done"}
    /\ effect \in Seq({"code", "id"}) /\ Len(effect) <= 2
    /\ sockets \in Seq([run : 1..Len(effect),
                        state : {"connecting", "open", "closing", "closed"}])
    /\ Len(sockets) <= MaxSockets
    /\ timers \subseteq DOMAIN sockets
    /\ wsRef \in 0..Len(sockets) /\ timerRef \in 0..Len(sockets)
    /\ connected \in BOOLEAN /\ breaks \in 0..MaxBreaks

(* What an effect run has left: a socket that is not closed, or a timer.   *)
Chain(r) == {s \in DOMAIN sockets : sockets[s].run = r /\ (Alive(s) \/ s \in timers)}

(* Breaks, refusals, cleanups and timers never multiply: every effect run  *)
(* has at most one socket or timer, also after the page was left or went   *)
(* on to another key (the close event of the cleanup sets a timer, so the  *)
(* old run does not end, but it does not breed).                           *)
OneChainEach == \A r \in 1..Len(effect) :
    /\ Cardinality(Chain(r)) <= 1
    /\ \A s \in Chain(r) : ~(Alive(s) /\ s \in timers)

(* As long as the page is open its latest effect run has a socket or a     *)
(* timer to make one: no break, refusal or close event of an older run     *)
(* leaves the page without live updates for good.                          *)
KeepsTrying ==
    page = "open" /\ effect # <<>> =>
        \E s \in Chain(Len(effect)) : s \in timers \/ sockets[s].state # "closing"

(* The page says "WebSocket Sync Connected" only if a socket of it is open *)
(* or is being closed, whichever socket set the flag last.                 *)
ConnectedIsTrue ==
    page = "open" /\ connected =>
        \E s \in DOMAIN sockets : sockets[s].state \in {"open", "closing"}

(* With finitely many breaks a page that stays open is connected for its   *)
(* poll in the end, and stays so.                                          *)
ConnectsAgain ==
    <>[](page = "left" \/ \E s \in DOMAIN sockets :
            /\ sockets[s].state = "open" /\ sockets[s].run = Len(effect)
            /\ effect[sockets[s].run] = key)
=============================================================================
