--------------------------- MODULE LiveHookProofs ---------------------------
(***************************************************************************)
(* Proofs about LiveHook, for any route parameters and number of breaks.   *)
(***************************************************************************)
EXTENDS LiveHook, FiniteSetTheorems, TLAPS

Socket == [run : Nat, state : {"connecting", "open", "closing", "closed"}]

(* The types without the bound on the sockets, and: a page has at most two *)
(* effect runs, since the poll id is the last key it gets.                 *)
HookType ==
    /\ page \in {"open", "left"} /\ key \in {"code", "id"} /\ fetch \in {"out", "done"}
    /\ effect \in Seq({"code", "id"}) /\ Len(effect) <= 2
    /\ sockets \in Seq(Socket) /\ timers \subseteq DOMAIN sockets
    /\ \A s \in DOMAIN sockets : sockets[s].run \in 1..Len(effect)
    /\ wsRef \in 0..Len(sockets) /\ timerRef \in 0..Len(sockets)
    /\ connected \in BOOLEAN /\ breaks \in 0..MaxBreaks

LastKey ==
    /\ Len(effect) = 2 => effect[2] = "id"
    /\ effect # <<>> /\ effect[Len(effect)] = "id" => key = "id"

Busy(s) == Alive(s) \/ s \in timers

(* Every effect run has at most one socket that is not closed or timer.    *)
Single ==
    /\ \A s \in timers : sockets[s].state = "closed"
    /\ \A s, u \in DOMAIN sockets :
           sockets[s].run = sockets[u].run /\ Busy(s) /\ Busy(u) => s = u

(* Every socket but the first of an effect run comes from a timer, every   *)
(* timer from a close event, and every close event from a break or one of  *)
(* the two cleanups: sockets and those still to come are paid for.         *)
Pend == {s \in DOMAIN sockets : sockets[s].state = "closing"} \union timers

Cleanups == (IF Len(effect) = 2 THEN 1 ELSE 0) + (IF page = "left" THEN 1 ELSE 0)

Paid == Len(sockets) + Cardinality(Pend) <= Len(effect) + breaks + Cleanups

HookInv == HookType /\ LastKey /\ Single /\ KeepsTrying /\ ConnectedIsTrue /\ Paid

LEMMA OneMore ==
    ASSUME NEW A, IsFiniteSet(A), NEW x, NEW B, B \subseteq A \union {x}
    PROVE  Cardinality(B) \in Nat /\ Cardinality(B) <= Cardinality(A) + 1
<1>1. IsFiniteSet(A \union {x}) /\ Cardinality(A \union {x}) <= Cardinality(A) + 1
  <2>1. /\ IsFiniteSet(A \union {x}) /\ Cardinality(A) \in Nat
        /\ \/ Cardinality(A \union {x}) = Cardinality(A)
           \/ Cardinality(A \union {x}) = Cardinality(A) + 1
    BY FS_AddElement, FS_CardinalityType
  <2> QED BY <2>1
<1>2. IsFiniteSet(B) /\ Cardinality(B) <= Cardinality(A \union {x})
  BY <1>1, FS_Subset
<1>3. Cardinality(A) \in Nat /\ Cardinality(B) \in Nat /\ Cardinality(A \union {x}) \in Nat
  BY <1>1, <1>2, FS_CardinalityType
<1> QED BY <1>1, <1>2, <1>3

LEMMA PendFacts ==
    ASSUME HookType
    PROVE  /\ IsFiniteSet(Pend) /\ Cardinality(Pend) \in Nat
           /\ Len(sockets) \in Nat /\ Len(effect) \in 0..2 /\ breaks \in Nat
<1>1. Len(sockets) \in Nat /\ DOMAIN sockets = 1..Len(sockets) /\ Pend \subseteq 1..Len(sockets)
  BY DEF HookType, Pend
<1>2. IsFiniteSet(1..Len(sockets))
  BY <1>1, FS_Interval
<1>3. IsFiniteSet(Pend) /\ Cardinality(Pend) \in Nat
  BY <1>1, <1>2, FS_Subset, FS_CardinalityType
<1>4. Len(effect) \in Nat /\ Len(effect) <= 2
  BY DEF HookType
<1>5. Len(effect) \in 0..2
  <2>1. \A i \in Nat : i <= 2 => i \in 0..2
    OBVIOUS
  <2> QED BY <1>4, <2>1
<1>6. breaks \in Nat
  BY MaxBreaksAssumption DEF HookType
<1> QED BY <1>1, <1>3, <1>5, <1>6

LEMMA HookInit == Init => HookInv
<1> SUFFICES ASSUME Init PROVE HookInv
  OBVIOUS
<1> /\ Len(<<>>) = 0 /\ DOMAIN <<>> = {} /\ <<>> \in Seq(Socket)
    /\ <<>> \in Seq({"code", "id"})
  OBVIOUS
<1>1. HookType
  <2>1. breaks \in 0..MaxBreaks
    BY MaxBreaksAssumption DEF Init
  <2>2. key \in {"code", "id"}
    BY ParamsAssumption DEF Init
  <2>3. timers \subseteq DOMAIN sockets /\ \A s \in DOMAIN sockets : FALSE
    BY DEF Init
  <2>4. Len(effect) = 0 /\ Len(sockets) = 0
    BY DEF Init
  <2>5. effect \in Seq({"code", "id"}) /\ sockets \in Seq(Socket)
    BY DEF Init
  <2>6. /\ page \in {"open", "left"} /\ fetch \in {"out", "done"} /\ connected \in BOOLEAN
        /\ wsRef = 0 /\ timerRef = 0
    BY DEF Init
  <2> QED BY <2>1, <2>2, <2>3, <2>4, <2>5, <2>6 DEF HookType
<1>2. LastKey /\ Single /\ KeepsTrying /\ ConnectedIsTrue
  BY DEF Init, LastKey, Single, KeepsTrying, ConnectedIsTrue
<1>3. Paid
  <2>1. Pend = {} /\ Len(sockets) = 0 /\ Len(effect) = 0 /\ breaks = 0 /\ page = "open"
    BY DEF Init, Pend
  <2>2. Cardinality(Pend) = 0
    BY <2>1, FS_EmptySet
  <2> QED BY <2>1, <2>2 DEF Paid, Cleanups
<1> QED BY <1>1, <1>2, <1>3 DEF HookInv

NewSocket(r) == [run |-> r, state |-> "connecting"]

LEMMA AppendTo ==
    ASSUME NEW q \in Seq(Socket), NEW r \in Nat, NEW new, new = Append(q, NewSocket(r))
    PROVE  /\ new \in Seq(Socket) /\ Len(new) = Len(q) + 1
           /\ DOMAIN new = DOMAIN q \union {Len(q) + 1}
           /\ new[Len(q) + 1] = NewSocket(r)
           /\ \A s \in DOMAIN q : new[s] = q[s]
<1> DEFINE x == NewSocket(r)
<1>1. x \in Socket /\ x.run = r /\ x.state = "connecting" /\ Len(q) \in Nat /\ DOMAIN q = 1..Len(q)
  BY DEF Socket, NewSocket
<1> HIDE DEF x
<1>4. new = Append(q, x)
  BY DEF x
<1>2. new \in Seq(Socket) /\ Len(new) = Len(q) + 1 /\ DOMAIN new = 1..(Len(q) + 1)
  BY <1>1, <1>4
<1>3. new[Len(q) + 1] = x /\ \A s \in DOMAIN q : new[s] = q[s]
  BY <1>1, <1>4
<1> QED BY <1>1, <1>2, <1>3 DEF x

LEMMA ReplaceIn ==
    ASSUME NEW q \in Seq(Socket), NEW s \in DOMAIN q,
           NEW t \in {"connecting", "open", "closing", "closed"},
           NEW new, new = [q EXCEPT ![s].state = t]
    PROVE  /\ new \in Seq(Socket) /\ Len(new) = Len(q) /\ DOMAIN new = DOMAIN q
           /\ new[s].run = q[s].run /\ new[s].state = t
           /\ \A u \in DOMAIN q \ {s} : new[u] = q[u]
<1> DEFINE x == [q[s] EXCEPT !.state = t]
<1>1. q \in [1..Len(q) -> Socket] /\ Len(q) \in Nat /\ DOMAIN q = 1..Len(q) /\ q[s] \in Socket
  OBVIOUS
<1>2. x \in Socket /\ x.run = q[s].run /\ x.state = t
  BY <1>1 DEF Socket
<1>3. new = [q EXCEPT ![s] = x]
  OBVIOUS
<1> HIDE DEF x
<1>4. new \in [1..Len(q) -> Socket] /\ DOMAIN new = 1..Len(q)
  BY <1>1, <1>2, <1>3
<1>5. new \in Seq(Socket) /\ Len(new) = Len(q)
  BY <1>1, <1>4
<1>6. new[s] = x /\ \A u \in DOMAIN q \ {s} : new[u] = q[u]
  BY <1>1, <1>3
<1> QED BY <1>1, <1>2, <1>4, <1>5, <1>6

(* What the cleanup leaves: the same sockets, of which one may be closing. *)
LEMMA CleanedFacts ==
    ASSUME HookType
    PROVE  /\ Cleaned \in Seq(Socket) /\ Len(Cleaned) = Len(sockets)
           /\ DOMAIN Cleaned = DOMAIN sockets
           /\ \A s \in DOMAIN sockets :
                /\ Cleaned[s].run = sockets[s].run
                /\ \/ Cleaned[s].state = sockets[s].state
                   \/ /\ s = wsRef /\ sockets[s].state \in {"connecting", "open"}
                      /\ Cleaned[s].state = "closing"
<1>1. sockets \in [1..Len(sockets) -> Socket] /\ Len(sockets) \in Nat /\ DOMAIN sockets = 1..Len(sockets)
  BY DEF HookType
<1>2. \A s \in DOMAIN sockets :
        /\ [sockets[s] EXCEPT !.state = "closing"] \in Socket
        /\ [sockets[s] EXCEPT !.state = "closing"].run = sockets[s].run
        /\ [sockets[s] EXCEPT !.state = "closing"].state = "closing"
  BY <1>1 DEF Socket
<1>3. Cleaned \in [1..Len(sockets) -> Socket] /\ DOMAIN Cleaned = 1..Len(sockets)
  BY <1>1, <1>2 DEF Cleaned
<1>4. Cleaned \in Seq(Socket) /\ Len(Cleaned) = Len(sockets)
  BY <1>1, <1>3
<1>5. \A s \in DOMAIN sockets :
        Cleaned[s] = IF s = wsRef /\ sockets[s].state \in {"connecting", "open"}
                     THEN [sockets[s] EXCEPT !.state = "closing"] ELSE sockets[s]
  BY DEF Cleaned
<1> QED BY <1>1, <1>2, <1>3, <1>4, <1>5

LEMMA EffectStep == ASSUME HookInv, RunEffect PROVE HookInv'
<1> DEFINE n == Len(sockets) + 1
           r == Len(effect) + 1
<1>0. HookType /\ Len(sockets) \in Nat /\ Len(effect) \in Nat /\ r \in Nat
  BY DEF HookInv, HookType
<1>1. /\ effect' = Append(effect, key) /\ timers' = timers \ {timerRef}
      /\ sockets' = Append(Cleaned, NewSocket(r))
      /\ wsRef' = n /\ page = "open" /\ EffectIsDue
      /\ UNCHANGED <<page, key, fetch, timerRef, connected, breaks>>
  BY <1>0, CleanedFacts DEF RunEffect, Connect, NewSocket
<1>2. /\ sockets' \in Seq(Socket) /\ Len(sockets') = n
      /\ DOMAIN sockets' = DOMAIN sockets \union {n} /\ n \notin DOMAIN sockets
      /\ sockets'[n].run = r /\ sockets'[n].state = "connecting"
      /\ \A s \in DOMAIN sockets : sockets'[s] = Cleaned[s]
  <2>1. /\ Cleaned \in Seq(Socket) /\ Len(Cleaned) = Len(sockets)
        /\ DOMAIN Cleaned = DOMAIN sockets
    BY <1>0, CleanedFacts
  <2> DEFINE q == Cleaned
  <2>2. q \in Seq(Socket) /\ Len(q) = Len(sockets) /\ DOMAIN q = DOMAIN sockets
        /\ sockets' = Append(q, NewSocket(r))
    BY <1>1, <2>1
  <2>4. q \in Seq(Socket) /\ r \in Nat /\ sockets' = Append(q, NewSocket(r))
    BY <1>0, <2>2
  <2> HIDE DEF q, r
  <2>3. sockets' \in Seq(Socket) /\ Len(sockets') = Len(q) + 1
    BY <2>4, AppendTo
  <2>6. DOMAIN sockets' = DOMAIN q \union {Len(q) + 1}
    <3>1. DOMAIN sockets' = 1..(Len(q) + 1) /\ DOMAIN q = 1..Len(q) /\ Len(q) \in Nat
      BY <2>3, <2>4
    <3> QED BY <3>1
  <2>9. sockets'[Len(q) + 1] = NewSocket(r)
    BY <2>4, AppendTo
  <2>7. sockets'[Len(q) + 1].run = r /\ sockets'[Len(q) + 1].state = "connecting"
    BY <2>9 DEF NewSocket
  <2>8. \A s \in DOMAIN q : sockets'[s] = q[s]
    BY <2>4, AppendTo
  <2>5. n \notin DOMAIN sockets
    BY <1>0 DEF HookType
  <2> QED BY <2>2, <2>3, <2>5, <2>6, <2>7, <2>8 DEF q
<1>3. /\ effect' \in Seq({"code", "id"}) /\ Len(effect') = r /\ effect'[r] = key
      /\ Len(effect) = 1 => effect'[1] = effect[1]
  BY <1>0, <1>1 DEF HookType
<1>4. Len(effect) < 2 /\ LastKey'
  <2>0. effect \in Seq({"code", "id"}) /\ Len(effect) <= 2 /\ key \in {"code", "id"}
    BY <1>0 DEF HookType
  <2>1. effect \in Seq({"code", "id"}) /\ Len(effect) \in 0..2 /\ key \in {"code", "id"}
    <3>1. Len(effect) \in Nat
      BY <1>0
    <3>2. \A i \in Nat : i <= 2 => i \in 0..2
      OBVIOUS
    <3> QED BY <2>0, <3>1, <3>2
  <2>2. Len(effect) = 0 => effect = <<>>
    BY <2>1
  <2>3. Len(effect) # 2
    BY <2>1, <1>1 DEF HookInv, LastKey, EffectIsDue
  <2>4. Len(effect) = 1 => effect[1] # key
    BY <2>1, <1>1 DEF EffectIsDue
  <2>5. Len(effect) = 1 => key = "id"
    <3> SUFFICES ASSUME Len(effect) = 1 PROVE key = "id"
      OBVIOUS
    <3>1. effect # <<>> /\ effect[1] \in {"code", "id"}
      BY <2>1
    <3> QED BY <2>1, <2>4, <3>1 DEF HookInv, LastKey
  <2> QED BY <1>1, <1>3, <2>1, <2>3, <2>5 DEF LastKey
<1> HIDE DEF n, r
<1>5. \A s \in DOMAIN sockets :
        /\ sockets'[s].run = sockets[s].run /\ sockets'[s].run \in 1..Len(effect)
        /\ Busy(s)' => Busy(s)
        /\ s \in timers' => s \in timers /\ sockets'[s].state = "closed"
        /\ sockets[s].state \in {"open", "closing"} => sockets'[s].state \in {"open", "closing"}
  <2>1. \A s \in DOMAIN sockets :
          /\ s \in timers => sockets[s].state = "closed"
          /\ sockets[s].run \in 1..Len(effect)
          /\ s \in timers' => s \in timers
    BY <1>0, <1>1 DEF HookInv, HookType, Single
  <2>2. \A s \in DOMAIN sockets :
          /\ sockets'[s].run = sockets[s].run
          /\ \/ sockets'[s].state = sockets[s].state
             \/ sockets[s].state \in {"connecting", "open"} /\ sockets'[s].state = "closing"
    BY <1>0, <1>2, CleanedFacts
  <2> QED BY <2>1, <2>2 DEF Busy, Alive
<1>6. HookType'
  <2>1. timers' \subseteq DOMAIN sockets' /\ timerRef' \in 0..Len(sockets') /\ wsRef' \in 0..Len(sockets')
    BY <1>0, <1>1, <1>2 DEF HookType, n
  <2>2. \A s \in DOMAIN sockets' : sockets'[s].run \in 1..Len(effect')
    BY <1>0, <1>2, <1>3, <1>5 DEF r
  <2>3. Len(effect') <= 2
    BY <1>0, <1>3, <1>4 DEF r
  <2> QED BY <1>0, <1>1, <1>2, <1>3, <2>1, <2>2, <2>3 DEF HookType
<1>7. \A s \in DOMAIN sockets : sockets'[s].run # sockets'[n].run
  BY <1>0, <1>2, <1>5 DEF r
<1>8. Single'
  <2>1. \A s \in timers' : sockets'[s].state = "closed"
    BY <1>0, <1>1, <1>5 DEF HookType
  <2> SUFFICES ASSUME NEW s \in DOMAIN sockets', NEW u \in DOMAIN sockets',
                      sockets'[s].run = sockets'[u].run, Busy(s)', Busy(u)'
               PROVE  s = u
    BY <2>1 DEF Single
  <2> QED BY <1>2, <1>5, <1>7 DEF HookInv, Single
<1>9. KeepsTrying'
  <2>1. n \in Chain(Len(effect))'
    BY <1>2, <1>3 DEF Chain, Alive
  <2> QED BY <1>2, <2>1 DEF KeepsTrying
<1>10. ConnectedIsTrue'
  BY <1>1, <1>2, <1>5 DEF HookInv, ConnectedIsTrue
<1>11. Paid'
  <2>1. Pend' \subseteq Pend \union {wsRef}
    BY <1>0, <1>1, <1>2, CleanedFacts DEF Pend
  <2>2. /\ IsFiniteSet(Pend) /\ Cardinality(Pend) \in Nat
        /\ Len(effect) \in 0..1 /\ breaks \in Nat
    BY <1>0, <1>4, PendFacts
  <2>3. CASE Len(effect) = 0
    <3>1. DOMAIN sockets = {} /\ Len(sockets) = 0
      BY <1>0, <2>3 DEF HookType
    <3>2. Pend' = {}
      BY <1>0, <1>1, <1>2, <3>1 DEF Pend, HookType
    <3>3. Cardinality(Pend') = 0
      BY <3>2, FS_EmptySet
    <3>4. Len(sockets') = 1 /\ Len(effect') = 1 /\ breaks' = breaks /\ page' = "open"
      BY <1>1, <1>2, <1>3, <2>3, <3>1 DEF n, r
    <3>5. Cleanups' = 0
      BY <3>4 DEF Cleanups
    <3>6. Cardinality(Pend)' = 0
      BY <3>3
    <3> QED BY <2>2, <3>4, <3>5, <3>6 DEF Paid
  <2>4. CASE Len(effect) = 1
    <3>1. Cardinality(Pend') \in Nat /\ Cardinality(Pend') <= Cardinality(Pend) + 1
      BY <2>1, <2>2, OneMore
    <3>2. /\ Len(sockets') = Len(sockets) + 1 /\ Len(effect') = 2 /\ breaks' = breaks
          /\ page = "open" /\ page' = "open"
      BY <1>1, <1>2, <1>3, <2>4 DEF n, r
    <3>3. Cleanups = 0 /\ Cleanups' = 1
      BY <2>4, <3>2 DEF Cleanups
    <3>4. Len(sockets) + Cardinality(Pend) <= 1 + breaks
      BY <2>2, <2>4, <3>3 DEF HookInv, Paid
    <3> QED BY <1>0, <2>2, <3>1, <3>2, <3>3, <3>4 DEF Paid
  <2> QED BY <2>2, <2>3, <2>4
<1> QED BY <1>4, <1>6, <1>8, <1>9, <1>10, <1>11 DEF HookInv

(* Steps that make no socket and end no chain.                             *)
LEMMA LeaveStep == ASSUME HookInv, Leave PROVE HookInv'
<1>0. HookType
  BY DEF HookInv
<1>1. /\ sockets' = Cleaned /\ timers' = timers \ {timerRef} /\ page' = "left"
      /\ UNCHANGED <<key, fetch, effect, wsRef, timerRef, connected, breaks>>
  BY DEF Leave
<1>2. /\ sockets' \in Seq(Socket) /\ Len(sockets') = Len(sockets)
      /\ DOMAIN sockets' = DOMAIN sockets
      /\ \A s \in DOMAIN sockets : sockets'[s].run = sockets[s].run
  BY <1>0, <1>1, CleanedFacts
<1>3. \A s \in DOMAIN sockets :
        /\ Busy(s)' => Busy(s)
        /\ s \in timers' => s \in timers /\ sockets'[s].state = "closed"
  BY <1>0, <1>1, CleanedFacts DEF HookInv, HookType, Single, Busy, Alive
<1>4. HookType'
  BY <1>0, <1>1, <1>2 DEF HookType
<1>5. Single'
  BY <1>0, <1>1, <1>2, <1>3 DEF HookType, HookInv, Single
<1>6. LastKey' /\ KeepsTrying' /\ ConnectedIsTrue'
  BY <1>1 DEF HookInv, LastKey, KeepsTrying, ConnectedIsTrue
<1>7. Paid'
  <2>1. Pend' \subseteq Pend \union {wsRef}
    BY <1>0, <1>1, CleanedFacts DEF Pend
  <2>2. /\ IsFiniteSet(Pend) /\ Cardinality(Pend) \in Nat /\ Len(sockets) \in Nat
        /\ Len(effect) \in 0..2 /\ breaks \in Nat
    BY <1>0, PendFacts
  <2>3. Cardinality(Pend') \in Nat /\ Cardinality(Pend') <= Cardinality(Pend) + 1
    BY <2>1, <2>2, OneMore
  <2>4. Cleanups' = Cleanups + 1 /\ Cleanups \in 0..1
    BY <1>1 DEF Leave, Cleanups
  <2>5. Len(sockets) + Cardinality(Pend) <= Len(effect) + breaks + Cleanups
    BY DEF HookInv, Paid
  <2> QED BY <1>1, <1>2, <2>2, <2>3, <2>4, <2>5 DEF Paid
<1> QED BY <1>4, <1>5, <1>6, <1>7 DEF HookInv

LEMMA KeyStep ==
    ASSUME HookInv, page' = page, key' \in {key, "id"}, fetch' \in {"out", "done"},
           UNCHANGED <<effect, sockets, timers, wsRef, timerRef, connected, breaks>>
    PROVE  HookInv'
<1>1. HookType' /\ LastKey'
  BY DEF HookInv, HookType, LastKey
<1>2. Single'
  BY DEF HookInv, Single, Busy, Alive
<1>3. KeepsTrying' /\ ConnectedIsTrue'
  BY DEF HookInv, KeepsTrying, ConnectedIsTrue, Chain, Alive
<1>4. Paid'
  BY DEF HookInv, Paid, Pend, Cleanups
<1> QED BY <1>1, <1>2, <1>3, <1>4 DEF HookInv

(* The same, without the expression that the socket was replaced by.       *)
LEMMA ReplaceSeq ==
    ASSUME NEW q \in Seq(Socket), NEW s \in DOMAIN q,
           NEW t \in {"connecting", "open", "closing", "closed"},
           NEW new, new = [q EXCEPT ![s].state = t]
    PROVE  new \in Seq(Socket) /\ Len(new) = Len(q)
BY ReplaceIn

LEMMA ReplaceElement ==
    ASSUME NEW q \in Seq(Socket), NEW s \in DOMAIN q,
           NEW t \in {"connecting", "open", "closing", "closed"},
           NEW new, new = [q EXCEPT ![s].state = t]
    PROVE  /\ DOMAIN new = DOMAIN q /\ new[s].run = q[s].run /\ new[s].state = t
           /\ \A u \in DOMAIN q \ {s} : new[u] = q[u]
BY ReplaceIn

LEMMA OpenStep == ASSUME HookInv, NEW s \in DOMAIN sockets, Opens(s) PROVE HookInv'
<1>0. HookType /\ sockets \in Seq(Socket)
  BY DEF HookInv, HookType
<1>1. /\ sockets' = [sockets EXCEPT ![s].state = "open"] /\ sockets[s].state = "connecting"
      /\ connected' \in BOOLEAN
      /\ UNCHANGED <<page, key, fetch, effect, timers, wsRef, timerRef, breaks>>
  BY <1>0 DEF Opens, SetConnected, HookType
<1>2. /\ sockets' \in Seq(Socket) /\ Len(sockets') = Len(sockets)
      /\ DOMAIN sockets' = DOMAIN sockets
      /\ sockets'[s].run = sockets[s].run /\ sockets'[s].state = "open"
      /\ \A u \in DOMAIN sockets \ {s} : sockets'[u] = sockets[u]
  BY <1>0, <1>1, ReplaceSeq, ReplaceElement
<1>3. HookType' /\ LastKey'
  BY <1>0, <1>1, <1>2 DEF HookInv, HookType, LastKey
<1>4. s \notin timers /\ \A u \in DOMAIN sockets : Busy(u)' <=> Busy(u)
  BY <1>1, <1>2 DEF HookInv, Single, Busy, Alive
<1>5. \A u \in DOMAIN sockets : sockets'[u].run = sockets[u].run
  BY <1>2
<1>6. Single'
  BY <1>0, <1>1, <1>2, <1>4, <1>5 DEF HookInv, HookType, Single
<1>7. KeepsTrying'
  <2> SUFFICES ASSUME page = "open", effect # <<>>
               PROVE  \E u \in Chain(Len(effect))' : u \in timers' \/ sockets'[u].state # "closing"
    BY <1>1 DEF KeepsTrying
  <2>1. PICK u \in Chain(Len(effect)) : u \in timers \/ sockets[u].state # "closing"
    BY DEF HookInv, KeepsTrying
  <2>2. u \in Chain(Len(effect))'
    BY <1>1, <1>2, <1>4, <1>5, <2>1 DEF Chain, Busy
  <2> QED BY <1>1, <1>2, <2>1, <2>2
<1>8. ConnectedIsTrue'
  BY <1>2 DEF ConnectedIsTrue
<1>9. Paid'
  <2>1. Pend' = Pend
    BY <1>1, <1>2 DEF Pend
  <2>2. Cleanups' = Cleanups
    BY <1>1 DEF Cleanups
  <2>3. Cardinality(Pend)' = Cardinality(Pend) /\ Len(sockets)' = Len(sockets)
    BY <1>2, <2>1
  <2> QED BY <1>1, <2>2, <2>3 DEF HookInv, Paid
<1> QED BY <1>3, <1>6, <1>7, <1>8, <1>9 DEF HookInv

LEMMA CloseStep == ASSUME HookInv, NEW s \in DOMAIN sockets, OnClose(s) PROVE HookInv'
<1>0. HookType /\ sockets \in Seq(Socket) /\ DOMAIN sockets = 1..Len(sockets)
  BY DEF HookInv, HookType
<1>1. /\ Alive(s) /\ sockets' = [sockets EXCEPT ![s].state = "closed"]
      /\ timers' = timers \union {s} /\ timerRef' = s
      /\ page = "open" => ~connected'
      /\ UNCHANGED <<page, key, fetch, effect, wsRef>>
  BY DEF OnClose, CloseFlag, SetConnected, Retry
<1>2. breaks' \in 0..MaxBreaks /\ connected' \in BOOLEAN
  <2>1. breaks' \in 0..MaxBreaks
    BY <1>0, MaxBreaksAssumption DEF OnClose, HookType
  <2>2. connected' \in BOOLEAN
    BY <1>0 DEF OnClose, CloseFlag, SetConnected, HookType
  <2> QED BY <2>1, <2>2
<1>3. /\ sockets' \in Seq(Socket) /\ Len(sockets') = Len(sockets)
      /\ DOMAIN sockets' = DOMAIN sockets
      /\ sockets'[s].run = sockets[s].run /\ sockets'[s].state = "closed"
      /\ \A u \in DOMAIN sockets \ {s} : sockets'[u] = sockets[u]
  <2>1. sockets \in Seq(Socket) /\ sockets' = [sockets EXCEPT ![s].state = "closed"]
    BY <1>0, <1>1
  <2>2. sockets' \in Seq(Socket) /\ Len(sockets') = Len(sockets)
    BY <2>1, ReplaceSeq
  <2>3. /\ DOMAIN sockets' = DOMAIN sockets
        /\ sockets'[s].run = sockets[s].run /\ sockets'[s].state = "closed"
        /\ \A u \in DOMAIN sockets \ {s} : sockets'[u] = sockets[u]
    BY <2>1, ReplaceElement
  <2> QED BY <2>2, <2>3
<1>4. HookType' /\ LastKey'
  BY <1>0, <1>1, <1>2, <1>3 DEF HookInv, HookType, LastKey
<1>5. \A u \in DOMAIN sockets : Busy(u)' <=> Busy(u)
  BY <1>1, <1>3 DEF Busy, Alive
<1>6. \A u \in DOMAIN sockets : sockets'[u].run = sockets[u].run
  BY <1>3
<1>7. Single'
  BY <1>0, <1>1, <1>3, <1>5, <1>6 DEF HookInv, HookType, Single
<1>8. KeepsTrying'
  <2> SUFFICES ASSUME page = "open", effect # <<>>
               PROVE  \E u \in Chain(Len(effect))' : u \in timers' \/ sockets'[u].state # "closing"
    BY <1>1 DEF KeepsTrying
  <2>1. PICK u \in Chain(Len(effect)) : u \in timers \/ sockets[u].state # "closing"
    BY DEF HookInv, KeepsTrying
  <2>2. u \in Chain(Len(effect))'
    BY <1>1, <1>3, <1>5, <1>6, <2>1 DEF Chain, Busy
  <2> QED BY <1>1, <1>3, <2>1, <2>2 DEF Chain
<1>9. ConnectedIsTrue'
  BY <1>1 DEF ConnectedIsTrue
<1>10. Paid'
  <2>1. /\ IsFiniteSet(Pend) /\ Cardinality(Pend) \in Nat /\ Len(sockets) \in Nat
        /\ Len(effect) \in 0..2 /\ breaks \in Nat
    BY <1>0, PendFacts
  <2>2. Cleanups' = Cleanups /\ Cleanups \in 0..2
    BY <1>1 DEF Cleanups
  <2>3. Len(sockets) + Cardinality(Pend) <= Len(effect) + breaks + Cleanups
    BY DEF HookInv, Paid
  <2>4. CASE sockets[s].state = "closing"
    <3>1. Pend' = Pend /\ breaks' = breaks
      BY <1>0, <1>1, <1>3, <2>4 DEF Pend, OnClose
    <3>2. Cardinality(Pend)' = Cardinality(Pend)
      BY <3>1
    <3> QED BY <1>1, <1>3, <2>2, <2>3, <3>1, <3>2 DEF Paid
  <2>5. CASE sockets[s].state # "closing"
    <3>1. Pend' \subseteq Pend \union {s} /\ breaks' = breaks + 1
      BY <1>0, <1>1, <1>3, <2>5 DEF Pend, OnClose
    <3>2. Cardinality(Pend') \in Nat /\ Cardinality(Pend') <= Cardinality(Pend) + 1
      BY <2>1, <3>1, OneMore
    <3> QED BY <1>1, <1>3, <2>1, <2>2, <2>3, <3>1, <3>2 DEF Paid
  <2> QED BY <2>4, <2>5
<1> QED BY <1>4, <1>7, <1>8, <1>9, <1>10 DEF HookInv

LEMMA TimerStep == ASSUME HookInv, NEW s \in timers, TimerFires(s) PROVE HookInv'
<1> DEFINE n == Len(sockets) + 1
           r == sockets[s].run
<1>0. /\ HookType /\ sockets \in Seq(Socket) /\ s \in DOMAIN sockets /\ r \in Nat
      /\ r \in 1..Len(effect) /\ Len(sockets) \in Nat /\ n \notin DOMAIN sockets
  BY DEF HookInv, HookType
<1>1. /\ timers' = timers \ {s} /\ sockets' = Append(sockets, NewSocket(r)) /\ wsRef' = n
      /\ UNCHANGED <<page, key, fetch, effect, timerRef, connected, breaks>>
  BY DEF TimerFires, Connect, NewSocket
<1> HIDE DEF r
<1>2. /\ sockets' \in Seq(Socket) /\ Len(sockets') = n
      /\ \A u \in DOMAIN sockets : sockets'[u] = sockets[u]
  <2>1. sockets \in Seq(Socket) /\ r \in Nat /\ sockets' = Append(sockets, NewSocket(r))
    BY <1>0, <1>1
  <2> HIDE DEF n
  <2>2. sockets' \in Seq(Socket) /\ Len(sockets') = Len(sockets) + 1
    BY <2>1, AppendTo
  <2>3. \A u \in DOMAIN sockets : sockets'[u] = sockets[u]
    BY <2>1, AppendTo
  <2> QED BY <2>2, <2>3 DEF n
<1>3. DOMAIN sockets' = DOMAIN sockets \union {n}
  <2>1. DOMAIN sockets' = 1..n /\ DOMAIN sockets = 1..Len(sockets)
    BY <1>0, <1>2
  <2> QED BY <1>0, <2>1
<1>4. sockets'[n].run = r /\ sockets'[n].state = "connecting"
  <2>1. sockets'[n] = NewSocket(r)
    BY <1>0, <1>1, AppendTo
  <2> QED BY <2>1 DEF NewSocket
<1> HIDE DEF n
<1>5. HookType' /\ LastKey'
  <2>1. wsRef' \in 0..Len(sockets') /\ timerRef' \in 0..Len(sockets')
    BY <1>0, <1>1, <1>2 DEF HookType, n
  <2>2. timers' \subseteq DOMAIN sockets' /\ \A u \in DOMAIN sockets' : sockets'[u].run \in 1..Len(effect')
    BY <1>0, <1>1, <1>2, <1>3, <1>4 DEF HookType
  <2> QED BY <1>0, <1>1, <1>2, <2>1, <2>2 DEF HookInv, HookType, LastKey
<1>6. Busy(s) /\ ~Busy(s)' /\ \A u \in DOMAIN sockets : Busy(u)' => Busy(u)
  BY <1>0, <1>1, <1>2 DEF HookInv, Single, Busy, Alive
<1>7. \A u \in DOMAIN sockets : u # s => (Busy(u) => Busy(u)')
  BY <1>1, <1>2 DEF Busy, Alive
<1>8. Single'
  <2>1. \A u \in timers' : sockets'[u].state = "closed"
    BY <1>0, <1>1, <1>2 DEF HookInv, HookType, Single
  <2> SUFFICES ASSUME NEW u \in DOMAIN sockets', NEW v \in DOMAIN sockets',
                      sockets'[u].run = sockets'[v].run, Busy(u)', Busy(v)'
               PROVE  u = v
    BY <2>1 DEF Single
  <2>2. \A w \in DOMAIN sockets : Busy(w)' => w # s /\ sockets'[w].run # r
    BY <1>0, <1>2, <1>6 DEF HookInv, Single, r
  <2> QED BY <1>2, <1>3, <1>4, <1>6, <2>2 DEF HookInv, Single
<1>9. KeepsTrying'
  <2> SUFFICES ASSUME page = "open", effect # <<>>
               PROVE  \E u \in Chain(Len(effect))' : u \in timers' \/ sockets'[u].state # "closing"
    BY <1>1 DEF KeepsTrying
  <2>1. PICK u \in Chain(Len(effect)) : u \in timers \/ sockets[u].state # "closing"
    BY DEF HookInv, KeepsTrying
  <2>2. CASE u = s
    <3>1. n \in Chain(Len(effect))'
      BY <1>1, <1>3, <1>4, <2>1, <2>2 DEF Chain, Alive, r
    <3> QED BY <1>4, <3>1
  <2>3. CASE u # s
    <3>1. u \in Chain(Len(effect))'
      BY <1>1, <1>2, <1>3, <1>7, <2>1, <2>3 DEF Chain, Busy
    <3> QED BY <1>1, <1>2, <2>1, <2>3, <3>1 DEF Chain
  <2> QED BY <2>2, <2>3
<1>10. ConnectedIsTrue'
  BY <1>1, <1>2, <1>3 DEF HookInv, ConnectedIsTrue
<1>11. Paid'
  <2>1. /\ IsFiniteSet(Pend) /\ Cardinality(Pend) \in Nat /\ Len(sockets) \in Nat
        /\ Len(effect) \in 0..2 /\ breaks \in Nat
    BY <1>0, PendFacts
  <2>2. Cleanups' = Cleanups /\ Cleanups \in 0..2
    BY <1>1 DEF Cleanups
  <2>3. Len(sockets) + Cardinality(Pend) <= Len(effect) + breaks + Cleanups
    BY DEF HookInv, Paid
  <2>4. s \in Pend /\ Pend' = Pend \ {s}
    BY <1>0, <1>1, <1>2, <1>3, <1>4 DEF Pend, HookInv, HookType, Single
  <2>5. Cardinality(Pend \ {s}) = Cardinality(Pend) - 1
    BY <2>1, <2>4, FS_RemoveElement
  <2>6. Cardinality(Pend)' = Cardinality(Pend) - 1 /\ Len(sockets') = Len(sockets) + 1
    BY <1>2, <2>4, <2>5 DEF n
  <2> QED BY <1>1, <2>1, <2>2, <2>3, <2>6 DEF Paid
<1> QED BY <1>5, <1>8, <1>9, <1>10, <1>11 DEF HookInv

LEMMA HookNextStep == HookInv /\ [Next]_vars => HookInv'
<1> SUFFICES ASSUME HookInv, [Next]_vars PROVE HookInv'
  OBVIOUS
<1>1. CASE UNCHANGED vars
  BY <1>1, KeyStep DEF vars, HookInv, HookType
<1>2. CASE FetchEnds \/ \E s \in DOMAIN sockets : LiveUpdate(s)
  BY <1>2, KeyStep DEF FetchEnds, LiveUpdate, HookInv, HookType
<1> QED BY <1>1, <1>2, EffectStep, LeaveStep, OpenStep, CloseStep, TimerStep DEF Next

LEMMA HookAlways == Spec => []HookInv
BY HookInit, HookNextStep, PTL DEF Spec

LEMMA HookTypes == HookInv => TypeOK
<1> SUFFICES ASSUME HookInv PROVE TypeOK
  OBVIOUS
<1>0. HookType
  BY DEF HookInv
<1>1. sockets \in Seq([run : 1..Len(effect),
                       state : {"connecting", "open", "closing", "closed"}])
  <2> DEFINE S == [run : 1..Len(effect), state : {"connecting", "open", "closing", "closed"}]
  <2>1. \A s \in 1..Len(sockets) : sockets[s] \in Socket /\ sockets[s].run \in 1..Len(effect)
    BY <1>0 DEF HookType
  <2>2. \A s \in 1..Len(sockets) : sockets[s] \in S
    BY <2>1 DEF Socket
  <2> HIDE DEF S
  <2>3. sockets \in Seq(S)
    BY <1>0, <2>2 DEF HookType
  <2> QED BY <2>3 DEF S
<1>2. Len(sockets) <= MaxSockets
  <2>1. /\ Cardinality(Pend) \in Nat /\ Len(sockets) \in Nat
        /\ Len(effect) \in 0..2 /\ breaks \in Nat
    BY <1>0, PendFacts
  <2>2. Cleanups \in 0..2 /\ breaks <= MaxBreaks
    BY <1>0, MaxBreaksAssumption DEF Cleanups, HookType
  <2>3. Len(sockets) + Cardinality(Pend) <= Len(effect) + breaks + Cleanups
    BY DEF HookInv, Paid
  <2>4. \A a, b, c, d, e, m \in Nat :
            a + b <= c + d + e /\ c <= 2 /\ e <= 2 /\ d <= m => a <= 4 + m
    OBVIOUS
  <2>5. /\ Len(effect) \in Nat /\ Len(effect) <= 2 /\ Cleanups \in Nat /\ Cleanups <= 2
        /\ MaxBreaks \in Nat
    <3>1. \A i \in 0..2 : i \in Nat /\ i <= 2
      OBVIOUS
    <3> QED BY <2>1, <2>2, <3>1, MaxBreaksAssumption
  <2> QED BY <2>1, <2>2, <2>3, <2>4, <2>5 DEF MaxSockets
<1>3. /\ page \in {"open", "left"} /\ key \in {"code", "id"} /\ fetch \in {"out", "done"}
      /\ effect \in Seq({"code", "id"}) /\ Len(effect) <= 2
  BY <1>0 DEF HookType
<1>4. /\ timers \subseteq DOMAIN sockets
      /\ wsRef \in 0..Len(sockets) /\ timerRef \in 0..Len(sockets)
      /\ connected \in BOOLEAN /\ breaks \in 0..MaxBreaks
  BY <1>0 DEF HookType
<1> HIDE DEF HookInv
<1> QED BY <1>1, <1>2, <1>3, <1>4 DEF TypeOK

(* Type correctness, of which the bound on the sockets is the part that    *)
(* says something: it makes the fairness of FairSpec speak of every socket. *)
THEOREM TypeCorrect == Spec => []TypeOK
BY HookAlways, HookTypes, PTL

(* Timers and sockets of an effect run never multiply.                     *)
THEOREM OneChain == Spec => []OneChainEach
<1>1. HookInv => OneChainEach
  <2> SUFFICES ASSUME HookInv, NEW r \in 1..Len(effect)
               PROVE  /\ Cardinality(Chain(r)) <= 1
                      /\ \A s \in Chain(r) : ~(Alive(s) /\ s \in timers)
    BY DEF OneChainEach
  <2>1. \A s, u \in Chain(r) : s = u
    BY DEF HookInv, Single, Chain, Busy
  <2>2. Chain(r) = {} \/ \E s : Chain(r) = {s}
    BY <2>1
  <2>3. Cardinality(Chain(r)) \in {0, 1}
    <3>1. Chain(r) = {} => Cardinality(Chain(r)) = 0
      BY FS_EmptySet
    <3>2. ASSUME NEW s, Chain(r) = {s} PROVE Cardinality(Chain(r)) = 1
      BY <3>2, FS_Singleton
    <3> QED BY <2>2, <3>1, <3>2
  <2> QED BY <2>3 DEF HookInv, Single, Alive
<1> QED BY <1>1, HookAlways, PTL

(* An open page always has a socket or a timer that will be connected.     *)
THEOREM AlwaysTries == Spec => []KeepsTrying
<1>1. HookInv => KeepsTrying
  BY DEF HookInv
<1> QED BY <1>1, HookAlways, PTL

(* The page says that it is connected only if a socket is.                 *)
THEOREM FlagIsTrue == Spec => []ConnectedIsTrue
<1>1. HookInv => ConnectedIsTrue
  BY DEF HookInv
<1> QED BY <1>1, HookAlways, PTL
=============================================================================
