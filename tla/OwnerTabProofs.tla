--------------------------- MODULE OwnerTabProofs ---------------------------
(***************************************************************************)
(* Proofs about the pages of the owner: PollForm alone, and OwnerTab, which *)
(* puts the form and the dashboard into one tab.                           *)
(***************************************************************************)
EXTENDS OwnerTab, FiniteSetTheorems, WellFoundedInduction, TLAPS

(* The backend: whatever is stored has been stored, and history grows.     *)
States == Statuses \union {"none"}

ServerInv ==
    /\ stored \in [Polls -> States] /\ was \in [Polls -> SUBSET States]
    /\ \A p \in Polls : stored[p] \in was[p]

Grows == \A p \in Polls : was[p] \subseteq was'[p]

LEMMA ServerInit == StoredInit => ServerInv
BY DEF StoredInit, ServerInv, States, Statuses

LEMMA Stored ==
    ASSUME ServerInv, NEW p \in Polls, NEW s \in States, Store(p, s)
    PROVE  ServerInv' /\ Grows /\ s \in was'[p]
<1>1. stored' = [stored EXCEPT ![p] = s] /\ was' = [was EXCEPT ![p] = was[p] \union {s}]
  BY DEF Store
<1>2. stored' \in [Polls -> States] /\ was' \in [Polls -> SUBSET States]
  BY <1>1 DEF ServerInv
<1>3. \A q \in Polls : was'[q] = IF q = p THEN was[p] \union {s} ELSE was[q]
  BY <1>1 DEF ServerInv
<1>4. \A q \in Polls : stored'[q] = IF q = p THEN s ELSE stored[q]
  BY <1>1 DEF ServerInv
<1> QED BY <1>2, <1>3, <1>4 DEF ServerInv, Grows

LEMMA ServerKept == ASSUME ServerInv, UNCHANGED server PROVE ServerInv' /\ Grows
BY DEF ServerInv, Grows, server

-----------------------------------------------------------------------------
(* The form.                                                               *)

(* x is a record of the form that Submit makes.                            *)
IsPost(x) ==
    x = [id |-> x.id, mine |-> x.mine, long |-> x.long,
         options |-> x.options, state |-> x.state, poll |-> x.poll]

PostOf(i, m, l, o, s, p) ==
    [id |-> i, mine |-> m, long |-> l, options |-> o, state |-> s, poll |-> p]

LEMMA PostIsPost ==
    ASSUME NEW i, NEW m, NEW l, NEW o, NEW s, NEW p
    PROVE  LET r == PostOf(i, m, l, o, s, p) IN
           IsPost(r) /\ r.mine = m /\ r.state = s /\ r.poll = p
BY DEF PostOf, IsPost

LEMMA Excepted ==
    ASSUME NEW x, IsPost(x), NEW b, NEW s
    PROVE  /\ [x EXCEPT !.mine = b] = PostOf(x.id, b, x.long, x.options, x.state, x.poll)
           /\ [x EXCEPT !.state = s] = PostOf(x.id, x.mine, x.long, x.options, s, x.poll)
<1> DEFINE a == x.id
           e == x.mine
           l == x.long
           o == x.options
           t == x.state
           q == x.poll
<1>1. x = PostOf(a, e, l, o, t, q)
  BY DEF IsPost, PostOf
<1> HIDE DEF a, e, l, o, t, q
<1>2. [x EXCEPT !.mine = b] = PostOf(a, b, l, o, t, q)
  BY <1>1 DEF PostOf
<1>3. [x EXCEPT !.state = s] = PostOf(a, e, l, o, s, q)
  BY <1>1 DEF PostOf
<1> QED BY <1>2, <1>3 DEF a, e, l, o, t, q

LEMMA ExceptedTwice ==
    ASSUME NEW x, IsPost(x), NEW s, NEW p, NEW y, y = [[x EXCEPT !.state = s] EXCEPT !.poll = p]
    PROVE  y = PostOf(x.id, x.mine, x.long, x.options, s, p)
<1> DEFINE z == [x EXCEPT !.state = s]
<1>1. z = PostOf(x.id, x.mine, x.long, x.options, s, x.poll)
  BY Excepted
<1>2. y = [z EXCEPT !.poll = p]
  OBVIOUS
<1> HIDE DEF z
<1> QED BY <1>1, <1>2 DEF PostOf

(* Of this mount at most one request is on its way, namely when the button *)
(* is disabled; a poll that it made and that is not lost is its own.       *)
OneAtATime ==
    /\ \A x \in posts : IsPost(x) /\ x.mine \in BOOLEAN
    /\ \A x, y \in posts : x.mine /\ y.mine => x = y
    /\ busy <=> \E x \in posts : x.mine
    /\ busy => form = "edit"

OneMore(p) == p \notin lost /\ made = lost \union {p}

MadeOrLost ==
    /\ IsFiniteSet(lost) /\ made \subseteq Polls
    /\ \A p \in made : "active" \in was[p]
    /\ form \in {"off", "edit", "created"}
    /\ form = "created" => \E p : OneMore(p)
    /\ form # "created" /\ ~busy => made = lost
    /\ \A x \in posts : x.mine =>
        IF x.state = "ok" THEN OneMore(x.poll) ELSE made = lost

FormInv == busy \in BOOLEAN /\ OneAtATime /\ MadeOrLost

LEMMA FormStarts == FormInit => FormInv
<1> SUFFICES ASSUME FormInit PROVE FormInv
  OBVIOUS
<1>1. IsFiniteSet(lost)
  BY FS_EmptySet DEF FormInit
<1> QED BY <1>1 DEF FormInit, FormInv, OneAtATime, MadeOrLost

LEMMA FormRests ==
    ASSUME FormInv, Grows, UNCHANGED <<form, busy, posts, made, lost>> PROVE FormInv'
<1>1. OneAtATime'
  BY DEF FormInv, OneAtATime, IsPost
<1>2. MadeOrLost'
  BY DEF FormInv, MadeOrLost, OneMore, Grows
<1> QED BY <1>1, <1>2 DEF FormInv

LEMMA MountStep == ASSUME FormInv, OpenForm \/ LeaveForm PROVE FormInv'
<1>1. /\ form' \in {"edit", "off"} /\ busy' = FALSE /\ made' = {} /\ lost' = {} /\ was' = was
  BY DEF OpenForm, LeaveForm, Fresh, server
<1>2. \A x \in posts' : IsPost(x) /\ x.mine = FALSE
  <2>1. CASE OpenForm
    <3>1. posts' = posts /\ \A x \in posts : ~x.mine
      BY <2>1 DEF OpenForm, FormInv, OneAtATime
    <3> QED BY <3>1 DEF FormInv, OneAtATime
  <2>2. CASE LeaveForm
    <3>1. ASSUME NEW x \in posts
          PROVE  IsPost([x EXCEPT !.mine = FALSE]) /\ [x EXCEPT !.mine = FALSE].mine = FALSE
      <4>1. IsPost(x)
        BY DEF FormInv, OneAtATime
      <4>2. [x EXCEPT !.mine = FALSE] = PostOf(x.id, FALSE, x.long, x.options, x.state, x.poll)
        BY <4>1, Excepted
      <4>3. /\ IsPost(PostOf(x.id, FALSE, x.long, x.options, x.state, x.poll))
            /\ PostOf(x.id, FALSE, x.long, x.options, x.state, x.poll).mine = FALSE
        BY DEF PostOf, IsPost
      <4> QED BY <4>2, <4>3
    <3> QED BY <2>2, <3>1 DEF LeaveForm
  <2> QED BY <2>1, <2>2
<1>3. OneAtATime'
  BY <1>1, <1>2 DEF OneAtATime, IsPost
<1>4. IsFiniteSet(lost')
  BY <1>1, FS_EmptySet
<1>5. MadeOrLost'
  BY <1>1, <1>2, <1>4 DEF MadeOrLost
<1> QED BY <1>1, <1>3, <1>5 DEF FormInv

LEMMA SubmitStep == ASSUME FormInv, Submit PROVE FormInv'
<1>1. /\ form = "edit" /\ ~busy /\ made = lost /\ \A x \in posts : ~x.mine
  BY DEF Submit, CanPost, FormInv, OneAtATime, MadeOrLost
<1>2. UNCHANGED <<server, form, made, lost>>
  BY DEF Submit
<1>3. CASE ~Passes
  <2>1. UNCHANGED <<busy, posts>> /\ Grows
    BY <1>2, <1>3 DEF Submit, Grows, server
  <2> QED BY <1>2, <2>1, FormRests
<1>4. CASE Passes
  <2> DEFINE x == [id |-> sent', mine |-> TRUE, long |-> question = "long",
                   options |-> Sent, state |-> "sent", poll |-> None]
  <2>1. busy' = TRUE /\ posts' = posts \union {x}
    BY <1>4 DEF Submit
  <2>2. IsPost(x) /\ x.mine = TRUE /\ x.state = "sent"
    BY DEF IsPost
  <2> HIDE DEF x
  <2>3. OneAtATime'
    BY <1>1, <1>2, <2>1, <2>2 DEF FormInv, OneAtATime, IsPost
  <2>4. MadeOrLost'
    BY <1>1, <1>2, <2>1, <2>2 DEF FormInv, MadeOrLost, server
  <2> QED BY <2>1, <2>3, <2>4 DEF FormInv
<1> QED BY <1>3, <1>4


(* The answers: request x becomes y.                                       *)
LEMMA Replaced ==
    ASSUME FormInv, NEW x \in posts, NEW y, IsPost(y), y.mine = x.mine,
           posts' = (posts \ {x}) \union {y}, UNCHANGED <<form, busy>>
    PROVE  OneAtATime'
<1>1. \A z \in posts' : IsPost(z) /\ z.mine \in BOOLEAN
  BY DEF FormInv, OneAtATime
<1>2. \A z, w \in posts' : z.mine /\ w.mine => z = w
  BY DEF FormInv, OneAtATime
<1>3. busy' <=> \E z \in posts' : z.mine
  BY DEF FormInv, OneAtATime
<1> QED BY <1>1, <1>2, <1>3 DEF FormInv, OneAtATime, IsPost

LEMMA Mine ==
    ASSUME FormInv, NEW x \in posts, x.mine
    PROVE  /\ busy /\ form = "edit" /\ \A z \in posts : z.mine => z = x
           /\ IF x.state = "ok" THEN OneMore(x.poll) ELSE made = lost
BY DEF FormInv, OneAtATime, MadeOrLost

LEMMA PostServedStep ==
    ASSUME ServerInv, FormInv, NEW x \in posts, PostServed(x)
    PROVE  ServerInv' /\ Grows /\ FormInv'
<1>1. PICK p \in Polls :
        /\ Insert(p)
        /\ posts' = (posts \ {x}) \union {[x EXCEPT !.state = "ok", !.poll = p]}
        /\ made' = IF x.mine THEN made \union {p} ELSE made
  BY DEF PostServed
<1>2. ServerInv' /\ Grows /\ "active" \in was'[p]
  BY <1>1, Stored DEF Insert, States, Statuses
<1>3. IsPost(x) /\ x.mine \in BOOLEAN
  BY DEF FormInv, OneAtATime
<1> DEFINE y == [x EXCEPT !.state = "ok", !.poll = p]
<1>4. IsPost(y) /\ y.mine = x.mine /\ y.state = "ok" /\ y.poll = p
  <2>1. y = PostOf(x.id, x.mine, x.long, x.options, "ok", p)
    <3>1. y = [[x EXCEPT !.state = "ok"] EXCEPT !.poll = p]
      OBVIOUS
    <3> HIDE DEF y
    <3> QED BY <1>3, <3>1, ExceptedTwice
  <2> HIDE DEF y
  <2> QED BY <2>1, PostIsPost
<1>5. posts' = (posts \ {x}) \union {y}
  BY <1>1
<1> HIDE DEF y
<1>6. UNCHANGED <<form, busy, lost>> /\ x.state = "sent"
  BY DEF PostServed
<1>7. OneAtATime'
  BY <1>4, <1>5, <1>6, Replaced
<1>8. p \notin made
  BY <1>1 DEF Insert, FormInv, MadeOrLost
<1>9. MadeOrLost'
  <2>1. made' \subseteq Polls /\ \A q \in made' : "active" \in was'[q]
    BY <1>1, <1>2 DEF FormInv, MadeOrLost, Grows
  <2>2. CASE x.mine
    <3>1. busy /\ form = "edit" /\ (\A z \in posts : z.mine => z = x) /\ made = lost
      BY <1>6, <2>2, Mine
    <3>2. OneMore(p)'
      BY <1>1, <1>6, <1>8, <2>2, <3>1 DEF OneMore
    <3>3. \A z \in posts' : z.mine => z = y
      BY <1>5, <3>1
    <3> QED BY <1>4, <1>6, <2>1, <3>1, <3>2, <3>3 DEF FormInv, MadeOrLost
  <2>3. CASE ~x.mine
    <3>1. made' = made /\ \A z \in posts' : z.mine => z \in posts
      BY <1>1, <1>4, <1>5, <2>3
    <3> QED BY <1>6, <2>1, <3>1 DEF FormInv, MadeOrLost, OneMore
  <2> QED BY <2>2, <2>3
<1> QED BY <1>2, <1>6, <1>7, <1>9 DEF FormInv

LEMMA PostFailsStep ==
    ASSUME FormInv, NEW x \in posts, PostFails(x) \/ PostLost(x) PROVE FormInv'
<1> DEFINE y == [x EXCEPT !.state = "failed"]
<1>1. IsPost(x) /\ x.mine \in BOOLEAN
  BY DEF FormInv, OneAtATime
<1>2. IsPost(y) /\ y.mine = x.mine /\ y.state = "failed"
  <2>1. y = PostOf(x.id, x.mine, x.long, x.options, "failed", x.poll)
    BY <1>1, Excepted
  <2> HIDE DEF y
  <2> QED BY <2>1, PostIsPost
<1>3. posts' = (posts \ {x}) \union {y} /\ UNCHANGED <<form, busy, made, was>>
  BY DEF PostFails, PostLost, server
<1> HIDE DEF y
<1>4. OneAtATime'
  BY <1>2, <1>3, Replaced
<1>5. CASE x.mine
  <2>1. busy /\ form = "edit" /\ \A z \in posts' : z.mine => z = y
    BY <1>3, <1>5, Mine
  <2>2. made' = lost'
    BY <1>3, <1>5, Mine DEF PostFails, PostLost, OneMore
  <2>3. IsFiniteSet(lost')
    <3>1. lost' = lost \/ lost' = lost \union {x.poll}
      BY DEF PostFails, PostLost
    <3> QED BY <3>1, FS_AddElement DEF FormInv, MadeOrLost
  <2>4. MadeOrLost'
    BY <1>2, <1>3, <2>1, <2>2, <2>3 DEF FormInv, MadeOrLost
  <2> QED BY <1>3, <1>4, <2>4 DEF FormInv
<1>6. CASE ~x.mine
  <2>1. lost' = lost /\ \A z \in posts' : z.mine => z \in posts
    BY <1>2, <1>3, <1>6 DEF PostFails, PostLost
  <2>2. MadeOrLost'
    BY <1>3, <2>1 DEF FormInv, MadeOrLost, OneMore
  <2> QED BY <1>3, <1>4, <2>2 DEF FormInv
<1> QED BY <1>5, <1>6

LEMMA PostEndsStep == ASSUME FormInv, NEW x \in posts, PostEnds(x) PROVE FormInv'
<1>1. posts' = posts \ {x} /\ UNCHANGED <<made, lost, was>>
  BY DEF PostEnds, server
<1>2. CASE x.mine
  <2>1. busy /\ form = "edit" /\ (\A z \in posts : z.mine => z = x)
        /\ IF x.state = "ok" THEN OneMore(x.poll) ELSE made = lost
    BY <1>2, Mine
  <2>2. busy' = FALSE /\ form' = IF x.state = "ok" THEN "created" ELSE form
    BY <1>2 DEF PostEnds
  <2>3. \A z \in posts' : ~z.mine
    BY <1>1, <2>1
  <2>4. OneAtATime'
    BY <1>1, <2>2, <2>3 DEF FormInv, OneAtATime, IsPost
  <2>5. MadeOrLost'
    BY <1>1, <2>1, <2>2, <2>3 DEF FormInv, MadeOrLost, OneMore
  <2> QED BY <2>2, <2>4, <2>5 DEF FormInv
<1>3. CASE ~x.mine
  <2>1. UNCHANGED <<form, busy>>
    BY <1>3 DEF PostEnds
  <2>2. OneAtATime'
    <3>1. \A z \in posts : z.mine => z \in posts'
      BY <1>1, <1>3
    <3> QED BY <1>1, <2>1, <3>1 DEF FormInv, OneAtATime, IsPost
  <2>3. MadeOrLost'
    BY <1>1, <2>1 DEF FormInv, MadeOrLost, OneMore
  <2> QED BY <2>1, <2>2, <2>3 DEF FormInv
<1> QED BY <1>2, <1>3

LEMMA FormGrows ==
    ASSUME ServerInv, FormInv, FormNext PROVE ServerInv' /\ Grows /\ FormInv'
<1>1. CASE OpenForm \/ LeaveForm
  <2>1. UNCHANGED server
    BY <1>1 DEF OpenForm, LeaveForm
  <2> QED BY <1>1, <2>1, ServerKept, MountStep
<1>2. CASE \/ AddOption
           \/ \E i \in DOMAIN options : RemoveOption(i) \/ \E t \in Texts : ChangeOption(i, t)
           \/ \E q \in Lengths : ChangeQuestion(q)
  <2>1. UNCHANGED <<server, form, busy, posts, made, lost>>
    BY <1>2 DEF AddOption, RemoveOption, ChangeOption, Edits, ChangeQuestion
  <2> QED BY <2>1, ServerKept, FormRests
<1>3. CASE Submit
  <2>1. UNCHANGED server
    BY <1>3 DEF Submit
  <2> QED BY <1>3, <2>1, ServerKept, SubmitStep
<1>4. ASSUME NEW x \in posts, PostFails(x) \/ PostLost(x) \/ PostEnds(x)
      PROVE  ServerInv' /\ Grows /\ FormInv'
  <2>1. UNCHANGED server
    BY <1>4 DEF PostFails, PostLost, PostEnds
  <2> QED BY <1>4, <2>1, ServerKept, PostFailsStep, PostEndsStep
<1>5. ASSUME NEW x \in posts, PostServed(x) PROVE ServerInv' /\ Grows /\ FormInv'
  BY <1>5, PostServedStep
<1> QED BY <1>1, <1>2, <1>3, <1>4, <1>5 DEF FormNext

LEMMA OneEach == FormInv => OnePollPerForm
<1> SUFFICES ASSUME FormInv PROVE OnePollPerForm
  OBVIOUS
<1>0. IsFiniteSet(lost) /\ Cardinality(lost) \in Nat
  BY FS_CardinalityType DEF FormInv, MadeOrLost
<1>1. made = lost \/ \E p : OneMore(p)
  BY DEF FormInv, OneAtATime, MadeOrLost
<1>2. ASSUME NEW p, OneMore(p)
      PROVE  Cardinality(made) = Cardinality(lost) + 1 /\ Cardinality(made \ lost) = 1
  <2>1. Cardinality(made) = Cardinality(lost) + 1
    BY <1>0, <1>2, FS_AddElement DEF OneMore
  <2>2. made \ lost = {p}
    BY <1>2 DEF OneMore
  <2> QED BY <2>1, <2>2, FS_Singleton
<1>3. Cardinality(made) <= Cardinality(lost) + 1
  BY <1>0, <1>1, <1>2
<1>4. form = "created" => Cardinality(made \ lost) = 1
  BY <1>2 DEF FormInv, MadeOrLost
<1>5. form = "edit" /\ ~busy => made = lost
  BY DEF FormInv, MadeOrLost
<1> QED BY <1>3, <1>4, <1>5 DEF OnePollPerForm

(* However often the form is submitted, and whatever requests or replies   *)
(* fail, one mount of it makes one poll and one more per lost reply.       *)
THEOREM OnePollEach == FormSpec => []OnePollPerForm
<1>1. FormStart => ServerInv /\ FormInv
  BY ServerInit, FormStarts DEF FormStart
<1>2. ServerInv /\ FormInv /\ [FormNext]_<<server, formVars>> => ServerInv' /\ FormInv'
  <2>1. ServerInv /\ FormInv /\ UNCHANGED <<server, formVars>> => ServerInv' /\ FormInv'
    BY ServerKept, FormRests DEF formVars
  <2> QED BY <2>1, FormGrows
<1> QED BY <1>1, <1>2, OneEach, PTL DEF FormSpec

-----------------------------------------------------------------------------
(* What the form sends: the options are trimmed one by one, so the facts   *)
(* need induction, for which sets of numbers do.                           *)

(* Induction on the numbers up to n.                                       *)
LEMMA LeastNumber ==
    ASSUME NEW T \in SUBSET Nat, T # {}
    PROVE  \E m \in T : \A n \in T : m <= n
<1> DEFINE S == {1..m : m \in T}
           R == StrictSubsetOrdering(Nat)
           F == FiniteSubsetsOf(Nat)
<1>1. IsWellFoundedOn(R, F)
  BY FS_StrictSubsetOrderingWellFounded
<1>2. S \subseteq F /\ S # {}
  <2>1. \A m \in Nat : IsFiniteSet(1..m) /\ 1..m \subseteq Nat
    BY FS_Interval
  <2> QED BY <2>1 DEF FiniteSubsetsOf
<1> HIDE DEF S, R, F
<1>3. PICK x \in S : \A y \in S : <<y, x>> \notin R
  BY <1>1, <1>2, WFMin
<1>4. PICK m \in T : x = 1..m
  BY DEF S
<1>5. ASSUME NEW n \in T, n < m PROVE FALSE
  <2>1. 1..n \in S
    BY DEF S
  <2>2. /\ 1..n \in SUBSET Nat /\ 1..m \in SUBSET Nat
        /\ 1..n \subseteq 1..m /\ m \in 1..m /\ m \notin 1..n
    BY <1>5
  <2>3. <<1..n, 1..m>> \in R
    BY <2>2 DEF R, StrictSubsetOrdering
  <2> QED BY <2>1, <2>3, <1>3, <1>4
<1> QED BY <1>5

LEMMA UpTo ==
    ASSUME NEW n \in Nat, NEW T \in SUBSET (0..n), 0 \in T,
           \A i \in 1..n : i - 1 \in T => i \in T
    PROVE  n \in T
<1> SUFFICES ASSUME n \notin T PROVE FALSE
  OBVIOUS
<1> DEFINE B == {i \in 0..n : i \notin T}
<1>1. B \in SUBSET Nat /\ B # {}
  OBVIOUS
<1>2. PICK m \in B : \A i \in B : m <= i
  BY <1>1, LeastNumber
<1>3. m \in 1..n /\ m - 1 \notin B /\ m - 1 \in 0..n
  BY <1>2
<1> QED BY <1>3

(* One element of the recursion in Kept.                                   *)
More(o, s, i) ==
    IF i = 0 THEN <<>>
    ELSE IF NotBlank(Trim(o[i])) THEN Append(s, Trim(o[i])) ELSE s

Keeps(o, n, f) == f = [i \in 0..n |-> More(o, f[i - 1], i)]

LEMMA KeepsExists ==
    ASSUME NEW o, NEW n \in Nat PROVE \E f : Keeps(o, n, f)
<1> DEFINE T == {i \in 0..n : \E f : Keeps(o, i, f)}
<1>1. 0 \in T
  <2>1. Keeps(o, 0, [i \in 0..0 |-> <<>>])
    BY DEF Keeps, More
  <2> QED BY <2>1
<1>2. ASSUME NEW i \in 1..n, i - 1 \in T PROVE i \in T
  <2>1. PICK f : Keeps(o, i - 1, f)
    BY <1>2
  <2> DEFINE g == [j \in 0..i |-> IF j = i THEN More(o, f[i - 1], i) ELSE f[j]]
  <2>2. f = [j \in 0..(i - 1) |-> More(o, f[j - 1], j)]
    BY <2>1 DEF Keeps
  <2>3. ASSUME NEW j \in 0..i PROVE g[j] = More(o, g[j - 1], j)
    <3>1. CASE j = 0
      BY <2>2, <3>1 DEF More
    <3>2. CASE j = i /\ j # 0
      BY <3>2
    <3>3. CASE j # i /\ j # 0
      <4>1. j \in 0..(i - 1) /\ j - 1 \in 0..i /\ j - 1 # i
        BY <3>3
      <4>2. g[j] = f[j] /\ g[j - 1] = f[j - 1]
        BY <4>1
      <4>3. f[j] = More(o, f[j - 1], j)
        BY <2>2, <4>1
      <4> QED BY <4>2, <4>3
    <3> QED BY <3>1, <3>2, <3>3
  <2>4. Keeps(o, i, g)
    BY <2>3 DEF Keeps
  <2> QED BY <2>4
<1> HIDE DEF T
<1>3. n \in T
  BY <1>1, <1>2, UpTo DEF T
<1> QED BY <1>3 DEF T

LEMMA KeptKeeps ==
    ASSUME NEW o, Len(o) \in Nat
    PROVE  \E f : Keeps(o, Len(o), f) /\ Kept(o) = f[Len(o)]
<1> DEFINE F == CHOOSE f : Keeps(o, Len(o), f)
<1>1. Keeps(o, Len(o), F)
  BY KeepsExists
<1>2. Kept(o) = F[Len(o)]
  BY DEF Kept, Keeps, More
<1> QED BY <1>1, <1>2

(* Neither blank nor padded, as the backend wants an option.               *)
Clean(t) == t \in Text /\ NotBlank(t) /\ Trim(t) = t

LEMMA TrimIsText == ASSUME NEW t \in Text PROVE Trim(t) \in Text /\ Trim(Trim(t)) = Trim(t)
BY DEF Trim, Text

(* What the form sends is clean and no more than what was typed.           *)
LEMMA KeptClean ==
    ASSUME NEW o \in Seq(Text)
    PROVE  Kept(o) \in Seq(Text) /\ Len(Kept(o)) <= Len(o)
           /\ \A j \in 1..Len(Kept(o)) : Clean(Kept(o)[j])
<1> DEFINE n == Len(o)
<1>0. n \in Nat /\ \A i \in 1..n : o[i] \in Text
  OBVIOUS
<1>1. PICK f : Keeps(o, n, f) /\ Kept(o) = f[n]
  BY <1>0, KeptKeeps
<1>2. \A i \in 0..n : f[i] = More(o, f[i - 1], i)
  BY <1>1 DEF Keeps
<1> DEFINE Good(i) == /\ f[i] \in Seq(Text) /\ Len(f[i]) <= i
                      /\ \A j \in 1..Len(f[i]) : Clean(f[i][j])
           T == {i \in 0..n : Good(i)}
<1>3. 0 \in T
  <2>1. f[0] = <<>>
    BY <1>0, <1>2 DEF More
  <2>2. <<>> \in Seq(Text) /\ Len(<<>>) = 0
    OBVIOUS
  <2>3. Good(0)
    BY <2>1, <2>2
  <2> QED BY <1>0, <2>3
<1>4. ASSUME NEW i \in 1..n, i - 1 \in T PROVE i \in T
  <2> DEFINE s == f[i - 1]
             t == Trim(o[i])
  <2>1. s \in Seq(Text) /\ Len(s) <= i - 1 /\ \A j \in 1..Len(s) : Clean(s[j])
    BY <1>4
  <2>2. t \in Text /\ Trim(t) = t
    BY <1>0, TrimIsText
  <2>3. f[i] = IF NotBlank(t) THEN Append(s, t) ELSE s
    BY <1>2 DEF More
  <2> HIDE DEF s, t
  <2>4. CASE NotBlank(t)
    <3>1. f[i] = Append(s, t) /\ Clean(t)
      BY <2>2, <2>3, <2>4 DEF Clean
    <3>2. /\ Append(s, t) \in Seq(Text) /\ Len(Append(s, t)) = Len(s) + 1
          /\ \A j \in 1..Len(s) + 1 :
                Append(s, t)[j] = IF j = Len(s) + 1 THEN t ELSE s[j]
      BY <2>1, <2>2
    <3> DEFINE r == Append(s, t)
    <3> HIDE DEF r
    <3>3. \A j \in 1..Len(r) : Clean(r[j])
      BY <2>1, <3>1, <3>2 DEF r
    <3>4. r \in Seq(Text) /\ Len(r) <= i /\ f[i] = r
      BY <2>1, <3>1, <3>2 DEF r
    <3> QED BY <3>3, <3>4
  <2>5. CASE ~NotBlank(t)
    BY <2>1, <2>3, <2>5
  <2> QED BY <2>4, <2>5
<1> HIDE DEF T
<1>5. n \in T
  BY <1>0, <1>3, <1>4, UpTo DEF T
<1> QED BY <1>1, <1>5 DEF T

(* Checked by the form, the options pass in the backend.                   *)
LEMMA SentAcceptable ==
    ASSUME options \in Seq(Text), Len(options) <= MaxOptions, Passes
    PROVE  Sent \in Seq(Text) /\ Acceptable(Sent)
<1>1. /\ Sent \in Seq(Text) /\ Len(Sent) <= Len(options)
      /\ \A j \in DOMAIN Sent : Clean(Sent[j])
  BY KeptClean DEF Sent
<1>2. Len(Sent) \in Nat /\ Len(Sent) >= MinOptions /\ Unique(Sent)
  BY <1>1 DEF Passes
<1> HIDE DEF Sent
<1>3. Len(Sent) \in MinOptions..MaxOptions
  BY <1>1, <1>2, OptionsAssumption
<1>4. \A i \in DOMAIN Sent : NotBlank(Trim(Sent[i]))
  BY <1>1 DEF Clean
<1>5. \A i, j \in DOMAIN Sent : i # j => Lower(Trim(Sent[i])) # Lower(Trim(Sent[j]))
  BY <1>1, <1>2 DEF Clean, Unique
<1> QED BY <1>1, <1>3, <1>4, <1>5 DEF Acceptable

-----------------------------------------------------------------------------
(* The form: its types and the requests on their way.                      *)

(* The types, and what the backend answers and is asked.                   *)
FormTyped ==
    /\ FormTypeOK
    /\ \A x \in posts : Acceptable(x.options) /\ (x.state = "ok" => x.poll \in Polls)

LEMMA FormTypedStarts == FormInit => FormTyped
<1> SUFFICES ASSUME FormInit PROVE FormTyped
  OBVIOUS
<1>1. /\ form = "off" /\ question = "empty" /\ options = Defaults
      /\ refused = FALSE /\ busy = FALSE /\ posts = {} /\ sent = 0
      /\ made = {} /\ lost = {}
  BY DEF FormInit
<1>2. 0 \in 0..MaxPosts
  BY OptionsAssumption
<1>3. options \in Seq(Text) /\ Len(options) \in MinOptions..MaxOptions
  BY <1>1, OptionsAssumption
<1> QED BY <1>1, <1>2, <1>3 DEF FormTyped, FormTypeOK, Lengths

LEMMA FormTypedRests == ASSUME FormTyped, UNCHANGED formVars PROVE FormTyped'
BY DEF formVars, FormTyped, FormTypeOK, Acceptable

LEMMA MountTyped == ASSUME FormTyped, OpenForm \/ LeaveForm PROVE FormTyped'
<1>1. /\ form' \in {"off", "edit"} /\ question' = "empty" /\ options' = Defaults
      /\ refused' = FALSE /\ busy' = FALSE /\ made' = {} /\ lost' = {} /\ sent' = sent
  BY DEF OpenForm, LeaveForm, Fresh
<1>2. ASSUME NEW x \in posts'
      PROVE  x \in Post /\ Acceptable(x.options) /\ (x.state = "ok" => x.poll \in Polls)
  <2>1. CASE posts' = posts
    BY <2>1 DEF FormTyped, FormTypeOK
  <2>2. CASE posts' = {[y EXCEPT !.mine = FALSE] : y \in posts}
    <3>1. PICK y \in posts : x = [y EXCEPT !.mine = FALSE]
      BY <2>2
    <3>2. y \in Post /\ Acceptable(y.options) /\ (y.state = "ok" => y.poll \in Polls)
      BY DEF FormTyped, FormTypeOK
    <3>3. /\ x \in Post /\ x.options = y.options /\ x.state = y.state /\ x.poll = y.poll
      BY <3>1, <3>2 DEF Post
    <3> QED BY <3>2, <3>3
  <2> QED BY <2>1, <2>2 DEF OpenForm, LeaveForm
<1>3. Defaults \in Seq(Text) /\ Len(Defaults) \in MinOptions..MaxOptions
  BY OptionsAssumption
<1>4. FormTypeOK'
  BY <1>1, <1>2, <1>3 DEF FormTyped, FormTypeOK, Lengths
<1> QED BY <1>2, <1>4 DEF FormTyped, Acceptable

LEMMA RemoveFacts ==
    ASSUME NEW o \in Seq(Text), NEW i \in 1..Len(o)
    PROVE  LET r == SubSeq(o, 1, i - 1) \o SubSeq(o, i + 1, Len(o)) IN
           r \in Seq(Text) /\ Len(r) = Len(o) - 1
<1> DEFINE a == SubSeq(o, 1, i - 1)
           b == SubSeq(o, i + 1, Len(o))
<1>1. /\ a \in Seq(Text) /\ Len(a) = i - 1
      /\ b \in Seq(Text) /\ Len(b) = Len(o) - i
  OBVIOUS
<1> HIDE DEF a, b
<1>2. a \o b \in Seq(Text) /\ Len(a \o b) = Len(o) - 1
  BY <1>1
<1> QED BY <1>2 DEF a, b

LEMMA EditTyped ==
    ASSUME FormTyped,
           \/ AddOption
           \/ \E i \in DOMAIN options : RemoveOption(i) \/ \E t \in Texts : ChangeOption(i, t)
           \/ \E q \in Lengths : ChangeQuestion(q)
    PROVE  FormTyped'
<1>1. options \in Seq(Text) /\ Len(options) \in MinOptions..MaxOptions
      /\ MinOptions \in Nat /\ MaxOptions \in Nat
  BY OptionsAssumption DEF FormTyped, FormTypeOK
<1>2. UNCHANGED <<form, refused, busy, posts, sent, made, lost>>
  BY DEF AddOption, RemoveOption, ChangeOption, Edits, ChangeQuestion
<1>3. question' \in Lengths /\ options' \in Seq(Text)
      /\ Len(options') \in MinOptions..MaxOptions
  <2>1. CASE AddOption
    <3>1. Len(options) < MaxOptions /\ options' = Append(options, Blank)
          /\ question' = question
      BY <2>1 DEF AddOption, Edits
    <3>2. Blank \in Text
      BY DEF Blank, Text
    <3>3. Append(options, Blank) \in Seq(Text) /\ Len(Append(options, Blank)) = Len(options) + 1
      BY <1>1, <3>2
    <3> QED BY <1>1, <3>1, <3>3 DEF FormTyped, FormTypeOK
  <2>2. ASSUME NEW i \in DOMAIN options, RemoveOption(i)
        PROVE  /\ question' \in Lengths /\ options' \in Seq(Text)
               /\ Len(options') \in MinOptions..MaxOptions
    <3> DEFINE r == SubSeq(options, 1, i - 1) \o SubSeq(options, i + 1, Len(options))
    <3>1. Len(options) > MinOptions /\ options' = r /\ question' = question
      BY <2>2 DEF RemoveOption, Removable, Edits
    <3>2. r \in Seq(Text) /\ Len(r) = Len(options) - 1
      BY <1>1, RemoveFacts
    <3> QED BY <1>1, <3>1, <3>2 DEF FormTyped, FormTypeOK
  <2>3. ASSUME NEW i \in DOMAIN options, NEW t \in Texts, ChangeOption(i, t)
        PROVE  /\ question' \in Lengths /\ options' \in Seq(Text)
               /\ Len(options') \in MinOptions..MaxOptions
    <3>1. options' = [options EXCEPT ![i] = t] /\ question' = question /\ t \in Text
      BY <2>3, TextsAssumption DEF ChangeOption, Edits
    <3>2. options' \in Seq(Text) /\ Len(options') = Len(options)
      BY <1>1, <3>1
    <3> QED BY <1>1, <3>1, <3>2 DEF FormTyped, FormTypeOK
  <2>4. ASSUME NEW q \in Lengths, ChangeQuestion(q)
        PROVE  question' \in Lengths /\ options' = options
    BY <2>4 DEF ChangeQuestion
  <2> QED BY <1>1, <2>1, <2>2, <2>3, <2>4
<1> QED BY <1>2, <1>3 DEF FormTyped, FormTypeOK, Acceptable

LEMMA SubmitTyped == ASSUME FormTyped, Submit PROVE FormTyped'
<1>1. UNCHANGED <<form, question, options, made, lost>>
  BY DEF Submit
<1>2. CASE ~Passes
  BY <1>1, <1>2 DEF Submit, FormTyped, FormTypeOK, Acceptable
<1>3. CASE Passes
  <2> DEFINE x == [id |-> sent', mine |-> TRUE, long |-> question = "long",
                   options |-> Sent, state |-> "sent", poll |-> None]
  <2>1. /\ refused' = FALSE /\ busy' = TRUE /\ sent < MaxPosts /\ sent' = sent + 1
        /\ posts' = posts \union {x}
    BY <1>3 DEF Submit
  <2>2. options \in Seq(Text) /\ Len(options) <= MaxOptions /\ sent \in 0..MaxPosts
    BY OptionsAssumption DEF FormTyped, FormTypeOK
  <2>3. Sent \in Seq(Text) /\ Acceptable(Sent)
    BY <1>3, <2>2, SentAcceptable
  <2>4. sent' \in 1..MaxPosts
    BY <2>1, <2>2, OptionsAssumption
  <2> HIDE DEF Sent, Acceptable
  <2>5. x \in Post /\ x.options = Sent /\ x.state = "sent"
    BY <2>3, <2>4 DEF Post
  <2> HIDE DEF x
  <2>6. ASSUME NEW y \in posts'
        PROVE  y \in Post /\ Acceptable(y.options) /\ (y.state = "ok" => y.poll \in Polls)
    <3>1. CASE y \in posts
      BY <3>1 DEF FormTyped, FormTypeOK
    <3>2. CASE y = x
      BY <2>3, <2>5, <3>2
    <3> QED BY <2>1, <3>1, <3>2
  <2>7. FormTypeOK'
    <3>1. posts' \subseteq Post /\ sent' \in 0..MaxPosts
      BY <2>4, <2>6
    <3>2. refused' \in BOOLEAN /\ busy' \in BOOLEAN
      BY <2>1
    <3> QED BY <1>1, <3>1, <3>2 DEF FormTyped, FormTypeOK
  <2> QED BY <2>6, <2>7 DEF FormTyped, Acceptable
<1> QED BY <1>2, <1>3

(* An answer changes no more of a request than its state and its poll.     *)
LEMMA ReplacedTyped ==
    ASSUME FormTyped, NEW x \in posts, NEW y, y \in Post, y.options = x.options,
           y.state = "ok" => y.poll \in Polls,
           posts' = (posts \ {x}) \union {y}, made' \subseteq Polls, lost' \subseteq Polls,
           UNCHANGED <<form, question, options, refused, busy, sent>>
    PROVE  FormTyped'
<1>1. \A z \in posts' : /\ z \in Post /\ Acceptable(z.options)
                        /\ z.state = "ok" => z.poll \in Polls
  BY DEF FormTyped, FormTypeOK
<1>2. FormTypeOK'
  BY <1>1 DEF FormTyped, FormTypeOK
<1> QED BY <1>1, <1>2 DEF FormTyped, Acceptable

LEMMA AnswerTyped ==
    ASSUME FormTyped, NEW x \in posts, PostServed(x) \/ PostFails(x) \/ PostLost(x)
    PROVE  FormTyped'
<1>1. x \in Post /\ UNCHANGED <<form, question, options, refused, busy, sent>>
      /\ made \subseteq Polls /\ lost \subseteq Polls
      /\ (x.state = "ok" => x.poll \in Polls)
  BY DEF FormTyped, FormTypeOK, PostServed, PostFails, PostLost
<1>2. CASE PostServed(x)
  <2>1. PICK p \in Polls :
          /\ posts' = (posts \ {x}) \union {[x EXCEPT !.state = "ok", !.poll = p]}
          /\ made' = IF x.mine THEN made \union {p} ELSE made
    BY <1>2 DEF PostServed
  <2> DEFINE z == [x EXCEPT !.state = "ok"]
             y == [z EXCEPT !.poll = p]
  <2>2. posts' = (posts \ {x}) \union {y}
    BY <2>1
  <2>3. z \in Post /\ z.options = x.options /\ z.state = "ok"
    BY <1>1 DEF Post
  <2> HIDE DEF z
  <2>4. y \in Post /\ y.options = x.options /\ y.poll = p
    BY <2>3 DEF Post
  <2> HIDE DEF y
  <2>5. lost' = lost
    BY <1>2 DEF PostServed
  <2> QED BY <1>1, <2>1, <2>2, <2>4, <2>5, ReplacedTyped
<1>3. CASE PostFails(x) \/ PostLost(x)
  <2> DEFINE y == [x EXCEPT !.state = "failed"]
  <2>1. posts' = (posts \ {x}) \union {y} /\ made' = made
        /\ (lost' = lost \/ (x.state = "ok" /\ lost' = lost \union {x.poll}))
    BY <1>3 DEF PostFails, PostLost
  <2>2. y \in Post /\ y.options = x.options /\ y.state = "failed"
    BY <1>1 DEF Post
  <2> HIDE DEF y
  <2>3. lost' \subseteq Polls
    BY <1>1, <2>1
  <2> QED BY <1>1, <2>1, <2>2, <2>3, ReplacedTyped
<1> QED BY <1>2, <1>3

LEMMA PostEndsTyped == ASSUME FormTyped, NEW x \in posts, PostEnds(x) PROVE FormTyped'
<1>1. /\ posts' = posts \ {x} /\ UNCHANGED <<question, options, sent, made, lost>>
      /\ form' \in {form, "created"} /\ refused' \in {refused, TRUE} /\ busy' \in {busy, FALSE}
  BY DEF PostEnds
<1> QED BY <1>1 DEF FormTyped, FormTypeOK, Acceptable

LEMMA FormTypedStep == FormTyped /\ FormNext => FormTyped'
BY MountTyped, EditTyped, SubmitTyped, AnswerTyped, PostEndsTyped DEF FormNext

LEMMA FormTypedAlways == FormSpec => []FormTyped
<1>1. FormStart => FormTyped
  BY FormTypedStarts DEF FormStart
<1>2. FormTyped /\ [FormNext]_<<server, formVars>> => FormTyped'
  BY FormTypedStep, FormTypedRests
<1> QED BY <1>1, <1>2, PTL DEF FormSpec

(* The form never leaves its bounds however it is edited, submitted and    *)
(* left with requests on their way.                                        *)
THEOREM FormTyping == FormSpec => []FormTypeOK
BY FormTypedAlways, PTL DEF FormTyped

(* Whatever is typed, what passes the checks of the form passes those of   *)
(* the backend: trimming and dropping blanks is done once and for all.     *)
THEOREM SentAccepted == FormSpec => []SentIsAcceptable
<1>1. FormTyped => SentIsAcceptable
  BY DEF FormTyped, SentIsAcceptable
<1> QED BY <1>1, FormTypedAlways, PTL

-----------------------------------------------------------------------------
(* The dashboard.                                                          *)

CallOf == [id : Nat, mine : BOOLEAN, poll : Polls, view : Lists,
           state : {"sent", "ok", "failed"}, next : States]

(* A list of which every entry was stored.                                 *)
WasStored(v) == v \in Lists /\ \A p \in Polls : v[p] \in was[p]

(* The list, the answer and the lists that clicks have kept were stored; a *)
(* page that has no list yet, or could not read it, has no clicks.         *)
DashInv ==
    /\ dash \in BOOLEAN /\ loading \in BOOLEAN /\ failed \in BOOLEAN
    /\ list \in Lists /\ clicks \in Nat
    /\ loading => dash /\ ~failed
    /\ ~dash => ~failed
    /\ answer # None => WasStored(answer)
    /\ calls \subseteq CallOf
    /\ \A c \in calls : /\ c.mine => WasStored(c.view)
                        /\ c.state = "ok" => c.next \in was[c.poll]
    /\ IF dash /\ ~loading /\ ~failed THEN WasStored(list)
       ELSE list = Empty /\ \A c \in calls : ~c.mine

LEMMA EmptyIsList == Empty \in Lists
BY DEF Empty, Lists

LEMMA DashStarts == DashInit => DashInv
<1> SUFFICES ASSUME DashInit PROVE DashInv
  OBVIOUS
<1>1. /\ dash = FALSE /\ list = Empty /\ loading = FALSE /\ failed = FALSE
      /\ answer = None /\ calls = {} /\ clicks = 0
  BY DEF DashInit
<1> QED BY <1>1, EmptyIsList DEF DashInv

LEMMA StillStored == ASSUME Grows, NEW v, WasStored(v) PROVE WasStored(v)'
BY DEF Grows, WasStored

LEMMA DashRests ==
    ASSUME DashInv, Grows, UNCHANGED <<dash, list, loading, failed, answer, calls, clicks>>
    PROVE  DashInv'
<1>1. answer' # None => WasStored(answer)'
  BY StillStored DEF DashInv
<1>2. \A c \in calls' : /\ c.mine => WasStored(c.view)'
                        /\ c.state = "ok" => c.next \in was'[c.poll]
  <2> SUFFICES ASSUME NEW c \in calls
               PROVE  /\ c.mine => WasStored(c.view)'
                      /\ c.state = "ok" => c.next \in was'[c.poll]
    OBVIOUS
  <2>1. c.poll \in Polls
    BY DEF DashInv, CallOf
  <2>2. c.mine => WasStored(c.view)'
    BY StillStored DEF DashInv
  <2> QED BY <2>1, <2>2 DEF DashInv, Grows
<1>3. dash /\ ~loading /\ ~failed => WasStored(list)'
  BY StillStored DEF DashInv
<1> QED BY <1>1, <1>2, <1>3 DEF DashInv

LEMMA OpenStep == ASSUME DashInv, OpenDash PROVE DashInv'
<1>1. /\ ~dash /\ dash' = TRUE /\ loading' = TRUE
      /\ UNCHANGED <<was, list, failed, answer, calls, clicks>>
  BY DEF OpenDash, server, bounds
<1> QED BY <1>1 DEF DashInv, WasStored

LEMMA LeaveStep == ASSUME DashInv, LeaveDash PROVE DashInv'
<1>1. /\ dash' = FALSE /\ list' = Empty /\ loading' = FALSE /\ failed' = FALSE
      /\ answer' = None /\ was' = was /\ clicks' = clicks
      /\ calls' = {[c EXCEPT !.mine = FALSE, !.view = Empty] : c \in calls}
  BY DEF LeaveDash, server, bounds
<1>2. ASSUME NEW c \in calls'
      PROVE  c \in CallOf /\ ~c.mine /\ (c.state = "ok" => c.next \in was[c.poll])
  <2>1. PICK b \in calls : c = [b EXCEPT !.mine = FALSE, !.view = Empty]
    BY <1>1
  <2> DEFINE d == [b EXCEPT !.mine = FALSE]
  <2>2. c = [d EXCEPT !.view = Empty]
    <3>1. [b EXCEPT !.mine = FALSE, !.view = Empty]
            = [[b EXCEPT !.mine = FALSE] EXCEPT !.view = Empty]
      OBVIOUS
    <3> QED BY <2>1, <3>1
  <2>3. b \in CallOf /\ (b.state = "ok" => b.next \in was[b.poll])
    BY DEF DashInv
  <2>4. /\ d \in CallOf /\ ~d.mine
        /\ d.state = b.state /\ d.next = b.next /\ d.poll = b.poll
    BY <2>3 DEF CallOf
  <2> HIDE DEF d
  <2>5. /\ c \in CallOf /\ c.mine = d.mine
        /\ c.state = d.state /\ c.next = d.next /\ c.poll = d.poll
    BY <2>2, <2>4, EmptyIsList DEF CallOf
  <2> QED BY <2>3, <2>4, <2>5
<1> QED BY <1>1, <1>2, EmptyIsList DEF DashInv

LEMMA ListServedStep == ASSUME ServerInv, DashInv, ListServed PROVE DashInv'
<1>1. answer' = stored /\ UNCHANGED <<was, dash, list, loading, failed, calls, clicks>>
  BY DEF ListServed, server, bounds
<1>2. WasStored(stored)
  BY DEF ServerInv, WasStored, Lists, States
<1>3. WasStored(answer)'
  BY <1>1, <1>2 DEF WasStored
<1>4. WasStored(list) => WasStored(list)'
  BY <1>1 DEF WasStored
<1>5. \A c \in calls : WasStored(c.view) => WasStored(c.view)'
  BY <1>1 DEF WasStored
<1> QED BY <1>1, <1>3, <1>4, <1>5 DEF DashInv

LEMMA ListEndsStep == ASSUME DashInv, ListShown \/ ListFails PROVE DashInv'
<1>1. /\ loading /\ loading' = FALSE /\ answer' = None
      /\ UNCHANGED <<was, dash, calls, clicks>>
      /\ \/ list' = answer /\ answer # None /\ failed' = failed
         \/ list' = list /\ failed' = TRUE
  BY DEF ListShown, ListFails, server, bounds
<1>2. /\ list = Empty /\ dash /\ ~failed
      /\ \A c \in calls : ~c.mine /\ (c.state = "ok" => c.next \in was[c.poll])
      /\ answer # None => WasStored(answer)
      /\ dash \in BOOLEAN /\ failed \in BOOLEAN /\ clicks \in Nat /\ calls \subseteq CallOf
  BY <1>1 DEF DashInv
<1>3. CASE list' = answer /\ answer # None /\ failed' = failed
  <2>1. list' \in Lists /\ WasStored(list)'
    BY <1>1, <1>2, <1>3 DEF WasStored
  <2> QED BY <1>1, <1>2, <1>3, <2>1 DEF DashInv
<1>4. CASE list' = list /\ failed' = TRUE
  BY <1>1, <1>2, <1>4, EmptyIsList DEF DashInv
<1> QED BY <1>1, <1>3, <1>4

LEMMA ElsewhereStep ==
    ASSUME ServerInv, DashInv, NEW p \in Polls, Elsewhere(p) PROVE ServerInv' /\ DashInv'
<1>1. PICK s \in States : Store(p, s)
  BY DEF Elsewhere, UpdatePollStatus, DeletePoll, Insert, States, Statuses
<1>2. UNCHANGED <<dash, list, loading, failed, answer, calls, clicks>>
  BY DEF Elsewhere
<1> QED BY <1>1, <1>2, Stored, DashRests

LEMMA ClickStep ==
    ASSUME DashInv, NEW p \in Polls, NEW kind, Click(p, kind) PROVE DashInv'
<1> DEFINE c == [id |-> clicks', mine |-> TRUE, poll |-> p, view |-> list, state |-> "sent",
                 next |-> IF kind = "delete" THEN "none" ELSE Opposite(list[p])]
<1>1. /\ dash /\ ~loading /\ list # Empty /\ clicks' = clicks + 1
      /\ calls' = calls \union {c}
      /\ UNCHANGED <<was, dash, list, loading, failed, answer>>
  BY DEF Click, View, server
<1>2. ~failed /\ WasStored(list)
  BY <1>1 DEF DashInv
<1>3. c \in CallOf /\ c.view = list /\ c.state = "sent" /\ clicks' \in Nat
  BY <1>1, <1>2 DEF CallOf, Opposite, States, Statuses, DashInv
<1> HIDE DEF c
<1>4. \A v : WasStored(v) => WasStored(v)'
  BY <1>1 DEF WasStored
<1> QED BY <1>1, <1>2, <1>3, <1>4 DEF DashInv

(* A call gets another state; it may say ok only of what was stored.       *)
LEMMA BecomesStep ==
    ASSUME DashInv, Grows, NEW c \in calls, NEW s \in {"ok", "failed"}, Becomes(c, s),
           s = "ok" => c.next \in was'[c.poll],
           UNCHANGED <<dash, list, loading, failed, answer, clicks>>
    PROVE  DashInv'
<1> DEFINE d == [c EXCEPT !.state = s]
<1>1. c \in CallOf
  BY DEF DashInv
<1>2. /\ d \in CallOf /\ d.mine = c.mine /\ d.view = c.view /\ d.poll = c.poll
      /\ d.next = c.next /\ d.state = s
  BY <1>1 DEF CallOf
<1>3. calls' = (calls \ {c}) \union {d}
  BY DEF Becomes
<1> HIDE DEF d
<1>4. ASSUME NEW b \in calls'
      PROVE  /\ b \in CallOf
             /\ b.mine => WasStored(b.view)'
             /\ b.state = "ok" => b.next \in was'[b.poll]
             /\ b.mine => \E a \in calls : a.mine
  <2>1. CASE b \in calls
    <3>1. b \in CallOf /\ b.poll \in Polls
      BY <2>1 DEF DashInv, CallOf
    <3>2. b.mine => WasStored(b.view)'
      BY <2>1, StillStored DEF DashInv
    <3> QED BY <2>1, <3>1, <3>2 DEF DashInv, Grows
  <2>2. CASE b = d
    <3>1. c.mine => WasStored(c.view)'
      BY StillStored DEF DashInv
    <3> QED BY <1>2, <2>2, <3>1 DEF WasStored
  <2> QED BY <1>3, <2>1, <2>2
<1>5. answer' # None => WasStored(answer)'
  BY StillStored DEF DashInv
<1>6. dash /\ ~loading /\ ~failed => WasStored(list)'
  BY StillStored DEF DashInv
<1> QED BY <1>4, <1>5, <1>6 DEF DashInv

LEMMA CallServedStep ==
    ASSUME ServerInv, DashInv, NEW c \in calls, CallServed(c) PROVE ServerInv' /\ DashInv'
<1>1. c.poll \in Polls /\ c.next \in States
  BY DEF DashInv, CallOf
<1>2. Store(c.poll, c.next)
  BY DEF CallServed, UpdatePollStatus, DeletePoll
<1>3. ServerInv' /\ Grows /\ c.next \in was'[c.poll]
  BY <1>1, <1>2, Stored
<1>4. Becomes(c, "ok") /\ UNCHANGED <<dash, list, loading, failed, answer, clicks>>
  BY DEF CallServed, bounds
<1> QED BY <1>3, <1>4, BecomesStep

LEMMA CallFailsStep ==
    ASSUME ServerInv, DashInv, NEW c \in calls, CallFails(c) \/ CallLost(c)
    PROVE  ServerInv' /\ DashInv'
<1>1. UNCHANGED server /\ Becomes(c, "failed")
      /\ UNCHANGED <<dash, list, loading, failed, answer, clicks>>
  BY DEF CallFails, CallLost, bounds
<1>2. ServerInv' /\ Grows
  BY <1>1, ServerKept
<1> QED BY <1>1, <1>2, BecomesStep

(* The list that the click kept is written back.                           *)
LEMMA CallEndsStep ==
    ASSUME ServerInv, DashInv, NEW c \in calls, CallEnds(c) PROVE ServerInv' /\ DashInv'
<1>1. /\ UNCHANGED <<server, dash, loading, failed, answer, clicks>> /\ calls' = calls \ {c}
      /\ \/ list' = list
         \/ c.mine /\ c.state = "ok" /\ list' = Patched(c, c.view)
  BY DEF CallEnds, Patches, bounds
<1>2. ServerInv' /\ Grows
  BY <1>1, ServerKept
<1>3. c \in CallOf
  BY DEF DashInv
<1>4. \A v : WasStored(v) => WasStored(v)'
  BY <1>2, StillStored
<1>5. c.mine /\ c.state = "ok" => WasStored(Patched(c, c.view))
  <2> SUFFICES ASSUME c.mine, c.state = "ok" PROVE WasStored(Patched(c, c.view))
    OBVIOUS
  <2> DEFINE v == c.view
  <2>1. WasStored(v) /\ v \in Lists /\ c.poll \in Polls /\ c.next \in States
        /\ c.next \in was[c.poll]
    BY <1>3 DEF DashInv, CallOf, WasStored
  <2> HIDE DEF v
  <2>2. [v EXCEPT ![c.poll] = c.next] \in Lists
    BY <2>1 DEF Lists, States
  <2>3. \A p \in Polls : [v EXCEPT ![c.poll] = c.next][p] \in was[p]
    BY <2>1 DEF Lists, WasStored
  <2>4. WasStored(Patched(c, v))
    BY <2>1, <2>2, <2>3 DEF Patched, WasStored
  <2> QED BY <2>4 DEF v
<1>6. c.mine => dash /\ ~loading /\ ~failed
  BY DEF DashInv
<1>7. WasStored(list)' \/ (list' = list /\ ~(dash /\ ~loading /\ ~failed))
  <2>1. CASE list' = list
    BY <1>4, <2>1 DEF DashInv, WasStored
  <2>2. CASE c.mine /\ c.state = "ok" /\ list' = Patched(c, c.view)
    <3>1. WasStored(Patched(c, c.view)) /\ list' = Patched(c, c.view) /\ was' = was
      BY <1>1, <1>5, <2>2 DEF server
    <3> HIDE DEF Patched
    <3> QED BY <3>1 DEF WasStored
  <2> QED BY <1>1, <2>1, <2>2
<1>8. list' \in Lists
  BY <1>7 DEF DashInv, WasStored
<1>9. \A b \in calls' : /\ b \in CallOf /\ b \in calls
                        /\ b.mine => WasStored(b.view)'
                        /\ b.state = "ok" => b.next \in was'[b.poll]
  BY <1>1, <1>4 DEF DashInv, server
<1> QED BY <1>1, <1>2, <1>4, <1>6, <1>7, <1>8, <1>9 DEF DashInv

-----------------------------------------------------------------------------
(* The two pages in one tab: each only sees that the other's polls grow    *)
(* older.                                                                  *)

TabInv == ServerInv /\ FormInv /\ DashInv

LEMMA DashGrows ==
    ASSUME ServerInv, DashInv, DashNext PROVE ServerInv' /\ DashInv' /\ Grows
<1>1. CASE OpenDash \/ LeaveDash \/ ListServed \/ ListShown \/ ListFails
  <2>1. UNCHANGED server
    BY <1>1 DEF OpenDash, LeaveDash, ListServed, ListShown, ListFails
  <2> QED BY <1>1, <2>1, ServerKept, OpenStep, LeaveStep, ListServedStep, ListEndsStep
<1>2. ASSUME NEW p \in Polls, Elsewhere(p) PROVE ServerInv' /\ DashInv' /\ Grows
  <2>1. PICK s \in States : Store(p, s)
    BY <1>2 DEF Elsewhere, UpdatePollStatus, DeletePoll, Insert, States, Statuses
  <2> QED BY <1>2, <2>1, Stored, ElsewhereStep
<1>3. ASSUME NEW p \in Polls, NEW kind \in {"toggle", "delete"}, Click(p, kind)
      PROVE  ServerInv' /\ DashInv' /\ Grows
  <2>1. UNCHANGED server
    BY <1>3 DEF Click
  <2> QED BY <1>3, <2>1, ServerKept, ClickStep
<1>4. ASSUME NEW c \in calls, CallServed(c) PROVE ServerInv' /\ DashInv' /\ Grows
  <2>1. c.poll \in Polls /\ c.next \in States /\ Store(c.poll, c.next)
    BY <1>4 DEF DashInv, CallOf, CallServed, UpdatePollStatus, DeletePoll
  <2> QED BY <1>4, <2>1, Stored, CallServedStep
<1>5. ASSUME NEW c \in calls, CallFails(c) \/ CallLost(c) \/ CallEnds(c)
      PROVE  ServerInv' /\ DashInv' /\ Grows
  <2>1. UNCHANGED server
    BY <1>5 DEF CallFails, CallLost, CallEnds
  <2> QED BY <1>5, <2>1, ServerKept, CallFailsStep, CallEndsStep
<1> QED BY <1>1, <1>2, <1>3, <1>4, <1>5 DEF DashNext

LEMMA TabStep == TabInv /\ [Next]_vars => TabInv'
<1> SUFFICES ASSUME TabInv, [Next]_vars PROVE TabInv'
  OBVIOUS
<1>1. CASE UNCHANGED vars
  <2>1. UNCHANGED <<server, form, busy, posts, made, lost>>
    BY <1>1 DEF vars, formVars
  <2>2. UNCHANGED <<dash, list, loading, failed, answer, calls, clicks>>
    BY <1>1 DEF vars, dashVars, bounds
  <2> QED BY <2>1, <2>2, ServerKept, FormRests, DashRests DEF TabInv
<1>2. CASE FormStep
  <2>1. ServerInv' /\ Grows /\ FormInv'
    BY <1>2, FormGrows DEF FormStep, TabInv
  <2>2. UNCHANGED <<dash, list, loading, failed, answer, calls, clicks>>
    BY <1>2 DEF FormStep, bounds
  <2> QED BY <2>1, <2>2, DashRests DEF TabInv
<1>3. CASE DashStep
  <2>1. ServerInv' /\ Grows /\ DashInv'
    BY <1>3, DashGrows DEF DashStep, TabInv
  <2>2. UNCHANGED <<form, busy, posts, made, lost>>
    BY <1>3 DEF DashStep, formVars
  <2> QED BY <2>1, <2>2, FormRests DEF TabInv
<1> QED BY <1>1, <1>2, <1>3 DEF Next

LEMMA TabAlways == Spec => []TabInv
<1>1. Init => TabInv
  BY ServerInit, FormStarts, DashStarts DEF Init, TabInv
<1> QED BY <1>1, TabStep, PTL DEF Spec

(* However replies are delayed or lost, and old lists written back, the    *)
(* dashboard shows no status that the poll did not have.                   *)
THEOREM NothingInvented == Spec => []ShownWasStored
<1>1. TabInv => ShownWasStored
  BY DEF TabInv, DashInv, WasStored, ShownWasStored
<1> QED BY <1>1, TabAlways, PTL

(* The same of the form when the dashboard deletes and reopens its polls.  *)
THEOREM OnePollInTab == Spec => []OnePollPerForm
<1>1. TabInv => OnePollPerForm
  BY OneEach DEF TabInv
<1> QED BY <1>1, TabAlways, PTL
-----------------------------------------------------------------------------
(* What the list of the dashboard lacks.                                   *)

Shown == dash /\ ~loading /\ ~failed

(* Of this mount at most one call is on its way for a poll, which is in    *)
(* the list; the list is as stored but for the polls of calls that were    *)
(* served and have not ended, and those are stored as the call wants them. *)
OnTheirWay ==
    /\ \A c, d \in calls : c.mine /\ d.mine /\ c.poll = d.poll => c = d
    /\ \A c \in calls : c.mine =>
        /\ list[c.poll] # "none"
        /\ c.state = "ok" => stored[c.poll] = c.next
    /\ \A p \in Polls :
        \/ list[p] = stored[p]
        \/ \E c \in calls : c.mine /\ c.state = "ok" /\ c.poll = p

Agreeing ==
    /\ disturbed \in BOOLEAN
    /\ answer # None => loading
    /\ \/ disturbed
       \/ (answer # None => answer = stored) /\ (Shown => OnTheirWay)

LEMMA AgreeingStarts == DashInit => Agreeing
BY DEF DashInit, Agreeing, Shown

LEMMA AgreeingRests ==
    ASSUME Agreeing, UNCHANGED <<stored, dash, list, loading, failed, answer, calls, disturbed>>
    PROVE  Agreeing'
BY DEF Agreeing, Shown, OnTheirWay

(* A change from elsewhere sets disturbed once the backend read the list.  *)
LEMMA DisturbedStep ==
    ASSUME DashInv, Agreeing, Disturbs, UNCHANGED <<dash, loading, failed, answer>>
    PROVE  Agreeing'
<1>1. answer # None => dash /\ loading
  BY DEF Agreeing, DashInv
<1>2. disturbed' = (disturbed \/ (dash /\ (~loading \/ answer # None)))
  BY DEF Disturbs
<1> QED BY <1>1, <1>2 DEF Agreeing, Shown

LEMMA PageStep ==
    ASSUME DashInv, Agreeing, OpenDash \/ LeaveDash \/ ListServed \/ ListShown \/ ListFails
    PROVE  Agreeing'
<1>1. CASE OpenDash
  <2>1. ~dash /\ dash' = TRUE /\ loading' = TRUE /\ UNCHANGED <<stored, answer, disturbed>>
    BY <1>1 DEF OpenDash, server
  <2> QED BY <2>1 DEF Agreeing, Shown
<1>2. CASE LeaveDash
  BY <1>2 DEF LeaveDash, Agreeing, Shown
<1>3. CASE ListServed
  <2>1. loading /\ answer' = stored /\ UNCHANGED <<stored, loading, disturbed>>
    BY <1>3 DEF ListServed, server
  <2> QED BY <2>1 DEF Agreeing, Shown
<1>4. CASE ListShown
  <2>1. /\ loading /\ answer # None /\ list' = answer /\ loading' = FALSE /\ answer' = None
        /\ UNCHANGED <<stored, calls, disturbed>>
    BY <1>4 DEF ListShown, server
  <2>2. \A c \in calls : ~c.mine
    BY <2>1 DEF DashInv
  <2> QED BY <2>1, <2>2 DEF Agreeing, Shown, OnTheirWay
<1>5. CASE ListFails
  BY <1>5 DEF ListFails, Agreeing, Shown
<1> QED BY <1>1, <1>2, <1>3, <1>4, <1>5

LEMMA ClickAgrees ==
    ASSUME DashInv, Agreeing, NEW p \in Polls, NEW kind, Click(p, kind) PROVE Agreeing'
<1> DEFINE c == [id |-> clicks', mine |-> TRUE, poll |-> p, view |-> list, state |-> "sent",
                 next |-> IF kind = "delete" THEN "none" ELSE Opposite(list[p])]
<1>1. /\ dash /\ ~loading /\ list # Empty /\ list[p] # "none" /\ calls' = calls \union {c}
      /\ disturbed' = (disturbed \/ \E b \in calls : b.mine /\ b.poll = p)
      /\ UNCHANGED <<stored, dash, list, loading, failed, answer>>
  BY DEF Click, View, server
<1>2. c.mine /\ c.poll = p /\ c.state = "sent"
  OBVIOUS
<1> HIDE DEF c
<1>3. CASE disturbed' 
  BY <1>1, <1>3 DEF Agreeing
<1>4. CASE ~disturbed'
  <2>1. ~disturbed /\ \A b \in calls : b.mine => b.poll # p
    BY <1>1, <1>4 DEF Agreeing
  <2>2. Shown => OnTheirWay'
    BY <1>1, <1>2, <2>1 DEF Agreeing, OnTheirWay
  <2> QED BY <1>1, <2>1, <2>2 DEF Agreeing, Shown
<1> QED BY <1>3, <1>4

(* c becomes d, of which at most the state is another.                     *)
LEMMA BecomesAgrees ==
    ASSUME DashInv, Agreeing, NEW c \in calls, NEW s \in {"ok", "failed"}, Becomes(c, s),
           UNCHANGED <<dash, list, loading, failed, answer>>,
           disturbed' = disturbed,
           \/ ~c.mine /\ UNCHANGED stored
           \/ c.mine /\ c.state = "sent" /\ s = "failed" /\ UNCHANGED stored
           \/ c.mine /\ s = "ok" /\ stored' = [stored EXCEPT ![c.poll] = c.next],
           ServerInv
    PROVE  Agreeing'
<1> DEFINE d == [c EXCEPT !.state = s]
<1>1. c \in CallOf
  BY DEF DashInv
<1>2. d.mine = c.mine /\ d.poll = c.poll /\ d.next = c.next /\ d.state = s
  BY <1>1 DEF CallOf
<1>3. calls' = (calls \ {c}) \union {d}
  BY DEF Becomes
<1> HIDE DEF d
<1>4. CASE ~disturbed /\ Shown
  <2>1. OnTheirWay /\ answer = None /\ c.poll \in Polls
    BY <1>1, <1>4 DEF Agreeing, Shown, CallOf
  <2>2. \A a, b \in calls' : a.mine /\ b.mine /\ a.poll = b.poll => a = b
    BY <1>2, <1>3, <2>1 DEF OnTheirWay
  <2>3. \A p \in Polls : p # c.poll => stored'[p] = stored[p]
    BY <2>1 DEF ServerInv
  <2>4. c.mine => \A b \in calls : b.mine /\ b # c => b.poll # c.poll
    BY <2>1 DEF OnTheirWay
  <2>5. c.mine /\ s = "ok" => stored'[c.poll] = c.next
    BY <2>1 DEF ServerInv
  <2>6. ASSUME NEW b \in calls', b.mine
        PROVE  list[b.poll] # "none" /\ (b.state = "ok" => stored'[b.poll] = b.next)
    <3>1. CASE b = d
      BY <1>2, <2>1, <2>5, <3>1, <2>6 DEF OnTheirWay
    <3>2. CASE b # d
      <4>1. b \in calls /\ b # c /\ b.poll \in Polls
        BY <1>3, <3>2 DEF DashInv, CallOf
      <4>2. stored'[b.poll] = stored[b.poll]
        BY <2>3, <2>4, <2>6, <4>1
      <4> QED BY <2>1, <2>6, <4>1, <4>2 DEF OnTheirWay
    <3> QED BY <3>1, <3>2
  <2>7. ASSUME NEW p \in Polls
        PROVE  \/ list[p] = stored'[p]
               \/ \E b \in calls' : b.mine /\ b.state = "ok" /\ b.poll = p
    <3>1. CASE c.mine /\ s = "ok" /\ p = c.poll
      BY <1>2, <1>3, <3>1
    <3>2. CASE ~(c.mine /\ s = "ok" /\ p = c.poll)
      <4>1. stored'[p] = stored[p]
        BY <2>3, <3>2
      <4>2. ASSUME NEW b \in calls, b.mine, b.state = "ok", b.poll = p, b = c
            PROVE  FALSE
        BY <4>2, <3>2
      <4>3. \A b \in calls : b.mine /\ b.state = "ok" /\ b.poll = p => b \in calls'
        BY <1>3, <4>2
      <4> QED BY <2>1, <4>1, <4>3 DEF OnTheirWay
    <3> QED BY <3>1, <3>2
  <2>8. OnTheirWay'
    BY <2>2, <2>6, <2>7 DEF OnTheirWay
  <2> QED BY <1>4, <2>1, <2>8 DEF Agreeing
<1>5. CASE disturbed
  BY <1>5 DEF Agreeing
<1>6. CASE ~disturbed /\ ~Shown
  <2>1. ~c.mine
    BY <1>6 DEF DashInv, Shown
  <2> QED BY <1>6, <2>1 DEF Agreeing, Shown
<1> QED BY <1>4, <1>5, <1>6 DEF Agreeing

LEMMA CallServedAgrees ==
    ASSUME ServerInv, DashInv, Agreeing, NEW c \in calls, CallServed(c) PROVE Agreeing'
<1>1. /\ Becomes(c, "ok") /\ stored' = [stored EXCEPT ![c.poll] = c.next]
      /\ UNCHANGED <<dash, list, loading, failed, answer>>
  BY DEF CallServed, UpdatePollStatus, DeletePoll, Store
<1>2. CASE c.mine
  BY <1>1, <1>2, BecomesAgrees DEF CallServed
<1>3. CASE ~c.mine
  BY <1>1, <1>3, DisturbedStep DEF CallServed
<1> QED BY <1>2, <1>3

LEMMA CallFailsAgrees ==
    ASSUME ServerInv, DashInv, Agreeing, NEW c \in calls, CallFails(c) \/ CallLost(c)
    PROVE  Agreeing'
<1>1. /\ Becomes(c, "failed") /\ UNCHANGED <<stored, dash, list, loading, failed, answer>>
      /\ \/ c.state = "sent" /\ disturbed' = disturbed
         \/ disturbed' = (disturbed \/ c.mine)
  BY DEF CallFails, CallLost, server
<1>2. c.mine \in BOOLEAN
  BY DEF DashInv, CallOf
<1>3. CASE disturbed' = disturbed /\ (~c.mine \/ c.state = "sent")
  BY <1>1, <1>2, <1>3, BecomesAgrees
<1>4. CASE c.mine /\ disturbed' = TRUE
  BY <1>1, <1>4 DEF Agreeing
<1> QED BY <1>1, <1>2, <1>3, <1>4 DEF Agreeing

(* The reply takes the poll of the call off those that differ.             *)
LEMMA CallEndsAgrees ==
    ASSUME ServerInv, DashInv, Agreeing, NEW c \in calls, CallEnds(c) PROVE Agreeing'
<1>1. /\ calls' = calls \ {c} /\ UNCHANGED <<stored, dash, loading, failed, answer>>
      /\ c.state # "sent"
  BY DEF CallEnds, server
<1>2. c.mine \in BOOLEAN /\ c.poll \in Polls
  BY DEF DashInv, CallOf
<1>3. CASE ~(c.mine /\ c.state = "ok")
  <2>1. UNCHANGED <<list, disturbed>>
    BY <1>3 DEF CallEnds, Patches
  <2>2. OnTheirWay => OnTheirWay'
    BY <1>1, <1>3, <2>1 DEF OnTheirWay
  <2> QED BY <1>1, <2>1, <2>2 DEF Agreeing, Shown
<1>4. CASE c.mine /\ c.state = "ok"
  <2>1. disturbed' = (disturbed \/ list' # Patched(c, list))
    BY <1>4 DEF CallEnds, Patches
  <2>2. CASE disturbed'
    BY <1>1, <2>1, <2>2 DEF Agreeing
  <2>3. CASE ~disturbed'
    <3>1. ~disturbed /\ list' = Patched(c, list) /\ Shown
      BY <1>4, <2>1, <2>3 DEF Agreeing, DashInv, Shown
    <3>2. OnTheirWay /\ list \in Lists
      BY <3>1 DEF Agreeing, DashInv
    <3>3. list[c.poll] # "none" /\ stored[c.poll] = c.next
      BY <1>4, <3>2 DEF OnTheirWay
    <3>4. \A p \in Polls : list'[p] = IF p = c.poll THEN c.next ELSE list[p]
      BY <3>1, <3>2, <3>3 DEF Patched, Lists
    <3>5. \A b \in calls' : b \in calls /\ b.poll \in Polls /\ (b.mine => b.poll # c.poll)
      BY <1>1, <1>4, <3>2 DEF OnTheirWay, DashInv, CallOf
    <3>6. \A b \in calls' : b.mine =>
            list'[b.poll] # "none" /\ (b.state = "ok" => stored[b.poll] = b.next)
      BY <3>2, <3>4, <3>5 DEF OnTheirWay
    <3>7. ASSUME NEW p \in Polls
          PROVE  \/ list'[p] = stored[p]
                 \/ \E b \in calls' : b.mine /\ b.state = "ok" /\ b.poll = p
      <4>1. CASE p = c.poll
        BY <3>3, <3>4, <4>1
      <4>2. CASE p # c.poll
        BY <1>1, <3>2, <3>4, <4>2 DEF OnTheirWay
      <4> QED BY <4>1, <4>2
    <3>8. OnTheirWay'
      BY <1>1, <3>2, <3>5, <3>6, <3>7 DEF OnTheirWay
    <3> QED BY <1>1, <2>1, <3>1, <3>8 DEF Agreeing
  <2> QED BY <2>1, <2>2, <2>3
<1> QED BY <1>3, <1>4

LEMMA AgreeingStep == TabInv /\ Agreeing /\ [Next]_vars => Agreeing'
<1> SUFFICES ASSUME TabInv, Agreeing, [Next]_vars PROVE Agreeing'
  OBVIOUS
<1> USE DEF TabInv
<1>1. CASE UNCHANGED vars
  BY <1>1, AgreeingRests DEF vars, server, dashVars
<1>2. CASE FormStep
  <2>1. UNCHANGED <<dash, list, loading, failed, answer, calls>>
    BY <1>2 DEF FormStep
  <2>2. UNCHANGED <<stored, disturbed>> \/ Disturbs
    BY <1>2 DEF FormStep
  <2> QED BY <2>1, <2>2, AgreeingRests, DisturbedStep
<1>3. CASE OpenDash \/ LeaveDash \/ ListServed \/ ListShown \/ ListFails
  BY <1>3, PageStep
<1>4. ASSUME NEW p \in Polls, Elsewhere(p) PROVE Agreeing'
  BY <1>4, DisturbedStep DEF Elsewhere
<1>5. ASSUME NEW p \in Polls, NEW kind \in {"toggle", "delete"}, Click(p, kind)
      PROVE  Agreeing'
  BY <1>5, ClickAgrees
<1>6. ASSUME NEW c \in calls, CallServed(c) \/ CallFails(c) \/ CallLost(c) \/ CallEnds(c)
      PROVE  Agreeing'
  BY <1>6, CallServedAgrees, CallFailsAgrees, CallEndsAgrees
<1> QED BY <1>1, <1>2, <1>3, <1>4, <1>5, <1>6 DEF Next, DashStep, DashNext

(* With all clicks answered the list is as stored, unless one of the       *)
(* disturbances in the text of the property happened.                      *)
THEOREM NoOtherWayToBeWrong == Spec => []AgreesUnlessDisturbed
<1>1. Init => Agreeing
  BY AgreeingStarts DEF Init
<1>2. TabInv /\ Agreeing => AgreesUnlessDisturbed
  <2> SUFFICES ASSUME TabInv, Agreeing, Shown, \A c \in calls : ~c.mine, ~disturbed
               PROVE  list = stored
    BY DEF AgreesUnlessDisturbed, Shown
  <2>1. \A p \in Polls : list[p] = stored[p]
    BY DEF Agreeing, OnTheirWay
  <2>2. list \in [Polls -> States] /\ stored \in [Polls -> States]
    BY DEF TabInv, DashInv, ServerInv, Lists, States
  <2> QED BY <2>1, <2>2
<1> QED BY <1>1, <1>2, TabAlways, AgreeingStep, PTL DEF Spec

-----------------------------------------------------------------------------
(* The types of the tab.                                                   *)

Bounded ==
    /\ clicks \in 0..MaxClicks /\ elsewhere \in 0..MaxElsewhere
    /\ \A c \in calls : c.id \in 1..MaxClicks

LEMMA BoundedStep == TabInv /\ Bounded /\ [Next]_vars => Bounded'
<1> SUFFICES ASSUME TabInv, Bounded, [Next]_vars PROVE Bounded'
  OBVIOUS
<1>0. MaxClicks \in Nat /\ MaxElsewhere \in Nat /\ calls \subseteq CallOf
  BY ClicksAssumption DEF TabInv, DashInv
<1>1. CASE UNCHANGED vars \/ FormStep
  BY <1>1 DEF vars, dashVars, FormStep, bounds, Bounded
<1>2. CASE OpenDash \/ ListServed \/ ListShown \/ ListFails
  BY <1>2 DEF OpenDash, ListServed, ListShown, ListFails, bounds, Bounded
<1>3. CASE LeaveDash
  <2>1. UNCHANGED bounds
        /\ calls' = {[c EXCEPT !.mine = FALSE, !.view = Empty] : c \in calls}
    BY <1>3 DEF LeaveDash
  <2>2. ASSUME NEW b \in CallOf
        PROVE  [b EXCEPT !.mine = FALSE, !.view = Empty].id = b.id
    BY DEF CallOf
  <2>3. \A c \in calls' : \E b \in calls : c.id = b.id
    BY <1>0, <2>1, <2>2
  <2> QED BY <2>1, <2>3 DEF Bounded, bounds
<1>4. ASSUME NEW p \in Polls, Elsewhere(p) PROVE Bounded'
  BY <1>0, <1>4 DEF Elsewhere, Bounded
<1>5. ASSUME NEW p \in Polls, NEW kind \in {"toggle", "delete"}, Click(p, kind)
      PROVE  Bounded'
  <2> DEFINE c == [id |-> clicks', mine |-> TRUE, poll |-> p, view |-> list, state |-> "sent",
                   next |-> IF kind = "delete" THEN "none" ELSE Opposite(list[p])]
  <2>1. /\ clicks < MaxClicks /\ clicks' = clicks + 1 /\ elsewhere' = elsewhere
        /\ calls' = calls \union {c}
    BY <1>5 DEF Click
  <2>2. c.id = clicks'
    OBVIOUS
  <2> HIDE DEF c
  <2> QED BY <1>0, <2>1, <2>2 DEF Bounded
<1>6. ASSUME NEW c \in calls, NEW s \in {"ok", "failed"}, Becomes(c, s), UNCHANGED bounds
      PROVE  Bounded'
  <2> DEFINE d == [c EXCEPT !.state = s]
  <2>1. calls' = (calls \ {c}) \union {d} /\ d.id = c.id
    BY <1>0, <1>6 DEF Becomes, CallOf
  <2> HIDE DEF d
  <2> QED BY <1>6, <2>1 DEF Bounded, bounds
<1>7. ASSUME NEW c \in calls, CallServed(c) \/ CallFails(c) \/ CallLost(c) PROVE Bounded'
  <2>1. UNCHANGED bounds /\ (Becomes(c, "ok") \/ Becomes(c, "failed"))
    BY <1>7 DEF CallServed, CallFails, CallLost
  <2> QED BY <1>6, <2>1
<1>8. ASSUME NEW c \in calls, CallEnds(c) PROVE Bounded'
  BY <1>8 DEF CallEnds, bounds, Bounded
<1> QED BY <1>1, <1>2, <1>3, <1>4, <1>5, <1>7, <1>8 DEF Next, DashStep, DashNext

(* The dashboard stays within its types whatever the form, other tabs and  *)
(* late replies do.                                                        *)
THEOREM DashTyping == Spec => []DashTypeOK
<1>1. Init => Bounded /\ Agreeing
  BY AgreeingStarts, ClicksAssumption DEF Init, DashInit, Bounded
<1>2. TabInv /\ Bounded /\ Agreeing => DashTypeOK
  <2> SUFFICES ASSUME TabInv, Bounded, Agreeing PROVE DashTypeOK
    OBVIOUS
  <2>1. calls \subseteq Call
    BY DEF TabInv, DashInv, Bounded, CallOf, Call, States
  <2>2. answer \in Lists \union {None}
    BY DEF TabInv, DashInv, WasStored
  <2>3. /\ dash \in BOOLEAN /\ list \in Lists /\ loading \in BOOLEAN /\ failed \in BOOLEAN
        /\ stored \in Lists /\ was \in [Polls -> SUBSET (Statuses \union {"none"})]
    BY DEF TabInv, DashInv, ServerInv, Lists, States
  <2>4. /\ clicks \in 0..MaxClicks /\ elsewhere \in 0..MaxElsewhere /\ disturbed \in BOOLEAN
    BY DEF Bounded, Agreeing
  <2> QED BY <2>1, <2>2, <2>3, <2>4 DEF DashTypeOK
<1> QED BY <1>1, <1>2, TabAlways, AgreeingStep, BoundedStep, PTL DEF Spec

(* The form of a tab stays within its types.                               *)
LEMMA TabFormTyped == Spec => []FormTyped
<1>1. Init => FormTyped
  BY FormTypedStarts DEF Init
<1>2. FormTyped /\ [Next]_vars => FormTyped'
  <2>1. FormTyped /\ UNCHANGED formVars => FormTyped'
    BY FormTypedRests
  <2> QED BY <2>1, FormTypedStep DEF Next, FormStep, DashStep, vars
<1> QED BY <1>1, <1>2, PTL DEF Spec

(* What a form in the tab sends is acceptable too, and it stays typed when *)
(* the dashboard deletes the polls that it made.                           *)
THEOREM FormInTab == Spec => [](FormTypeOK /\ SentIsAcceptable)
<1>1. FormTyped => FormTypeOK /\ SentIsAcceptable
  BY DEF FormTyped, SentIsAcceptable
<1> QED BY <1>1, TabFormTyped, PTL
=============================================================================
