-------------------------- MODULE PollVotingProofs --------------------------
(***************************************************************************)
(* Proofs about PollVoting, for any numbers of handlers, voters and        *)
(* options, any operations and any faults.                                 *)
(***************************************************************************)
EXTENDS PollVoting, FiniteSetTheorems, TLAPS

(* Where a handler works for a voter.  TypeOK alone is not inductive: that *)
(* only voters are thanked needs that these handlers know one.             *)
VoterLabels == {"vote_load", "vote_close", "vote_check", "vote_record",
                "vote_count", "vote_incr", "vote_fetch", "vote_init",
                "vote_publish", "results_load", "results_close",
                "results_fetch", "results_init", "results_voted"}

HasVoter == \A h \in Handlers : local[h].pc \in VoterLabels => local[h].who \in Voters

LocalsOK == local \in [Handlers -> MemType] /\ HasVoter

TypeInv == StoresOK /\ LocalsOK

-----------------------------------------------------------------------------
(* A handler that goes on with well-typed values has well-typed values.    *)
LEMMA GotoType ==
    ASSUME LocalsOK, NEW h \in Handlers, NEW label \in Labels, NEW call,
           NEW mem \in MemType, label \in VoterLabels => mem.who \in Voters,
           Goto(h, label, call, mem)
    PROVE  LocalsOK'
<1> DEFINE m == [mem EXCEPT !.pc = label,
                            !.client = IF call = "cut" THEN "left" ELSE @]
<1>1. m \in MemType /\ m.pc = label /\ m.who = mem.who
  BY DEF MemType
<1>2. local' = [local EXCEPT ![h] = m]
  BY DEF Goto
<1> HIDE DEF m
<1> QED BY <1>1, <1>2 DEF LocalsOK, HasVoter

(* The values of a free slot are well-typed.                               *)
LEMMA IdleType == Idle \in MemType /\ Idle.pc = "idle"
<1>1. 1 \in Options /\ 1 \in 1..(NumOptions + 1)
  BY OptionsAssumption DEF Options
<1>2. Zero \in Counts
  BY DEF Zero, Counts
<1>3. "idle" \in Labels /\ "active" \in Statuses
  BY DEF Labels, Statuses
<1> QED BY <1>1, <1>2, <1>3 DEF Idle, MemType

LEMMA ReplyType ==
    ASSUME LocalsOK, NEW h \in Handlers, Reply(h)
    PROVE  LocalsOK'
BY IdleType DEF Reply, LocalsOK, HasVoter, VoterLabels

(* A request starts with well-typed values.                                *)
LEMMA BeginType ==
    ASSUME TypeInv, NEW h \in Handlers, NEW op, NEW label \in Labels,
           NEW mem \in MemType, label \in VoterLabels => mem.who \in Voters,
           Begin(h, op, label, mem)
    PROVE  TypeInv'
<1>1. LocalsOK'
  BY GotoType DEF Begin, TypeInv
<1>2. StoresOK'
  BY DEF Begin, TypeInv, StoresOK, mongoVars, hashVars, uiVars
<1> QED BY <1>1, <1>2 DEF TypeInv

LEMMA RequestType ==
    ASSUME TypeInv, NEW h \in Handlers, Request(h)
    PROVE  TypeInv'
<1> USE IdleType
<1>1. CASE BeginCreate(h)
  <2>1. LocalsOK'
    BY <1>1, GotoType DEF BeginCreate, TypeInv, Labels, VoterLabels
  <2>2. StoresOK'
    BY <1>1 DEF BeginCreate, TypeInv, StoresOK, mongoVars, hashVars, uiVars
  <2> QED BY <2>1, <2>2 DEF TypeInv
<1>2. CASE BeginVote(h)
  <2>1. PICK v \in Voters, o \in Options :
          Begin(h, "vote", "vote_load", [Idle EXCEPT !.who = v, !.opt = o])
    BY <1>2 DEF BeginVote
  <2>2. [Idle EXCEPT !.who = v, !.opt = o] \in MemType
        /\ [Idle EXCEPT !.who = v, !.opt = o].who \in Voters
    BY DEF MemType
  <2>3. "vote_load" \in Labels
    BY DEF Labels
  <2> QED BY <2>1, <2>2, <2>3, BeginType
<1>3. CASE BeginResults(h)
  <2>1. PICK v \in Voters :
          Begin(h, "results", "results_load", [Idle EXCEPT !.who = v])
    BY <1>3 DEF BeginResults
  <2>2. [Idle EXCEPT !.who = v] \in MemType /\ [Idle EXCEPT !.who = v].who \in Voters
    BY DEF MemType
  <2>3. "results_load" \in Labels
    BY DEF Labels
  <2> QED BY <2>1, <2>2, <2>3, BeginType
<1>4. CASE BeginShare(h)
  BY <1>4, BeginType DEF BeginShare, Labels, VoterLabels
<1>5. CASE BeginList(h)
  BY <1>5, BeginType DEF BeginList, Labels, VoterLabels
<1>6. CASE BeginStatus(h)
  <2>1. PICK s \in Statuses :
          Begin(h, "status", "status_update", [Idle EXCEPT !.status = s])
    BY <1>6 DEF BeginStatus
  <2>2. [Idle EXCEPT !.status = s] \in MemType
    BY DEF MemType
  <2>3. "status_update" \in Labels /\ "status_update" \notin VoterLabels
    BY DEF Labels, VoterLabels
  <2> QED BY <2>1, <2>2, <2>3, BeginType
<1>7. CASE BeginDelete(h)
  <2>1. Begin(h, "delete", "delete_doc", Idle)
    BY <1>7 DEF BeginDelete
  <2>2. "delete_doc" \in Labels /\ "delete_doc" \notin VoterLabels
    BY DEF Labels, VoterLabels
  <2> QED BY <2>1, <2>2, BeginType
<1> QED BY <1>1, <1>2, <1>3, <1>4, <1>5, <1>6, <1>7 DEF Request

-----------------------------------------------------------------------------
(* Facts about the values of one handler, cited below for each action.     *)
LEMMA MemFacts ==
    ASSUME TypeInv, NEW h \in Handlers
    PROVE  /\ local[h] \in MemType
           /\ \A l \in VoterLabels : At(h, l) => local[h].who \in Voters
           /\ local[h].opt \in Options /\ local[h].status \in Statuses
           /\ local[h].counts \in Counts /\ local[h].snap \in Counts
           /\ \A c \in Counts : [local[h] EXCEPT !.counts = c] \in MemType
                             /\ [local[h] EXCEPT !.counts = c].who = local[h].who
           /\ \A c \in Counts : [local[h] EXCEPT !.snap = c] \in MemType
                             /\ [local[h] EXCEPT !.snap = c].who = local[h].who
           /\ Zero \in Counts
<1>1. local[h] \in MemType
  BY DEF TypeInv, LocalsOK
<1>2. Zero \in Counts
  BY DEF Zero, Counts
<1>3. \A l \in VoterLabels : At(h, l) => local[h].who \in Voters
  BY DEF TypeInv, LocalsOK, HasVoter, At
<1>4. /\ local[h].opt \in Options /\ local[h].status \in Statuses
      /\ local[h].counts \in Counts /\ local[h].snap \in Counts
  BY <1>1 DEF MemType
<1>5. \A c \in Counts : /\ [local[h] EXCEPT !.counts = c] \in MemType
                         /\ [local[h] EXCEPT !.counts = c].who = local[h].who
  BY <1>1 DEF MemType
<1>6. \A c \in Counts : /\ [local[h] EXCEPT !.snap = c] \in MemType
                         /\ [local[h] EXCEPT !.snap = c].who = local[h].who
  BY <1>1 DEF MemType
<1> QED BY <1>1, <1>2, <1>3, <1>4, <1>5, <1>6, Zenon

LEMMA StepType ==
    ASSUME TypeInv, NEW h \in Handlers, Step(h)
    PROVE  TypeInv'
<1> USE MemFacts, GotoType, ReplyType DEF At
<1>a. StoresOK /\ LocalsOK
  BY DEF TypeInv
<1>1. CASE CreateInsert(h)
  <2>1. LocalsOK'
    BY <1>1, <1>a DEF CreateInsert, Labels, VoterLabels, StoresOK, Gate, Incremented
  <2>2. StoresOK'
    BY <1>1, <1>a DEF CreateInsert, StoresOK, mongoVars, hashVars, uiVars, Thank, Publish, HIncrBy, Ballots, Counts, Statuses
  <2> QED BY <2>1, <2>2 DEF TypeInv
<1>2. CASE CreateReply(h)
  <2>1. LocalsOK'
    BY <1>2, <1>a DEF CreateReply, Labels, VoterLabels, StoresOK, Gate, Incremented
  <2>2. StoresOK'
    BY <1>2, <1>a DEF CreateReply, StoresOK, mongoVars, hashVars, uiVars, Thank, Publish, HIncrBy, Ballots, Counts, Statuses
  <2> QED BY <2>1, <2>2 DEF TypeInv
<1>3. CASE VoteLoad(h)
  <2> DEFINE mem == [local[h] EXCEPT !.status = status, !.snap = docVotes]
  <2>a. mem \in MemType /\ mem.who = local[h].who
    BY <1>a DEF MemType, StoresOK
  <2>b. local[h].who \in Voters
    BY <1>3 DEF VoteLoad, VoterLabels
  <2>c. Gate \in Labels
    BY DEF Gate, Labels
  <2>d. \/ Reply(h)
        \/ \E call : Goto(h, Gate, call, mem)
    BY <1>3 DEF VoteLoad
  <2> HIDE DEF mem
  <2>1. LocalsOK'
    BY <1>a, <2>a, <2>b, <2>c, <2>d
  <2>2. StoresOK'
    BY <1>3, <1>a DEF VoteLoad, StoresOK, mongoVars, hashVars, uiVars, Thank, Publish, HIncrBy, Ballots, Counts, Statuses
  <2> QED BY <2>1, <2>2 DEF TypeInv
<1>4. CASE VoteCheck(h)
  <2>1. LocalsOK'
    BY <1>4, <1>a DEF VoteCheck, Labels, VoterLabels, StoresOK, Gate, Incremented
  <2>2. StoresOK'
    BY <1>4, <1>a DEF VoteCheck, VoterLabels, StoresOK, mongoVars, hashVars, uiVars, Thank, Publish, HIncrBy, Ballots, Counts, Statuses
  <2> QED BY <2>1, <2>2 DEF TypeInv
<1>5. CASE VoteRecord(h)
  <2>1. LocalsOK'
    BY <1>5, <1>a DEF VoteRecord, Labels, VoterLabels, StoresOK, Gate, Incremented
  <2>2. StoresOK'
    BY <1>5, <1>a DEF VoteRecord, VoterLabels, StoresOK, mongoVars, hashVars, uiVars, Thank, Publish, HIncrBy, Ballots, Counts, Statuses
  <2> QED BY <2>1, <2>2 DEF TypeInv
<1>6. CASE VoteCount(h)
  <2>1. LocalsOK'
    BY <1>6, <1>a DEF VoteCount, Labels, VoterLabels, StoresOK, Gate, Incremented
  <2>2. StoresOK'
    BY <1>6, <1>a DEF VoteCount, StoresOK, mongoVars, hashVars, uiVars, Thank, Publish, HIncrBy, Ballots, Counts, Statuses
  <2> QED BY <2>1, <2>2 DEF TypeInv
<1>7. CASE VoteIncr(h)
  <2>1. LocalsOK'
    BY <1>7, <1>a DEF VoteIncr, Labels, VoterLabels, StoresOK, Gate, Incremented
  <2>2. StoresOK'
    BY <1>7, <1>a DEF VoteIncr, StoresOK, mongoVars, hashVars, uiVars, Thank, Publish, HIncrBy, Ballots, Counts, Statuses
  <2> QED BY <2>1, <2>2 DEF TypeInv
<1>8. CASE VoteFetch(h)
  <2>1. LocalsOK'
    BY <1>8, <1>a DEF VoteFetch, Labels, VoterLabels, StoresOK, Gate, Incremented
  <2>2. StoresOK'
    BY <1>8, <1>a DEF VoteFetch, StoresOK, mongoVars, hashVars, uiVars, Thank, Publish, HIncrBy, Ballots, Counts, Statuses
  <2> QED BY <2>1, <2>2 DEF TypeInv
<1>9. CASE VotePublish(h)
  <2>1. LocalsOK'
    BY <1>9, <1>a DEF VotePublish, Labels, VoterLabels, StoresOK, Gate, Incremented
  <2>2. StoresOK'
    BY <1>9, <1>a DEF VotePublish, VoterLabels, StoresOK, mongoVars, hashVars, uiVars, Thank, Publish, HIncrBy, Ballots, Counts, Statuses
  <2> QED BY <2>1, <2>2 DEF TypeInv
<1>10. CASE ResultsLoad(h)
  <2>1. LocalsOK'
    BY <1>10, <1>a DEF ResultsLoad, Labels, VoterLabels, StoresOK, Gate, Incremented
  <2>2. StoresOK'
    BY <1>10, <1>a DEF ResultsLoad, StoresOK, mongoVars, hashVars, uiVars, Thank, Publish, HIncrBy, Ballots, Counts, Statuses
  <2> QED BY <2>1, <2>2 DEF TypeInv
<1>11. CASE ResultsFetch(h)
  <2>1. LocalsOK'
    BY <1>11, <1>a DEF ResultsFetch, Labels, VoterLabels, StoresOK, Gate, Incremented
  <2>2. StoresOK'
    BY <1>11, <1>a DEF ResultsFetch, StoresOK, mongoVars, hashVars, uiVars, Thank, Publish, HIncrBy, Ballots, Counts, Statuses
  <2> QED BY <2>1, <2>2 DEF TypeInv
<1>12. CASE ResultsVoted(h)
  <2>1. LocalsOK'
    BY <1>12, <1>a DEF ResultsVoted, Labels, VoterLabels, StoresOK, Gate, Incremented
  <2>2. StoresOK'
    BY <1>12, <1>a DEF ResultsVoted, VoterLabels, StoresOK, mongoVars, hashVars, uiVars, Thank, Publish, HIncrBy, Ballots, Counts, Statuses
  <2> QED BY <2>1, <2>2 DEF TypeInv
<1>13. CASE ShareLoad(h)
  <2>1. LocalsOK'
    BY <1>13, <1>a DEF ShareLoad, Labels, VoterLabels, StoresOK, Gate, Incremented
  <2>2. StoresOK'
    BY <1>13, <1>a DEF ShareLoad, StoresOK, mongoVars, hashVars, uiVars, Thank, Publish, HIncrBy, Ballots, Counts, Statuses
  <2> QED BY <2>1, <2>2 DEF TypeInv
<1>14. CASE AutoClose(h)
  <2>1. LocalsOK'
    BY <1>14, <1>a DEF AutoClose, Labels, VoterLabels, StoresOK, Gate, Incremented
  <2>2. StoresOK'
    BY <1>14, <1>a DEF AutoClose, UpdatePollStatus, StoresOK, mongoVars, hashVars, uiVars, Thank, Publish, HIncrBy, Ballots, Counts, Statuses
  <2> QED BY <2>1, <2>2 DEF TypeInv
<1>15. CASE ListLoad(h)
  <2>1. LocalsOK'
    BY <1>15, <1>a DEF ListLoad, Labels, VoterLabels, StoresOK, Gate, Incremented
  <2>2. StoresOK'
    BY <1>15, <1>a DEF ListLoad, StoresOK, mongoVars, hashVars, uiVars, Thank, Publish, HIncrBy, Ballots, Counts, Statuses
  <2> QED BY <2>1, <2>2 DEF TypeInv
<1>16. CASE ListFetch(h)
  <2>a. PICK call \in RedisCall(h) :
          Goto(h, "list_reply", call, [local[h] EXCEPT !.counts = [o \in Options |->
              IF call = "ok" /\ o \in fields THEN tally[o] ELSE local[h].snap[o]]])
    BY <1>16 DEF ListFetch
  <2> DEFINE c == [o \in Options |->
              IF call = "ok" /\ o \in fields THEN tally[o] ELSE local[h].snap[o]]
  <2>b. c \in Counts
    BY <1>a DEF StoresOK, Counts
  <2> HIDE DEF c
  <2>c. "list_reply" \in Labels /\ "list_reply" \notin VoterLabels
    BY DEF Labels, VoterLabels
  <2>1. LocalsOK'
    BY <1>a, <2>a, <2>b, <2>c DEF c
  <2>2. StoresOK'
    BY <1>16, <1>a DEF ListFetch, StoresOK, mongoVars, hashVars, uiVars, Thank, Publish, HIncrBy, Ballots, Counts, Statuses
  <2> QED BY <2>1, <2>2 DEF TypeInv
<1>17. CASE ListReply(h)
  <2>1. LocalsOK'
    BY <1>17, <1>a DEF ListReply, Labels, VoterLabels, StoresOK, Gate, Incremented
  <2>2. StoresOK'
    BY <1>17, <1>a DEF ListReply, StoresOK, mongoVars, hashVars, uiVars, Thank, Publish, HIncrBy, Ballots, Counts, Statuses
  <2> QED BY <2>1, <2>2 DEF TypeInv
<1>18. CASE StatusUpdate(h)
  <2>1. LocalsOK'
    BY <1>18, <1>a DEF StatusUpdate, Labels, VoterLabels, StoresOK, Gate, Incremented
  <2>2. StoresOK'
    BY <1>18, <1>a DEF StatusUpdate, UpdatePollStatus, StoresOK, mongoVars, hashVars, uiVars, Thank, Publish, HIncrBy, Ballots, Counts, Statuses
  <2> QED BY <2>1, <2>2 DEF TypeInv
<1>19. CASE StatusLoad(h)
  <2>1. LocalsOK'
    BY <1>19, <1>a DEF StatusLoad, Labels, VoterLabels, StoresOK, Gate, Incremented
  <2>2. StoresOK'
    BY <1>19, <1>a DEF StatusLoad, StoresOK, mongoVars, hashVars, uiVars, Thank, Publish, HIncrBy, Ballots, Counts, Statuses
  <2> QED BY <2>1, <2>2 DEF TypeInv
<1>20. CASE StatusFetch(h)
  <2>1. LocalsOK'
    BY <1>20, <1>a DEF StatusFetch, Labels, VoterLabels, StoresOK, Gate, Incremented
  <2>2. StoresOK'
    BY <1>20, <1>a DEF StatusFetch, StoresOK, mongoVars, hashVars, uiVars, Thank, Publish, HIncrBy, Ballots, Counts, Statuses
  <2> QED BY <2>1, <2>2 DEF TypeInv
<1>21. CASE StatusPublish(h)
  <2>1. LocalsOK'
    BY <1>21, <1>a DEF StatusPublish, Labels, VoterLabels, StoresOK, Gate, Incremented
  <2>2. StoresOK'
    BY <1>21, <1>a DEF StatusPublish, StoresOK, mongoVars, hashVars, uiVars, Thank, Publish, HIncrBy, Ballots, Counts, Statuses
  <2> QED BY <2>1, <2>2 DEF TypeInv
<1>22. CASE DeleteDoc(h)
  <2>1. LocalsOK'
    BY <1>22, <1>a DEF DeleteDoc, Labels, VoterLabels, StoresOK, Gate, Incremented
  <2>2. StoresOK'
    BY <1>22, <1>a DEF DeleteDoc, StoresOK, mongoVars, hashVars, uiVars, Thank, Publish, HIncrBy, Ballots, Counts, Statuses
  <2> QED BY <2>1, <2>2 DEF TypeInv
<1>23. CASE DeleteVotes(h)
  <2>1. LocalsOK'
    BY <1>23, <1>a DEF DeleteVotes, Labels, VoterLabels, StoresOK, Gate, Incremented
  <2>2. StoresOK'
    BY <1>23, <1>a DEF DeleteVotes, StoresOK, mongoVars, hashVars, uiVars, Thank, Publish, HIncrBy, Ballots, Counts, Statuses
  <2> QED BY <2>1, <2>2 DEF TypeInv
<1>24. CASE InitPollVotes(h)
  <2> DEFINE mem == local[h]
             last == mem.idx > NumOptions
  <2>a. PICK call \in InitCall(h) :
          /\ CASE call = "failed" -> UNCHANGED hashVars
               [] call # "failed" /\ ~last -> HSetNX(mem.idx, mem.snap[mem.idx])
               [] call # "failed" /\ last ->
                      /\ ttl' = IF fields = {} THEN ttl ELSE "set"
                      /\ UNCHANGED <<fields, tally>>
          /\ IF call # "ok" \/ last
               THEN Goto(h, AfterInit[mem.pc], call, [mem EXCEPT !.attempt = 2])
               ELSE Goto(h, mem.pc, call, [mem EXCEPT !.idx = @ + 1])
    BY <1>24 DEF InitPollVotes
  <2>b. /\ mem.pc \in {"create_init", "vote_init", "results_init"}
        /\ UNCHANGED <<mongoVars, event, uiVars>>
    BY <1>24 DEF InitPollVotes, AfterInit
  <2>c. /\ AfterInit[mem.pc] \in {"create_reply", "vote_incr", "results_fetch"}
        /\ AfterInit[mem.pc] \in VoterLabels => mem.pc \in VoterLabels
    BY <2>b DEF AfterInit, VoterLabels
  <2>d. AfterInit[mem.pc] \in Labels /\ mem.pc \in Labels
    BY <2>b, <2>c DEF Labels
  <2>e. mem.pc \in VoterLabels => mem.who \in Voters
    BY <1>a DEF LocalsOK, HasVoter
  <2>f. /\ [mem EXCEPT !.attempt = 2] \in MemType
        /\ [mem EXCEPT !.attempt = 2].who = mem.who
    BY DEF MemType
  <2>g. mem.idx \in 1..(NumOptions + 1)
    BY DEF MemType
  <2>h. ~last => mem.idx \in Options /\ mem.idx + 1 \in 1..(NumOptions + 1)
    BY <2>g, OptionsAssumption DEF Options
  <2>i. ~last => /\ [mem EXCEPT !.idx = @ + 1] \in MemType
                 /\ [mem EXCEPT !.idx = @ + 1].who = mem.who
    BY <2>h DEF MemType
  <2>1. LocalsOK'
    <3>1. CASE call # "ok" \/ last
      BY <3>1, <1>a, <2>a, <2>c, <2>d, <2>e, <2>f
    <3>2. CASE ~(call # "ok" \/ last)
      BY <3>2, <1>a, <2>a, <2>d, <2>e, <2>i
    <3> QED BY <3>1, <3>2
  <2>2. StoresOK'
    <3>1. CASE call = "failed"
      BY <3>1, <1>a, <2>a, <2>b DEF StoresOK, mongoVars, hashVars, uiVars
    <3>2. CASE call # "failed" /\ ~last
      <4>1. HSetNX(mem.idx, mem.snap[mem.idx])
        BY <3>2, <2>a
      <4>2. mem.snap[mem.idx] \in Nat
        BY <3>2, <2>h DEF Counts
      <4> QED BY <3>2, <4>1, <4>2, <1>a, <2>b, <2>h
              DEF HSetNX, StoresOK, Counts, mongoVars, uiVars
    <3>3. CASE call # "failed" /\ last
      BY <3>3, <1>a, <2>a, <2>b DEF StoresOK, mongoVars, uiVars
    <3> QED BY <3>1, <3>2, <3>3
  <2> QED BY <2>1, <2>2 DEF TypeInv
<1> QED BY <1>1, <1>2, <1>3, <1>4, <1>5, <1>6, <1>7, <1>8, <1>9, <1>10, <1>11, <1>12, <1>13, <1>14, <1>15, <1>16, <1>17, <1>18, <1>19, <1>20, <1>21, <1>22, <1>23, <1>24 DEF Step
-----------------------------------------------------------------------------
LEMMA InitType == Init => TypeInv
<1> SUFFICES ASSUME Init PROVE TypeInv
  OBVIOUS
<1>1. Zero \in Counts /\ "active" \in Statuses
  BY DEF Zero, Counts, Statuses
<1>2. LocalsOK
  BY IdleType DEF Init, LocalsOK, HasVoter, VoterLabels
<1>3. StoresOK
  BY <1>1 DEF Init, StoresOK, NoEvent
<1> QED BY <1>2, <1>3 DEF TypeInv

LEMMA NextType == TypeInv /\ [Next]_vars => TypeInv'
<1> SUFFICES ASSUME TypeInv, [Next]_vars PROVE TypeInv'
  OBVIOUS
<1>a. StoresOK /\ LocalsOK
  BY DEF TypeInv
<1>1. ASSUME NEW h \in Handlers, Request(h) PROVE TypeInv'
  BY <1>1, RequestType
<1>2. ASSUME NEW h \in Handlers, Step(h) PROVE TypeInv'
  BY <1>2, StepType
<1>3. ASSUME NEW h \in Handlers, Disconnect(h) PROVE TypeInv'
  <2>1. [local[h] EXCEPT !.client = "left"] \in MemType
        /\ [local[h] EXCEPT !.client = "left"].pc = local[h].pc
        /\ [local[h] EXCEPT !.client = "left"].who = local[h].who
    BY <1>a DEF LocalsOK, MemType
  <2>2. local' = [local EXCEPT ![h] = [local[h] EXCEPT !.client = "left"]]
    BY <1>3, <1>a DEF Disconnect, LocalsOK, MemType
  <2>3. LocalsOK'
    BY <2>1, <2>2, <1>a DEF LocalsOK, HasVoter
  <2>4. StoresOK'
    BY <1>3, <1>a DEF Disconnect, StoresOK, mongoVars, hashVars, uiVars
  <2> QED BY <2>3, <2>4 DEF TypeInv
<1>4. CASE Expire
  BY <1>4, <1>a DEF Expire, TypeInv, StoresOK, LocalsOK, HasVoter, hashVars, uiVars
<1>5. CASE EnsureIndexes
  BY <1>5, <1>a DEF EnsureIndexes, TypeInv, StoresOK, LocalsOK, HasVoter, hashVars, uiVars
<1>6. CASE TTLElapses
  <2>1. Zero \in Counts
    BY DEF Zero, Counts
  <2> QED BY <2>1, <1>6, <1>a
          DEF TTLElapses, TypeInv, StoresOK, LocalsOK, HasVoter, mongoVars, uiVars
<1>7. CASE Restart
  <2>1. Zero \in Counts
    BY DEF Zero, Counts
  <2>2. LocalsOK'
    BY <1>7, IdleType DEF Restart, LocalsOK, HasVoter, VoterLabels
  <2>3. StoresOK'
    BY <2>1, <1>7, <1>a DEF Restart, StoresOK, hashVars, uiVars
  <2> QED BY <2>2, <2>3 DEF TypeInv
<1>8. CASE UNCHANGED vars
  BY <1>8, <1>a DEF vars, mongoVars, hashVars, uiVars, TypeInv, StoresOK, LocalsOK, HasVoter
<1> QED BY <1>1, <1>2, <1>3, <1>4, <1>5, <1>6, <1>7, <1>8 DEF Next

(* Type correctness, for every instance: the votes collection only ever    *)
(* holds votes of known voters for options of the poll, no count of        *)
(* either store is negative, and no handler computes outside its types.    *)
THEOREM TypeCorrect == Spec => []TypeOK
<1>1. TypeInv => TypeOK
  BY DEF TypeInv, TypeOK, LocalsOK
<1> QED BY <1>1, InitType, NextType, PTL DEF Spec

-----------------------------------------------------------------------------
(* What each step does to the votes collection and its index.              *)
LEMMA StepKeepsVotes ==
    ASSUME NEW h \in Handlers, Step(h)
    PROVE  UNCHANGED <<votes, serial, index>> \/ VoteRecord(h) \/ DeleteVotes(h)
BY DEF Step, mongoVars, CreateInsert, CreateReply, InitPollVotes, VoteLoad,
       VoteCheck, VoteCount, VoteIncr, VoteFetch, VotePublish, ResultsLoad,
       ResultsFetch, ResultsVoted, ShareLoad, AutoClose, ListLoad, ListFetch,
       ListReply, StatusUpdate, StatusLoad, StatusFetch, StatusPublish, DeleteDoc

LEMMA RequestKeepsVotes ==
    ASSUME NEW h \in Handlers, Request(h)
    PROVE  UNCHANGED mongoVars
BY DEF Request, Begin, BeginCreate, BeginVote, BeginResults, BeginShare,
       BeginList, BeginStatus, BeginDelete

(* With the index built before the first request, a voter never has two    *)
(* votes: HasVoted alone, read before RecordVote, would not be enough.     *)
UniqueInv == index = "built" /\ OneVotePerVoter

THEOREM OneVoteEach ==
    ASSUME "late_index" \notin Env
    PROVE  Spec => []OneVotePerVoter
<1>1. Init => UniqueInv
  BY DEF Init, UniqueInv, OneVotePerVoter
<1>2. UniqueInv /\ [Next]_vars => UniqueInv'
  <2> SUFFICES ASSUME UniqueInv, [Next]_vars PROVE UniqueInv'
    OBVIOUS
  <2>1. CASE UNCHANGED <<votes, index>>
    BY <2>1 DEF UniqueInv, OneVotePerVoter
  <2>2. ASSUME NEW h \in Handlers, VoteRecord(h) PROVE UniqueInv'
    <3> DEFINE r == [voter |-> local[h].who, opt |-> local[h].opt,
                     serial |-> serial[local[h].who]]
    <3>1. index' = "built"
      BY <2>2 DEF VoteRecord, UniqueInv
    <3>2. \/ votes' = votes
          \/ votes' = votes \union {r} /\ \A s \in votes : s.voter # r.voter
      BY <2>2 DEF VoteRecord, UniqueInv, Refused, HasVoted
    <3> HIDE DEF r
    <3> QED BY <3>1, <3>2 DEF UniqueInv, OneVotePerVoter
  <2>3. ASSUME NEW h \in Handlers, DeleteVotes(h) PROVE UniqueInv'
    BY <2>3 DEF DeleteVotes, UniqueInv, OneVotePerVoter
  <2>4. CASE Restart
    BY <2>4 DEF Restart, UniqueInv, OneVotePerVoter
  <2>5. ~EnsureIndexes
    BY DEF EnsureIndexes, UniqueInv
  <2>6. Expire \/ TTLElapses \/ (\E h \in Handlers : Disconnect(h))
            => UNCHANGED <<votes, index>>
    BY DEF Expire, TTLElapses, Disconnect, mongoVars
  <2>7. ASSUME NEW h \in Handlers, Request(h) PROVE UNCHANGED <<votes, index>>
    BY <2>7, RequestKeepsVotes DEF mongoVars
  <2>8. ASSUME NEW h \in Handlers, Step(h) PROVE UniqueInv'
    BY <2>8, <2>1, <2>2, <2>3, StepKeepsVotes
  <2>9. UNCHANGED vars => UNCHANGED <<votes, index>>
    BY DEF vars, mongoVars
  <2> QED BY <2>1, <2>4, <2>5, <2>6, <2>7, <2>8, <2>9 DEF Next
<1>3. UniqueInv => OneVotePerVoter
  BY DEF UniqueInv
<1> QED BY <1>1, <1>2, <1>3, PTL DEF Spec

-----------------------------------------------------------------------------
(* The count of the document against the votes collection, for any faults. *)
(* The inductive invariant adds that the votes are finitely many and that  *)
(* their documents have ids of their own (so that inserting one makes one  *)
(* more), and that nobody votes, and nothing is deleted, before the        *)
(* document is there.                                                      *)
VotesOK ==
    /\ IsFiniteSet(votes)
    /\ \A r \in votes : r.serial < serial[r.voter]

CreateOK ==
    /\ \A h \in Handlers : At(h, "create_insert") =>
          poll = "none" /\ \A g \in Handlers : At(g, "create_insert") => g = h
    /\ poll = "none" =>
          /\ votes = {} /\ docVotes = Zero
          /\ \A h \in Handlers : local[h].pc \in {"idle", "create_insert"}
    /\ \A h \in Handlers : At(h, "delete_votes") => poll = "deleted"

MongoInv == TypeInv /\ VotesOK /\ CreateOK /\ MongoNeverOverstates

(* A set of votes or handlers that a step leaves finite and no larger.     *)
LEMMA ForFinite ==
    ASSUME VotesOK, NEW o
    PROVE  IsFiniteSet(For(o)) /\ Cardinality(For(o)) \in Nat
<1>1. For(o) \subseteq votes
  BY DEF For
<1> QED BY <1>1, FS_Subset, FS_CardinalityType DEF VotesOK

LEMMA UncountedFinite ==
    ASSUME NEW o
    PROVE  IsFiniteSet(Uncounted(o)) /\ Cardinality(Uncounted(o)) \in Nat
<1>1. Uncounted(o) \subseteq Handlers
  BY DEF Uncounted
<1> QED BY <1>1, FS_Subset, FS_CardinalityType, HandlersAssumption

(* What a step does to the labels of the handlers: h goes to one label.    *)
LEMMA GotoLabel ==
    ASSUME TypeInv, NEW h \in Handlers, NEW label \in Labels, NEW call, NEW mem \in MemType,
           Goto(h, label, call, mem)
    PROVE  /\ local'[h].pc = label /\ local'[h].opt = mem.opt
           /\ \A g \in Handlers \ {h} : local'[g] = local[g]
<1> DEFINE m == [mem EXCEPT !.pc = label,
                            !.client = IF call = "cut" THEN "left" ELSE @]
<1>1. m.pc = label /\ m.opt = mem.opt
  BY DEF MemType
<1>2. local' = [local EXCEPT ![h] = m]
  BY DEF Goto
<1> HIDE DEF m
<1> QED BY <1>1, <1>2 DEF TypeInv, LocalsOK

LEMMA ReplyLabel ==
    ASSUME TypeInv, NEW h \in Handlers, Reply(h)
    PROVE  /\ local'[h].pc = "idle"
           /\ \A g \in Handlers \ {h} : local'[g] = local[g]
BY IdleType DEF Reply, TypeInv, LocalsOK

(* A step that leaves the votes and the document alone, and brings no      *)
(* handler to UpdateOptionVoteCount, keeps the inequality.                 *)
LEMMA NoNewVote ==
    ASSUME MongoInv, UNCHANGED <<votes, docVotes>>, TypeInv',
           poll' = "live" => poll = "live",
           \A h \in Handlers : local'[h].pc = "vote_count" =>
               local[h].pc = "vote_count" /\ local'[h].opt = local[h].opt
    PROVE  MongoNeverOverstates'
<1> SUFFICES ASSUME poll' = "live", NEW o \in Options
             PROVE  (docVotes[o] + Cardinality(Uncounted(o)) <= Cardinality(For(o)))'
  BY DEF MongoNeverOverstates
<1>1. Uncounted(o)' \subseteq Uncounted(o)
  BY DEF Uncounted, At
<1>2. Cardinality(Uncounted(o)') <= Cardinality(Uncounted(o))
      /\ Cardinality(Uncounted(o)') \in Nat
  BY <1>1, UncountedFinite, FS_Subset, FS_CardinalityType
<1>3. docVotes[o] + Cardinality(Uncounted(o)) <= Cardinality(For(o))
  BY DEF MongoInv, MongoNeverOverstates
<1>4. For(o)' = For(o) /\ docVotes'[o] = docVotes[o] /\ docVotes[o] \in Nat
  BY DEF For, MongoInv, TypeInv, StoresOK, Counts
<1>5. Cardinality(For(o)) \in Nat /\ Cardinality(Uncounted(o)) \in Nat
  BY ForFinite, UncountedFinite DEF MongoInv
<1> QED BY <1>2, <1>3, <1>4, <1>5

(* The steps that neither vote, nor create or delete: they leave the       *)
(* documents alone and take their handler to one of the other labels.      *)
Special(h) == \/ CreateInsert(h) \/ VoteRecord(h) \/ VoteCount(h)
              \/ DeleteDoc(h) \/ DeleteVotes(h)

PlainLabels == Labels \ {"create_insert", "vote_count", "delete_votes"}

Moves(h) == /\ local'[h].pc \in PlainLabels
            /\ \A g \in Handlers \ {h} : local'[g] = local[g]

LEMMA PlainStep ==
    ASSUME TypeInv, NEW h \in Handlers, Step(h), ~Special(h)
    PROVE  /\ UNCHANGED <<poll, votes, serial, docVotes>>
           /\ local[h].pc \notin {"idle", "create_insert"}
           /\ Moves(h)
<1> USE MemFacts, ReplyLabel DEF At
<1>a. StoresOK /\ "idle" \in PlainLabels
  BY DEF TypeInv, PlainLabels, Labels
<1>b. ASSUME NEW label \in PlainLabels, NEW call, NEW mem \in MemType,
             Goto(h, label, call, mem)
      PROVE  Moves(h)
  BY <1>b, GotoLabel DEF Moves, PlainLabels
<1>c. Reply(h) => Moves(h)
  BY <1>a DEF Moves
<1>1. CASE CreateReply(h)
  <2>1. UNCHANGED <<poll, votes, serial, docVotes>>
        /\ local[h].pc \notin {"idle", "create_insert"}
    BY <1>1 DEF CreateReply, mongoVars
  <2>2. Moves(h)
    BY <1>1, <1>a, <1>b, <1>c DEF CreateReply, StoresOK, PlainLabels, Labels, Gate, Incremented
  <2> QED BY <2>1, <2>2
<1>2. CASE VoteLoad(h)
  <2>1. UNCHANGED <<poll, votes, serial, docVotes>>
        /\ local[h].pc \notin {"idle", "create_insert"}
    BY <1>2 DEF VoteLoad, mongoVars
  <2> DEFINE mem == [local[h] EXCEPT !.status = status, !.snap = docVotes]
  <2>a. mem \in MemType
    BY <1>a DEF MemType, StoresOK
  <2>b. Gate \in PlainLabels
    BY DEF Gate, PlainLabels, Labels
  <2>c. Reply(h) \/ \E call : Goto(h, Gate, call, mem)
    BY <1>2 DEF VoteLoad
  <2> HIDE DEF mem
  <2>2. Moves(h)
    BY <1>b, <1>c, <2>a, <2>b, <2>c
  <2> QED BY <2>1, <2>2
<1>3. CASE VoteCheck(h)
  <2>1. UNCHANGED <<poll, votes, serial, docVotes>>
        /\ local[h].pc \notin {"idle", "create_insert"}
    BY <1>3 DEF VoteCheck, mongoVars
  <2>2. Moves(h)
    BY <1>3, <1>a, <1>b, <1>c DEF VoteCheck, StoresOK, PlainLabels, Labels, Gate, Incremented
  <2> QED BY <2>1, <2>2
<1>4. CASE VoteIncr(h)
  <2>1. UNCHANGED <<poll, votes, serial, docVotes>>
        /\ local[h].pc \notin {"idle", "create_insert"}
    BY <1>4 DEF VoteIncr, mongoVars
  <2>2. Moves(h)
    BY <1>4, <1>a, <1>b, <1>c DEF VoteIncr, StoresOK, PlainLabels, Labels, Gate, Incremented
  <2> QED BY <2>1, <2>2
<1>5. CASE VoteFetch(h)
  <2>1. UNCHANGED <<poll, votes, serial, docVotes>>
        /\ local[h].pc \notin {"idle", "create_insert"}
    BY <1>5 DEF VoteFetch, mongoVars
  <2>2. Moves(h)
    BY <1>5, <1>a, <1>b, <1>c DEF VoteFetch, StoresOK, PlainLabels, Labels, Gate, Incremented
  <2> QED BY <2>1, <2>2
<1>6. CASE VotePublish(h)
  <2>1. UNCHANGED <<poll, votes, serial, docVotes>>
        /\ local[h].pc \notin {"idle", "create_insert"}
    BY <1>6 DEF VotePublish, mongoVars
  <2>2. Moves(h)
    BY <1>6, <1>a, <1>b, <1>c DEF VotePublish, StoresOK, PlainLabels, Labels, Gate, Incremented
  <2> QED BY <2>1, <2>2
<1>7. CASE ResultsLoad(h)
  <2>1. UNCHANGED <<poll, votes, serial, docVotes>>
        /\ local[h].pc \notin {"idle", "create_insert"}
    BY <1>7 DEF ResultsLoad, mongoVars
  <2>2. Moves(h)
    BY <1>7, <1>a, <1>b, <1>c DEF ResultsLoad, StoresOK, PlainLabels, Labels, Gate, Incremented
  <2> QED BY <2>1, <2>2
<1>8. CASE ResultsFetch(h)
  <2>1. UNCHANGED <<poll, votes, serial, docVotes>>
        /\ local[h].pc \notin {"idle", "create_insert"}
    BY <1>8 DEF ResultsFetch, mongoVars
  <2>2. Moves(h)
    BY <1>8, <1>a, <1>b, <1>c DEF ResultsFetch, StoresOK, PlainLabels, Labels, Gate, Incremented
  <2> QED BY <2>1, <2>2
<1>9. CASE ResultsVoted(h)
  <2>1. UNCHANGED <<poll, votes, serial, docVotes>>
        /\ local[h].pc \notin {"idle", "create_insert"}
    BY <1>9 DEF ResultsVoted, mongoVars
  <2>2. Moves(h)
    BY <1>9, <1>a, <1>b, <1>c DEF ResultsVoted, StoresOK, PlainLabels, Labels, Gate, Incremented
  <2> QED BY <2>1, <2>2
<1>10. CASE ShareLoad(h)
  <2>1. UNCHANGED <<poll, votes, serial, docVotes>>
        /\ local[h].pc \notin {"idle", "create_insert"}
    BY <1>10 DEF ShareLoad, mongoVars
  <2>2. Moves(h)
    BY <1>10, <1>a, <1>b, <1>c DEF ShareLoad, StoresOK, PlainLabels, Labels, Gate, Incremented
  <2> QED BY <2>1, <2>2
<1>11. CASE AutoClose(h)
  <2>1. UNCHANGED <<poll, votes, serial, docVotes>>
        /\ local[h].pc \notin {"idle", "create_insert"}
    BY <1>11 DEF AutoClose, UpdatePollStatus, mongoVars
  <2>2. Moves(h)
    BY <1>11, <1>a, <1>b, <1>c DEF AutoClose, StoresOK, PlainLabels, Labels, Gate, Incremented
  <2> QED BY <2>1, <2>2
<1>12. CASE ListLoad(h)
  <2>1. UNCHANGED <<poll, votes, serial, docVotes>>
        /\ local[h].pc \notin {"idle", "create_insert"}
    BY <1>12 DEF ListLoad, mongoVars
  <2>2. Moves(h)
    BY <1>12, <1>a, <1>b, <1>c DEF ListLoad, StoresOK, PlainLabels, Labels, Gate, Incremented
  <2> QED BY <2>1, <2>2
<1>13. CASE ListFetch(h)
  <2>1. UNCHANGED <<poll, votes, serial, docVotes>>
        /\ local[h].pc \notin {"idle", "create_insert"}
    BY <1>13 DEF ListFetch, mongoVars
  <2>a. PICK call \in RedisCall(h) :
          Goto(h, "list_reply", call, [local[h] EXCEPT !.counts = [o \in Options |->
              IF call = "ok" /\ o \in fields THEN tally[o] ELSE local[h].snap[o]]])
    BY <1>13 DEF ListFetch
  <2> DEFINE c == [o \in Options |->
              IF call = "ok" /\ o \in fields THEN tally[o] ELSE local[h].snap[o]]
  <2>b. c \in Counts
    BY <1>a DEF StoresOK, Counts
  <2> HIDE DEF c
  <2>c. "list_reply" \in PlainLabels
    BY DEF PlainLabels, Labels
  <2>2. Moves(h)
    BY <1>b, <2>a, <2>b, <2>c DEF c
  <2> QED BY <2>1, <2>2
<1>14. CASE ListReply(h)
  <2>1. UNCHANGED <<poll, votes, serial, docVotes>>
        /\ local[h].pc \notin {"idle", "create_insert"}
    BY <1>14 DEF ListReply, mongoVars
  <2>2. Moves(h)
    BY <1>14, <1>a, <1>b, <1>c DEF ListReply, StoresOK, PlainLabels, Labels, Gate, Incremented
  <2> QED BY <2>1, <2>2
<1>15. CASE StatusUpdate(h)
  <2>1. UNCHANGED <<poll, votes, serial, docVotes>>
        /\ local[h].pc \notin {"idle", "create_insert"}
    BY <1>15 DEF StatusUpdate, UpdatePollStatus, mongoVars
  <2>2. Moves(h)
    BY <1>15, <1>a, <1>b, <1>c DEF StatusUpdate, StoresOK, PlainLabels, Labels, Gate, Incremented
  <2> QED BY <2>1, <2>2
<1>16. CASE StatusLoad(h)
  <2>1. UNCHANGED <<poll, votes, serial, docVotes>>
        /\ local[h].pc \notin {"idle", "create_insert"}
    BY <1>16 DEF StatusLoad, mongoVars
  <2>2. Moves(h)
    BY <1>16, <1>a, <1>b, <1>c DEF StatusLoad, StoresOK, PlainLabels, Labels, Gate, Incremented
  <2> QED BY <2>1, <2>2
<1>17. CASE StatusFetch(h)
  <2>1. UNCHANGED <<poll, votes, serial, docVotes>>
        /\ local[h].pc \notin {"idle", "create_insert"}
    BY <1>17 DEF StatusFetch, mongoVars
  <2>2. Moves(h)
    BY <1>17, <1>a, <1>b, <1>c DEF StatusFetch, StoresOK, PlainLabels, Labels, Gate, Incremented
  <2> QED BY <2>1, <2>2
<1>18. CASE StatusPublish(h)
  <2>1. UNCHANGED <<poll, votes, serial, docVotes>>
        /\ local[h].pc \notin {"idle", "create_insert"}
    BY <1>18 DEF StatusPublish, mongoVars
  <2>2. Moves(h)
    BY <1>18, <1>a, <1>b, <1>c DEF StatusPublish, StoresOK, PlainLabels, Labels, Gate, Incremented
  <2> QED BY <2>1, <2>2
<1>19. CASE InitPollVotes(h)
  <2>1. UNCHANGED <<poll, votes, serial, docVotes>>
        /\ local[h].pc \notin {"idle", "create_insert"}
    BY <1>19 DEF InitPollVotes, mongoVars, AfterInit
  <2> DEFINE mem == local[h]
  <2>a. /\ mem.pc \in {"create_init", "vote_init", "results_init"}
        /\ AfterInit[mem.pc] \in {"create_reply", "vote_incr", "results_fetch"}
    BY <1>19 DEF InitPollVotes, AfterInit
  <2>b. AfterInit[mem.pc] \in PlainLabels /\ mem.pc \in PlainLabels
    BY <2>a DEF PlainLabels, Labels
  <2>c. PICK call \in InitCall(h) :
          \/ Goto(h, AfterInit[mem.pc], call, [mem EXCEPT !.attempt = 2])
          \/ /\ ~(mem.idx > NumOptions)
             /\ Goto(h, mem.pc, call, [mem EXCEPT !.idx = @ + 1])
    BY <1>19 DEF InitPollVotes
  <2>d. [mem EXCEPT !.attempt = 2] \in MemType
    BY DEF MemType
  <2>e. mem.idx \in 1..(NumOptions + 1)
    BY DEF MemType
  <2>f. ~(mem.idx > NumOptions) => mem.idx + 1 \in 1..(NumOptions + 1)
    BY <2>e, OptionsAssumption
  <2>g. ~(mem.idx > NumOptions) => [mem EXCEPT !.idx = @ + 1] \in MemType
    BY <2>f DEF MemType
  <2>2. Moves(h)
    BY <1>b, <2>b, <2>c, <2>d, <2>g
  <2> QED BY <2>1, <2>2
<1> QED BY <1>1, <1>2, <1>3, <1>4, <1>5, <1>6, <1>7, <1>8, <1>9, <1>10, <1>11, <1>12, <1>13, <1>14, <1>15, <1>16, <1>17, <1>18, <1>19 DEF Step, Special

-----------------------------------------------------------------------------
(* VoteRecord adds one document to For(o) and at most one handler to       *)
(* Uncounted(o), of the same option, and this only with the document.      *)
LEMMA RecordKeepsCount ==
    ASSUME MongoInv, TypeInv', NEW h \in Handlers, VoteRecord(h)
    PROVE  VotesOK' /\ MongoNeverOverstates'
<1> DEFINE v == local[h].who
           r == [voter |-> v, opt |-> local[h].opt, serial |-> serial[v]]
<1>a. /\ UNCHANGED <<poll, docVotes>>
      /\ At(h, "vote_record")
      /\ \/ UNCHANGED <<votes, serial>> /\ Reply(h)
         \/ /\ votes' = votes \union {r} /\ serial' = [serial EXCEPT ![v] = @ + 1]
            /\ Reply(h) \/ \E call : Goto(h, "vote_count", call, local[h])
  BY DEF VoteRecord, Recorded
<1>b. v \in Voters /\ local[h] \in MemType /\ local[h].opt \in Options
  BY <1>a, MemFacts DEF MongoInv, VoterLabels
<1>c. serial \in [Voters -> Nat] /\ votes \subseteq Ballots
  BY DEF MongoInv, TypeInv, StoresOK
<1>d. "vote_count" \in Labels
  BY DEF Labels
<1>1. CASE UNCHANGED <<votes, serial>> /\ Reply(h)
  <2>1. VotesOK'
    BY <1>1 DEF MongoInv, VotesOK
  <2>2. \A g \in Handlers : local'[g].pc = "vote_count" =>
            local[g].pc = "vote_count" /\ local'[g].opt = local[g].opt
    BY <1>1, ReplyLabel DEF MongoInv
  <2> QED BY <1>a, <1>1, <2>1, <2>2, NoNewVote
<1>2. CASE /\ votes' = votes \union {r} /\ serial' = [serial EXCEPT ![v] = @ + 1]
           /\ Reply(h) \/ \E call : Goto(h, "vote_count", call, local[h])
  <2>1. r \notin votes /\ r.voter = v /\ r.serial = serial[v] /\ r.opt = local[h].opt
    <3>1. serial[v] \in Nat
      BY <1>b, <1>c
    <3>2. \A s \in votes : s.serial < serial[s.voter]
      BY DEF MongoInv, VotesOK
    <3> QED BY <3>1, <3>2
  <2>2. VotesOK'
    <3>1. IsFiniteSet(votes')
      BY <1>2, FS_AddElement DEF MongoInv, VotesOK
    <3>2. \A s \in votes : s.voter \in Voters /\ s.serial \in Nat /\ s.serial < serial[s.voter]
      BY <1>c DEF MongoInv, VotesOK, Ballots
    <3>3. \A s \in votes' : s.serial < serial'[s.voter]
      BY <1>2, <1>b, <1>c, <2>1, <3>2
    <3> QED BY <3>1, <3>3 DEF VotesOK
  <2>3. \A g \in Handlers \ {h} : local'[g] = local[g]
    BY <1>2, <1>b, <1>d, ReplyLabel, GotoLabel DEF MongoInv
  <2>4. local'[h].pc = "vote_count" => local'[h].opt = local[h].opt
    BY <1>2, <1>b, <1>d, ReplyLabel, GotoLabel DEF MongoInv
  <2>5. ASSUME poll' = "live", NEW o \in Options
        PROVE  (docVotes[o] + Cardinality(Uncounted(o)) <= Cardinality(For(o)))'
    <3>1. docVotes[o] + Cardinality(Uncounted(o)) <= Cardinality(For(o))
      BY <2>5, <1>a DEF MongoInv, MongoNeverOverstates
    <3>2. docVotes'[o] = docVotes[o] /\ docVotes[o] \in Nat
      BY <1>a DEF MongoInv, TypeInv, StoresOK, Counts
    <3>3. Cardinality(For(o)) \in Nat /\ Cardinality(Uncounted(o)) \in Nat
          /\ IsFiniteSet(For(o)) /\ IsFiniteSet(Uncounted(o))
      BY ForFinite, UncountedFinite DEF MongoInv
    <3>4. CASE o = local[h].opt
      <4>1. For(o)' = For(o) \union {r} /\ r \notin For(o)
        BY <1>2, <2>1, <3>4 DEF For
      <4>2. Cardinality(For(o)') = Cardinality(For(o)) + 1
        BY <4>1, <3>3, FS_AddElement
      <4>3. Uncounted(o)' \subseteq Uncounted(o) \union {h}
        BY <2>3 DEF Uncounted, At
      <4>4. h \notin Uncounted(o)
        BY <1>a DEF Uncounted, At
      <4>5. /\ Cardinality(Uncounted(o) \union {h}) = Cardinality(Uncounted(o)) + 1
            /\ IsFiniteSet(Uncounted(o) \union {h})
        BY <4>4, <3>3, FS_AddElement
      <4>6. Cardinality(Uncounted(o)') <= Cardinality(Uncounted(o)) + 1
        BY <4>3, <4>5, FS_Subset
      <4>7. Cardinality(Uncounted(o)') \in Nat
        BY <4>3, <4>5, FS_Subset, FS_CardinalityType
      <4> QED BY <3>1, <3>2, <3>3, <4>2, <4>6, <4>7
    <3>5. CASE o # local[h].opt
      <4>1. For(o)' = For(o)
        BY <1>2, <2>1, <3>5 DEF For
      <4>2. Uncounted(o)' \subseteq Uncounted(o)
        BY <2>3, <2>4, <3>5 DEF Uncounted, At
      <4>3. Cardinality(Uncounted(o)') <= Cardinality(Uncounted(o))
            /\ Cardinality(Uncounted(o)') \in Nat
        BY <4>2, <3>3, FS_Subset, FS_CardinalityType
      <4> QED BY <3>1, <3>2, <3>3, <4>1, <4>3
    <3> QED BY <3>4, <3>5
  <2> QED BY <2>2, <2>5 DEF MongoNeverOverstates
<1> QED BY <1>a, <1>1, <1>2

(* UpdateOptionVoteCount takes its handler out of Uncounted(o), whether    *)
(* its $inc took effect or not.                                            *)
LEMMA CountKeepsCount ==
    ASSUME MongoInv, TypeInv', NEW h \in Handlers, VoteCount(h)
    PROVE  VotesOK' /\ MongoNeverOverstates'
<1>a. /\ UNCHANGED <<poll, votes, serial>> /\ At(h, "vote_count")
      /\ docVotes' \in {docVotes, [docVotes EXCEPT ![local[h].opt] = @ + 1]}
      /\ \E call : Goto(h, "vote_incr", call, local[h])
  BY DEF VoteCount
<1>b. local[h] \in MemType /\ local[h].opt \in Options /\ "vote_incr" \in Labels
  BY MemFacts DEF MongoInv, Labels
<1>c. /\ local'[h].pc = "vote_incr"
      /\ \A g \in Handlers \ {h} : local'[g] = local[g]
  BY <1>a, <1>b, GotoLabel DEF MongoInv
<1>d. VotesOK'
  BY <1>a DEF MongoInv, VotesOK
<1>1. ASSUME poll' = "live", NEW o \in Options
      PROVE  (docVotes[o] + Cardinality(Uncounted(o)) <= Cardinality(For(o)))'
  <2>1. docVotes[o] + Cardinality(Uncounted(o)) <= Cardinality(For(o))
    BY <1>1, <1>a DEF MongoInv, MongoNeverOverstates
  <2>2. docVotes \in [Options -> Nat]
    BY DEF MongoInv, TypeInv, StoresOK, Counts
  <2>3. Cardinality(For(o)) \in Nat /\ Cardinality(Uncounted(o)) \in Nat
        /\ IsFiniteSet(Uncounted(o))
    BY ForFinite, UncountedFinite DEF MongoInv
  <2>4. For(o)' = For(o)
    BY <1>a DEF For
  <2>5. CASE o = local[h].opt
    <3>1. Uncounted(o)' = Uncounted(o) \ {h} /\ h \in Uncounted(o)
      BY <1>a, <1>c, <2>5 DEF Uncounted, At
    <3>2. Cardinality(Uncounted(o)') = Cardinality(Uncounted(o)) - 1
      BY <3>1, <2>3, FS_RemoveElement
    <3>3. docVotes'[o] <= docVotes[o] + 1 /\ docVotes'[o] \in Nat
      BY <1>a, <2>2, <2>5
    <3> QED BY <2>1, <2>2, <2>3, <2>4, <3>2, <3>3
  <2>6. CASE o # local[h].opt
    <3>1. Uncounted(o)' = Uncounted(o)
      BY <1>c, <1>a, <2>6 DEF Uncounted, At
    <3>2. docVotes'[o] = docVotes[o]
      BY <1>a, <2>2, <2>6
    <3> QED BY <2>1, <2>4, <3>1, <3>2
  <2> QED BY <2>5, <2>6
<1> QED BY <1>d, <1>1 DEF MongoNeverOverstates

(* CreateOK is kept by every step of one handler.                          *)
LEMMA StepKeepsCreate ==
    ASSUME MongoInv, TypeInv', NEW h \in Handlers, Step(h)
    PROVE  CreateOK'
<1> USE MemFacts, ReplyLabel, GotoLabel DEF At
<1>a. TypeInv /\ CreateOK /\ local[h] \in MemType
  BY DEF MongoInv
<1>1. CASE ~Special(h)
  BY <1>1, <1>a, PlainStep DEF CreateOK, Moves, PlainLabels
<1>2. CASE CreateInsert(h)
  <2>1. /\ UNCHANGED <<votes, docVotes>> /\ local[h].pc = "create_insert"
        /\ poll' \in {poll, "live"}
        /\ Reply(h) \/ (poll' = "live" /\ \E call : Goto(h, "create_init", call, local[h]))
    BY <1>2 DEF CreateInsert, MongoCall, Faults
  <2>2. local'[h].pc \in {"idle", "create_init"} /\ (poll' = "none" => local'[h].pc = "idle")
        /\ \A g \in Handlers \ {h} : local'[g] = local[g]
    BY <2>1, <1>a DEF Labels
  <2>3. poll = "none" /\ \A g \in Handlers : local[g].pc = "create_insert" => g = h
    BY <2>1, <1>a DEF CreateOK
  <2>4. \A g \in Handlers : local'[g].pc # "create_insert" /\ local'[g].pc # "delete_votes"
    BY <2>2, <2>3, <1>a DEF CreateOK
  <2> QED BY <2>1, <2>2, <2>3, <2>4, <1>a DEF CreateOK
<1>3. CASE VoteRecord(h) \/ VoteCount(h)
  <2>1. /\ poll' = poll /\ local[h].pc \in {"vote_record", "vote_count"}
        /\ Reply(h) \/ \E call : Goto(h, "vote_count", call, local[h])
                    \/ Goto(h, "vote_incr", call, local[h])
    BY <1>3 DEF VoteRecord, VoteCount
  <2>2. local'[h].pc \in {"idle", "vote_count", "vote_incr"}
        /\ \A g \in Handlers \ {h} : local'[g] = local[g]
    BY <2>1, <1>a DEF Labels
  <2>3. poll # "none"
    BY <2>1, <1>a DEF CreateOK
  <2> QED BY <2>1, <2>2, <2>3, <1>a DEF CreateOK
<1>4. CASE DeleteDoc(h)
  <2>1. /\ poll' \in {poll, "deleted"} /\ local[h].pc = "delete_doc"
        /\ Reply(h) \/ (poll' = "deleted" /\ \E call : Goto(h, "delete_votes", call, local[h]))
    BY <1>4 DEF DeleteDoc
  <2>2. local'[h].pc \in {"idle", "delete_votes"}
        /\ (local'[h].pc = "delete_votes" => poll' = "deleted")
        /\ \A g \in Handlers \ {h} : local'[g] = local[g]
    BY <2>1, <1>a DEF Labels
  <2>3. poll # "none"
    BY <2>1, <1>a DEF CreateOK
  <2> QED BY <2>1, <2>2, <2>3, <1>a DEF CreateOK
<1>5. CASE DeleteVotes(h)
  <2>1. poll' = poll /\ local[h].pc = "delete_votes" /\ Reply(h)
    BY <1>5 DEF DeleteVotes
  <2>2. local'[h].pc = "idle" /\ \A g \in Handlers \ {h} : local'[g] = local[g]
    BY <2>1, <1>a
  <2> QED BY <2>1, <2>2, <1>a DEF CreateOK
<1> QED BY <1>1, <1>2, <1>3, <1>4, <1>5 DEF Special

(* The other steps of a handler: the document is inserted with no votes,   *)
(* or the poll is gone afterwards, or nothing that is counted changes.     *)
LEMMA StepKeepsCount ==
    ASSUME MongoInv, TypeInv', NEW h \in Handlers, Step(h)
    PROVE  VotesOK' /\ MongoNeverOverstates'
<1> USE MemFacts, ReplyLabel, GotoLabel DEF At
<1>a. TypeInv /\ CreateOK /\ VotesOK /\ local[h] \in MemType
  BY DEF MongoInv
<1>1. CASE ~Special(h)
  <2>1. UNCHANGED <<poll, votes, serial, docVotes>> /\ Moves(h)
    BY <1>1, <1>a, PlainStep
  <2>2. \A g \in Handlers : local'[g].pc = "vote_count" => local'[g] = local[g]
    BY <2>1 DEF Moves, PlainLabels
  <2>3. VotesOK'
    BY <2>1, <1>a DEF VotesOK
  <2> QED BY <2>1, <2>2, <2>3, NoNewVote
<1>2. CASE CreateInsert(h)
  <2>1. UNCHANGED <<votes, serial, docVotes>> /\ local[h].pc = "create_insert"
    BY <1>2 DEF CreateInsert
  <2>2. poll = "none" /\ votes = {} /\ docVotes = Zero
        /\ \A g \in Handlers : local[g].pc \in {"idle", "create_insert"}
    BY <2>1, <1>a DEF CreateOK
  <2>3. \A g \in Handlers : local'[g].pc # "vote_count"
    <3>1. Reply(h) \/ \E call : Goto(h, "create_init", call, local[h])
      BY <1>2 DEF CreateInsert
    <3>2. local'[h].pc \in {"idle", "create_init"}
          /\ \A g \in Handlers \ {h} : local'[g] = local[g]
      BY <3>1, <1>a DEF Labels
    <3> QED BY <3>2, <2>2
  <2>4. VotesOK'
    BY <2>1, <1>a DEF VotesOK
  <2>5. ASSUME NEW o \in Options
        PROVE  (docVotes[o] + Cardinality(Uncounted(o)) <= Cardinality(For(o)))'
    <3>1. Uncounted(o)' = {} /\ For(o)' = {} /\ docVotes'[o] = 0
      BY <2>1, <2>2, <2>3 DEF Uncounted, For, Zero
    <3> QED BY <3>1, FS_EmptySet
  <2> QED BY <2>4, <2>5 DEF MongoNeverOverstates
<1>3. CASE VoteRecord(h)
  BY <1>3, RecordKeepsCount
<1>4. CASE VoteCount(h)
  BY <1>4, CountKeepsCount
<1>5. CASE DeleteDoc(h)
  <2>1. /\ UNCHANGED <<votes, serial, docVotes>> /\ poll' \in {poll, "deleted"}
        /\ Reply(h) \/ \E call : Goto(h, "delete_votes", call, local[h])
    BY <1>5 DEF DeleteDoc
  <2>2. local'[h].pc \in {"idle", "delete_votes"}
        /\ \A g \in Handlers \ {h} : local'[g] = local[g]
    BY <2>1, <1>a DEF Labels
  <2>3. VotesOK'
    BY <2>1, <1>a DEF VotesOK
  <2> QED BY <2>1, <2>2, <2>3, NoNewVote
<1>6. CASE DeleteVotes(h)
  <2>1. poll' = "deleted" /\ serial' = serial /\ votes' \in {votes, {}}
    BY <1>6, <1>a DEF DeleteVotes, CreateOK
  <2>2. VotesOK'
    BY <2>1, <1>a, FS_EmptySet DEF VotesOK
  <2> QED BY <2>1, <2>2 DEF MongoNeverOverstates
<1> QED BY <1>1, <1>2, <1>3, <1>4, <1>5, <1>6 DEF Special

(* A request puts a free slot at its first label, and only CreatePoll is   *)
(* possible before there is a poll.                                        *)
Starts(h) == /\ poll # "none" /\ local'[h].pc \in PlainLabels
             /\ \A g \in Handlers \ {h} : local'[g] = local[g]

LEMMA RequestStarts ==
    ASSUME TypeInv, NEW h \in Handlers, Request(h)
    PROVE  \/ Starts(h)
           \/ /\ poll = "none" /\ local'[h].pc = "create_insert"
              /\ \A g \in Handlers : ~At(g, "create_insert")
              /\ \A g \in Handlers \ {h} : local'[g] = local[g]
<1> USE IdleType
<1>1. ASSUME NEW op, NEW label \in PlainLabels, NEW mem \in MemType,
             Begin(h, op, label, mem)
      PROVE  Starts(h)
  <2>1. poll # "none" /\ Goto(h, label, "ok", mem) /\ label \in Labels
    BY <1>1 DEF Begin, Reachable, PlainLabels
  <2> QED BY <2>1, GotoLabel DEF Starts
<1>a. {"vote_load", "results_load", "share_load", "list_load",
       "status_update", "delete_doc"} \subseteq PlainLabels
  BY DEF PlainLabels, Labels
<1>2. CASE BeginCreate(h)
  BY <1>2, GotoLabel DEF BeginCreate, Labels
<1>3. CASE BeginVote(h)
  <2>1. PICK v \in Voters, o \in Options :
          Begin(h, "vote", "vote_load", [Idle EXCEPT !.who = v, !.opt = o])
    BY <1>3 DEF BeginVote
  <2>2. [Idle EXCEPT !.who = v, !.opt = o] \in MemType
    BY DEF MemType
  <2> QED BY <2>1, <2>2, <1>1, <1>a
<1>4. CASE BeginResults(h)
  <2>1. PICK v \in Voters :
          Begin(h, "results", "results_load", [Idle EXCEPT !.who = v])
    BY <1>4 DEF BeginResults
  <2>2. [Idle EXCEPT !.who = v] \in MemType
    BY DEF MemType
  <2> QED BY <2>1, <2>2, <1>1, <1>a
<1>5. CASE BeginShare(h) \/ BeginList(h) \/ BeginDelete(h)
  <2>1. \E op \in OpKinds, label \in PlainLabels : Begin(h, op, label, Idle)
    BY <1>5, <1>a DEF BeginShare, BeginList, BeginDelete, OpKinds
  <2> QED BY <2>1, <1>1
<1>6. CASE BeginStatus(h)
  <2>1. PICK s \in Statuses :
          Begin(h, "status", "status_update", [Idle EXCEPT !.status = s])
    BY <1>6 DEF BeginStatus
  <2>2. [Idle EXCEPT !.status = s] \in MemType
    BY DEF MemType
  <2> QED BY <2>1, <2>2, <1>1, <1>a
<1> QED BY <1>2, <1>3, <1>4, <1>5, <1>6 DEF Request

LEMMA MongoNext == MongoInv /\ [Next]_vars => MongoInv'
<1> SUFFICES ASSUME MongoInv, [Next]_vars PROVE MongoInv'
  OBVIOUS
<1>a. TypeInv /\ VotesOK /\ CreateOK
  BY DEF MongoInv
<1>b. TypeInv'
  BY <1>a, NextType
<1> USE <1>a, <1>b
<1>1. ASSUME NEW h \in Handlers, Step(h) PROVE MongoInv'
  BY <1>1, StepKeepsCreate, StepKeepsCount DEF MongoInv
<1>2. ASSUME NEW h \in Handlers, Request(h) PROVE MongoInv'
  <2>1. UNCHANGED <<poll, votes, serial, docVotes>>
    BY <1>2, RequestKeepsVotes DEF mongoVars
  <2>2. VotesOK'
    BY <2>1 DEF VotesOK
  <2>3. CASE Starts(h)
    <3>1. CreateOK'
      BY <2>1, <2>3 DEF CreateOK, Starts, PlainLabels, At
    <3>2. \A g \in Handlers : local'[g].pc = "vote_count" => local'[g] = local[g]
      BY <2>3 DEF Starts, PlainLabels
    <3> QED BY <2>1, <2>2, <3>1, <3>2, NoNewVote DEF MongoInv
  <2>4. CASE /\ poll = "none" /\ local'[h].pc = "create_insert"
             /\ \A g \in Handlers : ~At(g, "create_insert")
             /\ \A g \in Handlers \ {h} : local'[g] = local[g]
    <3>1. CreateOK'
      BY <2>1, <2>4 DEF CreateOK, At
    <3>2. \A g \in Handlers : local'[g].pc = "vote_count" => local'[g] = local[g]
      BY <2>4
    <3> QED BY <2>1, <2>2, <3>1, <3>2, NoNewVote DEF MongoInv
  <2> QED BY <1>2, <2>3, <2>4, RequestStarts
<1>3. ASSUME UNCHANGED <<poll, votes, serial, docVotes>>,
             \A g \in Handlers : \/ local'[g].pc = "idle"
                                 \/ /\ local'[g].pc = local[g].pc
                                    /\ local'[g].opt = local[g].opt
      PROVE  MongoInv'
  <2>1. VotesOK'
    BY <1>3 DEF VotesOK
  <2>2. CreateOK'
    BY <1>3 DEF CreateOK, At
  <2> QED BY <1>3, <2>1, <2>2, NoNewVote DEF MongoInv
<1>4. ASSUME NEW h \in Handlers, Disconnect(h) PROVE MongoInv'
  <2>1. [local[h] EXCEPT !.client = "left"].pc = local[h].pc
        /\ [local[h] EXCEPT !.client = "left"].opt = local[h].opt
    BY DEF TypeInv, LocalsOK, MemType
  <2>2. local' = [local EXCEPT ![h] = [local[h] EXCEPT !.client = "left"]]
    BY <1>4 DEF Disconnect, TypeInv, LocalsOK, MemType
  <2>3. UNCHANGED <<poll, votes, serial, docVotes>>
    BY <1>4 DEF Disconnect, mongoVars
  <2> QED BY <2>1, <2>2, <2>3, <1>3 DEF TypeInv, LocalsOK
<1>5. CASE Restart
  BY <1>5, <1>3, IdleType DEF Restart
<1>6. CASE Expire \/ EnsureIndexes \/ TTLElapses \/ UNCHANGED vars
  <2>1. UNCHANGED <<poll, votes, serial, docVotes, local>>
    BY <1>6 DEF Expire, EnsureIndexes, TTLElapses, vars, mongoVars
  <2> QED BY <2>1, <1>3
<1> QED BY <1>1, <1>2, <1>4, <1>5, <1>6 DEF Next

LEMMA MongoInit == Init => MongoInv
<1> SUFFICES ASSUME Init PROVE MongoInv
  OBVIOUS
<1>1. VotesOK
  BY FS_EmptySet DEF Init, VotesOK
<1>2. \A h \in Handlers : local[h].pc = "idle"
  BY IdleType DEF Init
<1>3. CreateOK
  BY <1>2 DEF Init, CreateOK, At
<1>4. MongoNeverOverstates
  BY DEF Init, MongoNeverOverstates
<1> QED BY <1>1, <1>3, <1>4, InitType DEF MongoInv

(* For any faults and any number of concurrent votes, the count that the   *)
(* poll document keeps for an option, with the votes between RecordVote    *)
(* and UpdateOptionVoteCount added, is at most the number of its vote      *)
(* documents: no order of the two calls counts a vote that is not there.   *)
THEOREM DocumentNeverOverstates == Spec => []MongoNeverOverstates
<1>1. MongoInv => MongoNeverOverstates
  BY DEF MongoInv
<1> QED BY <1>1, MongoInit, MongoNext, PTL DEF Spec
=============================================================================
