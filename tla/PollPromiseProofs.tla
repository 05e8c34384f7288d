-------------------------- MODULE PollPromiseProofs --------------------------
(***************************************************************************)
(* What PollVoting promises to voters and viewers, and that it implements  *)
(* Ballot: proofs for any numbers of handlers, voters and options and any  *)
(* operations.  Each theorem names the faults it excludes.                 *)
(***************************************************************************)
EXTENDS PollVotingProofs

-----------------------------------------------------------------------------
(* How a handler gets from one store call to the next.                     *)
LEMMA GotoFacts ==
    ASSUME TypeInv, NEW h \in Handlers, NEW label \in Labels, NEW call, NEW mem \in MemType,
           Goto(h, label, call, mem)
    PROVE  /\ local'[h].pc = label /\ local'[h].who = mem.who /\ local'[h].opt = mem.opt
           /\ local'[h].status = mem.status
           /\ local'[h].snap = mem.snap /\ local'[h].counts = mem.counts
           /\ local'[h].idx = mem.idx /\ local'[h].attempt = mem.attempt
           /\ local'[h].client = IF call = "cut" THEN "left" ELSE mem.client
           /\ \A g \in Handlers \ {h} : local'[g] = local[g]
<1> DEFINE m == [mem EXCEPT !.pc = label,
                            !.client = IF call = "cut" THEN "left" ELSE @]
<1>1. /\ m.pc = label /\ m.who = mem.who /\ m.opt = mem.opt /\ m.status = mem.status
      /\ m.snap = mem.snap /\ m.counts = mem.counts
      /\ m.idx = mem.idx /\ m.attempt = mem.attempt
      /\ m.client = IF call = "cut" THEN "left" ELSE mem.client
  BY DEF MemType
<1>2. local' = [local EXCEPT ![h] = m]
  BY DEF Goto
<1> HIDE DEF m
<1> QED BY <1>1, <1>2 DEF TypeInv, LocalsOK

LEMMA ReplyFacts ==
    ASSUME TypeInv, NEW h \in Handlers, Reply(h)
    PROVE  local'[h] = Idle /\ \A g \in Handlers \ {h} : local'[g] = local[g]
BY DEF Reply, TypeInv, LocalsOK

(* The labels that a handler goes to from label a.                         *)
Leads(a, b) ==
    \/ a = "create_insert" /\ b = "create_init"
    \/ a = "vote_load"     /\ b \in {"vote_check", "vote_close"}
    \/ a = "vote_check"    /\ b = "vote_record"
    \/ a = "vote_record"   /\ b = "vote_count"
    \/ a = "vote_count"    /\ b = "vote_incr"
    \/ a = "vote_incr"     /\ b \in {"vote_fetch", "vote_publish", "vote_init"}
    \/ a = "vote_fetch"    /\ b \in {"vote_publish", "vote_init"}
    \/ a = "results_load"  /\ b \in {"results_close", "results_fetch"}
    \/ a = "results_close" /\ b = "results_fetch"
    \/ a = "results_fetch" /\ b \in {"results_init", "results_voted"}
    \/ a = "share_load"    /\ b = "share_close"
    \/ a = "list_load"     /\ b = "list_fetch"
    \/ a = "list_fetch"    /\ b = "list_reply"
    \/ a = "status_update" /\ b = "status_load"
    \/ a = "status_load"   /\ b = "status_fetch"
    \/ a = "status_fetch"  /\ b = "status_publish"
    \/ a = "delete_doc"    /\ b = "delete_votes"

(* A handler that goes on keeps its voter, option, position and attempt,   *)
(* and a client that has left does not come back.                          *)
Travels(h, mem, labels) ==
    /\ Left(h) => mem.client = "left"
    /\ mem.client = local[h].client \/ "cut" \in MongoCall(h)
    /\ mem.pc \in labels
    /\ mem.who = local[h].who /\ mem.opt = local[h].opt
    /\ mem.idx = local[h].idx /\ mem.attempt = local[h].attempt

Calls(h) == MongoCall(h) \union RedisCall(h)

LEMMA GotoTravels ==
    ASSUME TypeInv, NEW h \in Handlers, NEW label \in Labels, NEW call \in Calls(h),
             NEW mem \in MemType,
           Goto(h, label, call, mem),
           mem.who = local[h].who, mem.opt = local[h].opt, mem.client = local[h].client,
           mem.idx = local[h].idx, mem.attempt = local[h].attempt
    PROVE  Travels(h, local'[h], {label}) /\ \A g \in Handlers \ {h} : local'[g] = local[g]
<1>1. call = "cut" => "cut" \in MongoCall(h)
  BY DEF Calls, RedisCall, Faults
<1> QED BY <1>1, GotoFacts DEF Travels, Left

(* VoteFetch and ResultsFetch go on with the tally that they read.         *)
LEMMA GotoFetch ==
    ASSUME TypeInv, NEW h \in Handlers, NEW label \in Labels, NEW call, NEW c \in Counts,
           Goto(h, label, call, [local[h] EXCEPT !.counts = c])
    PROVE  local'[h].pc = label /\ local'[h].counts = c /\ local'[h].snap = local[h].snap
<1>1. local[h] \in MemType
  BY DEF TypeInv, LocalsOK
<1> DEFINE m == [local[h] EXCEPT !.counts = c]
<1>2. m \in MemType /\ m.counts = c /\ m.snap = local[h].snap
  BY <1>1 DEF MemType
<1>3. Goto(h, label, call, m)
  OBVIOUS
<1> HIDE DEF m
<1> QED BY <1>2, <1>3, GotoFacts

LEMMA StepLeads ==
    ASSUME TypeInv, NEW h \in Handlers, Step(h), ~InitPollVotes(h)
    PROVE  /\ local[h].pc \notin {"idle", "create_init", "vote_init", "results_init"}
           /\ \A g \in Handlers \ {h} : local'[g] = local[g]
           /\ \/ local'[h] = Idle
              \/ Travels(h, local'[h], {l \in Labels : Leads(local[h].pc, l)})
<1> DEFINE Claim ==
      /\ local[h].pc \notin {"idle", "create_init", "vote_init", "results_init"}
      /\ \A g \in Handlers \ {h} : local'[g] = local[g]
      /\ \/ local'[h] = Idle
         \/ Travels(h, local'[h], {l \in Labels : Leads(local[h].pc, l)})
<1>a. StoresOK /\ local[h] \in MemType
  BY DEF TypeInv, LocalsOK
<1>b. Zero \in Counts /\ docVotes \in Counts /\ tally \in Counts /\ status \in Statuses
  BY <1>a DEF Zero, Counts, StoresOK
<1>c. ASSUME Reply(h), local[h].pc \notin {"idle", "create_init", "vote_init", "results_init"}
      PROVE  Claim
  BY <1>c, ReplyFacts
<1>d. ASSUME NEW label \in Labels, NEW call \in Calls(h),
         NEW mem \in MemType, Goto(h, label, call, mem),
             mem.who = local[h].who, mem.opt = local[h].opt, mem.client = local[h].client,
             mem.idx = local[h].idx, mem.attempt = local[h].attempt,
             Leads(local[h].pc, label),
             local[h].pc \notin {"idle", "create_init", "vote_init", "results_init"}
      PROVE  Claim
  <2>1. Travels(h, local'[h], {label}) /\ \A g \in Handlers \ {h} : local'[g] = local[g]
    BY <1>d, GotoTravels
  <2> QED BY <2>1, <1>d DEF Travels
<1>e. ASSUME NEW label \in Labels, NEW call \in Calls(h), Goto(h, label, call, local[h]),
             Leads(local[h].pc, label),
             local[h].pc \notin {"idle", "create_init", "vote_init", "results_init"}
      PROVE  Claim
  BY <1>a, <1>d, <1>e
<1>f. \A call : [o \in Options |->
            IF call = "ok" /\ o \in fields THEN tally[o] ELSE local[h].snap[o]]
                \in Counts
  BY <1>a, <1>b DEF Counts, MemType
<1>g. \A c \in Counts :
        /\ [local[h] EXCEPT !.counts = c] \in MemType
        /\ [local[h] EXCEPT !.counts = c].who = local[h].who
        /\ [local[h] EXCEPT !.counts = c].opt = local[h].opt
        /\ [local[h] EXCEPT !.counts = c].client = local[h].client
        /\ [local[h] EXCEPT !.counts = c].idx = local[h].idx
        /\ [local[h] EXCEPT !.counts = c].attempt = local[h].attempt
  BY <1>a DEF MemType
<1> SUFFICES Claim
  BY DEF Claim
<1> HIDE DEF Claim
<1>1. CASE CreateInsert(h)
  <2>1. local[h].pc = "create_insert" /\ (Reply(h)
          \/ \E call \in Calls(h) : Goto(h, "create_init", call, local[h]))
    BY <1>1 DEF CreateInsert, At, Calls
  <2>2. Leads("create_insert", "create_init") /\ "create_init" \in Labels
    BY DEF Leads, Labels
  <2> QED BY <2>1, <2>2, <1>c, <1>e
<1>2. CASE CreateReply(h)
  BY <1>2, <1>c DEF CreateReply, At
<1>3. CASE VoteLoad(h)
  <2> DEFINE mem == [local[h] EXCEPT !.status = status, !.snap = docVotes]
  <2>1. local[h].pc = "vote_load" /\ (Reply(h)
          \/ \E call \in Calls(h) : Goto(h, Gate, call, mem))
    BY <1>3 DEF VoteLoad, At, Calls
  <2>2. Leads("vote_load", Gate) /\ Gate \in Labels
    BY DEF Leads, Labels, Gate
  <2>3. /\ mem \in MemType /\ mem.who = local[h].who /\ mem.opt = local[h].opt
        /\ mem.client = local[h].client /\ mem.idx = local[h].idx
        /\ mem.attempt = local[h].attempt
    BY <1>a, <1>b DEF MemType
  <2> HIDE DEF mem
  <2> QED BY <2>1, <2>2, <2>3, <1>c, <1>d
<1>4. CASE VoteCheck(h)
  <2>1. local[h].pc = "vote_check" /\ (Reply(h)
          \/ \E call \in Calls(h) : Goto(h, "vote_record", call, local[h]))
    BY <1>4 DEF VoteCheck, At, Calls
  <2>2. Leads("vote_check", "vote_record") /\ "vote_record" \in Labels
    BY DEF Leads, Labels
  <2> QED BY <2>1, <2>2, <1>c, <1>e
<1>5. CASE VoteRecord(h)
  <2>1. local[h].pc = "vote_record" /\ (Reply(h)
          \/ \E call \in Calls(h) : Goto(h, "vote_count", call, local[h]))
    BY <1>5 DEF VoteRecord, At, Calls
  <2>2. Leads("vote_record", "vote_count") /\ "vote_count" \in Labels
    BY DEF Leads, Labels
  <2> QED BY <2>1, <2>2, <1>c, <1>e
<1>6. CASE VoteCount(h)
  <2>1. local[h].pc = "vote_count" /\ (Reply(h)
          \/ \E call \in Calls(h) : Goto(h, "vote_incr", call, local[h]))
    BY <1>6 DEF VoteCount, At, Calls
  <2>2. Leads("vote_count", "vote_incr") /\ "vote_incr" \in Labels
    BY DEF Leads, Labels
  <2> QED BY <2>1, <2>2, <1>c, <1>e
<1>7. CASE VoteIncr(h)
  <2>1. local[h].pc = "vote_incr" /\
          \E call \in Calls(h) : \E l \in {"vote_fetch", "vote_publish", "vote_init"} :
          Goto(h, l, call, local[h])
    BY <1>7 DEF VoteIncr, Incremented, At, Calls
  <2>2. \A l \in {"vote_fetch", "vote_publish", "vote_init"} :
          Leads("vote_incr", l) /\ l \in Labels
    BY DEF Leads, Labels
  <2> QED BY <2>1, <2>2, <1>e
<1>8. CASE VoteFetch(h)
  <2> DEFINE mem == [local[h] EXCEPT !.counts = tally]
  <2>1. local[h].pc = "vote_fetch" /\ \E call \in Calls(h) :
             \/ Goto(h, "vote_publish", call, mem)
             \/ Goto(h, "vote_publish", call, local[h])
             \/ Goto(h, "vote_init", call, local[h])
    BY <1>8 DEF VoteFetch, Incremented, At, Calls
  <2>2. Leads("vote_fetch", "vote_publish") /\ Leads("vote_fetch", "vote_init")
        /\ "vote_publish" \in Labels /\ "vote_init" \in Labels
    BY DEF Leads, Labels
  <2>3. /\ mem \in MemType /\ mem.who = local[h].who /\ mem.opt = local[h].opt
        /\ mem.client = local[h].client /\ mem.idx = local[h].idx
        /\ mem.attempt = local[h].attempt
    BY <1>a, <1>b DEF MemType
  <2> HIDE DEF mem
  <2> QED BY <2>1, <2>2, <2>3, <1>d, <1>e
<1>9. CASE VotePublish(h)
  BY <1>9, <1>c DEF VotePublish, At
<1>10. CASE ResultsLoad(h)
  <2> DEFINE mem == [local[h] EXCEPT !.snap = docVotes]
  <2>1. local[h].pc = "results_load" /\ (Reply(h)
          \/ \E call \in Calls(h) : \E l \in {"results_close", "results_fetch"} :
          Goto(h, l, call, mem))
    BY <1>10 DEF ResultsLoad, At, Calls
  <2>2. \A l \in {"results_close", "results_fetch"} : Leads("results_load", l) /\ l \in Labels
    BY DEF Leads, Labels
  <2>3. /\ mem \in MemType /\ mem.who = local[h].who /\ mem.opt = local[h].opt
        /\ mem.client = local[h].client /\ mem.idx = local[h].idx
        /\ mem.attempt = local[h].attempt
    BY <1>a, <1>b DEF MemType
  <2> HIDE DEF mem
  <2> QED BY <2>1, <2>2, <2>3, <1>c, <1>d
<1>11. CASE ResultsFetch(h)
  <2>1. local[h].pc = "results_fetch"
    BY <1>11 DEF ResultsFetch, At, Calls
  <2>2. (\E call \in Calls(h) : \E c \in Counts :
             Goto(h, "results_voted", call, [local[h] EXCEPT !.counts = c]))
         \/ \E call \in Calls(h) : Goto(h, "results_init", call, local[h])
    BY <1>11, <1>b, <1>f DEF ResultsFetch, Calls
  <2>3. Leads("results_fetch", "results_voted") /\ "results_voted" \in Labels
        /\ Leads("results_fetch", "results_init") /\ "results_init" \in Labels
    BY DEF Leads, Labels
  <2> QED BY <2>1, <2>2, <2>3, <1>d, <1>e, <1>g
<1>12. CASE ResultsVoted(h)
  BY <1>12, <1>c DEF ResultsVoted, At
<1>13. CASE ShareLoad(h)
  <2>1. local[h].pc = "share_load" /\ (Reply(h)
          \/ \E call \in Calls(h) : Goto(h, "share_close", call, local[h]))
    BY <1>13 DEF ShareLoad, At, Calls
  <2>2. Leads("share_load", "share_close") /\ "share_close" \in Labels
    BY DEF Leads, Labels
  <2> QED BY <2>1, <2>2, <1>c, <1>e
<1>14. CASE AutoClose(h)
  <2>1. \/ local[h].pc \in {"vote_close", "share_close", "results_close"} /\ Reply(h)
        \/ local[h].pc = "results_close" /\ \E call \in Calls(h) :
                    Goto(h, "results_fetch", call, local[h])
    BY <1>14 DEF AutoClose, At, Calls
  <2>2. Leads("results_close", "results_fetch") /\ "results_fetch" \in Labels
    BY DEF Leads, Labels
  <2> QED BY <2>1, <2>2, <1>c, <1>e
<1>15. CASE ListLoad(h)
  <2> DEFINE mem == [local[h] EXCEPT !.snap = docVotes]
  <2>1. local[h].pc = "list_load" /\ (Reply(h)
          \/ \E call \in Calls(h) : \E l \in {"list_fetch"} :
          Goto(h, l, call, mem))
    BY <1>15 DEF ListLoad, At, Calls
  <2>2. \A l \in {"list_fetch"} : Leads("list_load", l) /\ l \in Labels
    BY DEF Leads, Labels
  <2>3. /\ mem \in MemType /\ mem.who = local[h].who /\ mem.opt = local[h].opt
        /\ mem.client = local[h].client /\ mem.idx = local[h].idx
        /\ mem.attempt = local[h].attempt
    BY <1>a, <1>b DEF MemType
  <2> HIDE DEF mem
  <2> QED BY <2>1, <2>2, <2>3, <1>c, <1>d
<1>16. CASE ListFetch(h)
  <2>1. local[h].pc = "list_fetch"
    BY <1>16 DEF ListFetch, At, Calls
  <2>2. (\E call \in Calls(h) : \E c \in Counts :
          Goto(h, "list_reply", call, [local[h] EXCEPT !.counts = c]))
    BY <1>16, <1>b, <1>f DEF ListFetch, Calls
  <2>3. Leads("list_fetch", "list_reply") /\ "list_reply" \in Labels
    BY DEF Leads, Labels
  <2> QED BY <2>1, <2>2, <2>3, <1>d, <1>e, <1>g
<1>17. CASE ListReply(h)
  BY <1>17, <1>c DEF ListReply, At
<1>18. CASE StatusUpdate(h)
  <2>1. local[h].pc = "status_update" /\ (Reply(h)
          \/ \E call \in Calls(h) : Goto(h, "status_load", call, local[h]))
    BY <1>18 DEF StatusUpdate, At, Calls
  <2>2. Leads("status_update", "status_load") /\ "status_load" \in Labels
    BY DEF Leads, Labels
  <2> QED BY <2>1, <2>2, <1>c, <1>e
<1>19. CASE StatusLoad(h)
  <2>1. local[h].pc = "status_load" /\ (Reply(h)
          \/ \E call \in Calls(h) : Goto(h, "status_fetch", call, local[h]))
    BY <1>19 DEF StatusLoad, At, Calls
  <2>2. Leads("status_load", "status_fetch") /\ "status_fetch" \in Labels
    BY DEF Leads, Labels
  <2> QED BY <2>1, <2>2, <1>c, <1>e
<1>20. CASE StatusFetch(h)
  <2>1. local[h].pc = "status_fetch"
    BY <1>20 DEF StatusFetch, At, Calls
  <2>2. (\E call \in Calls(h) : \E c \in Counts :
          Goto(h, "status_publish", call, [local[h] EXCEPT !.counts = c]))
    BY <1>20, <1>b, <1>f DEF StatusFetch, Calls
  <2>3. Leads("status_fetch", "status_publish") /\ "status_publish" \in Labels
    BY DEF Leads, Labels
  <2> QED BY <2>1, <2>2, <2>3, <1>d, <1>e, <1>g
<1>21. CASE StatusPublish(h)
  BY <1>21, <1>c DEF StatusPublish, At
<1>22. CASE DeleteDoc(h)
  <2>1. local[h].pc = "delete_doc" /\ (Reply(h)
          \/ \E call \in Calls(h) : Goto(h, "delete_votes", call, local[h]))
    BY <1>22 DEF DeleteDoc, At, Calls
  <2>2. Leads("delete_doc", "delete_votes") /\ "delete_votes" \in Labels
    BY DEF Leads, Labels
  <2> QED BY <2>1, <2>2, <1>c, <1>e
<1>23. CASE DeleteVotes(h)
  BY <1>23, <1>c DEF DeleteVotes, At
<1> QED BY <1>1, <1>2, <1>3, <1>4, <1>5, <1>6, <1>7, <1>8, <1>9, <1>10, <1>11, <1>12,
           <1>13, <1>14, <1>15, <1>16, <1>17, <1>18, <1>19, <1>20, <1>21, <1>22, <1>23
        DEF Step

-----------------------------------------------------------------------------
(* InitPollVotes either sets one field and goes on to the next, or ends.   *)
InitGoesOn(h) ==
    /\ local[h].idx <= NumOptions /\ HSetNX(local[h].idx, local[h].snap[local[h].idx])
    /\ "ok" \in InitCall(h)
    /\ local'[h].pc = local[h].pc /\ local'[h].idx = local[h].idx + 1
    /\ local'[h].attempt = local[h].attempt

InitEnds(h) ==
    /\ \/ "failed" \in InitCall(h) /\ UNCHANGED hashVars
       \/ /\ "lost" \in InitCall(h)
          /\ local[h].idx <= NumOptions /\ HSetNX(local[h].idx, local[h].snap[local[h].idx])
       \/ /\ InitCall(h) # {"failed"}
          /\ local[h].idx > NumOptions /\ UNCHANGED <<fields, tally>>
    /\ <<local[h].pc, local'[h].pc>> \in
           {<<"create_init", "create_reply">>, <<"vote_init", "vote_incr">>,
            <<"results_init", "results_fetch">>}
    /\ local'[h].idx = local[h].idx /\ local'[h].attempt = 2

LEMMA InitGoes ==
    ASSUME TypeInv, NEW h \in Handlers, InitPollVotes(h)
    PROVE  /\ local[h].pc \in {"create_init", "vote_init", "results_init"}
           /\ UNCHANGED <<mongoVars, event, uiVars>>
           /\ \A g \in Handlers \ {h} : local'[g] = local[g]
           /\ local'[h].who = local[h].who /\ local'[h].opt = local[h].opt
           /\ local'[h].snap = local[h].snap /\ local'[h].counts = local[h].counts
           /\ local'[h].client = local[h].client
           /\ InitGoesOn(h) \/ InitEnds(h)
<1> DEFINE mem == local[h]
           last == mem.idx > NumOptions
<1>a. PICK call \in InitCall(h) :
          /\ CASE call = "failed" -> UNCHANGED hashVars
               [] call # "failed" /\ ~last -> HSetNX(mem.idx, mem.snap[mem.idx])
               [] call # "failed" /\ last ->
                      /\ ttl' = IF fields = {} THEN ttl ELSE "set"
                      /\ UNCHANGED <<fields, tally>>
          /\ IF call # "ok" \/ last
               THEN Goto(h, AfterInit[mem.pc], call, [mem EXCEPT !.attempt = 2])
               ELSE Goto(h, mem.pc, call, [mem EXCEPT !.idx = @ + 1])
  BY DEF InitPollVotes
<1>b. call \in {"ok", "failed", "lost"} /\ mem \in MemType /\ mem.idx \in 1..(NumOptions + 1)
  BY DEF InitCall, RedisCall, Faults, TypeInv, LocalsOK, MemType
<1>c. /\ mem.pc \in {"create_init", "vote_init", "results_init"}
      /\ UNCHANGED <<mongoVars, event, uiVars>>
      /\ <<mem.pc, AfterInit[mem.pc]>> \in
           {<<"create_init", "create_reply">>, <<"vote_init", "vote_incr">>,
            <<"results_init", "results_fetch">>}
      /\ mem.pc \in Labels /\ AfterInit[mem.pc] \in Labels
  BY DEF InitPollVotes, AfterInit, Labels
<1>d. ASSUME call # "ok" \/ last
      PROVE  /\ \A g \in Handlers \ {h} : local'[g] = local[g]
             /\ local'[h].pc = AfterInit[mem.pc] /\ local'[h].attempt = 2
             /\ local'[h].who = mem.who /\ local'[h].opt = mem.opt
             /\ local'[h].snap = mem.snap /\ local'[h].counts = mem.counts
             /\ local'[h].client = mem.client /\ local'[h].idx = mem.idx
  <2> DEFINE new == [mem EXCEPT !.attempt = 2]
  <2>1. /\ new \in MemType /\ new.who = mem.who /\ new.opt = mem.opt /\ new.attempt = 2
        /\ new.snap = mem.snap /\ new.counts = mem.counts /\ new.client = mem.client
        /\ new.idx = mem.idx
    BY <1>b DEF MemType
  <2>2. Goto(h, AfterInit[mem.pc], call, new)
    BY <1>a, <1>d
  <2> HIDE DEF new
  <2> QED BY <2>1, <2>2, <1>b, <1>c, GotoFacts
<1>e. ASSUME call = "ok", ~last
      PROVE  /\ \A g \in Handlers \ {h} : local'[g] = local[g]
             /\ local'[h].pc = mem.pc /\ local'[h].attempt = mem.attempt
             /\ local'[h].who = mem.who /\ local'[h].opt = mem.opt
             /\ local'[h].snap = mem.snap /\ local'[h].counts = mem.counts
             /\ local'[h].client = mem.client /\ local'[h].idx = mem.idx + 1
  <2> DEFINE new == [mem EXCEPT !.idx = @ + 1]
  <2>1. mem.idx + 1 \in 1..(NumOptions + 1)
    BY <1>b, <1>e, OptionsAssumption
  <2>2. /\ new \in MemType /\ new.who = mem.who /\ new.opt = mem.opt
        /\ new.attempt = mem.attempt
        /\ new.snap = mem.snap /\ new.counts = mem.counts /\ new.client = mem.client
        /\ new.idx = mem.idx + 1
    BY <1>b, <2>1 DEF MemType
  <2>3. Goto(h, mem.pc, call, new)
    BY <1>a, <1>e
  <2> HIDE DEF new
  <2> QED BY <2>2, <2>3, <1>b, <1>c, <1>e, GotoFacts
<1>4. ~last => mem.idx <= NumOptions
  BY <1>b, OptionsAssumption
<1>1. CASE call = "ok" /\ ~last
  <2>1. HSetNX(mem.idx, mem.snap[mem.idx])
    BY <1>1, <1>a, Zenon
  <2> QED BY <2>1, <1>1, <1>4, <1>c, <1>e DEF InitGoesOn
<1>2. CASE call # "ok" /\ ~last
  <2>1. \/ call = "failed" /\ UNCHANGED hashVars
        \/ call = "lost" /\ HSetNX(mem.idx, mem.snap[mem.idx])
    BY <1>2, <1>a, <1>b, Zenon
  <2> QED BY <2>1, <1>4, <1>2, <1>c, <1>d DEF InitEnds
<1>3. CASE last
  <2>1. \/ call = "failed" /\ UNCHANGED hashVars
        \/ call # "failed" /\ mem.idx > NumOptions /\ UNCHANGED <<fields, tally>>
    BY <1>3, <1>a, <1>b
  <2> QED BY <2>1, <1>3, <1>c, <1>d DEF InitEnds
<1> QED BY <1>1, <1>2, <1>3, <1>b

(* A request takes a free slot to a first label, with nothing read yet.    *)
FirstLabels == {"vote_load", "results_load", "share_load", "list_load",
                "status_update", "delete_doc"}

LEMMA RequestFacts ==
    ASSUME TypeInv, NEW h \in Handlers, Request(h)
    PROVE  /\ UNCHANGED <<mongoVars, hashVars, event, uiVars>>
           /\ local[h].pc = "idle"
           /\ \A g \in Handlers \ {h} : local'[g] = local[g]
           /\ local'[h].client = "there" /\ local'[h].idx = 1 /\ local'[h].attempt = 1
           /\ local'[h].snap = Zero /\ local'[h].counts = Zero
           /\ \/ poll = "none" /\ local'[h].pc = "create_insert"
              \/ local'[h].pc \in FirstLabels /\ Reachable
<1> DEFINE Fresh(m) == /\ m \in MemType /\ m.client = "there" /\ m.idx = 1 /\ m.attempt = 1
                       /\ m.snap = Zero /\ m.counts = Zero
<1>a. /\ Fresh(Idle)
      /\ \A v \in Voters, o \in Options : Fresh([Idle EXCEPT !.who = v, !.opt = o])
      /\ \A v \in Voters : Fresh([Idle EXCEPT !.who = v])
      /\ \A s \in Statuses : Fresh([Idle EXCEPT !.status = s])
  BY IdleType DEF Idle, MemType
<1>b. FirstLabels \subseteq Labels /\ "create_insert" \in Labels
  BY DEF FirstLabels, Labels
<1>1. CASE BeginCreate(h)
  <2>1. /\ Goto(h, "create_insert", "ok", Idle) /\ poll = "none" /\ local[h].pc = "idle"
        /\ UNCHANGED <<mongoVars, hashVars, event, uiVars>>
    BY <1>1 DEF BeginCreate, At
  <2>2. Fresh(Idle)
    BY <1>a
  <2> HIDE DEF Fresh
  <2> QED BY <2>1, <2>2, <1>b, GotoFacts DEF Fresh
<1>2. CASE ~BeginCreate(h)
  <2>1. \E op, m : Fresh(m) /\ \E l \in FirstLabels : Begin(h, op, l, m)
    <3>1. CASE BeginVote(h)
      BY <3>1, <1>a DEF BeginVote, FirstLabels
    <3>2. CASE BeginResults(h)
      BY <3>2, <1>a DEF BeginResults, FirstLabels
    <3>3. CASE BeginStatus(h)
      BY <3>3, <1>a DEF BeginStatus, FirstLabels
    <3>4. CASE BeginShare(h) \/ BeginList(h) \/ BeginDelete(h)
      BY <3>4, <1>a DEF BeginShare, BeginList, BeginDelete, FirstLabels
    <3> QED BY <1>2, <3>1, <3>2, <3>3, <3>4 DEF Request
  <2>2. PICK op, m : Fresh(m) /\ \E l \in FirstLabels : Begin(h, op, l, m)
    BY <2>1
  <2>3. PICK l \in FirstLabels : Begin(h, op, l, m)
    BY <2>2
  <2>4. /\ Goto(h, l, "ok", m) /\ Reachable /\ local[h].pc = "idle"
        /\ UNCHANGED <<mongoVars, hashVars, event, uiVars>>
    BY <2>3 DEF Begin, At
  <2> QED BY <2>2, <2>4, <1>b, GotoFacts
<1> QED BY <1>1, <1>2

(* What else can happen to the handlers: a client leaves, or the process   *)
(* dies.                                                                   *)
LEMMA DisconnectFacts ==
    ASSUME TypeInv, NEW h \in Handlers, Disconnect(h)
    PROVE  /\ UNCHANGED <<mongoVars, hashVars, event, uiVars>>
           /\ \A g \in Handlers \ {h} : local'[g] = local[g]
           /\ local'[h].client = "left" /\ local'[h].pc = local[h].pc
           /\ local'[h].who = local[h].who /\ local'[h].opt = local[h].opt
           /\ local'[h].idx = local[h].idx /\ local'[h].attempt = local[h].attempt
           /\ local'[h].snap = local[h].snap /\ local'[h].counts = local[h].counts
BY DEF Disconnect, TypeInv, LocalsOK, MemType

LEMMA RestartFacts ==
    ASSUME Restart
    PROVE  \A h \in Handlers : local'[h] = Idle
BY DEF Restart

(* The label of a handler determines its step.                             *)
LEMMA StepIs ==
    ASSUME NEW h \in Handlers, Step(h)
    PROVE  /\ local[h].pc = "create_insert" => CreateInsert(h)
           /\ local[h].pc = "vote_load"     => VoteLoad(h)
           /\ local[h].pc = "vote_record"   => VoteRecord(h)
           /\ local[h].pc = "vote_count"    => VoteCount(h)
           /\ local[h].pc = "vote_incr"     => VoteIncr(h)
           /\ local[h].pc = "vote_fetch"    => VoteFetch(h)
           /\ local[h].pc = "results_fetch" => ResultsFetch(h)
BY DEF Step, At, CreateInsert, CreateReply, InitPollVotes, AfterInit,
       VoteLoad, VoteCheck, VoteRecord, VoteCount, VoteIncr, VoteFetch,
       VotePublish, ResultsLoad, ResultsFetch, ResultsVoted, ShareLoad,
       AutoClose, ListLoad, ListFetch, ListReply, StatusUpdate, StatusLoad,
       StatusFetch, StatusPublish, DeleteDoc, DeleteVotes

(* A vote document stays as it is while its poll exists: handlers that     *)
(* delete votes run only once the document of the poll is gone (DeleteDoc  *)
(* before DeleteVotes), whatever fails or is retried.                      *)
LEMMA KeptByNext ==
    ASSUME MongoInv, [Next]_vars, poll' = "live"
    PROVE  votes \subseteq votes'
<1>1. ASSUME NEW h \in Handlers, Step(h) PROVE votes \subseteq votes'
  <2>1. ~DeleteVotes(h)
    BY DEF DeleteVotes, MongoInv, CreateOK
  <2>2. VoteRecord(h) => votes \subseteq votes'
    BY DEF VoteRecord
  <2> QED BY <1>1, <2>1, <2>2, StepKeepsVotes
<1>2. ASSUME NEW h \in Handlers, Request(h) \/ Disconnect(h) PROVE votes' = votes
  BY <1>2, RequestKeepsVotes DEF Disconnect, mongoVars
<1>3. Expire \/ EnsureIndexes \/ TTLElapses \/ Restart \/ UNCHANGED vars => votes' = votes
  BY DEF Expire, EnsureIndexes, TTLElapses, Restart, vars, mongoVars
<1> QED BY <1>1, <1>2, <1>3 DEF Next

(* No recorded vote is lost while its poll exists, whatever fails.         *)
THEOREM VotesKept == Spec => VotesAreKept
<1>1. MongoInv /\ [Next]_vars => [poll' = "live" => votes \subseteq votes']_vars
  BY KeptByNext
<1> QED BY <1>1, MongoInit, MongoNext, PTL DEF Spec, VotesAreKept

(* Once the poll is closed, expired or deleted, only requests that were    *)
(* past the checks of CastVote before can record a vote.                   *)
LEMMA ShutByNext ==
    ASSUME TypeInv, [Next]_vars, Shut
    PROVE  InFlight' \subseteq InFlight
<1>1. ASSUME NEW h \in Handlers, \A g \in Handlers \ {h} : local'[g] = local[g],
             local'[h].pc \in {"vote_check", "vote_record"} =>
                 local[h].pc \in {"vote_check", "vote_record"}
      PROVE  InFlight' \subseteq InFlight
  BY <1>1 DEF InFlight
<1>2. ASSUME NEW h \in Handlers, Step(h) PROVE InFlight' \subseteq InFlight
  <2>1. CASE InitPollVotes(h)
    <3>1. local'[h].pc \notin {"vote_check", "vote_record"}
      BY <2>1, InitGoes DEF InitGoesOn, InitEnds
    <3> QED BY <2>1, <3>1, <1>1, InitGoes
  <2>2. CASE VoteLoad(h)
    <3>1. Reply(h) \/ \E call : \E mem \in MemType : Goto(h, "vote_close", call, mem)
      <4>1. [local[h] EXCEPT !.status = status, !.snap = docVotes] \in MemType
        <5>1. docVotes \in Counts /\ status \in Statuses /\ local[h] \in MemType
          BY DEF TypeInv, StoresOK, LocalsOK
        <5> QED BY <5>1 DEF MemType
      <4> QED BY <2>2, <4>1 DEF VoteLoad, Gate, Shut
    <3>2. local'[h].pc \in {"idle", "vote_close"} /\
          \A g \in Handlers \ {h} : local'[g] = local[g]
      BY <3>1, GotoFacts, ReplyLabel DEF Labels
    <3> QED BY <3>2, <1>1
  <2>3. CASE ~InitPollVotes(h) /\ ~VoteLoad(h)
    <3>1. local[h].pc = "vote_load" => VoteLoad(h)
      BY <1>2, StepIs
    <3>2. local'[h].pc \in {"vote_check", "vote_record"} => local[h].pc = "vote_check"
      BY <2>3, <3>1, <1>2, StepLeads, IdleType DEF Travels, Leads
    <3> QED BY <2>3, <3>2, <1>1, <1>2, StepLeads
  <2> QED BY <2>1, <2>2, <2>3
<1>3. ASSUME NEW h \in Handlers, Request(h) \/ Disconnect(h) PROVE InFlight' \subseteq InFlight
  BY <1>3, <1>1, RequestFacts, DisconnectFacts DEF FirstLabels
<1>4. CASE Restart
  BY <1>4, RestartFacts, IdleType DEF InFlight
<1>5. CASE Expire \/ EnsureIndexes \/ TTLElapses \/ UNCHANGED vars
  <2>1. local' = local
    BY <1>5 DEF Expire, EnsureIndexes, TTLElapses, vars
  <2> QED BY <2>1 DEF InFlight
<1> QED BY <1>2, <1>3, <1>4, <1>5 DEF Next

(* A poll that is closed, expired or deleted lets no further vote in.      *)
THEOREM ShutOut == Spec => ShutKeepsOut
<1>1. TypeInv /\ [Next]_vars => [Shut => InFlight' \subseteq InFlight]_vars
  BY ShutByNext
<1> QED BY <1>1, InitType, NextType, PTL DEF Spec, ShutKeepsOut
-----------------------------------------------------------------------------
(* "Already voted".                                                        *)

(* What each step does to the poll document and to the browsers.           *)
LEMMA StepKeepsPoll ==
    ASSUME NEW h \in Handlers, Step(h)
    PROVE  poll' = poll \/ CreateInsert(h) \/ DeleteDoc(h)
BY DEF Step, mongoVars, CreateReply, InitPollVotes, VoteLoad, VoteRecord,
       VoteCheck, VoteCount, VoteIncr, VoteFetch, VotePublish, ResultsLoad,
       ResultsFetch, ResultsVoted, ShareLoad, AutoClose, ListLoad, ListFetch,
       ListReply, StatusUpdate, UpdatePollStatus, StatusLoad, StatusFetch,
       StatusPublish, DeleteVotes

LEMMA StepKeepsThanked ==
    ASSUME NEW h \in Handlers, Step(h)
    PROVE  \/ thanked' = thanked
           \/ VoteCheck(h) \/ VoteRecord(h) \/ VotePublish(h) \/ ResultsVoted(h)
BY DEF Step, mongoVars, uiVars, CreateInsert, CreateReply, InitPollVotes, VoteLoad,
       VoteCount, VoteIncr, VoteFetch, ResultsLoad,
       ResultsFetch, ShareLoad, AutoClose, ListLoad, ListFetch,
       ListReply, StatusUpdate, StatusLoad, StatusFetch, StatusPublish,
       DeleteDoc, DeleteVotes

(* Handlers that have recorded their vote.                                 *)
RecordedLabels == {"vote_count", "vote_incr", "vote_fetch", "vote_init", "vote_publish"}

Earned ==
    /\ poll = "none" => thanked = {}
    /\ poll = "live" =>
          \A h \in Handlers : local[h].pc \in RecordedLabels => HasVoted(local[h].who)
    /\ ThankedIsRecorded

(* Who is thanked has voted, or is so by the end of the step.  This is     *)
(* where a call of RecordVote that fails without effect would do harm: its *)
(* 409 looks to the browser like a vote.                                   *)
LEMMA ThanksAreEarned ==
    ASSUME "mongo_error" \notin Env, NEW h \in Handlers, Step(h)
    PROVE  \/ thanked' = thanked
           \/ /\ thanked' = thanked \union {local[h].who}
              /\ \/ HasVoted(local[h].who) \/ \E q \in votes' : q.voter = local[h].who
                 \/ local[h].pc = "vote_publish"
<1>1. CASE VoteCheck(h)
  BY <1>1 DEF VoteCheck, Thank
<1>2. CASE VotePublish(h)
  BY <1>2 DEF VotePublish, Thank, At
<1>3. CASE ResultsVoted(h)
  BY <1>3 DEF ResultsVoted, Thank
<1>4. CASE VoteRecord(h)
  <2> DEFINE v == local[h].who
             r == [voter |-> v, opt |-> local[h].opt, serial |-> serial[v]]
  <2>1. PICK call \in MongoCall(h) :
          /\ \/ call = "failed" /\ votes' = votes
             \/ Refused(v) /\ votes' = votes
             \/ call # "failed" /\ votes' = votes \union {r}
          /\ thanked' = thanked \/ Thank(h, call)
    BY <1>4 DEF VoteRecord
  <2>2. call = "failed" => Left(h)
    BY DEF MongoCall, Faults
  <2>3. CASE call = "failed"
    BY <2>1, <2>2, <2>3 DEF Thank
  <2>4. CASE Refused(v)
    BY <2>1, <2>4 DEF Refused, Thank
  <2>5. CASE votes' = votes \union {r}
    <3>1. r \in votes' /\ r.voter = v
      BY <2>5
    <3> QED BY <2>1, <3>1 DEF Thank
  <2> QED BY <2>1, <2>3, <2>4, <2>5
<1> QED BY <1>1, <1>2, <1>3, <1>4, StepKeepsThanked

(* Who has recorded a vote has a vote document.                            *)
LEMMA RecordedHaveVoted ==
    ASSUME TypeInv, NEW h \in Handlers, Step(h), local'[h].pc \in RecordedLabels
    PROVE  /\ local'[h].who = local[h].who
           /\ \/ local[h].pc \in RecordedLabels
              \/ \E q \in votes' : q.voter = local[h].who
<1>1. CASE InitPollVotes(h)
  BY <1>1, InitGoes DEF InitGoesOn, InitEnds, RecordedLabels
<1>2. CASE ~InitPollVotes(h)
  <2>1. Travels(h, local'[h], {l \in Labels : Leads(local[h].pc, l)})
    BY <1>2, StepLeads, IdleType DEF RecordedLabels
  <2>2. local'[h].who = local[h].who
        /\ (local[h].pc \in RecordedLabels \/ local[h].pc = "vote_record")
    BY <2>1 DEF Travels, Leads, RecordedLabels
  <2>3. CASE local[h].pc = "vote_record"
    <3>1. VoteRecord(h)
      BY <2>3, StepIs
    <3>2. ~Reply(h)
      BY IdleType, ReplyFacts DEF RecordedLabels
    <3> DEFINE r == [voter |-> local[h].who, opt |-> local[h].opt,
                     serial |-> serial[local[h].who]]
    <3>3. votes' = votes \union {r}
      BY <3>1, <3>2 DEF VoteRecord, Recorded
    <3>4. r \in votes' /\ r.voter = local[h].who
      BY <3>3
    <3> QED BY <2>2, <3>4
  <2> QED BY <2>2, <2>3
<1> QED BY <1>1, <1>2

LEMMA EarnedByStep ==
    ASSUME "mongo_error" \notin Env, MongoInv, MongoInv', Earned, NEW h \in Handlers, Step(h)
    PROVE  Earned'
<1>a. TypeInv /\ CreateOK /\ CreateOK' /\ [Next]_vars
  BY DEF MongoInv, Next
<1>b. \A g \in Handlers \ {h} : local'[g] = local[g]
  BY <1>a, StepLeads, InitGoes
<1>1. CASE poll = "none"
  <2>1. local[h].pc = "create_insert" /\ votes = {} /\ thanked = {}
    BY <1>1, <1>a, StepLeads, InitGoes DEF CreateOK, Earned
  <2>2. thanked' = {}
    BY <2>1, StepKeepsThanked DEF VoteCheck, VoteRecord, VotePublish, ResultsVoted, At
  <2>3. local'[h].pc \notin RecordedLabels
    BY <2>1, <1>a, StepLeads, InitGoes, IdleType DEF Travels, Leads, RecordedLabels
  <2>4. \A g \in Handlers : local'[g].pc \notin RecordedLabels
    BY <2>3, <1>b, <1>1, <1>a DEF CreateOK, RecordedLabels
  <2> QED BY <2>2, <2>4 DEF Earned, ThankedIsRecorded
<1>2. CASE poll # "none"
  <2>1. poll' # "none"
    BY <1>2, StepKeepsPoll DEF CreateInsert, DeleteDoc
  <2>2. poll' = "live" => poll = "live"
    BY <1>2, <1>a, StepKeepsPoll DEF CreateInsert, DeleteDoc, CreateOK
  <2>3. SUFFICES ASSUME poll' = "live", poll = "live"
                 PROVE  /\ \A g \in Handlers : local'[g].pc \in RecordedLabels =>
                              \E q \in votes' : q.voter = local'[g].who
                        /\ \A v \in thanked' : \E q \in votes' : q.voter = v
    BY <2>1, <2>2 DEF Earned, ThankedIsRecorded, HasVoted
  <2>4. votes \subseteq votes'
    BY <1>a, <2>3, KeptByNext
  <2>5. /\ \A g \in Handlers : local[g].pc \in RecordedLabels =>
              \E q \in votes' : q.voter = local[g].who
        /\ \A v \in thanked : \E q \in votes' : q.voter = v
    BY <2>3, <2>4 DEF Earned, ThankedIsRecorded, HasVoted
  <2>6. ASSUME NEW g \in Handlers, local'[g].pc \in RecordedLabels
        PROVE  \E q \in votes' : q.voter = local'[g].who
    BY <2>5, <2>6, <1>a, <1>b, RecordedHaveVoted
  <2>7. ASSUME NEW v \in thanked' PROVE \E q \in votes' : q.voter = v
    <3>1. CASE v \in thanked
      BY <3>1, <2>5
    <3>2. CASE v \notin thanked
      <4>1. v = local[h].who
        BY <3>2, <2>7, ThanksAreEarned
      <4>2. \/ HasVoted(v) \/ \E q \in votes' : q.voter = v
            \/ local[h].pc \in RecordedLabels
        BY <3>2, <2>7, <4>1, ThanksAreEarned DEF RecordedLabels
      <4> QED BY <4>1, <4>2, <2>4, <2>5 DEF HasVoted
    <3> QED BY <3>1, <3>2
  <2> QED BY <2>6, <2>7
<1> QED BY <1>1, <1>2

(* Unless a call of MongoDB fails without effect, a browser that shows     *)
(* "already voted" has a vote document: for any number of requests with    *)
(* its token, crashes, clients that leave, and calls that are lost.        *)
THEOREM ThankedAreRecorded ==
    ASSUME "mongo_error" \notin Env
    PROVE  Spec => []ThankedIsRecorded
<1>1. Init => Earned
  BY DEF Init, Earned, ThankedIsRecorded
<1>2. MongoInv /\ MongoInv' /\ Earned /\ [Next]_vars => Earned'
  <2> SUFFICES ASSUME MongoInv, MongoInv', Earned, [Next]_vars PROVE Earned'
    OBVIOUS
  <2>1. ASSUME NEW h \in Handlers, Step(h) PROVE Earned'
    BY <2>1, EarnedByStep
  <2>2. ASSUME UNCHANGED <<poll, votes, thanked>>,
               \A h \in Handlers : local'[h].pc \in RecordedLabels =>
                   local[h].pc \in RecordedLabels /\ local'[h].who = local[h].who
        PROVE  Earned'
    BY <2>2 DEF Earned, ThankedIsRecorded, HasVoted
  <2>3. ASSUME NEW h \in Handlers, Request(h) \/ Disconnect(h) PROVE Earned'
    <3>1. UNCHANGED <<poll, votes, thanked>>
      BY <2>3, RequestFacts, DisconnectFacts DEF MongoInv, mongoVars, uiVars
    <3>2. \A g \in Handlers : local'[g].pc \in RecordedLabels =>
              local[g].pc \in RecordedLabels /\ local'[g].who = local[g].who
      BY <2>3, RequestFacts, DisconnectFacts DEF MongoInv, FirstLabels, RecordedLabels
    <3> QED BY <3>1, <3>2, <2>2
  <2>4. CASE Restart
    BY <2>4, <2>2, RestartFacts, IdleType DEF Restart, uiVars, RecordedLabels
  <2>5. CASE Expire \/ EnsureIndexes \/ TTLElapses \/ UNCHANGED vars
    <3>1. UNCHANGED <<poll, votes, thanked, local>>
      BY <2>5 DEF Expire, EnsureIndexes, TTLElapses, vars, mongoVars, uiVars
    <3> QED BY <3>1, <2>2
  <2> QED BY <2>1, <2>3, <2>4, <2>5 DEF Next
<1>3. Earned => ThankedIsRecorded
  BY DEF Earned
<1> QED BY <1>1, <1>2, <1>3, MongoInit, MongoNext, PTL DEF Spec

-----------------------------------------------------------------------------
(* The hash.  Where nobody finds the poll before its creator got the link, *)
(* and Redis neither fails nor loses the hash, the hash is complete when   *)
(* the first request comes, so that no HSETNX ever writes a stale count.   *)
(* MongoDB may fail in every way, clients may leave and the process crash. *)
Reliable == Env \intersect {"early_link", "redis_error", "redis_lost", "restart", "ttl"} = {}

LEMMA ReliableCalls ==
    ASSUME Reliable, NEW h \in Handlers
    PROVE  /\ RedisCall(h) = IF Left(h) THEN {"failed"} ELSE {"ok"}
           /\ InitCall(h) = IF local[h].idx = 1 /\ Left(h) THEN {"failed"} ELSE {"ok"}
BY DEF Reliable, RedisCall, InitCall, Faults

CreateLabels == {"create_insert", "create_init", "create_reply"}

(* What holds of a handler: a complete hash is behind it, or it is making  *)
(* one; and it only tries a second time when its client has left, so that  *)
(* the second attempt comes to nothing.                                    *)
HandlerOK(h) ==
    LET m == local[h] IN
    /\ m.pc \in {"create_insert", "create_init"} => m.snap = Zero
    /\ m.pc = "create_init" => \A i \in Options : i < m.idx => i \in fields
    /\ m.pc = "create_reply" /\ m.client = "there" => fields = Options
    /\ m.pc \notin {"create_init", "create_reply"} =>
          m.idx = 1 /\ (m.attempt = 2 => m.client = "left")
    /\ m.pc \in {"vote_init", "results_init"} => m.client = "left"
    /\ announced \/ m.pc \in CreateLabels \union {"idle"}

HashOK ==
    /\ announced => fields = Options /\ poll # "none"
    /\ ~announced => tally = Zero
    /\ \A h \in Handlers : HandlerOK(h)

LEMMA StepKeepsTally ==
    ASSUME NEW h \in Handlers, Step(h)
    PROVE  UNCHANGED <<fields, tally>> \/ InitPollVotes(h) \/ VoteIncr(h)
BY DEF Step, hashVars, CreateInsert, CreateReply, VoteLoad, VoteRecord,
       VoteCheck, VoteCount, VoteFetch, VotePublish, ResultsLoad,
       ResultsFetch, ResultsVoted, ShareLoad, AutoClose, ListLoad, ListFetch,
       ListReply, StatusUpdate, StatusLoad, StatusFetch, StatusPublish,
       DeleteDoc, DeleteVotes

LEMMA StepKeepsDoc ==
    ASSUME NEW h \in Handlers, Step(h)
    PROVE  docVotes' = docVotes \/ VoteCount(h)
BY DEF Step, mongoVars, CreateInsert, CreateReply, InitPollVotes, VoteLoad, VoteRecord,
       VoteCheck, VoteIncr, VoteFetch, VotePublish, ResultsLoad,
       ResultsFetch, ResultsVoted, ShareLoad, AutoClose, ListLoad, ListFetch,
       ListReply, StatusUpdate, StatusLoad, StatusFetch, StatusPublish,
       DeleteDoc, DeleteVotes

LEMMA StepKeepsAnnounced ==
    ASSUME NEW h \in Handlers, Step(h)
    PROVE  announced' = announced \/ CreateReply(h)
BY DEF Step, uiVars, CreateInsert, InitPollVotes, VoteLoad, VoteRecord,
       VoteCheck, VoteCount, VoteIncr, VoteFetch, VotePublish, ResultsLoad,
       ResultsFetch, ResultsVoted, ShareLoad, AutoClose, ListLoad, ListFetch,
       ListReply, StatusUpdate, StatusLoad, StatusFetch, StatusPublish,
       DeleteDoc, DeleteVotes

(* InitPollVotes leaves the counts alone, and ends with a complete hash or *)
(* without a client.                                                       *)
LEMMA InitIsHarmless ==
    ASSUME Reliable, TypeInv, HashOK, NEW h \in Handlers, InitPollVotes(h)
    PROVE  /\ tally' = tally /\ fields \subseteq fields' /\ fields' \subseteq Options
           /\ InitGoesOn(h) => fields' = fields \union {local[h].idx}
           /\ InitGoesOn(h) => local[h].pc = "create_init"
           /\ InitEnds(h) /\ ~Left(h) => local[h].pc = "create_init" /\ fields = Options
<1>a. /\ InitGoesOn(h) \/ InitEnds(h)
      /\ local[h].pc \in {"create_init", "vote_init", "results_init"}
      /\ HandlerOK(h) /\ local[h] \in MemType
  BY InitGoes DEF HashOK, TypeInv, LocalsOK
<1>b. /\ local[h].idx \in 1..(NumOptions + 1) /\ local[h].client \in {"there", "left"}
      /\ NumOptions \in Nat \ {0} /\ fields \subseteq Options /\ tally \in Counts
  BY <1>a, OptionsAssumption DEF MemType, TypeInv, StoresOK
<1>c. local[h].pc # "create_init" => local[h].idx = 1 /\ Left(h) /\ InitCall(h) = {"failed"}
  BY <1>a, ReliableCalls DEF HandlerOK, Left
<1>1. ASSUME local[h].idx <= NumOptions, HSetNX(local[h].idx, local[h].snap[local[h].idx]),
             local[h].pc = "create_init"
      PROVE  tally' = tally /\ fields' = fields \union {local[h].idx}
             /\ local[h].idx \in Options
  <2>1. local[h].idx \in Options
    BY <1>1, <1>b DEF Options
  <2>2. announced => local[h].idx \in fields
    BY <2>1 DEF HashOK
  <2>3. ~announced => tally = Zero /\ local[h].snap = Zero
    BY <1>a, <1>1 DEF HashOK, HandlerOK
  <2>4. CASE local[h].idx \in fields
    BY <2>1, <2>4, <1>1 DEF HSetNX
  <2>5. CASE local[h].idx \notin fields
    <3>1. tally' = [tally EXCEPT ![local[h].idx] = local[h].snap[local[h].idx]]
      BY <2>5, <1>1 DEF HSetNX
    <3>2. tally[local[h].idx] = local[h].snap[local[h].idx]
      BY <2>2, <2>3, <2>5
    <3>3. tally' = tally
      BY <3>1, <3>2, <1>b DEF Counts
    <3> QED BY <2>1, <3>3, <1>1 DEF HSetNX
  <2> QED BY <2>4, <2>5
<1>2. CASE InitGoesOn(h)
  <2>1. local[h].pc = "create_init"
    BY <1>2, <1>c DEF InitGoesOn
  <2>2. ~InitEnds(h)
    BY <1>2, <1>b, <2>1 DEF InitGoesOn, InitEnds
  <2> QED BY <1>1, <1>2, <1>b, <2>1, <2>2 DEF InitGoesOn
<1>3. CASE InitEnds(h)
  <2>1. InitCall(h) = {"failed"} => tally' = tally /\ fields' = fields /\ Left(h)
    BY <1>3, ReliableCalls DEF InitEnds, hashVars
  <2>2. CASE InitCall(h) # {"failed"}
    <3>1. InitCall(h) = {"ok"} /\ local[h].pc = "create_init"
      BY <2>2, <1>c, ReliableCalls
    <3>2. local[h].idx > NumOptions /\ UNCHANGED <<fields, tally>>
      BY <1>3, <3>1 DEF InitEnds
    <3>3. Options \subseteq fields
      <4>1. \A i \in Options : i < local[h].idx
        BY <3>2, <1>b DEF Options
      <4> QED BY <4>1, <3>1, <1>a DEF HandlerOK
    <3>4. ~InitGoesOn(h)
      BY <3>2, <1>b DEF InitGoesOn
    <3> QED BY <3>1, <3>2, <3>3, <3>4, <1>b
  <2>3. ~InitGoesOn(h)
    BY <1>3, <1>b DEF InitGoesOn, InitEnds
  <2> QED BY <2>1, <2>2, <2>3, <1>b
<1> QED BY <1>a, <1>2, <1>3

LEMMA IdleFacts == /\ Idle.pc = "idle" /\ Idle.idx = 1 /\ Idle.attempt = 1
                   /\ Idle.snap = Zero /\ Idle.counts = Zero /\ Idle.client = "there"
BY DEF Idle

(* HandlerOK speaks of one handler and of what only grows.                 *)
LEMMA HandlerStays ==
    ASSUME NEW h \in Handlers, HandlerOK(h), local'[h] = local[h],
           announced => announced', fields \subseteq fields', fields' \subseteq Options
    PROVE  HandlerOK(h)'
BY DEF HandlerOK

LEMMA HandlerIdles ==
    ASSUME NEW h \in Handlers, local'[h] = Idle
    PROVE  HandlerOK(h)'
BY IdleFacts DEF HandlerOK, CreateLabels

(* A call of Redis that does not fail goes on without InitPollVotes.       *)
LEMMA FetchGoes ==
    ASSUME TypeInv, NEW h \in Handlers, RedisCall(h) = {"ok"}
    PROVE  /\ VoteIncr(h) => local'[h].pc = "vote_fetch"
           /\ VoteFetch(h) => local'[h].pc = "vote_publish"
           /\ ResultsFetch(h) /\ fields # {} => local'[h].pc = "results_voted"
<1>a. tally \in Counts /\ local[h] \in MemType
  BY DEF TypeInv, StoresOK, LocalsOK
<1>b. {"vote_fetch", "vote_publish", "results_voted"} \subseteq Labels
  BY DEF Labels
<1>1. VoteIncr(h) => Goto(h, "vote_fetch", "ok", local[h])
  BY DEF VoteIncr, Incremented
<1>2. VoteFetch(h) => Goto(h, "vote_publish", "ok", [local[h] EXCEPT !.counts = tally])
  BY DEF VoteFetch
<1>3. ResultsFetch(h) /\ fields # {} =>
          Goto(h, "results_voted", "ok", [local[h] EXCEPT !.counts = tally])
  BY DEF ResultsFetch
<1> QED BY <1>a, <1>b, <1>1, <1>2, <1>3, GotoFacts, GotoFetch

(* A handler on its way keeps HandlerOK.  It comes to InitPollVotes only   *)
(* for a client that has left: no call of another fails, and the hash is   *)
(* not empty.                                                              *)
LEMMA HashByMove ==
    ASSUME Reliable, TypeInv, TypeInv', HashOK, NEW h \in Handlers, Step(h), ~InitPollVotes(h),
           fields = fields', announced => announced'
    PROVE  HandlerOK(h)'
<1>a. HandlerOK(h) /\ local[h] \in MemType
  BY DEF HashOK, TypeInv, LocalsOK
<1>1. CASE local'[h] = Idle
  BY <1>1, HandlerIdles
<1>2. CASE local'[h] # Idle
  <2> DEFINE m == local[h]
             n == local'[h]
  <2>1. /\ Leads(m.pc, n.pc) /\ n.idx = m.idx /\ n.attempt = m.attempt
        /\ m.client = "left" => n.client = "left"
    BY <1>2, StepLeads DEF Travels, Left
  <2>2. m.pc \in CreateLabels => m.pc = "create_insert" /\ n.pc = "create_init"
    BY <2>1 DEF Leads, CreateLabels
  <2>3. m.pc \notin {"create_init", "create_reply", "idle"}
    BY <2>1 DEF Leads
  <2>4. n.pc \notin {"create_insert", "create_reply"} /\
        (n.pc = "create_init" => m.pc = "create_insert")
    BY <2>1 DEF Leads
  <2>5. n.pc = "create_init" => n.snap = Zero /\ n.idx = 1
    <3> SUFFICES ASSUME m.pc = "create_insert" PROVE n.snap = Zero /\ n.idx = 1
      BY <2>4
    <3>1. CreateInsert(h)
      BY StepIs
    <3>2. ~Reply(h)
      BY <1>2, ReplyFacts DEF HashOK
    <3>3. n.snap = m.snap
      BY <3>1, <3>2, <1>a, GotoFacts DEF CreateInsert, Labels
    <3> QED BY <3>3, <2>1, <1>a DEF HandlerOK
  <2>6. n.pc \in {"vote_init", "results_init"} => n.client = "left"
    <3>1. CASE n.pc = "vote_init"
      <4>1. VoteIncr(h) \/ VoteFetch(h)
        BY <2>1, <3>1, StepIs DEF Leads
      <4>2. ~Left(h) => RedisCall(h) = {"ok"}
        BY ReliableCalls
      <4>3. ~Left(h) => n.pc # "vote_init"
        BY <4>1, <4>2, FetchGoes
      <4> QED BY <3>1, <4>3, <2>1 DEF Left
    <3>2. CASE n.pc = "results_init"
      <4>1. ResultsFetch(h)
        BY <2>1, <3>2, StepIs DEF Leads
      <4>2. ~Left(h) => RedisCall(h) = {"ok"}
        BY ReliableCalls
      <4>3. fields # {}
        BY <1>a, <2>1, <3>2, OptionsAssumption
           DEF HandlerOK, Leads, HashOK, CreateLabels, Options
      <4>4. ~Left(h) => n.pc # "results_init"
        BY <4>1, <4>2, <4>3, FetchGoes
      <4> QED BY <3>2, <4>4, <2>1 DEF Left
    <3> QED BY <3>1, <3>2
  <2> HIDE DEF m, n
  <2>7. n.idx = 1 /\ (n.attempt = 2 => n.client = "left")
    BY <2>1, <2>3, <1>a DEF HandlerOK, m
  <2>8. announced' \/ n.pc \in CreateLabels
    BY <2>2, <2>3, <1>a DEF HandlerOK, m, CreateLabels
  <2>9. n.pc # "create_reply" /\ n.pc # "create_insert"
    BY <2>4
  <2>10. local'[h] = n
    BY DEF n
  <2>11. \A i \in Options : ~(i < 1)
    BY DEF Options
  <2> QED BY <2>5, <2>6, <2>7, <2>8, <2>9, <2>10, <2>11 DEF HandlerOK
<1> QED BY <1>1, <1>2

LEMMA HashByInit ==
    ASSUME Reliable, TypeInv, HashOK, NEW h \in Handlers, InitPollVotes(h)
    PROVE  HashOK'
<1>a. /\ HandlerOK(h) /\ local[h] \in MemType /\ UNCHANGED <<poll, announced>>
      /\ \A g \in Handlers \ {h} : local'[g] = local[g]
      /\ local'[h].client = local[h].client /\ local'[h].snap = local[h].snap
      /\ InitGoesOn(h) \/ InitEnds(h)
  BY InitGoes DEF HashOK, TypeInv, LocalsOK, mongoVars, uiVars
<1>b. tally' = tally /\ fields \subseteq fields' /\ fields' \subseteq Options
  BY InitIsHarmless
<1>1. ASSUME NEW g \in Handlers \ {h} PROVE HandlerOK(g)'
  BY <1>a, <1>b, HandlerStays DEF HashOK
<1>2. HandlerOK(h)'
  <2>1. CASE InitGoesOn(h)
    <3>1. /\ local[h].pc = "create_init" /\ fields' = fields \union {local[h].idx}
          /\ local'[h].pc = "create_init" /\ local'[h].idx = local[h].idx + 1
      BY <2>1, InitIsHarmless DEF InitGoesOn
    <3>2. \A i \in Options : i < local[h].idx + 1 => i < local[h].idx \/ i = local[h].idx
      <4>1. local[h].idx \in Int
        BY <1>a, OptionsAssumption DEF MemType
      <4> QED BY <4>1 DEF Options
    <3>3. \A i \in Options : i < local'[h].idx => i \in fields'
      BY <3>1, <3>2, <1>a DEF HandlerOK
    <3> QED BY <3>1, <3>3, <1>a DEF HandlerOK, CreateLabels
  <2>2. CASE InitEnds(h)
    <3>1. /\ local'[h].pc \in {"create_reply", "vote_incr", "results_fetch"}
          /\ local'[h].idx = local[h].idx
          /\ local'[h].pc # "create_reply" => local[h].pc \in {"vote_init", "results_init"}
          /\ local'[h].pc = "create_reply" => local[h].pc = "create_init"
      BY <2>2 DEF InitEnds
    <3>2. local[h].client = "there" => fields' = Options
      BY <2>2, <1>b, InitIsHarmless DEF Left
    <3> QED BY <3>1, <3>2, <1>a DEF HandlerOK, CreateLabels
  <2> QED BY <1>a, <2>1, <2>2
<1> QED BY <1>a, <1>b, <1>1, <1>2 DEF HashOK

LEMMA HashByStep ==
    ASSUME Reliable, MongoInv, TypeInv', HashOK, NEW h \in Handlers, Step(h)
    PROVE  HashOK'
<1>a. TypeInv /\ CreateOK /\ HandlerOK(h)
  BY DEF MongoInv, HashOK
<1>1. CASE InitPollVotes(h)
  BY <1>1, <1>a, HashByInit
<1>2. CASE ~InitPollVotes(h)
  <2>1. fields' = fields /\ (tally' = tally \/ announced)
    <3>1. CASE VoteIncr(h)
      <4>1. announced
        BY <3>1, <1>a DEF VoteIncr, At, HandlerOK, CreateLabels
      <4>2. fields = Options /\ fields \subseteq fields' /\ fields' \subseteq Options
        BY <3>1, <4>1 DEF HashOK, VoteIncr, HIncrBy, hashVars, TypeInv, StoresOK
      <4> QED BY <4>1, <4>2
    <3> QED BY <1>2, <3>1, StepKeepsTally
  <2>2. /\ announced => announced'
        /\ announced' /\ ~announced =>
              local[h].pc = "create_reply" /\ local[h].client = "there"
    BY StepKeepsAnnounced DEF CreateReply, At
  <2>3. poll' = "none" => poll = "none"
    BY StepKeepsPoll DEF CreateInsert, DeleteDoc
  <2>4. announced' => fields' = Options /\ poll' # "none"
    <3>1. local[h].pc = "create_reply" => poll # "none"
      BY <1>a DEF CreateOK
    <3> QED BY <2>1, <2>2, <2>3, <3>1, <1>a DEF HashOK, HandlerOK
  <2>5. ~announced' => tally' = Zero
    BY <2>1, <2>2 DEF HashOK
  <2>6. ASSUME NEW g \in Handlers \ {h} PROVE HandlerOK(g)'
    <3>1. local'[g] = local[g] /\ HandlerOK(g) /\ fields' \subseteq Options
      BY <1>2, <1>a, <2>1, StepLeads DEF HashOK, TypeInv, StoresOK
    <3> QED BY <3>1, <2>1, <2>2, HandlerStays
  <2>7. HandlerOK(h)'
    BY <1>2, <1>a, <2>1, <2>2, HashByMove
  <2> QED BY <2>4, <2>5, <2>6, <2>7 DEF HashOK
<1> QED BY <1>1, <1>2

LEMMA HashByNext ==
    ASSUME Reliable, MongoInv, MongoInv', HashOK, [Next]_vars
    PROVE  HashOK'
<1>a. TypeInv /\ TypeInv' /\ fields \subseteq Options
  BY DEF MongoInv, TypeInv, StoresOK
<1>1. ASSUME NEW h \in Handlers, Step(h) PROVE HashOK'
  BY <1>1, <1>a, HashByStep
<1>2. ASSUME UNCHANGED <<poll, fields, tally, announced>>,
             \A h \in Handlers : HandlerOK(h) => HandlerOK(h)'
      PROVE  HashOK'
  BY <1>2 DEF HashOK
<1>3. ASSUME NEW h \in Handlers, Request(h) \/ Disconnect(h) PROVE HashOK'
  <2>1. /\ UNCHANGED <<poll, fields, tally, announced>>
        /\ \A g \in Handlers \ {h} : local'[g] = local[g]
    BY <1>3, <1>a, RequestFacts, DisconnectFacts DEF mongoVars, hashVars, uiVars
  <2>2. \A g \in Handlers \ {h} : HandlerOK(g) => HandlerOK(g)'
    BY <2>1, <1>a, HandlerStays
  <2>3. CASE Disconnect(h)
    <3>1. HandlerOK(h) => HandlerOK(h)'
      BY <2>1, <2>3, <1>a, DisconnectFacts DEF HandlerOK
    <3> QED BY <2>1, <2>2, <3>1, <1>2
  <2>4. CASE Request(h)
    <3>1. local'[h].pc \in FirstLabels => announced
      BY <2>4, <1>a, RequestFacts DEF Reachable, Reliable, FirstLabels
    <3>2. /\ local'[h].pc \in FirstLabels \union {"create_insert"}
          /\ local'[h].idx = 1 /\ local'[h].attempt = 1 /\ local'[h].snap = Zero
      BY <2>4, <1>a, RequestFacts
    <3>3. HandlerOK(h)'
      BY <3>1, <3>2, <2>1 DEF HandlerOK, FirstLabels, CreateLabels
    <3> QED BY <2>1, <2>2, <3>3, <1>2
  <2> QED BY <1>3, <2>3, <2>4
<1>4. CASE Restart
  <2>1. UNCHANGED <<poll, fields, tally, announced>>
    BY <1>4 DEF Restart, Reliable, hashVars, uiVars
  <2>2. \A h \in Handlers : HandlerOK(h)'
    BY <1>4, RestartFacts, HandlerIdles
  <2> QED BY <2>1, <2>2, <1>2
<1>5. CASE Expire \/ EnsureIndexes \/ TTLElapses \/ UNCHANGED vars
  <2>1. UNCHANGED <<poll, fields, tally, announced, local>>
    BY <1>5 DEF Expire, EnsureIndexes, TTLElapses, Reliable, vars, mongoVars, hashVars, uiVars
  <2> QED BY <2>1, <1>2, <1>a, HandlerStays
<1> QED BY <1>1, <1>3, <1>4, <1>5 DEF Next

-----------------------------------------------------------------------------
(* The tally against the votes collection.                                 *)
LEMMA UntalliedFinite ==
    ASSUME NEW o
    PROVE  IsFiniteSet(Untallied(o)) /\ Cardinality(Untallied(o)) \in Nat
<1>1. Untallied(o) \subseteq Handlers
  BY DEF Untallied
<1> QED BY <1>1, FS_Subset, FS_CardinalityType, HandlersAssumption

(* A step that records no vote and counts none.                            *)
LEMMA NoNewTally ==
    ASSUME MongoInv, RedisNeverOverstates, tally' = tally, votes \subseteq votes',
           IsFiniteSet(votes'), poll' = "live" => poll = "live",
           \A h \in Handlers :
               local'[h].pc \in {"vote_count", "vote_incr"} /\ local'[h].attempt = 1 =>
               /\ local[h].pc \in {"vote_count", "vote_incr"} /\ local[h].attempt = 1
               /\ local'[h].opt = local[h].opt
    PROVE  RedisNeverOverstates'
<1> SUFFICES ASSUME poll' = "live", NEW o \in Options
             PROVE  (tally[o] + Cardinality(Untallied(o)) <= Cardinality(For(o)))'
  BY DEF RedisNeverOverstates
<1>1. Untallied(o)' \subseteq Untallied(o)
  BY DEF Untallied
<1>2. Cardinality(Untallied(o)') <= Cardinality(Untallied(o))
      /\ Cardinality(Untallied(o)') \in Nat /\ Cardinality(Untallied(o)) \in Nat
  BY <1>1, UntalliedFinite, FS_Subset, FS_CardinalityType
<1>3. For(o) \subseteq For(o)' /\ For(o)' \subseteq votes'
  BY DEF For
<1>4. Cardinality(For(o)) <= Cardinality(For(o)')
      /\ Cardinality(For(o)) \in Nat /\ Cardinality(For(o)') \in Nat
  BY <1>3, FS_Subset, FS_CardinalityType
<1>5. tally[o] + Cardinality(Untallied(o)) <= Cardinality(For(o))
  BY DEF RedisNeverOverstates
<1>6. tally'[o] = tally[o] /\ tally[o] \in Nat
  BY DEF MongoInv, TypeInv, StoresOK, Counts
<1> QED BY <1>2, <1>4, <1>5, <1>6

(* VoteRecord inserts at most one document, and a handler that goes on has *)
(* inserted its own.                                                       *)
LEMMA RecordFacts ==
    ASSUME MongoInv, NEW h \in Handlers, VoteRecord(h)
    PROVE  /\ UNCHANGED <<poll, tally, docVotes>> /\ local[h].pc = "vote_record"
           /\ \/ votes' = votes
              \/ \E r \in Ballots : /\ r \notin votes /\ r.opt = local[h].opt
                                    /\ votes' = votes \union {r}
           /\ votes' = votes => local'[h].pc # "vote_count"
<1> DEFINE v == local[h].who
           r == [voter |-> v, opt |-> local[h].opt, serial |-> serial[v]]
<1>a. /\ UNCHANGED <<poll, tally, docVotes>> /\ local[h].pc = "vote_record"
      /\ votes' = votes \/ votes' = votes \union {r}
      /\ Reply(h) \/ votes' = votes \union {r}
  BY DEF VoteRecord, Recorded, hashVars, At
<1>1. v \in Voters /\ local[h].opt \in Options /\ serial[v] \in Nat
  BY <1>a, MemFacts DEF MongoInv, VoterLabels, At, TypeInv, StoresOK
<1>2. r \in Ballots /\ r.opt = local[h].opt /\ r.voter = v /\ r.serial = serial[v]
  BY <1>1 DEF Ballots
<1>3. \A s \in votes : s.serial < serial[s.voter]
  BY DEF MongoInv, VotesOK
<1>4. r \notin votes
  BY <1>1, <1>2, <1>3
<1>5. Reply(h) => local'[h].pc = "idle"
  BY ReplyLabel DEF MongoInv
<1> HIDE DEF r
<1> QED BY <1>a, <1>2, <1>4, <1>5

LEMMA RecordKeepsTally ==
    ASSUME MongoInv, MongoInv', RedisNeverOverstates, NEW h \in Handlers, Step(h), VoteRecord(h)
    PROVE  RedisNeverOverstates'
<1>a. /\ UNCHANGED <<poll, tally>> /\ local[h].pc = "vote_record" /\ ~InitPollVotes(h)
      /\ \A g \in Handlers \ {h} : local'[g] = local[g]
      /\ local'[h].pc = "idle" \/ (local'[h].pc = "vote_count" /\ local'[h].opt = local[h].opt)
  <2>1. local[h].pc = "vote_record" /\ ~InitPollVotes(h)
    BY RecordFacts, InitGoes DEF MongoInv
  <2> QED BY <2>1, RecordFacts, StepLeads, IdleFacts DEF MongoInv, Travels, Leads
<1>b. IsFiniteSet(votes) /\ IsFiniteSet(votes') /\ tally \in Counts
  BY DEF MongoInv, VotesOK, TypeInv, StoresOK
<1>1. CASE votes' = votes
  <2>1. local'[h].pc = "idle"
    BY <1>1, <1>a, RecordFacts
  <2> QED BY <1>1, <2>1, <1>a, <1>b, NoNewTally
<1>2. CASE votes' # votes
  <2>1. PICK r \in Ballots : r \notin votes /\ r.opt = local[h].opt /\ votes' = votes \union {r}
    BY <1>2, RecordFacts
  <2> SUFFICES ASSUME poll' = "live", NEW o \in Options
               PROVE  (tally[o] + Cardinality(Untallied(o)) <= Cardinality(For(o)))'
    BY DEF RedisNeverOverstates
  <2>2. /\ tally[o] + Cardinality(Untallied(o)) <= Cardinality(For(o))
        /\ tally'[o] = tally[o] /\ tally[o] \in Nat
    BY <1>a, <1>b DEF RedisNeverOverstates, Counts
  <2>3. /\ Cardinality(For(o)) \in Nat /\ Cardinality(Untallied(o)) \in Nat
        /\ IsFiniteSet(For(o)) /\ IsFiniteSet(Untallied(o))
    BY ForFinite, UntalliedFinite DEF MongoInv
  <2>4. CASE o = local[h].opt
    <3>1. For(o)' = For(o) \union {r} /\ r \notin For(o)
      BY <2>1, <2>4 DEF For
    <3>2. Cardinality(For(o)') = Cardinality(For(o)) + 1
      BY <3>1, <2>3, FS_AddElement
    <3>3. Untallied(o)' \subseteq Untallied(o) \union {h} /\ h \notin Untallied(o)
      BY <1>a DEF Untallied
    <3>4. /\ Cardinality(Untallied(o) \union {h}) = Cardinality(Untallied(o)) + 1
          /\ IsFiniteSet(Untallied(o) \union {h})
      BY <3>3, <2>3, FS_AddElement
    <3>5. Cardinality(Untallied(o)') <= Cardinality(Untallied(o)) + 1
          /\ Cardinality(Untallied(o)') \in Nat
      BY <3>3, <3>4, FS_Subset, FS_CardinalityType
    <3> QED BY <2>2, <2>3, <3>2, <3>5
  <2>5. CASE o # local[h].opt
    <3>1. For(o)' = For(o)
      BY <2>1, <2>5 DEF For
    <3>2. Untallied(o)' \subseteq Untallied(o)
      BY <1>a, <2>5 DEF Untallied
    <3>3. Cardinality(Untallied(o)') <= Cardinality(Untallied(o))
          /\ Cardinality(Untallied(o)') \in Nat
      BY <3>2, <2>3, FS_Subset, FS_CardinalityType
    <3> QED BY <2>2, <2>3, <3>1, <3>3
  <2> QED BY <2>4, <2>5
<1> QED BY <1>1, <1>2

(* IncrementVote counts only votes that wait to be counted, once each.     *)
LEMMA IncrFacts ==
    ASSUME Reliable, TypeInv, HashOK, NEW h \in Handlers, VoteIncr(h)
    PROVE  /\ UNCHANGED <<poll, votes>> /\ local[h].opt \in Options
           /\ \/ tally' = tally
              \/ /\ tally' = [tally EXCEPT ![local[h].opt] = @ + 1]
                 /\ h \in Untallied(local[h].opt)
           /\ local[h].pc = "vote_incr" /\ announced
<1>a. /\ UNCHANGED <<poll, votes>> /\ local[h].pc = "vote_incr" /\ HandlerOK(h)
      /\ local[h] \in MemType
  BY DEF VoteIncr, mongoVars, At, HashOK, TypeInv, LocalsOK
<1>1. announced /\ local[h].opt \in Options
      /\ local[h].attempt \in {1, 2} /\ (local[h].attempt = 2 => Left(h))
  BY <1>a DEF HandlerOK, CreateLabels, MemType, Left
<1>2. CASE Left(h)
  <2>1. tally' = tally
    BY <1>2, ReliableCalls DEF VoteIncr, hashVars
  <2> QED BY <1>a, <1>1, <2>1
<1>3. CASE ~Left(h)
  <2>1. tally' = [tally EXCEPT ![local[h].opt] = @ + 1]
    BY <1>3, ReliableCalls DEF VoteIncr, HIncrBy
  <2>2. h \in Untallied(local[h].opt)
    BY <1>1, <1>3, <1>a DEF Untallied
  <2> QED BY <1>a, <1>1, <2>1, <2>2
<1> QED BY <1>2, <1>3

LEMMA IncrKeepsTally ==
    ASSUME Reliable, MongoInv, HashOK, RedisNeverOverstates,
           NEW h \in Handlers, Step(h), VoteIncr(h)
    PROVE  RedisNeverOverstates'
<1>a. TypeInv /\ IsFiniteSet(votes) /\ tally \in Counts
  BY DEF MongoInv, VotesOK, TypeInv, StoresOK
<1>b. /\ UNCHANGED <<poll, votes>> /\ local[h].pc = "vote_incr"
      /\ \A g \in Handlers \ {h} : local'[g] = local[g]
      /\ local'[h].pc \notin {"vote_count", "vote_incr"}
  <2>1. local[h].pc = "vote_incr" /\ UNCHANGED <<poll, votes>> /\ ~InitPollVotes(h)
    BY <1>a, IncrFacts, InitGoes
  <2> QED BY <2>1, <1>a, StepLeads, IdleFacts DEF Travels, Leads
<1>1. CASE tally' = tally
  BY <1>1, <1>a, <1>b, NoNewTally
<1>2. CASE tally' # tally
  <2>1. tally' = [tally EXCEPT ![local[h].opt] = @ + 1] /\ h \in Untallied(local[h].opt)
    BY <1>2, <1>a, IncrFacts
  <2> SUFFICES ASSUME poll' = "live", NEW o \in Options
               PROVE  (tally[o] + Cardinality(Untallied(o)) <= Cardinality(For(o)))'
    BY DEF RedisNeverOverstates
  <2>2. tally[o] + Cardinality(Untallied(o)) <= Cardinality(For(o)) /\ tally[o] \in Nat
    BY <1>a, <1>b DEF RedisNeverOverstates, Counts
  <2>3. For(o)' = For(o)
    BY <1>b DEF For
  <2>4. /\ Cardinality(For(o)) \in Nat /\ Cardinality(Untallied(o)) \in Nat
        /\ IsFiniteSet(Untallied(o))
    BY ForFinite, UntalliedFinite DEF MongoInv
  <2>5. Untallied(o)' = Untallied(o) \ {h}
    BY <1>b DEF Untallied
  <2>6. CASE o = local[h].opt
    <3>1. tally'[o] = tally[o] + 1
      BY <2>1, <2>6, <1>a DEF Counts
    <3>2. Cardinality(Untallied(o)') = Cardinality(Untallied(o)) - 1
      BY <2>1, <2>4, <2>5, <2>6, FS_RemoveElement
    <3> QED BY <2>2, <2>3, <2>4, <3>1, <3>2
  <2>7. CASE o # local[h].opt
    <3>1. tally'[o] = tally[o]
      BY <2>1, <2>7, <1>a DEF Counts
    <3>2. Untallied(o)' = Untallied(o)
      BY <2>5, <2>7 DEF Untallied
    <3> QED BY <2>2, <2>3, <3>1, <3>2
  <2> QED BY <2>6, <2>7
<1> QED BY <1>1, <1>2

LEMMA TallyByStep ==
    ASSUME Reliable, MongoInv, MongoInv', HashOK, RedisNeverOverstates,
           NEW h \in Handlers, Step(h)
    PROVE  RedisNeverOverstates'
<1>a. TypeInv /\ CreateOK /\ IsFiniteSet(votes)
  BY DEF MongoInv, VotesOK
<1>b. poll' = "live" => poll = "live" \/ CreateInsert(h)
  BY StepKeepsPoll DEF DeleteDoc
<1>1. CASE VoteRecord(h)
  BY <1>1, RecordKeepsTally
<1>2. CASE VoteIncr(h)
  BY <1>2, IncrKeepsTally
<1>3. CASE InitPollVotes(h)
  <2>1. /\ tally' = tally /\ UNCHANGED <<poll, votes>>
        /\ \A g \in Handlers \ {h} : local'[g] = local[g]
    BY <1>3, <1>a, InitIsHarmless, InitGoes DEF mongoVars
  <2>2. local'[h].pc \in {"vote_count", "vote_incr"} => local'[h].attempt = 2
    BY <1>3, <1>a, InitGoes DEF InitGoesOn, InitEnds
  <2> QED BY <2>1, <2>2, <1>a, NoNewTally
<1>4. CASE CreateInsert(h)
  <2>1. local[h].pc = "create_insert" /\ UNCHANGED <<votes, tally>>
    BY <1>4 DEF CreateInsert, At, hashVars
  <2>2. /\ votes = {} /\ poll = "none"
        /\ \A g \in Handlers : local[g].pc \in {"idle", "create_insert"}
    BY <2>1, <1>a DEF CreateOK, At
  <2>3. tally = Zero
    BY <2>2 DEF HashOK
  <2>4. /\ local'[h].pc \in {"idle", "create_init"}
        /\ \A g \in Handlers \ {h} : local'[g] = local[g]
    <3>1. ~InitPollVotes(h)
      BY <2>1, <1>a, InitGoes
    <3> QED BY <2>1, <3>1, <1>a, StepLeads, IdleFacts DEF Travels, Leads
  <2> SUFFICES ASSUME NEW o \in Options
               PROVE  (tally[o] + Cardinality(Untallied(o)) <= Cardinality(For(o)))'
    BY DEF RedisNeverOverstates
  <2>5. Untallied(o)' = {} /\ For(o)' = {} /\ tally'[o] = 0
    BY <2>1, <2>2, <2>3, <2>4 DEF Untallied, For, Zero
  <2> QED BY <2>5, FS_EmptySet
<1>5. CASE DeleteVotes(h)
  <2>1. poll' = "deleted"
    BY <1>5, <1>a DEF DeleteVotes, CreateOK
  <2> QED BY <2>1 DEF RedisNeverOverstates
<1>6. CASE ~(\/ VoteRecord(h) \/ VoteIncr(h) \/ InitPollVotes(h) \/ CreateInsert(h)
             \/ DeleteVotes(h))
  <2>1. tally' = tally /\ votes' = votes
    BY <1>6, StepKeepsTally, StepKeepsVotes
  <2>2. \A g \in Handlers \ {h} : local'[g] = local[g]
    BY <1>6, <1>a, StepLeads
  <2>3. local[h].pc # "vote_record"
    BY <1>6, StepIs
  <2>4. local'[h].pc \in {"vote_count", "vote_incr"} =>
          /\ local[h].pc \in {"vote_count", "vote_incr"}
          /\ local'[h].attempt = local[h].attempt /\ local'[h].opt = local[h].opt
    BY <1>6, <1>a, <2>3, StepLeads, IdleFacts DEF Travels, Leads
  <2> QED BY <2>1, <2>2, <2>4, <1>6, <1>a, <1>b, NoNewTally
<1> QED BY <1>1, <1>2, <1>3, <1>4, <1>5, <1>6

RedisInv == MongoInv /\ HashOK /\ RedisNeverOverstates

LEMMA RedisNext ==
    ASSUME Reliable
    PROVE  RedisInv /\ [Next]_vars => RedisInv'
<1> SUFFICES ASSUME RedisInv, [Next]_vars PROVE RedisInv'
  OBVIOUS
<1>a. MongoInv /\ MongoInv' /\ TypeInv /\ IsFiniteSet(votes)
  BY MongoNext DEF RedisInv, MongoInv, VotesOK
<1>b. HashOK'
  BY <1>a, HashByNext DEF RedisInv
<1> SUFFICES RedisNeverOverstates'
  BY <1>a, <1>b DEF RedisInv
<1>1. ASSUME NEW h \in Handlers, Step(h) PROVE RedisNeverOverstates'
  BY <1>1, <1>a, TallyByStep DEF RedisInv
<1>2. ASSUME NEW h \in Handlers, Request(h) \/ Disconnect(h) PROVE RedisNeverOverstates'
  <2>1. /\ UNCHANGED <<poll, tally, votes>>
        /\ \A g \in Handlers \ {h} : local'[g] = local[g]
        /\ local'[h].pc \in {"vote_count", "vote_incr"} =>
              /\ local[h].pc \in {"vote_count", "vote_incr"}
              /\ local'[h].attempt = local[h].attempt /\ local'[h].opt = local[h].opt
    BY <1>2, <1>a, RequestFacts, DisconnectFacts DEF mongoVars, hashVars, FirstLabels
  <2> QED BY <2>1, <1>a, NoNewTally DEF RedisInv
<1>3. CASE Restart
  <2>1. UNCHANGED <<poll, tally, votes>>
    BY <1>3 DEF Restart, Reliable, hashVars
  <2>2. \A g \in Handlers : local'[g].pc = "idle"
    BY <1>3, RestartFacts, IdleFacts
  <2> QED BY <2>1, <2>2, <1>a, NoNewTally DEF RedisInv
<1>4. CASE Expire \/ EnsureIndexes \/ TTLElapses \/ UNCHANGED vars
  <2>1. UNCHANGED <<poll, tally, votes, local>>
    BY <1>4 DEF Expire, EnsureIndexes, TTLElapses, Reliable, vars, mongoVars, hashVars
  <2> QED BY <2>1, <1>a, NoNewTally DEF RedisInv
<1> QED BY <1>1, <1>2, <1>3, <1>4 DEF Next

LEMMA RedisInit == Init => RedisInv
<1> SUFFICES ASSUME Init PROVE RedisInv
  OBVIOUS
<1>1. \A h \in Handlers : local[h] = Idle
  BY DEF Init
<1>2. HashOK
  BY <1>1, IdleFacts DEF Init, HashOK, HandlerOK, CreateLabels
<1>3. RedisNeverOverstates
  BY DEF Init, RedisNeverOverstates
<1> QED BY <1>2, <1>3, MongoInit DEF RedisInv

(* As long as Redis neither fails nor loses the hash, and the poll is not  *)
(* voted on before its creator has the link, the live tally never exceeds  *)
(* the recorded votes: whatever MongoDB does, whoever leaves, and when     *)
(* ever the process crashes.                                               *)
THEOREM TallyNeverOverstates ==
    ASSUME Reliable
    PROVE  Spec => []RedisNeverOverstates
<1>1. RedisInv => RedisNeverOverstates
  BY DEF RedisInv
<1> QED BY <1>1, RedisInit, RedisNext, PTL DEF Spec

-----------------------------------------------------------------------------
(* The refinement of Ballot.                                               *)
LEMMA PromiseInit == Init => Promise!Init
BY DEF Init, Zero, Promise!Init

(* An instance has its own name for the cardinality of a set.              *)
LEMMA SameCardinality == \A S : Promise!Cardinality(S) = Cardinality(S)
BY DEF Cardinality, Promise!Cardinality

LEMMA PromiseStep ==
    ASSUME Reliable, RedisInv, RedisInv', NEW h \in Handlers, Step(h)
    PROVE  [Promise!Next]_(Promise!ballotVars)
<1>a. /\ MongoInv /\ HashOK /\ RedisNeverOverstates /\ TypeInv /\ CreateOK
      /\ votes' \subseteq Ballots
  BY DEF RedisInv, MongoInv, TypeInv, StoresOK
<1>b. poll = "deleted" => poll' = "deleted"
  BY <1>a, StepKeepsPoll DEF CreateInsert, DeleteDoc, CreateOK
<1>1. CASE poll = "deleted"
  BY <1>1, <1>b DEF Promise!Next, Promise!Aftermath
<1>2. CASE poll # "deleted" /\ VoteRecord(h)
  <2>1. UNCHANGED <<poll, tally>>
    BY <1>2, <1>a, RecordFacts
  <2>2. CASE votes' = votes
    BY <2>1, <2>2 DEF Promise!ballotVars
  <2>3. CASE votes' # votes
    <3>1. PICK r \in Ballots : r \notin votes /\ votes' = votes \union {r}
      BY <1>2, <1>a, <2>3, RecordFacts
    <3>2. votes' \ votes = {r}
      BY <3>1
    <3>3. Promise!Cardinality(votes' \ votes) = 1
      BY <3>2, FS_Singleton, SameCardinality
    <3> QED BY <1>2, <1>a, <2>1, <3>1, <3>3 DEF Promise!Next, Promise!Cast
  <2> QED BY <2>2, <2>3
<1>3. CASE poll # "deleted" /\ VoteIncr(h)
  <2> DEFINE o == local[h].opt
  <2>1. UNCHANGED <<poll, votes>> /\ o \in Options /\ poll = "live"
    BY <1>3, <1>a, IncrFacts DEF HashOK, TypeInv, StoresOK
  <2>2. CASE tally' = tally
    BY <2>1, <2>2 DEF Promise!ballotVars
  <2>3. CASE tally' # tally
    <3>1. tally' = [tally EXCEPT ![o] = @ + 1] /\ h \in Untallied(o)
      BY <1>3, <1>a, <2>3, IncrFacts
    <3>2. tally[o] + Cardinality(Untallied(o)) <= Cardinality(For(o)) /\ tally[o] \in Nat
      BY <1>a, <2>1 DEF RedisNeverOverstates, TypeInv, StoresOK, Counts
    <3>3. Cardinality(Untallied(o)) \in Nat \ {0} /\ Cardinality(For(o)) \in Nat
      BY <1>a, <3>1, UntalliedFinite, ForFinite, FS_EmptySet DEF MongoInv
    <3>4. tally[o] < Cardinality(For(o))
      BY <3>2, <3>3
    <3>5. Promise!Cardinality(Promise!For(o)) = Cardinality(For(o))
      BY SameCardinality DEF For, Promise!For
    <3>6. Promise!Count(o)
      BY <1>3, <2>1, <3>1, <3>4, <3>5 DEF Promise!Count
    <3> QED BY <2>1, <3>6 DEF Promise!Next
  <2> QED BY <2>2, <2>3
<1>4. CASE poll # "deleted" /\ ~VoteRecord(h) /\ ~VoteIncr(h)
  <2>1. ~DeleteVotes(h)
    BY <1>4, <1>a DEF DeleteVotes, CreateOK
  <2>2. UNCHANGED <<votes, tally>>
    BY <1>4, <1>a, <2>1, StepKeepsVotes, StepKeepsTally, InitIsHarmless
  <2>3. CASE poll' = "deleted"
    BY <2>2, <2>3 DEF Promise!Next, Promise!Void
  <2>4. CASE poll' # "deleted"
    BY <1>4, <2>2, <2>4 DEF Promise!ballotVars
  <2> QED BY <2>3, <2>4
<1> QED BY <1>1, <1>2, <1>3, <1>4

LEMMA PromiseNext ==
    ASSUME Reliable
    PROVE  RedisInv /\ RedisInv' /\ [Next]_vars => [Promise!Next]_(Promise!ballotVars)
<1> SUFFICES ASSUME RedisInv, RedisInv', [Next]_vars
             PROVE  [Promise!Next]_(Promise!ballotVars)
  OBVIOUS
<1>1. ASSUME NEW h \in Handlers, Step(h) PROVE [Promise!Next]_(Promise!ballotVars)
  BY <1>1, PromiseStep
<1>2. ASSUME UNCHANGED <<poll, votes, tally>>
      PROVE  [Promise!Next]_(Promise!ballotVars)
  BY <1>2 DEF Promise!ballotVars
<1>3. ASSUME NEW h \in Handlers, Request(h) \/ Disconnect(h)
      PROVE  UNCHANGED <<poll, votes, tally>>
  BY <1>3, RequestFacts, DisconnectFacts DEF RedisInv, MongoInv, mongoVars, hashVars
<1>4. Restart \/ Expire \/ EnsureIndexes \/ TTLElapses \/ UNCHANGED vars
          => UNCHANGED <<poll, votes, tally>>
  BY DEF Restart, Expire, EnsureIndexes, TTLElapses, Reliable, vars, mongoVars, hashVars
<1> QED BY <1>1, <1>2, <1>3, <1>4 DEF Next

(* Under the same assumption PollVoting implements Ballot: ballots are     *)
(* cast one at a time and never taken back, each is counted at most once,  *)
(* and nothing is counted that was not cast.                               *)
THEOREM ImplementsBallot ==
    ASSUME Reliable
    PROVE  Spec => KeepsPromise
<1> QED BY PromiseInit, PromiseNext, RedisInit, RedisNext, PTL
   DEF Spec, KeepsPromise, Promise!Spec

-----------------------------------------------------------------------------
(* What the pages show.                                                    *)
LEMMA StepKeepsEvent ==
    ASSUME NEW h \in Handlers, Step(h)
    PROVE  event'.counts \in {event.counts, local[h].counts}
<1>1. event' = event \/ VotePublish(h) \/ StatusPublish(h)
  BY DEF Step, CreateInsert, CreateReply, InitPollVotes, VoteLoad, VoteRecord,
         VoteCheck, VoteCount, VoteIncr, VoteFetch, ResultsLoad,
         ResultsFetch, ResultsVoted, ShareLoad, AutoClose, ListLoad, ListFetch,
         ListReply, StatusUpdate, StatusLoad, StatusFetch, DeleteDoc, DeleteVotes
<1>2. VotePublish(h) \/ StatusPublish(h) => event'.counts \in {event.counts, local[h].counts}
  BY DEF VotePublish, StatusPublish, Publish
<1> QED BY <1>1, <1>2

(* A handler knows of the counts what it has just read, or read before.    *)
Reads(h) ==
    /\ local'[h].snap \in {Zero, local[h].snap, docVotes}
    /\ \A o \in Options :
          local'[h].counts[o] \in {0, local[h].counts[o], tally[o], local[h].snap[o]}

LEMMA StepReads ==
    ASSUME TypeInv, NEW h \in Handlers, Step(h)
    PROVE  Reads(h)
<1>a. /\ local[h] \in MemType /\ docVotes \in Counts /\ tally \in Counts /\ status \in Statuses
      /\ Zero \in Counts /\ \A o \in Options : Zero[o] = 0
  BY DEF TypeInv, LocalsOK, StoresOK, Zero, Counts
<1>b. Reply(h) => Reads(h)
  BY <1>a, ReplyFacts, IdleFacts DEF Reads
<1>c. ASSUME NEW label \in Labels, NEW call, Goto(h, label, call, local[h]) PROVE Reads(h)
  BY <1>a, <1>c, GotoFacts DEF Reads
<1>d. ASSUME NEW label \in Labels, NEW call, NEW c \in Counts,
             Goto(h, label, call, [local[h] EXCEPT !.counts = c]),
             \A o \in Options : c[o] \in {0, local[h].counts[o], tally[o], local[h].snap[o]}
      PROVE  Reads(h)
  BY <1>d, GotoFetch DEF Reads
<1>1. CASE \/ CreateInsert(h) \/ CreateReply(h) \/ VoteCheck(h) \/ VoteRecord(h)
           \/ VoteCount(h) \/ VotePublish(h) \/ ResultsVoted(h)
  <2>1. Reply(h) \/ \E label \in {"create_init", "vote_record", "vote_count", "vote_incr"} :
                        \E call : Goto(h, label, call, local[h])
    BY <1>1 DEF CreateInsert, CreateReply, VoteCheck, VoteRecord, VoteCount, VotePublish,
                ResultsVoted
  <2> QED BY <2>1, <1>b, <1>c DEF Labels
<1>2. CASE \/ ShareLoad(h) \/ AutoClose(h) \/ ListReply(h) \/ StatusUpdate(h)
           \/ StatusLoad(h) \/ StatusPublish(h) \/ DeleteDoc(h) \/ DeleteVotes(h)
  <2>1. Reply(h) \/ \E label \in {"share_close", "results_fetch", "status_load",
                                  "status_fetch", "delete_votes"} :
                        \E call : Goto(h, label, call, local[h])
    BY <1>2 DEF ShareLoad, AutoClose, ListReply, StatusUpdate, StatusLoad, StatusPublish,
                DeleteDoc, DeleteVotes
  <2> QED BY <2>1, <1>b, <1>c DEF Labels
<1>3. CASE VoteIncr(h)
  <2>1. \E label \in {"vote_fetch", "vote_publish", "vote_init"} :
            \E call : Goto(h, label, call, local[h])
    BY <1>3 DEF VoteIncr, Incremented
  <2> QED BY <2>1, <1>c DEF Labels
<1>4. CASE VoteFetch(h)
  <2>1. \/ \E call : Goto(h, "vote_publish", call, [local[h] EXCEPT !.counts = tally])
        \/ \E label \in {"vote_publish", "vote_init"} :
              \E call : Goto(h, label, call, local[h])
    BY <1>4 DEF VoteFetch, Incremented
  <2> QED BY <2>1, <1>a, <1>c, <1>d DEF Labels
<1>5. CASE ResultsFetch(h) \/ StatusFetch(h)
  <2>1. \/ \E label \in {"results_voted", "status_publish"} : \E call :
              \/ Goto(h, label, call, [local[h] EXCEPT !.counts = tally])
              \/ Goto(h, label, call, [local[h] EXCEPT !.counts = Zero])
        \/ \E call : Goto(h, "results_init", call, local[h])
    BY <1>5 DEF ResultsFetch, StatusFetch
  <2> QED BY <2>1, <1>a, <1>c, <1>d DEF Labels
<1>6. CASE ListFetch(h)
  <2>1. PICK call : Goto(h, "list_reply", call, [local[h] EXCEPT !.counts = [o \in Options |->
            IF call = "ok" /\ o \in fields THEN tally[o] ELSE local[h].snap[o]]])
    BY <1>6 DEF ListFetch
  <2> DEFINE c == [o \in Options |->
                     IF call = "ok" /\ o \in fields THEN tally[o] ELSE local[h].snap[o]]
  <2>2. c \in Counts /\ \A o \in Options : c[o] \in {tally[o], local[h].snap[o]}
    BY <1>a DEF Counts, MemType
  <2>3. Goto(h, "list_reply", call, [local[h] EXCEPT !.counts = c])
    BY <2>1
  <2> HIDE DEF c
  <2> QED BY <2>2, <2>3, <1>d DEF Labels
<1>7. CASE ResultsLoad(h) \/ ListLoad(h) \/ VoteLoad(h)
  <2>1. [local[h] EXCEPT !.snap = docVotes] \in MemType
        /\ [local[h] EXCEPT !.snap = docVotes].counts = local[h].counts
        /\ [local[h] EXCEPT !.snap = docVotes].snap = docVotes
    BY <1>a DEF MemType
  <2>2. [local[h] EXCEPT !.status = status, !.snap = docVotes] \in MemType
        /\ [local[h] EXCEPT !.status = status, !.snap = docVotes].counts = local[h].counts
        /\ [local[h] EXCEPT !.status = status, !.snap = docVotes].snap = docVotes
    BY <1>a DEF MemType
  <2>3. Reply(h) \/ \E m \in MemType : /\ m.counts = local[h].counts /\ m.snap = docVotes
                                       /\ \E label \in {"results_close", "results_fetch", "list_fetch",
                                                        "vote_close", "vote_check"} :
                                              \E call : Goto(h, label, call, m)
    BY <1>7, <2>1, <2>2 DEF ResultsLoad, ListLoad, VoteLoad, Gate
  <2> QED BY <2>3, <1>b, GotoFacts DEF Labels, Reads
<1>8. CASE InitPollVotes(h)
  BY <1>8, InitGoes DEF Reads
<1> QED BY <1>1, <1>2, <1>3, <1>4, <1>5, <1>6, <1>7, <1>8 DEF Step

(* Whatever a handler has read, of the hash or of the document, is covered *)
(* by recorded votes, which do not go away.                                *)
ShownInv ==
    /\ poll = "none" =>
          /\ event.counts = Zero
          /\ \A h \in Handlers : local[h].counts = Zero /\ local[h].snap = Zero
    /\ poll = "live" => \A o \in Options :
          /\ event.counts[o] <= Cardinality(For(o))
          /\ \A h \in Handlers : /\ local[h].counts[o] <= Cardinality(For(o))
                                 /\ local[h].snap[o] <= Cardinality(For(o))

(* While the poll exists, For(o) only grows, and both stores are below it. *)
LEMMA ForGrows ==
    ASSUME RedisInv, RedisInv', [Next]_vars, poll = "live", poll' = "live", NEW o \in Options
    PROVE  /\ Cardinality(For(o)) \in Nat /\ Cardinality(For(o)') \in Nat
           /\ Cardinality(For(o)) <= Cardinality(For(o)')
           /\ tally[o] \in Nat /\ tally[o] <= Cardinality(For(o))
           /\ docVotes[o] \in Nat /\ docVotes[o] <= Cardinality(For(o))
<1>a. MongoInv /\ MongoInv' /\ tally \in Counts /\ docVotes \in Counts
  BY DEF RedisInv, MongoInv, TypeInv, StoresOK
<1>1. For(o) \subseteq For(o)' /\ For(o)' \subseteq votes' /\ IsFiniteSet(votes')
  BY <1>a, KeptByNext DEF For, MongoInv, VotesOK
<1>2. /\ Cardinality(For(o)) <= Cardinality(For(o)')
      /\ Cardinality(For(o)) \in Nat /\ Cardinality(For(o)') \in Nat
  BY <1>1, FS_Subset, FS_CardinalityType
<1>3. /\ tally[o] + Cardinality(Untallied(o)) <= Cardinality(For(o))
      /\ docVotes[o] + Cardinality(Uncounted(o)) <= Cardinality(For(o))
  BY <1>a DEF RedisInv, MongoInv, RedisNeverOverstates, MongoNeverOverstates
<1>4. Cardinality(Untallied(o)) \in Nat /\ Cardinality(Uncounted(o)) \in Nat
  BY UntalliedFinite, UncountedFinite
<1>5. tally[o] \in Nat /\ docVotes[o] \in Nat
  BY <1>a DEF Counts
<1> QED BY <1>2, <1>3, <1>4, <1>5

LEMMA ShownByStep ==
    ASSUME RedisInv, RedisInv', ShownInv, NEW h \in Handlers, Step(h)
    PROVE  ShownInv'
<1>a. /\ TypeInv /\ TypeInv' /\ CreateOK /\ CreateOK' /\ Reads(h) /\ [Next]_vars
      /\ event'.counts \in {event.counts, local[h].counts}
      /\ \A g \in Handlers \ {h} : local'[g] = local[g]
  BY StepReads, StepKeepsEvent, StepLeads, InitGoes DEF RedisInv, MongoInv, Next
<1>b. poll' = "none" => poll = "none"
  BY StepKeepsPoll DEF CreateInsert, DeleteDoc
<1>c. \A o \in Options : Zero[o] = 0
  BY DEF Zero
<1>1. CASE poll = "none"
  <2>1. docVotes = Zero /\ event.counts = Zero
        /\ \A g \in Handlers : local[g].counts = Zero /\ local[g].snap = Zero
    BY <1>1, <1>a DEF CreateOK, ShownInv
  <2>2. tally = Zero
    BY <1>1 DEF RedisInv, HashOK
  <2>3. local'[h].snap = Zero /\ \A o \in Options : local'[h].counts[o] = 0
    BY <2>1, <2>2, <1>a, <1>c DEF Reads
  <2>4. local'[h].counts = Zero
    <3>1. local'[h].counts \in [Options -> Nat]
      BY <1>a DEF TypeInv, LocalsOK, MemType, Counts
    <3> QED BY <3>1, <2>3 DEF Zero
  <2>5. event'.counts = Zero
        /\ \A g \in Handlers : local'[g].counts = Zero /\ local'[g].snap = Zero
    BY <2>1, <2>3, <2>4, <1>a
  <2>6. \A o \in Options : Cardinality(For(o)') \in Nat
    <3>1. IsFiniteSet(votes') /\ \A o : For(o)' \subseteq votes'
      BY DEF RedisInv, MongoInv, VotesOK, For
    <3> QED BY <3>1, FS_Subset, FS_CardinalityType
  <2> QED BY <2>5, <2>6, <1>c DEF ShownInv
<1>2. CASE poll # "none"
  <2>1. poll' = "live" => poll = "live"
    BY <1>2, <1>a, StepKeepsPoll DEF CreateInsert, DeleteDoc, CreateOK
  <2> SUFFICES ASSUME poll = "live", poll' = "live", NEW o \in Options
               PROVE  /\ event'.counts[o] <= Cardinality(For(o)')
                      /\ \A g \in Handlers : /\ local'[g].counts[o] <= Cardinality(For(o)')
                                             /\ local'[g].snap[o] <= Cardinality(For(o)')
    BY <1>b, <1>2, <2>1 DEF ShownInv
  <2>2. /\ Cardinality(For(o)) \in Nat /\ Cardinality(For(o)') \in Nat
        /\ Cardinality(For(o)) <= Cardinality(For(o)')
        /\ tally[o] \in Nat /\ tally[o] <= Cardinality(For(o))
        /\ docVotes[o] \in Nat /\ docVotes[o] <= Cardinality(For(o))
    BY <1>a, ForGrows
  <2>3. /\ event.counts[o] <= Cardinality(For(o)) /\ event.counts[o] \in Nat
        /\ \A g \in Handlers : /\ local[g].counts[o] <= Cardinality(For(o))
                               /\ local[g].snap[o] <= Cardinality(For(o))
                               /\ local[g].counts[o] \in Nat /\ local[g].snap[o] \in Nat
    BY <1>a DEF ShownInv, TypeInv, StoresOK, LocalsOK, MemType, Counts
  <2>4. \A n \in Nat : n <= Cardinality(For(o)) => n <= Cardinality(For(o)')
    BY <2>2
  <2>5. event'.counts[o] <= Cardinality(For(o)')
    BY <1>a, <2>3, <2>4
  <2>6. local'[h].snap[o] <= Cardinality(For(o)')
    <3>1. local'[h].snap[o] \in {0, local[h].snap[o], docVotes[o]}
      BY <1>a, <1>c DEF Reads
    <3> QED BY <3>1, <2>2, <2>3, <2>4
  <2>7. local'[h].counts[o] <= Cardinality(For(o)')
    <3>1. local'[h].counts[o] \in {0, local[h].counts[o], tally[o], local[h].snap[o]}
      BY <1>a DEF Reads
    <3> QED BY <3>1, <2>2, <2>3, <2>4
  <2> QED BY <1>a, <2>3, <2>4, <2>5, <2>6, <2>7
<1> QED BY <1>1, <1>2

LEMMA ShownNext ==
    ASSUME Reliable
    PROVE  RedisInv /\ RedisInv' /\ ShownInv /\ [Next]_vars => ShownInv'
<1> SUFFICES ASSUME RedisInv, RedisInv', ShownInv, [Next]_vars PROVE ShownInv'
  OBVIOUS
<1>a. TypeInv
  BY DEF RedisInv, MongoInv
<1>b. \A o : IsFiniteSet(For(o)) /\ Cardinality(For(o)) \in Nat
  BY ForFinite DEF RedisInv, MongoInv
<1>c. \A o \in Options : Zero[o] = 0
  BY DEF Zero
<1>1. ASSUME UNCHANGED <<poll, votes>>, event'.counts = event.counts,
             \A h \in Handlers : /\ local'[h].counts \in {local[h].counts, Zero}
                                 /\ local'[h].snap \in {local[h].snap, Zero}
      PROVE  ShownInv'
  <2>1. \A o : For(o)' = For(o)
    BY <1>1 DEF For
  <2> QED BY <2>1, <1>1, <1>b, <1>c DEF ShownInv
<1>2. ASSUME NEW h \in Handlers, Step(h) PROVE ShownInv'
  BY <1>2, ShownByStep
<1>3. ASSUME NEW h \in Handlers, Request(h) \/ Disconnect(h) PROVE ShownInv'
  <2>1. /\ UNCHANGED <<poll, votes, event>>
        /\ \A g \in Handlers : /\ local'[g].counts \in {local[g].counts, Zero}
                               /\ local'[g].snap \in {local[g].snap, Zero}
    BY <1>3, <1>a, RequestFacts, DisconnectFacts DEF mongoVars
  <2> QED BY <2>1, <1>1
<1>4. CASE Restart
  <2>1. UNCHANGED <<poll, votes, event>>
    BY <1>4 DEF Restart
  <2>2. \A g \in Handlers : local'[g].counts = Zero /\ local'[g].snap = Zero
    BY <1>4, RestartFacts, IdleFacts
  <2> QED BY <2>1, <2>2, <1>1
<1>5. CASE Expire \/ EnsureIndexes \/ TTLElapses \/ UNCHANGED vars
  <2>1. UNCHANGED <<poll, votes, event, local>>
    BY <1>5 DEF Expire, EnsureIndexes, TTLElapses, Reliable, vars, mongoVars
  <2> QED BY <2>1, <1>1
<1> QED BY <1>2, <1>3, <1>4, <1>5 DEF Next

(* Under the same assumption no page and no event overstates: not with a   *)
(* count read before other votes, nor with one from a stale document.      *)
THEOREM ShownAreRecorded ==
    ASSUME Reliable
    PROVE  Spec => []ShownIsRecorded
<1>1. Init => ShownInv
  <2> SUFFICES ASSUME Init PROVE ShownInv
    OBVIOUS
  <2>1. \A h \in Handlers : local[h].counts = Zero /\ local[h].snap = Zero
    BY IdleFacts DEF Init
  <2> QED BY <2>1 DEF Init, ShownInv, NoEvent
<1>2. ShownInv => ShownIsRecorded
  BY DEF ShownInv, ShownIsRecorded
<1> QED BY <1>1, <1>2, ShownNext, RedisInit, RedisNext, PTL DEF Spec

-----------------------------------------------------------------------------
(* Without faults both stores agree with the votes.                        *)
Faultless == Env \subseteq {"expiry", "late_index"}

Exact ==
    /\ \A h \in Handlers : local[h].client = "there"
    /\ poll = "live" => \A o \in Options :
          /\ Cardinality(For(o)) <= docVotes[o] + Cardinality(Uncounted(o))
          /\ Cardinality(For(o)) <= tally[o] + Cardinality(Untallied(o))

LEMMA FaultlessCalls ==
    ASSUME Faultless, NEW h \in Handlers, local[h].client = "there"
    PROVE  MongoCall(h) = {"ok"} /\ RedisCall(h) = {"ok"} /\ Reliable
<1>1. Faults("mongo") = {} /\ Faults("redis") = {} /\ "gone" \notin Env
  BY DEF Faultless, Faults
<1>2. Reliable
  BY DEF Faultless, Reliable
<1> QED BY <1>1, <1>2 DEF MongoCall, RedisCall, Left

(* What the sets of votes in flight are after a step of handler h.         *)
LEMMA FlightAfter ==
    ASSUME NEW h \in Handlers, \A g \in Handlers \ {h} : local'[g] = local[g], NEW o
    PROVE  /\ Uncounted(o)' = IF local'[h].pc = "vote_count" /\ local'[h].opt = o
                                THEN Uncounted(o) \union {h} ELSE Uncounted(o) \ {h}
           /\ Untallied(o)' = IF /\ local'[h].pc \in {"vote_count", "vote_incr"}
                                 /\ local'[h].attempt = 1 /\ local'[h].opt = o
                                THEN Untallied(o) \union {h} ELSE Untallied(o) \ {h}
<1>1. \A g : g \in Uncounted(o)' <=>
        \/ g = h /\ local'[h].pc = "vote_count" /\ local'[h].opt = o
        \/ g # h /\ g \in Uncounted(o)
  BY DEF Uncounted, At
<1>2. \A g : g \in Untallied(o)' <=>
        \/ /\ g = h /\ local'[h].pc \in {"vote_count", "vote_incr"}
           /\ local'[h].attempt = 1 /\ local'[h].opt = o
        \/ g # h /\ g \in Untallied(o)
  BY DEF Untallied
<1>3. Uncounted(o)' = IF local'[h].pc = "vote_count" /\ local'[h].opt = o
                        THEN Uncounted(o) \union {h} ELSE Uncounted(o) \ {h}
  BY <1>1
<1>4. Untallied(o)' = IF /\ local'[h].pc \in {"vote_count", "vote_incr"}
                         /\ local'[h].attempt = 1 /\ local'[h].opt = o
                        THEN Untallied(o) \union {h} ELSE Untallied(o) \ {h}
  BY <1>2
<1> QED BY <1>3, <1>4

(* A step that records no vote and counts none, and neither starts nor     *)
(* ends a vote in flight.                                                  *)
LEMMA SameFlight ==
    ASSUME NEW h \in Handlers, \A g \in Handlers \ {h} : local'[g] = local[g],
           local[h].pc \notin {"vote_count", "vote_incr"},
           local'[h].pc \notin {"vote_count", "vote_incr"}, votes' = votes, NEW o
    PROVE  Uncounted(o)' = Uncounted(o) /\ Untallied(o)' = Untallied(o) /\ For(o)' = For(o)
BY DEF Uncounted, Untallied, At, For

LEMMA ExactByRecord ==
    ASSUME Faultless, RedisInv, Exact, NEW h \in Handlers, Step(h), VoteRecord(h),
           local'[h].client = "there"
    PROVE  Exact'
<1>a. /\ TypeInv /\ MongoInv /\ local[h].client = "there" /\ HandlerOK(h)
      /\ UNCHANGED <<poll, tally, docVotes>> /\ local[h].pc = "vote_record"
      /\ local[h] \in MemType
  BY RecordFacts DEF Exact, RedisInv, MongoInv, HashOK, TypeInv, LocalsOK
<1>b. /\ \A g \in Handlers \ {h} : local'[g] = local[g]
      /\ \/ local'[h].pc = "idle"
         \/ /\ local'[h].pc = "vote_count" /\ local'[h].opt = local[h].opt
            /\ local'[h].attempt = local[h].attempt
  <2>1. ~InitPollVotes(h)
    BY <1>a, InitGoes
  <2> QED BY <2>1, <1>a, StepLeads, IdleFacts DEF Travels, Leads
<1>c. local[h].attempt = 1
  BY <1>a DEF HandlerOK, MemType
<1>d. \A g \in Handlers : local'[g].client = "there"
  BY <1>b DEF Exact
<1>1. CASE votes' = votes
  <2>1. local'[h].pc = "idle"
    BY <1>1, <1>a, <1>b, RecordFacts
  <2>2. \A o : Uncounted(o)' = Uncounted(o) /\ Untallied(o)' = Untallied(o) /\ For(o)' = For(o)
    BY <1>1, <1>a, <1>b, <2>1, SameFlight
  <2> QED BY <2>2, <1>a, <1>d DEF Exact
<1>2. CASE votes' # votes
  <2>1. PICK r \in Ballots : r \notin votes /\ r.opt = local[h].opt /\ votes' = votes \union {r}
    BY <1>2, <1>a, RecordFacts
  <2>2. local'[h].pc = "vote_count"
    <3>1. MongoCall(h) = {"ok"}
      BY <1>a, FaultlessCalls
    <3>2. Goto(h, "vote_count", "ok", local[h])
      BY <1>2, <3>1 DEF VoteRecord, Recorded
    <3> QED BY <3>2, <1>a, GotoFacts DEF Labels
  <2> SUFFICES ASSUME poll = "live", NEW o \in Options
               PROVE  /\ Cardinality(For(o)') <= docVotes[o] + Cardinality(Uncounted(o)')
                      /\ Cardinality(For(o)') <= tally[o] + Cardinality(Untallied(o)')
    BY <1>a, <1>d DEF Exact
  <2>3. /\ Cardinality(For(o)) <= docVotes[o] + Cardinality(Uncounted(o))
        /\ Cardinality(For(o)) <= tally[o] + Cardinality(Untallied(o))
    BY DEF Exact
  <2>4. /\ IsFiniteSet(For(o)) /\ IsFiniteSet(Uncounted(o)) /\ IsFiniteSet(Untallied(o))
        /\ Cardinality(For(o)) \in Nat /\ Cardinality(Uncounted(o)) \in Nat
        /\ Cardinality(Untallied(o)) \in Nat /\ docVotes[o] \in Nat /\ tally[o] \in Nat
    BY <1>a, ForFinite, UncountedFinite, UntalliedFinite DEF MongoInv, TypeInv, StoresOK, Counts
  <2>5. h \notin Uncounted(o) /\ h \notin Untallied(o)
    BY <1>a DEF Uncounted, Untallied, At
  <2>6. CASE o = local[h].opt
    <3>1. For(o)' = For(o) \union {r} /\ r \notin For(o)
      BY <2>1, <2>6 DEF For
    <3>2. Uncounted(o)' = Uncounted(o) \union {h} /\ Untallied(o)' = Untallied(o) \union {h}
      BY <1>b, <1>c, <2>2, <2>6, FlightAfter, IdleFacts
    <3>3. /\ Cardinality(For(o)') = Cardinality(For(o)) + 1
          /\ Cardinality(Uncounted(o)') = Cardinality(Uncounted(o)) + 1
          /\ Cardinality(Untallied(o)') = Cardinality(Untallied(o)) + 1
      BY <2>4, <2>5, <3>1, <3>2, FS_AddElement
    <3> QED BY <2>3, <2>4, <3>3
  <2>7. CASE o # local[h].opt
    <3>1. For(o)' = For(o)
      BY <2>1, <2>7 DEF For
    <3>2. Uncounted(o)' = Uncounted(o) /\ Untallied(o)' = Untallied(o)
      <4>1. local'[h].opt # o
        BY <1>b, <2>2, <2>7
      <4>2. Uncounted(o)' = Uncounted(o) \ {h} /\ Untallied(o)' = Untallied(o) \ {h}
        BY <4>1, <1>b, FlightAfter
      <4> QED BY <4>2, <2>5
    <3> QED BY <2>3, <3>1, <3>2
  <2> QED BY <2>6, <2>7
<1> QED BY <1>1, <1>2

(* UpdateOptionVoteCount and IncrementVote: the vote counted is the one    *)
(* that leaves the flight.                                                 *)
LEMMA ExactByCount ==
    ASSUME Faultless, RedisInv, Exact, NEW h \in Handlers, Step(h), VoteCount(h) \/ VoteIncr(h),
           local'[h].client = "there"
    PROVE  Exact'
<1>a. /\ TypeInv /\ MongoInv /\ local[h].client = "there" /\ HandlerOK(h)
      /\ MongoCall(h) = {"ok"} /\ RedisCall(h) = {"ok"}
      /\ local[h] \in MemType /\ docVotes \in Counts /\ tally \in Counts
  BY FaultlessCalls DEF Exact, RedisInv, MongoInv, HashOK, TypeInv, StoresOK, LocalsOK
<1>b. /\ UNCHANGED <<poll, votes>> /\ local[h].pc \in {"vote_count", "vote_incr"}
      /\ local[h].pc = "vote_count" => local'[h].pc = "vote_incr"
      /\ local[h].pc = "vote_incr" => local'[h].pc \notin {"vote_count", "vote_incr"}
      /\ local'[h].opt = local[h].opt /\ local'[h].attempt = local[h].attempt
      /\ \A g \in Handlers \ {h} : local'[g] = local[g]
  <2>1. UNCHANGED <<poll, votes>> /\ local[h].pc \in {"vote_count", "vote_incr"}
    BY DEF VoteCount, VoteIncr, mongoVars, At
  <2>2. /\ VoteCount(h) => Goto(h, "vote_incr", "ok", local[h])
        /\ VoteIncr(h) => Goto(h, "vote_fetch", "ok", local[h])
    BY <1>a DEF VoteCount, VoteIncr, Incremented
  <2>3. "vote_incr" \in Labels /\ "vote_fetch" \in Labels
    BY DEF Labels
  <2>4. VoteCount(h) => local[h].pc = "vote_count"
    BY DEF VoteCount, At
  <2>5. VoteIncr(h) => local[h].pc = "vote_incr"
    BY DEF VoteIncr, At
  <2> QED BY <2>1, <2>2, <2>3, <2>4, <2>5, <1>a, GotoFacts
<1>c. local[h].attempt = 1 /\ local[h].opt \in Options
  BY <1>a, <1>b DEF HandlerOK, MemType
<1>d. \A g \in Handlers : local'[g].client = "there"
  BY <1>b DEF Exact
<1> SUFFICES ASSUME poll = "live", NEW o \in Options
             PROVE  /\ Cardinality(For(o)') <= docVotes'[o] + Cardinality(Uncounted(o)')
                    /\ Cardinality(For(o)') <= tally'[o] + Cardinality(Untallied(o)')
  BY <1>b, <1>d DEF Exact
<1>1. /\ Cardinality(For(o)) <= docVotes[o] + Cardinality(Uncounted(o))
      /\ Cardinality(For(o)) <= tally[o] + Cardinality(Untallied(o))
  BY DEF Exact
<1>2. /\ IsFiniteSet(Uncounted(o)) /\ IsFiniteSet(Untallied(o))
      /\ Cardinality(For(o)) \in Nat /\ Cardinality(Uncounted(o)) \in Nat
      /\ Cardinality(Untallied(o)) \in Nat /\ docVotes[o] \in Nat /\ tally[o] \in Nat
  BY <1>a, ForFinite, UncountedFinite, UntalliedFinite DEF MongoInv, Counts
<1>3. For(o)' = For(o)
  BY <1>b DEF For
<1>4. CASE VoteCount(h)
  <2>1. local[h].pc = "vote_count" /\ tally' = tally
        /\ docVotes' = [docVotes EXCEPT ![local[h].opt] = @ + 1]
    BY <1>4, <1>a DEF VoteCount, At, hashVars
  <2>2. Untallied(o)' = Untallied(o)
    BY <2>1, <1>b, <1>c DEF Untallied
  <2>3. Uncounted(o)' = Uncounted(o) \ {h}
    BY <2>1, <1>b, FlightAfter
  <2>4. CASE o = local[h].opt
    <3>1. h \in Uncounted(o)
      BY <2>1, <2>4 DEF Uncounted, At
    <3>2. Cardinality(Uncounted(o)') = Cardinality(Uncounted(o)) - 1
      BY <2>3, <3>1, <1>2, FS_RemoveElement
    <3>3. docVotes'[o] = docVotes[o] + 1
      BY <2>1, <2>4, <1>a DEF Counts
    <3> QED BY <1>1, <1>2, <1>3, <2>1, <2>2, <3>2, <3>3
  <2>5. CASE o # local[h].opt
    <3>1. Uncounted(o)' = Uncounted(o) /\ docVotes'[o] = docVotes[o]
      BY <2>1, <2>3, <2>5, <1>a DEF Uncounted, Counts
    <3> QED BY <1>1, <1>3, <2>1, <2>2, <3>1
  <2> QED BY <2>4, <2>5
<1>5. CASE VoteIncr(h)
  <2>1. local[h].pc = "vote_incr" /\ docVotes' = docVotes
        /\ tally' = [tally EXCEPT ![local[h].opt] = @ + 1]
    BY <1>5, <1>a DEF VoteIncr, At, mongoVars, HIncrBy
  <2>2. Uncounted(o)' = Uncounted(o)
    BY <2>1, <1>b DEF Uncounted, At
  <2>3. Untallied(o)' = Untallied(o) \ {h}
    BY <2>1, <1>b, FlightAfter
  <2>4. CASE o = local[h].opt
    <3>1. h \in Untallied(o)
      BY <2>1, <2>4, <1>c DEF Untallied
    <3>2. Cardinality(Untallied(o)') = Cardinality(Untallied(o)) - 1
      BY <2>3, <3>1, <1>2, FS_RemoveElement
    <3>3. tally'[o] = tally[o] + 1
      BY <2>1, <2>4, <1>a DEF Counts
    <3> QED BY <1>1, <1>2, <1>3, <2>1, <2>2, <3>2, <3>3
  <2>5. CASE o # local[h].opt
    <3>1. Untallied(o)' = Untallied(o) /\ tally'[o] = tally[o]
      BY <2>1, <2>3, <2>5, <1>a DEF Untallied, Counts
    <3> QED BY <1>1, <1>3, <2>1, <2>2, <3>1
  <2> QED BY <2>4, <2>5
<1> QED BY <1>4, <1>5

LEMMA ExactByStep ==
    ASSUME Faultless, RedisInv, RedisInv', Exact, NEW h \in Handlers, Step(h)
    PROVE  Exact'
<1>a. /\ TypeInv
      /\ MongoInv /\ CreateOK /\ CreateOK' /\ local[h].client = "there" /\ HandlerOK(h)
      /\ MongoCall(h) = {"ok"}
      /\ InitPollVotes(h) => local[h].pc = "create_init"
  <2>1. local[h].client = "there" /\ HandlerOK(h)
        /\ TypeInv /\ MongoInv /\ CreateOK /\ CreateOK'
    BY DEF Exact, RedisInv, MongoInv, HashOK
  <2>2. InitPollVotes(h) => local[h].pc = "create_init"
    BY <2>1, InitGoes DEF HandlerOK
  <2> QED BY <2>1, <2>2, FaultlessCalls
<1>b. /\ \A g \in Handlers \ {h} : local'[g] = local[g]
      /\ local'[h].client = "there"
      /\ local'[h].pc \in {"vote_count", "vote_incr"} =>
            local[h].pc \in {"vote_record", "vote_count"}
  <2>1. CASE InitPollVotes(h)
    <3>1. local'[h].pc \notin {"vote_count", "vote_incr"}
      BY <2>1, <1>a, InitGoes DEF InitGoesOn, InitEnds
    <3> QED BY <2>1, <3>1, <1>a, InitGoes
  <2>2. CASE ~InitPollVotes(h)
    <3>1. MongoCall(h) = {"ok"}
      BY <1>a, FaultlessCalls
    <3> QED BY <2>2, <3>1, <1>a, StepLeads, IdleFacts DEF Travels, Leads
  <2> QED BY <2>1, <2>2
<1>c. \A g \in Handlers : local'[g].client = "there"
  BY <1>b DEF Exact
<1>1. CASE VoteRecord(h)
  BY <1>1, <1>b, ExactByRecord
<1>2. CASE VoteCount(h) \/ VoteIncr(h)
  BY <1>2, <1>b, ExactByCount
<1>3. CASE poll = "none"
  <2>1. poll' = "live" => local[h].pc = "create_insert"
    BY <1>3, <1>a, StepKeepsPoll DEF CreateInsert, DeleteDoc, At
  <2> SUFFICES ASSUME poll' = "live", NEW o \in Options
               PROVE  /\ Cardinality(For(o)') <= docVotes'[o] + Cardinality(Uncounted(o)')
                      /\ Cardinality(For(o)') <= tally'[o] + Cardinality(Untallied(o)')
    BY <1>c DEF Exact
  <2>2. votes' = {}
    <3>1. votes = {} /\ local[h].pc = "create_insert"
      BY <1>3, <1>a, <2>1 DEF CreateOK
    <3> QED BY <3>1, StepKeepsVotes DEF VoteRecord, DeleteVotes, At
  <2>3. Cardinality(For(o)') = 0
    <3>1. For(o)' = {}
      BY <2>2 DEF For
    <3> QED BY <3>1, FS_EmptySet
  <2>4. docVotes'[o] \in Nat /\ tally'[o] \in Nat
    BY DEF RedisInv, MongoInv, TypeInv, StoresOK, Counts
  <2>5. Cardinality(Uncounted(o)') \in Nat /\ Cardinality(Untallied(o)') \in Nat
    <3>1. Uncounted(o)' \subseteq Handlers /\ Untallied(o)' \subseteq Handlers
      BY DEF Uncounted, Untallied
    <3> QED BY <3>1, FS_Subset, FS_CardinalityType, HandlersAssumption
  <2> QED BY <2>3, <2>4, <2>5
<1>4. CASE poll' # "live"
  BY <1>4, <1>c DEF Exact
<1>5. CASE /\ ~VoteRecord(h) /\ ~VoteCount(h) /\ ~VoteIncr(h)
           /\ poll # "none" /\ poll' = "live"
  <2>1. poll = "live"
    BY <1>5, <1>a, StepKeepsPoll DEF CreateInsert, DeleteDoc, CreateOK
  <2>2. votes' = votes
    <3>1. ~DeleteVotes(h)
      BY <2>1, <1>a DEF DeleteVotes, CreateOK
    <3> QED BY <3>1, <1>5, StepKeepsVotes
  <2>3. tally' = tally /\ docVotes' = docVotes
    BY <1>5, <1>a, StepKeepsTally, StepKeepsDoc, InitIsHarmless
       DEF RedisInv, Faultless, Reliable
  <2>4. local[h].pc \notin {"vote_record", "vote_count", "vote_incr"}
    BY <1>5, StepIs
  <2>5. \A o : Uncounted(o)' = Uncounted(o) /\ Untallied(o)' = Untallied(o) /\ For(o)' = For(o)
    BY <1>b, <2>2, <2>4, SameFlight
  <2> QED BY <1>c, <2>1, <2>3, <2>5 DEF Exact
<1> QED BY <1>1, <1>2, <1>3, <1>4, <1>5

LEMMA ExactNext ==
    ASSUME Faultless
    PROVE  RedisInv /\ RedisInv' /\ Exact /\ [Next]_vars => Exact'
<1> SUFFICES ASSUME RedisInv, RedisInv', Exact, [Next]_vars PROVE Exact'
  OBVIOUS
<1>a. TypeInv
  BY DEF RedisInv, MongoInv
<1>1. ASSUME NEW h \in Handlers, Step(h) PROVE Exact'
  BY <1>1, ExactByStep
<1>2. ASSUME NEW h \in Handlers, Request(h) PROVE Exact'
  <2>1. /\ UNCHANGED <<poll, votes, docVotes, tally>> /\ local'[h].client = "there"
        /\ \A g \in Handlers \ {h} : local'[g] = local[g]
        /\ local[h].pc \notin {"vote_count", "vote_incr"}
        /\ local'[h].pc \notin {"vote_count", "vote_incr"}
    BY <1>2, <1>a, RequestFacts DEF mongoVars, hashVars, FirstLabels
  <2>2. \A o : Uncounted(o)' = Uncounted(o) /\ Untallied(o)' = Untallied(o) /\ For(o)' = For(o)
    BY <2>1, SameFlight
  <2> QED BY <2>1, <2>2 DEF Exact
<1>3. ~Restart /\ ~TTLElapses /\ \A h \in Handlers : ~Disconnect(h)
  BY DEF Restart, TTLElapses, Disconnect, Faultless
<1>4. CASE Expire \/ EnsureIndexes \/ UNCHANGED vars
  <2>1. UNCHANGED <<poll, votes, docVotes, tally, local>>
    BY <1>4 DEF Expire, EnsureIndexes, vars, mongoVars, hashVars
  <2>2. \A o : Uncounted(o)' = Uncounted(o) /\ Untallied(o)' = Untallied(o) /\ For(o)' = For(o)
    BY <2>1 DEF Uncounted, Untallied, For, At
  <2> QED BY <2>1, <2>2 DEF Exact
<1> QED BY <1>1, <1>2, <1>3, <1>4 DEF Next

(* Without faults each of the two counts, the votes on their way to it     *)
(* added, is the number of recorded votes: for any number of concurrent    *)
(* votes, readers, deletions and changes of the status.                    *)
THEOREM StoresDoAgree ==
    ASSUME Faultless
    PROVE  Spec => []StoresAgree
<1>1. Init => Exact
  <2> SUFFICES ASSUME Init PROVE Exact
    OBVIOUS
  <2>1. \A h \in Handlers : local[h].client = "there"
    BY IdleFacts DEF Init
  <2> QED BY <2>1 DEF Init, Exact
<1>2. Reliable
  BY DEF Faultless, Reliable
<1>3. RedisInv /\ Exact => StoresAgree
  <2> SUFFICES ASSUME RedisInv, Exact, poll = "live", NEW o \in Options
               PROVE  /\ docVotes[o] + Cardinality(Uncounted(o)) = Cardinality(For(o))
                      /\ tally[o] + Cardinality(Untallied(o)) = Cardinality(For(o))
    BY DEF StoresAgree
  <2>1. /\ Cardinality(For(o)) \in Nat /\ Cardinality(Uncounted(o)) \in Nat
        /\ Cardinality(Untallied(o)) \in Nat /\ docVotes[o] \in Nat /\ tally[o] \in Nat
    BY ForFinite, UncountedFinite, UntalliedFinite
       DEF RedisInv, MongoInv, TypeInv, StoresOK, Counts
  <2> QED BY <2>1 DEF Exact, RedisInv, MongoInv, MongoNeverOverstates, RedisNeverOverstates
<1> QED BY <1>1, <1>2, <1>3, ExactNext, RedisInit, RedisNext, PTL DEF Spec

-----------------------------------------------------------------------------
(* The tally never goes back.  An option without a field has no votes, so  *)
(* that HSETNX, with however old a copy, only ever sets 0 to a count.      *)
Unset == \A o \in Options : o \notin fields => tally[o] = 0

LEMMA UnsetNext ==
    ASSUME TypeInv, Unset, [Next]_vars
    PROVE  /\ Unset'
           /\ fields' # {} => \A o \in Options : tally'[o] >= tally[o]
<1>a. tally \in Counts /\ \A o \in Options : tally[o] \in Nat /\ tally[o] >= tally[o]
  BY DEF TypeInv, StoresOK, Counts
<1>1. UNCHANGED <<fields, tally>> => /\ Unset'
                                     /\ \A o \in Options : tally'[o] >= tally[o]
  BY <1>a DEF Unset
<1>2. fields' = {} /\ tally' = Zero => Unset'
  BY DEF Unset, Zero
<1>3. ASSUME NEW h \in Handlers, InitPollVotes(h), ~UNCHANGED <<fields, tally>>
      PROVE  Unset' /\ \A o \in Options : tally'[o] >= tally[o]
  <2> DEFINE i == local[h].idx
             n == local[h].snap[i]
  <2>a. local[h] \in MemType /\ NumOptions \in Nat
    BY OptionsAssumption DEF TypeInv, LocalsOK
  <2>1. HSetNX(i, n) /\ ~(i > NumOptions)
    <3>1. PICK call \in InitCall(h) :
            CASE call = "failed" -> UNCHANGED hashVars
              [] call # "failed" /\ ~(i > NumOptions) -> HSetNX(i, n)
              [] call # "failed" /\ i > NumOptions ->
                    /\ ttl' = IF fields = {} THEN ttl ELSE "set"
                    /\ UNCHANGED <<fields, tally>>
      BY <1>3 DEF InitPollVotes
    <3> HIDE DEF i, n
    <3>2. CASE call = "failed"
      BY <1>3, <3>1, <3>2 DEF hashVars
    <3>3. CASE call # "failed" /\ i > NumOptions
      BY <1>3, <3>1, <3>3
    <3>4. CASE call # "failed" /\ ~(i > NumOptions)
      BY <3>1, <3>4
    <3> QED BY <3>2, <3>3, <3>4
  <2>2. i \in Options /\ n \in Nat
    BY <2>1, <2>a DEF MemType, Counts, Options
  <2> HIDE DEF i, n
  <2> QED BY <1>a, <2>1, <2>2 DEF HSetNX, Unset, Counts
<1>4. ASSUME NEW h \in Handlers, VoteIncr(h), ~UNCHANGED <<fields, tally>>
      PROVE  Unset' /\ \A o \in Options : tally'[o] >= tally[o]
  <2> DEFINE i == local[h].opt
  <2>1. HIncrBy(i)
    BY <1>4 DEF VoteIncr, hashVars
  <2>2. i \in Options
    BY DEF TypeInv, LocalsOK, MemType
  <2> HIDE DEF i
  <2> QED BY <1>a, <2>1, <2>2 DEF HIncrBy, Unset, Counts
<1>5. ASSUME NEW h \in Handlers, Step(h)
      PROVE  Unset' /\ \A o \in Options : tally'[o] >= tally[o]
  BY <1>1, <1>3, <1>4, <1>5, StepKeepsTally
<1>6. ASSUME NEW h \in Handlers, Request(h) \/ Disconnect(h)
      PROVE  UNCHANGED <<fields, tally>>
  BY <1>6, RequestFacts, DisconnectFacts DEF hashVars
<1>7. Restart \/ TTLElapses =>
        \/ UNCHANGED <<fields, tally>>
        \/ fields' = {} /\ tally' = Zero
  BY DEF Restart, TTLElapses, hashVars
<1>8. Expire \/ EnsureIndexes \/ UNCHANGED vars => UNCHANGED <<fields, tally>>
  BY DEF Expire, EnsureIndexes, vars, hashVars
<1> QED BY <1>1, <1>2, <1>5, <1>6, <1>7, <1>8 DEF Next

(* With every fault, the live tally of an option never goes back, unless   *)
(* the whole hash is lost.                                                 *)
THEOREM TallyRises == Spec => TallyMonotonic
<1>1. Init => Unset
  BY DEF Init, Unset, Zero
<1>2. TypeInv /\ Unset /\ [Next]_vars => Unset'
  BY UnsetNext
<1>3. TypeInv /\ Unset /\ [Next]_vars =>
        [fields' # {} => \A o \in Options : tally'[o] >= tally[o]]_vars
  BY UnsetNext
<1> QED BY <1>1, <1>2, <1>3, InitType, NextType, PTL DEF Spec, TallyMonotonic

-----------------------------------------------------------------------------
(* The life of the document: what OwnedPolls takes for one step is one.    *)
LEMMA LifeByNext ==
    ASSUME MongoInv, [Next]_vars
    PROVE  \/ poll = "none" /\ poll' = "live" /\ status' = status
           \/ poll = "live" /\ poll' = "live"
           \/ poll = "live" /\ poll' = "deleted" /\ status' = status
           \/ UNCHANGED <<poll, status>>
<1> DEFINE Lives ==
      \/ poll = "none" /\ poll' = "live" /\ status' = status
      \/ poll = "live" /\ poll' = "live"
      \/ poll = "live" /\ poll' = "deleted" /\ status' = status
      \/ UNCHANGED <<poll, status>>
<1>a. CreateOK /\ poll \in {"none", "live", "deleted"}
  BY DEF MongoInv, TypeInv, StoresOK
<1>1. ASSUME NEW h \in Handlers, Step(h) PROVE Lives
  <2>1. CASE CreateInsert(h)
    <3>1. poll = "none" /\ poll' \in {poll, "live"} /\ status' = status
      BY <2>1, <1>a DEF CreateInsert, CreateOK
    <3> QED BY <3>1
  <2>2. CASE DeleteDoc(h)
    <3>1. poll # "none" /\ poll' \in {poll, "deleted"} /\ status' = status
      BY <2>2, <1>a DEF DeleteDoc, CreateOK, At
    <3> QED BY <3>1, <1>a
  <2>3. CASE AutoClose(h) \/ StatusUpdate(h)
    BY <2>3, <1>a DEF AutoClose, StatusUpdate, UpdatePollStatus
  <2>4. CASE ~CreateInsert(h) /\ ~DeleteDoc(h) /\ ~AutoClose(h) /\ ~StatusUpdate(h)
    BY <1>1, <2>4 DEF Step, mongoVars, CreateReply, InitPollVotes, VoteLoad, VoteCheck,
       VoteRecord, VoteCount, VoteIncr, VoteFetch, VotePublish, ResultsLoad,
       ResultsFetch, ResultsVoted, ShareLoad, ListLoad, ListFetch, ListReply,
       StatusLoad, StatusFetch, StatusPublish, DeleteVotes
  <2> QED BY <2>1, <2>2, <2>3, <2>4
<1>2. ASSUME NEW h \in Handlers, Request(h) \/ Disconnect(h) PROVE Lives
  BY <1>2, RequestFacts, DisconnectFacts DEF MongoInv, mongoVars
<1>3. CASE Expire \/ EnsureIndexes \/ TTLElapses \/ Restart \/ UNCHANGED vars
  BY <1>3 DEF Expire, EnsureIndexes, TTLElapses, Restart, vars, mongoVars
<1> QED BY <1>1, <1>2, <1>3 DEF Next

(* A poll is inserted as an active one.                                    *)
LifeInv == MongoInv /\ (poll = "none" => status = "active")

(* The document of the poll is inserted once, changed only while it is     *)
(* there, and deleted for good, also by closings and status changes that   *)
(* come after DeletePoll: each request of the owner takes effect in one    *)
(* step, as the models of the pages have it.                               *)
THEOREM RequestsAreOneStep == Spec => OneStepRequests
<1>1. Init => LifeInv
  BY MongoInit DEF Init, LifeInv
<1>2. LifeInv /\ [Next]_vars => LifeInv'
  BY MongoNext, LifeByNext DEF LifeInv
<1>3. LifeInv /\ [Next]_vars =>
        [\/ poll = "none" /\ poll' = "live" /\ status' = "active"
         \/ poll = "live" /\ poll' = "live"
         \/ poll = "live" /\ poll' = "deleted" /\ status' = status]_<<poll, status>>
  BY LifeByNext DEF LifeInv
<1> QED BY <1>1, <1>2, <1>3, PTL DEF Spec, OneStepRequests

-----------------------------------------------------------------------------
(* The end of a request.  Rank is StepsLeft of what a handler has read.    *)
Rank(mem) == Ahead[mem.pc] + Detour(mem)

LEMMA AheadFacts ==
    /\ Ahead["idle"] = 0
    /\ Ahead["create_insert"] = NumOptions + 3 /\ Ahead["create_init"] = 1
    /\ Ahead["create_reply"] = 1
    /\ Ahead["vote_load"] = 7 /\ Ahead["vote_close"] = 1 /\ Ahead["vote_check"] = 6
    /\ Ahead["vote_record"] = 5 /\ Ahead["vote_count"] = 4 /\ Ahead["vote_incr"] = 3
    /\ Ahead["vote_fetch"] = 2 /\ Ahead["vote_init"] = 3 /\ Ahead["vote_publish"] = 1
    /\ Ahead["results_load"] = 4 /\ Ahead["results_close"] = 3
    /\ Ahead["results_fetch"] = 2 /\ Ahead["results_init"] = 2
    /\ Ahead["results_voted"] = 1
    /\ Ahead["share_load"] = 2 /\ Ahead["share_close"] = 1
    /\ Ahead["list_load"] = 3 /\ Ahead["list_fetch"] = 2 /\ Ahead["list_reply"] = 1
    /\ Ahead["status_update"] = 4 /\ Ahead["status_load"] = 3
    /\ Ahead["status_fetch"] = 2 /\ Ahead["status_publish"] = 1
    /\ Ahead["delete_doc"] = 2 /\ Ahead["delete_votes"] = 1
BY DEF Ahead

LEMMA DetourFacts ==
    ASSUME NEW mem \in MemType
    PROVE  /\ mem.pc \in {"create_init", "vote_init", "results_init"} =>
                Detour(mem) = NumOptions + 2 - mem.idx
           /\ mem.pc \in BeforeDetour /\ mem.attempt = 1 => Detour(mem) = NumOptions + 3
           /\ mem.pc \in BeforeDetour /\ mem.attempt = 2 => Detour(mem) = 0
           /\ mem.pc \notin {"create_init", "vote_init", "results_init"} \union BeforeDetour
                => Detour(mem) = 0
<1>1. DOMAIN AfterInit = {"create_init", "vote_init", "results_init"}
  BY DEF AfterInit
<1>2. {"create_init", "vote_init", "results_init"} \cap BeforeDetour = {}
  BY DEF BeforeDetour
<1> QED BY <1>1, <1>2 DEF Detour

LEMMA RankBounds ==
    ASSUME NEW mem \in MemType
    PROVE  /\ Detour(mem) \in Nat /\ Rank(mem) \in Nat
           /\ (mem.pc = "idle") => Rank(mem) = 0
           /\ (mem.pc # "idle") => Rank(mem) > 0
<1>1. /\ mem.idx \in 1..(NumOptions + 1) /\ mem.attempt \in {1, 2} /\ mem.pc \in Labels
      /\ NumOptions \in Nat
  BY OptionsAssumption DEF MemType
<1>2. Detour(mem) \in Nat /\ (mem.pc = "idle" => Detour(mem) = 0)
  <2>1. "idle" \notin {"create_init", "vote_init", "results_init"} \union BeforeDetour
    BY DEF BeforeDetour
  <2> QED BY <1>1, <2>1, DetourFacts
<1>3. /\ Ahead[mem.pc] \in Nat /\ (mem.pc = "idle" => Ahead[mem.pc] = 0)
      /\ (mem.pc # "idle" => Ahead[mem.pc] > 0)
  BY <1>1, AheadFacts DEF Labels
<1> QED BY <1>2, <1>3 DEF Rank

(* A request goes through InitPollVotes in its first attempt only.         *)
LEMMA DetourOnce ==
    ASSUME TypeInv, NEW h \in Handlers, Step(h), ~InitPollVotes(h),
           local'[h].pc \in {"vote_init", "results_init"}
    PROVE  local[h].attempt = 1
<1>a. local[h] \in MemType /\ tally \in Counts /\ Zero \in Counts
  BY DEF TypeInv, LocalsOK, StoresOK, Zero, Counts
<1>b. local[h].attempt \in {1, 2}
  BY <1>a DEF MemType
<1>c. {"vote_fetch", "vote_publish", "results_voted"} \subseteq Labels
  BY DEF Labels
<1> SUFFICES ASSUME local[h].attempt = 2 PROVE FALSE
  BY <1>b
<1>1. local[h].pc \in {"vote_incr", "vote_fetch", "results_fetch"}
  BY StepLeads, IdleFacts DEF Travels, Leads
<1>2. CASE VoteIncr(h)
  <2>1. \E call : \/ Goto(h, "vote_fetch", call, local[h])
                  \/ Goto(h, "vote_publish", call, local[h])
    BY <1>2 DEF VoteIncr, Incremented
  <2> QED BY <2>1, <1>a, <1>c, GotoFacts
<1>3. CASE VoteFetch(h)
  <2>1. \E call : \/ Goto(h, "vote_publish", call, [local[h] EXCEPT !.counts = tally])
                  \/ Goto(h, "vote_publish", call, local[h])
    BY <1>3 DEF VoteFetch, Incremented
  <2> QED BY <2>1, <1>a, <1>c, GotoFacts, GotoFetch
<1>4. CASE ResultsFetch(h)
  <2>1. PICK call : Goto(h, "results_voted", call,
                         [local[h] EXCEPT !.counts = IF call = "ok" THEN tally ELSE Zero])
    BY <1>4 DEF ResultsFetch
  <2>2. (IF call = "ok" THEN tally ELSE Zero) \in Counts
    BY <1>a
  <2> QED BY <2>1, <2>2, <1>c, GotoFetch
<1> QED BY <1>1, <1>2, <1>3, <1>4, StepIs

LEMMA RankFalls ==
    ASSUME TypeInv, TypeInv', NEW h \in Handlers, Step(h)
    PROVE  /\ Rank(local'[h]) < Rank(local[h])
           /\ \A g \in Handlers \ {h} : local'[g] = local[g]
<1> DEFINE mem == local[h]
           new == local'[h]
<1>a. mem \in MemType /\ new \in MemType
  BY DEF TypeInv, LocalsOK
<1>b. /\ mem.idx \in 1..(NumOptions + 1) /\ mem.attempt \in {1, 2} /\ NumOptions \in Nat
      /\ new.idx \in 1..(NumOptions + 1) /\ new.attempt \in {1, 2}
  BY <1>a, OptionsAssumption DEF MemType
<1>1. CASE InitPollVotes(h)
  <2>a. /\ mem.pc \in {"create_init", "vote_init", "results_init"}
        /\ InitGoesOn(h) \/ InitEnds(h)
        /\ \A g \in Handlers \ {h} : local'[g] = local[g]
    BY <1>1, InitGoes
  <2>b. Rank(mem) = Ahead[mem.pc] + (NumOptions + 2 - mem.idx)
    BY <2>a, <1>a, DetourFacts DEF Rank
  <2>1. CASE InitGoesOn(h)
    <3>1. new.pc = mem.pc /\ new.idx = mem.idx + 1
      BY <2>1 DEF InitGoesOn
    <3>2. Rank(new) = Ahead[mem.pc] + (NumOptions + 2 - (mem.idx + 1))
      BY <3>1, <2>a, <1>a, DetourFacts DEF Rank
    <3>3. Ahead[mem.pc] \in Nat
      BY <2>a, AheadFacts
    <3> QED BY <3>2, <3>3, <2>a, <2>b, <1>b
  <2>2. CASE InitEnds(h)
    <3>1. /\ new.attempt = 2
          /\ <<mem.pc, new.pc>> \in
               {<<"create_init", "create_reply">>, <<"vote_init", "vote_incr">>,
                <<"results_init", "results_fetch">>}
      BY <2>2 DEF InitEnds
    <3>2. Detour(new) = 0
      BY <3>1, <1>a, DetourFacts DEF BeforeDetour
    <3>3. Ahead[new.pc] \in Nat /\ Ahead[mem.pc] \in Nat /\ Ahead[new.pc] <= Ahead[mem.pc]
      BY <3>1, AheadFacts
    <3> QED BY <3>2, <3>3, <2>a, <2>b, <1>b DEF Rank
  <2> QED BY <2>a, <2>1, <2>2
<1>2. CASE ~InitPollVotes(h)
  <2>a. /\ mem.pc \notin {"idle", "create_init", "vote_init", "results_init"}
        /\ \A g \in Handlers \ {h} : local'[g] = local[g]
        /\ new = Idle \/ Travels(h, new, {l \in Labels : Leads(mem.pc, l)})
    BY <1>2, StepLeads
  <2>1. CASE new = Idle
    BY <2>1, <2>a, <1>a, RankBounds, IdleFacts
  <2>2. CASE Travels(h, new, {l \in Labels : Leads(mem.pc, l)})
    <3>1. Leads(mem.pc, new.pc) /\ new.idx = mem.idx /\ new.attempt = mem.attempt
      BY <2>2 DEF Travels
    <3>2. CASE new.pc \in {"vote_init", "results_init"}
      <4>1. mem.attempt = 1
        BY <1>2, <3>2, DetourOnce
      <4>2. \/ mem.pc \in {"vote_incr", "vote_fetch"} /\ new.pc = "vote_init"
            \/ mem.pc = "results_fetch" /\ new.pc = "results_init"
        BY <3>1, <3>2 DEF Leads
      <4>3. Detour(mem) = NumOptions + 3 /\ Detour(new) = NumOptions + 2 - new.idx
        BY <4>1, <4>2, <1>a, DetourFacts DEF BeforeDetour
      <4>4. Ahead[mem.pc] \in Nat /\ Ahead[new.pc] \in Nat /\ Ahead[new.pc] <= Ahead[mem.pc] + 1
        BY <4>2, AheadFacts
      <4> QED BY <4>3, <4>4, <1>b, <2>a DEF Rank
    <3>3. CASE new.pc = "create_init"
      <4>1. mem.pc = "create_insert"
        BY <3>1, <3>3 DEF Leads
      <4>2. Detour(mem) = 0 /\ Detour(new) = NumOptions + 2 - new.idx
        BY <4>1, <3>3, <1>a, DetourFacts DEF BeforeDetour
      <4> QED BY <4>1, <4>2, <3>3, <1>b, <2>a, AheadFacts DEF Rank
    <3>4. CASE new.pc \notin {"create_init", "vote_init", "results_init"}
      <4>1. /\ Ahead[mem.pc] \in Nat /\ Ahead[new.pc] \in Nat
            /\ Ahead[new.pc] < Ahead[mem.pc]
        BY <3>1, <3>4, AheadFacts DEF Leads
      <4>2. new.pc \in BeforeDetour => mem.pc \in BeforeDetour
        BY <3>1, <3>4 DEF Leads, BeforeDetour
      <4>3. Detour(new) <= Detour(mem) /\ Detour(new) \in Nat /\ Detour(mem) \in Nat
        BY <4>2, <3>1, <3>4, <2>a, <1>a, <1>b, DetourFacts, RankBounds
      <4> QED BY <4>1, <4>3, <2>a DEF Rank
    <3> QED BY <3>2, <3>3, <3>4
  <2> QED BY <2>a, <2>1, <2>2
<1> QED BY <1>1, <1>2

(* Of a request that others or the environment act in, no step is added.   *)
LEMMA RunsOutByNext ==
    ASSUME TypeInv, TypeInv', [Next]_vars, NEW h \in Handlers
    PROVE  /\ ~At(h, "idle") => StepsLeft(h)' <= StepsLeft(h)
           /\ Step(h) => StepsLeft(h)' < StepsLeft(h)
<1>a. local[h] \in MemType /\ local'[h] \in MemType
  BY DEF TypeInv, LocalsOK
<1>b. StepsLeft(h) = Rank(local[h]) /\ StepsLeft(h)' = Rank(local'[h])
  BY DEF StepsLeft, Rank
<1>c. Rank(local[h]) \in Nat /\ Rank(local'[h]) \in Nat
  BY <1>a, RankBounds
<1>1. Step(h) => Rank(local'[h]) < Rank(local[h])
  BY RankFalls
<1>2. ASSUME NEW g \in Handlers, Step(g) \/ Request(g) \/ Disconnect(g), ~At(h, "idle")
      PROVE  Rank(local'[h]) <= Rank(local[h])
  <2>1. CASE g # h
    <3>1. local'[h] = local[h]
      BY <1>2, <2>1, RankFalls, RequestFacts, DisconnectFacts
    <3> QED BY <3>1, <1>c
  <2>2. CASE g = h /\ Step(g)
    BY <2>2, <1>1, <1>c
  <2>3. CASE g = h /\ Request(g)
    BY <2>3, <1>2, RequestFacts DEF At
  <2>4. CASE g = h /\ Disconnect(g)
    <3>1. /\ local'[h].pc = local[h].pc /\ local'[h].idx = local[h].idx
          /\ local'[h].attempt = local[h].attempt
      BY <2>4, DisconnectFacts
    <3>2. Rank(local'[h]) = Rank(local[h])
      BY <3>1 DEF Rank, Detour
    <3> QED BY <3>2, <1>c
  <2> QED BY <1>2, <2>1, <2>2, <2>3, <2>4
<1>3. Restart => Rank(local'[h]) <= Rank(local[h])
  BY <1>a, <1>c, RestartFacts, RankBounds, IdleFacts
<1>4. Expire \/ EnsureIndexes \/ TTLElapses \/ UNCHANGED vars => local'[h] = local[h]
  BY DEF Expire, EnsureIndexes, TTLElapses, vars
<1> QED BY <1>b, <1>c, <1>1, <1>2, <1>3, <1>4 DEF Next

(* The retries of CastVote and GetResults end: each step of a request      *)
(* leaves fewer, with every fault.  What is missing for                    *)
(* EveryRequestAnswered is only that a request which can go on does.       *)
THEOREM RequestsRunOut == Spec => CallsRunOut
<1>1. TypeInv /\ TypeInv' /\ [Next]_vars =>
        [\A h \in Handlers :
           /\ ~At(h, "idle") => StepsLeft(h)' <= StepsLeft(h)
           /\ Step(h) => StepsLeft(h)' < StepsLeft(h)]_vars
  BY RunsOutByNext
<1> QED BY <1>1, InitType, NextType, PTL DEF Spec, CallsRunOut
=============================================================================
