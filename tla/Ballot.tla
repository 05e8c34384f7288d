------------------------------- MODULE Ballot -------------------------------
(***************************************************************************)
(* What LivePoll promises about the votes of one poll, whatever the two    *)
(* stores, the handlers and their retries do.  A ballot is cast when its   *)
(* vote document is inserted, and it is counted when the live tally that   *)
(* every page shows is incremented for it.  The owner may void the poll;   *)
(* from then on nothing is promised.                                       *)
(***************************************************************************)
EXTENDS Integers, FiniteSets

CONSTANTS
    Ballots,     \* every ballot that could be cast; a ballot has a field "opt"
    Options      \* the options of the poll

VARIABLES
    cast,        \* the set of ballots that were cast
    tally,       \* for each option, the number of ballots counted
    void         \* TRUE once the owner deleted the poll

ballotVars == <<cast, tally, void>>

For(o) == {b \in cast : b.opt = o}

Init ==
    /\ cast = {}
    /\ tally = [o \in Options |-> 0]
    /\ void = FALSE

(* A new ballot is cast. *)
Cast ==
    /\ ~void
    /\ cast \subseteq cast' /\ cast' \subseteq Ballots
    /\ Cardinality(cast' \ cast) = 1
    /\ UNCHANGED <<tally, void>>

(* One ballot that was cast for option o, and not yet counted, is counted. *)
Count(o) ==
    /\ ~void
    /\ tally[o] < Cardinality(For(o))
    /\ tally' = [tally EXCEPT ![o] = @ + 1]
    /\ UNCHANGED <<cast, void>>

(* The owner deletes the poll. *)
Void ==
    /\ void' = TRUE
    /\ UNCHANGED <<cast, tally>>

(* After that, the remains of the poll may change in any way. *)
Aftermath == void /\ void'

Next == Cast \/ (\E o \in Options : Count(o)) \/ Void \/ Aftermath

Spec == Init /\ [][Next]_ballotVars

(* Every ballot that was cast is counted in the end, or the poll is voided *)
(* (nobody casts for ever: there are finitely many voters).                *)
EveryBallotCounted ==
    \A o \in Options : <>[](void \/ tally[o] = Cardinality(For(o)))
=============================================================================
