----------------------------- MODULE OwnedPolls -----------------------------
(***************************************************************************)
(* The polls of one owner in the backend, as the requests of the owner's   *)
(* pages read and change them, each request in one step (PollVoting has    *)
(* the calls of every request).                                            *)
(***************************************************************************)
EXTENDS Integers, FiniteSets, Sequences

CONSTANTS
    Polls,       \* the polls that can be made
    None         \* no poll, no word, no list

ASSUME NoneIsNoPoll == None \notin Polls

VARIABLES
    stored,      \* of each poll: "none" (not there), "active" or "closed"
    was          \* history: everything that stored[p] has been

server == <<stored, was>>

Statuses == {"active", "closed"}

Opposite(s) == IF s = "active" THEN "closed" ELSE "active"

StoredInit ==
    /\ stored \in [Polls -> {"none", "active"}]
    /\ was = [p \in Polls |-> {stored[p]}]

Exists(p) == stored[p] # "none"

Store(p, s) ==
    /\ stored' = [stored EXCEPT ![p] = s]
    /\ was' = [was EXCEPT ![p] = @ \union {s}]

(* InsertOne: an ObjectID is never used again.                             *)
Insert(p) == was[p] = {"none"} /\ Store(p, "active")

(* UpdateOne with the ids of the poll and its creator.                     *)
UpdatePollStatus(p, s) == Exists(p) /\ Store(p, s)

(* DeleteOne with the ids of the poll and its creator.                     *)
DeletePoll(p) == Exists(p) /\ Store(p, "none")
=============================================================================
