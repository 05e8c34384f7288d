----------------------------- MODULE MCOwnerTab -----------------------------
EXTENDS OwnerTab, TLC

CONSTANTS w1, w2

\* A form that need not be changed to be sent: MCPollForm has the others.
MCDefaults == <<[word |-> w1, padded |-> FALSE, upper |-> FALSE],
                [word |-> w2, padded |-> FALSE, upper |-> FALSE]>>

Symmetry == Permutations(Polls)
=============================================================================
