----------------------------- MODULE MCPollForm -----------------------------
EXTENDS PollForm, TLC

CONSTANTS w1, w2

MCText(w, b, u) == [word |-> w, padded |-> b, upper |-> u]

\* The first default in another writing, an empty text and blanks.
MCTexts == {MCText(w1, TRUE, TRUE), MCText(None, FALSE, FALSE), MCText(None, TRUE, FALSE)}

MCDefaults == <<MCText(w1, FALSE, FALSE), MCText(w2, FALSE, FALSE)>>

Symmetry == Permutations(Polls)
=============================================================================
