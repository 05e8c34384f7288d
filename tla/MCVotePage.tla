----------------------------- MODULE MCVotePage -----------------------------
EXTENDS VotePage, TLC

Symmetry == Permutations(Tabs) \union Permutations(Polls) \union Permutations(Options)
=============================================================================
