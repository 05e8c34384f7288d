---------------------------- MODULE MCPollVoting ----------------------------
EXTENDS PollVoting, TLC

Symmetry == Permutations(Handlers) \union Permutations(Voters)
=============================================================================
