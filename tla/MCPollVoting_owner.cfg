SPECIFICATION Spec
CONSTANTS
    Handlers = {h1, h2}
    Voters = {v1, v2}
    NumOptions = 2
    Ops = {"vote", "results", "share", "list", "status", "delete"}
    Env = {"expiry"}
    NoVoter = NoVoter
SYMMETRY Symmetry
INVARIANTS StoresAgree OneVotePerVoter ShownIsRecorded
PROPERTIES VotesAreKept ShutKeepsOut
