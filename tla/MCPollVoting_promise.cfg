SPECIFICATION FairSpec
CONSTANTS
    Handlers = {h1, h2}
    Voters = {v1, v2}
    NumOptions = 2
    Ops = {"vote", "results", "delete"}
    Env = {"late_index"}
    NoVoter = NoVoter
PROPERTIES KeepsPromise EveryBallotCounted
