SPECIFICATION FairSpec
CONSTANTS
    Handlers = {h1, h2}
    Voters = {v1, v2}
    NumOptions = 1
    Ops = {"vote", "results"}
    Env = {"gone", "crash"}
    NoVoter = NoVoter
CHECK_DEADLOCK FALSE
INVARIANTS RedisNeverOverstates ThankedIsRecorded
PROPERTIES CallsRunOut EveryRequestAnswered
