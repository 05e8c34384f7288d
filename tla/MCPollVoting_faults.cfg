SPECIFICATION Spec
CONSTANTS
    Handlers = {h1, h2}
    Voters = {v1, v2}
    NumOptions = 1
    Ops = {"vote", "results"}
    Env = {"early_link", "mongo_error", "mongo_lost", "redis_error", "redis_lost", "ttl", "restart"}
    NoVoter = NoVoter
SYMMETRY Symmetry
CHECK_DEADLOCK FALSE
INVARIANTS MongoNeverOverstates
PROPERTIES TallyMonotonic
