SPECIFICATION FairSpec
CONSTANTS
    Params = {"code", "id"}
    MaxBreaks = 4
CHECK_DEADLOCK FALSE
INVARIANTS OneChainEach KeepsTrying ConnectedIsTrue
PROPERTIES ConnectsAgain
