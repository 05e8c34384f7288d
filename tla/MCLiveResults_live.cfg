SPECIFICATION LiveSpec
CONSTANTS
    Params = {"code", "id"}
    MaxBreaks = 1
    MaxChanges = 2
    MaxClicks = 2
    None = None
CONSTRAINT FewEvents
CHECK_DEADLOCK FALSE
INVARIANTS CurrentUnlessRaced KnowsItsViewer
