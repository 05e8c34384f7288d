SPECIFICATION Spec
CONSTANTS
    w1 = w1
    w2 = w2
    Polls = {p1, p2, p3}
    None = None
    Words = {w1, w2}
    Texts = {}
    Defaults <- MCDefaults
    MinOptions = 2
    MaxOptions = 2
    MaxPosts = 1
    MaxClicks = 2
    MaxElsewhere = 1
SYMMETRY Symmetry
CHECK_DEADLOCK FALSE
INVARIANTS ShownWasStored AgreesUnlessDisturbed
