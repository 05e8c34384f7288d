SPECIFICATION FormSpec
CONSTANTS
    w1 = w1
    w2 = w2
    Polls = {p1, p2}
    None = None
    Words = {w1, w2}
    Texts <- MCTexts
    Defaults <- MCDefaults
    MinOptions = 2
    MaxOptions = 3
    MaxPosts = 2
SYMMETRY Symmetry
CHECK_DEADLOCK FALSE
INVARIANTS SentIsAcceptable OnePollPerForm
