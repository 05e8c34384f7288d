SPECIFICATION FairSpec
CONSTANTS
    Clients = {c1, c2}
    Polls = {p1}
    Capacity = 1
    MaxMessages = 3
CHECK_DEADLOCK FALSE
INVARIANTS NeverPanics SubscribedIffWatched AtMostOnce Unbroken
PROPERTIES ConnectionsEnd Delivered NothingSkipped
