SPECIFICATION Spec
CONSTANTS
    Tabs = {t1, t2}
    Polls = {a, b}
    Options = {o1}
    None = None
    Env = {"jump", "status", "delete", "fail", "lost", "unsaved", "reload"}
    MaxVisits = 3
    MaxBallots = 2
    MaxEvents = 1
SYMMETRY Symmetry
CHECK_DEADLOCK FALSE
INVARIANTS OneVotePerBrowser ThanksForAVote BusyIffSent RedirectsAfterVote SpinnerHasALoad
