SPECIFICATION Spec
CONSTANTS
    None = None
    Pids = {p1, p2}
    MaxRounds = 2
    MaxBase = 1
    MaxUpsets = 1
    Moves = {"pr_open", "tests_passed"}
    ReworkMax = 2
    NoCommitMax = 2
    InconclusiveMax = 1
    MergeMax = 2
    ConflictMax = 1
INVARIANTS  LandedWasApproved LandsVerified  
CHECK_DEADLOCK FALSE
PROPERTY PrOpenEnds
