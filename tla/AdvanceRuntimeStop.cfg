SPECIFICATION SafeSpec
CONSTANTS
    Plans = {p1, p2}
    Workers = {w1, w2}
    NoPlan = NoPlan
    MaxUpsets = 0
INVARIANT StopEndsEveryChild
CHECK_DEADLOCK FALSE
