SPECIFICATION Spec
CONSTANTS
    Plans = {p1, p2}
    Workers = {w1, w2}
    NoPlan = NoPlan
    MaxUpsets = 1
INVARIANTS OneAdvancePerPlan ReplyIsForTheJob QueueInv
PROPERTIES NoOvertaking ImplementsDemand EveryPlanKeepsAdvancing StopEndsThreads
CHECK_DEADLOCK FALSE
