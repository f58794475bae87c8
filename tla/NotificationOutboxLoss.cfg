SPECIFICATION SafeSpec
CONSTANTS
    r1 = r1
    r2 = r2
    r3 = r3
    tick = tick
    dashboard = dashboard
    w1 = w1
    w2 = w2
    None = None
    Records <- MCRecords
    Spoolers <- MCSpoolers
    Workers <- MCWorkers
    MaxRecords = 3
    MaxFailures = 0
INVARIANT NeverLost
