SPECIFICATION SafeSpec
CONSTANTS
    a = a
    scheduler = scheduler
    session = session
    operator = operator
    b = b
    None = None
    Stories <- MCStories
    Tickers <- MCTickers
    Operators = {}
    MaxAttempts = 2
    MaxAgents = 1
    MaxPerTick = 2
    OperatorsDispatch = FALSE
    MaxLaunches = 2
    MaxCrashes = 0
INVARIANT WithinCap
