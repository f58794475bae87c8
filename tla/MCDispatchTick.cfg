SPECIFICATION Spec
CONSTANTS
    a = a
    scheduler = scheduler
    session = session
    operator = operator
    b = b
    None = None
    Stories = {a}
    Tickers <- MCTickers
    Operators <- MCOperators
    MaxAttempts = 2
    MaxAgents = 1
    MaxPerTick = 1
    OperatorsDispatch = TRUE
    MaxLaunches = 2
    MaxCrashes = 1
 
PROPERTIES LeaseEnds TickEnds
