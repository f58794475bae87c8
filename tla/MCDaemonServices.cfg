SPECIFICATION ServicesSpec
CONSTANTS
    r1 = r1
    r2 = r2
    r3 = r3
    tick = tick
    dashboard = dashboard
    w1 = w1
    w2 = w2
    w3 = w3
    w4 = w4
    e1 = e1
    e2 = e2
    s1 = s1
    s2 = s2
    k1 = k1
    k2 = k2
    i1 = i1
    g1 = g1
    g2 = g2
    plan1 = plan1
    plan2 = plan2
    key = key
    tool = tool
    None = None
    Nobody = Nobody
    NoState = NoState
    NoLine = NoLine
    Records <- MCRecords
    Spoolers <- MCSpoolers
    Workers <- MCWorkers
    MaxRecords = 1
    MaxFailures = 1
    Passes <- MCWorkers
    MaxMarkers = 2
    MaxDeaths = 1
    Events <- MCEvents
    BrokerLimit = 2
    Limits <- MCLimits
    MaxRestarts = 2
    PhaseWorkers <- MCPhaseWorkers
    Threshold = 2
    Pollers <- MCWorkers
    MaxUpsets = 1
    Writers <- MCWorkers
    Anchorers <- MCWorkers
    MaxAppends = 3
    MaxFaults = 2
    Clients <- MCWorkers
    NoRow = NoRow
    MaxEdits = 2
    MaxBreaks = 1
    Order <- MCOrder
    Children <- MCChildren
    IssueOf <- MCIssueOf
    Rulings <- MCRulings
    NoSnapshot = NoSnapshot
    MaxAttempts = 1
    MaxCreated = 3
    MaxDeferrals = 1
    MaxGrades <- MCMaxGrades
    MaxTroubles = 1
    Graded <- MCGraded
    PlanOf <- MCPlanOf
    KeyOf <- MCKeyOf
    MaxRounds <- MCMaxRounds
    Callers <- MCCallers
    Tick = tick
    Cap = 1
    NoGrade = NoGrade
    MaxWrappers = 2
    MaxKills = 1
    Plans <- MCPlans
    StoryKeys <- MCStoryKeys
    Edited <- MCEdited
    NoPlan = NoPlan
    NoStory = NoStory
    MaxRewrites = 2
    MaxMishaps = 1
INVARIANTS
    ServicesTypeOK LostOnlyInRace NoSpuriousDuplicate 
    EvidenceIsTrue ServesWhatWasSaved TriageKeepsItsLimits GradeIsOwn LaunchesAreCleared
PROPERTIES
    KeepsOrder QueueDrains  LockRecovers UsageSettles
