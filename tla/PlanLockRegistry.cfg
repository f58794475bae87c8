SPECIFICATION SafeSpec
CONSTANTS
    ticker = ticker
    operator = operator
    other = other
    daemon = daemon
    server = server
    Threads <- MCThreads
    Procs <- MCProcs
    ProcOf <- MCProcOf
    Patient <- MCPatient
    NoFd = NoFd
    MaxBlocks = 3
    MaxCrashes = 0
INVARIANT RegistryCoversHolders
