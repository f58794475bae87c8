----------------------------- MODULE MCPlanLock ------------------------------
EXTENDS PlanLock

CONSTANTS ticker, operator, other, daemon, server

\* A scheduler thread and an operator's thread in one process, and a thread of
\* another process.
MCThreads == {ticker, operator, other}
MCProcs == {daemon, server}
MCProcOf == [t \in MCThreads |-> IF t = other THEN server ELSE daemon]
MCPatient == {operator}
=============================================================================
