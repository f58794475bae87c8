--------------------------- MODULE MCDispatchTick ----------------------------
EXTENDS DispatchTick, TLC

CONSTANTS a, b, scheduler, session, operator

MCStories == {a, b}
MCTickers == {scheduler, session}
MCOperators == {operator}

Symmetry == Permutations(MCStories) \cup Permutations(MCTickers)
=============================================================================
