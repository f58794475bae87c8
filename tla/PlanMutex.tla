------------------------------ MODULE PlanMutex ------------------------------
(***************************************************************************)
(* What the plan lock promises the code inside it: at any time at most one *)
(* thread, of all threads of all processes, acts as the holder of a plan.  *)
(* A window around a slow phase leaves and enters again; so does a crash,  *)
(* for the threads of the process that died.                               *)
(***************************************************************************)
CONSTANT Threads

VARIABLE holders    \* the threads that may mutate the plan's manifest

Init == holders = {}

Enter(t) == holders = {} /\ holders' = {t}

Leave(t) == holders = {t} /\ holders' = {}

Next == \E t \in Threads : Enter(t) \/ Leave(t)

Spec == Init /\ [][Next]_holders
=============================================================================
