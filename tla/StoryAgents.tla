----------------------------- MODULE StoryAgents -----------------------------
(***************************************************************************)
(* What the dispatch of stories promises the rest of the pipeline, with    *)
(* ticks, leases, windows and the plan lock left out: a story has one      *)
(* agent at a time, the next is launched only when the last has ended and  *)
(* is none that was there before, and the manifest names the agent at work *)
(* or none.                                                                *)
(***************************************************************************)
EXTENDS Naturals

CONSTANT Stories

VARIABLES
    atWork,     \* the agent at work in a story's worktree, 0 for none
    named,      \* the agent a poll, a pause or the watchdog would act on
    launched    \* agents launched for a story so far

vars == <<atWork, named, launched>>

Init ==
    /\ atWork = [s \in Stories |-> 0]
    /\ named = [s \in Stories |-> 0]
    /\ launched = [s \in Stories |-> 0]

Launch(s) ==
    /\ atWork[s] = 0
    /\ launched' = [launched EXCEPT ![s] = @ + 1]
    /\ atWork' = [atWork EXCEPT ![s] = launched[s] + 1]
    /\ UNCHANGED named

Name(s) ==
    /\ atWork[s] # 0
    /\ named' = [named EXCEPT ![s] = atWork[s]]
    /\ UNCHANGED <<atWork, launched>>

\* The agents of some stories exit, are stopped, or are lost with the process
\* that launched them: the manifest names none of them afterwards.
End(ss) ==
    /\ atWork' = [s \in Stories |-> IF s \in ss THEN 0 ELSE atWork[s]]
    /\ named' = [s \in Stories |-> IF s \in ss THEN 0 ELSE named[s]]
    /\ UNCHANGED launched

Next ==
    \/ \E s \in Stories : Launch(s) \/ Name(s)
    \/ \E ss \in SUBSET Stories : End(ss)

Spec == Init /\ [][Next]_vars
=============================================================================
