---------------------------- MODULE AdvanceDemand ----------------------------
(***************************************************************************)
(* What the scheduler's advance queue promises its clients, with the order *)
(* of the queue and the bookkeeping that implements it left out: a request *)
(* for a plan is never lost while the queue is open, a plan is never       *)
(* advanced twice at once, and a plan somebody wants is started.           *)
(***************************************************************************)
CONSTANT Plans

VARIABLES
    wanted,     \* plans with a request no advance has been started for
    running,    \* plans being advanced
    accepting   \* FALSE once the queue is closed

vars == <<wanted, running, accepting>>

Init ==
    /\ wanted = {}
    /\ running = {}
    /\ accepting = TRUE

\* Somebody asks for an advance of p, even of one already wanted or running.
Want(p) ==
    /\ accepting
    /\ wanted' = wanted \cup {p}
    /\ UNCHANGED <<running, accepting>>

\* The request is spent by an advance that starts after it was made.
Start(p) ==
    /\ accepting
    /\ p \in wanted \ running
    /\ wanted' = wanted \ {p}
    /\ running' = running \cup {p}
    /\ UNCHANGED accepting

\* An advance ends; a request made meanwhile is still there.
End(p) ==
    /\ p \in running
    /\ running' = running \ {p}
    /\ UNCHANGED <<wanted, accepting>>

Shut ==
    /\ accepting' = FALSE
    /\ UNCHANGED <<wanted, running>>

Next == Shut \/ \E p \in Plans : Want(p) \/ Start(p) \/ End(p)

SafeSpec == Init /\ [][Next]_vars

Spec == SafeSpec /\ \A p \in Plans : WF_vars(Start(p))
=============================================================================
