---------------------------- MODULE SchedulerLoop ----------------------------
(***************************************************************************)
(* The loop of pipeline/scheduler_daemon.py and its two escape hatches.    *)
(* Each phase runs in a worker thread that the loop joins for a bounded    *)
(* time and abandons then; an abandoned worker may be blocked for good     *)
(* with the plan lock in its hands, which only the death of the process    *)
(* takes from it.  launchd starts the daemon again whenever it exits.      *)
(***************************************************************************)
EXTENDS Naturals, FiniteSets

CONSTANTS
    PhaseWorkers,    \* enough threads for the workers that can be alive together
    Nobody,
    Threshold   \* PIPELINE_SCAN_ABANDON_RESTART_THRESHOLD; 0 switches that hatch off

ASSUME LoopAssumption == Threshold \in Nat

VARIABLES
    loopAt,     \* "down", or where the loop is
    worker,     \* "free", "joined", "abandoned", or "leaked" past the grace
    planLock,   \* the worker that holds the plan lock, or Nobody
    streak,     \* _consecutive_abandons
    atStart     \* streak_at_start

daemonVars == <<loopAt, worker, planLock, streak, atStart>>

DaemonInit ==
    /\ loopAt = "down"
    /\ worker = [w \in PhaseWorkers |-> "free"]
    /\ planLock = Nobody
    /\ streak = 0 /\ atStart = 0

Abandoned == {w \in PhaseWorkers : worker[w] \in {"abandoned", "leaked"}}
Leaked == {w \in PhaseWorkers : worker[w] = "leaked"}
Joined == {w \in PhaseWorkers : worker[w] = "joined"}
Alive == {w \in PhaseWorkers : worker[w] # "free"}
-----------------------------------------------------------------------------
\* _run_with_watchdog, which starts a worker ...
StartWorker(w) ==
    /\ worker[w] = "free"
    /\ worker' = [worker EXCEPT ![w] = "joined"]

\* ... and leaves when the worker has ended, or abandons it.
JoinReturns ==
    /\ Joined = {}
    /\ UNCHANGED <<worker, streak>>

JoinTimesOut ==
    /\ Joined # {}
    /\ worker' = [w \in PhaseWorkers |-> IF w \in Joined THEN "abandoned" ELSE worker[w]]
    /\ streak' = streak + 1

\* start(): a reconcile before the first tick.
Boot(w) ==
    /\ loopAt = "down" /\ loopAt' = "boot"
    /\ StartWorker(w)
    /\ UNCHANGED <<planLock, streak, atStart>>

EndBoot ==
    /\ loopAt = "boot" /\ loopAt' = "tick"
    /\ JoinReturns \/ JoinTimesOut
    /\ UNCHANGED <<planLock, atStart>>

\* run_once.
StartScan(w) ==
    /\ loopAt = "tick" /\ loopAt' = "scan"
    /\ StartWorker(w)
    /\ atStart' = streak
    /\ UNCHANGED <<planLock, streak>>

\* The reconcile is due or it is not.
EndScan ==
    /\ loopAt = "scan" /\ loopAt' \in {"due", "checks"}
    /\ JoinReturns \/ JoinTimesOut
    /\ UNCHANGED <<planLock, atStart>>

StartReconcile(w) ==
    /\ loopAt = "due" /\ loopAt' = "reconcile"
    /\ StartWorker(w)
    /\ UNCHANGED <<planLock, streak, atStart>>

\* The drain that follows is bounded and counts for neither hatch.
EndReconcile ==
    /\ loopAt = "reconcile" /\ loopAt' = "checks"
    /\ JoinReturns \/ JoinTimesOut
    /\ UNCHANGED <<planLock, atStart>>

\* SystemExit: every thread and every lock of the process is gone.
Exit ==
    /\ loopAt' = "down"
    /\ worker' = [w \in PhaseWorkers |-> "free"]
    /\ planLock' = Nobody
    /\ streak' = 0 /\ atStart' = 0

NextTick(s) ==
    /\ loopAt' = "tick"
    /\ streak' = s
    /\ UNCHANGED <<worker, planLock, atStart>>

\* Mutant of Checks: the streak is the only hatch, and a tick without an
\* abandonment ends it.
Checks_StreakOnly ==
    LET s == IF streak = atStart THEN 0 ELSE streak
    IN  /\ loopAt = "checks"
        /\ IF Threshold > 0 /\ s >= Threshold THEN Exit ELSE NextTick(s)

\* The ledger first, then the streak, which ends with a tick that abandoned
\* nobody while nobody abandoned is alive.
Checks ==
    LET s == IF Abandoned = {} /\ streak = atStart THEN 0 ELSE streak
    IN  /\ loopAt = "checks"
        /\ IF Leaked # {} \/ (Threshold > 0 /\ s >= Threshold)
             THEN Exit ELSE NextTick(s)
-----------------------------------------------------------------------------
\* The work of a worker: it takes the plan lock and gives it back, and returns.

TakePlanLock(w) ==
    /\ w \in Alive /\ planLock = Nobody
    /\ planLock' = w
    /\ UNCHANGED <<loopAt, worker, streak, atStart>>

GivePlanLock(w) ==
    /\ planLock = w
    /\ planLock' = Nobody
    /\ UNCHANGED <<loopAt, worker, streak, atStart>>

WorkerReturns(w) ==
    /\ w \in Alive /\ planLock # w
    /\ worker' = [worker EXCEPT ![w] = "free"]
    /\ UNCHANGED <<loopAt, planLock, streak, atStart>>

GracePasses(w) ==
    /\ worker[w] = "abandoned"
    /\ worker' = [worker EXCEPT ![w] = "leaked"]
    /\ UNCHANGED <<loopAt, planLock, streak, atStart>>
-----------------------------------------------------------------------------
LoopMoves ==
    \/ \E w \in PhaseWorkers : Boot(w) \/ StartScan(w) \/ StartReconcile(w)
    \/ EndBoot \/ EndScan \/ EndReconcile \/ Checks

DaemonNext ==
    \/ LoopMoves
    \/ \E w \in PhaseWorkers :
        TakePlanLock(w) \/ GivePlanLock(w) \/ WorkerReturns(w) \/ GracePasses(w)
-----------------------------------------------------------------------------
DaemonTypeOK ==
    /\ loopAt \in {"down", "boot", "tick", "scan", "due", "reconcile", "checks"}
    /\ worker \in [PhaseWorkers -> {"free", "joined", "abandoned", "leaked"}]
    /\ planLock \in PhaseWorkers \cup {Nobody}
    \* A tick that began below the threshold adds two, and the boot adds one.
    /\ streak \in Nat /\ atStart \in Nat
    /\ Threshold > 0 => streak <= Threshold + 2 /\ atStart <= Threshold

\* A plan lock that a wedged phase leaked is released in the end, whichever
\* phase it was and however well the ticks after it go.
LockRecovers == []<>(planLock = Nobody)
=============================================================================
