----------------------------- MODULE ScanPasses ------------------------------
(***************************************************************************)
(* How markers on disk become events: a pass of scan_all_plans             *)
(* (pipeline/watchers.py) claims a story's completion marker and publishes *)
(* it, and claims the wake marker that an operator's process left for a    *)
(* plan (pipeline/wake.py).  Passes overlap: the scheduler abandons a slow *)
(* one and starts the next.  The event bus is the NATS one.                *)
(***************************************************************************)
EXTENDS Naturals, FiniteSets

CONSTANTS
    Passes,         \* worker threads that may be in scan_all_plans
    MaxMarkers,     \* bound: completion markers that agents write
    MaxDeaths       \* bound: crashes of the scheduler

ASSUME ScanAssumption == IsFiniteSet(Passes) /\ {MaxMarkers, MaxDeaths} \subseteq Nat

VARIABLES
    marker,         \* the story's .agent_done is in its worktree
    written,        \* history: markers written
    published,      \* history: completions that are in the stream
    dropped,        \* history: completions claimed and never published
    wake,           \* the plan's wake marker is on disk
    owed,           \* history: an operator's wake was neither passed on nor lost
    pass,           \* where a pass is
    deaths

scanVars == <<marker, written, published, dropped, wake, owed, pass, deaths>>

ScanInit ==
    /\ marker = FALSE
    /\ written = 0 /\ published = 0 /\ dropped = 0
    /\ wake = FALSE /\ owed = FALSE
    /\ pass = [p \in Passes |-> "idle"]
    /\ deaths = 0

PassTo(p, l) == pass' = [pass EXCEPT ![p] = l]
-----------------------------------------------------------------------------
\* A marker that nobody has claimed yet is overwritten: one marker.
AgentFinishes ==
    /\ ~marker /\ written < MaxMarkers
    /\ marker' = TRUE /\ written' = written + 1
    /\ UNCHANGED <<published, dropped, wake, owed, pass, deaths>>

\* request_wake, after the operator's change is on disk.
RequestWake ==
    /\ wake' = TRUE /\ owed' = TRUE
    /\ UNCHANGED <<marker, written, published, dropped, pass, deaths>>
-----------------------------------------------------------------------------
\* The marker is read here and renamed in the next step.
StartPass(p) ==
    /\ pass[p] = "idle"
    /\ PassTo(p, IF marker THEN "claim" ELSE "list")
    /\ UNCHANGED <<marker, written, published, dropped, wake, owed, deaths>>

\* The rename finds the marker, or another pass was first, or it fails.
Claim(p) ==
    /\ pass[p] = "claim"
    /\ \/ marker /\ marker' = FALSE /\ PassTo(p, "publish")
       \/ UNCHANGED marker /\ PassTo(p, "list")
    /\ UNCHANGED <<written, published, dropped, wake, owed, deaths>>

\* The event is in the stream: the pass goes on, or was not told in time, which
\* raises and ends it.
Publish(p) ==
    /\ pass[p] = "publish"
    /\ published' = published + 1
    /\ \E l \in {"list", "idle"} : PassTo(p, l)
    /\ UNCHANGED <<marker, written, dropped, wake, owed, deaths>>

PublishFails(p) ==
    /\ pass[p] = "publish"
    /\ dropped' = dropped + 1
    /\ PassTo(p, "idle")
    /\ UNCHANGED <<marker, written, published, wake, owed, deaths>>

\* claim_wakes lists the markers first and renames them then.
ListWakes(p) ==
    /\ pass[p] = "list"
    /\ PassTo(p, IF wake THEN "take" ELSE "idle")
    /\ UNCHANGED <<marker, written, published, dropped, wake, owed, deaths>>

TakeWake(p) ==
    /\ pass[p] = "take"
    /\ \/ wake /\ wake' = FALSE /\ PassTo(p, "notify")
       \/ UNCHANGED wake /\ PassTo(p, "idle")
    /\ UNCHANGED <<marker, written, published, dropped, owed, deaths>>

\* Reconcile is no durable type: the plan is queued in this process, for an
\* advance that reads the manifest after every request made so far.
PassOnWake(p) ==
    /\ pass[p] = "notify"
    /\ owed' = FALSE
    /\ PassTo(p, "idle")
    /\ UNCHANGED <<marker, written, published, dropped, wake, deaths>>

\* What is left of an operator's wake when some passes give up theirs.
StillOwed(ps) == owed /\ (wake \/ \E q \in Passes \ ps : pass[q] = "notify")

WakeFails(p) ==
    /\ pass[p] = "notify"
    /\ owed' = StillOwed({p})
    /\ PassTo(p, "idle")
    /\ UNCHANGED <<marker, written, published, dropped, wake, deaths>>
-----------------------------------------------------------------------------
SchedulerDies ==
    /\ deaths < MaxDeaths /\ deaths' = deaths + 1
    /\ dropped' = dropped + Cardinality({p \in Passes : pass[p] = "publish"})
    /\ owed' = StillOwed(Passes)
    /\ pass' = [p \in Passes |-> "idle"]
    /\ UNCHANGED <<marker, written, published, wake>>

ScanNext ==
    \/ AgentFinishes \/ RequestWake
    \/ \E p \in Passes :
        \/ StartPass(p) \/ Claim(p) \/ Publish(p) \/ PublishFails(p)
        \/ ListWakes(p) \/ TakeWake(p) \/ PassOnWake(p) \/ WakeFails(p)
    \/ SchedulerDies
-----------------------------------------------------------------------------
ScanTypeOK ==
    /\ marker \in BOOLEAN /\ wake \in BOOLEAN /\ owed \in BOOLEAN
    /\ written \in 0..MaxMarkers /\ published \in 0..MaxMarkers
    /\ dropped \in 0..MaxMarkers /\ deaths \in 0..MaxDeaths
    /\ pass \in [Passes -> {"idle", "claim", "publish", "list", "take", "notify"}]

\* However passes overlap, a completion is in one place: its marker in the
\* worktree, in the hands of one pass, in the stream, or dropped by a publish
\* that failed or a crash.  And a wake that was asked for is on disk or with a
\* pass that has still to pass it on.
HandedOnOnce ==
    /\ written = published + dropped + (IF marker THEN 1 ELSE 0)
                 + Cardinality({p \in Passes : pass[p] = "publish"})
    /\ owed => wake \/ \E p \in Passes : pass[p] = "notify"
=============================================================================
