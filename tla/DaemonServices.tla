--------------------------- MODULE DaemonServices ----------------------------
(***************************************************************************)
(* The parts around the pipeline that share no state with each other: the  *)
(* notification outbox, the scan for markers, the event consumer, the loop *)
(* of the scheduler, the usage gate, the audit chain, the database store,  *)
(* the triage sweep, the detached grades and the registry of plans.  A     *)
(* behavior is one of one of them, while the others rest.                  *)
(***************************************************************************)
EXTENDS NotificationOutbox, ScanPasses, EventConsumer, SchedulerLoop,
        UsageGate, AuditChain, SqliteStore, TriageSweep, DetachedGrade,
        PlanRegistry

VARIABLE service

servicesVars ==
    <<service, vars, scanVars, consumerVars, daemonVars, gateVars, auditVars,
      storeVars, triageVars, gradeVars, registryVars>>

ServicesInit ==
    /\ service \in {"outbox", "scan", "consumer", "daemon", "gate", "audit", "store",
                    "triage", "grade", "registry"}
    /\ Init /\ ScanInit /\ ConsumerInit /\ DaemonInit /\ GateInit /\ AuditInit
    /\ StoreInit /\ TriageInit /\ GradeInit /\ RegistryInit

\* One part alone may move.
OutboxOnly ==
    /\ service = "outbox"
    /\ UNCHANGED <<service, scanVars, consumerVars, daemonVars, gateVars,
                   auditVars, storeVars, triageVars, gradeVars, registryVars>>

ScanOnly ==
    /\ service = "scan"
    /\ UNCHANGED <<service, vars, consumerVars, daemonVars, gateVars,
                   auditVars, storeVars, triageVars, gradeVars, registryVars>>

ConsumerOnly ==
    /\ service = "consumer"
    /\ UNCHANGED <<service, vars, scanVars, daemonVars, gateVars,
                   auditVars, storeVars, triageVars, gradeVars, registryVars>>

DaemonOnly ==
    /\ service = "daemon"
    /\ UNCHANGED <<service, vars, scanVars, consumerVars, gateVars,
                   auditVars, storeVars, triageVars, gradeVars, registryVars>>

GateOnly ==
    /\ service = "gate"
    /\ UNCHANGED <<service, vars, scanVars, consumerVars, daemonVars,
                   auditVars, storeVars, triageVars, gradeVars, registryVars>>

AuditOnly ==
    /\ service = "audit"
    /\ UNCHANGED <<service, vars, scanVars, consumerVars, daemonVars,
                   gateVars, storeVars, triageVars, gradeVars, registryVars>>

StoreOnly ==
    /\ service = "store"
    /\ UNCHANGED <<service, vars, scanVars, consumerVars, daemonVars,
                   gateVars, auditVars, triageVars, gradeVars, registryVars>>

TriageOnly ==
    /\ service = "triage"
    /\ UNCHANGED <<service, vars, scanVars, consumerVars, daemonVars,
                   gateVars, auditVars, storeVars, gradeVars, registryVars>>

GradeOnly ==
    /\ service = "grade"
    /\ UNCHANGED <<service, vars, scanVars, consumerVars, daemonVars,
                   gateVars, auditVars, storeVars, triageVars, registryVars>>

RegistryOnly ==
    /\ service = "registry"
    /\ UNCHANGED <<service, vars, scanVars, consumerVars, daemonVars,
                   gateVars, auditVars, storeVars, triageVars, gradeVars>>

OutboxRuns == OutboxOnly /\ Next
ScanRuns == ScanOnly /\ ScanNext
ConsumerRuns == ConsumerOnly /\ ConsumerNext
DaemonRuns == DaemonOnly /\ DaemonNext
GateRuns == GateOnly /\ GateNext
AuditRuns == AuditOnly /\ AuditNext
StoreRuns == StoreOnly /\ StoreNext
TriageRuns == TriageOnly /\ TriageNext
GradeRuns == GradeOnly /\ GradeNext
RegistryRuns == RegistryOnly /\ RegistryNext

ServicesNext ==
    \/ OutboxRuns \/ ScanRuns \/ ConsumerRuns \/ DaemonRuns
    \/ GateRuns \/ AuditRuns \/ StoreRuns \/ TriageRuns \/ GradeRuns
    \/ RegistryRuns
-----------------------------------------------------------------------------
\* What the scheduling justifies.  A behavior is of one part, so one condition
\* on the steps of several parts is a condition on each.

\* Ticks drain and sweep again and again, the consumer's loop goes on, launchd
\* starts the daemon and its joins are bounded, time passes, and each tick polls
\* the stories.
LoopsGoOn ==
    WF_servicesVars(
        \/ OutboxOnly /\ \E w \in Workers : StartDrain(w)
        \/ ConsumerOnly /\ LoopStep
        \/ DaemonOnly /\ LoopMoves
        \/ GateOnly /\ TimePasses
        \/ TriageOnly /\ SweepStep
        \/ GradeOnly /\ PollStep(Tick))

\* A drain that has begun goes on, the broker's wait for an ack ends, and so
\* do the grace of an abandoned worker and tests that do not hang.
WaitsAreBounded ==
    WF_servicesVars(
        \/ OutboxOnly /\ \E w \in Workers : Drains(w)
        \/ ConsumerOnly /\ \E e \in Events : AckWaitEnds(e)
        \/ DaemonOnly /\ \E w \in PhaseWorkers : GracePasses(w)
        \/ GradeOnly /\ \E i \in DOMAIN wrappers : WrapperEnds(i))

\* A channel that is asked for ever accepts in the end, and a broker answers;
\* a spooler may stop anywhere.
PeersAnswer ==
    SF_servicesVars(
        \/ OutboxOnly /\ \E w \in Workers : Accept(w)
        \/ ConsumerOnly /\ Fetch)

\* Every poller of the usage gate is called again and again.
PollersPoll == \A p \in Pollers : WF_servicesVars(GateOnly /\ Polls(p))

ServicesSpec ==
    /\ ServicesInit /\ [][ServicesNext]_servicesVars
    /\ LoopsGoOn /\ WaitsAreBounded /\ PeersAnswer /\ PollersPoll
-----------------------------------------------------------------------------
\* The type invariant of each service.
ServicesTypeOK ==
    /\ TypeOK /\ ScanTypeOK /\ ConsumerTypeOK /\ DaemonTypeOK /\ GateTypeOK /\ AuditTypeOK
    /\ StoreTypeOK /\ TriageTypeOK /\ GradeTypeOK /\ RegistryTypeOK

\* The two places that hand on what others wrote do it once: the scan with its
\* markers and wakes (scan_done_markers, claim_wakes), the consumer
\* with the events of the stream (_fetch_loop).
HandOnOnce == HandedOnOnce /\ SettledOnce

\* An event in the stream is handled or becomes a dead letter (EventConsumer's
\* _fetch_loop), a story that triage may rule on is ruled on (run_triage_sweep),
\* and a story whose agent is gone is graded (check_story_status): none waits for
\* ever behind the failures of the others.  Tests that hang are the exception, for
\* the grade's watchdog is out of reach while the wrapper lives.
Settles ==
    /\ EventsSettle
    /\ []<>(\A s \in Stories : ~Waiting(s))
    /\ []<>(hung # {} \/ \A s \in Graded : ~Ungraded(s))
=============================================================================
