---------------------------- MODULE DispatchTick -----------------------------
(***************************************************************************)
(* Who may start an agent in a story's worktree.  The advance tick of one  *)
(* plan (pipeline/advance.py) claims a story's dispatch lease under the    *)
(* plan lock, drops the lock around dispatch_story, which takes it again   *)
(* by itself, and then takes the lock back to settle the result.  Other    *)
(* ticks, operators and crashes come between any two of these steps.  The  *)
(* plan lock is the mutex that PlanLock implements.                        *)
(* One status stands for interrupted and changes_requested, which dispatch *)
(* treats alike; "pr_open" stands for pr_open and done.                    *)
(***************************************************************************)
EXTENDS Naturals, FiniteSets

CONSTANTS
    Stories,
    Tickers,            \* processes that run advance_pipeline
    Operators,          \* threads that serve an operator's calls
    None,
    MaxAttempts,        \* DISPATCH_MAX_ATTEMPTS
    MaxAgents,          \* MAX_CONCURRENT_AGENTS, 0 for no cap
    MaxPerTick,         \* PIPELINE_MAX_DISPATCH_PER_TICK
    OperatorsDispatch,  \* operators call dispatch_story themselves
    MaxLaunches,        \* bound: agents launched for a story
    MaxCrashes          \* bound: crashes of tickers

Actors == Tickers \cup Operators

ASSUME DispatchAssumption ==
    /\ Tickers \cap Operators = {}
    /\ None \notin Actors \cup Stories
    /\ MaxAttempts \in Nat \ {0} /\ MaxAgents \in Nat /\ MaxPerTick \in Nat \ {0}
    /\ OperatorsDispatch \in BOOLEAN
    /\ MaxLaunches \in Nat /\ MaxCrashes \in Nat

VARIABLES
    holders,    \* the holder of the plan lock, as in PlanMutex
    status,     \* manifest: a story's status
    attempts,   \* manifest: dispatch_attempts
    lease,      \* manifest: the owner of a lease that is live, or None
    agent,      \* manifest: the agent that pid names, 0 for no pid
    paused,     \* manifest: the plan's paused flag
    live,       \* agents at work: running and not told to stop
    orphans,    \* agents whose launcher died before it recorded them
    launches,   \* agents launched for a story so far
    pc, job,    \* where an actor is, and in which story's dispatch
    outcome,    \* what a tick's dispatch_story returned
    rest,       \* stories this phase of the tick has still to look at
    slots,      \* free_device_slots of the tick
    used,       \* dispatched_this_tick
    crashes

manifest == <<status, attempts, lease, agent, paused>>
agents == <<live, orphans, launches>>
locals == <<job, outcome, rest, slots, used>>
vars == <<holders, manifest, agents, pc, locals, crashes>>

Lock == INSTANCE PlanMutex WITH Threads <- Actors

Statuses == {"todo", "interrupted", "in_progress", "tests_passed", "failed", "parked", "pr_open"}
Dispatchable == {"todo", "interrupted"}

Goto(a, l) == pc' = [pc EXCEPT ![a] = l]
Set(s, st) == status' = [status EXCEPT ![s] = st]

\* Stories whose recorded agent still runs, the ones that hold a slot.
Running == {s \in Stories : status[s] = "in_progress" /\ agent[s] \in live[s]}

\* SIGTERM to the recorded agents of some stories, which become resumable.
Interrupted(ss) ==
    /\ status' = [s \in Stories |-> IF s \in ss THEN "interrupted" ELSE status[s]]
    /\ live' = [s \in Stories |-> IF s \in ss THEN live[s] \ {agent[s]} ELSE live[s]]

Init ==
    /\ holders = {}
    /\ status = [s \in Stories |-> "todo"]
    /\ attempts = [s \in Stories |-> 0]
    /\ lease = [s \in Stories |-> None]
    /\ agent = [s \in Stories |-> 0]
    /\ paused = FALSE
    /\ live = [s \in Stories |-> {}]
    /\ orphans = [s \in Stories |-> {}]
    /\ launches = [s \in Stories |-> 0]
    /\ pc = [a \in Actors |-> "idle"]
    /\ job = [a \in Actors |-> None]
    /\ outcome = [t \in Tickers |-> "none"]
    /\ rest = [t \in Tickers |-> {}]
    /\ slots = [t \in Tickers |-> 0]
    /\ used = [t \in Tickers |-> 0]
    /\ crashes = 0
-----------------------------------------------------------------------------
\* The tick: _advance_pipeline_locked_impl.

\* A paused plan: every story with an agent is interrupted, nothing else.
TickPaused(t) ==
    /\ pc[t] = "idle" /\ holders = {} /\ paused
    /\ Interrupted({s \in Stories : status[s] = "in_progress" /\ agent[s] # 0})
    /\ UNCHANGED <<holders, attempts, lease, agent, paused, orphans, launches,
                   pc, locals, crashes>>

\* Some running stories are interrupted by their backend's gate; the stories to
\* dispatch were listed before that, the free slots are counted after it.
StartTick(t) ==
    /\ pc[t] = "idle" /\ ~paused
    /\ Lock!Enter(t)
    /\ \E gated \in SUBSET {s \in Stories : status[s] = "in_progress" /\ agent[s] # 0} :
        /\ Interrupted(gated)
        /\ slots' = [slots EXCEPT ![t] =
                        LET busy == Cardinality(Running \ gated)
                        IN  IF busy < MaxAgents THEN MaxAgents - busy ELSE 0]
    /\ rest' = [rest EXCEPT ![t] = {s \in Stories : status[s] \in Dispatchable}]
    /\ used' = [used EXCEPT ![t] = 0]
    /\ Goto(t, "claim")
    /\ UNCHANGED <<attempts, lease, agent, paused, orphans, launches, job, outcome, crashes>>

\* The story is gated, out of slots, or no longer free in the fresh read.
SkipStory(t) ==
    /\ pc[t] \in {"claim", "poll"}
    /\ \E s \in rest[t] : rest' = [rest EXCEPT ![t] = @ \ {s}]
    /\ UNCHANGED <<holders, manifest, agents, pc, job, outcome, slots, used, crashes>>

\* Mutant of Claim: the lease is not persisted before the window.
Claim_NotPersisted(t) ==
    /\ pc[t] = "claim" /\ used[t] < MaxPerTick
    /\ MaxAgents = 0 \/ slots[t] > 0
    /\ \E s \in rest[t] :
        /\ status[s] \in Dispatchable /\ lease[s] = None
        /\ job' = [job EXCEPT ![t] = s]
        /\ rest' = [rest EXCEPT ![t] = @ \ {s}]
    /\ slots' = [slots EXCEPT ![t] = IF @ > 0 THEN @ - 1 ELSE 0]
    /\ Lock!Leave(t)
    /\ Goto(t, "window")
    /\ UNCHANGED <<manifest, agents, outcome, used, crashes>>

\* Mutant of Claim: the status is the one listed at the start of the tick.
Claim_StaleStatus(t) ==
    /\ pc[t] = "claim" /\ used[t] < MaxPerTick
    /\ MaxAgents = 0 \/ slots[t] > 0
    /\ \E s \in rest[t] :
        /\ lease[s] = None
        /\ lease' = [lease EXCEPT ![s] = t]
        /\ job' = [job EXCEPT ![t] = s]
        /\ rest' = [rest EXCEPT ![t] = @ \ {s}]
    /\ slots' = [slots EXCEPT ![t] = IF @ > 0 THEN @ - 1 ELSE 0]
    /\ Lock!Leave(t)
    /\ Goto(t, "window")
    /\ UNCHANGED <<status, attempts, agent, paused, agents, outcome, used, crashes>>

\* The lease is claimed against a fresh read of the manifest and persisted, and
\* the window around dispatch_story opens.
Claim(t) ==
    /\ pc[t] = "claim" /\ used[t] < MaxPerTick
    /\ MaxAgents = 0 \/ slots[t] > 0
    /\ \E s \in rest[t] :
        /\ status[s] \in Dispatchable /\ lease[s] = None
        /\ lease' = [lease EXCEPT ![s] = t]
        /\ job' = [job EXCEPT ![t] = s]
        /\ rest' = [rest EXCEPT ![t] = @ \ {s}]
    /\ slots' = [slots EXCEPT ![t] = IF @ > 0 THEN @ - 1 ELSE 0]
    /\ Lock!Leave(t)
    /\ Goto(t, "window")
    /\ UNCHANGED <<status, attempts, agent, paused, agents, outcome, used, crashes>>

\* The dispatch loop ends, and the stories to poll are read afresh.
EndDispatch(t) ==
    /\ pc[t] = "claim" /\ (rest[t] = {} \/ used[t] >= MaxPerTick)
    /\ rest' = [rest EXCEPT ![t] = {s \in Stories : status[s] = "in_progress" /\ agent[s] # 0}]
    /\ Goto(t, "poll")
    /\ UNCHANGED <<holders, manifest, agents, job, outcome, slots, used, crashes>>

\* _escalate_to_claude: the worktree is wiped and the story starts clean.
Escalate(s) ==
    /\ Set(s, "todo")
    /\ attempts' = [attempts EXCEPT ![s] = 0]
    /\ agent' = [agent EXCEPT ![s] = 0]

\* check_story_status of an agent that is gone: no output at all counts as a
\* failed launch; an infrastructure failure or the step cap only interrupts; a
\* grade clears the counters, and a failed one may escalate.
PollGone(t) ==
    /\ pc[t] = "poll"
    /\ \E s \in rest[t] :
        /\ status[s] = "in_progress" /\ agent[s] \notin live[s]
        /\ rest' = [rest EXCEPT ![t] = @ \ {s}]
        /\ \/ /\ attempts' = [attempts EXCEPT ![s] = @ + 1]
              /\ Set(s, IF attempts[s] + 1 >= MaxAttempts THEN "failed" ELSE "interrupted")
              /\ UNCHANGED agent
           \/ Set(s, "interrupted") /\ UNCHANGED <<attempts, agent>>
           \/ /\ \E st \in {"tests_passed", "failed", "interrupted", "parked"} : Set(s, st)
              /\ attempts' = [attempts EXCEPT ![s] = 0]
              /\ UNCHANGED agent
           \/ Escalate(s)
    /\ UNCHANGED <<holders, lease, paused, agents, pc, job, outcome, slots, used, crashes>>

\* Mutant of PollHung: the story resumes though the agent is not terminated.
PollHung_LeavesAgent(t) ==
    /\ pc[t] = "poll"
    /\ \E s \in rest[t] \cap Running :
        /\ rest' = [rest EXCEPT ![t] = @ \ {s}]
        /\ \/ Set(s, "interrupted") /\ UNCHANGED <<attempts, agent>>
           \/ Escalate(s)
    /\ UNCHANGED <<holders, lease, paused, agents, pc, job, outcome, slots, used, crashes>>

\* check_story_status of an agent past its watchdog: it is terminated and the
\* story resumes, or is escalated when it has hung too often.
PollHung(t) ==
    /\ pc[t] = "poll"
    /\ \E s \in rest[t] \cap Running :
        /\ rest' = [rest EXCEPT ![t] = @ \ {s}]
        /\ live' = [live EXCEPT ![s] = @ \ {agent[s]}]
        /\ \/ Set(s, "interrupted") /\ UNCHANGED <<attempts, agent>>
           \/ Escalate(s)
    /\ UNCHANGED <<holders, lease, paused, orphans, launches, pc, job, outcome,
                   slots, used, crashes>>

EndTick(t) ==
    /\ pc[t] = "poll" /\ rest[t] = {}
    /\ Lock!Leave(t)
    /\ Goto(t, "idle")
    /\ UNCHANGED <<manifest, agents, locals, crashes>>
-----------------------------------------------------------------------------
\* dispatch_story, from a tick's window or from an operator's call.

Return(a, result) ==
    /\ Lock!Leave(a)
    /\ Goto(a, IF a \in Tickers THEN "reacquire" ELSE "idle")
    /\ job' = IF a \in Tickers THEN job ELSE [job EXCEPT ![a] = None]
    /\ outcome' = [t \in Tickers |-> IF t = a THEN result ELSE outcome[t]]

\* The transaction finds the lock busy; an operator's call just returns.
DispatchLocked(t) ==
    /\ pc[t] = "window" /\ holders # {}
    /\ Goto(t, "reacquire")
    /\ outcome' = [outcome EXCEPT ![t] = "skipped"]
    /\ UNCHANGED <<holders, manifest, agents, job, rest, slots, used, crashes>>

EnterDispatch(t) ==
    /\ pc[t] = "window"
    /\ Lock!Enter(t)
    /\ Goto(t, "dispatch")
    /\ UNCHANGED <<manifest, agents, locals, crashes>>

\* The counter is not asked.  Bound: operators stop when it passes MaxAttempts.
OperatorDispatch(o) ==
    /\ OperatorsDispatch /\ pc[o] = "idle"
    /\ Lock!Enter(o)
    /\ \E s \in Stories : attempts[s] <= MaxAttempts /\ job' = [job EXCEPT ![o] = s]
    /\ Goto(o, "dispatch")
    /\ UNCHANGED <<manifest, agents, outcome, rest, slots, used, crashes>>

\* A refused status, a key conflict, a failed fetch, worktree or backend.
Refuse(a) ==
    /\ pc[a] = "dispatch"
    /\ Return(a, "refused")
    /\ UNCHANGED <<manifest, agents, rest, slots, used, crashes>>

\* The worktree of a resumed story does not rebase.  (That it has one is
\* over-approximated by an earlier launch.)
Park(a) ==
    /\ pc[a] = "dispatch" /\ status[job[a]] # "pr_open" /\ launches[job[a]] > 0
    /\ Set(job[a], "parked")
    /\ Return(a, "launched")
    /\ UNCHANGED <<attempts, lease, agent, paused, agents, rest, slots, used, crashes>>

Launch(a) ==
    LET s == job[a]
    IN  /\ pc[a] = "dispatch" /\ status[s] # "pr_open"
        /\ launches[s] < MaxLaunches
        /\ launches' = [launches EXCEPT ![s] = @ + 1]
        /\ live' = [live EXCEPT ![s] = @ \cup {launches[s] + 1}]
        /\ Goto(a, "record")
        /\ UNCHANGED <<holders, manifest, orphans, locals, crashes>>

\* Mutant of Record: the pid of the earlier dispatch stays.
Record_KeepsPid(a) ==
    /\ pc[a] = "record"
    /\ Set(job[a], "in_progress")
    /\ Return(a, "launched")
    /\ UNCHANGED <<attempts, lease, agent, paused, agents, rest, slots, used, crashes>>

Record(a) ==
    /\ pc[a] = "record"
    /\ Set(job[a], "in_progress")
    /\ agent' = [agent EXCEPT ![job[a]] = launches[job[a]]]
    /\ Return(a, "launched")
    /\ UNCHANGED <<attempts, lease, paused, agents, rest, slots, used, crashes>>
-----------------------------------------------------------------------------
\* The end of the tick's window.

Settle(t) ==
    /\ lease' = [lease EXCEPT ![job[t]] = None]
    /\ job' = [job EXCEPT ![t] = None]
    /\ outcome' = [outcome EXCEPT ![t] = "none"]
    /\ Goto(t, "claim")

\* dispatch_story ran, launched or was locked out.
SettleReturned(t) ==
    /\ pc[t] = "reacquire" /\ outcome[t] # "refused"
    /\ Lock!Enter(t)
    /\ Settle(t)
    /\ used' = [used EXCEPT ![t] = @ + 1]
    /\ UNCHANGED <<status, attempts, agent, paused, agents, rest, slots, crashes>>

\* Mutant of SettleRefused: the last attempt does not end the story.
SettleRefused_NeverFails(t) ==
    /\ pc[t] = "reacquire" /\ outcome[t] = "refused"
    /\ Lock!Enter(t)
    /\ Settle(t)
    /\ attempts' = [attempts EXCEPT ![job[t]] = @ + 1]
    /\ UNCHANGED <<status, agent, paused, agents, rest, slots, used, crashes>>

\* dispatch_story failed: the attempt counts, and the last one ends the story.
SettleRefused(t) ==
    LET s == job[t]
    IN  /\ pc[t] = "reacquire" /\ outcome[t] = "refused"
        /\ Lock!Enter(t)
        /\ Settle(t)
        /\ attempts' = [attempts EXCEPT ![s] = @ + 1]
        /\ status' = IF attempts[s] + 1 >= MaxAttempts
                       THEN [status EXCEPT ![s] = "failed"] ELSE status
        /\ UNCHANGED <<agent, paused, agents, rest, slots, used, crashes>>

\* Mutant of ReacquireTimeout: it is handled like a failed dispatch, without
\* the lock.
ReacquireTimeout_CountsFailure(t) ==
    /\ pc[t] = "reacquire" /\ holders # {}
    /\ Goto(t, "idle")
    /\ lease' = [lease EXCEPT ![job[t]] = None]
    /\ attempts' = [attempts EXCEPT ![job[t]] = @ + 1]
    /\ status' = IF attempts[job[t]] + 1 >= MaxAttempts
                   THEN [status EXCEPT ![job[t]] = "failed"] ELSE status
    /\ job' = [job EXCEPT ![t] = None]
    /\ outcome' = [outcome EXCEPT ![t] = "none"]
    /\ rest' = [rest EXCEPT ![t] = {}]
    /\ UNCHANGED <<holders, agent, paused, agents, slots, used, crashes>>

\* Mutant of ReacquireTimeout: the window waits for the lock without limit.
ReacquireTimeout_Never(t) == FALSE /\ UNCHANGED <<vars, t>>

\* The lock stayed busy: the tick is aborted without touching the manifest, so
\* the lease stays until it lapses.
ReacquireTimeout(t) ==
    /\ pc[t] = "reacquire" /\ holders # {}
    /\ Goto(t, "idle")
    /\ job' = [job EXCEPT ![t] = None]
    /\ outcome' = [outcome EXCEPT ![t] = "none"]
    /\ rest' = [rest EXCEPT ![t] = {}]
    /\ UNCHANGED <<holders, manifest, agents, slots, used, crashes>>
-----------------------------------------------------------------------------
\* Operators, agents, time and crashes.

\* interrupt_story asks for a pid, not for a status, so it revives a story that
\* failed.  The same bound.
Interrupt(o) ==
    /\ pc[o] = "idle" /\ holders = {}
    /\ \E s \in Stories :
        agent[s] # 0 /\ attempts[s] <= MaxAttempts /\ Interrupted({s})
    /\ UNCHANGED <<holders, attempts, lease, agent, paused, orphans, launches,
                   pc, locals, crashes>>

\* set_story_status on a story that gave up; it leaves the counter, which a
\* further failure exceeds at once.  The same bound.
Retry(o) ==
    /\ pc[o] = "idle" /\ holders = {}
    /\ \E s \in Stories :
        /\ status[s] \in {"failed", "parked"} /\ attempts[s] <= MaxAttempts
        /\ Set(s, "todo")
    /\ UNCHANGED <<holders, attempts, lease, agent, paused, agents, pc, locals, crashes>>

SetPlanPaused(o) ==
    /\ pc[o] = "idle" /\ holders = {}
    /\ paused' = ~paused
    /\ UNCHANGED <<holders, status, attempts, lease, agent, agents, pc, locals, crashes>>

AgentExits ==
    /\ \E s \in Stories :
        \/ \E n \in live[s] : live' = [live EXCEPT ![s] = @ \ {n}] /\ UNCHANGED orphans
        \/ \E n \in orphans[s] : orphans' = [orphans EXCEPT ![s] = @ \ {n}] /\ UNCHANGED live
    /\ UNCHANGED <<holders, manifest, launches, pc, locals, crashes>>

InWindow(t, s) == job[t] = s /\ pc[t] \in {"window", "dispatch", "record", "reacquire"}

\* Mutant of LeaseLapses: a lease has no expiry.
LeaseLapses_Never(s) == FALSE /\ UNCHANGED <<vars, s>>

\* The lease expires.  Its time to live is assumed to exceed a window.
LeaseLapses(s) ==
    /\ lease[s] # None /\ ~InWindow(lease[s], s)
    /\ lease' = [lease EXCEPT ![s] = None]
    /\ UNCHANGED <<holders, status, attempts, agent, paused, agents, pc, locals, crashes>>

\* The ticker's process dies: its leases are dead with it, unless its pid is in
\* use again, and an agent it launched but did not record has no record.
Crash(t) ==
    /\ pc[t] # "idle" /\ crashes < MaxCrashes /\ crashes' = crashes + 1
    /\ holders' = holders \ {t}
    /\ \/ lease' = [s \in Stories |-> IF lease[s] = t THEN None ELSE lease[s]]
       \/ UNCHANGED lease
    /\ IF pc[t] = "record" /\ launches[job[t]] \in live[job[t]]
         THEN /\ live' = [live EXCEPT ![job[t]] = @ \ {launches[job[t]]}]
              /\ orphans' = [orphans EXCEPT ![job[t]] = @ \cup {launches[job[t]]}]
         ELSE UNCHANGED <<live, orphans>>
    /\ Goto(t, "idle")
    /\ job' = [job EXCEPT ![t] = None]
    /\ outcome' = [outcome EXCEPT ![t] = "none"]
    /\ rest' = [rest EXCEPT ![t] = {}]
    /\ UNCHANGED <<status, attempts, agent, paused, launches, slots, used>>
-----------------------------------------------------------------------------
Dispatch(a) == Refuse(a) \/ Park(a) \/ Launch(a) \/ Record(a)

TickStep(t) ==
    \/ TickPaused(t) \/ StartTick(t) \/ SkipStory(t) \/ Claim(t) \/ EndDispatch(t)
    \/ PollGone(t) \/ PollHung(t) \/ EndTick(t)
    \/ DispatchLocked(t) \/ EnterDispatch(t)
    \/ SettleReturned(t) \/ SettleRefused(t) \/ ReacquireTimeout(t)

OperatorStep(o) == OperatorDispatch(o) \/ Interrupt(o) \/ Retry(o) \/ SetPlanPaused(o)

Next ==
    \/ \E t \in Tickers : TickStep(t) \/ Crash(t)
    \/ \E o \in Operators : OperatorStep(o)
    \/ \E a \in Actors : Dispatch(a)
    \/ AgentExits
    \/ \E s \in Stories : LeaseLapses(s)

SafeSpec == Init /\ [][Next]_vars

\* A tick that has started runs to its end, and time passes.  Nothing starts a
\* tick, ends an agent or makes an operator act.
Proceeds(t) == pc[t] # "idle" /\ (TickStep(t) \/ Dispatch(t))

Spec ==
    /\ SafeSpec
    /\ \A t \in Tickers : WF_vars(Proceeds(t))
    /\ \A s \in Stories : WF_vars(LeaseLapses(s))
-----------------------------------------------------------------------------
TypeOK ==
    /\ holders \subseteq Actors
    /\ status \in [Stories -> Statuses]
    /\ attempts \in [Stories -> 0..MaxAttempts + Cardinality(Actors)]
    /\ lease \in [Stories -> Tickers \cup {None}]
    /\ agent \in [Stories -> 0..MaxLaunches]
    /\ paused \in BOOLEAN
    /\ live \in [Stories -> SUBSET (1..MaxLaunches)]
    /\ orphans \in [Stories -> SUBSET (1..MaxLaunches)]
    /\ launches \in [Stories -> 0..MaxLaunches]
    /\ pc \in [Actors -> {"idle", "claim", "window", "dispatch", "record", "reacquire", "poll"}]
    /\ job \in [Actors -> Stories \cup {None}]
    /\ outcome \in [Tickers -> {"none", "skipped", "refused", "launched"}]
    /\ rest \in [Tickers -> SUBSET Stories]
    /\ slots \in [Tickers -> 0..MaxAgents]
    /\ used \in [Tickers -> 0..MaxPerTick]
    /\ crashes \in 0..MaxCrashes

\* Ticks never put two agents to work in one worktree, whatever operators,
\* timeouts and crashes do to the windows between them; an agent that nobody
\* finds any more takes the death of its launcher, so there is at most one for
\* each crash.
OneWorkingAgent ==
    \A s \in Stories : Cardinality(live[s]) <= 1 /\ Cardinality(orphans[s]) <= crashes

\* Every agent at work is the one the manifest names, in a story that is in
\* progress, or is about to be recorded: no poll, pause or watchdog misses it,
\* and no failure handler gave up on the story while it runs.
NoStrayAgent ==
    \A s \in Stories : \A n \in live[s] :
        \/ status[s] = "in_progress" /\ agent[s] = n
        \/ \E a \in Actors : pc[a] = "record" /\ job[a] = s /\ n = launches[s]

\* From the claim to the settling of the result the lease on disk is the tick's
\* own, so it alone dispatches the story and it clears no lease but its own.
LeaseCoversWindow ==
    \A t \in Tickers, s \in Stories : InWindow(t, s) => lease[s] = t

\* A failure is never counted against a story whose agent is at work: an aborted
\* tick does not mistake a dispatch that succeeded for one that failed.
FailuresAreReal ==
    [][\A s \in Stories : attempts'[s] > attempts[s] => live[s] = {}]_vars

\* The agent of a story, and the one that the manifest names.
AtWork(s) == IF live[s] = {} THEN 0 ELSE CHOOSE n \in live[s] : TRUE
Named(s) == IF s \in Running THEN agent[s] ELSE 0

Agents == INSTANCE StoryAgents WITH
    atWork <- [s \in Stories |-> AtWork(s)],
    named <- [s \in Stories |-> Named(s)],
    launched <- launches

\* A story's agents come one after the other: no tick launches the next before
\* the last has ended, and none stops naming one that is at work, neither a poll
\* that gives up on a story nor the settling of a window.
ImplementsStoryAgents == Agents!Spec

\* A lease never withholds a story for ever, even when the tick that owns it
\* was aborted or its process died.
LeaseEnds == \A s \in Stories : lease[s] # None ~> lease[s] = None

\* A tick that has opened a window ends, even if it never gets the lock back.
TickEnds == \A t \in Tickers : pc[t] # "idle" ~> pc[t] = "idle"

\* The docstring of dispatch_story: the plan lock keeps direct calls from
\* starting a second agent in the same directory.
OneAgentPerWorktree ==
    \A s \in Stories : Cardinality(live[s] \cup orphans[s]) <= 1

\* The comment on MAX_CONCURRENT_AGENTS: a cap on agents running at once.
WithinCap == MaxAgents > 0 => Cardinality(UNION {{s} \X live[s] : s \in Stories}) <= MaxAgents

\* The docstring of pause_plan: no new dispatch.
PausedStartsNothing ==
    [][paused /\ paused' => launches' = launches]_vars
=============================================================================
