--------------------------- MODULE AdvanceRuntime ----------------------------
(***************************************************************************)
(* The queue-mode runtime of the scheduler: the advance queue, the pool of *)
(* worker threads that drains it (pipeline/advance_workers.py), the long-  *)
(* lived child process each thread talks to over two pipes                 *)
(* (pipeline/advance_worker.py), the events and the stale-plan sweep that  *)
(* feed the queue and the stop sequence (pipeline/advance_runtime.py).     *)
(*                                                                         *)
(* A child is "idle" (blocked on its input), "busy" (advancing work[w]),   *)
(* "leaving" (its loop returned, the process not gone yet) or "dead"; a    *)
(* thread that holds none has "none".  One thread owns one child, so both  *)
(* are indexed by the thread.                                              *)
(***************************************************************************)
EXTENDS AdvanceQueue, FiniteSets

CONSTANTS
    Workers,    \* the pool's threads
    NoPlan,     \* no plan: an empty pipe, a thread between plans
    MaxUpsets   \* bound: crashes, recycles, timeouts, bad lines, failed spawns

ASSUME RuntimeAssumption == NoPlan \notin Plans /\ MaxUpsets \in Nat

VARIABLES
    pc,         \* where each thread is in _run and _advance
    job,        \* the plan each thread took
    child,      \* the state of the thread's child process
    work,       \* the plan the child is advancing
    reply,      \* the plan of the result line waiting in the output pipe
    inputOpen,  \* whether the parent's end of the input pipe is open
    fresh,      \* plans whose last_advanced is within the staleness bound
    stopPc,     \* how far stop() has got; "no" before it is called
    listed,     \* threads whose present child is in stop()'s copy of _children
    upsets      \* how many upsets have happened

poolVars == <<pc, job, child, work, reply, inputOpen>>
stopVars == <<stopPc, listed>>
vars == <<queueVars, poolVars, fresh, stopVars, upsets>>

Stopping == stopPc \notin {"no", "unhooked"}

Init ==
    /\ QueueInit
    /\ pc = [w \in Workers |-> "loop"]
    /\ job = [w \in Workers |-> NoPlan]
    /\ child = [w \in Workers |-> "none"]
    /\ work = [w \in Workers |-> NoPlan]
    /\ reply = [w \in Workers |-> NoPlan]
    /\ inputOpen = [w \in Workers |-> FALSE]
    /\ fresh = {}
    /\ stopPc = "no"
    /\ listed = {}
    /\ upsets = 0

Upset == upsets < MaxUpsets /\ upsets' = upsets + 1
-----------------------------------------------------------------------------
\* Who asks: an event through the wake hook, and the sweep for a stale plan.

WakeEvent(p) ==
    /\ stopPc = "no"
    /\ Request(p)
    /\ UNCHANGED <<poolVars, fresh, stopVars, upsets>>

Sweep(p) ==
    /\ p \notin fresh
    /\ Request(p)
    /\ UNCHANGED <<poolVars, fresh, stopVars, upsets>>

\* Time passes: last_advanced falls out of the staleness bound.
Expire(p) ==
    /\ p \in fresh
    /\ fresh' = fresh \ {p}
    /\ UNCHANGED <<queueVars, poolVars, stopVars, upsets>>
-----------------------------------------------------------------------------
\* The worker thread.

Goto(w, l) == pc' = [pc EXCEPT ![w] = l]

\* terminate() and close(): the process is gone and the pipes with it, so an
\* advance it was running is cut short and a line it had written is lost.
Discard(w) ==
    /\ child' = [child EXCEPT ![w] = "none"]
    /\ work' = [work EXCEPT ![w] = NoPlan]
    /\ reply' = [reply EXCEPT ![w] = NoPlan]
    /\ inputOpen' = [inputOpen EXCEPT ![w] = FALSE]

KeepChild == UNCHANGED <<child, work, reply, inputOpen>>

\* Mutant of CheckStopping: only the queue's end is looked at.
CheckStopping_Ignored(w) ==
    /\ pc[w] = "loop" /\ Goto(w, "taking")
    /\ KeepChild
    /\ UNCHANGED <<queueVars, job, fresh, stopVars, upsets>>

\* The check of _stopping at the head of the loop; a thread that leaves drops
\* its child first.
CheckStopping(w) ==
    /\ pc[w] = "loop"
    /\ \/ ~Stopping /\ Goto(w, "taking") /\ KeepChild
       \/ Stopping /\ Goto(w, "exited") /\ Discard(w)
    /\ UNCHANGED <<queueVars, job, fresh, stopVars, upsets>>

TakePlan(w) ==
    /\ pc[w] = "taking"
    /\ \E p \in Plans : Take(p) /\ job' = [job EXCEPT ![w] = p]
    /\ Goto(w, "took")
    /\ KeepChild
    /\ UNCHANGED <<fresh, stopVars, upsets>>

\* take() returns None: its timeout passed, or the queue is closed.
TakeNothing(w) ==
    /\ pc[w] = "taking"
    /\ closed \/ queue = << >>
    /\ Goto(w, "loop")
    /\ KeepChild
    /\ UNCHANGED <<queueVars, job, fresh, stopVars, upsets>>

\* poll() saw a dead child before a new request is sent to it.
ReapDead(w) ==
    /\ pc[w] = "took" /\ child[w] = "dead"
    /\ Discard(w)
    /\ UNCHANGED <<pc, job, queueVars, fresh, stopVars, upsets>>

Reuse(w) ==
    /\ pc[w] = "took" /\ child[w] \in {"idle", "leaving"}
    /\ Goto(w, "send")
    /\ KeepChild
    /\ UNCHANGED <<job, queueVars, fresh, stopVars, upsets>>

\* A new child is appended to _children: a copy made before lacks it.
Spawn(w) ==
    /\ pc[w] = "took" /\ child[w] = "none"
    /\ child' = [child EXCEPT ![w] = "idle"]
    /\ inputOpen' = [inputOpen EXCEPT ![w] = TRUE]
    /\ listed' = listed \ {w}
    /\ Goto(w, "send")
    /\ UNCHANGED <<job, work, reply, queueVars, fresh, stopPc, upsets>>

SpawnFails(w) ==
    /\ pc[w] = "took" /\ child[w] = "none"
    /\ Upset
    /\ Goto(w, "finish")
    /\ KeepChild
    /\ UNCHANGED <<job, queueVars, fresh, stopVars>>

\* The write fails when stop() closed the input or the child is gone.  A child
\* that is on its way out takes the line and never reads it.
Send(w) ==
    /\ pc[w] = "send"
    /\ \/ /\ ~inputOpen[w] \/ child[w] = "dead"
          /\ Discard(w)
          /\ Goto(w, "finish")
       \/ /\ inputOpen[w] /\ child[w] = "idle"
          /\ child' = [child EXCEPT ![w] = "busy"]
          /\ work' = [work EXCEPT ![w] = job[w]]
          /\ UNCHANGED <<reply, inputOpen>>
          /\ Goto(w, "reading")
       \/ /\ inputOpen[w] /\ child[w] = "leaving"
          /\ KeepChild
          /\ Goto(w, "reading")
    /\ UNCHANGED <<job, queueVars, fresh, stopVars, upsets>>

ReadReply(w) ==
    /\ pc[w] = "reading" /\ reply[w] # NoPlan
    /\ reply' = [reply EXCEPT ![w] = NoPlan]
    /\ Goto(w, "finish")
    /\ UNCHANGED <<job, child, work, inputOpen, queueVars, fresh, stopVars, upsets>>

\* The line is not a JSON object: the child is recycled.
ReadGarbage(w) ==
    /\ pc[w] = "reading" /\ reply[w] # NoPlan
    /\ Upset
    /\ Discard(w)
    /\ Goto(w, "finish")
    /\ UNCHANGED <<job, queueVars, fresh, stopVars>>

\* Mutant of ReadEof: no finally around the advance, so no finish().
ReadEof_NoFinish(w) ==
    /\ pc[w] = "reading" /\ reply[w] = NoPlan /\ child[w] = "dead"
    /\ Discard(w)
    /\ Goto(w, "loop")
    /\ job' = [job EXCEPT ![w] = NoPlan]
    /\ UNCHANGED <<queueVars, fresh, stopVars, upsets>>

\* The child closed its pipe without an answer.
ReadEof(w) ==
    /\ pc[w] = "reading" /\ reply[w] = NoPlan /\ child[w] = "dead"
    /\ Discard(w)
    /\ Goto(w, "finish")
    /\ UNCHANGED <<job, queueVars, fresh, stopVars, upsets>>

\* Mutant of ReadTimeout: the child that missed its deadline is kept.
ReadTimeout_KeepsChild(w) ==
    /\ pc[w] = "reading" /\ reply[w] = NoPlan /\ child[w] # "dead"
    /\ Upset
    /\ KeepChild
    /\ Goto(w, "finish")
    /\ UNCHANGED <<job, queueVars, fresh, stopVars>>

ReadTimeout(w) ==
    /\ pc[w] = "reading" /\ reply[w] = NoPlan /\ child[w] # "dead"
    /\ Upset
    /\ Discard(w)
    /\ Goto(w, "finish")
    /\ UNCHANGED <<job, queueVars, fresh, stopVars>>

\* finish() stamps last_advanced, whatever became of the advance.
FinishPlan(w) ==
    /\ pc[w] = "finish"
    /\ Finish(job[w])
    /\ fresh' = fresh \cup {job[w]}
    /\ job' = [job EXCEPT ![w] = NoPlan]
    /\ Goto(w, "loop")
    /\ KeepChild
    /\ UNCHANGED <<stopVars, upsets>>

WorkerStep(w) ==
    \/ CheckStopping(w) \/ TakePlan(w) \/ TakeNothing(w)
    \/ ReapDead(w) \/ Reuse(w) \/ Spawn(w) \/ Send(w)
    \/ ReadReply(w) \/ ReadEof(w) \/ FinishPlan(w)

WorkerUpset(w) == SpawnFails(w) \/ ReadGarbage(w) \/ ReadTimeout(w)
-----------------------------------------------------------------------------
\* The child process.

\* The advance ends and its line is written; then the child reads on, or
\* recycles itself (request cap reached, or the operator edited the env file).
ChildAnswers(w) ==
    /\ child[w] = "busy"
    /\ reply' = [reply EXCEPT ![w] = work[w]]
    /\ work' = [work EXCEPT ![w] = NoPlan]
    /\ \/ child' = [child EXCEPT ![w] = "idle"] /\ UNCHANGED upsets
       \/ child' = [child EXCEPT ![w] = "leaving"] /\ Upset
    /\ UNCHANGED <<pc, job, inputOpen, queueVars, fresh, stopVars>>

\* The end of a recycling child, or of one that reads EOF.
ChildExits(w) ==
    /\ child[w] = "leaving" \/ (child[w] = "idle" /\ ~inputOpen[w])
    /\ child' = [child EXCEPT ![w] = "dead"]
    /\ UNCHANGED <<pc, job, work, reply, inputOpen, queueVars, fresh, stopVars, upsets>>

ChildCrashes(w) ==
    /\ child[w] \in {"idle", "busy", "leaving"}
    /\ Upset
    /\ child' = [child EXCEPT ![w] = "dead"]
    /\ work' = [work EXCEPT ![w] = NoPlan]
    /\ UNCHANGED <<pc, job, reply, inputOpen, queueVars, fresh, stopVars>>
-----------------------------------------------------------------------------
\* stop(): the hook goes first, then the pool.

StopUnhooks ==
    /\ stopPc = "no" /\ stopPc' = "unhooked"
    /\ UNCHANGED <<listed, queueVars, poolVars, fresh, upsets>>

StopSets ==
    /\ stopPc = "unhooked" /\ stopPc' = "stopping"
    /\ UNCHANGED <<listed, queueVars, poolVars, fresh, upsets>>

StopCloses ==
    /\ stopPc = "stopping" /\ stopPc' = "closed"
    /\ Close
    /\ UNCHANGED <<listed, poolVars, fresh, upsets>>

StopLists ==
    /\ stopPc = "closed" /\ stopPc' = "listed"
    /\ listed' = {w \in Workers : child[w] # "none"}
    /\ UNCHANGED <<queueVars, poolVars, fresh, upsets>>

StopClosesInputs ==
    /\ stopPc = "listed" /\ stopPc' = "joining"
    /\ inputOpen' = [w \in Workers |-> inputOpen[w] /\ w \notin listed]
    /\ UNCHANGED <<listed, pc, job, child, work, reply, queueVars, fresh, upsets>>

\* The join ends with the threads or with its deadline; either way the listed
\* children still running are terminated.
StopTerminates ==
    /\ stopPc = "joining" /\ stopPc' = "terminated"
    /\ child' = [w \in Workers |->
                    IF w \in listed /\ child[w] # "none" THEN "dead" ELSE child[w]]
    /\ work' = [w \in Workers |-> IF w \in listed THEN NoPlan ELSE work[w]]
    /\ UNCHANGED <<listed, pc, job, reply, inputOpen, queueVars, fresh, upsets>>

\* The last join, of one second per thread, and the return.
StopReturns ==
    /\ stopPc = "terminated" /\ stopPc' = "returned"
    /\ UNCHANGED <<listed, queueVars, poolVars, fresh, upsets>>

StopStep ==
    \/ StopUnhooks \/ StopSets \/ StopCloses \/ StopLists
    \/ StopClosesInputs \/ StopTerminates \/ StopReturns
-----------------------------------------------------------------------------
Next ==
    \/ StopStep
    \/ \E p \in Plans : WakeEvent(p) \/ Sweep(p) \/ Expire(p)
    \/ \E w \in Workers : \/ WorkerStep(w) \/ WorkerUpset(w)
                          \/ ChildAnswers(w) \/ ChildExits(w) \/ ChildCrashes(w)

\* Threads are scheduled, time passes, the daemon loop keeps sweeping, an
\* advance that is not cut short ends and a process told to exit exits.
\* stop() may never be called, but once begun it goes on.
Fairness ==
    /\ \A w \in Workers : /\ WF_vars(WorkerStep(w))
                          /\ WF_vars(ChildAnswers(w))
                          /\ WF_vars(ChildExits(w))
    /\ \A p \in Plans : WF_vars(Sweep(p)) /\ WF_vars(Expire(p))
    /\ WF_vars(StopStep /\ stopPc # "no")

SafeSpec == Init /\ [][Next]_vars

Spec == SafeSpec /\ Fairness
-----------------------------------------------------------------------------
TypeOK ==
    /\ QueueTypeOK
    /\ pc \in [Workers -> {"loop", "taking", "took", "send", "reading", "finish", "exited"}]
    /\ job \in [Workers -> Plans \cup {NoPlan}]
    /\ child \in [Workers -> {"none", "idle", "busy", "leaving", "dead"}]
    /\ work \in [Workers -> Plans \cup {NoPlan}]
    /\ reply \in [Workers -> Plans \cup {NoPlan}]
    /\ inputOpen \in [Workers -> BOOLEAN]
    /\ fresh \subseteq Plans
    /\ stopPc \in {"no", "unhooked", "stopping", "closed", "listed", "joining",
                   "terminated", "returned"}
    /\ listed \subseteq Workers
    /\ upsets \in 0..MaxUpsets

\* No plan is advanced by two children at once, however requests, timeouts,
\* recycles and the stop interleave: the reason the queue tracks in-flight plans.
OneAdvancePerPlan ==
    \A v, w \in Workers : v # w /\ child[v] = "busy" /\ child[w] = "busy"
                            => work[v] # work[w]

\* A result line in a pipe answers the request its thread is waiting on: the
\* protocol has no request ids, so one line out of step would attribute every
\* later result to the wrong plan.
ReplyIsForTheJob ==
    \A w \in Workers : reply[w] # NoPlan => pc[w] = "reading" /\ reply[w] = job[w]

\* A failed advance is not retried by the pool, but finish() counts it as one,
\* so only the sweep after the staleness bound brings it back: until stop() is
\* called, every plan goes on being advanced to the end.
EveryPlanKeepsAdvancing ==
    \A p \in Plans : []<>(stopPc # "no" \/ \E w \in Workers : reply[w] = p)

\* Once stop() is called every worker thread ends, whatever its child does.
StopEndsThreads ==
    (stopPc # "no") ~> (\A w \in Workers : pc[w] = "exited")

\* What stop()'s docstring says of the children: "End every worker thread and
\* child".  A thread that took its plan before the queue closed may spawn a
\* child after stop() copied _children.
StopEndsEveryChild ==
    stopPc = "returned" => \A w \in Workers : child[w] \in {"none", "dead"}

\* The runtime keeps the queue's promise with its liveness.
ImplementsDemand == Demand!Spec
=============================================================================
