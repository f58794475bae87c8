---------------------------- MODULE AdvanceQueue -----------------------------
(***************************************************************************)
(* The coalescing per-plan advance queue (pipeline/advance_queue.py).  All *)
(* of its state is guarded by one Condition, so every method is one step.  *)
(* A request for a plan already queued coalesces; one for a plan in flight *)
(* marks it dirty and finish() re-queues it at the tail.                   *)
(***************************************************************************)
EXTENDS Naturals, Sequences, SequencesExt

CONSTANT Plans

VARIABLES
    queue,      \* _queue: the deque of plans awaiting an advance
    inFlight,   \* _in_flight
    dirty,      \* _dirty
    closed      \* _closed

queueVars == <<queue, inFlight, dirty, closed>>

Queued == ToSet(queue)

QueueInit ==
    /\ queue = << >>
    /\ inFlight = {}
    /\ dirty = {}
    /\ closed = FALSE

\* Mutant of Request: does not look at _in_flight.
Request_IgnoresInFlight(p) ==
    /\ ~closed /\ p \notin Queued
    /\ queue' = Append(queue, p)
    /\ UNCHANGED <<inFlight, dirty, closed>>

\* request(p) on an open queue; the calls that change nothing (closed, or
\* already queued) are stutters.
Request(p) ==
    /\ ~closed
    /\ p \notin Queued
    /\ \/ /\ p \in inFlight
          /\ dirty' = dirty \cup {p}
          /\ UNCHANGED queue
       \/ /\ p \notin inFlight
          /\ queue' = Append(queue, p)
          /\ UNCHANGED dirty
    /\ UNCHANGED <<inFlight, closed>>

\* take() returning p.
Take(p) ==
    /\ ~closed
    /\ queue # << >>
    /\ p = Head(queue)
    /\ queue' = Tail(queue)
    /\ inFlight' = inFlight \cup {p}
    /\ UNCHANGED <<dirty, closed>>

\* Mutants of Finish: a dirty mark that survives, a re-queue at the head, and a
\* dirty mark dropped without a re-queue.
Finish_KeepsDirty(p) ==
    /\ p \in inFlight /\ inFlight' = inFlight \ {p}
    /\ queue' = IF p \in dirty THEN Append(queue, p) ELSE queue
    /\ UNCHANGED <<dirty, closed>>

Finish_RequeuesAtHead(p) ==
    /\ p \in inFlight /\ inFlight' = inFlight \ {p}
    /\ dirty' = dirty \ {p}
    /\ queue' = IF p \in dirty THEN <<p>> \o queue ELSE queue
    /\ UNCHANGED closed

Finish_ForgetsDirty(p) ==
    /\ p \in inFlight /\ inFlight' = inFlight \ {p}
    /\ dirty' = dirty \ {p}
    /\ UNCHANGED <<queue, closed>>

\* finish(p); a no-op for a plan that is not in flight.
Finish(p) ==
    /\ p \in inFlight
    /\ inFlight' = inFlight \ {p}
    /\ dirty' = dirty \ {p}
    /\ queue' = IF p \in dirty THEN Append(queue, p) ELSE queue
    /\ UNCHANGED closed

Close ==
    /\ closed' = TRUE
    /\ UNCHANGED <<queue, inFlight, dirty>>

QueueNext == Close \/ \E p \in Plans : Request(p) \/ Take(p) \/ Finish(p)

QueueSpec == QueueInit /\ [][QueueNext]_queueVars
-----------------------------------------------------------------------------
QueueTypeOK ==
    /\ queue \in Seq(Plans)
    /\ inFlight \subseteq Plans
    /\ dirty \subseteq Plans
    /\ closed \in BOOLEAN

\* Coalescing: a plan stands in the queue at most once.
NoDuplicates == \A i, j \in 1..Len(queue) : queue[i] = queue[j] => i = j

\* A plan being advanced is not also waiting, so no second worker can take it.
QueuedNotInFlight == Queued \cap inFlight = {}

\* A coalesced request is attached to an advance whose end will re-queue it.
DirtyInFlight == dirty \subseteq inFlight

\* The three facts together are inductive: each needs the other two.
QueueInv == QueueTypeOK /\ NoDuplicates /\ QueuedNotInFlight /\ DirtyInFlight

\* No step puts a plan in front of one that was already waiting: the queue
\* only grows at its tail and shrinks at its head, whether a plan comes from
\* a request or from finish() re-queueing a dirty one.
NoOvertaking ==
    [][\/ IsPrefix(queue, queue')
       \/ queue # << >> /\ queue' = Tail(queue)]_queueVars

\* A request is pending while its plan is queued or dirty; the queue's promise
\* is that of AdvanceDemand under this mapping.
Demand == INSTANCE AdvanceDemand WITH
            wanted <- Queued \cup dirty, running <- inFlight, accepting <- ~closed
=============================================================================
