------------------------------ MODULE MergeGate -------------------------------
(***************************************************************************)
(* The merge gate of one story: the part of the advance tick that decides  *)
(* and lands merges (advance_merge.py), the detached re-verify job it      *)
(* starts and collects over several ticks (merge_reverify.py), the binding *)
(* of an approval to a commit (review_merge_binding.py) and approve_merge, *)
(* the operator's way through the same steps (merge.py).  Both hold the    *)
(* plan lock, work on a copy of the record, and write it at the end.       *)
(***************************************************************************)
EXTENDS StoryRecord

Handle(p, sha) == [pid |-> p, sha |-> sha]
\* A killed job is nobody's; it may still write the result it was about.
Kill(handle) ==
    LET victims == {j \in jobs : handle # None /\ j.pid = handle.pid}
    IN (jobs \ victims) \cup {[j EXCEPT !.pid = None] : j \in {v \in victims : v.sha # None}}

\* Mutant of Covers: the approval is asked for, the commit is not.
Covers_AnyHead(rec, head) == rec.vsha # None

\* check: an APPROVE verdict, bound to exactly this head.
Covers(rec, head) == rec.vsha # None /\ rec.vsha = head

\* Mutant of Rebind: the approval stays with the commit before the push.
Rebind_Keeps(rec, sha) == rec

\* rebind_after_pipeline_push
Rebind(rec, sha) ==
    IF rec.vsha # None /\ sha # None THEN [rec EXCEPT !.vsha = sha] ELSE rec

Enter(pc, by, rec, pushed) ==
    /\ gate' = [pc |-> pc, by |-> by, rec |-> rec, read |-> record,
                pushed |-> pushed, proof |-> None, raced |-> FALSE]
    /\ lock' = by /\ UNCHANGED record
Goto(pc) == gate' = [gate EXCEPT !.pc = pc] /\ UNCHANGED <<record, lock>>
Continue(pc, rec) ==
    gate' = [gate EXCEPT !.pc = pc, !.rec = rec] /\ UNCHANGED <<record, lock>>
Quit == gate' = Idle /\ lock' = "free" /\ UNCHANGED record
Write(rec) == record' = rec /\ gate' = Idle /\ lock' = "free"

\* A handle that the gate drops from the record is cancelled.
Cancels ==
    LET now == IF gate' = Idle THEN record' ELSE gate'.rec
    IN jobs' = IF now.reverify = None THEN Kill(gate.rec.reverify) ELSE jobs

\* Mutant of Leaves: the re-verify goes on.
Leaves_KeepsJob(rec, status, reason) ==
    [rec EXCEPT !.status = status, !.reason = reason]

\* A story that leaves pr_open takes its re-verify job with it.
Leaves(rec, status, reason) ==
    [rec EXCEPT !.status = status, !.reverify = None, !.reason = reason]

-----------------------------------------------------------------------------
(* The tick: ruling and binding check. *)

\* A parked story the gate itself held is looked at again.
Reopens == record.status = "parked" /\ record.reason = "hold" /\ record.vsha # None

Park(reason) ==
    /\ Write(Leaves(record, "parked", reason))
    /\ jobs' = Kill(record.reverify)

\* In a tick it comes after the review loop, which collects.
StartMerge ==
    /\ lock = "free" /\ ~record.review
    /\ record.status = "pr_open" \/ Reopens
    /\ \/ record.vsha # None /\ Park("hold") /\ UNCHANGED upsets
       \/ ~Reopens /\ Park(None) /\ UNCHANGED upsets    \* not approved, dry run, ..
       \/ /\ Covers(record, branch)
          /\ Enter("prepare", "tick",
                   [record EXCEPT !.status = "pr_open", !.reason = None], None)
          /\ UNCHANGED <<jobs, upsets>>
       \/ /\ record.vsha # None /\ ~Covers(record, branch)
          /\ Park("denied") /\ UNCHANGED upsets
       \/ /\ record.vsha # None                       \* origin cannot be fetched
          /\ Park("denied") /\ Upset("fetch")
    /\ UNCHANGED <<world, result, landed, reviewVars>>

-----------------------------------------------------------------------------
(* Failures of the gate. *)

\* Mutant of ReworkFor: one conflict too many is sent back.
ReworkFor_OneMore(rec, kind) ==
    \/ kind = "conflict" /\ rec.conflicts <= ConflictMax
    \/ kind = "ci" /\ rec.attempts < MergeMax

ReworkFor(rec, kind) ==
    \/ kind = "conflict" /\ rec.conflicts < ConflictMax
    \/ kind = "ci" /\ rec.attempts < MergeMax

\* Mutant of AfterError: what may be transient is not charged.
AfterError_Transient(rec, kind) ==
    IF kind = "other" THEN rec ELSE Leaves(rec, "changes_requested", rec.reason)

AfterError(rec, kind) ==
    LET tries == rec.attempts + 1
    IN CASE kind = "conflict" /\ ReworkFor(rec, kind) ->
                [Leaves(rec, "changes_requested", rec.reason)
                    EXCEPT !.conflicts = @ + 1]
         [] kind = "ci" /\ ReworkFor(rec, kind) ->
                [Leaves(rec, "changes_requested", rec.reason) EXCEPT !.attempts = tries]
         [] ~ReworkFor(rec, kind) /\ tries >= MergeMax ->
                [Leaves(rec, "failed", rec.reason) EXCEPT !.attempts = tries]
         [] OTHER -> [rec EXCEPT !.attempts = tries]

\* The tick records the failure; approve_merge reports it and writes nothing.
GateError(rec, kind) ==
    IF gate.by = "tick" THEN Write(AfterError(rec, kind)) ELSE Quit

-----------------------------------------------------------------------------
(* Rebase and push. *)

\* A commit already pushed is polled, not pushed again: CI is pending on it,
\* or a re-verify of the very head of the worktree is under way.
Pinned(rec) == rec.ciSha # None
Reuses(rec) == rec.ciSha = None /\ rec.reverify # None /\ rec.reverify.sha = worktree

RebaseAndPush(rec) ==
    \/ /\ worktree # None
       /\ worktree' = Rebased(worktree) /\ branch' = Rebased(worktree)
       /\ gate' = [gate EXCEPT !.pc = "ci", !.rec = Rebind(rec, Rebased(worktree)),
                               !.pushed = Rebased(worktree)]
       /\ UNCHANGED <<record, lock, upsets>>
    \/ /\ worktree = None /\ Continue("ci", rec)
       /\ UNCHANGED <<worktree, branch, upsets>>
    \/ /\ worktree # None /\ worktree.base # master
       /\ GateError(rec, "conflict") /\ UNCHANGED <<worktree, branch, upsets>>
    \/ /\ worktree # None /\ Upset("push")                \* or the fetch fails
       /\ worktree' \in {worktree, Rebased(worktree)}
       /\ GateError(rec, "other") /\ UNCHANGED branch

Prepare ==
    /\ gate.pc = "prepare"
    /\ LET rec == gate.rec
           dropped == [rec EXCEPT !.reverify = None]
           sha == IF Pinned(rec) THEN rec.ciSha ELSE rec.reverify.sha
       IN IF gate.by = "tick" /\ (Pinned(rec) \/ Reuses(rec))
          THEN /\ gate' = [gate EXCEPT !.pc = "ci", !.rec = Rebind(rec, sha), !.pushed = sha]
               /\ UNCHANGED <<record, lock, worktree, branch, upsets>>
          ELSE RebaseAndPush(IF gate.by = "tick" THEN dropped ELSE rec)
    /\ Cancels
    /\ UNCHANGED <<master, result, landed, reviewVars>>

-----------------------------------------------------------------------------
(* CI, polled once per tick. *)

Settled(rec) == [rec EXCEPT !.ciSha = None]

CiSettles ==
    /\ gate.pc = "ci" /\ gate.by = "tick"
    /\ \/ Continue("reverify", Settled(gate.rec))
       \/ GateError(Settled(gate.rec), "ci")
       \/ GateError(Settled(gate.rec), "other")  \* cancelled, unreadable, expired
    /\ Cancels
    /\ UNCHANGED <<world, result, landed, reviewVars, upsets>>

CiPends ==
    /\ gate.pc = "ci" /\ gate.by = "tick"
    /\ Write([gate.rec EXCEPT !.ciSha = gate.pushed])
    /\ UNCHANGED <<world, jobs, result, landed, reviewVars, upsets>>

\* approve_merge polls until CI settles, and writes the record whatever it says.
AwaitCI ==
    /\ gate.pc = "ci" /\ gate.by = "operator"
    /\ \/ /\ record' = gate.rec
          /\ gate' = [gate EXCEPT !.pc = "reverify", !.read = gate.rec] /\ UNCHANGED lock
       \/ Write(gate.rec)
    /\ UNCHANGED <<world, jobs, result, landed, reviewVars, upsets>>

-----------------------------------------------------------------------------
(* The re-verify of the commit to be merged. *)

\* A pid that no process has and no handle names, the same for all choices.
FreePids == {p \in Pids : /\ \A j \in jobs : j.pid # p
                          /\ \A h \in {record.reverify, gate.rec.reverify} :
                                h # None => h.pid # p}
NewPid == CHOOSE p \in FreePids : TRUE
Spawned == [pid |-> NewPid, sha |-> None]

\* A job of another commit is cancelled; the result file is unlinked before
\* the new job starts.
StartReverify ==
    /\ gate.pc = "reverify" /\ gate.by = "tick"
    /\ gate.rec.reverify # None => gate.rec.reverify.sha # gate.pushed
    /\ IF worktree # None
       THEN /\ FreePids # {}
            /\ Continue("save", [gate.rec EXCEPT !.reverify = Handle(NewPid, gate.pushed)])
            /\ jobs' = Kill(gate.rec.reverify) \cup {Spawned}
            /\ result' = None
       ELSE /\ GateError([gate.rec EXCEPT !.reverify = None], "other")
            /\ Cancels /\ UNCHANGED result
    /\ UNCHANGED <<world, landed, reviewVars, upsets>>

\* Mutant of ReverifySettles: a passing result is that of this commit.
ReverifySettles_AnyResult ==
    /\ gate.pc = "reverify" /\ gate.by = "tick"
    /\ gate.rec.reverify # None /\ gate.rec.reverify.sha = gate.pushed
    /\ LET rec == [gate.rec EXCEPT !.reverify = None]
           alive == \E j \in jobs : j.pid = gate.rec.reverify.pid
       IN IF ~alive /\ result # None /\ result.state = "pass"
          THEN /\ gate' = [gate EXCEPT !.pc = "land", !.rec = rec, !.proof = result.sha]
               /\ UNCHANGED <<record, lock>>
          ELSE GateError(rec, "other")
    /\ Cancels
    /\ UNCHANGED <<world, result, landed, reviewVars, upsets>>

\* collect_merge_reverify: the job has ended, or has overrun its budget.
ReverifySettles ==
    /\ gate.pc = "reverify" /\ gate.by = "tick"
    /\ gate.rec.reverify # None /\ gate.rec.reverify.sha = gate.pushed
    /\ LET rec == [gate.rec EXCEPT !.reverify = None]
           alive == \E j \in jobs : j.pid = gate.rec.reverify.pid
           green == result # None /\ result.state = "pass" /\ result.sha = gate.pushed
       IN IF ~alive /\ green
          THEN /\ gate' = [gate EXCEPT !.pc = "land", !.rec = rec, !.proof = result.sha]
               /\ UNCHANGED <<record, lock>>
          ELSE GateError(rec, "other")
    /\ Cancels
    /\ UNCHANGED <<world, result, landed, reviewVars, upsets>>

ReverifyPends ==
    /\ gate.pc = "reverify" /\ gate.by = "tick"
    /\ gate.rec.reverify # None /\ gate.rec.reverify.sha = gate.pushed
    /\ \E j \in jobs : j.pid = gate.rec.reverify.pid
    /\ Write(gate.rec)
    /\ UNCHANGED <<world, jobs, result, landed, reviewVars, upsets>>

\* approve_merge runs the same checks itself, in the worktree.
ReverifyInline ==
    /\ gate.pc = "reverify" /\ gate.by = "operator"
    /\ Goto("land") \/ Quit
    /\ UNCHANGED <<world, jobs, result, landed, reviewVars, upsets>>

-----------------------------------------------------------------------------
(* The merge: of the branch as it is by then, and no longer of a commit. *)

Merged(rec) == [rec EXCEPT !.status = "done", !.reason = None,
                           !.attempts = IF gate.by = "tick" THEN 0 ELSE @]

Land ==
    /\ gate.pc = "land"
    /\ \/ /\ branch # None /\ landed = None
          /\ landed' = [sha |-> branch, by |-> gate.by, gated |-> gate.pushed,
                        proof |-> gate.proof, raced |-> gate.raced]
          /\ worktree' = None /\ branch' \in {None, branch}  \* its deletion may fail
          /\ Continue("save", Merged(gate.rec))
       \/ GateError(gate.rec, "other") /\ UNCHANGED <<landed, worktree, branch>>
    /\ Cancels
    /\ UNCHANGED <<master, result, reviewVars, upsets>>

\* The write of the manifest after a job was started or the branch merged: a
\* crash may come first.  Elsewhere the gate's last step writes it.
Save ==
    /\ gate.pc = "save" /\ Write(gate.rec)
    /\ UNCHANGED <<world, jobs, result, landed, reviewVars, upsets>>

(* The process dies, or an exception leaves the tick: nothing is written.  *)
Abort ==
    /\ gate.pc # "idle" /\ Upset("crash") /\ Quit
    /\ UNCHANGED <<world, jobs, result, landed, reviewVars>>

-----------------------------------------------------------------------------
(* approve_merge *)

ApproveMerge ==
    /\ lock = "free"
    /\ record.status \in {"parked", "pr_open"} /\ Covers(record, branch)
    /\ Upset("approve_merge")
    /\ Enter("prepare", "operator", record, None)
    /\ UNCHANGED <<world, jobs, result, landed, reviewVars>>

-----------------------------------------------------------------------------
(* The re-verify process. *)

JobReadsHead(j) ==
    /\ j.sha = None /\ worktree # None
    /\ jobs' = (jobs \ {j}) \cup {[j EXCEPT !.sha = worktree]}
    /\ UNCHANGED <<record, lock, world, gate, result, landed, reviewVars, upsets>>

JobEnds(j, state) ==
    /\ j.sha # None
    /\ result' = [state |-> state, sha |-> j.sha]
    /\ jobs' = jobs \ {j}
    /\ UNCHANGED <<record, lock, world, gate, landed, reviewVars, upsets>>

\* Killed, unable to read a commit, or gone by itself: no usable result.
JobDies(j) ==
    /\ IF j.pid = None \/ (j.sha = None /\ worktree = None)
       THEN UNCHANGED upsets ELSE Upset("job_dies")
    /\ jobs' = jobs \ {j}
    /\ UNCHANGED <<record, lock, world, gate, result, landed, reviewVars>>
=============================================================================
