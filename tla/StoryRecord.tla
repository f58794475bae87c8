----------------------------- MODULE StoryRecord ------------------------------
(***************************************************************************)
(* One story between its first dispatch and its merge: the manifest record *)
(* the reviewer and the merge gate read and write, the commits it is about *)
(* (in its worktree and at the tip of its remote branch), and what moves   *)
(* them other than a review or a merge: dispatch, the agent, the grade,    *)
(* the operator, people who push, and other stories' merges.               *)
(* Of the verdict the record keeps what the gate asks of it: vsha is the   *)
(* commit an APPROVE is bound to, None while there is no APPROVE.          *)
(*                                                                         *)
(* A commit is the work it contains and the commit of the default branch   *)
(* it stands on; its sha is that pair.  Work 0 is a person's push, work    *)
(* 1, 2, .. the rounds of the agent.                                       *)
(***************************************************************************)
EXTENDS Naturals, FiniteSets

CONSTANTS
    None,
    Pids,               \* process ids of re-verify jobs
    MaxRounds,          \* bound: commits made by the agent
    MaxBase,            \* bound: merges of other stories
    MaxUpsets,          \* bound: kinds of upset in one behaviour
    Moves,              \* bound: the statuses set_story_status is called with
    ReworkMax,          \* REWORK_MAX_ATTEMPTS
    NoCommitMax,        \* REWORK_MAX_ATTEMPTS_NO_COMMIT
    InconclusiveMax,    \* REVIEW_INCONCLUSIVE_MAX
    MergeMax,           \* MERGE_MAX_ATTEMPTS
    ConflictMax         \* the limit of conflict_reworks

ASSUME StoryAssumption ==
    /\ MaxRounds \in Nat \ {0} /\ MaxBase \in Nat /\ MaxUpsets \in Nat
    /\ ReworkMax \in Nat \ {0} /\ NoCommitMax \in Nat \ {0}
    /\ InconclusiveMax \in Nat \ {0} /\ MergeMax \in Nat \ {0}
    /\ ConflictMax \in Nat

VARIABLES
    record,         \* the story in the manifest
    lock,           \* who holds the plan lock
    worktree,       \* the commit checked out, None when it was removed
    branch,         \* the remote tip of the story's branch
    master,         \* the tip of the default branch
    gate,           \* the tick or the approve_merge that adjudicates a merge
    jobs,           \* live merge re-verify processes
    result,         \* the one result file of the story's re-verify jobs
    reviewers,      \* live reviews: detached children and review_story calls
    approved,       \* history: work a review approved in full
    landed,         \* what was merged, by whom, and what the gate had verified
    upsets          \* the kinds of failure and intervention so far

world == <<worktree, branch, master>>
mergeVars == <<gate, jobs, result, landed>>
reviewVars == <<reviewers, approved>>
vars == <<record, lock, world, mergeVars, reviewVars, upsets>>

Commit == [work : SUBSET (0..MaxRounds), base : 0..MaxBase]
Statuses == {"in_progress", "tests_passed", "changes_requested", "pr_open",
             "parked", "failed", "done"}

\* None is no commit, no process, no reason and no re-verify.
ASSUME NoneAssumption ==
    /\ None \notin Commit /\ None \notin Pids /\ None \notin {"hold", "denied"}
    /\ None \notin [pid : Pids, sha : Commit \cup {None}]

ASSUME MovesAssumption == Moves \subseteq Statuses

(* An upset is one of: a crash of the scheduler, a job or a reviewer; a    *)
(* failed fetch or push; a push or a command of a person; and a fix that   *)
(* the reviewer committed itself.                                          *)
Upset(kind) ==
    /\ kind \notin upsets /\ Cardinality(upsets) < MaxUpsets
    /\ upsets' = upsets \cup {kind}

\* A rebase of the worktree onto the default branch: what may come out of it.
Rebased(c) == [c EXCEPT !.base = master]

Idle == [pc |-> "idle"]

Init ==
    /\ record = [status |-> "in_progress", vsha |-> None,
                 lastReviewed |-> None, rework |-> 0, unsure |-> 0,
                 attempts |-> 0, conflicts |-> 0, ciSha |-> None,
                 reason |-> None, reverify |-> None, review |-> FALSE]
    /\ lock = "free"
    /\ worktree = [work |-> {}, base |-> 0] /\ branch = None /\ master = 0
    /\ gate = Idle
    /\ jobs = {} /\ result = None /\ reviewers = {}
    /\ approved = {} /\ landed = None /\ upsets = {}

-----------------------------------------------------------------------------
(* The agent and its grade. *)

AgentCommits ==
    /\ record.status = "in_progress" /\ worktree # None
    /\ Cardinality(worktree.work) < MaxRounds
    /\ worktree' = [worktree EXCEPT !.work = @ \cup {Cardinality(@) + 1}]
    /\ UNCHANGED <<record, lock, branch, master, mergeVars, reviewVars, upsets>>

(* What check_story_status writes when the agent is gone.  A rework that   *)
(* passes its tests on the very commit the reviewer sent back has nothing  *)
(* to review: it is sent back again, within the rework budget.             *)
Regraded == record.lastReviewed = worktree

SentBackAgain ==
    LET tries == record.rework + 1
    IN IF tries >= NoCommitMax
       THEN [record EXCEPT !.rework = tries, !.status = "parked"]
       ELSE [record EXCEPT !.rework = tries, !.status = "changes_requested"]

Grade ==
    /\ record.status = "in_progress" /\ lock = "free" /\ worktree # None
    /\ \/ record' = [record EXCEPT !.status = "failed"]
       \/ /\ worktree.work # {} /\ ~Regraded
          /\ record' = [record EXCEPT !.status = "tests_passed"]
       \/ Regraded /\ record' = SentBackAgain
    /\ UNCHANGED <<lock, world, mergeVars, reviewVars, upsets>>

(* Re-dispatch of a story sent back: a stale worktree is rebased before    *)
(* the agent resumes, and the branch is made to follow; a conflict parks   *)
(* the story.                                                              *)
Dispatch ==
    /\ record.status = "changes_requested" /\ lock = "free"
    /\ \/ /\ record' = [record EXCEPT !.status = "in_progress"]
          /\ IF worktree # None /\ worktree.base # master
             THEN /\ worktree' = Rebased(worktree)
                  /\ \/ branch' = Rebased(worktree) /\ UNCHANGED upsets
                     \/ UNCHANGED branch /\ Upset("push")
             ELSE UNCHANGED <<worktree, branch, upsets>>
       \/ /\ worktree # None /\ worktree.base # master
          /\ record' = [record EXCEPT !.status = "parked"]
          /\ UNCHANGED <<worktree, branch, upsets>>
    /\ UNCHANGED <<lock, master, mergeVars, reviewVars>>

-----------------------------------------------------------------------------
(* People and other stories. *)

MasterMoves ==
    /\ master < MaxBase /\ landed = None /\ record.status = "pr_open"
    /\ master' = master + 1
    /\ UNCHANGED <<record, lock, worktree, branch, mergeVars, reviewVars, upsets>>

HumanPush ==
    /\ branch # None /\ landed = None /\ Upset("human_push")
    /\ branch' = [branch EXCEPT !.work = @ \cup {0}]
    /\ gate' = IF gate.pc = "idle" THEN gate ELSE [gate EXCEPT !.raced = TRUE]
    /\ UNCHANGED <<record, lock, worktree, master, jobs, result, landed, reviewVars>>

\* set_story_status: any status, no precondition, nothing else reset.
OperatorMove(status) ==
    /\ lock = "free" /\ landed = None /\ status # record.status
    /\ Upset("move")
    /\ record' = [record EXCEPT !.status = status,
                                !.reason = IF status = "parked" THEN @ ELSE None]
    /\ UNCHANGED <<lock, world, mergeVars, reviewVars>>
=============================================================================
