---------------------------- MODULE StoryLifecycle ----------------------------
(***************************************************************************)
(* Review and merge of one story together: the scheduler's ticks, the      *)
(* detached review and re-verify processes, the operator's commands and    *)
(* the people who push share one manifest record, one worktree and one     *)
(* remote branch.                                                          *)
(***************************************************************************)
EXTENDS MergeGate, ReviewJob

TickSteps ==
    \/ StartReview \/ CollectReview
    \/ StartMerge \/ Prepare \/ CiSettles \/ CiPends
    \/ StartReverify \/ ReverifySettles \/ ReverifyPends \/ Land \/ Save

JobSteps == \E j \in jobs :
    \/ JobReadsHead(j) \/ JobDies(j)
    \/ \E state \in {"pass", "fail"} : JobEnds(j, state)

ReviewerSteps == \E r \in reviewers :
    ReviewerBegins(r) \/ ReviewerEnds(r) \/ ReviewerDies(r)

OperatorSteps ==
    \/ ApproveMerge \/ AwaitCI \/ ReverifyInline
    \/ \E force \in BOOLEAN : AskReview(force)
    \/ \E status \in Moves : OperatorMove(status)

Next ==
    \/ TickSteps \/ Abort
    \/ JobSteps \/ ReviewerSteps \/ OperatorSteps
    \/ AgentCommits \/ Grade \/ Dispatch
    \/ MasterMoves \/ HumanPush

(* The tick comes back to a story in pr_open for as long as it is there,   *)
(* and a merge that was begun is carried on.  CI that is polled for ever   *)
(* settles or is declared expired (_ci_pending_expired), a re-verify that  *)
(* is collected for ever ends or is timed out.                             *)
MergeSteps ==
    \/ CollectReview \/ StartMerge \/ Prepare \/ CiSettles \/ CiPends
    \/ StartReverify \/ ReverifySettles \/ ReverifyPends \/ Land \/ Save
    \/ AwaitCI \/ ReverifyInline

Fairness ==
    WF_vars(MergeSteps) /\ SF_vars(CiSettles) /\ SF_vars(ReverifySettles)

Spec == Init /\ [][Next]_vars /\ Fairness

-----------------------------------------------------------------------------
Handles == {None} \cup [pid : Pids, sha : Commit \cup {None}]
Shas == Commit \cup {None}

TypeOK ==
    /\ record.status \in Statuses
    /\ {record.vsha, record.lastReviewed, record.ciSha} \subseteq Shas
    /\ {record.rework, record.unsure, record.attempts} \subseteq Nat
    /\ record.conflicts \in 0..ConflictMax
    /\ record.reverify \in Handles
    /\ lock \in {"free", "tick", "operator", "review"}
    /\ {worktree, branch} \subseteq Shas /\ master \in 0..MaxBase
    /\ \A j \in jobs : j.pid \in Pids \cup {None} /\ j.sha \in Shas
    /\ \A r \in reviewers : r.child \in BOOLEAN /\ r.head \in Shas
    /\ approved \subseteq 0..MaxRounds

(* Neither a merge nor a review, which both decide on a copy of the record *)
(* and write it back minutes later, overwrites what another actor wrote    *)
(* meanwhile.                                                              *)
NothingLost ==
    /\ gate # Idle => gate.read = record
    /\ \A r \in reviewers : r.pc = "reviewing" => r.snap = record

(* What the tick lands holds only work that a review approved, whoever     *)
(* pushed to the branch while CI and the re-verify were pending.  Out of   *)
(* the gate's sight are a push after it looked at the branch (the branch   *)
(* is merged by name), and a story that was moved to pr_open by hand with  *)
(* an approval that a security review had overruled.                       *)
LandedWasApproved ==
    landed # None /\ landed.by = "tick" /\ "move" \notin upsets /\ ~landed.raced
        => landed.sha.work \subseteq approved

(* What the tick lands is the very commit a re-verify job passed: not that *)
(* of a job which was killed and wrote its result late, nor the commit     *)
(* before a rebase.  It is not so after an operator's command moved the    *)
(* branch past a commit on which the tick has CI and a re-verify pending:  *)
(* the gate goes on polling the commit it recorded.                        *)
LandsVerified ==
    /\ landed # None /\ landed.by = "tick" /\ ~landed.raced
    /\ upsets \cap {"approve_merge", "move"} = {}
  => landed.sha = landed.gated /\ landed.proof = landed.sha

(* The pipeline's own pushes (rebases of the gate, resumes, pushes that    *)
(* failed) never cost a story its approval: a merge is denied only after a *)
(* crash, a fetch that failed, or a change by somebody else.  approve_merge *)
(* is one: it pushes past the commit on which the tick has CI pending, and *)
(* the next tick binds the approval back to that commit.                   *)
DenialHasACause ==
    record.reason = "denied"
        => upsets \cap {"crash", "fetch", "human_push", "move", "self_fix",
                        "approve_merge"} # {}

(* No re-verify is left running, or named, by a story that has moved on.   *)
NoStrayReverify ==
    /\ "crash" \notin upsets
        => \A j \in jobs : j.pid # None =>
               \E rec \in {record} \cup {g.rec : g \in {gate} \ {Idle}} :
                   rec.reverify # None /\ rec.reverify.pid = j.pid
    /\ record.reverify # None /\ record.status # "pr_open"
        => upsets \cap {"move", "approve_merge"} # {}

(* A story does not stay in the merge gate: whatever fails, CI and the     *)
(* re-verify however slow, it is merged, sent back, parked or failed.      *)
PrOpenEnds == []<>(record.status # "pr_open")

(* A reviewer's own fix, once the harness has verified it, proceeds like   *)
(* any approval (config.py): the merge gate does not deny it.              *)
SelfFixProceeds == record.reason = "denied" => upsets # {"self_fix"}
=============================================================================
