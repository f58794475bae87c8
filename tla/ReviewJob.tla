------------------------------ MODULE ReviewJob -------------------------------
(***************************************************************************)
(* The review of one story: the detached child a tick starts and collects  *)
(* (advance_review.py, review_job.py), review_story, which that child and  *)
(* the operator's tool run (service.py, review_orchestrator.py), and the   *)
(* commit of its outcome to the manifest (story_commit.py).  A review      *)
(* holds the plan lock from its first read of the manifest to that commit. *)
(***************************************************************************)
EXTENDS StoryRecord

\* child: it is the process the record's review_job names.
Reviewer(child) == [child |-> child, pc |-> "starting", snap |-> None, head |-> None]
Without(r) == reviewers \ {r}
Become(r, s) == reviewers' = Without(r) \cup {s}

-----------------------------------------------------------------------------
(* The tick: start a review of tested work, or collect one. *)

StartReview ==
    /\ lock = "free" /\ record.status = "tests_passed" /\ ~record.review
    /\ \/ /\ record' = [record EXCEPT !.review = TRUE]
          /\ reviewers' = reviewers \cup {Reviewer(TRUE)} /\ UNCHANGED upsets
       \/ /\ Upset("crash")                    \* between the spawn and the write
          /\ reviewers' = reviewers \cup {Reviewer(FALSE)} /\ UNCHANGED record
    /\ UNCHANGED <<lock, world, mergeVars, approved>>

\* The child has ended, or is killed: it has overrun its budget, or the story
\* has moved on.  Else it is left alone.
CollectReview ==
    /\ lock = "free" /\ record.review
    /\ reviewers' = {r \in reviewers : ~r.child}
    /\ record' = [record EXCEPT !.review = FALSE]
    /\ UNCHANGED <<lock, world, mergeVars, approved, upsets>>

-----------------------------------------------------------------------------
(* review_story *)

\* The operator's review_story, which with force drops the marker of the
\* commit reviewed last, unless a detached review is under way.
AskReview(force) ==
    /\ lock = "free" /\ record.status = "tests_passed" /\ Upset("ask_review")
    /\ reviewers' = reviewers \cup {Reviewer(FALSE)}
    /\ IF force
       THEN ~record.review /\ record' = [record EXCEPT !.lastReviewed = None]
       ELSE UNCHANGED record
    /\ UNCHANGED <<lock, world, mergeVars, approved>>

Reviewable == record.status = "tests_passed" /\ record.lastReviewed # worktree

\* Mutant of ReviewerBegins: the lock is not taken.
ReviewerBegins_Unlocked(r) ==
    /\ r.pc = "starting"
    /\ IF Reviewable
       THEN Become(r, [r EXCEPT !.pc = "reviewing", !.snap = record, !.head = worktree])
       ELSE reviewers' = Without(r)
    /\ UNCHANGED <<record, lock, world, mergeVars, approved, upsets>>

\* The lock is tried once: a review that finds it taken is skipped.
ReviewerBegins(r) ==
    /\ r.pc = "starting"
    /\ IF lock = "free" /\ Reviewable
       THEN /\ lock' = "review"
            /\ Become(r, [r EXCEPT !.pc = "reviewing", !.snap = record, !.head = worktree])
       ELSE reviewers' = Without(r) /\ UNCHANGED lock
    /\ UNCHANGED <<record, world, mergeVars, approved, upsets>>

Approved(s, head) == [s EXCEPT !.vsha = head]

\* commit_story, and the end of the review.
Commit1(r, story) ==
    /\ record' = story /\ lock' = "free" /\ reviewers' = Without(r)

\* APPROVE: the branch is pushed, over whatever it was unless the lease on it
\* is stale, and its pull request opened; else the next tick reviews again.
Approves(r) ==
    LET s == [Approved(r.snap, r.head) EXCEPT !.unsure = 0]
    IN /\ \/ /\ Commit1(r, [s EXCEPT !.status = "pr_open", !.rework = 0,
                                     !.lastReviewed = None])
             /\ branch' = worktree /\ UNCHANGED upsets
          \/ Commit1(r, s) /\ Upset("push") /\ UNCHANGED branch
       /\ approved' = approved \cup r.head.work
       /\ UNCHANGED worktree

\* APPROVE_WITH_FIX: the reviewer committed a fix, the harness verified it,
\* and the verdict is bound to the commit the reviewer was given.
ApprovesWithFix(r) ==
    LET fixed == [worktree EXCEPT !.work = @ \cup {Cardinality(@) + 1}]
    IN /\ Cardinality(worktree.work) < MaxRounds /\ Upset("self_fix")
       /\ Commit1(r, [Approved(r.snap, r.head) EXCEPT
                        !.unsure = 0, !.status = "pr_open", !.rework = 0,
                        !.lastReviewed = None])
       /\ worktree' = fixed /\ branch' = fixed
       /\ approved' = approved \cup fixed.work

\* The story goes back for rework.  A security review, or the guard on the
\* findings of the last review, may overrule an APPROVE that stays bound.
SendsBack(r) ==
    \E head \in {None, r.head} :
        LET tries == r.snap.rework + 1
            s == [Approved(r.snap, head) EXCEPT
                    !.unsure = 0, !.rework = tries, !.lastReviewed = worktree]
        IN /\ IF tries >= ReworkMax
              THEN /\ Commit1(r, [s EXCEPT !.status = "parked"])
                   /\ UNCHANGED branch
              ELSE /\ Commit1(r, [s EXCEPT !.status = "changes_requested"])
                   /\ branch' \in {branch, worktree}     \* the push may fail
           /\ UNCHANGED <<worktree, approved, upsets>>

\* No verdict, or a rejection that names nothing to change.
IsInconclusive(r) ==
    LET s == [Approved(r.snap, None) EXCEPT !.unsure = @ + 1]
    IN /\ Commit1(r, IF s.unsure >= InconclusiveMax
                     THEN [s EXCEPT !.status = "parked"] ELSE s)
       /\ UNCHANGED <<worktree, branch, approved, upsets>>

\* The backend is limited or unreachable.  When it is the security review's,
\* the first reviewer's APPROVE is bound already.
IsDeferred(r) ==
    /\ Commit1(r, r.snap) \/ Commit1(r, Approved(r.snap, r.head))
    /\ UNCHANGED <<worktree, branch, approved, upsets>>

ReviewerEnds(r) ==
    /\ r.pc = "reviewing" /\ worktree # None
    /\ \/ Approves(r) \/ ApprovesWithFix(r) \/ SendsBack(r)
       \/ IsInconclusive(r) \/ IsDeferred(r)
    /\ UNCHANGED <<master, mergeVars>>

ReviewerDies(r) ==
    /\ Upset("job_dies")
    /\ reviewers' = Without(r)
    /\ lock' = IF r.pc = "reviewing" THEN "free" ELSE lock
    /\ UNCHANGED <<record, world, mergeVars, approved>>
=============================================================================
