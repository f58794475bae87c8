------------------------- MODULE StoryLifecycleProofs --------------------------
(***************************************************************************)
(* Proofs about StoryLifecycle for any process ids, any bounds and any     *)
(* budgets: no update of the story is lost, what the tick lands was        *)
(* approved and verified, a denial has a cause outside the pipeline, and   *)
(* no re-verify job goes astray.                                           *)
(*                                                                         *)
(* They follow from one inductive invariant, StoryInv.  Its core is the    *)
(* lock (LockHeld); on it rest what the gate keeps in its copy of the      *)
(* record (GateShape), which work the approval covers (WorkApproved), to   *)
(* which commit the record, the copy and the branch are bound              *)
(* (CommitsBound), and what the story owns (JobsNamed).                    *)
(***************************************************************************)
EXTENDS StoryLifecycle, FiniteSetTheorems, TLAPS

SafeSpec == Init /\ [][Next]_vars

Records ==
    [status : Statuses, vsha : Shas, lastReviewed : Shas, rework : Nat,
     unsure : Nat, attempts : Nat, conflicts : 0..ConflictMax, ciSha : Shas,
     reason : {None, "hold", "denied"}, reverify : Handles, review : BOOLEAN]

Gates ==
    [pc : {"prepare", "ci", "reverify", "land", "save"},
     by : {"tick", "operator"}, rec : Records, read : Records,
     pushed : Shas, proof : Shas, raced : BOOLEAN]

Jobs == [pid : Pids \cup {None}, sha : Shas]
Reviewers == [child : BOOLEAN, pc : {"starting", "reviewing"},
              snap : Records \cup {None}, head : Shas]

Typed ==
    /\ record \in Records
    /\ lock \in {"free", "tick", "operator", "review"}
    /\ worktree \in Shas /\ branch \in Shas /\ master \in 0..MaxBase
    /\ gate = Idle \/ gate \in Gates
    /\ jobs \subseteq Jobs
    /\ result = None \/ result \in [state : {"pass", "fail"}, sha : Commit]
    /\ reviewers \subseteq Reviewers
    /\ approved \subseteq 0..MaxRounds

(* The plan lock: whoever adjudicates or reviews holds it, alone, and what *)
(* it read is still what the manifest says.                                *)
LockHeld ==
    /\ gate # Idle => /\ lock = gate.by /\ gate.read = record
                      /\ record.status \in {"pr_open", "parked"}
    /\ \A r \in reviewers : r.pc = "reviewing" =>
           /\ lock = "review" /\ r.snap = record /\ r.head = worktree
           /\ record.status = "tests_passed"
    /\ \A r, s \in reviewers : r.pc = "reviewing" /\ s.pc = "reviewing" => r = s

(* The gate's copy of the record.  The tick's is that of an open story     *)
(* until the merge is saved; the operator's has the status it found.       *)
InGate(rec) == rec.status = "pr_open" \/ rec.reason = "hold"
HeldIsParked(rec) == rec.reason = "hold" => rec.status = "parked"

GateShape ==
    /\ HeldIsParked(record)
    /\ gate # Idle =>
         /\ gate.rec.vsha # None /\ HeldIsParked(gate.rec)
         /\ gate.by = "tick" =>
              /\ InGate(record) /\ gate.rec.reason = None
              /\ \/ gate.rec.status = "pr_open"
                 \/ gate.pc = "save" /\ gate.rec.status = "done"
         /\ gate.by = "operator" =>
              /\ gate.rec.reverify = record.reverify
              /\ IF gate.pc = "save"
                 THEN gate.rec.status = "done" /\ gate.rec.reason = None
                 ELSE gate.rec.status = record.status /\ gate.rec.reason = record.reason

(* Only approved work is in the gate, unless a person put the story there. *)
OnlyApproved(c) == c # None => c.work \subseteq approved

WorkApproved ==
  "move" \notin upsets =>
    /\ InGate(record) => OnlyApproved(worktree) /\ OnlyApproved(record.vsha)
    /\ OnlyApproved(record.ciSha)
    /\ gate # Idle =>
         /\ OnlyApproved(gate.rec.ciSha)
         /\ InGate(gate.rec) => OnlyApproved(gate.rec.vsha)
         /\ gate.by = "tick" =>
              /\ OnlyApproved(gate.pushed)
              /\ gate.raced \/ gate.pc = "save" \/ OnlyApproved(branch)

(* The commit the tick polls, the one a job re-verifies and the one the    *)
(* approval is bound to are one commit, and it is the tip of the branch.   *)
Bound(rec) ==
    /\ rec.ciSha # None => rec.status \in {"pr_open", "parked"} /\ rec.ciSha = rec.vsha
    /\ rec.reverify # None => rec.status = "pr_open" /\ rec.reverify.sha = rec.vsha

CommitsBound ==
  upsets \cap {"approve_merge", "move"} = {} =>
    /\ Bound(record)
    /\ gate # Idle =>
         /\ gate.by = "tick" /\ Bound(gate.rec)
         /\ gate.pc \in {"reverify", "land", "save"} => gate.rec.ciSha = None
         /\ gate.pc = "prepare" =>
              gate.pushed = None /\ (gate.raced \/ branch = gate.rec.vsha)
         /\ gate.pc \in {"ci", "reverify"} /\ gate.pushed = None =>
              worktree = None /\ gate.rec.reverify = None
         /\ gate.pc \in {"ci", "reverify", "land"} /\ gate.pushed # None =>
              /\ gate.rec.vsha = gate.pushed
              /\ gate.raced \/ branch = gate.pushed
         /\ gate.pc = "land" => /\ gate.pushed # None /\ gate.proof = gate.pushed
                                /\ gate.rec.reverify = None

(* Between two steps of the pipeline alone, the approval of an open story  *)
(* is bound to the tip of its branch.                                      *)
Causes == {"crash", "fetch", "human_push", "move", "self_fix", "approve_merge"}
AtTip(rec) == InGate(rec) /\ rec.vsha # None => rec.vsha = branch

NoCauseToDeny ==
  upsets \cap Causes = {} =>
    /\ record.reason # "denied"
    /\ gate = Idle => AtTip(record)
    /\ gate # Idle => gate.rec.reason # "denied" /\ AtTip(gate.rec)

(* A job that can still be cancelled is named by the record in force.      *)
Names(rec, j) == rec.reverify # None /\ rec.reverify.pid = j.pid

JobsNamed ==
  "crash" \notin upsets =>
    \A j \in jobs : j.pid # None =>
        IF gate = Idle THEN Names(record, j) ELSE Names(gate.rec, j)

StoryInv ==
    /\ Typed /\ LockHeld /\ GateShape /\ WorkApproved /\ CommitsBound
    /\ NoCauseToDeny /\ JobsNamed /\ LandedWasApproved /\ LandsVerified

USE DEF StoryInv, world, mergeVars, reviewVars

-----------------------------------------------------------------------------
(* The initial state, and the steps outside the review and the merge. *)

LEMMA StoryInit == Init => StoryInv
<1> SUFFICES ASSUME Init PROVE StoryInv
  OBVIOUS
<1>1. record \in Records /\ worktree \in Commit /\ 0 \in 0..MaxBase
  BY StoryAssumption DEF Init, Records, Statuses, Shas, Handles, Commit
<1>2. Typed
  BY <1>1 DEF Init, Typed, Shas
<1>3. LockHeld /\ GateShape /\ WorkApproved /\ CommitsBound /\ NoCauseToDeny /\ JobsNamed
  BY NoneAssumption DEF Init, LockHeld, GateShape, HeldIsParked, WorkApproved, OnlyApproved,
     InGate, CommitsBound, Bound, NoCauseToDeny, AtTip, JobsNamed
<1>4. LandedWasApproved /\ LandsVerified
  BY DEF Init, LandedWasApproved, LandsVerified
<1> QED BY <1>2, <1>3, <1>4

LEMMA StutterStep == ASSUME StoryInv, UNCHANGED vars PROVE StoryInv'
BY DEF vars, Typed, LockHeld, GateShape, HeldIsParked, WorkApproved, OnlyApproved, InGate,
   CommitsBound, Bound, NoCauseToDeny, AtTip, JobsNamed, Names, LandedWasApproved,
   LandsVerified

LEMMA AgentCommitsStep == ASSUME StoryInv, AgentCommits PROVE StoryInv'
<1>1. worktree' \in Shas
  <2>1. worktree \in Commit /\ worktree.work \subseteq 0..MaxRounds
    BY DEF AgentCommits, Typed, Shas, Commit
  <2>2. Cardinality(worktree.work) \in Nat
    <3>1. MaxRounds \in Int /\ 0 \in Int
      BY StoryAssumption
    <3>2. IsFiniteSet(0..MaxRounds)
      BY <3>1, FS_Interval
    <3> QED BY <2>1, <3>2, FS_Subset, FS_CardinalityType
  <2>3. Cardinality(worktree.work) + 1 \in 0..MaxRounds
    BY <2>2, StoryAssumption DEF AgentCommits
  <2> QED BY <2>1, <2>3 DEF AgentCommits, Shas, Commit
<1>2. Typed'
  BY <1>1 DEF AgentCommits, Typed
<1>3. gate = Idle \/ gate.by = "operator"
  BY DEF AgentCommits, Typed, Gates, LockHeld, GateShape, HeldIsParked, InGate
<1>4. LockHeld' /\ GateShape' /\ JobsNamed'
  BY DEF AgentCommits, LockHeld, GateShape, HeldIsParked, InGate, JobsNamed, Names
<1>5. WorkApproved'
  BY <1>3 DEF AgentCommits, GateShape, HeldIsParked, WorkApproved, OnlyApproved, InGate
<1>6. CommitsBound' /\ NoCauseToDeny'
  BY <1>3 DEF AgentCommits, CommitsBound, Bound, NoCauseToDeny, AtTip, InGate
<1>7. LandedWasApproved' /\ LandsVerified'
  BY DEF AgentCommits, LandedWasApproved, LandsVerified
<1> QED BY <1>2, <1>4, <1>5, <1>6, <1>7

LEMMA GradeStep == ASSUME StoryInv, Grade PROVE StoryInv'
<1>1. /\ record' \in Records /\ record.status = "in_progress"
      /\ record'.status \in {"failed", "tests_passed", "parked", "changes_requested"}
      /\ record'.vsha = record.vsha /\ record'.ciSha = record.ciSha
      /\ record'.reason = record.reason /\ record'.reverify = record.reverify
  <2>1. CASE record' = [record EXCEPT !.status = "failed"]
    BY <2>1 DEF Grade, Typed, Records, Statuses
  <2>2. CASE record' = [record EXCEPT !.status = "tests_passed"]
    BY <2>2 DEF Grade, Typed, Records, Statuses
  <2>3. CASE record' = SentBackAgain
    <3>1. record \in Records /\ record.rework + 1 \in Nat
      BY DEF Typed, Records
    <3>2. CASE record.rework + 1 >= NoCommitMax
      <4>1. record' = [record EXCEPT !.rework = record.rework + 1, !.status = "parked"]
        BY <2>3, <3>2 DEF SentBackAgain
      <4> QED BY <3>1, <4>1 DEF Grade, Records, Statuses
    <3>3. CASE ~(record.rework + 1 >= NoCommitMax)
      <4>1. record' = [record EXCEPT !.rework = record.rework + 1,
                                     !.status = "changes_requested"]
        BY <2>3, <3>3 DEF SentBackAgain
      <4> QED BY <3>1, <4>1 DEF Grade, Records, Statuses
    <3> QED BY <3>2, <3>3
  <2> QED BY <2>1, <2>2, <2>3 DEF Grade
<1>2. UNCHANGED <<lock, world, mergeVars, reviewVars, upsets>> /\ lock = "free"
  BY DEF Grade
<1>3. Typed'
  BY <1>1, <1>2 DEF Typed
<1>4. gate = Idle /\ \A r \in reviewers : r.pc # "reviewing"
  BY <1>2 DEF Typed, Gates, LockHeld
<1>5. LockHeld' /\ GateShape' /\ JobsNamed'
  BY <1>1, <1>2, <1>4 DEF LockHeld, GateShape, HeldIsParked, JobsNamed, Names
<1>6. WorkApproved'
  BY <1>1, <1>2, <1>4 DEF GateShape, HeldIsParked, WorkApproved, OnlyApproved, InGate
<1>7. CommitsBound' /\ NoCauseToDeny'
  BY <1>1, <1>2, <1>4 DEF GateShape, HeldIsParked, CommitsBound, Bound, NoCauseToDeny, AtTip,
       InGate
<1>8. LandedWasApproved' /\ LandsVerified'
  BY <1>2 DEF LandedWasApproved, LandsVerified
<1> QED BY <1>3, <1>5, <1>6, <1>7, <1>8

LEMMA DispatchStep == ASSUME StoryInv, Dispatch PROVE StoryInv'
<1>1. /\ record' \in Records /\ record.status = "changes_requested"
      /\ record'.status \in {"in_progress", "parked"}
      /\ record'.vsha = record.vsha /\ record'.ciSha = record.ciSha
      /\ record'.reason = record.reason /\ record'.reverify = record.reverify
  BY DEF Dispatch, Typed, Records, Statuses
<1>2. worktree' \in Shas /\ branch' \in Shas
  BY DEF Dispatch, Typed, Rebased, Shas, Commit
<1>3. /\ UNCHANGED <<lock, master, mergeVars, reviewVars>> /\ lock = "free"
      /\ upsets \subseteq upsets'
  BY DEF Dispatch, Upset
<1>4. Typed'
  BY <1>1, <1>2, <1>3 DEF Typed
<1>5. gate = Idle /\ \A r \in reviewers : r.pc # "reviewing"
  BY <1>3 DEF Typed, Gates, LockHeld
<1>6. LockHeld' /\ GateShape' /\ JobsNamed'
  BY <1>1, <1>3, <1>5 DEF LockHeld, GateShape, HeldIsParked, JobsNamed, Names
<1>7. WorkApproved'
  BY <1>1, <1>3, <1>5 DEF GateShape, HeldIsParked, WorkApproved, OnlyApproved, InGate
<1>8. CommitsBound' /\ NoCauseToDeny'
  BY <1>1, <1>3, <1>5 DEF GateShape, HeldIsParked, CommitsBound, Bound, NoCauseToDeny,
     AtTip, InGate
<1>9. LandedWasApproved' /\ LandsVerified'
  BY <1>3 DEF LandedWasApproved, LandsVerified
<1> QED BY <1>4, <1>6, <1>7, <1>8, <1>9

LEMMA MasterMovesStep == ASSUME StoryInv, MasterMoves PROVE StoryInv'
<1>1. Typed'
  BY StoryAssumption DEF MasterMoves, Typed
<1>2. LockHeld' /\ GateShape' /\ WorkApproved' /\ CommitsBound' /\ NoCauseToDeny' /\ JobsNamed'
  BY DEF MasterMoves, LockHeld, GateShape, HeldIsParked, WorkApproved, OnlyApproved, InGate,
     CommitsBound, Bound, NoCauseToDeny, AtTip, JobsNamed, Names
<1>3. LandedWasApproved' /\ LandsVerified'
  BY DEF MasterMoves, LandedWasApproved, LandsVerified
<1> QED BY <1>1, <1>2, <1>3

LEMMA HumanPushStep == ASSUME StoryInv, HumanPush PROVE StoryInv'
<1>1. branch' \in Shas
  <2>1. branch \in Commit /\ 0 \in 0..MaxRounds
    BY StoryAssumption DEF HumanPush, Typed, Shas
  <2> QED BY <2>1 DEF HumanPush, Shas, Commit
<1>2. /\ UNCHANGED <<record, lock, worktree, master, jobs, result, landed, reviewVars>>
      /\ upsets \subseteq upsets' /\ "human_push" \in upsets'
  BY DEF HumanPush, Upset
<1>3. CASE gate = Idle
  <2>1. gate' = gate
    BY <1>3 DEF HumanPush, Idle
  <2>2. Typed' /\ LockHeld' /\ GateShape' /\ JobsNamed'
    BY <1>1, <1>2, <1>3, <2>1 DEF Typed, LockHeld, GateShape, HeldIsParked, InGate, JobsNamed,
         Names
  <2>3. WorkApproved' /\ CommitsBound' /\ NoCauseToDeny'
    BY <1>2, <1>3, <2>1 DEF WorkApproved, OnlyApproved, InGate, CommitsBound, Bound,
       NoCauseToDeny, Causes
  <2> QED BY <1>2, <2>1, <2>2, <2>3 DEF LandedWasApproved, LandsVerified
<1>4. CASE gate \in Gates
  <2>1. gate' = [gate EXCEPT !.raced = TRUE]
    BY <1>4 DEF HumanPush, Gates
  <2>2. /\ gate' \in Gates /\ gate'.raced = TRUE
        /\ gate'.pc = gate.pc /\ gate'.by = gate.by /\ gate'.rec = gate.rec
        /\ gate'.read = gate.read /\ gate'.pushed = gate.pushed /\ gate'.proof = gate.proof
    BY <1>4, <2>1 DEF Gates
  <2>3. gate # Idle /\ gate' # Idle
    BY <1>4, <2>2 DEF Gates, Idle
  <2>4. Typed' /\ LockHeld' /\ GateShape' /\ JobsNamed'
    BY <1>1, <1>2, <2>2, <2>3 DEF Typed, LockHeld, GateShape, HeldIsParked, InGate, JobsNamed,
         Names
  <2>5. WorkApproved' /\ CommitsBound' /\ NoCauseToDeny'
    BY <1>2, <2>2, <2>3 DEF WorkApproved, OnlyApproved, InGate, CommitsBound, Bound,
       NoCauseToDeny, Causes
  <2> QED BY <1>2, <2>4, <2>5 DEF LandedWasApproved, LandsVerified
<1> QED BY <1>3, <1>4 DEF Typed

LEMMA OperatorMoveStep ==
    ASSUME StoryInv, NEW status \in Moves, OperatorMove(status) PROVE StoryInv'
<1>1. /\ record' \in Records /\ record'.status = status
      /\ record'.vsha = record.vsha /\ record'.ciSha = record.ciSha
      /\ record'.reason = IF status = "parked" THEN record.reason ELSE None
      /\ record'.reverify = record.reverify
  BY MovesAssumption DEF OperatorMove, Typed, Records
<1>2. /\ UNCHANGED <<lock, world, mergeVars, reviewVars>> /\ lock = "free"
      /\ upsets \subseteq upsets' /\ "move" \in upsets'
  BY DEF OperatorMove, Upset
<1>3. Typed'
  BY <1>1, <1>2 DEF Typed
<1>4. gate = Idle /\ \A r \in reviewers : r.pc # "reviewing"
  BY <1>2 DEF Typed, Gates, LockHeld
<1>5. LockHeld' /\ GateShape' /\ JobsNamed'
  BY <1>1, <1>2, <1>4, NoneAssumption DEF LockHeld, GateShape, HeldIsParked, JobsNamed, Names
<1>6. WorkApproved' /\ CommitsBound' /\ NoCauseToDeny'
  BY <1>2 DEF WorkApproved, CommitsBound, NoCauseToDeny, Causes
<1>7. LandedWasApproved' /\ LandsVerified'
  BY <1>2 DEF LandedWasApproved, LandsVerified
<1> QED BY <1>3, <1>5, <1>6, <1>7

-----------------------------------------------------------------------------
(* The re-verify process. *)

\* A job that keeps its pid, loses it or ends disturbs nothing but the jobs.
LEMMA JobStep ==
    ASSUME StoryInv, UNCHANGED <<record, lock, world, gate, landed, reviewVars>>,
           upsets \subseteq upsets', jobs' \subseteq Jobs,
           result' = None \/ result' \in [state : {"pass", "fail"}, sha : Commit],
           \A j \in jobs' : j.pid # None => \E k \in jobs : k.pid = j.pid
    PROVE  StoryInv'
<1>1. Typed' /\ LockHeld' /\ GateShape'
  BY DEF Typed, LockHeld, GateShape, HeldIsParked, InGate
<1>2. WorkApproved' /\ CommitsBound'
  BY DEF WorkApproved, OnlyApproved, InGate, CommitsBound, Bound
<1>3. NoCauseToDeny' /\ LandedWasApproved' /\ LandsVerified'
  BY DEF NoCauseToDeny, AtTip, InGate, LandedWasApproved, LandsVerified
<1>4. JobsNamed'
  BY DEF JobsNamed, Names
<1> QED BY <1>1, <1>2, <1>3, <1>4

LEMMA JobReadsHeadStep ==
    ASSUME StoryInv, NEW j \in jobs, JobReadsHead(j) PROVE StoryInv'
<1>1. j \in Jobs /\ [j EXCEPT !.sha = worktree] \in Jobs
      /\ [j EXCEPT !.sha = worktree].pid = j.pid
  BY DEF Typed, Jobs
<1> QED BY <1>1, JobStep DEF JobReadsHead, Typed

LEMMA JobEndsStep ==
    ASSUME StoryInv, NEW j \in jobs, NEW state \in {"pass", "fail"}, JobEnds(j, state)
    PROVE  StoryInv'
<1>1. j \in Jobs /\ j.sha \in Commit
  BY DEF JobEnds, Typed, Jobs, Shas
<1> QED BY <1>1, JobStep DEF JobEnds, Typed

LEMMA JobDiesStep == ASSUME StoryInv, NEW j \in jobs, JobDies(j) PROVE StoryInv'
BY JobStep DEF JobDies, Upset, Typed

-----------------------------------------------------------------------------
(* Reviews. *)

\* What a step that touches only the marker of reviews, and the reviewers,
\* must show: those that are under way are the same.
LEMMA ReviewersStep ==
    ASSUME StoryInv, UNCHANGED <<lock, world, mergeVars, approved>>, upsets \subseteq upsets',
           record' \in Records, record'.status = record.status, record'.vsha = record.vsha,
           record'.ciSha = record.ciSha, record'.reason = record.reason,
           record'.reverify = record.reverify,
           record' = record \/ lock = "free",
           reviewers' \subseteq Reviewers,
           \A r \in reviewers' : r.pc = "reviewing" => r \in reviewers
    PROVE  StoryInv'
<1>1. Typed'
  BY DEF Typed
<1>2. LockHeld'
  BY DEF Typed, Gates, LockHeld
<1>3. GateShape' /\ WorkApproved'
  BY DEF GateShape, HeldIsParked, WorkApproved, OnlyApproved, InGate
<1>4. CommitsBound' /\ NoCauseToDeny' /\ JobsNamed'
  BY DEF CommitsBound, Bound, NoCauseToDeny, AtTip, InGate, JobsNamed, Names
<1>5. LandedWasApproved' /\ LandsVerified'
  BY DEF LandedWasApproved, LandsVerified
<1> QED BY <1>1, <1>2, <1>3, <1>4, <1>5

LEMMA ReviewerTyped ==
    ASSUME NEW child \in BOOLEAN
    PROVE  Reviewer(child) \in Reviewers /\ Reviewer(child).pc = "starting"
BY DEF Reviewer, Reviewers, Shas

LEMMA StartReviewStep == ASSUME StoryInv, StartReview PROVE StoryInv'
<1>1. record' \in Records /\ record'.status = record.status /\ record'.vsha = record.vsha
      /\ record'.ciSha = record.ciSha /\ record'.reason = record.reason
      /\ record'.reverify = record.reverify
  BY DEF StartReview, Typed, Records
<1>2. reviewers' \subseteq Reviewers /\ \A r \in reviewers' : r.pc = "reviewing" => r \in reviewers
  BY ReviewerTyped DEF StartReview, Typed
<1> QED BY <1>1, <1>2, ReviewersStep DEF StartReview, Upset

LEMMA CollectReviewStep == ASSUME StoryInv, CollectReview PROVE StoryInv'
<1>1. record' \in Records /\ record'.status = record.status /\ record'.vsha = record.vsha
      /\ record'.ciSha = record.ciSha /\ record'.reason = record.reason
      /\ record'.reverify = record.reverify
  BY DEF CollectReview, Typed, Records
<1> QED BY <1>1, ReviewersStep DEF CollectReview, Typed

LEMMA AskReviewStep ==
    ASSUME StoryInv, NEW force \in BOOLEAN, AskReview(force) PROVE StoryInv'
<1>1. record' \in Records /\ record'.status = record.status /\ record'.vsha = record.vsha
      /\ record'.ciSha = record.ciSha /\ record'.reason = record.reason
      /\ record'.reverify = record.reverify
  BY DEF AskReview, Typed, Records, Shas
<1>2. reviewers' \subseteq Reviewers /\ \A r \in reviewers' : r.pc = "reviewing" => r \in reviewers
  BY ReviewerTyped DEF AskReview, Typed
<1> QED BY <1>1, <1>2, ReviewersStep DEF AskReview, Upset

LEMMA ReviewerBeginsStep ==
    ASSUME StoryInv, NEW r \in reviewers, ReviewerBegins(r) PROVE StoryInv'
<1>1. CASE lock = "free" /\ Reviewable
  <2> DEFINE s == [r EXCEPT !.pc = "reviewing", !.snap = record, !.head = worktree]
  <2>1. s \in Reviewers /\ s.pc = "reviewing" /\ s.snap = record /\ s.head = worktree
    BY DEF Typed, Reviewers
  <2>2. /\ lock' = "review" /\ reviewers' = (reviewers \ {r}) \cup {s}
        /\ UNCHANGED <<record, world, mergeVars, approved, upsets>>
        /\ record.status = "tests_passed"
    BY <1>1 DEF ReviewerBegins, Become, Without, Reviewable
  <2>3. gate = Idle /\ \A q \in reviewers : q.pc # "reviewing"
    BY <1>1 DEF Typed, Gates, LockHeld
  <2> HIDE DEF s
  <2>4. Typed' /\ LockHeld'
    BY <2>1, <2>2, <2>3 DEF Typed, LockHeld
  <2>5. GateShape' /\ WorkApproved' /\ CommitsBound'
    BY <2>2 DEF GateShape, HeldIsParked, WorkApproved, OnlyApproved, InGate, CommitsBound, Bound
  <2>6. NoCauseToDeny' /\ JobsNamed' /\ LandedWasApproved' /\ LandsVerified'
    BY <2>2 DEF NoCauseToDeny, AtTip, InGate, JobsNamed, Names, LandedWasApproved, LandsVerified
  <2> QED BY <2>4, <2>5, <2>6
<1>2. CASE ~(lock = "free" /\ Reviewable)
  BY <1>2, ReviewersStep DEF ReviewerBegins, Without, Typed
<1> QED BY <1>1, <1>2

LEMMA ReviewerDiesStep ==
    ASSUME StoryInv, NEW r \in reviewers, ReviewerDies(r) PROVE StoryInv'
<1>1. CASE r.pc = "reviewing"
  <2>1. /\ lock = "review" /\ lock' = "free" /\ reviewers' = reviewers \ {r}
        /\ UNCHANGED <<record, world, mergeVars, approved>> /\ upsets \subseteq upsets'
    BY <1>1 DEF ReviewerDies, Without, Upset, LockHeld
  <2>2. gate = Idle /\ \A q \in reviewers' : q.pc # "reviewing"
    BY <1>1, <2>1 DEF Typed, Gates, LockHeld
  <2>3. Typed' /\ LockHeld'
    BY <2>1, <2>2 DEF Typed, LockHeld
  <2>4. GateShape' /\ WorkApproved' /\ CommitsBound'
    BY <2>1 DEF GateShape, HeldIsParked, WorkApproved, OnlyApproved, InGate, CommitsBound, Bound
  <2>5. NoCauseToDeny' /\ JobsNamed' /\ LandedWasApproved' /\ LandsVerified'
    BY <2>1 DEF NoCauseToDeny, AtTip, InGate, JobsNamed, Names, LandedWasApproved, LandsVerified
  <2> QED BY <2>3, <2>4, <2>5
<1>2. CASE r.pc # "reviewing"
  BY <1>2, ReviewersStep DEF ReviewerDies, Without, Upset, Typed
<1> QED BY <1>1, <1>2

\* A review ends: its commit is the only write of the manifest since it read it.
LEMMA ReviewWritten ==
    ASSUME StoryInv, NEW r \in reviewers, r.pc = "reviewing",
           lock' = "free", reviewers' = reviewers \ {r}, UNCHANGED <<master, mergeVars>>,
           record' \in Records, worktree' \in Shas, branch' \in Shas,
           approved \subseteq approved', approved' \subseteq 0..MaxRounds,
           upsets \subseteq upsets',
           record'.ciSha = record.ciSha, record'.reason = record.reason,
           record'.reverify = record.reverify,
           record'.status = "pr_open" =>
               /\ record'.vsha = worktree
               /\ OnlyApproved(worktree)' /\ worktree.work \subseteq approved'
               /\ branch' = worktree \/ "self_fix" \in upsets'
    PROVE  StoryInv'
<1>1. lock = "review" /\ record.status = "tests_passed" /\ gate = Idle
      /\ \A q \in reviewers' : q.pc # "reviewing"
  BY DEF Typed, Gates, LockHeld
<1>2. Typed' /\ LockHeld'
  BY <1>1 DEF Typed, LockHeld
<1>3. record.reason # "hold" /\ GateShape'
  BY <1>1 DEF GateShape, HeldIsParked
<1>4. WorkApproved'
  BY <1>1, <1>3 DEF WorkApproved, OnlyApproved, InGate
<1>5. CommitsBound' /\ NoCauseToDeny'
  BY <1>1, <1>3 DEF CommitsBound, Bound, NoCauseToDeny, AtTip, InGate, Causes
<1>6. JobsNamed'
  BY <1>1 DEF JobsNamed, Names
<1>7. LandedWasApproved' /\ LandsVerified'
  BY DEF LandedWasApproved, LandsVerified
<1> QED BY <1>2, <1>3, <1>4, <1>5, <1>6, <1>7

LEMMA ReviewerEndsStep ==
    ASSUME StoryInv, NEW r \in reviewers, ReviewerEnds(r) PROVE StoryInv'
<1>1. /\ r.pc = "reviewing" /\ r.snap = record /\ r.head = worktree
      /\ record \in Records /\ record.status = "tests_passed"
      /\ worktree \in Commit /\ worktree.work \subseteq 0..MaxRounds
      /\ branch \in Shas /\ worktree \in Shas /\ None \in Shas
      /\ UNCHANGED <<master, mergeVars>>
  BY DEF ReviewerEnds, LockHeld, Typed, Shas, Commit
<1>2. record.rework + 1 \in Nat /\ record.unsure + 1 \in Nat /\ 0 \in Nat
  BY <1>1 DEF Records
<1>3. {"pr_open", "parked", "changes_requested", "tests_passed"} \subseteq Statuses
  BY DEF Statuses
<1>4. approved \subseteq 0..MaxRounds
  BY DEF Typed
<1>5. CASE Approves(r)
  <2>1. CASE /\ Commit1(r, [record EXCEPT !.vsha = worktree, !.unsure = 0, !.status = "pr_open",
                                          !.rework = 0, !.lastReviewed = None])
             /\ branch' = worktree /\ UNCHANGED upsets
    <3>1. /\ record' \in Records /\ record'.vsha = worktree
          /\ record'.ciSha = record.ciSha /\ record'.reason = record.reason
          /\ record'.reverify = record.reverify
      BY <1>1, <1>2, <1>3, <2>1 DEF Commit1, Records
    <3> QED BY <1>1, <1>4, <1>5, <2>1, <3>1, ReviewWritten
            DEF Approves, Commit1, Without, OnlyApproved
  <2>2. CASE /\ Commit1(r, [record EXCEPT !.vsha = worktree, !.unsure = 0])
             /\ Upset("push") /\ UNCHANGED branch
    <3>1. /\ record' \in Records /\ record'.status = "tests_passed"
          /\ record'.ciSha = record.ciSha /\ record'.reason = record.reason
          /\ record'.reverify = record.reverify
      BY <1>1, <1>2, <1>3, <2>2 DEF Commit1, Records
    <3> QED BY <1>1, <1>4, <1>5, <2>2, <3>1, ReviewWritten
            DEF Approves, Commit1, Without, Upset
  <2> QED BY <1>1, <1>5, <2>1, <2>2 DEF Approves, Approved
<1>6. CASE ApprovesWithFix(r)
  <2> DEFINE fixed == [worktree EXCEPT !.work = @ \cup {Cardinality(@) + 1}]
  <2>1. fixed \in Commit /\ worktree.work \subseteq fixed.work /\ fixed.work \subseteq 0..MaxRounds
    <3>1. MaxRounds \in Int /\ 0 \in Int
      BY StoryAssumption
    <3>2. IsFiniteSet(0..MaxRounds)
      BY <3>1, FS_Interval
    <3>3. Cardinality(worktree.work) \in Nat
      BY <1>1, <3>2, FS_Subset, FS_CardinalityType
    <3>4. Cardinality(worktree.work) + 1 \in 0..MaxRounds
      BY <1>6, <3>3, StoryAssumption DEF ApprovesWithFix
    <3> QED BY <1>1, <3>4 DEF Commit
  <2>2. /\ worktree' = fixed /\ branch' = fixed /\ approved' = approved \cup fixed.work
        /\ lock' = "free" /\ reviewers' = reviewers \ {r}
        /\ upsets \subseteq upsets' /\ "self_fix" \in upsets'
        /\ record' = [record EXCEPT !.vsha = worktree, !.unsure = 0, !.status = "pr_open",
                                    !.rework = 0, !.lastReviewed = None]
    BY <1>1, <1>6 DEF ApprovesWithFix, Approved, Commit1, Without, Upset
  <2> HIDE DEF fixed
  <2>3. /\ record' \in Records /\ record'.vsha = worktree
        /\ record'.ciSha = record.ciSha /\ record'.reason = record.reason
        /\ record'.reverify = record.reverify
    BY <1>1, <1>2, <1>3, <2>2 DEF Records
  <2>4. worktree' \in Shas /\ branch' \in Shas /\ OnlyApproved(worktree)'
        /\ worktree.work \subseteq approved' /\ approved \subseteq approved'
        /\ approved' \subseteq 0..MaxRounds
    BY <1>4, <2>1, <2>2 DEF Shas, OnlyApproved
  <2> QED BY <1>1, <2>2, <2>3, <2>4, ReviewWritten
<1>7. CASE SendsBack(r)
  <2>1. PICK head \in {None, worktree} :
            LET tries == record.rework + 1
                s == [Approved(record, head) EXCEPT
                        !.unsure = 0, !.rework = tries, !.lastReviewed = worktree]
            IN IF tries >= ReworkMax
               THEN Commit1(r, [s EXCEPT !.status = "parked"]) /\ UNCHANGED branch
               ELSE /\ Commit1(r, [s EXCEPT !.status = "changes_requested"])
                    /\ branch' \in {branch, worktree}
    BY <1>1, <1>7 DEF SendsBack
  <2>2. PICK status \in {"parked", "changes_requested"} :
            record' = [record EXCEPT !.vsha = head, !.unsure = 0, !.status = status,
                                     !.rework = record.rework + 1, !.lastReviewed = worktree]
    <3> DEFINE tries == record.rework + 1
               s == [Approved(record, head) EXCEPT
                       !.unsure = 0, !.rework = tries, !.lastReviewed = worktree]
    <3>1. PICK status \in {"parked", "changes_requested"} :
              record' = [s EXCEPT !.status = status]
      BY <2>1 DEF Commit1
    <3>2. record \in Records
      BY <1>1
    <3>3. record' = [record EXCEPT !.vsha = head, !.unsure = 0, !.status = status,
                                   !.rework = record.rework + 1, !.lastReviewed = worktree]
      BY <3>1, <3>2 DEF Approved, Records
    <3> QED BY <3>3
  <2>3. /\ record' \in Records /\ record'.status # "pr_open"
        /\ record'.ciSha = record.ciSha /\ record'.reason = record.reason
        /\ record'.reverify = record.reverify
    <3>1. head \in Shas /\ status \in Statuses
      BY <1>1, <1>3
    <3> QED BY <1>1, <1>2, <2>2, <3>1 DEF Records
  <2>4. /\ lock' = "free" /\ reviewers' = reviewers \ {r} /\ branch' \in Shas
        /\ UNCHANGED <<worktree, approved, upsets>>
    BY <1>1, <1>7, <2>1 DEF SendsBack, Commit1, Without
  <2> QED BY <1>1, <1>4, <2>3, <2>4, ReviewWritten
<1>8. CASE IsInconclusive(r)
  <2>1. record' \in {[record EXCEPT !.vsha = None, !.unsure = record.unsure + 1],
                     [record EXCEPT !.vsha = None, !.unsure = record.unsure + 1,
                                    !.status = "parked"]}
    BY <1>1, <1>8 DEF IsInconclusive, Approved, Commit1, Records
  <2>2. /\ record' \in Records /\ record'.status # "pr_open"
        /\ record'.ciSha = record.ciSha /\ record'.reason = record.reason
        /\ record'.reverify = record.reverify
    BY <1>1, <1>2, <1>3, <2>1 DEF Records
  <2>3. /\ lock' = "free" /\ reviewers' = reviewers \ {r}
        /\ UNCHANGED <<worktree, branch, approved, upsets>>
    BY <1>8 DEF IsInconclusive, Commit1, Without
  <2> QED BY <1>1, <1>4, <2>2, <2>3, ReviewWritten
<1>9. CASE IsDeferred(r)
  <2>1. record' \in {record, [record EXCEPT !.vsha = worktree]}
    BY <1>1, <1>9 DEF IsDeferred, Approved, Commit1
  <2>2. /\ record' \in Records /\ record'.status # "pr_open"
        /\ record'.ciSha = record.ciSha /\ record'.reason = record.reason
        /\ record'.reverify = record.reverify
    BY <1>1, <1>2, <1>3, <2>1 DEF Records
  <2>3. /\ lock' = "free" /\ reviewers' = reviewers \ {r}
        /\ UNCHANGED <<worktree, branch, approved, upsets>>
    BY <1>9 DEF IsDeferred, Commit1, Without
  <2> QED BY <1>1, <1>4, <2>2, <2>3, ReviewWritten
<1> QED BY <1>5, <1>6, <1>7, <1>8, <1>9 DEF ReviewerEnds

-----------------------------------------------------------------------------
(* The gate: what its steps have in common. *)

LEMMA GateActive ==
    ASSUME StoryInv, gate.pc \in {"prepare", "ci", "reverify", "land", "save"}
    PROVE  gate \in Gates /\ gate # Idle /\ gate.rec \in Records /\ gate.by \in {"tick", "operator"}
BY DEF Typed, Gates, Idle

LEMMA GateIdle == ASSUME StoryInv, lock = "free"
                  PROVE  gate = Idle /\ \A r \in reviewers : r.pc # "reviewing"
BY DEF Typed, Gates, LockHeld

LEMMA GatesNotIdle == ASSUME NEW g \in Gates PROVE g # Idle
BY DEF Gates, Idle

\* A killed job loses its pid; the others are as they were.
LEMMA KillFacts ==
    ASSUME jobs \subseteq Jobs, NEW handle
    PROVE  /\ Kill(handle) \subseteq Jobs
           /\ \A j \in Kill(handle) : j.pid # None =>
                  j \in jobs /\ (handle # None => j.pid # handle.pid)
<1> DEFINE victims == {j \in jobs : handle # None /\ j.pid = handle.pid}
<1>1. \A v \in victims : [v EXCEPT !.pid = None] \in Jobs /\ [v EXCEPT !.pid = None].pid = None
  BY DEF Jobs
<1> QED BY <1>1 DEF Kill

\* Cancels keeps the jobs those of the handle that is left.
LEMMA CancelsFacts ==
    ASSUME StoryInv, gate \in Gates, Cancels, NEW now,
           now = IF gate' = Idle THEN record' ELSE gate'.rec,
           now.reverify \in {None, gate.rec.reverify}
    PROVE  /\ jobs' \subseteq Jobs
           /\ "crash" \notin upsets => \A j \in jobs' : j.pid # None => Names(now, j)
<1>1. jobs' = IF now.reverify = None THEN Kill(gate.rec.reverify) ELSE jobs
  BY DEF Cancels
<1>2. jobs \subseteq Jobs /\ gate # Idle
  BY GatesNotIdle DEF Typed
<1>3. CASE now.reverify = None
  BY <1>1, <1>2, <1>3, KillFacts DEF JobsNamed, Names
<1>4. CASE now.reverify # None
  BY <1>1, <1>2, <1>4 DEF JobsNamed, Names
<1> QED BY <1>3, <1>4

\* The gate, or a tick that does not let the story in, writes the record: what
\* it must know of what it writes.
LEMMA GateWrites ==
    ASSUME StoryInv, gate \in Gates \/ lock = "free",
           NEW rec \in Records, Write(rec), upsets \subseteq upsets',
           UNCHANGED <<branch, master, result, landed, reviewVars>>, jobs' \subseteq Jobs,
           worktree' \in Shas,
           worktree' = worktree \/ (worktree # None /\ worktree'.work = worktree.work),
           HeldIsParked(rec), InGate(rec) => InGate(record),
           "move" \notin upsets' =>
               OnlyApproved(rec.ciSha) /\ (InGate(rec) => OnlyApproved(rec.vsha)),
           upsets' \cap {"approve_merge", "move"} = {} => Bound(rec),
           upsets' \cap Causes = {} => rec.reason # "denied" /\ AtTip(rec),
           "crash" \notin upsets' => \A j \in jobs' : j.pid # None => Names(rec, j)
    PROVE  StoryInv'
<1>1. record' = rec /\ gate' = Idle /\ lock' = "free"
  BY DEF Write
<1>2. \A r \in reviewers : r.pc # "reviewing"
  BY GateIdle, GatesNotIdle DEF Gates, LockHeld
<1>3. Typed' /\ LockHeld'
  BY <1>1, <1>2 DEF Typed, LockHeld
<1>4. GateShape' /\ CommitsBound'
  BY <1>1 DEF GateShape, HeldIsParked, CommitsBound, Bound
<1>5. WorkApproved'
  BY <1>1 DEF WorkApproved, OnlyApproved, InGate
<1>6. NoCauseToDeny' /\ JobsNamed'
  BY <1>1 DEF NoCauseToDeny, AtTip, InGate, JobsNamed, Names
<1>7. LandedWasApproved' /\ LandsVerified'
  BY DEF LandedWasApproved, LandsVerified
<1> QED BY <1>3, <1>4, <1>5, <1>6, <1>7

\* The gate is left without a write: the operator's, or one that crashed.
LEMMA GateQuits ==
    ASSUME StoryInv, gate \in Gates, Quit, upsets \subseteq upsets',
           gate.by = "operator" \/ "crash" \in upsets',
           UNCHANGED <<branch, master, result, landed, reviewVars>>, jobs' \subseteq Jobs,
           worktree' \in Shas,
           worktree' = worktree \/ (worktree # None /\ worktree'.work = worktree.work),
           "crash" \notin upsets' => \A j \in jobs' : j.pid # None => Names(record, j)
    PROVE  StoryInv'
<1>1. record' = record /\ gate' = Idle /\ lock' = "free" /\ gate # Idle
  BY GatesNotIdle DEF Quit
<1>2. \A r \in reviewers : r.pc # "reviewing"
  BY <1>1 DEF Gates, LockHeld
<1>3. Typed' /\ LockHeld'
  BY <1>1, <1>2 DEF Typed, LockHeld
<1>4. GateShape' /\ CommitsBound'
  BY <1>1 DEF GateShape, HeldIsParked, CommitsBound, Bound
<1>5. WorkApproved'
  BY <1>1 DEF WorkApproved, OnlyApproved, InGate
<1>6. upsets' \cap Causes # {}
  BY <1>1 DEF CommitsBound, Causes
<1>7. NoCauseToDeny' /\ JobsNamed'
  BY <1>1, <1>6 DEF NoCauseToDeny, JobsNamed, Names
<1>8. LandedWasApproved' /\ LandsVerified'
  BY DEF LandedWasApproved, LandsVerified
<1> QED BY <1>3, <1>4, <1>5, <1>7, <1>8

\* What AfterError makes of a record of an open story.
LEMMA AfterErrorFacts ==
    ASSUME NEW rec \in Records, NEW kind \in {"conflict", "ci", "other"}
    PROVE  /\ AfterError(rec, kind) \in Records
           /\ AfterError(rec, kind).vsha = rec.vsha /\ AfterError(rec, kind).ciSha = rec.ciSha
           /\ AfterError(rec, kind).reason = rec.reason
           /\ \/ /\ AfterError(rec, kind).status = rec.status
                 /\ AfterError(rec, kind).reverify = rec.reverify
              \/ /\ AfterError(rec, kind).status \in {"changes_requested", "failed"}
                 /\ AfterError(rec, kind).reverify = None
<1>1. rec.attempts + 1 \in Nat /\ rec.conflicts \in 0..ConflictMax /\ ConflictMax \in Nat
      /\ None \in Handles /\ {"changes_requested", "failed"} \subseteq Statuses
  BY StoryAssumption DEF Records, Handles, Statuses
<1> DEFINE tries == rec.attempts + 1
<1>2. CASE kind = "conflict" /\ ReworkFor(rec, kind)
  <2>1. rec.conflicts + 1 \in 0..ConflictMax
    BY <1>1, <1>2 DEF ReworkFor
  <2>2. AfterError(rec, kind) = [Leaves(rec, "changes_requested", rec.reason)
                                    EXCEPT !.conflicts = @ + 1]
    BY <1>2 DEF AfterError
  <2> QED BY <1>1, <2>1, <2>2 DEF Leaves, Records
<1>3. CASE kind = "ci" /\ ReworkFor(rec, kind)
  <2>1. AfterError(rec, kind) = [Leaves(rec, "changes_requested", rec.reason)
                                    EXCEPT !.attempts = tries]
    BY <1>3 DEF AfterError
  <2> QED BY <1>1, <2>1 DEF Leaves, Records
<1>4. CASE ~ReworkFor(rec, kind) /\ tries >= MergeMax
  <2>1. AfterError(rec, kind) = [Leaves(rec, "failed", rec.reason) EXCEPT !.attempts = tries]
    BY <1>4 DEF AfterError
  <2> QED BY <1>1, <2>1 DEF Leaves, Records
<1>5. CASE ~ReworkFor(rec, kind) /\ ~(tries >= MergeMax)
  <2>1. AfterError(rec, kind) = [rec EXCEPT !.attempts = tries]
    BY <1>5 DEF AfterError
  <2> QED BY <1>1, <2>1 DEF Records
<1> QED BY <1>2, <1>3, <1>4, <1>5 DEF ReworkFor

\* A step of the gate fails.
LEMMA GateFails ==
    ASSUME StoryInv, gate \in Gates, gate.pc # "save", Cancels,
           NEW rec \in Records, NEW kind \in {"conflict", "ci", "other"}, GateError(rec, kind),
           UNCHANGED <<branch, master, result, landed, reviewVars>>, upsets \subseteq upsets',
           worktree' \in Shas,
           worktree' = worktree \/ (worktree # None /\ worktree'.work = worktree.work),
           rec.status = gate.rec.status, rec.reason = gate.rec.reason,
           rec.vsha = gate.rec.vsha, rec.ciSha \in {None, gate.rec.ciSha},
           rec.reverify \in {None, gate.rec.reverify},
           upsets \cap {"approve_merge", "move"} = {} => rec.ciSha = None
    PROVE  StoryInv'
<1>1. gate # Idle /\ gate.rec \in Records
  BY GatesNotIdle DEF Gates
<1>2. CASE gate.by = "tick"
  <2>1. PICK after \in Records :
            /\ after = AfterError(rec, kind)
            /\ after.vsha = rec.vsha /\ after.ciSha = rec.ciSha /\ after.reason = rec.reason
            /\ \/ after.status = rec.status /\ after.reverify = rec.reverify
               \/ after.status \in {"changes_requested", "failed"} /\ after.reverify = None
    BY AfterErrorFacts
  <2>2. Write(after)
    BY <1>2, <2>1 DEF GateError
  <2>3. jobs' \subseteq Jobs /\ ("crash" \notin upsets => \A j \in jobs' : j.pid # None => Names(after, j))
    BY <2>1, <2>2, CancelsFacts DEF Write
  <2>4. /\ rec.status = "pr_open" /\ after.reason = None /\ HeldIsParked(after)
        /\ InGate(record)
    BY <1>1, <1>2, <2>1, NoneAssumption DEF GateShape, HeldIsParked
  <2>5. "move" \notin upsets' =>
            OnlyApproved(after.ciSha) /\ (InGate(after) => OnlyApproved(after.vsha))
    BY <1>1, <2>1, <2>4 DEF WorkApproved, OnlyApproved, InGate
  <2>6. upsets' \cap {"approve_merge", "move"} = {} => Bound(after)
    BY <1>1, <2>1 DEF CommitsBound, Bound
  <2>7. upsets' \cap Causes = {} => after.reason # "denied" /\ AtTip(after)
    BY <1>1, <2>1, <2>4, NoneAssumption DEF NoCauseToDeny, AtTip, InGate
  <2> QED BY <2>1, <2>2, <2>3, <2>4, <2>5, <2>6, <2>7, GateWrites
<1>3. CASE gate.by = "operator"
  <2>1. Quit /\ gate.rec.reverify = record.reverify
    BY <1>1, <1>3 DEF GateError, GateShape
  <2>2. jobs' \subseteq Jobs /\ ("crash" \notin upsets => \A j \in jobs' : j.pid # None => Names(record, j))
    BY <2>1, CancelsFacts DEF Quit
  <2> QED BY <1>3, <2>1, <2>2, GateQuits
<1> QED BY <1>2, <1>3 DEF Gates

-----------------------------------------------------------------------------
(* The gate opens. *)

LEMMA ParkStep ==
    ASSUME StoryInv, lock = "free", NEW reason \in {None, "hold", "denied"}, Park(reason),
           UNCHANGED <<world, result, landed, reviewVars>>, upsets \subseteq upsets',
           reason = "hold" => InGate(record),
           reason = "denied" => upsets' \cap Causes # {}
    PROVE  StoryInv'
<1>1. PICK rec : rec = Leaves(record, "parked", reason)
  OBVIOUS
<1>2. /\ rec \in Records /\ rec.status = "parked" /\ rec.reason = reason
      /\ rec.reverify = None /\ rec.vsha = record.vsha /\ rec.ciSha = record.ciSha
  BY <1>1 DEF Leaves, Records, Statuses, Handles, Typed
<1>3. Write(rec) /\ jobs' = Kill(record.reverify) /\ gate = Idle
  BY <1>1, GateIdle DEF Park
<1>4. jobs' \subseteq Jobs /\ ("crash" \notin upsets => \A j \in jobs' : j.pid # None => Names(rec, j))
  BY <1>3, KillFacts DEF Typed, JobsNamed, Names
<1>5. HeldIsParked(rec) /\ (InGate(rec) => InGate(record))
  BY <1>2 DEF HeldIsParked, InGate
<1>6. "move" \notin upsets' =>
          OnlyApproved(rec.ciSha) /\ (InGate(rec) => OnlyApproved(rec.vsha))
  BY <1>2, <1>5 DEF WorkApproved, OnlyApproved
<1>7. upsets' \cap {"approve_merge", "move"} = {} => Bound(rec)
  BY <1>2 DEF CommitsBound, Bound
<1>8. upsets' \cap Causes = {} => rec.reason # "denied" /\ AtTip(rec)
  BY <1>2, <1>3, <1>5 DEF NoCauseToDeny, AtTip
<1>9. worktree' \in Shas
  BY DEF Typed
<1> QED BY <1>2, <1>3, <1>4, <1>5, <1>6, <1>7, <1>8, <1>9, GateWrites

LEMMA EnterStep ==
    ASSUME StoryInv, lock = "free", NEW by \in {"tick", "operator"}, NEW rec \in Records,
           Enter("prepare", by, rec, None), Covers(record, branch),
           UNCHANGED <<world, jobs, result, landed, reviewVars>>, upsets \subseteq upsets',
           record.status \in {"pr_open", "parked"},
           rec.vsha = record.vsha, rec.ciSha = record.ciSha, rec.reverify = record.reverify,
           by = "tick" => InGate(record) /\ rec.status = "pr_open" /\ rec.reason = None,
           by = "operator" => /\ rec.status = record.status /\ rec.reason = record.reason
                              /\ "approve_merge" \in upsets'
    PROVE  StoryInv'
<1>1. gate = Idle /\ \A r \in reviewers : r.pc # "reviewing"
  BY GateIdle
<1>2. /\ gate' \in Gates /\ gate'.pc = "prepare" /\ gate'.by = by /\ gate'.rec = rec
      /\ gate'.read = record /\ gate'.pushed = None /\ gate'.raced = FALSE
      /\ lock' = by /\ record' = record
  BY DEF Enter, Gates, Shas, Typed
<1>3. gate' # Idle
  BY <1>2, GatesNotIdle
<1>4. rec.vsha # None /\ rec.vsha = branch
  BY DEF Covers
<1>5. Typed' /\ LockHeld'
  BY <1>1, <1>2, <1>3 DEF Typed, LockHeld
<1>6. GateShape'
  BY <1>2, <1>3, <1>4, NoneAssumption DEF GateShape, HeldIsParked, InGate
<1>7. WorkApproved'
  BY <1>2, <1>3, <1>4, NoneAssumption DEF WorkApproved, OnlyApproved, InGate
<1>8. CommitsBound'
  BY <1>2, <1>3, <1>4 DEF CommitsBound, Bound
<1>9. NoCauseToDeny'
  BY <1>1, <1>2, <1>3, <1>4, NoneAssumption DEF NoCauseToDeny, AtTip, Causes
<1>10. JobsNamed' /\ LandedWasApproved' /\ LandsVerified'
  BY <1>1, <1>2, <1>3 DEF JobsNamed, Names, LandedWasApproved, LandsVerified
<1> QED BY <1>5, <1>6, <1>7, <1>8, <1>9, <1>10

LEMMA StartMergeStep == ASSUME StoryInv, StartMerge PROVE StoryInv'
<1>1. /\ lock = "free" /\ (record.status = "pr_open" \/ Reopens)
      /\ UNCHANGED <<world, result, landed, reviewVars>> /\ gate = Idle
  BY GateIdle DEF StartMerge
<1>2. InGate(record)
  BY <1>1 DEF Reopens, InGate
<1>3. CASE record.vsha # None /\ Park("hold") /\ UNCHANGED upsets
  <2>1. "hold" \in {None, "hold", "denied"} /\ "hold" # "denied" /\ upsets \subseteq upsets'
    BY <1>3
  <2> QED BY <1>1, <1>2, <1>3, <2>1, ParkStep
<1>4. CASE ~Reopens /\ Park(None) /\ UNCHANGED upsets
  BY <1>1, <1>4, NoneAssumption, ParkStep
<1>5. CASE /\ Covers(record, branch)
           /\ Enter("prepare", "tick",
                    [record EXCEPT !.status = "pr_open", !.reason = None], None)
           /\ UNCHANGED <<jobs, upsets>>
  <2> DEFINE rec == [record EXCEPT !.status = "pr_open", !.reason = None]
  <2>1. /\ rec \in Records /\ rec.status = "pr_open" /\ rec.reason = None
        /\ rec.vsha = record.vsha /\ rec.ciSha = record.ciSha /\ rec.reverify = record.reverify
    BY DEF Typed, Records, Statuses
  <2> HIDE DEF rec
  <2>2. record.status \in {"pr_open", "parked"}
    BY <1>1 DEF Reopens
  <2>3. Enter("prepare", "tick", rec, None) /\ Covers(record, branch) /\ upsets \subseteq upsets'
        /\ "tick" \in {"tick", "operator"} /\ "tick" # "operator"
    BY <1>5 DEF rec
  <2> QED BY <1>1, <1>2, <1>5, <2>1, <2>2, <2>3, EnterStep
<1>6. CASE record.vsha # None /\ ~Covers(record, branch) /\ Park("denied") /\ UNCHANGED upsets
  <2>1. upsets \cap Causes # {}
    BY <1>1, <1>2, <1>6 DEF NoCauseToDeny, AtTip, Covers
  <2>2. "denied" \in {None, "hold", "denied"} /\ "hold" # "denied"
        /\ upsets \subseteq upsets' /\ upsets' \cap Causes # {}
    BY <1>6, <2>1
  <2> QED BY <1>1, <1>6, <2>2, ParkStep
<1>7. CASE record.vsha # None /\ Park("denied") /\ Upset("fetch")
  <2>1. "denied" \in {None, "hold", "denied"} /\ "hold" # "denied"
        /\ upsets \subseteq upsets' /\ upsets' \cap Causes # {}
    BY <1>7 DEF Upset, Causes
  <2> QED BY <1>1, <1>7, <2>1, ParkStep
<1> QED BY <1>3, <1>4, <1>5, <1>6, <1>7 DEF StartMerge

LEMMA ApproveMergeStep == ASSUME StoryInv, ApproveMerge PROVE StoryInv'
<1>1. record \in Records /\ upsets \subseteq upsets' /\ "approve_merge" \in upsets'
  BY DEF ApproveMerge, Upset, Typed
<1> QED BY <1>1, EnterStep DEF ApproveMerge

-----------------------------------------------------------------------------
(* The gate goes on. *)

\* A commit already pushed is polled: of this very commit the approval is.
LEMMA PollStep ==
    ASSUME StoryInv, gate.pc = "prepare", gate.by = "tick", Cancels,
           NEW sha \in Shas, sha \in {gate.rec.ciSha, worktree},
           upsets \cap {"approve_merge", "move"} = {} => sha = gate.rec.vsha,
           gate' = [gate EXCEPT !.pc = "ci", !.rec = Rebind(gate.rec, sha), !.pushed = sha],
           UNCHANGED <<record, lock, world, result, landed, reviewVars, upsets>>
    PROVE  StoryInv'
<1>1. gate \in Gates /\ gate # Idle /\ gate.rec \in Records
  BY GateActive
<1>2. PICK rec \in Records :
          /\ rec = Rebind(gate.rec, sha) /\ rec.vsha \in {sha, gate.rec.vsha} \ {None}
          /\ sha # None => rec.vsha = sha
          /\ rec.status = gate.rec.status /\ rec.reason = gate.rec.reason
          /\ rec.ciSha = gate.rec.ciSha /\ rec.reverify = gate.rec.reverify
  <2>1. Rebind(gate.rec, sha) = IF sha # None THEN [gate.rec EXCEPT !.vsha = sha] ELSE gate.rec
    BY <1>1 DEF Rebind, GateShape
  <2>2. gate.rec.vsha # None
    BY <1>1 DEF GateShape
  <2> QED BY <1>1, <2>1, <2>2 DEF Records
<1>3. /\ gate' \in Gates /\ gate'.pc = "ci" /\ gate'.by = "tick" /\ gate'.rec = rec
      /\ gate'.read = gate.read /\ gate'.pushed = sha /\ gate'.raced = gate.raced
  BY <1>1, <1>2 DEF Gates
<1>4. gate' # Idle
  BY <1>3, GatesNotIdle
<1>5. Typed' /\ LockHeld' /\ GateShape'
  <2>1. jobs' \subseteq Jobs
    BY <1>1, <1>2, <1>3, <1>4, CancelsFacts
  <2> QED BY <1>1, <1>2, <1>3, <1>4, <2>1 DEF Typed, LockHeld, GateShape, HeldIsParked, InGate
<1>6. WorkApproved'
  BY <1>1, <1>2, <1>3, <1>4 DEF WorkApproved, OnlyApproved, InGate, GateShape
<1>7. CommitsBound'
  BY <1>1, <1>2, <1>3, <1>4 DEF CommitsBound, Bound
<1>8. NoCauseToDeny'
  BY <1>1, <1>2, <1>3, <1>4 DEF NoCauseToDeny, AtTip, InGate, Causes, CommitsBound
<1>9. JobsNamed'
  BY <1>1, <1>2, <1>3, <1>4, CancelsFacts DEF JobsNamed
<1>10. LandedWasApproved' /\ LandsVerified'
  BY DEF LandedWasApproved, LandsVerified
<1> QED BY <1>5, <1>6, <1>7, <1>8, <1>9, <1>10

\* The worktree is rebased and pushed, and the approval goes with it.
LEMMA PushStep ==
    ASSUME StoryInv, gate.pc = "prepare", Cancels, NEW rec \in Records, worktree # None,
           worktree' = Rebased(worktree), branch' = Rebased(worktree),
           gate' = [gate EXCEPT !.pc = "ci", !.rec = Rebind(rec, Rebased(worktree)),
                                !.pushed = Rebased(worktree)],
           UNCHANGED <<record, lock, master, result, landed, reviewVars, upsets>>,
           rec.status = gate.rec.status, rec.reason = gate.rec.reason,
           rec.vsha = gate.rec.vsha, rec.ciSha = gate.rec.ciSha,
           rec.reverify \in {None, gate.rec.reverify},
           gate.by = "operator" => rec.reverify = gate.rec.reverify,
           upsets \cap {"approve_merge", "move"} = {} => rec.ciSha = None /\ rec.reverify = None
    PROVE  StoryInv'
<1>1. gate \in Gates /\ gate # Idle /\ gate.rec \in Records
  BY GateActive
<1>2. PICK sha \in Commit : sha = Rebased(worktree) /\ sha.work = worktree.work
  BY DEF Typed, Rebased, Shas, Commit
<1>3. sha # None /\ sha \in Shas
  BY <1>2, NoneAssumption DEF Shas
<1>4. PICK new \in Records :
          /\ new = Rebind(rec, sha) /\ new.vsha = sha
          /\ new.status = rec.status /\ new.reason = rec.reason
          /\ new.ciSha = rec.ciSha /\ new.reverify = rec.reverify
  <2>1. Rebind(rec, sha) = [rec EXCEPT !.vsha = sha]
    BY <1>1, <1>3 DEF Rebind, GateShape
  <2> QED BY <1>3, <2>1 DEF Records
<1>5. /\ gate' \in Gates /\ gate'.pc = "ci" /\ gate'.by = gate.by /\ gate'.rec = new
      /\ gate'.read = gate.read /\ gate'.pushed = sha /\ gate'.raced = gate.raced
  BY <1>1, <1>2, <1>3, <1>4 DEF Gates
<1>6. gate' # Idle
  BY <1>5, GatesNotIdle
<1>7. jobs' \subseteq Jobs /\ JobsNamed'
  BY <1>1, <1>4, <1>5, <1>6, CancelsFacts DEF JobsNamed
<1>8. Typed' /\ GateShape'
  BY <1>1, <1>2, <1>3, <1>4, <1>5, <1>6, <1>7 DEF Typed, GateShape, HeldIsParked, InGate
<1>9. LockHeld'
  BY <1>1, <1>5, <1>6 DEF LockHeld, Gates
<1>10. WorkApproved'
  <2>1. /\ gate.by = "tick" => InGate(record)
        /\ InGate(new) => InGate(record)
    BY <1>1, <1>4 DEF GateShape, InGate, Gates
  <2>2. "move" \notin upsets /\ InGate(record) => OnlyApproved(worktree) /\ OnlyApproved(record.vsha)
    BY DEF WorkApproved
  <2>3. "move" \notin upsets /\ InGate(record) => OnlyApproved(sha)
    BY <1>2, <2>2 DEF OnlyApproved
  <2>4. "move" \notin upsets => OnlyApproved(record.ciSha) /\ OnlyApproved(new.ciSha)
    BY <1>1, <1>4 DEF WorkApproved
  <2> QED BY <1>1, <1>2, <1>4, <1>5, <1>6, <2>1, <2>2, <2>3, <2>4
          DEF WorkApproved, OnlyApproved, InGate
<1>11. CommitsBound' /\ NoCauseToDeny'
  BY <1>1, <1>2, <1>3, <1>4, <1>5, <1>6
     DEF CommitsBound, Bound, NoCauseToDeny, AtTip, InGate, Causes
<1>12. LandedWasApproved' /\ LandsVerified'
  BY DEF LandedWasApproved, LandsVerified
<1> QED BY <1>7, <1>8, <1>9, <1>10, <1>11, <1>12

LEMMA PrepareStep == ASSUME StoryInv, Prepare PROVE StoryInv'
<1> DEFINE rec == gate.rec
           kept == IF gate.by = "tick" THEN [rec EXCEPT !.reverify = None] ELSE rec
<1>1. /\ gate.pc = "prepare" /\ gate \in Gates /\ gate # Idle /\ rec \in Records
      /\ Cancels /\ UNCHANGED <<master, result, landed, reviewVars>>
  BY GateActive DEF Prepare
<1>2. CASE gate.by = "tick" /\ Pinned(rec)
  <2>1. /\ gate' = [gate EXCEPT !.pc = "ci", !.rec = Rebind(rec, rec.ciSha), !.pushed = rec.ciSha]
        /\ UNCHANGED <<record, lock, worktree, branch, upsets>>
    BY <1>2 DEF Prepare
  <2>2. rec.ciSha \in Shas /\ (upsets \cap {"approve_merge", "move"} = {} => rec.ciSha = rec.vsha)
    BY <1>1, <1>2 DEF CommitsBound, Bound, Pinned, Records
  <2> QED BY <1>1, <1>2, <2>1, <2>2, PollStep
<1>3. CASE gate.by = "tick" /\ ~Pinned(rec) /\ Reuses(rec)
  <2>1. /\ gate' = [gate EXCEPT !.pc = "ci", !.rec = Rebind(rec, worktree), !.pushed = worktree]
        /\ UNCHANGED <<record, lock, worktree, branch, upsets>>
    BY <1>3 DEF Prepare, Reuses
  <2>2. worktree \in Shas /\ (upsets \cap {"approve_merge", "move"} = {} => worktree = rec.vsha)
    BY <1>1, <1>3 DEF CommitsBound, Bound, Reuses, Typed
  <2> QED BY <1>1, <1>3, <2>1, <2>2, PollStep
<1>4. CASE ~(gate.by = "tick" /\ (Pinned(rec) \/ Reuses(rec)))
  <2>1. RebaseAndPush(kept)
    BY <1>4 DEF Prepare
  <2>2. /\ kept \in Records /\ kept.status = rec.status /\ kept.reason = rec.reason
        /\ kept.vsha = rec.vsha /\ kept.ciSha = rec.ciSha
        /\ kept.reverify \in {None, rec.reverify}
        /\ gate.by = "tick" => kept.reverify = None
        /\ gate.by = "operator" => kept = rec
    BY <1>1 DEF Records, Handles
  <2>3. upsets \cap {"approve_merge", "move"} = {} => kept.ciSha = None /\ kept.reverify = None
    BY <1>1, <1>4, <2>2 DEF CommitsBound, Pinned
  <2> HIDE DEF kept
  <2>4. CASE /\ worktree # None
             /\ worktree' = Rebased(worktree) /\ branch' = Rebased(worktree)
             /\ gate' = [gate EXCEPT !.pc = "ci", !.rec = Rebind(kept, Rebased(worktree)),
                                     !.pushed = Rebased(worktree)]
             /\ UNCHANGED <<record, lock, upsets>>
    BY <1>1, <2>2, <2>3, <2>4, PushStep
  <2>5. CASE worktree = None /\ Continue("ci", kept) /\ UNCHANGED <<worktree, branch, upsets>>
    <3>1. /\ gate' \in Gates /\ gate'.pc = "ci" /\ gate'.by = gate.by /\ gate'.rec = kept
          /\ gate'.read = gate.read /\ gate'.pushed = gate.pushed /\ gate'.raced = gate.raced
          /\ UNCHANGED <<record, lock>>
      BY <1>1, <2>2, <2>5 DEF Continue, Gates
    <3>2. gate' # Idle
      BY <3>1, GatesNotIdle
    <3>3. jobs' \subseteq Jobs /\ JobsNamed'
      BY <1>1, <2>2, <2>5, <3>1, <3>2, CancelsFacts DEF JobsNamed
    <3>4. Typed' /\ LockHeld' /\ GateShape'
      BY <1>1, <2>2, <2>5, <3>1, <3>2, <3>3 DEF Typed, LockHeld, GateShape, HeldIsParked
    <3>5. WorkApproved'
      BY <1>1, <2>2, <2>5, <3>1, <3>2 DEF WorkApproved, OnlyApproved, InGate
    <3> HIDE DEF rec
    <3>6. CommitsBound'
      BY <1>1, <2>2, <2>3, <2>5, <3>1, <3>2 DEF CommitsBound, Bound, rec
    <3>7. NoCauseToDeny' /\ LandedWasApproved' /\ LandsVerified'
      BY <1>1, <2>2, <2>5, <3>1, <3>2
         DEF NoCauseToDeny, AtTip, InGate, LandedWasApproved, LandsVerified, rec
    <3> QED BY <3>3, <3>4, <3>5, <3>6, <3>7
  <2>6. CASE /\ worktree # None /\ GateError(kept, "conflict")
             /\ UNCHANGED <<worktree, branch, upsets>>
    BY <1>1, <2>2, <2>3, <2>6, GateFails DEF Typed
  <2>7. CASE /\ worktree # None /\ Upset("push") /\ worktree' \in {worktree, Rebased(worktree)}
             /\ GateError(kept, "other") /\ UNCHANGED branch
    <3>1. worktree' \in Shas /\ worktree'.work = worktree.work
      BY <2>7 DEF Typed, Rebased, Shas, Commit
    <3>2. upsets \subseteq upsets'
      BY <2>7 DEF Upset
    <3> QED BY <1>1, <2>2, <2>3, <2>7, <3>1, <3>2, GateFails
  <2> QED BY <2>1, <2>4, <2>5, <2>6, <2>7 DEF RebaseAndPush
<1> QED BY <1>2, <1>3, <1>4

LEMMA CiSettlesStep == ASSUME StoryInv, CiSettles PROVE StoryInv'
<1> DEFINE new == Settled(gate.rec)
<1>1. /\ gate.pc = "ci" /\ gate \in Gates /\ gate # Idle /\ gate.rec \in Records
      /\ gate.by = "tick" /\ Cancels /\ worktree \in Shas
      /\ UNCHANGED <<world, result, landed, reviewVars, upsets>>
  BY GateActive DEF CiSettles, Typed
<1>2. /\ new \in Records /\ new.ciSha = None /\ new.status = gate.rec.status
      /\ new.reason = gate.rec.reason /\ new.vsha = gate.rec.vsha
      /\ new.reverify = gate.rec.reverify
  BY <1>1 DEF Settled, Records, Shas
<1> HIDE DEF new
<1>3. CASE Continue("reverify", new)
  <2>1. /\ gate' \in Gates /\ gate'.pc = "reverify" /\ gate'.by = gate.by /\ gate'.rec = new
        /\ gate'.read = gate.read /\ gate'.pushed = gate.pushed /\ gate'.raced = gate.raced
        /\ UNCHANGED <<record, lock>>
    BY <1>1, <1>2, <1>3 DEF Continue, Gates
  <2>2. gate' # Idle
    BY <2>1, GatesNotIdle
  <2>3. jobs' \subseteq Jobs /\ JobsNamed'
    BY <1>1, <1>2, <2>1, <2>2, CancelsFacts DEF JobsNamed
  <2>4. Typed' /\ LockHeld' /\ GateShape'
    BY <1>1, <1>2, <2>1, <2>2, <2>3 DEF Typed, LockHeld, GateShape, HeldIsParked, InGate
  <2>5. WorkApproved'
    BY <1>1, <1>2, <2>1, <2>2 DEF WorkApproved, OnlyApproved, InGate
  <2>6. CommitsBound'
    BY <1>1, <1>2, <2>1, <2>2 DEF CommitsBound, Bound
  <2>7. NoCauseToDeny' /\ LandedWasApproved' /\ LandsVerified'
    BY <1>1, <1>2, <2>1, <2>2
       DEF NoCauseToDeny, AtTip, InGate, LandedWasApproved, LandsVerified
  <2> QED BY <2>3, <2>4, <2>5, <2>6, <2>7
<1>4. CASE GateError(new, "ci") \/ GateError(new, "other")
  BY <1>1, <1>2, <1>4, GateFails
<1> QED BY <1>3, <1>4 DEF CiSettles, new

LEMMA CiPendsStep == ASSUME StoryInv, CiPends PROVE StoryInv'
<1> DEFINE new == [gate.rec EXCEPT !.ciSha = gate.pushed]
<1>1. /\ gate.pc = "ci" /\ gate \in Gates /\ gate # Idle /\ gate.rec \in Records
      /\ gate.by = "tick" /\ worktree \in Shas /\ jobs \subseteq Jobs
      /\ Write(new) /\ UNCHANGED <<world, jobs, result, landed, reviewVars, upsets>>
  BY GateActive DEF CiPends, Typed
<1>2. /\ new \in Records /\ new.ciSha = gate.pushed /\ new.status = gate.rec.status
      /\ new.reason = gate.rec.reason /\ new.vsha = gate.rec.vsha
      /\ new.reverify = gate.rec.reverify
  BY <1>1 DEF Gates, Records
<1> HIDE DEF new
<1>3. new.status = "pr_open" /\ new.reason = None /\ HeldIsParked(new) /\ InGate(record)
  BY <1>1, <1>2, NoneAssumption DEF GateShape, HeldIsParked
<1>4. "move" \notin upsets => OnlyApproved(new.ciSha) /\ OnlyApproved(new.vsha)
  BY <1>1, <1>2, <1>3 DEF WorkApproved, OnlyApproved, InGate
<1>5. upsets \cap {"approve_merge", "move"} = {} => Bound(new)
  BY <1>1, <1>2, <1>3 DEF CommitsBound, Bound
<1>6. upsets \cap Causes = {} => new.reason # "denied" /\ AtTip(new)
  BY <1>1, <1>2, <1>3, NoneAssumption DEF NoCauseToDeny, AtTip, InGate
<1>7. "crash" \notin upsets => \A j \in jobs : j.pid # None => Names(new, j)
  BY <1>1, <1>2 DEF JobsNamed, Names
<1> QED BY <1>1, <1>2, <1>3, <1>4, <1>5, <1>6, <1>7, GateWrites

\* The gate's copy becomes the record as it is.
LEMMA CopyWritten ==
    ASSUME StoryInv, gate \in Gates, Write(gate.rec),
           UNCHANGED <<world, jobs, result, landed, reviewVars, upsets>>
    PROVE  StoryInv'
<1>1. gate # Idle /\ gate.rec \in Records /\ worktree \in Shas /\ jobs \subseteq Jobs
      /\ gate.by \in {"tick", "operator"}
  BY GatesNotIdle DEF Gates, Typed
<1>2. HeldIsParked(gate.rec) /\ (InGate(gate.rec) => InGate(record))
  BY <1>1, NoneAssumption DEF GateShape, InGate
<1>3. "move" \notin upsets =>
          OnlyApproved(gate.rec.ciSha) /\ (InGate(gate.rec) => OnlyApproved(gate.rec.vsha))
  BY <1>1 DEF WorkApproved
<1>4. upsets \cap {"approve_merge", "move"} = {} => Bound(gate.rec)
  BY <1>1 DEF CommitsBound
<1>5. upsets \cap Causes = {} => gate.rec.reason # "denied" /\ AtTip(gate.rec)
  BY <1>1 DEF NoCauseToDeny
<1>6. "crash" \notin upsets => \A j \in jobs : j.pid # None => Names(gate.rec, j)
  BY <1>1 DEF JobsNamed
<1> QED BY <1>1, <1>2, <1>3, <1>4, <1>5, <1>6, GateWrites

LEMMA AwaitCIStep == ASSUME StoryInv, AwaitCI PROVE StoryInv'
<1>1. /\ gate.pc = "ci" /\ gate \in Gates /\ gate # Idle /\ gate.rec \in Records
      /\ gate.by = "operator" /\ UNCHANGED <<world, jobs, result, landed, reviewVars, upsets>>
  BY GateActive DEF AwaitCI
<1>2. CASE /\ record' = gate.rec /\ UNCHANGED lock
           /\ gate' = [gate EXCEPT !.pc = "reverify", !.read = gate.rec]
  <2>1. /\ gate' \in Gates /\ gate'.pc = "reverify" /\ gate'.by = gate.by
        /\ gate'.rec = gate.rec /\ gate'.read = gate.rec /\ gate'.pushed = gate.pushed
        /\ gate'.raced = gate.raced
    BY <1>1, <1>2 DEF Gates
  <2>2. gate' # Idle
    BY <2>1, GatesNotIdle
  <2>3. lock = "operator" /\ gate.rec.status = record.status /\ gate.rec.reason = record.reason
        /\ gate.rec.reverify = record.reverify
    BY <1>1 DEF LockHeld, GateShape
  <2>4. Typed' /\ LockHeld' /\ GateShape'
    BY <1>1, <1>2, <2>1, <2>2, <2>3 DEF Typed, LockHeld, GateShape, HeldIsParked
  <2>5. WorkApproved'
    BY <1>1, <1>2, <2>1, <2>2, <2>3 DEF WorkApproved, OnlyApproved, InGate
  <2>6. upsets \cap {"approve_merge", "move"} # {} /\ upsets \cap Causes # {}
    BY <1>1 DEF CommitsBound, Causes
  <2>7. CommitsBound' /\ NoCauseToDeny' /\ JobsNamed' /\ LandedWasApproved' /\ LandsVerified'
    BY <1>1, <2>1, <2>2, <2>6
       DEF CommitsBound, NoCauseToDeny, JobsNamed, Names, LandedWasApproved, LandsVerified
  <2> QED BY <2>4, <2>5, <2>7
<1>3. CASE Write(gate.rec)
  BY <1>1, <1>3, CopyWritten
<1> QED BY <1>2, <1>3 DEF AwaitCI

LEMMA StartReverifyStep == ASSUME StoryInv, StartReverify PROVE StoryInv'
<1>1. /\ gate.pc = "reverify" /\ gate \in Gates /\ gate # Idle /\ gate.rec \in Records
      /\ gate.by = "tick" /\ UNCHANGED <<world, landed, reviewVars, upsets>>
      /\ gate.pushed \in Shas /\ worktree \in Shas
  BY GateActive DEF StartReverify, Typed, Gates
<1>2. CASE worktree # None
  <2> DEFINE handle == Handle(NewPid, gate.pushed)
             new == [gate.rec EXCEPT !.reverify = handle]
  <2>1. NewPid \in Pids
    BY <1>2 DEF StartReverify, NewPid, FreePids
  <2>2. handle \in Handles /\ handle # None /\ handle.pid = NewPid /\ handle.sha = gate.pushed
    BY <1>1, <2>1, NoneAssumption DEF Handle, Handles, Shas
  <2>3. /\ new \in Records /\ new.reverify = handle /\ new.status = gate.rec.status
        /\ new.reason = gate.rec.reason /\ new.vsha = gate.rec.vsha
        /\ new.ciSha = gate.rec.ciSha
    BY <1>1, <2>2 DEF Records
  <2>4. Continue("save", new) /\ jobs' = Kill(gate.rec.reverify) \cup {Spawned} /\ result' = None
    BY <1>2 DEF StartReverify
  <2> HIDE DEF new
  <2>5. /\ gate' \in Gates /\ gate'.pc = "save" /\ gate'.by = "tick" /\ gate'.rec = new
        /\ gate'.read = gate.read /\ gate'.pushed = gate.pushed /\ UNCHANGED <<record, lock>>
    BY <1>1, <2>3, <2>4 DEF Continue, Gates
  <2>6. gate' # Idle
    BY <2>5, GatesNotIdle
  <2>7. Spawned \in Jobs /\ Spawned.pid = NewPid
    BY <2>1 DEF Spawned, Jobs, Shas
  <2>8. jobs' \subseteq Jobs
    BY <2>4, <2>7, KillFacts DEF Typed
  <2>9. JobsNamed'
    <3>1. "crash" \notin upsets => \A j \in Kill(gate.rec.reverify) : j.pid = None
      BY <1>1, KillFacts DEF JobsNamed, Names, Typed
    <3> QED BY <1>1, <2>2, <2>3, <2>4, <2>5, <2>6, <2>7, <3>1 DEF JobsNamed, Names
  <2>10. gate.rec.status = "pr_open" /\ gate.rec.reason = None /\ InGate(record)
    BY <1>1 DEF GateShape
  <2>11. Typed' /\ LockHeld' /\ GateShape'
    BY <1>1, <2>3, <2>4, <2>5, <2>6, <2>8, <2>10
       DEF Typed, LockHeld, GateShape, HeldIsParked, InGate
  <2>12. WorkApproved'
    BY <1>1, <2>3, <2>5, <2>6, <2>10 DEF WorkApproved, OnlyApproved, InGate
  <2>13. CommitsBound'
    BY <1>1, <1>2, <2>2, <2>3, <2>5, <2>6, <2>10 DEF CommitsBound, Bound
  <2>14. NoCauseToDeny' /\ LandedWasApproved' /\ LandsVerified'
    BY <1>1, <2>3, <2>5, <2>6
       DEF NoCauseToDeny, AtTip, InGate, LandedWasApproved, LandsVerified
  <2> QED BY <2>9, <2>11, <2>12, <2>13, <2>14
<1>3. CASE worktree = None
  <2> DEFINE new == [gate.rec EXCEPT !.reverify = None]
  <2>1. /\ new \in Records /\ new.reverify = None /\ new.status = gate.rec.status
        /\ new.reason = gate.rec.reason /\ new.vsha = gate.rec.vsha
        /\ new.ciSha = gate.rec.ciSha
    BY <1>1 DEF Records, Handles
  <2>2. GateError(new, "other") /\ Cancels /\ UNCHANGED result
    BY <1>3 DEF StartReverify
  <2>3. upsets \cap {"approve_merge", "move"} = {} => gate.rec.ciSha = None
    BY <1>1 DEF CommitsBound
  <2> HIDE DEF new
  <2> QED BY <1>1, <2>1, <2>2, <2>3, GateFails
<1> QED BY <1>2, <1>3

LEMMA ReverifySettlesStep == ASSUME StoryInv, ReverifySettles PROVE StoryInv'
<1> DEFINE new == [gate.rec EXCEPT !.reverify = None]
<1>1. /\ gate.pc = "reverify" /\ gate \in Gates /\ gate # Idle /\ gate.rec \in Records
      /\ gate.by = "tick" /\ Cancels /\ UNCHANGED <<world, result, landed, reviewVars, upsets>>
      /\ worktree \in Shas /\ gate.rec.reverify # None
  BY GateActive DEF ReverifySettles, Typed
<1>2. /\ new \in Records /\ new.reverify = None /\ new.status = gate.rec.status
      /\ new.reason = gate.rec.reason /\ new.vsha = gate.rec.vsha
      /\ new.ciSha = gate.rec.ciSha
  BY <1>1 DEF Records, Handles
<1>3. upsets \cap {"approve_merge", "move"} = {} => gate.rec.ciSha = None
  BY <1>1 DEF CommitsBound
<1>4. CASE /\ result # None /\ result.sha = gate.pushed
           /\ gate' = [gate EXCEPT !.pc = "land", !.rec = new, !.proof = result.sha]
           /\ UNCHANGED <<record, lock>>
  <2>1. result.sha \in Shas
    BY <1>4 DEF Typed, Shas
  <2> HIDE DEF new
  <2>2. /\ gate' \in Gates /\ gate'.pc = "land" /\ gate'.by = "tick" /\ gate'.rec = new
        /\ gate'.read = gate.read /\ gate'.pushed = gate.pushed
        /\ gate'.proof = gate.pushed /\ gate'.raced = gate.raced
    BY <1>1, <1>2, <1>4, <2>1 DEF Gates
  <2>3. gate' # Idle
    BY <2>2, GatesNotIdle
  <2>4. jobs' \subseteq Jobs /\ JobsNamed'
    BY <1>1, <1>2, <2>2, <2>3, CancelsFacts DEF JobsNamed
  <2>5. Typed' /\ LockHeld' /\ GateShape'
    BY <1>1, <1>2, <1>4, <2>2, <2>3, <2>4 DEF Typed, LockHeld, GateShape, HeldIsParked, InGate
  <2>6. WorkApproved'
    BY <1>1, <1>2, <1>4, <2>2, <2>3 DEF WorkApproved, OnlyApproved, InGate
  <2>7. CommitsBound'
    BY <1>1, <1>2, <1>3, <1>4, <2>2, <2>3 DEF CommitsBound, Bound
  <2>8. NoCauseToDeny' /\ LandedWasApproved' /\ LandsVerified'
    BY <1>1, <1>2, <1>4, <2>2, <2>3
       DEF NoCauseToDeny, AtTip, InGate, LandedWasApproved, LandsVerified
  <2> QED BY <2>4, <2>5, <2>6, <2>7, <2>8
<1>5. CASE GateError(new, "other")
  <2> HIDE DEF new
  <2> QED BY <1>1, <1>2, <1>3, <1>5, GateFails
<1> QED BY <1>4, <1>5 DEF ReverifySettles

LEMMA ReverifyPendsStep == ASSUME StoryInv, ReverifyPends PROVE StoryInv'
BY GateActive, CopyWritten DEF ReverifyPends

LEMMA ReverifyInlineStep == ASSUME StoryInv, ReverifyInline PROVE StoryInv'
<1>1. /\ gate.pc = "reverify" /\ gate \in Gates /\ gate # Idle
      /\ gate.by = "operator" /\ UNCHANGED <<world, jobs, result, landed, reviewVars, upsets>>
  BY GateActive DEF ReverifyInline
<1>2. CASE Goto("land")
  <2>1. /\ gate' \in Gates /\ gate'.pc = "land" /\ gate'.by = gate.by
        /\ gate'.rec = gate.rec /\ gate'.read = gate.read /\ gate'.pushed = gate.pushed
        /\ gate'.raced = gate.raced /\ UNCHANGED <<record, lock>>
    BY <1>1, <1>2 DEF Gates, Goto
  <2>2. gate' # Idle
    BY <2>1, GatesNotIdle
  <2>3. Typed' /\ LockHeld' /\ GateShape'
    BY <1>1, <2>1, <2>2 DEF Typed, LockHeld, GateShape, HeldIsParked, InGate
  <2>4. WorkApproved'
    BY <1>1, <2>1, <2>2 DEF WorkApproved, OnlyApproved, InGate
  <2>5. upsets \cap {"approve_merge", "move"} # {} /\ upsets \cap Causes # {}
    BY <1>1 DEF CommitsBound, Causes
  <2>6. CommitsBound' /\ NoCauseToDeny' /\ JobsNamed' /\ LandedWasApproved' /\ LandsVerified'
    BY <1>1, <2>1, <2>2, <2>5
       DEF CommitsBound, NoCauseToDeny, JobsNamed, Names, LandedWasApproved, LandsVerified
  <2> QED BY <2>3, <2>4, <2>6
<1>3. CASE Quit
  <2>1. worktree' \in Shas /\ jobs' \subseteq Jobs /\ gate.rec.reverify = record.reverify
    BY <1>1 DEF Typed, GateShape
  <2>2. "crash" \notin upsets' => \A j \in jobs' : j.pid # None => Names(record, j)
    BY <1>1, <2>1 DEF JobsNamed, Names
  <2> QED BY <1>1, <1>3, <2>1, <2>2, GateQuits
<1> QED BY <1>2, <1>3 DEF ReverifyInline

LEMMA LandStep == ASSUME StoryInv, Land PROVE StoryInv'
<1>1. /\ gate.pc = "land" /\ gate \in Gates /\ gate # Idle /\ gate.rec \in Records
      /\ Cancels /\ UNCHANGED <<master, result, reviewVars, upsets>>
      /\ worktree \in Shas /\ branch \in Shas /\ gate.by \in {"tick", "operator"}
  BY GateActive DEF Land, Typed
<1>2. CASE GateError(gate.rec, "other") /\ UNCHANGED <<landed, worktree, branch>>
  <2>1. upsets \cap {"approve_merge", "move"} = {} => gate.rec.ciSha = None
    BY <1>1 DEF CommitsBound
  <2> QED BY <1>1, <1>2, <2>1, GateFails
<1>3. CASE /\ landed' = [sha |-> branch, by |-> gate.by, gated |-> gate.pushed,
                         proof |-> gate.proof, raced |-> gate.raced]
           /\ worktree' = None /\ branch' \in {None, branch} /\ branch # None
           /\ Continue("save", Merged(gate.rec))
  <2> DEFINE new == Merged(gate.rec)
  <2>1. /\ new \in Records /\ new.status = "done" /\ new.reason = None
        /\ new.reverify = gate.rec.reverify /\ new.vsha = gate.rec.vsha
        /\ new.ciSha = gate.rec.ciSha
    BY <1>1 DEF Merged, Records, Statuses
  <2> HIDE DEF new
  <2>2. /\ gate' \in Gates /\ gate'.pc = "save" /\ gate'.by = gate.by /\ gate'.rec = new
        /\ gate'.read = gate.read /\ gate'.pushed = gate.pushed /\ UNCHANGED <<record, lock>>
    BY <1>1, <1>3, <2>1 DEF Gates, Continue, new
  <2>3. gate' # Idle
    BY <2>2, GatesNotIdle
  <2>4. jobs' \subseteq Jobs /\ JobsNamed'
    BY <1>1, <2>1, <2>2, <2>3, CancelsFacts DEF JobsNamed
  <2>5. Typed'
    BY <1>1, <1>3, <2>2, <2>4 DEF Typed, Shas
  <2>6. LockHeld'
    BY <1>1, <2>2, <2>3 DEF LockHeld, Gates
  <2>7. GateShape'
    BY <1>1, <2>1, <2>2, <2>3, NoneAssumption DEF GateShape, HeldIsParked, InGate
  <2>8. WorkApproved'
    BY <1>1, <1>3, <2>1, <2>2, <2>3, NoneAssumption DEF WorkApproved, OnlyApproved, InGate
  <2>9. CommitsBound' /\ NoCauseToDeny'
    BY <1>1, <2>1, <2>2, <2>3, NoneAssumption
       DEF CommitsBound, Bound, NoCauseToDeny, AtTip, InGate
  <2>10. LandedWasApproved'
    <3>1. gate.by = "tick" /\ "move" \notin upsets /\ ~gate.raced => branch.work \subseteq approved
      BY <1>1, <1>3 DEF WorkApproved, OnlyApproved
    <3> QED BY <1>1, <1>3, <3>1 DEF LandedWasApproved
  <2>11. LandsVerified'
    <3>1. /\ gate.by = "tick" /\ ~gate.raced
          /\ upsets \cap {"approve_merge", "move"} = {}
        => branch = gate.pushed /\ gate.proof = branch
      BY <1>1 DEF CommitsBound
    <3> QED BY <1>1, <1>3, <3>1 DEF LandsVerified
  <2> QED BY <2>4, <2>5, <2>6, <2>7, <2>8, <2>9, <2>10, <2>11
<1> QED BY <1>2, <1>3 DEF Land

LEMMA SaveStep == ASSUME StoryInv, Save PROVE StoryInv'
BY GateActive, CopyWritten DEF Save

LEMMA AbortStep == ASSUME StoryInv, Abort PROVE StoryInv'
<1>1. gate \in Gates /\ upsets \subseteq upsets' /\ "crash" \in upsets'
  BY DEF Abort, Upset, Typed, Idle
<1>2. worktree' \in Shas /\ jobs' \subseteq Jobs
  BY DEF Abort, Typed
<1> QED BY <1>1, <1>2, GateQuits DEF Abort

-----------------------------------------------------------------------------
LEMMA StoryStep == ASSUME StoryInv, [Next]_vars PROVE StoryInv'
<1>1. CASE TickSteps
  BY <1>1, StartReviewStep, CollectReviewStep, StartMergeStep, PrepareStep, CiSettlesStep,
     CiPendsStep, StartReverifyStep, ReverifySettlesStep, ReverifyPendsStep, LandStep, SaveStep
     DEF TickSteps
<1>2. CASE JobSteps
  BY <1>2, JobReadsHeadStep, JobDiesStep, JobEndsStep DEF JobSteps
<1>3. CASE ReviewerSteps
  BY <1>3, ReviewerBeginsStep, ReviewerEndsStep, ReviewerDiesStep DEF ReviewerSteps
<1>4. CASE OperatorSteps
  BY <1>4, ApproveMergeStep, AwaitCIStep, ReverifyInlineStep, AskReviewStep, OperatorMoveStep
     DEF OperatorSteps
<1>5. CASE Abort \/ AgentCommits \/ Grade \/ Dispatch \/ MasterMoves \/ HumanPush
  BY <1>5, AbortStep, AgentCommitsStep, GradeStep, DispatchStep, MasterMovesStep, HumanPushStep
<1>6. CASE UNCHANGED vars
  BY <1>6, StutterStep
<1> QED BY <1>1, <1>2, <1>3, <1>4, <1>5, <1>6 DEF Next

LEMMA StoryInvHolds == SafeSpec => []StoryInv
BY StoryInit, StoryStep, PTL DEF SafeSpec

LEMMA SpecIsSafe == Spec => SafeSpec
BY PTL DEF Spec, SafeSpec

-----------------------------------------------------------------------------
\* The record, the worktree, the branch and the processes keep their types,
\* whatever the bounds and the budgets.
THEOREM StoryTypeHolds == Spec => []TypeOK
<1>1. StoryInv => TypeOK
  BY DEF Typed, TypeOK, Records, Jobs, Reviewers
<1> QED BY <1>1, StoryInvHolds, SpecIsSafe, PTL

\* A merge or a review, which decides on a copy of the record and writes it
\* back minutes later, never overwrites what another actor wrote meanwhile:
\* the plan lock is held from the read to the write by each of them.
THEOREM NothingLostHolds == Spec => []NothingLost
<1>1. StoryInv => NothingLost
  BY DEF LockHeld, NothingLost
<1> QED BY <1>1, StoryInvHolds, SpecIsSafe, PTL

\* What the tick merges holds only work that a review approved, for any number
\* of rounds, rebases and crashes; it excepts, as the property says, a story
\* that was moved by hand and a push after the gate looked at the branch.
THEOREM LandedWasApprovedHolds == Spec => []LandedWasApproved
<1>1. StoryInv => LandedWasApproved
  OBVIOUS
<1> QED BY <1>1, StoryInvHolds, SpecIsSafe, PTL

\* What the tick merges is the very commit that a re-verify job passed, with
\* the exceptions the property names (approve_merge, moves by hand, late pushes).
THEOREM LandsVerifiedHolds == Spec => []LandsVerified
<1>1. StoryInv => LandsVerified
  OBVIOUS
<1> QED BY <1>1, StoryInvHolds, SpecIsSafe, PTL

\* The pipeline's own rebases and pushes never make the gate deny a merge:
\* behind every denial is a crash, a failed fetch or somebody else's change.
THEOREM DenialHasACauseHolds == Spec => []DenialHasACause
<1>1. StoryInv => DenialHasACause
  BY DEF NoCauseToDeny, Causes, DenialHasACause
<1> QED BY <1>1, StoryInvHolds, SpecIsSafe, PTL

\* No re-verify job is left running, or named, by a story that has moved on.
THEOREM NoStrayReverifyHolds == Spec => []NoStrayReverify
<1>1. StoryInv => NoStrayReverify
  <2> SUFFICES ASSUME StoryInv PROVE NoStrayReverify
    OBVIOUS
  <2>1. ASSUME "crash" \notin upsets, NEW j \in jobs, j.pid # None
        PROVE  \E rec \in {record} \cup {g.rec : g \in {gate} \ {Idle}} :
                   rec.reverify # None /\ rec.reverify.pid = j.pid
    <3>1. CASE gate = Idle
      BY <2>1, <3>1 DEF JobsNamed, Names
    <3>2. CASE gate # Idle
      BY <2>1, <3>2 DEF JobsNamed, Names
    <3> QED BY <3>1, <3>2
  <2>2. record.reverify # None /\ record.status # "pr_open"
            => upsets \cap {"move", "approve_merge"} # {}
    BY DEF CommitsBound, Bound
  <2> QED BY <2>1, <2>2 DEF NoStrayReverify
<1> QED BY <1>1, StoryInvHolds, SpecIsSafe, PTL
=============================================================================
