---------------------------- MODULE PlanRegistry -----------------------------
(***************************************************************************)
(* Plans from their file to the launch of an agent (pipeline/ingest.py,    *)
(* plan_approval.py, cross_plan.py): a plan is ingested into a manifest,   *)
(* a decision approves its content, edits take the approval back, and a    *)
(* dispatch asks for the approval and for no other plan with the story's   *)
(* key.  The approval gate is enabled and the store is the file store: a   *)
(* transaction excludes other writers and undoes nothing.                  *)
(***************************************************************************)
EXTENDS Naturals, FiniteSets

CONSTANTS
    Plans, StoryKeys,
    NoPlan,         \* no manifest, nothing in progress
    NoStory,        \* a plan has no story of that key
    Edited,         \* bound: the plans that are edited, and whose approval is taken back
    MaxRewrites,    \* bound: edits of plan files and manifests
    MaxMishaps      \* bound: deaths within a patch, overwriting ingests, grades by the tool

VARIABLES
    planFile,       \* the text of each story in the plan file, or NoStory
    ingested,       \* the manifest
    busy,           \* a holder of the plan lock that takes two steps
    ingesting,      \* an ingest that has read the plan file and checked it
    polling,        \* the manifest a tool is to write back with a grade
    atWork,         \* the agents, with what their launch had of an approval
    trees,          \* keys with a worktree
    rewrites, mishaps,
    decided,        \* history: contents whose last decision is an approval
    own,            \* history: texts the pipeline wrote itself
    slipped,        \* history: plans whose approval may not be of their content
    orphaned         \* history: keys of stories dropped, or put back to done, while
                    \* an agent was at work on them or about to be launched

registryHistory == <<decided, own, slipped, orphaned>>
registryVars == <<planFile, ingested, busy, ingesting, polling, atWork, trees,
                  rewrites, mishaps, registryHistory>>

Free == [at |-> "free"]

\* The manifest of a plan, with the approval of a digest (see Digest).
Backends == {"authored", "resolved"}
Story == [text : Nat, backend : Backends, status : {"todo", "in_progress", "done"}]
Manifest ==
    [stories : [StoryKeys -> Story \cup {NoStory}], role : Nat,
     approval : [status : {"pending", "approved"},
                 digest : Nat \X [StoryKeys -> (Nat \X Backends) \cup {NoStory}]]]

ASSUME RegistryAssumption ==
    /\ NoStory \notin Story \cup (Nat \X Backends) /\ NoPlan \notin Manifest
    /\ MaxRewrites \in Nat \ {0} /\ MaxMishaps \in Nat

RegistryInit ==
    /\ planFile = [p \in Plans |-> [k \in StoryKeys |-> 1]]
    /\ ingested = [p \in Plans |-> NoPlan]
    /\ busy = [p \in Plans |-> Free]
    /\ ingesting = [p \in Plans |-> NoPlan]
    /\ polling = [p \in Plans |-> NoPlan]
    /\ atWork = {} /\ trees = {}
    /\ rewrites = 1 /\ mishaps = 0
    /\ decided = {} /\ own = {} /\ slipped = {} /\ orphaned = {}

\* canonical_digest: the role configuration and the authored fields of the
\* stories.  The backend is one of them, though a dispatch writes it.
Digest(m) ==
    <<m.role, [k \in StoryKeys |-> IF m.stories[k] = NoStory THEN NoStory
                              ELSE <<m.stories[k].text, m.stories[k].backend>>]>>

\* The contents that a decision on m is about.
Contents(p, m) ==
    {<<p, k, m.stories[k].text, m.role>> : k \in {k \in StoryKeys : m.stories[k] # NoStory}}

Unlocked(p) == ingested[p] # NoPlan /\ busy[p] = Free
Mishap(p) == p \in Edited /\ mishaps < MaxMishaps /\ mishaps' = mishaps + 1
NextText(p) == p \in Edited /\ rewrites < MaxRewrites /\ rewrites' = rewrites + 1
-----------------------------------------------------------------------------
\* Ingest.

\* The author of a plan rewrites a story in its file, or takes it out.
SavePlan(p, k) ==
    /\ NextText(p)
    /\ \E text \in {rewrites', NoStory} : planFile' = [planFile EXCEPT ![p][k] = text]
    /\ UNCHANGED <<ingested, busy, ingesting, polling, atWork, trees, mishaps, registryHistory>>

\* key_conflicts: another plan's story of the key, unless it is over and its
\* worktree is gone.
Conflict(p, k) ==
    \E q \in Plans \ {p} :
        /\ ingested[q] # NoPlan /\ ingested[q].stories[k] # NoStory
        /\ ingested[q].stories[k].status # "done" \/ k \in trees

\* _ingest_plan_impl to the plan lock: the plan file is read and its keys are
\* checked against the other plans.
StartIngest(p) ==
    /\ ingesting[p] = NoPlan
    /\ \A k \in StoryKeys : planFile[p][k] # NoStory => ~Conflict(p, k)
    /\ \E overwrite \in BOOLEAN :
           /\ ingesting' = [ingesting EXCEPT ![p] = [read |-> planFile[p], overwrite |-> overwrite]]
           /\ IF overwrite THEN Mishap(p) ELSE UNCHANGED mishaps
    /\ UNCHANGED <<planFile, ingested, busy, polling, atWork, trees, rewrites, registryHistory>>

\* Or it is refused there.
RefuseIngest(p) ==
    /\ \E k \in StoryKeys : planFile[p][k] # NoStory /\ Conflict(p, k)
    /\ UNCHANGED registryVars

\* Mutant of OnIngest: an approval is kept whatever the content.
OnIngest_Keeps(old, m) ==
    [status |-> IF old.status = "approved" THEN "approved" ELSE "pending", digest |-> Digest(m)]

\* on_ingest.
OnIngest(old, m) ==
    [status |-> IF old.status = "approved" /\ old.digest = Digest(m)
                THEN "approved" ELSE "pending",
     digest |-> Digest(m)]

Prior(p) ==
    IF ingesting[p].overwrite \/ ingested[p] = NoPlan
    THEN [stories |-> [k \in StoryKeys |-> NoStory], role |-> 0,
          approval |-> [status |-> "none", digest |-> NoPlan]]
    ELSE ingested[p]

\* A story that is ingested again keeps its state and takes what is authored;
\* a story the file does not have stays.
MergedStory(old, text) ==
    CASE text = NoStory -> old
      [] text # NoStory /\ old = NoStory ->
            [text |-> text, backend |-> "authored", status |-> "todo"]
      [] text # NoStory /\ old # NoStory ->
            [old EXCEPT !.text = text, !.backend = "authored"]

\* The rest, under the plan lock, or nothing when the lock is held.
EndIngest(p) ==
    LET prior == Prior(p)
        merged == [prior EXCEPT !.stories =
                    [k \in StoryKeys |-> MergedStory(@[k], ingesting[p].read[k])]]
        final == [merged EXCEPT !.approval = OnIngest(@, merged)] IN
    /\ ingesting[p] # NoPlan
    /\ ingesting' = [ingesting EXCEPT ![p] = NoPlan]
    /\ \/ /\ busy[p] = Free
          /\ ingested' = [ingested EXCEPT ![p] = final]
          /\ orphaned' = orphaned \cup
                {a.key : a \in {a \in atWork : a.plan = p /\ final.stories[a.key] = NoStory}}
       \/ /\ busy[p] # Free
          /\ UNCHANGED <<ingested, orphaned>>
    /\ UNCHANGED <<planFile, busy, polling, atWork, trees, rewrites, mishaps, decided, own, slipped>>
-----------------------------------------------------------------------------
\* Decisions and edits.

\* _decide_plan, refused when the content is not the one on record.  A request
\* for changes is as good as a decision that is pending.
Decide(p, status) ==
    /\ Unlocked(p)
    /\ status = "approved" \/ p \in Edited
    /\ ingested[p].approval.digest = Digest(ingested[p])
    /\ ingested' = [ingested EXCEPT ![p].approval.status = status]
    /\ decided' = IF status = "approved" THEN decided \cup Contents(p, ingested[p])
                  ELSE decided \ Contents(p, ingested[p])
    /\ slipped' = IF status = "approved" THEN slipped \ {p} ELSE slipped
    /\ UNCHANGED <<planFile, busy, ingesting, polling, atWork, trees, rewrites, mishaps, own, orphaned>>

\* reset_if_changed.
Reset(m) ==
    IF m.approval.digest = Digest(m) THEN m
    ELSE [m EXCEPT !.approval = [status |-> "pending", digest |-> Digest(m)]]

\* _patch_story_impl: the fields are written first, the approval is reset by a
\* second write.
PatchStory(p, k) ==
    /\ Unlocked(p) /\ ingested[p].stories[k] # NoStory
    /\ NextText(p)
    /\ ingested' = [ingested EXCEPT ![p].stories[k].text = rewrites']
    /\ busy' = [busy EXCEPT ![p] = [at |-> "patch"]]
    /\ UNCHANGED <<planFile, ingesting, polling, atWork, trees, mishaps, registryHistory>>

ResetAfterPatch(p) ==
    /\ busy[p].at = "patch"
    /\ ingested' = [ingested EXCEPT ![p] = Reset(@)]
    /\ busy' = [busy EXCEPT ![p] = Free]
    /\ UNCHANGED <<planFile, ingesting, polling, atWork, trees, rewrites, mishaps, registryHistory>>

PatchDies(p) ==
    /\ busy[p].at = "patch" /\ Mishap(p)
    /\ busy' = [busy EXCEPT ![p] = Free]
    /\ slipped' = slipped \cup {p}
    /\ UNCHANGED <<planFile, ingested, ingesting, polling, atWork, trees, rewrites,
                   decided, own, orphaned>>

\* patch_plan writes both at once; set_plan_role_config resets nothing.
PatchPlan(p) ==
    /\ Unlocked(p) /\ NextText(p)
    /\ ingested' = [ingested EXCEPT ![p] = Reset([@ EXCEPT !.role = rewrites'])]
    /\ UNCHANGED <<planFile, busy, ingesting, polling, atWork, trees, mishaps, registryHistory>>

SetRoleConfig(p) ==
    /\ Unlocked(p) /\ NextText(p)
    /\ ingested' = [ingested EXCEPT ![p].role = rewrites']
    /\ slipped' = slipped \cup {p}
    /\ UNCHANGED <<planFile, busy, ingesting, polling, atWork, trees, mishaps,
                   decided, own, orphaned>>

\* A rebrief or a ruling of triage writes a story's text, under the lock.
Rebrief(p, k) ==
    /\ Unlocked(p) /\ ingested[p].stories[k] # NoStory
    /\ NextText(p)
    /\ ingested' = [ingested EXCEPT ![p].stories[k].text = rewrites']
    /\ own' = own \cup {rewrites'}
    /\ UNCHANGED <<planFile, busy, ingesting, polling, atWork, trees, mishaps,
                   decided, slipped, orphaned>>
-----------------------------------------------------------------------------
\* Dispatch and what follows.

\* is_activatable and key_conflicts, asked by every dispatch.
Cleared(p, k) ==
    ingested[p].approval.status = "approved" /\ ~Conflict(p, k)

\* _dispatch_story_impl, by a tick or as a tool.
StartDispatch(p, k) ==
    /\ Unlocked(p)
    /\ ingested[p].stories[k] # NoStory /\ ingested[p].stories[k].status = "todo"
    /\ Cleared(p, k)
    /\ busy' = [busy EXCEPT ![p] = [at |-> "dispatch", key |-> k, seen |-> ingested[p]]]
    /\ UNCHANGED <<planFile, ingested, ingesting, polling, atWork, trees, rewrites, mishaps,
                   registryHistory>>

\* The resolved backend is written into the story, and the manifest that was
\* read is written back whole.
Launch(p) ==
    /\ busy[p].at = "dispatch"
    /\ LET k == busy[p].key
           seen == busy[p].seen IN
           /\ \E backend \in {seen.stories[k].backend, "resolved"} :
                ingested' = [ingested EXCEPT ![p] =
                               [seen EXCEPT !.stories[k].status = "in_progress",
                                            !.stories[k].backend = backend]]
           /\ atWork' = atWork \cup
                {[plan |-> p, key |-> k,
                  approved |-> <<p, k, seen.stories[k].text, ingested[p].role>> \in decided,
                  excused |-> p \in slipped \/ seen.stories[k].text \in own]}
           /\ trees' = trees \cup {k}
    /\ busy' = [busy EXCEPT ![p] = Free]
    /\ UNCHANGED <<planFile, ingesting, polling, rewrites, mishaps, registryHistory>>

\* Or the launch fails, and leaves what it may have made of the worktree.
LaunchFails(p) ==
    /\ busy[p].at = "dispatch"
    /\ trees' \in {trees, trees \cup {busy[p].key}}
    /\ busy' = [busy EXCEPT ![p] = Free]
    /\ UNCHANGED <<planFile, ingested, ingesting, polling, atWork, rewrites, mishaps,
                   registryHistory>>

AgentEnds(a) ==
    /\ atWork' = atWork \ {a}
    /\ UNCHANGED <<planFile, ingested, busy, ingesting, polling, trees, rewrites, mishaps,
                   registryHistory>>

Gradable(m) ==
    {k \in StoryKeys : m # NoPlan /\ m.stories[k] # NoStory /\ m.stories[k].status = "in_progress"}

\* The story of an agent that ended is graded and, at last, merged: under the
\* lock its worktree may go.
SettleStory(p, k) ==
    /\ Unlocked(p) /\ k \in Gradable(ingested[p])
    /\ ~\E a \in atWork : a.plan = p /\ a.key = k
    /\ \/ ingested' = [ingested EXCEPT ![p].stories[k].status = "todo"] /\ trees' = trees
       \/ /\ ingested' = [ingested EXCEPT ![p].stories[k].status = "done"]
          /\ trees' \in {trees, trees \ {k}}
    /\ UNCHANGED <<planFile, busy, ingesting, polling, atWork, rewrites, mishaps, registryHistory>>

\* The manifest has the story, and has not closed it.
StillOpen(m, k) == m.stories[k] # NoStory /\ m.stories[k].status # "done"

\* An agent works on the story, or is about to be launched.
WorkedOn(p, k) ==
    \/ \E a \in atWork : a.plan = p /\ a.key = k
    \/ busy[p].at = "dispatch" /\ busy[p].key = k

\* check_story_status as a tool takes no lock and writes the whole manifest
\* that it read before the grade.
StartPolling(p) ==
    /\ polling[p] = NoPlan /\ Mishap(p)
    /\ \E k \in Gradable(ingested[p]) : ~\E a \in atWork : a.plan = p /\ a.key = k
    /\ polling' = [polling EXCEPT ![p] =
                    [read |-> ingested[p], slip |-> p \in slipped \/ busy[p].at = "patch"]]
    /\ UNCHANGED <<planFile, ingested, busy, ingesting, atWork, trees, rewrites,
                   registryHistory>>

EndPolling(p) ==
    /\ polling[p] # NoPlan
    /\ LET read == polling[p].read IN
           /\ \E k \in Gradable(read) :
                ingested' = [ingested EXCEPT ![p] = [read EXCEPT !.stories[k].status = "todo"]]
           /\ slipped' = IF polling[p].slip \/ ingested[p].approval # read.approval
                         THEN slipped \cup {p} ELSE slipped
           /\ orphaned' = orphaned \cup {k \in StoryKeys : WorkedOn(p, k) /\ ~StillOpen(read, k)}
    /\ polling' = [polling EXCEPT ![p] = NoPlan]
    /\ UNCHANGED <<planFile, busy, ingesting, atWork, trees, rewrites, mishaps, decided, own>>
-----------------------------------------------------------------------------
RegistryNext ==
    \/ \E p \in Plans :
        \/ StartIngest(p) \/ RefuseIngest(p) \/ EndIngest(p)
        \/ \E status \in {"approved", "pending"} : Decide(p, status)
        \/ ResetAfterPatch(p) \/ PatchDies(p) \/ PatchPlan(p) \/ SetRoleConfig(p)
        \/ Launch(p) \/ LaunchFails(p) \/ StartPolling(p) \/ EndPolling(p)
        \/ \E k \in StoryKeys :
            \/ SavePlan(p, k) \/ PatchStory(p, k) \/ Rebrief(p, k)
            \/ StartDispatch(p, k) \/ SettleStory(p, k)
    \/ \E a \in atWork : AgentEnds(a)
-----------------------------------------------------------------------------
RegistryTypeOK ==
    LET Texts == 0 .. MaxRewrites
        Typed(m) ==
            m = NoPlan \/ (m \in Manifest /\ m.role \in Texts
                            /\ \A k \in StoryKeys : m.stories[k] # NoStory => m.stories[k].text \in Texts) IN
    /\ planFile \in [Plans -> [StoryKeys -> Texts \cup {NoStory}]]
    /\ \A p \in Plans : Typed(ingested[p]) /\ (polling[p] = NoPlan \/ Typed(polling[p].read))
    /\ \A p \in Plans : busy[p].at \in {"free", "patch", "dispatch"}
    /\ \A a \in atWork : a.plan \in Plans /\ a.key \in StoryKeys /\ {a.approved, a.excused} \subseteq BOOLEAN
    /\ trees \cup orphaned \subseteq StoryKeys
    /\ slipped \subseteq Plans
    /\ rewrites \in 1 .. MaxRewrites /\ mishaps \in 0 .. MaxMishaps

(***************************************************************************)
(* An agent works on a text and a role configuration whose last decision   *)
(* was an approval, or on a text the pipeline wrote itself ("an approval   *)
(* can never outlive the content it approved", _patch_story_impl), and no  *)
(* two plans have agents in one worktree (_dispatch_story_impl: "Refuse    *)
(* before any worktree or git work").  The exceptions: set_plan_role_config*)
(* resets nothing; a patch may die between its two writes; the tool that   *)
(* grades a story writes back an approval that is older than the last, or  *)
(* a story as done whose agent is at work by then; and an ingest that      *)
(* overwrites a plan forgets a story with an agent at work.                *)
(***************************************************************************)
LaunchesAreCleared ==
    /\ \A a \in atWork : a.approved \/ a.excused
    /\ \A a, b \in atWork : a.key = b.key => a.plan = b.plan \/ a.key \in orphaned
=============================================================================
