------------------------- MODULE PlanRegistryProofs --------------------------
(***************************************************************************)
(* Proofs about PlanRegistry as a part of the services: an agent works on  *)
(* what was approved, and in a worktree of its own.  The first half of the *)
(* inductive invariant follows an approval: what its digest is of was      *)
(* approved, the manifest that has it has that content, and so have the    *)
(* copies that a dispatch and an unlocked poll hold.  The second follows a *)
(* key: a story that is worked on stays open in its manifest, where every  *)
(* other plan's dispatch looks for it.                                     *)
(***************************************************************************)
EXTENDS DaemonServices, TLAPS

\* What busy, and an ingest under way, record of a plan.
Patching == [at |-> "patch"]
Dispatches == [at : {"dispatch"}, key : StoryKeys, seen : Manifest]

Readings == [read : [StoryKeys -> Nat \cup {NoStory}], overwrite : BOOLEAN]

RegistryTyped ==
    /\ planFile \in [Plans -> [StoryKeys -> Nat \cup {NoStory}]]
    /\ ingested \in [Plans -> Manifest \cup {NoPlan}]
    /\ busy \in [Plans -> {Free, Patching} \cup Dispatches]
    /\ ingesting \in [Plans -> Readings \cup {NoPlan}]
    /\ polling \in [Plans -> [read : Manifest, slip : BOOLEAN] \cup {NoPlan}]
    /\ atWork \subseteq [plan : Plans, key : StoryKeys, approved : BOOLEAN, excused : BOOLEAN]
    /\ rewrites \in Nat
    /\ \A p \in Plans : busy[p] # Free \/ polling[p] # NoPlan => ingested[p] # NoPlan

Approved(m) == m.approval.status = "approved"

\* What an approval is of was approved: the contents of its digest are among
\* the approved ones.
Sound(p, m, approved) ==
    Approved(m) =>
        \A k \in StoryKeys : m.approval.digest[2][k] # NoStory =>
            <<p, k, m.approval.digest[2][k][1], m.approval.digest[1]>> \in approved

\* A manifest with an approval has the content the approval is of, but for
\* texts that the pipeline wrote.
Fits(m, texts) ==
    Approved(m) =>
        /\ m.role = m.approval.digest[1]
        /\ \A k \in StoryKeys : m.stories[k] # NoStory =>
            \/ m.stories[k].text \in texts
            \/ /\ m.approval.digest[2][k] # NoStory
               /\ m.stories[k].text = m.approval.digest[2][k][1]

ApprovalsHold ==
    \A p \in Plans : ingested[p] # NoPlan /\ p \notin slipped =>
        /\ Sound(p, ingested[p], decided)
        /\ busy[p].at # "patch" => Fits(ingested[p], own)

PollsHold ==
    \A p \in Plans : polling[p] # NoPlan /\ ~polling[p].slip => Fits(polling[p].read, own)

DispatchesHold ==
    \A p \in Plans : busy[p].at = "dispatch" =>
        /\ busy[p].seen.stories[busy[p].key] # NoStory
        /\ p \notin slipped =>
            /\ busy[p].seen.approval = ingested[p].approval
            /\ Approved(busy[p].seen) /\ Fits(busy[p].seen, own)

\* A story that is worked on is open in its manifest, for every other plan to
\* see, and in the copy that a dispatch is about to write.
WorkIsOpen ==
    /\ \A a \in atWork :
        /\ ingested[a.plan] # NoPlan
        /\ a.key \in orphaned \/ StillOpen(ingested[a.plan], a.key)
    /\ \A p \in Plans : busy[p].at = "dispatch" =>
        /\ busy[p].key \in orphaned \/ StillOpen(ingested[p], busy[p].key)
        /\ \A a \in atWork : a.plan = p => a.key \in orphaned \/ StillOpen(busy[p].seen, a.key)

\* A key on which a plan dispatches is no other plan's.
KeysApart ==
    \A p \in Plans : busy[p].at = "dispatch" /\ busy[p].key \notin orphaned =>
        /\ \A a \in atWork : a.key = busy[p].key => a.plan = p
        /\ \A q \in Plans : busy[q].at = "dispatch" /\ busy[q].key = busy[p].key => q = p

RegistryInv ==
    /\ RegistryTyped /\ ApprovalsHold /\ PollsHold /\ DispatchesHold
    /\ WorkIsOpen /\ KeysApart /\ LaunchesAreCleared

\* The manifest as SMT needs it: its parts, and what an edit leaves of them.
LEMMA DigestFacts ==
    ASSUME NEW m \in Manifest
    PROVE  /\ Digest(m) \in Nat \X [StoryKeys -> (Nat \X Backends) \cup {NoStory}]
           /\ Digest(m)[1] = m.role
           /\ \A k \in StoryKeys :
                /\ m.stories[k] = NoStory => Digest(m)[2][k] = NoStory
                /\ m.stories[k] # NoStory =>
                    Digest(m)[2][k] # NoStory /\ Digest(m)[2][k][1] = m.stories[k].text
<1>1. /\ m.role \in Nat
      /\ \A k \in StoryKeys : m.stories[k] # NoStory =>
            m.stories[k].text \in Nat /\ m.stories[k].backend \in Backends
  BY DEF Manifest, Story
<1>2. \A k \in StoryKeys : m.stories[k] # NoStory =>
        <<m.stories[k].text, m.stories[k].backend>> \in Nat \X Backends
  BY <1>1
<1> DEFINE f == [k \in StoryKeys |-> IF m.stories[k] = NoStory THEN NoStory
                              ELSE <<m.stories[k].text, m.stories[k].backend>>]
<1>3. f \in [StoryKeys -> (Nat \X Backends) \cup {NoStory}]
  BY <1>2
<1>4. Digest(m) = <<m.role, f>>
  BY DEF Digest
<1>5. \A k \in StoryKeys :
        /\ m.stories[k] = NoStory => f[k] = NoStory
        /\ m.stories[k] # NoStory => f[k] # NoStory /\ f[k][1] = m.stories[k].text
  BY <1>2, RegistryAssumption
<1> HIDE DEF f
<1> QED BY <1>1, <1>3, <1>4, <1>5

\* An approval of the very content fits.
LEMMA ExactFits ==
    ASSUME NEW m \in Manifest, m.approval.digest = Digest(m), NEW texts
    PROVE  Fits(m, texts)
BY DigestFacts DEF Fits

\* reset_if_changed leaves an approval that fits.
LEMMA ResetFacts ==
    ASSUME NEW m \in Manifest, NEW texts
    PROVE  /\ Reset(m) \in Manifest /\ Fits(Reset(m), texts)
           /\ Reset(m).stories = m.stories
           /\ Approved(Reset(m)) => Reset(m).approval = m.approval
<1>1. CASE m.approval.digest = Digest(m)
  BY <1>1, ExactFits DEF Reset
<1>2. CASE m.approval.digest # Digest(m)
  <2>1. Digest(m) \in Nat \X [StoryKeys -> (Nat \X Backends) \cup {NoStory}]
    BY DigestFacts
  <2> QED BY <1>2, <2>1 DEF Reset, Manifest, Fits, Approved
<1> QED BY <1>1, <1>2
-----------------------------------------------------------------------------
\* A step that takes back nothing but agents.
LEMMA RegistryQuietStep ==
    ASSUME RegistryInv,
           UNCHANGED <<ingested, busy, polling, registryHistory>>,
           atWork' \subseteq atWork,
           planFile' \in [Plans -> [StoryKeys -> Nat \cup {NoStory}]],
           ingesting' \in [Plans -> Readings \cup {NoPlan}],
           rewrites' \in Nat
    PROVE  RegistryInv'
<1> USE DEF RegistryInv, registryHistory
<1>1. RegistryTyped'
  BY DEF RegistryTyped
<1>2. ApprovalsHold' /\ PollsHold' /\ DispatchesHold'
  BY DEF ApprovalsHold, PollsHold, DispatchesHold
<1>3. WorkIsOpen' /\ KeysApart' /\ LaunchesAreCleared'
  BY DEF WorkIsOpen, KeysApart, LaunchesAreCleared
<1> QED BY <1>1, <1>2, <1>3

\* The manifest of a plan on which nobody dispatches is replaced.
LEMMA EditStep ==
    ASSUME RegistryInv, NEW p \in Plans, busy[p] \in {Free, Patching},
           NEW e \in Manifest, ingested' = [ingested EXCEPT ![p] = e],
           NEW b \in {Free, Patching}, busy' = [busy EXCEPT ![p] = b],
           UNCHANGED <<planFile, polling, atWork>>,
           ingesting' \in [Plans -> Readings \cup {NoPlan}],
           rewrites' \in Nat,
           own \subseteq own', orphaned \subseteq orphaned', slipped \ {p} \subseteq slipped',
           \A q \in Plans \ {p} : \A k, t, r : <<q, k, t, r>> \in decided => <<q, k, t, r>> \in decided',
           p \notin slipped' => Sound(p, e, decided') /\ (b = Free => Fits(e, own')),
           \A a \in atWork : a.plan = p => a.key \in orphaned' \/ StillOpen(e, a.key)
    PROVE  RegistryInv'
<1> USE DEF RegistryInv
<1>1. e # NoPlan
  BY RegistryAssumption
<1>2. RegistryTyped'
  BY <1>1 DEF RegistryTyped
<1>3. busy'[p] = b /\ b.at # "dispatch" /\ (b.at # "patch" => b = Free)
  BY DEF RegistryTyped, Free, Patching
<1>4. \A q \in Plans \ {p} : ingested'[q] = ingested[q] /\ busy'[q] = busy[q]
  BY DEF RegistryTyped
<1>5. ingested'[p] = e
  BY DEF RegistryTyped
<1>6. ApprovalsHold'
  <2>1. ASSUME NEW q \in Plans \ {p}, ingested[q] # NoPlan, q \notin slipped'
        PROVE  Sound(q, ingested[q], decided') /\ (busy[q].at # "patch" => Fits(ingested[q], own'))
    BY <2>1 DEF ApprovalsHold, Sound, Fits
  <2> QED BY <1>3, <1>4, <1>5, <2>1 DEF ApprovalsHold
<1>7. PollsHold'
  BY DEF PollsHold, Fits
<1>8. DispatchesHold'
  BY <1>3, <1>4 DEF DispatchesHold, Fits
<1>9. WorkIsOpen'
  BY <1>1, <1>3, <1>4, <1>5 DEF WorkIsOpen, RegistryTyped
<1>10. KeysApart' /\ LaunchesAreCleared'
  BY <1>3, <1>4 DEF KeysApart, LaunchesAreCleared
<1> QED BY <1>2, <1>6, <1>7, <1>8, <1>9, <1>10
-----------------------------------------------------------------------------
\* Each action of a plan.

\* What a holder of the plan lock finds in a plan that is ingested.
LEMMA Found ==
    ASSUME RegistryInv, NEW p \in Plans, ingested[p] # NoPlan
    PROVE  /\ ingested[p] \in Manifest /\ busy[p] \in {Free, Patching} \cup Dispatches
           /\ p \notin slipped => Sound(p, ingested[p], decided)
           /\ p \notin slipped /\ busy[p] = Free => Fits(ingested[p], own)
           /\ \A a \in atWork : a.plan = p =>
                a.key \in orphaned \/ StillOpen(ingested[p], a.key)
           /\ ingesting \in [Plans -> Readings \cup {NoPlan}] /\ rewrites \in Nat
BY DEF RegistryInv, RegistryTyped, ApprovalsHold, WorkIsOpen, Free

\* A decision is on the very content of the manifest.
LEMMA DecideStep ==
    ASSUME RegistryInv, NEW p \in Plans, NEW status \in {"approved", "pending"},
           Decide(p, status)
    PROVE  RegistryInv'
<1>1. PICK m : m = ingested[p]
  OBVIOUS
<1>2. PICK e : e = [m EXCEPT !.approval.status = status]
  OBVIOUS
<1>3. /\ m \in Manifest /\ busy[p] = Free /\ m.approval.digest = Digest(m)
      /\ ingesting \in [Plans -> Readings \cup {NoPlan}] /\ rewrites \in Nat
  BY <1>1, Found DEF Decide, Unlocked
<1>4. /\ e \in Manifest /\ e.stories = m.stories /\ e.role = m.role
      /\ e.approval.digest = Digest(m) /\ e.approval.status = status
  BY <1>2, <1>3 DEF Manifest
<1>5. /\ ingested' = [ingested EXCEPT ![p] = e] /\ busy' = [busy EXCEPT ![p] = Free]
      /\ slipped \ {p} \subseteq slipped'
  BY <1>1, <1>2, <1>3 DEF Decide, RegistryInv, RegistryTyped
<1>6. Fits(e, own)
  <2>1. Digest(e) = Digest(m)
    BY <1>4 DEF Digest
  <2> QED BY <1>4, <2>1, ExactFits
<1>7. Sound(p, e, decided')
  <2>1. CASE status = "approved"
    <3>1. \A k \in StoryKeys : Digest(m)[2][k] # NoStory =>
            <<p, k, Digest(m)[2][k][1], Digest(m)[1]>> \in Contents(p, m)
      BY <1>3, DigestFacts DEF Contents
    <3>2. Contents(p, m) \subseteq decided'
      BY <1>1, <2>1 DEF Decide
    <3> QED BY <1>4, <3>1, <3>2 DEF Sound
  <2>2. CASE status # "approved"
    BY <1>4, <2>2 DEF Sound, Approved
  <2> QED BY <2>1, <2>2
<1>8. \A q \in Plans \ {p} : \A k, t, r : <<q, k, t, r>> \in decided => <<q, k, t, r>> \in decided'
  BY DEF Decide, Contents
<1>9. \A a \in atWork : a.plan = p => a.key \in orphaned' \/ StillOpen(e, a.key)
  BY <1>1, <1>4, Found DEF Decide, Unlocked, StillOpen
<1> QED BY <1>3, <1>4, <1>5, <1>6, <1>7, <1>8, <1>9, EditStep DEF Decide

\* The edits of a story's text by a holder of the lock.
LEMMA PatchStoryStep ==
    ASSUME RegistryInv, NEW p \in Plans, NEW k \in StoryKeys,
           PatchStory(p, k) \/ Rebrief(p, k)
    PROVE  RegistryInv'
<1>1. PICK m, s : m = ingested[p] /\ s = [m.stories[k] EXCEPT !.text = rewrites']
  OBVIOUS
<1>2. PICK e : e = [m EXCEPT !.stories[k] = s]
  OBVIOUS
<1>3. PICK b \in {Free, Patching} : /\ busy' = [busy EXCEPT ![p] = b]
                                    /\ b = Free => Rebrief(p, k)
  BY DEF PatchStory, Rebrief, Unlocked, Free, Patching, RegistryInv, RegistryTyped
<1>4. /\ m \in Manifest /\ busy[p] = Free /\ m.stories[k] # NoStory
      /\ ingesting' \in [Plans -> Readings \cup {NoPlan}] /\ rewrites' \in Nat
  BY <1>1, Found DEF PatchStory, Rebrief, Unlocked, NextText
<1>5. s \in Story /\ s.text = rewrites' /\ s.status = m.stories[k].status
  BY <1>1, <1>4 DEF Manifest, Story
<1>6. /\ e \in Manifest /\ e.role = m.role /\ e.approval = m.approval
      /\ e.stories[k] = s /\ s # NoStory
      /\ \A j \in StoryKeys \ {k} : e.stories[j] = m.stories[j]
  BY <1>2, <1>4, <1>5, RegistryAssumption DEF Manifest
<1>7. ingested' = [ingested EXCEPT ![p] = e]
  BY <1>1, <1>2 DEF PatchStory, Rebrief
<1>8. /\ UNCHANGED <<decided, slipped, orphaned, planFile, polling, atWork>>
      /\ own \subseteq own'
  BY DEF PatchStory, Rebrief, registryHistory
<1>9. p \notin slipped => Sound(p, e, decided') /\ (b = Free => Fits(e, own'))
  <2> SUFFICES ASSUME p \notin slipped PROVE Sound(p, e, decided') /\ (b = Free => Fits(e, own'))
    OBVIOUS
  <2>1. Sound(p, m, decided) /\ Fits(m, own)
    BY <1>1, <1>4, Found, RegistryAssumption
  <2>2. Sound(p, e, decided')
    BY <1>6, <1>8, <2>1 DEF Sound, Approved
  <2>3. ASSUME b = Free PROVE Fits(e, own')
    <3>1. rewrites' \in own'
      BY <1>3, <2>3 DEF Rebrief
    <3> QED BY <1>5, <1>6, <1>8, <2>1, <3>1 DEF Fits, Approved
  <2> QED BY <2>2, <2>3
<1>10. \A a \in atWork : a.plan = p => a.key \in orphaned \/ StillOpen(e, a.key)
  <2>1. \A j \in StoryKeys : StillOpen(m, j) => StillOpen(e, j)
    BY <1>5, <1>6 DEF StillOpen
  <2>2. \A a \in atWork : a.key \in StoryKeys
    BY DEF RegistryInv, RegistryTyped
  <2> QED BY <1>1, <1>4, <2>1, <2>2, Found, RegistryAssumption
<1> QED BY <1>3, <1>4, <1>6, <1>7, <1>8, <1>9, <1>10, EditStep

\* patch_plan resets, set_plan_role_config is the exception.
LEMMA RoleStep ==
    ASSUME RegistryInv, NEW p \in Plans, PatchPlan(p) \/ SetRoleConfig(p)
    PROVE  RegistryInv'
<1>1. PICK m : m = ingested[p]
  OBVIOUS
<1>2. PICK u : u = [m EXCEPT !.role = rewrites']
  OBVIOUS
<1>3. PICK e \in {u, Reset(u)} :
          /\ ingested' = [ingested EXCEPT ![p] = e]
          /\ e = Reset(u) \/ p \in slipped'
  BY <1>1, <1>2 DEF PatchPlan, SetRoleConfig
<1>4. /\ m \in Manifest /\ busy[p] = Free
      /\ busy' = [busy EXCEPT ![p] = Free]
      /\ ingesting' \in [Plans -> Readings \cup {NoPlan}] /\ rewrites' \in Nat
  BY <1>1, Found DEF PatchPlan, SetRoleConfig, Unlocked, NextText, RegistryInv, RegistryTyped
<1>5. u \in Manifest /\ u.stories = m.stories /\ u.approval = m.approval
  BY <1>2, <1>4 DEF Manifest
<1>6. e \in Manifest /\ e.stories = m.stories /\ (Approved(e) => e.approval = m.approval)
  BY <1>3, <1>5, ResetFacts
<1>7. /\ UNCHANGED <<decided, own, orphaned, planFile, polling, atWork>>
      /\ slipped \subseteq slipped'
  BY DEF PatchPlan, SetRoleConfig, registryHistory
<1>8. p \notin slipped' => Sound(p, e, decided') /\ Fits(e, own')
  <2> SUFFICES ASSUME p \notin slipped' PROVE Sound(p, e, decided') /\ Fits(e, own')
    OBVIOUS
  <2>1. Sound(p, m, decided)
    BY <1>1, <1>4, <1>7, Found, RegistryAssumption
  <2>2. Fits(e, own')
    BY <1>3, <1>5, ResetFacts
  <2> QED BY <1>6, <1>7, <2>1, <2>2 DEF Sound, Approved
<1>9. \A a \in atWork : a.plan = p => a.key \in orphaned \/ StillOpen(e, a.key)
  BY <1>1, <1>4, <1>6, Found, RegistryAssumption DEF StillOpen
<1> QED BY <1>3, <1>4, <1>6, <1>7, <1>8, <1>9, EditStep

\* The second write of a patch resets the approval if the content is not its own.
LEMMA ResetAfterPatchStep ==
    ASSUME RegistryInv, NEW p \in Plans, ResetAfterPatch(p)
    PROVE  RegistryInv'
<1>1. PICK m, e : m = ingested[p] /\ e = Reset(m)
  OBVIOUS
<1>2. /\ m \in Manifest /\ busy[p] = Patching
      /\ ingesting' \in [Plans -> Readings \cup {NoPlan}] /\ rewrites' \in Nat
  BY <1>1 DEF ResetAfterPatch, RegistryInv, RegistryTyped, Free, Patching, Dispatches
<1>3. e \in Manifest /\ e.stories = m.stories /\ (Approved(e) => e.approval = m.approval)
  BY <1>1, <1>2, ResetFacts
<1>4. ingested' = [ingested EXCEPT ![p] = e] /\ busy' = [busy EXCEPT ![p] = Free]
  BY <1>1 DEF ResetAfterPatch
<1>5. UNCHANGED <<decided, own, slipped, orphaned, planFile, polling, atWork>>
  BY DEF ResetAfterPatch, registryHistory
<1>6. p \notin slipped => Sound(p, e, decided) /\ Fits(e, own)
  <2> SUFFICES ASSUME p \notin slipped PROVE Sound(p, e, decided) /\ Fits(e, own)
    OBVIOUS
  <2>1. Sound(p, m, decided)
    BY <1>1, <1>2, Found, RegistryAssumption
  <2>2. Fits(e, own)
    BY <1>1, <1>2, ResetFacts
  <2> QED BY <1>3, <2>1, <2>2 DEF Sound, Approved
<1>7. \A a \in atWork : a.plan = p => a.key \in orphaned \/ StillOpen(e, a.key)
  BY <1>1, <1>2, <1>3, Found, RegistryAssumption DEF StillOpen
<1> QED BY <1>2, <1>3, <1>4, <1>5, <1>6, <1>7, EditStep

\* The process dies between the two writes: the approval stays of what it was.
LEMMA PatchDiesStep ==
    ASSUME RegistryInv, NEW p \in Plans, PatchDies(p)
    PROVE  RegistryInv'
<1>1. PICK e : e = ingested[p]
  OBVIOUS
<1>2. /\ e \in Manifest /\ busy[p] = Patching
      /\ ingested' = [ingested EXCEPT ![p] = e]
      /\ ingesting' \in [Plans -> Readings \cup {NoPlan}] /\ rewrites' \in Nat
  BY <1>1 DEF PatchDies, RegistryInv, RegistryTyped, Free, Patching, Dispatches
<1>3. busy' = [busy EXCEPT ![p] = Free] /\ p \in slipped' /\ slipped \subseteq slipped'
  BY DEF PatchDies
<1>4. UNCHANGED <<decided, own, orphaned, planFile, polling, atWork>>
  BY DEF PatchDies
<1>5. \A a \in atWork : a.plan = p => a.key \in orphaned \/ StillOpen(e, a.key)
  BY <1>1, <1>2, Found, RegistryAssumption
<1> QED BY <1>2, <1>3, <1>4, <1>5, EditStep

\* A settled story keeps its text, and had no agent.
LEMMA SettleStoryStep ==
    ASSUME RegistryInv, NEW p \in Plans, NEW k \in StoryKeys, SettleStory(p, k)
    PROVE  RegistryInv'
<1>1. PICK m : m = ingested[p]
  OBVIOUS
<1>2. PICK status \in {"todo", "done"} :
          ingested' = [ingested EXCEPT ![p].stories[k].status = status]
  BY DEF SettleStory
<1>3. PICK s : s = [m.stories[k] EXCEPT !.status = status]
  OBVIOUS
<1>4. PICK e : e = [m EXCEPT !.stories[k] = s]
  OBVIOUS
<1>5. /\ m \in Manifest /\ busy[p] = Free /\ m.stories[k] # NoStory
      /\ busy' = [busy EXCEPT ![p] = Free]
      /\ ingesting' \in [Plans -> Readings \cup {NoPlan}] /\ rewrites' \in Nat
  BY <1>1, Found DEF SettleStory, Unlocked, Gradable, RegistryInv, RegistryTyped
<1>6. s \in Story /\ s.text = m.stories[k].text
  BY <1>3, <1>5 DEF Manifest, Story
<1>7. /\ e \in Manifest /\ e.role = m.role /\ e.approval = m.approval
      /\ e.stories[k] = s /\ s # NoStory
      /\ \A j \in StoryKeys \ {k} : e.stories[j] = m.stories[j]
  BY <1>4, <1>5, <1>6, RegistryAssumption DEF Manifest
<1>8. ingested' = [ingested EXCEPT ![p] = e]
  BY <1>1, <1>2, <1>3, <1>4
<1>9. UNCHANGED <<decided, own, slipped, orphaned, planFile, polling, atWork>>
  BY DEF SettleStory, registryHistory
<1>10. p \notin slipped => Sound(p, e, decided) /\ Fits(e, own)
  <2> SUFFICES ASSUME p \notin slipped PROVE Sound(p, e, decided) /\ Fits(e, own)
    OBVIOUS
  <2>1. Sound(p, m, decided) /\ Fits(m, own)
    BY <1>1, <1>5, Found, RegistryAssumption
  <2>2. Sound(p, e, decided)
    BY <1>7, <2>1 DEF Sound, Approved
  <2>3. Fits(e, own)
    <3>1. \A j \in StoryKeys :
            /\ e.stories[j] # NoStory => m.stories[j] # NoStory
            /\ e.stories[j] # NoStory => e.stories[j].text = m.stories[j].text
      BY <1>5, <1>6, <1>7
    <3> QED BY <1>7, <2>1, <3>1 DEF Fits, Approved
  <2> QED BY <2>2, <2>3
<1>11. \A a \in atWork : a.plan = p => a.key \in orphaned \/ StillOpen(e, a.key)
  <2>1. \A a \in atWork : a.plan = p => a.key \in StoryKeys \ {k}
    BY DEF SettleStory, RegistryInv, RegistryTyped
  <2>2. \A j \in StoryKeys \ {k} : StillOpen(m, j) => StillOpen(e, j)
    BY <1>7 DEF StillOpen
  <2> QED BY <1>1, <1>5, <2>1, <2>2, Found, RegistryAssumption
<1> QED BY <1>5, <1>7, <1>8, <1>9, <1>10, <1>11, EditStep

\* An ingest keeps an approval only of the content that it writes.
LEMMA EndIngestStep ==
    ASSUME RegistryInv, NEW p \in Plans, EndIngest(p)
    PROVE  RegistryInv'
<1>1. PICK prior : prior = Prior(p)
  OBVIOUS
<1>2. PICK merged :
          merged = [prior EXCEPT !.stories =
                      [k \in StoryKeys |-> MergedStory(@[k], ingesting[p].read[k])]]
  OBVIOUS
<1>3. PICK e : e = [merged EXCEPT !.approval = OnIngest(@, merged)]
  OBVIOUS
<1>4. /\ ingesting[p].read \in [StoryKeys -> Nat \cup {NoStory}]
      /\ ingesting' \in [Plans -> Readings \cup {NoPlan}] /\ rewrites' \in Nat
  BY DEF EndIngest, RegistryInv, RegistryTyped, Readings
<1>5. /\ prior.role \in Nat /\ prior.stories \in [StoryKeys -> Story \cup {NoStory}]
      /\ prior.approval.status = "approved" => prior = ingested[p] /\ prior \in Manifest
      /\ \A k \in StoryKeys : prior.stories[k] # NoStory => prior = ingested[p]
      /\ prior = [stories |-> prior.stories, role |-> prior.role, approval |-> prior.approval]
  <2>1. CASE ingesting[p].overwrite \/ ingested[p] = NoPlan
    BY <1>1, <2>1 DEF Prior
  <2>2. CASE ~(ingesting[p].overwrite \/ ingested[p] = NoPlan)
    BY <1>1, <2>2 DEF Prior, RegistryInv, RegistryTyped, Manifest
  <2> QED BY <2>1, <2>2
<1>6. \A k \in StoryKeys :
        /\ MergedStory(prior.stories[k], ingesting[p].read[k]) \in Story \cup {NoStory}
        /\ StillOpen(prior, k) =>
             LET s == MergedStory(prior.stories[k], ingesting[p].read[k])
             IN  s # NoStory /\ s.status # "done"
        /\ prior.stories[k] = NoStory =>
             LET s == MergedStory(prior.stories[k], ingesting[p].read[k])
             IN  s # NoStory => s.status # "done"
  BY <1>4, <1>5, RegistryAssumption DEF MergedStory, StillOpen, Story, Backends
<1>7. /\ merged.role = prior.role /\ merged.approval = prior.approval
      /\ merged.stories = [k \in StoryKeys |-> MergedStory(prior.stories[k], ingesting[p].read[k])]
      /\ merged = [stories |-> merged.stories, role |-> merged.role, approval |-> merged.approval]
  BY <1>2, <1>5
<1>8. Digest(merged) \in Nat \X [StoryKeys -> (Nat \X Backends) \cup {NoStory}]
  <2>1. PICK d : d = [status |-> "pending", digest |-> <<0, [k \in StoryKeys |-> NoStory]>>]
    OBVIOUS
  <2>2. [merged EXCEPT !.approval = d] \in Manifest
    BY <1>5, <1>6, <1>7, <2>1 DEF Manifest
  <2>3. Digest([merged EXCEPT !.approval = d]) = Digest(merged)
    BY <1>7 DEF Digest
  <2> QED BY <2>2, <2>3, DigestFacts
<1>9. /\ e.stories = merged.stories /\ e.role = merged.role
      /\ e.approval.digest = Digest(merged) /\ e.approval.status \in {"pending", "approved"}
      /\ Approved(e) => prior.approval.status = "approved" /\ prior.approval.digest = Digest(merged)
      /\ e \in Manifest
  BY <1>3, <1>5, <1>6, <1>7, <1>8 DEF OnIngest, Approved, Manifest
<1>10. Fits(e, own)
  <2>1. Digest(e) = Digest(merged)
    BY <1>9 DEF Digest
  <2> QED BY <1>9, <2>1, ExactFits
<1>11. UNCHANGED <<planFile, busy, polling, atWork, rewrites, decided, own, slipped>>
  BY DEF EndIngest
<1>12. \/ /\ busy[p] = Free /\ ingested' = [ingested EXCEPT ![p] = e]
          /\ orphaned' = orphaned \cup
                {a.key : a \in {a \in atWork : a.plan = p /\ e.stories[a.key] = NoStory}}
       \/ UNCHANGED <<ingested, orphaned>>
  BY <1>1, <1>2, <1>3 DEF EndIngest
<1>13. CASE /\ busy[p] = Free /\ ingested' = [ingested EXCEPT ![p] = e]
            /\ orphaned' = orphaned \cup
                  {a.key : a \in {a \in atWork : a.plan = p /\ e.stories[a.key] = NoStory}}
  <2>1. p \notin slipped => Sound(p, e, decided)
    BY <1>5, <1>9, Found, RegistryAssumption DEF Sound, Approved
  <2>2. ASSUME NEW a \in atWork, a.plan = p PROVE a.key \in orphaned' \/ StillOpen(e, a.key)
    <3>1. a.key \in StoryKeys /\ ingested[p] # NoPlan
          /\ (a.key \in orphaned \/ StillOpen(ingested[p], a.key))
      BY <2>2 DEF RegistryInv, RegistryTyped, WorkIsOpen
    <3>2. CASE e.stories[a.key] = NoStory
      BY <1>13, <2>2, <3>2
    <3>3. CASE a.key \in orphaned
      BY <1>13, <3>3
    <3>4. CASE e.stories[a.key] # NoStory /\ StillOpen(ingested[p], a.key)
      <4>1. e.stories[a.key] = MergedStory(prior.stories[a.key], ingesting[p].read[a.key])
        BY <1>7, <1>9, <3>1
      <4>2. prior.stories[a.key] = NoStory \/ StillOpen(prior, a.key)
        BY <1>5, <3>1, <3>4
      <4> QED BY <1>6, <3>1, <3>4, <4>1, <4>2 DEF StillOpen
    <3> QED BY <3>1, <3>2, <3>3, <3>4
  <2>3. busy' = [busy EXCEPT ![p] = Free] /\ orphaned \subseteq orphaned'
    BY <1>11, <1>13 DEF RegistryInv, RegistryTyped
  <2> QED BY <1>4, <1>9, <1>10, <1>11, <1>13, <2>1, <2>2, <2>3, EditStep
<1>14. CASE UNCHANGED <<ingested, orphaned>>
  <2>1. planFile \in [Plans -> [StoryKeys -> Nat \cup {NoStory}]]
    BY DEF RegistryInv, RegistryTyped
  <2> QED BY <1>4, <1>11, <1>14, <2>1, RegistryQuietStep DEF registryHistory
<1> QED BY <1>12, <1>13, <1>14

\* An unlocked poll reads a manifest whose approval fits, or is excused.
LEMMA StartPollingStep ==
    ASSUME RegistryInv, NEW p \in Plans, StartPolling(p)
    PROVE  RegistryInv'
<1> USE DEF RegistryInv, registryHistory
<1>1. /\ UNCHANGED <<planFile, ingested, busy, ingesting, atWork, rewrites, decided, own,
                     slipped, orphaned>>
      /\ ingested[p] # NoPlan /\ ingested[p] \in Manifest
      /\ polling' = [polling EXCEPT ![p] =
                      [read |-> ingested[p], slip |-> p \in slipped \/ busy[p].at = "patch"]]
  BY DEF StartPolling, Gradable, RegistryTyped
<1>2. RegistryTyped'
  BY <1>1 DEF RegistryTyped
<1>3. PollsHold'
  BY <1>1 DEF PollsHold, ApprovalsHold, RegistryTyped
<1>4. /\ ApprovalsHold' /\ DispatchesHold' /\ WorkIsOpen' /\ KeysApart'
      /\ LaunchesAreCleared'
  BY <1>1 DEF ApprovalsHold, DispatchesHold, WorkIsOpen, KeysApart, LaunchesAreCleared
<1> QED BY <1>2, <1>3, <1>4

\* A poll that writes back what it read takes no approval back unnoticed.
LEMMA EndPollingStep ==
    ASSUME RegistryInv, NEW p \in Plans, EndPolling(p)
    PROVE  RegistryInv'
<1> USE DEF RegistryInv
<1>1. PICK m, slip : m = polling[p].read /\ slip = polling[p].slip
  OBVIOUS
<1>2. PICK k \in Gradable(m) :
          ingested' = [ingested EXCEPT ![p] = [m EXCEPT !.stories[k].status = "todo"]]
  BY <1>1 DEF EndPolling
<1>3. PICK s : s = [m.stories[k] EXCEPT !.status = "todo"]
  OBVIOUS
<1>4. PICK e : e = [m EXCEPT !.stories[k] = s]
  OBVIOUS
<1>5. /\ m \in Manifest /\ k \in StoryKeys /\ m.stories[k] # NoStory
      /\ ingested[p] # NoPlan /\ m.stories[k].status = "in_progress"
  BY <1>1, <1>2 DEF EndPolling, RegistryTyped, Gradable
<1>6. s \in Story /\ s.text = m.stories[k].text /\ s.status = "todo"
  BY <1>3, <1>5 DEF Manifest, Story
<1>7. /\ e \in Manifest /\ e.role = m.role /\ e.approval = m.approval
      /\ e.stories[k] = s /\ s # NoStory
      /\ \A j \in StoryKeys \ {k} : e.stories[j] = m.stories[j]
  BY <1>4, <1>5, <1>6, RegistryAssumption DEF Manifest
<1>8. /\ ingested' = [ingested EXCEPT ![p] = e] /\ e # NoPlan /\ ingested'[p] = e
      /\ \A q \in Plans \ {p} : ingested'[q] = ingested[q] /\ polling'[q] = polling[q]
  BY <1>2, <1>3, <1>4, <1>7, RegistryAssumption DEF EndPolling, RegistryTyped
<1>9. /\ polling' = [polling EXCEPT ![p] = NoPlan] /\ polling'[p] = NoPlan
      /\ UNCHANGED <<planFile, busy, ingesting, atWork, rewrites, decided, own>>
      /\ slipped \subseteq slipped' /\ orphaned \subseteq orphaned'
      /\ p \notin slipped' => ~slip /\ ingested[p].approval = m.approval /\ slipped' = slipped
      /\ \A j \in StoryKeys : WorkedOn(p, j) => j \in orphaned' \/ StillOpen(m, j)
      /\ \A q \in Plans \ {p} : q \notin slipped' => q \notin slipped
  BY <1>1 DEF EndPolling, RegistryTyped
<1>10. RegistryTyped'
  BY <1>7, <1>8, <1>9 DEF RegistryTyped
<1>11. \A j \in StoryKeys : StillOpen(m, j) => StillOpen(e, j)
  BY <1>6, <1>7 DEF StillOpen
<1>12. p \notin slipped' => Sound(p, e, decided) /\ Fits(e, own)
  <2> SUFFICES ASSUME p \notin slipped' PROVE Sound(p, e, decided) /\ Fits(e, own)
    OBVIOUS
  <2>1. Sound(p, ingested[p], decided) /\ Fits(m, own)
    BY <1>1, <1>5, <1>9 DEF ApprovalsHold, PollsHold, EndPolling
  <2>2. Sound(p, e, decided)
    BY <1>7, <1>9, <2>1 DEF Sound, Approved
  <2>3. \A j \in StoryKeys :
            /\ e.stories[j] # NoStory => m.stories[j] # NoStory
            /\ e.stories[j] # NoStory => e.stories[j].text = m.stories[j].text
    BY <1>5, <1>6, <1>7
  <2>4. Fits(e, own)
    BY <1>7, <2>1, <2>3 DEF Fits, Approved
  <2> QED BY <2>2, <2>4
<1>13. ApprovalsHold'
  BY <1>8, <1>9, <1>12 DEF ApprovalsHold
<1>14. PollsHold'
  BY <1>8, <1>9 DEF PollsHold
<1>15. DispatchesHold'
  <2>1. busy[p].at = "dispatch" /\ p \notin slipped' => busy[p].seen.approval = e.approval
    BY <1>7, <1>9 DEF DispatchesHold
  <2> QED BY <1>8, <1>9, <2>1 DEF DispatchesHold
<1>16. WorkIsOpen'
  <2>1. ASSUME NEW a \in atWork, a.plan = p PROVE a.key \in orphaned' \/ StillOpen(e, a.key)
    BY <1>9, <1>11, <2>1 DEF WorkedOn, RegistryTyped
  <2>2. busy[p].at = "dispatch" => busy[p].key \in orphaned' \/ StillOpen(e, busy[p].key)
    BY <1>9, <1>11 DEF WorkedOn, RegistryTyped, Free, Patching, Dispatches
  <2> QED BY <1>8, <1>9, <2>1, <2>2 DEF WorkIsOpen, RegistryTyped
<1>17. KeysApart' /\ LaunchesAreCleared'
  BY <1>9 DEF KeysApart, LaunchesAreCleared
<1> QED BY <1>10, <1>13, <1>14, <1>15, <1>16, <1>17

\* A dispatch starts on a key that is open nowhere else.
LEMMA StartDispatchStep ==
    ASSUME RegistryInv, NEW p \in Plans, NEW k \in StoryKeys, StartDispatch(p, k)
    PROVE  RegistryInv'
<1> USE DEF RegistryInv, registryHistory
<1>1. PICK m, b : m = ingested[p] /\ b = [at |-> "dispatch", key |-> k, seen |-> m]
  OBVIOUS
<1>2. /\ m \in Manifest /\ m # NoPlan /\ busy[p] = Free
      /\ m.stories[k] # NoStory /\ StillOpen(m, k) /\ Approved(m) /\ ~Conflict(p, k)
      /\ UNCHANGED <<planFile, ingested, ingesting, polling, atWork, rewrites, decided, own,
                     slipped, orphaned>>
  BY <1>1 DEF StartDispatch, Unlocked, Cleared, RegistryTyped, Approved, StillOpen
<1>3. /\ b \in Dispatches /\ b.at = "dispatch" /\ b.key = k /\ b.seen = m /\ b # Free
      /\ busy' = [busy EXCEPT ![p] = b] /\ busy'[p] = b
      /\ \A q \in Plans \ {p} : busy'[q] = busy[q]
  BY <1>1, <1>2 DEF StartDispatch, Dispatches, RegistryTyped, Free
<1>4. RegistryTyped'
  BY <1>1, <1>2, <1>3 DEF RegistryTyped
<1>5. p \notin slipped => Fits(m, own)
  BY <1>1, <1>2 DEF ApprovalsHold, Free
<1>6. ApprovalsHold' /\ PollsHold'
  BY <1>1, <1>2, <1>3, <1>5 DEF ApprovalsHold, PollsHold
<1>7. DispatchesHold'
  BY <1>1, <1>2, <1>3, <1>5 DEF DispatchesHold
<1>8. WorkIsOpen'
  BY <1>1, <1>2, <1>3 DEF WorkIsOpen
<1>9. KeysApart'
  <2>1. ASSUME NEW q \in Plans \ {p}, ingested[q] # NoPlan PROVE ~StillOpen(ingested[q], k)
    BY <1>2, <2>1 DEF Conflict, StillOpen
  <2>2. \A a \in atWork : a.key = k /\ k \notin orphaned => a.plan = p
    BY <2>1 DEF WorkIsOpen, RegistryTyped
  <2>3. \A q \in Plans \ {p} : busy[q].at = "dispatch" /\ busy[q].key = k => k \in orphaned
    BY <2>1 DEF WorkIsOpen, RegistryTyped, Free
  <2>4. \A q \in Plans : busy'[q].at = "dispatch" /\ busy'[q].key = k /\ k \notin orphaned => q = p
    BY <1>3, <2>3
  <2> QED BY <1>2, <1>3, <2>2, <2>4 DEF KeysApart
<1>10. LaunchesAreCleared'
  BY <1>2 DEF LaunchesAreCleared
<1> QED BY <1>4, <1>6, <1>7, <1>8, <1>9, <1>10

\* A launch that fails leaves the manifest.
LEMMA LaunchFailsStep ==
    ASSUME RegistryInv, NEW p \in Plans, LaunchFails(p)
    PROVE  RegistryInv'
<1> USE DEF RegistryInv, registryHistory
<1>1. /\ UNCHANGED <<planFile, ingested, ingesting, polling, atWork, rewrites, decided, own,
                     slipped, orphaned>>
      /\ busy' = [busy EXCEPT ![p] = Free] /\ busy[p].at # "patch"
      /\ busy'[p] = Free /\ \A q \in Plans \ {p} : busy'[q] = busy[q]
  BY DEF LaunchFails, RegistryTyped
<1>2. RegistryTyped' /\ ApprovalsHold' /\ PollsHold'
  BY <1>1 DEF RegistryTyped, ApprovalsHold, PollsHold
<1>3. DispatchesHold' /\ WorkIsOpen' /\ KeysApart' /\ LaunchesAreCleared'
  BY <1>1 DEF DispatchesHold, WorkIsOpen, KeysApart, LaunchesAreCleared, Free
<1> QED BY <1>2, <1>3

\* The launch: what was seen was approved and still is what the manifest says.
LEMMA LaunchStep ==
    ASSUME RegistryInv, NEW p \in Plans, Launch(p)
    PROVE  RegistryInv'
<1> USE DEF RegistryInv, registryHistory
<1>1. PICK k, seen : k = busy[p].key /\ seen = busy[p].seen
  OBVIOUS
<1>2. /\ busy[p].at = "dispatch" /\ busy[p] \in Dispatches
      /\ k \in StoryKeys /\ seen \in Manifest /\ seen.stories[k] # NoStory
      /\ ingested[p] # NoPlan /\ ingested[p] \in Manifest
  BY <1>1 DEF Launch, DispatchesHold, RegistryTyped, Free, Patching, Dispatches
<1>3. PICK backend \in {seen.stories[k].backend, "resolved"} :
          ingested' = [ingested EXCEPT ![p] = [seen EXCEPT !.stories[k].status = "in_progress",
                                                           !.stories[k].backend = backend]]
  BY <1>1 DEF Launch
<1>4. PICK s : s = [seen.stories[k] EXCEPT !.status = "in_progress", !.backend = backend]
  OBVIOUS
<1>5. PICK e : e = [seen EXCEPT !.stories[k] = s]
  OBVIOUS
<1>6. s \in Story /\ s.text = seen.stories[k].text /\ s.status = "in_progress"
  BY <1>2, <1>3, <1>4 DEF Manifest, Story, Backends
<1>7. /\ e \in Manifest /\ e.role = seen.role /\ e.approval = seen.approval
      /\ e.stories[k] = s /\ s # NoStory
      /\ \A j \in StoryKeys \ {k} : e.stories[j] = seen.stories[j]
  BY <1>2, <1>5, <1>6, RegistryAssumption DEF Manifest
<1>8. /\ ingested' = [ingested EXCEPT ![p] = e] /\ e # NoPlan /\ ingested'[p] = e
      /\ \A q \in Plans \ {p} : ingested'[q] = ingested[q]
  <2>1. e = [seen EXCEPT !.stories[k].status = "in_progress", !.stories[k].backend = backend]
    BY <1>2, <1>4, <1>5 DEF Manifest, Story
  <2> QED BY <1>3, <1>7, <2>1, RegistryAssumption DEF RegistryTyped
<1>9. PICK new :
        /\ new = [plan |-> p, key |-> k,
                  approved |-> <<p, k, seen.stories[k].text, ingested[p].role>> \in decided,
                  excused |-> p \in slipped \/ seen.stories[k].text \in own]
        /\ atWork' = atWork \cup {new}
  BY <1>1 DEF Launch
<1>10. /\ UNCHANGED <<planFile, ingesting, polling, rewrites, decided, own, slipped, orphaned>>
       /\ busy' = [busy EXCEPT ![p] = Free] /\ busy'[p] = Free
       /\ \A q \in Plans \ {p} : busy'[q] = busy[q]
  BY DEF Launch, RegistryTyped
<1>11. RegistryTyped'
  <2>1. new \in [plan : Plans, key : StoryKeys, approved : BOOLEAN, excused : BOOLEAN]
    BY <1>2, <1>9
  <2> QED BY <1>7, <1>8, <1>9, <1>10, <2>1 DEF RegistryTyped
<1>12. p \notin slipped =>
        /\ Approved(seen) /\ Fits(seen, own) /\ seen.approval = ingested[p].approval
        /\ Sound(p, ingested[p], decided) /\ Fits(ingested[p], own)
  BY <1>1, <1>2 DEF DispatchesHold, ApprovalsHold
<1>13. ApprovalsHold'
  <2>1. p \notin slipped => Sound(p, e, decided)
    BY <1>7, <1>12 DEF Sound, Approved
  <2>2. \A j \in StoryKeys :
            /\ e.stories[j] # NoStory => seen.stories[j] # NoStory
            /\ e.stories[j] # NoStory => e.stories[j].text = seen.stories[j].text
    BY <1>2, <1>6, <1>7
  <2>3. p \notin slipped => Fits(e, own)
    BY <1>7, <1>12, <2>2 DEF Fits, Approved
  <2> QED BY <1>8, <1>10, <2>1, <2>3 DEF ApprovalsHold
<1>14. PollsHold' /\ DispatchesHold'
  BY <1>8, <1>10 DEF PollsHold, DispatchesHold, Free
<1>15. WorkIsOpen'
  <2>1. \A j \in StoryKeys : StillOpen(seen, j) => StillOpen(e, j)
    BY <1>6, <1>7 DEF StillOpen
  <2>2. StillOpen(e, k)
    BY <1>6, <1>7 DEF StillOpen
  <2>3. ASSUME NEW a \in atWork, a.plan = p PROVE a.key \in orphaned \/ StillOpen(e, a.key)
    BY <1>1, <1>2, <2>1, <2>3 DEF WorkIsOpen, RegistryTyped
  <2>4. ASSUME NEW a \in atWork'
        PROVE  ingested'[a.plan] # NoPlan /\ (a.key \in orphaned \/ StillOpen(ingested'[a.plan], a.key))
    <3>1. CASE a = new
      BY <1>8, <1>9, <2>2, <3>1
    <3>2. CASE a \in atWork /\ a.plan = p
      BY <1>8, <2>3, <3>2
    <3>3. CASE a \in atWork /\ a.plan # p
      BY <1>8, <3>3 DEF WorkIsOpen, RegistryTyped
    <3> QED BY <1>9, <2>4, <3>1, <3>2, <3>3
  <2>5. ASSUME NEW q \in Plans, busy'[q].at = "dispatch"
        PROVE  /\ busy'[q].key \in orphaned \/ StillOpen(ingested'[q], busy'[q].key)
               /\ \A a \in atWork' : a.plan = q => a.key \in orphaned \/ StillOpen(busy'[q].seen, a.key)
    <3>1. q # p /\ busy'[q] = busy[q] /\ ingested'[q] = ingested[q]
      BY <1>8, <1>10, <2>5 DEF Free
    <3>2. new.plan # q
      BY <1>9, <3>1
    <3> QED BY <1>9, <2>5, <3>1, <3>2 DEF WorkIsOpen
  <2> QED BY <1>10, <2>4, <2>5 DEF WorkIsOpen
<1>16. KeysApart'
  <2>1. ASSUME NEW q \in Plans, busy'[q].at = "dispatch", busy'[q].key \notin orphaned
        PROVE  /\ \A a \in atWork' : a.key = busy'[q].key => a.plan = q
               /\ \A r \in Plans : busy'[r].at = "dispatch" /\ busy'[r].key = busy'[q].key => r = q
    <3>1. q # p /\ busy'[q] = busy[q]
      BY <1>10, <2>1 DEF Free
    <3>2. busy[q].key # k
      BY <1>1, <1>2, <2>1, <3>1 DEF KeysApart
    <3>3. \A r \in Plans : busy'[r].at = "dispatch" => busy'[r] = busy[r]
      BY <1>10 DEF Free
    <3> QED BY <1>9, <2>1, <3>1, <3>2, <3>3 DEF KeysApart
  <2> QED BY <1>10, <2>1 DEF KeysApart
<1>17. LaunchesAreCleared'
  <2>1. new.approved \/ new.excused
    <3> SUFFICES ASSUME p \notin slipped, seen.stories[k].text \notin own
                 PROVE  <<p, k, seen.stories[k].text, ingested[p].role>> \in decided
      BY <1>9
    <3>1. /\ seen.approval.digest[2][k] # NoStory
          /\ seen.stories[k].text = seen.approval.digest[2][k][1]
      BY <1>2, <1>12 DEF Fits
    <3>2. Approved(ingested[p]) /\ ingested[p].role = seen.approval.digest[1]
      BY <1>12 DEF Fits, Approved
    <3> QED BY <1>2, <1>12, <3>1, <3>2 DEF Sound
  <2>2. \A a \in atWork : a.key = k => a.plan = p \/ k \in orphaned
    BY <1>1, <1>2 DEF KeysApart
  <2>3. new.plan = p /\ new.key = k
    BY <1>9
  <2> QED BY <1>9, <1>10, <2>1, <2>2, <2>3 DEF LaunchesAreCleared
<1> QED BY <1>11, <1>13, <1>14, <1>15, <1>16, <1>17
-----------------------------------------------------------------------------
LEMMA RegistryInvInit == RegistryInit => RegistryInv
<1> SUFFICES ASSUME RegistryInit PROVE RegistryInv
  OBVIOUS
<1>1. RegistryTyped
  BY DEF RegistryInit, RegistryTyped, Free
<1> QED BY <1>1 DEF RegistryInit, RegistryInv, ApprovalsHold, PollsHold, DispatchesHold,
                    WorkIsOpen, KeysApart, LaunchesAreCleared, Free

LEMMA RegistryInvStep == RegistryInv /\ RegistryNext => RegistryInv'
<1> SUFFICES ASSUME RegistryInv, RegistryNext PROVE RegistryInv'
  OBVIOUS
<1>1. /\ planFile \in [Plans -> [StoryKeys -> Nat \cup {NoStory}]]
      /\ ingesting \in [Plans -> Readings \cup {NoPlan}] /\ rewrites \in Nat
  BY DEF RegistryInv, RegistryTyped
<1>2. ASSUME NEW p \in Plans, NEW k \in StoryKeys, SavePlan(p, k) PROVE RegistryInv'
  <2>1. planFile' \in [Plans -> [StoryKeys -> Nat \cup {NoStory}]] /\ rewrites' \in Nat
    BY <1>1, <1>2 DEF SavePlan, NextText
  <2> QED BY <1>1, <1>2, <2>1, RegistryQuietStep DEF SavePlan
<1>3. ASSUME NEW p \in Plans, StartIngest(p) PROVE RegistryInv'
  <2>1. ingesting' \in [Plans -> Readings \cup {NoPlan}]
    BY <1>1, <1>3 DEF StartIngest, Readings
  <2> QED BY <1>1, <1>3, <2>1, RegistryQuietStep DEF StartIngest
<1>4. CASE UNCHANGED registryVars
  BY <1>1, <1>4, RegistryQuietStep DEF registryVars
<1>5. ASSUME NEW a \in atWork, AgentEnds(a) PROVE RegistryInv'
  BY <1>1, <1>5, RegistryQuietStep DEF AgentEnds
<1>6. ASSUME NEW p \in Plans,
             \/ EndIngest(p) \/ \E status \in {"approved", "pending"} : Decide(p, status)
             \/ ResetAfterPatch(p) \/ PatchDies(p) \/ PatchPlan(p) \/ SetRoleConfig(p)
             \/ Launch(p) \/ LaunchFails(p) \/ StartPolling(p) \/ EndPolling(p)
      PROVE  RegistryInv'
  BY <1>6, EndIngestStep, DecideStep, ResetAfterPatchStep, PatchDiesStep, RoleStep, LaunchStep,
     LaunchFailsStep, StartPollingStep, EndPollingStep
<1>7. ASSUME NEW p \in Plans, NEW k \in StoryKeys,
             PatchStory(p, k) \/ Rebrief(p, k) \/ StartDispatch(p, k) \/ SettleStory(p, k)
      PROVE  RegistryInv'
  BY <1>7, PatchStoryStep, StartDispatchStep, SettleStoryStep
<1> QED BY <1>2, <1>3, <1>4, <1>5, <1>6, <1>7 DEF RegistryNext, RefuseIngest

\* The other services leave the registry alone.
LEMMA RegistryInvHolds == ServicesSpec => []RegistryInv
<1>1. ServicesInit => RegistryInv
  BY RegistryInvInit DEF ServicesInit
<1>2. RegistryInv /\ UNCHANGED registryVars => RegistryInv'
  <2> SUFFICES ASSUME RegistryInv, UNCHANGED registryVars PROVE RegistryInv'
    OBVIOUS
  <2> QED BY RegistryQuietStep DEF registryVars, RegistryInv, RegistryTyped
<1>3. RegistryInv /\ [ServicesNext]_servicesVars => RegistryInv'
  <2>1. [ServicesNext]_servicesVars => RegistryNext \/ UNCHANGED registryVars
    BY DEF ServicesNext, servicesVars, OutboxRuns, ScanRuns, ConsumerRuns, DaemonRuns, GateRuns,
           AuditRuns, StoreRuns, TriageRuns, GradeRuns, RegistryRuns, OutboxOnly, ScanOnly,
           ConsumerOnly, DaemonOnly, GateOnly, AuditOnly, StoreOnly, TriageOnly, GradeOnly
  <2> QED BY <1>2, <2>1, RegistryInvStep
<1> QED BY <1>1, <1>3, PTL DEF ServicesSpec

\* An agent works on content whose last decision was an approval or on a text
\* the pipeline wrote, and no two plans share a worktree, for any plans, keys,
\* edits and mishaps (_patch_story_impl, _dispatch_story_impl).
THEOREM LaunchesAreClearedHolds == ServicesSpec => []LaunchesAreCleared
<1>1. RegistryInv => LaunchesAreCleared
  BY DEF RegistryInv
<1> QED BY RegistryInvHolds, <1>1, PTL
-----------------------------------------------------------------------------
\* The types: no manifest has a text that no edit has written.

\* The texts that edits may have written, and a manifest with no others.
TextsWritten == 0 .. MaxRewrites

TextsBounded(m) ==
    /\ m.role \in TextsWritten
    /\ \A k \in StoryKeys : m.stories[k] # NoStory => m.stories[k].text \in TextsWritten

CopiesWithin ==
    \A p \in Plans :
        /\ ingested[p] # NoPlan => TextsBounded(ingested[p])
        /\ polling[p] # NoPlan => TextsBounded(polling[p].read)
        /\ busy[p].at = "dispatch" => TextsBounded(busy[p].seen)

FilesWithin ==
    /\ planFile \in [Plans -> [StoryKeys -> TextsWritten \cup {NoStory}]]
    /\ \A p \in Plans : ingesting[p] # NoPlan =>
        ingesting[p].read \in [StoryKeys -> TextsWritten \cup {NoStory}]

RegistryBounded ==
    /\ RegistryInv /\ CopiesWithin /\ FilesWithin
    /\ trees \subseteq StoryKeys /\ orphaned \subseteq StoryKeys /\ slipped \subseteq Plans
    /\ rewrites \in 1 .. MaxRewrites /\ mishaps \in 0 .. MaxMishaps

\* One story of a manifest, or its role configuration, takes a text within the bound.
LEMMA StoryWithin ==
    ASSUME NEW m \in Manifest, TextsBounded(m), NEW k \in StoryKeys, NEW s, s.text \in TextsWritten
    PROVE  TextsBounded([m EXCEPT !.stories[k] = s])
<1>1. m.stories \in [StoryKeys -> Story \cup {NoStory}]
  BY DEF Manifest
<1> DEFINE e == [m EXCEPT !.stories[k] = s]
<1>2. e.role = m.role /\ e.stories = [m.stories EXCEPT ![k] = s]
  BY DEF Manifest
<1> HIDE DEF e
<1>3. TextsBounded(e)
  BY <1>1, <1>2 DEF TextsBounded
<1> QED BY <1>3 DEF e

LEMMA RoleWithin ==
    ASSUME NEW m \in Manifest, TextsBounded(m), NEW r \in TextsWritten
    PROVE  TextsBounded([m EXCEPT !.role = r]) /\ [m EXCEPT !.role = r] \in Manifest
BY DEF Manifest, TextsBounded, TextsWritten

LEMMA ResetWithin ==
    ASSUME NEW m \in Manifest, TextsBounded(m)
    PROVE  TextsBounded(Reset(m))
BY DEF Manifest, TextsBounded, Reset

\* What an ingest writes has texts of the file and of the manifest.
LEMMA EndIngestWithin ==
    ASSUME RegistryBounded, NEW p \in Plans, EndIngest(p)
    PROVE  \/ UNCHANGED ingested
           \/ \E e : TextsBounded(e) /\ ingested' = [ingested EXCEPT ![p] = e]
<1>1. PICK prior : prior = Prior(p)
  OBVIOUS
<1>2. PICK merged :
          merged = [prior EXCEPT !.stories =
                      [k \in StoryKeys |-> MergedStory(@[k], ingesting[p].read[k])]]
  OBVIOUS
<1>3. PICK e : e = [merged EXCEPT !.approval = OnIngest(@, merged)]
  OBVIOUS
<1>4. ingesting[p].read \in [StoryKeys -> TextsWritten \cup {NoStory}]
  BY DEF EndIngest, RegistryBounded, FilesWithin
<1>5. /\ prior.role \in TextsWritten /\ prior.stories \in [StoryKeys -> Story \cup {NoStory}]
      /\ \A k \in StoryKeys : prior.stories[k] # NoStory => prior.stories[k].text \in TextsWritten
      /\ prior = [stories |-> prior.stories, role |-> prior.role, approval |-> prior.approval]
  <2>1. CASE ingesting[p].overwrite \/ ingested[p] = NoPlan
    BY <1>1, <2>1, RegistryAssumption DEF Prior, TextsWritten
  <2>2. CASE ~(ingesting[p].overwrite \/ ingested[p] = NoPlan)
    <3>1. prior = ingested[p]
      BY <1>1, <2>2 DEF Prior
    <3>2. prior \in Manifest /\ TextsBounded(prior)
      BY <2>2, <3>1 DEF RegistryBounded, RegistryInv, RegistryTyped, CopiesWithin
    <3> QED BY <3>2 DEF Manifest, TextsBounded
  <2> QED BY <2>1, <2>2
<1>6. /\ merged.role = prior.role
      /\ merged.stories = [k \in StoryKeys |-> MergedStory(prior.stories[k], ingesting[p].read[k])]
      /\ merged = [stories |-> merged.stories, role |-> merged.role, approval |-> merged.approval]
  BY <1>2, <1>5
<1>7. e.role = merged.role /\ e.stories = merged.stories
  BY <1>3, <1>6
<1>8. ASSUME NEW k \in StoryKeys, e.stories[k] # NoStory PROVE e.stories[k].text \in TextsWritten
  <2>1. PICK old \in Story \cup {NoStory} : old = prior.stories[k]
    BY <1>5
  <2>2. PICK text \in TextsWritten \cup {NoStory} : text = ingesting[p].read[k]
    BY <1>4
  <2>3. e.stories[k] = MergedStory(old, text)
    BY <1>6, <1>7, <2>1, <2>2
  <2>4. CASE text = NoStory
    BY <1>5, <1>8, <2>1, <2>3, <2>4 DEF MergedStory
  <2>5. CASE text # NoStory /\ old = NoStory
    BY <2>3, <2>5 DEF MergedStory
  <2>6. CASE text # NoStory /\ old # NoStory
    <3>1. e.stories[k] = [old EXCEPT !.text = text, !.backend = "authored"]
      BY <2>3, <2>6 DEF MergedStory
    <3> QED BY <2>6, <3>1 DEF Story
  <2> QED BY <2>4, <2>5, <2>6
<1>9. TextsBounded(e)
  BY <1>5, <1>6, <1>7, <1>8 DEF TextsBounded
<1> QED BY <1>1, <1>2, <1>3, <1>9 DEF EndIngest

\* So have the manifests that the other actions write.
LEMMA WritesWithin ==
    ASSUME RegistryBounded, RegistryNext
    PROVE  \/ UNCHANGED ingested
           \/ \E p \in Plans : \E e : TextsBounded(e) /\ ingested' = [ingested EXCEPT ![p] = e]
<1> DEFINE Rewritten(p) == \E e : TextsBounded(e) /\ ingested' = [ingested EXCEPT ![p] = e]
<1>f. ASSUME NEW p \in Plans, ingested[p] # NoPlan
      PROVE  ingested[p] \in Manifest /\ TextsBounded(ingested[p])
  BY <1>f DEF RegistryBounded, RegistryInv, RegistryTyped, CopiesWithin
<1>n. ASSUME NEW p \in Plans, NextText(p) PROVE rewrites' \in TextsWritten
  BY <1>n, RegistryAssumption DEF NextText, RegistryBounded, TextsWritten
<1>1. ASSUME NEW p \in Plans, NEW status, Decide(p, status) PROVE Rewritten(p)
  <2>1. PICK m : m = ingested[p]
    OBVIOUS
  <2>2. m \in Manifest /\ TextsBounded(m)
    BY <1>1, <1>f, <2>1 DEF Decide, Unlocked
  <2>3. TextsBounded([m EXCEPT !.approval.status = status])
    BY <2>2 DEF Manifest, TextsBounded
  <2>4. ingested' = [ingested EXCEPT ![p] = [m EXCEPT !.approval.status = status]]
    BY <1>1, <2>1 DEF Decide
  <2> QED BY <2>3, <2>4
<1>2. ASSUME NEW p \in Plans, NEW k \in StoryKeys, PatchStory(p, k) \/ Rebrief(p, k) PROVE Rewritten(p)
  <2>1. PICK m, s, e : m = ingested[p] /\ s = [m.stories[k] EXCEPT !.text = rewrites']
                    /\ e = [m EXCEPT !.stories[k] = s]
    OBVIOUS
  <2>2. m \in Manifest /\ TextsBounded(m) /\ m.stories[k] # NoStory /\ rewrites' \in TextsWritten
    BY <1>2, <1>f, <1>n, <2>1 DEF PatchStory, Rebrief, Unlocked
  <2>3. s.text \in TextsWritten
    BY <2>1, <2>2 DEF Manifest, Story
  <2>4. ingested' = [ingested EXCEPT ![p] = e]
    BY <1>2, <2>1 DEF PatchStory, Rebrief
  <2> QED BY <2>1, <2>2, <2>3, <2>4, StoryWithin
<1>3. ASSUME NEW p \in Plans, ResetAfterPatch(p) PROVE Rewritten(p)
  <2>1. ingested[p] # NoPlan
    BY <1>3 DEF ResetAfterPatch, RegistryBounded, RegistryInv, RegistryTyped, Free, Patching
  <2> QED BY <1>3, <1>f, <2>1, ResetWithin DEF ResetAfterPatch
<1>4. ASSUME NEW p \in Plans, PatchPlan(p) \/ SetRoleConfig(p) PROVE Rewritten(p)
  <2>1. PICK m, u : m = ingested[p] /\ u = [m EXCEPT !.role = rewrites']
    OBVIOUS
  <2>2. m \in Manifest /\ TextsBounded(m) /\ rewrites' \in TextsWritten
    BY <1>4, <1>f, <1>n, <2>1 DEF PatchPlan, SetRoleConfig, Unlocked
  <2>3. u \in Manifest /\ TextsBounded(u) /\ TextsBounded(Reset(u))
    BY <2>1, <2>2, RoleWithin, ResetWithin
  <2>4. \E e \in {u, Reset(u)} : ingested' = [ingested EXCEPT ![p] = e]
    BY <1>4, <2>1 DEF PatchPlan, SetRoleConfig
  <2> QED BY <2>3, <2>4
<1>5. ASSUME NEW p \in Plans, Launch(p) PROVE Rewritten(p)
  <2>1. PICK m, k : m = busy[p].seen /\ k = busy[p].key
    OBVIOUS
  <2>2. m \in Manifest /\ TextsBounded(m) /\ k \in StoryKeys /\ m.stories[k] # NoStory
    <3>1. busy[p] \in Dispatches
      BY <1>5 DEF Launch, RegistryBounded, RegistryInv, RegistryTyped, Free, Patching
    <3>2. m \in Manifest /\ k \in StoryKeys
      BY <2>1, <3>1 DEF Dispatches
    <3> QED BY <1>5, <2>1, <3>2 DEF Launch, RegistryBounded, RegistryInv, CopiesWithin, DispatchesHold
  <2>3. PICK backend :
            ingested' = [ingested EXCEPT ![p] = [m EXCEPT !.stories[k].status = "in_progress",
                                                          !.stories[k].backend = backend]]
    BY <1>5, <2>1 DEF Launch
  <2>4. PICK s : s = [m.stories[k] EXCEPT !.status = "in_progress", !.backend = backend]
    OBVIOUS
  <2>5. m.stories[k] \in Story /\ m.stories[k].text \in TextsWritten
    BY <2>2 DEF Manifest, TextsBounded
  <2>6. s.text \in TextsWritten
    BY <2>4, <2>5 DEF Story
  <2>7. ingested' = [ingested EXCEPT ![p] = [m EXCEPT !.stories[k] = s]]
    <3>1. [m EXCEPT !.stories[k].status = "in_progress", !.stories[k].backend = backend]
            = [m EXCEPT !.stories[k] = s]
      BY <2>2, <2>4, <2>5 DEF Manifest, Story
    <3> QED BY <2>3, <3>1
  <2> QED BY <2>2, <2>6, <2>7, StoryWithin
<1>6. ASSUME NEW p \in Plans, NEW k \in StoryKeys, SettleStory(p, k) PROVE Rewritten(p)
  <2>1. PICK status : ingested' = [ingested EXCEPT ![p].stories[k].status = status]
    BY <1>6 DEF SettleStory
  <2>2. PICK m, s, e : m = ingested[p] /\ s = [m.stories[k] EXCEPT !.status = status]
                    /\ e = [m EXCEPT !.stories[k] = s]
    OBVIOUS
  <2>3. m \in Manifest /\ TextsBounded(m) /\ m.stories[k] # NoStory
    BY <1>6, <1>f, <2>2 DEF SettleStory, Unlocked, Gradable
  <2>4. s.text \in TextsWritten
    BY <2>2, <2>3 DEF Manifest, TextsBounded, Story
  <2>5. ingested' = [ingested EXCEPT ![p] = e]
    BY <2>1, <2>2
  <2> QED BY <2>2, <2>3, <2>4, <2>5, StoryWithin
<1>7. ASSUME NEW p \in Plans, EndPolling(p) PROVE Rewritten(p)
  <2>1. PICK m : m = polling[p].read
    OBVIOUS
  <2>2. PICK k \in Gradable(m) :
            ingested' = [ingested EXCEPT ![p] = [m EXCEPT !.stories[k].status = "todo"]]
    BY <1>7, <2>1 DEF EndPolling
  <2>3. PICK s, e : s = [m.stories[k] EXCEPT !.status = "todo"] /\ e = [m EXCEPT !.stories[k] = s]
    OBVIOUS
  <2>4. m \in Manifest /\ TextsBounded(m) /\ k \in StoryKeys /\ m.stories[k] # NoStory
    BY <1>7, <2>1, <2>2
    DEF EndPolling, Gradable, RegistryBounded, RegistryInv, RegistryTyped, CopiesWithin
  <2>5. s.text \in TextsWritten
    BY <2>3, <2>4 DEF Manifest, TextsBounded, Story
  <2>6. ingested' = [ingested EXCEPT ![p] = e]
    BY <2>2, <2>3
  <2> QED BY <2>3, <2>4, <2>5, <2>6, StoryWithin
<1> HIDE DEF Rewritten
<1>8. UNCHANGED ingested \/ \E p \in Plans : Rewritten(p)
  BY <1>1, <1>2, <1>3, <1>4, <1>5, <1>6, <1>7, EndIngestWithin
  DEF Rewritten, RegistryNext, StartIngest, RefuseIngest, PatchDies, LaunchFails, StartPolling, SavePlan,
      StartDispatch, AgentEnds, registryVars
<1> QED BY <1>8 DEF Rewritten

LEMMA RegistryBoundedStep ==
    ASSUME RegistryBounded, [RegistryNext]_registryVars
    PROVE  RegistryBounded'
<1>c. CASE UNCHANGED registryVars
  BY <1>c, RegistryInvStep
  DEF RegistryBounded, registryVars, registryHistory, RegistryInv, RegistryTyped, ApprovalsHold,
      PollsHold, DispatchesHold, WorkIsOpen, KeysApart, LaunchesAreCleared, CopiesWithin, FilesWithin
<1> SUFFICES ASSUME RegistryNext PROVE RegistryBounded'
  BY <1>c
<1>t. /\ RegistryInv /\ CopiesWithin /\ FilesWithin
      /\ planFile \in [Plans -> [StoryKeys -> TextsWritten \cup {NoStory}]]
      /\ ingested \in [Plans -> Manifest \cup {NoPlan}]
      /\ busy \in [Plans -> {Free, Patching} \cup Dispatches]
      /\ ingesting \in [Plans -> Readings \cup {NoPlan}]
      /\ polling \in [Plans -> [read : Manifest, slip : BOOLEAN] \cup {NoPlan}]
      /\ atWork \subseteq [plan : Plans, key : StoryKeys, approved : BOOLEAN, excused : BOOLEAN]
      /\ trees \subseteq StoryKeys /\ orphaned \subseteq StoryKeys /\ slipped \subseteq Plans
      /\ rewrites \in 1 .. MaxRewrites /\ mishaps \in 0 .. MaxMishaps
  BY DEF RegistryBounded, RegistryInv, RegistryTyped, FilesWithin
<1>1. RegistryInv'
  BY <1>t, RegistryInvStep
<1>2. \A p \in Plans : ingested'[p] # NoPlan => TextsBounded(ingested'[p])
  BY <1>t, WritesWithin DEF RegistryBounded, CopiesWithin
<1>3. \A p \in Plans : busy'[p].at = "dispatch" => TextsBounded(busy'[p].seen)
  <2>1. ASSUME NEW p \in Plans, NEW k \in StoryKeys, StartDispatch(p, k)
        PROVE  TextsBounded(ingested[p]) /\ busy' = [busy EXCEPT ![p] = [at |-> "dispatch", key |-> k, seen |-> ingested[p]]]
    BY <1>t, <2>1 DEF StartDispatch, Unlocked, CopiesWithin
  <2>2. \/ UNCHANGED busy
        \/ \E p \in Plans : busy' = [busy EXCEPT ![p] = Free] \/ busy' = [busy EXCEPT ![p] = Patching]
        \/ \E p \in Plans, k \in StoryKeys : StartDispatch(p, k)
    BY DEF RegistryNext, StartIngest, RefuseIngest, EndIngest, Decide, ResetAfterPatch, PatchDies,
           PatchPlan, SetRoleConfig, Launch, LaunchFails, StartPolling, EndPolling, SavePlan,
           PatchStory, Rebrief, SettleStory, AgentEnds, registryVars, Patching
  <2>3. CASE UNCHANGED busy
    BY <1>t, <2>3 DEF CopiesWithin
  <2>4. ASSUME NEW p \in Plans,
               busy' = [busy EXCEPT ![p] = Free] \/ busy' = [busy EXCEPT ![p] = Patching]
        PROVE  \A q \in Plans : busy'[q].at = "dispatch" => TextsBounded(busy'[q].seen)
    BY <1>t, <2>4 DEF CopiesWithin, Free, Patching
  <2>5. ASSUME NEW p \in Plans, NEW k \in StoryKeys, StartDispatch(p, k)
        PROVE  \A q \in Plans : busy'[q].at = "dispatch" => TextsBounded(busy'[q].seen)
    BY <1>t, <2>1, <2>5 DEF CopiesWithin
  <2> QED BY <2>2, <2>3, <2>4, <2>5
<1>4. \A p \in Plans : polling'[p] # NoPlan => TextsBounded(polling'[p].read)
  <2>1. ASSUME NEW p \in Plans, StartPolling(p)
        PROVE  /\ TextsBounded(ingested[p])
               /\ \E slip : polling' = [polling EXCEPT ![p] = [read |-> ingested[p], slip |-> slip]]
    <3>1. ingested[p] # NoPlan
      BY <2>1 DEF StartPolling, Gradable
    <3> QED BY <1>t, <2>1, <3>1 DEF StartPolling, CopiesWithin
  <2>2. \/ UNCHANGED polling
        \/ \E p \in Plans : polling' = [polling EXCEPT ![p] = NoPlan]
        \/ \E p \in Plans : StartPolling(p)
    BY DEF RegistryNext, StartIngest, RefuseIngest, EndIngest, Decide, ResetAfterPatch, PatchDies,
           PatchPlan, SetRoleConfig, Launch, LaunchFails, EndPolling, SavePlan,
           PatchStory, Rebrief, StartDispatch, SettleStory, AgentEnds, registryVars
  <2>3. CASE UNCHANGED polling
    BY <1>t, <2>3 DEF CopiesWithin
  <2>4. ASSUME NEW p \in Plans, polling' = [polling EXCEPT ![p] = NoPlan]
        PROVE  \A q \in Plans : polling'[q] # NoPlan => TextsBounded(polling'[q].read)
    BY <1>t, <2>4 DEF CopiesWithin
  <2>5. ASSUME NEW p \in Plans, StartPolling(p)
        PROVE  \A q \in Plans : polling'[q] # NoPlan => TextsBounded(polling'[q].read)
    BY <1>t, <2>1, <2>5 DEF CopiesWithin
  <2> QED BY <2>2, <2>3, <2>4, <2>5
<1>5. FilesWithin'
  <2>1. ASSUME NEW p \in Plans, NEW k \in StoryKeys, SavePlan(p, k) PROVE FilesWithin'
    <3>1. PICK text \in TextsWritten \cup {NoStory} : planFile' = [planFile EXCEPT ![p][k] = text]
      <4>1. rewrites' \in TextsWritten
        BY <1>t, <2>1, RegistryAssumption DEF SavePlan, NextText, TextsWritten
      <4> QED BY <2>1, <4>1 DEF SavePlan
    <3> QED BY <1>t, <2>1, <3>1 DEF FilesWithin, SavePlan
  <2>2. ASSUME NEW p \in Plans, StartIngest(p) PROVE FilesWithin'
    <3>1. PICK o : ingesting' = [ingesting EXCEPT ![p] = [read |-> planFile[p], overwrite |-> o]]
      BY <2>2 DEF StartIngest
    <3>2. planFile' = planFile /\ planFile[p] \in [StoryKeys -> TextsWritten \cup {NoStory}]
      BY <1>t, <2>2 DEF StartIngest
    <3> QED BY <1>t, <3>1, <3>2 DEF FilesWithin
  <2>3. ASSUME NEW p \in Plans, EndIngest(p) PROVE FilesWithin'
    BY <1>t, <2>3 DEF FilesWithin, EndIngest
  <2>4. ASSUME UNCHANGED <<planFile, ingesting>> PROVE FilesWithin'
    BY <1>t, <2>4 DEF FilesWithin
  <2> QED BY <2>1, <2>2, <2>3, <2>4
          DEF RegistryNext, RefuseIngest, Decide, ResetAfterPatch, PatchDies,
              PatchPlan, SetRoleConfig, Launch, LaunchFails, StartPolling, EndPolling,
              PatchStory, Rebrief, StartDispatch, SettleStory, AgentEnds, registryVars
<1>6. trees' \subseteq StoryKeys
  <2>1. ASSUME NEW p \in Plans, busy[p].at = "dispatch" PROVE busy[p].key \in StoryKeys
    BY <1>t, <2>1 DEF Free, Patching, Dispatches
  <2>2. ASSUME NEW p \in Plans, Launch(p) \/ LaunchFails(p) PROVE trees' \subseteq StoryKeys
    BY <1>t, <2>1, <2>2 DEF Launch, LaunchFails
  <2>3. ASSUME NEW p \in Plans, NEW k \in StoryKeys, SettleStory(p, k) PROVE trees' \subseteq StoryKeys
    BY <1>t, <2>3 DEF SettleStory
  <2>4. \/ UNCHANGED trees
        \/ \E p \in Plans : Launch(p) \/ LaunchFails(p) \/ \E k \in StoryKeys : SettleStory(p, k)
    BY DEF RegistryNext, StartIngest, RefuseIngest, EndIngest, Decide, ResetAfterPatch, PatchDies,
           PatchPlan, SetRoleConfig, StartPolling, EndPolling, SavePlan, PatchStory, Rebrief,
           StartDispatch, AgentEnds, registryVars
  <2> QED BY <1>t, <2>2, <2>3, <2>4
<1>7. orphaned' \subseteq StoryKeys /\ slipped' \subseteq Plans
  <2>1. ASSUME NEW p \in Plans, EndIngest(p) PROVE orphaned' \subseteq StoryKeys
    <3>1. PICK gone \in SUBSET atWork : orphaned' = orphaned \cup {a.key : a \in gone} \/ UNCHANGED orphaned
      BY <2>1 DEF EndIngest
    <3>2. \A a \in atWork : a.key \in StoryKeys
      BY <1>t
    <3> QED BY <1>t, <3>1, <3>2
  <2>2. ASSUME NEW p \in Plans, EndPolling(p) PROVE orphaned' \subseteq StoryKeys
    BY <1>t, <2>2 DEF EndPolling
  <2>3. UNCHANGED orphaned \/ \E p \in Plans : EndIngest(p) \/ EndPolling(p)
    BY DEF RegistryNext, StartIngest, RefuseIngest, Decide, ResetAfterPatch, PatchDies,
           PatchPlan, SetRoleConfig, Launch, LaunchFails, StartPolling, SavePlan,
           PatchStory, Rebrief, StartDispatch, SettleStory, AgentEnds, registryVars, registryHistory
  <2>4. ASSUME NEW p \in Plans, PatchDies(p) \/ SetRoleConfig(p) \/ EndPolling(p) \/ Decide(p, "approved")
                              \/ Decide(p, "pending")
        PROVE  slipped' \subseteq slipped \cup {p}
    BY <2>4 DEF PatchDies, SetRoleConfig, EndPolling, Decide
  <2>5. \/ UNCHANGED slipped
        \/ \E p \in Plans : PatchDies(p) \/ SetRoleConfig(p) \/ EndPolling(p) \/ Decide(p, "approved")
                              \/ Decide(p, "pending")
    BY DEF RegistryNext, StartIngest, RefuseIngest, EndIngest, ResetAfterPatch, PatchPlan, Launch,
           LaunchFails, StartPolling, SavePlan, PatchStory, Rebrief, StartDispatch, SettleStory,
           AgentEnds, registryVars, registryHistory
  <2> QED BY <1>t, <2>1, <2>2, <2>3, <2>4, <2>5
<1>8. rewrites' \in 1 .. MaxRewrites /\ mishaps' \in 0 .. MaxMishaps
  <2>1. UNCHANGED rewrites \/ (rewrites < MaxRewrites /\ rewrites' = rewrites + 1)
    <3>1. ASSUME NEW p \in Plans, NEW k \in StoryKeys,
                 SavePlan(p, k) \/ PatchStory(p, k) \/ Rebrief(p, k) \/ PatchPlan(p) \/ SetRoleConfig(p)
          PROVE  rewrites < MaxRewrites /\ rewrites' = rewrites + 1
      BY <3>1 DEF SavePlan, PatchStory, Rebrief, PatchPlan, SetRoleConfig, NextText
    <3>2. ASSUME NEW p \in Plans, PatchPlan(p) \/ SetRoleConfig(p)
          PROVE  rewrites < MaxRewrites /\ rewrites' = rewrites + 1
      BY <3>2 DEF PatchPlan, SetRoleConfig, NextText
    <3> QED BY <3>1, <3>2
            DEF RegistryNext, StartIngest, RefuseIngest, EndIngest, Decide, ResetAfterPatch, PatchDies,
                Launch, LaunchFails, StartPolling, EndPolling, StartDispatch, SettleStory, AgentEnds,
                registryVars
  <2>2. UNCHANGED mishaps \/ (mishaps < MaxMishaps /\ mishaps' = mishaps + 1)
    <3>1. ASSUME NEW p \in Plans, StartIngest(p) \/ PatchDies(p) \/ StartPolling(p)
          PROVE  UNCHANGED mishaps \/ (mishaps < MaxMishaps /\ mishaps' = mishaps + 1)
      BY <3>1 DEF StartIngest, PatchDies, StartPolling, Mishap
    <3> QED BY <3>1
            DEF RegistryNext, RefuseIngest, EndIngest, Decide, ResetAfterPatch, PatchPlan,
                SetRoleConfig, Launch, LaunchFails, EndPolling, SavePlan, PatchStory, Rebrief,
                StartDispatch, SettleStory, AgentEnds, registryVars
  <2> QED BY <1>t, <2>1, <2>2, RegistryAssumption
<1>9. CopiesWithin'
  BY <1>2, <1>3, <1>4 DEF CopiesWithin
<1> QED BY <1>1, <1>5, <1>6, <1>7, <1>8, <1>9 DEF RegistryBounded

LEMMA RegistryBoundedInit == RegistryInit => RegistryBounded
<1> SUFFICES ASSUME RegistryInit PROVE RegistryBounded
  OBVIOUS
<1>1. 1 \in TextsWritten /\ 1 \in 1 .. MaxRewrites /\ 0 \in 0 .. MaxMishaps
  BY RegistryAssumption DEF TextsWritten
<1>2. CopiesWithin /\ FilesWithin
  BY <1>1 DEF RegistryInit, CopiesWithin, FilesWithin, Free
<1> QED BY <1>1, <1>2, RegistryInvInit DEF RegistryInit, RegistryBounded

LEMMA RegistryTypes ==
    ASSUME RegistryBounded
    PROVE  RegistryTypeOK
<1> USE DEF RegistryBounded, RegistryInv, RegistryTyped, TextsWritten, TextsBounded
<1>1. \A p \in Plans : busy[p].at \in {"free", "patch", "dispatch"}
  BY DEF Free, Patching, Dispatches
<1>2. \A a \in atWork : /\ a.plan \in Plans /\ a.key \in StoryKeys
                       /\ {a.approved, a.excused} \subseteq BOOLEAN
  OBVIOUS
<1>3. planFile \in [Plans -> [StoryKeys -> 0 .. MaxRewrites \cup {NoStory}]]
  BY DEF FilesWithin
<1>4. \A p \in Plans :
        /\ ingested[p] = NoPlan \/ (ingested[p] \in Manifest /\ TextsBounded(ingested[p]))
        /\ polling[p] = NoPlan \/ (polling[p].read \in Manifest /\ TextsBounded(polling[p].read))
  BY DEF CopiesWithin
<1>5. trees \cup orphaned \subseteq StoryKeys
  OBVIOUS
<1> QED BY <1>1, <1>2, <1>3, <1>4, <1>5 DEF RegistryTypeOK
=============================================================================
